----------------------------- MODULE RelayEvents -----------------------------
(***************************************************************************)
(* The Relay events backend of src/relay_events_backend.rs: an inner,      *)
(* durable memory backend whose publish is replaced.  A publish to the     *)
(* actions topic is queued in the inner backend; a publish to any other    *)
(* topic is forwarded to Relay, one POST /v1/events per message, and       *)
(* stored nowhere.                                                         *)
(*                                                                         *)
(* A publish is a sequence of steps with an await between any two, so the  *)
(* publishes of several callers interleave with each other and with the    *)
(* operations of the inner backend.  A caller may drop a publish at any    *)
(* await; the HTTP client gives up on an answer after its timeout; and a   *)
(* request nobody waits for any more may still arrive.                     *)
(***************************************************************************)
EXTENDS DurableBackend

CONSTANTS ActionsTopic, Callers

VARIABLES
  call,    \* the publish each caller is in
  events,  \* external: the events Relay has accepted, oldest first
  late     \* external: requests under way that nobody waits for

rvars == <<dvars, call, events, late>>

NoCall == [stage |-> "none"]

\* The values of Stage: "topic", "schema" (prepare_publish), "ready", "inner"
\* (in the inner backend), "posted", "accepted" (forwarding), "ok", "failed".
Stage(p) == call[p].stage

At(p, stage) == call' = [call EXCEPT ![p].stage = stage]

Fails(p) == At(p, "failed")

RInit ==
  /\ DInit
  /\ call = [p \in Callers |-> NoCall]
  /\ events = <<>>
  /\ late = {}

-----------------------------------------------------------------------------
(* Relay.                                                                  *)

\* Without an id each POST has a key of its own.
BadKey(t, m) == IF m.id # NoId THEN <<m.id>> ELSE <<Len(events)>>

\* idempotency_key: the id of the message, or what is hashed for want of one.
Key(t, m) == IF m.id # NoId THEN <<m.id>> ELSE <<t, m.attr, m.data>>

Event(t, m) == [type |-> t, key |-> Key(t, m), msg |-> m]

\* "Relay owns dedupe": it answers 2xx to an event it knows.
Received(event) ==
  IF \E i \in DOMAIN events : events[i].key = event.key
  THEN UNCHANGED events
  ELSE events' = Append(events, event)

Sending(p) == Event(call[p].topic, call[p].batch[call[p].sent + 1])

\* What the callers C leave under way when they stop waiting.
UnderWay(C) == {Sending(p) : p \in {q \in C : Stage(q) = "posted"}}

LateArrives ==
  \E event \in late :
    /\ Received(event)
    /\ late' = late \ {event}
    /\ UNCHANGED <<dvars, call>>

LateLost ==
  \E event \in late : late' = late \ {event} /\ UNCHANGED <<dvars, call, events>>

-----------------------------------------------------------------------------
(* publish.                                                                *)

BeginPublish(p, t, batch) ==
  /\ call[p] = NoCall
  /\ call' = [call EXCEPT ![p] = [stage |-> "topic", topic |-> t, batch |-> batch,
                                  schema |-> NoSchema, sent |-> 0]]
  /\ UNCHANGED <<dvars, events, late>>

\* prepare_publish, first await.  A topic that does not exist has no schema.
ReadTopic(p) ==
  /\ Stage(p) = "topic"
  /\ Idle
  /\ LET bound == IF call[p].topic \in DOMAIN topic THEN topic[call[p].topic].schema
                  ELSE NoSchema
     IN  call' = [call EXCEPT
                    ![p].schema = bound,
                    ![p].stage = IF bound = NoSchema THEN "ready" ELSE "schema"]
  /\ UNCHANGED <<dvars, events, late>>

\* Second await: the schema by its name, which may be another by now, or gone.
ReadSchema(p) ==
  /\ Stage(p) = "schema"
  /\ Idle
  /\ IF Conforms(call[p].batch, call[p].schema) THEN At(p, "ready") ELSE Fails(p)
  /\ UNCHANGED <<dvars, events, late>>

\* To the actions topic: the inner publish, which looks at topic and schema again.
Enqueue(p) ==
  /\ Stage(p) = "ready"
  /\ call[p].topic = ActionsTopic
  /\ PublishBegin(ActionsTopic, call[p].batch)
  /\ At(p, "inner")
  /\ UNCHANGED <<disk, acknowledged, stored, events, late>>

Refuse(p) ==
  /\ Stage(p) = "ready"
  /\ call[p].topic = ActionsTopic
  /\ Idle
  /\ ActionsTopic \in DOMAIN topic =>
       ~Conforms(call[p].batch, topic[ActionsTopic].schema)
  /\ Fails(p)
  /\ UNCHANGED <<dvars, events, late>>

Enqueued(p) ==
  /\ Stage(p) = "inner"
  /\ \/ Saved /\ At(p, "ok")
     \/ SaveFails /\ Fails(p)
  /\ UNCHANGED <<events, late>>

\* To another topic: accept_event for each message.
Post(p) ==
  /\ Stage(p) = "ready"
  /\ call[p].topic # ActionsTopic
  /\ At(p, "posted")
  /\ UNCHANGED <<dvars, events, late>>

Accepted(p) ==
  /\ Stage(p) = "posted"
  /\ Received(Sending(p))
  /\ At(p, "accepted")
  /\ UNCHANGED <<dvars, late>>

Answered(p) ==
  /\ Stage(p) = "accepted"
  /\ call' = [call EXCEPT ![p].sent = @ + 1,
                          ![p].stage = IF call[p].sent + 1 = Len(call[p].batch)
                                       THEN "ok" ELSE "ready"]
  /\ UNCHANGED <<dvars, events, late>>

\* A message Relay does not take is skipped.
BadRejected(p) ==
  /\ Stage(p) = "posted"
  /\ call' = [call EXCEPT ![p].sent = @ + 1,
                          ![p].stage = IF call[p].sent + 1 = Len(call[p].batch)
                                       THEN "ok" ELSE "ready"]
  /\ UNCHANGED <<dvars, events, late>>

\* Relay cannot be reached, or answers with an error: so does publish, and the
\* rest of the batch is not sent.
Rejected(p) ==
  /\ Stage(p) = "posted"
  /\ Fails(p)
  /\ UNCHANGED <<dvars, events, late>>

\* The timeout covers the answer only: a Relay that does not take the request is
\* waited for.
BadTimedOut(p) ==
  /\ Stage(p) = "accepted"
  /\ Fails(p)
  /\ UNCHANGED <<dvars, events, late>>

\* The timeout of the HTTP client, before or after Relay has taken the event.
TimedOut(p) ==
  /\ Stage(p) \in {"posted", "accepted"}
  /\ Fails(p)
  /\ late' = late \cup UnderWay({p})
  /\ UNCHANGED <<dvars, events>>

\* The caller takes its answer.
Return(p) ==
  /\ Stage(p) \in {"ok", "failed"}
  /\ call' = [call EXCEPT ![p] = NoCall]
  /\ UNCHANGED <<dvars, events, late>>

\* The caller's connection is gone and its handler is dropped where it awaits;
\* the inner publish awaits nothing once it has the lock.
Abandon(p) ==
  /\ Stage(p) \in {"topic", "schema", "ready", "posted", "accepted"}
  /\ call' = [call EXCEPT ![p] = NoCall]
  /\ late' = late \cup UnderWay({p})
  /\ UNCHANGED <<dvars, events>>

Forwarding(p) == Post(p) \/ Accepted(p) \/ Answered(p) \/ Rejected(p) \/ TimedOut(p)

Preparing(p) == ReadTopic(p) \/ ReadSchema(p) \/ Enqueue(p) \/ Refuse(p)

PublishOf(p) == Preparing(p) \/ Enqueued(p) \/ Forwarding(p)

-----------------------------------------------------------------------------
(* Everything else.                                                        *)

\* Operations this backend hands to the inner one unchanged, and time.
Delegated ==
  /\ \/ Working /\ (Idle => lock'.op # "publish")
     \/ lock.op # "publish" /\ (Saved \/ SaveFails \/ Unsaved)
     \/ DTick
  /\ UNCHANGED <<call, events, late>>

\* The process starts again and loads the file.  main then creates the topics of
\* the catalog and the actions topic where they are missing, and ignores errors:
\* creations like any other (Delegated), which here may come at any time.
Restart ==
  /\ Crash
  /\ call' = [p \in Callers |-> NoCall]
  /\ late' = late \cup UnderWay(Callers)
  /\ UNCHANGED events

RelayStep == LateArrives \/ LateLost

RNext ==
  \/ \E p \in Callers :
       \/ \E t \in Topics, batch \in Batches : BeginPublish(p, t, batch)
       \/ PublishOf(p) \/ Return(p) \/ Abandon(p)
  \/ Delegated \/ RelayStep \/ Restart

RSpec == RInit /\ [][RNext]_rvars

\* The inner backend's lock is fair, so a caller's turn comes; what holds it goes
\* on; the HTTP client is answered or times out.  Relay itself owes nothing.
RFairness ==
  /\ WF_rvars(Delegated /\ LockedStep)
  /\ \A p \in Callers : /\ SF_rvars(Preparing(p))
                        /\ WF_rvars(Enqueued(p))
                        /\ WF_rvars(Post(p) \/ Answered(p) \/ TimedOut(p))

-----------------------------------------------------------------------------
(* Properties.                                                             *)

\* A forwarded publish that answers Ok has had every message of the batch taken
\* by Relay, under the key of that message.
OkMeansAccepted ==
  \A p \in Callers :
    Stage(p) = "ok" /\ call[p].topic # ActionsTopic =>
      \A m \in Range(call[p].batch) :
        \E i \in DOMAIN events : events[i].key = Key(call[p].topic, m)

\* However often a batch is sent again after errors, timeouts and restarts, and
\* however late its requests arrive, Relay has each message once.
AcceptedOnce ==
  \A i, j \in DOMAIN events :
    events[i].type = events[j].type /\ events[i].msg = events[j].msg => i = j

\* A publish is answered, whatever Relay and the disk do.
PublishAnswered ==
  \A p \in Callers : []<>(Stage(p) \in {"none", "ok", "failed"})
=============================================================================

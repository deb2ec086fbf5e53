---------------------------- MODULE ActionGateway ----------------------------
(***************************************************************************)
(* The action gateway of src/action_gateway.rs: POST /v1/actions queues a  *)
(* command on the actions topic, once per idempotency key.                 *)
(*                                                                         *)
(* A handler holds the mutex on by_key from its look-up to its answer, and  *)
(* publishes meanwhile: it is the caller Gateway of RelayEvents, and the   *)
(* mutex is held while that caller is in a publish.  Others publish to the *)
(* actions topic too, and delete it.  The map lives in memory only: a      *)
(* restart forgets it, and what then stops a second command is the         *)
(* deduplication of the topic, whose ids the key is one of (the attribute  *)
(* idempotency_key).                                                       *)
(***************************************************************************)
EXTENDS RelayEvents

CONSTANTS
  Gateway,
  Requests     \* the requests Relay may send

\* What a request puts on the topic.
Command(r) == [id |-> r.key, key |-> NoKey, attr |-> r.attr, data |-> r.data]

ASSUME ActionAssumption ==
  /\ ActionsTopic \in Topics
  /\ Gateway \in Callers
  /\ Requests \subseteq [key : ClientIds, attr : Attrs, data : Data]
  /\ \A r \in Requests : <<Command(r)>> \in Batches

VARIABLES
  byKey,     \* by_key: the keys whose result is remembered
  accepted,  \* history: the keys answered 2xx
  deleted    \* history: the actions topic has been deleted at some time

avars == <<rvars, byKey, accepted, deleted>>

AInit ==
  /\ RInit
  /\ byKey = {}
  /\ accepted = {}
  /\ deleted = FALSE

-----------------------------------------------------------------------------
(* handle_action.                                                          *)

MutexFree == call[Gateway] = NoCall

\* The key is in the map: its result is answered again.
Replay(r) ==
  /\ MutexFree
  /\ r.key \in byKey
  /\ accepted' = accepted \cup {r.key}
  /\ UNCHANGED <<rvars, byKey, deleted>>

\* It is not: the handler keeps the mutex and publishes.
Receive(r) ==
  /\ MutexFree
  /\ r.key \notin byKey
  /\ BeginPublish(Gateway, ActionsTopic, <<Command(r)>>)
  /\ UNCHANGED <<byKey, accepted, deleted>>

Remember ==
  LET key == call[Gateway].batch[1].id
  IN  byKey' = byKey \cup {key} /\ accepted' = accepted \cup {key}

\* Remembers, and answers 2xx, whatever publish answers.
BadCommandQueued ==
  /\ Stage(Gateway) \in {"ok", "failed"}
  /\ Remember
  /\ Return(Gateway)
  /\ UNCHANGED deleted

\* publish answers Ok: the result is remembered, and answered.
CommandQueued ==
  /\ Stage(Gateway) = "ok"
  /\ Remember
  /\ Return(Gateway)
  /\ UNCHANGED deleted

\* Tries again while it holds the mutex.
BadCommandFailed ==
  /\ Stage(Gateway) = "failed"
  /\ At(Gateway, "topic")
  /\ UNCHANGED <<dvars, events, late, byKey, accepted, deleted>>

\* publish answers with an error, of the save too when the command is on the
\* topic: 502, and nothing is remembered.
CommandFailed ==
  /\ Stage(Gateway) = "failed"
  /\ Return(Gateway)
  /\ UNCHANGED <<byKey, accepted, deleted>>

\* Relay hangs up: the guard is dropped with the handler.
HangUp == Abandon(Gateway) /\ UNCHANGED <<byKey, accepted, deleted>>

-----------------------------------------------------------------------------
(* Everything else.                                                        *)

Others ==
  \E p \in Callers \ {Gateway} :
    \/ \E t \in Topics, batch \in Batches : BeginPublish(p, t, batch)
    \/ Return(p) \/ Abandon(p)

Elsewhere ==
  /\ \/ \E p \in Callers : PublishOf(p)
     \/ Others \/ Delegated \/ RelayStep
  /\ deleted' = (deleted \/ ActionsTopic \in DOMAIN topic \ DOMAIN topic')
  /\ UNCHANGED <<byKey, accepted>>

Reboot ==
  /\ Restart
  /\ byKey' = {}
  /\ UNCHANGED <<accepted, deleted>>

Handle ==
  \/ \E r \in Requests : Replay(r) \/ Receive(r)
  \/ CommandQueued \/ CommandFailed \/ HangUp

ANext == Handle \/ Elsewhere \/ Reboot

ASpec == AInit /\ [][ANext]_avars

-----------------------------------------------------------------------------
(* Properties.                                                             *)

\* "A 2xx here means durably accepted": the command of every key answered 2xx is
\* on the actions topic, and in the file.  (A crash of the memory comes between
\* the two at any time; a topic that was deleted has lost its commands.)
AcceptedIsQueued ==
  \A key \in accepted :
    ~deleted => \A T \in {topic, disk.topic} :
      /\ ActionsTopic \in DOMAIN T
      /\ \E i \in DOMAIN T[ActionsTopic].log : T[ActionsTopic].log[i].id = key

\* A handler never keeps the mutex for ever, however often the saves fail and
\* whatever others do with the broker meanwhile.
MutexReleased == []<>MutexFree
=============================================================================

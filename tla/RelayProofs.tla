----------------------------- MODULE RelayProofs -----------------------------
(***************************************************************************)
(* What a publisher and Relay can rely on when publishes are forwarded,    *)
(* and what the sender of a command can rely on.                           *)
(*                                                                         *)
(* The argument is about the calls, the requests under way, and what Relay *)
(* has; of the inner broker it needs types only.  The steps of the inner   *)
(* broker are those of DurableBackend (RelayIsDurable), so what            *)
(* DurableProofs shows of it holds here as well.                           *)
(***************************************************************************)
EXTENDS DurableProofs, ActionGateway

EventSet == {Event(t, m) : t \in Topics, m \in NewMessage}

HasKey(key) == \E i \in DOMAIN events : events[i].key = key

Stages == {"topic", "schema", "ready", "inner", "posted", "accepted", "ok", "failed"}

CallState == [stage : Stages, topic : Topics, batch : Batches,
              schema : Schemas \cup {NoSchema}, sent : Nat]

\* Relay's events have the keys this backend gives them, each once.
EventsOK ==
  /\ events \in Seq(EventSet)
  /\ \A i, j \in DOMAIN events : events[i].key = events[j].key => i = j

\* The messages a call has sent are taken, and so is the one answered for.
SentTaken(p) ==
  /\ call[p].sent <= Len(call[p].batch)
  /\ \A i \in 1 .. call[p].sent : HasKey(Key(call[p].topic, call[p].batch[i]))
  /\ Stage(p) \in {"topic", "schema", "ready", "posted", "accepted"} =>
       call[p].sent < Len(call[p].batch)
  /\ Stage(p) = "accepted" => HasKey(Sending(p).key)
  /\ Stage(p) = "inner" => call[p].topic = ActionsTopic
  /\ Stage(p) = "ok" /\ call[p].topic # ActionsTopic =>
       call[p].sent = Len(call[p].batch)

CallOK(p) == call[p] = NoCall \/ (call[p] \in CallState /\ SentTaken(p))

RInv ==
  /\ EventsOK
  /\ late \subseteq EventSet
  /\ DOMAIN call = Callers
  /\ \A p \in Callers : CallOK(p)

-----------------------------------------------------------------------------
(* Relay and the requests.                                                 *)

LEMMA BatchMessages ==
  ASSUME NEW batch \in Batches
  PROVE  /\ batch \in Seq(NewMessage)
         /\ Len(batch) \in Nat \ {0}
         /\ \A i \in 1 .. Len(batch) : batch[i] \in NewMessage
<1>1. batch \in Seq(NewMessage) /\ batch # <<>>
  BY BackendAssumption
<1> QED
  BY <1>1

\* An event that arrives is taken, and nothing taken is given up.
LEMMA ReceivedKeeps ==
  ASSUME NEW event \in EventSet, EventsOK, Received(event)
  PROVE  /\ EventsOK'
         /\ HasKey(event.key)'
         /\ \A key : HasKey(key) => HasKey(key)'
<1>1. CASE \E i \in DOMAIN events : events[i].key = event.key
  <2>1. events' = events
    BY <1>1 DEF Received
  <2> QED
    BY <1>1, <2>1 DEF EventsOK, HasKey
<1>2. CASE ~\E i \in DOMAIN events : events[i].key = event.key
  <2>1. events' = Append(events, event)
    BY <1>2 DEF Received
  <2>2. events \in Seq(EventSet) /\ Len(events) \in Nat /\ DOMAIN events = 1 .. Len(events)
    BY DEF EventsOK
  <2>3. /\ events' \in Seq(EventSet)
        /\ DOMAIN events' = 1 .. Len(events) + 1
        /\ \A i \in 1 .. Len(events) : events'[i] = events[i]
        /\ events'[Len(events) + 1] = event
    BY <2>1, <2>2
  <2>4. \A key : HasKey(key) => HasKey(key)'
    BY <2>2, <2>3 DEF HasKey
  <2>5. HasKey(event.key)'
    BY <2>2, <2>3 DEF HasKey
  <2>6. \A i, j \in DOMAIN events' : events'[i].key = events'[j].key => i = j
    BY <1>2, <2>2, <2>3 DEF EventsOK
  <2> QED
    BY <2>3, <2>4, <2>5, <2>6 DEF EventsOK
<1> QED
  BY <1>1, <1>2

LEMMA SendingIsEvent ==
  ASSUME NEW p \in Callers, RInv, Stage(p) = "posted"
  PROVE  Sending(p) \in EventSet
<1>1. call[p] \in CallState /\ SentTaken(p)
  BY DEF RInv, CallOK, Stage, NoCall
<1>2. call[p].sent + 1 \in 1 .. Len(call[p].batch)
  BY <1>1, BatchMessages DEF SentTaken, CallState
<1>3. call[p].topic \in Topics /\ call[p].batch[call[p].sent + 1] \in NewMessage
  BY <1>1, <1>2, BatchMessages DEF CallState
<1> QED
  BY <1>3 DEF Sending, EventSet

LEMMA UnderWayAreEvents ==
  ASSUME NEW C \in SUBSET Callers, RInv
  PROVE  UnderWay(C) \subseteq EventSet
BY SendingIsEvent DEF UnderWay

-----------------------------------------------------------------------------
(* The calls.                                                              *)

\* A call stays in order while Relay takes more.
LEMMA CallKept ==
  ASSUME NEW p \in Callers, CallOK(p), call'[p] = call[p],
         \A key : HasKey(key) => HasKey(key)'
  PROVE  CallOK(p)'
BY DEF CallOK, SentTaken, Stage, Sending, Event

LEMMA OneCallMoves ==
  ASSUME RInv, NEW p \in Callers,
         DOMAIN call' = Callers, \A q \in Callers \ {p} : call'[q] = call[q],
         EventsOK', late' \subseteq EventSet,
         \A key : HasKey(key) => HasKey(key)',
         CallOK(p)'
  PROVE  RInv'
<1>1. \A q \in Callers \ {p} : CallOK(q)'
  BY CallKept DEF RInv
<1> QED
  BY <1>1 DEF RInv

\* A call that ends, or starts over, has nothing to keep.
LEMMA CallEnds ==
  ASSUME RInv, NEW p \in Callers, call' = [call EXCEPT ![p] = NoCall],
         UNCHANGED events, late' \subseteq EventSet
  PROVE  RInv'
<1>1. EventsOK' /\ \A key : HasKey(key) => HasKey(key)'
  BY DEF RInv, EventsOK, HasKey
<1>2. CallOK(p)' /\ DOMAIN call' = Callers /\ \A q \in Callers \ {p} : call'[q] = call[q]
  BY DEF RInv, CallOK
<1> QED
  BY <1>1, <1>2, OneCallMoves

\* A call goes on to a stage of which SentTaken says no more than of the last.
LEMMA StageMoves ==
  ASSUME RInv, NEW p \in Callers, NEW stage \in Stages,
         call[p] # NoCall,
         At(p, stage),
         UNCHANGED events, late' \subseteq EventSet,
         stage \in {"ready", "posted"} => Stage(p) \in {"topic", "schema", "ready"},
         stage = "inner" => call[p].topic = ActionsTopic,
         stage = "ok" => Stage(p) = "inner",
         stage \notin {"topic", "schema", "accepted"}
  PROVE  RInv'
<1>1. EventsOK' /\ \A key : HasKey(key) => HasKey(key)'
  BY DEF RInv, EventsOK, HasKey
<1>2. call[p] \in CallState /\ SentTaken(p)
  BY DEF RInv, CallOK
<1>3. /\ call'[p] = [call[p] EXCEPT !.stage = stage]
      /\ DOMAIN call' = Callers /\ \A q \in Callers \ {p} : call'[q] = call[q]
  BY DEF At, RInv
<1>4. call'[p] \in CallState
  BY <1>2, <1>3 DEF CallState
<1>5. SentTaken(p)'
  BY <1>1, <1>2, <1>3 DEF SentTaken, Stage, CallState
<1>6. CallOK(p)'
  BY <1>4, <1>5 DEF CallOK
<1> QED
  BY <1>1, <1>3, <1>6, OneCallMoves

-----------------------------------------------------------------------------
(* One lemma per action that does more than move a stage.                  *)

LEMMA BeginKeeps ==
  ASSUME RInv, NEW p \in Callers, NEW t \in Topics, NEW batch \in Batches,
         BeginPublish(p, t, batch)
  PROVE  RInv'
<1>1. EventsOK' /\ late' \subseteq EventSet /\ \A key : HasKey(key) => HasKey(key)'
  BY DEF RInv, EventsOK, HasKey, BeginPublish
<1>2. /\ call'[p] = [stage |-> "topic", topic |-> t, batch |-> batch,
                     schema |-> NoSchema, sent |-> 0]
      /\ DOMAIN call' = Callers /\ \A q \in Callers \ {p} : call'[q] = call[q]
  BY DEF BeginPublish, RInv
<1>3. call'[p] \in CallState
  BY <1>2 DEF CallState, Stages
<1>4. SentTaken(p)'
  BY <1>2, BatchMessages DEF SentTaken, Stage
<1> QED
  BY <1>1, <1>2, <1>3, <1>4, OneCallMoves DEF CallOK

LEMMA ReadTopicKeeps ==
  ASSUME RInv, NEW p \in Callers, ReadTopic(p),
         \A t \in DOMAIN topic : topic[t].schema \in Schemas \cup {NoSchema}
  PROVE  RInv'
<1>1. EventsOK' /\ late' \subseteq EventSet /\ \A key : HasKey(key) => HasKey(key)'
  BY DEF RInv, EventsOK, HasKey, ReadTopic
<1>2. call[p] \in CallState /\ SentTaken(p)
  BY DEF RInv, CallOK, ReadTopic, Stage, NoCall
<1>3. PICK c \in Schemas \cup {NoSchema} :
        call' = [call EXCEPT ![p].schema = c,
                             ![p].stage = IF c = NoSchema THEN "ready" ELSE "schema"]
  BY DEF ReadTopic
<1>4. /\ call'[p] = [call[p] EXCEPT !.schema = c,
                            !.stage = IF c = NoSchema THEN "ready" ELSE "schema"]
      /\ DOMAIN call' = Callers /\ \A q \in Callers \ {p} : call'[q] = call[q]
  BY <1>3 DEF RInv
<1>5. call'[p] \in CallState
  BY <1>2, <1>4 DEF CallState, Stages
<1>6. SentTaken(p)'
  BY <1>1, <1>2, <1>4 DEF SentTaken, Stage, CallState, ReadTopic
<1> QED
  BY <1>1, <1>4, <1>5, <1>6, OneCallMoves DEF CallOK

LEMMA AcceptedKeeps ==
  ASSUME RInv, NEW p \in Callers, Accepted(p)
  PROVE  RInv'
<1>1. call[p] \in CallState /\ SentTaken(p) /\ Stage(p) = "posted"
  BY DEF RInv, CallOK, Accepted, Stage, NoCall
<1>2. Sending(p) \in EventSet /\ Received(Sending(p)) /\ EventsOK
  BY <1>1, SendingIsEvent DEF Accepted, RInv
<1>3. EventsOK' /\ HasKey(Sending(p).key)' /\ \A key : HasKey(key) => HasKey(key)'
  <2> DEFINE event == Sending(p)
  <2>1. \A x \in EventSet : Received(x) =>
          EventsOK' /\ (\E i \in DOMAIN events' : events'[i].key = x.key)
                    /\ \A key : HasKey(key) => HasKey(key)'
    BY <1>2, ReceivedKeeps DEF HasKey
  <2>2. Sending(p)' .key = Sending(p).key
    BY <1>1 DEF Accepted, At, Sending, Event, Key, RInv, CallState
  <2> QED
    BY <1>2, <2>1, <2>2 DEF HasKey
<1>4. /\ call'[p] = [call[p] EXCEPT !.stage = "accepted"]
      /\ DOMAIN call' = Callers /\ \A q \in Callers \ {p} : call'[q] = call[q]
  BY DEF Accepted, At, RInv
<1>5. call'[p] \in CallState
  BY <1>1, <1>4 DEF CallState, Stages
<1>6. SentTaken(p)'
  BY <1>1, <1>3, <1>4 DEF SentTaken, Stage, CallState
<1>7. late' \subseteq EventSet
  BY DEF Accepted, RInv
<1> QED
  BY <1>3, <1>4, <1>5, <1>6, <1>7, OneCallMoves DEF CallOK

LEMMA AnsweredKeeps ==
  ASSUME RInv, NEW p \in Callers, Answered(p)
  PROVE  RInv'
<1>1. EventsOK' /\ late' \subseteq EventSet /\ \A key : HasKey(key) => HasKey(key)'
  BY DEF RInv, EventsOK, HasKey, Answered
<1>2. call[p] \in CallState /\ SentTaken(p) /\ Stage(p) = "accepted"
  BY DEF RInv, CallOK, Answered, Stage, NoCall
<1> DEFINE n == call[p].sent + 1
<1>3. n \in 1 .. Len(call[p].batch) /\ Len(call[p].batch) \in Nat
  BY <1>2, BatchMessages DEF SentTaken, CallState
<1>4. /\ call'[p] = [call[p] EXCEPT !.sent = n,
                         !.stage = IF n = Len(call[p].batch) THEN "ok" ELSE "ready"]
      /\ DOMAIN call' = Callers /\ \A q \in Callers \ {p} : call'[q] = call[q]
  BY DEF Answered, RInv
<1>5. call'[p] \in CallState
  <2>1. n \in Nat
    BY <1>3
  <2> HIDE DEF n
  <2> QED
    BY <1>2, <1>4, <2>1 DEF CallState, Stages
<1>6. \A i \in 1 .. n : HasKey(Key(call[p].topic, call[p].batch[i]))
  BY <1>2, <1>3 DEF SentTaken, CallState, Sending, Event
<1>7. SentTaken(p)'
  BY <1>1, <1>2, <1>3, <1>4, <1>6 DEF SentTaken, Stage, CallState
<1> QED
  BY <1>1, <1>4, <1>5, <1>7, OneCallMoves DEF CallOK

LEMMA PublishKeeps ==
  ASSUME RInv, Inv, NEW p \in Callers, PublishOf(p)
  PROVE  RInv'
<1> USE DEF RInv
<1>1. Stage(p) # "none" => call[p] # NoCall
  BY DEF Stage, NoCall
<1>2. Stages = {"topic", "schema", "ready", "inner", "posted", "accepted", "ok", "failed"}
  BY DEF Stages
<1> HIDE DEF RInv
<1>3. UnderWay({p}) \subseteq EventSet
  BY UnderWayAreEvents
<1>4. CASE ReadTopic(p)
  BY <1>4, ReadTopicKeeps DEF Inv, TopicsOK, TopicState
<1>5. CASE ReadSchema(p)
  BY <1>1, <1>2, <1>5, StageMoves DEF ReadSchema, Fails, RInv
<1>6. CASE Enqueue(p)
  BY <1>1, <1>2, <1>6, StageMoves DEF Enqueue, RInv
<1>7. CASE Refuse(p)
  BY <1>1, <1>2, <1>7, StageMoves DEF Refuse, Fails, RInv
<1>8. CASE Enqueued(p)
  BY <1>1, <1>2, <1>8, StageMoves DEF Enqueued, Fails, RInv
<1>9. CASE Post(p)
  BY <1>1, <1>2, <1>9, StageMoves DEF Post, RInv
<1>10. CASE Accepted(p)
  BY <1>10, AcceptedKeeps
<1>11. CASE Answered(p)
  BY <1>11, AnsweredKeeps
<1>12. CASE Rejected(p)
  BY <1>1, <1>2, <1>12, StageMoves DEF Rejected, Fails, RInv
<1>13. CASE TimedOut(p)
  BY <1>1, <1>2, <1>3, <1>13, StageMoves DEF TimedOut, Fails, RInv
<1> QED
  BY <1>4, <1>5, <1>6, <1>7, <1>8, <1>9, <1>10, <1>11, <1>12, <1>13
     DEF PublishOf, Preparing, Forwarding

\* A late request arrives or is lost.
LEMMA RelayKeeps ==
  ASSUME RInv, RelayStep
  PROVE  RInv'
<1>1. UNCHANGED call /\ late' \subseteq EventSet
  BY DEF RelayStep, LateArrives, LateLost, RInv
<1>2. EventsOK' /\ \A key : HasKey(key) => HasKey(key)'
  <2>1. CASE LateArrives
    <3>1. PICK event \in late : Received(event)
      BY <2>1 DEF LateArrives
    <3>2. event \in EventSet /\ EventsOK
      BY DEF RInv
    <3> QED
      BY <3>1, <3>2, ReceivedKeeps
  <2>2. CASE LateLost
    BY <2>2 DEF LateLost, RInv, EventsOK, HasKey
  <2> QED
    BY <2>1, <2>2 DEF RelayStep
<1>3. \A p \in Callers : CallOK(p)'
  BY <1>1, <1>2, CallKept DEF RInv
<1> QED
  BY <1>1, <1>2, <1>3 DEF RInv

LEMMA RestartKeeps ==
  ASSUME RInv, Restart
  PROVE  RInv'
<1>1. late' \subseteq EventSet
  BY UnderWayAreEvents DEF Restart, RInv
<1> QED
  BY <1>1 DEF Restart, RInv, EventsOK, CallOK

LEMMA SameCallsKeep ==
  ASSUME RInv, UNCHANGED <<call, events, late>>
  PROVE  RInv'
BY DEF RInv, EventsOK, CallOK, SentTaken, HasKey, Stage, Sending

LEMMA RInvStep ==
  ASSUME RInv, Inv, [RNext]_rvars
  PROVE  RInv'
<1>1. ASSUME NEW p \in Callers, Return(p) \/ Abandon(p)
      PROVE  RInv'
  BY <1>1, CallEnds, UnderWayAreEvents DEF Return, Abandon, RInv
<1>2. CASE Delegated \/ UNCHANGED rvars
  BY <1>2, SameCallsKeep DEF Delegated, rvars
<1> QED
  BY <1>1, <1>2, BeginKeeps, PublishKeeps, RelayKeeps, RestartKeeps DEF RNext

-----------------------------------------------------------------------------
(* The inner broker.                                                       *)

\* What this backend does to the inner one is what its clients may do.
LEMMA RelayIsDurable ==
  ASSUME RInv, [RNext]_rvars
  PROVE  [DNext]_dvars
<1>1. ASSUME NEW p \in Callers, Enqueue(p)
      PROVE  Working
  <2>1. call[p] \in CallState
    BY <1>1 DEF Enqueue, RInv, CallOK, Stage, NoCall
  <2>2. call[p].batch \in Batches /\ ActionsTopic \in Topics
    BY <1>1, <2>1 DEF Enqueue, CallState
  <2>3. lock' # Free
    BY <1>1 DEF Enqueue, PublishBegin, Free
  <2> QED
    BY <1>1, <2>2, <2>3 DEF Enqueue, Working, Publish
<1>2. ASSUME NEW p \in Callers, PublishOf(p), ~Enqueue(p)
      PROVE  Saved \/ SaveFails \/ UNCHANGED dvars
  BY <1>2 DEF PublishOf, Preparing, Forwarding, ReadTopic, ReadSchema, Refuse, Enqueued,
              Post, Accepted, Answered, Rejected, TimedOut
<1>3. ASSUME NEW p \in Callers, NEW t \in Topics, NEW batch \in Batches,
             BeginPublish(p, t, batch) \/ Return(p) \/ Abandon(p)
      PROVE  UNCHANGED dvars
  BY <1>3 DEF BeginPublish, Return, Abandon
<1>4. Delegated => Working \/ Saved \/ SaveFails \/ Unsaved \/ DTick
  BY DEF Delegated
<1>5. RelayStep => UNCHANGED dvars
  BY DEF RelayStep, LateArrives, LateLost
<1>6. Restart => Crash
  BY DEF Restart
<1>7. ASSUME NEW p \in Callers, Return(p) \/ Abandon(p)
      PROVE  UNCHANGED dvars
  BY <1>7 DEF Return, Abandon
<1>8. UNCHANGED rvars => UNCHANGED dvars
  BY DEF rvars
<1> QED
  BY <1>1, <1>2, <1>3, <1>4, <1>5, <1>6, <1>7, <1>8 DEF RNext, DNext

LEMMA RInvAlways == RSpec => [](RInv /\ DInv)
<1>1. RInit => RInv /\ DInv
  BY DInvInit, EmptySeq DEF RInit, RInv, EventsOK, CallOK
<1>2. RInv /\ DInv /\ [RNext]_rvars => RInv' /\ DInv'
  BY RInvStep, RelayIsDurable, DInvStep DEF DInv
<1> QED
  BY <1>1, <1>2, PTL DEF RSpec

\* A forwarded publish that answers Ok has had every message of the batch taken
\* by Relay.
THEOREM OkIsAccepted == RSpec => []OkMeansAccepted
<1>1. RInv => OkMeansAccepted
  <2> SUFFICES ASSUME RInv, NEW p \in Callers, Stage(p) = "ok",
                      call[p].topic # ActionsTopic,
                      NEW m \in Range(call[p].batch)
               PROVE  HasKey(Key(call[p].topic, m))
    BY DEF OkMeansAccepted, HasKey
  <2>1. call[p] \in CallState /\ SentTaken(p)
    BY DEF RInv, CallOK, Stage, NoCall
  <2>2. call[p].batch \in Seq(NewMessage) /\ call[p].sent = Len(call[p].batch)
    BY <2>1, BatchMessages DEF CallState, SentTaken
  <2>3. PICK i \in 1 .. Len(call[p].batch) : m = call[p].batch[i]
    BY <2>2 DEF Range
  <2> QED
    BY <2>1, <2>2, <2>3 DEF SentTaken
<1> QED
  BY <1>1, RInvAlways, PTL

\* Retries, timeouts, restarts and late requests give Relay no message twice.
THEOREM RelayHasOnce == RSpec => []AcceptedOnce
<1>1. RInv => AcceptedOnce
  <2> SUFFICES ASSUME RInv, NEW i \in DOMAIN events, NEW j \in DOMAIN events,
                      events[i].type = events[j].type, events[i].msg = events[j].msg
               PROVE  i = j
    BY DEF AcceptedOnce
  <2>1. events[i] \in EventSet /\ events[j] \in EventSet
    BY DEF RInv, EventsOK
  <2>2. \A x \in EventSet : x.key = Key(x.type, x.msg)
    BY DEF EventSet, Event
  <2>3. events[i].key = events[j].key
    BY <2>1, <2>2
  <2> QED
    BY <2>3 DEF RInv, EventsOK
<1> QED
  BY <1>1, RInvAlways, PTL

-----------------------------------------------------------------------------
(* A command whose key was answered 2xx is on the actions topic, in memory *)
(* and in the file.                                                        *)
(*                                                                         *)
(* The publish of the gateway either appends the command or finds its key  *)
(* among the ids the topic has seen, so ids seen must be in the log, in    *)
(* the file too, since a crash makes that the memory (SeenLogged).  While  *)
(* the command is being appended, the lock is the gateway's (GatewayLock). *)

InLog(T, id) ==
  /\ ActionsTopic \in DOMAIN T
  /\ \E i \in DOMAIN T[ActionsTopic].log : T[ActionsTopic].log[i].id = id

SeenLogged(T) ==
  ActionsTopic \in DOMAIN T => \A id \in T[ActionsTopic].seen : InLog(T, id)

\* The keys of which somebody was, or is about to be, told that they are queued.
Promised ==
  accepted \cup byKey
  \cup {call[p].batch[1].id : p \in {q \in {Gateway} : Stage(q) = "ok"}}

\* While the gateway is in a publish, it publishes one command to its topic.
GatewayCall ==
  call[Gateway] # NoCall =>
    /\ call[Gateway].topic = ActionsTopic
    /\ \E r \in Requests : call[Gateway].batch = <<Command(r)>>
    /\ Stage(Gateway) \notin {"posted", "accepted"}

\* One publish at most is in the inner broker, and the lock is its lock.
GatewayLock ==
  /\ \A p \in Callers : Stage(p) = "inner" => lock.op = "publish"
  /\ \A p, q \in Callers : Stage(p) = "inner" /\ Stage(q) = "inner" => p = q
  /\ Stage(Gateway) = "inner" =>
       lock.topic = ActionsTopic /\ lock.todo = call[Gateway].batch

KeysKept ==
  ~deleted => \A key \in Promised : InLog(topic, key) /\ InLog(disk.topic, key)

GInv ==
  /\ RInv /\ DInv
  /\ SeenLogged(topic) /\ SeenLogged(disk.topic)
  /\ GatewayCall /\ GatewayLock
  /\ KeysKept

-----------------------------------------------------------------------------
(* Logs and ids.                                                           *)

\* What is in the log stays there while the topic does.
LEMMA InLogKept ==
  ASSUME Inv, Next, NEW id, InLog(topic, id), ActionsTopic \in DOMAIN topic'
  PROVE  InLog(topic', id)
<1> DEFINE u == topic[ActionsTopic].log
           v == topic'[ActionsTopic].log
<1>1. IsPrefix(u, v)
  BY NextLogs DEF LogsKept, InLog
<1>2. u \in Seq(Message) /\ v \in Seq(Message)
  BY InvStep DEF Inv, TopicsOK, TopicState, InLog
<1>3. PICK i \in DOMAIN u : u[i].id = id
  BY DEF InLog
<1>4. i \in DOMAIN v /\ v[i] = u[i]
  <2> HIDE DEF u, v
  <2>1. Len(u) <= Len(v) /\ \A j \in 1 .. Len(u) : u[j] = v[j]
    BY <1>1, <1>2, PrefixPointwise
  <2> QED
    BY <1>2, <1>3, <2>1
<1> QED
  BY <1>3, <1>4 DEF InLog

\* Publishing a message leaves its id in the log.
LEMMA PublishLogsId ==
  ASSUME Inv, PublishStep, SeenLogged(topic), lock.topic = ActionsTopic,
         Head(lock.todo).id # NoId
  PROVE  InLog(topic', Head(lock.todo).id)
<1> DEFINE T == topic[ActionsTopic]
           m == Head(lock.todo)
<1>1. ActionsTopic \in DOMAIN topic /\ T \in TopicState /\ T.log \in Seq(Message)
  BY LockShape DEF Inv, LockOK, TopicsOK, TopicState, PublishStep
<1>2. topic' = [topic EXCEPT ![ActionsTopic] = IF m.id \in T.seen THEN T
                                               ELSE Appended(T, m)]
  BY DEF PublishStep
<1>3. ActionsTopic \in DOMAIN topic'
      /\ topic'[ActionsTopic] = IF m.id \in T.seen THEN T ELSE Appended(T, m)
  BY <1>1, <1>2 DEF Inv, TopicsOK
<1>4. CASE m.id \in T.seen
  BY <1>1, <1>3, <1>4 DEF SeenLogged, InLog
<1>5. CASE m.id \notin T.seen
  <2> DEFINE e == AsMessage(m, NoOrigin)
  <2>1. topic'[ActionsTopic].log = Append(T.log, e)
    BY <1>1, <1>3, <1>5 DEF Appended, TopicState
  <2>2. e.id = m.id
    BY DEF AsMessage
  <2> HIDE DEF e
  <2>3. LET v == Append(T.log, e) IN Len(T.log) + 1 \in DOMAIN v /\ v[Len(T.log) + 1] = e
    BY <1>1
  <2> QED
    BY <1>3, <2>1, <2>2, <2>3 DEF InLog
<1> QED
  BY <1>4, <1>5

\* No step but a publish adds an id to what the topic has seen.
LEMMA SeenKept ==
  ASSUME Inv, Next, ~PublishStep, ActionsTopic \in DOMAIN topic'
  PROVE  \/ ActionsTopic \in DOMAIN topic
            /\ topic'[ActionsTopic].seen = topic[ActionsTopic].seen
         \/ topic'[ActionsTopic].seen = {}
<1>1. topic \in [DOMAIN topic -> TopicState]
  BY DEF Inv, TopicsOK
<1>2. CASE UNCHANGED topic
  BY <1>2
<1>3. CASE PullDeadLetter
  <2>1. PICK d \in DOMAIN topic :
          \E copy : topic' = [topic EXCEPT ![d].log = Append(@, copy)]
    BY <1>3 DEF PullDeadLetter, Exhausted
  <2> QED
    BY <1>1, <2>1 DEF TopicState
<1>4. CASE TopicAdmin
  <2>1. ASSUME NEW t \in Topics, NEW c \in Schemas \cup {NoSchema},
               CreateTopic(t, c) \/ UpdateTopic(t, c) \/ DeleteTopic(t)
        PROVE  \/ ActionsTopic \in DOMAIN topic
                  /\ topic'[ActionsTopic].seen = topic[ActionsTopic].seen
               \/ topic'[ActionsTopic].seen = {}
    BY <1>1, <2>1 DEF CreateTopic, UpdateTopic, DeleteTopic, Put, Drop, TopicState
  <2>2. ASSUME NEW t \in Topics, DeleteTopic(t)
        PROVE  \/ ActionsTopic \in DOMAIN topic
                  /\ topic'[ActionsTopic].seen = topic[ActionsTopic].seen
               \/ topic'[ActionsTopic].seen = {}
    BY <1>1, <2>2 DEF DeleteTopic, Drop, TopicState
  <2> QED
    BY <1>2, <1>4, <2>1, <2>2 DEF TopicAdmin, CreateSchema, DeleteSchema
<1>5. CASE DataPlane /\ ~PullDeadLetter
  <2>1. UNCHANGED topic
    BY <1>5 DEF DataPlane, Publish, PublishBegin, Consume, PullBegin, AckBegin, NackBegin,
       ExtendDeadline, LockedStep, PullStep, SweepExpired, SweepEnd, PullPass,
       PullFilterOut, PullDeliver, PullPanic, PullEnd, AckStep, AckExpired,
       NackStep, Tick
  <2> QED
    BY <1>2, <2>1
<1>6. CASE Seek \/ SubscriptionAdmin
  <2>1. UNCHANGED topic
    BY <1>6 DEF Seek, SeekToTime, SeekToSnapshot, SubscriptionAdmin,
       CreateSubscription, UpdateSubscription, DeleteSubscription, CreateSnapshot,
       DeleteSnapshot
  <2> QED
    BY <1>2, <2>1
<1> QED
  BY <1>3, <1>4, <1>5, <1>6 DEF Next

LEMMA SeenStep ==
  ASSUME Inv, Next, SeenLogged(topic)
  PROVE  SeenLogged(topic')
<1> SUFFICES ASSUME ActionsTopic \in DOMAIN topic',
                    NEW id \in topic'[ActionsTopic].seen
             PROVE  InLog(topic', id)
  BY DEF SeenLogged
<1>1. CASE ActionsTopic \in DOMAIN topic /\ id \in topic[ActionsTopic].seen
  BY <1>1, InLogKept DEF SeenLogged
<1>2. CASE PublishStep /\ ~(ActionsTopic \in DOMAIN topic /\ id \in topic[ActionsTopic].seen)
  <2> DEFINE T == topic[lock.topic]
             m == Head(lock.todo)
  <2>1. topic \in [DOMAIN topic -> TopicState] /\ lock.topic \in DOMAIN topic
    BY <1>2, LockShape DEF Inv, LockOK, TopicsOK, PublishStep
  <2>2. topic' = [topic EXCEPT ![lock.topic] = IF m.id \in T.seen THEN T
                                               ELSE Appended(T, m)]
    BY <1>2 DEF PublishStep
  <2>3. lock.topic = ActionsTopic
    BY <1>2, <2>1, <2>2
  <2>4. T \in TopicState /\ id \notin T.seen
    BY <1>2, <2>1, <2>3
  <2>5. m.id \notin T.seen /\ topic'[ActionsTopic] = Appended(T, m)
    BY <2>1, <2>2, <2>3, <2>4
  <2>6. id \in T.seen \cup ({m.id} \ {NoId})
    BY <2>4, <2>5 DEF Appended, TopicState
  <2>7. id = m.id /\ m.id # NoId
    BY <2>4, <2>6
  <2> QED
    BY <1>2, <2>3, <2>7, PublishLogsId
<1>3. CASE ~PublishStep
  BY <1>1, <1>3, SeenKept
<1> QED
  BY <1>1, <1>2, <1>3

-----------------------------------------------------------------------------
(* The gateway is a caller of the Relay backend.                           *)

LEMMA ActionIsRelay ==
  ASSUME [ANext]_avars
  PROVE  [RNext]_rvars
<1>1. ASSUME NEW r \in Requests, Receive(r)
      PROVE  BeginPublish(Gateway, ActionsTopic, <<Command(r)>>)
  BY <1>1 DEF Receive
<1>2. /\ Gateway \in Callers /\ ActionsTopic \in Topics
      /\ \A r \in Requests : <<Command(r)>> \in Batches
  BY ActionAssumption
<1>3. ASSUME NEW r \in Requests, Receive(r)
      PROVE  RNext
  BY <1>1, <1>2, <1>3 DEF RNext
<1>4. ASSUME NEW r \in Requests, Replay(r)
      PROVE  UNCHANGED rvars
  BY <1>4 DEF Replay
<1>5. CommandQueued \/ CommandFailed \/ HangUp => RNext
  BY <1>2 DEF CommandQueued, CommandFailed, HangUp, RNext
<1>6. Elsewhere => RNext
  BY DEF Elsewhere, Others, RNext
<1>7. Reboot => RNext
  BY DEF Reboot, RNext
<1>8. UNCHANGED avars => UNCHANGED rvars
  BY DEF avars
<1> QED
  BY <1>3, <1>4, <1>5, <1>6, <1>7, <1>8 DEF ANext, Handle

LEMMA CommandIds ==
  ASSUME GatewayCall, call[Gateway] # NoCall
  PROVE  /\ Len(call[Gateway].batch) = 1
         /\ Head(call[Gateway].batch) = call[Gateway].batch[1]
         /\ call[Gateway].batch[1].id \in ClientIds
<1>1. PICK r \in Requests : call[Gateway].batch = <<Command(r)>>
  BY DEF GatewayCall
<1>2. r.key \in ClientIds
  BY ActionAssumption
<1>3. Command(r).id = r.key
  BY DEF Command
<1> QED
  BY <1>1, <1>2, <1>3

LEMMA GatewayCallStep ==
  ASSUME RInv, GatewayCall, [ANext]_avars
  PROVE  GatewayCall'
<1>1. Gateway \in Callers /\ DOMAIN call = Callers
  BY ActionAssumption DEF RInv
<1>2. ASSUME call'[Gateway] = call[Gateway]
      PROVE  GatewayCall'
  BY <1>2 DEF GatewayCall, Stage
<1>3. ASSUME call'[Gateway] = NoCall
      PROVE  GatewayCall'
  BY <1>3 DEF GatewayCall
<1>4. ASSUME NEW r \in Requests, Receive(r)
      PROVE  GatewayCall'
  <2>1. call'[Gateway] = [stage |-> "topic", topic |-> ActionsTopic,
                          batch |-> <<Command(r)>>, schema |-> NoSchema, sent |-> 0]
    BY <1>1, <1>4 DEF Receive, BeginPublish
  <2> QED
    BY <2>1 DEF GatewayCall, Stage
<1>5. ASSUME PublishOf(Gateway)
      PROVE  GatewayCall'
  <2>1. call[Gateway] # NoCall /\ call[Gateway].topic = ActionsTopic
        /\ Stage(Gateway) \notin {"posted", "accepted"}
    BY <1>5 DEF GatewayCall, PublishOf, Preparing, Forwarding, ReadTopic, ReadSchema,
       Enqueue, Refuse, Enqueued, Post, Accepted, Answered, Rejected, TimedOut, Stage,
       NoCall
  <2>2. call[Gateway] \in CallState
    BY <1>1, <2>1 DEF RInv, CallOK
  <2>3. /\ call'[Gateway].topic = call[Gateway].topic
        /\ call'[Gateway].batch = call[Gateway].batch
        /\ call'[Gateway].stage \notin {"posted", "accepted"}
    BY <1>1, <1>5, <2>1, <2>2 DEF PublishOf, Preparing, Forwarding, ReadTopic, ReadSchema,
       Enqueue, Refuse, Enqueued, Post, Accepted, Answered, Rejected, TimedOut, At, Fails,
       CallState
  <2> QED
    BY <2>1, <2>3 DEF GatewayCall, Stage
<1>6. ASSUME NEW p \in Callers \ {Gateway}, PublishOf(p)
      PROVE  call'[Gateway] = call[Gateway]
  BY <1>1, <1>6 DEF PublishOf, Preparing, Forwarding, ReadTopic, ReadSchema,
       Enqueue, Refuse, Enqueued, Post, Accepted, Answered, Rejected, TimedOut, At, Fails
<1>7. Others => call'[Gateway] = call[Gateway]
  BY <1>1 DEF Others, BeginPublish, Return, Abandon
<1>8. Delegated \/ RelayStep => call' = call
  BY DEF Delegated, RelayStep, LateArrives, LateLost
<1>9. CASE Elsewhere
  BY <1>2, <1>5, <1>6, <1>7, <1>8, <1>9 DEF Elsewhere
<1>10. CASE CommandQueued \/ CommandFailed \/ HangUp
  BY <1>1, <1>3, <1>10 DEF CommandQueued, CommandFailed, HangUp, Return, Abandon
<1>11. CASE Reboot
  BY <1>1, <1>3, <1>11 DEF Reboot, Restart
<1>12. ASSUME (\E r \in Requests : Replay(r)) \/ UNCHANGED avars
       PROVE  call' = call
  BY <1>12 DEF Replay, avars, rvars
<1> QED
  BY <1>2, <1>4, <1>9, <1>10, <1>11, <1>12 DEF ANext, Handle

\* A step inside an operation that publishes goes on publishing.
LEMMA WorkingPublish ==
  ASSUME Working, lock.op = "publish"
  PROVE  PublishStep /\ lock' = Rest /\ lock' # Free
<1>1. lock # Free
  BY DEF Free
<1>2. ~Publish /\ ~Consume
  BY <1>1 DEF Publish, PublishBegin, Consume, PullBegin, AckBegin, NackBegin,
     ExtendDeadline, Idle
<1>3. LockedStep => PublishStep
  BY DEF LockedStep, PullStep, SweepExpired, SweepEnd, PullPass, PullFilterOut,
     PullDeliver, PullDeadLetter, PullPanic, PullEnd, Takeable, AckStep, AckExpired,
     NackStep
<1> QED
  BY <1>2, <1>3 DEF Working, PublishStep

LEMMA GatewayLockStep ==
  ASSUME RInv, GatewayCall, GatewayLock, [ANext]_avars
  PROVE  GatewayLock'
<1>1. Gateway \in Callers /\ DOMAIN call = Callers
  BY ActionAssumption DEF RInv
<1>2. ASSUME UNCHANGED lock,
             \A p \in Callers : Stage(p)' = "inner" => call'[p] = call[p]
      PROVE  GatewayLock'
  BY <1>1, <1>2 DEF GatewayLock, Stage
<1>3. ASSUME \A p \in Callers : Stage(p)' # "inner"
      PROVE  GatewayLock'
  BY <1>1, <1>3 DEF GatewayLock
<1>4. ASSUME NEW p \in Callers, Enqueue(p)
      PROVE  GatewayLock'
  <2>1. Idle /\ lock' = [op |-> "publish", topic |-> ActionsTopic, todo |-> call[p].batch]
    BY <1>4 DEF Enqueue, PublishBegin
  <2>2. \A q \in Callers : Stage(q) # "inner"
    BY <2>1 DEF GatewayLock, Idle, Free
  <2>3. call' = [call EXCEPT ![p] = [call[p] EXCEPT !.stage = "inner"]]
    BY <1>4 DEF Enqueue, At
  <2>4. \A q \in Callers \ {p} : Stage(q)' # "inner"
    BY <1>1, <2>2, <2>3 DEF Stage
  <2>5. call[p] \in CallState
    BY <1>4 DEF Enqueue, RInv, CallOK, Stage, NoCall
  <2>6. call'[p].batch = call[p].batch
    BY <1>1, <2>3, <2>5 DEF CallState
  <2>7. \A q \in Callers : Stage(q)' = "inner" => q = p
    BY <2>4
  <2>8. lock'.op = "publish" /\ lock'.topic = ActionsTopic /\ lock'.todo = call'[p].batch
    BY <2>1, <2>6
  <2> QED
    BY <1>1, <2>7, <2>8 DEF GatewayLock, Stage
<1>5. ASSUME NEW p \in Callers, Enqueued(p)
      PROVE  GatewayLock'
  <2>1. \A q \in Callers \ {p} : Stage(q) # "inner"
    BY <1>5 DEF Enqueued, GatewayLock
  <2>2. \E stage \in {"ok", "failed"} : At(p, stage)
    BY <1>5 DEF Enqueued, Fails
  <2>3. call[p] \in CallState
    BY <1>5 DEF Enqueued, RInv, CallOK, Stage, NoCall
  <2>4. \A q \in Callers : Stage(q)' # "inner"
    BY <1>1, <2>1, <2>2, <2>3 DEF At, Stage, CallState
  <2> QED
    BY <1>3, <2>4
<1>6. ASSUME NEW p \in Callers, PublishOf(p), ~Enqueue(p), ~Enqueued(p)
      PROVE  GatewayLock'
  <2>1. UNCHANGED lock
    BY <1>6 DEF PublishOf, Preparing, Forwarding, ReadTopic, ReadSchema, Refuse, Post,
       Accepted, Answered, Rejected, TimedOut, dvars, vars
  <2>2. call[p] \in CallState
    BY <1>6 DEF PublishOf, Preparing, Forwarding, ReadTopic, ReadSchema, Refuse, Post,
       Accepted, Answered, Rejected, TimedOut, RInv, CallOK, Stage, NoCall
  <2>3. Stage(p)' # "inner" /\ \A q \in Callers \ {p} : call'[q] = call[q]
    BY <1>1, <1>6, <2>2 DEF PublishOf, Preparing, Forwarding, ReadTopic, ReadSchema,
       Refuse, Post, Accepted, Answered, Rejected, TimedOut, At, Fails, Stage, CallState
  <2> QED
    BY <1>2, <2>1, <2>3
<1>7. ASSUME NEW p \in Callers, Return(p) \/ Abandon(p)
      PROVE  GatewayLock'
  <2>1. UNCHANGED lock /\ call' = [call EXCEPT ![p] = NoCall]
    BY <1>7 DEF Return, Abandon, dvars, vars
  <2>2. Stage(p)' # "inner" /\ \A q \in Callers \ {p} : call'[q] = call[q]
    BY <1>1, <2>1 DEF Stage, NoCall
  <2> QED
    BY <1>2, <2>1, <2>2
<1>8. ASSUME NEW p \in Callers, NEW t, NEW batch, BeginPublish(p, t, batch)
      PROVE  GatewayLock'
  <2>1. UNCHANGED lock
    BY <1>8 DEF BeginPublish, dvars, vars
  <2>2. Stage(p)' # "inner" /\ \A q \in Callers \ {p} : call'[q] = call[q]
    BY <1>1, <1>8 DEF BeginPublish, Stage
  <2> QED
    BY <1>2, <2>1, <2>2
<1>9. CASE Delegated
  <2>1. UNCHANGED call
    BY <1>9 DEF Delegated
  <2>2. CASE \A p \in Callers : Stage(p) # "inner"
    BY <1>3, <2>1, <2>2 DEF Stage
  <2>3. CASE \E p \in Callers : Stage(p) = "inner"
    <3>1. lock.op = "publish" /\ ~Idle
      BY <2>3 DEF GatewayLock, Idle, Free
    <3>2. Working
      BY <1>9, <3>1 DEF Delegated, DTick, Tick
    <3>3. lock' = Rest /\ lock' # Free
      BY <3>1, <3>2, WorkingPublish
    <3>4. Len(lock.todo) # 1 /\ lock' = [lock EXCEPT !.todo = Tail(@)]
      BY <3>3 DEF Rest
    <3>5. Stage(Gateway) # "inner"
      <4>1. Stage(Gateway) = "inner" => call[Gateway] # NoCall
        BY DEF Stage, NoCall
      <4> QED
        BY <3>4, <4>1, CommandIds DEF GatewayLock
    <3>6. lock'.op = "publish"
      BY <3>1, <3>4
    <3> QED
      BY <2>1, <3>5, <3>6 DEF GatewayLock, Stage
  <2> QED
    BY <2>2, <2>3
<1>10. CASE RelayStep \/ UNCHANGED avars \/ \E r \in Requests : Replay(r)
  <2>1. UNCHANGED <<call, lock>>
    BY <1>10 DEF RelayStep, LateArrives, LateLost, Replay, avars, rvars, dvars, vars
  <2> QED
    BY <1>2, <2>1
<1>11. CASE Reboot
  BY <1>3, <1>11 DEF Reboot, Restart, Stage, NoCall
<1>12. CASE Handle
  BY <1>1, <1>7, <1>8, <1>10, <1>12 DEF Handle, Receive, CommandQueued, CommandFailed, HangUp
<1>13. CASE Elsewhere
  BY <1>4, <1>5, <1>6, <1>7, <1>8, <1>9, <1>10, <1>13 DEF Elsewhere, Others
<1> QED
  BY <1>10, <1>11, <1>12, <1>13 DEF ANext

-----------------------------------------------------------------------------
(* What was promised.                                                      *)

\* A step after which everything is still there.
LEMMA KeysStay ==
  ASSUME DInv, DNext, NEW id, InLog(topic, id), InLog(disk.topic, id),
         ActionsTopic \in DOMAIN topic => ActionsTopic \in DOMAIN topic' \/ Crash
  PROVE  InLog(topic', id) /\ InLog(disk'.topic, id)
<1>1. CASE Crash
  BY <1>1 DEF Crash
<1>2. CASE ~Crash
  <2>1. InLog(topic', id)
    BY <1>2, DurableStep, InLogKept DEF InLog, DInv
  <2>2. disk'.topic \in {topic', disk.topic}
    BY DiskStep DEF Image, DInv, Fields
  <2> QED
    BY <2>1, <2>2
<1> QED
  BY <1>1, <1>2

LEMMA SeenLoggedStep ==
  ASSUME DInv, SeenLogged(topic), SeenLogged(disk.topic), [DNext]_dvars
  PROVE  SeenLogged(topic') /\ SeenLogged(disk'.topic)
<1>1. CASE UNCHANGED dvars
  BY <1>1 DEF dvars, vars
<1>2. CASE Crash
  BY <1>2 DEF Crash
<1>3. CASE DNext /\ ~Crash
  <2>1. SeenLogged(topic')
    BY <1>3, DurableStep, SeenStep DEF DInv
  <2>2. disk'.topic \in {topic', disk.topic}
    BY <1>3, DiskStep DEF Image, DInv, Fields
  <2> QED
    BY <2>1, <2>2
<1> QED
  BY <1>1, <1>2, <1>3

\* The publish of the gateway ends with its command on the topic and in the file.
LEMMA CommandStored ==
  ASSUME GInv, Enqueued(Gateway), Stage(Gateway)' = "ok"
  PROVE  /\ InLog(topic', call[Gateway].batch[1].id)
         /\ InLog(disk'.topic, call[Gateway].batch[1].id)
<1>1. Gateway \in Callers /\ Stage(Gateway) = "inner" /\ call[Gateway] # NoCall
  BY ActionAssumption DEF Enqueued, Stage, NoCall
<1>2. call[Gateway] \in CallState /\ DOMAIN call = Callers
  BY <1>1 DEF GInv, RInv, CallOK
<1>3. Saved
  BY <1>1, <1>2 DEF Enqueued, Fails, At, Stage, CallState
<1>4. /\ lock.op = "publish" /\ lock.topic = ActionsTopic
      /\ lock.todo = call[Gateway].batch
  BY <1>1 DEF GInv, GatewayLock
<1>5. PublishStep /\ disk' = Image'
  BY <1>3, <1>4, AnswerOps DEF Saved, Persist
<1>6. Head(lock.todo) = call[Gateway].batch[1] /\ Head(lock.todo).id # NoId
  BY <1>1, <1>4, CommandIds, BackendAssumption DEF GInv
<1>7. InLog(topic', Head(lock.todo).id)
  BY <1>4, <1>5, <1>6, PublishLogsId DEF GInv, DInv
<1> QED
  BY <1>5, <1>6, <1>7 DEF Image

\* What is promised after a step: what was before, or the command just queued.
LEMMA NewPromise ==
  ASSUME RInv, GatewayCall, [ANext]_avars
  PROVE  \/ Promised' \subseteq Promised
         \/ /\ Enqueued(Gateway) /\ Stage(Gateway)' = "ok"
            /\ Promised' \subseteq Promised \cup {call[Gateway].batch[1].id}
<1> DEFINE ReadyIds == {call[p].batch[1].id : p \in {q \in {Gateway} : Stage(q) = "ok"}}
<1>1. Gateway \in Callers /\ DOMAIN call = Callers
  BY ActionAssumption DEF RInv
<1>2. Promised = accepted \cup byKey \cup ReadyIds
  BY DEF Promised
<1>3. Promised' = accepted' \cup byKey' \cup ReadyIds'
  BY DEF Promised
<1>4. Stage(Gateway)' # "ok" => ReadyIds' = {}
  OBVIOUS
<1>5. call'[Gateway] = call[Gateway] => ReadyIds' = ReadyIds
  BY DEF Stage
<1>6. CASE \E r \in Requests : Replay(r)
  BY <1>2, <1>3, <1>5, <1>6 DEF Replay, rvars
<1>7. CASE \E r \in Requests : Receive(r)
  <2>1. Stage(Gateway)' # "ok"
    BY <1>1, <1>7 DEF Receive, BeginPublish, Stage
  <2> QED
    BY <1>2, <1>3, <1>4, <1>7, <2>1 DEF Receive
<1>8. CASE CommandQueued
  <2>1. call[Gateway].batch[1].id \in ReadyIds
    BY <1>8 DEF CommandQueued
  <2>2. Stage(Gateway)' # "ok"
    BY <1>1, <1>8 DEF CommandQueued, Return, Stage, NoCall
  <2> QED
    BY <1>2, <1>3, <1>4, <1>8, <2>1, <2>2 DEF CommandQueued, Remember
<1>9. CASE CommandFailed \/ HangUp
  <2>1. Stage(Gateway)' # "ok"
    BY <1>1, <1>9 DEF CommandFailed, HangUp, Return, Abandon, Stage, NoCall
  <2> QED
    BY <1>2, <1>3, <1>4, <1>9, <2>1 DEF CommandFailed, HangUp
<1>10. CASE Reboot
  <2>1. Stage(Gateway)' # "ok"
    BY <1>1, <1>10 DEF Reboot, Restart, Stage, NoCall
  <2> QED
    BY <1>2, <1>3, <1>4, <1>10, <2>1 DEF Reboot
<1>11. CASE UNCHANGED avars
  BY <1>2, <1>3, <1>5, <1>11 DEF avars, rvars
<1>12. CASE Elsewhere
  <2>1. UNCHANGED <<accepted, byKey>>
    BY <1>12 DEF Elsewhere
  <2>2. CASE call'[Gateway] = call[Gateway]
    BY <1>2, <1>3, <1>5, <2>1, <2>2
  <2>3. CASE Stage(Gateway)' # "ok"
    BY <1>2, <1>3, <1>4, <2>1, <2>3
  <2>4. CASE call'[Gateway] # call[Gateway] /\ Stage(Gateway)' = "ok"
    <3>1. PublishOf(Gateway)
      <4>1. ASSUME NEW p \in Callers \ {Gateway}, PublishOf(p)
            PROVE  call'[Gateway] = call[Gateway]
        BY <1>1, <4>1 DEF PublishOf, Preparing, Forwarding, ReadTopic, ReadSchema, Enqueue,
           Refuse, Enqueued, Post, Accepted, Answered, Rejected, TimedOut, At, Fails
      <4>2. Others => call'[Gateway] = call[Gateway]
        BY <1>1 DEF Others, BeginPublish, Return, Abandon
      <4>3. Delegated \/ RelayStep => call' = call
        BY DEF Delegated, RelayStep, LateArrives, LateLost
      <4> QED
        BY <1>12, <2>4, <4>1, <4>2, <4>3 DEF Elsewhere
    <3>2. call[Gateway] \in CallState
      BY <1>1, <3>1 DEF RInv, CallOK, PublishOf, Preparing, Forwarding, ReadTopic,
         ReadSchema, Enqueue, Refuse, Enqueued, Post, Accepted, Answered, Rejected, TimedOut,
         Stage, NoCall
    <3>3. ~Answered(Gateway)
      BY <3>2 DEF Answered, GatewayCall, Stage, CallState, NoCall
    <3>4. Enqueued(Gateway)
      BY <1>1, <2>4, <3>1, <3>2, <3>3 DEF PublishOf, Preparing, Forwarding, ReadTopic,
         ReadSchema, Enqueue, Refuse, Post, Accepted, Rejected, TimedOut, At, Fails, Stage,
         CallState
    <3>5. call'[Gateway].batch = call[Gateway].batch
      BY <1>1, <3>2, <3>4 DEF Enqueued, Fails, At, CallState
    <3>6. ReadyIds' = {call[Gateway].batch[1].id}
      BY <2>4, <3>5
    <3> HIDE DEF ReadyIds
    <3> QED
      BY <1>2, <1>3, <2>1, <2>4, <3>4, <3>6
  <2> QED
    BY <2>2, <2>3, <2>4
<1> QED
  BY <1>6, <1>7, <1>8, <1>9, <1>10, <1>11, <1>12 DEF ANext, Handle

LEMMA KeysKeptStep ==
  ASSUME GInv, [ANext]_avars
  PROVE  KeysKept'
<1> SUFFICES ASSUME ~deleted', NEW key \in Promised'
             PROVE  InLog(topic', key) /\ InLog(disk'.topic, key)
  BY DEF KeysKept, InLog
<1>1. [DNext]_dvars
  BY ActionIsRelay, RelayIsDurable DEF GInv
<1>2. CASE key \notin Promised
  BY <1>2, NewPromise, CommandStored DEF GInv
<1>3. CASE key \in Promised
  <2>1. ~deleted
    BY DEF ANext, Handle, Replay, Receive, CommandQueued, CommandFailed, HangUp,
       Elsewhere, Reboot, avars
  <2>2. InLog(topic, key) /\ InLog(disk.topic, key)
    BY <1>3, <2>1 DEF GInv, KeysKept
  <2>3. CASE UNCHANGED dvars
    BY <2>2, <2>3 DEF dvars, vars
  <2>4. CASE ~UNCHANGED dvars
    <3>1. Elsewhere \/ Reboot
      BY <2>4 DEF ANext, Handle, Replay, Receive, BeginPublish, CommandQueued,
         CommandFailed, HangUp, Return, Abandon, avars, rvars
    <3>2. ActionsTopic \in DOMAIN topic' \/ Crash
      BY <2>2, <3>1 DEF Elsewhere, Reboot, Restart, InLog
    <3> QED
      BY <1>1, <2>2, <2>4, <3>2, KeysStay DEF GInv
  <2> QED
    BY <2>3, <2>4
<1> QED
  BY <1>2, <1>3

LEMMA GInvStep == GInv /\ [ANext]_avars => GInv'
<1> SUFFICES ASSUME GInv, [ANext]_avars PROVE GInv'
  OBVIOUS
<1>1. [RNext]_rvars /\ [DNext]_dvars
  BY ActionIsRelay, RelayIsDurable DEF GInv
<1>2. RInv' /\ DInv'
  BY <1>1, RInvStep, DInvStep DEF GInv, DInv
<1>3. SeenLogged(topic)' /\ SeenLogged(disk.topic)'
  BY <1>1, SeenLoggedStep DEF GInv, SeenLogged, InLog
<1>4. GatewayCall' /\ GatewayLock' /\ KeysKept'
  BY GatewayCallStep, GatewayLockStep, KeysKeptStep DEF GInv
<1> QED
  BY <1>2, <1>3, <1>4 DEF GInv

LEMMA GInvInit == AInit => GInv
<1> SUFFICES ASSUME AInit PROVE GInv
  OBVIOUS
<1>1. RInv /\ DInv
  BY DInvInit, EmptySeq DEF AInit, RInit, RInv, EventsOK, CallOK
<1>2. SeenLogged(topic) /\ SeenLogged(disk.topic)
  BY DEF AInit, RInit, DInit, Init, Image, NoEntries, SeenLogged
<1>3. \A p \in Callers : call[p] = NoCall /\ Stage(p) = "none"
  BY DEF AInit, RInit, Stage, NoCall
<1>4. Promised = {}
  BY <1>3, ActionAssumption DEF AInit, Promised
<1> QED
  BY <1>1, <1>2, <1>3, <1>4, ActionAssumption DEF GInv, GatewayCall, GatewayLock, KeysKept

\* "A 2xx here means durably accepted": whatever saves fail, whenever the process
\* dies and whatever others publish, the command of a key answered 2xx is on the
\* actions topic and in the file, unless the topic was deleted.
THEOREM AcceptedCommands == ASpec => []AcceptedIsQueued
<1>1. GInv => AcceptedIsQueued
  BY DEF GInv, KeysKept, Promised, AcceptedIsQueued, InLog
<1> QED
  BY GInvInit, <1>1, GInvStep, PTL DEF ASpec

\* A retried command is queued once: not the gateway's map, which a restart
\* empties, but the topic's own set of ids keeps a key from being appended twice,
\* whoever publishes to the topic.
THEOREM CommandsQueuedOnce == ASpec => []PublishedOnce
<1>1. AInit => GInv /\ OInv
  <2> SUFFICES ASSUME AInit PROVE OInv
    BY GInvInit
  <2>1. DInit
    BY DEF AInit, RInit
  <2> QED
    BY <2>1, OInvInit
<1>2. GInv /\ OInv /\ [ANext]_avars => (GInv /\ OInv)'
  BY GInvStep, OInvStep, ActionIsRelay, RelayIsDurable DEF GInv
<1>3. OInv => PublishedOnce
  BY OnceIsPublishedOnce DEF OInv
<1> QED
  BY <1>1, <1>2, <1>3, PTL DEF ASpec
=============================================================================

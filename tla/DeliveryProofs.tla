--------------------------- MODULE DeliveryProofs ---------------------------
(***************************************************************************)
(* What the broker says of a message it delivers: which ack id names it,   *)
(* what must be acked before it, how often it is delivered, that it is     *)
(* dead-lettered once and stored once.                                     *)
(*                                                                         *)
(* Almost all steps are quiet: they end leases, settle leased messages or  *)
(* start a subscription anew.  Only three count a delivery, and these know *)
(* that the message they took is outstanding and not blocked (StepShape).  *)
(* Each property follows from this shape and the books (CInv).             *)
(***************************************************************************)
EXTENDS RefinementProofs

Ids(S) == {AckId(l) : l \in S.leases}

\* T is S, some of whose leases have ended, by an ack or not.
Quieter(S, T) ==
  /\ T.spec.topic = S.spec.topic /\ T.attempts = S.attempts
  /\ Ids(T) \subseteq Ids(S)
  /\ S.acked \subseteq T.acked /\ T.acked \subseteq S.acked \cup Leased(S)

\* T was created or sought just now.
Restarted(T) ==
  T.acked = {} /\ T.leases = {} /\ T.attempts = [p \in Position |-> 0]

QuietSub(s) ==
  \/ /\ s \in DOMAIN sub /\ Quieter(sub[s], sub'[s])
     /\ resets'[s] = resets[s] /\ (s \in stale => s \in stale')
  \/ Restarted(sub'[s]) /\ resets'[s] = resets[s] + 1

\* Logs stay, are created empty, or get a message from a publisher.
QuietLog(t) ==
  \/ t \notin DOMAIN topic /\ topic'[t].log = <<>>
  \/ t \in DOMAIN topic /\ topic'[t].log = topic[t].log
  \/ /\ t \in DOMAIN topic
     /\ \E m \in Message : /\ m.origin = NoOrigin
                           /\ topic'[t].log = Append(topic[t].log, m)

QuietStep ==
  /\ \A s \in DOMAIN sub' : QuietSub(s)
  /\ \A t \in DOMAIN topic' : QuietLog(t)
  /\ \A s \in Subs : resets'[s] = resets[s] \/ resets'[s] = resets[s] + 1

\* Pull counts a delivery of a message that is outstanding and not blocked,
\* and puts the subscription back as T.
CountsDelivery(T) ==
  LET S == sub[lock.sub]
      p == Taken.pos
  IN  /\ Takeable /\ lock.sub \in DOMAIN sub
      /\ p \in Position /\ p <= Len(LogOf(S))
      /\ p \notin S.acked \cup Leased(S)
      /\ ~OrderingBlocked(S, LogOf(S), p)
      /\ sub' = [sub EXCEPT ![lock.sub] = T]
      /\ T.spec = S.spec
      /\ T.attempts = [S.attempts EXCEPT ![p] = NextAttempt(S, p)]
      /\ UNCHANGED <<resets, stale>>

DeliverStep ==
  \E T : LET S == sub[lock.sub]
             p == Taken.pos
         IN  /\ CountsDelivery(T) /\ UNCHANGED topic /\ ~Exhausted(S, p)
             /\ T.acked = S.acked /\ Ids(T) = Ids(S) \cup {<<p, NextAttempt(S, p)>>}

SettleStep(T) ==
  LET S == sub[lock.sub]
  IN  /\ CountsDelivery(T)
      /\ T.acked = S.acked \cup {Taken.pos} /\ Ids(T) = Ids(S)

FilterStep ==
  \E T : SettleStep(T) /\ UNCHANGED topic /\ ~Exhausted(sub[lock.sub], Taken.pos)

DeadLetterStep ==
  \E T : LET S == sub[lock.sub]
             d == S.spec.dead.topic
             p == Taken.pos
         IN  /\ SettleStep(T) /\ Exhausted(S, p) /\ d \in DOMAIN topic
             /\ \E m \in Message :
                  /\ m.id = NoId
                  /\ m.origin = [sub |-> lock.sub, pos |-> p, life |-> resets[lock.sub]]
                  /\ topic' = [topic EXCEPT ![d].log = Append(@, m)]

-----------------------------------------------------------------------------
(* What the operations of Subscription do to ack ids and attempts.         *)

LEMMA IdsLeased ==
  ASSUME NEW S
  PROVE  Leased(S) = {id[1] : id \in Ids(S)}
<1>1. \A l : AckId(l)[1] = l.pos
  BY DEF AckId
<1> QED
  BY <1>1 DEF Leased, Ids

LEMMA RestartedFresh ==
  ASSUME NEW S, NEW spec, NEW cursor
  PROVE  /\ Restarted(NewSubscription(spec, cursor))
         /\ Restarted(Sought(S, cursor))
BY DEF Restarted, NewSubscription, Sought

LEMMA LeaseEndsQuietly ==
  ASSUME NEW S, S \in SubscriptionState, NEW l \in S.leases
  PROVE  /\ Quieter(S, Ack(S, l)) /\ Quieter(S, Forget(S, l))
         /\ Quieter(S, Nack(S, l)) /\ Quieter(S, Expire(S, l))
<1>1. l.pos \in Leased(S)
  BY DEF Leased
<1> QED
  BY <1>1 DEF Quieter, Ids, Ack, Forget, Nack, Expire, SubscriptionState

LEMMA RestQuiet ==
  ASSUME NEW S, Booked(S)
  PROVE  /\ Quieter(S, Aged(S))
         /\ \A ids, seconds : Quieter(S, Extend(S, ids, seconds))
<1>1. S \in SubscriptionState
  BY DEF Booked
<1>2. Quieter(S, Aged(S))
  <2>1. \A l \in S.leases : AckId(OlderLease(l)) = AckId(l)
    BY <1>1 DEF OlderLease, AckId, SubscriptionState, Lease
  <2>2. /\ Aged(S).leases = {OlderLease(l) : l \in S.leases}
        /\ Aged(S).spec = S.spec /\ Aged(S).acked = S.acked
        /\ Aged(S).attempts = S.attempts
    BY <1>1 DEF Aged, SubscriptionState
  <2>3. Ids(Aged(S)) \subseteq Ids(S)
    BY <2>1, <2>2 DEF Ids
  <2> QED
    BY <2>2, <2>3 DEF Quieter
<1>3. ASSUME NEW ids, NEW seconds
      PROVE  Quieter(S, Extend(S, ids, seconds))
  <2> DEFINE E == Extend(S, ids, seconds)
             ext(l) == IF \E i \in DOMAIN ids : ids[i] = AckId(l)
                       THEN [l EXCEPT !.left = seconds] ELSE l
  <2>1. \A l \in S.leases : AckId(ext(l)) = AckId(l)
    BY <1>1 DEF SubscriptionState, Lease, AckId
  <2>2. /\ E.leases = {ext(l) : l \in S.leases}
        /\ E.spec = S.spec /\ E.acked = S.acked /\ E.attempts = S.attempts
    BY <1>1 DEF Extend, SubscriptionState
  <2> HIDE DEF E, ext
  <2>3. Ids(E) \subseteq Ids(S)
    BY <2>1, <2>2 DEF Ids
  <2> QED
    BY <2>2, <2>3 DEF Quieter, E
<1> QED
  BY <1>2, <1>3
-----------------------------------------------------------------------------
(* Quiet steps.                                                            *)

LEMMA LogsAlone ==
  ASSUME UNCHANGED topic
  PROVE  \A t \in DOMAIN topic' : QuietLog(t)
BY DEF QuietLog

LEMMA ResetsAlone ==
  ASSUME UNCHANGED resets
  PROVE  \A s \in Subs : resets'[s] = resets[s] \/ resets'[s] = resets[s] + 1
OBVIOUS

LEMMA SameQuiet ==
  ASSUME NEW S
  PROVE  Quieter(S, S)
BY DEF Quieter

LEMMA SubsAlone ==
  ASSUME DOMAIN sub' \subseteq DOMAIN sub, \A s \in DOMAIN sub' : sub'[s] = sub[s],
         UNCHANGED resets, stale \cap Subs \subseteq stale', SubsOK
  PROVE  \A s \in DOMAIN sub' : QuietSub(s)
BY SameQuiet DEF QuietSub, SubsOK

\* A step that replaces one subscription by a quieter T.
LEMMA OneQuiet ==
  ASSUME SubsOK, NEW s \in DOMAIN sub, NEW T, sub' = [sub EXCEPT ![s] = T],
         Quieter(sub[s], T), UNCHANGED <<topic, resets, stale>>
  PROVE  QuietStep
<1>1. /\ DOMAIN sub' = DOMAIN sub /\ sub'[s] = T
      /\ \A r \in DOMAIN sub : r # s => sub'[r] = sub[r]
  OBVIOUS
<1>2. \A r \in DOMAIN sub' : QuietSub(r)
  BY <1>1, SameQuiet DEF QuietSub
<1> QED
  BY <1>2, LogsAlone, ResetsAlone DEF QuietStep

\* ... or by one that starts anew.
LEMMA OneRestarts ==
  ASSUME SubsOK, resets \in [Subs -> 0 .. MaxResets],
         NEW s \in Subs, NEW T, Restarted(T), sub'[s] = T,
         \A r \in DOMAIN sub' \ {s} : r \in DOMAIN sub /\ sub'[r] = sub[r],
         resets' = [resets EXCEPT ![s] = @ + 1], UNCHANGED topic,
         stale \ {s} \subseteq stale'
  PROVE  QuietStep
<1>1. \A r \in Subs : resets'[r] = IF r = s THEN resets[s] + 1 ELSE resets[r]
  OBVIOUS
<1>2. ASSUME NEW r \in DOMAIN sub' PROVE QuietSub(r)
  <2>1. CASE r = s
    BY <1>1, <2>1 DEF QuietSub
  <2>2. CASE r # s
    <3>1. r \in DOMAIN sub /\ sub'[r] = sub[r] /\ r \in Subs
      BY <2>2 DEF SubsOK
    <3> QED
      BY <1>1, <2>2, <3>1, SameQuiet DEF QuietSub
  <2> QED
    BY <2>1, <2>2
<1> QED
  BY <1>1, <1>2, LogsAlone DEF QuietStep

LEMMA TopicAdminQuiet ==
  ASSUME Inv, TopicAdmin
  PROVE  QuietStep
<1>1. UNCHANGED <<sub, resets>> /\ stale \subseteq stale'
  BY DEF TopicAdmin, CreateTopic, UpdateTopic, DeleteTopic, CreateSchema, DeleteSchema
<1>2. \A s \in DOMAIN sub' : QuietSub(s)
  BY <1>1, SubsAlone DEF Inv
<1>3. \A t \in DOMAIN topic' : QuietLog(t)
  <2>1. ASSUME NEW u \in Topics, NEW c, CreateTopic(u, c) \/ UpdateTopic(u, c)
        PROVE  \A t \in DOMAIN topic' : QuietLog(t)
    <3>1. CASE CreateTopic(u, c)
      BY <3>1 DEF CreateTopic, Put, QuietLog
    <3>2. CASE UpdateTopic(u, c)
      <4>1. topic[u] \in TopicState
        BY <3>2 DEF UpdateTopic, Inv, TopicsOK
      <4>2. [topic[u] EXCEPT !.schema = c].log = topic[u].log
        BY <4>1 DEF TopicState
      <4>3. topic' = [topic EXCEPT ![u] = [topic[u] EXCEPT !.schema = c]]
        BY <3>2 DEF UpdateTopic
      <4> QED
        BY <3>2, <4>2, <4>3 DEF UpdateTopic, QuietLog
    <3> QED
      BY <2>1, <3>1, <3>2
  <2>2. ASSUME NEW u \in Topics, DeleteTopic(u)
        PROVE  \A t \in DOMAIN topic' : QuietLog(t)
    BY <2>2 DEF DeleteTopic, Drop, QuietLog
  <2>3. CASE UNCHANGED topic
    BY <2>3, LogsAlone
  <2> QED
    BY <2>1, <2>2, <2>3 DEF TopicAdmin, CreateSchema, DeleteSchema
<1> QED
  BY <1>1, <1>2, <1>3, ResetsAlone DEF QuietStep

LEMMA SubscriptionAdminQuiet ==
  ASSUME Inv, SubscriptionAdmin
  PROVE  QuietStep
<1>1. ASSUME NEW s \in Subs, NEW spec \in Specs, CreateSubscription(s, spec)
      PROVE  QuietStep
  <2> DEFINE N == NewSubscription(spec, Len(topic[spec.topic].log))
  <2>1. Restarted(N)
    BY RestartedFresh
  <2>2. /\ sub' = Put(sub, s, N) /\ s \notin DOMAIN sub /\ stale' = stale \ {s}
        /\ resets' = [resets EXCEPT ![s] = @ + 1] /\ UNCHANGED topic
    BY <1>1 DEF CreateSubscription
  <2> HIDE DEF N
  <2>3. /\ sub'[s] = N
        /\ \A r \in DOMAIN sub' \ {s} : r \in DOMAIN sub /\ sub'[r] = sub[r]
    BY <2>2 DEF Put
  <2> QED
    BY <2>1, <2>2, <2>3, OneRestarts DEF Inv, NamesOK
<1>2. ASSUME NEW s \in Subs, NEW spec \in Specs, NEW mask \in SUBSET MaskFields,
             UpdateSubscription(s, spec, mask)
      PROVE  QuietStep
  <2> DEFINE M == Masked(sub[s].spec, spec, mask)
             T == [sub[s] EXCEPT !.spec = M]
  <2>1. /\ spec \in SubscriptionSpec /\ s \in DOMAIN sub /\ Booked(sub[s])
        /\ sub[s] \in SubscriptionState
    BY <1>2, BackendAssumption DEF UpdateSubscription, Inv, SubsOK
  <2>2. M.topic = sub[s].spec.topic
    BY <2>1, MaskedBooked
  <2>3. sub' = [sub EXCEPT ![s] = T] /\ UNCHANGED <<topic, resets, stale>>
    BY <1>2 DEF UpdateSubscription
  <2> HIDE DEF M
  <2>4. Quieter(sub[s], T)
    BY <2>1, <2>2 DEF Quieter, Ids, SubscriptionState
  <2> HIDE DEF T
  <2> QED
    BY <2>1, <2>3, <2>4, OneQuiet DEF Inv
<1>3. ASSUME NEW s \in Subs, DeleteSubscription(s)
      PROVE  QuietStep
  <2>1. \A r \in DOMAIN sub' : QuietSub(r)
    BY <1>3, SubsAlone DEF DeleteSubscription, Drop, Inv
  <2> QED
    BY <1>3, <2>1, LogsAlone, ResetsAlone DEF DeleteSubscription, QuietStep
<1>4. ASSUME NEW n \in Snaps, NEW s \in Subs, CreateSnapshot(n, s)
      PROVE  QuietStep
  <2>1. stale \cap Subs \subseteq stale'
    BY <1>4, BackendAssumption DEF CreateSnapshot
  <2>2. \A r \in DOMAIN sub' : QuietSub(r)
    BY <1>4, <2>1, SubsAlone DEF CreateSnapshot, Inv
  <2> QED
    BY <1>4, <2>2, LogsAlone, ResetsAlone DEF CreateSnapshot, QuietStep
<1>5. ASSUME NEW n \in Snaps, DeleteSnapshot(n)
      PROVE  QuietStep
  <2>1. \A r \in DOMAIN sub' : QuietSub(r)
    BY <1>5, SubsAlone DEF DeleteSnapshot, Inv
  <2> QED
    BY <1>5, <2>1, LogsAlone, ResetsAlone DEF DeleteSnapshot, QuietStep
<1> QED
  BY <1>1, <1>2, <1>3, <1>4, <1>5 DEF SubscriptionAdmin

LEMMA SeekQuiet ==
  ASSUME Inv, Seek
  PROVE  QuietStep
<1> DEFINE Seeks(s, cursor) ==
             /\ sub' = [sub EXCEPT ![s] = Sought(@, cursor)]
             /\ resets' = [resets EXCEPT ![s] = @ + 1] /\ UNCHANGED topic
             /\ stale \ {s} \subseteq stale'
<1>0. PICK s \in DOMAIN sub : \E cursor : Seeks(s, cursor)
  BY DEF Seek, SeekToTime, SeekToSnapshot
<1>1. PICK cursor : Seeks(s, cursor)
  BY <1>0
<1> DEFINE T == Sought(sub[s], cursor)
<1>2. Restarted(T)
  BY RestartedFresh
<1>3. sub' = [sub EXCEPT ![s] = T]
  BY <1>1
<1> HIDE DEF T
<1>4. /\ sub'[s] = T
      /\ \A r \in DOMAIN sub' \ {s} : r \in DOMAIN sub /\ sub'[r] = sub[r]
  BY <1>3
<1> QED
  BY <1>1, <1>2, <1>4, OneRestarts DEF Inv, NamesOK, SubsOK

-----------------------------------------------------------------------------
(* The data plane.                                                         *)

LEMMA ConsumeQuiet ==
  ASSUME Inv, Consume
  PROVE  QuietStep
<1>1. CASE UNCHANGED sub
  <2>1. UNCHANGED <<topic, resets, stale>>
    BY DEF Consume, PullBegin, AckBegin, NackBegin, ExtendDeadline
  <2>2. \A r \in DOMAIN sub' : QuietSub(r)
    BY <1>1, <2>1, SubsAlone DEF Inv
  <2> QED
    BY <2>1, <2>2, LogsAlone, ResetsAlone DEF QuietStep
<1>2. ASSUME NEW s \in DOMAIN sub, NEW ids \in IdBatches(s), NEW seconds \in Extensions,
             ExtendDeadline(s, ids, seconds)
      PROVE  QuietStep
  <2> DEFINE T == Extend(sub[s], ids, seconds)
  <2>1. Quieter(sub[s], T)
    BY RestQuiet DEF Inv, SubsOK
  <2>2. sub' = [sub EXCEPT ![s] = T] /\ UNCHANGED <<topic, resets, stale>>
    BY <1>2 DEF ExtendDeadline
  <2> HIDE DEF T
  <2> QED
    BY <2>1, <2>2, OneQuiet DEF Inv
<1> QED
  BY <1>1, <1>2 DEF Consume, PullBegin, AckBegin, NackBegin

LEMMA TickQuiet ==
  ASSUME Inv, Tick
  PROVE  QuietStep
<1>1. \A s \in DOMAIN sub : Quieter(sub[s], Aged(sub[s]))
  BY RestQuiet DEF Inv, SubsOK
<1>2. /\ DOMAIN sub' = DOMAIN sub /\ UNCHANGED <<topic, resets, stale>>
      /\ \A s \in DOMAIN sub : sub'[s] = Aged(sub[s])
  BY DEF Tick
<1>3. \A s \in DOMAIN sub' : QuietSub(s)
  BY <1>1, <1>2 DEF QuietSub
<1> QED
  BY <1>2, <1>3, LogsAlone, ResetsAlone DEF QuietStep

LEMMA PublishQuiet ==
  ASSUME Inv, PublishStep
  PROVE  QuietStep
<1> DEFINE T == topic[lock.topic]
           m == Head(lock.todo)
           e == AsMessage(m, NoOrigin)
           U == IF m.id \in T.seen THEN T ELSE Appended(T, m)
<1>1. /\ lock.topic \in DOMAIN topic /\ T \in TopicState
      /\ lock.todo \in Seq(NewMessage) \ {<<>>}
  BY LockShape DEF Inv, LockOK, TopicsOK, PublishStep
<1>2. m \in NewMessage
  BY <1>1, HeadTailProperties, EmptySeq
<1>3. topic' = [topic EXCEPT ![lock.topic] = U] /\ UNCHANGED <<sub, resets, stale>>
  BY DEF PublishStep
<1>4. e \in Message /\ e.origin = NoOrigin
  BY <1>2 DEF AsMessage, Message, NewMessage
<1>5. Appended(T, m).log = Append(T.log, e)
  BY <1>1 DEF Appended, TopicState
<1> HIDE DEF T, m, e
<1>6. U.log = T.log \/ U.log = Append(T.log, e)
  BY <1>5
<1> HIDE DEF U
<1>7. \A t \in DOMAIN topic' : QuietLog(t)
  BY <1>1, <1>3, <1>4, <1>6 DEF QuietLog, T
<1>8. \A r \in DOMAIN sub' : QuietSub(r)
  BY <1>3, SubsAlone DEF Inv
<1> QED
  BY <1>3, <1>7, <1>8, ResetsAlone DEF QuietStep

LEMMA AckQuiet ==
  ASSUME Inv, AckStep \/ AckExpired \/ NackStep
  PROVE  QuietStep
<1> DEFINE S == sub[lock.sub]
<1>1. /\ lock.sub \in DOMAIN sub /\ S \in SubscriptionState
      /\ UNCHANGED <<topic, resets, stale>>
  BY DEF AckStep, AckExpired, NackStep, Inv, LockOK, SubsOK
<1>2. CASE UNCHANGED sub
  <2>1. \A r \in DOMAIN sub' : QuietSub(r)
    BY <1>1, <1>2, SubsAlone DEF Inv
  <2> QED
    BY <1>1, <2>1, LogsAlone, ResetsAlone DEF QuietStep
<1>3. CASE ~UNCHANGED sub
  <2>1. PICK l \in S.leases :
          \/ sub' = [sub EXCEPT ![lock.sub] = Ack(S, l)]
          \/ sub' = [sub EXCEPT ![lock.sub] = Forget(S, l)]
          \/ sub' = [sub EXCEPT ![lock.sub] = Nack(S, l)]
    BY <1>3 DEF AckStep, AckExpired, NackStep, Named
  <2> QED
    BY <1>1, <2>1, LeaseEndsQuietly, OneQuiet DEF Inv
<1> QED
  BY <1>2, <1>3

\* Pull looks at the log, the acked positions and the attempts of the
\* subscription as they were before it took the message.
LEMMA TakenSame ==
  ASSUME Inv, Takeable
  PROVE  LET S == sub[lock.sub]
             R == Taken.rest
             p == Taken.pos
         IN  /\ lock.sub \in DOMAIN sub /\ S \in SubscriptionState /\ S.spec.topic \in DOMAIN topic
             /\ R \in SubscriptionState /\ p \in Position
             /\ R.spec = S.spec /\ R.acked = S.acked /\ R.attempts = S.attempts
             /\ Ids(R) = Ids(S) /\ R.leases = S.leases
             /\ p \notin S.acked \cup Leased(S)
             /\ LogOf(R) = LogOf(S)
             /\ OrderingBlocked(R, LogOf(R), p) <=> OrderingBlocked(S, LogOf(S), p)
             /\ NextAttempt(R, p) = NextAttempt(S, p)
             /\ Exhausted(R, p) <=> Exhausted(S, p)
<1> DEFINE S == sub[lock.sub]
           R == Taken.rest
           p == Taken.pos
<1>1. /\ lock.sub \in DOMAIN sub /\ S \in SubscriptionState
      /\ S.spec.topic \in DOMAIN topic
  BY PullContext DEF Takeable
<1>2. InHand(R, p) /\ R.spec = S.spec /\ R \in SubscriptionState /\ p \in Position
  BY TakenInHand DEF InHand
<1>3. R.acked = S.acked /\ R.attempts = S.attempts /\ R.leases = S.leases
  BY <1>1 DEF Taken, Take, SubscriptionState
<1>4. p \notin R.acked \cup Leased(R)
  BY <1>2, InHandOutstanding DEF Handled
<1> HIDE DEF S, R, p
<1> QED
  BY <1>1, <1>2, <1>3, <1>4 DEF Ids, Leased, LogOf, OrderingBlocked, NextAttempt,
                                Exhausted, S, R, p

LEMMA PullQuiet ==
  ASSUME Inv, SweepExpired \/ SweepEnd \/ PullPass \/ PullPanic \/ PullEnd
  PROVE  QuietStep
<1>1. CASE SweepExpired
  <2>1. lock.sub \in DOMAIN sub /\ sub[lock.sub] \in SubscriptionState
    BY <1>1, PullContext DEF SweepExpired
  <2>2. PICK l \in sub[lock.sub].leases :
          sub' = [sub EXCEPT ![lock.sub] = Expire(sub[lock.sub], l)]
    BY <1>1 DEF SweepExpired
  <2> QED
    BY <1>1, <2>1, <2>2, LeaseEndsQuietly, OneQuiet DEF Inv, SweepExpired
<1>2. CASE SweepEnd \/ PullPanic \/ PullEnd
  <2>1. \A r \in DOMAIN sub' : QuietSub(r)
    BY <1>2, SubsAlone DEF SweepEnd, PullPanic, PullEnd, Drop, Inv
  <2> QED
    BY <1>2, <2>1, LogsAlone, ResetsAlone DEF SweepEnd, PullPanic, PullEnd, QuietStep
<1>3. CASE PullPass
  <2> DEFINE S == sub[lock.sub]
             R == Taken.rest
             p == Taken.pos
             T == Postpone(R, p)
  <2>1. Takeable /\ InHand(R, p)
    BY <1>3, TakenInHand DEF PullPass
  <2>2. sub' = [sub EXCEPT ![lock.sub] = T] /\ UNCHANGED <<topic, resets, stale>>
    BY <1>3, <2>1, InHandOutstanding DEF PullPass
  <2>3. /\ lock.sub \in DOMAIN sub /\ R \in SubscriptionState
        /\ R.spec = S.spec /\ R.acked = S.acked /\ R.attempts = S.attempts
        /\ R.leases = S.leases
    BY <2>1, TakenSame
  <2> HIDE DEF R, p
  <2>4. Quieter(S, T)
    BY <2>3 DEF Quieter, Postpone, Ids, SubscriptionState
  <2> HIDE DEF T
  <2> QED
    BY <2>2, <2>3, <2>4, OneQuiet DEF Inv
<1> QED
  BY <1>1, <1>2, <1>3

\* What Deliver and Settle record.
LEMMA CountedRecords ==
  ASSUME NEW R \in SubscriptionState, NEW p \in Position
  PROVE  /\ Deliver(R, p).spec = R.spec /\ Settle(R, p).spec = R.spec
         /\ Deliver(R, p).attempts = [R.attempts EXCEPT ![p] = NextAttempt(R, p)]
         /\ Settle(R, p).attempts = [R.attempts EXCEPT ![p] = NextAttempt(R, p)]
         /\ Deliver(R, p).acked = R.acked /\ Settle(R, p).acked = R.acked \cup {p}
         /\ Ids(Deliver(R, p)) = Ids(R) \cup {<<p, NextAttempt(R, p)>>}
         /\ Ids(Settle(R, p)) = Ids(R)
<1> DEFINE C == CountAttempt(R, p)
           l == [pos |-> p, attempt |-> NextAttempt(R, p),
                 left |-> NormalizeAckDeadline(R.spec.deadline)]
           D == Deliver(R, p)
           T == Settle(R, p)
<1>1. /\ C \in SubscriptionState /\ C.spec = R.spec /\ C.acked = R.acked
      /\ C.leases = R.leases
  BY CountAttemptType
<1>2. C.attempts = [R.attempts EXCEPT ![p] = NextAttempt(R, p)]
  BY DEF CountAttempt, SubscriptionState
<1>3. D = [C EXCEPT !.leases = @ \cup {l}] /\ T = [C EXCEPT !.acked = @ \cup {p}]
  BY DEF Deliver, Settle
<1>4. AckId(l) = <<p, NextAttempt(R, p)>>
  BY DEF AckId
<1> HIDE DEF C, l, D, T
<1>5. /\ D.spec = C.spec /\ D.acked = C.acked /\ D.attempts = C.attempts
      /\ D.leases = C.leases \cup {l}
      /\ T.spec = C.spec /\ T.acked = C.acked \cup {p} /\ T.attempts = C.attempts
      /\ T.leases = C.leases
  BY <1>1, <1>3 DEF SubscriptionState
<1>6. Ids(D) = Ids(R) \cup {AckId(l)} /\ Ids(T) = Ids(R)
  BY <1>1, <1>5 DEF Ids
<1> QED
  BY <1>1, <1>2, <1>4, <1>5, <1>6 DEF D, T

LEMMA DeliverCounts ==
  ASSUME Inv, PullDeliver
  PROVE  DeliverStep
<1> DEFINE S == sub[lock.sub]
           R == Taken.rest
           p == Taken.pos
           T == Deliver(R, p)
<1>1. /\ Takeable /\ sub' = [sub EXCEPT ![lock.sub] = T]
      /\ Deliverable(R, p) /\ ~Exhausted(R, p)
      /\ UNCHANGED <<topic, resets, stale>>
  BY DEF PullDeliver
<1>2. /\ lock.sub \in DOMAIN sub /\ R \in SubscriptionState /\ p \in Position
      /\ R.spec = S.spec /\ R.acked = S.acked /\ R.attempts = S.attempts
      /\ Ids(R) = Ids(S) /\ p \notin S.acked \cup Leased(S)
      /\ LogOf(R) = LogOf(S)
      /\ OrderingBlocked(R, LogOf(R), p) <=> OrderingBlocked(S, LogOf(S), p)
      /\ NextAttempt(R, p) = NextAttempt(S, p)
      /\ Exhausted(R, p) <=> Exhausted(S, p)
  BY <1>1, TakenSame
<1>3. /\ T.spec = R.spec /\ T.acked = R.acked
      /\ T.attempts = [R.attempts EXCEPT ![p] = NextAttempt(R, p)]
      /\ Ids(T) = Ids(R) \cup {<<p, NextAttempt(R, p)>>}
  BY <1>2, CountedRecords
<1>4. p <= Len(LogOf(S)) /\ ~OrderingBlocked(S, LogOf(S), p)
  BY <1>1, <1>2 DEF Deliverable
<1> HIDE DEF S, R, p, T
<1>5. CountsDelivery(T)
  BY <1>1, <1>2, <1>3, <1>4 DEF CountsDelivery, S, p
<1> QED
  BY <1>1, <1>2, <1>3, <1>5 DEF DeliverStep, S, p

LEMMA SettleCounts ==
  ASSUME Inv, PullFilterOut \/ PullDeadLetter
  PROVE  /\ SettleStep(Settle(Taken.rest, Taken.pos))
         /\ Exhausted(sub[lock.sub], Taken.pos) <=> PullDeadLetter
<1> DEFINE S == sub[lock.sub]
           R == Taken.rest
           p == Taken.pos
           T == Settle(R, p)
<1>1. /\ Takeable /\ sub' = [sub EXCEPT ![lock.sub] = T]
      /\ Deliverable(R, p) /\ UNCHANGED <<resets, stale>>
      /\ Exhausted(R, p) <=> PullDeadLetter
  BY DEF PullFilterOut, PullDeadLetter
<1>2. /\ lock.sub \in DOMAIN sub /\ R \in SubscriptionState /\ p \in Position
      /\ R.spec = S.spec /\ R.acked = S.acked /\ R.attempts = S.attempts
      /\ Ids(R) = Ids(S) /\ p \notin S.acked \cup Leased(S)
      /\ LogOf(R) = LogOf(S)
      /\ OrderingBlocked(R, LogOf(R), p) <=> OrderingBlocked(S, LogOf(S), p)
      /\ NextAttempt(R, p) = NextAttempt(S, p)
      /\ Exhausted(R, p) <=> Exhausted(S, p)
  BY <1>1, TakenSame
<1>3. /\ T.spec = R.spec /\ T.acked = R.acked \cup {p} /\ Ids(T) = Ids(R)
      /\ T.attempts = [R.attempts EXCEPT ![p] = NextAttempt(R, p)]
  BY <1>2, CountedRecords
<1>4. p <= Len(LogOf(S)) /\ ~OrderingBlocked(S, LogOf(S), p)
  BY <1>1, <1>2 DEF Deliverable
<1> HIDE DEF S, R, p, T
<1>5. CountsDelivery(T)
  BY <1>1, <1>2, <1>3, <1>4 DEF CountsDelivery, S, p
<1>6. SettleStep(T)
  BY <1>2, <1>3, <1>5 DEF SettleStep, S, p
<1> QED
  BY <1>1, <1>2, <1>6 DEF S, R, p, T

LEMMA FilterCounts ==
  ASSUME Inv, PullFilterOut
  PROVE  FilterStep
<1>1. ~Exhausted(Taken.rest, Taken.pos) /\ UNCHANGED topic /\ Takeable
  BY DEF PullFilterOut
<1>2. ~Exhausted(sub[lock.sub], Taken.pos)
  BY <1>1, TakenSame
<1> QED
  BY <1>1, <1>2, SettleCounts DEF FilterStep

LEMMA DeadLetterCounts ==
  ASSUME Inv, PullDeadLetter
  PROVE  DeadLetterStep
<1> DEFINE S == sub[lock.sub]
           R == Taken.rest
           p == Taken.pos
           o == [sub |-> lock.sub, pos |-> p, life |-> resets[lock.sub]]
           m == AsMessage([LogOf(R)[p] EXCEPT !.id = NoId], o)
           d == S.spec.dead.topic
<1>1. Takeable /\ Exhausted(R, p) /\ p <= Len(LogOf(R))
      /\ topic' = [topic EXCEPT ![R.spec.dead.topic].log = Append(@, m)]
  BY DEF PullDeadLetter, Deliverable
<1>2. /\ R.spec = S.spec /\ LogOf(R) = LogOf(S) /\ p \in Position
      /\ Exhausted(R, p) <=> Exhausted(S, p)
  BY <1>1, TakenSame
<1>3. LogOf(S) \in Seq(Message) /\ lock.sub \in Subs
  BY <1>1, PullContext DEF Takeable, Inv, SubsOK
<1>4. LogOf(R)[p] \in Message
  <2> HIDE DEF S, R, p
  <2>1. Len(LogOf(S)) \in Nat /\ p \in Nat /\ 1 <= p /\ p <= Len(LogOf(S))
    <3>1. MaxLen \in Nat
      BY BackendAssumption
    <3>2. p <= Len(LogOf(S)) /\ p \in 1 .. MaxLen
      BY <1>1, <1>2 DEF Position
    <3> QED
      BY <1>3, <3>1, <3>2
  <2>2. p \in 1 .. Len(LogOf(S))
    BY <2>1
  <2> QED
    BY <1>2, <1>3, <2>2
<1>5. o \in Origin
  BY <1>2, <1>3 DEF Origin, Inv, NamesOK
<1>6. m \in Message /\ m.id = NoId /\ m.origin = o
  BY <1>4, <1>5 DEF AsMessage, Message
<1>7. Exhausted(S, p) /\ d \in DOMAIN topic
      /\ topic' = [topic EXCEPT ![d].log = Append(@, m)]
  BY <1>1, <1>2 DEF Exhausted
<1>8. SettleStep(Settle(R, p))
  BY SettleCounts
<1> QED
  BY <1>6, <1>7, <1>8 DEF DeadLetterStep

\* What a step of the broker does to the books of its subscriptions.
LEMMA StepShape ==
  ASSUME Inv, [Next]_vars
  PROVE  QuietStep \/ DeliverStep \/ FilterStep \/ DeadLetterStep
<1>1. CASE Publish \/ UNCHANGED vars
  <2>1. UNCHANGED <<sub, topic, resets, stale>>
    BY <1>1 DEF Publish, PublishBegin, vars
  <2>2. \A r \in DOMAIN sub' : QuietSub(r)
    BY <2>1, SubsAlone DEF Inv
  <2> QED
    BY <2>1, <2>2, LogsAlone, ResetsAlone DEF QuietStep
<1>2. CASE LockedStep
  BY <1>2, PullQuiet, PublishQuiet, AckQuiet, DeliverCounts, FilterCounts,
     DeadLetterCounts DEF LockedStep, PullStep
<1> QED
  BY <1>1, <1>2, ConsumeQuiet, TickQuiet, SeekQuiet, SubscriptionAdminQuiet,
     TopicAdminQuiet DEF Next, DataPlane

-----------------------------------------------------------------------------
(* Ack ids.                                                                *)

NumbersFresh(S) == \A id \in Ids(S) : id[2] = S.attempts[id[1]]

Numbered == \A s \in DOMAIN sub : NumbersFresh(sub[s])

\* A counted delivery is of a message without a lease, so the numbers of the
\* leases there are stay the latest.
LEMMA CountedNumbers ==
  ASSUME NEW S \in SubscriptionState, NumbersFresh(S), NEW p \in Position,
         p \notin Leased(S), NEW T,
         T.attempts = [S.attempts EXCEPT ![p] = NextAttempt(S, p)],
         Ids(T) \subseteq Ids(S) \cup {<<p, NextAttempt(S, p)>>}
  PROVE  NumbersFresh(T)
<1>1. S.attempts \in [Position -> 0 .. AttemptCap]
  BY DEF SubscriptionState
<1>2. \A id \in Ids(S) : id[1] # p /\ T.attempts[id[1]] = S.attempts[id[1]]
  <2>1. \A id \in Ids(S) : id[1] # p
    BY IdsLeased
  <2>2. \A id \in Ids(S) : id[1] \in Position
    BY DEF Ids, AckId, SubscriptionState, Lease
  <2> QED
    BY <1>1, <2>1, <2>2
<1>3. T.attempts[p] = NextAttempt(S, p)
  BY <1>1
<1> QED
  BY <1>2, <1>3 DEF NumbersFresh

LEMMA NumbersStep ==
  ASSUME Inv, Numbered, [Next]_vars
  PROVE  Numbered'
<1>1. CASE QuietStep
  <2>1. ASSUME NEW s \in DOMAIN sub' PROVE NumbersFresh(sub'[s])
    <3>1. CASE Restarted(sub'[s])
      BY <3>1 DEF Restarted, NumbersFresh, Ids
    <3>2. CASE s \in DOMAIN sub /\ Quieter(sub[s], sub'[s])
      BY <3>2 DEF Numbered, NumbersFresh, Quieter
    <3> QED
      BY <1>1, <2>1, <3>1, <3>2 DEF QuietStep, QuietSub
  <2> QED
    BY <2>1 DEF Numbered
<1>2. ASSUME NEW T, CountsDelivery(T),
             Ids(T) \subseteq Ids(sub[lock.sub])
                          \cup {<<Taken.pos, NextAttempt(sub[lock.sub], Taken.pos)>>}
      PROVE  Numbered'
  <2> DEFINE S == sub[lock.sub]
             p == Taken.pos
  <2>1. /\ lock.sub \in DOMAIN sub /\ p \in Position /\ p \notin Leased(S)
        /\ sub' = [sub EXCEPT ![lock.sub] = T]
        /\ T.attempts = [S.attempts EXCEPT ![p] = NextAttempt(S, p)]
    BY <1>2 DEF CountsDelivery
  <2>2. S \in SubscriptionState /\ NumbersFresh(S)
    BY <2>1 DEF Inv, SubsOK, Numbered
  <2>3. NumbersFresh(T)
    BY <1>2, <2>1, <2>2, CountedNumbers
  <2> QED
    BY <2>1, <2>3 DEF Numbered
<1> QED
  BY <1>1, <1>2, StepShape DEF DeliverStep, FilterStep, DeadLetterStep, SettleStep

LEMMA NumberedAlways == Spec => []Numbered
<1>1. Init => Numbered
  BY DEF Init, NoEntries, Numbered
<1>2. Inv /\ Numbered /\ [Next]_vars => Numbered'
  BY NumbersStep
<1> QED
  BY <1>1, <1>2, InvAlways, PTL DEF Spec

FreshIds(S, T) ==
  /\ \A p \in Position : T.attempts[p] >= S.attempts[p]
  /\ \A l \in T.leases :
       /\ l.attempt <= T.attempts[l.pos]
       /\ \/ \E m \in S.leases : AckId(m) = AckId(l)
          \/ l.attempt > S.attempts[l.pos]
          \/ S.attempts[l.pos] = AttemptCap

\* The same in terms of the ids that are out.
LEMMA FreshByIds ==
  ASSUME NEW S \in SubscriptionState, NEW T \in SubscriptionState, NumbersFresh(T),
         \A p \in Position : T.attempts[p] >= S.attempts[p],
         \A id \in Ids(T) : \/ id \in Ids(S)
                            \/ id[2] > S.attempts[id[1]]
                            \/ S.attempts[id[1]] = AttemptCap
  PROVE  FreshIds(S, T)
<1> SUFFICES ASSUME NEW l \in T.leases
             PROVE  /\ l.attempt <= T.attempts[l.pos]
                    /\ \/ \E m \in S.leases : AckId(m) = AckId(l)
                       \/ l.attempt > S.attempts[l.pos]
                       \/ S.attempts[l.pos] = AttemptCap
  BY DEF FreshIds
<1>1. AckId(l) \in Ids(T) /\ AckId(l)[1] = l.pos /\ AckId(l)[2] = l.attempt
  BY DEF Ids, AckId
<1>2. l.attempt = T.attempts[l.pos]
  BY <1>1 DEF NumbersFresh
<1>3. T.attempts[l.pos] \in Nat
  <2>1. l.pos \in Position /\ T.attempts \in [Position -> 0 .. AttemptCap]
    BY DEF SubscriptionState, Lease
  <2>2. T.attempts[l.pos] \in 0 .. AttemptCap
    BY <2>1
  <2> QED
    BY <2>2
<1>4. AckId(l) \in Ids(S) => \E m \in S.leases : AckId(m) = AckId(l)
  BY DEF Ids
<1> QED
  BY <1>1, <1>2, <1>3, <1>4

LEMMA QuietIds ==
  ASSUME NEW S \in SubscriptionState, NEW T \in SubscriptionState, NumbersFresh(T),
         Quieter(S, T)
  PROVE  FreshIds(S, T)
<1>1. \A p \in Position : T.attempts[p] = S.attempts[p] /\ S.attempts[p] \in Nat
  BY DEF Quieter, SubscriptionState
<1> QED
  BY <1>1, FreshByIds DEF Quieter

\* A counted delivery gives its message a number above all it had.
LEMMA CountedIds ==
  ASSUME NEW S \in SubscriptionState, NEW T \in SubscriptionState, NumbersFresh(T),
         NEW p \in Position,
         T.attempts = [S.attempts EXCEPT ![p] = NextAttempt(S, p)],
         Ids(T) \subseteq Ids(S) \cup {<<p, NextAttempt(S, p)>>}
  PROVE  FreshIds(S, T)
<1>1. /\ AttemptCap \in Nat /\ S.attempts \in [Position -> 0 .. AttemptCap]
      /\ \A q \in Position : S.attempts[q] \in 0 .. AttemptCap
  BY BackendAssumption DEF SubscriptionState
<1>2. /\ NextAttempt(S, p) >= S.attempts[p]
      /\ NextAttempt(S, p) > S.attempts[p] \/ S.attempts[p] = AttemptCap
  BY <1>1 DEF NextAttempt
<1>3. \A q \in Position : T.attempts[q] >= S.attempts[q]
  BY <1>1, <1>2
<1>4. ASSUME NEW id \in Ids(T)
      PROVE  id \in Ids(S) \/ id[2] > S.attempts[id[1]] \/ S.attempts[id[1]] = AttemptCap
  <2>1. CASE id \in Ids(S)
    BY <2>1
  <2>2. CASE id = <<p, NextAttempt(S, p)>>
    BY <1>2, <2>2
  <2> QED
    BY <1>4, <2>1, <2>2
<1> QED
  BY <1>3, <1>4, FreshByIds

LEMMA IdsStep ==
  ASSUME Inv, Inv', Numbered, [Next]_vars,
         NEW s \in DOMAIN sub, s \in DOMAIN sub', resets'[s] = resets[s]
  PROVE  FreshIds(sub[s], sub'[s])
<1>1. /\ sub[s] \in SubscriptionState /\ sub'[s] \in SubscriptionState
      /\ NumbersFresh(sub'[s]) /\ resets[s] \in Nat
  <2>1. Numbered'
    BY NumbersStep
  <2> QED
    BY <2>1 DEF Inv, SubsOK, NamesOK, Numbered
<1>2. CASE QuietStep
  <2>1. ~(resets'[s] = resets[s] + 1)
    BY <1>1
  <2>2. Quieter(sub[s], sub'[s])
    BY <1>2, <2>1 DEF QuietStep, QuietSub
  <2> QED
    BY <1>1, <2>2, QuietIds
<1>3. ASSUME NEW T, CountsDelivery(T),
             Ids(T) \subseteq Ids(sub[lock.sub])
                          \cup {<<Taken.pos, NextAttempt(sub[lock.sub], Taken.pos)>>}
      PROVE  FreshIds(sub[s], sub'[s])
  <2> DEFINE S == sub[lock.sub]
             p == Taken.pos
  <2>1. /\ lock.sub \in DOMAIN sub /\ p \in Position
        /\ sub' = [sub EXCEPT ![lock.sub] = T]
        /\ T.attempts = [S.attempts EXCEPT ![p] = NextAttempt(S, p)]
    BY <1>3 DEF CountsDelivery
  <2>2. CASE s = lock.sub
    <3>1. sub'[s] = T
      BY <2>1, <2>2
    <3> QED
      BY <1>1, <1>3, <2>1, <2>2, <3>1, CountedIds
  <2>3. CASE s # lock.sub
    <3>1. sub'[s] = sub[s]
      BY <2>1, <2>3
    <3>2. Quieter(sub[s], sub'[s])
      BY <3>1 DEF Quieter
    <3> QED
      BY <1>1, <3>2, QuietIds
  <2> QED
    BY <2>2, <2>3
<1> QED
  BY <1>2, <1>3, StepShape DEF DeliverStep, FilterStep, DeadLetterStep, SettleStep

\* No delivery of a message gets the number, and with exactly-once delivery the
\* ack id, of an earlier one until a seek or a new creation clears the attempts.
THEOREM AckIdsUniquePerLife == Spec => AckIdsNotReused
<1> DEFINE Fresh == \A s \in DOMAIN sub \cap DOMAIN sub' :
                      resets'[s] = resets[s] => FreshIds(sub[s], sub'[s])
<1>1. Inv /\ Inv' /\ Numbered /\ [Next]_vars => [Fresh]_vars
  BY IdsStep
<1>2. [][Fresh]_vars => AckIdsNotReused
  BY PTL DEF AckIdsNotReused, FreshIds
<1> QED
  BY <1>1, <1>2, InvAlways, NumberedAlways, PTL DEF Spec

-----------------------------------------------------------------------------
(* Ordering.                                                               *)

\* Ordering switched on for a subscription says nothing of what it delivered
\* before, so the property is about subscriptions that are created with it.
NotSwitchedOn ==
  \A s \in DOMAIN sub \cap DOMAIN sub' :
    sub'[s].spec.ordering => sub[s].spec.ordering

KeyOrdered(S, log) ==
  S.spec.ordering =>
    \A p \in Leased(S) \cup S.acked : \A q \in 1 .. p - 1 :
      SameKey(log, p, q) => q \in S.acked

\* A log starts with what it was before.
Prolongs(new, log) ==
  Len(log) <= Len(new) /\ \A i \in 1 .. Len(log) : new[i] = log[i]

LEMMA SameProlongs ==
  ASSUME NEW log \in Seq(Message)
  PROVE  Prolongs(log, log)
BY DEF Prolongs

LEMMA AppendProlongs ==
  ASSUME NEW log \in Seq(Message), NEW m \in Message
  PROVE  Prolongs(Append(log, m), log)
BY AppendProperties DEF Prolongs

LEMMA LogsProlonged ==
  ASSUME Inv, QuietStep \/ DeliverStep \/ FilterStep \/ DeadLetterStep,
         NEW t \in DOMAIN topic, t \in DOMAIN topic'
  PROVE  Prolongs(topic'[t].log, topic[t].log)
<1>1. \A u \in DOMAIN topic : topic[u] \in TopicState /\ topic[u].log \in Seq(Message)
  BY DEF Inv, TopicsOK, TopicState
<1>2. CASE QuietStep
  BY <1>1, <1>2, SameProlongs, AppendProlongs DEF QuietStep, QuietLog
<1>3. CASE UNCHANGED topic
  BY <1>1, <1>3, SameProlongs
<1>4. CASE DeadLetterStep
  <2>1. PICK d \in DOMAIN topic, m \in Message :
          topic' = [topic EXCEPT ![d].log = Append(@, m)]
    BY <1>4 DEF DeadLetterStep
  <2>2. CASE t = d
    <3>1. topic'[t].log = Append(topic[t].log, m)
      BY <1>1, <2>1, <2>2 DEF TopicState
    <3> QED
      BY <1>1, <3>1, AppendProlongs
  <2>3. CASE t # d
    <3>1. topic'[t] = topic[t]
      BY <2>1, <2>3
    <3> QED
      BY <1>1, <3>1, SameProlongs
  <2> QED
    BY <2>2, <2>3
<1> QED
  BY <1>2, <1>3, <1>4 DEF DeliverStep, FilterStep

LEMMA KeyOrderKept ==
  ASSUME NEW S, NEW T, NEW log, NEW new, KeyOrdered(S, log), Prolongs(new, log),
         Len(log) \in Nat, Leased(S) \cup S.acked \subseteq 1 .. Len(log),
         T.spec.ordering => S.spec.ordering, S.acked \subseteq T.acked,
         \A p \in Leased(T) \cup T.acked :
           \/ p \in Leased(S) \cup S.acked
           \/ p \in 1 .. Len(log) /\ ~OrderingBlocked(S, log, p)
  PROVE  KeyOrdered(T, new)
<1> SUFFICES ASSUME T.spec.ordering, NEW p \in Leased(T) \cup T.acked,
                    NEW q \in 1 .. p - 1, SameKey(new, p, q)
             PROVE  q \in S.acked
  BY DEF KeyOrdered
<1>1. p \in 1 .. Len(log) /\ q \in 1 .. Len(log)
  <2>1. p \in 1 .. Len(log)
    OBVIOUS
  <2> QED
    BY <2>1
<1>2. SameKey(log, p, q)
  BY <1>1 DEF SameKey, Prolongs
<1> QED
  BY <1>2 DEF KeyOrdered, OrderingBlocked, SameKey

\* The messages a subscription leased or acked are in its log.
LEMMA ReachedInLog ==
  ASSUME CInv, NEW s \in DOMAIN sub \ stale
  PROVE  /\ Leased(sub[s]) \cup sub[s].acked \subseteq 1 .. Len(LogOf(sub[s]))
         /\ Len(LogOf(sub[s])) \in Nat /\ sub[s].spec.topic \in DOMAIN topic
<1>1. /\ sub[s].acked \cup Leased(sub[s]) \cup sub[s].lost
           \subseteq sub[s].start + 1 .. Size(s)
      /\ Size(s) \in Nat /\ sub[s].start \in Nat
  BY View DEF Live
<1>2. sub[s].start + 1 .. Size(s) \subseteq 1 .. Size(s)
  BY <1>1
<1> QED
  BY <1>1, <1>2 DEF Size, CInv, CursorInRange

LEMMA KeyOrderStep ==
  ASSUME CInv, CInv', KeyOrder, [Next]_vars, NotSwitchedOn
  PROVE  KeyOrder'
<1> SUFFICES ASSUME NEW s \in DOMAIN sub' \ stale'
             PROVE  KeyOrdered(sub'[s], topic'[sub'[s].spec.topic].log)
  BY DEF KeyOrder, KeyOrdered, LogOf, SameKey
<1> DEFINE T == sub'[s]
           t == T.spec.topic
<1>1. QuietStep \/ DeliverStep \/ FilterStep \/ DeadLetterStep
  BY StepShape DEF CInv
<1>2. t \in DOMAIN topic'
  BY DEF CInv, CursorInRange
<1>3. CASE Restarted(T)
  BY <1>3 DEF Restarted, KeyOrdered, Leased
<1>4. ASSUME s \in DOMAIN sub \ stale, t = sub[s].spec.topic,
             sub[s].acked \subseteq T.acked,
             \A p \in Leased(T) \cup T.acked :
               \/ p \in Leased(sub[s]) \cup sub[s].acked
               \/ /\ p \in 1 .. Len(LogOf(sub[s]))
                  /\ ~OrderingBlocked(sub[s], LogOf(sub[s]), p)
      PROVE  KeyOrdered(T, topic'[t].log)
  <2> DEFINE S == sub[s]
             log == LogOf(S)
  <2>1. KeyOrdered(S, log)
    BY <1>4 DEF KeyOrder, KeyOrdered
  <2>2. Leased(S) \cup S.acked \subseteq 1 .. Len(log) /\ Len(log) \in Nat
        /\ t \in DOMAIN topic
    BY <1>4, ReachedInLog
  <2>3. Prolongs(topic'[t].log, log)
    BY <1>1, <1>2, <1>4, <2>2, LogsProlonged DEF CInv, LogOf
  <2>4. T.spec.ordering => S.spec.ordering
    BY <1>4 DEF NotSwitchedOn
  <2> HIDE DEF S, T, t, log
  <2> QED
    BY <1>4, <2>1, <2>2, <2>3, <2>4, KeyOrderKept DEF S, log
<1>5. CASE QuietStep /\ ~Restarted(T)
  <2>1. s \in DOMAIN sub \ stale /\ Quieter(sub[s], T)
    BY <1>5 DEF QuietStep, QuietSub
  <2>2. Leased(T) \subseteq Leased(sub[s])
    BY <2>1, IdsLeased DEF Quieter
  <2> QED
    BY <1>4, <2>1, <2>2 DEF Quieter
<1>6. ASSUME NEW U, CountsDelivery(U),
             U.acked \subseteq sub[lock.sub].acked \cup {Taken.pos},
             sub[lock.sub].acked \subseteq U.acked,
             Ids(U) \subseteq Ids(sub[lock.sub])
                          \cup {<<Taken.pos, NextAttempt(sub[lock.sub], Taken.pos)>>}
      PROVE  KeyOrdered(T, topic'[t].log)
  <2> DEFINE p == Taken.pos
             S == sub[lock.sub]
  <2>1. /\ lock.sub \in DOMAIN sub /\ p \in Position /\ p <= Len(LogOf(S))
        /\ ~OrderingBlocked(S, LogOf(S), p) /\ U.spec = S.spec
        /\ sub' = [sub EXCEPT ![lock.sub] = U] /\ UNCHANGED stale
    BY <1>6 DEF CountsDelivery
  <2>2. s \in DOMAIN sub \ stale
    BY <2>1
  <2>3. CASE s = lock.sub
    <3>1. T = U
      BY <2>1, <2>3
    <3>2. p \in 1 .. Len(LogOf(S))
      <4>1. Len(LogOf(S)) \in Nat
        BY <2>2, <2>3, ReachedInLog
      <4> HIDE DEF p, S
      <4> QED
        BY <2>1, <4>1, BackendAssumption DEF Position
    <3>3. Leased(U) \subseteq Leased(S) \cup {p}
      BY <1>6, IdsLeased
    <3> QED
      BY <1>4, <1>6, <2>1, <2>2, <2>3, <3>1, <3>2, <3>3
  <2>4. CASE s # lock.sub
    <3>1. T = sub[s]
      BY <2>1, <2>4
    <3> QED
      BY <1>4, <2>2, <3>1
  <2> QED
    BY <2>3, <2>4
<1> QED
  BY <1>1, <1>3, <1>5, <1>6 DEF DeliverStep, FilterStep, DeadLetterStep, SettleStep

\* A message is leased or acked only when every earlier message of its key is
\* acked, whatever expires, is nacked, sought, filtered or dead-lettered: on
\* subscriptions for which ordering is not switched on after their creation.
THEOREM KeysInOrder == Spec /\ [][NotSwitchedOn]_vars => []KeyOrder
<1>1. Init => KeyOrder
  BY DEF Init, NoEntries, KeyOrder
<1>2. CInv /\ CInv' /\ KeyOrder /\ [Next]_vars /\ [NotSwitchedOn]_vars => KeyOrder'
  <2>1. UNCHANGED vars => NotSwitchedOn
    BY DEF vars, NotSwitchedOn
  <2> QED
    BY <2>1, KeyOrderStep
<1> QED
  BY <1>1, <1>2, CInvAlways, PTL DEF Spec

-----------------------------------------------------------------------------
(* Dead letters.                                                           *)

\* A dead-lettered copy names a life of its source that has begun, and in that
\* life its source has settled the message.
SettledCopy(o) ==
  o # NoOrigin =>
    /\ o.life <= resets[o.sub]
    /\ o.sub \in DOMAIN sub /\ o.life = resets[o.sub] => o.pos \in sub[o.sub].acked

CopiesSettled == \A c \in Copies : SettledCopy(OriginAt(c))

LEMMA CopyPlace ==
  ASSUME NEW c
  PROVE  c \in Copies <=> /\ c[1] \in DOMAIN topic /\ c[2] \in DOMAIN topic[c[1]].log
                          /\ c = <<c[1], c[2]>>
BY DEF Copies

LEMMA OriginType ==
  ASSUME Inv, NEW c \in Copies, OriginAt(c) # NoOrigin
  PROVE  /\ OriginAt(c) \in Origin
         /\ OriginAt(c).sub \in Subs /\ OriginAt(c).pos \in Position
         /\ OriginAt(c).life \in Nat /\ resets[OriginAt(c).sub] \in Nat
<1>1. c[1] \in DOMAIN topic /\ c[2] \in DOMAIN topic[c[1]].log
  BY CopyPlace
<1>2. topic[c[1]].log \in Seq(Message)
  BY <1>1 DEF Inv, TopicsOK, TopicState
<1>3. topic[c[1]].log[c[2]] \in Message
  BY <1>1, <1>2
<1>4. OriginAt(c) \in Origin
  BY <1>3 DEF OriginAt, Message
<1> QED
  BY <1>4, BackendAssumption DEF Origin, Inv, NamesOK

LEMMA AppendedAt ==
  ASSUME NEW log \in Seq(Message), NEW m \in Message, NEW i \in DOMAIN Append(log, m)
  PROVE  \/ i \in DOMAIN log /\ Append(log, m)[i] = log[i]
         \/ i = Len(log) + 1 /\ Append(log, m)[i] = m
BY AppendProperties

LEMMA QuietCopies ==
  ASSUME Inv, QuietStep, NEW c \in Copies', OriginAt(c)' # NoOrigin
  PROVE  c \in Copies /\ OriginAt(c) = OriginAt(c)'
<1>1. /\ c[1] \in DOMAIN topic' /\ c[2] \in DOMAIN topic'[c[1]].log
      /\ c = <<c[1], c[2]>>
  BY DEF Copies
<1> DEFINE t == c[1]
           i == c[2]
<1>2. OriginAt(c)' = topic'[t].log[i].origin
  BY DEF OriginAt
<1>3. CASE t \in DOMAIN topic /\ topic'[t].log = topic[t].log
  BY <1>1, <1>3, CopyPlace DEF OriginAt
<1>4. CASE t \notin DOMAIN topic /\ topic'[t].log = <<>>
  BY <1>1, <1>4
<1>5. ASSUME t \in DOMAIN topic, NEW m \in Message, m.origin = NoOrigin,
             topic'[t].log = Append(topic[t].log, m)
      PROVE  c \in Copies /\ OriginAt(c) = OriginAt(c)'
  <2>1. topic[t].log \in Seq(Message)
    BY <1>5 DEF Inv, TopicsOK, TopicState
  <2>2. i \in DOMAIN topic[t].log /\ topic'[t].log[i] = topic[t].log[i]
    BY <1>1, <1>2, <1>5, <2>1, AppendedAt
  <2> QED
    BY <1>1, <1>5, <2>2, CopyPlace DEF OriginAt
<1> QED
  BY <1>1, <1>3, <1>4, <1>5 DEF QuietStep, QuietLog

\* Dead-lettering adds one copy, with the origin it says.
LEMMA DeadLetterCopies ==
  ASSUME Inv, DeadLetterStep
  PROVE  \E e : \A c \in Copies' :
           \/ c \in Copies /\ OriginAt(c)' = OriginAt(c)
           \/ c = e /\ OriginAt(c)' = [sub |-> lock.sub, pos |-> Taken.pos,
                                       life |-> resets[lock.sub]]
<1> DEFINE o == [sub |-> lock.sub, pos |-> Taken.pos, life |-> resets[lock.sub]]
<1>1. PICK d \in DOMAIN topic, m \in Message :
        m.origin = o /\ topic' = [topic EXCEPT ![d].log = Append(@, m)]
  BY DEF DeadLetterStep
<1> HIDE DEF o
<1>2. topic[d] \in TopicState /\ topic[d].log \in Seq(Message)
  BY DEF Inv, TopicsOK, TopicState
<1>3. /\ DOMAIN topic' = DOMAIN topic /\ topic'[d].log = Append(topic[d].log, m)
      /\ \A t \in DOMAIN topic : t # d => topic'[t] = topic[t]
  BY <1>1, <1>2 DEF TopicState
<1>4. ASSUME NEW c \in Copies'
      PROVE  \/ c \in Copies /\ OriginAt(c)' = OriginAt(c)
             \/ c = <<d, Len(topic[d].log) + 1>> /\ OriginAt(c)' = o
  <2>1. /\ c[1] \in DOMAIN topic' /\ c[2] \in DOMAIN topic'[c[1]].log
        /\ c = <<c[1], c[2]>> /\ OriginAt(c)' = topic'[c[1]].log[c[2]].origin
    BY <1>4 DEF Copies, OriginAt
  <2>2. CASE c[1] = d
    <3>1. \/ /\ c[2] \in DOMAIN topic[d].log
             /\ topic'[d].log[c[2]] = topic[d].log[c[2]]
          \/ c[2] = Len(topic[d].log) + 1 /\ topic'[d].log[c[2]] = m
      BY <1>2, <1>3, <2>1, <2>2, AppendedAt
    <3> QED
      BY <1>1, <2>1, <2>2, <3>1, CopyPlace DEF OriginAt
  <2>3. CASE c[1] # d
    BY <1>3, <2>1, <2>3, CopyPlace DEF OriginAt
  <2> QED
    BY <2>2, <2>3
<1> QED
  BY <1>4 DEF o

LEMMA SameCopies ==
  ASSUME UNCHANGED topic
  PROVE  \A c \in Copies' : c \in Copies /\ OriginAt(c)' = OriginAt(c)
BY DEF Copies, OriginAt

\* A step that counts a delivery keeps what is acked and what life it is.
LEMMA CountedAcks ==
  ASSUME NEW T, CountsDelivery(T), sub[lock.sub].acked \subseteq T.acked
  PROVE  /\ DOMAIN sub' = DOMAIN sub /\ UNCHANGED resets
         /\ \A s \in DOMAIN sub : sub[s].acked \subseteq sub'[s].acked
BY DEF CountsDelivery

\* A copy that is not new stays settled.
LEMMA CopyStaysSettled ==
  ASSUME Inv, CopiesSettled, NEW c \in Copies, NEW o, o = OriginAt(c),
         \/ QuietStep
         \/ \E T : CountsDelivery(T) /\ sub[lock.sub].acked \subseteq T.acked
  PROVE  SettledCopy(o)'
<1> SUFFICES ASSUME o # NoOrigin PROVE SettledCopy(o)'
  BY DEF SettledCopy
<1>1. /\ o.sub \in Subs /\ o.life \in Nat /\ resets[o.sub] \in Nat
      /\ o.life <= resets[o.sub]
      /\ o.sub \in DOMAIN sub /\ o.life = resets[o.sub] => o.pos \in sub[o.sub].acked
  BY OriginType DEF CopiesSettled, SettledCopy
<1>2. CASE QuietStep
  <2>1. o.life <= resets'[o.sub]
    BY <1>1, <1>2 DEF QuietStep
  <2>2. ASSUME o.sub \in DOMAIN sub', o.life = resets'[o.sub]
        PROVE  o.pos \in sub'[o.sub].acked
    <3>1. resets'[o.sub] = resets[o.sub]
      BY <1>1, <1>2, <2>2 DEF QuietStep
    <3>2. o.sub \in DOMAIN sub /\ Quieter(sub[o.sub], sub'[o.sub])
      BY <1>1, <1>2, <2>2, <3>1 DEF QuietStep, QuietSub
    <3> QED
      BY <1>1, <2>2, <3>1, <3>2 DEF Quieter
  <2> QED
    BY <2>1, <2>2 DEF SettledCopy
<1>3. ASSUME NEW T, CountsDelivery(T), sub[lock.sub].acked \subseteq T.acked
      PROVE  SettledCopy(o)'
  BY <1>1, <1>3, CountedAcks DEF SettledCopy
<1> QED
  BY <1>2, <1>3

LEMMA CopiesSettledStep ==
  ASSUME Inv, CopiesSettled, [Next]_vars
  PROVE  CopiesSettled'
<1> SUFFICES ASSUME NEW c \in Copies' PROVE SettledCopy(OriginAt(c))'
  BY DEF CopiesSettled
<1> DEFINE o == OriginAt(c)'
<1>1. SettledCopy(OriginAt(c))' <=>
        (o # NoOrigin => /\ o.life <= resets'[o.sub]
                         /\ o.sub \in DOMAIN sub' /\ o.life = resets'[o.sub] =>
                              o.pos \in sub'[o.sub].acked)
  BY DEF SettledCopy
<1>2. ASSUME c \in Copies, o = OriginAt(c),
             \/ QuietStep
             \/ \E T : CountsDelivery(T) /\ sub[lock.sub].acked \subseteq T.acked
      PROVE  SettledCopy(OriginAt(c))'
  <2>1. PICK x : x = OriginAt(c)
    OBVIOUS
  <2>2. SettledCopy(x)'
    BY <1>2, <2>1, CopyStaysSettled
  <2> QED
    BY <1>1, <1>2, <2>1, <2>2 DEF SettledCopy
<1>3. CASE QuietStep
  <2>1. CASE o = NoOrigin
    BY <1>1, <2>1
  <2>2. CASE o # NoOrigin
    BY <1>2, <1>3, <2>2, QuietCopies
  <2> QED
    BY <2>1, <2>2
<1>4. CASE DeliverStep \/ FilterStep
  <2>1. UNCHANGED topic
    BY <1>4 DEF DeliverStep, FilterStep
  <2>2. \E T : CountsDelivery(T) /\ sub[lock.sub].acked \subseteq T.acked
    BY <1>4 DEF DeliverStep, FilterStep, SettleStep
  <2> QED
    BY <1>2, <2>1, <2>2, SameCopies
<1>5. CASE DeadLetterStep
  <2>1. PICK T : SettleStep(T)
    BY <1>5 DEF DeadLetterStep
  <2>2. CASE c \in Copies /\ o = OriginAt(c)
    BY <1>2, <2>1, <2>2 DEF SettleStep
  <2>3. CASE o = [sub |-> lock.sub, pos |-> Taken.pos, life |-> resets[lock.sub]]
    <3>1. /\ lock.sub \in DOMAIN sub /\ sub' = [sub EXCEPT ![lock.sub] = T]
          /\ Taken.pos \in T.acked /\ UNCHANGED resets
      BY <2>1 DEF SettleStep, CountsDelivery
    <3>2. resets[lock.sub] \in Nat
      BY <3>1, BackendAssumption DEF Inv, NamesOK, SubsOK
    <3> QED
      BY <1>1, <2>3, <3>1, <3>2
  <2> QED
    BY <1>5, <2>2, <2>3, DeadLetterCopies
<1> QED
  BY <1>3, <1>4, <1>5, StepShape

\* The copy a subscription writes is the first of its message in this life: the
\* message was outstanding, and the source of an earlier copy settled it.
LEMMA DeadLetteredOnceStep ==
  ASSUME Inv, CopiesSettled, DeadLetteredOnce, [Next]_vars
  PROVE  DeadLetteredOnce'
<1> SUFFICES ASSUME NEW c \in Copies', NEW e \in Copies',
                    OriginAt(c)' # NoOrigin, OriginAt(c)' = OriginAt(e)'
             PROVE  c = e
  BY DEF DeadLetteredOnce
<1> DEFINE old(x) == x \in Copies /\ OriginAt(x)' = OriginAt(x)
<1>1. old(c) /\ old(e) => c = e
  BY DEF DeadLetteredOnce
<1>2. CASE QuietStep
  BY <1>1, <1>2, QuietCopies
<1>3. CASE DeliverStep \/ FilterStep
  BY <1>1, <1>3, SameCopies DEF DeliverStep, FilterStep
<1>4. CASE DeadLetterStep
  <2> DEFINE o == [sub |-> lock.sub, pos |-> Taken.pos, life |-> resets[lock.sub]]
  <2>1. PICK n : \A x \in Copies' : old(x) \/ (x = n /\ OriginAt(x)' = o)
    BY <1>4, DeadLetterCopies
  <2>2. lock.sub \in DOMAIN sub /\ Taken.pos \notin sub[lock.sub].acked
    BY <1>4 DEF DeadLetterStep, SettleStep, CountsDelivery
  <2>3. ASSUME NEW x \in Copies, OriginAt(x) # NoOrigin
        PROVE  OriginAt(x) # o
    <3>1. SettledCopy(OriginAt(x))
      BY DEF CopiesSettled
    <3> QED
      BY <2>2, <2>3, <3>1 DEF SettledCopy
  <2> HIDE DEF o
  <2> QED
    BY <1>1, <2>1, <2>3
<1> QED
  BY <1>2, <1>3, <1>4, StepShape

DeadLettersKept == CopiesSettled /\ DeadLetteredOnce

LEMMA DeadLettersAlways == Spec => []DeadLettersKept
<1>1. Init => DeadLettersKept
  BY DEF Init, NoEntries, DeadLettersKept, CopiesSettled, DeadLetteredOnce, Copies
<1>2. Inv /\ DeadLettersKept /\ [Next]_vars => DeadLettersKept'
  BY CopiesSettledStep, DeadLetteredOnceStep DEF DeadLettersKept
<1> QED
  BY <1>1, <1>2, InvAlways, PTL DEF Spec

\* Between two seeks a message has at most one copy from the same subscription,
\* however often it was nacked or expired and whatever happens to the copy.
THEOREM OneDeadLetterEach == Spec => []DeadLetteredOnce
BY DeadLettersAlways, PTL DEF DeadLettersKept

\* A message a subscription has dead-lettered is settled there: it is not
\* leased, queued or dropped until the subscription is sought or created again.
THEOREM DeadLettersSettle == Spec => []DeadLetteredSettled
<1>1. DeadLettersKept => DeadLetteredSettled
  BY DEF DeadLettersKept, CopiesSettled, SettledCopy, DeadLetteredSettled
<1> QED
  BY <1>1, DeadLettersAlways, PTL

-----------------------------------------------------------------------------
(* The delivery limit.                                                     *)

\* The dead-letter policy of a subscription is not replaced ...
PolicyStands ==
  \A s \in DOMAIN sub \cap DOMAIN sub' : sub'[s].spec.dead = sub[s].spec.dead

\* ... and the topic it names is there.
DeadTopicsThere ==
  \A s \in DOMAIN sub :
    sub[s].spec.dead # NoDeadLetter => sub[s].spec.dead.topic \in DOMAIN topic

Limit(S) == MaxDeliveryAttempts(S.spec.dead.tries)

\* No message is counted once more than the limit, unless it is settled then.
WithinLimit(S) ==
  S.spec.dead # NoDeadLetter =>
    \A p \in Position :
      /\ S.attempts[p] <= Limit(S) + 1
      /\ S.attempts[p] = Limit(S) + 1 => p \in S.acked

LimitsKept == \A s \in DOMAIN sub : WithinLimit(sub[s])

\* A message is dead-lettered at the limit and not before.
AtLimit(o) ==
  o # NoOrigin /\ o.sub \in DOMAIN sub /\ o.life = resets[o.sub]
    /\ sub[o.sub].spec.dead # NoDeadLetter =>
    sub[o.sub].attempts[o.pos] = Limit(sub[o.sub]) + 1

CopiedAtLimit == \A c \in Copies : AtLimit(OriginAt(c))

LEMMA LimitType ==
  ASSUME NEW S \in SubscriptionState, S.spec.dead # NoDeadLetter
  PROVE  Limit(S) \in Nat /\ Limit(S) < AttemptCap /\ AttemptCap \in Nat
<1>1. S.spec.dead.tries \in Nat
  BY DEF SubscriptionState, SubscriptionSpec, DeadLetterPolicy
<1>2. Limit(S) \in MinTries .. MaxTries
  BY <1>1, ClampRange, PolicyAssumption DEF Limit, MaxDeliveryAttempts
<1> QED
  BY <1>2, PolicyAssumption, BackendAssumption

\* Below the limit the attempt number still counts: AttemptCap is above it.
LEMMA NextWithinLimit ==
  ASSUME NEW S \in SubscriptionState, S.spec.dead # NoDeadLetter, WithinLimit(S),
         NEW p \in Position, p \notin S.acked
  PROVE  NextAttempt(S, p) = S.attempts[p] + 1 /\ NextAttempt(S, p) <= Limit(S) + 1
<1>1. S.attempts[p] \in Nat
  BY BackendAssumption DEF SubscriptionState
<1>2. S.attempts[p] <= Limit(S) + 1 /\ S.attempts[p] # Limit(S) + 1
  BY DEF WithinLimit
<1>3. Limit(S) \in Nat /\ Limit(S) < AttemptCap /\ AttemptCap \in Nat
  BY LimitType
<1> HIDE DEF Limit
<1>4. S.attempts[p] <= Limit(S)
  BY <1>1, <1>2, <1>3
<1>5. S.attempts[p] < AttemptCap
  BY <1>1, <1>3, <1>4
<1> QED
  BY <1>1, <1>3, <1>4, <1>5 DEF NextAttempt

LEMMA CountedWithinLimit ==
  ASSUME NEW S \in SubscriptionState, WithinLimit(S), NEW p \in Position,
         p \notin S.acked, NEW T, T.spec = S.spec, S.acked \subseteq T.acked,
         T.attempts = [S.attempts EXCEPT ![p] = NextAttempt(S, p)],
         p \in T.acked \/ (S.spec.dead # NoDeadLetter => NextAttempt(S, p) <= Limit(S))
  PROVE  WithinLimit(T)
<1> SUFFICES ASSUME S.spec.dead # NoDeadLetter, NEW r \in Position
             PROVE  /\ T.attempts[r] <= Limit(S) + 1
                    /\ T.attempts[r] = Limit(S) + 1 => r \in T.acked
  BY DEF WithinLimit, Limit
<1>1. S.attempts \in [Position -> 0 .. AttemptCap]
  BY DEF SubscriptionState
<1>2. CASE r # p
  BY <1>1, <1>2 DEF WithinLimit
<1>3. CASE r = p
  <2>1. T.attempts[r] = NextAttempt(S, p) /\ NextAttempt(S, p) \in Nat
    BY <1>1, <1>3, AttemptType, BackendAssumption
  <2>2. NextAttempt(S, p) <= Limit(S) + 1 /\ Limit(S) \in Nat
    BY NextWithinLimit, LimitType
  <2> HIDE DEF Limit
  <2> QED
    BY <1>3, <2>1, <2>2
<1> QED
  BY <1>2, <1>3

LEMMA QuietWithinLimit ==
  ASSUME Inv, Inv', QuietStep, PolicyStands, NEW s \in DOMAIN sub',
         s \in DOMAIN sub => WithinLimit(sub[s])
  PROVE  WithinLimit(sub'[s])
<1> DEFINE T == sub'[s]
<1>1. T \in SubscriptionState
  BY DEF Inv, SubsOK
<1>2. CASE Restarted(T)
  <2>1. ASSUME T.spec.dead # NoDeadLetter, NEW p \in Position
        PROVE  T.attempts[p] <= Limit(T) + 1 /\ T.attempts[p] # Limit(T) + 1
    <3>1. T.attempts[p] = 0
      BY <1>2 DEF Restarted
    <3>2. Limit(T) \in Nat
      BY <1>1, <2>1, LimitType
    <3> HIDE DEF Limit
    <3> QED
      BY <3>1, <3>2
  <2> QED
    BY <2>1 DEF WithinLimit
<1>3. CASE s \in DOMAIN sub /\ Quieter(sub[s], T)
  <2>1. T.spec.dead = sub[s].spec.dead
    BY <1>3 DEF PolicyStands
  <2> QED
    BY <1>3, <2>1 DEF WithinLimit, Quieter, Limit
<1> QED
  BY <1>2, <1>3 DEF QuietStep, QuietSub

\* Whatever pull makes of the message it counts, the limit is kept: one more
\* than the limit settles it.
LEMMA CountingWithinLimit ==
  ASSUME Inv, LimitsKept, DeadTopicsThere, DeliverStep \/ FilterStep \/ DeadLetterStep
  PROVE  LimitsKept'
<1> DEFINE S == sub[lock.sub]
           p == Taken.pos
<1>1. PICK T : /\ CountsDelivery(T) /\ S.acked \subseteq T.acked
               /\ p \in T.acked \/ ~Exhausted(S, p)
  BY DEF DeliverStep, FilterStep, DeadLetterStep, SettleStep
<1>2. /\ lock.sub \in DOMAIN sub /\ p \in Position /\ p \notin S.acked
      /\ sub' = [sub EXCEPT ![lock.sub] = T] /\ T.spec = S.spec
      /\ T.attempts = [S.attempts EXCEPT ![p] = NextAttempt(S, p)]
  BY <1>1 DEF CountsDelivery
<1>3. S \in SubscriptionState /\ WithinLimit(S)
  BY <1>2 DEF Inv, SubsOK, LimitsKept
<1>4. ASSUME p \notin T.acked, S.spec.dead # NoDeadLetter
      PROVE  NextAttempt(S, p) <= Limit(S)
  <2>1. ~(NextAttempt(S, p) > Limit(S))
    BY <1>1, <1>2, <1>4 DEF Exhausted, DeadTopicsThere, Limit
  <2>2. NextAttempt(S, p) \in Nat /\ Limit(S) \in Nat
    BY <1>2, <1>3, <1>4, AttemptType, LimitType, BackendAssumption
  <2> HIDE DEF Limit, S, p
  <2> QED
    BY <2>1, <2>2
<1>5. WithinLimit(T)
  BY <1>1, <1>2, <1>3, <1>4, CountedWithinLimit
<1> HIDE DEF S, p
<1> QED
  BY <1>2, <1>5 DEF LimitsKept

LEMMA LimitsStep ==
  ASSUME Inv, Inv', LimitsKept, PolicyStands, DeadTopicsThere, [Next]_vars
  PROVE  LimitsKept'
<1>1. CASE QuietStep
  BY <1>1, QuietWithinLimit DEF LimitsKept
<1> QED
  BY <1>1, CountingWithinLimit, StepShape

\* The copies there are stay as they are: their message is settled, so it is
\* not counted again.
LEMMA CopyStaysAtLimit ==
  ASSUME Inv, CopiesSettled, CopiedAtLimit, PolicyStands,
         NEW c \in Copies, NEW o, o = OriginAt(c),
         QuietStep \/ \E T : CountsDelivery(T)
  PROVE  AtLimit(o)'
<1> SUFFICES ASSUME o # NoOrigin, o.sub \in DOMAIN sub', o.life = resets'[o.sub],
                    sub'[o.sub].spec.dead # NoDeadLetter
             PROVE  sub'[o.sub].attempts[o.pos] = Limit(sub'[o.sub]) + 1
  BY DEF AtLimit
<1>1. /\ o.sub \in Subs /\ o.life \in Nat /\ resets[o.sub] \in Nat /\ o.pos \in Position
      /\ o.life <= resets[o.sub]
      /\ o.sub \in DOMAIN sub /\ o.life = resets[o.sub] => o.pos \in sub[o.sub].acked
      /\ AtLimit(o)
  BY OriginType DEF CopiesSettled, SettledCopy, CopiedAtLimit
<1>2. CASE QuietStep
  <2>1. resets'[o.sub] = resets[o.sub]
    BY <1>1, <1>2 DEF QuietStep
  <2>2. o.sub \in DOMAIN sub /\ Quieter(sub[o.sub], sub'[o.sub])
    BY <1>1, <1>2, <2>1 DEF QuietStep, QuietSub
  <2>3. sub'[o.sub].spec.dead = sub[o.sub].spec.dead
    BY <2>2 DEF PolicyStands
  <2> QED
    BY <1>1, <2>1, <2>2, <2>3 DEF AtLimit, Quieter, Limit
<1>3. ASSUME NEW T, CountsDelivery(T)
      PROVE  sub'[o.sub].attempts[o.pos] = Limit(sub'[o.sub]) + 1
  <2> DEFINE S == sub[lock.sub]
             p == Taken.pos
  <2>1. /\ lock.sub \in DOMAIN sub /\ p \notin S.acked
        /\ sub' = [sub EXCEPT ![lock.sub] = T] /\ T.spec = S.spec
        /\ T.attempts = [S.attempts EXCEPT ![p] = NextAttempt(S, p)]
        /\ UNCHANGED resets
    BY <1>3 DEF CountsDelivery
  <2>2. S.attempts \in [Position -> 0 .. AttemptCap]
    BY <2>1 DEF Inv, SubsOK, SubscriptionState
  <2> HIDE DEF S, p
  <2>3. CASE o.sub = lock.sub
    <3>1. S = sub[o.sub] /\ T = sub'[o.sub]
      BY <2>1, <2>3 DEF S
    <3>2. o.pos # p
      BY <1>1, <2>1, <3>1
    <3>3. T.attempts[o.pos] = S.attempts[o.pos]
      BY <1>1, <2>1, <2>2, <3>2
    <3> QED
      BY <1>1, <2>1, <3>1, <3>3 DEF AtLimit, Limit
  <2>4. CASE o.sub # lock.sub
    BY <1>1, <2>1, <2>4 DEF AtLimit
  <2> QED
    BY <2>3, <2>4
<1> QED
  BY <1>2, <1>3

\* The copy that dead-lettering writes is of a message beyond its limit, and
\* only just.
LEMMA NewCopyAtLimit ==
  ASSUME Inv, LimitsKept, DeadLetterStep
  PROVE  LET S == sub'[lock.sub]
         IN  S.spec.dead # NoDeadLetter => S.attempts[Taken.pos] = Limit(S) + 1
<1> DEFINE S == sub[lock.sub]
           p == Taken.pos
<1>1. PICK T : CountsDelivery(T) /\ Exhausted(S, p)
  BY DEF DeadLetterStep, SettleStep
<1>2. /\ lock.sub \in DOMAIN sub /\ p \in Position /\ p \notin S.acked
      /\ sub' = [sub EXCEPT ![lock.sub] = T] /\ T.spec = S.spec
      /\ T.attempts = [S.attempts EXCEPT ![p] = NextAttempt(S, p)]
  BY <1>1 DEF CountsDelivery
<1>3. S \in SubscriptionState /\ WithinLimit(S)
  BY <1>2 DEF Inv, SubsOK, LimitsKept
<1>4. S.spec.dead # NoDeadLetter /\ NextAttempt(S, p) > Limit(S)
  BY <1>1 DEF Exhausted, Limit
<1>5. NextAttempt(S, p) <= Limit(S) + 1 /\ Limit(S) \in Nat /\ NextAttempt(S, p) \in Nat
  BY <1>2, <1>3, <1>4, NextWithinLimit, LimitType, AttemptType, BackendAssumption
<1>6. S.attempts \in [Position -> 0 .. AttemptCap]
  BY <1>3 DEF SubscriptionState
<1>7. Limit(T) = Limit(S)
  BY <1>2 DEF Limit
<1> HIDE DEF S, p, Limit
<1>8. NextAttempt(S, p) = Limit(S) + 1
  BY <1>4, <1>5
<1> QED
  BY <1>2, <1>6, <1>7, <1>8 DEF p

LEMMA CopiedAtLimitStep ==
  ASSUME Inv, CopiesSettled, LimitsKept, CopiedAtLimit, PolicyStands, [Next]_vars
  PROVE  CopiedAtLimit'
<1> SUFFICES ASSUME NEW c \in Copies' PROVE AtLimit(OriginAt(c))'
  BY DEF CopiedAtLimit
<1>1. PICK o : o = OriginAt(c)'
  OBVIOUS
<1> SUFFICES AtLimit(o)'
  BY <1>1 DEF AtLimit
<1>2. CASE o = NoOrigin
  BY <1>2 DEF AtLimit
<1>3. ASSUME c \in Copies, o = OriginAt(c), QuietStep \/ \E T : CountsDelivery(T)
      PROVE  AtLimit(o)'
  BY <1>3, CopyStaysAtLimit
<1>4. CASE QuietStep
  BY <1>1, <1>2, <1>3, <1>4, QuietCopies
<1>5. CASE DeliverStep \/ FilterStep
  <2>1. UNCHANGED topic /\ \E T : CountsDelivery(T)
    BY <1>5 DEF DeliverStep, FilterStep, SettleStep
  <2> QED
    BY <1>1, <1>3, <2>1, SameCopies
<1>6. CASE DeadLetterStep
  <2>1. \E T : CountsDelivery(T)
    BY <1>6 DEF DeadLetterStep, SettleStep
  <2>2. CASE o = [sub |-> lock.sub, pos |-> Taken.pos, life |-> resets[lock.sub]]
    <3>1. o.sub = lock.sub /\ o.pos = Taken.pos
      BY <2>2
    <3> QED
      BY <1>6, <3>1, NewCopyAtLimit DEF AtLimit
  <2> QED
    BY <1>1, <1>3, <1>6, <2>1, <2>2, DeadLetterCopies
<1> QED
  BY <1>4, <1>5, <1>6, StepShape

BudgetKept == LimitsKept /\ CopiedAtLimit

\* A subscription with a dead-letter policy leases a message as often as the
\* policy says and no more often, and dead-letters it then and not before, in
\* every interleaving of pulls, acks, nacks and expiries: as long as its policy
\* is not replaced and the topic it names exists.
THEOREM DeliveredWithinBudget ==
  Spec /\ [][PolicyStands]_vars /\ []DeadTopicsThere => []DeadLetterBudget
<1>1. Init => BudgetKept
  BY DEF Init, NoEntries, BudgetKept, LimitsKept, CopiedAtLimit, Copies
<1>2. Inv /\ Inv' /\ DeadLettersKept /\ DeadTopicsThere /\ BudgetKept /\ [Next]_vars
        /\ [PolicyStands]_vars => BudgetKept'
  <2>1. UNCHANGED vars => PolicyStands
    BY DEF vars, PolicyStands
  <2> QED
    BY <2>1, LimitsStep, CopiedAtLimitStep DEF BudgetKept, DeadLettersKept
<1>3. Inv /\ Numbered /\ BudgetKept => DeadLetterBudget
  <2> SUFFICES ASSUME Inv, Numbered, BudgetKept, NEW s \in DOMAIN sub,
                      sub[s].spec.dead # NoDeadLetter
               PROVE  LET S == sub[s]
                      IN  /\ \A l \in S.leases : l.attempt <= Limit(S)
                          /\ \A c \in Copies :
                               LET o == OriginAt(c)
                               IN  o # NoOrigin /\ o.sub = s /\ o.life = resets[s] =>
                                     S.attempts[o.pos] = Limit(S) + 1
    BY DEF DeadLetterBudget, Limit
  <2> DEFINE S == sub[s]
  <2>1. S \in SubscriptionState /\ WithinLimit(S) /\ InOnePlace(S)
    BY DEF Inv, SubsOK, Booked, BudgetKept, LimitsKept
  <2>2. Limit(S) \in Nat
    BY <2>1, LimitType
  <2>3. ASSUME NEW l \in S.leases
        PROVE  l.attempt <= Limit(S)
    <3>1. l.pos \in Position /\ l.pos \in Leased(S)
      BY <2>1 DEF SubscriptionState, Lease, Leased
    <3>2. l.pos \notin S.acked
      BY <2>1, <3>1 DEF InOnePlace
    <3>3. l.attempt = S.attempts[l.pos]
      <4>1. AckId(l) \in Ids(S) /\ NumbersFresh(S)
        BY DEF Numbered, Ids
      <4>2. AckId(l)[1] = l.pos /\ AckId(l)[2] = l.attempt
        BY DEF AckId
      <4> QED
        BY <4>1, <4>2 DEF NumbersFresh
    <3>4. S.attempts[l.pos] <= Limit(S) + 1 /\ S.attempts[l.pos] # Limit(S) + 1
      BY <2>1, <3>1, <3>2 DEF WithinLimit
    <3>5. S.attempts[l.pos] \in Nat
      BY <2>1, <3>1, BackendAssumption DEF SubscriptionState
    <3> HIDE DEF Limit
    <3> QED
      BY <2>2, <3>3, <3>4, <3>5
  <2> QED
    BY <2>3 DEF BudgetKept, CopiedAtLimit, AtLimit
<1> QED
  BY <1>1, <1>2, <1>3, InvAlways, NumberedAlways, DeadLettersAlways, PTL DEF Spec

-----------------------------------------------------------------------------
(* Publish: each id once, and nothing that does not conform.               *)

\* A topic's log has each client id once, and seen is the ids it has.
IdsOnce(T) ==
  /\ \A i, j \in DOMAIN T.log : T.log[i].id = T.log[j].id /\ T.log[i].id # NoId => i = j
  /\ T.seen = {T.log[i].id : i \in DOMAIN T.log} \ {NoId}

TopicsOnce(topics) == \A t \in DOMAIN topics : IdsOnce(topics[t])

LEMMA OnceAppended ==
  ASSUME NEW T, NEW U, T.log \in Seq(Message), IdsOnce(T), NEW m \in Message,
         m.id \notin T.seen \/ m.id = NoId,
         U.log = Append(T.log, m), U.seen = T.seen \cup ({m.id} \ {NoId})
  PROVE  IdsOnce(U)
<1> DEFINE n == Len(T.log)
<1>1. /\ n \in Nat /\ DOMAIN T.log = 1 .. n /\ DOMAIN U.log = 1 .. n + 1
      /\ \A i \in 1 .. n : U.log[i] = T.log[i]
      /\ U.log[n + 1] = m
  BY AppendProperties
<1> HIDE DEF n
<1>2. ASSUME NEW i \in 1 .. n, m.id # NoId
      PROVE  T.log[i].id # m.id
  BY <1>1, <1>2 DEF IdsOnce
<1>3. \A i \in DOMAIN U.log : i \in 1 .. n \/ i = n + 1
  BY <1>1
<1>4. \A i, j \in DOMAIN U.log : U.log[i].id = U.log[j].id /\ U.log[i].id # NoId => i = j
  BY <1>1, <1>2, <1>3 DEF IdsOnce
<1>5. {U.log[i].id : i \in DOMAIN U.log} = {T.log[i].id : i \in DOMAIN T.log} \cup {m.id}
  <2>1. 1 .. n \subseteq DOMAIN U.log /\ n + 1 \in DOMAIN U.log
    BY <1>1
  <2> QED
    BY <1>1, <1>3, <2>1
<1> QED
  BY <1>4, <1>5 DEF IdsOnce

LEMMA PublishOnce ==
  ASSUME Inv, TopicsOnce(topic), PublishStep
  PROVE  TopicsOnce(topic)'
<1> DEFINE T == topic[lock.topic]
           m == Head(lock.todo)
           e == AsMessage(m, NoOrigin)
           U == IF m.id \in T.seen THEN T ELSE Appended(T, m)
<1>1. /\ lock.topic \in DOMAIN topic /\ T \in TopicState /\ T.log \in Seq(Message)
      /\ lock.todo \in Seq(NewMessage) \ {<<>>}
  BY LockShape DEF Inv, LockOK, TopicsOK, TopicState, PublishStep
<1>2. m \in NewMessage
  BY <1>1, HeadTailProperties, EmptySeq
<1>3. e \in Message /\ e.id = m.id
  BY <1>2 DEF AsMessage, Message, NewMessage
<1>4. /\ Appended(T, m).log = Append(T.log, e)
      /\ Appended(T, m).seen = T.seen \cup ({m.id} \ {NoId})
  BY <1>1 DEF Appended, TopicState
<1>5. topic' = [topic EXCEPT ![lock.topic] = U]
  BY DEF PublishStep
<1>6. IdsOnce(T)
  BY <1>1 DEF TopicsOnce
<1> HIDE DEF T, m, e
<1>7. IdsOnce(U)
  BY <1>1, <1>3, <1>4, <1>6, OnceAppended
<1> HIDE DEF U
<1> QED
  BY <1>5, <1>7 DEF TopicsOnce

\* A dead letter has no id: only the publisher's message counts as seen.
LEMMA DeadLetterOnce ==
  ASSUME Inv, TopicsOnce(topic), PullDeadLetter
  PROVE  TopicsOnce(topic)'
<1>1. DeadLetterStep
  BY DeadLetterCounts
<1>2. PICK d \in DOMAIN topic, m \in Message :
        m.id = NoId /\ topic' = [topic EXCEPT ![d].log = Append(@, m)]
  BY <1>1 DEF DeadLetterStep
<1> DEFINE T == topic[d]
           U == [T EXCEPT !.log = Append(T.log, m)]
<1>3. T \in TopicState /\ T.log \in Seq(Message) /\ IdsOnce(T)
  BY DEF Inv, TopicsOK, TopicState, TopicsOnce
<1>4. U.log = Append(T.log, m) /\ U.seen = T.seen \cup ({m.id} \ {NoId})
  BY <1>2, <1>3 DEF TopicState
<1>5. topic' = [topic EXCEPT ![d] = U]
  BY <1>2
<1> HIDE DEF T, U
<1>6. IdsOnce(U)
  BY <1>2, <1>3, <1>4, OnceAppended
<1> QED
  BY <1>5, <1>6 DEF TopicsOnce

LEMMA TopicAdminOnce ==
  ASSUME Inv, TopicsOnce(topic), TopicAdmin
  PROVE  TopicsOnce(topic)'
<1>1. ASSUME NEW t \in Topics, NEW c, CreateTopic(t, c)
      PROVE  TopicsOnce(topic)'
  <2> DEFINE T == [log |-> <<>>, seen |-> {}, schema |-> c]
  <2>1. T.log = <<>> /\ DOMAIN T.log = {} /\ T.seen = {}
    OBVIOUS
  <2>2. topic' = [u \in DOMAIN topic \cup {t} |-> IF u = t THEN T ELSE topic[u]]
    BY <1>1 DEF CreateTopic, Put
  <2> HIDE DEF T
  <2>3. IdsOnce(T)
    BY <2>1 DEF IdsOnce
  <2> QED
    BY <2>2, <2>3 DEF TopicsOnce
<1>2. ASSUME NEW t \in Topics, NEW c, UpdateTopic(t, c)
      PROVE  TopicsOnce(topic)'
  <2>1. t \in DOMAIN topic /\ topic' = [topic EXCEPT ![t] = [topic[t] EXCEPT !.schema = c]]
    BY <1>2 DEF UpdateTopic
  <2>2. /\ [topic[t] EXCEPT !.schema = c].log = topic[t].log
        /\ [topic[t] EXCEPT !.schema = c].seen = topic[t].seen
    BY <2>1 DEF Inv, TopicsOK, TopicState
  <2> QED
    BY <2>1, <2>2 DEF TopicsOnce, IdsOnce
<1>3. ASSUME NEW t \in Topics, DeleteTopic(t)
      PROVE  TopicsOnce(topic)'
  BY <1>3 DEF DeleteTopic, Drop, TopicsOnce
<1>4. CASE UNCHANGED topic
  BY <1>4 DEF TopicsOnce
<1> QED
  BY <1>1, <1>2, <1>3, <1>4 DEF TopicAdmin, CreateSchema, DeleteSchema

LEMMA OnceStep ==
  ASSUME Inv, TopicsOnce(topic), [Next]_vars
  PROVE  TopicsOnce(topic)'
<1>1. CASE UNCHANGED topic
  BY <1>1 DEF TopicsOnce
<1>2. CASE ~UNCHANGED topic
  <2>1. CASE DataPlane
    BY <1>2, <2>1, PublishOnce, DeadLetterOnce
       DEF DataPlane, Publish, PublishBegin, Consume, PullBegin, AckBegin, NackBegin,
           ExtendDeadline, LockedStep, PullStep, SweepExpired, SweepEnd, PullPass,
           PullFilterOut, PullDeliver, PullPanic, PullEnd, AckStep, AckExpired,
           NackStep, Tick
  <2>2. CASE Seek \/ SubscriptionAdmin
    BY <1>2, <2>2 DEF Seek, SeekToTime, SeekToSnapshot, SubscriptionAdmin,
       CreateSubscription, UpdateSubscription, DeleteSubscription, CreateSnapshot,
       DeleteSnapshot
  <2> QED
    BY <1>2, <2>1, <2>2, TopicAdminOnce DEF Next, vars
<1> QED
  BY <1>1, <1>2

LEMMA ValidatedStep ==
  ASSUME Inv, PublishValidated, [Next]_vars
  PROVE  PublishValidated'
<1>1. CASE lock'.op # "publish"
  BY <1>1 DEF PublishValidated
<1>2. CASE UNCHANGED <<lock, topic, schema>>
  BY <1>2 DEF PublishValidated, Conforms
<1>3. CASE Publish
  BY <1>3 DEF Publish, PublishBegin, PublishValidated, Conforms
<1>4. CASE PublishStep /\ lock' # Free
  <2> DEFINE t == lock.topic
             m == Head(lock.todo)
             q == lock.todo
  <2>1. /\ t \in DOMAIN topic /\ topic[t] \in TopicState
        /\ q \in Seq(NewMessage) \ {<<>>} /\ Len(q) \in Nat
    BY <1>4, LockShape DEF Inv, LockOK, TopicsOK, PublishStep
  <2>2. Rest \in Operations /\ Rest.todo = Tail(q) /\ Rest.topic = t /\ lock' = Rest
    BY <1>4, RestType DEF Inv, PublishStep
  <2>3. topic'[t].schema = topic[t].schema
    BY <1>4, <2>1 DEF PublishStep, Appended, TopicState
  <2>4. \A i \in DOMAIN Tail(q) : i + 1 \in DOMAIN q /\ Tail(q)[i] = q[i + 1]
    BY <2>1, HeadTailProperties, EmptySeq
  <2>5. Conforms(q, topic[t].schema)
    BY <1>4 DEF PublishValidated, PublishStep
  <2>6. UNCHANGED schema
    BY <1>4 DEF PublishStep
  <2> HIDE DEF t, q
  <2>7. CASE topic[t].schema = NoSchema
    BY <2>2, <2>3, <2>7 DEF PublishValidated, Conforms
  <2>8. CASE topic[t].schema # NoSchema
    BY <2>2, <2>3, <2>4, <2>5, <2>6, <2>8 DEF PublishValidated, Conforms
  <2> QED
    BY <2>7, <2>8
<1>5. CASE Consume \/ Seek \/ SubscriptionAdmin \/ TopicAdmin \/ Tick
  <2>1. Free.op # "publish"
    BY DEF Free
  <2>2. ASSUME NEW s, NEW n, PullBegin(s, n) \/ AckBegin(s, n) \/ NackBegin(s, n)
        PROVE  lock'.op # "publish"
    BY <2>2 DEF PullBegin, AckBegin, NackBegin
  <2>3. CASE UNCHANGED lock /\ Idle
    BY <1>1, <2>1, <2>3 DEF Idle
  <2>4. CASE Consume
    BY <1>1, <2>2, <2>3, <2>4 DEF Consume, ExtendDeadline
  <2>5. CASE Seek \/ SubscriptionAdmin \/ TopicAdmin \/ Tick
    BY <2>3, <2>5 DEF Seek, SeekToTime, SeekToSnapshot, SubscriptionAdmin,
       CreateSubscription, UpdateSubscription, DeleteSubscription, CreateSnapshot,
       DeleteSnapshot, TopicAdmin, CreateTopic, UpdateTopic, DeleteTopic,
       CreateSchema, DeleteSchema, Tick
  <2> QED
    BY <1>5, <2>4, <2>5
<1>6. CASE LockedStep /\ ~PublishStep
  <2>1. CASE PullStep
    <3>1. lock.op \in {"sweep", "pull"}
      BY <2>1 DEF PullStep, SweepExpired, SweepEnd, PullPass, PullFilterOut,
         PullDeliver, PullDeadLetter, PullPanic, PullEnd, Takeable
    <3>2. /\ lock \in [op : {"sweep"}, sub : Subs, room : Nat]
               \cup [op : {"pull"}, sub : Subs, room : Nat, len : 0 .. MaxLen,
                     skipped : SUBSET Position]
      BY <3>1, LockShape DEF Inv
    <3>3. \A x : /\ [lock EXCEPT !.room = x].op # "publish"
                 /\ [lock EXCEPT !.skipped = x].op # "publish"
      BY <3>2
    <3>4. ASSUME SweepEnd \/ PullEnd \/ PullPanic PROVE lock'.op # "publish"
      BY <3>4 DEF SweepEnd, PullEnd, PullPanic, Free
    <3>5. ASSUME PullPass
          PROVE  lock'.op # "publish"
      BY <3>3, <3>5 DEF PullPass
    <3>6. ASSUME PullDeliver
          PROVE  lock'.op # "publish"
      BY <3>3, <3>6 DEF PullDeliver
    <3>7. ASSUME SweepExpired \/ PullDeadLetter \/ PullFilterOut
          PROVE  lock'.op # "publish"
      BY <3>1, <3>7 DEF SweepExpired, PullDeadLetter, PullFilterOut
    <3> QED
      BY <1>1, <2>1, <3>4, <3>5, <3>6, <3>7 DEF PullStep
  <2>2. CASE AckStep \/ AckExpired \/ NackStep
    <3>1. lock.op \in {"ack", "nack"} /\ lock' \in {Rest, Free}
      BY <2>2 DEF AckStep, AckExpired, NackStep
    <3>2. Rest = Free \/ Rest.op = lock.op
      BY <3>1, RestType DEF Inv
    <3> QED
      BY <1>1, <3>1, <3>2 DEF Free
  <2> QED
    BY <1>6, <2>1, <2>2 DEF LockedStep
<1>7. CASE PublishStep /\ lock' = Free
  BY <1>1, <1>7 DEF Free
<1> QED
  BY <1>2, <1>3, <1>4, <1>5, <1>6, <1>7 DEF Next, DataPlane, vars

LEMMA OnceIsPublishedOnce == TopicsOnce(topic) <=> PublishedOnce
BY DEF TopicsOnce, IdsOnce, PublishedOnce

\* A topic holds one message per client-given id and knows exactly the ids it
\* holds, whatever is published, in one batch or several, and dead-lettered.
THEOREM IdsStoredOnce == Spec => []PublishedOnce
<1>1. Init => TopicsOnce(topic)
  BY DEF Init, NoEntries, TopicsOnce
<1>2. Inv /\ TopicsOnce(topic) /\ [Next]_vars => TopicsOnce(topic)'
  BY OnceStep
<1> QED
  BY <1>1, <1>2, InvAlways, OnceIsPublishedOnce, PTL DEF Spec

\* No schema is bound, replaced or deleted between the validation of a batch and
\* the append of its last message: what a publish stores conforms.
THEOREM BatchesConform == Spec => []PublishValidated
<1>1. Init => PublishValidated
  BY DEF Init, Free, PublishValidated
<1>2. Inv /\ PublishValidated /\ [Next]_vars => PublishValidated'
  BY ValidatedStep
<1> QED
  BY <1>1, <1>2, InvAlways, PTL DEF Spec
=============================================================================

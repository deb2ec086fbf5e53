--------------------------- MODULE BackendProofs ---------------------------
(***************************************************************************)
(* Every operation of the broker, in any interleaving, keeps its state     *)
(* well typed and the books of every subscription in order.                *)
(*                                                                         *)
(* The inductive invariant Inv adds to TypeOK what the lock holder relies  *)
(* on and, per subscription, Booked of SubscriptionProofs: each of the     *)
(* properties proved here needs the others, since an operation that moves  *)
(* a message from one place to the next is right only if the message was   *)
(* in one place.  CInv adds that cursors stay inside their logs.           *)
(***************************************************************************)
EXTENDS SubscriptionProofs

TopicsOK ==
  /\ DOMAIN topic \subseteq Topics /\ topic \in [DOMAIN topic -> TopicState]
  /\ \A t \in DOMAIN topic : Len(topic[t].log) <= MaxLen

SubsOK ==
  /\ DOMAIN sub \subseteq Subs /\ sub \in [DOMAIN sub -> SubscriptionState]
  /\ \A s \in DOMAIN sub : Booked(sub[s])

NamesOK ==
  /\ DOMAIN snap \subseteq Snaps /\ snap \in [DOMAIN snap -> SnapshotSpec]
  /\ DOMAIN schema \subseteq Schemas /\ schema \in [DOMAIN schema -> SUBSET Data]
  /\ resets \in [Subs -> 0 .. MaxResets]
  /\ stale \subseteq Subs \cup Snaps

LockOK ==
  /\ lock \in Operations
  /\ lock.op = "publish" =>
       lock.topic \in DOMAIN topic
       /\ Len(topic[lock.topic].log) + Len(lock.todo) <= MaxLen
  /\ lock.op \in {"sweep", "pull", "ack", "nack"} => lock.sub \in DOMAIN sub
  /\ lock.op \in {"sweep", "pull"} => sub[lock.sub].spec.topic \in DOMAIN topic
  /\ lock.op = "pull" => lock.len <= Len(LogOf(sub[lock.sub]))

Inv == TopicsOK /\ SubsOK /\ NamesOK /\ LockOK

-----------------------------------------------------------------------------
(* The invariant at the start, and what it implies.                        *)

LEMMA InvInit == Init => Inv
<1> SUFFICES ASSUME Init PROVE Inv
  OBVIOUS
<1> USE DEF Init, NoEntries
<1>1. TopicsOK /\ SubsOK
  BY DEF TopicsOK, SubsOK
<1>2. NamesOK
  BY BackendAssumption DEF NamesOK
<1>3. LockOK
  BY DEF LockOK, Operations, Free
<1> QED
  BY <1>1, <1>2, <1>3 DEF Inv

LEMMA InvImplies ==
  Inv => TypeOK /\ MessagesAccounted /\ MessagesInOnePlace
BY DEF Inv, TopicsOK, SubsOK, NamesOK, LockOK, TypeOK, MessagesAccounted,
       MessagesInOnePlace, Booked

-----------------------------------------------------------------------------
(* What a step that replaces one subscription, or leaves the lock free,    *)
(* has to show.                                                            *)

LEMMA SubReplaced ==
  ASSUME SubsOK, NEW s \in DOMAIN sub, NEW T, Booked(T),
         sub' = [sub EXCEPT ![s] = T]
  PROVE  /\ SubsOK' /\ DOMAIN sub' = DOMAIN sub /\ sub'[s] = T
         /\ \A r \in DOMAIN sub : r # s => sub'[r] = sub[r]
BY DEF SubsOK, Booked

LEMMA LockFreed ==
  ASSUME lock' = Free
  PROVE  LockOK'
BY DEF LockOK, Operations, Free

\* The operations by name.
LEMMA LockShape ==
  ASSUME LockOK
  PROVE  /\ lock.op = "publish" =>
              lock \in [op : {"publish"}, topic : Topics, todo : Seq(NewMessage) \ {<<>>}]
         /\ lock.op = "sweep" => lock \in [op : {"sweep"}, sub : Subs, room : Nat]
         /\ lock.op = "pull" =>
              lock \in [op : {"pull"}, sub : Subs, room : Nat, len : 0 .. MaxLen,
                        skipped : SUBSET Position]
         /\ lock.op \in {"ack", "nack"} =>
              lock \in [op : {"ack", "nack"}, sub : Subs,
                        todo : Seq(Nat \X Nat) \ {<<>>}]
BY DEF LockOK, Operations, Free

\* A pull goes on while its subscription stays with its topic.
LEMMA LockPulls ==
  ASSUME LockOK, lock.op \in {"sweep", "pull"},
         UNCHANGED <<topic, lock>>, DOMAIN sub' = DOMAIN sub,
         sub'[lock.sub].spec = sub[lock.sub].spec
  PROVE  LockOK'
BY DEF LockOK, LogOf, Operations, Free

-----------------------------------------------------------------------------
(* Administration.                                                         *)

\* The parts of Inv a step leaves alone.
LEMMA NamesKept ==
  ASSUME NamesOK, UNCHANGED <<snap, schema, resets, stale>>
  PROVE  NamesOK'
BY DEF NamesOK

LEMMA SubsKept ==
  ASSUME SubsOK, UNCHANGED sub
  PROVE  SubsOK'
BY DEF SubsOK

LEMMA TopicsKept ==
  ASSUME TopicsOK, UNCHANGED topic
  PROVE  TopicsOK'
BY DEF TopicsOK

LEMMA TopicAdminInv ==
  ASSUME Inv, TopicAdmin
  PROVE  Inv'
<1> USE DEF Inv, Idle
<1>1. ASSUME NEW t \in Topics, NEW c \in Schemas \cup {NoSchema}, CreateTopic(t, c)
      PROVE  Inv'
  <2>1. [log |-> <<>>, seen |-> {}, schema |-> c] \in TopicState
    BY DEF TopicState
  <2>2. TopicsOK'
    BY <1>1, <2>1, BackendAssumption DEF TopicsOK, CreateTopic, Put
  <2> QED
    BY <1>1, <2>2, SubsKept, NamesKept, LockFreed DEF CreateTopic
<1>2. ASSUME NEW t \in Topics, NEW c \in Schemas \cup {NoSchema}, UpdateTopic(t, c)
      PROVE  Inv'
  <2>1. TopicsOK'
    BY <1>2 DEF TopicsOK, UpdateTopic, TopicState
  <2> QED
    BY <1>2, <2>1, SubsKept, NamesKept, LockFreed DEF UpdateTopic
<1>3. ASSUME NEW t \in Topics, DeleteTopic(t)
      PROVE  Inv'
  <2>1. TopicsOK'
    BY <1>3 DEF TopicsOK, DeleteTopic, Drop
  <2>2. NamesOK'
    BY <1>3 DEF NamesOK, DeleteTopic, SubsOK
  <2> QED
    BY <1>3, <2>1, <2>2, SubsKept, LockFreed DEF DeleteTopic
<1>4. ASSUME NEW c \in Schemas, NEW accepted \in SUBSET Data, CreateSchema(c, accepted)
      PROVE  Inv'
  <2>1. NamesOK'
    BY <1>4 DEF NamesOK, CreateSchema, Put
  <2> QED
    BY <1>4, <2>1, SubsKept, TopicsKept, LockFreed DEF CreateSchema
<1>5. ASSUME NEW c \in Schemas, DeleteSchema(c)
      PROVE  Inv'
  <2>1. NamesOK'
    BY <1>5 DEF NamesOK, DeleteSchema, Drop
  <2> QED
    BY <1>5, <2>1, SubsKept, TopicsKept, LockFreed DEF DeleteSchema
<1> QED
  BY <1>1, <1>2, <1>3, <1>4, <1>5 DEF TopicAdmin

LEMMA SubscriptionAdminInv ==
  ASSUME Inv, SubscriptionAdmin
  PROVE  Inv'
<1> USE DEF Inv, Idle
<1>1. ASSUME NEW s \in Subs, NEW spec \in Specs, CreateSubscription(s, spec)
      PROVE  Inv'
  <2>1. spec \in SubscriptionSpec
    BY BackendAssumption
  <2>2. Len(topic[spec.topic].log) \in 0 .. MaxLen
    BY <1>1 DEF TopicsOK, TopicState, CreateSubscription
  <2>3. Booked(NewSubscription(spec, Len(topic[spec.topic].log)))
    BY <2>1, <2>2, NewSubscriptionBooked
  <2>4. SubsOK'
    BY <1>1, <2>3 DEF SubsOK, CreateSubscription, Put, Booked
  <2>5. NamesOK'
    BY <1>1, BackendAssumption DEF NamesOK, CreateSubscription
  <2> QED
    BY <1>1, <2>4, <2>5, TopicsKept, LockFreed DEF CreateSubscription
<1>2. ASSUME NEW s \in Subs, NEW spec \in Specs, NEW mask \in SUBSET MaskFields,
             UpdateSubscription(s, spec, mask)
      PROVE  Inv'
  <2>1. spec \in SubscriptionSpec /\ s \in DOMAIN sub /\ Booked(sub[s])
    BY <1>2, BackendAssumption DEF UpdateSubscription, SubsOK
  <2>2. Booked([sub[s] EXCEPT !.spec = Masked(@, spec, mask)])
    BY <2>1, MaskedBooked
  <2>3. sub' = [sub EXCEPT ![s] = [sub[s] EXCEPT !.spec = Masked(@, spec, mask)]]
    BY <1>2, <2>1 DEF UpdateSubscription, SubsOK, SubscriptionState
  <2>4. SubsOK'
    BY <2>1, <2>2, <2>3, SubReplaced
  <2> QED
    BY <1>2, <2>4, TopicsKept, NamesKept, LockFreed DEF UpdateSubscription
<1>3. ASSUME NEW s \in Subs, DeleteSubscription(s)
      PROVE  Inv'
  <2>1. SubsOK'
    BY <1>3 DEF SubsOK, DeleteSubscription, Drop
  <2> QED
    BY <1>3, <2>1, TopicsKept, NamesKept, LockFreed DEF DeleteSubscription
<1>4. ASSUME NEW n \in Snaps, NEW s \in Subs, CreateSnapshot(n, s)
      PROVE  Inv'
  <2>1. [topic |-> sub[s].spec.topic, cursor |-> sub[s].cursor] \in SnapshotSpec
    BY <1>4 DEF SubsOK, SubscriptionState, SubscriptionSpec, SnapshotSpec, CreateSnapshot
  <2>2. NamesOK'
    BY <1>4, <2>1 DEF NamesOK, CreateSnapshot, Put
  <2> QED
    BY <1>4, <2>2, SubsKept, TopicsKept, LockFreed DEF CreateSnapshot
<1>5. ASSUME NEW n \in Snaps, DeleteSnapshot(n)
      PROVE  Inv'
  <2>1. NamesOK'
    BY <1>5 DEF NamesOK, DeleteSnapshot, Drop
  <2> QED
    BY <1>5, <2>1, SubsKept, TopicsKept, LockFreed DEF DeleteSnapshot
<1> QED
  BY <1>1, <1>2, <1>3, <1>4, <1>5 DEF SubscriptionAdmin

LEMMA SeekInv ==
  ASSUME Inv, Seek
  PROVE  Inv'
<1> USE DEF Inv, Idle
<1>1. ASSUME NEW s \in Subs, NEW cursor \in 0 .. MaxLen, SeekToTime(s, cursor)
      PROVE  Inv'
  <2>1. s \in DOMAIN sub /\ sub[s] \in SubscriptionState
    BY <1>1 DEF SeekToTime, SubsOK
  <2>2. Booked(Sought(sub[s], cursor))
    BY <2>1, SoughtBooked
  <2>3. SubsOK'
    BY <1>1, <2>1, <2>2, SubReplaced DEF SeekToTime
  <2>4. NamesOK'
    BY <1>1, BackendAssumption DEF NamesOK, SeekToTime
  <2> QED
    BY <1>1, <2>3, <2>4, TopicsKept, LockFreed DEF SeekToTime
<1>2. ASSUME NEW s \in Subs, NEW n \in Snaps, SeekToSnapshot(s, n)
      PROVE  Inv'
  <2>1. s \in DOMAIN sub /\ sub[s] \in SubscriptionState /\ snap[n].cursor \in 0 .. MaxLen
    BY <1>2 DEF SeekToSnapshot, SubsOK, NamesOK, SnapshotSpec
  <2>2. Booked(Sought(sub[s], snap[n].cursor))
    BY <2>1, SoughtBooked
  <2>3. SubsOK'
    BY <1>2, <2>1, <2>2, SubReplaced DEF SeekToSnapshot
  <2>4. NamesOK'
    BY <1>2, BackendAssumption DEF NamesOK, SeekToSnapshot
  <2> QED
    BY <1>2, <2>3, <2>4, TopicsKept, LockFreed DEF SeekToSnapshot
<1> QED
  BY <1>1, <1>2 DEF Seek

-----------------------------------------------------------------------------
(* Publish.                                                                *)

LEMMA LongTail ==
  ASSUME NEW T, NEW q \in Seq(T), q # <<>>, Len(q) # 1
  PROVE  Tail(q) \in Seq(T) \ {<<>>} /\ Len(Tail(q)) = Len(q) - 1
<1>1. Tail(q) \in Seq(T) /\ Len(Tail(q)) = Len(q) - 1 /\ Len(q) \in Nat /\ Len(q) # 0
  BY HeadTailProperties, EmptySeq
<1>2. Len(Tail(q)) # 0
  BY <1>1
<1>3. Tail(q) # <<>>
  BY <1>2, EmptySeq
<1> QED
  BY <1>1, <1>3

LEMMA RestType ==
  ASSUME LockOK, lock.op \in {"publish", "ack", "nack"}
  PROVE  /\ lock.todo # <<>>
         /\ Rest = Free \/ (/\ Rest \in Operations /\ Rest.op = lock.op
                            /\ Rest.todo = Tail(lock.todo)
                            /\ Len(Rest.todo) = Len(lock.todo) - 1
                            /\ lock.op = "publish" => Rest.topic = lock.topic
                            /\ lock.op # "publish" => Rest.sub = lock.sub)
<1>1. CASE lock.op = "publish"
  <2>1. lock \in [op : {"publish"}, topic : Topics, todo : Seq(NewMessage) \ {<<>>}]
    BY <1>1, LockShape
  <2>2. CASE Len(lock.todo) = 1
    BY <2>1, <2>2 DEF Rest
  <2>3. CASE Len(lock.todo) # 1
    <3>1. Tail(lock.todo) \in Seq(NewMessage) \ {<<>>}
          /\ Len(Tail(lock.todo)) = Len(lock.todo) - 1
      BY <2>1, <2>3, LongTail
    <3> QED
      BY <2>1, <2>3, <3>1 DEF Rest, Operations
  <2> QED
    BY <2>2, <2>3
<1>2. CASE lock.op \in {"ack", "nack"}
  <2>1. lock \in [op : {"ack", "nack"}, sub : Subs, todo : Seq(Nat \X Nat) \ {<<>>}]
    BY <1>2, LockShape
  <2>2. CASE Len(lock.todo) = 1
    BY <2>1, <2>2 DEF Rest
  <2>3. CASE Len(lock.todo) # 1
    <3>1. Tail(lock.todo) \in Seq(Nat \X Nat) \ {<<>>}
          /\ Len(Tail(lock.todo)) = Len(lock.todo) - 1
      BY <2>1, <2>3, LongTail
    <3> QED
      BY <1>2, <2>1, <2>3, <3>1 DEF Rest, Operations
  <2> QED
    BY <2>2, <2>3
<1> QED
  BY <1>1, <1>2

LEMMA PublishBeginInv ==
  ASSUME Inv, Publish
  PROVE  Inv'
<1>1. PICK t \in Topics, batch \in Batches : PublishBegin(t, batch)
  BY DEF Publish
<1>2. batch \in Seq(NewMessage) \ {<<>>}
  BY BackendAssumption
<1>3. LockOK'
  BY <1>1, <1>2 DEF LockOK, PublishBegin, Operations
<1> QED
  BY <1>1, <1>3, TopicsKept, SubsKept, NamesKept DEF Inv, PublishBegin

LEMMA AppendedType ==
  ASSUME NEW T \in TopicState, NEW m \in NewMessage
  PROVE  Appended(T, m) \in TopicState /\ Len(Appended(T, m).log) = Len(T.log) + 1
<1> DEFINE e == AsMessage(m, NoOrigin)
<1>1. e \in Message
  BY DEF AsMessage, Message, NewMessage
<1>2. T.log \in Seq(Message)
  BY DEF TopicState
<1>3. Appended(T, m) = [T EXCEPT !.log = Append(@, e), !.seen = @ \cup ({m.id} \ {NoId})]
  BY DEF Appended
<1> HIDE DEF e
<1>4. Append(T.log, e) \in Seq(Message) /\ Len(Append(T.log, e)) = Len(T.log) + 1
  BY <1>1, <1>2, AppendProperties
<1>5. m.id \in ClientIds \cup {NoId}
  BY DEF NewMessage
<1>6. T.seen \cup ({m.id} \ {NoId}) \subseteq ClientIds
  BY <1>5 DEF TopicState
<1> QED
  BY <1>3, <1>4, <1>6 DEF TopicState

LEMMA PublishStepInv ==
  ASSUME Inv, PublishStep
  PROVE  Inv'
<1> DEFINE T == topic[lock.topic]
           m == Head(lock.todo)
           U == IF m.id \in T.seen THEN T ELSE Appended(T, m)
<1>1. /\ lock.topic \in DOMAIN topic /\ T \in TopicState
      /\ lock.todo \in Seq(NewMessage) \ {<<>>}
      /\ Len(T.log) + Len(lock.todo) <= MaxLen
  BY LockShape DEF Inv, LockOK, TopicsOK, PublishStep
<1>2. m \in NewMessage /\ Len(lock.todo) \in Nat /\ Len(lock.todo) >= 1
  BY <1>1, HeadTailProperties, EmptySeq
<1>3. topic' = [topic EXCEPT ![lock.topic] = U]
  BY DEF PublishStep
<1> HIDE DEF T, m
<1>4. U \in TopicState /\ (Len(U.log) = Len(T.log) \/ Len(U.log) = Len(T.log) + 1)
  BY <1>1, <1>2, AppendedType
<1> HIDE DEF U
<1>5. /\ DOMAIN topic' = DOMAIN topic /\ topic'[lock.topic] = U
      /\ \A t \in DOMAIN topic : t # lock.topic => topic'[t] = topic[t]
  BY <1>1, <1>3 DEF Inv, TopicsOK
<1>6. Len(T.log) \in Nat /\ Len(U.log) \in Nat /\ MaxLen \in Nat
  BY <1>1, <1>4, BackendAssumption DEF TopicState
<1>7. Len(U.log) <= MaxLen /\ Len(U.log) + (Len(lock.todo) - 1) <= MaxLen
  <2> DEFINE x == Len(T.log)
             y == Len(U.log)
             n == Len(lock.todo)
  <2>1. /\ x \in Nat /\ y \in Nat /\ n \in Nat /\ n >= 1 /\ MaxLen \in Nat
        /\ x + n <= MaxLen /\ (y = x \/ y = x + 1)
    BY <1>1, <1>2, <1>4, <1>6
  <2> HIDE DEF x, y, n
  <2>2. y <= MaxLen /\ y + (n - 1) <= MaxLen
    BY <2>1
  <2> QED
    BY <2>2 DEF y, n
<1>8. TopicsOK'
  BY <1>1, <1>3, <1>4, <1>5, <1>7 DEF Inv, TopicsOK
<1>9. LockOK'
  <2>1. CASE Rest = Free
    BY <2>1, LockFreed DEF PublishStep
  <2>2. CASE Rest # Free
    <3>1. /\ lock' = Rest /\ Rest \in Operations /\ Rest.op = "publish"
          /\ Rest.topic = lock.topic /\ Len(Rest.todo) = Len(lock.todo) - 1
      BY <2>2, RestType DEF Inv, PublishStep
    <3>2. Len(topic'[lock'.topic].log) + Len(lock'.todo) <= MaxLen
      BY <1>5, <1>7, <3>1
    <3> QED
      BY <1>1, <1>5, <3>1, <3>2 DEF LockOK
  <2> QED
    BY <2>1, <2>2
<1> QED
  BY <1>8, <1>9, SubsKept, NamesKept DEF Inv, PublishStep

-----------------------------------------------------------------------------
(* Pull.                                                                   *)

LEMMA PullBeginInv ==
  ASSUME Inv, NEW s \in Subs, NEW n \in Nat, PullBegin(s, n)
  PROVE  Inv'
<1>1. PullLimit(n) \in Nat
  BY PolicyAssumption DEF PullLimit, Clamp
<1>2. LockOK'
  BY <1>1 DEF LockOK, PullBegin, Operations
<1> QED
  BY <1>2, TopicsKept, SubsKept, NamesKept DEF Inv, PullBegin

\* The loop of pull works on a subscription that is there and on its topic.
LEMMA PullContext ==
  ASSUME Inv, lock.op \in {"sweep", "pull"}
  PROVE  /\ lock.sub \in DOMAIN sub /\ Booked(sub[lock.sub])
         /\ sub[lock.sub] \in SubscriptionState
         /\ sub[lock.sub].spec.topic \in DOMAIN topic
         /\ LogOf(sub[lock.sub]) \in Seq(Message)
         /\ Len(LogOf(sub[lock.sub])) \in 0 .. MaxLen
BY DEF Inv, LockOK, SubsOK, TopicsOK, TopicState, LogOf, Booked

\* A pull step that leaves topics alone and keeps the subscription's books.
LEMMA PullOn ==
  ASSUME Inv, lock.op \in {"sweep", "pull"}, NEW T, Booked(T),
         T.spec = sub[lock.sub].spec, sub' = [sub EXCEPT ![lock.sub] = T],
         UNCHANGED <<topic, snap, schema, lock, resets, stale>>
  PROVE  Inv'
<1>1. SubsOK' /\ DOMAIN sub' = DOMAIN sub /\ sub'[lock.sub] = T
  BY PullContext, SubReplaced DEF Inv
<1>2. LockOK'
  BY <1>1, LockPulls DEF Inv
<1> QED
  BY <1>1, <1>2, TopicsKept, NamesKept DEF Inv

LEMMA TakenInHand ==
  ASSUME Inv, Takeable
  PROVE  InHand(Taken.rest, Taken.pos) /\ Taken.rest.spec = sub[lock.sub].spec
<1> DEFINE S == sub[lock.sub]
<1>1. Booked(S) /\ S \in SubscriptionState
  BY PullContext DEF Takeable
<1>2. CASE SomeReady(S, lock.skipped)
  BY <1>1, <1>2, TakeQueuedInHand DEF Taken
<1>3. CASE ~SomeReady(S, lock.skipped)
  <2>1. S.cursor < lock.len /\ lock.len <= Len(LogOf(S))
    BY <1>3 DEF Takeable, Inv, LockOK
  <2>2. lock.len \in Nat /\ S.cursor \in Nat /\ MaxLen \in Nat
    BY <1>1, LockShape, BackendAssumption DEF Takeable, Inv, SubscriptionState
  <2>3. Len(LogOf(S)) \in Nat /\ Len(LogOf(S)) <= MaxLen
    BY <2>2, PullContext DEF Takeable
  <2>4. S.cursor < MaxLen
    BY <2>1, <2>2, <2>3
  <2> QED
    BY <1>1, <1>3, <2>4, TakeNextInHand DEF Taken
<1> QED
  BY <1>2, <1>3

LEMMA SweepInv ==
  ASSUME Inv, SweepExpired \/ SweepEnd
  PROVE  Inv'
<1> DEFINE S == sub[lock.sub]
<1>1. CASE SweepExpired
  <2>1. PICK l \in S.leases : sub' = [sub EXCEPT ![lock.sub] = Expire(S, l)]
    BY <1>1 DEF SweepExpired
  <2>2. Booked(Expire(S, l)) /\ Expire(S, l).spec = S.spec
    BY <1>1, <2>1, PullContext, ExpireBooked DEF SweepExpired
  <2> QED
    BY <1>1, <2>1, <2>2, PullOn DEF SweepExpired
<1>2. CASE SweepEnd
  <2>1. lock.op = "sweep" /\ lock.room \in Nat /\ lock.sub \in Subs
    BY <1>2, LockShape DEF SweepEnd, Inv
  <2>2. Len(LogOf(S)) \in 0 .. MaxLen /\ lock.sub \in DOMAIN sub
        /\ S.spec.topic \in DOMAIN topic
    BY <2>1, PullContext
  <2>3. LockOK'
    BY <1>2, <2>1, <2>2 DEF LockOK, SweepEnd, Operations, LogOf
  <2> QED
    BY <1>2, <2>3, TopicsKept, SubsKept, NamesKept DEF Inv, SweepEnd
<1> QED
  BY <1>1, <1>2

LEMMA PullPassInv ==
  ASSUME Inv, PullPass
  PROVE  Inv'
<1> DEFINE p == Taken.pos
           R == Taken.rest
           S == sub[lock.sub]
<1>1. lock.op = "pull" /\ lock.sub \in DOMAIN sub /\ S.spec.topic \in DOMAIN topic
  BY PullContext DEF PullPass, Takeable
<1>2. InHand(R, p) /\ R.spec = S.spec
  BY TakenInHand DEF PullPass
<1>3. ~Handled(R, p) /\ p \in Position
  BY <1>2, InHandOutstanding DEF InHand
<1>4. sub' = [sub EXCEPT ![lock.sub] = Postpone(R, p)]
      /\ lock' = [lock EXCEPT !.skipped = @ \cup {p}]
  BY <1>3 DEF PullPass
<1>5. Booked(Postpone(R, p)) /\ Postpone(R, p).spec = S.spec
  BY <1>2, PostponeBooked
<1> HIDE DEF p, R
<1>6. SubsOK' /\ DOMAIN sub' = DOMAIN sub /\ sub'[lock.sub] = Postpone(R, p)
  BY <1>1, <1>4, <1>5, SubReplaced DEF Inv
<1>7. lock \in [op : {"pull"}, sub : Subs, room : Nat, len : 0 .. MaxLen,
                skipped : SUBSET Position]
  BY <1>1, LockShape DEF Inv
<1>8. /\ lock' \in Operations /\ lock'.op = "pull" /\ lock'.sub = lock.sub
      /\ lock'.len = lock.len
  BY <1>3, <1>4, <1>7 DEF Operations
<1>9. LockOK'
  BY <1>1, <1>5, <1>6, <1>8 DEF LockOK, PullPass, LogOf, Inv
<1> QED
  BY <1>6, <1>9, TopicsKept, NamesKept DEF Inv, PullPass

LEMMA PullFilterOutInv ==
  ASSUME Inv, PullFilterOut
  PROVE  Inv'
<1>1. InHand(Taken.rest, Taken.pos) /\ Taken.rest.spec = sub[lock.sub].spec
  BY TakenInHand DEF PullFilterOut
<1>2. Booked(Settle(Taken.rest, Taken.pos))
      /\ Settle(Taken.rest, Taken.pos).spec = sub[lock.sub].spec
  BY <1>1, SettleBooked
<1> QED
  BY <1>2, PullOn DEF PullFilterOut, Takeable

LEMMA PullDeliverInv ==
  ASSUME Inv, PullDeliver
  PROVE  Inv'
<1> DEFINE T == Deliver(Taken.rest, Taken.pos)
           S == sub[lock.sub]
<1>1. lock.op = "pull" /\ lock.room > 0 /\ lock.sub \in DOMAIN sub
      /\ S.spec.topic \in DOMAIN topic
  BY PullContext DEF PullDeliver, Takeable
<1>2. Booked(T) /\ T.spec = S.spec
  BY TakenInHand, DeliverBooked DEF PullDeliver
<1>3. sub' = [sub EXCEPT ![lock.sub] = T] /\ lock' = [lock EXCEPT !.room = @ - 1]
  BY DEF PullDeliver
<1> HIDE DEF T
<1>4. SubsOK' /\ DOMAIN sub' = DOMAIN sub /\ sub'[lock.sub] = T
  BY <1>1, <1>2, <1>3, SubReplaced DEF Inv
<1>5. lock \in [op : {"pull"}, sub : Subs, room : Nat, len : 0 .. MaxLen,
                skipped : SUBSET Position]
  BY <1>1, LockShape DEF Inv
<1>6. /\ lock' \in Operations /\ lock'.op = "pull" /\ lock'.sub = lock.sub
      /\ lock'.len = lock.len
  <2>1. lock.room - 1 \in Nat
    BY <1>1, <1>5
  <2> QED
    BY <1>3, <1>5, <2>1 DEF Operations
<1>7. LockOK'
  BY <1>1, <1>2, <1>4, <1>6 DEF LockOK, PullDeliver, LogOf, Inv
<1> QED
  BY <1>4, <1>7, TopicsKept, NamesKept DEF Inv, PullDeliver

\* The copy also lengthens the log the pull reads, if a subscription
\* dead-letters into its own topic.
LEMMA PullDeadLetterInv ==
  ASSUME Inv, PullDeadLetter
  PROVE  Inv'
<1> DEFINE p == Taken.pos
           R == Taken.rest
           S == sub[lock.sub]
           d == R.spec.dead.topic
           copy == AsMessage([LogOf(R)[p] EXCEPT !.id = NoId],
                             [sub |-> lock.sub, pos |-> p, life |-> resets[lock.sub]])
           T == Settle(R, p)
<1>1. /\ lock.op = "pull" /\ lock.sub \in DOMAIN sub /\ lock.sub \in Subs
      /\ S.spec.topic \in DOMAIN topic /\ LogOf(S) \in Seq(Message)
  BY PullContext DEF PullDeadLetter, Takeable, Inv, SubsOK
<1>2. InHand(R, p) /\ R.spec = S.spec /\ p \in Position
  BY TakenInHand DEF PullDeadLetter, InHand
<1>3. Booked(T) /\ T.spec = S.spec
  BY <1>2, SettleBooked
<1>4. /\ p <= Len(LogOf(R)) /\ d \in DOMAIN topic /\ Len(topic[d].log) < MaxLen
      /\ topic' = [topic EXCEPT ![d].log = Append(@, copy)]
      /\ sub' = [sub EXCEPT ![lock.sub] = T]
      /\ UNCHANGED <<snap, schema, lock, resets, stale>>
  BY DEF PullDeadLetter, Deliverable, Exhausted
<1>5. copy \in Message
  <2> HIDE DEF p, R
  <2>1. LogOf(R) = LogOf(S) /\ p \in 1 .. Len(LogOf(S))
    <3>1. LogOf(R) = LogOf(S)
      BY <1>2 DEF LogOf
    <3>2. Len(LogOf(S)) \in Nat /\ p \in Nat /\ 1 <= p
      BY <1>1, <1>2, BackendAssumption DEF Position
    <3> QED
      BY <1>4, <3>1, <3>2
  <2>2. LogOf(R)[p] \in Message
    BY <1>1, <2>1
  <2>3. [sub |-> lock.sub, pos |-> p, life |-> resets[lock.sub]] \in Origin
    BY <1>1, <1>2 DEF Origin, Inv, NamesOK
  <2> QED
    BY <2>2, <2>3 DEF Message, AsMessage
<1> HIDE DEF copy, T, d
<1>6. /\ topic[d] \in TopicState
      /\ Append(topic[d].log, copy) \in Seq(Message)
      /\ Len(Append(topic[d].log, copy)) = Len(topic[d].log) + 1
  BY <1>4, <1>5, AppendProperties DEF Inv, TopicsOK, TopicState
<1>7. /\ DOMAIN topic' = DOMAIN topic
      /\ topic'[d] = [topic[d] EXCEPT !.log = Append(@, copy)]
      /\ \A t \in DOMAIN topic : t # d => topic'[t] = topic[t]
  BY <1>4 DEF Inv, TopicsOK
<1>8. topic'[d] \in TopicState /\ topic'[d].log = Append(topic[d].log, copy)
  BY <1>6, <1>7 DEF TopicState
<1>9. \A t \in DOMAIN topic : Len(topic[t].log) \in Nat
  BY DEF Inv, TopicsOK, TopicState
<1>10. Len(topic'[d].log) = Len(topic[d].log) + 1 /\ Len(topic'[d].log) <= MaxLen
  BY <1>4, <1>6, <1>8, <1>9, BackendAssumption
<1>11. TopicsOK'
  <2>1. DOMAIN topic' \subseteq Topics /\ topic' \in [DOMAIN topic' -> TopicState]
    BY <1>4, <1>7, <1>8 DEF Inv, TopicsOK
  <2>2. \A t \in DOMAIN topic' : Len(topic'[t].log) <= MaxLen
    BY <1>7, <1>10 DEF Inv, TopicsOK
  <2> QED
    BY <2>1, <2>2 DEF TopicsOK
<1>12. SubsOK' /\ DOMAIN sub' = DOMAIN sub /\ sub'[lock.sub] = T
  BY <1>1, <1>3, <1>4, SubReplaced DEF Inv
<1>13. \A t \in DOMAIN topic : Len(topic[t].log) <= Len(topic'[t].log)
  BY <1>4, <1>7, <1>9, <1>10
<1>14. LockOK'
  <2> DEFINE x == Len(topic[S.spec.topic].log)
             y == Len(topic'[S.spec.topic].log)
  <2>1. lock.len <= x /\ lock.len \in Nat
    BY <1>1, LockShape DEF Inv, LockOK, LogOf
  <2>2. x \in Nat /\ x <= y
    BY <1>1, <1>9, <1>13
  <2>3. y \in Nat
    <3>1. CASE S.spec.topic = d
      BY <1>4, <1>9, <1>10, <3>1
    <3>2. CASE S.spec.topic # d
      BY <1>1, <1>7, <1>9, <3>2
    <3> QED
      BY <3>1, <3>2
  <2>4. lock.len <= y
    <3> HIDE DEF x, y
    <3> QED
      BY <2>1, <2>2, <2>3
  <2> QED
    BY <1>1, <1>3, <1>4, <1>7, <1>12, <2>4 DEF LockOK, LogOf, Inv
<1> QED
  BY <1>4, <1>11, <1>12, <1>14, NamesKept DEF Inv

LEMMA PullPanicInv ==
  ASSUME Inv, PullPanic
  PROVE  Inv'
<1>1. SubsOK'
  BY DEF PullPanic, Drop, SubsOK, Inv
<1> QED
  BY <1>1, LockFreed, TopicsKept, NamesKept DEF Inv, PullPanic

LEMMA PullEndInv ==
  ASSUME Inv, PullEnd
  PROVE  Inv'
BY LockFreed, TopicsKept, SubsKept, NamesKept DEF Inv, PullEnd

-----------------------------------------------------------------------------
(* Acknowledge, nack, deadlines and time.                                  *)

LEMMA IdBatchType ==
  ASSUME Inv, NEW s \in DOMAIN sub, NEW ids \in IdBatches(s)
  PROVE  ids \in Seq(Nat \X Nat) \ {<<>>}
<1> DEFINE known == {AckId(l) : l \in sub[s].leases} \cup {UnknownId}
<1>1. known \subseteq Nat \X Nat
  <2>1. \A l \in sub[s].leases : l.pos \in Nat /\ l.attempt \in Nat
    BY BackendAssumption DEF Inv, SubsOK, SubscriptionState, Lease, Position
  <2> QED
    BY <2>1 DEF AckId, UnknownId
<1> HIDE DEF known
<1>2. PICK n \in 1 .. MaxIds : ids \in [1 .. n -> known]
  BY DEF IdBatches, known
<1>3. n \in Nat /\ n >= 1
  BY <1>2, BackendAssumption
<1>4. ids \in Seq(known) /\ Len(ids) = n
  BY <1>2, <1>3
<1>5. ids \in Seq(Nat \X Nat)
  BY <1>1, <1>2, <1>3
<1>6. ids # <<>>
  BY <1>3, <1>4, EmptySeq
<1> QED
  BY <1>5, <1>6

\* One more id of the request is done and the subscription's books are kept.
LEMMA AckOn ==
  ASSUME Inv, lock.op \in {"ack", "nack"}, lock' = Rest, SubsOK',
         DOMAIN sub' = DOMAIN sub, UNCHANGED <<topic, snap, schema, resets, stale>>
  PROVE  Inv'
<1>1. LockOK'
  BY RestType, LockFreed DEF Inv, LockOK
<1> QED
  BY <1>1, TopicsKept, NamesKept DEF Inv

LEMMA AckStepInv ==
  ASSUME Inv, AckStep
  PROVE  Inv'
<1> DEFINE S == sub[lock.sub]
<1>1. lock.op = "ack" /\ lock.sub \in DOMAIN sub /\ Booked(S)
  BY DEF AckStep, Inv, LockOK, SubsOK
<1>2. CASE UNCHANGED sub
  BY <1>1, <1>2, SubsKept, AckOn DEF AckStep, Inv
<1>3. CASE ~UNCHANGED sub
  <2>1. PICK l \in S.leases : sub' = [sub EXCEPT ![lock.sub] = Ack(S, l)]
    BY <1>3 DEF AckStep, Named
  <2>2. Booked(Ack(S, l))
    BY <1>1, <2>1, AckBooked
  <2>3. SubsOK' /\ DOMAIN sub' = DOMAIN sub
    BY <1>1, <2>1, <2>2, SubReplaced DEF Inv
  <2> QED
    BY <1>1, <2>3, AckOn DEF AckStep
<1> QED
  BY <1>2, <1>3

LEMMA AckExpiredInv ==
  ASSUME Inv, AckExpired
  PROVE  Inv'
<1> DEFINE S == sub[lock.sub]
<1>1. lock.sub \in DOMAIN sub /\ Booked(S)
  BY DEF AckExpired, Inv, LockOK, SubsOK
<1>2. PICK l \in S.leases : sub' = [sub EXCEPT ![lock.sub] = Forget(S, l)]
  BY DEF AckExpired, Named
<1>3. Booked(Forget(S, l))
  BY <1>1, <1>2, ForgetBooked
<1>4. SubsOK'
  BY <1>1, <1>2, <1>3, SubReplaced DEF Inv
<1> QED
  BY <1>4, LockFreed, TopicsKept, NamesKept DEF AckExpired, Inv

LEMMA NackStepInv ==
  ASSUME Inv, NackStep
  PROVE  Inv'
<1> DEFINE S == sub[lock.sub]
<1>1. lock.op = "nack" /\ lock.sub \in DOMAIN sub /\ Booked(S)
  BY DEF NackStep, Inv, LockOK, SubsOK
<1>2. CASE UNCHANGED sub
  BY <1>1, <1>2, SubsKept, AckOn DEF NackStep, Inv
<1>3. CASE ~UNCHANGED sub
  <2>1. PICK l \in S.leases : sub' = [sub EXCEPT ![lock.sub] = Nack(S, l)]
    BY <1>3 DEF NackStep, Named
  <2>2. Booked(Nack(S, l))
    BY <1>1, <2>1, NackBooked
  <2>3. SubsOK' /\ DOMAIN sub' = DOMAIN sub
    BY <1>1, <2>1, <2>2, SubReplaced DEF Inv
  <2> QED
    BY <1>1, <2>3, AckOn DEF NackStep
<1> QED
  BY <1>2, <1>3

LEMMA AckRequestInv ==
  ASSUME Inv, NEW s \in DOMAIN sub, NEW ids \in Seq(Nat \X Nat) \ {<<>>},
         AckBegin(s, ids) \/ NackBegin(s, ids)
           \/ \E seconds \in 1 .. MaxAckDeadline : ExtendDeadline(s, ids, seconds)
  PROVE  Inv'
<1>1. s \in Subs /\ Booked(sub[s])
  BY DEF Inv, SubsOK
<1>2. CASE AckBegin(s, ids)
  <2>1. LockOK'
    BY <1>1, <1>2 DEF LockOK, AckBegin, Operations
  <2> QED
    BY <1>2, <2>1, TopicsKept, SubsKept, NamesKept DEF Inv, AckBegin
<1>3. CASE NackBegin(s, ids)
  <2>1. LockOK'
    BY <1>1, <1>3 DEF LockOK, NackBegin, Operations
  <2> QED
    BY <1>3, <2>1, TopicsKept, SubsKept, NamesKept DEF Inv, NackBegin
<1>4. ASSUME NEW seconds \in 1 .. MaxAckDeadline, ExtendDeadline(s, ids, seconds)
      PROVE  Inv'
  <2>1. Booked(Extend(sub[s], ids, seconds))
    BY <1>1, ExtendedBooked
  <2>2. SubsOK'
    BY <1>4, <2>1, SubReplaced DEF Inv, ExtendDeadline
  <2> QED
    BY <1>4, <2>2, LockFreed, TopicsKept, NamesKept DEF Inv, ExtendDeadline, Idle
<1> QED
  BY <1>2, <1>3, <1>4

LEMMA TickInv ==
  ASSUME Inv, Tick
  PROVE  Inv'
<1>1. \A s \in DOMAIN sub : Booked(Aged(sub[s]))
  BY AgedBooked DEF Inv, SubsOK
<1>2. SubsOK'
  BY <1>1 DEF Tick, SubsOK, Inv, Booked
<1> QED
  BY <1>2, LockFreed, TopicsKept, NamesKept DEF Inv, Tick, Idle

-----------------------------------------------------------------------------

LEMMA DataPlaneInv ==
  ASSUME Inv, DataPlane
  PROVE  Inv'
<1>1. CASE Publish
  BY <1>1, PublishBeginInv
<1>2. CASE Consume
  BY <1>2, PullBeginInv, AckRequestInv, IdBatchType, BackendAssumption DEF Consume
<1>3. CASE LockedStep
  BY <1>3, SweepInv, PullPassInv, PullDeadLetterInv, PullFilterOutInv, PullDeliverInv,
     PullPanicInv, PullEndInv, PublishStepInv, AckStepInv, AckExpiredInv, NackStepInv
     DEF LockedStep, PullStep
<1>4. CASE Tick
  BY <1>4, TickInv
<1> QED
  BY <1>1, <1>2, <1>3, <1>4 DEF DataPlane

LEMMA InvStep == Inv /\ [Next]_vars => Inv'
<1> SUFFICES ASSUME Inv, [Next]_vars PROVE Inv'
  OBVIOUS
<1>1. CASE Next
  BY <1>1, DataPlaneInv, SeekInv, SubscriptionAdminInv, TopicAdminInv DEF Next
<1>2. CASE UNCHANGED vars
  BY <1>2 DEF vars, Inv, TopicsOK, SubsOK, NamesOK, LockOK, LogOf
<1> QED
  BY <1>1, <1>2

LEMMA InvAlways == Spec => []Inv
<1> QED
  BY InvInit, InvStep, PTL DEF Spec

\* Every state of the broker is well typed: above all, the operation that holds
\* the write lock keeps finding the topic or subscription it works on.
THEOREM TypeSafety == Spec => []TypeOK
BY InvAlways, InvImplies, PTL

\* No sequence of operations loses a message or tracks one it never passed,
\* other than the exactly-once ack that memory.rs rejects after its deadline.
THEOREM NothingLost == Spec => []MessagesAccounted
BY InvAlways, InvImplies, PTL

\* No sequence of operations leases or queues a message twice, or keeps an
\* acked one.
THEOREM NothingDoubled == Spec => []MessagesInOnePlace
BY InvAlways, InvImplies, PTL

\* The re-check at the head of pull's loop never finds anything: what it takes
\* is outstanding.
THEOREM PullTakesOutstanding == Spec => []OutstandingTaken
<1>1. Inv => OutstandingTaken
  BY TakenInHand, InHandOutstanding DEF OutstandingTaken
<1> QED
  BY <1>1, InvAlways, PTL

-----------------------------------------------------------------------------
(* Cursors stay inside their logs, unless the topic was deleted under      *)
(* them: so the index of pull into the log cannot panic otherwise, and no  *)
(* subscription disappears unasked.                                        *)

CInv == Inv /\ CursorInRange

LEMMA LenNat ==
  ASSUME Inv
  PROVE  \A t \in DOMAIN topic : Len(topic[t].log) \in Nat
BY DEF Inv, TopicsOK, TopicState

\* Topics that only grow, and subscriptions and snapshots that keep their
\* cursors or go, stay in range.
LEMMA CursorsKept ==
  ASSUME CInv, Inv',
         \A t \in DOMAIN topic : t \in DOMAIN topic'
                                 /\ Len(topic[t].log) <= Len(topic'[t].log),
         \A s \in DOMAIN sub' : s \in DOMAIN sub /\ sub'[s].cursor = sub[s].cursor
                                /\ sub'[s].spec.topic = sub[s].spec.topic,
         \A n \in DOMAIN snap' : n \in DOMAIN snap /\ snap'[n] = snap[n],
         UNCHANGED stale
  PROVE  CursorInRange'
<1>1. ASSUME NEW s \in DOMAIN sub' \ stale'
      PROVE  sub'[s].spec.topic \in DOMAIN topic'
             /\ sub'[s].cursor <= Len(topic'[sub'[s].spec.topic].log)
  <2> DEFINE t == sub[s].spec.topic
  <2>1. t \in DOMAIN topic /\ sub[s].cursor <= Len(topic[t].log)
    BY <1>1 DEF CInv, CursorInRange, LogOf
  <2>2. /\ t \in DOMAIN topic' /\ Len(topic[t].log) <= Len(topic'[t].log)
        /\ sub'[s].spec.topic = t /\ sub'[s].cursor = sub[s].cursor
    BY <2>1
  <2>3. sub[s].cursor \in Nat /\ Len(topic[t].log) \in Nat /\ Len(topic'[t].log) \in Nat
    BY <2>1, <2>2, BackendAssumption
       DEF CInv, Inv, TopicsOK, TopicState, SubsOK, SubscriptionState
  <2> HIDE DEF t
  <2> QED
    BY <2>1, <2>2, <2>3
<1>2. ASSUME NEW n \in DOMAIN snap' \ stale'
      PROVE  snap'[n].topic \in DOMAIN topic'
             /\ snap'[n].cursor <= Len(topic'[snap'[n].topic].log)
  <2> DEFINE t == snap[n].topic
  <2>1. t \in DOMAIN topic /\ snap[n].cursor <= Len(topic[t].log)
    BY <1>2 DEF CInv, CursorInRange
  <2>2. /\ t \in DOMAIN topic' /\ Len(topic[t].log) <= Len(topic'[t].log)
        /\ snap'[n].topic = t /\ snap'[n].cursor = snap[n].cursor
    BY <1>2, <2>1
  <2>3. snap[n].cursor \in Nat /\ Len(topic[t].log) \in Nat /\ Len(topic'[t].log) \in Nat
    BY <1>2, <2>1, <2>2, BackendAssumption
       DEF CInv, Inv, TopicsOK, TopicState, NamesOK, SnapshotSpec
  <2> HIDE DEF t
  <2> QED
    BY <2>1, <2>2, <2>3
<1> QED
  BY <1>1, <1>2 DEF CursorInRange, LogOf

-----------------------------------------------------------------------------
(* Administration.                                                         *)

LEMMA TopicAdminCursors ==
  ASSUME CInv, Inv', TopicAdmin
  PROVE  CursorInRange'
<1> USE LenNat DEF CInv
<1>1. CASE \E t \in Topics, c \in Schemas \cup {NoSchema} :
             CreateTopic(t, c) \/ UpdateTopic(t, c)
  <2>1. \A t \in DOMAIN topic : t \in DOMAIN topic'
                                /\ Len(topic[t].log) <= Len(topic'[t].log)
    <3>1. PICK t \in Topics, c \in Schemas \cup {NoSchema} :
            CreateTopic(t, c) \/ UpdateTopic(t, c)
      BY <1>1
    <3>2. CASE CreateTopic(t, c)
      BY <3>2 DEF CreateTopic, Put
    <3>3. CASE UpdateTopic(t, c)
      <4>1. topic[t] \in TopicState
        BY <3>3 DEF UpdateTopic, Inv, TopicsOK
      <4>2. [topic[t] EXCEPT !.schema = c].log = topic[t].log
        BY <4>1 DEF TopicState
      <4>3. topic' = [topic EXCEPT ![t] = [topic[t] EXCEPT !.schema = c]]
        BY <3>3 DEF UpdateTopic
      <4> QED
        BY <3>3, <4>2, <4>3 DEF UpdateTopic
    <3> QED
      BY <3>1, <3>2, <3>3
  <2> QED
    BY <1>1, <2>1, CursorsKept DEF CreateTopic, UpdateTopic
<1>2. ASSUME NEW t \in Topics, DeleteTopic(t)
      PROVE  CursorInRange'
  BY <1>2 DEF DeleteTopic, Drop, CursorInRange, LogOf
<1>3. CASE \/ \E c \in Schemas, accepted \in SUBSET Data : CreateSchema(c, accepted)
           \/ \E c \in Schemas : DeleteSchema(c)
  BY <1>3 DEF CreateSchema, DeleteSchema, CursorInRange, LogOf
<1> QED
  BY <1>1, <1>2, <1>3 DEF TopicAdmin

LEMMA SubscriptionAdminCursors ==
  ASSUME CInv, Inv', SubscriptionAdmin
  PROVE  CursorInRange'
<1> USE LenNat DEF CInv
<1>1. ASSUME NEW s \in Subs, NEW spec \in Specs, CreateSubscription(s, spec)
      PROVE  CursorInRange'
  <2> DEFINE N == NewSubscription(spec, Len(topic[spec.topic].log))
  <2>1. N.cursor = Len(topic[spec.topic].log) /\ N.spec.topic = spec.topic
    BY BackendAssumption DEF NewSubscription, SubscriptionSpec
  <2> HIDE DEF N
  <2>2. /\ sub' = Put(sub, s, N) /\ spec.topic \in DOMAIN topic
        /\ stale' = stale \ {s} /\ UNCHANGED <<topic, snap>>
    BY <1>1 DEF CreateSubscription, N
  <2>3. /\ sub'[s] = N /\ DOMAIN sub' = DOMAIN sub \cup {s}
        /\ \A r \in DOMAIN sub : r # s => sub'[r] = sub[r]
    BY <2>2 DEF Put
  <2>4. \A n \in DOMAIN snap : n # s
    BY BackendAssumption DEF Inv, NamesOK
  <2>5. Len(topic[spec.topic].log) \in Nat
    BY <2>2
  <2> QED
    BY <2>1, <2>2, <2>3, <2>4, <2>5 DEF CursorInRange, LogOf
<1>2. ASSUME NEW s \in Subs, NEW spec \in Specs, NEW mask \in SUBSET MaskFields,
             UpdateSubscription(s, spec, mask)
      PROVE  CursorInRange'
  <2> DEFINE T == [sub[s] EXCEPT !.spec = Masked(@, spec, mask)]
  <2>1. spec \in SubscriptionSpec /\ s \in DOMAIN sub /\ Booked(sub[s])
    BY <1>2, BackendAssumption DEF UpdateSubscription, Inv, SubsOK
  <2>2. T.cursor = sub[s].cursor /\ T.spec.topic = sub[s].spec.topic
    <3>1. T.cursor = sub[s].cursor /\ T.spec = Masked(sub[s].spec, spec, mask)
      BY <2>1 DEF Booked, SubscriptionState
    <3>2. Masked(sub[s].spec, spec, mask).topic = sub[s].spec.topic
      BY <2>1, MaskedBooked
    <3> QED
      BY <3>1, <3>2
  <2>3. sub' = [sub EXCEPT ![s] = T]
    BY <1>2, <2>1 DEF UpdateSubscription, Inv, SubsOK, SubscriptionState
  <2> HIDE DEF T
  <2>4. \A r \in DOMAIN sub' : r \in DOMAIN sub /\ sub'[r].cursor = sub[r].cursor
                               /\ sub'[r].spec.topic = sub[r].spec.topic
    BY <2>1, <2>2, <2>3
  <2> QED
    BY <1>2, <2>4, CursorsKept DEF UpdateSubscription
<1>3. ASSUME NEW s \in Subs, DeleteSubscription(s)
      PROVE  CursorInRange'
  BY <1>3, CursorsKept DEF DeleteSubscription, Drop
<1>4. ASSUME NEW n \in Snaps, NEW s \in Subs, CreateSnapshot(n, s)
      PROVE  CursorInRange'
  <2> DEFINE N == [topic |-> sub[s].spec.topic, cursor |-> sub[s].cursor]
  <2>1. /\ s \in DOMAIN sub /\ snap' = Put(snap, n, N) /\ UNCHANGED <<topic, sub>>
        /\ stale' = IF s \in stale THEN stale \cup {n} ELSE stale \ {n}
    BY <1>4 DEF CreateSnapshot
  <2>2. /\ DOMAIN snap' = DOMAIN snap \cup {n} /\ snap'[n] = N
        /\ \A m \in DOMAIN snap : m # n => snap'[m] = snap[m]
    BY <2>1 DEF Put
  <2>3. \A r \in DOMAIN sub : r # n
    BY BackendAssumption DEF Inv, SubsOK
  <2>4. \A r \in DOMAIN sub' \ stale' : r \in DOMAIN sub \ stale
    BY <2>1, <2>3
  <2>5. \A m \in DOMAIN snap' \ stale' : m # n => m \in DOMAIN snap \ stale
    BY <2>1, <2>2
  <2>6. n \notin stale' => N.topic \in DOMAIN topic /\ N.cursor <= Len(topic[N.topic].log)
    BY <2>1 DEF CursorInRange, LogOf
  <2> HIDE DEF N
  <2> QED
    BY <2>1, <2>2, <2>4, <2>5, <2>6 DEF CursorInRange, LogOf
<1>5. ASSUME NEW n \in Snaps, DeleteSnapshot(n)
      PROVE  CursorInRange'
  BY <1>5 DEF DeleteSnapshot, Drop, CursorInRange, LogOf
<1> QED
  BY <1>1, <1>2, <1>3, <1>4, <1>5 DEF SubscriptionAdmin

\* Both seeks: to a cursor within the log, or to that of a snapshot, which is
\* within the log unless the snapshot is stale.
LEMMA SoughtCursors ==
  ASSUME CInv, NEW s \in DOMAIN sub, NEW cursor \in 0 .. MaxLen,
         sub' = [sub EXCEPT ![s] = Sought(@, cursor)], UNCHANGED <<topic, snap>>,
         stale' = stale \ {s} \/ stale' = stale \cup {s},
         s \notin stale' => /\ sub[s].spec.topic \in DOMAIN topic
                            /\ cursor <= Len(LogOf(sub[s]))
  PROVE  CursorInRange'
<1>1. sub[s] \in SubscriptionState
  BY DEF CInv, Inv, SubsOK
<1>2. /\ sub'[s].cursor = cursor /\ sub'[s].spec = sub[s].spec
      /\ DOMAIN sub' = DOMAIN sub /\ \A r \in DOMAIN sub : r # s => sub'[r] = sub[r]
  BY <1>1, SoughtBooked
<1>3. \A n \in DOMAIN snap : n # s
  BY BackendAssumption DEF CInv, Inv, NamesOK, SubsOK
<1> QED
  BY <1>2, <1>3 DEF CInv, CursorInRange, LogOf

LEMMA SeekCursors ==
  ASSUME CInv, Seek
  PROVE  CursorInRange'
<1>1. ASSUME NEW s \in Subs, NEW cursor \in 0 .. MaxLen, SeekToTime(s, cursor)
      PROVE  CursorInRange'
  <2>1. cursor <= Len(LogOf(sub[s]))
    BY <1>1, LenNat DEF SeekToTime, LogOf, CInv
  <2> QED
    BY <1>1, <2>1, SoughtCursors DEF SeekToTime
<1>2. ASSUME NEW s \in Subs, NEW n \in Snaps, SeekToSnapshot(s, n)
      PROVE  CursorInRange'
  <2>1. s \in DOMAIN sub /\ snap[n].cursor \in 0 .. MaxLen
    BY <1>2 DEF SeekToSnapshot, CInv, Inv, NamesOK, SnapshotSpec
  <2>2. n \notin stale => sub[s].spec.topic \in DOMAIN topic
                          /\ snap[n].cursor <= Len(LogOf(sub[s]))
    BY <1>2 DEF SeekToSnapshot, CInv, CursorInRange, LogOf
  <2> QED
    BY <1>2, <2>1, <2>2, SoughtCursors DEF SeekToSnapshot
<1> QED
  BY <1>1, <1>2 DEF Seek

-----------------------------------------------------------------------------
(* The data plane.                                                         *)

\* A step that replaces one subscription by one with the same cursor.
LEMMA CursorKept ==
  ASSUME CInv, Inv', NEW s \in DOMAIN sub, NEW T,
         sub' = [sub EXCEPT ![s] = T], T.spec = sub[s].spec, T.cursor = sub[s].cursor,
         UNCHANGED <<topic, snap, stale>>
  PROVE  CursorInRange'
BY CursorsKept, LenNat DEF CInv, Inv, SubsOK

LEMMA PublishCursors ==
  ASSUME CInv, Inv', PublishStep
  PROVE  CursorInRange'
<1> DEFINE T == topic[lock.topic]
           m == Head(lock.todo)
           U == IF m.id \in T.seen THEN T ELSE Appended(T, m)
<1>1. /\ lock.topic \in DOMAIN topic /\ T \in TopicState
      /\ lock.todo \in Seq(NewMessage) \ {<<>>}
  BY LockShape DEF CInv, Inv, LockOK, TopicsOK, PublishStep
<1>2. m \in NewMessage
  BY <1>1, HeadTailProperties, EmptySeq
<1>3. topic' = [topic EXCEPT ![lock.topic] = U] /\ UNCHANGED <<sub, snap, stale>>
  BY DEF PublishStep
<1>4. Len(T.log) \in Nat
  BY <1>1, LenNat DEF CInv
<1> HIDE DEF T, m
<1>5. Len(T.log) <= Len(U.log)
  BY <1>1, <1>2, <1>4, AppendedType
<1> HIDE DEF U
<1>6. \A t \in DOMAIN topic : t \in DOMAIN topic' /\ Len(topic[t].log) <= Len(topic'[t].log)
  BY <1>1, <1>3, <1>5, LenNat DEF T, CInv
<1> QED
  BY <1>3, <1>6, CursorsKept

LEMMA ConsumeCursors ==
  ASSUME CInv, Inv', Consume
  PROVE  CursorInRange'
<1>1. ASSUME NEW s \in Subs, NEW n \in PullSizes, PullBegin(s, n)
      PROVE  CursorInRange'
  BY <1>1 DEF PullBegin, CInv, CursorInRange, LogOf
<1>2. ASSUME NEW s \in DOMAIN sub, NEW ids \in IdBatches(s),
             AckBegin(s, ids) \/ NackBegin(s, ids)
      PROVE  CursorInRange'
  BY <1>2 DEF AckBegin, NackBegin, CInv, CursorInRange, LogOf
<1>3. ASSUME NEW s \in DOMAIN sub, NEW ids \in IdBatches(s), NEW seconds \in Extensions,
             ExtendDeadline(s, ids, seconds)
      PROVE  CursorInRange'
  <2>1. /\ Extend(sub[s], ids, seconds).spec = sub[s].spec
        /\ Extend(sub[s], ids, seconds).cursor = sub[s].cursor
    BY ExtendedBooked, BackendAssumption DEF CInv, Inv, SubsOK
  <2> QED
    BY <1>3, <2>1, CursorKept DEF ExtendDeadline
<1> QED
  BY <1>1, <1>2, <1>3 DEF Consume

LEMMA AckCursors ==
  ASSUME CInv, Inv', AckStep \/ AckExpired \/ NackStep
  PROVE  CursorInRange'
<1> DEFINE S == sub[lock.sub]
<1>1. lock.sub \in DOMAIN sub /\ Booked(S) /\ UNCHANGED <<topic, snap, stale>>
  BY DEF AckStep, AckExpired, NackStep, CInv, Inv, LockOK, SubsOK
<1>2. CASE UNCHANGED sub
  BY <1>1, <1>2 DEF CInv, CursorInRange, LogOf
<1>3. CASE ~UNCHANGED sub
  <2>1. PICK l \in S.leases :
          \/ sub' = [sub EXCEPT ![lock.sub] = Ack(S, l)]
          \/ sub' = [sub EXCEPT ![lock.sub] = Forget(S, l)]
          \/ sub' = [sub EXCEPT ![lock.sub] = Nack(S, l)]
    BY <1>3 DEF AckStep, AckExpired, NackStep, Named
  <2>2. /\ Ack(S, l).spec = S.spec /\ Ack(S, l).cursor = S.cursor
        /\ Forget(S, l).spec = S.spec /\ Forget(S, l).cursor = S.cursor
        /\ Nack(S, l).spec = S.spec /\ Nack(S, l).cursor = S.cursor
    BY <1>1, <2>1, AckBooked, ForgetBooked, NackBooked
  <2> QED
    BY <1>1, <2>1, <2>2, CursorKept
<1> QED
  BY <1>2, <1>3

LEMMA TickCursors ==
  ASSUME CInv, Inv', Tick
  PROVE  CursorInRange'
<1>1. \A s \in DOMAIN sub : Aged(sub[s]).spec = sub[s].spec
                            /\ Aged(sub[s]).cursor = sub[s].cursor
  BY AgedBooked DEF CInv, Inv, SubsOK
<1>2. \A s \in DOMAIN sub' : s \in DOMAIN sub /\ sub'[s].cursor = sub[s].cursor
                             /\ sub'[s].spec.topic = sub[s].spec.topic
  BY <1>1 DEF Tick
<1> QED
  BY <1>2, LenNat, CursorsKept DEF Tick, CInv

\* What pull takes lies in the log of a subscription that is not stale.
LEMMA TakenInLog ==
  ASSUME CInv, Takeable
  PROVE  LET S == sub[lock.sub]
             R == Taken.rest
         IN  /\ R.cursor \in Nat /\ R.spec = S.spec
             /\ R.cursor = S.cursor \/ R.cursor <= lock.len
             /\ lock.len <= Len(LogOf(S)) /\ Len(LogOf(S)) \in Nat
             /\ lock.sub \notin stale => R.cursor <= Len(LogOf(S))
             /\ lock.sub \notin stale => Taken.pos <= Len(LogOf(S))
<1> DEFINE S == sub[lock.sub]
           R == Taken.rest
           p == Taken.pos
<1>1. Booked(S) /\ S.cursor \in Nat /\ lock.len \in Nat /\ lock.sub \in DOMAIN sub
      /\ lock.len <= Len(LogOf(S)) /\ Len(LogOf(S)) \in Nat
  BY PullContext, LockShape, BackendAssumption
     DEF Takeable, CInv, Inv, LockOK, SubscriptionState
<1>2. InHand(R, p) /\ R.spec = S.spec
  BY TakenInHand DEF CInv
<1>3. R.cursor \in Nat /\ p \in Passed(R)
  BY <1>2, BackendAssumption DEF InHand, SubscriptionState
<1>4. R.cursor = S.cursor \/ R.cursor <= lock.len
  <2>1. CASE SomeReady(S, lock.skipped)
    BY <1>1, <2>1, TakeQueuedInHand DEF Taken
  <2>2. CASE ~SomeReady(S, lock.skipped)
    <3>1. S.cursor < lock.len
      BY <2>2 DEF Takeable
    <3>2. S.cursor < MaxLen
      BY <1>1, <3>1, LockShape, BackendAssumption DEF Takeable, CInv, Inv
    <3>3. R.cursor = S.cursor + 1
      BY <1>1, <2>2, <3>2, TakeNextInHand DEF Taken
    <3> QED
      BY <1>1, <3>1, <3>3
  <2> QED
    BY <2>1, <2>2
<1>5. lock.sub \notin stale => S.cursor <= Len(LogOf(S))
  BY <1>1 DEF CInv, CursorInRange
<1> HIDE DEF S, R, p
<1>6. lock.sub \notin stale => R.cursor <= Len(LogOf(S))
  BY <1>1, <1>3, <1>4, <1>5
<1>7. p \in Nat /\ p <= R.cursor
  BY <1>2, <1>3, BackendAssumption DEF Passed, InHand, SubscriptionState
<1>8. lock.sub \notin stale => p <= Len(LogOf(S))
  BY <1>1, <1>3, <1>6, <1>7
<1> QED
  BY <1>1, <1>2, <1>3, <1>4, <1>6, <1>8 DEF S, R, p

\* A pull step that takes a position and puts the subscription back as T.
LEMMA TakenCursors ==
  ASSUME CInv, Inv', Takeable, NEW T, sub' = [sub EXCEPT ![lock.sub] = T],
         T.spec = Taken.rest.spec, T.cursor = Taken.rest.cursor,
         \A t \in DOMAIN topic : t \in DOMAIN topic'
                                 /\ Len(topic[t].log) <= Len(topic'[t].log),
         UNCHANGED <<snap, stale>>
  PROVE  CursorInRange'
<1> DEFINE S == sub[lock.sub]
           t == S.spec.topic
<1>1. /\ lock.sub \in DOMAIN sub /\ t \in DOMAIN topic
      /\ T.spec = S.spec /\ T.cursor \in Nat
      /\ lock.sub \notin stale => T.cursor <= Len(topic[t].log)
  BY TakenInLog, PullContext DEF Takeable, CInv, LogOf
<1>2. /\ DOMAIN sub' = DOMAIN sub /\ sub'[lock.sub] = T
      /\ \A r \in DOMAIN sub : r # lock.sub => sub'[r] = sub[r]
  BY <1>1 DEF CInv, Inv, SubsOK
<1>3. ASSUME NEW r \in DOMAIN sub' \ stale'
      PROVE  sub'[r].spec.topic \in DOMAIN topic'
             /\ sub'[r].cursor <= Len(topic'[sub'[r].spec.topic].log)
  <2> DEFINE u == sub'[r].spec.topic
  <2>1. u \in DOMAIN topic /\ sub'[r].cursor <= Len(topic[u].log)
    <3>1. CASE r = lock.sub
      BY <1>1, <1>2, <1>3, <3>1
    <3>2. CASE r # lock.sub
      BY <1>2, <1>3, <3>2 DEF CInv, CursorInRange, LogOf
    <3> QED
      BY <3>1, <3>2
  <2>2. u \in DOMAIN topic' /\ Len(topic[u].log) <= Len(topic'[u].log)
    BY <2>1
  <2>3. /\ sub'[r].cursor \in Nat /\ Len(topic[u].log) \in Nat
        /\ Len(topic'[u].log) \in Nat
    BY <1>3, <2>1, <2>2, BackendAssumption
       DEF CInv, Inv, TopicsOK, TopicState, SubsOK, SubscriptionState
  <2> HIDE DEF u
  <2> QED
    BY <2>1, <2>2, <2>3 DEF u
<1>4. ASSUME NEW n \in DOMAIN snap' \ stale'
      PROVE  snap'[n].topic \in DOMAIN topic'
             /\ snap'[n].cursor <= Len(topic'[snap'[n].topic].log)
  <2> DEFINE u == snap[n].topic
  <2>1. u \in DOMAIN topic /\ snap[n].cursor <= Len(topic[u].log) /\ snap'[n] = snap[n]
    BY <1>4 DEF CInv, CursorInRange
  <2>2. u \in DOMAIN topic' /\ Len(topic[u].log) <= Len(topic'[u].log)
    BY <2>1
  <2>3. snap[n].cursor \in Nat /\ Len(topic[u].log) \in Nat /\ Len(topic'[u].log) \in Nat
    BY <1>4, <2>1, <2>2, BackendAssumption
       DEF CInv, Inv, TopicsOK, TopicState, NamesOK, SnapshotSpec
  <2> HIDE DEF u
  <2> QED
    BY <2>1, <2>2, <2>3 DEF u
<1> QED
  BY <1>3, <1>4 DEF CursorInRange, LogOf

LEMMA PullCursors ==
  ASSUME CInv, Inv', PullStep
  PROVE  CursorInRange'
<1> DEFINE S == sub[lock.sub]
           R == Taken.rest
           p == Taken.pos
<1>1. CASE SweepExpired
  <2>1. PICK l \in S.leases : sub' = [sub EXCEPT ![lock.sub] = Expire(S, l)]
    BY <1>1 DEF SweepExpired
  <2>2. /\ lock.sub \in DOMAIN sub
        /\ Expire(S, l).spec = S.spec /\ Expire(S, l).cursor = S.cursor
    BY <1>1, <2>1, PullContext, ExpireBooked DEF SweepExpired, CInv
  <2> QED
    BY <1>1, <2>1, <2>2, CursorKept DEF SweepExpired
<1>2. CASE SweepEnd \/ PullEnd
  BY <1>2 DEF SweepEnd, PullEnd, CInv, CursorInRange, LogOf
<1>3. ASSUME Takeable PROVE InHand(R, p)
  BY <1>3, TakenInHand DEF CInv
<1>4. CASE PullPass
  <2>1. Takeable /\ InHand(R, p) /\ ~Handled(R, p)
    BY <1>3, <1>4, InHandOutstanding DEF PullPass
  <2>2. sub' = [sub EXCEPT ![lock.sub] = Postpone(R, p)]
    BY <1>4, <2>1 DEF PullPass
  <2>3. Postpone(R, p).spec = R.spec /\ Postpone(R, p).cursor = R.cursor
    BY <2>1, PostponeBooked
  <2>4. \A t \in DOMAIN topic : t \in DOMAIN topic'
                                /\ Len(topic[t].log) <= Len(topic'[t].log)
    BY <1>4, LenNat DEF PullPass, CInv
  <2> QED
    BY <1>4, <2>1, <2>2, <2>3, <2>4, TakenCursors DEF PullPass
<1>5. CASE PullFilterOut
  <2>1. Takeable /\ InHand(R, p) /\ sub' = [sub EXCEPT ![lock.sub] = Settle(R, p)]
    BY <1>3, <1>5 DEF PullFilterOut
  <2>2. Settle(R, p).spec = R.spec /\ Settle(R, p).cursor = R.cursor
    BY <2>1, SettleBooked
  <2>3. \A t \in DOMAIN topic : t \in DOMAIN topic'
                                /\ Len(topic[t].log) <= Len(topic'[t].log)
    BY <1>5, LenNat DEF PullFilterOut, CInv
  <2> QED
    BY <1>5, <2>1, <2>2, <2>3, TakenCursors DEF PullFilterOut
<1>6. CASE PullDeliver
  <2>1. Takeable /\ InHand(R, p) /\ sub' = [sub EXCEPT ![lock.sub] = Deliver(R, p)]
    BY <1>3, <1>6 DEF PullDeliver
  <2>2. Deliver(R, p).spec = R.spec /\ Deliver(R, p).cursor = R.cursor
    BY <2>1, DeliverBooked
  <2>3. \A t \in DOMAIN topic : t \in DOMAIN topic'
                                /\ Len(topic[t].log) <= Len(topic'[t].log)
    BY <1>6, LenNat DEF PullDeliver, CInv
  <2> QED
    BY <1>6, <2>1, <2>2, <2>3, TakenCursors DEF PullDeliver
<1>7. CASE PullDeadLetter
  <2>1. Takeable /\ InHand(R, p) /\ sub' = [sub EXCEPT ![lock.sub] = Settle(R, p)]
    BY <1>3, <1>7 DEF PullDeadLetter
  <2>2. Settle(R, p).spec = R.spec /\ Settle(R, p).cursor = R.cursor
    BY <2>1, SettleBooked
  <2>0. PICK d \in DOMAIN topic :
          \E copy : topic' = [topic EXCEPT ![d].log = Append(@, copy)]
    BY <1>7 DEF PullDeadLetter, Exhausted
  <2>3. PICK copy : topic' = [topic EXCEPT ![d].log = Append(@, copy)]
    BY <2>0
  <2>4. topic[d] \in TopicState /\ topic'[d].log \in Seq(Message)
        /\ topic'[d].log = Append(topic[d].log, copy)
    BY <2>3 DEF CInv, Inv, TopicsOK, TopicState
  <2>5. Len(topic[d].log) <= Len(topic'[d].log)
    BY <2>4 DEF TopicState
  <2>6. \A t \in DOMAIN topic : t \in DOMAIN topic'
                                /\ Len(topic[t].log) <= Len(topic'[t].log)
    BY <2>3, <2>5, LenNat DEF CInv
  <2> QED
    BY <1>7, <2>1, <2>2, <2>6, TakenCursors DEF PullDeadLetter
<1>8. CASE PullPanic
  BY <1>8 DEF PullPanic, Drop, CInv, CursorInRange, LogOf
<1> QED
  BY <1>1, <1>2, <1>4, <1>5, <1>6, <1>7, <1>8 DEF PullStep

-----------------------------------------------------------------------------

LEMMA CursorsInit == Init => CursorInRange
BY DEF Init, NoEntries, CursorInRange

LEMMA CursorsStep == CInv /\ Inv' /\ [Next]_vars => CursorInRange'
<1> SUFFICES ASSUME CInv, Inv', [Next]_vars PROVE CursorInRange'
  OBVIOUS
<1>1. CASE Publish
  BY <1>1 DEF Publish, PublishBegin, CInv, CursorInRange, LogOf
<1>2. CASE LockedStep
  BY <1>2, PullCursors, PublishCursors, AckCursors DEF LockedStep
<1>3. CASE UNCHANGED vars
  BY <1>3 DEF vars, CInv, CursorInRange, LogOf
<1> QED
  BY <1>1, <1>2, <1>3, ConsumeCursors, TickCursors, SeekCursors,
     SubscriptionAdminCursors, TopicAdminCursors DEF Next, DataPlane

LEMMA CInvAlways == Spec => []CInv
<1>1. Init => CInv
  BY InvInit, CursorsInit DEF CInv
<1>2. CInv /\ [Next]_vars => CInv'
  BY InvStep, CursorsStep DEF CInv
<1> QED
  BY <1>1, <1>2, PTL DEF Spec

\* A cursor, of a subscription or of a snapshot, leaves its topic's log only if
\* the topic was deleted since the cursor was set.
THEOREM CursorSafety == Spec => []CursorInRange
BY CInvAlways, PTL DEF CInv

\* No subscription disappears, by a panic in the middle of pull, unless its topic
\* was deleted and created again behind it.
THEOREM NoneVanishes == Spec => SubscriptionKept
<1> DEFINE Kept == \A s \in DOMAIN sub \ DOMAIN sub' :
                     DeleteSubscription(s) \/ s \in stale
<1>1. ASSUME CInv, Next PROVE Kept
  <2>1. CASE PullPanic
    <3>1. Takeable /\ Taken.pos > Len(LogOf(Taken.rest)) /\ sub' = Drop(sub, lock.sub)
      BY <2>1 DEF PullPanic
    <3>2. /\ lock.sub \notin stale => Taken.pos <= Len(LogOf(Taken.rest))
          /\ Len(LogOf(Taken.rest)) \in Nat
      BY <1>1, <3>1, TakenInLog DEF LogOf
    <3>3. Taken.pos \in Nat
      BY <1>1, <3>1, TakenInHand, BackendAssumption DEF CInv, InHand, Position
    <3>4. lock.sub \in stale
      BY <3>1, <3>2, <3>3
    <3> QED
      BY <3>1, <3>4 DEF Drop
  <2>2. CASE PullStep /\ ~PullPanic
    <3>1. DOMAIN sub' = DOMAIN sub
      BY <2>2 DEF PullStep, SweepExpired, SweepEnd, PullPass, PullDeadLetter,
                  PullFilterOut, PullDeliver, PullEnd
    <3> QED
      BY <3>1
  <2>3. CASE PublishStep \/ AckStep \/ AckExpired \/ NackStep
    BY <2>3 DEF PublishStep, AckStep, AckExpired, NackStep
  <2>4. CASE Publish \/ Consume \/ Tick
    BY <2>4 DEF Publish, PublishBegin, Consume, PullBegin, AckBegin, NackBegin,
                ExtendDeadline, Tick
  <2>5. CASE Seek
    BY <2>5 DEF Seek, SeekToTime, SeekToSnapshot
  <2>6. CASE TopicAdmin
    BY <2>6 DEF TopicAdmin, CreateTopic, UpdateTopic, DeleteTopic, CreateSchema,
                DeleteSchema
  <2>7. CASE SubscriptionAdmin
    <3>1. CASE \E s \in Subs : DeleteSubscription(s)
      BY <3>1 DEF DeleteSubscription, Drop
    <3>2. CASE ~\E s \in Subs : DeleteSubscription(s)
      BY <2>7, <3>2 DEF SubscriptionAdmin, CreateSubscription, UpdateSubscription,
                        CreateSnapshot, DeleteSnapshot, Put
    <3> QED
      BY <3>1, <3>2
  <2> QED
    BY <1>1, <2>1, <2>2, <2>3, <2>4, <2>5, <2>6, <2>7 DEF Next, DataPlane, LockedStep
<1>2. CInv /\ [Next]_vars => [Kept]_vars
  BY <1>1
<1> QED
  BY <1>2, CInvAlways, PTL DEF Spec, SubscriptionKept
=============================================================================

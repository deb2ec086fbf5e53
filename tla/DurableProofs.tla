---------------------------- MODULE DurableProofs ----------------------------
(***************************************************************************)
(* A broker that persists its state keeps its books across failed saves    *)
(* and crashes, and never goes back on what it answered Ok.                *)
(*                                                                         *)
(* A step of the durable broker other than a crash is a step of            *)
(* MemoryBackend (DurableStep), so memory keeps Inv by the proofs of       *)
(* BackendProofs.  The disk holds some earlier state, which satisfied the  *)
(* same conditions then; DInv says so, and a crash makes it memory.        *)
(***************************************************************************)
EXTENDS DeliveryProofs, DurableBackend

\* What Inv says of the state, said of the file.
DiskOK ==
  /\ DOMAIN disk.topic \subseteq Topics
  /\ disk.topic \in [DOMAIN disk.topic -> TopicState]
  /\ \A t \in DOMAIN disk.topic : Len(disk.topic[t].log) <= MaxLen
  /\ DOMAIN disk.sub \subseteq Subs
  /\ disk.sub \in [DOMAIN disk.sub -> SubscriptionState]
  /\ \A s \in DOMAIN disk.sub : Booked(disk.sub[s])
  /\ DOMAIN disk.snap \subseteq Snaps
  /\ disk.snap \in [DOMAIN disk.snap -> SnapshotSpec]
  /\ DOMAIN disk.schema \subseteq Schemas
  /\ disk.schema \in [DOMAIN disk.schema -> SUBSET Data]
  /\ disk.resets \in [Subs -> 0 .. MaxResets]
  /\ disk.stale \subseteq Subs \cup Snaps

Fields == {"topic", "sub", "snap", "schema", "resets", "stale"}

DInv == Inv /\ DiskOK /\ DOMAIN disk = Fields

-----------------------------------------------------------------------------
(* The steps of the durable broker are those of the broker, and crashes.   *)

LEMMA DurableStep ==
  ASSUME DNext, ~Crash
  PROVE  Next
<1>1. CASE Working
  BY <1>1 DEF Working, Next, DataPlane
<1>2. CASE Succeeds
  <2>1. LoopDone => LockedStep
    BY DEF LoopDone, LockedStep, PullStep
  <2>2. Extending => Consume
    BY DEF Extending, Consume
  <2> QED
    BY <1>2, <2>1, <2>2 DEF Succeeds, Next, DataPlane
<1>3. CASE AckExpired \/ PullPanic
  BY <1>3 DEF LockedStep, PullStep, Next, DataPlane
<1>4. CASE Tick
  BY <1>4 DEF Next, DataPlane
<1> QED
  BY <1>1, <1>2, <1>3, <1>4 DEF DNext, Saved, SaveFails, Unsaved, DTick

\* What becomes of the file in a step.
LEMMA DiskStep ==
  ASSUME DNext
  PROVE  \/ disk' = Image' \/ UNCHANGED disk
         \/ disk' = [disk EXCEPT !.sub = [s \in DOMAIN disk.sub |-> Aged(disk.sub[s])]]
BY DEF DNext, Working, Saved, Persist, SaveFails, Unsaved, DTick, Crash

LEMMA CrashInv ==
  ASSUME DInv, Crash
  PROVE  Inv'
<1>1. TopicsOK'
  BY DEF DInv, DiskOK, Crash, TopicsOK
<1>2. SubsOK'
  BY DEF DInv, DiskOK, Crash, SubsOK
<1>3. NamesOK'
  BY DEF DInv, DiskOK, Crash, NamesOK
<1> QED
  BY <1>1, <1>2, <1>3, LockFreed DEF Inv, Crash

LEMMA ImageOK ==
  ASSUME Inv, disk = Image
  PROVE  DiskOK /\ DOMAIN disk = Fields
BY DEF Image, DiskOK, Fields, Inv, TopicsOK, SubsOK, NamesOK

LEMMA AgedDisk ==
  ASSUME DiskOK, DOMAIN disk = Fields,
         disk' = [disk EXCEPT !.sub = [s \in DOMAIN disk.sub |-> Aged(disk.sub[s])]]
  PROVE  DiskOK' /\ DOMAIN disk' = Fields
<1> DEFINE D == [s \in DOMAIN disk.sub |-> Aged(disk.sub[s])]
<1>1. \A s \in DOMAIN disk.sub : Booked(Aged(disk.sub[s]))
  BY AgedBooked DEF DiskOK
<1>2. DOMAIN D = DOMAIN disk.sub /\ \A s \in DOMAIN D : Booked(D[s])
  BY <1>1
<1>3. D \in [DOMAIN D -> SubscriptionState]
  BY <1>2 DEF Booked
<1> HIDE DEF D
<1>4. /\ DOMAIN disk' = Fields /\ disk'.sub = D /\ disk'.topic = disk.topic
      /\ disk'.snap = disk.snap /\ disk'.schema = disk.schema
      /\ disk'.resets = disk.resets /\ disk'.stale = disk.stale
  BY DEF Fields, D
<1> QED
  BY <1>2, <1>3, <1>4 DEF DiskOK

LEMMA DInvInit == DInit => DInv
BY InvInit, ImageOK DEF DInit, DInv

LEMMA DInvStep == DInv /\ [DNext]_dvars => DInv'
<1> SUFFICES ASSUME DInv, [DNext]_dvars PROVE DInv'
  OBVIOUS
<1>1. CASE DNext
  <2>1. Inv'
    <3>1. CASE Crash
      BY <3>1, CrashInv
    <3>2. CASE ~Crash
      BY <1>1, <3>2, DurableStep, InvStep DEF DInv
    <3> QED
      BY <3>1, <3>2
  <2>2. CASE disk' = Image'
    <3>1. DiskOK' /\ DOMAIN disk' = Fields
      BY <2>1, <2>2 DEF Image, DiskOK, Fields, Inv, TopicsOK, SubsOK, NamesOK
    <3> QED
      BY <2>1, <3>1 DEF DInv
  <2>3. CASE UNCHANGED disk
    BY <2>1, <2>3 DEF DInv, DiskOK
  <2>4. CASE disk' = [disk EXCEPT !.sub = [s \in DOMAIN disk.sub |-> Aged(disk.sub[s])]]
    BY <2>1, <2>4, AgedDisk DEF DInv
  <2> QED
    BY <1>1, <2>2, <2>3, <2>4, DiskStep
<1>2. CASE UNCHANGED dvars
  <2>1. Inv'
    BY <1>2, InvStep DEF dvars, DInv
  <2> QED
    BY <1>2, <2>1 DEF dvars, DInv, DiskOK
<1> QED
  BY <1>1, <1>2

LEMMA DInvAlways == DSpec => []DInv
BY DInvInit, DInvStep, PTL DEF DSpec

\* Failed saves, panics and crashes, at any point and in any order, lose no
\* message either: what a subscription passed is still accounted for.
THEOREM DurableNothingLost == DSpec => []MessagesAccounted
<1>1. DInv => MessagesAccounted
  BY InvImplies DEF DInv
<1> QED
  BY <1>1, DInvAlways, PTL

-----------------------------------------------------------------------------
(* What is acked stays acked until the next seek or creation.              *)

AcksKept ==
  \A s \in Subs :
    /\ resets[s] <= resets'[s]
    /\ s \in DOMAIN sub' /\ resets'[s] = resets[s] =>
         s \in DOMAIN sub /\ sub[s].acked \subseteq sub'[s].acked

LEMMA ResetsNat ==
  ASSUME NamesOK
  PROVE  \A s \in Subs : resets[s] \in Nat
BY BackendAssumption DEF NamesOK

\* A step that leaves the resets alone and no subscription with fewer acks.
LEMMA AcksKeptBy ==
  ASSUME Inv, UNCHANGED resets,
         \A s \in DOMAIN sub' : s \in DOMAIN sub /\ sub[s].acked \subseteq sub'[s].acked
  PROVE  AcksKept
BY ResetsNat DEF AcksKept, Inv

LEMMA ReplacedAcks ==
  ASSUME Inv, NEW s \in DOMAIN sub, NEW T, sub' = [sub EXCEPT ![s] = T],
         sub[s].acked \subseteq T.acked, UNCHANGED resets
  PROVE  AcksKept
BY AcksKeptBy DEF Inv, SubsOK

LEMMA SubscriptionAcks ==
  ASSUME NEW S \in SubscriptionState
  PROVE  /\ \A l : S.acked \subseteq Ack(S, l).acked /\ Forget(S, l).acked = S.acked
                   /\ Nack(S, l).acked = S.acked /\ Expire(S, l).acked = S.acked
         /\ \A ids, seconds : Extend(S, ids, seconds).acked = S.acked
         /\ \A p : /\ Postpone(S, p).acked = S.acked
                   /\ S.acked \subseteq Settle(S, p).acked
                   /\ Deliver(S, p).acked = S.acked
         /\ Aged(S).acked = S.acked
<1>1. \A l : S.acked \subseteq Ack(S, l).acked /\ Forget(S, l).acked = S.acked
             /\ Nack(S, l).acked = S.acked /\ Expire(S, l).acked = S.acked
  BY DEF SubscriptionState, Ack, Forget, Nack, Expire
<1>2. \A ids, seconds : Extend(S, ids, seconds).acked = S.acked
  BY DEF SubscriptionState, Extend
<1>3. \A p : /\ Postpone(S, p).acked = S.acked
             /\ S.acked \subseteq Settle(S, p).acked
             /\ Deliver(S, p).acked = S.acked
  BY DEF SubscriptionState, Postpone, Settle, Deliver, CountAttempt
<1>4. Aged(S).acked = S.acked
  BY DEF SubscriptionState, Aged
<1> QED
  BY <1>1, <1>2, <1>3, <1>4

LEMMA AdminAcks ==
  ASSUME Inv, Seek \/ SubscriptionAdmin \/ TopicAdmin
  PROVE  AcksKept
<1> USE DEF Inv
<1>1. CASE TopicAdmin
  BY <1>1, AcksKeptBy
     DEF TopicAdmin, CreateTopic, UpdateTopic, DeleteTopic, CreateSchema, DeleteSchema
<1>2. ASSUME NEW s \in Subs, NEW T, resets' = [resets EXCEPT ![s] = @ + 1],
             \A r \in DOMAIN sub' : r # s => r \in DOMAIN sub /\ sub'[r] = sub[r]
      PROVE  AcksKept
  <2>1. \A r \in Subs : resets[r] \in Nat
    BY ResetsNat
  <2>2. resets'[s] = resets[s] + 1 /\ \A r \in Subs : r # s => resets'[r] = resets[r]
    BY <1>2 DEF NamesOK
  <2> QED
    BY <1>2, <2>1, <2>2 DEF AcksKept
<1>3. CASE Seek
  BY <1>2, <1>3 DEF Seek, SeekToTime, SeekToSnapshot
<1>4. CASE SubscriptionAdmin
  <2>1. ASSUME NEW s \in Subs, NEW spec \in Specs, CreateSubscription(s, spec)
        PROVE  AcksKept
    BY <1>2, <2>1 DEF CreateSubscription, Put
  <2>2. ASSUME NEW s \in Subs, NEW spec \in Specs, NEW mask \in SUBSET MaskFields,
               UpdateSubscription(s, spec, mask)
        PROVE  AcksKept
    <3>1. /\ s \in DOMAIN sub /\ sub[s] \in SubscriptionState
          /\ sub' = [sub EXCEPT ![s] = [sub[s] EXCEPT !.spec = Masked(@, spec, mask)]]
      BY <2>2 DEF UpdateSubscription, SubsOK, SubscriptionState
    <3>2. [sub[s] EXCEPT !.spec = Masked(@, spec, mask)].acked = sub[s].acked
      BY <3>1 DEF SubscriptionState
    <3> QED
      BY <2>2, <3>1, <3>2, ReplacedAcks DEF UpdateSubscription
  <2>3. ASSUME NEW s \in Subs, DeleteSubscription(s)
        PROVE  AcksKept
    BY <2>3, AcksKeptBy DEF DeleteSubscription, Drop
  <2>4. CASE \/ \E n \in Snaps, s \in Subs : CreateSnapshot(n, s)
             \/ \E n \in Snaps : DeleteSnapshot(n)
    BY <2>4, AcksKeptBy DEF CreateSnapshot, DeleteSnapshot
  <2> QED
    BY <1>4, <2>1, <2>2, <2>3, <2>4 DEF SubscriptionAdmin
<1> QED
  BY <1>1, <1>3, <1>4

LEMMA PullAcks ==
  ASSUME Inv, PullStep
  PROVE  AcksKept
<1> DEFINE S == sub[lock.sub]
           R == Taken.rest
           p == Taken.pos
<1>1. lock.op \in {"sweep", "pull"}
  BY DEF PullStep, SweepExpired, SweepEnd, PullPass, PullDeadLetter, PullFilterOut,
         PullDeliver, PullPanic, PullEnd, Takeable
<1>2. lock.sub \in DOMAIN sub /\ S \in SubscriptionState
  BY <1>1, PullContext
<1>3. ASSUME Takeable
      PROVE  R \in SubscriptionState /\ R.acked = S.acked
  <2>1. R \in SubscriptionState
    BY <1>3, TakenInHand DEF InHand
  <2>2. R.acked = S.acked
    BY <1>2 DEF Taken, Take, SubscriptionState
  <2> QED
    BY <2>1, <2>2
<1>4. CASE SweepExpired
  <2>1. PICK l \in S.leases : sub' = [sub EXCEPT ![lock.sub] = Expire(S, l)]
    BY <1>4 DEF SweepExpired
  <2> QED
    BY <1>2, <1>4, <2>1, SubscriptionAcks, ReplacedAcks DEF SweepExpired
<1>5. CASE SweepEnd \/ PullEnd
  BY <1>5, AcksKeptBy DEF SweepEnd, PullEnd
<1>6. CASE PullPass
  <2>1. sub' = [sub EXCEPT ![lock.sub] = R] \/ sub' = [sub EXCEPT ![lock.sub] = Postpone(R, p)]
    BY <1>6 DEF PullPass
  <2>2. R.acked = S.acked /\ Postpone(R, p).acked = S.acked
    BY <1>3, <1>6, SubscriptionAcks DEF PullPass
  <2> QED
    BY <1>2, <1>6, <2>1, <2>2, ReplacedAcks DEF PullPass
<1>7. CASE PullFilterOut \/ PullDeadLetter
  <2>1. Takeable /\ sub' = [sub EXCEPT ![lock.sub] = Settle(R, p)] /\ UNCHANGED resets
    BY <1>7 DEF PullFilterOut, PullDeadLetter
  <2>2. S.acked \subseteq Settle(R, p).acked
    BY <1>3, <2>1, SubscriptionAcks
  <2> QED
    BY <1>2, <2>1, <2>2, ReplacedAcks
<1>8. CASE PullDeliver
  <2>1. Takeable /\ sub' = [sub EXCEPT ![lock.sub] = Deliver(R, p)] /\ UNCHANGED resets
    BY <1>8 DEF PullDeliver
  <2>2. S.acked \subseteq Deliver(R, p).acked
    BY <1>3, <2>1, SubscriptionAcks
  <2> QED
    BY <1>2, <2>1, <2>2, ReplacedAcks
<1>9. CASE PullPanic
  BY <1>9, AcksKeptBy DEF PullPanic, Drop
<1> QED
  BY <1>4, <1>5, <1>6, <1>7, <1>8, <1>9 DEF PullStep

LEMMA AckAcks ==
  ASSUME Inv, AckStep \/ AckExpired \/ NackStep
  PROVE  AcksKept
<1> DEFINE S == sub[lock.sub]
<1>1. lock.sub \in DOMAIN sub /\ S \in SubscriptionState /\ UNCHANGED resets
  BY DEF AckStep, AckExpired, NackStep, Inv, LockOK, SubsOK
<1>2. CASE UNCHANGED sub
  BY <1>1, <1>2, AcksKeptBy
<1>3. CASE ~UNCHANGED sub
  <2>1. PICK l \in S.leases :
          \/ sub' = [sub EXCEPT ![lock.sub] = Ack(S, l)]
          \/ sub' = [sub EXCEPT ![lock.sub] = Forget(S, l)]
          \/ sub' = [sub EXCEPT ![lock.sub] = Nack(S, l)]
    BY <1>3 DEF AckStep, AckExpired, NackStep, Named
  <2>2. /\ S.acked \subseteq Ack(S, l).acked /\ S.acked \subseteq Forget(S, l).acked
        /\ S.acked \subseteq Nack(S, l).acked
    BY <1>1, SubscriptionAcks
  <2> QED
    BY <1>1, <2>1, <2>2, ReplacedAcks
<1> QED
  BY <1>2, <1>3

LEMMA ConsumeAcks ==
  ASSUME Inv, Consume
  PROVE  AcksKept
<1>1. CASE UNCHANGED <<sub, resets>>
  BY <1>1, AcksKeptBy
<1>2. ASSUME NEW s \in DOMAIN sub, NEW ids \in IdBatches(s), NEW seconds \in Extensions,
             ExtendDeadline(s, ids, seconds)
      PROVE  AcksKept
  <2>1. Extend(sub[s], ids, seconds).acked = sub[s].acked
    BY SubscriptionAcks DEF Inv, SubsOK
  <2> QED
    BY <1>2, <2>1, ReplacedAcks DEF ExtendDeadline
<1> QED
  BY <1>1, <1>2 DEF Consume, PullBegin, AckBegin, NackBegin

LEMMA TickAcks ==
  ASSUME Inv, Tick
  PROVE  AcksKept
<1>1. \A s \in DOMAIN sub : Aged(sub[s]).acked = sub[s].acked
  BY SubscriptionAcks DEF Inv, SubsOK
<1> QED
  BY <1>1, AcksKeptBy DEF Tick

LEMMA NextAcks ==
  ASSUME Inv, Next
  PROVE  AcksKept
<1>1. CASE Publish \/ PublishStep
  BY <1>1, AcksKeptBy DEF Publish, PublishBegin, PublishStep
<1> QED
  BY <1>1, PullAcks, AckAcks, ConsumeAcks, TickAcks, AdminAcks
     DEF Next, DataPlane, LockedStep

-----------------------------------------------------------------------------
(* Acks that were answered Ok, in memory and on disk.                      *)

\* The reset an answer belongs to is one that memory and disk have seen.
AnswersOK ==
  \A a \in acknowledged :
    /\ a[1] \in Subs /\ a[2] \in Nat
    /\ a[2] <= resets[a[1]] /\ a[2] <= disk.resets[a[1]]

AcknowledgedOnDisk ==
  \A a \in acknowledged :
    a[1] \in DOMAIN disk.sub /\ disk.resets[a[1]] = a[2] =>
      a[3] \in disk.sub[a[1]].acked

AInv == DInv /\ AnswersOK /\ AcknowledgedForGood /\ AcknowledgedOnDisk

\* A step of the broker keeps the answers of before it.
LEMMA AnswersKept ==
  ASSUME AInv, Next,
         NEW a \in acknowledged
  PROVE  /\ a[1] \in Subs /\ a[2] \in Nat /\ a[2] <= resets'[a[1]]
         /\ a[1] \in DOMAIN sub' /\ resets'[a[1]] = a[2] => a[3] \in sub'[a[1]].acked
<1> DEFINE s == a[1]
<1>1. s \in Subs /\ a[2] \in Nat /\ a[2] <= resets[s]
  BY DEF AInv, AnswersOK
<1>2. /\ resets[s] <= resets'[s]
      /\ s \in DOMAIN sub' /\ resets'[s] = resets[s] =>
           s \in DOMAIN sub /\ sub[s].acked \subseteq sub'[s].acked
  BY <1>1, NextAcks DEF AInv, DInv, AcksKept
<1>3. resets[s] \in Nat /\ resets'[s] \in Nat
  <2>1. NamesOK'
    BY InvStep DEF AInv, DInv, Inv
  <2>2. NamesOK
    BY DEF AInv, DInv, Inv
  <2> QED
    BY <1>1, <2>1, <2>2, BackendAssumption DEF NamesOK
<1>4. a[2] <= resets'[s]
  BY <1>1, <1>2, <1>3
<1>5. ASSUME s \in DOMAIN sub', resets'[s] = a[2]
      PROVE  a[3] \in sub'[s].acked
  <2>1. resets[s] = a[2]
    BY <1>1, <1>2, <1>3, <1>5
  <2>2. s \in DOMAIN sub /\ sub[s].acked \subseteq sub'[s].acked
    BY <1>2, <1>5, <2>1
  <2>3. a[3] \in sub[s].acked
    BY <2>1, <2>2 DEF AInv, AcknowledgedForGood
  <2> QED
    BY <2>2, <2>3
<1> QED
  BY <1>1, <1>4, <1>5

\* Only the end of an acknowledge adds answers, and only that of a publish
\* sets a stored log.
LEMMA AnswerOps ==
  ASSUME Succeeds
  PROVE  /\ lock.op = "ack" => AckStep
         /\ lock.op = "publish" => PublishStep
<1>1. ~Idle \/ lock.op = "free"
  BY DEF Idle, Free
<1>2. LoopDone => \/ PublishStep /\ lock.op = "publish"
                  \/ AckStep /\ lock.op = "ack"
                  \/ lock.op \in {"pull", "nack"}
  BY DEF LoopDone, PublishStep, PullEnd, AckStep, NackStep
<1>3. Extending \/ Seek => Idle
  BY DEF Extending, ExtendDeadline, Seek, SeekToTime, SeekToSnapshot
<1>4. SubscriptionAdmin => Idle
  BY DEF SubscriptionAdmin, CreateSubscription, UpdateSubscription, DeleteSubscription,
         CreateSnapshot, DeleteSnapshot
<1>5. TopicAdmin => Idle
  BY DEF TopicAdmin, CreateTopic, UpdateTopic, DeleteTopic, CreateSchema, DeleteSchema
<1> QED
  BY <1>1, <1>2, <1>3, <1>4, <1>5 DEF Succeeds

LEMMA NewAnswer ==
  ASSUME AInv, Succeeds, AnswerOk, NEW a \in acknowledged' \ acknowledged
  PROVE  /\ a[1] \in Subs /\ a[2] \in Nat /\ a[2] <= resets'[a[1]]
         /\ a[1] \in DOMAIN sub' /\ resets'[a[1]] = a[2] => a[3] \in sub'[a[1]].acked
<1>1. lock.op = "ack"
  BY DEF AnswerOk
<1>2. AckStep /\ resets' = resets
  BY <1>1, AnswerOps DEF AckStep
<1>3. PICK p \in sub'[lock.sub].acked : a = <<lock.sub, resets[lock.sub], p>>
  BY <1>1 DEF AnswerOk
<1>4. lock.sub \in Subs /\ resets[lock.sub] \in Nat
  BY <1>1, ResetsNat DEF AInv, DInv, Inv, LockOK, SubsOK
<1> QED
  BY <1>2, <1>3, <1>4

\* All answers after a step other than a crash.
LEMMA AnswersStep ==
  ASSUME AInv, DNext, ~Crash, NEW a \in acknowledged'
  PROVE  /\ a[1] \in Subs /\ a[2] \in Nat /\ a[2] <= resets'[a[1]]
         /\ a[1] \in DOMAIN sub' /\ resets'[a[1]] = a[2] => a[3] \in sub'[a[1]].acked
<1>1. CASE a \in acknowledged
  BY <1>1, DurableStep, AnswersKept
<1>2. CASE a \notin acknowledged
  <2>1. Succeeds /\ AnswerOk
    BY <1>2 DEF DNext, Working, Saved, SaveFails, Unsaved, DTick, AnswerError, Crash
  <2> QED
    BY <1>2, <2>1, NewAnswer
<1> QED
  BY <1>1, <1>2

LEMMA AInvStep == AInv /\ [DNext]_dvars => AInv'
<1> SUFFICES ASSUME AInv, [DNext]_dvars PROVE AInv'
  OBVIOUS
<1>1. DInv'
  BY DInvStep DEF AInv
<1>2. CASE UNCHANGED dvars
  BY <1>1, <1>2 DEF dvars, vars, AInv, AnswersOK, AcknowledgedForGood, AcknowledgedOnDisk
<1>3. CASE Crash
  BY <1>1, <1>3 DEF Crash, AInv, AnswersOK, AcknowledgedForGood, AcknowledgedOnDisk
<1>4. CASE DNext /\ ~Crash
  <2>1. AcknowledgedForGood'
    BY <1>4, AnswersStep DEF AcknowledgedForGood
  <2>2. CASE disk' = Image'
    <3>1. disk'.sub = sub' /\ disk'.resets = resets'
      BY <2>2 DEF Image
    <3>2. AnswersOK'
      BY <1>4, <3>1, AnswersStep DEF AnswersOK
    <3>3. AcknowledgedOnDisk'
      BY <2>1, <3>1 DEF AcknowledgedForGood, AcknowledgedOnDisk
    <3> QED
      BY <1>1, <2>1, <3>2, <3>3 DEF AInv
  <2>3. CASE disk' # Image'
    <3>1. acknowledged' = acknowledged
      BY <1>4, <2>3 DEF DNext, Working, Saved, Persist, SaveFails, Unsaved, DTick,
                        AnswerError, Crash
    <3>2. /\ disk'.resets = disk.resets /\ DOMAIN disk'.sub = DOMAIN disk.sub
          /\ \A s \in DOMAIN disk.sub : disk'.sub[s].acked = disk.sub[s].acked
      <4>1. CASE UNCHANGED disk
        BY <4>1
      <4>2. CASE disk' = [disk EXCEPT !.sub = [s \in DOMAIN disk.sub |-> Aged(disk.sub[s])]]
        <5>1. disk'.resets = disk.resets
              /\ disk'.sub = [s \in DOMAIN disk.sub |-> Aged(disk.sub[s])]
          BY <4>2 DEF AInv, DInv, Fields
        <5>2. \A s \in DOMAIN disk.sub : Aged(disk.sub[s]).acked = disk.sub[s].acked
          BY SubscriptionAcks DEF AInv, DInv, DiskOK
        <5> QED
          BY <5>1, <5>2
      <4> QED
        BY <1>4, <2>3, <4>1, <4>2, DiskStep
    <3>3. AnswersOK'
      BY <1>4, <3>1, <3>2, AnswersStep DEF AInv, AnswersOK
    <3>4. AcknowledgedOnDisk'
      BY <3>1, <3>2 DEF AInv, AcknowledgedOnDisk
    <3> QED
      BY <1>1, <2>1, <3>3, <3>4 DEF AInv
  <2> QED
    BY <2>2, <2>3
<1> QED
  BY <1>2, <1>3, <1>4

\* An acknowledge that was answered Ok is never taken back: not by any later
\* operation but a seek or a new subscription, not by failed saves, and not by
\* crashes.
THEOREM AcksSurvive == DSpec => []AcknowledgedForGood
<1>1. DInit => AInv
  BY DInvInit DEF DInit, AInv, AnswersOK, AcknowledgedForGood, AcknowledgedOnDisk
<1>2. AInv => AcknowledgedForGood
  BY DEF AInv
<1> QED
  BY <1>1, <1>2, AInvStep, PTL DEF DSpec

-----------------------------------------------------------------------------
(* Logs only grow.                                                         *)

LEMMA PrefixPointwise ==
  ASSUME NEW S, NEW u \in Seq(S), NEW v \in Seq(S)
  PROVE  IsPrefix(u, v) <=> /\ Len(u) <= Len(v)
                            /\ \A i \in 1 .. Len(u) : u[i] = v[i]
<1>1. Len(u) \in Nat /\ Len(v) \in Nat
  OBVIOUS
<1>2. SubSeq(u, 1, Len(u)) = u
  BY SubSeqFull
<1>3. ASSUME Len(u) <= Len(v)
      PROVE  /\ SubSeq(v, 1, Len(u)) \in Seq(S) /\ Len(SubSeq(v, 1, Len(u))) = Len(u)
             /\ \A i \in 1 .. Len(u) : SubSeq(v, 1, Len(u))[i] = v[i]
  <2>1. \A i \in 1 .. Len(u) : v[i] \in S
    BY <1>1, <1>3
  <2>2. /\ SubSeq(v, 1, Len(u)) \in Seq(S)
        /\ Len(SubSeq(v, 1, Len(u))) = IF 1 <= Len(u) THEN Len(u) - 1 + 1 ELSE 0
        /\ \A i \in 1 .. Len(u) - 1 + 1 : SubSeq(v, 1, Len(u))[i] = v[1 + i - 1]
    BY <1>1, <2>1, SubSeqProperties
  <2> QED
    BY <1>1, <2>2
<1>4. ASSUME NEW w \in Seq(S), Len(w) = Len(u)
      PROVE  u = w <=> \A i \in 1 .. Len(u) : u[i] = w[i]
  BY <1>1, <1>4
<1> QED
  BY <1>2, <1>3, <1>4 DEF IsPrefix

LEMMA PrefixReflexive ==
  ASSUME NEW S, NEW u \in Seq(S)
  PROVE  IsPrefix(u, u)
BY DEF IsPrefix

LEMMA PrefixTransitive ==
  ASSUME NEW S, NEW u \in Seq(S), NEW v \in Seq(S), NEW w \in Seq(S),
         IsPrefix(u, v), IsPrefix(v, w)
  PROVE  IsPrefix(u, w)
<1>1. /\ Len(u) \in Nat /\ Len(v) \in Nat /\ Len(w) \in Nat
      /\ Len(u) <= Len(v) /\ \A i \in 1 .. Len(u) : u[i] = v[i]
      /\ Len(v) <= Len(w) /\ \A i \in 1 .. Len(v) : v[i] = w[i]
  BY PrefixPointwise
<1>2. Len(u) <= Len(w) /\ \A i \in 1 .. Len(u) : u[i] = w[i]
  BY <1>1
<1> QED
  BY <1>2, PrefixPointwise

LEMMA PrefixAppend ==
  ASSUME NEW S, NEW u \in Seq(S), NEW e \in S
  PROVE  IsPrefix(u, Append(u, e))
<1>1. /\ Append(u, e) \in Seq(S) /\ Len(Append(u, e)) = Len(u) + 1
      /\ \A i \in 1 .. Len(u) : Append(u, e)[i] = u[i]
  BY AppendProperties
<1>2. Len(u) \in Nat
  OBVIOUS
<1>3. Len(u) <= Len(Append(u, e))
  BY <1>1, <1>2
<1> QED
  BY <1>1, <1>3, PrefixPointwise

\* A log is never cut or rewritten while its topic is there, and no operation
\* but the administration of topics takes one away.
LogsKept ==
  /\ \A t \in DOMAIN topic \cap DOMAIN topic' : IsPrefix(topic[t].log, topic'[t].log)
  /\ TopicAdmin \/ DOMAIN topic' = DOMAIN topic

LEMMA LogSeq ==
  ASSUME TopicsOK
  PROVE  \A t \in DOMAIN topic : topic[t].log \in Seq(Message)
BY DEF TopicsOK, TopicState

LEMMA SameLogs ==
  ASSUME TopicsOK, UNCHANGED topic
  PROVE  LogsKept
BY LogSeq, PrefixReflexive DEF LogsKept

LEMMA ReplacedLog ==
  ASSUME TopicsOK, NEW d \in DOMAIN topic, NEW T, topic' = [topic EXCEPT ![d] = T],
         IsPrefix(topic[d].log, T.log)
  PROVE  LogsKept
<1>1. DOMAIN topic' = DOMAIN topic
  BY DEF TopicsOK
<1>2. ASSUME NEW t \in DOMAIN topic
      PROVE  IsPrefix(topic[t].log, topic'[t].log)
  BY LogSeq, PrefixReflexive
<1> QED
  BY <1>1, <1>2 DEF LogsKept

LEMMA PublishLogs ==
  ASSUME Inv, PublishStep
  PROVE  LogsKept
<1> DEFINE T == topic[lock.topic]
           m == Head(lock.todo)
           U == IF m.id \in T.seen THEN T ELSE Appended(T, m)
<1>1. /\ lock.topic \in DOMAIN topic /\ T \in TopicState /\ T.log \in Seq(Message)
      /\ lock.todo \in Seq(NewMessage) \ {<<>>}
  BY LockShape DEF Inv, LockOK, TopicsOK, TopicState, PublishStep
<1>2. m \in NewMessage
  BY <1>1, HeadTailProperties, EmptySeq
<1>3. topic' = [topic EXCEPT ![lock.topic] = U]
  BY DEF PublishStep
<1>4. AsMessage(m, NoOrigin) \in Message
  BY <1>2 DEF AsMessage, Message, NewMessage
<1> HIDE DEF T, m
<1>5. Appended(T, m).log = Append(T.log, AsMessage(m, NoOrigin))
  BY <1>1 DEF Appended, TopicState
<1>6. IsPrefix(T.log, U.log)
  BY <1>1, <1>4, <1>5, PrefixReflexive, PrefixAppend
<1> HIDE DEF U
<1> QED
  BY <1>1, <1>3, <1>6, ReplacedLog DEF T, Inv

LEMMA DeadLetterLogs ==
  ASSUME Inv, PullDeadLetter
  PROVE  LogsKept
<1>1. PICK d \in DOMAIN topic :
        \E copy : topic' = [topic EXCEPT ![d].log = Append(@, copy)]
  BY DEF PullDeadLetter, Exhausted
<1>2. PICK copy : topic' = [topic EXCEPT ![d].log = Append(@, copy)]
  BY <1>1
<1>3. topic[d] \in TopicState /\ topic[d].log \in Seq(Message)
  BY DEF Inv, TopicsOK, TopicState
<1>4. /\ topic' = [topic EXCEPT ![d] = [topic[d] EXCEPT !.log = Append(@, copy)]]
      /\ [topic[d] EXCEPT !.log = Append(@, copy)].log = Append(topic[d].log, copy)
  BY <1>2, <1>3 DEF TopicState
<1>5. Append(topic[d].log, copy) \in Seq(Message)
  <2>1. topic'[d].log = Append(topic[d].log, copy)
    BY <1>4 DEF Inv, TopicsOK
  <2>2. d \in DOMAIN topic' /\ TopicsOK'
    <3>1. Inv'
      BY InvStep DEF Next, DataPlane, LockedStep, PullStep
    <3> QED
      BY <1>4, <3>1 DEF Inv, TopicsOK
  <2> QED
    BY <2>1, <2>2 DEF TopicsOK, TopicState
<1>6. IsPrefix(topic[d].log, Append(topic[d].log, copy))
  <2>1. \A i \in 1 .. Len(topic[d].log) : Append(topic[d].log, copy)[i] = topic[d].log[i]
    BY <1>3
  <2>2. Len(topic[d].log) <= Len(Append(topic[d].log, copy))
    BY <1>3
  <2> QED
    BY <1>3, <1>5, <2>1, <2>2, PrefixPointwise
<1> QED
  BY <1>4, <1>6, ReplacedLog DEF Inv

LEMMA TopicAdminLogs ==
  ASSUME Inv, TopicAdmin
  PROVE  LogsKept
<1>1. ASSUME NEW t \in Topics, NEW c \in Schemas \cup {NoSchema}, CreateTopic(t, c)
      PROVE  LogsKept
  BY <1>1, LogSeq, PrefixReflexive DEF CreateTopic, Put, LogsKept, Inv
<1>2. ASSUME NEW t \in Topics, NEW c \in Schemas \cup {NoSchema}, UpdateTopic(t, c)
      PROVE  LogsKept
  <2>1. t \in DOMAIN topic /\ topic' = [topic EXCEPT ![t] = [topic[t] EXCEPT !.schema = c]]
    BY <1>2 DEF UpdateTopic
  <2>2. [topic[t] EXCEPT !.schema = c].log = topic[t].log
    BY <2>1 DEF Inv, TopicsOK, TopicState
  <2> QED
    BY <2>1, <2>2, LogSeq, PrefixReflexive, ReplacedLog DEF Inv
<1>3. ASSUME NEW t \in Topics, DeleteTopic(t)
      PROVE  LogsKept
  BY <1>3, LogSeq, PrefixReflexive DEF DeleteTopic, Drop, LogsKept, Inv
<1>4. CASE \/ \E c \in Schemas, accepted \in SUBSET Data : CreateSchema(c, accepted)
           \/ \E c \in Schemas : DeleteSchema(c)
  BY <1>4, SameLogs DEF CreateSchema, DeleteSchema, Inv
<1> QED
  BY <1>1, <1>2, <1>3, <1>4 DEF TopicAdmin

LEMMA NextLogs ==
  ASSUME Inv, Next
  PROVE  LogsKept
<1>1. CASE UNCHANGED topic
  BY <1>1, SameLogs DEF Inv
<1>2. CASE ~UNCHANGED topic
  <2>1. CASE DataPlane
    BY <1>2, <2>1, PublishLogs, DeadLetterLogs
       DEF DataPlane, Publish, PublishBegin, Consume, PullBegin, AckBegin, NackBegin,
           ExtendDeadline, LockedStep, PullStep, SweepExpired, SweepEnd, PullPass,
           PullFilterOut, PullDeliver, PullPanic, PullEnd, AckStep, AckExpired,
           NackStep, Tick
  <2>2. CASE Seek \/ SubscriptionAdmin
    BY <1>2, <2>2 DEF Seek, SeekToTime, SeekToSnapshot, SubscriptionAdmin,
       CreateSubscription, UpdateSubscription, DeleteSubscription, CreateSnapshot,
       DeleteSnapshot
  <2> QED
    BY <2>1, <2>2, TopicAdminLogs DEF Next
<1> QED
  BY <1>1, <1>2

-----------------------------------------------------------------------------
(* Publishes that were answered Ok, in memory and on disk.                 *)

StoredOnDisk ==
  \A t \in Topics :
    stored[t] # <<>> => t \in DOMAIN disk.topic /\ IsPrefix(stored[t], disk.topic[t].log)

LInv == /\ DInv /\ stored \in [Topics -> Seq(Message)]
        /\ StoredForGood /\ StoredOnDisk

\* What a step of the broker leaves of the logs that were answered for.
LEMMA LogsStep ==
  ASSUME LInv, Next, NEW t \in Topics, t \in DOMAIN topic', stored[t] # <<>>
  PROVE  IsPrefix(stored[t], topic'[t].log)
<1>1. t \in DOMAIN topic /\ IsPrefix(stored[t], topic[t].log)
  BY DEF LInv, StoredForGood
<1>2. IsPrefix(topic[t].log, topic'[t].log)
  BY <1>1, NextLogs DEF LInv, DInv, LogsKept
<1>3. topic[t].log \in Seq(Message) /\ stored[t] \in Seq(Message)
  BY <1>1, LogSeq DEF LInv, DInv, Inv
<1>4. topic'[t].log \in Seq(Message)
  <2>1. Inv'
    BY InvStep DEF LInv, DInv
  <2> QED
    BY <2>1 DEF Inv, TopicsOK, TopicState
<1> QED
  BY <1>1, <1>2, <1>3, <1>4, PrefixTransitive

\* Each way an operation of the durable broker ends sets stored to logs that
\* memory holds.
LEMMA StoredStep ==
  ASSUME LInv, DNext, ~Crash
  PROVE  /\ stored' \in [Topics -> Seq(Message)]
         /\ StoredForGood'
         /\ disk' = Image' \/ \A t \in Topics : stored'[t] \in {stored[t], <<>>}
<1>1. Next
  BY DurableStep
<1>2. TopicsOK'
  BY <1>1, InvStep DEF LInv, DInv, Inv
<1>3. \A t \in DOMAIN topic' : topic'[t].log \in Seq(Message)
  BY <1>2 DEF TopicsOK, TopicState
<1>4. CASE stored' = Expected
  <2>1. \A t \in Topics : stored'[t] = IF t \in DOMAIN topic' THEN stored[t] ELSE <<>>
    BY <1>4 DEF Expected
  <2>2. stored' \in [Topics -> Seq(Message)]
    BY <1>4, EmptySeq DEF Expected, LInv
  <2>3. StoredForGood'
    BY <1>1, <2>1, LogsStep DEF StoredForGood
  <2> QED
    BY <2>1, <2>2, <2>3
<1>5. CASE UNCHANGED stored /\ DOMAIN topic' = DOMAIN topic
  BY <1>1, <1>5, LogsStep DEF LInv, StoredForGood
<1>6. CASE Saved /\ lock.op = "publish"
  <2>1. PublishStep /\ disk' = Image'
    BY <1>6, AnswerOps DEF Saved, Persist
  <2>2. lock.topic \in DOMAIN topic' /\ lock.topic \in Topics
    BY <1>6, <2>1, <1>2 DEF LInv, DInv, Inv, LockOK, TopicsOK, PublishStep
  <2>3. stored' = [stored EXCEPT ![lock.topic] = topic'[lock.topic].log]
    BY <1>6 DEF Saved, AnswerOk
  <2>4. stored' \in [Topics -> Seq(Message)]
    BY <1>3, <2>2, <2>3 DEF LInv
  <2>5. DOMAIN topic' = DOMAIN topic
    BY <2>1 DEF PublishStep, LInv, DInv, Inv, TopicsOK
  <2>6. ASSUME NEW t \in Topics, stored'[t] # <<>>
        PROVE  t \in DOMAIN topic' /\ IsPrefix(stored'[t], topic'[t].log)
    <3>1. CASE t = lock.topic
      BY <1>3, <2>2, <2>3, <3>1, PrefixReflexive DEF LInv
    <3>2. CASE t # lock.topic
      <4>1. stored'[t] = stored[t] /\ t \in DOMAIN topic'
        BY <2>3, <2>5, <2>6, <3>2 DEF LInv, StoredForGood
      <4> QED
        BY <1>1, <2>6, <4>1, LogsStep
    <3> QED
      BY <3>1, <3>2
  <2> QED
    BY <2>1, <2>4, <2>6 DEF StoredForGood
<1>7. Working \/ DTick => UNCHANGED stored /\ DOMAIN topic' = DOMAIN topic
  <2>1. ASSUME Working \/ DTick
        PROVE  ~TopicAdmin \/ DOMAIN topic' = DOMAIN topic
    <3>1. TopicAdmin => lock' = Free \/ DOMAIN topic' = DOMAIN topic
      BY DEF TopicAdmin, CreateTopic, UpdateTopic, DeleteTopic, CreateSchema,
             DeleteSchema, Idle
    <3> QED
      BY <2>1, <3>1 DEF Working, DTick, Tick
  <2> QED
    BY <1>1, <2>1, NextLogs DEF Working, DTick, LInv, DInv, LogsKept
<1>8. SaveFails \/ Unsaved \/ (Saved /\ lock.op # "publish") => stored' = Expected
  BY DEF SaveFails, Unsaved, Saved, AnswerOk, AnswerError
<1> QED
  BY <1>4, <1>5, <1>6, <1>7, <1>8 DEF DNext, LInv

LEMMA LInvStep == LInv /\ [DNext]_dvars => LInv'
<1> SUFFICES ASSUME LInv, [DNext]_dvars PROVE LInv'
  OBVIOUS
<1>1. DInv'
  BY DInvStep DEF LInv
<1>2. CASE UNCHANGED dvars
  BY <1>1, <1>2 DEF dvars, vars, LInv, StoredForGood, StoredOnDisk
<1>3. CASE Crash
  BY <1>1, <1>3 DEF Crash, LInv, StoredForGood, StoredOnDisk
<1>4. CASE DNext /\ ~Crash
  <2>1. StoredForGood' /\ stored' \in [Topics -> Seq(Message)]
    BY <1>4, StoredStep
  <2>2. CASE disk' = Image'
    <3>1. disk'.topic = topic'
      BY <2>2 DEF Image
    <3> QED
      BY <1>1, <2>1, <3>1 DEF LInv, StoredForGood, StoredOnDisk
  <2>3. CASE disk' # Image'
    <3>1. \A t \in Topics : stored'[t] \in {stored[t], <<>>}
      BY <1>4, <2>3, StoredStep
    <3>2. disk'.topic = disk.topic
      BY <1>4, <2>3, DiskStep DEF LInv, DInv, Fields
    <3>3. StoredOnDisk'
      BY <3>1, <3>2 DEF LInv, StoredOnDisk
    <3> QED
      BY <1>1, <2>1, <3>3 DEF LInv
  <2> QED
    BY <2>2, <2>3
<1> QED
  BY <1>2, <1>3, <1>4

\* The messages of a publish that was answered Ok stay at their position until
\* their topic is deleted, through failed saves and crashes.
THEOREM PublishesSurvive == DSpec => []StoredForGood
<1>1. DInit => LInv
  BY DInvInit, EmptySeq DEF DInit, LInv, StoredForGood, StoredOnDisk
<1>2. LInv => StoredForGood
  BY DEF LInv
<1> QED
  BY <1>1, <1>2, LInvStep, PTL DEF DSpec

-----------------------------------------------------------------------------
(* Publish across crashes: the file knows the ids its logs hold.           *)

OInv == /\ DInv /\ TopicsOnce(topic) /\ TopicsOnce(disk.topic)
        /\ PublishValidated

LEMMA OInvStep == OInv /\ [DNext]_dvars => OInv'
<1> SUFFICES ASSUME OInv, [DNext]_dvars PROVE OInv'
  OBVIOUS
<1>1. DInv'
  BY DInvStep DEF OInv
<1>2. CASE Crash
  <2>1. topic' = disk.topic /\ disk' = disk /\ lock'.op # "publish"
    BY <1>2 DEF Crash, Free
  <2> QED
    BY <1>1, <2>1 DEF OInv, TopicsOnce, PublishValidated
<1>3. CASE [Next]_vars /\ (DNext \/ UNCHANGED dvars)
  <2>1. TopicsOnce(topic)' /\ PublishValidated'
    BY <1>3, OnceStep, ValidatedStep DEF OInv, DInv
  <2>2. disk'.topic = topic' \/ disk'.topic = disk.topic
    BY <1>3, DiskStep DEF Image, OInv, DInv, Fields, dvars
  <2> QED
    BY <1>1, <2>1, <2>2 DEF OInv, TopicsOnce
<1> QED
  BY <1>2, <1>3, DurableStep DEF dvars

LEMMA OInvInit == DInit => OInv
<1> SUFFICES ASSUME DInit PROVE OInv
  OBVIOUS
<1>1. topic = NoEntries /\ disk.topic = topic /\ lock = Free
  BY DEF DInit, Init, Image
<1> QED
  BY <1>1, DInvInit DEF OInv, TopicsOnce, NoEntries, PublishValidated, Free

LEMMA OInvAlways == DSpec => []OInv
<1> QED
  BY OInvInit, OInvStep, PTL DEF DSpec

\* A client that publishes again after an error or a crash, with the id it gave
\* before, finds its message stored once: no interleaving of publishes, failed
\* saves and restarts separates the ids a topic knows from those it holds.
THEOREM IdsStoredOnceAcrossCrashes == DSpec => []PublishedOnce
<1>1. OInv => PublishedOnce
  BY OnceIsPublishedOnce DEF OInv
<1> QED
  BY <1>1, OInvAlways, PTL

\* A crash in the middle of a batch leaves no unvalidated rest to append.
THEOREM BatchesConformAcrossCrashes == DSpec => []PublishValidated
<1>1. OInv => PublishValidated
  BY DEF OInv
<1> QED
  BY <1>1, OInvAlways, PTL

-----------------------------------------------------------------------------
(* Dead letters across crashes.                                            *)

CopyPlaces(T) == UNION {{<<t, i>> : i \in DOMAIN T[t].log} : t \in DOMAIN T}

\* DeadLettersKept of the topics T, the subscriptions S and their resets R.
DeadLettersIn(T, S, R) ==
  /\ \A c \in CopyPlaces(T) :
       LET o == T[c[1]].log[c[2]].origin
       IN  o # NoOrigin =>
             /\ o.life <= R[o.sub]
             /\ o.sub \in DOMAIN S /\ o.life = R[o.sub] => o.pos \in S[o.sub].acked
  /\ \A c, d \in CopyPlaces(T) :
       T[c[1]].log[c[2]].origin # NoOrigin
         /\ T[c[1]].log[c[2]].origin = T[d[1]].log[d[2]].origin => c = d

LEMMA DeadLettersHere ==
  /\ DeadLettersKept <=> DeadLettersIn(topic, sub, resets)
  /\ DeadLettersKept' <=> DeadLettersIn(topic', sub', resets')
BY DEF DeadLettersKept, CopiesSettled, SettledCopy, DeadLetteredOnce, Copies, OriginAt,
       DeadLettersIn, CopyPlaces

KInv == /\ DInv /\ DeadLettersKept
        /\ DeadLettersIn(disk.topic, disk.sub, disk.resets)

LEMMA KInvStep == KInv /\ [DNext]_dvars => KInv'
<1> SUFFICES ASSUME KInv, [DNext]_dvars PROVE KInv'
  OBVIOUS
<1>1. DInv'
  BY DInvStep DEF KInv
<1>2. CASE Crash
  <2>1. /\ topic' = disk.topic /\ sub' = disk.sub /\ resets' = disk.resets
        /\ disk' = disk
    BY <1>2 DEF Crash
  <2> QED
    BY <1>1, <2>1, DeadLettersHere DEF KInv
<1>3. CASE [Next]_vars /\ (DNext \/ UNCHANGED dvars)
  <2>1. DeadLettersKept'
    BY <1>3, CopiesSettledStep, DeadLetteredOnceStep DEF KInv, DInv, DeadLettersKept
  <2>2. CASE disk' = Image'
    BY <1>1, <2>1, <2>2, DeadLettersHere DEF KInv, Image
  <2>3. CASE UNCHANGED disk
    BY <1>1, <2>1, <2>3 DEF KInv
  <2>4. CASE disk' = [disk EXCEPT !.sub = [s \in DOMAIN disk.sub |-> Aged(disk.sub[s])]]
    <3>1. /\ disk'.topic = disk.topic /\ disk'.resets = disk.resets
          /\ disk'.sub = [s \in DOMAIN disk.sub |-> Aged(disk.sub[s])]
      BY <2>4 DEF KInv, DInv, Fields
    <3>2. /\ DOMAIN disk'.sub = DOMAIN disk.sub
          /\ \A s \in DOMAIN disk.sub : disk'.sub[s].acked = disk.sub[s].acked
      BY <3>1 DEF Aged, KInv, DInv, DiskOK, SubscriptionState
    <3>3. DeadLettersIn(disk.topic, disk'.sub, disk.resets)
      BY <3>2 DEF KInv, DeadLettersIn
    <3> QED
      BY <1>1, <2>1, <3>1, <3>3 DEF KInv
  <2> QED
    BY <1>3, <2>2, <2>3, <2>4, DiskStep DEF dvars
<1> QED
  BY <1>2, <1>3, DurableStep DEF dvars

\* A crash between the copy and the ack of the original, or one that forgets
\* both, leaves no message with two copies of one life of its subscription.
THEOREM OneDeadLetterAcrossCrashes == DSpec => []DeadLetteredOnce
<1>1. DInit => KInv
  <2> SUFFICES ASSUME DInit PROVE KInv
    OBVIOUS
  <2>1. topic = NoEntries /\ disk = Image
    BY DEF DInit, Init
  <2>2. DeadLettersKept
    BY <2>1 DEF DeadLettersKept, CopiesSettled, DeadLetteredOnce, Copies, NoEntries
  <2> QED
    BY <2>1, <2>2, DInvInit, DeadLettersHere DEF KInv, Image
<1>2. KInv => DeadLetteredOnce
  BY DEF KInv, DeadLettersKept
<1> QED
  BY <1>1, <1>2, KInvStep, PTL DEF DSpec
=============================================================================

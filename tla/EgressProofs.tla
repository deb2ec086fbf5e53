---------------------------- MODULE EgressProofs ----------------------------
(***************************************************************************)
(* What the gateway's own consumers can rely on.                           *)
(*                                                                         *)
(* A task holds ack ids that a pull returned.  What it believes of them is *)
(* right as long as nobody else ends the leases they name, so the          *)
(* invariants relate the ids in a task's hands to the leases of the broker *)
(* and, while the task's own call is under way, to the locals of that call *)
(* behind the lock.  What the broker's steps do to leases is taken from    *)
(* DeliveryProofs.                                                         *)
(***************************************************************************)
EXTENDS DeliveryProofs, PushDispatcher, StreamingPull, FiniteSetTheorems

\* Positions a subscription will not deliver again in this life.
Done(S) == S.acked \cup S.lost

CallTypes(w) ==
  /\ DOMAIN call = Tasks /\ call[w] \in Call
  /\ owner \in {Nobody, w}
  /\ owner = w <=> call[w].status = "running"
  /\ lock = Free => owner = Nobody
  /\ call[w].status = "none" => call[w].got = <<>>

-----------------------------------------------------------------------------
(* The push dispatcher: its invariant.                                     *)

Target == [sub : Subs, endpoint : Configs]

Resting == [pc : {"off", "asleep", "visiting"}, todo : SUBSET Target]

Working == [pc : {"pulling", "posting", "accepted", "acking"},
            todo : SUBSET Target, at : Target, got : Seq(Nat \X Nat)]

PushTypes ==
  /\ endpoint \in [Subs -> Configs]
  /\ push \in Resting \cup Working
  /\ push.pc \in {"posting", "accepted", "acking"} => push.got # <<>>
  /\ accepted \subseteq [sub : Subs, pos : Nat]
  /\ call[Dispatcher].status # "none" <=> push.pc \in {"pulling", "acking"}

\* The dispatcher's call is what the lock's holder carries out; other holders
\* work on other subscriptions.
PushLock ==
  /\ owner = Dispatcher /\ push.pc = "pulling" =>
       /\ lock.op \in {"sweep", "pull"} /\ lock.sub = push.at.sub
       /\ lock.op = "sweep" => call[Dispatcher].got = <<>>
  /\ owner = Dispatcher /\ push.pc = "acking" =>
       lock.op = "ack" /\ lock.sub = push.at.sub /\ lock.todo = <<Head(push.got)>>
  /\ owner = Nobody /\ lock.op \in {"sweep", "pull", "ack", "nack"} =>
       Unpushed(lock.sub)

\* The ack ids of the batch that are not dealt with, and which of them are not
\* POSTed yet.
Hand == CASE push.pc = "pulling" -> call[Dispatcher].got
          [] push.pc \in {"posting", "accepted", "acking"} -> push.got
          [] OTHER -> <<>>

Pending == IF push.pc \in {"accepted", "acking"} THEN Tail(push.got) ELSE Hand

\* An accepted message whose ack has not been carried out.
Confirming == push.pc = "accepted" \/ (push.pc = "acking" /\ owner = Dispatcher)

Owed == IF Confirming THEN Hand ELSE Pending

DistinctPositions(q) == \A i, j \in DOMAIN q : q[i][1] = q[j][1] => i = j

\* They name leases, of as many messages, that no endpoint has accepted.
HandHeld ==
  /\ DistinctPositions(Hand)
  /\ Hand # <<>> => resets[push.at.sub] > 0
  /\ Hand # <<>> /\ push.at.sub \in DOMAIN sub =>
       ToSet(Owed) \subseteq Ids(sub[push.at.sub])
  /\ \A id \in ToSet(Pending) : [sub |-> push.at.sub, pos |-> id[1]] \notin accepted
  /\ push.pc \in {"accepted", "acking"} => Posted \in accepted

AcceptedDone ==
  \A x \in accepted :
    /\ resets[x.sub] > 0
    /\ x.sub \in DOMAIN sub =>
         x.pos \in Done(sub[x.sub]) \/ (Confirming /\ x = Posted)

PInv ==
  /\ Inv /\ CallTypes(Dispatcher) /\ PushTypes /\ PushLock /\ HandHeld /\ AcceptedDone
  /\ \A s \in DOMAIN sub : resets[s] > 0

-----------------------------------------------------------------------------
(* Sequences of ack ids.                                                   *)

\* What a step of a pull hands out, as a sequence: nothing, or one id.
LEMMA SetToSeqSmall ==
  /\ SetToSeq({}) = <<>>
  /\ \A x : SetToSeq({x}) = <<x>>
<1>1. SetToSeq({}) = <<>>
  <2>1. Cardinality({}) = 0
    BY FS_EmptySet
  <2>2. <<>> \in [1 .. 0 -> {}] /\ IsInjective(<<>>)
    BY DEF IsInjective
  <2>3. \A f \in [1 .. 0 -> {}] : f = <<>>
    OBVIOUS
  <2> QED
    BY <2>1, <2>2, <2>3 DEF SetToSeq
<1>2. ASSUME NEW x PROVE SetToSeq({x}) = <<x>>
  <2>1. Cardinality({x}) = 1
    BY FS_Singleton
  <2>2. <<x>> \in [1 .. 1 -> {x}] /\ IsInjective(<<x>>)
    BY DEF IsInjective
  <2>3. \A f \in [1 .. 1 -> {x}] : f = <<x>>
    OBVIOUS
  <2> QED
    BY <2>1, <2>2, <2>3 DEF SetToSeq
<1> QED
  BY <1>1, <1>2

\* The rest of a batch.
LEMMA TailParts ==
  ASSUME NEW T, NEW q \in Seq(T), q # <<>>
  PROVE  /\ Head(q) \in T /\ Tail(q) \in Seq(T)
         /\ ToSet(q) = {Head(q)} \cup ToSet(Tail(q))
         /\ Head(q) \in ToSet(q) /\ ToSet(Tail(q)) \subseteq ToSet(q)
         /\ Len(q) = 1 => ToSet(Tail(q)) = {}
         /\ DistinctPositions(q) =>
              /\ DistinctPositions(Tail(q))
              /\ \A id \in ToSet(Tail(q)) : id[1] # Head(q)[1]
<1> DEFINE n == Len(q)
           r == Tail(q)
<1>1. /\ n \in Nat /\ n >= 1 /\ DOMAIN q = 1 .. n
      /\ Head(q) = q[1] /\ q[1] \in T
      /\ r \in Seq(T) /\ DOMAIN r = 1 .. n - 1
      /\ \A i \in 1 .. n - 1 : r[i] = q[i + 1]
  OBVIOUS
<1> HIDE DEF n, r
<1>2. ToSet(r) = {q[i] : i \in 2 .. n}
  <2>1. ASSUME NEW i \in 2 .. n PROVE i - 1 \in DOMAIN r /\ r[i - 1] = q[i]
    BY <1>1
  <2>2. ASSUME NEW i \in DOMAIN r PROVE i + 1 \in 2 .. n /\ q[i + 1] = r[i]
    BY <1>1
  <2> QED
    BY <2>1, <2>2 DEF ToSet
<1>3. ToSet(q) = {q[1]} \cup {q[i] : i \in 2 .. n}
  <2>1. 1 .. n = {1} \cup 2 .. n
    BY <1>1
  <2> QED
    BY <1>1, <2>1 DEF ToSet
<1>4. ASSUME DistinctPositions(q)
      PROVE  /\ DistinctPositions(r)
             /\ \A id \in ToSet(r) : id[1] # Head(q)[1]
  <2>1. ASSUME NEW i \in DOMAIN r, NEW j \in DOMAIN r, r[i][1] = r[j][1]
        PROVE  i = j
    <3>1. i + 1 \in DOMAIN q /\ j + 1 \in DOMAIN q /\ q[i + 1][1] = q[j + 1][1]
      BY <1>1, <2>1
    <3>2. i + 1 = j + 1
      BY <1>4, <3>1 DEF DistinctPositions
    <3> QED
      BY <1>1, <3>2
  <2>2. ASSUME NEW i \in 2 .. n PROVE q[i][1] # q[1][1]
    <3>1. i \in DOMAIN q /\ 1 \in DOMAIN q /\ i # 1
      BY <1>1
    <3> QED
      BY <1>4, <3>1 DEF DistinctPositions
  <2> QED
    BY <1>1, <1>2, <2>1, <2>2 DEF DistinctPositions
<1>5. n = 1 => ToSet(r) = {}
  BY <1>1 DEF ToSet
<1> QED
  BY <1>1, <1>2, <1>3, <1>4, <1>5 DEF r, n

\* A batch that gets one more id.
LEMMA OneMoreId ==
  ASSUME NEW T, NEW q \in Seq(T), NEW id \in T
  PROVE  /\ q \o <<>> = q
         /\ q \o <<id>> \in Seq(T) /\ q \o <<id>> # <<>>
         /\ ToSet(q \o <<id>>) = ToSet(q) \cup {id}
         /\ DistinctPositions(q) /\ (\A x \in ToSet(q) : x[1] # id[1]) =>
              DistinctPositions(q \o <<id>>)
<1> DEFINE n == Len(q)
           r == q \o <<id>>
<1>1. /\ n \in Nat /\ DOMAIN q = 1 .. n /\ q \o <<>> = q
      /\ r \in Seq(T) /\ Len(r) = n + 1 /\ DOMAIN r = 1 .. n + 1
      /\ \A i \in 1 .. n : r[i] = q[i]
      /\ r[n + 1] = id
  OBVIOUS
<1> HIDE DEF n, r
<1>2. 1 .. n + 1 = 1 .. n \cup {n + 1}
  BY <1>1
<1>3. ToSet(r) = ToSet(q) \cup {id}
  BY <1>1, <1>2 DEF ToSet
<1>4. ASSUME DistinctPositions(q), \A x \in ToSet(q) : x[1] # id[1],
             NEW i \in DOMAIN r, NEW j \in DOMAIN r, r[i][1] = r[j][1]
      PROVE  i = j
  <2>1. \A m \in 1 .. n : q[m] \in ToSet(q)
    BY <1>1 DEF ToSet
  <2>2. CASE i \in 1 .. n /\ j \in 1 .. n
    BY <1>1, <1>4, <2>2 DEF DistinctPositions
  <2>3. CASE i = n + 1 \/ j = n + 1
    BY <1>1, <1>2, <1>4, <2>1, <2>3
  <2> QED
    BY <1>1, <1>2, <2>2, <2>3
<1>5. r # <<>>
  BY <1>1
<1> QED
  BY <1>1, <1>3, <1>4, <1>5 DEF r, DistinctPositions

-----------------------------------------------------------------------------
(* What the steps under the lock do to leases.                             *)

\* What a pull takes is neither leased nor done, and it changes neither.
LEMMA TakenFresh ==
  ASSUME Inv, Takeable
  PROVE  LET S == sub[lock.sub]
             R == Taken.rest
             p == Taken.pos
         IN  /\ lock.sub \in DOMAIN sub /\ R \in SubscriptionState /\ p \in Position
             /\ R.acked = S.acked /\ R.lost = S.lost /\ R.leases = S.leases
             /\ p \notin Leased(S) \cup Done(S)
<1> DEFINE S == sub[lock.sub]
           R == Taken.rest
           p == Taken.pos
<1>1. lock.sub \in DOMAIN sub /\ S \in SubscriptionState
  BY PullContext DEF Takeable
<1>2. InHand(R, p)
  BY TakenInHand
<1>3. R.acked = S.acked /\ R.lost = S.lost /\ R.leases = S.leases
  BY <1>1 DEF Taken, Take, SubscriptionState
<1> HIDE DEF S, R, p
<1>4. PICK P : p \notin P /\ Sound(R.acked, R.leases, R.retry, R.lost, P)
  BY <1>2 DEF InHand
<1>5. p \notin Leased(R) \cup Done(R)
  BY <1>4 DEF Sound, Apart, Held, Leased, Done
<1> QED
  BY <1>1, <1>2, <1>3, <1>5 DEF InHand, Leased, Done, S, R, p

\* The loop of a pull puts the subscription back with what it took leased,
\* done, or queued again.
PutsBack(T) ==
  LET S == sub[lock.sub]
  IN  /\ lock.op = "pull" /\ lock.sub \in DOMAIN sub
      /\ sub' = [sub EXCEPT ![lock.sub] = T] /\ UNCHANGED resets
      /\ lock' # Free /\ lock'.op = "pull" /\ lock'.sub = lock.sub
      /\ Done(S) \subseteq Done(T)

LEMMA PullPuts ==
  ASSUME Inv, PullPass \/ PullDeadLetter \/ PullFilterOut \/ PullDeliver
  PROVE  \E T : /\ PutsBack(T)
                /\ \/ T.leases = sub[lock.sub].leases
                   \/ \E l \in Lease : /\ T.leases = sub[lock.sub].leases \cup {l}
                                       /\ l.pos \notin Leased(sub[lock.sub])
                                                    \cup Done(sub[lock.sub])
<1> DEFINE S == sub[lock.sub]
           R == Taken.rest
           p == Taken.pos
<1>1. Takeable /\ lock.op = "pull"
  BY DEF PullPass, PullDeadLetter, PullFilterOut, PullDeliver, Takeable
<1>2. /\ lock.sub \in DOMAIN sub /\ R \in SubscriptionState /\ p \in Position
      /\ R.acked = S.acked /\ R.lost = S.lost /\ R.leases = S.leases
      /\ p \notin Leased(S) \cup Done(S)
  BY <1>1, TakenFresh
<1>3. lock \in [op : {"pull"}, sub : Subs, room : Nat, len : 0 .. MaxLen,
                skipped : SUBSET Position]
  BY <1>1, LockShape DEF Inv
<1>4. /\ UNCHANGED resets
      /\ lock' # Free /\ lock'.op = "pull" /\ lock'.sub = lock.sub
  <2>1. CASE PullPass
    <3>1. UNCHANGED resets /\ \E x : lock' = [lock EXCEPT !.skipped = x]
      BY <2>1 DEF PullPass
    <3> QED
      BY <1>3, <3>1 DEF Free
  <2>2. CASE PullDeadLetter
    <3>1. UNCHANGED <<resets, lock>>
      BY <2>2 DEF PullDeadLetter
    <3> QED
      BY <1>3, <3>1 DEF Free
  <2>3. CASE PullFilterOut
    <3>1. UNCHANGED <<resets, lock>>
      BY <2>3 DEF PullFilterOut
    <3> QED
      BY <1>3, <3>1 DEF Free
  <2>4. CASE PullDeliver
    <3>1. UNCHANGED resets /\ lock' = [lock EXCEPT !.room = @ - 1]
      BY <2>4 DEF PullDeliver
    <3> QED
      BY <1>3, <3>1 DEF Free
  <2> QED
    BY <2>1, <2>2, <2>3, <2>4
<1>5. CASE PullPass
  <2>1. InHand(R, p)
    BY <1>1, TakenInHand
  <2>2. sub' = [sub EXCEPT ![lock.sub] = Postpone(R, p)]
    BY <1>5, <2>1, InHandOutstanding DEF PullPass
  <2> HIDE DEF R, p
  <2>3. /\ Postpone(R, p).leases = R.leases /\ Postpone(R, p).acked = R.acked
        /\ Postpone(R, p).lost = R.lost
    BY <1>2 DEF Postpone, SubscriptionState
  <2> QED
    BY <1>1, <1>2, <1>4, <2>2, <2>3 DEF PutsBack, Done
<1>6. CASE PullDeadLetter \/ PullFilterOut
  <2>1. sub' = [sub EXCEPT ![lock.sub] = Settle(R, p)]
    BY <1>6 DEF PullDeadLetter, PullFilterOut
  <2> HIDE DEF R, p
  <2>2. CountAttempt(R, p) \in SubscriptionState
        /\ CountAttempt(R, p).leases = R.leases /\ CountAttempt(R, p).lost = R.lost
        /\ CountAttempt(R, p).acked = R.acked
    BY <1>2, CountAttemptType
  <2>3. /\ Settle(R, p).leases = R.leases /\ R.acked \subseteq Settle(R, p).acked
        /\ Settle(R, p).lost = R.lost
    BY <2>2 DEF Settle, SubscriptionState
  <2> QED
    BY <1>1, <1>2, <1>4, <2>1, <2>3 DEF PutsBack, Done
<1>7. CASE PullDeliver
  <2> DEFINE l == [pos |-> p, attempt |-> NextAttempt(R, p),
                   left |-> NormalizeAckDeadline(R.spec.deadline)]
  <2>1. sub' = [sub EXCEPT ![lock.sub] = Deliver(R, p)]
    BY <1>7 DEF PullDeliver
  <2> HIDE DEF R, p
  <2>2. CountAttempt(R, p) \in SubscriptionState
        /\ CountAttempt(R, p).leases = R.leases /\ CountAttempt(R, p).lost = R.lost
        /\ CountAttempt(R, p).acked = R.acked
    BY <1>2, CountAttemptType
  <2>3. /\ Deliver(R, p).leases = R.leases \cup {l} /\ Deliver(R, p).acked = R.acked
        /\ Deliver(R, p).lost = R.lost
    BY <2>2 DEF Deliver, SubscriptionState
  <2>4. R.spec.deadline \in Nat
    BY <1>2 DEF SubscriptionState, SubscriptionSpec
  <2>5. l \in Lease /\ l.pos = p
    BY <1>2, <2>4, AttemptType, DeadlineType DEF Lease
  <2> HIDE DEF l
  <2> QED
    BY <1>1, <1>2, <1>4, <2>1, <2>3, <2>5 DEF PutsBack, Done
<1> QED
  BY <1>5, <1>6, <1>7

\* A pull hands out one new id, or nothing.
Hands(id) ==
  /\ lock.op = "pull" /\ lock.sub \in DOMAIN sub' /\ id \in Nat \X Nat
  /\ id[1] \notin Leased(sub[lock.sub]) \cup Done(sub[lock.sub])
  /\ Ids(sub'[lock.sub]) = Ids(sub[lock.sub]) \cup {id}
  /\ NewIds = <<id>>

HandsNothing ==
  /\ NewIds = <<>>
  /\ lock.sub \in DOMAIN sub' => Ids(sub'[lock.sub]) \subseteq Ids(sub[lock.sub])
  /\ lock.op = "pull" /\ lock.sub \in DOMAIN sub' =>
       Ids(sub'[lock.sub]) = Ids(sub[lock.sub])

LEMMA PullHands ==
  ASSUME Inv, PullStep
  PROVE  HandsNothing \/ \E id : Hands(id)
<1> DEFINE S == sub[lock.sub]
<1>1. CASE SweepExpired \/ SweepEnd
  <2>1. lock.op = "sweep" /\ lock.sub \in DOMAIN sub /\ S \in SubscriptionState
    BY <1>1, PullContext DEF SweepExpired, SweepEnd
  <2>2. sub' = sub \/ \E l \in S.leases : sub' = [sub EXCEPT ![lock.sub] = Expire(S, l)]
    BY <1>1 DEF SweepExpired, SweepEnd
  <2>3. \A l : Expire(S, l).leases = S.leases \ {l}
    BY <2>1 DEF Expire, SubscriptionState
  <2>4. lock.sub \in DOMAIN sub' /\ sub'[lock.sub].leases \subseteq S.leases
    BY <2>1, <2>2, <2>3
  <2> QED
    BY <2>1, <2>4 DEF HandsNothing, NewIds, Ids
<1>2. CASE PullEnd \/ PullPanic
  <2>1. lock.sub \in DOMAIN sub' => sub' = sub
    BY <1>2 DEF PullEnd, PullPanic, Drop
  <2>2. lock.sub \in DOMAIN sub' => sub'[lock.sub].leases \ S.leases = {}
    BY <2>1
  <2> QED
    BY <2>1, <2>2, SetToSeqSmall DEF HandsNothing, NewIds
<1>3. CASE PullPass \/ PullDeadLetter \/ PullFilterOut \/ PullDeliver
  <2>1. PICK T : /\ PutsBack(T)
                 /\ \/ T.leases = S.leases
                    \/ \E l \in Lease : /\ T.leases = S.leases \cup {l}
                                        /\ l.pos \notin Leased(S) \cup Done(S)
    BY <1>3, PullPuts
  <2>2. lock.op = "pull" /\ lock.sub \in DOMAIN sub' /\ sub'[lock.sub] = T
    BY <2>1 DEF PutsBack
  <2>3. CASE T.leases = S.leases
    BY <2>2, <2>3, SetToSeqSmall DEF HandsNothing, NewIds, Ids
  <2>4. ASSUME NEW l \in Lease, T.leases = S.leases \cup {l},
               l.pos \notin Leased(S) \cup Done(S)
        PROVE  Hands(AckId(l))
    <3>1. l \notin S.leases
      BY <2>4 DEF Leased
    <3>2. T.leases \ S.leases = {l}
      BY <2>4, <3>1
    <3>3. {AckId(x) : x \in {l}} = {AckId(l)}
      OBVIOUS
    <3>4. NewIds = <<AckId(l)>>
      BY <2>2, <3>2, <3>3, SetToSeqSmall DEF NewIds
    <3>5. AckId(l) \in Nat \X Nat /\ AckId(l)[1] = l.pos
      BY BackendAssumption DEF AckId, Lease, Position
    <3>6. Ids(T) = Ids(S) \cup {AckId(l)}
      BY <2>4 DEF Ids
    <3> QED
      BY <2>2, <2>4, <3>4, <3>5, <3>6 DEF Hands
  <2> QED
    BY <2>1, <2>3, <2>4
<1> QED
  BY <1>1, <1>2, <1>3 DEF PullStep

\* A lease that ends changes nothing else that counts here.
LEMMA LeaseEnds ==
  ASSUME NEW S \in SubscriptionState, NEW l
  PROVE  /\ Ack(S, l).leases = S.leases \ {l} /\ Done(Ack(S, l)) = Done(S) \cup {l.pos}
         /\ Forget(S, l).leases = S.leases \ {l}
         /\ Done(Forget(S, l)) = Done(S) \cup {l.pos}
         /\ Nack(S, l).leases = S.leases \ {l} /\ Done(Nack(S, l)) = Done(S)
         /\ Expire(S, l).leases = S.leases \ {l} /\ Done(Expire(S, l)) = Done(S)
BY DEF Ack, Forget, Nack, Expire, Done, SubscriptionState

\* An ack or a nack of the id that is next ends the lease it names.
EndsNext ==
  LET S == sub[lock.sub]
      T == sub'[lock.sub]
  IN  /\ lock.sub \in DOMAIN sub /\ DOMAIN sub' = DOMAIN sub
      /\ \A r \in DOMAIN sub : r # lock.sub => sub'[r] = sub[r]
      /\ UNCHANGED resets
      /\ Done(S) \subseteq Done(T) /\ T.leases \subseteq S.leases
      /\ Done(T) \subseteq Done(S) \cup {Head(lock.todo)[1]}
      /\ Ids(S) \ {Head(lock.todo)} \subseteq Ids(T)
      /\ Head(lock.todo) \notin Ids(T)
      /\ lock.op = "ack" /\ Head(lock.todo) \in Ids(S) => Head(lock.todo)[1] \in Done(T)

LEMMA AckEnds ==
  ASSUME Inv, AckStep \/ AckExpired \/ NackStep
  PROVE  EndsNext
<1> DEFINE S == sub[lock.sub]
           id == Head(lock.todo)
<1>1. /\ lock.sub \in DOMAIN sub /\ S \in SubscriptionState /\ UNCHANGED resets
      /\ \A l, m \in S.leases : l.pos = m.pos => l = m
  BY DEF AckStep, AckExpired, NackStep, Inv, LockOK, SubsOK, Booked, InOnePlace
<1>2. Named(S, id) = {} <=> id \notin Ids(S)
  BY DEF Named, Ids
<1>3. CASE sub' = sub /\ Named(S, id) = {}
  BY <1>1, <1>2, <1>3 DEF EndsNext
<1>4. ASSUME NEW l \in Named(S, id), NEW T, sub' = [sub EXCEPT ![lock.sub] = T],
             T.leases = S.leases \ {l}, Done(S) \subseteq Done(T),
             Done(T) \subseteq Done(S) \cup {l.pos},
             lock.op = "ack" => l.pos \in Done(T)
      PROVE  EndsNext
  <2>1. l \in S.leases /\ AckId(l) = id /\ id[1] = l.pos
    BY DEF Named, AckId
  <2>2. \A m \in T.leases : AckId(m) # id
    <3>1. ASSUME NEW m \in T.leases, AckId(m) = id PROVE FALSE
      <4>1. m \in S.leases /\ m # l /\ m.pos = l.pos
        BY <1>4, <2>1, <3>1 DEF AckId
      <4> QED
        BY <1>1, <2>1, <4>1
    <3> QED
      BY <3>1
  <2>3. Ids(S) \ {id} \subseteq Ids(T)
    BY <1>4, <2>1 DEF Ids
  <2>4. id \notin Ids(T)
    BY <2>2 DEF Ids
  <2>5. /\ DOMAIN sub' = DOMAIN sub /\ sub'[lock.sub] = T
        /\ \A r \in DOMAIN sub : r # lock.sub => sub'[r] = sub[r]
    BY <1>1, <1>4
  <2> HIDE DEF id
  <2> QED
    BY <1>1, <1>4, <2>1, <2>3, <2>4, <2>5 DEF EndsNext, id
<1> HIDE DEF S, id
<1>5. ASSUME AckStep PROVE EndsNext
  <2>1. ASSUME NEW l \in Named(S, id), sub' = [sub EXCEPT ![lock.sub] = Ack(S, l)]
        PROVE  EndsNext
    <3> DEFINE T == Ack(S, l)
    <3>2. T.leases = S.leases \ {l} /\ Done(T) = Done(S) \cup {l.pos}
      BY <1>1, LeaseEnds
    <3>1. /\ T.leases = S.leases \ {l} /\ Done(S) \subseteq Done(T)
          /\ Done(T) \subseteq Done(S) \cup {l.pos}
          /\ l.pos \in Done(T) /\ sub' = [sub EXCEPT ![lock.sub] = T]
      BY <2>1, <3>2
    <3> HIDE DEF T
    <3> QED
      BY <1>4, <3>1
  <2> QED
    BY <1>3, <1>5, <2>1 DEF AckStep, S, id
<1>6. ASSUME AckExpired PROVE EndsNext
  <2>1. PICK l \in Named(S, id) : sub' = [sub EXCEPT ![lock.sub] = Forget(S, l)]
    BY <1>6 DEF AckExpired, S, id
  <2> DEFINE T == Forget(S, l)
  <2>2. /\ T.leases = S.leases \ {l} /\ Done(S) \subseteq Done(T)
        /\ Done(T) \subseteq Done(S) \cup {l.pos}
        /\ l.pos \in Done(T) /\ sub' = [sub EXCEPT ![lock.sub] = T]
    BY <1>1, <2>1, LeaseEnds
  <2> HIDE DEF T
  <2> QED
    BY <1>4, <2>2
<1>7. ASSUME NackStep PROVE EndsNext
  <2>1. lock.op = "nack"
    BY <1>7 DEF NackStep
  <2>2. ASSUME NEW l \in Named(S, id), sub' = [sub EXCEPT ![lock.sub] = Nack(S, l)]
        PROVE  EndsNext
    <3> DEFINE T == Nack(S, l)
    <3>1. /\ T.leases = S.leases \ {l} /\ Done(S) \subseteq Done(T)
          /\ Done(T) \subseteq Done(S) \cup {l.pos}
          /\ sub' = [sub EXCEPT ![lock.sub] = T]
      BY <1>1, <2>2, LeaseEnds
    <3> HIDE DEF T
    <3> QED
      BY <1>4, <2>1, <3>1
  <2> QED
    BY <1>3, <1>7, <2>2 DEF NackStep, S, id
<1> QED
  BY <1>5, <1>6, <1>7

\* Which operation the holder of the lock goes on with.
LEMMA LockGoesOn ==
  ASSUME Inv, LockedStep
  PROVE  /\ PublishStep => lock.op = "publish" /\ (lock' = Free \/ lock'.op = "publish")
         /\ PullStep => /\ lock.op \in {"sweep", "pull"}
                        /\ lock'.op = "sweep" => lock.op = "sweep"
                        /\ lock' = Free \/ /\ lock'.op \in {"sweep", "pull"}
                                           /\ lock'.sub = lock.sub
         /\ AckStep \/ NackStep =>
              /\ lock.op \in {"ack", "nack"} /\ lock' = Rest
              /\ lock' = Free \/ /\ lock'.op = lock.op /\ lock'.sub = lock.sub
                                 /\ lock'.todo = Tail(lock.todo)
              /\ Len(lock.todo) = 1 <=> lock' = Free
         /\ AckStep => lock.op = "ack"
         /\ AckExpired => lock.op = "ack" /\ lock' = Free
         /\ NackStep => lock.op = "nack"
<1>1. PublishStep => lock.op = "publish" /\ (lock' = Free \/ lock'.op = "publish")
  BY RestType DEF Inv, PublishStep
<1>2. ASSUME PullStep
      PROVE  /\ lock.op \in {"sweep", "pull"}
             /\ lock'.op = "sweep" => lock.op = "sweep"
             /\ lock' = Free \/ (lock'.op \in {"sweep", "pull"} /\ lock'.sub = lock.sub)
  <2>1. CASE SweepExpired \/ PullPanic \/ PullEnd
    BY <2>1 DEF SweepExpired, PullPanic, PullEnd, Takeable, Free
  <2>3. CASE SweepEnd
    <3>1. lock'.op = "pull" /\ lock'.sub = lock.sub /\ lock.op = "sweep"
      BY <2>3 DEF SweepEnd
    <3> QED
      BY <3>1
  <2>2. CASE PullPass \/ PullDeadLetter \/ PullFilterOut \/ PullDeliver
    BY <2>2, PullPuts DEF PutsBack
  <2> QED
    BY <1>2, <2>1, <2>2, <2>3 DEF PullStep
<1>3. ASSUME AckStep \/ NackStep
      PROVE  /\ lock.op \in {"ack", "nack"} /\ lock' = Rest
             /\ lock' = Free \/ /\ lock'.op = lock.op /\ lock'.sub = lock.sub
                                /\ lock'.todo = Tail(lock.todo)
             /\ Len(lock.todo) = 1 <=> lock' = Free
  <2>1. lock.op \in {"ack", "nack"} /\ lock' = Rest
    BY <1>3 DEF AckStep, NackStep
  <2>2. Rest = Free \/ (/\ Rest.op = lock.op /\ Rest.todo = Tail(lock.todo)
                        /\ Rest.sub = lock.sub)
    BY <2>1, RestType DEF Inv
  <2>3. lock \in [op : {"ack", "nack"}, sub : Subs, todo : Seq(Nat \X Nat) \ {<<>>}]
    BY <2>1, LockShape DEF Inv
  <2>4. Len(lock.todo) # 1 => Rest.op # "free"
    BY <2>1, <2>3 DEF Rest
  <2> QED
    BY <2>1, <2>2, <2>4 DEF Rest, Free
<1> QED
  BY <1>1, <1>2, <1>3 DEF AckStep, AckExpired, NackStep

\* A step under the lock leaves the other subscriptions alone, and does not
\* make a message deliverable again that is done.
LEMMA LockedElsewhere ==
  ASSUME Inv, LockedStep
  PROVE  /\ UNCHANGED resets /\ DOMAIN sub' \subseteq DOMAIN sub
         /\ PublishStep => UNCHANGED sub
         /\ ~PublishStep => \A r \in DOMAIN sub' : r # lock.sub => sub'[r] = sub[r]
         /\ \A r \in DOMAIN sub' : Done(sub[r]) \subseteq Done(sub'[r])
<1> DEFINE S == sub[lock.sub]
<1>1. ASSUME PublishStep
      PROVE  UNCHANGED <<sub, resets>> /\ lock.op = "publish"
  BY <1>1 DEF PublishStep
<1>2. ASSUME NEW T, lock.sub \in DOMAIN sub, UNCHANGED resets,
             sub' = [sub EXCEPT ![lock.sub] = T], Done(S) \subseteq Done(T)
      PROVE  /\ UNCHANGED resets /\ DOMAIN sub' \subseteq DOMAIN sub
             /\ \A r \in DOMAIN sub' : r # lock.sub => sub'[r] = sub[r]
             /\ \A r \in DOMAIN sub' : Done(sub[r]) \subseteq Done(sub'[r])
  BY <1>2
<1>3. CASE AckStep \/ AckExpired \/ NackStep
  <2>1. EndsNext /\ ~PublishStep
    BY <1>3, <1>1, AckEnds DEF AckStep, AckExpired, NackStep
  <2> QED
    BY <1>1, <2>1 DEF EndsNext
<1>4. CASE SweepExpired
  <2>1. lock.sub \in DOMAIN sub /\ S \in SubscriptionState /\ ~PublishStep
    BY <1>1, <1>4, PullContext DEF SweepExpired
  <2>2. PICK l \in S.leases : sub' = [sub EXCEPT ![lock.sub] = Expire(S, l)]
    BY <1>4 DEF SweepExpired
  <2> DEFINE T == Expire(S, l)
  <2>3. Done(S) \subseteq Done(T) /\ sub' = [sub EXCEPT ![lock.sub] = T]
    BY <2>1, <2>2, LeaseEnds
  <2>4. UNCHANGED resets
    BY <1>4 DEF SweepExpired
  <2> HIDE DEF T, S
  <2> QED
    BY <1>1, <1>2, <2>1, <2>3, <2>4
<1>5. CASE SweepEnd \/ PullPanic \/ PullEnd
  <2>1. UNCHANGED resets /\ ~PublishStep /\ (sub' = sub \/ sub' = Drop(sub, lock.sub))
    BY <1>1, <1>5 DEF SweepEnd, PullPanic, PullEnd, Takeable
  <2> QED
    BY <1>1, <2>1 DEF Drop
<1>6. CASE PullPass \/ PullDeadLetter \/ PullFilterOut \/ PullDeliver
  <2>1. PICK T : PutsBack(T)
    BY <1>6, PullPuts
  <2> HIDE DEF S
  <2> QED
    BY <1>1, <1>2, <2>1 DEF PutsBack, S
<1> QED
  BY <1>1, <1>3, <1>4, <1>5, <1>6 DEF LockedStep, PullStep

-----------------------------------------------------------------------------
(* The calls of a task.                                                    *)

LEMMA OneId ==
  ASSUME NEW id \in Nat \X Nat
  PROVE  <<id>> \in Seq(Nat \X Nat) \ {<<>>}
<1> DEFINE P == Nat \X Nat
<1>1. id \in P
  OBVIOUS
<1> HIDE DEF P
<1>2. <<id>> \in Seq(P) \ {<<>>}
  BY <1>1
<1> QED
  BY <1>2 DEF P

\* A call that starts or is answered at once.
LEMMA CallStarts ==
  ASSUME NEW w \in Tasks, CallTypes(w), call[w] = NoCall,
         \/ Start(w) /\ lock' # Free
         \/ \E how \in {"ok", "error"} : Answer(w, how) /\ UNCHANGED lock
  PROVE  /\ CallTypes(w)' /\ call'[w].status # "none" /\ call'[w].got = <<>>
         /\ \A how : Answer(w, how) => call'[w].status = how
<1>1. Running \in Call /\ \A how \in {"ok", "error"} : Answered(how) \in Call
  BY DEF Running, Answered, Call
<1>2. DOMAIN call = Tasks /\ owner # w /\ w # Nobody
  BY TasksAssumption DEF CallTypes, NoCall
<1>3. \A how : Answer(w, how) => call'[w].status = how
  BY <1>2 DEF Answer, Answered
<1>4. CASE Start(w) /\ lock' # Free
  BY <1>1, <1>2, <1>3, <1>4 DEF CallTypes, Start, Running
<1>5. ASSUME NEW how \in {"ok", "error"}, Answer(w, how), UNCHANGED lock
      PROVE  CallTypes(w)' /\ call'[w].status # "none" /\ call'[w].got = <<>>
  BY <1>1, <1>2, <1>5 DEF CallTypes, Answer, Answered
<1> QED
  BY <1>3, <1>4, <1>5

\* A call that returns.
LEMMA CallReturns ==
  ASSUME NEW w \in Tasks, CallTypes(w), Return(w)
  PROVE  /\ UNCHANGED <<Backend, owner>> /\ owner # w
         /\ CallTypes(w)' /\ call'[w].status = "none" /\ call'[w].got = <<>>
         /\ call[w].status \in {"ok", "error"}
<1>1. NoCall \in Call /\ NoCall.status = "none" /\ NoCall.got = <<>>
  BY DEF NoCall, Call
<1> QED
  BY <1>1, TasksAssumption DEF CallTypes, Return, Backend

\* The task's own operation goes on: what the task sees of it.
LEMMA ServeTask ==
  ASSUME NEW w \in Tasks, Inv, CallTypes(w), Serve, owner = w
  PROVE  /\ Inv' /\ CallTypes(w)' /\ LockedStep /\ Nobody # w
         /\ owner' = IF lock' = Free THEN Nobody ELSE w
         /\ call'[w].got = call[w].got \o NewIds
         /\ call'[w].status = IF lock' # Free THEN "running"
                              ELSE IF AckExpired THEN "error" ELSE "ok"
         /\ call'[w].status # "none"
         /\ call[w].got \in Seq(Nat \X Nat)
<1>1. /\ Nobody # w /\ w \in DOMAIN call /\ call[w] \in Call
      /\ DOMAIN call = Tasks /\ call[w].status = "running"
  BY TasksAssumption DEF CallTypes
<1>2. /\ LockedStep
      /\ owner' = IF lock' = Free THEN Nobody ELSE w
      /\ call' = [call EXCEPT ![w] =
           [status |-> IF lock' # Free THEN "running"
                       ELSE IF AckExpired THEN "error" ELSE "ok",
            got |-> @.got \o NewIds]]
  BY <1>1 DEF Serve
<1>3. Inv'
  BY <1>2, InvStep DEF Next, DataPlane
<1>4. NewIds \in Seq(Nat \X Nat)
  <2>1. CASE PullStep
    <3>1. NewIds = <<>> \/ \E id \in Nat \X Nat : NewIds = <<id>>
      BY <2>1, PullHands DEF HandsNothing, Hands
    <3>2. CASE NewIds = <<>>
      BY <3>2
    <3> QED
      BY <3>1, <3>2, OneId
  <2>2. CASE ~PullStep
    <3>1. lock.op # "pull"
      BY <1>2, <2>2, LockGoesOn DEF LockedStep
    <3> QED
      BY <3>1 DEF NewIds
  <2> QED
    BY <2>1, <2>2
<1>5. call[w].got \in Seq(Nat \X Nat)
  BY <1>1 DEF Call
<1> DEFINE g == call[w].got \o NewIds
<1>6. g \in Seq(Nat \X Nat)
  BY <1>4, <1>5
<1>7. call'[w] = [status |-> IF lock' # Free THEN "running"
                             ELSE IF AckExpired THEN "error" ELSE "ok",
                  got |-> g] /\ DOMAIN call' = DOMAIN call
  BY <1>1, <1>2
<1> HIDE DEF g
<1>8. /\ call'[w].got = g
      /\ call'[w].status = IF lock' # Free THEN "running"
                           ELSE IF AckExpired THEN "error" ELSE "ok"
      /\ call'[w] \in Call /\ DOMAIN call' = Tasks
  BY <1>1, <1>6, <1>7 DEF Call
<1>9. CallTypes(w)'
  BY <1>1, <1>2, <1>8 DEF CallTypes
<1> QED
  BY <1>1, <1>2, <1>3, <1>5, <1>8, <1>9 DEF g

-----------------------------------------------------------------------------
(* The dispatcher: its invariant holds at the start and is kept by what    *)
(* others do.                                                              *)

LEMMA PInvInit == DispatchInit => PInv
<1> SUFFICES ASSUME DispatchInit PROVE PInv
  OBVIOUS
<1>1. /\ Init /\ owner = Nobody /\ call = [w \in Tasks |-> NoCall]
      /\ push \in {Asleep, Off} /\ accepted = {}
      /\ endpoint = [s \in Subs |-> NoEndpoint]
  BY DEF DispatchInit, CallsInit, PushInit
<1>2. Inv /\ lock = Free /\ sub = NoEntries
  BY <1>1, InvInit DEF Init
<1>3. call[Dispatcher] = NoCall /\ NoCall \in Call /\ Nobody # Dispatcher
  BY <1>1, DispatcherAssumption, TasksAssumption DEF NoCall, Call
<1>4. CallTypes(Dispatcher)
  BY <1>1, <1>3 DEF CallTypes, NoCall
<1>5. push \in Resting /\ push.pc \in {"off", "asleep"}
  BY <1>1 DEF Asleep, Off, Resting
<1>6. PushTypes
  BY <1>1, <1>3, <1>5 DEF PushTypes, Configs, NoCall
<1>7. PushLock
  BY <1>1, <1>2, <1>3 DEF PushLock, Free
<1>8. HandHeld
  BY <1>5 DEF HandHeld, Hand, Pending, DistinctPositions, ToSet
<1> QED
  BY <1>1, <1>2, <1>4, <1>6, <1>7, <1>8 DEF PInv, AcceptedDone, NoEntries

\* The dispatcher's locals by what it is doing.
LEMMA PushShape ==
  ASSUME PushTypes
  PROVE  /\ push.pc \in {"pulling", "posting", "accepted", "acking"} =>
              push \in Working /\ push.at.sub \in Subs
         /\ push.pc \notin {"pulling", "posting", "accepted", "acking"} =>
              push \in Resting
BY DEF PushTypes, Resting, Working, Target

\* A step of others, while the dispatcher has no call under way: it may use
\* new names and whatever is not pushed, and leaves the rest deliverable as it
\* is, or done.
LEMMA OthersLeavePush ==
  ASSUME PInv, Inv', owner = Nobody, UNCHANGED <<calls, push, accepted>>,
         endpoint' \in [Subs -> Configs],
         lock'.op \in {"sweep", "pull", "ack", "nack"} => Unpushed(lock.sub)',
         \A s \in Subs : resets[s] > 0 => resets'[s] > 0,
         \A s \in DOMAIN sub' :
           /\ resets'[s] > 0
           /\ resets[s] > 0 =>
                /\ s \in DOMAIN sub /\ Done(sub[s]) \subseteq Done(sub'[s])
                /\ Unpushed(s) \/ Ids(sub[s]) \subseteq Ids(sub'[s])
  PROVE  PInv'
<1> USE DEF PInv, calls
<1>1. Nobody # Dispatcher /\ Inv'
  BY DispatcherAssumption, TasksAssumption
<1>2. CallTypes(Dispatcher)'
  BY DEF CallTypes
<1>3. PushTypes'
  BY DEF PushTypes
<1>4. PushLock'
  BY <1>1 DEF PushLock
<1>5. /\ Hand' = Hand /\ Pending' = Pending /\ Owed' = Owed /\ (Confirming' <=> Confirming)
      /\ (push.pc \in {"accepted", "acking"} => Posted' = Posted)
  BY DEF Hand, Pending, Owed, Confirming, Posted
<1>6. HandHeld'
  <2>1. ASSUME Hand # <<>> PROVE push.at.sub \in Subs /\ ~Unpushed(push.at.sub)
    BY <2>1, PushShape DEF Hand, Unpushed
  <2> QED
    BY <1>5, <2>1 DEF HandHeld
<1>7. ASSUME NEW x \in accepted
      PROVE  /\ resets'[x.sub] > 0
             /\ x.sub \in DOMAIN sub' =>
                  x.pos \in Done(sub'[x.sub]) \/ (Confirming' /\ x = Posted')
  <2>1. x.sub \in Subs /\ resets[x.sub] > 0
    BY DEF AcceptedDone, PushTypes
  <2>2. Confirming => Posted' = Posted
    BY <1>5 DEF Confirming
  <2> QED
    BY <1>5, <2>1, <2>2 DEF AcceptedDone
<1>8. AcceptedDone'
  BY <1>7 DEF AcceptedDone
<1> QED
  BY <1>2, <1>3, <1>4, <1>6, <1>8

\* A tick and a new deadline rename and settle nothing.
LEMMA AgedIds ==
  ASSUME NEW S \in SubscriptionState
  PROVE  /\ Ids(Aged(S)) = Ids(S) /\ Done(Aged(S)) = Done(S)
         /\ \A ids, seconds : Done(Extend(S, ids, seconds)) = Done(S)
<1>1. \A l \in S.leases : AckId(OlderLease(l)) = AckId(l)
  BY DEF OlderLease, AckId, SubscriptionState, Lease
<1>2. /\ Aged(S).leases = {OlderLease(l) : l \in S.leases}
      /\ Aged(S).acked = S.acked /\ Aged(S).lost = S.lost
  BY DEF Aged, SubscriptionState
<1>3. Ids(Aged(S)) = Ids(S)
  BY <1>1, <1>2 DEF Ids
<1>4. \A ids, seconds : Done(Extend(S, ids, seconds)) = Done(S)
  BY DEF Extend, Done, SubscriptionState
<1> QED
  BY <1>2, <1>3, <1>4 DEF Done

\* The broker is idle between calls.
LEMMA IdleNobody ==
  ASSUME PInv, Idle
  PROVE  /\ owner = Nobody
         /\ \A s \in DOMAIN sub : sub[s] \in SubscriptionState /\ s \in Subs
BY DEF PInv, CallTypes, Idle, Inv, SubsOK

\* What the operations of the other users do to the names and subscriptions
\* that are there.
LEMMA OthersQuiet ==
  ASSUME PInv, Others
  PROVE  /\ Idle /\ UNCHANGED resets
         /\ \A s \in DOMAIN sub' :
              /\ s \in DOMAIN sub /\ Done(sub[s]) = Done(sub'[s])
              /\ Unpushed(s) \/ Ids(sub[s]) \subseteq Ids(sub'[s])
         /\ lock'.op \in {"sweep", "pull", "ack", "nack"} =>
              lock'.sub \in Subs /\ Unpushed(lock'.sub)
<1>1. CASE Publish
  BY <1>1 DEF Publish, PublishBegin
<1>2. CASE Tick
  <2>1. Idle /\ sub' = [s \in DOMAIN sub |-> Aged(sub[s])] /\ UNCHANGED <<lock, resets>>
    BY <1>2 DEF Tick
  <2> QED
    BY <2>1, IdleNobody, AgedIds DEF Idle, Free
<1>3. CASE TopicAdmin
  <2>1. Idle /\ UNCHANGED <<sub, lock, resets>>
    BY <1>3 DEF TopicAdmin, CreateTopic, UpdateTopic, DeleteTopic, CreateSchema, DeleteSchema
  <2> QED
    BY <2>1 DEF Idle, Free
<1>4. ASSUME NEW s \in Subs, NEW spec \in Specs, NEW mask \in SUBSET MaskFields,
             UpdateSubscription(s, spec, mask)
      PROVE  /\ Idle /\ UNCHANGED <<lock, resets>> /\ DOMAIN sub' = DOMAIN sub
             /\ \A r \in DOMAIN sub : /\ Done(sub'[r]) = Done(sub[r])
                                      /\ Ids(sub'[r]) = Ids(sub[r])
  <2>1. Idle /\ s \in DOMAIN sub /\ sub[s] \in SubscriptionState
    BY <1>4, IdleNobody DEF UpdateSubscription
  <2> DEFINE T == [sub[s] EXCEPT !.spec = Masked(@, spec, mask)]
  <2>2. T.leases = sub[s].leases /\ T.acked = sub[s].acked /\ T.lost = sub[s].lost
    BY <2>1 DEF SubscriptionState
  <2>3. sub' = [sub EXCEPT ![s] = T] /\ UNCHANGED <<lock, resets>>
    BY <1>4, <2>1 DEF UpdateSubscription, SubscriptionState
  <2> HIDE DEF T
  <2> QED
    BY <2>1, <2>2, <2>3 DEF Done, Ids
<1>5. ASSUME NEW s \in Subs, DeleteSubscription(s)
      PROVE  /\ Idle /\ UNCHANGED <<lock, resets>>
             /\ \A r \in DOMAIN sub' : r \in DOMAIN sub /\ sub'[r] = sub[r]
  BY <1>5 DEF DeleteSubscription, Drop
<1>6. ASSUME (\E n \in Snaps, s \in Subs : CreateSnapshot(n, s))
               \/ \E n \in Snaps : DeleteSnapshot(n)
      PROVE  Idle /\ UNCHANGED <<sub, lock, resets>>
  BY <1>6 DEF CreateSnapshot, DeleteSnapshot
<1>7. ASSUME NEW s \in Subs, Unpushed(s), ConsumeFrom(s)
      PROVE  /\ Idle /\ UNCHANGED resets
             /\ \A r \in DOMAIN sub' :
                  /\ r \in DOMAIN sub /\ Done(sub[r]) = Done(sub'[r])
                  /\ Unpushed(r) \/ Ids(sub[r]) \subseteq Ids(sub'[r])
             /\ lock'.op \in {"sweep", "pull", "ack", "nack"} =>
                  lock'.sub \in Subs /\ Unpushed(lock'.sub)
  <2>1. CASE \E n \in PullSizes : PullBegin(s, n)
    BY <1>7, <2>1 DEF PullBegin
  <2>2. CASE \E ids \in IdBatches(s) : AckBegin(s, ids) \/ NackBegin(s, ids)
    BY <1>7, <2>2 DEF AckBegin, NackBegin
  <2>3. ASSUME NEW ids, NEW seconds, ExtendDeadline(s, ids, seconds)
        PROVE  /\ Idle /\ UNCHANGED <<lock, resets>> /\ DOMAIN sub' = DOMAIN sub
               /\ \A r \in DOMAIN sub : /\ Done(sub'[r]) = Done(sub[r])
                                        /\ r # s => sub'[r] = sub[r]
    <3> DEFINE T == Extend(sub[s], ids, seconds)
    <3>1. Idle /\ s \in DOMAIN sub /\ sub' = [sub EXCEPT ![s] = T] /\ UNCHANGED <<lock, resets>>
      BY <2>3 DEF ExtendDeadline
    <3>2. Done(T) = Done(sub[s])
      BY <3>1, IdleNobody, AgedIds
    <3> HIDE DEF T
    <3> QED
      BY <3>1, <3>2
  <2>4. CASE \E ids \in IdBatches(s), seconds \in Extensions : ExtendDeadline(s, ids, seconds)
    BY <1>7, <2>3, <2>4 DEF Idle, Free
  <2> QED
    BY <1>7, <2>1, <2>2, <2>4 DEF ConsumeFrom
<1>8. CASE \E s \in Subs, spec \in Specs, mask \in SUBSET MaskFields :
             UpdateSubscription(s, spec, mask)
  BY <1>4, <1>8 DEF Idle, Free
<1>9. CASE \E s \in Subs : DeleteSubscription(s)
  BY <1>5, <1>9 DEF Idle, Free
<1>10. CASE (\E n \in Snaps, s \in Subs : CreateSnapshot(n, s))
              \/ \E n \in Snaps : DeleteSnapshot(n)
  BY <1>6, <1>10 DEF Idle, Free
<1>11. CASE \E s \in Subs : Unpushed(s) /\ ConsumeFrom(s)
  BY <1>7, <1>11
<1> QED
  BY <1>1, <1>2, <1>3, <1>8, <1>9, <1>10, <1>11 DEF Others

LEMMA OthersPInv ==
  ASSUME PInv, Others, UNCHANGED <<calls, pushVars>>
  PROVE  PInv'
<1>1. Inv'
  <2>1. ASSUME NEW s \in Subs, ConsumeFrom(s) PROVE Consume
    BY <2>1 DEF ConsumeFrom, Consume
  <2>2. Next
    BY <2>1 DEF Others, Next, DataPlane, SubscriptionAdmin
  <2> QED
    BY <2>2, InvStep DEF PInv
<1>2. owner = Nobody
  BY OthersQuiet, IdleNobody
<1>3. lock'.op \in {"sweep", "pull", "ack", "nack"} => Unpushed(lock.sub)'
  BY OthersQuiet DEF Unpushed, pushVars
<1>4. endpoint' \in [Subs -> Configs] /\ UNCHANGED <<push, accepted>>
  BY DEF PInv, PushTypes, pushVars
<1>5. \A s \in DOMAIN sub : resets[s] > 0
  BY DEF PInv
<1> QED
  BY <1>1, <1>2, <1>3, <1>4, <1>5, OthersQuiet, OthersLeavePush

LEMMA ConfigPInv ==
  ASSUME PInv, NEW s \in Subs, NEW e \in Configs,
         ModifyPushConfig(s, e) \/ \E spec \in Specs : CreateWithEndpoint(s, spec, e)
  PROVE  PInv'
<1>1. Idle /\ owner = Nobody /\ lock' = lock /\ UNCHANGED <<calls, push, accepted>>
  BY IdleNobody DEF ModifyPushConfig, CreateWithEndpoint, CreateSubscription, Backend
<1>2. endpoint' \in [Subs -> Configs]
  BY DEF ModifyPushConfig, CreateWithEndpoint, PInv, PushTypes
<1>3. lock'.op \notin {"sweep", "pull", "ack", "nack"}
  BY <1>1 DEF Idle, Free
<1>4. (\A r \in DOMAIN sub : resets[r] > 0) /\ Inv
  BY DEF PInv
<1>5. CASE ModifyPushConfig(s, e)
  <2>1. UNCHANGED vars /\ UNCHANGED <<sub, resets>>
    BY <1>5 DEF ModifyPushConfig, Backend, vars
  <2>2. Inv'
    BY <1>4, <2>1, InvStep
  <2> QED
    BY <1>1, <1>2, <1>3, <1>4, <2>1, <2>2, OthersLeavePush
<1>6. ASSUME NEW spec \in Specs, CreateWithEndpoint(s, spec, e)
      PROVE  PInv'
  <2>1. Inv'
    BY <1>4, <1>6, SubscriptionAdminInv DEF CreateWithEndpoint, SubscriptionAdmin
  <2>2. /\ resets[s] = 0 /\ resets' = [resets EXCEPT ![s] = @ + 1]
        /\ \E T : sub' = Put(sub, s, T)
    BY <1>6 DEF CreateWithEndpoint, CreateSubscription
  <2>3. resets \in [Subs -> 0 .. MaxResets] /\ MaxResets \in Nat /\ DOMAIN sub \subseteq Subs
    BY <1>4, BackendAssumption DEF Inv, NamesOK, SubsOK
  <2>4. \A r \in Subs : resets'[r] = IF r = s THEN 1 ELSE resets[r]
    BY <2>2, <2>3
  <2>5. DOMAIN sub' = DOMAIN sub \cup {s} /\ \A r \in DOMAIN sub : r # s => sub'[r] = sub[r]
    BY <2>2 DEF Put
  <2> QED
    BY <1>1, <1>2, <1>3, <1>4, <2>1, <2>2, <2>3, <2>4, <2>5, OthersLeavePush
<1> QED
  BY <1>5, <1>6

-----------------------------------------------------------------------------
(* The steps under the lock.                                               *)

\* Another task's operation goes on: it is on a subscription that is not
\* pushed.
LEMMA ServeOthersPInv ==
  ASSUME PInv, LockedStep, owner = Nobody, UNCHANGED <<calls, pushVars>>
  PROVE  PInv'
<1>1. Inv /\ Inv' /\ \A s \in DOMAIN sub : resets[s] > 0
  BY InvStep DEF PInv, Next, DataPlane
<1>2. /\ UNCHANGED resets /\ DOMAIN sub' \subseteq DOMAIN sub
      /\ PublishStep => UNCHANGED sub
      /\ ~PublishStep => \A r \in DOMAIN sub' : r # lock.sub => sub'[r] = sub[r]
      /\ \A r \in DOMAIN sub' : Done(sub[r]) \subseteq Done(sub'[r])
  BY <1>1, LockedElsewhere
<1>3. /\ PublishStep => lock'.op \notin {"sweep", "pull", "ack", "nack"}
      /\ ~PublishStep => /\ lock.op \in {"sweep", "pull", "ack", "nack"}
                         /\ lock' = Free \/ (lock'.op \in {"sweep", "pull", "ack", "nack"}
                                             /\ lock'.sub = lock.sub)
  <2>1. PublishStep => lock'.op \notin {"sweep", "pull", "ack", "nack"}
    BY <1>1, LockGoesOn DEF Free
  <2>2. ~PublishStep => PullStep \/ AckStep \/ AckExpired \/ NackStep
    BY DEF LockedStep
  <2> QED
    BY <1>1, <2>1, <2>2, LockGoesOn
<1>4. ~PublishStep => Unpushed(lock.sub)
  BY <1>3 DEF PInv, PushLock
<1>5. lock'.op \in {"sweep", "pull", "ack", "nack"} => Unpushed(lock.sub)'
  <2>1. ASSUME lock'.op \in {"sweep", "pull", "ack", "nack"} PROVE lock'.sub = lock.sub /\ ~PublishStep
    BY <1>3, <2>1 DEF Free
  <2> QED
    BY <1>4, <2>1 DEF Unpushed, pushVars
<1>6. \A s \in DOMAIN sub' : Unpushed(s) \/ Ids(sub[s]) \subseteq Ids(sub'[s])
  BY <1>2, <1>4
<1>7. endpoint' \in [Subs -> Configs] /\ UNCHANGED <<push, accepted>>
  BY DEF PInv, PushTypes, pushVars
<1> QED
  BY <1>1, <1>2, <1>5, <1>6, <1>7, OthersLeavePush

\* The dispatcher's own operation goes on: what the task sees of it.
LEMMA ServeDispatcher ==
  ASSUME PInv, Serve, owner = Dispatcher
  PROVE  /\ Inv' /\ CallTypes(Dispatcher)' /\ Nobody # Dispatcher
         /\ LockedStep /\ UNCHANGED resets
         /\ DOMAIN sub' \subseteq DOMAIN sub /\ \A s \in DOMAIN sub' : resets'[s] > 0
         /\ \A r \in DOMAIN sub' : Done(sub[r]) \subseteq Done(sub'[r])
         /\ owner' = IF lock' = Free THEN Nobody ELSE Dispatcher
         /\ call'[Dispatcher].got = call[Dispatcher].got \o NewIds
         /\ call'[Dispatcher].status # "none"
         /\ push.pc \in {"pulling", "acking"} /\ call[Dispatcher].got \in Seq(Nat \X Nat)
<1>1. /\ Inv /\ CallTypes(Dispatcher) /\ Dispatcher \in Tasks
      /\ \A s \in DOMAIN sub : resets[s] > 0
  BY DispatcherAssumption DEF PInv
<1>2. push.pc \in {"pulling", "acking"}
  BY <1>1 DEF PInv, CallTypes, PushTypes
<1>3. /\ Inv' /\ CallTypes(Dispatcher)' /\ LockedStep /\ Nobody # Dispatcher
      /\ owner' = IF lock' = Free THEN Nobody ELSE Dispatcher
      /\ call'[Dispatcher].got = call[Dispatcher].got \o NewIds
      /\ call'[Dispatcher].status # "none"
      /\ call[Dispatcher].got \in Seq(Nat \X Nat)
  BY <1>1, ServeTask
<1> QED
  BY <1>1, <1>2, <1>3, LockedElsewhere

\* The dispatcher's pull goes on: what it has been handed stays leased, and
\* what is handed out next is another message, not accepted before.
LEMMA ServePullPInv ==
  ASSUME PInv, Serve, UNCHANGED pushVars, owner = Dispatcher, push.pc = "pulling"
  PROVE  PInv'
<1> DEFINE s == push.at.sub
           got == call[Dispatcher].got
<1>1. /\ Inv' /\ CallTypes(Dispatcher)' /\ Nobody # Dispatcher
      /\ LockedStep /\ UNCHANGED resets
      /\ DOMAIN sub' \subseteq DOMAIN sub /\ \A r \in DOMAIN sub' : resets'[r] > 0
      /\ \A r \in DOMAIN sub' : Done(sub[r]) \subseteq Done(sub'[r])
      /\ owner' = IF lock' = Free THEN Nobody ELSE Dispatcher
      /\ call'[Dispatcher].got = got \o NewIds
      /\ call'[Dispatcher].status # "none"
      /\ got \in Seq(Nat \X Nat)
  BY ServeDispatcher
<1>2. /\ push' = push /\ accepted' = accepted /\ endpoint' = endpoint
      /\ Inv /\ s \in Subs
  BY PushShape DEF pushVars, PInv
<1>3. lock.op \in {"sweep", "pull"} /\ lock.sub = s /\ (lock.op = "sweep" => got = <<>>)
  BY DEF PInv, PushLock
<1>4. PullStep
  BY <1>1, <1>2, <1>3, LockGoesOn DEF LockedStep
<1>5. /\ lock'.op = "sweep" => lock.op = "sweep"
      /\ lock' = Free \/ (lock'.op \in {"sweep", "pull"} /\ lock'.sub = s)
  BY <1>2, <1>3, <1>4, LockGoesOn DEF LockedStep
<1>6. /\ Hand = got /\ Pending = got /\ Owed = got /\ ~Confirming
      /\ Hand' = got \o NewIds /\ Pending' = got \o NewIds /\ Owed' = got \o NewIds
      /\ ~Confirming'
  BY <1>1, <1>2 DEF Hand, Pending, Owed, Confirming
<1>7. /\ DistinctPositions(got)
      /\ got # <<>> => resets[s] > 0
      /\ got # <<>> /\ s \in DOMAIN sub => ToSet(got) \subseteq Ids(sub[s])
      /\ \A id \in ToSet(got) : [sub |-> s, pos |-> id[1]] \notin accepted
      /\ \A x \in accepted :
           resets[x.sub] > 0 /\ (x.sub \in DOMAIN sub => x.pos \in Done(sub[x.sub]))
      /\ \A r \in DOMAIN sub : resets[r] > 0
  BY <1>6 DEF PInv, HandHeld, AcceptedDone
<1> DEFINE more == got \o NewIds
<1>8. /\ DistinctPositions(more)
      /\ more # <<>> => resets[s] > 0
      /\ more # <<>> /\ s \in DOMAIN sub' => ToSet(more) \subseteq Ids(sub'[s])
      /\ \A id \in ToSet(more) : [sub |-> s, pos |-> id[1]] \notin accepted
      /\ lock.op = "sweep" => more = <<>>
  <2>1. CASE HandsNothing
    <3>1. more = got
      BY <1>1, <2>1, OneMoreId DEF HandsNothing
    <3> HIDE DEF more, got
    <3>2. lock.op = "pull" /\ s \in DOMAIN sub' => Ids(sub'[s]) = Ids(sub[s])
      BY <1>3, <2>1 DEF HandsNothing
    <3> QED
      BY <1>1, <1>3, <1>7, <3>1, <3>2
  <2>2. ASSUME NEW id, Hands(id)
        PROVE  /\ DistinctPositions(more)
               /\ s \in DOMAIN sub /\ ToSet(more) \subseteq Ids(sub'[s])
               /\ \A i \in ToSet(more) : [sub |-> s, pos |-> i[1]] \notin accepted
               /\ lock.op = "pull"
    <3>1. /\ s \in DOMAIN sub /\ id \in Nat \X Nat /\ lock.op = "pull"
          /\ id[1] \notin Leased(sub[s]) \cup Done(sub[s])
          /\ Ids(sub'[s]) = Ids(sub[s]) \cup {id}
          /\ more = got \o <<id>>
      BY <1>1, <1>3, <2>2 DEF Hands
    <3> HIDE DEF more, got, s
    <3>2. ToSet(got) \subseteq Ids(sub[s])
      <4>1. CASE got = <<>>
        BY <4>1 DEF ToSet
      <4> QED
        BY <1>7, <3>1, <4>1
    <3>3. \A x \in ToSet(got) : x[1] # id[1]
      BY <3>1, <3>2, IdsLeased
    <3>4. ToSet(more) = ToSet(got) \cup {id} /\ DistinctPositions(more)
      BY <1>1, <1>7, <3>1, <3>3, OneMoreId
    <3>5. [sub |-> s, pos |-> id[1]] \notin accepted
      BY <1>7, <3>1
    <3> QED
      BY <1>7, <3>1, <3>2, <3>4, <3>5
  <2> QED
    BY <1>2, <1>3, <1>4, <1>7, <2>1, <2>2, PullHands
<1> HIDE DEF more, got
<1>9. PushTypes'
  BY <1>1, <1>2 DEF PInv, PushTypes
<1>10. PushLock'
  BY <1>1, <1>2, <1>3, <1>5, <1>8 DEF PushLock, Free, more
<1>11. HandHeld'
  BY <1>1, <1>2, <1>6, <1>8 DEF HandHeld, more
<1>12. AcceptedDone'
  BY <1>1, <1>2, <1>7 DEF AcceptedDone
<1> QED
  BY <1>1, <1>9, <1>10, <1>11, <1>12 DEF PInv

\* The dispatcher's ack is carried out: the accepted message is done.
LEMMA ServeAckPInv ==
  ASSUME PInv, Serve, UNCHANGED pushVars, owner = Dispatcher, push.pc = "acking"
  PROVE  PInv'
<1> DEFINE s == push.at.sub
           id == Head(push.got)
<1>1. /\ Inv' /\ CallTypes(Dispatcher)' /\ Nobody # Dispatcher
      /\ LockedStep /\ UNCHANGED resets
      /\ DOMAIN sub' \subseteq DOMAIN sub /\ \A r \in DOMAIN sub' : resets'[r] > 0
      /\ \A r \in DOMAIN sub' : Done(sub[r]) \subseteq Done(sub'[r])
      /\ owner' = IF lock' = Free THEN Nobody ELSE Dispatcher
      /\ call'[Dispatcher].status # "none"
  BY ServeDispatcher
<1>2. /\ push' = push /\ accepted' = accepted /\ endpoint' = endpoint
      /\ Inv /\ s \in Subs /\ push.got \in Seq(Nat \X Nat) \ {<<>>}
  BY PushShape DEF pushVars, PInv, PushTypes, Working
<1>3. lock.op = "ack" /\ lock.sub = s /\ lock.todo = <<id>>
  BY DEF PInv, PushLock
<1>4. AckStep \/ AckExpired
  BY <1>1, <1>2, <1>3, LockGoesOn DEF LockedStep
<1>5. lock' = Free /\ owner' = Nobody
  <2>1. Len(lock.todo) = 1
    BY <1>3
  <2> QED
    BY <1>1, <1>2, <1>4, <2>1, LockGoesOn
<1>6. /\ s \in DOMAIN sub /\ DOMAIN sub' = DOMAIN sub
      /\ Ids(sub[s]) \ {id} \subseteq Ids(sub'[s])
      /\ id \in Ids(sub[s]) => id[1] \in Done(sub'[s])
  <2>1. EndsNext /\ Head(lock.todo) = id
    BY <1>2, <1>3, <1>4, AckEnds
  <2> QED
    BY <1>3, <2>1 DEF EndsNext
<1>7. /\ Hand = push.got /\ Pending = Tail(push.got) /\ Owed = push.got /\ Confirming
      /\ Hand' = push.got /\ Pending' = Tail(push.got) /\ Owed' = Tail(push.got)
      /\ ~Confirming' /\ Posted' = Posted
      /\ Posted = [sub |-> s, pos |-> id[1]]
  BY <1>1, <1>2, <1>5 DEF Hand, Pending, Owed, Confirming, Posted
<1>8. /\ DistinctPositions(push.got)
      /\ resets[s] > 0
      /\ ToSet(push.got) \subseteq Ids(sub[s])
      /\ \A i \in ToSet(Tail(push.got)) : [sub |-> s, pos |-> i[1]] \notin accepted
      /\ Posted \in accepted
      /\ \A x \in accepted :
           resets[x.sub] > 0
           /\ (x.sub \in DOMAIN sub => x.pos \in Done(sub[x.sub]) \/ x = Posted)
  BY <1>2, <1>6, <1>7 DEF PInv, HandHeld, AcceptedDone
<1>9. /\ id \in ToSet(push.got) /\ ToSet(Tail(push.got)) \subseteq ToSet(push.got)
      /\ \A i \in ToSet(Tail(push.got)) : i # id
  BY <1>2, <1>8, TailParts
<1> HIDE DEF s, id
<1>10. PushTypes'
  BY <1>1, <1>2 DEF PInv, PushTypes
<1>11. PushLock'
  BY <1>1, <1>5 DEF PushLock, Free
<1>12. ToSet(Tail(push.got)) \subseteq Ids(sub'[s])
  BY <1>6, <1>8, <1>9
<1>13. HandHeld'
  BY <1>1, <1>2, <1>7, <1>8, <1>12 DEF HandHeld, s
<1>14. ASSUME NEW x \in accepted
       PROVE  resets'[x.sub] > 0 /\ (x.sub \in DOMAIN sub' => x.pos \in Done(sub'[x.sub]))
  <2>1. CASE x = Posted
    BY <1>1, <1>6, <1>7, <1>8, <1>9, <2>1
  <2>2. CASE x # Posted
    BY <1>1, <1>6, <1>8, <2>2
  <2> QED
    BY <2>1, <2>2
<1>15. AcceptedDone'
  BY <1>2, <1>14 DEF AcceptedDone
<1> QED
  BY <1>1, <1>10, <1>11, <1>13, <1>15 DEF PInv

LEMMA ServePInv ==
  ASSUME PInv, Serve, UNCHANGED pushVars
  PROVE  PInv'
<1>1. CASE owner = Nobody
  BY <1>1, ServeOthersPInv DEF Serve, calls
<1>2. CASE owner = Dispatcher
  <2>1. push.pc \in {"pulling", "acking"}
    BY <1>2, ServeDispatcher
  <2> QED
    BY <1>2, <2>1, ServePullPInv, ServeAckPInv
<1> QED
  BY <1>1, <1>2 DEF PInv, CallTypes

-----------------------------------------------------------------------------
(* The steps of the dispatcher.                                            *)

\* The locals of the dispatcher between two batches.
LEMMA RestingPush ==
  ASSUME PInv, Inv', UNCHANGED <<Backend, endpoint, accepted>>,
         push.pc \notin {"posting", "accepted", "acking"}, push' \in Resting,
         push'.todo \subseteq push.todo \/ Idle,
         Hand = <<>>, CallTypes(Dispatcher)', call'[Dispatcher].status = "none",
         owner' = owner, owner # Dispatcher
  PROVE  PInv'
<1>1. push'.pc \in {"off", "asleep", "visiting"} /\ ~Confirming /\ ~Confirming'
  BY DEF Resting, Confirming
<1>2. Hand' = <<>> /\ Pending' = <<>>
  BY <1>1 DEF Hand, Pending
<1>3. PushTypes'
  BY <1>1 DEF PushTypes, PInv
<1>4. PushLock'
  <2>1. ASSUME owner' = Nobody, lock.op \in {"sweep", "pull", "ack", "nack"}
        PROVE  Unpushed(lock.sub)'
    <3>1. Unpushed(lock.sub) /\ ~Idle
      BY <2>1 DEF PInv, PushLock, Idle, Free
    <3> QED
      BY <1>1, <3>1 DEF Unpushed, Backend
  <2> QED
    BY <1>1, <2>1 DEF PushLock, Backend
<1>5. HandHeld'
  BY <1>1, <1>2 DEF HandHeld, DistinctPositions, ToSet
<1>6. AcceptedDone'
  BY <1>1 DEF PInv, AcceptedDone, Backend
<1> QED
  BY <1>3, <1>4, <1>5, <1>6 DEF PInv, Backend

LEMMA WakeUpPInv ==
  ASSUME PInv, WakeUp \/ RoundEnds
  PROVE  PInv'
<1>1. UNCHANGED <<Backend, calls, endpoint, accepted>> /\ push.pc \in {"asleep", "visiting"}
  BY DEF WakeUp, RoundEnds
<1>2. push' \in Resting /\ (push'.todo \subseteq push.todo \/ Idle)
  <2>1. CASE WakeUp
    <3>1. ListPushSubscriptions \subseteq Target
      BY DEF ListPushSubscriptions, Target, PInv, PushTypes, Inv, SubsOK
    <3> QED
      BY <2>1, <3>1 DEF WakeUp, Resting
  <2>2. CASE RoundEnds
    BY <2>2 DEF RoundEnds, Asleep, Resting
  <2> QED
    BY <2>1, <2>2
<1>3. UNCHANGED vars
  BY <1>1 DEF Backend, vars
<1>4. Inv'
  BY <1>3, InvStep DEF PInv
<1>5. Hand = <<>> /\ call[Dispatcher].status = "none" /\ owner # Dispatcher
  BY <1>1 DEF Hand, PInv, PushTypes, CallTypes
<1>6. CallTypes(Dispatcher)' /\ call'[Dispatcher].status = "none" /\ owner' = owner
  BY <1>1, <1>5 DEF PInv, CallTypes, calls, Backend
<1> QED
  BY <1>1, <1>2, <1>4, <1>5, <1>6, RestingPush

LEMMA VisitPInv ==
  ASSUME PInv, Visit
  PROVE  PInv'
<1>1. PICK x \in push.todo :
        /\ CallPull(Dispatcher, x.sub, PushBatch)
        /\ push' = [pc |-> "pulling", todo |-> push.todo \ {x}, at |-> x, got |-> <<>>]
  BY DEF Visit
<1>2. /\ push.pc = "visiting" /\ push \in Resting /\ x \in Target /\ x.sub \in Subs
      /\ endpoint' = endpoint /\ accepted' = accepted
  BY PushShape DEF Visit, PInv, Resting, Target
<1>3. Inv /\ CallTypes(Dispatcher) /\ Dispatcher # Nobody
      /\ call[Dispatcher] = NoCall
      /\ Idle /\ owner = Nobody
  BY <1>1, IdleNobody, DispatcherAssumption, TasksAssumption
     DEF PInv, CallPull, PullBegin, Start, Answer
<1>4. UNCHANGED <<sub, resets>>
  BY <1>1 DEF CallPull, PullBegin, Backend
<1>5. /\ CallTypes(Dispatcher)' /\ call'[Dispatcher].status # "none"
      /\ call'[Dispatcher].got = <<>> /\ Inv'
      /\ owner' = Dispatcher => lock'.op = "sweep" /\ lock'.sub = x.sub
      /\ owner' = Nobody => lock' = Free
      /\ owner' \in {Dispatcher, Nobody}
  <2>1. CASE PullBegin(x.sub, PushBatch) /\ Start(Dispatcher)
    <3>1. lock'.op = "sweep" /\ lock'.sub = x.sub /\ owner' = Dispatcher
      BY <2>1 DEF PullBegin, Start
    <3>2. Inv'
      BY <1>2, <1>3, <2>1, PullBeginInv, DispatcherAssumption
    <3> QED
      BY <1>3, <2>1, <3>1, <3>2, CallStarts, DispatcherAssumption DEF Free
  <2>2. CASE Answer(Dispatcher, "error") /\ UNCHANGED Backend
    <3>1. UNCHANGED vars /\ lock' = Free /\ owner' = Nobody
      BY <1>3, <2>2 DEF Backend, vars, Answer, Idle
    <3>2. Inv'
      BY <1>3, <3>1, InvStep
    <3>3. \E how \in {"ok", "error"} : Answer(Dispatcher, how) /\ UNCHANGED lock
      BY <2>2, <3>1 DEF vars
    <3>4. /\ CallTypes(Dispatcher)' /\ call'[Dispatcher].status # "none"
          /\ call'[Dispatcher].got = <<>>
      BY <1>3, <3>3, CallStarts, DispatcherAssumption
    <3> QED
      BY <1>3, <2>2, <3>1, <3>2, <3>4
  <2> QED
    BY <1>1, <2>1, <2>2 DEF CallPull
<1>6. /\ push' \in Working /\ push'.pc = "pulling" /\ push'.at = x
  BY <1>1, <1>2 DEF Resting, Working
<1>7. Hand' = <<>> /\ Pending' = <<>> /\ ~Confirming /\ ~Confirming'
  BY <1>2, <1>5, <1>6 DEF Hand, Pending, Confirming
<1>8. PushTypes'
  BY <1>2, <1>5, <1>6 DEF PInv, PushTypes
<1>9. PushLock'
  BY <1>3, <1>5, <1>6 DEF PushLock, Free
<1>10. HandHeld'
  BY <1>6, <1>7 DEF HandHeld, DistinctPositions, ToSet
<1>11. AcceptedDone'
  BY <1>2, <1>4, <1>7 DEF PInv, AcceptedDone
<1> QED
  BY <1>4, <1>5, <1>8, <1>9, <1>10, <1>11 DEF PInv

\* The dispatcher goes on with what is left of its batch.
LEMMA OnwardPInv ==
  ASSUME PInv, UNCHANGED <<Backend, owner, endpoint, accepted>>,
         push \in Working, owner # Dispatcher, ~Confirming,
         CallTypes(Dispatcher)', call'[Dispatcher].status = "none",
         NEW got \in Seq(Nat \X Nat), push' = Onward(got),
         DistinctPositions(got), ToSet(got) \subseteq ToSet(Pending),
         got # <<>> => Hand # <<>>
  PROVE  PInv'
<1>1. UNCHANGED <<vars, sub, resets, lock>> /\ Inv /\ push.at \in Target /\ push.at.sub \in Subs
  BY DEF Backend, vars, PInv, Working, Target
<1>2. Inv'
  BY <1>1, InvStep
<1>3. \/ got = <<>> /\ push' \in Resting /\ push'.pc = "visiting" /\ push'.todo = push.todo
      \/ /\ got # <<>> /\ push' \in Working /\ push'.pc = "posting" /\ push'.got = got
         /\ push'.at = push.at /\ push'.todo = push.todo
  <2>1. CASE got = <<>>
    BY <2>1 DEF Onward, Visiting, Resting, Working
  <2>2. CASE got # <<>>
    BY <2>2 DEF Onward, Working
  <2> QED
    BY <2>1, <2>2
<1>4. Hand' = got /\ Pending' = got /\ Owed' = got /\ ~Confirming'
  BY <1>3 DEF Hand, Pending, Owed, Confirming
<1>5. PushTypes'
  BY <1>3 DEF PInv, PushTypes
<1>6. PushLock'
  <2>1. ASSUME owner = Nobody, lock.op \in {"sweep", "pull", "ack", "nack"}
        PROVE  Unpushed(lock.sub)'
    <3>1. Unpushed(lock.sub)
      BY <2>1 DEF PInv, PushLock
    <3> QED
      BY <1>1, <1>3, <3>1 DEF Unpushed, Working
  <2> QED
    BY <1>1, <1>3, <2>1 DEF PushLock
<1>7. HandHeld'
  <2>1. ToSet(Pending) \subseteq ToSet(Owed)
    BY DEF Owed
  <2>2. \A id \in ToSet(got) : [sub |-> push.at.sub, pos |-> id[1]] \notin accepted
    BY DEF PInv, HandHeld
  <2>3. got # <<>> => /\ resets[push.at.sub] > 0
                      /\ push.at.sub \in DOMAIN sub => ToSet(got) \subseteq Ids(sub[push.at.sub])
    BY <2>1 DEF PInv, HandHeld
  <2>4. got = <<>> => ToSet(got) = {}
    BY DEF ToSet
  <2> QED
    BY <1>1, <1>3, <1>4, <2>2, <2>3, <2>4 DEF HandHeld
<1>8. AcceptedDone'
  BY <1>1, <1>4 DEF PInv, AcceptedDone
<1> QED
  BY <1>1, <1>2, <1>5, <1>6, <1>7, <1>8 DEF PInv

LEMMA PulledPInv ==
  ASSUME PInv, Pulled
  PROVE  PInv'
<1> DEFINE got == call[Dispatcher].got
<1>1. push \in Working /\ push.pc = "pulling" /\ got \in Seq(Nat \X Nat)
  BY PushShape DEF Pulled, PInv, CallTypes, Call
<1>2. /\ UNCHANGED <<Backend, owner, endpoint, accepted>> /\ owner # Dispatcher
      /\ CallTypes(Dispatcher)' /\ call'[Dispatcher].status = "none"
      /\ push' = Onward(got)
  BY CallReturns, DispatcherAssumption DEF Pulled, PInv
<1>3. Hand = got /\ Pending = got /\ ~Confirming
  BY <1>1 DEF Hand, Pending, Confirming
<1>4. DistinctPositions(got)
  BY <1>3 DEF PInv, HandHeld
<1> HIDE DEF got
<1> QED
  BY <1>1, <1>2, <1>3, <1>4, OnwardPInv

\* What is left after the first of a batch.
LEMMA RestOfBatch ==
  ASSUME PInv, push.pc \in {"posting", "accepted", "acking"}
  PROVE  /\ push \in Working /\ push.got \in Seq(Nat \X Nat) /\ push.got # <<>>
         /\ Hand = push.got /\ DistinctPositions(push.got)
         /\ Tail(push.got) \in Seq(Nat \X Nat) /\ DistinctPositions(Tail(push.got))
         /\ ToSet(Tail(push.got)) \subseteq ToSet(push.got)
         /\ \A id \in ToSet(Tail(push.got)) : id[1] # Head(push.got)[1]
<1>1. /\ push \in Working /\ push.got \in Seq(Nat \X Nat) /\ push.got # <<>>
      /\ Hand = push.got /\ DistinctPositions(push.got)
  BY PushShape DEF PInv, PushTypes, Working, Hand, HandHeld
<1> QED
  BY <1>1, TailParts

LEMMA PostFailedPInv ==
  ASSUME PInv, PostFailed
  PROVE  PInv'
<1>1. /\ push.pc = "posting" /\ push' = Onward(Tail(push.got))
      /\ UNCHANGED <<Backend, calls, endpoint, accepted>>
  BY DEF PostFailed
<1>2. Pending = push.got /\ ~Confirming
  BY <1>1 DEF Pending, Confirming, Hand
<1>3. /\ owner # Dispatcher /\ CallTypes(Dispatcher)' /\ call'[Dispatcher].status = "none"
      /\ UNCHANGED owner
  BY <1>1 DEF PInv, PushTypes, CallTypes, calls, Backend
<1> QED
  BY <1>1, <1>2, <1>3, RestOfBatch, OnwardPInv

LEMMA AckedPInv ==
  ASSUME PInv, Acked
  PROVE  PInv'
<1>1. push.pc = "acking" /\ push' = Onward(Tail(push.got)) /\ Return(Dispatcher)
      /\ UNCHANGED <<endpoint, accepted>>
  BY DEF Acked
<1>2. /\ UNCHANGED <<Backend, owner>> /\ owner # Dispatcher
      /\ CallTypes(Dispatcher)' /\ call'[Dispatcher].status = "none"
  BY <1>1, CallReturns, DispatcherAssumption, TasksAssumption DEF PInv
<1>3. Pending = Tail(push.got) /\ ~Confirming
  BY <1>1, <1>2 DEF Pending, Confirming
<1> QED
  BY <1>1, <1>2, <1>3, RestOfBatch, OnwardPInv

LEMMA PostAcceptedPInv ==
  ASSUME PInv, PostAccepted
  PROVE  PInv'
<1> DEFINE s == push.at.sub
<1>1. /\ push.pc = "posting" /\ push' = [push EXCEPT !.pc = "accepted"]
      /\ accepted' = accepted \cup {Posted}
      /\ UNCHANGED <<Backend, calls, endpoint>>
  BY DEF PostAccepted
<1>2. UNCHANGED <<vars, sub, resets, lock, owner, call>>
  BY <1>1 DEF Backend, vars, calls
<1>3. Inv' /\ s \in Subs
  BY <1>1, <1>2, InvStep, PushShape DEF PInv
<1>4. /\ push' \in Working /\ push'.pc = "accepted" /\ push'.got = push.got
      /\ push'.at = push.at /\ push'.todo = push.todo
  BY <1>1, RestOfBatch DEF Working
<1>5. /\ Pending = push.got /\ Hand = push.got /\ Owed = push.got /\ ~Confirming
      /\ Hand' = push.got /\ Pending' = Tail(push.got) /\ Owed' = push.got /\ Confirming'
      /\ Posted' = Posted /\ Posted = [sub |-> s, pos |-> Head(push.got)[1]]
  BY <1>1, <1>4 DEF Pending, Hand, Owed, Confirming, Posted
<1>6. Head(push.got) \in Nat \X Nat
  <2> DEFINE P == Nat \X Nat
  <2>1. push.got \in Seq(P) /\ push.got # <<>>
    BY <1>1, RestOfBatch
  <2> HIDE DEF P
  <2>2. Head(push.got) \in P
    BY <2>1
  <2> QED
    BY <2>2 DEF P
<1>7. Posted \in [sub : Subs, pos : Nat]
  BY <1>3, <1>5, <1>6
<1>8. PushTypes'
  BY <1>1, <1>2, <1>4, <1>7, RestOfBatch DEF PInv, PushTypes
<1>9. PushLock'
  BY <1>1, <1>2, <1>4 DEF PInv, PushLock, Unpushed, PushTypes, CallTypes
<1>10. HandHeld'
  <2>1. \A id \in ToSet(Tail(push.got)) : [sub |-> s, pos |-> id[1]] \notin accepted'
    BY <1>1, <1>5, RestOfBatch DEF PInv, HandHeld
  <2>2. /\ DistinctPositions(push.got) /\ push.got # <<>> /\ resets[s] > 0
        /\ s \in DOMAIN sub => ToSet(push.got) \subseteq Ids(sub[s])
    BY <1>1, <1>5, RestOfBatch DEF PInv, HandHeld
  <2> QED
    BY <1>1, <1>2, <1>4, <1>5, <2>1, <2>2 DEF HandHeld
<1>11. AcceptedDone'
  <2>1. Posted.sub = s /\ resets[s] > 0
    BY <1>1, <1>5, RestOfBatch DEF PInv, HandHeld
  <2> QED
    BY <1>1, <1>2, <1>5, <2>1 DEF PInv, AcceptedDone
<1>12. CallTypes(Dispatcher)'
  BY <1>2 DEF PInv, CallTypes
<1> QED
  BY <1>2, <1>3, <1>8, <1>9, <1>10, <1>11, <1>12 DEF PInv

LEMMA AckAcceptedPInv ==
  ASSUME PInv, AckAccepted
  PROVE  PInv'
<1> DEFINE s == push.at.sub
           id == Head(push.got)
<1>1. /\ push.pc = "accepted" /\ push' = [push EXCEPT !.pc = "acking"]
      /\ CallAcknowledge(Dispatcher, s, <<id>>)
      /\ UNCHANGED <<endpoint, accepted>>
  BY DEF AckAccepted
<1>2. /\ push' \in Working /\ push'.pc = "acking" /\ push'.got = push.got
      /\ push'.at = push.at /\ push'.todo = push.todo /\ push.got # <<>>
  BY <1>1, RestOfBatch DEF Working
<1>3. Inv /\ CallTypes(Dispatcher) /\ Dispatcher # Nobody
      /\ call[Dispatcher] = NoCall
      /\ Idle /\ owner = Nobody /\ s \in Subs
  BY <1>1, PushShape, IdleNobody, DispatcherAssumption, TasksAssumption
     DEF PInv, CallAcknowledge, AckBegin, Start, Answer
<1>4. UNCHANGED <<sub, resets>>
  BY <1>1 DEF CallAcknowledge, AckBegin, Backend
<1>5. id \in Nat \X Nat
  <2> DEFINE P == Nat \X Nat
  <2>1. push.got \in Seq(P) /\ push.got # <<>>
    BY <1>1, RestOfBatch
  <2> HIDE DEF P
  <2>2. id \in P
    BY <2>1
  <2> QED
    BY <2>2 DEF P
<1>6. /\ CallTypes(Dispatcher)' /\ call'[Dispatcher].status # "none" /\ Inv'
      /\ owner' = Dispatcher => lock'.op = "ack" /\ lock'.sub = s /\ lock'.todo = <<id>>
      /\ owner' = Nobody => lock' = Free /\ s \notin DOMAIN sub
      /\ owner' \in {Dispatcher, Nobody}
  <2>1. CASE AckBegin(s, <<id>>) /\ Start(Dispatcher)
    <3>1. /\ lock'.op = "ack" /\ lock'.sub = s /\ lock'.todo = <<id>>
          /\ owner' = Dispatcher
      BY <2>1 DEF AckBegin, Start
    <3>2. Inv'
      BY <1>3, <1>5, <2>1, OneId, AckRequestInv DEF AckBegin
    <3> QED
      BY <1>3, <2>1, <3>1, <3>2, CallStarts, DispatcherAssumption DEF Free
  <2>2. CASE s \notin DOMAIN sub /\ Answer(Dispatcher, "error") /\ UNCHANGED Backend
    <3>1. UNCHANGED vars /\ lock' = Free /\ owner' = Nobody
      BY <1>3, <2>2 DEF Backend, vars, Answer, Idle
    <3>2. Inv'
      BY <1>3, <3>1, InvStep
    <3>3. \E how \in {"ok", "error"} : Answer(Dispatcher, how) /\ UNCHANGED lock
      BY <2>2, <3>1 DEF vars
    <3>4. /\ CallTypes(Dispatcher)' /\ call'[Dispatcher].status # "none"
          /\ call'[Dispatcher].got = <<>>
      BY <1>3, <3>3, CallStarts, DispatcherAssumption
    <3> QED
      BY <1>3, <2>2, <3>1, <3>2, <3>4
  <2> QED
    BY <1>1, <2>1, <2>2 DEF CallAcknowledge
<1>7. /\ Pending = Tail(push.got) /\ Hand = push.got /\ Owed = push.got /\ Confirming
      /\ Hand' = push.got /\ Pending' = Tail(push.got)
      /\ Owed' = IF owner' = Dispatcher THEN push.got ELSE Tail(push.got)
      /\ (Confirming' <=> owner' = Dispatcher)
      /\ Posted' = Posted /\ Posted.sub = s
  BY <1>1, <1>2 DEF Pending, Hand, Owed, Confirming, Posted
<1>8. PushTypes'
  BY <1>1, <1>2, <1>6 DEF PInv, PushTypes
<1>9. PushLock'
  BY <1>2, <1>3, <1>6 DEF PushLock, Free
<1>10. HandHeld'
  <2>1. \A i \in ToSet(Tail(push.got)) : [sub |-> s, pos |-> i[1]] \notin accepted'
    BY <1>1, <1>7 DEF PInv, HandHeld
  <2>2. /\ DistinctPositions(push.got) /\ push.got # <<>> /\ resets[s] > 0
        /\ s \in DOMAIN sub => ToSet(push.got) \subseteq Ids(sub[s])
        /\ Posted \in accepted
    BY <1>1, <1>7, RestOfBatch DEF PInv, HandHeld
  <2> QED
    BY <1>1, <1>2, <1>4, <1>6, <1>7, <2>1, <2>2 DEF HandHeld
<1>11. AcceptedDone'
  BY <1>1, <1>4, <1>6, <1>7 DEF PInv, AcceptedDone
<1> QED
  BY <1>4, <1>6, <1>8, <1>9, <1>10, <1>11 DEF PInv

-----------------------------------------------------------------------------
(* What the dispatcher guarantees.                                         *)

LEMMA PInvStep == PInv /\ [DispatchNext]_<<vars, calls, pushVars>> => PInv'
<1> SUFFICES ASSUME PInv, [DispatchNext]_<<vars, calls, pushVars>> PROVE PInv'
  OBVIOUS
<1>1. CASE UNCHANGED <<vars, calls, pushVars>>
  <2>1. Inv'
    BY <1>1, InvStep DEF PInv
  <2>2. UNCHANGED <<sub, lock, resets, owner, call, endpoint, push, accepted>>
    BY <1>1 DEF vars, calls, pushVars
  <2>3. CallTypes(Dispatcher)' /\ PushTypes'
    BY <2>2 DEF PInv, CallTypes, PushTypes
  <2>4. PushLock'
    BY <2>2 DEF PInv, PushLock, Unpushed
  <2>5. /\ Hand' = Hand /\ Pending' = Pending /\ Owed' = Owed
        /\ (Confirming' <=> Confirming) /\ Posted' = Posted
    BY <2>2 DEF Hand, Pending, Owed, Confirming, Posted
  <2>6. HandHeld' /\ AcceptedDone'
    BY <2>2, <2>5 DEF PInv, HandHeld, AcceptedDone
  <2> QED
    BY <2>1, <2>2, <2>3, <2>4, <2>6 DEF PInv
<1>2. CASE DispatchNext
  BY <1>2, ServePInv, OthersPInv, ConfigPInv, WakeUpPInv, VisitPInv, PulledPInv,
     PostAcceptedPInv, PostFailedPInv, AckAcceptedPInv, AckedPInv
     DEF DispatchNext, DispatcherStep
<1> QED
  BY <1>1, <1>2

LEMMA PInvAlways == DispatchSpec => []PInv
<1>1. PInv /\ [DispatchNext]_<<vars, calls, pushVars>> => PInv'
  BY PInvStep
<1> QED
  BY <1>1, PInvInit, PTL DEF DispatchSpec

\* Push::dispatch_loop does not POST a message again that its endpoint has
\* accepted, whatever happens to leases, subscriptions and endpoints while it
\* works, as long as nobody else pulls from, acks in or seeks what is pushed.
THEOREM AcceptedNotPostedAgain == DispatchSpec => []PushedOnce
<1>1. ASSUME PInv, push.pc = "posting" PROVE Posted \notin accepted
  <2>1. Pending = push.got /\ push.got \in Seq(Nat \X Nat) /\ push.got # <<>>
    BY <1>1, RestOfBatch DEF Pending, Hand
  <2>2. Head(push.got) \in ToSet(Pending)
    BY <2>1, TailParts
  <2> QED
    BY <1>1, <2>2 DEF PInv, HandHeld, Posted
<1>2. PInv => PushedOnce
  BY <1>1 DEF PushedOnce
<1> QED
  BY <1>2, PInvAlways, PTL

-----------------------------------------------------------------------------
(* What is acked behind an endpoint.                                       *)

\* Nobody but the dispatcher consumes.
OnlyPushed == owner = Nobody => lock.op \notin {"sweep", "pull", "ack", "nack"}

\* No subscription filters or dead-letters.
AllWanted == \A s \in DOMAIN sub : /\ sub[s].spec.dead = NoDeadLetter
                                   /\ sub[s].spec.filter = Attrs

AInv ==
  /\ PInv
  /\ \A s \in DOMAIN sub : \A p \in Done(sub[s]) : [sub |-> s, pos |-> p] \in accepted

\* A pull that neither filters nor dead-letters settles nothing.
LEMMA PullSettlesNone ==
  ASSUME Inv, PullStep, AllWanted
  PROVE  /\ DOMAIN sub' \subseteq DOMAIN sub
         /\ \A r \in DOMAIN sub' : Done(sub'[r]) = Done(sub[r])
<1> DEFINE S == sub[lock.sub]
           R == Taken.rest
           p == Taken.pos
<1>1. ASSUME NEW T, lock.sub \in DOMAIN sub, sub' = [sub EXCEPT ![lock.sub] = T],
             Done(T) = Done(S)
      PROVE  /\ DOMAIN sub' \subseteq DOMAIN sub
             /\ \A r \in DOMAIN sub' : Done(sub'[r]) = Done(sub[r])
  BY <1>1
<1>2. lock.op \in {"sweep", "pull"} => lock.sub \in DOMAIN sub /\ S \in SubscriptionState
  BY PullContext
<1>3. CASE SweepExpired
  <2>1. PICK l \in S.leases : sub' = [sub EXCEPT ![lock.sub] = Expire(S, l)]
    BY <1>3 DEF SweepExpired
  <2> DEFINE T == Expire(S, l)
  <2>2. lock.sub \in DOMAIN sub /\ Done(T) = Done(S) /\ sub' = [sub EXCEPT ![lock.sub] = T]
    BY <1>2, <1>3, <2>1, LeaseEnds DEF SweepExpired
  <2> HIDE DEF T, S
  <2> QED
    BY <1>1, <2>2
<1>4. CASE SweepEnd \/ PullPanic \/ PullEnd
  BY <1>4 DEF SweepEnd, PullPanic, PullEnd, Drop
<1>5. ASSUME Takeable
      PROVE  /\ lock.sub \in DOMAIN sub /\ R \in SubscriptionState /\ p \in Position
             /\ R.acked = S.acked /\ R.lost = S.lost /\ R.leases = S.leases
             /\ R.spec = S.spec
  <2>1. lock.sub \in DOMAIN sub /\ S \in SubscriptionState
    BY <1>2, <1>5 DEF Takeable
  <2>2. R.spec = S.spec
    BY <2>1 DEF Taken, Take, SubscriptionState
  <2> QED
    BY <1>5, <2>2, TakenFresh
<1>6. CASE PullPass
  <2>1. Takeable
    BY <1>6 DEF PullPass
  <2>2. sub' = [sub EXCEPT ![lock.sub] = IF Handled(R, p) THEN R ELSE Postpone(R, p)]
    BY <1>6 DEF PullPass
  <2> DEFINE T == IF Handled(R, p) THEN R ELSE Postpone(R, p)
  <2>3. Done(T) = Done(S)
    <3> HIDE DEF R, p, S
    <3>1. Done(Postpone(R, p)) = Done(R)
      BY <1>5, <2>1 DEF Postpone, Done, SubscriptionState
    <3> QED
      BY <1>5, <2>1, <3>1 DEF Done
  <2> HIDE DEF T, S
  <2> QED
    BY <1>1, <1>5, <2>1, <2>2, <2>3 DEF T
<1>7. CASE PullDeliver
  <2>1. Takeable
    BY <1>7 DEF PullDeliver
  <2> DEFINE T == Deliver(R, p)
  <2>2. sub' = [sub EXCEPT ![lock.sub] = T]
    BY <1>7 DEF PullDeliver
  <2>3. Done(T) = Done(S)
    <3> HIDE DEF R, p, S
    <3>1. CountAttempt(R, p) \in SubscriptionState
          /\ CountAttempt(R, p).lost = R.lost /\ CountAttempt(R, p).acked = R.acked
      BY <1>5, <2>1, CountAttemptType
    <3>2. Done(T) = Done(R)
      BY <3>1 DEF Deliver, Done, SubscriptionState
    <3> QED
      BY <1>5, <2>1, <3>2 DEF Done
  <2> HIDE DEF T, S
  <2> QED
    BY <1>1, <1>5, <2>1, <2>2, <2>3
<1>8. ~PullDeadLetter
  <2>1. ASSUME PullDeadLetter PROVE FALSE
    <3>1. Takeable /\ Exhausted(R, p)
      BY <2>1 DEF PullDeadLetter
    <3> QED
      BY <1>5, <3>1 DEF Exhausted, AllWanted
  <2> QED
    BY <2>1
<1>9. ~PullFilterOut
  <2>1. ASSUME PullFilterOut PROVE FALSE
    <3>1. Takeable /\ Deliverable(R, p) /\ LogOf(R)[p].attr \notin R.spec.filter
      BY <2>1 DEF PullFilterOut
    <3>2. LogOf(R) = LogOf(S) /\ p <= Len(LogOf(S)) /\ R.spec.filter = Attrs /\ p \in 1 .. MaxLen
      BY <1>5, <3>1 DEF LogOf, Deliverable, AllWanted, Position
    <3>3. LogOf(S) \in Seq(Message) /\ Len(LogOf(S)) \in 0 .. MaxLen
      BY <3>1, PullContext DEF Takeable
    <3> DEFINE L == LogOf(S)
    <3> HIDE DEF L, p
    <3>4. L[p] \in Message
      BY <3>2, <3>3, BackendAssumption DEF L
    <3> QED
      BY <3>1, <3>2, <3>4 DEF Message, L
  <2> QED
    BY <2>1
<1> QED
  BY <1>3, <1>4, <1>6, <1>7, <1>8, <1>9 DEF PullStep

LEMMA AInvStep ==
  ASSUME AInv, OnlyPushed, AllWanted, [DispatchNext]_<<vars, calls, pushVars>>
  PROVE  AInv'
<1>1. PInv /\ PInv'
  BY PInvStep DEF AInv
<1>2. ASSUME accepted \subseteq accepted',
             \A s \in DOMAIN sub' :
               \/ s \in DOMAIN sub /\ Done(sub'[s]) \subseteq Done(sub[s])
               \/ Done(sub'[s]) = {}
      PROVE  AInv'
  BY <1>1, <1>2 DEF AInv
<1>3. CASE UNCHANGED <<sub, accepted>> \/ PostAccepted
  BY <1>2, <1>3 DEF PostAccepted, Backend
<1>4. CASE Others /\ UNCHANGED <<calls, pushVars>>
  BY <1>1, <1>2, <1>4, OthersQuiet DEF pushVars
<1>5. ASSUME NEW s \in Subs, NEW spec \in Specs, NEW e \in Configs,
             CreateWithEndpoint(s, spec, e)
      PROVE  AInv'
  <2>1. PICK c : sub' = Put(sub, s, NewSubscription(spec, c))
    BY <1>5 DEF CreateWithEndpoint, CreateSubscription
  <2>2. Done(NewSubscription(spec, c)) = {}
    BY DEF Done, NewSubscription
  <2>3. accepted' = accepted
    BY <1>5 DEF CreateWithEndpoint
  <2> QED
    BY <1>2, <2>1, <2>2, <2>3 DEF Put
<1>6. ASSUME NEW s \in Subs, NEW e \in Configs, ModifyPushConfig(s, e)
      PROVE  UNCHANGED <<sub, accepted>>
  BY <1>6 DEF ModifyPushConfig, Backend
<1>7. ASSUME WakeUp \/ Visit \/ RoundEnds \/ Pulled \/ AckAccepted \/ Acked \/ PostFailed
      PROVE  UNCHANGED <<sub, accepted>>
  BY <1>7 DEF WakeUp, Visit, RoundEnds, Pulled, AckAccepted, Acked, PostFailed, Backend,
              CallPull, PullBegin, CallAcknowledge, AckBegin, Return
<1>8. CASE Serve /\ UNCHANGED pushVars
  <2>1. LockedStep /\ accepted' = accepted /\ Inv
    BY <1>1, <1>8 DEF Serve, pushVars, PInv
  <2>2. CASE PublishStep
    BY <1>2, <2>1, <2>2, LockedElsewhere
  <2>3. CASE PullStep
    BY <1>2, <2>1, <2>3, PullSettlesNone
  <2>4. ASSUME AckStep \/ AckExpired \/ NackStep, ~PublishStep, ~PullStep PROVE AInv'
    <3>1. EndsNext /\ lock.op \in {"ack", "nack"}
      BY <2>1, <2>4, AckEnds, LockGoesOn
    <3>2. owner = Dispatcher /\ push.pc = "acking" /\ lock.sub = push.at.sub
          /\ lock.todo = <<Head(push.got)>>
      <4>1. owner = Dispatcher
        BY <1>1, <3>1 DEF OnlyPushed, PInv, CallTypes
      <4>2. push.pc \in {"pulling", "acking"}
        BY <1>1, <4>1 DEF PInv, CallTypes, PushTypes
      <4> QED
        BY <1>1, <3>1, <4>1, <4>2 DEF PInv, PushLock
    <3>3. [sub |-> lock.sub, pos |-> Head(lock.todo)[1]] \in accepted
      BY <1>1, <3>2 DEF PInv, HandHeld, Posted
    <3>4. \A s \in DOMAIN sub' : \A p \in Done(sub'[s]) :
            [sub |-> s, pos |-> p] \in accepted
      BY <3>1, <3>3 DEF AInv, EndsNext
    <3> QED
      BY <1>1, <2>1, <3>4 DEF AInv
  <2> QED
    BY <2>1, <2>2, <2>3, <2>4 DEF LockedStep
<1>9. CASE UNCHANGED <<vars, calls, pushVars>>
  BY <1>3, <1>9 DEF vars, pushVars
<1> QED
  BY <1>3, <1>4, <1>5, <1>6, <1>7, <1>8, <1>9 DEF DispatchNext, DispatcherStep

\* What is settled in a pushed subscription, its endpoint has accepted: the
\* dispatcher acks nothing else, where nobody else consumes and nothing is
\* filtered out or dead-lettered.
THEOREM NothingAckedUnseen ==
  DispatchSpec /\ []OnlyPushed /\ []AllWanted => []AckedWasAccepted
<1>1. AInv => AckedWasAccepted
  BY DEF AInv, AckedWasAccepted, Done
<1>2. DispatchInit => AInv
  <2>1. DispatchInit => sub = NoEntries
    BY DEF DispatchInit, Init
  <2> QED
    BY <2>1, PInvInit DEF AInv, NoEntries
<1>3. AInv /\ OnlyPushed /\ AllWanted /\ [DispatchNext]_<<vars, calls, pushVars>> => AInv'
  BY AInvStep
<1> QED
  BY <1>1, <1>2, <1>3, PTL DEF DispatchSpec

-----------------------------------------------------------------------------
(* StreamingPull: its invariant.                                           *)

Item == [kind : {"deliveries", "status"}, ids : Seq(Nat \X Nat)]

ClientFrame == [sub : Subs \cup {NoSub}, outstanding : Int,
                acks : Seq(Nat \X Nat), mods : Seq(Modification)]

Standing == [at : {"none", "select", "pulling", "ended"},
             sub : Subs \cup {NoSub}, batch : Nat, channel : Seq(Item)]

Framing == [at : {"frame", "acking", "mods", "modding"}, sub : Subs, batch : Nat,
            channel : Seq(Item), acks : Seq(Nat \X Nat), mods : Seq(Modification)]

Sends == [at : {"sending"}, sub : Subs \cup {NoSub}, batch : Nat,
          channel : Seq(Item), item : Item, next : {"select", "ended"}]

StreamTypes ==
  /\ stream \in Standing \cup Framing \cup Sends
  /\ stream.at = "pulling" => stream.sub \in Subs
  /\ stream.at = "modding" => stream.mods # <<>>
  /\ frames \in Seq(ClientFrame)
  /\ client \in [reads : BOOLEAN, writes : BOOLEAN, got : SUBSET (Nat \X Nat)]
  /\ call[Stream].status # "none" <=> stream.at \in {"pulling", "acking", "modding"}
  /\ call[Stream].got # <<>> => stream.at = "pulling"

\* Nobody else pulls, and what the lock's holder carries out for the stream is
\* what the stream asked for.
StreamLock ==
  /\ owner = Nobody => lock.op \notin {"sweep", "pull"}
  /\ owner = Stream => lock.op = CASE stream.at = "acking" -> "ack"
                                   [] stream.at = "modding" -> "nack"
                                   [] OTHER -> IF lock.op = "sweep" THEN "sweep" ELSE "pull"
  /\ owner = Stream /\ stream.at \in {"pulling", "acking"} => lock.sub = stream.sub
  /\ owner = Stream /\ stream.at = "acking" => ToSet(lock.todo) \subseteq ToSet(stream.acks)

\* A stream the client still reads from, and that has not failed.
Up == stream.at # "none" /\ client.reads /\ ~Failing

\* Only the frame a client opens the stream with names a subscription.
OneNames ==
  /\ \A i \in DOMAIN frames : i > 1 => frames[i].sub = NoSub
  /\ IF stream.sub = NoSub
     THEN frames # <<>> /\ frames[1].sub # NoSub /\ frames[1].acks = <<>>
     ELSE frames # <<>> => frames[1].sub = NoSub

\* Acks of the client the task has read from its frames and that have not been
\* carried out.
Owing == CASE stream.at = "frame" -> ToSet(stream.acks)
           [] stream.at = "acking" ->
                IF owner = Stream THEN ToSet(lock.todo)
                ELSE IF call[Stream].status = "error" THEN ToSet(stream.acks) ELSE {}
           [] OTHER -> {}

InItem == IF stream.at = "sending" THEN ToSet(stream.item.ids) ELSE {}

Afoot == client.got \cup InChannel \cup ToSet(call[Stream].got) \cup InItem \cup Owing
         \cup InFrames

\* The leases of the stream's subscription are where they should be, and it
\* leased nothing else.
AllReached ==
  \A s \in DOMAIN sub :
    Ids(sub[s]) \subseteq orphans \cup IF s = stream.sub THEN Afoot ELSE {}

SInv ==
  /\ Inv /\ CallTypes(Stream) /\ StreamTypes /\ StreamLock
  /\ Up => OneNames /\ AllReached

-----------------------------------------------------------------------------
(* StreamingPull: its invariant holds at the start and is kept by what     *)
(* others do.                                                              *)

LEMMA SInvInit == Init /\ CallsInit /\ StreamInit => SInv
<1> SUFFICES ASSUME Init, CallsInit, StreamInit PROVE SInv
  OBVIOUS
<1>1. Inv /\ lock = Free
  BY InvInit DEF Init
<1>2. call[Stream] = NoCall /\ NoCall \in Call /\ owner = Nobody /\ Nobody # Stream
  BY StreamAssumption, TasksAssumption DEF CallsInit, NoCall, Call
<1>3. CallTypes(Stream)
  BY <1>2 DEF CallsInit, CallTypes, NoCall
<1>4. stream \in Standing /\ stream.at = "none"
  BY DEF StreamInit, NoTask, Standing
<1>5. StreamTypes
  BY <1>2, <1>4 DEF StreamTypes, StreamInit, NoClient, NoCall
<1>6. StreamLock
  BY <1>1, <1>2 DEF StreamLock, Free
<1> QED
  BY <1>1, <1>3, <1>4, <1>5, <1>6 DEF SInv, Up

\* Only a pull leases.
LEMMA OnlyPullLeases ==
  ASSUME Inv, [Next]_vars, lock.op # "pull"
  PROVE  \A s \in DOMAIN sub' :
           \/ s \in DOMAIN sub /\ Ids(sub'[s]) \subseteq Ids(sub[s])
           \/ Ids(sub'[s]) = {}
<1>1. ~DeliverStep /\ ~FilterStep /\ ~DeadLetterStep
  BY DEF DeliverStep, FilterStep, DeadLetterStep, SettleStep, CountsDelivery, Takeable
<1>2. QuietStep
  BY <1>1, StepShape
<1>3. \A T : Restarted(T) => Ids(T) = {}
  BY DEF Restarted, Ids
<1> QED
  BY <1>2, <1>3 DEF QuietStep, QuietSub, Quieter

\* Leases only end, and what is afoot stays afoot.
LEMMA StillReached ==
  ASSUME AllReached, UNCHANGED orphans, stream'.sub = stream.sub, Afoot \subseteq Afoot',
         \A s \in DOMAIN sub' :
           \/ s \in DOMAIN sub /\ Ids(sub'[s]) \subseteq Ids(sub[s])
           \/ Ids(sub'[s]) = {}
  PROVE  AllReached'
BY DEF AllReached

\* A step of others, or of another task's operation.
LEMMA OthersLeaveStream ==
  ASSUME SInv, [Next]_vars, owner = Nobody, UNCHANGED <<calls, streamVars>>,
         lock'.op \notin {"sweep", "pull"}
  PROVE  SInv'
<1>1. UNCHANGED <<owner, call, stream, frames, client, orphans>> /\ Nobody # Stream
  BY StreamAssumption, TasksAssumption DEF calls, streamVars
<1>2. Inv /\ Inv' /\ lock.op # "pull"
  BY InvStep DEF SInv, StreamLock
<1>3. CallTypes(Stream)' /\ StreamTypes'
  BY <1>1 DEF SInv, CallTypes, StreamTypes
<1>4. StreamLock'
  BY <1>1 DEF StreamLock
<1>5. Afoot' = Afoot /\ (Up' <=> Up) /\ (OneNames' <=> OneNames)
  BY <1>1 DEF Afoot, Up, OneNames, InChannel, InItem, InFrames, Owing, Failing
<1>6. Up' => OneNames' /\ AllReached'
  BY <1>1, <1>2, <1>5, OnlyPullLeases, StillReached DEF SInv
<1> QED
  BY <1>2, <1>3, <1>4, <1>6 DEF SInv

LEMMA ElsewhereSInv ==
  ASSUME SInv, Elsewhere, UNCHANGED <<calls, streamVars>>
  PROVE  SInv'
<1>1. Next
  BY DEF Elsewhere, Next, DataPlane, Consume
<1>2. Idle /\ lock'.op \notin {"sweep", "pull"}
  <2>1. CASE Publish
    BY <2>1 DEF Publish, PublishBegin
  <2>2. ASSUME Tick \/ Seek PROVE Idle /\ UNCHANGED lock
    BY <2>2 DEF Tick, Seek, SeekToTime, SeekToSnapshot
  <2>3. ASSUME TopicAdmin PROVE Idle /\ UNCHANGED lock
    BY <2>3 DEF TopicAdmin, CreateTopic, UpdateTopic, DeleteTopic, CreateSchema,
                DeleteSchema
  <2>4. ASSUME SubscriptionAdmin PROVE Idle /\ UNCHANGED lock
    BY <2>4 DEF SubscriptionAdmin, CreateSubscription, UpdateSubscription,
                DeleteSubscription, CreateSnapshot, DeleteSnapshot
  <2>5. Idle /\ UNCHANGED lock => lock'.op \notin {"sweep", "pull"}
    BY DEF Idle, Free
  <2>6. ASSUME NEW s \in DOMAIN sub, NEW ids, NEW seconds,
               AckBegin(s, ids) \/ NackBegin(s, ids) \/ ExtendDeadline(s, ids, seconds)
        PROVE  Idle /\ lock'.op \notin {"sweep", "pull"}
    BY <2>6 DEF AckBegin, NackBegin, ExtendDeadline, Idle, Free
  <2> QED
    BY <2>1, <2>2, <2>3, <2>4, <2>5, <2>6 DEF Elsewhere
<1>3. owner = Nobody
  BY <1>2 DEF SInv, CallTypes, Idle
<1> QED
  BY <1>1, <1>2, <1>3, OthersLeaveStream

LEMMA ServeOthersSInv ==
  ASSUME SInv, Serve, UNCHANGED streamVars, owner = Nobody
  PROVE  SInv'
<1>1. LockedStep /\ UNCHANGED calls /\ Next
  BY DEF Serve, calls, Next, DataPlane
<1>2. Inv /\ lock.op \notin {"sweep", "pull"}
  BY DEF SInv, StreamLock
<1>3. lock'.op \notin {"sweep", "pull"}
  <2>1. PublishStep \/ AckStep \/ AckExpired \/ NackStep
    BY <1>1, <1>2, LockGoesOn DEF LockedStep
  <2> QED
    BY <1>1, <1>2, <2>1, LockGoesOn DEF Free
<1> QED
  BY <1>1, <1>3, OthersLeaveStream

-----------------------------------------------------------------------------
(* The operations the stream has asked for.                                *)

\* The stream's locals by what it is doing.
LEMMA StreamShape ==
  ASSUME StreamTypes
  PROVE  /\ stream.at \in {"frame", "acking", "mods", "modding"} => stream \in Framing
         /\ stream.at = "sending" => stream \in Sends
         /\ stream.at \notin {"frame", "acking", "mods", "modding", "sending"} =>
              stream \in Standing
         /\ stream.sub \in Subs \cup {NoSub} /\ stream.batch \in Nat
         /\ stream.channel \in Seq(Item)
BY DEF StreamTypes, Standing, Framing, Sends

\* What the stream has asked for goes on.
LEMMA ServeStream ==
  ASSUME SInv, Serve, UNCHANGED streamVars, owner = Stream
  PROVE  /\ Inv /\ Inv' /\ CallTypes(Stream)' /\ LockedStep /\ Nobody # Stream
         /\ owner' = IF lock' = Free THEN Nobody ELSE Stream
         /\ call'[Stream].got = call[Stream].got \o NewIds
         /\ call'[Stream].status = IF lock' # Free THEN "running"
                                   ELSE IF AckExpired THEN "error" ELSE "ok"
         /\ call'[Stream].status # "none"
         /\ call[Stream].got \in Seq(Nat \X Nat)
         /\ stream.at \in {"pulling", "acking", "modding"}
         /\ UNCHANGED <<stream, frames, client, orphans>>
<1>1. Inv /\ CallTypes(Stream) /\ Stream \in Tasks /\ StreamTypes
  BY StreamAssumption DEF SInv
<1>2. call[Stream].status = "running"
  BY <1>1 DEF CallTypes
<1>3. stream.at \in {"pulling", "acking", "modding"}
  BY <1>1, <1>2 DEF StreamTypes
<1> QED
  BY <1>1, <1>3, ServeTask DEF streamVars

\* A pull: what it leases it hands out.
LEMMA ServePullSInv ==
  ASSUME SInv, Serve, UNCHANGED streamVars, owner = Stream, stream.at = "pulling"
  PROVE  SInv'
<1> DEFINE got == call[Stream].got
<1>1. /\ Inv /\ Inv' /\ CallTypes(Stream)' /\ LockedStep /\ Nobody # Stream
      /\ owner' = IF lock' = Free THEN Nobody ELSE Stream
      /\ call'[Stream].got = got \o NewIds
      /\ call'[Stream].status # "none"
      /\ got \in Seq(Nat \X Nat)
      /\ UNCHANGED <<stream, frames, client, orphans>>
  BY ServeStream
<1>2. lock.op \in {"sweep", "pull"} /\ lock.sub = stream.sub /\ StreamTypes
  BY DEF SInv, StreamLock
<1>3. PullStep
  BY <1>1, <1>2, LockGoesOn DEF LockedStep
<1>4. lock' = Free \/ (lock'.op \in {"sweep", "pull"} /\ lock'.sub = stream.sub)
  BY <1>1, <1>2, <1>3, LockGoesOn
<1>5. StreamTypes'
  BY <1>1, <1>2 DEF StreamTypes
<1>6. StreamLock'
  BY <1>1, <1>4 DEF StreamLock, Free
<1>7. Owing = {} /\ Owing' = {} /\ InItem' = InItem /\ InChannel' = InChannel
      /\ InFrames' = InFrames /\ client'.got = client.got
  BY <1>1 DEF Owing, InItem, InChannel, InFrames
<1>8. (Up' <=> Up) /\ (OneNames' <=> OneNames)
  BY <1>1 DEF Up, Failing, OneNames
<1>9. ~PublishStep
  BY <1>2 DEF PublishStep
<1>10. /\ DOMAIN sub' \subseteq DOMAIN sub
       /\ \A r \in DOMAIN sub' : r # stream.sub => sub'[r] = sub[r]
  BY <1>1, <1>2, <1>9, LockedElsewhere
<1> DEFINE more == got \o NewIds
<1>11. /\ ToSet(got) \subseteq ToSet(more)
       /\ stream.sub \in DOMAIN sub' =>
            Ids(sub'[stream.sub]) \subseteq Ids(sub[stream.sub]) \cup ToSet(more)
  <2>1. CASE HandsNothing
    <3>1. more = got
      BY <1>1, <2>1, OneMoreId DEF HandsNothing
    <3> HIDE DEF more, got
    <3> QED
      BY <1>2, <2>1, <3>1 DEF HandsNothing
  <2>2. ASSUME NEW id, Hands(id)
        PROVE  /\ ToSet(got) \subseteq ToSet(more)
               /\ Ids(sub'[stream.sub]) \subseteq Ids(sub[stream.sub]) \cup ToSet(more)
    <3>1. /\ id \in Nat \X Nat /\ more = got \o <<id>>
          /\ Ids(sub'[stream.sub]) = Ids(sub[stream.sub]) \cup {id}
      BY <1>2, <2>2 DEF Hands
    <3>2. got \in Seq(Nat \X Nat)
      BY <1>1
    <3> HIDE DEF more, got
    <3>3. ToSet(got \o <<id>>) = ToSet(got) \cup {id}
      BY <3>1, <3>2, OneMoreId
    <3>4. ToSet(more) = ToSet(got) \cup {id}
      BY <3>1, <3>3
    <3> QED
      BY <3>1, <3>4
  <2> QED
    BY <1>1, <1>3, <2>1, <2>2, PullHands
<1>12. ToSet(more) \subseteq Afoot'
  BY <1>1, <1>7 DEF Afoot
<1>13. Afoot \subseteq Afoot'
  BY <1>1, <1>7, <1>11 DEF Afoot
<1> HIDE DEF more, got
<1>14. AllReached => AllReached'
  BY <1>1, <1>10, <1>11, <1>12, <1>13 DEF AllReached
<1> QED
  BY <1>1, <1>5, <1>6, <1>8, <1>14 DEF SInv

\* An ack: each id is owed until its lease is gone.
LEMMA ServeAckSInv ==
  ASSUME SInv, Serve, UNCHANGED streamVars, owner = Stream, stream.at = "acking"
  PROVE  SInv'
<1> DEFINE q == lock.todo
<1>1. /\ Inv /\ Inv' /\ CallTypes(Stream)' /\ LockedStep /\ Nobody # Stream
      /\ owner' = IF lock' = Free THEN Nobody ELSE Stream
      /\ call'[Stream].got = call[Stream].got \o NewIds
      /\ call'[Stream].status = IF lock' # Free THEN "running"
                                ELSE IF AckExpired THEN "error" ELSE "ok"
      /\ call'[Stream].status # "none"
      /\ call[Stream].got \in Seq(Nat \X Nat)
      /\ UNCHANGED <<stream, frames, client, orphans>>
  BY ServeStream
<1>2. lock.op = "ack" /\ lock.sub = stream.sub /\ StreamTypes
      /\ ToSet(q) \subseteq ToSet(stream.acks)
  BY DEF SInv, StreamLock
<1>3. AckStep \/ AckExpired
  BY <1>1, <1>2, LockGoesOn DEF LockedStep
<1>4. q \in Seq(Nat \X Nat) /\ q # <<>>
  BY <1>1, <1>2, LockShape DEF Inv
<1>5. ToSet(q) = {Head(q)} \cup ToSet(Tail(q))
  BY <1>4, TailParts
<1>6. call'[Stream].got = <<>> /\ call[Stream].got = <<>>
  BY <1>1, <1>2, OneMoreId DEF NewIds, StreamTypes
<1>7. \/ lock' = Free /\ AckExpired
      \/ lock' = Free /\ ~AckExpired /\ ToSet(Tail(q)) = {}
      \/ /\ lock' # Free /\ lock'.op = "ack" /\ lock'.sub = stream.sub
         /\ lock'.todo = Tail(q)
  <2>1. CASE AckExpired
    BY <1>1, <2>1, LockGoesOn
  <2>2. CASE ~AckExpired /\ lock' = Free
    <3>1. Len(q) = 1
      BY <1>1, <1>3, <2>2, LockGoesOn
    <3>2. ToSet(Tail(q)) = {}
      BY <1>4, <3>1, TailParts
    <3> QED
      BY <2>2, <3>2
  <2>3. CASE ~AckExpired /\ lock' # Free
    BY <1>1, <1>2, <1>3, <2>3, LockGoesOn
  <2> QED
    BY <2>1, <2>2, <2>3
<1> HIDE DEF q
<1>8. StreamTypes'
  BY <1>1, <1>2, <1>6 DEF StreamTypes
<1>9. StreamLock'
  <2>1. CASE lock' = Free
    BY <1>1, <2>1 DEF StreamLock, Free
  <2>2. CASE lock' # Free
    <3>1. /\ owner' = Stream /\ lock'.op = "ack" /\ lock'.sub = stream.sub
          /\ ToSet(lock'.todo) \subseteq ToSet(stream.acks)
      BY <1>1, <1>2, <1>5, <1>7, <2>2
    <3> QED
      BY <1>1, <3>1 DEF StreamLock
  <2> QED
    BY <2>1, <2>2
<1>10. Owing = ToSet(q) /\ ToSet(q) \ {Head(q)} \subseteq Owing'
  <2>1. Owing = ToSet(q)
    BY DEF Owing, q
  <2>2. Owing' = IF owner' = Stream THEN ToSet(lock'.todo)
                 ELSE IF call'[Stream].status = "error" THEN ToSet(stream.acks) ELSE {}
    BY <1>1 DEF Owing
  <2> QED
    BY <1>1, <1>2, <1>5, <1>7, <2>1, <2>2
<1>11. Afoot \ {Head(q)} \subseteq Afoot'
  <2>1. InChannel' = InChannel /\ InItem' = InItem /\ InFrames' = InFrames
        /\ client'.got = client.got
    BY <1>1 DEF InChannel, InItem, InFrames
  <2> QED
    BY <1>6, <1>10, <2>1 DEF Afoot
<1>12. /\ DOMAIN sub' = DOMAIN sub
       /\ \A r \in DOMAIN sub : r # stream.sub => sub'[r] = sub[r]
       /\ Ids(sub'[stream.sub]) \subseteq Ids(sub[stream.sub]) \ {Head(q)}
  <2>1. EndsNext
    BY <1>1, <1>3, AckEnds
  <2> QED
    BY <1>2, <2>1 DEF EndsNext, Ids, q
<1>13. AllReached => AllReached'
  BY <1>1, <1>11, <1>12 DEF AllReached
<1>14. (Up' <=> Up) /\ (OneNames' <=> OneNames)
  BY <1>1 DEF Up, Failing, OneNames
<1> QED
  BY <1>1, <1>8, <1>9, <1>13, <1>14 DEF SInv

\* A nack.
LEMMA ServeModSInv ==
  ASSUME SInv, Serve, UNCHANGED streamVars, owner = Stream, stream.at = "modding"
  PROVE  SInv'
<1>1. /\ Inv /\ Inv' /\ CallTypes(Stream)' /\ LockedStep /\ Nobody # Stream
      /\ owner' = IF lock' = Free THEN Nobody ELSE Stream
      /\ call'[Stream].got = call[Stream].got \o NewIds
      /\ call'[Stream].status # "none"
      /\ call[Stream].got \in Seq(Nat \X Nat)
      /\ UNCHANGED <<stream, frames, client, orphans>>
  BY ServeStream
<1>2. lock.op = "nack" /\ StreamTypes
  BY DEF SInv, StreamLock
<1>3. NackStep
  BY <1>1, <1>2, LockGoesOn DEF LockedStep
<1>4. lock' = Free \/ lock'.op = "nack"
  BY <1>1, <1>2, <1>3, LockGoesOn
<1>5. call'[Stream].got = call[Stream].got
  BY <1>1, <1>2, OneMoreId DEF NewIds
<1>6. StreamTypes'
  BY <1>1, <1>2, <1>5 DEF StreamTypes
<1>7. StreamLock'
  BY <1>1, <1>4 DEF StreamLock, Free
<1>8. Afoot' = Afoot /\ (Up' <=> Up) /\ (OneNames' <=> OneNames)
  <2>1. Owing = {} /\ Owing' = {}
    BY <1>1 DEF Owing
  <2> QED
    BY <1>1, <1>5, <2>1 DEF Afoot, Up, OneNames, InChannel, InItem, InFrames, Failing
<1>9. AllReached => AllReached'
  <2>1. Next /\ lock.op # "pull"
    BY <1>1, <1>2 DEF Next, DataPlane
  <2> QED
    BY <1>1, <1>8, <2>1, OnlyPullLeases, StillReached
<1> QED
  BY <1>1, <1>6, <1>7, <1>8, <1>9 DEF SInv

LEMMA ServeSInv ==
  ASSUME SInv, Serve, UNCHANGED streamVars
  PROVE  SInv'
<1>1. owner = Stream => stream.at \in {"pulling", "acking", "modding"}
  BY ServeStream
<1>2. owner \in {Nobody, Stream}
  BY DEF SInv, CallTypes
<1> QED
  BY <1>1, <1>2, ServeOthersSInv, ServePullSInv, ServeAckSInv, ServeModSInv

-----------------------------------------------------------------------------
(* The steps of the task between its calls, and those of its client.       *)

\* A step that leaves the broker and the task's calls alone.
LEMMA StreamMovesOn ==
  ASSUME SInv, UNCHANGED <<Backend, calls>>,
         \/ owner # Stream
         \/ /\ stream'.at = stream.at /\ stream'.sub = stream.sub
            /\ stream.at = "acking" => stream'.acks = stream.acks,
         StreamTypes', Up' => OneNames' /\ AllReached'
  PROVE  SInv'
<1>1. UNCHANGED <<vars, lock, owner, call>>
  BY DEF Backend, calls, vars
<1>2. Inv' /\ CallTypes(Stream)'
  BY <1>1, InvStep DEF SInv, CallTypes
<1>3. StreamLock'
  BY <1>1 DEF SInv, StreamLock
<1> QED
  BY <1>2, <1>3 DEF SInv

\* ... and may move ids from one place to another.
LEMMA IdsMoveOn ==
  ASSUME SInv, Up, UNCHANGED <<Backend, orphans>>, stream'.sub = stream.sub,
         Afoot \subseteq Afoot'
  PROVE  AllReached'
BY DEF SInv, AllReached, Backend

\* The rest of what is queued, and one thing more.
LEMMA QueueParts ==
  ASSUME NEW T, NEW q \in Seq(T)
  PROVE  /\ \A i \in DOMAIN q : i = 1 \/ i > 1
         /\ q # <<>> => /\ Tail(q) \in Seq(T) /\ Head(q) \in T
                        /\ Head(q) = q[1] /\ 1 \in DOMAIN q
                        /\ \A i \in DOMAIN Tail(q) : /\ i + 1 \in DOMAIN q /\ i + 1 > 1
                                                     /\ Tail(q)[i] = q[i + 1]
                        /\ \A i \in DOMAIN q : i > 1 => /\ i - 1 \in DOMAIN Tail(q)
                                                        /\ Tail(q)[i - 1] = q[i]
         /\ \A x \in T : /\ Append(q, x) \in Seq(T) /\ Append(q, x) # <<>>
                         /\ \A i \in DOMAIN q : /\ i \in DOMAIN Append(q, x)
                                                /\ Append(q, x)[i] = q[i]
                         /\ Len(q) + 1 \in DOMAIN Append(q, x)
                         /\ Append(q, x)[Len(q) + 1] = x
                         /\ \A i \in DOMAIN Append(q, x) :
                              (i \in DOMAIN q /\ Append(q, x)[i] = q[i])
                                \/ (i = Len(q) + 1 /\ Append(q, x)[i] = x)
OBVIOUS

\* A frame that is taken off, or put on, the queue; a response likewise.
LEMMA FrameTaken ==
  ASSUME frames \in Seq(ClientFrame), frames # <<>>, frames' = Tail(frames)
  PROVE  InFrames = ToSet(Head(frames).acks) \cup InFrames'
<1> DEFINE q == frames
<1>1. /\ Head(q) = q[1] /\ 1 \in DOMAIN q /\ \A i \in DOMAIN q : i = 1 \/ i > 1
      /\ \A i \in DOMAIN Tail(q) : i + 1 \in DOMAIN q /\ Tail(q)[i] = q[i + 1]
      /\ \A i \in DOMAIN q : i > 1 => i - 1 \in DOMAIN Tail(q) /\ Tail(q)[i - 1] = q[i]
  BY QueueParts
<1>2. InFrames' = UNION {ToSet(Tail(q)[i].acks) : i \in DOMAIN Tail(q)}
  BY DEF InFrames
<1>3. InFrames = UNION {ToSet(q[i].acks) : i \in DOMAIN q}
  BY DEF InFrames
<1>4. ASSUME NEW i \in DOMAIN q
      PROVE  ToSet(q[i].acks) \subseteq ToSet(Head(q).acks) \cup InFrames'
  BY <1>1, <1>2
<1>5. ASSUME NEW i \in DOMAIN Tail(q)
      PROVE  ToSet(Tail(q)[i].acks) \subseteq InFrames
  BY <1>1, <1>3
<1>6. ToSet(Head(q).acks) \subseteq InFrames
  BY <1>1, <1>3
<1>7. InFrames \subseteq ToSet(Head(q).acks) \cup InFrames'
  BY <1>3, <1>4
<1>8. InFrames' \subseteq InFrames
  BY <1>2, <1>5
<1> QED
  BY <1>6, <1>7, <1>8

LEMMA FrameAdded ==
  ASSUME frames \in Seq(ClientFrame), NEW f \in ClientFrame, frames' = Append(frames, f)
  PROVE  InFrames' = InFrames \cup ToSet(f.acks)
BY QueueParts DEF InFrames

LEMMA ItemTaken ==
  ASSUME stream.channel \in Seq(Item), stream.channel # <<>>,
         stream'.channel = Tail(stream.channel)
  PROVE  InChannel = ToSet(Head(stream.channel).ids) \cup InChannel'
<1> DEFINE q == stream.channel
<1>1. /\ Head(q) = q[1] /\ 1 \in DOMAIN q /\ \A i \in DOMAIN q : i = 1 \/ i > 1
      /\ \A i \in DOMAIN Tail(q) : i + 1 \in DOMAIN q /\ Tail(q)[i] = q[i + 1]
      /\ \A i \in DOMAIN q : i > 1 => i - 1 \in DOMAIN Tail(q) /\ Tail(q)[i - 1] = q[i]
  BY QueueParts
<1>2. InChannel' = UNION {ToSet(Tail(q)[i].ids) : i \in DOMAIN Tail(q)}
  BY DEF InChannel
<1>3. InChannel = UNION {ToSet(q[i].ids) : i \in DOMAIN q}
  BY DEF InChannel
<1>4. ASSUME NEW i \in DOMAIN q
      PROVE  ToSet(q[i].ids) \subseteq ToSet(Head(q).ids) \cup InChannel'
  BY <1>1, <1>2
<1>5. ASSUME NEW i \in DOMAIN Tail(q)
      PROVE  ToSet(Tail(q)[i].ids) \subseteq InChannel
  BY <1>1, <1>3
<1>6. ToSet(Head(q).ids) \subseteq InChannel
  BY <1>1, <1>3
<1>7. InChannel \subseteq ToSet(Head(q).ids) \cup InChannel'
  BY <1>3, <1>4
<1>8. InChannel' \subseteq InChannel
  BY <1>2, <1>5
<1> QED
  BY <1>6, <1>7, <1>8

LEMMA ItemAdded ==
  ASSUME stream.channel \in Seq(Item), NEW x \in Item,
         stream'.channel = Append(stream.channel, x)
  PROVE  InChannel' = InChannel \cup ToSet(x.ids)
BY QueueParts DEF InChannel

LEMMA ReceiveFrameSInv ==
  ASSUME SInv, ReceiveFrame
  PROVE  SInv'
<1> DEFINE f == Head(frames)
           name == IF f.sub = NoSub THEN stream.sub ELSE f.sub
           batch == Larger(f.outstanding)
<1>1. /\ stream \in Standing /\ stream.at = "select" /\ stream.sub \in Subs \cup {NoSub}
      /\ frames \in Seq(ClientFrame) /\ frames # <<>> /\ f \in ClientFrame
      /\ frames' = Tail(frames) /\ Tail(frames) \in Seq(ClientFrame)
      /\ UNCHANGED <<Backend, calls, client, orphans>> /\ StreamTypes
  BY StreamShape, QueueParts DEF ReceiveFrame, SInv, StreamTypes
<1>2. name \in Subs \cup {NoSub} /\ batch \in Nat
  BY <1>1, PolicyAssumption DEF Larger, ClientFrame, Standing
<1>3. stream' = IF name = NoSub THEN [stream EXCEPT !.batch = batch]
                ELSE [at |-> "frame", sub |-> name, batch |-> batch,
                      channel |-> stream.channel, acks |-> f.acks, mods |-> f.mods]
  BY DEF ReceiveFrame
<1>4. frames[1] = f /\ \A i \in DOMAIN Tail(frames) : /\ i + 1 \in DOMAIN frames /\ i + 1 > 1
                                                     /\ Tail(frames)[i] = frames[i + 1]
  BY <1>1, QueueParts
<1> HIDE DEF f, batch
<1>5. StreamTypes'
  <2>1. stream' \in Standing \cup Framing /\ stream'.at \in {"select", "frame"}
    BY <1>1, <1>2, <1>3 DEF Standing, Framing, ClientFrame
  <2> QED
    BY <1>1, <2>1 DEF StreamTypes, calls
<1>6. owner # Stream
  BY <1>1 DEF SInv, CallTypes, StreamTypes
<1>7. ASSUME Up' PROVE OneNames' /\ AllReached'
  <2>1. Up
    BY <1>1, <1>7 DEF Up, Failing
  <2>2. OneNames /\ AllReached
    BY <2>1 DEF SInv
  <2>3. name # NoSub
    BY <1>1, <1>4, <2>2 DEF OneNames
  <2>4. stream'.at = "frame" /\ stream'.sub = name /\ stream'.acks = f.acks
        /\ stream'.channel = stream.channel
    BY <1>3, <2>3
  <2>5. OneNames'
    BY <1>1, <1>4, <2>2, <2>3, <2>4 DEF OneNames
  <2>6. CASE stream.sub = NoSub
    <3>1. \A s \in DOMAIN sub : s # stream.sub
      BY <2>6, StreamAssumption DEF SInv, Inv, SubsOK
    <3>2. \A s \in DOMAIN sub : Ids(sub[s]) \subseteq orphans
      BY <2>2, <3>1 DEF AllReached
    <3>3. sub' = sub /\ orphans' = orphans
      BY <1>1 DEF Backend
    <3>4. AllReached'
      BY <3>2, <3>3 DEF AllReached
    <3> QED
      BY <2>5, <3>4
  <2>7. CASE stream.sub # NoSub
    <3>1. stream'.sub = stream.sub
      BY <1>1, <1>4, <2>2, <2>4, <2>7 DEF OneNames
    <3>2. InFrames = ToSet(f.acks) \cup InFrames'
      BY <1>1, FrameTaken DEF f
    <3>3. /\ Owing = {} /\ Owing' = ToSet(f.acks) /\ InItem = {}
          /\ InChannel' = InChannel
      BY <1>1, <2>4 DEF Owing, InItem, InChannel
    <3>4. Afoot \subseteq Afoot'
      BY <1>1, <3>2, <3>3 DEF Afoot, calls
    <3> QED
      BY <1>1, <2>1, <2>5, <3>1, <3>4, IdsMoveOn
  <2> QED
    BY <2>5, <2>6, <2>7
<1> QED
  BY <1>1, <1>5, <1>6, <1>7, StreamMovesOn

LEMMA InputEndsSInv ==
  ASSUME SInv, InputEnds \/ SendFails
  PROVE  SInv'
<1>1. /\ stream.at \in {"select", "sending"} /\ StreamTypes
      /\ UNCHANGED <<Backend, calls, frames, client, orphans>>
      /\ stream' \in {Waits("ended"), Sending(Failure, "ended")}
  BY DEF InputEnds, SendFails, SInv
<1>2. stream' \in Standing \cup Sends /\ stream'.at \in {"ended", "sending"} /\ Failing'
  <2>1. /\ stream.sub \in Subs \cup {NoSub} /\ stream.batch \in Nat
        /\ stream.channel \in Seq(Item)
    BY <1>1, StreamShape
  <2>2. Failure \in Item
    BY DEF Failure, Item
  <2> QED
    BY <1>1, <2>1, <2>2 DEF Waits, Sending, Standing, Sends, Failing
<1>3. StreamTypes'
  BY <1>1, <1>2 DEF StreamTypes, calls
<1>4. owner # Stream
  BY <1>1 DEF SInv, CallTypes, StreamTypes
<1> QED
  BY <1>1, <1>2, <1>3, <1>4, StreamMovesOn DEF Up

LEMMA SendSInv ==
  ASSUME SInv, Send
  PROVE  SInv'
<1>1. /\ stream.at = "sending" /\ stream \in Sends /\ StreamTypes
      /\ UNCHANGED <<Backend, calls, frames, client, orphans>>
      /\ stream' = [Waits(stream.next) EXCEPT !.channel = Append(@, stream.item)]
  BY StreamShape DEF Send, SInv
<1>2. /\ stream.item \in Item /\ stream.channel \in Seq(Item) /\ stream.next \in {"select", "ended"}
      /\ stream.sub \in Subs \cup {NoSub} /\ stream.batch \in Nat
  BY <1>1 DEF Sends
<1>3. stream' = [at |-> stream.next, sub |-> stream.sub, batch |-> stream.batch,
                 channel |-> Append(stream.channel, stream.item)]
  BY <1>1 DEF Waits
<1>4. stream' \in Standing /\ stream'.at \in {"select", "ended"}
  BY <1>2, <1>3, QueueParts DEF Standing
<1>5. StreamTypes'
  BY <1>1, <1>4 DEF StreamTypes, calls
<1>6. owner # Stream
  BY <1>1 DEF SInv, CallTypes, StreamTypes
<1>7. ASSUME Up' PROVE OneNames' /\ AllReached'
  <2>1. Up
    BY <1>1, <1>2, <1>3, <1>7 DEF Up, Failing
  <2>2. OneNames'
    BY <1>1, <1>3, <2>1 DEF SInv, OneNames
  <2>3. InChannel' = InChannel \cup InItem
    BY <1>1, <1>2, <1>3, ItemAdded DEF InItem
  <2>4. Owing = {} /\ Owing' = {} /\ InFrames' = InFrames
    BY <1>1, <1>4 DEF Owing, InFrames
  <2>5. Afoot \subseteq Afoot'
    BY <1>1, <2>3, <2>4 DEF Afoot, calls
  <2> QED
    BY <1>1, <1>3, <2>1, <2>2, <2>5, IdsMoveOn
<1> QED
  BY <1>1, <1>5, <1>6, <1>7, StreamMovesOn

\* The locals of the task after a change of place.
LEMMA AtShape ==
  ASSUME stream \in Framing, NEW place \in {"frame", "acking", "mods", "modding"}
  PROVE  /\ At(place) \in Framing /\ At(place).at = place
         /\ At(place).sub = stream.sub /\ At(place).channel = stream.channel
         /\ At(place).acks = stream.acks /\ At(place).mods = stream.mods
BY DEF At, Framing

LEMMA SendingShape ==
  ASSUME StreamTypes, NEW item \in Item, NEW next \in {"select", "ended"}
  PROVE  /\ Sending(item, next) \in Sends /\ Sending(item, next).at = "sending"
         /\ Sending(item, next).next = next /\ Sending(item, next).item = item
         /\ Sending(item, next).sub = stream.sub
         /\ Sending(item, next).channel = stream.channel
<1>1. /\ stream.sub \in Subs \cup {NoSub} /\ stream.batch \in Nat
      /\ stream.channel \in Seq(Item)
  BY StreamShape
<1> QED
  BY <1>1 DEF Sending, Sends

\* A call returns, and the task goes on: what is left to show.
LEMMA StreamReturns ==
  ASSUME SInv, Return(Stream), stream.at \in {"acking", "modding", "pulling"},
         UNCHANGED <<frames, client, orphans>>,
         stream' \in Standing \cup Framing \cup Sends,
         stream'.at \in {"mods", "select", "sending"},
         Up' => stream'.sub = stream.sub /\ Afoot \subseteq Afoot'
  PROVE  SInv'
<1>1. /\ UNCHANGED <<Backend, owner>> /\ owner # Stream /\ Stream \in Tasks
      /\ CallTypes(Stream)' /\ call'[Stream].status = "none" /\ call'[Stream].got = <<>>
      /\ StreamTypes /\ UNCHANGED vars
  BY StreamAssumption, CallReturns DEF SInv, Backend, vars
<1>2. Inv'
  BY <1>1, InvStep DEF SInv
<1>3. StreamTypes'
  BY <1>1 DEF StreamTypes
<1>4. StreamLock'
  BY <1>1 DEF SInv, StreamLock, Backend
<1>5. ASSUME Up' PROVE OneNames' /\ AllReached'
  <2>1. Up
    BY <1>5 DEF Up, Failing
  <2>2. OneNames'
    BY <1>5, <2>1 DEF SInv, OneNames
  <2>3. AllReached'
    BY <1>1, <1>5, <2>1, IdsMoveOn
  <2> QED
    BY <2>2, <2>3
<1> QED
  BY <1>1, <1>2, <1>3, <1>4, <1>5 DEF SInv

LEMMA AcksReturnSInv ==
  ASSUME SInv, AcksReturn
  PROVE  SInv'
<1>1. /\ stream.at = "acking" /\ stream \in Framing /\ StreamTypes
      /\ Return(Stream) /\ UNCHANGED <<frames, client, orphans>>
      /\ stream' = IF call[Stream].status = "ok" THEN At("mods")
                   ELSE Sending(Failure, "ended")
  BY StreamShape DEF AcksReturn, SInv
<1>2. /\ owner # Stream /\ call[Stream].got = <<>> /\ call'[Stream].got = <<>>
  BY <1>1, StreamAssumption, CallReturns DEF SInv, StreamTypes
<1>3. /\ stream' \in Framing \cup Sends /\ stream'.at \in {"mods", "sending"}
      /\ stream'.sub = stream.sub /\ stream'.channel = stream.channel
      /\ call[Stream].status # "ok" => Failing'
      /\ call[Stream].status = "ok" => stream'.at = "mods"
  <2>1. Failure \in Item
    BY DEF Failure, Item
  <2>2. CASE call[Stream].status = "ok"
    <3>1. stream' = At("mods")
      BY <1>1, <2>2
    <3> QED
      BY <1>1, <2>2, <3>1, AtShape
  <2>3. CASE call[Stream].status # "ok"
    <3>1. stream' = Sending(Failure, "ended")
      BY <1>1, <2>3
    <3> QED
      BY <1>1, <2>1, <2>3, <3>1, SendingShape DEF Failing
  <2> QED
    BY <2>2, <2>3
<1>4. ASSUME Up' PROVE Afoot \subseteq Afoot'
  <2>1. Owing = {} /\ InItem = {} /\ InChannel' = InChannel /\ InFrames' = InFrames
    BY <1>1, <1>2, <1>3, <1>4 DEF Owing, InItem, InChannel, InFrames, Up
  <2> QED
    BY <1>1, <1>2, <2>1 DEF Afoot
<1> QED
  BY <1>1, <1>3, <1>4, StreamReturns

LEMMA ModsReturnSInv ==
  ASSUME SInv, ModsReturn
  PROVE  SInv'
<1>1. /\ stream.at = "modding" /\ stream \in Framing /\ StreamTypes /\ stream.mods # <<>>
      /\ Return(Stream) /\ UNCHANGED <<frames, client, orphans>>
      /\ stream' = IF call[Stream].status = "ok" THEN [At("mods") EXCEPT !.mods = Tail(@)]
                   ELSE Sending(Failure, "ended")
  BY StreamShape DEF ModsReturn, SInv, StreamTypes
<1>2. call[Stream].got = <<>> /\ call'[Stream].got = <<>>
  BY <1>1, StreamAssumption, CallReturns DEF SInv, StreamTypes
<1>3. Tail(stream.mods) \in Seq(Modification)
  BY <1>1, QueueParts DEF Framing
<1>4. /\ stream' \in Framing \cup Sends /\ stream'.at \in {"mods", "sending"}
      /\ stream'.sub = stream.sub /\ stream'.channel = stream.channel
  <2>1. Failure \in Item
    BY DEF Failure, Item
  <2>2. CASE call[Stream].status = "ok"
    <3>1. stream' = [At("mods") EXCEPT !.mods = Tail(stream.mods)]
      BY <1>1, <2>2, AtShape
    <3>2. /\ At("mods") \in Framing /\ At("mods").at = "mods"
          /\ At("mods").sub = stream.sub /\ At("mods").channel = stream.channel
      BY <1>1, AtShape
    <3> QED
      BY <1>3, <3>1, <3>2 DEF Framing
  <2>3. CASE call[Stream].status # "ok"
    <3>1. stream' = Sending(Failure, "ended")
      BY <1>1, <2>3
    <3>2. /\ Sending(Failure, "ended") \in Sends /\ Sending(Failure, "ended").at = "sending"
          /\ Sending(Failure, "ended").sub = stream.sub
          /\ Sending(Failure, "ended").channel = stream.channel
      BY <1>1, <2>1, SendingShape
    <3> QED
      BY <3>1, <3>2
  <2> QED
    BY <2>2, <2>3
<1>5. Afoot \subseteq Afoot'
  <2>1. Owing = {} /\ InItem = {} /\ InChannel' = InChannel /\ InFrames' = InFrames
    BY <1>1, <1>4 DEF Owing, InItem, InChannel, InFrames
  <2> QED
    BY <1>1, <1>2, <2>1 DEF Afoot
<1> QED
  BY <1>1, <1>4, <1>5, StreamReturns

\* What was pulled waits for room in the channel.
LEMMA PullReturnsSInv ==
  ASSUME SInv, PullReturns
  PROVE  SInv'
<1> DEFINE got == call[Stream].got
<1>1. /\ stream.at = "pulling" /\ stream \in Standing /\ StreamTypes
      /\ Return(Stream) /\ UNCHANGED <<frames, client, orphans>>
      /\ stream' = IF call[Stream].status = "error" THEN Sending(Failure, "ended")
                   ELSE IF got = <<>> THEN At("select")
                   ELSE Sending(Batch(got), "select")
  BY StreamShape DEF PullReturns, SInv
<1>2. got \in Seq(Nat \X Nat)
  BY StreamAssumption DEF SInv, CallTypes, Call
<1>3. Batch(got) \in Item /\ Failure \in Item /\ Batch(got).ids = got
  BY <1>2 DEF Batch, Failure, Item
<1>4. /\ stream' \in Standing \cup Sends /\ stream'.at \in {"select", "sending"}
      /\ stream'.sub = stream.sub /\ stream'.channel = stream.channel
      /\ Failing' \/ got = <<>> \/ (stream'.at = "sending" /\ stream'.item = Batch(got))
  <2>1. CASE call[Stream].status = "error"
    BY <1>1, <1>3, <2>1 DEF Sending, Standing, Sends, Failing
  <2>2. CASE call[Stream].status # "error" /\ got = <<>>
    BY <1>1, <2>2 DEF At, Standing
  <2>3. CASE call[Stream].status # "error" /\ got # <<>>
    <3>1. stream' = Sending(Batch(got), "select")
      BY <1>1, <2>3
    <3> HIDE DEF got
    <3> QED
      BY <1>1, <1>3, <3>1 DEF Sending, Standing, Sends
  <2> QED
    BY <2>1, <2>2, <2>3
<1>5. ASSUME Up' PROVE Afoot \subseteq Afoot'
  <2>1. Owing = {} /\ InItem = {} /\ InChannel' = InChannel /\ InFrames' = InFrames
    BY <1>1, <1>4 DEF Owing, InItem, InChannel, InFrames
  <2>2. ToSet(got) \subseteq InItem'
    BY <1>3, <1>4, <1>5 DEF InItem, Up, ToSet
  <2> QED
    BY <1>1, <2>1, <2>2 DEF Afoot
<1> QED
  BY <1>1, <1>4, <1>5, StreamReturns

\* The task makes a call: what is left to show.
LEMMA StreamCalls ==
  ASSUME SInv, Inv', StreamLock', UNCHANGED <<frames, client, orphans>>,
         \/ Start(Stream) /\ lock' # Free
         \/ \E how \in {"ok", "error"} : Answer(Stream, how) /\ UNCHANGED lock,
         \/ stream.at = "select" /\ stream.sub # NoSub /\ stream' = At("pulling")
         \/ stream.at = "frame" /\ stream' = At("acking") /\ ToSet(stream.acks) \subseteq Owing'
         \/ stream.at = "mods" /\ stream' = At("modding") /\ stream.mods # <<>>,
         \A s \in DOMAIN sub' : s \in DOMAIN sub /\ Ids(sub'[s]) \subseteq Ids(sub[s])
  PROVE  SInv'
<1>1. StreamTypes /\ CallTypes(Stream) /\ Stream \in Tasks /\ call[Stream] = NoCall
  BY StreamAssumption DEF SInv, Start, Answer
<1>2. /\ CallTypes(Stream)' /\ call'[Stream].status # "none" /\ call'[Stream].got = <<>>
  BY <1>1, CallStarts
<1>3. /\ stream' \in Standing \cup Framing /\ stream'.at \in {"pulling", "acking", "modding"}
      /\ stream'.at = "pulling" => stream'.sub \in Subs
      /\ stream'.at = "modding" => stream'.mods # <<>>
      /\ stream'.sub = stream.sub /\ stream'.channel = stream.channel
  <2>1. CASE stream.at = "select" /\ stream.sub # NoSub /\ stream' = At("pulling")
    <3>1. stream \in Standing
      BY <1>1, <2>1, StreamShape
    <3> QED
      BY <2>1, <3>1 DEF At, Standing
  <2>2. CASE stream.at = "frame" /\ stream' = At("acking")
    BY <1>1, <2>2, StreamShape, AtShape
  <2>3. CASE stream.at = "mods" /\ stream' = At("modding") /\ stream.mods # <<>>
    BY <1>1, <2>3, StreamShape, AtShape
  <2> QED
    BY <2>1, <2>2, <2>3
<1>4. StreamTypes'
  BY <1>1, <1>2, <1>3 DEF StreamTypes
<1>5. ASSUME Up' PROVE OneNames' /\ AllReached'
  <2>1. Up
    <3>1. stream.at \in {"select", "frame", "mods"}
      OBVIOUS
    <3> QED
      BY <1>5, <3>1 DEF Up, Failing
  <2>2. OneNames'
    BY <1>3, <2>1 DEF SInv, OneNames
  <2>3. InItem = {} /\ InChannel' = InChannel /\ InFrames' = InFrames
    BY <1>3 DEF InItem, InChannel, InFrames
  <2>4. Owing \subseteq Owing' /\ call[Stream].got = <<>>
    BY <1>1 DEF Owing, NoCall
  <2>5. Afoot \subseteq Afoot'
    BY <1>2, <2>3, <2>4 DEF Afoot
  <2> QED
    BY <1>3, <2>1, <2>2, <2>5, StillReached DEF SInv
<1> QED
  BY <1>2, <1>4, <1>5 DEF SInv

LEMMA IntervalTickSInv ==
  ASSUME SInv, IntervalTick
  PROVE  SInv'
<1> DEFINE s == stream.sub
<1>1. /\ stream.at = "select" /\ s # NoSub /\ stream' = At("pulling")
      /\ UNCHANGED <<frames, client, orphans>> /\ CallPull(Stream, s, stream.batch)
      /\ stream \in Standing /\ Nobody # Stream
  BY StreamShape, StreamAssumption, TasksAssumption DEF IntervalTick, SInv
<1>2. s \in Subs /\ stream.batch \in Nat /\ stream'.at = "pulling" /\ stream'.sub = s
  BY <1>1 DEF Standing, At
<1>3. CASE PullBegin(s, stream.batch) /\ Start(Stream)
  <2>1. /\ lock' # Free /\ lock'.op = "sweep" /\ lock'.sub = s /\ sub' = sub
        /\ owner' = Stream
    BY <1>3 DEF PullBegin, Free, Start
  <2>2. StreamLock'
    BY <1>1, <1>2, <2>1 DEF StreamLock
  <2>3. Inv'
    BY <1>2, <1>3, PullBeginInv DEF SInv
  <2> QED
    BY <1>1, <1>3, <2>1, <2>2, <2>3, StreamCalls
<1>4. CASE Answer(Stream, "error") /\ UNCHANGED Backend
  <2>1. UNCHANGED vars /\ sub' = sub /\ UNCHANGED <<lock, owner>>
    BY <1>4 DEF Backend, vars, Answer
  <2>2. Inv' /\ owner # Stream
    BY <1>1, <1>4, <2>1, InvStep DEF SInv, CallTypes, StreamTypes
  <2>3. StreamLock'
    BY <1>1, <1>2, <2>1, <2>2 DEF SInv, StreamLock
  <2> QED
    BY <1>1, <1>4, <2>1, <2>2, <2>3, StreamCalls
<1> QED
  BY <1>1, <1>3, <1>4 DEF CallPull

LEMMA AcksOfFrameSInv ==
  ASSUME SInv, AcksOfFrame
  PROVE  SInv'
<1> DEFINE s == stream.sub
<1>1. /\ stream.at = "frame" /\ stream \in Framing /\ StreamTypes
      /\ UNCHANGED <<frames, client, orphans>> /\ Nobody # Stream
      /\ stream.acks \in Seq(Nat \X Nat)
  BY StreamShape, StreamAssumption, TasksAssumption DEF AcksOfFrame, SInv, Framing
<1>2. call[Stream].status = "none" /\ owner # Stream
  BY <1>1 DEF SInv, CallTypes, StreamTypes
<1>3. CASE stream.acks = <<>>
  <2>1. stream' = At("mods") /\ UNCHANGED <<Backend, calls>>
    BY <1>3 DEF AcksOfFrame
  <2>2. /\ stream' \in Framing /\ stream'.at = "mods" /\ stream'.sub = s
        /\ stream'.channel = stream.channel
    BY <1>1, <2>1, AtShape
  <2>3. StreamTypes'
    BY <1>1, <2>1, <2>2 DEF StreamTypes, calls
  <2>4. ASSUME Up' PROVE OneNames' /\ AllReached'
    <3>1. Up
      BY <1>1, <2>4 DEF Up, Failing
    <3>2. OneNames'
      BY <1>1, <2>2, <3>1 DEF SInv, OneNames
    <3>3. Owing = {} /\ InItem = {} /\ InChannel' = InChannel /\ InFrames' = InFrames
      BY <1>1, <1>3, <2>2 DEF Owing, InItem, InChannel, InFrames, ToSet
    <3>4. Afoot \subseteq Afoot'
      BY <1>1, <2>1, <3>3 DEF Afoot, calls
    <3> QED
      BY <1>1, <2>1, <2>2, <3>1, <3>2, <3>4, IdsMoveOn
  <2> QED
    BY <1>2, <2>1, <2>3, <2>4, StreamMovesOn
<1>4. CASE stream.acks # <<>>
  <2>1. CallAcknowledge(Stream, s, stream.acks) /\ stream' = At("acking")
    BY <1>4 DEF AcksOfFrame
  <2>2. stream'.at = "acking" /\ stream'.sub = s /\ stream'.acks = stream.acks
    BY <1>1, <2>1, AtShape
  <2>3. CASE AckBegin(s, stream.acks) /\ Start(Stream)
    <3>1. /\ lock' # Free /\ lock'.op = "ack" /\ lock'.sub = s /\ sub' = sub
          /\ owner' = Stream /\ lock'.todo = stream.acks /\ s \in DOMAIN sub
      BY <2>3 DEF AckBegin, Free, Start
    <3>2. StreamLock'
      BY <1>1, <2>2, <3>1 DEF StreamLock
    <3>3. Inv'
      BY <1>1, <1>4, <2>3, <3>1, AckRequestInv DEF SInv
    <3>4. Owing' = ToSet(stream.acks)
      BY <2>2, <3>1 DEF Owing
    <3> QED
      BY <1>1, <2>1, <2>3, <3>1, <3>2, <3>3, <3>4, StreamCalls
  <2>4. CASE Answer(Stream, "error") /\ UNCHANGED Backend
    <3>1. UNCHANGED vars /\ sub' = sub /\ UNCHANGED <<lock, owner>>
      BY <2>4 DEF Backend, vars, Answer
    <3>2. Inv'
      BY <3>1, InvStep DEF SInv
    <3>3. StreamLock'
      BY <1>1, <1>2, <2>2, <3>1 DEF SInv, StreamLock
    <3>4. call'[Stream].status = "error"
      BY <2>4, <3>1, CallStarts, StreamAssumption DEF SInv, Answer
    <3>5. Owing' = ToSet(stream.acks)
      BY <1>2, <2>2, <3>1, <3>4 DEF Owing
    <3> QED
      BY <1>1, <2>1, <2>4, <3>1, <3>2, <3>3, <3>5, StreamCalls
  <2> QED
    BY <2>1, <2>3, <2>4 DEF CallAcknowledge
<1> QED
  BY <1>3, <1>4

LEMMA ModsOfFrameSInv ==
  ASSUME SInv, ModsOfFrame
  PROVE  SInv'
<1> DEFINE s == stream.sub
           id == Head(stream.mods).id
           seconds == Head(stream.mods).seconds
<1>1. /\ stream.at = "mods" /\ stream \in Framing /\ StreamTypes
      /\ UNCHANGED <<frames, client, orphans>> /\ Nobody # Stream
      /\ stream.mods \in Seq(Modification)
  BY StreamShape, StreamAssumption, TasksAssumption DEF ModsOfFrame, SInv, Framing
<1>2. call[Stream].status = "none" /\ owner # Stream
  BY <1>1 DEF SInv, CallTypes, StreamTypes
<1>3. CASE stream.mods = <<>>
  <2>1. stream' = Waits("select") /\ UNCHANGED <<Backend, calls>>
    BY <1>3 DEF ModsOfFrame
  <2>2. /\ stream' \in Standing /\ stream'.at = "select" /\ stream'.sub = s
        /\ stream'.channel = stream.channel
    BY <1>1, <2>1 DEF Waits, Framing, Standing
  <2>3. StreamTypes'
    BY <1>1, <2>1, <2>2 DEF StreamTypes, calls
  <2>4. ASSUME Up' PROVE OneNames' /\ AllReached'
    <3>1. Up
      BY <1>1, <2>4 DEF Up, Failing
    <3>2. OneNames'
      BY <1>1, <2>2, <3>1 DEF SInv, OneNames
    <3>3. Owing = {} /\ InItem = {} /\ InChannel' = InChannel /\ InFrames' = InFrames
      BY <1>1, <2>2 DEF Owing, InItem, InChannel, InFrames
    <3>4. Afoot \subseteq Afoot'
      BY <1>1, <2>1, <3>3 DEF Afoot, calls
    <3> QED
      BY <1>1, <2>1, <2>2, <3>1, <3>2, <3>4, IdsMoveOn
  <2> QED
    BY <1>2, <2>1, <2>3, <2>4, StreamMovesOn
<1>4. CASE stream.mods # <<>>
  <2>1. CallModifyAckDeadline(Stream, s, id, seconds) /\ stream' = At("modding")
    BY <1>4 DEF ModsOfFrame
  <2>2. stream'.at = "modding" /\ stream'.sub = s
    BY <1>1, <2>1, AtShape
  <2>3. <<id>> \in Seq(Nat \X Nat) \ {<<>>}
    <3>1. Head(stream.mods) \in Modification
      BY <1>1, <1>4, QueueParts
    <3>2. id \in Nat \X Nat
      BY <3>1 DEF Modification
    <3> QED
      BY <3>2, OneId
  <2> HIDE DEF id, seconds
  <2>4. CASE NackBegin(s, <<id>>) /\ Start(Stream)
    <3>1. /\ lock' # Free /\ lock'.op = "nack" /\ lock'.sub = s /\ sub' = sub
          /\ owner' = Stream /\ s \in DOMAIN sub
      BY <2>4 DEF NackBegin, Free, Start
    <3>2. StreamLock'
      BY <1>1, <2>2, <3>1 DEF StreamLock
    <3>3. Inv'
      BY <2>3, <2>4, <3>1, AckRequestInv DEF SInv
    <3> QED
      BY <1>1, <1>4, <2>1, <2>4, <3>1, <3>2, <3>3, StreamCalls
  <2>5. CASE Answer(Stream, "error") /\ UNCHANGED Backend
    <3>1. UNCHANGED vars /\ sub' = sub /\ UNCHANGED <<lock, owner>>
      BY <2>5 DEF Backend, vars, Answer
    <3>2. Inv'
      BY <3>1, InvStep DEF SInv
    <3>3. StreamLock'
      BY <1>1, <1>2, <2>2, <3>1 DEF SInv, StreamLock
    <3> QED
      BY <1>1, <1>4, <2>1, <2>5, <3>1, <3>2, <3>3, StreamCalls
  <2>6. CASE /\ seconds \in 1 .. MaxAckDeadline /\ ExtendDeadline(s, <<id>>, seconds)
             /\ Answer(Stream, "ok")
    <3> DEFINE T == Extend(sub[s], <<id>>, seconds)
    <3>1. /\ s \in DOMAIN sub /\ sub' = [sub EXCEPT ![s] = T] /\ UNCHANGED <<lock, owner>>
      BY <2>6 DEF ExtendDeadline, Answer
    <3>2. Inv'
      BY <2>3, <2>6, <3>1, AckRequestInv DEF SInv
    <3>3. Booked(sub[s])
      BY <3>1 DEF SInv, Inv, SubsOK
    <3>4. Ids(T) \subseteq Ids(sub[s])
      BY <3>3, RestQuiet DEF Quieter
    <3> HIDE DEF T
    <3>5. \A r \in DOMAIN sub' : r \in DOMAIN sub /\ Ids(sub'[r]) \subseteq Ids(sub[r])
      BY <3>1, <3>4
    <3>6. StreamLock'
      BY <1>1, <1>2, <2>2, <3>1 DEF SInv, StreamLock
    <3> QED
      BY <1>1, <1>4, <2>1, <2>6, <3>1, <3>2, <3>5, <3>6, StreamCalls
  <2> QED
    BY <2>1, <2>4, <2>5, <2>6 DEF CallModifyAckDeadline
<1> QED
  BY <1>3, <1>4

LEMMA StreamStepSInv ==
  ASSUME SInv, StreamStep
  PROVE  SInv'
BY ReceiveFrameSInv, InputEndsSInv, AcksOfFrameSInv, AcksReturnSInv, ModsOfFrameSInv,
   ModsReturnSInv, IntervalTickSInv, PullReturnsSInv, SendSInv DEF StreamStep

-----------------------------------------------------------------------------
(* The client.                                                             *)

LEMMA FrameShape == Frame \in ClientFrame /\ Frame.sub = NoSub /\ Frame.acks = <<>>
BY DEF Frame, ClientFrame

LEMMA ConnectSInv ==
  ASSUME SInv, NEW s \in Subs, NEW n \in MaxOutstanding, Connect(s, n)
  PROVE  SInv'
<1>1. /\ stream.at \in {"none", "ended"} /\ UNCHANGED <<Backend, calls>> /\ StreamTypes
      /\ stream' = [NoTask EXCEPT !.at = "select", !.batch = DefaultBatch]
      /\ client' = [reads |-> TRUE, writes |-> TRUE, got |-> {}]
      /\ frames' = <<[Frame EXCEPT !.sub = s, !.outstanding = n]>>
      /\ orphans' = UNION {{AckId(l) : l \in sub[x].leases} : x \in DOMAIN sub}
  BY DEF Connect, SInv
<1>2. stream' \in Standing /\ stream'.at = "select" /\ stream'.sub = NoSub
  <2>1. NoTask \in Standing /\ NoTask.sub = NoSub
    BY DEF Standing, NoTask
  <2> QED
    BY <1>1, <2>1, StreamAssumption DEF Standing
<1>3. /\ frames' \in Seq(ClientFrame) /\ frames' # <<>> /\ DOMAIN frames' = {1}
      /\ frames'[1].sub # NoSub /\ frames'[1].acks = <<>>
  <2> DEFINE f == [Frame EXCEPT !.sub = s, !.outstanding = n]
  <2>1. f \in ClientFrame /\ f.sub = s /\ f.acks = <<>>
    BY FrameShape, StreamAssumption DEF ClientFrame
  <2> HIDE DEF f
  <2>2. <<f>> \in Seq(ClientFrame) /\ DOMAIN <<f>> = {1} /\ <<f>>[1] = f
    BY <2>1
  <2> QED
    BY <1>1, <2>1, <2>2, StreamAssumption DEF f
<1>4. StreamTypes'
  BY <1>1, <1>2, <1>3 DEF StreamTypes, calls
<1>5. owner # Stream
  BY <1>1 DEF SInv, CallTypes, StreamTypes
<1>6. OneNames' /\ AllReached'
  BY <1>1, <1>2, <1>3 DEF OneNames, AllReached, Ids, Backend
<1> QED
  BY <1>1, <1>4, <1>5, <1>6, StreamMovesOn

LEMMA ReadSInv ==
  ASSUME SInv, Read
  PROVE  SInv'
<1> DEFINE item == Head(stream.channel)
<1>1. /\ client.reads /\ UNCHANGED <<Backend, calls, frames, orphans>> /\ StreamTypes
      /\ stream.channel \in Seq(Item) /\ stream.channel # <<>>
      /\ client' = [client EXCEPT !.got = @ \cup ToSet(item.ids)]
      /\ stream' = [stream EXCEPT !.channel = Tail(@)]
  BY StreamShape DEF Read, SInv
<1>2. item \in Item /\ Tail(stream.channel) \in Seq(Item)
  BY <1>1, QueueParts
<1>3. ToSet(item.ids) \subseteq Nat \X Nat
  <2> DEFINE P == Nat \X Nat
             q == item.ids
  <2>1. q \in Seq(P)
    BY <1>2 DEF Item
  <2> HIDE DEF P, q
  <2>2. ToSet(q) \subseteq P
    BY <2>1 DEF ToSet
  <2> QED
    BY <2>2 DEF P, q
<1> HIDE DEF item
<1>4. /\ client' \in [reads : BOOLEAN, writes : BOOLEAN, got : SUBSET (Nat \X Nat)]
      /\ client'.reads = client.reads /\ client'.got = client.got \cup ToSet(item.ids)
  BY <1>1, <1>3 DEF StreamTypes
<1>5. /\ stream' \in Standing \cup Framing \cup Sends
      /\ stream'.at = stream.at /\ stream'.sub = stream.sub
      /\ stream'.channel = Tail(stream.channel)
      /\ stream.at \in {"frame", "acking", "mods", "modding"} =>
           stream'.acks = stream.acks /\ stream'.mods = stream.mods
      /\ stream.at = "sending" => stream'.item = stream.item /\ stream'.next = stream.next
  <2>1. CASE stream \in Standing
    BY <1>1, <1>2, <2>1 DEF Standing
  <2>2. CASE stream \in Framing
    BY <1>1, <1>2, <2>2 DEF Framing
  <2>3. CASE stream \in Sends
    BY <1>1, <1>2, <2>3 DEF Sends
  <2> QED
    BY <1>1, <2>1, <2>2, <2>3 DEF StreamTypes
<1>6. StreamTypes'
  BY <1>1, <1>4, <1>5 DEF StreamTypes, calls
<1>7. ASSUME Up' PROVE OneNames' /\ AllReached'
  <2>1. Up
    BY <1>1, <1>5, <1>7 DEF Up, Failing
  <2>2. OneNames'
    BY <1>1, <1>5, <2>1 DEF SInv, OneNames
  <2>3. InChannel = ToSet(item.ids) \cup InChannel'
    BY <1>1, <1>5, ItemTaken DEF item
  <2>4. Owing' = Owing /\ InItem' = InItem /\ InFrames' = InFrames
    BY <1>1, <1>5 DEF Owing, InItem, InFrames, calls, Backend
  <2>5. Afoot \subseteq Afoot'
    BY <1>1, <1>4, <2>3, <2>4 DEF Afoot, calls
  <2> QED
    BY <1>1, <1>5, <2>1, <2>2, <2>5, IdsMoveOn
<1> QED
  BY <1>1, <1>5, <1>6, <1>7, StreamMovesOn

LEMMA FirstOfAppended ==
  ASSUME NEW S, NEW q \in Seq(S), NEW e \in S
  PROVE  /\ Append(q, e) # <<>> /\ 1 \in DOMAIN Append(q, e)
         /\ q # <<>> => Append(q, e)[1] = q[1]
         /\ q = <<>> => Append(q, e)[1] = e
<1>1. Len(q) \in Nat /\ Len(Append(q, e)) = Len(q) + 1
  OBVIOUS
<1>2. q # <<>> => Len(q) >= 1
  OBVIOUS
<1>3. q = <<>> => Len(q) = 0
  OBVIOUS
<1> QED
  BY <1>1, <1>2, <1>3

LEMMA SendFrameSInv ==
  ASSUME SInv, NEW acks \in Seq(Nat \X Nat), NEW mods \in Seq(Modification),
         SendFrame(acks, mods)
  PROVE  SInv'
<1> DEFINE f == [Frame EXCEPT !.acks = acks, !.mods = mods]
<1>1. /\ UNCHANGED <<Backend, calls, stream, orphans>> /\ StreamTypes
      /\ frames' = Append(frames, f) /\ frames \in Seq(ClientFrame)
      /\ client' = [client EXCEPT !.got = @ \ ToSet(acks)]
  BY DEF SendFrame, SInv, StreamTypes
<1>2. f \in ClientFrame /\ f.sub = NoSub /\ f.acks = acks
  BY FrameShape DEF ClientFrame
<1> HIDE DEF f
<1>3. /\ client' \in [reads : BOOLEAN, writes : BOOLEAN, got : SUBSET (Nat \X Nat)]
      /\ client'.reads = client.reads /\ client'.got = client.got \ ToSet(acks)
  BY <1>1 DEF StreamTypes
<1>4. frames' \in Seq(ClientFrame)
  BY <1>1, <1>2, QueueParts
<1>5. StreamTypes'
  BY <1>1, <1>3, <1>4 DEF StreamTypes, calls
<1>6. ASSUME Up' PROVE OneNames' /\ AllReached'
  <2>1. Up
    BY <1>1, <1>3, <1>6 DEF Up, Failing
  <2>2. OneNames
    BY <2>1 DEF SInv
  <2>3. OneNames'
    <3>1. \A i \in DOMAIN frames' :
            (i \in DOMAIN frames /\ frames'[i] = frames[i]) \/ frames'[i].sub = NoSub
      BY <1>1, <1>2, QueueParts
    <3>2. /\ frames' # <<>> /\ 1 \in DOMAIN frames'
          /\ frames # <<>> => frames'[1] = frames[1]
          /\ frames = <<>> => frames'[1].sub = NoSub
      BY <1>1, <1>2, FirstOfAppended
    <3> QED
      BY <1>1, <2>2, <3>1, <3>2 DEF OneNames
  <2>4. InFrames' = InFrames \cup ToSet(acks)
    BY <1>1, <1>2, FrameAdded
  <2>5. Owing' = Owing /\ InItem' = InItem /\ InChannel' = InChannel
    BY <1>1 DEF Owing, InItem, InChannel, calls, Backend
  <2>6. Afoot \subseteq Afoot'
    BY <1>1, <1>3, <2>4, <2>5 DEF Afoot, calls
  <2> QED
    BY <1>1, <2>1, <2>3, <2>6, IdsMoveOn
<1> QED
  BY <1>1, <1>5, <1>6, StreamMovesOn

LEMMA FinishSendingSInv ==
  ASSUME SInv, FinishSending
  PROVE  SInv'
<1>1. /\ UNCHANGED <<Backend, calls, stream, frames, orphans>> /\ StreamTypes
      /\ client' = [client EXCEPT !.writes = FALSE]
  BY DEF FinishSending, SInv
<1>2. /\ client' \in [reads : BOOLEAN, writes : BOOLEAN, got : SUBSET (Nat \X Nat)]
      /\ client'.reads = client.reads /\ client'.got = client.got
  BY <1>1 DEF StreamTypes
<1>3. StreamTypes'
  BY <1>1, <1>2 DEF StreamTypes, calls
<1>4. ASSUME Up' PROVE OneNames' /\ AllReached'
  <2>1. Up
    BY <1>1, <1>2, <1>4 DEF Up, Failing
  <2>2. OneNames'
    BY <1>1, <2>1 DEF SInv, OneNames
  <2>3. Owing' = Owing /\ InItem' = InItem /\ InChannel' = InChannel /\ InFrames' = InFrames
    BY <1>1 DEF Owing, InItem, InChannel, InFrames, calls, Backend
  <2>4. Afoot \subseteq Afoot'
    BY <1>1, <1>2, <2>3 DEF Afoot, calls
  <2> QED
    BY <1>1, <2>1, <2>2, <2>4, IdsMoveOn
<1> QED
  BY <1>1, <1>3, <1>4, StreamMovesOn

\* A client that is gone is promised nothing.
LEMMA ClientGoneSInv ==
  ASSUME SInv, HangUp \/ SeesEnd
  PROVE  SInv'
<1>1. /\ UNCHANGED <<Backend, calls, stream, orphans>> /\ StreamTypes
      /\ client' = NoClient /\ frames' \in Prefixes(frames) \cup {<<>>}
  BY DEF HangUp, SeesEnd, SInv
<1>2. frames' \in Seq(ClientFrame)
  <2>1. \A i \in 0 .. Len(frames) : SubSeq(frames, 1, i) \in Seq(ClientFrame)
    BY <1>1 DEF StreamTypes
  <2>2. <<>> \in Seq(ClientFrame)
    OBVIOUS
  <2>3. \A q \in Prefixes(frames) : q \in Seq(ClientFrame)
    BY <2>1 DEF Prefixes
  <2> QED
    BY <1>1, <2>2, <2>3
<1>3. client' \in [reads : BOOLEAN, writes : BOOLEAN, got : SUBSET (Nat \X Nat)]
  BY <1>1 DEF NoClient
<1>4. StreamTypes' /\ ~Up'
  BY <1>1, <1>2, <1>3 DEF StreamTypes, calls, Up, NoClient
<1> QED
  BY <1>1, <1>4, StreamMovesOn

LEMMA ClientStepSInv ==
  ASSUME SInv, ClientStep
  PROVE  SInv'
BY ConnectSInv, ReadSInv, SendFrameSInv, FinishSendingSInv, ClientGoneSInv DEF ClientStep

LEMMA SInvStep == SInv /\ [StreamingNext]_<<vars, calls, streamVars>> => SInv'
<1> SUFFICES ASSUME SInv, [StreamingNext]_<<vars, calls, streamVars>> PROVE SInv'
  OBVIOUS
<1>1. CASE Serve /\ UNCHANGED streamVars
  BY <1>1, ServeSInv
<1>2. CASE Elsewhere /\ UNCHANGED <<calls, streamVars>>
  BY <1>2, ElsewhereSInv
<1>3. CASE StreamStep \/ ClientStep
  BY <1>3, StreamStepSInv, ClientStepSInv
<1>4. CASE UNCHANGED <<vars, calls, streamVars>>
  <2>1. UNCHANGED <<Backend, calls, stream, frames, client, orphans>>
    BY <1>4 DEF vars, Backend, streamVars
  <2>2. StreamTypes'
    BY <2>1 DEF SInv, StreamTypes, calls
  <2>3. (Up' <=> Up) /\ (OneNames' <=> OneNames) /\ Afoot' = Afoot
    BY <2>1 DEF Up, Failing, OneNames, Afoot, Owing, InItem, InChannel, InFrames, calls, Backend
  <2>4. Up => AllReached'
    BY <2>1, <2>3, IdsMoveOn
  <2> QED
    BY <2>1, <2>2, <2>3, <2>4, StreamMovesOn DEF SInv
<1> QED
  BY <1>1, <1>2, <1>3, <1>4 DEF StreamingNext

\* While a stream is up each lease it took is with its client, in the channel,
\* in the task's hands, or on its way back in a frame: the task of
\* streaming_pull drops no delivery and no ack, however its calls, its client
\* and the rest of the broker interleave.
THEOREM NoDeliveryStrays == StreamingSpec => []LeaseReachable
<1>1. Init /\ CallsInit /\ StreamInit => SInv
  BY SInvInit
<1>2. SInv => LeaseReachable
  <2> SUFFICES ASSUME SInv, Up, NEW s \in DOMAIN sub, NEW l \in sub[s].leases
               PROVE  AckId(l) \in orphans \cup client.got \cup InChannel \cup InHands
                                     \cup InFrames
    BY DEF LeaseReachable, Up
  <2>1. AckId(l) \in orphans \cup Afoot
    BY DEF SInv, AllReached, Ids
  <2>2. Owing \subseteq InHands /\ InItem \subseteq InHands
        /\ ToSet(call[Stream].got) \subseteq InHands
    <3>1. Owing \subseteq IF stream.at \in {"frame", "acking"} THEN ToSet(stream.acks) ELSE {}
      BY DEF Owing, SInv, StreamLock
    <3> QED
      BY <3>1 DEF InHands, InItem
  <2> QED
    BY <2>1, <2>2 DEF Afoot
<1> QED
  BY <1>1, <1>2, SInvStep, PTL DEF StreamingSpec
=============================================================================

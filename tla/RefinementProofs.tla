-------------------------- MODULE RefinementProofs --------------------------
(***************************************************************************)
(* Each subscription of the broker implements AtLeastOnce, for any number  *)
(* of topics, subscriptions and messages and for any policy.               *)
(*                                                                         *)
(* Ready and held messages of the abstract subscription are not where the  *)
(* code keeps them: ready ones are in the retry queue or past the cursor.  *)
(* But the books are in order (CInv), so the ready messages are those from *)
(* the start on that are neither leased, acked nor lost (ReadyView), and a *)
(* step is known by what it does to these three sets.                      *)
(***************************************************************************)
EXTENDS BackendProofs

Size(s) == Len(LogOf(sub[s]))

Ready(S, n) == (S.start + 1 .. n) \ (S.acked \cup Leased(S) \cup S.lost)

\* What the abstract state is a function of, apart from the size of the log.
Places(S) == <<S.start, S.acked, Leased(S), S.lost>>

PromiseStep(s) == Promise(s)!Next \/ UNCHANGED Promise(s)!vars

-----------------------------------------------------------------------------
(* The abstract state.                                                     *)

LEMMA ReadyView ==
  ASSUME NEW S, Booked(S), NEW n \in Nat, S.cursor <= n
  PROVE  /\ Waiting(S) \cup (S.cursor + 1 .. n) = Ready(S, n)
         /\ S.acked \cup Leased(S) \cup S.lost \subseteq S.start + 1 .. n
         /\ S.start \in Nat /\ S.start <= n
<1>1. S.start \in Nat /\ S.cursor \in Nat /\ S.start <= S.cursor
  BY BackendAssumption DEF Booked, SubscriptionState
<1> DEFINE a == S.acked
           h == Leased(S)
           q == Waiting(S)
           o == S.lost
<1>2. a \cup h \cup q \cup o = S.start + 1 .. S.cursor
  BY DEF Booked, Accounted, Passed
<1>3. q \cap (a \cup h \cup o) = {}
  BY DEF Booked, InOnePlace
<1> HIDE DEF a, h, q, o
<1>4. \A x : x \in S.start + 1 .. n <=>
             x \in S.start + 1 .. S.cursor \/ x \in S.cursor + 1 .. n
  BY <1>1
<1>5. \A x : ~(x \in S.start + 1 .. S.cursor /\ x \in S.cursor + 1 .. n)
  BY <1>1
<1>6. q \cup (S.cursor + 1 .. n) = (S.start + 1 .. n) \ (a \cup h \cup o)
  BY <1>2, <1>3, <1>4, <1>5
<1>7. a \cup h \cup o \subseteq S.start + 1 .. n /\ S.start <= n
  BY <1>1, <1>2, <1>4
<1> QED
  BY <1>1, <1>6, <1>7 DEF Ready, a, h, q, o

\* The subscription as AtLeastOnce sees it, before a step ...
LEMMA View ==
  ASSUME CInv, NEW s, Live(s)
  PROVE  /\ Waiting(sub[s]) \cup Unread(sub[s]) = Ready(sub[s], Size(s))
         /\ sub[s].acked \cup Leased(sub[s]) \cup sub[s].lost
              \subseteq sub[s].start + 1 .. Size(s)
         /\ Size(s) \in Nat /\ sub[s].start \in Nat
         /\ sub[s].start <= Size(s) /\ sub[s].cursor <= Size(s)
<1>1. /\ Booked(sub[s]) /\ sub[s].spec.topic \in DOMAIN topic
      /\ sub[s].cursor <= Size(s)
  BY DEF Live, CInv, CursorInRange, Inv, SubsOK, Size
<1>2. Size(s) \in Nat
  BY <1>1 DEF CInv, Inv, TopicsOK, TopicState, LogOf, Size
<1> QED
  BY <1>1, <1>2, ReadyView DEF Unread, Size

\* ... and after it.
LEMMA ViewAfter ==
  ASSUME CInv', NEW s, Live(s)'
  PROVE  /\ (Waiting(sub[s]) \cup Unread(sub[s]))' = Ready(sub'[s], Size(s)')
         /\ Size(s)' \in Nat /\ sub'[s].start \in Nat /\ sub'[s].cursor <= Size(s)'
<1>1. /\ Booked(sub'[s]) /\ sub'[s].spec.topic \in DOMAIN topic'
      /\ sub'[s].cursor <= Size(s)'
  BY DEF Live, CInv, CursorInRange, Inv, SubsOK, Size
<1>2. Size(s)' \in Nat
  BY <1>1 DEF CInv, Inv, TopicsOK, TopicState, LogOf, Size
<1>3. Waiting(sub'[s]) \cup (sub'[s].cursor + 1 .. Size(s)') = Ready(sub'[s], Size(s)')
  BY <1>1, <1>2, ReadyView
<1>4. (Waiting(sub[s]) \cup Unread(sub[s]))'
        = Waiting(sub'[s]) \cup (sub'[s].cursor + 1 .. Size(s)')
  BY DEF Waiting, Unread, Size
<1> QED
  BY <1>1, <1>2, <1>3, <1>4, ReadyView

-----------------------------------------------------------------------------
(* Steps of the abstract subscription.                                     *)

LEMMA Stutter ==
  ASSUME CInv, CInv', NEW s, Live(s) <=> Live(s)',
         Live(s) => Places(sub'[s]) = Places(sub[s]) /\ Size(s)' = Size(s)
  PROVE  PromiseStep(s)
<1>1. CASE Live(s)
  <2>1. /\ Waiting(sub[s]) \cup Unread(sub[s]) = Ready(sub[s], Size(s))
        /\ (Waiting(sub[s]) \cup Unread(sub[s]))' = Ready(sub'[s], Size(s)')
    BY <1>1, View, ViewAfter
  <2>2. Ready(sub'[s], Size(s)') = Ready(sub[s], Size(s))
    BY <1>1 DEF Places, Ready
  <2> QED
    BY <1>1, <2>1, <2>2 DEF PromiseStep, Promise!vars, Places, Size, Leased
<1>2. CASE ~Live(s)
  <2>1. UNCHANGED Promise(s)!vars
    BY <1>2 DEF Promise!vars, Live
  <2> QED
    BY <2>1 DEF PromiseStep
<1> QED
  BY <1>1, <1>2

LEMMA Closes ==
  ASSUME NEW s, ~Live(s)'
  PROVE  PromiseStep(s)
BY DEF PromiseStep, Promise!Next, Promise!Close, Promise!Closed

LEMMA Opens ==
  ASSUME CInv', NEW s, Live(s)', Places(sub'[s]) = <<sub'[s].cursor, {}, {}, {}>>,
         Live(s) => Size(s)' = Size(s)
  PROVE  PromiseStep(s)
<1> DEFINE c == sub'[s].cursor
           n == Size(s)'
<1>1. /\ (Waiting(sub[s]) \cup Unread(sub[s]))' = Ready(sub'[s], n)
      /\ n \in Nat /\ c \in Nat /\ c <= n
  BY ViewAfter DEF Places
<1>2. Ready(sub'[s], n) = c + 1 .. n
  BY DEF Places, Ready
<1> HIDE DEF c, n
<1>3. c + 1 .. n \subseteq 1 .. n /\ \A p \in c + 1 .. n : p .. n \subseteq c + 1 .. n
  BY <1>1
<1>4. Promise(s)!Fresh'
  BY <1>1, <1>2, <1>3 DEF Promise!Fresh, Places, n, Size, Leased
<1>5. Promise(s)!Open
  BY <1>4 DEF Promise!Open, Size
<1> QED
  BY <1>5 DEF PromiseStep, Promise!Next

LEMMA Arrives ==
  ASSUME CInv, CInv', NEW s, Live(s), Live(s)',
         Places(sub'[s]) = Places(sub[s]), Size(s)' = Size(s) + 1
  PROVE  PromiseStep(s)
<1> DEFINE S == sub[s]
           T == sub'[s]
           n == Size(s)
<1>1. /\ Waiting(S) \cup Unread(S) = Ready(S, n)
      /\ S.acked \cup Leased(S) \cup S.lost \subseteq S.start + 1 .. n
      /\ n \in Nat /\ S.start \in Nat /\ S.start <= n
      /\ (Waiting(sub[s]) \cup Unread(sub[s]))' = Ready(T, n + 1)
  BY View, ViewAfter
<1> HIDE DEF n
<1>2. /\ S.start + 1 .. n + 1 = (S.start + 1 .. n) \cup {n + 1}
      /\ n + 1 \notin S.start + 1 .. n
  BY <1>1
<1>3. Ready(T, n + 1) = Ready(S, n) \cup {n + 1}
  BY <1>1, <1>2 DEF Places, Ready
<1>4. Promise(s)!Arrive
  BY <1>1, <1>3 DEF Promise!Arrive, Places, n, Size, Leased
<1> QED
  BY <1>4 DEF PromiseStep, Promise!Next

\* A message goes from ready to held ...
LEMMA Delivers ==
  ASSUME CInv, CInv', NEW s, Live(s), Live(s)', Size(s)' = Size(s),
         NEW p \in Ready(sub[s], Size(s)),
         Places(sub'[s]) = <<sub[s].start, sub[s].acked, Leased(sub[s]) \cup {p},
                             sub[s].lost>>
  PROVE  PromiseStep(s)
<1> DEFINE S == sub[s]
           T == sub'[s]
           n == Size(s)
<1>1. /\ Waiting(S) \cup Unread(S) = Ready(S, n)
      /\ n \in Nat /\ S.start \in Nat
      /\ (Waiting(sub[s]) \cup Unread(sub[s]))' = Ready(T, n)
  BY View, ViewAfter
<1> HIDE DEF n
<1>2. Ready(T, n) = Ready(S, n) \ {p}
  BY DEF Places, Ready
<1>3. p \in 1 .. n
  BY <1>1 DEF Ready, n
<1>4. Promise(s)!Deliver(p)
  BY <1>1, <1>2 DEF Promise!Deliver, Places, n, Size, Leased
<1> QED
  BY <1>3, <1>4 DEF PromiseStep, Promise!Next, n, Size
\* ... from held to ready, done or dropped ...
LEMMA GivesBack ==
  ASSUME CInv, CInv', NEW s, Live(s), Live(s)', Size(s)' = Size(s),
         NEW p \in Leased(sub[s]), p \notin sub[s].acked \cup sub[s].lost,
         Places(sub'[s]) = <<sub[s].start, sub[s].acked, Leased(sub[s]) \ {p},
                             sub[s].lost>>
  PROVE  PromiseStep(s)
<1> DEFINE S == sub[s]
           T == sub'[s]
           n == Size(s)
<1>1. /\ Waiting(S) \cup Unread(S) = Ready(S, n)
      /\ S.acked \cup Leased(S) \cup S.lost \subseteq S.start + 1 .. n
      /\ n \in Nat /\ S.start \in Nat
      /\ (Waiting(sub[s]) \cup Unread(sub[s]))' = Ready(T, n)
  BY View, ViewAfter
<1> HIDE DEF n
<1>2. Ready(T, n) = Ready(S, n) \cup {p}
  BY <1>1 DEF Places, Ready
<1>3. p \in 1 .. n
  BY <1>1 DEF n
<1>4. Promise(s)!GiveBack(p)
  BY <1>1, <1>2 DEF Promise!GiveBack, Places, n, Size, Leased
<1> QED
  BY <1>3, <1>4 DEF PromiseStep, Promise!Next, n, Size

LEMMA Acknowledges ==
  ASSUME CInv, CInv', NEW s, Live(s), Live(s)', Size(s)' = Size(s),
         NEW p \in Leased(sub[s]), p \notin sub[s].acked \cup sub[s].lost,
         Places(sub'[s]) = <<sub[s].start, sub[s].acked \cup {p},
                             Leased(sub[s]) \ {p}, sub[s].lost>>
  PROVE  PromiseStep(s)
<1> DEFINE S == sub[s]
           T == sub'[s]
           n == Size(s)
<1>1. /\ Waiting(S) \cup Unread(S) = Ready(S, n)
      /\ S.acked \cup Leased(S) \cup S.lost \subseteq S.start + 1 .. n
      /\ n \in Nat /\ S.start \in Nat
      /\ (Waiting(sub[s]) \cup Unread(sub[s]))' = Ready(T, n)
  BY View, ViewAfter
<1> HIDE DEF n
<1>2. Ready(T, n) = Ready(S, n)
  BY <1>1 DEF Places, Ready
<1>3. p \in 1 .. n
  BY <1>1 DEF n
<1>4. Promise(s)!Acknowledge(p)
  BY <1>1, <1>2 DEF Promise!Acknowledge, Places, n, Size, Leased
<1> QED
  BY <1>3, <1>4 DEF PromiseStep, Promise!Next, n, Size

LEMMA AcksLate ==
  ASSUME CInv, CInv', NEW s, Live(s), Live(s)', Size(s)' = Size(s),
         NEW p \in Leased(sub[s]), p \notin sub[s].acked \cup sub[s].lost,
         Places(sub'[s]) = <<sub[s].start, sub[s].acked, Leased(sub[s]) \ {p},
                             sub[s].lost \cup {p}>>
  PROVE  PromiseStep(s)
<1> DEFINE S == sub[s]
           T == sub'[s]
           n == Size(s)
<1>1. /\ Waiting(S) \cup Unread(S) = Ready(S, n)
      /\ S.acked \cup Leased(S) \cup S.lost \subseteq S.start + 1 .. n
      /\ n \in Nat /\ S.start \in Nat
      /\ (Waiting(sub[s]) \cup Unread(sub[s]))' = Ready(T, n)
  BY View, ViewAfter
<1> HIDE DEF n
<1>2. Ready(T, n) = Ready(S, n)
  BY <1>1 DEF Places, Ready
<1>3. p \in 1 .. n
  BY <1>1 DEF n
<1>4. Promise(s)!LateAck(p)
  BY <1>1, <1>2 DEF Promise!LateAck, Places, n, Size, Leased
<1> QED
  BY <1>3, <1>4 DEF PromiseStep, Promise!Next, n, Size

\* ... or from ready to done, with a copy to the topic it came from or without.
LEMMA Retires ==
  ASSUME CInv, CInv', NEW s, Live(s), Live(s)',
         Size(s)' = Size(s) \/ Size(s)' = Size(s) + 1,
         NEW p \in Ready(sub[s], Size(s)),
         Places(sub'[s]) = <<sub[s].start, sub[s].acked \cup {p}, Leased(sub[s]),
                             sub[s].lost>>
  PROVE  PromiseStep(s)
<1> DEFINE S == sub[s]
           T == sub'[s]
           n == Size(s)
           m == Size(s)'
<1>1. /\ Waiting(S) \cup Unread(S) = Ready(S, n)
      /\ S.acked \cup Leased(S) \cup S.lost \subseteq S.start + 1 .. n
      /\ n \in Nat /\ S.start \in Nat /\ S.start <= n
      /\ (Waiting(sub[s]) \cup Unread(sub[s]))' = Ready(T, m)
  BY View, ViewAfter
<1>2. p \in 1 .. n
  BY <1>1 DEF Ready
<1>3. CASE m = n
  <2>1. Ready(T, n) = Ready(S, n) \ {p}
    BY DEF Places, Ready
  <2>2. Promise(s)!Retire(p)
    BY <1>1, <1>3, <2>1 DEF Promise!Retire, Places, Size, Leased
  <2> QED
    BY <1>2, <2>2 DEF PromiseStep, Promise!Next, Size
<1>4. CASE m = n + 1
  <2> HIDE DEF n, m
  <2>1. /\ S.start + 1 .. n + 1 = (S.start + 1 .. n) \cup {n + 1}
        /\ n + 1 \notin S.start + 1 .. n /\ p # n + 1
    BY <1>1, <1>2
  <2>2. Ready(T, n + 1) = (Ready(S, n) \ {p}) \cup {n + 1}
    BY <1>1, <2>1 DEF Places, Ready
  <2>3. p \in Ready(S, n)
    BY DEF n
  <2>4. Promise(s)!Recycle(p)
    BY <1>1, <1>4, <2>2, <2>3 DEF Promise!Recycle, Places, n, m, Size, Leased
  <2> QED
    BY <1>2, <2>4 DEF PromiseStep, Promise!Next, n, Size
<1> QED
  BY <1>3, <1>4
-----------------------------------------------------------------------------
(* What the operations do to the places of a subscription.                 *)

LEMMA FreshPlaces ==
  ASSUME NEW S, NEW spec, NEW cursor
  PROVE  /\ Places(NewSubscription(spec, cursor)) = <<cursor, {}, {}, {}>>
         /\ NewSubscription(spec, cursor).cursor = cursor
         /\ Places(Sought(S, cursor)) = <<cursor, {}, {}, {}>>
         /\ Sought(S, cursor).cursor = cursor
BY DEF NewSubscription, Sought, Places, Leased

LEMMA LeasePlaces ==
  ASSUME NEW S, Booked(S), NEW l \in S.leases
  PROVE  /\ l.pos \in Leased(S) /\ l.pos \notin S.acked \cup S.lost
         /\ Places(Ack(S, l)) = <<S.start, S.acked \cup {l.pos},
                                  Leased(S) \ {l.pos}, S.lost>>
         /\ Places(Forget(S, l)) = <<S.start, S.acked, Leased(S) \ {l.pos},
                                     S.lost \cup {l.pos}>>
         /\ Places(Nack(S, l)) = <<S.start, S.acked, Leased(S) \ {l.pos}, S.lost>>
         /\ Places(Expire(S, l)) = <<S.start, S.acked, Leased(S) \ {l.pos}, S.lost>>
<1>1. S \in SubscriptionState /\ \A m, n \in S.leases : m.pos = n.pos => m = n
  BY DEF Booked, InOnePlace
<1>2. l.pos \in Leased(S) /\ l.pos \notin S.acked \cup S.lost
  BY DEF Booked, InOnePlace, Leased
<1>3. {m.pos : m \in S.leases \ {l}} = Leased(S) \ {l.pos}
  BY <1>1 DEF Leased
<1> QED
  BY <1>1, <1>2, <1>3 DEF Places, Leased, Ack, Forget, Nack, Expire, SubscriptionState

LEMMA SameLeased ==
  ASSUME NEW S, Booked(S)
  PROVE  /\ Places(Aged(S)) = Places(S)
         /\ \A ids, seconds : Places(Extend(S, ids, seconds)) = Places(S)
         /\ \A x : Places([S EXCEPT !.spec = x]) = Places(S)
<1>1. S \in SubscriptionState
  BY DEF Booked
<1>2. Places(Aged(S)) = Places(S)
  <2>1. \A l \in S.leases : OlderLease(l).pos = l.pos
    BY <1>1 DEF OlderLease, SubscriptionState, Lease
  <2>2. /\ Aged(S).leases = {OlderLease(l) : l \in S.leases}
        /\ Aged(S).start = S.start /\ Aged(S).acked = S.acked /\ Aged(S).lost = S.lost
    BY <1>1 DEF Aged, SubscriptionState
  <2>3. Leased(Aged(S)) = Leased(S)
    BY <2>1, <2>2 DEF Leased
  <2> QED
    BY <2>2, <2>3 DEF Places
<1>3. ASSUME NEW ids, NEW seconds
      PROVE  Places(Extend(S, ids, seconds)) = Places(S)
  <2> DEFINE E == Extend(S, ids, seconds)
             ext(l) == IF \E i \in DOMAIN ids : ids[i] = AckId(l)
                       THEN [l EXCEPT !.left = seconds] ELSE l
  <2>1. \A l \in S.leases : ext(l).pos = l.pos
    BY <1>1 DEF SubscriptionState, Lease
  <2>2. /\ E.leases = {ext(l) : l \in S.leases}
        /\ E.start = S.start /\ E.acked = S.acked /\ E.lost = S.lost
    BY <1>1 DEF Extend, SubscriptionState
  <2> HIDE DEF E, ext
  <2>3. Leased(E) = Leased(S)
    BY <2>1, <2>2 DEF Leased
  <2> QED
    BY <2>2, <2>3 DEF Places, E
<1>4. \A x : Places([S EXCEPT !.spec = x]) = Places(S)
  BY <1>1 DEF Places, Leased, SubscriptionState
<1> QED
  BY <1>2, <1>3, <1>4

LEMMA InHandPlaces ==
  ASSUME NEW R, NEW p, InHand(R, p)
  PROVE  /\ p \in R.start + 1 .. R.cursor
         /\ p \notin R.acked \cup Leased(R) \cup R.lost
         /\ Places(Postpone(R, p)) = Places(R)
         /\ Places(Settle(R, p)) = <<R.start, R.acked \cup {p}, Leased(R), R.lost>>
         /\ Places(Deliver(R, p)) = <<R.start, R.acked, Leased(R) \cup {p}, R.lost>>
<1>1. R \in SubscriptionState /\ p \in Position
  BY DEF InHand
<1>2. PICK P : /\ p \notin P /\ P \cup {p} = Passed(R)
               /\ Sound(R.acked, R.leases, R.retry, R.lost, P)
  BY DEF InHand
<1>3. p \in R.start + 1 .. R.cursor /\ p \notin R.acked \cup Leased(R) \cup R.lost
  BY <1>2 DEF Passed, Sound, Apart, Held, Leased
<1>4. /\ CountAttempt(R, p) \in SubscriptionState
      /\ CountAttempt(R, p).start = R.start /\ CountAttempt(R, p).acked = R.acked
      /\ CountAttempt(R, p).leases = R.leases /\ CountAttempt(R, p).lost = R.lost
  BY <1>1, CountAttemptType
<1>5. Places(Postpone(R, p)) = Places(R)
  BY <1>1 DEF Postpone, Places, Leased, SubscriptionState
<1>6. Places(Settle(R, p)) = <<R.start, R.acked \cup {p}, Leased(R), R.lost>>
  BY <1>4 DEF Settle, Places, Leased, SubscriptionState
<1>7. Places(Deliver(R, p)) = <<R.start, R.acked, Leased(R) \cup {p}, R.lost>>
  <2> DEFINE l == [pos |-> p, attempt |-> NextAttempt(R, p),
                   left |-> NormalizeAckDeadline(R.spec.deadline)]
             D == Deliver(R, p)
  <2>1. /\ D.leases = R.leases \cup {l} /\ l.pos = p
        /\ D.start = R.start /\ D.acked = R.acked /\ D.lost = R.lost
    BY <1>4 DEF Deliver, SubscriptionState
  <2> HIDE DEF l, D
  <2>2. Leased(D) = Leased(R) \cup {p}
    BY <2>1 DEF Leased
  <2> QED
    BY <2>1, <2>2 DEF Places, D
<1> QED
  BY <1>3, <1>5, <1>6, <1>7

\* Taking a message moves none.
LEMMA TakenPlaces ==
  ASSUME CInv, Takeable
  PROVE  LET S == sub[lock.sub]
             R == Taken.rest
         IN  /\ R.start = S.start /\ R.acked = S.acked
             /\ Leased(R) = Leased(S) /\ R.lost = S.lost
BY PullContext DEF Takeable, CInv, Taken, Take, Leased, SubscriptionState
-----------------------------------------------------------------------------
(* Steps of the broker.                                                    *)

LogsGrow ==
  \A t \in DOMAIN topic :
    /\ t \in DOMAIN topic'
    /\ \/ Len(topic'[t].log) = Len(topic[t].log)
       \/ Len(topic'[t].log) = Len(topic[t].log) + 1

\* A subscription the step leaves alone, except that its topic may grow.
LEMMA LeftAlone ==
  ASSUME CInv, CInv', LogsGrow, NEW r,
         r \in DOMAIN sub <=> r \in DOMAIN sub', r \in stale <=> r \in stale',
         r \in DOMAIN sub => /\ Places(sub'[r]) = Places(sub[r])
                             /\ sub'[r].spec.topic = sub[r].spec.topic
  PROVE  PromiseStep(r)
<1>1. Live(r) <=> Live(r)'
  BY DEF Live
<1>2. CASE Live(r)
  <2>1. sub[r].spec.topic \in DOMAIN topic /\ sub'[r].spec.topic = sub[r].spec.topic
    BY <1>2 DEF Live, CInv, CursorInRange
  <2>2. Size(r)' = Size(r) \/ Size(r)' = Size(r) + 1
    BY <2>1 DEF LogsGrow, Size, LogOf
  <2> QED
    BY <1>1, <1>2, <2>2, Stutter, Arrives DEF Live
<1>3. CASE ~Live(r)
  BY <1>1, <1>3, Closes
<1> QED
  BY <1>2, <1>3

\* A step that replaces one subscription by T, within the same topic.
LEMMA OneMoves ==
  ASSUME CInv, CInv', NEW s \in DOMAIN sub, NEW T, sub' = [sub EXCEPT ![s] = T],
         T.spec.topic = sub[s].spec.topic, UNCHANGED stale, LogsGrow,
         Live(s) => PromiseStep(s)
  PROVE  \A r \in Subs : PromiseStep(r)
<1>1. /\ DOMAIN sub' = DOMAIN sub /\ \A r \in DOMAIN sub : r # s => sub'[r] = sub[r]
  OBVIOUS
<1>2. ASSUME NEW r \in Subs, r # s PROVE PromiseStep(r)
  BY <1>1, <1>2, LeftAlone
<1>3. CASE ~Live(s)
  <2>1. ~Live(s)'
    BY <1>1, <1>3 DEF Live
  <2> QED
    BY <1>2, <2>1, Closes
<1> QED
  BY <1>2, <1>3

\* ... and leaves the topics alone.
LEMMA OneMovesOn ==
  ASSUME CInv, CInv', NEW s \in DOMAIN sub, NEW T, sub' = [sub EXCEPT ![s] = T],
         T.spec.topic = sub[s].spec.topic, UNCHANGED <<topic, stale>>,
         Live(s) /\ Live(s)' /\ Size(s)' = Size(s) => PromiseStep(s)
  PROVE  \A r \in Subs : PromiseStep(r)
<1>1. sub'[s] = T /\ DOMAIN sub' = DOMAIN sub
  OBVIOUS
<1>2. Live(s) => Live(s)' /\ Size(s)' = Size(s)
  BY <1>1 DEF Live, Size, LogOf
<1> QED
  BY <1>2, OneMoves DEF LogsGrow

LEMMA AdminSteps ==
  ASSUME CInv, CInv', TopicAdmin
  PROVE  \A r \in Subs : PromiseStep(r)
<1>1. CASE \/ \E t \in Topics, c \in Schemas \cup {NoSchema} :
                CreateTopic(t, c) \/ UpdateTopic(t, c)
           \/ \E c \in Schemas, accepted \in SUBSET Data : CreateSchema(c, accepted)
           \/ \E c \in Schemas : DeleteSchema(c)
  <2>1. UNCHANGED <<sub, stale>>
    BY <1>1 DEF CreateTopic, UpdateTopic, CreateSchema, DeleteSchema
  <2>2. LogsGrow
    <3>1. ASSUME NEW t \in Topics, NEW c, CreateTopic(t, c) PROVE LogsGrow
      BY <3>1 DEF CreateTopic, Put, LogsGrow
    <3>2. ASSUME NEW t \in Topics, NEW c, UpdateTopic(t, c) PROVE LogsGrow
      <4>1. topic[t] \in TopicState
        BY <3>2 DEF UpdateTopic, CInv, Inv, TopicsOK
      <4>2. [topic[t] EXCEPT !.schema = c].log = topic[t].log
        BY <4>1 DEF TopicState
      <4>3. topic' = [topic EXCEPT ![t] = [topic[t] EXCEPT !.schema = c]]
        BY <3>2 DEF UpdateTopic
      <4> QED
        BY <3>2, <4>2, <4>3 DEF UpdateTopic, LogsGrow
    <3>3. CASE UNCHANGED topic
      BY <3>3 DEF LogsGrow
    <3> QED
      BY <1>1, <3>1, <3>2, <3>3 DEF CreateSchema, DeleteSchema
  <2> QED
    BY <2>1, <2>2, LeftAlone
<1>2. ASSUME NEW t \in Topics, DeleteTopic(t), NEW r \in Subs
      PROVE  PromiseStep(r)
  <2>1. CASE ~Live(r)'
    BY <2>1, Closes
  <2>2. CASE Live(r)'
    <3>1. Live(r) /\ sub[r].spec.topic # t /\ UNCHANGED sub
      BY <1>2, <2>2 DEF DeleteTopic, Live
    <3>2. Size(r)' = Size(r)
      BY <1>2, <3>1 DEF DeleteTopic, Drop, Size, LogOf, Live, CInv, CursorInRange
    <3> QED
      BY <2>2, <3>1, <3>2, Stutter
  <2> QED
    BY <2>1, <2>2
<1> QED
  BY <1>1, <1>2 DEF TopicAdmin
LEMMA SameState ==
  ASSUME CInv, CInv', UNCHANGED <<topic, sub, stale>>
  PROVE  \A r \in Subs : PromiseStep(r)
BY LeftAlone DEF LogsGrow

\* Creation and both seeks; a seek to a stale snapshot leaves it closed.
LEMMA FreshStep ==
  ASSUME CInv, CInv', NEW s \in Subs, UNCHANGED topic,
         s \in DOMAIN sub', Places(sub'[s]) = <<sub'[s].cursor, {}, {}, {}>>,
         Live(s) => sub'[s].spec.topic = sub[s].spec.topic,
         \A r \in Subs \ {s} :
           /\ r \in DOMAIN sub <=> r \in DOMAIN sub'
           /\ r \in DOMAIN sub => sub'[r] = sub[r]
           /\ r \in stale <=> r \in stale'
  PROVE  \A r \in Subs : PromiseStep(r)
<1>1. Live(s) => Size(s)' = Size(s)
  BY DEF Size, LogOf
<1>2. PromiseStep(s)
  BY <1>1, Opens, Closes
<1> QED
  BY <1>2, LeftAlone DEF LogsGrow
LEMMA SubscriptionSteps ==
  ASSUME CInv, CInv', SubscriptionAdmin
  PROVE  \A r \in Subs : PromiseStep(r)
<1>1. ASSUME NEW s \in Subs, NEW spec \in Specs, CreateSubscription(s, spec)
      PROVE  \A r \in Subs : PromiseStep(r)
  <2> DEFINE N == NewSubscription(spec, Len(topic[spec.topic].log))
  <2>1. Places(N) = <<N.cursor, {}, {}, {}>>
    BY FreshPlaces
  <2> HIDE DEF N
  <2>2. /\ sub' = Put(sub, s, N) /\ s \notin DOMAIN sub /\ stale' = stale \ {s}
        /\ UNCHANGED topic
    BY <1>1 DEF CreateSubscription, N
  <2>3. /\ sub'[s] = N /\ DOMAIN sub' = DOMAIN sub \cup {s}
        /\ \A r \in DOMAIN sub : r # s => sub'[r] = sub[r]
    BY <2>2 DEF Put
  <2>4. ~Live(s)
    BY <2>2 DEF Live
  <2> QED
    BY <2>1, <2>2, <2>3, <2>4, FreshStep
<1>2. ASSUME NEW s \in Subs, NEW spec \in Specs, NEW mask \in SUBSET MaskFields,
             UpdateSubscription(s, spec, mask)
      PROVE  \A r \in Subs : PromiseStep(r)
  <2> DEFINE T == [sub[s] EXCEPT !.spec = Masked(@, spec, mask)]
  <2>1. spec \in SubscriptionSpec /\ s \in DOMAIN sub /\ Booked(sub[s])
    BY <1>2, BackendAssumption DEF UpdateSubscription, CInv, Inv, SubsOK
  <2>2. T.spec.topic = sub[s].spec.topic
    <3>1. T.spec = Masked(sub[s].spec, spec, mask)
      BY <2>1 DEF Booked, SubscriptionState
    <3>2. Masked(sub[s].spec, spec, mask).topic = sub[s].spec.topic
      BY <2>1, MaskedBooked
    <3> QED
      BY <3>1, <3>2
  <2>3. Places(T) = Places(sub[s])
    BY <2>1, SameLeased
  <2>4. sub' = [sub EXCEPT ![s] = T] /\ UNCHANGED <<topic, stale>>
    BY <1>2 DEF UpdateSubscription
  <2> HIDE DEF T
  <2> QED
    BY <2>1, <2>2, <2>3, <2>4, OneMovesOn, Stutter
<1>3. ASSUME NEW s \in Subs, DeleteSubscription(s)
      PROVE  \A r \in Subs : PromiseStep(r)
  <2>1. ~Live(s)'
    BY <1>3 DEF DeleteSubscription, Drop, Live
  <2>2. \A r \in Subs \ {s} : /\ r \in DOMAIN sub <=> r \in DOMAIN sub'
                              /\ r \in DOMAIN sub => sub'[r] = sub[r]
    BY <1>3 DEF DeleteSubscription, Drop
  <2>3. LogsGrow /\ UNCHANGED stale
    BY <1>3 DEF DeleteSubscription, LogsGrow
  <2> QED
    BY <2>1, <2>2, <2>3, Closes, LeftAlone
<1>4. ASSUME NEW n \in Snaps, NEW s \in Subs, CreateSnapshot(n, s)
      PROVE  \A r \in Subs : PromiseStep(r)
  <2>1. \A r \in Subs : r \in stale <=> r \in stale'
    BY <1>4, BackendAssumption DEF CreateSnapshot
  <2>2. UNCHANGED <<topic, sub>>
    BY <1>4 DEF CreateSnapshot
  <2> QED
    BY <2>1, <2>2, LeftAlone DEF LogsGrow
<1>5. ASSUME NEW n \in Snaps, DeleteSnapshot(n)
      PROVE  \A r \in Subs : PromiseStep(r)
  BY <1>5, SameState DEF DeleteSnapshot
<1> QED
  BY <1>1, <1>2, <1>3, <1>4, <1>5 DEF SubscriptionAdmin

LEMMA SoughtStep ==
  ASSUME CInv, CInv', NEW s \in Subs, s \in DOMAIN sub, NEW cursor,
         sub' = [sub EXCEPT ![s] = Sought(@, cursor)], UNCHANGED topic,
         stale' = stale \ {s} \/ stale' = stale \cup {s}
  PROVE  \A r \in Subs : PromiseStep(r)
<1> DEFINE T == Sought(sub[s], cursor)
<1>1. Places(T) = <<T.cursor, {}, {}, {}>>
  BY FreshPlaces
<1>2. T.spec = sub[s].spec
  BY DEF Sought, NewSubscription
<1>3. sub' = [sub EXCEPT ![s] = T]
  OBVIOUS
<1> HIDE DEF T
<1>4. /\ sub'[s] = T /\ DOMAIN sub' = DOMAIN sub
      /\ \A r \in DOMAIN sub : r # s => sub'[r] = sub[r]
  BY <1>3
<1>5. \A r \in Subs \ {s} : r \in stale <=> r \in stale'
  OBVIOUS
<1> QED
  BY <1>1, <1>2, <1>4, <1>5, FreshStep

LEMMA SeekSteps ==
  ASSUME CInv, CInv', Seek
  PROVE  \A r \in Subs : PromiseStep(r)
<1>1. ASSUME NEW s \in Subs, NEW cursor \in 0 .. MaxLen, SeekToTime(s, cursor)
      PROVE  \A r \in Subs : PromiseStep(r)
  BY <1>1, SoughtStep DEF SeekToTime
<1>2. ASSUME NEW s \in Subs, NEW n \in Snaps, SeekToSnapshot(s, n)
      PROVE  \A r \in Subs : PromiseStep(r)
  BY <1>2, SoughtStep DEF SeekToSnapshot
<1> QED
  BY <1>1, <1>2 DEF Seek

-----------------------------------------------------------------------------
(* The data plane.                                                         *)

LEMMA ConsumeSteps ==
  ASSUME CInv, CInv', Consume
  PROVE  \A r \in Subs : PromiseStep(r)
<1>1. CASE UNCHANGED sub
  <2>1. UNCHANGED <<topic, stale>>
    BY DEF Consume, PullBegin, AckBegin, NackBegin, ExtendDeadline
  <2> QED
    BY <1>1, <2>1, SameState
<1>2. ASSUME NEW s \in DOMAIN sub, NEW ids \in IdBatches(s), NEW seconds \in Extensions,
             ExtendDeadline(s, ids, seconds)
      PROVE  \A r \in Subs : PromiseStep(r)
  <2> DEFINE T == Extend(sub[s], ids, seconds)
  <2>1. T.spec = sub[s].spec /\ Places(T) = Places(sub[s])
    BY ExtendedBooked, SameLeased, BackendAssumption DEF CInv, Inv, SubsOK
  <2>2. sub' = [sub EXCEPT ![s] = T] /\ UNCHANGED <<topic, stale>>
    BY <1>2 DEF ExtendDeadline
  <2> HIDE DEF T
  <2> QED
    BY <2>1, <2>2, OneMovesOn, Stutter
<1> QED
  BY <1>1, <1>2 DEF Consume, PullBegin, AckBegin, NackBegin

LEMMA TickSteps ==
  ASSUME CInv, CInv', Tick
  PROVE  \A r \in Subs : PromiseStep(r)
<1>1. \A s \in DOMAIN sub : Places(Aged(sub[s])) = Places(sub[s])
                            /\ Aged(sub[s]).spec = sub[s].spec
  BY SameLeased, AgedBooked DEF CInv, Inv, SubsOK
<1>2. /\ DOMAIN sub' = DOMAIN sub /\ UNCHANGED <<topic, stale>>
      /\ \A s \in DOMAIN sub : sub'[s] = Aged(sub[s])
  BY DEF Tick
<1> QED
  BY <1>1, <1>2, LeftAlone DEF LogsGrow

LEMMA PublishSteps ==
  ASSUME CInv, CInv', PublishStep
  PROVE  \A r \in Subs : PromiseStep(r)
<1> DEFINE T == topic[lock.topic]
           m == Head(lock.todo)
           U == IF m.id \in T.seen THEN T ELSE Appended(T, m)
<1>1. /\ lock.topic \in DOMAIN topic /\ T \in TopicState
      /\ lock.todo \in Seq(NewMessage) \ {<<>>}
  BY LockShape DEF CInv, Inv, LockOK, TopicsOK, PublishStep
<1>2. m \in NewMessage
  BY <1>1, HeadTailProperties, EmptySeq
<1>3. topic' = [topic EXCEPT ![lock.topic] = U] /\ UNCHANGED <<sub, stale>>
  BY DEF PublishStep
<1> HIDE DEF T, m
<1>4. Len(U.log) = Len(T.log) \/ Len(U.log) = Len(T.log) + 1
  BY <1>1, <1>2, AppendedType
<1> HIDE DEF U
<1>5. LogsGrow
  BY <1>1, <1>3, <1>4 DEF T, LogsGrow
<1> QED
  BY <1>3, <1>5, LeftAlone
LEMMA AckSteps ==
  ASSUME CInv, CInv', AckStep \/ AckExpired \/ NackStep
  PROVE  \A r \in Subs : PromiseStep(r)
<1>0. PICK s : s = lock.sub
  OBVIOUS
<1> DEFINE S == sub[s]
<1>1. s \in DOMAIN sub /\ Booked(S) /\ UNCHANGED <<topic, stale>>
  BY <1>0 DEF AckStep, AckExpired, NackStep, CInv, Inv, LockOK, SubsOK
<1>2. CASE UNCHANGED sub
  BY <1>1, <1>2, SameState
<1>3. ASSUME NEW l \in S.leases, sub' = [sub EXCEPT ![s] = Ack(S, l)]
      PROVE  \A r \in Subs : PromiseStep(r)
  <2>1. Ack(S, l).spec = S.spec
    BY <1>1, AckBooked
  <2>2. sub'[s] = Ack(S, l)
    BY <1>1, <1>3
  <2>3. Live(s) /\ Live(s)' /\ Size(s)' = Size(s) => PromiseStep(s)
    BY <1>1, <2>2, LeasePlaces, Acknowledges
  <2> QED
    BY <1>1, <1>3, <2>1, <2>3, OneMovesOn
<1>4. ASSUME NEW l \in S.leases, sub' = [sub EXCEPT ![s] = Forget(S, l)]
      PROVE  \A r \in Subs : PromiseStep(r)
  <2>1. Forget(S, l).spec = S.spec
    BY <1>1, ForgetBooked
  <2>2. sub'[s] = Forget(S, l)
    BY <1>1, <1>4
  <2>3. Live(s) /\ Live(s)' /\ Size(s)' = Size(s) => PromiseStep(s)
    BY <1>1, <2>2, LeasePlaces, AcksLate
  <2> QED
    BY <1>1, <1>4, <2>1, <2>3, OneMovesOn
<1>5. ASSUME NEW l \in S.leases, sub' = [sub EXCEPT ![s] = Nack(S, l)]
      PROVE  \A r \in Subs : PromiseStep(r)
  <2>1. Nack(S, l).spec = S.spec
    BY <1>1, NackBooked
  <2>2. sub'[s] = Nack(S, l)
    BY <1>1, <1>5
  <2>3. Live(s) /\ Live(s)' /\ Size(s)' = Size(s) => PromiseStep(s)
    BY <1>1, <2>2, LeasePlaces, GivesBack
  <2> QED
    BY <1>1, <1>5, <2>1, <2>3, OneMovesOn
<1>6. CASE ~UNCHANGED sub
  <2>1. PICK l \in S.leases :
          \/ sub' = [sub EXCEPT ![s] = Ack(S, l)]
          \/ sub' = [sub EXCEPT ![s] = Forget(S, l)]
          \/ sub' = [sub EXCEPT ![s] = Nack(S, l)]
    BY <1>0, <1>6 DEF AckStep, AckExpired, NackStep, Named
  <2> QED
    BY <2>1, <1>3, <1>4, <1>5
<1> QED
  BY <1>2, <1>6

\* What pull takes is ready.
LEMMA TakenIsReady ==
  ASSUME CInv, Takeable, Live(lock.sub)
  PROVE  Taken.pos \in Ready(sub[lock.sub], Size(lock.sub))
<1> DEFINE S == sub[lock.sub]
           R == Taken.rest
           p == Taken.pos
<1>1. p \in R.start + 1 .. R.cursor /\ p \notin R.acked \cup Leased(R) \cup R.lost
  BY TakenInHand, InHandPlaces DEF CInv
<1>2. /\ R.start = S.start /\ R.acked = S.acked
      /\ Leased(R) = Leased(S) /\ R.lost = S.lost
  BY TakenPlaces
<1>3. p <= Size(lock.sub) /\ Size(lock.sub) \in Nat /\ R.cursor \in Nat
  BY TakenInLog DEF Live, Size
<1>4. S.start \in Nat
  BY View
<1> HIDE DEF S, R, p
<1>5. p \in S.start + 1 .. Size(lock.sub)
  BY <1>1, <1>2, <1>3, <1>4
<1> QED
  BY <1>1, <1>2, <1>5 DEF Ready, S, p

LEMMA PullSteps ==
  ASSUME CInv, CInv', PullStep
  PROVE  \A r \in Subs : PromiseStep(r)
<1>0. PICK s : s = lock.sub
  OBVIOUS
<1> DEFINE S == sub[s]
           R == Taken.rest
           p == Taken.pos
<1>1. s \in DOMAIN sub /\ Booked(S)
  BY <1>0, PullContext DEF PullStep, SweepExpired, SweepEnd, PullPass, PullDeadLetter,
                     PullFilterOut, PullDeliver, PullPanic, PullEnd, Takeable, CInv
<1>2. CASE SweepExpired
  <2>1. PICK l \in S.leases : sub' = [sub EXCEPT ![s] = Expire(S, l)]
    BY <1>0, <1>2 DEF SweepExpired
  <2>2. Expire(S, l).spec = S.spec /\ sub'[s] = Expire(S, l)
    BY <1>1, <2>1, ExpireBooked
  <2>3. UNCHANGED <<topic, stale>>
    BY <1>2 DEF SweepExpired
  <2>4. Live(s) /\ Live(s)' /\ Size(s)' = Size(s) => PromiseStep(s)
    BY <1>1, <2>2, LeasePlaces, GivesBack
  <2> QED
    BY <1>1, <2>1, <2>2, <2>3, <2>4, OneMovesOn
<1>3. CASE SweepEnd \/ PullEnd
  BY <1>3, SameState DEF SweepEnd, PullEnd
<1>4. ASSUME Takeable
      PROVE  /\ InHand(R, p) /\ R.spec = S.spec
             /\ R.start = S.start /\ R.acked = S.acked
             /\ Leased(R) = Leased(S) /\ R.lost = S.lost
  BY <1>0, <1>4, TakenInHand, TakenPlaces DEF CInv
<1>5. CASE PullPass
  <2>1. Takeable /\ InHand(R, p)
    BY <1>4, <1>5 DEF PullPass
  <2> DEFINE T == Postpone(R, p)
  <2>2. sub' = [sub EXCEPT ![s] = T] /\ UNCHANGED <<topic, stale>>
    BY <1>0, <1>5, <2>1, InHandOutstanding DEF PullPass
  <2>3. T.spec = S.spec /\ Places(T) = Places(S)
    BY <1>4, <2>1, PostponeBooked, InHandPlaces DEF Places
  <2> HIDE DEF T
  <2> QED
    BY <1>1, <2>2, <2>3, OneMovesOn, Stutter
<1>6. CASE PullFilterOut \/ PullDeadLetter
  <2>1. Takeable /\ InHand(R, p) /\ UNCHANGED stale
    BY <1>4, <1>6 DEF PullFilterOut, PullDeadLetter
  <2> DEFINE T == Settle(R, p)
  <2>2. sub' = [sub EXCEPT ![s] = T]
    BY <1>0, <1>6 DEF PullFilterOut, PullDeadLetter
  <2>3. /\ T.spec = S.spec
        /\ Places(T) = <<S.start, S.acked \cup {p}, Leased(S), S.lost>>
    BY <1>4, <2>1, SettleBooked, InHandPlaces
  <2>4. LogsGrow
    <3>1. CASE PullFilterOut
      BY <3>1 DEF PullFilterOut, LogsGrow
    <3>2. CASE PullDeadLetter
      <4> DEFINE d == R.spec.dead.topic
                 copy == AsMessage([LogOf(R)[p] EXCEPT !.id = NoId],
                           [sub |-> lock.sub, pos |-> p, life |-> resets[lock.sub]])
      <4>1. /\ d \in DOMAIN topic
            /\ topic' = [topic EXCEPT ![d].log = Append(@, copy)]
        BY <3>2 DEF PullDeadLetter, Exhausted
      <4> HIDE DEF d, copy
      <4>2. topic[d] \in TopicState /\ topic[d].log \in Seq(Message)
        BY <4>1 DEF CInv, Inv, TopicsOK, TopicState
      <4>3. Len(Append(topic[d].log, copy)) = Len(topic[d].log) + 1
        BY <4>2
      <4>4. /\ topic'[d].log = Append(topic[d].log, copy) /\ DOMAIN topic' = DOMAIN topic
            /\ \A t \in DOMAIN topic : t # d => topic'[t] = topic[t]
        BY <4>1, <4>2 DEF TopicState
      <4> QED
        BY <4>1, <4>3, <4>4 DEF LogsGrow
    <3> QED
      BY <1>6, <3>1, <3>2
  <2> HIDE DEF T
  <2>5. ASSUME Live(s)
        PROVE  PromiseStep(s)
    <3>1. p \in Ready(S, Size(s))
      BY <1>0, <2>1, <2>5, TakenIsReady
    <3>2. sub'[s] = T /\ DOMAIN sub' = DOMAIN sub
      BY <1>1, <2>2
    <3>3. Live(s)'
      BY <2>1, <2>5, <3>2 DEF Live
    <3>4. sub[s].spec.topic \in DOMAIN topic /\ sub'[s].spec.topic = sub[s].spec.topic
      BY <2>3, <2>5, <3>2 DEF Live, CInv, CursorInRange
    <3>5. Size(s)' = Size(s) \/ Size(s)' = Size(s) + 1
      BY <2>4, <3>4 DEF LogsGrow, Size, LogOf
    <3> QED
      BY <2>3, <2>5, <3>1, <3>2, <3>3, <3>5, Retires
  <2> QED
    BY <1>1, <2>1, <2>2, <2>3, <2>4, <2>5, OneMoves
<1>7. CASE PullDeliver
  <2>1. Takeable /\ InHand(R, p) /\ UNCHANGED <<topic, stale>>
    BY <1>4, <1>7 DEF PullDeliver
  <2> DEFINE T == Deliver(R, p)
  <2>2. sub' = [sub EXCEPT ![s] = T]
    BY <1>0, <1>7 DEF PullDeliver
  <2>3. /\ T.spec = S.spec
        /\ Places(T) = <<S.start, S.acked, Leased(S) \cup {p}, S.lost>>
    BY <1>4, <2>1, DeliverBooked, InHandPlaces
  <2>4. Live(s) => p \in Ready(S, Size(s))
    BY <1>0, <2>1, TakenIsReady
  <2> HIDE DEF T
  <2>5. sub'[s] = T
    BY <1>1, <2>2
  <2> QED
    BY <1>1, <2>1, <2>2, <2>3, <2>4, <2>5, OneMovesOn, Delivers
<1>8. CASE PullPanic
  <2>1. ~Live(s)'
    BY <1>0, <1>8 DEF PullPanic, Drop, Live
  <2>2. \A r \in Subs \ {s} : /\ r \in DOMAIN sub <=> r \in DOMAIN sub'
                              /\ r \in DOMAIN sub => sub'[r] = sub[r]
    BY <1>0, <1>8 DEF PullPanic, Drop
  <2>3. LogsGrow /\ UNCHANGED stale
    BY <1>8 DEF PullPanic, LogsGrow
  <2> QED
    BY <2>1, <2>2, <2>3, Closes, LeftAlone
<1> QED
  BY <1>2, <1>3, <1>5, <1>6, <1>7, <1>8 DEF PullStep

-----------------------------------------------------------------------------
(* The refinement.                                                         *)

LEMMA PromiseInit ==
  ASSUME Init
  PROVE  \A s \in Subs : Promise(s)!Init
<1>1. \A s \in Subs : ~Live(s)
  BY DEF Init, NoEntries, Live
<1> QED
  BY <1>1 DEF Promise!Init, Promise!Closed

LEMMA PromiseNext ==
  ASSUME CInv, CInv', Next
  PROVE  \A r \in Subs : PromiseStep(r)
<1>1. CASE Publish
  BY <1>1, SameState DEF Publish, PublishBegin
<1>2. CASE LockedStep
  BY <1>2, PullSteps, PublishSteps, AckSteps DEF LockedStep
<1> QED
  BY <1>1, <1>2, ConsumeSteps, TickSteps, SeekSteps, SubscriptionSteps, AdminSteps
     DEF Next, DataPlane

\* Each subscription, whatever is published, pulled, acked, nacked, extended,
\* sought, reconfigured, created or deleted and in whatever order, behaves as
\* AtLeastOnce.
THEOREM BrokerImplementsAtLeastOnce == Spec => ImplementsAtLeastOnce
<1> DEFINE Starts == \A s \in Subs : Promise(s)!Init
           Steps == \A s \in Subs : Promise(s)!Next \/ UNCHANGED Promise(s)!vars
<1>1. Init => Starts
  BY PromiseInit
<1>2. CInv /\ CInv' /\ [Next]_vars => [Steps]_vars
  BY PromiseNext DEF PromiseStep
<1>3. (Starts /\ [][Steps]_vars) => ImplementsAtLeastOnce
  BY DEF ImplementsAtLeastOnce
<1> QED
  BY <1>1, <1>2, <1>3, CInvAlways, PTL DEF Spec
=============================================================================

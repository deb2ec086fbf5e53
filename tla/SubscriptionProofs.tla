------------------------- MODULE SubscriptionProofs -------------------------
(***************************************************************************)
(* What the operators of Subscription do to a subscription that accounts   *)
(* for every message it passed: each of them keeps the books, for every    *)
(* log length, policy, spec and order in which they are applied.  And what *)
(* the clamps and the retry backoff of the delivery policy guarantee.      *)
(***************************************************************************)
EXTENDS BackendProperties, SequenceTheorems, WellFoundedInduction, TLAPS

-----------------------------------------------------------------------------
(* The arithmetic of the delivery policy.                                  *)

\* u32::clamp stays within its bounds.
LEMMA ClampRange ==
  ASSUME NEW x \in Nat, NEW lo \in Nat, NEW hi \in Nat, lo <= hi
  PROVE  Clamp(x, lo, hi) \in lo .. hi
BY DEF Clamp

\* A larger argument is not clamped to a smaller result.
LEMMA ClampMonotone ==
  ASSUME NEW x \in Nat, NEW y \in Nat, x <= y,
         NEW lo \in Nat, NEW hi \in Nat, lo <= hi
  PROVE  Clamp(x, lo, hi) <= Clamp(y, lo, hi)
BY DEF Clamp

LEMMA BackoffBounds ==
  ASSUME NEW retry \in RetryPolicy \cup {NoRetry}
  PROVE  /\ LowerBackoff(retry) \in Nat
         /\ UpperBackoff(retry) \in Nat
         /\ LowerBackoff(retry) <= UpperBackoff(retry)
         /\ UpperBackoff(retry) <= MaxU32
<1>1. CASE retry = NoRetry
  BY <1>1, PolicyAssumption DEF LowerBackoff, UpperBackoff
<1>2. CASE retry # NoRetry
  <2>1. retry.min \in Nat /\ retry.max \in Nat /\ retry.min <= MaxU32
        /\ retry.max <= MaxU32
    BY <1>2, PolicyAssumption DEF RetryPolicy, U32
  <2> QED
    BY <1>2, <2>1 DEF LowerBackoff, UpperBackoff
<1> QED
  BY <1>1, <1>2

\* The factor 1 << exp of the backoff.
LEMMA FactorType ==
  ASSUME NEW attempt \in Nat
  PROVE  BackoffFactor(attempt) \in Nat
<1>1. BackoffExponent(attempt) \in 1 .. 11
  BY DEF BackoffExponent
<1>2. ASSUME NEW e \in 1 .. 11 PROVE PowersOfTwo[e] \in Nat
  BY DEF PowersOfTwo
<1> QED
  BY <1>1, <1>2 DEF BackoffFactor

\* The factor does not shrink as attempts grow.
LEMMA FactorMonotone ==
  ASSUME NEW a \in Nat, NEW b \in Nat, a <= b
  PROVE  BackoffFactor(a) <= BackoffFactor(b)
<1>1. BackoffExponent(a) \in 1 .. 11 /\ BackoffExponent(b) \in 1 .. 11
      /\ BackoffExponent(a) <= BackoffExponent(b)
  BY DEF BackoffExponent
<1>2. ASSUME NEW i \in 1 .. 11, NEW j \in 1 .. 11, i <= j
      PROVE  PowersOfTwo[i] <= PowersOfTwo[j]
  BY <1>2 DEF PowersOfTwo
<1> QED
  BY <1>1, <1>2 DEF BackoffFactor

LEMMA SaturatingMulType ==
  ASSUME NEW a \in Nat, NEW b \in Nat
  PROVE  SaturatingMul(a, b) \in Nat
BY PolicyAssumption DEF SaturatingMul

LEMMA SaturatingMulMonotone ==
  ASSUME NEW a \in Nat, NEW b \in Nat, NEW c \in Nat, b <= c
  PROVE  SaturatingMul(a, b) <= SaturatingMul(a, c)
<1>1. a * b \in Nat /\ a * c \in Nat /\ a * b <= a * c
  OBVIOUS
<1> QED
  BY <1>1, PolicyAssumption DEF SaturatingMul

\* The delay before a redelivery lies between the two bounds of the policy
\* (10 and 600 seconds without one; an upper bound below the lower one counts
\* as the lower one), so it fits a u32, and a policy of 0, 0 retries at once.
THEOREM BackoffWithinPolicy ==
  ASSUME NEW retry \in RetryPolicy \cup {NoRetry}, NEW attempt \in Nat
  PROVE  BackoffSeconds(retry, attempt) \in
           LowerBackoff(retry) .. UpperBackoff(retry)
<1> DEFINE lo == LowerBackoff(retry)
           hi == UpperBackoff(retry)
<1>1. lo \in Nat /\ hi \in Nat /\ lo <= hi
  BY BackoffBounds
<1>2. SaturatingMul(lo, BackoffFactor(attempt)) \in Nat
  BY <1>1, FactorType, SaturatingMulType
<1>3. CASE hi = 0
  BY <1>1, <1>3 DEF BackoffSeconds
<1>4. CASE hi # 0
  <2>1. (IF hi > 1 THEN hi ELSE 1) = hi
    BY <1>1, <1>4
  <2>2. BackoffSeconds(retry, attempt)
          = Clamp(SaturatingMul(lo, BackoffFactor(attempt)), lo, hi)
    BY <1>4, <2>1 DEF BackoffSeconds
  <2> QED
    BY <1>1, <1>2, <2>2, ClampRange
<1> QED
  BY <1>3, <1>4

\* The more often a message was delivered, the longer it waits: a later
\* attempt is never redelivered sooner than an earlier one would have been,
\* saturation and clamp included.
THEOREM BackoffMonotone ==
  ASSUME NEW retry \in RetryPolicy \cup {NoRetry},
         NEW a \in Nat, NEW b \in Nat, a <= b
  PROVE  BackoffSeconds(retry, a) <= BackoffSeconds(retry, b)
<1> DEFINE lo == LowerBackoff(retry)
           hi == UpperBackoff(retry)
<1>1. lo \in Nat /\ hi \in Nat /\ lo <= hi
  BY BackoffBounds
<1>2. /\ BackoffFactor(a) \in Nat /\ BackoffFactor(b) \in Nat
      /\ BackoffFactor(a) <= BackoffFactor(b)
  BY FactorType, FactorMonotone
<1>3. /\ SaturatingMul(lo, BackoffFactor(a)) \in Nat
      /\ SaturatingMul(lo, BackoffFactor(b)) \in Nat
      /\ SaturatingMul(lo, BackoffFactor(a)) <= SaturatingMul(lo, BackoffFactor(b))
  BY <1>1, <1>2, SaturatingMulType, SaturatingMulMonotone
<1>4. CASE hi = 0
  BY <1>4 DEF BackoffSeconds
<1>5. CASE hi # 0
  <2>1. (IF hi > 1 THEN hi ELSE 1) = hi
    BY <1>1, <1>5
  <2>2. /\ BackoffSeconds(retry, a) = Clamp(SaturatingMul(lo, BackoffFactor(a)), lo, hi)
        /\ BackoffSeconds(retry, b) = Clamp(SaturatingMul(lo, BackoffFactor(b)), lo, hi)
    BY <1>5, <2>1 DEF BackoffSeconds
  <2> QED
    BY <1>1, <1>3, <2>2, ClampMonotone
<1> QED
  BY <1>4, <1>5

\* Saturation never shows: since the upper bound is itself a u32, the delay is
\* the lower bound doubled per attempt, in unbounded arithmetic, cut off at the
\* upper bound.
THEOREM BackoffUnsaturated ==
  ASSUME NEW retry \in RetryPolicy \cup {NoRetry}, NEW attempt \in Nat
  PROVE  LET hi == UpperBackoff(retry)
             delay == LowerBackoff(retry) * BackoffFactor(attempt)
         IN  BackoffSeconds(retry, attempt) = IF delay > hi THEN hi ELSE delay
<1> DEFINE lo == LowerBackoff(retry)
           hi == UpperBackoff(retry)
           f == BackoffFactor(attempt)
           delay == lo * f
<1>1. lo \in Nat /\ hi \in Nat /\ lo <= hi /\ hi <= MaxU32 /\ MaxU32 \in Nat
  BY BackoffBounds, PolicyAssumption
<1>2. f \in Nat /\ 1 <= f
  <2>1. BackoffExponent(attempt) \in 1 .. 11
    BY DEF BackoffExponent
  <2>2. ASSUME NEW e \in 1 .. 11 PROVE PowersOfTwo[e] \in Nat /\ 1 <= PowersOfTwo[e]
    BY DEF PowersOfTwo
  <2> QED
    BY <2>1, <2>2 DEF BackoffFactor
<1> HIDE DEF lo, hi, f
<1>3. delay \in Nat /\ lo <= delay
  <2>1. lo * 1 <= lo * f
    BY <1>1, <1>2
  <2> QED
    BY <1>1, <1>2, <2>1
<1>4. lo = 0 => delay = 0
  BY <1>2
<1>5. SaturatingMul(lo, f) = IF delay > MaxU32 THEN MaxU32 ELSE delay
  BY DEF SaturatingMul
<1> HIDE DEF delay
<1>6. BackoffSeconds(retry, attempt) =
        IF hi = 0 THEN 0
        ELSE Clamp(SaturatingMul(lo, f), lo, IF hi > 1 THEN hi ELSE 1)
  BY DEF BackoffSeconds, lo, hi, f
<1>7. BackoffSeconds(retry, attempt) = IF delay > hi THEN hi ELSE delay
  BY <1>1, <1>3, <1>4, <1>5, <1>6 DEF Clamp
<1> QED
  BY <1>7 DEF lo, hi, f, delay

-----------------------------------------------------------------------------
(* The books of a subscription.                                            *)

\* A well-typed subscription in which every passed message is in one place.
Booked(S) ==
  /\ S \in SubscriptionState /\ S.start <= S.cursor
  /\ Accounted(S) /\ InOnePlace(S)

-----------------------------------------------------------------------------
(* Sequences.                                                              *)

LEMMA RemoveAtSeq ==
  ASSUME NEW T, NEW q \in Seq(T), NEW i \in 1 .. Len(q)
  PROVE  /\ RemoveAt(q, i) \in Seq(T)
         /\ Len(RemoveAt(q, i)) = Len(q) - 1
         /\ \A j \in 1 .. Len(q) - 1 :
              RemoveAt(q, i)[j] = IF j < i THEN q[j] ELSE q[j + 1]
<1> DEFINE a == SubSeq(q, 1, i - 1)
           b == SubSeq(q, i + 1, Len(q))
<1>1. a \in Seq(T) /\ Len(a) = i - 1 /\ \A j \in 1 .. i - 1 : a[j] = q[j]
  OBVIOUS
<1>2. b \in Seq(T) /\ Len(b) = Len(q) - i /\ \A j \in 1 .. Len(q) - i : b[j] = q[i + j]
  OBVIOUS
<1>3. RemoveAt(q, i) = a \o b
  BY DEF RemoveAt
<1> HIDE DEF a, b
<1>4. /\ a \o b \in Seq(T) /\ Len(a \o b) = Len(a) + Len(b)
      /\ \A j \in 1 .. Len(a) + Len(b) :
           (a \o b)[j] = IF j <= Len(a) THEN a[j] ELSE b[j - Len(a)]
  BY <1>1, <1>2, ConcatProperties
<1>5. Len(a) = i - 1 /\ Len(b) = Len(q) - i
  BY <1>1, <1>2, ConcatProperties
<1>6. ASSUME NEW j \in 1 .. Len(q) - 1
      PROVE  (a \o b)[j] = IF j < i THEN q[j] ELSE q[j + 1]
  <2>0. j \in 1 .. Len(a) + Len(b)
    BY <1>5
  <2>1. CASE j < i
    <3>1. j <= Len(a) /\ j \in 1 .. i - 1
      BY <1>5, <2>1
    <3>2. (a \o b)[j] = a[j]
      BY <1>4, <2>0, <3>1
    <3> QED
      BY <1>1, <2>1, <3>1, <3>2
  <2>2. CASE ~(j < i)
    <3>1. ~(j <= Len(a)) /\ j - Len(a) \in 1 .. Len(q) - i /\ i + (j - Len(a)) = j + 1
      BY <1>5, <2>2
    <3>2. (a \o b)[j] = b[j - Len(a)]
      BY <1>4, <2>0, <3>1
    <3>3. b[j - Len(a)] = q[j + 1]
      BY <1>2, <3>1
    <3> QED
      BY <2>2, <3>2, <3>3
  <2> QED
    BY <2>1, <2>2
<1> QED
  BY <1>3, <1>4, <1>5, <1>6

-----------------------------------------------------------------------------
(* Retry queues: the positions they hold, and that they hold each once.    *)

Queued(q) == {q[i].pos : i \in DOMAIN q}

Once(q) == \A i, j \in DOMAIN q : q[i].pos = q[j].pos => i = j

LEMMA QueueAppend ==
  ASSUME NEW q \in Seq(RetryEntry), NEW e \in RetryEntry
  PROVE  /\ Append(q, e) \in Seq(RetryEntry)
         /\ Queued(Append(q, e)) = Queued(q) \cup {e.pos}
         /\ Once(q) /\ e.pos \notin Queued(q) => Once(Append(q, e))
<1> DEFINE r == Append(q, e)
           n == Len(q)
<1>1. /\ r \in Seq(RetryEntry) /\ DOMAIN r = 1 .. n + 1 /\ n \in Nat
      /\ \A i \in 1 .. n : r[i] = q[i]
      /\ r[n + 1] = e /\ DOMAIN q = 1 .. n
  BY AppendProperties
<1> HIDE DEF r, n
<1>2. Queued(r) = Queued(q) \cup {e.pos}
  BY <1>1 DEF Queued
<1>3. ASSUME Once(q), e.pos \notin Queued(q)
      PROVE  Once(r)
  <2> SUFFICES ASSUME NEW i \in 1 .. n + 1, NEW j \in 1 .. n + 1, r[i].pos = r[j].pos
               PROVE  i = j
    BY <1>1 DEF Once
  <2>1. \A x \in 1 .. n : r[x].pos \in Queued(q)
    BY <1>1 DEF Queued
  <2>2. (i = n + 1 \/ i \in 1 .. n) /\ (j = n + 1 \/ j \in 1 .. n)
    BY <1>1
  <2>3. CASE i \in 1 .. n /\ j \in 1 .. n
    BY <1>1, <1>3, <2>3 DEF Once
  <2> QED
    BY <1>1, <1>3, <2>1, <2>2, <2>3
<1> QED
  BY <1>1, <1>2, <1>3 DEF r

LEMMA QueuePrepend ==
  ASSUME NEW q \in Seq(RetryEntry), NEW e \in RetryEntry
  PROVE  /\ <<e>> \o q \in Seq(RetryEntry)
         /\ Queued(<<e>> \o q) = Queued(q) \cup {e.pos}
         /\ Once(q) /\ e.pos \notin Queued(q) => Once(<<e>> \o q)
<1> DEFINE u == <<e>>
           r == u \o q
           n == Len(q)
<1>1. u \in Seq(RetryEntry) /\ Len(u) = 1 /\ u[1] = e
  OBVIOUS
<1>2. n \in Nat /\ DOMAIN q = 1 .. n
  OBVIOUS
<1> HIDE DEF u
<1>3. r \in Seq(RetryEntry) /\ Len(r) = 1 + n
      /\ \A i \in 1 .. 1 + n : r[i] = IF i <= 1 THEN u[i] ELSE q[i - 1]
  <2>1. /\ r \in Seq(RetryEntry) /\ Len(r) = Len(u) + Len(q)
        /\ \A i \in 1 .. Len(u) + Len(q) :
             r[i] = IF i <= Len(u) THEN u[i] ELSE q[i - Len(u)]
    BY <1>1, ConcatProperties
  <2> QED
    BY <1>1, <2>1
<1>4. DOMAIN r = 1 .. 1 + n
  BY <1>3
<1>5. r[1] = e /\ \A i \in 1 .. n : r[i + 1] = q[i]
  BY <1>1, <1>2, <1>3
<1> HIDE DEF r, n
<1>6. Queued(r) = Queued(q) \cup {e.pos}
  <2>1. ASSUME NEW p \in Queued(r)
        PROVE  p \in Queued(q) \cup {e.pos}
    <3>1. PICK i \in 1 .. 1 + n : p = r[i].pos
      BY <1>4 DEF Queued
    <3>2. i = 1 \/ (i - 1 \in 1 .. n /\ r[i] = q[i - 1])
      BY <1>2, <1>3
    <3> QED
      BY <1>2, <1>5, <3>1, <3>2 DEF Queued
  <2>2. ASSUME NEW p \in Queued(q) \cup {e.pos}
        PROVE  p \in Queued(r)
    <3>1. CASE p = e.pos
      <4>1. 1 \in DOMAIN r
        BY <1>2, <1>4
      <4> QED
        BY <1>5, <3>1, <4>1 DEF Queued
    <3>2. CASE p \in Queued(q)
      <4>1. PICK i \in 1 .. n : p = q[i].pos
        BY <1>2, <3>2 DEF Queued
      <4>2. i + 1 \in DOMAIN r
        BY <1>2, <1>4
      <4> QED
        BY <1>5, <4>1, <4>2 DEF Queued
    <3> QED
      BY <2>2, <3>1, <3>2
  <2> QED
    BY <2>1, <2>2
<1>7. ASSUME Once(q), e.pos \notin Queued(q)
      PROVE  Once(r)
  <2> SUFFICES ASSUME NEW i \in 1 .. 1 + n, NEW j \in 1 .. 1 + n, r[i].pos = r[j].pos
               PROVE  i = j
    BY <1>4 DEF Once
  <2>1. /\ i = 1 \/ (i - 1 \in 1 .. n /\ r[i] = q[i - 1])
        /\ j = 1 \/ (j - 1 \in 1 .. n /\ r[j] = q[j - 1])
    BY <1>2, <1>3
  <2>2. \A x \in 1 .. n : q[x].pos \in Queued(q)
    BY <1>2 DEF Queued
  <2>3. CASE i - 1 \in 1 .. n /\ r[i] = q[i - 1] /\ j - 1 \in 1 .. n /\ r[j] = q[j - 1]
    <3>1. i - 1 = j - 1
      BY <1>2, <1>7, <2>3 DEF Once
    <3> QED
      BY <1>2, <3>1
  <2>4. CASE i = 1 /\ (j - 1 \in 1 .. n /\ r[j] = q[j - 1])
    BY <1>5, <1>7, <2>2, <2>4
  <2>5. CASE j = 1 /\ (i - 1 \in 1 .. n /\ r[i] = q[i - 1])
    BY <1>5, <1>7, <2>2, <2>5
  <2> QED
    BY <2>1, <2>3, <2>4, <2>5
<1> QED
  BY <1>3, <1>6, <1>7 DEF r, u

LEMMA QueueRemove ==
  ASSUME NEW q \in Seq(RetryEntry), NEW i \in DOMAIN q, Once(q)
  PROVE  /\ RemoveAt(q, i) \in Seq(RetryEntry)
         /\ Queued(RemoveAt(q, i)) = Queued(q) \ {q[i].pos}
         /\ Once(RemoveAt(q, i))
<1> DEFINE r == RemoveAt(q, i)
           n == Len(q)
<1>1. n \in Nat /\ DOMAIN q = 1 .. n /\ i \in 1 .. n
  OBVIOUS
<1>2. r \in Seq(RetryEntry) /\ Len(r) = n - 1
      /\ \A j \in 1 .. n - 1 : r[j] = IF j < i THEN q[j] ELSE q[j + 1]
  BY <1>1, RemoveAtSeq
<1>3. DOMAIN r = 1 .. n - 1
  BY <1>2
<1> HIDE DEF r, n
<1> DEFINE old(j) == IF j < i THEN j ELSE j + 1
<1>4. \A j \in 1 .. n - 1 : old(j) \in 1 .. n /\ old(j) # i /\ r[j] = q[old(j)]
  BY <1>1, <1>2
<1>5. \A k \in 1 .. n : k # i => \E j \in 1 .. n - 1 : k = old(j)
  <2> SUFFICES ASSUME NEW k \in 1 .. n, k # i
               PROVE  \E j \in 1 .. n - 1 : k = old(j)
    OBVIOUS
  <2>1. CASE k < i
    <3>1. k \in 1 .. n - 1 /\ k = old(k)
      BY <1>1, <2>1
    <3> QED
      BY <3>1
  <2>2. CASE k > i
    <3>1. k - 1 \in 1 .. n - 1 /\ k = old(k - 1)
      BY <1>1, <2>2
    <3> QED
      BY <3>1
  <2> QED
    BY <1>1, <2>1, <2>2
<1>6. \A j, k \in 1 .. n - 1 : old(j) = old(k) => j = k
  BY <1>1
<1> HIDE DEF old
<1>7. \A k \in 1 .. n : k # i => q[k].pos # q[i].pos
  BY <1>1 DEF Once
<1>8. Queued(r) = Queued(q) \ {q[i].pos}
  <2>1. ASSUME NEW p \in Queued(r)
        PROVE  p \in Queued(q) \ {q[i].pos}
    BY <1>1, <1>3, <1>4, <1>7, <2>1 DEF Queued
  <2>2. ASSUME NEW p \in Queued(q) \ {q[i].pos}
        PROVE  p \in Queued(r)
    <3>1. PICK k \in 1 .. n : p = q[k].pos
      BY <1>1 DEF Queued
    <3>2. k # i
      BY <3>1
    <3>3. PICK j \in 1 .. n - 1 : k = old(j)
      BY <1>5, <3>2
    <3> QED
      BY <1>3, <1>4, <3>1, <3>3 DEF Queued
  <2> QED
    BY <2>1, <2>2
<1>9. Once(r)
  BY <1>1, <1>3, <1>4, <1>6 DEF Once
<1> QED
  BY <1>2, <1>8, <1>9 DEF r

-----------------------------------------------------------------------------
(* Types.                                                                  *)

LEMMA BackoffType ==
  ASSUME NEW S \in SubscriptionState, NEW p \in Position
  PROVE  Backoff(S, p) \in Nat
<1>1. S.attempts[p] \in Nat /\ S.spec \in SubscriptionSpec
  BY BackendAssumption DEF SubscriptionState
<1>2. S.spec.retry \in RetryPolicy \cup {NoRetry}
  BY <1>1 DEF SubscriptionSpec
<1>3. BackoffSeconds(S.spec.retry, S.attempts[p]) \in
        LowerBackoff(S.spec.retry) .. UpperBackoff(S.spec.retry)
  BY <1>1, <1>2, BackoffWithinPolicy
<1>4. LowerBackoff(S.spec.retry) \in Nat
  BY <1>2, BackoffBounds
<1> QED
  BY <1>3, <1>4 DEF Backoff

LEMMA DeadlineType ==
  ASSUME NEW d \in Nat
  PROVE  /\ NormalizeAckDeadline(d) \in Nat
         /\ NormalizeAckDeadline(d) \in -1 .. MaxAckDeadline
BY PolicyAssumption DEF NormalizeAckDeadline, Clamp

LEMMA AttemptType ==
  ASSUME NEW S \in SubscriptionState, NEW p \in Position
  PROVE  NextAttempt(S, p) \in 1 .. AttemptCap
<1>1. S.attempts[p] \in 0 .. AttemptCap /\ AttemptCap \in Nat /\ AttemptCap > 0
  BY BackendAssumption, PolicyAssumption DEF SubscriptionState
<1> QED
  BY <1>1 DEF NextAttempt

LEMMA CountAttemptType ==
  ASSUME NEW S \in SubscriptionState, NEW p \in Position
  PROVE  LET C == CountAttempt(S, p)
         IN  /\ C \in SubscriptionState
             /\ C.spec = S.spec /\ C.cursor = S.cursor /\ C.start = S.start
             /\ C.acked = S.acked /\ C.leases = S.leases
             /\ C.retry = S.retry /\ C.lost = S.lost
<1>1. NextAttempt(S, p) \in 0 .. AttemptCap
  BY AttemptType, BackendAssumption
<1>2. [S.attempts EXCEPT ![p] = NextAttempt(S, p)] \in [Position -> 0 .. AttemptCap]
  BY <1>1 DEF SubscriptionState
<1> QED
  BY <1>2 DEF CountAttempt, SubscriptionState

-----------------------------------------------------------------------------
(* The books of a subscription, field by field: the acked positions a, the *)
(* leased h, the queued q and the dropped o keep apart and make up P.      *)

Apart(a, h, q, o, P) ==
  /\ a \cup h \cup q \cup o = P
  /\ h \cap q = {}
  /\ (h \cup q) \cap (a \cup o) = {}
  /\ a \cap o = {}

LEMMA MoveLeased ==
  ASSUME NEW a, NEW h, NEW q, NEW o, NEW P, NEW x \in h, Apart(a, h, q, o, P)
  PROVE  /\ Apart(a \cup {x}, h \ {x}, q, o, P)
         /\ Apart(a, h \ {x}, q \cup {x}, o, P)
         /\ Apart(a, h \ {x}, q, o \cup {x}, P)
<1>1. x \notin a /\ x \notin q /\ x \notin o
  BY DEF Apart
<1>2. Apart(a \cup {x}, h \ {x}, q, o, P)
  BY <1>1 DEF Apart
<1>3. Apart(a, h \ {x}, q \cup {x}, o, P)
  BY <1>1 DEF Apart
<1>4. Apart(a, h \ {x}, q, o \cup {x}, P)
  BY <1>1 DEF Apart
<1> QED
  BY <1>2, <1>3, <1>4

LEMMA TakeQueued ==
  ASSUME NEW a, NEW h, NEW q, NEW o, NEW P, NEW x \in q, Apart(a, h, q, o, P)
  PROVE  x \in P /\ Apart(a, h, q \ {x}, o, P \ {x})
<1>1. x \notin a /\ x \notin h /\ x \notin o
  BY DEF Apart
<1> QED
  BY <1>1 DEF Apart

LEMMA PutTaken ==
  ASSUME NEW a, NEW h, NEW q, NEW o, NEW P, NEW x, x \notin P, Apart(a, h, q, o, P)
  PROVE  /\ Apart(a \cup {x}, h, q, o, P \cup {x})
         /\ Apart(a, h \cup {x}, q, o, P \cup {x})
         /\ Apart(a, h, q \cup {x}, o, P \cup {x})
<1>1. x \notin a /\ x \notin h /\ x \notin q /\ x \notin o
  BY DEF Apart
<1>2. Apart(a \cup {x}, h, q, o, P \cup {x})
  BY <1>1 DEF Apart
<1>3. Apart(a, h \cup {x}, q, o, P \cup {x})
  BY <1>1 DEF Apart
<1>4. Apart(a, h, q \cup {x}, o, P \cup {x})
  BY <1>1 DEF Apart
<1> QED
  BY <1>2, <1>3, <1>4

Held(ls) == {l.pos : l \in ls}

\* The fields of a subscription with passed positions P.
Sound(acked, ls, q, lost, P) ==
  /\ Apart(acked, Held(ls), Queued(q), lost, P)
  /\ \A l, m \in ls : l.pos = m.pos => l = m
  /\ Once(q)

LEMMA BookedParts ==
  ASSUME NEW S
  PROVE  Booked(S) <=> /\ S \in SubscriptionState /\ S.start <= S.cursor
                       /\ Sound(S.acked, S.leases, S.retry, S.lost, Passed(S))
BY DEF Booked, Accounted, InOnePlace, Sound, Apart, Held, Queued, Once, Leased, Waiting

LEMMA HeldMinus ==
  ASSUME NEW ls, NEW l \in ls, \A m, n \in ls : m.pos = n.pos => m = n
  PROVE  Held(ls \ {l}) = Held(ls) \ {l.pos}
BY DEF Held

LEMMA HeldPlus ==
  ASSUME NEW ls, NEW l
  PROVE  Held(ls \cup {l}) = Held(ls) \cup {l.pos}
BY DEF Held

-----------------------------------------------------------------------------
(* Creation and seeks.                                                     *)

LEMMA NewSubscriptionBooked ==
  ASSUME NEW spec \in SubscriptionSpec, NEW cursor \in 0 .. MaxLen
  PROVE  Booked(NewSubscription(spec, cursor))
<1> DEFINE N == NewSubscription(spec, cursor)
<1>1. [spec EXCEPT !.deadline = NormalizeAckDeadline(@)] \in SubscriptionSpec
  BY DeadlineType DEF SubscriptionSpec
<1>2. N \in SubscriptionState
  BY <1>1, BackendAssumption, PolicyAssumption DEF NewSubscription, SubscriptionState
<1>3. Passed(N) = {} /\ N.start = N.cursor /\ N.cursor \in Nat
  BY BackendAssumption DEF Passed, NewSubscription
<1>4. Held({}) = {} /\ Queued(<<>>) = {} /\ Once(<<>>)
  BY DEF Held, Queued, Once
<1>5. N.acked = {} /\ N.leases = {} /\ N.retry = <<>> /\ N.lost = {}
  BY DEF NewSubscription
<1> QED
  <2> HIDE DEF N
  <2>1. N.start <= N.cursor
    BY <1>3
  <2>2. Apart(N.acked, Held(N.leases), Queued(N.retry), N.lost, Passed(N))
    BY <1>3, <1>4, <1>5 DEF Apart
  <2>3. Sound(N.acked, N.leases, N.retry, N.lost, Passed(N))
    BY <1>4, <1>5, <2>2 DEF Sound
  <2>4. Booked(N)
    BY <1>2, <2>1, <2>3, BookedParts
  <2> QED
    BY <2>4 DEF N

LEMMA SoughtBooked ==
  ASSUME NEW S \in SubscriptionState, NEW cursor \in 0 .. MaxLen
  PROVE  /\ Booked(Sought(S, cursor)) /\ Sought(S, cursor).spec = S.spec
         /\ Sought(S, cursor).cursor = cursor
<1> DEFINE N == NewSubscription(S.spec, cursor)
           T == Sought(S, cursor)
<1>1. S.spec \in SubscriptionSpec
  BY DEF SubscriptionState
<1>2. Booked(N)
  BY <1>1, NewSubscriptionBooked
<1>3. N \in SubscriptionState
  BY <1>2 DEF Booked
<1> HIDE DEF N
<1>4. /\ T \in SubscriptionState /\ T.spec = S.spec
      /\ T.acked = N.acked /\ T.leases = N.leases /\ T.retry = N.retry
      /\ T.lost = N.lost /\ T.start = N.start /\ T.cursor = N.cursor
  BY <1>1, <1>3 DEF Sought, SubscriptionState, N
<1>5. Passed(T) = Passed(N)
  BY <1>4 DEF Passed
<1>6. N.cursor = cursor
  BY DEF N, NewSubscription
<1> HIDE DEF T
<1> QED
  BY <1>2, <1>4, <1>5, <1>6, BookedParts DEF T

-----------------------------------------------------------------------------
(* Leases that end.                                                        *)

LEMMA AckBooked ==
  ASSUME NEW S, Booked(S), NEW l \in S.leases
  PROVE  Booked(Ack(S, l)) /\ Ack(S, l).spec = S.spec
         /\ Ack(S, l).cursor = S.cursor
<1> DEFINE T == Ack(S, l)
<1>1. S \in SubscriptionState /\ l \in Lease /\ l.pos \in Position
  BY DEF Booked, SubscriptionState, Lease
<1>2. /\ T \in SubscriptionState /\ T.spec = S.spec
      /\ T.leases = S.leases \ {l} /\ T.acked = S.acked \cup {l.pos}
      /\ T.retry = S.retry /\ T.lost = S.lost
      /\ T.start = S.start /\ T.cursor = S.cursor
  BY <1>1 DEF Ack, SubscriptionState
<1> HIDE DEF T
<1>3. Passed(T) = Passed(S)
  BY <1>2 DEF Passed
<1>4. Sound(S.acked, S.leases, S.retry, S.lost, Passed(S))
  BY BookedParts
<1>5. Held(T.leases) = Held(S.leases) \ {l.pos} /\ l.pos \in Held(S.leases)
  BY <1>2, <1>4, HeldMinus DEF Sound, Held
<1>6. Sound(T.acked, T.leases, T.retry, T.lost, Passed(T))
  <2>1. Apart(S.acked, Held(S.leases), Queued(S.retry), S.lost, Passed(S))
    BY <1>4 DEF Sound
  <2>2. Apart(S.acked \cup {l.pos}, Held(S.leases) \ {l.pos}, Queued(S.retry),
             S.lost, Passed(S))
    BY <2>1, <1>5, MoveLeased
  <2>3. Apart(T.acked, Held(T.leases), Queued(T.retry), T.lost, Passed(T))
    BY <2>2, <1>2, <1>3, <1>5
  <2> QED
    BY <2>3, <1>2, <1>4, <1>5 DEF Sound
<1> QED
  BY <1>2, <1>6, BookedParts DEF T

LEMMA ForgetBooked ==
  ASSUME NEW S, Booked(S), NEW l \in S.leases
  PROVE  Booked(Forget(S, l)) /\ Forget(S, l).spec = S.spec
         /\ Forget(S, l).cursor = S.cursor
<1> DEFINE T == Forget(S, l)
<1>1. S \in SubscriptionState /\ l \in Lease /\ l.pos \in Position
  BY DEF Booked, SubscriptionState, Lease
<1>2. /\ T \in SubscriptionState /\ T.spec = S.spec
      /\ T.leases = S.leases \ {l} /\ T.acked = S.acked
      /\ T.retry = S.retry /\ T.lost = S.lost \cup {l.pos}
      /\ T.start = S.start /\ T.cursor = S.cursor
  BY <1>1 DEF Forget, SubscriptionState
<1> HIDE DEF T
<1>3. Passed(T) = Passed(S)
  BY <1>2 DEF Passed
<1>4. Sound(S.acked, S.leases, S.retry, S.lost, Passed(S))
  BY BookedParts
<1>5. Held(T.leases) = Held(S.leases) \ {l.pos} /\ l.pos \in Held(S.leases)
  BY <1>2, <1>4, HeldMinus DEF Sound, Held
<1>6. Sound(T.acked, T.leases, T.retry, T.lost, Passed(T))
  <2>1. Apart(S.acked, Held(S.leases), Queued(S.retry), S.lost, Passed(S))
    BY <1>4 DEF Sound
  <2>2. Apart(S.acked, Held(S.leases) \ {l.pos}, Queued(S.retry),
             S.lost \cup {l.pos}, Passed(S))
    BY <2>1, <1>5, MoveLeased
  <2>3. Apart(T.acked, Held(T.leases), Queued(T.retry), T.lost, Passed(T))
    BY <2>2, <1>2, <1>3, <1>5
  <2> QED
    BY <2>3, <1>2, <1>4, <1>5 DEF Sound
<1> QED
  BY <1>2, <1>6, BookedParts DEF T

\* Both ways back to the queue: nack puts the message in front, expiry behind.
LEMMA RequeueBooked ==
  ASSUME NEW S, Booked(S), NEW l \in S.leases, NEW T \in SubscriptionState,
         T.leases = S.leases \ {l}, Queued(T.retry) = Queued(S.retry) \cup {l.pos},
         Once(S.retry) /\ l.pos \notin Queued(S.retry) => Once(T.retry),
         T.acked = S.acked, T.lost = S.lost, T.start = S.start, T.cursor = S.cursor
  PROVE  Booked(T)
<1>1. Passed(T) = Passed(S)
  BY DEF Passed
<1>2. Sound(S.acked, S.leases, S.retry, S.lost, Passed(S))
  BY BookedParts
<1>3. Held(T.leases) = Held(S.leases) \ {l.pos} /\ l.pos \in Held(S.leases)
  BY <1>2, HeldMinus DEF Sound, Held
<1>4. \A m, n \in T.leases : m.pos = n.pos => m = n
  BY <1>2 DEF Sound
<1>5. l.pos \notin Queued(S.retry) /\ Once(T.retry)
  BY <1>2, <1>3 DEF Sound, Apart
<1>6. Sound(T.acked, T.leases, T.retry, T.lost, Passed(T))
  <2>1. Apart(S.acked, Held(S.leases), Queued(S.retry), S.lost, Passed(S))
    BY <1>2 DEF Sound
  <2>2. Apart(S.acked, Held(S.leases) \ {l.pos}, Queued(S.retry) \cup {l.pos},
             S.lost, Passed(S))
    BY <2>1, <1>3, MoveLeased
  <2>3. Apart(T.acked, Held(T.leases), Queued(T.retry), T.lost, Passed(T))
    BY <2>2, <1>1, <1>2, <1>3
  <2> QED
    BY <2>3, <1>2, <1>4, <1>5 DEF Sound
<1> QED
  BY <1>6, BookedParts

LEMMA NackBooked ==
  ASSUME NEW S, Booked(S), NEW l \in S.leases
  PROVE  Booked(Nack(S, l)) /\ Nack(S, l).spec = S.spec
         /\ Nack(S, l).cursor = S.cursor
<1> DEFINE e == [pos |-> l.pos, wait |-> Backoff(S, l.pos)]
           T == Nack(S, l)
<1>1. S \in SubscriptionState /\ l.pos \in Position /\ S.retry \in Seq(RetryEntry)
  BY DEF Booked, SubscriptionState, Lease
<1>2. e \in RetryEntry /\ e.pos = l.pos
  BY <1>1, BackoffType DEF RetryEntry
<1>3. T = [S EXCEPT !.leases = @ \ {l}, !.retry = <<e>> \o @]
  BY DEF Nack
<1> HIDE DEF e, T
<1>4. /\ <<e>> \o S.retry \in Seq(RetryEntry)
      /\ Queued(<<e>> \o S.retry) = Queued(S.retry) \cup {l.pos}
      /\ Once(S.retry) /\ l.pos \notin Queued(S.retry) => Once(<<e>> \o S.retry)
  BY <1>1, <1>2, QueuePrepend
<1>5. /\ T \in SubscriptionState /\ T.spec = S.spec
      /\ T.leases = S.leases \ {l} /\ T.retry = <<e>> \o S.retry
      /\ T.acked = S.acked /\ T.lost = S.lost
      /\ T.start = S.start /\ T.cursor = S.cursor
  BY <1>1, <1>3, <1>4 DEF SubscriptionState
<1> QED
  BY <1>4, <1>5, RequeueBooked DEF T

LEMMA ExpireBooked ==
  ASSUME NEW S, Booked(S), NEW l \in S.leases
  PROVE  Booked(Expire(S, l)) /\ Expire(S, l).spec = S.spec
         /\ Expire(S, l).cursor = S.cursor
<1> DEFINE e == [pos |-> l.pos, wait |-> Backoff(S, l.pos)]
           T == Expire(S, l)
<1>1. S \in SubscriptionState /\ l.pos \in Position /\ S.retry \in Seq(RetryEntry)
  BY DEF Booked, SubscriptionState, Lease
<1>2. e \in RetryEntry /\ e.pos = l.pos
  BY <1>1, BackoffType DEF RetryEntry
<1>3. l.pos \notin S.acked
  BY BookedParts DEF Sound, Apart, Held
<1>4. T = [S EXCEPT !.leases = @ \ {l}, !.retry = Append(@, e)]
  BY <1>1, <1>3 DEF Expire, SubscriptionState
<1> HIDE DEF e, T
<1>5. /\ Append(S.retry, e) \in Seq(RetryEntry)
      /\ Queued(Append(S.retry, e)) = Queued(S.retry) \cup {l.pos}
      /\ Once(S.retry) /\ l.pos \notin Queued(S.retry) => Once(Append(S.retry, e))
  BY <1>1, <1>2, QueueAppend
<1>6. /\ T \in SubscriptionState /\ T.spec = S.spec
      /\ T.leases = S.leases \ {l} /\ T.retry = Append(S.retry, e)
      /\ T.acked = S.acked /\ T.lost = S.lost
      /\ T.start = S.start /\ T.cursor = S.cursor
  BY <1>1, <1>4, <1>5 DEF SubscriptionState
<1> QED
  BY <1>5, <1>6, RequeueBooked DEF T

-----------------------------------------------------------------------------
(* Time, deadlines and spec updates leave every message where it is.       *)

LEMMA SamePlaces ==
  ASSUME NEW S, Booked(S), NEW T \in SubscriptionState,
         Held(T.leases) = Held(S.leases), Queued(T.retry) = Queued(S.retry),
         \A l, m \in T.leases : l.pos = m.pos => l = m, Once(T.retry),
         T.acked = S.acked, T.lost = S.lost, T.start = S.start, T.cursor = S.cursor
  PROVE  Booked(T)
<1>1. Passed(T) = Passed(S)
  BY DEF Passed
<1>2. Sound(S.acked, S.leases, S.retry, S.lost, Passed(S))
  BY BookedParts
<1> QED
  BY <1>1, <1>2, BookedParts DEF Sound

LEMMA OlderTypes ==
  /\ \A l \in Lease : OlderLease(l) \in Lease /\ OlderLease(l).pos = l.pos
  /\ \A e \in RetryEntry : OlderEntry(e) \in RetryEntry /\ OlderEntry(e).pos = e.pos
<1>1. ASSUME NEW l \in Lease
      PROVE  OlderLease(l) \in Lease /\ OlderLease(l).pos = l.pos
  <2>1. l.left \in -1 .. MaxAckDeadline /\ MaxAckDeadline \in Nat
    BY PolicyAssumption DEF Lease
  <2>2. (IF l.left < 0 THEN l.left ELSE l.left - 1) \in -1 .. MaxAckDeadline
    BY <2>1
  <2> QED
    BY <2>2 DEF OlderLease, Lease
<1>2. ASSUME NEW e \in RetryEntry
      PROVE  OlderEntry(e) \in RetryEntry /\ OlderEntry(e).pos = e.pos
  BY DEF OlderEntry, RetryEntry
<1> QED
  BY <1>1, <1>2

LEMMA AgedBooked ==
  ASSUME NEW S, Booked(S)
  PROVE  Booked(Aged(S)) /\ Aged(S).spec = S.spec
         /\ Aged(S).cursor = S.cursor
<1> DEFINE ls == {OlderLease(l) : l \in S.leases}
           q == [i \in DOMAIN S.retry |-> OlderEntry(S.retry[i])]
           T == Aged(S)
<1>1. S \in SubscriptionState /\ S.leases \subseteq Lease /\ S.retry \in Seq(RetryEntry)
  BY DEF Booked, SubscriptionState
<1>2. \A l \in Lease : OlderLease(l) \in Lease /\ OlderLease(l).pos = l.pos
  BY OlderTypes
<1>3. \A e \in RetryEntry : OlderEntry(e) \in RetryEntry /\ OlderEntry(e).pos = e.pos
  BY OlderTypes
<1>4. T = [S EXCEPT !.leases = ls, !.retry = q]
  BY DEF Aged
<1> HIDE DEF T
<1>5. ls \subseteq Lease
  BY <1>1, <1>2
<1>6. /\ q \in Seq(RetryEntry) /\ DOMAIN q = DOMAIN S.retry
      /\ \A i \in DOMAIN q : q[i].pos = S.retry[i].pos
  BY <1>1, <1>3
<1>7. Held(ls) = Held(S.leases)
  BY <1>1, <1>2 DEF Held
<1>8. \A l, m \in ls : l.pos = m.pos => l = m
  BY <1>1, <1>2, BookedParts DEF Sound
<1>9. Queued(q) = Queued(S.retry) /\ Once(q)
  <2>1. Once(S.retry)
    BY BookedParts DEF Sound
  <2> HIDE DEF q
  <2> QED
    BY <1>6, <2>1 DEF Queued, Once
<1> HIDE DEF ls, q
<1>10. /\ T \in SubscriptionState /\ T.spec = S.spec
       /\ T.leases = ls /\ T.retry = q /\ T.acked = S.acked /\ T.lost = S.lost
       /\ T.start = S.start /\ T.cursor = S.cursor
  BY <1>1, <1>4, <1>5, <1>6 DEF SubscriptionState
<1> QED
  BY <1>7, <1>8, <1>9, <1>10, SamePlaces DEF T

LEMMA ExtendedBooked ==
  ASSUME NEW S, Booked(S), NEW ids, NEW seconds \in 1 .. MaxAckDeadline
  PROVE  Booked(Extend(S, ids, seconds)) /\ Extend(S, ids, seconds).spec = S.spec
         /\ Extend(S, ids, seconds).cursor = S.cursor
<1> DEFINE ext(l) == IF \E i \in DOMAIN ids : ids[i] = AckId(l)
                     THEN [l EXCEPT !.left = seconds] ELSE l
           ls == {ext(l) : l \in S.leases}
           T == [S EXCEPT !.leases = ls]
<1>1. S \in SubscriptionState /\ S.leases \subseteq Lease
  BY DEF Booked, SubscriptionState
<1>2. seconds \in -1 .. MaxAckDeadline
  BY PolicyAssumption
<1>3. \A l \in Lease : ext(l) \in Lease /\ ext(l).pos = l.pos
  BY <1>2 DEF Lease
<1> HIDE DEF ext
<1>4. ls \subseteq Lease
  BY <1>1, <1>3
<1>5. Held(ls) = Held(S.leases)
  BY <1>1, <1>3 DEF Held
<1>6. \A l, m \in ls : l.pos = m.pos => l = m
  BY <1>1, <1>3, BookedParts DEF Sound
<1> HIDE DEF ls
<1>7. /\ T \in SubscriptionState /\ T.spec = S.spec
      /\ T.leases = ls /\ T.retry = S.retry
      /\ T.acked = S.acked /\ T.lost = S.lost
      /\ T.start = S.start /\ T.cursor = S.cursor
  BY <1>1, <1>4 DEF SubscriptionState
<1>8. Once(T.retry)
  BY <1>7, BookedParts DEF Sound
<1> HIDE DEF T
<1>9. Booked(T)
  BY <1>5, <1>6, <1>7, <1>8, SamePlaces
<1> QED
  BY <1>7, <1>9 DEF T, ls, ext, Extend

LEMMA MaskedBooked ==
  ASSUME NEW S, Booked(S), NEW spec \in SubscriptionSpec, NEW mask
  PROVE  /\ Booked([S EXCEPT !.spec = Masked(@, spec, mask)])
         /\ [S EXCEPT !.spec = Masked(@, spec, mask)].cursor = S.cursor
         /\ Masked(S.spec, spec, mask).topic = S.spec.topic
<1> DEFINE M == Masked(S.spec, spec, mask)
           T == [S EXCEPT !.spec = M]
<1>1. S \in SubscriptionState /\ S.spec \in SubscriptionSpec
  BY DEF Booked, SubscriptionState
<1>2. NormalizeAckDeadline(S.spec.deadline) \in Nat
      /\ NormalizeAckDeadline(spec.deadline) \in Nat
  BY <1>1, DeadlineType DEF SubscriptionSpec
<1>3. M \in SubscriptionSpec /\ M.topic = S.spec.topic
  <2> DEFINE o == IF "ordering" \in mask THEN spec.ordering ELSE S.spec.ordering
             e == IF "exactlyOnce" \in mask THEN spec.exactlyOnce ELSE S.spec.exactlyOnce
             d == IF "dead" \in mask THEN spec.dead ELSE S.spec.dead
             r == IF "retry" \in mask THEN spec.retry ELSE S.spec.retry
             n == NormalizeAckDeadline(
                    IF "deadline" \in mask THEN spec.deadline ELSE S.spec.deadline)
  <2>1. /\ o \in BOOLEAN /\ e \in BOOLEAN /\ d \in DeadLetterPolicy \cup {NoDeadLetter}
        /\ r \in RetryPolicy \cup {NoRetry} /\ n \in Nat
    BY <1>1, <1>2 DEF SubscriptionSpec
  <2>2. M = [S.spec EXCEPT !.ordering = o, !.exactlyOnce = e, !.dead = d, !.retry = r,
                           !.deadline = n]
    BY DEF Masked
  <2> HIDE DEF M, o, e, d, r, n
  <2> QED
    BY <1>1, <2>1, <2>2 DEF SubscriptionSpec
<1> HIDE DEF M
<1>4. /\ T \in SubscriptionState /\ T.leases = S.leases /\ T.retry = S.retry
      /\ T.acked = S.acked /\ T.lost = S.lost
      /\ T.start = S.start /\ T.cursor = S.cursor
  BY <1>1, <1>3 DEF SubscriptionState
<1>5. Sound(S.acked, S.leases, S.retry, S.lost, Passed(S))
  BY BookedParts
<1> HIDE DEF T
<1>6. Booked(T)
  BY <1>4, <1>5, SamePlaces DEF Sound
<1> QED
  BY <1>3, <1>6 DEF T, M

-----------------------------------------------------------------------------
(* A message pull has taken and not yet put anywhere.                      *)

InHand(R, p) ==
  /\ R \in SubscriptionState /\ p \in Position /\ R.start <= R.cursor
  /\ \E P : p \notin P /\ P \cup {p} = Passed(R)
            /\ Sound(R.acked, R.leases, R.retry, R.lost, P)

\* If an entry of the retry queue is ready, there is a first one.
LEMMA FirstReady ==
  ASSUME NEW S \in SubscriptionState, NEW skipped, SomeReady(S, skipped)
  PROVE  \E i \in DOMAIN S.retry : IsFirstReady(S.retry, i, skipped)
<1> DEFINE I == {i \in DOMAIN S.retry :
                   S.retry[i].wait = 0 /\ S.retry[i].pos \notin skipped}
<1>1. DOMAIN S.retry \subseteq Nat
      /\ \A i \in DOMAIN S.retry : \A j \in 1 .. i - 1 : j \in DOMAIN S.retry
  <2>1. S.retry \in Seq(RetryEntry)
    BY DEF SubscriptionState
  <2> QED
    BY <2>1
<1>2. I # {} /\ I \subseteq Nat
  BY <1>1 DEF SomeReady
<1> HIDE DEF I
<1>3. PICK i \in I : \A j \in I : ~(j < i)
  <2>1. \E i \in I : \A j \in I : <<j, i>> \notin OpToRel(<, Nat)
    BY <1>2, NatLessThanWellFounded, WFMin
  <2>2. \A i, j \in Nat : <<j, i>> \notin OpToRel(<, Nat) => ~(j < i)
    BY DEF OpToRel
  <2> QED
    BY <1>2, <2>1, <2>2
<1>4. \A j \in 1 .. i - 1 : j \notin I
  BY <1>2, <1>3
<1> QED
  BY <1>1, <1>3, <1>4 DEF IsFirstReady, I

LEMMA TakeQueuedInHand ==
  ASSUME NEW S, Booked(S), NEW skipped, NEW len, SomeReady(S, skipped)
  PROVE  LET taken == Take(S, skipped, len)
         IN  InHand(taken.rest, taken.pos) /\ taken.rest.spec = S.spec
             /\ taken.rest.cursor = S.cursor
<1> DEFINE i == CHOOSE i \in DOMAIN S.retry : IsFirstReady(S.retry, i, skipped)
           p == S.retry[i].pos
           R == [S EXCEPT !.retry = RemoveAt(@, i)]
<1>1. S \in SubscriptionState /\ S.retry \in Seq(RetryEntry)
  BY DEF Booked, SubscriptionState
<1>2. i \in DOMAIN S.retry
  BY <1>1, FirstReady
<1>3. Take(S, skipped, len) = [pos |-> p, rest |-> R]
  BY DEF Take
<1> HIDE DEF i
<1>4. Sound(S.acked, S.leases, S.retry, S.lost, Passed(S))
  BY BookedParts
<1>5. /\ RemoveAt(S.retry, i) \in Seq(RetryEntry)
      /\ Queued(RemoveAt(S.retry, i)) = Queued(S.retry) \ {p}
      /\ Once(RemoveAt(S.retry, i))
  BY <1>1, <1>2, <1>4, QueueRemove DEF Sound
<1>6. p \in Queued(S.retry) /\ p \in Position
  <2>1. S.retry[i] \in RetryEntry
    BY <1>1, <1>2
  <2> QED
    BY <1>2, <2>1 DEF Queued, RetryEntry
<1>7. /\ R \in SubscriptionState /\ R.retry = RemoveAt(S.retry, i)
      /\ R.spec = S.spec /\ R.acked = S.acked /\ R.leases = S.leases
      /\ R.lost = S.lost /\ R.start = S.start /\ R.cursor = S.cursor
  BY <1>1, <1>5 DEF SubscriptionState
<1> HIDE DEF p, R
<1>8. Passed(R) = Passed(S)
  BY <1>7 DEF Passed
<1>9. Apart(S.acked, Held(S.leases), Queued(S.retry), S.lost, Passed(S))
  BY <1>4 DEF Sound
<1>10. /\ p \in Passed(S)
       /\ Apart(S.acked, Held(S.leases), Queued(S.retry) \ {p}, S.lost, Passed(S) \ {p})
  BY <1>6, <1>9, TakeQueued
<1>11. Sound(R.acked, R.leases, R.retry, R.lost, Passed(S) \ {p})
  BY <1>4, <1>5, <1>7, <1>10 DEF Sound
<1>12. InHand(R, p)
  <2>1. p \notin Passed(S) \ {p} /\ (Passed(S) \ {p}) \cup {p} = Passed(R)
    BY <1>8, <1>10
  <2> QED
    BY <1>6, <1>7, <1>11, <2>1, BookedParts DEF InHand
<1> QED
  BY <1>3, <1>7, <1>12

LEMMA TakeNextInHand ==
  ASSUME NEW S, Booked(S), NEW skipped, NEW len,
         ~SomeReady(S, skipped), S.cursor < MaxLen
  PROVE  LET taken == Take(S, skipped, len)
         IN  InHand(taken.rest, taken.pos) /\ taken.rest.spec = S.spec
             /\ taken.rest.cursor = S.cursor + 1
<1> DEFINE p == S.cursor + 1
           R == [S EXCEPT !.cursor = @ + 1]
<1>1. S \in SubscriptionState /\ S.cursor \in 0 .. MaxLen /\ S.start \in Nat
      /\ MaxLen \in Nat
  BY BackendAssumption DEF Booked, SubscriptionState
<1>2. Take(S, skipped, len) = [pos |-> p, rest |-> R]
  BY DEF Take
<1>3. p \in Position /\ p \in 0 .. MaxLen
  BY <1>1 DEF Position
<1>4. /\ R \in SubscriptionState /\ R.retry = S.retry
      /\ R.spec = S.spec /\ R.acked = S.acked /\ R.leases = S.leases
      /\ R.lost = S.lost /\ R.start = S.start /\ R.cursor = p
  BY <1>1, <1>3 DEF SubscriptionState
<1> HIDE DEF R
<1>5. Sound(S.acked, S.leases, S.retry, S.lost, Passed(S))
  BY BookedParts
<1>6. p \notin Passed(S) /\ Passed(S) \cup {p} = Passed(R) /\ R.start <= R.cursor
  BY <1>1, <1>4, BookedParts DEF Passed
<1>7. InHand(R, p)
  BY <1>3, <1>4, <1>5, <1>6 DEF InHand
<1> QED
  BY <1>2, <1>4, <1>7

-----------------------------------------------------------------------------
(* What pull does with the message in its hand: the books are back in order. *)

LEMMA InHandOutstanding ==
  ASSUME NEW R, NEW p, InHand(R, p)
  PROVE  ~Handled(R, p)
<1>1. PICK P : p \notin P /\ Sound(R.acked, R.leases, R.retry, R.lost, P)
  BY DEF InHand
<1> QED
  BY <1>1 DEF Sound, Apart, Held, Handled, Leased

LEMMA PostponeBooked ==
  ASSUME NEW R, NEW p, InHand(R, p)
  PROVE  Booked(Postpone(R, p)) /\ Postpone(R, p).spec = R.spec
         /\ Postpone(R, p).cursor = R.cursor
<1> DEFINE e == [pos |-> p, wait |-> 0]
           T == Postpone(R, p)
<1>1. /\ R \in SubscriptionState /\ p \in Position /\ R.retry \in Seq(RetryEntry)
      /\ R.start <= R.cursor
  BY DEF InHand, SubscriptionState
<1>2. PICK P : /\ p \notin P /\ P \cup {p} = Passed(R)
               /\ Sound(R.acked, R.leases, R.retry, R.lost, P)
  BY DEF InHand
<1>3. e \in RetryEntry /\ e.pos = p
  BY <1>1 DEF RetryEntry
<1>4. T = [R EXCEPT !.retry = Append(@, e)]
  BY DEF Postpone
<1> HIDE DEF e, T
<1>5. /\ Append(R.retry, e) \in Seq(RetryEntry)
      /\ Queued(Append(R.retry, e)) = Queued(R.retry) \cup {p}
      /\ Once(R.retry) /\ p \notin Queued(R.retry) => Once(Append(R.retry, e))
  BY <1>1, <1>3, QueueAppend
<1>6. /\ T \in SubscriptionState /\ T.spec = R.spec /\ T.retry = Append(R.retry, e)
      /\ T.leases = R.leases /\ T.acked = R.acked /\ T.lost = R.lost
      /\ T.start = R.start /\ T.cursor = R.cursor
  BY <1>1, <1>4, <1>5 DEF SubscriptionState
<1>7. Apart(R.acked, Held(R.leases), Queued(R.retry), R.lost, P) /\ Once(R.retry)
  BY <1>2 DEF Sound
<1>8. p \notin Queued(R.retry)
  BY <1>2, <1>7 DEF Apart
<1>9. Apart(R.acked, Held(R.leases), Queued(R.retry) \cup {p}, R.lost, P \cup {p})
  BY <1>2, <1>7, PutTaken
<1>10. Passed(T) = P \cup {p}
  BY <1>2, <1>6 DEF Passed
<1>11. Sound(T.acked, T.leases, T.retry, T.lost, Passed(T))
  BY <1>2, <1>5, <1>6, <1>7, <1>8, <1>9, <1>10 DEF Sound
<1> QED
  BY <1>1, <1>6, <1>11, BookedParts DEF T

LEMMA SettleBooked ==
  ASSUME NEW R, NEW p, InHand(R, p)
  PROVE  Booked(Settle(R, p)) /\ Settle(R, p).spec = R.spec
         /\ Settle(R, p).cursor = R.cursor
<1> DEFINE C == CountAttempt(R, p)
           T == Settle(R, p)
<1>1. R \in SubscriptionState /\ p \in Position /\ R.start <= R.cursor
  BY DEF InHand
<1>2. PICK P : /\ p \notin P /\ P \cup {p} = Passed(R)
               /\ Sound(R.acked, R.leases, R.retry, R.lost, P)
  BY DEF InHand
<1>3. /\ C \in SubscriptionState
      /\ C.spec = R.spec /\ C.cursor = R.cursor /\ C.start = R.start
      /\ C.acked = R.acked /\ C.leases = R.leases
      /\ C.retry = R.retry /\ C.lost = R.lost
  BY <1>1, CountAttemptType
<1>4. T = [C EXCEPT !.acked = @ \cup {p}]
  BY DEF Settle
<1> HIDE DEF C, T
<1>5. /\ T \in SubscriptionState /\ T.spec = R.spec /\ T.retry = R.retry
      /\ T.leases = R.leases /\ T.acked = R.acked \cup {p} /\ T.lost = R.lost
      /\ T.start = R.start /\ T.cursor = R.cursor
  BY <1>1, <1>3, <1>4 DEF SubscriptionState
<1>6. Apart(R.acked, Held(R.leases), Queued(R.retry), R.lost, P)
  BY <1>2 DEF Sound
<1>7. Apart(R.acked \cup {p}, Held(R.leases), Queued(R.retry), R.lost, P \cup {p})
  BY <1>2, <1>6, PutTaken
<1>8. Passed(T) = P \cup {p}
  BY <1>2, <1>5 DEF Passed
<1>9. Sound(T.acked, T.leases, T.retry, T.lost, Passed(T))
  BY <1>2, <1>5, <1>7, <1>8 DEF Sound
<1> QED
  BY <1>1, <1>5, <1>9, BookedParts DEF T

LEMMA DeliverBooked ==
  ASSUME NEW R, NEW p, InHand(R, p)
  PROVE  Booked(Deliver(R, p)) /\ Deliver(R, p).spec = R.spec
         /\ Deliver(R, p).cursor = R.cursor
<1> DEFINE C == CountAttempt(R, p)
           l == [pos |-> p, attempt |-> NextAttempt(R, p),
                 left |-> NormalizeAckDeadline(R.spec.deadline)]
           T == Deliver(R, p)
<1>1. R \in SubscriptionState /\ p \in Position /\ R.start <= R.cursor
  BY DEF InHand
<1>2. PICK P : /\ p \notin P /\ P \cup {p} = Passed(R)
               /\ Sound(R.acked, R.leases, R.retry, R.lost, P)
  BY DEF InHand
<1>3. /\ C \in SubscriptionState
      /\ C.spec = R.spec /\ C.cursor = R.cursor /\ C.start = R.start
      /\ C.acked = R.acked /\ C.leases = R.leases
      /\ C.retry = R.retry /\ C.lost = R.lost
  BY <1>1, CountAttemptType
<1>4. l \in Lease /\ l.pos = p
  <2>1. R.spec.deadline \in Nat
    BY <1>1 DEF SubscriptionState, SubscriptionSpec
  <2> QED
    BY <1>1, <2>1, DeadlineType, AttemptType DEF Lease
<1>5. T = [C EXCEPT !.leases = @ \cup {l}]
  BY DEF Deliver
<1> HIDE DEF C, T, l
<1>6. /\ T \in SubscriptionState /\ T.spec = R.spec /\ T.retry = R.retry
      /\ T.leases = R.leases \cup {l} /\ T.acked = R.acked /\ T.lost = R.lost
      /\ T.start = R.start /\ T.cursor = R.cursor
  BY <1>1, <1>3, <1>4, <1>5 DEF SubscriptionState
<1>7. Apart(R.acked, Held(R.leases), Queued(R.retry), R.lost, P)
  BY <1>2 DEF Sound
<1>8. Held(T.leases) = Held(R.leases) \cup {p} /\ p \notin Held(R.leases)
  BY <1>2, <1>4, <1>6, <1>7, HeldPlus DEF Apart
<1>9. Apart(R.acked, Held(R.leases) \cup {p}, Queued(R.retry), R.lost, P \cup {p})
  BY <1>2, <1>7, PutTaken
<1>10. Passed(T) = P \cup {p}
  BY <1>2, <1>6 DEF Passed
<1>11. \A m, n \in T.leases : m.pos = n.pos => m = n
  BY <1>2, <1>4, <1>6, <1>8 DEF Sound, Held
<1>12. Sound(T.acked, T.leases, T.retry, T.lost, Passed(T))
  BY <1>2, <1>6, <1>8, <1>9, <1>10, <1>11 DEF Sound
<1> QED
  BY <1>1, <1>6, <1>12, BookedParts DEF T
=============================================================================

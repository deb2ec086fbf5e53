-------------------------- MODULE DeliveryPolicy --------------------------
(***************************************************************************)
(* The numeric rules a subscription's policy obeys in src/memory.rs: the   *)
(* clamps on ack deadline, pull size and delivery attempts, and the        *)
(* exponential retry backoff on saturating u32 arithmetic.  The literal    *)
(* bounds of the code (10, 600, 5, 100, 1000, u32::MAX) are CONSTANTS so   *)
(* that the modules built on this one can use a coarser clock.             *)
(***************************************************************************)
EXTENDS Naturals

CONSTANTS
  MinAckDeadline, MaxAckDeadline,   \* 10 and 600 in the code
  MinTries, MaxTries,               \* 5 and 100 in the code
  MaxPull,                          \* 1000 in the code
  DefaultMinBackoff, DefaultMaxBackoff,  \* 10 and 600 in the code
  MaxU32,                           \* 2^32 - 1 in the code
  NoRetry                           \* a subscription without a retry policy

U32 == 0 .. MaxU32

RetryPolicy == [min : U32, max : U32]

ASSUME PolicyAssumption ==
  /\ MinAckDeadline \in Nat /\ MaxAckDeadline \in Nat
  /\ MinAckDeadline <= MaxAckDeadline
  /\ MinTries \in Nat /\ MaxTries \in Nat /\ MinTries <= MaxTries
  /\ MaxPull \in Nat \ {0}
  /\ DefaultMinBackoff \in Nat /\ DefaultMaxBackoff \in Nat
  /\ DefaultMinBackoff <= DefaultMaxBackoff
  /\ MaxU32 \in Nat /\ DefaultMaxBackoff <= MaxU32
  /\ NoRetry \notin RetryPolicy

\* u32::clamp; the code only calls it with lo <= hi, where it cannot panic.
Clamp(x, lo, hi) == IF x < lo THEN lo ELSE IF x > hi THEN hi ELSE x

NormalizeAckDeadline(seconds) == Clamp(seconds, MinAckDeadline, MaxAckDeadline)

PullLimit(max_messages) == Clamp(max_messages, 1, MaxPull)

\* dlq.max_delivery_attempts.clamp(5, 100)
MaxDeliveryAttempts(tries) == Clamp(tries, MinTries, MaxTries)

\* Wraps around instead of saturating.
BadSaturatingMul(a, b) == (a * b) % (MaxU32 + 1)

SaturatingMul(a, b) == IF a * b > MaxU32 THEN MaxU32 ELSE a * b

\* 1u32 << exp for the exponents the code can reach: 0 .. 10.
PowersOfTwo == <<1, 2, 4, 8, 16, 32, 64, 128, 256, 512, 1024>>

\* Doubles before the first redelivery already.
BadBackoffExponent(attempt) == IF attempt > 10 THEN 11 ELSE attempt + 1

\* attempt.saturating_sub(1).min(10), as an index into PowersOfTwo.
BackoffExponent(attempt) ==
  IF attempt <= 1 THEN 1 ELSE IF attempt > 11 THEN 11 ELSE attempt

BackoffFactor(attempt) == PowersOfTwo[BackoffExponent(attempt)]

LowerBackoff(retry) == IF retry = NoRetry THEN DefaultMinBackoff ELSE retry.min

UpperBackoff(retry) ==
  IF retry = NoRetry THEN DefaultMaxBackoff
  ELSE IF retry.max < retry.min THEN retry.min ELSE retry.max

BackoffSeconds(retry, attempt) ==
  LET lo == LowerBackoff(retry)
      hi == UpperBackoff(retry)
  IN  IF hi = 0 THEN 0
      ELSE Clamp(SaturatingMul(lo, BackoffFactor(attempt)), lo, IF hi > 1 THEN hi ELSE 1)
=============================================================================

----------------------------- MODULE Redelivery -----------------------------
(***************************************************************************)
(* The deliveries of one message that is never acknowledged, and the delay *)
(* before each next one (src/memory.rs, backoff_seconds).                  *)
(***************************************************************************)
EXTENDS DeliveryPolicy

CONSTANT MaxAttempt    \* bound: deliveries looked at

VARIABLES
  policy,    \* the subscription's retry policy
  attempt    \* sub.attempts[index], 1 from the first delivery on

rvars == <<policy, attempt>>

BackoffInit == policy \in RetryPolicy \cup {NoRetry} /\ attempt = 1

\* deliver: another attempt on an entry that is due again.
Redeliver ==
  /\ attempt < MaxAttempt
  /\ attempt' = attempt + 1
  /\ UNCHANGED policy

BackoffSpec == BackoffInit /\ [][Redeliver]_rvars

Smaller(a, b) == IF a < b THEN a ELSE b

\* The delay is the minimum doubled once per redelivery, ten times at most, and
\* cut off at the maximum, exactly: u32 saturation never shows, and a maximum
\* below the minimum counts as the minimum.
BackoffExact ==
  BackoffSeconds(policy, attempt) =
    Smaller(UpperBackoff(policy),
            LowerBackoff(policy) * 2 ^ Smaller(attempt - 1, 10))

\* Each redelivery waits at least as long as the one before.
BackoffGrows ==
  [][BackoffSeconds(policy, attempt') >= BackoffSeconds(policy, attempt)]_attempt
=============================================================================

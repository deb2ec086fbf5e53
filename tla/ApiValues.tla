----------------------------- MODULE ApiValues -----------------------------
(***************************************************************************)
(* What the two doors of the gateway, src/grpc.rs and src/rest.rs, share:  *)
(* a request is what the client means, a record of fields each absent or   *)
(* with a value.  A gRPC client sends it as protobuf, where an absent      *)
(* number is 0, an absent text empty and null the same as absent; a REST   *)
(* client sends JSON, where absent and null are different things.  A door  *)
(* turns the request into a call of the backend, or refuses it.            *)
(*                                                                         *)
(* Timestamps, labels of subscriptions, etags and KMS keys are left out.   *)
(***************************************************************************)
EXTENDS DeliveryPolicy, Integers

CONSTANTS
  Absent, Null,      \* no such field or resource; JSON's null
  NoDead,            \* a subscription without a dead-letter policy
  MaxI32             \* 2^31 - 1 in the code

NoValue(field) == field \in {Absent, Null}

\* unwrap_or: a field without a value counts as the default.
Or(field, default) == IF NoValue(field) THEN default ELSE field

AtLeast(lo, x) == IF x < lo THEN lo ELSE x

\* A wider number cast to u32: the low bits.
AsU32(x) == x % (MaxU32 + 1)

\* u32 as i32
AsI32(x) == IF x > MaxI32 THEN x - MaxU32 - 1 ELSE x

Refused == [op |-> "refused"]

\* A schema definition is empty, plain text, JSON or broken JSON that starts
\* with a brace; typed is JSON with a type field.  A payload is empty, text
\* that is not JSON, a JSON object with some keys, or another JSON value.
NoDefinition == [form |-> "empty", proto |-> FALSE, required |-> {}]

NoPayload == [form |-> "empty", keys |-> {}]
=============================================================================

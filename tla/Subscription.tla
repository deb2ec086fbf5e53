---------------------------- MODULE Subscription ----------------------------
(***************************************************************************)
(* The state of one subscription of src/memory.rs (SubscriptionState) and  *)
(* what each operation of the broker does to it, as operators from a state *)
(* to a state.  MemoryBackend turns them into actions.                     *)
(*                                                                         *)
(* A log position p is the code's index p - 1, so a cursor (next_index) of *)
(* n has passed the positions 1 .. n.  Time is relative: a lease holds the *)
(* ticks left until its deadline and a retry entry the ticks left until    *)
(* available_at.                                                           *)
(*                                                                         *)
(* The operators whose name starts with Bad are not part of the model: each *)
(* is the definition after it with a plausible mistake in it, and serves to *)
(* show that a property of the project would notice.                       *)
(***************************************************************************)
EXTENDS DeliveryPolicy, Integers, Sequences, SequencesExt

CONSTANTS
  Topics, Subs, Snaps, Schemas,  \* resource names
  Keys, NoKey,                   \* ordering keys; NoKey is the empty key
  ClientIds, NoId,               \* message_id / idempotency_key; NoId: none given
  Attrs,                         \* attribute sets, told apart by the filters
  Data,                          \* payloads, told apart by the schemas
  NoSchema, NoDeadLetter, NoOrigin,
  Specs,                         \* subscription specs a client may ask for
  Batches,                       \* message batches a publisher may send
  PullSizes,                     \* max_messages a consumer may ask for
  Extensions,                    \* non-zero seconds of a modify_ack_deadline
  MaxLen,                        \* bound: length of a topic's log
  MaxResets,                     \* bound: creations and seeks per subscription
  MaxIds,                        \* bound: ack ids per request
  AttemptCap                     \* bound: attempt numbers from here on are not
                                 \* told apart (no policy tells them apart)

NewMessage == [id : ClientIds \cup {NoId}, key : Keys \cup {NoKey},
               attr : Attrs, data : Data]

DeadLetterPolicy == [topic : Topics, tries : Nat]

SubscriptionSpec ==
  [topic : Topics, ordering : BOOLEAN, exactlyOnce : BOOLEAN,
   dead : DeadLetterPolicy \cup {NoDeadLetter},
   retry : RetryPolicy \cup {NoRetry}, deadline : Nat, filter : SUBSET Attrs]

ASSUME BackendAssumption ==
  /\ MaxLen \in Nat /\ MaxResets \in Nat /\ MaxIds \in Nat
  /\ AttemptCap \in Nat /\ AttemptCap > MaxTries
  /\ Specs \subseteq SubscriptionSpec
  /\ Batches \subseteq Seq(NewMessage) /\ <<>> \notin Batches
  /\ PullSizes \subseteq Nat
  /\ Extensions \subseteq 1 .. MaxAckDeadline
  /\ NoDeadLetter \notin DeadLetterPolicy
  /\ Subs \cap Snaps = {}
  /\ NoKey \notin Keys /\ NoId \notin ClientIds /\ NoSchema \notin Schemas

Position == 1 .. MaxLen

\* A dead-lettered copy carries its source subscription and message (the
\* attributes x-zyvor-dead-letter-source and x-zyvor-original-message-id).
Origin == [sub : Subs, pos : Position, life : 0 .. MaxResets]

Message == [id : ClientIds \cup {NoId}, key : Keys \cup {NoKey}, attr : Attrs,
            data : Data, origin : Origin \cup {NoOrigin}]

\* One in-flight entry; pos and attempt make up its ack id.
Lease == [pos : Position, attempt : 1 .. AttemptCap, left : -1 .. MaxAckDeadline]

RetryEntry == [pos : Position, wait : Nat]

\* start and lost are history: the cursor the subscription was created at or
\* last sought to, and the positions a rejected exactly-once ack has dropped.
SubscriptionState ==
  [spec : SubscriptionSpec, cursor : 0 .. MaxLen, acked : SUBSET Position,
   leases : SUBSET Lease, retry : Seq(RetryEntry),
   attempts : [Position -> 0 .. AttemptCap],
   start : 0 .. MaxLen, lost : SUBSET Position]

-----------------------------------------------------------------------------
(* Reading a subscription.                                                *)

Leased(S) == {l.pos : l \in S.leases}

Waiting(S) == {S.retry[i].pos : i \in DOMAIN S.retry}

AckId(l) == <<l.pos, l.attempt>>

\* An ack id the subscription never issued, or no longer holds a lease for.
UnknownId == <<0, 0>>

NextAttempt(S, p) ==
  IF S.attempts[p] < AttemptCap THEN S.attempts[p] + 1 ELSE AttemptCap

Backoff(S, p) == BackoffSeconds(S.spec.retry, S.attempts[p])

\* Waits for leased predecessors only, not for those in the retry queue.
BadOrderingBlocked(S, log, p) ==
  /\ S.spec.ordering
  /\ log[p].key # NoKey
  /\ \E q \in 1 .. p - 1 : log[q].key = log[p].key /\ q \in Leased(S)

\* Counts the message itself among its predecessors.
BadOrderingBlockedBySelf(S, log, p) ==
  /\ S.spec.ordering
  /\ log[p].key # NoKey
  /\ \E q \in 1 .. p : log[q].key = log[p].key /\ q \notin S.acked

\* ordering_blocked: an earlier message of the log with the same key, from
\* its very first position on, is not acked.
OrderingBlocked(S, log, p) ==
  /\ S.spec.ordering
  /\ log[p].key # NoKey
  /\ \E q \in 1 .. p - 1 : log[q].key = log[p].key /\ q \notin S.acked

-----------------------------------------------------------------------------
(* What the operations do to one subscription.                             *)

NewSubscription(spec, cursor) ==
  [spec |-> [spec EXCEPT !.deadline = NormalizeAckDeadline(@)],
   cursor |-> cursor, acked |-> {}, leases |-> {}, retry |-> <<>>,
   attempts |-> [p \in Position |-> 0], start |-> cursor, lost |-> {}]

\* Leaves the retry queue of before the seek.
BadSought(S, cursor) ==
  [NewSubscription(S.spec, cursor) EXCEPT !.spec = S.spec, !.retry = S.retry]

\* Both seeks move the cursor and clear everything else.
Sought(S, cursor) ==
  [NewSubscription(S.spec, cursor) EXCEPT !.spec = S.spec]

\* Takes an expired lease away without queueing the message again.
BadExpire(S, l) == [S EXCEPT !.leases = @ \ {l}]

Expire(S, l) ==
  [S EXCEPT !.leases = @ \ {l},
            !.retry = IF l.pos \in S.acked THEN @
                      ELSE Append(@, [pos |-> l.pos, wait |-> Backoff(S, l.pos)])]

\* Queues the message but leaves it leased until the deadline.
BadNack(S, l) ==
  [S EXCEPT !.retry = <<[pos |-> l.pos, wait |-> Backoff(S, l.pos)]>> \o @]

Nack(S, l) ==
  [S EXCEPT !.leases = @ \ {l},
            !.retry = <<[pos |-> l.pos, wait |-> Backoff(S, l.pos)]>> \o @]

Ack(S, l) == [S EXCEPT !.leases = @ \ {l}, !.acked = @ \cup {l.pos}]

\* An exactly-once ack after the deadline: the lease is removed before the
\* deadline is looked at, and nothing puts the message back.
Forget(S, l) == [S EXCEPT !.leases = @ \ {l}, !.lost = @ \cup {l.pos}]

\* modify_ack_deadline with a non-zero deadline.
Extend(S, ids, seconds) ==
  [S EXCEPT !.leases =
     {IF \E i \in DOMAIN ids : ids[i] = AckId(l)
      THEN [l EXCEPT !.left = seconds] ELSE l : l \in S.leases}]

\* Passes over a blocked message without queueing it.
BadPostpone(S, p) == S

Postpone(S, p) == [S EXCEPT !.retry = Append(@, [pos |-> p, wait |-> 0])]

\* Forgets the attempt, so that the next delivery has the same ack id.
BadCountAttempt(S, p) == S

CountAttempt(S, p) == [S EXCEPT !.attempts[p] = NextAttempt(S, p)]

\* The dead-lettered or filtered message is not marked acked.
BadSettle(S, p) == CountAttempt(S, p)

\* ... and goes back to the queue.
BadSettleQueued(S, p) == Postpone(CountAttempt(S, p), p)

\* Acked without a delivery: dead-lettered, or rejected by the filter.
Settle(S, p) == [CountAttempt(S, p) EXCEPT !.acked = @ \cup {p}]

Deliver(S, p) ==
  [CountAttempt(S, p) EXCEPT
     !.leases = @ \cup {[pos |-> p, attempt |-> NextAttempt(S, p),
                         left |-> NormalizeAckDeadline(S.spec.deadline)]}]

OlderLease(l) == [l EXCEPT !.left = IF @ < 0 THEN @ ELSE @ - 1]

OlderEntry(e) == [e EXCEPT !.wait = IF @ = 0 THEN 0 ELSE @ - 1]

\* One tick later.
Aged(S) ==
  [S EXCEPT !.leases = {OlderLease(l) : l \in S.leases},
            !.retry = [i \in DOMAIN S.retry |-> OlderEntry(S.retry[i])]]

=============================================================================

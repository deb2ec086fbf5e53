--------------------------- MODULE MemoryBackend ---------------------------
(***************************************************************************)
(* The in-memory broker of src/memory.rs: topics with append-only logs and *)
(* their dedup sets, subscriptions with a cursor, leases and a retry       *)
(* queue, snapshots and schemas, and every operation that changes them.    *)
(*                                                                         *)
(* Every operation of the code runs under one write lock.  Operations      *)
(* without a loop are one action.  The four that loop over messages or ack *)
(* ids (publish, pull, acknowledge, nack) take the lock in a Begin action, *)
(* do one iteration per step, and release it; `lock' holds their local     *)
(* variables.  All other actions need the lock free.                       *)
(*                                                                         *)
(* Time passes between operations: Tick counts every lease and every retry *)
(* entry down by one.                                                      *)
(***************************************************************************)
EXTENDS Subscription

VARIABLES
  topic,    \* HashMap topic name -> [log, seen, schema]
  sub,      \* HashMap subscription name -> SubscriptionState
  snap,     \* HashMap snapshot name -> [topic, cursor]
  schema,   \* HashMap schema name -> set of payloads it accepts
  lock,     \* the write guard: Free, or the locals of the operation holding it
  resets,   \* history: creations and seeks of each subscription so far
  stale     \* history: subscriptions and snapshots whose cursor is older than
            \* the deletion of their topic

vars == <<topic, sub, snap, schema, lock, resets, stale>>

TopicState == [log : Seq(Message), seen : SUBSET ClientIds,
               schema : Schemas \cup {NoSchema}]

SnapshotSpec == [topic : Topics, cursor : 0 .. MaxLen]

-----------------------------------------------------------------------------
(* Reading the state.                                                      *)

NoEntries == [n \in {} |-> {}]

Put(map, name, value) ==
  [n \in DOMAIN map \cup {name} |-> IF n = name THEN value ELSE map[n]]

Drop(map, name) == [n \in DOMAIN map \ {name} |-> map[n]]

Free == [op |-> "free"]

Idle == lock = Free

LogOf(S) == topic[S.spec.topic].log

\* Dead-letters one delivery too early.
BadExhausted(S, p) ==
  /\ S.spec.dead # NoDeadLetter
  /\ NextAttempt(S, p) >= MaxDeliveryAttempts(S.spec.dead.tries)
  /\ S.spec.dead.topic \in DOMAIN topic

Exhausted(S, p) ==
  /\ S.spec.dead # NoDeadLetter
  /\ NextAttempt(S, p) > MaxDeliveryAttempts(S.spec.dead.tries)
  /\ S.spec.dead.topic \in DOMAIN topic

-----------------------------------------------------------------------------
(* Topics and schemas.                                                     *)

Init ==
  /\ topic = NoEntries /\ sub = NoEntries
  /\ snap = NoEntries /\ schema = NoEntries
  /\ lock = Free
  /\ resets = [s \in Subs |-> 0]
  /\ stale = {}

CreateTopic(t, c) ==
  /\ Idle
  /\ t \notin DOMAIN topic
  /\ topic' = Put(topic, t, [log |-> <<>>, seen |-> {}, schema |-> c])
  /\ UNCHANGED <<sub, snap, schema, lock, resets, stale>>

\* Only the schema binding of a topic matters to other operations.
UpdateTopic(t, c) ==
  /\ Idle
  /\ t \in DOMAIN topic
  /\ topic' = [topic EXCEPT ![t].schema = c]
  /\ UNCHANGED <<sub, snap, schema, lock, resets, stale>>

\* Subscriptions and snapshots of the topic stay, with their cursors.
DeleteTopic(t) ==
  /\ Idle
  /\ t \in DOMAIN topic
  /\ topic' = Drop(topic, t)
  /\ stale' = stale \cup {s \in DOMAIN sub : sub[s].spec.topic = t}
                    \cup {n \in DOMAIN snap : snap[n].topic = t}
  /\ UNCHANGED <<sub, snap, schema, lock, resets>>

CreateSchema(c, accepted) ==
  /\ Idle
  /\ c \notin DOMAIN schema
  /\ schema' = Put(schema, c, accepted)
  /\ UNCHANGED <<topic, sub, snap, lock, resets, stale>>

\* Does not wait for the lock, so it can fall between the validation of a
\* batch and the append of its messages.
BadDeleteSchema(c) ==
  /\ c \in DOMAIN schema
  /\ schema' = Drop(schema, c)
  /\ UNCHANGED <<topic, sub, snap, lock, resets, stale>>

DeleteSchema(c) ==
  /\ Idle
  /\ c \in DOMAIN schema
  /\ schema' = Drop(schema, c)
  /\ UNCHANGED <<topic, sub, snap, lock, resets, stale>>

-----------------------------------------------------------------------------
(* Subscriptions and snapshots.                                            *)

CreateSubscription(s, spec) ==
  /\ Idle
  /\ s \notin DOMAIN sub
  /\ spec.topic \in DOMAIN topic
  /\ resets[s] < MaxResets
  /\ sub' = Put(sub, s, NewSubscription(spec, Len(topic[spec.topic].log)))
  /\ resets' = [resets EXCEPT ![s] = @ + 1]
  /\ stale' = stale \ {s}
  /\ UNCHANGED <<topic, snap, schema, lock>>

MaskFields == {"ordering", "exactlyOnce", "dead", "retry", "deadline"}

\* apply_subscription_mask: topic and filter never change.
Masked(old, spec, mask) ==
  [old EXCEPT
     !.ordering = IF "ordering" \in mask THEN spec.ordering ELSE @,
     !.exactlyOnce = IF "exactlyOnce" \in mask THEN spec.exactlyOnce ELSE @,
     !.dead = IF "dead" \in mask THEN spec.dead ELSE @,
     !.retry = IF "retry" \in mask THEN spec.retry ELSE @,
     !.deadline = NormalizeAckDeadline(
                    IF "deadline" \in mask THEN spec.deadline ELSE @)]

UpdateSubscription(s, spec, mask) ==
  /\ Idle
  /\ s \in DOMAIN sub
  /\ sub' = [sub EXCEPT ![s].spec = Masked(@, spec, mask)]
  /\ UNCHANGED <<topic, snap, schema, lock, resets, stale>>

DeleteSubscription(s) ==
  /\ Idle
  /\ s \in DOMAIN sub
  /\ sub' = Drop(sub, s)
  /\ UNCHANGED <<topic, snap, schema, lock, resets, stale>>

\* A time after the last message is not cut off at the end of the log.
BadSeekToTime(s, cursor) ==
  /\ Idle
  /\ s \in DOMAIN sub
  /\ sub[s].spec.topic \in DOMAIN topic
  /\ cursor \in 0 .. MaxLen
  /\ resets[s] < MaxResets
  /\ sub' = [sub EXCEPT ![s] = Sought(@, cursor)]
  /\ resets' = [resets EXCEPT ![s] = @ + 1]
  /\ stale' = stale \ {s}
  /\ UNCHANGED <<topic, snap, schema, lock>>

\* The position of the first message not older than the requested time.  Any
\* position can be that one: messages of one batch share their timestamp, but
\* the same log also arises from separate publishes.
SeekToTime(s, cursor) ==
  /\ Idle
  /\ s \in DOMAIN sub
  /\ sub[s].spec.topic \in DOMAIN topic
  /\ cursor \in 0 .. Len(LogOf(sub[s]))
  /\ resets[s] < MaxResets
  /\ sub' = [sub EXCEPT ![s] = Sought(@, cursor)]
  /\ resets' = [resets EXCEPT ![s] = @ + 1]
  /\ stale' = stale \ {s}
  /\ UNCHANGED <<topic, snap, schema, lock>>

SeekToSnapshot(s, n) ==
  /\ Idle
  /\ s \in DOMAIN sub
  /\ n \in DOMAIN snap
  /\ sub[s].spec.topic = snap[n].topic
  /\ resets[s] < MaxResets
  /\ sub' = [sub EXCEPT ![s] = Sought(@, snap[n].cursor)]
  /\ resets' = [resets EXCEPT ![s] = @ + 1]
  /\ stale' = IF n \in stale THEN stale \cup {s} ELSE stale \ {s}
  /\ UNCHANGED <<topic, snap, schema, lock>>

CreateSnapshot(n, s) ==
  /\ Idle
  /\ n \notin DOMAIN snap
  /\ s \in DOMAIN sub
  /\ snap' = Put(snap, n, [topic |-> sub[s].spec.topic, cursor |-> sub[s].cursor])
  /\ stale' = IF s \in stale THEN stale \cup {n} ELSE stale \ {n}
  /\ UNCHANGED <<topic, sub, schema, lock, resets>>

DeleteSnapshot(n) ==
  /\ Idle
  /\ n \in DOMAIN snap
  /\ snap' = Drop(snap, n)
  /\ UNCHANGED <<topic, sub, schema, lock, resets, stale>>

-----------------------------------------------------------------------------
(* Publish: every message of the batch is validated before the first one   *)
(* is appended; a client id already seen by the topic is not appended.     *)

Conforms(batch, c) ==
  \/ c = NoSchema
  \/ c \in DOMAIN schema /\ \A i \in DOMAIN batch : batch[i].data \in schema[c]

PublishBegin(t, batch) ==
  /\ Idle
  /\ t \in DOMAIN topic
  /\ Conforms(batch, topic[t].schema)
  /\ Len(topic[t].log) + Len(batch) <= MaxLen
  /\ lock' = [op |-> "publish", topic |-> t, todo |-> batch]
  /\ UNCHANGED <<topic, sub, snap, schema, resets, stale>>

\* Forgets to release the lock at the end of the loop.
BadRest == [lock EXCEPT !.todo = Tail(@)]

\* The loop moves on to the next element, or ends and releases the lock.
Rest == IF Len(lock.todo) = 1 THEN Free ELSE [lock EXCEPT !.todo = Tail(@)]

AsMessage(m, origin) ==
  [id |-> m.id, key |-> m.key, attr |-> m.attr, data |-> m.data, origin |-> origin]

\* Does not remember the id of what it appends.
BadAppended(T, m) == [T EXCEPT !.log = Append(@, AsMessage(m, NoOrigin))]

Appended(T, m) ==
  [T EXCEPT !.log = Append(@, AsMessage(m, NoOrigin)),
            !.seen = @ \cup ({m.id} \ {NoId})]

PublishStep ==
  /\ lock.op = "publish"
  /\ LET m == Head(lock.todo)
     IN  topic' = [topic EXCEPT ![lock.topic] =
                     IF m.id \in @.seen THEN @ ELSE Appended(@, m)]
  /\ lock' = Rest
  /\ UNCHANGED <<sub, snap, schema, resets, stale>>

-----------------------------------------------------------------------------
(* Pull: sweep the expired leases, then hand out messages until the limit  *)
(* is reached or nothing is ready.                                         *)

PullBegin(s, n) ==
  /\ Idle
  /\ s \in DOMAIN sub
  /\ sub[s].spec.topic \in DOMAIN topic
  /\ lock' = [op |-> "sweep", sub |-> s, room |-> PullLimit(n)]
  /\ UNCHANGED <<topic, sub, snap, schema, resets, stale>>

\* The code visits the expired leases in the order of a HashMap: any order.
SweepExpired ==
  /\ lock.op = "sweep"
  /\ \E l \in sub[lock.sub].leases :
       /\ l.left <= 0
       /\ sub' = [sub EXCEPT ![lock.sub] = Expire(@, l)]
  /\ UNCHANGED <<topic, snap, schema, lock, resets, stale>>

SweepEnd ==
  /\ lock.op = "sweep"
  /\ \A l \in sub[lock.sub].leases : l.left > 0
  /\ lock' = [op |-> "pull", sub |-> lock.sub, room |-> lock.room,
              len |-> Len(LogOf(sub[lock.sub])), skipped |-> {}]
  /\ UNCHANGED <<topic, sub, snap, schema, resets, stale>>

\* The first entry of the retry queue that is due and was not yet skipped.
IsFirstReady(q, i, skipped) ==
  LET Ready(j) == q[j].wait = 0 /\ q[j].pos \notin skipped
  IN  Ready(i) /\ \A j \in 1 .. i - 1 : ~Ready(j)

SomeReady(S, skipped) ==
  \E i \in DOMAIN S.retry : S.retry[i].wait = 0 /\ S.retry[i].pos \notin skipped

\* The head of the loop: position p is taken off the retry queue or, if no
\* entry is ready, off the unread part of the log; R is what remains.
Take(S, skipped, len) ==
  IF SomeReady(S, skipped)
  THEN LET i == CHOOSE i \in DOMAIN S.retry : IsFirstReady(S.retry, i, skipped)
       IN  [pos |-> S.retry[i].pos, rest |-> [S EXCEPT !.retry = RemoveAt(@, i)]]
  ELSE [pos |-> S.cursor + 1, rest |-> [S EXCEPT !.cursor = @ + 1]]

\* Reads one message past the end of the log.
BadTakeable ==
  /\ lock.op = "pull"
  /\ lock.room > 0
  /\ \/ SomeReady(sub[lock.sub], lock.skipped)
     \/ sub[lock.sub].cursor <= lock.len

Takeable ==
  /\ lock.op = "pull"
  /\ lock.room > 0
  /\ \/ SomeReady(sub[lock.sub], lock.skipped)
     \/ sub[lock.sub].cursor < lock.len

Taken == Take(sub[lock.sub], lock.skipped, lock.len)

Handled(S, p) == p \in S.acked \cup Leased(S)

\* Does not remember which blocked messages this pull has already looked at.
BadPullPass ==
  /\ Takeable
  /\ LET p == Taken.pos
         S == Taken.rest
         handled == Handled(S, p)
     IN  /\ \/ handled
            \/ p <= Len(LogOf(S)) /\ OrderingBlocked(S, LogOf(S), p)
         /\ sub' = [sub EXCEPT ![lock.sub] = IF handled THEN S ELSE Postpone(S, p)]
  /\ UNCHANGED <<topic, snap, schema, lock, resets, stale>>

\* The loop passes over a position that is already acked or leased, and puts
\* one whose ordering key is blocked at the back of the retry queue.
PullPass ==
  /\ Takeable
  /\ LET p == Taken.pos
         S == Taken.rest
         handled == Handled(S, p)
     IN  /\ \/ handled
            \/ p <= Len(LogOf(S)) /\ OrderingBlocked(S, LogOf(S), p)
         /\ sub' = [sub EXCEPT ![lock.sub] = IF handled THEN S ELSE Postpone(S, p)]
         /\ lock' = [lock EXCEPT !.skipped = IF handled THEN @ ELSE @ \cup {p}]
  /\ UNCHANGED <<topic, snap, schema, resets, stale>>

\* A position the loop goes on with: outstanding, in the log, not blocked.
Deliverable(S, p) ==
  /\ ~Handled(S, p)
  /\ p <= Len(LogOf(S))
  /\ ~OrderingBlocked(S, LogOf(S), p)

\* MaxLen bounds the dead-letter topic as well.
PullDeadLetter ==
  /\ Takeable
  /\ LET p == Taken.pos
         S == Taken.rest
         copy == AsMessage([LogOf(S)[p] EXCEPT !.id = NoId],
                           [sub |-> lock.sub, pos |-> p, life |-> resets[lock.sub]])
     IN  /\ Deliverable(S, p)
         /\ Exhausted(S, p)
         /\ Len(topic[S.spec.dead.topic].log) < MaxLen
         /\ topic' = [topic EXCEPT ![S.spec.dead.topic].log = Append(@, copy)]
         /\ sub' = [sub EXCEPT ![lock.sub] = Settle(S, p)]
  /\ UNCHANGED <<snap, schema, lock, resets, stale>>

PullFilterOut ==
  /\ Takeable
  /\ LET p == Taken.pos
         S == Taken.rest
     IN  /\ Deliverable(S, p)
         /\ ~Exhausted(S, p)
         /\ LogOf(S)[p].attr \notin S.spec.filter
         /\ sub' = [sub EXCEPT ![lock.sub] = Settle(S, p)]
  /\ UNCHANGED <<topic, snap, schema, lock, resets, stale>>

PullDeliver ==
  /\ Takeable
  /\ LET p == Taken.pos
         S == Taken.rest
     IN  /\ Deliverable(S, p)
         /\ ~Exhausted(S, p)
         /\ LogOf(S)[p].attr \in S.spec.filter
         /\ sub' = [sub EXCEPT ![lock.sub] = Deliver(S, p)]
  /\ lock' = [lock EXCEPT !.room = @ - 1]
  /\ UNCHANGED <<topic, snap, schema, resets, stale>>

\* messages[index] beyond the log panics; the subscription is out of the map
\* at that time and is never put back.  Unwinding releases the lock.
PullPanic ==
  /\ Takeable
  /\ ~Handled(Taken.rest, Taken.pos)
  /\ Taken.pos > Len(LogOf(Taken.rest))
  /\ sub' = Drop(sub, lock.sub)
  /\ lock' = Free
  /\ UNCHANGED <<topic, snap, schema, resets, stale>>

PullEnd ==
  /\ lock.op = "pull"
  /\ ~Takeable
  /\ lock' = Free
  /\ UNCHANGED <<topic, sub, snap, schema, resets, stale>>

-----------------------------------------------------------------------------
(* Acknowledge and modify_ack_deadline.                                    *)

AckBegin(s, ids) ==
  /\ Idle
  /\ s \in DOMAIN sub
  /\ lock' = [op |-> "ack", sub |-> s, todo |-> ids]
  /\ UNCHANGED <<topic, sub, snap, schema, resets, stale>>

Named(S, id) == {l \in S.leases : AckId(l) = id}

Late(S, l) == S.spec.exactlyOnce /\ l.left < 0

AckStep ==
  /\ lock.op = "ack"
  /\ LET S == sub[lock.sub]
         named == Named(S, Head(lock.todo))
     IN  \/ /\ named = {}
            /\ lock' = Rest
            /\ UNCHANGED sub
         \/ \E l \in named :
              /\ ~Late(S, l)
              /\ lock' = Rest
              /\ sub' = [sub EXCEPT ![lock.sub] = Ack(@, l)]
  /\ UNCHANGED <<topic, snap, schema, resets, stale>>

\* The request fails here: ids before this one stay acked, later ones are not
\* looked at, and the state is not saved.
AckExpired ==
  /\ lock.op = "ack"
  /\ \E l \in Named(sub[lock.sub], Head(lock.todo)) :
       /\ Late(sub[lock.sub], l)
       /\ sub' = [sub EXCEPT ![lock.sub] = Forget(@, l)]
  /\ lock' = Free
  /\ UNCHANGED <<topic, snap, schema, resets, stale>>

ExtendDeadline(s, ids, seconds) ==
  /\ Idle
  /\ s \in DOMAIN sub
  /\ sub' = [sub EXCEPT ![s] = Extend(@, ids, seconds)]
  /\ UNCHANGED <<topic, snap, schema, lock, resets, stale>>

NackBegin(s, ids) ==
  /\ Idle
  /\ s \in DOMAIN sub
  /\ lock' = [op |-> "nack", sub |-> s, todo |-> ids]
  /\ UNCHANGED <<topic, sub, snap, schema, resets, stale>>

NackStep ==
  /\ lock.op = "nack"
  /\ LET named == Named(sub[lock.sub], Head(lock.todo))
     IN  \/ named = {} /\ UNCHANGED sub
         \/ \E l \in named : sub' = [sub EXCEPT ![lock.sub] = Nack(@, l)]
  /\ lock' = Rest
  /\ UNCHANGED <<topic, snap, schema, resets, stale>>

-----------------------------------------------------------------------------
(* No operation reads the clock twice, so time passes between operations.  *)
Tick ==
  /\ Idle
  /\ sub' = [s \in DOMAIN sub |-> Aged(sub[s])]
  /\ UNCHANGED <<topic, snap, schema, lock, resets, stale>>

\* The ack ids of a request: issued ones, and one that names no lease.
IdBatches(s) ==
  LET ids == {AckId(l) : l \in sub[s].leases} \cup {UnknownId}
  IN  UNION {[1 .. n -> ids] : n \in 1 .. MaxIds}

TopicAdmin ==
  \/ \E t \in Topics, c \in Schemas \cup {NoSchema} :
       CreateTopic(t, c) \/ UpdateTopic(t, c)
  \/ \E t \in Topics : DeleteTopic(t)
  \/ \E c \in Schemas, accepted \in SUBSET Data : CreateSchema(c, accepted)
  \/ \E c \in Schemas : DeleteSchema(c)

SubscriptionAdmin ==
  \/ \E s \in Subs, spec \in Specs : CreateSubscription(s, spec)
  \/ \E s \in Subs, spec \in Specs, mask \in SUBSET MaskFields :
       UpdateSubscription(s, spec, mask)
  \/ \E s \in Subs : DeleteSubscription(s)
  \/ \E n \in Snaps, s \in Subs : CreateSnapshot(n, s)
  \/ \E n \in Snaps : DeleteSnapshot(n)

Seek ==
  \/ \E s \in Subs, cursor \in 0 .. MaxLen : SeekToTime(s, cursor)
  \/ \E s \in Subs, n \in Snaps : SeekToSnapshot(s, n)

PullStep == \/ SweepExpired \/ SweepEnd \/ PullPass \/ PullDeadLetter
            \/ PullFilterOut \/ PullDeliver \/ PullPanic \/ PullEnd

\* The steps of an operation that holds the lock.
LockedStep == PullStep \/ PublishStep \/ AckStep \/ AckExpired \/ NackStep

Publish == \E t \in Topics, batch \in Batches : PublishBegin(t, batch)

Consume ==
  \/ \E s \in Subs, n \in PullSizes : PullBegin(s, n)
  \/ \E s \in DOMAIN sub : \E ids \in IdBatches(s) :
       \/ AckBegin(s, ids)
       \/ NackBegin(s, ids)
       \/ \E seconds \in Extensions : ExtendDeadline(s, ids, seconds)

DataPlane == Publish \/ Consume \/ LockedStep \/ Tick

Next == DataPlane \/ Seek \/ SubscriptionAdmin \/ TopicAdmin

Spec == Init /\ [][Next]_vars
=============================================================================

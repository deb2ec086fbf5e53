------------------------- MODULE BackendProperties -------------------------
(***************************************************************************)
(* What MemoryBackend must guarantee: its type invariant, its safety and   *)
(* liveness properties, and the fairness liveness rests on.                *)
(***************************************************************************)
EXTENDS MemoryBackend

Operations ==
  {Free}
  \cup [op : {"publish"}, topic : Topics, todo : Seq(NewMessage) \ {<<>>}]
  \cup [op : {"sweep"}, sub : Subs, room : Nat]
  \cup [op : {"pull"}, sub : Subs, room : Nat, len : 0 .. MaxLen,
        skipped : SUBSET Position]
  \cup [op : {"ack", "nack"}, sub : Subs, todo : Seq(Nat \X Nat) \ {<<>>}]

\* The type invariant.  The operation holding the lock works on a topic or
\* subscription that is there.
TypeOK ==
  /\ DOMAIN topic \subseteq Topics /\ topic \in [DOMAIN topic -> TopicState]
  /\ \A t \in DOMAIN topic : Len(topic[t].log) <= MaxLen
  /\ DOMAIN sub \subseteq Subs /\ sub \in [DOMAIN sub -> SubscriptionState]
  /\ DOMAIN snap \subseteq Snaps /\ snap \in [DOMAIN snap -> SnapshotSpec]
  /\ DOMAIN schema \subseteq Schemas /\ schema \in [DOMAIN schema -> SUBSET Data]
  /\ lock \in Operations
  /\ resets \in [Subs -> 0 .. MaxResets]
  /\ stale \subseteq Subs \cup Snaps
  /\ lock.op = "publish" =>
       lock.topic \in DOMAIN topic
       /\ Len(topic[lock.topic].log) + Len(lock.todo) <= MaxLen
  /\ lock.op \in {"sweep", "pull", "ack", "nack"} => lock.sub \in DOMAIN sub
  /\ lock.op \in {"sweep", "pull"} => sub[lock.sub].spec.topic \in DOMAIN topic
  /\ lock.op = "pull" => lock.len <= Len(LogOf(sub[lock.sub]))

-----------------------------------------------------------------------------
(* Every message is somewhere, and in one place only.                      *)

Passed(S) == S.start + 1 .. S.cursor

Accounted(S) == S.acked \cup Leased(S) \cup Waiting(S) \cup S.lost = Passed(S)

\* Whatever the cursor passed since the subscription was created or last
\* sought is acked, leased, in the retry queue, or was dropped by a rejected
\* exactly-once ack: pull, ack, nack, sweep, dead-lettering and filtering,
\* in any order, lose nothing else and track nothing they never passed.
MessagesAccounted == \A s \in DOMAIN sub : Accounted(sub[s])

InOnePlace(S) ==
  /\ \A l, m \in S.leases : l.pos = m.pos => l = m
  /\ \A i, j \in DOMAIN S.retry : S.retry[i].pos = S.retry[j].pos => i = j
  /\ Leased(S) \cap Waiting(S) = {}
  /\ (Leased(S) \cup Waiting(S)) \cap (S.acked \cup S.lost) = {}
  /\ S.acked \cap S.lost = {}

\* A message is never leased twice at a time, queued twice, queued while it
\* is leased, or redelivered once acked.  (memory.rs re-checks the first and
\* the last at the head of the pull loop; see OutstandingTaken.)
MessagesInOnePlace == \A s \in DOMAIN sub : InOnePlace(sub[s])

\* What pull takes off the retry queue or the log is never already acked or
\* leased: the re-check at the head of its loop skips nothing.
OutstandingTaken == Takeable => ~Handled(Taken.rest, Taken.pos)

\* Within one life of a subscription the numbers of a message's deliveries, with
\* exactly-once delivery the last part of its ack ids
\* ("{subscription}:{index}:{attempt}"), only grow: what is leased anew has a
\* number no delivery had, so an ack held back cannot hit a later lease.
\* A seek or a new creation ends the life and clears the attempts: from then on
\* ids are issued again, and an ack of before it does settle the new lease.
\* (Numbers at AttemptCap stand for all from there on.)
AckIdsNotReused ==
  [][\A s \in DOMAIN sub \cap DOMAIN sub' : resets'[s] = resets[s] =>
       /\ \A p \in Position : sub'[s].attempts[p] >= sub[s].attempts[p]
       /\ \A l \in sub'[s].leases :
            /\ l.attempt <= sub'[s].attempts[l.pos]
            /\ \/ \E m \in sub[s].leases : AckId(m) = AckId(l)
               \/ l.attempt > sub[s].attempts[l.pos]
               \/ sub[s].attempts[l.pos] = AttemptCap]_vars

-----------------------------------------------------------------------------
(* Each subscription implements AtLeastOnce.  One whose topic was deleted  *)
(* reads nothing: until it is sought or created again it counts as closed. *)

Live(s) == s \in DOMAIN sub \ stale

Unread(S) == S.cursor + 1 .. Len(LogOf(S))

Promise(s) == INSTANCE AtLeastOnce WITH
  open <- Live(s),
  size <- IF Live(s) THEN Len(LogOf(sub[s])) ELSE 0,
  ready <- IF Live(s) THEN Waiting(sub[s]) \cup Unread(sub[s]) ELSE {},
  held <- IF Live(s) THEN Leased(sub[s]) ELSE {},
  done <- IF Live(s) THEN sub[s].acked ELSE {},
  dropped <- IF Live(s) THEN sub[s].lost ELSE {}

\* Whatever pull, its sweep, ack, nack, modify_ack_deadline, publish and seek
\* do to a subscription and in whatever order: a message is handed to one
\* consumer at a time, comes back when it is nacked or its lease ends, and
\* once acked, dead-lettered or filtered out stays so until a seek.
\* (TLC takes no quantifier over Promise(s)!Spec; this is the same formula.)
ImplementsAtLeastOnce ==
  /\ \A s \in Subs : Promise(s)!Init
  /\ [][\A s \in Subs : Promise(s)!Next \/ UNCHANGED Promise(s)!vars]_vars

-----------------------------------------------------------------------------
(* Positions stay inside the log they point into.                          *)

\* Unless its topic was deleted meanwhile, a subscription's cursor and a
\* snapshot's are within the topic's log, so that messages[index] in pull
\* (after the subscription was taken out of the map) cannot panic.
CursorInRange ==
  /\ \A s \in DOMAIN sub \ stale :
       sub[s].spec.topic \in DOMAIN topic /\ sub[s].cursor <= Len(LogOf(sub[s]))
  /\ \A n \in DOMAIN snap \ stale :
       snap[n].topic \in DOMAIN topic
       /\ snap[n].cursor <= Len(topic[snap[n].topic].log)

\* A subscription disappears only through delete_subscription, or through
\* the panic of a pull on a topic that was deleted and created again.
SubscriptionKept ==
  [][\A s \in DOMAIN sub \ DOMAIN sub' :
       DeleteSubscription(s) \/ s \in stale]_vars

-----------------------------------------------------------------------------
(* Ordering, dead letters, deduplication.                                  *)

SameKey(log, p, q) == log[p].key = log[q].key /\ log[p].key # NoKey

\* With ordering on, a message is leased or acked only when every earlier
\* message of its key is acked: at most one message of a key is out at any
\* time, whatever expires, is nacked, filtered or dead-lettered in between.
KeyOrder ==
  \A s \in DOMAIN sub \ stale :
    sub[s].spec.ordering =>
      \A p \in Leased(sub[s]) \cup sub[s].acked : \A q \in 1 .. p - 1 :
        SameKey(LogOf(sub[s]), p, q) => q \in sub[s].acked

Copies == UNION {{<<t, i>> : i \in DOMAIN topic[t].log} : t \in DOMAIN topic}

OriginAt(c) == topic[c[1]].log[c[2]].origin

\* One subscription dead-letters a message at most once between two seeks.
DeadLetteredOnce ==
  \A c, d \in Copies :
    OriginAt(c) # NoOrigin /\ OriginAt(c) = OriginAt(d) => c = d

\* A dead-lettered message is settled for its subscription: never leased or
\* queued again.
DeadLetteredSettled ==
  \A c \in Copies :
    LET o == OriginAt(c)
    IN  o # NoOrigin /\ o.sub \in DOMAIN sub /\ o.life = resets[o.sub] =>
          o.pos \in sub[o.sub].acked

\* With a dead-letter policy in force, a message is delivered as often as the
\* policy says before it is dead-lettered, and no more often.  (For
\* subscriptions whose policy is not changed and whose dead topic is there.)
DeadLetterBudget ==
  \A s \in DOMAIN sub :
    sub[s].spec.dead # NoDeadLetter =>
      LET budget == MaxDeliveryAttempts(sub[s].spec.dead.tries)
      IN  /\ \A l \in sub[s].leases : l.attempt <= budget
          /\ \A c \in Copies :
               LET o == OriginAt(c)
               IN  o # NoOrigin /\ o.sub = s /\ o.life = resets[s] =>
                     sub[s].attempts[o.pos] = budget + 1

\* A topic holds at most one message per client-given id, across batches and
\* within one, and remembers exactly the ids it holds.
PublishedOnce ==
  \A t \in DOMAIN topic :
    LET log == topic[t].log
    IN  /\ \A i, j \in DOMAIN log : log[i].id = log[j].id /\ log[i].id # NoId => i = j
        /\ topic[t].seen = {log[i].id : i \in DOMAIN log} \ {NoId}

\* The messages a publish still has to append conform to the schema bound to
\* the topic, as they did when the whole batch was validated before the first
\* of them was appended.
PublishValidated ==
  lock.op = "publish" => Conforms(lock.todo, topic[lock.topic].schema)

-----------------------------------------------------------------------------
(* Liveness.                                                               *)

\* Time passes however busy the broker is (Tick is enabled whenever the lock is
\* free, again and again), and whoever holds the lock goes on: the loops of the
\* code await nothing.
Progress == SF_vars(Tick) /\ WF_vars(LockedStep)

\* A consumer that keeps pulling gets the lock: tokio's RwLock is fair.
KeepsPulling == \A s \in Subs : SF_vars(\E n \in PullSizes : PullBegin(s, n))

\* A consumer that acks a message whenever it keeps being delivered to it.
AckDelivered(s, p) ==
  /\ s \in DOMAIN sub
  /\ \E l \in sub[s].leases : l.pos = p /\ AckBegin(s, <<AckId(l)>>)

\* No operation keeps the lock: above all, the loop of pull ends although it
\* puts blocked messages back into the queue it reads from.
LockReleased == []<>Idle

\* A message that nobody ever acks does not circulate for ever: it ends up
\* acked, by a consumer or by being dead-lettered.
Settled ==
  \A s \in Subs, p \in Position :
    s \in DOMAIN sub /\ p \in 1 .. Len(LogOf(sub[s])) ~> p \in sub[s].acked

-----------------------------------------------------------------------------
(* What the repository says of the program, and the code does not keep.    *)

\* Explicit ACK: a message leaves a subscription by being acked.
NothingDropped == \A s \in DOMAIN sub : sub[s].lost = {}

\* A message held back for its ordering key waits for messages that can be
\* acked: leased ones, or ones waiting to be leased.
BlockedByOutstanding ==
  \A s \in DOMAIN sub \ stale :
    LET S == sub[s]
    IN  \A p \in Waiting(S) : OrderingBlocked(S, LogOf(S), p) =>
          \E q \in Leased(S) \cup Waiting(S) : q < p /\ SameKey(LogOf(S), p, q)

\* inventory: what the console shows as a subscription's backlog.
Backlog(S) ==
  LET len == Len(LogOf(S))
      behind == {p \in 1 .. S.cursor : p <= len /\ p \notin S.acked}
  IN  Cardinality(behind) + (IF len > S.cursor THEN len - S.cursor ELSE 0)
        + Len(S.retry)

\* A subscription with nothing unacked and nothing left to pull has no backlog.
DrainedHasNoBacklog ==
  \A s \in DOMAIN sub \ stale :
    LET S == sub[s]
    IN  Leased(S) \cup Waiting(S) = {} /\ S.cursor = Len(LogOf(S))
          => Backlog(S) = 0
=============================================================================

# relay-pubsub in TLA+

A formal model of relay-pubsub, a gateway that speaks the Google Pub/Sub API and
keeps topics, subscriptions and their delivery state in a memory backend
(`src/memory.rs`), in front of Zyvor Relay. The modules model the program's own
logic; TLC checks them on small instances; TLAPS proves the most important
properties for every value of the constants.

File names below are relative to the repository's Rust root (`src/src/`).

## 1. The system

| Component | State it keeps | Operations | What makes it correct |
|---|---|---|---|
| Delivery engine (`memory.rs` 542-838) | per subscription: spec, cursor, acked set, leases, retry queue, attempts | pull, acknowledge, modify_ack_deadline, seek to time or snapshot | a message is in one place, none is lost, key order, dead-letter budget, no loop that never ends, everything is settled in the end |
| Topics and publish (`memory.rs` 248-340, 464-540) | log, seen ids, bound schema | create, update, delete, publish | one message per client id, nothing the schema rejects |
| Administration (`memory.rs` 342-462, 840-1039) | subscriptions, snapshots, schemas, IAM map | CRUD, update masks | cursors stay inside the log they point into |
| Policy arithmetic (`memory.rs` 101-133, 581, 621) | none | clamps, exponential backoff on u32 | exact, monotone, never outside the policy |
| Persistence (`memory.rs` 76-117) | `state.json` | save after each mutation, load at start | a restart finds what was acknowledged to clients |
| Inventory and reads (`memory.rs` 1041-1121, `model.rs` 183-205) | none | backlog figures, listing, pagination | figures agree with the delivery state |
| Relay events backend (`relay_events_backend.rs`) | an inner memory backend | publish forwards message by message to `POST /v1/events`; the rest delegates | a retried batch is accepted once |
| Action gateway (`action_gateway.rs`) | results by idempotency key | `POST /v1/actions` | one command per key |
| Push dispatcher (`push.rs`) | none between ticks | every tick: list, pull 20, POST one by one, ack the accepted | a failing endpoint does not stop the others, a rejected message comes again |
| gRPC service (`grpc.rs`) | one task per StreamingPull with a channel of 32 | unary handlers, the stream loop | every delivery is in somebody's hands, a disconnect leaves leases to expire and ends the task |
| REST gateway and console (`rest.rs`) | none | translation of requests | a request means the same through either door, what is read can be written back |
| Log buffer (`log_buffer.rs`, `Console.tsx`) | ring of entries with ids; the page's cursor | push, since, recent; poll | a tailer pages forward without passing over what the ring still holds |
| Filter language (`filter.rs`) | none | parse, match | NOT binds before AND, AND before OR |
| Schema validation, CloudEvents | none | pure functions | |
| Authentication (`auth.rs`) | JWKS cache | static token, JWT, project check | replaced keys stop counting |
| HTTP, gRPC Relay backends (`http_backend.rs`, `grpc_backend.rs`) | none | proxies | |

**How they interact.** gRPC handlers, REST handlers, StreamingPull tasks, the push
dispatcher and the action gateway all call one shared `RelayBackend`. The
memory backend serialises them with one `RwLock`: every mutating operation holds
the write guard from its first read to its save and awaits nothing in between.
So operations are atomic towards each other; what interleaves is the *order* of
operations of many clients, the passing of time between them (leases expire,
backoffs end), and, inside an operation, the iterations of its loop.

**What is hard.** Orders of pull, ack, nack, expiry and seek that nobody wrote
a test for; ack requests that fail half way; the retry queue a pull reads and
appends to; ordering keys that block on earlier messages; dead-lettering as one
of several steps; topics recreated under live cursors; a state that is saved on
some paths and not on others; backoff arithmetic at its limits; tasks that await
the broker, an endpoint or a full channel while leases run and clients come and
go; two doors that translate the same request separately. `PROJECT.json`
lists each hazard at its line with the properties that would catch it.

## 2. The modules

| Module | Models |
|---|---|
| `DeliveryPolicy` | clamps and backoff (`memory.rs` 101-133, 581, 621), literal bounds as constants |
| `Subscription` | the state of one subscription and what each operation does to it, as operators from a state to a state |
| `MemoryBackend` | the broker: topics, subscriptions, snapshots, schemas, the write lock; one action per operation or loop iteration |
| `BackendProperties` | type invariant, safety, action and liveness properties, fairness |
| `DurableBackend` | the broker with `state.json`: saves, saves that fail, changes that are not saved, crash and reload (`memory.rs` 76-117 and the end of every operation) |
| `RelayEvents` | the Relay events backend: its publish, step by step for several callers, over a durable broker that serves the rest, and the Relay it posts to (`relay_events_backend.rs`) |
| `ActionGateway` | `POST /v1/actions` as one of those callers, its map of results, the mutex it holds across the publish (`action_gateway.rs`) |
| `AtLeastOnce` | the abstract specification of a subscription: messages arrive, are ready, held, done; `BackendProperties` instantiates it once per subscription (`Promise`) |
| `GatewayCalls` | how a task of the gateway calls the broker: it awaits the lock, then the operation, then goes on with the answer |
| `PushDispatcher` | the push dispatcher as such a task (`push.rs`) |
| `StreamingPull` | the task behind a StreamingPull, its channel, and its client (`grpc.rs` 755-857) |
| `ApiValues`, `GrpcService`, `RestGateway` | what a client can ask for, and the call each door makes of it (`grpc.rs`, `rest.rs`) |
| `FrontDoors` | both doors over one broker with every administrative operation (`memory.rs` 248-462, 840-1039, `schema_validate.rs`) |
| `Filter` | the parser and evaluator of filters over tokens (`filter.rs`), and what a filter means |
| `LogBuffer` | the log ring, its endpoint, and the page that tails it |
| `Listing` | paging through a list that changes (`model.rs` 183-205, the list operations) |
| `Redelivery` | the deliveries of one message and the delay before each (`memory.rs` 119-133, 616-618) |
| `Authentication` | the bearer check and the JWKS cache under concurrent requests (`auth.rs`) |
| `MCBackend`, `MCDurable`, `MCIngress`, `MCEgress`, `MCGateway` | instances for TLC |
| `SubscriptionProofs`, `BackendProofs`, `RefinementProofs`, `DeliveryProofs`, `DurableProofs`, `RelayProofs`, `EgressProofs`, `GatewayProofs` | theorems and their lemmas |

`Subscription` extends `DeliveryPolicy`, and each of `MemoryBackend`,
`DurableBackend`, `RelayEvents` and `ActionGateway` extends the one before it: a
larger system takes the actions of the smaller one and says what they do to the
state it adds. The proof modules follow the same chain. `GatewayCalls` extends
`BackendProperties` the same way; `PushDispatcher` and `StreamingPull` extend it, and
`MCEgress` takes both. `FrontDoors`, `Filter`, `LogBuffer`, `Listing`,
`Authentication` and `Redelivery` share no state: `MCGateway` runs them side by side.

### State

| Model | Code |
|---|---|
| `topic[t].log`, `.seen`, `.schema` | `TopicState.messages`, `.seen_ids` (its values always equal its keys), `spec.schema_name` |
| `sub[s].cursor` | `next_index`; a model position `p` is the code's index `p - 1`, so cursor `n` has passed `1 .. n` |
| `sub[s].acked`, `.leases`, `.retry`, `.attempts` | `acked`, `inflight`, `retry_queue`, `attempts` |
| a lease `[pos, attempt, left]` | an `Inflight` entry; `pos` and `attempt` make its ack id; `left` is its deadline as ticks from now, -1 for any time past |
| a retry entry `[pos, wait]` | `available_at` as ticks from now, 0 for due |
| `snap`, `schema` | `snapshots` (topic and index), `schemas` (as the payloads each accepts) |
| `lock` | the write guard with the local variables of the operation that holds it |
| `call[p]` | the publish of one caller: a future, its position in the code (`stage`) and its local variables (topic, batch, the schema name it has read, the messages sent) |
| `events`, `late` | Relay (external): the events it has taken, the requests under way that nobody waits for |
| `byKey` | `by_key`; the keys alone, as a result is remembered for a command that was queued and for nothing else |
| the mutex on `by_key` | held while the caller `Gateway` is in a publish: a handler holds it from its look-up to its answer |
| `owner`, `call[w]` (`GatewayCalls`) | which task's call holds the lock, and what each task's `await` has returned so far |
| `push` | the locals of `tick`: the subscriptions still to visit with the endpoint read at the round's start, the deliveries still to POST |
| `stream`, `frames`, `client` | the stream task's locals and its `mpsc` channel; the requests on their way to it; which halves of the connection the client holds open, and the ack ids it has |
| `broker` | one resource of each kind: the topic's, subscription's, snapshot's and schema's spec, the IAM policy |
| `sentence` | a filter, as tokens; a comparison is one token |
| `entries`, `next_id`, `after` | the ring, and `logsAfterRef` of the page; a page of entries is the set of their positions in the ring |
| `listing`, `received` | a client between two pages: size, token, what it has received; a name's index in a sorted list is the number of names before it (`IndexOf`) |
| `policy`, `attempt` | a subscription's retry policy, and `sub.attempts[index]` of one message |
| `cache`, `calls` (`Authentication`) | `jwks_cache` as key set and age, and the requests under way; a key set is its number in the provider's history |
| `start`, `lost`, `resets`, `stale`, `acknowledged`, `stored`, `accepted`, `deleted`, `seen`, `blind`, `repeats`, `created`, `steady` | history variables, read by properties and bounds only |

`ordering_acked` is written by `acknowledge` and both seeks and read nowhere, so
it has no counterpart. For the delivery modules labels, KMS keys, the IAM map,
message bodies beyond "conforms to schema", and attributes beyond "accepted by
filter" are data that no operation reads; `FrontDoors` and `Filter` have what
clients see of them.

### Actions

An operation without a loop is one action guarded by `Idle` (the lock is free)
and by its early returns; an operation that returns an error before it changes
anything is simply not enabled. The loops of publish, pull, acknowledge and
nack take the lock (`PublishBegin`, `PullBegin`, `AckBegin`, `NackBegin`), do one
iteration per step, and free it. A pull goes through `SweepExpired` (any order:
the code walks a `HashMap`), `SweepEnd`, then one of `PullPass` (already handled,
or blocked by its key and put back), `PullDeadLetter`, `PullFilterOut`,
`PullDeliver` or `PullPanic` per iteration, and `PullEnd`.

`PullPanic` is the one crash the model has: `messages[index]` beyond the log
panics while the subscription is out of the map, the guard is dropped by
unwinding (a tokio lock is not poisoned), and the subscription is gone.

`AckExpired` is the error return in the middle of `acknowledge`: the lease is
already removed, earlier ids stay acked, later ones are not looked at.

`DurableBackend` composes with `MemoryBackend` rather than repeating it: its `DNext`
takes the broker's own actions and says what each does to `disk`. `Working` is a
step inside an operation. `Saved` ends an operation that succeeds, with the file
written before the answer; `SaveFails` ends it with an error although memory has
changed (`persist_locked` fails after the mutation). `Unsaved` is the two ends
that do not reach the save: the late exactly-once ack and the panicking pull.
`Crash` throws memory and the running operation away and loads the file. The
file is written to `state.json.tmp` and renamed, so it holds all of one state or
all of another. It holds deadlines as points in time, so `DTick` ages it too.
`acknowledged` and `stored` are history: what clients were told.

`RelayEvents` replaces `publish`. `prepare_publish` reads the topic's schema name
(`ReadTopic`) and the schema (`ReadSchema`) in two awaits, between which either may
change. A publish to the actions topic goes on to the inner broker's own
`PublishBegin` (`Enqueue`); to any other topic it is one POST per message
(`Post`, `Accepted`, `Answered`), and an error or the timeout of the HTTP client
ends the batch where it is (`Rejected`, `TimedOut`). `Abandon` is a handler
dropped at one of its awaits because its client has gone. A request that was sent
before the timeout, the hang-up or the restart may still arrive (`LateArrives`).
That Relay deduplicates by key is external; it is what the code's own test relies
on ("Relay owns dedupe"). A key without an id is a hash of topic, source,
severity and data: the model's attribute stands for source and severity. One
project is modelled, so the short topic name is the name. All other operations
are `Delegated`; `main` creates the catalog and the actions topic at every start, which
the model has as creations that may come at any time.

`ActionGateway` adds the handler: `Replay` answers a remembered key, `Receive`
starts a publish with the mutex held, `CommandQueued` and `CommandFailed` are the
two ends, `HangUp` is a handler dropped in between. `Reboot` forgets the map.

`GatewayCalls` puts an `await` between a task and the broker. `CallPull` and its like
take the operation's first step in the task's name, `Serve` is every later step
under the lock (the ack ids a pull leases are collected as it goes), and `Return`
is the task going on with the answer, with other tasks' steps in between. An
operation that fails at once answers an error.

`PushDispatcher` is one program counter over `tick`: `WakeUp` reads the list of push
subscriptions *with their endpoints*, `Visit` pulls from one of them (in any order:
the code walks a `HashMap`), `Pulled` takes the batch or skips a subscription whose
pull failed, `PostAccepted` and `PostFailed` are the two outcomes of a POST, `Acked`
goes on whatever the acknowledge answered.

`StreamingPull` is one program counter over the `select!` loop. `ReceiveFrame`
takes a frame, `AcksOfFrame` and `ModsOfFrame` carry it out with the two early ends
of the code, `IntervalTick` pulls, `Send` waits for room in the channel, `SendFails`
finds the client gone. The client reads, acks what it holds, changes deadlines,
closes its sending half, cancels, and connects again. `select!` chooses at random,
so both branches are possible whenever both are ready.

`GrpcService` and `RestGateway` translate: a request is what a client means, a
record whose fields are each absent or have a value (JSON also null). Each door
returns the call of the backend it makes, or `Refused`. `FrontDoors` carries the
administrative calls out and only passes on those of the data plane. A step picks
any request and any door, the console for the calls it has, and gRPC where the
request fits protobuf, whose numbers are 32 bits wide (`InProtobuf`). `Expressible`
says what a request can be: any number, any of `Texts`, absent or null.

**Time** is relative. The code reads the clock once per operation, so `Tick`,
which counts every lease and every waiting entry down by one, needs the lock
free. `left <= 0` is the sweep's `deadline <= now` and `left < 0` the exactly-once
check's `deadline < now`. `SeekToTime` may choose any position of the log:
messages of one batch share a timestamp, but the same log also arises from
separate publishes, so each position is the first at or after some time.

## 3. Runs

Numeric bounds of the code (10..600 s deadlines, 5..100 attempts, 10..600 s
default backoff, pull sizes up to 1000) are constants of `DeliveryPolicy`. The
broker instances scale them to 1..2 with the same order relations between them,
which keeps both ends of each clamp reachable; `Gateway.cfg` uses the literal
values.

| Run | Question | Instance |
|---|---|---|
| `Ordering` | safety of delivery: `TypeOK`, `KeyOrder`, `MessagesAccounted`, `MessagesInOnePlace`, `OutstandingTaken`, `AckIdsNotReused` (between two seeks no delivery gets an ack id an earlier one had); and `ImplementsAtLeastOnce`, that every step is a step of the abstract subscription or none | one subscription, ordered and filtered, or ordered and exactly-once; one key; three messages, one of which may be filtered out; batches of up to two; pulls and requests of up to two; one seek (151,690 states) |
| `DeadLetter` | `DeadLetteredOnce`, `DeadLetteredSettled`, `DeadLetterBudget`, and `Settled` and `LockReleased` under fairness | budgets of 1 (clamped up) and 2, ordered and not, with a consumer that owes nothing; and an ordered subscription without a policy whose consumer keeps acking; three messages (65,152 states) |
| `Admin` | `CursorInRange`, `SubscriptionKept` | everything from an empty broker: topic, subscription, snapshot created, deleted and recreated, any update mask, two messages, two creations or seeks (1,676,324 states) |
| `Durable` | `AcknowledgedForGood`, `StoredForGood`, `MessagesAccounted`, `DeadLetteredOnce` across failed saves and crashes | an exactly-once subscription that dead-letters after one delivery; two messages; two creations or seeks; no administration after the start (645,752 states) |
| `Ingress` | `OkMeansAccepted`, `AcceptedOnce`, `PublishedOnce`, `PublishValidated`, `AcceptedIsQueued`, and `PublishAnswered` and `MutexReleased` under fairness: what a publish or a command answers is what Relay or the actions topic has | two ways, chosen at the start. *forward*: two callers, a topic bound to a schema that comes and goes, batches of one and two with a message in common, one caller also queues a command. *actions*: the gateway and one other publisher, which sends the command's id twice, the second time with a body the schema rejects; topic and schema come and go; saves of a publish fail, the process crashes (182,877 states) |
| `Egress` | `PushedOnce`, `AckedWasAccepted`, `LeaseReachable`, and `OthersNotStarved`, `StreamDelivers`, `StreamEnds` under fairness | the dispatcher with a good subscription (ordered or exactly-once) beside one whose topic is gone, endpoints that accept or fail and a push configuration that changes; or one stream and its client, plain or exactly-once, with a channel of one and one whim (hang up, stop sending, change a deadline); two messages (63,257 states) |
| `Gateway` | `DoorsAgree`, `WriteBackKept`, `FilterMeans`, `PassedWasReceived`, `MissedPerDeletion`, `RetiredKeysUnused`, `BackoffExact`, `BackoffGrows`, and `ListingEnds` under fairness | each part alone, chosen at the start: sessions of any length of a few hundred requests through any door, in three groups of resources; all filters of six tokens; a ring of three with six entries and one restart; five names, pages of one to three, two changes; two concurrent requests and two rotations of the keys; policies with all pairs of six sample values, fourteen deliveries (269,275 states) |
| `SnapshotAfterMutation` | whether the file follows memory when every save succeeds: it does not, see section 5 | as `Durable` |
| `RestWriteBackKept` | whether a subscription read and written back through REST delivers as before: it does not, see section 5 | as `Gateway` |
| `NothingDropped`, `BlockedByOutstanding`, `DrainedHasNoBacklog` | what the repository says and the code does not keep | see section 5 |

**Why the bounds are enough.** Ordering needs two messages of a key and one that
overtakes; three are one more. Two leases, two queue entries and two ack ids are
where "another one" of each loop is exercised. Deadlines of 1 and 2 ticks tell
expired, expiring now and alive apart, also after an extension. `AttemptCap` = 3
is above every clamped budget, so no policy tells later attempts apart;
`AttemptCap > MaxTries` is an assumption of the module. `MaxLen`
(log length, also of the dead-letter topic), `MaxResets` (creations and seeks
per subscription), `MaxIds` (ack ids per request), `MaxPublished` and
`MaxAttempt` are the other bounds of the broker. A channel of one is full after one
batch, which is when a stream blocks. In `Gateway`, six tokens are the first length
with two binary operators and a `NOT`, or with two operators and no parenthesis to
spare; a ring of three with six entries wraps twice; two changes shift a page by
two; `Travel` (how long an answer of the identity provider is under way) is an
assumption about the network that only the property's bound mentions. `u32` and
`i32` end at 2^20 - 1 and 2^19 - 1 there, because TLC's integers end at 2^31 - 1;
the numbers clients send lie on both sides of both. The parts of `Gateway` stop at
their bounds, so that run does not look for deadlocks; all others do.

**Fairness.** `Progress` is strong fairness of `Tick` (time passes whatever the
broker does; `Tick` is disabled while the lock is held, hence strong) and weak
fairness of `LockedStep` (the loops await nothing). `KeepsPulling` is strong
fairness of `PullBegin`: consumers pull again and again, and tokio's `RwLock` is
fair, so the request gets the lock. `KeepsAckingUnlessDead` is a consumer that acks
a message if it keeps being delivered to it, owed only where no dead-letter policy
ends the redeliveries. The
`Durable` runs assume no fairness: a crash may come at any time and as often as it
likes, and they check safety only.

`IngressFairness` is `RFairness` and a handler that goes on once it has its answer.
`RFairness` is strong fairness of `Preparing` (tokio's lock is fair, so a caller's
turn comes although others take the lock again and again) and weak fairness of the
inner broker's steps and of `Post`, `Answered` or `TimedOut`: the HTTP client has a
timeout, so an answer need not come. Relay owes nothing, and crashes and hang-ups
are never owed.

`EgressFairness`: time passes; whatever holds the lock goes on; each task goes on
whenever it can again and again (the lock is fair, and `select!` polls its branches
in random order, so neither the frames nor the interval can shut the other out); a
POST ends, by the HTTP client's timeout at the latest; the endpoint `good` accepts
now and then, `bad` never; a client reads what is in the channel and connects again
after its stream ended. It owes no ack. `KeepsListing` is a client that asks for the
next page.

Every property of a passing run has a mutant in `PROJECT.json`: a definition of
the model with a plausible mistake (the operators whose name starts with `Bad`,
each placed before its original) under which TLC finds the property violated.

## 4. Proofs

All theorems are proved for every value of the constants that meets
`PolicyAssumption` and `BackendAssumption` (bounds are naturals, clamps are
ordered, specs and batches are typed, reserved names are not names, subscription
and snapshot names differ), which TLC evaluates on every broker instance.

| Module | Theorem | Property |
|---|---|---|
| `SubscriptionProofs` | `BackoffWithinPolicy`, `BackoffMonotone`, `BackoffUnsaturated` | the delay lies in the policy's range, grows with the attempts, and is the plain product cut at the maximum: the saturating multiplication never shows |
| `BackendProofs` | `TypeSafety`, `NothingLost`, `NothingDoubled`, `PullTakesOutstanding` | `TypeOK`, `MessagesAccounted`, `MessagesInOnePlace`, `OutstandingTaken` |
| | `CursorSafety`, `NoneVanishes` | `CursorInRange`, `SubscriptionKept` |
| `RefinementProofs` | `BrokerImplementsAtLeastOnce` | `ImplementsAtLeastOnce` |
| `DeliveryProofs` | `KeysInOrder` | `KeyOrder`, if `NotSwitchedOn` |
| | `AckIdsUniquePerLife` | `AckIdsNotReused` |
| | `OneDeadLetterEach`, `DeadLettersSettle` | `DeadLetteredOnce`, `DeadLetteredSettled` |
| | `DeliveredWithinBudget` | `DeadLetterBudget`, if `PolicyStands` and `DeadTopicsThere` |
| | `IdsStoredOnce`, `BatchesConform` | `PublishedOnce`, `PublishValidated` |
| `DurableProofs` (for `DSpec`) | `DurableNothingLost`, `AcksSurvive`, `PublishesSurvive` | `MessagesAccounted`, `AcknowledgedForGood`, `StoredForGood` |
| | `IdsStoredOnceAcrossCrashes`, `BatchesConformAcrossCrashes`, `OneDeadLetterAcrossCrashes` | `PublishedOnce`, `PublishValidated`, `DeadLetteredOnce` |
| `RelayProofs` (for `RSpec`, `ASpec`) | `OkIsAccepted`, `RelayHasOnce` | `OkMeansAccepted`, `AcceptedOnce` |
| | `AcceptedCommands`, `CommandsQueuedOnce` | `AcceptedIsQueued`, `PublishedOnce`; also from `ActionAssumption` |
| `EgressProofs` | `AcceptedNotPostedAgain` | `PushedOnce`, for `DispatchSpec` |
| | `NothingAckedUnseen` | `AckedWasAccepted`, for `DispatchSpec`, if `OnlyPushed` and `AllWanted` |
| | `NoDeliveryStrays` | `LeaseReachable`, for `StreamingSpec` |
| `GatewayProofs` | `RetiredKeysStopCounting` | `RetiredKeysUnused`, for `AuthSpec` |
| | `WhatWasReadCanBeWritten`, `DoorsAlwaysAgree` | `WriteBackKept`, `DoorsAgree`, for `DoorsSpec`, from `DoorAssumption` |
| | `LogTailComplete` | `PassedWasReceived`, for `LogSpec`, from `LogAssumption` |
| | `ListingLosesOnePerDeletion` | `MissedPerDeletion`, for `ListSpec`, from `ListAssumption` |
| | `BackoffIsExact`, `BackoffNeverShrinks` | `BackoffExact`, `BackoffGrows`, for `BackoffSpec`, every retry policy of `u32`s |

**Hypotheses.** Some properties hold of the code only while nobody does something
the API allows, and the theorem says what. `NotSwitchedOn`: no update switches
ordering on for a subscription that has it off, after which leases taken out of
order are there already. `PolicyStands`: no update replaces a dead-letter policy,
which may lower the budget below what was delivered. `DeadTopicsThere`: the topic a
policy names exists; without it `pull` delivers on. `OnlyPushed` and the actions of
`DispatchSpec`: nobody but the dispatcher pulls from, acks in or seeks a subscription
that has an endpoint (others do as they like with the rest, and subscriptions, topics
and push configurations come and go). `AllWanted`: no filter and no dead-letter policy
settles messages in the endpoint's stead. `StreamingSpec`: others may publish, ack,
nack, extend, seek, administer, but not pull; the client sends any frames, hangs up and
comes back at any time. The runs make the same restrictions by their instances.
The model counts attempts up to `AttemptCap`, from where two deliveries have one number;
the theorems hold for every such cap, so `AckIdsNotReused`, which excepts numbers at the
cap, says "not reused" up to any number.
`DoorAssumption`: `Requests` is any set of `Expressible` requests over any set `Texts`;
the bounds that the doors write as literals (10 seconds, 5 attempts, 1000 messages) are
those of `DeliveryPolicy`; an `i32` holds every deadline; the markers of a missing field
are no values of it. The exceptions `Comparable` makes are the differences of section 5.
`LogAssumption`: the ring keeps at least one entry (the code: at least 100) and a page
may hold one. `ListAssumption`: finitely many names, in some order; the default and the
largest page have a positive size, while the size asked for is any integer. The bounds on
what happens (`MaxLogged`, `MaxBoots`, `MaxChanges`, `MaxAttempt`) are any.

**The argument.** Neither "nothing is lost" nor "nothing is doubled" is inductive
alone: moving a position from the leases to the queue keeps the books only if it
was not in the queue already, and removing a lease keeps the position accounted
for only if no second lease held it. `Booked` (in `SubscriptionProofs`) joins both:
the places are pairwise disjoint, hold each position once, and together are
exactly the positions between `start` and the cursor. While a pull holds a
position in its hand (`Take` has removed it from its place, the iteration has not
yet put it down), the books are out by that one position: `InHand`. Each
transformer of `Subscription` gets one lemma, from `Booked` or `InHand` to `Booked`.
`start <= cursor` is the strengthening that makes `cursor + 1` a position not yet
in any place. `Inv` of `BackendProofs` is the conjunction of typed topics, sound
and booked subscriptions, names in range, and a lock whose operation works on
something that exists; there is one step per action.

The second half of `BackendProofs` joins `Inv` with the property itself (`CInv`). Logs only grow while a
topic lives, deleting a topic marks everything that points into it stale, and a
pull in progress reads at most the log as it was when the pull began (`LockOK`).

`RefinementProofs` maps each subscription to `AtLeastOnce`. Its ready messages are
those in the retry queue and those past the cursor. From `CInv` these are exactly
the positions from `start` to the end of the log that are neither leased, acked
nor lost (`ReadyView`): without the books in order a queued message could also be
leased or acked, and without the cursor in range a message to come could already
be passed. So a step is known by what it does to `start`, the leases, the acked
and the lost positions (`Places`) and to the length of the log: there is one lemma
per abstract action, and one per operation that says which of them it is for the
subscription it works on; for every other subscription it is `Arrive` if the step
added to its topic, and nothing otherwise (`LeftAlone`). Dead-lettering into the
subscription's own topic is the one step that retires a message and brings one
(`Recycle`).

`DurableProofs` first shows that a step of the durable broker is a step of the
broker or a crash, so that `InvStep` carries over. `DInv` adds that the *file*
satisfies what `Inv` says of memory, without which a crash could load anything.
`AcksSurvive` needs three more facts, none of them inductive alone: the property
said of the file as well, the resets in the file bounding every answer given,
and (`NextAcks`) that a step that does not reset a subscription only adds to its
acked set. `PublishesSurvive` has the same shape, with `NextLogs`: a log is only
ever extended while its topic lives.

`DeliveryProofs` first says once and for all what a step can do to a subscription and
to a log (`StepShape`): it settles one message (delivers, filters out or dead-letters
the one it took), or it is quiet (`QuietStep`): leases only end, only leased messages
become acked, attempts stay, or the subscription starts again. Each property is then
one argument over these four.
`KeyOrder` is inductive with `Inv` except for switching ordering on. `AckIdsNotReused` needs
`Numbered`: a lease carries exactly the number of attempts counted, because only a
message without a lease is counted; a lease that was not there before therefore has the
number this step counted, which is above every earlier one (`FreshByIds`, `CountedIds`). A
restart of the books (`Restarted`) is what the property excepts. `DeadLetteredOnce` needs
that a copy's original is settled (`CopiesSettled`, which is `DeadLetteredSettled`), since a
settled message is not taken again. `DeadLetterBudget` needs that nothing is counted more than one
past the limit, and then only what is settled (`LimitsKept`), which is where the dead
topic has to exist, and that copies were made exactly there (`CopiedAtLimit`).
`PublishedOnce` needs `TopicsOnce`: the ids a topic knows are those its log holds, also in
the middle of a batch. `PublishValidated` is part of what the lock's holder has checked.

Across crashes memory is swapped for the file, so each of these is said of the file as
well: of its logs and ids (`OInv`), and of its copies with the subscriptions and resets it
holds (`KInv`).

`RelayProofs` shows that the inner broker of a step of `RelayEvents` takes a step of
`DurableBackend`, so that `DInv` holds of it. `RInv` says what a caller's local state
means: the messages it has counted as sent are taken, a call that answers Ok has
sent them all, an "accepted" one also the next. Relay never forgets an event,
which is why other callers' steps leave it true. `RelayHasOnce` needs only that
Relay has each key once, because messages of one type and equal content have one
key.

`AcceptedCommands` needs the same facts of memory and of the file, for a crash swaps
one for the other: a seen id that is in no log would let the topic swallow a
command that is not there (`SeenLogged`), so answering 2xx for a duplicate is
right only because of it. `GatewayLock` ties the mutex to the write lock: while
the gateway is in the inner publish, the operation that holds the lock is its
own, with its command. `KeysKept` carries a key from the topic to the file when
the save succeeds.

`EgressProofs` puts the two tasks beside the other users of the broker. What the
lock's holder does for a task is what the task asked for (`PushLock`, `StreamLock`); what it
does for another leaves the task's leases alone or ends them (`LockedElsewhere`).

The dispatcher's `PInv` says that the deliveries it has yet to POST are leased under their ack ids
or were put back (`HandHeld`), at most one per message, and that what its endpoint has
accepted is acked, dropped, or the one delivery whose ack is under way (`AcceptedDone`). So
a lease that ends while the dispatcher is at work does no harm before its own next
pull, and then the ack has been made. `AInv` adds the converse for `AckedWasAccepted`.

The stream's `SInv` says where each id can be (`Afoot`), more finely than the property
does: an ack under way is owed only for the ids the lock's holder has not come to
(`Owing`), which is what makes a half-finished acknowledge of a long frame keep the
property when it fails. It needs that only the first frame names a subscription
(`OneNames`), for a frame that named another would leave the leases of the first behind;
and that before that frame is read no lease is the stream's own.

`GatewayProofs` bounds the age of replaced keys in every place they can be: in a response
under way, in the cache, in use (`AuthInv`). A response that is late puts old keys
in the cache with a new time stamp, so the bound is the sum of both.

For the doors the invariant is small (`DoorInv`: the subscription the broker keeps is
typed, its deadline within the clamps, its numbers within `u32`, its endpoint not empty)
and the work is in the conversions. That each door makes of any expressible request such
a spec (`GrpcSpecType`, `RestSpecType`) keeps it. `WriteBackKept` needs that a door reads
back what it showed (`RestReadsShown`, `GrpcReadsShown`: exactly through REST, up to the
clamps through gRPC), for which the invariant is needed: of a deadline outside the clamps
it would be false. For `DoorsAgree` most handlers make one call (`SameOther`,
`SameConsole`) or calls that differ in a size the backend reads as the nearest of its
range (`SameReads`). The specs they make of one subscription are not equal but `Alike`,
equal up to how a default or a limit is written (`PlainRead`); a masked update keeps
that (`AlikeMasked`), and like specs behave the same once stored (`AlikeBehave`).

For the log, `LogInv` adds to the property that the ring holds the last ids in a row
(`Consecutive`) and that the cursor is behind the next id or no further than where it
was when the process was first read (`CursorOK`): else an entry not yet logged could
already be passed. An entry between the old cursor and the new one lies before the last of
the page, so it has no more entries before it than that one has, and was in the page.

For listings the property alone says nothing until the listing is over. `ListInv`
divides the sorted list at the next index: of what lies behind it, as many lasting names
are unread (`Missed`) as were deleted at most, and of what lies ahead, the names read
already (`Twice`) and the repeats so far are together no more than were created. A deletion
lowers the indices after it by one, so what falls behind the cursor had the cursor's own
index, which only one name has (`DeleteShifts`, `IndexUnique`); a creation is the mirror
image, where either the new name itself or the one it pushes comes ahead, never both
(`CreateShifts`). The last page takes the rest, and what is left is `Missed`.

For the backoff, the eleven shifts are compared with the powers of two one by one
(`ShiftIsPower`); a product that saturates exceeds every maximum (`DelayIsProduct`).

What TLC alone checks: liveness (`LockReleased`, `Settled`, `PublishAnswered`,
`MutexReleased`, `OthersNotStarved`, `StreamDelivers`, `StreamEnds`, `ListingEnds`), which is
out of the prover's reach; and `FilterMeans`, whose parser is recursive, so that what it
returns for every sentence is known only by induction over sentences. Every other
property of a passing run is a theorem.

## 5. What the checks show about the code

* **A late exactly-once ack drops the message** (`NothingDropped`). `acknowledge`
  removes the lease, then finds the deadline passed and returns an error. The
  message is not queued again, so it is never redelivered, and with ordering it
  holds its key back.
* **Ordering waits for messages that never come** (`BlockedByOutstanding`).
  `ordering_blocked` looks at every message of the key from index 0 on. After a
  seek, or for a subscription created on a topic with history, the predecessors
  before the cursor are not acked and never will be.
* **Ack ids come back after a seek.** With exactly-once delivery an ack id is
  `{subscription}:{index}:{attempt}`, and a seek clears the attempts (so does deleting and
  creating the subscription). The next delivery then has the id of the first one before
  the seek, and an ack of before the seek acks the new lease. `AckIdsNotReused` says that
  ids are never reused otherwise, and excepts steps that start a new life (`resets`);
  without the exception TLC finds the seek. No document promises more, so this is no
  finding.
* **Backlog counts what is not to be delivered** (`DrainedHasNoBacklog`).
* **Not every mutation is saved** (`SnapshotAfterMutation`). An exactly-once
  `acknowledge` that fails on a late id has removed its lease and acked the ids
  before it, and returns before the save. Nothing that was answered Ok is lost by
  it (`AcksSurvive`); a crash makes the messages come again.
* **A null retry policy is a policy** (`RestWriteBackKept`). REST shows a
  subscription without a retry policy as `"retryPolicy": null`; sent back, the null
  is stored as a policy of zeros, and failed messages come back at once instead of
  after the default 10 to 600 seconds. gRPC keeps it.
* **The two doors disagree** in more places, all of which `Comparable` excepts from
  `DoorsAgree`: REST takes a body without a name (the path has it), gRPC refuses it;
  a negative `ackDeadlineSeconds` of modifyAckDeadline is a nack through REST and an
  error through gRPC; CreateSnapshot without a subscription is refused by REST and not
  found through gRPC; SetIamPolicy without a policy stores an empty policy through REST;
  ValidateMessage with an inline schema that has a name looks the name up through REST
  and validates against the schema through gRPC; REST keeps a schema type gRPC's
  enumeration does not know; a dead-letter policy without a topic is none through
  REST; an update mask may come in REST's query; numbers beyond `i32` wrap or
  saturate differently. The console defaults to 10 messages a pull and lists 1000.
* Numbers beyond the clamps never matter: whatever a door lets through, the broker
  reads as the nearest number of its range (`Effective`, part of `DoorsAgree`).
* A gRPC client that reads a subscription whose dead-letter policy came through
  REST with more than 2^31 - 1 attempts sees a negative number (`WriteBackKept` excepts
  it).
* A message an endpoint accepted is never POSTed again although its lease has often
  ended by then (`PushedOnce`): only the dispatcher's own next pull looks at the
  deadline, and the ack comes before it. Any other consumer of the subscription
  breaks this, which is why the property says "nobody else pulls".
* A stream that is cancelled while its task is blocked on a full channel does end
  (`StreamEnds`), because the channel's other end is dropped with it.
* After a restart the log page shows none of the new entries until their ids pass
  its old cursor (`blind` in `PassedWasReceived`).
* A slow answer of the identity provider can put replaced keys back over newer ones;
  they then count for at most another 300 seconds (`RetiredKeysUnused`). The fetch
  has no timeout.
* The re-check at the head of the pull loop (already acked or leased) never
  applies: `OutstandingTaken` is proved.
* A topic that is deleted and recreated leaves subscriptions whose cursor points
  past the new log; a retry entry of before then makes pull panic and the
  subscription vanish. `SubscriptionKept` states that this is the only way.
* A restart forgets the action gateway's map, yet no key is queued twice: the topic's
  own deduplication takes over (`PublishedOnce`, `AcceptedIsQueued`). The two share
  one set of ids, so a message another client publishes to the actions topic
  under the key of a command stands for it.
* After the actions topic is deleted and created again, the map still answers
  "queued" for keys whose commands went with the old topic. `AcceptedIsQueued`
  excludes it (`~deleted`).
* A publish to a topic that does not exist is forwarded all the same: without the
  topic there is no schema to look up.
* Two messages without an id and with equal topic, source, severity and data are
  one event for Relay. A test of the repository says so on purpose
  (`retried_publish_without_idempotency_key_dedupes_at_relay`).

## 6. What is left

Not modelled:

* `http_backend.rs` sends each call to a remote API that is not in this repository
  (its README calls it invented and legacy) and keeps nothing but an embedded memory
  backend; what the remote side does would be guesswork. (Its `update_topic` and
  `update_subscription` change nothing and answer with what was asked for, where the
  comment at line 157 speaks of returning the current topic.) `grpc_backend.rs`
  answers every call with an error.
* `cloudevents.rs` (attributes derived from headers, no state), the BINARY schema
  encoding, identifiers, escapes and white space of filters.
* TLS, metrics, configuration, health endpoints, start-up (except what it creates),
  the figures of inventory besides the backlog, the console besides its log tail.
* In `FrontDoors`: timestamps, etags, KMS keys, labels of subscriptions. In
  `StreamingPull`: the authorization of a stream, done once at its start. In
  `Authentication`: claims, audience and issuer of a token.

What could still be added: identifiers and escapes of filters, and proofs of `FilterMeans`
and of liveness, with a prover that has induction over data and fairness.

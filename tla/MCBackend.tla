----------------------------- MODULE MCBackend -----------------------------
(***************************************************************************)
(* Instances of MemoryBackend for TLC.  Each .cfg picks the names, specs   *)
(* and batches of one question, and either Spec (everything, from an empty *)
(* broker) or one of the specifications below, which start from a broker   *)
(* whose topics and subscriptions exist, as src/main.rs leaves it.         *)
(***************************************************************************)
EXTENDS BackendProperties

CONSTANTS
  t, dlq, s, k, m1, c, plain, noise, json, text,
  MaxPublished   \* bound: messages clients publish to t (copies come on top)

-----------------------------------------------------------------------------
(* Subscription specs.                                                     *)

PlainSpec == [topic |-> t, ordering |-> FALSE, exactlyOnce |-> FALSE,
              dead |-> NoDeadLetter, retry |-> NoRetry, deadline |-> 1,
              filter |-> Attrs]

OrderedSpec == [PlainSpec EXCEPT !.ordering = TRUE]

FilteredSpec == [OrderedSpec EXCEPT !.filter = {plain}]

ExactlyOnceSpec == [PlainSpec EXCEPT !.exactlyOnce = TRUE]

DeadLetterSpec ==
  [PlainSpec EXCEPT !.dead = [topic |-> dlq, tries |-> 2],
                    !.retry = [min |-> 0, max |-> 0]]

OrderedDeadLetterSpec == [DeadLetterSpec EXCEPT !.ordering = TRUE, !.dead.tries = 0]

FilteredSpecs == {FilteredSpec}
ExactlyOnceSpecs == {ExactlyOnceSpec}
OrderingSpecs == {FilteredSpec, [OrderedSpec EXCEPT !.exactlyOnce = TRUE]}
SettlingSpecs == {DeadLetterSpec, OrderedDeadLetterSpec, OrderedSpec}
AdminSpecs == {PlainSpec, [OrderedSpec EXCEPT !.exactlyOnce = TRUE]}

-----------------------------------------------------------------------------
(* Messages.                                                               *)

Plain == [id |-> NoId, key |-> NoKey, attr |-> plain, data |-> json]
Keyed == [Plain EXCEPT !.key = k]
Noise == [Keyed EXCEPT !.attr = noise]
Known == [Plain EXCEPT !.id = m1]
Text  == [Known EXCEPT !.data = text]

PlainBatches == {<<Plain>>}
KeyedBatches == {<<Keyed>>, <<Plain>>}
FilteredBatches == {<<Keyed>>, <<Noise>>, <<Keyed, Keyed>>}
KeyedPairs == {<<Keyed, Keyed>>, <<Plain>>}

-----------------------------------------------------------------------------
(* A broker that was set up before the clients start.                      *)

Provisioned ==
  /\ topic = [n \in Topics |-> [log |-> <<>>, seen |-> {}, schema |-> NoSchema]]
  /\ \E f \in [Subs -> Specs] : sub = [n \in Subs |-> NewSubscription(f[n], 0)]
  /\ snap = NoEntries /\ schema = NoEntries
  /\ lock = Free
  /\ resets = [n \in Subs |-> 1]
  /\ stale = {}

\* Clients publish to t only; the dead-letter topic holds copies alone.
ClientNext ==
  \/ /\ Idle /\ Len(topic[t].log) < MaxPublished
     /\ \E batch \in Batches : PublishBegin(t, batch)
  \/ Consume
  \/ LockedStep
  \/ Tick

ClientSpec == Provisioned /\ [][ClientNext]_vars

SeekingSpec == Provisioned /\ [][ClientNext \/ Seek]_vars

FairSpec == ClientSpec /\ Progress /\ KeepsPulling

\* Consumers of a subscription without a dead-letter policy keep acking; with
\* one the messages must be settled even when nobody ever acks.
KeepsAckingUnlessDead ==
  \A s1 \in Subs, p \in Position :
    SF_vars(AckDelivered(s1, p) /\ sub[s1].spec.dead = NoDeadLetter)

SettlingSpec == FairSpec /\ KeepsAckingUnlessDead
=============================================================================

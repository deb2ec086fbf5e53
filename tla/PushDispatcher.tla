--------------------------- MODULE PushDispatcher ---------------------------
(***************************************************************************)
(* The push dispatcher of src/push.rs: one task that, in every round,      *)
(* lists the subscriptions with a push endpoint, pulls from each a batch   *)
(* of messages and POSTs them one after the other, acking those the        *)
(* endpoint accepts.  What it does not ack comes back when its lease ends. *)
(***************************************************************************)
EXTENDS GatewayCalls

CONSTANTS
  Dispatcher,   \* the dispatcher's task
  Endpoints, NoEndpoint,
  PushBatch     \* 20 in the code

ASSUME DispatcherAssumption == Dispatcher \in Tasks /\ PushBatch \in Nat

VARIABLES
  endpoint,   \* push_endpoint of each subscription
  push,       \* the dispatcher's locals
  accepted    \* history: messages an endpoint has answered 2xx to

pushVars == <<endpoint, push, accepted>>

\* todo: subscriptions still to visit in this round, as they were listed;
\* at: the one being visited; got: ack ids not POSTed yet.
Asleep == [pc |-> "asleep", todo |-> {}]

\* push_interval_seconds is 0: main.rs does not start the dispatcher.
Off == [pc |-> "off", todo |-> {}]

PushInit == push \in {Asleep, Off} /\ accepted = {}

\* An empty endpoint is none: the subscription is no longer pushed.
ModifyPushConfig(s, e) ==
  /\ Idle
  /\ s \in DOMAIN sub
  /\ endpoint' = [endpoint EXCEPT ![s] = e]
  /\ UNCHANGED <<Backend, calls, push, accepted>>

ListPushSubscriptions ==
  {[sub |-> s, endpoint |-> endpoint[s]] :
     s \in {s \in DOMAIN sub : endpoint[s] # NoEndpoint}}

WakeUp ==
  /\ push.pc = "asleep"
  /\ Idle
  /\ push' = [pc |-> "visiting", todo |-> ListPushSubscriptions]
  /\ UNCHANGED <<Backend, calls, endpoint, accepted>>

\* The subscriptions come in the order of a HashMap: any order.
Visit ==
  /\ push.pc = "visiting"
  /\ \E x \in push.todo :
       /\ CallPull(Dispatcher, x.sub, PushBatch)
       /\ push' = [pc |-> "pulling", todo |-> push.todo \ {x}, at |-> x, got |-> <<>>]
  /\ UNCHANGED <<endpoint, accepted>>

RoundEnds ==
  /\ push.pc = "visiting"
  /\ push.todo = {}
  /\ push' = Asleep
  /\ UNCHANGED <<Backend, calls, endpoint, accepted>>

Visiting == [pc |-> "visiting", todo |-> push.todo]

\* A failed pull ends the round.
BadOnward(got) == IF got = <<>> THEN Asleep ELSE [push EXCEPT !.pc = "posting", !.got = got]

\* The next POST of this subscription, or the next subscription: also after a
\* pull that failed.
Onward(got) == IF got = <<>> THEN Visiting ELSE [push EXCEPT !.pc = "posting", !.got = got]

Pulled ==
  /\ push.pc = "pulling"
  /\ Return(Dispatcher)
  /\ push' = Onward(call[Dispatcher].got)
  /\ UNCHANGED <<endpoint, accepted>>

\* The message a POST carries.
Posted == [sub |-> push.at.sub, pos |-> Head(push.got)[1]]

\* Leaves the ack out.
BadPostAccepted ==
  /\ push.pc = "posting"
  /\ accepted' = accepted \cup {Posted}
  /\ push' = Onward(Tail(push.got))
  /\ UNCHANGED <<Backend, calls, endpoint>>

PostAccepted ==
  /\ push.pc = "posting"
  /\ accepted' = accepted \cup {Posted}
  /\ push' = [push EXCEPT !.pc = "accepted"]
  /\ UNCHANGED <<Backend, calls, endpoint>>

\* Acks whatever the endpoint answered.
BadPostFailed ==
  /\ push.pc = "posting"
  /\ push' = [push EXCEPT !.pc = "accepted"]
  /\ UNCHANGED <<Backend, calls, endpoint, accepted>>

\* An error status, a refused connection, or no answer in time.
PostFailed ==
  /\ push.pc = "posting"
  /\ push' = Onward(Tail(push.got))
  /\ UNCHANGED <<Backend, calls, endpoint, accepted>>

AckAccepted ==
  /\ push.pc = "accepted"
  /\ CallAcknowledge(Dispatcher, push.at.sub, <<Head(push.got)>>)
  /\ push' = [push EXCEPT !.pc = "acking"]
  /\ UNCHANGED <<endpoint, accepted>>

\* The outcome of the ack is ignored.
Acked ==
  /\ push.pc = "acking"
  /\ Return(Dispatcher)
  /\ push' = Onward(Tail(push.got))
  /\ UNCHANGED <<endpoint, accepted>>

\* A step of the dispatcher that depends on no endpoint.
DispatcherStep == WakeUp \/ Visit \/ RoundEnds \/ Pulled \/ AckAccepted \/ Acked

-----------------------------------------------------------------------------
(* The dispatcher among the other users of the broker.                     *)

Configs == Endpoints \cup {NoEndpoint}

\* The dispatcher has nothing to do with this subscription.
Unpushed(s) ==
  /\ endpoint[s] = NoEndpoint
  /\ \A x \in push.todo : x.sub # s
  /\ push.pc \notin {"off", "asleep", "visiting"} => push.at.sub # s

\* A name that was never used, since positions name messages of one life of a
\* subscription.
CreateWithEndpoint(s, spec, e) ==
  /\ resets[s] = 0
  /\ CreateSubscription(s, spec)
  /\ endpoint' = [endpoint EXCEPT ![s] = e]
  /\ UNCHANGED <<calls, push, accepted>>

ConsumeFrom(s) ==
  \/ \E n \in PullSizes : PullBegin(s, n)
  \/ s \in DOMAIN sub /\ \E ids \in IdBatches(s) :
       \/ AckBegin(s, ids) \/ NackBegin(s, ids)
       \/ \E seconds \in Extensions : ExtendDeadline(s, ids, seconds)

\* Everything but consuming from, or seeking, what is pushed.
Others ==
  \/ Publish \/ Tick \/ TopicAdmin
  \/ \E s \in Subs, spec \in Specs, mask \in SUBSET MaskFields :
       UpdateSubscription(s, spec, mask)
  \/ \E s \in Subs : DeleteSubscription(s)
  \/ \E n \in Snaps, s \in Subs : CreateSnapshot(n, s)
  \/ \E n \in Snaps : DeleteSnapshot(n)
  \/ \E s \in Subs : Unpushed(s) /\ ConsumeFrom(s)

DispatchNext ==
  \/ Serve /\ UNCHANGED pushVars
  \/ Others /\ UNCHANGED <<calls, pushVars>>
  \/ \E s \in Subs, spec \in Specs, e \in Configs : CreateWithEndpoint(s, spec, e)
  \/ \E s \in Subs, e \in Configs : ModifyPushConfig(s, e)
  \/ DispatcherStep \/ PostAccepted \/ PostFailed

DispatchInit == Init /\ CallsInit /\ PushInit /\ endpoint = [s \in Subs |-> NoEndpoint]

DispatchSpec == DispatchInit /\ [][DispatchNext]_<<vars, calls, pushVars>>

-----------------------------------------------------------------------------

\* A message its endpoint accepted is never POSTed again, however long the
\* POSTs before and after it take: its lease may long have ended when it is
\* acked, but only the dispatcher's next pull of the subscription looks.  (For
\* subscriptions that nobody else pulls from and nobody seeks.)
PushedOnce == push.pc = "posting" => Posted \notin accepted

\* Nothing is settled behind the endpoint's back: what is acked, it accepted.
\* (Without filter and dead-letter policy.)
AckedWasAccepted ==
  \A s \in DOMAIN sub : endpoint[s] # NoEndpoint =>
    \A p \in sub[s].acked \cup sub[s].lost :
      [sub |-> s, pos |-> p] \in accepted
=============================================================================

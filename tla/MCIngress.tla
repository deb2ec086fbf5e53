----------------------------- MODULE MCIngress -----------------------------
(***************************************************************************)
(* The two ways into the Relay events backend, each from an empty broker   *)
(* whose topics and schema come and go.  Initial states differ in the way: *)
(*   "forward"  two callers forward to Relay, or queue a command on the    *)
(*              actions topic, and saves succeed;                          *)
(*   "actions"  the action gateway and one other publisher share the       *)
(*              actions topic, and saves may fail.                         *)
(***************************************************************************)
EXTENDS MCBackend, ActionGateway

CONSTANTS e, c1, c2

VARIABLE way

ingressVars == <<avars, way>>

ActionRequests == {[key |-> m1, attr |-> plain, data |-> json]}

\* Messages without an id, one of them in both batches.
PlainText == [Plain EXCEPT !.data = text]
Pair == <<PlainText, Plain>>

\* What the other publisher sends besides: the same id with another body.
Twice == <<Known, Text>>

IngressBatches == {Pair, <<Plain>>, <<Known>>, Twice}

-----------------------------------------------------------------------------
(* Forwarding.  On the actions topic, c2 alone queues a command; its id    *)
(* bounds the log.  The forwarded topic alone is bound to a schema, and    *)
(* no topic is deleted.                                                    *)

Forwards ==
  \/ BeginPublish(c1, e, Pair)
  \/ BeginPublish(c2, e, <<Plain>>)
  \/ BeginPublish(c2, t, <<Known>>)

BesideForwards ==
  /\ Delegated
  /\ t \in DOMAIN topic' => topic'[t].schema = NoSchema

\* The save of an operation that is over succeeds.
SavesSucceed == lock' = Free => topic' = disk'.topic /\ schema' = disk'.schema

ForwardNext ==
  /\ \/ Forwards
     \/ \E p \in Callers : PublishOf(p) \/ Return(p) \/ Abandon(p)
     \/ BesideForwards \/ RelayStep \/ Restart
  /\ SavesSucceed
  /\ DOMAIN topic \subseteq DOMAIN topic'
  /\ UNCHANGED <<byKey, accepted, deleted>>

-----------------------------------------------------------------------------
(* Actions.  The other publisher sends the command's id twice, the second  *)
(* time with a body the schema rejects.  Only saves of a publish fail.     *)

ActionNext ==
  /\ ANext
  /\ e \notin DOMAIN topic'
  /\ lock.op = "free" => SavesSucceed
  /\ call[c2] = NoCall /\ call'[c2] # NoCall =>
       call'[c2].topic = t /\ call'[c2].batch = Twice

-----------------------------------------------------------------------------

IngressInit == AInit /\ way \in {"forward", "actions"}

ForwardStep == way = "forward" /\ ForwardNext /\ UNCHANGED way

ActionStep == way = "actions" /\ ActionNext /\ UNCHANGED way

\* A handler that has its answer goes on.
Answers ==
  IF way = "actions" THEN CommandQueued \/ CommandFailed
  ELSE Return(Gateway) /\ UNCHANGED <<byKey, accepted, deleted>>

IngressFairness == RFairness /\ WF_avars(Answers)

IngressSpec == IngressInit /\ [][ForwardStep \/ ActionStep]_ingressVars /\ IngressFairness
=============================================================================

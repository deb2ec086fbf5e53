----------------------------- MODULE MCGateway -----------------------------
(***************************************************************************)
(* The parts of the gateway that stand beside the delivery engine, each on *)
(* its own: every initial state picks one part, and the others rest.       *)
(***************************************************************************)
EXTENDS FrontDoors, Filter, LogBuffer, Listing, Authentication, Redelivery, FiniteSets

\* Backoff seconds a retry policy asks for, up to MaxU32: which is smaller than
\* u32::MAX because TLC's integers end at 2^31 - 1.
CONSTANT Samples

VARIABLE part      \* the part that runs

rest == <<broker, sentence, lvars, gvars, avars, rvars>>
gatewayVars == <<part, rest>>

-----------------------------------------------------------------------------
(* What clients of the doors ask for.                                      *)

TopicBodies ==
  [named : {TRUE}, schema : {Absent}, labels : {Absent, "red"}]
  \cup {Absent, [named |-> FALSE, schema |-> "s", labels |-> Null]}

Bare == [named |-> TRUE, topic |-> "t", deadline |-> Absent, ordering |-> Absent,
         exactlyOnce |-> Absent, dead |-> Absent, retry |-> Absent,
         push |-> Absent, filter |-> Absent]

SubscriptionBodies ==
  {Absent, Bare, [Bare EXCEPT !.topic = Absent], [Bare EXCEPT !.topic = "other"],
   [Bare EXCEPT !.named = FALSE],
   [Bare EXCEPT !.deadline = -1, !.ordering = TRUE, !.filter = "attributes:a"],
   [Bare EXCEPT !.deadline = 601, !.retry = [min |-> Absent, max |-> 20]],
   [Bare EXCEPT !.deadline = 0, !.retry = [min |-> 30, max |-> 5]],
   [Bare EXCEPT !.deadline = MaxU32 + 21, !.retry = Null],
   [Bare EXCEPT !.dead = [topic |-> "dead", tries |-> Absent], !.filter = "malformed"],
   [Bare EXCEPT !.dead = [topic |-> "dead", tries |-> 3]],
   [Bare EXCEPT !.dead = [topic |-> "dead", tries |-> -1], !.retry = [min |-> -5, max |-> -5]],
   [Bare EXCEPT !.dead = [topic |-> "dead", tries |-> MaxI32 + 1],
                !.push = [endpoint |-> "", attributes |-> "x"]],
   [Bare EXCEPT !.push = [endpoint |-> "http", attributes |-> Absent]],
   [Bare EXCEPT !.filter = "attributes:b", !.exactlyOnce = TRUE]}

Pushes == {Absent, Null, [endpoint |-> "http", attributes |-> "x"],
           [endpoint |-> Absent, attributes |-> "x"], [endpoint |-> " ", attributes |-> "x"]}

Masks == {Absent, {"filter"}, {"retry", "push"}, {"*"}}

Definitions ==
  {[form |-> "typed", proto |-> FALSE, required |-> {"site"}],
   [form |-> "json", proto |-> FALSE, required |-> {}],
   [form |-> "broken", proto |-> TRUE, required |-> {}]}

SchemaBodies ==
  {Absent} \cup
  [named : {TRUE}, type : {Absent, "AVRO", "PROTOCOL_BUFFER"}, definition : Definitions]
  \cup [named : BOOLEAN, type : {"JSON", "XML"}, definition : {Absent} \cup Definitions]

Payloads ==
  {Absent}
  \cup [form : {"malformed", "text", "value"}, keys : {{}}]
  \cup [form : {"object"}, keys : {{"zone"}, {"site", "zone"}}]

ReadsOf(kind, ops) == [kind : {kind}, op : ops]

ModelRequests ==
  ReadsOf("topic", {"GetTopic", "DeleteTopic"})
  \cup ReadsOf("sub", {"GetSubscription", "DeleteSubscription"})
  \cup ReadsOf("snap", {"GetSnapshot", "DeleteSnapshot"})
  \cup ReadsOf("schema", {"GetSchema", "DeleteSchema"})
  \cup ReadsOf("iam", {"GetIamPolicy"})
  \cup [kind : {"topic"}, op : {"List"}, size : {Absent, -1, 0, 7, 1000, 5000}]
  \cup [kind : {"topic"}, op : {"CreateTopic"}, body : TopicBodies, mask : {Absent}, query : {Absent}]
  \cup [kind : {"topic"}, op : {"UpdateTopic"}, body : TopicBodies,
        mask : {Absent, {"schema"}}, query : {Absent, {"labels"}}]
  \cup [kind : {"sub"}, op : {"CreateSubscription"}, body : SubscriptionBodies,
        mask : {Absent}, query : {Absent}]
  \cup [kind : {"sub"}, op : {"UpdateSubscription"}, body : SubscriptionBodies,
        mask : Masks, query : {Absent}]
  \cup [kind : {"sub"}, op : {"ModifyPushConfig"}, push : Pushes]
  \cup [kind : {"publish"}, op : {"Publish"},
        messages : {Absent, <<>>, <<"plain">>, <<"plain", "malformed">>, <<"plain", "plain">>}]
  \cup [kind : {"pull"}, op : {"Pull"}, max : {Absent, -1, 0, 1, 1000, 1001}]
  \cup [kind : {"ack"}, op : {"Acknowledge"}, ids : {Absent, {}, {"a"}}]
  \cup [kind : {"ack"}, op : {"ModifyAckDeadline"}, ids : {{"a"}},
        seconds : {Absent, -1, 0, 600, 601}]
  \cup [kind : {"seek"}, op : {"Seek"}, snapshot : {Absent, "snap"}, time : {Absent, "noon"}]
  \cup [kind : {"snap"}, op : {"CreateSnapshot"}, sub : {Absent, "s"}, labels : {Absent, "red"}]
  \cup [kind : {"snap"}, op : {"UpdateSnapshot"},
        body : {Absent} \cup [named : BOOLEAN, labels : {"", "red"}],
        mask : {Absent, {"labels"}, {"expire_time"}}, query : {Absent}]
  \cup [kind : {"iam"}, op : {"SetIamPolicy"},
        policy : {Absent} \cup [version : {Absent, 0, 3}, bindings : {Absent, {"a"}}]]
  \cup [kind : {"iam"}, op : {"TestIamPermissions"}, permissions : {Absent, {"publish"}}]
  \cup [kind : {"schema"}, op : {"CreateSchema", "ValidateSchema"}, body : SchemaBodies,
        id : {Absent, "id"}]
  \cup [kind : {"message"}, op : {"ValidateMessage"}, by : {"name", "neither"},
        body : {Absent}, message : Payloads]
  \cup [kind : {"message"}, op : {"ValidateMessage"}, by : {"schema"},
        body : {sb \in SchemaBodies : sb # Absent}, message : Payloads]

-----------------------------------------------------------------------------
(* One part at a time.                                                     *)

Sessions == [delivery |-> {"topic", "sub", "snap"},
             schemas |-> {"schema", "message"},
             others |-> {"iam", "publish", "pull", "ack", "seek"}]

Beside == {"filter", "logs", "listing", "auth", "backoff"}

NoListing ==
  /\ present = {} /\ parent = TRUE
  /\ listing = [of |-> "project", size |-> 0, token |-> NoToken, on |-> FALSE]
  /\ received = {} /\ repeats = 0 /\ created = 0 /\ deleted = 0 /\ steady = {}

GatewayInit ==
  /\ part \in Beside \cup DOMAIN Sessions
  /\ IF part \in DOMAIN Sessions THEN DoorInit ELSE broker = Absent
  /\ IF part = "listing" THEN ListInit ELSE NoListing
  /\ FilterInit /\ LogInit /\ AuthInit
  /\ policy \in [min : Samples, max : Samples] \cup {NoRetry} /\ attempt = 1
  /\ part # "backoff" => policy = NoRetry

DoorsStep ==
  /\ part \in DOMAIN Sessions
  /\ DoorNext(Sessions[part])
  /\ UNCHANGED <<part, sentence, lvars, gvars, avars, rvars>>

FilterStep ==
  /\ part = "filter" /\ FilterNext
  /\ UNCHANGED <<part, broker, lvars, gvars, avars, rvars>>

LogStep ==
  /\ part = "logs" /\ LogNext
  /\ UNCHANGED <<part, broker, sentence, gvars, avars, rvars>>

ListStep ==
  /\ part = "listing" /\ ListNext
  /\ UNCHANGED <<part, broker, sentence, lvars, avars, rvars>>

AuthStep ==
  /\ part = "auth" /\ AuthNext
  /\ UNCHANGED <<part, broker, sentence, lvars, gvars, rvars>>

BackoffStep ==
  /\ part = "backoff" /\ Redeliver
  /\ UNCHANGED <<part, broker, sentence, lvars, gvars, avars>>

GatewayNext ==
  DoorsStep \/ FilterStep \/ LogStep \/ ListStep \/ AuthStep \/ BackoffStep

GatewaySpec == GatewayInit /\ [][GatewayNext]_gatewayVars /\ KeepsListing
=============================================================================

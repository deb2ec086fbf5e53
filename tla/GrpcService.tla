---------------------------- MODULE GrpcService ----------------------------
(***************************************************************************)
(* The gRPC door, src/grpc.rs: the unary handlers of Publisher, Subscriber *)
(* and SchemaService, each turning its request into a call of the backend. *)
(* StreamingPull has a module of its own.                                  *)
(***************************************************************************)
EXTENDS ApiValues

-----------------------------------------------------------------------------
(* Protobuf to a spec, and back.                                           *)

TopicFromProto(body) == [schema |-> Or(body.schema, ""), labels |-> Or(body.labels, "")]

\* Takes whatever number was sent.
BadGrpcDeadline(field) == AsU32(Or(field, 0))

GrpcDeadline(field) == IF Or(field, 0) <= 0 THEN 10 ELSE field

GrpcSeconds(field) == AsU32(AtLeast(0, Or(field, 0)))

\* push_config: an empty endpoint clears it, the attributes stay.
GrpcPush(push) ==
  IF NoValue(push) THEN [endpoint |-> Absent, attributes |-> ""]
  ELSE [endpoint |-> IF Or(push.endpoint, "") = "" THEN Absent ELSE push.endpoint,
        attributes |-> Or(push.attributes, "")]

\* subscription_from_proto
SubscriptionFromProto(body) ==
  [topic |-> body.topic,
   deadline |-> GrpcDeadline(body.deadline),
   ordering |-> Or(body.ordering, FALSE), exactlyOnce |-> Or(body.exactlyOnce, FALSE),
   dead |-> IF NoValue(body.dead) THEN NoDead
            ELSE [topic |-> Or(body.dead.topic, ""),
                  tries |-> AtLeast(5, Or(body.dead.tries, 0))],
   retry |-> IF NoValue(body.retry) THEN NoRetry
             ELSE [min |-> GrpcSeconds(body.retry.min), max |-> GrpcSeconds(body.retry.max)],
   push |-> GrpcPush(body.push),
   filter |-> Or(body.filter, "")]

\* Leaves the retry policy out.
BadSubscriptionToProto(spec) ==
  [named |-> TRUE, topic |-> spec.topic, deadline |-> AsI32(spec.deadline),
   ordering |-> spec.ordering, exactlyOnce |-> spec.exactlyOnce,
   dead |-> IF spec.dead = NoDead THEN Absent ELSE [spec.dead EXCEPT !.tries = AsI32(@)],
   retry |-> Absent,
   push |-> IF spec.push.endpoint = Absent THEN Absent ELSE spec.push,
   filter |-> spec.filter]

\* subscription_to_proto: without an endpoint the attributes are not shown.
SubscriptionToProto(spec) ==
  [named |-> TRUE, topic |-> spec.topic, deadline |-> AsI32(spec.deadline),
   ordering |-> spec.ordering, exactlyOnce |-> spec.exactlyOnce,
   dead |-> IF spec.dead = NoDead THEN Absent ELSE [spec.dead EXCEPT !.tries = AsI32(@)],
   retry |-> IF spec.retry = NoRetry THEN Absent ELSE spec.retry,
   push |-> IF spec.push.endpoint = Absent THEN Absent ELSE spec.push,
   filter |-> spec.filter]

\* schema_type_from_proto: the enumeration knows two formats.
SchemaFromProto(body) ==
  [type |-> IF body.type \in {"AVRO", "PROTOCOL_BUFFER"} THEN body.type ELSE "UNSPECIFIED",
   definition |-> Or(body.definition, NoDefinition)]

-----------------------------------------------------------------------------
(* The handlers.                                                           *)

\* Get, delete and list take a name only; a list also takes a page size.
GrpcTopics(r) ==
  CASE r.op \in {"CreateTopic", "UpdateTopic"} ->
         IF r.body = Absent \/ ~r.body.named THEN Refused
         ELSE [op |-> r.op, spec |-> TopicFromProto(r.body), mask |-> Or(r.mask, {})]
    [] r.op \in {"GetTopic", "DeleteTopic"} -> [op |-> r.op]
    [] r.op = "List" -> [op |-> r.op, size |-> Or(r.size, 0)]

GrpcSubscriptions(r) ==
  CASE r.op \in {"CreateSubscription", "UpdateSubscription"} ->
         IF r.body = Absent \/ ~r.body.named \/ Or(r.body.topic, "") = "" THEN Refused
         ELSE [op |-> r.op, spec |-> SubscriptionFromProto(r.body), mask |-> Or(r.mask, {})]
    [] r.op \in {"GetSubscription", "DeleteSubscription"} -> [op |-> r.op]
    [] r.op = "ModifyPushConfig" -> [op |-> r.op, push |-> GrpcPush(r.push)]

GrpcPublish(r) ==
  IF Or(r.messages, <<>>) = <<>> THEN Refused ELSE [op |-> r.op, messages |-> r.messages]

GrpcPull(r) == [op |-> r.op, max |-> AtLeast(1, Or(r.max, 0))]

GrpcAcks(r) ==
  IF r.op = "Acknowledge" THEN [op |-> r.op, ids |-> Or(r.ids, {})]
  ELSE IF Or(r.seconds, 0) \notin 0 .. 600 THEN Refused
  ELSE [op |-> r.op, ids |-> Or(r.ids, {}), seconds |-> Or(r.seconds, 0)]

\* The target is one of the two, or missing.
GrpcSeek(r) ==
  CASE ~NoValue(r.snapshot) -> [op |-> r.op, to |-> r.snapshot]
    [] NoValue(r.snapshot) /\ ~NoValue(r.time) -> [op |-> r.op, to |-> r.time]
    [] OTHER -> Refused

\* The expiry a client asks for is parsed, and not used by the backend.
GrpcSnapshots(r) ==
  CASE r.op = "CreateSnapshot" ->
         [op |-> r.op, sub |-> Or(r.sub, ""), labels |-> Or(r.labels, "")]
    [] r.op = "UpdateSnapshot" ->
         IF r.body = Absent \/ ~r.body.named THEN Refused
         ELSE [op |-> r.op, labels |-> Or(r.body.labels, ""), mask |-> Or(r.mask, {})]
    [] r.op \in {"GetSnapshot", "DeleteSnapshot"} -> [op |-> r.op]

GrpcIam(r) ==
  CASE r.op = "GetIamPolicy" -> [op |-> r.op]
    [] r.op = "SetIamPolicy" ->
         IF NoValue(r.policy) THEN Refused
         ELSE [op |-> r.op, version |-> Or(r.policy.version, 0),
               bindings |-> Or(r.policy.bindings, {})]
    [] r.op = "TestIamPermissions" -> [op |-> r.op, permissions |-> Or(r.permissions, {})]

\* create_schema makes up a missing name from parent and schema_id.
GrpcSchemas(r) ==
  CASE r.op = "CreateSchema" ->
         IF r.body = Absent \/ (~r.body.named /\ r.id = Absent) THEN Refused
         ELSE [op |-> r.op, spec |-> SchemaFromProto(r.body)]
    [] r.op = "ValidateSchema" ->
         IF r.body = Absent \/ ~r.body.named THEN Refused
         ELSE [op |-> r.op, spec |-> SchemaFromProto(r.body)]
    [] r.op \in {"GetSchema", "DeleteSchema"} -> [op |-> r.op]

GrpcValidateMessage(r) ==
  CASE r.by = "name" -> [op |-> r.op, spec |-> Absent, message |-> Or(r.message, NoPayload)]
    [] r.by = "schema" ->
         IF ~r.body.named THEN Refused
         ELSE [op |-> r.op, spec |-> SchemaFromProto(r.body), message |-> Or(r.message, NoPayload)]
    [] r.by = "neither" -> Refused
=============================================================================

---------------------------- MODULE RestGateway ----------------------------
(***************************************************************************)
(* The REST door, src/rest.rs: google_dispatch with its handlers, each     *)
(* turning path, query and JSON body into a call of the backend, and the   *)
(* calls of the console under /api.  A body without a name takes the name  *)
(* of its path.  Base64 and attributes that are not texts make a published *)
(* message "malformed".                                                    *)
(***************************************************************************)
EXTENDS ApiValues, Sequences

-----------------------------------------------------------------------------
(* JSON to a spec, and back.                                               *)

\* Value::as_u64 with unwrap_or: a negative number is no number.
AsU64(field, default) == IF NoValue(field) \/ field < 0 THEN default ELSE field

TopicSpecFromValue(body) ==
  IF body = Absent THEN [schema |-> "", labels |-> ""]
  ELSE [schema |-> Or(body.schema, ""), labels |-> Or(body.labels, "")]

\* parse_duration_seconds: a float cast to u32 saturates.
RestSeconds(field) == Clamp(Or(field, 0), 0, MaxU32)

\* parse_retry: a null policy is a policy, and all of its fields are zero.
ParseRetry(field) ==
  CASE field = Absent -> NoRetry
    [] field = Null -> [min |-> 0, max |-> 0]
    [] OTHER -> [min |-> RestSeconds(field.min), max |-> RestSeconds(field.max)]

\* parse_dead_letter: without a topic there is no policy.
ParseDeadLetter(field) ==
  IF NoValue(field) \/ NoValue(field.topic) THEN NoDead
  ELSE [topic |-> field.topic, tries |-> AsU32(AsU64(field.tries, 5))]

\* parse_push_config
ParsePushConfig(push) ==
  IF NoValue(push) THEN [endpoint |-> Absent, attributes |-> ""]
  ELSE [endpoint |-> IF Or(push.endpoint, "") = "" THEN Absent ELSE push.endpoint,
        attributes |-> Or(push.attributes, "")]

\* subscription_spec_from_value, when there is a topic.
SubscriptionSpecFromValue(body) ==
  [topic |-> body.topic,
   deadline |-> AsU32(AsU64(body.deadline, 10)),
   ordering |-> Or(body.ordering, FALSE), exactlyOnce |-> Or(body.exactlyOnce, FALSE),
   dead |-> ParseDeadLetter(body.dead),
   retry |-> ParseRetry(body.retry),
   push |-> ParsePushConfig(body.push),
   filter |-> Or(body.filter, "")]

\* subscription_json: every field is there, null or empty when not set.
SubscriptionJson(spec) ==
  [named |-> TRUE, topic |-> spec.topic, deadline |-> spec.deadline,
   ordering |-> spec.ordering, exactlyOnce |-> spec.exactlyOnce,
   dead |-> IF spec.dead = NoDead THEN Null ELSE spec.dead,
   retry |-> IF spec.retry = NoRetry THEN Null ELSE spec.retry,
   push |-> [spec.push EXCEPT !.endpoint = Or(@, "")],
   filter |-> spec.filter]

\* schema_spec_from_value: the type is kept as it was written.
SchemaSpecFromValue(body) ==
  IF body = Absent THEN [type |-> "UNSPECIFIED", definition |-> NoDefinition]
  ELSE [type |-> Or(body.type, "UNSPECIFIED"), definition |-> Or(body.definition, NoDefinition)]

\* parse_update_mask: the query's mask goes before the body's.
ParseUpdateMask(r) == IF Or(r.query, {}) # {} THEN r.query ELSE Or(r.mask, {})

-----------------------------------------------------------------------------
(* The handlers.                                                           *)

RestTopics(r) ==
  CASE r.op \in {"CreateTopic", "UpdateTopic"} ->
         [op |-> r.op, spec |-> TopicSpecFromValue(r.body), mask |-> ParseUpdateMask(r)]
    [] r.op \in {"GetTopic", "DeleteTopic"} -> [op |-> r.op]
    [] r.op = "List" -> [op |-> r.op, size |-> Or(r.size, 100)]

RestSubscriptions(r) ==
  CASE r.op \in {"CreateSubscription", "UpdateSubscription"} ->
         IF r.body = Absent \/ NoValue(r.body.topic) THEN Refused
         ELSE [op |-> r.op, spec |-> SubscriptionSpecFromValue(r.body),
               mask |-> ParseUpdateMask(r)]
    [] r.op \in {"GetSubscription", "DeleteSubscription"} -> [op |-> r.op]
    [] r.op = "ModifyPushConfig" -> [op |-> r.op, push |-> ParsePushConfig(r.push)]

\* One malformed message refuses them all.
RestPublish(r) ==
  IF Or(r.messages, <<>>) = <<>>
     \/ \E i \in DOMAIN r.messages : r.messages[i] = "malformed"
  THEN Refused ELSE [op |-> r.op, messages |-> r.messages]

RestPull(r) == [op |-> r.op, max |-> Clamp(AsU64(r.max, 1), 1, 1000)]

RestAcks(r) ==
  IF r.op = "Acknowledge" THEN [op |-> r.op, ids |-> Or(r.ids, {})]
  ELSE IF AsU64(r.seconds, 0) > 600 THEN Refused
  ELSE [op |-> r.op, ids |-> Or(r.ids, {}), seconds |-> AsU64(r.seconds, 0)]

\* With both targets the snapshot is taken.
RestSeek(r) ==
  CASE ~NoValue(r.snapshot) -> [op |-> r.op, to |-> r.snapshot]
    [] NoValue(r.snapshot) /\ ~NoValue(r.time) -> [op |-> r.op, to |-> r.time]
    [] OTHER -> Refused

RestSnapshots(r) ==
  CASE r.op = "CreateSnapshot" ->
         IF NoValue(r.sub) THEN Refused
         ELSE [op |-> r.op, sub |-> r.sub, labels |-> Or(r.labels, "")]
    [] r.op = "UpdateSnapshot" ->
         [op |-> r.op, labels |-> IF r.body = Absent THEN "" ELSE Or(r.body.labels, ""),
          mask |-> ParseUpdateMask(r)]
    [] r.op \in {"GetSnapshot", "DeleteSnapshot"} -> [op |-> r.op]

\* Without a policy the body itself is taken for one, and it has no bindings.
RestIam(r) ==
  CASE r.op = "GetIamPolicy" -> [op |-> r.op]
    [] r.op = "SetIamPolicy" ->
         IF NoValue(r.policy) THEN [op |-> r.op, version |-> 1, bindings |-> {}]
         ELSE [op |-> r.op, version |-> Or(r.policy.version, 1),
               bindings |-> Or(r.policy.bindings, {})]
    [] r.op = "TestIamPermissions" -> [op |-> r.op, permissions |-> Or(r.permissions, {})]

RestSchemas(r) ==
  CASE r.op \in {"CreateSchema", "ValidateSchema"} ->
         [op |-> r.op, spec |-> SchemaSpecFromValue(r.body)]
    [] r.op \in {"GetSchema", "DeleteSchema"} -> [op |-> r.op]

\* A schema with a name is looked up, whatever else it says.
RestValidateMessage(r) ==
  LET payload == Or(r.message, NoPayload)
  IN  CASE payload.form = "malformed" \/ r.by = "neither" -> Refused
        [] payload.form # "malformed" /\ (r.by = "name" \/ (r.by = "schema" /\ r.body.named)) ->
             [op |-> r.op, spec |-> Absent, message |-> payload]
        [] OTHER -> [op |-> r.op, spec |-> SchemaSpecFromValue(r.body), message |-> payload]

-----------------------------------------------------------------------------
(* The console.                                                            *)

\* admin_publish takes one message and admin_push_config trims its endpoint;
\* a call without the ack ids is no call.
Console(r) ==
  CASE r.op = "Publish" ->
         IF Or(r.messages, <<>>) = <<>> THEN Refused
         ELSE [op |-> r.op, messages |-> <<Head(r.messages)>>]
    [] r.op = "Pull" ->
         IF Or(r.max, 10) < 0 THEN Refused ELSE [op |-> r.op, max |-> Or(r.max, 10)]
    [] r.op = "Acknowledge" ->
         IF NoValue(r.ids) THEN Refused ELSE [op |-> r.op, ids |-> r.ids]
    [] r.op = "ModifyPushConfig" ->
         [op |-> r.op,
          push |-> LET push == ParsePushConfig(r.push)
                   IN  IF push.endpoint = " " THEN [push EXCEPT !.endpoint = Absent] ELSE push]
    [] r.op = "List" -> [op |-> r.op, size |-> 1000]
=============================================================================

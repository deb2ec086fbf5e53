----------------------------- MODULE FrontDoors -----------------------------
(***************************************************************************)
(* Clients of both doors administer one broker with one resource of each   *)
(* kind, in any order.  The administrative calls do here what they do in   *)
(* src/memory.rs; a call of the data plane is only passed on, MemoryBackend*)
(* says what becomes of it.                                                *)
(***************************************************************************)
EXTENDS GrpcService, RestGateway, Functions

CONSTANTS
  Requests,    \* what clients may mean
  Texts,       \* names, endpoints, attributes and filters of subscriptions
  ModelTopic   \* the topic the broker can have

-----------------------------------------------------------------------------
(* What clients may mean.                                                  *)

Optional(S) == S \cup {Absent, Null}

PushBody == [endpoint : Optional(Texts), attributes : Optional(Texts)]

SubscriptionBody ==
  [named : BOOLEAN, topic : Optional(Texts), deadline : Optional(Int),
   ordering : Optional(BOOLEAN), exactlyOnce : Optional(BOOLEAN),
   dead : Optional([topic : Optional(Texts), tries : Optional(Int)]),
   retry : Optional([min : Optional(Int), max : Optional(Int)]),
   push : Optional(PushBody), filter : Optional(Texts)]

OpsOf ==
  [topic |-> {"CreateTopic", "UpdateTopic", "GetTopic", "DeleteTopic", "List"},
   sub |-> {"CreateSubscription", "UpdateSubscription", "GetSubscription",
            "DeleteSubscription", "ModifyPushConfig"},
   publish |-> {"Publish"}, pull |-> {"Pull"},
   ack |-> {"Acknowledge", "ModifyAckDeadline"}, seek |-> {"Seek"},
   snap |-> {"CreateSnapshot", "UpdateSnapshot", "GetSnapshot", "DeleteSnapshot"},
   iam |-> {"GetIamPolicy", "SetIamPolicy", "TestIamPermissions"},
   schema |-> {"CreateSchema", "ValidateSchema", "GetSchema", "DeleteSchema"},
   message |-> {"ValidateMessage"}]

Specified == {"CreateSubscription", "UpdateSubscription"}

Expressible(r) ==
  /\ r.kind \in DOMAIN OpsOf /\ r.op \in OpsOf[r.kind]
  /\ r.op \in Specified => r.body \in SubscriptionBody \cup {Absent}
  /\ r.op \in Specified \cup {"CreateTopic", "UpdateTopic", "UpdateSnapshot"} =>
       "query" \in DOMAIN r
  /\ r.op = "ModifyPushConfig" => r.push \in Optional(PushBody)
  /\ r.op = "Publish" =>
       LET sent == Or(r.messages, <<>>) IN sent \in Seq(Range(sent))
  /\ r.op = "List" => r.size \in Optional(Int)
  /\ r.op = "Pull" => r.max \in Optional(Int)
  /\ r.op = "ModifyAckDeadline" => r.seconds \in Optional(Int)
  /\ r.op = "ValidateMessage" => r.by \in {"name", "schema", "neither"}

StoredDead == {NoDead} \cup [topic : Texts, tries : 0 .. MaxU32]

StoredRetry == {NoRetry} \cup RetryPolicy

StoredPush == [endpoint : (Texts \ {""}) \cup {Absent}, attributes : Texts]

\* The specs of subscriptions, with the deadlines they may have.
SpecWith(deadlines) ==
  [topic : Texts, deadline : deadlines, ordering : BOOLEAN, exactlyOnce : BOOLEAN,
   dead : StoredDead, retry : StoredRetry, push : StoredPush, filter : Texts]

Missing == {Absent, Null}

ASSUME DoorAssumption ==
  /\ \A r \in Requests : Expressible(r)
  /\ {"", " "} \subseteq Texts /\ ModelTopic \in Texts \ {""}
  /\ MaxI32 \in Nat /\ MaxI32 <= MaxU32 /\ MaxAckDeadline <= MaxI32
  /\ MinAckDeadline = 10 /\ MinTries = 5 /\ MaxPull = 1000
  /\ \A no \in Missing :
       /\ no \notin SubscriptionBody /\ no \notin Texts /\ no \notin Int /\ no \notin BOOLEAN
       /\ no \notin RetryPolicy /\ no \notin [topic : Texts, tries : Int]
       /\ no \notin [endpoint : Texts, attributes : Texts]
       /\ no \notin {"UNSPECIFIED", "AVRO", "PROTOCOL_BUFFER"}
  /\ NoDead \notin [topic : Texts, tries : Int] /\ Absent \notin SpecWith(Nat)

-----------------------------------------------------------------------------

VARIABLE broker   \* [topic, sub, snap, schema, iam], each Absent until it is set;
                  \* Absent itself while no gateway runs

DoorInit ==
  broker = [topic |-> Absent, sub |-> Absent, snap |-> Absent,
            schema |-> Absent, iam |-> Absent]

-----------------------------------------------------------------------------
(* The backend.                                                            *)

Ok(b, value) == [broker |-> b, status |-> "OK", value |-> value]

Error(b, status) == [broker |-> b, status |-> status, value |-> Absent]

Masked(mask, field) == mask = {} \/ "*" \in mask \/ field \in mask

ApplyMask(existing, incoming, mask, fields) ==
  [f \in DOMAIN existing |->
     IF f \in fields /\ Masked(mask, f) THEN incoming[f] ELSE existing[f]]

Read(b, kind) ==
  IF b[kind] = Absent THEN Error(b, "NOT_FOUND") ELSE Ok(b, b[kind])

Take(b, kind) ==
  IF b[kind] = Absent THEN Error(b, "NOT_FOUND") ELSE Ok([b EXCEPT ![kind] = Absent], Absent)

Insert(b, kind, spec) == Ok([b EXCEPT ![kind] = spec], spec)

UpdateTopic(b, c) ==
  IF b.topic = Absent THEN Error(b, "NOT_FOUND")
  ELSE Insert(b, "topic", ApplyMask(b.topic, c.spec, c.mask, {"schema", "labels"}))

Normalized(spec) == [spec EXCEPT !.deadline = NormalizeAckDeadline(AtLeast(10, @))]

CreateSubscription(b, c) ==
  CASE b.sub # Absent -> Error(b, "ALREADY_EXISTS")
    [] b.sub = Absent /\ c.spec.filter = "malformed" -> Error(b, "INVALID_ARGUMENT")
    [] b.sub = Absent /\ c.spec.filter # "malformed"
         /\ (b.topic = Absent \/ c.spec.topic # ModelTopic) -> Error(b, "NOT_FOUND")
    [] OTHER -> Insert(b, "sub", Normalized(c.spec))

\* The filter is immutable, and so is the topic.
SubscriptionFields == {"deadline", "ordering", "exactlyOnce", "dead", "retry", "push"}

UpdateSubscription(b, c) ==
  CASE b.sub = Absent -> Error(b, "NOT_FOUND")
    [] b.sub # Absent /\ "filter" \in c.mask /\ c.spec.filter \notin {"", b.sub.filter} ->
         Error(b, "FAILED_PRECONDITION")
    [] OTHER -> Insert(b, "sub",
                  Normalized(ApplyMask(b.sub, c.spec, c.mask, SubscriptionFields)))

ModifyPushConfig(b, c) ==
  IF b.sub = Absent THEN Error(b, "NOT_FOUND")
  ELSE Ok([b EXCEPT !.sub.push = c.push], Absent)

CreateSnapshot(b, c) ==
  CASE b.snap # Absent -> Error(b, "ALREADY_EXISTS")
    [] b.snap = Absent /\ (c.sub = "" \/ b.sub = Absent) -> Error(b, "NOT_FOUND")
    [] OTHER -> Insert(b, "snap", [topic |-> b.sub.topic, labels |-> c.labels])

UpdateSnapshot(b, c) ==
  IF b.snap = Absent THEN Error(b, "NOT_FOUND")
  ELSE Insert(b, "snap", ApplyMask(b.snap, c, c.mask, {"labels"}))

DefaultPolicy == [version |-> 1, bindings |-> {"allAuthenticatedUsers"}]

SetIamPolicy(b, c) ==
  Insert(b, "iam", [version |-> IF c.version = 0 THEN 1 ELSE c.version,
                    bindings |-> c.bindings])

IsJson(definition) == definition.form \in {"json", "typed"}

\* validate_definition
ValidDefinition(spec) ==
  /\ spec.definition.form # "empty"
  /\ CASE spec.type = "AVRO" -> spec.definition.form = "typed"
       [] spec.type = "PROTOCOL_BUFFER" -> spec.definition.proto
       [] spec.type \in {"UNSPECIFIED", "", "JSON", "JSON_SCHEMA"} ->
            spec.definition.form # "broken"
       [] OTHER -> FALSE

\* validate_payload for the JSON encoding, with enforce_required.
ValidPayload(spec, message) ==
  /\ ValidDefinition(spec)
  /\ message.form \in {"value", "object"}
  /\ IsJson(spec.definition) /\ spec.definition.required # {} =>
       message.form = "object" /\ spec.definition.required \subseteq message.keys

Judged(b, valid) == IF valid THEN Ok(b, Absent) ELSE Error(b, "INVALID_ARGUMENT")

ValidateMessage(b, c) ==
  CASE c.spec # Absent -> Judged(b, ValidPayload(c.spec, c.message))
    [] c.spec = Absent /\ b.schema = Absent -> Error(b, "NOT_FOUND")
    [] OTHER -> Judged(b, ValidPayload(b.schema, c.message))

CreateResource(b, c) ==
  CASE c.op = "CreateTopic" ->
         IF b.topic # Absent THEN Error(b, "ALREADY_EXISTS") ELSE Insert(b, "topic", c.spec)
    [] c.op = "CreateSubscription" -> CreateSubscription(b, c)
    [] c.op = "CreateSnapshot" -> CreateSnapshot(b, c)
    [] c.op = "CreateSchema" ->
         IF ~ValidDefinition(c.spec) THEN Error(b, "INVALID_ARGUMENT")
         ELSE IF b.schema # Absent THEN Error(b, "ALREADY_EXISTS")
         ELSE Insert(b, "schema", c.spec)

KindOf == [GetTopic |-> "topic", DeleteTopic |-> "topic",
           GetSubscription |-> "sub", DeleteSubscription |-> "sub",
           GetSnapshot |-> "snap", DeleteSnapshot |-> "snap",
           GetSchema |-> "schema", DeleteSchema |-> "schema"]

Gets == {"GetTopic", "GetSubscription", "GetSnapshot", "GetSchema"}
Deletes == {"DeleteTopic", "DeleteSubscription", "DeleteSnapshot", "DeleteSchema"}
Creates == {"CreateTopic", "CreateSubscription", "CreateSnapshot", "CreateSchema"}

Call(b, c) ==
  CASE c.op \in Gets -> Read(b, KindOf[c.op])
    [] c.op \in Deletes -> Take(b, KindOf[c.op])
    [] c.op \in Creates -> CreateResource(b, c)
    [] c.op = "UpdateTopic" -> UpdateTopic(b, c)
    [] c.op = "UpdateSubscription" -> UpdateSubscription(b, c)
    [] c.op = "ModifyPushConfig" -> ModifyPushConfig(b, c)
    [] c.op = "UpdateSnapshot" -> UpdateSnapshot(b, c)
    [] c.op = "GetIamPolicy" -> Ok(b, Or(b.iam, DefaultPolicy))
    [] c.op = "SetIamPolicy" -> SetIamPolicy(b, c)
    [] c.op = "TestIamPermissions" -> Ok(b, c.permissions)
    [] c.op = "ValidateSchema" -> Judged(b, ValidDefinition(c.spec))
    [] c.op = "ValidateMessage" -> ValidateMessage(b, c)
    [] c.op = "refused" -> Error(b, "INVALID_ARGUMENT")
    [] OTHER -> Ok(b, c)

-----------------------------------------------------------------------------
(* The doors.                                                              *)

\* The services of src/grpc.rs.
Grpc(r) ==
  CASE r.kind = "topic" -> GrpcTopics(r)
    [] r.kind = "sub" -> GrpcSubscriptions(r)
    [] r.kind = "publish" -> GrpcPublish(r)
    [] r.kind = "pull" -> GrpcPull(r)
    [] r.kind = "ack" -> GrpcAcks(r)
    [] r.kind = "seek" -> GrpcSeek(r)
    [] r.kind = "snap" -> GrpcSnapshots(r)
    [] r.kind = "iam" -> GrpcIam(r)
    [] r.kind = "schema" -> GrpcSchemas(r)
    [] r.kind = "message" -> GrpcValidateMessage(r)

\* google_dispatch and handle_resource_request: the method and the end of the
\* path tell the operation.
Rest(r) ==
  CASE r.kind = "topic" -> RestTopics(r)
    [] r.kind = "sub" -> RestSubscriptions(r)
    [] r.kind = "publish" -> RestPublish(r)
    [] r.kind = "pull" -> RestPull(r)
    [] r.kind = "ack" -> RestAcks(r)
    [] r.kind = "seek" -> RestSeek(r)
    [] r.kind = "snap" -> RestSnapshots(r)
    [] r.kind = "iam" -> RestIam(r)
    [] r.kind = "schema" -> RestSchemas(r)
    [] r.kind = "message" -> RestValidateMessage(r)

OnConsole(r) == r.op \in {"Publish", "Pull", "Acknowledge", "ModifyPushConfig", "List"}

\* Protobuf's numbers are 32 bits wide.  (Those of other requests are not kept.)
Int32 == -MaxI32 - 1 .. MaxI32

InProtobuf(r) ==
  r.op \in Specified /\ r.body # Absent =>
    /\ Or(r.body.deadline, 0) \in Int32
    /\ ~NoValue(r.body.dead) => Or(r.body.dead.tries, 0) \in Int32

Doors(r) == {"rest"} \cup (IF InProtobuf(r) THEN {"grpc"} ELSE {})
                     \cup (IF OnConsole(r) THEN {"console"} ELSE {})

Asked(door, r) ==
  CASE door = "grpc" -> Grpc(r) [] door = "rest" -> Rest(r) [] door = "console" -> Console(r)

Served(door, b, r) == Call(b, Asked(door, r))

Serve(door, r) == broker' = Served(door, broker, r).broker

\* Clients that ask for some kinds of resources.
DoorNext(kinds) ==
  \E r \in {q \in Requests : q.kind \in kinds} : \E door \in Doors(r) : Serve(door, r)

DoorsSpec == DoorInit /\ [][DoorNext(DOMAIN OpsOf)]_broker

-----------------------------------------------------------------------------
(* What clients rely on.                                                   *)

\* What a subscription's policy comes to.
Effective(spec) ==
  [topic |-> spec.topic, deadline |-> spec.deadline, ordering |-> spec.ordering,
   exactlyOnce |-> spec.exactlyOnce,
   dead |-> IF spec.dead = NoDead THEN NoDead
            ELSE [spec.dead EXCEPT !.tries = MaxDeliveryAttempts(@)],
   retry |-> [min |-> LowerBackoff(spec.retry), max |-> UpperBackoff(spec.retry)],
   push |-> IF spec.push.endpoint = Absent THEN Absent ELSE spec.push,
   filter |-> spec.filter]

EffectiveBroker(b) == [b EXCEPT !.sub = IF @ = Absent THEN Absent ELSE Effective(@)]

\* paginate and pull read a size outside their range as the nearest one.
EffectiveCall(c) ==
  CASE c.op = "List" -> [c EXCEPT !.size = IF @ <= 0 THEN 100 ELSE Clamp(@, 1, 1000)]
    [] c.op = "Pull" -> [c EXCEPT !.max = PullLimit(@)]
    [] OTHER -> c

PassedOn == {"List", "Publish", "Pull", "Acknowledge", "ModifyAckDeadline", "Seek",
             "TestIamPermissions"}

\* What a request comes to: the broker afterwards, the status, and the call
\* that was passed on.
Effect(door, b, r) ==
  LET served == Served(door, b, r)
  IN  <<EffectiveBroker(served.broker), served.status,
        IF served.status = "OK" /\ r.op \in PassedOn THEN EffectiveCall(Asked(door, r))
        ELSE Absent>>

WithinI32(field) == Or(field, 0) <= MaxI32

\* Bodies that mean the same to both doors: with a name, a topic, no null
\* policy, a dead-letter policy only with its topic, and numbers an i32 holds.
PlainSubscription(body) ==
  /\ body.named /\ body.topic # "" /\ body.retry # Null
  /\ WithinI32(body.deadline)
  /\ ~NoValue(body.dead) => ~NoValue(body.dead.topic) /\ WithinI32(body.dead.tries)
  /\ ~NoValue(body.retry) => Or(body.retry.min, 0) <= MaxU32 /\ Or(body.retry.max, 0) <= MaxU32

PlainMasked(r) == "query" \in DOMAIN r => NoValue(r.query)

\* Requests that mean the same through both doors.  The others are a body
\* without a name, a schema type outside the enumeration, a message or seek
\* that only JSON can state, negative seconds, a missing snapshot source or
\* policy, and ValidateMessage with an inline schema: REST looks a named one up,
\* gRPC refuses one without a name.
Comparable(r) ==
  /\ PlainMasked(r)
  /\ CASE r.op \in {"CreateSubscription", "UpdateSubscription"} -> 
            r.body = Absent \/ PlainSubscription(r.body)
       [] r.op \in {"CreateTopic", "UpdateTopic", "UpdateSnapshot"} ->
            r.body # Absent /\ r.body.named
       [] r.op \in {"CreateSchema", "ValidateSchema"} ->
            /\ r.body # Absent /\ r.body.named
            /\ r.body.type \in {Absent, "UNSPECIFIED", "AVRO", "PROTOCOL_BUFFER"}
       [] r.op = "Publish" -> "malformed" \notin Range(Or(r.messages, <<>>))
       [] r.op = "ModifyAckDeadline" -> Or(r.seconds, 0) >= 0
       [] r.op = "Seek" -> NoValue(r.snapshot) \/ NoValue(r.time)
       [] r.op = "CreateSnapshot" -> ~NoValue(r.sub)
       [] r.op = "SetIamPolicy" -> ~NoValue(r.policy)
       [] r.op = "ValidateMessage" -> r.by # "schema" /\ Or(r.message, NoPayload).form # "malformed"
       [] OTHER -> TRUE

\* The console has defaults of its own, and publishes one message at a time.
ConsoleComparable(r) ==
  CASE r.op = "Publish" -> Len(Or(r.messages, <<>>)) = 1
    [] r.op = "Pull" -> Or(r.max, -1) >= 0
    [] r.op = "Acknowledge" -> ~NoValue(r.ids)
    [] r.op = "ModifyPushConfig" -> NoValue(r.push) \/ r.push.endpoint # " "
    [] r.op = "List" -> r.size = 1000

\* What a client reads of the subscription through a door.
Shown(door, spec) ==
  IF door = "grpc" THEN SubscriptionToProto(spec) ELSE SubscriptionJson(spec)

\* Reading the subscription and writing back what was read.
WriteBack(door, b) ==
  Served(door, b, [kind |-> "sub", op |-> "UpdateSubscription", mask |-> Absent,
                   query |-> Absent, body |-> Shown(door, b.sub)])

\* Whatever was done through either door before, a request that both can state
\* does the same through both: the same answer, the same call of the backend,
\* and a broker that behaves the same (handlers of src/grpc.rs and src/rest.rs).
DoorsAgree ==
  broker # Absent => \A r \in {q \in Requests : Comparable(q)} :
    /\ Effect("grpc", broker, r) = Effect("rest", broker, r)
    /\ OnConsole(r) /\ ConsoleComparable(r) =>
         Effect("console", broker, r) = Effect("rest", broker, r)

\* A client that reads a subscription through a door and writes it back as it
\* was shown changes nothing in how it delivers, except that REST shows no retry
\* policy as null and gRPC shows a number of tries beyond i32 as negative.
WriteBackKept ==
  broker # Absent /\ broker.sub # Absent =>
    /\ broker.sub.retry # NoRetry =>
         WriteBack("rest", broker).broker.sub = broker.sub
    /\ (broker.sub.dead # NoDead => broker.sub.dead.tries <= MaxI32)
       => EffectiveBroker(WriteBack("grpc", broker).broker) = EffectiveBroker(broker)

\* README.md:157: "Matching /v1/projects/... admin + data plane, including
\* ... PATCH updates": the same through REST without the exception.
RestWriteBackKept ==
  broker # Absent /\ broker.sub # Absent =>
    EffectiveBroker(WriteBack("rest", broker).broker) = EffectiveBroker(broker)
=============================================================================

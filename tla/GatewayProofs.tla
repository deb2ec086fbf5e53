---------------------------- MODULE GatewayProofs ----------------------------
(***************************************************************************)
(* What the gateway's doors promise on top of the broker, and what the     *)
(* parts beside it promise: the key cache, the log tail, listings and the  *)
(* retry backoff.                                                          *)
(*                                                                         *)
(* Authentication.  Keys the provider has replaced live on in responses    *)
(* under way, which age while they travel, and in the cache.  AuthInv says *)
(* how old each of them can be; the last use follows.                      *)
(***************************************************************************)
EXTENDS FrontDoors, Authentication, LogBuffer, Listing, Redelivery,
        SequenceTheorems, FiniteSetTheorems, WellFoundedInduction, TLAPS

CachedKeys == [at : Nat, keys : 0 .. keys]

\* A response that carries replaced keys left the provider before that.
ResponseOK(c) ==
  Waiting(c, "travel") =>
    /\ calls[c] \in [step : {"travel"}, signer : Nat, project : Projects,
                     keys : 0 .. keys, left : 0 .. Travel]
    /\ calls[c].keys < keys =>
         now + calls[c].left <= since[calls[c].keys + 1] + Travel

RequestOK(c) ==
  Waiting(c, "fetch") =>
    calls[c] \in [step : {"fetch"}, signer : Nat, project : Projects]

CacheOK ==
  cache # Nothing =>
    /\ cache \in CachedKeys
    /\ cache.keys < keys => cache.at <= since[cache.keys + 1] + Travel

UsedOK == used # Nothing => used \in CachedKeys /\ used.at <= now

AuthInv ==
  /\ now \in Nat /\ keys \in Nat
  /\ since \in Seq(Nat) /\ Len(since) = keys
  /\ \A i \in 1 .. keys : since[i] <= now
  /\ DOMAIN calls = Calls
  /\ \A c \in Calls : ResponseOK(c) /\ RequestOK(c)
  /\ CacheOK /\ UsedOK /\ RetiredKeysUnused
  /\ cache # Nothing => cache.at <= now

\* Whatever keys a call uses: they were current, or replaced so recently.
LEMMA UseOfKeys ==
  ASSUME AuthInv, NEW k \in 0 .. keys, k < keys => now < since[k + 1] + Travel + Ttl,
         used' = [at |-> now, keys |-> k], UNCHANGED <<now, keys, since>>
  PROVE  UsedOK' /\ RetiredKeysUnused'
BY DEF AuthInv, UsedOK, CachedKeys, RetiredKeysUnused

\* A call that only changes its own state.
LEMMA OneCall ==
  ASSUME AuthInv, NEW c \in Calls, NEW r, calls' = [calls EXCEPT ![c] = r],
         UNCHANGED <<now, keys, since>>, ResponseOK(c)', RequestOK(c)'
  PROVE  DOMAIN calls' = Calls /\ \A d \in Calls : (ResponseOK(d) /\ RequestOK(d))'
<1>1. DOMAIN calls' = Calls
  BY DEF AuthInv
<1>2. ASSUME NEW d \in Calls, d # c
      PROVE  (ResponseOK(d) /\ RequestOK(d))'
  <2>1. calls'[d] = calls[d] /\ ResponseOK(d) /\ RequestOK(d)
    BY <1>2 DEF AuthInv
  <2> QED
    BY <2>1 DEF ResponseOK, RequestOK, Waiting
<1> QED
  BY <1>1, <1>2

LEMMA OutcomeDone ==
  ASSUME NEW signer, NEW project, NEW k
  PROVE  Outcome(signer, project, k).step \in {"unauthenticated", "granted", "denied"}
BY DEF Outcome

\* A call that ends has nothing under way.
LEMMA CallDone ==
  ASSUME AuthInv, NEW c \in Calls, NEW r, calls' = [calls EXCEPT ![c] = r],
         r.step \notin {"travel", "fetch"}
  PROVE  ResponseOK(c)' /\ RequestOK(c)'
<1>1. calls'[c] = r
  BY DEF AuthInv
<1> QED
  BY <1>1 DEF ResponseOK, RequestOK, Waiting

LEMMA CallEndsInv ==
  ASSUME AuthInv, NEW c \in Calls, NEW r, calls' = [calls EXCEPT ![c] = r],
         r.step \notin {"travel", "fetch"}, UNCHANGED <<now, keys, since, cache, used>>
  PROVE  AuthInv'
<1>1. DOMAIN calls' = Calls /\ \A d \in Calls : (ResponseOK(d) /\ RequestOK(d))'
  BY CallDone, OneCall
<1> QED
  BY <1>1 DEF AuthInv, CacheOK, UsedOK, CachedKeys, RetiredKeysUnused

LEMMA UseCacheInv ==
  ASSUME AuthInv, NEW c \in Calls, NEW signer \in 0 .. keys, NEW project \in Projects,
         UseCache(c, signer, project)
  PROVE  AuthInv'
<1> DEFINE k == cache.keys
<1>1. /\ cache \in CachedKeys /\ now - cache.at < Ttl
      /\ k < keys => cache.at <= since[k + 1] + Travel
      /\ used' = [at |-> now, keys |-> k] /\ UNCHANGED <<now, keys, since, cache>>
  BY DEF UseCache, Fresh, AuthInv, CacheOK
<1>2. k \in 0 .. keys /\ cache.at \in Nat /\ keys \in Nat /\ now \in Nat
  BY <1>1 DEF CachedKeys, AuthInv
<1>3. k < keys => since[k + 1] \in Nat
  <2>1. k < keys => k + 1 \in 1 .. keys
    BY <1>2
  <2> QED
    BY <2>1 DEF AuthInv
<1>4. k < keys => now < since[k + 1] + Travel + Ttl
  <2> DEFINE a == cache.at
  <2> HIDE DEF k, a
  <2> QED
    BY <1>1, <1>2, <1>3, AuthAssumption DEF a
<1>5. UsedOK' /\ RetiredKeysUnused'
  BY <1>1, <1>2, <1>4, UseOfKeys
<1>6. DOMAIN calls' = Calls /\ \A d \in Calls : (ResponseOK(d) /\ RequestOK(d))'
  BY <1>1, OutcomeDone, CallDone, OneCall DEF UseCache
<1> QED
  BY <1>1, <1>5, <1>6 DEF AuthInv, CacheOK, CachedKeys

LEMMA FetchInv ==
  ASSUME AuthInv, NEW c \in Calls, NEW signer \in 0 .. keys, NEW project \in Projects,
         Fetch(c, signer, project)
  PROVE  AuthInv'
<1>1. /\ calls' = [calls EXCEPT ![c] = [step |-> "fetch", signer |-> signer,
                                        project |-> project]]
      /\ UNCHANGED <<now, keys, since, cache, used>>
  BY DEF Fetch
<1>2. ResponseOK(c)' /\ RequestOK(c)'
  BY <1>1 DEF AuthInv, ResponseOK, RequestOK, Waiting
<1>3. DOMAIN calls' = Calls /\ \A d \in Calls : (ResponseOK(d) /\ RequestOK(d))'
  BY <1>1, <1>2, OneCall
<1> QED
  BY <1>1, <1>3 DEF AuthInv, CacheOK, UsedOK, CachedKeys, RetiredKeysUnused

LEMMA ProvideInv ==
  ASSUME AuthInv, NEW c \in Calls, Provide(c)
  PROVE  AuthInv'
<1> DEFINE r == [step |-> "travel", signer |-> calls[c].signer,
                 project |-> calls[c].project, keys |-> keys, left |-> Travel]
<1>1. calls' = [calls EXCEPT ![c] = r] /\ UNCHANGED <<now, keys, since, cache, used>>
  BY DEF Provide
<1>2. calls[c] \in [step : {"fetch"}, signer : Nat, project : Projects]
  BY DEF Provide, AuthInv, RequestOK
<1>3. ResponseOK(c)' /\ RequestOK(c)'
  BY <1>1, <1>2, AuthAssumption DEF AuthInv, ResponseOK, RequestOK, Waiting
<1> HIDE DEF r
<1>4. DOMAIN calls' = Calls /\ \A d \in Calls : (ResponseOK(d) /\ RequestOK(d))'
  BY <1>1, <1>3, OneCall
<1> QED
  BY <1>1, <1>4 DEF AuthInv, CacheOK, UsedOK, CachedKeys, RetiredKeysUnused

\* The cache may go back to older keys here: but not to older ones than a
\* response can still bring.
LEMMA ArrivedInv ==
  ASSUME AuthInv, NEW c \in Calls, Arrived(c)
  PROVE  AuthInv'
<1> DEFINE k == calls[c].keys
<1>1. /\ calls[c] \in [step : {"travel"}, signer : Nat, project : Projects,
                       keys : 0 .. keys, left : 0 .. Travel]
      /\ k < keys => now + calls[c].left <= since[k + 1] + Travel
      /\ cache' = [at |-> now, keys |-> k] /\ used' = [at |-> now, keys |-> k]
      /\ calls' = [calls EXCEPT ![c] = Outcome(@.signer, @.project, @.keys)]
      /\ UNCHANGED <<now, keys, since>>
  BY DEF Arrived, AuthInv, ResponseOK
<1>2. k \in 0 .. keys /\ calls[c].left \in Nat /\ keys \in Nat /\ now \in Nat
  BY <1>1, AuthAssumption DEF AuthInv
<1>3. k < keys => since[k + 1] \in Nat
  <2>1. k < keys => k + 1 \in 1 .. keys
    BY <1>2
  <2> QED
    BY <2>1 DEF AuthInv
<1>4. k < keys => now <= since[k + 1] + Travel /\ now < since[k + 1] + Travel + Ttl
  <2> DEFINE l == calls[c].left
  <2> HIDE DEF k, l
  <2> QED
    BY <1>1, <1>2, <1>3, AuthAssumption DEF l
<1>5. UsedOK' /\ RetiredKeysUnused'
  BY <1>1, <1>2, <1>4, UseOfKeys
<1>6. CacheOK' /\ cache'.at = now
  <2> HIDE DEF k
  <2> QED
    BY <1>1, <1>2, <1>4 DEF CacheOK, CachedKeys
<1>7. DOMAIN calls' = Calls /\ \A d \in Calls : (ResponseOK(d) /\ RequestOK(d))'
  BY <1>1, OutcomeDone, CallDone, OneCall
<1> QED
  BY <1>1, <1>2, <1>5, <1>6, <1>7 DEF AuthInv

\* What is at hand when the provider rotates is as recent as now.
LEMMA RotateInv ==
  ASSUME AuthInv, Rotate
  PROVE  AuthInv'
<1>1. /\ since' = Append(since, now) /\ keys' = keys + 1
      /\ UNCHANGED <<now, cache, calls, used>>
  BY DEF Rotate
<1>2. /\ now \in Nat /\ keys \in Nat /\ since \in Seq(Nat) /\ Len(since) = keys
      /\ \A i \in 1 .. keys : since[i] <= now
  BY DEF AuthInv
<1>3. /\ since' \in Seq(Nat) /\ Len(since') = keys' /\ since'[keys + 1] = now
      /\ \A i \in 1 .. keys : since'[i] = since[i]
  BY <1>1, <1>2
<1>4. \A i \in 1 .. keys' : since'[i] <= now'
  BY <1>1, <1>2, <1>3
<1>5. \A k \in 0 .. keys : /\ k \in 0 .. keys'
                           /\ k < keys' => \/ k < keys /\ since'[k + 1] = since[k + 1]
                                           \/ k = keys /\ since'[k + 1] = now
  BY <1>1, <1>2, <1>3
<1>6. CacheOK'
  BY <1>1, <1>2, <1>5, AuthAssumption DEF AuthInv, CacheOK, CachedKeys
<1>7. UsedOK' /\ RetiredKeysUnused'
  BY <1>1, <1>2, <1>5, AuthAssumption DEF AuthInv, UsedOK, CachedKeys, RetiredKeysUnused
<1>8. ASSUME NEW c \in Calls PROVE ResponseOK(c)' /\ RequestOK(c)'
  <2>1. RequestOK(c)' /\ ResponseOK(c)
    BY <1>1 DEF AuthInv, RequestOK, Waiting
  <2>2. CASE Waiting(c, "travel")
    <3> DEFINE k == calls[c].keys
               l == calls[c].left
    <3>1. /\ calls[c] \in [step : {"travel"}, signer : Nat, project : Projects,
                           keys : 0 .. keys, left : 0 .. Travel]
          /\ k < keys => now + l <= since[k + 1] + Travel
      BY <2>1, <2>2 DEF ResponseOK
    <3>2. k \in 0 .. keys /\ l \in Nat /\ l <= Travel
      BY <3>1, AuthAssumption
    <3>3. calls[c] \in [step : {"travel"}, signer : Nat, project : Projects,
                        keys : 0 .. keys', left : 0 .. Travel]
      BY <1>5, <3>1
    <3>4. k < keys' => now + l <= since'[k + 1] + Travel
      <4> HIDE DEF k, l
      <4> QED
        BY <1>2, <1>5, <3>1, <3>2, AuthAssumption
    <3> QED
      BY <1>1, <2>1, <3>3, <3>4 DEF ResponseOK, Waiting
  <2>3. CASE ~Waiting(c, "travel")
    BY <1>1, <2>1, <2>3 DEF ResponseOK, Waiting
  <2> QED
    BY <2>2, <2>3
<1>9. (cache # Nothing => cache.at <= now)'
  BY <1>1 DEF AuthInv, Nothing
<1> QED
  BY <1>1, <1>2, <1>3, <1>4, <1>6, <1>7, <1>8, <1>9 DEF AuthInv

\* Time goes by for the responses under way.
LEMMA SecondInv ==
  ASSUME AuthInv, Second
  PROVE  AuthInv'
<1>1. /\ now' = now + 1 /\ UNCHANGED <<keys, since, cache, used>>
      /\ calls' = [c \in Calls |-> IF Waiting(c, "travel")
                                   THEN [calls[c] EXCEPT !.left = @ - 1] ELSE calls[c]]
      /\ \A c \in Calls : Waiting(c, "travel") => calls[c].left > 0
  BY DEF Second
<1>2. now \in Nat /\ keys \in Nat /\ \A i \in 1 .. keys : since[i] \in Nat
  BY DEF AuthInv
<1>3. ASSUME NEW c \in Calls PROVE ResponseOK(c)' /\ RequestOK(c)'
  <2>1. CASE Waiting(c, "travel")
    <3> DEFINE k == calls[c].keys
               l == calls[c].left
    <3>1. /\ calls[c] \in [step : {"travel"}, signer : Nat, project : Projects,
                           keys : 0 .. keys, left : 0 .. Travel]
          /\ k < keys => now + l <= since[k + 1] + Travel
          /\ l > 0
      BY <1>1, <2>1 DEF AuthInv, ResponseOK
    <3>2. k \in 0 .. keys /\ l \in Nat /\ l <= Travel /\ l - 1 \in 0 .. Travel
      BY <3>1, AuthAssumption
    <3>3. calls'[c] = [calls[c] EXCEPT !.left = l - 1]
      BY <1>1, <2>1
    <3>4. /\ calls'[c] \in [step : {"travel"}, signer : Nat, project : Projects,
                            keys : 0 .. keys, left : 0 .. Travel]
          /\ calls'[c].keys = k /\ calls'[c].left = l - 1 /\ calls'[c].step = "travel"
      BY <3>1, <3>2, <3>3
    <3>5. k < keys => now' + (l - 1) <= since[k + 1] + Travel
      <4>1. k < keys => since[k + 1] \in Nat
        <5>1. k < keys => k + 1 \in 1 .. keys
          BY <1>2, <3>2
        <5> QED
          BY <1>2, <5>1
      <4> HIDE DEF k, l
      <4> QED
        BY <1>1, <1>2, <3>1, <3>2, <4>1, AuthAssumption
    <3> QED
      BY <1>1, <3>4, <3>5 DEF ResponseOK, RequestOK, Waiting
  <2>2. CASE ~Waiting(c, "travel")
    BY <1>1, <2>2 DEF AuthInv, ResponseOK, RequestOK, Waiting
  <2> QED
    BY <2>1, <2>2
<1>4. \A i \in 1 .. keys : since[i] <= now'
  BY <1>1, <1>2 DEF AuthInv
<1>5. UsedOK' /\ RetiredKeysUnused'
  BY <1>1, <1>2 DEF AuthInv, UsedOK, CachedKeys, RetiredKeysUnused, Nothing
<1>6. CacheOK' /\ (cache # Nothing => cache.at <= now)'
  BY <1>1, <1>2 DEF AuthInv, CacheOK, CachedKeys, Nothing
<1> QED
  BY <1>1, <1>2, <1>3, <1>4, <1>5, <1>6 DEF AuthInv

LEMMA AuthInvStep == AuthInv /\ [AuthNext]_avars => AuthInv'
<1> SUFFICES ASSUME AuthInv, [AuthNext]_avars PROVE AuthInv'
  OBVIOUS
<1>1. ASSUME NEW c \in Calls, AuthenticateBearer(c) \/ FetchFails(c) \/ Again(c)
      PROVE  AuthInv'
  <2>1. \E r : /\ calls' = [calls EXCEPT ![c] = r]
               /\ r.step \notin {"travel", "fetch"}
               /\ UNCHANGED <<now, keys, since, cache, used>>
    BY <1>1 DEF AuthenticateBearer, FetchFails, Again
  <2> QED
    BY <2>1, CallEndsInv
<1>2. CASE UNCHANGED avars
  BY <1>2 DEF avars, AuthInv, ResponseOK, RequestOK, CacheOK, UsedOK, CachedKeys,
     RetiredKeysUnused, Waiting
<1> QED
  BY <1>1, <1>2, UseCacheInv, FetchInv, ProvideInv, ArrivedInv, RotateInv, SecondInv
     DEF AuthNext

\* Replaced keys stop counting: no token is checked against them once a
\* response under way at the time and the cache's time to live are over,
\* however many requests fetch at once and in whatever order they are answered.
THEOREM RetiredKeysStopCounting == AuthSpec => []RetiredKeysUnused
<1>1. AuthInit => AuthInv
  BY AuthAssumption, EmptySeq DEF AuthInit, AuthInv, ResponseOK, RequestOK, CacheOK, UsedOK,
     RetiredKeysUnused, Waiting
<1>2. AuthInv => RetiredKeysUnused
  BY DEF AuthInv
<1> QED
  BY <1>1, <1>2, AuthInvStep, PTL DEF AuthSpec

-----------------------------------------------------------------------------
(* The two doors: what a subscription can be.                              *)

\* A subscription as the broker keeps it.
Stored == SpecWith(MinAckDeadline .. MaxAckDeadline)

BrokerOK(b) ==
  /\ b = [kind \in {"topic", "sub", "snap", "schema", "iam"} |-> b[kind]]
  /\ b.sub \in Stored \cup {Absent}

\* Numbers, as the doors read them.
LEMMA OrInt ==
  ASSUME NEW x \in Optional(Int), NEW n \in Int
  PROVE  Or(x, n) \in Int
BY DEF Or, NoValue, Optional

LEMMA Casts ==
  /\ \A x \in Int : AsU32(x) \in 0 .. MaxU32
  /\ \A x \in 0 .. MaxU32 : AsU32(x) = x
  /\ \A x \in Optional(Int), n \in Nat : AsU64(x, n) \in Nat
  /\ \A x \in Optional(Int) : RestSeconds(x) \in 0 .. MaxU32 /\ GrpcSeconds(x) \in 0 .. MaxU32
<1>1. MaxU32 \in Nat
  BY PolicyAssumption
<1>2. \A x \in Int : AsU32(x) \in 0 .. MaxU32
  BY <1>1 DEF AsU32
<1>3. \A x \in 0 .. MaxU32 : AsU32(x) = x
  BY <1>1 DEF AsU32
<1>4. \A x \in Optional(Int), n \in Nat : AsU64(x, n) \in Nat
  BY DEF AsU64, NoValue, Optional
<1>5. ASSUME NEW x \in Optional(Int)
      PROVE  RestSeconds(x) \in 0 .. MaxU32 /\ GrpcSeconds(x) \in 0 .. MaxU32
  <2>1. Or(x, 0) \in Int
    BY OrInt
  <2>2. AtLeast(0, Or(x, 0)) \in Int
    BY <2>1 DEF AtLeast
  <2> QED
    BY <1>1, <1>2, <2>1, <2>2 DEF RestSeconds, GrpcSeconds, Clamp
<1> QED
  BY <1>2, <1>3, <1>4, <1>5

LEMMA PushTypes ==
  ASSUME NEW push \in Optional(PushBody)
  PROVE  /\ GrpcPush(push) = ParsePushConfig(push)
         /\ ParsePushConfig(push) \in StoredPush
<1>1. "" \in Texts
  BY DoorAssumption
<1>2. CASE NoValue(push)
  BY <1>1, <1>2 DEF GrpcPush, ParsePushConfig, StoredPush
<1>3. CASE ~NoValue(push)
  <2>1. push.endpoint \in Optional(Texts) /\ push.attributes \in Optional(Texts)
    BY <1>3 DEF Optional, PushBody, NoValue
  <2>2. Or(push.attributes, "") \in Texts
    BY <1>1, <2>1 DEF Or, NoValue, Optional
  <2>3. Or(push.endpoint, "") # "" => push.endpoint \in Texts \ {""}
    BY <2>1 DEF Or, NoValue, Optional
  <2> QED
    BY <1>3, <2>2, <2>3 DEF GrpcPush, ParsePushConfig, StoredPush
<1> QED
  BY <1>2, <1>3

LEMMA OrTexts ==
  /\ \A x \in Optional(Texts) : Or(x, "") \in Texts
  /\ \A x \in Optional(BOOLEAN) : Or(x, FALSE) \in BOOLEAN
BY DoorAssumption DEF Or, NoValue, Optional

LEMMA NotAbsent == \A S \in Stored : S # Absent
<1>1. Absent \notin SpecWith(Nat)
  BY DoorAssumption
<1>2. Stored \subseteq SpecWith(Nat)
  BY PolicyAssumption DEF Stored, SpecWith
<1> QED
  BY <1>1, <1>2

LEMMA SpecRecord ==
  ASSUME NEW D, NEW topic \in Texts, NEW deadline \in D, NEW ordering \in BOOLEAN,
         NEW exactlyOnce \in BOOLEAN, NEW dead \in StoredDead, NEW retry \in StoredRetry,
         NEW push \in StoredPush, NEW filter \in Texts
  PROVE  [topic |-> topic, deadline |-> deadline, ordering |-> ordering,
          exactlyOnce |-> exactlyOnce, dead |-> dead, retry |-> retry, push |-> push,
          filter |-> filter] \in SpecWith(D)
BY DEF SpecWith

LEMMA GrpcSpecType ==
  ASSUME NEW body \in SubscriptionBody, body.topic \in Texts,
         ~NoValue(body.dead) => WithinI32(body.dead.tries)
  PROVE  SubscriptionFromProto(body) \in SpecWith(Nat)
<1>1. MaxI32 \in Nat /\ MaxI32 <= MaxU32 /\ MaxU32 \in Nat /\ 5 <= MaxU32
  <2>1. MinAckDeadline = 10 /\ MaxAckDeadline <= MaxI32 /\ MaxI32 \in Nat /\ MaxI32 <= MaxU32
    BY DoorAssumption
  <2> QED
    BY <2>1, PolicyAssumption
<1>2. GrpcDeadline(body.deadline) \in Nat
  <2>0. Or(body.deadline, 0) \in Int
    BY OrInt DEF SubscriptionBody
  <2>1. Or(body.deadline, 0) > 0 => body.deadline = Or(body.deadline, 0)
    BY DEF Or
  <2> QED
    BY <1>1, <2>0, <2>1 DEF GrpcDeadline
<1>3. Or(body.ordering, FALSE) \in BOOLEAN /\ Or(body.exactlyOnce, FALSE) \in BOOLEAN
      /\ Or(body.filter, "") \in Texts
  BY OrTexts DEF SubscriptionBody
<1>4. ASSUME ~NoValue(body.dead)
      PROVE  /\ Or(body.dead.topic, "") \in Texts
             /\ AtLeast(5, Or(body.dead.tries, 0)) \in 0 .. MaxU32
  <2>1. body.dead.topic \in Optional(Texts)
    BY <1>4 DEF SubscriptionBody, Optional, NoValue
  <2>2. Or(body.dead.tries, 0) \in Int /\ Or(body.dead.tries, 0) <= MaxI32
    BY <1>4, OrInt DEF SubscriptionBody, Optional, NoValue, WithinI32
  <2>3. \A n \in Int : n <= MaxI32 => AtLeast(5, n) \in 0 .. MaxU32
    BY <1>1 DEF AtLeast
  <2> QED
    BY <1>4, <2>1, <2>2, <2>3, OrTexts
<1>5. ASSUME ~NoValue(body.retry)
      PROVE  [min |-> GrpcSeconds(body.retry.min), max |-> GrpcSeconds(body.retry.max)]
               \in RetryPolicy
  <2>1. body.retry.min \in Optional(Int) /\ body.retry.max \in Optional(Int)
    BY <1>5 DEF SubscriptionBody, Optional, NoValue
  <2> QED
    BY <2>1, Casts DEF RetryPolicy, U32
<1>6. GrpcPush(body.push) \in StoredPush
  BY PushTypes DEF SubscriptionBody
<1> DEFINE dead == IF NoValue(body.dead) THEN NoDead
                   ELSE [topic |-> Or(body.dead.topic, ""),
                         tries |-> AtLeast(5, Or(body.dead.tries, 0))]
           retry == IF NoValue(body.retry) THEN NoRetry
                    ELSE [min |-> GrpcSeconds(body.retry.min), max |-> GrpcSeconds(body.retry.max)]
<1>7. dead \in StoredDead /\ retry \in StoredRetry
  BY <1>4, <1>5 DEF StoredDead, StoredRetry
<1> DEFINE spec == [topic |-> body.topic, deadline |-> GrpcDeadline(body.deadline),
                   ordering |-> Or(body.ordering, FALSE),
                   exactlyOnce |-> Or(body.exactlyOnce, FALSE),
                   dead |-> dead, retry |-> retry, push |-> GrpcPush(body.push),
                   filter |-> Or(body.filter, "")]
<1>8. SubscriptionFromProto(body) = spec
  BY DEF SubscriptionFromProto
<1>9. spec \in SpecWith(Nat)
  <2> HIDE DEF dead, retry
  <2>1. body.topic \in Texts
    OBVIOUS
  <2> QED
    BY <1>2, <1>3, <1>6, <1>7, <2>1, SpecRecord
<1> QED
  BY <1>8, <1>9

LEMMA RestSpecType ==
  ASSUME NEW body \in SubscriptionBody, body.topic \in Texts
  PROVE  SubscriptionSpecFromValue(body) \in SpecWith(Nat)
<1>1. AsU32(AsU64(body.deadline, 10)) \in Nat
  BY Casts, PolicyAssumption DEF SubscriptionBody
<1>3. Or(body.ordering, FALSE) \in BOOLEAN /\ Or(body.exactlyOnce, FALSE) \in BOOLEAN
      /\ Or(body.filter, "") \in Texts
  BY OrTexts DEF SubscriptionBody
<1>4. ParseDeadLetter(body.dead) \in StoredDead
  <2>1. CASE ~NoValue(body.dead) /\ ~NoValue(body.dead.topic)
    <3>1. body.dead.topic \in Texts /\ body.dead.tries \in Optional(Int)
      BY <2>1 DEF SubscriptionBody, Optional, NoValue
    <3>2. AsU32(AsU64(body.dead.tries, 5)) \in 0 .. MaxU32
      BY <3>1, Casts
    <3> QED
      BY <2>1, <3>1, <3>2 DEF ParseDeadLetter, StoredDead
  <2> QED
    BY <2>1 DEF ParseDeadLetter, StoredDead
<1>5. ParseRetry(body.retry) \in StoredRetry
  <2>1. CASE ~NoValue(body.retry)
    <3>1. body.retry.min \in Optional(Int) /\ body.retry.max \in Optional(Int)
      BY <2>1 DEF SubscriptionBody, Optional, NoValue
    <3> QED
      BY <2>1, <3>1, Casts DEF ParseRetry, StoredRetry, RetryPolicy, U32, NoValue
  <2>2. CASE NoValue(body.retry)
    BY <2>2, PolicyAssumption DEF ParseRetry, StoredRetry, RetryPolicy, U32, NoValue
  <2> QED
    BY <2>1, <2>2
<1>6. ParsePushConfig(body.push) \in StoredPush
  BY PushTypes DEF SubscriptionBody
<1> QED
  BY <1>1, <1>3, <1>4, <1>5, <1>6 DEF SubscriptionSpecFromValue, SpecWith

\* An update mask takes each of its fields from the incoming spec.
LEMMA MaskedSpec ==
  ASSUME NEW spec \in Stored, NEW incoming \in SpecWith(Nat), NEW mask
  PROVE  LET masked == ApplyMask(spec, incoming, mask, SubscriptionFields)
         IN  /\ masked \in SpecWith(Nat)
             /\ mask = {} =>
                  masked = [topic |-> spec.topic, deadline |-> incoming.deadline,
                            ordering |-> incoming.ordering, exactlyOnce |-> incoming.exactlyOnce,
                            dead |-> incoming.dead, retry |-> incoming.retry,
                            push |-> incoming.push, filter |-> spec.filter]
<1> DEFINE Of(field) == IF Masked(mask, field) THEN incoming[field] ELSE spec[field]
           masked == [topic |-> spec.topic, deadline |-> Of("deadline"),
                      ordering |-> Of("ordering"), exactlyOnce |-> Of("exactlyOnce"),
                      dead |-> Of("dead"), retry |-> Of("retry"), push |-> Of("push"),
                      filter |-> spec.filter]
<1>1. DOMAIN spec = {"topic", "deadline", "ordering", "exactlyOnce", "dead", "retry", "push",
                     "filter"}
  BY DEF Stored, SpecWith
<1>2. ApplyMask(spec, incoming, mask, SubscriptionFields) =
        [f \in DOMAIN spec |-> IF f \in SubscriptionFields THEN Of(f) ELSE spec[f]]
  BY DEF ApplyMask
<1>3. ApplyMask(spec, incoming, mask, SubscriptionFields) = masked
  <2> HIDE DEF Of
  <2> QED
    BY <1>1, <1>2 DEF SubscriptionFields
<1>4. /\ Of("deadline") \in Nat /\ Of("ordering") \in BOOLEAN /\ Of("exactlyOnce") \in BOOLEAN
      /\ Of("dead") \in StoredDead /\ Of("retry") \in StoredRetry /\ Of("push") \in StoredPush
      /\ spec.topic \in Texts /\ spec.filter \in Texts
  BY PolicyAssumption DEF Stored, SpecWith
<1>5. masked \in SpecWith(Nat)
  <2> HIDE DEF Of
  <2> QED
    BY <1>4 DEF SpecWith
<1>6. mask = {} => \A f : Of(f) = incoming[f]
  BY DEF Masked
<1> QED
  <2> HIDE DEF Of
  <2> QED
    BY <1>3, <1>5, <1>6

LEMMA NormalizedSpec ==
  ASSUME NEW spec \in SpecWith(Nat)
  PROVE  Normalized(spec) \in Stored /\ (spec \in Stored => Normalized(spec) = spec)
<1>0. MinAckDeadline \in Nat /\ MaxAckDeadline \in Nat /\ MinAckDeadline <= MaxAckDeadline
      /\ MinAckDeadline = 10
  BY PolicyAssumption, DoorAssumption
<1>1. \A d \in Nat : NormalizeAckDeadline(AtLeast(10, d)) \in MinAckDeadline .. MaxAckDeadline
  BY <1>0 DEF NormalizeAckDeadline, AtLeast, Clamp
<1>2. \A d \in MinAckDeadline .. MaxAckDeadline : NormalizeAckDeadline(AtLeast(10, d)) = d
  BY <1>0 DEF NormalizeAckDeadline, AtLeast, Clamp
<1> DEFINE deadline == NormalizeAckDeadline(AtLeast(10, spec.deadline))
<1>3. Normalized(spec) = [spec EXCEPT !.deadline = deadline]
  BY DEF Normalized
<1> HIDE DEF deadline
<1>4. [spec EXCEPT !.deadline = deadline] \in Stored
  BY <1>1 DEF deadline, Stored, SpecWith
<1> QED
  BY <1>2, <1>3, <1>4 DEF Stored, SpecWith, deadline

\* What a door makes of a request: the same operation or a refusal, with a spec
\* or a push config that can be stored.
CallOf(r, c) ==
  /\ c.op \in {r.op, "refused"}
  /\ c.op \in Specified => c.spec \in SpecWith(Nat)
  /\ c.op = "ModifyPushConfig" => c.push \in StoredPush

LEMMA RefusedCall == \A r : CallOf(r, Refused)
BY DEF CallOf, Refused, Specified

\* Operations whose calls say nothing of a subscription.
LEMMA OtherCall ==
  ASSUME NEW r, r.op \notin Specified \cup {"ModifyPushConfig"},
         NEW c, c.op \in {r.op, "refused"}
  PROVE  CallOf(r, c)
BY DEF CallOf, Specified

LEMMA GrpcSubscriptionCall ==
  ASSUME NEW r, Expressible(r), r.kind = "sub", InProtobuf(r)
  PROVE  CallOf(r, GrpcSubscriptions(r))
<1>1. r.op \in OpsOf.sub
  BY DEF Expressible, OpsOf
<1>2. CASE r.op \in Specified
  <2>1. CASE r.body = Absent \/ ~r.body.named \/ Or(r.body.topic, "") = ""
    BY <1>2, <2>1, RefusedCall DEF GrpcSubscriptions, Specified
  <2>2. CASE ~(r.body = Absent \/ ~r.body.named \/ Or(r.body.topic, "") = "")
    <3>1. r.body \in SubscriptionBody
      BY <1>2, <2>2 DEF Expressible
    <3>2. r.body.topic \in Texts
      BY <2>2, <3>1 DEF SubscriptionBody, Or, NoValue, Optional
    <3>3. ~NoValue(r.body.dead) => WithinI32(r.body.dead.tries)
      <4>1. MaxI32 \in Nat
        BY DoorAssumption
      <4>2. \A n \in Int32 : n <= MaxI32
        BY <4>1 DEF Int32
      <4> QED
        BY <1>2, <2>2, <4>2 DEF InProtobuf, WithinI32
    <3>4. SubscriptionFromProto(r.body) \in SpecWith(Nat)
      BY <3>1, <3>2, <3>3, GrpcSpecType
    <3>5. GrpcSubscriptions(r) =
            [op |-> r.op, spec |-> SubscriptionFromProto(r.body), mask |-> Or(r.mask, {})]
      BY <1>2, <2>2 DEF GrpcSubscriptions, Specified
    <3> QED
      BY <1>2, <3>4, <3>5 DEF CallOf, Specified
  <2> QED
    BY <2>1, <2>2
<1>3. CASE r.op = "ModifyPushConfig"
  <2>1. GrpcPush(r.push) \in StoredPush
    BY <1>3, PushTypes DEF Expressible
  <2> QED
    BY <1>3, <2>1 DEF GrpcSubscriptions, CallOf, Specified
<1>4. CASE r.op \in {"GetSubscription", "DeleteSubscription"}
  BY <1>4 DEF GrpcSubscriptions, CallOf, Specified
<1> QED
  BY <1>1, <1>2, <1>3, <1>4 DEF OpsOf, Specified

LEMMA RestSubscriptionCall ==
  ASSUME NEW r, Expressible(r), r.kind = "sub"
  PROVE  CallOf(r, RestSubscriptions(r))
<1>1. r.op \in OpsOf.sub
  BY DEF Expressible, OpsOf
<1>2. CASE r.op \in Specified
  <2>1. CASE r.body = Absent \/ NoValue(r.body.topic)
    BY <1>2, <2>1, RefusedCall DEF RestSubscriptions, Specified
  <2>2. CASE ~(r.body = Absent \/ NoValue(r.body.topic))
    <3>1. r.body \in SubscriptionBody
      BY <1>2, <2>2 DEF Expressible
    <3>2. r.body.topic \in Texts
      BY <2>2, <3>1 DEF SubscriptionBody, NoValue, Optional
    <3>3. SubscriptionSpecFromValue(r.body) \in SpecWith(Nat)
      BY <3>1, <3>2, RestSpecType
    <3>4. RestSubscriptions(r) =
            [op |-> r.op, spec |-> SubscriptionSpecFromValue(r.body), mask |-> ParseUpdateMask(r)]
      BY <1>2, <2>2 DEF RestSubscriptions, Specified
    <3> QED
      BY <1>2, <3>3, <3>4 DEF CallOf, Specified
  <2> QED
    BY <2>1, <2>2
<1>3. CASE r.op = "ModifyPushConfig"
  <2>1. ParsePushConfig(r.push) \in StoredPush
    BY <1>3, PushTypes DEF Expressible
  <2> QED
    BY <1>3, <2>1 DEF RestSubscriptions, CallOf, Specified
<1>4. CASE r.op \in {"GetSubscription", "DeleteSubscription"}
  BY <1>4 DEF RestSubscriptions, CallOf, Specified
<1> QED
  BY <1>1, <1>2, <1>3, <1>4 DEF OpsOf, Specified

LEMMA ConsoleCall ==
  ASSUME NEW r, Expressible(r), OnConsole(r)
  PROVE  CallOf(r, Console(r))
<1>1. CASE r.op = "ModifyPushConfig"
  <2> DEFINE push == ParsePushConfig(r.push)
             stored == IF push.endpoint = " " THEN [push EXCEPT !.endpoint = Absent] ELSE push
  <2>1. push \in StoredPush
    BY <1>1, PushTypes DEF Expressible
  <2>2. Console(r) = [op |-> r.op, push |-> stored]
    BY <1>1 DEF Console
  <2> HIDE DEF push
  <2>3. stored \in StoredPush
    BY <2>1 DEF StoredPush
  <2> HIDE DEF stored
  <2> QED
    BY <1>1, <2>2, <2>3 DEF CallOf, Specified
<1>2. CASE r.op # "ModifyPushConfig"
  <2>1. Console(r).op \in {r.op, "refused"}
    BY <1>2 DEF Console, OnConsole, Refused
  <2> QED
    BY <1>2, <2>1, OtherCall DEF OnConsole, Specified
<1> QED
  BY <1>1, <1>2

LEMMA OtherKinds ==
  ASSUME NEW r, Expressible(r), r.kind # "sub"
  PROVE  CallOf(r, Grpc(r)) /\ CallOf(r, Rest(r))
<1>1. r.kind \in DOMAIN OpsOf \ {"sub"} /\ r.op \in OpsOf[r.kind]
  BY DEF Expressible
<1>2. r.op \notin Specified \cup {"ModifyPushConfig"}
  BY <1>1 DEF OpsOf, Specified
<1>3. /\ r.kind = "topic" => GrpcTopics(r).op \in {r.op, "refused"}
                             /\ RestTopics(r).op \in {r.op, "refused"}
      /\ r.kind = "snap" => GrpcSnapshots(r).op \in {r.op, "refused"}
                            /\ RestSnapshots(r).op \in {r.op, "refused"}
      /\ r.kind = "schema" => GrpcSchemas(r).op \in {r.op, "refused"}
                              /\ RestSchemas(r).op \in {r.op, "refused"}
  BY <1>1 DEF OpsOf, GrpcTopics, RestTopics, GrpcSnapshots, RestSnapshots, GrpcSchemas,
              RestSchemas, Refused
<1>4. /\ r.kind = "iam" => GrpcIam(r).op \in {r.op, "refused"} /\ RestIam(r).op \in {r.op, "refused"}
      /\ GrpcPublish(r).op \in {r.op, "refused"} /\ RestPublish(r).op \in {r.op, "refused"}
      /\ GrpcPull(r).op = r.op /\ RestPull(r).op = r.op
      /\ GrpcAcks(r).op \in {r.op, "refused"} /\ RestAcks(r).op \in {r.op, "refused"}
  BY <1>1 DEF OpsOf, GrpcIam, RestIam, GrpcPublish, RestPublish, GrpcPull, RestPull,
              GrpcAcks, RestAcks, Refused
<1>5. GrpcSeek(r).op \in {r.op, "refused"} /\ RestSeek(r).op \in {r.op, "refused"}
  BY DEF GrpcSeek, RestSeek, Refused
<1>6. r.kind = "message" => GrpcValidateMessage(r).op \in {r.op, "refused"}
                            /\ RestValidateMessage(r).op \in {r.op, "refused"}
  BY <1>1 DEF Expressible, OpsOf, GrpcValidateMessage, RestValidateMessage, Refused
<1>7. Grpc(r).op \in {r.op, "refused"} /\ Rest(r).op \in {r.op, "refused"}
  BY <1>1, <1>3, <1>4, <1>5, <1>6, ZenonT(60) DEF OpsOf, Grpc, Rest
<1> QED
  BY <1>2, <1>7, OtherCall

LEMMA AskedCall ==
  ASSUME NEW r, Expressible(r), NEW door \in Doors(r)
  PROVE  CallOf(r, Asked(door, r))
<1>1. CASE door = "grpc"
  <2>1. InProtobuf(r)
    BY <1>1 DEF Doors
  <2>2. CallOf(r, Grpc(r))
    BY <2>1, OtherKinds, GrpcSubscriptionCall DEF Grpc
  <2> QED
    BY <1>1, <2>2 DEF Asked
<1>2. CASE door = "rest"
  <2>1. CallOf(r, Rest(r))
    BY OtherKinds, RestSubscriptionCall DEF Rest
  <2> QED
    BY <1>2, <2>1 DEF Asked
<1>3. CASE door = "console"
  BY <1>3, ConsoleCall DEF Asked, Doors
<1> QED
  BY <1>1, <1>2, <1>3 DEF Doors

-----------------------------------------------------------------------------
(* The broker's subscription stays one that can be stored.                 *)

Kinds == {"topic", "sub", "snap", "schema", "iam"}

LEMMA InsertKeeps ==
  ASSUME NEW b, BrokerOK(b), NEW kind \in Kinds, NEW spec,
         kind = "sub" => spec \in Stored \cup {Absent}
  PROVE  BrokerOK([b EXCEPT ![kind] = spec])
BY DEF BrokerOK, Kinds

\* CreateSubscription, UpdateSubscription and ModifyPushConfig.
LEMMA SubscriptionCallKeeps ==
  ASSUME NEW b, BrokerOK(b), NEW c
  PROVE  /\ c.spec \in SpecWith(Nat) =>
              BrokerOK(CreateSubscription(b, c).broker) /\ BrokerOK(UpdateSubscription(b, c).broker)
         /\ c.push \in StoredPush => BrokerOK(ModifyPushConfig(b, c).broker)
<1>1. ASSUME c.spec \in SpecWith(Nat)
      PROVE  BrokerOK(CreateSubscription(b, c).broker)
  <2>1. BrokerOK([b EXCEPT !["sub"] = Normalized(c.spec)])
    BY <1>1, NormalizedSpec, InsertKeeps DEF Kinds
  <2> QED
    BY <2>1 DEF CreateSubscription, Insert, Ok, Error
<1>2. ASSUME c.spec \in SpecWith(Nat)
      PROVE  BrokerOK(UpdateSubscription(b, c).broker)
  <2> DEFINE masked == ApplyMask(b.sub, c.spec, c.mask, SubscriptionFields)
  <2>1. CASE b.sub = Absent
    BY <2>1 DEF UpdateSubscription, Error
  <2>2. CASE b.sub # Absent
    <3>1. masked \in SpecWith(Nat)
      BY <1>2, <2>2, MaskedSpec DEF BrokerOK
    <3> HIDE DEF masked
    <3>2. BrokerOK([b EXCEPT !["sub"] = Normalized(masked)])
      BY <3>1, NormalizedSpec, InsertKeeps DEF Kinds
    <3> QED
      BY <2>2, <3>2 DEF UpdateSubscription, Insert, Ok, Error, masked
  <2> QED
    BY <2>1, <2>2
<1>3. ASSUME c.push \in StoredPush
      PROVE  BrokerOK(ModifyPushConfig(b, c).broker)
  <2>1. CASE b.sub = Absent
    BY <2>1 DEF ModifyPushConfig, Error
  <2>2. CASE b.sub # Absent
    <3>1. [b.sub EXCEPT !.push = c.push] \in Stored
      BY <1>3, <2>2 DEF BrokerOK, Stored, SpecWith
    <3>2. [b EXCEPT !.sub.push = c.push] = [b EXCEPT !["sub"] = [b.sub EXCEPT !.push = c.push]]
      BY DEF BrokerOK
    <3> QED
      BY <2>2, <3>1, <3>2, InsertKeeps DEF ModifyPushConfig, Ok, Kinds
  <2> QED
    BY <2>1, <2>2
<1> QED
  BY <1>1, <1>2, <1>3

LEMMA CallKeeps ==
  ASSUME NEW b, BrokerOK(b), NEW r, NEW c, CallOf(r, c)
  PROVE  BrokerOK(Call(b, c).broker)
<1>1. CASE c.op \in Gets
  <2>1. Call(b, c) = Read(b, KindOf[c.op])
    BY <1>1 DEF Call, Gets, Deletes, Creates
  <2> QED
    BY <2>1 DEF Read, Ok, Error
<1>2. CASE c.op \in Deletes
  <2>1. KindOf[c.op] \in Kinds
    BY <1>2 DEF KindOf, Deletes, Kinds
  <2>2. BrokerOK([b EXCEPT ![KindOf[c.op]] = Absent])
    BY <2>1, InsertKeeps
  <2>3. c.op \notin Gets
    BY <1>2 DEF Gets, Deletes
  <2>4. Call(b, c) = Take(b, KindOf[c.op])
    BY <1>2, <2>3 DEF Call, Gets, Deletes, Creates
  <2> QED
    BY <2>2, <2>4 DEF Take, Ok, Error
<1>3. CASE c.op \in {"CreateTopic", "CreateSnapshot", "CreateSchema"}
  <2>1. \A spec : /\ BrokerOK([b EXCEPT !["topic"] = spec])
                  /\ BrokerOK([b EXCEPT !["snap"] = spec])
                  /\ BrokerOK([b EXCEPT !["schema"] = spec])
    BY InsertKeeps DEF Kinds
  <2>2. c.op \notin Gets \cup Deletes /\ c.op \in Creates
    BY <1>3 DEF Gets, Deletes, Creates
  <2>3. Call(b, c) = CreateResource(b, c)
    BY <2>2 DEF Call, Gets, Deletes, Creates
  <2>4. BrokerOK(CreateResource(b, c).broker)
    <3>1. CASE c.op = "CreateTopic"
      <4>1. CreateResource(b, c).broker \in {b, [b EXCEPT !["topic"] = c.spec]}
        BY <3>1 DEF CreateResource, Insert, Ok, Error
      <4> QED
        BY <2>1, <4>1
    <3>2. CASE c.op = "CreateSnapshot"
      <4>1. CreateResource(b, c).broker \in
              {b, [b EXCEPT !["snap"] = [topic |-> b.sub.topic, labels |-> c.labels]]}
        BY <3>2 DEF CreateResource, CreateSnapshot, Insert, Ok, Error
      <4> QED
        BY <2>1, <4>1
    <3>3. CASE c.op = "CreateSchema"
      <4>1. CreateResource(b, c).broker \in {b, [b EXCEPT !["schema"] = c.spec]}
        BY <3>3 DEF CreateResource, Insert, Ok, Error
      <4> QED
        BY <2>1, <4>1
    <3> QED
      BY <1>3, <3>1, <3>2, <3>3
  <2> QED
    BY <2>3, <2>4
<1>4. CASE c.op = "CreateSubscription"
  <2>1. Call(b, c) = CreateSubscription(b, c)
    BY <1>4 DEF Call, Gets, Deletes, Creates, CreateResource
  <2> QED
    BY <1>4, <2>1, SubscriptionCallKeeps DEF CallOf, Specified
<1>5. CASE c.op \in {"UpdateTopic", "UpdateSnapshot", "SetIamPolicy"}
  <2>1. \A spec : /\ BrokerOK([b EXCEPT !["topic"] = spec])
                  /\ BrokerOK([b EXCEPT !["snap"] = spec])
                  /\ BrokerOK([b EXCEPT !["iam"] = spec])
    BY InsertKeeps DEF Kinds
  <2>2. c.op \notin Gets \cup Deletes \cup Creates
    BY <1>5 DEF Gets, Deletes, Creates
  <2>3. Call(b, c) \in {UpdateTopic(b, c), UpdateSnapshot(b, c), SetIamPolicy(b, c)}
    BY <1>5, <2>2 DEF Call
  <2>4. /\ BrokerOK(UpdateTopic(b, c).broker) /\ BrokerOK(UpdateSnapshot(b, c).broker)
        /\ BrokerOK(SetIamPolicy(b, c).broker)
    BY <2>1 DEF UpdateTopic, UpdateSnapshot, SetIamPolicy, Insert, Ok, Error
  <2> QED
    BY <2>3, <2>4
<1>6. CASE c.op = "UpdateSubscription"
  <2>1. Call(b, c) = UpdateSubscription(b, c)
    BY <1>6 DEF Call, Gets, Deletes, Creates
  <2> QED
    BY <1>6, <2>1, SubscriptionCallKeeps DEF CallOf, Specified
<1>7. CASE c.op = "ModifyPushConfig"
  <2>1. Call(b, c) = ModifyPushConfig(b, c)
    BY <1>7 DEF Call, Gets, Deletes, Creates
  <2> QED
    BY <1>7, <2>1, SubscriptionCallKeeps DEF CallOf
<1>8. CASE c.op \notin Gets \cup Deletes \cup Creates
                       \cup {"UpdateTopic", "UpdateSnapshot", "SetIamPolicy",
                             "UpdateSubscription", "ModifyPushConfig"}
  <2>1. Call(b, c).broker = b
    BY <1>8 DEF Call, Ok, Error, Judged, ValidateMessage
  <2> QED
    BY <2>1
<1> QED
  BY <1>1, <1>2, <1>3, <1>4, <1>5, <1>6, <1>7, <1>8 DEF Creates

DoorInv == BrokerOK(broker)

LEMMA DoorInvAlways == DoorsSpec => []DoorInv
<1>1. DoorInit => DoorInv
  BY DEF DoorInit, DoorInv, BrokerOK
<1>2. DoorInv /\ [DoorNext(DOMAIN OpsOf)]_broker => DoorInv'
  <2> SUFFICES ASSUME DoorInv, [DoorNext(DOMAIN OpsOf)]_broker
               PROVE  DoorInv'
    OBVIOUS
  <2>1. CASE UNCHANGED broker
    BY <2>1 DEF DoorInv
  <2>2. CASE DoorNext(DOMAIN OpsOf)
    <3>1. PICK r \in Requests : \E door \in Doors(r) : Serve(door, r)
      BY <2>2 DEF DoorNext
    <3>2. PICK door \in Doors(r) : Serve(door, r)
      BY <3>1
    <3>3. CallOf(r, Asked(door, r))
      BY DoorAssumption, AskedCall
    <3>4. BrokerOK(Call(broker, Asked(door, r)).broker)
      BY <3>3, CallKeeps DEF DoorInv
    <3> QED
      BY <3>2, <3>4 DEF Serve, Served, DoorInv
  <2> QED
    BY <2>1, <2>2
<1> QED
  BY <1>1, <1>2, PTL DEF DoorsSpec

-----------------------------------------------------------------------------
(* Writing back what a door showed.                                        *)

LEMMA SpecFields ==
  ASSUME NEW D, NEW spec \in SpecWith(D)
  PROVE  /\ spec.topic \in Texts /\ spec.deadline \in D /\ spec.ordering \in BOOLEAN
         /\ spec.exactlyOnce \in BOOLEAN /\ spec.dead \in StoredDead
         /\ spec.retry \in StoredRetry /\ spec.push \in StoredPush /\ spec.filter \in Texts
         /\ spec = [topic |-> spec.topic, deadline |-> spec.deadline,
                    ordering |-> spec.ordering, exactlyOnce |-> spec.exactlyOnce,
                    dead |-> spec.dead, retry |-> spec.retry, push |-> spec.push,
                    filter |-> spec.filter]
BY DEF SpecWith

\* A value is there.
LEMMA Given ==
  /\ \A x \in Texts \cup Int \cup BOOLEAN \cup RetryPolicy : ~NoValue(x)
  /\ \A x \in [topic : Texts, tries : Int] : ~NoValue(x) /\ x # NoDead
  /\ \A x \in [endpoint : Texts, attributes : Texts] : ~NoValue(x)
BY DoorAssumption DEF NoValue, Missing

LEMMA JsonPush ==
  ASSUME NEW push \in StoredPush
  PROVE  ParsePushConfig([push EXCEPT !.endpoint = Or(@, "")]) = push
<1> DEFINE endpoint == Or(push.endpoint, "")
           shown == [push EXCEPT !.endpoint = endpoint]
<1>1. push.endpoint \in (Texts \ {""}) \cup {Absent} /\ push.attributes \in Texts
  BY DEF StoredPush
<1>2. endpoint = IF push.endpoint = Absent THEN "" ELSE push.endpoint
  BY <1>1, Given DEF Or, NoValue
<1>3. "" \in Texts
  BY DoorAssumption
<1>4. endpoint \in Texts /\ ~NoValue(endpoint) /\ (endpoint = "" <=> push.endpoint = Absent)
  BY <1>1, <1>2, <1>3, Given, DoorAssumption DEF Missing
<1> HIDE DEF endpoint
<1>5. /\ shown \in [endpoint : Texts, attributes : Texts]
      /\ shown.endpoint = endpoint /\ shown.attributes = push.attributes
  BY <1>1, <1>4 DEF StoredPush
<1>6. ~NoValue(shown)
  BY <1>5, Given
<1> HIDE DEF shown
<1>7. ParsePushConfig(shown) =
        [endpoint |-> IF endpoint = "" THEN Absent ELSE endpoint,
         attributes |-> push.attributes]
  BY <1>1, <1>4, <1>5, <1>6, Given DEF ParsePushConfig, Or
<1>8. ParsePushConfig(shown) = [endpoint |-> push.endpoint, attributes |-> push.attributes]
  BY <1>2, <1>4, <1>7
<1>9. push = [endpoint |-> push.endpoint, attributes |-> push.attributes]
  BY DEF StoredPush
<1> QED
  BY <1>8, <1>9 DEF shown, endpoint

LEMMA StoredNumbers ==
  /\ \A d \in MinAckDeadline .. MaxAckDeadline :
       /\ AsU32(AsU64(d, 10)) = d /\ AsI32(d) = d /\ GrpcDeadline(d) = d
       /\ d \in Int32
  /\ \A t \in 0 .. MaxU32 : AsU32(AsU64(t, 5)) = t
  /\ \A t \in 0 .. MaxI32 :
       /\ AsI32(t) = t /\ t \in 0 .. MaxU32
       /\ AtLeast(5, t) \in 0 .. MaxU32
       /\ Clamp(AtLeast(5, t), MinTries, MaxTries) = Clamp(t, MinTries, MaxTries)
  /\ \A s \in U32 : RestSeconds(s) = s /\ GrpcSeconds(s) = s
<1>1. /\ MaxI32 \in Nat /\ MaxI32 <= MaxU32 /\ MaxAckDeadline <= MaxI32
      /\ MinAckDeadline = 10 /\ MinTries = 5
      /\ MaxAckDeadline \in Nat /\ MinAckDeadline <= MaxAckDeadline /\ MaxU32 \in Nat
      /\ MaxTries \in Nat /\ MinTries <= MaxTries
  BY DoorAssumption, PolicyAssumption
<1>2. \A x \in Int : ~NoValue(x)
  BY Given
<1>3. \A x \in Int : \A n : Or(x, n) = x /\ AsU64(x, n) = IF x < 0 THEN n ELSE x
  BY <1>2 DEF Or, AsU64
<1>4. \A x \in 0 .. MaxU32 : AsU32(x) = x
  BY Casts
<1>5. ASSUME NEW d \in MinAckDeadline .. MaxAckDeadline
      PROVE  /\ AsU32(AsU64(d, 10)) = d /\ AsI32(d) = d /\ GrpcDeadline(d) = d /\ d \in Int32
  <2>1. d \in 0 .. MaxU32 /\ d \in Int /\ d > 0 /\ d <= MaxI32
    BY <1>1
  <2>2. AsU64(d, 10) = d /\ Or(d, 0) = d
    BY <1>3, <2>1
  <2> QED
    BY <1>1, <1>4, <2>1, <2>2 DEF AsI32, GrpcDeadline, Int32
<1>6. ASSUME NEW t \in 0 .. MaxU32 PROVE AsU32(AsU64(t, 5)) = t
  BY <1>1, <1>3, <1>4
<1>7. ASSUME NEW t \in 0 .. MaxI32
      PROVE  /\ AsI32(t) = t /\ t \in 0 .. MaxU32
             /\ AtLeast(5, t) \in 0 .. MaxU32
             /\ Clamp(AtLeast(5, t), MinTries, MaxTries) = Clamp(t, MinTries, MaxTries)
  BY <1>1 DEF AsI32, AtLeast, Clamp
<1>8. ASSUME NEW s \in U32 PROVE RestSeconds(s) = s /\ GrpcSeconds(s) = s
  <2>1. s \in 0 .. MaxU32 /\ s \in Int /\ Or(s, 0) = s
    BY <1>1, <1>3 DEF U32
  <2>2. AtLeast(0, s) = s /\ Clamp(s, 0, MaxU32) = s
    BY <1>1, <2>1 DEF AtLeast, Clamp
  <2> QED
    BY <1>4, <2>1, <2>2 DEF RestSeconds, GrpcSeconds
<1> QED
  BY <1>5, <1>6, <1>7, <1>8

\* REST reads what it showed, but for a missing retry policy.
LEMMA RestReadsShown ==
  ASSUME NEW S \in Stored
  PROVE  LET read == SubscriptionSpecFromValue(SubscriptionJson(S))
         IN  /\ read \in SpecWith(Nat)
             /\ read.deadline = S.deadline /\ read.ordering = S.ordering
             /\ read.exactlyOnce = S.exactlyOnce /\ read.dead = S.dead
             /\ read.push = S.push
             /\ S.retry # NoRetry => read.retry = S.retry
<1> DEFINE shown == SubscriptionJson(S)
           read == SubscriptionSpecFromValue(shown)
<1>1. /\ S.topic \in Texts /\ S.deadline \in MinAckDeadline .. MaxAckDeadline
      /\ S.ordering \in BOOLEAN /\ S.exactlyOnce \in BOOLEAN /\ S.dead \in StoredDead
      /\ S.retry \in StoredRetry /\ S.push \in StoredPush /\ S.filter \in Texts
  BY SpecFields DEF Stored
<1>2. /\ shown.topic = S.topic /\ shown.deadline = S.deadline
      /\ shown.ordering = S.ordering /\ shown.exactlyOnce = S.exactlyOnce
      /\ shown.dead = (IF S.dead = NoDead THEN Null ELSE S.dead)
      /\ shown.retry = (IF S.retry = NoRetry THEN Null ELSE S.retry)
      /\ shown.push = [S.push EXCEPT !.endpoint = Or(@, "")]
      /\ shown.filter = S.filter
  BY DEF SubscriptionJson
<1>3. /\ read.topic = shown.topic /\ read.deadline = AsU32(AsU64(shown.deadline, 10))
      /\ read.ordering = Or(shown.ordering, FALSE)
      /\ read.exactlyOnce = Or(shown.exactlyOnce, FALSE)
      /\ read.dead = ParseDeadLetter(shown.dead) /\ read.retry = ParseRetry(shown.retry)
      /\ read.push = ParsePushConfig(shown.push) /\ read.filter = Or(shown.filter, "")
      /\ read = [topic |-> read.topic, deadline |-> read.deadline,
                 ordering |-> read.ordering, exactlyOnce |-> read.exactlyOnce,
                 dead |-> read.dead, retry |-> read.retry, push |-> read.push,
                 filter |-> read.filter]
  BY DEF SubscriptionSpecFromValue
<1> HIDE DEF shown, read
<1>4. read.deadline = S.deadline
  BY <1>1, <1>2, <1>3, StoredNumbers
<1>5. read.ordering = S.ordering /\ read.exactlyOnce = S.exactlyOnce /\ read.filter = S.filter
  BY <1>1, <1>2, <1>3, Given DEF Or
<1>6. read.dead = S.dead
  <2>1. CASE S.dead = NoDead
    BY <1>2, <1>3, <2>1 DEF ParseDeadLetter, NoValue
  <2>2. CASE S.dead # NoDead
    <3>1. S.dead \in [topic : Texts, tries : 0 .. MaxU32]
      BY <1>1, <2>2 DEF StoredDead
    <3>2. /\ S.dead \in [topic : Texts, tries : Int] /\ S.dead.topic \in Texts
          /\ S.dead.tries \in 0 .. MaxU32
          /\ S.dead = [topic |-> S.dead.topic, tries |-> S.dead.tries]
      BY <3>1
    <3>3. ~NoValue(S.dead) /\ ~NoValue(S.dead.topic)
      BY <3>2, Given
    <3>4. AsU32(AsU64(S.dead.tries, 5)) = S.dead.tries
      BY <3>2, StoredNumbers
    <3> QED
      BY <1>2, <1>3, <2>2, <3>2, <3>3, <3>4 DEF ParseDeadLetter
  <2> QED
    BY <2>1, <2>2
<1>7. read.retry \in StoredRetry /\ (S.retry # NoRetry => read.retry = S.retry)
  <2>1. CASE S.retry = NoRetry
    <3>1. read.retry = ParseRetry(Null)
      BY <1>2, <1>3, <2>1
    <3> QED
      BY <2>1, <3>1, PolicyAssumption DEF ParseRetry, StoredRetry, RetryPolicy, U32
  <2>2. CASE S.retry # NoRetry
    <3>1. S.retry \in RetryPolicy
      BY <1>1, <2>2 DEF StoredRetry
    <3>2. /\ S.retry.min \in U32 /\ S.retry.max \in U32
          /\ S.retry = [min |-> S.retry.min, max |-> S.retry.max]
      BY <3>1 DEF RetryPolicy
    <3>3. ~NoValue(S.retry)
      BY <3>1, Given
    <3>4. ParseRetry(S.retry) = [min |-> RestSeconds(S.retry.min), max |-> RestSeconds(S.retry.max)]
      BY <3>3 DEF ParseRetry, NoValue
    <3> QED
      BY <1>1, <1>2, <1>3, <2>2, <3>2, <3>4, StoredNumbers
  <2> QED
    BY <2>1, <2>2
<1>8. read.push = S.push
  BY <1>1, <1>2, <1>3, JsonPush
<1>9. read \in SpecWith(Nat)
  <2>1. S.deadline \in Nat
    BY <1>1, PolicyAssumption
  <2>2. /\ read.topic \in Texts /\ read.deadline \in Nat /\ read.ordering \in BOOLEAN
        /\ read.exactlyOnce \in BOOLEAN /\ read.dead \in StoredDead
        /\ read.retry \in StoredRetry /\ read.push \in StoredPush /\ read.filter \in Texts
    BY <1>1, <1>2, <1>3, <1>4, <1>5, <1>6, <1>7, <1>8, <2>1
  <2>3. [topic |-> read.topic, deadline |-> read.deadline,
         ordering |-> read.ordering, exactlyOnce |-> read.exactlyOnce,
         dead |-> read.dead, retry |-> read.retry, push |-> read.push,
         filter |-> read.filter] \in SpecWith(Nat)
    BY <2>2, SpecRecord
  <2> QED
    BY <1>3, <2>3
<1> QED
  BY <1>4, <1>5, <1>6, <1>7, <1>8, <1>9 DEF read, shown

\* A write without a mask keeps topic and filter, and takes the rest.
LEMMA Written ==
  ASSUME NEW b, BrokerOK(b), b.sub # Absent, NEW c,
         c.op = "UpdateSubscription", c.mask = {}, c.spec \in SpecWith(Nat)
  PROVE  Call(b, c).broker =
           [b EXCEPT !.sub = Normalized([topic |-> b.sub.topic, deadline |-> c.spec.deadline,
              ordering |-> c.spec.ordering, exactlyOnce |-> c.spec.exactlyOnce,
              dead |-> c.spec.dead, retry |-> c.spec.retry, push |-> c.spec.push,
              filter |-> b.sub.filter])]
<1>1. Call(b, c) = UpdateSubscription(b, c)
  BY DEF Call, Gets, Deletes, Creates
<1>2. b.sub \in Stored
  BY DEF BrokerOK
<1> DEFINE masked == ApplyMask(b.sub, c.spec, c.mask, SubscriptionFields)
<1>3. masked = [topic |-> b.sub.topic, deadline |-> c.spec.deadline,
              ordering |-> c.spec.ordering, exactlyOnce |-> c.spec.exactlyOnce,
              dead |-> c.spec.dead, retry |-> c.spec.retry, push |-> c.spec.push,
              filter |-> b.sub.filter]
  BY <1>2, MaskedSpec
<1>4. UpdateSubscription(b, c).broker = [b EXCEPT !.sub = Normalized(masked)]
  BY DEF UpdateSubscription, Insert, Ok
<1> HIDE DEF masked
<1> QED
  BY <1>1, <1>3, <1>4

LEMMA ProtoPush ==
  ASSUME NEW push \in StoredPush
  PROVE  GrpcPush(IF push.endpoint = Absent THEN Absent ELSE push) =
           (IF push.endpoint = Absent THEN [endpoint |-> Absent, attributes |-> ""] ELSE push)
<1>1. push.endpoint \in (Texts \ {""}) \cup {Absent} /\ push.attributes \in Texts
      /\ push = [endpoint |-> push.endpoint, attributes |-> push.attributes]
  BY DEF StoredPush
<1>2. CASE push.endpoint = Absent
  BY <1>2 DEF GrpcPush, NoValue
<1>3. CASE push.endpoint # Absent
  <2>1. push \in [endpoint : Texts, attributes : Texts]
    BY <1>1, <1>3
  <2>2. ~NoValue(push) /\ ~NoValue(push.endpoint) /\ ~NoValue(push.attributes)
    BY <1>1, <1>3, <2>1, Given
  <2>3. GrpcPush(push) = [endpoint |-> push.endpoint, attributes |-> push.attributes]
    BY <1>1, <1>3, <2>2 DEF GrpcPush, Or
  <2> QED
    BY <1>1, <1>3, <2>3
<1> QED
  BY <1>2, <1>3

\* gRPC reads what it showed, but for the push attributes without an endpoint and
\* a number of tries below 5.
LEMMA GrpcReadsShown ==
  ASSUME NEW S \in Stored, S.dead # NoDead => S.dead.tries <= MaxI32
  PROVE  LET read == SubscriptionFromProto(SubscriptionToProto(S))
         IN  /\ read \in SpecWith(Nat)
             /\ read.deadline = S.deadline /\ read.ordering = S.ordering
             /\ read.exactlyOnce = S.exactlyOnce /\ read.retry = S.retry
             /\ read.dead = (IF S.dead = NoDead THEN NoDead
                             ELSE [topic |-> S.dead.topic, tries |-> AtLeast(5, S.dead.tries)])
             /\ read.push = (IF S.push.endpoint = Absent
                             THEN [endpoint |-> Absent, attributes |-> ""] ELSE S.push)
<1> DEFINE shown == SubscriptionToProto(S)
           read == SubscriptionFromProto(shown)
           push == IF S.push.endpoint = Absent
                   THEN [endpoint |-> Absent, attributes |-> ""] ELSE S.push
           dead == IF S.dead = NoDead THEN NoDead
                   ELSE [topic |-> S.dead.topic, tries |-> AtLeast(5, S.dead.tries)]
<1>1. /\ S.topic \in Texts /\ S.deadline \in MinAckDeadline .. MaxAckDeadline
      /\ S.ordering \in BOOLEAN /\ S.exactlyOnce \in BOOLEAN /\ S.dead \in StoredDead
      /\ S.retry \in StoredRetry /\ S.push \in StoredPush /\ S.filter \in Texts
  BY SpecFields DEF Stored
<1>2. /\ shown.topic = S.topic /\ shown.deadline = AsI32(S.deadline)
      /\ shown.ordering = S.ordering /\ shown.exactlyOnce = S.exactlyOnce
      /\ shown.dead = (IF S.dead = NoDead THEN Absent ELSE [S.dead EXCEPT !.tries = AsI32(@)])
      /\ shown.retry = (IF S.retry = NoRetry THEN Absent ELSE S.retry)
      /\ shown.push = (IF S.push.endpoint = Absent THEN Absent ELSE S.push)
      /\ shown.filter = S.filter
  BY DEF SubscriptionToProto
<1>3. /\ read.topic = shown.topic /\ read.deadline = GrpcDeadline(shown.deadline)
      /\ read.ordering = Or(shown.ordering, FALSE)
      /\ read.exactlyOnce = Or(shown.exactlyOnce, FALSE)
      /\ read.dead = (IF NoValue(shown.dead) THEN NoDead
                      ELSE [topic |-> Or(shown.dead.topic, ""),
                            tries |-> AtLeast(5, Or(shown.dead.tries, 0))])
      /\ read.retry = (IF NoValue(shown.retry) THEN NoRetry
                       ELSE [min |-> GrpcSeconds(shown.retry.min),
                             max |-> GrpcSeconds(shown.retry.max)])
      /\ read.push = GrpcPush(shown.push) /\ read.filter = Or(shown.filter, "")
      /\ read = [topic |-> read.topic, deadline |-> read.deadline,
                 ordering |-> read.ordering, exactlyOnce |-> read.exactlyOnce,
                 dead |-> read.dead, retry |-> read.retry, push |-> read.push,
                 filter |-> read.filter]
  BY DEF SubscriptionFromProto
<1> HIDE DEF shown, read
<1>4. read.deadline = S.deadline
  <2>1. read.deadline = GrpcDeadline(AsI32(S.deadline))
    BY <1>2, <1>3
  <2>2. AsI32(S.deadline) = S.deadline /\ GrpcDeadline(S.deadline) = S.deadline
    BY <1>1, StoredNumbers
  <2> QED
    BY <2>1, <2>2
<1>5. read.ordering = S.ordering /\ read.exactlyOnce = S.exactlyOnce /\ read.filter = S.filter
  <2>1. /\ Or(S.ordering, FALSE) = S.ordering /\ Or(S.exactlyOnce, FALSE) = S.exactlyOnce
        /\ Or(S.filter, "") = S.filter
    BY <1>1, Given DEF Or
  <2>2. /\ shown.ordering = S.ordering /\ shown.exactlyOnce = S.exactlyOnce
        /\ shown.filter = S.filter
    BY <1>2
  <2>3. /\ read.ordering = Or(shown.ordering, FALSE)
        /\ read.exactlyOnce = Or(shown.exactlyOnce, FALSE)
        /\ read.filter = Or(shown.filter, "")
    BY <1>3
  <2> QED
    BY <2>1, <2>2, <2>3
<1>6. read.dead = dead /\ dead \in StoredDead
  <2>1. CASE S.dead = NoDead
    BY <1>2, <1>3, <2>1 DEF NoValue, StoredDead
  <2>2. CASE S.dead # NoDead
    <3>1. S.dead \in [topic : Texts, tries : 0 .. MaxU32]
      BY <1>1, <2>2 DEF StoredDead
    <3>0. MaxI32 \in Nat /\ MaxU32 \in Nat
      BY DoorAssumption, PolicyAssumption
    <3>2. /\ S.dead \in [topic : Texts, tries : Int] /\ S.dead.topic \in Texts
          /\ S.dead.tries \in 0 .. MaxI32 /\ S.dead.tries \in Int
          /\ S.dead = [topic |-> S.dead.topic, tries |-> S.dead.tries]
      BY <2>2, <3>0, <3>1
    <3>3. AsI32(S.dead.tries) = S.dead.tries /\ AtLeast(5, S.dead.tries) \in 0 .. MaxU32
      BY <3>2, StoredNumbers
    <3>4. [S.dead EXCEPT !.tries = AsI32(@)] = S.dead
      BY <3>1, <3>3
    <3>5. ~NoValue(S.dead) /\ ~NoValue(S.dead.topic) /\ ~NoValue(S.dead.tries)
      BY <3>2, Given
    <3>6. read.dead = dead
      BY <1>2, <1>3, <2>2, <3>4, <3>5 DEF Or
    <3> QED
      BY <2>2, <3>2, <3>3, <3>6 DEF StoredDead
  <2> QED
    BY <2>1, <2>2
<1>7. read.retry = S.retry
  <2>1. CASE S.retry = NoRetry
    BY <1>2, <1>3, <2>1 DEF NoValue
  <2>2. CASE S.retry # NoRetry
    <3>1. S.retry \in RetryPolicy
      BY <1>1, <2>2 DEF StoredRetry
    <3>2. /\ S.retry.min \in U32 /\ S.retry.max \in U32
          /\ S.retry = [min |-> S.retry.min, max |-> S.retry.max]
      BY <3>1 DEF RetryPolicy
    <3>3. ~NoValue(S.retry)
      BY <3>1, Given
    <3> QED
      BY <1>2, <1>3, <2>2, <3>2, <3>3, StoredNumbers
  <2> QED
    BY <2>1, <2>2
<1>8. read.push = push
  BY <1>1, <1>2, <1>3, ProtoPush
<1>9. push \in StoredPush
  BY <1>1, DoorAssumption DEF StoredPush
<1> HIDE DEF push, dead
<1>10. read \in SpecWith(Nat)
  <2>1. S.deadline \in Nat
    BY <1>1, PolicyAssumption
  <2>2. /\ read.topic \in Texts /\ read.deadline \in Nat /\ read.ordering \in BOOLEAN
        /\ read.exactlyOnce \in BOOLEAN /\ read.dead \in StoredDead
        /\ read.retry \in StoredRetry /\ read.push \in StoredPush /\ read.filter \in Texts
    BY <1>1, <1>2, <1>3, <1>4, <1>5, <1>6, <1>7, <1>8, <1>9, <2>1
  <2>3. [topic |-> read.topic, deadline |-> read.deadline,
         ordering |-> read.ordering, exactlyOnce |-> read.exactlyOnce,
         dead |-> read.dead, retry |-> read.retry, push |-> read.push,
         filter |-> read.filter] \in SpecWith(Nat)
    BY <2>2, SpecRecord
  <2> QED
    BY <1>3, <2>3
<1> QED
  BY <1>4, <1>5, <1>6, <1>7, <1>8, <1>10 DEF read, shown, push, dead

\* The request that writes a subscription back.
WriteOf(body) ==
  [kind |-> "sub", op |-> "UpdateSubscription", mask |-> Absent, query |-> Absent, body |-> body]

LEMMA BodyRecord ==
  ASSUME NEW topic \in Texts, NEW deadline \in Int, NEW ordering \in BOOLEAN,
         NEW exactlyOnce \in BOOLEAN,
         NEW dead \in Optional([topic : Optional(Texts), tries : Optional(Int)]),
         NEW retry \in Optional([min : Optional(Int), max : Optional(Int)]),
         NEW push \in Optional(PushBody), NEW filter \in Texts
  PROVE  LET body == [named |-> TRUE, topic |-> topic, deadline |-> deadline,
                      ordering |-> ordering, exactlyOnce |-> exactlyOnce, dead |-> dead,
                      retry |-> retry, push |-> push, filter |-> filter]
         IN  body \in SubscriptionBody /\ body # Absent
<1> DEFINE body == [named |-> TRUE, topic |-> topic, deadline |-> deadline,
                    ordering |-> ordering, exactlyOnce |-> exactlyOnce, dead |-> dead,
                    retry |-> retry, push |-> push, filter |-> filter]
<1>1. topic \in Optional(Texts) /\ deadline \in Optional(Int) /\ ordering \in Optional(BOOLEAN)
      /\ exactlyOnce \in Optional(BOOLEAN) /\ filter \in Optional(Texts) /\ TRUE \in BOOLEAN
  BY DEF Optional
<1>2. body \in SubscriptionBody
  BY <1>1 DEF SubscriptionBody
<1> HIDE DEF body
<1>3. body # Absent
  BY <1>2, DoorAssumption DEF Missing
<1> QED
  BY <1>2, <1>3 DEF body

LEMMA ShownBody ==
  ASSUME NEW S \in Stored
  PROVE  SubscriptionJson(S) # Absent
         /\ ((S.dead # NoDead => S.dead.tries <= MaxI32) => SubscriptionToProto(S) # Absent)
<1>1. /\ S.topic \in Texts /\ S.deadline \in MinAckDeadline .. MaxAckDeadline
      /\ S.ordering \in BOOLEAN /\ S.exactlyOnce \in BOOLEAN /\ S.dead \in StoredDead
      /\ S.retry \in StoredRetry /\ S.push \in StoredPush /\ S.filter \in Texts
  BY SpecFields DEF Stored
<1>2. S.deadline \in Int /\ AsI32(S.deadline) \in Int
  BY <1>1, PolicyAssumption, StoredNumbers
<1>3. ASSUME NEW x, x \in {Absent, Null}
      PROVE  /\ (IF S.dead = NoDead THEN x ELSE S.dead)
                  \in Optional([topic : Optional(Texts), tries : Optional(Int)])
             /\ (IF S.retry = NoRetry THEN x ELSE S.retry)
                  \in Optional([min : Optional(Int), max : Optional(Int)])
  <2>1. MaxU32 \in Nat
    BY PolicyAssumption
  <2>2. 0 .. MaxU32 \subseteq Optional(Int) /\ Texts \subseteq Optional(Texts)
    BY <2>1 DEF Optional
  <2>3. S.dead # NoDead => S.dead \in [topic : Optional(Texts), tries : Optional(Int)]
    BY <1>1, <2>2 DEF StoredDead
  <2>4. S.retry # NoRetry => S.retry \in [min : Optional(Int), max : Optional(Int)]
    BY <1>1, <2>2 DEF StoredRetry, RetryPolicy, U32
  <2> QED
    BY <1>3, <2>3, <2>4 DEF Optional
<1>4. /\ [S.push EXCEPT !.endpoint = Or(@, "")] \in Optional(PushBody)
      /\ (IF S.push.endpoint = Absent THEN Absent ELSE S.push) \in Optional(PushBody)
  <2>1. Or(S.push.endpoint, "") \in Optional(Texts)
    BY <1>1, DoorAssumption DEF Or, NoValue, Optional, StoredPush
  <2> QED
    BY <1>1, <2>1 DEF StoredPush, PushBody, Optional
<1>5. SubscriptionJson(S) # Absent
  <2> DEFINE dead == IF S.dead = NoDead THEN Null ELSE S.dead
             retry == IF S.retry = NoRetry THEN Null ELSE S.retry
             push == [S.push EXCEPT !.endpoint = Or(@, "")]
  <2>1. SubscriptionJson(S) =
          [named |-> TRUE, topic |-> S.topic, deadline |-> S.deadline,
           ordering |-> S.ordering, exactlyOnce |-> S.exactlyOnce, dead |-> dead,
           retry |-> retry, push |-> push, filter |-> S.filter]
    BY DEF SubscriptionJson
  <2>2. /\ dead \in Optional([topic : Optional(Texts), tries : Optional(Int)])
        /\ retry \in Optional([min : Optional(Int), max : Optional(Int)])
        /\ push \in Optional(PushBody)
    BY <1>3, <1>4
  <2> HIDE DEF dead, retry, push
  <2>3. [named |-> TRUE, topic |-> S.topic, deadline |-> S.deadline,
         ordering |-> S.ordering, exactlyOnce |-> S.exactlyOnce, dead |-> dead,
         retry |-> retry, push |-> push, filter |-> S.filter] # Absent
    BY <1>1, <1>2, <2>2, BodyRecord
  <2> QED
    BY <2>1, <2>3
<1>6. ASSUME S.dead # NoDead => S.dead.tries <= MaxI32
      PROVE  SubscriptionToProto(S) # Absent
  <2>1. ASSUME S.dead # NoDead PROVE [S.dead EXCEPT !.tries = AsI32(@)] = S.dead
    <3>1. S.dead \in [topic : Texts, tries : 0 .. MaxU32] /\ S.dead.tries <= MaxI32
      BY <1>1, <1>6, <2>1 DEF StoredDead
    <3>2. MaxI32 \in Nat /\ MaxU32 \in Nat
      BY DoorAssumption, PolicyAssumption
    <3>3. S.dead.tries \in 0 .. MaxI32
      BY <3>1, <3>2
    <3> QED
      BY <3>1, <3>3, StoredNumbers
  <2> DEFINE dead == IF S.dead = NoDead THEN Absent ELSE [S.dead EXCEPT !.tries = AsI32(@)]
             retry == IF S.retry = NoRetry THEN Absent ELSE S.retry
             push == IF S.push.endpoint = Absent THEN Absent ELSE S.push
  <2>2. SubscriptionToProto(S) =
          [named |-> TRUE, topic |-> S.topic, deadline |-> AsI32(S.deadline),
           ordering |-> S.ordering, exactlyOnce |-> S.exactlyOnce, dead |-> dead,
           retry |-> retry, push |-> push, filter |-> S.filter]
    BY DEF SubscriptionToProto
  <2>3. /\ dead \in Optional([topic : Optional(Texts), tries : Optional(Int)])
        /\ retry \in Optional([min : Optional(Int), max : Optional(Int)])
        /\ push \in Optional(PushBody)
    BY <1>3, <1>4, <2>1
  <2> HIDE DEF dead, retry, push
  <2> QED
    BY <1>1, <1>2, <2>2, <2>3, BodyRecord
<1> QED
  BY <1>5, <1>6

LEMMA RestWritesBack ==
  ASSUME NEW b, BrokerOK(b), b.sub # Absent, b.sub.retry # NoRetry
  PROVE  WriteBack("rest", b).broker.sub = b.sub
<1> DEFINE S == b.sub
           shown == SubscriptionJson(S)
           spec == SubscriptionSpecFromValue(shown)
           c == [op |-> "UpdateSubscription", spec |-> spec, mask |-> {}]
<1>1. S \in Stored
  BY DEF BrokerOK
<1>2. S.topic \in Texts /\ shown.topic = S.topic
  BY <1>1, SpecFields DEF Stored, SubscriptionJson
<1>3. shown # Absent /\ ~NoValue(shown.topic)
  BY <1>1, <1>2, ShownBody, Given
<1>4. /\ spec \in SpecWith(Nat)
      /\ spec.deadline = S.deadline /\ spec.ordering = S.ordering
      /\ spec.exactlyOnce = S.exactlyOnce /\ spec.dead = S.dead
      /\ spec.push = S.push /\ spec.retry = S.retry
  BY <1>1, RestReadsShown
<1> HIDE DEF shown
<1>5. RestSubscriptions(WriteOf(shown)) = [c EXCEPT !.mask = ParseUpdateMask(WriteOf(shown))]
  BY <1>3 DEF RestSubscriptions, WriteOf
<1>6. ParseUpdateMask(WriteOf(shown)) = {}
  BY DEF ParseUpdateMask, WriteOf, Or, NoValue
<1>7. Asked("rest", WriteOf(shown)) = c
  BY <1>5, <1>6 DEF Asked, Rest, WriteOf
<1>8. WriteBack("rest", b) = Call(b, c)
  BY <1>7 DEF WriteBack, Served, Shown, WriteOf, shown
<1> DEFINE written == [topic |-> S.topic, deadline |-> spec.deadline,
              ordering |-> spec.ordering, exactlyOnce |-> spec.exactlyOnce,
              dead |-> spec.dead, retry |-> spec.retry, push |-> spec.push,
              filter |-> S.filter]
<1> HIDE DEF spec
<1>9. Call(b, c).broker = [b EXCEPT !.sub = Normalized(written)]
  BY <1>4, Written
<1>10. written = S
  BY <1>1, <1>4, SpecFields DEF Stored
<1>11. Normalized(S) = S
  <2>1. S \in SpecWith(Nat)
    BY <1>1, PolicyAssumption DEF Stored, SpecWith
  <2> QED
    BY <1>1, <2>1, NormalizedSpec
<1> QED
  BY <1>8, <1>9, <1>10, <1>11 DEF BrokerOK

LEMMA GrpcWritesBack ==
  ASSUME NEW b, BrokerOK(b), b.sub # Absent,
         b.sub.dead # NoDead => b.sub.dead.tries <= MaxI32
  PROVE  EffectiveBroker(WriteBack("grpc", b).broker) = EffectiveBroker(b)
<1> DEFINE S == b.sub
           shown == SubscriptionToProto(S)
           spec == SubscriptionFromProto(shown)
           c == [op |-> "UpdateSubscription", spec |-> spec, mask |-> {}]
<1>1. S \in Stored
  BY DEF BrokerOK
<1>2. S.topic \in Texts /\ shown.topic = S.topic /\ shown.named = TRUE
  BY <1>1, SpecFields DEF Stored, SubscriptionToProto
<1>3. shown # Absent /\ Or(shown.topic, "") = S.topic
  BY <1>1, <1>2, ShownBody, Given DEF Or
<1>4. /\ spec \in SpecWith(Nat)
      /\ spec.deadline = S.deadline /\ spec.ordering = S.ordering
      /\ spec.exactlyOnce = S.exactlyOnce /\ spec.retry = S.retry
      /\ spec.dead = (IF S.dead = NoDead THEN NoDead
                      ELSE [topic |-> S.dead.topic, tries |-> AtLeast(5, S.dead.tries)])
      /\ spec.push = (IF S.push.endpoint = Absent
                      THEN [endpoint |-> Absent, attributes |-> ""] ELSE S.push)
  BY <1>1, GrpcReadsShown
<1> HIDE DEF shown
<1>5. WriteBack("grpc", b) = Call(b, GrpcSubscriptions(WriteOf(shown)))
  BY DEF WriteBack, Served, Shown, WriteOf, Asked, Grpc, shown
<1>6. CASE S.topic = ""
  <2>1. GrpcSubscriptions(WriteOf(shown)) = Refused
    BY <1>3, <1>6 DEF GrpcSubscriptions, WriteOf
  <2>2. Call(b, Refused).broker = b
    BY DEF Call, Refused, Error, Gets, Deletes, Creates
  <2> QED
    BY <1>5, <2>1, <2>2
<1>7. CASE S.topic # ""
  <2> DEFINE r == WriteOf(shown)
  <2>0. r.op = "UpdateSubscription" /\ r.body = shown /\ r.mask = Absent
    BY DEF WriteOf
  <2> HIDE DEF r
  <2>1. GrpcSubscriptions(r) =
          [op |-> r.op, spec |-> SubscriptionFromProto(r.body), mask |-> Or(r.mask, {})]
    <3>1. ~(r.body = Absent \/ ~r.body.named \/ Or(r.body.topic, "") = "")
      BY <1>2, <1>3, <1>7, <2>0
    <3> QED
      BY <2>0, <3>1 DEF GrpcSubscriptions
  <2>2. GrpcSubscriptions(WriteOf(shown)) = c
    BY <2>0, <2>1 DEF r, Or, NoValue
  <2> DEFINE written == [topic |-> S.topic, deadline |-> spec.deadline,
                ordering |-> spec.ordering, exactlyOnce |-> spec.exactlyOnce,
                dead |-> spec.dead, retry |-> spec.retry, push |-> spec.push,
                filter |-> S.filter]
             kept == [topic |-> S.topic, deadline |-> S.deadline,
                ordering |-> S.ordering, exactlyOnce |-> S.exactlyOnce,
                dead |-> spec.dead, retry |-> S.retry, push |-> spec.push,
                filter |-> S.filter]
  <2> HIDE DEF spec
  <2>3. Call(b, c).broker = [b EXCEPT !.sub = Normalized(written)]
    <3>1. /\ c.op = "UpdateSubscription" /\ c.mask = {} /\ c.spec = spec
          /\ spec \in SpecWith(Nat)
      BY <1>4
    <3> HIDE DEF c
    <3> QED
      BY <3>1, Written
  <2>4. written = kept
    BY <1>4
  <2>5. kept \in Stored
    <3>1. spec.dead \in StoredDead /\ spec.push \in StoredPush
      BY <1>4, SpecFields
    <3>2. /\ S.topic \in Texts /\ S.deadline \in MinAckDeadline .. MaxAckDeadline
          /\ S.ordering \in BOOLEAN /\ S.exactlyOnce \in BOOLEAN
          /\ S.retry \in StoredRetry /\ S.filter \in Texts
      BY <1>1, SpecFields DEF Stored
    <3> QED
      BY <3>1, <3>2, SpecRecord DEF Stored
  <2>6. Normalized(kept) = kept
    <3> HIDE DEF kept
    <3>1. kept \in SpecWith(Nat)
      BY <2>5, PolicyAssumption DEF Stored, SpecWith
    <3> QED
      BY <2>5, <3>1, NormalizedSpec
  <2>7. WriteBack("grpc", b).broker = [b EXCEPT !.sub = kept]
    BY <1>5, <2>2, <2>3, <2>4, <2>6
  <2>8. kept # Absent
    <3> HIDE DEF kept
    <3> QED
      BY <2>5, NotAbsent
  <2>9. Effective(kept) = Effective(S)
    <3>1. S.dead # NoDead =>
            /\ spec.dead # NoDead
            /\ [spec.dead EXCEPT !.tries = MaxDeliveryAttempts(@)] =
                 [S.dead EXCEPT !.tries = MaxDeliveryAttempts(@)]
      <4> SUFFICES ASSUME S.dead # NoDead
                   PROVE  /\ spec.dead # NoDead
                          /\ [spec.dead EXCEPT !.tries = MaxDeliveryAttempts(@)] =
                               [S.dead EXCEPT !.tries = MaxDeliveryAttempts(@)]
        OBVIOUS
      <4>1. S.dead \in [topic : Texts, tries : 0 .. MaxU32] /\ S.dead.tries <= MaxI32
        BY <1>1, SpecFields DEF Stored, StoredDead
      <4>2. MaxI32 \in Nat /\ MaxU32 \in Nat
        BY DoorAssumption, PolicyAssumption
      <4>3. S.dead.tries \in 0 .. MaxI32
        BY <4>1, <4>2
      <4> DEFINE tries == AtLeast(5, S.dead.tries)
      <4>4. tries \in 0 .. MaxU32 /\ MaxDeliveryAttempts(tries) = MaxDeliveryAttempts(S.dead.tries)
        BY <4>3, StoredNumbers DEF MaxDeliveryAttempts
      <4>5. spec.dead = [topic |-> S.dead.topic, tries |-> tries]
        BY <1>4
      <4> HIDE DEF tries
      <4>6. spec.dead \in [topic : Texts, tries : Int]
        BY <4>1, <4>2, <4>4, <4>5
      <4>7. spec.dead # NoDead
        BY <4>6, Given
      <4> QED
        BY <4>1, <4>4, <4>5, <4>7
    <3>2. S.dead = NoDead => spec.dead = NoDead
      BY <1>4
    <3>3. /\ (spec.push.endpoint = Absent) <=> (S.push.endpoint = Absent)
          /\ S.push.endpoint # Absent => spec.push = S.push
      <4>1. CASE S.push.endpoint = Absent
        <5>1. spec.push = [endpoint |-> Absent, attributes |-> ""]
          BY <1>4, <4>1
        <5>2. ASSUME NEW p, p = [endpoint |-> Absent, attributes |-> ""]
              PROVE  p.endpoint = Absent
          BY <5>2
        <5>3. spec.push.endpoint = Absent
          BY <5>1, <5>2
        <5> QED
          BY <4>1, <5>3
      <4>2. CASE S.push.endpoint # Absent
        BY <1>4, <4>2
      <4> QED
        BY <4>1, <4>2
    <3> QED
      BY <3>1, <3>2, <3>3 DEF Effective
  <2>10. EffectiveBroker([b EXCEPT !.sub = kept]) = EffectiveBroker(b)
    <3> HIDE DEF kept
    <3> QED
      BY <2>8, <2>9 DEF EffectiveBroker, BrokerOK
  <2> QED
    BY <2>7, <2>10
<1> QED
  BY <1>6, <1>7

\* A client that reads a subscription through a door and writes back what it was
\* shown changes nothing in how it delivers, whatever clients did before: the
\* update handlers of src/grpc.rs and src/rest.rs after their conversions.
THEOREM WhatWasReadCanBeWritten == DoorsSpec => []WriteBackKept
<1>1. DoorInv => WriteBackKept
  BY RestWritesBack, GrpcWritesBack DEF DoorInv, WriteBackKept
<1> QED
  BY <1>1, DoorInvAlways, PTL

-----------------------------------------------------------------------------
(* The same through both doors.                                            *)

\* What two calls come to is the same when they are.
LEMMA SameCall ==
  ASSUME NEW b, NEW r, NEW d1, NEW d2, Asked(d1, r) = Asked(d2, r)
  PROVE  Effect(d1, b, r) = Effect(d2, b, r)
BY DEF Effect, Served

\* A field as the two doors read it.
LEMMA ReadAlike ==
  /\ \A x \in Optional(Int) : x \notin Missing => Or(x, 0) = x /\ x \in Int
  /\ \A x \in Optional(Int) : Or(x, 0) >= 0 => AsU64(x, 0) = Or(x, 0)
  /\ \A x \in Optional(Int) :
       PullLimit(AtLeast(1, Or(x, 0))) = PullLimit(Clamp(AsU64(x, 1), 1, 1000))
  /\ \A x \in Optional(Int) : Or(x, -1) >= 0 =>
       PullLimit(Or(x, 10)) = PullLimit(Clamp(AsU64(x, 1), 1, 1000)) /\ Or(x, 10) >= 0
<1>1. MaxPull = 1000
  BY DoorAssumption
<1>2. ASSUME NEW x \in Optional(Int)
      PROVE  /\ x \notin Missing => Or(x, 0) = x /\ x \in Int
             /\ Or(x, 0) >= 0 => AsU64(x, 0) = Or(x, 0)
             /\ PullLimit(AtLeast(1, Or(x, 0))) = PullLimit(Clamp(AsU64(x, 1), 1, 1000))
             /\ Or(x, -1) >= 0 =>
                  PullLimit(Or(x, 10)) = PullLimit(Clamp(AsU64(x, 1), 1, 1000)) /\ Or(x, 10) >= 0
  <2>1. CASE NoValue(x)
    BY <1>1, <2>1 DEF Or, AsU64, PullLimit, Clamp, AtLeast, Missing, NoValue
  <2>2. CASE ~NoValue(x)
    <3>1. x \in Int
      BY <2>2 DEF NoValue, Optional
    <3>2. Or(x, 0) = x /\ Or(x, -1) = x /\ Or(x, 10) = x
          /\ AsU64(x, 0) = (IF x < 0 THEN 0 ELSE x) /\ AsU64(x, 1) = (IF x < 0 THEN 1 ELSE x)
      BY <2>2 DEF Or, AsU64
    <3> QED
      BY <1>1, <3>1, <3>2 DEF PullLimit, Clamp, AtLeast
  <2> QED
    BY <2>1, <2>2
<1> QED
  BY <1>2

LEMMA SameMask ==
  ASSUME NEW r, "query" \in DOMAIN r, PlainMasked(r)
  PROVE  ParseUpdateMask(r) = Or(r.mask, {})
BY DEF PlainMasked, ParseUpdateMask, Or

LEMMA SameTopics ==
  ASSUME NEW r, Expressible(r), r.kind = "topic", Comparable(r), r.op # "List"
  PROVE  GrpcTopics(r) = RestTopics(r)
<1>1. r.op \in OpsOf.topic
  BY DEF Expressible, OpsOf
<1>2. CASE r.op \in {"CreateTopic", "UpdateTopic"}
  <2>1. r.body # Absent /\ r.body.named /\ ParseUpdateMask(r) = Or(r.mask, {})
    BY <1>2, SameMask DEF Comparable, Expressible
  <2>2. TopicFromProto(r.body) = TopicSpecFromValue(r.body)
    BY <2>1 DEF TopicFromProto, TopicSpecFromValue
  <2> QED
    BY <1>2, <2>1, <2>2 DEF GrpcTopics, RestTopics
<1>3. CASE r.op \in {"GetTopic", "DeleteTopic"}
  BY <1>3 DEF GrpcTopics, RestTopics
<1> QED
  BY <1>1, <1>2, <1>3 DEF OpsOf

LEMMA SameMessages ==
  ASSUME NEW r, Expressible(r), Comparable(r)
  PROVE  /\ r.kind = "publish" => GrpcPublish(r) = RestPublish(r)
         /\ r.kind = "ack" => GrpcAcks(r) = RestAcks(r)
         /\ r.kind = "seek" => GrpcSeek(r) = RestSeek(r)
<1>1. ASSUME r.kind = "publish" PROVE GrpcPublish(r) = RestPublish(r)
  <2>1. r.op = "Publish"
    BY <1>1 DEF Expressible, OpsOf
  <2>2. "malformed" \notin Range(Or(r.messages, <<>>))
    BY <2>1 DEF Comparable
  <2>3. Or(r.messages, <<>>) # <<>> =>
          ~ \E i \in DOMAIN r.messages : r.messages[i] = "malformed"
    BY <2>2 DEF Or, Range
  <2> QED
    BY <2>3 DEF GrpcPublish, RestPublish
<1>2. ASSUME r.kind = "ack" PROVE GrpcAcks(r) = RestAcks(r)
  <2>1. r.op \in {"Acknowledge", "ModifyAckDeadline"}
    BY <1>2 DEF Expressible, OpsOf
  <2>2. CASE r.op = "Acknowledge"
    BY <2>2 DEF GrpcAcks, RestAcks
  <2>3. CASE r.op = "ModifyAckDeadline"
    <3>1. Or(r.seconds, 0) >= 0 /\ r.seconds \in Optional(Int)
      BY <2>3 DEF Comparable, Expressible
    <3>2. AsU64(r.seconds, 0) = Or(r.seconds, 0) /\ Or(r.seconds, 0) \in Int
      BY <3>1, ReadAlike, OrInt
    <3> QED
      BY <2>3, <3>1, <3>2 DEF GrpcAcks, RestAcks
  <2> QED
    BY <2>1, <2>2, <2>3
<1>3. ASSUME r.kind = "seek" PROVE GrpcSeek(r) = RestSeek(r)
  <2>1. r.op = "Seek"
    BY <1>3 DEF Expressible, OpsOf
  <2> QED
    BY <2>1 DEF GrpcSeek, RestSeek
<1> QED
  BY <1>1, <1>2, <1>3

LEMMA SameSnapshots ==
  ASSUME NEW r, Expressible(r), r.kind = "snap", Comparable(r)
  PROVE  GrpcSnapshots(r) = RestSnapshots(r)
<1>1. r.op \in OpsOf.snap
  BY DEF Expressible, OpsOf
<1>2. CASE r.op = "CreateSnapshot"
  <2>1. ~NoValue(r.sub)
    BY <1>2 DEF Comparable, Expressible, NoValue
  <2> QED
    BY <1>2, <2>1 DEF GrpcSnapshots, RestSnapshots, Or
<1>3. CASE r.op = "UpdateSnapshot"
  <2>1. r.body # Absent /\ r.body.named /\ ParseUpdateMask(r) = Or(r.mask, {})
    BY <1>3, SameMask DEF Comparable, Expressible
  <2> QED
    BY <1>3, <2>1 DEF GrpcSnapshots, RestSnapshots
<1>4. CASE r.op \in {"GetSnapshot", "DeleteSnapshot"}
  BY <1>4 DEF GrpcSnapshots, RestSnapshots
<1> QED
  BY <1>1, <1>2, <1>3, <1>4 DEF OpsOf

LEMMA SameSchemas ==
  ASSUME NEW r, Expressible(r), Comparable(r)
  PROVE  /\ r.kind = "schema" => GrpcSchemas(r) = RestSchemas(r)
         /\ r.kind = "message" => GrpcValidateMessage(r) = RestValidateMessage(r)
<1>1. ASSUME r.kind = "schema" PROVE GrpcSchemas(r) = RestSchemas(r)
  <2>1. r.op \in OpsOf.schema
    BY <1>1 DEF Expressible, OpsOf
  <2>2. CASE r.op \in {"CreateSchema", "ValidateSchema"}
    <3>1. /\ r.body # Absent /\ r.body.named
          /\ r.body.type \in {Absent, "UNSPECIFIED", "AVRO", "PROTOCOL_BUFFER"}
      BY <2>2 DEF Comparable
    <3>2. Or(r.body.type, "UNSPECIFIED") =
            IF r.body.type \in {"AVRO", "PROTOCOL_BUFFER"} THEN r.body.type ELSE "UNSPECIFIED"
      BY <3>1, DoorAssumption DEF Or, NoValue, Missing
    <3>3. SchemaFromProto(r.body) = SchemaSpecFromValue(r.body)
      BY <3>1, <3>2 DEF SchemaFromProto, SchemaSpecFromValue
    <3> QED
      BY <2>2, <3>1, <3>3 DEF GrpcSchemas, RestSchemas
  <2>3. CASE r.op \in {"GetSchema", "DeleteSchema"}
    BY <2>3 DEF GrpcSchemas, RestSchemas
  <2> QED
    BY <2>1, <2>2, <2>3 DEF OpsOf
<1>2. ASSUME r.kind = "message" PROVE GrpcValidateMessage(r) = RestValidateMessage(r)
  <2>1. r.op = "ValidateMessage" /\ r.by \in {"name", "neither"}
        /\ Or(r.message, NoPayload).form # "malformed"
    BY <1>2 DEF Expressible, OpsOf, Comparable
  <2> DEFINE payload == Or(r.message, NoPayload)
  <2> HIDE DEF payload
  <2>2. payload.form # "malformed"
    BY <2>1 DEF payload
  <2>3. GrpcValidateMessage(r) =
          IF r.by = "name" THEN [op |-> r.op, spec |-> Absent, message |-> payload] ELSE Refused
    BY <2>1 DEF GrpcValidateMessage, payload
  <2>4. RestValidateMessage(r) =
          IF r.by = "name" THEN [op |-> r.op, spec |-> Absent, message |-> payload] ELSE Refused
    BY <2>1, <2>2 DEF RestValidateMessage, payload
  <2> QED
    BY <2>3, <2>4
<1> QED
  BY <1>1, <1>2

LEMMA SameOther ==
  ASSUME NEW r, Expressible(r), Comparable(r),
         r.op \notin Specified \cup {"List", "Pull", "SetIamPolicy"}
  PROVE  Grpc(r) = Rest(r)
<1>1. r.kind \in DOMAIN OpsOf /\ r.op \in OpsOf[r.kind]
  BY DEF Expressible
<1>2. CASE r.kind = "topic"
  BY <1>2, SameTopics DEF Grpc, Rest
<1>3. CASE r.kind = "sub"
  <2>1. r.op \in {"GetSubscription", "DeleteSubscription", "ModifyPushConfig"}
    BY <1>1, <1>3 DEF OpsOf, Specified
  <2>2. r.op = "ModifyPushConfig" => GrpcPush(r.push) = ParsePushConfig(r.push)
    BY PushTypes DEF Expressible
  <2> QED
    BY <1>3, <2>1, <2>2 DEF Grpc, Rest, GrpcSubscriptions, RestSubscriptions
<1>4. CASE r.kind \in {"publish", "ack", "seek"}
  BY <1>4, SameMessages DEF Grpc, Rest
<1>5. CASE r.kind = "snap"
  BY <1>5, SameSnapshots DEF Grpc, Rest
<1>6. CASE r.kind = "iam"
  <2>1. r.op \in {"GetIamPolicy", "TestIamPermissions"}
    BY <1>1, <1>6 DEF OpsOf
  <2> QED
    BY <1>6, <2>1 DEF Grpc, Rest, GrpcIam, RestIam
<1>7. CASE r.kind \in {"schema", "message"}
  BY <1>7, SameSchemas DEF Grpc, Rest
<1>8. r.kind # "pull"
  BY <1>1 DEF OpsOf
<1> QED
  BY <1>1, <1>2, <1>3, <1>4, <1>5, <1>6, <1>7, <1>8 DEF OpsOf

\* The calls of the console.
LEMMA SameConsole ==
  ASSUME NEW r, Expressible(r), Comparable(r), OnConsole(r), ConsoleComparable(r),
         r.op \notin {"List", "Pull"}
  PROVE  Console(r) = Rest(r)
<1>1. CASE r.op = "Publish"
  <2>1. r.kind = "publish"
    BY <1>1 DEF Expressible, OpsOf
  <2> DEFINE sent == Or(r.messages, <<>>)
  <2>2. sent \in Seq(Range(sent)) /\ Len(sent) = 1 /\ "malformed" \notin Range(sent)
    BY <1>1 DEF Expressible, Comparable, ConsoleComparable
  <2>3. sent # <<>> /\ sent = r.messages
    <3>1. sent # <<>>
      <4> HIDE DEF sent
      <4> QED
        BY <2>2
    <3> QED
      BY <3>1 DEF Or
  <2>4. ~ \E i \in DOMAIN r.messages : r.messages[i] = "malformed"
    BY <2>2, <2>3 DEF Range
  <2>5. sent = <<Head(sent)>>
    <3> HIDE DEF sent
    <3> QED
      BY <2>2
  <2> QED
    BY <1>1, <2>1, <2>3, <2>4, <2>5 DEF Console, Rest, RestPublish
<1>2. CASE r.op = "Acknowledge"
  <2>1. r.kind = "ack" /\ ~NoValue(r.ids)
    BY <1>2 DEF Expressible, OpsOf, ConsoleComparable
  <2> QED
    BY <1>2, <2>1 DEF Console, Rest, RestAcks, Or
<1>3. CASE r.op = "ModifyPushConfig"
  <2> DEFINE push == ParsePushConfig(r.push)
  <2>0. r.kind = "sub"
    BY <1>3 DEF Expressible, OpsOf
  <2>1. NoValue(r.push) \/ r.push.endpoint # " "
    BY <1>3 DEF ConsoleComparable
  <2>2. Absent # " "
    BY DoorAssumption DEF Missing
  <2>3. push.endpoint # " "
    BY <2>1, <2>2 DEF ParsePushConfig
  <2> QED
    BY <1>3, <2>0, <2>3 DEF Console, Rest, RestSubscriptions
<1> QED
  BY <1>1, <1>2, <1>3 DEF OnConsole

\* A call that is passed on comes to what the backend reads of it.
LEMMA PassedCall ==
  ASSUME NEW b, NEW r, r.op \in {"List", "Pull"}, NEW door, Asked(door, r).op = r.op
  PROVE  Effect(door, b, r) = <<EffectiveBroker(b), "OK", EffectiveCall(Asked(door, r))>>
<1>1. Call(b, Asked(door, r)) = Ok(b, Asked(door, r))
  BY DEF Call, Gets, Deletes, Creates
<1> QED
  BY <1>1 DEF Effect, Served, Ok, PassedOn

LEMMA SameReads ==
  ASSUME NEW b, NEW r, Expressible(r), Comparable(r), r.op \in {"List", "Pull"}
  PROVE  /\ Effect("grpc", b, r) = Effect("rest", b, r)
         /\ ConsoleComparable(r) => Effect("console", b, r) = Effect("rest", b, r)
<1>1. CASE r.op = "List"
  <2>1. r.kind = "topic" /\ r.size \in Optional(Int)
    BY <1>1 DEF Expressible, OpsOf
  <2> DEFINE Sized(n) == [op |-> "List", size |-> n]
             Effective1(n) == IF n <= 0 THEN 100 ELSE Clamp(n, 1, 1000)
  <2>2. /\ Asked("grpc", r) = Sized(Or(r.size, 0))
        /\ Asked("rest", r) = Sized(Or(r.size, 100))
        /\ Asked("console", r) = Sized(1000)
    BY <1>1, <2>1 DEF Asked, Grpc, Rest, GrpcTopics, RestTopics, Console
  <2>3. \A n : EffectiveCall(Sized(n)) = Sized(Effective1(n))
    BY DEF EffectiveCall
  <2>4. Effective1(Or(r.size, 0)) = Effective1(Or(r.size, 100))
    <3>1. CASE NoValue(r.size)
      BY <3>1 DEF Or, Clamp
    <3>2. CASE ~NoValue(r.size)
      BY <3>2 DEF Or
    <3> QED
      BY <3>1, <3>2
  <2>5. ConsoleComparable(r) => Or(r.size, 100) = 1000
    BY <1>1, Given DEF ConsoleComparable, Or
  <2>6. \A door \in {"grpc", "rest", "console"} : Asked(door, r).op = r.op
    BY <1>1, <2>2
  <2>7. \A door \in {"grpc", "rest", "console"} :
          Effect(door, b, r) = <<EffectiveBroker(b), "OK", EffectiveCall(Asked(door, r))>>
    BY <2>6, PassedCall
  <2> HIDE DEF Sized, Effective1
  <2> QED
    BY <2>2, <2>3, <2>4, <2>5, <2>7
<1>2. CASE r.op = "Pull"
  <2>1. r.kind = "pull" /\ r.max \in Optional(Int)
    BY <1>2 DEF Expressible, OpsOf
  <2> DEFINE Sized(n) == [op |-> "Pull", max |-> n]
  <2>2. /\ Asked("grpc", r) = Sized(AtLeast(1, Or(r.max, 0)))
        /\ Asked("rest", r) = Sized(Clamp(AsU64(r.max, 1), 1, 1000))
        /\ Or(r.max, 10) >= 0 => Asked("console", r) = Sized(Or(r.max, 10))
    <3>1. Or(r.max, 10) >= 0 => ~(Or(r.max, 10) < 0)
      BY <2>1, OrInt
    <3> QED
      BY <1>2, <2>1, <3>1 DEF Asked, Grpc, Rest, GrpcPull, RestPull, Console
  <2>3. \A n : EffectiveCall(Sized(n)) = Sized(PullLimit(n))
    BY DEF EffectiveCall
  <2>4. /\ PullLimit(AtLeast(1, Or(r.max, 0))) = PullLimit(Clamp(AsU64(r.max, 1), 1, 1000))
        /\ ConsoleComparable(r) =>
             /\ PullLimit(Or(r.max, 10)) = PullLimit(Clamp(AsU64(r.max, 1), 1, 1000))
             /\ Or(r.max, 10) >= 0
    BY <1>2, <2>1, ReadAlike DEF ConsoleComparable
  <2>6. /\ \A door \in {"grpc", "rest"} : Asked(door, r).op = r.op
        /\ ConsoleComparable(r) => Asked("console", r).op = r.op
    BY <1>2, <2>2, <2>4
  <2>7. /\ \A door \in {"grpc", "rest"} :
             Effect(door, b, r) = <<EffectiveBroker(b), "OK", EffectiveCall(Asked(door, r))>>
        /\ ConsoleComparable(r) =>
             Effect("console", b, r) =
               <<EffectiveBroker(b), "OK", EffectiveCall(Asked("console", r))>>
    BY <2>6, PassedCall
  <2> HIDE DEF Sized
  <2> QED
    BY <2>2, <2>3, <2>4, <2>7
<1> QED
  BY <1>1, <1>2

\* The version of a policy is 1 when it is not given.
LEMMA SamePolicy ==
  ASSUME NEW b, NEW r, Expressible(r), Comparable(r), r.op = "SetIamPolicy"
  PROVE  Effect("grpc", b, r) = Effect("rest", b, r)
<1>1. r.kind = "iam" /\ ~NoValue(r.policy)
  BY DEF Expressible, OpsOf, Comparable, NoValue
<1> DEFINE Set(version) == [op |-> "SetIamPolicy", version |-> version,
                            bindings |-> Or(r.policy.bindings, {})]
<1>2. /\ Asked("grpc", r) = Set(Or(r.policy.version, 0))
      /\ Asked("rest", r) = Set(Or(r.policy.version, 1))
  BY <1>1 DEF Asked, Grpc, Rest, GrpcIam, RestIam, NoValue
<1>3. \A version : Call(b, Set(version)) =
        Insert(b, "iam", [version |-> IF version = 0 THEN 1 ELSE version,
                          bindings |-> Or(r.policy.bindings, {})])
  BY DEF Call, Gets, Deletes, Creates, SetIamPolicy
<1>4. (IF Or(r.policy.version, 0) = 0 THEN 1 ELSE Or(r.policy.version, 0)) =
        (IF Or(r.policy.version, 1) = 0 THEN 1 ELSE Or(r.policy.version, 1))
  BY DEF Or
<1> HIDE DEF Set
<1>5. Served("grpc", b, r) = Served("rest", b, r)
  BY <1>2, <1>3, <1>4 DEF Served
<1> QED
  BY <1>5 DEF Effect, PassedOn

\* Specs that differ only in how a default or a limit is written.
Alike(x, y) ==
  /\ x.topic = y.topic /\ x.ordering = y.ordering /\ x.exactlyOnce = y.exactlyOnce
  /\ x.retry = y.retry /\ x.push = y.push /\ x.filter = y.filter
  /\ AtLeast(10, x.deadline) = AtLeast(10, y.deadline)
  /\ (x.dead = NoDead) <=> (y.dead = NoDead)
  /\ x.dead # NoDead =>
       /\ x.dead.topic = y.dead.topic
       /\ MaxDeliveryAttempts(x.dead.tries) = MaxDeliveryAttempts(y.dead.tries)

LEMMA AlikeBehave ==
  ASSUME NEW x \in SpecWith(Nat), NEW y \in SpecWith(Nat), Alike(x, y)
  PROVE  Effective(Normalized(x)) = Effective(Normalized(y))
<1> DEFINE dl(s) == NormalizeAckDeadline(AtLeast(10, s.deadline))
           Norm(s) == [topic |-> s.topic, deadline |-> dl(s), ordering |-> s.ordering,
                       exactlyOnce |-> s.exactlyOnce, dead |-> s.dead, retry |-> s.retry,
                       push |-> s.push, filter |-> s.filter]
<1>1. ASSUME NEW s \in SpecWith(Nat) PROVE Normalized(s) = Norm(s)
  <2>1. s = [topic |-> s.topic, deadline |-> s.deadline, ordering |-> s.ordering,
             exactlyOnce |-> s.exactlyOnce, dead |-> s.dead, retry |-> s.retry,
             push |-> s.push, filter |-> s.filter]
    BY SpecFields
  <2>2. Normalized(s) = [s EXCEPT !.deadline = dl(s)]
    BY DEF Normalized
  <2> HIDE DEF dl
  <2> QED
    BY <2>1, <2>2
<1>2. dl(x) = dl(y)
  BY DEF Alike
<1>3. \A s \in SpecWith(Nat) : s.dead # NoDead =>
        [s.dead EXCEPT !.tries = MaxDeliveryAttempts(@)] =
          [topic |-> s.dead.topic, tries |-> MaxDeliveryAttempts(s.dead.tries)]
  BY SpecFields DEF StoredDead
<1> HIDE DEF dl
<1>4. \A s : /\ Norm(s).topic = s.topic /\ Norm(s).deadline = dl(s)
             /\ Norm(s).ordering = s.ordering /\ Norm(s).exactlyOnce = s.exactlyOnce
             /\ Norm(s).dead = s.dead /\ Norm(s).retry = s.retry /\ Norm(s).push = s.push
             /\ Norm(s).filter = s.filter
  OBVIOUS
<1> HIDE DEF Norm
<1>5. Effective(Norm(x)) = Effective(Norm(y))
  <2>1. CASE x.dead = NoDead
    BY <1>2, <1>4, <2>1 DEF Effective, Alike
  <2>2. CASE x.dead # NoDead
    <3>1. [x.dead EXCEPT !.tries = MaxDeliveryAttempts(@)] =
            [y.dead EXCEPT !.tries = MaxDeliveryAttempts(@)]
      BY <1>3, <2>2 DEF Alike
    <3> QED
      BY <1>2, <1>4, <2>2, <3>1 DEF Effective, Alike
  <2> QED
    BY <2>1, <2>2
<1> QED
  BY <1>1, <1>5

\* A mask takes the same fields from both.
LEMMA AlikeMasked ==
  ASSUME NEW S \in Stored, NEW x \in SpecWith(Nat), NEW y \in SpecWith(Nat), Alike(x, y),
         NEW mask
  PROVE  Alike(ApplyMask(S, x, mask, SubscriptionFields), ApplyMask(S, y, mask, SubscriptionFields))
<1> DEFINE Of(s, field) == IF Masked(mask, field) THEN s[field] ELSE S[field]
           M(s) == ApplyMask(S, s, mask, SubscriptionFields)
<1>1. DOMAIN S = {"topic", "deadline", "ordering", "exactlyOnce", "dead", "retry", "push",
                  "filter"}
  BY DEF Stored, SpecWith
<1>2. \A s : M(s) = [f \in DOMAIN S |-> IF f \in SubscriptionFields THEN Of(s, f) ELSE S[f]]
  BY DEF ApplyMask
<1>3. ASSUME NEW s
      PROVE  /\ M(s).topic = S.topic /\ M(s).deadline = Of(s, "deadline")
             /\ M(s).ordering = Of(s, "ordering") /\ M(s).exactlyOnce = Of(s, "exactlyOnce")
             /\ M(s).dead = Of(s, "dead") /\ M(s).retry = Of(s, "retry")
             /\ M(s).push = Of(s, "push") /\ M(s).filter = S.filter
  <2>1. M(s) = [f \in DOMAIN S |-> IF f \in SubscriptionFields THEN Of(s, f) ELSE S[f]]
    BY <1>2
  <2> HIDE DEF Of, M
  <2> QED
    BY <1>1, <2>1 DEF SubscriptionFields
<1> HIDE DEF M
<1>4. /\ M(x).topic = M(y).topic /\ M(x).ordering = M(y).ordering
      /\ M(x).exactlyOnce = M(y).exactlyOnce /\ M(x).retry = M(y).retry
      /\ M(x).push = M(y).push /\ M(x).filter = M(y).filter
      /\ AtLeast(10, M(x).deadline) = AtLeast(10, M(y).deadline)
  BY <1>3 DEF Alike
<1>5. /\ (M(x).dead = NoDead) <=> (M(y).dead = NoDead)
      /\ M(x).dead # NoDead =>
           /\ M(x).dead.topic = M(y).dead.topic
           /\ MaxDeliveryAttempts(M(x).dead.tries) = MaxDeliveryAttempts(M(y).dead.tries)
  <2>1. CASE Masked(mask, "dead")
    <3>1. M(x).dead = x.dead /\ M(y).dead = y.dead
      BY <1>3, <2>1
    <3> QED
      BY <3>1 DEF Alike
  <2>2. CASE ~Masked(mask, "dead")
    BY <1>3, <2>2
  <2> QED
    BY <2>1, <2>2
<1>6. Alike(M(x), M(y))
  BY <1>4, <1>5 DEF Alike
<1> QED
  BY <1>6 DEF M

LEMMA AlikeStored ==
  ASSUME NEW b, BrokerOK(b), NEW x \in Stored, NEW y \in Stored, Effective(x) = Effective(y)
  PROVE  EffectiveBroker([b EXCEPT !["sub"] = x]) = EffectiveBroker([b EXCEPT !["sub"] = y])
BY NotAbsent DEF BrokerOK, EffectiveBroker

LEMMA AlikeInserted ==
  ASSUME NEW b, BrokerOK(b), NEW x \in Stored, NEW y \in Stored, Effective(x) = Effective(y)
  PROVE  /\ EffectiveBroker(Insert(b, "sub", x).broker) = EffectiveBroker(Insert(b, "sub", y).broker)
         /\ Insert(b, "sub", x).status = Insert(b, "sub", y).status
BY AlikeStored DEF Insert, Ok

\* Calls with alike specs come to the same.
LEMMA AlikeCalls ==
  ASSUME NEW b, BrokerOK(b), NEW x \in SpecWith(Nat), NEW y \in SpecWith(Nat), Alike(x, y),
         NEW op \in Specified, NEW mask
  PROVE  LET cx == Call(b, [op |-> op, spec |-> x, mask |-> mask])
             cy == Call(b, [op |-> op, spec |-> y, mask |-> mask])
         IN  EffectiveBroker(cx.broker) = EffectiveBroker(cy.broker) /\ cx.status = cy.status
<1> DEFINE C(s) == [op |-> op, spec |-> s, mask |-> mask]
<1>0. x.filter = y.filter /\ x.topic = y.topic
  BY DEF Alike
<1>1. \A s : C(s).op = op /\ C(s).spec = s /\ C(s).mask = mask
  OBVIOUS
<1> HIDE DEF C
<1>2. CASE op = "CreateSubscription"
  <2>1. \A s : Call(b, C(s)) = CreateSubscription(b, C(s))
    BY <1>1, <1>2 DEF Call, CreateResource, Gets, Deletes, Creates
  <2> DEFINE refused(s) == b.sub # Absent \/ s.filter = "malformed" \/ b.topic = Absent
                           \/ s.topic # ModelTopic
  <2>2. CASE refused(x)
    <3>1. CreateSubscription(b, C(x)).broker = b /\ CreateSubscription(b, C(y)).broker = b
          /\ CreateSubscription(b, C(x)).status = CreateSubscription(b, C(y)).status
      BY <1>0, <1>1, <2>2 DEF CreateSubscription, Error
    <3> QED
      BY <2>1, <3>1 DEF C
  <2>3. CASE ~refused(x)
    <3>1. \A s \in {x, y} :
            CreateSubscription(b, C(s)) = Insert(b, "sub", Normalized(s))
      BY <1>0, <1>1, <2>3 DEF CreateSubscription
    <3>4. /\ Call(b, C(x)) = Insert(b, "sub", Normalized(x))
          /\ Call(b, C(y)) = Insert(b, "sub", Normalized(y))
      BY <2>1, <3>1
    <3>5. /\ EffectiveBroker(Call(b, C(x)).broker) = EffectiveBroker(Call(b, C(y)).broker)
          /\ Call(b, C(x)).status = Call(b, C(y)).status
      BY <3>4, AlikeBehave, NormalizedSpec, AlikeInserted
    <3> QED
      BY <3>5 DEF C
  <2> QED
    BY <2>2, <2>3
<1>3. CASE op = "UpdateSubscription"
  <2>1. \A s : Call(b, C(s)) = UpdateSubscription(b, C(s))
    BY <1>1, <1>3 DEF Call, Gets, Deletes, Creates
  <2> DEFINE refused(s) == b.sub = Absent
                           \/ ("filter" \in mask /\ s.filter \notin {"", b.sub.filter})
             M(s) == ApplyMask(b.sub, s, mask, SubscriptionFields)
  <2>2. CASE refused(x)
    <3>1. UpdateSubscription(b, C(x)).broker = b /\ UpdateSubscription(b, C(y)).broker = b
          /\ UpdateSubscription(b, C(x)).status = UpdateSubscription(b, C(y)).status
      BY <1>0, <1>1, <2>2 DEF UpdateSubscription, Error
    <3> QED
      BY <2>1, <3>1 DEF C
  <2>3. CASE ~refused(x)
    <3>1. \A s \in {x, y} :
            UpdateSubscription(b, C(s)) = Insert(b, "sub", Normalized(M(s)))
      BY <1>0, <1>1, <2>3 DEF UpdateSubscription
    <3>2. M(x) \in SpecWith(Nat) /\ M(y) \in SpecWith(Nat) /\ Alike(M(x), M(y))
      BY <2>3, MaskedSpec, AlikeMasked DEF BrokerOK
    <3> HIDE DEF M
    <3>4. /\ Call(b, C(x)) = Insert(b, "sub", Normalized(M(x)))
          /\ Call(b, C(y)) = Insert(b, "sub", Normalized(M(y)))
      BY <2>1, <3>1
    <3>5. /\ EffectiveBroker(Call(b, C(x)).broker) = EffectiveBroker(Call(b, C(y)).broker)
          /\ Call(b, C(x)).status = Call(b, C(y)).status
      BY <3>2, <3>4, AlikeBehave, NormalizedSpec, AlikeInserted
    <3> QED
      BY <3>5 DEF C
  <2> QED
    BY <2>2, <2>3
<1> QED
  BY <1>2, <1>3 DEF Specified

\* How the two doors read a body that means the same to both.
LEMMA PlainRead ==
  ASSUME NEW body \in SubscriptionBody, PlainSubscription(body), ~NoValue(body.topic)
  PROVE  /\ SubscriptionFromProto(body) \in SpecWith(Nat)
         /\ SubscriptionSpecFromValue(body) \in SpecWith(Nat)
         /\ Alike(SubscriptionFromProto(body), SubscriptionSpecFromValue(body))
<1> DEFINE x == SubscriptionFromProto(body)
           y == SubscriptionSpecFromValue(body)
<1>1. MaxI32 \in Nat /\ MaxI32 <= MaxU32 /\ MaxU32 \in Nat /\ MinTries = 5
      /\ MaxTries \in Nat /\ 5 <= MaxTries
  <2>1. MinTries = 5 /\ MaxI32 \in Nat /\ MaxI32 <= MaxU32
    BY DoorAssumption
  <2> QED
    BY <2>1, PolicyAssumption
<1>2. body.topic \in Texts
  BY DEF SubscriptionBody, Optional, NoValue
<1>3. x \in SpecWith(Nat) /\ y \in SpecWith(Nat)
  BY <1>2, GrpcSpecType, RestSpecType DEF PlainSubscription
<1>4. /\ x.topic = y.topic /\ x.ordering = y.ordering /\ x.exactlyOnce = y.exactlyOnce
      /\ x.filter = y.filter
  BY DEF SubscriptionFromProto, SubscriptionSpecFromValue
<1>5. x.push = y.push
  <2>1. GrpcPush(body.push) = ParsePushConfig(body.push)
    BY PushTypes DEF SubscriptionBody
  <2> QED
    BY <2>1 DEF SubscriptionFromProto, SubscriptionSpecFromValue
<1>6. AtLeast(10, x.deadline) = AtLeast(10, y.deadline)
  <2>1. x.deadline = GrpcDeadline(body.deadline) /\ y.deadline = AsU32(AsU64(body.deadline, 10))
    BY DEF SubscriptionFromProto, SubscriptionSpecFromValue
  <2>2. body.deadline \in Optional(Int) /\ Or(body.deadline, 0) <= MaxI32
    BY DEF SubscriptionBody, PlainSubscription, WithinI32
  <2>3. \A n \in 0 .. MaxU32 : AsU32(n) = n
    BY Casts
  <2>4. 10 \in 0 .. MaxU32
    <3>1. MinAckDeadline = 10 /\ MaxAckDeadline <= MaxI32
      BY DoorAssumption
    <3> QED
      BY <1>1, <3>1, PolicyAssumption
  <2>5. CASE NoValue(body.deadline)
    BY <2>1, <2>3, <2>4, <2>5 DEF GrpcDeadline, AsU64, Or
  <2>6. CASE ~NoValue(body.deadline)
    <3>1. body.deadline \in Int /\ Or(body.deadline, 0) = body.deadline
          /\ body.deadline <= MaxI32
      BY <2>2, <2>6 DEF Or, NoValue, Optional
    <3>2. CASE body.deadline < 0
      BY <2>1, <2>3, <2>4, <3>1, <3>2 DEF GrpcDeadline, AsU64
    <3>3. CASE body.deadline >= 0
      <4>1. AsU64(body.deadline, 10) = body.deadline /\ body.deadline \in 0 .. MaxU32
        BY <1>1, <2>6, <3>1, <3>3 DEF AsU64
      <4>2. y.deadline = body.deadline
        BY <2>1, <2>3, <4>1
      <4>3. x.deadline = IF body.deadline <= 0 THEN 10 ELSE body.deadline
        BY <2>1, <3>1 DEF GrpcDeadline
      <4> QED
        BY <3>1, <3>3, <4>2, <4>3 DEF AtLeast
    <3> QED
      BY <3>1, <3>2, <3>3
  <2> QED
    BY <2>5, <2>6
<1>7. x.retry = y.retry
  <2>1. /\ x.retry = (IF NoValue(body.retry) THEN NoRetry
                      ELSE [min |-> GrpcSeconds(body.retry.min), max |-> GrpcSeconds(body.retry.max)])
        /\ y.retry = ParseRetry(body.retry)
    BY DEF SubscriptionFromProto, SubscriptionSpecFromValue
  <2>2. CASE NoValue(body.retry)
    BY <2>1, <2>2 DEF ParseRetry, NoValue, PlainSubscription
  <2>3. CASE ~NoValue(body.retry)
    <3>1. /\ body.retry.min \in Optional(Int) /\ body.retry.max \in Optional(Int)
          /\ Or(body.retry.min, 0) <= MaxU32 /\ Or(body.retry.max, 0) <= MaxU32
      BY <2>3 DEF SubscriptionBody, Optional, NoValue, PlainSubscription
    <3>2. ASSUME NEW s \in Optional(Int), Or(s, 0) <= MaxU32
          PROVE  GrpcSeconds(s) = RestSeconds(s)
      <4>1. Or(s, 0) \in Int
        BY OrInt
      <4>2. AtLeast(0, Or(s, 0)) \in 0 .. MaxU32 /\ AtLeast(0, Or(s, 0)) = Clamp(Or(s, 0), 0, MaxU32)
        BY <1>1, <3>2, <4>1 DEF AtLeast, Clamp
      <4> QED
        BY <4>2, Casts DEF GrpcSeconds, RestSeconds
    <3>3. ParseRetry(body.retry) =
            [min |-> RestSeconds(body.retry.min), max |-> RestSeconds(body.retry.max)]
      BY <2>3 DEF ParseRetry, NoValue
    <3> QED
      BY <2>1, <2>3, <3>1, <3>2, <3>3
  <2> QED
    BY <2>2, <2>3
<1>8. /\ (x.dead = NoDead) <=> (y.dead = NoDead)
      /\ x.dead # NoDead =>
           /\ x.dead.topic = y.dead.topic
           /\ MaxDeliveryAttempts(x.dead.tries) = MaxDeliveryAttempts(y.dead.tries)
  <2>1. /\ x.dead = (IF NoValue(body.dead) THEN NoDead
                     ELSE [topic |-> Or(body.dead.topic, ""),
                           tries |-> AtLeast(5, Or(body.dead.tries, 0))])
        /\ y.dead = ParseDeadLetter(body.dead)
    BY DEF SubscriptionFromProto, SubscriptionSpecFromValue
  <2>2. CASE NoValue(body.dead)
    BY <2>1, <2>2 DEF ParseDeadLetter
  <2>3. CASE ~NoValue(body.dead)
    <3> DEFINE t == body.dead.tries
               g == AtLeast(5, Or(t, 0))
               w == AsU32(AsU64(t, 5))
    <3>1. body.dead.topic \in Texts /\ t \in Optional(Int) /\ Or(t, 0) <= MaxI32
          /\ ~NoValue(body.dead.topic)
      BY <2>3 DEF SubscriptionBody, Optional, NoValue, PlainSubscription, WithinI32
    <3>2. \A n \in 0 .. MaxU32 : AsU32(n) = n
      BY Casts
    <3>3. g \in 0 .. MaxU32 /\ w \in 0 .. MaxU32 /\ MaxDeliveryAttempts(g) = MaxDeliveryAttempts(w)
      <4>1. CASE NoValue(t)
        <5>1. Or(t, 0) = 0 /\ AsU64(t, 5) = 5
          BY <4>1 DEF Or, AsU64
        <5>2. 5 \in 0 .. MaxU32
          <6>1. MinAckDeadline = 10 /\ MaxAckDeadline <= MaxI32
            BY DoorAssumption
          <6> QED
            BY <1>1, <6>1, PolicyAssumption
        <5>3. g = 5 /\ w = 5
          BY <3>2, <5>1, <5>2 DEF AtLeast
        <5> QED
          BY <5>2, <5>3
      <4>2. CASE ~NoValue(t)
        <5>1. t \in Int /\ Or(t, 0) = t /\ AsU64(t, 5) = (IF t < 0 THEN 5 ELSE t) /\ t <= MaxI32
          BY <3>1, <4>2 DEF Or, AsU64, NoValue, Optional
        <5>2. 5 \in 0 .. MaxU32
          <6>1. MinAckDeadline = 10 /\ MaxAckDeadline <= MaxI32
            BY DoorAssumption
          <6> QED
            BY <1>1, <6>1, PolicyAssumption
        <5>3. g = (IF t < 5 THEN 5 ELSE t) /\ w = (IF t < 0 THEN 5 ELSE t)
          BY <1>1, <3>2, <5>1, <5>2 DEF AtLeast
        <5> HIDE DEF g, w
        <5> QED
          BY <1>1, <5>1, <5>2, <5>3 DEF MaxDeliveryAttempts, Clamp
      <4> QED
        BY <4>1, <4>2
    <3>4. Or(body.dead.topic, "") = body.dead.topic
      BY <3>1 DEF Or
    <3>5. x.dead = [topic |-> body.dead.topic, tries |-> g]
          /\ y.dead = [topic |-> body.dead.topic, tries |-> w]
      BY <2>1, <2>3, <3>1, <3>4 DEF ParseDeadLetter
    <3> HIDE DEF g, w, x, y
    <3>6. x.dead \in [topic : Texts, tries : Int] /\ y.dead \in [topic : Texts, tries : Int]
      BY <1>1, <3>1, <3>3, <3>5
    <3>7. x.dead # NoDead /\ y.dead # NoDead
      BY <3>6, Given
    <3> QED
      BY <3>3, <3>5, <3>7
  <2> QED
    BY <2>2, <2>3
<1> QED
  BY <1>3, <1>4, <1>5, <1>6, <1>7, <1>8 DEF Alike

LEMMA SameSubscriptions ==
  ASSUME NEW b, BrokerOK(b), NEW r, Expressible(r), Comparable(r), r.op \in Specified
  PROVE  Effect("grpc", b, r) = Effect("rest", b, r)
<1>1. r.kind = "sub" /\ r.op \notin PassedOn
  BY DEF Expressible, OpsOf, Specified, PassedOn
<1>2. Asked("grpc", r) = GrpcSubscriptions(r) /\ Asked("rest", r) = RestSubscriptions(r)
  BY <1>1 DEF Asked, Grpc, Rest
<1>3. r.body = Absent \/ (r.body \in SubscriptionBody /\ PlainSubscription(r.body))
  BY DEF Expressible, Comparable, Specified
<1>4. ParseUpdateMask(r) = Or(r.mask, {})
  BY SameMask DEF Expressible, Comparable
<1>5. CASE r.body = Absent \/ NoValue(r.body.topic)
  <2>1. GrpcSubscriptions(r) = Refused
    BY <1>5 DEF GrpcSubscriptions, Specified, Or
  <2>2. RestSubscriptions(r) = Refused
    BY <1>5 DEF RestSubscriptions, Specified
  <2> QED
    BY <1>2, <2>1, <2>2, SameCall
<1>6. CASE ~(r.body = Absent \/ NoValue(r.body.topic))
  <2> DEFINE x == SubscriptionFromProto(r.body)
             y == SubscriptionSpecFromValue(r.body)
             mask == Or(r.mask, {})
  <2>1. x \in SpecWith(Nat) /\ y \in SpecWith(Nat) /\ Alike(x, y)
    BY <1>3, <1>6, PlainRead
  <2>2. r.body.named /\ Or(r.body.topic, "") # ""
    BY <1>3, <1>6 DEF PlainSubscription, Or
  <2>3. GrpcSubscriptions(r) = [op |-> r.op, spec |-> x, mask |-> mask]
    BY <1>6, <2>2 DEF GrpcSubscriptions, Specified
  <2>4. RestSubscriptions(r) = [op |-> r.op, spec |-> y, mask |-> mask]
    BY <1>4, <1>6 DEF RestSubscriptions, Specified
  <2> HIDE DEF x, y, mask
  <2>5. /\ EffectiveBroker(Served("grpc", b, r).broker) = EffectiveBroker(Served("rest", b, r).broker)
        /\ Served("grpc", b, r).status = Served("rest", b, r).status
    BY <1>2, <2>1, <2>3, <2>4, AlikeCalls DEF Served
  <2> QED
    BY <1>1, <2>5 DEF Effect
<1> QED
  BY <1>5, <1>6

\* Whatever clients did before, a request that both doors can state comes to the
\* same through gRPC, REST and the console: the handlers of src/grpc.rs and
\* src/rest.rs with all their conversions, for every value of every field.
THEOREM DoorsAlwaysAgree == DoorsSpec => []DoorsAgree
<1>1. ASSUME DoorInv, NEW r \in Requests, Comparable(r)
      PROVE  /\ Effect("grpc", broker, r) = Effect("rest", broker, r)
             /\ OnConsole(r) /\ ConsoleComparable(r) =>
                  Effect("console", broker, r) = Effect("rest", broker, r)
  <2>1. Expressible(r) /\ BrokerOK(broker)
    BY <1>1, DoorAssumption DEF DoorInv
  <2>2. CASE r.op \in {"List", "Pull"}
    BY <1>1, <2>1, <2>2, SameReads
  <2>3. CASE r.op \notin {"List", "Pull"}
    <3>1. Effect("grpc", broker, r) = Effect("rest", broker, r)
      <4>1. CASE r.op \in Specified
        BY <1>1, <2>1, <4>1, SameSubscriptions
      <4>2. CASE r.op = "SetIamPolicy"
        BY <1>1, <2>1, <4>2, SamePolicy
      <4>3. CASE r.op \notin Specified \cup {"List", "Pull", "SetIamPolicy"}
        <5>1. Asked("grpc", r) = Asked("rest", r)
          BY <1>1, <2>1, <4>3, SameOther DEF Asked
        <5> QED
          BY <5>1, SameCall
      <4> QED
        BY <2>3, <4>1, <4>2, <4>3
    <3>2. ASSUME OnConsole(r), ConsoleComparable(r)
          PROVE  Effect("console", broker, r) = Effect("rest", broker, r)
      <4>1. Asked("console", r) = Asked("rest", r)
        BY <1>1, <2>1, <2>3, <3>2, SameConsole DEF Asked
      <4> QED
        BY <4>1, SameCall
    <3> QED
      BY <3>1, <3>2
  <2> QED
    BY <2>2, <2>3
<1>2. DoorInv => DoorsAgree
  BY <1>1 DEF DoorsAgree
<1> QED
  BY <1>2, DoorInvAlways, PTL

-----------------------------------------------------------------------------
(* The log tail.  The ring holds the last ids in a row, so a page is an    *)
(* interval of them and the cursor moves to its end.                       *)

LEMMA LeastExists ==
  ASSUME NEW S \in SUBSET Nat, S # {}
  PROVE  \E x \in S : \A y \in S : x <= y
<1>1. PICK x \in S : \A y \in S : ~(<<y, x>> \in OpToRel(<, Nat))
  BY WFMin, NatLessThanWellFounded
<1>2. ASSUME NEW y \in S PROVE x <= y
  <2>1. ~(y < x)
    BY <1>1 DEF OpToRel
  <2> QED
    BY <2>1
<1> QED
  BY <1>2

LEMMA MinOfPage ==
  ASSUME NEW n \in Nat, NEW S \in SUBSET (1 .. n), S # {}
  PROVE  Min(S) \in S /\ \A y \in S : Min(S) <= y
<1>1. S \in SUBSET Nat
  OBVIOUS
<1>2. \E x \in S : \A y \in S : x <= y
  BY <1>1, LeastExists
<1> QED
  BY <1>2 DEF Min

LEMMA MaxOfPage ==
  ASSUME NEW n \in Nat, NEW S \in SUBSET (1 .. n), S # {}
  PROVE  Max(S) \in S /\ \A y \in S : Max(S) >= y
<1> DEFINE T == {n - x : x \in S}
<1>0. \A x \in S : x \in 1 .. n /\ n - x \in Nat
  OBVIOUS
<1>1. T \in SUBSET Nat /\ T # {}
  BY <1>0
<1>2. PICK t \in T : \A y \in T : t <= y
  BY <1>1, LeastExists
<1>3. PICK x \in S : t = n - x
  OBVIOUS
<1>4. ASSUME NEW y \in S PROVE x >= y
  <2>1. n - x <= n - y
    BY <1>2, <1>3
  <2>2. x \in Int /\ y \in Int
    BY <1>0
  <2> HIDE DEF T
  <2> QED
    BY <2>1, <2>2
<1> QED
  BY <1>4 DEF Max

Consecutive ==
  /\ entries \in Seq(Nat) /\ next_id \in Nat \ {0}
  /\ Len(entries) <= next_id - 1
  /\ \A i \in 1 .. Len(entries) : entries[i] = next_id - 1 - Len(entries) + i

CursorOK == after \in Nat /\ blind \in Nat /\ (after <= blind \/ after < next_id)

LogInv == Consecutive /\ CursorOK /\ PassedWasReceived

LEMMA PushKeeps == ASSUME LogInv, Push PROVE LogInv'
<1> DEFINE n == Len(entries)
           long == Append(entries, next_id)
           from == IF Capacity < n + 1 THEN n + 2 - Capacity ELSE 1
<1>1. /\ entries \in Seq(Nat) /\ n \in Nat /\ next_id \in Nat \ {0} /\ n <= next_id - 1
      /\ \A i \in 1 .. n : entries[i] = next_id - 1 - n + i
  BY DEF LogInv, Consecutive
<1>2. /\ long \in Seq(Nat) /\ Len(long) = n + 1
      /\ \A i \in 1 .. n + 1 : long[i] = next_id - 1 - n + i
  BY <1>1
<1>3. from \in 1 .. n + 1
  BY <1>1, LogAssumption
<1>4. entries' = SubSeq(long, from, n + 1) /\ next_id' = next_id + 1
      /\ UNCHANGED <<after, seen, blind>>
  BY <1>1, <1>2, LogAssumption DEF Push, LastOf
<1> HIDE DEF long, from, n
<1>5. /\ entries' \in Seq(Nat) /\ Len(entries') = n + 2 - from
      /\ \A i \in 1 .. n + 2 - from : entries'[i] = long[i + from - 1]
  BY <1>1, <1>2, <1>3, <1>4
<1>6. Consecutive'
  BY <1>1, <1>2, <1>3, <1>4, <1>5 DEF Consecutive
<1>7. CursorOK'
  BY <1>1, <1>4 DEF LogInv, CursorOK
<1>8. PassedWasReceived'
  <2> SUFFICES ASSUME NEW i \in 1 .. Len(entries'), entries'[i] \in blind + 1 .. after
               PROVE  entries'[i] \in seen
    BY <1>4, <1>5 DEF PassedWasReceived
  <2>1. /\ i + from - 1 \in 1 .. n + 1 /\ entries'[i] = long[i + from - 1]
    BY <1>1, <1>3, <1>5
  <2>2. entries'[i] = next_id - 1 - n + (i + from - 1)
    BY <1>2, <2>1
  <2>3. entries'[i] < next_id
    <3>1. after < next_id
      BY <1>1, <2>2 DEF LogInv, CursorOK
    <3> QED
      BY <1>1, <1>3, <2>1, <2>2, <3>1 DEF LogInv, CursorOK
  <2>4. i + from - 1 \in 1 .. n
    BY <1>1, <1>3, <2>1, <2>2, <2>3
  <2>5. entries[i + from - 1] = entries'[i]
    BY <1>1, <2>2, <2>4
  <2> QED
    BY <1>1, <2>4, <2>5 DEF LogInv, PassedWasReceived, n
<1> QED
  BY <1>6, <1>7, <1>8 DEF LogInv

\* A page is a set of positions, and the next cursor the id at the last.
LEMMA PageEnds ==
  ASSUME LogInv, NEW page \in SUBSET (1 .. Len(entries)), page # {}
  PROVE  /\ Max(page) \in page /\ Min(page) \in page
         /\ \A i \in page : Min(page) <= i /\ i <= Max(page)
         /\ entries[Max(page)] \in Nat /\ entries[Max(page)] < next_id
         /\ entries[Min(page)] \in Nat \ {0}
         /\ \A k \in 1 .. Len(entries) :
              /\ entries[k] <= entries[Max(page)] => k <= Max(page)
              /\ entries[k] >= entries[Min(page)] => k >= Min(page)
<1>1. /\ Len(entries) \in Nat /\ next_id \in Nat \ {0} /\ Len(entries) <= next_id - 1
      /\ \A i \in 1 .. Len(entries) : entries[i] = next_id - 1 - Len(entries) + i
  BY DEF LogInv, Consecutive
<1>2. Max(page) \in page /\ \A y \in page : Max(page) >= y
  BY <1>1, MaxOfPage
<1>3. Min(page) \in page /\ \A y \in page : Min(page) <= y
  BY <1>1, MinOfPage
<1>4. Max(page) \in 1 .. Len(entries) /\ Min(page) \in 1 .. Len(entries)
  BY <1>2, <1>3
<1>5. \A i \in page : Min(page) <= i /\ i <= Max(page)
  BY <1>1, <1>2, <1>3, <1>4
<1>6. /\ entries[Max(page)] = next_id - 1 - Len(entries) + Max(page)
      /\ entries[Min(page)] = next_id - 1 - Len(entries) + Min(page)
  BY <1>1, <1>4
<1>7. \A k \in 1 .. Len(entries) :
        /\ entries[k] <= entries[Max(page)] => k <= Max(page)
        /\ entries[k] >= entries[Min(page)] => k >= Min(page)
  BY <1>1, <1>4, <1>6
<1>8. /\ entries[Max(page)] \in Nat /\ entries[Max(page)] < next_id
      /\ entries[Min(page)] \in Nat \ {0}
  BY <1>1, <1>4, <1>6
<1> QED
  BY <1>2, <1>3, <1>5, <1>7, <1>8

LEMMA PollKeeps == ASSUME LogInv, NEW limit \in Limits, Poll(limit) PROVE LogInv'
<1> DEFINE page == Since(after, limit)
           Before(i) == {j \in Newer(after) : j < i}
<1>1. /\ after' = NextAfter(page, after) /\ seen' = seen \cup IdsIn(page)
      /\ UNCHANGED <<entries, next_id, blind>>
  BY DEF Poll
<1>2. /\ entries \in Seq(Nat) /\ Len(entries) \in Nat /\ next_id \in Nat \ {0}
      /\ DOMAIN entries = 1 .. Len(entries) /\ after \in Nat /\ blind \in Nat
  BY DEF LogInv, Consecutive, CursorOK
<1>3. Consecutive'
  BY <1>1 DEF LogInv, Consecutive
<1>4. PageOf(limit) \in Nat
  BY LogAssumption DEF PageOf
<1>5. CASE page = {}
  <2>1. after' = after /\ seen \subseteq seen'
    BY <1>1, <1>5 DEF NextAfter
  <2> QED
    BY <1>1, <1>3, <2>1 DEF LogInv, CursorOK, PassedWasReceived
<1>6. CASE page # {}
  <2>1. page \in SUBSET (1 .. Len(entries)) /\ page \subseteq Newer(after)
    BY <1>2 DEF Since, Newer
  <2>2. after' = entries[Max(page)]
    BY <1>1, <1>6 DEF NextAfter
  <2>3. CursorOK'
    BY <1>1, <1>2, <1>6, <2>1, <2>2, PageEnds DEF CursorOK
  <2>4. ASSUME NEW k \in 1 .. Len(entries), entries[k] \in blind + 1 .. after'
        PROVE  entries[k] \in seen'
    <3>1. CASE entries[k] <= after
      BY <1>1, <1>2, <2>4, <3>1 DEF LogInv, PassedWasReceived
    <3>2. CASE ~(entries[k] <= after)
      <4>1. k \in Newer(after)
        BY <1>2, <3>2 DEF Newer
      <4>2. Max(page) \in page /\ Max(page) \in 1 .. Len(entries) /\ k <= Max(page)
        <5>1. entries[k] <= entries[Max(page)]
          BY <1>2, <2>2, <2>4
        <5> QED
          BY <1>6, <2>1, <5>1, PageEnds
      <4>3. Before(k) \in SUBSET Before(Max(page))
        BY <1>2, <4>2 DEF Newer
      <4>4. IsFiniteSet(Before(Max(page)))
        <5>1. Before(Max(page)) \in SUBSET (1 .. Len(entries))
          BY <1>2 DEF Newer
        <5>2. IsFiniteSet(1 .. Len(entries))
          BY <1>2, FS_Interval
        <5> QED
          BY <5>1, <5>2, FS_Subset
      <4>5. /\ Cardinality(Before(k)) <= Cardinality(Before(Max(page)))
            /\ Cardinality(Before(k)) \in Nat /\ Cardinality(Before(Max(page))) \in Nat
        BY <4>3, <4>4, FS_Subset, FS_CardinalityType
      <4>6. Cardinality(Before(Max(page))) < PageOf(limit)
        BY <4>2 DEF Since
      <4>7. Cardinality(Before(k)) < PageOf(limit)
        BY <1>4, <4>5, <4>6
      <4>8. k \in page
        BY <4>1, <4>7 DEF Since
      <4> QED
        BY <1>1, <4>8 DEF IdsIn
    <3> QED
      BY <3>1, <3>2
  <2>5. PassedWasReceived'
    BY <1>1, <1>2, <2>4 DEF PassedWasReceived
  <2> QED
    BY <1>3, <2>3, <2>5 DEF LogInv
<1> QED
  BY <1>5, <1>6

LEMMA ReadRecentKeeps == ASSUME LogInv, NEW limit \in Limits, ReadRecent(limit) PROVE LogInv'
<1> DEFINE page == Recent(limit)
<1>1. /\ after' = NextAfter(page, 0) /\ seen' = IdsIn(page)
      /\ blind' = (IF page = {} THEN 0 ELSE entries[Min(page)] - 1)
      /\ UNCHANGED <<entries, next_id>>
  BY DEF ReadRecent
<1>2. /\ entries \in Seq(Nat) /\ Len(entries) \in Nat /\ next_id \in Nat \ {0}
      /\ DOMAIN entries = 1 .. Len(entries) /\ PageOf(limit) \in Nat
  BY LogAssumption DEF LogInv, Consecutive, PageOf
<1>3. Consecutive'
  BY <1>1 DEF LogInv, Consecutive
<1>4. CASE page = {}
  <2>1. after' = 0 /\ blind' = 0
    BY <1>1, <1>4 DEF NextAfter
  <2> QED
    BY <1>2, <1>3, <2>1 DEF LogInv, CursorOK, PassedWasReceived
<1>5. CASE page # {}
  <2>1. page \in SUBSET (1 .. Len(entries))
    BY <1>2 DEF Recent
  <2>2. after' = entries[Max(page)] /\ blind' = entries[Min(page)] - 1
    BY <1>1, <1>5 DEF NextAfter
  <2>3. /\ entries[Max(page)] \in Nat /\ entries[Max(page)] < next_id
        /\ entries[Min(page)] \in Nat \ {0} /\ Min(page) \in page
    BY <1>5, <2>1, PageEnds
  <2>4. CursorOK'
    BY <1>1, <1>2, <2>2, <2>3 DEF CursorOK
  <2>5. ASSUME NEW k \in 1 .. Len(entries), entries[k] \in blind' + 1 .. after'
        PROVE  entries[k] \in seen'
    <3>1. entries[k] \in Nat /\ entries[k] >= entries[Min(page)]
      BY <1>2, <2>2, <2>3, <2>5
    <3>2. k >= Min(page)
      BY <1>5, <2>1, <3>1, PageEnds
    <3>3. Len(entries) - Min(page) < PageOf(limit) /\ Min(page) \in 1 .. Len(entries)
      BY <2>1, <2>3 DEF Recent
    <3>4. k \in page
      BY <1>2, <3>2, <3>3 DEF Recent
    <3> QED
      BY <1>1, <3>4 DEF IdsIn
  <2>6. PassedWasReceived'
    BY <1>1, <1>2, <2>5 DEF PassedWasReceived
  <2> QED
    BY <1>3, <2>4, <2>6 DEF LogInv
<1> QED
  BY <1>4, <1>5

\* Whatever is logged, however small the pages a tailer asks for and however
\* often it is reloaded or the process restarts: the cursor passes no entry of
\* the ring that the tailer did not get, but those behind its first read and
\* those a restart put behind the old cursor.  Capacity and page size are any.
THEOREM LogTailComplete == LogSpec => []PassedWasReceived
<1>1. LogInit => LogInv
  BY DEF LogInit, LogInv, Consecutive, CursorOK, PassedWasReceived
<1>2. LogInv /\ [LogNext]_lvars => LogInv'
  <2> SUFFICES ASSUME LogInv, [LogNext]_lvars PROVE LogInv'
    OBVIOUS
  <2>1. CASE Reload
    BY <2>1 DEF LogInv, Consecutive, CursorOK, PassedWasReceived, Reload
  <2>2. CASE LogRestart
    BY <2>2 DEF LogInv, Consecutive, CursorOK, PassedWasReceived, LogRestart
  <2>3. CASE UNCHANGED lvars
    BY <2>3 DEF LogInv, Consecutive, CursorOK, PassedWasReceived, lvars
  <2> QED
    BY <2>1, <2>2, <2>3, PushKeeps, PollKeeps, ReadRecentKeeps DEF LogNext
<1>3. LogInv => PassedWasReceived
  BY DEF LogInv
<1> QED
  BY <1>1, <1>2, <1>3, PTL DEF LogSpec

-----------------------------------------------------------------------------
(* Listings.  What lies behind the next page is what the client has been   *)
(* offered; a deletion moves at most one name from ahead of it to behind   *)
(* it, unread, and a creation at most one back, to be read again.          *)

LEMMA CountSubset ==
  ASSUME NEW S, IsFiniteSet(S), NEW T, T \subseteq S
  PROVE  /\ IsFiniteSet(T) /\ Cardinality(T) \in Nat /\ Cardinality(S) \in Nat
         /\ Cardinality(T) <= Cardinality(S)
<1>1. T \in SUBSET S
  OBVIOUS
<1> QED
  BY <1>1, FS_Subset, FS_CardinalityType

LEMMA OneMoreAtMost ==
  ASSUME NEW S, IsFiniteSet(S), NEW T, \A x, y \in T \ S : x = y
  PROVE  /\ IsFiniteSet(T) /\ Cardinality(T) \in Nat /\ Cardinality(S) \in Nat
         /\ Cardinality(T) <= Cardinality(S) + 1
<1>1. CASE T \subseteq S
  BY <1>1, CountSubset
<1>2. CASE ~(T \subseteq S)
  <2>1. PICK x \in T : x \notin S
    BY <1>2
  <2>2. T \subseteq S \cup {x}
    BY <2>1
  <2>3. IsFiniteSet(S \cup {x}) /\ Cardinality(S \cup {x}) = Cardinality(S) + 1
    BY <2>1, FS_AddElement
  <2> QED
    BY <2>2, <2>3, CountSubset, FS_CardinalityType
<1> QED
  BY <1>1, <1>2

LEMMA IndexType ==
  ASSUME NEW items \in SUBSET Int, IsFiniteSet(items), NEW n
  PROVE  /\ IsFiniteSet({m \in items : m < n})
         /\ IndexOf(n, items) \in Nat
         /\ Cardinality(items) \in Nat
         /\ n \in items => IndexOf(n, items) < Cardinality(items)
<1> DEFINE B == {m \in items : m < n}
<1>1. IsFiniteSet(B) /\ Cardinality(B) \in Nat /\ Cardinality(items) \in Nat
  BY CountSubset
<1>2. ASSUME n \in items PROVE Cardinality(B) < Cardinality(items)
  <2>1. n \notin B /\ B \cup {n} \subseteq items
    BY <1>2
  <2>2. Cardinality(B \cup {n}) = Cardinality(B) + 1
    BY <1>1, <2>1, FS_AddElement
  <2>3. Cardinality(B \cup {n}) <= Cardinality(items)
    BY <2>1, CountSubset
  <2> QED
    BY <1>1, <2>2, <2>3
<1> QED
  BY <1>1, <1>2 DEF IndexOf

\* Of two names the earlier one has the smaller index.
LEMMA IndexGrows ==
  ASSUME NEW items \in SUBSET Int, IsFiniteSet(items),
         NEW m \in items, NEW n \in Int, m < n
  PROVE  IndexOf(m, items) < IndexOf(n, items)
<1> DEFINE A == {k \in items : k < m}
           B == {k \in items : k < n}
<1>1. IsFiniteSet(A) /\ IsFiniteSet(B) /\ Cardinality(A) \in Nat /\ Cardinality(B) \in Nat
  BY CountSubset
<1>2. m \notin A /\ A \cup {m} \subseteq B
  <2>1. m \in Int /\ m \in B
    OBVIOUS
  <2>2. m \notin A
    BY <2>1
  <2>3. ASSUME NEW k \in A PROVE k \in B
    <3>1. k \in items /\ k \in Int /\ k < m
      OBVIOUS
    <3> QED
      BY <2>1, <3>1
  <2> QED
    BY <2>1, <2>2, <2>3
<1> HIDE DEF A, B
<1>3. Cardinality(A \cup {m}) = Cardinality(A) + 1
  BY <1>1, <1>2, FS_AddElement
<1>4. Cardinality(A \cup {m}) <= Cardinality(B)
  BY <1>1, <1>2, CountSubset
<1>5. Cardinality(A) < Cardinality(B)
  BY <1>1, <1>3, <1>4
<1> QED
  BY <1>5 DEF IndexOf, A, B

LEMMA IndexUnique ==
  ASSUME NEW items \in SUBSET Int, IsFiniteSet(items),
         NEW m \in items, NEW n \in items, IndexOf(m, items) = IndexOf(n, items)
  PROVE  m = n
<1>1. IndexOf(m, items) \in Nat /\ IndexOf(n, items) \in Nat /\ m \in Int /\ n \in Int
  BY IndexType
<1>2. ~(m < n) /\ ~(n < m)
  BY <1>1, IndexGrows
<1> QED
  BY <1>1, <1>2

\* Without a name, the later ones move up by one.
LEMMA IndexShifts ==
  ASSUME NEW items \in SUBSET Int, IsFiniteSet(items), NEW n \in items, NEW m \in Int
  PROVE  IndexOf(m, items) =
           IF n < m THEN IndexOf(m, items \ {n}) + 1 ELSE IndexOf(m, items \ {n})
<1> DEFINE A == {k \in items : k < m}
           B == {k \in items \ {n} : k < m}
<1>1. IsFiniteSet(A) /\ Cardinality(A) \in Nat
  BY CountSubset
<1>2. B = A \ {n} /\ (n \in A <=> n < m)
  OBVIOUS
<1> HIDE DEF A, B
<1>3. Cardinality(B) = IF n < m THEN Cardinality(A) - 1 ELSE Cardinality(A)
  BY <1>1, <1>2, FS_RemoveElement
<1>4. Cardinality(A) = IF n < m THEN Cardinality(B) + 1 ELSE Cardinality(B)
  BY <1>1, <1>3
<1> QED
  BY <1>4 DEF IndexOf, A, B

Behind(items, s) == {n \in items : IndexOf(n, items) < s}

Ahead(items, s) == {n \in items : ~(IndexOf(n, items) < s)}

NextIndex == StartOf(listing.token)

Missed == (Behind(ListTopics, NextIndex) \cap steady) \ received

Twice == Ahead(ListTopics, NextIndex) \cap received

ListType ==
  /\ steady \subseteq present /\ present \subseteq Names
  /\ received \subseteq Names
  /\ repeats \in Nat /\ created \in Nat /\ deleted \in Nat
  /\ listing.token \in Nat \cup {NoToken} /\ listing.size \in PageSizes
  /\ DOMAIN listing = {"of", "size", "token", "on"}

ListInv ==
  /\ ListType /\ MissedPerDeletion
  /\ listing.on => /\ Cardinality(Missed) <= deleted
                   /\ repeats + Cardinality(Twice) <= created

LEMMA ListSets ==
  ASSUME ListType
  PROVE  /\ ListTopics \in SUBSET Int /\ IsFiniteSet(ListTopics)
         /\ NextIndex \in Nat
         /\ IsFiniteSet(Missed) /\ Cardinality(Missed) \in Nat
         /\ IsFiniteSet(Twice) /\ Cardinality(Twice) \in Nat
<1>1. ListTopics \subseteq Names
  BY DEF ListType, ListTopics
<1>2. ListTopics \in SUBSET Int /\ IsFiniteSet(ListTopics)
  BY <1>1, ListAssumption, CountSubset
<1>3. NextIndex \in Nat
  BY DEF NextIndex, StartOf, ListType
<1>4. Missed \subseteq ListTopics /\ Twice \subseteq ListTopics
  BY DEF Missed, Twice, Behind, Ahead
<1> QED
  BY <1>2, <1>3, <1>4, CountSubset

\* A page takes what is next out of what is ahead.
LEMMA PageMoves ==
  ASSUME NEW items \in SUBSET Int, IsFiniteSet(items), NEW s \in Nat, NEW end \in Nat
  PROVE  LET page == Slice(items, s, end)
         IN  /\ page \subseteq Ahead(items, s) /\ page \subseteq items
             /\ Behind(items, end) \subseteq Behind(items, s) \cup page
             /\ s <= end => Ahead(items, end) \subseteq Ahead(items, s) \ page
             /\ items \subseteq Behind(items, Cardinality(items))
<1>1. ASSUME NEW n \in items
      PROVE  IndexOf(n, items) \in Nat /\ IndexOf(n, items) < Cardinality(items)
  BY IndexType
<1>2. ASSUME NEW n \in Slice(items, s, end) PROVE n \in Ahead(items, s) /\ n \in items
  <2>1. n \in items /\ s <= IndexOf(n, items)
    BY DEF Slice
  <2> QED
    BY <1>1, <2>1 DEF Ahead
<1>3. ASSUME NEW n \in Behind(items, end), n \notin Behind(items, s)
      PROVE  n \in Slice(items, s, end)
  <2>1. n \in items /\ IndexOf(n, items) < end /\ ~(IndexOf(n, items) < s)
    BY <1>3 DEF Behind
  <2> QED
    BY <1>1, <2>1 DEF Slice
<1>4. ASSUME s <= end, NEW n \in Ahead(items, end)
      PROVE  n \in Ahead(items, s) /\ n \notin Slice(items, s, end)
  <2>1. n \in items /\ ~(IndexOf(n, items) < end)
    BY DEF Ahead
  <2>2. ~(IndexOf(n, items) < s)
    BY <1>1, <1>4, <2>1
  <2> QED
    BY <2>1, <2>2 DEF Slice, Ahead
<1>5. items \subseteq Behind(items, Cardinality(items))
  BY <1>1 DEF Behind
<1> QED
  BY <1>2, <1>3, <1>4, <1>5

LEMMA NextPageKeeps == ASSUME ListInv, NextPage PROVE ListInv'
<1> DEFINE P == ListTopics
           s == NextIndex
           size == PageSize(listing.size)
           end == EndOf(P, size, listing.token)
           page == Slice(P, s, end)
           next == IF end < Cardinality(P) THEN end ELSE NoToken
<1>1. /\ listing.on /\ (listing.of = "topic" => parent)
      /\ received' = received \cup page
      /\ repeats' = repeats + Cardinality(page \cap received)
      /\ listing' = [listing EXCEPT !.token = next, !.on = next # NoToken]
      /\ UNCHANGED <<present, parent, created, deleted, steady>>
  BY DEF NextPage, Paginate, NextIndex
<1>2. /\ ListType /\ P \in SUBSET Int /\ IsFiniteSet(P) /\ Cardinality(P) \in Nat /\ s \in Nat
      /\ IsFiniteSet(Missed) /\ Cardinality(Missed) \in Nat
      /\ IsFiniteSet(Twice) /\ Cardinality(Twice) \in Nat
      /\ Cardinality(Missed) <= deleted /\ repeats + Cardinality(Twice) <= created
  BY <1>1, ListSets, FS_CardinalityType DEF ListInv
<1>3. /\ size \in Nat \ {0}
      /\ end = (IF s + size < Cardinality(P) THEN s + size ELSE Cardinality(P))
  <2>1. listing.size \in Int
    BY <1>2, ListAssumption DEF ListType
  <2>2. size \in Nat \ {0}
    BY <2>1, ListAssumption DEF PageSize
  <2> QED
    BY <2>2 DEF EndOf, NextIndex
<1>4. /\ end \in Nat /\ (end < Cardinality(P) => s <= end) /\ end <= Cardinality(P)
  BY <1>2, <1>3
<1>5. /\ ListTopics' = P /\ listing'.token = next /\ listing'.on = (next # NoToken)
      /\ listing'.of = listing.of /\ listing'.size = listing.size
      /\ DOMAIN listing' = {"of", "size", "token", "on"}
  BY <1>1, <1>2 DEF ListTopics, ListType
<1>6. /\ end < Cardinality(P) => next = end /\ next # NoToken
      /\ ~(end < Cardinality(P)) => next = NoToken
      /\ next \in Nat \cup {NoToken}
  BY <1>4 DEF NoToken
<1>7. page \subseteq Ahead(P, s) /\ page \subseteq P
  BY <1>2, <1>4, PageMoves
<1> HIDE DEF P, s, size, end, page, next
<1>8. /\ IsFiniteSet(page \cap received) /\ Cardinality(page \cap received) \in Nat
      /\ IsFiniteSet(Twice \ page) /\ Cardinality(Twice \ page) \in Nat
      /\ Cardinality(page \cap received) + Cardinality(Twice \ page) = Cardinality(Twice)
  <2>1. page \cap received = Twice \cap page
    BY <1>7 DEF Twice, s, P
  <2>2. IsFiniteSet(Twice \cap page) /\ Cardinality(Twice \cap page) \in Nat
    BY <1>2, CountSubset
  <2>3. IsFiniteSet(Twice \ page) /\ Cardinality(Twice \ page) \in Nat
    BY <1>2, CountSubset
  <2>4. Cardinality(Twice \ page) = Cardinality(Twice) - Cardinality(Twice \cap page)
    BY <1>2, FS_Difference
  <2>5. Cardinality(Twice \cap page) + Cardinality(Twice \ page) = Cardinality(Twice)
    BY <1>2, <2>2, <2>3, <2>4
  <2> QED
    BY <2>1, <2>2, <2>3, <2>5
<1>9. ListType'
  <2>1. page \subseteq Names
    BY <1>2, <1>7 DEF ListType, ListTopics, P
  <2> QED
    BY <1>1, <1>2, <1>5, <1>8, <1>6, <2>1 DEF ListType
<1>10. repeats' <= created'
  BY <1>1, <1>2, <1>8 DEF ListType
<1>11. CASE end < Cardinality(P)
  <2>0. next = end /\ next # NoToken
    BY <1>6, <1>11
  <2>1. listing'.on /\ NextIndex' = end
    BY <1>5, <2>0 DEF NextIndex, StartOf
  <2>2. Missed' \subseteq Missed
    <3>1. Behind(P, end) \subseteq Behind(P, s) \cup page
      BY <1>2, <1>4, PageMoves DEF page
    <3>2. Missed' = (Behind(P, end) \cap steady) \ received'
      BY <1>1, <1>5, <2>1 DEF Missed
    <3> QED
      BY <1>1, <3>1, <3>2 DEF Missed, s, P
  <2>3. Twice' \subseteq Twice \ page
    <3>1. Ahead(P, end) \subseteq Ahead(P, s) \ page
      BY <1>2, <1>4, <1>11, PageMoves DEF page
    <3>2. Twice' = Ahead(P, end) \cap received'
      BY <1>1, <1>5, <2>1 DEF Twice
    <3> QED
      BY <1>1, <3>1, <3>2 DEF Twice, s, P
  <2>4. Cardinality(Missed') \in Nat /\ Cardinality(Missed') <= Cardinality(Missed)
    BY <1>2, <2>2, CountSubset
  <2>5. Cardinality(Twice') \in Nat /\ Cardinality(Twice') <= Cardinality(Twice \ page)
    BY <1>8, <2>3, CountSubset
  <2>6. Cardinality(Missed') <= deleted' /\ repeats' + Cardinality(Twice') <= created'
    BY <1>1, <1>2, <1>8, <2>4, <2>5 DEF ListType
  <2>7. MissedPerDeletion'
    BY <1>10, <2>1 DEF MissedPerDeletion
  <2> QED
    BY <1>9, <2>6, <2>7 DEF ListInv
<1>12. CASE ~(end < Cardinality(P))
  <2>0. end = Cardinality(P) /\ next = NoToken
    BY <1>2, <1>4, <1>6, <1>12
  <2>1. end = Cardinality(P) /\ ~listing'.on
    BY <1>5, <2>0
  <2>2. P \subseteq Behind(P, s) \cup page
    BY <1>2, <1>4, <2>1, PageMoves DEF page
  <2>3. (steady' \cap Project) \ received' \subseteq Missed
    <3>1. steady \cap Project \subseteq P
      BY <1>2 DEF ListType, ListTopics, P
    <3> QED
      BY <1>1, <2>2, <3>1 DEF Missed, s, P
  <2>4. Cardinality((steady' \cap Project) \ received') \in Nat
        /\ Cardinality((steady' \cap Project) \ received') <= Cardinality(Missed)
    BY <1>2, <2>3, CountSubset
  <2>5. Cardinality((steady' \cap Project) \ received') <= deleted'
    BY <1>1, <1>2, <2>4 DEF ListType
  <2>6. MissedPerDeletion'
    BY <1>10, <2>5 DEF MissedPerDeletion
  <2> QED
    BY <1>9, <2>1, <2>6 DEF ListInv
<1> QED
  BY <1>11, <1>12

\* What is ahead of the cursor stays ahead, and one name more at most falls
\* behind it.
LEMMA DeleteShifts ==
  ASSUME NEW items \in SUBSET Int, IsFiniteSet(items), NEW n, NEW s \in Nat
  PROVE  /\ Ahead(items \ {n}, s) \subseteq Ahead(items, s)
         /\ \A x, y \in Behind(items \ {n}, s) \ Behind(items, s) : x = y
<1> DEFINE less == items \ {n}
<1>1. CASE n \notin items
  <2>1. less = items
    BY <1>1
  <2> QED
    BY <2>1
<1>2. CASE n \in items
  <2>1. ASSUME NEW m \in less
        PROVE  /\ m \in items /\ IndexOf(m, less) \in Nat /\ IndexOf(m, items) \in Nat
               /\ IndexOf(m, less) <= IndexOf(m, items)
               /\ IndexOf(m, items) <= IndexOf(m, less) + 1
    <3>1. less \in SUBSET Int /\ IsFiniteSet(less) /\ m \in items /\ m \in Int
      BY CountSubset
    <3>2. IndexOf(m, less) \in Nat /\ IndexOf(m, items) \in Nat
      BY <3>1, IndexType
    <3>3. IndexOf(m, items) = IF n < m THEN IndexOf(m, less) + 1 ELSE IndexOf(m, less)
      BY <1>2, <3>1, IndexShifts
    <3> QED
      BY <3>1, <3>2, <3>3
  <2>2. ASSUME NEW m \in Ahead(less, s) PROVE m \in Ahead(items, s)
    <3>1. m \in less /\ ~(IndexOf(m, less) < s)
      BY DEF Ahead
    <3>2. ~(IndexOf(m, items) < s)
      BY <2>1, <3>1
    <3> QED
      BY <3>1, <3>2 DEF Ahead
  <2>3. ASSUME NEW m \in Behind(less, s) \ Behind(items, s)
        PROVE  m \in items /\ IndexOf(m, items) = s
    <3>1. m \in less /\ IndexOf(m, less) < s
      BY DEF Behind
    <3>2. m \in items /\ ~(IndexOf(m, items) < s)
      BY <3>1 DEF Behind
    <3> QED
      BY <2>1, <3>1, <3>2
  <2>4. ASSUME NEW x \in Behind(less, s) \ Behind(items, s),
               NEW y \in Behind(less, s) \ Behind(items, s)
        PROVE  x = y
    BY <2>3, IndexUnique
  <2> QED
    BY <2>2, <2>4
<1> QED
  BY <1>1, <1>2

\* What is behind the cursor was behind it, or is new; and one name more at
\* most comes ahead of it: the new one, or the one the new one pushes there.
LEMMA CreateShifts ==
  ASSUME NEW items \in SUBSET Int, IsFiniteSet(items), NEW n \in Int, n \notin items,
         NEW s \in Nat
  PROVE  /\ Behind(items \cup {n}, s) \ {n} \subseteq Behind(items, s)
         /\ \A x, y \in Ahead(items \cup {n}, s) \ Ahead(items, s) : x = y
<1> DEFINE more == items \cup {n}
<1>1. /\ more \in SUBSET Int /\ IsFiniteSet(more) /\ n \in more /\ more \ {n} = items
  BY FS_AddElement
<1>2. ASSUME NEW m \in items
      PROVE  /\ m \in more /\ m \in Int
             /\ IndexOf(m, more) \in Nat /\ IndexOf(m, items) \in Nat
             /\ IndexOf(m, more) = IF n < m THEN IndexOf(m, items) + 1 ELSE IndexOf(m, items)
  <2>1. m \in more /\ m \in Int
    OBVIOUS
  <2>2. IndexOf(m, more) \in Nat /\ IndexOf(m, items) \in Nat
    BY <1>1, IndexType
  <2>3. IndexOf(m, more) = IF n < m THEN IndexOf(m, more \ {n}) + 1 ELSE IndexOf(m, more \ {n})
    BY <1>1, <2>1, IndexShifts
  <2> QED
    BY <1>1, <2>1, <2>2, <2>3
<1> HIDE DEF more
<1>3. ASSUME NEW m \in Behind(more, s) \ {n} PROVE m \in Behind(items, s)
  <2>1. m \in items /\ IndexOf(m, more) < s
    BY DEF Behind, more
  <2>2. IndexOf(m, items) < s
    BY <1>2, <2>1
  <2> QED
    BY <2>1, <2>2 DEF Behind
<1>4. ASSUME NEW m \in Ahead(more, s) \ Ahead(items, s), m # n
      PROVE  m \in items /\ n < m /\ IndexOf(m, more) = s
  <2>1. m \in items /\ ~(IndexOf(m, more) < s)
    BY <1>4 DEF Ahead, more
  <2>2. IndexOf(m, items) < s
    BY <2>1 DEF Ahead
  <2> QED
    BY <1>2, <2>1, <2>2
<1>5. ASSUME NEW m \in Ahead(more, s) \ Ahead(items, s), m # n, n \in Ahead(more, s)
      PROVE  FALSE
  <2>1. m \in items /\ m \in Int /\ n < m /\ IndexOf(m, more) = s
    BY <1>4, <1>5
  <2>2. IndexOf(n, more) < s
    BY <1>1, <2>1, IndexGrows
  <2> QED
    BY <1>5, <2>2 DEF Ahead
<1>6. ASSUME NEW x \in Ahead(more, s) \ Ahead(items, s),
             NEW y \in Ahead(more, s) \ Ahead(items, s)
      PROVE  x = y
  <2>1. CASE x = n \/ y = n
    BY <1>5, <2>1
  <2>2. CASE x # n /\ y # n
    <3>1. /\ x \in more /\ y \in more
          /\ IndexOf(x, more) = s /\ IndexOf(y, more) = s
      BY <1>2, <1>4, <2>2
    <3> QED
      BY <1>1, <3>1, IndexUnique
  <2> QED
    BY <2>1, <2>2
<1> QED
  BY <1>3, <1>6 DEF more

LEMMA DeleteKeeps == ASSUME ListInv, NEW n \in Names, Delete(n) PROVE ListInv'
<1> DEFINE P == ListTopics
           s == NextIndex
<1>1. /\ listing.on /\ n \in present
      /\ present' = present \ {n} /\ deleted' = deleted + 1 /\ steady' = steady \ {n}
      /\ UNCHANGED <<parent, listing, received, repeats, created>>
  BY DEF Delete
<1>2. /\ ListType /\ P \in SUBSET Int /\ IsFiniteSet(P) /\ s \in Nat
      /\ IsFiniteSet(Missed) /\ Cardinality(Missed) \in Nat
      /\ IsFiniteSet(Twice) /\ Cardinality(Twice) \in Nat
      /\ Cardinality(Missed) <= deleted /\ repeats + Cardinality(Twice) <= created
      /\ repeats <= created
  BY <1>1, ListSets DEF ListInv, MissedPerDeletion
<1>3. ListType'
  BY <1>1, <1>2 DEF ListType
<1>4. ListTopics' = P \ {n} /\ NextIndex' = s
  BY <1>1 DEF ListTopics, NextIndex
<1>5. /\ Missed' = (Behind(P \ {n}, s) \cap steady') \ received
      /\ Twice' = Ahead(P \ {n}, s) \cap received
  BY <1>1, <1>4 DEF Missed, Twice
<1>6. /\ Missed = (Behind(P, s) \cap steady) \ received
      /\ Twice = Ahead(P, s) \cap received
  BY DEF Missed, Twice
<1> HIDE DEF P, s
<1>7. \A x, y \in Missed' \ Missed : x = y
  <2>1. Missed' \ Missed \subseteq Behind(P \ {n}, s) \ Behind(P, s)
    BY <1>1, <1>5, <1>6
  <2> QED
    BY <1>2, <2>1, DeleteShifts
<1>8. Twice' \subseteq Twice
  <2>1. Ahead(P \ {n}, s) \subseteq Ahead(P, s)
    BY <1>2, DeleteShifts
  <2> QED
    BY <1>5, <1>6, <2>1
<1>9. Cardinality(Missed') \in Nat /\ Cardinality(Missed') <= Cardinality(Missed) + 1
  BY <1>2, <1>7, OneMoreAtMost
<1>10. Cardinality(Twice') \in Nat /\ Cardinality(Twice') <= Cardinality(Twice)
  BY <1>2, <1>8, CountSubset
<1>11. Cardinality(Missed') <= deleted' /\ repeats' + Cardinality(Twice') <= created'
  BY <1>1, <1>2, <1>9, <1>10 DEF ListType
<1>12. MissedPerDeletion'
  BY <1>1, <1>2 DEF MissedPerDeletion
<1> QED
  BY <1>3, <1>11, <1>12 DEF ListInv

LEMMA CreateKeeps == ASSUME ListInv, NEW n \in Names, Create(n) PROVE ListInv'
<1> DEFINE P == ListTopics
           s == NextIndex
<1>1. /\ listing.on /\ n \notin present
      /\ present' = present \cup {n} /\ created' = created + 1
      /\ UNCHANGED <<parent, listing, received, repeats, deleted, steady>>
  BY DEF Create
<1>2. /\ ListType /\ P \in SUBSET Int /\ IsFiniteSet(P) /\ s \in Nat
      /\ IsFiniteSet(Missed) /\ Cardinality(Missed) \in Nat
      /\ IsFiniteSet(Twice) /\ Cardinality(Twice) \in Nat
      /\ Cardinality(Missed) <= deleted /\ repeats + Cardinality(Twice) <= created
      /\ repeats <= created
  BY <1>1, ListSets DEF ListInv, MissedPerDeletion
<1>3. ListType'
  BY <1>1, <1>2 DEF ListType
<1>4. /\ n \in Int /\ n \notin P /\ n \notin steady /\ NextIndex' = s
      /\ ListTopics' = IF n \in Project THEN P \cup {n} ELSE P
  BY <1>1, <1>2, ListAssumption DEF ListTopics, NextIndex, ListType
<1>5. /\ Missed = (Behind(P, s) \cap steady) \ received
      /\ Twice = Ahead(P, s) \cap received
  BY DEF Missed, Twice
<1>6. /\ Missed' = (Behind(ListTopics', s) \cap steady) \ received
      /\ Twice' = Ahead(ListTopics', s) \cap received
  BY <1>1, <1>4 DEF Missed, Twice
<1> HIDE DEF P, s
<1>7. Missed' \subseteq Missed /\ \A x, y \in Twice' \ Twice : x = y
  <2>1. CASE n \in Project
    <3>1. ListTopics' = P \cup {n}
      BY <1>4, <2>1
    <3>2. /\ Behind(P \cup {n}, s) \ {n} \subseteq Behind(P, s)
          /\ \A x, y \in Ahead(P \cup {n}, s) \ Ahead(P, s) : x = y
      BY <1>2, <1>4, CreateShifts
    <3>3. Twice' \ Twice \subseteq Ahead(P \cup {n}, s) \ Ahead(P, s)
      BY <1>5, <1>6, <3>1
    <3> QED
      BY <1>4, <1>5, <1>6, <3>1, <3>2, <3>3
  <2>2. CASE n \notin Project
    BY <1>4, <1>5, <1>6, <2>2
  <2> QED
    BY <2>1, <2>2
<1>8. Cardinality(Missed') \in Nat /\ Cardinality(Missed') <= Cardinality(Missed)
  BY <1>2, <1>7, CountSubset
<1>9. Cardinality(Twice') \in Nat /\ Cardinality(Twice') <= Cardinality(Twice) + 1
  BY <1>2, <1>7, OneMoreAtMost
<1>10. Cardinality(Missed') <= deleted' /\ repeats' + Cardinality(Twice') <= created'
  BY <1>1, <1>2, <1>8, <1>9 DEF ListType
<1>11. MissedPerDeletion'
  BY <1>1, <1>2 DEF MissedPerDeletion, ListType
<1> QED
  BY <1>3, <1>10, <1>11 DEF ListInv

\* However many names there are, whatever page size is asked for and whatever is
\* created and deleted between two pages: a complete listing misses no more of
\* the names that were there all along than were deleted under it, and repeats
\* no more than were created.  Nothing is missed while nothing is deleted.
THEOREM ListingLosesOnePerDeletion == ListSpec => []MissedPerDeletion
<1>1. ListInit => ListInv
  <2> SUFFICES ASSUME ListInit PROVE ListInv
    OBVIOUS
  <2>1. /\ listing.token = NoToken /\ listing.on /\ listing.size \in PageSizes
        /\ DOMAIN listing = {"of", "size", "token", "on"}
        /\ received = {} /\ repeats = 0 /\ created = 0 /\ deleted = 0
        /\ steady = present /\ present \subseteq Names
    BY DEF ListInit
  <2>2. ListType
    BY <2>1 DEF ListType
  <2>3. NextIndex = 0
    BY <2>1 DEF NextIndex, StartOf
  <2>4. Missed = {} /\ Twice = {}
    <3>1. \A n \in ListTopics : IndexOf(n, ListTopics) \in Nat
      BY <2>2, ListSets, IndexType
    <3>2. Behind(ListTopics, 0) = {}
      BY <3>1 DEF Behind
    <3> QED
      BY <2>1, <2>3, <3>2 DEF Missed, Twice
  <2> QED
    BY <2>1, <2>2, <2>4, FS_EmptySet DEF ListInv, MissedPerDeletion
<1>2. ListInv /\ [ListNext]_gvars => ListInv'
  <2> SUFFICES ASSUME ListInv, [ListNext]_gvars PROVE ListInv'
    OBVIOUS
  <2>1. CASE TopicGone
    <3>1. /\ listing.of = "topic" /\ ~parent /\ listing' = [listing EXCEPT !.on = FALSE]
          /\ UNCHANGED <<present, parent, received, repeats, created, deleted, steady>>
      BY <2>1 DEF TopicGone
    <3>2. /\ ~listing'.on /\ listing'.of = "topic" /\ listing'.token = listing.token
          /\ listing'.size = listing.size /\ DOMAIN listing' = DOMAIN listing
      BY <3>1 DEF ListInv, ListType
    <3> QED
      BY <3>1, <3>2 DEF ListInv, ListType, MissedPerDeletion
  <2>2. CASE DeleteParent
    BY <2>2 DEF DeleteParent, ListInv, ListType, MissedPerDeletion, Missed, Twice,
                NextIndex, ListTopics
  <2>3. CASE UNCHANGED gvars
    BY <2>3 DEF gvars, ListInv, ListType, MissedPerDeletion, Missed, Twice,
                NextIndex, ListTopics
  <2> QED
    BY <2>1, <2>2, <2>3, NextPageKeeps, DeleteKeeps, CreateKeeps DEF ListNext
<1>3. ListInv => MissedPerDeletion
  BY DEF ListInv
<1> QED
  BY <1>1, <1>2, <1>3, PTL DEF ListSpec

-----------------------------------------------------------------------------
(* Redeliveries.  The delay is stated with powers of two and computed by   *)
(* shifts; since there are eleven of them they are compared one by one.    *)

LEMMA ShiftIsPower ==
  ASSUME NEW k \in 0 .. 10
  PROVE  PowersOfTwo[k + 1] = 2 ^ k
<1>1. CASE k = 0
  BY <1>1 DEF PowersOfTwo
<1>2. CASE k = 1
  BY <1>2 DEF PowersOfTwo
<1>3. CASE k = 2
  BY <1>3 DEF PowersOfTwo
<1>4. CASE k = 3
  BY <1>4 DEF PowersOfTwo
<1>5. CASE k = 4
  BY <1>5 DEF PowersOfTwo
<1>6. CASE k = 5
  BY <1>6 DEF PowersOfTwo
<1>7. CASE k = 6
  BY <1>7 DEF PowersOfTwo
<1>8. CASE k = 7
  BY <1>8 DEF PowersOfTwo
<1>9. CASE k = 8
  BY <1>9 DEF PowersOfTwo
<1>10. CASE k = 9
  BY <1>10 DEF PowersOfTwo
<1>11. CASE k = 10
  BY <1>11 DEF PowersOfTwo
<1> QED
  BY <1>1, <1>2, <1>3, <1>4, <1>5, <1>6, <1>7, <1>8, <1>9, <1>10, <1>11

LEMMA FactorIsPower ==
  ASSUME NEW n \in Nat \ {0}
  PROVE  /\ BackoffFactor(n) = 2 ^ Smaller(n - 1, 10)
         /\ BackoffFactor(n) \in Nat \ {0}
<1> DEFINE k == Smaller(n - 1, 10)
<1>1. k \in 0 .. 10 /\ BackoffExponent(n) = k + 1
  BY DEF BackoffExponent, Smaller
<1>2. PowersOfTwo[k + 1] \in Nat \ {0}
  BY <1>1 DEF PowersOfTwo
<1> QED
  BY <1>1, <1>2, ShiftIsPower DEF BackoffFactor

LEMMA PolicyBounds ==
  ASSUME NEW retry \in RetryPolicy \cup {NoRetry}
  PROVE  /\ LowerBackoff(retry) \in Nat /\ UpperBackoff(retry) \in Nat
         /\ LowerBackoff(retry) <= UpperBackoff(retry)
         /\ UpperBackoff(retry) <= MaxU32 /\ MaxU32 \in Nat
<1>1. CASE retry = NoRetry
  BY <1>1, PolicyAssumption DEF LowerBackoff, UpperBackoff
<1>2. CASE retry # NoRetry
  <2>1. /\ retry.min \in Nat /\ retry.max \in Nat /\ MaxU32 \in Nat
        /\ retry.min <= MaxU32 /\ retry.max <= MaxU32
    BY <1>2, PolicyAssumption DEF RetryPolicy, U32
  <2> QED
    BY <1>2, <2>1 DEF LowerBackoff, UpperBackoff
<1> QED
  BY <1>1, <1>2

\* A u32 multiplication that saturates is above every maximum a policy has.
LEMMA DelayIsProduct ==
  ASSUME NEW retry \in RetryPolicy \cup {NoRetry}, NEW n \in Nat \ {0}
  PROVE  BackoffSeconds(retry, n) =
           Smaller(UpperBackoff(retry), LowerBackoff(retry) * BackoffFactor(n))
<1> DEFINE lo == LowerBackoff(retry)
           hi == UpperBackoff(retry)
           f == BackoffFactor(n)
           delay == lo * f
<1>1. lo \in Nat /\ hi \in Nat /\ lo <= hi /\ hi <= MaxU32 /\ MaxU32 \in Nat
  BY PolicyBounds
<1>2. f \in Nat /\ 1 <= f
  BY FactorIsPower
<1>3. BackoffSeconds(retry, n) =
        IF hi = 0 THEN 0
        ELSE Clamp(SaturatingMul(lo, f), lo, IF hi > 1 THEN hi ELSE 1)
  BY DEF BackoffSeconds
<1>4. SaturatingMul(lo, f) = IF delay > MaxU32 THEN MaxU32 ELSE delay
  BY DEF SaturatingMul
<1> HIDE DEF lo, hi, f
<1>5. delay \in Nat /\ lo <= delay /\ (lo = 0 => delay = 0)
  BY <1>1, <1>2
<1> HIDE DEF delay
<1>6. BackoffSeconds(retry, n) = Smaller(hi, delay)
  BY <1>1, <1>3, <1>4, <1>5 DEF Clamp, Smaller
<1> QED
  BY <1>6 DEF lo, hi, f, delay

BackoffInv == policy \in RetryPolicy \cup {NoRetry} /\ attempt \in Nat \ {0}

LEMMA BackoffInvHolds == BackoffSpec => []BackoffInv
<1>1. BackoffInit => BackoffInv
  BY DEF BackoffInit, BackoffInv
<1>2. BackoffInv /\ [Redeliver]_rvars => BackoffInv'
  BY DEF BackoffInv, Redeliver, rvars
<1> QED
  BY <1>1, <1>2, PTL DEF BackoffSpec

\* However often a message is redelivered, under every retry policy, the wait is
\* the minimum doubled per redelivery and cut off at the maximum.
THEOREM BackoffIsExact == BackoffSpec => []BackoffExact
<1>1. BackoffInv => BackoffExact
  BY DelayIsProduct, FactorIsPower DEF BackoffInv, BackoffExact
<1> QED
  BY <1>1, BackoffInvHolds, PTL

LEMMA FactorGrows ==
  ASSUME NEW n \in Nat \ {0}
  PROVE  BackoffFactor(n) <= BackoffFactor(n + 1)
<1>1. /\ BackoffExponent(n) \in 1 .. 11 /\ BackoffExponent(n + 1) \in 1 .. 11
      /\ BackoffExponent(n) <= BackoffExponent(n + 1)
  BY DEF BackoffExponent
<1>2. ASSUME NEW i \in 1 .. 11, NEW j \in 1 .. 11, i <= j
      PROVE  PowersOfTwo[i] <= PowersOfTwo[j]
  BY <1>2 DEF PowersOfTwo
<1> QED
  BY <1>1, <1>2 DEF BackoffFactor

\* No redelivery waits less than the one before, under every retry policy.
THEOREM BackoffNeverShrinks == BackoffSpec => BackoffGrows
<1>1. ASSUME BackoffInv, Redeliver
      PROVE  BackoffSeconds(policy, attempt') >= BackoffSeconds(policy, attempt)
  <2> DEFINE lo == LowerBackoff(policy)
             hi == UpperBackoff(policy)
             f == BackoffFactor(attempt)
             g == BackoffFactor(attempt')
  <2>1. /\ policy \in RetryPolicy \cup {NoRetry} /\ attempt \in Nat \ {0}
        /\ attempt' = attempt + 1 /\ attempt' \in Nat \ {0}
    BY <1>1 DEF BackoffInv, Redeliver
  <2>2. lo \in Nat /\ hi \in Nat
    BY <2>1, PolicyBounds
  <2>3. f \in Nat /\ g \in Nat /\ f <= g
    BY <2>1, FactorIsPower, FactorGrows
  <2>4. /\ BackoffSeconds(policy, attempt) = Smaller(hi, lo * f)
        /\ BackoffSeconds(policy, attempt') = Smaller(hi, lo * g)
    BY <2>1, DelayIsProduct
  <2> HIDE DEF lo, hi, f, g
  <2>5. lo * f \in Nat /\ lo * g \in Nat /\ lo * f <= lo * g
    BY <2>2, <2>3
  <2> QED
    BY <2>2, <2>4, <2>5 DEF Smaller
<1>2. BackoffInv /\ [Redeliver]_rvars =>
        [BackoffSeconds(policy, attempt') >= BackoffSeconds(policy, attempt)]_attempt
  BY <1>1 DEF rvars
<1> QED
  BY <1>2, BackoffInvHolds, PTL DEF BackoffSpec, BackoffGrows
=============================================================================

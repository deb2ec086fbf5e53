--------------------------- MODULE Authentication ---------------------------
(***************************************************************************)
(* The authenticator of src/auth.rs that both doors share: a static token, *)
(* or a JWT checked against the identity provider's keys, which are cached *)
(* for a while after each fetch.                                           *)
(*                                                                         *)
(* A key set is the number of the provider's rotations before it; a JWT is *)
(* accepted when the keys at hand are those that signed it.  The fetch is  *)
(* awaited without a lock and without a timeout, so several calls may      *)
(* fetch at once and their answers arrive in any order.                    *)
(***************************************************************************)
EXTENDS Integers, Sequences

CONSTANTS
  Calls,        \* concurrent requests to the gateway
  Ttl,          \* 300 seconds
  Travel,       \* bound: ticks a response of the provider may be on its way
  MaxTime,      \* bound: ticks
  MaxRotations, \* bound: rotations of the provider's keys
  Projects,     \* projects of the resources that are asked for
  Allowed       \* allowed_projects of the accepted identity; {}: no restriction

ASSUME AuthAssumption == Ttl \in Nat \ {0} /\ Travel \in Nat

VARIABLES
  now,
  keys,       \* the provider's current key set
  since,      \* history: when each past key set was replaced
  cache,      \* jwks_cache: Nothing or [at, keys]
  calls,      \* each request: what it waits for, or its outcome
  used        \* history: the latest use of a key set, and when

avars == <<now, keys, since, cache, calls, used>>

Nothing == [at |-> -1, keys |-> -1]

Waiting(c, step) == calls[c].step = step

AuthInit ==
  /\ now = 0
  /\ keys = 0 /\ since = <<>>
  /\ cache = Nothing
  /\ calls = [c \in Calls |-> [step |-> "new"]]
  /\ used = Nothing

\* The cache answers until it is Ttl old, counted from the arrival of the keys.
BadFresh == cache # Nothing

Fresh == cache # Nothing /\ now - cache.at < Ttl

\* authorize_resource, after a successful authentication.
AuthorizeResource(project) == Allowed = {} \/ Allowed \cap {project, "*"} # {}

Outcome(signer, project, with) ==
  [step |-> IF signer # with THEN "unauthenticated"
            ELSE IF AuthorizeResource(project) THEN "granted" ELSE "denied"]

\* authenticate_bearer: a request without the token the configuration asks
\* for fails, one with the static token is done.
AuthenticateBearer(c) ==
  /\ Waiting(c, "new")
  /\ \/ calls' = [calls EXCEPT ![c] = [step |-> "unauthenticated"]]
     \/ \E project \in Projects :
          calls' = [calls EXCEPT ![c] =
            [step |-> IF AuthorizeResource(project) THEN "granted" ELSE "denied"]]
  /\ UNCHANGED <<now, keys, since, cache, used>>

\* authenticate_jwt with keys from the cache.
UseCache(c, signer, project) ==
  /\ Waiting(c, "new")
  /\ Fresh
  /\ calls' = [calls EXCEPT ![c] = Outcome(signer, project, cache.keys)]
  /\ used' = [at |-> now, keys |-> cache.keys]
  /\ UNCHANGED <<now, keys, since, cache>>

\* The read lock is released before the provider is asked.
Fetch(c, signer, project) ==
  /\ Waiting(c, "new")
  /\ ~Fresh
  /\ calls' = [calls EXCEPT ![c] = [step |-> "fetch", signer |-> signer, project |-> project]]
  /\ UNCHANGED <<now, keys, since, cache, used>>

\* The provider answers with its keys of that moment (external).
Provide(c) ==
  /\ Waiting(c, "fetch")
  /\ calls' = [calls EXCEPT ![c] =
       [step |-> "travel", signer |-> @.signer, project |-> @.project,
        keys |-> keys, left |-> Travel]]
  /\ UNCHANGED <<now, keys, since, cache, used>>

\* The age of the keys counts from their arrival, and an answer that took
\* longer overwrites newer keys.
Arrived(c) ==
  /\ Waiting(c, "travel")
  /\ cache' = [at |-> now, keys |-> calls[c].keys]
  /\ used' = [at |-> now, keys |-> calls[c].keys]
  /\ calls' = [calls EXCEPT ![c] = Outcome(@.signer, @.project, @.keys)]
  /\ UNCHANGED <<now, keys, since>>

\* The cached entry stays, and the call fails.
FetchFails(c) ==
  /\ calls[c].step \in {"fetch", "travel"}
  /\ calls' = [calls EXCEPT ![c] = [step |-> "unauthenticated"]]
  /\ UNCHANGED <<now, keys, since, cache, used>>

\* The next request of the same client.
Again(c) ==
  /\ calls[c].step \in {"granted", "denied", "unauthenticated"}
  /\ calls' = [calls EXCEPT ![c] = [step |-> "new"]]
  /\ UNCHANGED <<now, keys, since, cache, used>>

\* The provider replaces its keys (external).
Rotate ==
  /\ keys < MaxRotations
  /\ since' = Append(since, now)
  /\ keys' = keys + 1
  /\ UNCHANGED <<now, cache, calls, used>>

\* No response is on its way for longer than Travel.
Second ==
  /\ now < MaxTime
  /\ \A c \in Calls : Waiting(c, "travel") => calls[c].left > 0
  /\ now' = now + 1
  /\ calls' = [c \in Calls |->
       IF Waiting(c, "travel") THEN [calls[c] EXCEPT !.left = @ - 1] ELSE calls[c]]
  /\ UNCHANGED <<keys, since, cache, used>>

AuthNext ==
  \/ Rotate \/ Second
  \/ \E c \in Calls :
       \/ AuthenticateBearer(c) \/ Provide(c) \/ Arrived(c) \/ FetchFails(c) \/ Again(c)
       \/ \E signer \in 0 .. keys, project \in Projects :
            UseCache(c, signer, project) \/ Fetch(c, signer, project)

AuthSpec == AuthInit /\ [][AuthNext]_avars

\* Keys the provider has replaced stop counting: no token is checked against
\* them once a response under way at the time and the cache's time to live are
\* over, although a slow fetch may put them back after newer ones.
RetiredKeysUnused ==
  used # Nothing /\ used.keys < keys =>
    used.at < since[used.keys + 1] + Travel + Ttl
=============================================================================

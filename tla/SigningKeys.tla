----------------------------- MODULE SigningKeys -----------------------------
(***************************************************************************)
(* PyJWTSigningKeyProvider.signing_key and _BoundedPyJWKClient: the key of *)
(* a token is looked up in a cached copy of the issuer's key set, fetched  *)
(* anew when it is older than its lifespan, and otherwise on a refresh for *)
(* unknown keys that two cooldowns limit.  Its last lookup goes through    *)
(* the client library's own cache of single keys, which does not expire.   *)
(***************************************************************************)
EXTENDS Naturals

CONSTANTS
  Kids,      \* key ids that tokens name
  Keys,      \* the ones among them that the issuer may have
  Life,      \* jwks_cache_seconds, also the cooldown of forced refreshes
  Cooldown,  \* UNKNOWN_KID_REFRESH_COOLDOWN_SECONDS
  LastNow    \* bound: the clock

VARIABLES
  now,        \* monotonic clock
  published,  \* the issuer's keys
  since,      \* when each key was last published
  cached,     \* the cached key set
  fetched,    \* when it was fetched, or 0 when there is none
  single,     \* keys in the client's cache of single keys
  triedAt,    \* _last_unknown_kid_refresh_at
  nextForced, \* _next_forced_refresh_at
  result      \* what a request came to, until something else changes

vars == <<now, published, since, cached, fetched, single, triedAt, nextForced, result>>

-----------------------------------------------------------------------------

None == [kid |-> CHOOSE k \in Kids : TRUE, how |-> "none"]
Answer(k, how) == result' = [kid |-> k, how |-> how]

\* The cache of the key set serves until it is older than its lifespan.
ServesForever == fetched # 0  \* mutant
Serves == fetched # 0 /\ now <= fetched + Life

\* _last_unknown_kid_refresh_at and _next_forced_refresh_at
MayTry == now >= triedAt + Cooldown
MayForce == now >= nextForced

Init ==
  /\ now \in 1..2
  /\ published \in SUBSET Keys
  /\ since = [k \in Keys |-> 0]
  /\ cached = {} /\ fetched = 0
  /\ single = {}
  /\ triedAt = 0 /\ nextForced = 0
  /\ result = None

Tick ==
  /\ now < LastNow
  /\ now' = now + 1
  /\ result' = None
  /\ UNCHANGED <<published, since, cached, fetched, single, triedAt, nextForced>>

Publish(k) ==
  /\ k \in Keys \ published
  /\ published' = published \cup {k}
  /\ since' = [since EXCEPT ![k] = now]
  /\ result' = None
  /\ UNCHANGED <<now, cached, fetched, single, triedAt, nextForced>>

Withdraw(k) ==
  /\ k \in published
  /\ published' = published \ {k}
  /\ since' = [since EXCEPT ![k] = 0]
  /\ result' = None
  /\ UNCHANGED <<now, cached, fetched, single, triedAt, nextForced>>

\* get_signing_keys: an expired cache is filled from the issuer, and emptied by a
\* fetch that fails.
Refill == cached' = published /\ fetched' = now
Forget == cached' = {} /\ fetched' = 0
KnownSet == IF Serves THEN cached ELSE published

\* The key set as cached, or fetched just now, has the key.
Matched(k) ==
  /\ k \in KnownSet
  /\ IF Serves THEN UNCHANGED <<cached, fetched>> ELSE Refill
  /\ Answer(k, "found")
  /\ UNCHANGED <<now, published, since, single, triedAt, nextForced>>

\* The issuer does not answer a refill, nor the second attempt if one is made.
FetchFails(k) ==
  /\ ~Serves
  /\ ~(MayTry /\ k \in single)
  /\ Forget
  /\ Answer(k, "unreachable")
  /\ triedAt' = IF MayTry THEN now ELSE triedAt
  /\ UNCHANGED <<now, published, since, single, nextForced>>

\* The refill failed, the second attempt of the unknown-key path succeeds.
SecondFetch(k) ==
  /\ ~Serves
  /\ MayTry /\ k \notin single
  /\ k \in published
  /\ Refill
  /\ single' = single \cup {k}
  /\ triedAt' = now
  /\ Answer(k, "found")
  /\ UNCHANGED <<now, published, since, nextForced>>

RateLimited(k) ==
  /\ k \notin KnownSet
  /\ ~MayTry
  /\ IF Serves THEN UNCHANGED <<cached, fetched>> ELSE Refill
  /\ Answer(k, "unknown")
  /\ UNCHANGED <<now, published, since, single, triedAt, nextForced>>

\* The client's cache of single keys answers whatever the key set says.
FoundSingle(k) ==
  /\ MayTry
  /\ k \in single
  /\ \/ k \notin KnownSet /\ IF Serves THEN UNCHANGED <<cached, fetched>> ELSE Refill
     \/ ~Serves /\ Forget
  /\ triedAt' = now
  /\ Answer(k, "found")
  /\ UNCHANGED <<now, published, since, single, nextForced>>

ForcedRefresh(k) ==
  /\ k \notin KnownSet
  /\ MayTry /\ k \notin single
  /\ MayForce
  /\ Refill
  /\ triedAt' = now
  /\ nextForced' = now + Life
  /\ IF k \in published
     THEN Answer(k, "found") /\ single' = single \cup {k}
     ELSE Answer(k, "unknown") /\ UNCHANGED single
  /\ UNCHANGED <<now, published, since>>

\* The forced refresh is claimed before the issuer is asked.
ForcedRefreshFails(k) ==
  /\ k \notin KnownSet
  /\ MayTry /\ k \notin single
  /\ MayForce
  /\ Forget
  /\ triedAt' = now
  /\ nextForced' = now + Life
  /\ Answer(k, "unreachable")
  /\ UNCHANGED <<now, published, since, single>>

CoolingDown(k) ==
  /\ k \notin KnownSet
  /\ MayTry /\ k \notin single
  /\ ~MayForce
  /\ IF Serves THEN UNCHANGED <<cached, fetched>> ELSE Refill
  /\ triedAt' = now
  /\ Answer(k, "unknown")
  /\ UNCHANGED <<now, published, since, single, nextForced>>

Next ==
  \/ Tick
  \/ \E k \in Kids :
       \/ Publish(k) \/ Withdraw(k)
       \/ Matched(k) \/ FetchFails(k) \/ SecondFetch(k)
       \/ RateLimited(k) \/ FoundSingle(k)
       \/ ForcedRefresh(k) \/ ForcedRefreshFails(k) \/ CoolingDown(k)

Spec == Init /\ [][Next]_vars

-----------------------------------------------------------------------------
(* Correctness *)

TypeOK ==
  /\ now \in 1..LastNow
  /\ published \subseteq Keys /\ cached \subseteq Keys /\ single \subseteq Keys
  /\ since \in [Keys -> 0..LastNow]
  /\ fetched \in 0..LastNow
  /\ triedAt \in 0..LastNow
  /\ nextForced \in 0..LastNow + Life
  /\ result \in [kid : Kids, how : {"none", "found", "unknown", "unreachable"}]

\* Whoever used up the refreshes with unknown keys, a key the issuer has
\* published for longer than the lifespan is found unless the issuer cannot
\* be reached: the cooldowns delay a rotated key, they never lose it.
NewKeyIsFound ==
  result.how = "unknown" /\ result.kid \in published =>
    now <= since[result.kid] + Life

=============================================================================

----------------------------- MODULE JwksCache -----------------------------
(***************************************************************************)
(* The signing-key (JWKS) cache behind JWT authentication, app/security/   *)
(* auth.py.  Every request that carries a bearer token runs validate_token *)
(* as a coroutine of one event loop: it looks the token's kid up in the    *)
(* cached key set, refreshes the set under an asyncio.Lock when the cache  *)
(* is empty or expired, and forces one more refresh when the kid is not in *)
(* the set.  A coroutine is interleaved with the others only where it      *)
(* awaits, so one action below is the code between two awaits.             *)
(***************************************************************************)
EXTENDS Integers, Sequences

CONSTANTS
  Requests,   \* slots for concurrent requests; a slot is reused when done
  Kids,       \* key ids the identity provider may publish
  None,       \* _jwks_cache is None
  NoKid,      \* a token without usable header or kid, or no bearer token
  TTL,        \* JWKS_CACHE_TTL_SECONDS
  MaxClock    \* bound on the model's clock

ASSUME TTLAssumption == TTL \in Nat \ {0}
ASSUME ClockAssumption == MaxClock \in Nat
ASSUME NoneAssumption == \A ks \in SUBSET Kids : None # ks
ASSUME NoKidAssumption == NoKid \notin Kids

VARIABLES
  clock,        \* time.monotonic()
  provider,     \* the kids the identity provider publishes now
  withdrawnAt,  \* since when the provider no longer publishes a kid (history)
  cache,        \* _jwks_cache: None or the kids of the payload
  cachedAt,     \* _jwks_cached_at
  lock,         \* _jwks_lock: its holder first, then the waiters in order
  pc,           \* where each request is suspended
  kid,          \* the kid of each request's token
  force,        \* the force_refresh argument of the running _fetch_jwks
  now,          \* the local `now` of the running _fetch_jwks
  payload,      \* the provider's answer to the request's GET
  steady,       \* has the provider published kid since the request began? (history)
  verdict       \* what validate_token returned or raised in the last step

cacheVars == <<cache, cachedAt>>
providerVars == <<provider, withdrawnAt>>
callVars == <<pc, kid, force, now, payload, steady>>
vars == <<clock, providerVars, cacheVars, lock, callVars, verdict>>

\* withdrawnAt of a key that is published, or never was.
Never == 0 - TTL

InGet == {"fetching", "answered"}
Results == {"none", "accepted", "invalid", "unknown_kid", "unavailable"}
NoVerdict == [result |-> "none", kid |-> NoKid, now |-> 0, steady |-> FALSE]

Holds(r) == lock # <<>> /\ Head(lock) = r

TypeOK ==
  /\ clock \in 0..MaxClock
  /\ provider \in SUBSET Kids
  /\ withdrawnAt \in [Kids -> Int]
  /\ cache = None \/ cache \in SUBSET Kids
  /\ cachedAt \in Nat
  /\ lock \in Seq(Requests)
  /\ pc \in [Requests -> {"idle", "locking"} \cup InGet]
  /\ kid \in [Requests -> Kids \cup {NoKid}]
  /\ force \in [Requests -> BOOLEAN]
  /\ now \in [Requests -> Nat]
  /\ payload \in [Requests -> SUBSET Kids]
  /\ steady \in [Requests -> BOOLEAN]
  /\ verdict \in [result : Results, kid : Kids \cup {NoKid}, now : Nat,
                  steady : BOOLEAN]

Init ==
  /\ clock = 0
  /\ provider \in SUBSET Kids
  /\ withdrawnAt = [k \in Kids |-> Never]
  /\ cache = None
  /\ cachedAt = 0
  /\ lock = <<>>
  /\ pc = [r \in Requests |-> "idle"]
  /\ kid = [r \in Requests |-> NoKid]
  /\ force = [r \in Requests |-> FALSE]
  /\ now = [r \in Requests |-> 0]
  /\ payload = [r \in Requests |-> {}]
  /\ steady = [r \in Requests |-> FALSE]
  /\ verdict = NoVerdict

\* Mutant of Fresh: the last instant of the TTL still counts as fresh.
FreshInclusive(t) == cache # None /\ t - cachedAt <= TTL

\* The cache may be served to a call of _fetch_jwks that read the clock at t.
Fresh(t) == cache # None /\ t - cachedAt < TTL

-----------------------------------------------------------------------------
(* The code between two awaits.  q is the lock's queue as the coroutine    *)
(* leaves it, k the token's kid, st the value of its steady.               *)

\* validate_token returns or raises res; t is the clock value it went by.
Reply(r, res, k, t, st, q) ==
  /\ pc' = [pc EXCEPT ![r] = "idle"]
  /\ kid' = [kid EXCEPT ![r] = NoKid]
  /\ force' = [force EXCEPT ![r] = FALSE]
  /\ now' = [now EXCEPT ![r] = 0]
  /\ payload' = [payload EXCEPT ![r] = {}]
  /\ steady' = [steady EXCEPT ![r] = FALSE]
  /\ verdict' = [result |-> res, kid |-> k, now |-> t, steady |-> st]
  /\ lock' = q

\* Mutant of JoinLock: a forced refresh goes on with the time of the first fetch.
JoinLockKeepsNow(r, f, k, st, q) ==
  /\ pc' = [pc EXCEPT ![r] = "locking"]
  /\ kid' = [kid EXCEPT ![r] = k]
  /\ force' = [force EXCEPT ![r] = f]
  /\ now' = [now EXCEPT ![r] = IF f THEN @ ELSE clock]
  /\ payload' = [payload EXCEPT ![r] = {}]
  /\ steady' = [steady EXCEPT ![r] = st]
  /\ verdict' = NoVerdict
  /\ lock' = Append(q, r)

\* _fetch_jwks(force_refresh=f) missed the fast path: queue for the lock.
JoinLock(r, f, k, st, q) ==
  /\ pc' = [pc EXCEPT ![r] = "locking"]
  /\ kid' = [kid EXCEPT ![r] = k]
  /\ force' = [force EXCEPT ![r] = f]
  /\ now' = [now EXCEPT ![r] = clock]
  /\ payload' = [payload EXCEPT ![r] = {}]
  /\ steady' = [steady EXCEPT ![r] = st]
  /\ verdict' = NoVerdict
  /\ lock' = Append(q, r)

\* Mutant of Lookup: a miss is final, without a forced refresh.
LookupOnce(r, k, keys, f, t, st, q) ==
  \E res \in IF k \in keys THEN {"accepted", "invalid"} ELSE {"unknown_kid"} :
    Reply(r, res, k, t, st, q)

\* _fetch_jwks(force_refresh=f), which read the clock at t, returned keys:
\* search k in it, then decode the token, or refresh once on a miss.
Lookup(r, k, keys, f, t, st, q) ==
  \/ /\ k \in keys
     /\ \E res \in {"accepted", "invalid"} : Reply(r, res, k, t, st, q)
  \/ /\ k \notin keys /\ ~f
     /\ JoinLock(r, TRUE, k, st, q)
  \/ /\ k \notin keys /\ f
     /\ Reply(r, "unknown_kid", k, t, st, q)

-----------------------------------------------------------------------------
(* Actions of a request. *)

\* authenticate_request and validate_token up to their first await.
Begin(r, k) ==
  /\ pc[r] = "idle"
  /\ \/ /\ k = NoKid
        /\ Reply(r, "invalid", k, clock, FALSE, lock)
     \/ /\ k # NoKid /\ Fresh(clock)
        /\ Lookup(r, k, cache, FALSE, clock, k \in provider, lock)
     \/ /\ k # NoKid /\ ~Fresh(clock)
        /\ JoinLock(r, FALSE, k, k \in provider, lock)
  /\ UNCHANGED <<clock, providerVars, cacheVars>>

\* The lock was acquired and the second look at the cache succeeds.
RecheckHit(r) ==
  /\ pc[r] = "locking" /\ Holds(r)
  /\ ~force[r] /\ Fresh(now[r])
  /\ Lookup(r, kid[r], cache, FALSE, now[r], steady[r], Tail(lock))
  /\ UNCHANGED <<clock, providerVars, cacheVars>>

\* Mutant of SendGet: the GET is sent before the lock is acquired.
SendGetUnlocked(r) ==
  /\ pc[r] = "locking"
  /\ force[r] \/ ~Fresh(now[r])
  /\ pc' = [pc EXCEPT ![r] = "fetching"]
  /\ verdict' = NoVerdict
  /\ UNCHANGED <<clock, providerVars, cacheVars, lock, kid, force, now,
                 payload, steady>>

\* The lock was acquired and the GET is sent.
SendGet(r) ==
  /\ pc[r] = "locking" /\ Holds(r)
  /\ force[r] \/ ~Fresh(now[r])
  /\ pc' = [pc EXCEPT ![r] = "fetching"]
  /\ verdict' = NoVerdict
  /\ UNCHANGED <<clock, providerVars, cacheVars, lock, kid, force, now,
                 payload, steady>>

\* Mutant of Answer: keys without a kid are taken over too.
AnswerUnchecked(r) ==
  /\ pc[r] = "fetching"
  /\ pc' = [pc EXCEPT ![r] = "answered"]
  /\ payload' = [payload EXCEPT ![r] = provider \cup {NoKid}]
  /\ verdict' = NoVerdict
  /\ UNCHANGED <<clock, providerVars, cacheVars, lock, kid, force, now, steady>>

\* The provider answers with the kids it publishes now.
Answer(r) ==
  /\ pc[r] = "fetching"
  /\ pc' = [pc EXCEPT ![r] = "answered"]
  /\ payload' = [payload EXCEPT ![r] = provider]
  /\ verdict' = NoVerdict
  /\ UNCHANGED <<clock, providerVars, cacheVars, lock, kid, force, now, steady>>

\* Mutant of Store: the stamp is the time at which the answer is processed.
StoreStampedLate(r) ==
  /\ pc[r] = "answered"
  /\ cache' = payload[r]
  /\ cachedAt' = clock
  /\ Lookup(r, kid[r], payload[r], force[r], now[r], steady[r], Tail(lock))
  /\ UNCHANGED <<clock, providerVars>>

\* The answer arrived: store it under the time read before the lock was
\* requested, release the lock, search the kid.
Store(r) ==
  /\ pc[r] = "answered"
  /\ cache' = payload[r]
  /\ cachedAt' = now[r]
  /\ Lookup(r, kid[r], payload[r], force[r], now[r], steady[r], Tail(lock))
  /\ UNCHANGED <<clock, providerVars>>

\* Mutant of FetchFails: the lock is acquired and released without `async with`.
FetchFailsLocked(r) ==
  /\ pc[r] \in InGet
  /\ Reply(r, "unavailable", kid[r], now[r], steady[r], lock)
  /\ UNCHANGED <<clock, providerVars, cacheVars>>

\* Transport error, timeout, HTTP error status or malformed body: the lock is
\* released, the cache is left alone and JwksUnavailableError is raised.
FetchFails(r) ==
  /\ pc[r] \in InGet
  /\ Reply(r, "unavailable", kid[r], now[r], steady[r], Tail(lock))
  /\ UNCHANGED <<clock, providerVars, cacheVars>>

-----------------------------------------------------------------------------
(* The environment. *)

\* The identity provider publishes another set of keys.
Rotate(ks) ==
  /\ provider' = ks
  /\ withdrawnAt' = [k \in Kids |-> IF k \in ks THEN Never
                                    ELSE IF k \in provider THEN clock
                                    ELSE withdrawnAt[k]]
  /\ steady' = [r \in Requests |-> steady[r] /\ kid[r] \in ks]
  /\ verdict' = NoVerdict
  /\ UNCHANGED <<clock, cacheVars, lock, pc, kid, force, now, payload>>

Tick ==
  /\ clock < MaxClock
  /\ clock' = clock + 1
  /\ verdict' = NoVerdict
  /\ UNCHANGED <<providerVars, cacheVars, lock, callVars>>

Next ==
  \/ \E r \in Requests, k \in Kids \cup {NoKid} : Begin(r, k)
  \/ \E r \in Requests : RecheckHit(r)
  \/ \E r \in Requests : SendGet(r)
  \/ \E r \in Requests : Answer(r)
  \/ \E r \in Requests : Store(r)
  \/ \E r \in Requests : FetchFails(r)
  \/ \E ks \in SUBSET Kids : Rotate(ks)
  \/ Tick

Spec == Init /\ [][Next]_vars

\* The event loop resumes every runnable coroutine, and httpx bounds each GET
\* by a timeout, so a GET is answered or fails.
Fairness ==
  \A r \in Requests :
    /\ WF_vars(RecheckHit(r) \/ SendGet(r))
    /\ WF_vars(Answer(r) \/ Store(r) \/ FetchFails(r))

FairSpec == Spec /\ Fairness

-----------------------------------------------------------------------------
(* Properties. *)

\* At most one GET is in flight, and only its sender holds the lock: the
\* "thundering herd" protection of _fetch_jwks.
SingleFlight ==
  \A r \in Requests :
    pc[r] \in InGet =>
      /\ Holds(r)
      /\ \A s \in Requests \ {r} : pc[s] \notin InGet

\* Revocation takes effect within one TTL: a token is accepted only if its key
\* is published, or was withdrawn less than TTL before the request read the
\* clock (validate_token, _fetch_jwks).
RevocationBound ==
  verdict.result = "accepted" =>
    \/ verdict.kid \in provider
    \/ verdict.now - withdrawnAt[verdict.kid] < TTL

\* validate_token reports an unknown kid only if the provider did not publish
\* it during the whole request: a key rotation causes no false rejection.
NoFalseRejection ==
  verdict.result = "unknown_kid" => ~verdict.steady

\* The cache only advances: an outage of the provider never empties a filled one, and
\* its stamp never goes back, although each coroutine stamps its store with a time it
\* read before it queued for the lock.
CacheAdvances ==
  [][cachedAt' >= cachedAt /\ (cache # None => cache' # None)]_vars

Validation == INSTANCE KeyValidation WITH token <- kid, asOf <- now

\* With its cache, its lock and its GETs, validate_token does what a validation does
\* that knows the provider's keys: every verdict is one that the keys of the last TTL
\* allow, for the time at which its own request last read the clock.
ValidationImplemented == Validation!Spec

\* auth.py says the lock prevents a thundering herd: a request that got the
\* lock sends no GET when the unexpired cache already holds its key.
NoHerd ==
  [][\A r \in Requests :
       (pc[r] = "locking" /\ pc'[r] = "fetching") =>
         ~(Fresh(now[r]) /\ kid[r] \in cache)]_vars

\* Every request gets its answer: no waiter of the lock starves.
EveryRequestEnds ==
  \A r \in Requests : pc[r] = "locking" ~> pc[r] = "idle"
=============================================================================

# Formal models of the card-fraud MCP gateway

The gateway (`src/app`) is an asyncio service that offers read-only tools over
PostgreSQL, Redis, Kafka, S3 and a platform API to MCP clients. This directory
holds TLA+ models of its concurrent parts, TLC configurations that check them on
small instances, and TLAPS proofs for every value of the constants.

Contents: [system](#the-system) · [components](#components) ·
[models](#models) · [runs](#runs) · [disagreements](#disagreements-with-the-documentation) ·
[fairness](#fairness) · [proofs](#proofs) · [limits](#what-is-not-shown) · [plan](#plan) ·
[how to run](#how-to-run)

## The system

A gateway process is one event loop. A request passes, in this order
(`main.py`, `create_app`),

    ObservabilityMiddleware -> RequestSizeLimitMiddleware -> McpTransportSecurityMiddleware
      -> AuthMiddleware: authenticate_request, then check_rate_limit
      -> Starlette routes (/health /ready /catalog /metrics) or the MCP application
      -> require_scope -> audit_tool -> a tool of app/domains -> a backend

All coroutines share the process's module-level state and interleave at their
`await`s only. That makes the state below correct or not:

| shared state | written by | lives in |
|---|---|---|
| `_jwks_cache`, `_jwks_cached_at`, `_jwks_lock` | every authenticated request | `security/auth.py` |
| `_fallback_limiter` (hits per client), the sorted sets in Redis | every authenticated request, of all processes for Redis | `security/ratelimit.py` |
| `_consumer_cache` and the consumers in it | `kafka.peek_messages`, `kafka.consumer_lag` | `domains/kafka.py` |
| five `BackendManager` instances | `lifespan`: `init_all`, `close_all` | `backends.py` |
| `_RELATION_CACHE` | `postgres.query_readonly`, the `ops` tools | `domains/postgres.py` |
| `_policies` | decorators at start-up | `security/policy.py` |
| ContextVars of caller and request | `AuthMiddleware`, per task | `security/auth.py` |
| metric counters | everything | `metrics.py` |

The service persists nothing: a restart loses all of it except the sorted sets in
Redis. Beside the service stand two scripts, `setup_auth0.py` and `verify_auth0.py`,
whose state is an Auth0 tenant and a Doppler project that outlive every run.

What is hard here: a coroutine that reads state, awaits and then acts on what it
read (key cache, consumer scan, relation cache); one object lent to several calls
(a cached consumer); a lock held across a network call (key cache); a remote
script whose caller may time out before or after it has run (rate limiter);
failure of one of several concurrent steps (backend start and stop, the `ops`
queries); a tool that outlives its request; data that change while a tool reads them
in several requests; cancellation at any await; a script that dies half way or
repeats a request that was carried out.

## Components

| component | state and operations | what makes it correct | status |
|---|---|---|---|
| Signing-key cache, token validation | cached key set, stamp, FIFO lock; `validate_token`, `_fetch_jwks` | one GET at a time; revoked keys die within a TTL; no false rejection after a rotation; no starvation | `JwksCache`, `KeyValidation`, proved |
| Rate limiter | deques and sweep time per process, sorted set and expiry per client; `check_rate_limit`, the Lua script, `_LocalSlidingWindow` | no client exceeds the limit in a window; idle clients are forgotten | `RateLimiter`, `SlidingWindow`, proved |
| Kafka consumer cache and tools | cache of consumers, their state and assignment; `_get_cached_consumer`, `_ephemeral_consumer`, peek, lag | no call gets a consumer that was told to stop or is another's; one is lost only in a race of two starts, or when its start or stop is cut short; a peek alone with its consumer reads its topic | `ConsumerCache`, `ConsumerLending`, proved |
| Backend lifecycle | five managers; `init_all`, `close_all` | a backend that fails, to start or to close, holds up no other; a client that was stored is closed at the stop, or its close has raised | `Backends`, `BackendLife`, proved |
| Readiness and operational endpoints | no state; five concurrent probes | 200 only if every needed backend answered | `Backends`, proved; the others are responses in `RequestPipeline` |
| HTTP pipeline | ContextVars, response status; five middlewares | one response, right status counted, context restored on every exit | `RequestPipeline`, `AuditedAccess`, proved |
| Tool wrappers: scope policy, audit | policies, counters, log events | every tool run that ended is recorded, for the caller and the request it was let in for | `RequestPipeline`, `AuditedAccess`, proved |
| PostgreSQL tools and query guard | relation cache; SQL checks | a query runs only by permitted relations that the guard was told for its key, by the expressions or by an EXPLAIN; the cache stays bounded | `QueryGuard`, `Allowlist`, proved; the row bound in `BoundedReads` |
| Ops tools | no state; concurrent queries | a partial answer names exactly its sources | `Investigation` over `QueryGuard`, proved |
| Redis, S3 tools | none of their own | an answer that is cut says so | partly: `scan_prefix`, `get_object` in `BoundedReads`, proved; the others read once |
| Platform tools | none of their own | - | not modelled: a static inventory or one HTTP call |
| Allowlists, redaction | none | pure functions of strings | partly: the verdict on a query's relations; the rest is string matching |
| Configuration | settings, read once | validation at start-up | partly: required backends, JWT bypass; other values are CONSTANTS |
| Metrics | monotone counters | counted once, as what happened | partly: where a property compares them |
| Auth0 provisioning scripts | tenant, Doppler; `setup_auth0`, `verify_auth0` | safe to re-run; success means provisioned | `Bootstrap`, `Provisioning`, proved |
| Server factory, resources, prompts, command line | registration at start-up, text | - | not modelled: sequential |

`PROJECT.json` lists the same components with their files, and under "hazards"
the places in the code that are hard to test, each with the properties that watch
it or the reason why none does. Platform tools, resources and prompts keep nothing
between two calls and take no second step that something could come between; modelling
them would restate them.

## Models

An action is what the code does from one await to the next. Variables and actions
carry the source's names; `PROJECT.json` ("map") gives the lines of each. Operators
called *Mutant of X* are plausible wrong versions of X, used in no
specification: putting one in X's place must break the property it is listed with.
"History" variables record what the properties talk about; no action reads them in
a guard.

Seven components also have an abstract specification, of what their callers may rely on
and none of how: it has no lock, cache, queue, position or retry, and the component is
shown to implement it under a refinement mapping.

| abstract | implemented by | property | what the mapping hides |
|---|---|---|---|
| `KeyValidation` | `JwksCache` | `ValidationImplemented` | lock, cache and its stamp, GETs, forced refreshes |
| `SlidingWindow` | `RateLimiter` | `FallbackImplementsWindow` | pruned deques, sweeps |
| `Allowlist` | `QueryGuard` in `Investigation` | `GuardImplementsAllowlist` | relation cache, evictions, EXPLAINs in flight, verdicts held over an await, the ops tools |
| `ConsumerLending` | `ConsumerCache` | `LendingImplemented` | keys, entries, clocks, scans, assignments, which call closes whose consumer |
| `BackendLife`, per backend | `Backends` | `EachLifeImplemented` | the other backends, the gathers, settings, probes |
| `AuditedAccess` | `RequestPipeline` | `AccessImplemented` | layers, contexts and their tokens, exceptions, the body |
| `Provisioning` | `Bootstrap` | `ProvisioningImplemented` | positions of the scripts, what they have listed, attempts, lost answers |

### JwksCache and KeyValidation: `app/security/auth.py`

In `KeyValidation` a request is judged on the spot, or is suspended and judged later by a
time of its own life: a key is good if it is published or was less than a TTL before that
time, and "unknown kid" is said only if the kid was missing at some time since the
request began.

A request is idle, queued for the lock (`"locking"`), waiting for its GET
(`"fetching"`) or holding an answer it has not processed (`"answered"`).
`lock` is the FIFO queue of the `asyncio.Lock`, its holder first.

| code | model |
|---|---|
| `authenticate_request`, `validate_token` up to its first await | `Begin` |
| fast path: unexpired cache, no force | `Fresh`, in `Begin` |
| `async with _jwks_lock` | `JoinLock` appends, `Holds` admits, `Tail(lock)` releases |
| second look at the cache under the lock | `RecheckHit` |
| `client.get` | `SendGet`, `Answer` (the provider) |
| success: cache and stamp; stamp is the `now` read before the lock was requested | `Store` |
| error, timeout, bad status or body | `FetchFails` |
| search of the kid, one forced refresh on a miss, decoding | `Lookup`, `Reply` |

A token is its `kid`, or `NoKid` when header, kid or bearer token is unusable. The
signature and claims checks are a choice between `accepted` and `invalid`. The
provider publishes any set of kids at any time (`Rotate`).

### RateLimiter and SlidingWindow: `app/security/ratelimit.py`

`SlidingWindow` is what a limiter promises: a call is allowed exactly when fewer
than `Max` calls were allowed in the last `Window`. Its `log` forgets nothing.
`RateLimiter` has several gateway processes and one Redis.

| code | model |
|---|---|
| `_prune_key` | `Expired`, `PruneKey` |
| `allow` with its sweep every 5 s | `SweepDue`, `Swept`, `LocalAllow` |
| `check_rate_limit` without Redis | `CheckLocal` |
| stamp and `eval` | `Send` |
| the Lua script: prune, count, add, expire | `RunScript`, `Kept` |
| member of the sorted set | `NewMember`, a score and a number |
| answer | `Return` |
| exception: fallback decides | `FallBack`; the script may still run (`"late"`) |

Scripts run atomically but out of stamp order. `Delay` bounds the time from a
stamp to the answer or exception (socket timeout, connection and clock skew); a
script given up by its caller may be as late as it likes.

### ConsumerCache and ConsumerLending: `app/domains/kafka.py`

In `ConsumerLending` a consumer is started by the one call that made it, may then be lent to any
call of its own group and timeout while it runs, is retired once and never lent again. A call asks until it
has a consumer, and gets no second one. `Made` and `Lent` map to it: a call that still scans asks, one
that cleans up after its failure is over, and a consumer is retired from the call of its `stop()` on.

A consumer is `"closing"` while `stop()` is awaited. Its entry is gone by then, so a stop that raises, which
is suppressed, or whose call is cancelled leaves a consumer that may run on and that nobody will stop
(`"lost"`); so does a `start()` that is cut short. `LossExplained` says that besides these
only the race of two starts for one key loses a consumer.

| code | model |
|---|---|
| `_make_consumer_key` | `ConsumerKey` |
| `_get_cached_consumer`: scan for stale entries, awaiting each `stop()` | `Begin`, `Resume`, `EvictStale`, `ScanFails` (KeyError) |
| cached: update `last_used`, lend the consumer | `Hit` |
| not cached: create and `start()` | `Miss`, `Started`, `StartFails` |
| `_stop_and_remove_consumer` up to its await; `stop()` returns or raises | `StopAndRemove`; `StopEnds` |
| `peek_messages`: `assign`, `seek`, `getmany` | `Assign`, `Seek`, `Fetch` |
| `consumer_lag` | `Finish` |
| `_ephemeral_consumer`: body raises, cached consumer is stopped | `BodyFails`, `Raise` |
| cancellation at an await | `Cancel`, `StartFails` |

The scan iterates a list of keys in any order, so `EvictStale` picks the next stale key and what
remains behind it. Topics stand for partition assignments; offsets are the subject
of `BoundedReads`. The model uses the place of a consumer again once it is stopped or lost and no
call refers to it, which keeps the set of objects finite; that it was in a race is forgotten when
its stop is called.

### Backends and BackendLife: `app/backends.py`, lifespan and `/ready` of `app/main.py`

`BackendLife` is the process as one backend sees it: it is set up once while the process
starts, held or lost for good, counted if it was lost when the process begins to serve,
vouched for by a 200 of `/ready` only while it is held (or not configured), given up once
while the process closes, and the process stops only when it is held no more. `Life(b)` is
this life for each `b`, and a step of another backend changes nothing in it.

`phase` is where the lifespan stands, `waiting` the coroutines of its current
`asyncio.gather`, `instance` the managers whose `_instance` is set. `client` remembers
what became of every client object, a manager's or not. Backends come in three kinds:
those that connect (`redis`, `kafka`), those whose client exists only when connected
(`Pooled`: `postgres`) and those made without a connection (`Lazy`: `s3`, `platform`).

| code | model |
|---|---|
| settings; `readiness_required_backends` | `configured`, `Requirements` |
| `init_s3`, `init_platform`: no await, may raise | `Init`, `Opened` |
| `init_pg`, `init_redis`, `init_kafka` | `Connected`, `ConnectFails` |
| end of `init_all`, failures counted | `InitDone` |
| `readiness`: five `_check_backend` under gather, the verdict | `Ask`, `FirstCheck`, `Probe`, `Healthy`, `Answer` |
| end of the lifespan, by itself or by an exception at its `yield` | `Shutdown`, `Abandon` |
| `BackendManager.close` | `Closed`, `CloseRaises` |
| end of `close_all` | `CloseDone` |

### RequestPipeline and AuditedAccess: `app/main.py`, `security/policy.py`, `app/audit.py`

In `AuditedAccess` a request is refused, or let in and served, answered at most once and observed
once; a tool is called for a request that is being served, and its record is the caller's, whatever
is served when it ends. `Stage` and `Shown` map to it: let in means that the application has the request.
A probe may be told 503, by `/ready`, without having been refused.

One request at a time moves inwards and out again through the stack of `create_app`;
`pc` is its position, `exc` the exception it carries outwards. Requests of other
connections run in contexts of their own and share only what the other modules model.
The MCP server runs a tool in a task with a copy of the request's context, so `tool`
goes on while `req` moves to the next request.

| code | model |
|---|---|
| `ObservabilityMiddleware`: status of the last response start, counted in `finally` | `Fresh`, `Send`, `Leave` |
| `RequestSizeLimitMiddleware`: declared length, counted body | `Arrive`, `AppReads`, `LeaveSize` |
| `McpTransportSecurityMiddleware` | `Transport`, first disjunct |
| `AuthMiddleware`: context set, probes skip, refusals, `finally` | `Transport`, `Authenticate`, `Rejected`, `Limit`, `LeaveAuth`, `Reset` |
| `_add_security_headers` | `AddSecurityHeaders`, `Respond`, `Refuse` |
| routes and MCP application | `AppReads`, `AppResponds`, `AppReturns`, `AppRaises`; Starlette's 500: `Escape` |
| `require_scope`, `_check_scope`, `get_caller` | `AppCallsTool`, `GetCaller` |
| `audit_tool` | `ToolEnds`, `Audited` |
| cancellation at an await | `Cancel` |

What `validate_token` and `check_rate_limit` answer is any of their outcomes here;
`JwksCache` and `RateLimiter` say when they give which.

### QueryGuard, Allowlist and Investigation: `domains/postgres.py`, `domains/ops.py`

In `Allowlist` each call is judged once, by itself: it runs, under an allowlist, only if the guard was
told permitted relations, at some time, for a text with the key of its query (`Heard`), and is
refused at once only for a reason of that kind.

A query is its text. Constants stand for what the string functions make of it: `Key` is
`_normalize_sql_for_cache`, `Unsafe` are the texts that `_validate_sql` refuses, `Masked` those with a
forbidden word inside a literal or a comment, which the second check refuses, `Simple` those in which
`_extract_tables_from_sql` finds a relation, and `Told` what it finds. `plan` is what an EXPLAIN of each
other text would name, any set of `Catalog` for it.

Neither `Key` nor `Told` is taken to be right. White space becomes one blank in a key, and a
newline ends a comment: two texts that read different relations may share a key, and then the verdict
of one is the other's until it is evicted. The expressions miss a relation after a comma, in
quotes, or in a subquery not written `(SELECT`, and ask for no EXPLAIN if they have found another. So a
permitted run is one by relations that the guard *was told*, which the properties say; that these are
the relations the query reads is false of the code, and no property states it.

| code | model |
|---|---|
| `_enforce_query_allowlists` up to its await | `Begin`, `Cached`, `Known`, `Judged` |
| `EXPLAIN` and its answer | `Explain`, `Explained`, `ExplainFails` |
| store and eviction | `Stored` |
| loop over the relations | `Allowed` |
| the bounded query | `Execute`; `Leave` ends the call |
| `load_postgres_investigation_context`: gather with `return_exceptions` | `Context`, `Gather`, `Gathered` |
| Redis part of the context | `Redis` |
| `run_investigation` | `Run`, `Triaged`; `load_transaction_review`: `Found`, `Reviewed` |

`Investigation` EXTENDS `QueryGuard`: a read of an ops table is a call of the guard in a
slot of its own, and shares the cache with the calls of other clients, who may send the same texts.
`MCInvestigation` gives the texts of the run: those of the four ops reads, two that differ in a newline only,
a masked and an unsafe one.

### BoundedReads: limits of `domains/redis.py`, `kafka.py`, `postgres.py`, `storage.py`

| code | model |
|---|---|
| `scan_prefix`: `scan_iter` until the limit | `Scan`, `ScanKey`, `ScanEnd` beside `Writer` |
| `query_readonly`: one row more than the limit | `Rows` |
| `get_object`: one byte more than the limit | `Object` |
| `peek_messages`: seek to the end, back by `count`, `getmany` | `Peek`, `Seek`, `GetMany` beside `Broker`; aiokafka's reset: `Reset` |
| `consumer_lag`: ends, then commits | `Lag`, `EndOffsets`, `Committed`, `LagAnswer` |

### Bootstrap and Provisioning: `scripts/setup_auth0.py`, `scripts/verify_auth0.py`

In `Provisioning` the tenant is only built up while a script works, each part on what it
needs: an application after the API, a grant after the application, Doppler's credentials after
the grant; and a new report of success needs all of it.

`api`, `apps`, `grant` are the tenant, `vault` is Doppler; they outlive the scripts. A
step of a script is one HTTP request. `Written` is a request whose answer arrives, `Lost`
one that Auth0 carried out and whose answer did not arrive, `NotDone` one that had no
effect; the last two go through `Retried`. The scripts read the first hundred APIs and applications of a
tenant that other services use too: once it has more (`Crowd`, `crowded`) ours may not be found.
One bootstrap runs at a time, as an operator runs it; the script itself does nothing to keep a second
one out, and each of two could make an application.

| code | model |
|---|---|
| `main` | `Start`, `Following`, `Exit` |
| `get_mgmt_token` | `Token` |
| GET of `upsert_api`, `upsert_m2m_client`, `upsert_client_grant` | `Listed`, `Finds` |
| their PATCH or POST | `Done`, `Written`, `Refused`, `Lost` |
| `_req` with three attempts | `Retried`, `NotDone` |
| `sync_to_doppler` | `Sync` |
| `verify_auth0.main`, `_api_get` | `CheckStart`, `CheckApis`, `CheckApps`, `CheckGrants`, `CheckFails`, `CheckExit` |

## Runs

| run | instance | checks | shows |
|---|---|---|---|
| `jwks` | 3 requests, 1 kid, TTL 2, clock to 3 | `TypeOK` `SingleFlight` `RevocationBound` `NoFalseRejection` `CacheAdvances` `ValidationImplemented` `EveryRequestEnds` | safety of the cache; it refines a validation without one; every queued request ends |
| `jwks_herd` | 2 requests, 2 kids | `NoHerd` violated | forced refreshes do herd |
| `ratelimit_local` | 1 process, 2 clients, limit 2, window 2, sweep 3, clock to 5 | `IdleKeysForgotten` `FallbackImplementsWindow` | the deque with its sweeps refines the sliding window |
| `ratelimit_redis` | 2 processes, 2 calls, limit 1, window 3, delay 1, clock to 4 | `TypeOK` `RedisWindow` `DeploymentLimit` | out-of-order, lost and late scripts of both processes keep the limit up to the delay, the fallback of each adds its own |
| `ratelimit_documented` | 1 process, limit 1 | `DocumentedLimit` violated | Redis and the fallback count apart |
| `kafka` | 2 calls, 2 topics, 1 group, 3 consumers, TTL 0, clock to 1 | `TypeOK` `LossExplained` `AlonePeekReadsItsTopic` `LendingImplemented` | the cache refines a lender of consumers, under evictions, failures, cancellations; what can lose one |
| `kafka_shared` | 2 calls, 2 topics | `PeekReadsItsTopic` violated | two peeks mix up their topics |
| `backends` | `postgres`, `redis`, `s3`, `platform`; 1 prober | `TypeOK` `ReadyIsTrue` `EachLifeImplemented` `EveryPhaseEnds` | each backend lives by itself; what a 200 of `/ready` tells; start and stop end |
| `pipeline` | 2 request ids, 2 scopes, 1 tool | `TypeOK` `ContextRestored` `ToolsAdmitted` `ObservedStatus` `AnswersAgree` `AccessImplemented` | the layers refine one request at a time; every way out of them, with tools that outlive their requests |
| `investigation` | 8 texts, 7 keys, 2 relations, cache of 2, 4 ops reads, 1 other client | `TypeOK` `CacheSound` `GuardImplementsAllowlist` `SourcesExact` `WholeOrPartial` | the guard refines an allowlist without a cache; concurrent misses, of the same text too, and evictions; a shared key; partial failures; a catalog that changes |
| `bootstrap` | 2 applications, 2 configurations, 3 attempts | `TypeOK` `SuccessIsTrue` `DuplicatesExplained` `ProvisioningImplemented` `EveryBootstrapEnds` | the scripts refine a tenant that is built up in order; interrupted, repeated and retried bootstraps; a tenant beyond one page; a verification beside one |
| `bounded_reads` | 3 keys, 2 partitions, limit 2, counts and offsets to 3 | `TypeOK` `WholeUnlessSaid` `PeekRecent` `LagNotOverstated` | answers at their limits while the data change |

`DocumentedLimit`, `NoHerd` and `PeekReadsItsTopic` are the three that are expected to fail.
Some invariants are proved without a run of their own, where a run checks a refinement that
says the same and more: `FallbackWindow` (`FallbackImplementsWindow`), `RunsWereAllowed`
(`GuardImplementsAllowlist`), `Accounted` (`EachLifeImplemented`) and
`StoredWorks` (`ProvisioningImplemented`), `CachedRunning` and `ConfigMatches`
(`LendingImplemented`), `AuditTrail` (`AccessImplemented`). `DeploymentLimit` is checked and proved where `DocumentedLimit` fails.

Why these bounds. *jwks*: three requests are the least with a holder and an
ordered pair of waiters; the clock passes one TTL, so a set is stored, expires and
is replaced; one kid that comes and goes is enough because no request compares two
kids. *ratelimit*: the clock passes the window and the sweep period, two clients
let one's call sweep the other's deque, and there a limit of 2 tells "the oldest" from "the
newest" hit; the clients' sorted sets are independent, so Redis needs one client. With two
processes, a limit of 1 and two calls at a time reorder stamps, lose answers and fall back in both.
*kafka*: two calls race on the start, the eviction and the cleanup of a key; two keys
(no group, one group) give the scan something to skip; three consumers leave one to
make while two are in use or left in a race; with TTL 0 one tick of the clock makes an entry stale, and
the clock is read for nothing else.
*backends*: one backend of each kind and two that connect or close at the same time;
Kafka behaves as Redis does. Probes of two requests share nothing, so one prober is
enough. *pipeline*: two ids tell this request from the one before, whose tool still runs.
*investigation*: a cache of two texts evicts on the third, of the eight that are asked
for; both reads of a context and the client's query, which may be one of theirs, miss at once; one
text is told a forbidden relation by the expressions and shares its key with one that is not. *bootstrap*: a second
application is the first that should not be there; three attempts are the code's.
*bounded_reads*: sizes below, at and one above the limit; an offset that retention has
removed needs a start above the end minus the limit, which 3 allows. Offsets do not
interact across partitions but for the shared `max_records`.
The proofs remove the bounds for what they cover. The clock bound (`MaxClock`) stops
time, not requests, so `jwks`, `ratelimit` and `kafka` never deadlock. `backends` really stops,
at the end of the process, and its cfg says so.

## Disagreements with the documentation

The three violated properties state a sentence of the documentation or of the code.

- `auth.py:68` promises to "prevent thundering herd"; a forced refresh skips the
  second look at the cache (`auth.py:84`), so every request queued behind one that
  brought the new key sends a GET of its own. The cache stays correct.
- `docs/analysis-and-review.md:115` gives the limit per client. When Redis stops
  answering (`ratelimit.py:119`) the fallback starts from an empty deque, so a process
  allows a client up to twice the limit within a window. `DeploymentLimit` is what does hold,
  of any number of processes.
- `kafka.py:186` describes the peek as "Preview recent messages from a Kafka topic", and
  `docs/analysis-and-review.md:134` says that peek and lag "create their own ephemeral
  consumers via the consumer cache". The cache lends one consumer to all peeks; one
  that reassigns it between another's seek and fetch makes the other answer with
  the wrong topic's records (`kafka.py:212`). `AlonePeekReadsItsTopic` is what does hold.

Others were met while modelling, without a run of their own; the models follow the code:

- `docs/analysis-and-review.md:319` says of `get_investigation_context` that "if PostgreSQL or
  Redis is unavailable, a note field is added". The note is added when the pool or client was
  never made or a table setting is refused; queries that fail later are swallowed by
  `gather(..., return_exceptions=True)` (`ops.py:133`, `ops.py:221`) and leave no note.
  `SourcesExact` states what holds.
- `docs/analysis-and-review.md:259` says the relation cache is "bounded to 500 entries with
  LRU eviction". It evicts in insertion order (`postgres.py:329`); a hit does not renew an entry,
  and none expires when the catalog changes. `CacheSound` and `GuardImplementsAllowlist` state what holds.
- `docs/analysis-and-review.md:50` says of an over-long body "413 if exceeded". That holds for a
  declared length. When the body is counted while the application reads it, the exception
  passes Starlette's outermost middleware, which answers 500 first; the 413 is observed and
  counted but not sent (`main.py:138`). `ObservedStatus` has both cases.
- `README.md:96` says that ops investigations resolve unqualified tables in `GATEWAY_OPS_SCHEMA`;
  `velocity_check` resolves its table in `public` (`ops.py:295`). Schemas are not modelled.
- `redis.py:44` reads a key by its type "to avoid WRONGTYPE errors"; type and value are two
  requests, and a key that changes its type in between still raises one. Not modelled.
- `setup_auth0.py:4` calls the bootstrap "Safe to re-run", and a second run prints "client_id already
  in Doppler" (`setup_auth0.py:198`). A first run that died before the sync, or whose doppler command
  failed with a warning, has lost the secret, and no later run stores it. And a POST whose answer
  was lost is sent again (`setup_auth0.py:102`) and makes a second application of the same name. So does
  a run in a tenant with more than a hundred applications, of which only the first page is looked
  through (`setup_auth0.py:186`; for APIs `:141`, where Auth0 refuses the second one). Of one bootstrap after the
  other, `DuplicatesExplained` says that nothing else does; two at once may each make one.
- `backends.py:240` says "Gracefully close all backend connections.", and
  `docs/02-development/flow-05-kafka-and-redpanda.md:56` promises "Kafka consumer lifecycle management
  (connect/disconnect in lifespan)". `close_all` closes the metadata client; the consumers in
  `_consumer_cache` are stopped by nothing at shutdown, nor is a client whose first ping or
  start has failed (`backends.py:119`, `backends.py:142`), and an exception at the lifespan's `yield`
  skips `close_all` (`main.py:312`).
- `postgres.py:42` normalises a query for a "deterministic allowlist cache lookup" by joining its lines,
  and `postgres.py:205` says of the extraction that it "only works for simple SELECT/FROM/JOIN
  patterns"; a text of which it finds only a part is not passed on to EXPLAIN (see [models](#models)).

## Fairness

`EveryRequestEnds`: `WF(RecheckHit \/ SendGet)` says that the event
loop resumes a coroutine whose lock is free, which asyncio does in FIFO order.
`WF(Answer \/ Store \/ FetchFails)` says that a GET ends, which httpx's timeout sees to when the
provider stays silent: the request then fails. The timeout is one for each connect and
each read, so a provider that sends its answer a byte at a time is outside the assumption. No
fairness is assumed of clients, rotations or the clock.

`EveryPhaseEnds`: every connection attempt and every close ends, with or without success,
under the timeouts of asyncpg, redis, aiokafka and httpx; the event loop then resumes the gather.
Fairness says only that an attempt has an outcome, never which; a stop need not come.

`EveryBootstrapEnds`: a script that nobody kills goes on; `timeout=15` bounds each connect and each
read of a request, and an answer is taken to be of finitely many reads. The doppler command has no timeout
(`setup_auth0.py:54`) and is taken to return. Whether a request succeeds is left open.

Behind each of the three stands a safety property that is proved, so that only the weak fairness
itself is left to TLC. `EveryRequestEnds`: as long as a request waits for the lock, a suspended
request that stands at or before it holds it (`HolderMoves`), what stands before a waiter only gets
less, and a waiter goes to the end of the queue at most once, for its forced refresh
(`NoOvertaking`). `EveryPhaseEnds`: nothing but the end of one of its coroutines happens while a
gather is on, and it is left when all have ended (`GatherGoesOn`). `EveryBootstrapEnds`: every step of a bootstrap that goes on
ends it or lowers a bounded natural number (`RankFalls`), so that at most
`Cardinality(Configs) + 7 * Attempts` steps come before the one that ends it, whatever Auth0 answers.

## Proofs

Each proof module extends its component, defines an inductive invariant `IInv` (TLC
confirms it on the runs' instances) and proves `Init => IInv`, one lemma per action or
group of actions for `IInv /\ [Next]_vars => IInv'`, and the theorems from it.

**JwksCacheProofs** - for all sets of requests and kids, any TTL >= 1 and any clock bound.
`RevocationBound` is not inductive: it depends on the stamp of the cache being no
later than the moment its keys were read. `LockInv` says the lock's queue lists
exactly the suspended requests, each once, with a fetching one at its head; `TimeInv`
that the times they read are ordered along the queue and not before `cachedAt`; hence a
store never sets the stamp back or empties the cache (`CacheOnlyAdvances`). `KeyInv` says that
a key in the cache or in an answer is published or was withdrawn at its stamp or later, which
with `Fresh` gives `RevocationIsBounded`; `SteadyInv` gives `NoTokenFalselyRejected`. The same
four and `IdleInv` (an idle slot has forgotten its last request) make every step one of
`KeyValidation` or a stutter (`CacheImplementsValidation`): a reply from the cache is a
judgement on the spot, joining the queue suspends or renews, a reply after a wait decides.
`LockIsMoving` and `NobodyIsOvertaken` are about the queue (see [fairness](#fairness)). Also
proved: `TypeCorrect`, `OneGetInFlight`.

**RateLimiterProofs** - for all processes, clients, limits and windows.
`FallbackIsSlidingWindow` is a refinement: the abstract `log` is the history of
allowed calls. `LogInv` says that a deque is a suffix of its log, and that what it has
forgotten is older than the window; from this a deque shorter than `Max` means the log
has room, and conversely. `FallbackKeepsTheLimit` and `FallbackForgetsIdleClients`
follow from the same invariant. `RedisKeepsTheLimit` needs a second one, `RInv`, because
scripts run out of stamp order and a log of answers does not say which members the set has:
`CountInv` counts, for every age `T` within the window, the answers and the allowed calls on
their way that can only belong to stamps younger than `T`, and says that the set has at
least as many members. `SetInv` says that it never has more than `Max` and is dropped only
when all of it is too old. `Max` answers within `Window - Delay` of one more would need a
member too many. `DeploymentKeepsALimit` adds both up over any finite set of processes: Redis allows
`Max` and each fallback `Max`, whatever Redis does in between; the documented limit fails by that sum.

**ConsumerCacheProofs** - for all sets of calls, topics, groups and consumers. `IInv` adds to
the properties: `StartInv` (a call has the consumer that it starts for itself),
`UseInv` (a borrowed consumer was started with the call's configuration), `RaceInv`
(two starts for one key, or a start while the key is filled, are marked as a race),
`KeptInv` (a running consumer in no race is in the cache), `AloneInv` (an `alone`
call shares its consumer with no other), `StopInv` (a call that waits for a stop knows its consumer) and
`OwnedInv` (a consumer that starts or is being closed is in the hands of a call). `LossExplained`
says nothing of a consumer while somebody uses it; it follows from `KeptInv` for a running one
and from `OwnedInv` for the others (`LostConsumersAreExplained`).
`KeyIsConfig` rests on the tools' two shapes of configuration, not on the key alone.
`CacheLendsConsumers` is the refinement of `ConsumerLending`: a hit lends because `CacheInv` says that
what is cached runs and `KeyIsConfig` that it is of the call's configuration; a miss makes an
object that no call refers to; what a scan, or a failing call, retires is cached, hence running. Only the
call that starts a consumer can open it or give it up (`StartInv`), and how a stop ends is no step there.

**BackendsProofs** - for all sets of backends of each kind, settings and any number of probers.
`PhaseInv` says for each phase of the lifespan how the coroutines that still run, the
managers with an instance and the failures make up the configured backends; `ClientInv` that
an open client object is its manager's. `BackendsAreAccounted` is about the end and needs
both from the start. `BackendsLiveApart` is the refinement of `BackendLife` by every backend at
once: `ClientInv` says exactly what a backend's client is by what the managers hold, so that a step of
a coroutine moves its own backend from one stage to the next and leaves all others as they are
(`SettleLife`, `ReleaseLife`). `ReadyInv` relates the statuses of a probe to the instances and to what
was up since it began, which gives `ReadinessIsTrue`. `GathersRunDown` uses that nobody probes while the
process starts or stops.

**RequestPipelineProofs** - for all request ids and scopes and any number of requests and tools.
`CtxInv` follows the context through the layers: inside `AuthMiddleware` it holds this
request's id and caller, and the tokens lead back to the empty one, hence
`ContextIsRestored`, and a tool started inside copies the right caller
(`OnlyAdmittedToolsRun`), whom its record then names with the right request (`EveryToolIsAudited`). `AnswerInv` says what a layer can already
have answered and counted, hence `StatusIsObserved` and `AnswersAndCountersAgree`. For the refinement of
`AuditedAccess` (`PipelineIsAuditedAccess`) `PathInv` is added: a probe is neither authenticated nor
limited nor cut. What goes on between two layers is no step there; the tool's caller is the
request's by `CtxInv`.

**InvestigationProofs** - for all texts, keys, readings by the expressions, relations, callers and cache sizes,
guard and ops calls together. `GuardInv`: a verdict, cached or held over an await, comes from what the guard
was told for a text with the query's key (`CacheIsSound`, `OnlyAllowedQueriesRun`). `OpsInv`: the reads of an ops call
stay as they ended until its answer is sent, while their slots' neighbours go on
(`ContextNamesItsSources`, `InvestigationIsWholeOrPartial`). `GuardIsAllowlist` is the refinement of
`Allowlist`: a hit and a miss are the same step there, up to the suspension, because the cached
relations, those of an EXPLAIN in flight and those held by a waiting call are all among `Heard` of its key.

**BootstrapProofs** - for any number of applications, configurations, attempts and runs. `RunInv`
says what the tenant holds by the position of the bootstrap, `CheckInv` what it still holds
of what the verification has read; both rest on no script taking back what one has made.
`SingleInv` says that an application exists unlisted only after a lost answer or beyond the first page. Proved:
`ReportedSuccessIsTrue`, `DuplicatesAreExplained`, `StoredCredentialsWork`. `ScriptsProvision` is the
refinement of `Provisioning`, kills, retries and lost answers included: a write that is carried out is
one of its steps whether or not its answer arrives, and `RunInv` says that what it needs is
there. `BootstrapIsBounded` gives a bootstrap a rank that each of its steps lowers.

**BoundedReadsProofs** - for all keys, partitions, limits and sizes. `PeekInv` and `LagInv` relate
what a call has read to a log whose end and commits only grow (`PeekShowsRecent`,
`LagIsNotOverstated`; a group that is set back or expires is not modelled); `UncutIsWhole` needs only that a scan goes on below its limit.

Assumptions: the named `ASSUME`s of the component modules (numbers are naturals,
`Max`, `Window` and the key cache's `TTL` are positive, there are finitely many Doppler
configurations and at least one, `None` is none of the values it is distinguished from). TLC evaluates them in every run.

## What is not shown

- Only model-checked: the liveness properties `EveryRequestEnds`, `EveryPhaseEnds` and
  `EveryBootstrapEnds`, which are out of the prover's reach; their safety
  parts are proved (see [fairness](#fairness)).
- The abstract specifications are safety only: a refinement says which verdicts, reports and stages can
  come, not that one comes.
- Taken from how the code uses them: the MCP server runs a tool in a copy of the request's
  context; Starlette answers an escaped exception with 500 if no response has started; a server
  refuses a second response start; SCAN returns every key that stays; `auto_offset_reset`
  moves a consumer to the end; Auth0 accepts applications of equal names and refuses a second API
  of one identifier or a second grant of one audience.
- `RequestPipeline` has no timing between concurrent requests: contexts are per task, and what
  tasks do share is in the other modules.
- The models check the code's steps, not Python or its libraries: asyncio locks are
  taken to be FIFO, Redis scripts to be atomic, the members of a sorted set to be unique
  ("best-effort only", `ratelimit.py:80`), aiokafka's `position` and `seek` to
  raise for unassigned partitions.
- `time.monotonic()` and `time.time()` are one integer clock in `RateLimiter`; skew
  between processes is part of `Delay`.
- That a query reads the relations it was judged by: the cache key and what the regular expressions
  find are constants, right or wrong.
- String work: parsing of SQL, prefixes, redaction, serialisation. The tools that read once and
  keep nothing. Everything marked not modelled above.

## Plan

Done: `JwksCache`, `RateLimiter`, `ConsumerCache`, `Backends`, `RequestPipeline`,
`QueryGuard`, `Investigation`, `BoundedReads`, `Bootstrap`, the abstract specifications of seven of them
and the proofs of their safety and of the seven refinements. What is left:

1. `Backends` composed with `ConsumerCache`: which consumers outlive a shutdown.
2. Pure functions over bounded inputs: allowlist prefixes, redaction of nested values.

## How to run

    tlc -config JwksCache.cfg JwksCache.tla
    tlc -config JwksCacheHerd.cfg JwksCache.tla            # violation expected
    tlc -config RateLimiterLocal.cfg RateLimiter.tla
    tlc -config RateLimiterRedis.cfg MCRateLimiter.tla
    tlc -config RateLimiterDocumented.cfg RateLimiter.tla  # violation expected
    tlc -config ConsumerCache.cfg MCConsumerCache.tla
    tlc -config ConsumerCacheShared.cfg ConsumerCache.tla  # violation expected
    tlc -config Backends.cfg Backends.tla
    tlc -config RequestPipeline.cfg RequestPipeline.tla
    tlc -config Investigation.cfg MCInvestigation.tla
    tlc -config Bootstrap.cfg Bootstrap.tla
    tlc -config BoundedReads.cfg BoundedReads.tla
    tlapm JwksCacheProofs.tla
    tlapm RateLimiterProofs.tla
    tlapm ConsumerCacheProofs.tla
    tlapm BackendsProofs.tla
    tlapm RequestPipelineProofs.tla
    tlapm InvestigationProofs.tla
    tlapm BootstrapProofs.tla
    tlapm BoundedReadsProofs.tla

---------------------------- MODULE RateLimiter ----------------------------
(***************************************************************************)
(* app/security/ratelimit.py on several gateway processes: check_rate_limit*)
(* stamps a request, has Redis run the sliding-window script, and falls    *)
(* back to the process's own deque of hits when no Redis is configured or  *)
(* the call raises.  The script runs atomically, but its stamp was taken   *)
(* by the gateway before the call, so scripts run with stamps out of       *)
(* order; Delay bounds the time between stamp and answer.                  *)
(***************************************************************************)
EXTENDS Integers, Sequences, FiniteSets

CONSTANTS
  Gateways,      \* gateway processes
  Clients,       \* values of the rate key
  Calls,         \* slots for concurrent calls of check_rate_limit
  Max,           \* settings.rate_limit_rpm
  Window,        \* RATE_LIMIT_WINDOW_SECONDS
  CleanupEvery,  \* the 5 seconds between sweeps of the fallback limiter
  RedisUrls,     \* the configurations: may redis_url be set (TRUE), unset (FALSE)?
  Delay,         \* longest time from a stamp to the answer, clock skew included
  MaxClock,      \* bound on the model's clock
  NoCall         \* an unused slot

ASSUME MaxAssumption == Max \in Nat \ {0}
ASSUME WindowAssumption == Window \in Nat \ {0}
ASSUME CleanupAssumption == CleanupEvery \in Nat
ASSUME RedisUrlsAssumption == RedisUrls \subseteq BOOLEAN
ASSUME DelayAssumption == Delay \in Nat
ASSUME ClockAssumption == MaxClock \in Nat

VARIABLES
  clock,        \* time.monotonic() and time.time()
  redisUrl,     \* is settings.redis_url set?
  hits,         \* _hits of each gateway's _fallback_limiter; <<>> is no entry
  lastCleanup,  \* _last_cleanup of each gateway's _fallback_limiter
  zset,         \* the members of each client's sorted set in Redis
  expireAt,     \* when Redis drops the key
  call,         \* each slot: NoCall or the running call
  localLog,     \* when each gateway's fallback allowed calls (history)
  localVerdict, \* the last answer of a fallback (history)
  redisLog      \* when calls were allowed on Redis's answer (history)

Keys == Gateways \X Clients   \* one deque per process and client

fallbackVars == <<hits, lastCleanup, localLog, localVerdict>>
redisVars == <<zset, expireAt>>
vars == <<clock, redisUrl, fallbackVars, redisVars, call, redisLog>>

\* A member of a sorted set: its score, and what makes it unique.
Members == (0..MaxClock) \X (0..(Max - 1))

\* A call waits for the script ("sent"), for its answer ("ran"), or was given
\* up while its script may still reach Redis ("late").
RunningCall ==
  [state : {"sent", "ran", "late"}, gateway : Gateways, client : Clients,
   stamp : 0..MaxClock, allowed : BOOLEAN]

TypeOK ==
  /\ clock \in 0..MaxClock
  /\ redisUrl \in RedisUrls
  /\ hits \in [Keys -> Seq(Nat)]
  /\ lastCleanup \in [Gateways -> Nat]
  /\ zset \in [Clients -> SUBSET Members]
  /\ expireAt \in [Clients -> Nat]
  /\ call \in [Calls -> {NoCall} \cup RunningCall]
  /\ localLog \in [Keys -> Seq(Nat)]
  /\ localVerdict \in {<<>>} \cup (Keys \X BOOLEAN)
  /\ redisLog \in [Clients -> Seq(Nat)]

Init ==
  /\ clock = 0
  /\ redisUrl \in RedisUrls
  /\ hits = [k \in Keys |-> <<>>]
  /\ lastCleanup = [g \in Gateways |-> 0]
  /\ zset = [c \in Clients |-> {}]
  /\ expireAt = [c \in Clients |-> 0]
  /\ call = [k \in Calls |-> NoCall]
  /\ localLog = [k \in Keys |-> <<>>]
  /\ localVerdict = <<>>
  /\ redisLog = [c \in Clients |-> <<>>]

-----------------------------------------------------------------------------
(* The fallback limiter, _LocalSlidingWindow. *)

\* Mutant of Expired: a hit exactly Window old stays (< for <=).
ExpiredStrict(q, t) ==
  CHOOSE n \in 0..Len(q) :
    /\ \A i \in 1..n : q[i] < t - Window
    /\ n < Len(q) => q[n + 1] >= t - Window

\* How many hits _prune_key pops: those before the first one that is younger
\* than Window at time t.
Expired(q, t) ==
  CHOOSE n \in 0..Len(q) :
    /\ \A i \in 1..n : q[i] <= t - Window
    /\ n < Len(q) => q[n + 1] > t - Window

PruneKey(q, t) == SubSeq(q, Expired(q, t) + 1, Len(q))

\* allow() sweeps all keys every CleanupEvery.
SweepDue(g) == clock - lastCleanup[g] >= CleanupEvery

\* Mutant of Swept: the sweep is forgotten.
SweptNot(g) == hits

\* Mutant of Swept: the sweep drops every deque of the process, young hits included.
SweptClean(g) ==
  [k \in Keys |-> IF k[1] = g /\ SweepDue(g) THEN <<>> ELSE hits[k]]

\* _hits after the sweep of process g, if one is due.
Swept(g) ==
  [k \in Keys |-> IF k[1] = g /\ SweepDue(g) THEN PruneKey(hits[k], clock)
                 ELSE hits[k]]

\* _fallback_limiter.check(c) in process g.
LocalAllow(g, c) ==
  LET k == <<g, c>>
      h == Swept(g)
      q == PruneKey(h[k], clock)
      ok == Len(q) < Max
  IN  /\ lastCleanup' = [lastCleanup EXCEPT ![g] = IF SweepDue(g) THEN clock ELSE @]
      /\ hits' = [h EXCEPT ![k] = IF ok THEN Append(q, clock) ELSE q]
      /\ localLog' = [localLog EXCEPT ![k] = IF ok THEN Append(@, clock) ELSE @]
      /\ localVerdict' = <<k, ok>>

-----------------------------------------------------------------------------
(* The calls. *)

\* check_rate_limit without a redis_url.
CheckLocal(g, c) ==
  /\ ~redisUrl
  /\ LocalAllow(g, c)
  /\ UNCHANGED <<clock, redisUrl, redisVars, call, redisLog>>

\* Mutant of Send: the stamp is rounded up.
SendRoundedUp(k, g, c) ==
  /\ redisUrl
  /\ call[k] = NoCall
  /\ call' = [call EXCEPT ![k] = [state |-> "sent", gateway |-> g, client |-> c,
                                  stamp |-> clock + 1, allowed |-> FALSE]]
  /\ UNCHANGED <<clock, redisUrl, redisVars, fallbackVars, redisLog>>

\* _check_rate_limit_redis stamps the call and sends the script.
Send(k, g, c) ==
  /\ redisUrl
  /\ call[k] = NoCall
  /\ call' = [call EXCEPT ![k] = [state |-> "sent", gateway |-> g, client |-> c,
                                  stamp |-> clock, allowed |-> FALSE]]
  /\ UNCHANGED <<clock, redisUrl, redisVars, fallbackVars, redisLog>>

\* Mutant of Kept: the script prunes one tick early.
KeptShort(c, t) ==
  {m \in zset[c] : clock < expireAt[c] /\ m[1] > t - Window + 1}

\* The members of c's sorted set that ZREMRANGEBYSCORE leaves for a stamp t; none of
\* a key that Redis has dropped.
Kept(c, t) ==
  {m \in zset[c] : clock < expireAt[c] /\ m[1] > t - Window}

\* _new_member: one that the set does not have.
NewMember(set, t) == CHOOSE m \in {t} \X (0..(Max - 1)) : m \notin set

\* Redis runs the script of a call, one that was given up included.
RunScript(k) ==
  /\ call[k] # NoCall
  /\ call[k].state \in {"sent", "late"}
  /\ LET c == call[k].client
         t == call[k].stamp
         kept == Kept(c, t)
         ok == Cardinality(kept) < Max
     IN  /\ zset' = [zset EXCEPT ![c] =
                       IF ok THEN kept \cup {NewMember(kept, t)} ELSE kept]
         /\ expireAt' = [expireAt EXCEPT ![c] = IF ok THEN clock + Window ELSE @]
         /\ call' = [call EXCEPT ![k] =
                       IF @.state = "late" THEN NoCall
                       ELSE [@ EXCEPT !.state = "ran", !.allowed = ok]]
  /\ UNCHANGED <<clock, redisUrl, fallbackVars, redisLog>>

\* The script's answer reaches the gateway.
Return(k) ==
  /\ call[k] # NoCall
  /\ call[k].state = "ran"
  /\ redisLog' = [redisLog EXCEPT ![call[k].client] =
                    IF call[k].allowed THEN Append(@, clock) ELSE @]
  /\ call' = [call EXCEPT ![k] = NoCall]
  /\ UNCHANGED <<clock, redisUrl, redisVars, fallbackVars>>

\* Redis is down or not initialised, the call times out or its answer is lost:
\* the exception is swallowed and the fallback decides.
FallBack(k) ==
  /\ call[k] # NoCall
  /\ call[k].state \in {"sent", "ran"}
  /\ LocalAllow(call[k].gateway, call[k].client)
  /\ \/ call' = [call EXCEPT ![k] = NoCall]
     \/ /\ call[k].state = "sent"
        /\ call' = [call EXCEPT ![k].state = "late"]
  /\ UNCHANGED <<clock, redisUrl, redisVars, redisLog>>

\* Time passes; no call stays without an answer or exception beyond Delay.
Tick ==
  /\ clock < MaxClock
  /\ \A k \in Calls :
       (call[k] # NoCall /\ call[k].state # "late") => clock < call[k].stamp + Delay
  /\ clock' = clock + 1
  /\ UNCHANGED <<redisUrl, fallbackVars, redisVars, call, redisLog>>

Next ==
  \/ \E g \in Gateways, c \in Clients : CheckLocal(g, c)
  \/ \E k \in Calls, g \in Gateways, c \in Clients : Send(k, g, c)
  \/ \E k \in Calls : RunScript(k)
  \/ \E k \in Calls : Return(k)
  \/ \E k \in Calls : FallBack(k)
  \/ Tick

Spec == Init /\ [][Next]_vars

-----------------------------------------------------------------------------
(* Properties. *)

Fallback ==
  INSTANCE SlidingWindow WITH Clients <- Keys, log <- localLog,
                              verdict <- localVerdict

\* The deque that forgets old hits answers as if it remembered all of them:
\* each process's fallback limiter implements the sliding window.
FallbackImplementsWindow == Fallback!Spec

\* A process's fallback allows no Max + 1 calls of a client within Window.
FallbackWindow == Fallback!WindowBound

\* Redis, shared by all processes, allows no Max + 1 calls of a client within
\* Window - Delay, although it prunes by stamps that arrive out of order.
RedisWindow ==
  \A c \in Clients : \A i \in 1..(Len(redisLog[c]) - Max) :
    redisLog[c][i + Max] - redisLog[c][i] >= Window - Delay

\* The fallback forgets a client: no hit it keeps was older than Window at the
\* last sweep, and between sweeps the calls are less than CleanupEvery apart.
IdleKeysForgotten ==
  \A k \in Keys : hits[k] # <<>> => Head(hits[k]) > lastCleanup[k[1]] - Window

\* The places in a log of the calls that were allowed less than age ago.
Recent(q, age) == {i \in DOMAIN q : q[i] > clock - age}

\* docs/analysis-and-review.md: rate_limit_rpm is the number of requests per
\* minute per client.  One process, its Redis answers and its fallback together,
\* allows at most Max calls of a client within Window.
DocumentedLimit ==
  \A g \in Gateways, c \in Clients :
    Cardinality(Recent(redisLog[c], Window)) + Cardinality(Recent(localLog[<<g, c>>], Window))
      <= Max

\* What holds instead, of any processes together: the calls of a client that Redis
\* allowed in the last Window - Delay and those that the processes' fallbacks allowed
\* in the last Window are at most Max, and Max more for each of the processes, however
\* often Redis fails and comes back for each of them.
DeploymentLimit ==
  \A c \in Clients, G \in SUBSET Gateways :
    IsFiniteSet(G) =>
      Cardinality(Recent(redisLog[c], Window - Delay))
        + Cardinality(UNION {{g} \X Recent(localLog[<<g, c>>], Window) : g \in G})
      <= Max + Cardinality(G) * Max
=============================================================================

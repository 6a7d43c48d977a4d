--------------------------- MODULE ConsumerCache ---------------------------
(***************************************************************************)
(* The cache of Kafka consumers in app/domains/kafka.py and the two tools  *)
(* that borrow from it, kafka.peek_messages and kafka.consumer_lag.  Tools *)
(* are coroutines of one event loop: an action is what one call does from  *)
(* one await to the next, so no action interleaves inside another, and     *)
(* everything may change while a call waits.                               *)
(*                                                                         *)
(* A cached consumer is handed to every call of its configuration.  A peek *)
(* assigns its topic to the consumer and reads what is assigned when the   *)
(* fetch returns.                                                          *)
(***************************************************************************)
EXTENDS Naturals, FiniteSets

CONSTANTS
  Calls,      \* slots for concurrent calls of the two tools
  Topics,     \* topics of the broker
  Groups,     \* consumer groups, the group_id of a lag call
  Consumers,  \* AIOKafkaConsumer objects
  NoGroup,    \* group_id None, the configuration of every peek
  TTL,        \* _CACHE_TTL_SECONDS
  MaxClock,   \* bound on the model's clock
  None        \* no cache entry, no consumer, no call, no topic

ASSUME TTLAssumption == TTL \in Nat
ASSUME ClockAssumption == MaxClock \in Nat
ASSUME NoneAssumption ==
  /\ None \notin Consumers \cup Topics
  /\ NoGroup \notin Groups

VARIABLES
  clock,      \* time.monotonic()
  cache,      \* _consumer_cache
  consumers,  \* the consumer objects
  req         \* the calls

vars == <<clock, cache, consumers, req>>

\* The keyword arguments of a consumer: a peek has no group and sets
\* consumer_timeout_ms, a lag call has a group and does not.
Configs == [group : {NoGroup} \cup Groups, timeout : BOOLEAN]
PeekConfig == [group |-> NoGroup, timeout |-> TRUE]
LagConfig(g) == [group |-> g, timeout |-> FALSE]

Keys == {NoGroup} \cup Groups

\* Mutant of ConsumerKey: the group is left out of the key.
ConsumerKeyNoGroup(config) == NoGroup

\* _make_consumer_key: both tools set enable_auto_commit to False and leave
\* auto_offset_reset at "latest", and consumer_timeout_ms is not in the key.
ConsumerKey(config) == config.group

Entries == [consumer : Consumers, lastUsed : 0..MaxClock]

\* A consumer is "closing" from the call of stop() on, "stopped" when stop() has
\* closed it, "lost" when start() or stop() was cut short by an exception or a
\* cancellation: parts of it may run on, and nobody will stop it again.
\* raced: another call was starting a consumer of the same key (history, until stop()).
Objects == [config : Configs,
            state : {"starting", "running", "closing", "stopped", "lost"},
            assigned : Topics \cup {None}, raced : BOOLEAN]

\* A call waits for the stop of a stale consumer ("evicting"), for its own
\* consumer's start ("starting"), for metadata, for the seeks, for the fetch,
\* or for the stop of a consumer after its failure ("cleanup"); consumer is the one
\* it works with, starts or stops.  now is the time it began, scan the keys it has
\* yet to look at, alone that no other peek has had its consumer since (history).
Running == [pc : {"evicting", "starting", "metadata", "seeking", "fetching", "cleanup"},
            config : Configs, topic : Topics \cup {None}, now : 0..MaxClock,
            scan : SUBSET Keys, consumer : Consumers \cup {None}, alone : BOOLEAN]

ASSUME RecordsAssumption == None \notin Entries \cup Objects \cup Running

ASSUME LendingAssumption ==
  /\ None \notin [config : Configs, state : {"starting", "running", "retired"}]
  /\ None \notin [config : Configs, holds : Consumers \cup {None}]

TypeOK ==
  /\ clock \in 0..MaxClock
  /\ cache \in [Keys -> Entries \cup {None}]
  /\ consumers \in [Consumers -> Objects \cup {None}]
  /\ req \in [Calls -> Running \cup {None}]

Init ==
  /\ clock = 0
  /\ cache = [k \in Keys |-> None]
  /\ consumers = [i \in Consumers |-> None]
  /\ req = [r \in Calls |-> None]

-----------------------------------------------------------------------------
(* _get_cached_consumer. *)

\* The calls that work with consumer i.
Users(i) ==
  {r \in Calls : /\ req[r] # None
                 /\ req[r].pc \in {"metadata", "seeking", "fetching"}
                 /\ req[r].consumer = i}

\* The calls that are starting a consumer for key k.
Starters(k) ==
  {r \in Calls : /\ req[r] # None
                 /\ req[r].pc = "starting"
                 /\ ConsumerKey(req[r].config) = k}

\* The consumer objects that were never made, or that nobody looks at any more: the
\* model gives the place of a stopped or lost one to the next.
Unmade ==
  LET busy == {r \in Calls : req[r] # None}
  IN  {i \in Consumers :
         consumers[i] # None =>
           /\ consumers[i].state \in {"stopped", "lost"}
           /\ \A r \in busy : req[r].consumer # i}

Stale(k, now) == cache[k] # None /\ now > cache[k].lastUsed + TTL

\* Mutant of StopAndRemove: the entry goes only after the await of stop().
StopThenRemove(k) ==
  /\ consumers' = [consumers EXCEPT ![cache[k].consumer] =
                    [@ EXCEPT !.state = "closing", !.raced = FALSE]]
  /\ UNCHANGED cache

\* Mutant of StopAndRemove: the consumer is dropped without a stop.
RemoveOnly(k) ==
  /\ cache' = [cache EXCEPT ![k] = None]
  /\ UNCHANGED consumers

\* _stop_and_remove_consumer of a key that is cached, up to the await of stop():
\* the entry is popped, and stop() is called, whoever uses the consumer.
StopAndRemove(k) ==
  /\ cache' = [cache EXCEPT ![k] = None]
  /\ consumers' = [consumers EXCEPT ![cache[k].consumer] =
                    [@ EXCEPT !.state = "closing", !.raced = FALSE]]

\* The scan meets a stale entry k; rest are the keys after it.
EvictStale(r, q) ==
  \E k \in q.scan : \E rest \in SUBSET (q.scan \ {k}) :
    /\ Stale(k, q.now)
    /\ \A j \in q.scan \ (rest \cup {k}) : cache[j] # None /\ ~Stale(j, q.now)
    /\ req' = [req EXCEPT ![r] = [q EXCEPT !.pc = "evicting", !.scan = rest,
                                           !.consumer = cache[k].consumer]]
    /\ StopAndRemove(k)

\* The scan meets a key that another call has removed: KeyError.
ScanFails(r, q) ==
  /\ \E k \in q.scan : cache[k] = None
  /\ req' = [req EXCEPT ![r] = None]
  /\ UNCHANGED <<cache, consumers>>

\* The scan is over and the key is cached.
Hit(r, q) ==
  LET k == ConsumerKey(q.config)
      i == cache[k].consumer
      others == IF q.config = PeekConfig THEN Users(i) ELSE {}
  IN  /\ \A j \in q.scan : cache[j] # None /\ ~Stale(j, q.now)
      /\ cache[k] # None
      /\ cache' = [cache EXCEPT ![k].lastUsed = q.now]
      /\ req' = [s \in Calls |->
                   IF s = r THEN [q EXCEPT !.pc = "metadata", !.scan = {},
                                           !.consumer = i, !.alone = others = {}]
                   ELSE IF s \in others THEN [req[s] EXCEPT !.alone = FALSE]
                   ELSE req[s]]
      /\ UNCHANGED consumers

\* The scan is over and the key is not cached: a new consumer is started, also
\* when another call is starting one.
Miss(r, q) ==
  LET k == ConsumerKey(q.config)
      rivals == {req[s].consumer : s \in Starters(k)}
  IN  /\ \A j \in q.scan : cache[j] # None /\ ~Stale(j, q.now)
      /\ cache[k] = None
      /\ \E i \in Unmade :
           /\ consumers' = [j \in Consumers |->
                IF j = i THEN [config |-> q.config, state |-> "starting",
                               assigned |-> None, raced |-> rivals # {}]
                ELSE IF j \in rivals THEN [consumers[j] EXCEPT !.raced = TRUE]
                ELSE consumers[j]]
           /\ req' = [req EXCEPT ![r] = [q EXCEPT !.pc = "starting", !.scan = {},
                                                  !.consumer = i]]
      /\ UNCHANGED cache

\* What call q does until its next await.
Advance(r, q) == EvictStale(r, q) \/ ScanFails(r, q) \/ Hit(r, q) \/ Miss(r, q)

-----------------------------------------------------------------------------
(* The calls. *)

\* A tool call begins: it reads the clock and lists the keys.
Begin(r, config, topic) ==
  /\ req[r] = None
  /\ Advance(r, [pc |-> "evicting", config |-> config, topic |-> topic, now |-> clock,
                 scan |-> {k \in Keys : cache[k] # None}, consumer |-> None,
                 alone |-> TRUE])
  /\ UNCHANGED clock

At(r, pc) == req[r] # None /\ req[r].pc = pc

Stops(r) == At(r, "evicting") \/ At(r, "cleanup")

\* The stop() that r waits for has closed the consumer, or has raised and lost it:
\* an Exception is suppressed.
StopEnds(r) ==
  /\ Stops(r)
  /\ consumers[req[r].consumer].state = "closing"
  /\ \E outcome \in {"stopped", "lost"} :
       consumers' = [consumers EXCEPT ![req[r].consumer].state = outcome]
  /\ UNCHANGED <<clock, cache, req>>

\* stop() of a stale consumer has returned.
Resume(r) ==
  /\ At(r, "evicting")
  /\ consumers[req[r].consumer].state # "closing"
  /\ Advance(r, req[r])
  /\ UNCHANGED clock

\* start() has returned: the consumer replaces the key's entry, if there is one.
Started(r) ==
  /\ At(r, "starting")
  /\ cache' = [cache EXCEPT ![ConsumerKey(req[r].config)] =
                 [consumer |-> req[r].consumer, lastUsed |-> req[r].now]]
  /\ consumers' = [consumers EXCEPT ![req[r].consumer].state = "running"]
  /\ req' = [req EXCEPT ![r].pc = "metadata"]
  /\ UNCHANGED clock

\* Mutant of StartFails: the entry was made before the start and stays.
StartFailsCached(r) ==
  /\ At(r, "starting")
  /\ cache' = [cache EXCEPT ![ConsumerKey(req[r].config)] =
                 [consumer |-> None, lastUsed |-> req[r].now]]
  /\ consumers' = [consumers EXCEPT ![req[r].consumer].state = "lost"]
  /\ req' = [req EXCEPT ![r] = None]
  /\ UNCHANGED clock

\* start() raises, or the call is cancelled meanwhile: nobody stops the consumer,
\* however much of it has started.
StartFails(r) ==
  /\ At(r, "starting")
  /\ consumers' = [consumers EXCEPT ![req[r].consumer].state = "lost"]
  /\ req' = [req EXCEPT ![r] = None]
  /\ UNCHANGED <<clock, cache>>

\* Mutant of Assign: a consumer that has an assignment is neither assigned nor
\* sought again.
AssignOnce(r) ==
  LET i == req[r].consumer
  IN  /\ At(r, "metadata")
      /\ req[r].config = PeekConfig
      /\ \/ /\ consumers[i].assigned = None
            /\ consumers' = [consumers EXCEPT ![i].assigned = req[r].topic]
            /\ req' = [req EXCEPT ![r].pc = "seeking"]
         \/ /\ consumers[i].assigned # None
            /\ req' = [req EXCEPT ![r].pc = "fetching"]
            /\ UNCHANGED consumers
      /\ UNCHANGED <<clock, cache>>

\* A peek knows the partitions of its topic and assigns them to the consumer.
Assign(r) ==
  /\ At(r, "metadata")
  /\ req[r].config = PeekConfig
  /\ consumers' = [consumers EXCEPT ![req[r].consumer].assigned = req[r].topic]
  /\ req' = [req EXCEPT ![r].pc = "seeking"]
  /\ UNCHANGED <<clock, cache>>

\* The peek has sought its position in each partition; position() and seek()
\* raise for a partition that is not assigned (see BodyFails).
Seek(r) ==
  /\ At(r, "seeking")
  /\ consumers[req[r].consumer].assigned = req[r].topic
  /\ req' = [req EXCEPT ![r].pc = "fetching"]
  /\ UNCHANGED <<clock, cache, consumers>>

\* getmany returns records of the partitions assigned now; the answer is
\* labelled with the topic that was asked for.
Fetch(r) ==
  /\ At(r, "fetching")
  /\ req' = [req EXCEPT ![r] = None]
  /\ UNCHANGED <<clock, cache, consumers>>

\* A lag call has its offsets, or the topic has no partitions.
Finish(r) ==
  /\ At(r, "metadata")
  /\ req' = [req EXCEPT ![r] = None]
  /\ UNCHANGED <<clock, cache, consumers>>

\* The body raises: _ephemeral_consumer stops the consumer that is cached under
\* the key, which need not be the one that failed.
BodyFails(r) ==
  LET k == ConsumerKey(req[r].config)
  IN  /\ req[r] # None
      /\ req[r].pc \in {"metadata", "seeking", "fetching"}
      /\ \/ /\ cache[k] # None
            /\ req' = [req EXCEPT ![r].pc = "cleanup",
                                  ![r].consumer = cache[k].consumer]
            /\ StopAndRemove(k)
         \/ /\ cache[k] = None
            /\ req' = [req EXCEPT ![r] = None]
            /\ UNCHANGED <<cache, consumers>>
      /\ UNCHANGED clock

\* The exception is re-raised after the stop.
Raise(r) ==
  /\ At(r, "cleanup")
  /\ consumers[req[r].consumer].state # "closing"
  /\ req' = [req EXCEPT ![r] = None]
  /\ UNCHANGED <<clock, cache, consumers>>

\* A call is cancelled at an await: CancelledError is no Exception, so the consumer
\* it works with stays in the cache, and one that it waits to see closed is lost.
Cancel(r) ==
  /\ req[r] # None
  /\ req[r].pc # "starting"
  /\ req' = [req EXCEPT ![r] = None]
  /\ \/ /\ Stops(r) /\ consumers[req[r].consumer].state = "closing"
        /\ consumers' = [consumers EXCEPT ![req[r].consumer].state = "lost"]
     \/ /\ Stops(r) => consumers[req[r].consumer].state # "closing"
        /\ UNCHANGED consumers
  /\ UNCHANGED <<clock, cache>>

Tick ==
  /\ clock < MaxClock
  /\ clock' = clock + 1
  /\ UNCHANGED <<cache, consumers, req>>

Next ==
  \/ \E r \in Calls, t \in Topics : Begin(r, PeekConfig, t)
  \/ \E r \in Calls, g \in Groups : Begin(r, LagConfig(g), None)
  \/ \E r \in Calls : StopEnds(r)
  \/ \E r \in Calls : Resume(r)
  \/ \E r \in Calls : Started(r)
  \/ \E r \in Calls : StartFails(r)
  \/ \E r \in Calls : Assign(r)
  \/ \E r \in Calls : Seek(r)
  \/ \E r \in Calls : Fetch(r)
  \/ \E r \in Calls : Finish(r)
  \/ \E r \in Calls : BodyFails(r)
  \/ \E r \in Calls : Raise(r)
  \/ \E r \in Calls : Cancel(r)
  \/ Tick

Spec == Init /\ [][Next]_vars

-----------------------------------------------------------------------------
(* Properties. *)

\* No call is handed a consumer that was stopped or never started: what is
\* cached is running, whatever is being started, evicted or cleaned up.
CachedRunning ==
  \A k \in Keys : cache[k] # None => consumers[cache[k].consumer].state = "running"

\* The key decides the configuration: a call only works with a consumer that was
\* made with its own group and consumer_timeout_ms, though the key lacks the latter.
ConfigMatches ==
  \A i \in Consumers : \A r \in Users(i) : consumers[i].config = req[r].config

\* To the tools the cache is ConsumerLending, whatever they evict, race for or fail at: a
\* call gets a consumer that runs and has its own configuration, one that is starting is
\* nobody else's, and stop() is called at most once of each, which is lent to nobody
\* after that, nor after a start that failed.
Made ==
  [i \in Consumers |->
     IF consumers[i] = None THEN None
     ELSE [config |-> consumers[i].config,
           state |-> IF consumers[i].state \in {"starting", "running"}
                     THEN consumers[i].state ELSE "retired"]]

\* A call that cleans up after its failure is over, as far as lending goes.
Lent ==
  [r \in Calls |->
     IF req[r] = None \/ req[r].pc = "cleanup" THEN None
     ELSE [config |-> req[r].config,
           holds |-> IF req[r].pc = "evicting" THEN None ELSE req[r].consumer]]

Lending == INSTANCE ConsumerLending WITH object <- Made, call <- Lent

LendingImplemented == Lending!Spec

\* The calls that work with consumer i, start it or stop it.
Holders(i) == {r \in Calls : req[r] # None /\ req[r].consumer = i}

\* A consumer that is open, but neither cached nor in the hands of a call, will never
\* be stopped.  Where no start() or stop() of it was cut short ("lost"), that happens
\* only to one that was started while another call was starting one of the same key:
\* evictions, failing bodies and cancelled calls lose no other.
LossExplained ==
  \A i \in Consumers :
    (/\ consumers[i] # None
     /\ consumers[i].state \in {"starting", "running", "closing"}
     /\ Holders(i) = {}
     /\ \A k \in Keys : cache[k] = None \/ cache[k].consumer # i) => consumers[i].raced

\* The topic of the records that a fetch of r would return now.
ReadsFrom(r) == consumers[req[r].consumer].assigned

\* A peek that has its consumer for itself answers with records of its topic,
\* whatever earlier calls left in the consumer.
AlonePeekReadsItsTopic ==
  \A r \in Calls : (At(r, "fetching") /\ req[r].alone) => ReadsFrom(r) = req[r].topic

\* The description of kafka.peek_messages, "Preview recent messages from a Kafka
\* topic": what a peek fetches is of the topic that its answer names.
PeekReadsItsTopic ==
  \A r \in Calls : At(r, "fetching") => ReadsFrom(r) = req[r].topic
=============================================================================

------------------------ MODULE ConsumerCacheProofs ------------------------
(***************************************************************************)
(* What holds of the consumer cache for any number of calls, topics,       *)
(* groups and consumers: cached consumers run, calls get consumers of      *)
(* their own configuration, consumers are lost in races only, or by starts *)
(* and stops that were cut short, and a peek that is alone with its        *)
(* consumer reads its own topic.                                           *)
(***************************************************************************)
EXTENDS ConsumerCache, TLAPS

\* The configurations that the two tools ask for.
ToolConfigs == {PeekConfig} \cup {LagConfig(g) : g \in Groups}

UsingPcs == {"metadata", "seeking", "fetching"}

\* What is cached runs, and is found under its key.
CacheInv ==
  \A k \in Keys : cache[k] # None =>
    /\ consumers[cache[k].consumer] # None
    /\ consumers[cache[k].consumer].state = "running"
    /\ ConsumerKey(consumers[cache[k].consumer].config) = k

\* A call that starts a consumer has it for itself.
StartInv ==
  /\ \A r \in Calls : At(r, "starting") =>
       /\ req[r].consumer \in Consumers
       /\ consumers[req[r].consumer] # None
       /\ consumers[req[r].consumer].state = "starting"
       /\ consumers[req[r].consumer].config = req[r].config
  /\ \A r, s \in Calls :
       (r # s /\ At(r, "starting") /\ At(s, "starting")) =>
         req[r].consumer # req[s].consumer

\* A call works with a consumer that was started with its configuration.
UseInv ==
  /\ \A r \in Calls : (req[r] # None /\ req[r].pc \in UsingPcs) =>
       /\ req[r].consumer \in Consumers
       /\ consumers[req[r].consumer] # None
       /\ consumers[req[r].consumer].state # "starting"
       /\ consumers[req[r].consumer].config = req[r].config
  /\ \A r \in Calls : (req[r] # None /\ req[r].pc \in {"seeking", "fetching"}) =>
       req[r].config = PeekConfig

ConfigInv ==
  /\ \A r \in Calls : req[r] # None => req[r].config \in ToolConfigs
  /\ \A i \in Consumers : consumers[i] # None => consumers[i].config \in ToolConfigs

\* Whoever starts a consumer while its key is being filled, or was filled after
\* the call had missed it, is in a race with that other consumer.
RaceInv ==
  /\ \A r, s \in Calls :
       (/\ r # s /\ At(r, "starting") /\ At(s, "starting")
        /\ ConsumerKey(req[r].config) = ConsumerKey(req[s].config)) =>
          consumers[req[r].consumer].raced
  /\ \A r \in Calls :
       (At(r, "starting") /\ cache[ConsumerKey(req[r].config)] # None) =>
          consumers[cache[ConsumerKey(req[r].config)].consumer].raced

\* A running consumer that was in no race is cached, used or not.
KeptInv ==
  \A i \in Consumers :
    (consumers[i] # None /\ consumers[i].state = "running" /\ ~consumers[i].raced) =>
      /\ cache[ConsumerKey(consumers[i].config)] # None
      /\ cache[ConsumerKey(consumers[i].config)].consumer = i

\* A peek is alone only while no other peek has its consumer.
AloneInv ==
  \A r, s \in Calls :
    (/\ r # s /\ req[r] # None /\ req[s] # None
     /\ req[r].pc \in UsingPcs /\ req[s].pc \in UsingPcs
     /\ req[r].config = PeekConfig
     /\ req[r].consumer = req[s].consumer) => ~req[r].alone

StopPcs == {"evicting", "cleanup"}

\* A call that waits for a stop knows its consumer.
StopInv ==
  \A r \in Calls : (req[r] # None /\ req[r].pc \in StopPcs) =>
    req[r].consumer \in Consumers /\ consumers[req[r].consumer] # None

\* A consumer that starts, or is being closed, is in the hands of the call that
\* started it, or took it out of the cache.
Owns(r, i) ==
  /\ req[r] # None /\ req[r].consumer = i
  /\ IF consumers[i].state = "starting" THEN req[r].pc = "starting"
                                       ELSE req[r].pc \in StopPcs

OwnedInv ==
  \A i \in Consumers :
    (consumers[i] # None /\ consumers[i].state \in {"starting", "closing"}) =>
      \E r \in Calls : Owns(r, i)

CoreInv ==
  /\ TypeOK /\ CacheInv /\ StartInv /\ UseInv /\ ConfigInv
  /\ RaceInv /\ KeptInv /\ AloneInv /\ AlonePeekReadsItsTopic

IInv == CoreInv /\ StopInv /\ OwnedInv

-----------------------------------------------------------------------------

\* The key tells the tools' configurations apart.
LEMMA KeyIsConfig ==
  /\ ToolConfigs \subseteq Configs
  /\ \A c \in ToolConfigs : ConsumerKey(c) \in Keys
  /\ \A c, d \in ToolConfigs : ConsumerKey(c) = ConsumerKey(d) => c = d
<1>1. ASSUME NEW c \in ToolConfigs
      PROVE  \/ c = PeekConfig
             \/ \E g \in Groups : c = LagConfig(g)
  BY DEF ToolConfigs
<1>2. /\ PeekConfig \in Configs /\ ConsumerKey(PeekConfig) = NoGroup
      /\ \A g \in Groups : LagConfig(g) \in Configs /\ ConsumerKey(LagConfig(g)) = g
  BY DEF Configs, PeekConfig, LagConfig, ConsumerKey
<1>3. ToolConfigs \subseteq Configs
  BY <1>1, <1>2
<1>4. \A c \in ToolConfigs : ConsumerKey(c) \in Keys
  BY <1>1, <1>2 DEF Keys
<1>5. ASSUME NEW c \in ToolConfigs, NEW d \in ToolConfigs,
             ConsumerKey(c) = ConsumerKey(d)
      PROVE  c = d
  BY <1>1, <1>2, <1>5, NoneAssumption
<1> QED BY <1>3, <1>4, <1>5

LEMMA InitInv == Init => IInv
<1> SUFFICES ASSUME Init PROVE IInv
  OBVIOUS
<1>1. TypeOK
  BY ClockAssumption DEF Init, TypeOK
<1>2. /\ \A k \in Keys : cache[k] = None
      /\ \A i \in Consumers : consumers[i] = None
      /\ \A r \in Calls : req[r] = None
  BY DEF Init
<1>3. CacheInv /\ StartInv /\ UseInv /\ ConfigInv /\ KeptInv /\ AloneInv
  BY <1>2 DEF CacheInv, StartInv, UseInv, ConfigInv, KeptInv, AloneInv, At
<1>4. RaceInv /\ AlonePeekReadsItsTopic
  BY <1>2 DEF RaceInv, AlonePeekReadsItsTopic, At
<1>5. StopInv /\ OwnedInv
  BY <1>2 DEF StopInv, OwnedInv
<1> QED BY <1>1, <1>3, <1>4, <1>5 DEF IInv, CoreInv

\* The stop of consumer i ends, one way or the other.
StopOver(i) ==
  /\ consumers[i] # None /\ consumers[i].state = "closing"
  /\ \E w \in {"stopped", "lost"} : consumers' = [consumers EXCEPT ![i].state = w]
  /\ UNCHANGED cache

\* A call stops working, starts an eviction or a cleanup: nothing else changes, or
\* the stop of a consumer ends, or the entry of a cached key is removed and its
\* consumer being closed.
LEMMA DropStep ==
  ASSUME CoreInv, NEW r \in Calls, ~At(r, "starting"),
         NEW v \in Running \cup {None},
         v # None => v.pc \in {"evicting", "cleanup"} /\ v.config \in ToolConfigs,
         req' = [req EXCEPT ![r] = v], UNCHANGED clock,
         \/ UNCHANGED <<cache, consumers>>
         \/ \E i \in Consumers : StopOver(i)
         \/ \E k \in Keys : cache[k] # None /\ StopAndRemove(k)
  PROVE  CoreInv'
<1>1. /\ req' \in [Calls -> Running \cup {None}]
      /\ req'[r] = v
      /\ \A s \in Calls : s # r => req'[s] = req[s]
  BY DEF CoreInv, TypeOK
<1>2. /\ ~(At(r, "starting")') /\ ~(At(r, "fetching")')
      /\ ~(req'[r] # None /\ req'[r].pc \in UsingPcs)
  BY <1>1 DEF At, UsingPcs
<1>3. CASE UNCHANGED <<cache, consumers>>
  <2>1. TypeOK'
    BY <1>1, <1>3 DEF CoreInv, TypeOK
  <2>2. CacheInv' /\ KeptInv'
    BY <1>3 DEF CoreInv, CacheInv, KeptInv
  <2>3. StartInv' /\ RaceInv'
    BY <1>1, <1>2, <1>3 DEF CoreInv, StartInv, RaceInv, At
  <2>4. UseInv' /\ AloneInv'
    BY <1>1, <1>2, <1>3 DEF CoreInv, UseInv, AloneInv, UsingPcs
  <2>5. ConfigInv'
    BY <1>1, <1>3 DEF CoreInv, ConfigInv
  <2>6. AlonePeekReadsItsTopic'
    BY <1>1, <1>2, <1>3 DEF CoreInv, AlonePeekReadsItsTopic, At, ReadsFrom
  <2> QED BY <2>1, <2>2, <2>3, <2>4, <2>5, <2>6 DEF CoreInv
<1>4. ASSUME NEW k \in Keys, cache[k] # None, StopAndRemove(k)
      PROVE  CoreInv'
  <2> DEFINE i == cache[k].consumer
  <2>1. /\ cache[k] \in Entries /\ i \in Consumers
        /\ consumers[i] # None /\ consumers[i] \in Objects
        /\ consumers[i].state = "running" /\ ConsumerKey(consumers[i].config) = k
    BY <1>4 DEF CoreInv, TypeOK, CacheInv, Entries
  <2>2. /\ cache' \in [Keys -> Entries \cup {None}]
        /\ cache'[k] = None /\ \A j \in Keys : j # k => cache'[j] = cache[j]
    BY <1>4 DEF CoreInv, TypeOK, StopAndRemove
  <2> DEFINE o == [consumers[i] EXCEPT !.state = "closing", !.raced = FALSE]
  <2>3. o \in Objects /\ o.state = "closing" /\ o.config = consumers[i].config
        /\ o.assigned = consumers[i].assigned
    BY <2>1 DEF Objects
  <2>4. /\ consumers' = [consumers EXCEPT ![i] = o]
        /\ consumers' \in [Consumers -> Objects \cup {None}]
        /\ consumers'[i] = o /\ o # None
        /\ \A j \in Consumers : j # i => consumers'[j] = consumers[j]
    BY <1>4, <2>1, <2>3, RecordsAssumption DEF CoreInv, TypeOK, StopAndRemove
  <2> HIDE DEF i, o
  <2>5. TypeOK'
    BY <1>1, <2>2, <2>4 DEF CoreInv, TypeOK
  <2>6. CacheInv'
    <3> SUFFICES ASSUME NEW j \in Keys, cache'[j] # None
                 PROVE  /\ consumers'[cache'[j].consumer] # None
                        /\ consumers'[cache'[j].consumer].state = "running"
                        /\ ConsumerKey(consumers'[cache'[j].consumer].config) = j
      BY DEF CacheInv, ConsumerKey
    <3>1. j # k /\ cache'[j] = cache[j] /\ cache[j] # None /\ cache[j] \in Entries
      BY <2>2 DEF CoreInv, TypeOK
    <3>2. cache[j].consumer \in Consumers /\ cache[j].consumer # i
      BY <2>1, <3>1 DEF CoreInv, CacheInv, Entries
    <3> QED BY <2>4, <3>1, <3>2 DEF CoreInv, CacheInv
  <2>7. \A s \in Calls : At(s, "starting")' =>
          /\ s # r /\ req'[s] = req[s] /\ At(s, "starting")
          /\ req[s].consumer # i
          /\ consumers'[req[s].consumer] = consumers[req[s].consumer]
    BY <1>1, <1>2, <2>1, <2>4 DEF CoreInv, StartInv, At
  <2>8. StartInv'
    BY <2>7 DEF CoreInv, StartInv, At
  <2>9. UseInv'
    BY <1>1, <1>2, <2>1, <2>3, <2>4 DEF CoreInv, UseInv, UsingPcs
  <2>10. ConfigInv'
    BY <1>1, <2>1, <2>3, <2>4 DEF CoreInv, ConfigInv
  <2>11. RaceInv'
    <3>1. ASSUME NEW s \in Calls, NEW t \in Calls, s # t,
                 At(s, "starting")', At(t, "starting")',
                 ConsumerKey(req'[s].config) = ConsumerKey(req'[t].config)
          PROVE  consumers'[req'[s].consumer].raced
      BY <2>7, <3>1 DEF CoreInv, RaceInv
    <3>2. ASSUME NEW s \in Calls, At(s, "starting")',
                 cache'[ConsumerKey(req'[s].config)] # None
          PROVE  consumers'[cache'[ConsumerKey(req'[s].config)].consumer].raced
      <4> DEFINE j == ConsumerKey(req[s].config)
      <4>1. j \in Keys
        BY <2>7, <3>2, KeyIsConfig DEF CoreInv, ConfigInv, At
      <4>2. cache'[j] # None /\ j # k /\ cache'[j] = cache[j] /\ cache[j] \in Entries
        BY <2>2, <2>7, <3>2, <4>1 DEF CoreInv, TypeOK
      <4>3. cache[j].consumer \in Consumers /\ cache[j].consumer # i
        BY <2>1, <4>1, <4>2 DEF CoreInv, CacheInv, Entries
      <4>4. consumers[cache[j].consumer].raced
        BY <2>7, <3>2, <4>2 DEF CoreInv, RaceInv
      <4> QED BY <2>4, <2>7, <3>2, <4>2, <4>3, <4>4
    <3> QED BY <3>1, <3>2 DEF RaceInv, ConsumerKey
  <2>12. KeptInv'
    <3> SUFFICES ASSUME NEW j \in Consumers, consumers'[j] # None,
                        consumers'[j].state = "running", ~consumers'[j].raced
                 PROVE  /\ cache'[ConsumerKey(consumers'[j].config)] # None
                        /\ cache'[ConsumerKey(consumers'[j].config)].consumer = j
      BY DEF KeptInv, ConsumerKey
    <3>1. j # i /\ consumers'[j] = consumers[j]
      BY <2>3, <2>4
    <3>2. ConsumerKey(consumers[j].config) \in Keys
      BY <3>1, KeyIsConfig DEF CoreInv, ConfigInv
    <3>3. /\ cache[ConsumerKey(consumers[j].config)] # None
          /\ cache[ConsumerKey(consumers[j].config)].consumer = j
      BY <3>1 DEF CoreInv, KeptInv
    <3>4. ConsumerKey(consumers[j].config) # k
      BY <3>1, <3>3 DEF i
    <3> QED BY <2>2, <3>1, <3>2, <3>3, <3>4
  <2>13. AloneInv'
    BY <1>1, <1>2 DEF CoreInv, AloneInv, UsingPcs
  <2>14. AlonePeekReadsItsTopic'
    BY <1>1, <1>2, <2>3, <2>4
       DEF CoreInv, UseInv, AlonePeekReadsItsTopic, At, ReadsFrom, UsingPcs
  <2> QED
    BY <2>5, <2>6, <2>8, <2>9, <2>10, <2>11, <2>12, <2>13, <2>14 DEF CoreInv
<1>5. ASSUME NEW i \in Consumers, StopOver(i)
      PROVE  CoreInv'
  <2>1. PICK w \in {"stopped", "lost"} : consumers' = [consumers EXCEPT ![i].state = w]
    BY <1>5 DEF StopOver
  <2> DEFINE o == [consumers[i] EXCEPT !.state = w]
  <2>2. consumers[i] # None /\ consumers[i].state = "closing" /\ cache' = cache
        /\ consumers[i] \in Objects
    BY <1>5 DEF StopOver, CoreInv, TypeOK
  <2>3. /\ o \in Objects /\ o.state = w /\ o.config = consumers[i].config
        /\ o.assigned = consumers[i].assigned /\ o.raced = consumers[i].raced
    BY <2>2 DEF Objects
  <2>4. /\ consumers' \in [Consumers -> Objects \cup {None}]
        /\ consumers'[i] = o /\ o # None
        /\ \A j \in Consumers : j # i => consumers'[j] = consumers[j]
    BY <2>1, <2>3, RecordsAssumption DEF CoreInv, TypeOK
  <2> HIDE DEF o
  <2>5. \A j \in Consumers : /\ consumers'[j] # None <=> consumers[j] # None
                             /\ consumers'[j].config = consumers[j].config
                             /\ consumers'[j].assigned = consumers[j].assigned
                             /\ consumers'[j].raced = consumers[j].raced
    BY <2>2, <2>3, <2>4
  <2>6. \A j \in Keys : cache[j] # None => cache[j].consumer \in Consumers \ {i}
    BY <2>2 DEF CoreInv, TypeOK, CacheInv, Entries
  <2>7. \A s \in Calls : At(s, "starting")' =>
          /\ s # r /\ req'[s] = req[s] /\ At(s, "starting")
          /\ req[s].consumer \in Consumers \ {i}
          /\ ConsumerKey(req[s].config) \in Keys
    BY <1>1, <1>2, <2>2, KeyIsConfig DEF CoreInv, StartInv, ConfigInv, At
  <2>8. TypeOK' /\ CacheInv' /\ ConfigInv'
    <3>1. TypeOK'
      BY <1>1, <2>2, <2>4 DEF CoreInv, TypeOK
    <3>2. CacheInv'
      BY <2>2, <2>4, <2>6 DEF CoreInv, CacheInv, ConsumerKey
    <3>3. ConfigInv'
      BY <1>1, <2>5 DEF CoreInv, ConfigInv
    <3> QED BY <3>1, <3>2, <3>3
  <2>9. StartInv'
    BY <2>4, <2>7 DEF CoreInv, StartInv, At
  <2>10. UseInv'
    BY <1>1, <1>2, <2>3, <2>4, <2>5 DEF CoreInv, UseInv, UsingPcs
  <2>11. RaceInv'
    <3>1. ASSUME NEW s \in Calls, NEW t \in Calls, s # t,
                 At(s, "starting")', At(t, "starting")',
                 ConsumerKey(req'[s].config) = ConsumerKey(req'[t].config)
          PROVE  consumers'[req'[s].consumer].raced
      BY <2>4, <2>7, <3>1 DEF CoreInv, RaceInv
    <3>2. ASSUME NEW s \in Calls, At(s, "starting")',
                 cache'[ConsumerKey(req'[s].config)] # None
          PROVE  consumers'[cache'[ConsumerKey(req'[s].config)].consumer].raced
      BY <2>2, <2>4, <2>6, <2>7, <3>2 DEF CoreInv, RaceInv
    <3> QED BY <3>1, <3>2 DEF RaceInv, ConsumerKey
  <2>12. KeptInv'
    BY <2>2, <2>3, <2>4 DEF CoreInv, KeptInv, ConsumerKey
  <2>13. AloneInv'
    BY <1>1, <1>2 DEF CoreInv, AloneInv, UsingPcs
  <2>14. AlonePeekReadsItsTopic'
    BY <1>1, <1>2, <2>5
       DEF CoreInv, UseInv, AlonePeekReadsItsTopic, At, ReadsFrom, UsingPcs
  <2> QED BY <2>8, <2>9, <2>10, <2>11, <2>12, <2>13, <2>14 DEF CoreInv
<1> QED BY <1>3, <1>4, <1>5

\* A call is handed the cached consumer of its key.
LEMMA HitStep ==
  ASSUME CoreInv, NEW r \in Calls, NEW q \in Running, q.config \in ToolConfigs,
         ~At(r, "starting"), UNCHANGED clock, Hit(r, q)
  PROVE  CoreInv'
<1> DEFINE k == ConsumerKey(q.config)
           i == cache[k].consumer
           others == IF q.config = PeekConfig THEN Users(i) ELSE {}
<1>1. /\ k \in Keys /\ cache[k] # None /\ cache[k] \in Entries
      /\ i = cache[k].consumer /\ i \in Consumers
      /\ consumers[i] # None /\ consumers[i] \in Objects
      /\ consumers[i].state = "running" /\ consumers[i].config = q.config
  <2>1. k \in Keys /\ cache[k] # None
    BY KeyIsConfig DEF Hit
  <2>2. cache[k] \in Entries /\ i \in Consumers
    BY <2>1 DEF CoreInv, TypeOK, Entries
  <2>3. /\ consumers[i] # None /\ consumers[i] \in Objects
        /\ consumers[i].state = "running" /\ ConsumerKey(consumers[i].config) = k
    BY <2>1, <2>2 DEF CoreInv, TypeOK, CacheInv
  <2>4. consumers[i].config = q.config
    BY <2>2, <2>3, KeyIsConfig DEF CoreInv, ConfigInv
  <2> QED BY <2>1, <2>2, <2>3, <2>4
<1>2. PICK b \in BOOLEAN : b = (others = {})
  OBVIOUS
<1> DEFINE v == [q EXCEPT !.pc = "metadata", !.scan = {}, !.consumer = i, !.alone = b]
           e == [cache[k] EXCEPT !.lastUsed = q.now]
<1>3. /\ v \in Running /\ v # None /\ v.pc = "metadata" /\ v.config = q.config
      /\ v.consumer = i /\ v.alone = b
  BY <1>1, RecordsAssumption DEF Running
<1>4. e \in Entries /\ e # None /\ e.consumer = i
  BY <1>1, RecordsAssumption DEF Entries, Running
<1>5. /\ cache' = [cache EXCEPT ![k] = e]
      /\ req' = [s \in Calls |-> IF s = r THEN v
                               ELSE IF s \in others THEN [req[s] EXCEPT !.alone = FALSE]
                               ELSE req[s]]
      /\ UNCHANGED consumers
  BY <1>1, <1>2 DEF Hit, CoreInv, TypeOK
<1>6. /\ req'[r] = v
      /\ \A s \in Calls : (s # r /\ s \in others) => req'[s] = [req[s] EXCEPT !.alone = FALSE]
      /\ \A s \in Calls : (s # r /\ s \notin others) => req'[s] = req[s]
  BY <1>5
<1>7. /\ cache' \in [Keys -> Entries \cup {None}]
      /\ cache'[k] = e /\ \A j \in Keys : j # k => cache'[j] = cache[j]
  BY <1>1, <1>4, <1>5 DEF CoreInv, TypeOK
<1> HIDE DEF v, e, i, k
<1>8. \A s \in others : /\ s \in Calls /\ req[s] # None /\ req[s].pc \in UsingPcs
                        /\ req[s].consumer = i
  BY DEF Users, UsingPcs
<1>9. \A s \in Calls : (s # r /\ req'[s] # None) =>
        /\ req[s] # None /\ req'[s] \in Running
        /\ req'[s].pc = req[s].pc /\ req'[s].config = req[s].config
        /\ req'[s].consumer = req[s].consumer /\ req'[s].topic = req[s].topic
        /\ req'[s].alone => req[s].alone
        /\ s \in others => ~req'[s].alone
  <2> SUFFICES ASSUME NEW s \in Calls, s # r, req'[s] # None
               PROVE  /\ req[s] # None /\ req'[s] \in Running
                      /\ req'[s].pc = req[s].pc /\ req'[s].config = req[s].config
                      /\ req'[s].consumer = req[s].consumer
                      /\ req'[s].topic = req[s].topic
                      /\ req'[s].alone => req[s].alone
                      /\ s \in others => ~req'[s].alone
    OBVIOUS
  <2>1. CASE s \notin others
    BY <1>6, <2>1 DEF CoreInv, TypeOK
  <2>2. CASE s \in others
    <3>1. req[s] # None /\ req[s] \in Running
      BY <1>8, <2>2 DEF CoreInv, TypeOK
    <3>2. req'[s] = [req[s] EXCEPT !.alone = FALSE]
      BY <1>6, <2>2
    <3> QED BY <3>1, <3>2 DEF Running
  <2> QED BY <2>1, <2>2
<1> HIDE DEF others
<1>10. TypeOK'
  <2>1. \A s \in Calls : req'[s] \in Running \cup {None}
    BY <1>3, <1>6, <1>9
  <2> QED BY <1>5, <1>7, <2>1 DEF CoreInv, TypeOK
<1>11. CacheInv'
  BY <1>1, <1>4, <1>5, <1>7 DEF CoreInv, CacheInv
<1>12. StartInv'
  BY <1>3, <1>5, <1>6, <1>9 DEF CoreInv, StartInv, At
<1>13. UseInv'
  <2>1. \A s \in Calls : (s # r /\ req'[s] # None) =>
          /\ req[s] # None /\ req'[s].pc = req[s].pc
          /\ req'[s].config = req[s].config /\ req'[s].consumer = req[s].consumer
    BY <1>9
  <2> QED BY <1>1, <1>3, <1>5, <1>6, <2>1 DEF CoreInv, UseInv, UsingPcs
<1>14. ConfigInv'
  BY <1>3, <1>5, <1>6, <1>9 DEF CoreInv, ConfigInv
<1>15. RaceInv'
  <2>1. \A s \in Calls : At(s, "starting")' =>
          /\ At(s, "starting") /\ s # r
          /\ req'[s].config = req[s].config /\ req'[s].consumer = req[s].consumer
    BY <1>3, <1>6, <1>9 DEF At
  <2>2. \A j \in Keys : cache'[j] # None =>
          cache[j] # None /\ cache'[j].consumer = cache[j].consumer
    BY <1>1, <1>4, <1>7
  <2>3. \A s \in Calls : At(s, "starting") => ConsumerKey(req[s].config) \in Keys
    BY KeyIsConfig DEF CoreInv, ConfigInv, At
  <2>4. ASSUME NEW s \in Calls, At(s, "starting")',
               cache'[ConsumerKey(req'[s].config)] # None
        PROVE  consumers'[cache'[ConsumerKey(req'[s].config)].consumer].raced
    BY <1>5, <2>1, <2>2, <2>3, <2>4 DEF CoreInv, RaceInv
  <2>5. ASSUME NEW s \in Calls, NEW t \in Calls, s # t,
               At(s, "starting")', At(t, "starting")',
               ConsumerKey(req'[s].config) = ConsumerKey(req'[t].config)
        PROVE  consumers'[req'[s].consumer].raced
    BY <1>5, <2>1, <2>5 DEF CoreInv, RaceInv
  <2> QED BY <2>4, <2>5 DEF RaceInv, ConsumerKey
<1>16. KeptInv'
  <2>1. \A j \in Keys : cache[j] # None =>
          cache'[j] # None /\ cache'[j].consumer = cache[j].consumer
    BY <1>1, <1>4, <1>7
  <2>2. \A j \in Consumers : consumers[j] # None => ConsumerKey(consumers[j].config) \in Keys
    BY KeyIsConfig DEF CoreInv, ConfigInv
  <2> QED BY <1>5, <2>1, <2>2 DEF CoreInv, KeptInv
<1>17. AloneInv'
  <2> SUFFICES ASSUME NEW s \in Calls, NEW t \in Calls, s # t,
                      req'[s] # None, req'[t] # None,
                      req'[s].pc \in UsingPcs, req'[t].pc \in UsingPcs,
                      req'[s].config = PeekConfig,
                      req'[s].consumer = req'[t].consumer
               PROVE  ~req'[s].alone
    BY DEF AloneInv
  <2>1. CASE s = r
    <3>1. t \in others
      BY <1>3, <1>6, <1>9, <2>1 DEF others, Users, UsingPcs
    <3> QED BY <1>2, <1>3, <1>6, <2>1, <3>1
  <2>2. CASE t = r
    <3>1. req[s] # None /\ req[s].pc \in UsingPcs /\ req[s].consumer = i
          /\ req[s].config = PeekConfig
      BY <1>3, <1>6, <1>9, <2>2
    <3>2. q.config = PeekConfig
      BY <1>1, <3>1 DEF CoreInv, UseInv
    <3>3. s \in others
      BY <3>1, <3>2 DEF others, Users, UsingPcs
    <3> QED BY <1>9, <2>2, <3>3
  <2>3. CASE s # r /\ t # r
    BY <1>9, <2>3 DEF CoreInv, AloneInv
  <2> QED BY <2>1, <2>2, <2>3
<1>18. AlonePeekReadsItsTopic'
  BY <1>3, <1>5, <1>6, <1>9 DEF CoreInv, AlonePeekReadsItsTopic, At, ReadsFrom
<1> QED
  BY <1>10, <1>11, <1>12, <1>13, <1>14, <1>15, <1>16, <1>17, <1>18 DEF CoreInv

\* A call makes a consumer and waits for its start.
LEMMA MissStep ==
  ASSUME CoreInv, NEW r \in Calls, NEW q \in Running, q.config \in ToolConfigs,
         ~At(r, "starting"), UNCHANGED clock, Miss(r, q)
  PROVE  CoreInv'
<1> DEFINE k == ConsumerKey(q.config)
           rivals == {req[s].consumer : s \in Starters(k)}
<1>1. k \in Keys /\ cache[k] = None /\ cache' = cache
  BY KeyIsConfig DEF Miss
<1>2. PICK i \in Unmade :
        /\ consumers' = [j \in Consumers |->
             IF j = i THEN [config |-> q.config, state |-> "starting",
                            assigned |-> None, raced |-> rivals # {}]
             ELSE IF j \in rivals THEN [consumers[j] EXCEPT !.raced = TRUE]
             ELSE consumers[j]]
        /\ req' = [req EXCEPT ![r] = [q EXCEPT !.pc = "starting", !.scan = {},
                                               !.consumer = i]]
  BY DEF Miss
<1>3. PICK b \in BOOLEAN : b = (rivals # {})
  OBVIOUS
<1> DEFINE v == [q EXCEPT !.pc = "starting", !.scan = {}, !.consumer = i]
           o == [config |-> q.config, state |-> "starting", assigned |-> None,
                 raced |-> b]
<1>4. /\ i \in Consumers
      /\ consumers[i] # None => consumers[i].state \in {"stopped", "lost"}
      /\ \A s \in Calls : (consumers[i] # None /\ req[s] # None) => req[s].consumer # i
  BY DEF Unmade
<1>5. /\ v \in Running /\ v # None /\ v.pc = "starting" /\ v.config = q.config
      /\ v.consumer = i
  BY <1>4, RecordsAssumption DEF Running
<1>6. /\ o \in Objects /\ o # None /\ o.config = q.config /\ o.state = "starting"
      /\ o.raced = b
  BY KeyIsConfig, RecordsAssumption DEF Objects
<1>7. /\ req' \in [Calls -> Running \cup {None}]
      /\ req'[r] = v /\ \A s \in Calls : s # r => req'[s] = req[s]
  BY <1>2, <1>5 DEF CoreInv, TypeOK
<1>8. \A j \in rivals : /\ j \in Consumers /\ consumers[j] # None
                        /\ consumers[j] \in Objects /\ consumers[j].state = "starting"
                        /\ j # i
  <2> SUFFICES ASSUME NEW s \in Starters(k)
               PROVE  /\ req[s].consumer \in Consumers
                      /\ consumers[req[s].consumer] # None
                      /\ consumers[req[s].consumer] \in Objects
                      /\ consumers[req[s].consumer].state = "starting"
                      /\ req[s].consumer # i
    OBVIOUS
  <2>1. s \in Calls /\ At(s, "starting") /\ req[s] # None
    BY DEF Starters, At
  <2> QED BY <1>4, <2>1 DEF CoreInv, StartInv, TypeOK
<1>9. /\ consumers'[i] = o
      /\ \A j \in Consumers : (j # i /\ j \in rivals) =>
           consumers'[j] = [consumers[j] EXCEPT !.raced = TRUE]
      /\ \A j \in Consumers : (j # i /\ j \notin rivals) => consumers'[j] = consumers[j]
  BY <1>2, <1>3, <1>4
<1>10. \A s \in Calls : s # r /\ At(s, "starting") => s \in Starters(k) \/ ConsumerKey(req[s].config) # k
  BY DEF Starters, At
<1>11. \A s \in Starters(k) : req[s].consumer \in rivals
  OBVIOUS
<1> HIDE DEF v, o
<1>12. \A j \in Consumers : (j # i /\ consumers'[j] # None) =>
         /\ consumers[j] # None /\ consumers'[j] \in Objects
         /\ consumers'[j].config = consumers[j].config
         /\ consumers'[j].state = consumers[j].state
         /\ consumers'[j].assigned = consumers[j].assigned
         /\ consumers[j].raced => consumers'[j].raced
         /\ j \in rivals => consumers'[j].raced
  <2> SUFFICES ASSUME NEW j \in Consumers, j # i, consumers'[j] # None
               PROVE  /\ consumers[j] # None /\ consumers'[j] \in Objects
                      /\ consumers'[j].config = consumers[j].config
                      /\ consumers'[j].state = consumers[j].state
                      /\ consumers'[j].assigned = consumers[j].assigned
                      /\ consumers[j].raced => consumers'[j].raced
                      /\ j \in rivals => consumers'[j].raced
    OBVIOUS
  <2>1. CASE j \notin rivals
    BY <1>9, <2>1 DEF CoreInv, TypeOK
  <2>2. CASE j \in rivals
    <3>1. consumers[j] # None /\ consumers[j] \in Objects
      BY <1>8, <2>2
    <3>2. consumers'[j] = [consumers[j] EXCEPT !.raced = TRUE]
      BY <1>9, <2>2
    <3> QED BY <3>1, <3>2 DEF Objects
  <2> QED BY <2>1, <2>2
<1>13. \A j \in Consumers : (j # i /\ consumers[j] # None) => consumers'[j] # None
  <2> SUFFICES ASSUME NEW j \in Consumers, j # i, consumers[j] # None
               PROVE  consumers'[j] # None
    OBVIOUS
  <2>1. consumers[j] \in Objects
    BY DEF CoreInv, TypeOK
  <2>2. [consumers[j] EXCEPT !.raced = TRUE] \in Objects
    BY <2>1 DEF Objects
  <2> QED BY <1>9, <2>2, RecordsAssumption
<1>14. \A j \in Keys : cache[j] # None => cache[j].consumer \in Consumers \ {i}
  BY <1>4 DEF CoreInv, TypeOK, CacheInv, Entries
<1>15. \A s \in Calls : (s # r /\ req[s] # None /\ (At(s, "starting") \/ req[s].pc \in UsingPcs)) =>
         req[s].consumer \in Consumers \ {i}
  BY <1>4 DEF CoreInv, StartInv, UseInv, At
<1>16. \A s \in Calls : At(s, "starting") => ConsumerKey(req[s].config) \in Keys
  BY KeyIsConfig DEF CoreInv, ConfigInv, At
<1>17. TypeOK'
  <2>1. \A j \in Consumers : consumers'[j] \in Objects \cup {None}
    BY <1>6, <1>9, <1>12
  <2>2. consumers' = [j \in Consumers |-> consumers'[j]]
    BY <1>2
  <2> QED BY <1>1, <1>7, <2>1, <2>2 DEF CoreInv, TypeOK
<1>18. CacheInv'
  BY <1>1, <1>12, <1>13, <1>14 DEF CoreInv, CacheInv, ConsumerKey
<1>19. StartInv'
  <2>1. ASSUME NEW s \in Calls, At(s, "starting")'
        PROVE  /\ req'[s].consumer \in Consumers
               /\ consumers'[req'[s].consumer] # None
               /\ consumers'[req'[s].consumer].state = "starting"
               /\ consumers'[req'[s].consumer].config = req'[s].config
    <3>1. CASE s = r
      BY <1>4, <1>5, <1>6, <1>7, <1>9, <3>1
    <3>2. CASE s # r
      BY <1>7, <1>12, <1>13, <1>15, <2>1, <3>2 DEF CoreInv, StartInv, At
    <3> QED BY <3>1, <3>2
  <2>2. ASSUME NEW s \in Calls, NEW t \in Calls, s # t,
               At(s, "starting")', At(t, "starting")'
        PROVE  req'[s].consumer # req'[t].consumer
    BY <1>5, <1>7, <1>15, <2>2 DEF CoreInv, StartInv, At
  <2> QED BY <2>1, <2>2 DEF StartInv
<1>20. UseInv'
  <2>1. \A s \in Calls : (req'[s] # None /\ req'[s].pc \in UsingPcs) => s # r /\ req'[s] = req[s]
    BY <1>5, <1>7 DEF UsingPcs
  <2>2. \A s \in Calls : (req'[s] # None /\ req'[s].pc \in {"seeking", "fetching"}) => s # r /\ req'[s] = req[s]
    BY <1>5, <1>7
  <2> QED BY <1>12, <1>13, <1>15, <2>1, <2>2 DEF CoreInv, UseInv
<1>21. ConfigInv'
  BY <1>5, <1>6, <1>7, <1>9, <1>12 DEF CoreInv, ConfigInv
<1>22. RaceInv'
  <2>1. ASSUME NEW s \in Calls, NEW t \in Calls, s # t,
               At(s, "starting")', At(t, "starting")',
               ConsumerKey(req'[s].config) = ConsumerKey(req'[t].config)
        PROVE  consumers'[req'[s].consumer].raced
    <3>1. CASE s = r
      <4>1. t \in Starters(k)
        BY <1>5, <1>7, <1>10, <2>1, <3>1 DEF At
      <4> QED BY <1>3, <1>5, <1>6, <1>7, <1>9, <1>11, <3>1, <4>1
    <3>2. CASE t = r
      <4>1. s \in Starters(k) /\ At(s, "starting") /\ req'[s] = req[s] /\ s # r
        BY <1>5, <1>7, <1>10, <2>1, <3>2 DEF At
      <4>2. /\ req[s].consumer \in Consumers \ {i} /\ req[s].consumer \in rivals
            /\ consumers[req[s].consumer] # None
        BY <1>11, <1>15, <4>1 DEF At, CoreInv, StartInv
      <4> QED BY <1>12, <1>13, <4>1, <4>2
    <3>3. CASE s # r /\ t # r
      <4>1. /\ req'[s] = req[s] /\ req'[t] = req[t] /\ At(s, "starting") /\ At(t, "starting")
        BY <1>7, <2>1, <3>3 DEF At
      <4>2. /\ consumers[req[s].consumer].raced /\ req[s].consumer \in Consumers \ {i}
            /\ consumers[req[s].consumer] # None
        BY <1>15, <2>1, <3>3, <4>1 DEF CoreInv, RaceInv, StartInv, At
      <4> QED BY <1>12, <1>13, <4>1, <4>2
    <3> QED BY <3>1, <3>2, <3>3
  <2>2. ASSUME NEW s \in Calls, At(s, "starting")',
               cache'[ConsumerKey(req'[s].config)] # None
        PROVE  consumers'[cache'[ConsumerKey(req'[s].config)].consumer].raced
    <3> DEFINE j == ConsumerKey(req[s].config)
    <3>1. s # r /\ req'[s] = req[s] /\ At(s, "starting")
      BY <1>1, <1>5, <1>7, <2>2 DEF At
    <3>2. j \in Keys /\ cache[j] # None /\ cache[j].consumer \in Consumers \ {i}
      BY <1>1, <1>14, <1>16, <2>2, <3>1
    <3>3. consumers[cache[j].consumer].raced /\ consumers[cache[j].consumer] # None
      BY <3>1, <3>2 DEF CoreInv, RaceInv, CacheInv
    <3> QED BY <1>1, <1>12, <1>13, <3>1, <3>2, <3>3
  <2> QED BY <2>1, <2>2 DEF RaceInv, ConsumerKey
<1>23. KeptInv'
  <2> SUFFICES ASSUME NEW j \in Consumers, consumers'[j] # None,
                      consumers'[j].state = "running", ~consumers'[j].raced
               PROVE  /\ cache'[ConsumerKey(consumers'[j].config)] # None
                      /\ cache'[ConsumerKey(consumers'[j].config)].consumer = j
    BY DEF KeptInv, ConsumerKey
  <2>1. j # i
    BY <1>6, <1>9
  <2> QED BY <1>1, <1>12, <2>1 DEF CoreInv, KeptInv
<1>24. AloneInv'
  BY <1>5, <1>7 DEF CoreInv, AloneInv, UsingPcs
<1>25. AlonePeekReadsItsTopic'
  <2> SUFFICES ASSUME NEW s \in Calls, At(s, "fetching")', req'[s].alone
               PROVE  consumers'[req'[s].consumer].assigned = req'[s].topic
    BY DEF AlonePeekReadsItsTopic, ReadsFrom
  <2>1. s # r /\ req'[s] = req[s] /\ At(s, "fetching")
    BY <1>5, <1>7 DEF At
  <2>2. req[s].consumer \in Consumers \ {i} /\ consumers[req[s].consumer] # None
    BY <1>15, <2>1 DEF At, UsingPcs, CoreInv, UseInv
  <2>3. consumers[req[s].consumer].assigned = req[s].topic
    BY <2>1 DEF CoreInv, AlonePeekReadsItsTopic, ReadsFrom
  <2> QED BY <1>12, <1>13, <2>1, <2>2, <2>3
<1> QED
  BY <1>17, <1>18, <1>19, <1>20, <1>21, <1>22, <1>23, <1>24, <1>25 DEF CoreInv

\* A consumer has started: its call enters it under its key.
LEMMA StartedStep ==
  ASSUME CoreInv, NEW r \in Calls, Started(r)
  PROVE  CoreInv'
<1> DEFINE k == ConsumerKey(req[r].config)
           i == req[r].consumer
           v == [req[r] EXCEPT !.pc = "metadata"]
           o == [consumers[i] EXCEPT !.state = "running"]
           e == [consumer |-> i, lastUsed |-> req[r].now]
<1>1. /\ At(r, "starting") /\ req[r] # None /\ req[r] \in Running
      /\ req[r].config \in ToolConfigs /\ k \in Keys
  BY KeyIsConfig DEF Started, At, CoreInv, TypeOK, ConfigInv
<1>2. /\ i \in Consumers /\ consumers[i] # None /\ consumers[i] \in Objects
      /\ consumers[i].state = "starting" /\ consumers[i].config = req[r].config
  BY <1>1 DEF CoreInv, TypeOK, StartInv
<1>3. /\ v \in Running /\ v # None /\ v.pc = "metadata"
      /\ v.config = req[r].config /\ v.consumer = i
  BY <1>1, RecordsAssumption DEF Running
<1>4. /\ o \in Objects /\ o # None /\ o.state = "running"
      /\ o.config = consumers[i].config /\ o.raced = consumers[i].raced
  BY <1>2, RecordsAssumption DEF Objects
<1>5. e \in Entries /\ e # None /\ e.consumer = i
  BY <1>1, <1>2, RecordsAssumption DEF Entries, Running
<1>6. /\ req' = [req EXCEPT ![r] = v]
      /\ consumers' = [consumers EXCEPT ![i] = o]
      /\ cache' = [cache EXCEPT ![k] = e]
      /\ clock' = clock
  BY DEF Started
<1>7. k = ConsumerKey(req[r].config) /\ i = req[r].consumer
  OBVIOUS
<1> HIDE DEF v, o, e, k, i
<1>8. /\ req' \in [Calls -> Running \cup {None}]
      /\ req'[r] = v /\ \A s \in Calls : s # r => req'[s] = req[s]
  BY <1>3, <1>6 DEF CoreInv, TypeOK
<1>9. /\ consumers' \in [Consumers -> Objects \cup {None}]
      /\ consumers'[i] = o /\ \A j \in Consumers : j # i => consumers'[j] = consumers[j]
  BY <1>2, <1>4, <1>6 DEF CoreInv, TypeOK
<1>10. /\ cache' \in [Keys -> Entries \cup {None}]
       /\ cache'[k] = e /\ \A j \in Keys : j # k => cache'[j] = cache[j]
  BY <1>1, <1>5, <1>6 DEF CoreInv, TypeOK
<1>11. \A j \in Keys : cache[j] # None => cache[j].consumer \in Consumers \ {i}
  BY <1>2 DEF CoreInv, TypeOK, CacheInv, Entries
<1>12. \A s \in Calls : At(s, "starting")' =>
         /\ s # r /\ req'[s] = req[s] /\ At(s, "starting")
         /\ req[s].consumer \in Consumers \ {i}
         /\ ConsumerKey(req[s].config) \in Keys
  <2> SUFFICES ASSUME NEW s \in Calls, At(s, "starting")'
               PROVE  /\ s # r /\ req'[s] = req[s] /\ At(s, "starting")
                      /\ req[s].consumer \in Consumers \ {i}
                      /\ ConsumerKey(req[s].config) \in Keys
    OBVIOUS
  <2>1. s # r /\ req'[s] = req[s] /\ At(s, "starting") /\ req[s] # None
    BY <1>3, <1>8 DEF At
  <2>2. req[s].consumer \in Consumers \ {i}
    BY <1>1, <1>7, <2>1 DEF CoreInv, StartInv
  <2>3. ConsumerKey(req[s].config) \in Keys
    BY <2>1, KeyIsConfig DEF CoreInv, ConfigInv
  <2> QED BY <2>1, <2>2, <2>3
<1>13. \A s \in Calls : (s # r /\ req[s] # None /\ req[s].pc \in UsingPcs) =>
         /\ req[s].consumer \in Consumers \ {i}
         /\ consumers'[req[s].consumer] = consumers[req[s].consumer]
  BY <1>2, <1>9 DEF CoreInv, UseInv
<1>14. TypeOK'
  BY <1>6, <1>8, <1>9, <1>10 DEF CoreInv, TypeOK
<1>15. CacheInv'
  BY <1>2, <1>4, <1>5, <1>7, <1>9, <1>10, <1>11 DEF CoreInv, CacheInv
<1>16. StartInv'
  BY <1>9, <1>12 DEF CoreInv, StartInv, At
<1>17. UseInv'
  <2>1. ASSUME NEW s \in Calls, req'[s] # None, req'[s].pc \in UsingPcs
        PROVE  /\ req'[s].consumer \in Consumers
               /\ consumers'[req'[s].consumer] # None
               /\ consumers'[req'[s].consumer].state # "starting"
               /\ consumers'[req'[s].consumer].config = req'[s].config
    <3>1. CASE s = r
      BY <1>2, <1>3, <1>4, <1>8, <1>9, <3>1
    <3>2. CASE s # r
      BY <1>8, <1>13, <2>1, <3>2 DEF CoreInv, UseInv
    <3> QED BY <3>1, <3>2
  <2>2. ASSUME NEW s \in Calls, req'[s] # None, req'[s].pc \in {"seeking", "fetching"}
        PROVE  req'[s].config = PeekConfig
    BY <1>3, <1>8, <2>2 DEF CoreInv, UseInv
  <2> QED BY <2>1, <2>2 DEF UseInv
<1>18. ConfigInv'
  BY <1>1, <1>2, <1>3, <1>4, <1>8, <1>9 DEF CoreInv, ConfigInv
<1>19. RaceInv'
  <2>1. ASSUME NEW s \in Calls, NEW t \in Calls, s # t,
               At(s, "starting")', At(t, "starting")',
               ConsumerKey(req'[s].config) = ConsumerKey(req'[t].config)
        PROVE  consumers'[req'[s].consumer].raced
    BY <1>9, <1>12, <2>1 DEF CoreInv, RaceInv
  <2>2. ASSUME NEW s \in Calls, At(s, "starting")',
               cache'[ConsumerKey(req'[s].config)] # None
        PROVE  consumers'[cache'[ConsumerKey(req'[s].config)].consumer].raced
    <3> DEFINE j == ConsumerKey(req[s].config)
    <3>1. j \in Keys /\ req'[s] = req[s] /\ s # r /\ At(s, "starting")
      BY <1>12, <2>2
    <3>2. CASE j = k
      <4>1. consumers[i].raced
        BY <1>1, <1>7, <3>1, <3>2 DEF CoreInv, RaceInv
      <4> QED BY <1>4, <1>5, <1>9, <1>10, <3>1, <3>2, <4>1
    <3>3. CASE j # k
      <4>1. cache'[j] = cache[j] /\ cache[j] # None
        BY <1>10, <2>2, <3>1, <3>3
      <4>2. consumers[cache[j].consumer].raced
        BY <3>1, <4>1 DEF CoreInv, RaceInv
      <4> QED BY <1>9, <1>11, <3>1, <4>1, <4>2
    <3> QED BY <3>2, <3>3
  <2> QED BY <2>1, <2>2 DEF RaceInv, ConsumerKey
<1>20. KeptInv'
  <2> SUFFICES ASSUME NEW j \in Consumers, consumers'[j] # None,
                      consumers'[j].state = "running", ~consumers'[j].raced
               PROVE  /\ cache'[ConsumerKey(consumers'[j].config)] # None
                      /\ cache'[ConsumerKey(consumers'[j].config)].consumer = j
    BY DEF KeptInv, ConsumerKey
  <2>1. CASE j = i
    BY <1>2, <1>4, <1>5, <1>7, <1>9, <1>10, <2>1
  <2>2. CASE j # i
    <3> DEFINE m == ConsumerKey(consumers[j].config)
    <3>1. consumers'[j] = consumers[j] /\ m \in Keys
      BY <1>9, <2>2, KeyIsConfig DEF CoreInv, ConfigInv
    <3>2. cache[m] # None /\ cache[m].consumer = j
      BY <3>1 DEF CoreInv, KeptInv
    <3>3. m # k
      BY <1>1, <1>7, <3>1, <3>2 DEF CoreInv, RaceInv
    <3> QED BY <1>10, <3>1, <3>2, <3>3
  <2> QED BY <2>1, <2>2
<1>21. AloneInv'
  BY <1>3, <1>8, <1>13 DEF CoreInv, AloneInv
<1>22. AlonePeekReadsItsTopic'
  <2> SUFFICES ASSUME NEW s \in Calls, At(s, "fetching")', req'[s].alone
               PROVE  consumers'[req'[s].consumer].assigned = req'[s].topic
    BY DEF AlonePeekReadsItsTopic, ReadsFrom
  <2>1. s # r /\ req'[s] = req[s] /\ At(s, "fetching")
    BY <1>3, <1>8 DEF At
  <2> QED BY <1>13, <2>1 DEF CoreInv, AlonePeekReadsItsTopic, ReadsFrom, At, UsingPcs
<1> QED
  BY <1>14, <1>15, <1>16, <1>17, <1>18, <1>19, <1>20, <1>21, <1>22 DEF CoreInv

\* A consumer has not started: it is lost, and its call is over.
LEMMA StartFailsStep ==
  ASSUME CoreInv, NEW r \in Calls, StartFails(r)
  PROVE  CoreInv'
<1> DEFINE i == req[r].consumer
<1>1. /\ At(r, "starting") /\ cache' = cache /\ clock' = clock
      /\ consumers' = [consumers EXCEPT ![i].state = "lost"]
      /\ req' = [req EXCEPT ![r] = None]
  BY DEF StartFails
<1>2. i = req[r].consumer /\ i \in Consumers /\ consumers[i] # None /\ consumers[i].state = "starting"
  BY <1>1 DEF CoreInv, StartInv
<1> DEFINE o == [consumers[i] EXCEPT !.state = "lost"]
<1>0. o \in Objects /\ o # None /\ o.state = "lost" /\ o.config = consumers[i].config
  BY <1>2, RecordsAssumption DEF Objects, CoreInv, TypeOK
<1> HIDE DEF i
<1>3. /\ req' \in [Calls -> Running \cup {None}]
      /\ req'[r] = None /\ \A s \in Calls : s # r => req'[s] = req[s]
  BY <1>1 DEF CoreInv, TypeOK
<1>4. /\ consumers' \in [Consumers -> Objects \cup {None}]
      /\ consumers'[i] = o /\ \A j \in Consumers : j # i => consumers'[j] = consumers[j]
  BY <1>0, <1>1, <1>2 DEF CoreInv, TypeOK
<1> HIDE DEF o
<1>5. \A j \in Keys : cache[j] # None => cache[j].consumer \in Consumers \ {i}
  BY <1>2 DEF CoreInv, TypeOK, CacheInv, Entries
<1>6. \A s \in Calls : (s # r /\ req[s] # None /\ (At(s, "starting") \/ req[s].pc \in UsingPcs)) =>
        req[s].consumer \in Consumers \ {i}
  BY <1>1, <1>2 DEF CoreInv, StartInv, UseInv
<1>7. \A s \in Calls : At(s, "starting") => ConsumerKey(req[s].config) \in Keys
  BY KeyIsConfig DEF CoreInv, ConfigInv, At
<1>8. TypeOK' /\ CacheInv' /\ ConfigInv'
  BY <1>0, <1>1, <1>2, <1>3, <1>4, <1>5 DEF CoreInv, TypeOK, CacheInv, ConfigInv, ConsumerKey
<1>9. StartInv'
  BY <1>3, <1>4, <1>6 DEF CoreInv, StartInv, At
<1>10. UseInv'
  BY <1>3, <1>4, <1>6 DEF CoreInv, UseInv
<1>11. RaceInv'
  <2>1. \A s \in Calls : At(s, "starting")' =>
          /\ s # r /\ req'[s] = req[s] /\ At(s, "starting")
          /\ req[s].consumer \in Consumers \ {i}
          /\ ConsumerKey(req[s].config) \in Keys
    BY <1>3, <1>6, <1>7 DEF At
  <2>2. ASSUME NEW s \in Calls, NEW t \in Calls, s # t,
               At(s, "starting")', At(t, "starting")',
               ConsumerKey(req'[s].config) = ConsumerKey(req'[t].config)
        PROVE  consumers'[req'[s].consumer].raced
    BY <1>4, <2>1, <2>2 DEF CoreInv, RaceInv
  <2>3. ASSUME NEW s \in Calls, At(s, "starting")',
               cache'[ConsumerKey(req'[s].config)] # None
        PROVE  consumers'[cache'[ConsumerKey(req'[s].config)].consumer].raced
    BY <1>1, <1>4, <1>5, <2>1, <2>3 DEF CoreInv, RaceInv
  <2> QED BY <2>2, <2>3 DEF RaceInv, ConsumerKey
<1>12. KeptInv'
  BY <1>0, <1>1, <1>4 DEF CoreInv, KeptInv, ConsumerKey
<1>13. AloneInv'
  BY <1>3 DEF CoreInv, AloneInv
<1>14. AlonePeekReadsItsTopic'
  BY <1>3, <1>4, <1>6 DEF CoreInv, AlonePeekReadsItsTopic, ReadsFrom, At, UsingPcs
<1> QED BY <1>8, <1>9, <1>10, <1>11, <1>12, <1>13, <1>14 DEF CoreInv

\* A peek goes on to seek or to fetch: at most it assigns its topic.
LEMMA PeekStep ==
  ASSUME CoreInv, NEW r \in Calls, Assign(r) \/ Seek(r)
  PROVE  CoreInv'
<1> DEFINE i == req[r].consumer
           v == [req[r] EXCEPT !.pc = IF Assign(r) THEN "seeking" ELSE "fetching"]
           o == [consumers[i] EXCEPT !.assigned = req[r].topic]
<1>1. /\ req[r] # None /\ req[r] \in Running /\ req[r].pc \in UsingPcs
      /\ req[r].config = PeekConfig
      /\ clock' = clock /\ cache' = cache
  BY DEF Assign, Seek, At, CoreInv, TypeOK, UseInv, UsingPcs
<1>2. /\ i = req[r].consumer /\ i \in Consumers
      /\ consumers[i] # None /\ consumers[i] \in Objects
  BY <1>1 DEF CoreInv, TypeOK, UseInv
<1>3. /\ o \in Objects /\ o # None /\ o.assigned = req[r].topic
      /\ o.config = consumers[i].config /\ o.raced = consumers[i].raced
      /\ o.state = consumers[i].state
  BY <1>1, <1>2, RecordsAssumption DEF Objects, Running
<1>4. \/ consumers' = [consumers EXCEPT ![i] = o]
      \/ consumers' = consumers /\ consumers[i].assigned = req[r].topic
  BY DEF Assign, Seek
<1> HIDE DEF i, o
<1>5. /\ consumers' \in [Consumers -> Objects \cup {None}]
      /\ \A j \in Consumers : j # i => consumers'[j] = consumers[j]
      /\ consumers'[i] # None /\ consumers'[i].assigned = req[r].topic
      /\ consumers'[i].config = consumers[i].config
      /\ consumers'[i].raced = consumers[i].raced
      /\ consumers'[i].state = consumers[i].state
  BY <1>2, <1>3, <1>4 DEF CoreInv, TypeOK
<1>6. PICK w \in {"seeking", "fetching"} : req' = [req EXCEPT ![r] = [req[r] EXCEPT !.pc = w]]
  BY DEF Assign, Seek
<1> DEFINE u == [req[r] EXCEPT !.pc = w]
<1>7. /\ u \in Running /\ u # None /\ u.pc = w /\ u.config = PeekConfig
      /\ u.consumer = i /\ u.topic = req[r].topic /\ u.alone = req[r].alone
  BY <1>1, <1>2, RecordsAssumption DEF Running
<1> HIDE DEF u
<1>8. /\ req' \in [Calls -> Running \cup {None}]
      /\ req'[r] = u /\ \A s \in Calls : s # r => req'[s] = req[s]
  BY <1>6, <1>7 DEF u, CoreInv, TypeOK
<1>9. \A j \in Consumers : consumers[j] # None <=> consumers'[j] # None
  BY <1>2, <1>5
<1>10. \A j \in Consumers : /\ consumers'[j].config = consumers[j].config
                            /\ consumers'[j].raced = consumers[j].raced
                            /\ consumers'[j].state = consumers[j].state
  BY <1>5
<1>11. \A j \in Keys : cache[j] # None => cache[j].consumer \in Consumers
  BY DEF CoreInv, TypeOK, Entries
<1>12. \A s \in Calls : At(s, "starting")' =>
         /\ s # r /\ req'[s] = req[s] /\ At(s, "starting")
         /\ req[s].consumer \in Consumers
         /\ ConsumerKey(req[s].config) \in Keys
  BY <1>7, <1>8, KeyIsConfig DEF At, CoreInv, StartInv, ConfigInv
<1>13. TypeOK'
  BY <1>1, <1>5, <1>8 DEF CoreInv, TypeOK
<1>14. CacheInv'
  BY <1>1, <1>9, <1>10, <1>11 DEF CoreInv, CacheInv, ConsumerKey
<1>15. StartInv'
  BY <1>9, <1>10, <1>12 DEF CoreInv, StartInv, At
<1>16. UseInv'
  <2>1. ASSUME NEW s \in Calls, req'[s] # None, req'[s].pc \in UsingPcs
        PROVE  /\ req[s] # None /\ req[s].pc \in UsingPcs
               /\ req'[s].consumer = req[s].consumer /\ req'[s].config = req[s].config
    BY <1>1, <1>2, <1>7, <1>8, <2>1
  <2>2. \A s \in Calls : (req'[s] # None /\ req'[s].pc \in {"seeking", "fetching"}) =>
          req'[s].config = PeekConfig
    BY <1>7, <1>8 DEF CoreInv, UseInv
  <2> QED BY <1>9, <1>10, <2>1, <2>2 DEF CoreInv, UseInv
<1>17. ConfigInv'
  BY <1>7, <1>8, <1>9, <1>10 DEF CoreInv, ConfigInv, ToolConfigs
<1>18. RaceInv'
  <2>1. ASSUME NEW s \in Calls, NEW t \in Calls, s # t,
               At(s, "starting")', At(t, "starting")',
               ConsumerKey(req'[s].config) = ConsumerKey(req'[t].config)
        PROVE  consumers'[req'[s].consumer].raced
    BY <1>10, <1>12, <2>1 DEF CoreInv, RaceInv
  <2>2. ASSUME NEW s \in Calls, At(s, "starting")',
               cache'[ConsumerKey(req'[s].config)] # None
        PROVE  consumers'[cache'[ConsumerKey(req'[s].config)].consumer].raced
    BY <1>1, <1>10, <1>11, <1>12, <2>2 DEF CoreInv, RaceInv
  <2> QED BY <2>1, <2>2 DEF RaceInv, ConsumerKey
<1>19. KeptInv'
  BY <1>1, <1>9, <1>10 DEF CoreInv, KeptInv, ConsumerKey
<1>20. \A s \in Calls : (req'[s] # None /\ req'[s].pc \in UsingPcs) =>
         /\ req[s] # None /\ req[s].pc \in UsingPcs
         /\ req'[s].config = req[s].config /\ req'[s].consumer = req[s].consumer
         /\ req'[s].alone = req[s].alone
  BY <1>1, <1>2, <1>7, <1>8
<1>21. AloneInv'
  BY <1>20 DEF CoreInv, AloneInv
<1>22. AlonePeekReadsItsTopic'
  <2> SUFFICES ASSUME NEW s \in Calls, At(s, "fetching")', req'[s].alone
               PROVE  consumers'[req'[s].consumer].assigned = req'[s].topic
    BY DEF AlonePeekReadsItsTopic, ReadsFrom
  <2>1. CASE s = r
    BY <1>5, <1>7, <1>8, <2>1
  <2>2. CASE s # r
    <3>1. /\ req'[s] = req[s] /\ At(s, "fetching") /\ req[s] # None
          /\ req[s].pc \in UsingPcs /\ req[s].config = PeekConfig
      BY <1>8, <2>2 DEF At, CoreInv, UseInv, UsingPcs
    <3>2. req[s].consumer \in Consumers /\ req[s].consumer # i
      BY <1>1, <1>2, <2>2, <3>1 DEF CoreInv, UseInv, AloneInv
    <3> QED BY <1>5, <3>1, <3>2 DEF CoreInv, AlonePeekReadsItsTopic, ReadsFrom
  <2> QED BY <2>1, <2>2
<1> QED
  BY <1>13, <1>14, <1>15, <1>16, <1>17, <1>18, <1>19, <1>21, <1>22 DEF CoreInv

\* A call goes on to its next await.
LEMMA AdvanceStep ==
  ASSUME CoreInv, NEW r \in Calls, NEW q \in Running, q.pc = "evicting",
         q.config \in ToolConfigs, ~At(r, "starting"), UNCHANGED clock, Advance(r, q)
  PROVE  CoreInv'
<1>1. ASSUME EvictStale(r, q) PROVE CoreInv'
  <2>1. PICK k \in q.scan, rest \in SUBSET q.scan :
          /\ cache[k] # None /\ StopAndRemove(k)
          /\ req' = [req EXCEPT ![r] = [q EXCEPT !.pc = "evicting", !.scan = rest,
                                                 !.consumer = cache[k].consumer]]
    BY <1>1 DEF EvictStale, Stale
  <2> DEFINE v == [q EXCEPT !.pc = "evicting", !.scan = rest,
                            !.consumer = cache[k].consumer]
  <2>2. k \in Keys /\ rest \in SUBSET Keys
    BY DEF Running
  <2>3. cache[k].consumer \in Consumers
    BY <2>1, <2>2 DEF CoreInv, TypeOK, Entries
  <2>4. v \in Running /\ v.pc = "evicting" /\ v.config = q.config
    BY <2>2, <2>3 DEF Running
  <2>5. req' = [req EXCEPT ![r] = v]
    BY <2>1
  <2> HIDE DEF v
  <2> QED BY <2>1, <2>2, <2>4, <2>5, DropStep
<1>2. ASSUME ScanFails(r, q) PROVE CoreInv'
  BY <1>2, DropStep DEF ScanFails
<1>3. ASSUME Hit(r, q) PROVE CoreInv'
  BY <1>3, HitStep
<1>4. ASSUME Miss(r, q) PROVE CoreInv'
  BY <1>4, MissStep
<1> QED BY <1>1, <1>2, <1>3, <1>4 DEF Advance

\* The body of a call raises.
LEMMA BodyFailsStep ==
  ASSUME CoreInv, NEW r \in Calls, BodyFails(r)
  PROVE  CoreInv'
<1> DEFINE k == ConsumerKey(req[r].config)
<1>1. /\ req[r] # None /\ req[r] \in Running /\ ~At(r, "starting")
      /\ req[r].config \in ToolConfigs /\ k \in Keys /\ UNCHANGED clock
  BY KeyIsConfig DEF BodyFails, At, CoreInv, TypeOK, ConfigInv
<1>2. CASE cache[k] # None
  <2> DEFINE v == [req[r] EXCEPT !.pc = "cleanup", !.consumer = cache[k].consumer]
  <2>1. cache[k].consumer \in Consumers
    BY <1>1, <1>2 DEF CoreInv, TypeOK, Entries
  <2>2. v \in Running /\ v.pc = "cleanup" /\ v.config = req[r].config
    BY <1>1, <2>1 DEF Running
  <2>3. req' = [req EXCEPT ![r] = v] /\ StopAndRemove(k)
    BY <1>2 DEF BodyFails
  <2> HIDE DEF v
  <2> QED BY <1>1, <1>2, <2>2, <2>3, DropStep
<1>3. CASE cache[k] = None
  BY <1>1, <1>3, DropStep DEF BodyFails
<1> QED BY <1>2, <1>3

LEMMA CoreStep == CoreInv /\ StopInv /\ [Next]_vars => CoreInv'
<1> SUFFICES ASSUME CoreInv, StopInv, [Next]_vars PROVE CoreInv'
  OBVIOUS
<1>1. ASSUME NEW r \in Calls, NEW c \in ToolConfigs, NEW t \in Topics \cup {None},
             Begin(r, c, t)
      PROVE  CoreInv'
  <2> DEFINE q == [pc |-> "evicting", config |-> c, topic |-> t, now |-> clock,
                   scan |-> {k \in Keys : cache[k] # None}, consumer |-> None,
                   alone |-> TRUE]
  <2>1. q \in Running /\ q.pc = "evicting" /\ q.config \in ToolConfigs
    BY KeyIsConfig DEF Running, CoreInv, TypeOK
  <2>2. ~At(r, "starting") /\ UNCHANGED clock /\ Advance(r, q)
    BY <1>1 DEF Begin, At
  <2> HIDE DEF q
  <2> QED BY <2>1, <2>2, AdvanceStep
<1>2. ASSUME NEW r \in Calls, Resume(r) PROVE CoreInv'
  <2>1. /\ req[r] \in Running /\ req[r].pc = "evicting"
        /\ req[r].config \in ToolConfigs /\ ~At(r, "starting")
    BY <1>2 DEF Resume, At, CoreInv, TypeOK, ConfigInv
  <2> QED BY <1>2, <2>1, AdvanceStep DEF Resume
<1>3. ASSUME NEW r \in Calls, Started(r) \/ StartFails(r) PROVE CoreInv'
  BY <1>3, StartedStep, StartFailsStep
<1>4. ASSUME NEW r \in Calls, Assign(r) \/ Seek(r) PROVE CoreInv'
  BY <1>4, PeekStep
<1>5. ASSUME NEW r \in Calls, Fetch(r) \/ Finish(r) \/ Raise(r) \/ Cancel(r) PROVE CoreInv'
  <2>1. CASE UNCHANGED consumers
    BY <1>5, <2>1, DropStep DEF Fetch, Finish, Raise, Cancel, At
  <2>2. CASE Cancel(r) /\ Stops(r) /\ StopOver(req[r].consumer)
    <3>1. req[r].consumer \in Consumers
      BY <2>2 DEF Stops, At, StopInv, StopPcs
    <3> QED BY <2>2, <3>1, DropStep DEF Cancel, At
  <2>3. Stops(r) => consumers[req[r].consumer] # None
    BY DEF Stops, At, StopInv, StopPcs
  <2> QED BY <1>5, <2>1, <2>2, <2>3 DEF Fetch, Finish, Raise, Cancel, StopOver
<1>6. ASSUME NEW r \in Calls, BodyFails(r) PROVE CoreInv'
  BY <1>6, BodyFailsStep
<1>7. CASE Tick \/ UNCHANGED vars
  <2>1. TypeOK'
    BY <1>7, ClockAssumption DEF Tick, vars, CoreInv, TypeOK
  <2>2. UNCHANGED <<cache, consumers, req>>
    BY <1>7 DEF Tick, vars
  <2>3. CacheInv' /\ StartInv' /\ UseInv' /\ ConfigInv'
    BY <2>2 DEF CoreInv, CacheInv, StartInv, UseInv, ConfigInv, At
  <2>4. RaceInv' /\ KeptInv' /\ AloneInv' /\ AlonePeekReadsItsTopic'
    BY <2>2 DEF CoreInv, RaceInv, KeptInv, AloneInv, AlonePeekReadsItsTopic, At, ReadsFrom
  <2> QED BY <2>1, <2>3, <2>4 DEF CoreInv
<1>8. PeekConfig \in ToolConfigs /\ \A g \in Groups : LagConfig(g) \in ToolConfigs
  BY DEF ToolConfigs
<1>9. ASSUME NEW r \in Calls, StopEnds(r) PROVE CoreInv'
  <2>1. /\ req[r] # None /\ req[r] \in Running /\ req[r].pc \in StopPcs
        /\ req[r].config \in ToolConfigs /\ req[r].consumer \in Consumers
    BY <1>9 DEF StopEnds, Stops, At, CoreInv, TypeOK, ConfigInv, StopInv, StopPcs
  <2>2. StopOver(req[r].consumer) /\ UNCHANGED <<clock, req>>
    BY <1>9, <2>1 DEF StopEnds, StopOver, StopInv
  <2>3. req' = [req EXCEPT ![r] = req[r]]
    BY <2>2 DEF CoreInv, TypeOK
  <2> QED BY <2>1, <2>2, <2>3, DropStep DEF At, StopPcs
<1> QED
  BY <1>1, <1>2, <1>3, <1>4, <1>5, <1>6, <1>7, <1>8, <1>9 DEF Next

\* What starts or is being closed after a step of r is in r's hands, or was so before,
\* in the hands of another call.
LEMMA HandsKept ==
  ASSUME StopInv, OwnedInv, NEW r \in Calls,
         \A s \in Calls : (s # r /\ req[s] # None) =>
           /\ req'[s] # None /\ req'[s].pc = req[s].pc
           /\ req'[s].consumer = req[s].consumer,
         \A s \in Calls : (s # r /\ req[s] = None) => req'[s] = None,
         \A j \in Consumers : consumers[j] # None => consumers'[j] # None,
         (req'[r] # None /\ req'[r].pc \in StopPcs) =>
           req'[r].consumer \in Consumers /\ consumers'[req'[r].consumer] # None,
         \A j \in Consumers :
           (consumers'[j] # None /\ consumers'[j].state \in {"starting", "closing"}) =>
             \/ /\ req'[r] # None /\ req'[r].consumer = j
                /\ IF consumers'[j].state = "starting" THEN req'[r].pc = "starting"
                                                      ELSE req'[r].pc \in StopPcs
             \/ /\ consumers[j] # None /\ consumers'[j].state = consumers[j].state
                /\ ~Owns(r, j)
  PROVE  StopInv' /\ OwnedInv'
<1>1. StopInv'
  BY DEF StopInv
<1>2. ASSUME NEW j \in Consumers, consumers'[j] # None,
             consumers'[j].state \in {"starting", "closing"}
      PROVE  \E s \in Calls : /\ req'[s] # None /\ req'[s].consumer = j
                             /\ IF consumers'[j].state = "starting"
                                THEN req'[s].pc = "starting" ELSE req'[s].pc \in StopPcs
  <2>1. CASE /\ consumers[j] # None /\ consumers'[j].state = consumers[j].state
             /\ ~Owns(r, j)
    <3>1. PICK s \in Calls : Owns(s, j) /\ s # r
      BY <1>2, <2>1 DEF OwnedInv
    <3> QED BY <2>1, <3>1 DEF Owns
  <2> QED BY <1>2, <2>1
<1>3. OwnedInv'
  BY <1>2 DEF OwnedInv, Owns
<1> QED BY <1>1, <1>3

\* A call that has nothing in its hands ends, or takes a consumer out of the cache.
LEMMA HandsDrop ==
  ASSUME CoreInv, StopInv, OwnedInv, NEW r \in Calls, ~At(r, "starting"),
         Stops(r) => consumers[req[r].consumer].state # "closing",
         NEW v \in Running \cup {None}, req' = [req EXCEPT ![r] = v],
         \/ v = None /\ UNCHANGED consumers
         \/ \E k \in Keys : /\ cache[k] # None /\ StopAndRemove(k) /\ v # None
                           /\ v.pc \in StopPcs /\ v.consumer = cache[k].consumer
  PROVE  StopInv' /\ OwnedInv'
<1>1. req'[r] = v /\ \A s \in Calls : s # r => req'[s] = req[s]
  BY DEF CoreInv, TypeOK
<1>2. \A j \in Consumers :
        consumers[j].state \in {"starting", "closing"} => ~Owns(r, j)
  BY DEF Owns, Stops, At, StopPcs
<1>3. CASE v = None /\ UNCHANGED consumers
  BY <1>1, <1>2, <1>3, HandsKept
<1>4. ASSUME NEW k \in Keys, cache[k] # None, StopAndRemove(k), v # None,
             v.pc \in StopPcs, v.consumer = cache[k].consumer
      PROVE  StopInv' /\ OwnedInv'
  <2> DEFINE i == cache[k].consumer
             o == [consumers[i] EXCEPT !.state = "closing", !.raced = FALSE]
  <2>1. i \in Consumers /\ consumers[i] # None /\ consumers[i] \in Objects
    BY <1>4 DEF CoreInv, TypeOK, CacheInv, Entries
  <2>2. o \in Objects /\ o.state = "closing"
    BY <2>1 DEF Objects
  <2>3. /\ consumers'[i] = o /\ o # None
        /\ \A j \in Consumers : j # i => consumers'[j] = consumers[j]
    BY <1>4, <2>1, <2>2, RecordsAssumption DEF StopAndRemove, CoreInv, TypeOK
  <2> HIDE DEF o, i
  <2>4. v.consumer = i
    BY <1>4 DEF i
  <2> QED BY <1>1, <1>2, <1>4, <2>1, <2>2, <2>3, <2>4, HandsKept
<1> QED BY <1>3, <1>4

LEMMA HandsAdvance ==
  ASSUME CoreInv, StopInv, OwnedInv, NEW r \in Calls, NEW q \in Running,
         q.pc = "evicting", q.config \in ToolConfigs, ~At(r, "starting"),
         Stops(r) => consumers[req[r].consumer].state # "closing", Advance(r, q)
  PROVE  StopInv' /\ OwnedInv'
<1>0. \A j \in Consumers :
        consumers[j].state \in {"starting", "closing"} => ~Owns(r, j)
  BY DEF Owns, Stops, At, StopPcs
<1>1. CASE EvictStale(r, q)
  <2>1. PICK k \in q.scan, rest \in SUBSET q.scan :
          /\ cache[k] # None /\ StopAndRemove(k)
          /\ req' = [req EXCEPT ![r] = [q EXCEPT !.pc = "evicting", !.scan = rest,
                                                 !.consumer = cache[k].consumer]]
    BY <1>1 DEF EvictStale, Stale
  <2> DEFINE v == [q EXCEPT !.pc = "evicting", !.scan = rest,
                            !.consumer = cache[k].consumer]
  <2>2. k \in Keys /\ rest \in SUBSET Keys
    BY DEF Running
  <2>3. cache[k].consumer \in Consumers
    BY <2>1, <2>2 DEF CoreInv, TypeOK, Entries
  <2>4. v \in Running /\ v.pc \in StopPcs /\ v.consumer = cache[k].consumer /\ v # None
    BY <2>2, <2>3, RecordsAssumption DEF Running, StopPcs
  <2>5. req' = [req EXCEPT ![r] = v]
    BY <2>1
  <2> HIDE DEF v
  <2> QED BY <2>1, <2>2, <2>4, <2>5, HandsDrop
<1>2. CASE ScanFails(r, q)
  BY <1>2, HandsDrop DEF ScanFails
<1>3. CASE Hit(r, q)
  <2> DEFINE k == ConsumerKey(q.config)
             i == cache[k].consumer
  <2>1. PICK b \in BOOLEAN, others \in SUBSET Calls :
          /\ others \subseteq Users(i)
          /\ req' = [s \in Calls |->
                       IF s = r THEN [q EXCEPT !.pc = "metadata", !.scan = {},
                                               !.consumer = i, !.alone = b]
                       ELSE IF s \in others THEN [req[s] EXCEPT !.alone = FALSE]
                       ELSE req[s]]
          /\ UNCHANGED consumers
    <3> DEFINE others == IF q.config = PeekConfig THEN Users(i) ELSE {}
    <3>1. others \subseteq Users(i) /\ others \subseteq Calls /\ (others = {}) \in BOOLEAN
      BY DEF Users
    <3>2. req' = [s \in Calls |->
                    IF s = r THEN [q EXCEPT !.pc = "metadata", !.scan = {},
                                            !.consumer = i, !.alone = others = {}]
                    ELSE IF s \in others THEN [req[s] EXCEPT !.alone = FALSE]
                    ELSE req[s]]
          /\ UNCHANGED consumers
      BY <1>3 DEF Hit
    <3> HIDE DEF others, i
    <3> QED BY <3>1, <3>2
  <2>2. ASSUME NEW s \in Calls, s # r
        PROVE  /\ req[s] # None => /\ req'[s] # None /\ req'[s].pc = req[s].pc
                                   /\ req'[s].consumer = req[s].consumer
               /\ req[s] = None => req'[s] = None
    <3>1. CASE s \in others
      <4>1. req[s] # None /\ req[s] \in Running
        BY <2>1, <3>1 DEF Users, CoreInv, TypeOK
      <4>2. /\ req'[s] = [req[s] EXCEPT !.alone = FALSE] /\ req'[s] \in Running
            /\ req'[s].pc = req[s].pc /\ req'[s].consumer = req[s].consumer
        BY <2>1, <2>2, <3>1, <4>1 DEF Running
      <4> QED BY <4>1, <4>2, RecordsAssumption
    <3>2. CASE s \notin others
      BY <2>1, <2>2, <3>2
    <3> QED BY <3>1, <3>2
  <2>3. req'[r].pc \notin StopPcs
    BY <2>1 DEF Running, StopPcs
  <2> QED BY <1>0, <2>1, <2>2, <2>3, HandsKept
<1>4. CASE Miss(r, q)
  <2> DEFINE rivals == {req[s].consumer : s \in Starters(ConsumerKey(q.config))}
  <2>1. PICK i \in Unmade, b \in BOOLEAN :
          /\ consumers' = [j \in Consumers |->
               IF j = i THEN [config |-> q.config, state |-> "starting",
                              assigned |-> None, raced |-> b]
               ELSE IF j \in rivals THEN [consumers[j] EXCEPT !.raced = TRUE]
               ELSE consumers[j]]
          /\ req' = [req EXCEPT ![r] = [q EXCEPT !.pc = "starting", !.scan = {},
                                                 !.consumer = i]]
    <3>1. (rivals # {}) \in BOOLEAN
      OBVIOUS
    <3> QED BY <1>4, <3>1 DEF Miss
  <2> DEFINE v == [q EXCEPT !.pc = "starting", !.scan = {}, !.consumer = i]
             o == [config |-> q.config, state |-> "starting", assigned |-> None, raced |-> b]
  <2>2. i \in Consumers
    BY DEF Unmade
  <2>3. /\ v \in Running /\ v # None /\ v.pc = "starting" /\ v.consumer = i
        /\ o \in Objects /\ o # None /\ o.state = "starting"
    <3>1. v \in Running /\ v.pc = "starting" /\ v.consumer = i
      BY <2>2 DEF Running
    <3>2. o \in Objects /\ o.state = "starting"
      BY KeyIsConfig DEF Objects
    <3> QED BY <3>1, <3>2, RecordsAssumption
  <2>4. /\ req'[r] = v /\ consumers'[i] = o
        /\ \A s \in Calls : s # r => req'[s] = req[s]
    BY <2>1, <2>2 DEF CoreInv, TypeOK
  <2> HIDE DEF v, o, rivals
  <2>5. ASSUME NEW j \in Consumers, j # i
        PROVE  /\ consumers'[j] # None <=> consumers[j] # None
               /\ consumers'[j].state = consumers[j].state
    <3>1. CASE j \in rivals
      <4>1. consumers[j] # None /\ consumers[j] \in Objects
        BY <3>1 DEF rivals, Starters, CoreInv, StartInv, TypeOK, At
      <4>2. /\ consumers'[j] = [consumers[j] EXCEPT !.raced = TRUE]
            /\ consumers'[j] \in Objects /\ consumers'[j].state = consumers[j].state
        BY <2>1, <2>5, <3>1, <4>1 DEF Objects
      <4> QED BY <4>1, <4>2, RecordsAssumption
    <3>2. CASE j \notin rivals
      BY <2>1, <2>5, <3>2
    <3> QED BY <3>1, <3>2
  <2>6. req'[r].pc = "starting" /\ req'[r].pc \notin StopPcs
    BY <2>3, <2>4 DEF StopPcs
  <2> QED BY <1>0, <2>2, <2>3, <2>4, <2>5, <2>6, HandsKept
<1> QED BY <1>1, <1>2, <1>3, <1>4 DEF Advance

\* A start or a stop ends: the consumer leaves its call's hands.
LEMMA HandsFree ==
  ASSUME CoreInv, StopInv, OwnedInv, NEW r \in Calls,
         Started(r) \/ StartFails(r) \/ StopEnds(r) \/ (Cancel(r) /\ ~UNCHANGED consumers)
  PROVE  StopInv' /\ OwnedInv'
<1> DEFINE i == req[r].consumer
<1>1. /\ req[r] # None /\ req[r] \in Running /\ req[r].pc \in {"starting"} \cup StopPcs
      /\ i \in Consumers /\ consumers[i] # None /\ consumers[i] \in Objects
  <2>1. req[r] # None /\ req[r].pc \in {"starting"} \cup StopPcs
    BY DEF Started, StartFails, StopEnds, Cancel, Stops, At, StopPcs
  <2> QED BY <2>1 DEF CoreInv, TypeOK, StartInv, StopInv, At
<1>2. PICK w \in {"running", "stopped", "lost"} :
        consumers' = [consumers EXCEPT ![i].state = w]
  BY DEF Started, StartFails, StopEnds, Cancel
<1> DEFINE o == [consumers[i] EXCEPT !.state = w]
<1>3. o \in Objects /\ o # None /\ o.state = w
  BY <1>1, RecordsAssumption DEF Objects
<1>4. consumers'[i] = o /\ \A j \in Consumers : j # i => consumers'[j] = consumers[j]
  BY <1>1, <1>2 DEF CoreInv, TypeOK
<1>5. i = req[r].consumer
  OBVIOUS
<1> HIDE DEF o, i
<1>6. \A s \in Calls : s # r => req'[s] = req[s]
  BY DEF Started, StartFails, StopEnds, Cancel, CoreInv, TypeOK
<1>7. (req'[r] # None /\ req'[r].pc \in StopPcs) =>
        req'[r].consumer \in Consumers /\ consumers'[req'[r].consumer] # None
  <2>1. CASE StopEnds(r)
    BY <1>1, <1>3, <1>4, <1>5, <2>1 DEF StopEnds
  <2>2. CASE Started(r)
    BY <1>1, <2>2 DEF Started, CoreInv, TypeOK, StopPcs, Running
  <2>3. CASE StartFails(r) \/ Cancel(r)
    BY <2>3 DEF StartFails, Cancel, CoreInv, TypeOK
  <2> QED BY <2>1, <2>2, <2>3
<1>8. \A j \in Consumers : j # i => ~Owns(r, j)
  BY <1>5 DEF Owns
<1> QED BY <1>1, <1>3, <1>4, <1>6, <1>7, <1>8, HandsKept

LEMMA HandsStep == IInv /\ [Next]_vars => StopInv' /\ OwnedInv'
<1> SUFFICES ASSUME CoreInv, StopInv, OwnedInv, [Next]_vars PROVE StopInv' /\ OwnedInv'
  BY DEF IInv
<1>1. ASSUME NEW r \in Calls, NEW c \in ToolConfigs, NEW t \in Topics \cup {None},
             Begin(r, c, t)
      PROVE  StopInv' /\ OwnedInv'
  <2> DEFINE q == [pc |-> "evicting", config |-> c, topic |-> t, now |-> clock,
                   scan |-> {k \in Keys : cache[k] # None}, consumer |-> None,
                   alone |-> TRUE]
  <2>1. q \in Running /\ q.pc = "evicting" /\ q.config \in ToolConfigs
    BY KeyIsConfig DEF Running, CoreInv, TypeOK
  <2>2. ~At(r, "starting") /\ ~Stops(r) /\ Advance(r, q)
    BY <1>1 DEF Begin, Stops, At
  <2> HIDE DEF q
  <2> QED BY <2>1, <2>2, HandsAdvance
<1>2. ASSUME NEW r \in Calls, Resume(r) PROVE StopInv' /\ OwnedInv'
  <2>1. /\ req[r] \in Running /\ req[r].pc = "evicting"
        /\ req[r].config \in ToolConfigs /\ ~At(r, "starting")
    BY <1>2 DEF Resume, At, CoreInv, TypeOK, ConfigInv
  <2> QED BY <1>2, <2>1, HandsAdvance DEF Resume
<1>3. ASSUME NEW r \in Calls, Started(r) \/ StartFails(r) \/ StopEnds(r)
      PROVE  StopInv' /\ OwnedInv'
  BY <1>3, HandsFree
<1>4. ASSUME NEW r \in Calls, Assign(r) \/ Seek(r) PROVE StopInv' /\ OwnedInv'
  <2>1. /\ req[r] # None /\ req[r] \in Running /\ req[r].pc \in UsingPcs
        /\ req[r].consumer \in Consumers /\ consumers[req[r].consumer] \in Objects
    BY <1>4 DEF Assign, Seek, At, CoreInv, TypeOK, UseInv, UsingPcs
  <2>2. PICK w \in {"seeking", "fetching"} :
          req' = [req EXCEPT ![r] = [req[r] EXCEPT !.pc = w]]
    BY <1>4 DEF Assign, Seek
  <2>3. req'[r].pc \notin StopPcs /\ \A s \in Calls : s # r => req'[s] = req[s]
    BY <2>1, <2>2 DEF CoreInv, TypeOK, StopPcs, Running
  <2> DEFINE i == req[r].consumer
             o == [consumers[i] EXCEPT !.assigned = req[r].topic]
  <2>4. o \in Objects /\ o # None /\ o.state = consumers[i].state
    BY <2>1, RecordsAssumption DEF Objects, Running
  <2>5. consumers' = [consumers EXCEPT ![i] = o] \/ consumers' = consumers
    BY <1>4 DEF Assign, Seek
  <2>6. \A j \in Consumers : /\ j # i => consumers'[j] = consumers[j]
                             /\ j = i => consumers'[j] \in {o, consumers[j]}
    BY <2>5 DEF CoreInv, TypeOK
  <2>7. \A j \in Consumers : ~Owns(r, j)
    BY <2>1 DEF Owns, UsingPcs, StopPcs
  <2> HIDE DEF o, i
  <2>8. i \in Consumers /\ consumers[i] # None
    BY <2>1 DEF i, CoreInv, UseInv
  <2>9. \A j \in Consumers : /\ consumers'[j] # None <=> consumers[j] # None
                             /\ consumers'[j].state = consumers[j].state
    BY <2>4, <2>6, <2>8
  <2> QED BY <2>3, <2>7, <2>9, HandsKept
<1>5. ASSUME NEW r \in Calls, Fetch(r) \/ Finish(r) \/ Raise(r) \/ Cancel(r)
      PROVE  StopInv' /\ OwnedInv'
  <2>1. CASE UNCHANGED consumers /\ ~Cancel(r)
    BY <1>5, <2>1, HandsDrop DEF Fetch, Finish, Raise, Stops, At
  <2>2. CASE UNCHANGED consumers /\ Cancel(r)
    <3>1. Stops(r) => consumers[req[r].consumer].state # "closing"
      <4>1. SUFFICES ASSUME Stops(r), consumers[req[r].consumer].state = "closing" PROVE FALSE
        OBVIOUS
      <4> DEFINE i == req[r].consumer
                 o == [consumers[i] EXCEPT !.state = "lost"]
      <4>2. i \in Consumers /\ consumers[i] # None /\ consumers[i] \in Objects
        BY <4>1 DEF Stops, At, StopInv, StopPcs, CoreInv, TypeOK
      <4>3. o.state = "lost" /\ consumers' = [consumers EXCEPT ![i] = o]
        BY <2>2, <4>1, <4>2 DEF Cancel, Objects
      <4>4. consumers'[i] = o
        BY <4>2, <4>3 DEF CoreInv, TypeOK
      <4> QED BY <2>2, <4>1, <4>3, <4>4
    <3> QED BY <2>2, <3>1, HandsDrop DEF Cancel, At
  <2>3. CASE Cancel(r) /\ ~UNCHANGED consumers
    BY <2>3, HandsFree
  <2> QED BY <1>5, <2>1, <2>2, <2>3 DEF Fetch, Finish, Raise
<1>6. ASSUME NEW r \in Calls, BodyFails(r) PROVE StopInv' /\ OwnedInv'
  <2> DEFINE k == ConsumerKey(req[r].config)
  <2>1. /\ req[r] # None /\ req[r] \in Running /\ ~At(r, "starting") /\ ~Stops(r)
        /\ k \in Keys
    BY <1>6, KeyIsConfig DEF BodyFails, Stops, At, CoreInv, TypeOK, ConfigInv
  <2>2. CASE cache[k] # None
    <3> DEFINE v == [req[r] EXCEPT !.pc = "cleanup", !.consumer = cache[k].consumer]
    <3>1. cache[k].consumer \in Consumers
      BY <2>1, <2>2 DEF CoreInv, TypeOK, Entries
    <3>2. v \in Running /\ v # None /\ v.pc \in StopPcs /\ v.consumer = cache[k].consumer
      BY <2>1, <3>1, RecordsAssumption DEF Running, StopPcs
    <3>3. req' = [req EXCEPT ![r] = v] /\ StopAndRemove(k)
      BY <1>6, <2>2 DEF BodyFails
    <3> HIDE DEF v
    <3> QED BY <2>1, <2>2, <3>2, <3>3, HandsDrop
  <2>3. CASE cache[k] = None
    BY <1>6, <2>1, <2>3, HandsDrop DEF BodyFails
  <2> QED BY <2>2, <2>3
<1>7. CASE Tick \/ UNCHANGED vars
  BY <1>7 DEF Tick, vars, StopInv, OwnedInv, Owns
<1>8. PeekConfig \in ToolConfigs /\ \A g \in Groups : LagConfig(g) \in ToolConfigs
  BY DEF ToolConfigs
<1> QED
  BY <1>1, <1>2, <1>3, <1>4, <1>5, <1>6, <1>7, <1>8 DEF Next

LEMMA NextInv == IInv /\ [Next]_vars => IInv'
BY CoreStep, HandsStep DEF IInv

-----------------------------------------------------------------------------

\* IInv holds in every reachable state.
THEOREM Invariance == Spec => []IInv
BY InitInv, NextInv, PTL DEF Spec

\* Every variable keeps its type, however calls and evictions interleave.
THEOREM TypeCorrect == Spec => []TypeOK
<1>1. IInv => TypeOK
  BY DEF IInv, CoreInv
<1> QED BY <1>1, Invariance, PTL

\* No call is handed a stopped consumer: a cached consumer is a running one.
THEOREM NoStoppedConsumerIsCached == Spec => []CachedRunning
<1>1. IInv => CachedRunning
  BY DEF IInv, CoreInv, CacheInv, CachedRunning
<1> QED BY <1>1, Invariance, PTL

\* A call works only with consumers made with its group and its timeout.
THEOREM CallsGetTheirConfig == Spec => []ConfigMatches
<1>1. IInv => ConfigMatches
  BY DEF IInv, CoreInv, UseInv, UsingPcs, ConfigMatches, Users
<1> QED BY <1>1, Invariance, PTL

\* An open consumer that no start or stop was cut short of is cached or in the hands
\* of a call, unless two calls started one for the same key at a time.
THEOREM LostConsumersAreExplained == Spec => []LossExplained
<1>1. IInv => LossExplained
  <2> SUFFICES ASSUME IInv, NEW i \in Consumers, consumers[i] # None,
                      consumers[i].state \in {"starting", "running", "closing"},
                      ~consumers[i].raced, Holders(i) = {}
               PROVE  \E k \in Keys : cache[k] # None /\ cache[k].consumer = i
    BY DEF LossExplained
  <2>1. consumers[i].state = "running"
    BY DEF IInv, OwnedInv, Owns, Holders
  <2>2. ConsumerKey(consumers[i].config) \in Keys
    BY KeyIsConfig DEF IInv, CoreInv, ConfigInv
  <2> QED BY <2>1, <2>2 DEF IInv, CoreInv, KeptInv
<1> QED BY <1>1, Invariance, PTL

\* A peek that shares its consumer with no other peek answers with its topic.
THEOREM AlonePeekIsCorrect == Spec => []AlonePeekReadsItsTopic
<1>1. IInv => AlonePeekReadsItsTopic
  BY DEF IInv, CoreInv
<1> QED BY <1>1, Invariance, PTL

-----------------------------------------------------------------------------
(* The refinement. *)

LEMMA AreFunctions ==
  /\ Made = [i \in Consumers |-> Made[i]] /\ Made' = [i \in Consumers |-> Made'[i]]
  /\ Lent = [s \in Calls |-> Lent[s]] /\ Lent' = [s \in Calls |-> Lent'[s]]
BY DEF Made, Lent

\* A turn of one call, of which the others see nothing.
LEMMA TurnMaps ==
  ASSUME NEW r \in Calls, \A s \in Calls : s # r => Lent'[s] = Lent[s],
         Lending!Turn(Lent[r], Lent'[r])
  PROVE  Lending!Next
<1>1. Lent' = [Lent EXCEPT ![r] = Lent'[r]]
  BY AreFunctions
<1> QED BY <1>1 DEF Lending!Next

\* A call that asks: what it has been, and what it may become.
LEMMA AsksFor ==
  ASSUME NEW r \in Calls, NEW q \in Running, q.pc = "evicting",
         req[r] = None \/ req[r] = q, NEW h \in Consumers \cup {None}
  PROVE  Lending!Asks(Lent[r], [config |-> q.config, holds |-> h])
<1>1. q # None /\ q.config \in Configs
  BY RecordsAssumption DEF Running
<1>2. [config |-> q.config, holds |-> h] # None
  BY <1>1, LendingAssumption
<1>3. req[r] = None => Lent[r] = None
  BY DEF Lent
<1>4. req[r] = q => Lent[r] = [config |-> q.config, holds |-> None]
  BY <1>1 DEF Lent, At
<1> QED BY <1>2, <1>3, <1>4 DEF Lending!Asks

\* A consumer taken out of the cache is closed, and was running until then.
LEMMA ClosesOne ==
  ASSUME CoreInv, NEW k \in Keys, cache[k] # None, StopAndRemove(k)
  PROVE  /\ cache[k].consumer \in Consumers
         /\ Lending!Retire(cache[k].consumer)
         /\ Made[cache[k].consumer].config \in ToolConfigs
         /\ ConsumerKey(Made[cache[k].consumer].config) = k
<1> DEFINE i == cache[k].consumer
<1>1. /\ i \in Consumers /\ consumers[i] # None /\ consumers[i] \in Objects
      /\ consumers[i].state = "running" /\ ConsumerKey(consumers[i].config) = k
  BY DEF CoreInv, TypeOK, CacheInv, Entries
<1> DEFINE o == [consumers[i] EXCEPT !.state = "closing", !.raced = FALSE]
<1>2. o \in Objects /\ o.state = "closing" /\ o.config = consumers[i].config
  BY <1>1 DEF Objects
<1>3. /\ consumers'[i] = o /\ o # None
      /\ \A j \in Consumers : j # i => consumers'[j] = consumers[j]
  BY <1>1, <1>2, RecordsAssumption DEF CoreInv, TypeOK, StopAndRemove
<1> HIDE DEF o, i
<1>4. /\ Made[i] = [config |-> consumers[i].config, state |-> "running"]
      /\ Made'[i] = [config |-> consumers[i].config, state |-> "retired"]
      /\ \A j \in Consumers : j # i => Made'[j] = Made[j]
  BY <1>1, <1>2, <1>3 DEF Made
<1>5. consumers[i].config \in ToolConfigs /\ consumers[i].config \in Configs
  BY <1>1, KeyIsConfig DEF CoreInv, ConfigInv
<1>6. Made[i] # None
  BY <1>4, <1>5, LendingAssumption
<1>7. Made' = [Made EXCEPT ![i].state = "retired"]
  BY <1>1, <1>4, AreFunctions
<1>8. Lending!Retire(i)
  BY <1>4, <1>6, <1>7 DEF Lending!Retire, Lending!Is
<1> QED BY <1>1, <1>4, <1>5, <1>8 DEF i

LEMMA HitMaps ==
  ASSUME CoreInv, NEW r \in Calls, NEW q \in Running, q.pc = "evicting",
         q.config \in ToolConfigs, req[r] = None \/ req[r] = q, Hit(r, q)
  PROVE  Lending!Next
<1> DEFINE k == ConsumerKey(q.config)
           i == cache[k].consumer
<1>1. k \in Keys /\ cache[k] # None
  BY KeyIsConfig DEF Hit
<1>2. i \in Consumers /\ consumers[i] # None /\ consumers[i].state = "running"
      /\ ConsumerKey(consumers[i].config) = k
  BY <1>1 DEF CoreInv, TypeOK, CacheInv, Entries
<1>3. Made[i] = [config |-> q.config, state |-> "running"]
  BY <1>2, KeyIsConfig DEF CoreInv, ConfigInv, Made
<1>4. PICK b \in BOOLEAN, others \in SUBSET Calls :
        /\ others \subseteq Users(i)
        /\ req' = [s \in Calls |->
                     IF s = r THEN [q EXCEPT !.pc = "metadata", !.scan = {},
                                             !.consumer = i, !.alone = b]
                     ELSE IF s \in others THEN [req[s] EXCEPT !.alone = FALSE]
                     ELSE req[s]]
        /\ UNCHANGED consumers
  <2> DEFINE others == IF q.config = PeekConfig THEN Users(i) ELSE {}
  <2>1. others \subseteq Users(i) /\ others \subseteq Calls /\ (others = {}) \in BOOLEAN
    BY DEF Users
  <2>2. req' = [s \in Calls |->
                  IF s = r THEN [q EXCEPT !.pc = "metadata", !.scan = {},
                                          !.consumer = i, !.alone = others = {}]
                  ELSE IF s \in others THEN [req[s] EXCEPT !.alone = FALSE]
                  ELSE req[s]]
        /\ UNCHANGED consumers
    BY DEF Hit
  <2> HIDE DEF others, i
  <2> QED BY <2>1, <2>2
<1> DEFINE v == [q EXCEPT !.pc = "metadata", !.scan = {}, !.consumer = i, !.alone = b]
<1>5. /\ v \in Running /\ v.pc = "metadata" /\ v.config = q.config /\ v.consumer = i
  BY <1>2 DEF Running
<1>6. req'[r] = v /\ v # None
  BY <1>4, <1>5, RecordsAssumption
<1> HIDE DEF v, i
<1>7. Lent'[r] = [config |-> q.config, holds |-> i]
  BY <1>5, <1>6 DEF Lent, At
<1>8. ASSUME NEW s \in Calls, s # r PROVE Lent'[s] = Lent[s]
  <2>1. CASE s \in others
    <3>1. req[s] # None /\ req[s] \in Running
      BY <1>4, <2>1 DEF CoreInv, TypeOK, Users
    <3>2. /\ req'[s] = [req[s] EXCEPT !.alone = FALSE] /\ req'[s] \in Running
          /\ req'[s].pc = req[s].pc /\ req'[s].config = req[s].config
          /\ req'[s].consumer = req[s].consumer
      BY <1>4, <1>8, <2>1, <3>1 DEF Running
    <3>3. req'[s] # None
      BY <3>2, RecordsAssumption
    <3> QED BY <3>1, <3>2, <3>3 DEF Lent, At
  <2>2. CASE s \notin others
    BY <1>4, <1>8, <2>2 DEF Lent, At
  <2> QED BY <2>1, <2>2
<1>9. Lending!Lend(Lent'[r])
  <2>1. Made' = Made
    BY <1>4 DEF Made
  <2>2. i # None
    BY <1>2, NoneAssumption
  <2> QED BY <1>2, <1>3, <1>7, <2>1, <2>2 DEF Lending!Lend
<1>10. Lending!Turn(Lent[r], Lent'[r])
  BY <1>2, <1>7, <1>9, AsksFor DEF Lending!Turn
<1> QED BY <1>8, <1>10, TurnMaps

LEMMA MissMaps ==
  ASSUME CoreInv, NEW r \in Calls, NEW q \in Running, q.pc = "evicting",
         q.config \in ToolConfigs, req[r] = None \/ req[r] = q, Miss(r, q)
  PROVE  Lending!Next
<1> DEFINE rivals == {req[s].consumer : s \in Starters(ConsumerKey(q.config))}
<1>1. PICK i \in Unmade, b \in BOOLEAN :
        /\ consumers' = [j \in Consumers |->
             IF j = i THEN [config |-> q.config, state |-> "starting",
                            assigned |-> None, raced |-> b]
             ELSE IF j \in rivals THEN [consumers[j] EXCEPT !.raced = TRUE]
             ELSE consumers[j]]
        /\ req' = [req EXCEPT ![r] = [q EXCEPT !.pc = "starting", !.scan = {},
                                               !.consumer = i]]
  <2>1. (rivals # {}) \in BOOLEAN
    OBVIOUS
  <2> QED BY <2>1 DEF Miss
<1> DEFINE v == [q EXCEPT !.pc = "starting", !.scan = {}, !.consumer = i]
           o == [config |-> q.config, state |-> "starting", assigned |-> None, raced |-> b]
<1>2. /\ i \in Consumers
      /\ consumers[i] # None => consumers[i].state \in {"stopped", "lost"}
      /\ \A s \in Calls : (consumers[i] # None /\ req[s] # None) => req[s].consumer # i
  BY DEF Unmade
<1>3. v \in Running /\ v.pc = "starting" /\ v.config = q.config /\ v.consumer = i
  BY <1>2 DEF Running
<1>4. v # None /\ req'[r] = v /\ \A s \in Calls : s # r => req'[s] = req[s]
  BY <1>1, <1>3, RecordsAssumption DEF CoreInv, TypeOK
<1>5. o \in Objects /\ o # None /\ consumers'[i] = o
  BY <1>1, <1>2, KeyIsConfig, RecordsAssumption DEF Objects
<1>6. ASSUME NEW j \in Consumers, j # i PROVE Made'[j] = Made[j]
  <2>1. CASE j \in rivals
    <3>1. consumers[j] # None /\ consumers[j] \in Objects
      BY <2>1 DEF Starters, CoreInv, StartInv, TypeOK, At
    <3>2. /\ consumers'[j] = [consumers[j] EXCEPT !.raced = TRUE]
          /\ consumers'[j] \in Objects
          /\ consumers'[j].state = consumers[j].state
          /\ consumers'[j].config = consumers[j].config
      BY <1>1, <1>6, <2>1, <3>1 DEF Objects
    <3>3. consumers'[j] # None
      BY <3>2, RecordsAssumption
    <3> QED BY <3>1, <3>2, <3>3 DEF Made
  <2>2. CASE j \notin rivals
    BY <1>1, <1>6, <2>2 DEF Made
  <2> QED BY <2>1, <2>2
<1> HIDE DEF v, rivals
<1>7. /\ Lent'[r] = [config |-> q.config, holds |-> i]
      /\ \A s \in Calls : s # r => Lent'[s] = Lent[s]
  BY <1>3, <1>4 DEF Lent
<1>8. Made'[i] = [config |-> q.config, state |-> "starting"]
  BY <1>2, <1>5 DEF Made
<1> HIDE DEF o
<1>9. Made[i] = None \/ Lending!Is(i, "retired")
  <2>1. CASE consumers[i] = None
    BY <1>2, <2>1 DEF Made
  <2>2. CASE consumers[i] # None
    <3>1. consumers[i].config \in Configs /\ consumers[i].state \in {"stopped", "lost"}
      BY <1>2, <2>2, KeyIsConfig DEF CoreInv, ConfigInv
    <3>2. Made[i] = [config |-> consumers[i].config, state |-> "retired"]
      BY <1>2, <2>2, <3>1 DEF Made
    <3> QED BY <3>1, <3>2, LendingAssumption DEF Lending!Is
  <2> QED BY <2>1, <2>2
<1>10. ASSUME NEW s \in Calls, Lent[s] # None PROVE Lent[s].holds # i
  <2>1. req[s] # None /\ req[s] \in Running /\ req[s].pc # "cleanup"
    BY <1>10 DEF Lent, CoreInv, TypeOK
  <2>2. Lent[s].holds = IF req[s].pc = "evicting" THEN None ELSE req[s].consumer
    BY <2>1 DEF Lent
  <2>3. req[s].pc = "evicting" \/ consumers[req[s].consumer] # None
    BY <2>1 DEF CoreInv, UseInv, StartInv, UsingPcs, At, Running
  <2>4. i # None
    BY <1>2, NoneAssumption
  <2> QED BY <1>2, <2>1, <2>2, <2>3, <2>4
<1>11. Made' = [Made EXCEPT ![i] = [config |-> q.config, state |-> "starting"]]
  BY <1>2, <1>6, <1>8, AreFunctions
<1>12. Lending!Make(Lent'[r])
  <2>1. i # None
    BY <1>2, NoneAssumption
  <2> QED BY <1>7, <1>9, <1>10, <1>11, <2>1 DEF Lending!Make
<1>13. Lending!Asks(Lent[r], Lent'[r])
  BY <1>2, <1>7, AsksFor
<1>14. Lending!Turn(Lent[r], Lent'[r])
  BY <1>12, <1>13 DEF Lending!Turn
<1> QED BY <1>7, <1>14, TurnMaps

\* A call goes on to its next await; a scan that fails may have been its first.
LEMMA AdvanceMaps ==
  ASSUME CoreInv, NEW r \in Calls, NEW q \in Running, q.pc = "evicting",
         q.config \in ToolConfigs, req[r] = None \/ req[r] = q, Advance(r, q)
  PROVE  Lending!Next \/ UNCHANGED Lending!vars
<1>1. CASE EvictStale(r, q)
  <2>1. PICK k \in q.scan, rest \in SUBSET q.scan :
          /\ cache[k] # None /\ StopAndRemove(k)
          /\ req' = [req EXCEPT ![r] = [q EXCEPT !.pc = "evicting", !.scan = rest,
                                                 !.consumer = cache[k].consumer]]
    BY <1>1 DEF EvictStale, Stale
  <2> DEFINE v == [q EXCEPT !.pc = "evicting", !.scan = rest,
                            !.consumer = cache[k].consumer]
  <2>2. k \in Keys /\ rest \in SUBSET Keys
    BY DEF Running
  <2>3. cache[k].consumer \in Consumers /\ Lending!Retire(cache[k].consumer)
    BY <2>1, <2>2, ClosesOne
  <2>4. v \in Running /\ v.pc = "evicting" /\ v.config = q.config
    BY <2>2, <2>3 DEF Running
  <2>5. v # None /\ req'[r] = v /\ \A s \in Calls : s # r => req'[s] = req[s]
    BY <2>1, <2>4, RecordsAssumption DEF CoreInv, TypeOK
  <2> HIDE DEF v
  <2>6. /\ Lent'[r] = [config |-> q.config, holds |-> None]
        /\ \A s \in Calls : s # r => Lent'[s] = Lent[s]
    BY <2>4, <2>5 DEF Lent
  <2>7. Lending!Asks(Lent[r], Lent'[r])
    BY <2>6, AsksFor
  <2>8. Lending!Wait(Lent'[r])
    BY <2>3, <2>6 DEF Lending!Wait
  <2> QED BY <2>6, <2>7, <2>8, TurnMaps DEF Lending!Turn
<1>2. CASE ScanFails(r, q)
  <2>1. req' = [req EXCEPT ![r] = None] /\ UNCHANGED consumers
    BY <1>2 DEF ScanFails
  <2>2. /\ Lent'[r] = None /\ \A s \in Calls : s # r => Lent'[s] = Lent[s]
        /\ Made' = Made
    BY <2>1 DEF Lent, Made, CoreInv, TypeOK
  <2>3. CASE req[r] = None
    <3>1. Lent' = Lent
      <4>1. Lent[r] = None
        BY <2>3 DEF Lent
      <4> QED BY <2>2, <4>1, AreFunctions
    <3> QED BY <2>2, <3>1 DEF Lending!vars
  <2>4. CASE req[r] = q
    <3>1. q # None /\ q.config \in Configs
      BY RecordsAssumption DEF Running
    <3>2. Lent[r] = [config |-> q.config, holds |-> None]
      BY <2>4, <3>1 DEF Lent
    <3>3. Lent[r] # None /\ Lent[r].holds = None
      BY <3>1, <3>2, LendingAssumption
    <3>4. Lending!Turn(Lent[r], Lent'[r])
      BY <2>2, <3>3 DEF Lending!Turn, Lending!Leave, Lending!Starting
    <3> QED BY <2>2, <3>4, TurnMaps
  <2> QED BY <2>3, <2>4
<1> QED BY <1>1, <1>2, HitMaps, MissMaps DEF Advance

\* What the lending sees of a call that works with a consumer, or starts one.
LEMMA HoldsOne ==
  ASSUME CoreInv, NEW r \in Calls, req[r] # None, req[r].pc \in {"starting"} \cup UsingPcs
  PROVE  /\ req[r].consumer \in Consumers /\ Lent[r] # None
         /\ Lent[r] = [config |-> req[r].config, holds |-> req[r].consumer]
         /\ Made[req[r].consumer] # None
         /\ Made[req[r].consumer] =
              [config |-> req[r].config,
               state |-> IF consumers[req[r].consumer].state \in {"starting", "running"}
                         THEN consumers[req[r].consumer].state ELSE "retired"]
         /\ Lending!Starting(Lent[r]) <=> req[r].pc = "starting"
<1>1. /\ req[r].consumer \in Consumers /\ consumers[req[r].consumer] # None
      /\ consumers[req[r].consumer].config = req[r].config
      /\ consumers[req[r].consumer].state = "starting" <=> req[r].pc = "starting"
  <2>1. CASE req[r].pc = "starting"
    BY <2>1 DEF CoreInv, StartInv, At
  <2>2. CASE req[r].pc \in UsingPcs
    BY <2>2 DEF CoreInv, UseInv, UsingPcs
  <2> QED BY <2>1, <2>2
<1>2. req[r].config \in Configs
  BY DEF CoreInv, TypeOK, Running
<1>3. Lent[r] = [config |-> req[r].config, holds |-> req[r].consumer]
  BY DEF Lent, UsingPcs
<1>4. Made[req[r].consumer] =
        [config |-> req[r].config,
         state |-> IF consumers[req[r].consumer].state \in {"starting", "running"}
                   THEN consumers[req[r].consumer].state ELSE "retired"]
  BY <1>1 DEF Made
<1>5. Lent[r] # None /\ Made[req[r].consumer] # None /\ req[r].consumer # None
  BY <1>1, <1>2, <1>3, <1>4, LendingAssumption, NoneAssumption
<1> QED BY <1>1, <1>3, <1>4, <1>5 DEF Lending!Starting, Lending!Is

\* The start of a consumer ends.
LEMMA StartMaps ==
  ASSUME CoreInv, NEW r \in Calls, Started(r) \/ StartFails(r)
  PROVE  Lending!Next
<1> DEFINE i == req[r].consumer
<1>1. req[r] # None /\ req[r] \in Running /\ req[r].pc = "starting"
  BY DEF Started, StartFails, At, CoreInv, TypeOK
<1>2. /\ i \in Consumers /\ Lent[r] # None /\ Lending!Starting(Lent[r])
      /\ Lent[r] = [config |-> req[r].config, holds |-> i]
      /\ consumers[i] # None /\ consumers[i] \in Objects
      /\ Made[i] = [config |-> req[r].config, state |-> "starting"]
  BY <1>1, HoldsOne DEF CoreInv, StartInv, TypeOK, At
<1>3. CASE Started(r)
  <2> DEFINE v == [req[r] EXCEPT !.pc = "metadata"]
             o == [consumers[i] EXCEPT !.state = "running"]
  <2>1. /\ v \in Running /\ v.pc = "metadata" /\ v.config = req[r].config /\ v.consumer = i
        /\ o \in Objects /\ o.state = "running" /\ o.config = consumers[i].config
    BY <1>1, <1>2 DEF Running, Objects
  <2>2. /\ v # None /\ req'[r] = v /\ \A s \in Calls : s # r => req'[s] = req[s]
        /\ o # None /\ consumers'[i] = o
        /\ \A j \in Consumers : j # i => consumers'[j] = consumers[j]
    BY <1>2, <1>3, <2>1, RecordsAssumption DEF Started, CoreInv, TypeOK
  <2>3. consumers[i].config = req[r].config
    BY <1>1 DEF CoreInv, StartInv, At
  <2> HIDE DEF v, o, i
  <2>4. Lent'[r] = Lent[r] /\ \A s \in Calls : s # r => Lent'[s] = Lent[s]
    BY <1>2, <2>1, <2>2 DEF Lent
  <2>5. /\ Made'[i] = [config |-> req[r].config, state |-> "running"]
        /\ \A j \in Consumers : j # i => Made'[j] = Made[j]
    BY <1>2, <2>1, <2>2, <2>3 DEF Made
  <2>6. Made' = [Made EXCEPT ![i].state = "running"]
    BY <1>2, <2>5, AreFunctions
  <2>7. Lent[r].holds = i
    BY <1>2
  <2>8. Lending!Open(Lent[r])
    BY <1>2, <2>6, <2>7 DEF Lending!Open
  <2>9. Lending!Turn(Lent[r], Lent'[r])
    BY <1>2, <2>4, <2>8 DEF Lending!Turn
  <2> QED BY <2>4, <2>9, TurnMaps
<1>4. CASE StartFails(r)
  <2> DEFINE o == [consumers[i] EXCEPT !.state = "lost"]
  <2>0. /\ o \in Objects /\ o # None /\ o.state = "lost" /\ o.config = consumers[i].config
        /\ consumers[i].config = req[r].config
    BY <1>1, <1>2, RecordsAssumption DEF Objects, CoreInv, StartInv, At
  <2>1. /\ req'[r] = None /\ \A s \in Calls : s # r => req'[s] = req[s]
        /\ consumers'[i] = o /\ \A j \in Consumers : j # i => consumers'[j] = consumers[j]
    BY <1>2, <1>4 DEF StartFails, CoreInv, TypeOK
  <2> HIDE DEF i, o
  <2>2. Lent'[r] = None /\ \A s \in Calls : s # r => Lent'[s] = Lent[s]
    BY <2>1 DEF Lent
  <2>3. /\ Made'[i] = [config |-> req[r].config, state |-> "retired"]
        /\ \A j \in Consumers : j # i => Made'[j] = Made[j]
    BY <1>2, <2>0, <2>1 DEF Made
  <2>4. Made' = [Made EXCEPT ![i].state = "retired"]
    BY <1>2, <2>3, AreFunctions
  <2>5. Lent[r].holds = i
    BY <1>2
  <2>6. Lending!Turn(Lent[r], Lent'[r])
    BY <1>2, <2>2, <2>4, <2>5 DEF Lending!Turn, Lending!Lose
  <2> QED BY <2>2, <2>6, TurnMaps
<1> QED BY <1>3, <1>4

\* The end of a call that starts no consumer: by itself, cancelled, or on a failure
\* that leaves nothing to clean up.
LEMMA EndMaps ==
  ASSUME CoreInv, NEW r \in Calls, req[r] # None, req[r].pc # "starting",
         req' = [req EXCEPT ![r] = None], Made' = Made
  PROVE  Lending!Next \/ UNCHANGED Lending!vars
<1>1. /\ Lent'[r] = None /\ \A s \in Calls : s # r => Lent'[s] = Lent[s]
      /\ req[r] \in Running
  BY DEF Lent, CoreInv, TypeOK
<1>2. CASE req[r].pc = "cleanup"
  <2>1. Lent[r] = None
    BY <1>2 DEF Lent
  <2>2. Lent' = Lent
    BY <1>1, <2>1, AreFunctions
  <2> QED BY <1>1, <2>2 DEF Lending!vars
<1>3. CASE req[r].pc # "cleanup"
  <2>1. Lent[r] # None /\ ~Lending!Starting(Lent[r])
    <3>1. CASE req[r].pc = "evicting"
      <4>1. req[r].config \in Configs /\ Lent[r] = [config |-> req[r].config, holds |-> None]
        BY <1>1, <3>1 DEF Lent, Running
      <4> QED BY <4>1, LendingAssumption DEF Lending!Starting
    <3>2. CASE req[r].pc \in UsingPcs
      BY <3>2, HoldsOne DEF UsingPcs
    <3> QED BY <1>1, <1>3, <3>1, <3>2 DEF Running, UsingPcs
  <2>2. Lending!Turn(Lent[r], Lent'[r])
    BY <1>1, <2>1 DEF Lending!Turn, Lending!Leave
  <2> QED BY <1>1, <2>2, TurnMaps
<1> QED BY <1>2, <1>3

LEMMA BodyFailsMaps ==
  ASSUME CoreInv, NEW r \in Calls, BodyFails(r)
  PROVE  Lending!Next \/ UNCHANGED Lending!vars
<1> DEFINE k == ConsumerKey(req[r].config)
<1>1. /\ req[r] # None /\ req[r] \in Running /\ req[r].pc \in UsingPcs
      /\ req[r].config \in ToolConfigs /\ k \in Keys
  BY KeyIsConfig DEF BodyFails, CoreInv, TypeOK, ConfigInv, UsingPcs
<1>2. CASE cache[k] # None
  <2> DEFINE v == [req[r] EXCEPT !.pc = "cleanup", !.consumer = cache[k].consumer]
             i == cache[k].consumer
  <2>1. StopAndRemove(k) /\ req' = [req EXCEPT ![r] = v]
    BY <1>2 DEF BodyFails
  <2>2. /\ i \in Consumers /\ Lending!Retire(i) /\ Made[i].config \in ToolConfigs
        /\ ConsumerKey(Made[i].config) = k
    BY <1>1, <1>2, <2>1, ClosesOne
  <2>3. v.pc = "cleanup" /\ req'[r] = v /\ \A s \in Calls : s # r => req'[s] = req[s]
    BY <1>1, <2>1 DEF Running, CoreInv, TypeOK
  <2> HIDE DEF v
  <2>4. Lent'[r] = None /\ \A s \in Calls : s # r => Lent'[s] = Lent[s]
    BY <2>3 DEF Lent
  <2>5. /\ Lent[r] # None /\ Lent[r] = [config |-> req[r].config, holds |-> req[r].consumer]
        /\ req[r].consumer \in Consumers
    BY <1>1, HoldsOne
  <2>6. Made[i].config = req[r].config
    BY <1>1, <2>2, KeyIsConfig
  <2>7. Lending!Fail(Lent[r])
    BY <2>2, <2>5, <2>6, NoneAssumption DEF Lending!Fail
  <2>8. Lending!Turn(Lent[r], Lent'[r])
    BY <2>4, <2>5, <2>7 DEF Lending!Turn
  <2> QED BY <2>4, <2>8, TurnMaps
<1>3. CASE cache[k] = None
  <2>1. req' = [req EXCEPT ![r] = None] /\ UNCHANGED consumers
    BY <1>3 DEF BodyFails
  <2>2. Made' = Made
    BY <2>1 DEF Made
  <2> QED BY <1>1, <2>1, <2>2, EndMaps DEF UsingPcs
<1> QED BY <1>2, <1>3

\* The peek's own steps with its consumer are none of the lending's.
LEMMA PeekMaps ==
  ASSUME CoreInv, NEW r \in Calls, Assign(r) \/ Seek(r)
  PROVE  UNCHANGED Lending!vars
<1>1. /\ req[r] # None /\ req[r] \in Running /\ req[r].pc \in {"metadata", "seeking"}
  BY DEF Assign, Seek, At, CoreInv, TypeOK
<1>2. PICK w \in {"seeking", "fetching"} : req' = [req EXCEPT ![r] = [req[r] EXCEPT !.pc = w]]
  BY DEF Assign, Seek
<1> DEFINE u == [req[r] EXCEPT !.pc = w]
<1>3. u \in Running /\ u.pc = w /\ u.config = req[r].config /\ u.consumer = req[r].consumer
  BY <1>1 DEF Running
<1>4. u # None /\ req'[r] = u /\ \A s \in Calls : s # r => req'[s] = req[s]
  BY <1>2, <1>3, RecordsAssumption DEF CoreInv, TypeOK
<1> HIDE DEF u
<1>5. Lent'[r] = Lent[r] /\ \A s \in Calls : s # r => Lent'[s] = Lent[s]
  BY <1>1, <1>3, <1>4 DEF Lent
<1>6. Lent' = Lent
  BY <1>5, AreFunctions
<1> DEFINE i == req[r].consumer
<1>7. /\ i \in Consumers /\ consumers[i] # None /\ consumers[i] \in Objects
      /\ req[r].topic \in Topics \cup {None}
  BY <1>1 DEF CoreInv, TypeOK, UseInv, UsingPcs, Running
<1> DEFINE o == [consumers[i] EXCEPT !.assigned = req[r].topic]
<1>8. o \in Objects /\ o.config = consumers[i].config /\ o.state = consumers[i].state
  BY <1>7 DEF Objects
<1>9. \A j \in Consumers : Made'[j] = Made[j]
  <2>1. CASE Assign(r)
    <3>1. o # None /\ consumers'[i] = o
          /\ \A j \in Consumers : j # i => consumers'[j] = consumers[j]
      BY <1>7, <1>8, <2>1, RecordsAssumption DEF Assign, CoreInv, TypeOK
    <3> HIDE DEF o, i
    <3> QED BY <1>7, <1>8, <3>1 DEF Made
  <2>2. CASE Seek(r)
    BY <2>2 DEF Seek, Made
  <2> QED BY <2>1, <2>2
<1>10. Made' = Made
  BY <1>9, AreFunctions
<1> QED BY <1>6, <1>10 DEF Lending!vars

\* To the lending a consumer is retired while its stop lasts, and however it ends.
LEMMA StopOverMaps ==
  ASSUME CoreInv, NEW i \in Consumers, StopOver(i)
  PROVE  Made' = Made
<1>1. PICK w \in {"stopped", "lost"} : consumers' = [consumers EXCEPT ![i].state = w]
  BY DEF StopOver
<1> DEFINE o == [consumers[i] EXCEPT !.state = w]
<1>2. consumers[i] # None /\ consumers[i].state = "closing" /\ consumers[i] \in Objects
  BY DEF StopOver, CoreInv, TypeOK
<1>3. o \in Objects /\ o # None /\ o.state = w /\ o.config = consumers[i].config
  BY <1>2, RecordsAssumption DEF Objects
<1>4. consumers'[i] = o /\ \A j \in Consumers : j # i => consumers'[j] = consumers[j]
  BY <1>1 DEF CoreInv, TypeOK
<1> HIDE DEF o
<1>5. \A j \in Consumers : Made'[j] = Made[j]
  BY <1>2, <1>3, <1>4 DEF Made
<1> QED BY <1>5, AreFunctions

LEMMA NextMaps ==
  ASSUME CoreInv, StopInv, [Next]_vars
  PROVE  Lending!Next \/ UNCHANGED Lending!vars
<1>1. ASSUME NEW r \in Calls, NEW c \in ToolConfigs, NEW t \in Topics \cup {None},
             Begin(r, c, t)
      PROVE  Lending!Next \/ UNCHANGED Lending!vars
  <2> DEFINE q == [pc |-> "evicting", config |-> c, topic |-> t, now |-> clock,
                   scan |-> {k \in Keys : cache[k] # None}, consumer |-> None,
                   alone |-> TRUE]
  <2>1. q \in Running /\ q.pc = "evicting" /\ q.config \in ToolConfigs
    BY KeyIsConfig DEF Running, CoreInv, TypeOK
  <2>2. req[r] = None /\ Advance(r, q)
    BY <1>1 DEF Begin
  <2> HIDE DEF q
  <2> QED BY <2>1, <2>2, AdvanceMaps
<1>2. ASSUME NEW r \in Calls, Resume(r) PROVE Lending!Next \/ UNCHANGED Lending!vars
  <2>1. req[r] \in Running /\ req[r].pc = "evicting" /\ req[r].config \in ToolConfigs
    BY <1>2 DEF Resume, At, CoreInv, TypeOK, ConfigInv
  <2> QED BY <1>2, <2>1, AdvanceMaps DEF Resume
<1>3. ASSUME NEW r \in Calls, Fetch(r) \/ Finish(r) \/ Raise(r) \/ Cancel(r)
      PROVE  Lending!Next \/ UNCHANGED Lending!vars
  <2>1. CASE UNCHANGED consumers
    <3>1. Made' = Made
      BY <2>1 DEF Made
    <3> QED BY <1>3, <3>1, EndMaps DEF Fetch, Finish, Raise, Cancel, At
  <2>2. CASE Cancel(r) /\ Stops(r) /\ consumers[req[r].consumer].state = "closing"
             /\ consumers' = [consumers EXCEPT ![req[r].consumer].state = "lost"]
    <3>1. req[r].consumer \in Consumers /\ consumers[req[r].consumer] # None
      BY <2>2 DEF Stops, At, StopInv, StopPcs
    <3>2. StopOver(req[r].consumer)
      BY <2>2, <3>1 DEF Cancel, StopOver
    <3>3. Made' = Made
      BY <3>1, <3>2, StopOverMaps
    <3> QED BY <2>2, <3>3, EndMaps DEF Cancel, At
  <2> QED BY <1>3, <2>1, <2>2 DEF Fetch, Finish, Raise, Cancel
<1>6. ASSUME NEW r \in Calls, StopEnds(r) PROVE UNCHANGED Lending!vars
  <2>1. req[r].consumer \in Consumers /\ consumers[req[r].consumer] # None
    BY <1>6 DEF StopEnds, Stops, At, StopInv, StopPcs
  <2>2. StopOver(req[r].consumer) /\ req' = req
    BY <1>6, <2>1 DEF StopEnds, StopOver
  <2>3. Lent' = Lent
    BY <2>2 DEF Lent
  <2> QED BY <2>1, <2>2, <2>3, StopOverMaps DEF Lending!vars
<1>4. CASE Tick \/ UNCHANGED vars
  <2>1. UNCHANGED <<consumers, req>>
    BY <1>4 DEF Tick, vars
  <2>2. Made' = Made /\ Lent' = Lent
    BY <2>1 DEF Made, Lent
  <2> QED BY <2>2 DEF Lending!vars
<1>5. PeekConfig \in ToolConfigs /\ \A g \in Groups : LagConfig(g) \in ToolConfigs
  BY DEF ToolConfigs
<1> QED
  BY <1>1, <1>2, <1>3, <1>4, <1>5, <1>6, StartMaps, PeekMaps, BodyFailsMaps DEF Next

\* Spec implements the lending without a cache: however evictions, races, failures and
\* cancellations interleave, a call is lent only a running consumer of its configuration,
\* none is stopped twice or while it starts, and one whose stop was called, or whose start
\* failed, is never lent again.
THEOREM CacheLendsConsumers == Spec => LendingImplemented
<1>1. Init => Lending!Init
  BY DEF Init, Made, Lent, Lending!Init
<1>2. IInv /\ [Next]_vars => [Lending!Next]_(Lending!vars)
  BY NextMaps DEF IInv
<1> QED BY <1>1, <1>2, Invariance, PTL DEF Spec, LendingImplemented, Lending!Spec
=============================================================================

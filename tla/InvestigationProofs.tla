------------------------ MODULE InvestigationProofs ------------------------
(***************************************************************************)
(* The safety of the query guard and of the ops tools on top of it, for    *)
(* every set of texts, relations and calls and every size of the relation  *)
(* cache.  GuardInv says where a verdict may come from: what a text with   *)
(* the query's key has been told to read.  OpsInv says that the reads of   *)
(* an ops call stay as they ended until its answer has been sent.          *)
(***************************************************************************)
EXTENDS Investigation, TLAPS

\* What a call holds comes from the catalog, and what it runs or ran was let through.
CallSound(v) ==
  v # None =>
    /\ v.pc \in {"explaining", "explained"} => mode = "listed" /\ v.sql \in Planned
    /\ v.pc = "explained" => v.relations \in seen[v.sql]
    /\ (v.pc \in {"executing", "rows", "nothing"} /\ mode # "open") =>
         mode = "listed" /\ PermittedOnce(v.sql)

GuardInv ==
  /\ GuardTypeOK /\ CacheSound
  /\ \A q \in Planned : plan[q] \in seen[q]
  /\ \A c \in Calls : CallSound(call[c])

\* The reads of an ops call by its kind and position.  Once it has its answer, or goes
\* on to Redis, all of them have ended.
OpsInv ==
  /\ ops.pc \in {"redis", "answered"} => \A r \in ops.reads : Ended(r)
  /\ ops.kind = "context" =>
       /\ ops.pc = "postgres" => ops.reads # {} /\ ops.answer = {}
       /\ ops.pc # "postgres" =>
            /\ \A r \in Reads : r \in ops.answer <=> (r \in ops.reads /\ In(r, "rows"))
            /\ "db_note" \in ops.answer <=> ops.reads = {}
  /\ ops.kind # "context" => ops.pc # "redis"
  /\ At({"case_triage"}, "postgres") => ops.reads = {"case"}
  /\ At({"velocity_check"}, "postgres") => ops.reads = {"velocity"}
  /\ At({"transaction_review"}, "postgres") =>
       \/ ops.reads = {"transaction"}
       \/ ops.reads = {"transaction", "decisions"} /\ In("transaction", "rows")

IInv == TypeOK /\ GuardInv /\ OpsInv /\ WholeOrPartial

-----------------------------------------------------------------------------
(* What the texts with a key have been told to read. *)

LEMMA PlanHeard ==
  ASSUME NEW q \in Planned, NEW relations \in seen[q]
  PROVE  relations \in List!Heard(Key[q])
BY DEF List!Heard, List!Planned, Planned

LEMMA ToldHeard == ASSUME NEW q \in Simple PROVE Told[q] \in List!Heard(Key[q])
BY DEF List!Heard

-----------------------------------------------------------------------------
(* The relation cache. *)

\* No key is there twice.
Distinct(q) == \A i, j \in DOMAIN q : q[i].key = q[j].key => i = j

\* Every entry was told of a text with its key.
Sound(q) == \A i \in DOMAIN q : q[i].relations \in List!Heard(q[i].key)

LEMMA EvictResult ==
  ASSUME cache \in Seq(Entries), Len(cache) <= Max, Distinct(cache), Sound(cache)
  PROVE  LET room == IF Len(cache) >= Max THEN Tail(cache) ELSE cache
         IN  room \in Seq(Entries) /\ Len(room) < Max /\ Distinct(room) /\ Sound(room)
<1>1. CASE Len(cache) >= Max
  <2>1. cache # <<>>
    BY <1>1, MaxAssumption
  <2>2. /\ Tail(cache) \in Seq(Entries) /\ Len(Tail(cache)) = Len(cache) - 1
        /\ \A i \in 1..Len(Tail(cache)) : Tail(cache)[i] = cache[i + 1]
    BY <2>1
  <2>3. Len(cache) \in Nat /\ DOMAIN cache = 1..Len(cache)
        /\ DOMAIN Tail(cache) = 1..Len(Tail(cache))
    BY <2>2
  <2>4. \A i \in DOMAIN Tail(cache) : i + 1 \in DOMAIN cache
    BY <2>2, <2>3
  <2>5. Distinct(Tail(cache))
    BY <2>2, <2>3, <2>4 DEF Distinct
  <2>6. Sound(Tail(cache))
    BY <2>2, <2>3, <2>4 DEF Sound
  <2> QED BY <1>1, <2>2, <2>3, <2>5, <2>6, MaxAssumption
<1>2. CASE ~(Len(cache) >= Max)
  BY <1>2, MaxAssumption
<1> QED BY <1>1, <1>2

LEMMA StoredResult ==
  ASSUME cache \in Seq(Entries), Len(cache) <= Max, Distinct(cache), Sound(cache),
         NEW q \in Queries, NEW relations \in Plans, relations \in List!Heard(Key[q])
  PROVE  LET new == Stored(q, relations)
         IN  new \in Seq(Entries) /\ Len(new) <= Max /\ Distinct(new) /\ Sound(new)
<1> DEFINE room == IF Len(cache) >= Max THEN Tail(cache) ELSE cache
           entry == [key |-> Key[q], relations |-> relations]
<1>1. room \in Seq(Entries) /\ Len(room) < Max /\ Distinct(room) /\ Sound(room)
  BY EvictResult
<1>2. entry \in Entries /\ entry.key = Key[q] /\ entry.relations = relations
  BY DEF Entries
<1>3. Stored(q, relations) =
        IF \E i \in DOMAIN room : room[i].key = Key[q]
        THEN [i \in DOMAIN room |-> IF room[i].key = Key[q] THEN entry ELSE room[i]]
        ELSE Append(room, entry)
  BY DEF Stored
<1> HIDE DEF room, entry
<1>4. Len(room) \in Nat /\ DOMAIN room = 1..Len(room)
      /\ \A i \in DOMAIN room : room[i] \in Entries
  BY <1>1
<1>5. CASE \E i \in DOMAIN room : room[i].key = Key[q]
  <2> DEFINE new == [i \in DOMAIN room |-> IF room[i].key = Key[q] THEN entry ELSE room[i]]
  <2>1. \A i \in DOMAIN room :
          /\ new[i] \in Entries /\ new[i].key = room[i].key
          /\ new[i].relations = IF room[i].key = Key[q] THEN relations ELSE room[i].relations
    BY <1>2, <1>4
  <2>2. new \in Seq(Entries) /\ Len(new) = Len(room) /\ DOMAIN new = DOMAIN room
    BY <1>4, <2>1
  <2> HIDE DEF new
  <2>3. Distinct(new)
    BY <1>1, <2>1, <2>2 DEF Distinct
  <2>4. Sound(new)
    BY <1>1, <2>1, <2>2 DEF Sound
  <2>5. Stored(q, relations) = new
    BY <1>3, <1>5 DEF new
  <2> QED BY <1>1, <1>4, <2>2, <2>3, <2>4, <2>5, MaxAssumption
<1>6. CASE ~\E i \in DOMAIN room : room[i].key = Key[q]
  <2> DEFINE new == Append(room, entry)
  <2>1. /\ new \in Seq(Entries) /\ Len(new) = Len(room) + 1
        /\ DOMAIN new = 1..(Len(room) + 1)
        /\ \A i \in 1..Len(room) : new[i] = room[i]
        /\ new[Len(room) + 1] = entry
    BY <1>1, <1>2, <1>4
  <2> HIDE DEF new
  <2>2. \A i \in DOMAIN new : i \in DOMAIN room \/ i = Len(room) + 1
    BY <1>4, <2>1
  <2>3. Distinct(new)
    <3>1. ASSUME NEW i \in DOMAIN new, NEW j \in DOMAIN new, new[i].key = new[j].key
          PROVE  i = j
      <4>1. CASE i \in DOMAIN room /\ j \in DOMAIN room
        BY <1>1, <1>4, <2>1, <3>1, <4>1 DEF Distinct
      <4>2. CASE i \notin DOMAIN room /\ j \notin DOMAIN room
        BY <2>2, <4>2
      <4>3. CASE i \in DOMAIN room /\ j \notin DOMAIN room
        BY <1>2, <1>4, <1>6, <2>1, <2>2, <3>1, <4>3
      <4>4. CASE i \notin DOMAIN room /\ j \in DOMAIN room
        BY <1>2, <1>4, <1>6, <2>1, <2>2, <3>1, <4>4
      <4> QED BY <4>1, <4>2, <4>3, <4>4
    <3> QED BY <3>1 DEF Distinct
  <2>4. Sound(new)
    BY <1>1, <1>2, <1>4, <2>1, <2>2 DEF Sound
  <2>5. Stored(q, relations) = new
    BY <1>3, <1>6 DEF new
  <2> QED BY <1>1, <1>4, <2>1, <2>3, <2>4, <2>5, MaxAssumption
<1> QED BY <1>5, <1>6

-----------------------------------------------------------------------------
(* The steps of the guard. *)

\* A call moves and may have stored what it has learnt.
LEMMA CallMoves ==
  ASSUME GuardInv, UNCHANGED <<mode, plan, seen>>,
         NEW c \in Calls, NEW v \in GuardCalls \cup {None}, call' = [call EXCEPT ![c] = v],
         CallSound(v),
         \/ UNCHANGED cache
         \/ \E q \in Queries, relations \in Plans :
              relations \in List!Heard(Key[q]) /\ cache' = Stored(q, relations)
  PROVE  GuardInv'
<1>1. cache \in Seq(Entries) /\ Len(cache) <= Max /\ Distinct(cache) /\ Sound(cache)
  BY DEF GuardInv, GuardTypeOK, CacheSound, Distinct, Sound
<1>2. cache' \in Seq(Entries) /\ Len(cache') <= Max /\ Distinct(cache') /\ Sound(cache')
  <2>1. CASE UNCHANGED cache
    BY <1>1, <2>1
  <2>2. CASE \E q \in Queries, relations \in Plans :
               relations \in List!Heard(Key[q]) /\ cache' = Stored(q, relations)
    BY <1>1, <2>2, StoredResult
  <2> QED BY <2>1, <2>2
<1>3. CacheSound'
  BY <1>2 DEF CacheSound, Distinct, Sound, List!Heard
<1>4. GuardTypeOK'
  BY <1>2 DEF GuardInv, GuardTypeOK
<1>5. \A d \in Calls : CallSound(call[d])'
  BY DEF GuardInv, GuardTypeOK, CallSound, PermittedOnce, List!Heard
<1> QED BY <1>3, <1>4, <1>5 DEF GuardInv

\* A verdict is sound if a text with the query's key was told to read the relations.
LEMMA JudgedSound ==
  ASSUME NEW q \in Queries, NEW relations, relations \in List!Heard(Key[q]), mode = "listed"
  PROVE  Judged(q, relations) \in GuardCalls /\ CallSound(Judged(q, relations))
<1>1. CASE Allowed(relations)
  BY <1>1 DEF Allowed, Judged, Going, GuardCalls, CallSound, PermittedOnce
<1>2. CASE ~Allowed(relations)
  BY <1>2 DEF Judged, Going, GuardCalls, Outcomes, CallSound
<1> QED BY <1>1, <1>2

LEMMA BeginStep ==
  ASSUME GuardInv, NEW c \in Calls, NEW q \in Queries, Begin(c, q)
  PROVE  GuardInv'
<1>1. UNCHANGED <<mode, plan, seen>>
  BY DEF Begin
<1>2. \A pc \in {"failed", "executing", "explaining"} :
        /\ Going(q, pc) \in GuardCalls
        /\ pc = "executing" => mode = "open"
        /\ pc = "explaining" => mode = "listed" /\ q \in Planned
        => CallSound(Going(q, pc))
  BY DEF Going, CallSound
<1>3. \A pc \in {"failed", "executing", "explaining"} : Going(q, pc) \in GuardCalls
  BY DEF Going, GuardCalls, Outcomes
<1>4. CASE \E pc \in {"failed", "executing", "explaining"} :
             /\ pc = "executing" => mode = "open"
             /\ pc = "explaining" => mode = "listed" /\ q \in Planned
             /\ call' = [call EXCEPT ![c] = Going(q, pc)] /\ UNCHANGED cache
  BY <1>1, <1>2, <1>3, <1>4, CallMoves
<1>5. CASE q \notin Unsafe \cup Masked /\ mode = "listed" /\ Known(c, q)
  <2>1. CASE UNCHANGED cache /\ \E i \in Cached(q) :
               call' = [call EXCEPT ![c] = Judged(q, cache[i].relations)]
    <3>1. PICK i \in Cached(q) : call' = [call EXCEPT ![c] = Judged(q, cache[i].relations)]
      BY <2>1
    <3>2. cache[i].relations \in List!Heard(Key[q])
      BY DEF Cached, GuardInv, CacheSound
    <3> QED BY <1>1, <1>5, <2>1, <3>1, <3>2, JudgedSound, CallMoves
  <2>2. CASE /\ q \in Simple /\ call' = [call EXCEPT ![c] = Judged(q, Told[q])]
             /\ cache' = Stored(q, Told[q])
    <3>1. Told[q] \in List!Heard(Key[q]) /\ Told[q] \in Plans
      BY <2>2, ToldHeard, TextsAssumption
    <3> QED BY <1>1, <1>5, <2>2, <3>1, JudgedSound, CallMoves
  <2> QED BY <1>5, <2>1, <2>2 DEF Known
<1> QED BY <1>4, <1>5 DEF Begin, Planned

LEMMA AdvanceStep ==
  ASSUME GuardInv, NEW c \in Calls, Advance(c)
  PROVE  GuardInv'
<1>1. /\ UNCHANGED <<mode, plan, seen>> /\ call[c] # None
      /\ call[c] \in GuardCalls /\ call \in [Calls -> GuardCalls \cup {None}]
      /\ CallSound(call[c])
  BY DEF Advance, Explain, Explained, ExplainFails, Execute, In, GuardInv, GuardTypeOK
<1>2. /\ call[c].sql \in Queries
      /\ call[c].pc \in {"explaining", "explained"} => call[c].sql \in Planned /\ mode = "listed"
  BY <1>1 DEF GuardCalls, CallSound
<1>3. CASE Explain(c)
  <2> DEFINE v == [call[c] EXCEPT !.pc = "explained", !.relations = plan[call[c].sql]]
  <2>1. /\ plan[call[c].sql] \in SUBSET Relations
        /\ plan[call[c].sql] \in seen[call[c].sql]
    BY <1>2, <1>3, SetsAssumption DEF Explain, In, GuardInv, GuardTypeOK
  <2>2. v \in GuardCalls /\ v.pc = "explained" /\ v.sql = call[c].sql
        /\ v.relations = plan[call[c].sql]
    BY <1>1, <2>1 DEF GuardCalls
  <2>3. call' = [call EXCEPT ![c] = v] /\ UNCHANGED cache
    BY <1>1, <1>3 DEF Explain
  <2> HIDE DEF v
  <2>4. CallSound(v)
    <3>1. mode = "listed" /\ v.sql \in Planned
      BY <1>1, <1>3, <2>2 DEF Explain, In, CallSound
    <3> QED BY <2>1, <2>2, <3>1 DEF CallSound
  <2> QED BY <1>1, <2>2, <2>3, <2>4, CallMoves
<1>4. CASE Explained(c)
  <2>1. /\ call[c].relations \in seen[call[c].sql]
        /\ call' = [call EXCEPT ![c] = Judged(call[c].sql, call[c].relations)]
        /\ cache' = Stored(call[c].sql, call[c].relations)
    BY <1>1, <1>4 DEF Explained, In, CallSound
  <2>2. /\ call[c].sql \in Planned /\ mode = "listed"
        /\ call[c].relations \in Plans /\ call[c].relations \in List!Heard(Key[call[c].sql])
    BY <1>2, <1>4, <2>1, PlanHeard DEF Explained, In, GuardInv, GuardTypeOK
  <2> QED BY <1>1, <1>2, <2>1, <2>2, JudgedSound, CallMoves
<1>5. CASE ExplainFails(c)
  <2>1. Going(call[c].sql, "failed") \in GuardCalls /\ CallSound(Going(call[c].sql, "failed"))
    BY <1>2 DEF Going, GuardCalls, Outcomes, CallSound
  <2> QED BY <1>1, <1>5, <2>1, CallMoves DEF ExplainFails
<1>6. CASE Execute(c)
  <2>1. PICK outcome \in Outcomes : call' = [call EXCEPT ![c].pc = outcome]
    BY <1>6 DEF Execute
  <2> DEFINE v == [call[c] EXCEPT !.pc = outcome]
  <2>2. v \in GuardCalls /\ v.pc = outcome
    BY <1>1 DEF GuardCalls
  <2>3. call' = [call EXCEPT ![c] = v] /\ UNCHANGED cache
    BY <1>1, <1>6, <2>1 DEF Execute
  <2> HIDE DEF v
  <2>4. CallSound(v)
    <3>1. v.sql = call[c].sql /\ call[c].pc = "executing"
      BY <1>1, <1>6 DEF v, GuardCalls, Execute, In
    <3> QED BY <1>1, <2>2, <3>1 DEF CallSound, Outcomes
  <2> QED BY <1>1, <2>2, <2>3, <2>4, CallMoves
<1> QED BY <1>3, <1>4, <1>5, <1>6 DEF Advance

LEMMA LeaveStep ==
  ASSUME GuardInv, NEW c \in Calls, Leave(c)
  PROVE  GuardInv'
BY CallMoves DEF Leave, CallSound

LEMMA MigrateStep ==
  ASSUME GuardInv, NEW q \in Planned, Migrate(q)
  PROVE  GuardInv'
<1>1. PICK relations \in Plans :
        /\ plan' = [plan EXCEPT ![q] = relations]
        /\ seen' = [seen EXCEPT ![q] = @ \cup {relations}]
  BY TextsAssumption DEF Migrate
<1>2. UNCHANGED <<mode, cache, call>>
  BY DEF Migrate
<1>3. \A p \in Planned : seen[p] \subseteq seen'[p] /\ plan'[p] \in seen'[p]
  BY <1>1, <1>2 DEF GuardInv, GuardTypeOK
<1>30. \A key : \A told : told \in List!Heard(key) => told \in List!Heard(key)'
  BY <1>3 DEF List!Heard, List!Planned, Planned
<1>4. GuardTypeOK'
  BY <1>1, <1>2 DEF GuardInv, GuardTypeOK
<1>5. CacheSound'
  BY <1>2, <1>30 DEF GuardInv, CacheSound
<1>6. \A c \in Calls : CallSound(call[c])'
  <2>1. \A c \in Calls : call[c] # None => call[c].sql \in Queries
    BY DEF GuardInv, GuardTypeOK, GuardCalls
  <2> QED BY <1>2, <1>3, <1>30, <2>1 DEF GuardInv, CallSound, PermittedOnce
<1> QED BY <1>3, <1>4, <1>5, <1>6 DEF GuardInv

-----------------------------------------------------------------------------
(* The steps of the ops tools. *)

\* A step of one call leaves the others where they are.
LEMMA OthersMove ==
  ASSUME NEW r, NEW c, c # r, NEW v, call \in [Calls -> GuardCalls \cup {None}],
         r \in Calls, call' = [call EXCEPT ![c] = v]
  PROVE  call'[r] = call[r]
OBVIOUS

\* OpsInv and the answer only look at the reads of the call.
LEMMA OpsStays ==
  ASSUME IInv, UNCHANGED ops, GuardInv',
         \A r \in ops.reads : Ended(r) => call'[r] = call[r]
  PROVE  IInv'
<1>1. TypeOK'
  BY DEF IInv, GuardInv, TypeOK
<1>2. \A r \in ops.reads : Ended(r) => Ended(r)' /\ \A outcome \in Outcomes : In(r, outcome)' = In(r, outcome)
  BY DEF Ended, In
<1>3. \A r \in ops.reads : In(r, "rows") => In(r, "rows")'
  BY DEF Ended, In, Outcomes
<1>4. OpsInv'
  <2>1. ops.pc \in {"redis", "answered"} => \A r \in ops.reads : Ended(r)'
    BY <1>2 DEF IInv, OpsInv
  <2>2. ops.kind = "context" /\ ops.pc # "postgres" =>
          \A r \in Reads : r \in ops.answer <=> (r \in ops.reads /\ In(r, "rows")')
    <3>1. ops.kind = "context" => ops.pc \in {"postgres", "redis", "answered"}
      BY DEF IInv, TypeOK, Idle
    <3> QED BY <1>2, <3>1 DEF IInv, OpsInv, Outcomes
  <2> QED BY <1>3, <2>1, <2>2 DEF IInv, OpsInv, At
<1>5. WholeOrPartial'
  <2>1. ops.kind # "context" /\ ops.pc = "answered" =>
          \A r \in ops.reads : \A outcome \in Outcomes : In(r, outcome)' = In(r, outcome)
    BY <1>2 DEF IInv, OpsInv
  <2> QED BY <2>1 DEF IInv, WholeOrPartial, Incomplete, Data, Outcomes
<1> QED BY <1>1, <1>4, <1>5 DEF IInv

LEMMA InitInv == Init => IInv
<1> SUFFICES ASSUME Init PROVE IInv
  OBVIOUS
<1>1. ops.kind = "none" /\ ops.pc = "idle" /\ ops.reads = {} /\ ops.answer = {}
  BY DEF Init, Idle
<1>2. GuardTypeOK
  BY DEF Init, GuardInit, GuardTypeOK
<1>3. CacheSound /\ \A q \in Planned : plan[q] \in seen[q]
  <2>1. cache = <<>> /\ Len(cache) = 0 /\ DOMAIN cache = {}
    BY DEF Init, GuardInit
  <2> QED BY <2>1, MaxAssumption DEF Init, GuardInit, CacheSound
<1>4. \A c \in Calls : CallSound(call[c])
  BY DEF Init, GuardInit, CallSound
<1>5. OpsInv /\ WholeOrPartial
  BY <1>1 DEF OpsInv, At, WholeOrPartial
<1> QED BY <1>2, <1>3, <1>4, <1>5 DEF Init, IInv, TypeOK, GuardInv

\* Steps that belong to the guard alone.
LEMMA GuardStep ==
  ASSUME IInv, UNCHANGED ops,
         \/ \E c \in Calls : Advance(c)
         \/ \E c \in Calls \ Reads : Client(c)
         \/ \E q \in Planned : Migrate(q)
  PROVE  IInv'
<1>1. call \in [Calls -> GuardCalls \cup {None}]
  BY DEF IInv, GuardInv, GuardTypeOK
<1>2. ops.reads \subseteq Reads /\ Reads \subseteq Calls
  BY ReadsAssumption DEF IInv, TypeOK, Idle
<1>3. ASSUME NEW c \in Calls, Advance(c) PROVE IInv'
  <2>1. GuardInv'
    BY <1>3, AdvanceStep DEF IInv
  <2>2. ASSUME NEW r \in ops.reads, Ended(r) PROVE call'[r] = call[r]
    <3>1. c # r
      BY <1>3, <2>2 DEF Ended, Outcomes, In, Advance, Explain, Explained, ExplainFails, Execute
    <3>2. \E v : call' = [call EXCEPT ![c] = v]
      BY <1>1, <1>3 DEF Advance, Explain, Explained, ExplainFails, Execute
    <3> QED BY <1>1, <1>2, <3>1, <3>2, OthersMove
  <2> QED BY <2>1, <2>2, OpsStays
<1>4. ASSUME NEW c \in Calls \ Reads, Client(c) PROVE IInv'
  <2>1. GuardInv'
    BY <1>4, BeginStep, LeaveStep DEF IInv, Client
  <2>2. \E v : call' = [call EXCEPT ![c] = v]
    BY <1>4 DEF Client, Begin, Known, Leave
  <2> QED BY <1>1, <1>2, <2>1, <2>2, OpsStays, OthersMove
<1>5. ASSUME NEW q \in Planned, Migrate(q) PROVE IInv'
  <2>1. GuardInv' /\ UNCHANGED call
    BY <1>5, MigrateStep DEF IInv, Migrate
  <2> QED BY <2>1, OpsStays
<1> QED BY <1>3, <1>4, <1>5

\* Steps of an ops call that leave the guard alone.
LEMMA OpsMoves ==
  ASSUME IInv, UNCHANGED guardVars, TypeOK', OpsInv', WholeOrPartial'
  PROVE  IInv'
<1>1. GuardInv'
  BY DEF IInv, GuardInv, GuardTypeOK, CacheSound, CallSound, PermittedOnce, List!Heard, guardVars
<1> QED BY <1>1 DEF IInv

LEMMA ContextStep ==
  ASSUME IInv, Context \/ (\E r \in Reads : Gather(r)) \/ Gathered \/ Redis
  PROVE  IInv'
<1>1. ops.reads \subseteq Reads /\ Reads \subseteq Calls /\ Reads \subseteq Queries
  BY ReadsAssumption DEF IInv, TypeOK, Idle, Planned
<1>2. CASE Context
  <2>1. PICK reads \in (SUBSET {"transaction", "case"}) \ {{}} :
          ops' \in {[kind |-> "context", pc |-> "postgres", reads |-> reads, answer |-> {}],
                    [kind |-> "context", pc |-> "redis", reads |-> {}, answer |-> {"db_note"}]}
    BY <1>2 DEF Context
  <2>2. UNCHANGED guardVars /\ reads \subseteq Reads /\ reads # {}
    BY <1>2 DEF Context, Reads
  <2>3. CASE ops' = [kind |-> "context", pc |-> "postgres", reads |-> reads, answer |-> {}]
    <3>1. TypeOK'
      BY <2>2, <2>3 DEF IInv, TypeOK, GuardTypeOK, guardVars, Kinds, Answers
    <3>2. /\ ops'.kind = "context" /\ ops'.pc = "postgres"
          /\ ops'.reads = reads /\ ops'.answer = {}
      BY <2>3
    <3> QED BY <2>2, <3>1, <3>2, OpsMoves DEF OpsInv, WholeOrPartial, At
  <2>4. CASE ops' = [kind |-> "context", pc |-> "redis", reads |-> {}, answer |-> {"db_note"}]
    <3>1. TypeOK'
      BY <2>2, <2>4 DEF IInv, TypeOK, GuardTypeOK, guardVars, Kinds, Answers, Notes
    <3>2. /\ ops'.kind = "context" /\ ops'.pc = "redis"
          /\ ops'.reads = {} /\ ops'.answer = {"db_note"}
      BY <2>4
    <3> QED BY <2>2, <3>1, <3>2, OpsMoves DEF OpsInv, WholeOrPartial, At, Reads
  <2> QED BY <2>1, <2>3, <2>4
<1>3. ASSUME NEW r \in Reads, Gather(r) PROVE IInv'
  <2>1. GuardInv' /\ UNCHANGED ops
    BY <1>1, <1>3, BeginStep DEF IInv, Gather
  <2>2. call[r] = None /\ \E v : call' = [call EXCEPT ![r] = v]
    BY <1>3 DEF Gather, Begin, Known
  <2>3. ASSUME NEW x \in ops.reads, Ended(x) PROVE call'[x] = call[x]
    BY <1>1, <2>2, <2>3, OthersMove DEF Ended, In, IInv, GuardInv, GuardTypeOK
  <2> QED BY <2>1, <2>3, OpsStays
<1>4. CASE Gathered
  <2> DEFINE answer == {r \in ops.reads : In(r, "rows")}
  <2>1. /\ ops.kind = "context" /\ ops.pc = "postgres" /\ ops.reads # {}
        /\ \A r \in ops.reads : Ended(r)
        /\ UNCHANGED guardVars /\ ops' = [ops EXCEPT !.pc = "redis", !.answer = answer]
    BY <1>4 DEF Gathered, At, IInv, OpsInv
  <2>2. ops \in [kind : Kinds, pc : {"postgres", "redis", "answered"},
                 reads : SUBSET Reads, answer : Answers]
    BY <2>1 DEF IInv, TypeOK, Idle
  <2>3. answer \in Answers /\ "db_note" \notin answer
    BY <1>1 DEF Answers, Reads
  <2>4. /\ ops'.kind = "context" /\ ops'.pc = "redis"
        /\ ops'.reads = ops.reads /\ ops'.answer = answer
        /\ ops' \in [kind : Kinds, pc : {"postgres", "redis", "answered"},
                     reads : SUBSET Reads, answer : Answers]
    BY <2>1, <2>2, <2>3
  <2>5. TypeOK'
    BY <2>1, <2>4 DEF IInv, TypeOK, GuardTypeOK, guardVars
  <2>6. OpsInv'
    BY <2>1, <2>3, <2>4 DEF OpsInv, At, Ended, In, guardVars
  <2> QED BY <2>1, <2>4, <2>5, <2>6, OpsMoves DEF WholeOrPartial
<1>5. CASE Redis
  <2>1. PICK got \in {{}, {"redis"}, {"redis_note"}} :
          ops' = [ops EXCEPT !.pc = "answered", !.answer = @ \cup got]
    BY <1>5 DEF Redis
  <2>2. /\ ops.kind = "context" /\ ops.pc = "redis" /\ UNCHANGED guardVars
        /\ ops \in [kind : Kinds, pc : {"postgres", "redis", "answered"},
                    reads : SUBSET Reads, answer : Answers]
    BY <1>5 DEF Redis, At, IInv, TypeOK, Idle
  <2>3. got \subseteq {"redis"} \cup Notes /\ got \cap (Reads \cup {"db_note"}) = {}
    BY DEF Notes, Reads
  <2>4. ops.answer \cup got \in Answers
    BY <2>2, <2>3 DEF Answers
  <2>5. /\ ops'.kind = "context" /\ ops'.pc = "answered"
        /\ ops'.reads = ops.reads /\ ops'.answer = ops.answer \cup got
        /\ ops' \in [kind : Kinds, pc : {"postgres", "redis", "answered"},
                     reads : SUBSET Reads, answer : Answers]
    BY <2>1, <2>2, <2>4
  <2>6. TypeOK'
    BY <2>2, <2>5 DEF IInv, TypeOK, GuardTypeOK, guardVars
  <2>7. OpsInv'
    <3>1. \A r \in ops.reads : Ended(r)
      BY <2>2 DEF IInv, OpsInv
    <3>2. \A r \in Reads : r \in ops'.answer <=> (r \in ops.reads /\ In(r, "rows"))
      BY <2>2, <2>3, <2>5 DEF IInv, OpsInv
    <3>3. "db_note" \in ops'.answer <=> ops.reads = {}
      BY <2>2, <2>3, <2>5 DEF IInv, OpsInv
    <3> QED BY <2>2, <2>5, <3>1, <3>2, <3>3 DEF OpsInv, At, Ended, In, guardVars
  <2> QED BY <2>2, <2>5, <2>6, <2>7, OpsMoves DEF WholeOrPartial
<1> QED BY <1>2, <1>3, <1>4, <1>5

\* A structured investigation answers: all its reads have ended, and the answer is
\* partial or whole.
LEMMA AnsweredStep ==
  ASSUME IInv, UNCHANGED guardVars, ops.kind \in Kinds \ {"context"}, ops.pc = "postgres",
         NEW answer \in Answers, Answered(answer),
         \A r \in ops.reads : Ended(r),
         "partial" \in answer => answer \subseteq Notes,
         "partial" \in answer <=> Incomplete,
         "partial" \notin answer => {r \in ops.reads : In(r, "rows")} \subseteq answer,
         "transaction" \in answer <=> "decisions" \in answer
  PROVE  IInv'
<1>1. ops \in [kind : Kinds, pc : {"postgres", "redis", "answered"},
               reads : SUBSET Reads, answer : Answers]
  BY DEF IInv, TypeOK, Idle
<1>2. /\ ops'.kind = ops.kind /\ ops'.pc = "answered"
      /\ ops'.reads = ops.reads /\ ops'.answer = answer
      /\ ops' \in [kind : Kinds, pc : {"postgres", "redis", "answered"},
                   reads : SUBSET Reads, answer : Answers]
  BY <1>1 DEF Answered
<1>3. TypeOK'
  BY <1>2 DEF IInv, TypeOK, GuardTypeOK, guardVars
<1>4. OpsInv'
  BY <1>2 DEF OpsInv, At, Ended, In, guardVars
<1>5. WholeOrPartial'
  <2>1. /\ \A r \in ops.reads, pc \in Outcomes : In(r, pc)' <=> In(r, pc)
        /\ In("transaction", "rows")' <=> In("transaction", "rows")
    BY DEF In, guardVars
  <2>2. Incomplete' <=> Incomplete
    BY <1>2, <2>1 DEF Incomplete, Outcomes
  <2>3. Data' = answer \ Notes /\ ops.reads \cap Notes = {}
        /\ {"transaction", "decisions"} \cap Notes = {}
    BY <1>1, <1>2 DEF Data, Notes, Reads
  <2> QED BY <1>2, <2>1, <2>2, <2>3 DEF WholeOrPartial, Outcomes
<1> QED BY <1>3, <1>4, <1>5, OpsMoves

LEMMA RunStep ==
  ASSUME IInv, NEW kind \in Kinds \ {"context"}, Run(kind)
  PROVE  IInv'
<1> DEFINE first == FirstRead(kind)
<1>1. /\ first \in Reads /\ Reads \subseteq Calls /\ Reads \subseteq Queries
      /\ kind = "transaction_review" => first = "transaction"
      /\ kind = "case_triage" => first = "case"
      /\ kind = "velocity_check" => first = "velocity"
  BY ReadsAssumption DEF FirstRead, Kinds, Reads, Planned
<1> HIDE DEF first
<1>2. CASE /\ ops' = [kind |-> kind, pc |-> "postgres", reads |-> {first}, answer |-> {}]
           /\ Begin(first, first)
  <2>1. GuardInv'
    BY <1>1, <1>2, BeginStep DEF IInv
  <2>2. /\ ops'.kind = kind /\ ops'.pc = "postgres"
        /\ ops'.reads = {first} /\ ops'.answer = {}
        /\ ops' \in [kind : Kinds, pc : {"postgres", "redis", "answered"},
                     reads : SUBSET Reads, answer : Answers]
    BY <1>1, <1>2 DEF Answers
  <2>3. TypeOK'
    BY <2>1, <2>2 DEF GuardInv, TypeOK
  <2>4. OpsInv' /\ WholeOrPartial'
    BY <1>1, <2>2 DEF OpsInv, At, WholeOrPartial, Kinds
  <2> QED BY <2>1, <2>3, <2>4 DEF IInv
<1>3. CASE /\ ops' = [kind |-> kind, pc |-> "answered", reads |-> {}, answer |-> {"partial"}]
           /\ UNCHANGED guardVars
  <2>1. /\ ops'.kind = kind /\ ops'.pc = "answered"
        /\ ops'.reads = {} /\ ops'.answer = {"partial"}
        /\ ops' \in [kind : Kinds, pc : {"postgres", "redis", "answered"},
                     reads : SUBSET Reads, answer : Answers]
    BY <1>3 DEF Answers, Notes
  <2>2. TypeOK'
    BY <1>3, <2>1 DEF IInv, TypeOK, GuardTypeOK, guardVars
  <2>3. OpsInv' /\ WholeOrPartial'
    BY <2>1 DEF OpsInv, At, WholeOrPartial, Incomplete, Data, Notes
  <2> QED BY <1>3, <2>2, <2>3, OpsMoves
<1> QED BY <1>2, <1>3 DEF Run, first

LEMMA TriagedStep == ASSUME IInv, Triaged PROVE IInv'
<1>1. PICK r \in ops.reads :
        \/ In(r, "rows") /\ Answered({r})
        \/ In(r, "nothing") /\ Answered({})
        \/ In(r, "failed") /\ Answered({"partial"})
  BY DEF Triaged
<1>2. /\ ops.kind \in Kinds \ {"context"} /\ ops.pc = "postgres" /\ UNCHANGED guardVars
      /\ ops.reads = {r} /\ r \in {"case", "velocity"}
  BY <1>1 DEF Triaged, At, Kinds, IInv, OpsInv
<1>3. Ended(r)
  BY <1>1 DEF Ended, Outcomes
<1>4. {r} \in Answers /\ {} \in Answers /\ {"partial"} \in Answers /\ {"partial"} \subseteq Notes
  BY <1>2 DEF Answers, Notes, Reads
<1>5. CASE In(r, "rows") /\ Answered({r})
  <2>1. ~In(r, "failed") /\ ~Incomplete
    BY <1>2, <1>5 DEF In, Incomplete
  <2> QED BY <1>2, <1>3, <1>4, <1>5, <2>1, AnsweredStep
<1>6. CASE In(r, "nothing") /\ Answered({})
  <2>1. ~In(r, "failed") /\ ~In(r, "rows") /\ ~Incomplete
    BY <1>2, <1>6 DEF In, Incomplete
  <2> QED BY <1>2, <1>3, <1>4, <1>6, <2>1, AnsweredStep
<1>7. CASE In(r, "failed") /\ Answered({"partial"})
  <2>1. Incomplete
    BY <1>2, <1>7 DEF Incomplete
  <2> QED BY <1>2, <1>3, <1>4, <1>7, <2>1, AnsweredStep
<1> QED BY <1>1, <1>5, <1>6, <1>7

LEMMA ReviewStep == ASSUME IInv, Found \/ Reviewed PROVE IInv'
<1>1. /\ ops.kind = "transaction_review" /\ ops.kind \in Kinds \ {"context"}
      /\ ops.pc = "postgres"
      /\ ops \in [kind : Kinds, pc : {"postgres", "redis", "answered"},
                  reads : SUBSET Reads, answer : Answers]
  BY DEF Found, Reviewed, At, Kinds, IInv, TypeOK, Idle
<1>2. {"partial"} \subseteq Notes /\ {{}, {"partial"}, {"transaction", "decisions"}} \subseteq Answers
  BY DEF Answers, Notes, Reads
<1>3. CASE /\ In("transaction", "rows") /\ ops' = [ops EXCEPT !.reads = @ \cup {"decisions"}]
           /\ Begin("decisions", "decisions") /\ ops.reads = {"transaction"}
  <2>1. GuardInv' /\ "decisions" \in Calls /\ "transaction" \in Calls
    BY <1>3, BeginStep, ReadsAssumption DEF IInv, Reads, Planned
  <2>2. call'["transaction"] = call["transaction"]
    <3>1. \E v : call' = [call EXCEPT !["decisions"] = v]
      BY <1>3 DEF Begin, Known
    <3>2. "decisions" # "transaction" /\ call \in [Calls -> GuardCalls \cup {None}]
      BY DEF IInv, GuardInv, GuardTypeOK
    <3> QED BY <2>1, <3>1, <3>2, OthersMove
  <2>3. /\ ops'.kind = "transaction_review" /\ ops'.pc = "postgres"
        /\ ops'.reads = {"transaction", "decisions"}
        /\ ops' \in [kind : Kinds, pc : {"postgres", "redis", "answered"},
                     reads : SUBSET Reads, answer : Answers]
    BY <1>1, <1>3 DEF Reads
  <2>4. TypeOK'
    BY <2>1, <2>3 DEF GuardInv, TypeOK
  <2>5. OpsInv' /\ WholeOrPartial'
    BY <1>3, <2>2, <2>3 DEF OpsInv, At, WholeOrPartial, In
  <2> QED BY <2>1, <2>4, <2>5 DEF IInv
<1>4. CASE /\ In("transaction", "rows") \/ In("transaction", "failed")
           /\ Answered({"partial"}) /\ UNCHANGED guardVars /\ ops.reads = {"transaction"}
  <2>1. Ended("transaction") /\ Incomplete
    BY <1>4 DEF Ended, Outcomes, Incomplete
  <2> QED BY <1>1, <1>2, <1>4, <2>1, AnsweredStep
<1>5. CASE /\ In("transaction", "nothing") /\ Answered({}) /\ UNCHANGED guardVars
           /\ ops.reads = {"transaction"}
  <2>1. /\ Ended("transaction") /\ ~In("transaction", "failed")
        /\ ~In("transaction", "rows") /\ ~Incomplete
    BY <1>5 DEF Ended, Outcomes, In, Incomplete
  <2> QED BY <1>1, <1>2, <1>5, <2>1, AnsweredStep
<1>6. CASE Reviewed
  <2>1. /\ ops.reads = {"transaction", "decisions"} /\ In("transaction", "rows")
        /\ Ended("decisions") /\ UNCHANGED guardVars
    BY <1>1, <1>6 DEF Reviewed, At, IInv, OpsInv
  <2>2. Ended("transaction") /\ ~In("transaction", "failed")
    BY <2>1 DEF Ended, Outcomes, In
  <2>3. CASE In("decisions", "failed")
    <3>1. Answered({"partial"}) /\ Incomplete
      BY <1>6, <2>1, <2>3 DEF Reviewed, Incomplete
    <3> QED BY <1>1, <1>2, <2>1, <2>2, <3>1, AnsweredStep
  <2>4. CASE ~In("decisions", "failed")
    <3>1. Answered({"transaction", "decisions"}) /\ ~Incomplete
      BY <1>6, <2>1, <2>2, <2>4 DEF Reviewed, Incomplete
    <3> QED BY <1>1, <1>2, <2>1, <2>2, <2>4, <3>1, AnsweredStep
  <2> QED BY <2>3, <2>4
<1> QED BY <1>3, <1>4, <1>5, <1>6 DEF Found

LEMMA ReplyStep == ASSUME IInv, Reply PROVE IInv'
<1>1. /\ UNCHANGED <<mode, plan, cache, seen>>
      /\ call' = [c \in Calls |-> IF c \in Reads THEN None ELSE call[c]]
      /\ ops' = Idle
  BY DEF Reply
<1>2. GuardTypeOK' /\ CacheSound'
  BY <1>1 DEF IInv, GuardInv, GuardTypeOK, CacheSound, List!Heard
<1>3. \A c \in Calls : CallSound(call[c])'
  BY <1>1 DEF IInv, GuardInv, CallSound, PermittedOnce, List!Heard
<1>4. GuardInv'
  BY <1>1, <1>2, <1>3 DEF IInv, GuardInv
<1>5. ops'.kind = "none" /\ ops'.pc = "idle" /\ ops'.reads = {} /\ ops'.answer = {}
  BY <1>1 DEF Idle
<1>6. TypeOK' /\ OpsInv' /\ WholeOrPartial'
  BY <1>1, <1>2, <1>5 DEF TypeOK, OpsInv, At, WholeOrPartial
<1> QED BY <1>4, <1>6 DEF IInv

LEMMA NextInv == IInv /\ [Next]_vars => IInv'
<1> SUFFICES ASSUME IInv, [Next]_vars PROVE IInv'
  OBVIOUS
<1>1. CASE UNCHANGED vars
  <2>1. UNCHANGED guardVars /\ UNCHANGED ops
    BY <1>1 DEF vars
  <2>2. TypeOK' /\ OpsInv' /\ WholeOrPartial'
    BY <2>1 DEF IInv, TypeOK, GuardTypeOK, OpsInv, At, Ended, In, WholeOrPartial,
                   Incomplete, Data, guardVars
  <2> QED BY <2>1, <2>2, OpsMoves
<1> QED
  BY <1>1, ContextStep, RunStep, TriagedStep, ReviewStep, ReplyStep, GuardStep DEF Next

-----------------------------------------------------------------------------

\* IInv holds in every reachable state.
THEOREM Invariance == Spec => []IInv
BY InitInv, NextInv, PTL DEF Spec

\* The guard's and the ops call's variables keep their types.
THEOREM TypeCorrect == Spec => []TypeOK
<1>1. IInv => TypeOK
  BY DEF IInv
<1> QED BY <1>1, Invariance, PTL

\* _RELATION_CACHE stays within its size, holds a key once, and says of a key what one of
\* its texts was told to read, by the regular expressions or an EXPLAIN.
THEOREM CacheIsSound == Spec => []CacheSound
<1>1. IInv => CacheSound
  BY DEF IInv, GuardInv
<1> QED BY <1>1, Invariance, PTL

\* Under an allowlist a query runs only by relations, permitted together, that a text with
\* its key was told to read.
THEOREM OnlyAllowedQueriesRun == Spec => []RunsWereAllowed
<1>1. IInv => RunsWereAllowed
  BY DEF IInv, GuardInv, CallSound, PermittedOnce, RunsWereAllowed, In
<1> QED BY <1>1, Invariance, PTL

\* An investigation context names exactly the sources it has read.
THEOREM ContextNamesItsSources == Spec => []SourcesExact
<1>1. IInv => SourcesExact
  <2> SUFFICES ASSUME IInv, At({"context"}, "answered") PROVE SourcesExact
    BY DEF SourcesExact
  <2>1. \A r \in Reads : r \in ops.answer =>
          (mode # "open" => mode = "listed" /\ PermittedOnce(call[r].sql))
    BY ReadsAssumption DEF IInv, OpsInv, At, In, GuardInv, CallSound
  <2> QED BY <2>1 DEF IInv, OpsInv, SourcesExact, At
<1> QED BY <1>1, Invariance, PTL

\* A structured investigation is whole, or it is partial because a read failed or could
\* not be made.
THEOREM InvestigationIsWholeOrPartial == Spec => []WholeOrPartial
<1>1. IInv => WholeOrPartial
  BY DEF IInv
<1> QED BY <1>1, Invariance, PTL

-----------------------------------------------------------------------------
(* The guard with its cache implements the allowlist without one. *)

\* Where a call stands for the allowlist.
Doing(v) ==
  IF v = None THEN None
  ELSE [sql |-> v.sql,
        pc |-> CASE v.pc \in {"explaining", "explained"} -> "asked"
                 [] v.pc = "executing" -> "running"
                 [] OTHER -> v.pc]

LEMMA DoingCall ==
  ASSUME NEW v \in GuardCalls
  PROVE  /\ Doing(v) # None /\ Doing(v).sql = v.sql /\ v.sql \in Queries
         /\ Doing(v) = [sql |-> v.sql, pc |-> Doing(v).pc]
         /\ Doing(v).pc \in {"asked", "running"} \cup Outcomes
         /\ v.pc \in {"explaining", "explained"} => Doing(v).pc = "asked"
         /\ v.pc = "executing" => Doing(v).pc = "running"
         /\ v.pc \in Outcomes => Doing(v).pc = v.pc
<1>1. /\ v # None /\ v.sql \in Queries
      /\ v.pc \in {"explaining", "explained", "executing", "rows", "nothing", "failed"}
  BY CallsAssumption DEF GuardCalls, Outcomes
<1> DEFINE pc == CASE v.pc \in {"explaining", "explained"} -> "asked"
                   [] v.pc = "executing" -> "running"
                   [] OTHER -> v.pc
<1>2. Doing(v) = [sql |-> v.sql, pc |-> pc]
  BY <1>1 DEF Doing
<1>3. /\ pc \in {"asked", "running", "rows", "nothing", "failed"}
      /\ v.pc \in {"explaining", "explained"} => pc = "asked"
      /\ v.pc = "executing" => pc = "running"
      /\ v.pc \in Outcomes => pc = v.pc
  BY <1>1 DEF Outcomes
<1> HIDE DEF pc
<1>4. [sql |-> v.sql, pc |-> pc] \in [sql : Queries, pc : {"asked", "running"} \cup Outcomes]
  BY <1>1, <1>3 DEF Outcomes
<1> QED BY <1>1, <1>2, <1>3, <1>4, CallsAssumption DEF Outcomes

\* What the allowlist sees while a call moves: its place, or nothing.
LEMMA ProceedMaps ==
  ASSUME GuardInv, UNCHANGED <<mode, seen>>, NEW c \in Calls, NEW w \in GuardCalls,
         call' = [call EXCEPT ![c] = w],
         Doing(w) = Doing(call[c]) \/ List!Follows(Doing(call[c]), Doing(w))
  PROVE  [List!Next]_(List!vars)
<1> DEFINE doing == [d \in Calls |-> Doing(call[d])]
           doingNext == [d \in Calls |-> Doing(call'[d])]
<1>1. call \in [Calls -> GuardCalls \cup {None}]
  BY DEF GuardInv, GuardTypeOK
<1>2. doing[c] = Doing(call[c]) /\ doingNext[c] = Doing(w)
      /\ doingNext = [doing EXCEPT ![c] = doingNext[c]]
  BY <1>1
<1>3. Doing(w) \in List!Positions
  BY DoingCall DEF List!Positions, Outcomes
<1>4. CASE Doing(w) = Doing(call[c])
  <2>1. doingNext = doing
    BY <1>1, <1>2, <1>4
  <2> QED BY <2>1 DEF List!vars, Doing
<1>5. CASE List!Follows(Doing(call[c]), Doing(w))
  <2>1. List!Follows(doing[c], doingNext[c]) /\ doingNext[c] \in List!Positions
    BY <1>2, <1>3, <1>5
  <2>2. List!Proceed(c)
    BY <1>2, <2>1 DEF List!Proceed, Doing
  <2> QED BY <2>2 DEF List!Next
<1> QED BY <1>4, <1>5

\* A verdict by relations that a text with the query's key was told to read.
LEMMA JudgedMaps ==
  ASSUME NEW v, NEW q \in Queries, NEW relations, relations \in List!Heard(Key[q]),
         mode = "listed", q \notin Unsafe \cup Masked,
         v = None \/ (v # None /\ v.pc = "asked" /\ v.sql = q)
  PROVE  List!Follows(v, Doing(Judged(q, relations)))
<1>1. Judged(q, relations) \in GuardCalls /\ Judged(q, relations).sql = q
      /\ Judged(q, relations).pc = IF Allowed(relations) THEN "executing" ELSE "failed"
  BY DEF Judged, Going, GuardCalls, Outcomes
<1>2. CASE Allowed(relations)
  <2>1. List!MayRun(q)
    BY <1>2 DEF Allowed, List!MayRun, List!Lets
  <2> QED BY <1>1, <1>2, <2>1, DoingCall DEF List!Follows
<1>3. CASE ~Allowed(relations)
  <2>1. List!MayRefuse(q)
    BY <1>3 DEF Allowed, List!MayRefuse, List!Lets
  <2> QED BY <1>1, <1>3, <2>1, DoingCall DEF List!Follows, Outcomes
<1> QED BY <1>2, <1>3

LEMMA BeginMaps ==
  ASSUME GuardInv, NEW c \in Calls, NEW q \in Queries, Begin(c, q)
  PROVE  [List!Next]_(List!vars)
<1>1. UNCHANGED <<mode, seen>> /\ call[c] = None /\ Doing(call[c]) = None
  BY DEF Begin, Doing
<1>2. \A pc \in {"failed", "executing", "explaining"} :
        Going(q, pc) \in GuardCalls /\ Going(q, pc).sql = q /\ Going(q, pc).pc = pc
  BY DEF Going, GuardCalls, Outcomes
<1>3. CASE /\ call' = [call EXCEPT ![c] = Going(q, "failed")]
           /\ q \in Unsafe \/ mode = "blocked" \/ (mode = "listed" /\ q \in Masked)
  <2>1. List!MayRefuse(q)
    BY <1>3 DEF List!MayRefuse
  <2>2. List!Follows(None, Doing(Going(q, "failed")))
    BY <1>2, <2>1, DoingCall DEF List!Follows, Outcomes
  <2> QED BY <1>1, <1>2, <1>3, <2>2, ProceedMaps
<1>4. CASE /\ call' = [call EXCEPT ![c] = Going(q, "executing")]
           /\ q \notin Unsafe /\ mode = "open"
  <2>1. List!MayRun(q)
    BY <1>4 DEF List!MayRun
  <2>2. List!Follows(None, Doing(Going(q, "executing")))
    BY <1>2, <2>1, DoingCall DEF List!Follows
  <2> QED BY <1>1, <1>2, <1>4, <2>2, ProceedMaps
<1>5. CASE /\ call' = [call EXCEPT ![c] = Going(q, "explaining")]
           /\ q \notin Unsafe \cup Masked /\ mode = "listed"
  <2>1. List!Follows(None, Doing(Going(q, "explaining")))
    BY <1>2, <1>5, DoingCall DEF List!Follows
  <2> QED BY <1>1, <1>2, <1>5, <2>1, ProceedMaps
<1>6. CASE q \notin Unsafe \cup Masked /\ mode = "listed" /\ Known(c, q)
  <2>1. PICK relations \in List!Heard(Key[q]) :
          call' = [call EXCEPT ![c] = Judged(q, relations)]
    <3>1. CASE \E i \in Cached(q) : call' = [call EXCEPT ![c] = Judged(q, cache[i].relations)]
      BY <3>1 DEF Cached, GuardInv, CacheSound
    <3>2. CASE q \in Simple /\ call' = [call EXCEPT ![c] = Judged(q, Told[q])]
      BY <3>2, ToldHeard
    <3> QED BY <1>6, <3>1, <3>2 DEF Known
  <2>2. List!Follows(Doing(call[c]), Doing(Judged(q, relations)))
    BY <1>1, <1>6, JudgedMaps
  <2> QED BY <1>1, <1>6, <2>1, <2>2, JudgedSound, ProceedMaps
<1> QED BY <1>3, <1>4, <1>5, <1>6 DEF Begin

LEMMA AdvanceMaps ==
  ASSUME GuardInv, NEW c \in Calls, Advance(c)
  PROVE  [List!Next]_(List!vars)
<1> DEFINE v == call[c]
<1>1. /\ UNCHANGED <<mode, plan, seen>> /\ v # None
      /\ v \in GuardCalls /\ call \in [Calls -> GuardCalls \cup {None}]
      /\ CallSound(v)
  BY DEF Advance, Explain, Explained, ExplainFails, Execute, In, GuardInv, GuardTypeOK
<1>2. v.sql \in Queries /\ Doing(v).sql = v.sql /\ Doing(v) # None
  BY <1>1, DoingCall
<1>3. v.pc \in {"explaining", "explained"} =>
        /\ mode = "listed" /\ v.sql \in Planned /\ v.sql \notin Unsafe \cup Masked
        /\ Doing(v).pc = "asked"
  BY <1>1, DoingCall DEF CallSound, Planned
<1>4. CASE Explain(c)
  <2> DEFINE w == [v EXCEPT !.pc = "explained", !.relations = plan[v.sql]]
  <2>1. v.pc = "explaining" /\ call' = [call EXCEPT ![c] = w]
    BY <1>1, <1>4 DEF Explain, In
  <2>2. plan[v.sql] \in SUBSET Relations
    BY <1>3, <2>1, SetsAssumption DEF GuardInv, GuardTypeOK
  <2>3. w \in GuardCalls /\ w.pc = "explained" /\ w.sql = v.sql
    BY <1>1, <2>2 DEF GuardCalls
  <2> HIDE DEF w
  <2>4. Doing(w) = Doing(v)
    BY <1>1, <2>1, <2>3, DoingCall
  <2> QED BY <1>1, <2>1, <2>3, <2>4, ProceedMaps
<1>5. CASE Explained(c)
  <2>1. /\ v.pc = "explained" /\ v.relations \in List!Heard(Key[v.sql])
        /\ call' = [call EXCEPT ![c] = Judged(v.sql, v.relations)]
    BY <1>1, <1>3, <1>5, PlanHeard DEF Explained, In, CallSound
  <2>2. List!Follows(Doing(v), Doing(Judged(v.sql, v.relations)))
    BY <1>2, <1>3, <2>1, JudgedMaps
  <2> QED BY <1>1, <1>2, <1>3, <2>1, <2>2, JudgedSound, ProceedMaps
<1>6. CASE ExplainFails(c)
  <2> DEFINE w == Going(v.sql, "failed")
  <2>1. v.pc \in {"explaining", "explained"} /\ call' = [call EXCEPT ![c] = w]
    BY <1>1, <1>6 DEF ExplainFails, In
  <2>2. w \in GuardCalls /\ w.sql = v.sql /\ w.pc = "failed"
    BY <1>2 DEF Going, GuardCalls, Outcomes
  <2> HIDE DEF w
  <2>3. List!Follows(Doing(v), Doing(w))
    BY <1>2, <1>3, <2>1, <2>2, DoingCall DEF List!Follows, Outcomes
  <2> QED BY <1>1, <2>1, <2>2, <2>3, ProceedMaps
<1>7. CASE Execute(c)
  <2>1. PICK outcome \in Outcomes : call' = [call EXCEPT ![c].pc = outcome]
    BY <1>7 DEF Execute
  <2> DEFINE w == [v EXCEPT !.pc = outcome]
  <2>2. v.pc = "executing" /\ call' = [call EXCEPT ![c] = w]
    BY <1>1, <1>7, <2>1 DEF Execute, In
  <2>3. w \in GuardCalls /\ w.sql = v.sql /\ w.pc = outcome
    BY <1>1 DEF GuardCalls
  <2> HIDE DEF w
  <2>4. List!Follows(Doing(v), Doing(w))
    BY <1>1, <1>2, <2>2, <2>3, DoingCall DEF List!Follows, Outcomes
  <2> QED BY <1>1, <2>2, <2>3, <2>4, ProceedMaps
<1> HIDE DEF v
<1> QED BY <1>4, <1>5, <1>6, <1>7 DEF Advance

\* Calls that are over give their slots back.
LEMMA LeaveMaps ==
  ASSUME GuardInv, UNCHANGED <<mode, seen>>,
         call' \in [Calls -> GuardCalls \cup {None}],
         \A c \in Calls : call'[c] \in {call[c], None}
  PROVE  List!Leave
<1> DEFINE doing == [d \in Calls |-> Doing(call[d])]
           doingNext == [d \in Calls |-> Doing(call'[d])]
<1>1. ASSUME NEW d \in Calls
      PROVE  Doing(call'[d]) = IF Doing(call'[d]) = None THEN None ELSE Doing(call[d])
  BY DEF Doing
<1>2. doingNext = [d \in Calls |-> IF doingNext[d] = None THEN None ELSE doing[d]]
  BY <1>1
<1> QED BY <1>2 DEF List!Leave, Doing

LEMMA MigrateMaps ==
  ASSUME NEW q \in Planned, Migrate(q)
  PROVE  List!Change
<1>1. q \in List!Planned /\ Catalog[q] \subseteq Plans
  BY TextsAssumption DEF Planned, List!Planned
<1> QED BY <1>1 DEF Migrate, List!Change

LEMMA StutterMaps == ASSUME UNCHANGED guardVars PROVE UNCHANGED List!vars
BY DEF guardVars, List!vars

LEMMA NextMaps == IInv /\ [Next]_vars => [List!Next]_(List!vars)
<1> SUFFICES ASSUME IInv, [Next]_vars PROVE [List!Next]_(List!vars)
  OBVIOUS
<1>1. GuardInv /\ Reads \subseteq Calls /\ Reads \subseteq Queries
      /\ call \in [Calls -> GuardCalls \cup {None}]
  BY ReadsAssumption DEF IInv, GuardInv, GuardTypeOK, Planned
<1>2. CASE UNCHANGED guardVars
  BY <1>2, StutterMaps
<1>3. CASE \E c \in Calls, q \in Queries : Begin(c, q)
  BY <1>1, <1>3, BeginMaps
<1>4. CASE \E c \in Calls : Advance(c)
  BY <1>1, <1>4, AdvanceMaps
<1>5. CASE \E c \in Calls : Leave(c)
  <2>1. PICK c \in Calls : Leave(c)
    BY <1>5
  <2>2. List!Leave
    BY <1>1, <2>1, LeaveMaps DEF Leave
  <2> QED BY <2>2 DEF List!Next
<1>6. CASE Reply
  <2>1. List!Leave
    BY <1>1, <1>6, LeaveMaps DEF Reply
  <2> QED BY <2>1 DEF List!Next
<1>7. CASE \E q \in Planned : Migrate(q)
  BY <1>7, MigrateMaps DEF List!Next
<1>8. ASSUME Run("transaction_review") \/ Run("case_triage") \/ Run("velocity_check")
      PROVE  UNCHANGED guardVars \/ \E c \in Calls, q \in Queries : Begin(c, q)
  BY <1>1, <1>8 DEF Run, FirstRead, Reads
<1>9. ASSUME Found
      PROVE  UNCHANGED guardVars \/ \E c \in Calls, q \in Queries : Begin(c, q)
  BY <1>1, <1>9 DEF Found, Reads
<1>10. ASSUME NEW r \in Reads, Gather(r)
       PROVE  \E c \in Calls, q \in Queries : Begin(c, q)
  BY <1>1, <1>10 DEF Gather
<1>11. ASSUME NEW c \in Calls \ Reads, Client(c)
       PROVE  Leave(c) \/ \E q \in Queries : Begin(c, q)
  BY <1>11 DEF Client
<1>12. ASSUME Context \/ Gathered \/ Redis \/ Triaged \/ Reviewed \/ UNCHANGED vars
       PROVE  UNCHANGED guardVars
  BY <1>12 DEF Context, Gathered, Redis, Triaged, Reviewed, vars
<1>13. Kinds \ {"context"} = {"transaction_review", "case_triage", "velocity_check"}
  BY DEF Kinds
<1> QED BY <1>2, <1>3, <1>4, <1>5, <1>6, <1>7, <1>8, <1>9, <1>10, <1>11, <1>12, <1>13 DEF Next

LEMMA InitMaps == Init => List!Init
<1> SUFFICES ASSUME Init PROVE List!Init
  OBVIOUS
<1>1. mode \in {"open", "listed", "blocked"} /\ seen \in [Planned -> {{r} : r \in Plans}]
  BY DEF Init, GuardInit
<1>2. \A c \in Calls : call[c] = None
  BY DEF Init, GuardInit
<1> QED BY <1>1, <1>2 DEF List!Init, List!Planned, Planned

\* Spec implements the allowlist that has no cache: sharing the cache, the EXPLAINs in
\* flight and the evictions let nothing through, and refuse nothing, for which no text
\* with its key has ever given the reason.
THEOREM GuardIsAllowlist == Spec => GuardImplementsAllowlist
BY InitMaps, NextMaps, Invariance, PTL DEF Spec, GuardImplementsAllowlist, List!Spec
=============================================================================

------------------------- MODULE BoundedReadsProofs -------------------------
(***************************************************************************)
(* What the bounded answers may be relied on for, for every set of keys    *)
(* and partitions, every limit and every size of the data.  The argument   *)
(* is that ends and commits only grow: LagInv relates what a call has read *)
(* of them to what they are now, PeekInv the position of a consumer to the *)
(* ends when its call began.                                               *)
(***************************************************************************)
EXTENDS BoundedReads, SequenceTheorems, TLAPS

\* A scan goes on below its limit.
ScanInv == Now("scan", "scanning") => Len(call.got) < Limit

\* No partition has become shorter, and no consumer stands before the last messages
\* that were asked for.
PeekInv ==
  /\ Now("peek", "seeking") =>
       \A p \in Partitions :
         /\ call.ends[p] <= log[p].end
         /\ call.at[p] # -1 => call.at[p] >= call.ends[p] - call.count
  /\ PeekRecent

\* The group has committed at least what it had when the ends were read.
LagInv ==
  /\ Now("lag", "asked") => \A p \in Partitions : call.committed[p] = -1
  /\ (call.tool = "lag" /\ call.pc # "asked") =>
       \A p \in Partitions :
         /\ call.ends[p] # -1
         /\ Now("lag", "ended") => call.ends[p] - log[p].committed <= call.before[p]
         /\ call.committed[p] # -1 => call.ends[p] - call.committed[p] <= call.before[p]
         /\ call.pc = "answered" => call.committed[p] # -1

IInv == TypeOK /\ ScanInv /\ WholeUnlessSaid /\ PeekInv /\ LagInv

-----------------------------------------------------------------------------
(* The calls by their tool. *)

Lists == UNION {[1..n -> Keys] : n \in 0..Limit}
Scans == [tool : {"scan"}, pc : {"scanning", "answered"}, steady : SUBSET Keys,
          got : Lists, cut : BOOLEAN]
Wholes == [tool : {"rows", "object"}, total : 0..Top, got : 0..Limit, cut : BOOLEAN]
Peeks == [tool : {"peek"}, pc : {"seeking", "answered"}, count : 1..Limit,
          ends : [Partitions -> Offsets], at : PerPartition,
          got : [Partitions -> SUBSET Offsets]]
Lags == [tool : {"lag"}, pc : {"asked", "ended", "answered"}, ends : PerPartition,
         committed : PerPartition, before : [Partitions -> Offsets]]

LEMMA Kinds ==
  /\ call \in Calls <=> call = Idle \/ call \in Scans \/ call \in Wholes
                         \/ call \in Peeks \/ call \in Lags
  /\ call \in Calls =>
       /\ call.tool = "scan" => call \in Scans
       /\ call.tool = "peek" => call \in Peeks
       /\ call.tool = "lag" => call \in Lags
BY DEF Calls, Idle, Scans, Wholes, Peeks, Lags, Lists

\* The log of a partition.
LEMMA LogType ==
  ASSUME NEW l \in Logs, NEW p \in Partitions
  PROVE  /\ l[p].start \in 0..Top /\ l[p].end \in 0..Top /\ l[p].committed \in 0..Top
         /\ l[p].start <= l[p].end /\ l[p].committed <= l[p].end
BY TopAssumption DEF Logs, Offsets

LEMMA NothingIsLog == Nothing \in Logs
<1>1. [start |-> 0, end |-> 0, committed |-> 0]
        \in {l \in [start : Offsets, end : Offsets, committed : Offsets] :
              l.start <= l.end /\ l.committed <= l.end}
  BY TopAssumption DEF Offsets
<1> QED BY <1>1 DEF Nothing, Logs

\* A call that has not begun is nobody's concern.
LEMMA IdleInv == call = Idle => ScanInv /\ WholeUnlessSaid /\ PeekInv /\ LagInv
BY DEF Idle, ScanInv, WholeUnlessSaid, PeekInv, PeekRecent, LagInv, Now

LEMMA InitInv == Init => IInv
BY NothingIsLog, IdleInv DEF Init, IInv, TypeOK, Calls

LEMMA ReturnStep ==
  ASSUME Return
  PROVE  IInv'
<1>1. keys' = {} /\ log' = Nothing /\ call' = Idle
  BY DEF Return
<1>2. TypeOK'
  BY <1>1, NothingIsLog DEF TypeOK, Calls, Logs, Idle, Nothing
<1>3. (ScanInv /\ WholeUnlessSaid /\ PeekInv /\ LagInv)'
  BY <1>1 DEF Idle, ScanInv, WholeUnlessSaid, PeekInv, PeekRecent, LagInv, Now
<1> QED BY <1>2, <1>3 DEF IInv

-----------------------------------------------------------------------------
(* The tools share nothing: what one does keeps the invariant once its call is of its *)
(* type and its own promises hold.                                                    *)

LEMMA FromScan ==
  ASSUME keys' \subseteq Keys, log' \in Logs, call' \in Scans, ScanInv',
         Now("scan", "answered")' => call'.cut \/ call'.steady \subseteq Got'
  PROVE  IInv'
<1>1. call' \in Calls
  BY DEF Calls, Scans, Lists
<1>2. WholeUnlessSaid' /\ PeekInv' /\ LagInv'
  BY DEF Scans, WholeUnlessSaid, PeekInv, PeekRecent, LagInv, Now
<1> QED BY <1>1, <1>2 DEF IInv, TypeOK

LEMMA FromWhole ==
  ASSUME keys' \subseteq Keys, log' \in Logs, call' \in Wholes,
         call'.cut \/ call'.got = call'.total
  PROVE  IInv'
<1>1. call' \in Calls
  BY DEF Calls, Wholes
<1>2. ScanInv' /\ WholeUnlessSaid' /\ PeekInv' /\ LagInv'
  BY DEF Wholes, ScanInv, WholeUnlessSaid, PeekInv, PeekRecent, LagInv, Now
<1> QED BY <1>1, <1>2 DEF IInv, TypeOK

LEMMA FromPeek ==
  ASSUME keys' \subseteq Keys, log' \in Logs, call' \in Peeks, PeekInv'
  PROVE  IInv'
<1>1. call' \in Calls
  BY DEF Calls, Peeks
<1>2. ScanInv' /\ WholeUnlessSaid' /\ LagInv'
  BY DEF Peeks, ScanInv, WholeUnlessSaid, LagInv, Now
<1> QED BY <1>1, <1>2 DEF IInv, TypeOK

LEMMA FromLag ==
  ASSUME keys' \subseteq Keys, log' \in Logs, call' \in Lags, LagInv'
  PROVE  IInv'
<1>1. call' \in Calls
  BY DEF Calls, Lags
<1>2. ScanInv' /\ WholeUnlessSaid' /\ PeekInv'
  BY DEF Lags, ScanInv, WholeUnlessSaid, PeekInv, PeekRecent, Now
<1> QED BY <1>1, <1>2 DEF IInv, TypeOK

-----------------------------------------------------------------------------
(* Scans. *)

\* A key more makes a longer list.
LEMMA AppendLists ==
  ASSUME NEW q \in Lists, NEW k \in Keys, Len(q) < Limit
  PROVE  Append(q, k) \in Lists /\ Len(Append(q, k)) \in Nat
<1>1. PICK n \in 0..Limit : q \in [1..n -> Keys]
  BY DEF Lists
<1>2. q \in Seq(Keys) /\ Len(q) = n
  BY <1>1, LimitAssumption
<1>3. /\ Append(q, k) \in Seq(Keys) /\ Len(Append(q, k)) = n + 1
      /\ DOMAIN Append(q, k) = 1..(n + 1)
  BY <1>2
<1>4. Append(q, k) \in [1..(n + 1) -> Keys]
  BY <1>3, LenProperties
<1>5. n + 1 \in 0..Limit
  BY <1>2, LimitAssumption
<1> QED BY <1>3, <1>4, <1>5 DEF Lists

LEMMA ScanStep ==
  ASSUME IInv, Scan \/ (\E k \in Keys : ScanKey(k)) \/ ScanEnd \/ Writer
  PROVE  IInv'
<1>1. keys \subseteq Keys /\ log \in Logs /\ call \in Calls /\ ScanInv
  BY DEF IInv, TypeOK
<1>2. CASE Scan
  <2>1. call' = [tool |-> "scan", pc |-> "scanning", steady |-> keys', got |-> <<>>, cut |-> FALSE]
        /\ keys' \in SUBSET Keys /\ log' = log
    BY <1>2 DEF Scan
  <2>2. <<>> \in Lists /\ Len(<<>>) < Limit
    BY LimitAssumption DEF Lists
  <2>3. (call \in Scans)'
    BY <2>1, <2>2 DEF Scans
  <2>4. ScanInv' /\ ~Now("scan", "answered")'
    BY <2>1, <2>2 DEF ScanInv, Now
  <2> QED BY <1>1, <2>1, <2>3, <2>4, FromScan
<1>3. ASSUME Now("scan", "scanning")
      PROVE  call \in Scans /\ Len(call.got) < Limit /\ call.got \in Lists
  BY <1>1, <1>3, Kinds DEF ScanInv, Now, Scans
<1>4. ASSUME NEW k \in Keys, ScanKey(k) PROVE IInv'
  <2> DEFINE got == Append(call.got, k)
  <2>1. /\ Now("scan", "scanning") /\ keys' = keys /\ log' = log
        /\ call' = IF Len(got) >= Limit
                   THEN [call EXCEPT !.got = got, !.pc = "answered", !.cut = TRUE]
                   ELSE [call EXCEPT !.got = got]
    BY <1>4 DEF ScanKey
  <2>2. call \in Scans /\ got \in Lists /\ Len(got) \in Nat
    BY <1>3, <2>1, AppendLists
  <2> HIDE DEF got
  <2>3. (call \in Scans)'
    BY <2>1, <2>2 DEF Scans
  <2>4. ScanInv' /\ (Now("scan", "answered")' => call'.cut)
    BY <2>1, <2>2, LimitAssumption DEF ScanInv, Now, Scans
  <2> QED BY <1>1, <2>1, <2>3, <2>4, FromScan
<1>5. CASE ScanEnd
  <2>1. /\ call' = [call EXCEPT !.pc = "answered"] /\ keys' = keys /\ log' = log
        /\ call.steady \subseteq Got /\ call \in Scans
    BY <1>3, <1>5 DEF ScanEnd
  <2>2. call' \in Scans /\ ScanInv' /\ call'.steady \subseteq Got'
    BY <2>1 DEF Scans, ScanInv, Now, Got
  <2> QED BY <1>1, <2>1, <2>2, FromScan
<1>6. CASE Writer
  <2>1. /\ keys' \subseteq Keys /\ log' = log /\ Now("scan", "scanning") /\ call \in Scans
        /\ call' = [call EXCEPT !.steady = @ \cap keys']
    BY <1>1, <1>3, <1>6 DEF Writer
  <2>2. call' \in Scans /\ ScanInv' /\ ~Now("scan", "answered")'
    BY <1>3, <2>1 DEF Scans, ScanInv, Now
  <2> QED BY <1>1, <2>1, <2>2, FromScan
<1> QED BY <1>2, <1>4, <1>5, <1>6

-----------------------------------------------------------------------------
(* Rows and objects. *)

LEMMA WholeStep ==
  ASSUME IInv, NEW n \in 0..Top, Rows(n) \/ Object(n)
  PROVE  IInv'
<1>1. /\ keys \subseteq Keys /\ log \in Logs /\ keys' = keys /\ log' = log
  BY DEF IInv, TypeOK, Rows, Object
<1>2. CASE Rows(n)
  <2>1. PICK fetched \in {n, Least(n, Limit + 1)} :
          call' = [tool |-> "rows", total |-> n, got |-> Least(fetched, Limit),
                   cut |-> fetched > Limit]
    BY <1>2 DEF Rows
  <2>2. /\ Least(fetched, Limit) \in 0..Limit
        /\ (fetched > Limit) = TRUE \/ Least(fetched, Limit) = n
    BY LimitAssumption, TopAssumption DEF Least
  <2>3. (fetched > Limit) \in BOOLEAN
    OBVIOUS
  <2>4. PICK cut \in BOOLEAN :
          /\ call' = [tool |-> "rows", total |-> n, got |-> Least(fetched, Limit), cut |-> cut]
          /\ cut = (fetched > Limit)
    BY <2>1, <2>3
  <2>5. call' \in Wholes
    BY <2>2, <2>4 DEF Wholes
  <2>6. call'.cut \/ call'.got = call'.total
    BY <2>2, <2>4
  <2> QED BY <1>1, <2>5, <2>6, FromWhole
<1>3. CASE Object(n)
  <2>1. PICK refused \in {Least(n, Limit + 1) > Limit, TRUE} :
          call' = [tool |-> "object", total |-> n,
                   got |-> IF refused THEN 0 ELSE Least(n, Limit + 1), cut |-> refused]
    BY <1>3 DEF Object
  <2>2. Least(n, Limit + 1) > Limit \/ Least(n, Limit + 1) = n
    BY LimitAssumption, TopAssumption DEF Least
  <2>3. CASE refused = TRUE
    BY <1>1, <2>1, <2>3, LimitAssumption, FromWhole DEF Wholes
  <2>4. CASE refused # TRUE
    <3>1. refused = FALSE /\ ~(Least(n, Limit + 1) > Limit)
      <4>1. refused = (Least(n, Limit + 1) > Limit)
        BY <2>4
      <4>2. (Least(n, Limit + 1) > Limit) \in BOOLEAN
        OBVIOUS
      <4>3. (Least(n, Limit + 1) > Limit) # TRUE
        BY <2>4, <4>1, Zenon
      <4> QED BY <4>1, <4>2, <4>3, Zenon
    <3>2. Least(n, Limit + 1) = n /\ n \in 0..Limit
      BY <2>2, <3>1, LimitAssumption, TopAssumption DEF Least
    <3> QED BY <1>1, <2>1, <3>1, <3>2, FromWhole DEF Wholes
  <2> QED BY <2>3, <2>4
<1> QED BY <1>2, <1>3

-----------------------------------------------------------------------------
(* Peeks. *)

LEMMA PeekStep ==
  ASSUME IInv, Peek \/ GetMany \/ \E p \in Partitions : Seek(p) \/ Reset(p)
  PROVE  IInv'
<1>1. keys \subseteq Keys /\ log \in Logs /\ call \in Calls /\ PeekInv
  BY DEF IInv, TypeOK
<1>2. CASE Peek
  <2>1. log' \in Logs /\ keys' = keys
    BY <1>2 DEF Peek
  <2>2. PICK asked \in 1..(Limit + 1) :
          call' = [tool |-> "peek", pc |-> "seeking", count |-> Least(asked, Limit),
                   ends |-> [p \in Partitions |-> log'[p].end],
                   at |-> [p \in Partitions |-> -1], got |-> [p \in Partitions |-> {}]]
    BY <1>2 DEF Peek
  <2>3. [p \in Partitions |-> log'[p].end] \in [Partitions -> Offsets]
    BY <2>1, LogType DEF Offsets
  <2>4. [p \in Partitions |-> -1] \in PerPartition
        /\ [p \in Partitions |-> {}] \in [Partitions -> SUBSET Offsets]
    BY DEF PerPartition
  <2>5. Least(asked, Limit) \in 1..Limit
    BY LimitAssumption DEF Least
  <2>6. call' \in Peeks
    BY <2>2, <2>3, <2>4, <2>5 DEF Peeks
  <2>7. call'.pc = "seeking" /\ \A p \in Partitions : call'.ends[p] = log'[p].end /\ call'.at[p] = -1
    BY <2>2
  <2>8. PeekInv'
    BY <2>1, <2>7, LogType DEF PeekInv, PeekRecent, Now
  <2> QED BY <1>1, <2>1, <2>6, <2>8, FromPeek
<1>3. ASSUME Now("peek", "seeking") PROVE call \in Peeks
  BY <1>1, <1>3, Kinds DEF Now
<1>4. ASSUME NEW p \in Partitions, Seek(p) \/ Reset(p) PROVE IInv'
  <2>1. Now("peek", "seeking") /\ call \in Peeks /\ keys' = keys /\ log' = log
    BY <1>3, <1>4 DEF Seek, Reset, Sought
  <2>2. PICK to \in {Most(0, log[p].end - call.count), log[p].end} : call' = [call EXCEPT !.at[p] = to]
    BY <1>4 DEF Seek, Reset
  <2>3. /\ log[p].end \in 0..Top /\ call.count \in 1..Limit /\ call.ends[p] \in 0..Top
        /\ call.ends[p] <= log[p].end
    BY <1>1, <2>1, LogType DEF Peeks, PeekInv, Offsets
  <2>4. to \in Offsets /\ to >= call.ends[p] - call.count
    BY <2>3, LimitAssumption, TopAssumption DEF Most, Offsets
  <2>5. /\ call' \in Peeks /\ call'.pc = "seeking" /\ call'.count = call.count
        /\ call'.ends = call.ends
        /\ \A o \in Partitions : call'.at[o] = IF o = p THEN to ELSE call.at[o]
    BY <2>1, <2>2, <2>4 DEF Peeks, PerPartition, Now
  <2>6. PeekInv'
    BY <1>1, <2>1, <2>4, <2>5 DEF PeekInv, PeekRecent, Now
  <2> QED BY <1>1, <2>1, <2>5, <2>6, FromPeek
<1>5. CASE GetMany
  <2>1. Now("peek", "seeking") /\ call \in Peeks /\ keys' = keys /\ log' = log
        /\ \A p \in Partitions : call.at[p] # -1
    BY <1>3, <1>5 DEF GetMany, Sought
  <2>2. PICK got \in [Partitions -> 0..call.count] :
          /\ \A p \in Partitions :
               got[p] <= IF call.at[p] < log[p].start THEN 0 ELSE log[p].end - call.at[p]
          /\ call' = [call EXCEPT !.pc = "answered",
                        !.got = [p \in Partitions |-> call.at[p]..(call.at[p] + got[p] - 1)]]
    BY <1>5 DEF GetMany
  <2> DEFINE shown == [p \in Partitions |-> call.at[p]..(call.at[p] + got[p] - 1)]
  <2>3. ASSUME NEW p \in Partitions
        PROVE  /\ shown[p] \in SUBSET Offsets
               /\ \A o \in shown[p] : o >= call.ends[p] - call.count
    <3>1. /\ call.at[p] \in 0..Top /\ got[p] \in 0..call.count /\ call.count \in 1..Limit
          /\ call.ends[p] \in 0..Top /\ log[p].end \in 0..Top
      BY <1>1, <2>1, LogType DEF Peeks, PerPartition, Offsets
    <3>2. call.at[p] >= call.ends[p] - call.count
      BY <1>1, <2>1 DEF PeekInv
    <3>3. got[p] = 0 \/ call.at[p] + got[p] <= log[p].end
      BY <2>2, <3>1, LimitAssumption, TopAssumption
    <3> QED BY <3>1, <3>2, <3>3, LimitAssumption, TopAssumption DEF Offsets
  <2>4. shown \in [Partitions -> SUBSET Offsets]
    BY <2>3
  <2>5. call' = [call EXCEPT !.pc = "answered", !.got = shown]
    BY <2>2
  <2> HIDE DEF shown
  <2>6. call' \in Peeks /\ call'.pc = "answered" /\ call'.got = shown
        /\ call'.ends = call.ends /\ call'.count = call.count
    BY <2>1, <2>4, <2>5 DEF Peeks
  <2>7. PeekInv'
    BY <2>3, <2>6 DEF PeekInv, PeekRecent, Now
  <2> QED BY <1>1, <2>1, <2>6, <2>7, FromPeek
<1> QED BY <1>2, <1>4, <1>5

-----------------------------------------------------------------------------
(* Lags, and what others do to the topic. *)

LEMMA LagStep ==
  ASSUME IInv, Lag \/ EndOffsets \/ LagAnswer \/ \E p \in Partitions : Committed(p)
  PROVE  IInv'
<1>1. keys \subseteq Keys /\ log \in Logs /\ call \in Calls /\ LagInv
  BY DEF IInv, TypeOK
<1>2. CASE Lag
  <2>1. log' \in Logs /\ keys' = keys
        /\ call' = [tool |-> "lag", pc |-> "asked", ends |-> [p \in Partitions |-> -1],
                    committed |-> [p \in Partitions |-> -1],
                    before |-> [p \in Partitions |-> 0]]
    BY <1>2 DEF Lag
  <2>2. [p \in Partitions |-> -1] \in PerPartition
        /\ [p \in Partitions |-> 0] \in [Partitions -> Offsets]
    BY TopAssumption DEF PerPartition, Offsets
  <2>3. call' \in Lags /\ call'.pc = "asked"
    BY <2>1, <2>2 DEF Lags
  <2>4. call'.committed = [p \in Partitions |-> -1]
    BY <2>1
  <2>5. LagInv'
    BY <2>3, <2>4 DEF LagInv
  <2> QED BY <1>1, <2>1, <2>3, <2>5, FromLag
<1>3. ASSUME call.tool = "lag" PROVE call \in Lags
  BY <1>1, <1>3, Kinds
<1>4. CASE EndOffsets
  <2> DEFINE ends == [p \in Partitions |-> log[p].end]
             before == [p \in Partitions |-> log[p].end - log[p].committed]
  <2>1. Now("lag", "asked") /\ call \in Lags /\ keys' = keys /\ log' = log
        /\ call' = [call EXCEPT !.pc = "ended", !.ends = ends, !.before = before]
    BY <1>3, <1>4 DEF EndOffsets, Now
  <2>2. ASSUME NEW p \in Partitions
        PROVE  log[p].end \in Offsets /\ log[p].end - log[p].committed \in Offsets
    BY <1>1, LogType, TopAssumption DEF Offsets
  <2>3. ends \in PerPartition /\ before \in [Partitions -> Offsets]
    BY <2>2 DEF PerPartition
  <2>4. \A p \in Partitions : /\ ends[p] # -1
                               /\ ends[p] - log[p].committed <= before[p]
    <3> SUFFICES ASSUME NEW p \in Partitions
                 PROVE  ends[p] # -1 /\ ends[p] - log[p].committed <= before[p]
      OBVIOUS
    <3>1. /\ log[p].end \in 0..Top /\ log[p].committed \in 0..Top
          /\ ends[p] = log[p].end /\ before[p] = log[p].end - log[p].committed
      BY <1>1, LogType
    <3> HIDE DEF ends, before
    <3> QED BY <3>1, TopAssumption
  <2> HIDE DEF ends, before
  <2>5. call' \in Lags /\ call'.pc = "ended" /\ call'.ends = ends /\ call'.before = before
        /\ call'.committed = call.committed
    BY <2>1, <2>3 DEF Lags
  <2>6. \A p \in Partitions : call.committed[p] = -1
    BY <1>1, <2>1 DEF LagInv, Now
  <2>7. LagInv'
    BY <2>1, <2>4, <2>5, <2>6 DEF LagInv, Now
  <2> QED BY <1>1, <2>1, <2>5, <2>7, FromLag
<1>5. ASSUME NEW p \in Partitions, Committed(p) PROVE IInv'
  <2>1. Now("lag", "ended") /\ call \in Lags /\ keys' = keys /\ log' = log
        /\ call' = [call EXCEPT !.committed[p] = log[p].committed]
    BY <1>3, <1>5 DEF Committed, Now
  <2>2. log[p].committed \in Offsets
    BY <1>1, LogType DEF Offsets
  <2>3. /\ call' \in Lags /\ call'.pc = "ended" /\ call'.tool = "lag"
        /\ call'.ends = call.ends /\ call'.before = call.before
        /\ \A o \in Partitions :
             call'.committed[o] = IF o = p THEN log[p].committed ELSE call.committed[o]
    BY <2>1, <2>2 DEF Lags, PerPartition, Now
  <2>4. LagInv'
    BY <1>1, <2>1, <2>3 DEF LagInv, Now
  <2> QED BY <1>1, <2>1, <2>3, <2>4, FromLag
<1>6. CASE LagAnswer
  <2>1. /\ Now("lag", "ended") /\ call \in Lags /\ keys' = keys /\ log' = log
        /\ \A p \in Partitions : call.committed[p] # -1
        /\ call' = [call EXCEPT !.pc = "answered"]
    BY <1>3, <1>6 DEF LagAnswer, Now
  <2>2. /\ call' \in Lags /\ call'.pc = "answered" /\ call'.tool = "lag"
        /\ call'.ends = call.ends /\ call'.before = call.before
        /\ call'.committed = call.committed
    BY <2>1 DEF Lags, Now
  <2>3. LagInv'
    BY <1>1, <2>1, <2>2 DEF LagInv, Now
  <2> QED BY <1>1, <2>1, <2>2, <2>3, FromLag
<1> QED BY <1>2, <1>4, <1>5, <1>6

\* A topic only grows at its end, and a group only commits further.
LEMMA BrokerStep ==
  ASSUME IInv, NEW p \in Partitions, Broker(p)
  PROVE  IInv'
<1>1. keys \subseteq Keys /\ log \in Logs /\ call \in Calls /\ PeekInv /\ LagInv
      /\ keys' = keys /\ call' = call
  BY DEF IInv, TypeOK, Broker
<1>2. /\ log' \in Logs
      /\ \A o \in Partitions : /\ log[o].end <= log'[o].end
                                /\ log[o].committed <= log'[o].committed
  <2>1. /\ log[p].start \in 0..Top /\ log[p].end \in 0..Top /\ log[p].committed \in 0..Top
        /\ log[p].start <= log[p].end /\ log[p].committed <= log[p].end
    BY <1>1, LogType
  <2> DEFINE Log == {l \in [start : Offsets, end : Offsets, committed : Offsets] :
                      l.start <= l.end /\ l.committed <= l.end}
  <2>2. log \in [Partitions -> Log]
    BY <1>1 DEF Logs
  <2>3. \E new \in Log : /\ log' = [log EXCEPT ![p] = new]
                         /\ log[p].end <= new.end /\ log[p].committed <= new.committed
    <3>0. log[p] \in [start : Offsets, end : Offsets, committed : Offsets]
      BY <2>2
    <3>1. CASE log[p].end < Top /\ log' = [log EXCEPT ![p].end = @ + 1]
      <4> DEFINE new == [log[p] EXCEPT !.end = @ + 1]
      <4>1. log' = [log EXCEPT ![p] = new]
        BY <3>1
      <4>2. new \in Log /\ log[p].end <= new.end /\ log[p].committed <= new.committed
        BY <2>1, <3>0, <3>1, TopAssumption DEF Offsets
      <4> QED BY <4>1, <4>2
    <3>2. ASSUME NEW o \in (log[p].start + 1)..log[p].end, log' = [log EXCEPT ![p].start = o]
          PROVE  \E new \in Log : /\ log' = [log EXCEPT ![p] = new]
                                  /\ log[p].end <= new.end
                                  /\ log[p].committed <= new.committed
      <4> DEFINE new == [log[p] EXCEPT !.start = o]
      <4>1. log' = [log EXCEPT ![p] = new]
        BY <3>2
      <4>2. new \in Log /\ log[p].end <= new.end /\ log[p].committed <= new.committed
        BY <2>1, <3>0, <3>2, TopAssumption DEF Offsets
      <4> QED BY <4>1, <4>2
    <3>3. ASSUME NEW o \in (log[p].committed + 1)..log[p].end,
                 log' = [log EXCEPT ![p].committed = o]
          PROVE  \E new \in Log : /\ log' = [log EXCEPT ![p] = new]
                                  /\ log[p].end <= new.end
                                  /\ log[p].committed <= new.committed
      <4> DEFINE new == [log[p] EXCEPT !.committed = o]
      <4>1. log' = [log EXCEPT ![p] = new]
        BY <3>3
      <4>2. new \in Log /\ log[p].end <= new.end /\ log[p].committed <= new.committed
        BY <2>1, <3>0, <3>3, TopAssumption DEF Offsets
      <4> QED BY <4>1, <4>2
    <3> QED BY <3>1, <3>2, <3>3 DEF Broker
  <2> HIDE DEF Log
  <2>4. log' \in [Partitions -> Log]
    BY <2>2, <2>3
  <2>5. ASSUME NEW o \in Partitions
        PROVE  log[o].end <= log'[o].end /\ log[o].committed <= log'[o].committed
    <3>1. log[o].end \in 0..Top /\ log[o].committed \in 0..Top
      BY <1>1, LogType
    <3> QED BY <2>2, <2>3, <3>1
  <2> QED BY <2>4, <2>5 DEF Log, Logs
<1>3. CASE call.tool = "peek"
  <2>1. call' \in Peeks
    BY <1>1, <1>3, Kinds
  <2>2. \A o \in Partitions : /\ call.ends[o] \in 0..Top
                              /\ log[o].end \in 0..Top /\ log'[o].end \in 0..Top
    BY <1>1, <1>2, <2>1, LogType DEF Peeks, Offsets
  <2>3. PeekInv'
    BY <1>1, <1>2, <2>2 DEF PeekInv, PeekRecent, Now
  <2> QED BY <1>1, <1>2, <2>1, <2>3, FromPeek
<1>4. CASE call.tool = "lag"
  <2>1. call' \in Lags
    BY <1>1, <1>4, Kinds
  <2>2. \A o \in Partitions :
          /\ call.ends[o] \in (0..Top) \cup {-1} /\ call.before[o] \in 0..Top
          /\ log[o].committed \in 0..Top /\ log'[o].committed \in 0..Top
    BY <1>1, <1>2, <2>1, LogType DEF Lags, PerPartition, Offsets
  <2>3. LagInv'
    BY <1>1, <1>2, <2>2 DEF LagInv, Now
  <2> QED BY <1>1, <1>2, <2>1, <2>3, FromLag
<1> QED BY <1>3, <1>4 DEF Broker, KafkaReads

-----------------------------------------------------------------------------

LEMMA NextInv == IInv /\ [Next]_vars => IInv'
<1> SUFFICES ASSUME IInv, [Next]_vars PROVE IInv'
  OBVIOUS
<1>1. CASE UNCHANGED vars
  BY <1>1 DEF IInv, TypeOK, ScanInv, WholeUnlessSaid, PeekInv, PeekRecent, LagInv, Now, Got, vars
<1>2. CASE Next
  BY <1>2, ReturnStep, ScanStep, WholeStep, PeekStep, LagStep, BrokerStep DEF Next
<1> QED BY <1>1, <1>2

\* IInv holds in every reachable state.
THEOREM Invariance == Spec => []IInv
BY InitInv, NextInv, PTL DEF Spec

\* Data, topic and call keep their types.
THEOREM TypeCorrect == Spec => []TypeOK
<1>1. IInv => TypeOK
  BY DEF IInv
<1> QED BY <1>1, Invariance, PTL

\* Rows, bytes and scanned keys are whole when the answer does not say that they are cut.
THEOREM UncutIsWhole == Spec => []WholeUnlessSaid
<1>1. IInv => WholeUnlessSaid
  BY DEF IInv
<1> QED BY <1>1, Invariance, PTL

\* peek_messages shows no message older than the last count of its partition.
THEOREM PeekShowsRecent == Spec => []PeekRecent
<1>1. IInv => PeekRecent
  BY DEF IInv, PeekInv
<1> QED BY <1>1, Invariance, PTL

\* consumer_lag reports no more than the lag there was when the ends were read, of a group
\* whose commits only grow.
THEOREM LagIsNotOverstated == Spec => []LagNotOverstated
<1>1. IInv => LagNotOverstated
  BY DEF IInv, LagInv, LagNotOverstated, Now
<1> QED BY <1>1, Invariance, PTL
=============================================================================

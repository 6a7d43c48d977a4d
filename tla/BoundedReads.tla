---------------------------- MODULE BoundedReads ----------------------------
(***************************************************************************)
(* Tools that read a bounded part of data that others change meanwhile:    *)
(* redis.scan_prefix, kafka.peek_messages, kafka.consumer_lag, the row     *)
(* bound of postgres.query_readonly and s3.get_object.  One call at a      *)
(* time, on any state of the data; what the data did between two calls     *)
(* does not matter, so only the data of the tool that runs are kept.       *)
(* Which consumer a peek works on is the subject of ConsumerCache.         *)
(***************************************************************************)
EXTENDS Integers, Sequences, FiniteSetsExt

CONSTANTS
  Keys,        \* Redis keys with the prefix
  Partitions,  \* of the topic
  Limit,       \* redis_max_keys, kafka_max_messages, pg_max_rows, s3_max_object_bytes
  Top          \* the largest offset, count of rows and size in the model (a bound)

ASSUME LimitAssumption == Limit \in Nat \ {0}
ASSUME TopAssumption == Top \in Nat

VARIABLES
  keys,  \* the keys there are, while a scan runs
  log,   \* start, end and committed offset of each partition, while Kafka is read
  call   \* the call, and what it has learnt

vars == <<keys, log, call>>

Idle == [tool |-> "none"]
Nothing == [p \in Partitions |-> [start |-> 0, end |-> 0, committed |-> 0]]

Offsets == 0..Top
Logs == [Partitions -> {l \in [start : Offsets, end : Offsets, committed : Offsets] :
                          l.start <= l.end /\ l.committed <= l.end}]
PerPartition == [Partitions -> Offsets \cup {-1}]

Calls ==
  {Idle}
    \cup [tool : {"scan"}, pc : {"scanning", "answered"}, steady : SUBSET Keys,
          got : UNION {[1..n -> Keys] : n \in 0..Limit}, cut : BOOLEAN]
    \cup [tool : {"rows", "object"}, total : 0..Top, got : 0..Limit, cut : BOOLEAN]
    \cup [tool : {"peek"}, pc : {"seeking", "answered"}, count : 1..Limit,
          ends : [Partitions -> Offsets], at : PerPartition,
          got : [Partitions -> SUBSET Offsets]]
    \cup [tool : {"lag"}, pc : {"asked", "ended", "answered"}, ends : PerPartition,
          committed : PerPartition, before : [Partitions -> Offsets]]

TypeOK ==
  /\ keys \subseteq Keys
  /\ log \in Logs
  /\ call \in Calls

Init == keys = {} /\ log = Nothing /\ call = Idle

Now(tool, pc) == call.tool = tool /\ call.pc = pc

\* The answer is sent, or the call ends with an error or is cancelled.
Return == call # Idle /\ keys' = {} /\ log' = Nothing /\ call' = Idle

-----------------------------------------------------------------------------
(* redis.scan_prefix.  SCAN gives every key at least once that is there all the      *)
(* time, perhaps more than once, and may give a key that comes or goes.              *)

Scan ==
  /\ call = Idle
  /\ keys' \in SUBSET Keys
  /\ call' = [tool |-> "scan", pc |-> "scanning", steady |-> keys', got |-> <<>>, cut |-> FALSE]
  /\ UNCHANGED log

\* Mutant of ScanKey: the flag is set by the key after the last.
ScanKeyLate(k) ==
  /\ Now("scan", "scanning") /\ k \in keys
  /\ LET got == Append(call.got, k)
     IN  call' = IF Len(got) >= Limit THEN [call EXCEPT !.got = got, !.pc = "answered"]
                 ELSE [call EXCEPT !.got = got]
  /\ UNCHANGED <<keys, log>>

\* A key arrives; the last one that is wanted ends the scan and sets the flag, be it
\* the last there is.
ScanKey(k) ==
  /\ Now("scan", "scanning") /\ k \in keys
  /\ LET got == Append(call.got, k)
     IN  call' = IF Len(got) >= Limit THEN [call EXCEPT !.got = got, !.pc = "answered", !.cut = TRUE]
                 ELSE [call EXCEPT !.got = got]
  /\ UNCHANGED <<keys, log>>

Got == {call.got[i] : i \in DOMAIN call.got}

\* The cursor comes back to its start.
ScanEnd ==
  /\ Now("scan", "scanning") /\ call.steady \subseteq Got
  /\ call' = [call EXCEPT !.pc = "answered"]
  /\ UNCHANGED <<keys, log>>

Writer ==
  /\ Now("scan", "scanning")
  /\ \E k \in Keys : keys' \in {keys \cup {k}, keys \ {k}}
  /\ call' = [call EXCEPT !.steady = @ \cap keys']
  /\ UNCHANGED log

-----------------------------------------------------------------------------
(* The bound on rows and bytes. *)

Least(m, n) == IF m < n THEN m ELSE n

\* Mutant of Rows: the row that tells that there are more is not dropped.
RowsOneMore(n) ==
  /\ call = Idle
  /\ \E fetched \in {n, Least(n, Limit + 1)} :
       call' = [tool |-> "rows", total |-> n, got |-> fetched, cut |-> fetched > Limit]
  /\ UNCHANGED <<keys, log>>

\* One row more than the limit is asked for, an EXPLAIN without a limit; that row is
\* dropped and tells that there are more.
Rows(n) ==
  /\ call = Idle
  /\ \E fetched \in {n, Least(n, Limit + 1)} :
       call' = [tool |-> "rows", total |-> n, got |-> Least(fetched, Limit), cut |-> fetched > Limit]
  /\ UNCHANGED <<keys, log>>

\* One byte more than the limit is asked for; an object that has it is refused, and
\* so is one whose type is not text.
Object(n) ==
  /\ call = Idle
  /\ \E refused \in {Least(n, Limit + 1) > Limit, TRUE} :
       call' = [tool |-> "object", total |-> n, got |-> IF refused THEN 0 ELSE Least(n, Limit + 1),
                cut |-> refused]
  /\ UNCHANGED <<keys, log>>

-----------------------------------------------------------------------------
(* kafka.peek_messages *)

KafkaReads(tool) == call.tool = tool /\ call.pc # "answered"

\* The topic gets a message, loses its oldest ones to retention, or the group commits.
Broker(p) ==
  /\ call # Idle /\ (KafkaReads("peek") \/ KafkaReads("lag"))
  /\ \/ log[p].end < Top /\ log' = [log EXCEPT ![p].end = @ + 1]
     \/ \E o \in (log[p].start + 1)..log[p].end : log' = [log EXCEPT ![p].start = o]
     \/ \E o \in (log[p].committed + 1)..log[p].end : log' = [log EXCEPT ![p].committed = o]
  /\ UNCHANGED <<keys, call>>

\* The number asked for is capped (one below 1 makes getmany raise); a consumer is
\* there and knows the partitions.
Peek ==
  /\ call = Idle
  /\ log' \in Logs /\ \A p \in Partitions : log'[p].committed = 0
  /\ \E asked \in 1..(Limit + 1) :
       call' = [tool |-> "peek", pc |-> "seeking", count |-> Least(asked, Limit),
                ends |-> [p \in Partitions |-> log'[p].end], at |-> [p \in Partitions |-> -1],
                got |-> [p \in Partitions |-> {}]]
  /\ UNCHANGED keys

Most(m, n) == IF m > n THEN m ELSE n

\* Mutant of Seek: the consumer stays where an earlier call has left it.
SeekNowhere(p) ==
  /\ Now("peek", "seeking") /\ call.at[p] = -1
  /\ \E position \in log[p].start..log[p].end :
       call' = [call EXCEPT !.at[p] = Most(0, position - call.count)]
  /\ UNCHANGED <<keys, log>>

\* position() resolves the seek to the end of one partition, an await each; then the
\* consumer is set back.
Seek(p) ==
  /\ Now("peek", "seeking") /\ call.at[p] = -1
  /\ call' = [call EXCEPT !.at[p] = Most(0, log[p].end - call.count)]
  /\ UNCHANGED <<keys, log>>

Sought == Now("peek", "seeking") /\ \A p \in Partitions : call.at[p] # -1

\* An offset that retention has taken meanwhile is out of range: inside getmany the
\* consumer starts at the end again, past the messages that are there.
Reset(p) ==
  /\ Sought /\ call.at[p] < log[p].start
  /\ call' = [call EXCEPT !.at[p] = log[p].end]
  /\ UNCHANGED <<keys, log>>

\* getmany returns up to count records in all, of any of the partitions, in order of
\* their offsets.
GetMany ==
  /\ Sought
  /\ \E got \in [Partitions -> 0..call.count] :
       /\ MapThenSumSet(LAMBDA p : got[p], Partitions) <= call.count
       /\ \A p \in Partitions :
            got[p] <= IF call.at[p] < log[p].start THEN 0 ELSE log[p].end - call.at[p]
       /\ call' = [call EXCEPT !.pc = "answered",
                     !.got = [p \in Partitions |-> call.at[p]..(call.at[p] + got[p] - 1)]]
  /\ UNCHANGED <<keys, log>>

-----------------------------------------------------------------------------
(* kafka.consumer_lag *)

Lag ==
  /\ call = Idle
  /\ log' \in Logs
  /\ call' = [tool |-> "lag", pc |-> "asked", ends |-> [p \in Partitions |-> -1],
              committed |-> [p \in Partitions |-> -1], before |-> [p \in Partitions |-> 0]]
  /\ UNCHANGED keys

\* The ends of all partitions, in one request.
EndOffsets ==
  /\ Now("lag", "asked")
  /\ call' = [call EXCEPT !.pc = "ended", !.ends = [p \in Partitions |-> log[p].end],
                !.before = [p \in Partitions |-> log[p].end - log[p].committed]]
  /\ UNCHANGED <<keys, log>>

\* gather awaits the committed offsets, each answered at its own time; a group that
\* has committed nothing counts from 0.
Committed(p) ==
  /\ Now("lag", "ended") /\ call.committed[p] = -1
  /\ call' = [call EXCEPT !.committed[p] = log[p].committed]
  /\ UNCHANGED <<keys, log>>

\* Mutant of LagAnswer: the ends are asked for last.
LagAnswerEndsLast ==
  /\ Now("lag", "ended") /\ \A p \in Partitions : call.committed[p] # -1
  /\ call' = [call EXCEPT !.pc = "answered", !.ends = [p \in Partitions |-> log[p].end]]
  /\ UNCHANGED <<keys, log>>

LagAnswer ==
  /\ Now("lag", "ended") /\ \A p \in Partitions : call.committed[p] # -1
  /\ call' = [call EXCEPT !.pc = "answered"]
  /\ UNCHANGED <<keys, log>>

-----------------------------------------------------------------------------
Next ==
  \/ Return
  \/ Scan \/ (\E k \in Keys : ScanKey(k)) \/ ScanEnd \/ Writer
  \/ \E n \in 0..Top : Rows(n) \/ Object(n)
  \/ Peek \/ GetMany \/ Lag \/ EndOffsets \/ LagAnswer
  \/ \E p \in Partitions : Broker(p) \/ Seek(p) \/ Reset(p) \/ Committed(p)

Spec == Init /\ [][Next]_vars

-----------------------------------------------------------------------------
(* What the answers may be relied on for. *)

\* An answer that does not say it is cut is whole: all the rows, all the bytes, and of
\* a scan every key that was there from its start to its end, repetitions or not.
WholeUnlessSaid ==
  /\ call.tool \in {"rows", "object"} => call.cut \/ call.got = call.total
  /\ Now("scan", "answered") => call.cut \/ call.steady \subseteq Got

\* A peek shows only messages among the last count of their partition, counted from
\* where it ended when the call began, or later ones.
PeekRecent ==
  Now("peek", "answered") =>
    \A p \in Partitions : \A o \in call.got[p] : o >= call.ends[p] - call.count

\* The reported lag of a partition is at most what it was when the ends were read, as long
\* as the group only moves on: what it commits meanwhile makes the lag smaller, below zero
\* even.  A group that is set back or expires between the two reads makes it larger, and
\* is not modelled.
LagNotOverstated ==
  Now("lag", "answered") =>
    \A p \in Partitions : call.ends[p] - call.committed[p] <= call.before[p]
=============================================================================

---------------------------- MODULE Investigation ----------------------------
(***************************************************************************)
(* The ops tools of app/domains/ops.py on top of the query guard: one call *)
(* of ops.get_investigation_context or ops.run_investigation, beside       *)
(* postgres.query_readonly calls of other clients that share the relation  *)
(* cache.  A read of an ops table is a call of the guard in a slot of its  *)
(* own, named like its text; it keeps its outcome there until the tool has *)
(* answered.                                                               *)
(***************************************************************************)
EXTENDS QueryGuard

\* The texts of the ops tools, and the slots they run in.
Reads == {"transaction", "case", "decisions", "velocity"}

ASSUME ReadsAssumption == Reads \subseteq Calls \cap Planned

VARIABLE ops  \* the ops call

vars == <<guardVars, ops>>

Kinds == {"context", "transaction_review", "case_triage", "velocity_check"}

\* Nobody has called, or the last answer has been sent.
Idle == [kind |-> "none", pc |-> "idle", reads |-> {}, answer |-> {}]

\* What an answer may hold: data of a read or of Redis (the score or the flags), and
\* notes.
Notes == {"db_note", "redis_note", "partial"}
Answers == SUBSET (Reads \cup {"redis"} \cup Notes)

TypeOK ==
  /\ GuardTypeOK
  /\ ops \in {Idle} \cup [kind : Kinds, pc : {"postgres", "redis", "answered"},
                          reads : SUBSET Reads, answer : Answers]

Init ==
  /\ GuardInit
  /\ ops = Idle

-----------------------------------------------------------------------------
(* ops.get_investigation_context *)

At(kinds, pc) == ops.kind \in kinds /\ ops.pc = pc

\* The call comes with one or both identifiers.  The pool may be missing and a table
\* may be misconfigured: then no read is made at all, not even the one whose
\* coroutine is there already, and the answer has the note.
Context ==
  /\ ops = Idle
  /\ \E reads \in (SUBSET {"transaction", "case"}) \ {{}} :
       ops' \in {[kind |-> "context", pc |-> "postgres", reads |-> reads, answer |-> {}],
                 [kind |-> "context", pc |-> "redis", reads |-> {}, answer |-> {"db_note"}]}
  /\ UNCHANGED guardVars

\* gather starts its coroutines in order, each at a turn of its own.
Gather(r) ==
  /\ At({"context"}, "postgres")
  /\ r \in ops.reads
  /\ r = "case" /\ "transaction" \in ops.reads => call["transaction"] # None
  /\ Begin(r, r)
  /\ UNCHANGED ops

Ended(r) == \E outcome \in Outcomes : In(r, outcome)

\* Mutant of Gathered: without return_exceptions the first failure is raised.
GatheredRaises ==
  /\ At({"context"}, "postgres")
  /\ \A r \in ops.reads : Ended(r)
  /\ ops' = [ops EXCEPT !.pc = "redis",
                        !.answer = IF \E r \in ops.reads : In(r, "failed") THEN {"db_note"}
                                   ELSE {r \in ops.reads : In(r, "rows")}]
  /\ UNCHANGED guardVars

\* Mutant of Gathered: the results are not looked at for exceptions.
GatheredUnchecked ==
  /\ At({"context"}, "postgres")
  /\ \A r \in ops.reads : Ended(r)
  /\ ops' = [ops EXCEPT !.pc = "redis", !.answer = {r \in ops.reads : In(r, "rows")} \cup
                          {"exception" : r \in {x \in ops.reads : In(x, "failed")}}]
  /\ UNCHANGED guardVars

\* All of them have ended: rows are taken, exceptions are dropped without a note.
Gathered ==
  /\ At({"context"}, "postgres")
  /\ \A r \in ops.reads : Ended(r)
  /\ ops' = [ops EXCEPT !.pc = "redis", !.answer = {r \in ops.reads : In(r, "rows")}]
  /\ UNCHANGED guardVars

\* The client is missing, or one of the two commands gives a value, or none does.
Redis ==
  /\ At({"context"}, "redis")
  /\ \E got \in {{}, {"redis"}, {"redis_note"}} :
       ops' = [ops EXCEPT !.pc = "answered", !.answer = @ \cup got]
  /\ UNCHANGED guardVars

-----------------------------------------------------------------------------
(* ops.run_investigation *)

FirstRead(kind) ==
  CASE kind = "transaction_review" -> "transaction"
    [] kind = "case_triage" -> "case"
    [] kind = "velocity_check" -> "velocity"

\* The pool and the first table are there, or the answer is partial at once.
Run(kind) ==
  /\ ops = Idle
  /\ \/ /\ ops' = [kind |-> kind, pc |-> "postgres", reads |-> {FirstRead(kind)}, answer |-> {}]
        /\ Begin(FirstRead(kind), FirstRead(kind))
     \/ /\ ops' = [kind |-> kind, pc |-> "answered", reads |-> {}, answer |-> {"partial"}]
        /\ UNCHANGED guardVars

Answered(answer) == ops' = [ops EXCEPT !.pc = "answered", !.answer = answer]

\* The one read of a triage or a velocity check has ended.
Triaged ==
  /\ At({"case_triage", "velocity_check"}, "postgres")
  /\ \E r \in ops.reads :
       \/ In(r, "rows") /\ Answered({r})
       \/ In(r, "nothing") /\ Answered({})
       \/ In(r, "failed") /\ Answered({"partial"})
  /\ UNCHANGED guardVars

\* A review reads the decisions of the transaction it has found.  The record may lack
\* its id and the decisions table may be misconfigured; nothing found ends it.
Found ==
  /\ At({"transaction_review"}, "postgres") /\ ops.reads = {"transaction"}
  /\ \/ /\ In("transaction", "rows")
        /\ ops' = [ops EXCEPT !.reads = @ \cup {"decisions"}]
        /\ Begin("decisions", "decisions")
     \/ /\ In("transaction", "rows") \/ In("transaction", "failed")
        /\ Answered({"partial"}) /\ UNCHANGED guardVars
     \/ In("transaction", "nothing") /\ Answered({}) /\ UNCHANGED guardVars

\* Mutant of Reviewed: the transaction is put into the result as soon as it is there.
ReviewedHalf ==
  /\ At({"transaction_review"}, "postgres") /\ "decisions" \in ops.reads /\ Ended("decisions")
  /\ Answered({"transaction"} \cup
              IF In("decisions", "failed") THEN {"partial"} ELSE {"decisions"})
  /\ UNCHANGED guardVars

\* The decisions, an empty list too, complete the review; without them the
\* transaction is dropped.
Reviewed ==
  /\ At({"transaction_review"}, "postgres") /\ "decisions" \in ops.reads /\ Ended("decisions")
  /\ Answered(IF In("decisions", "failed") THEN {"partial"} ELSE {"transaction", "decisions"})
  /\ UNCHANGED guardVars

\* The answer is sent, or the call is cancelled with its reads where they stand.
Reply ==
  /\ ops # Idle
  /\ ops' = Idle
  /\ call' = [c \in Calls |-> IF c \in Reads THEN None ELSE call[c]]
  /\ UNCHANGED <<mode, plan, cache, seen>>

-----------------------------------------------------------------------------
\* A postgres.query_readonly of another client, of any text: one of the ops tools too.
Client(c) == (\E q \in Queries : Begin(c, q)) \/ Leave(c)

Next ==
  \/ Context \/ (\E r \in Reads : Gather(r)) \/ Gathered \/ Redis
  \/ (\E kind \in Kinds \ {"context"} : Run(kind)) \/ Triaged \/ Found \/ Reviewed
  \/ Reply
  \/ (\E c \in Calls : Advance(c)) /\ UNCHANGED ops
  \/ (\E c \in Calls \ Reads : Client(c)) /\ UNCHANGED ops
  \/ (\E q \in Planned : Migrate(q)) /\ UNCHANGED ops

Spec == Init /\ [][Next]_vars

-----------------------------------------------------------------------------
(* What the ops tools promise. *)

Data == ops.answer \ Notes

\* The context names a source exactly when the read of it gave rows, whatever became
\* of the other reads, and says that PostgreSQL is unavailable exactly when it was
\* not asked: no answer has both.  What it names, the guard had let through.
SourcesExact ==
  At({"context"}, "answered") =>
    /\ \A r \in Reads : r \in ops.answer <=> (r \in ops.reads /\ In(r, "rows"))
    /\ "db_note" \in ops.answer <=> ops.reads = {}
    /\ \A r \in Reads \cap ops.answer : mode # "open" => mode = "listed" /\ PermittedOnce(call[r].sql)

\* A read that the investigation needed failed or was never made: there was no pool or
\* no table for the first, or no id or no table to read the decisions of a transaction.
Incomplete ==
  \/ ops.reads = {}
  \/ \E r \in ops.reads : In(r, "failed")
  \/ ops.reads = {"transaction"} /\ In("transaction", "rows")

\* A structured investigation is all or nothing: it is partial exactly when a read it
\* needed failed or could not be made, and then it holds no data; otherwise it holds
\* what every read has given, and a transaction comes with its decisions.
WholeOrPartial ==
  (ops.kind # "context" /\ ops.pc = "answered") =>
    /\ "partial" \in ops.answer <=> Incomplete
    /\ "partial" \in ops.answer => Data = {}
    /\ "partial" \notin ops.answer => {r \in ops.reads : In(r, "rows")} \subseteq Data
    /\ "transaction" \in Data <=> "decisions" \in Data
=============================================================================

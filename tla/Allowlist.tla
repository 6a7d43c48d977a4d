----------------------------- MODULE Allowlist -----------------------------
(***************************************************************************)
(* What the query guard promises, without a cache, an EXPLAIN or a plan    *)
(* that a call carries with it: each call is judged once, at once or after *)
(* it was suspended, by relations that a text with the key of its query    *)
(* has been told to read at some time.                                     *)
(* The actions relate doing' to doing and are not meant to be explored.    *)
(***************************************************************************)
CONSTANTS
  Queries,    \* query texts
  Key,        \* what makes texts alike to the guard
  Unsafe,     \* those that are never run
  Masked,     \* those that are not run under an allowlist
  Simple,     \* those of the others that it reads by itself, without a plan
  Told,       \* what it takes them to read
  Plans,      \* the sets of relations a text may be said to read
  Permitted,  \* the relations of the allowlist
  Calls,      \* slots for concurrent calls
  Free        \* an unused slot

VARIABLES
  mode,   \* no allowlist, one, or one required but missing
  was,    \* the plans that each of the other texts has had
  doing   \* the query of each call, and where it stands

vars == <<mode, was, doing>>

Planned == Queries \ (Unsafe \cup Masked \cup Simple)

Init ==
  /\ mode \in {"open", "listed", "blocked"}
  /\ was \in [Planned -> {{relations} : relations \in Plans}]
  /\ doing = [c \in Calls |-> Free]

Positions == [sql : Queries, pc : {"asked", "running", "rows", "nothing", "failed"}]

\* What the texts with a key have been told to read.
Heard(key) ==
  {Told[q] : q \in {s \in Simple : Key[s] = key}}
    \cup UNION {was[q] : q \in {s \in Planned : Key[s] = key}}

Lets(relations) == relations # {} /\ relations \subseteq Permitted

MayRun(q) ==
  /\ q \notin Unsafe
  /\ mode # "blocked"
  /\ mode = "listed" => q \notin Masked /\ \E relations \in Heard(Key[q]) : Lets(relations)

MayRefuse(q) ==
  \/ q \in Unsafe
  \/ mode = "blocked"
  \/ mode = "listed" /\ (q \in Masked \/ \E relations \in Heard(Key[q]) : ~Lets(relations))

\* Where a call may be after v, by itself: a new one is let through, refused for a
\* reason, or suspended; a suspended one is let through or fails; and a query that was
\* let through ends, once.
Follows(v, w) ==
  \/ v = Free /\ w.pc = "running" /\ MayRun(w.sql)
  \/ v = Free /\ w.pc = "failed" /\ MayRefuse(w.sql)
  \/ v = Free /\ w.pc = "asked" /\ w.sql \notin Unsafe \cup Masked /\ mode = "listed"
  \/ v # Free /\ v.pc = "asked" /\ w.pc = "running" /\ MayRun(w.sql) /\ w.sql = v.sql
  \/ v # Free /\ v.pc = "asked" /\ w.pc = "failed" /\ w.sql = v.sql
  \/ v # Free /\ v.pc = "running" /\ w.pc \in {"rows", "nothing", "failed"} /\ w.sql = v.sql

Proceed(c) ==
  /\ UNCHANGED <<mode, was>>
  /\ doing'[c] \in Positions /\ Follows(doing[c], doing'[c])
  /\ doing' = [doing EXCEPT ![c] = doing'[c]]

\* Some calls are over, wherever they stand.
Leave ==
  /\ UNCHANGED <<mode, was>>
  /\ doing' = [c \in Calls |-> IF doing'[c] = Free THEN Free ELSE doing[c]]

\* A text reads other relations than before.
Change ==
  /\ UNCHANGED <<mode, doing>>
  /\ \E q \in Planned, relations \in Plans : was' = [was EXCEPT ![q] = @ \cup {relations}]

Next ==
  \/ \E c \in Calls : Proceed(c)
  \/ Leave
  \/ Change

Spec == Init /\ [][Next]_vars
=============================================================================

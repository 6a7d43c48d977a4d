----------------------------- MODULE QueryGuard -----------------------------
(***************************************************************************)
(* The allowlist guard of app/domains/postgres.py with its cache of the    *)
(* relations each query reads: _enforce_query_allowlists, run by every     *)
(* postgres.query_readonly and every query of the ops tools before the     *)
(* query itself.  Calls are coroutines of one event loop; the relations of *)
(* a query that the regular expressions cannot read come from an EXPLAIN,  *)
(* and the catalog may change meanwhile.                                   *)
(*                                                                         *)
(* The cache knows a text by its key, what _normalize_sql_for_cache makes  *)
(* of it.  Texts that differ in white space share a key although a newline *)
(* may end a comment in one of them.  What the regular expressions tell of *)
(* a text is a constant of its own: they miss a relation after a comma, in *)
(* quotes or in a subquery that is not written "(SELECT", and do not ask   *)
(* for an EXPLAIN when they have found another.  A relation stands for a   *)
(* schema-qualified table.                                                 *)
(***************************************************************************)
EXTENDS Naturals, Sequences, FiniteSets

CONSTANTS
  Queries,    \* query texts
  Key,        \* the key of each text in the cache
  Unsafe,     \* those _validate_sql refuses
  Masked,     \* those with a forbidden keyword inside a literal or a comment
  Simple,     \* those of the others in which _extract_tables_from_sql finds a relation
  Told,       \* the relations that it finds in them, right or wrong
  Relations,  \* tables and views
  Plans,      \* the sets of relations that a text may be said to read
  Catalog,    \* those an EXPLAIN of a text may name: several through a view
  Permitted,  \* those the configured allowlists let through
  Calls,      \* slots for concurrent calls
  Max,        \* _RELATION_CACHE_MAX
  None        \* an unused slot

\* The texts whose relations an EXPLAIN tells.
Planned == Queries \ (Unsafe \cup Masked \cup Simple)

ASSUME SetsAssumption == /\ Masked \cup Unsafe \subseteq Queries
                         /\ Simple \subseteq Queries \ (Unsafe \cup Masked)
                         /\ Permitted \subseteq Relations
                         /\ Plans \subseteq SUBSET Relations
ASSUME TextsAssumption == /\ DOMAIN Key = Queries
                          /\ Told \in [Simple -> Plans \ {{}}]
                          /\ Catalog \in [Planned -> SUBSET Plans]
ASSUME MaxAssumption == Max \in Nat \ {0}

VARIABLES
  mode,   \* what the settings say: no allowlist, one, or one required but missing
  plan,   \* the relations an EXPLAIN of each planned text would tell now
  cache,  \* _RELATION_CACHE in insertion order
  call,   \* the calls
  seen    \* what an EXPLAIN of each would have told at some time (history)

guardVars == <<mode, plan, cache, call, seen>>

Entries == [key : {Key[q] : q \in Queries}, relations : Plans]

Outcomes == {"rows", "nothing", "failed"}
GuardCalls == [sql : Queries, pc : {"explaining", "explained", "executing"} \cup Outcomes,
               relations : SUBSET Relations]

ASSUME CallsAssumption ==
  None \notin GuardCalls \cup [sql : Queries, pc : {"asked", "running"} \cup Outcomes]

GuardTypeOK ==
  /\ mode \in {"open", "listed", "blocked"}
  /\ plan \in [Planned -> Plans]
  /\ cache \in Seq(Entries)
  /\ call \in [Calls -> GuardCalls \cup {None}]
  /\ seen \in [Planned -> SUBSET Plans]

GuardInit ==
  /\ mode \in {"open", "listed", "blocked"}
  /\ plan \in [Planned -> Plans] /\ \A q \in Planned : plan[q] \in Catalog[q]
  /\ cache = <<>>
  /\ call = [c \in Calls |-> None]
  /\ seen = [q \in Planned |-> {plan[q]}]

-----------------------------------------------------------------------------
(* The cache. *)

Cached(q) == {i \in DOMAIN cache : cache[i].key = Key[q]}

\* The cache after a store.  A full one loses its oldest entry, even if the key is
\* there already; a dict keeps the place of a key it has.
Stored(q, relations) ==
  LET room == IF Len(cache) >= Max THEN Tail(cache) ELSE cache
      entry == [key |-> Key[q], relations |-> relations]
  IN  IF \E i \in DOMAIN room : room[i].key = Key[q]
      THEN [i \in DOMAIN room |-> IF room[i].key = Key[q] THEN entry ELSE room[i]]
      ELSE Append(room, entry)

\* Mutant of Allowed: a query without a relation is let through.
AllowedEmpty(relations) == relations \subseteq Permitted

\* The loop over the relations, and the refusal of a query without any.
Allowed(relations) == relations # {} /\ relations \subseteq Permitted

Going(q, pc) == [sql |-> q, pc |-> pc, relations |-> {}]

\* A call whose relations are known goes on to its query or raises.
Judged(q, relations) == Going(q, IF Allowed(relations) THEN "executing" ELSE "failed")

-----------------------------------------------------------------------------
(* A call. *)

\* The relations are known without an await: a text with its key is cached, or the
\* regular expressions find one in it.
Known(c, q) ==
  \/ /\ Cached(q) # {}
     /\ \E i \in Cached(q) : call' = [call EXCEPT ![c] = Judged(q, cache[i].relations)]
     /\ UNCHANGED cache
  \/ /\ Cached(q) = {} /\ q \in Simple
     /\ call' = [call EXCEPT ![c] = Judged(q, Told[q])]
     /\ cache' = Stored(q, Told[q])

\* A call starts its query and runs to its first await, or raises before it: the
\* text is unsafe, no allowlist is there to check it with, or it names a keyword.
Begin(c, q) ==
  /\ call[c] = None
  /\ LET Goes(pc) == call' = [call EXCEPT ![c] = Going(q, pc)] /\ UNCHANGED cache
     IN  \/ q \in Unsafe /\ Goes("failed")
         \/ q \notin Unsafe /\ mode = "open" /\ Goes("executing")
         \/ q \notin Unsafe /\ mode = "blocked" /\ Goes("failed")
         \/ /\ q \notin Unsafe /\ mode = "listed"
            /\ \/ q \in Masked /\ Goes("failed")
               \/ q \notin Masked /\ Known(c, q)
               \/ q \notin Masked \cup Simple /\ Cached(q) = {} /\ Goes("explaining")
  /\ UNCHANGED <<mode, plan, seen>>

In(c, pc) == call[c] # None /\ call[c].pc = pc

\* The database plans the EXPLAIN with the catalog of this moment.
Explain(c) ==
  /\ In(c, "explaining")
  /\ call' = [call EXCEPT ![c].pc = "explained", ![c].relations = plan[call[c].sql]]
  /\ UNCHANGED <<mode, plan, cache, seen>>

\* The plan reaches the gateway: it is cached, whatever another call has cached under
\* the key meanwhile, and the query judged by it.
Explained(c) ==
  /\ In(c, "explained")
  /\ cache' = Stored(call[c].sql, call[c].relations)
  /\ call' = [call EXCEPT ![c] = Judged(call[c].sql, call[c].relations)]
  /\ UNCHANGED <<mode, plan, seen>>

\* Mutant of ExplainFails: a failed EXPLAIN is cached as a query without relations.
ExplainFailsCached(c) ==
  /\ In(c, "explaining") \/ In(c, "explained")
  /\ call' = [call EXCEPT ![c] = Going(call[c].sql, "failed")]
  /\ cache' = Stored(call[c].sql, {})
  /\ UNCHANGED <<mode, plan, seen>>

\* It does not: nothing is cached.
ExplainFails(c) ==
  /\ In(c, "explaining") \/ In(c, "explained")
  /\ call' = [call EXCEPT ![c] = Going(call[c].sql, "failed")]
  /\ UNCHANGED <<mode, plan, cache, seen>>

\* The query itself returns rows, no row, or an exception.
Execute(c) ==
  /\ In(c, "executing")
  /\ \E outcome \in Outcomes : call' = [call EXCEPT ![c].pc = outcome]
  /\ UNCHANGED <<mode, plan, cache, seen>>

\* A step of a call that has begun.
Advance(c) == Explain(c) \/ Explained(c) \/ ExplainFails(c) \/ Execute(c)

\* postgres.query_readonly answers, or is cancelled where it stands.
Leave(c) ==
  /\ call[c] # None
  /\ call' = [call EXCEPT ![c] = None]
  /\ UNCHANGED <<mode, plan, cache, seen>>

\* Somebody changes a view or the search path: the text reads other relations.
Migrate(q) ==
  /\ \E relations \in Catalog[q] \ {plan[q]} :
       /\ plan' = [plan EXCEPT ![q] = relations]
       /\ seen' = [seen EXCEPT ![q] = @ \cup {relations}]
  /\ UNCHANGED <<mode, cache, call>>

GuardNext ==
  \/ \E c \in Calls : Advance(c) \/ Leave(c) \/ \E q \in Queries : Begin(c, q)
  \/ \E q \in Planned : Migrate(q)

GuardSpec == GuardInit /\ [][GuardNext]_guardVars

-----------------------------------------------------------------------------
(* What the guard promises. *)

\* However the calls share the cache, the guard decides each of them as the allowlist
\* without one: by relations that a text with its key has been told to read since the
\* process started, by the regular expressions or by an EXPLAIN, never letting through
\* what is unsafe or cannot be checked, and refusing on the spot only with a reason.  No
\* more is true: the catalog may have moved on, the text may have another's verdict,
\* and the expressions may have missed a relation.
List == INSTANCE Allowlist WITH
  Free <- None,
  was <- seen,
  doing <- [c \in Calls |->
              IF call[c] = None THEN None
              ELSE [sql |-> call[c].sql,
                    pc |-> CASE call[c].pc \in {"explaining", "explained"} -> "asked"
                             [] call[c].pc = "executing" -> "running"
                             [] OTHER -> call[c].pc]]

GuardImplementsAllowlist == List!Spec

\* However many calls miss a key at once and come back in any order, the cache holds at
\* most Max keys, each of them once; and the relations that it has for a key, a text
\* with that key has been told to read at some time: never those of another key or
\* what a failed EXPLAIN left.
CacheSound ==
  /\ Len(cache) <= Max
  /\ \A i, j \in DOMAIN cache : cache[i].key = cache[j].key => i = j
  /\ \A i \in DOMAIN cache : cache[i].relations \in List!Heard(cache[i].key)

\* Relations that were permitted together when a text with the key of q was told to
\* read them.
PermittedOnce(q) == \E relations \in List!Heard(Key[q]) : Allowed(relations)

\* Under an allowlist no query runs unless the relations that some text with its key was
\* told to read, at some time since the process started, were all permitted.
RunsWereAllowed ==
  \A c \in Calls : (In(c, "executing") /\ mode # "open") => PermittedOnce(call[c].sql)
=============================================================================

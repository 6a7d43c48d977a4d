---------------------------- MODULE AuditedAccess ----------------------------
(***************************************************************************)
(* What the pipeline promises its clients and the auditor, without layers, *)
(* contexts, tokens or exceptions: a request is refused, or let in and     *)
(* served; it is answered at most once, and observed once, at its end.     *)
(* Tools run for requests that are being served, each for the caller and   *)
(* with a scope of the request that called it, and leave a record.         *)
(***************************************************************************)
EXTENDS Naturals

CONSTANTS
  Scopes,  \* the scopes that tools ask for
  None     \* no caller, answer, status, tool, outcome or record

VARIABLES
  request,  \* the request served now, or last: its stage and its caller
  answer,   \* what it was answered
  counted,  \* what it was counted as refused for
  seen,     \* the status it was observed with
  tool      \* the tool that was called last

reply == <<answer, counted, seen>>
vars == <<request, reply, tool>>

Init ==
  /\ request = [id |-> 0, path |-> "probe", stage |-> "done", caller |-> None]
  /\ answer = None /\ counted = {} /\ seen = 500
  /\ tool = None

\* Every answer has each security header once.
Answer(status) == [status |-> status, headers |-> 1]

Goes(stage, caller) ==
  request' = [id |-> request.id, path |-> request.path, stage |-> stage, caller |-> caller]

\* A request comes; one that declares too long a body is answered at once.
Begin ==
  /\ request.stage = "done"
  /\ \E path \in {"probe", "mcp"}, stage \in {"asking", "leaving"} :
       /\ request' = [id |-> 1 - request.id, path |-> path, stage |-> stage, caller |-> None]
       /\ answer' = IF stage = "asking" THEN None ELSE Answer(413)
       /\ counted' = IF stage = "asking" THEN {} ELSE {"too_large"}
  /\ seen' = None
  /\ UNCHANGED tool

\* What a request is told that is not let in, and what it is counted as.
Verdicts == {<<400, {}>>, <<401, {"unauthorized"}>>,
             <<503, {"jwks_unavailable"}>>, <<429, {"rate_limited"}>>}

\* No probe is refused.
Refuse ==
  /\ request.stage = "asking" /\ request.path = "mcp" /\ Goes("leaving", None)
  /\ \E verdict \in Verdicts : answer' = Answer(verdict[1]) /\ counted' = verdict[2]
  /\ UNCHANGED <<seen, tool>>

\* A probe is let in without a caller, another request with its own.
Admit ==
  /\ request.stage = "asking"
  /\ \/ request.path = "probe" /\ Goes("served", None)
     \/ /\ request.path = "mcp"
        /\ \E scopes \in SUBSET Scopes :
             Goes("served", [of |-> request.id, scopes |-> scopes])
  /\ UNCHANGED <<reply, tool>>

\* Only a request that is being served is answered with a result; a probe may be told
\* that a backend is not ready.
Serve ==
  /\ request.stage = "served"
  /\ answer = None
  /\ \/ answer' \in {Answer(200), Answer(404)}
     \/ request.path = "probe" /\ answer' = Answer(503)
  /\ UNCHANGED <<request, counted, seen, tool>>

\* The request is over, complete, cancelled or with an exception.
Depart ==
  /\ request.stage \in {"asking", "served"} /\ Goes("leaving", None)
  /\ UNCHANGED <<reply, tool>>

\* It fails while it is served, before it is answered.
Fail ==
  /\ request.stage = "served" /\ Goes("leaving", None)
  /\ answer = None /\ answer' = Answer(500)
  /\ UNCHANGED <<counted, seen, tool>>

\* Its body was too large, which it is told unless it has an answer; nothing that was
\* refused for another reason is counted here.
Cut ==
  /\ request.stage = "leaving" /\ request.path = "mcp"
  /\ counted = {} /\ counted' = {"too_large"}
  /\ answer' = IF answer = None THEN Answer(413) ELSE answer
  /\ UNCHANGED <<request, seen, tool>>

Observe ==
  /\ request.stage = "leaving" /\ Goes("done", None)
  /\ seen' = IF "too_large" \in counted THEN 413
             ELSE IF answer = None THEN 500 ELSE answer.status
  /\ UNCHANGED <<answer, counted, tool>>

\* A tool runs, when the last one has ended, for the caller of a request that is
\* being served.
Call ==
  /\ request.stage = "served" /\ request.caller # None
  /\ tool # None => tool.outcome # None
  /\ \E needs \in request.caller.scopes :
       tool' = [of |-> request.id, admitted |-> TRUE, needs |-> needs,
                caller |-> request.caller, outcome |-> None, log |-> None]
  /\ UNCHANGED <<request, reply>>

\* It ends, sooner or later than its request, and is recorded with whom it ran for.
Record ==
  /\ tool # None /\ tool.outcome = None
  /\ \E outcome \in {"returned", "raised", "raised_silent", "cancelled"},
        event \in {"tool_ok", "tool_error"} :
       tool' = [tool EXCEPT
                  !.outcome = outcome,
                  !.log = [caller |-> tool.caller, request |-> tool.of,
                           success |-> outcome \in {"returned", "cancelled"},
                           event |-> event]]
  /\ UNCHANGED <<request, reply>>

Next ==
  \/ Begin \/ Refuse \/ Admit \/ Serve \/ Depart \/ Fail \/ Cut \/ Observe
  \/ Call \/ Record

Spec == Init /\ [][Next]_vars
=============================================================================

-------------------------- MODULE RequestPipeline --------------------------
(***************************************************************************)
(* One request after another through the middlewares of app/main.py, in    *)
(* the order create_app stacks them: observability, size limit, transport  *)
(* security, authentication, application.  A tool that the application     *)
(* runs goes through require_scope and audit_tool; it is a task with a     *)
(* copy of the context, and may outlive its request.                       *)
(*                                                                         *)
(* A request goes in through the layers, may be cancelled at any await,    *)
(* and leaves through the same layers, with an exception or without.       *)
(***************************************************************************)
EXTENDS Naturals

CONSTANTS
  Scopes,     \* the scopes that tools ask for
  None        \* no caller, request id, token, response, status, tool or log

VARIABLES
  skipJwt,   \* settings.skip_jwt_validation, local development only
  ctx,       \* _auth_context and _request_context where requests are served
  req,       \* the request served now, or last
  tool       \* the tool that was called last

vars == <<skipJwt, ctx, req, tool>>

Ids == {0, 1}  \* request ids: consecutive requests differ
Statuses == {200, 400, 401, 404, 413, 429, 500, 503}
Refusals == {"unauthorized", "jwks_unavailable", "rate_limited", "too_large"}
Callers == [of : Ids, scopes : SUBSET Scopes]  \* of: the request authenticated

Contexts == [caller : Callers \cup {None}, meta : Ids \cup {None}]

\* Positions inside the layers, and on the way out of each.
Points == {"idle", "transport", "auth", "limit", "app", "leaveAuth", "leaveSize", "leave"}

Messages == [status : Statuses, headers : Nat]

\* headers: copies of each security header.  counted: the refusal counters that
\* the request has incremented.  http: the status observed, None until it is.
Requests == [id : Ids, pc : Points, path : {"probe", "mcp"}, over : BOOLEAN,
             read : BOOLEAN, admitted : BOOLEAN,
             callerToken : {<<>>} \cup {<<c>> : c \in Contexts},
             metaToken : {<<>>} \cup {<<c>> : c \in Contexts},
             exc : {None, "too_large", "error", "cancelled"},
             sent : Messages \cup {None}, observed : Statuses,
             http : Statuses \cup {None}, counted : SUBSET Refusals]

Outcomes == {"returned", "raised", "raised_silent", "cancelled"}

Logs == [caller : Callers, request : Ids, success : BOOLEAN,
         event : {"tool_ok", "tool_error"}]

\* A tool run: who called it, in which request, and its audit record.
Tools == [of : Ids, admitted : BOOLEAN, needs : Scopes, caller : Callers,
          outcome : Outcomes \cup {None}, log : Logs \cup {None}]

ASSUME NoneAssumption ==
  /\ None \notin Callers /\ None \notin Messages /\ None \notin Logs /\ None \notin Tools
  /\ None \notin Outcomes \cup {"too_large", "error", "cancelled"}

TypeOK ==
  /\ skipJwt \in BOOLEAN
  /\ ctx \in Contexts
  /\ req \in Requests
  /\ tool \in Tools \cup {None}

NoContext == [caller |-> None, meta |-> None]

\* A request as the observability layer starts it: 500 until a response starts.
Fresh(id, path, over) ==
  [id |-> id, pc |-> "transport", path |-> path, over |-> over, read |-> FALSE,
   admitted |-> FALSE, callerToken |-> <<>>, metaToken |-> <<>>, exc |-> None,
   sent |-> None, observed |-> 500, http |-> None, counted |-> {}]

Init ==
  /\ skipJwt \in BOOLEAN
  /\ ctx = NoContext
  /\ req = [Fresh(0, "probe", FALSE) EXCEPT !.pc = "idle", !.http = 500]
  /\ tool = None

-----------------------------------------------------------------------------
(* Responses on their way to the client. *)

\* The status passes the observability layer before the server sees it; a server
\* that has started a response refuses a second one with an exception.
Send(q, status, headers) ==
  [q EXCEPT !.observed = status,
            !.sent = IF @ = None THEN [status |-> status, headers |-> headers] ELSE @,
            !.exc = IF q.sent = None THEN @ ELSE "error"]

\* _add_security_headers adds what is missing.
AddSecurityHeaders(headers) == IF headers = 0 THEN 1 ELSE headers

\* A refusal of a layer inside the size limit, which has the headers already.
Refuse(q, status) == Send(q, status, AddSecurityHeaders(1))

\* A response of the application: authentication wraps send except for probes.
Respond(q, status) ==
  LET inner == IF q.path = "probe" THEN 0 ELSE AddSecurityHeaders(0)
  IN  Send(q, status, AddSecurityHeaders(inner))

Count(q, refusal) == [q EXCEPT !.counted = @ \cup {refusal}]

-----------------------------------------------------------------------------
(* Inwards. *)

\* A request comes: a declared length over the limit is refused at once, one
\* within it is enforced by the server, and none, or one that is no number,
\* leaves the body to be counted.
Arrive ==
  /\ req.pc = "idle"
  /\ \E path \in {"probe", "mcp"}, length \in {"over", "within", "none"}, over \in BOOLEAN :
       /\ length # "none" => over = (length = "over")
       /\ LET q == Fresh(1 - req.id, path, over)
          IN  req' = IF length = "over"
                     THEN [Send(Count(q, "too_large"), 413, 1) EXCEPT !.pc = "leave"]
                     ELSE q
  /\ UNCHANGED <<skipJwt, ctx, tool>>

\* McpTransportSecurityMiddleware, then the start of AuthMiddleware: the request
\* context is set, and the probes' paths skip authentication.
Transport ==
  /\ req.pc = "transport"
  /\ \/ /\ req.path = "mcp"
        /\ req' = [Refuse(req, 400) EXCEPT !.pc = "leaveSize"]
        /\ UNCHANGED ctx
     \/ /\ ctx' = [ctx EXCEPT !.meta = req.id]
        /\ req' = [req EXCEPT !.metaToken = <<ctx>>,
                              !.pc = IF req.path = "probe" THEN "app" ELSE "auth"]
  /\ UNCHANGED <<skipJwt, tool>>

\* Mutant of Rejected: an outage is answered as one and counted as a bad token.
RejectedAsOne(q, refusal) ==
  Count(Refuse(q, IF refusal = "unauthorized" THEN 401 ELSE 503), "unauthorized")

\* Mutant of Rejected: a bad token is answered with 403.
RejectedForbidden(q, refusal) ==
  Count([Refuse(q, 503) EXCEPT !.observed = IF refusal = "unauthorized" THEN 403 ELSE @],
        refusal)

\* The two except clauses of AuthMiddleware.
Rejected(q, refusal) ==
  Count(Refuse(q, IF refusal = "unauthorized" THEN 401 ELSE 503), refusal)

\* authenticate_request: the local identity holds every scope, a token those of
\* its claims.  Another exception than the two kinds is not answered here.
Authenticate ==
  /\ req.pc = "auth"
  /\ \/ \E scopes \in SUBSET Scopes :
          /\ skipJwt => scopes = Scopes
          /\ ctx' = [ctx EXCEPT !.caller = [of |-> req.id, scopes |-> scopes]]
          /\ req' = [req EXCEPT !.callerToken = <<ctx>>, !.pc = "limit"]
     \/ /\ ~skipJwt
        /\ \/ \E refusal \in {"unauthorized", "jwks_unavailable"} :
                req' = [Rejected(req, refusal) EXCEPT !.pc = "leaveAuth"]
           \/ req' = [req EXCEPT !.exc = "error", !.pc = "leaveAuth"]
        /\ UNCHANGED ctx
  /\ UNCHANGED <<skipJwt, tool>>

Limited(q) == Count(Refuse(q, 429), "rate_limited")

\* Mutant of Limit: the return after the refusal is missing.
LimitGoesOn ==
  /\ req.pc = "limit"
  /\ \/ req' = [req EXCEPT !.admitted = TRUE, !.pc = "app"]
     \/ req' = [Limited(req) EXCEPT !.pc = "app"]
  /\ UNCHANGED <<skipJwt, ctx, tool>>

\* check_rate_limit answers.
Limit ==
  /\ req.pc = "limit"
  /\ \/ req' = [req EXCEPT !.admitted = TRUE, !.pc = "app"]
     \/ req' = [Limited(req) EXCEPT !.pc = "leaveAuth"]
  /\ UNCHANGED <<skipJwt, ctx, tool>>

-----------------------------------------------------------------------------
(* The application: the routes of create_app and the mounted MCP server. *)

\* An exception that leaves Starlette has been answered with a 500 by its
\* outermost middleware, unless a response had started.
Escape(q, exc) ==
  [(IF q.sent = None THEN Respond(q, 500) ELSE q) EXCEPT !.exc = exc, !.pc = "leaveAuth"]

\* The application reads the body to its end.  limited_receive raises when it is
\* over the limit; the application lets the exception through or handles it.
AppReads ==
  /\ req.pc = "app" /\ req.path = "mcp" /\ ~req.read
  /\ \/ req' = [req EXCEPT !.read = TRUE]
     \/ req.over /\ req' = Escape(req, "too_large")
  /\ UNCHANGED <<skipJwt, ctx, tool>>

\* What the application answers by itself: results, errors of the client's and, by
\* the readiness route only, that a backend is not ready.
AppStatuses(path) == IF path = "probe" THEN {200, 404, 503} ELSE {200, 404}

\* It starts a response, of a route or of the MCP server.
AppResponds ==
  /\ req.pc = "app" /\ req.sent = None
  /\ \E status \in AppStatuses(req.path) : req' = Respond(req, status)
  /\ UNCHANGED <<skipJwt, ctx, tool>>

\* get_caller in a context.
GetCaller(c) ==
  IF c.caller # None THEN <<c.caller>>
  ELSE IF skipJwt THEN <<[of |-> req.id, scopes |-> Scopes]>> ELSE <<>>

\* A tool call: require_scope asks _check_scope, which finds no caller, or one
\* without the scope and raises, or lets audit_tool run the tool.
AppCallsTool ==
  /\ req.pc = "app" /\ req.path = "mcp" /\ req.read /\ ~req.over
  /\ tool # None => tool.outcome # None
  /\ \E needs \in Scopes :
       /\ GetCaller(ctx) # <<>> /\ needs \in GetCaller(ctx)[1].scopes
       /\ tool' = [of |-> req.id, admitted |-> req.admitted, needs |-> needs,
                   caller |-> GetCaller(ctx)[1], outcome |-> None, log |-> None]
  /\ UNCHANGED <<skipJwt, ctx, req>>

\* The response is complete.
AppReturns ==
  /\ req.pc = "app" /\ req.sent # None
  /\ req' = [req EXCEPT !.pc = "leaveAuth"]
  /\ UNCHANGED <<skipJwt, ctx, tool>>

AppRaises ==
  /\ req.pc = "app"
  /\ req' = Escape(req, "error")
  /\ UNCHANGED <<skipJwt, ctx, tool>>

\* Mutant of Audited: the caller and the request are looked up when the tool has
\* ended, in a context that is not the tool's own.
AuditedLate(t, outcome) ==
  IF GetCaller(ctx) = <<>> THEN None
  ELSE [caller |-> GetCaller(ctx)[1],
        request |-> IF ctx.meta = None THEN t.of ELSE ctx.meta,
        success |-> outcome \in {"returned", "cancelled"},
        event |-> IF outcome = "raised" THEN "tool_error" ELSE "tool_ok"]

\* The finally of audit_tool, with what it took from the context at the start.
\* CancelledError is no Exception; an exception without a text is a failure to
\* the metric and the record but is logged as tool_ok.
Audited(t, outcome) ==
  [caller |-> t.caller, request |-> t.of,
   success |-> outcome \in {"returned", "cancelled"},
   event |-> IF outcome = "raised" THEN "tool_error" ELSE "tool_ok"]

ToolEnds ==
  /\ tool # None /\ tool.outcome = None
  /\ \E outcome \in Outcomes :
       tool' = [tool EXCEPT !.outcome = outcome, !.log = Audited(tool, outcome)]
  /\ UNCHANGED <<skipJwt, ctx, req>>

-----------------------------------------------------------------------------
(* Outwards. *)

\* The request is cancelled at an await, a send included.
Cancel ==
  /\ req.pc # "idle" /\ req.exc = None
  /\ req' = [req EXCEPT !.exc = "cancelled",
                        !.pc = CASE req.pc \in {"auth", "limit", "app"} -> "leaveAuth"
                                 [] req.pc = "transport" -> "leaveSize"
                                 [] OTHER -> req.pc]
  /\ UNCHANGED <<skipJwt, ctx, tool>>

\* What ctx becomes when a token is reset, if it was set.
Reset(c, q) ==
  [caller |-> IF q.callerToken = <<>> THEN c.caller ELSE q.callerToken[1].caller,
   meta |-> IF q.metaToken = <<>> THEN c.meta ELSE q.metaToken[1].meta]

\* Mutant of LeaveAuth: the contexts are reset after the application, not in a
\* finally.
LeaveAuthNoFinally ==
  /\ req.pc = "leaveAuth"
  /\ ctx' = IF req.exc = None THEN Reset(ctx, req) ELSE ctx
  /\ req' = [req EXCEPT !.pc = "leaveSize"]
  /\ UNCHANGED <<skipJwt, tool>>

\* The finally of AuthMiddleware.
LeaveAuth ==
  /\ req.pc = "leaveAuth"
  /\ ctx' = Reset(ctx, req)
  /\ req' = [req EXCEPT !.pc = "leaveSize"]
  /\ UNCHANGED <<skipJwt, tool>>

\* RequestSizeLimitMiddleware answers its own exception, if a response can start.
LeaveSize ==
  /\ req.pc = "leaveSize"
  /\ req' = [(IF req.exc = "too_large"
              THEN Send([Count(req, "too_large") EXCEPT !.exc = None], 413, 1)
              ELSE req) EXCEPT !.pc = "leave"]
  /\ UNCHANGED <<skipJwt, ctx, tool>>

\* Mutant of Leave: the request is observed when the application returns.
LeaveOnReturn ==
  /\ req.pc = "leave"
  /\ req' = [req EXCEPT !.http = IF req.exc = None THEN req.observed ELSE None,
                        !.pc = "idle"]
  /\ UNCHANGED <<skipJwt, ctx, tool>>

\* The finally of ObservabilityMiddleware.
Leave ==
  /\ req.pc = "leave"
  /\ req' = [req EXCEPT !.http = req.observed, !.pc = "idle"]
  /\ UNCHANGED <<skipJwt, ctx, tool>>

Next ==
  \/ Arrive \/ Transport \/ Authenticate \/ Limit
  \/ AppReads \/ AppResponds \/ AppCallsTool \/ AppReturns \/ AppRaises
  \/ ToolEnds \/ Cancel \/ LeaveAuth \/ LeaveSize \/ Leave

Spec == Init /\ [][Next]_vars

-----------------------------------------------------------------------------
(* What the pipeline promises. *)

Served == req.pc = "idle"

\* However a request ends, answered, refused, raising or cancelled at any await,
\* the next one finds the context as it was: no caller and no request id stay.
ContextRestored == Served => ctx = NoContext

\* No tool runs but for a request that the limiter let through, with the caller
\* whose token was accepted for that very request, holding the scope it needs.
ToolsAdmitted ==
  tool # None =>
    /\ tool.admitted
    /\ tool.caller.of = tool.of
    /\ tool.needs \in tool.caller.scopes

\* Every tool run that ended has a record, and the caller that the record names was let
\* in for the very request that it names, with the scope of the tool that ran, also when
\* the run outlived that request and ended while another was served.
AuditTrail ==
  (tool # None /\ tool.outcome # None) =>
    /\ tool.log # None
    /\ tool.admitted
    /\ tool.log.caller.of = tool.log.request
    /\ tool.needs \in tool.log.caller.scopes

\* Every request is observed, cancelled or raising ones too, with the status that
\* the client was sent, with 500 if it was sent none, and with 413 if its body
\* turned out too large, whatever the client had been sent by then.
ObservedStatus ==
  Served =>
    req.http = IF "too_large" \in req.counted THEN 413
               ELSE IF req.sent = None THEN 500 ELSE req.sent.status

RefusalStatus(refusal) ==
  CASE refusal = "unauthorized" -> 401
    [] refusal = "jwks_unavailable" -> 503
    [] refusal = "rate_limited" -> 429

\* What the client gets: whichever layer answers, each security header is there once;
\* a request is counted as refused by one layer at most, by the one whose answer the
\* client was sent, and a client of the MCP server that was sent the status of a refusal
\* was counted.  The readiness route may send a probe 503, which refuses nobody.
AnswersAgree ==
  /\ req.sent # None => req.sent.headers = 1
  /\ \A a, b \in req.counted : a = b
  /\ \A a \in req.counted \ {"too_large"} :
       req.sent # None /\ req.sent.status = RefusalStatus(a)
  /\ \A a \in Refusals \ {"too_large"} :
       (req.path = "mcp" /\ req.sent # None /\ req.sent.status = RefusalStatus(a))
         => a \in req.counted

\* Where the request stands to those outside, and for whom it is served.
Stage ==
  CASE req.pc \in {"transport", "auth", "limit"} -> "asking"
    [] req.pc = "app" -> "served"
    [] req.pc \in {"leaveAuth", "leaveSize", "leave"} -> "leaving"
    [] req.pc = "idle" -> "done"

Shown ==
  [id |-> req.id, path |-> req.path, stage |-> Stage,
   caller |-> IF req.pc = "app" THEN ctx.caller ELSE None]

Access ==
  INSTANCE AuditedAccess WITH
    request <- Shown, answer <- req.sent, counted <- req.counted, seen <- req.http

\* To a client and to the auditor the pipeline is AuditedAccess, however layers, exceptions,
\* cancellations and tools interleave: a result goes only to a request that was let in, a
\* refusal only to one that was not, and a tool and its record belong to the caller of the
\* request that is being served when it starts, though others are when it ends.
AccessImplemented == Access!Spec
=============================================================================

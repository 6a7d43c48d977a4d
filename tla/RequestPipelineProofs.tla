----------------------- MODULE RequestPipelineProofs -----------------------
(***************************************************************************)
(* The safety of the request pipeline for every set of scopes and any      *)
(* number of requests and tool runs.  The argument follows a request       *)
(* through the layers: CtxInv says what each layer has put into the        *)
(* context and holds a token to take out again, AnswerInv what each layer  *)
(* may already have answered and counted.                                  *)
(***************************************************************************)
EXTENDS RequestPipeline, TLAPS

Inner == {"auth", "limit", "app", "leaveAuth"}  \* inside AuthMiddleware
Inwards == {"transport", "auth", "limit", "app"}

\* Outside AuthMiddleware the context is empty.  Inside it holds the id of the
\* request, and its caller once authenticated; the tokens lead back to the empty one.
CtxInv ==
  /\ req.pc \notin Inner => ctx = NoContext
  /\ req.pc = "transport" => req.callerToken = <<>>
  /\ req.pc \in Inner =>
       /\ req.metaToken = <<NoContext>> /\ ctx.meta = req.id
       /\ req.callerToken = <<>> => ctx.caller = None
       /\ req.callerToken # <<>> =>
            /\ req.callerToken = <<[caller |-> None, meta |-> req.id]>>
            /\ ctx.caller # None /\ ctx.caller.of = req.id
  /\ req.pc = "auth" => req.callerToken = <<>>
  /\ req.pc = "limit" => req.callerToken # <<>>
  /\ (req.pc = "app" /\ req.path = "mcp") => req.admitted /\ req.callerToken # <<>>

\* On the way in nothing is refused, and only the application has answered; a body
\* that is too large is counted on the way out, by a request nobody has refused.
AnswerInv ==
  /\ req.pc \in Inwards => req.exc = None /\ req.counted = {}
  /\ req.pc \in Inwards \ {"app"} => req.sent = None
  /\ req.exc = "too_large" => req.pc \in {"leaveAuth", "leaveSize"} /\ req.counted = {}
  /\ "too_large" \in req.counted => req.pc \in {"leave", "idle"}
  /\ req.counted = {} \/ \E a \in Refusals : req.counted = {a}
  /\ req.observed = IF "too_large" \in req.counted THEN 413
                    ELSE IF req.sent = None THEN 500 ELSE req.sent.status

IInv ==
  /\ TypeOK /\ CtxInv /\ AnswerInv
  /\ ToolsAdmitted /\ AuditTrail /\ ObservedStatus /\ AnswersAgree

-----------------------------------------------------------------------------
(* Responses. *)

\* What a response and a refusal leave alone.
Same(p, q) ==
  /\ p.id = q.id /\ p.pc = q.pc /\ p.path = q.path /\ p.admitted = q.admitted
  /\ p.callerToken = q.callerToken /\ p.metaToken = q.metaToken /\ p.http = q.http

LEMMA SendResult ==
  ASSUME NEW q \in Requests, NEW status \in Statuses
  PROVE  /\ Send(q, status, 1) \in Requests
         /\ Same(Send(q, status, 1), q)
         /\ Send(q, status, 1).counted = q.counted
         /\ Send(q, status, 1).observed = status
         /\ q.sent = None => /\ Send(q, status, 1).sent = [status |-> status, headers |-> 1]
                             /\ Send(q, status, 1).exc = q.exc
         /\ q.sent # None => /\ Send(q, status, 1).sent = q.sent
                             /\ Send(q, status, 1).exc = "error"
BY DEF Send, Requests, Messages, Same

\* Every layer sends each security header once.
LEMMA OneHeader ==
  ASSUME NEW q, NEW status
  PROVE  Refuse(q, status) = Send(q, status, 1) /\ Respond(q, status) = Send(q, status, 1)
BY DEF Refuse, Respond, AddSecurityHeaders

LEMMA CountResult ==
  ASSUME NEW q \in Requests, NEW refusal \in Refusals
  PROVE  /\ Count(q, refusal) \in Requests
         /\ Same(Count(q, refusal), q)
         /\ Count(q, refusal).counted = q.counted \cup {refusal}
         /\ Count(q, refusal).observed = q.observed /\ Count(q, refusal).sent = q.sent
         /\ Count(q, refusal).exc = q.exc
BY DEF Count, Requests, Same

-----------------------------------------------------------------------------
(* The steps of a request. *)

\* What the properties of the request follow from when the tool does not move.
LEMMA RequestInv ==
  ASSUME IInv, TypeOK', CtxInv', AnswerInv', UNCHANGED tool,
         req'.pc = "idle" => req'.http = req'.observed,
         AnswersAgree'
  PROVE  IInv'
<1>1. ToolsAdmitted' /\ AuditTrail'
  BY DEF IInv, ToolsAdmitted, AuditTrail
<1>2. ObservedStatus'
  BY DEF AnswerInv, ObservedStatus, Served
<1> QED BY <1>1, <1>2 DEF IInv

LEMMA InitInv == Init => IInv
<1> SUFFICES ASSUME Init PROVE IInv
  OBVIOUS
<1> DEFINE q == Fresh(0, "probe", FALSE)
<1>1. req \in Requests /\ NoContext \in Contexts
  <2>1. q \in Requests
    BY DEF Fresh, Requests, Ids, Points, Statuses
  <2>2. req = [q EXCEPT !.pc = "idle", !.http = 500]
    BY DEF Init
  <2> HIDE DEF q
  <2>3. req \in Requests
    <3> DEFINE p == [q EXCEPT !.pc = "idle"]
    <3>1. p \in Requests
      BY <2>1 DEF Requests, Points
    <3>2. req = [p EXCEPT !.http = 500] /\ 500 \in Statuses
      BY <2>1, <2>2 DEF Requests, Statuses
    <3> HIDE DEF p
    <3> QED BY <3>1, <3>2 DEF Requests
  <2>4. NoContext \in Contexts
    BY DEF Contexts, NoContext
  <2> QED BY <2>3, <2>4
<1>2. /\ req.pc = "idle" /\ req.http = 500 /\ req.observed = 500
      /\ req.counted = {} /\ req.sent = None /\ req.exc = None
  BY DEF Init, Fresh
<1>3. TypeOK /\ CtxInv
  BY <1>1, <1>2 DEF Init, TypeOK, CtxInv, Inner
<1>4. AnswerInv
  BY <1>2, NoneAssumption DEF AnswerInv, Inwards
<1>5. ToolsAdmitted /\ AuditTrail /\ ObservedStatus /\ AnswersAgree
  BY <1>2, NoneAssumption DEF Init, ToolsAdmitted, AuditTrail, ObservedStatus, AnswersAgree
<1> QED BY <1>3, <1>4, <1>5 DEF IInv

LEMMA ArriveStep == ASSUME IInv, Arrive PROVE IInv'
<1>1. PICK path \in {"probe", "mcp"}, length \in {"over", "within", "none"}, over \in BOOLEAN :
        req' = IF length = "over"
               THEN [Send(Count(Fresh(1 - req.id, path, over), "too_large"), 413, 1)
                       EXCEPT !.pc = "leave"]
               ELSE Fresh(1 - req.id, path, over)
  BY DEF Arrive
<1> DEFINE q == Fresh(1 - req.id, path, over)
           p == Count(q, "too_large")
           s == Send(p, 413, 1)
<1>2. req \in Requests /\ req.pc = "idle" /\ ctx = NoContext /\ ctx \in Contexts
      /\ UNCHANGED <<skipJwt, ctx, tool>>
  BY DEF Arrive, IInv, TypeOK, CtxInv, Inner
<1>3. q \in Requests
  BY <1>2 DEF Fresh, Requests, Ids, Points, Statuses
<1>4. /\ q.pc = "transport" /\ q.callerToken = <<>> /\ q.exc = None
      /\ q.counted = {} /\ q.sent = None /\ q.observed = 500
  BY DEF Fresh
<1>5. 413 \in Statuses /\ "too_large" \in Refusals
  BY DEF Statuses, Refusals
<1> HIDE DEF q
<1>6. /\ p \in Requests /\ p.counted = {"too_large"} /\ p.sent = None /\ p.exc = None
  BY <1>3, <1>4, <1>5, CountResult
<1> HIDE DEF p
<1>7. /\ s \in Requests /\ s.counted = {"too_large"} /\ s.observed = 413 /\ s.exc = None
      /\ s.sent = [status |-> 413, headers |-> 1]
  BY <1>5, <1>6, SendResult
<1> HIDE DEF s
<1>8. CASE length = "over"
  <2>1. req' = [s EXCEPT !.pc = "leave"]
    BY <1>1, <1>8 DEF s, p, q
  <2>2. /\ req' \in Requests /\ req'.pc = "leave" /\ req'.counted = {"too_large"}
        /\ req'.observed = 413 /\ req'.exc = None
        /\ req'.sent = [status |-> 413, headers |-> 1]
    BY <1>7, <2>1 DEF Requests, Points
  <2>3. TypeOK' /\ CtxInv'
    BY <1>2, <2>2 DEF IInv, TypeOK, CtxInv, Inner
  <2>4. AnswerInv'
    BY <1>5, <2>2, NoneAssumption DEF AnswerInv, Inwards
  <2>5. AnswersAgree'
    BY <2>2 DEF AnswersAgree, RefusalStatus, Refusals
  <2> QED BY <1>2, <2>2, <2>3, <2>4, <2>5, RequestInv
<1>9. CASE length # "over"
  <2>1. req' = q
    BY <1>1, <1>9 DEF q
  <2>2. TypeOK' /\ CtxInv'
    BY <1>2, <1>3, <1>4, <2>1 DEF IInv, TypeOK, CtxInv, Inner
  <2>3. AnswerInv' /\ AnswersAgree'
    BY <1>4, <2>1, NoneAssumption DEF AnswerInv, Inwards, AnswersAgree
  <2> QED BY <1>2, <1>4, <2>1, <2>2, <2>3, RequestInv
<1> QED BY <1>8, <1>9

\* A layer refuses: p is the request with the refusal's answer, sent from where
\* nothing has been sent and counted, and the request leaves from there.
LEMMA RefusalStep ==
  ASSUME IInv, UNCHANGED <<skipJwt, ctx, tool>>,
         req.pc \in Inwards \ {"app"},
         NEW status \in Statuses, NEW counted \in SUBSET (Refusals \ {"too_large"}),
         \/ status = 400 /\ counted = {}
         \/ \E a \in Refusals : counted = {a} /\ status = RefusalStatus(a),
         req' \in Requests,
         req'.id = req.id, req'.callerToken = req.callerToken, req'.metaToken = req.metaToken,
         req'.sent = [status |-> status, headers |-> 1], req'.observed = status,
         req'.exc = None, req'.counted = counted,
         \/ req.pc = "transport" /\ req'.pc = "leaveSize"
         \/ req.pc # "transport" /\ req'.pc = "leaveAuth"
  PROVE  IInv'
<1>1. req'.sent # None /\ req'.sent.status = status /\ req'.sent.headers = 1
  BY NoneAssumption DEF Messages
<1>2. TypeOK'
  BY DEF IInv, TypeOK
<1>3. CtxInv'
  BY DEF IInv, CtxInv, Inner, Inwards
<1>4. AnswerInv'
  BY <1>1, NoneAssumption DEF AnswerInv, Inwards
<1>5. AnswersAgree'
  BY <1>1 DEF AnswersAgree, RefusalStatus, Refusals
<1> QED BY <1>2, <1>3, <1>4, <1>5, RequestInv

LEMMA TransportStep == ASSUME IInv, Transport PROVE IInv'
<1>1. /\ req \in Requests /\ req.pc = "transport" /\ ctx = NoContext /\ ctx \in Contexts
      /\ req.callerToken = <<>> /\ req.sent = None /\ req.counted = {} /\ req.exc = None
      /\ req.observed = 500 /\ UNCHANGED <<skipJwt, tool>>
  BY DEF Transport, IInv, TypeOK, CtxInv, AnswerInv, Inner, Inwards
<1>2. CASE req' = [Refuse(req, 400) EXCEPT !.pc = "leaveSize"] /\ UNCHANGED ctx
  <2> DEFINE s == Send(req, 400, 1)
  <2>1. 400 \in Statuses
    BY DEF Statuses
  <2>2. /\ s \in Requests /\ Same(s, req) /\ s.counted = {} /\ s.observed = 400
        /\ s.exc = None /\ s.sent = [status |-> 400, headers |-> 1]
    BY <1>1, <2>1, SendResult
  <2>3. req' = [s EXCEPT !.pc = "leaveSize"]
    BY <1>2, OneHeader
  <2> HIDE DEF s
  <2>4. /\ req' \in Requests /\ req'.pc = "leaveSize" /\ req'.counted = {}
        /\ req'.observed = 400 /\ req'.exc = None /\ req'.id = req.id
        /\ req'.callerToken = req.callerToken /\ req'.metaToken = req.metaToken
        /\ req'.sent = [status |-> 400, headers |-> 1]
    BY <2>2, <2>3 DEF Requests, Points, Same
  <2> QED BY <1>1, <1>2, <2>1, <2>4, RefusalStep DEF Inwards
<1>3. CASE /\ ctx' = [ctx EXCEPT !.meta = req.id]
           /\ req' = [req EXCEPT !.metaToken = <<ctx>>,
                                 !.pc = IF req.path = "probe" THEN "app" ELSE "auth"]
  <2> DEFINE m == [req EXCEPT !.metaToken = <<ctx>>]
             point == IF req.path = "probe" THEN "app" ELSE "auth"
  <2>1. <<ctx>> \in {<<c>> : c \in Contexts}
    BY <1>1
  <2>2. m \in Requests
    BY <1>1, <2>1 DEF Requests
  <2>3. req' = [m EXCEPT !.pc = point]
    BY <1>1, <1>3 DEF Requests
  <2>4. /\ m.metaToken = <<NoContext>> /\ m.callerToken = <<>> /\ m.path = req.path
        /\ m.id = req.id /\ m.sent = None /\ m.counted = {} /\ m.exc = None /\ m.observed = 500
    BY <1>1 DEF Requests
  <2>5. point \in Points /\ point \in {"app", "auth"} /\ (point = "app" => req.path = "probe")
    BY DEF Points
  <2> HIDE DEF m, point
  <2>6. /\ req' \in Requests /\ req'.pc \in {"app", "auth"} /\ req'.id = req.id
        /\ req'.metaToken = <<NoContext>> /\ req'.callerToken = <<>>
        /\ req'.path = req.path
        /\ req'.pc = "app" => req.path = "probe"
        /\ req'.sent = None /\ req'.counted = {} /\ req'.exc = None /\ req'.observed = 500
    BY <1>1, <2>2, <2>3, <2>4, <2>5 DEF Requests
  <2>7. ctx' \in Contexts /\ ctx'.meta = req.id /\ ctx'.caller = None
    BY <1>1, <1>3 DEF Contexts, NoContext, Requests
  <2>8. TypeOK'
    BY <1>1, <2>6, <2>7 DEF IInv, TypeOK
  <2>9. CtxInv'
    BY <2>6, <2>7 DEF CtxInv, Inner
  <2>60. AnswerInv' /\ AnswersAgree'
    BY <2>6, NoneAssumption DEF AnswerInv, Inwards, AnswersAgree
  <2> QED BY <1>1, <2>6, <2>8, <2>9, <2>60, RequestInv
<1> QED BY <1>2, <1>3 DEF Transport

LEMMA AuthenticateStep == ASSUME IInv, Authenticate PROVE IInv'
<1>1. /\ req \in Requests /\ req.pc = "auth" /\ ctx \in Contexts
      /\ req.metaToken = <<NoContext>> /\ ctx.meta = req.id /\ ctx.caller = None
      /\ req.callerToken = <<>> /\ req.sent = None /\ req.counted = {} /\ req.exc = None
      /\ req.observed = 500 /\ UNCHANGED <<skipJwt, tool>>
  BY DEF Authenticate, IInv, TypeOK, CtxInv, AnswerInv, Inner, Inwards
<1>2. ASSUME NEW scopes \in SUBSET Scopes,
             ctx' = [ctx EXCEPT !.caller = [of |-> req.id, scopes |-> scopes]],
             req' = [req EXCEPT !.callerToken = <<ctx>>, !.pc = "limit"]
      PROVE  IInv'
  <2> DEFINE m == [req EXCEPT !.callerToken = <<ctx>>]
  <2>1. <<ctx>> \in {<<c>> : c \in Contexts}
    BY <1>1
  <2>2. m \in Requests
    BY <1>1, <2>1 DEF Requests
  <2>3. req' = [m EXCEPT !.pc = "limit"] /\ "limit" \in Points
    BY <1>1, <1>2 DEF Requests, Points
  <2>4. ctx = [caller |-> None, meta |-> req.id]
    BY <1>1 DEF Contexts
  <2>5. /\ m.callerToken = <<[caller |-> None, meta |-> req.id]>>
        /\ m.metaToken = <<NoContext>> /\ m.id = req.id /\ m.sent = None
        /\ m.counted = {} /\ m.exc = None /\ m.observed = 500
    BY <1>1, <2>4 DEF Requests
  <2> HIDE DEF m
  <2>6. /\ req' \in Requests /\ req'.pc = "limit" /\ req'.id = req.id
        /\ req'.callerToken = <<[caller |-> None, meta |-> req.id]>>
        /\ req'.metaToken = <<NoContext>> /\ req'.sent = None
        /\ req'.counted = {} /\ req'.exc = None /\ req'.observed = 500
    BY <2>2, <2>3, <2>5 DEF Requests
  <2> DEFINE caller == [of |-> req.id, scopes |-> scopes]
  <2>7. caller \in Callers /\ caller.of = req.id
    BY <1>1 DEF Callers, Requests
  <2>8. ctx' = [ctx EXCEPT !.caller = caller]
    BY <1>2
  <2> HIDE DEF caller
  <2>9. ctx' \in Contexts /\ ctx'.meta = req.id /\ ctx'.caller = caller
    BY <1>1, <2>7, <2>8 DEF Contexts
  <2>10. TypeOK'
    BY <1>1, <2>6, <2>9 DEF IInv, TypeOK
  <2>11. CtxInv'
    BY <2>6, <2>7, <2>9, NoneAssumption DEF CtxInv, Inner
  <2>12. AnswerInv' /\ AnswersAgree'
    BY <2>6, NoneAssumption DEF AnswerInv, Inwards, AnswersAgree
  <2> QED BY <1>1, <2>6, <2>10, <2>11, <2>12, RequestInv
<1>3. ASSUME NEW refusal \in {"unauthorized", "jwks_unavailable"},
             req' = [Rejected(req, refusal) EXCEPT !.pc = "leaveAuth"], UNCHANGED ctx
      PROVE  IInv'
  <2> DEFINE status == IF refusal = "unauthorized" THEN 401 ELSE 503
             s == Send(req, status, 1)
             p == Count(s, refusal)
  <2>1. status \in Statuses /\ refusal \in Refusals \ {"too_large"} /\ status = RefusalStatus(refusal)
    BY DEF Statuses, Refusals, RefusalStatus
  <2> HIDE DEF status
  <2>2. /\ s \in Requests /\ Same(s, req) /\ s.counted = {} /\ s.observed = status
        /\ s.exc = None /\ s.sent = [status |-> status, headers |-> 1]
    BY <1>1, <2>1, SendResult
  <2>3. req' = [p EXCEPT !.pc = "leaveAuth"]
    BY <1>3, OneHeader DEF Rejected, status
  <2> HIDE DEF s
  <2>4. /\ p \in Requests /\ Same(p, s) /\ p.counted = {refusal} /\ p.observed = status
        /\ p.exc = None /\ p.sent = [status |-> status, headers |-> 1]
    BY <2>1, <2>2, CountResult
  <2> HIDE DEF p
  <2>5. /\ req' \in Requests /\ req'.pc = "leaveAuth" /\ req'.counted = {refusal}
        /\ req'.observed = status /\ req'.exc = None /\ req'.id = req.id
        /\ req'.callerToken = req.callerToken /\ req'.metaToken = req.metaToken
        /\ req'.sent = [status |-> status, headers |-> 1]
    BY <2>2, <2>3, <2>4 DEF Requests, Points, Same
  <2> QED BY <1>1, <1>3, <2>1, <2>5, RefusalStep DEF Inwards
<1>4. ASSUME req' = [req EXCEPT !.exc = "error", !.pc = "leaveAuth"], UNCHANGED ctx
      PROVE  IInv'
  <2>1. "leaveAuth" \in Points
    BY DEF Points
  <2>2. /\ req' \in Requests /\ req'.pc = "leaveAuth" /\ req'.exc = "error"
        /\ req'.id = req.id /\ req'.callerToken = <<>> /\ req'.metaToken = <<NoContext>>
        /\ req'.counted = {} /\ req'.observed = 500 /\ req'.sent = None
    BY <1>1, <1>4, <2>1 DEF Requests
  <2>3. TypeOK' /\ CtxInv'
    BY <1>1, <1>4, <2>2 DEF IInv, TypeOK, CtxInv, Inner
  <2>4. AnswerInv' /\ AnswersAgree'
    BY <2>2, NoneAssumption DEF AnswerInv, Inwards, AnswersAgree
  <2> QED BY <1>1, <2>2, <2>3, <2>4, RequestInv
<1> QED BY <1>2, <1>3, <1>4 DEF Authenticate

LEMMA LimitStep == ASSUME IInv, Limit PROVE IInv'
<1>1. /\ req \in Requests /\ req.pc = "limit"
      /\ req.sent = None /\ req.counted = {} /\ req.exc = None
      /\ req.observed = 500 /\ UNCHANGED <<skipJwt, ctx, tool>>
  BY DEF Limit, IInv, TypeOK, AnswerInv, Inwards
<1>2. CASE req' = [req EXCEPT !.admitted = TRUE, !.pc = "app"]
  <2>1. /\ req' \in Requests /\ req'.pc = "app" /\ req'.admitted
        /\ req'.id = req.id /\ req'.callerToken = req.callerToken
        /\ req'.metaToken = req.metaToken
        /\ req'.counted = {} /\ req'.observed = 500 /\ req'.sent = None /\ req'.exc = None
    BY <1>1, <1>2 DEF Requests, Points
  <2>2. TypeOK' /\ CtxInv'
    BY <1>1, <2>1 DEF IInv, TypeOK, CtxInv, Inner
  <2>3. AnswerInv' /\ AnswersAgree'
    BY <2>1, NoneAssumption DEF AnswerInv, Inwards, AnswersAgree
  <2> QED BY <1>1, <2>1, <2>2, <2>3, RequestInv
<1>3. CASE req' = [Limited(req) EXCEPT !.pc = "leaveAuth"]
  <2> DEFINE s == Send(req, 429, 1)
             p == Count(s, "rate_limited")
  <2>1. /\ 429 \in Statuses /\ "rate_limited" \in Refusals \ {"too_large"}
        /\ 429 = RefusalStatus("rate_limited")
    BY DEF Statuses, Refusals, RefusalStatus
  <2>2. /\ s \in Requests /\ Same(s, req) /\ s.counted = {} /\ s.observed = 429
        /\ s.exc = None /\ s.sent = [status |-> 429, headers |-> 1]
    BY <1>1, <2>1, SendResult
  <2>3. req' = [p EXCEPT !.pc = "leaveAuth"]
    BY <1>3, OneHeader DEF Limited
  <2> HIDE DEF s
  <2>4. /\ p \in Requests /\ Same(p, s) /\ p.counted = {"rate_limited"} /\ p.observed = 429
        /\ p.exc = None /\ p.sent = [status |-> 429, headers |-> 1]
    BY <2>1, <2>2, CountResult
  <2> HIDE DEF p
  <2>5. /\ req' \in Requests /\ req'.pc = "leaveAuth" /\ req'.counted = {"rate_limited"}
        /\ req'.observed = 429 /\ req'.exc = None /\ req'.id = req.id
        /\ req'.callerToken = req.callerToken /\ req'.metaToken = req.metaToken
        /\ req'.sent = [status |-> 429, headers |-> 1]
    BY <2>2, <2>3, <2>4 DEF Requests, Points, Same
  <2> QED BY <1>1, <2>1, <2>5, RefusalStep DEF Inwards
<1> QED BY <1>2, <1>3 DEF Limit

\* The application is left, by its end, an exception or a cancellation: what it has
\* sent stays sent, and if it has sent nothing there is a 500 or no answer.
LEMMA LeaveAppStep ==
  ASSUME IInv, UNCHANGED <<skipJwt, ctx, tool>>, req.pc = "app",
         req' \in Requests, req'.pc = "leaveAuth", req'.id = req.id, req'.path = req.path,
         req'.callerToken = req.callerToken, req'.metaToken = req.metaToken,
         req'.counted = req.counted,
         req.sent # None => req'.sent = req.sent /\ req'.observed = req.observed,
         req.sent = None =>
           \/ req'.sent = None /\ req'.observed = req.observed
           \/ req'.sent = [status |-> 500, headers |-> 1] /\ req'.observed = 500
  PROVE  IInv'
<1>1. [status |-> 500, headers |-> 1] # None
  BY NoneAssumption DEF Messages, Statuses
<1>2. TypeOK' /\ CtxInv'
  BY DEF IInv, TypeOK, CtxInv, Inner
<1>3. req.counted = {} /\ req.exc = None
  BY DEF IInv, AnswerInv, Inwards
<1>4. AnswerInv'
  BY <1>1, <1>3 DEF IInv, AnswerInv, Inwards
<1>5. AnswersAgree'
  BY <1>1, <1>3 DEF IInv, AnswersAgree, RefusalStatus, Refusals
<1> QED BY <1>2, <1>4, <1>5, RequestInv

LEMMA EscapeStep ==
  ASSUME IInv, UNCHANGED <<skipJwt, ctx, tool>>, req.pc = "app",
         NEW exc \in {"too_large", "error"}, req' = Escape(req, exc)
  PROVE  IInv'
<1> DEFINE s == IF req.sent = None THEN Send(req, 500, 1) ELSE req
<1>1. 500 \in Statuses /\ "leaveAuth" \in Points /\ req \in Requests
  BY DEF Statuses, Points, IInv, TypeOK
<1>2. /\ s \in Requests /\ Same(s, req) /\ s.counted = req.counted
      /\ req.sent # None => s.sent = req.sent /\ s.observed = req.observed
      /\ req.sent = None => s.sent = [status |-> 500, headers |-> 1] /\ s.observed = 500
  BY <1>1, SendResult DEF Same
<1>3. req' = [s EXCEPT !.exc = exc, !.pc = "leaveAuth"]
  <2>1. Respond(req, 500) = Send(req, 500, 1)
    BY OneHeader
  <2>2. s = IF req.sent = None THEN Respond(req, 500) ELSE req
    BY <2>1
  <2>3. req' = Escape(req, exc)
    OBVIOUS
  <2> HIDE DEF s
  <2> QED BY <2>2, <2>3 DEF Escape
<1> HIDE DEF s
<1>4. /\ req' \in Requests /\ req'.pc = "leaveAuth" /\ req'.id = s.id /\ req'.path = s.path
      /\ req'.callerToken = s.callerToken /\ req'.metaToken = s.metaToken
      /\ req'.counted = s.counted /\ req'.observed = s.observed /\ req'.sent = s.sent
  <2>1. exc \in {None, "too_large", "error", "cancelled"} /\ s \in Requests
    BY <1>2
  <2>2. req' \in Requests
    BY <1>1, <1>3, <2>1 DEF Requests
  <2>3. /\ req'.pc = "leaveAuth" /\ req'.id = s.id /\ req'.path = s.path
        /\ req'.callerToken = s.callerToken /\ req'.metaToken = s.metaToken
        /\ req'.counted = s.counted /\ req'.observed = s.observed /\ req'.sent = s.sent
    BY <1>3, <2>1 DEF Requests
  <2> QED BY <2>2, <2>3
<1> QED BY <1>2, <1>4, LeaveAppStep DEF Same

LEMMA ApplicationStep ==
  ASSUME IInv, AppReads \/ AppResponds \/ AppReturns \/ AppRaises
  PROVE  IInv'
<1>1. /\ req \in Requests /\ req.pc = "app" /\ UNCHANGED <<skipJwt, ctx, tool>>
      /\ req.counted = {} /\ req.exc = None
  BY DEF AppReads, AppResponds, AppReturns, AppRaises, IInv, TypeOK, AnswerInv, Inwards
<1>2. CASE req' = [req EXCEPT !.read = TRUE]
  <2>1. /\ req' \in Requests /\ req'.pc = "app" /\ Same(req', req)
        /\ req'.counted = {} /\ req'.exc = None
        /\ req'.sent = req.sent /\ req'.observed = req.observed
    BY <1>1, <1>2 DEF Requests, Same
  <2>2. TypeOK' /\ CtxInv'
    BY <1>1, <2>1 DEF IInv, TypeOK, CtxInv, Inner, Same
  <2>3. AnswerInv' /\ AnswersAgree'
    BY <1>1, <2>1, NoneAssumption DEF IInv, AnswerInv, Inwards, AnswersAgree, Same
  <2> QED BY <1>1, <2>1, <2>2, <2>3, RequestInv
<1>3. CASE \E exc \in {"too_large", "error"} : req' = Escape(req, exc)
  BY <1>1, <1>3, EscapeStep
<1>4. CASE AppResponds
  <2>1. PICK status \in AppStatuses(req.path) : req' = Send(req, status, 1) /\ req.sent = None
    BY <1>4, OneHeader DEF AppResponds
  <2>2. status \in Statuses /\ (status = 503 => req.path = "probe") /\ status \in {200, 404, 503}
    BY <1>1, <2>1 DEF AppStatuses, Statuses, Requests
  <2>3. /\ req' \in Requests /\ req'.pc = "app" /\ Same(req', req)
        /\ req'.counted = {} /\ req'.exc = None
        /\ req'.sent = [status |-> status, headers |-> 1] /\ req'.observed = status
    BY <1>1, <2>1, <2>2, SendResult DEF Same
  <2>4. req'.sent # None
    BY <2>2, <2>3, NoneAssumption DEF Messages
  <2>5. TypeOK' /\ CtxInv'
    BY <1>1, <2>3 DEF IInv, TypeOK, CtxInv, Inner, Same
  <2>6. AnswerInv' /\ AnswersAgree'
    BY <2>2, <2>3, <2>4, NoneAssumption
       DEF AnswerInv, Inwards, AnswersAgree, RefusalStatus, Refusals, Same
  <2> QED BY <1>1, <2>3, <2>5, <2>6, RequestInv
<1>5. CASE req' = [req EXCEPT !.pc = "leaveAuth"]
  <2>1. /\ req' \in Requests /\ req'.pc = "leaveAuth" /\ req'.id = req.id /\ req'.path = req.path
        /\ req'.callerToken = req.callerToken /\ req'.metaToken = req.metaToken
        /\ req'.counted = req.counted
        /\ req'.sent = req.sent /\ req'.observed = req.observed
    BY <1>1, <1>5 DEF Requests, Points
  <2> QED BY <1>1, <2>1, LeaveAppStep
<1> QED BY <1>2, <1>3, <1>4, <1>5 DEF AppReads, AppReturns, AppRaises

\* A tool's start and its end, whatever the request does meanwhile.
LEMMA ToolStep == ASSUME IInv, AppCallsTool \/ ToolEnds PROVE IInv'
<1>1. UNCHANGED <<skipJwt, ctx, req>>
  BY DEF AppCallsTool, ToolEnds
<1>2. CtxInv' /\ AnswerInv' /\ ObservedStatus' /\ AnswersAgree'
  BY <1>1 DEF IInv, CtxInv, AnswerInv, ObservedStatus, Served, AnswersAgree
<1>3. CASE AppCallsTool
  <2>1. PICK needs \in Scopes :
          /\ needs \in GetCaller(ctx)[1].scopes
          /\ tool' = [of |-> req.id, admitted |-> req.admitted, needs |-> needs,
                      caller |-> GetCaller(ctx)[1], outcome |-> None, log |-> None]
    BY <1>3 DEF AppCallsTool
  <2>2. /\ req.admitted /\ req.id \in Ids
        /\ ctx.caller \in Callers /\ ctx.caller.of = req.id
    BY <1>3 DEF AppCallsTool, IInv, TypeOK, CtxInv, Inner, Requests, Contexts
  <2>3. GetCaller(ctx)[1] = ctx.caller
    BY <2>2, NoneAssumption DEF GetCaller
  <2>4. /\ tool' \in Tools /\ tool'.admitted /\ tool'.caller.of = tool'.of
        /\ tool'.needs \in tool'.caller.scopes /\ tool'.outcome = None
    BY <2>1, <2>2, <2>3 DEF Tools
  <2>5. TypeOK' /\ ToolsAdmitted' /\ AuditTrail'
    BY <1>1, <2>4 DEF IInv, TypeOK, ToolsAdmitted, AuditTrail
  <2> QED BY <1>2, <2>5 DEF IInv
<1>4. CASE ToolEnds
  <2>1. PICK outcome \in Outcomes :
          tool' = [tool EXCEPT !.outcome = outcome, !.log = Audited(tool, outcome)]
    BY <1>4 DEF ToolEnds
  <2>2. tool # None /\ tool \in Tools
    BY <1>4 DEF ToolEnds, IInv, TypeOK
  <2> DEFINE log == Audited(tool, outcome)
  <2>3. /\ log \in Logs /\ log.caller = tool.caller /\ log.request = tool.of
        /\ log.success = (outcome \in {"returned", "cancelled"})
    BY <2>2 DEF Audited, Logs, Tools
  <2> HIDE DEF log
  <2>4. tool' = [tool EXCEPT !.outcome = outcome, !.log = log]
    BY <2>1 DEF log
  <2>5. /\ tool' \in Tools /\ tool'.of = tool.of /\ tool'.admitted = tool.admitted
        /\ tool'.needs = tool.needs /\ tool'.caller = tool.caller
        /\ tool'.outcome = outcome /\ tool'.log = log
    BY <2>2, <2>3, <2>4 DEF Tools
  <2>6. TypeOK' /\ ToolsAdmitted'
    BY <1>1, <2>2, <2>5 DEF IInv, TypeOK, ToolsAdmitted
  <2>7. AuditTrail'
    BY <1>4, <2>2, <2>3, <2>5, NoneAssumption DEF IInv, ToolsAdmitted, AuditTrail
  <2> QED BY <1>2, <2>6, <2>7 DEF IInv
<1> QED BY <1>3, <1>4

-----------------------------------------------------------------------------
(* Outwards. *)

LEMMA CancelStep == ASSUME IInv, Cancel PROVE IInv'
<1>1. /\ req \in Requests /\ req.pc \in Points \ {"idle"} /\ req.exc = None
      /\ UNCHANGED <<skipJwt, ctx, tool>>
  BY DEF Cancel, IInv, TypeOK, Requests
<1> DEFINE point == CASE req.pc \in {"auth", "limit", "app"} -> "leaveAuth"
                      [] req.pc = "transport" -> "leaveSize"
                      [] OTHER -> req.pc
<1>2. /\ point \in Points
      /\ point \in {"leaveAuth", "leaveSize", "leave"}
      /\ req.pc \in Inner <=> point = "leaveAuth"
      /\ req.pc = "leave" <=> point = "leave"
  BY <1>1 DEF Points, Inner
<1>3. req' = [req EXCEPT !.exc = "cancelled", !.pc = point]
  BY DEF Cancel
<1> HIDE DEF point
<1>4. req' \in Requests
  BY <1>1, <1>2, <1>3 DEF Requests
<1>5. /\ req'.pc = point /\ req'.exc = "cancelled"
      /\ req'.id = req.id /\ req'.path = req.path
      /\ req'.callerToken = req.callerToken /\ req'.metaToken = req.metaToken
      /\ req'.counted = req.counted /\ req'.observed = req.observed /\ req'.sent = req.sent
  BY <1>1, <1>3 DEF Requests
<1>6. TypeOK' /\ CtxInv'
  BY <1>1, <1>2, <1>4, <1>5 DEF IInv, TypeOK, CtxInv, Inner
<1>7. AnswerInv'
  BY <1>1, <1>2, <1>5, NoneAssumption DEF IInv, AnswerInv, Inwards
<1>8. AnswersAgree'
  BY <1>5 DEF IInv, AnswersAgree
<1> QED BY <1>1, <1>2, <1>5, <1>6, <1>7, <1>8, RequestInv

LEMMA LeaveAuthStep == ASSUME IInv, LeaveAuth PROVE IInv'
<1>1. /\ req \in Requests /\ req.pc = "leaveAuth" /\ UNCHANGED <<skipJwt, tool>>
      /\ req' = [req EXCEPT !.pc = "leaveSize"] /\ ctx' = Reset(ctx, req)
  BY DEF LeaveAuth, IInv, TypeOK
<1>2. ctx' = NoContext /\ NoContext \in Contexts
  <2>1. req.metaToken = <<NoContext>>
    BY <1>1 DEF IInv, CtxInv, Inner
  <2>2. req.callerToken = <<>> => ctx.caller = None
    BY <1>1 DEF IInv, CtxInv, Inner
  <2>3. req.callerToken # <<>> => req.callerToken = <<[caller |-> None, meta |-> req.id]>>
    BY <1>1 DEF IInv, CtxInv, Inner
  <2> QED BY <1>1, <2>1, <2>2, <2>3 DEF Reset, NoContext, Contexts
<1>3. /\ req' \in Requests /\ req'.pc = "leaveSize" /\ req'.exc = req.exc /\ req'.path = req.path
      /\ req'.counted = req.counted /\ req'.observed = req.observed /\ req'.sent = req.sent
  BY <1>1 DEF Requests, Points
<1>4. TypeOK' /\ CtxInv'
  BY <1>1, <1>2, <1>3 DEF IInv, TypeOK, CtxInv, Inner
<1>5. AnswerInv' /\ AnswersAgree'
  BY <1>1, <1>3 DEF IInv, AnswerInv, Inwards, AnswersAgree
<1> QED BY <1>1, <1>3, <1>4, <1>5, RequestInv

LEMMA LeaveSizeStep == ASSUME IInv, LeaveSize PROVE IInv'
<1>1. /\ req \in Requests /\ req.pc = "leaveSize" /\ UNCHANGED <<skipJwt, ctx, tool>>
      /\ ctx = NoContext
  BY DEF LeaveSize, IInv, TypeOK, CtxInv, Inner
<1>2. CASE req.exc = "too_large"
  <2> DEFINE c == Count(req, "too_large")
             p == [c EXCEPT !.exc = None]
             s == Send(p, 413, 1)
  <2>1. 413 \in Statuses /\ "too_large" \in Refusals /\ "leave" \in Points
    BY DEF Statuses, Refusals, Points
  <2>2. /\ c \in Requests /\ c.counted = {"too_large"} /\ c.sent = req.sent
        /\ c.path = req.path
    BY <1>1, <1>2, <2>1, CountResult DEF IInv, AnswerInv, Same
  <2>3. req' = [s EXCEPT !.pc = "leave"]
    BY <1>2 DEF LeaveSize
  <2> HIDE DEF c
  <2>4. /\ p \in Requests /\ p.counted = {"too_large"} /\ p.sent = req.sent /\ p.exc = None
        /\ p.path = req.path
    BY <2>2 DEF Requests
  <2> HIDE DEF p
  <2>5. /\ s \in Requests /\ s.counted = {"too_large"} /\ s.observed = 413
        /\ s.path = req.path
        /\ req.sent = None => s.exc = None /\ s.sent = [status |-> 413, headers |-> 1]
        /\ req.sent # None => s.exc = "error" /\ s.sent = req.sent
    BY <2>1, <2>4, SendResult DEF Same
  <2> HIDE DEF s
  <2>6. s.exc # "too_large"
    BY <2>5, NoneAssumption
  <2>7. /\ req.sent # None => req.sent.headers = 1
        /\ req.sent # None /\ req.path = "mcp" => req.sent.status \notin {401, 429, 503}
    <3>1. \A a \in Refusals \ {"too_large"} :
            req.sent # None /\ req.path = "mcp" => req.sent.status # RefusalStatus(a)
      BY <1>2 DEF IInv, AnswerInv, AnswersAgree
    <3>2. /\ RefusalStatus("unauthorized") = 401 /\ RefusalStatus("rate_limited") = 429
          /\ RefusalStatus("jwks_unavailable") = 503
          /\ {"unauthorized", "rate_limited", "jwks_unavailable"} \subseteq Refusals \ {"too_large"}
      BY DEF RefusalStatus, Refusals
    <3>3. req.sent # None => req.sent.headers = 1
      BY DEF IInv, AnswersAgree
    <3> QED BY <3>1, <3>2, <3>3
  <2>8. /\ s.sent # None => s.sent.headers = 1
        /\ s.sent # None /\ s.path = "mcp" => s.sent.status \notin {401, 429, 503}
    BY <2>5, <2>7
  <2>9. /\ req' \in Requests /\ req'.pc = "leave" /\ req'.counted = {"too_large"}
        /\ req'.observed = 413 /\ req'.exc # "too_large" /\ req'.sent = s.sent
        /\ req'.path = s.path
    BY <2>1, <2>3, <2>5, <2>6 DEF Requests
  <2>10. TypeOK' /\ CtxInv'
    BY <1>1, <2>9 DEF IInv, TypeOK, CtxInv, Inner
  <2>11. AnswerInv'
    BY <2>1, <2>9 DEF AnswerInv, Inwards
  <2>12. AnswersAgree'
    BY <2>8, <2>9 DEF AnswersAgree, RefusalStatus, Refusals
  <2> QED BY <1>1, <2>9, <2>10, <2>11, <2>12, RequestInv
<1>3. CASE req.exc # "too_large"
  <2>1. req' = [req EXCEPT !.pc = "leave"]
    BY <1>3 DEF LeaveSize
  <2>2. /\ req' \in Requests /\ req'.pc = "leave" /\ req'.exc = req.exc /\ req'.path = req.path
        /\ req'.counted = req.counted /\ req'.observed = req.observed /\ req'.sent = req.sent
    BY <1>1, <2>1 DEF Requests, Points
  <2>3. TypeOK' /\ CtxInv'
    BY <1>1, <2>2 DEF IInv, TypeOK, CtxInv, Inner
  <2>4. AnswerInv' /\ AnswersAgree'
    BY <1>1, <1>3, <2>2 DEF IInv, AnswerInv, Inwards, AnswersAgree
  <2> QED BY <1>1, <2>2, <2>3, <2>4, RequestInv
<1> QED BY <1>2, <1>3

LEMMA LeaveStep == ASSUME IInv, Leave PROVE IInv'
<1>1. /\ req \in Requests /\ req.pc = "leave" /\ UNCHANGED <<skipJwt, ctx, tool>>
      /\ ctx = NoContext
      /\ req' = [req EXCEPT !.http = req.observed, !.pc = "idle"]
  BY DEF Leave, IInv, TypeOK, CtxInv, Inner
<1>2. "idle" \in Points /\ req.observed \in Statuses
  BY <1>1 DEF Points, Requests
<1>3. /\ req' \in Requests /\ req'.pc = "idle" /\ req'.exc = req.exc /\ req'.path = req.path
      /\ req'.http = req'.observed
      /\ req'.counted = req.counted /\ req'.observed = req.observed /\ req'.sent = req.sent
  BY <1>1, <1>2 DEF Requests
<1>4. TypeOK' /\ CtxInv'
  BY <1>1, <1>3 DEF IInv, TypeOK, CtxInv, Inner
<1>5. AnswerInv' /\ AnswersAgree'
  BY <1>1, <1>3 DEF IInv, AnswerInv, Inwards, AnswersAgree
<1> QED BY <1>1, <1>3, <1>4, <1>5, RequestInv

LEMMA NextInv == IInv /\ [Next]_vars => IInv'
<1> SUFFICES ASSUME IInv, [Next]_vars PROVE IInv'
  OBVIOUS
<1>1. CASE UNCHANGED vars
  BY <1>1 DEF IInv, TypeOK, CtxInv, AnswerInv, ToolsAdmitted, AuditTrail, ObservedStatus,
              Served, AnswersAgree, vars
<1> QED
  BY <1>1, ArriveStep, TransportStep, AuthenticateStep, LimitStep, ApplicationStep, ToolStep,
     CancelStep, LeaveAuthStep, LeaveSizeStep, LeaveStep DEF Next

-----------------------------------------------------------------------------

\* IInv holds in every reachable state.
THEOREM Invariance == Spec => []IInv
BY InitInv, NextInv, PTL DEF Spec

\* Context, request and tool keep their types.
THEOREM TypeCorrect == Spec => []TypeOK
<1>1. IInv => TypeOK
  BY DEF IInv
<1> QED BY <1>1, Invariance, PTL

\* AuthMiddleware leaves no caller and no request id behind, however a request ends.
THEOREM ContextIsRestored == Spec => []ContextRestored
<1>1. IInv => ContextRestored
  BY DEF IInv, CtxInv, Inner, ContextRestored, Served
<1> QED BY <1>1, Invariance, PTL

\* require_scope lets a tool run only for an admitted request, with the scope of the
\* caller authenticated for that request.
THEOREM OnlyAdmittedToolsRun == Spec => []ToolsAdmitted
<1>1. IInv => ToolsAdmitted
  BY DEF IInv
<1> QED BY <1>1, Invariance, PTL

\* The record that audit_tool leaves names a caller who was let in for the request that
\* it names and held the scope, whatever is served when the run ends.
THEOREM EveryToolIsAudited == Spec => []AuditTrail
<1>1. IInv => AuditTrail
  BY DEF IInv
<1> QED BY <1>1, Invariance, PTL

\* ObservabilityMiddleware observes every request with the status it ended with.
THEOREM StatusIsObserved == Spec => []ObservedStatus
<1>1. IInv => ObservedStatus
  BY DEF IInv
<1> QED BY <1>1, Invariance, PTL

\* Each security header is sent once, and refusals and their counters agree.
THEOREM AnswersAndCountersAgree == Spec => []AnswersAgree
<1>1. IInv => AnswersAgree
  BY DEF IInv
<1> QED BY <1>1, Invariance, PTL

-----------------------------------------------------------------------------
(* The refinement of AuditedAccess. *)

\* A probe is neither authenticated nor limited, and its body is not read.
PathInv == req.pc \in {"auth", "limit"} \/ req.exc = "too_large" => req.path = "mcp"

LEMMA PathInit == Init => PathInv
BY NoneAssumption DEF Init, PathInv, Fresh

\* What a step shows outside: a step of AuditedAccess, or nothing.
Outside == Access!Next \/ UNCHANGED Access!vars

\* What is shown at each position, before a step and after it.
LEMMA ShownNow ==
  /\ req.pc \in {"transport", "auth", "limit"} =>
       Shown = [id |-> req.id, path |-> req.path, stage |-> "asking", caller |-> None]
  /\ req.pc = "app" =>
       Shown = [id |-> req.id, path |-> req.path, stage |-> "served", caller |-> ctx.caller]
  /\ req.pc \in {"leaveAuth", "leaveSize", "leave"} =>
       Shown = [id |-> req.id, path |-> req.path, stage |-> "leaving", caller |-> None]
  /\ req.pc = "idle" =>
       Shown = [id |-> req.id, path |-> req.path, stage |-> "done", caller |-> None]
BY DEF Shown, Stage

LEMMA ShownNext ==
  /\ req'.pc \in {"transport", "auth", "limit"} =>
       Shown' = [id |-> req'.id, path |-> req'.path, stage |-> "asking", caller |-> None]
  /\ req'.pc = "app" =>
       Shown' = [id |-> req'.id, path |-> req'.path, stage |-> "served", caller |-> ctx'.caller]
  /\ req'.pc \in {"leaveAuth", "leaveSize", "leave"} =>
       Shown' = [id |-> req'.id, path |-> req'.path, stage |-> "leaving", caller |-> None]
  /\ req'.pc = "idle" =>
       Shown' = [id |-> req'.id, path |-> req'.path, stage |-> "done", caller |-> None]
BY DEF Shown, Stage

LEMMA ArriveMaps == ASSUME IInv, Arrive PROVE PathInv' /\ Outside
<1>1. PICK path \in {"probe", "mcp"}, length \in {"over", "within", "none"}, over \in BOOLEAN :
        req' = IF length = "over"
               THEN [Send(Count(Fresh(1 - req.id, path, over), "too_large"), 413, 1)
                       EXCEPT !.pc = "leave"]
               ELSE Fresh(1 - req.id, path, over)
  BY DEF Arrive
<1> DEFINE q == Fresh(1 - req.id, path, over)
           p == Count(q, "too_large")
           s == Send(p, 413, 1)
<1>2. req \in Requests /\ Shown.stage = "done" /\ Shown.id = req.id /\ UNCHANGED tool
  BY ShownNow DEF Arrive, IInv, TypeOK
<1>3. q \in Requests
  BY <1>2 DEF Fresh, Requests, Ids, Points, Statuses
<1>4. /\ q.pc = "transport" /\ q.id = 1 - req.id /\ q.path = path /\ q.http = None
      /\ q.counted = {} /\ q.sent = None /\ q.exc = None
  BY DEF Fresh
<1> HIDE DEF q
<1>5. CASE length = "over"
  <2>1. 413 \in Statuses /\ "too_large" \in Refusals
    BY DEF Statuses, Refusals
  <2>2. /\ p \in Requests /\ Same(p, q) /\ p.counted = {"too_large"}
        /\ p.sent = None /\ p.exc = None
    BY <1>3, <1>4, <2>1, CountResult
  <2> HIDE DEF p
  <2>3. /\ s \in Requests /\ Same(s, p) /\ s.counted = {"too_large"} /\ s.exc = None
        /\ s.sent = [status |-> 413, headers |-> 1]
    BY <2>1, <2>2, SendResult
  <2>4. req' = [s EXCEPT !.pc = "leave"]
    BY <1>1, <1>5 DEF s, p, q
  <2> HIDE DEF s
  <2>5. /\ req'.pc = "leave" /\ req'.id = 1 - req.id /\ req'.path = path /\ req'.http = None
        /\ req'.counted = {"too_large"} /\ req'.sent = [status |-> 413, headers |-> 1]
        /\ req'.exc = None
    BY <1>4, <2>2, <2>3, <2>4 DEF Requests, Same
  <2>6. Access!Begin
    BY <1>2, <2>5, ShownNext DEF Access!Begin, Access!Answer
  <2> QED BY <2>5, <2>6, NoneAssumption DEF PathInv, Outside, Access!Next
<1>6. CASE length # "over"
  <2>1. req' = q
    BY <1>1, <1>6 DEF q
  <2>2. Access!Begin
    BY <1>2, <1>4, <2>1, ShownNext DEF Access!Begin
  <2> QED BY <1>4, <2>1, <2>2, NoneAssumption DEF PathInv, Outside, Access!Next
<1> QED BY <1>5, <1>6

\* A request that is asking is refused.
LEMMA RefusalMaps ==
  ASSUME UNCHANGED tool, req.pc \in {"transport", "auth", "limit"}, req.path = "mcp",
         NEW verdict \in Access!Verdicts,
         req'.pc \in {"leaveAuth", "leaveSize"}, req'.id = req.id, req'.path = req.path,
         req'.http = req.http, req'.counted = verdict[2],
         req'.sent = [status |-> verdict[1], headers |-> 1]
  PROVE  PathInv' /\ Outside
<1>1. Shown.stage = "asking" /\ Shown.path = "mcp"
  BY ShownNow
<1>2. Access!Goes("leaving", None)
  BY ShownNow, ShownNext DEF Access!Goes
<1>3. Access!Refuse
  BY <1>1, <1>2 DEF Access!Refuse, Access!Answer
<1> QED BY <1>3 DEF PathInv, Outside, Access!Next

LEMMA TransportMaps == ASSUME IInv, Transport PROVE PathInv' /\ Outside
<1>1. /\ req \in Requests /\ req.pc = "transport" /\ ctx = NoContext
      /\ req.sent = None /\ req.counted = {} /\ req.exc = None /\ UNCHANGED tool
  BY DEF Transport, IInv, TypeOK, CtxInv, AnswerInv, Inner, Inwards
<1>2. CASE req.path = "mcp" /\ req' = [Refuse(req, 400) EXCEPT !.pc = "leaveSize"]
  <2> DEFINE s == Send(req, 400, 1)
             verdict == <<400, {}>>
  <2>1. 400 \in Statuses /\ verdict \in Access!Verdicts /\ verdict[1] = 400 /\ verdict[2] = {}
    BY DEF Statuses, Access!Verdicts
  <2>2. s \in Requests /\ Same(s, req) /\ s.counted = {} /\ s.sent = [status |-> 400, headers |-> 1]
    BY <1>1, <2>1, SendResult
  <2>3. req' = [s EXCEPT !.pc = "leaveSize"]
    BY <1>2, OneHeader
  <2> HIDE DEF s, verdict
  <2>4. /\ req'.pc = "leaveSize" /\ req'.id = req.id /\ req'.path = req.path
        /\ req'.http = req.http /\ req'.counted = verdict[2]
        /\ req'.sent = [status |-> verdict[1], headers |-> 1]
    BY <2>1, <2>2, <2>3 DEF Requests, Same
  <2> QED BY <1>1, <1>2, <2>1, <2>4, RefusalMaps
<1>3. CASE /\ ctx' = [ctx EXCEPT !.meta = req.id]
           /\ req' = [req EXCEPT !.metaToken = <<ctx>>,
                                 !.pc = IF req.path = "probe" THEN "app" ELSE "auth"]
  <2>1. /\ req'.pc = IF req.path = "probe" THEN "app" ELSE "auth"
        /\ req'.id = req.id /\ req'.path = req.path /\ req'.http = req.http
        /\ req'.counted = req.counted /\ req'.sent = req.sent /\ req'.exc = None
    BY <1>1, <1>3 DEF Requests
  <2>2. ctx'.caller = None
    BY <1>1, <1>3 DEF NoContext
  <2>3. CASE req.path = "probe"
    <3>1. Access!Goes("served", None) /\ Shown.stage = "asking" /\ Shown.path = "probe"
      BY <1>1, <2>1, <2>2, <2>3, ShownNow, ShownNext DEF Access!Goes
    <3>2. Access!Admit
      BY <1>1, <2>1, <3>1 DEF Access!Admit, Access!reply
    <3> QED BY <2>1, <2>3, <3>2, NoneAssumption DEF PathInv, Outside, Access!Next
  <2>4. CASE req.path # "probe"
    <3>1. UNCHANGED Shown
      BY <1>1, <2>1, <2>4, ShownNow, ShownNext
    <3>2. PathInv'
      BY <1>1, <2>1, <2>4, NoneAssumption DEF PathInv, Requests
    <3> QED BY <1>1, <2>1, <3>1, <3>2 DEF Outside, Access!vars, Access!reply
  <2> QED BY <2>3, <2>4
<1> QED BY <1>2, <1>3 DEF Transport

LEMMA AuthenticateMaps == ASSUME IInv, PathInv, Authenticate PROVE PathInv' /\ Outside
<1>1. /\ req \in Requests /\ req.pc = "auth" /\ req.path = "mcp"
      /\ req.sent = None /\ req.counted = {} /\ UNCHANGED tool
  BY DEF Authenticate, IInv, TypeOK, AnswerInv, Inwards, PathInv
<1>2. CASE \E c \in {<<ctx>>} : req' = [req EXCEPT !.callerToken = c, !.pc = "limit"]
  <2>1. /\ req'.pc = "limit" /\ req'.id = req.id /\ req'.path = req.path
        /\ req'.http = req.http /\ req'.counted = req.counted /\ req'.sent = req.sent
    BY <1>1, <1>2 DEF Requests
  <2>2. UNCHANGED Shown
    BY <1>1, <2>1, ShownNow, ShownNext
  <2> QED BY <1>1, <2>1, <2>2 DEF PathInv, Outside, Access!vars, Access!reply
<1>3. ASSUME NEW refusal \in {"unauthorized", "jwks_unavailable"},
             req' = [Rejected(req, refusal) EXCEPT !.pc = "leaveAuth"]
      PROVE  PathInv' /\ Outside
  <2> DEFINE status == IF refusal = "unauthorized" THEN 401 ELSE 503
             verdict == <<status, {refusal}>>
             s == Send(req, status, 1)
             p == Count(s, refusal)
  <2>1. /\ status \in Statuses /\ refusal \in Refusals
        /\ verdict \in Access!Verdicts /\ verdict[1] = status /\ verdict[2] = {refusal}
    BY DEF Statuses, Refusals, Access!Verdicts
  <2> HIDE DEF status, verdict
  <2>2. /\ s \in Requests /\ Same(s, req) /\ s.counted = {}
        /\ s.sent = [status |-> status, headers |-> 1]
    BY <1>1, <2>1, SendResult
  <2>3. req' = [p EXCEPT !.pc = "leaveAuth"]
    BY <1>3, OneHeader DEF Rejected, status
  <2> HIDE DEF s
  <2>4. /\ p \in Requests /\ Same(p, s) /\ p.counted = {refusal}
        /\ p.sent = [status |-> status, headers |-> 1]
    BY <2>1, <2>2, CountResult
  <2> HIDE DEF p
  <2>5. /\ req'.pc = "leaveAuth" /\ req'.id = req.id /\ req'.path = req.path
        /\ req'.http = req.http /\ req'.counted = verdict[2]
        /\ req'.sent = [status |-> verdict[1], headers |-> 1]
    BY <2>1, <2>2, <2>3, <2>4 DEF Requests, Same
  <2> QED BY <1>1, <2>1, <2>5, RefusalMaps
<1>4. CASE req' = [req EXCEPT !.exc = "error", !.pc = "leaveAuth"]
  <2>1. /\ req'.pc = "leaveAuth" /\ req'.id = req.id /\ req'.path = req.path
        /\ req'.http = req.http /\ req'.counted = req.counted /\ req'.sent = req.sent
    BY <1>1, <1>4 DEF Requests
  <2>2. Access!Depart
    BY <1>1, <2>1, ShownNow, ShownNext DEF Access!Depart, Access!Goes, Access!reply
  <2> QED BY <1>1, <2>1, <2>2 DEF PathInv, Outside, Access!Next
<1> QED BY <1>2, <1>3, <1>4 DEF Authenticate

LEMMA LimitMaps == ASSUME IInv, PathInv, Limit PROVE PathInv' /\ Outside
<1>1. /\ req \in Requests /\ req.pc = "limit" /\ req.path = "mcp" /\ ctx \in Contexts
      /\ ctx.caller # None /\ ctx.caller.of = req.id
      /\ req.sent = None /\ req.counted = {} /\ UNCHANGED <<ctx, tool>>
  BY DEF Limit, IInv, TypeOK, CtxInv, AnswerInv, Inner, Inwards, PathInv
<1>2. CASE req' = [req EXCEPT !.admitted = TRUE, !.pc = "app"]
  <2>1. /\ req'.pc = "app" /\ req'.id = req.id /\ req'.path = req.path
        /\ req'.http = req.http /\ req'.counted = req.counted /\ req'.sent = req.sent
    BY <1>1, <1>2 DEF Requests
  <2>2. PICK scopes \in SUBSET Scopes : ctx.caller = [of |-> req.id, scopes |-> scopes]
    BY <1>1 DEF Contexts, Callers
  <2>3. Shown.stage = "asking" /\ Shown.path = "mcp" /\ Shown.id = req.id
    BY <1>1, ShownNow
  <2>4. Access!Goes("served", [of |-> Shown.id, scopes |-> scopes])
    BY <1>1, <2>1, <2>2, <2>3, ShownNow, ShownNext DEF Access!Goes
  <2>5. Access!Admit
    BY <1>1, <2>1, <2>3, <2>4 DEF Access!Admit, Access!reply
  <2> QED BY <1>1, <2>1, <2>5 DEF PathInv, Outside, Access!Next
<1>3. CASE req' = [Limited(req) EXCEPT !.pc = "leaveAuth"]
  <2> DEFINE s == Send(req, 429, 1)
             p == Count(s, "rate_limited")
             verdict == <<429, {"rate_limited"}>>
  <2>1. /\ 429 \in Statuses /\ "rate_limited" \in Refusals
        /\ verdict \in Access!Verdicts /\ verdict[1] = 429 /\ verdict[2] = {"rate_limited"}
    BY DEF Statuses, Refusals, Access!Verdicts
  <2> HIDE DEF verdict
  <2>2. /\ s \in Requests /\ Same(s, req) /\ s.counted = {}
        /\ s.sent = [status |-> 429, headers |-> 1]
    BY <1>1, <2>1, SendResult
  <2>3. req' = [p EXCEPT !.pc = "leaveAuth"]
    BY <1>3, OneHeader DEF Limited
  <2> HIDE DEF s
  <2>4. /\ p \in Requests /\ Same(p, s) /\ p.counted = {"rate_limited"}
        /\ p.sent = [status |-> 429, headers |-> 1]
    BY <2>1, <2>2, CountResult
  <2> HIDE DEF p
  <2>5. /\ req'.pc = "leaveAuth" /\ req'.id = req.id /\ req'.path = req.path
        /\ req'.http = req.http /\ req'.counted = verdict[2]
        /\ req'.sent = [status |-> verdict[1], headers |-> 1]
    BY <2>1, <2>2, <2>3, <2>4 DEF Requests, Same
  <2> QED BY <1>1, <2>1, <2>5, RefusalMaps
<1> QED BY <1>2, <1>3 DEF Limit

\* An exception leaves Starlette, which answers it if nothing was answered.
LEMMA EscapeMaps ==
  ASSUME IInv, UNCHANGED <<skipJwt, ctx, tool>>, req.pc = "app",
         NEW exc \in {"too_large", "error"}, exc = "too_large" => req.path = "mcp",
         req' = Escape(req, exc)
  PROVE  PathInv' /\ Outside
<1> DEFINE s == IF req.sent = None THEN Send(req, 500, 1) ELSE req
<1>1. 500 \in Statuses /\ req \in Requests
  BY DEF Statuses, IInv, TypeOK
<1>2. /\ s \in Requests /\ Same(s, req) /\ s.counted = req.counted
      /\ req.sent # None => s.sent = req.sent
      /\ req.sent = None => s.sent = [status |-> 500, headers |-> 1]
  BY <1>1, SendResult DEF Same
<1>3. req' = [s EXCEPT !.exc = exc, !.pc = "leaveAuth"]
  <2>1. Respond(req, 500) = Send(req, 500, 1)
    BY OneHeader
  <2>2. s = IF req.sent = None THEN Respond(req, 500) ELSE req
    BY <2>1
  <2> HIDE DEF s
  <2> QED BY <2>2 DEF Escape
<1> HIDE DEF s
<1>4. /\ req'.pc = "leaveAuth" /\ req'.exc = exc /\ req'.id = req.id /\ req'.path = req.path
      /\ req'.http = req.http /\ req'.counted = req.counted /\ req'.sent = s.sent
  BY <1>2, <1>3 DEF Requests, Same
<1>5. PathInv'
  BY <1>4 DEF PathInv
<1>6. CASE req.sent # None
  <2>1. Access!Depart
    BY <1>2, <1>4, <1>6, ShownNow, ShownNext DEF Access!Depart, Access!Goes, Access!reply
  <2> QED BY <1>5, <2>1 DEF Outside, Access!Next
<1>7. CASE req.sent = None
  <2>1. Access!Fail
    BY <1>2, <1>4, <1>7, ShownNow, ShownNext DEF Access!Fail, Access!Goes, Access!Answer
  <2> QED BY <1>5, <2>1 DEF Outside, Access!Next
<1> QED BY <1>6, <1>7

LEMMA ApplicationMaps ==
  ASSUME IInv, PathInv, AppReads \/ AppResponds \/ AppReturns \/ AppRaises
  PROVE  PathInv' /\ Outside
<1>1. /\ req \in Requests /\ req.pc = "app" /\ req.exc = None
      /\ UNCHANGED <<skipJwt, ctx, tool>>
  BY DEF AppReads, AppResponds, AppReturns, AppRaises, IInv, TypeOK, AnswerInv, Inwards
<1>2. CASE req' = [req EXCEPT !.read = TRUE]
  <2>1. /\ req'.pc = "app" /\ req'.id = req.id /\ req'.path = req.path /\ req'.exc = None
        /\ req'.http = req.http /\ req'.counted = req.counted /\ req'.sent = req.sent
    BY <1>1, <1>2 DEF Requests
  <2>2. UNCHANGED Shown
    BY <1>1, <2>1, ShownNow, ShownNext
  <2> QED BY <1>1, <2>1, <2>2, NoneAssumption DEF PathInv, Outside, Access!vars, Access!reply
<1>3. CASE \E exc \in {"too_large", "error"} :
             (exc = "too_large" => req.path = "mcp") /\ req' = Escape(req, exc)
  BY <1>1, <1>3, EscapeMaps
<1>4. CASE AppResponds
  <2>1. PICK status \in AppStatuses(req.path) : req' = Send(req, status, 1) /\ req.sent = None
    BY <1>4, OneHeader DEF AppResponds
  <2>2. status \in Statuses /\ (status = 503 => req.path = "probe") /\ status \in {200, 404, 503}
    BY <1>1, <2>1 DEF AppStatuses, Statuses, Requests
  <2>3. /\ Same(req', req) /\ req'.counted = req.counted /\ req'.exc = None
        /\ req'.sent = Access!Answer(status)
    BY <1>1, <2>1, <2>2, SendResult DEF Access!Answer
  <2>4. UNCHANGED Shown /\ Shown.stage = "served"
    BY <1>1, <2>3, ShownNow, ShownNext DEF Same
  <2>5. Access!Serve
    BY <1>1, <2>1, <2>2, <2>3, <2>4 DEF Access!Serve, Shown, Same
  <2> QED BY <1>1, <2>3, <2>5, NoneAssumption DEF PathInv, Outside, Access!Next, Same
<1>5. CASE req' = [req EXCEPT !.pc = "leaveAuth"]
  <2>1. /\ req'.pc = "leaveAuth" /\ req'.id = req.id /\ req'.path = req.path /\ req'.exc = None
        /\ req'.http = req.http /\ req'.counted = req.counted /\ req'.sent = req.sent
    BY <1>1, <1>5 DEF Requests
  <2>2. Access!Depart
    BY <1>1, <2>1, ShownNow, ShownNext DEF Access!Depart, Access!Goes, Access!reply
  <2> QED BY <1>1, <2>1, <2>2, NoneAssumption DEF PathInv, Outside, Access!Next
<1> QED BY <1>2, <1>3, <1>4, <1>5 DEF AppReads, AppReturns, AppRaises

\* A tool runs for the caller of the request that calls it, and is recorded as its own.
LEMMA ToolMaps == ASSUME IInv, PathInv, AppCallsTool \/ ToolEnds PROVE PathInv' /\ Outside
<1>1. UNCHANGED <<skipJwt, ctx, req>> /\ PathInv' /\ UNCHANGED Shown
  BY DEF AppCallsTool, ToolEnds, PathInv, Shown, Stage
<1>2. CASE AppCallsTool
  <2>1. PICK needs \in Scopes :
          /\ needs \in GetCaller(ctx)[1].scopes
          /\ tool' = [of |-> req.id, admitted |-> req.admitted, needs |-> needs,
                      caller |-> GetCaller(ctx)[1], outcome |-> None, log |-> None]
    BY <1>2 DEF AppCallsTool
  <2>2. /\ req.pc = "app"
        /\ tool # None => tool.outcome # None
        /\ req.admitted = TRUE /\ ctx.caller # None
    BY <1>2 DEF AppCallsTool, IInv, TypeOK, CtxInv, Inner, Requests
  <2>3. GetCaller(ctx)[1] = ctx.caller
    BY <2>2 DEF GetCaller
  <2>4. Shown.stage = "served" /\ Shown.caller = ctx.caller /\ Shown.id = req.id
    BY <2>2, ShownNow
  <2>5. tool' = [of |-> Shown.id, admitted |-> TRUE, needs |-> needs,
                 caller |-> Shown.caller, outcome |-> None, log |-> None]
    BY <2>1, <2>2, <2>3, <2>4
  <2>6. Access!Call
    BY <1>1, <2>1, <2>2, <2>3, <2>4, <2>5 DEF Access!Call, Access!reply
  <2> QED BY <1>1, <2>6 DEF Outside, Access!Next
<1>3. CASE ToolEnds
  <2>1. PICK outcome \in Outcomes :
          tool' = [tool EXCEPT !.outcome = outcome, !.log = Audited(tool, outcome)]
    BY <1>3 DEF ToolEnds
  <2>2. PICK event \in {"tool_ok", "tool_error"} :
          Audited(tool, outcome) =
            [caller |-> tool.caller, request |-> tool.of,
             success |-> outcome \in {"returned", "cancelled"}, event |-> event]
    BY DEF Audited
  <2>3. Access!Record
    BY <1>1, <1>3, <2>1, <2>2 DEF ToolEnds, Outcomes, Access!Record, Access!reply
  <2> QED BY <1>1, <2>3 DEF Outside, Access!Next
<1> QED BY <1>2, <1>3

LEMMA CancelMaps == ASSUME IInv, Cancel PROVE PathInv' /\ Outside
<1>1. /\ req \in Requests /\ req.pc \in Points \ {"idle"} /\ UNCHANGED <<skipJwt, ctx, tool>>
  BY DEF Cancel, IInv, TypeOK, Requests
<1> DEFINE point == CASE req.pc \in {"auth", "limit", "app"} -> "leaveAuth"
                      [] req.pc = "transport" -> "leaveSize"
                      [] OTHER -> req.pc
<1>2. /\ point \in {"leaveAuth", "leaveSize", "leave"}
      /\ req.pc \in Inwards \/ req.pc = point
  BY <1>1 DEF Points, Inwards
<1>3. req' = [req EXCEPT !.exc = "cancelled", !.pc = point]
  BY DEF Cancel
<1> HIDE DEF point
<1>4. /\ req'.pc = point /\ req'.exc = "cancelled" /\ req'.id = req.id /\ req'.path = req.path
      /\ req'.http = req.http /\ req'.counted = req.counted /\ req'.sent = req.sent
  BY <1>1, <1>3 DEF Requests
<1>5. PathInv'
  BY <1>2, <1>4 DEF PathInv
<1>6. CASE req.pc \in Inwards
  <2>1. Access!Depart
    BY <1>1, <1>2, <1>4, <1>6, ShownNow, ShownNext
    DEF Inwards, Access!Depart, Access!Goes, Access!reply
  <2> QED BY <1>5, <2>1 DEF Outside, Access!Next
<1>7. CASE req.pc = point
  <2>1. UNCHANGED Shown
    BY <1>2, <1>4, <1>7, ShownNow, ShownNext
  <2> QED BY <1>1, <1>4, <1>5, <2>1 DEF Outside, Access!vars, Access!reply
<1> QED BY <1>2, <1>6, <1>7

LEMMA LeaveAuthMaps == ASSUME IInv, PathInv, LeaveAuth PROVE PathInv' /\ Outside
<1>1. /\ req \in Requests /\ req.pc = "leaveAuth" /\ UNCHANGED tool
      /\ req' = [req EXCEPT !.pc = "leaveSize"]
  BY DEF LeaveAuth, IInv, TypeOK
<1>2. /\ req'.pc = "leaveSize" /\ req'.exc = req.exc /\ req'.id = req.id /\ req'.path = req.path
      /\ req'.http = req.http /\ req'.counted = req.counted /\ req'.sent = req.sent
  BY <1>1 DEF Requests
<1>3. UNCHANGED Shown
  BY <1>1, <1>2, ShownNow, ShownNext
<1> QED BY <1>1, <1>2, <1>3 DEF PathInv, Outside, Access!vars, Access!reply

\* The size limit answers its own exception, if nothing was answered.
LEMMA LeaveSizeMaps == ASSUME IInv, PathInv, LeaveSize PROVE PathInv' /\ Outside
<1>1. req \in Requests /\ req.pc = "leaveSize" /\ UNCHANGED <<skipJwt, ctx, tool>>
  BY DEF LeaveSize, IInv, TypeOK
<1>2. CASE req.exc = "too_large"
  <2> DEFINE c == Count(req, "too_large")
             p == [c EXCEPT !.exc = None]
             s == Send(p, 413, 1)
  <2>1. /\ 413 \in Statuses /\ "too_large" \in Refusals
        /\ req.counted = {} /\ req.path = "mcp"
    BY <1>2 DEF Statuses, Refusals, IInv, AnswerInv, PathInv
  <2>2. c \in Requests /\ Same(c, req) /\ c.counted = {"too_large"} /\ c.sent = req.sent
    BY <1>1, <2>1, CountResult
  <2>3. req' = [s EXCEPT !.pc = "leave"]
    BY <1>2 DEF LeaveSize
  <2> HIDE DEF c
  <2>4. p \in Requests /\ Same(p, c) /\ p.counted = {"too_large"} /\ p.sent = req.sent
    BY <2>2 DEF Requests, Same
  <2> HIDE DEF p
  <2>5. /\ s \in Requests /\ Same(s, p) /\ s.counted = {"too_large"}
        /\ s.sent = IF req.sent = None THEN Access!Answer(413) ELSE req.sent
    BY <2>1, <2>4, SendResult DEF Access!Answer
  <2> HIDE DEF s
  <2>6. /\ req'.pc = "leave" /\ req'.id = req.id /\ req'.path = req.path /\ req'.http = req.http
        /\ req'.counted = {"too_large"}
        /\ req'.sent = IF req.sent = None THEN Access!Answer(413) ELSE req.sent
    BY <2>2, <2>3, <2>4, <2>5 DEF Requests, Same
  <2>7. UNCHANGED Shown /\ Shown.stage = "leaving" /\ Shown.path = "mcp"
    BY <1>1, <2>1, <2>6, ShownNow, ShownNext
  <2>8. Access!Cut
    BY <1>1, <2>1, <2>6, <2>7 DEF Access!Cut
  <2> QED BY <2>1, <2>6, <2>8 DEF PathInv, Outside, Access!Next
<1>3. CASE req.exc # "too_large"
  <2>1. req' = [req EXCEPT !.pc = "leave"]
    BY <1>3 DEF LeaveSize
  <2>2. /\ req'.pc = "leave" /\ req'.exc = req.exc /\ req'.id = req.id /\ req'.path = req.path
        /\ req'.http = req.http /\ req'.counted = req.counted /\ req'.sent = req.sent
    BY <1>1, <2>1 DEF Requests
  <2>3. UNCHANGED Shown
    BY <1>1, <2>2, ShownNow, ShownNext
  <2> QED BY <1>1, <1>3, <2>2, <2>3 DEF PathInv, Outside, Access!vars, Access!reply
<1> QED BY <1>2, <1>3

LEMMA LeaveMaps == ASSUME IInv, PathInv, Leave PROVE PathInv' /\ Outside
<1>1. /\ req \in Requests /\ req.pc = "leave" /\ UNCHANGED tool
      /\ req' = [req EXCEPT !.http = req.observed, !.pc = "idle"]
  BY DEF Leave, IInv, TypeOK
<1>2. /\ req'.pc = "idle" /\ req'.exc = req.exc /\ req'.id = req.id /\ req'.path = req.path
      /\ req'.http = req.observed /\ req'.counted = req.counted /\ req'.sent = req.sent
  BY <1>1 DEF Requests
<1>3. req.observed = IF "too_large" \in req.counted THEN 413
                     ELSE IF req.sent = None THEN 500 ELSE req.sent.status
  BY DEF IInv, AnswerInv
<1>4. Access!Observe
  BY <1>1, <1>2, <1>3, ShownNow, ShownNext DEF Access!Observe, Access!Goes
<1> QED BY <1>1, <1>2, <1>4 DEF PathInv, Outside, Access!Next

LEMMA NextMaps == IInv /\ PathInv /\ [Next]_vars => PathInv' /\ [Access!Next]_(Access!vars)
<1> SUFFICES ASSUME IInv, PathInv, [Next]_vars PROVE PathInv' /\ Outside
  BY DEF Outside
<1>1. CASE UNCHANGED vars
  BY <1>1 DEF vars, PathInv, Outside, Access!vars, Access!reply, Shown, Stage
<1> QED
  BY <1>1, ArriveMaps, TransportMaps, AuthenticateMaps, LimitMaps, ApplicationMaps, ToolMaps,
     CancelMaps, LeaveAuthMaps, LeaveSizeMaps, LeaveMaps DEF Next

\* Spec implements the pipeline without layers: however exceptions, cancellations and tools
\* that outlive their requests interleave, a request is let in before it is served and answered
\* at most once, it is observed with its answer, and every tool run is the caller's own.
THEOREM PipelineIsAuditedAccess == Spec => AccessImplemented
<1>1. Init => Access!Init
  BY ShownNow DEF Init, Fresh, Access!Init
<1> QED BY <1>1, PathInit, NextMaps, Invariance, PTL DEF Spec, AccessImplemented, Access!Spec
=============================================================================

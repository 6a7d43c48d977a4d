--------------------------- MODULE BackendsProofs ---------------------------
(***************************************************************************)
(* The safety of the backends' lifecycle for every set of backends of each *)
(* kind, every override and any number of concurrent requests of /ready.   *)
(* The argument follows the lifespan: in each phase the coroutines that    *)
(* still run and the managers with an instance account for every           *)
(* configured backend, and a client object is open only in the hands of a  *)
(* manager whose close has not raised.                                     *)
(***************************************************************************)
EXTENDS Backends, TLAPS

\* What the sets of the lifecycle have to do with one another in each phase.
PhaseInv ==
  /\ instance \cup failed \cup waiting \subseteq configured
  /\ instance \cap failed = {} /\ raised \subseteq instance
  /\ phase = "starting" =>
       /\ configured = waiting \cup instance \cup failed
       /\ waiting \cap instance = {} /\ waiting \cap failed = {} /\ instance \cap failed = {}
       /\ raised = {} /\ waiting \cap Lazy = {}
  /\ phase = "serving" =>
       /\ configured = instance \cup failed /\ instance \cap failed = {}
       /\ counted = failed /\ waiting = {} /\ raised = {}
  /\ phase = "closing" => /\ instance = waiting \cup raised /\ waiting \cap raised = {}
                          /\ waiting \cap Sessions = {}
  /\ phase = "stopped" => instance = raised

\* An open client is its manager's, a dropped one a failed init's; a session has none.
ClientInv ==
  \A b \in Backends :
    /\ client[b] = "open" <=> b \in instance \ (raised \cup Sessions)
    /\ b \in Sessions => client[b] = "none"
    /\ b \in configured \ (instance \cup failed) =>
         client[b] = IF phase = "starting" \/ b \in Sessions THEN "none" ELSE "closed"
    /\ b \notin configured => client[b] = "none"
    /\ client[b] = "dropped" => b \in failed
    /\ client[b] = "broken" => b \in raised

\* A request of /ready has a status for what can have one, and has seen what is up.
ReadyInv ==
  \A r \in Probers :
    /\ phase # "serving" => ready[r] = NoRequest
    /\ ready[r].state = "probing" => up \subseteq ready[r].seen
    /\ ready[r].healthy => ready[r].state = "answered" /\ Healthy(ready[r].checks)
    /\ ready[r].state # "idle" =>
         \A b \in Backends :
           /\ b \notin configured => ready[r].checks[b] = "not_configured"
           /\ b \in configured => ready[r].checks[b] # "not_configured"
           /\ b \in configured \ instance => ready[r].checks[b] = "error"
           /\ ready[r].checks[b] = "ok" => b \in ready[r].seen
    /\ ready[r].state = "answered" => \A b \in Backends : ready[r].checks[b] # "waiting"

IInv == TypeOK /\ PhaseInv /\ ClientInv /\ ReadyInv

-----------------------------------------------------------------------------

LEMMA NoRequestIsIdle == NoRequest.state = "idle" /\ NoRequest.healthy = FALSE
BY DEF NoRequest

LEMMA InitInv == Init => IInv
<1> SUFFICES ASSUME Init PROVE IInv
  OBVIOUS
<1>1. NoRequest \in Requests /\ required \subseteq Backends
  BY KindsAssumption DEF Init, NoRequest, Requests, Statuses, Requirements
<1>2. client \in [Backends -> {"none", "open"}]
      /\ \A b \in Backends : client[b] = IF b \in instance \ Sessions THEN "open" ELSE "none"
  BY DEF Init, Opened
<1>3. TypeOK
  BY <1>1, <1>2, KindsAssumption DEF Init, TypeOK
<1>4. PhaseInv
  BY DEF Init, PhaseInv
<1>5. ClientInv
  <2>1. phase = "starting" /\ raised = {} /\ instance \subseteq configured
    BY DEF Init
  <2> QED BY <1>2, <2>1 DEF ClientInv
<1>6. ReadyInv
  BY DEF Init, ReadyInv, NoRequest
<1> QED BY <1>3, <1>4, <1>5, <1>6 DEF IInv

\* The lifespan's own steps: no request of /ready is there to be disturbed.
LEMMA LifespanStep ==
  ASSUME IInv,
         \/ InitDone \/ Shutdown \/ Abandon \/ CloseDone
         \/ \E b \in Backends : Settle(b) \/ Release(b)
  PROVE  IInv'
<1>1. NoRequest \in Requests
  BY DEF NoRequest, Requests, Statuses
<1>2. ASSUME InitDone \/ Shutdown \/ Abandon \/ CloseDone PROVE IInv'
  <2>1. TypeOK'
    BY <1>1, <1>2 DEF IInv, TypeOK, InitDone, Shutdown, Abandon, CloseDone, settings
  <2>2. PhaseInv'
    BY <1>2 DEF IInv, TypeOK, PhaseInv, InitDone, Shutdown, Abandon, CloseDone, settings
  <2>3. ClientInv'
    <3>1. CASE InitDone
      BY <3>1 DEF IInv, PhaseInv, ClientInv, InitDone, settings
    <3>2. CASE Shutdown
      <4>1. /\ configured = instance \cup failed /\ raised = {}
            /\ phase' = "closing" /\ instance' = instance \ Sessions
            /\ UNCHANGED <<configured, failed, client, raised>>
        BY <3>2 DEF IInv, PhaseInv, Shutdown, settings
      <4> QED BY <4>1 DEF IInv, ClientInv
    <3>3. CASE Abandon \/ CloseDone
      <4>1. /\ phase # "starting" /\ phase' # "starting"
            /\ UNCHANGED <<configured, failed, client, raised, instance>>
        BY <3>3 DEF Abandon, CloseDone, settings
      <4> QED BY <4>1 DEF IInv, ClientInv
    <3> QED BY <1>2, <3>1, <3>2, <3>3
  <2>4. \A r \in Probers : ready'[r] = NoRequest
    BY <1>2 DEF IInv, ReadyInv, InitDone, Shutdown, Abandon, CloseDone
  <2>5. \A r \in Probers : /\ ready'[r] = NoRequest
                           /\ ready'[r].state = "idle" /\ ready'[r].healthy = FALSE
    BY <2>4, NoRequestIsIdle
  <2>6. ReadyInv'
    BY <2>5 DEF ReadyInv
  <2> QED BY <2>1, <2>2, <2>3, <2>6 DEF IInv
<1>3. ASSUME NEW b \in Backends, Settle(b) \/ Release(b) PROVE IInv'
  <2>1. TypeOK'
    BY <1>3 DEF IInv, TypeOK, Settle, Release, Connected, ConnectFails, Closed, CloseRaises, settings
  <2>2. PhaseInv'
    <3>1. CASE Settle(b)
      BY <3>1 DEF IInv, PhaseInv, Settle, Connected, ConnectFails, settings
    <3>2. CASE Release(b)
      BY <3>2 DEF IInv, PhaseInv, Release, Closed, CloseRaises, settings
    <3> QED BY <1>3, <3>1, <3>2
  <2>3. ClientInv'
    <3>1. CASE Settle(b)
      BY <3>1, KindsAssumption
      DEF IInv, TypeOK, PhaseInv, ClientInv, Settle, Connected, ConnectFails, settings
    <3>2. CASE Release(b)
      BY <3>2 DEF IInv, TypeOK, PhaseInv, ClientInv, Release, Closed, CloseRaises, settings
    <3> QED BY <1>3, <3>1, <3>2
  <2>4. \A r \in Probers : ready'[r] = NoRequest
    BY <1>3 DEF IInv, ReadyInv, Settle, Release, Connected, ConnectFails, Closed, CloseRaises
  <2>5. \A r \in Probers : /\ ready'[r] = NoRequest
                           /\ ready'[r].state = "idle" /\ ready'[r].healthy = FALSE
    BY <2>4, NoRequestIsIdle
  <2>6. ReadyInv'
    BY <2>5 DEF ReadyInv
  <2> QED BY <2>1, <2>2, <2>3, <2>6 DEF IInv
<1> QED BY <1>2, <1>3

\* A step of a request of /ready leaves the lifespan alone.
LEMMA ReadyStep ==
  ASSUME IInv, NEW r \in Probers,
         Ask(r) \/ Answer(r) \/ \E b \in Backends : Probe(r, b)
  PROVE  IInv'
<1>1. /\ UNCHANGED <<settings, phase, waiting, failed, counted, instance, client, raised, up>>
      /\ phase = "serving"
  BY DEF IInv, ReadyInv, NoRequest, Ask, Answer, Probe
<1>2. PhaseInv' /\ ClientInv'
  BY <1>1 DEF IInv, PhaseInv, ClientInv, settings
<1>3. CASE Ask(r)
  <2> DEFINE q == [state |-> "probing", healthy |-> FALSE, seen |-> up,
                   checks |-> [b \in Backends |-> FirstCheck(b)]]
  <2>1. q \in Requests
    BY DEF IInv, TypeOK, Requests, Statuses, FirstCheck
  <2>2. ready' = [ready EXCEPT ![r] = q]
    BY <1>3 DEF Ask
  <2>3. \A b \in Backends :
          /\ b \notin configured => q.checks[b] = "not_configured"
          /\ b \in configured => q.checks[b] # "not_configured"
          /\ b \in configured \ instance => q.checks[b] = "error"
          /\ q.checks[b] # "ok"
    BY DEF FirstCheck
  <2>4. q.state = "probing" /\ ~q.healthy /\ q.seen = up
    OBVIOUS
  <2> HIDE DEF q
  <2>5. TypeOK'
    BY <1>1, <2>1, <2>2 DEF IInv, TypeOK, settings
  <2>6. ReadyInv'
    BY <1>1, <2>2, <2>3, <2>4 DEF IInv, TypeOK, ReadyInv, Healthy, settings
  <2> QED BY <1>2, <2>5, <2>6 DEF IInv
<1>4. CASE Answer(r)
  <2> DEFINE q == [ready[r] EXCEPT !.state = "answered", !.healthy = Healthy(ready[r].checks)]
  <2>1. Healthy(ready[r].checks) \in BOOLEAN
    BY DEF Healthy
  <2>2. q \in Requests
    BY <2>1 DEF IInv, TypeOK, Requests
  <2>3. /\ ready' = [ready EXCEPT ![r] = q]
        /\ ready[r].state = "probing"
        /\ \A b \in Backends : ready[r].checks[b] # "waiting"
    BY <1>4 DEF Answer, IInv, TypeOK
  <2>4. /\ q.state = "answered" /\ q.checks = ready[r].checks /\ q.seen = ready[r].seen
        /\ q.healthy => Healthy(q.checks)
    BY DEF IInv, TypeOK, Requests
  <2> HIDE DEF q
  <2>5. TypeOK'
    BY <1>1, <2>2, <2>3 DEF IInv, TypeOK, settings
  <2>6. ReadyInv'
    BY <1>1, <2>3, <2>4 DEF IInv, TypeOK, ReadyInv, Healthy, settings
  <2> QED BY <1>2, <2>5, <2>6 DEF IInv
<1>5. CASE \E b \in Backends : Probe(r, b)
  <2>1. PICK b \in Backends, answer \in {"ok", "error"} :
          /\ ready[r].state = "probing" /\ ready[r].checks[b] = "waiting"
          /\ answer = "ok" => b \in up
          /\ ready' = [ready EXCEPT ![r].checks[b] = answer]
    BY <1>5 DEF Probe
  <2> DEFINE q == [ready[r] EXCEPT !.checks[b] = answer]
  <2>2. q \in Requests
    BY DEF IInv, TypeOK, Requests, Statuses
  <2>3. ready' = [ready EXCEPT ![r] = q]
    BY <2>1 DEF IInv, TypeOK
  <2>4. /\ q.state = "probing" /\ q.seen = ready[r].seen /\ q.healthy = ready[r].healthy
        /\ q.checks = [ready[r].checks EXCEPT ![b] = answer]
        /\ ready[r].checks \in [Backends -> Statuses]
    BY <2>1 DEF IInv, TypeOK, Requests
  <2> HIDE DEF q
  <2>5. TypeOK'
    BY <1>1, <2>2, <2>3 DEF IInv, TypeOK, settings
  <2>6. ReadyInv'
    BY <1>1, <2>1, <2>3, <2>4 DEF IInv, TypeOK, ReadyInv, Healthy, settings
  <2> QED BY <1>2, <2>5, <2>6 DEF IInv
<1> QED BY <1>3, <1>4, <1>5

\* A backend that goes away or comes back is seen by the requests in progress.
LEMMA FlipStep ==
  ASSUME IInv, NEW b \in Backends, Flip(b)
  PROVE  IInv'
<1>1. UNCHANGED <<settings, phase, waiting, failed, counted, instance, client, raised>>
      /\ up' \subseteq Backends
  BY DEF Flip, IInv, TypeOK
<1>2. \A r \in Probers :
        /\ ready'[r] \in Requests
        /\ ready'[r].state = ready[r].state /\ ready'[r].healthy = ready[r].healthy
        /\ ready'[r].checks = ready[r].checks
        /\ ready[r].seen \subseteq ready'[r].seen
        /\ ready[r].state = "probing" => up' \subseteq ready'[r].seen
        /\ ready[r].state # "probing" => ready'[r] = ready[r]
  <2> TAKE r \in Probers
  <2>1. CASE ready[r].state = "probing"
    BY <1>1, <2>1 DEF Flip, IInv, TypeOK, Requests
  <2>2. CASE ready[r].state # "probing"
    BY <2>2 DEF Flip, IInv, TypeOK
  <2> QED BY <2>1, <2>2
<1>3. TypeOK'
  <2>1. ready' \in [Probers -> Requests]
    BY <1>2 DEF Flip
  <2> QED BY <1>1, <2>1 DEF IInv, TypeOK, settings
<1>4. PhaseInv' /\ ClientInv'
  BY <1>1 DEF IInv, PhaseInv, ClientInv, settings
<1>5. ReadyInv'
  <2> SUFFICES ASSUME NEW r \in Probers PROVE ReadyInv!(r)'
    BY DEF ReadyInv
  <2>1. CASE ready[r].state = "probing"
    BY <1>1, <1>2, <2>1, NoRequestIsIdle DEF IInv, ReadyInv, settings
  <2>2. CASE ready[r].state # "probing"
    BY <1>1, <1>2, <2>2 DEF IInv, ReadyInv, Healthy, settings
  <2> QED BY <2>1, <2>2
<1> QED BY <1>3, <1>4, <1>5 DEF IInv

LEMMA NextInv == IInv /\ [Next]_vars => IInv'
<1> SUFFICES ASSUME IInv, [Next]_vars PROVE IInv'
  OBVIOUS
<1>1. CASE UNCHANGED vars
  BY <1>1 DEF IInv, TypeOK, PhaseInv, ClientInv, ReadyInv, Healthy, vars, settings
<1> QED
  BY <1>1, LifespanStep, ReadyStep, FlipStep DEF Next

-----------------------------------------------------------------------------

\* IInv holds in every reachable state.
THEOREM Invariance == Spec => []IInv
BY InitInv, NextInv, PTL DEF Spec

\* Every variable keeps its type, whatever fails to connect, answer or close.
THEOREM TypeCorrect == Spec => []TypeOK
<1>1. IInv => TypeOK
  BY DEF IInv
<1> QED BY <1>1, Invariance, PTL

\* A 200 of /ready means that every configured backend was initialised and answered
\* while the request ran, and that no required one lacks its setting.
THEOREM ReadinessIsTrue == Spec => []ReadyIsTrue
<1>1. IInv => ReadyIsTrue
  <2> SUFFICES ASSUME IInv, NEW r \in Probers, ready[r].healthy
               PROVE  /\ required \subseteq configured
                      /\ configured \cap failed = {}
                      /\ configured \subseteq ready[r].seen
    BY DEF ReadyIsTrue, ReadyNeedsInit, ReadyIsRecent
  <2>1. /\ ready[r].state = "answered" /\ Healthy(ready[r].checks)
        /\ phase = "serving"
        /\ required \subseteq Backends /\ configured \subseteq Backends
        /\ ready[r].checks \in [Backends -> Statuses]
    BY DEF IInv, ReadyInv, NoRequest, TypeOK, Requests
  <2>2. required \subseteq configured
    BY <2>1 DEF IInv, ReadyInv, Healthy
  <2>3. configured \cap failed = {}
    BY <2>1 DEF IInv, ReadyInv, PhaseInv, Healthy
  <2>4. \A b \in configured : ready[r].checks[b] = "ok"
    BY <2>1 DEF IInv, ReadyInv, Healthy, Statuses
  <2> QED BY <2>1, <2>2, <2>3, <2>4 DEF IInv, ReadyInv
<1> QED BY <1>1, Invariance, PTL

\* No backend is lost sight of between start and stop: it has an instance or its
\* failure was counted, and at the end its client was closed, or something raised.
THEOREM BackendsAreAccounted == Spec => []Accounted
<1>1. IInv => Accounted
  BY DEF IInv, PhaseInv, ClientInv, Accounted
<1> QED BY <1>1, Invariance, PTL

-----------------------------------------------------------------------------
(* What EveryPhaseEnds rests on, besides fairness. *)

\* The gather of init_all and of close_all: a step takes one coroutine off it, or ends
\* the phase when none is left.
GatherGoesOn ==
  phase \in {"starting", "closing"} =>
  IF waiting = {} THEN <<phase, phase'>> \in {<<"starting", "serving">>, <<"closing", "stopped">>}
  ELSE phase' = phase /\ \E b \in waiting : waiting' = waiting \ {b}

\* Nothing but the end of one of its coroutines happens while the process starts or stops,
\* no request of /ready and no flip, and a gather is left when all have ended and not
\* before: with n coroutines on the gather the phase is over after n + 1 steps.
THEOREM GathersRunDown == Spec => [][GatherGoesOn]_vars
<1>1. IInv /\ [Next]_vars => [GatherGoesOn]_vars
  <2> SUFFICES ASSUME IInv, Next, phase \in {"starting", "closing"}
               PROVE  GatherGoesOn
    BY DEF GatherGoesOn
  <2>1. \A r \in Probers : ready[r].state = "idle"
    BY NoRequestIsIdle DEF IInv, ReadyInv
  <2>2. ASSUME InitDone \/ Shutdown \/ Abandon \/ CloseDone
        PROVE  GatherGoesOn
    BY <2>2 DEF InitDone, Shutdown, Abandon, CloseDone, GatherGoesOn
  <2>3. ASSUME NEW b \in Backends, Settle(b) \/ Release(b)
        PROVE  GatherGoesOn
    BY <2>3 DEF Settle, Release, Connected, ConnectFails, Closed, CloseRaises, GatherGoesOn
  <2>4. ASSUME NEW b \in Backends, Flip(b)
        PROVE  FALSE
    BY <2>1, <2>4 DEF Flip, Idle
  <2>5. ASSUME NEW r \in Probers, Ask(r) \/ Answer(r) \/ \E b \in Backends : Probe(r, b)
        PROVE  FALSE
    BY <2>1, <2>5 DEF Ask, Answer, Probe
  <2> QED BY <2>2, <2>3, <2>4, <2>5 DEF Next
<1> QED BY <1>1, Invariance, PTL DEF Spec

-----------------------------------------------------------------------------
(* One backend among the others. *)

LEMMA LifeInit ==
  ASSUME Init, NEW b \in Backends
  PROVE  Life(b)!Init
<1>1. raised = {} /\ phase = "starting"
  BY DEF Init
<1>2. Stage(b) \in {"unset", "coming", "held", "lost"}
  BY <1>1 DEF Stage
<1>3. Vouched = FALSE /\ (b \in counted) = FALSE
  BY DEF Init, NoRequest, Vouched
<1>4. client[b] \in Life(b)!Clients[Stage(b)]
  <2>1. /\ client[b] = IF b \in instance \ Sessions THEN "open" ELSE "none"
        /\ instance = (configured \cap Lazy) \ failed
    BY DEF Init, Opened
  <2>2. Stage(b) \in {"unset", "coming", "lost"} => b \notin instance
    BY <1>1, <2>1 DEF Stage
  <2> QED BY <1>2, <2>1, <2>2 DEF Life!Clients
<1> QED BY <1>1, <1>2, <1>3, <1>4 DEF Life!Init

\* A 200 of /ready that stands speaks for every backend.
VouchInv == Vouched => \A b \in Backends : Stage(b) \in {"held", "unset"}

LEMMA VouchHolds == Spec => []VouchInv
<1>1. IInv /\ ReadyIsTrue => VouchInv
  <2> SUFFICES ASSUME IInv, ReadyIsTrue, NEW r \in Probers, ready[r].healthy,
                      NEW b \in Backends
               PROVE  Stage(b) \in {"held", "unset"}
    BY DEF VouchInv, Vouched
  <2>1. ready[r] # NoRequest
    BY NoRequestIsIdle
  <2>2. phase = "serving"
    BY <2>1 DEF IInv, ReadyInv
  <2>3. configured \cap failed = {} /\ configured = instance \cup failed /\ raised = {}
    BY <2>2 DEF ReadyIsTrue, ReadyNeedsInit, IInv, PhaseInv
  <2> QED BY <2>3 DEF Stage
<1> QED BY <1>1, Invariance, ReadinessIsTrue, PTL

\* Of a backend that is set up or given up, the others see nothing.
LEMMA SettleLife ==
  ASSUME IInv, NEW b \in Backends, NEW c \in Backends, Settle(c)
  PROVE  Life(b)!Next \/ UNCHANGED Life(b)!vars
<1>1. /\ phase = "starting" /\ c \in waiting /\ UNCHANGED <<configured, phase, raised, counted>>
      /\ \/ instance' = instance \cup {c} /\ failed' = failed
         \/ instance' = instance /\ failed' = failed \cup {c}
      /\ Vouched' = Vouched
  BY DEF Settle, Connected, ConnectFails, settings, Vouched
<1>2. c \in configured \ (instance \cup failed) /\ raised = {} /\ client[c] = "none"
  BY <1>1 DEF IInv, PhaseInv, ClientInv
<1>3. /\ instance' = instance \cup {c} => client'[c] = "open"
      /\ failed' = failed \cup {c} => client'[c] \in {"none", "dropped"}
      /\ b # c => client'[b] = client[b]
  BY <1>2 DEF Settle, Connected, ConnectFails, IInv, TypeOK
<1>4. (b \in counted)' = (b \in counted)
  BY <1>1
<1>5. CASE b = c
  <2>1. Stage(b) = "coming"
    BY <1>1, <1>2, <1>5 DEF Stage
  <2>2. \/ Stage(b)' = "held" /\ client'[c] = "open"
        \/ Stage(b)' = "lost" /\ client'[c] \in {"none", "dropped"}
    BY <1>1, <1>2, <1>3, <1>5 DEF Stage
  <2>3. Life(b)!SetUp
    BY <1>1, <1>4, <1>5, <2>1, <2>2 DEF Life!SetUp, Life!Clients
  <2> QED BY <2>3 DEF Life!Next
<1>6. CASE b # c
  <2>1. Stage(b)' = Stage(b)
    BY <1>1, <1>6 DEF Stage
  <2> QED BY <1>1, <1>3, <1>4, <1>6, <2>1 DEF Life!vars
<1> QED BY <1>5, <1>6

LEMMA ReleaseLife ==
  ASSUME IInv, NEW b \in Backends, NEW c \in Backends, Release(c)
  PROVE  Life(b)!Next \/ UNCHANGED Life(b)!vars
<1>1. /\ phase = "closing" /\ c \in waiting /\ UNCHANGED <<configured, phase, failed, counted>>
      /\ \/ instance' = instance \ {c} /\ raised' = raised /\ client'[c] = "closed"
         \/ instance' = instance /\ raised' = raised \cup {c} /\ client'[c] = "broken"
      /\ b # c => client'[b] = client[b]
      /\ Vouched' = Vouched
  BY DEF Release, Closed, CloseRaises, settings, Vouched, IInv, TypeOK
<1>2. c \in configured \ (failed \cup raised) /\ c \in instance /\ client[c] = "open"
  BY <1>1 DEF IInv, PhaseInv, ClientInv
<1>3. (b \in counted)' = (b \in counted)
  BY <1>1
<1>4. CASE b = c
  <2>1. Stage(b) = "held"
    BY <1>1, <1>2, <1>4 DEF Stage
  <2>2. \/ Stage(b)' = "closed" /\ client'[c] = "closed"
        \/ Stage(b)' = "stuck" /\ client'[c] = "broken"
    BY <1>1, <1>2, <1>4 DEF Stage
  <2>3. Life(b)!GiveUp
    BY <1>1, <1>2, <1>3, <1>4, <2>1, <2>2 DEF Life!GiveUp
  <2> QED BY <2>3 DEF Life!Next
<1>5. CASE b # c
  <2>1. Stage(b)' = Stage(b)
    BY <1>1, <1>5 DEF Stage
  <2> QED BY <1>1, <1>3, <1>5, <2>1 DEF Life!vars
<1> QED BY <1>4, <1>5

LEMMA PhaseLife ==
  ASSUME IInv, NEW b \in Backends, InitDone \/ Shutdown \/ Abandon \/ CloseDone
  PROVE  Life(b)!Next
<1>1. CASE InitDone
  <2>1. /\ phase = "starting" /\ phase' = "serving" /\ configured = instance \cup failed
        /\ UNCHANGED <<configured, failed, raised, instance, client>> /\ counted' = failed
        /\ raised = {} /\ instance \cap failed = {} /\ Vouched' = Vouched
    BY <1>1 DEF InitDone, settings, Vouched, IInv, PhaseInv
  <2>2. Stage(b) # "coming" /\ Stage(b)' = Stage(b)
    BY <2>1 DEF Stage
  <2>3. (b \in counted)' = (Stage(b) = "lost")
    <3>1. b \in counted' <=> Stage(b) = "lost"
      BY <2>1 DEF Stage
    <3> QED BY <3>1
  <2>4. Life(b)!Serve
    BY <2>1, <2>2, <2>3 DEF Life!Serve
  <2> QED BY <2>4 DEF Life!Next
<1>2. CASE Shutdown
  <2>1. /\ phase = "serving" /\ phase' = "closing" /\ configured = instance \cup failed
        /\ UNCHANGED <<configured, failed, raised, client, counted>>
        /\ instance' = instance \ Sessions /\ instance \cap failed = {} /\ raised = {}
        /\ ready' = [r \in Probers |-> NoRequest]
    BY <1>2 DEF Shutdown, settings, IInv, PhaseInv
  <2>2. b \in instance => (client[b] = "none" <=> b \in Sessions)
    BY <2>1 DEF IInv, ClientInv
  <2>3. Stage(b) = "held" <=> b \in instance
    BY <2>1 DEF Stage
  <2>4. Stage(b)' = IF Stage(b) = "held" /\ client[b] = "none" THEN "closed" ELSE Stage(b)
    <3>1. CASE b \in instance \cap Sessions
      BY <2>1, <2>2, <2>3, <3>1 DEF Stage
    <3>2. CASE b \in instance \ Sessions
      BY <2>1, <2>2, <2>3, <3>2 DEF Stage
    <3>3. CASE b \notin instance
      BY <2>1, <2>3, <3>3 DEF Stage
    <3> QED BY <3>1, <3>2, <3>3
  <2>5. Vouched' = FALSE
    BY <2>1, NoRequestIsIdle DEF Vouched
  <2>6. (b \in counted)' = (b \in counted)
    BY <2>1
  <2>7. Life(b)!StopServing
    BY <2>1, <2>4, <2>5, <2>6 DEF Life!StopServing
  <2> QED BY <2>7 DEF Life!Next
<1>3. CASE Abandon
  <2>1. /\ phase = "serving" /\ phase' = "abandoned" /\ configured = instance \cup failed
        /\ UNCHANGED <<configured, failed, raised, instance, client, counted>>
        /\ ready' = [r \in Probers |-> NoRequest] /\ raised = {}
    BY <1>3 DEF Abandon, settings, IInv, PhaseInv
  <2>2. Stage(b)' = Stage(b)
    BY <2>1 DEF Stage
  <2>3. Vouched' = FALSE
    BY <2>1, NoRequestIsIdle DEF Vouched
  <2>4. (b \in counted)' = (b \in counted)
    BY <2>1
  <2>5. Life(b)!StopServing
    BY <2>1, <2>2, <2>3, <2>4 DEF Life!StopServing
  <2> QED BY <2>5 DEF Life!Next
<1>4. CASE CloseDone
  <2>1. /\ phase = "closing" /\ phase' = "stopped" /\ instance = raised
        /\ UNCHANGED <<configured, failed, raised, instance, client, counted>>
        /\ Vouched' = Vouched
    BY <1>4 DEF CloseDone, settings, Vouched, IInv, PhaseInv
  <2>2. Stage(b) # "held" /\ Stage(b)' = Stage(b)
    BY <2>1 DEF Stage
  <2>3. (b \in counted)' = (b \in counted)
    BY <2>1
  <2>4. Life(b)!Stop
    BY <2>1, <2>2, <2>3 DEF Life!Stop
  <2> QED BY <2>4 DEF Life!Next
<1> QED BY <1>1, <1>2, <1>3, <1>4

\* A request of /ready, or a backend that goes or comes back while there is one.
LEMMA ReadyLife ==
  ASSUME IInv, VouchInv', NEW b \in Backends,
         \/ \E r \in Probers : Ask(r) \/ Answer(r) \/ \E c \in Backends : Probe(r, c)
         \/ \E c \in Backends : Flip(c)
  PROVE  Life(b)!Next
<1>1. UNCHANGED <<configured, failed, raised, instance, phase, client, counted>>
  BY DEF Ask, Answer, Probe, Flip, settings
<1>2. phase = "serving"
  <2>1. CASE \E r \in Probers : Ask(r)
    BY <2>1 DEF Ask
  <2>2. CASE \E r \in Probers : ready[r].state = "probing"
    BY <2>2, NoRequestIsIdle DEF IInv, ReadyInv
  <2> QED BY <2>1, <2>2 DEF Answer, Probe, Flip, Idle
<1>3. Stage(b)' = Stage(b)
  BY <1>1 DEF Stage
<1>4. Vouched' \in BOOLEAN /\ (Vouched' => Stage(b)' \in {"held", "unset"})
  BY DEF VouchInv, Vouched
<1>5. (b \in counted)' = (b \in counted)
  BY <1>1
<1>6. Life(b)!Ready
  BY <1>1, <1>2, <1>3, <1>4, <1>5 DEF Life!Ready
<1> QED BY <1>6 DEF Life!Next

LEMMA NextLife ==
  ASSUME IInv, VouchInv', [Next]_vars, NEW b \in Backends
  PROVE  Life(b)!Next \/ UNCHANGED Life(b)!vars
<1>1. CASE UNCHANGED vars
  <2>1. UNCHANGED <<configured, failed, raised, instance, phase, client, counted>>
        /\ Vouched' = Vouched
    BY <1>1 DEF vars, Vouched
  <2>2. Stage(b)' = Stage(b) /\ (b \in counted)' = (b \in counted)
    BY <2>1 DEF Stage
  <2> QED BY <2>1, <2>2 DEF Life!vars
<1> QED BY <1>1, SettleLife, ReleaseLife, PhaseLife, ReadyLife DEF Next

\* Each backend lives the life of BackendLife, whatever the others do.
THEOREM BackendsLiveApart == Spec => EachLifeImplemented
<1>1. Init => \A b \in Backends : Life(b)!Init
  BY LifeInit
<1>2. IInv /\ VouchInv' /\ [Next]_vars =>
        [\A b \in Backends : Life(b)!Next \/ UNCHANGED Life(b)!vars]_vars
  BY NextLife
<1> QED BY <1>1, <1>2, Invariance, VouchHolds, PTL DEF Spec, EachLifeImplemented
=============================================================================

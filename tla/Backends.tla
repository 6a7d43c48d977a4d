------------------------------ MODULE Backends ------------------------------
(***************************************************************************)
(* The life of one gateway process as its backends see it: the lifespan of *)
(* app/main.py calls init_all and close_all of app/backends.py, and /ready *)
(* probes what init_all has left.  init_all and close_all run one          *)
(* coroutine per backend under asyncio.gather, /ready one probe per        *)
(* backend, so each of them advances in any order.                         *)
(***************************************************************************)
EXTENDS FiniteSets

CONSTANTS
  Backends,   \* the backends of the gateway
  Lazy,       \* those made without a connection: s3 and the platform client
  Pooled,     \* those whose client exists only once connected: postgres
  Sessions,   \* those with nothing to close: s3
  Overrides,  \* values an operator may give GATEWAY_REQUIRED_BACKENDS
  Probers     \* slots for concurrent requests of /ready

ASSUME KindsAssumption ==
  /\ Pooled \subseteq Backends \ Lazy
  /\ Sessions \subseteq Lazy
  /\ Lazy \subseteq Backends
  /\ Overrides \subseteq SUBSET Backends

VARIABLES
  configured,  \* backends whose setting is not empty
  required,    \* readiness_required_backends
  phase,       \* where the lifespan stands
  waiting,     \* coroutines of the current gather that have not returned
  failed,      \* results of the gathers of init_all that are exceptions
  counted,     \* backends whose init failure the metric has counted
  instance,    \* managers whose _instance is set
  client,      \* what became of each backend's client object
  raised,      \* backends whose close raised (history)
  up,          \* backends that answer, outside the gateway
  ready        \* requests of /ready

vars == <<configured, required, phase, waiting, failed, counted, instance,
          client, raised, up, ready>>
settings == <<configured, required>>

Statuses == {"not_configured", "waiting", "ok", "error"}

\* seen: the backends that were up at some time of the request (history).
Requests == [state : {"idle", "probing", "answered"},
             checks : [Backends -> Statuses], healthy : BOOLEAN,
             seen : SUBSET Backends]

TypeOK ==
  /\ configured \subseteq Backends /\ required \subseteq Backends
  /\ phase \in {"starting", "serving", "closing", "stopped", "abandoned"}
  /\ waiting \subseteq Backends /\ failed \subseteq Backends
  /\ counted \subseteq Backends /\ instance \subseteq Backends
  /\ raised \subseteq Backends /\ up \subseteq Backends
  /\ client \in [Backends -> {"none", "open", "dropped", "closed", "broken"}]
  /\ ready \in [Probers -> Requests]

-----------------------------------------------------------------------------
(* Start: init_all. *)

\* Production requires every backend, an override what it names, and another
\* environment nothing.
Requirements == {{}, Backends} \cup Overrides

\* What a constructor leaves: a session holds no resource of its own.
Opened(bs) == [b \in Backends |-> IF b \in bs \ Sessions THEN "open" ELSE "none"]

NoRequest == [state |-> "idle", healthy |-> FALSE, seen |-> {},
              checks |-> [b \in Backends |-> "not_configured"]]

\* init_s3 and init_platform are over without an await; any setting may be
\* refused by its constructor (bad).  The others wait for their connection.
Init ==
  /\ configured \in SUBSET Backends
  /\ required \in Requirements
  /\ phase = "starting"
  /\ failed \in SUBSET configured
  /\ waiting = configured \ (Lazy \cup failed)
  /\ instance = (configured \cap Lazy) \ failed
  /\ client = Opened(instance)
  /\ counted = {} /\ raised = {}
  /\ up = Backends
  /\ ready = [r \in Probers |-> NoRequest]

\* create_pool, ping or start has returned.
Connected(b) ==
  /\ phase = "starting" /\ b \in waiting
  /\ waiting' = waiting \ {b}
  /\ instance' = instance \cup {b}
  /\ client' = [client EXCEPT ![b] = "open"]
  /\ UNCHANGED <<settings, phase, failed, counted, raised, up, ready>>

\* It has raised: the exception is the coroutine's result.  A pool that was not
\* created leaves nothing, the other clients are dropped without a close.
ConnectFails(b) ==
  /\ phase = "starting" /\ b \in waiting
  /\ waiting' = waiting \ {b}
  /\ failed' = failed \cup {b}
  /\ client' = [client EXCEPT ![b] = IF b \in Pooled THEN "none" ELSE "dropped"]
  /\ UNCHANGED <<settings, phase, counted, instance, raised, up, ready>>

\* The gather is over; failures are counted and the application serves.
InitDone ==
  /\ phase = "starting" /\ waiting = {}
  /\ phase' = "serving"
  /\ counted' = failed
  /\ UNCHANGED <<settings, waiting, failed, instance, client, raised, up, ready>>

-----------------------------------------------------------------------------
(* /ready. *)

Idle == \A r \in Probers : ready[r].state # "probing"

\* Mutant of FirstCheck: a client that was made counts as a backend that works.
FirstCheckClientOnly(b) ==
  IF b \notin configured THEN "not_configured"
  ELSE IF b \notin instance THEN "error"
  ELSE IF b \in Lazy THEN "ok" ELSE "waiting"

\* Mutant of FirstCheck: the missing instance has a status of its own, which the
\* verdict does not know.
FirstCheckMissing(b) ==
  IF b \notin configured THEN "not_configured"
  ELSE IF b \notin instance THEN "missing" ELSE "waiting"

\* _check_backend up to its await: get() raises when init_all left no instance.
FirstCheck(b) ==
  IF b \notin configured THEN "not_configured"
  ELSE IF b \notin instance THEN "error" ELSE "waiting"

Ask(r) ==
  /\ phase = "serving"
  /\ ready[r].state # "probing"
  /\ ready' = [ready EXCEPT ![r] = [state |-> "probing", healthy |-> FALSE, seen |-> up,
                                    checks |-> [b \in Backends |-> FirstCheck(b)]]]
  /\ UNCHANGED <<settings, phase, waiting, failed, counted, instance, client, raised, up>>

\* The probe of b returns, or raises: a backend that is up may also be slow.
Probe(r, b) ==
  /\ ready[r].state = "probing" /\ ready[r].checks[b] = "waiting"
  /\ \E answer \in {"ok", "error"} :
       /\ answer = "ok" => b \in up
       /\ ready' = [ready EXCEPT ![r].checks[b] = answer]
  /\ UNCHANGED <<settings, phase, waiting, failed, counted, instance, client, raised, up>>

\* The verdict of readiness: 200 or 503.
Healthy(checks) ==
  /\ \A b \in required : checks[b] = "ok"
  /\ \A b \in Backends : checks[b] # "error"

Answer(r) ==
  /\ ready[r].state = "probing"
  /\ \A b \in Backends : ready[r].checks[b] # "waiting"
  /\ ready' = [ready EXCEPT ![r].state = "answered", ![r].healthy = Healthy(ready[r].checks)]
  /\ UNCHANGED <<settings, phase, waiting, failed, counted, instance, client, raised, up>>

\* A backend goes away or comes back while requests are in progress; what it does
\* meanwhile is in the outcomes of its connection and its close.
Flip(b) ==
  /\ ~Idle
  /\ up' = IF b \in up THEN up \ {b} ELSE up \cup {b}
  /\ ready' = [r \in Probers |->
                 IF ready[r].state = "probing" THEN [ready[r] EXCEPT !.seen = @ \cup up']
                 ELSE ready[r]]
  /\ UNCHANGED <<settings, phase, waiting, failed, counted, instance, client, raised>>

-----------------------------------------------------------------------------
(* Stop: close_all. *)

\* The server has drained its requests and ends the lifespan: close_all starts a
\* close for every manager with an instance; close_s3 only clears its own.
Shutdown ==
  /\ phase = "serving" /\ Idle
  /\ phase' = "closing"
  /\ waiting' = instance \ Sessions
  /\ instance' = instance \ Sessions
  /\ ready' = [r \in Probers |-> NoRequest]
  /\ UNCHANGED <<settings, failed, counted, client, raised, up>>

\* An exception or a cancellation at the yield: close_all is not in a finally.
Abandon ==
  /\ phase = "serving" /\ Idle
  /\ phase' = "abandoned"
  /\ ready' = [r \in Probers |-> NoRequest]
  /\ UNCHANGED <<settings, waiting, failed, counted, instance, client, raised, up>>

Closed(b) ==
  /\ phase = "closing" /\ b \in waiting
  /\ waiting' = waiting \ {b}
  /\ instance' = instance \ {b}
  /\ client' = [client EXCEPT ![b] = "closed"]
  /\ UNCHANGED <<settings, phase, failed, counted, raised, up, ready>>

\* Mutant of CloseRaises: the exception ends close_all.
CloseRaisesFirst(b) ==
  /\ phase = "closing" /\ b \in waiting
  /\ waiting' = {}
  /\ client' = [client EXCEPT ![b] = "broken"]
  /\ raised' = raised \cup {b}
  /\ UNCHANGED <<settings, phase, failed, counted, instance, up, ready>>

\* The close function raises before _instance is cleared; the gather keeps the
\* exception and the others go on.
CloseRaises(b) ==
  /\ phase = "closing" /\ b \in waiting
  /\ waiting' = waiting \ {b}
  /\ client' = [client EXCEPT ![b] = "broken"]
  /\ raised' = raised \cup {b}
  /\ UNCHANGED <<settings, phase, failed, counted, instance, up, ready>>

\* Mutant of CloseDone: the stop waits for every manager to be cleared.
CloseDoneCleared ==
  /\ phase = "closing" /\ waiting = {} /\ instance = {}
  /\ phase' = "stopped"
  /\ UNCHANGED <<settings, waiting, failed, counted, instance, client, raised, up, ready>>

CloseDone ==
  /\ phase = "closing" /\ waiting = {}
  /\ phase' = "stopped"
  /\ UNCHANGED <<settings, waiting, failed, counted, instance, client, raised, up, ready>>

-----------------------------------------------------------------------------
Settle(b) == Connected(b) \/ ConnectFails(b)
Release(b) == Closed(b) \/ CloseRaises(b)

Next ==
  \/ InitDone \/ Shutdown \/ Abandon \/ CloseDone
  \/ \E b \in Backends : Settle(b) \/ Release(b) \/ Flip(b)
  \/ \E r \in Probers : Ask(r) \/ Answer(r) \/ \E b \in Backends : Probe(r, b)

\* Connecting and closing end, each under the timeouts of its client library; a
\* stop need not come.
Fairness ==
  /\ WF_vars(InitDone) /\ WF_vars(CloseDone)
  /\ \A b \in Backends : WF_vars(Settle(b)) /\ WF_vars(Release(b))

Spec == Init /\ [][Next]_vars /\ Fairness

-----------------------------------------------------------------------------
(* What the lifecycle promises. *)

\* A process that lost any configured backend at start, required or not, never
\* answers /ready with 200, nor one that lacks a required backend's setting: no
\* later event makes up for a failed init.
ReadyNeedsInit ==
  \A r \in Probers :
    ready[r].healthy => /\ required \subseteq configured
                        /\ configured \cap failed = {}

\* A 200 is news of every configured backend: each was up at some time while the
\* request ran, although not necessarily all at once.
ReadyIsRecent ==
  \A r \in Probers : ready[r].healthy => configured \subseteq ready[r].seen

\* What a 200 of /ready tells: all that were to start have started, and answered.
ReadyIsTrue == ReadyNeedsInit /\ ReadyIsRecent

\* From start to stop no backend is lost sight of.  Once the process serves, a
\* configured backend has its instance, or its failure was counted, and never both.
\* When the lifespan has ended normally, every client that close_all could reach
\* is closed or had its own close raise, however the other closes went; what is
\* left open was dropped by a failed init, and what stays set had its close raise.
Accounted ==
  /\ phase = "serving" =>
    /\ configured = instance \cup counted
    /\ instance \cap counted = {}
  /\ phase = "stopped" =>
    /\ instance = raised
    /\ \A b \in Backends :
         CASE client[b] = "open"    -> FALSE
           [] client[b] = "dropped" -> b \in failed
           [] client[b] = "broken"  -> b \in raised
           [] OTHER -> TRUE

\* To each backend by itself the process is BackendLife, however the coroutines of the
\* others interleave with its own, fail or raise: the conjunction of Life(b)!Spec over
\* the backends, with one box.
Stage(b) ==
  CASE b \notin configured -> "unset"
    [] b \in configured \cap failed -> "lost"
    [] b \in configured \ failed /\ b \in raised -> "stuck"
    [] b \in configured \ (failed \cup raised) /\ b \in instance -> "held"
    [] OTHER -> IF phase = "starting" THEN "coming" ELSE "closed"

Vouched == \E r \in Probers : ready[r].healthy

Life(b) == INSTANCE BackendLife WITH
  stage <- Stage(b), client <- client[b], counted <- b \in counted, vouched <- Vouched

EachLifeImplemented ==
  /\ \A b \in Backends : Life(b)!Init
  /\ [][\A b \in Backends : Life(b)!Next \/ UNCHANGED Life(b)!vars]_vars

\* Failures are not fatal: every start ends in a serving process, and every stop that
\* reaches close_all ends.
EveryPhaseEnds ==
  /\ phase = "starting" ~> phase = "serving"
  /\ phase = "closing" ~> phase = "stopped"

=============================================================================

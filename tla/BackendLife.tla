---------------------------- MODULE BackendLife ----------------------------
(***************************************************************************)
(* What the lifespan of a gateway promises of each one of its backends,    *)
(* whatever becomes of the others: it is set up once, while the process    *)
(* starts; a failure then is final; it is there as long as the process     *)
(* serves, given up once, and /ready vouches only for a backend that is    *)
(* there or that nobody has configured.                                    *)
(***************************************************************************)
VARIABLES
  phase,    \* of the process
  stage,    \* of the backend
  client,   \* what became of its client object
  counted,  \* has its failure been counted?
  vouched   \* does an answer of /ready stand that is 200?

vars == <<phase, stage, client, counted, vouched>>

\* Some backends are there without a client object, some fail without one.
Clients ==
  [unset |-> {"none"}, coming |-> {"none"}, held |-> {"none", "open"},
   lost |-> {"none", "dropped"}]

Init ==
  /\ phase = "starting"
  /\ stage \in {"unset", "coming", "held", "lost"}
  /\ client \in Clients[stage]
  /\ counted = FALSE
  /\ vouched = FALSE

\* The connection is made or fails.
SetUp ==
  /\ phase = "starting" /\ stage = "coming"
  /\ stage' \in {"held", "lost"}
  /\ client' \in Clients[stage']
  /\ UNCHANGED <<phase, counted, vouched>>

Serve ==
  /\ phase = "starting" /\ stage # "coming"
  /\ phase' = "serving"
  /\ counted' = (stage = "lost")
  /\ UNCHANGED <<stage, client, vouched>>

\* A request of /ready is answered, or a new one takes its place.
Ready ==
  /\ phase = "serving"
  /\ vouched' \in BOOLEAN
  /\ vouched' => stage \in {"held", "unset"}
  /\ UNCHANGED <<phase, stage, client, counted>>

\* The process stops serving: a backend without a client object needs no more.
StopServing ==
  /\ phase = "serving"
  /\ \/ phase' = "closing" /\ stage' = IF stage = "held" /\ client = "none" THEN "closed" ELSE stage
     \/ phase' = "abandoned" /\ stage' = stage
  /\ vouched' = FALSE
  /\ UNCHANGED <<client, counted>>

\* The client is closed, or its close raises.
GiveUp ==
  /\ phase = "closing" /\ stage = "held" /\ client = "open"
  /\ \/ stage' = "closed" /\ client' = "closed"
     \/ stage' = "stuck" /\ client' = "broken"
  /\ UNCHANGED <<phase, counted, vouched>>

Stop ==
  /\ phase = "closing" /\ stage # "held"
  /\ phase' = "stopped"
  /\ UNCHANGED <<stage, client, counted, vouched>>

Next == SetUp \/ Serve \/ Ready \/ StopServing \/ GiveUp \/ Stop

Spec == Init /\ [][Next]_vars
=============================================================================

---------------------------- MODULE Provisioning ----------------------------
(***************************************************************************)
(* What the Auth0 scripts promise of a tenant, however often they are run, *)
(* killed, or repeat a request: the parts are made one after the other,    *)
(* each on what it needs, nothing is taken back while a script is at work, *)
(* and success is reported when everything is there.                       *)
(***************************************************************************)
CONSTANTS
  Apps,     \* the applications that may ever exist
  Configs,  \* the Doppler configurations
  None      \* no application

VARIABLES
  api, apps, grant,  \* the tenant
  vault,             \* the application whose credentials each configuration holds
  working,           \* is a script running?
  success            \* the scripts whose report of success stands

tenant == <<api, apps, grant>>
vars == <<tenant, vault, working, success>>

Scripts == {"bootstrap", "verification"}

Init ==
  /\ api \in {"absent", "stale", "current"}
  /\ apps \in SUBSET Apps
  /\ grant \in [Apps -> {"absent", "partial", "full"}]
  /\ vault \in [Configs -> apps \cup {None}]
  /\ working = FALSE
  /\ success = {}

Opens(a) == api = "current" /\ a \in apps /\ grant[a] = "full"

MakeApi ==
  /\ api' = "current"
  /\ UNCHANGED <<apps, grant, vault>>

MakeApp ==
  /\ api = "current"
  /\ \E a \in Apps \ apps : apps' = apps \cup {a}
  /\ UNCHANGED <<api, grant, vault>>

MakeGrant ==
  /\ api = "current"
  /\ \E a \in apps : grant' = [grant EXCEPT ![a] = "full"]
  /\ UNCHANGED <<api, apps, vault>>

Store ==
  /\ \E c \in Configs, a \in apps : Opens(a) /\ vault' = [vault EXCEPT ![c] = a]
  /\ UNCHANGED tenant

\* Scripts come and go; one reports success only of what is so after this step.
Report ==
  /\ working' \in BOOLEAN
  /\ success' \in SUBSET Scripts
  /\ success' # {} => working'
  /\ ~(success' \subseteq success) => (\E a \in apps : Opens(a))'

Work ==
  /\ \/ working /\ (MakeApi \/ MakeApp \/ MakeGrant \/ Store)
     \/ UNCHANGED <<tenant, vault>>
  /\ Report

\* Somebody else changes the tenant.
Drift ==
  /\ ~working
  /\ api' \in {"absent", "stale", "current"}
  /\ grant' \in [Apps -> {"absent", "partial", "full"}]
  /\ UNCHANGED <<apps, vault, working, success>>

Next == Work \/ Drift

Spec == Init /\ [][Next]_vars
=============================================================================

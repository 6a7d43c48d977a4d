------------------------------ MODULE Bootstrap ------------------------------
(***************************************************************************)
(* scripts/setup_auth0.py, which provisions the gateway in Auth0 and hands *)
(* the credentials of its application to Doppler, and scripts/             *)
(* verify_auth0.py, which checks the result.  Both are sequences of HTTP   *)
(* requests to a tenant that keeps its state when a script dies; an answer *)
(* may be lost after Auth0 has done what was asked, and the request is     *)
(* then sent again.                                                        *)
(*                                                                         *)
(* Auth0 refuses a second API of one identifier and a second grant of one  *)
(* application to one audience, and accepts applications of equal names.   *)
(* A listing is read up to its first page only (per_page 100), and the     *)
(* tenant is shared with other services.                                   *)
(*                                                                         *)
(* One bootstrap runs at a time: nothing in the script keeps two from      *)
(* running at once, and each of two may then make an application.          *)
(***************************************************************************)
EXTENDS Naturals, FiniteSets

CONSTANTS
  Apps,      \* the applications named like ours that may ever exist (a bound)
  Configs,   \* the Doppler configurations, local and test
  Attempts,  \* how often a request is sent, 3
  None       \* no application

ASSUME AttemptsAssumption == Attempts \in Nat \ {0}
ASSUME ConfigsAssumption == IsFiniteSet(Configs) /\ Configs # {}
ASSUME NoneAssumption == None \notin Apps

VARIABLES
  api,    \* the resource server: "stale" lacks a scope, enforcement or the dialect
  apps,   \* the M2M applications of our name
  grant,  \* the grant of each application for our audience
  vault,  \* the application whose credentials each configuration of Doppler holds
  run,    \* the bootstrap script
  check,  \* the verification script
  lost,   \* an application was made and the answer lost (history)
  crowded \* the tenant has had more than a page of APIs or applications (history)

tenant == <<api, apps, grant>>
vars == <<api, apps, grant, vault, run, check, lost, crowded>>

Lists == {"apis", "apps", "grants"}
Writes == {"api", "app", "grant"}
Over == {"idle", "complete", "failed"}

TypeOK ==
  /\ api \in {"absent", "stale", "current"}
  /\ apps \subseteq Apps
  /\ grant \in [Apps -> {"absent", "partial", "full"}]
  /\ \A a \in Apps \ apps : grant[a] = "absent"
  /\ vault \in [Configs -> apps \cup {None}]
  /\ run \in [pc : {"token", "sync"} \cup Lists \cup Writes \cup Over, tries : 0..(Attempts - 1),
              found : BOOLEAN, app : apps \cup {None}, secret : BOOLEAN, left : SUBSET Configs]
  /\ check \in [pc : {"passed"} \cup Lists \cup {"idle", "failed"}, tries : 0..(Attempts - 1),
                ok : BOOLEAN, app : apps \cup {None}]
  /\ lost \in BOOLEAN /\ crowded \in BOOLEAN

NoRun == [pc |-> "idle", tries |-> 0, found |-> FALSE, app |-> None, secret |-> FALSE,
          left |-> {}]
NoCheck == [pc |-> "idle", tries |-> 0, ok |-> TRUE, app |-> None]

\* A tenant nobody has touched, or one with traces of an earlier bootstrap.
Init ==
  /\ api \in {"absent", "stale", "current"}
  /\ apps \in {{}} \cup {{a} : a \in Apps}
  /\ \E g \in {"absent", "partial", "full"} :
       grant = [a \in Apps |-> IF a \in apps /\ api # "absent" THEN g ELSE "absent"]
  /\ \E stored \in apps \cup {None} : vault = [c \in Configs |-> stored]
  /\ run = NoRun /\ check = NoCheck
  /\ lost = FALSE /\ crowded \in BOOLEAN

-----------------------------------------------------------------------------
(* The bootstrap. *)

Start ==
  /\ run.pc = "idle"
  /\ run' = [run EXCEPT !.pc = "token"]
  /\ UNCHANGED <<tenant, vault, check, lost, crowded>>

\* The management token is asked for once.
Token ==
  /\ run.pc = "token"
  /\ \E pc \in {"apis", "failed"} : run' = [run EXCEPT !.pc = pc]
  /\ UNCHANGED <<tenant, vault, check, lost, crowded>>

\* What the listing of this step finds: the name of the application is looked up in
\* a dictionary, of equal names one survives.  What is not on the first page is not
\* found; the grants are those of one application.
Finds(found, app) ==
  \/ run.pc = "apis" /\ found = (api # "absent") /\ app = None
  \/ run.pc = "apps" /\ found /\ app \in apps
  \/ run.pc = "apps" /\ apps = {} /\ ~found /\ app = None
  \/ run.pc \in {"apis", "apps"} /\ crowded /\ ~found /\ app = None
  \/ run.pc = "grants" /\ found = (grant[run.app] # "absent") /\ app = run.app

Following == [apis |-> "api", apps |-> "app", grants |-> "grant",
              api |-> "apps", app |-> "grants", grant |-> "sync"]

\* Mutant of Listed: what exists already is not looked for.
ListedNothing ==
  /\ run.pc \in Lists
  /\ run' = [run EXCEPT !.pc = Following[@], !.tries = 0, !.found = FALSE]
  /\ UNCHANGED <<tenant, vault, check, lost, crowded>>

\* The GET of an upsert.
Listed ==
  /\ run.pc \in Lists
  /\ \E found \in BOOLEAN, app \in apps \cup {None} :
       /\ Finds(found, app)
       /\ run' = [run EXCEPT !.pc = Following[@], !.tries = 0, !.found = found, !.app = app]
  /\ UNCHANGED <<tenant, vault, check, lost, crowded>>

\* Mutant of Done: the PATCH of a grant that is there leaves its scopes.
DoneStale(app) ==
  \/ /\ run.pc = "api" /\ (run.found \/ api = "absent") /\ app = None
     /\ api' = "current" /\ UNCHANGED <<apps, grant>>
  \/ /\ run.pc = "app"
     /\ \/ run.found /\ app = run.app /\ UNCHANGED apps
        \/ ~run.found /\ app \in Apps \ apps /\ apps' = apps \cup {app}
     /\ UNCHANGED <<api, grant>>
  \/ /\ run.pc = "grant" /\ (run.found \/ grant[run.app] = "absent") /\ app = run.app
     /\ grant' = [grant EXCEPT ![app] = IF run.found THEN @ ELSE "full"]
     /\ UNCHANGED <<api, apps>>

\* Auth0 does what the PATCH or POST of this step asks; "app" is the application of
\* the answer.  A POST of what is there already is refused, but for an application.
Done(app) ==
  \/ /\ run.pc = "api" /\ (run.found \/ api = "absent") /\ app = None
     /\ api' = "current" /\ UNCHANGED <<apps, grant>>
  \/ /\ run.pc = "app"
     /\ \/ run.found /\ app = run.app /\ UNCHANGED apps
        \/ ~run.found /\ app \in Apps \ apps /\ apps' = apps \cup {app}
     /\ UNCHANGED <<api, grant>>
  \/ /\ run.pc = "grant" /\ (run.found \/ grant[run.app] = "absent") /\ app = run.app
     /\ grant' = [grant EXCEPT ![app] = "full"] /\ UNCHANGED <<api, apps>>

\* Mutant of Written: the credentials are handed over as soon as they are there.
WrittenSyncsFirst ==
  \E app \in Apps \cup {None} :
    /\ Done(app)
    /\ run' = [run EXCEPT !.pc = Following[@], !.tries = 0, !.app = app]
    /\ vault' = IF run.pc = "app" /\ ~run.found THEN [c \in Configs |-> app] ELSE vault
    /\ UNCHANGED <<check, lost, crowded>>

\* The answer to it arrives.  Only a new application shows its secret.
Written ==
  \E app \in Apps \cup {None} :
    /\ Done(app)
    /\ run' = [run EXCEPT !.pc = IF @ = "grant" /\ ~run.secret THEN "complete" ELSE Following[@],
                          !.tries = 0, !.app = app,
                          !.secret = @ \/ (run.pc = "app" /\ ~run.found),
                          !.left = IF run.pc = "grant" /\ run.secret THEN Configs ELSE {}]
    /\ UNCHANGED <<vault, check, lost, crowded>>

\* An answer with an error status ends the script, the conflict of a POST too.
Refused ==
  /\ run.pc \in Lists \cup Writes
  /\ run' = [run EXCEPT !.pc = "failed"]
  /\ UNCHANGED <<tenant, vault, check, lost, crowded>>

\* Mutant of Retried: the attempts are counted from one too few.
RetriedOnceMore == run' = IF run.tries < Attempts THEN [run EXCEPT !.tries = @ + 1]
                          ELSE [run EXCEPT !.pc = "failed"]

\* Mutant of Retried: the count starts over.
RetriedForEver == run' = [run EXCEPT !.tries = (@ + 1) % Attempts]

\* The request is sent again, the third time it is given up.
Retried == run' = IF run.tries + 1 < Attempts THEN [run EXCEPT !.tries = @ + 1]
                  ELSE [run EXCEPT !.pc = "failed"]

\* The tenant's rate limit, or an error before the request has reached it.
NotDone ==
  /\ run.pc \in Lists \cup Writes
  /\ Retried
  /\ UNCHANGED <<tenant, vault, check, lost, crowded>>

\* The answer is lost after Auth0 has done what was asked.
Lost ==
  /\ \E app \in Apps \cup {None} : Done(app)
  /\ Retried
  /\ lost' = (lost \/ (run.pc = "app" /\ ~run.found))
  /\ UNCHANGED <<vault, check, crowded>>

\* The doppler command stores the credentials in one configuration, or fails and is
\* warned about; after the last of them (their order is left open) the bootstrap is
\* complete.
Sync ==
  /\ run.pc = "sync"
  /\ \E c \in run.left :
       /\ run' = [run EXCEPT !.left = @ \ {c}, !.pc = IF run.left = {c} THEN "complete" ELSE @]
       /\ \/ vault' = [vault EXCEPT ![c] = run.app]
          \/ UNCHANGED vault
  /\ UNCHANGED <<tenant, check, lost, crowded>>

\* The process is killed where it stands.
Interrupt ==
  /\ run.pc \notin Over
  /\ run' = [run EXCEPT !.pc = "failed"]
  /\ UNCHANGED <<tenant, vault, check, lost, crowded>>

Exit ==
  /\ run.pc \in {"complete", "failed"}
  /\ run' = NoRun
  /\ UNCHANGED <<tenant, vault, check, lost, crowded>>

-----------------------------------------------------------------------------
(* The verification. *)

CheckStart ==
  /\ check.pc = "idle"
  /\ \E pc \in {"apis", "failed"} : check' = [check EXCEPT !.pc = pc]
  /\ UNCHANGED <<tenant, vault, run, lost, crowded>>

CheckApis ==
  /\ check.pc = "apis"
  /\ \E seen \in {TRUE, ~crowded} :
       check' = [check EXCEPT !.pc = "apps", !.tries = 0, !.ok = seen /\ api = "current"]
  /\ UNCHANGED <<tenant, vault, run, lost, crowded>>

\* Without the application the grant is not asked for.
CheckApps ==
  /\ check.pc = "apps"
  /\ \/ /\ apps = {} \/ crowded
        /\ check' = [check EXCEPT !.pc = "failed", !.ok = FALSE]
     \/ \E a \in apps : check' = [check EXCEPT !.pc = "grants", !.tries = 0, !.app = a]
  /\ UNCHANGED <<tenant, vault, run, lost, crowded>>

CheckGrants ==
  /\ check.pc = "grants"
  /\ check' = [check EXCEPT !.pc = IF check.ok /\ grant[check.app] = "full"
                                   THEN "passed" ELSE "failed"]
  /\ UNCHANGED <<tenant, vault, run, lost, crowded>>

\* Rate limited it asks again, three times in all; every other error ends it.
CheckFails ==
  /\ check.pc \in Lists
  /\ check' \in {[check EXCEPT !.pc = "failed"]} \cup
                {[check EXCEPT !.tries = n] : n \in {check.tries + 1} \cap 0..(Attempts - 1)}
  /\ UNCHANGED <<tenant, vault, run, lost, crowded>>

CheckExit ==
  /\ check.pc \in {"passed", "failed"}
  /\ check' = NoCheck
  /\ UNCHANGED <<tenant, vault, run, lost, crowded>>

-----------------------------------------------------------------------------
\* Somebody changes the tenant by hand while no script runs; an API that is deleted
\* takes its grants along.
Drift ==
  /\ run.pc = "idle" /\ check.pc = "idle"
  /\ \/ api' = "absent" /\ grant' = [a \in Apps |-> "absent"]
     \/ api # "absent" /\ api' = "stale" /\ UNCHANGED grant
     \/ \E a \in apps, g \in {"absent", "partial"} :
          grant[a] # "absent" /\ grant' = [grant EXCEPT ![a] = g] /\ UNCHANGED api
  /\ UNCHANGED <<apps, vault, run, check, lost, crowded>>

\* Other services of the tenant make theirs; what they remove is left out, history
\* would keep it.
Crowd ==
  /\ ~crowded
  /\ crowded' = TRUE
  /\ UNCHANGED <<tenant, vault, run, check, lost>>

Advance == Token \/ Listed \/ Written \/ Refused \/ NotDone \/ Lost \/ Sync
Verify == CheckStart \/ CheckApis \/ CheckApps \/ CheckGrants \/ CheckFails \/ CheckExit

Next == Start \/ Advance \/ Interrupt \/ Exit \/ Verify \/ Drift \/ Crowd

\* httpx and subprocess return, a script that nobody kills goes on.
Spec == Init /\ [][Next]_vars /\ WF_vars(Advance)

-----------------------------------------------------------------------------
(* What the scripts promise. *)

\* A script that reports success tells the truth of the tenant.  A complete bootstrap
\* leaves a current API and an application with a full grant, whatever an earlier run
\* that died half way has left.  A verification that passes, also one beside a running
\* bootstrap, has read the parts one after the other, but no script takes one back.
SuccessIsTrue ==
  /\ run.pc = "complete" => api = "current" /\ run.app \in apps /\ grant[run.app] = "full"
  /\ check.pc = "passed" => api = "current" /\ \E a \in apps : grant[a] = "full"

\* However often it is run, killed or refused, one bootstrap after the other makes no
\* second application, unless the answer to the request that made one was lost, or the
\* tenant has grown beyond the first page of a listing.
DuplicatesExplained == Cardinality(apps) > 1 => lost \/ crowded

\* Doppler gets credentials only when they open the API: the application has its
\* grant by then.
StoredWorks ==
  [][\A c \in Configs : vault'[c] # vault[c] => api = "current" /\ grant[vault'[c]] = "full"]_vars

\* Both scripts together, with every retry, lost answer and interruption, are a tenant
\* whose parts are made in order and kept while a script is at work, credentials that
\* are stored when they open the API, and reports of success that are true.
Working == run.pc # "idle" \/ check.pc # "idle"
Reported == {s \in {"bootstrap", "verification"} :
               \/ s = "bootstrap" /\ run.pc = "complete"
               \/ s = "verification" /\ check.pc = "passed"}

Tenant == INSTANCE Provisioning WITH working <- Working, success <- Reported

ProvisioningImplemented == Tenant!Spec

\* Every bootstrap comes to an end, whatever the tenant answers or does not.
EveryBootstrapEnds == run.pc \notin Over ~> run.pc \in Over
=============================================================================

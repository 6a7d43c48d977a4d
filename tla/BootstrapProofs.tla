-------------------------- MODULE BootstrapProofs --------------------------
(***************************************************************************)
(* The safety of the Auth0 scripts for any number of applications,         *)
(* configurations and attempts, and any number of runs that are killed or  *)
(* repeated.  The argument is that no script takes back what one has made: *)
(* RunInv says what the tenant holds by the position of the bootstrap,     *)
(* CheckInv what it still holds of what the verification has read.         *)
(***************************************************************************)
EXTENDS Bootstrap, FiniteSetTheorems, TLAPS

AfterApi == {"apps", "app", "grants", "grant", "sync", "complete"}
AfterApp == {"grants", "grant", "sync", "complete"}

RunInv ==
  /\ run.pc \in AfterApi => api = "current"
  /\ run.pc \in AfterApp => run.app \in apps
  /\ (run.pc = "app" /\ run.found) => run.app \in apps
  /\ run.pc \in {"sync", "complete"} => grant[run.app] = "full"
  /\ run.pc = "sync" => run.left # {}

CheckInv ==
  /\ (check.pc \in {"apps", "grants"} /\ check.ok) => api = "current"
  /\ check.pc = "grants" => check.app \in apps
  /\ check.pc = "passed" => check.app \in apps /\ api = "current" /\ grant[check.app] = "full"

\* A second application is made only when the first was not listed because it was
\* beyond the page, or was made in the meantime and the answer that told of it lost.
SingleInv ==
  ~lost /\ ~crowded => /\ (run.pc = "app" /\ ~run.found) => apps = {}
           /\ \A a, b \in apps : a = b

IInv == TypeOK /\ RunInv /\ CheckInv /\ SingleInv

-----------------------------------------------------------------------------
(* What the tenant keeps. *)

Runs(S) == [pc : {"token", "sync"} \cup Lists \cup Writes \cup Over, tries : 0..(Attempts - 1),
            found : BOOLEAN, app : S \cup {None}, secret : BOOLEAN, left : SUBSET Configs]

Checks(S) == [pc : {"passed"} \cup Lists \cup {"idle", "failed"}, tries : 0..(Attempts - 1),
              ok : BOOLEAN, app : S \cup {None}]

TenantOK ==
  /\ api \in {"absent", "stale", "current"}
  /\ apps \subseteq Apps
  /\ grant \in [Apps -> {"absent", "partial", "full"}]
  /\ \A a \in Apps \ apps : grant[a] = "absent"

LEMMA Types ==
  TypeOK <=> /\ TenantOK /\ vault \in [Configs -> apps \cup {None}]
             /\ run \in Runs(apps) /\ check \in Checks(apps) /\ lost \in BOOLEAN
             /\ crowded \in BOOLEAN
BY DEF TypeOK, TenantOK, Runs, Checks

\* The tenant keeps what the scripts rely on.
Keeps ==
  /\ TenantOK'
  /\ apps \subseteq apps'
  /\ api = "current" => api' = "current"
  /\ \A a \in apps : grant[a] = "full" => grant'[a] = "full"

LEMMA DoneKeeps ==
  ASSUME IInv, NEW app \in Apps \cup {None}, Done(app)
  PROVE  /\ Keeps /\ run.pc \in Writes
         /\ run.pc = "api" => api' = "current" /\ app = None
         /\ run.pc = "app" => app \in apps'
         /\ run.pc = "grant" => app = run.app /\ grant'[app] = "full"
         /\ ~(run.pc = "app" /\ ~run.found) => apps' = apps
         /\ \E new : apps' \subseteq apps \cup {new}
<1>1. TenantOK
  BY Types DEF IInv
<1>2. /\ (run.pc = "app" /\ run.found) => run.app \in apps
      /\ run.pc = "grant" => run.app \in apps
  BY DEF IInv, RunInv, AfterApp
<1>3. CASE run.pc = "api"
  BY <1>1, <1>3 DEF Done, TenantOK, Keeps, Writes
<1>4. CASE run.pc = "app"
  BY <1>1, <1>2, <1>4 DEF Done, TenantOK, Keeps, Writes
<1>5. CASE run.pc = "grant"
  BY <1>1, <1>2, <1>5 DEF Done, TenantOK, Keeps, Writes
<1> QED BY <1>3, <1>4, <1>5 DEF Done

\* The verification is right to rely on a tenant that keeps what it had.
LEMMA CheckKept ==
  ASSUME IInv, Keeps, UNCHANGED check
  PROVE  CheckInv' /\ check' \in Checks(apps')
<1>1. check \in Checks(apps)
  BY Types DEF IInv
<1> QED BY <1>1 DEF IInv, CheckInv, Keeps, Checks

\* A step of the bootstrap that leaves the tenant alone.
LEMMA RunMoves ==
  ASSUME IInv, UNCHANGED <<tenant, check, lost, crowded>>,
         vault' \in [Configs -> apps \cup {None}], run' \in Runs(apps), RunInv',
         (~lost /\ ~crowded /\ run'.pc = "app" /\ ~run'.found) => apps = {}
  PROVE  IInv'
<1>1. TypeOK'
  BY Types DEF IInv, TypeOK, Runs, tenant
<1>2. CheckInv' /\ SingleInv'
  BY DEF IInv, CheckInv, SingleInv, tenant
<1> QED BY <1>1, <1>2 DEF IInv

-----------------------------------------------------------------------------
(* The bootstrap. *)

\* The script is given up or over: what it knew is of no more use.
LEMMA EndStep ==
  ASSUME IInv, UNCHANGED <<tenant, vault, check, lost, crowded>>,
         run' \in Runs(apps), run'.pc \in {"token", "apis", "idle", "failed"}
  PROVE  IInv'
<1>1. RunInv'
  BY DEF RunInv, AfterApi, AfterApp
<1>2. vault' \in [Configs -> apps \cup {None}]
  BY Types DEF IInv
<1> QED BY <1>1, <1>2, RunMoves

LEMMA SimpleStep ==
  ASSUME IInv, Start \/ Token \/ Refused \/ Interrupt \/ Exit
  PROVE  IInv'
<1>1. run \in Runs(apps) /\ UNCHANGED <<tenant, vault, check, lost, crowded>>
  BY Types DEF IInv, Start, Token, Refused, Interrupt, Exit
<1>2. run' \in Runs(apps) /\ run'.pc \in {"token", "apis", "idle", "failed"}
  <2>1. CASE \E pc \in {"token", "apis", "failed"} : run' = [run EXCEPT !.pc = pc]
    BY <1>1, <2>1 DEF Runs, Lists, Over
  <2>2. CASE run' = NoRun
    BY <2>2, AttemptsAssumption DEF NoRun, Runs, Over
  <2> QED BY <2>1, <2>2 DEF Start, Token, Refused, Interrupt, Exit
<1> QED BY <1>1, <1>2, EndStep

LEMMA ListedStep == ASSUME IInv, Listed PROVE IInv'
<1>1. PICK found \in BOOLEAN, app \in apps \cup {None} :
        /\ Finds(found, app)
        /\ run' = [run EXCEPT !.pc = Following[@], !.tries = 0, !.found = found, !.app = app]
  BY DEF Listed
<1>2. /\ run \in Runs(apps) /\ run.pc \in Lists /\ UNCHANGED <<tenant, vault, check, lost, crowded>>
      /\ vault \in [Configs -> apps \cup {None}]
  BY Types DEF IInv, Listed
<1> DEFINE next == Following[run.pc]
<1>3. /\ next \in Writes
      /\ run.pc = "apis" <=> next = "api"
      /\ run.pc = "apps" <=> next = "app"
      /\ run.pc = "grants" <=> next = "grant"
  BY <1>2 DEF Following, Lists, Writes
<1>4. run' = [run EXCEPT !.pc = next, !.tries = 0, !.found = found, !.app = app]
  BY <1>1
<1> HIDE DEF next
<1>5. 0 \in 0..(Attempts - 1)
  BY AttemptsAssumption
<1>6. run' \in Runs(apps) /\ run'.pc = next /\ run'.found = found /\ run'.app = app
  BY <1>2, <1>3, <1>4, <1>5 DEF Runs
<1>7. RunInv'
  BY <1>1, <1>2, <1>3, <1>6 DEF IInv, RunInv, Finds, AfterApi, AfterApp, Writes, Lists, tenant
<1>8. (~crowded /\ run'.pc = "app" /\ ~run'.found) => apps = {}
  BY <1>1, <1>3, <1>6 DEF Finds
<1> QED BY <1>2, <1>6, <1>7, <1>8, RunMoves

\* Retrying leaves the script where it is, or ends it.
LEMMA RetriedResult ==
  ASSUME IInv, Retried, run.pc \in Lists \cup Writes
  PROVE  /\ run' \in Runs(apps)
         /\ run'.pc \in {run.pc, "failed"} /\ run'.found = run.found /\ run'.app = run.app
<1>1. run \in Runs(apps)
  BY Types DEF IInv
<1>2. CASE run.tries + 1 < Attempts
  <2>1. run.tries + 1 \in 0..(Attempts - 1)
    BY <1>1, <1>2, AttemptsAssumption DEF Runs
  <2>2. run' = [run EXCEPT !.tries = run.tries + 1]
    BY <1>1, <1>2 DEF Retried, Runs
  <2> QED BY <1>1, <2>1, <2>2 DEF Runs
<1>3. CASE ~(run.tries + 1 < Attempts)
  BY <1>1, <1>3 DEF Retried, Runs, Over
<1> QED BY <1>2, <1>3

LEMMA NotDoneStep == ASSUME IInv, NotDone PROVE IInv'
<1>1. /\ UNCHANGED <<tenant, vault, check, lost, crowded>>
      /\ run' \in Runs(apps) /\ run'.pc \in {run.pc, "failed"}
      /\ run'.found = run.found /\ run'.app = run.app
  BY RetriedResult DEF NotDone
<1>2. RunInv'
  BY <1>1 DEF IInv, RunInv, NotDone, Lists, Writes, AfterApi, AfterApp, tenant
<1>3. vault' \in [Configs -> apps \cup {None}]
  BY <1>1, Types DEF IInv
<1>4. (~lost /\ ~crowded /\ run'.pc = "app" /\ ~run'.found) => apps = {}
  BY <1>1 DEF IInv, SingleInv
<1> QED BY <1>1, <1>2, <1>3, <1>4, RunMoves

\* Types of the parts that grow with the applications.
LEMMA Grown ==
  ASSUME IInv, Keeps, UNCHANGED <<vault, check, crowded>>, run' \in Runs(apps'),
         lost' \in BOOLEAN
  PROVE  TypeOK' /\ CheckInv'
<1>1. vault \in [Configs -> apps \cup {None}] /\ apps \subseteq apps'
  BY Types DEF IInv, Keeps
<1>2. vault' \in [Configs -> apps' \cup {None}]
  BY <1>1
<1>3. CheckInv' /\ check' \in Checks(apps')
  BY CheckKept
<1>4. crowded' \in BOOLEAN
  BY Types DEF IInv
<1> QED BY <1>2, <1>3, <1>4 DEF TypeOK, Keeps, TenantOK, Runs, Checks

LEMMA LostStep == ASSUME IInv, Lost PROVE IInv'
<1>1. PICK app \in Apps \cup {None} : Done(app)
  BY DEF Lost
<1>2. /\ Keeps /\ run.pc \in Writes
      /\ ~(run.pc = "app" /\ ~run.found) => apps' = apps
  BY <1>1, DoneKeeps
<1>3. /\ run' \in Runs(apps) /\ run'.pc \in {run.pc, "failed"}
      /\ run'.found = run.found /\ run'.app = run.app
  BY <1>2, RetriedResult DEF Lost
<1>4. run' \in Runs(apps') /\ UNCHANGED <<vault, check, crowded>>
      /\ lost' = (lost \/ (run.pc = "app" /\ ~run.found))
  BY <1>2, <1>3 DEF Keeps, Runs, Lost
<1>5. lost' \in BOOLEAN
  BY <1>4
<1>6. TypeOK' /\ CheckInv'
  BY <1>2, <1>4, <1>5, Grown
<1>7. RunInv'
  BY <1>2, <1>3 DEF IInv, RunInv, Keeps, AfterApi, AfterApp, Writes
<1>8. SingleInv'
  BY <1>2, <1>3, <1>4 DEF IInv, SingleInv
<1> QED BY <1>6, <1>7, <1>8 DEF IInv

LEMMA WrittenStep == ASSUME IInv, Written PROVE IInv'
<1>1. PICK app \in Apps \cup {None} :
        /\ Done(app)
        /\ run' = [run EXCEPT !.pc = IF @ = "grant" /\ ~run.secret THEN "complete"
                                     ELSE Following[@],
                              !.tries = 0, !.app = app,
                              !.secret = @ \/ (run.pc = "app" /\ ~run.found),
                              !.left = IF run.pc = "grant" /\ run.secret THEN Configs ELSE {}]
        /\ UNCHANGED <<vault, check, lost, crowded>>
  BY DEF Written
<1>2. /\ Keeps /\ run.pc \in Writes
      /\ run.pc = "api" => api' = "current" /\ app = None
      /\ run.pc = "app" => app \in apps'
      /\ run.pc = "grant" => app = run.app /\ grant'[app] = "full"
      /\ ~(run.pc = "app" /\ ~run.found) => apps' = apps
      /\ \E new : apps' \subseteq apps \cup {new}
  BY <1>1, DoneKeeps
<1>3. run \in Runs(apps)
  BY Types DEF IInv
<1> DEFINE next == IF run.pc = "grant" /\ ~run.secret THEN "complete" ELSE Following[run.pc]
           secret == run.secret \/ (run.pc = "app" /\ ~run.found)
           left == IF run.pc = "grant" /\ run.secret THEN Configs ELSE {}
<1>4. /\ next \in {"apps", "grants", "sync", "complete"}
      /\ run.pc = "api" <=> next = "apps"
      /\ run.pc = "app" <=> next = "grants"
      /\ run.pc = "grant" <=> next \in {"sync", "complete"}
  BY <1>2 DEF Following, Writes
<1>5. /\ secret \in BOOLEAN /\ left \in SUBSET Configs /\ 0 \in 0..(Attempts - 1)
      /\ app \in apps' \cup {None} /\ next \in {"sync"} \cup Lists \cup Over
  <2>1. secret \in BOOLEAN
    BY <1>3 DEF Runs
  <2>2. app \in apps' \cup {None}
    <3>1. run.pc = "grant" => run.app \in apps
      BY DEF IInv, RunInv, AfterApp
    <3> QED BY <1>2, <3>1 DEF Writes, Keeps
  <2>3. next \in {"sync"} \cup Lists \cup Over
    BY <1>4 DEF Lists, Over
  <2> QED BY <2>1, <2>2, <2>3, AttemptsAssumption
<1>6. run' = [run EXCEPT !.pc = next, !.tries = 0, !.app = app, !.secret = secret, !.left = left]
  BY <1>1, <1>3 DEF Runs
<1> HIDE DEF next, secret, left
<1>7. run' \in Runs(apps') /\ run'.pc = next /\ run'.app = app /\ run'.left = left
  <2>1. run \in Runs(apps')
    BY <1>2, <1>3 DEF Runs, Keeps
  <2> QED BY <1>5, <1>6, <2>1 DEF Runs
<1>8. TypeOK' /\ CheckInv'
  <2>1. lost' \in BOOLEAN
    BY <1>1, Types DEF IInv
  <2> QED BY <1>1, <1>2, <1>7, <2>1, Grown
<1>9. RunInv'
  <2>1. run'.pc \in AfterApi => api' = "current"
    BY <1>2, <1>4, <1>7 DEF IInv, RunInv, Keeps, AfterApi, Writes
  <2>2. run'.pc \in AfterApp => run'.app \in apps'
    BY <1>2, <1>4, <1>7 DEF IInv, RunInv, Keeps, AfterApp
  <2>3. run'.pc # "app"
    BY <1>4, <1>7
  <2>4. run'.pc \in {"sync", "complete"} => grant'[run'.app] = "full"
    BY <1>2, <1>4, <1>7
  <2>5. run'.pc = "sync" => run'.left # {}
    <3>1. next = "sync" => left = Configs
      BY <1>2 DEF next, left, Following, Writes
    <3> QED BY <1>7, <3>1, ConfigsAssumption
  <2> QED BY <2>1, <2>2, <2>3, <2>4, <2>5 DEF RunInv
<1>10. SingleInv'
  BY <1>1, <1>2, <1>4, <1>7 DEF IInv, SingleInv
<1> QED BY <1>8, <1>9, <1>10 DEF IInv

LEMMA SyncStep == ASSUME IInv, Sync PROVE IInv'
<1>1. PICK c \in run.left :
        /\ run' = [run EXCEPT !.left = @ \ {c}, !.pc = IF run.left = {c} THEN "complete" ELSE @]
        /\ vault' = [vault EXCEPT ![c] = run.app] \/ UNCHANGED vault
  BY DEF Sync
<1>2. /\ run.pc = "sync" /\ run \in Runs(apps) /\ UNCHANGED <<tenant, check, lost, crowded>>
      /\ vault \in [Configs -> apps \cup {None}] /\ run.app \in apps
  BY Types DEF Sync, IInv, RunInv, AfterApp
<1>3. vault' \in [Configs -> apps \cup {None}]
  BY <1>1, <1>2
<1>4. /\ run' \in Runs(apps) /\ run'.pc \in {"sync", "complete"} /\ run'.app = run.app
      /\ run'.pc = "sync" => run'.left # {}
  <2> DEFINE next == IF run.left = {c} THEN "complete" ELSE "sync"
  <2>1. next \in {"sync", "complete"} /\ next \in {"sync"} \cup Over
    BY DEF Over
  <2>2. run' = [run EXCEPT !.left = run.left \ {c}, !.pc = next]
    BY <1>1, <1>2
  <2> HIDE DEF next
  <2>3. run.left \ {c} \in SUBSET Configs /\ (next = "sync" => run.left \ {c} # {})
    BY <1>2 DEF Runs, next
  <2> QED BY <1>2, <2>1, <2>2, <2>3 DEF Runs
<1>5. RunInv'
  BY <1>2, <1>4 DEF IInv, RunInv, AfterApi, AfterApp, tenant
<1> QED BY <1>2, <1>3, <1>4, <1>5, RunMoves

-----------------------------------------------------------------------------
(* The verification, and changes by hand. *)

\* A step of the verification leaves everything else alone.
LEMMA CheckMoves ==
  ASSUME IInv, UNCHANGED <<tenant, vault, run, lost, crowded>>, check' \in Checks(apps), CheckInv'
  PROVE  IInv'
<1>1. TypeOK'
  BY Types DEF IInv, TypeOK, Checks, tenant
<1>2. RunInv' /\ SingleInv'
  BY DEF IInv, RunInv, SingleInv, tenant
<1> QED BY <1>1, <1>2 DEF IInv

LEMMA VerifyStep == ASSUME IInv, Verify PROVE IInv'
<1>1. /\ check \in Checks(apps) /\ UNCHANGED <<tenant, vault, run, lost, crowded>>
      /\ 0 \in 0..(Attempts - 1)
  <2>1. check \in Checks(apps)
    BY Types DEF IInv
  <2>2. UNCHANGED <<tenant, vault, run, lost, crowded>>
    BY DEF Verify, CheckStart, CheckApis, CheckApps, CheckGrants, CheckFails, CheckExit
  <2> QED BY <2>1, <2>2, AttemptsAssumption
<1>2. CASE \E pc \in {"apis", "failed"} : check' = [check EXCEPT !.pc = pc]
  <2>1. check' \in Checks(apps) /\ check'.pc \in {"apis", "failed"}
    BY <1>1, <1>2 DEF Checks, Lists
  <2> QED BY <1>1, <2>1, CheckMoves DEF CheckInv
<1>3. CASE CheckApis
  <2>0. PICK seen \in {TRUE, ~crowded} :
          check' = [check EXCEPT !.pc = "apps", !.tries = 0, !.ok = seen /\ api = "current"]
    BY <1>3 DEF CheckApis
  <2> DEFINE current == seen /\ api = "current"
  <2>1. current \in BOOLEAN /\ check' = [check EXCEPT !.pc = "apps", !.tries = 0, !.ok = current]
    BY <2>0
  <2> HIDE DEF current
  <2>2. check' \in Checks(apps) /\ check'.pc = "apps" /\ check'.ok = current
    BY <1>1, <2>1 DEF Checks, Lists
  <2>3. CheckInv'
    BY <1>1, <2>2 DEF CheckInv, current, tenant
  <2> QED BY <1>1, <2>2, <2>3, CheckMoves
<1>4. CASE CheckApps
  <2>1. CASE check' = [check EXCEPT !.pc = "failed", !.ok = FALSE]
    <3>1. check' \in Checks(apps) /\ check'.pc = "failed"
      BY <1>1, <2>1 DEF Checks
    <3> QED BY <1>1, <3>1, CheckMoves DEF CheckInv
  <2>2. CASE \E a \in apps : check' = [check EXCEPT !.pc = "grants", !.tries = 0, !.app = a]
    <3>1. /\ check' \in Checks(apps) /\ check'.pc = "grants" /\ check'.app \in apps
          /\ check'.ok = check.ok /\ check.pc = "apps"
      BY <1>1, <1>4, <2>2 DEF Checks, Lists, CheckApps
    <3>2. CheckInv'
      BY <1>1, <3>1 DEF IInv, CheckInv, tenant
    <3> QED BY <1>1, <3>1, <3>2, CheckMoves
  <2> QED BY <1>4, <2>1, <2>2 DEF CheckApps
<1>5. CASE CheckGrants
  <2> DEFINE verdict == IF check.ok /\ grant[check.app] = "full" THEN "passed" ELSE "failed"
  <2>1. check.pc = "grants" /\ check' = [check EXCEPT !.pc = verdict]
    BY <1>5 DEF CheckGrants
  <2>2. /\ verdict \in {"passed", "failed"} /\ check.ok \in BOOLEAN
        /\ verdict = "passed" => check.ok /\ grant[check.app] = "full"
    BY <1>1 DEF Checks
  <2> HIDE DEF verdict
  <2>3. check' \in Checks(apps) /\ check'.pc = verdict /\ check'.app = check.app
    BY <1>1, <2>1, <2>2 DEF Checks
  <2>4. CheckInv'
    BY <1>1, <2>1, <2>2, <2>3 DEF IInv, CheckInv, tenant
  <2> QED BY <1>1, <2>3, <2>4, CheckMoves
<1>6. CASE CheckFails
  <2>1. CASE check' = [check EXCEPT !.pc = "failed"]
    <3>1. check' \in Checks(apps) /\ check'.pc = "failed"
      BY <1>1, <2>1 DEF Checks
    <3> QED BY <1>1, <3>1, CheckMoves DEF CheckInv
  <2>2. CASE \E n \in 0..(Attempts - 1) : check' = [check EXCEPT !.tries = n]
    <3>1. /\ check' \in Checks(apps) /\ check'.pc = check.pc
          /\ check'.app = check.app /\ check'.ok = check.ok
      BY <1>1, <2>2 DEF Checks
    <3>2. CheckInv'
      BY <1>1, <3>1 DEF IInv, CheckInv, tenant
    <3> QED BY <1>1, <3>1, <3>2, CheckMoves
  <2> QED BY <1>6, <2>1, <2>2 DEF CheckFails
<1>7. CASE CheckExit
  <2>1. check' \in Checks(apps) /\ check'.pc = "idle"
    BY <1>1, <1>7 DEF CheckExit, NoCheck, Checks
  <2> QED BY <1>1, <2>1, CheckMoves DEF CheckInv
<1> QED BY <1>2, <1>3, <1>4, <1>5, <1>6, <1>7 DEF Verify, CheckStart

LEMMA DriftStep == ASSUME IInv, Drift PROVE IInv'
<1>1. run.pc = "idle" /\ check.pc = "idle" /\ UNCHANGED <<apps, vault, run, check, lost, crowded>>
  BY DEF Drift
<1>2. TenantOK'
  BY Types DEF IInv, Drift, TenantOK
<1>3. TypeOK'
  BY <1>1, <1>2, Types DEF IInv, TypeOK, TenantOK
<1>4. RunInv' /\ CheckInv' /\ SingleInv'
  BY <1>1 DEF IInv, RunInv, CheckInv, SingleInv, AfterApi, AfterApp
<1> QED BY <1>3, <1>4 DEF IInv

LEMMA CrowdStep == ASSUME IInv, Crowd PROVE IInv'
<1>1. UNCHANGED <<tenant, vault, run, check, lost>> /\ crowded' = TRUE
  BY DEF Crowd
<1>2. TypeOK'
  BY <1>1 DEF IInv, TypeOK, tenant
<1>3. RunInv' /\ CheckInv' /\ SingleInv'
  BY <1>1 DEF IInv, RunInv, CheckInv, SingleInv, tenant
<1> QED BY <1>2, <1>3 DEF IInv

-----------------------------------------------------------------------------

LEMMA InitInv == Init => IInv
<1> SUFFICES ASSUME Init PROVE IInv
  OBVIOUS
<1>1. run.pc = "idle" /\ check.pc = "idle" /\ run \in Runs(apps) /\ check \in Checks(apps)
  BY AttemptsAssumption DEF Init, NoRun, NoCheck, Runs, Checks, Over
<1>2. TenantOK /\ vault \in [Configs -> apps \cup {None}]
      /\ lost \in BOOLEAN /\ crowded \in BOOLEAN
  BY DEF Init, TenantOK
<1>3. TypeOK
  BY <1>1, <1>2, Types
<1>4. RunInv /\ CheckInv /\ SingleInv
  BY <1>1 DEF Init, RunInv, CheckInv, SingleInv, AfterApi, AfterApp
<1> QED BY <1>3, <1>4 DEF IInv

LEMMA NextInv == IInv /\ [Next]_vars => IInv'
<1> SUFFICES ASSUME IInv, [Next]_vars PROVE IInv'
  OBVIOUS
<1>1. CASE UNCHANGED vars
  <2>1. TypeOK'
    BY <1>1 DEF IInv, TypeOK, vars, tenant
  <2>2. RunInv' /\ CheckInv' /\ SingleInv'
    BY <1>1 DEF IInv, RunInv, CheckInv, SingleInv, vars, tenant
  <2> QED BY <2>1, <2>2 DEF IInv
<1> QED
  BY <1>1, SimpleStep, ListedStep, WrittenStep, NotDoneStep, LostStep, SyncStep, VerifyStep,
     DriftStep, CrowdStep DEF Next, Advance

\* IInv holds in every reachable state.
THEOREM Invariance == Spec => []IInv
BY InitInv, NextInv, PTL DEF Spec

\* The tenant, Doppler and the scripts keep their types.
THEOREM TypeCorrect == Spec => []TypeOK
<1>1. IInv => TypeOK
  BY DEF IInv
<1> QED BY <1>1, Invariance, PTL

\* setup_auth0 that completes has provisioned, and verify_auth0 that passes is right.
THEOREM ReportedSuccessIsTrue == Spec => []SuccessIsTrue
<1>1. IInv => SuccessIsTrue
  BY DEF IInv, RunInv, CheckInv, AfterApi, AfterApp, SuccessIsTrue
<1> QED BY <1>1, Invariance, PTL

\* However often setup_auth0 is run, two applications of one name mean a lost answer, or
\* a tenant with more than a page of applications.
THEOREM DuplicatesAreExplained == Spec => []DuplicatesExplained
<1>1. IInv => DuplicatesExplained
  <2> SUFFICES ASSUME IInv, ~lost, ~crowded PROVE ~(Cardinality(apps) > 1)
    BY DEF DuplicatesExplained
  <2>1. CASE apps = {}
    BY <2>1, FS_EmptySet
  <2>2. CASE apps # {}
    <3>1. PICK a \in apps : apps = {a}
      BY <2>2 DEF IInv, SingleInv
    <3>2. Cardinality({a}) = 1
      BY FS_Singleton
    <3> QED BY <3>1, <3>2
  <2> QED BY <2>1, <2>2
<1> QED BY <1>1, Invariance, PTL

\* sync_to_doppler stores credentials only of an application that can use the API.
THEOREM StoredCredentialsWork == Spec => StoredWorks
<1>1. IInv /\ [Next]_vars =>
        [\A c \in Configs : vault'[c] # vault[c] => api = "current" /\ grant[vault'[c]] = "full"]_vars
  <2> SUFFICES ASSUME IInv, Next, NEW c \in Configs, vault'[c] # vault[c]
               PROVE  api = "current" /\ grant[vault'[c]] = "full"
    OBVIOUS
  <2>1. Sync
    BY DEF Next, Start, Advance, Token, Listed, Written, Refused, NotDone, Lost, Interrupt, Exit,
           Verify, CheckStart, CheckApis, CheckApps, CheckGrants, CheckFails, CheckExit, Drift,
           Crowd
  <2>2. run.pc = "sync" /\ vault'[c] = run.app
    BY <2>1, Types DEF Sync, IInv
  <2> QED BY <2>2 DEF IInv, RunInv, AfterApi
<1> QED BY <1>1, Invariance, PTL DEF Spec, StoredWorks

-----------------------------------------------------------------------------
(* The scripts implement Provisioning. *)

\* A report of success that stands is true.
LEMMA ReportMaps == ASSUME IInv' PROVE Tenant!Report
<1>1. Working' \in BOOLEAN
  BY DEF Working
<1>2. Reported' \in SUBSET Tenant!Scripts
  BY DEF Reported, Tenant!Scripts
<1>3. ASSUME Reported' # {} PROVE Working' /\ (\E a \in apps : Tenant!Opens(a))'
  <2>1. run'.pc = "complete" \/ check'.pc = "passed"
    BY <1>3 DEF Reported
  <2>2. Working'
    BY <2>1 DEF Working
  <2>3. CASE run'.pc = "complete"
    BY <2>2, <2>3 DEF IInv, RunInv, AfterApi, AfterApp, Tenant!Opens
  <2>4. CASE check'.pc = "passed"
    BY <2>2, <2>4 DEF IInv, CheckInv, Tenant!Opens
  <2> QED BY <2>1, <2>2, <2>3, <2>4
<1>4. Reported' = {} => Reported' \subseteq Reported
  OBVIOUS
<1> QED BY <1>1, <1>2, <1>3, <1>4 DEF Tenant!Report

\* What Auth0 does for a request makes one part, on what is there.
LEMMA DoneMaps ==
  ASSUME IInv, NEW app \in Apps \cup {None}, Done(app), UNCHANGED vault
  PROVE  Working /\ (UNCHANGED tenant \/ Tenant!MakeApi \/ Tenant!MakeApp \/ Tenant!MakeGrant)
<1>1. Working
  BY DEF Done, Working
<1>2. CASE run.pc = "api"
  BY <1>1, <1>2 DEF Done, Tenant!MakeApi
<1>3. CASE run.pc = "app"
  <2>1. api = "current"
    BY <1>3 DEF IInv, RunInv, AfterApi
  <2>2. CASE UNCHANGED <<api, apps, grant>>
    BY <1>1, <2>2 DEF tenant
  <2>3. CASE ~UNCHANGED <<api, apps, grant>>
    BY <1>1, <1>3, <2>1, <2>3 DEF Done, Tenant!MakeApp
  <2> QED BY <2>2, <2>3
<1>4. CASE run.pc = "grant"
  <2>1. api = "current" /\ run.app \in apps
    BY <1>4 DEF IInv, RunInv, AfterApi, AfterApp
  <2> QED BY <1>1, <1>4, <2>1 DEF Done, Tenant!MakeGrant
<1> QED BY <1>1, <1>2, <1>3, <1>4 DEF Done

LEMMA SyncMaps ==
  ASSUME IInv, Sync
  PROVE  Working /\ UNCHANGED tenant /\ (UNCHANGED vault \/ Tenant!Store)
<1>1. run.pc = "sync" /\ run.left \subseteq Configs /\ UNCHANGED tenant
  BY Types DEF Sync, IInv, Runs
<1>2. api = "current" /\ run.app \in apps /\ grant[run.app] = "full"
  BY <1>1 DEF IInv, RunInv, AfterApi, AfterApp
<1>3. CASE \E c \in run.left : vault' = [vault EXCEPT ![c] = run.app]
  <2>1. Tenant!Opens(run.app)
    BY <1>2 DEF Tenant!Opens
  <2>2. Tenant!Store
    BY <1>1, <1>2, <1>3, <2>1 DEF Tenant!Store, Tenant!tenant, tenant
  <2> QED BY <1>1, <2>2 DEF Working
<1> QED BY <1>1, <1>3 DEF Sync, Working

LEMMA DriftMaps == ASSUME IInv, Drift PROVE Tenant!Drift
<1>1. run.pc = "idle" /\ check.pc = "idle" /\ UNCHANGED <<apps, vault, run, check, lost, crowded>>
  BY DEF Drift
<1>2. TenantOK
  BY Types DEF IInv
<1>3. api' \in {"absent", "stale", "current"} /\ grant' \in [Apps -> {"absent", "partial", "full"}]
  BY <1>2 DEF Drift, TenantOK
<1> QED BY <1>1, <1>3 DEF Tenant!Drift, Working, Reported

LEMMA NextMaps ==
  ASSUME IInv, IInv', [Next]_vars
  PROVE  [Tenant!Next]_(Tenant!vars)
<1>1. Tenant!Report
  BY ReportMaps
<1>2. CASE UNCHANGED <<tenant, vault>>
  BY <1>1, <1>2 DEF Tenant!Next, Tenant!Work, Tenant!tenant, tenant
<1>3. CASE Written \/ Lost
  <2>1. PICK app \in Apps \cup {None} : Done(app)
    BY <1>3 DEF Written, Lost
  <2>2. UNCHANGED vault
    BY <1>3 DEF Written, Lost
  <2>3. Working /\ (UNCHANGED tenant \/ Tenant!MakeApi \/ Tenant!MakeApp \/ Tenant!MakeGrant)
    BY <2>1, <2>2, DoneMaps
  <2> QED BY <1>1, <1>2, <2>2, <2>3 DEF Tenant!Next, Tenant!Work
<1>4. CASE Sync
  BY <1>1, <1>2, <1>4, SyncMaps DEF Tenant!Next, Tenant!Work
<1>5. CASE Drift
  BY <1>5, DriftMaps DEF Tenant!Next
<1>6. CASE Start \/ Token \/ Listed \/ Refused \/ NotDone \/ Interrupt \/ Exit \/ Verify
           \/ Crowd \/ UNCHANGED vars
  <2>1. UNCHANGED <<tenant, vault>>
    BY <1>6 DEF Start, Token, Listed, Refused, NotDone, Interrupt, Exit, Verify, CheckStart,
                CheckApis, CheckApps, CheckGrants, CheckFails, CheckExit, Crowd, vars, tenant
  <2> QED BY <1>2, <2>1
<1> QED BY <1>3, <1>4, <1>5, <1>6 DEF Next, Advance

LEMMA InitMaps == Init => Tenant!Init
<1> SUFFICES ASSUME Init PROVE Tenant!Init
  OBVIOUS
<1>1. run.pc = "idle" /\ check.pc = "idle"
  BY DEF Init, NoRun, NoCheck
<1>2. Working = FALSE /\ Reported = {}
  BY <1>1 DEF Working, Reported
<1>3. TenantOK /\ vault \in [Configs -> apps \cup {None}]
  BY InitInv, Types DEF IInv
<1> QED BY <1>2, <1>3 DEF Init, TenantOK, Tenant!Init

\* Whatever is interrupted, repeated, refused or lost, both scripts together do what
\* Provisioning allows.
THEOREM ScriptsProvision == Spec => ProvisioningImplemented
BY InitMaps, NextMaps, Invariance, PTL DEF Spec, ProvisioningImplemented, Tenant!Spec

-----------------------------------------------------------------------------
(* How long a bootstrap may take: the part of EveryBootstrapEnds that is a safety   *)
(* property.                                                                        *)

\* The requests a bootstrap may still send, and the credentials it may still store.
Ahead == [token |-> 7, apis |-> 6, api |-> 5, apps |-> 4, app |-> 3, grants |-> 2, grant |-> 1]

Rank == IF run.pc = "sync" THEN Cardinality(run.left)
        ELSE Cardinality(Configs) + Attempts * Ahead[run.pc] - run.tries

\* A bootstrap that goes on has less ahead of it with each of its steps, from a bound
\* that no retry and no state of the tenant raises.
RankFalls ==
  [][run.pc \notin Over =>
       /\ Rank \in Nat /\ Rank <= Cardinality(Configs) + Attempts * 7
       /\ run' # run => run'.pc \in Over \/ Rank' < Rank]_vars

LEMMA RankValue ==
  ASSUME IInv, run.pc \notin Over
  PROVE  /\ Attempts \in Nat /\ Attempts >= 1 /\ Cardinality(Configs) \in Nat
         /\ run.tries \in 0..(Attempts - 1)
         /\ run.pc = "token" => Rank = Cardinality(Configs) + Attempts * 7 - run.tries
         /\ run.pc = "apis" => Rank = Cardinality(Configs) + Attempts * 6 - run.tries
         /\ run.pc = "api" => Rank = Cardinality(Configs) + Attempts * 5 - run.tries
         /\ run.pc = "apps" => Rank = Cardinality(Configs) + Attempts * 4 - run.tries
         /\ run.pc = "app" => Rank = Cardinality(Configs) + Attempts * 3 - run.tries
         /\ run.pc = "grants" => Rank = Cardinality(Configs) + Attempts * 2 - run.tries
         /\ run.pc = "grant" => Rank = Cardinality(Configs) + Attempts * 1 - run.tries
         /\ run.pc = "sync" => /\ Rank = Cardinality(run.left) /\ Rank \in Nat
                               /\ Rank <= Cardinality(Configs)
         /\ run.pc \in {"token", "sync"} \cup Lists \cup Writes
         /\ run.left \in SUBSET Configs /\ IsFiniteSet(run.left)
<1>1. run \in Runs(apps)
  BY Types DEF IInv
<1>2. Cardinality(Configs) \in Nat /\ IsFiniteSet(Configs)
  BY ConfigsAssumption, FS_CardinalityType
<1>3. run.left \in SUBSET Configs /\ run.tries \in 0..(Attempts - 1)
      /\ run.pc \in {"token", "sync"} \cup Lists \cup Writes
  BY <1>1 DEF Runs
<1>4. /\ IsFiniteSet(run.left) /\ Cardinality(run.left) \in Nat
      /\ Cardinality(run.left) <= Cardinality(Configs)
  BY <1>2, <1>3, FS_Subset, FS_CardinalityType
<1> QED BY <1>2, <1>3, <1>4, AttemptsAssumption DEF Rank, Ahead

LEMMA RankBounded ==
  ASSUME IInv, run.pc \notin Over
  PROVE  Rank \in Nat /\ Rank <= Cardinality(Configs) + Attempts * 7
BY RankValue DEF Lists, Writes

\* The same request again.
LEMMA RetriedFalls ==
  ASSUME IInv, IInv', Retried, run.pc \in Lists \cup Writes, run'.pc \notin Over
  PROVE  Rank' < Rank
<1>1. run \in Runs(apps) /\ run.pc \notin Over /\ run.pc # "sync"
  BY Types DEF IInv, Lists, Writes, Over
<1>2. run.tries \in Nat /\ run' = [run EXCEPT !.tries = run.tries + 1]
  <2>1. CASE run.tries + 1 < Attempts
    BY <1>1, <2>1 DEF Retried, Runs
  <2>2. CASE ~(run.tries + 1 < Attempts)
    <3>1. run' = [run EXCEPT !.pc = "failed"]
      BY <2>2 DEF Retried
    <3>2. run'.pc = "failed"
      BY <1>1, <3>1 DEF Runs
    <3> QED BY <3>2 DEF Over
  <2> QED BY <2>1, <2>2
<1>3. run'.pc = run.pc /\ run'.tries = run.tries + 1
  BY <1>1, <1>2 DEF Runs
<1>4. Rank' = Cardinality(Configs) + Attempts * Ahead[run.pc] - (run.tries + 1)
  BY <1>1, <1>3 DEF Rank
<1>5. Rank = Cardinality(Configs) + Attempts * Ahead[run.pc] - run.tries
  BY <1>1 DEF Rank
<1>6. Rank \in Nat
  BY <1>1, RankBounded
<1>7. Cardinality(Configs) \in Nat /\ Attempts * Ahead[run.pc] \in Nat
  <2>1. Ahead[run.pc] \in Nat
    BY <1>1 DEF Ahead, Lists, Writes
  <2>2. Cardinality(Configs) \in Nat /\ Attempts \in Nat
    BY <1>1, RankValue
  <2> QED BY <2>1, <2>2
<1> QED BY <1>2, <1>4, <1>5, <1>7

\* The next request, counted from the start.
LEMMA NextRequestFalls ==
  ASSUME IInv, IInv', run'.tries = 0, run'.pc \notin Over, run.pc \in Lists \cup Writes,
         run'.pc = Following[run.pc]
  PROVE  Rank' < Rank
<1>1. run.pc \notin Over
  BY DEF Lists, Writes, Over
<1>2. CASE run.pc = "grant"
  <2>1. run'.pc = "sync"
    BY <1>2 DEF Following
  <2>2. Rank' <= Cardinality(Configs) /\ Rank' \in Nat
    <3>1. Rank' = Cardinality(run'.left) /\ run'.left \subseteq Configs
      BY <2>1 DEF Rank, IInv, TypeOK
    <3> QED BY <3>1, ConfigsAssumption, FS_Subset, FS_CardinalityType
  <2> QED BY <1>1, <1>2, <2>2, RankValue
<1>3. CASE run.pc # "grant"
  <2>1. /\ run.pc = "apis" => run'.pc = "api"
        /\ run.pc = "api" => run'.pc = "apps"
        /\ run.pc = "apps" => run'.pc = "app"
        /\ run.pc = "app" => run'.pc = "grants"
        /\ run.pc = "grants" => run'.pc = "grant"
        /\ run.pc \in {"apis", "api", "apps", "app", "grants"}
    BY <1>3 DEF Following, Lists, Writes
  <2>2. /\ run'.pc = "api" => Rank' = Cardinality(Configs) + Attempts * 5
        /\ run'.pc = "apps" => Rank' = Cardinality(Configs) + Attempts * 4
        /\ run'.pc = "app" => Rank' = Cardinality(Configs) + Attempts * 3
        /\ run'.pc = "grants" => Rank' = Cardinality(Configs) + Attempts * 2
        /\ run'.pc = "grant" => Rank' = Cardinality(Configs) + Attempts * 1
    <3>1. run'.pc # "sync" =>
            Rank' = Cardinality(Configs) + Attempts * Ahead[run'.pc] - 0
      BY DEF Rank
    <3>2. Cardinality(Configs) \in Nat /\ Attempts \in Nat
      BY <1>1, RankValue
    <3> QED BY <3>1, <3>2 DEF Ahead
  <2> QED BY <1>1, <2>1, <2>2, RankValue
<1> QED BY <1>2, <1>3

LEMMA StepFalls ==
  ASSUME IInv, IInv', Next, run.pc \notin Over, run' # run, run'.pc \notin Over
  PROVE  Rank' < Rank
<1>1. run \in Runs(apps)
  BY Types DEF IInv
<1>2. CASE Token
  <2>1. run.pc = "token" /\ run' = [run EXCEPT !.pc = "apis"]
    <3>1. PICK pc \in {"apis", "failed"} : run' = [run EXCEPT !.pc = pc]
      BY <1>2 DEF Token
    <3>2. run'.pc = pc
      BY <1>1, <3>1 DEF Runs
    <3> QED BY <1>2, <3>1, <3>2 DEF Token, Over
  <2>2. run'.pc = "apis" /\ run'.tries = run.tries
    BY <1>1, <2>1 DEF Runs
  <2>3. Rank' = Cardinality(Configs) + Attempts * 6 - run.tries
    BY <2>2 DEF Rank, Ahead
  <2> QED BY <2>1, <2>3, RankValue
<1>3. CASE Listed
  <2>1. run.pc \in Lists /\ run'.tries = 0 /\ run'.pc = Following[run.pc]
    BY <1>1, <1>3 DEF Listed, Runs
  <2> QED BY <2>1, NextRequestFalls
<1>4. CASE Written
  <2>1. PICK app \in Apps \cup {None} :
          /\ Done(app)
          /\ run' = [run EXCEPT !.pc = IF @ = "grant" /\ ~run.secret THEN "complete"
                                       ELSE Following[@],
                                !.tries = 0, !.app = app,
                                !.secret = @ \/ (run.pc = "app" /\ ~run.found),
                                !.left = IF run.pc = "grant" /\ run.secret THEN Configs ELSE {}]
    BY <1>4 DEF Written
  <2>2. /\ run.pc \in Writes /\ run'.tries = 0
        /\ run'.pc = IF run.pc = "grant" /\ ~run.secret THEN "complete" ELSE Following[run.pc]
    BY <1>1, <2>1 DEF Done, Writes, Runs
  <2>3. run'.pc = Following[run.pc]
    BY <2>2 DEF Over
  <2> QED BY <2>2, <2>3, NextRequestFalls
<1>5. CASE NotDone
  BY <1>5, RetriedFalls DEF NotDone
<1>6. CASE Lost
  <2>1. run.pc \in Writes
    BY <1>6 DEF Lost, Done, Writes
  <2> QED BY <1>6, <2>1, RetriedFalls DEF Lost
<1>7. CASE Sync
  <2>1. PICK c \in run.left :
          run' = [run EXCEPT !.left = @ \ {c}, !.pc = IF run.left = {c} THEN "complete" ELSE @]
    BY <1>7 DEF Sync
  <2>2. run.pc = "sync" /\ run'.pc = "sync" /\ run'.left = run.left \ {c}
    <3>1. run.pc = "sync" /\ run'.left = run.left \ {c}
          /\ run'.pc = IF run.left = {c} THEN "complete" ELSE run.pc
      BY <1>1, <1>7, <2>1 DEF Sync, Runs
    <3> QED BY <3>1 DEF Over
  <2>3. IsFiniteSet(run.left) /\ Rank = Cardinality(run.left)
    BY <2>2, RankValue
  <2>4. Cardinality(run.left \ {c}) = Cardinality(run.left) - 1
    BY <2>3, FS_RemoveElement
  <2>5. Cardinality(run.left) \in Nat
    BY <2>3, FS_CardinalityType
  <2>6. Rank' = Cardinality(run.left \ {c})
    BY <2>2 DEF Rank
  <2> QED BY <2>3, <2>4, <2>5, <2>6
<1>8. ASSUME Refused \/ Interrupt PROVE FALSE
  <2>1. run' = [run EXCEPT !.pc = "failed"]
    BY <1>8 DEF Refused, Interrupt
  <2>2. run'.pc = "failed"
    BY <1>1, <2>1 DEF Runs
  <2> QED BY <2>2 DEF Over
<1>9. ASSUME Start \/ Exit \/ Drift \/ Verify \/ Crowd PROVE FALSE
  BY <1>9 DEF Start, Exit, Drift, Crowd, Verify, CheckStart, CheckApis, CheckApps, CheckGrants,
              CheckFails, CheckExit, Over
<1> QED BY <1>2, <1>3, <1>4, <1>5, <1>6, <1>7, <1>8, <1>9 DEF Next, Advance

\* A run of setup_auth0 sends and stores a bounded number of times, whatever the tenant
\* answers, does not answer, or repeats.
THEOREM BootstrapIsBounded == Spec => RankFalls
<1>1. IInv /\ IInv' /\ [Next]_vars =>
        [run.pc \notin Over =>
           /\ Rank \in Nat /\ Rank <= Cardinality(Configs) + Attempts * 7
           /\ run' # run => run'.pc \in Over \/ Rank' < Rank]_vars
  BY RankBounded, StepFalls
<1> QED BY <1>1, Invariance, PTL DEF Spec, RankFalls
=============================================================================

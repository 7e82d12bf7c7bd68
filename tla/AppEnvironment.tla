----------------------------- MODULE AppEnvironment -----------------------------
(***************************************************************************)
(* The environment of the deployed application: the encrypted app.env      *)
(* (dashboard/app/services/env_store.py, blueprints/environment.py), the   *)
(* page that edits it (static/app.js), the credentials of the managed      *)
(* database, and the deploys and rollbacks that hand both to the container *)
(* (services/deployment.py).                                               *)
(*                                                                         *)
(* The page holds a copy of all variables and saves them all.  What it     *)
(* was sent are redacted values.  A deploy reads file and credentials      *)
(* once, minutes before the container is created; the orchestrator may     *)
(* create it after the dashboard gave up.  A value stands for one that can *)
(* be told from its redaction, on one line, within the limits that         *)
(* validate_vars sets; what it refuses changes nothing, nor does an access *)
(* to the file that fails.                                                 *)
(***************************************************************************)
EXTENDS Workers

CONSTANTS
  Tabs,        \* open pages of the panel
  Variables,   \* names of variables, none of them reserved
  Values,      \* values that are entered
  Passwords    \* passwords of the managed database

ASSUME EnvironmentAssumption == None \notin Passwords

VARIABLES
  envFile,   \* app.env
  page,      \* currentEnvVars of each tab
  db,        \* the recorded database password
  read,      \* what each deploy has read
  swap,      \* what the orchestrator activates for each request
  app,       \* the environment of the running container
  pending,   \* history: changed since the deploy that runs began
  covering,  \* history: deploys begun after the last change
  raced      \* history: a deploy began before another had ended

environmentVars ==
  <<workerVars, envFile, page, db, read, swap, app, pending, covering, raced>>

Absent == [of |-> None, redacted |-> FALSE]
Forms == [of : Values, redacted : BOOLEAN] \cup {Absent}
Dictionaries == [Variables -> Forms]
NoVariables == [x \in Variables |-> Absent]

Environments == [variables : Dictionaries, password : Passwords \cup {None}]
NoEnvironment == [variables |-> None, password |-> None]

EnvironmentTypeOK ==
  /\ pc \in [Requests -> {"idle", "env_load", "db_load", "building", "activating"}]
  /\ overlapped \in BOOLEAN
  /\ envFile \in Dictionaries
  /\ page \in [Tabs -> Dictionaries]
  /\ db \in Passwords \cup {None}
  /\ read \in [Requests -> Environments \cup {NoEnvironment}]
  /\ swap \in [Requests -> Environments \cup {NoEnvironment}]
  /\ app \in Environments \cup {NoEnvironment}
  /\ pending \in BOOLEAN
  /\ covering \subseteq Requests
  /\ raced \in BOOLEAN

EnvironmentInit ==
  /\ WorkersInit
  /\ envFile = NoVariables
  /\ page = [t \in Tabs |-> NoVariables]
  /\ db = None
  /\ read = [r \in Requests |-> NoEnvironment]
  /\ swap = [r \in Requests |-> NoEnvironment]
  /\ app = NoEnvironment
  /\ pending = TRUE /\ covering = {} /\ raced = FALSE

-----------------------------------------------------------------------------
(* The page.                                                               *)

DeploysUnchanged == UNCHANGED <<workerVars, read, swap, app, raced>>

(* redact() keeps two characters at either end, if that; a second time     *)
(* changes nothing.                                                        *)
Redact(values) ==
  [x \in Variables |-> IF values[x] = Absent THEN Absent
                                             ELSE [values[x] EXCEPT !.redacted = TRUE]]

(* loadEnvironment(), when the tab is first shown or after a save.         *)
LoadEnvironment(t) ==
  /\ page' = [page EXCEPT ![t] = Redact(envFile)]
  /\ UNCHANGED <<envFile, db, pending, covering>> /\ DeploysUnchanged

EditVariable(t) ==
  /\ \E x \in Variables, v \in Values :
       page' = [page EXCEPT ![t][x] = [of |-> v, redacted |-> FALSE]]
  /\ UNCHANGED <<envFile, db, pending, covering>> /\ DeploysUnchanged

RemoveVariable(t) ==
  /\ \E x \in Variables : page' = [page EXCEPT ![t][x] = Absent]
  /\ UNCHANGED <<envFile, db, pending, covering>> /\ DeploysUnchanged

Change == pending' = TRUE /\ covering' = {}

(* PUT /api/environment replaces the file by what the page holds.          *)
PutEnv(t) ==
  /\ envFile' = page[t]
  /\ Change
  /\ UNCHANGED <<page, db>> /\ DeploysUnchanged

(* A provision, a rotation or a deprovision is recorded.                   *)
RecordDatabase ==
  /\ db' \in Passwords \cup {None}
  /\ Change
  /\ UNCHANGED <<envFile, page>> /\ DeploysUnchanged

-----------------------------------------------------------------------------
(* Deploys and rollbacks.                                                  *)

PagesUnchanged == UNCHANGED <<envFile, page, db>>

Deploying(r) == pc[r] # "idle" \/ swap[r] # NoEnvironment

(* What the panel holds is what the next container is given.               *)
HeldByPanel == [variables |-> envFile, password |-> db]

DeployBegin(r) ==
  /\ swap[r] = NoEnvironment
  /\ Enter(r, "env_load")
  /\ covering' = covering \cup {r}
  /\ raced' = (raced \/ \E q \in Requests \ {r} : Deploying(q))
  /\ PagesUnchanged /\ UNCHANGED <<read, swap, app, pending>>

(* Mutant of EnvLoad: what is deployed already is not read again.          *)
EnvLoadOnce(r) ==
  /\ Goto(r, "env_load", "db_load")
  /\ read' = [read EXCEPT ![r] =
       IF app # NoEnvironment THEN app ELSE [variables |-> envFile, password |-> None]]
  /\ PagesUnchanged /\ UNCHANGED <<swap, app, pending, covering, raced>>

EnvLoad(r) ==
  /\ Goto(r, "env_load", "db_load")
  /\ read' = [read EXCEPT ![r] = [variables |-> envFile, password |-> None]]
  /\ PagesUnchanged /\ UNCHANGED <<swap, app, pending, covering, raced>>

DbLoad(r) ==
  /\ Goto(r, "db_load", "building")
  /\ read' = [read EXCEPT ![r].password = db]
  /\ PagesUnchanged /\ UNCHANGED <<swap, app, pending, covering, raced>>

(* Built and probed; a rollback comes here at once.                        *)
AskActivate(r) ==
  /\ Goto(r, "building", "activating")
  /\ swap' = [swap EXCEPT ![r] = read[r]]
  /\ PagesUnchanged /\ UNCHANGED <<read, app, pending, covering, raced>>

EndDeploy(r) ==
  /\ read' = [read EXCEPT ![r] = NoEnvironment]
  /\ covering' = covering \ {r}

(* A step before the activation fails.                                     *)
DeployFails(r) ==
  /\ \E step \in {"env_load", "db_load", "building"} : Leave(r, step)
  /\ EndDeploy(r)
  /\ PagesUnchanged /\ UNCHANGED <<swap, app, pending, raced>>

(* The new container runs and the request hears of it.                     *)
Activate(r) ==
  /\ Leave(r, "activating")
  /\ swap[r] # NoEnvironment
  /\ app' = swap[r]
  /\ swap' = [swap EXCEPT ![r] = NoEnvironment]
  /\ pending' = (r \notin covering)
  /\ EndDeploy(r)
  /\ PagesUnchanged /\ UNCHANGED raced

(* The activation failed, before it touched the old container, after it    *)
(* removed it, or after the new one was started.                           *)
ActivateFails(r) ==
  /\ Leave(r, "activating")
  /\ swap[r] # NoEnvironment
  /\ app' \in {app, NoEnvironment, swap[r]}
  /\ swap' = [swap EXCEPT ![r] = NoEnvironment]
  /\ EndDeploy(r)
  /\ PagesUnchanged /\ UNCHANGED <<pending, raced>>

(* The client's timeout: the orchestrator goes on.                         *)
GiveUpDeploy(r) ==
  /\ Leave(r, "activating")
  /\ EndDeploy(r)
  /\ PagesUnchanged /\ UNCHANGED <<swap, app, pending, raced>>

(* An activation whose request is gone comes to its end.                   *)
ActivateLate(r) ==
  /\ pc[r] = "idle"
  /\ swap[r] # NoEnvironment
  /\ app' \in {app, NoEnvironment, swap[r]}
  /\ swap' = [swap EXCEPT ![r] = NoEnvironment]
  /\ PagesUnchanged /\ UNCHANGED <<workerVars, read, pending, covering, raced>>

EnvironmentCrash ==
  /\ AllStop
  /\ read' = [r \in Requests |-> NoEnvironment]
  /\ covering' = {}
  /\ PagesUnchanged /\ UNCHANGED <<swap, app, pending, raced>>

EnvironmentNext ==
  \/ \E t \in Tabs : LoadEnvironment(t) \/ EditVariable(t) \/ RemoveVariable(t) \/ PutEnv(t)
  \/ RecordDatabase
  \/ \E r \in Requests :
       \/ DeployBegin(r) \/ EnvLoad(r) \/ DbLoad(r) \/ AskActivate(r) \/ DeployFails(r)
       \/ Activate(r) \/ ActivateFails(r) \/ GiveUpDeploy(r) \/ ActivateLate(r)
  \/ EnvironmentCrash

EnvironmentSpec == EnvironmentInit /\ [][EnvironmentNext]_environmentVars

-----------------------------------------------------------------------------
(* Properties.                                                             *)

(* Once a deploy that began after the last change has succeeded, the       *)
(* application runs with what the panel holds (or not at all, if a later   *)
(* activation failed half way), whatever was saved while earlier deploys   *)
(* ran, unless two deploys overlapped.                                     *)
SavedChangesReachTheApp ==
  ~raced /\ ~pending => app \in {HeldByPanel, NoEnvironment}

(* What the page says after a save, that "the changes" will be applied:    *)
(* every value in the file is one that was entered.  (Violated: values     *)
(* nobody touched are saved as the page was sent them.)                    *)
ValuesAsEntered == \A x \in Variables : ~envFile[x].redacted
=============================================================================

-------------------------- MODULE PanelServices_proof --------------------------
(***************************************************************************)
(* Proofs about the services of the panel that share its threads, for any  *)
(* number of threads, users, tabs, variables and values: the accounts, the *)
(* environment of the application, and all four services side by side.     *)
(* Those about the repository configuration and the staging area have      *)
(* modules of their own.                                                   *)
(***************************************************************************)
EXTENDS PanelServices, RepositoryConfig_proof, StagingStorage_proof

-----------------------------------------------------------------------------
(* The accounts.  A change is checked in one step and written in another.  *)
(* While requests do not overlap, the administrator who was let in still   *)
(* is one when the change is written, and the change does not say "false"  *)
(* or "operator" of themselves.                                            *)

(* Threads take turns as long as no overlap was seen.                      *)
TakingTurns ==
  ~overlapped => \A r, q \in Requests : pc[r] # "idle" /\ pc[q] # "idle" => r = q

(* A change waits to be written: it has its account and passed the check.  *)
GrantsSound ==
  \A r \in Requests :
    /\ pc[r] # "idle" => grant[r] \in Grants
    /\ pc[r] = "create" => grant[r].role \in Roles
    /\ pc[r] = "update" => /\ account[grant[r].user] # NoAccount
                           /\ ~GivesUpOwnRights(r, grant[r])

(* Whoever was let in still is an administrator.                           *)
StillAdministrator ==
  ~overlapped => \A r \in Requests : pc[r] # "idle" => cookie[r].user \in Administrators

UsersInv ==
  /\ UsersTypeOK
  /\ TakingTurns
  /\ GrantsSound
  /\ StillAdministrator

LEMMA AccountFacts ==
  /\ FreshAdmin \in Accounts
  /\ NoAccount \notin Accounts
  /\ FreshAdmin # NoAccount
  BY UsersAssumption DEF FreshAdmin, Accounts, NoAccount, Roles

LEMMA GrantFacts ==
  /\ NoGrant \notin Grants
  /\ \A g \in Grants : /\ g.user \in Users
                       /\ g.role \in Roles \cup {None}
                       /\ g.active \in ActiveFields \cup {None}
  BY UsersAssumption DEF NoGrant, Grants

(* An account that is changed stays one.                                   *)
LEMMA ChangedTyped ==
  ASSUME NEW row \in Accounts, NEW g \in Grants
  PROVE  Changed(row, g) \in Accounts
<1>1. (IF g.role = None THEN row.role ELSE g.role) \in Roles
  BY GrantFacts DEF Accounts
<1>2. (IF g.active = None THEN row.active ELSE g.active = "true") \in BOOLEAN
  BY DEF Accounts
<1>3. QED
  BY <1>1, <1>2 DEF Changed, Accounts

(* An administrator whose role is not taken and who is not disabled, in    *)
(* either way of saying so, stays one.                                     *)
LEMMA ChangedStaysAdmin ==
  ASSUME NEW g \in Grants, g.active \notin {"false", "zero"}, g.role # "operator"
  PROVE  Changed(FreshAdmin, g) = FreshAdmin
<1>1. g.active \in {"true", None} /\ g.role \in {"admin", None}
  BY GrantFacts DEF Roles, ActiveFields
<1>2. (IF g.active = None THEN TRUE ELSE g.active = "true") = TRUE
  BY <1>1
<1>3. (IF g.role = None THEN "admin" ELSE g.role) = "admin"
  BY <1>1
<1>4. QED
  BY <1>2, <1>3 DEF Changed, FreshAdmin

LEMMA UsersInit_Inv == UsersInit => UsersInv
<1> SUFFICES ASSUME UsersInit
             PROVE  UsersInv
  OBVIOUS
<1>1. PICK initial \in Users :
        account = [u \in Users |-> IF u = initial THEN FreshAdmin ELSE NoAccount]
  BY DEF UsersInit
<1>2. UsersTypeOK
  BY <1>1, AccountFacts DEF UsersInit, WorkersInit, UsersTypeOK
<1>3. initial \in Administrators
  BY <1>1 DEF Administrators
<1>4. QED
  BY <1>2, <1>3 DEF UsersInit, WorkersInit, UsersInv, TakingTurns, GrantsSound,
                    StillAdministrator

(* Whoever passes admin_required is an administrator at that moment.       *)
LEMMA AuthenticatedIsAdministrator ==
  ASSUME UsersTypeOK, NEW r \in Requests, IsAdmin(r)
  PROVE  cookie[r].user \in Administrators
<1> DEFINE user == cookie[r].user
<1>1. /\ user \in Users
      /\ account[user].active
      /\ account[user].role = "admin"
  BY DEF UsersTypeOK, IsAdmin, IsAuthenticated, Cookies
<1>2. account[user] \in Accounts
  <2>1. account[user] # NoAccount
    BY <1>1 DEF NoAccount
  <2>2. QED
    BY <1>1, <2>1 DEF UsersTypeOK
<1>3. PICK role \in Roles, active \in BOOLEAN :
        account[user] = [role |-> role, active |-> active]
  BY <1>2 DEF Accounts
<1>4. account[user] = FreshAdmin
  BY <1>1, <1>3 DEF FreshAdmin
<1>5. QED
  BY <1>1, <1>4 DEF Administrators

LEMMA UsersStep_Inv == UsersInv /\ [UsersNext]_usersVars => UsersInv'
<1> SUFFICES ASSUME UsersInv, [UsersNext]_usersVars
             PROVE  UsersInv'
  OBVIOUS
<1> USE AccountFacts, GrantFacts
    DEF UsersInv, UsersTypeOK, TakingTurns, GrantsSound, StillAdministrator,
        GivesUpOwnRights
<1>1. ASSUME NEW r \in Requests, Login(r)
      PROVE  UsersInv'
  <2>1. PICK u \in Users :
          /\ account[u].active
          /\ cookie' = [cookie EXCEPT ![r] = [user |-> u, role |-> account[u].role]]
    BY <1>1 DEF Login
  <2>2. [user |-> u, role |-> account[u].role] \in Cookies
    BY <2>1 DEF Cookies, Accounts, NoAccount
  <2>3. QED
    BY <1>1, <2>1, <2>2 DEF Login, workerVars, Administrators
<1>2. ASSUME NEW r \in Requests, Logout(r)
      PROVE  UsersInv'
  BY <1>2 DEF Logout, workerVars, Administrators
<1>3. ASSUME NEW r \in Requests, CreatePermitted(r)
      PROVE  UsersInv'
  <2>1. cookie[r].user \in Administrators
    BY <1>3, AuthenticatedIsAdministrator DEF CreatePermitted
  <2>2. PICK g \in Grants : g.role \in Roles /\ grant' = [grant EXCEPT ![r] = g]
    BY <1>3 DEF CreatePermitted, Grants
  <2>3. QED
    BY <1>3, <2>1, <2>2 DEF CreatePermitted, Enter, Administrators
<1>4. ASSUME NEW r \in Requests, UpdatePermitted(r)
      PROVE  UsersInv'
  <2>1. cookie[r].user \in Administrators
    BY <1>4, AuthenticatedIsAdministrator DEF UpdatePermitted
  <2>2. PICK g \in Grants :
          /\ ~GivesUpOwnRights(r, g)
          /\ account[g.user] # NoAccount
          /\ grant' = [grant EXCEPT ![r] = g]
    BY <1>4 DEF UpdatePermitted
  <2>3. QED
    BY <1>4, <2>1, <2>2 DEF UpdatePermitted, Enter, Administrators
<1>5. ASSUME NEW r \in Requests, Create(r)
      PROVE  UsersInv'
  <2> DEFINE g == grant[r]
             row == [role |-> g.role, active |-> TRUE]
  <2>1. pc[r] = "create" /\ g \in Grants /\ g.user \in Users
    BY <1>5 DEF Create, Leave, Goto
  <2>2. row \in Accounts
    BY <2>1 DEF Accounts
  <2> HIDE DEF row
  <2>3. account' = IF account[g.user] = NoAccount
                     THEN [account EXCEPT ![g.user] = row] ELSE account
    BY <1>5 DEF Create, row
  <2>4. /\ account' \in [Users -> Accounts \cup {NoAccount}]
        /\ \A u \in Users : account[u] # NoAccount => account'[u] = account[u]
    BY <2>1, <2>2, <2>3
  <2>5. Administrators \subseteq Administrators'
    BY <2>4 DEF Administrators
  <2>6. QED
    BY <1>5, <2>1, <2>4, <2>5 DEF Create, Leave, Goto
<1>6. ASSUME NEW r \in Requests, Update(r)
      PROVE  UsersInv'
  <2> DEFINE g == grant[r]
  <2>1. pc[r] = "update" /\ g \in Grants /\ account[g.user] \in Accounts
    BY <1>6 DEF Update, Leave, Goto
  <2>2. Changed(account[g.user], g) \in Accounts
    BY <2>1, ChangedTyped
  <2>3. account' = [account EXCEPT ![g.user] = Changed(account[g.user], g)]
    BY <1>6 DEF Update
  <2>4. \A u \in Users : account[u] # NoAccount => account'[u] # NoAccount
    BY <2>1, <2>2, <2>3
  <2>5. QED
    BY <1>6, <2>1, <2>2, <2>3, <2>4 DEF Update, Leave, Goto
<1>7. ASSUME NEW r \in Requests, WriteFails(r)
      PROVE  UsersInv'
  BY <1>7 DEF WriteFails, Leave, Goto, Administrators
<1>8. CASE UsersRestart
  BY <1>8 DEF UsersRestart, AllStop, Administrators
<1>9. CASE UNCHANGED usersVars
  BY <1>9 DEF usersVars, workerVars, Administrators
<1>10. QED
  BY <1>1, <1>2, <1>3, <1>4, <1>5, <1>6, <1>7, <1>8, <1>9 DEF UsersNext

-----------------------------------------------------------------------------
(* A request that was permitted came from an active administrator who      *)
(* still is one when it is written, as long as requests do not overlap.    *)
LEMMA UsersAlwaysInv == UsersSpec => []UsersInv
  BY UsersInit_Inv, UsersStep_Inv, PTL DEF UsersSpec

(* While requests come one at a time the last administrator loses the      *)
(* rights in one way only: by a zero sent about themselves.                *)
THEOREM OnlyOneselfEndsAdministration == UsersSpec => LastAdministratorByOwnHand
<1> DEFINE ByOwnHand(r) == /\ Update(r)
                           /\ grant[r].user = cookie[r].user
                           /\ grant[r].active = "zero"
<1>1. ASSUME UsersInv, [UsersNext]_usersVars, ~overlapped,
             \A r \in Requests : ~ByOwnHand(r)
      PROVE  Administrators # {} => Administrators' # {}
  <2> USE AccountFacts, GrantFacts
      DEF UsersInv, UsersTypeOK, GrantsSound, StillAdministrator
  <2>1. ASSUME NEW r \in Requests, Update(r)
        PROVE  Administrators # {} => Administrators' # {}
    <3> DEFINE g == grant[r]
               author == cookie[r].user
    <3>1. pc[r] = "update" /\ g \in Grants /\ author \in Administrators
      BY <1>1, <2>1 DEF Update, Leave, Goto
    <3>2. account' = [account EXCEPT ![g.user] = Changed(account[g.user], g)]
      BY <2>1 DEF Update
    <3>3. author \in Users /\ account[author] = FreshAdmin
      BY <3>1 DEF Administrators
    <3>4. CASE g.user = author
      <4>1. g.active \notin {"false", "zero"} /\ g.role # "operator"
        BY <1>1, <2>1, <3>1, <3>4 DEF GivesUpOwnRights
      <4>2. account'[author] = FreshAdmin
        BY <1>1, <3>1, <3>2, <3>3, <3>4, <4>1, ChangedStaysAdmin
      <4>3. QED
        BY <3>3, <4>2 DEF Administrators
    <3>5. CASE g.user # author
      BY <3>2, <3>3, <3>5 DEF Administrators
    <3>6. QED
      BY <3>4, <3>5
  <2>2. ASSUME NEW r \in Requests, Create(r)
        PROVE  Administrators \subseteq Administrators'
    BY <1>1, <2>2 DEF Create, Administrators
  <2>3. ASSUME NEW r \in Requests,
               \/ Login(r) \/ Logout(r) \/ CreatePermitted(r) \/ UpdatePermitted(r)
               \/ WriteFails(r)
        PROVE  Administrators' = Administrators
    BY <2>3 DEF Login, Logout, CreatePermitted, UpdatePermitted, WriteFails, Administrators
  <2>4. CASE UsersRestart
    BY <1>1, <2>4 DEF UsersRestart, Administrators
  <2>5. CASE UNCHANGED usersVars
    BY <2>5 DEF usersVars, Administrators
  <2>6. QED
    BY <1>1, <2>1, <2>2, <2>3, <2>4, <2>5 DEF UsersNext
<1>2. UsersInv /\ [UsersNext]_usersVars =>
        [Administrators # {} /\ Administrators' = {} =>
           \/ overlapped
           \/ \E r \in Requests : ByOwnHand(r)]_usersVars
  BY <1>1
<1>3. QED
  BY <1>2, UsersAlwaysInv, PTL DEF UsersSpec, LastAdministratorByOwnHand

(* And every change is written for an administrator.                       *)
THEOREM OnlyAdministratorsChange == UsersSpec => ChangesByAdministrators
<1>1. UsersInv /\ [UsersNext]_usersVars =>
        [\A r \in Requests :
           Create(r) \/ Update(r) => overlapped \/ cookie[r].user \in Administrators]_usersVars
  BY DEF UsersInv, StillAdministrator, Create, Update, Leave, Goto
<1>2. QED
  BY <1>1, UsersAlwaysInv, PTL DEF UsersSpec, ChangesByAdministrators

-----------------------------------------------------------------------------
(* The environment of the application.  A deploy reads it long before the  *)
(* container gets it.  What a deploy carries is fresh, that is, what the   *)
(* panel holds, from the moment it is read until something is changed; and *)
(* a deploy whose request gave up is still counted as one.                 *)

Carrying == {"db_load", "building", "activating"}

ReadsTyped == \A r \in Requests : pc[r] \in Carrying => read[r] \in Environments

OneDeploy ==
  ~raced => \A r, q \in Requests : Deploying(r) /\ Deploying(q) => r = q

FreshRead(r) ==
  /\ pc[r] = "db_load" => read[r].variables = envFile
  /\ pc[r] \in {"building", "activating"} => read[r] = HeldByPanel
  /\ swap[r] # NoEnvironment => swap[r] = HeldByPanel

(* Deploys that began after the last change are fresh, and all of them if  *)
(* nothing has changed since the one whose result runs.                    *)
ReadsFresh ==
  /\ \A r \in covering : pc[r] # "idle" /\ FreshRead(r)
  /\ ~raced /\ ~pending => \A r \in Requests : FreshRead(r)

EnvironmentInv ==
  /\ EnvironmentTypeOK
  /\ ReadsTyped
  /\ OneDeploy
  /\ ReadsFresh
  /\ SavedChangesReachTheApp

LEMMA EnvironmentInit_Inv == EnvironmentInit => EnvironmentInv
<1> SUFFICES ASSUME EnvironmentInit
             PROVE  EnvironmentInv
  OBVIOUS
<1>1. NoVariables \in Dictionaries
  BY DEF NoVariables, Dictionaries, Forms
<1>2. EnvironmentTypeOK
  BY <1>1 DEF EnvironmentInit, WorkersInit, EnvironmentTypeOK
<1>3. QED
  BY <1>2 DEF EnvironmentInit, WorkersInit, EnvironmentInv, ReadsTyped, OneDeploy,
              ReadsFresh, SavedChangesReachTheApp, Deploying, Carrying

(* The page and the database change what the panel holds, no deploy.       *)
LEMMA Page_Inv ==
  ASSUME EnvironmentInv,
         \/ \E t \in Tabs : \/ LoadEnvironment(t) \/ EditVariable(t)
                            \/ RemoveVariable(t) \/ PutEnv(t)
         \/ RecordDatabase
  PROVE  EnvironmentInv'
<1>1. DeploysUnchanged
  BY DEF LoadEnvironment, EditVariable, RemoveVariable, PutEnv, RecordDatabase
<1>2. \/ UNCHANGED <<envFile, db, pending, covering>>
      \/ Change
  BY DEF LoadEnvironment, EditVariable, RemoveVariable, PutEnv, RecordDatabase
<1> USE DEF EnvironmentInv, EnvironmentTypeOK
<1>3. /\ page' \in [Tabs -> Dictionaries]
      /\ envFile' \in Dictionaries
      /\ db' \in Passwords \cup {None}
  <2>1. ASSUME NEW t \in Tabs, LoadEnvironment(t)
        PROVE  page' \in [Tabs -> Dictionaries]
    <3>1. Redact(envFile) \in Dictionaries
      BY DEF Redact, Dictionaries, Forms, Absent
    <3>2. QED
      BY <2>1, <3>1 DEF LoadEnvironment
  <2>2. ASSUME NEW t \in Tabs, EditVariable(t)
        PROVE  page' \in [Tabs -> Dictionaries]
    BY <2>2 DEF EditVariable, Dictionaries, Forms
  <2>3. ASSUME NEW t \in Tabs, RemoveVariable(t)
        PROVE  page' \in [Tabs -> Dictionaries]
    BY <2>3 DEF RemoveVariable, Dictionaries, Forms
  <2>4. QED
    BY <2>1, <2>2, <2>3
       DEF LoadEnvironment, EditVariable, RemoveVariable, PutEnv, RecordDatabase
<1>4. CASE UNCHANGED <<envFile, db, pending, covering>>
  BY <1>1, <1>3, <1>4
     DEF DeploysUnchanged, workerVars, ReadsTyped, OneDeploy, ReadsFresh, FreshRead,
         SavedChangesReachTheApp, HeldByPanel, Deploying, Carrying
<1>5. CASE Change
  BY <1>1, <1>3, <1>5
     DEF Change, DeploysUnchanged, workerVars, ReadsTyped, OneDeploy, ReadsFresh,
         SavedChangesReachTheApp, Deploying, Carrying
<1>6. QED
  BY <1>2, <1>4, <1>5

LEMMA Deploy_Inv ==
  ASSUME EnvironmentInv, NEW r \in Requests,
         \/ DeployBegin(r) \/ EnvLoad(r) \/ DbLoad(r) \/ AskActivate(r) \/ DeployFails(r)
         \/ Activate(r) \/ ActivateFails(r) \/ GiveUpDeploy(r) \/ ActivateLate(r)
  PROVE  EnvironmentInv'
<1>1. UNCHANGED HeldByPanel
  <2>1. UNCHANGED <<envFile, db>>
    BY DEF PagesUnchanged, DeployBegin, EnvLoad, DbLoad, AskActivate, DeployFails,
           Activate, ActivateFails, GiveUpDeploy, ActivateLate
  <2>2. QED
    BY <2>1 DEF HeldByPanel
<1> USE DEF EnvironmentInv, EnvironmentTypeOK, ReadsTyped, OneDeploy, ReadsFresh,
            FreshRead, SavedChangesReachTheApp, Deploying, Carrying, PagesUnchanged
<1>2. CASE DeployBegin(r)
  <2>1. /\ pc[r] = "idle" /\ swap[r] = NoEnvironment
        /\ pc' = [pc EXCEPT ![r] = "env_load"] /\ overlapped' \in BOOLEAN
        /\ covering' = covering \cup {r} /\ raced' \in BOOLEAN
        /\ ~raced' => ~raced /\ \A q \in Requests \ {r} : ~Deploying(q)
        /\ UNCHANGED <<envFile, page, db, read, swap, app, pending>>
    BY <1>2 DEF DeployBegin, Enter
  <2>2. EnvironmentTypeOK' /\ ReadsTyped'
    BY <2>1
  <2>3. OneDeploy'
    BY <2>1
  <2>4. FreshRead(r)'
    BY <2>1
  <2>5. ASSUME NEW q \in Requests, q # r
        PROVE  FreshRead(q)' = FreshRead(q)
    BY <1>1, <2>1, <2>5
  <2>6. ReadsFresh'
    BY <2>1, <2>4, <2>5
  <2>7. SavedChangesReachTheApp'
    BY <1>1, <2>1
  <2>8. QED
    BY <2>2, <2>3, <2>6, <2>7
<1>3. CASE EnvLoad(r)
  <2>1. [variables |-> envFile, password |-> None] \in Environments
    BY DEF Environments
  <2>2. QED
    BY <1>1, <1>3, <2>1 DEF EnvLoad, Goto
<1>4. CASE DbLoad(r)
  <2>1. read[r] \in Environments
    BY <1>4 DEF DbLoad, Goto
  <2>2. /\ read'[r] \in Environments
        /\ read'[r] = [variables |-> read[r].variables, password |-> db]
    <3>1. read'[r] = [read[r] EXCEPT !.password = db]
      BY <1>4 DEF DbLoad
    <3>2. PICK v \in Dictionaries, p \in Passwords \cup {None} :
            read[r] = [variables |-> v, password |-> p]
      BY <2>1 DEF Environments
    <3>3. read'[r] = [variables |-> v, password |-> db]
      BY <3>1, <3>2
    <3>4. QED
      BY <3>2, <3>3 DEF Environments
  <2>3. read[r].variables = envFile => read'[r] = HeldByPanel
    BY <2>2 DEF HeldByPanel
  <2>4. read' \in [Requests -> Environments \cup {NoEnvironment}]
        /\ \A q \in Requests : q # r => read'[q] = read[q]
    BY <1>4, <2>2 DEF DbLoad
  <2>5. /\ pc[r] = "db_load" /\ pc' = [pc EXCEPT ![r] = "building"]
        /\ UNCHANGED <<overlapped, envFile, page, db, swap, app, pending, covering, raced>>
    BY <1>4 DEF DbLoad, Goto
  <2>6. EnvironmentTypeOK' /\ ReadsTyped'
    BY <2>2, <2>4, <2>5
  <2>7. OneDeploy'
    BY <2>5
  <2>8. FreshRead(r) => FreshRead(r)'
    BY <1>1, <2>2, <2>3, <2>5
  <2>9. ASSUME NEW q \in Requests, q # r
        PROVE  FreshRead(q)' = FreshRead(q)
    BY <1>1, <2>4, <2>5, <2>9
  <2>10. ReadsFresh'
    BY <2>5, <2>8, <2>9
  <2>11. SavedChangesReachTheApp'
    BY <1>1, <2>5
  <2>12. QED
    BY <2>6, <2>7, <2>10, <2>11
<1>5. CASE AskActivate(r)
  BY <1>1, <1>5 DEF AskActivate, Goto
<1>6. CASE DeployFails(r)
  BY <1>1, <1>6 DEF DeployFails, Leave, Goto, EndDeploy
<1>7. CASE Activate(r)
  <2>1. \A q \in Requests : ~raced /\ Deploying(q) => q = r
    BY <1>7 DEF Activate, Leave, Goto
  <2>2. r \in covering => swap[r] = HeldByPanel
    BY <1>7 DEF Activate
  <2>3. QED
    BY <1>1, <1>7, <2>1, <2>2 DEF Activate, Leave, Goto, EndDeploy
<1>8. CASE ActivateFails(r)
  BY <1>1, <1>8 DEF ActivateFails, Leave, Goto, EndDeploy
<1>9. CASE GiveUpDeploy(r)
  BY <1>1, <1>9 DEF GiveUpDeploy, Leave, Goto, EndDeploy
<1>10. CASE ActivateLate(r)
  BY <1>1, <1>10 DEF ActivateLate, workerVars
<1>11. QED
  BY <1>2, <1>3, <1>4, <1>5, <1>6, <1>7, <1>8, <1>9, <1>10

LEMMA EnvironmentStep_Inv ==
  EnvironmentInv /\ [EnvironmentNext]_environmentVars => EnvironmentInv'
<1> SUFFICES ASSUME EnvironmentInv, [EnvironmentNext]_environmentVars
             PROVE  EnvironmentInv'
  OBVIOUS
<1>1. CASE EnvironmentCrash
  BY <1>1 DEF EnvironmentCrash, AllStop, PagesUnchanged, EnvironmentInv,
              EnvironmentTypeOK, ReadsTyped, OneDeploy, ReadsFresh, FreshRead,
              SavedChangesReachTheApp, HeldByPanel, Deploying, Carrying
<1>2. CASE UNCHANGED environmentVars
  BY <1>2 DEF environmentVars, workerVars, EnvironmentInv, EnvironmentTypeOK, ReadsTyped,
              OneDeploy, ReadsFresh, FreshRead, SavedChangesReachTheApp, HeldByPanel,
              Deploying, Carrying
<1>3. QED
  BY <1>1, <1>2, Page_Inv, Deploy_Inv DEF EnvironmentNext

-----------------------------------------------------------------------------
(* What a deploy has read is what the panel holds, as long as nothing was  *)
(* changed since it began.                                                 *)
THEOREM EnvironmentAlwaysInv == EnvironmentSpec => []EnvironmentInv
  BY EnvironmentInit_Inv, EnvironmentStep_Inv, PTL DEF EnvironmentSpec

(* What was saved before the last successful deploy began is what the      *)
(* application runs with, if deploys come one at a time.                   *)
THEOREM DeploysApplyChanges == EnvironmentSpec => []SavedChangesReachTheApp
<1>1. EnvironmentInv => SavedChangesReachTheApp
  BY DEF EnvironmentInv
<1>2. QED
  BY <1>1, EnvironmentAlwaysInv, PTL

(* Variables, credentials and what deploys carry keep their shape.         *)
THEOREM EnvironmentStaysTyped == EnvironmentSpec => []EnvironmentTypeOK
<1>1. EnvironmentInv => EnvironmentTypeOK
  BY DEF EnvironmentInv
<1>2. QED
  BY <1>1, EnvironmentAlwaysInv, PTL

-----------------------------------------------------------------------------
(* The services side by side: the threads serve one of them, and what it   *)
(* does is what it would do alone.                                         *)

LEMMA PanelStep ==
  ASSUME [PanelNext]_panelVars
  PROVE  /\ part' = part
         /\ part = "repository" => [RepositoryNext]_repositoryVars
         /\ part = "users" => [UsersNext]_usersVars
         /\ part = "storage" => [StorageNext]_storageVars
         /\ part = "environment" => [EnvironmentNext]_environmentVars
<1>1. CASE PanelNext
  BY <1>1 DEF PanelNext
<1>2. CASE UNCHANGED panelVars
  BY <1>2 DEF panelVars
<1>3. QED
  BY <1>1, <1>2

(* Each service keeps its invariant while it is the one that is used.      *)
PanelInv ==
  /\ part = "repository" => RepositoryTypeOK
  /\ part = "users" => UsersInv
  /\ part = "storage" => StorageInv
  /\ part = "environment" => EnvironmentInv

(* Every service keeps its state in shape, whatever its threads do.        *)
THEOREM PanelStaysTyped == PanelSpec => []PanelTypeOK
<1>1. PanelInit => PanelInv
  BY RepositoryInit_Type, UsersInit_Inv, StorageInit_Sound, StorageInit_Whole,
     EnvironmentInit_Inv
     DEF PanelInit, PanelInv, StorageInv
<1>2. PanelInv /\ [PanelNext]_panelVars => PanelInv'
  BY PanelStep, RepositoryStep_Type, UsersStep_Inv, StorageStep_Inv, EnvironmentStep_Inv
     DEF PanelInv
<1>3. PanelInv => PanelTypeOK
  BY DEF PanelInv, PanelTypeOK, UsersInv, StorageInv, Sound, EnvironmentInv
<1>4. QED
  BY <1>1, <1>2, <1>3, PTL DEF PanelSpec
=============================================================================

------------------------------ MODULE PanelUsers ------------------------------
(***************************************************************************)
(* Accounts and sessions of the panel (dashboard/app/services/users.py,    *)
(* blueprints/users.py, blueprints/auth.py).                               *)
(*                                                                         *)
(* A session is a signed cookie that names a user and the role that user   *)
(* had at login; every request looks both up again.  A change of an        *)
(* account is permitted in one step and written in a later one.  Nothing   *)
(* ever deletes an account, and passwords are left out: a login is that of *)
(* somebody who knows the password.                                        *)
(***************************************************************************)
EXTENDS Workers

CONSTANT Users   \* possible user names, compared without regard to case

ASSUME UsersAssumption ==
  /\ None \notin Users /\ None \notin {"admin", "operator"}
  /\ None \notin {"true", "false", "zero"}

VARIABLES
  account,   \* the row of each user, or NoAccount
  cookie,    \* the session each request carries
  grant      \* the change each request was permitted to make

usersVars == <<workerVars, account, cookie, grant>>

Roles == {"admin", "operator"}
NoAccount == [role |-> None, active |-> FALSE]
Accounts == [role : Roles, active : BOOLEAN]
NoCookie == [user |-> None, role |-> None]
Cookies == [user : Users, role : Roles]

(* What a request can say of "active": true (or 1, "1", ...), the literal  *)
(* false, or another value that int() makes 0 (0, 0.0, "0").               *)
ActiveFields == {"true", "false", "zero"}

(* A field that is not in the request keeps its value.                     *)
NoGrant == [user |-> None, role |-> None, active |-> None]
Grants == [user : Users, role : Roles \cup {None}, active : ActiveFields \cup {None}]

UsersTypeOK ==
  /\ pc \in [Requests -> {"idle", "create", "update"}]
  /\ overlapped \in BOOLEAN
  /\ account \in [Users -> Accounts \cup {NoAccount}]
  /\ cookie \in [Requests -> Cookies \cup {NoCookie}]
  /\ grant \in [Requests -> Grants \cup {NoGrant}]

FreshAdmin == [role |-> "admin", active |-> TRUE]

(* The first start creates APP_USER.                                       *)
UsersInit ==
  /\ WorkersInit
  /\ \E initial \in Users :
       account = [u \in Users |-> IF u = initial THEN FreshAdmin ELSE NoAccount]
  /\ cookie = [r \in Requests |-> NoCookie]
  /\ grant = [r \in Requests |-> NoGrant]

-----------------------------------------------------------------------------
(* authenticate() and the cookie that is set then.                         *)
Login(r) ==
  /\ pc[r] = "idle"
  /\ \E u \in Users :
       /\ account[u].active
       /\ cookie' = [cookie EXCEPT ![r] = [user |-> u, role |-> account[u].role]]
  /\ UNCHANGED <<workerVars, account, grant>>

Logout(r) ==
  /\ pc[r] = "idle"
  /\ cookie[r] # NoCookie
  /\ cookie' = [cookie EXCEPT ![r] = NoCookie]
  /\ UNCHANGED <<workerVars, account, grant>>

(* Mutant of IsAuthenticated: the cookie is taken at its word.             *)
HasCookie(r) == cookie[r] # NoCookie

IsAuthenticated(r) ==
  /\ cookie[r] # NoCookie
  /\ account[cookie[r].user].active
  /\ account[cookie[r].user].role = cookie[r].role

IsAdmin(r) == IsAuthenticated(r) /\ cookie[r].role = "admin"

(* POST /api/users                                                         *)
CreatePermitted(r) ==
  /\ IsAdmin(r)
  /\ Enter(r, "create")
  /\ \E u \in Users, role \in Roles :
       grant' = [grant EXCEPT ![r] = [user |-> u, role |-> role, active |-> None]]
  /\ UNCHANGED <<account, cookie>>

(* The primary key refuses a name that is taken.                           *)
Create(r) ==
  /\ Leave(r, "create")
  /\ account' = IF account[grant[r].user] = NoAccount
                  THEN [account EXCEPT ![grant[r].user] =
                          [role |-> grant[r].role, active |-> TRUE]]
                  ELSE account
  /\ grant' = [grant EXCEPT ![r] = NoGrant]
  /\ UNCHANGED cookie

(* Mutant of GivesUpOwnRights: only the role is looked at.                 *)
GivesUpOwnRole(r, g) == g.user = cookie[r].user /\ g.role = "operator"

(* "is False" looks at the value that was sent, not at what it will be     *)
(* stored as.                                                              *)
GivesUpOwnRights(r, g) ==
  g.user = cookie[r].user /\ (g.active = "false" \/ g.role = "operator")

(* PATCH /api/users/<username>                                             *)
UpdatePermitted(r) ==
  /\ IsAdmin(r)
  /\ Enter(r, "update")
  /\ \E g \in Grants :
       /\ ~GivesUpOwnRights(r, g)
       /\ account[g.user] # NoAccount
       /\ grant' = [grant EXCEPT ![r] = g]
  /\ UNCHANGED <<account, cookie>>

(* int(active) is what is stored: 1 for true, 0 for false and zero alike.  *)
Changed(row, g) ==
  [role   |-> IF g.role = None THEN row.role ELSE g.role,
   active |-> IF g.active = None THEN row.active ELSE g.active = "true"]

(* The UPDATE asks nothing about who makes it.                             *)
Update(r) ==
  /\ Leave(r, "update")
  /\ account' = [account EXCEPT ![grant[r].user] = Changed(@, grant[r])]
  /\ grant' = [grant EXCEPT ![r] = NoGrant]
  /\ UNCHANGED cookie

(* Nothing is written, for either operation: the database is locked, the   *)
(* password too short, or "active" is nothing int() accepts.               *)
WriteFails(r) ==
  /\ Leave(r, "create") \/ Leave(r, "update")
  /\ grant' = [grant EXCEPT ![r] = NoGrant]
  /\ UNCHANGED <<account, cookie>>

(* A start creates APP_USER, which may have been renamed meanwhile, if     *)
(* there is no such account; an account that exists is left as it is.      *)
UsersRestart ==
  /\ AllStop
  /\ \E initial \in Users :
       account' = IF account[initial] = NoAccount
                    THEN [account EXCEPT ![initial] = FreshAdmin] ELSE account
  /\ grant' = [r \in Requests |-> NoGrant]
  /\ UNCHANGED cookie

UsersNext ==
  \/ \E r \in Requests :
       \/ Login(r) \/ Logout(r)
       \/ CreatePermitted(r) \/ Create(r)
       \/ UpdatePermitted(r) \/ Update(r) \/ WriteFails(r)
  \/ UsersRestart

UsersSpec == UsersInit /\ [][UsersNext]_usersVars

-----------------------------------------------------------------------------
(* Properties.                                                             *)

Administrators == {u \in Users : account[u] = FreshAdmin}

(* While requests do not overlap, the panel is left without an             *)
(* administrator in one way only: the last one sends, about themselves, a  *)
(* zero where the check expects false.  Nobody else takes the rights of    *)
(* the last administrator, and no restart or failed write does.            *)
LastAdministratorByOwnHand ==
  [][Administrators # {} /\ Administrators' = {} =>
       \/ overlapped
       \/ \E r \in Requests : /\ Update(r)
                              /\ grant[r].user = cookie[r].user
                              /\ grant[r].active = "zero"]_usersVars

(* A change is written for somebody who is an active administrator at that *)
(* moment, whatever the age of the cookie, unless requests overlapped.     *)
ChangesByAdministrators ==
  [][\A r \in Requests :
       Create(r) \/ Update(r) => overlapped \/ cookie[r].user \in Administrators]_usersVars
=============================================================================

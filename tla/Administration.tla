---------------------------- MODULE Administration ----------------------------
(***************************************************************************)
(* Who may use an instance and who may administer it: registration with    *)
(* its modes and invites, and the changes of the panel that can take an    *)
(* administrator's access away. Each request runs once. One that takes a   *)
(* row lock is cut where it waits for the lock and where it commits: what  *)
(* it writes in between is seen by nobody else. A form of the panel may    *)
(* have been filled long ago, so a save writes any values.                 *)
(***************************************************************************)
EXTENDS Naturals, FiniteSets

CONSTANTS
    User, Request, Invite,
    None,         \* no request, account or invite
    Start         \* what Init chooses from: the accounts of an instance, all administrators

ASSUME AdministrationAssumption ==
    None \notin User \cup Request \cup Invite /\ Start \subseteq SUBSET User

VARIABLES
    users,        \* rows of users
    admins,       \* who has the role "admin"
    suspended,    \* who has suspended_at
    roles,        \* rows of roles
    granted,      \* the roles that have every permission of REQUIRED_ADMIN_PERMISSIONS
    setting,      \* the registration setting: mode and open
    guarded,      \* a setup token is configured
    invites,      \* the invites with no used_at
    req,          \* requests
    founders,     \* history: who was registered as the first account
    admitted,     \* history: the invite an account was registered with
    spent         \* history: invites that were used or revoked

accounts == <<users, admins, suspended>>
rolesVars == <<roles, granted>>
registration == <<setting, guarded, invites>>
history == <<founders, admitted, spent>>
vars == <<accounts, rolesVars, registration, req, history>>

Admin == "admin"
DefaultRoles == {Admin}
Role == DefaultRoles \cup {"custom"}
Mode == {"single", "open", "invite", "closed"}
PanelOps == {"edit", "suspend", "unsuspend", "role"}
Guarded == {"edit", "suspend", "role"}
How == {"on", "off", "keep"}
NoRequest == [op |-> "none", by |-> None, target |-> None, admin |-> "keep", stop |-> "keep",
              grant |-> "keep", invite |-> None, token |-> FALSE, first |-> FALSE, at |-> "idle"]

TypeOK ==
    /\ admins \subseteq users /\ suspended \subseteq users /\ users \subseteq User
    /\ roles \subseteq Role /\ granted \subseteq roles
    /\ setting \in [mode : Mode, open : BOOLEAN] /\ guarded \in BOOLEAN
    /\ invites \subseteq Invite /\ spent \subseteq Invite
    /\ req \in [Request -> [op : PanelOps \cup {"none", "register"}, by : User \cup {None},
                  target : User \cup Role \cup {None}, admin : How, stop : How, grant : How,
                  invite : Invite \cup {None}, token : BOOLEAN, first : BOOLEAN,
                  at : {"idle", "open", "waiting", "checked", "ended"}]]
    /\ founders \subseteq users
    /\ admitted \in [User -> Invite \cup {None}]

(* A fresh instance, or one that has administrators.                       *)
Init ==
    /\ users \in Start /\ admins = users /\ suspended = {}
    /\ roles = Role /\ granted = DefaultRoles
    /\ setting \in [mode : Mode, open : BOOLEAN]
    /\ users = {} => setting = [mode |-> "single", open |-> TRUE]
    /\ guarded \in BOOLEAN
    /\ invites = IF users = {} THEN {} ELSE Invite
    /\ req = [r \in Request |-> NoRequest]
    /\ founders = {} /\ admitted = [u \in User |-> None] /\ spent = {}

Usable == {u \in admins : u \notin suspended}
Put(S, x, how) == CASE how = "on" -> S \cup {x} [] how = "off" -> S \ {x} [] OTHER -> S
Step(r, changed) == req' = [req EXCEPT ![r] = changed]
End(r) == req' = [req EXCEPT ![r].at = "ended"]
IsDefault(q) == q \in DefaultRoles

(* Row locks that are held until the commit: on the role "admin", on the   *)
(* registration setting, on an account, on an invite.                      *)
Checked(r) == req[r].at = "checked"
RoleLocked == \E r \in Request : Checked(r) /\ req[r].op \in Guarded
SettingLocked == \E r \in Request : Checked(r) /\ req[r].op = "register"
BusyAccount(x) == \E r \in Request : Checked(r) /\ req[r].target = x /\ req[r].stop # "keep"
Busy(x) == \E r \in Request : Checked(r) /\
             \/ req[r].target = x /\ req[r].stop # "keep"
             \/ req[r].invite = x

-----------------------------------------------------------------------------
(* Registration                                                            *)

Register(r) ==
    /\ req[r].at = "idle"
    /\ \E u \in User \ users, i \in Invite \cup {None}, token \in BOOLEAN :
         /\ \A p \in Request : req[p].op = "register" => req[p].by # u
         /\ Step(r, [NoRequest EXCEPT !.op = "register", !.by = u, !.invite = i, !.token = token, !.at = "waiting"])
    /\ UNCHANGED <<accounts, rolesVars, registration, history>>

IsFirstUser == users = {}
Refused(q) ==
    \/ ~setting.open \/ setting.mode = "closed"
    \/ setting.mode = "single" /\ ~IsFirstUser
    \/ IsFirstUser /\ guarded /\ ~q.token
    \/ setting.mode = "invite" /\ q.invite \notin invites

(* The decision is made under the lock of the setting. An invite may also  *)
(* be refused because it is for another address or expired.                *)
AdmitUnlocked(r) ==
    LET q == req[r]
        code == IF setting.mode = "invite" THEN q.invite ELSE None IN
    /\ q.op = "register" /\ q.at = "waiting"
    /\ ~Refused(q) /\ (code # None => ~Busy(code))
    /\ Step(r, [q EXCEPT !.invite = code, !.first = IsFirstUser, !.at = "checked"])
    /\ UNCHANGED <<accounts, rolesVars, registration, history>>
Admit(r) == ~SettingLocked /\ AdmitUnlocked(r)
TurnDown(r) ==
    /\ req[r].op = "register" /\ req[r].at = "waiting" /\ ~SettingLocked
    /\ Refused(req[r]) \/ setting.mode = "invite"
    /\ End(r)
    /\ UNCHANGED <<accounts, rolesVars, registration, history>>

Registered(r) ==
    LET q == req[r] IN
    /\ q.op = "register" /\ Checked(r)
    /\ users' = users \cup {q.by}
    /\ admins' = IF q.first THEN admins \cup {q.by} ELSE admins
    /\ setting' = IF setting.mode = "single" THEN [setting EXCEPT !.open = FALSE] ELSE setting
    /\ invites' = invites \ {q.invite}
    /\ End(r)
    /\ founders' = IF q.first THEN founders \cup {q.by} ELSE founders
    /\ admitted' = [admitted EXCEPT ![q.by] = q.invite]
    /\ spent' = spent \cup ({q.invite} \ {None})
    /\ UNCHANGED <<suspended, rolesVars, guarded>>

-----------------------------------------------------------------------------
(* The panel: a page is opened by a usable administrator. Who that is, is  *)
(* not looked at again, except that nobody changes his own access.         *)
OpenPanel(r) ==
    /\ req[r].at = "idle"
    /\ \E a \in Usable : Step(r, [NoRequest EXCEPT !.by = a, !.at = "open"])
    /\ UNCHANGED <<accounts, rolesVars, registration, history>>

(* EditUser: the roles and, if it differs from the row as it was read, the *)
(* suspension of the form.                                                 *)
SaveUser(r) ==
    /\ req[r].at = "open"
    /\ \E t \in users, roleHow \in {"on", "off"}, wanted \in {"on", "off"} :
         LET same == wanted = IF t \in suspended THEN "on" ELSE "off" IN
         Step(r, [req[r] EXCEPT !.op = "edit", !.target = t, !.at = "waiting",
                    !.admin = IF t = req[r].by THEN "keep" ELSE roleHow,
                    !.stop = IF t = req[r].by \/ same THEN "keep" ELSE wanted])
    /\ UNCHANGED <<accounts, rolesVars, registration, history>>

SuspendAction(r) ==
    /\ req[r].at = "open"
    /\ \E t \in users \ (suspended \cup {req[r].by}) :
         Step(r, [req[r] EXCEPT !.op = "suspend", !.target = t, !.stop = "on", !.at = "waiting"])
    /\ UNCHANGED <<accounts, rolesVars, registration, history>>
UnsuspendAction(r) ==
    /\ req[r].at = "open"
    /\ \E t \in suspended :
         Step(r, [req[r] EXCEPT !.op = "unsuspend", !.target = t, !.at = "waiting"])
    /\ UNCHANGED <<accounts, rolesVars, registration, history>>

SaveRole(r) ==
    /\ req[r].at = "open"
    /\ \E q \in roles, grant \in {"on", "off"} :
         Step(r, [req[r] EXCEPT !.op = "role", !.target = q, !.grant = grant, !.at = "waiting"])
    /\ UNCHANGED <<accounts, rolesVars, registration, history>>

(* What a request reads after its own changes.                             *)
View(r) ==
    LET q == req[r] IN
    [admins |-> Put(admins, q.target, q.admin), suspended |-> Put(suspended, q.target, q.stop),
     granted |-> Put(granted, q.target, q.grant)]
AssertAdministrable(v) ==
    /\ Admin \in roles /\ Admin \in v.granted
    /\ \E u \in v.admins : u \notin v.suspended

(* lock(), the changes and assertAdministrable(); then the commit, or the  *)
(* rollback.                                                               *)
ExistsUnchecked(q) == TRUE
Exists(q) == q.target \in IF q.op = "role" THEN roles ELSE users
CheckUnlocked(r) ==
    /\ req[r].op \in Guarded /\ req[r].at = "waiting"
    /\ Step(r, [req[r] EXCEPT !.at = IF Exists(req[r]) /\ AssertAdministrable(View(r))
                                     THEN "checked" ELSE "ended"])
    /\ UNCHANGED <<accounts, rolesVars, registration, history>>
Check(r) == ~RoleLocked /\ CheckUnlocked(r)
Commit(r) ==
    /\ req[r].op \in Guarded /\ Checked(r)
    /\ admins' = View(r).admins /\ suspended' = View(r).suspended /\ granted' = View(r).granted
    /\ End(r)
    /\ UNCHANGED <<users, roles, registration, history>>

(* Without the lock of the role: it takes no access away.                  *)
Unsuspend(r) ==
    /\ req[r].op = "unsuspend" /\ req[r].at = "waiting" /\ ~Busy(req[r].target)
    /\ suspended' = suspended \ {req[r].target}
    /\ End(r)
    /\ UNCHANGED <<users, admins, rolesVars, registration, history>>

(* Default roles are never deleted.                                        *)
DeleteRole(r) ==
    /\ req[r].at = "open"
    /\ \E q \in roles :
         /\ ~IsDefault(q)
         /\ \A p \in Request : Checked(p) => req[p].target # q
         /\ roles' = roles \ {q} /\ granted' = granted \ {q}
    /\ End(r)
    /\ UNCHANGED <<accounts, registration, history>>

-----------------------------------------------------------------------------
(* Settings and invites                                                    *)

SaveSettings(r) ==
    /\ req[r].at = "open" /\ ~SettingLocked
    /\ setting' \in [mode : Mode, open : BOOLEAN]
    /\ End(r)
    /\ UNCHANGED <<accounts, rolesVars, guarded, invites, history>>
CreateInvite(r) ==
    /\ req[r].at = "open"
    /\ \E i \in Invite \ (invites \cup spent) : invites' = invites \cup {i}
    /\ End(r)
    /\ UNCHANGED <<accounts, rolesVars, setting, guarded, history>>
RevokeInvite(r) ==
    /\ req[r].at = "open"
    /\ \E i \in invites : ~Busy(i) /\ invites' = invites \ {i} /\ spent' = spent \cup {i}
    /\ End(r)
    /\ UNCHANGED <<accounts, rolesVars, setting, guarded, founders, admitted>>

-----------------------------------------------------------------------------
Registration(r) == Register(r) \/ Admit(r) \/ TurnDown(r) \/ Registered(r)
Panel(r) ==
    \/ OpenPanel(r) \/ SaveUser(r) \/ SuspendAction(r) \/ UnsuspendAction(r) \/ SaveRole(r)
    \/ Check(r) \/ Commit(r) \/ Unsuspend(r) \/ DeleteRole(r)
    \/ SaveSettings(r) \/ CreateInvite(r) \/ RevokeInvite(r)
Next == \E r \in Request : Registration(r) \/ Panel(r)
Spec == Init /\ [][Next]_vars

-----------------------------------------------------------------------------
(* An instance with accounts has somebody who can administer it: a member  *)
(* of the role "admin" that is not suspended, and the role has what that   *)
(* takes. Two administrators may suspend or demote one another at once,    *)
(* with forms that are older than either (AdminAccessGuard).               *)
StaysAdministrable == users # {} => Admin \in granted /\ Usable # {}

(* Of the registrations that find no account, one is made, and only its    *)
(* account becomes an administrator by registering.                        *)
OneFounder == \A u, v \in founders : u = v

(* Nobody is registered with an invite that was used or revoked by the     *)
(* time he is: two registrations and a revocation may meet on one invite.  *)
InvitesAreSingleUse ==
    [][\A u \in User : admitted'[u] # admitted[u] => admitted'[u] \notin spent]_vars
=============================================================================

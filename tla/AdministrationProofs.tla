------------------------- MODULE AdministrationProofs -------------------------
(***************************************************************************)
(* Proofs about Administration, for any number of accounts, requests and   *)
(* invites.                                                                *)
(***************************************************************************)
EXTENDS Administration, TLAPS

Requests == [op : PanelOps \cup {"none", "register"}, by : User \cup {None},
             target : User \cup Role \cup {None}, admin : How, stop : How, grant : How,
             invite : Invite \cup {None}, token : BOOLEAN, first : BOOLEAN,
             at : {"idle", "open", "waiting", "checked", "ended"}]

(* What a request that waits or was checked would change.                  *)
Meant(q, u, ro) ==
  /\ q.at = "open" => q.admin = "keep" /\ q.stop = "keep" /\ q.grant = "keep"
  /\ q.at \in {"waiting", "checked"} /\ q.op \in {"edit", "suspend", "unsuspend"} => q.target \in u /\ q.grant = "keep"
  /\ q.at \in {"waiting", "checked"} /\ q.op = "role" => q.admin = "keep" /\ q.stop = "keep"
  /\ q.at = "checked" /\ q.op = "role" => q.target \in ro

(* What a registration that was admitted relies on until its commit, and   *)
(* what one that waits does of its account.                                *)
Admitting(q, u, open) ==
  q.op = "register" =>
    /\ q.at \in {"waiting", "checked"} => q.by \in User \ u
    /\ q.at = "checked" => (q.first <=> u = {}) /\ q.invite \in open \cup {None}
OwnAccounts ==
  \A p, r \in Request : req[p].op = "register" /\ req[r].op = "register" /\ req[p].by = req[r].by => p = r

(* One request at a time holds the lock of the role, or of the setting.    *)
Exclusive ==
  \A p, r \in Request : Checked(p) /\ Checked(r) =>
    /\ req[p].op \in Guarded /\ req[r].op \in Guarded => p = r
    /\ req[p].op = "register" /\ req[r].op = "register" => p = r

(* What was checked still holds when it is committed.                      *)
StillChecked == \A r \in Request : Checked(r) /\ req[r].op \in Guarded => AssertAdministrable(View(r))

Administered == Admin \in roles /\ Admin \in granted /\ (users # {} => Usable # {})

IInv ==
  /\ TypeOK
  /\ \A r \in Request : Meant(req[r], users, roles) /\ Admitting(req[r], users, invites)
  /\ OwnAccounts /\ Exclusive /\ StillChecked /\ Administered
  /\ OneFounder
  /\ invites \cap spent = {}

------------------------------------------------------------------------------
LEMMA Initial == Init => IInv
<1> SUFFICES ASSUME Init PROVE IInv
  OBVIOUS
<1> USE DEF Init
<1>1. \A r \in Request : req[r].at = "idle" /\ req[r].op = "none" /\ req[r] \in Requests
  BY DEF NoRequest, Requests, How
<1>2. users \subseteq User /\ roles = Role /\ granted \subseteq Role
  BY AdministrationAssumption DEF Role
<1>3. TypeOK
  BY <1>1, <1>2 DEF TypeOK, Requests
<1>4. OwnAccounts /\ Exclusive /\ StillChecked
  BY <1>1 DEF OwnAccounts, Exclusive, StillChecked, Checked
<1>5. \A r \in Request : Meant(req[r], users, roles) /\ Admitting(req[r], users, invites)
  BY <1>1 DEF Meant, Admitting
<1>6. Administered
  BY DEF Administered, Usable, Role, DefaultRoles
<1>7. OneFounder /\ invites \cap spent = {}
  BY DEF OneFounder
<1> QED BY <1>3, <1>4, <1>5, <1>6, <1>7 DEF IInv

(* One request moves on and the others stay as they are. *)
LEMMA OneMoves ==
  ASSUME TypeOK, NEW r \in Request, NEW q \in Requests, req' = [req EXCEPT ![r] = q]
  PROVE  req' \in [Request -> Requests] /\ req'[r] = q /\ \A p \in Request \ {r} : req'[p] = req[p]
BY DEF TypeOK, Requests

LEMMA RequestTyped == ASSUME TypeOK, NEW r \in Request PROVE req[r] \in Requests
BY DEF TypeOK, Requests

(* Nothing that was checked is undone by giving access to somebody.        *)
LEMMA MoreAccess ==
  ASSUME NEW p \in Request, req'[p] = req[p], AssertAdministrable(View(p)),
         admins \subseteq admins', suspended' \subseteq suspended,
         Admin \in roles => Admin \in roles', Admin \in granted => Admin \in granted'
  PROVE  AssertAdministrable(View(p))'
<1> DEFINE q == req[p]
<1>1. Admin \in roles /\ Admin \in Put(granted, q.target, q.grant)
      /\ \E u \in Put(admins, q.target, q.admin) : u \notin Put(suspended, q.target, q.stop)
  BY DEF AssertAdministrable, View
<1>2. Admin \in Put(granted', q.target, q.grant)
  BY <1>1 DEF Put
<1>3. Put(admins, q.target, q.admin) \subseteq Put(admins', q.target, q.admin)
  BY DEF Put
<1>4. Put(suspended', q.target, q.stop) \subseteq Put(suspended, q.target, q.stop)
  BY DEF Put
<1> QED BY <1>1, <1>2, <1>3, <1>4 DEF AssertAdministrable, View

------------------------------------------------------------------------------
(* A request that starts, waits or ends, and changes no row. *)
LEMMA MovesQuietly ==
  ASSUME IInv, NEW r \in Request, NEW q \in Requests, req' = [req EXCEPT ![r] = q],
         q.at # "checked", Meant(q, users, roles), Admitting(q, users, invites),
         q.op = "register" => \A p \in Request \ {r} : req[p].op = "register" => req[p].by # q.by,
         UNCHANGED <<accounts, rolesVars, registration, history>>
  PROVE  IInv'
<1>1. UNCHANGED <<users, admins, suspended, roles, granted, setting, guarded, invites, founders, admitted, spent>>
  BY DEF accounts, rolesVars, registration, history
<1>2. req' \in [Request -> Requests] /\ req'[r] = q /\ \A p \in Request \ {r} : req'[p] = req[p]
  BY OneMoves DEF IInv
<1>3. TypeOK'
  BY <1>1, <1>2 DEF IInv, TypeOK, Requests
<1>4. \A p \in Request : Meant(req'[p], users, roles) /\ Admitting(req'[p], users, invites)
  BY <1>2 DEF IInv
<1>5. OwnAccounts'
  BY <1>2 DEF IInv, OwnAccounts
<1>6. Exclusive'
  BY <1>2 DEF IInv, Exclusive, Checked
<1>7. ASSUME NEW p \in Request, Checked(p)', req'[p].op \in Guarded PROVE AssertAdministrable(View(p))'
  <2>1. p # r /\ req'[p] = req[p]
    BY <1>2, <1>7 DEF Checked
  <2> QED BY <1>1, <1>7, <2>1, MoreAccess DEF IInv, StillChecked, Checked
<1>8. StillChecked'
  BY <1>7 DEF StillChecked
<1>9. Administered' /\ OneFounder' /\ invites' \cap spent' = {}
  BY <1>1 DEF IInv, Administered, Usable, OneFounder
<1> QED BY <1>1, <1>3, <1>4, <1>5, <1>6, <1>8, <1>9 DEF IInv

(* A request that ends, and changes rows. *)
LEMMA Ends ==
  ASSUME IInv, NEW r \in Request, End(r)
  PROVE  /\ req' \in [Request -> Requests] /\ req'[r].at = "ended" /\ req'[r].op = req[r].op /\ req'[r].by = req[r].by
         /\ \A p \in Request \ {r} : req'[p] = req[p]
         /\ OwnAccounts' /\ Exclusive'
<1>1. TypeOK /\ req[r] \in Requests
  BY RequestTyped DEF IInv
<1> DEFINE q == [req[r] EXCEPT !.at = "ended"]
<1>2. q \in Requests /\ req' = [req EXCEPT ![r] = q] /\ q.at = "ended" /\ q.op = req[r].op /\ q.by = req[r].by
  BY <1>1 DEF End, Requests
<1> HIDE DEF q
<1>3. req' \in [Request -> Requests] /\ req'[r] = q /\ \A p \in Request \ {r} : req'[p] = req[p]
  BY <1>1, <1>2, OneMoves
<1>4. OwnAccounts'
  BY <1>2, <1>3 DEF IInv, OwnAccounts
<1>5. Exclusive'
  BY <1>2, <1>3 DEF IInv, Exclusive, Checked
<1> QED BY <1>2, <1>3, <1>4, <1>5
------------------------------------------------------------------------------
LEMMA RegisterKeeps == ASSUME IInv, NEW r \in Request, Register(r) PROVE IInv'
<1>1. PICK u \in User \ users, i \in Invite \cup {None}, token \in BOOLEAN :
        /\ \A p \in Request : req[p].op = "register" => req[p].by # u
        /\ Step(r, [NoRequest EXCEPT !.op = "register", !.by = u, !.invite = i, !.token = token, !.at = "waiting"])
  BY DEF Register
<1> DEFINE q == [NoRequest EXCEPT !.op = "register", !.by = u, !.invite = i, !.token = token, !.at = "waiting"]
<1>2. q \in Requests /\ q.at = "waiting" /\ q.op = "register" /\ q.by = u /\ req' = [req EXCEPT ![r] = q]
  BY <1>1 DEF NoRequest, Requests, How, Step
<1> HIDE DEF q
<1>3. Meant(q, users, roles) /\ Admitting(q, users, invites)
  BY <1>2 DEF Meant, Admitting
<1> QED BY <1>1, <1>2, <1>3, MovesQuietly DEF Register

LEMMA OpenKeeps == ASSUME IInv, NEW r \in Request, OpenPanel(r) PROVE IInv'
<1>1. PICK a \in Usable : Step(r, [NoRequest EXCEPT !.by = a, !.at = "open"])
  BY DEF OpenPanel
<1> DEFINE q == [NoRequest EXCEPT !.by = a, !.at = "open"]
<1>2. a \in User
  BY DEF IInv, TypeOK, Usable
<1>3. /\ q \in Requests /\ q.at = "open" /\ q.op = "none" /\ req' = [req EXCEPT ![r] = q]
      /\ q.admin = "keep" /\ q.stop = "keep" /\ q.grant = "keep"
  BY <1>1, <1>2 DEF NoRequest, Requests, How, Step
<1> HIDE DEF q
<1> QED BY <1>3, MovesQuietly DEF OpenPanel, Meant, Admitting

(* The saves of the panel: none of them is a registration.                 *)
LEMMA SavesKeep ==
  ASSUME IInv, NEW r \in Request, SaveUser(r) \/ SuspendAction(r) \/ UnsuspendAction(r) \/ SaveRole(r)
  PROVE  IInv'
<1> DEFINE q == req[r]
<1>1. q \in Requests /\ q.at = "open" /\ UNCHANGED <<accounts, rolesVars, registration, history>>
  BY RequestTyped DEF IInv, SaveUser, SuspendAction, UnsuspendAction, SaveRole
<1>2. users \subseteq User /\ suspended \subseteq users /\ roles \subseteq Role
  BY DEF IInv, TypeOK
<1>3. Meant(q, users, roles)
  BY DEF IInv
<1>4. q.grant = "keep" /\ q.admin = "keep" /\ q.stop = "keep"
  BY <1>1, <1>3 DEF Meant
<1>5. ASSUME NEW n \in Requests, Step(r, n), n.at = "waiting", n.op \in PanelOps, Meant(n, users, roles)
      PROVE  IInv'
  <2>1. Admitting(n, users, invites) /\ n.op # "register" /\ n.at # "checked" /\ req' = [req EXCEPT ![r] = n]
    BY <1>5 DEF PanelOps, Admitting, Step
  <2> QED BY <1>1, <1>5, <2>1, MovesQuietly
<1>6. CASE SaveUser(r)
  <2>1. PICK t \in users, h, w \in How :
          Step(r, [q EXCEPT !.op = "edit", !.target = t, !.at = "waiting", !.admin = h, !.stop = w])
    BY <1>6 DEF SaveUser, How
  <2> DEFINE n == [q EXCEPT !.op = "edit", !.target = t, !.at = "waiting", !.admin = h, !.stop = w]
  <2>2. h \in How
    OBVIOUS
  <2>3. n \in Requests /\ n.at = "waiting" /\ n.op = "edit" /\ n.target = t /\ n.grant = "keep"
    BY <1>1, <1>2, <1>4, <2>2 DEF Requests, PanelOps
  <2> QED BY <1>5, <2>1, <2>3 DEF Meant, PanelOps
<1>7. CASE SuspendAction(r)
  <2>1. PICK t \in users :
          Step(r, [q EXCEPT !.op = "suspend", !.target = t, !.stop = "on", !.at = "waiting"])
    BY <1>7 DEF SuspendAction
  <2> DEFINE n == [q EXCEPT !.op = "suspend", !.target = t, !.stop = "on", !.at = "waiting"]
  <2>2. n \in Requests /\ n.at = "waiting" /\ n.op = "suspend" /\ n.target = t /\ n.grant = "keep"
    BY <1>1, <1>2, <1>4 DEF Requests, PanelOps, How
  <2> QED BY <1>5, <2>1, <2>2 DEF Meant, PanelOps
<1>8. CASE UnsuspendAction(r)
  <2>1. PICK t \in users : Step(r, [q EXCEPT !.op = "unsuspend", !.target = t, !.at = "waiting"])
    BY <1>2, <1>8 DEF UnsuspendAction
  <2> DEFINE n == [q EXCEPT !.op = "unsuspend", !.target = t, !.at = "waiting"]
  <2>2. n \in Requests /\ n.at = "waiting" /\ n.op = "unsuspend" /\ n.target = t /\ n.grant = "keep"
    BY <1>1, <1>2, <1>4 DEF Requests, PanelOps
  <2> QED BY <1>5, <2>1, <2>2 DEF Meant, PanelOps
<1>9. CASE SaveRole(r)
  <2>1. PICK o \in roles, grant \in {"on", "off"} :
          Step(r, [q EXCEPT !.op = "role", !.target = o, !.grant = grant, !.at = "waiting"])
    BY <1>9 DEF SaveRole
  <2> DEFINE n == [q EXCEPT !.op = "role", !.target = o, !.grant = grant, !.at = "waiting"]
  <2>2. n \in Requests /\ n.at = "waiting" /\ n.op = "role" /\ n.admin = "keep" /\ n.stop = "keep"
    BY <1>1, <1>2, <1>4 DEF Requests, PanelOps, How
  <2> QED BY <1>5, <2>1, <2>2 DEF Meant, PanelOps
<1> QED BY <1>6, <1>7, <1>8, <1>9

(* A request ends without any effect. *)
LEMMA EndsQuietly ==
  ASSUME IInv, NEW r \in Request, End(r), UNCHANGED <<accounts, rolesVars, registration, history>>
  PROVE  IInv'
<1> DEFINE q == [req[r] EXCEPT !.at = "ended"]
<1>1. q \in Requests /\ q.at = "ended" /\ q.op = req[r].op /\ q.by = req[r].by /\ req' = [req EXCEPT ![r] = q]
  BY RequestTyped DEF IInv, Requests, End
<1> HIDE DEF q
<1>2. q.op = "register" => \A p \in Request \ {r} : req[p].op = "register" => req[p].by # q.by
  BY <1>1 DEF IInv, OwnAccounts
<1> QED BY <1>1, <1>2, MovesQuietly DEF Meant, Admitting

(* The lock of the role is taken by one request, and what it would change  *)
(* leaves an administrator.                                                *)
LEMMA CheckKeeps == ASSUME IInv, NEW r \in Request, Check(r) PROVE IInv'
<1> DEFINE q == [req[r] EXCEPT !.at = "checked"]
<1>1. /\ ~RoleLocked /\ req[r].op \in Guarded /\ req[r].at = "waiting"
      /\ UNCHANGED <<users, admins, suspended, roles, granted, setting, guarded, invites, founders, admitted, spent>>
  BY DEF Check, CheckUnlocked, accounts, rolesVars, registration, history
<1>2. CASE ~(Exists(req[r]) /\ AssertAdministrable(View(r)))
  BY <1>2, EndsQuietly DEF Check, CheckUnlocked, Step, End
<1>3. CASE Exists(req[r]) /\ AssertAdministrable(View(r))
  <2>1. q \in Requests /\ req' = [req EXCEPT ![r] = q]
    BY <1>3, RequestTyped DEF IInv, Requests, Check, CheckUnlocked, Step
  <2>2. /\ q.at = "checked" /\ q.op = req[r].op /\ q.target = req[r].target /\ q.by = req[r].by
        /\ q.admin = req[r].admin /\ q.stop = req[r].stop /\ q.grant = req[r].grant
    BY RequestTyped DEF IInv, Requests
  <2> HIDE DEF q
  <2>3. req' \in [Request -> Requests] /\ req'[r] = q /\ \A p \in Request \ {r} : req'[p] = req[p]
    BY <2>1, OneMoves DEF IInv
  <2>4. TypeOK'
    BY <1>1, <2>3 DEF IInv, TypeOK, Requests
  <2>5. Meant(req[r], users, roles) /\ q.op \in Guarded /\ q.op # "register"
    BY <1>1, <2>2 DEF IInv, Guarded
  <2>6. q.op = "role" => q.target \in roles
    BY <1>3, <2>2 DEF Exists
  <2>7. Meant(q, users, roles) /\ Admitting(q, users, invites)
    BY <1>1, <2>2, <2>5, <2>6 DEF Meant, Admitting
  <2>8. \A p \in Request : Meant(req'[p], users', roles') /\ Admitting(req'[p], users', invites')
    BY <1>1, <2>3, <2>7 DEF IInv
  <2>9. OwnAccounts' /\ Exclusive'
    BY <1>1, <2>2, <2>3, <2>5 DEF IInv, OwnAccounts, Exclusive, RoleLocked, Checked
  <2>10. ASSUME NEW p \in Request, Checked(p)', req'[p].op \in Guarded PROVE AssertAdministrable(View(p))'
    <3>1. CASE p = r
      BY <1>1, <1>3, <2>2, <2>3, <3>1 DEF AssertAdministrable, View
    <3>2. CASE p # r
      BY <1>1, <2>3, <2>10, <3>2 DEF RoleLocked, Checked
    <3> QED BY <3>1, <3>2
  <2>11. Administered' /\ OneFounder' /\ invites' \cap spent' = {}
    BY <1>1 DEF IInv, Administered, Usable, OneFounder
  <2> QED BY <2>4, <2>8, <2>9, <2>10, <2>11 DEF IInv, StillChecked
<1> QED BY <1>2, <1>3

(* An account is admitted under the lock of the setting.                   *)
LEMMA AdmitKeeps == ASSUME IInv, NEW r \in Request, Admit(r) PROVE IInv'
<1> DEFINE code == IF setting.mode = "invite" THEN req[r].invite ELSE None
           q == [req[r] EXCEPT !.invite = code, !.first = IsFirstUser, !.at = "checked"]
<1>1. /\ ~SettingLocked /\ req[r].op = "register" /\ req[r].at = "waiting" /\ ~Refused(req[r])
      /\ UNCHANGED <<users, admins, suspended, roles, granted, setting, guarded, invites, founders, admitted, spent>>
  BY DEF Admit, AdmitUnlocked, accounts, rolesVars, registration, history
<1>2. req[r] \in Requests /\ code \in invites \cup {None} /\ invites \subseteq Invite /\ IsFirstUser \in BOOLEAN
  BY <1>1, RequestTyped DEF IInv, TypeOK, Refused, IsFirstUser
<1>3. /\ q \in Requests /\ q.at = "checked" /\ q.op = "register" /\ q.by = req[r].by /\ q.invite = code
      /\ (q.first <=> users = {}) /\ req' = [req EXCEPT ![r] = q]
  BY <1>1, <1>2 DEF Requests, Admit, AdmitUnlocked, Step, IsFirstUser
<1> HIDE DEF q, code
<1>4. req' \in [Request -> Requests] /\ req'[r] = q /\ \A p \in Request \ {r} : req'[p] = req[p]
  BY <1>3, OneMoves DEF IInv
<1>5. TypeOK'
  BY <1>1, <1>4 DEF IInv, TypeOK, Requests
<1>6. Admitting(req[r], users, invites)
  BY DEF IInv
<1>7. Meant(q, users, roles) /\ Admitting(q, users, invites)
  BY <1>1, <1>2, <1>3, <1>6 DEF Meant, Admitting
<1>8. \A p \in Request : Meant(req'[p], users', roles') /\ Admitting(req'[p], users', invites')
  BY <1>1, <1>4, <1>7 DEF IInv
<1>9. OwnAccounts'
  BY <1>1, <1>3, <1>4 DEF IInv, OwnAccounts
<1>10. Exclusive'
  BY <1>1, <1>3, <1>4 DEF IInv, Exclusive, SettingLocked, Checked, Guarded
<1>11. ASSUME NEW p \in Request, Checked(p)', req'[p].op \in Guarded PROVE AssertAdministrable(View(p))'
  <2>1. p # r /\ req'[p] = req[p]
    BY <1>3, <1>4, <1>11 DEF Guarded
  <2> QED BY <1>1, <1>11, <2>1, MoreAccess DEF IInv, StillChecked, Checked
<1>12. Administered' /\ OneFounder' /\ invites' \cap spent' = {}
  BY <1>1 DEF IInv, Administered, Usable, OneFounder
<1> QED BY <1>5, <1>8, <1>9, <1>10, <1>11, <1>12 DEF IInv, StillChecked

(* The commit of a registration: the first account is an administrator.    *)
LEMMA RegisteredKeeps == ASSUME IInv, NEW r \in Request, Registered(r) PROVE IInv'
<1> DEFINE q == req[r]
<1>1. q.op = "register" /\ q.at = "checked" /\ End(r) /\ q \in Requests
  BY RequestTyped DEF Registered, Checked, IInv
<1>2. q.by \in User \ users /\ (q.first <=> users = {}) /\ q.invite \in invites \cup {None}
  BY <1>1 DEF IInv, Admitting
<1>3. /\ users' = users \cup {q.by}
      /\ admins' = IF q.first THEN admins \cup {q.by} ELSE admins
      /\ founders' = IF q.first THEN founders \cup {q.by} ELSE founders
      /\ UNCHANGED <<suspended, roles, granted, guarded>>
  BY DEF Registered, rolesVars
<1>4. /\ setting' = IF setting.mode = "single" THEN [setting EXCEPT !.open = FALSE] ELSE setting
      /\ invites' = invites \ {q.invite} /\ spent' = spent \cup ({q.invite} \ {None})
      /\ admitted' = [admitted EXCEPT ![q.by] = q.invite]
  BY DEF Registered
<1>5. /\ req' \in [Request -> Requests] /\ req'[r].at = "ended" /\ req'[r].op = "register" /\ req'[r].by = q.by
      /\ \A p \in Request \ {r} : req'[p] = req[p]
      /\ OwnAccounts' /\ Exclusive'
  BY <1>1, Ends
<1>6. TypeOK /\ OneFounder /\ Administered /\ invites \cap spent = {} /\ OwnAccounts /\ Exclusive
  BY DEF IInv
<1> HIDE DEF q
<1>7. TypeOK'
  <2>1. setting' \in [mode : Mode, open : BOOLEAN] /\ admitted' \in [User -> Invite \cup {None}]
    BY <1>2, <1>4, <1>6 DEF TypeOK
  <2>2. invites' \subseteq Invite /\ spent' \subseteq Invite
    BY <1>2, <1>4, <1>6 DEF TypeOK
  <2>3. admins' \subseteq users' /\ suspended' \subseteq users' /\ users' \subseteq User /\ founders' \subseteq users'
    BY <1>2, <1>3, <1>6 DEF TypeOK
  <2> QED BY <1>3, <1>5, <1>6, <2>1, <2>2, <2>3 DEF TypeOK, Requests
<1>8. ASSUME NEW p \in Request PROVE Meant(req'[p], users', roles') /\ Admitting(req'[p], users', invites')
  <2>1. CASE p = r
    BY <1>5, <2>1 DEF Meant, Admitting
  <2>2. CASE p # r
    <3>1. req'[p] = req[p] /\ Meant(req[p], users, roles) /\ Admitting(req[p], users, invites)
      BY <1>5, <2>2 DEF IInv
    <3>2. Meant(req[p], users', roles')
      BY <1>3, <3>1 DEF Meant
    <3>3. req[p].op = "register" => req[p].by # q.by /\ req[p].at # "checked"
      BY <1>1, <1>6, <2>2 DEF OwnAccounts, Exclusive, Checked, q
    <3>4. Admitting(req[p], users', invites')
      BY <1>3, <3>1, <3>3 DEF Admitting
    <3> QED BY <3>1, <3>2, <3>4
  <2> QED BY <2>1, <2>2
<1>9. ASSUME NEW p \in Request, Checked(p)', req'[p].op \in Guarded PROVE AssertAdministrable(View(p))'
  <2>1. p # r /\ req'[p] = req[p]
    BY <1>5, <1>9 DEF Guarded
  <2>2. admins \subseteq admins' /\ suspended' \subseteq suspended
    BY <1>3
  <2> QED BY <1>3, <1>9, <2>1, <2>2, MoreAccess DEF IInv, StillChecked, Checked
<1>10. Administered'
  BY <1>2, <1>3, <1>6 DEF Administered, Usable, TypeOK
<1>11. OneFounder'
  BY <1>2, <1>3, <1>6 DEF OneFounder, TypeOK
<1>12. invites' \cap spent' = {}
  BY <1>4, <1>6
<1> QED BY <1>5, <1>7, <1>8, <1>9, <1>10, <1>11, <1>12 DEF IInv, StillChecked

(* The commit of a change that was checked.                                *)
LEMMA CommitKeeps == ASSUME IInv, NEW r \in Request, Commit(r) PROVE IInv'
<1> DEFINE q == req[r]
<1>1. q.op \in Guarded /\ Checked(r) /\ End(r) /\ q \in Requests /\ q.op # "register"
  BY RequestTyped DEF Commit, IInv, Guarded
<1>2. /\ admins' = Put(admins, q.target, q.admin) /\ suspended' = Put(suspended, q.target, q.stop)
      /\ granted' = Put(granted, q.target, q.grant)
      /\ UNCHANGED <<users, roles, setting, guarded, invites, founders, admitted, spent>>
  BY DEF Commit, View, registration, history
<1>3. /\ req' \in [Request -> Requests] /\ req'[r].at = "ended" /\ req'[r].op # "register"
      /\ \A p \in Request \ {r} : req'[p] = req[p]
      /\ OwnAccounts' /\ Exclusive'
  BY <1>1, Ends
<1>4. Meant(q, users, roles) /\ TypeOK /\ Exclusive
  BY DEF IInv
<1>5. /\ q.op = "role" => q.admin = "keep" /\ q.stop = "keep" /\ q.target \in roles
      /\ q.op # "role" => q.target \in users /\ q.grant = "keep"
  BY <1>1, <1>4 DEF Meant, Checked, Guarded
<1>6. admins' \subseteq users /\ suspended' \subseteq users /\ granted' \subseteq roles
  BY <1>2, <1>4, <1>5 DEF TypeOK, Put
<1>7. TypeOK'
  BY <1>2, <1>3, <1>4, <1>6 DEF TypeOK, Requests
<1>8. ASSUME NEW p \in Request PROVE Meant(req'[p], users', roles') /\ Admitting(req'[p], users', invites')
  BY <1>2, <1>3 DEF IInv, Meant, Admitting
<1>9. ASSUME NEW p \in Request, Checked(p)', req'[p].op \in Guarded PROVE FALSE
  BY <1>1, <1>3, <1>4, <1>9 DEF Exclusive, Checked
<1>10. Administered'
  <2>1. AssertAdministrable(View(r))
    BY <1>1 DEF IInv, StillChecked
  <2>2. Admin \in roles /\ Admin \in granted' /\ \E u \in admins' : u \notin suspended'
    BY <1>2, <2>1 DEF AssertAdministrable, View
  <2> QED BY <1>2, <2>2 DEF Administered, Usable
<1>11. OneFounder' /\ invites' \cap spent' = {}
  BY <1>2 DEF IInv, OneFounder
<1> QED BY <1>3, <1>7, <1>8, <1>9, <1>10, <1>11 DEF IInv, StillChecked

(* A request that ends and takes nothing that others rely on: no access of *)
(* an administrator, no role that is being saved, no invite in use.        *)
LEMMA EndsHarmless ==
  ASSUME IInv, NEW r \in Request, End(r),
         UNCHANGED <<users, admins, guarded, founders, admitted>>, suspended' \subseteq suspended,
         roles' \subseteq roles, granted' = granted \cap roles', Admin \in roles',
         \A p \in Request : Checked(p) /\ req[p].op = "role" => req[p].target \in roles',
         setting' \in [mode : Mode, open : BOOLEAN],
         invites' \subseteq Invite, spent' \subseteq Invite, invites' \cap spent' = {},
         \A p \in Request : Checked(p) /\ req[p].op = "register" /\ req[p].invite \in invites => req[p].invite \in invites'
  PROVE  IInv'
<1>1. /\ req' \in [Request -> Requests] /\ req'[r].at = "ended"
      /\ \A p \in Request \ {r} : req'[p] = req[p]
      /\ OwnAccounts' /\ Exclusive'
  BY Ends
<1>2. TypeOK /\ Administered /\ OneFounder
  BY DEF IInv
<1>3. TypeOK'
  BY <1>1, <1>2 DEF TypeOK, Requests
<1>4. ASSUME NEW p \in Request PROVE Meant(req'[p], users', roles') /\ Admitting(req'[p], users', invites')
  <2>1. CASE p = r
    BY <1>1, <2>1 DEF Meant, Admitting
  <2>2. CASE p # r
    <3>1. req'[p] = req[p] /\ Meant(req[p], users, roles) /\ Admitting(req[p], users, invites)
      BY <1>1, <2>2 DEF IInv
    <3>2. Meant(req[p], users', roles')
      BY <3>1 DEF Meant, Checked
    <3>3. Admitting(req[p], users', invites')
      BY <3>1 DEF Admitting, Checked
    <3> QED BY <3>1, <3>2, <3>3
  <2> QED BY <2>1, <2>2
<1>5. Admin \in granted'
  BY <1>2 DEF Administered
<1>6. ASSUME NEW p \in Request, Checked(p)', req'[p].op \in Guarded PROVE AssertAdministrable(View(p))'
  <2>1. p # r /\ req'[p] = req[p]
    BY <1>1, <1>6 DEF Checked
  <2> QED BY <1>5, <1>6, <2>1, MoreAccess DEF IInv, StillChecked, Checked
<1>7. Administered' /\ OneFounder'
  BY <1>2, <1>5 DEF Administered, Usable, OneFounder
<1> QED BY <1>1, <1>3, <1>4, <1>6, <1>7 DEF IInv, StillChecked

LEMMA OthersKeep ==
  ASSUME IInv, NEW r \in Request,
         Unsuspend(r) \/ DeleteRole(r) \/ SaveSettings(r) \/ CreateInvite(r) \/ RevokeInvite(r)
  PROVE  IInv'
<1>1. End(r) /\ UNCHANGED <<users, admins, guarded, founders, admitted>>
  BY DEF Unsuspend, DeleteRole, SaveSettings, CreateInvite, RevokeInvite, accounts, registration, history
<1>2. TypeOK /\ Administered /\ invites \cap spent = {} /\ \A p \in Request : Meant(req[p], users, roles)
  BY DEF IInv
<1>3. /\ setting \in [mode : Mode, open : BOOLEAN] /\ invites \subseteq Invite /\ spent \subseteq Invite
      /\ granted = granted \cap roles /\ Admin \in roles
      /\ \A p \in Request : Checked(p) /\ req[p].op = "role" => req[p].target \in roles
  BY <1>2 DEF TypeOK, Administered, Meant, Checked
<1>4. CASE Unsuspend(r)
  <2>1. suspended' \subseteq suspended /\ UNCHANGED <<roles, granted, setting, invites, spent>>
    BY <1>4 DEF Unsuspend, rolesVars, registration, history
  <2> QED BY <1>1, <1>2, <1>3, <2>1, EndsHarmless
<1>5. CASE DeleteRole(r)
  <2>1. UNCHANGED <<suspended, setting, invites, spent>>
    BY <1>5 DEF DeleteRole, accounts, registration, history
  <2>2. PICK q \in roles : /\ ~IsDefault(q) /\ roles' = roles \ {q} /\ granted' = granted \ {q}
                           /\ \A p \in Request : Checked(p) => req[p].target # q
    BY <1>5 DEF DeleteRole
  <2>3. Admin \in roles' /\ granted' = granted \cap roles'
    BY <1>3, <2>2 DEF IsDefault, DefaultRoles
  <2> QED BY <1>1, <1>2, <1>3, <2>1, <2>2, <2>3, EndsHarmless
<1>6. CASE SaveSettings(r)
  <2>1. UNCHANGED <<suspended, roles, granted, invites, spent>> /\ setting' \in [mode : Mode, open : BOOLEAN]
    BY <1>6 DEF SaveSettings, accounts, rolesVars, history
  <2> QED BY <1>1, <1>2, <1>3, <2>1, EndsHarmless
<1>7. CASE CreateInvite(r)
  <2>1. UNCHANGED <<suspended, roles, granted, setting, spent>>
    BY <1>7 DEF CreateInvite, accounts, rolesVars, history
  <2>2. PICK i \in Invite \ (invites \cup spent) : invites' = invites \cup {i}
    BY <1>7 DEF CreateInvite
  <2> QED BY <1>1, <1>2, <1>3, <2>1, <2>2, EndsHarmless
<1>8. CASE RevokeInvite(r)
  <2>1. UNCHANGED <<suspended, roles, granted, setting>>
    BY <1>8 DEF RevokeInvite, accounts, rolesVars
  <2>2. PICK i \in invites : ~Busy(i) /\ invites' = invites \ {i} /\ spent' = spent \cup {i}
    BY <1>8 DEF RevokeInvite
  <2>3. \A p \in Request : Checked(p) => req[p].invite # i
    BY <2>2 DEF Busy
  <2> QED BY <1>1, <1>2, <1>3, <2>1, <2>2, <2>3, EndsHarmless
<1> QED BY <1>4, <1>5, <1>6, <1>7, <1>8

LEMMA StillKeeps == ASSUME IInv, UNCHANGED vars PROVE IInv'
<1>1. UNCHANGED <<users, admins, suspended, roles, granted, setting, guarded, invites, req, founders, admitted, spent>>
  BY DEF vars, accounts, rolesVars, registration, history
<1>2. TypeOK' /\ OwnAccounts' /\ Exclusive' /\ Administered' /\ OneFounder'
  BY <1>1 DEF IInv, TypeOK, OwnAccounts, Exclusive, Checked, Administered, Usable, OneFounder
<1>3. StillChecked'
  BY <1>1, MoreAccess DEF IInv, StillChecked, Checked
<1> QED BY <1>1, <1>2, <1>3 DEF IInv

LEMMA Inductive == IInv /\ [Next]_vars => IInv'
<1> SUFFICES ASSUME IInv, [Next]_vars PROVE IInv'
  OBVIOUS
<1>1. ASSUME NEW r \in Request, Registration(r) PROVE IInv'
  <2>1. TurnDown(r) => IInv'
    BY EndsQuietly DEF TurnDown
  <2> QED BY <1>1, <2>1, RegisterKeeps, AdmitKeeps, RegisteredKeeps DEF Registration
<1>2. ASSUME NEW r \in Request, Panel(r) PROVE IInv'
  BY <1>2, OpenKeeps, SavesKeep, CheckKeeps, CommitKeeps, OthersKeep DEF Panel
<1> QED BY <1>1, <1>2, StillKeeps DEF Next

(* The inductive invariant holds of every instance.                        *)
THEOREM AdministrationInvariant == Spec => []IInv
BY Initial, Inductive, PTL DEF Spec

(* Rows and requests keep their types.                                     *)
THEOREM TypeCorrect == Spec => []TypeOK
<1>1. IInv => TypeOK
  BY DEF IInv
<1> QED BY <1>1, AdministrationInvariant, PTL

(* AdminAccessGuard: whatever administrators do to one another at once, an *)
(* instance that has accounts has a usable administrator.                  *)
THEOREM AnAdministratorStays == Spec => []StaysAdministrable
<1>1. IInv => StaysAdministrable
  BY DEF IInv, Administered, StaysAdministrable
<1> QED BY <1>1, AdministrationInvariant, PTL

(* registerInTransaction: of any number of first registrations one wins.   *)
THEOREM FoundersAreOne == Spec => []OneFounder
<1>1. IInv => OneFounder
  BY DEF IInv
<1> QED BY <1>1, AdministrationInvariant, PTL

(* consumeInviteForRegistration: an invite is worth one account, and none  *)
(* once it was revoked.                                                    *)
THEOREM InvitesAdmitOnce == Spec => InvitesAreSingleUse
<1>1. ASSUME IInv, [Next]_vars, NEW u \in User, admitted'[u] # admitted[u] PROVE admitted'[u] \notin spent
  <2>1. CASE \E r \in Request : Registered(r)
    <3>1. PICK r \in Request : Registered(r)
      BY <2>1
    <3>2. admitted' = [admitted EXCEPT ![req[r].by] = req[r].invite]
      BY <3>1 DEF Registered
    <3>3. req[r].invite \in invites \cup {None} /\ spent \subseteq Invite /\ invites \cap spent = {}
      BY <1>1, <3>1 DEF Registered, Checked, IInv, Admitting, TypeOK
    <3>4. admitted'[u] = req[r].invite
      BY <1>1, <3>2 DEF IInv, TypeOK
    <3> QED BY <3>3, <3>4, AdministrationAssumption
  <2>2. CASE ~\E r \in Request : Registered(r)
    <3>1. UNCHANGED admitted
      BY <1>1, <2>2 DEF Next, Registration, Panel, Register, Admit, AdmitUnlocked, TurnDown, OpenPanel, SaveUser,
         SuspendAction, UnsuspendAction, SaveRole, Check, CheckUnlocked, Commit, Unsuspend, DeleteRole,
         SaveSettings, CreateInvite, RevokeInvite, vars, history
    <3> QED BY <1>1, <3>1
  <2> QED BY <2>1, <2>2
<1>2. IInv /\ [Next]_vars => [\A u \in User : admitted'[u] # admitted[u] => admitted'[u] \notin spent]_vars
  BY <1>1
<1> QED BY <1>2, AdministrationInvariant, PTL DEF Spec, InvitesAreSingleUse
==============================================================================

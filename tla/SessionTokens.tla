---------------------------- MODULE SessionTokens ----------------------------
(***************************************************************************)
(* The access and refresh tokens of one account, as the statements that    *)
(* concurrent API requests run against PostgreSQL (READ COMMITTED).        *)
(*                                                                         *)
(* A token pair is one element of Token: the row in refresh_tokens and the *)
(* row in personal_access_tokens issued with it.  Every sign-in creates a  *)
(* device and a family, and a refresh keeps both, so family[t] stands for  *)
(* the family_id and for the device_id of both rows of t.                  *)
(*                                                                         *)
(* An action is one SQL statement (or a few that nothing can come          *)
(* between).  A SELECT and the WHERE of an UPDATE see what was committed   *)
(* when the statement started; an UPDATE then waits for the row locks of   *)
(* the rows it selected, so it acts on rows that may have changed and      *)
(* never on rows inserted meanwhile.  What a transaction wrote is applied  *)
(* to the shared variables by its commit.  A request may die between any   *)
(* two statements.                                                         *)
(***************************************************************************)
EXTENDS Integers, FiniteSets

CONSTANTS
  Token,      \* the token pairs that can be issued
  Req,        \* the requests; each runs once, which bounds the model
  None,       \* the holder of a free lock; the token of an idle request
  RowLocks,   \* whether SELECT ... FOR UPDATE locks the row it returns
  Enabled     \* what may happen: operations, "expire", "abort": a bound

ASSUME NoneAssumption == None \notin Req \cup Token
ASSUME RowLocksAssumption == RowLocks \in BOOLEAN

VARIABLES
  suspended,  \* users.suspended_at is set
  issued,     \* rows of refresh_tokens
  rotated,    \* rows with rotated_at
  revoked,    \* rows with revoked_at
  expired,    \* rows whose expires_at has passed
  family,     \* family_id and device_id
  access,     \* rows of personal_access_tokens that authenticate
  lock,       \* row locks on refresh_tokens
  userLock,   \* the row lock on users that an UPDATE of it takes
  pc,         \* per request: its next statement
  op,         \* per request: the operation it runs
  arg,        \* per request: the token it presents or issues
  hit,        \* per request: refresh tokens its UPDATE selected
  doomed,     \* per request: access tokens its DELETE selected
  old,        \* history: the refresh tokens present when a request began
  oldAccess,  \* history: the access tokens present when a request began
  atSuspend   \* history: the refresh tokens present at the last suspension

rows == <<issued, rotated, revoked, expired, family, access>>
locks == <<lock, userLock>>
request == <<op, arg, old, oldAccess>>
vars == <<suspended, rows, locks, pc, request, hit, doomed, atSuspend>>

Endings == {"reuse", "logout", "reset", "replace", "suspend"}
Op == {"none", "login", "refresh"} \cup Endings
PC == {"idle", "pair", "access", "user", "claim", "rotate",
       "delete", "select", "wait", "commit", "done", "failed"}

TypeOK ==
  /\ suspended \in BOOLEAN
  /\ issued \in SUBSET Token
  /\ rotated \subseteq issued /\ revoked \subseteq issued
  /\ expired \subseteq issued /\ access \subseteq issued
  /\ family \in [Token -> Token]
  /\ lock \in [Token -> Req \cup {None}]
  /\ userLock \in Req \cup {None}
  /\ pc \in [Req -> PC] /\ op \in [Req -> Op] /\ arg \in [Req -> Token \cup {None}]
  /\ hit \in [Req -> SUBSET issued] /\ doomed \in [Req -> SUBSET issued]
  /\ old \in [Req -> SUBSET issued] /\ oldAccess \in [Req -> SUBSET issued]
  /\ atSuspend \subseteq issued

Init ==
  /\ suspended = FALSE
  /\ issued = {} /\ rotated = {} /\ revoked = {} /\ expired = {} /\ access = {}
  /\ family = [t \in Token |-> t]
  /\ lock = [t \in Token |-> None] /\ userLock = None
  /\ pc = [p \in Req |-> "idle"]
  /\ op = [p \in Req |-> "none"]
  /\ arg = [p \in Req |-> None]
  /\ hit = [p \in Req |-> {}] /\ doomed = [p \in Req |-> {}]
  /\ old = [p \in Req |-> {}] /\ oldAccess = [p \in Req |-> {}]
  /\ atSuspend = {}

------------------------------------------------------------------------------
(* RefreshToken::isUsable(), and the condition of the claiming UPDATE. *)
Usable(t) == t \in issued \ (rotated \cup revoked \cup expired)
NotRevoked(t) == t \notin revoked
Claimable(t) == t \notin rotated \cup revoked

(* Only a pair that a response delivered is ever presented; a sign-in whose *)
(* last statement has not run, or never will, delivers none.               *)
Delivered(t) ==
  t \in issued /\ \A p \in Req : op[p] = "login" /\ arg[p] = t => pc[p] = "done"

(* A lock on row t can be granted to p, or p has it already. *)
Grantable(p, t) == lock[t] \in {None, p}
Released(p) == [t \in Token |-> IF lock[t] = p THEN None ELSE lock[t]]

Goto(p, label) == pc' = [pc EXCEPT ![p] = label]

(* The history notes the tokens that existed when p began to end sessions. *)
Remember(p) ==
  /\ old' = [old EXCEPT ![p] = issued]
  /\ oldAccess' = [oldAccess EXCEPT ![p] = access]

(* Bound: a request that issues a pair starts only if one is left for it. *)
Issuing == {p \in Req : pc[p] \in {"pair", "user", "claim", "rotate"}}
Room == Cardinality(issued) + Cardinality(Issuing) < Cardinality(Token)

(* p starts operation o with token t. *)
Begin(p, o, t, label) ==
  /\ o \in Enabled /\ pc[p] = "idle"
  /\ o \in {"login", "refresh"} => Room
  /\ Goto(p, label)
  /\ op' = [op EXCEPT ![p] = o]
  /\ arg' = [arg EXCEPT ![p] = t]
  /\ IF o \in Endings
       THEN Remember(p)
       ELSE UNCHANGED <<old, oldAccess>>

(* Commit or rollback: p ends and its row locks are released. *)
Finish(p, label) ==
  /\ Goto(p, label)
  /\ lock' = Released(p)
  /\ userLock' = IF userLock = p THEN None ELSE userLock
  /\ hit' = [hit EXCEPT ![p] = {}]
  /\ doomed' = [doomed EXCEPT ![p] = {}]

------------------------------------------------------------------------------
(* AuthService::login.  The account is read once (password, suspended_at,  *)
(* second factor); the pair is then issued by separate statements outside  *)
(* any transaction.  A refused sign-in changes none of these variables.    *)
LoginCheckPairLast(p) ==
  /\ ~suspended
  /\ Begin(p, "login", None, "access")
  /\ UNCHANGED <<suspended, rows, locks, hit, doomed, atSuspend>>
LoginCheck(p) ==
  /\ ~suspended
  /\ Begin(p, "login", None, "pair")
  /\ UNCHANGED <<suspended, rows, locks, hit, doomed, atSuspend>>

LoginRefreshToken(p, t) ==
  /\ pc[p] = "pair" /\ t \notin issued
  /\ issued' = issued \cup {t}
  /\ family' = [family EXCEPT ![t] = t]
  /\ arg' = [arg EXCEPT ![p] = t]
  /\ Goto(p, "access")
  /\ UNCHANGED <<suspended, rotated, revoked, expired, access, locks, op, old,
                 oldAccess, hit, doomed, atSuspend>>

LoginAccessToken(p) ==
  /\ pc[p] = "access"
  /\ access' = access \cup {arg[p]}
  /\ Finish(p, "done")
  /\ UNCHANGED <<suspended, issued, rotated, revoked, expired, family, request, atSuspend>>

------------------------------------------------------------------------------
(* AuthService::refresh, one transaction.  First statement: SELECT the     *)
(* presented token FOR UPDATE and decide on the row that was returned.     *)
(* Unknown, revoked and expired tokens are refused and change nothing.     *)
RefreshFind(p, t) ==
  /\ Delivered(t)
  /\ RowLocks => Grantable(p, t)
  /\ lock' = IF RowLocks THEN [lock EXCEPT ![t] = p] ELSE lock
  /\ UNCHANGED <<suspended, rows, userLock, hit, doomed, atSuspend>>

RefreshUsable(p, t) ==
  /\ Usable(t)
  /\ Begin(p, "refresh", t, "user")
  /\ RefreshFind(p, t)

RefreshReused(p, t) ==
  /\ t \in rotated
  /\ Begin(p, "reuse", t, "select")
  /\ RefreshFind(p, t)

(* The account is read.  A suspended one has the presented token revoked. *)
RefreshSuspended(p) ==
  /\ pc[p] = "user" /\ suspended /\ Grantable(p, arg[p])
  /\ revoked' = revoked \cup {arg[p]}
  /\ Finish(p, "failed")
  /\ UNCHANGED <<suspended, issued, rotated, expired, family, access, request, atSuspend>>

RefreshAllowed(p) ==
  /\ pc[p] = "user" /\ ~suspended
  /\ Goto(p, "claim")
  /\ UNCHANGED <<suspended, rows, locks, request, hit, doomed, atSuspend>>

(* UPDATE ... SET rotated_at WHERE id AND rotated_at IS NULL AND revoked_at *)
(* IS NULL: waits for the row, then counts it only if it still matches.    *)
RefreshClaim(p) ==
  /\ pc[p] = "claim" /\ Grantable(p, arg[p]) /\ Claimable(arg[p])
  /\ lock' = [lock EXCEPT ![arg[p]] = p]
  /\ Goto(p, "rotate")
  /\ UNCHANGED <<suspended, rows, userLock, request, hit, doomed, atSuspend>>

RefreshClaimLost(p) ==
  /\ pc[p] = "claim" /\ Grantable(p, arg[p]) /\ ~Claimable(arg[p])
  /\ op' = [op EXCEPT ![p] = "reuse"]
  /\ Remember(p)
  /\ Goto(p, "select")
  /\ UNCHANGED <<suspended, rows, locks, arg, hit, doomed, atSuspend>>

(* issueTokenPair() in the same transaction, and its commit.  The successor *)
(* takes the family_id of the presented token.                             *)
FamilyIsParent(p) == arg[p]
FamilyOf(p) == family[arg[p]]

NothingRotated(p) == rotated
Rotated(p) == rotated \cup {arg[p]}

RefreshIssue(p, u) ==
  /\ pc[p] = "rotate" /\ u \notin issued
  /\ rotated' = Rotated(p)
  /\ issued' = issued \cup {u}
  /\ family' = [family EXCEPT ![u] = FamilyOf(p)]
  /\ access' = access \cup {u}
  /\ Finish(p, "done")
  /\ UNCHANGED <<suspended, revoked, expired, request, atSuspend>>

------------------------------------------------------------------------------
(* The operations that end sessions.  They differ in the rows they select, *)
(* in the order of the two statements and in whether a transaction holds   *)
(* them together: logout() and resetPassword() commit each statement.      *)
Transactional(p) == op[p] \in {"reuse", "replace", "suspend"}

AccessRows(p) ==
  { a \in access :
      /\ op[p] = "reuse" => family[a] = family[arg[p]]
      /\ op[p] = "logout" => a = arg[p]
      /\ op[p] = "replace" => a # arg[p] }

OnlyPresented(p, t) == op[p] = "reuse" => t = arg[p]
InScope(p, t) ==
  /\ op[p] = "reuse" => family[t] = family[arg[p]]
  /\ op[p] = "replace" => family[t] # family[arg[p]]

RefreshRows(p) == { t \in issued \ revoked : InScope(p, t) }

(* Requests behind auth:sanctum and not_suspended present an access token. *)
LogoutBegin(p, t) ==
  /\ t \in access /\ ~suspended
  /\ Begin(p, "logout", t, "delete")
  /\ UNCHANGED <<suspended, rows, locks, hit, doomed, atSuspend>>

(* Password::reset saves the new password first, in a statement of its own. *)
ResetBegin(p) ==
  /\ userLock = None
  /\ Begin(p, "reset", None, "delete")
  /\ UNCHANGED <<suspended, rows, locks, hit, doomed, atSuspend>>

(* verifyTwoFactor() of an account that replaces its second factor saves   *)
(* the users row in the transaction in which it ends the other sessions.   *)
ReplaceBegin(p, t) ==
  /\ t \in access /\ ~suspended /\ userLock = None
  /\ Begin(p, "replace", t, "delete")
  /\ userLock' = p
  /\ UNCHANGED <<suspended, rows, lock, hit, doomed, atSuspend>>

(* UserSuspensionService::suspend; suspended_at is visible at the commit. *)
SuspendBegin(p) ==
  /\ userLock = None
  /\ Begin(p, "suspend", None, "delete")
  /\ userLock' = p
  /\ UNCHANGED <<suspended, rows, lock, hit, doomed, atSuspend>>

Unsuspend ==
  /\ suspended /\ userLock = None
  /\ suspended' = FALSE
  /\ UNCHANGED <<rows, locks, pc, request, hit, doomed, atSuspend>>

(* DELETE FROM personal_access_tokens; a family revocation runs it last. *)
SelectAfter(p) == "select"
AfterDelete(p) == IF op[p] = "reuse" THEN "commit" ELSE "select"

DeleteAccess(p) ==
  /\ pc[p] = "delete"
  /\ IF Transactional(p)
       THEN doomed' = [doomed EXCEPT ![p] = AccessRows(p)] /\ access' = access
       ELSE access' = access \ AccessRows(p) /\ doomed' = doomed
  /\ Goto(p, AfterDelete(p))
  /\ UNCHANGED <<suspended, issued, rotated, revoked, expired, family, locks,
                 request, hit, atSuspend>>

(* UPDATE refresh_tokens SET revoked_at WHERE ...: the rows that match when *)
(* it starts, then one row lock after the other, in any order.             *)
RevokeSelect(p) ==
  /\ pc[p] = "select"
  /\ hit' = [hit EXCEPT ![p] = RefreshRows(p)]
  /\ Goto(p, "wait")
  /\ UNCHANGED <<suspended, rows, locks, request, doomed, atSuspend>>

RevokeLock(p, t) ==
  /\ pc[p] = "wait" /\ t \in hit[p] /\ lock[t] = None
  /\ lock' = [lock EXCEPT ![t] = p]
  /\ UNCHANGED <<suspended, rows, userLock, pc, request, hit, doomed, atSuspend>>

HasLocks(p) == \A t \in hit[p] : lock[t] = p

RevokeStatement(p) ==
  /\ pc[p] = "wait" /\ HasLocks(p) /\ Transactional(p)
  /\ Goto(p, IF op[p] = "reuse" THEN "delete" ELSE "commit")
  /\ UNCHANGED <<suspended, rows, locks, request, hit, doomed, atSuspend>>

RevokeAutocommit(p) ==
  /\ pc[p] = "wait" /\ HasLocks(p) /\ ~Transactional(p)
  /\ revoked' = revoked \cup hit[p]
  /\ Finish(p, "done")
  /\ UNCHANGED <<suspended, issued, rotated, expired, family, access, request, atSuspend>>

RevokeCommit(p) ==
  /\ pc[p] = "commit"
  /\ revoked' = revoked \cup hit[p]
  /\ access' = access \ doomed[p]
  /\ suspended' = (suspended \/ op[p] = "suspend")
  /\ atSuspend' = IF op[p] = "suspend" THEN {t \in issued : Delivered(t)} ELSE atSuspend
  /\ Finish(p, "done")
  /\ UNCHANGED <<issued, rotated, expired, family, request>>

------------------------------------------------------------------------------
Running(p) == pc[p] \notin {"idle", "done", "failed"}

(* An open transaction is rolled back; what a statement committed stays. *)
Rollback(p) ==
  /\ Running(p)
  /\ Finish(p, "failed")
  /\ UNCHANGED <<suspended, rows, request, atSuspend>>

(* A request ends early: throttleRefresh() throws before it modifies        *)
(* anything, or the worker or its connection dies at any point.            *)
Abort(p) == "abort" \in Enabled /\ Rollback(p)

(* p waits for a row that q has locked. *)
WaitsFor(p, q) ==
  /\ q # p
  /\ \/ pc[p] = "wait" /\ \E t \in hit[p] : lock[t] = q
     \/ pc[p] = "claim" /\ lock[arg[p]] = q

InCycle(p) ==
  /\ \E q \in Req : WaitsFor(p, q)
  /\ \E n \in 2..Cardinality(Req) : \E c \in [1..n -> Req] :
       /\ c[1] = p /\ WaitsFor(c[n], c[1])
       /\ \A i \in 1..(n - 1) : WaitsFor(c[i], c[i + 1])

(* PostgreSQL rolls back one transaction of a cycle of lock waits. *)
DeadlockVictim(p) == InCycle(p) /\ Rollback(p)

(* Time: a refresh token expires after days, an access token after minutes. *)
(* The expiry of a token that is spent or revoked is never read.           *)
Expire(t) ==
  /\ "expire" \in Enabled /\ Usable(t)
  /\ expired' = expired \cup {t}
  /\ UNCHANGED <<suspended, issued, rotated, revoked, family, access, locks, pc,
                 request, hit, doomed, atSuspend>>

AccessExpire(t) ==
  /\ "expire" \in Enabled /\ t \in access
  /\ access' = access \ {t}
  /\ UNCHANGED <<suspended, issued, rotated, revoked, expired, family, locks, pc,
                 request, hit, doomed, atSuspend>>

(* No request is running: the server may stay idle. *)
Terminated == (\A p \in Req : ~Running(p)) /\ UNCHANGED vars

------------------------------------------------------------------------------
Start(p) ==
  \/ LoginCheck(p) \/ ResetBegin(p) \/ SuspendBegin(p)
  \/ \E t \in Token : \/ RefreshUsable(p, t) \/ RefreshReused(p, t)
                      \/ LogoutBegin(p, t) \/ ReplaceBegin(p, t)

Progress(p) ==
  \/ LoginAccessToken(p)
  \/ RefreshSuspended(p) \/ RefreshAllowed(p) \/ RefreshClaim(p) \/ RefreshClaimLost(p)
  \/ DeleteAccess(p) \/ RevokeSelect(p)
  \/ RevokeStatement(p) \/ RevokeAutocommit(p) \/ RevokeCommit(p)
  \/ \E t \in Token : \/ LoginRefreshToken(p, t) \/ RefreshIssue(p, t)
                      \/ RevokeLock(p, t)

Next ==
  \/ \E p \in Req : Start(p) \/ Progress(p) \/ Abort(p) \/ DeadlockVictim(p)
  \/ \E t \in Token : Expire(t) \/ AccessExpire(t)
  \/ Unsuspend
  \/ Terminated

Spec == Init /\ [][Next]_vars

(* A request that was started goes on, and a deadlock is broken. *)
Fairness ==
  /\ \A p \in Req : WF_vars(Progress(p))
  /\ WF_vars(\E p \in Req : DeadlockVictim(p))
FairSpec == Spec /\ Fairness

------------------------------------------------------------------------------
(* A family is a chain: of the tokens issued in it, at most one was not    *)
(* exchanged yet.  Two concurrent refresh() calls with one token would     *)
(* both append to the chain if neither the row lock nor the claiming       *)
(* UPDATE stopped the second.                                              *)
OneHeadPerFamily ==
  \A t, u \in issued \ rotated : family[t] = family[u] => t = u

(* What an operation that ends sessions promises for the tokens that       *)
(* existed when it began: once it succeeded none of those it is about      *)
(* works again, whatever ran beside it (revokeRefreshTokenFamily, logout,  *)
(* resetPassword, revokeOtherSessions, suspend).                           *)
RefreshEnded(p, t) ==
  \/ op[p] \in {"logout", "reset", "suspend"}
  \/ op[p] = "reuse" /\ family[t] = family[arg[p]]
  \/ op[p] = "replace" /\ family[t] # family[arg[p]]

AccessEnded(p, t) ==
  \/ op[p] \in {"reset", "suspend"}
  \/ op[p] = "logout" /\ t = arg[p]
  \/ op[p] = "reuse" /\ family[t] = family[arg[p]]
  \/ op[p] = "replace" /\ t # arg[p]

EndsEarlierSessions ==
  \A p \in Req : pc[p] = "done" /\ op[p] \in Endings =>
    /\ \A t \in old[p] : RefreshEnded(p, t) => ~Usable(t)
    /\ \A t \in oldAccess[p] : AccessEnded(p, t) => t \notin access

(* Every token is exchanged at most once, for one successor in its family, *)
(* and never after it was revoked: refresh() implements OneTimeTokens.     *)
Tokens == INSTANCE OneTimeTokens WITH spent <- rotated, void <- revoked
TokensAreOneTime == Tokens!Spec

(* Every request ends, no lock wait lasts forever: as each request runs     *)
(* once, none is left running in the end.                                  *)
RequestsFinish == []<>(\A p \in Req : ~Running(p))

------------------------------------------------------------------------------
(* Two sentences of the source that TLC refutes (README, section 3).       *)

(* The docblock of UserSuspensionService: "nothing issued before the       *)
(* suspension works again after unsuspension".                             *)
SuspensionIsFinal ==
  ~suspended => \A t \in atSuspend : ~Usable(t) /\ t \notin access

(* The comment of revokeRefreshTokenFamily: "Revoke every refresh token in *)
(* the presented token's family and every access token issued to its       *)
(* device".                                                                *)
ReuseEndsFamily ==
  \A p \in Req : pc[p] = "done" /\ op[p] = "reuse" =>
    \A t \in issued : family[t] = family[arg[p]] => ~Usable(t) /\ t \notin access
==============================================================================

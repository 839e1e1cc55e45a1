------------------------ MODULE SessionTokensProofs --------------------------
(***************************************************************************)
(* Proofs about SessionTokens for any number of requests and tokens, with  *)
(* and without row locks on SELECT ... FOR UPDATE.                         *)
(***************************************************************************)
EXTENDS SessionTokens, TLAPS

(* Which operation a request runs when it is at a given statement. *)
PcMatchesOp ==
  \A p \in Req :
    /\ pc[p] \in {"pair", "access"} => op[p] = "login"
    /\ pc[p] \in {"user", "claim", "rotate"} => op[p] = "refresh"
    /\ pc[p] \in {"delete", "select", "wait", "commit"} => op[p] \in Endings
    /\ pc[p] = "commit" => Transactional(p)

(* A request keeps the token it works on; it exists. *)
ArgIssued ==
  \A p \in Req :
    /\ pc[p] = "access" => arg[p] \in issued
    /\ op[p] \in {"refresh", "reuse", "logout", "replace"} => arg[p] \in issued

(* The families of existing tokens are rooted at existing tokens. *)
RootsIssued == \A t \in issued : family[t] \in issued

(* A request about to rotate its token holds that row: it is not rotated   *)
(* and not revoked.                                                        *)
ClaimHeld ==
  \A p \in Req : pc[p] = "rotate" =>
    lock[arg[p]] = p /\ arg[p] \in issued \ (rotated \cup revoked)

(* After its UPDATE statement a transaction holds every row it selected. *)
RowsHeld ==
  \A p \in Req :
    pc[p] = "commit" \/ (pc[p] = "delete" /\ op[p] = "reuse") => HasLocks(p)

IInv == TypeOK /\ PcMatchesOp /\ ArgIssued /\ RootsIssued /\ ClaimHeld /\ RowsHeld
                /\ OneHeadPerFamily

------------------------------------------------------------------------------
(* The values of the variables at the end of a transaction. *)
LEMMA FinishType ==
  ASSUME TypeOK, NEW p \in Req, NEW label \in PC, Finish(p, label)
  PROVE  /\ pc' \in [Req -> PC]
         /\ lock' \in [Token -> Req \cup {None}]
         /\ userLock' \in Req \cup {None}
         /\ hit' \in [Req -> SUBSET issued]
         /\ doomed' \in [Req -> SUBSET issued]
BY DEF TypeOK, Finish, Goto, Released

(* The values of the variables when a request begins. *)
LEMMA BeginType ==
  ASSUME TypeOK, NEW p \in Req, NEW o \in Op, NEW t \in Token \cup {None},
         NEW label \in PC, Begin(p, o, t, label)
  PROVE  /\ pc' \in [Req -> PC]
         /\ op' \in [Req -> Op]
         /\ arg' \in [Req -> Token \cup {None}]
         /\ old' \in [Req -> SUBSET issued]
         /\ oldAccess' \in [Req -> SUBSET issued]
BY DEF TypeOK, Begin, Goto, Remember

(* Every step keeps the variables in their types: no token is rotated,     *)
(* revoked or presented that refresh_tokens does not hold.                 *)
LEMMA StepType == TypeOK /\ PcMatchesOp /\ ArgIssued /\ [Next]_vars => TypeOK'
<1> SUFFICES ASSUME TypeOK, PcMatchesOp, ArgIssued, [Next]_vars
             PROVE  TypeOK'
  OBVIOUS
<1> USE DEF rows, locks, request
<1>1. ASSUME NEW p \in Req, LoginCheck(p) PROVE TypeOK'
  BY <1>1, BeginType DEF TypeOK, LoginCheck, Op, PC
<1>2. ASSUME NEW p \in Req, NEW t \in Token, LoginRefreshToken(p, t) PROVE TypeOK'
  BY <1>2 DEF TypeOK, LoginRefreshToken, Goto, PC
<1>3. ASSUME NEW p \in Req, LoginAccessToken(p) PROVE TypeOK'
  BY <1>3, FinishType DEF TypeOK, LoginAccessToken, ArgIssued, PC
<1>4. ASSUME NEW p \in Req, NEW t \in Token, RefreshUsable(p, t) PROVE TypeOK'
  BY <1>4, BeginType DEF TypeOK, RefreshUsable, RefreshFind, Op, PC
<1>5. ASSUME NEW p \in Req, NEW t \in Token, RefreshReused(p, t) PROVE TypeOK'
  BY <1>5, BeginType DEF TypeOK, RefreshReused, RefreshFind, Op, Endings, PC
<1>6. ASSUME NEW p \in Req, RefreshSuspended(p) PROVE TypeOK'
  BY <1>6, FinishType DEF TypeOK, RefreshSuspended, ArgIssued, PcMatchesOp, PC
<1>7. ASSUME NEW p \in Req, RefreshAllowed(p) PROVE TypeOK'
  BY <1>7 DEF TypeOK, RefreshAllowed, Goto, PC
<1>8. ASSUME NEW p \in Req, RefreshClaim(p) PROVE TypeOK'
  BY <1>8 DEF TypeOK, RefreshClaim, Goto, PC
<1>9. ASSUME NEW p \in Req, RefreshClaimLost(p) PROVE TypeOK'
  BY <1>9 DEF TypeOK, RefreshClaimLost, Remember, Goto, Op, Endings, PC
<1>10. ASSUME NEW p \in Req, NEW u \in Token, RefreshIssue(p, u) PROVE TypeOK'
  BY <1>10, FinishType DEF TypeOK, RefreshIssue, Rotated, FamilyOf, ArgIssued, PcMatchesOp, PC
<1>11. ASSUME NEW p \in Req, NEW t \in Token, LogoutBegin(p, t) PROVE TypeOK'
  BY <1>11, BeginType DEF TypeOK, LogoutBegin, Op, Endings, PC
<1>12. ASSUME NEW p \in Req, ResetBegin(p) PROVE TypeOK'
  BY <1>12, BeginType DEF TypeOK, ResetBegin, Op, Endings, PC
<1>13. ASSUME NEW p \in Req, NEW t \in Token, ReplaceBegin(p, t) PROVE TypeOK'
  BY <1>13, BeginType DEF TypeOK, ReplaceBegin, Op, Endings, PC
<1>14. ASSUME NEW p \in Req, SuspendBegin(p) PROVE TypeOK'
  BY <1>14, BeginType DEF TypeOK, SuspendBegin, Op, Endings, PC
<1>15. ASSUME NEW p \in Req, DeleteAccess(p) PROVE TypeOK'
  <2>1. AccessRows(p) \subseteq issued
    BY DEF AccessRows, TypeOK
  <2>2. pc' \in [Req -> PC]
    BY <1>15 DEF TypeOK, DeleteAccess, AfterDelete, Goto, PC
  <2>3. access' \subseteq issued /\ doomed' \in [Req -> SUBSET issued]
    BY <1>15, <2>1 DEF TypeOK, DeleteAccess
  <2> QED BY <1>15, <2>2, <2>3 DEF TypeOK, DeleteAccess
<1>16. ASSUME NEW p \in Req, RevokeSelect(p) PROVE TypeOK'
  <2>1. RefreshRows(p) \subseteq issued
    BY DEF RefreshRows
  <2> QED BY <1>16, <2>1 DEF TypeOK, RevokeSelect, Goto, PC
<1>17. ASSUME NEW p \in Req, NEW t \in Token, RevokeLock(p, t) PROVE TypeOK'
  BY <1>17 DEF TypeOK, RevokeLock
<1>18. ASSUME NEW p \in Req, RevokeStatement(p) PROVE TypeOK'
  BY <1>18 DEF TypeOK, RevokeStatement, Goto, PC
<1>19. ASSUME NEW p \in Req, RevokeAutocommit(p) PROVE TypeOK'
  BY <1>19, FinishType DEF TypeOK, RevokeAutocommit, PC
<1>20. ASSUME NEW p \in Req, RevokeCommit(p) PROVE TypeOK'
  BY <1>20, FinishType DEF TypeOK, RevokeCommit, PC
<1>21. ASSUME NEW p \in Req, Rollback(p) PROVE TypeOK'
  BY <1>21, FinishType DEF TypeOK, Rollback, PC
<1>22. ASSUME NEW t \in Token, Expire(t) \/ AccessExpire(t) PROVE TypeOK'
  BY <1>22 DEF TypeOK, Expire, AccessExpire, Usable
<1>23. CASE Unsuspend
  BY <1>23 DEF TypeOK, Unsuspend
<1>24. CASE UNCHANGED vars
  BY <1>24 DEF TypeOK, vars
<1> QED
  BY <1>1, <1>2, <1>3, <1>4, <1>5, <1>6, <1>7, <1>8, <1>9, <1>10, <1>11, <1>12,
     <1>13, <1>14, <1>15, <1>16, <1>17, <1>18, <1>19, <1>20, <1>21, <1>22, <1>23,
     <1>24
  DEF Next, Start, Progress, Abort, DeadlockVictim, Terminated

------------------------------------------------------------------------------
(* The steps of Next, in the groups that the proofs below treat together. *)
BeginStep(p) ==
  \/ LoginCheck(p) \/ ResetBegin(p) \/ SuspendBegin(p)
  \/ \E t \in Token : \/ RefreshUsable(p, t) \/ RefreshReused(p, t)
                      \/ LogoutBegin(p, t) \/ ReplaceBegin(p, t)
LoginStep(p) == LoginAccessToken(p) \/ \E t \in Token : LoginRefreshToken(p, t)
RefreshStep(p) ==
  RefreshSuspended(p) \/ RefreshAllowed(p) \/ RefreshClaim(p) \/ RefreshClaimLost(p)
EndingStep(p) ==
  \/ DeleteAccess(p) \/ RevokeSelect(p) \/ RevokeStatement(p)
  \/ \E t \in Token : RevokeLock(p, t)
EndStep(p) == RevokeAutocommit(p) \/ RevokeCommit(p) \/ Rollback(p)
QuietStep ==
  Unsuspend \/ (\E t \in Token : Expire(t) \/ AccessExpire(t)) \/ UNCHANGED vars

LEMMA StepCases ==
  [Next]_vars =>
    \/ \E p \in Req : \/ BeginStep(p) \/ LoginStep(p) \/ RefreshStep(p)
                      \/ (\E u \in Token : RefreshIssue(p, u))
                      \/ EndingStep(p) \/ EndStep(p)
    \/ QuietStep
BY DEF Next, Start, Progress, Abort, DeadlockVictim, Terminated, BeginStep,
       LoginStep, RefreshStep, EndingStep, EndStep, QuietStep

LEMMA StepPc == TypeOK /\ PcMatchesOp /\ [Next]_vars => PcMatchesOp'
<1> SUFFICES ASSUME TypeOK, PcMatchesOp, [Next]_vars
             PROVE  PcMatchesOp'
  OBVIOUS
<1> USE DEF rows, locks, request, TypeOK, PcMatchesOp, Goto, Endings, Transactional
<1>1. ASSUME NEW p \in Req, BeginStep(p) PROVE PcMatchesOp'
  BY <1>1 DEF BeginStep, LoginCheck, ResetBegin, SuspendBegin, RefreshUsable,
              RefreshReused, LogoutBegin, ReplaceBegin, Begin
<1>2. ASSUME NEW p \in Req, LoginStep(p) PROVE PcMatchesOp'
  BY <1>2 DEF LoginStep, LoginAccessToken, LoginRefreshToken, Finish
<1>3. ASSUME NEW p \in Req, RefreshStep(p) PROVE PcMatchesOp'
  BY <1>3 DEF RefreshStep, RefreshSuspended, RefreshAllowed, RefreshClaim,
              RefreshClaimLost, Finish
<1>4. ASSUME NEW p \in Req, NEW u \in Token, RefreshIssue(p, u) PROVE PcMatchesOp'
  BY <1>4 DEF RefreshIssue, Finish
<1>5. ASSUME NEW p \in Req, EndingStep(p) PROVE PcMatchesOp'
  BY <1>5 DEF EndingStep, DeleteAccess, AfterDelete, RevokeSelect, RevokeStatement, RevokeLock
<1>6. ASSUME NEW p \in Req, EndStep(p) PROVE PcMatchesOp'
  BY <1>6 DEF EndStep, RevokeAutocommit, RevokeCommit, Rollback, Finish
<1>7. CASE QuietStep
  BY <1>7 DEF QuietStep, Unsuspend, Expire, AccessExpire, vars
<1> QED BY <1>1, <1>2, <1>3, <1>4, <1>5, <1>6, <1>7, StepCases

LEMMA StepArg == TypeOK /\ PcMatchesOp /\ ArgIssued /\ [Next]_vars => ArgIssued'
<1> SUFFICES ASSUME TypeOK, PcMatchesOp, ArgIssued, [Next]_vars
             PROVE  ArgIssued'
  OBVIOUS
<1> USE DEF rows, locks, request, TypeOK, PcMatchesOp, ArgIssued, Goto
<1>1. ASSUME NEW p \in Req, BeginStep(p) PROVE ArgIssued'
  BY <1>1 DEF BeginStep, LoginCheck, ResetBegin, SuspendBegin, RefreshUsable,
              RefreshReused, RefreshFind, LogoutBegin, ReplaceBegin, Begin, Usable
<1>2. ASSUME NEW p \in Req, LoginStep(p) PROVE ArgIssued'
  BY <1>2 DEF LoginStep, LoginAccessToken, LoginRefreshToken, Finish
<1>3. ASSUME NEW p \in Req, RefreshStep(p) PROVE ArgIssued'
  BY <1>3 DEF RefreshStep, RefreshSuspended, RefreshAllowed, RefreshClaim,
              RefreshClaimLost, Finish
<1>4. ASSUME NEW p \in Req, NEW u \in Token, RefreshIssue(p, u) PROVE ArgIssued'
  BY <1>4 DEF RefreshIssue, Finish
<1>5. ASSUME NEW p \in Req, EndingStep(p) PROVE ArgIssued'
  BY <1>5 DEF EndingStep, DeleteAccess, AfterDelete, RevokeSelect, RevokeStatement, RevokeLock
<1>6. ASSUME NEW p \in Req, EndStep(p) PROVE ArgIssued'
  BY <1>6 DEF EndStep, RevokeAutocommit, RevokeCommit, Rollback, Finish
<1>7. CASE QuietStep
  BY <1>7 DEF QuietStep, Unsuspend, Expire, AccessExpire, vars
<1> QED BY <1>1, <1>2, <1>3, <1>4, <1>5, <1>6, <1>7, StepCases

LEMMA StepRoots ==
  TypeOK /\ PcMatchesOp /\ ArgIssued /\ RootsIssued /\ [Next]_vars => RootsIssued'
<1> SUFFICES ASSUME TypeOK, PcMatchesOp, ArgIssued, RootsIssued, [Next]_vars
             PROVE  RootsIssued'
  OBVIOUS
<1> USE DEF rows, TypeOK, RootsIssued
<1>1. ASSUME NEW p \in Req, BeginStep(p) PROVE RootsIssued'
  BY <1>1 DEF BeginStep, LoginCheck, ResetBegin, SuspendBegin, RefreshUsable,
              RefreshReused, RefreshFind, LogoutBegin, ReplaceBegin
<1>2. ASSUME NEW p \in Req, LoginStep(p) PROVE RootsIssued'
  BY <1>2 DEF LoginStep, LoginAccessToken, LoginRefreshToken
<1>3. ASSUME NEW p \in Req, RefreshStep(p) PROVE RootsIssued'
  BY <1>3 DEF RefreshStep, RefreshSuspended, RefreshAllowed, RefreshClaim,
              RefreshClaimLost
<1>4. ASSUME NEW p \in Req, NEW u \in Token, RefreshIssue(p, u) PROVE RootsIssued'
  BY <1>4 DEF RefreshIssue, Rotated, FamilyOf, PcMatchesOp, ArgIssued
<1>5. ASSUME NEW p \in Req, EndingStep(p) PROVE RootsIssued'
  BY <1>5 DEF EndingStep, DeleteAccess, AfterDelete, RevokeSelect, RevokeStatement, RevokeLock
<1>6. ASSUME NEW p \in Req, EndStep(p) PROVE RootsIssued'
  BY <1>6 DEF EndStep, RevokeAutocommit, RevokeCommit, Rollback
<1>7. CASE QuietStep
  BY <1>7 DEF QuietStep, Unsuspend, Expire, AccessExpire, vars
<1> QED BY <1>1, <1>2, <1>3, <1>4, <1>5, <1>6, <1>7, StepCases

(* A row lock is only taken when it is free, and only its holder gives it  *)
(* up, by ending: no step of a request p takes a row from another one, q.  *)
LEMMA LocksKept ==
  ASSUME TypeOK, [Next]_vars, NEW q \in Req, pc'[q] \notin {"done", "failed"},
         NEW t \in Token, lock[t] = q
  PROVE  lock'[t] = q
<1> USE NoneAssumption DEF rows, locks, TypeOK, Grantable
<1>1. ASSUME NEW p \in Req, BeginStep(p) PROVE lock'[t] = q
  BY <1>1 DEF BeginStep, LoginCheck, ResetBegin, SuspendBegin, RefreshUsable,
              RefreshReused, RefreshFind, LogoutBegin, ReplaceBegin
<1>2. ASSUME NEW p \in Req, LoginStep(p) PROVE lock'[t] = q
  BY <1>2 DEF LoginStep, LoginAccessToken, LoginRefreshToken, Finish, Released, Goto
<1>3. ASSUME NEW p \in Req, RefreshStep(p) PROVE lock'[t] = q
  BY <1>3 DEF RefreshStep, RefreshSuspended, RefreshAllowed, RefreshClaim,
              RefreshClaimLost, Finish, Released, Goto
<1>4. ASSUME NEW p \in Req, NEW u \in Token, RefreshIssue(p, u) PROVE lock'[t] = q
  BY <1>4 DEF RefreshIssue, Finish, Released, Goto
<1>5. ASSUME NEW p \in Req, EndingStep(p) PROVE lock'[t] = q
  BY <1>5 DEF EndingStep, DeleteAccess, AfterDelete, RevokeSelect, RevokeStatement, RevokeLock
<1>6. ASSUME NEW p \in Req, EndStep(p) PROVE lock'[t] = q
  BY <1>6 DEF EndStep, RevokeAutocommit, RevokeCommit, Rollback, Finish, Released, Goto
<1>7. CASE QuietStep
  BY <1>7 DEF QuietStep, Unsuspend, Expire, AccessExpire, vars
<1> QED BY <1>1, <1>2, <1>3, <1>4, <1>5, <1>6, <1>7, StepCases

(* A row that a request is about to rotate is changed by no other request. *)
LEMMA StepClaimHeld == IInv /\ [Next]_vars => ClaimHeld'
<1> SUFFICES ASSUME IInv, [Next]_vars, NEW q \in Req, pc'[q] = "rotate"
             PROVE  lock'[arg'[q]] = q /\ arg'[q] \in issued' \ (rotated' \cup revoked')
  BY DEF ClaimHeld
<1> USE NoneAssumption DEF IInv, TypeOK
<1>1. CASE pc[q] = "rotate"
  <2> DEFINE t == arg[q]
  <2>1. t \in Token /\ lock[t] = q /\ t \in issued \ (rotated \cup revoked)
    BY <1>1 DEF ClaimHeld
  <2>2. lock'[t] = q
    BY <2>1, LocksKept
  <2> SUFFICES arg'[q] = t /\ t \in issued' \ (rotated' \cup revoked')
    BY <2>2
  <2> HIDE DEF t
  <2> USE <1>1, <2>1 DEF rows, request, Goto
  <2>3. ASSUME NEW p \in Req, BeginStep(p)
        PROVE  arg'[q] = arg[q] /\ t \in issued' \ (rotated' \cup revoked')
    BY <2>3 DEF BeginStep, LoginCheck, ResetBegin, SuspendBegin, RefreshUsable,
                RefreshReused, RefreshFind, LogoutBegin, ReplaceBegin, Begin
  <2>4. ASSUME NEW p \in Req, LoginStep(p)
        PROVE  arg'[q] = arg[q] /\ t \in issued' \ (rotated' \cup revoked')
    BY <2>4 DEF LoginStep, LoginAccessToken, LoginRefreshToken
  <2>5. ASSUME NEW p \in Req, RefreshStep(p)
        PROVE  arg'[q] = arg[q] /\ t \in issued' \ (rotated' \cup revoked')
    BY <2>5 DEF RefreshStep, RefreshSuspended, RefreshAllowed, RefreshClaim,
                RefreshClaimLost, Grantable
  <2>6. ASSUME NEW p \in Req, NEW u \in Token, RefreshIssue(p, u)
        PROVE  arg'[q] = arg[q] /\ t \in issued' \ (rotated' \cup revoked')
    <3>1. p # q
      BY <2>6 DEF RefreshIssue, Finish
    <3>2. arg[p] # t
      BY <2>6, <3>1 DEF RefreshIssue, ClaimHeld
    <3> QED BY <2>6, <3>2 DEF RefreshIssue, Rotated
  <2>7. ASSUME NEW p \in Req, EndingStep(p)
        PROVE  arg'[q] = arg[q] /\ t \in issued' \ (rotated' \cup revoked')
    BY <2>7 DEF EndingStep, DeleteAccess, AfterDelete, RevokeSelect, RevokeStatement, RevokeLock
  <2>8. ASSUME NEW p \in Req, EndStep(p)
        PROVE  arg'[q] = arg[q] /\ t \in issued' \ (rotated' \cup revoked')
    <3>1. p # q
      BY <2>8 DEF EndStep, RevokeAutocommit, RevokeCommit, Rollback, Finish
    <3>2. CASE Rollback(p)
      BY <3>2 DEF Rollback
    <3>3. CASE RevokeAutocommit(p) \/ RevokeCommit(p)
      <4>1. t \notin hit[p]
        BY <3>1, <3>3 DEF RevokeAutocommit, RevokeCommit, RowsHeld, HasLocks
      <4> QED BY <3>3, <4>1 DEF RevokeAutocommit, RevokeCommit
    <3> QED BY <2>8, <3>2, <3>3 DEF EndStep
  <2>9. CASE QuietStep
    BY <2>9 DEF t, QuietStep, Unsuspend, Expire, AccessExpire, vars
  <2> QED BY <2>3, <2>4, <2>5, <2>6, <2>7, <2>8, <2>9, StepCases DEF t
<1>2. CASE pc[q] # "rotate"
  <2>1. RefreshClaim(q)
    <3> USE <1>2 DEF Goto, Finish
    <3>1. ASSUME NEW p \in Req, BeginStep(p) PROVE FALSE
      BY <3>1 DEF BeginStep, LoginCheck, ResetBegin, SuspendBegin, RefreshUsable,
                  RefreshReused, LogoutBegin, ReplaceBegin, Begin
    <3>2. ASSUME NEW p \in Req, LoginStep(p) PROVE FALSE
      BY <3>2 DEF LoginStep, LoginAccessToken, LoginRefreshToken
    <3>3. ASSUME NEW p \in Req, RefreshStep(p) PROVE RefreshClaim(q)
      BY <3>3 DEF RefreshStep, RefreshSuspended, RefreshAllowed, RefreshClaim,
                  RefreshClaimLost
    <3>4. ASSUME NEW p \in Req, NEW u \in Token, RefreshIssue(p, u) PROVE FALSE
      BY <3>4 DEF RefreshIssue
    <3>5. ASSUME NEW p \in Req, EndingStep(p) PROVE FALSE
      BY <3>5 DEF EndingStep, DeleteAccess, AfterDelete, RevokeSelect, RevokeStatement, RevokeLock
    <3>6. ASSUME NEW p \in Req, EndStep(p) PROVE FALSE
      BY <3>6 DEF EndStep, RevokeAutocommit, RevokeCommit, Rollback
    <3>7. CASE QuietStep
      BY <3>7 DEF QuietStep, Unsuspend, Expire, AccessExpire, vars
    <3> QED BY <3>1, <3>2, <3>3, <3>4, <3>5, <3>6, <3>7, StepCases
  <2> QED
    BY <2>1 DEF RefreshClaim, Claimable, rows, request, PcMatchesOp, ArgIssued
<1> QED BY <1>1, <1>2

(* A transaction keeps the rows of its UPDATE until it ends. *)
LEMMA StepRowsHeld == IInv /\ [Next]_vars => RowsHeld'
<1> DEFINE Holds(q) == pc[q] = "commit" \/ (pc[q] = "delete" /\ op[q] = "reuse")
<1> SUFFICES ASSUME IInv, [Next]_vars, NEW q \in Req, Holds(q)'
             PROVE  HasLocks(q)'
  BY DEF RowsHeld
<1> USE NoneAssumption DEF IInv, TypeOK
<1>1. HasLocks(q) /\ hit'[q] = hit[q] => HasLocks(q)'
  BY LocksKept DEF HasLocks
<1> SUFFICES HasLocks(q) /\ hit'[q] = hit[q]
  BY <1>1
<1> USE DEF RowsHeld, rows, locks, request, Goto
<1>2. ASSUME NEW p \in Req, BeginStep(p) PROVE HasLocks(q) /\ hit'[q] = hit[q]
  BY <1>2 DEF BeginStep, LoginCheck, ResetBegin, SuspendBegin, RefreshUsable,
              RefreshReused, RefreshFind, LogoutBegin, ReplaceBegin, Begin
<1>3. ASSUME NEW p \in Req, LoginStep(p) PROVE HasLocks(q) /\ hit'[q] = hit[q]
  BY <1>3 DEF LoginStep, LoginAccessToken, LoginRefreshToken, Finish
<1>4. ASSUME NEW p \in Req, RefreshStep(p) PROVE HasLocks(q) /\ hit'[q] = hit[q]
  BY <1>4 DEF RefreshStep, RefreshSuspended, RefreshAllowed, RefreshClaim,
              RefreshClaimLost, Finish
<1>5. ASSUME NEW p \in Req, NEW u \in Token, RefreshIssue(p, u)
      PROVE HasLocks(q) /\ hit'[q] = hit[q]
  BY <1>5 DEF RefreshIssue, Finish
<1>6. ASSUME NEW p \in Req, EndingStep(p) PROVE HasLocks(q) /\ hit'[q] = hit[q]
  BY <1>6 DEF EndingStep, DeleteAccess, AfterDelete, RevokeSelect, RevokeStatement, RevokeLock,
              PcMatchesOp, Transactional
<1>7. ASSUME NEW p \in Req, EndStep(p) PROVE HasLocks(q) /\ hit'[q] = hit[q]
  BY <1>7 DEF EndStep, RevokeAutocommit, RevokeCommit, Rollback, Finish
<1>8. CASE QuietStep
  BY <1>8 DEF QuietStep, Unsuspend, Expire, AccessExpire, vars
<1> QED BY <1>2, <1>3, <1>4, <1>5, <1>6, <1>7, <1>8, StepCases

(* A family grows at its head only: the successor replaces the token that  *)
(* the request holds, and a sign-in starts a family of its own.            *)
LEMMA StepOneHead == IInv /\ [Next]_vars => OneHeadPerFamily'
<1> SUFFICES ASSUME IInv, [Next]_vars
             PROVE  OneHeadPerFamily'
  OBVIOUS
<1> USE DEF IInv, TypeOK, OneHeadPerFamily, rows
<1>1. ASSUME NEW p \in Req, BeginStep(p) PROVE OneHeadPerFamily'
  BY <1>1 DEF BeginStep, LoginCheck, ResetBegin, SuspendBegin, RefreshUsable,
              RefreshReused, RefreshFind, LogoutBegin, ReplaceBegin
<1>2. ASSUME NEW p \in Req, LoginStep(p) PROVE OneHeadPerFamily'
  BY <1>2 DEF LoginStep, LoginAccessToken, LoginRefreshToken, RootsIssued
<1>3. ASSUME NEW p \in Req, RefreshStep(p) PROVE OneHeadPerFamily'
  BY <1>3 DEF RefreshStep, RefreshSuspended, RefreshAllowed, RefreshClaim,
              RefreshClaimLost
<1>4. ASSUME NEW p \in Req, NEW u \in Token, RefreshIssue(p, u) PROVE OneHeadPerFamily'
  BY <1>4 DEF RefreshIssue, Rotated, FamilyOf, ClaimHeld
<1>5. ASSUME NEW p \in Req, EndingStep(p) PROVE OneHeadPerFamily'
  BY <1>5 DEF EndingStep, DeleteAccess, AfterDelete, RevokeSelect, RevokeStatement, RevokeLock
<1>6. ASSUME NEW p \in Req, EndStep(p) PROVE OneHeadPerFamily'
  BY <1>6 DEF EndStep, RevokeAutocommit, RevokeCommit, Rollback
<1>7. CASE QuietStep
  BY <1>7 DEF QuietStep, Unsuspend, Expire, AccessExpire, vars
<1> QED BY <1>1, <1>2, <1>3, <1>4, <1>5, <1>6, <1>7, StepCases

------------------------------------------------------------------------------
(* The inductive invariant. *)
THEOREM Inductive == Spec => []IInv
<1>1. Init => IInv
  <2>1. Init => TypeOK
    <3> SUFFICES ASSUME Init PROVE TypeOK
      OBVIOUS
    <3>1. hit \in [Req -> SUBSET issued] /\ doomed \in [Req -> SUBSET issued]
      BY DEF Init
    <3>2. old \in [Req -> SUBSET issued] /\ oldAccess \in [Req -> SUBSET issued]
      BY DEF Init
    <3>3. pc \in [Req -> PC] /\ op \in [Req -> Op] /\ arg \in [Req -> Token \cup {None}]
      BY DEF Init, PC, Op
    <3> QED BY <3>1, <3>2, <3>3 DEF Init, TypeOK
  <2>2. Init => PcMatchesOp /\ ArgIssued /\ ClaimHeld /\ RowsHeld
    BY DEF Init, PcMatchesOp, ArgIssued, ClaimHeld, RowsHeld
  <2>3. Init => RootsIssued /\ OneHeadPerFamily
    BY DEF Init, RootsIssued, OneHeadPerFamily
  <2> QED BY <2>1, <2>2, <2>3 DEF IInv
<1>2. IInv /\ [Next]_vars => IInv'
  BY StepType, StepPc, StepArg, StepRoots, StepClaimHeld, StepRowsHeld, StepOneHead
  DEF IInv
<1> QED BY <1>1, <1>2, PTL DEF Spec

(* The rows and requests of SessionTokens keep their types. *)
THEOREM TypeCorrect == Spec => []TypeOK
<1>1. IInv => TypeOK
  BY DEF IInv
<1> QED BY <1>1, Inductive, PTL

(* However many requests present the same tokens at once, with or without  *)
(* row locks on the SELECT: a family never has two tokens that were not    *)
(* exchanged, so no token has two successors.                              *)
THEOREM FamiliesAreChains == Spec => []OneHeadPerFamily
<1>1. IInv => OneHeadPerFamily
  BY DEF IInv
<1> QED BY <1>1, Inductive, PTL

------------------------------------------------------------------------------
(* Each step issues a root, exchanges one usable token, withdraws tokens,  *)
(* or leaves the abstract tokens alone.                                    *)
LEMMA StepRefines == IInv /\ [Next]_vars => [Tokens!Next]_(Tokens!tokenVars)
<1> SUFFICES ASSUME IInv, [Next]_vars
             PROVE  Tokens!Next \/ UNCHANGED Tokens!tokenVars
  OBVIOUS
<1> USE DEF IInv, TypeOK, rows, Tokens!tokenVars
<1>1. ASSUME NEW p \in Req, BeginStep(p) PROVE UNCHANGED Tokens!tokenVars
  BY <1>1 DEF BeginStep, LoginCheck, ResetBegin, SuspendBegin, RefreshUsable,
              RefreshReused, RefreshFind, LogoutBegin, ReplaceBegin
<1>2. ASSUME NEW p \in Req, LoginAccessToken(p) PROVE UNCHANGED Tokens!tokenVars
  BY <1>2 DEF LoginAccessToken
<1>3. ASSUME NEW p \in Req, NEW t \in Token, LoginRefreshToken(p, t)
      PROVE  Tokens!Issue(t)
  BY <1>3 DEF LoginRefreshToken, Tokens!Issue
<1>4. ASSUME NEW p \in Req, RefreshSuspended(p) PROVE Tokens!Withdraw({arg[p]})
  BY <1>4 DEF RefreshSuspended, Tokens!Withdraw
<1>5. ASSUME NEW p \in Req, RefreshAllowed(p) \/ RefreshClaim(p) \/ RefreshClaimLost(p)
      PROVE  UNCHANGED Tokens!tokenVars
  BY <1>5 DEF RefreshAllowed, RefreshClaim, RefreshClaimLost
<1>6. ASSUME NEW p \in Req, NEW u \in Token, RefreshIssue(p, u)
      PROVE  Tokens!Exchange(arg[p], u)
  BY <1>6 DEF RefreshIssue, Rotated, FamilyOf, ClaimHeld, Tokens!Exchange
<1>7. ASSUME NEW p \in Req, EndingStep(p) PROVE UNCHANGED Tokens!tokenVars
  BY <1>7 DEF EndingStep, DeleteAccess, AfterDelete, RevokeSelect, RevokeStatement, RevokeLock
<1>8. ASSUME NEW p \in Req, RevokeAutocommit(p) \/ RevokeCommit(p)
      PROVE  Tokens!Withdraw(hit[p])
  BY <1>8 DEF RevokeAutocommit, RevokeCommit, Tokens!Withdraw
<1>9. ASSUME NEW p \in Req, Rollback(p) PROVE UNCHANGED Tokens!tokenVars
  BY <1>9 DEF Rollback
<1>10. CASE QuietStep
  BY <1>10 DEF QuietStep, Unsuspend, Expire, AccessExpire, vars
<1>11. \A p \in Req : RefreshSuspended(p) => {arg[p]} \in SUBSET issued
  BY DEF RefreshSuspended, PcMatchesOp, ArgIssued
<1>12. \A p \in Req : pc[p] = "rotate" => arg[p] \in Token
  BY DEF ClaimHeld
<1>13. \A p \in Req : hit[p] \in SUBSET issued
  OBVIOUS
<1>14. ASSUME NEW p \in Req, NEW u \in Token, RefreshIssue(p, u) PROVE Tokens!Next
  BY <1>14, <1>6, <1>12 DEF RefreshIssue, Tokens!Next
<1>15. ASSUME NEW p \in Req, LoginStep(p) PROVE Tokens!Next \/ UNCHANGED Tokens!tokenVars
  BY <1>15, <1>2, <1>3 DEF LoginStep, Tokens!Next
<1>16. ASSUME NEW p \in Req, RefreshStep(p) PROVE Tokens!Next \/ UNCHANGED Tokens!tokenVars
  BY <1>16, <1>4, <1>5, <1>11 DEF RefreshStep, Tokens!Next
<1>17. ASSUME NEW p \in Req, EndStep(p) PROVE Tokens!Next \/ UNCHANGED Tokens!tokenVars
  BY <1>17, <1>8, <1>9, <1>13 DEF EndStep, Tokens!Next
<1> QED
  BY <1>1, <1>7, <1>10, <1>14, <1>15, <1>16, <1>17, StepCases

(* Refresh tokens are one-time tokens: SessionTokens implements the        *)
(* abstract specification with spent = rotated_at and void = revoked_at.   *)
THEOREM RefreshTokensAreOneTime == Spec => TokensAreOneTime
<1>1. Init => Tokens!Init
  BY DEF Init, Tokens!Init
<1> QED
  BY <1>1, StepRefines, Inductive, PTL DEF Spec, TokensAreOneTime, Tokens!Spec

------------------------------------------------------------------------------
(* Access tokens come into being once: the one that a sign-in is about to  *)
(* insert is in nobody's history.                                          *)
AccessOnce ==
  \A q \in Req : pc[q] = "access" =>
    /\ arg[q] \notin access
    /\ \A p \in Req : arg[q] \notin oldAccess[p]
    /\ \A p \in Req : pc[p] = "access" /\ arg[p] = arg[q] => p = q

(* From its UPDATE on, a request has every earlier refresh token that it   *)
(* is to end among its rows or finds it revoked.                           *)
RefreshCovered ==
  \A p \in Req : \A t \in old[p] : op[p] \in Endings /\ RefreshEnded(p, t) =>
    /\ pc[p] \in {"wait", "commit"} \/ (pc[p] = "delete" /\ op[p] = "reuse")
         => t \in revoked \cup hit[p]
    /\ pc[p] = "done" => t \in revoked

(* From its DELETE on, a request has every earlier access token that it is *)
(* to end among its rows or finds it gone.                                 *)
AccessCovered ==
  \A p \in Req : \A t \in oldAccess[p] : op[p] \in Endings /\ AccessEnded(p, t) =>
    /\ (IF op[p] = "reuse" THEN pc[p] = "commit" ELSE pc[p] \in {"select", "wait", "commit"})
         => t \notin access \/ (Transactional(p) /\ t \in doomed[p])
    /\ pc[p] = "done" => t \notin access

EInv == AccessOnce /\ RefreshCovered /\ AccessCovered

LEMMA StepAccessOnce == IInv /\ AccessOnce /\ [Next]_vars => AccessOnce'
<1> SUFFICES ASSUME IInv, AccessOnce, [Next]_vars
             PROVE  AccessOnce'
  OBVIOUS
<1> USE DEF IInv, TypeOK, AccessOnce, rows, request, Goto, Remember
<1>1. ASSUME NEW p \in Req, BeginStep(p) PROVE AccessOnce'
  BY <1>1 DEF BeginStep, LoginCheck, ResetBegin, SuspendBegin, RefreshUsable,
              RefreshReused, RefreshFind, LogoutBegin, ReplaceBegin, Begin
<1>2. ASSUME NEW p \in Req, LoginStep(p) PROVE AccessOnce'
  BY <1>2 DEF LoginStep, LoginAccessToken, LoginRefreshToken, ArgIssued, Finish
<1>3. ASSUME NEW p \in Req, RefreshStep(p) PROVE AccessOnce'
  BY <1>3 DEF RefreshStep, RefreshSuspended, RefreshAllowed, RefreshClaim,
              RefreshClaimLost, Finish
<1>4. ASSUME NEW p \in Req, NEW u \in Token, RefreshIssue(p, u) PROVE AccessOnce'
  BY <1>4 DEF RefreshIssue, ArgIssued, Finish
<1>5. ASSUME NEW p \in Req, EndingStep(p) PROVE AccessOnce'
  BY <1>5 DEF EndingStep, DeleteAccess, AfterDelete, RevokeSelect, RevokeStatement, RevokeLock
<1>6. ASSUME NEW p \in Req, EndStep(p) PROVE AccessOnce'
  BY <1>6 DEF EndStep, RevokeAutocommit, RevokeCommit, Rollback, Finish
<1>7. CASE QuietStep
  BY <1>7 DEF QuietStep, Unsuspend, Expire, AccessExpire, vars
<1> QED BY <1>1, <1>2, <1>3, <1>4, <1>5, <1>6, <1>7, StepCases

(* The family of an existing token never changes. *)
LEMMA FamilyFixed ==
  ASSUME TypeOK, [Next]_vars, NEW t \in issued
  PROVE  family'[t] = family[t]
<1> USE DEF TypeOK, rows
<1>1. ASSUME NEW p \in Req, BeginStep(p) PROVE family'[t] = family[t]
  BY <1>1 DEF BeginStep, LoginCheck, ResetBegin, SuspendBegin, RefreshUsable,
              RefreshReused, RefreshFind, LogoutBegin, ReplaceBegin
<1>2. ASSUME NEW p \in Req, LoginStep(p) PROVE family'[t] = family[t]
  BY <1>2 DEF LoginStep, LoginAccessToken, LoginRefreshToken
<1>3. ASSUME NEW p \in Req, RefreshStep(p) PROVE family'[t] = family[t]
  BY <1>3 DEF RefreshStep, RefreshSuspended, RefreshAllowed, RefreshClaim,
              RefreshClaimLost
<1>4. ASSUME NEW p \in Req, NEW u \in Token, RefreshIssue(p, u)
      PROVE  family'[t] = family[t]
  BY <1>4 DEF RefreshIssue
<1>5. ASSUME NEW p \in Req, EndingStep(p) PROVE family'[t] = family[t]
  BY <1>5 DEF EndingStep, DeleteAccess, AfterDelete, RevokeSelect, RevokeStatement, RevokeLock
<1>6. ASSUME NEW p \in Req, EndStep(p) PROVE family'[t] = family[t]
  BY <1>6 DEF EndStep, RevokeAutocommit, RevokeCommit, Rollback
<1>7. CASE QuietStep
  BY <1>7 DEF QuietStep, Unsuspend, Expire, AccessExpire, vars
<1> QED BY <1>1, <1>2, <1>3, <1>4, <1>5, <1>6, <1>7, StepCases

(* The condition of each UPDATE covers what the operation is to end. *)
LEMMA ScopeCovers ==
  /\ \A p \in Req, t \in Token :
       op[p] \in Endings /\ RefreshEnded(p, t) => InScope(p, t)
  /\ \A p \in Req, t \in access :
       op[p] \in Endings /\ AccessEnded(p, t) => t \in AccessRows(p)
BY DEF RefreshEnded, AccessEnded, InScope, AccessRows, Endings

LEMMA StepRefreshCovered == IInv /\ RefreshCovered /\ [Next]_vars => RefreshCovered'
<1> DEFINE From(q) == pc[q] \in {"wait", "commit"} \/ (pc[q] = "delete" /\ op[q] = "reuse")
<1> SUFFICES ASSUME IInv, RefreshCovered, [Next]_vars,
                    NEW q \in Req, NEW t \in old'[q],
                    op'[q] \in Endings, RefreshEnded(q, t)'
             PROVE  /\ From(q)' => t \in revoked' \cup hit'[q]
                    /\ pc'[q] = "done" => t \in revoked'
  BY DEF RefreshCovered
<1> DEFINE Goal == /\ From(q)' => t \in revoked' \cup hit'[q]
                   /\ pc'[q] = "done" => t \in revoked'
<1> USE DEF IInv, TypeOK, rows, request, Goto, Endings
<1>1. ASSUME op'[q] = op[q], arg'[q] = arg[q], old'[q] = old[q]
      PROVE  /\ t \in issued /\ op[q] \in Endings /\ RefreshEnded(q, t)
             /\ From(q) => t \in revoked \cup hit[q]
             /\ pc[q] = "done" => t \in revoked
  <2>1. t \in issued /\ family'[t] = family[t]
    BY <1>1, FamilyFixed
  <2>2. op[q] \in {"reuse", "replace"} => family'[arg[q]] = family[arg[q]]
    BY FamilyFixed DEF ArgIssued
  <2>3. RefreshEnded(q, t)
    BY <1>1, <2>1, <2>2 DEF RefreshEnded
  <2> QED BY <1>1, <2>1, <2>3 DEF RefreshCovered
<1>2. ASSUME NEW p \in Req, BeginStep(p) PROVE Goal
  <2>1. CASE p = q
    BY <1>2, <2>1 DEF BeginStep, LoginCheck, ResetBegin, SuspendBegin, RefreshUsable,
              RefreshReused, RefreshFind, LogoutBegin, ReplaceBegin, Begin
  <2>2. CASE p # q
    BY <1>1, <1>2, <2>2 DEF BeginStep, LoginCheck, ResetBegin, SuspendBegin,
              RefreshUsable, RefreshReused, RefreshFind, LogoutBegin, ReplaceBegin,
              Begin, Remember
  <2> QED BY <2>1, <2>2
<1>3. ASSUME NEW p \in Req, LoginStep(p) PROVE Goal
  BY <1>1, <1>3 DEF LoginStep, LoginAccessToken, LoginRefreshToken, Finish, PcMatchesOp
<1>4. ASSUME NEW p \in Req, RefreshStep(p) PROVE Goal
  <2>1. CASE p = q
    BY <1>1, <1>4, <2>1 DEF RefreshStep, RefreshSuspended, RefreshAllowed, RefreshClaim,
              RefreshClaimLost, Finish, PcMatchesOp
  <2>2. CASE p # q
    BY <1>1, <1>4, <2>2 DEF RefreshStep, RefreshSuspended, RefreshAllowed, RefreshClaim,
              RefreshClaimLost, Finish, Remember
  <2> QED BY <2>1, <2>2
<1>5. ASSUME NEW p \in Req, NEW u \in Token, RefreshIssue(p, u) PROVE Goal
  BY <1>1, <1>5 DEF RefreshIssue, Finish, PcMatchesOp
<1>6. ASSUME NEW p \in Req, EndingStep(p) PROVE Goal
  <2>1. op'[q] = op[q] /\ arg'[q] = arg[q] /\ old'[q] = old[q] /\ revoked' = revoked
    BY <1>6 DEF EndingStep, DeleteAccess, AfterDelete, RevokeSelect, RevokeStatement, RevokeLock
  <2>2. CASE RevokeSelect(p) /\ p = q
    <3>1. t \in revoked \/ t \in RefreshRows(q)
      BY <1>1, <2>1, ScopeCovers DEF RefreshRows
    <3> QED BY <2>2, <3>1 DEF RevokeSelect
  <2>3. CASE ~(RevokeSelect(p) /\ p = q)
    BY <1>1, <1>6, <2>1, <2>3 DEF EndingStep, DeleteAccess, AfterDelete, RevokeSelect, RevokeStatement,
                             RevokeLock
  <2> QED BY <2>2, <2>3
<1>7. ASSUME NEW p \in Req, EndStep(p) PROVE Goal
  BY <1>1, <1>7 DEF EndStep, RevokeAutocommit, RevokeCommit, Rollback, Finish
<1>8. CASE QuietStep
  BY <1>1, <1>8 DEF QuietStep, Unsuspend, Expire, AccessExpire, vars
<1> QED BY <1>2, <1>3, <1>4, <1>5, <1>6, <1>7, <1>8, StepCases

LEMMA StepAccessCovered ==
  IInv /\ AccessOnce /\ AccessCovered /\ [Next]_vars => AccessCovered'
<1> DEFINE From(q) == IF op[q] = "reuse" THEN pc[q] = "commit"
                                         ELSE pc[q] \in {"select", "wait", "commit"}
<1> SUFFICES ASSUME IInv, AccessOnce, AccessCovered, [Next]_vars,
                    NEW q \in Req, NEW t \in oldAccess'[q],
                    op'[q] \in Endings, AccessEnded(q, t)'
             PROVE  /\ From(q)' => t \notin access' \/ (Transactional(q)' /\ t \in doomed'[q])
                    /\ pc'[q] = "done" => t \notin access'
  BY DEF AccessCovered
<1> DEFINE Goal ==
      /\ From(q)' => t \notin access' \/ (Transactional(q)' /\ t \in doomed'[q])
      /\ pc'[q] = "done" => t \notin access'
<1> USE DEF IInv, TypeOK, rows, request, Goto, Endings
<1>1. ASSUME op'[q] = op[q], arg'[q] = arg[q], oldAccess'[q] = oldAccess[q]
      PROVE  /\ t \in issued /\ op[q] \in Endings /\ AccessEnded(q, t)
             /\ From(q) => t \notin access \/ (Transactional(q) /\ t \in doomed[q])
             /\ pc[q] = "done" => t \notin access
             /\ Transactional(q)' <=> Transactional(q)
  <2>1. t \in issued /\ family'[t] = family[t]
    BY <1>1, FamilyFixed
  <2>2. op[q] = "reuse" => family'[arg[q]] = family[arg[q]]
    BY FamilyFixed DEF ArgIssued
  <2>3. AccessEnded(q, t)
    BY <1>1, <2>1, <2>2 DEF AccessEnded
  <2> QED BY <1>1, <2>1, <2>3 DEF AccessCovered, Transactional
<1>2. ASSUME NEW p \in Req, BeginStep(p) PROVE Goal
  <2>1. CASE p = q
    BY <1>2, <2>1 DEF BeginStep, LoginCheck, ResetBegin, SuspendBegin, RefreshUsable,
              RefreshReused, RefreshFind, LogoutBegin, ReplaceBegin, Begin
  <2>2. CASE p # q
    BY <1>1, <1>2, <2>2 DEF BeginStep, LoginCheck, ResetBegin, SuspendBegin,
              RefreshUsable, RefreshReused, RefreshFind, LogoutBegin, ReplaceBegin,
              Begin, Remember
  <2> QED BY <2>1, <2>2
<1>3. ASSUME NEW p \in Req, LoginStep(p) PROVE Goal
  BY <1>1, <1>3 DEF LoginStep, LoginAccessToken, LoginRefreshToken, Finish, PcMatchesOp,
                    AccessOnce
<1>4. ASSUME NEW p \in Req, RefreshStep(p) PROVE Goal
  <2>1. CASE p = q
    BY <1>1, <1>4, <2>1 DEF RefreshStep, RefreshSuspended, RefreshAllowed, RefreshClaim,
              RefreshClaimLost, Finish, PcMatchesOp
  <2>2. CASE p # q
    BY <1>1, <1>4, <2>2 DEF RefreshStep, RefreshSuspended, RefreshAllowed, RefreshClaim,
              RefreshClaimLost, Finish, Remember
  <2> QED BY <2>1, <2>2
<1>5. ASSUME NEW p \in Req, NEW u \in Token, RefreshIssue(p, u) PROVE Goal
  BY <1>1, <1>5 DEF RefreshIssue, Finish, PcMatchesOp
<1>6. ASSUME NEW p \in Req, EndingStep(p) PROVE Goal
  <2>1. op'[q] = op[q] /\ arg'[q] = arg[q] /\ oldAccess'[q] = oldAccess[q]
    BY <1>6 DEF EndingStep, DeleteAccess, AfterDelete, RevokeSelect, RevokeStatement, RevokeLock
  <2>2. CASE DeleteAccess(p) /\ p = q
    <3>1. t \notin access \/ t \in AccessRows(q)
      BY <1>1, <2>1, ScopeCovers
    <3> QED BY <1>1, <2>1, <2>2, <3>1 DEF DeleteAccess, AfterDelete
  <2>3. CASE DeleteAccess(p) /\ p # q
    BY <1>1, <2>1, <2>3 DEF DeleteAccess
  <2>4. CASE ~DeleteAccess(p)
    BY <1>1, <1>6, <2>1, <2>4 DEF EndingStep, RevokeSelect, RevokeStatement, RevokeLock
  <2> QED BY <2>2, <2>3, <2>4
<1>7. ASSUME NEW p \in Req, EndStep(p) PROVE Goal
  BY <1>1, <1>7 DEF EndStep, RevokeAutocommit, RevokeCommit, Rollback, Finish,
                    PcMatchesOp, Transactional
<1>8. CASE QuietStep
  BY <1>1, <1>8 DEF QuietStep, Unsuspend, Expire, AccessExpire, vars
<1> QED BY <1>2, <1>3, <1>4, <1>5, <1>6, <1>7, <1>8, StepCases

(* Logout, password reset, suspension, the answer to a reused token and    *)
(* the replacement of a second factor end every session that existed when  *)
(* they began, whatever runs beside them.                                  *)
THEOREM EarlierSessionsEnd == Spec => []EndsEarlierSessions
<1>1. Init => EInv
  BY DEF Init, EInv, AccessOnce, RefreshCovered, AccessCovered
<1>2. IInv /\ EInv /\ [Next]_vars => EInv'
  BY StepAccessOnce, StepRefreshCovered, StepAccessCovered DEF EInv
<1>3. EInv => EndsEarlierSessions
  BY DEF EInv, RefreshCovered, AccessCovered, EndsEarlierSessions, Usable
<1> QED BY <1>1, <1>2, <1>3, Inductive, PTL DEF Spec
==============================================================================

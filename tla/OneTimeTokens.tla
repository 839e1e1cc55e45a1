---------------------------- MODULE OneTimeTokens ----------------------------
(***************************************************************************)
(* What a chain of rotating credentials promises, without any locking,     *)
(* transactions or requests: a token is issued as the root of a family or  *)
(* in exchange for another member of that family; it can be exchanged at   *)
(* most once; and a token that was exchanged or voided is never exchanged  *)
(* again.  SessionTokens implements this specification for the refresh     *)
(* tokens of an account.                                                   *)
(***************************************************************************)
CONSTANT Token

VARIABLES
  issued,   \* the tokens that exist
  spent,    \* those exchanged for a successor
  void,     \* those withdrawn
  family    \* family[t] is the root of the family of an issued token t

tokenVars == <<issued, spent, void, family>>

Init ==
  /\ issued = {} /\ spent = {} /\ void = {}
  /\ family = [t \in Token |-> t]

(* A new family starts with its root. *)
Issue(t) ==
  /\ t \notin issued
  /\ issued' = issued \cup {t}
  /\ family' = [family EXCEPT ![t] = t]
  /\ UNCHANGED <<spent, void>>

(* The holder of t exchanges it for u: t is spent, u joins the family. *)
Exchange(t, u) ==
  /\ t \in issued \ (spent \cup void)
  /\ u \notin issued
  /\ spent' = spent \cup {t}
  /\ issued' = issued \cup {u}
  /\ family' = [family EXCEPT ![u] = family[t]]
  /\ UNCHANGED void

(* Tokens are withdrawn, for whatever reason; none ever comes back. *)
Withdraw(S) ==
  /\ void' = void \cup S
  /\ UNCHANGED <<issued, spent, family>>

Next ==
  \/ \E t \in Token : Issue(t)
  \/ \E t, u \in Token : Exchange(t, u)
  \/ \E S \in SUBSET issued : Withdraw(S)

Spec == Init /\ [][Next]_tokenVars
==============================================================================

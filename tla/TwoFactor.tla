------------------------------ MODULE TwoFactor ------------------------------
(***************************************************************************)
(* The second factor of one account under concurrent requests: staging a   *)
(* secret, confirming it, disabling it, and spending one-time codes in a   *)
(* sign-in or a step-up.                                                   *)
(*                                                                         *)
(* A request works on the users row as it was when the request read it     *)
(* (its snapshot) and writes back the columns it changed.  A code is the   *)
(* pair of a secret and a time step.  A request whose password is wrong,   *)
(* whose code does not match or whose account is locked out changes        *)
(* nothing here; that it may not start stands for its refusal.             *)
(***************************************************************************)
EXTENDS Integers, FiniteSets

CONSTANTS
  Req,       \* the requests; each runs once, which bounds the model
  Secret,    \* the secrets that can be generated
  None,      \* a column that is null
  MaxStep,   \* bound: the last time step
  Enabled    \* bound: the operations that run

ASSUME NoneAssumption == None \notin Secret \cup Int
ASSUME RequestAssumption == IsFiniteSet(Req)
ASSUME MaxStepAssumption == MaxStep \in Nat \ {0}

VARIABLES
  row,        \* the second-factor columns of the users row
  step,       \* the current time step
  pc,         \* per request: what it does next
  op,         \* per request: its operation
  snap,       \* per request: the row as it read it
  code,       \* per request: the code that it presents
  staged,     \* the secrets that were generated
  accepted,   \* history: how often each code signed in or passed a step-up
  confirmed,  \* history: the secrets that were confirmed
  proven      \* history: the secrets of which each request spent a code

requests == <<pc, op, snap, code>>
history == <<staged, accepted, confirmed, proven>>
vars == <<row, step, requests, history>>

Step == 1..MaxStep
Code == [secret : Secret, step : Step]
Row == [active : Secret \cup {None}, pending : Secret \cup {None},
        last : Step \cup {None}]
NoCode == [secret |-> None, step |-> None]
NoRow == [active |-> None, pending |-> None, last |-> None]

TypeOK ==
  /\ row \in Row /\ step \in Step
  /\ pc \in [Req -> {"idle", "consume", "save", "done", "refused"}]
  /\ op \in [Req -> {"none", "enable", "verify", "disable", "login", "stepUp"}]
  /\ snap \in [Req -> Row] /\ code \in [Req -> Code \cup {NoCode}]
  /\ staged \subseteq Secret /\ confirmed \subseteq staged
  /\ {row.active, row.pending} \subseteq staged \cup {None}
  /\ accepted \in [Code -> 0..Cardinality(Req)]
  /\ proven \in [Req -> SUBSET Secret]

(* An account without a second factor, or with one that was confirmed. *)
Init ==
  /\ row \in {NoRow} \cup {[active |-> s, pending |-> None, last |-> None] : s \in Secret}
  /\ step = 1
  /\ pc = [p \in Req |-> "idle"] /\ op = [p \in Req |-> "none"]
  /\ snap = [p \in Req |-> NoRow] /\ code = [p \in Req |-> NoCode]
  /\ staged = {row.active} \ {None} /\ confirmed = staged
  /\ accepted = [c \in Code |-> 0]
  /\ proven = [p \in Req |-> {}]

------------------------------------------------------------------------------
(* match(): one step either side of now, and newer than the last one used. *)
Window(c) == c.step \in (step - 1)..(step + 1)
Matches(secret, c, after) ==
  /\ c.secret = secret /\ Window(c)
  /\ after \in Step => c.step > after

Start(p, o, c, label) ==
  /\ pc[p] = "idle" /\ o \in Enabled
  /\ pc' = [pc EXCEPT ![p] = label]
  /\ op' = [op EXCEPT ![p] = o]
  /\ code' = [code EXCEPT ![p] = c]
  /\ snap' = [snap EXCEPT ![p] = row]
  /\ UNCHANGED <<row, step, history>>

Goto(p, label) == pc' = [pc EXCEPT ![p] = label]

(* enableTwoFactor() of an account without a factor stages at once; of one *)
(* with a factor it is a step-up first, like disableTwoFactor().           *)
MatchesEither(c) == \E secret \in {row.active, row.pending} : Matches(secret, c, row.last)
MatchesActive(c) == Matches(row.active, c, row.last)

EnableFirst(p) == row.active = None /\ Start(p, "enable", NoCode, "save")
WithCode(p, o, c) ==
  o \in {"enable", "disable", "stepUp", "login"} /\ MatchesActive(c) /\ Start(p, o, c, "consume")
VerifyActive(p, c) == Matches(row.active, c, None) /\ Start(p, "verify", c, "save")
Verify(p, c) == Matches(row.pending, c, None) /\ Start(p, "verify", c, "save")

(* verifyAndConsume(): the UPDATE succeeds only if no newer step was used. *)
ConsumeAnyway(p) == p \in Req
Consumable(p) == row.last \in Step => row.last < code[p].step

Consume(p) ==
  /\ pc[p] = "consume" /\ Consumable(p)
  /\ row' = [row EXCEPT !.last = code[p].step]
  /\ snap' = [snap EXCEPT ![p].last = code[p].step]
  /\ accepted' = [accepted EXCEPT ![code[p]] = @ + 1]
  /\ proven' = [proven EXCEPT ![p] = @ \cup {code[p].secret}]
  /\ Goto(p, IF op[p] \in {"enable", "disable"} THEN "save" ELSE "done")
  /\ UNCHANGED <<step, op, code, staged, confirmed>>

ConsumeLost(p) ==
  /\ pc[p] = "consume" /\ ~Consumable(p)
  /\ Goto(p, "refused")
  /\ UNCHANGED <<row, step, op, snap, code, history>>

(* save() writes the columns whose value differs from the snapshot. *)
Written(p, column, value) ==
  IF snap[p][column] = value THEN row[column] ELSE value

SaveEnable(p, s) ==
  /\ pc[p] = "save" /\ op[p] = "enable" /\ s \notin staged
  /\ row' = [row EXCEPT !.pending = s]
  /\ staged' = staged \cup {s}
  /\ Goto(p, "done")
  /\ UNCHANGED <<step, op, snap, code, accepted, confirmed, proven>>

SaveVerify(p) ==
  /\ pc[p] = "save" /\ op[p] = "verify"
  /\ row' = [active |-> Written(p, "active", snap[p].pending),
             pending |-> Written(p, "pending", None),
             last |-> Written(p, "last", code[p].step)]
  /\ confirmed' = confirmed \cup {snap[p].pending}
  /\ Goto(p, "done")
  /\ UNCHANGED <<step, op, snap, code, staged, accepted, proven>>

SaveDisable(p) ==
  /\ pc[p] = "save" /\ op[p] = "disable"
  /\ row' = [row EXCEPT !.active = Written(p, "active", None),
                        !.pending = Written(p, "pending", None)]
  /\ Goto(p, "done")
  /\ UNCHANGED <<step, op, snap, code, history>>

Tick ==
  /\ step < MaxStep
  /\ step' = step + 1
  /\ UNCHANGED <<row, requests, history>>

Next ==
  \/ Tick
  \/ \E p \in Req :
       \/ EnableFirst(p) \/ Consume(p) \/ ConsumeLost(p)
       \/ SaveVerify(p) \/ SaveDisable(p)
       \/ \E c \in Code : Verify(p, c) \/ \E o \in Enabled : WithCode(p, o, c)
       \/ \E s \in Secret : SaveEnable(p, s)

Spec == Init /\ [][Next]_vars

------------------------------------------------------------------------------
(* TwoFactorCodeVerifier: "Codes are single use: the accepted time step is *)
(* stored per user and only strictly newer steps are accepted afterwards". *)
CodesAreSingleUse == \A c \in Code : accepted[c] <= 1

(* What holds of it while secrets are confirmed as well: concurrent        *)
(* requests never get two uses out of a code, except that each             *)
(* confirmation may set the last used step back once.                      *)
Confirmations == {p \in Req : op[p] = "verify" /\ pc[p] = "done"}
OneUsePerConfirmation ==
  \A c \in Code : accepted[c] <= 1 + Cardinality(Confirmations)

(* Only codes of secrets that were confirmed sign in or pass a step-up,    *)
(* although a secret is staged while the old factor goes on working.       *)
OnlyConfirmedFactors == \A p \in Req : proven[p] \subseteq confirmed
==============================================================================

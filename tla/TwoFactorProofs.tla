--------------------------- MODULE TwoFactorProofs ----------------------------
(***************************************************************************)
(* Proofs about TwoFactor for any number of requests, secrets and time     *)
(* steps.                                                                  *)
(***************************************************************************)
EXTENDS TwoFactor, FiniteSetTheorems, TLAPS

(* TypeOK without the count of uses, which needs the number of requests.   *)
Types ==
  /\ row \in Row /\ step \in Step
  /\ pc \in [Req -> {"idle", "consume", "save", "done", "refused"}]
  /\ op \in [Req -> {"none", "enable", "verify", "disable", "login", "stepUp"}]
  /\ snap \in [Req -> Row] /\ code \in [Req -> Code \cup {NoCode}]
  /\ staged \subseteq Secret /\ confirmed \subseteq staged
  /\ {row.active, row.pending} \subseteq staged \cup {None}
  /\ accepted \in [Code -> Nat]
  /\ proven \in [Req -> SUBSET Secret]

(* What a request has in hand at each of its statements: it spends a code  *)
(* of a confirmed secret, and saves what was staged when it read the row.  *)
InHand ==
  \A p \in Req :
    /\ {snap[p].active, snap[p].pending} \subseteq staged \cup {None}
    /\ snap[p].active \in confirmed \cup {None}
    /\ pc[p] = "consume" =>
         op[p] \in Enabled \ {"verify"} /\ code[p] \in Code /\ code[p].secret \in confirmed
    /\ pc[p] = "save" /\ op[p] = "verify" => code[p] \in Code /\ snap[p].pending \in Secret
    /\ pc[p] \in {"idle", "consume"} => proven[p] = {}

(* The factor that is active was confirmed.                                *)
ActiveConfirmed == row.active \in confirmed \cup {None}

IInv == Types /\ InHand /\ ActiveConfirmed /\ OnlyConfirmedFactors

(* A code at or below the last used step has one use more than it had      *)
(* confirmations to free it; one above it has not.                         *)
Spent(c) == row.last \in Step /\ c.step <= row.last
UsesFreed ==
  \A c \in Code : accepted[c] <= Cardinality(Confirmations) + (IF Spent(c) THEN 1 ELSE 0)

(* The requests that spent a given code: one use each.                     *)
Users(c) == {p \in Req : code[p] = c /\ proven[p] # {}}
OneUseEach == \A c \in Code : accepted[c] <= Cardinality(Users(c))

------------------------------------------------------------------------------
(* What starting a request changes. *)
LEMMA StartStep ==
  ASSUME IInv, NEW p \in Req, NEW o \in {"enable", "verify", "disable", "login", "stepUp"},
         NEW c \in Code \cup {NoCode}, NEW label \in {"consume", "save"}, Start(p, o, c, label),
         label = "consume" => o # "verify" /\ c \in Code /\ c.secret \in confirmed,
         label = "save" /\ o = "verify" => c \in Code /\ row.pending \in Secret
  PROVE  IInv'
<1> USE DEF history
<1>1. Types'
  BY DEF IInv, Types, Start
<1>2. InHand'
  BY DEF IInv, Types, InHand, ActiveConfirmed, Start
<1>3. ActiveConfirmed' /\ OnlyConfirmedFactors'
  BY DEF IInv, ActiveConfirmed, OnlyConfirmedFactors, Start
<1> QED BY <1>1, <1>2, <1>3 DEF IInv

(* Written() is the column as it is or as the request wants it. *)
LEMMA WrittenIs ==
  ASSUME NEW p, NEW column, NEW value
  PROVE  Written(p, column, value) \in {row[column], value}
BY DEF Written

LEMMA Initial == Init => IInv /\ UsesFreed /\ OneUseEach
<1> SUFFICES ASSUME Init PROVE IInv /\ UsesFreed /\ OneUseEach
  OBVIOUS
<1> USE MaxStepAssumption
<1>1. Types
  BY DEF Init, Types, Row, NoRow, Step, NoCode, Code
<1>2. InHand /\ ActiveConfirmed /\ OnlyConfirmedFactors
  BY DEF Init, InHand, ActiveConfirmed, OnlyConfirmedFactors, NoRow
<1>3. Confirmations = {} /\ \A c \in Code : Users(c) = {}
  BY DEF Init, Confirmations, Users
<1>4. UsesFreed /\ OneUseEach
  <2>1. \A c \in Code : accepted[c] = 0 /\ ~Spent(c)
    BY NoneAssumption DEF Init, Spent, NoRow, Step
  <2> QED BY <1>3, <2>1, FS_EmptySet DEF UsesFreed, OneUseEach
<1> QED BY <1>1, <1>2, <1>4 DEF IInv

(* Every step keeps the types, what each request has in hand, and that     *)
(* nothing but confirmed secrets is active or proven.                      *)
LEMMA Inductive == IInv /\ [Next]_vars => IInv'
<1> SUFFICES ASSUME IInv, [Next]_vars PROVE IInv'
  OBVIOUS
<1> USE DEF IInv
<1>1. ASSUME NEW p \in Req, EnableFirst(p) PROVE IInv'
  BY <1>1, StartStep DEF EnableFirst
<1>2. ASSUME NEW p \in Req, NEW c \in Code, NEW o \in Enabled, WithCode(p, o, c) PROVE IInv'
  <2>1. c.secret \in confirmed
    BY <1>2, NoneAssumption DEF WithCode, MatchesActive, Matches, ActiveConfirmed, Code
  <2> QED BY <1>2, <2>1, StartStep DEF WithCode
<1>3. ASSUME NEW p \in Req, NEW c \in Code, Verify(p, c) PROVE IInv'
  <2>1. row.pending \in Secret
    BY <1>3 DEF Verify, Matches, Code
  <2> QED BY <1>3, <2>1, StartStep DEF Verify
<1>4. ASSUME NEW p \in Req, Consume(p) PROVE IInv'
  <2>1. code[p] \in Code /\ code[p].secret \in confirmed /\ code[p].step \in Step
    BY <1>4 DEF Consume, InHand, Code
  <2>2. Types'
    <3>1. row' \in Row /\ row'.active = row.active /\ row'.pending = row.pending
      BY <1>4, <2>1 DEF Consume, Types, Row
    <3>2. snap' \in [Req -> Row]
      BY <1>4, <2>1 DEF Consume, Types, Row
    <3>3. accepted' \in [Code -> Nat] /\ proven' \in [Req -> SUBSET Secret]
      <4>1. accepted' = [accepted EXCEPT ![code[p]] = accepted[code[p]] + 1] /\ accepted \in [Code -> Nat]
        BY <1>4 DEF Consume, Types
      <4>2. accepted' \in [Code -> Nat]
        BY <4>1, <2>1
      <4>3. proven' \in [Req -> SUBSET Secret]
        BY <1>4, <2>1 DEF Consume, Types, Code
      <4> QED BY <4>2, <4>3
    <3>4. pc' \in [Req -> {"idle", "consume", "save", "done", "refused"}]
      BY <1>4 DEF Consume, Types, Goto
    <3> QED BY <1>4, <3>1, <3>2, <3>3, <3>4 DEF Consume, Types
  <2>3. InHand'
    BY <1>4, <2>1 DEF Consume, Types, InHand, Goto, Row
  <2>4. ActiveConfirmed' /\ OnlyConfirmedFactors'
    BY <1>4, <2>1 DEF Consume, Types, ActiveConfirmed, OnlyConfirmedFactors, Row
  <2> QED BY <2>2, <2>3, <2>4
<1>5. ASSUME NEW p \in Req, ConsumeLost(p) PROVE IInv'
  BY <1>5 DEF ConsumeLost, Types, InHand, ActiveConfirmed, OnlyConfirmedFactors, Goto, history
<1>6. ASSUME NEW p \in Req, NEW s \in Secret, SaveEnable(p, s) PROVE IInv'
  <2>1. Types'
    BY <1>6 DEF SaveEnable, Types, Goto, Row
  <2>2. InHand'
    BY <1>6 DEF SaveEnable, Types, InHand, Goto
  <2>3. ActiveConfirmed' /\ OnlyConfirmedFactors'
    BY <1>6 DEF SaveEnable, Types, ActiveConfirmed, OnlyConfirmedFactors, Row
  <2> QED BY <2>1, <2>2, <2>3
<1>7. ASSUME NEW p \in Req, SaveVerify(p) PROVE IInv'
  <2>1. snap[p].pending \in Secret \cap staged /\ code[p].step \in Step
    BY <1>7, NoneAssumption DEF SaveVerify, InHand, Code
  <2>2. /\ row'.active \in {row.active, snap[p].pending}
        /\ row'.pending \in {row.pending, None}
        /\ row'.last \in {row.last, code[p].step}
    BY <1>7 DEF SaveVerify, Written
  <2>3. Types'
    <3>1. row' = [active |-> row'.active, pending |-> row'.pending, last |-> row'.last]
      BY <1>7 DEF SaveVerify
    <3>2. row' \in Row
      BY <2>1, <2>2, <3>1 DEF Types, Row
    <3> QED BY <1>7, <2>1, <2>2, <3>2 DEF SaveVerify, Types, Goto
  <2>4. InHand'
    BY <1>7, <2>1 DEF SaveVerify, Types, InHand, Goto
  <2>5. ActiveConfirmed' /\ OnlyConfirmedFactors'
    BY <1>7, <2>2 DEF SaveVerify, ActiveConfirmed, OnlyConfirmedFactors
  <2> QED BY <2>3, <2>4, <2>5
<1>8. ASSUME NEW p \in Req, SaveDisable(p) PROVE IInv'
  <2>1. row'.active \in {row.active, None} /\ row'.pending \in {row.pending, None}
    BY <1>8 DEF SaveDisable, Written, Types, Row
  <2>2. Types'
    BY <1>8, <2>1 DEF SaveDisable, Types, Row, Goto, Written, history
  <2>3. InHand'
    BY <1>8 DEF SaveDisable, Types, InHand, Goto, history
  <2>4. ActiveConfirmed' /\ OnlyConfirmedFactors'
    BY <1>8, <2>1 DEF SaveDisable, ActiveConfirmed, OnlyConfirmedFactors, history
  <2> QED BY <2>2, <2>3, <2>4
<1>9. CASE Tick
  BY <1>9, MaxStepAssumption
  DEF Tick, Types, InHand, ActiveConfirmed, OnlyConfirmedFactors, Step, requests, history
<1>10. CASE UNCHANGED vars
  BY <1>10 DEF vars, Types, InHand, ActiveConfirmed, OnlyConfirmedFactors, requests, history
<1> QED
  BY <1>1, <1>2, <1>3, <1>4, <1>5, <1>6, <1>7, <1>8, <1>9, <1>10 DEF Next

------------------------------------------------------------------------------
LEMMA Counted ==
  /\ IsFiniteSet(Confirmations) /\ Cardinality(Confirmations) \in Nat
  /\ \A c : IsFiniteSet(Users(c)) /\ Cardinality(Users(c)) \in 0..Cardinality(Req)
<1>1. Confirmations \subseteq Req /\ \A c : Users(c) \subseteq Req
  BY DEF Confirmations, Users
<1> QED BY <1>1, RequestAssumption, FS_Subset, FS_CardinalityType

(* A step that is neither the spending of a code nor a confirmation leaves *)
(* the counts alone.                                                       *)
LEMMA OtherSteps ==
  ASSUME IInv, [Next]_vars, \A p \in Req : ~Consume(p) /\ ~SaveVerify(p)
  PROVE  /\ accepted' = accepted /\ row'.last = row.last
         /\ Confirmations' = Confirmations
         /\ \A c : Users(c)' = Users(c)
<1> USE DEF IInv, history, requests
<1>1. ASSUME NEW p \in Req, NEW o, NEW c, NEW label \in {"consume", "save"}, Start(p, o, c, label)
      PROVE  /\ accepted' = accepted /\ row' = row
             /\ Confirmations' = Confirmations
             /\ \A d : Users(d)' = Users(d)
  BY <1>1 DEF Start, Types, InHand, Confirmations, Users
<1>2. ASSUME NEW p \in Req, ConsumeLost(p) \/ SaveDisable(p) \/ \E s \in Secret : SaveEnable(p, s)
      PROVE  /\ accepted' = accepted /\ row'.last = row.last
             /\ Confirmations' = Confirmations
             /\ \A c : Users(c)' = Users(c)
  <2>1. accepted' = accepted /\ proven' = proven /\ code' = code /\ row'.last = row.last
    BY <1>2 DEF ConsumeLost, SaveDisable, SaveEnable, Types, Row
  <2>2. Confirmations' = Confirmations
    BY <1>2 DEF ConsumeLost, SaveDisable, SaveEnable, Goto, Types, InHand, Confirmations
  <2> QED BY <2>1, <2>2 DEF Users
<1>3. CASE Tick \/ UNCHANGED vars
  BY <1>3 DEF Tick, vars, Confirmations, Users
<1> QED
  BY <1>1, <1>2, <1>3 DEF Next, EnableFirst, WithCode, Verify

(* Each confirmation frees at most one use of a code: it may set the last  *)
(* used step back, and until the code is used again the step stays there.  *)
LEMMA UsesStep == IInv /\ IInv' /\ UsesFreed /\ [Next]_vars => UsesFreed'
<1> SUFFICES ASSUME IInv, IInv', UsesFreed, [Next]_vars, NEW c \in Code
             PROVE  accepted'[c] <= Cardinality(Confirmations') + (IF Spent(c)' THEN 1 ELSE 0)
  BY DEF UsesFreed
<1> USE DEF IInv, Types
<1>0. /\ Cardinality(Confirmations) \in Nat /\ IsFiniteSet(Confirmations)
      /\ c.step \in Int /\ accepted[c] \in Nat
  <2>1. c.step \in Int
    BY MaxStepAssumption DEF Code, Step
  <2>2. accepted[c] \in Nat
    BY DEF IInv, Types
  <2> QED BY Counted, <2>1, <2>2
<1>1. ASSUME NEW p \in Req, Consume(p)
      PROVE  accepted'[c] <= Cardinality(Confirmations') + (IF Spent(c)' THEN 1 ELSE 0)
  <2>1. Confirmations' = Confirmations
    BY <1>1 DEF Consume, Goto, InHand, Confirmations
  <2>2. code[p] \in Code /\ code[p].step \in Step /\ row'.last = code[p].step
    BY <1>1 DEF Consume, InHand, Code, Row
  <2>3. CASE c = code[p]
    <3>1. accepted'[c] = accepted[c] + 1 /\ Spent(c)' /\ ~Spent(c)
      BY <1>0, <1>1, <2>2, <2>3, MaxStepAssumption DEF Consume, Consumable, Spent, Step
    <3> QED BY <1>0, <2>1, <3>1 DEF UsesFreed
  <2>4. CASE c # code[p]
    <3>1. accepted'[c] = accepted[c]
      BY <1>1, <2>2, <2>4 DEF Consume
    <3>2. Spent(c) => Spent(c)'
      BY <1>0, <1>1, <2>2, MaxStepAssumption DEF Consume, Consumable, Spent, Step
    <3> QED BY <1>0, <2>1, <3>1, <3>2 DEF UsesFreed
  <2> QED BY <2>3, <2>4
<1>2. ASSUME NEW p \in Req, SaveVerify(p)
      PROVE  accepted'[c] <= Cardinality(Confirmations') + (IF Spent(c)' THEN 1 ELSE 0)
  <2>1. Confirmations' = Confirmations \cup {p} /\ p \notin Confirmations
    BY <1>2 DEF SaveVerify, Goto, Confirmations
  <2>2. Cardinality(Confirmations') = Cardinality(Confirmations) + 1
    BY <1>0, <2>1, FS_AddElement
  <2>3. accepted' = accepted
    BY <1>2 DEF SaveVerify
  <2> QED BY <1>0, <2>2, <2>3 DEF UsesFreed
<1>3. CASE \A p \in Req : ~Consume(p) /\ ~SaveVerify(p)
  BY <1>0, <1>3, OtherSteps DEF UsesFreed, Spent
<1> QED BY <1>1, <1>2, <1>3

LEMMA CountStep == IInv /\ OneUseEach /\ [Next]_vars => OneUseEach'
<1> SUFFICES ASSUME IInv, OneUseEach, [Next]_vars, NEW c \in Code
             PROVE  accepted'[c] <= Cardinality(Users(c)')
  BY DEF OneUseEach
<1> USE DEF IInv, Types
<1>0. IsFiniteSet(Users(c)) /\ Cardinality(Users(c)) \in Nat /\ accepted[c] \in Nat
  BY Counted
<1>1. ASSUME NEW p \in Req, Consume(p)
      PROVE  accepted'[c] <= Cardinality(Users(c)')
  <2>1. code[p] \in Code /\ proven[p] = {} /\ proven'[p] # {}
    BY <1>1 DEF Consume, InHand
  <2>2. CASE c = code[p]
    <3>1. Users(c)' = Users(c) \cup {p} /\ p \notin Users(c) /\ accepted'[c] = accepted[c] + 1
      BY <1>1, <2>1, <2>2 DEF Consume, Users
    <3>2. Cardinality(Users(c)') = Cardinality(Users(c)) + 1
      BY <1>0, <3>1, FS_AddElement
    <3> QED BY <1>0, <3>1, <3>2 DEF OneUseEach
  <2>3. CASE c # code[p]
    <3>1. Users(c)' = Users(c) /\ accepted'[c] = accepted[c]
      BY <1>1, <2>1, <2>3 DEF Consume, Users
    <3> QED BY <3>1 DEF OneUseEach
  <2> QED BY <2>2, <2>3
<1>2. ASSUME NEW p \in Req, SaveVerify(p)
      PROVE  accepted'[c] <= Cardinality(Users(c)')
  BY <1>2 DEF SaveVerify, Users, OneUseEach
<1>3. CASE \A p \in Req : ~Consume(p) /\ ~SaveVerify(p)
  BY <1>3, OtherSteps DEF OneUseEach
<1> QED BY <1>1, <1>2, <1>3

------------------------------------------------------------------------------
THEOREM Invariant == Spec => [](IInv /\ UsesFreed /\ OneUseEach)
<1>1. IInv /\ UsesFreed /\ OneUseEach /\ [Next]_vars => (IInv /\ UsesFreed /\ OneUseEach)'
  BY Inductive, UsesStep, CountStep
<1> QED BY Initial, <1>1, PTL DEF Spec

(* Type correctness, for any number of requests: also that no code was     *)
(* accepted more often than there are requests.                            *)
THEOREM TypeCorrect == Spec => []TypeOK
<1>1. IInv /\ OneUseEach => TypeOK
  <2> SUFFICES ASSUME IInv, OneUseEach PROVE accepted \in [Code -> 0..Cardinality(Req)]
    BY DEF IInv, Types, TypeOK
  <2>1. ASSUME NEW c \in Code PROVE accepted[c] \in 0..Cardinality(Req)
    <3>1. Cardinality(Users(c)) \in 0..Cardinality(Req) /\ Cardinality(Req) \in Nat
      BY Counted, RequestAssumption, FS_CardinalityType
    <3> QED BY <3>1 DEF IInv, Types, OneUseEach
  <2> QED BY <2>1 DEF IInv, Types
<1> QED BY <1>1, Invariant, PTL

(* Only codes of confirmed secrets sign in or pass a step-up.              *)
THEOREM FactorsAreConfirmed == Spec => []OnlyConfirmedFactors
<1>1. IInv => OnlyConfirmedFactors
  BY DEF IInv
<1> QED BY <1>1, Invariant, PTL

(* A code is accepted once, and once more for each confirmation.           *)
THEOREM UsesAreCounted == Spec => []OneUsePerConfirmation
<1>1. UsesFreed /\ IInv => OneUsePerConfirmation
  <2> SUFFICES ASSUME UsesFreed, IInv, NEW c \in Code
               PROVE  accepted[c] <= 1 + Cardinality(Confirmations)
    BY DEF OneUsePerConfirmation
  <2>1. Cardinality(Confirmations) \in Nat /\ accepted[c] \in Nat
    BY Counted DEF IInv, Types
  <2> QED BY <2>1 DEF UsesFreed
<1> QED BY <1>1, Invariant, PTL
==============================================================================

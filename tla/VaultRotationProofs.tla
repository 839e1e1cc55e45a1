------------------------- MODULE VaultRotationProofs --------------------------
(***************************************************************************)
(* Proofs about VaultRotation for any number of devices, records, keys,    *)
(* edits and seconds.                                                      *)
(***************************************************************************)
EXTENDS VaultRotation, TLAPS

(* What was read of the account: consistent in itself, no newer than the   *)
(* account, and equal to it if the versions agree.                         *)
SoundFor(m, u) ==
  /\ m.envelope = m.key
  /\ m.version <= u.version
  /\ m.version = u.version => m = u
Sound(m) == SoundFor(m, user)

(* The versions are fewer than the keys, so the bound on keys bounds them. *)
Account ==
  /\ user.envelope = user.key /\ user.key <= keys
  /\ user.version <= user.key + (IF user.legacy THEN 0 ELSE 1)

Devices ==
  \A d \in Device :
    /\ material[d] # None => Sound(material[d])
    /\ Rebinding(d) => /\ rebind[d].version <= user.version
                       /\ rebind[d].version = user.version => rebind[d].key = user.key
    /\ rebind[d] # None /\ ~Rebinding(d) => Sound(rebind[d])

(* A rotation that can still be accepted has a newer key than the account, *)
(* and one that was accepted is the account or was followed by another.    *)
NewMaterial(d) ==
  [key |-> rotation[d].key, envelope |-> rotation[d].key, legacy |-> FALSE,
   version |-> NextVersion(rotation[d].from.version)]
HasLock(d) == rotation[d].phase \in {"locked", "deleted"}
Rotations ==
  \A d \in Device : rotation[d] # Idle =>
    /\ Sound(rotation[d].from) /\ rotation[d].key <= keys
    /\ rotation[d].from.version = user.version => user.key < rotation[d].key
    /\ rotation[d].phase = "reply" => rotation[d].from.version < user.version /\ Sound(NewMaterial(d))

(* While a rotation holds the users row, nobody touches what it compared.  *)
Locks ==
  \A d \in Device : HasLock(d) =>
    /\ userLock = d /\ rotation[d].from.version = user.version
    /\ \A r \in Record : /\ (records[r] \in Row) <=> (snapshot[d][r] \in Row)
                         /\ records[r] \in Row => records[r].stamp = snapshot[d][r].stamp

(* A rotation deletes the access tokens that it found, and what a device   *)
(* with a token holds is of the account, unless its history says why not.  *)
Current(d) ==
  /\ material[d] # None => material[d].key = user.key
  /\ write[d] # None => write[d].key \in {None, user.key}
SessionFits(d) ==
  /\ signIn[d] = "row" => d \notin access /\ (behind[d] = "no" => material[d] = None)
  /\ material[d] = None => write[d] = None /\ (signIn[d] = "no" => d \notin access)
  /\ d \in refreshable => d \in access \/ signIn[d] = "row"
  /\ d \in access /\ behind[d] = "no" => Current(d)
Deleting(d) ==
  rotation[d].phase = "deleted" =>
    rotation[d].peers \subseteq rotation[d].doomed \cap access /\ d \notin rotation[d].doomed
Sessions == \A d \in Device : SessionFits(d) /\ Deleting(d)

IInv == TypeOK /\ Account /\ Devices /\ Rotations /\ Locks /\ Sessions

RotationSet ==
  [phase : Phases, key : Key, from : Material, peers : SUBSET Device, doomed : SUBSET Device]

------------------------------------------------------------------------------
(* The two forms of a re-binding in flight are told apart by their fields. *)
LEMMA RebindForms ==
  ASSUME TypeOK, NEW d \in Device
  PROVE  /\ Rebinding(d) => rebind[d] \in [version : 0..(MaxKey + 1), key : Key]
         /\ rebind[d] # None /\ ~Rebinding(d) => rebind[d] \in Material
<1>1. \A x \in Material : "legacy" \in DOMAIN x
  BY DEF Material
<1>2. \A x \in [version : 0..(MaxKey + 1), key : Key] : "legacy" \notin DOMAIN x
  OBVIOUS
<1> QED BY <1>1, <1>2 DEF TypeOK, Rebinding

(* A rotation that is at some phase is a record of its fields.             *)
LEMMA RotationForms ==
  ASSUME TypeOK, NEW d \in Device
  PROVE  /\ rotation[d].phase \in Phases => rotation[d] \in RotationSet /\ rotation[d] # Idle
         /\ rotation[d] # Idle => rotation[d] \in RotationSet /\ rotation[d].phase \in Phases
BY DEF TypeOK, RotationSet, Idle, Phases

LEMMA AccountIsNotNone ==
  ASSUME TypeOK
  PROVE  user # None /\ \A m \in Material : m # None
BY MaterialAssumption, BoundAssumption DEF TypeOK, Material, Key

LEMMA Initial == Init => IInv
<1> SUFFICES ASSUME Init PROVE IInv
  OBVIOUS
<1> USE BoundAssumption
<1>1. user \in Material /\ user.key = 0 /\ user.envelope = 0 /\ user.version = 0
  BY DEF Init, Material, Key
<1>2. TypeOK
  <2>1. records \in [Record -> Stored]
    BY DEF Init, Stored, Row, Key, Time
  <2>2. material \in [Device -> Material \cup {None}] /\ key = [d \in Device |-> None]
    BY <1>1 DEF Init
  <2>3. access \subseteq Device /\ refreshable \subseteq Device /\ behind \in [Device -> Reasons]
    BY DEF Init, Reasons
  <2>4. snapshot \in [Device -> [Record -> Stored]] /\ rotation \in [Device -> {Idle}]
    BY DEF Init, Unread, Stored
  <2>5. signIn \in [Device -> {"no"}] /\ write \in [Device -> {None}] /\ rebind \in [Device -> {None}]
    BY DEF Init
  <2> QED BY <1>1, <2>1, <2>2, <2>3, <2>4, <2>5 DEF Init, TypeOK, Time
<1>3. Account
  BY <1>1 DEF Init, Account
<1>4. Devices
  BY <1>1 DEF Init, Devices, Sound, SoundFor, Rebinding
<1>5. Rotations /\ Locks
  BY DEF Init, Rotations, Locks, HasLock, Idle
<1>6. Sessions
  BY <1>1, <1>2, AccountIsNotNone DEF Init, Sessions, SessionFits, Current, Deleting, Idle
<1> QED BY <1>2, <1>3, <1>4, <1>5, <1>6 DEF IInv

------------------------------------------------------------------------------
(* setMaterial() keeps the types. *)
LEMMA SetMaterialType ==
  ASSUME TypeOK, NEW d \in Device, NEW m \in Material, SetMaterial(d, m)
  PROVE  /\ material' \in [Device -> Material \cup {None}]
         /\ key' \in [Device -> Key \cup {None}]
         /\ \A e \in Device : key'[e] # None => material'[e] # None /\ key'[e] = material'[e].key
         /\ material'[d] = m /\ \A e \in Device \ {d} : material'[e] = material[e]
<1>0. m # None /\ m.key \in Key
  BY AccountIsNotNone DEF Material
<1>1. material' = [material EXCEPT ![d] = m] /\ material \in [Device -> Material \cup {None}] /\ m # None
  BY AccountIsNotNone DEF TypeOK, SetMaterial
<1>2. material[d] # None /\ material[d].key # m.key => key'[d] = None
  BY DEF TypeOK, SetMaterial
<1>3. ~(material[d] # None /\ material[d].key # m.key) => key'[d] \in {None, m.key}
  BY DEF TypeOK, SetMaterial
<1>4. \A e \in Device \ {d} : key'[e] = key[e]
  BY DEF TypeOK, SetMaterial
<1>5. key' \in [Device -> Key \cup {None}]
  BY <1>0 DEF TypeOK, SetMaterial
<1> QED BY <1>0, <1>1, <1>2, <1>3, <1>4, <1>5 DEF TypeOK

(* What a device reads, or an answer that it takes up, keeps the history.  *)
LEMMA BehindType ==
  ASSUME TypeOK, NEW d \in Device
  PROVE  /\ Renewed(d) => behind' \in [Device -> Reasons]
         /\ \A k : Answered(d, k) => behind' \in [Device -> Reasons]
<1>1. Renewed(d) => behind' \in [Device -> Reasons]
  BY DEF Renewed, TypeOK, Reasons
<1>2. behind' = [behind EXCEPT ![d] = "answer"] => behind' \in [Device -> Reasons]
  BY DEF TypeOK, Reasons
<1> QED BY <1>1, <1>2 DEF Answered

LEMMA StepType == IInv /\ [Next]_vars => TypeOK'
<1> SUFFICES ASSUME IInv, [Next]_vars PROVE TypeOK'
  OBVIOUS
<1> USE BoundAssumption DEF server, clocks, client, rotating
<1>t. TypeOK
  BY DEF IInv
<1>1. CASE Tick \/ UNCHANGED vars
  BY <1>t, <1>1 DEF Tick, vars, TypeOK, Time
<1>2. ASSUME NEW d \in Device, SignInRefreshToken(d) \/ SignInAccessToken(d) PROVE TypeOK'
  BY <1>t, <1>2 DEF SignInRefreshToken, SignInAccessToken, TypeOK
<1>3. ASSUME NEW d \in Device, SignInResponse(d) PROVE TypeOK'
  <2>1. user \in Material /\ SetMaterial(d, user)
    BY <1>t, <1>3 DEF TypeOK, SignInResponse
  <2>2. behind' \in [Device -> Reasons]
    BY <1>t, <1>3, BehindType DEF SignInResponse
  <2> QED BY <1>t, <1>3, <2>1, <2>2, SetMaterialType DEF SignInResponse, TypeOK
<1>4. ASSUME NEW d \in Device, Reload(d) PROVE TypeOK'
  <2>1. user \in Material /\ user # None
    BY <1>t, AccountIsNotNone DEF TypeOK
  <2>2. behind' \in [Device -> Reasons]
    BY <1>t, <1>4, BehindType DEF Reload
  <2> QED BY <1>t, <1>4, <2>1, <2>2 DEF Reload, TypeOK
<1>5. ASSUME NEW d \in Device, SessionEnds(d) \/ Lock(d) PROVE TypeOK'
  <2>1. CASE SessionEnds(d)
    <3>1. behind' \in [Device -> Reasons]
      BY <1>t, <2>1 DEF SessionEnds, TypeOK, Reasons
    <3>2. /\ key' \in [Device -> Key \cup {None}] /\ material' \in [Device -> Material \cup {None}]
          /\ \A e \in Device : key'[e] # None => material'[e] # None /\ key'[e] = material'[e].key
      BY <1>t, <2>1 DEF SessionEnds, WipedKey, TypeOK
    <3> QED BY <1>t, <2>1, <3>1, <3>2 DEF SessionEnds, TypeOK
  <2>2. CASE Lock(d)
    BY <1>t, <2>2 DEF Lock, TypeOK
  <2> QED BY <1>5, <2>1, <2>2
<1>u. ASSUME NEW d \in Device, Unlock(d) PROVE TypeOK'
  <2>1. material[d] \in Material /\ material[d].key \in Key
    BY <1>t, <1>u DEF Unlock, TypeOK, Material
  <2>2. rebind' \in [Device -> {None} \cup Material \cup [version : 0..(MaxKey + 1), key : Key]]
    BY <1>t, <1>u, <2>1 DEF Unlock, TypeOK, Material
  <2>3. /\ key' \in [Device -> Key \cup {None}]
        /\ \A e \in Device : key'[e] # None => material[e] # None /\ key'[e] = material[e].key
    BY <1>t, <1>u, <2>1 DEF Unlock, TypeOK
  <2> QED BY <1>t, <1>u, <2>2, <2>3 DEF Unlock, TypeOK
<1>6. ASSUME NEW d \in Device, RebindApply(d) PROVE TypeOK'
  <2>1. rebind[d].key \in Key /\ user.version + 1 \in 0..(MaxKey + 1)
    BY <1>t, <1>6, RebindForms DEF RebindApply, IInv, Account, TypeOK, Material, Key
  <2>2. user' \in Material
    BY <1>t, <1>6, <2>1 DEF RebindApply, NextVersion, TypeOK, Material
  <2> QED BY <1>t, <1>6, <2>2 DEF RebindApply, TypeOK
<1>7. ASSUME NEW d \in Device, RebindFail(d) PROVE TypeOK'
  BY <1>t, <1>7 DEF RebindFail, TypeOK
<1>8. ASSUME NEW d \in Device, RebindReply(d) PROVE TypeOK'
  <2>1. rebind[d] \in Material
    BY <1>t, <1>8, RebindForms DEF RebindReply
  <2>2. CASE SetMaterial(d, rebind[d]) /\ Answered(d, rebind[d].key)
    <3>1. behind' \in [Device -> Reasons]
      BY <1>t, <2>2, BehindType
    <3> QED BY <1>t, <1>8, <2>1, <2>2, <3>1, SetMaterialType DEF RebindReply, TypeOK
  <2>3. CASE UNCHANGED <<material, key, behind>>
    BY <1>t, <1>8, <2>3 DEF RebindReply, TypeOK
  <2> QED BY <1>8, <2>2, <2>3 DEF RebindReply
<1>9. ASSUME NEW d \in Device, NEW r \in Record, Save(d, r) \/ Delete(d, r) PROVE TypeOK'
  <2>1. PICK k \in Key \cup {None} : Send(d, r, k)
    BY <1>t, <1>9 DEF Save, Delete, TypeOK, Material
  <2>2. edits' \in 0..MaxEdit /\ (IF k = None THEN 0 ELSE edits + 1) \in 0..MaxEdit
    BY <1>t, <2>1 DEF Send, TypeOK
  <2> QED BY <1>t, <2>1, <2>2 DEF Send, TypeOK
<1>10. ASSUME NEW d \in Device, WriteAuthenticate(d) \/ WriteFail(d) PROVE TypeOK'
  <2> DEFINE Requests == {None} \cup
                [id : Record, key : Key \cup {None}, body : 0..MaxEdit, authenticated : BOOLEAN]
  <2>1. write \in [Device -> Requests]
    BY <1>t DEF TypeOK
  <2>2. write' \in [Device -> Requests]
    BY <1>10, <2>1 DEF WriteAuthenticate, WriteFail
  <2> QED BY <1>t, <1>10, <2>2 DEF WriteAuthenticate, WriteFail, TypeOK
<1>11. ASSUME NEW d \in Device, WriteApply(d) PROVE TypeOK'
  <2>1. records' \in [Record -> Stored]
    BY <1>t, <1>11 DEF WriteApply, TypeOK, Stored, Row
  <2> QED BY <1>t, <1>11, <2>1 DEF WriteApply, TypeOK
<1>12. ASSUME NEW d \in Device, RotateBegin(d) PROVE TypeOK'
  <2>1. keys' \in 0..MaxKey /\ keys + 1 \in Key /\ material[d] \in Material
    BY <1>t, <1>12 DEF RotateBegin, TypeOK, Key
  <2>2. rotation' \in [Device -> {Idle} \cup RotationSet]
    BY <1>t, <1>12, <2>1 DEF RotateBegin, TypeOK, RotationSet, Phases
  <2> QED BY <1>t, <1>12, <2>1, <2>2 DEF RotateBegin, TypeOK, RotationSet
<1>13. ASSUME NEW d \in Device, NEW r \in Record, RotateRead(d, r) PROVE TypeOK'
  BY <1>t, <1>13 DEF RotateRead, Listed, TypeOK, Stored
<1>14. ASSUME NEW d \in Device,
              RotateSend(d) \/ RotateAuthenticate(d) \/ RotateLock(d) \/ RotateDelete(d)
       PROVE  TypeOK'
  <2>1. rotation[d] \in RotationSet
    BY <1>t, <1>14, RotationForms
    DEF RotateSend, RotateAuthenticate, RotateLock, RotateDelete, Phase, Phases
  <2>2. access \ {d} \in SUBSET Device /\ rotation \in [Device -> {Idle} \cup RotationSet]
    BY <1>t DEF TypeOK, RotationSet
  <2>3. ASSUME RotateSend(d) \/ RotateAuthenticate(d) PROVE rotation' \in [Device -> {Idle} \cup RotationSet]
    <3>1. PICK f \in Phases : rotation' = [rotation EXCEPT ![d].phase = f]
      BY <2>3 DEF RotateSend, RotateAuthenticate, Phase, Phases
    <3> QED BY <2>1, <2>2, <3>1 DEF RotationSet
  <2>4. ASSUME RotateLock(d) PROVE rotation' \in [Device -> {Idle} \cup RotationSet]
    BY <2>1, <2>2, <2>4 DEF RotateLock, Phases, RotationSet
  <2>5. ASSUME RotateDelete(d) PROVE rotation' \in [Device -> {Idle} \cup RotationSet]
    BY <2>1, <2>2, <2>5 DEF RotateDelete, Doomed, Phases, RotationSet
  <2>6. rotation' \in [Device -> {Idle} \cup RotationSet]
    BY <1>14, <2>3, <2>4, <2>5
  <2> QED BY <1>t, <1>14, <2>6
      DEF RotateSend, RotateAuthenticate, RotateLock, RotateDelete, TypeOK, RotationSet
<1>15. ASSUME NEW d \in Device, RotateCommit(d) PROVE TypeOK'
  <2>1. /\ rotation[d] \in RotationSet /\ rotation[d] # Idle /\ HasLock(d)
        /\ rotation' = [rotation EXCEPT ![d].phase = "reply"]
    BY <1>t, <1>15, RotationForms DEF RotateCommit, Phase, Phases, HasLock
  <2>2. rotation' \in [Device -> {Idle} \cup RotationSet]
    BY <1>t, <2>1 DEF TypeOK, RotationSet, Phases
  <2>3. rotation[d].key \in Key /\ user.version + 1 \in 0..(MaxKey + 1)
    BY <1>t, <2>1 DEF IInv, Account, Rotations, Locks, TypeOK, Material, Key, RotationSet
  <2>4. user' \in Material
    BY <1>15, <2>3 DEF RotateCommit, NextVersion, Material
  <2>5. records' \in [Record -> Stored]
    <3>1. \A r \in Record : records[r] \in Row => snapshot[d][r] \in Row
      BY <2>1 DEF IInv, Locks
    <3>2. \A r \in Record : records[r] \in Row => records'[r] \in Row
      BY <1>t, <1>15, <2>3, <3>1 DEF RotateCommit, TypeOK, Row
    <3>3. \A r \in Record : records[r] \notin Row => records'[r] = records[r]
      BY <1>15 DEF RotateCommit
    <3> QED BY <1>t, <1>15, <3>2, <3>3 DEF RotateCommit, TypeOK, Stored
  <2>6. access' \subseteq Device /\ refreshable' \subseteq Device /\ behind' \in [Device -> Reasons]
    BY <1>t, <1>15, <2>1 DEF RotateCommit, TypeOK, RotationSet, Reasons
  <2> QED BY <1>t, <1>15, <2>2, <2>4, <2>5, <2>6 DEF RotateCommit, TypeOK, RotationSet
<1>16. ASSUME NEW d \in Device, RotateReply(d) PROVE TypeOK'
  <2>1. rotation[d] \in RotationSet /\ rotation[d] # Idle
    BY <1>t, <1>16, RotationForms DEF RotateReply, Phases
  <2>2. rotation[d].from.version + 1 \in 0..(MaxKey + 1)
    <3>1. rotation[d].phase = "reply"
      BY <1>16 DEF RotateReply
    <3>2. rotation[d].from.version < user.version
      BY <2>1, <3>1 DEF IInv, Rotations
    <3>3. user \in Material /\ rotation[d].from \in Material
      BY <1>t, <2>1 DEF TypeOK, RotationSet
    <3>4. user.version \in 0..(MaxKey + 1) /\ rotation[d].from.version \in 0..(MaxKey + 1)
      BY <3>3 DEF Material
    <3> QED BY <3>2, <3>4
  <2>3. NewMaterial(d) \in Material
    BY <2>1, <2>2 DEF NewMaterial, NextVersion, RotationSet, Material
  <2>4. material' = [material EXCEPT ![d] = NewMaterial(d)] /\ NewMaterial(d).key = rotation[d].key
    BY <1>16 DEF RotateReply, NewMaterial
  <2>5. material' \in [Device -> Material \cup {None}] /\ \A e \in Device \ {d} : material'[e] = material[e]
    BY <1>t, <2>3, <2>4 DEF TypeOK
  <2>6. /\ key' \in [Device -> Key \cup {None}]
        /\ \A e \in Device : key'[e] # None => material'[e] # None /\ key'[e] = material'[e].key
    BY <1>t, <1>16, <2>3, <2>4, <2>5, AccountIsNotNone DEF RotateReply, TypeOK, Material
  <2>7. rotation' \in [Device -> {Idle} \cup RotationSet] /\ snapshot' \in [Device -> [Record -> Stored]]
    BY <1>t, <1>16 DEF RotateReply, Ended, Unread, TypeOK, Stored, RotationSet
  <2>8. behind' \in [Device -> Reasons]
    BY <1>t, <1>16, BehindType DEF RotateReply
  <2> QED BY <1>t, <1>16, <2>5, <2>6, <2>7, <2>8 DEF RotateReply, TypeOK, RotationSet
<1>17. ASSUME NEW d \in Device, RotateFail(d) PROVE TypeOK'
  BY <1>t, <1>17 DEF RotateFail, Ended, Unread, TypeOK, Stored
<1> QED
  BY <1>1, <1>2, <1>3, <1>4, <1>5, <1>6, <1>7, <1>8, <1>9, <1>10, <1>11, <1>12, <1>13,
     <1>14, <1>15, <1>16, <1>17, <1>u
  DEF Next

------------------------------------------------------------------------------
(* The account is sound for itself, and what is sound stays so while the   *)
(* account does.                                                           *)
LEMMA UserIsSound == TypeOK /\ Account => Sound(user)
BY DEF Sound, SoundFor, Account, TypeOK, Material

Keys == Account /\ Devices /\ Rotations /\ Locks

(* Every step but those that change the account keeps the invariant on     *)
(* keys and versions.                                                      *)
LEMMA StepKeys ==
  ASSUME IInv, TypeOK', [Next]_vars, \A d \in Device : ~RebindApply(d) /\ ~RotateCommit(d)
  PROVE  Keys'
<1> USE DEF server, clocks, client, rotating
<1>t. TypeOK /\ Account /\ Devices /\ Rotations /\ Locks
  BY DEF IInv
<1>1. ASSUME UNCHANGED <<user, records, userLock, keys, rotating, rebind>>,
             \A d \in Device : material'[d] \in {material[d], user, None}
      PROVE  Keys'
  <2>1. Account' /\ Rotations' /\ Locks'
    BY <1>t, <1>1 DEF Account, Rotations, Locks, HasLock, Sound, SoundFor, NewMaterial
  <2>2. Devices'
    BY <1>t, <1>1, UserIsSound DEF Devices, Sound, SoundFor, Rebinding
  <2> QED BY <2>1, <2>2 DEF Keys
<1>2. CASE Tick \/ UNCHANGED vars
  BY <1>1, <1>2 DEF Tick, vars
<1>3. ASSUME NEW d \in Device, SignInRefreshToken(d) \/ SignInAccessToken(d) \/ Lock(d) PROVE Keys'
  BY <1>1, <1>3 DEF SignInRefreshToken, SignInAccessToken, Lock
<1>4. ASSUME NEW d \in Device, SignInResponse(d) \/ Reload(d) \/ SessionEnds(d) PROVE Keys'
  <2>1. \A e \in Device : material'[e] \in {material[e], user, None}
    BY <1>t, <1>4 DEF SignInResponse, Reload, SessionEnds, SetMaterial, TypeOK
  <2> QED BY <1>1, <1>4, <2>1 DEF SignInResponse, Reload, SessionEnds
<1>5. ASSUME NEW d \in Device, Unlock(d) PROVE Keys'
  <2>1. Account' /\ Rotations' /\ Locks'
    BY <1>t, <1>5 DEF Unlock, Account, Rotations, Locks, HasLock, Sound, SoundFor, NewMaterial
  <2>2. \A e \in Device : rebind'[e] = rebind[e] \/
          (e = d /\ rebind'[e] = [version |-> material[d].version, key |-> material[d].key])
    BY <1>t, <1>5 DEF Unlock, TypeOK
  <2>3. Sound(material[d]) /\ material' = material /\ user' = user
    BY <1>t, <1>5 DEF Unlock, Devices
  <2>4. "legacy" \notin DOMAIN [version |-> material[d].version, key |-> material[d].key]
    OBVIOUS
  <2>5. ASSUME NEW e \in Device, rebind'[e] = rebind[e]
        PROVE  /\ Rebinding(e)' => /\ rebind'[e].version <= user'.version
                                   /\ rebind'[e].version = user'.version => rebind'[e].key = user'.key
               /\ rebind'[e] # None /\ ~Rebinding(e)' => Sound(rebind[e])'
    BY <1>t, <2>3, <2>5 DEF Devices, Rebinding, Sound, SoundFor
  <2>6. ASSUME rebind'[d] = [version |-> material[d].version, key |-> material[d].key]
        PROVE  /\ Rebinding(d)' => /\ rebind'[d].version <= user'.version
                                   /\ rebind'[d].version = user'.version => rebind'[d].key = user'.key
               /\ ~(rebind'[d] # None /\ ~Rebinding(d)')
    BY <1>t, <2>3, <2>4, <2>6 DEF Rebinding, Sound, SoundFor
  <2>7. Devices'
    BY <1>t, <2>2, <2>3, <2>5, <2>6 DEF Devices, Sound, SoundFor
  <2> QED BY <2>1, <2>7 DEF Keys
<1>6. ASSUME NEW d \in Device, RebindFail(d) \/ RebindReply(d) PROVE Keys'
  <2>1. Account' /\ Rotations' /\ Locks'
    BY <1>t, <1>6 DEF RebindFail, RebindReply, Account, Rotations, Locks, HasLock, Sound, SoundFor, NewMaterial
  <2>2. \A e \in Device : material'[e] = material[e] \/ (e = d /\ RebindReply(d) /\ material'[e] = rebind[d])
    BY <1>t, <1>6 DEF RebindFail, RebindReply, SetMaterial, TypeOK
  <2>3. RebindReply(d) => Sound(rebind[d])
    BY <1>t DEF RebindReply, Devices
  <2>4. \A e \in Device : rebind'[e] \in {rebind[e], None} /\ user' = user
    BY <1>t, <1>6 DEF RebindFail, RebindReply, TypeOK
  <2>5. Devices'
    BY <1>t, <2>2, <2>3, <2>4 DEF Devices, Sound, SoundFor, Rebinding
  <2> QED BY <2>1, <2>5 DEF Keys
<1>7. ASSUME NEW d \in Device, NEW r \in Record, Save(d, r) \/ Delete(d, r) PROVE Keys'
  BY <1>1, <1>7 DEF Save, Delete, Send
<1>8. ASSUME NEW d \in Device, WriteAuthenticate(d) \/ WriteFail(d) PROVE Keys'
  BY <1>1, <1>8 DEF WriteAuthenticate, WriteFail
<1>9. ASSUME NEW d \in Device, WriteApply(d) PROVE Keys'
  <2>1. Account' /\ Rotations' /\ Devices'
    BY <1>t, <1>9 DEF WriteApply, Account, Rotations, Devices, HasLock, Sound, SoundFor, NewMaterial, Rebinding
  <2>2. Locks'
    BY <1>t, <1>9, NoneAssumption DEF WriteApply, Locks, HasLock
  <2> QED BY <2>1, <2>2 DEF Keys
<1>10. ASSUME NEW d \in Device, RotateBegin(d) PROVE Keys'
  <2>1. Devices' /\ Account'
    BY <1>t, <1>10 DEF RotateBegin, Devices, Account, Sound, SoundFor, Rebinding, TypeOK, Key, Material
  <2>2. /\ rotation'[d].phase = "read" /\ rotation'[d].key = keys + 1 /\ rotation'[d].from = material[d]
        /\ \A e \in Device \ {d} : rotation'[e] = rotation[e]
        /\ user' = user /\ keys' = keys + 1 /\ keys \in Nat
    BY <1>t, <1>10 DEF RotateBegin, TypeOK
  <2>3. Sound(material[d]) /\ user.key <= keys /\ user.key \in Nat
    BY <1>t, <1>10 DEF RotateBegin, Devices, Account, TypeOK, Material, Key
  <2>4. ASSUME NEW e \in Device \ {d}, rotation[e] # Idle
        PROVE  rotation[e].key <= keys + 1
    BY <1>t, <2>2, <2>4, RotationForms DEF Rotations, RotationSet, Key
  <2>5. Rotations'
    BY <1>t, <2>2, <2>3, <2>4 DEF Rotations, Sound, SoundFor, NewMaterial
  <2>6. Locks'
    BY <1>t, <1>10, <2>2 DEF RotateBegin, Locks, HasLock
  <2> QED BY <2>1, <2>5, <2>6 DEF Keys
<1>11. ASSUME NEW d \in Device, NEW r \in Record, RotateRead(d, r) PROVE Keys'
  <2>1. Account' /\ Rotations' /\ Devices'
    BY <1>t, <1>11 DEF RotateRead, Account, Rotations, Devices, Sound, SoundFor, NewMaterial, Rebinding
  <2>2. \A e \in Device : HasLock(e) => snapshot'[e] = snapshot[e]
    BY <1>t, <1>11 DEF RotateRead, HasLock, TypeOK
  <2>3. Locks'
    BY <1>t, <1>11, <2>2 DEF RotateRead, Locks, HasLock
  <2> QED BY <2>1, <2>3 DEF Keys
<1>12. ASSUME NEW d \in Device,
              RotateSend(d) \/ RotateAuthenticate(d) \/ RotateLock(d) \/ RotateDelete(d)
       PROVE  Keys'
  <2>1. Devices' /\ Account'
    BY <1>t, <1>12
    DEF RotateSend, RotateAuthenticate, RotateLock, RotateDelete, Devices, Account, Sound, SoundFor, Rebinding
  <2>2. /\ rotation[d].phase \in Phases \ {"reply"} /\ rotation'[d].phase \in Phases \ {"reply"}
        /\ rotation[d] # Idle
        /\ rotation'[d].key = rotation[d].key /\ rotation'[d].from = rotation[d].from
        /\ \A e \in Device \ {d} : rotation'[e] = rotation[e]
        /\ user' = user /\ keys' = keys /\ records' = records /\ snapshot' = snapshot
    BY <1>t, <1>12, RotationForms
    DEF RotateSend, RotateAuthenticate, RotateLock, RotateDelete, Phase, Phases, TypeOK, RotationSet
  <2>3. Rotations'
    BY <1>t, <2>2 DEF Rotations, Sound, SoundFor, NewMaterial
  <2>4. ASSUME RotateSend(d) \/ RotateAuthenticate(d) PROVE Locks'
    <3>1. ~HasLock(d)' /\ userLock' = userLock
      BY <1>t, <2>4, RotationForms DEF RotateSend, RotateAuthenticate, Phase, HasLock, Phases, TypeOK
    <3> QED BY <1>t, <2>2, <3>1 DEF Locks, HasLock
  <2>5. ASSUME RotateLock(d) PROVE Locks'
    <3>1. \A e \in Device \ {d} : ~HasLock(e)'
      BY <1>t, <2>2, <2>5, NoneAssumption DEF RotateLock, Locks, HasLock
    <3> QED BY <2>2, <2>5, <3>1 DEF RotateLock, Locks, Unchanged
  <2>6. ASSUME RotateDelete(d) PROVE Locks'
    <3>1. HasLock(d) /\ userLock' = userLock
      BY <2>6 DEF RotateDelete, HasLock
    <3>2. \A e \in Device \ {d} : HasLock(e)' => HasLock(e)
      BY <2>2 DEF HasLock
    <3> QED BY <1>t, <2>2, <3>1, <3>2 DEF Locks
  <2> QED BY <1>12, <2>1, <2>3, <2>4, <2>5, <2>6 DEF Keys
<1>13. ASSUME NEW d \in Device, RotateReply(d) \/ RotateFail(d) PROVE Keys'
  <2>1. /\ rotation'[d] = Idle /\ \A e \in Device \ {d} : rotation'[e] = rotation[e] /\ snapshot'[e] = snapshot[e]
        /\ user' = user /\ keys' = keys /\ records' = records /\ rebind' = rebind
    BY <1>t, <1>13 DEF RotateReply, RotateFail, Ended, TypeOK
  <2>2. Account' /\ Rotations'
    BY <1>t, <2>1 DEF Account, Rotations, Sound, SoundFor, NewMaterial
  <2>3. \A e \in Device \ {d} : userLock = e => userLock' = e
    BY <1>13 DEF RotateReply, RotateFail
  <2>4. Locks'
    BY <1>t, <2>1, <2>3 DEF Locks, HasLock, Idle
  <2>5. \A e \in Device : material'[e] = material[e] \/ (RotateReply(d) /\ e = d /\ material'[e] = NewMaterial(d))
    BY <1>t, <1>13 DEF RotateReply, RotateFail, NewMaterial, TypeOK
  <2>6. RotateReply(d) => Sound(NewMaterial(d))
    BY <1>t, RotationForms DEF RotateReply, Rotations, Phases
  <2>7. Devices'
    BY <1>t, <2>1, <2>5, <2>6 DEF Devices, Sound, SoundFor, Rebinding
  <2> QED BY <2>2, <2>4, <2>7 DEF Keys
<1> QED
  BY <1>2, <1>3, <1>4, <1>5, <1>6, <1>7, <1>8, <1>9, <1>10, <1>11, <1>12, <1>13 DEF Next

(* A re-binding or a rotation makes a new version: whatever was read of    *)
(* the account before is older than it.                                    *)
LEMMA OlderIsSound ==
  ASSUME NEW m \in Material, NEW u \in Material, NEW v,
         v.version = u.version + 1, SoundFor(m, u)
  PROVE  SoundFor(m, v) /\ m.version < v.version /\ m.version # v.version
BY DEF SoundFor, Material

(* What the devices and the rotations keep when the account gets a new     *)
(* version.                                                                *)
LEMMA NewVersion ==
  ASSUME TypeOK, Account, Devices, Rotations, user'.version = user.version + 1
  PROVE  /\ \A e \in Device : material[e] # None => SoundFor(material[e], user')
         /\ \A e \in Device : Rebinding(e) =>
              rebind[e].version <= user'.version /\ rebind[e].version # user'.version
         /\ \A e \in Device : rebind[e] # None /\ ~Rebinding(e) => SoundFor(rebind[e], user')
         /\ \A e \in Device : rotation[e] # Idle =>
              /\ SoundFor(rotation[e].from, user') /\ rotation[e].from.version < user'.version
              /\ rotation[e].from.version # user'.version
              /\ rotation[e].phase = "reply" => SoundFor(NewMaterial(e), user')
<1> SUFFICES ASSUME NEW e \in Device
             PROVE  /\ material[e] # None => SoundFor(material[e], user')
                    /\ Rebinding(e) => rebind[e].version <= user'.version /\ rebind[e].version # user'.version
                    /\ rebind[e] # None /\ ~Rebinding(e) => SoundFor(rebind[e], user')
                    /\ rotation[e] # Idle =>
                         /\ SoundFor(rotation[e].from, user') /\ rotation[e].from.version < user'.version
                         /\ rotation[e].from.version # user'.version
                         /\ rotation[e].phase = "reply" => SoundFor(NewMaterial(e), user')
  OBVIOUS
<1>0. user \in Material
  BY DEF TypeOK
<1>1. material[e] # None => SoundFor(material[e], user')
  BY <1>0, OlderIsSound DEF Devices, Sound, TypeOK
<1>2. Rebinding(e) => rebind[e].version <= user'.version /\ rebind[e].version # user'.version
  <2>1. Rebinding(e) => rebind[e].version \in Int /\ rebind[e].version <= user.version
    BY RebindForms DEF Devices
  <2> QED BY <1>0, <2>1 DEF Material
<1>3. rebind[e] # None /\ ~Rebinding(e) => SoundFor(rebind[e], user')
  BY <1>0, OlderIsSound, RebindForms DEF Devices, Sound
<1>4. ASSUME rotation[e] # Idle
      PROVE  /\ SoundFor(rotation[e].from, user') /\ rotation[e].from.version < user'.version
             /\ rotation[e].from.version # user'.version
  BY <1>0, <1>4, OlderIsSound, RotationForms DEF Rotations, Sound, RotationSet
<1>5. ASSUME rotation[e] # Idle, rotation[e].phase = "reply"
      PROVE  SoundFor(NewMaterial(e), user')
  <2>1. Sound(NewMaterial(e)) /\ rotation[e].from \in Material
    BY <1>5, RotationForms DEF Rotations, RotationSet
  <2>2. NewMaterial(e).version \in Int
    BY <2>1 DEF NewMaterial, NextVersion, Material
  <2> QED BY <1>0, <2>1, <2>2 DEF Sound, SoundFor, Material
<1> QED BY <1>1, <1>2, <1>3, <1>4, <1>5

LEMMA RebindKeys == ASSUME IInv, TypeOK', NEW d \in Device, RebindApply(d) PROVE Keys'
<1>t. TypeOK /\ Account /\ Devices /\ Rotations /\ Locks
  BY DEF IInv
<1>1. rebind[d].key = user.key /\ rebind[d] \in [version : 0..(MaxKey + 1), key : Key]
  BY <1>t, RebindForms DEF RebindApply, Devices
<1>2. /\ user' = [key |-> user.key, envelope |-> user.key, version |-> user.version + 1, legacy |-> FALSE]
      /\ keys' = keys /\ user.legacy /\ rotation' = rotation /\ material' = material
  BY <1>t, <1>1 DEF RebindApply, NextVersion, TypeOK, Material, clocks, client, rotating
<1>3. Account'
  BY <1>t, <1>2 DEF Account, TypeOK, Material, Key
<1>4. user' \in Material /\ SoundFor(user', user')
  <2>1. user' \in Material
    BY DEF TypeOK
  <2> QED BY <1>2, <2>1 DEF SoundFor, Material
<1>5. user'.version = user.version + 1
  BY <1>2
<1>6. Devices'
  <2>1. \A e \in Device \ {d} : rebind'[e] = rebind[e]
    BY <1>t DEF RebindApply, TypeOK
  <2>2. rebind'[d] = user' /\ "legacy" \in DOMAIN user'
    BY <1>t, <1>2 DEF RebindApply, TypeOK
  <2>3. ~Rebinding(d)'
    BY <2>2 DEF Rebinding
  <2>4. ASSUME NEW e \in Device \ {d}
        PROVE  /\ Rebinding(e)' => rebind'[e].version <= user'.version /\ rebind'[e].version # user'.version
               /\ rebind'[e] # None /\ ~Rebinding(e)' => SoundFor(rebind'[e], user')
    BY <1>t, <1>5, <2>1, NewVersion DEF Rebinding
  <2>5. \A e \in Device : material'[e] # None => SoundFor(material'[e], user')
    BY <1>t, <1>2, <1>5, NewVersion
  <2> QED BY <1>4, <2>2, <2>3, <2>4, <2>5 DEF Devices, Sound
<1>7. Rotations'
  <2>1. \A e \in Device : rotation[e] # Idle =>
          /\ SoundFor(rotation[e].from, user') /\ rotation[e].from.version < user'.version
          /\ rotation[e].from.version # user'.version
          /\ rotation[e].phase = "reply" => SoundFor(NewMaterial(e), user')
    BY <1>t, <1>5, NewVersion
  <2>2. \A e \in Device : NewMaterial(e)' = NewMaterial(e)
    BY <1>2 DEF NewMaterial
  <2> QED BY <1>t, <1>2, <2>1, <2>2 DEF Rotations, Sound
<1>8. Locks'
  BY <1>t, NoneAssumption DEF RebindApply, rotating, Locks, HasLock
<1> QED BY <1>3, <1>6, <1>7, <1>8 DEF Keys

LEMMA CommitKeys == ASSUME IInv, TypeOK', NEW d \in Device, RotateCommit(d) PROVE Keys'
<1>t. TypeOK /\ Account /\ Devices /\ Rotations /\ Locks
  BY DEF IInv
<1>1. /\ rotation[d] \in RotationSet /\ rotation[d] # Idle /\ HasLock(d)
      /\ rotation[d].from \in Material /\ rotation[d].key \in Key
      /\ rotation'[d].key = rotation[d].key /\ rotation'[d].from = rotation[d].from
      /\ rotation'[d].phase = "reply"
      /\ \A e \in Device \ {d} : rotation'[e] = rotation[e]
  BY <1>t, RotationForms DEF RotateCommit, Phase, Phases, HasLock, TypeOK, RotationSet
<1>2. /\ user' = [key |-> rotation[d].key, envelope |-> rotation[d].key, version |-> user.version + 1, legacy |-> FALSE]
      /\ keys' = keys /\ material' = material /\ rebind' = rebind
      /\ rotation[d].from.version = user.version
  BY <1>t, <1>1 DEF RotateCommit, NextVersion, clocks, client, Locks
<1>3. Account'
  BY <1>t, <1>1, <1>2 DEF Account, Rotations, TypeOK, Material, Key
<1>4. user'.version = user.version + 1
  BY <1>2
<1>5. Devices'
  <2>1. \A e \in Device : Rebinding(e)' <=> Rebinding(e)
    BY <1>2 DEF Rebinding
  <2> QED BY <1>t, <1>2, <1>4, <2>1, NewVersion DEF Devices, Sound
<1>6. Rotations'
  <2>1. ASSUME NEW e \in Device, rotation[e] # Idle
        PROVE  /\ SoundFor(rotation[e].from, user') /\ rotation[e].from.version < user'.version
               /\ rotation[e].from.version # user'.version
               /\ rotation[e].phase = "reply" => SoundFor(NewMaterial(e), user')
    BY <1>t, <1>4, <2>1, NewVersion
  <2>2. NewMaterial(d)' = user' /\ SoundFor(user', user')
    <3>1. NewMaterial(d)' = user'
      BY <1>1, <1>2 DEF NewMaterial, NextVersion
    <3>2. user' \in Material
      BY DEF TypeOK
    <3> QED BY <1>2, <3>1, <3>2 DEF SoundFor, Material
  <2>3. \A e \in Device \ {d} : NewMaterial(e)' = NewMaterial(e)
    BY <1>1 DEF NewMaterial
  <2>4. \A e \in Device \ {d} : rotation'[e] # Idle =>
          /\ Sound(rotation[e].from)' /\ rotation'[e].key <= keys'
          /\ rotation'[e].from.version # user'.version
          /\ rotation'[e].phase = "reply" =>
               rotation'[e].from.version < user'.version /\ Sound(NewMaterial(e))'
    BY <1>t, <1>1, <1>2, <2>1, <2>3 DEF Rotations, Sound
  <2>5. /\ Sound(rotation[d].from)' /\ rotation'[d].key <= keys'
        /\ rotation'[d].from.version # user'.version
        /\ rotation'[d].from.version < user'.version /\ Sound(NewMaterial(d))'
    BY <1>t, <1>1, <1>2, <2>1, <2>2 DEF Rotations, Sound
  <2> QED BY <2>4, <2>5 DEF Rotations
<1>7. Locks'
  <2>1. \A e \in Device : ~HasLock(e)'
    BY <1>t, <1>1 DEF Locks, HasLock
  <2> QED BY <2>1 DEF Locks
<1> QED BY <1>3, <1>5, <1>6, <1>7 DEF Keys

------------------------------------------------------------------------------
(* A rotation that is committed leaves a token to nobody whose history     *)
(* does not say so.                                                        *)
LEMMA CommitSessions == ASSUME IInv, NEW d \in Device, RotateCommit(d) PROVE Sessions'
<1>1. TypeOK /\ Locks /\ Sessions
  BY DEF IInv
<1>2. /\ rotation[d].phase = "deleted" /\ HasLock(d) /\ rotation'[d].phase = "reply"
      /\ \A e \in Device \ {d} : rotation'[e] = rotation[e]
  BY <1>1, RotationForms DEF RotateCommit, Phase, Phases, HasLock, TypeOK, RotationSet
<1>3. \A e \in Device : rotation'[e].phase # "deleted"
  BY <1>1, <1>2 DEF Locks, HasLock
<1>4. /\ access' = access \ rotation[d].doomed /\ signIn' = signIn /\ material' = material
      /\ write' = write /\ refreshable' = refreshable \cap {d}
  BY DEF RotateCommit, client
<1>5. rotation[d].peers \subseteq rotation[d].doomed \cap access /\ d \notin rotation[d].doomed
  BY <1>1, <1>2 DEF Sessions, Deleting
<1>6. ASSUME NEW e \in Device PROVE SessionFits(e)'
  <2>1. behind'[e] = IF e = d THEN "own" ELSE IF e \in rotation[d].peers THEN "no"
                     ELSE IF e \in access THEN "sign-in" ELSE behind[e]
    BY DEF RotateCommit
  <2>2. e \in access' => behind'[e] # "no"
    BY <1>4, <1>5, <2>1
  <2>3. signIn'[e] = "row" => e \notin access' /\ (behind'[e] = "no" => material'[e] = None)
    BY <1>1, <1>4, <1>5, <2>1 DEF Sessions, SessionFits
  <2>4. material'[e] = None => write'[e] = None /\ (signIn'[e] = "no" => e \notin access')
    BY <1>1, <1>4 DEF Sessions, SessionFits
  <2>5. e \in refreshable' => e \in access' \/ signIn'[e] = "row"
    BY <1>1, <1>4, <1>5 DEF Sessions, SessionFits
  <2> QED BY <2>2, <2>3, <2>4, <2>5 DEF SessionFits
<1> QED BY <1>3, <1>6 DEF Sessions, Deleting

(* A device that takes up an answer: the answer is the account's, or the   *)
(* history says that it is not.                                            *)
LEMMA AnswerFits ==
  ASSUME TypeOK, NEW d \in Device, SessionFits(d), NEW m \in Material,
         material'[d] = m, Answered(d, m.key), UNCHANGED <<user, access, refreshable, signIn, write>>
  PROVE  SessionFits(d)'
<1>1. m # None /\ behind \in [Device -> Reasons]
  BY AccountIsNotNone DEF TypeOK
<1>2. CASE d \in access /\ m.key = user.key
  <2>1. Renewed(d)
    BY <1>2 DEF Answered
  <2>2. behind'[d] = IF write[d] = None THEN "no" ELSE behind[d]
    BY <1>1, <2>1 DEF Renewed
  <2> QED BY <1>1, <1>2, <2>2 DEF SessionFits, Current
<1>3. CASE ~(d \in access /\ m.key = user.key)
  <2>1. behind' = [behind EXCEPT ![d] = "answer"]
    BY <1>3 DEF Answered
  <2>2. behind'[d] = "answer"
    BY <1>1, <2>1
  <2> QED BY <1>1, <2>2 DEF SessionFits
<1> QED BY <1>2, <1>3

LEMMA OthersFit ==
  ASSUME TypeOK, NEW d \in Device, NEW e \in Device \ {d}, SessionFits(e), user'.key = user.key,
         e \in access' <=> e \in access, e \in refreshable' => e \in refreshable,
         signIn'[e] = signIn[e], material'[e] = material[e], write'[e] = write[e], behind'[e] = behind[e]
  PROVE  SessionFits(e)'
BY DEF SessionFits, Current

LEMMA StepSessions == IInv /\ TypeOK' /\ [Next]_vars => Sessions'
<1> SUFFICES ASSUME IInv, TypeOK', [Next]_vars PROVE Sessions'
  OBVIOUS
<1> USE DEF server, clocks, client, rotating
<1>t. TypeOK /\ Locks /\ Sessions /\ user # None
  BY AccountIsNotNone DEF IInv
<1>0. ASSUME NEW d \in Device, SessionFits(d)', UNCHANGED rotation, user'.key = user.key,
             \A e \in Device \ {d} : /\ e \in access' <=> e \in access
                                     /\ e \in refreshable' => e \in refreshable
                                     /\ signIn'[e] = signIn[e] /\ material'[e] = material[e]
                                     /\ write'[e] = write[e] /\ behind'[e] = behind[e],
             access \subseteq access'
      PROVE  Sessions'
  <2>1. \A e \in Device : SessionFits(e)'
    BY <1>t, <1>0, OthersFit DEF Sessions
  <2>2. \A e \in Device : Deleting(e)'
    BY <1>t, <1>0 DEF Sessions, Deleting
  <2> QED BY <2>1, <2>2 DEF Sessions
<1>1. ASSUME UNCHANGED <<access, refreshable, signIn, rotation, behind, material, write>>,
             user'.key = user.key
      PROVE  Sessions'
  BY <1>t, <1>1 DEF Sessions, SessionFits, Current, Deleting
<1>2. CASE Tick \/ UNCHANGED vars
  BY <1>1, <1>2 DEF Tick, vars
<1>3. ASSUME NEW d \in Device,
             Lock(d) \/ Unlock(d) \/ RebindFail(d) \/ \E r \in Record : RotateRead(d, r)
      PROVE  Sessions'
  BY <1>1, <1>3 DEF Lock, Unlock, RebindFail, RotateRead
<1>4. ASSUME NEW d \in Device, RebindApply(d) PROVE Sessions'
  <2>1. user'.key = user.key
    BY <1>t, <1>4 DEF RebindApply, TypeOK, Material
  <2> QED BY <1>1, <1>4, <2>1 DEF RebindApply
<1>5. ASSUME NEW d \in Device, WriteAuthenticate(d) \/ WriteApply(d) \/ WriteFail(d) PROVE Sessions'
  <2>1. \A e \in Device \ {d} : write'[e] = write[e]
    BY <1>t, <1>5 DEF WriteAuthenticate, WriteApply, WriteFail, TypeOK
  <2>2. write'[d] = None \/ (write[d] # None /\ write'[d] # None /\ write'[d].key = write[d].key)
    <3>1. CASE WriteAuthenticate(d)
      <4>1. write[d] # None /\ write'[d] = [write[d] EXCEPT !.authenticated = TRUE]
        BY <1>t, <3>1 DEF WriteAuthenticate, TypeOK
      <4>2. write[d] \in [id : Record, key : Key \cup {None}, body : 0..MaxEdit, authenticated : BOOLEAN]
        BY <1>t, <4>1 DEF TypeOK
      <4>3. write'[d].key = write[d].key
        BY <4>1, <4>2
      <4> QED BY <4>1, <4>3
    <3>2. CASE WriteApply(d) \/ WriteFail(d)
      BY <1>t, <3>2 DEF WriteApply, WriteFail, TypeOK
    <3> QED BY <1>5, <3>1, <3>2
  <2>3. UNCHANGED <<user, access, refreshable, signIn, rotation, behind, material>>
    BY <1>5 DEF WriteAuthenticate, WriteApply, WriteFail
  <2>4. SessionFits(d)'
    BY <1>t, <2>2, <2>3 DEF Sessions, SessionFits, Current
  <2> QED BY <1>0, <2>1, <2>3, <2>4
<1>6. ASSUME NEW d \in Device, NEW r \in Record, Save(d, r) \/ Delete(d, r) PROVE Sessions'
  <2>1. PICK k \in Key \cup {None} : Send(d, r, k) /\ k \in {None, key[d]}
    BY <1>t, <1>6 DEF Save, Delete, TypeOK
  <2>2. UNCHANGED <<user, access, refreshable, signIn, rotation, behind, material>>
    BY <2>1 DEF Send
  <2>3. material[d] # None /\ key[d] = material[d].key /\ write'[d].key = k
        /\ \A e \in Device \ {d} : write'[e] = write[e]
    BY <1>t, <2>1 DEF Send, TypeOK
  <2>4. SessionFits(d)'
    BY <1>t, <2>1, <2>2, <2>3 DEF Sessions, SessionFits, Current
  <2> QED BY <1>0, <2>2, <2>3, <2>4
<1>7. ASSUME NEW d \in Device, RebindReply(d) PROVE Sessions'
  <2>1. rebind[d] \in Material /\ rebind[d] # None
    BY <1>t, <1>7, RebindForms DEF RebindReply
  <2>2. UNCHANGED <<user, access, refreshable, signIn, rotation, write>>
    BY <1>7 DEF RebindReply
  <2>3. CASE key[d] # None
    <3>1. SetMaterial(d, rebind[d]) /\ Answered(d, rebind[d].key)
      BY <1>7, <2>3 DEF RebindReply
    <3>2. material'[d] = rebind[d] /\ \A e \in Device \ {d} : material'[e] = material[e]
      BY <1>t, <3>1 DEF SetMaterial, TypeOK
    <3>3. SessionFits(d)'
      BY <1>t, <2>1, <2>2, <3>1, <3>2, AnswerFits DEF Sessions
    <3>4. \A e \in Device \ {d} : behind'[e] = behind[e]
      BY <1>t, <3>1 DEF Answered, Renewed, TypeOK
    <3> QED BY <1>0, <2>2, <3>2, <3>3, <3>4
  <2>4. CASE key[d] = None
    BY <1>1, <1>7, <2>2, <2>4 DEF RebindReply
  <2> QED BY <2>3, <2>4
<1>8. ASSUME NEW d \in Device, SignInRefreshToken(d) PROVE Sessions'
  <2>1. /\ signIn'[d] = "row" /\ material'[d] = None /\ write'[d] = None /\ access' = access /\ d \notin access
        /\ UNCHANGED <<user, rotation, behind, material, write>>
        /\ \A e \in Device \ {d} : signIn'[e] = signIn[e] /\ (e \in refreshable' => e \in refreshable)
    BY <1>t, <1>8 DEF SignInRefreshToken, Sessions, SessionFits, TypeOK
  <2>2. SessionFits(d)'
    BY <2>1 DEF SessionFits
  <2> QED BY <1>0, <2>1, <2>2
<1>9. ASSUME NEW d \in Device, SignInAccessToken(d) PROVE Sessions'
  <2>1. /\ signIn[d] = "row" /\ signIn'[d] = "token" /\ access' = access \cup {d}
        /\ UNCHANGED <<user, refreshable, rotation, behind, material, write>>
        /\ \A e \in Device \ {d} : signIn'[e] = signIn[e]
    BY <1>t, <1>9 DEF SignInAccessToken, TypeOK
  <2>2. SessionFits(d)'
    BY <1>t, <2>1 DEF Sessions, SessionFits, Current
  <2> QED BY <1>0, <2>1, <2>2
<1>10. ASSUME NEW d \in Device, SignInResponse(d) \/ Reload(d) PROVE Sessions'
  <2>1. /\ material'[d] = user /\ signIn'[d] = "no" /\ Renewed(d)
        /\ UNCHANGED <<user, refreshable, rotation, write>>
        /\ \A e \in Device \ {d} : signIn'[e] = signIn[e] /\ material'[e] = material[e]
    <3>1. CASE SignInResponse(d)
      BY <1>t, <3>1 DEF SignInResponse, SetMaterial, TypeOK
    <3>2. CASE Reload(d)
      BY <1>t, <3>2 DEF Reload, TypeOK
    <3> QED BY <1>10, <3>1, <3>2
  <2>2. /\ behind'[d] = IF write[d] = None THEN "no" ELSE behind[d]
        /\ \A e \in Device \ {d} : behind'[e] = behind[e]
    BY <1>t, <2>1 DEF Renewed, TypeOK
  <2>3. access' \in {access, access \cup {d}} /\ (access' # access => d \in refreshable /\ material[d] # None)
    BY <1>10 DEF SignInResponse, Reload
  <2>4. SessionFits(d)'
    <3>1. d \in access' /\ behind'[d] = "no" => Current(d)'
      <4>1. CASE write[d] = None
        BY <1>t, <2>1, <4>1 DEF Current
      <4>2. CASE write[d] # None /\ d \in access
        BY <1>t, <2>1, <2>2, <4>2 DEF Current, Sessions, SessionFits
      <4>3. CASE write[d] # None /\ d \notin access
        <5>1. d \in access' => signIn[d] = "row" /\ material[d] # None
          BY <1>t, <2>3, <4>3 DEF Sessions, SessionFits
        <5> QED BY <1>t, <2>2, <4>3, <5>1 DEF Sessions, SessionFits
      <4> QED BY <4>1, <4>2, <4>3
    <3>2. d \in refreshable' => d \in access' \/ signIn'[d] = "row"
      <4>1. CASE SignInResponse(d)
        BY <1>t, <2>1, <2>3, <4>1 DEF SignInResponse, Sessions, SessionFits
      <4>2. CASE Reload(d)
        BY <4>2 DEF Reload
      <4> QED BY <1>10, <4>1, <4>2
    <3> QED BY <1>t, <2>1, <3>1, <3>2 DEF SessionFits
  <2>5. access \subseteq access' /\ \A e \in Device \ {d} : e \in access' <=> e \in access
    BY <2>3
  <2> QED BY <1>0, <2>1, <2>2, <2>4, <2>5
<1>11. ASSUME NEW d \in Device, SessionEnds(d) PROVE Sessions'
  <2>1. /\ material'[d] = None /\ write'[d] = None /\ d \notin access \cup refreshable
        /\ UNCHANGED <<user, access, refreshable, signIn, rotation>>
        /\ \A e \in Device \ {d} : write'[e] = write[e] /\ material'[e] = material[e] /\ behind'[e] = behind[e]
    BY <1>t, <1>11 DEF SessionEnds, TypeOK
  <2>2. SessionFits(d)'
    BY <2>1 DEF SessionFits
  <2> QED BY <1>0, <2>1, <2>2
<1>a. ASSUME NEW d \in Device, \A e \in Device \ {d} : rotation'[e] = rotation[e], Deleting(d)',
             UNCHANGED <<user, access, refreshable, signIn, behind, material, write>>
      PROVE  Sessions'
  <2>1. \A e \in Device : SessionFits(e)'
    BY <1>t, <1>a DEF Sessions, SessionFits, Current
  <2>2. \A e \in Device : Deleting(e)'
    BY <1>t, <1>a DEF Sessions, Deleting
  <2> QED BY <2>1, <2>2 DEF Sessions
<1>12. ASSUME NEW d \in Device, RotateBegin(d) PROVE Sessions'
  <2>1. rotation'[d].phase # "deleted" /\ \A e \in Device \ {d} : rotation'[e] = rotation[e]
    BY <1>t, <1>12 DEF RotateBegin, TypeOK
  <2>2. UNCHANGED <<user, access, refreshable, signIn, behind, material, write>>
    BY <1>12 DEF RotateBegin
  <2> QED BY <1>a, <2>1, <2>2 DEF Deleting
<1>13. ASSUME NEW d \in Device, RotateSend(d) \/ RotateAuthenticate(d) \/ RotateLock(d) PROVE Sessions'
  <2>1. rotation'[d].phase # "deleted" /\ \A e \in Device \ {d} : rotation'[e] = rotation[e]
    BY <1>t, <1>13, RotationForms
    DEF RotateSend, RotateAuthenticate, RotateLock, Phase, Phases, TypeOK, RotationSet
  <2>2. UNCHANGED <<user, access, refreshable, signIn, behind, material, write>>
    BY <1>13 DEF RotateSend, RotateAuthenticate, RotateLock
  <2> QED BY <1>a, <2>1, <2>2 DEF Deleting
<1>14. ASSUME NEW d \in Device, RotateDelete(d) PROVE Sessions'
  <2>1. /\ rotation'[d].peers = access \ {d} /\ rotation'[d].doomed = access \ {d}
        /\ \A e \in Device \ {d} : rotation'[e] = rotation[e]
    BY <1>t, <1>14, RotationForms DEF RotateDelete, Doomed, Phases, TypeOK, RotationSet
  <2>2. UNCHANGED <<user, access, refreshable, signIn, behind, material, write>>
    BY <1>14 DEF RotateDelete
  <2> QED BY <1>a, <2>1, <2>2 DEF Deleting
<1>15. ASSUME NEW d \in Device, RotateCommit(d) PROVE Sessions'
  BY <1>15, CommitSessions
<1>16. ASSUME NEW d \in Device, RotateReply(d) PROVE Sessions'
  <2>1. rotation[d] # Idle /\ rotation[d].phase = "reply"
    BY <1>t, <1>16, RotationForms DEF RotateReply, Phases
  <2>2. material' = [material EXCEPT ![d] = NewMaterial(d)] /\ NewMaterial(d).key = rotation[d].key
    BY <1>16 DEF RotateReply, NewMaterial
  <2>3. material'[d] = NewMaterial(d) /\ \A e \in Device \ {d} : material'[e] = material[e]
    BY <1>t, <2>2 DEF TypeOK
  <2>4. NewMaterial(d) \in Material
    <3>1. NewMaterial(d) # None
      <4>1. rotation[d].key \in Nat /\ rotation[d].from.version + 1 \in Nat
        BY <1>t, <2>1, RotationForms DEF RotationSet, Material, Key
      <4>2. NewMaterial(d) \in [key : Nat, envelope : Nat, version : Nat, legacy : BOOLEAN]
        BY <4>1 DEF NewMaterial, NextVersion
      <4> QED BY <4>2, MaterialAssumption
    <3>2. material'[d] \in Material \cup {None}
      BY DEF TypeOK
    <3> QED BY <2>3, <3>1, <3>2
  <2>5. UNCHANGED <<user, access, refreshable, signIn, write>> /\ Answered(d, rotation[d].key)
    BY <1>16 DEF RotateReply
  <2>6. SessionFits(d)'
    BY <1>t, <2>2, <2>3, <2>4, <2>5, AnswerFits DEF Sessions
  <2>7. \A e \in Device \ {d} : behind'[e] = behind[e]
    BY <1>t, <2>5 DEF Answered, Renewed, TypeOK
  <2>8. rotation'[d] = Idle /\ \A e \in Device \ {d} : rotation'[e] = rotation[e]
    BY <1>t, <1>16 DEF RotateReply, Ended, TypeOK
  <2>9. \A e \in Device : SessionFits(e)'
    BY <1>t, <2>3, <2>5, <2>6, <2>7, OthersFit DEF Sessions
  <2>10. \A e \in Device : Deleting(e)'
    BY <1>t, <2>5, <2>8 DEF Sessions, Deleting, Idle
  <2> QED BY <2>9, <2>10 DEF Sessions
<1>17. ASSUME NEW d \in Device, RotateFail(d) PROVE Sessions'
  <2>1. rotation'[d] = Idle /\ \A e \in Device \ {d} : rotation'[e] = rotation[e]
    BY <1>t, <1>17 DEF RotateFail, Ended, TypeOK
  <2>2. UNCHANGED <<user, access, refreshable, signIn, behind, material, write>>
    BY <1>17 DEF RotateFail
  <2> QED BY <1>a, <2>1, <2>2 DEF Deleting, Idle
<1> QED
  BY <1>2, <1>3, <1>4, <1>5, <1>6, <1>7, <1>8, <1>9, <1>10, <1>11, <1>12, <1>13, <1>14, <1>15, <1>16, <1>17
  DEF Next

------------------------------------------------------------------------------
LEMMA Inductive == IInv /\ [Next]_vars => IInv'
<1> SUFFICES ASSUME IInv, [Next]_vars PROVE IInv'
  OBVIOUS
<1>1. TypeOK'
  BY StepType
<1>2. Sessions'
  BY <1>1, StepSessions
<1>3. Keys'
  BY <1>1, StepKeys, RebindKeys, CommitKeys
<1> QED BY <1>1, <1>2, <1>3 DEF IInv, Keys

THEOREM Invariant == Spec => []IInv
BY Initial, Inductive, PTL DEF Spec

(* Type correctness; also that the versions of the account are never more  *)
(* than the keys allow.                                                    *)
THEOREM TypeCorrect == Spec => []TypeOK
<1>1. IInv => TypeOK
  BY DEF IInv
<1> QED BY <1>1, Invariant, PTL

(* Two devices that read the same version of the account derive the same   *)
(* vault key, for any number of devices.                                   *)
THEOREM VersionsNameKeys == Spec => []VersionNamesKey
<1>1. IInv => VersionNamesKey
  BY DEF IInv, Account, Devices, Sound, SoundFor, VersionNamesKey
<1> QED BY <1>1, Invariant, PTL

(* Whatever waited for a rotation, a write that is stored has the key of   *)
(* the account, unless it is of a device that the rotation spared: the one *)
(* that rotates, a sign-in between the DELETE and the commit, or one that  *)
(* took up an answer too late.                                             *)
THEOREM OldKeysAreRefused == Spec => OldKeyWritesRefused
<1>1. IInv /\ [Next]_vars =>
        [\A d \in Device : StoredBy(d) /\ behind[d] = "no" => write[d].key \in {None, user.key}]_vars
  <2> SUFFICES ASSUME IInv, Next, NEW d \in Device, StoredBy(d), behind[d] = "no"
               PROVE  write[d].key \in {None, user.key}
    OBVIOUS
  <2>1. records' # records /\ write' # write
    BY DEF StoredBy
  <2>2. \A e \in Device : ~RotateCommit(e)
    BY <2>1 DEF RotateCommit
  <2>3. PICK e \in Device : WriteApply(e)
    BY <2>1, <2>2 DEF Next, server, Tick, SignInRefreshToken, SignInAccessToken, SignInResponse, Reload,
       SessionEnds, Unlock, Lock, RebindApply, RebindFail, RebindReply, Save, Delete, Send,
       WriteAuthenticate, WriteFail, RotateBegin, RotateRead, RotateSend, RotateAuthenticate,
       RotateLock, RotateDelete, RotateReply, RotateFail
  <2>4. e = d
    BY <2>3 DEF WriteApply, StoredBy, IInv, TypeOK
  <2> QED BY <2>3, <2>4 DEF WriteApply, TokenStillExists, IInv, Sessions, SessionFits, Current
<1> QED BY <1>1, Invariant, PTL DEF Spec, OldKeyWritesRefused

(* A rotation loses no edit but to the read of another one of the same     *)
(* second, and neither adds nor drops a record.                            *)
THEOREM EditsAreKept == Spec => RotationKeepsEdits
<1> DEFINE Kept == user'.key # user.key =>
             \A r \in Record :
               /\ (records[r] \in Row) <=> (records'[r] \in Row)
               /\ Reverted(r) => records[r].stamp = snapshot[userLock][r].stamp
<1>1. IInv /\ IInv' /\ [Next]_vars => [Kept]_vars
  <2> SUFFICES ASSUME IInv, IInv', Next, user'.key # user.key, NEW r \in Record
               PROVE  /\ (records[r] \in Row) <=> (records'[r] \in Row)
                      /\ Reverted(r) => records[r].stamp = snapshot[userLock][r].stamp
    OBVIOUS
  <2>1. \A d \in Device : ~RebindApply(d)
    BY DEF RebindApply, IInv, TypeOK, Material
  <2>2. PICK d \in Device : RotateCommit(d)
    BY <2>1 DEF Next, server, Tick, SignInRefreshToken, SignInAccessToken, SignInResponse, Reload,
       SessionEnds, Unlock, Lock, RebindFail, RebindReply, Save, Delete, Send,
       WriteAuthenticate, WriteApply, WriteFail, RotateBegin, RotateRead, RotateSend, RotateAuthenticate,
       RotateLock, RotateDelete, RotateReply, RotateFail
  <2>3. /\ HasLock(d) /\ userLock = d /\ rotation[d].key \in Key
        /\ (records[r] \in Row) <=> (snapshot[d][r] \in Row)
        /\ records[r] \in Row => records[r].stamp = snapshot[d][r].stamp
    BY <2>2, RotationForms DEF RotateCommit, Phase, Phases, HasLock, IInv, Locks, RotationSet
  <2>4. records[r] \in Row => records'[r] \in Row
    BY <2>2, <2>3 DEF RotateCommit, Row, IInv, TypeOK
  <2>5. records[r] \notin Row => records'[r] = records[r]
    BY <2>2 DEF RotateCommit
  <2> QED BY <2>3, <2>4, <2>5 DEF Reverted
<1> QED BY <1>1, Invariant, PTL DEF Spec, RotationKeepsEdits
==============================================================================

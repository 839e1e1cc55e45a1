---------------------------- MODULE VaultRotation ----------------------------
(***************************************************************************)
(* The personal vault of one account on several devices: saving records,   *)
(* unlocking, changing the master password and re-binding the private key. *)
(*                                                                         *)
(* The server never decrypts.  A vault key is a number, the order in which *)
(* the clients derived them; the ciphertext of a record is the pair of a   *)
(* key and a body, the body being the number of the edit that wrote it.    *)
(* Each device has one session; its access token and its refresh token     *)
(* stand for the row of each that its requests present.                    *)
(*                                                                         *)
(* The users row serializes vault writes, rotation and re-binding (SELECT  *)
(* ... FOR UPDATE), and holds up every INSERT of a refresh token, whose    *)
(* foreign key takes a share lock on it; an access token has none.         *)
(***************************************************************************)
EXTENDS Integers, FiniteSets

CONSTANTS
  Device,     \* the devices of the account
  Record,     \* the ids of personal vault records, each of a type of its own
  None,       \* no key, no record, no holder
  Deleted,    \* a record that is gone; its id is not used again
  MaxKey,     \* bound: new vault keys
  MaxEdit,    \* bound: records saved or deleted
  MaxTime,    \* bound: seconds that pass
  Enabled     \* bound: what may happen besides: "sign-in", "lost"

ASSUME NoneAssumption == {None, Deleted} \cap (Device \cup Record \cup Int) = {} /\ None # Deleted
ASSUME MaterialAssumption ==
  None \notin [key : Nat, envelope : Nat, version : Nat, legacy : BOOLEAN]
ASSUME BoundAssumption == MaxKey \in Nat /\ MaxEdit \in Nat /\ MaxTime \in Nat

VARIABLES
  user,         \* the vault columns of the users row
  records,      \* the personal records
  now,          \* the clock of the server
  access,       \* devices whose access token exists
  refreshable,  \* devices whose refresh token is usable
  userLock,     \* the rotation that holds the users row
  keys,         \* how many vault keys have been derived
  edits,        \* how many edits have been made
  material,     \* per device: the vault columns it last read
  key,          \* per device: the vault key in memory
  signIn,       \* per device: how far a sign-in got
  write,        \* per device: the vault write in flight
  rotation,     \* per device: the change of the master password in progress
  snapshot,     \* per device: the records its rotation has read
  rebind,       \* per device: the re-binding in flight
  behind        \* history, per device: why it may hold another key than the
                \* account's though no rotation has ended its session

server == <<user, records, access, refreshable, userLock>>
clocks == <<now, keys, edits>>
client == <<material, key, signIn>>
rotating == <<rotation, snapshot>>
vars == <<server, clocks, client, write, rotating, rebind, behind>>

Key == 0..MaxKey
Time == 0..MaxTime
Row == [key : Key, body : 0..MaxEdit, stamp : Time]
Material == [key : Key, envelope : Key, version : 0..(MaxKey + 1), legacy : BOOLEAN]
Stored == Row \cup {None, Deleted}
Idle == [phase |-> "none"]
Phases == {"read", "sent", "authenticated", "locked", "deleted", "reply"}
Unread == [r \in Record |-> None]
(* "own": its own rotation was committed, and it has not taken up the      *)
(* answer; "sign-in": its access token is younger than the DELETE of the   *)
(* rotation and older than the commit; "answer": it took up an answer that *)
(* was overtaken by a rotation, or came after the end of its session.      *)
Reasons == {"no", "own", "sign-in", "answer"}

TypeOK ==
  /\ user \in Material
  /\ records \in [Record -> Stored]
  /\ now \in Time /\ keys \in 0..MaxKey /\ edits \in 0..MaxEdit
  /\ access \subseteq Device /\ refreshable \subseteq Device
  /\ userLock \in Device \cup {None}
  /\ material \in [Device -> Material \cup {None}]
  /\ key \in [Device -> Key \cup {None}]
  /\ \A d \in Device : key[d] # None => material[d] # None /\ key[d] = material[d].key
  /\ signIn \in [Device -> {"no", "row", "token"}]
  /\ write \in [Device -> {None} \cup
       [id : Record, key : Key \cup {None}, body : 0..MaxEdit, authenticated : BOOLEAN]]
  /\ rotation \in [Device -> {Idle} \cup
       [phase : Phases, key : Key, from : Material,
        peers : SUBSET Device, doomed : SUBSET Device]]
  /\ snapshot \in [Device -> [Record -> Stored]]
  /\ rebind \in [Device -> {None} \cup Material \cup
       [version : 0..(MaxKey + 1), key : Key]]
  /\ behind \in [Device -> Reasons]

(* The account exists, some devices are signed in, and a record was saved. *)
Init ==
  /\ user \in [key : {0}, envelope : {0}, version : {0}, legacy : BOOLEAN]
  /\ records \in [Record -> {None, [key |-> 0, body |-> 0, stamp |-> 0]}]
  /\ access \in SUBSET Device /\ refreshable = access
  /\ now = 0 /\ keys = 0 /\ edits = 0 /\ userLock = None
  /\ material = [d \in Device |-> IF d \in access THEN user ELSE None]
  /\ key = [d \in Device |-> None]
  /\ signIn = [d \in Device |-> "no"]
  /\ write = [d \in Device |-> None]
  /\ rotation = [d \in Device |-> Idle]
  /\ snapshot = [d \in Device |-> Unread]
  /\ rebind = [d \in Device |-> None]
  /\ behind = [d \in Device |-> "no"]

------------------------------------------------------------------------------
(* History: what a device reads of the account makes up for the past, but  *)
(* not for a write that is under way.                                      *)
Renewed(d) == behind' = [behind EXCEPT ![d] = IF write[d] = None THEN "no" ELSE @]
Answered(d, k) ==
  IF d \in access /\ k = user.key THEN Renewed(d) ELSE behind' = [behind EXCEPT ![d] = "answer"]

(* setMaterial(): a key that other columns derived is wiped. *)
SetMaterial(d, m) ==
  /\ material' = [material EXCEPT ![d] = m]
  /\ key' = [key EXCEPT ![d] =
       IF material[d] # None /\ material[d].key # m.key THEN None ELSE @]

(* Signing in: issueTokenPair() inserts the refresh token, the access      *)
(* token, and then reads the account again for the response.               *)
SignInRefreshToken(d) ==
  /\ "sign-in" \in Enabled
  /\ material[d] = None /\ signIn[d] = "no" /\ userLock = None
  /\ refreshable' = refreshable \cup {d}
  /\ signIn' = [signIn EXCEPT ![d] = "row"]
  /\ UNCHANGED <<user, records, access, userLock, clocks, material, key, write,
                 rotating, rebind, behind>>

SignInAccessToken(d) ==
  /\ signIn[d] = "row"
  /\ access' = access \cup {d}
  /\ signIn' = [signIn EXCEPT ![d] = "token"]
  /\ UNCHANGED <<user, records, refreshable, userLock, clocks, material, key,
                 write, rotating, rebind, behind>>

SignInResponse(d) ==
  /\ signIn[d] = "token"
  /\ SetMaterial(d, user) /\ Renewed(d)
  /\ signIn' = [signIn EXCEPT ![d] = "no"]
  /\ UNCHANGED <<server, clocks, write, rotating, rebind>>

(* The page is loaded again: hydrate() and the account's current columns. *)
Reload(d) ==
  /\ material[d] # None /\ rotation[d] = Idle /\ rebind[d] = None
  /\ d \in refreshable /\ userLock = None
  /\ access' = access \cup {d}
  /\ material' = [material EXCEPT ![d] = user]
  /\ key' = [key EXCEPT ![d] = None]
  /\ signIn' = [signIn EXCEPT ![d] = "no"]
  /\ Renewed(d)
  /\ UNCHANGED <<user, records, refreshable, userLock, clocks, write, rotating,
                 rebind>>

(* A device whose tokens are refused ends its session: teardownSession().  *)
(* A write that it had sent presents a token that is gone.                 *)
KeyKept(d) == key
WipedKey(d) == [key EXCEPT ![d] = None]

SessionEnds(d) ==
  /\ material[d] # None /\ d \notin access \cup refreshable
  /\ material' = [material EXCEPT ![d] = None]
  /\ key' = WipedKey(d)
  /\ write' = [write EXCEPT ![d] = None]
  /\ behind' = [behind EXCEPT ![d] = "no"]
  /\ UNCHANGED <<server, clocks, signIn, rotating, rebind>>

------------------------------------------------------------------------------
(* unlock(): the key that the user's password derives from the material;   *)
(* it opens the private key, or the user has to try again.  An envelope    *)
(* that is still bound to the e-mail address is sent back re-bound.        *)
Unlock(d) ==
  /\ material[d] # None /\ key[d] = None
  /\ material[d].envelope = material[d].key
  /\ key' = [key EXCEPT ![d] = material[d].key]
  /\ rebind' = IF material[d].legacy /\ rebind[d] = None
       THEN [rebind EXCEPT ![d] = [version |-> material[d].version,
                                   key |-> material[d].key]]
       ELSE rebind
  /\ UNCHANGED <<server, clocks, material, signIn, write, rotating, behind>>

(* lock(): by hand or when idle. *)
Lock(d) ==
  /\ key[d] # None
  /\ key' = [key EXCEPT ![d] = None]
  /\ UNCHANGED <<server, clocks, material, signIn, write, rotating, rebind, behind>>

Rebinding(d) == rebind[d] # None /\ "legacy" \notin DOMAIN rebind[d]

(* rebindPrivateKey(): lock the users row, compare the version. *)
SameVersion(v) == v
NextVersion(v) == v + 1

RebindApply(d) ==
  /\ Rebinding(d) /\ d \in access /\ userLock = None
  /\ rebind[d].version = user.version /\ user.legacy
  /\ user' = [user EXCEPT !.envelope = rebind[d].key, !.legacy = FALSE,
                          !.version = NextVersion(user.version)]
  /\ rebind' = [rebind EXCEPT ![d] = user']
  /\ UNCHANGED <<records, access, refreshable, userLock, clocks, client, write,
                 rotating, behind>>

(* Refused, failed or lost on the way: the next unlock tries again. *)
RebindFail(d) ==
  /\ rebind[d] # None
  /\ rebind' = [rebind EXCEPT ![d] = None]
  /\ UNCHANGED <<server, clocks, client, write, rotating, behind>>

(* The response is taken up unless the vault was locked meanwhile. *)
RebindReply(d) ==
  /\ rebind[d] # None /\ ~Rebinding(d)
  /\ rebind' = [rebind EXCEPT ![d] = None]
  /\ IF key[d] # None
       THEN SetMaterial(d, rebind[d]) /\ Answered(d, rebind[d].key)
       ELSE UNCHANGED <<material, key, behind>>
  /\ UNCHANGED <<server, clocks, signIn, write, rotating>>

------------------------------------------------------------------------------
(* A client encrypts a record with the key in memory and sends it; body 0   *)
(* and no key stand for a deletion.                                        *)
Send(d, r, k) ==
  /\ key[d] # None /\ write[d] = None /\ edits < MaxEdit
  /\ edits' = edits + 1
  /\ write' = [write EXCEPT ![d] = [id |-> r, key |-> k, authenticated |-> FALSE,
                 body |-> IF k = None THEN 0 ELSE edits + 1]]
  /\ UNCHANGED <<server, now, keys, client, rotating, rebind, behind>>
Save(d, r) == key[d] # None /\ records[r] # Deleted /\ Send(d, r, key[d])
Delete(d, r) == records[r] \in Row /\ Send(d, r, None)

(* auth:sanctum lets the request in. *)
WriteAuthenticate(d) ==
  /\ write[d] # None /\ ~write[d].authenticated /\ d \in access
  /\ write' = [write EXCEPT ![d].authenticated = TRUE]
  /\ UNCHANGED <<server, clocks, client, rotating, rebind, behind>>

(* SerializeVaultWrites: the users row, then the access token once more.   *)
(* The controller's statements and the commit happen under that lock.      *)
NoSecondLook(d) == d \in Device
TokenStillExists(d) == d \in access

WriteApply(d) ==
  /\ write[d] # None /\ write[d].authenticated /\ userLock = None
  /\ TokenStillExists(d)
  /\ records[write[d].id] # Deleted
  /\ records' = [records EXCEPT ![write[d].id] =
       IF write[d].key = None THEN Deleted
       ELSE [key |-> write[d].key, body |-> write[d].body, stamp |-> now]]
  /\ write' = [write EXCEPT ![d] = None]
  /\ UNCHANGED <<user, access, refreshable, userLock, clocks, client, rotating,
                 rebind, behind>>

(* Refused (401, 404) or lost. *)
WriteFail(d) ==
  /\ write[d] # None
  /\ write' = [write EXCEPT ![d] = None]
  /\ UNCHANGED <<server, clocks, client, rotating, rebind, behind>>

------------------------------------------------------------------------------
(* rotateMasterPassword() of the client: derive the current key from the   *)
(* material of the page and a new one, list the records type by type and   *)
(* decrypt each.                                                           *)
Phase(d, from, to) ==
  /\ rotation[d].phase = from
  /\ rotation' = [rotation EXCEPT ![d].phase = to]

RotateBegin(d) ==
  /\ key[d] # None /\ material[d] # None /\ rotation[d] = Idle /\ keys < MaxKey
  /\ keys' = keys + 1
  /\ rotation' = [rotation EXCEPT ![d] =
       [phase |-> "read", key |-> keys + 1, from |-> material[d],
        peers |-> {}, doomed |-> {}]]
  /\ UNCHANGED <<server, now, edits, client, write, snapshot, rebind, behind>>

Listed(r) == IF records[r] \in Row THEN records[r] ELSE Deleted

RotateRead(d, r) ==
  /\ rotation[d].phase = "read" /\ d \in access /\ snapshot[d][r] = None
  /\ records[r] \in Row => records[r].key = rotation[d].from.key
  /\ snapshot' = [snapshot EXCEPT ![d][r] = Listed(r)]
  /\ UNCHANGED <<server, clocks, client, write, rotation, rebind, behind>>

RotateSend(d) ==
  /\ \A r \in Record : snapshot[d][r] # None
  /\ Phase(d, "read", "sent")
  /\ UNCHANGED <<server, clocks, client, write, snapshot, rebind, behind>>

RotateAuthenticate(d) ==
  /\ d \in access
  /\ Phase(d, "sent", "authenticated")
  /\ UNCHANGED <<server, clocks, client, write, snapshot, rebind, behind>>

(* The server locks the users row, compares the version, locks the refresh *)
(* token that is to stay, and compares the ids and updated_at of the items *)
(* with the personal records.                                              *)
SameIds(d, r) == (records[r] \in Row) <=> (snapshot[d][r] \in Row)
Unchanged(d, r) ==
  /\ (records[r] \in Row) <=> (snapshot[d][r] \in Row)
  /\ records[r] \in Row => records[r].stamp = snapshot[d][r].stamp

RotateLock(d) ==
  /\ rotation[d].phase = "authenticated" /\ userLock = None
  /\ rotation[d].from.version = user.version /\ d \in refreshable
  /\ \A r \in Record : Unchanged(d, r)
  /\ rotation' = [rotation EXCEPT ![d].phase = "locked"]
  /\ userLock' = d
  /\ UNCHANGED <<user, records, access, refreshable, clocks, client, write,
                 snapshot, rebind, behind>>

(* The DELETE of the other access tokens acts on those that it finds.  *)
DoomedNone(d) == {}
Doomed(d) == access \ {d}

RotateDelete(d) ==
  /\ rotation[d].phase = "locked"
  /\ rotation' = [rotation EXCEPT ![d].phase = "deleted", ![d].doomed = Doomed(d),
                                ![d].peers = access \ {d}]
  /\ UNCHANGED <<server, clocks, client, write, snapshot, rebind, behind>>

(* No refresh token was inserted since the lock was taken. *)
RotateCommit(d) ==
  /\ Phase(d, "deleted", "reply")
  /\ user' = [key |-> rotation[d].key, envelope |-> rotation[d].key, legacy |-> FALSE,
              version |-> NextVersion(user.version)]
  /\ records' = [r \in Record |->
       IF records[r] \notin Row THEN records[r]
       ELSE [key |-> rotation[d].key, body |-> snapshot[d][r].body, stamp |-> now]]
  /\ access' = access \ rotation[d].doomed
  /\ refreshable' = refreshable \cap {d}
  /\ userLock' = None
  /\ behind' = [e \in Device |->
       IF e = d THEN "own" ELSE IF e \in rotation[d].peers THEN "no"
       ELSE IF e \in access THEN "sign-in" ELSE behind[e]]
  /\ UNCHANGED <<clocks, client, write, snapshot, rebind>>

Ended(d) ==
  /\ rotation' = [rotation EXCEPT ![d] = Idle]
  /\ snapshot' = [snapshot EXCEPT ![d] = Unread]

(* The response arrives: replaceKey(). *)
RotateReply(d) ==
  /\ rotation[d].phase = "reply"
  /\ Ended(d)
  /\ key' = [key EXCEPT ![d] = rotation[d].key]
  /\ material' = [material EXCEPT ![d] =
       [key |-> rotation[d].key, envelope |-> rotation[d].key, legacy |-> FALSE,
        version |-> NextVersion(rotation[d].from.version)]]
  /\ Answered(d, rotation[d].key)
  /\ UNCHANGED <<server, clocks, signIn, write, rebind>>

(* An error is thrown: a record did not decrypt, the server refused or     *)
(* rolled back, or the request or its response was lost.  The new key is   *)
(* wiped and the dialog says that it failed.                               *)
RotateFail(d) ==
  /\ rotation[d] # Idle
  /\ rotation[d].phase = "reply" => "lost" \in Enabled
  /\ Ended(d)
  /\ userLock' = IF userLock = d THEN None ELSE userLock
  /\ UNCHANGED <<user, records, access, refreshable, clocks, client, write, rebind,
                 behind>>

------------------------------------------------------------------------------
Tick ==
  /\ now < MaxTime
  /\ now' = now + 1
  /\ UNCHANGED <<server, keys, edits, client, write, rotating, rebind, behind>>

Next ==
  \/ Tick
  \/ \E d \in Device :
       \/ SignInRefreshToken(d) \/ SignInAccessToken(d) \/ SignInResponse(d)
       \/ Reload(d) \/ SessionEnds(d) \/ Unlock(d) \/ Lock(d)
       \/ RebindApply(d) \/ RebindFail(d) \/ RebindReply(d)
       \/ WriteAuthenticate(d) \/ WriteApply(d) \/ WriteFail(d)
       \/ RotateBegin(d) \/ RotateSend(d) \/ RotateAuthenticate(d) \/ RotateLock(d)
       \/ RotateDelete(d) \/ RotateCommit(d) \/ RotateReply(d) \/ RotateFail(d)
       \/ \E r \in Record : Save(d, r) \/ Delete(d, r) \/ RotateRead(d, r)

Spec == Init /\ [][Next]_vars

------------------------------------------------------------------------------
(* What a device has read of the account hangs together, and the version   *)
(* says which vault key it is: two devices that read the same version      *)
(* derive the same key, however unlocks, re-bindings and rotations of      *)
(* several devices are interleaved.  lockUser() relies on it.              *)
VersionNamesKey ==
  /\ user.envelope = user.key
  /\ \A d \in Device : material[d] # None =>
       /\ material[d].envelope = material[d].key
       /\ material[d].version = user.version => material[d] = user

(* What is stored is encrypted with the key of the account, whatever was   *)
(* in flight or waited for a rotation: a write with another key is of a    *)
(* device that the rotation spared and that does not know it yet. These    *)
(* are the device that rotates, until it has the answer, one that signed   *)
(* in between the DELETE of the other access tokens and the commit, and    *)
(* one that took up an answer too late.                                    *)
StoredBy(d) == records' # records /\ write'[d] # write[d]
OldKeyWritesRefused ==
  [][\A d \in Device : StoredBy(d) /\ behind[d] = "no" =>
       write[d].key \in {None, user.key}]_vars

(* SerializeVaultWrites: "A write that was already in flight when another  *)
(* device rotated the vault key therefore fails instead of storing         *)
(* ciphertext made with the previous key." Refuted: by a sign-in between   *)
(* the DELETE and the commit.                                              *)
WaitingWritesFail ==
  [][\A d \in Device : StoredBy(d) /\ behind[d] # "own" =>
       write[d].key \in {None, user.key}]_vars

(* A rotation changes keys and neither adds, drops nor reverts a record: a *)
(* record may lose an edit only to the read of another one of the very     *)
(* second in which that edit was made.                                     *)
Reverted(r) == records[r] \in Row /\ records'[r].body # records[r].body
RotationKeepsEdits ==
  [][user'.key # user.key =>
       \A r \in Record :
         /\ (records[r] \in Row) <=> (records'[r] \in Row)
         /\ Reverted(r) => records[r].stamp = snapshot[userLock][r].stamp]_vars

(* VaultRotationService: "the submitted records are exactly the user's     *)
(* current personal records (each unchanged since the client read it)".    *)
RotationKeepsRecords == [][user'.key # user.key => \A r \in Record : ~Reverted(r)]_vars

==============================================================================

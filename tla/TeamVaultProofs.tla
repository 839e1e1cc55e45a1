---------------------------- MODULE TeamVaultProofs ----------------------------
(***************************************************************************)
(* Proofs about TeamVault for any number of users, records, keys and       *)
(* edits.                                                                  *)
(***************************************************************************)
EXTENDS TeamVault, TLAPS

(* What a client holds of a team: at the current version it is the current *)
(* key, and no client holds a version that is still to come.               *)
Fits(pair, version, key) ==
  pair.version <= version /\ (pair.version = version => pair.key = key)

Pairs ==
  \A u \in User :
    /\ loading[u] # None => loading[u] <= team.version
    /\ scope[u] # None => Fits(scope[u], team.version, team.name.key)
    /\ request[u] # None /\ request[u].op # "delete" =>
         Fits(request[u].pair, team.version, team.name.key)

(* A key is numbered when it is generated, and a version has one of them.  *)
Counted ==
  /\ team.version <= team.name.key + 1
  /\ team.name.key <= keys
  /\ \A u \in User : known[u] \subseteq 0..keys

(* A client that prepares a removal alone has the key that it generated.   *)
Generated(u) ==
  request[u] # None /\ request[u].op = "remove" /\ request[u].phase \in {"read", "sent"}

Fresh ==
  \A u \in User : Generated(u) =>
    /\ request[u].key \in known[u] /\ request[u].key # team.name.key
    /\ \A t \in User \ {u} : request[u].key \notin known[t]
    /\ request[u].pair.version = team.version => team.name.key < request[u].key

IInv ==
  /\ TypeOK /\ OneTeamKey /\ OutsidersLackKey /\ KeepsAnOwner
  /\ Pairs /\ Counted /\ Fresh

------------------------------------------------------------------------------
(* The kinds of request. *)
Removals(u) ==
  [op : {"remove"}, phase : {"list", "read", "sent", "reply"}, pair : Pair,
   target : User \ {u}, name : Ciphertext, remaining : SUBSET User, key : Key,
   snapshot : [Record -> Stored]]

LEMMA RequestForms ==
  ASSUME TypeOK, NEW u \in User, request[u] # None
  PROVE  /\ request[u].op \in {"save", "rename", "add", "delete", "remove"}
         /\ request[u].op # "delete" => request[u].pair \in Pair
         /\ request[u].op = "save" => request[u].record \in Record /\ request[u].body \in 0..MaxEdit
         /\ request[u].op = "rename" => request[u].body \in 0..MaxEdit
         /\ request[u].op = "add" => request[u].target \in User /\ request[u].role \in Role
         /\ request[u].op = "remove" => request[u] \in Removals(u)
<1> DEFINE Saves == [op : {"save"}, pair : Pair, record : Record, body : 0..MaxEdit]
           Renames == [op : {"rename"}, pair : Pair, body : 0..MaxEdit]
           Adds == [op : {"add"}, pair : Pair, target : User, role : Role]
           Deletes == [op : {"delete"}]
<1>1. \/ request[u] \in Saves \/ request[u] \in Renames \/ request[u] \in Adds
      \/ request[u] \in Deletes \/ request[u] \in Removals(u)
  <2>1. request[u] \in {None} \cup Saves \cup Renames \cup Adds \cup Deletes \cup Removals(u)
    BY DEF TypeOK, Requests, Removals
  <2> HIDE DEF Saves, Renames, Adds, Deletes
  <2> QED BY <2>1
<1>2. CASE request[u] \in Saves
  BY <1>2
<1>3. CASE request[u] \in Renames
  BY <1>3
<1>4. CASE request[u] \in Adds
  BY <1>4
<1>5. CASE request[u] \in Deletes
  BY <1>5
<1>6. CASE request[u] \in Removals(u)
  BY <1>6 DEF Removals
<1> HIDE DEF Saves, Renames, Adds, Deletes
<1> QED BY <1>1, <1>2, <1>3, <1>4, <1>5, <1>6

LEMMA MemberIsNotNone == ASSUME NEW role \in Role, NEW key \in Key
                         PROVE  [role |-> role, key |-> key] # None
<1>1. role \in Role /\ key \in Nat
  BY BoundAssumption DEF Key
<1>2. [role |-> role, key |-> key] \in [role : Role, key : Nat]
  BY <1>1
<1> QED BY <1>2, NoneAssumption

(* A member stays one when its role or its key changes. *)
LEMMA MemberForms ==
  ASSUME TypeOK, NEW u \in User, members[u] # None
  PROVE  /\ members[u].role \in Role /\ members[u].key \in Key
         /\ \A role \in Role : [members[u] EXCEPT !.role = role] = [role |-> role, key |-> members[u].key]
         /\ \A key \in Key : [members[u] EXCEPT !.key = key] = [role |-> members[u].role, key |-> key]
BY DEF TypeOK

LEMMA Initial == Init => IInv
<1> SUFFICES ASSUME Init PROVE IInv
  OBVIOUS
<1> USE BoundAssumption
<1>1. TypeOK
  BY DEF Init, TypeOK, Version, Ciphertext, Key, Stored, Requests
<1>2. OneTeamKey
  <2>1. ASSUME NEW id \in Record, records[id] \in Ciphertext PROVE records[id].key = 0
    <3>1. records[id] # None
      BY <2>1, NoneAssumption DEF Ciphertext, Key
    <3> QED BY <2>1, <3>1 DEF Init
  <2> QED BY <2>1 DEF Init, OneTeamKey, Members
<1>3. OutsidersLackKey /\ KeepsAnOwner /\ Pairs /\ Counted /\ Fresh
  BY DEF Init, OutsidersLackKey, KeepsAnOwner, Pairs, Counted, Fresh, Generated
<1> QED BY <1>1, <1>2, <1>3 DEF IInv

------------------------------------------------------------------------------
(* The steps: of clients, of removals short of their transaction, and of   *)
(* the server.                                                             *)
ClientStep(u) ==
  \/ LoadTeam(u) \/ LoadMembership(u) \/ LoseKey(u)
  \/ Rename(u) \/ DeleteTeam(u) \/ RequestFail(u)
  \/ \E id \in Record : Save(u, id)
  \/ \E t \in User, role \in Role : Add(u, t, role)

RemoveStep(u) ==
  \/ \E t \in User : Remove(u, t)
  \/ RemoveList(u) \/ RemoveSend(u) \/ RemoveReply(u)
  \/ \E id \in Record : RemoveRead(u, id)

ServerStep(u) ==
  \/ SaveApply(u) \/ RenameApply(u) \/ AddApply(u) \/ DeleteTeamApply(u)
  \/ \E id \in Record : DeleteRecord(u, id)
  \/ \E t \in User, role \in Role : ChangeRole(u, t, role)

LEMMA Steps == Next <=> \E u \in User : ClientStep(u) \/ RemoveStep(u) \/ ServerStep(u) \/ RemoveApply(u)
BY DEF Next, ClientStep, RemoveStep, ServerStep

LEMMA QuietServer ==
  ASSUME NEW u \in User, ClientStep(u) \/ RemoveStep(u) PROVE UNCHANGED server
BY DEF ClientStep, RemoveStep, LoadTeam, LoadMembership, LoseKey, Send, Save, Rename, Add,
   DeleteTeam, RequestFail, Remove, RemoveList, RemoveRead, RemoveSend, RemoveReply

------------------------------------------------------------------------------
(* Type correctness. *)

LEMMA RequestTypes ==
  ASSUME NEW u \in User, NEW r,
         \/ r \in [op : {"save"}, pair : Pair, record : Record, body : 0..MaxEdit]
         \/ r \in [op : {"rename"}, pair : Pair, body : 0..MaxEdit]
         \/ r \in [op : {"add"}, pair : Pair, target : User, role : Role]
         \/ r \in [op : {"delete"}] \/ r \in Removals(u) \/ r = None
  PROVE  r \in Requests(u)
BY DEF Requests, Removals

(* A key and an edit more, a version of it. *)
LEMMA Counters ==
  /\ \A n \in Key : n < MaxKey => n + 1 \in Key
  /\ \A n \in 0..MaxEdit : n < MaxEdit => n + 1 \in 0..MaxEdit
  /\ \A v \in Version, k \in Key : v <= k => v + 1 \in Version
  /\ Key \subseteq Nat /\ Version \subseteq Nat
BY BoundAssumption DEF Key, Version

LEMMA RemoveApplyType == ASSUME IInv, NEW u \in User, RemoveApply(u) PROVE TypeOK'
<1> DEFINE p == request[u]
<1>1. TypeOK
  BY DEF IInv
<1>2. request[u] # None /\ request[u].op = "remove" /\ request[u].phase = "sent"
      /\ request[u].pair.version = team.version
  BY DEF RemoveApply, Handles, CurrentVersion
<1>3. request[u] \in Removals(u)
  BY <1>1, <1>2, RequestForms
<1>4. p.key \in Key /\ p.name \in Ciphertext /\ p.snapshot \in [Record -> Stored]
  BY <1>3 DEF Removals
<1>5. team' = [team EXCEPT !.version = @ + 1, !.name = [key |-> p.key, body |-> p.name.body]]
  BY DEF RemoveApply
<1>6. team'.version \in Version
  <2>1. team.version <= team.name.key + 1 /\ team.name.key < p.key
    BY <1>2 DEF IInv, Counted, Fresh, Generated
  <2>2. team.version \in Version /\ team.name.key \in Key
    BY <1>1 DEF TypeOK, Ciphertext
  <2>3. team.version \in Nat /\ team.name.key \in Nat /\ p.key \in Nat
    BY <2>2, <1>4, Counters
  <2>4. team.version <= p.key
    BY <2>1, <2>3
  <2>5. team'.version = team.version + 1
    BY <1>1, <1>5 DEF TypeOK
  <2> QED BY <2>2, <2>4, <2>5, <1>4, Counters
<1>7. team' \in [version : Version, name : Ciphertext, deleted : BOOLEAN]
  BY <1>1, <1>4, <1>5, <1>6 DEF TypeOK, Ciphertext
<1>8. members' \in [User -> {None} \cup [role : Role, key : Key]]
  <2>1. \A t \in User : t \in p.remaining => members[t] # None
    BY <1>2 DEF RemoveApply, EveryMember, Members
  <2>2. ASSUME NEW t \in User, t \in p.remaining
        PROVE  [members[t] EXCEPT !.key = p.key] \in [role : Role, key : Key]
    <3>1. /\ members[t].role \in Role
          /\ [members[t] EXCEPT !.key = p.key] = [role |-> members[t].role, key |-> p.key]
      BY <2>1, <2>2, <1>1, <1>4, MemberForms
    <3> QED BY <3>1, <1>4
  <2> QED BY <2>2, <1>1, <1>4 DEF RemoveApply, TypeOK
<1>9. records' \in [Record -> Stored]
  <2>1. ASSUME NEW id \in Record, records[id] \in Ciphertext
        PROVE  [key |-> p.key, body |-> p.snapshot[id].body] \in Ciphertext
    BY <2>1, <1>4 DEF RemoveApply, SameCiphertext, Listed, Ciphertext
  <2> QED BY <2>1, <1>1 DEF RemoveApply, TypeOK, Stored
<1>10. DOMAIN request' = User /\ \A t \in User : request'[t] \in Requests(t)
  <2>1. [request[u] EXCEPT !.phase = "reply"] \in Removals(u)
    BY <1>3 DEF Removals
  <2> QED BY <2>1, <1>1, RequestTypes DEF RemoveApply, TypeOK
<1> QED BY <1>1, <1>7, <1>8, <1>9, <1>10 DEF RemoveApply, TypeOK, counts, client

LEMMA RemoveType ==
  ASSUME IInv, NEW u \in User, RemoveStep(u) PROVE TypeOK'
<1> USE DEF server, counts, client
<1>1. TypeOK
  BY DEF IInv
<1>2. ASSUME NEW t \in User, Remove(u, t) PROVE TypeOK'
  <2> DEFINE r == [op |-> "remove", phase |-> "list", pair |-> scope[u], target |-> t,
                   name |-> team.name, remaining |-> {}, key |-> 0,
                   snapshot |-> [id \in Record |-> None]]
  <2>1. scope[u] \in Pair /\ t \in User \ {u} /\ team.name \in Ciphertext /\ 0 \in Key
    BY <1>1, <1>2, BoundAssumption DEF Remove, OtherThan, TypeOK, Key
  <2>2. r \in Removals(u)
    BY <2>1 DEF Removals, Stored
  <2>3. request' = [request EXCEPT ![u] = r]
    BY <1>2 DEF Remove, Send
  <2> QED BY <2>2, <2>3, <1>1, <1>2, RequestTypes DEF Remove, Send, TypeOK
<1>3. ASSUME NEW phase, Removing(u, phase) PROVE request[u] \in Removals(u)
  BY <1>1, <1>3, RequestForms DEF Removing
<1>4. CASE RemoveList(u)
  <2>1. keys' \in Key
    BY <1>1, <1>4, Counters DEF RemoveList, TypeOK
  <2>2. [[[request[u] EXCEPT !.phase = "read"] EXCEPT !.key = keys'] EXCEPT
           !.remaining = Members \ {request[u].target}] \in Removals(u)
    BY <2>1, <1>3, <1>4 DEF RemoveList, Removals, Members
  <2>3. DOMAIN request' = User /\ \A t \in User : request'[t] \in Requests(t)
    BY <2>2, <1>1, <1>4, RequestTypes DEF RemoveList, TypeOK
  <2>4. known' \in [User -> SUBSET Key]
    BY <2>1, <1>1, <1>4 DEF RemoveList, TypeOK
  <2> QED BY <2>1, <2>3, <2>4, <1>1, <1>4 DEF RemoveList, TypeOK
<1>5. ASSUME NEW id \in Record, RemoveRead(u, id) PROVE TypeOK'
  <2>1. Listed(id) \in Stored
    BY <1>1 DEF Listed, TypeOK, Stored
  <2>2. [request[u] EXCEPT !.snapshot = [request[u].snapshot EXCEPT ![id] = Listed(id)]] \in Removals(u)
    BY <2>1, <1>3, <1>5 DEF RemoveRead, Removals
  <2>3. DOMAIN request' = User /\ \A t \in User : request'[t] \in Requests(t)
    BY <2>2, <1>1, <1>5, RequestTypes DEF RemoveRead, TypeOK
  <2> QED BY <2>3, <1>1, <1>5 DEF RemoveRead, TypeOK
<1>6. CASE RemoveSend(u)
  <2>1. [request[u] EXCEPT !.phase = "sent"] \in Removals(u)
    BY <1>3, <1>6 DEF RemoveSend, Removals
  <2>2. DOMAIN request' = User /\ \A t \in User : request'[t] \in Requests(t)
    BY <2>1, <1>1, <1>6, RequestTypes DEF RemoveSend, TypeOK
  <2> QED BY <2>2, <1>1, <1>6 DEF RemoveSend, TypeOK
<1>7. CASE RemoveReply(u)
  <2>1. DOMAIN request' = User /\ \A t \in User : request'[t] \in Requests(t)
    BY <1>1, <1>7, RequestTypes DEF RemoveReply, Answered, TypeOK
  <2> QED BY <2>1, <1>1, <1>7 DEF RemoveReply, TypeOK
<1> QED BY <1>2, <1>4, <1>5, <1>6, <1>7 DEF RemoveStep

LEMMA ClientType ==
  ASSUME IInv, NEW u \in User, ClientStep(u) PROVE TypeOK'
<1> USE DEF server, counts, client
<1>1. TypeOK
  BY DEF IInv
<1>2. CASE LoadTeam(u) \/ LoseKey(u)
  BY <1>1, <1>2 DEF LoadTeam, LoseKey, TypeOK
<1>3. CASE LoadMembership(u)
  <2>1. members[u].key \in Key /\ loading[u] \in Version
    BY <1>1, <1>3, MemberForms DEF LoadMembership, Members, TypeOK
  <2>2. [version |-> loading[u], key |-> members[u].key] \in Pair
    BY <2>1 DEF Pair
  <2> QED BY <2>1, <2>2, <1>1, <1>3 DEF LoadMembership, SelectTeamKey, TypeOK
<1>4. ASSUME NEW r \in Requests(u), Send(u, r), edits' \in 0..MaxEdit PROVE TypeOK'
  BY <1>1, <1>4 DEF Send, TypeOK
<1>5. scope[u] # None => scope[u] \in Pair
  BY <1>1 DEF TypeOK
<1>6. ASSUME NEW id \in Record, Save(u, id) PROVE TypeOK'
  <2>1. edits' \in 0..MaxEdit
    BY <1>1, <1>6, Counters DEF Save, TypeOK
  <2>2. [op |-> "save", pair |-> scope[u], record |-> id, body |-> edits'] \in Requests(u)
    BY <2>1, <1>5, <1>6, RequestTypes DEF Save
  <2> QED BY <2>1, <2>2, <1>4, <1>6 DEF Save
<1>7. CASE Rename(u)
  <2>1. edits' \in 0..MaxEdit
    BY <1>1, <1>7, Counters DEF Rename, TypeOK
  <2>2. [op |-> "rename", pair |-> scope[u], body |-> edits'] \in Requests(u)
    BY <2>1, <1>5, <1>7, RequestTypes DEF Rename
  <2> QED BY <2>1, <2>2, <1>4, <1>7 DEF Rename
<1>8. ASSUME NEW t \in User, NEW role \in Role, Add(u, t, role) PROVE TypeOK'
  <2>1. [op |-> "add", pair |-> scope[u], target |-> t, role |-> role] \in Requests(u)
    BY <1>5, <1>8, RequestTypes DEF Add
  <2> QED BY <2>1, <1>1, <1>4, <1>8 DEF Add, TypeOK
<1>9. CASE DeleteTeam(u)
  <2>1. [op |-> "delete"] \in Requests(u)
    BY RequestTypes
  <2> QED BY <2>1, <1>1, <1>4, <1>9 DEF DeleteTeam, TypeOK
<1>10. CASE RequestFail(u)
  <2>1. scope' \in [User -> Pair \cup {None}]
    BY <1>1, <1>10 DEF RequestFail, TypeOK
  <2>2. None \in Requests(u)
    BY RequestTypes
  <2> QED BY <2>1, <2>2, <1>1, <1>10 DEF RequestFail, Answered, TypeOK
<1> QED BY <1>2, <1>3, <1>6, <1>7, <1>8, <1>9, <1>10 DEF ClientStep

LEMMA ServerType ==
  ASSUME IInv, NEW u \in User, ServerStep(u) PROVE TypeOK'
<1> USE DEF server, counts, client
<1>1. TypeOK
  BY DEF IInv
<1>2. None \in Requests(u)
  BY RequestTypes
<1>3. CASE SaveApply(u)
  <2>1. request[u].pair \in Pair /\ request[u].record \in Record /\ request[u].body \in 0..MaxEdit
    BY <1>1, <1>3, RequestForms DEF SaveApply, Handles
  <2>2. [key |-> request[u].pair.key, body |-> request[u].body] \in Ciphertext
    BY <2>1 DEF Pair, Ciphertext
  <2>3. records' \in [Record -> Stored]
    BY <2>1, <2>2, <1>1, <1>3 DEF SaveApply, TypeOK, Stored
  <2> QED BY <2>3, <1>1, <1>2, <1>3 DEF SaveApply, Answered, TypeOK
<1>4. CASE RenameApply(u)
  <2>1. request[u].pair \in Pair /\ request[u].body \in 0..MaxEdit
    BY <1>1, <1>4, RequestForms DEF RenameApply, Handles
  <2>2. [key |-> request[u].pair.key, body |-> request[u].body] \in Ciphertext
    BY <2>1 DEF Pair, Ciphertext
  <2>3. team' \in [version : Version, name : Ciphertext, deleted : BOOLEAN]
    BY <2>2, <1>1, <1>4 DEF RenameApply, TypeOK
  <2> QED BY <2>3, <1>1, <1>2, <1>4 DEF RenameApply, Answered, TypeOK
<1>5. CASE AddApply(u)
  <2>1. request[u].pair \in Pair /\ request[u].role \in Role /\ request[u].target \in User
    BY <1>1, <1>5, RequestForms DEF AddApply, Handles
  <2>2. [role |-> request[u].role, key |-> request[u].pair.key] \in [role : Role, key : Key]
    BY <2>1 DEF Pair
  <2>3. members' \in [User -> {None} \cup [role : Role, key : Key]]
    BY <2>1, <2>2, <1>1, <1>5 DEF AddApply, TypeOK
  <2> QED BY <2>3, <1>1, <1>2, <1>5 DEF AddApply, Answered, TypeOK
<1>6. CASE DeleteTeamApply(u)
  BY <1>1, <1>2, <1>6 DEF DeleteTeamApply, Answered, TypeOK
<1>7. ASSUME NEW id \in Record, DeleteRecord(u, id) PROVE TypeOK'
  BY <1>1, <1>7 DEF DeleteRecord, TypeOK, Stored
<1>8. ASSUME NEW t \in User, NEW role \in Role, ChangeRole(u, t, role) PROVE TypeOK'
  <2>1. [members[t] EXCEPT !.role = role] \in [role : Role, key : Key]
    BY <1>1, <1>8 DEF ChangeRole, Members, TypeOK
  <2>2. members' \in [User -> {None} \cup [role : Role, key : Key]]
    BY <2>1, <1>1, <1>8 DEF ChangeRole, TypeOK
  <2> QED BY <2>2, <1>1, <1>8 DEF ChangeRole, TypeOK
<1> QED BY <1>3, <1>4, <1>5, <1>6, <1>7, <1>8 DEF ServerStep

------------------------------------------------------------------------------
(* What the clients hold and know. *)

(* What a transaction short of a removal leaves alone: the version and the *)
(* key of the team.                                                        *)
LEMMA ServerKeeps ==
  ASSUME IInv, NEW u \in User, ServerStep(u)
  PROVE  /\ team'.version = team.version /\ team'.name.key = team.name.key
         /\ UNCHANGED <<keys, loading, scope, known>>
         /\ \A t \in User : request'[t] \in {request[t], None}
<1> USE DEF server, counts, client
<1>1. TypeOK /\ Pairs
  BY DEF IInv
<1>2. CASE RenameApply(u)
  <2>1. request[u].pair.key = team.name.key
    BY <1>1, <1>2 DEF RenameApply, Handles, CurrentVersion, Pairs, Fits
  <2> QED BY <2>1, <1>1, <1>2 DEF RenameApply, Answered, TypeOK
<1>3. CASE SaveApply(u) \/ AddApply(u) \/ DeleteTeamApply(u)
  BY <1>1, <1>3 DEF SaveApply, AddApply, DeleteTeamApply, Answered, TypeOK
<1>4. CASE \/ \E id \in Record : DeleteRecord(u, id)
           \/ \E t \in User, role \in Role : ChangeRole(u, t, role)
  BY <1>1, <1>4 DEF DeleteRecord, ChangeRole
<1> QED BY <1>2, <1>3, <1>4 DEF ServerStep

LEMMA ServerClients ==
  ASSUME IInv, NEW u \in User, ServerStep(u) PROVE Pairs' /\ Counted' /\ Fresh'
<1>1. /\ team'.version = team.version /\ team'.name.key = team.name.key
      /\ UNCHANGED <<keys, loading, scope, known>>
      /\ \A t \in User : request'[t] \in {request[t], None}
  BY ServerKeeps
<1>2. Pairs /\ Counted /\ Fresh
  BY DEF IInv
<1>3. Pairs'
  BY <1>1, <1>2 DEF Pairs, Fits
<1>4. Counted'
  BY <1>1, <1>2 DEF Counted
<1>5. Fresh'
  BY <1>1, <1>2 DEF Fresh, Generated
<1> QED BY <1>3, <1>4, <1>5

(* Steps of a client that generate no key. *)
LEMMA ClientClients ==
  ASSUME IInv, NEW u \in User, ClientStep(u) \/ RemoveStep(u), ~RemoveList(u)
  PROVE  Pairs' /\ Counted' /\ Fresh' /\ OutsidersLackKey'
<1> USE DEF server, counts, client
<1>1. TypeOK /\ Pairs /\ Counted /\ Fresh /\ OutsidersLackKey
  BY DEF IInv
<1>2. UNCHANGED server
  BY QuietServer
<1>3. CASE LoadTeam(u) \/ LoseKey(u)
  <2>1. UNCHANGED <<team, members, keys, request, known>>
    BY <1>3 DEF LoadTeam, LoseKey
  <2>2. \A t \in User : /\ loading'[t] \in {loading[t], None, team.version}
                       /\ scope'[t] \in {scope[t], None}
    BY <1>1, <1>3 DEF LoadTeam, LoseKey, TypeOK
  <2>3. team.version <= team.version
    <3>1. team.version \in Version
      BY <1>1 DEF TypeOK
    <3> QED BY <3>1 DEF Version
  <2>4. Pairs'
    BY <2>1, <2>2, <2>3, <1>1 DEF Pairs, Fits
  <2> QED BY <2>1, <2>4, <1>1 DEF Counted, Fresh, Generated, OutsidersLackKey, Members
<1>4. CASE LoadMembership(u)
  <2>1. u \in Members /\ members[u].key = team.name.key /\ loading[u] <= team.version
    BY <1>1, <1>4 DEF LoadMembership, IInv, OneTeamKey, Pairs
  <2>2. /\ UNCHANGED <<team, members, keys, request>>
        /\ \A t \in User \ {u} : known'[t] = known[t] /\ scope'[t] = scope[t] /\ loading'[t] = loading[t]
        /\ known'[u] = known[u] \cup {team.name.key} /\ loading'[u] = None
        /\ scope'[u] = [version |-> loading[u], key |-> team.name.key]
    BY <2>1, <1>1, <1>4 DEF LoadMembership, SelectTeamKey, TypeOK
  <2>3. Pairs'
    BY <2>1, <2>2, <1>1 DEF Pairs, Fits
  <2>4. team.name.key \in 0..keys
    <3>1. team.name.key \in Key /\ keys \in Key
      BY <1>1 DEF TypeOK, Ciphertext
    <3>2. team.name.key \in Nat /\ keys \in Nat
      BY <3>1, Counters
    <3> QED BY <3>2, <1>1 DEF Counted
  <2>5. Counted'
    BY <2>2, <2>4, <1>1 DEF Counted
  <2>6. Fresh'
    BY <2>2, <1>1 DEF Fresh, Generated
  <2> QED BY <2>1, <2>2, <2>3, <2>5, <2>6, <1>1 DEF OutsidersLackKey, Members
<1>5. ASSUME NEW r, Send(u, r), r.op # "delete" => scope[u] # None /\ r.pair = scope[u],
             r.op = "remove" => r.phase = "list"
      PROVE  Pairs' /\ Counted' /\ Fresh' /\ OutsidersLackKey'
  <2>1. /\ UNCHANGED <<team, members, keys, loading, scope, known>>
        /\ \A t \in User \ {u} : request'[t] = request[t]
        /\ request'[u] = r
    BY <1>1, <1>5 DEF Send, TypeOK
  <2>2. Pairs'
    BY <2>1, <1>1, <1>5 DEF Pairs
  <2>3. Fresh'
    BY <2>1, <1>1, <1>5 DEF Fresh, Generated
  <2> QED BY <2>1, <2>2, <2>3, <1>1 DEF Counted, OutsidersLackKey, Members
<1>6. CASE \/ Rename(u) \/ DeleteTeam(u) \/ \E id \in Record : Save(u, id)
           \/ \E t \in User : Remove(u, t) \/ \E role \in Role : Add(u, t, role)
  <2>1. CASE Rename(u)
    BY <2>1, <1>5 DEF Rename
  <2>2. CASE DeleteTeam(u)
    <3>1. PICK r : r = [op |-> "delete"] /\ Send(u, r)
      BY <2>2 DEF DeleteTeam
    <3>2. r.op = "delete" /\ r.op # "remove"
      BY <3>1
    <3> QED BY <3>1, <3>2, <1>5
  <2>3. CASE \E id \in Record : Save(u, id)
    BY <2>3, <1>5 DEF Save
  <2>4. CASE \E t \in User : Remove(u, t)
    BY <2>4, <1>5 DEF Remove
  <2>5. CASE \E t \in User, role \in Role : Add(u, t, role)
    BY <2>5, <1>5 DEF Add
  <2> QED BY <2>1, <2>2, <2>3, <2>4, <2>5, <1>6
<1>7. CASE RequestFail(u) \/ RemoveReply(u)
  <2>1. UNCHANGED <<team, members, keys, loading, known>>
    BY <1>7 DEF RequestFail, RemoveReply
  <2>2. \A t \in User : request'[t] \in {request[t], None} /\ scope'[t] \in {scope[t], None}
    BY <1>1, <1>7 DEF RequestFail, RemoveReply, Answered, TypeOK
  <2>3. Pairs'
    BY <2>1, <2>2, <1>1 DEF Pairs
  <2>4. Fresh'
    BY <2>1, <2>2, <1>1 DEF Fresh, Generated
  <2> QED BY <2>1, <2>3, <2>4, <1>1 DEF Counted, OutsidersLackKey, Members
<1>8. CASE RemoveSend(u) \/ \E id \in Record : RemoveRead(u, id)
  <2>1. UNCHANGED <<team, members, keys, loading, scope, known>>
    BY <1>8 DEF RemoveSend, RemoveRead
  <2>2. request[u] \in Removals(u) /\ request[u] # None /\ Generated(u)
    BY <1>1, <1>8, RequestForms DEF RemoveSend, RemoveRead, Removing, Generated
  <2>3. /\ \A t \in User \ {u} : request'[t] = request[t]
        /\ request'[u].op = "remove" /\ request'[u].pair = request[u].pair
        /\ request'[u].key = request[u].key
    BY <2>2, <1>1, <1>8 DEF RemoveSend, RemoveRead, Removals, TypeOK
  <2>4. Pairs'
    BY <2>1, <2>2, <2>3, <1>1 DEF Pairs, Generated
  <2>5. Fresh'
    BY <2>1, <2>2, <2>3, <1>1 DEF Fresh, Generated
  <2> QED BY <2>1, <2>4, <2>5, <1>1 DEF Counted, OutsidersLackKey, Members
<1> QED BY <1>3, <1>4, <1>6, <1>7, <1>8 DEF ClientStep, RemoveStep

(* A client generates the key of a removal. *)
LEMMA ListClients ==
  ASSUME IInv, NEW u \in User, RemoveList(u)
  PROVE  Pairs' /\ Counted' /\ Fresh' /\ OutsidersLackKey'
<1>1. TypeOK /\ Pairs /\ Counted /\ Fresh /\ OutsidersLackKey
  BY DEF IInv
<1>2. UNCHANGED <<team, members, loading, scope>> /\ keys' = keys + 1 /\ u \in Members
  BY DEF RemoveList, server, client
<1>3. request[u] \in Removals(u) /\ request[u] # None
  BY <1>1, RequestForms DEF RemoveList, Removing
<1>4. /\ \A t \in User \ {u} : request'[t] = request[t] /\ known'[t] = known[t]
      /\ request'[u].op = "remove" /\ request'[u].pair = request[u].pair
      /\ request'[u].key = keys' /\ known'[u] = known[u] \cup {keys'}
  BY <1>1, <1>3 DEF RemoveList, Removals, TypeOK
<1>5. keys \in Nat /\ team.name.key \in Nat /\ keys \notin Key \ Nat
  <2>1. keys \in Key /\ team.name.key \in Key
    BY <1>1 DEF TypeOK, Ciphertext
  <2> QED BY <2>1, Counters
<1>6. ASSUME NEW t \in User PROVE keys' \notin known[t]
  BY <1>1, <1>2, <1>5 DEF Counted
<1>7. Pairs'
  BY <1>1, <1>2, <1>3, <1>4 DEF Pairs, Removals
<1>8. Counted'
  <2>1. 0..keys \subseteq 0..keys' /\ keys' \in 0..keys'
    BY <1>2, <1>5
  <2>2. \A t \in User : known'[t] \subseteq 0..keys'
    BY <1>1, <1>4, <2>1 DEF Counted
  <2> QED BY <1>1, <1>2, <1>5, <2>2 DEF Counted
<1>9. Fresh'
  <2>1. keys' # team.name.key /\ team.name.key < keys'
    BY <1>1, <1>2, <1>5 DEF Counted
  <2>2. ASSUME NEW t \in User \ {u}, Generated(t)' PROVE request[t].key # keys'
    BY <1>1, <1>4, <1>6, <2>2 DEF Fresh, Generated
  <2>3. ASSUME NEW t \in User \ {u}, Generated(t)'
        PROVE  /\ request'[t].key \in known'[t] /\ request'[t].key # team'.name.key
               /\ \A v \in User \ {t} : request'[t].key \notin known'[v]
               /\ request'[t].pair.version = team'.version => team'.name.key < request'[t].key
    BY <1>1, <1>2, <1>4, <2>2, <2>3 DEF Fresh, Generated
  <2>4. /\ request'[u].key \in known'[u] /\ request'[u].key # team'.name.key
        /\ \A v \in User \ {u} : request'[u].key \notin known'[v]
        /\ team'.name.key < request'[u].key
    BY <1>2, <1>4, <1>6, <2>1
  <2> QED BY <2>3, <2>4 DEF Fresh
<1>10. OutsidersLackKey'
  <2>1. \A t \in User \ Members : t # u
    BY <1>2
  <2> QED BY <1>1, <1>2, <1>4, <2>1 DEF OutsidersLackKey, Members
<1> QED BY <1>7, <1>8, <1>9, <1>10

------------------------------------------------------------------------------
(* The transactions keep one key and an owner. *)
LEMMA ServerSafe ==
  ASSUME IInv, NEW u \in User, ServerStep(u)
  PROVE  OneTeamKey' /\ KeepsAnOwner' /\ OutsidersLackKey'
<1> USE DEF server, counts, client
<1>1. TypeOK /\ Pairs /\ OneTeamKey /\ KeepsAnOwner /\ OutsidersLackKey
  BY DEF IInv
<1>2. team'.name.key = team.name.key /\ UNCHANGED known
  BY ServerKeeps
<1>3. ASSUME UNCHANGED records PROVE \A id \in Record : records'[id] \in Ciphertext => records'[id].key = team'.name.key
  BY <1>1, <1>2, <1>3 DEF OneTeamKey
<1>4. ASSUME UNCHANGED members
      PROVE  /\ \A t \in Members' : members'[t].key = team'.name.key
             /\ KeepsAnOwner' /\ OutsidersLackKey'
  BY <1>1, <1>2, <1>4 DEF OneTeamKey, KeepsAnOwner, OutsidersLackKey, Members, Owners
<1>5. CASE RenameApply(u) \/ DeleteTeamApply(u)
  BY <1>3, <1>4, <1>5 DEF RenameApply, DeleteTeamApply, OneTeamKey
<1>6. CASE SaveApply(u)
  <2>1. request[u].pair.key = team.name.key
    BY <1>1, <1>6 DEF SaveApply, Handles, CurrentVersion, Pairs, Fits
  <2>2. \A id \in Record : records'[id] \in Ciphertext => records'[id].key = team'.name.key
    BY <2>1, <1>1, <1>2, <1>6 DEF SaveApply, OneTeamKey, TypeOK
  <2> QED BY <2>2, <1>4, <1>6 DEF SaveApply, OneTeamKey
<1>7. CASE \E id \in Record : DeleteRecord(u, id)
  <2>1. Deleted \notin Ciphertext
    BY NoneAssumption, BoundAssumption DEF Ciphertext, Key
  <2>2. \A id \in Record : records'[id] \in Ciphertext => records'[id].key = team'.name.key
    BY <2>1, <1>1, <1>2, <1>7 DEF DeleteRecord, OneTeamKey, TypeOK
  <2> QED BY <2>2, <1>4, <1>7 DEF DeleteRecord, OneTeamKey
<1>8. CASE AddApply(u)
  <2> DEFINE t == request[u].target
  <2>1. request[u].pair.key = team.name.key /\ t \in User \ Members
    BY <1>1, <1>8, RequestForms DEF AddApply, Handles, CurrentVersion, Pairs, Fits
  <2>2. /\ members'[t] = [role |-> request[u].role, key |-> team.name.key]
        /\ \A v \in User \ {t} : members'[v] = members[v]
    BY <2>1, <1>1, <1>8 DEF AddApply, TypeOK
  <2>3. \A v \in Members' : members'[v].key = team'.name.key
    BY <2>2, <1>1, <1>2 DEF OneTeamKey, Members
  <2>4. KeepsAnOwner'
    BY <2>1, <2>2, <1>1 DEF KeepsAnOwner, Owners, Members
  <2>5. OutsidersLackKey'
    BY <2>1, <2>2, <1>1, <1>2 DEF OutsidersLackKey, Members
  <2> QED BY <2>3, <2>4, <2>5, <1>3, <1>8 DEF AddApply, OneTeamKey
<1>9. ASSUME NEW t \in User, NEW role \in Role, ChangeRole(u, t, role)
      PROVE  OneTeamKey' /\ KeepsAnOwner' /\ OutsidersLackKey'
  <2>1. t \in Members /\ members[t].key \in Key
    BY <1>1, <1>9, MemberForms DEF ChangeRole, Members
  <2>2. [members[t] EXCEPT !.role = role] = [role |-> role, key |-> members[t].key]
    BY <2>1, <1>1, MemberForms DEF Members
  <2>3. /\ members'[t] = [role |-> role, key |-> members[t].key]
        /\ \A v \in User \ {t} : members'[v] = members[v]
    BY <2>2, <1>1, <1>9 DEF ChangeRole, TypeOK
  <2>4. members'[t] # None
    BY <2>1, <2>3, MemberIsNotNone
  <2>5. Members' = Members
    BY <2>1, <2>3, <2>4 DEF Members
  <2>6. KeepsAnOwner'
    BY <2>1, <2>3, <2>5, <1>1, <1>9 DEF ChangeRole, OtherOwner, KeepsAnOwner, Owners
  <2>7. \A v \in Members' : members'[v].key = team'.name.key
    BY <2>1, <2>3, <2>5, <1>1, <1>2 DEF OneTeamKey, Members
  <2>8. OutsidersLackKey'
    BY <2>5, <1>1, <1>2 DEF OutsidersLackKey
  <2> QED BY <2>6, <2>7, <2>8, <1>3, <1>9 DEF ChangeRole, OneTeamKey
<1> QED BY <1>5, <1>6, <1>7, <1>8, <1>9 DEF ServerStep

------------------------------------------------------------------------------
(* The transaction of a removal: its version is new, and the key too, to   *)
(* all but the one that removes.                                           *)
LEMMA RemoveApplySafe ==
  ASSUME IInv, NEW u \in User, RemoveApply(u)
  PROVE  /\ OneTeamKey' /\ KeepsAnOwner' /\ OutsidersLackKey'
         /\ Pairs' /\ Counted' /\ Fresh'
<1> DEFINE p == request[u]
<1>1. TypeOK /\ Pairs /\ Counted /\ Fresh /\ OutsidersLackKey /\ KeepsAnOwner
  BY DEF IInv
<1>2. /\ p # None /\ p.op = "remove" /\ p.phase = "sent" /\ p.pair.version = team.version
      /\ u \in Members /\ p.target \in Members /\ p.remaining = Members \ {p.target}
      /\ p.target \in Owners => Owners \ {p.target} # {}
  BY DEF RemoveApply, Handles, CurrentVersion, EveryMember, OtherOwner, Managers
<1>3. p \in Removals(u) /\ p.key \in Key /\ p.target \in User \ {u}
  <2>1. p \in Removals(u)
    BY <1>1, <1>2, RequestForms
  <2> QED BY <2>1 DEF Removals
<1>4. /\ p.key \in known[u] /\ p.key # team.name.key /\ team.name.key < p.key
      /\ \A t \in User \ {u} : p.key \notin known[t]
  BY <1>1, <1>2 DEF Fresh, Generated
<1>5. /\ team'.version = team.version + 1 /\ team'.name.key = p.key
      /\ UNCHANGED <<keys, loading, scope, known>>
  BY <1>1 DEF RemoveApply, TypeOK, counts, client
<1>6. /\ members'[p.target] = None
      /\ \A t \in Members \ {p.target} : members'[t] = [role |-> members[t].role, key |-> p.key]
      /\ \A t \in User \ Members : members'[t] = None
  <2>1. ASSUME NEW t \in Members \ {p.target}
        PROVE  members'[t] = [role |-> members[t].role, key |-> p.key]
    <3>1. members'[t] = [members[t] EXCEPT !.key = p.key]
      BY <1>2 DEF RemoveApply, Members
    <3> QED BY <3>1, <1>1, <1>3, MemberForms DEF Members
  <2>2. ASSUME NEW t \in User \ Members PROVE members'[t] = None
    BY <1>2 DEF RemoveApply, Members
  <2> QED BY <2>1, <2>2, <1>3 DEF RemoveApply
<1>7. Members' = Members \ {p.target}
  <2>1. ASSUME NEW t \in Members \ {p.target} PROVE members'[t] # None
    <3>1. members[t].role \in Role
      BY <1>1, MemberForms DEF Members
    <3> QED BY <3>1, <1>3, <1>6, MemberIsNotNone
  <2> QED BY <2>1, <1>6 DEF Members
<1>8. OneTeamKey'
  <2>1. ASSUME NEW id \in Record, records'[id] \in Ciphertext PROVE records'[id].key = p.key
    BY <2>1 DEF RemoveApply
  <2>2. ASSUME NEW t \in Members' PROVE members'[t].key = p.key
    <3>1. members'[t] = [role |-> members[t].role, key |-> p.key]
      BY <2>2, <1>6, <1>7
    <3> QED BY <3>1
  <2> QED BY <2>1, <2>2, <1>5 DEF OneTeamKey
<1>9. KeepsAnOwner'
  <2>1. PICK t \in Owners : t # p.target
    BY <1>1, <1>2 DEF KeepsAnOwner
  <2>2. t \in Members' /\ members'[t].role = "owner"
    <3>1. t \in Members \ {p.target} /\ members[t].role = "owner"
      BY <2>1 DEF Owners
    <3>2. members'[t] = [role |-> members[t].role, key |-> p.key]
      BY <3>1, <1>6
    <3> QED BY <3>1, <3>2, <1>7
  <2> QED BY <2>2 DEF KeepsAnOwner, Owners
<1>10. OutsidersLackKey'
  BY <1>2, <1>3, <1>4, <1>5, <1>7 DEF OutsidersLackKey
<1>11. team.version \in Nat /\ team.name.key \in Nat /\ p.key \in Nat /\ keys \in Nat
  <2>1. team.version \in Version /\ team.name.key \in Key /\ keys \in Key
    BY <1>1 DEF TypeOK, Ciphertext
  <2> QED BY <2>1, <1>3, Counters
<1>12. /\ \A t \in User \ {u} : request'[t] = request[t]
       /\ request'[u].pair = p.pair /\ request'[u].phase = "reply"
  BY <1>1, <1>3 DEF RemoveApply, Removals, TypeOK
<1>13. Pairs'
  <2>1. ASSUME NEW pair \in Pair, Fits(pair, team.version, team.name.key)
        PROVE  Fits(pair, team'.version, team'.name.key)
    <3>1. pair.version \in Nat
      BY <2>1, Counters DEF Pair
    <3> QED BY <2>1, <3>1, <1>5, <1>11 DEF Fits
  <2>2. ASSUME NEW t \in User, loading'[t] # None PROVE loading'[t] <= team'.version
    <3>1. loading[t] \in Nat /\ loading[t] <= team.version
      BY <2>2, <1>1, <1>5, Counters DEF TypeOK, Pairs
    <3> QED BY <3>1, <1>5, <1>11
  <2>3. ASSUME NEW t \in User, scope'[t] # None PROVE Fits(scope'[t], team'.version, team'.name.key)
    BY <2>1, <2>3, <1>1, <1>5 DEF TypeOK, Pairs
  <2>4. ASSUME NEW t \in User \ {u}, request'[t] # None, request'[t].op # "delete"
        PROVE  Fits(request'[t].pair, team'.version, team'.name.key)
    BY <2>1, <2>4, <1>1, <1>12, RequestForms DEF Pairs
  <2>5. Fits(request'[u].pair, team'.version, team'.name.key)
    BY <2>1, <1>1, <1>2, <1>12, RequestForms DEF Pairs
  <2> QED BY <2>2, <2>3, <2>4, <2>5 DEF Pairs
<1>14. Counted'
  <2>1. p.key <= keys
    BY <1>1, <1>4, <1>11 DEF Counted
  <2>2. team.version <= team.name.key + 1
    BY <1>1 DEF Counted
  <2>3. team'.version <= team'.name.key + 1 /\ team'.name.key <= keys'
    BY <2>1, <2>2, <1>4, <1>5, <1>11
  <2> QED BY <2>3, <1>1, <1>5 DEF Counted
<1>15. Fresh'
  <2>1. ASSUME NEW t \in User, Generated(t)'
        PROVE  /\ request'[t].key \in known'[t] /\ request'[t].key # team'.name.key
               /\ \A v \in User \ {t} : request'[t].key \notin known'[v]
               /\ request'[t].pair.version # team'.version
    <3>1. t # u /\ Generated(t)
      BY <2>1, <1>12 DEF Generated
    <3>2. /\ request[t].key \in known[t]
          /\ \A v \in User \ {t} : request[t].key \notin known[v]
      BY <3>1, <1>1 DEF Fresh
    <3>3. request[t].key # p.key
      BY <3>1, <3>2, <1>4
    <3>4. request[t].pair.version \in Nat /\ request[t].pair.version <= team.version
      BY <3>1, <1>1, RequestForms, Counters DEF Pairs, Fits, Generated, Pair
    <3>5. request[t].pair.version # team'.version
      BY <3>4, <1>5, <1>11
    <3> QED BY <3>1, <3>2, <3>3, <3>5, <1>5, <1>12
  <2> QED BY <2>1 DEF Fresh
<1> QED BY <1>8, <1>9, <1>10, <1>13, <1>14, <1>15

LEMMA Inductive == IInv /\ [Next]_vars => IInv'
<1> SUFFICES ASSUME IInv, [Next]_vars PROVE IInv'
  OBVIOUS
<1>1. CASE UNCHANGED vars
  BY <1>1 DEF IInv, TypeOK, OneTeamKey, OutsidersLackKey, KeepsAnOwner, Pairs, Counted, Fresh,
     Generated, Members, Owners, vars, server, counts, client
<1>2. ASSUME NEW u \in User, ClientStep(u) \/ RemoveStep(u) PROVE IInv'
  <2>1. TypeOK'
    BY <1>2, ClientType, RemoveType
  <2>2. OneTeamKey' /\ KeepsAnOwner'
    BY <1>2, QuietServer DEF IInv, OneTeamKey, KeepsAnOwner, Members, Owners, server
  <2>3. Pairs' /\ Counted' /\ Fresh' /\ OutsidersLackKey'
    BY <1>2, ListClients, ClientClients
  <2> QED BY <2>1, <2>2, <2>3 DEF IInv
<1>3. ASSUME NEW u \in User, ServerStep(u) PROVE IInv'
  BY <1>3, ServerType, ServerClients, ServerSafe DEF IInv
<1>4. ASSUME NEW u \in User, RemoveApply(u) PROVE IInv'
  BY <1>4, RemoveApplyType, RemoveApplySafe DEF IInv
<1> QED BY <1>1, <1>2, <1>3, <1>4, Steps

THEOREM Invariant == Spec => []IInv
BY Initial, Inductive, PTL DEF Spec

(* Type correctness; also that versions never outrun the keys generated.   *)
THEOREM TypeCorrect == Spec => []TypeOK
<1>1. IInv => TypeOK
  BY DEF IInv
<1> QED BY <1>1, Invariant, PTL

(* The name, the memberships and the records of the team are under one key *)
(* for any number of members, records and removals.                        *)
THEOREM TeamHasOneKey == Spec => []OneTeamKey
<1>1. IInv => OneTeamKey
  BY DEF IInv
<1> QED BY <1>1, Invariant, PTL

(* Whoever is no member never had the key of the team.                     *)
THEOREM OutsidersAreLockedOut == Spec => []OutsidersLackKey
<1>1. IInv => OutsidersLackKey
  BY DEF IInv
<1> QED BY <1>1, Invariant, PTL

(* assertNotLastOwner() keeps an owner whatever runs concurrently.         *)
THEOREM AnOwnerStays == Spec => []KeepsAnOwner
<1>1. IInv => KeepsAnOwner
  BY DEF IInv
<1> QED BY <1>1, Invariant, PTL

(* The rotation of a removal loses no edit of the name or of a record.     *)
THEOREM EditsAreKept == Spec => RemovalKeepsEdits
<1> DEFINE Kept ==
      team'.version # team.version =>
        /\ team'.name.body = team.name.body
        /\ \A id \in Record :
             /\ (records[id] \in Ciphertext) <=> (records'[id] \in Ciphertext)
             /\ records[id] \in Ciphertext => records'[id].body = records[id].body
<1>1. ASSUME IInv, Next PROVE Kept
  <2>1. ASSUME NEW u \in User, ClientStep(u) \/ RemoveStep(u) \/ ServerStep(u) PROVE Kept
    BY <1>1, <2>1, QuietServer, ServerKeeps DEF server
  <2>2. ASSUME NEW u \in User, RemoveApply(u) PROVE Kept
    <3>1. TypeOK'
      BY <1>1, <2>2, RemoveApplyType
    <3>2. team'.name.body = team.name.body
      BY <1>1, <2>2 DEF RemoveApply, IInv, TypeOK
    <3>3. ASSUME NEW id \in Record, records[id] \in Ciphertext
          PROVE  records'[id] \in Ciphertext /\ records'[id].body = records[id].body
      <4>1. request[u].snapshot[id] = records[id]
        BY <2>2, <3>3 DEF RemoveApply, SameCiphertext, Listed
      <4>2. records'[id] = [key |-> request[u].key, body |-> records[id].body]
        BY <2>2, <3>3, <4>1 DEF RemoveApply
      <4>3. request[u].key \in Key
        BY <1>1, <2>2, RequestForms DEF IInv, RemoveApply, Handles, Removals
      <4> QED BY <3>3, <4>2, <4>3 DEF Ciphertext
    <3>4. ASSUME NEW id \in Record, records[id] \notin Ciphertext PROVE records'[id] \notin Ciphertext
      BY <2>2, <3>4 DEF RemoveApply
    <3> QED BY <3>2, <3>3, <3>4
  <2> QED BY <1>1, <2>1, <2>2, Steps
<1>2. IInv /\ [Next]_vars => [Kept]_vars
  BY <1>1
<1> QED BY <1>2, Invariant, PTL DEF Spec, RemovalKeepsEdits

------------------------------------------------------------------------------
(* TeamVault implements SharedVault. No two edits that wait for an answer  *)
(* have one number.                                                        *)
Numbered ==
  /\ \A u \in Editing : request[u].body \in 1..edits
  /\ \A u, t \in Editing : request[u].body = request[t].body => u = t

(* What can be read, when all is under one key.                            *)
Body(id) == IF records[id] \in Ciphertext THEN records[id].body ELSE records[id]

LEMMA AllIsReadable == OneTeamKey => Contents = [id \in Record |-> Body(id)]
BY DEF OneTeamKey, Contents, Readable, Body

(* Of one request that is made, goes on or is answered.                    *)
LEMMA EditsMade ==
  ASSUME TypeOK, Numbered, NEW u \in User, u \notin Editing, NEW r, r # None, r.op \in {"save", "rename"},
         r.body = edits + 1, edits' = edits + 1, request' = [request EXCEPT ![u] = r]
  PROVE  Open' = Open \cup {edits'} /\ Numbered'
<1>1. edits \in Nat
  BY BoundAssumption DEF TypeOK
<1>2. request'[u] = r /\ \A t \in User \ {u} : request'[t] = request[t]
  BY DEF TypeOK
<1>3. Editing' = Editing \cup {u}
  BY <1>2 DEF Editing
<1>4. \A t \in Editing : t \in User /\ t # u /\ request[t].body \in 1..edits /\ request'[t] = request[t]
  BY <1>2 DEF Editing, Numbered
<1>5. Open' = Open \cup {edits'}
  BY <1>2, <1>3, <1>4 DEF Open
<1>6. Numbered'
  <2>1. \A t \in Editing' : request'[t].body \in 1..edits'
    BY <1>1, <1>2, <1>3, <1>4
  <2>2. \A s, t \in Editing' : request'[s].body = request'[t].body => s = t
    BY <1>1, <1>2, <1>3, <1>4 DEF Numbered
  <2> QED BY <2>1, <2>2 DEF Numbered
<1> QED BY <1>5, <1>6

LEMMA EditsAnswered ==
  ASSUME TypeOK, Numbered, NEW u \in User, u \in Editing, UNCHANGED edits, request' = [request EXCEPT ![u] = None]
  PROVE  Open' = Open \ {request[u].body} /\ Numbered'
<1>1. request'[u] = None /\ \A t \in User \ {u} : request'[t] = request[t]
  BY DEF TypeOK
<1>2. Editing' = Editing \ {u}
  BY <1>1 DEF Editing
<1>3. \A t \in Editing' : request'[t] = request[t] /\ t \in Editing /\ t # u /\ request[t].body # request[u].body
  BY <1>1, <1>2 DEF Editing, Numbered
<1>4. Open' = Open \ {request[u].body}
  BY <1>2, <1>3 DEF Open
<1>5. Numbered'
  BY <1>2, <1>3 DEF Numbered
<1> QED BY <1>4, <1>5

LEMMA OthersGoOn ==
  ASSUME TypeOK, Numbered, NEW u \in User, u \notin Editing, u \notin Editing', UNCHANGED edits,
         \A t \in User \ {u} : request'[t] = request[t]
  PROVE  UNCHANGED Open /\ Numbered'
<1>1. Editing' = Editing /\ \A t \in Editing : request'[t] = request[t]
  BY DEF Editing
<1> QED BY <1>1 DEF Open, Numbered

LEMMA NothingAsked == UNCHANGED <<request, edits>> /\ Numbered => UNCHANGED Open /\ Numbered'
BY DEF Open, Numbered, Editing

LEMMA EditIsNotNone ==
  ASSUME NEW pair \in Pair, NEW body \in Nat
  PROVE  /\ \A id \in Record : [op |-> "save", pair |-> pair, record |-> id, body |-> body] # None
         /\ [op |-> "rename", pair |-> pair, body |-> body] # None
<1>1. pair \in [version : Nat, key : Nat]
  BY Counters DEF Pair
<1>2. \A id \in Record : [op |-> "save", pair |-> pair, record |-> id, body |-> body]
                          \in [op : {"save"}, pair : [version : Nat, key : Nat], record : Record, body : Nat]
  BY <1>1
<1>3. [op |-> "rename", pair |-> pair, body |-> body] \in [op : {"rename"}, pair : [version : Nat, key : Nat], body : Nat]
  BY <1>1
<1> QED BY <1>2, <1>3, NoneAssumption

LEMMA ContentIsNumbered ==
  /\ \A c \in Ciphertext : c.body \in Nat
  /\ None \notin Nat \cup Ciphertext /\ Deleted \notin Nat \cup Ciphertext
<1>1. Ciphertext \subseteq [key : Nat, body : Nat]
  BY BoundAssumption DEF Ciphertext, Key
<1> QED BY <1>1, NoneAssumption

(* Nothing else that a client does is seen.                                *)
LEMMA ClientsAreUnseen ==
  ASSUME IInv, Numbered, NEW u \in User, ClientStep(u) \/ RemoveStep(u), OneTeamKey'
  PROVE  Numbered' /\ (Shared!Next \/ UNCHANGED Shared!sharedVars)
<1>1. TypeOK
  BY DEF IInv
<1>2. UNCHANGED <<team, records, members>>
  BY QuietServer DEF server
<1>3. UNCHANGED <<Contents, team.name.body, team.version>>
  BY <1>2 DEF Contents, Readable
<1>4. Numbered' /\ UNCHANGED <<Open, edits>> => Numbered' /\ UNCHANGED Shared!sharedVars
  BY <1>3 DEF Shared!sharedVars, Shared!items
<1>5. ASSUME NEW r, r # None, r.op \in {"save", "rename"}, r.body = edits', edits' = edits + 1, Send(u, r)
      PROVE  Numbered' /\ Shared!Next
  <2>1. u \notin Editing /\ request' = [request EXCEPT ![u] = r]
    BY <1>5 DEF Send, Editing
  <2>2. Numbered' /\ Open' = Open \cup {edits'}
    BY <1>1, <1>5, <2>1, EditsMade
  <2> QED BY <1>3, <1>5, <2>2 DEF Shared!Next, Shared!Make, Shared!items
<1>6. ASSUME NEW r, r = None \/ r.op \notin {"save", "rename"}, u \notin Editing, UNCHANGED edits,
             request' = [request EXCEPT ![u] = r]
      PROVE  Numbered' /\ UNCHANGED Open
  <2>1. request'[u] = r /\ \A t \in User \ {u} : request'[t] = request[t]
    BY <1>1, <1>6 DEF TypeOK
  <2>2. u \notin Editing'
    BY <1>6, <2>1 DEF Editing
  <2> QED BY <1>1, <1>6, <2>1, <2>2, OthersGoOn
<1>7. CASE LoadTeam(u) \/ LoadMembership(u) \/ LoseKey(u)
  <2>1. UNCHANGED <<request, edits>>
    BY <1>7 DEF LoadTeam, LoadMembership, LoseKey, counts
  <2> QED BY <1>4, <2>1, NothingAsked
<1>8. ASSUME NEW id \in Record, Save(u, id) PROVE Numbered' /\ Shared!Next
  <2>1. scope[u] \in Pair /\ edits' \in Nat
    BY <1>1, <1>8, Counters DEF Save, TypeOK
  <2>2. [op |-> "save", pair |-> scope[u], record |-> id, body |-> edits'] # None
    BY <1>8, <2>1, EditIsNotNone
  <2> QED BY <1>5, <1>8, <2>2 DEF Save
<1>9. CASE Rename(u)
  <2>1. scope[u] \in Pair /\ edits' \in Nat
    BY <1>1, <1>9, Counters DEF Rename, TypeOK
  <2>2. [op |-> "rename", pair |-> scope[u], body |-> edits'] # None
    BY <2>1, EditIsNotNone
  <2> QED BY <1>5, <1>9, <2>2 DEF Rename
<1>10. ASSUME NEW r, r.op \notin {"save", "rename"}, UNCHANGED edits, Send(u, r)
       PROVE  Numbered' /\ UNCHANGED <<Open, edits>>
  BY <1>6, <1>10 DEF Send, Editing
<1>11. ASSUME NEW t \in User, NEW role \in Role, Add(u, t, role) PROVE Numbered' /\ UNCHANGED <<Open, edits>>
  BY <1>10, <1>11 DEF Add
<1>12. CASE DeleteTeam(u)
  BY <1>10, <1>12, <1>4 DEF DeleteTeam
<1>13. ASSUME NEW t \in User, Remove(u, t) PROVE Numbered' /\ UNCHANGED <<Open, edits>>
  BY <1>10, <1>13 DEF Remove
<1>14. CASE RequestFail(u)
  <2>1. request' = [request EXCEPT ![u] = None] /\ UNCHANGED edits
    BY <1>14 DEF RequestFail, Answered, counts
  <2>2. CASE u \in Editing
    <3>1. Numbered' /\ Open' = Open \ {request[u].body}
      BY <1>1, <2>1, <2>2, EditsAnswered
    <3>2. request[u].body \in Open
      BY <2>2 DEF Open
    <3>3. Shared!Drop(request[u].body)
      BY <1>3, <2>1, <3>1, <3>2 DEF Shared!Drop, Shared!Answered, Shared!items
    <3> QED BY <3>1, <3>2, <3>3 DEF Shared!Next
  <2> QED BY <1>4, <1>6, <2>1, <2>2
<1>15. CASE RemoveReply(u)
  <2>1. request' = [request EXCEPT ![u] = None] /\ UNCHANGED edits /\ u \notin Editing
    BY <1>15 DEF RemoveReply, Removing, Answered, counts, Editing
  <2> QED BY <1>4, <1>6, <2>1
<1>16. CASE RemoveList(u) \/ RemoveSend(u) \/ \E id \in Record : RemoveRead(u, id)
  <2>1. u \notin Editing /\ UNCHANGED edits /\ request[u].op = "remove"
    BY <1>16 DEF RemoveList, RemoveSend, RemoveRead, Removing, Editing, counts
  <2>2. request[u] \in Removals(u)
    BY <1>1, <1>16, RequestForms DEF RemoveList, RemoveSend, RemoveRead, Removing
  <2>3. request'[u].op = "remove" /\ \A t \in User \ {u} : request'[t] = request[t]
    BY <1>1, <1>16, <2>2 DEF RemoveList, RemoveSend, RemoveRead, TypeOK, Removals
  <2>4. u \notin Editing'
    BY <2>3 DEF Editing
  <2> QED BY <1>1, <1>4, <2>1, <2>3, <2>4, OthersGoOn
<1> QED BY <1>4, <1>7, <1>8, <1>9, <1>11, <1>12, <1>13, <1>14, <1>15, <1>16 DEF ClientStep, RemoveStep

(* The server takes an edit in, or drops a record; the rest is unseen.     *)
LEMMA ServerIsSeen ==
  ASSUME IInv, Numbered, NEW u \in User, ServerStep(u), OneTeamKey'
  PROVE  Numbered' /\ (Shared!Next \/ UNCHANGED Shared!sharedVars)
<1>1. TypeOK /\ OneTeamKey
  BY DEF IInv
<1>2. Contents = [id \in Record |-> Body(id)] /\ Contents' = [id \in Record |-> Body(id)']
  BY <1>1, AllIsReadable DEF OneTeamKey, Contents, Readable, Body
<1>3. \A id \in Record : records'[id] = records[id] => Body(id)' = Body(id)
  BY DEF Body
<1>4. UNCHANGED records => UNCHANGED Contents
  BY <1>2, <1>3
<1>5. UNCHANGED edits
  BY DEF ServerStep, SaveApply, RenameApply, AddApply, DeleteTeamApply, DeleteRecord, ChangeRole, counts
<1>6. CASE SaveApply(u)
  <2>1. u \in Editing /\ request[u].record \in Record /\ request[u].body \in 0..MaxEdit /\ request[u].pair \in Pair
    BY <1>1, <1>6, RequestForms DEF SaveApply, Handles, Editing
  <2>2. PICK r \in Record : r = request[u].record
    BY <2>1
  <2>3. PICK e \in 0..MaxEdit : e = request[u].body
    BY <2>1
  <2>4. Numbered' /\ Open' = Open \ {e} /\ e \in Open
    BY <1>1, <1>5, <1>6, <2>1, <2>3, EditsAnswered DEF SaveApply, Answered, Open
  <2>5. /\ records'[r] = [key |-> request[u].pair.key, body |-> e]
        /\ \A id \in Record \ {r} : records'[id] = records[id]
    BY <1>1, <1>6, <2>2, <2>3 DEF SaveApply, TypeOK
  <2>6. records'[r] \in Ciphertext /\ records'[r].body = e
    BY <2>1, <2>5 DEF Pair, Ciphertext
  <2>7. Body(r)' = e /\ \A id \in Record \ {r} : Body(id)' = Body(id)
    BY <2>5, <2>6, <1>3 DEF Body
  <2>8. Contents' = [Contents EXCEPT ![r] = e]
    BY <1>2, <2>7
  <2>9. Contents[r] # Deleted
    BY <1>1, <1>2, <1>6, <2>2, ContentIsNumbered DEF SaveApply, Body
  <2>10. Shared!Take(r, e)
    BY <1>5, <1>6, <2>4, <2>8, <2>9 DEF SaveApply, Shared!Take, Shared!Answered
  <2> QED BY <2>4, <2>10 DEF Shared!Next
<1>7. CASE RenameApply(u)
  <2> DEFINE e == request[u].body
  <2>1. u \in Editing
    BY <1>7 DEF RenameApply, Handles, Editing
  <2>2. Numbered' /\ Open' = Open \ {e} /\ e \in Open
    BY <1>1, <1>5, <1>7, <2>1, EditsAnswered DEF RenameApply, Answered, Open
  <2>3. team'.name.body = e /\ team'.version = team.version
    BY <1>1, <1>7 DEF RenameApply, TypeOK
  <2>4. UNCHANGED Contents
    BY <1>4, <1>7 DEF RenameApply
  <2>5. Shared!Retitle(e)
    BY <1>5, <2>2, <2>3, <2>4 DEF Shared!Retitle, Shared!Answered
  <2> QED BY <2>2, <2>5 DEF Shared!Next
<1>8. ASSUME NEW id \in Record, DeleteRecord(u, id) PROVE Numbered' /\ Shared!Next
  <2>1. Numbered' /\ UNCHANGED Open
    BY <1>5, <1>8, NothingAsked DEF DeleteRecord
  <2>2. records'[id] = Deleted /\ \A i \in Record \ {id} : records'[i] = records[i]
    BY <1>1, <1>8 DEF DeleteRecord, TypeOK
  <2>3. Body(id)' = Deleted /\ \A i \in Record \ {id} : Body(i)' = Body(i)
    BY <2>2, <1>3, ContentIsNumbered DEF Body
  <2>4. Contents' = [Contents EXCEPT ![id] = Deleted] /\ Contents[id] \in Nat
    BY <1>2, <1>8, <2>3, ContentIsNumbered DEF DeleteRecord, Body
  <2>5. Shared!Remove(id)
    BY <1>5, <1>8, <2>1, <2>4 DEF DeleteRecord, Shared!Remove
  <2> QED BY <2>1, <2>5 DEF Shared!Next
<1>9. CASE AddApply(u) \/ DeleteTeamApply(u)
  <2>1. request' = [request EXCEPT ![u] = None] /\ u \notin Editing /\ UNCHANGED records
    BY <1>9 DEF AddApply, DeleteTeamApply, Handles, Answered, Editing
  <2>2. request'[u] = None /\ \A t \in User \ {u} : request'[t] = request[t]
    BY <1>1, <2>1 DEF TypeOK
  <2>3. Numbered' /\ UNCHANGED Open
    BY <1>1, <1>5, <2>1, <2>2, OthersGoOn DEF Editing
  <2>4. UNCHANGED <<team.name.body, team.version>>
    BY <1>1, <1>9 DEF AddApply, DeleteTeamApply, TypeOK
  <2> QED BY <1>4, <1>5, <2>1, <2>3, <2>4 DEF Shared!sharedVars, Shared!items
<1>10. ASSUME NEW t \in User, NEW role \in Role, ChangeRole(u, t, role)
       PROVE  Numbered' /\ UNCHANGED Shared!sharedVars
  <2>1. Numbered' /\ UNCHANGED Open
    BY <1>5, <1>10, NothingAsked DEF ChangeRole
  <2> QED BY <1>4, <1>5, <1>10, <2>1 DEF ChangeRole, Shared!sharedVars, Shared!items
<1> QED BY <1>6, <1>7, <1>8, <1>9, <1>10 DEF ServerStep

(* A removal changes the key and nothing that can be read.                 *)
LEMMA RemovalIsUnseen ==
  ASSUME IInv, Numbered, NEW u \in User, RemoveApply(u), OneTeamKey'
  PROVE  Numbered' /\ Shared!ChangeKey
<1>1. TypeOK /\ OneTeamKey
  BY DEF IInv
<1>2. request[u] \in Removals(u) /\ u \notin Editing
  BY <1>1, RequestForms DEF RemoveApply, Handles, Editing
<1>3. request'[u].op = "remove" /\ \A t \in User \ {u} : request'[t] = request[t]
  BY <1>1, <1>2 DEF RemoveApply, TypeOK, Removals
<1>4. UNCHANGED edits
  BY DEF RemoveApply, counts
<1>5. Numbered' /\ UNCHANGED Open
  BY <1>1, <1>2, <1>3, <1>4, OthersGoOn DEF Editing
<1>6. team'.name.body = team.name.body /\ team'.version = team.version + 1
  BY <1>1 DEF RemoveApply, TypeOK
<1>7. ASSUME NEW id \in Record PROVE Body(id)' = Body(id)
  <2>1. CASE records[id] \in Ciphertext
    <3>1. request[u].snapshot[id] = records[id]
      BY <2>1 DEF RemoveApply, SameCiphertext, Listed
    <3>2. records'[id] = [key |-> request[u].key, body |-> records[id].body]
      BY <2>1, <3>1 DEF RemoveApply
    <3>3. request[u].key \in Key
      BY <1>2 DEF Removals
    <3> QED BY <2>1, <3>2, <3>3 DEF Body, Ciphertext
  <2>2. CASE records[id] \notin Ciphertext
    BY <2>2 DEF RemoveApply, Body
  <2> QED BY <2>1, <2>2
<1>8. UNCHANGED Contents
  BY <1>1, <1>7 DEF OneTeamKey, Contents, Readable, Body
<1> QED BY <1>4, <1>5, <1>6, <1>8 DEF Shared!ChangeKey, Shared!items

(* An edit of a record or of the name of a team takes effect once or not   *)
(* at all, while it waits for its answer, in the record it was made for;   *)
(* it can be read by the members until another replaces it, and no load,   *)
(* removal, rotation or refusal shows: TeamService::update() and           *)
(* removeMember() and VaultResourceController implement SharedVault.       *)
THEOREM TeamsShareOneVault == Spec => EditsTakeEffectOnce
<1>1. Init => Numbered /\ Shared!Init
  <2> SUFFICES ASSUME Init PROVE Numbered /\ Shared!Init
    OBVIOUS
  <2>1. OneTeamKey
    BY Initial DEF IInv
  <2>2. Editing = {}
    BY DEF Init, Editing
  <2>3. \A id \in Record : Body(id) \in {None, 0}
    <3>1. 0 \in 0..MaxEdit /\ 0 \in Key
      BY BoundAssumption DEF Key
    <3> QED BY <3>1, ContentIsNumbered DEF Init, Body, Ciphertext
  <2>4. Contents \in [Record -> {None, 0}]
    BY <2>1, <2>3, AllIsReadable
  <2> QED BY <2>2, <2>4 DEF Init, Numbered, Open, Shared!Init
<1>2. IInv /\ Numbered /\ [Next]_vars => Numbered' /\ [Shared!Next]_(Shared!sharedVars)
  <2> SUFFICES ASSUME IInv, Numbered, [Next]_vars PROVE Numbered' /\ (Shared!Next \/ UNCHANGED Shared!sharedVars)
    OBVIOUS
  <2>1. OneTeamKey'
    BY Inductive DEF IInv
  <2>2. CASE UNCHANGED vars
    <3>1. Numbered' /\ UNCHANGED Open
      BY <2>2, NothingAsked DEF vars, counts
    <3> QED BY <2>2, <3>1 DEF vars, server, counts, Contents, Readable, Shared!sharedVars, Shared!items
  <2>3. ASSUME NEW u \in User, RemoveApply(u) PROVE Numbered' /\ Shared!Next
    BY <2>1, <2>3, RemovalIsUnseen DEF Shared!Next
  <2> QED BY <2>1, <2>2, <2>3, ClientsAreUnseen, ServerIsSeen, Steps
<1> QED BY <1>1, <1>2, Invariant, PTL DEF Spec, EditsTakeEffectOnce, Shared!Spec
==============================================================================

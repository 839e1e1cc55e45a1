------------------------------ MODULE TeamVault ------------------------------
(***************************************************************************)
(* One team: its members and their roles, its key, its name and its        *)
(* records, and the clients that change them concurrently.                 *)
(*                                                                         *)
(* Team keys are numbered in the order in which clients generate them; a   *)
(* ciphertext is the pair of a key and a body, the body being the number   *)
(* of the edit that wrote it.  The server opens none of them: it compares  *)
(* key versions and ciphertexts.  Each user has one client, that makes one *)
(* request at a time.                                                      *)
(*                                                                         *)
(* The transactions of the server hold the teams row (SELECT ... FOR       *)
(* UPDATE) from before their first check to their commit, so each is one   *)
(* step; only delete() checks the role without the lock.                   *)
(***************************************************************************)
EXTENDS Integers, FiniteSets

CONSTANTS
  User,     \* the users that may be members, each with one client
  Record,   \* the ids of team records, each of a type of its own
  None,     \* no membership, no record, no request, no key
  Deleted,  \* a record that is gone; its id is not used again
  Role,     \* bound: the roles that are given
  MaxKey,   \* bound: team keys generated for rotations
  MaxEdit,  \* bound: records saved and renamings
  Enabled   \* bound: the requests that clients make

ASSUME NoneAssumption ==
  /\ None # Deleted /\ None \notin [role : Role, key : Nat]
  /\ {None, Deleted} \cap ([key : Nat, body : Nat] \cup Nat) = {}
  /\ LET pairs == [version : Nat, key : Nat] IN
     None \notin [op : {"save"}, pair : pairs, record : Record, body : Nat]
               \cup [op : {"rename"}, pair : pairs, body : Nat]
ASSUME RoleAssumption ==
  "owner" \in Role /\ Role \subseteq {"owner", "admin", "member", "viewer"}
ASSUME BoundAssumption == MaxKey \in Nat /\ MaxEdit \in Nat

VARIABLES
  team,     \* the teams row
  members,  \* per user: the membership
  records,  \* the team-scoped records
  keys,     \* how many keys have been generated after the first
  edits,    \* how many edits have been made
  loading,  \* per user: the key version of a team whose members it reads
  scope,    \* per user: the selected team key and its version
  request,  \* per user: the request in flight
  known     \* history: the keys that each user has had

server == <<team, members, records>>
counts == <<keys, edits>>
client == <<loading, scope>>
vars == <<server, counts, client, request, known>>

Key == 0..MaxKey
Version == 1..(MaxKey + 1)
Ciphertext == [key : Key, body : 0..MaxEdit]
Stored == Ciphertext \cup {None, Deleted}
Pair == [version : Version, key : Key]

Requests(u) ==
  {None}
  \cup [op : {"save"}, pair : Pair, record : Record, body : 0..MaxEdit]
  \cup [op : {"rename"}, pair : Pair, body : 0..MaxEdit]
  \cup [op : {"add"}, pair : Pair, target : User, role : Role]
  \cup [op : {"delete"}]
  \cup [op : {"remove"}, phase : {"list", "read", "sent", "reply"}, pair : Pair,
        target : User \ {u}, name : Ciphertext, remaining : SUBSET User, key : Key,
        snapshot : [Record -> Stored]]

TypeOK ==
  /\ team \in [version : Version, name : Ciphertext, deleted : BOOLEAN]
  /\ members \in [User -> {None} \cup [role : Role, key : Key]]
  /\ records \in [Record -> Stored]
  /\ keys \in Key /\ edits \in 0..MaxEdit
  /\ loading \in [User -> Version \cup {None}]
  /\ scope \in [User -> Pair \cup {None}]
  /\ DOMAIN request = User /\ \A u \in User : request[u] \in Requests(u)
  /\ known \in [User -> SUBSET Key]

Members == {u \in User : members[u] # None}
Owners == {u \in Members : members[u].role = "owner"}

(* A team with its first key, and nothing loaded yet. *)
Init ==
  /\ team = [version |-> 1, name |-> [key |-> 0, body |-> 0], deleted |-> FALSE]
  /\ members \in [User -> {None} \cup [role : Role, key : {0}]]
  /\ Owners # {}
  /\ records \in [Record -> {None, [key |-> 0, body |-> 0]}]
  /\ keys = 0 /\ edits = 0
  /\ loading = [u \in User |-> None] /\ scope = [u \in User |-> None]
  /\ request = [u \in User |-> None]
  /\ known = [u \in User |-> {}]

------------------------------------------------------------------------------
(* TeamRole: what a member may do. *)
Writers == {u \in Members : members[u].role # "viewer"}
Managers == {u \in Members : members[u].role \in {"owner", "admin"}}

(* The workspace switcher drops the key it has and gets the team again.    *)
(* The response is made of two reads, of the team and then of the caller's *)
(* membership; the client pairs the version of one with the key of the     *)
(* other.                                                                  *)
LoadTeam(u) ==
  /\ loading[u] = None /\ ~team.deleted
  /\ scope' = [scope EXCEPT ![u] = None]
  /\ loading' = [loading EXCEPT ![u] = team.version]
  /\ UNCHANGED <<server, counts, request, known>>

SelectTeamKey(u, version) ==
  /\ scope' = [scope EXCEPT ![u] = [version |-> version, key |-> members[u].key]]
  /\ known' = [known EXCEPT ![u] = @ \cup {members[u].key}]

LoadMembership(u) ==
  /\ loading[u] # None /\ u \in Members
  /\ SelectTeamKey(u, loading[u])
  /\ loading' = [loading EXCEPT ![u] = None]
  /\ UNCHANGED <<server, counts, request>>

(* The user is no member, the workspace is switched or the vault locked. *)
LoseKey(u) ==
  /\ loading[u] # None \/ scope[u] # None
  /\ loading' = [loading EXCEPT ![u] = None]
  /\ scope' = [scope EXCEPT ![u] = None]
  /\ UNCHANGED <<server, counts, request, known>>

------------------------------------------------------------------------------
(* A client encrypts with its team key, and sends the version it has.      *)
Send(u, r) ==
  /\ request[u] = None /\ r.op \in Enabled
  /\ request' = [request EXCEPT ![u] = r]
  /\ UNCHANGED <<server, keys, client, known>>

Save(u, id) ==
  /\ scope[u] # None /\ records[id] # Deleted /\ edits < MaxEdit
  /\ edits' = edits + 1
  /\ Send(u, [op |-> "save", pair |-> scope[u], record |-> id, body |-> edits'])

Rename(u) ==
  /\ scope[u] # None /\ edits < MaxEdit
  /\ edits' = edits + 1
  /\ Send(u, [op |-> "rename", pair |-> scope[u], body |-> edits'])

(* Nobody adds oneself: addMember() would refuse, as its manager is a      *)
(* member already.                                                         *)
Add(u, t, role) ==
  /\ scope[u] # None /\ t # u
  /\ Send(u, [op |-> "add", pair |-> scope[u], target |-> t, role |-> role])
  /\ UNCHANGED edits

Answered(u) == request' = [request EXCEPT ![u] = None]

(* Refused, rolled back or lost; a conflict also drops the team key. *)
RequestFail(u) ==
  /\ request[u] # None
  /\ Answered(u)
  /\ scope' \in {scope, [scope EXCEPT ![u] = None]}
  /\ UNCHANGED <<server, counts, loading, known>>

AnyVersion(u) == request[u] # None
CurrentVersion(u) == request[u].pair.version = team.version
Handles(u, op) == request[u] # None /\ request[u].op = op /\ ~team.deleted

(* store() and update() of a team record. *)
SaveApply(u) ==
  /\ Handles(u, "save") /\ u \in Writers /\ CurrentVersion(u)
  /\ records[request[u].record] # Deleted
  /\ records' = [records EXCEPT ![request[u].record] =
       [key |-> request[u].pair.key, body |-> request[u].body]]
  /\ Answered(u)
  /\ UNCHANGED <<team, members, counts, client, known>>

DeleteRecord(u, id) ==
  /\ ~team.deleted /\ u \in Writers /\ records[id] \in Ciphertext
  /\ records' = [records EXCEPT ![id] = Deleted]
  /\ UNCHANGED <<team, members, counts, client, request, known>>

(* update() *)
RenameApply(u) ==
  /\ Handles(u, "rename") /\ u \in Managers /\ CurrentVersion(u)
  /\ team' = [team EXCEPT !.name = [key |-> request[u].pair.key, body |-> request[u].body]]
  /\ Answered(u)
  /\ UNCHANGED <<members, records, counts, client, known>>

(* addMember(): only an owner adds an owner. *)
AddApply(u) ==
  /\ Handles(u, "add") /\ u \in Managers /\ CurrentVersion(u)
  /\ request[u].role = "owner" => u \in Owners
  /\ request[u].target \notin Members
  /\ members' = [members EXCEPT ![request[u].target] =
       [role |-> request[u].role, key |-> request[u].pair.key]]
  /\ Answered(u)
  /\ UNCHANGED <<team, records, counts, client, known>>

SomeOwner(t) == Owners # {}
OtherOwner(t) == Owners \ {t} # {}

(* updateMember(): an owner may only be demoted beside another one. A role *)
(* that is the same as before changes nothing.                             *)
ChangeRole(u, t, role) ==
  /\ "role" \in Enabled /\ ~team.deleted
  /\ u \in Managers /\ t \in Members /\ role # members[t].role
  /\ role = "owner" => u \in Owners
  /\ t \in Owners /\ role # "owner" => OtherOwner(t)
  /\ members' = [members EXCEPT ![t].role = role]
  /\ UNCHANGED <<team, records, counts, client, request, known>>

(* delete(): the role is checked, then the row is marked as deleted. *)
DeleteTeam(u) ==
  /\ ~team.deleted /\ u \in Owners
  /\ Send(u, [op |-> "delete"])
  /\ UNCHANGED edits

DeleteTeamApply(u) ==
  /\ Handles(u, "delete")
  /\ team' = [team EXCEPT !.deleted = TRUE]
  /\ Answered(u)
  /\ UNCHANGED <<members, records, counts, client, known>>

------------------------------------------------------------------------------
(* removeMemberWithRotation(): the client gets the team, then the members, *)
(* generates a key, and lists the records type by type, re-encrypting each *)
(* with it; it stops when the selected key changes.                        *)
Anyone(u) == User
OtherThan(u) == User \ {u}
Removing(u, phase) ==
  /\ request[u] # None /\ request[u].op = "remove" /\ request[u].phase = phase
  /\ phase # "reply" => scope[u] = request[u].pair

Remove(u, t) ==
  /\ scope[u] # None /\ t \in OtherThan(u) /\ u \in Members /\ ~team.deleted
  /\ team.version = scope[u].version /\ keys < MaxKey
  /\ Send(u, [op |-> "remove", phase |-> "list", pair |-> scope[u], target |-> t,
              name |-> team.name, remaining |-> {}, key |-> 0,
              snapshot |-> [id \in Record |-> None]])
  /\ UNCHANGED edits

RemoveList(u) ==
  /\ Removing(u, "list") /\ u \in Members /\ request[u].target \in Members
  /\ request[u].name.key = request[u].pair.key /\ keys < MaxKey
  /\ keys' = keys + 1
  /\ request' = [request EXCEPT ![u].phase = "read", ![u].key = keys',
       ![u].remaining = Members \ {request[u].target}]
  /\ known' = [known EXCEPT ![u] = @ \cup {keys'}]
  /\ UNCHANGED <<server, edits, client>>

Listed(id) == IF records[id] \in Ciphertext THEN records[id] ELSE Deleted

RemoveRead(u, id) ==
  /\ Removing(u, "read") /\ u \in Members /\ request[u].snapshot[id] = None
  /\ records[id] \in Ciphertext => records[id].key = request[u].pair.key
  /\ request' = [request EXCEPT ![u].snapshot[id] = Listed(id)]
  /\ UNCHANGED <<server, counts, client, known>>

RemoveSend(u) ==
  /\ Removing(u, "read")
  /\ \A id \in Record : request[u].snapshot[id] # None
  /\ request' = [request EXCEPT ![u].phase = "sent"]
  /\ UNCHANGED <<server, counts, client, known>>

(* removeMember() *)
SameIds(u, id) ==
  (request[u].snapshot[id] \in Ciphertext) <=> (records[id] \in Ciphertext)
SameCiphertext(u, id) == request[u].snapshot[id] = Listed(id)
EveryMember(u) == request[u].remaining = Members \ {request[u].target}

RemoveApply(u) ==
  LET p == request[u] IN
  /\ Handles(u, "remove") /\ p.phase = "sent"
  /\ u \in Managers /\ p.target \in Members
  /\ p.target \in Owners => OtherOwner(p.target)
  /\ CurrentVersion(u) /\ team.name = p.name
  /\ EveryMember(u)
  /\ \A id \in Record : SameCiphertext(u, id)
  /\ members' = [t \in User |->
       IF t = p.target THEN None
       ELSE IF t \in p.remaining THEN [members[t] EXCEPT !.key = p.key]
       ELSE members[t]]
  /\ records' = [id \in Record |->
       IF records[id] \in Ciphertext
       THEN [key |-> p.key, body |-> p.snapshot[id].body] ELSE records[id]]
  /\ team' = [team EXCEPT !.version = @ + 1,
                          !.name = [key |-> p.key, body |-> p.name.body]]
  /\ request' = [request EXCEPT ![u].phase = "reply"]
  /\ UNCHANGED <<counts, client, known>>

(* The client drops the old key; the new one it gets from its membership. *)
RemoveReply(u) ==
  /\ Removing(u, "reply")
  /\ Answered(u)
  /\ scope' = [scope EXCEPT ![u] = None]
  /\ UNCHANGED <<server, counts, loading, known>>

Next ==
  \E u \in User :
    \/ LoadTeam(u) \/ LoadMembership(u) \/ LoseKey(u)
    \/ Rename(u) \/ DeleteTeam(u) \/ RequestFail(u)
    \/ SaveApply(u) \/ RenameApply(u) \/ AddApply(u) \/ DeleteTeamApply(u)
    \/ RemoveList(u) \/ RemoveSend(u) \/ RemoveApply(u) \/ RemoveReply(u)
    \/ \E id \in Record : Save(u, id) \/ DeleteRecord(u, id) \/ RemoveRead(u, id)
    \/ \E t \in User :
         \/ Remove(u, t)
         \/ \E role \in Role : Add(u, t, role) \/ ChangeRole(u, t, role)

Spec == Init /\ [][Next]_vars

------------------------------------------------------------------------------
(* The name, every member's wrapped key and every record of the team are   *)
(* under one key, however loading, saving, renaming, adding and removing   *)
(* are interleaved: nobody is left with data that no member can open.      *)
OneTeamKey ==
  /\ \A u \in Members : members[u].key = team.name.key
  /\ \A id \in Record : records[id] \in Ciphertext => records[id].key = team.name.key

(* "Old key invalid": whoever is not a member has never had the key that   *)
(* the name and the records are encrypted with.                            *)
OutsidersLackKey == \A u \in User \ Members : team.name.key \notin known[u]

(* assertNotLastOwner(): "A team must keep at least one owner." *)
KeepsAnOwner == Owners # {}

(* "Reject stale rotations": removing a member changes the key of the name *)
(* and the records and loses no edit that was made meanwhile.              *)
RemovalKeepsEdits ==
  [][team'.version # team.version =>
       /\ team'.name.body = team.name.body
       /\ \A id \in Record :
            /\ (records[id] \in Ciphertext) <=> (records'[id] \in Ciphertext)
            /\ records[id] \in Ciphertext => records'[id].body = records[id].body]_vars

(* The vault as its members see it: what they can open with the key of the *)
(* team, and the edits that wait for an answer.                            *)
Readable(id) ==
  IF records[id] \in Ciphertext
  THEN IF records[id].key = team.name.key THEN records[id].body ELSE None
  ELSE records[id]
Editing == {u \in User : request[u] # None /\ request[u].op \in {"save", "rename"}}
Contents == [id \in Record |-> Readable(id)]
Open == {request[u].body : u \in Editing}
Shared == INSTANCE SharedVault WITH
  Item <- Record, content <- Contents, title <- team.name.body,
  made <- edits, open <- Open, version <- team.version

(* Whatever is loaded, removed, rotated, refused or lost meanwhile, an     *)
(* edit of a record or of the name takes effect once or not at all, and    *)
(* stays until it is replaced: TeamService and VaultResourceController     *)
(* implement SharedVault.                                                  *)
EditsTakeEffectOnce == Shared!Spec
==============================================================================

----------------------------- MODULE VaultRecords -----------------------------
(***************************************************************************)
(* The vault records of one client: its personal ones and those of a team, *)
(* which the user selects in turn. Writes are sealed with the key of the   *)
(* workspace and cut where they wait for the server; lists are decrypted   *)
(* into a cache. The other owners of the team rotate its key.              *)
(* A record has one of its relationship fields; what it says is left out.  *)
(***************************************************************************)
EXTENDS NativeBridge

CONSTANTS
    Record,       \* ids of records
    Layouts,      \* what Init chooses from: the table of each record
    MaxVersion    \* bound: versions of the team key

ASSUME RecordsAssumption == MaxVersion \in Nat \ {0}

VARIABLES
    table,        \* the table of each record
    viewed,       \* the table whose list the patient user looks at
    rows,         \* server: workspace, relation and seals of each record
    version,      \* server: the version of the team key; 0: not a member
    unlocked,     \* the vault key is in memory
    scope,        \* the selected workspace
    teamKey,      \* the version of the selected team key, or 0
    failed,       \* the switcher shows that the key could not be unlocked
    listed,       \* the version in the cached list of teams; 0: not in it
    load,         \* the switcher's loading of the key
    due,          \* its effect is about to run
    write,        \* saves and deletions
    shown, behind, marked, \* cached lists: all, those the server is ahead of, the invalidated
    fetch         \* lists that are being read

serverVars == <<table, viewed, rows, version>>
scopeVars == <<unlocked, scope, teamKey, failed, listed, load, due>>
listVars == <<shown, behind, marked, fetch>>
recordVars == <<serverVars, scopeVars, write, listVars>>

Table == {"groups", "hosts", "host-credentials", "identities", "snippets", "tunnels"}
Space == {"personal", "team"}
Version == 0 .. MaxVersion
Zeroed == MaxVersion + 1          \* the key of a seal made with wiped bytes
NoRecord == None

Row == [ws : Space \cup {"none", "gone"}, link : Record \cup {NoRecord},
        seals : SUBSET (Space \X (Version \cup {Zeroed}))]
NoRow == [ws |-> "none", link |-> NoRecord, seals |-> {}]
List == [table : Table, ws : Space, version : Version]
Write == [do : {"none", "save", "pins", "delete"}, rec : Record \cup {NoRecord}, new : BOOLEAN,
          link : Record \cup {NoRecord}, ws : Space, version : Version, held : BOOLEAN,
          at : {"asked", "sent", "stored", "lost", "ended"}]
NoWrite == [do |-> "none", rec |-> NoRecord, new |-> FALSE, link |-> NoRecord,
            ws |-> "personal", version |-> 0, held |-> FALSE, at |-> "ended"]
NoLoad == [at |-> "idle", version |-> 0]

RecordsTypeOK ==
    /\ table \in [Record -> Table] /\ viewed \in Table \cup {"none"}
    /\ rows \in [Record -> Row] /\ version \in Version
    /\ unlocked \in BOOLEAN /\ scope \in Space /\ failed \in BOOLEAN /\ due \in BOOLEAN
    /\ teamKey \in Version /\ listed \in Version
    /\ load \in [at : {"idle", "asked", "answered"}, version : Version]
    /\ write \in [Op -> Write]
    /\ shown \subseteq List /\ behind \subseteq List /\ marked \subseteq List
    /\ fetch \subseteq [list : List, held : BOOLEAN, at : {"asked", "read"}, behind : BOOLEAN]

(* Which tables the relationship fields of a table lead to.                *)
Related == [t \in Table |-> CASE t \in {"groups", "hosts"} -> {"groups"}
                              [] t = "host-credentials" -> {"hosts", "identities"}
                              [] t = "tunnels" -> {"hosts"}
                              [] OTHER -> {}]

(* Bound: the hasty user works with records that can refer to one another, *)
(* the patient one with those of the table that is viewed.                 *)
Linkable(l) == \E r, q \in Record : l[q] \in Related[l[r]]

ASSUME LayoutsAssumption == Layouts \subseteq [Record -> Table] /\ \E l \in Layouts : Linkable(l)

RecordsInit ==
    /\ table \in IF ~Hasty THEN Layouts ELSE {l \in Layouts : Linkable(l)}
    /\ "records" \in used \/ table = CHOOSE l \in Layouts : Linkable(l)
    /\ viewed = IF "records" \in used /\ ~Hasty THEN table[CHOOSE r \in Record : TRUE] ELSE "none"
    /\ rows = [r \in Record |-> NoRow] /\ version = 1
    /\ unlocked = TRUE /\ scope = "personal" /\ teamKey = 0 /\ failed = FALSE
    /\ listed = 1 /\ load = NoLoad /\ due = FALSE
    /\ write = [o \in Op |-> NoWrite]
    /\ shown = {} /\ behind = {} /\ marked = {} /\ fetch = {}

Working == "records" \in used /\ account = 0
Live(r) == rows[r].ws \in Space
Pending(o) == write[o].at \notin {"lost", "ended"}
NoWrites == \A o \in Op : ~Pending(o)
Advance(o, at) == write' = [write EXCEPT ![o].at = at]
End(o, at) == write' = [write EXCEPT ![o] =
                          [NoWrite EXCEPT !.rec = IF at = "lost" THEN write[o].rec ELSE @, !.at = at]]

(* useActiveVaultResourceKey: the key of the selected workspace.           *)
HasKey == unlocked /\ (scope = "team" => teamKey # 0)
KeyVersion == IF scope = "team" THEN teamKey ELSE 0
InView == [table |-> viewed, ws |-> scope, version |-> KeyVersion]
Wanted(l) == HasKey /\ l.ws = scope /\ l.version = KeyVersion

-----------------------------------------------------------------------------
(* Writes: captureVaultWriteScope and the hooks that use it                *)

(* A personal save asks nothing before it is sent; a shared one asks for   *)
(* what the server supports, a deletion for the record.                    *)
Capture(action, r, link) ==
    /\ Begin /\ Working /\ HasKey
    /\ Hasty \/ (NoWrites /\ fetch = {} /\ table[r] = viewed /\ InView \in shown)
    /\ write' = [write EXCEPT ![ops'] =
         [do |-> action, rec |-> r, new |-> rows[r].ws = "none", link |-> link, ws |-> scope,
          version |-> KeyVersion, held |-> TRUE,
          at |-> IF scope = "personal" /\ action # "delete" THEN "sent" ELSE "asked"]]
    /\ UNCHANGED <<shared, ipc, serverVars, scopeVars, listVars>>

(* Forms outlive a change of workspace: what is saved, and what it refers  *)
(* to, may be of the other one.                                            *)
SaveRecord(t) == \E r \in Record, link \in Record \cup {NoRecord} :
    /\ table[r] = t /\ rows[r].ws # "gone"
    /\ \A o \in Op : Pending(o) /\ write[o].new => write[o].rec # r
    /\ link # NoRecord => link # r /\ Live(link) /\ table[link] \in Related[t]
    /\ Capture("save", r, link)
SaveGroup == SaveRecord("groups")
SaveHost == SaveRecord("hosts")
SaveHostCredential == SaveRecord("host-credentials")
SaveSnippet == SaveRecord("snippets")
SaveIdentity == SaveRecord("identities")
SaveTunnel == SaveRecord("tunnels")
SaveHostKeys == \E r \in Record :
    table[r] = "hosts" /\ Live(r) /\ Capture("pins", r, rows[r].link)

DeleteRecord(t) == \E r \in Record : table[r] = t /\ Live(r) /\ Capture("delete", r, NoRecord)
DeleteHost == DeleteRecord("hosts")
DeleteHostCredential == DeleteRecord("host-credentials")
DeleteSnippet == DeleteRecord("snippets")
DeleteIdentity == DeleteRecord("identities")
DeleteTunnel == DeleteRecord("tunnels")

(* assertCurrent: the captured key is still the one that is selected. The  *)
(* bytes of a key that was replaced are wiped: it would seal with zeros.   *)
Current(o) == write[o].held /\ write[o].ws = scope
AtHomeUnchecked(o) == TRUE
AtHome(o) == write[o].do = "delete" => rows[write[o].rec].ws \in {write[o].ws, "gone"}

ToldUnchecked(o) ==
    /\ write[o].at = "asked"
    /\ IF AtHome(o) THEN Advance(o, "sent") ELSE End(o, "ended")
    /\ UNCHANGED <<bridge, serverVars, scopeVars, listVars>>
Told(o) ==
    /\ write[o].at = "asked"
    /\ IF Current(o) /\ AtHome(o) THEN Advance(o, "sent") ELSE End(o, "ended")
    /\ UNCHANGED <<bridge, serverVars, scopeVars, listVars>>

Seal(o) == <<write[o].ws, IF write[o].held THEN write[o].version ELSE Zeroed>>
WipeTeamKey == write' = [o \in Op |-> IF write[o].at = "asked" /\ write[o].ws = "team"
                                      THEN [write[o] EXCEPT !.held = FALSE] ELSE write[o]]
WipeAllKeys == write' = [o \in Op |-> IF write[o].at = "asked"
                                      THEN [write[o] EXCEPT !.held = FALSE] ELSE write[o]]

-----------------------------------------------------------------------------
(* The server                                                              *)

InScopeUnchecked(link, ws) == TRUE
InScope(link, ws) == link # NoRecord => rows[link].ws = ws
Member(ws) == ws = "team" => version # 0
RightVersion(o) == write[o].ws = "team" => version = write[o].version

Accepted(o) ==
    LET w == write[o] IN
    IF w.do = "delete" THEN Live(w.rec) /\ Member(rows[w.rec].ws)
    ELSE /\ rows[w.rec].ws = IF w.new THEN "none" ELSE w.ws
         /\ Member(w.ws) /\ RightVersion(o)
         /\ w.do = "save" => InScope(w.link, w.ws)

(* A list that is cached falls behind, and so does one that was just read. *)
Changed(t, ws) ==
    /\ behind' = behind \cup {l \in shown : l.table = t /\ l.ws = ws}
    /\ fetch' = {[f EXCEPT !.behind = @ \/ (f.at = "read" /\ f.list.table = t /\ f.list.ws = ws)] : f \in fetch}
    /\ UNCHANGED <<shown, marked>>

Store(o) ==
    LET w == write[o] IN
    /\ w.at = "sent" /\ Accepted(o)
    /\ Advance(o, "stored")
    /\ rows' = [rows EXCEPT ![w.rec] =
                 IF w.do = "delete" THEN [@ EXCEPT !.ws = "gone"]
                 ELSE [ws |-> w.ws, link |-> w.link, seals |-> @.seals \cup {Seal(o)}]]
    /\ Changed(table[w.rec], IF w.do = "delete" THEN rows[w.rec].ws ELSE w.ws)
    /\ UNCHANGED <<bridge, table, viewed, version, scopeVars>>

Refuse(o) ==
    /\ write[o].at = "sent" /\ ~Accepted(o)
    /\ End(o, "ended")
    /\ UNCHANGED <<bridge, serverVars, scopeVars, listVars>>

(* The answer invalidates the lists of the table. What is being read for   *)
(* the first time is not read again.                                       *)
Reply(o) ==
    LET t == table[write[o].rec] IN
    /\ write[o].at = "stored"
    /\ End(o, "ended")
    /\ marked' = marked \cup {l \in shown : l.table = t}
    /\ fetch' = {f \in fetch : ~(f.list.table = t /\ f.list \in shown /\ Wanted(f.list))}
    /\ UNCHANGED <<bridge, serverVars, scopeVars, shown, behind>>

Lost(o) ==
    /\ write[o].at = "stored" /\ ~Hasty
    /\ End(o, "lost")
    /\ UNCHANGED <<bridge, serverVars, scopeVars, listVars>>

(* Another owner of the team removes somebody: every record gets the next  *)
(* key. It may be this user who is removed (bound: before any rotation).   *)
RotateElsewhere ==
    /\ Working /\ Hasty /\ version \in 1 .. MaxVersion - 1
    /\ version' = version + 1
    /\ rows' = [r \in Record |-> IF rows[r].ws = "team"
                   THEN [rows[r] EXCEPT !.seals = {<<"team", version'>>}] ELSE rows[r]]
    /\ UNCHANGED <<bridge, table, viewed, scopeVars, write, listVars>>
RemovedElsewhere ==
    /\ Working /\ Hasty /\ version = 1
    /\ version' = 0
    /\ UNCHANGED <<bridge, table, viewed, rows, scopeVars, write, listVars>>

-----------------------------------------------------------------------------
(* The selected workspace and its key                                      *)

WithoutKey == {[f EXCEPT !.held = @ /\ f.list.ws = "personal"] : f \in fetch}
ClearTeamKey ==
    /\ teamKey' = 0 /\ failed' = FALSE
    /\ WipeTeamKey /\ fetch' = WithoutKey
    /\ UNCHANGED <<shown, behind, marked>>

Select(ws) ==
    /\ Working /\ unlocked /\ scope # ws /\ (ws = "team" => listed # 0)
    /\ Hasty \/ NoWrites
    /\ scope' = ws /\ due' = TRUE
    /\ ClearTeamKey
    /\ UNCHANGED <<bridge, serverVars, unlocked, listed, load>>
SelectTeam == Select("team")
SelectPersonal == Select("personal")

(* A new list of teams; a team that is not in it is left.                  *)
RefreshList ==
    /\ Working /\ unlocked /\ listed # version
    /\ listed' = version /\ due' = TRUE
    /\ IF version = 0 /\ scope = "team" THEN scope' = "personal" /\ ClearTeamKey
       ELSE UNCHANGED <<scope, teamKey, failed, write, listVars>>
    /\ UNCHANGED <<bridge, serverVars, unlocked, load>>

(* The effect: a key of the version in the list is kept, another one is    *)
(* wiped and loaded again; what was being loaded is forgotten.             *)
SwitcherEffect ==
    /\ due
    /\ IF scope = "personal" \/ ~unlocked
         THEN ClearTeamKey /\ load' = NoLoad /\ due' = FALSE
       ELSE IF teamKey # 0 /\ listed \in {0, teamKey}
         THEN load' = NoLoad /\ due' = FALSE /\ UNCHANGED <<teamKey, failed, write, listVars>>
       ELSE ClearTeamKey /\ load' = [at |-> "asked", version |-> 0] /\ due' = (teamKey # 0)
    /\ UNCHANGED <<bridge, serverVars, unlocked, scope, listed>>

LoadRead ==
    /\ load.at = "asked"
    /\ load' \in {[at |-> "answered", version |-> v] : v \in {0, version}}
    /\ UNCHANGED <<bridge, serverVars, unlocked, scope, teamKey, failed, listed, due, write, listVars>>

LoadFailed ==
    /\ load.at = "answered" /\ (load.version = 0 \/ ~unlocked)
    /\ load' = NoLoad /\ failed' = TRUE
    /\ UNCHANGED <<bridge, serverVars, unlocked, scope, teamKey, listed, due, write, listVars>>
LoadDone ==
    /\ load.at = "answered" /\ load.version # 0 /\ unlocked
    /\ load' = NoLoad /\ due' = TRUE
    /\ teamKey' = load.version /\ failed' = FALSE
    /\ UNCHANGED <<bridge, serverVars, unlocked, scope, listed, write, listVars>>

(* lock() wipes both keys and purges what is decrypted.                    *)
LockRecords ==
    /\ unlocked' = FALSE /\ due' = TRUE
    /\ teamKey' = 0 /\ failed' = FALSE
    /\ WipeAllKeys
    /\ shown' = {} /\ behind' = {} /\ marked' = {} /\ fetch' = {}
Lock ==
    /\ Working /\ unlocked
    /\ Hasty \/ NoWrites
    /\ LockRecords
    /\ UNCHANGED <<bridge, serverVars, scope, listed, load>>
Unlock ==
    /\ Working /\ ~unlocked /\ ~due
    /\ unlocked' = TRUE /\ due' = TRUE
    /\ UNCHANGED <<bridge, serverVars, scope, teamKey, failed, listed, load, write, listVars>>

-----------------------------------------------------------------------------
(* The lists                                                               *)

ReadList ==
    /\ Working /\ HasKey /\ viewed # "none"
    /\ InView \notin shown \/ InView \in marked
    /\ \A f \in fetch : f.list # InView
    /\ fetch' = fetch \cup {[list |-> InView, held |-> TRUE, at |-> "asked", behind |-> FALSE]}
    /\ UNCHANGED <<bridge, serverVars, scopeVars, write, shown, behind, marked>>

(* The answer of the server: a list that the key cannot open is an error.  *)
Opens(l) == l.ws = "team" => version = l.version
Listed(f) ==
    /\ f.at = "asked"
    /\ fetch' = (fetch \ {f}) \cup (IF Opens(f.list) THEN {[f EXCEPT !.at = "read"]} ELSE {})
    /\ UNCHANGED <<bridge, serverVars, scopeVars, write, shown, behind, marked>>

Decrypted(f) ==
    /\ f.at = "read"
    /\ fetch' = fetch \ {f}
    /\ IF f.held
         THEN /\ shown' = shown \cup {f.list} /\ marked' = marked \ {f.list}
              /\ behind' = (behind \ {f.list}) \cup (IF f.behind THEN {f.list} ELSE {})
         ELSE UNCHANGED <<shown, behind, marked>>
    /\ UNCHANGED <<bridge, serverVars, scopeVars, write>>
-----------------------------------------------------------------------------
Switcher == SwitcherEffect \/ LoadRead \/ LoadFailed \/ LoadDone
WriteStep(o) == Told(o) \/ Store(o) \/ Refuse(o) \/ Reply(o) \/ Lost(o)
Fetching == ReadList \/ \E f \in fetch : Listed(f) \/ Decrypted(f)

RecordsNext ==
    \/ SaveGroup \/ SaveHost \/ SaveHostKeys \/ SaveHostCredential
    \/ SaveSnippet \/ SaveIdentity \/ SaveTunnel
    \/ DeleteHost \/ DeleteHostCredential \/ DeleteSnippet \/ DeleteIdentity \/ DeleteTunnel
    \/ SelectTeam \/ SelectPersonal \/ RefreshList \/ Lock \/ Unlock
    \/ RotateElsewhere \/ RemovedElsewhere
    \/ Switcher \/ Fetching
    \/ \E o \in Op : WriteStep(o)

(* Requests are answered and React runs the effects that are due.          *)
RecordsFairness ==
    LET v == <<bridge, recordVars>> IN
    /\ WF_v(InUse("records", Switcher)) /\ WF_v(InUse("records", Fetching))
    /\ WF_v(InUse("records", \E o \in Op : WriteStep(o)))

-----------------------------------------------------------------------------
(* Every envelope of a record was made with the key of its workspace, at   *)
(* the version that the members have: never with another workspace's, with *)
(* a replaced key or with wiped bytes, however long the write waited.      *)
SealedForItsWorkspace ==
    \A r \in Record : Live(r) /\ Member(rows[r].ws) =>
        rows[r].seals \subseteq {<<rows[r].ws, IF rows[r].ws = "team" THEN version ELSE 0>>}

(* No record refers to one of another workspace, also when a form was      *)
(* filled in one workspace and saved in the other.                         *)
LinksStayInside ==
    \A r \in Record : Live(r) /\ rows[r].link # NoRecord =>
        rows[rows[r].link].ws \in {rows[r].ws, "gone"}

(* A deletion removes nothing but a record of the workspace that was       *)
(* selected when the user asked for it: the server does not know which.    *)
DeletesStayHome ==
    [][\A r \in Record : Live(r) /\ rows'[r].ws = "gone" =>
         \E o \in Op : write[o].at = "sent" /\ write[o].do = "delete" /\ write[o].rec = r /\ write[o].ws = rows[r].ws]_rows

(* The key of a selected team gets loaded or an error is shown, unless the *)
(* cached list of teams is older than the team: then it is loaded, found   *)
(* of another version, wiped and loaded again until the list is read anew. *)
TeamKeySettles ==
    unlocked /\ scope = "team" /\ listed \in {0, version} =>
        ~due /\ load.at = "idle" /\ (teamKey # 0 \/ failed)

(* Who saves and deletes with his lists in view sees in the end what the   *)
(* server has, as far as the answers come and the key is the current one.  *)
ListsCatchUp ==
    viewed # "none" /\ HasKey /\ (scope = "team" => teamKey = version) =>
        \/ InView \in shown \ (behind \cup marked)
        \/ \E o \in Op : write[o].at = "lost" /\ table[write[o].rec] = viewed
=============================================================================

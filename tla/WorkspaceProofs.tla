---------------------------- MODULE WorkspaceProofs ----------------------------
(***************************************************************************)
(* Proofs about the parts of Workspace that keep what belongs together:    *)
(* records with their workspaces (VaultRecords), connections with the keys *)
(* that the user accepted, and accepted last (HostKeys), web connections   *)
(* with their token (WebSsh), an sftp child with what is told of it        *)
(* (SftpProcess), what ssh needs with the operation it was made for        *)
(* (KeyAgents), a listing with the place it is of (FilePanes), an answer   *)
(* of the assistant with its question (Assistant), a form with its record  *)
(* (AiSettings), and a tab with its session, and with what that was lent   *)
(* (TerminalTabs); for any numbers of records, servers, keys and           *)
(* operations.                                                             *)
(***************************************************************************)
EXTENDS Workspace, FiniteSetTheorems, SequenceTheorems, TLAPS

LEMMA SpecSteps == Spec => Init /\ [][Next]_vars
BY PTL DEF Spec

(* An operation is begun with the next number, whichever part it is of.     *)
LEMMA OpsGrow ==
  ASSUME \/ TabsNext \/ TunnelsNext \/ TransfersNext \/ RecordsNext \/ SignOut \/ KeysNext
         \/ AgentsNext \/ PanesNext \/ AssistantNext \/ WebNext
         \/ EditorNext \/ ListingsNext \/ AiNext \/ PipesNext
  PROVE  ops' = ops \/ Begin
<1>1. ASSUME TabsNext PROVE ops' = ops \/ Begin
  BY <1>1 DEF TabsNext, AddTab, Connect, Disconnect, CloseTab, TabsProgress, TabsShell, HostSession, Declined,
     Listened, ListenFails, Opened, Refused, CloseDone, ExitHeard, OpenPty, ClosePty, Exit, bridge
<1>2. ASSUME TunnelsNext PROVE ops' = ops \/ Begin
  BY <1>2 DEF TunnelsNext, OpenTunnels, LeaveTunnels, ReadStatus, ShowStatus, TunnelProgress, OpenTunnel, Save,
     StartTunnel, StopTunnel, RemoveTunnel, CloseTunnel, TunnelExit, Stopped, HasKeys, NotStarted, AuthThrows,
     HasAuth, Started, StartFailed, bridge
<1>3. ASSUME TransfersNext PROVE ops' = ops \/ Begin
  BY <1>3 DEF TransfersNext, OpenSftp, LeaveSftp, Transfer, Hear, TransferStep, SpawnTransfer, Refusal,
     CancelTransfer, Monitor, TransferExit, RemoveTransfer, bridge
<1>4. ASSUME RecordsNext PROVE ops' = ops \/ Begin
  <2>1. ASSUME NEW t, SaveRecord(t) \/ DeleteRecord(t) PROVE Begin
    BY <2>1 DEF SaveRecord, DeleteRecord, Capture
  <2>2. SaveHostKeys => Begin
    BY DEF SaveHostKeys, Capture
  <2>3. ASSUME NEW o \in Op, WriteStep(o) PROVE ops' = ops
    BY <2>3 DEF WriteStep, Told, Store, Refuse, Reply, Lost, bridge
  <2>4. Switcher \/ Fetching \/ RotateElsewhere \/ RemovedElsewhere => ops' = ops
    BY DEF Switcher, SwitcherEffect, LoadRead, LoadFailed, LoadDone, Fetching, ReadList, Listed, Decrypted,
       RotateElsewhere, RemovedElsewhere, bridge
  <2>5. SelectTeam \/ SelectPersonal \/ RefreshList \/ Lock \/ Unlock => ops' = ops
    BY DEF SelectTeam, SelectPersonal, Select, RefreshList, Lock, Unlock, bridge
  <2> QED BY <1>4, <2>1, <2>2, <2>3, <2>4, <2>5 DEF RecordsNext, SaveGroup, SaveHost, SaveHostCredential,
         SaveSnippet, SaveIdentity, SaveTunnel, DeleteHost, DeleteHostCredential, DeleteSnippet,
         DeleteIdentity, DeleteTunnel
<1>5. ASSUME SignOut PROVE ops' = ops
  BY <1>5 DEF SignOut
<1>6. ASSUME AgentsNext PROVE ops' = ops \/ Begin
  <2>1. ASSUME NEW o \in Op, PrepareStep(o) PROVE ops' = ops
    BY <2>1 DEF PrepareStep, NoIdentity, WriteKeyFile, StartAgent, AddKey, AnswerAskpass, KeyAdded, ListKey,
       Spawn, Still, bridge
  <2>2. ASSUME NEW o \in Op, Fail(o) \/ ChildEnds(o) \/ SeeEnd(o) \/ CloseJob(o) \/ ForgetKey(o) \/ GrowOld(o)
        PROVE  ops' = ops
    BY <2>2 DEF Fail, ChildEnds, SeeEnd, CloseJob, ForgetKey, GrowOld, Still, bridge
  <2>3. SweepStaleDirs \/ StartApp \/ Crash \/ Quit => ops' = ops
    BY DEF SweepStaleDirs, StartApp, Crash, Quit, Still, bridge
  <2>4. ASSUME NEW kind, NEW key, Prepare(kind, key) PROVE Begin
    BY <2>4 DEF Prepare
  <2> QED BY <1>6, <2>1, <2>2, <2>3, <2>4 DEF AgentsNext
<1>7. ASSUME PanesNext PROVE ops' = ops
  BY <1>7 DEF PanesNext, PickHost, HostChanges, AskHome, NotResolved, Navigate, Choose, MakeFolder, Delete,
     Change, Refresh, PaneAnswer, HomeAnswer, ListAnswer, LateAnswer, RefreshAnswer, ChangeAnswer, Acts, Answered, bridge
<1>8. ASSUME AssistantNext PROVE ops' = ops \/ Begin
  BY <1>8 DEF AssistantNext, RequestSuggestion, AutoTrigger, Trigger, TypeKey, PressEscape, Accept, SwitchTab,
     Send, Explain, OpenPanel, ClosePanel, CancelStreaming, SendText, SuggestionEnds, StreamEnds, bridge
<1>9. ASSUME WebNext PROVE ops' = ops \/ Begin
  <2>1. ASSUME NEW c \in Conn, ProxyStep(c) PROVE ops' = ops
    BY <2>1 DEF ProxyStep, HandshakeTimeout, ReceiveFrame, SelectToken, ConsumeToken, ConnectTo, Probe,
       VerifyHostKey, HostKeyUnavailable, Authenticate, ClientGone, bridge
  <2> QED BY <1>9, <2>1 DEF WebNext, StoreToken, ExpireToken, OpenSocket, SendFrame, CloseSocket, HearFrame,
         HearClose, ConnectionBreaks, ChannelCloses, bridge
<1>10. ASSUME KeysNext PROVE ops' = ops \/ Begin
  <2>1. EnsureHostKeys \/ VerifyFromEditor => Begin
    BY DEF EnsureHostKeys, VerifyFromEditor, Enter
  <2>2. Trust \/ Decline \/ Rekey \/ PinnedElsewhere \/ HostsRead => ops' = ops
    BY DEF Trust, Decline, Rekey, PinnedElsewhere, HostsRead, bridge
  <2>3. ASSUME NEW o \in Op, Scanned(o) \/ ScanFailed(o) \/ Saved(o) \/ SaveFailed(o) \/ Admitted(o) \/ HandleHostKeyError(o)
        PROVE  ops' = ops
    BY <2>3 DEF Scanned, ScanFailed, Saved, SaveFailed, Admitted, HandleHostKeyError, bridge
  <2> QED BY <1>10, <2>1, <2>2, <2>3 DEF KeysNext
<1>11. ASSUME EditorNext PROVE ops' = ops \/ Begin
  <2>1. ASSUME NEW o \in Op, \/ HostSaved(o) \/ HostNotSaved(o) \/ Attached(o) \/ NotAttached(o)
                             \/ DuplicatesDeleted(o) \/ CredentialsDeleted(o) \/ NotDeleted(o) \/ TestAttachedKey(o)
        PROVE  ops' = ops
    BY <2>1 DEF HostSaved, HostNotSaved, Attached, NotAttached, DuplicatesDeleted, CredentialsDeleted, NotDeleted,
       Failed, TestAttachedKey, bridge
  <2>2. ASSUME NEW o \in Op, KeyTestEnds(o) \/ InstallExits(o) \/ ShellEnds(o) PROVE ops' = ops
    BY <2>2 DEF KeyTestEnds, InstallExits, ShellEnds, KeyTest, KeyInstall, InstallFails, TestAnswer, InstallAnswer, bridge
  <2>3. OpenNewHost \/ DismissEditor \/ CancelBootstrap \/ (\E h \in Rec : OpenHost(h)) \/ (\E i \in Ident : PickIdentity(i))
        => ops' = ops
    BY DEF OpenNewHost, DismissEditor, CancelBootstrap, OpenHost, PickIdentity, bridge
  <2>4. SubmitHost \/ SubmitBootstrap => Begin
    BY DEF SubmitHost, SubmitBootstrap
  <2> QED BY <1>11, <2>1, <2>2, <2>3, <2>4 DEF EditorNext
<1>12. ASSUME ListingsNext PROVE ops' = ops
  BY <1>12 DEF ListingsNext, ListRemote, ListLocal, RemoveEntry, DownloadEntry, UploadEntry, OpenRow, Up, LeaveRow, bridge
<1>13. ASSUME AiNext PROVE ops' = ops
  BY <1>13 DEF AiNext, PickProvider, EditConnection, PickModel, EnterManually, FetchModels, TestConnection, TypeModel,
     ModelsAnswer, NoModels, ConnectionAnswer, ReadSettings, SaveSettings, SettingsSaved, SettingsNotSaved,
     SettingsReadAgain, SettingsElsewhere, bridge
<1>14. ASSUME PipesNext PROVE ops' = ops
  BY <1>14 DEF PipesNext, PipeStep, SpawnChild, NotFed, Unobserved, Cancel, NextChild, WritePiece, ExitChild, HeirEnds,
     Drain, EndOfFile, Feed, Poll, CollectOutput, GraceOver, KillChild, bridge
<1> QED BY <1>1, <1>2, <1>3, <1>4, <1>5, <1>6, <1>7, <1>8, <1>9, <1>10, <1>11, <1>12, <1>13, <1>14


------------------------------------------------------------------------------
(* VaultRecords                                                             *)

RecordsTypes ==
  /\ rows \in [Record -> Row] /\ version \in Version
  /\ scope \in Space /\ teamKey \in Version
  /\ load \in [at : {"idle", "asked", "answered"}, version : Version]
  /\ write \in [Op -> Write]

(* A record that was never stored has no seal.                             *)
Unsealed(rs) == \A r \in Record : rs[r].ws = "none" => rs[r].seals = {}

(* What a write that is under way relies on: the key is that of its        *)
(* workspace and not wiped when it is sent; a deletion is then of a record *)
(* of that workspace; and pins are saved with a relation that was valid.   *)
GoodWrite(w, rs) ==
  w.at \in {"asked", "sent", "stored"} =>
    /\ w.rec \in Record /\ w.do \in {"save", "pins", "delete"}
    /\ w.ws = "personal" => w.version = 0
    /\ w.at = "sent" => w.held
    /\ w.at = "sent" /\ w.do = "delete" => rs[w.rec].ws \in {w.ws, "gone"}
    /\ w.do = "pins" =>
         /\ rs[w.rec].ws # "none"
         /\ w.link # NoRecord /\ rs[w.rec].ws = w.ws => rs[w.link].ws \in {w.ws, "gone"}

(* SealedForItsWorkspace and LinksStayInside, of given rows.               *)
Sealed(rs, v) ==
  \A r \in Record : rs[r].ws \in Space /\ (rs[r].ws = "team" => v # 0) =>
    rs[r].seals \subseteq {<<rs[r].ws, IF rs[r].ws = "team" THEN v ELSE 0>>}
Linked(rs) ==
  \A r \in Record : rs[r].ws \in Space /\ rs[r].link # NoRecord =>
    rs[rs[r].link].ws \in {rs[r].ws, "gone"}

RowsInv(rs, v) == Unsealed(rs) /\ Sealed(rs, v) /\ Linked(rs)

RecordsInv == RecordsTypes /\ RowsInv(rows, version) /\ \A o \in Op : GoodWrite(write[o], rows)

------------------------------------------------------------------------------
LEMMA RecordsInitial == Init => RecordsInv
<1> SUFFICES ASSUME Init PROVE RecordsInv
  OBVIOUS
<1> USE RecordsAssumption DEF Init, RecordsInit
<1>1. NoRow \in Row /\ NoWrite \in Write /\ 1 \in Version
  BY DEF NoRow, Row, NoWrite, Write, Version, Space, NoRecord
<1>2. RecordsTypes
  BY <1>1 DEF RecordsTypes, Space, NoLoad, Version
<1>3. RowsInv(rows, version)
  BY DEF RowsInv, Unsealed, Sealed, Linked, NoRow, Space
<1>4. \A o \in Op : GoodWrite(write[o], rows)
  BY DEF GoodWrite, NoWrite
<1> QED BY <1>2, <1>3, <1>4 DEF RecordsInv

(* Steps that leave the rows and the version alone. *)
LEMMA SameRows ==
  ASSUME RecordsInv, UNCHANGED <<rows, version>>,
         scope' \in Space, teamKey' \in Version,
         load' \in [at : {"idle", "asked", "answered"}, version : Version],
         write' \in [Op -> Write], \A o \in Op : GoodWrite(write'[o], rows)
  PROVE  RecordsInv'
BY DEF RecordsInv, RecordsTypes, RowsInv, Unsealed, Sealed, Linked

(* Wiping the keys that writes hold. *)
LEMMA Wiped1 ==
  ASSUME RecordsInv, WipeTeamKey \/ WipeAllKeys \/ UNCHANGED write
  PROVE  write' \in [Op -> Write] /\ \A o \in Op : GoodWrite(write'[o], rows)
<1>1. RecordsTypes /\ \A o \in Op : GoodWrite(write[o], rows)
  BY DEF RecordsInv
<1>2. ASSUME NEW o \in Op
      PROVE  /\ [write[o] EXCEPT !.held = FALSE] \in Write
             /\ write[o].at = "asked" => GoodWrite([write[o] EXCEPT !.held = FALSE], rows)
  <2>1. write[o] \in Write /\ GoodWrite(write[o], rows)
    BY <1>1 DEF RecordsTypes
  <2>2. [write[o] EXCEPT !.held = FALSE] \in Write
    BY <2>1 DEF Write
  <2>3. \A f \in {"do", "rec", "new", "link", "ws", "version", "at"} :
          [write[o] EXCEPT !.held = FALSE][f] = write[o][f]
    BY <2>1 DEF Write
  <2>4. ASSUME write[o].at = "asked" PROVE GoodWrite([write[o] EXCEPT !.held = FALSE], rows)
    BY <2>1, <2>3, <2>4 DEF GoodWrite
  <2> QED BY <2>2, <2>4
<1>3. CASE WipeTeamKey
  <2>1. write' \in [Op -> Write]
    BY <1>1, <1>2, <1>3 DEF WipeTeamKey, RecordsTypes
  <2>2. \A o \in Op : GoodWrite(write'[o], rows)
    BY <1>1, <1>2, <1>3 DEF WipeTeamKey
  <2> QED BY <2>1, <2>2
<1>4. CASE WipeAllKeys
  <2>1. write' \in [Op -> Write]
    BY <1>1, <1>2, <1>4 DEF WipeAllKeys, RecordsTypes
  <2>2. \A o \in Op : GoodWrite(write'[o], rows)
    BY <1>1, <1>2, <1>4 DEF WipeAllKeys
  <2> QED BY <2>1, <2>2
<1> QED BY <1>1, <1>3, <1>4 DEF RecordsTypes

------------------------------------------------------------------------------
(* The steps of the client around its writes. *)
QuietStep ==
  \/ SelectTeam \/ SelectPersonal \/ RefreshList \/ Lock \/ Unlock \/ Switcher \/ Fetching

LEMMA QuietKeeps == ASSUME RecordsInv, QuietStep PROVE RecordsInv'
<1> USE DEF serverVars, scopeVars, listVars
<1>1. RecordsTypes /\ (\A o \in Op : GoodWrite(write[o], rows)) /\ 0 \in Version /\ {"personal", "team"} = Space
  BY RecordsAssumption DEF RecordsInv, Version, Space
<1>2. UNCHANGED <<rows, version>>
  BY DEF QuietStep, SelectTeam, SelectPersonal, Select, RefreshList, Lock, Unlock, Switcher,
     SwitcherEffect, LoadRead, LoadFailed, LoadDone, Fetching, ReadList, Listed, Decrypted
<1>3. \/ WipeTeamKey /\ teamKey' = 0
      \/ WipeAllKeys /\ teamKey' = 0
      \/ UNCHANGED write
  BY DEF QuietStep, SelectTeam, SelectPersonal, Select, RefreshList, Lock, LockRecords, Unlock, Switcher,
     SwitcherEffect, ClearTeamKey, LoadRead, LoadFailed, LoadDone, Fetching, ReadList, Listed, Decrypted
<1>4. scope' \in Space
  BY <1>1 DEF RecordsTypes, QuietStep, SelectTeam, SelectPersonal, Select, RefreshList, Lock, LockRecords, Unlock,
     Switcher, SwitcherEffect, LoadRead, LoadFailed, LoadDone, Fetching, ReadList, Listed, Decrypted
<1>5. load' \in [at : {"idle", "asked", "answered"}, version : Version]
  BY <1>1 DEF RecordsTypes, QuietStep, SelectTeam, SelectPersonal, Select, RefreshList, Lock, LockRecords, Unlock,
     Switcher, SwitcherEffect, LoadRead, LoadFailed, LoadDone, Fetching, ReadList, Listed, Decrypted, NoLoad
<1>6. teamKey' \in Version
  BY <1>1 DEF RecordsTypes, QuietStep, SelectTeam, SelectPersonal, Select, RefreshList, Lock, LockRecords, Unlock,
     Switcher, SwitcherEffect, ClearTeamKey, LoadRead, LoadFailed, LoadDone, Fetching, ReadList, Listed, Decrypted
<1>7. write' \in [Op -> Write] /\ \A o \in Op : GoodWrite(write'[o], rows)
  BY <1>3, Wiped1
<1> QED BY <1>2, <1>4, <1>5, <1>6, <1>7, SameRows

LEMMA CaptureKeeps ==
  ASSUME RecordsInv, NEW r \in Record, NEW action \in {"save", "pins", "delete"},
         NEW link \in Record \cup {NoRecord}, Capture(action, r, link),
         action = "pins" => Live(r) /\ link = rows[r].link
  PROVE  RecordsInv'
<1> USE DEF serverVars, scopeVars, listVars
<1> DEFINE w == [do |-> action, rec |-> r, new |-> rows[r].ws = "none", link |-> link, ws |-> scope,
                 version |-> KeyVersion, held |-> TRUE,
                 at |-> IF scope = "personal" /\ action # "delete" THEN "sent" ELSE "asked"]
<1>1. RecordsTypes /\ Linked(rows) /\ \A o \in Op : GoodWrite(write[o], rows)
  BY DEF RecordsInv, RowsInv
<1>2. UNCHANGED <<rows, version, scope, teamKey, load>> /\ write' = [write EXCEPT ![ops'] = w]
  BY DEF Capture
<1>3. KeyVersion \in Version /\ (scope = "personal" => KeyVersion = 0)
  BY <1>1, RecordsAssumption DEF RecordsTypes, KeyVersion, Version
<1>4. w \in Write
  BY <1>1, <1>3 DEF Write, RecordsTypes
<1>5. GoodWrite(w, rows)
  <2>1. action = "pins" =>
          /\ rows[r].ws # "none"
          /\ link # NoRecord /\ rows[r].ws = scope => rows[link].ws \in {scope, "gone"}
    BY <1>1 DEF Live, Linked, Space
  <2>2. scope = "personal" => KeyVersion = 0
    BY <1>3
  <2>3. /\ w.do = action /\ w.rec = r /\ w.link = link /\ w.ws = scope
        /\ w.version = KeyVersion /\ w.held /\ (w.at = "sent" => action # "delete")
    OBVIOUS
  <2> HIDE DEF w
  <2>4. w.do = "pins" =>
          /\ rows[w.rec].ws # "none"
          /\ w.link # NoRecord /\ rows[w.rec].ws = w.ws => rows[w.link].ws \in {w.ws, "gone"}
    BY <2>1, <2>3
  <2>5. w.rec \in Record /\ w.do \in {"save", "pins", "delete"} /\ (w.ws = "personal" => w.version = 0)
    BY <2>2, <2>3
  <2>6. ~(w.at = "sent" /\ w.do = "delete")
    BY <2>3
  <2> QED BY <2>3, <2>4, <2>5, <2>6 DEF GoodWrite
<1>6. write' \in [Op -> Write] /\ \A o \in Op : GoodWrite(write'[o], rows)
  <2> HIDE DEF w
  <2> QED BY <1>1, <1>2, <1>4, <1>5 DEF RecordsTypes
<1> QED BY <1>1, <1>2, <1>6, SameRows DEF RecordsTypes

LEMMA CapturesKeep ==
  ASSUME RecordsInv,
         \/ SaveGroup \/ SaveHost \/ SaveHostKeys \/ SaveHostCredential
         \/ SaveSnippet \/ SaveIdentity \/ SaveTunnel
         \/ DeleteHost \/ DeleteHostCredential \/ DeleteSnippet \/ DeleteIdentity \/ DeleteTunnel
  PROVE  RecordsInv'
<1>1. ASSUME NEW t, SaveRecord(t) PROVE RecordsInv'
  BY <1>1, CaptureKeeps DEF SaveRecord
<1>2. ASSUME NEW t, DeleteRecord(t) PROVE RecordsInv'
  <2>1. PICK r \in Record : Capture("delete", r, NoRecord)
    BY <1>2 DEF DeleteRecord
  <2> QED BY <2>1, CaptureKeeps
<1>3. CASE SaveHostKeys
  <2>1. PICK r \in Record : Live(r) /\ Capture("pins", r, rows[r].link)
    BY <1>3 DEF SaveHostKeys
  <2>2. rows[r].link \in Record \cup {NoRecord}
    BY <2>1 DEF RecordsInv, RecordsTypes, Row
  <2> QED BY <2>1, <2>2, CaptureKeeps
<1> QED BY <1>1, <1>2, <1>3 DEF SaveGroup, SaveHost, SaveHostCredential, SaveSnippet, SaveIdentity,
         SaveTunnel, DeleteHost, DeleteHostCredential, DeleteSnippet, DeleteIdentity, DeleteTunnel

LEMMA WriteAnswerKeeps ==
  ASSUME RecordsInv, NEW o \in Op, Told(o) \/ Refuse(o) \/ Reply(o) \/ Lost(o) PROVE RecordsInv'
<1> USE DEF serverVars, scopeVars, listVars
<1> DEFINE EndedWith(at) == [NoWrite EXCEPT !.rec = IF at = "lost" THEN write[o].rec ELSE @, !.at = at]
<1>1. RecordsTypes /\ (\A p \in Op : GoodWrite(write[p], rows)) /\ write[o] \in Write
  BY DEF RecordsInv, RecordsTypes
<1>2. UNCHANGED <<rows, version, scope, teamKey, load>>
  BY DEF Told, Refuse, Reply, Lost
<1>3. ASSUME NEW at \in {"lost", "ended"} PROVE EndedWith(at) \in Write /\ GoodWrite(EndedWith(at), rows)
  <2> DEFINE r == IF at = "lost" THEN write[o].rec ELSE NoRecord
  <2>1. r \in Record \cup {NoRecord} /\ 0 \in Version
    BY <1>1, RecordsAssumption DEF Write, Version
  <2>2. NoWrite \in Write /\ NoWrite.rec = NoRecord
    BY <2>1 DEF NoWrite, Write, Space
  <2>3. EndedWith(at) \in Write
    BY <2>1, <2>2 DEF Write
  <2>4. EndedWith(at).at \notin {"asked", "sent", "stored"}
    BY <2>2 DEF Write
  <2> QED BY <2>3, <2>4 DEF GoodWrite
<1>4. ASSUME Told(o), Current(o), AtHome(o)
      PROVE  [write[o] EXCEPT !.at = "sent"] \in Write /\ GoodWrite([write[o] EXCEPT !.at = "sent"], rows)
  <2>1. [write[o] EXCEPT !.at = "sent"] \in Write
    BY <1>1 DEF Write
  <2>2. \A f \in {"do", "rec", "new", "link", "ws", "version", "held"} :
          [write[o] EXCEPT !.at = "sent"][f] = write[o][f]
    BY <1>1 DEF Write
  <2>3. GoodWrite(write[o], rows) /\ write[o].at = "asked"
    BY <1>1, <1>4 DEF Told
  <2> QED BY <2>1, <2>2, <2>3, <1>4 DEF GoodWrite, Current, AtHome
<1>5. \/ Told(o) /\ Current(o) /\ AtHome(o) /\ write' = [write EXCEPT ![o].at = "sent"]
      \/ \E at \in {"lost", "ended"} : write' = [write EXCEPT ![o] = EndedWith(at)]
  BY DEF Told, Refuse, Reply, Lost, Advance, End
<1>6. write' \in [Op -> Write] /\ \A p \in Op : GoodWrite(write'[p], rows)
  <2>1. CASE Told(o) /\ Current(o) /\ AtHome(o) /\ write' = [write EXCEPT ![o].at = "sent"]
    BY <2>1, <1>1, <1>4 DEF RecordsTypes
  <2>2. ASSUME NEW at \in {"lost", "ended"}, write' = [write EXCEPT ![o] = EndedWith(at)]
        PROVE  write' \in [Op -> Write] /\ \A p \in Op : GoodWrite(write'[p], rows)
    <3> HIDE DEF EndedWith
    <3> QED BY <2>2, <1>1, <1>3 DEF RecordsTypes
  <2> QED BY <2>1, <2>2, <1>5
<1> QED BY <1>1, <1>2, <1>6, SameRows DEF RecordsTypes

------------------------------------------------------------------------------
(* The server. *)
LEMMA RotateKeeps == ASSUME RecordsInv, RotateElsewhere \/ RemovedElsewhere PROVE RecordsInv'
<1> USE DEF serverVars, scopeVars, listVars
<1>1. RecordsTypes /\ RowsInv(rows, version) /\ \A o \in Op : GoodWrite(write[o], rows)
  BY DEF RecordsInv
<1>2. UNCHANGED <<scope, teamKey, load, write>>
  BY DEF RotateElsewhere, RemovedElsewhere
<1>3. CASE RotateElsewhere
  <2>1. version \in 1 .. MaxVersion - 1 /\ version' = version + 1
    BY <1>3 DEF RotateElsewhere
  <2>2. version' \in Version /\ version' # 0
    BY <2>1, RecordsAssumption DEF Version
  <2>3. ASSUME NEW r \in Record, rows[r].ws # "team" PROVE rows'[r] = rows[r]
    BY <2>3, <1>3 DEF RotateElsewhere
  <2>4. ASSUME NEW r \in Record, rows[r].ws = "team"
        PROVE  /\ rows'[r].ws = "team" /\ rows'[r].link = rows[r].link
               /\ rows'[r].seals = {<<"team", version'>>}
               /\ rows'[r] \in Row
    <3>1. rows'[r] = [rows[r] EXCEPT !.seals = {<<"team", version'>>}] /\ rows[r] \in Row
      BY <2>4, <1>1, <1>3 DEF RotateElsewhere, RecordsTypes
    <3>2. <<"team", version'>> \in Space \X (Version \cup {Zeroed})
      BY <2>2 DEF Space
    <3>3. rows'[r] = [ws |-> "team", link |-> rows[r].link, seals |-> {<<"team", version'>>}]
      BY <3>1, <2>4 DEF Row
    <3>4. rows[r].link \in Record \cup {NoRecord}
      BY <3>1 DEF Row
    <3>5. rows'[r] \in Row
      BY <3>2, <3>3, <3>4 DEF Row, Space
    <3>6. rows'[r].ws = "team" /\ rows'[r].link = rows[r].link /\ rows'[r].seals = {<<"team", version'>>}
      BY <3>3
    <3> QED BY <3>5, <3>6
  <2>5. \A r \in Record : rows'[r].ws = rows[r].ws /\ rows'[r].link = rows[r].link
    BY <2>3, <2>4
  <2>6. rows' \in [Record -> Row]
    <3>1. \A r \in Record : rows'[r] \in Row
      BY <2>3, <2>4, <1>1 DEF RecordsTypes
    <3> QED BY <3>1, <1>3 DEF RotateElsewhere
  <2>7. Unsealed(rows')
    BY <2>3, <2>4, <1>1 DEF Unsealed, RowsInv
  <2>8. Sealed(rows', version')
    <3>1. ASSUME NEW r \in Record, rows[r].ws = "personal" PROVE rows'[r].seals \subseteq {<<"personal", 0>>}
      BY <3>1, <2>3, <1>1 DEF Sealed, RowsInv, Space
    <3>2. ASSUME NEW r \in Record, rows[r].ws = "team" PROVE rows'[r].seals \subseteq {<<"team", version'>>}
      BY <3>2, <2>4
    <3> QED BY <3>1, <3>2, <2>5 DEF Sealed, Space
  <2>9. Linked(rows')
    <3>1. \A r \in Record : rows[r].link \in Record \cup {NoRecord}
      BY <1>1 DEF RecordsTypes, Row
    <3> QED BY <3>1, <2>5, <1>1 DEF Linked, RowsInv
  <2>10. \A o \in Op : GoodWrite(write'[o], rows')
    <3>1. ASSUME NEW o \in Op PROVE write[o].link \in Record \cup {NoRecord} /\ GoodWrite(write[o], rows)
      BY <1>1 DEF RecordsTypes, Write
    <3> QED BY <3>1, <2>5, <1>2 DEF GoodWrite
  <2> QED BY <2>2, <2>6, <2>7, <2>8, <2>9, <2>10, <1>1, <1>2 DEF RecordsInv, RecordsTypes, RowsInv
<1>4. CASE RemovedElsewhere
  <2>1. rows' = rows /\ version' = 0 /\ version = 1
    BY <1>4 DEF RemovedElsewhere
  <2>2. Sealed(rows, 0)
    BY <2>1, <1>1 DEF Sealed, RowsInv
  <2> QED BY <2>1, <2>2, <1>1, <1>2, RecordsAssumption DEF RecordsInv, RecordsTypes, RowsInv, Version
<1> QED BY <1>3, <1>4

(* What the server stores: a deletion of a record of the workspace that it *)
(* was asked in, or an envelope under that workspace's key, with a         *)
(* relation inside of it.                                                  *)
LEMMA StoreForms ==
  ASSUME RecordsInv, NEW o \in Op, Store(o)
  PROVE  LET w == write[o] IN
         /\ w \in Write /\ w.rec \in Record /\ w.at = "sent"
         /\ rows' \in [Record -> Row]
         /\ \A r \in Record \ {w.rec} : rows'[r] = rows[r]
         /\ rows'[w.rec].ws = (IF w.do = "delete" THEN "gone" ELSE w.ws)
         /\ w.do = "delete" =>
              /\ rows[w.rec].ws = w.ws
              /\ rows'[w.rec].seals = rows[w.rec].seals /\ rows'[w.rec].link = rows[w.rec].link
         /\ w.do # "delete" =>
              /\ rows[w.rec].ws \in {"none", w.ws}
              /\ rows'[w.rec].link = w.link
              /\ w.link # NoRecord => rows[w.link].ws \in {w.ws, "gone"}
              /\ rows'[w.rec].seals = rows[w.rec].seals \cup {<<w.ws, w.version>>}
              /\ w.version = IF w.ws = "team" THEN version ELSE 0
<1> DEFINE w == write[o]
<1>1. RecordsTypes /\ w \in Write /\ GoodWrite(w, rows)
  BY DEF RecordsInv, RecordsTypes
<1>2. w.at = "sent" /\ Accepted(o)
  BY DEF Store
<1>3. w.rec \in Record /\ w.held /\ w.do \in {"save", "pins", "delete"}
  BY <1>1, <1>2 DEF GoodWrite
<1>4. w.link \in Record \cup {NoRecord} /\ w.ws \in Space /\ w.version \in Version
  BY <1>1 DEF Write
<1>5. rows[w.rec] \in Row
  BY <1>1, <1>3 DEF RecordsTypes
<1>6. CASE w.do = "delete"
  <2>1. rows' = [rows EXCEPT ![w.rec] = [rows[w.rec] EXCEPT !.ws = "gone"]]
    BY <1>6 DEF Store
  <2>2. [rows[w.rec] EXCEPT !.ws = "gone"] \in Row
    BY <1>5 DEF Row
  <2>3. rows' \in [Record -> Row] /\ \A r \in Record \ {w.rec} : rows'[r] = rows[r]
    BY <2>1, <2>2, <1>1 DEF RecordsTypes
  <2>4. rows'[w.rec] = [rows[w.rec] EXCEPT !.ws = "gone"]
    BY <2>1, <1>1, <1>3 DEF RecordsTypes
  <2>5. /\ rows'[w.rec].ws = "gone" /\ rows'[w.rec].seals = rows[w.rec].seals
        /\ rows'[w.rec].link = rows[w.rec].link
    BY <2>4, <1>5 DEF Row
  <2>6. rows[w.rec].ws = w.ws
    BY <1>1, <1>2, <1>6 DEF GoodWrite, Accepted, Live, Space
  <2> QED BY <2>3, <2>5, <2>6, <1>1, <1>2, <1>3, <1>6
<1>7. CASE w.do # "delete"
  <2>1. Seal(o) = <<w.ws, w.version>>
    BY <1>3 DEF Seal
  <2> DEFINE new == [ws |-> w.ws, link |-> w.link, seals |-> rows[w.rec].seals \cup {<<w.ws, w.version>>}]
  <2>2. rows' = [rows EXCEPT ![w.rec] = new]
    BY <2>1, <1>7 DEF Store
  <2>3. new \in Row
    <3>1. <<w.ws, w.version>> \in Space \X (Version \cup {Zeroed})
      BY <1>4
    <3>2. new.seals \in SUBSET (Space \X (Version \cup {Zeroed}))
      BY <3>1, <1>5 DEF Row
    <3> QED BY <3>2, <1>4 DEF Row
  <2>4. new.ws = w.ws /\ new.link = w.link /\ new.seals = rows[w.rec].seals \cup {<<w.ws, w.version>>}
    OBVIOUS
  <2> HIDE DEF new
  <2>5. rows' \in [Record -> Row] /\ rows'[w.rec] = new /\ \A r \in Record \ {w.rec} : rows'[r] = rows[r]
    BY <2>2, <2>3, <1>1, <1>3 DEF RecordsTypes
  <2>6. rows[w.rec].ws \in {"none", w.ws} /\ RightVersion(o) /\ (w.do = "save" => InScope(w.link, w.ws))
    BY <1>2, <1>7 DEF Accepted
  <2>7. w.version = IF w.ws = "team" THEN version ELSE 0
    BY <2>6, <1>1, <1>2, <1>4 DEF RightVersion, GoodWrite, Space
  <2>8. w.link # NoRecord => rows[w.link].ws \in {w.ws, "gone"}
    <3>1. CASE w.do = "save"
      BY <3>1, <2>6 DEF InScope
    <3>2. CASE w.do = "pins"
      BY <3>2, <2>6, <1>1, <1>2 DEF GoodWrite
    <3> QED BY <3>1, <3>2, <1>3, <1>7
  <2> QED BY <2>4, <2>5, <2>6, <2>7, <2>8, <1>1, <1>2, <1>3, <1>7
<1> QED BY <1>6, <1>7

LEMMA WriteKeeps == ASSUME RecordsInv, NEW o \in Op, Store(o) PROVE RecordsInv'
<1> DEFINE w == write[o]
<1>1. RecordsTypes /\ RowsInv(rows, version) /\ \A p \in Op : GoodWrite(write[p], rows)
  BY DEF RecordsInv
<1>2. /\ UNCHANGED <<version, scope, teamKey, load>>
      /\ write' = [write EXCEPT ![o] = [write[o] EXCEPT !.at = "stored"]]
  BY DEF Store, scopeVars, Advance
<1>3. w \in Write /\ w.rec \in Record /\ w.at = "sent" /\ rows' \in [Record -> Row]
  BY StoreForms
<1>4. \A r \in Record \ {w.rec} : rows'[r] = rows[r]
  BY StoreForms
<1>5. rows'[w.rec].ws = IF w.do = "delete" THEN "gone" ELSE w.ws
  BY StoreForms
<1>6. ASSUME w.do = "delete"
      PROVE  /\ rows[w.rec].ws = w.ws
             /\ rows'[w.rec].seals = rows[w.rec].seals /\ rows'[w.rec].link = rows[w.rec].link
  BY <1>6, StoreForms
<1>7. ASSUME w.do # "delete"
      PROVE  /\ rows[w.rec].ws \in {"none", w.ws}
             /\ rows'[w.rec].link = w.link
             /\ w.link # NoRecord => rows[w.link].ws \in {w.ws, "gone"}
             /\ rows'[w.rec].seals = rows[w.rec].seals \cup {<<w.ws, w.version>>}
             /\ w.version = IF w.ws = "team" THEN version ELSE 0
  BY <1>7, StoreForms
<1>8. w.ws \in Space /\ "none" \notin Space /\ "gone" \notin Space
  BY <1>3 DEF Write, Space
<1>9. ASSUME NEW r \in Record, rows[r].ws # "none"
      PROVE  rows'[r].ws \in {rows[r].ws, "gone"}
  <2>1. CASE r # w.rec
    BY <2>1, <1>4
  <2>2. CASE r = w.rec
    BY <2>2, <1>5, <1>7, <1>9
  <2> QED BY <2>1, <2>2
<1>10. Unsealed(rows')
  <2>1. rows'[w.rec].ws # "none"
    BY <1>5, <1>8
  <2> QED BY <2>1, <1>1, <1>4 DEF RowsInv, Unsealed
<1>11. Sealed(rows', version)
  <2>1. ASSUME NEW r \in Record, r # w.rec, rows'[r].ws \in Space, rows'[r].ws = "team" => version # 0
        PROVE  rows'[r].seals \subseteq {<<rows'[r].ws, IF rows'[r].ws = "team" THEN version ELSE 0>>}
    BY <2>1, <1>1, <1>4 DEF RowsInv, Sealed
  <2>2. ASSUME rows'[w.rec].ws \in Space, w.ws = "team" => version # 0
        PROVE  rows'[w.rec].seals \subseteq {<<w.ws, IF w.ws = "team" THEN version ELSE 0>>}
    <3>1. w.do # "delete"
      BY <2>2, <1>5, <1>8
    <3>2. rows[w.rec].seals \subseteq {<<w.ws, IF w.ws = "team" THEN version ELSE 0>>}
      BY <2>2, <3>1, <1>1, <1>3, <1>7, <1>8 DEF RowsInv, Sealed, Unsealed
    <3> QED BY <3>1, <3>2, <1>7
  <2>3. rows'[w.rec].ws \in Space => rows'[w.rec].ws = w.ws
    BY <1>5, <1>8
  <2> QED BY <2>1, <2>2, <2>3 DEF Sealed
<1>12. Linked(rows')
  <2>1. ASSUME NEW r \in Record, r # w.rec, rows'[r].ws \in Space, rows'[r].link # NoRecord
        PROVE  rows'[rows'[r].link].ws \in {rows'[r].ws, "gone"}
    <3>1. rows'[r] = rows[r] /\ rows[r].link \in Record
      BY <2>1, <1>1, <1>4 DEF RecordsTypes, Row
    <3>2. rows[rows[r].link].ws \in {rows[r].ws, "gone"}
      BY <2>1, <3>1, <1>1 DEF RowsInv, Linked
    <3>3. rows[rows[r].link].ws # "none"
      BY <2>1, <3>1, <3>2, <1>8
    <3>4. rows'[rows[r].link].ws \in {rows[rows[r].link].ws, "gone"}
      BY <3>1, <3>3, <1>9
    <3> QED BY <3>1, <3>2, <3>4
  <2>2. ASSUME rows'[w.rec].ws \in Space, rows'[w.rec].link # NoRecord
        PROVE  rows'[rows'[w.rec].link].ws \in {rows'[w.rec].ws, "gone"}
    <3>1. w.do # "delete" /\ rows'[w.rec].ws = w.ws
      BY <2>2, <1>5, <1>8
    <3>2. rows'[w.rec].link = w.link /\ w.link \in Record /\ rows[w.link].ws \in {w.ws, "gone"}
      BY <2>2, <3>1, <1>3, <1>7 DEF Write
    <3>3. rows[w.link].ws # "none"
      BY <3>2, <1>8
    <3>4. rows'[w.link].ws \in {rows[w.link].ws, "gone"}
      BY <3>2, <3>3, <1>9
    <3> QED BY <3>1, <3>2, <3>4
  <2> QED BY <2>1, <2>2 DEF Linked
<1>13. ASSUME NEW p \in Op PROVE GoodWrite(write'[p], rows')
  <2>1. write'[p].at \in {"asked", "sent"} => p # o /\ write'[p] = write[p]
    BY <1>1, <1>2, <1>3 DEF RecordsTypes, Write
  <2>2. ASSUME p # o PROVE GoodWrite(write[p], rows')
    <3> DEFINE v == write[p]
    <3>1. GoodWrite(v, rows) /\ v \in Write
      BY <1>1 DEF RecordsTypes
    <3>2. ASSUME v.at \in {"asked", "sent", "stored"}, v.do = "pins"
          PROVE  /\ rows'[v.rec].ws # "none"
                 /\ v.link # NoRecord /\ rows'[v.rec].ws = v.ws => rows'[v.link].ws \in {v.ws, "gone"}
      <4>1. v.rec \in Record /\ rows[v.rec].ws # "none"
        BY <3>1, <3>2 DEF GoodWrite
      <4>2. rows'[v.rec].ws \in {rows[v.rec].ws, "gone"}
        BY <4>1, <1>9
      <4>3. v.ws \in Space /\ (v.link # NoRecord => v.link \in Record)
        BY <3>1 DEF Write
      <4>4. ASSUME v.link # NoRecord, rows'[v.rec].ws = v.ws PROVE rows'[v.link].ws \in {v.ws, "gone"}
        <5>1. rows[v.link].ws \in {v.ws, "gone"}
          BY <3>1, <3>2, <4>2, <4>3, <4>4, <1>8 DEF GoodWrite
        <5>2. rows[v.link].ws # "none"
          BY <5>1, <4>3, <1>8
        <5>3. rows'[v.link].ws \in {rows[v.link].ws, "gone"}
          BY <5>2, <4>3, <4>4, <1>9
        <5> QED BY <5>1, <5>3
      <4>5. rows'[v.rec].ws # "none"
        BY <4>1, <4>2
      <4> QED BY <4>4, <4>5
    <3>3. ASSUME v.at = "sent", v.do = "delete" PROVE rows'[v.rec].ws \in {v.ws, "gone"}
      <4>1. v.rec \in Record /\ rows[v.rec].ws \in {v.ws, "gone"} /\ v.ws \in Space
        BY <3>1, <3>3 DEF GoodWrite, Write
      <4>2. rows'[v.rec].ws \in {rows[v.rec].ws, "gone"}
        BY <4>1, <1>8, <1>9
      <4> QED BY <4>1, <4>2
    <3> HIDE DEF v
    <3> QED BY <3>1, <3>2, <3>3 DEF GoodWrite, v
  <2>3. GoodWrite([w EXCEPT !.at = "stored"], rows')
    <3> DEFINE v == [w EXCEPT !.at = "stored"]
    <3>1. /\ v.at = "stored" /\ v.rec = w.rec /\ v.do = w.do /\ v.ws = w.ws
          /\ v.version = w.version /\ v.link = w.link
      BY <1>3 DEF Write
    <3>2. GoodWrite(w, rows)
      BY <1>1
    <3>3. ASSUME v.do = "pins"
          PROVE  /\ rows'[v.rec].ws # "none"
                 /\ v.link # NoRecord => rows'[v.link].ws \in {v.ws, "gone"}
      <4>1. rows'[w.rec].ws = w.ws
        BY <3>1, <3>3, <1>5
      <4>2. ASSUME w.link # NoRecord PROVE rows'[w.link].ws \in {w.ws, "gone"}
        <5>1. w.link \in Record /\ rows[w.link].ws \in {w.ws, "gone"}
          BY <3>1, <3>3, <4>2, <1>3, <1>7 DEF Write
        <5>2. rows'[w.link].ws \in {rows[w.link].ws, "gone"}
          BY <5>1, <1>8, <1>9
        <5> QED BY <5>1, <5>2
      <4> QED BY <3>1, <4>1, <4>2, <1>8
    <3> HIDE DEF v
    <3> QED BY <3>1, <3>2, <3>3, <1>3 DEF GoodWrite
  <2> QED BY <2>2, <2>3, <1>1, <1>2 DEF RecordsTypes
<1>14. write' \in [Op -> Write]
  <2>1. [write[o] EXCEPT !.at = "stored"] \in Write
    BY <1>3 DEF Write
  <2> QED BY <2>1, <1>1, <1>2 DEF RecordsTypes
<1>15. RecordsTypes'
  BY <1>1, <1>2, <1>3, <1>14 DEF RecordsTypes
<1> QED BY <1>2, <1>10, <1>11, <1>12, <1>13, <1>15 DEF RecordsInv, RowsInv

LEMMA RecordsKeep == ASSUME RecordsInv, RecordsNext PROVE RecordsInv'
<1>1. ASSUME NEW o \in Op, WriteStep(o) PROVE RecordsInv'
  BY <1>1, WriteAnswerKeeps, WriteKeeps DEF WriteStep
<1> QED BY <1>1, QuietKeeps, CapturesKeep, RotateKeeps DEF RecordsNext, QuietStep

------------------------------------------------------------------------------
(* The steps of the other parts, and the sign-out. *)
LEMMA RecordsStill == ASSUME RecordsInv, UNCHANGED recordVars PROVE RecordsInv'
BY SameRows DEF RecordsInv, RecordsTypes, recordVars, serverVars, scopeVars

LEMMA RecordsSignOut == ASSUME RecordsInv, SignOut PROVE RecordsInv'
<1>1. UNCHANGED <<rows, version, load>>
  BY DEF SignOut, serverVars
<1>2. \/ WipeAllKeys /\ teamKey' = 0 /\ scope' = "personal"
      \/ UNCHANGED <<write, teamKey, scope>>
  BY DEF SignOut, LeaveRecords, LockRecords, scopeVars
<1>3. write' \in [Op -> Write] /\ \A o \in Op : GoodWrite(write'[o], rows)
  BY <1>2, Wiped1
<1>4. scope' \in Space /\ teamKey' \in Version
  BY <1>2, RecordsAssumption DEF RecordsInv, RecordsTypes, Space, Version
<1>5. load' \in [at : {"idle", "asked", "answered"}, version : Version]
  BY <1>1 DEF RecordsInv, RecordsTypes
<1> QED BY <1>1, <1>3, <1>4, <1>5, SameRows

LEMMA NextForms ==
  ASSUME [Next]_vars PROVE SignOut \/ RecordsNext \/ UNCHANGED recordVars
BY DEF Next, vars

LEMMA RecordsInductive == RecordsInv /\ [Next]_vars => RecordsInv'
BY NextForms, RecordsStill, RecordsSignOut, RecordsKeep

(* The inductive invariant holds of every behaviour of the client.         *)
THEOREM RecordsInvariant == Spec => []RecordsInv
BY RecordsInitial, RecordsInductive, SpecSteps, PTL

(* useActiveVaultResourceKey, captureVaultWriteScope and assertCurrent:    *)
(* however long a write waits, and whatever key is selected, replaced or   *)
(* wiped meanwhile, each envelope has the key of its record's workspace.   *)
THEOREM SealsAreOfTheWorkspace == Spec => []SealedForItsWorkspace
<1>1. RecordsInv => SealedForItsWorkspace
  BY DEF RecordsInv, RowsInv, Sealed, SealedForItsWorkspace, Live, Member
<1> QED BY <1>1, RecordsInvariant, PTL

(* The server's check of a relation, and that host keys are saved with the *)
(* relation the record has, keep the workspaces apart.                     *)
THEOREM RelationsStayInside == Spec => []LinksStayInside
<1>1. RecordsInv => LinksStayInside
  BY DEF RecordsInv, RowsInv, Linked, LinksStayInside, Live
<1> QED BY <1>1, RecordsInvariant, PTL

(* assertRecordVaultScope before each DELETE: what goes is a record of the *)
(* workspace in which the user asked for it.                               *)
THEOREM DeletionsStayHome == Spec => DeletesStayHome
<1> DEFINE AskedFor(r) == \E o \in Op : write[o].at = "sent" /\ write[o].do = "delete"
                                    /\ write[o].rec = r /\ write[o].ws = rows[r].ws
           Home == \A r \in Record : Live(r) /\ rows'[r].ws = "gone" => AskedFor(r)
<1>1. ASSUME RecordsInv, [Next]_vars PROVE [Home]_rows
  <2>1. CASE UNCHANGED rows
    BY <2>1
  <2>2. ASSUME NEW o \in Op, Store(o) PROVE Home
    <3> SUFFICES ASSUME NEW r \in Record, Live(r), rows'[r].ws = "gone" PROVE AskedFor(r)
      OBVIOUS
    <3>1. rows[r].ws # "gone"
      BY DEF Live, Space
    <3>2. r = write[o].rec
      BY <2>2, <3>1, <1>1, StoreForms
    <3>3. write[o].ws \in Space /\ write[o].at = "sent"
      BY <2>2, <1>1, StoreForms DEF Write
    <3>4. rows'[r].ws = IF write[o].do = "delete" THEN "gone" ELSE write[o].ws
      BY <2>2, <3>2, <1>1, StoreForms
    <3>5. write[o].do = "delete"
      BY <3>3, <3>4 DEF Space
    <3>6. rows[r].ws = write[o].ws
      BY <2>2, <3>2, <3>5, <1>1, StoreForms
    <3> QED BY <3>2, <3>3, <3>5, <3>6
  <2>3. ASSUME RotateElsewhere PROVE Home
    <3> SUFFICES ASSUME NEW r \in Record, Live(r) PROVE rows'[r].ws # "gone"
      OBVIOUS
    <3>1. rows[r] \in Row /\ rows[r].ws \in {"personal", "team"}
      BY <1>1 DEF RecordsInv, RecordsTypes, Live, Space
    <3>2. \/ rows'[r] = rows[r]
          \/ rows'[r] = [rows[r] EXCEPT !.seals = {<<"team", version'>>}]
      BY <2>3 DEF RotateElsewhere
    <3>3. rows'[r].ws = rows[r].ws
      BY <3>1, <3>2 DEF Row
    <3> QED BY <3>1, <3>3
  <2>4. \/ UNCHANGED rows \/ RotateElsewhere \/ \E o \in Op : Store(o)
    <3>1. ASSUME RecordsNext, ~RotateElsewhere, ~\E o \in Op : Store(o) PROVE UNCHANGED rows
      <4>1. ASSUME NEW o \in Op, WriteStep(o) PROVE UNCHANGED rows
        BY <3>1, <4>1 DEF WriteStep, Told, Refuse, Reply, Lost, serverVars
      <4>2. ASSUME \/ SaveGroup \/ SaveHost \/ SaveHostKeys \/ SaveHostCredential
                   \/ SaveSnippet \/ SaveIdentity \/ SaveTunnel
                   \/ DeleteHost \/ DeleteHostCredential \/ DeleteSnippet \/ DeleteIdentity \/ DeleteTunnel
            PROVE  UNCHANGED rows
        BY <4>2 DEF SaveGroup, SaveHost, SaveHostKeys, SaveHostCredential, SaveSnippet, SaveIdentity,
           SaveTunnel, DeleteHost, DeleteHostCredential, DeleteSnippet, DeleteIdentity, DeleteTunnel,
           SaveRecord, DeleteRecord, Capture, serverVars
      <4>3. ASSUME QuietStep PROVE UNCHANGED rows
        BY <4>3 DEF QuietStep, SelectTeam, SelectPersonal, Select, RefreshList, Lock, Unlock, Switcher,
           SwitcherEffect, LoadRead, LoadFailed, LoadDone, Fetching, ReadList, Listed, Decrypted, serverVars
      <4>4. ASSUME RemovedElsewhere PROVE UNCHANGED rows
        BY <4>4 DEF RemovedElsewhere
      <4> QED BY <3>1, <4>1, <4>2, <4>3, <4>4 DEF RecordsNext, QuietStep
    <3> QED BY <3>1, <1>1, NextForms DEF SignOut, serverVars, recordVars
  <2> QED BY <2>1, <2>2, <2>3, <2>4
<1>2. Spec => [][Home]_rows
  BY <1>1, RecordsInvariant, SpecSteps, PTL
<1> QED BY <1>2 DEF DeletesStayHome, Home, AskedFor

------------------------------------------------------------------------------
(* HostKeys                                                                 *)

Uses == [for : {"none", "connect", "verify"}, host : Host \cup {NoKey}, before : Maybe, key : Maybe,
         persist : BOOLEAN, at : {"scan", "ask", "save", "use", "ended"}]

KeysTypes ==
  /\ presents \in [Host -> Key]
  /\ pinned \in [Host -> Maybe] /\ seen \in [Host -> Maybe] /\ sessionApprovals \in [Host -> Maybe]
  /\ writable \in BOOLEAN /\ gate \in [Op -> Uses]
  /\ ops \in 0 .. MaxOps

(* Uses that have begun know their host; the others are numbered higher.   *)
Begun ==
  /\ \A o \in Op : gate[o].at # "ended" => gate[o].host \in Host
  /\ \A o \in Op : o > ops => gate[o].at = "ended"

Questions == {"approve", "replace"}

(* The dialog and the use that waits for it belong to each other.          *)
AskerShown(o, g, p) ==
  g.at = "ask" => /\ p.by = o /\ p.mode \in Questions
                  /\ p.host = g.host /\ p.key = g.key
Dialog(g, p) ==
  /\ \A o \in Op : AskerShown(o, g[o], p)
  /\ p.mode \in Questions => p.by \in Op /\ g[p.by].at = "ask"

(* Each pin that the client knows, and each key that a connection is going *)
(* to be opened with, was accepted or came with the vault.                 *)
Accounted(pins, t) == \A h \in Host : pins[h] # NoKey => <<h, pins[h]>> \in t
PinsTrusted(t) == Accounted(pinned, t) /\ Accounted(seen, t) /\ Accounted(sessionApprovals, t)
Going(g, t) == g.at \in {"save", "use"} => <<g.host, g.key>> \in t

KeysInv ==
  /\ KeysTypes /\ Begun /\ Dialog(gate, prompt)
  /\ PinsTrusted(trusted)
  /\ \A o \in Op : Going(gate[o], trusted)

------------------------------------------------------------------------------
LEMMA NoUseEnded ==
  NoUse \in Uses /\ NoUse.at = "ended"
BY DEF NoUse, Uses, Maybe

LEMMA KeysInitial == Init => KeysInv
<1> SUFFICES ASSUME Init PROVE KeysInv
  OBVIOUS
<1> USE DEF Init, KeysInit, BridgeInit
<1>1. PICK p \in {NoKey, FirstKey} : pinned = [h \in Host |-> p]
  OBVIOUS
<1>2. MaxOps \in Nat
  BY NativeBridgeAssumption
<1>3. \A o \in Op : gate[o].at = "ended"
  BY NoUseEnded
<1>4. PinsTrusted(trusted)
  BY <1>1 DEF PinsTrusted, Accounted
<1>5. Dialog(gate, prompt)
  BY <1>3 DEF Dialog, AskerShown, NoPrompt, Questions
<1>6. Begun /\ \A o \in Op : Going(gate[o], trusted)
  BY <1>3 DEF Begun, Going
<1>7. FirstKey \in Key
  BY HostKeysAssumption DEF FirstKey
<1> QED BY <1>1, <1>2, <1>4, <1>5, <1>6, <1>7, NoUseEnded DEF KeysInv, KeysTypes, Maybe

------------------------------------------------------------------------------
(* A use moves on, and neither waited for the user nor does so now. *)
LEMMA MovesOn ==
  ASSUME KeysInv, NEW o \in Op, NEW g \in Uses,
         gate' = [gate EXCEPT ![o] = g], gate[o].at # "ask", g.at # "ask", prompt' = prompt
  PROVE  Dialog(gate', prompt') /\ gate' \in [Op -> Uses]
<1>1. gate \in [Op -> Uses] /\ Dialog(gate, prompt)
  BY DEF KeysInv, KeysTypes
<1>2. gate'[o] = g /\ gate' \in [Op -> Uses] /\ \A p \in Op \ {o} : gate'[p] = gate[p]
  BY <1>1
<1>3. \A p \in Op : AskerShown(p, gate'[p], prompt)
  BY <1>1, <1>2 DEF Dialog, AskerShown
<1>4. prompt.mode \in Questions => prompt.by \in Op /\ gate'[prompt.by].at = "ask"
  BY <1>1, <1>2 DEF Dialog
<1> QED BY <1>2, <1>3, <1>4 DEF Dialog

(* What a use may become: it keeps its host, or ends. *)
LEMMA UseKept ==
  ASSUME KeysInv, NEW o \in Op, NEW g \in Uses, NEW t,
         trusted \subseteq t, t = trusted', ops' = ops,
         gate' \in [Op -> Uses], gate'[o] = g,
         \A p \in Op \ {o} : gate'[p] = gate[p] \/ gate'[p].at = "ended",
         g.at = "ended" \/ (g.host \in Host /\ gate[o].at # "ended"), Going(g, t)
  PROVE  Begun' /\ \A p \in Op : Going(gate'[p], trusted')
<1>1. Begun /\ \A p \in Op : Going(gate[p], trusted)
  BY DEF KeysInv
<1>2. ASSUME NEW p \in Op, p # o
      PROVE  /\ gate'[p].at # "ended" => gate'[p].host \in Host
             /\ p > ops => gate'[p].at = "ended"
             /\ Going(gate'[p], t)
  BY <1>1, <1>2 DEF Begun, Going
<1>3. /\ gate'[o].at # "ended" => gate'[o].host \in Host
      /\ o > ops => gate'[o].at = "ended"
      /\ Going(gate'[o], t)
  BY <1>1 DEF Begun
<1> QED BY <1>2, <1>3 DEF Begun

LEMMA PinStays ==
  ASSUME NEW pins \in [Host -> Maybe], NEW h \in Host, NEW k, NEW t, NEW u,
         Accounted(pins, t), t \subseteq u, <<h, k>> \in u
  PROVE  Accounted([pins EXCEPT ![h] = k], u)
BY DEF Accounted

------------------------------------------------------------------------------
LEMMA EnterKeeps ==
  ASSUME KeysInv, NEW what \in {"connect", "verify"}, Enter(what) PROVE KeysInv'
<1>1. PICK h \in Host :
        /\ Begin
        /\ gate' = [gate EXCEPT ![ops'] =
             [for |-> what, host |-> h, before |-> seen[h], persist |-> writable,
              key |-> IF what = "connect" THEN effectivePins(h, seen[h]) ELSE NoKey,
              at |-> IF what = "connect" /\ effectivePins(h, seen[h]) # NoKey THEN "use" ELSE "scan"]]
        /\ UNCHANGED <<presents, pinned, seen, writable, sessionApprovals, prompt, trusted>>
  BY DEF Enter, keyring, said
<1> DEFINE pin == effectivePins(h, seen[h])
           g == [for |-> what, host |-> h, before |-> seen[h], persist |-> writable,
                 key |-> IF what = "connect" THEN pin ELSE NoKey,
                 at |-> IF what = "connect" /\ pin # NoKey THEN "use" ELSE "scan"]
<1>2. KeysTypes /\ Begun /\ PinsTrusted(trusted) /\ \A p \in Op : Going(gate[p], trusted)
  BY DEF KeysInv
<1>3. ops' = ops + 1 /\ ops \in Nat /\ MaxOps \in Nat /\ ops' \in Op /\ ops' \in 0 .. MaxOps
  BY <1>1, <1>2, NativeBridgeAssumption DEF Begin, KeysTypes, Op
<1>4. gate[ops'].at = "ended"
  BY <1>2, <1>3 DEF Begun
<1>5. pin \in Maybe /\ (pin # NoKey => <<h, pin>> \in trusted)
  BY <1>2 DEF effectivePins, KeysTypes, PinsTrusted, Accounted
<1>6. seen[h] \in Maybe /\ writable \in BOOLEAN /\ NoKey \in Maybe
  BY <1>2 DEF KeysTypes, Maybe
<1>7. g \in Uses
  BY <1>5, <1>6 DEF Uses
<1>8. g.at # "ask" /\ g.host = h /\ Going(g, trusted)
  BY <1>5 DEF Going
<1>9. gate' = [gate EXCEPT ![ops'] = g]
  BY <1>1
<1> HIDE DEF g
<1>10. Dialog(gate', prompt') /\ gate' \in [Op -> Uses]
  BY <1>1, <1>3, <1>4, <1>7, <1>8, <1>9, MovesOn
<1>11. gate'[ops'] = g /\ \A p \in Op \ {ops'} : gate'[p] = gate[p]
  BY <1>2, <1>3, <1>9 DEF KeysTypes
<1>12. Begun'
  <2>1. \A p \in Op : gate'[p].at # "ended" => gate'[p].host \in Host
    BY <1>2, <1>8, <1>11 DEF Begun
  <2>2. ASSUME NEW p \in Op, p > ops' PROVE gate'[p].at = "ended"
    <3>1. p # ops' /\ p > ops
      BY <2>2, <1>3 DEF Op
    <3> QED BY <3>1, <1>2, <1>11 DEF Begun
  <2> QED BY <2>1, <2>2 DEF Begun
<1>13. \A p \in Op : Going(gate'[p], trusted')
  BY <1>1, <1>2, <1>8, <1>11
<1>14. KeysTypes' /\ PinsTrusted(trusted)'
  BY <1>1, <1>2, <1>3, <1>10 DEF KeysTypes, PinsTrusted, Accounted
<1> QED BY <1>10, <1>12, <1>13, <1>14 DEF KeysInv

(* A use whose scan or save fails, or whose connection is opened, ends. *)
LEMMA EndKeeps ==
  ASSUME KeysInv, NEW o \in Op, ScanFailed(o) \/ Admitted(o) PROVE KeysInv'
<1>1. /\ gate' = [gate EXCEPT ![o] = NoUse] /\ gate[o].at \in {"scan", "use"}
      /\ UNCHANGED <<presents, pinned, seen, writable, sessionApprovals, prompt, trusted, ops>>
  BY DEF ScanFailed, Admitted, Ended, keyring, said, bridge
<1>2. Dialog(gate', prompt') /\ gate' \in [Op -> Uses]
  BY <1>1, MovesOn, NoUseEnded
<1>3. gate'[o] = NoUse /\ \A p \in Op \ {o} : gate'[p] = gate[p]
  BY <1>1 DEF KeysInv, KeysTypes
<1>4. Begun' /\ \A p \in Op : Going(gate'[p], trusted')
  BY <1>1, <1>2, <1>3, UseKept, NoUseEnded DEF Going
<1> QED BY <1>1, <1>2, <1>4 DEF KeysInv, KeysTypes, PinsTrusted, Accounted

LEMMA SaveEndKeeps ==
  ASSUME KeysInv, NEW o \in Op, Saved(o) \/ SaveFailed(o) PROVE KeysInv'
<1> DEFINE h == gate[o].host
           k == gate[o].key
           pins == [pinned EXCEPT ![h] = k]
<1>1. /\ gate[o].at = "save" /\ UNCHANGED <<presents, seen, writable, prompt, trusted, ops>>
      /\ pinned' \in {pinned, pins}
  BY DEF Saved, SaveFailed, bridge, said
<1>2. h \in Host /\ k \in Maybe /\ <<h, k>> \in trusted /\ gate[o] \in Uses
  BY <1>1 DEF KeysInv, KeysTypes, Begun, Going, Uses
<1>3. PinsTrusted(trusted) /\ KeysTypes
  BY DEF KeysInv
<1>4. pinned' \in [Host -> Maybe] /\ Accounted(pinned', trusted)
  <2>1. pins \in [Host -> Maybe] /\ Accounted(pins, trusted)
    BY <1>2, <1>3, PinStays DEF KeysTypes, PinsTrusted
  <2> QED BY <2>1, <1>1, <1>3 DEF KeysTypes, PinsTrusted
<1>5. sessionApprovals' \in [Host -> Maybe] /\ Accounted(sessionApprovals', trusted)
  <2>1. sessionApprovals' \in {sessionApprovals, [sessionApprovals EXCEPT ![h] = k]}
    BY DEF Saved, SaveFailed, Remembered
  <2> QED BY <2>1, <1>2, <1>3, PinStays DEF KeysTypes, PinsTrusted
<1>6. \E g \in {NoUse, [gate[o] EXCEPT !.at = "use"]} : gate' = [gate EXCEPT ![o] = g]
  BY <1>1 DEF Saved, SaveFailed, Approved, Ended
<1>7. PICK g \in {NoUse, [gate[o] EXCEPT !.at = "use"]} : gate' = [gate EXCEPT ![o] = g]
  BY <1>6
<1>8. g \in Uses /\ g.at \in {"ended", "use"} /\ (g.at # "ended" => g.host = h /\ g.key = k)
  <2>1. [gate[o] EXCEPT !.at = "use"] \in Uses
    BY <1>2 DEF Uses
  <2>2. /\ [gate[o] EXCEPT !.at = "use"].at = "use" /\ [gate[o] EXCEPT !.at = "use"].host = h
        /\ [gate[o] EXCEPT !.at = "use"].key = k
    BY <1>2 DEF Uses
  <2> QED BY <2>1, <2>2, <1>7, NoUseEnded
<1>9. Dialog(gate', prompt') /\ gate' \in [Op -> Uses]
  BY <1>1, <1>7, <1>8, MovesOn
<1>10. gate'[o] = g /\ \A p \in Op \ {o} : gate'[p] = gate[p]
  BY <1>3, <1>7 DEF KeysTypes
<1>11. Going(g, trusted)
  BY <1>2, <1>8 DEF Going
<1>12. Begun' /\ \A p \in Op : Going(gate'[p], trusted')
  BY <1>1, <1>2, <1>8, <1>9, <1>10, <1>11, UseKept
<1>13. PinsTrusted(trusted)'
  BY <1>1, <1>3, <1>4, <1>5 DEF PinsTrusted, Accounted
<1>14. KeysTypes'
  BY <1>1, <1>3, <1>4, <1>5, <1>9 DEF KeysTypes
<1> QED BY <1>9, <1>12, <1>13, <1>14 DEF KeysInv

------------------------------------------------------------------------------
(* ask(): the older question counts as declined. *)
LEMMA AskKeeps ==
  ASSUME KeysInv, NEW o \in Op, NEW g \in Uses, NEW mode, NEW k,
         g.at = "ask" \/ g.at = "ended",
         g.at = "ask" <=> mode \in Questions,
         g.at = "ask" => g.host = gate[o].host /\ g.key = k,
         gate[o].at # "ended",
         Ask([gate EXCEPT ![o] = g], o, mode, k),
         UNCHANGED <<presents, pinned, seen, writable, sessionApprovals, trusted, ops>>
  PROVE  KeysInv'
<1>1. KeysTypes /\ Begun /\ PinsTrusted(trusted)
  BY DEF KeysInv
<1>2. /\ prompt' = [by |-> o, mode |-> mode, host |-> gate[o].host, key |-> k]
      /\ gate' = [p \in Op |-> IF p # o /\ gate[p].at = "ask" THEN NoUse ELSE [gate EXCEPT ![o] = g][p]]
  BY DEF Ask, Waiting
<1>3. /\ prompt'.by = o /\ prompt'.mode = mode /\ prompt'.host = gate[o].host /\ prompt'.key = k
  BY <1>2
<1>4. gate'[o] = g /\ \A p \in Op \ {o} : gate'[p] = IF gate[p].at = "ask" THEN NoUse ELSE gate[p]
  BY <1>1, <1>2 DEF KeysTypes
<1>5. gate' \in [Op -> Uses]
  <2>1. \A p \in Op : gate'[p] \in Uses
    BY <1>1, <1>4, NoUseEnded DEF KeysTypes
  <2> QED BY <2>1, <1>2
<1>6. ASSUME NEW p \in Op, p # o PROVE gate'[p].at # "ask" /\ (gate'[p] = gate[p] \/ gate'[p].at = "ended")
  BY <1>4, <1>6, NoUseEnded
<1>7. Dialog(gate', prompt')
  BY <1>3, <1>4, <1>6 DEF Dialog, AskerShown
<1>8. g.at = "ask" => g.host \in Host
  BY <1>1 DEF Begun
<1>9. Begun' /\ \A p \in Op : Going(gate'[p], trusted')
  BY <1>4, <1>5, <1>6, <1>8, UseKept DEF Going
<1>10. PinsTrusted(trusted)' /\ KeysTypes'
  BY <1>1, <1>5 DEF PinsTrusted, Accounted, KeysTypes
<1> QED BY <1>7, <1>9, <1>10 DEF KeysInv

LEMMA ScannedKeeps == ASSUME KeysInv, NEW o \in Op, Scanned(o) PROVE KeysInv'
<1> DEFINE h == gate[o].host
           k == presents[h]
           g == [gate[o] EXCEPT !.at = "ask", !.key = k]
<1>1. gate[o].at = "scan" /\ UNCHANGED <<presents, pinned, seen, writable, sessionApprovals, trusted, ops>>
  BY DEF Scanned, keyring, said, bridge
<1>2. gate[o] \in Uses /\ h \in Host /\ k \in Maybe
  BY <1>1 DEF KeysInv, KeysTypes, Begun, Maybe
<1>3. /\ g \in Uses /\ g.at = "ask" /\ g.host = h /\ g.key = k
  BY <1>2 DEF Uses
<1>4. \/ gate' = [gate EXCEPT ![o] = NoUse] /\ prompt' = prompt
      \/ \E mode \in Questions : Ask([gate EXCEPT ![o] = g], o, mode, k)
  <2>1. [gate EXCEPT ![o].at = "ask", ![o].key = k] = [gate EXCEPT ![o] = g]
    BY DEF KeysInv, KeysTypes
  <2> QED BY <2>1 DEF Scanned, Ended, Questions
<1>5. CASE gate' = [gate EXCEPT ![o] = NoUse] /\ prompt' = prompt
  <2>1. Dialog(gate', prompt') /\ gate' \in [Op -> Uses]
    BY <1>1, <1>5, MovesOn, NoUseEnded
  <2>2. gate'[o] = NoUse /\ \A p \in Op \ {o} : gate'[p] = gate[p]
    BY <1>5 DEF KeysInv, KeysTypes
  <2>3. Begun' /\ \A p \in Op : Going(gate'[p], trusted')
    BY <1>1, <2>1, <2>2, UseKept, NoUseEnded DEF Going
  <2> QED BY <1>1, <2>1, <2>3 DEF KeysInv, KeysTypes, PinsTrusted, Accounted
<1>6. ASSUME NEW mode \in Questions, Ask([gate EXCEPT ![o] = g], o, mode, k) PROVE KeysInv'
  <2> HIDE DEF g
  <2> QED BY <1>1, <1>3, <1>6, AskKeeps
<1> QED BY <1>4, <1>5, <1>6

LEMMA ErrorKeeps == ASSUME KeysInv, NEW o \in Op, HandleHostKeyError(o) PROVE KeysInv'
<1>1. /\ gate[o].at = "use" /\ Ask([gate EXCEPT ![o] = NoUse], o, "changed", presents[gate[o].host])
      /\ UNCHANGED <<presents, pinned, seen, writable, sessionApprovals, trusted, ops>>
  BY DEF HandleHostKeyError, Ended, keyring, said, bridge
<1> QED BY <1>1, AskKeeps, NoUseEnded DEF Questions

------------------------------------------------------------------------------
(* The user's answers. *)
LEMMA TrustKeeps == ASSUME KeysInv, Trust PROVE KeysInv'
<1> DEFINE o == prompt.by
           h == prompt.host
           k == prompt.key
<1>1. /\ prompt.mode \in Questions /\ prompt' = NoPrompt
      /\ gate' = [gate EXCEPT ![o] = Approved(o)]
      /\ trusted' = trusted \cup {<<h, k>>}
      /\ UNCHANGED <<presents, pinned, seen, writable, ops>>
  BY DEF Trust, Questions, bridge
<1>2. KeysTypes /\ Begun /\ PinsTrusted(trusted) /\ Dialog(gate, prompt)
  BY DEF KeysInv
<1>3. o \in Op /\ gate[o].at = "ask"
  BY <1>1, <1>2 DEF Dialog
<1>4. gate[o].host = h /\ gate[o].key = k /\ gate[o] \in Uses
  BY <1>2, <1>3 DEF Dialog, AskerShown, KeysTypes
<1>5. h \in Host /\ k \in Maybe
  BY <1>2, <1>3, <1>4 DEF Begun, Uses
<1>6. PICK g \in {NoUse, [gate[o] EXCEPT !.at = "save"], [gate[o] EXCEPT !.at = "use"]} :
        gate' = [gate EXCEPT ![o] = g]
  BY <1>1 DEF Approved
<1>7. g \in Uses /\ g.at \in {"ended", "save", "use"} /\ (g.at # "ended" => g.host = h /\ g.key = k)
  <2>1. ASSUME NEW at \in {"save", "use"}
        PROVE  /\ [gate[o] EXCEPT !.at = at] \in Uses /\ [gate[o] EXCEPT !.at = at].at = at
               /\ [gate[o] EXCEPT !.at = at].host = h /\ [gate[o] EXCEPT !.at = at].key = k
    BY <1>4 DEF Uses
  <2> QED BY <2>1, <1>6, NoUseEnded
<1>8. gate' \in [Op -> Uses] /\ gate'[o] = g /\ \A p \in Op \ {o} : gate'[p] = gate[p]
  BY <1>2, <1>3, <1>6, <1>7 DEF KeysTypes
<1>9. Going(g, trusted')
  BY <1>1, <1>7 DEF Going
<1>10. Begun' /\ \A p \in Op : Going(gate'[p], trusted')
  BY <1>1, <1>3, <1>5, <1>7, <1>8, <1>9, UseKept
<1>11. \A p \in Op : gate'[p].at # "ask"
  BY <1>2, <1>3, <1>7, <1>8 DEF Dialog, AskerShown
<1>12. Dialog(gate', prompt')
  BY <1>1, <1>11 DEF Dialog, AskerShown, NoPrompt, Questions
<1>13. sessionApprovals' \in [Host -> Maybe] /\ Accounted(sessionApprovals', trusted')
  <2>1. sessionApprovals' \in {sessionApprovals, [sessionApprovals EXCEPT ![h] = k]}
    BY DEF Trust, Remembered
  <2>2. Accounted(sessionApprovals, trusted')
    BY <1>1, <1>2 DEF PinsTrusted, Accounted
  <2>3. Accounted([sessionApprovals EXCEPT ![h] = k], trusted')
    <3>1. trusted \subseteq trusted' /\ <<h, k>> \in trusted'
      BY <1>1
    <3>2. sessionApprovals \in [Host -> Maybe] /\ Accounted(sessionApprovals, trusted)
      BY <1>2 DEF PinsTrusted, KeysTypes
    <3> QED BY <3>1, <3>2, <1>5, PinStays
  <2>4. [sessionApprovals EXCEPT ![h] = k] \in [Host -> Maybe] /\ sessionApprovals \in [Host -> Maybe]
    BY <1>2, <1>5 DEF KeysTypes
  <2> QED BY <2>1, <2>2, <2>3, <2>4
<1>14. PinsTrusted(trusted)'
  BY <1>1, <1>2, <1>13 DEF PinsTrusted, Accounted
<1>15. KeysTypes'
  BY <1>1, <1>2, <1>8, <1>13 DEF KeysTypes
<1> QED BY <1>10, <1>12, <1>14, <1>15 DEF KeysInv

LEMMA DeclineKeeps == ASSUME KeysInv, Decline PROVE KeysInv'
<1>1. /\ prompt' = NoPrompt
      /\ UNCHANGED <<presents, pinned, seen, writable, sessionApprovals, trusted, ops>>
      /\ gate' = IF prompt.mode = "changed" THEN gate ELSE [gate EXCEPT ![prompt.by] = NoUse]
  BY DEF Decline, Ended, keyring, said, bridge
<1>2. KeysTypes /\ Begun /\ PinsTrusted(trusted) /\ Dialog(gate, prompt) /\ \A p \in Op : Going(gate[p], trusted)
  BY DEF KeysInv
<1>3. gate' \in [Op -> Uses] /\ \A p \in Op : gate'[p] \in {gate[p], NoUse}
  BY <1>1, <1>2, NoUseEnded DEF KeysTypes
<1>4. \A p \in Op : gate'[p].at # "ask"
  BY <1>1, <1>2, NoUseEnded DEF Dialog, AskerShown, Questions, KeysTypes
<1>5. Dialog(gate', prompt')
  BY <1>1, <1>4 DEF Dialog, AskerShown, NoPrompt, Questions
<1>6. Begun' /\ \A p \in Op : Going(gate'[p], trusted')
  BY <1>1, <1>2, <1>3, NoUseEnded DEF Begun, Going
<1> QED BY <1>1, <1>2, <1>3, <1>5, <1>6 DEF KeysInv, KeysTypes, PinsTrusted, Accounted

------------------------------------------------------------------------------
(* The servers, the other devices and the lists of hosts. *)
LEMMA OthersKeep == ASSUME KeysInv, Rekey \/ PinnedElsewhere \/ HostsRead PROVE KeysInv'
<1>1. /\ UNCHANGED <<prompt, gate, writable, sessionApprovals, ops>> /\ trusted \subseteq trusted'
  BY DEF Rekey, PinnedElsewhere, HostsRead, bridge, said
<1>2. KeysTypes /\ Begun /\ PinsTrusted(trusted) /\ Dialog(gate, prompt) /\ \A p \in Op : Going(gate[p], trusted)
  BY DEF KeysInv
<1>3. presents' \in [Host -> Key]
  BY <1>2 DEF KeysTypes, Rekey, PinnedElsewhere, HostsRead
<1>4. pinned' \in [Host -> Maybe] /\ Accounted(pinned', trusted')
  <2>1. CASE PinnedElsewhere
    <3> DEFINE h == FirstHost
    <3>1. pinned' = [pinned EXCEPT ![h] = presents[h]] /\ trusted' = trusted \cup {<<h, presents[h]>>}
      BY <2>1 DEF PinnedElsewhere
    <3>2. \A x \in Host : pinned'[x] = IF x = h THEN presents[h] ELSE pinned[x]
      BY <1>2, <3>1 DEF KeysTypes
    <3>3. Accounted(pinned', trusted')
      BY <1>2, <3>1, <3>2 DEF PinsTrusted, Accounted
    <3>4. pinned' \in [Host -> Maybe]
      BY <1>2, <3>1 DEF KeysTypes, Maybe
    <3> QED BY <3>3, <3>4
  <2>2. CASE UNCHANGED pinned
    BY <2>2, <1>1, <1>2 DEF KeysTypes, PinsTrusted, Accounted
  <2> QED BY <2>1, <2>2 DEF Rekey, HostsRead
<1>5. seen' \in [Host -> Maybe] /\ Accounted(seen', trusted')
  BY <1>1, <1>2 DEF KeysTypes, PinsTrusted, Accounted, Rekey, PinnedElsewhere, HostsRead
<1>6. PinsTrusted(trusted)'
  BY <1>1, <1>2, <1>4, <1>5 DEF PinsTrusted, Accounted
<1>7. \A p \in Op : Going(gate'[p], trusted')
  BY <1>1, <1>2 DEF Going
<1> QED BY <1>1, <1>2, <1>3, <1>4, <1>5, <1>6, <1>7 DEF KeysInv, KeysTypes, Begun

LEMMA KeysKeep == ASSUME KeysInv, KeysNext PROVE KeysInv'
BY EnterKeeps, EndKeeps, SaveEndKeeps, ScannedKeeps, ErrorKeeps, TrustKeeps, DeclineKeeps, OthersKeep
   DEF KeysNext, EnsureHostKeys, VerifyFromEditor

(* The steps of the other parts number their operations upwards. *)
LEMMA KeysStill == ASSUME KeysInv, UNCHANGED hostKeyVars, ops' = ops \/ Begin PROVE KeysInv'
<1>1. UNCHANGED <<presents, pinned, seen, writable, sessionApprovals, prompt, gate, trusted>>
  BY DEF hostKeyVars, keyring, said
<1>2. KeysTypes /\ Begun
  BY DEF KeysInv
<1>3. ops' \in 0 .. MaxOps /\ ops' >= ops
  BY <1>2, NativeBridgeAssumption DEF KeysTypes, Begin
<1>4. Begun'
  BY <1>1, <1>2, <1>3 DEF Begun, KeysTypes, Op
<1> QED BY <1>1, <1>3, <1>4 DEF KeysInv, KeysTypes, PinsTrusted, Accounted

LEMMA KeysInductive == KeysInv /\ [Next]_vars => KeysInv'
<1> SUFFICES ASSUME KeysInv, [Next]_vars PROVE KeysInv'
  OBVIOUS
<1>1. ASSUME UNCHANGED vars PROVE KeysInv'
  BY <1>1, KeysStill DEF vars, bridge
<1>2. ASSUME SignOut PROVE KeysInv'
  BY <1>2, OpsGrow, KeysStill DEF SignOut
<1> QED BY <1>1, <1>2, KeysKeep, OpsGrow, KeysStill DEF Next

(* The inductive invariant holds of every behaviour of the client.         *)
THEOREM KeysInvariant == Spec => []KeysInv
BY KeysInitial, KeysInductive, SpecSteps, PTL

(* useHostKeyPrompt.ask and answer, approveAndStore: of any number of uses *)
(* of the gate the one that waits is the one whose question is shown.      *)
THEOREM TheAskerIsShown == Spec => []AskersAreShown
<1>1. KeysInv => AskersAreShown
  BY DEF KeysInv, Dialog, AskerShown, AskersAreShown, Waiting
<1> QED BY <1>1, KeysInvariant, PTL

(* ensureHostKeys returns nothing but pins that the user accepted for that *)
(* server or that came with the vault, and these a session is opened with. *)
THEOREM TrustedKeysOnly == Spec => []OnlyTrustedKeys
<1>1. KeysInv => OnlyTrustedKeys
  BY DEF KeysInv, Going, OnlyTrustedKeys
<1> QED BY <1>1, KeysInvariant, PTL

------------------------------------------------------------------------------
(* WebSsh                                                                   *)

Serving == {"select", "consume", "bind", "verify", "login", "session"}

(* What is true of the proxy of c between two of its steps: it serves the  *)
(* frame that it was sent, holds the lock of the row that it looked at,    *)
(* and goes on only with a token that it has consumed itself.              *)
Locked(c, p, lock, tk) ==
  p.at = "consume" => lock[p.frame.token] = c /\ (p.seen => tk[p.frame.token] \in {"issued", "expired"})
Spent(p, tk) == p.past # None => tk[p.past] = "consumed"
Holds(p) ==
  /\ p.at \in Serving => p.frame \in Request
  /\ p.at \in {"bind", "verify", "login", "session"} => p.past = p.frame.token
  /\ p.at \in {"verify", "login", "session"} => ~Unpinned(p.frame) /\ BoundDestination(p.frame)
  /\ p.at \in {"login", "session"} => p.frame.mode = "connect" /\ p.key = p.frame.pin

WebTypes ==
  /\ ticket \in [Op -> Ticket] /\ rowLock \in [Op -> Conn \cup {NoConn}]
  /\ sock \in [Conn -> Sock] /\ conn \in [Conn -> Proxied]
  /\ ops \in 0 .. MaxOps

WebInv ==
  /\ WebTypes
  /\ \A o \in Op : o > ops => ticket[o] = "none"
  /\ \A c \in Conn : sock[c].at \in {"opening", "sent"} => sock[c].frame \in Request
  /\ \A c \in Conn : Holds(conn[c]) /\ Locked(c, conn[c], rowLock, ticket) /\ Spent(conn[c], ticket)
  /\ TokensOpenOnce

LEMMA WebInitial == Init => WebInv
<1> SUFFICES ASSUME Init PROVE WebInv
  OBVIOUS
<1>1. /\ ticket = [o \in Op |-> "none"] /\ rowLock = [o \in Op |-> NoConn]
      /\ sock = [c \in Conn |-> NoSock] /\ conn = [c \in Conn |-> NoProxy] /\ ops = 0
  BY DEF Init, WebInit, BridgeInit
<1>2. NoSock \in Sock
  BY DEF NoSock, Sock, NoRequest
<1>3. NoProxy \in Proxied
  BY DEF NoProxy, Proxied, NoRequest, Step, None, Maybe
<1>4. ops \in 0 .. MaxOps
  BY <1>1, NativeBridgeAssumption
<1>5. WebTypes
  BY <1>1, <1>2, <1>3, <1>4 DEF WebTypes, Ticket
<1>6. \A c \in Conn : Holds(conn[c]) /\ Locked(c, conn[c], rowLock, ticket) /\ Spent(conn[c], ticket)
  BY <1>1 DEF NoProxy, Holds, Locked, Spent, Serving
<1>7. \A c \in Conn : sock[c].at = "none" /\ conn[c].past = None
  BY <1>1 DEF NoSock, NoProxy
<1> QED BY <1>1, <1>5, <1>6, <1>7 DEF WebInv, TokensOpenOnce

-----------------------------------------------------------------------------
(* One connection moves, the rows of the tokens stay.                      *)
LEMMA OneMoves ==
  ASSUME WebInv, NEW c \in Conn, NEW s \in Sock, NEW p \in Proxied,
         sock' = [sock EXCEPT ![c] = s], conn' = [conn EXCEPT ![c] = p],
         UNCHANGED <<ticket, rowLock, ops>>,
         s.at \in {"opening", "sent"} => s.frame \in Request,
         Holds(p), Locked(c, p, rowLock, ticket), p.past \in {None, conn[c].past}
  PROVE  WebInv'
<1>1. sock' \in [Conn -> Sock] /\ conn' \in [Conn -> Proxied]
  BY DEF WebInv, WebTypes
<1>2. WebTypes'
  BY <1>1 DEF WebInv, WebTypes
<1>3. \A d \in Conn : /\ sock'[d] = IF d = c THEN s ELSE sock[d]
                      /\ conn'[d] = IF d = c THEN p ELSE conn[d]
  BY DEF WebInv, WebTypes
<1>4. \A d \in Conn : conn'[d].past \in {None, conn[d].past}
  BY <1>3
<1>5. \A d \in Conn : Spent(conn'[d], ticket)
  BY <1>4 DEF WebInv, Spent
<1>6. \A d \in Conn : Holds(conn'[d]) /\ Locked(d, conn'[d], rowLock, ticket)
  BY <1>3 DEF WebInv
<1>7. \A d \in Conn : sock'[d].at \in {"opening", "sent"} => sock'[d].frame \in Request
  BY <1>3 DEF WebInv
<1>8. TokensOpenOnce'
  BY <1>4 DEF WebInv, TokensOpenOnce
<1> QED BY <1>2, <1>5, <1>6, <1>7, <1>8 DEF WebInv

(* What the proxy is left with when it has closed.                         *)
LEMMA Released ==
  ASSUME WebInv, NEW c \in Conn, NEW f \in {"ready", "error", "host_key"},
         NEW p, p \in {Release(conn[c]), Tell(c, Release(conn[c]), f)}
  PROVE  p \in Proxied /\ p.at = "closed" /\ p.past = conn[c].past
<1>1. conn[c] \in Proxied
  BY DEF WebInv, WebTypes
<1>2. Release(conn[c]) \in Proxied /\ Release(conn[c]).at = "closed" /\ Release(conn[c]).past = conn[c].past
  BY <1>1 DEF Release, NoProxy, Proxied, NoRequest, Step, Maybe
<1>3. Append(Release(conn[c]).inbox, f) \in Seq({"ready", "error", "host_key"})
  BY <1>2 DEF Proxied
<1>4. Tell(c, Release(conn[c]), f) \in Proxied
  BY <1>2, <1>3 DEF Tell, Proxied
<1>5. /\ Tell(c, Release(conn[c]), f).at = Release(conn[c]).at
      /\ Tell(c, Release(conn[c]), f).past = Release(conn[c]).past
  BY <1>2 DEF Tell, Proxied
<1> QED BY <1>2, <1>4, <1>5

LEMMA SameSock == ASSUME WebInv, NEW c \in Conn, UNCHANGED sock
                  PROVE  /\ sock' = [sock EXCEPT ![c] = sock[c]] /\ sock[c] \in Sock
                         /\ sock[c].at \in {"opening", "sent"} => sock[c].frame \in Request
BY DEF WebInv, WebTypes

LEMMA CloseKeeps ==
  ASSUME WebInv, NEW c \in Conn, NEW f \in {"ready", "error", "host_key"},
         CloseWith(c, f) \/ SetConn(c, Release(conn[c])), UNCHANGED <<bridge, ticket, rowLock, sock>>
  PROVE  WebInv'
<1>1. PICK p \in {Release(conn[c]), Tell(c, Release(conn[c]), f)} : conn' = [conn EXCEPT ![c] = p]
  BY DEF CloseWith, SetConn
<1>2. p \in Proxied /\ p.at = "closed" /\ p.past = conn[c].past
  BY Released
<1>3. Holds(p) /\ Locked(c, p, rowLock, ticket)
  BY <1>2 DEF Holds, Locked, Serving
<1> QED BY <1>1, <1>2, <1>3, SameSock, OneMoves DEF bridge

(* The client's end moves; what is heard is taken out of the inbox.        *)
LEMMA ClientKeeps ==
  ASSUME WebInv, NEW c \in Conn, NEW s \in Sock, SetSock(c, s),
         s.at \in {"opening", "sent"} => s.frame \in Request,
         NEW q \in Seq({"ready", "error", "host_key"}),
         UNCHANGED conn \/ SetConn(c, [conn[c] EXCEPT !.inbox = q]),
         UNCHANGED <<bridge, ticket, rowLock>>
  PROVE  WebInv'
<1>1. conn \in [Conn -> Proxied]
  BY DEF WebInv, WebTypes
<1>2. PICK p \in {conn[c], [conn[c] EXCEPT !.inbox = q]} : conn' = [conn EXCEPT ![c] = p]
  BY <1>1 DEF SetConn
<1>3. p \in Proxied
  BY <1>1 DEF Proxied
<1>4. p.at = conn[c].at /\ p.frame = conn[c].frame /\ p.seen = conn[c].seen /\ p.past = conn[c].past /\ p.key = conn[c].key
  BY <1>1 DEF Proxied
<1>5. Holds(p) /\ Locked(c, p, rowLock, ticket)
  BY <1>4 DEF WebInv, Holds, Locked
<1> QED BY <1>2, <1>3, <1>4, <1>5, OneMoves DEF SetSock, bridge

LEMMA ClientStepKeeps ==
  ASSUME WebInv, NEW c \in Conn,
         SendFrame(c) \/ CloseSocket(c) \/ HearFrame(c) \/ HearClose(c) \/ ConnectionBreaks(c)
  PROVE  WebInv'
<1>1. sock[c] \in Sock /\ conn[c] \in Proxied /\ (sock[c].at \in {"opening", "sent"} => sock[c].frame \in Request)
  BY DEF WebInv, WebTypes
<1>2. <<>> \in Seq({"ready", "error", "host_key"})
  OBVIOUS
<1>3. Wipe(sock[c]) \in Sock /\ Wipe(sock[c]).frame = sock[c].frame /\ Wipe(sock[c]).at = sock[c].at
  BY <1>1 DEF Wipe, Sock
<1>4. CASE SendFrame(c)
  <2>1. [Wipe(sock[c]) EXCEPT !.at = "sent"] \in Sock /\ [Wipe(sock[c]) EXCEPT !.at = "sent"].frame \in Request
    BY <1>1, <1>3, <1>4 DEF SendFrame, Sock
  <2> QED BY <1>2, <1>4, <2>1, ClientKeeps DEF SendFrame
<1>5. CASE CloseSocket(c)
  <2>1. [Wipe(sock[c]) EXCEPT !.at = "closing"] \in Sock /\ [Wipe(sock[c]) EXCEPT !.at = "closing"].at = "closing"
    BY <1>3 DEF Sock
  <2> QED BY <1>2, <1>5, <2>1, ClientKeeps DEF CloseSocket
<1>6. SocketOver(sock[c]) \in Sock /\ SocketOver(sock[c]).at = "over"
  BY <1>1, <1>3 DEF SocketOver, Settled, Sock
<1>7. CASE HearClose(c) \/ ConnectionBreaks(c)
  BY <1>2, <1>6, <1>7, ClientKeeps DEF HearClose, ConnectionBreaks
<1>8. CASE HearFrame(c)
  <2> DEFINE f == Head(conn[c].inbox)
             s == IF f = "error" THEN Settled(sock[c], "rejected")
                  ELSE [Settled(sock[c], "resolved") EXCEPT !.at = IF f = "host_key" THEN "closing" ELSE @]
  <2>1. Tail(conn[c].inbox) \in Seq({"ready", "error", "host_key"})
    BY <1>1, <1>8 DEF HearFrame, Proxied
  <2>2. s \in Sock /\ s.frame = sock[c].frame
    BY <1>1 DEF Settled, Sock
  <2>3. s.at \in {sock[c].at, "closing"}
    BY <1>1 DEF Settled, Sock
  <2> QED BY <1>1, <1>8, <2>1, <2>2, <2>3, ClientKeeps DEF HearFrame
<1> QED BY <1>4, <1>5, <1>7, <1>8

-----------------------------------------------------------------------------
(* The steps of the proxy                                                  *)

LEMMA ServeKeeps ==
  ASSUME WebInv, NEW c \in Conn, NEW p \in Proxied, SetConn(c, p),
         Holds(p), p.at # "consume", p.past = conn[c].past,
         UNCHANGED <<bridge, ticket, rowLock, sock>>
  PROVE  WebInv'
<1>1. Locked(c, p, rowLock, ticket)
  BY DEF Locked
<1> QED BY <1>1, SameSock, OneMoves DEF SetConn, bridge

LEMMA ReceiveKeeps == ASSUME WebInv, NEW c \in Conn, ReceiveFrame(c) PROVE WebInv'
<1>1. conn[c] \in Proxied /\ sock[c].frame \in Request
  BY DEF WebInv, WebTypes, ReceiveFrame
<1> DEFINE p == [conn[c] EXCEPT !.at = "select", !.frame = sock[c].frame, !.timer = FALSE]
<1>2. p \in Proxied /\ p.at = "select" /\ p.frame = sock[c].frame /\ p.past = conn[c].past
  BY <1>1 DEF Proxied, Step
<1>3. Holds(p)
  BY <1>1, <1>2 DEF Holds, Serving
<1>4. CASE SetConn(c, p)
  BY <1>2, <1>3, <1>4, ServeKeeps DEF ReceiveFrame
<1>5. CASE Reject(c)
  BY <1>5, CloseKeeps DEF ReceiveFrame, Reject
<1> QED BY <1>4, <1>5 DEF ReceiveFrame

(* Who gets the lock has found it free, so that nobody else is between     *)
(* its look at the row and its update.                                     *)
LEMMA SelectKeeps == ASSUME WebInv, NEW c \in Conn, SelectToken(c) PROVE WebInv'
<1>1. /\ conn \in [Conn -> Proxied] /\ conn[c] \in Proxied /\ Presented(c) = conn[c].frame.token
      /\ rowLock \in [Op -> Conn \cup {NoConn}] /\ Holds(conn[c]) /\ conn[c].at = "select"
  BY DEF WebInv, WebTypes, SelectToken, ProxyAt, Presented
<1>2. conn[c].frame \in Request /\ Presented(c) \in Op
  BY <1>1 DEF Holds, Serving, Request
<1> DEFINE p == [conn[c] EXCEPT !.at = "consume", !.seen = (ticket[Presented(c)] = "issued")]
<1>3. /\ p \in Proxied /\ p.at = "consume" /\ p.frame = conn[c].frame /\ p.past = conn[c].past
      /\ p.seen = (ticket[Presented(c)] = "issued")
  BY <1>1 DEF Proxied, Step
<1>4. /\ conn' = [conn EXCEPT ![c] = p] /\ rowLock' = [rowLock EXCEPT ![Presented(c)] = c]
      /\ rowLock[Presented(c)] = NoConn /\ UNCHANGED <<ticket, sock, ops>>
  BY DEF SelectToken, Look, SetConn, bridge
<1>5. \A d \in Conn : conn'[d] = IF d = c THEN p ELSE conn[d]
  BY <1>1, <1>4
<1>6. Holds(p)
  BY <1>1, <1>2, <1>3 DEF Holds, Serving
<1>7. Locked(c, p, rowLock', ticket)
  BY <1>1, <1>2, <1>3, <1>4 DEF Locked
<1>8. ASSUME NEW d \in Conn, d # c PROVE Locked(d, conn[d], rowLock', ticket)
  <2>1. SUFFICES ASSUME conn[d].at = "consume"
                 PROVE  rowLock'[conn[d].frame.token] = d /\ (conn[d].seen => ticket[conn[d].frame.token] \in {"issued", "expired"})
    BY DEF Locked
  <2>2. conn[d].frame.token \in Op /\ rowLock[conn[d].frame.token] = d
    BY <2>1 DEF WebInv, Holds, Locked, Serving, Request
  <2>3. conn[d].frame.token # Presented(c)
    BY <2>2, <1>4, WebAssumption
  <2> QED BY <2>1, <2>2, <2>3, <1>1, <1>2, <1>4 DEF WebInv, Locked
<1>9. \A d \in Conn : conn'[d].past = conn[d].past
  BY <1>3, <1>5
<1>10. \A d \in Conn : Holds(conn'[d]) /\ Locked(d, conn'[d], rowLock', ticket)
  BY <1>5, <1>6, <1>7, <1>8 DEF WebInv
<1>11. \A d \in Conn : Spent(conn'[d], ticket)
  BY <1>9 DEF WebInv, Spent
<1>12. WebTypes'
  BY <1>1, <1>2, <1>3, <1>4 DEF WebInv, WebTypes
<1>13. TokensOpenOnce'
  BY <1>9 DEF WebInv, TokensOpenOnce
<1> QED BY <1>4, <1>10, <1>11, <1>12, <1>13 DEF WebInv

(* A token that is consumed was not: nobody is past it.                    *)
LEMMA ConsumeKeeps == ASSUME WebInv, NEW c \in Conn, ConsumeToken(c) PROVE WebInv'
<1>1. /\ conn \in [Conn -> Proxied] /\ conn[c] \in Proxied /\ Presented(c) = conn[c].frame.token
      /\ rowLock \in [Op -> Conn \cup {NoConn}] /\ ticket \in [Op -> Ticket]
      /\ Holds(conn[c]) /\ conn[c].at = "consume" /\ Locked(c, conn[c], rowLock, ticket)
  BY DEF WebInv, WebTypes, ConsumeToken, ProxyAt, Presented
<1>2. conn[c].frame \in Request /\ Presented(c) \in Op /\ Presented(c) # None /\ rowLock[Presented(c)] = c
  BY <1>1 DEF Holds, Serving, Request, Locked, Op, None
<1> DEFINE o == Presented(c)
<1>3. PICK p \in Proxied :
        /\ conn' = [conn EXCEPT ![c] = p] /\ Holds(p) /\ p.at # "consume"
        /\ \/ /\ p.past = o /\ ticket[o] \in {"issued", "expired"}
              /\ ticket' = [ticket EXCEPT ![o] = "consumed"]
           \/ p.past = conn[c].past /\ UNCHANGED ticket
  <2>1. CASE conn[c].seen /\ ticket' = [ticket EXCEPT ![o] = "consumed"]
             /\ SetConn(c, [conn[c] EXCEPT !.at = "bind", !.past = o])
    <3> DEFINE p == [conn[c] EXCEPT !.at = "bind", !.past = o]
    <3>1. p \in Proxied /\ p.at = "bind" /\ p.past = o /\ p.frame = conn[c].frame
      BY <1>1, <1>2 DEF Proxied, Step
    <3>2. Holds(p)
      BY <3>1, <1>1, <1>2 DEF Holds, Serving
    <3>3. ticket[o] \in {"issued", "expired"}
      BY <2>1, <1>1 DEF Locked
    <3> QED BY <2>1, <3>1, <3>2, <3>3 DEF SetConn
  <2>2. CASE Reject(c) /\ UNCHANGED ticket
    <3> DEFINE p == Tell(c, Release(conn[c]), "error")
    <3>1. p \in Proxied /\ p.at = "closed" /\ p.past = conn[c].past
      BY Released
    <3>2. Holds(p)
      BY <3>1 DEF Holds, Serving
    <3> QED BY <2>2, <3>1, <3>2 DEF Reject, CloseWith, SetConn
  <2> QED BY <2>1, <2>2 DEF ConsumeToken
<1>4. rowLock' = [rowLock EXCEPT ![o] = NoConn] /\ UNCHANGED <<sock, ops>>
  BY DEF ConsumeToken, bridge
<1>5. \A d \in Conn : conn'[d] = IF d = c THEN p ELSE conn[d]
  BY <1>1, <1>3
<1>6. \A q \in Op : ticket'[q] # ticket[q] => q = o /\ ticket'[q] = "consumed"
  BY <1>1, <1>3
<1>7. ASSUME NEW d \in Conn, d # c PROVE Locked(d, conn[d], rowLock', ticket')
  <2>1. SUFFICES ASSUME conn[d].at = "consume"
                 PROVE  rowLock'[conn[d].frame.token] = d /\ (conn[d].seen => ticket'[conn[d].frame.token] \in {"issued", "expired"})
    BY DEF Locked
  <2>2. conn[d].frame.token \in Op /\ rowLock[conn[d].frame.token] = d
    BY <2>1 DEF WebInv, Holds, Locked, Serving, Request
  <2>3. conn[d].frame.token # o
    BY <2>2, <1>2, <1>7
  <2>4. ticket'[conn[d].frame.token] = ticket[conn[d].frame.token]
    BY <2>2, <2>3, <1>6
  <2> QED BY <2>1, <2>2, <2>3, <2>4, <1>1, <1>2, <1>4 DEF WebInv, Locked
<1>8. \A d \in Conn : Holds(conn'[d]) /\ Locked(d, conn'[d], rowLock', ticket')
  BY <1>3, <1>5, <1>7 DEF WebInv, Locked
<1>9. ASSUME NEW d \in Conn PROVE Spent(conn'[d], ticket')
  <2>1. Spent(conn[d], ticket) /\ conn[d] \in Proxied
    BY <1>1 DEF WebInv
  <2>2. Spent(conn[d], ticket')
    BY <2>1, <1>6 DEF Spent, Proxied
  <2>3. p.past = o /\ ticket' = [ticket EXCEPT ![o] = "consumed"] => Spent(p, ticket')
    BY <1>1, <1>2 DEF Spent
  <2>4. p.past = conn[c].past /\ UNCHANGED ticket => Spent(p, ticket')
    BY DEF WebInv, Spent
  <2> QED BY <2>2, <2>3, <2>4, <1>3, <1>5
<1>10. \A d \in Conn : conn[d].past = o => ticket[o] = "consumed"
  BY <1>2 DEF WebInv, Spent
<1>11. TokensOpenOnce'
  BY <1>3, <1>5, <1>10 DEF WebInv, TokensOpenOnce
<1>12. conn' \in [Conn -> Proxied] /\ rowLock' \in [Op -> Conn \cup {NoConn}] /\ ticket' \in [Op -> Ticket]
  BY <1>1, <1>3, <1>4 DEF Ticket
<1>13. WebTypes'
  BY <1>4, <1>12 DEF WebInv, WebTypes
<1>14. ticket[o] \in {"issued", "expired"} => o <= ops
  BY <1>2 DEF WebInv, WebTypes, Op
<1>15. \A q \in Op : q > ops' => ticket'[q] = "none"
  BY <1>1, <1>2, <1>3, <1>4, <1>14 DEF WebInv, WebTypes, Op
<1> QED BY <1>4, <1>8, <1>9, <1>11, <1>13, <1>15 DEF WebInv

LEMMA ConnectKeeps == ASSUME WebInv, NEW c \in Conn, ConnectTo(c) PROVE WebInv'
<1>1. conn[c] \in Proxied /\ conn[c].at = "bind" /\ Holds(conn[c])
  BY DEF WebInv, WebTypes, ConnectTo, ProxyAt
<1> DEFINE p == [conn[c] EXCEPT !.at = "verify", !.client = TRUE]
<1>2. p \in Proxied /\ p.at = "verify" /\ p.frame = conn[c].frame /\ p.past = conn[c].past
  BY <1>1 DEF Proxied, Step
<1>3. ~Unpinned(FrameOf(c)) /\ BoundDestination(FrameOf(c)) => Holds(p)
  BY <1>1, <1>2 DEF Holds, Serving, FrameOf
<1> QED BY <1>2, <1>3, ServeKeeps, CloseKeeps DEF ConnectTo, Reject

LEMMA VerifyKeeps == ASSUME WebInv, NEW c \in Conn, NEW k \in Key, VerifyHostKey(c, k) PROVE WebInv'
<1>1. conn[c] \in Proxied /\ conn[c].at = "verify" /\ Holds(conn[c]) /\ conn[c].frame.mode = "connect"
  BY DEF WebInv, WebTypes, VerifyHostKey, ProxyAt, FrameOf
<1> DEFINE p == [conn[c] EXCEPT !.at = "login", !.key = k]
<1>2. p \in Proxied /\ p.at = "login" /\ p.frame = conn[c].frame /\ p.past = conn[c].past /\ p.key = k
  BY <1>1 DEF Proxied, Step, Maybe
<1>3. conn[c].frame.pin = k => Holds(p)
  BY <1>1, <1>2 DEF Holds, Serving
<1> QED BY <1>2, <1>3, ServeKeeps, CloseKeeps DEF VerifyHostKey, FrameOf, Reject

LEMMA AuthenticateKeeps == ASSUME WebInv, NEW c \in Conn, Authenticate(c) PROVE WebInv'
<1>1. conn[c] \in Proxied /\ conn[c].at = "login" /\ Holds(conn[c])
  BY DEF WebInv, WebTypes, Authenticate, ProxyAt
<1> DEFINE r == [conn[c] EXCEPT !.at = "session", !.reader = TRUE]
           p == Tell(c, r, "ready")
<1>2. r \in Proxied /\ r.at = "session" /\ r.frame = conn[c].frame /\ r.past = conn[c].past /\ r.key = conn[c].key
  BY <1>1 DEF Proxied, Step
<1> HIDE DEF r
<1>3. Append(r.inbox, "ready") \in Seq({"ready", "error", "host_key"})
  <2>1. r.inbox \in Seq({"ready", "error", "host_key"})
    BY <1>2 DEF Proxied
  <2> QED BY <2>1
<1>4. /\ p.at = r.at /\ p.frame = r.frame /\ p.past = r.past /\ p.key = r.key
      /\ p \in Proxied
  <2>1. CASE ~Listens(c)
    BY <1>2, <2>1 DEF Tell, Proxied
  <2>2. CASE Listens(c)
    <3>1. p = [r EXCEPT !.inbox = Append(r.inbox, "ready")]
      BY <1>2, <2>2 DEF Tell, Proxied
    <3> QED BY <1>2, <1>3, <3>1 DEF Proxied
  <2> QED BY <2>1, <2>2
<1>5. Holds(p)
  BY <1>1, <1>2, <1>4 DEF Holds, Serving
<1>6. p.at # "consume" /\ UNCHANGED <<bridge, ticket, rowLock, sock>>
  BY <1>2, <1>4 DEF Authenticate
<1>7. CASE SetConn(c, p)
  BY <1>2, <1>4, <1>5, <1>6, <1>7, ServeKeeps
<1>8. CASE Reject(c)
  BY <1>6, <1>8, CloseKeeps DEF Reject
<1> QED BY <1>7, <1>8 DEF Authenticate, r

LEMMA ProxyKeeps ==
  ASSUME WebInv, NEW c \in Conn, ProxyStep(c) \/ ChannelCloses(c)
  PROVE  WebInv'
<1>1. CASE HandshakeTimeout(c) \/ Probe(c) \/ HostKeyUnavailable(c) \/ ChannelCloses(c) \/ ClientGone(c)
  BY <1>1, CloseKeeps DEF HandshakeTimeout, Probe, HostKeyUnavailable, ChannelCloses, ClientGone, Reject
<1> QED BY <1>1, ReceiveKeeps, SelectKeeps, ConsumeKeeps, ConnectKeeps, VerifyKeeps, AuthenticateKeeps DEF ProxyStep

-----------------------------------------------------------------------------
(* The tokens, new connections and the other parts of the client           *)

(* The rows of tokens change without any connection.                       *)
LEMMA RowsMove ==
  ASSUME WebInv, UNCHANGED <<rowLock, sock, conn>>, ticket' \in [Op -> Ticket], ops' \in 0 .. MaxOps,
         \A o \in Op : ticket[o] = "consumed" => ticket'[o] = "consumed",
         \A o \in Op : ticket[o] \in {"issued", "expired"} => ticket'[o] \in {"issued", "expired"},
         \A o \in Op : o > ops' => ticket'[o] = "none"
  PROVE  WebInv'
<1>1. WebTypes'
  BY DEF WebInv, WebTypes
<1>2. ASSUME NEW c \in Conn PROVE Locked(c, conn[c], rowLock, ticket') /\ Spent(conn[c], ticket')
  <2>1. Holds(conn[c]) /\ Locked(c, conn[c], rowLock, ticket) /\ Spent(conn[c], ticket) /\ conn[c] \in Proxied
    BY DEF WebInv, WebTypes
  <2>2. Spent(conn[c], ticket')
    BY <2>1 DEF Spent, Proxied
  <2>3. Locked(c, conn[c], rowLock, ticket')
    BY <2>1 DEF Holds, Locked, Serving, Request
  <2> QED BY <2>2, <2>3
<1> QED BY <1>1, <1>2 DEF WebInv, TokensOpenOnce

LEMMA OtherKeeps == ASSUME WebInv, UNCHANGED webVars, ops' = ops \/ Begin PROVE WebInv'
<1>1. ops' \in 0 .. MaxOps /\ ops' >= ops
  BY NativeBridgeAssumption DEF WebInv, WebTypes, Begin
<1>2. \A o \in Op : o > ops' => ticket[o] = "none"
  BY <1>1 DEF WebInv, WebTypes, Op
<1> QED BY <1>1, <1>2, RowsMove DEF webVars, WebInv, WebTypes

LEMMA StoreKeeps == ASSUME WebInv, StoreToken PROVE WebInv'
<1>1. /\ ops = 0 /\ ops' = 1 /\ 0 < MaxOps /\ ticket' = [ticket EXCEPT ![1] = "issued"]
      /\ UNCHANGED <<rowLock, sock, conn>>
  BY DEF StoreToken, Begin
<1>2. 1 \in Op /\ ops' \in 0 .. MaxOps
  BY <1>1, NativeBridgeAssumption DEF Op
<1>3. \A o \in Op : ticket[o] = "none"
  BY <1>1 DEF WebInv, Op
<1>4. ticket' \in [Op -> Ticket] /\ \A o \in Op : o > ops' => ticket'[o] = "none"
  BY <1>1, <1>2, <1>3 DEF WebInv, WebTypes, Ticket, Op
<1> QED BY <1>1, <1>2, <1>3, <1>4, RowsMove

LEMMA ExpireKeeps == ASSUME WebInv, NEW o \in Op, ExpireToken(o) PROVE WebInv'
<1>1. /\ ticket' = [ticket EXCEPT ![o] = "expired"] /\ ticket[o] = "issued"
      /\ UNCHANGED <<rowLock, sock, conn, ops>> /\ ticket \in [Op -> Ticket]
  BY DEF ExpireToken, bridge, WebInv, WebTypes
<1>2. ticket' \in [Op -> Ticket] /\ \A q \in Op : q > ops => ticket'[q] = "none"
  BY <1>1 DEF WebInv, Ticket
<1> QED BY <1>1, <1>2, RowsMove DEF WebInv, WebTypes

LEMMA OpenKeeps == ASSUME WebInv, NEW c \in Conn, NEW o \in Op, NEW f \in Requests(o), OpenSocket(c, f) PROVE WebInv'
<1>1. f \in Request
  BY HostKeysAssumption DEF Requests, Request, Maybe, FirstKey
<1>2. CASE Unpinned(f)
  <2> DEFINE s == [NoSock EXCEPT !.at = "over", !.promise = "rejected", !.secret = "wiped"]
  <2>1. s \in Sock /\ s.at = "over"
    BY DEF NoSock, Sock, NoRequest
  <2>2. SetSock(c, s) /\ UNCHANGED <<conn, bridge, ticket, rowLock>> /\ <<>> \in Seq({"ready", "error", "host_key"})
    BY <1>2 DEF OpenSocket
  <2> HIDE DEF s
  <2> QED BY <2>1, <2>2, ClientKeeps
<1>3. CASE ~Unpinned(f)
  <2> DEFINE s == [at |-> "opening", frame |-> f, promise |-> "pending",
                   secret |-> IF f.mode = "connect" THEN "held" ELSE "none"]
             p == [NoProxy EXCEPT !.at = "open", !.timer = TRUE]
  <2>1. s \in Sock /\ s.frame = f
    BY <1>1 DEF Sock
  <2>2. p \in Proxied /\ p.at = "open" /\ p.past = None
    <3>1. NoProxy \in Proxied /\ NoProxy.past = None
      BY DEF NoProxy, Proxied, NoRequest, Step, Maybe
    <3> HIDE DEF NoProxy
    <3> QED BY <3>1 DEF Proxied, Step
  <2>3. Holds(p) /\ Locked(c, p, rowLock, ticket)
    BY <2>2 DEF Holds, Locked, Serving
  <2>4. sock' = [sock EXCEPT ![c] = s] /\ conn' = [conn EXCEPT ![c] = p] /\ UNCHANGED <<ticket, rowLock, ops>>
    BY <1>3 DEF OpenSocket, SetSock, SetConn, bridge
  <2> QED BY <1>1, <2>1, <2>2, <2>3, <2>4, OneMoves
<1> QED BY <1>2, <1>3

LEMMA WebKeeps == ASSUME WebInv, WebNext PROVE WebInv'
BY StoreKeeps, ExpireKeeps, OpenKeeps, ClientStepKeeps, ProxyKeeps DEF WebNext

(* HostKeys numbers its uses of the gate like the others.                  *)
LEMMA WebInductive == WebInv /\ [Next]_vars => WebInv'
<1> SUFFICES ASSUME WebInv, [Next]_vars PROVE WebInv'
  OBVIOUS
<1>1. ASSUME UNCHANGED vars PROVE WebInv'
  BY <1>1, OtherKeeps DEF vars, bridge, shellVars
<1>2. ASSUME SignOut PROVE WebInv'
  BY <1>2, OpsGrow, OtherKeeps DEF SignOut, shellVars
<1>3. ASSUME \/ TabsNext \/ TunnelsNext \/ TransfersNext \/ RecordsNext \/ KeysNext \/ AgentsNext \/ PanesNext
             \/ AssistantNext \/ EditorNext \/ ListingsNext \/ AiNext \/ PipesNext,
             UNCHANGED webVars
      PROVE  WebInv'
  BY <1>3, OpsGrow, OtherKeeps
<1> QED BY <1>1, <1>2, <1>3, WebKeeps DEF Next, shellVars

(* The invariant of the proxies holds of every behaviour.                  *)
THEOREM WebInvariant == Spec => []WebInv
BY WebInitial, WebInductive, SpecSteps, PTL

(* SshTokenVerifier::consume: of any number of connections that present a  *)
(* token at once, one gets past it.                                        *)
THEOREM TokensAreUsedOnce == Spec => []TokensOpenOnce
<1>1. WebInv => TokensOpenOnce
  BY DEF WebInv
<1> QED BY <1>1, WebInvariant, PTL

(* WebSshSessionOpener::openSession: who is about to be logged in, or is,  *)
(* has asked for the destination of a token that this frame used up, and   *)
(* the server has presented the pinned key.                                *)
THEOREM CredentialsAreBound == Spec => []CredentialsFollowThePin
<1>1. ASSUME WebInv, NEW c \in Conn, conn[c].at \in {"login", "session"}
      PROVE  /\ FrameOf(c).mode = "connect" /\ BoundDestination(FrameOf(c)) /\ ticket[Presented(c)] = "consumed"
             /\ conn[c].key = FrameOf(c).pin /\ conn[c].key # NoKey
  <2>1. Holds(conn[c]) /\ Spent(conn[c], ticket)
    BY <1>1 DEF WebInv
  <2>2. conn[c].frame \in Request /\ conn[c].past = conn[c].frame.token /\ conn[c].past # None
    BY <1>1, <2>1 DEF Holds, Serving, Request, Op, None
  <2> QED BY <1>1, <2>1, <2>2 DEF Holds, Spent, FrameOf, Presented, Unpinned
<1>2. WebInv => CredentialsFollowThePin
  BY <1>1 DEF CredentialsFollowThePin
<1> QED BY <1>2, WebInvariant, PTL

------------------------------------------------------------------------------
(* SftpProcess                                                             *)

(* A sign-out changes nothing of the parts that it excludes.               *)
LEMMA SignOutStill == SignOut => UNCHANGED <<hostKeyVars, shellVars>>
BY DEF SignOut

PipesTypes ==
  /\ sftpChild \in [at : {"none", "running", "exited", "killed"}, wrote : [Stream -> Nat]]
  /\ pipes \in [Stream -> Seq(Nat)]
  /\ captures \in [Stream -> [kept : Seq(Nat), done : BOOLEAN]]
  /\ heirs \in BOOLEAN
  /\ recorded \in {"running", "exited", "cancelled"} /\ mutex \in {"free", "cancel"}
  /\ waiter \in [at : {"none", "feeding", "polling", "collecting", "told"},
                 outcome : [kind : {"none", "unfed", "exited", "cancelled", "waiterror"},
                            out : Seq(Nat), full : BOOLEAN]]
  /\ canceller \in {"none", "killing", "cancelled", "finished"}

(* A stream of which n pieces were drained: the pipe holds the next ones,  *)
(* and what is kept are the last ones, as many as are told at least.       *)
Drains(n, wrote, pipe, kept) ==
  /\ Len(pipe) = wrote - n
  /\ \A i \in 1 .. Len(pipe) : pipe[i] = n + i
  /\ Len(kept) <= n /\ Len(kept) <= 2 * MaxCaptured
  /\ \A i \in 1 .. Len(kept) : kept[i] = n - Len(kept) + i
  /\ Len(kept) < MaxCaptured => Len(kept) = n
Flow(wrote, pipe, kept) == \E n \in 0 .. wrote : Drains(n, wrote, pipe, kept)
Flows == \A s \in Stream : /\ Flow(sftpChild.wrote[s], pipes[s], captures[s].kept)
                           /\ captures[s].done => pipes[s] = <<>> /\ sftpChild.at \in {"exited", "killed"}

(* Where the waiter and a cancel are, and what is recorded by then.        *)
Recording ==
  /\ waiter.at = "none" <=> sftpChild.at = "none"
  /\ waiter.at = "told" <=> waiter.outcome.kind # "none"
  /\ waiter.at \in {"none", "feeding"} => recorded = "running" /\ canceller = "none"
  /\ waiter.at = "collecting" => recorded = "exited"
  /\ waiter.outcome.kind \in {"cancelled", "waiterror"} => recorded = "cancelled"
  /\ waiter.outcome.kind = "unfed" => recorded # "running" /\ canceller = "none"
  /\ recorded = "running" => sftpChild.at # "killed"
  /\ recorded = "exited" => sftpChild.at = "exited"
  /\ recorded = "cancelled" => sftpChild.at \in {"exited", "killed"}
  /\ canceller = "killing" <=> mutex = "cancel"
  /\ canceller = "killing" => recorded = "running" /\ waiter.at = "polling"
  /\ canceller = "cancelled" => recorded = "cancelled"
  /\ canceller = "finished" => recorded = "exited"

PipesInv == PipesTypes /\ Flows /\ Recording /\ OutcomesAgree

LEMMA NothingFlows == Flow(0, <<>>, <<>>)
<1>1. Drains(0, 0, <<>>, <<>>)
  BY DEF Drains, MaxCaptured
<1> QED BY <1>1 DEF Flow

LEMMA MoreFlows ==
  ASSUME NEW w \in Nat, NEW p \in Seq(Nat), NEW k \in Seq(Nat), Flow(w, p, k)
  PROVE  Flow(w + 1, Append(p, w + 1), k)
<1>1. PICK n \in 0 .. w : Drains(n, w, p, k)
  BY DEF Flow
<1>2. Drains(n, w + 1, Append(p, w + 1), k)
  BY <1>1 DEF Drains
<1> QED BY <1>2 DEF Flow

LEMMA LastOnes ==
  ASSUME NEW s \in Seq(Nat), Len(s) > MaxCaptured
  PROVE  LET b == SubSeq(s, Len(s) - MaxCaptured + 1, Len(s)) IN
         /\ b \in Seq(Nat) /\ Len(b) = MaxCaptured
         /\ \A i \in 1 .. MaxCaptured : b[i] = s[Len(s) - MaxCaptured + i]
<1> DEFINE m == Len(s) - MaxCaptured + 1  n == Len(s)  b == SubSeq(s, m, n)
<1>1. m \in Int /\ n \in Int /\ n - m + 1 = MaxCaptured /\ m <= n /\ \A i \in m .. n : s[i] \in Nat
  BY DEF MaxCaptured
<1>2. /\ b \in Seq(Nat) /\ Len(b) = IF m <= n THEN n - m + 1 ELSE 0
      /\ \A i \in 1 .. n - m + 1 : b[i] = s[m + i - 1]
  <2> HIDE DEF m, n
  <2> QED BY <1>1, SubSeqProperties
<1>3. \A i \in 1 .. MaxCaptured : m + i - 1 = Len(s) - MaxCaptured + i
  BY DEF MaxCaptured
<1> QED BY <1>1, <1>2, <1>3

(* One more piece is drained.                                              *)
LEMMA DrainedOne ==
  ASSUME NEW w \in Nat, NEW p \in Seq(Nat), NEW k \in Seq(Nat), Flow(w, p, k), p # <<>>
  PROVE  Kept(Append(k, Head(p))) \in Seq(Nat) /\ Flow(w, Tail(p), Kept(Append(k, Head(p))))
<1>1. PICK n \in 0 .. w : Drains(n, w, p, k)
  BY DEF Flow
<1>2. Len(p) \in Nat \ {0} /\ Len(k) \in Nat /\ Head(p) = n + 1
  BY <1>1 DEF Drains
<1>3. /\ Len(Tail(p)) = w - (n + 1)
      /\ \A i \in 1 .. Len(Tail(p)) : Tail(p)[i] = (n + 1) + i
  BY <1>1, <1>2 DEF Drains
<1> DEFINE a == Append(k, n + 1)
<1>4. /\ a \in Seq(Nat) /\ Len(a) = Len(k) + 1 /\ Len(a) <= n + 1
      /\ \A i \in 1 .. Len(a) : a[i] = (n + 1) - Len(a) + i
      /\ Len(a) < MaxCaptured => Len(a) = n + 1
  BY <1>1, <1>2 DEF Drains, MaxCaptured
<1> HIDE DEF a
<1>5. CASE Len(a) > 2 * MaxCaptured
  <2> DEFINE b == SubSeq(a, Len(a) - MaxCaptured + 1, Len(a))
  <2>1. /\ b \in Seq(Nat) /\ Len(b) = MaxCaptured
        /\ \A i \in 1 .. Len(b) : b[i] = a[Len(a) - MaxCaptured + i]
    <3>1. Len(a) > MaxCaptured
      BY <1>4, <1>5, <1>2 DEF MaxCaptured
    <3> QED BY <3>1, <1>4, LastOnes
  <2>2. \A i \in 1 .. Len(b) : b[i] = (n + 1) - Len(b) + i
    <3> HIDE DEF b
    <3>1. ASSUME NEW i \in 1 .. Len(b) PROVE b[i] = (n + 1) - Len(b) + i
      <4>0. Len(a) \in Nat /\ i \in 1 .. MaxCaptured /\ Len(b) = MaxCaptured
        BY <2>1, <1>4
      <4>1. Len(a) - MaxCaptured + i \in 1 .. Len(a)
        BY <4>0, <1>5 DEF MaxCaptured
      <4>2. a[Len(a) - MaxCaptured + i] = (n + 1) - Len(a) + (Len(a) - MaxCaptured + i)
        BY <4>1, <1>4
      <4>3. b[i] = a[Len(a) - MaxCaptured + i]
        BY <4>0, <2>1
      <4> QED BY <4>0, <4>2, <4>3, <1>2 DEF MaxCaptured
    <3> QED BY <3>1
  <2>3. Kept(a) = b
    BY <1>5 DEF Kept
  <2> HIDE DEF b
  <2>4. Drains(n + 1, w, Tail(p), b)
    BY <2>1, <2>2, <1>3, <1>4, <1>5, <1>2 DEF Drains, MaxCaptured
  <2>5. n + 1 \in 0 .. w
    BY <1>2, <1>3
  <2> QED BY <2>4, <2>3, <2>1, <2>5, <1>2 DEF Flow, a
<1>6. CASE ~(Len(a) > 2 * MaxCaptured)
  <2>1. Kept(a) = a
    BY <1>6 DEF Kept
  <2>2. Drains(n + 1, w, Tail(p), a)
    BY <1>3, <1>4, <1>6, <1>2 DEF Drains, MaxCaptured
  <2>3. n + 1 \in 0 .. w
    BY <1>2, <1>3
  <2> QED BY <2>1, <2>2, <2>3, <1>4, <1>2 DEF Flow, a
<1> QED BY <1>5, <1>6

(* What is told of a stream is the end of what was drained of it.          *)
LEMMA ToldIsTheEnd ==
  ASSUME PipesTypes, NEW s \in Stream, Flow(sftpChild.wrote[s], pipes[s], captures[s].kept)
  PROVE  /\ Snapshot(s) \in Seq(Nat)
         /\ \E n \in 0 .. sftpChild.wrote[s] :
              Snapshot(s) = LastPieces(n) /\ (pipes[s] = <<>> => n = sftpChild.wrote[s])
<1> DEFINE w == sftpChild.wrote[s]  p == pipes[s]  k == captures[s].kept
<1>1. w \in Nat /\ p \in Seq(Nat) /\ k \in Seq(Nat)
  BY DEF PipesTypes
<1>2. PICK n \in 0 .. w : Drains(n, w, p, k)
  BY DEF Flow
<1>3. Snapshot(s) = IF Len(k) > MaxCaptured THEN SubSeq(k, Len(k) - MaxCaptured + 1, Len(k)) ELSE k
  BY DEF Snapshot, Captured
<1>4. p = <<>> => n = w
  BY <1>1, <1>2 DEF Drains
<1> HIDE DEF w, p, k
<1>5. CASE Len(k) > MaxCaptured
  <2> DEFINE b == SubSeq(k, Len(k) - MaxCaptured + 1, Len(k))
  <2>1. /\ b \in Seq(Nat) /\ Len(b) = MaxCaptured
        /\ \A i \in 1 .. Len(b) : b[i] = k[Len(k) - MaxCaptured + i]
    BY <1>1, <1>5, LastOnes
  <2>2. \A i \in 1 .. Len(b) : b[i] = n - MaxCaptured + i
    <3> HIDE DEF b
    <3>1. ASSUME NEW i \in 1 .. Len(b) PROVE b[i] = n - MaxCaptured + i
      <4>1. Len(k) - MaxCaptured + i \in 1 .. Len(k) /\ Len(k) \in Nat
        BY <2>1, <1>1, <1>5 DEF MaxCaptured
      <4>2. k[Len(k) - MaxCaptured + i] = n - Len(k) + (Len(k) - MaxCaptured + i)
        BY <4>1, <1>2 DEF Drains
      <4> QED BY <4>1, <4>2, <2>1, <1>2 DEF MaxCaptured
    <3> QED BY <3>1
  <2>3. LastPieces(n) = [i \in 1 .. MaxCaptured |-> n - MaxCaptured + i]
    BY <1>1, <1>2, <1>5 DEF MaxCaptured, Drains, LastPieces
  <2>4. b = LastPieces(n)
    <3> HIDE DEF b
    <3> QED BY <2>1, <2>2, <2>3 DEF MaxCaptured
  <2> QED BY <2>1, <2>4, <1>3, <1>4, <1>5 DEF w, p
<1>6. CASE ~(Len(k) > MaxCaptured)
  <2>1. Len(k) \in Nat /\ Len(k) = IF n < MaxCaptured THEN n ELSE MaxCaptured
    <3>1. Len(k) \in Nat /\ n \in Nat /\ Len(k) <= n /\ (Len(k) < MaxCaptured => Len(k) = n)
      BY <1>1, <1>2 DEF Drains
    <3>2. \A a, b \in Nat : a <= b /\ (a < 2 => a = b) /\ ~(a > 2) => a = IF b < 2 THEN b ELSE 2
      OBVIOUS
    <3> QED BY <3>1, <3>2, <1>6, Zenon DEF MaxCaptured
  <2>3. LastPieces(n) = [i \in 1 .. Len(k) |-> n - Len(k) + i]
    BY <2>1 DEF LastPieces
  <2>2. k = LastPieces(n)
    BY <2>3, <2>1, <1>1, <1>2 DEF Drains
  <2> QED BY <2>2, <1>1, <1>3, <1>4, <1>6 DEF w, p
<1> QED BY <1>5, <1>6

LEMMA PipesInitial == Init => PipesInv
<1> SUFFICES ASSUME Init PROVE PipesInv
  OBVIOUS
<1>0. /\ sftpChild = [at |-> "none", wrote |-> [s \in Stream |-> 0]] /\ heirs = FALSE
      /\ pipes = [s \in Stream |-> <<>>] /\ captures = [s \in Stream |-> [kept |-> <<>>, done |-> FALSE]]
      /\ recorded = "running" /\ mutex = "free" /\ canceller = "none"
      /\ waiter = [at |-> "none", outcome |-> [kind |-> "none", out |-> <<>>, full |-> FALSE]]
  BY DEF Init, PipesInit, NoChild, NothingDrained, NotWaiting, Untold, Unwritten
<1>1. PipesTypes
  <2>1. waiter \in [at : {"none", "feeding", "polling", "collecting", "told"},
                   outcome : [kind : {"none", "unfed", "exited", "cancelled", "waiterror"},
                              out : Seq(Nat), full : BOOLEAN]]
    <3>1. <<>> \in Seq(Nat)
      OBVIOUS
    <3> QED BY <1>0, <3>1
  <2>2. pipes \in [Stream -> Seq(Nat)] /\ captures \in [Stream -> [kept : Seq(Nat), done : BOOLEAN]]
    BY <1>0
  <2>3. sftpChild \in [at : {"none", "running", "exited", "killed"}, wrote : [Stream -> Nat]]
    BY <1>0
  <2> QED BY <1>0, <2>1, <2>2, <2>3 DEF PipesTypes
<1>2. Flows
  BY <1>0, NothingFlows DEF Flows
<1>3. Recording
  BY <1>0 DEF Recording
<1>4. OutcomesAgree
  BY <1>0 DEF OutcomesAgree
<1> QED BY <1>1, <1>2, <1>3, <1>4 DEF PipesInv

LEMMA PipesMove ==
  ASSUME PipesInv, NEW s \in Stream, WritePiece(s) \/ Drain(s) \/ EndOfFile(s)
  PROVE  PipesInv'
<1> USE DEF PipesInv
<1>1. CASE WritePiece(s)
  <2> DEFINE w == sftpChild.wrote[s]
  <2>0. w \in Nat /\ sftpChild.at = "running" /\ pipes[s] \in Seq(Nat) /\ captures[s].kept \in Seq(Nat)
    BY <1>1 DEF WritePiece, Alive, PipesTypes
  <2>1. /\ sftpChild'.at = "running"
        /\ sftpChild'.wrote = [sftpChild.wrote EXCEPT ![s] = w + 1]
        /\ sftpChild' \in [at : {"none", "running", "exited", "killed"}, wrote : [Stream -> Nat]]
    <3>1. sftpChild' = [sftpChild EXCEPT !.wrote = [sftpChild.wrote EXCEPT ![s] = w + 1]]
      BY <1>1 DEF WritePiece
    <3>2. [sftpChild.wrote EXCEPT ![s] = w + 1] \in [Stream -> Nat]
      BY <2>0 DEF PipesTypes
    <3> QED BY <3>1, <3>2, <2>0 DEF PipesTypes
  <2>2. pipes' = [pipes EXCEPT ![s] = Append(pipes[s], w + 1)]
    BY <1>1, <2>1 DEF WritePiece, PipesTypes
  <2>3. UNCHANGED <<captures, heirs, recorded, mutex, waiter, canceller>>
    BY <1>1 DEF WritePiece
  <2>4. PipesTypes'
    BY <2>0, <2>1, <2>2, <2>3 DEF PipesTypes
  <2>5. ASSUME NEW t \in Stream
        PROVE  /\ Flow(sftpChild'.wrote[t], pipes'[t], captures'[t].kept)
               /\ captures'[t].done => pipes'[t] = <<>> /\ sftpChild'.at \in {"exited", "killed"}
    <3>1. CASE t = s
      BY <3>1, <2>0, <2>1, <2>2, <2>3, MoreFlows DEF Flows, PipesTypes
    <3>2. CASE t # s
      BY <3>2, <2>0, <2>1, <2>2, <2>3 DEF Flows, PipesTypes
    <3> QED BY <3>1, <3>2
  <2>6. Recording'
    BY <2>0, <2>1, <2>3 DEF Recording
  <2>7. OutcomesAgree'
    BY <2>0, <2>1, <2>3 DEF OutcomesAgree
  <2> QED BY <2>4, <2>5, <2>6, <2>7 DEF Flows
<1>2. CASE Drain(s)
  <2>0. /\ sftpChild.wrote[s] \in Nat /\ pipes[s] \in Seq(Nat) /\ pipes[s] # <<>>
        /\ captures[s].kept \in Seq(Nat)
    BY <1>2 DEF Drain, PipesTypes
  <2> DEFINE k == Kept(Append(captures[s].kept, Head(pipes[s])))
  <2>1. k \in Seq(Nat) /\ Flow(sftpChild.wrote[s], Tail(pipes[s]), k)
    BY <2>0, DrainedOne DEF Flows
  <2>2. /\ pipes' = [pipes EXCEPT ![s] = Tail(pipes[s])]
        /\ captures' = [captures EXCEPT ![s] = [captures[s] EXCEPT !.kept = k]]
        /\ UNCHANGED <<sftpChild, heirs, recorded, mutex, waiter, canceller>>
    BY <1>2 DEF Drain, childVars, PipesTypes
  <2> HIDE DEF k
  <2>3. PipesTypes'
    <3>1. pipes' \in [Stream -> Seq(Nat)]
      BY <2>0, <2>2 DEF PipesTypes
    <3>0. captures[s] \in [kept : Seq(Nat), done : BOOLEAN]
      BY Zenon DEF PipesTypes
    <3>2. [captures[s] EXCEPT !.kept = k] \in [kept : Seq(Nat), done : BOOLEAN]
      BY <2>1, <3>0
    <3>3. captures' \in [Stream -> [kept : Seq(Nat), done : BOOLEAN]]
      BY <3>2, <2>2 DEF PipesTypes
    <3>4. UNCHANGED <<sftpChild, heirs, recorded, mutex, waiter, canceller>>
      BY <2>2
    <3> QED BY <3>1, <3>3, <3>4 DEF PipesTypes
  <2>4. ASSUME NEW t \in Stream
        PROVE  /\ Flow(sftpChild'.wrote[t], pipes'[t], captures'[t].kept)
               /\ captures'[t].done => pipes'[t] = <<>> /\ sftpChild'.at \in {"exited", "killed"}
    <3>1. CASE t = s
      BY <3>1, <2>0, <2>1, <2>2 DEF Flows, PipesTypes
    <3>2. CASE t # s
      BY <3>2, <2>2 DEF Flows, PipesTypes
    <3> QED BY <3>1, <3>2
  <2>5. Recording' /\ OutcomesAgree'
    BY <2>2 DEF Recording, OutcomesAgree
  <2> QED BY <2>3, <2>4, <2>5 DEF Flows
<1>3. CASE EndOfFile(s)
  <2>1. /\ sftpChild.at \in {"exited", "killed"} /\ pipes[s] = <<>>
        /\ captures' = [captures EXCEPT ![s] = [captures[s] EXCEPT !.done = TRUE]]
        /\ UNCHANGED <<pipes, sftpChild, heirs, recorded, mutex, waiter, canceller>>
    BY <1>3 DEF EndOfFile, childVars, PipesTypes
  <2>2. PipesTypes'
    <3>0. captures[s] \in [kept : Seq(Nat), done : BOOLEAN]
      BY Zenon DEF PipesTypes
    <3>1. [captures[s] EXCEPT !.done = TRUE] \in [kept : Seq(Nat), done : BOOLEAN]
      BY <3>0
    <3>2. captures' \in [Stream -> [kept : Seq(Nat), done : BOOLEAN]]
      BY <3>1, <2>1 DEF PipesTypes
    <3>3. UNCHANGED <<pipes, sftpChild, heirs, recorded, mutex, waiter, canceller>>
      BY <2>1
    <3> QED BY <3>2, <3>3 DEF PipesTypes
  <2>3. Flows'
    BY <2>1 DEF Flows, PipesTypes
  <2>4. Recording' /\ OutcomesAgree'
    BY <2>1 DEF Recording, OutcomesAgree
  <2> QED BY <2>2, <2>3, <2>4
<1> QED BY <1>1, <1>2, <1>3

WaiterTypes ==
  [at : {"none", "feeding", "polling", "collecting", "told"},
   outcome : [kind : {"none", "unfed", "exited", "cancelled", "waiterror"}, out : Seq(Nat), full : BOOLEAN]]

LEMMA TellTypes ==
  /\ \A kind \in {"none", "unfed", "exited", "cancelled", "waiterror"} :
       [at |-> "told", outcome |-> [kind |-> kind, out |-> <<>>, full |-> FALSE]] \in WaiterTypes
  /\ \A w \in WaiterTypes, at \in {"feeding", "polling", "collecting"} : [w EXCEPT !.at = at] \in WaiterTypes
<1>1. <<>> \in Seq(Nat)
  OBVIOUS
<1>2. ASSUME NEW kind \in {"none", "unfed", "exited", "cancelled", "waiterror"}
      PROVE  [at |-> "told", outcome |-> [kind |-> kind, out |-> <<>>, full |-> FALSE]] \in WaiterTypes
  <2>1. [kind |-> kind, out |-> <<>>, full |-> FALSE]
          \in [kind : {"none", "unfed", "exited", "cancelled", "waiterror"}, out : Seq(Nat), full : BOOLEAN]
    BY <1>1
  <2> QED BY <2>1 DEF WaiterTypes
<1> QED BY <1>2 DEF WaiterTypes

(* The steps that leave the streams alone.                                 *)
LEMMA FlowsStay ==
  ASSUME PipesInv, UNCHANGED <<pipes, captures>>, sftpChild'.wrote = sftpChild.wrote,
         sftpChild.at \in {"exited", "killed"} => sftpChild'.at \in {"exited", "killed"}
  PROVE  Flows'
BY DEF Flows, PipesInv

LEMMA PipesTold ==
  ASSUME PipesInv, CollectOutput \/ GraceOver
  PROVE  PipesInv'
<1> USE DEF PipesInv
<1>1. /\ waiter' = [at |-> "told", outcome |-> [kind |-> "exited", out |-> Snapshot("stdout"), full |-> Drained]]
      /\ waiter.at = "collecting" /\ recorded = "exited" /\ sftpChild.at = "exited"
      /\ UNCHANGED <<pipes, captures, sftpChild, heirs, recorded, mutex, canceller>>
  BY DEF CollectOutput, GraceOver, TellExited, TellWaiter, pieceVars, childVars, Recording
<1>2. "stdout" \in Stream /\ Drained \in BOOLEAN /\ (Drained => captures["stdout"].done)
  BY DEF Stream, Drained, PipesTypes, Captured
<1>3. PICK n \in 0 .. sftpChild.wrote["stdout"] :
        Snapshot("stdout") = LastPieces(n) /\ (pipes["stdout"] = <<>> => n = sftpChild.wrote["stdout"])
  BY <1>2, ToldIsTheEnd DEF Flows
<1>4. Snapshot("stdout") \in Seq(Nat)
  BY <1>2, ToldIsTheEnd DEF Flows
<1>5. PipesTypes'
  BY <1>1, <1>2, <1>4 DEF PipesTypes
<1>6. Flows'
  BY <1>1, FlowsStay
<1>7. Recording'
  BY <1>1 DEF Recording
<1>8. OutcomesAgree'
  <2>1. Drained => n = sftpChild.wrote["stdout"]
    BY <1>2, <1>3 DEF Flows
  <2>2. \E m \in 0 .. sftpChild'.wrote["stdout"] :
          waiter'.outcome.out = LastPieces(m) /\ (waiter'.outcome.full => m = sftpChild'.wrote["stdout"])
    BY <1>1, <1>3, <2>1
  <2> QED BY <2>2, <1>1 DEF OutcomesAgree, Recording
<1> QED BY <1>5, <1>6, <1>7, <1>8

LEMMA PipesControl ==
  ASSUME PipesInv,
         \/ SpawnChild \/ Feed \/ NotFed \/ Poll \/ Unobserved \/ Cancel \/ KillChild
         \/ ExitChild \/ HeirEnds
  PROVE  PipesInv'
<1> USE DEF PipesInv
<1>1. CASE SpawnChild
  <2>1. /\ sftpChild.at = "none" /\ sftpChild' = [sftpChild EXCEPT !.at = "running"]
        /\ waiter' = [waiter EXCEPT !.at = "feeding"]
        /\ UNCHANGED <<pipes, captures, heirs, recorded, mutex, canceller>>
    BY <1>1 DEF SpawnChild, pieceVars
  <2>2. PipesTypes'
    BY <2>1 DEF PipesTypes
  <2>3. Flows'
    BY <2>1, FlowsStay DEF PipesTypes
  <2>4. Recording' /\ OutcomesAgree'
    BY <2>1 DEF Recording, OutcomesAgree, PipesTypes
  <2> QED BY <2>2, <2>3, <2>4
<1>2. CASE Feed
  <2>1. /\ waiter.at = "feeding" /\ waiter' = [waiter EXCEPT !.at = "polling"]
        /\ UNCHANGED <<pipes, captures, sftpChild, heirs, recorded, mutex, canceller>>
    BY <1>2 DEF Feed, pieceVars, childVars
  <2>2. PipesTypes'
    BY <2>1 DEF PipesTypes
  <2>3. Flows'
    BY <2>1, FlowsStay
  <2>4. Recording' /\ OutcomesAgree'
    BY <2>1 DEF Recording, OutcomesAgree, PipesTypes
  <2> QED BY <2>2, <2>3, <2>4
<1>3. CASE NotFed \/ Unobserved
  <2>1. /\ waiter.at \in {"feeding", "polling"} /\ mutex = "free" /\ recorded = "running"
        /\ sftpChild' = IF sftpChild.at = "running" THEN [sftpChild EXCEPT !.at = "killed"] ELSE sftpChild
        /\ \/ /\ recorded' = IF sftpChild.at = "running" THEN "cancelled" ELSE "exited"
              /\ waiter' = [at |-> "told", outcome |-> [kind |-> "unfed", out |-> <<>>, full |-> FALSE]]
              /\ canceller = "none"
           \/ /\ recorded' = "cancelled"
              /\ waiter' = [at |-> "told", outcome |-> [kind |-> "waiterror", out |-> <<>>, full |-> FALSE]]
        /\ UNCHANGED <<pipes, captures, heirs, mutex, canceller>>
    BY <1>3 DEF NotFed, Unobserved, Kill, Alive, TellEnd, TellWaiter, Untold, pieceVars, Recording, PipesTypes
  <2>2. sftpChild' \in [at : {"none", "running", "exited", "killed"}, wrote : [Stream -> Nat]]
    BY <2>1 DEF PipesTypes
  <2>3. PipesTypes'
    <3>1. waiter' \in WaiterTypes
      BY <2>1, TellTypes
    <3>2. recorded' \in {"running", "exited", "cancelled"}
      BY <2>1
    <3> QED BY <2>1, <2>2, <3>1, <3>2 DEF PipesTypes, WaiterTypes
  <2>4. /\ sftpChild'.wrote = sftpChild.wrote
        /\ sftpChild'.at = IF sftpChild.at = "running" THEN "killed" ELSE sftpChild.at
    BY <2>1 DEF PipesTypes
  <2>5. sftpChild.at \in {"running", "exited"}
    BY <2>1 DEF Recording, PipesTypes
  <2>6. Flows'
    BY <2>1, <2>4, FlowsStay
  <2>7. Recording'
    BY <2>1, <2>4, <2>5 DEF Recording
  <2>8. OutcomesAgree'
    BY <2>1, <2>4, <2>5 DEF Recording, OutcomesAgree
  <2> QED BY <2>3, <2>6, <2>7, <2>8
<1>4. CASE Poll
  <2>1. /\ waiter.at = "polling" /\ mutex = "free"
        /\ \/ /\ recorded = "cancelled" /\ recorded' = recorded
              /\ waiter' = [at |-> "told", outcome |-> [kind |-> "cancelled", out |-> <<>>, full |-> FALSE]]
           \/ /\ recorded = "exited" \/ sftpChild.at # "running"
              /\ recorded # "cancelled" /\ recorded' = "exited"
              /\ waiter' = [waiter EXCEPT !.at = "collecting"]
        /\ UNCHANGED <<pipes, captures, sftpChild, heirs, mutex, canceller>>
    BY <1>4 DEF Poll, Alive, TellEnd, TellWaiter, Untold, pieceVars, childVars
  <2>2. PipesTypes'
    <3>1. waiter' \in WaiterTypes
      <4>1. waiter \in WaiterTypes
        BY DEF PipesTypes, WaiterTypes
      <4> QED BY <2>1, <4>1, TellTypes
    <3>2. recorded' \in {"running", "exited", "cancelled"}
      BY <2>1
    <3> QED BY <2>1, <3>1, <3>2 DEF PipesTypes, WaiterTypes
  <2>3. Flows'
    BY <2>1, FlowsStay
  <2>4. waiter.outcome.kind = "none" /\ sftpChild.at \in {"running", "exited", "killed"}
    BY <2>1 DEF Recording, PipesTypes
  <2>5. \/ /\ recorded = "cancelled" /\ recorded' = recorded
           /\ waiter'.at = "told" /\ waiter'.outcome.kind = "cancelled"
        \/ /\ recorded' = "exited" /\ sftpChild.at = "exited" /\ recorded # "cancelled"
           /\ waiter'.at = "collecting" /\ waiter'.outcome = waiter.outcome
    BY <2>1, <2>4 DEF Recording, PipesTypes
  <2>6. Recording'
    BY <2>1, <2>4, <2>5 DEF Recording
  <2>7. OutcomesAgree'
    BY <2>1, <2>4, <2>5 DEF Recording, OutcomesAgree
  <2> QED BY <2>2, <2>3, <2>6, <2>7
<1>5. CASE Cancel
  <2>1. /\ waiter.at \in {"polling", "collecting", "told"} /\ waiter.outcome.kind # "unfed"
        /\ mutex = "free" /\ canceller = "none"
        /\ \/ recorded = "cancelled" /\ canceller' = "cancelled" /\ UNCHANGED <<recorded, mutex>>
           \/ recorded = "exited" /\ canceller' = "finished" /\ UNCHANGED <<recorded, mutex>>
           \/ /\ recorded = "running" /\ sftpChild.at # "running" /\ canceller' = "finished"
              /\ recorded' = "exited" /\ UNCHANGED mutex
           \/ /\ recorded = "running" /\ sftpChild.at = "running" /\ canceller' = "killing"
              /\ mutex' = "cancel" /\ UNCHANGED recorded
        /\ UNCHANGED <<pipes, captures, sftpChild, heirs, waiter>>
    BY <1>5 DEF Cancel, Alive, pieceVars, childVars, PipesTypes
  <2>2. PipesTypes'
    BY <2>1 DEF PipesTypes
  <2>3. Flows'
    BY <2>1, FlowsStay
  <2>4. Recording' /\ OutcomesAgree'
    BY <2>1 DEF Recording, OutcomesAgree, PipesTypes
  <2> QED BY <2>2, <2>3, <2>4
<1>6. CASE KillChild
  <2>1. /\ canceller = "killing" /\ waiter.at = "polling" /\ recorded = "running"
        /\ sftpChild' = IF sftpChild.at = "running" THEN [sftpChild EXCEPT !.at = "killed"] ELSE sftpChild
        /\ recorded' = "cancelled" /\ mutex' = "free" /\ canceller' = "cancelled"
        /\ UNCHANGED <<pipes, captures, heirs, waiter>>
    BY <1>6 DEF KillChild, Kill, Alive, pieceVars, Recording
  <2>2. sftpChild' \in [at : {"none", "running", "exited", "killed"}, wrote : [Stream -> Nat]]
    BY <2>1 DEF PipesTypes
  <2>3. PipesTypes'
    BY <2>1, <2>2 DEF PipesTypes
  <2>4. /\ sftpChild'.wrote = sftpChild.wrote
        /\ sftpChild'.at = IF sftpChild.at = "running" THEN "killed" ELSE sftpChild.at
        /\ sftpChild.at \in {"running", "exited"}
    BY <2>1 DEF PipesTypes, Recording
  <2>5. Flows'
    BY <2>1, <2>4, FlowsStay
  <2>6. Recording' /\ OutcomesAgree'
    BY <2>1, <2>4 DEF Recording, OutcomesAgree
  <2> QED BY <2>3, <2>5, <2>6
<1>7. CASE ExitChild
  <2>1. /\ sftpChild.at = "running" /\ sftpChild' = [sftpChild EXCEPT !.at = "exited"] /\ heirs' \in BOOLEAN
        /\ UNCHANGED <<pipes, captures, recorded, mutex, waiter, canceller>>
    BY <1>7 DEF ExitChild, Alive, pieceVars
  <2>2. PipesTypes'
    BY <2>1 DEF PipesTypes
  <2>3. sftpChild'.wrote = sftpChild.wrote /\ sftpChild'.at = "exited"
    BY <2>1 DEF PipesTypes
  <2>4. Flows'
    BY <2>1, <2>3, FlowsStay
  <2>5. Recording' /\ OutcomesAgree'
    BY <2>1, <2>3 DEF Recording, OutcomesAgree
  <2> QED BY <2>2, <2>4, <2>5
<1>8. CASE HeirEnds
  <2>1. heirs' = FALSE /\ UNCHANGED <<pipes, captures, sftpChild, recorded, mutex, waiter, canceller>>
    BY <1>8 DEF HeirEnds, pieceVars
  <2> QED BY <2>1, FlowsStay DEF PipesTypes, Recording, OutcomesAgree
<1> QED BY <1>1, <1>2, <1>3, <1>4, <1>5, <1>6, <1>7, <1>8

LEMMA PipesRenew == ASSUME PipesInv, NextChild PROVE PipesInv'
<1>0. /\ sftpChild' = [at |-> "none", wrote |-> [s \in Stream |-> 0]] /\ heirs' = FALSE
      /\ pipes' = [s \in Stream |-> <<>>] /\ captures' = [s \in Stream |-> [kept |-> <<>>, done |-> FALSE]]
      /\ recorded' = "running" /\ mutex' = mutex /\ canceller' = "none" /\ canceller # "killing"
      /\ waiter' = [at |-> "none", outcome |-> [kind |-> "none", out |-> <<>>, full |-> FALSE]]
  BY DEF NextChild, NoChild, NothingDrained, NotWaiting, Untold, Unwritten
<1>1. PipesTypes'
  <2>1. waiter' \in [at : {"none", "feeding", "polling", "collecting", "told"},
                    outcome : [kind : {"none", "unfed", "exited", "cancelled", "waiterror"},
                               out : Seq(Nat), full : BOOLEAN]]
    <3>1. <<>> \in Seq(Nat)
      OBVIOUS
    <3> QED BY <1>0, <3>1
  <2>2. pipes' \in [Stream -> Seq(Nat)] /\ captures' \in [Stream -> [kept : Seq(Nat), done : BOOLEAN]]
    BY <1>0
  <2>3. sftpChild' \in [at : {"none", "running", "exited", "killed"}, wrote : [Stream -> Nat]]
    BY <1>0
  <2> QED BY <1>0, <2>1, <2>2, <2>3 DEF PipesTypes, PipesInv
<1>2. Flows'
  BY <1>0, NothingFlows DEF Flows
<1>3. Recording'
  BY <1>0 DEF Recording, PipesInv, PipesTypes
<1>4. OutcomesAgree'
  BY <1>0 DEF OutcomesAgree
<1> QED BY <1>1, <1>2, <1>3, <1>4 DEF PipesInv

LEMMA PipesStill == ASSUME PipesInv, UNCHANGED pipeVars PROVE PipesInv'
BY DEF pipeVars, pieceVars, childVars, PipesInv, PipesTypes, Flows, Recording, OutcomesAgree

LEMMA PipesInductive == PipesInv /\ [Next]_vars => PipesInv'
<1> SUFFICES ASSUME PipesInv, [Next]_vars PROVE PipesInv'
  OBVIOUS
<1>1. CASE PipesNext
  BY <1>1, PipesMove, PipesTold, PipesControl, PipesRenew DEF PipesNext, PipeStep
<1>2. CASE UNCHANGED pipeVars
  BY <1>2, PipesStill
<1> QED BY <1>1, <1>2, SignOutStill DEF Next, vars, shellVars

(* PipesInv: what is told of an sftp child agrees with what is recorded of *)
(* it under the mutex and with what its pipes carried.                     *)
THEOREM PipesInvariant == Spec => []PipesInv
BY SpecSteps, PipesInitial, PipesInductive, PTL

------------------------------------------------------------------------------
(* KeyAgents                                                               *)

(* Nothing is left of what is over, and no child of what is not yet        *)
(* prepared.                                                               *)
Tidy(j) ==
  /\ j.at \in {"idle", "ended"} => j.dir = "none" /\ j.agent = "none" /\ j.asked = "no" /\ j.child = "none"
  /\ j.at \in Preparing => j.child = "none"
TunnelRuns(j) == j.kind = "tunnel" /\ j.at = "running"
OneTunnel(js) == \A o, p \in Op : TunnelRuns(js[o]) /\ TunnelRuns(js[p]) => o = p

AgentsInv ==
  /\ job \in [Op -> Job] /\ app \in {"up", "down"} /\ platform \in {"unix", "windows"}
  /\ \A o \in Op : Tidy(job[o])
  /\ OneTunnel(job)

LEMMA AgentsInitial == Init => AgentsInv
<1> SUFFICES ASSUME Init PROVE AgentsInv
  OBVIOUS
<1>1. /\ job = [o \in Op |-> NoJob] /\ app = "up" /\ platform \in {"unix", "windows"}
  BY DEF Init, AgentsInit
<1>2. NoJob \in Job /\ Tidy(NoJob) /\ ~TunnelRuns(NoJob)
  BY DEF NoJob, Job, JobKind, Preparing, Tidy, TunnelRuns
<1> QED BY <1>1, <1>2 DEF AgentsInv, OneTunnel

LEMMA OneBecomes ==
  ASSUME AgentsInv, NEW o \in Op, NEW j \in Job, Tidy(j), TunnelRuns(j) => TunnelRuns(job[o]),
         Become(o, j), UNCHANGED <<app, platform>>
  PROVE  AgentsInv'
<1>1. /\ job' \in [Op -> Job] /\ job'[o] = j
      /\ \A p \in Op : p # o => job'[p] = job[p]
  BY DEF Become, AgentsInv
<1>2. \A p \in Op : Tidy(job'[p])
  BY <1>1 DEF AgentsInv
<1>3. OneTunnel(job')
  BY <1>1 DEF AgentsInv, OneTunnel
<1> QED BY <1>1, <1>2, <1>3 DEF AgentsInv

(* All of them change at once, and no tunnel begins to run.                *)
LEMMA AllBecome ==
  ASSUME AgentsInv, job' \in [Op -> Job], app' \in {"up", "down"}, UNCHANGED platform,
         \A o \in Op : Tidy(job'[o]) /\ (TunnelRuns(job'[o]) => TunnelRuns(job[o]))
  PROVE  AgentsInv'
BY DEF AgentsInv, OneTunnel

LEMMA OverIsTidy ==
  ASSUME NEW j \in Job, j.child = "none"
  PROVE  Over(j) \in Job /\ Tidy(Over(j)) /\ ~TunnelRuns(Over(j))
<1> DEFINE p == Past(j, "ended")
<1>1. p \in Job /\ p.at = "ended" /\ p.kind = "batch" /\ p.asked = "no" /\ p.child = "none"
  BY DEF Past, Job, JobKind
<1>2. Over(j) = [p EXCEPT !.agent = "none", !.dir = "none"]
  BY DEF Over
<1> HIDE DEF p
<1>3. /\ Over(j) \in Job /\ Over(j).at = "ended" /\ Over(j).kind = "batch" /\ Over(j).asked = "no"
      /\ Over(j).child = "none" /\ Over(j).agent = "none" /\ Over(j).dir = "none"
  BY <1>1, <1>2 DEF Job
<1> QED BY <1>3 DEF Preparing, Tidy, TunnelRuns

LEMMA KilledIsOne == ASSUME NEW j \in Job PROVE Killed(j) \in Job /\ Killed(j).child = "none" /\ Killed(j).at = j.at /\ Killed(j).kind = j.kind
BY DEF Killed, Job

LEMMA StepsOfOne ==
  ASSUME AgentsInv, NEW o \in Op,
         \/ NoIdentity(o) \/ WriteKeyFile(o) \/ StartAgent(o) \/ AddKey(o) \/ AnswerAskpass(o)
         \/ KeyAdded(o) \/ ListKey(o) \/ Fail(o) \/ ChildEnds(o) \/ SeeEnd(o) \/ CloseJob(o)
         \/ ForgetKey(o) \/ GrowOld(o)
  PROVE  AgentsInv'
<1> DEFINE j == job[o]
<1>0. j \in Job /\ Tidy(j)
  BY DEF AgentsInv
<1>1. CASE \/ NoIdentity(o) \/ WriteKeyFile(o) \/ StartAgent(o) \/ AddKey(o) \/ KeyAdded(o) \/ ListKey(o)
  <2>1. UNCHANGED <<app, platform>> /\ j.at \in Preparing
    BY <1>1 DEF NoIdentity, WriteKeyFile, StartAgent, AddKey, KeyAdded, ListKey, Still, At, Preparing
  <2>2. \E k \in Job : k.at \in Preparing /\ k.child = j.child /\ Become(o, k)
    <3> DEFINE Next1(k) == k.at \in Preparing /\ k.child = j.child /\ Become(o, k)
    <3>1. CASE NoIdentity(o)
      <4>1. [j EXCEPT !.at = "prepared"] \in Job /\ Next1([j EXCEPT !.at = "prepared"])
        BY <1>0, <3>1 DEF NoIdentity, Job, Preparing
      <4> QED BY <4>1
    <3>2. CASE WriteKeyFile(o)
      <4>1. /\ [j EXCEPT !.at = "prepared", !.agent = "keyed"] \in Job
            /\ Next1([j EXCEPT !.at = "prepared", !.agent = "keyed"])
        BY <1>0, <3>2 DEF WriteKeyFile, Job, Preparing
      <4> QED BY <4>1
    <3>3. CASE StartAgent(o)
      <4>1. /\ [j EXCEPT !.at = "agent", !.agent = "empty"] \in Job
            /\ Next1([j EXCEPT !.at = "agent", !.agent = "empty"])
        BY <1>0, <3>3 DEF StartAgent, Job, Preparing
      <4> QED BY <4>1
    <3>4. CASE AddKey(o)
      <4> DEFINE a == IF j.key = "locked" THEN "yes" ELSE "no"
      <4>1. a \in {"no", "yes", "answered"}
        OBVIOUS
      <4>2. Become(o, [j EXCEPT !.at = "adding", !.asked = a])
        BY <3>4 DEF AddKey
      <4> HIDE DEF a
      <4>3. /\ [j EXCEPT !.at = "adding", !.asked = a] \in Job
            /\ Next1([j EXCEPT !.at = "adding", !.asked = a])
        BY <1>0, <4>1, <4>2 DEF Job, Preparing
      <4> QED BY <4>3
    <3>5. CASE KeyAdded(o)
      <4>1. /\ [j EXCEPT !.at = "listing", !.agent = "keyed", !.asked = "no"] \in Job
            /\ Next1([j EXCEPT !.at = "listing", !.agent = "keyed", !.asked = "no"])
        BY <1>0, <3>5 DEF KeyAdded, Job, Preparing
      <4> QED BY <4>1
    <3>6. CASE ListKey(o)
      <4>1. [j EXCEPT !.at = "prepared"] \in Job /\ Next1([j EXCEPT !.at = "prepared"])
        BY <1>0, <3>6 DEF ListKey, Job, Preparing
      <4> QED BY <4>1
    <3> QED BY <1>1, <3>1, <3>2, <3>3, <3>4, <3>5, <3>6
  <2>3. PICK k \in Job : k.at \in Preparing /\ k.child = j.child /\ Become(o, k)
    BY <2>2
  <2>4. Tidy(k) /\ ~TunnelRuns(k)
    BY <1>0, <2>1, <2>3 DEF Tidy, TunnelRuns, Preparing
  <2> QED BY <2>1, <2>3, <2>4, OneBecomes
<1>2. CASE AnswerAskpass(o)
  <2> DEFINE k == [j EXCEPT !.asked = "answered"]
  <2>1. k \in Job /\ Tidy(k) /\ (TunnelRuns(k) => TunnelRuns(j))
    BY <1>0, <1>2 DEF AnswerAskpass, Job, Tidy, TunnelRuns
  <2> QED BY <1>2, <2>1, OneBecomes DEF AnswerAskpass, Still
<1>3. CASE Fail(o)
  <2>1. j.child = "none"
    BY <1>0, <1>3 DEF Fail, At, Tidy
  <2> QED BY <1>0, <1>3, <2>1, OverIsTidy, OneBecomes DEF Fail, Still
<1>4. CASE ChildEnds(o)
  <2>1. Killed(j) \in Job /\ Tidy(Killed(j)) /\ (TunnelRuns(Killed(j)) => TunnelRuns(j))
    BY <1>0 DEF Killed, Job, Tidy, TunnelRuns
  <2> QED BY <1>4, <2>1, OneBecomes DEF ChildEnds, Still
<1>5. CASE SeeEnd(o)
  BY <1>0, <1>5, OverIsTidy, OneBecomes DEF SeeEnd, Still
<1>6. CASE CloseJob(o)
  <2>1. Killed(j) \in Job /\ Tidy(Killed(j)) /\ (TunnelRuns(Killed(j)) => TunnelRuns(j))
    BY <1>0 DEF Killed, Job, Tidy, TunnelRuns
  <2>2. CASE j.kind = "transfer"
    BY <1>6, <2>1, <2>2, OneBecomes DEF CloseJob, Still
  <2>3. CASE j.kind # "transfer"
    BY <1>0, <1>6, <2>3, KilledIsOne, OverIsTidy, OneBecomes DEF CloseJob, Still
  <2> QED BY <2>2, <2>3
<1>7. CASE ForgetKey(o)
  <2> DEFINE a == IF platform = "unix" THEN "empty" ELSE "none"  k == [j EXCEPT !.agent = a]
  <2>1. a \in {"none", "empty", "keyed"}
    OBVIOUS
  <2>2. Become(o, k) /\ j.agent = "keyed" /\ UNCHANGED <<app, platform>>
    BY <1>7 DEF ForgetKey, Still
  <2> HIDE DEF a
  <2>3. k \in Job /\ Tidy(k) /\ (TunnelRuns(k) => TunnelRuns(j))
    BY <1>0, <2>1, <2>2 DEF Job, Tidy, TunnelRuns
  <2> QED BY <2>2, <2>3, OneBecomes
<1>8. CASE GrowOld(o)
  <2> DEFINE k == [j EXCEPT !.dir = "old"]
  <2>1. k \in Job /\ Tidy(k) /\ (TunnelRuns(k) => TunnelRuns(j))
    BY <1>0, <1>8 DEF GrowOld, Job, Tidy, TunnelRuns
  <2> QED BY <1>8, <2>1, OneBecomes DEF GrowOld, Still
<1> QED BY <1>1, <1>2, <1>3, <1>4, <1>5, <1>6, <1>7, <1>8

LEMMA PrepareKeeps ==
  ASSUME AgentsInv, NEW kind \in JobKind, NEW key \in {"none", "plain", "locked"}, Prepare(kind, key)
  PROVE  AgentsInv'
<1> DEFINE k == [NoJob EXCEPT !.kind = kind, !.key = key, !.at = "directory", !.dir = "new"]
<1>1. k \in Job /\ Tidy(k) /\ ~TunnelRuns(k)
  BY DEF NoJob, Job, JobKind, Preparing, Tidy, TunnelRuns
<1>2. Become(ops', k) /\ UNCHANGED <<app, platform>>
  BY DEF Prepare
<1> HIDE DEF k
<1>3. CASE ops' \in Op
  BY <1>1, <1>2, <1>3, OneBecomes
<1>4. CASE ops' \notin Op
  <2>1. job' = job
    BY <1>2, <1>4 DEF Become, AgentsInv
  <2> QED BY <2>1, <1>2 DEF AgentsInv
<1> QED BY <1>3, <1>4

LEMMA SpawnKeeps == ASSUME AgentsInv, NEW o \in Op, Spawn(o) PROVE AgentsInv'
<1>1. job[o] \in Job /\ job[o].at = "prepared" /\ UNCHANGED <<app, platform>>
  BY DEF Spawn, At, Still, AgentsInv
<1> DEFINE k == [job[o] EXCEPT !.at = "running", !.child = "running"]
<1>2. k \in Job /\ Tidy(k) /\ k.kind = job[o].kind
  BY <1>1 DEF Job, Tidy, Preparing
<1>3. /\ job' = [p \in Op |-> IF p = o THEN k ELSE IF Replaced(o, p) THEN Over(Killed(job[p])) ELSE job[p]]
  BY DEF Spawn
<1> HIDE DEF k
<1>4. \A p \in Op : /\ Over(Killed(job[p])) \in Job /\ Tidy(Over(Killed(job[p])))
                    /\ ~TunnelRuns(Over(Killed(job[p])))
  BY KilledIsOne, OverIsTidy DEF AgentsInv
<1>5. job' \in [Op -> Job] /\ \A p \in Op : Tidy(job'[p])
  BY <1>2, <1>3, <1>4 DEF AgentsInv
<1>6. \A p \in Op : p # o /\ TunnelRuns(job'[p]) => TunnelRuns(job[p]) /\ ~Replaced(o, p)
  BY <1>3, <1>4
<1>7. \A p \in Op : p # o /\ TunnelRuns(job'[p]) => ~TunnelRuns(job'[o])
  <2>1. job'[o] = k
    BY <1>3
  <2> QED BY <2>1, <1>2, <1>6 DEF Replaced, TunnelRuns, At
<1>8. OneTunnel(job')
  BY <1>6, <1>7 DEF OneTunnel, AgentsInv
<1> QED BY <1>1, <1>5, <1>8 DEF AgentsInv

LEMMA LostIsTidy ==
  ASSUME NEW j \in Job
  PROVE  /\ \A k \in Abandoned(j) : k \in Job /\ Tidy(k) /\ ~TunnelRuns(k)
         /\ Tidy(j) => \A k \in Died(j) : k \in Job /\ Tidy(k) /\ ~TunnelRuns(k)
<1> DEFINE a == Past(j, "lost")  b == [a EXCEPT !.agent = "keyed"]
<1>1. a \in Job /\ a.at = "lost" /\ a.kind = "batch"
  BY DEF Past, Job, JobKind
<1>2. b \in Job /\ b.at = "lost" /\ b.kind = "batch"
  <2> HIDE DEF a
  <2> QED BY <1>1 DEF Job
<1>3. \A k \in Abandoned(j) : k \in {a, b}
  BY DEF Abandoned
<1> HIDE DEF a, b
<1>4. \A k \in Abandoned(j) : k \in Job /\ Tidy(k) /\ ~TunnelRuns(k)
  BY <1>1, <1>2, <1>3 DEF Tidy, TunnelRuns, Preparing
<1> QED BY <1>4 DEF Died, TunnelRuns

LEMMA SweptIsTidy ==
  ASSUME NEW j \in Job, Tidy(j)
  PROVE  Swept(j) \in Job /\ Tidy(Swept(j)) /\ (TunnelRuns(Swept(j)) => TunnelRuns(j))
<1> DEFINE a == IF platform = "windows" THEN "none" ELSE j.agent
<1>1. a \in {"none", "empty", "keyed"} /\ (j.agent = "none" => a = "none")
  BY DEF Job
<1>2. Swept(j) = IF j.dir = "old" THEN [j EXCEPT !.dir = "none", !.agent = a] ELSE j
  BY DEF Swept
<1> HIDE DEF a
<1>3. CASE j.dir = "old"
  <2>1. Swept(j) = [j EXCEPT !.dir = "none", !.agent = a]
    BY <1>2, <1>3
  <2>2. /\ Swept(j) \in Job /\ Swept(j).dir = "none" /\ Swept(j).agent = a /\ Swept(j).at = j.at
        /\ Swept(j).kind = j.kind /\ Swept(j).asked = j.asked /\ Swept(j).child = j.child
    BY <1>1, <2>1 DEF Job
  <2> QED BY <1>1, <2>2 DEF Tidy, TunnelRuns
<1>4. CASE j.dir # "old"
  BY <1>2, <1>4
<1> QED BY <1>3, <1>4

LEMMA AppKeeps == ASSUME AgentsInv, SweepStaleDirs \/ StartApp \/ Crash \/ Quit PROVE AgentsInv'
<1>0. \A o \in Op : job[o] \in Job /\ Tidy(job[o])
  BY DEF AgentsInv
<1>1. CASE SweepStaleDirs \/ StartApp
  <2>1. job' = [o \in Op |-> Swept(job[o])] /\ app' \in {"up", "down"} /\ UNCHANGED platform
    BY <1>1 DEF SweepStaleDirs, StartApp, Still, AgentsInv
  <2> QED BY <1>0, <2>1, SweptIsTidy, AllBecome
<1>2. CASE Crash
  <2>1. app' = "down" /\ UNCHANGED platform /\ DOMAIN job' = Op /\ job' = [o \in Op |-> job'[o]]
        /\ \A o \in Op : job'[o] \in Died(job[o])
    BY <1>2 DEF Crash
  <2>2. \A o \in Op : job'[o] \in Job /\ Tidy(job'[o]) /\ ~TunnelRuns(job'[o])
    BY <1>0, <2>1, LostIsTidy
  <2>3. job' \in [Op -> Job]
    BY <2>1, <2>2
  <2> QED BY <2>1, <2>2, <2>3, AllBecome
<1>3. CASE Quit
  <2>1. app' = "down" /\ UNCHANGED platform /\ DOMAIN job' = Op /\ job' = [o \in Op |-> job'[o]]
        /\ \A o \in Op : job'[o] \in Finish(job[o])
    BY <1>3 DEF Quit
  <2>2. ASSUME NEW o \in Op
        PROVE  job'[o] \in Job /\ Tidy(job'[o]) /\ ~TunnelRuns(job'[o])
    <3>1. CASE job[o].at # "running"
      BY <3>1, <1>0, <2>1, LostIsTidy DEF Finish
    <3>2. CASE job[o].at = "running"
      <4>1. Killed(job[o]) \in Job /\ Killed(job[o]).child = "none"
        BY <1>0, KilledIsOne
      <4>2. job'[o] = Over(Killed(job[o])) \/ job'[o] \in Abandoned(Killed(job[o]))
        BY <2>1, <3>2 DEF Finish
      <4> QED BY <4>1, <4>2, OverIsTidy, LostIsTidy
    <3> QED BY <3>1, <3>2
  <2>3. job' \in [Op -> Job]
    BY <2>1, <2>2
  <2> QED BY <2>1, <2>2, <2>3, AllBecome
<1> QED BY <1>1, <1>2, <1>3

LEMMA AgentsInductive == AgentsInv /\ [Next]_vars => AgentsInv'
<1> SUFFICES ASSUME AgentsInv, [Next]_vars PROVE AgentsInv'
  OBVIOUS
<1>1. CASE AgentsNext
  BY <1>1, StepsOfOne, PrepareKeeps, SpawnKeeps, AppKeeps DEF AgentsNext, PrepareStep
<1>2. CASE UNCHANGED agentVars
  BY <1>2 DEF agentVars, AgentsInv, OneTunnel
<1> QED BY <1>1, <1>2, SignOutStill DEF Next, vars, shellVars

(* The records of each operation agree: what was prepared for it, its      *)
(* directory, its agent, the question for its passphrase and its child, is *)
(* gone when it has ended, however it did; and a tunnel that was opened    *)
(* anew runs once (ssh_session.rs, ssh_tunnel.rs, shutdown in lib.rs).     *)
THEOREM AgentsInvariant == Spec => []AgentsInv
BY SpecSteps, AgentsInitial, AgentsInductive, PTL

LEMMA NothingLeft == AgentsInv => NothingIsLeftBehind
<1> SUFFICES ASSUME AgentsInv PROVE NothingIsLeftBehind
  OBVIOUS
<1> DEFINE T == {o \in Op : job[o].kind = "tunnel" /\ At(o, {"running"})}
<1>1. \A o, p \in T : o = p
  BY DEF AgentsInv, OneTunnel, TunnelRuns, At
<1>2. Cardinality(T) <= 1
  <2>1. CASE T = {}
    BY <2>1, FS_EmptySet
  <2>2. CASE T # {}
    <3>1. \E o : T = {o}
      BY <2>2, <1>1
    <3>2. PICK o : T = {o}
      BY <3>1
    <3> HIDE DEF T
    <3> QED BY <3>2, FS_Singleton
  <2> QED BY <2>1, <2>2
<1>3. \A o \in Op : At(o, {"idle", "ended"}) =>
        /\ job[o].dir = "none" /\ job[o].agent = "none"
        /\ job[o].asked = "no" /\ job[o].child = "none"
  BY DEF AgentsInv, Tidy, At
<1> QED BY <1>2, <1>3 DEF NothingIsLeftBehind

(* The parts that send nothing to the main thread of the shell leave what  *)
(* all parts share as it is.                                               *)
LEMMA OthersQuiet ==
  ASSUME \/ RecordsNext \/ KeysNext \/ AgentsNext \/ PanesNext \/ AssistantNext \/ WebNext
         \/ ListingsNext \/ AiNext \/ PipesNext
  PROVE  UNCHANGED <<shared, ipc>>
<1>1. ASSUME RecordsNext PROVE UNCHANGED <<shared, ipc>>
  <2>1. ASSUME NEW t, SaveRecord(t) \/ DeleteRecord(t) PROVE UNCHANGED <<shared, ipc>>
    BY <2>1 DEF SaveRecord, DeleteRecord, Capture
  <2>2. SaveHostKeys => UNCHANGED <<shared, ipc>>
    BY DEF SaveHostKeys, Capture
  <2>3. ASSUME NEW o \in Op, WriteStep(o) PROVE UNCHANGED <<shared, ipc>>
    BY <2>3 DEF WriteStep, Told, Store, Refuse, Reply, Lost, bridge
  <2>4. Switcher \/ Fetching \/ RotateElsewhere \/ RemovedElsewhere => UNCHANGED <<shared, ipc>>
    BY DEF Switcher, SwitcherEffect, LoadRead, LoadFailed, LoadDone, Fetching, ReadList, Listed, Decrypted,
       RotateElsewhere, RemovedElsewhere, bridge
  <2>5. SelectTeam \/ SelectPersonal \/ RefreshList \/ Lock \/ Unlock => UNCHANGED <<shared, ipc>>
    BY DEF SelectTeam, SelectPersonal, Select, RefreshList, Lock, Unlock, bridge
  <2> QED BY <1>1, <2>1, <2>2, <2>3, <2>4, <2>5 DEF RecordsNext, SaveGroup, SaveHost, SaveHostCredential,
         SaveSnippet, SaveIdentity, SaveTunnel, DeleteHost, DeleteHostCredential, DeleteSnippet,
         DeleteIdentity, DeleteTunnel
<1>2. ASSUME KeysNext PROVE UNCHANGED <<shared, ipc>>
  <2>1. EnsureHostKeys \/ VerifyFromEditor => UNCHANGED <<shared, ipc>>
    BY DEF EnsureHostKeys, VerifyFromEditor, Enter
  <2>2. Trust \/ Decline \/ Rekey \/ PinnedElsewhere \/ HostsRead => UNCHANGED <<shared, ipc>>
    BY DEF Trust, Decline, Rekey, PinnedElsewhere, HostsRead, bridge
  <2>3. ASSUME NEW o \in Op, Scanned(o) \/ ScanFailed(o) \/ Saved(o) \/ SaveFailed(o) \/ Admitted(o) \/ HandleHostKeyError(o)
        PROVE  UNCHANGED <<shared, ipc>>
    BY <2>3 DEF Scanned, ScanFailed, Saved, SaveFailed, Admitted, HandleHostKeyError, bridge
  <2> QED BY <1>2, <2>1, <2>2, <2>3 DEF KeysNext
<1>3. ASSUME AgentsNext PROVE UNCHANGED <<shared, ipc>>
  <2>1. ASSUME NEW o \in Op, PrepareStep(o) PROVE UNCHANGED <<shared, ipc>>
    BY <2>1 DEF PrepareStep, NoIdentity, WriteKeyFile, StartAgent, AddKey, AnswerAskpass, KeyAdded, ListKey,
       Spawn, Still, bridge
  <2>2. ASSUME NEW o \in Op, Fail(o) \/ ChildEnds(o) \/ SeeEnd(o) \/ CloseJob(o) \/ ForgetKey(o) \/ GrowOld(o)
        PROVE  UNCHANGED <<shared, ipc>>
    BY <2>2 DEF Fail, ChildEnds, SeeEnd, CloseJob, ForgetKey, GrowOld, Still, bridge
  <2>3. SweepStaleDirs \/ StartApp \/ Crash \/ Quit => UNCHANGED <<shared, ipc>>
    BY DEF SweepStaleDirs, StartApp, Crash, Quit, Still, bridge
  <2>4. ASSUME NEW kind, NEW key, Prepare(kind, key) PROVE UNCHANGED <<shared, ipc>>
    BY <2>4 DEF Prepare
  <2> QED BY <1>3, <2>1, <2>2, <2>3, <2>4 DEF AgentsNext
<1>4. ASSUME PanesNext PROVE UNCHANGED <<shared, ipc>>
  BY <1>4 DEF PanesNext, PickHost, HostChanges, AskHome, NotResolved, Navigate, Choose, MakeFolder, Delete,
     Change, Refresh, PaneAnswer, HomeAnswer, ListAnswer, LateAnswer, RefreshAnswer, ChangeAnswer, Acts, Answered, bridge
<1>5. ASSUME AssistantNext PROVE UNCHANGED <<shared, ipc>>
  BY <1>5 DEF AssistantNext, RequestSuggestion, AutoTrigger, Trigger, TypeKey, PressEscape, Accept, SwitchTab,
     Send, Explain, OpenPanel, ClosePanel, CancelStreaming, SendText, SuggestionEnds, StreamEnds, bridge
<1>6. ASSUME WebNext PROVE UNCHANGED <<shared, ipc>>
  <2>1. ASSUME NEW c \in Conn, ProxyStep(c) PROVE UNCHANGED <<shared, ipc>>
    BY <2>1 DEF ProxyStep, HandshakeTimeout, ReceiveFrame, SelectToken, ConsumeToken, ConnectTo, Probe,
       VerifyHostKey, HostKeyUnavailable, Authenticate, ClientGone, bridge
  <2> QED BY <1>6, <2>1 DEF WebNext, StoreToken, ExpireToken, OpenSocket, SendFrame, CloseSocket, HearFrame,
         HearClose, ConnectionBreaks, ChannelCloses, bridge
<1>7. ASSUME ListingsNext PROVE UNCHANGED <<shared, ipc>>
  BY <1>7 DEF ListingsNext, ListRemote, ListLocal, RemoveEntry, DownloadEntry, UploadEntry, OpenRow, Up, LeaveRow, bridge
<1>8. ASSUME AiNext PROVE UNCHANGED <<shared, ipc>>
  BY <1>8 DEF AiNext, PickProvider, EditConnection, PickModel, EnterManually, FetchModels, TestConnection, TypeModel,
     ModelsAnswer, NoModels, ConnectionAnswer, ReadSettings, SaveSettings, SettingsSaved, SettingsNotSaved,
     SettingsReadAgain, SettingsElsewhere, bridge
<1>9. ASSUME PipesNext PROVE UNCHANGED <<shared, ipc>>
  BY <1>9 DEF PipesNext, PipeStep, SpawnChild, NotFed, Unobserved, Cancel, NextChild, WritePiece, ExitChild, HeirEnds,
     Drain, EndOfFile, Feed, Poll, CollectOutput, GraceOver, KillChild, bridge
<1> QED BY <1>1, <1>2, <1>3, <1>4, <1>5, <1>6, <1>7, <1>8, <1>9

LEMMA PagesTurn ==
  ASSUME TabsNext \/ TunnelsNext \/ TransfersNext \/ EditorNext
  PROVE  /\ UNCHANGED <<account, manner>> /\ page' \in {page, "tunnels", "sftp", "other"}
         /\ TunnelsNext \/ (page' = "tunnels" <=> page = "tunnels")
<1>1. ASSUME TabsNext PROVE UNCHANGED shared
  BY <1>1 DEF TabsNext, AddTab, Connect, Disconnect, CloseTab, TabsProgress, TabsShell, HostSession, Declined,
     Listened, ListenFails, Opened, Refused, CloseDone, ExitHeard, OpenPty, ClosePty, Exit, bridge
<1>2. ASSUME TunnelsNext PROVE UNCHANGED <<account, manner>> /\ page' \in {page, "tunnels", "other"}
  BY <1>2 DEF TunnelsNext, OpenTunnels, LeaveTunnels, ReadStatus, ShowStatus, TunnelProgress, OpenTunnel, Save,
     StartTunnel, StopTunnel, RemoveTunnel, CloseTunnel, TunnelExit, Stopped, HasKeys, NotStarted, AuthThrows,
     HasAuth, Started, StartFailed, bridge, shared
<1>3. ASSUME TransfersNext
      PROVE  /\ UNCHANGED <<account, manner>> /\ page' \in {page, "sftp", "other"}
             /\ page' = "tunnels" <=> page = "tunnels"
  BY <1>3 DEF TransfersNext, OpenSftp, LeaveSftp, Transfer, Hear, TransferStep, SpawnTransfer, Refusal,
     CancelTransfer, Monitor, TransferExit, RemoveTransfer, bridge, shared
<1>4. ASSUME EditorNext PROVE UNCHANGED shared
  <2>1. ASSUME NEW o \in Op, \/ HostSaved(o) \/ HostNotSaved(o) \/ Attached(o) \/ NotAttached(o)
                             \/ DuplicatesDeleted(o) \/ CredentialsDeleted(o) \/ NotDeleted(o) \/ TestAttachedKey(o)
        PROVE  UNCHANGED shared
    BY <2>1 DEF HostSaved, HostNotSaved, Attached, NotAttached, DuplicatesDeleted, CredentialsDeleted, NotDeleted,
       Failed, TestAttachedKey, bridge
  <2>2. ASSUME NEW o \in Op, KeyTestEnds(o) \/ InstallExits(o) \/ ShellEnds(o) PROVE UNCHANGED shared
    BY <2>2 DEF KeyTestEnds, InstallExits, ShellEnds, KeyTest, KeyInstall, InstallFails, TestAnswer, InstallAnswer, bridge
  <2>3. OpenNewHost \/ DismissEditor \/ CancelBootstrap \/ (\E h \in Rec : OpenHost(h)) \/ (\E i \in Ident : PickIdentity(i))
        => UNCHANGED shared
    BY DEF OpenNewHost, DismissEditor, CancelBootstrap, OpenHost, PickIdentity, bridge
  <2>4. SubmitHost \/ SubmitBootstrap => UNCHANGED shared
    BY DEF SubmitHost, SubmitBootstrap
  <2> QED BY <1>4, <2>1, <2>2, <2>3, <2>4 DEF EditorNext
<1> QED BY <1>1, <1>2, <1>3, <1>4 DEF shared

LEMMA MannerStays == [Next]_vars => manner' = manner
<1> SUFFICES ASSUME [Next]_vars PROVE manner' = manner
  OBVIOUS
<1>1. CASE SignOut
  BY <1>1 DEF SignOut
<1>2. CASE UNCHANGED vars
  BY <1>2 DEF vars, bridge, shared
<1> QED BY <1>1, <1>2, OthersQuiet, PagesTurn DEF Next, shared

LEMMA BridgeInitial == Init => BridgeTypeOK
BY NativeBridgeAssumption DEF Init, BridgeInit, BridgeTypeOK

LEMMA BridgeInductive == BridgeTypeOK /\ [Next]_vars => BridgeTypeOK'
<1> SUFFICES ASSUME BridgeTypeOK, [Next]_vars PROVE BridgeTypeOK'
  OBVIOUS
<1>0. MaxOps \in Nat /\ MaxAccount \in Nat
  BY NativeBridgeAssumption
<1>1. pace' = pace /\ used' = used
  BY MannerStays DEF manner
<1>2. ops' \in 0 .. MaxOps
  <2>1. ops' = ops \/ Begin
    <3>1. CASE UNCHANGED vars
      BY <3>1 DEF vars, bridge
    <3> QED BY <3>1, OpsGrow DEF Next
  <2> QED BY <1>0, <2>1 DEF Begin, BridgeTypeOK
<1>3. account' \in 0 .. MaxAccount /\ page' \in {"tunnels", "sftp", "other"}
  <2>1. CASE SignOut
    BY <1>0, <2>1 DEF SignOut, BridgeTypeOK
  <2>2. CASE UNCHANGED vars
    BY <2>2 DEF vars, bridge, shared, BridgeTypeOK
  <2> QED BY <2>1, <2>2, OthersQuiet, PagesTurn DEF Next, shared, BridgeTypeOK
<1> QED BY <1>1, <1>2, <1>3 DEF BridgeTypeOK

(* What all parts of the client share has its type: the numbers that were  *)
(* given out, the account and the page that is shown (NativeBridge).       *)
THEOREM BridgeInvariant == Spec => []BridgeTypeOK
BY SpecSteps, BridgeInitial, BridgeInductive, PTL

------------------------------------------------------------------------------
(* HostKeys: the latest decision                                            *)

(* For the user who does one thing at a time one use of the gate is under   *)
(* way; what was decided last is remembered, or is being saved, and what    *)
(* goes on after the decision goes on with it.                              *)
OneUse == \A o, p \in Op : gate[o].at # "ended" /\ gate[p].at # "ended" => o = p
Recalled(h) == decided[h] \in {NoKey, sessionApprovals[h]} \/ \E o \in Op : gate[o].at = "save" /\ gate[o].host = h
FollowsDecision(g) == g.at \in {"save", "use"} => decided[g.host] \in {NoKey, g.key}
DecisionFits == OneUse /\ (\A h \in Host : Recalled(h)) /\ \A o \in Op : FollowsDecision(gate[o])
DecisionInv == /\ decided \in [Host -> Maybe]
               /\ prompt = NoPrompt \/ prompt.mode \in Questions \cup {"changed"}
               /\ ~Hasty => DecisionFits

LEMMA DecisionInitial == Init => DecisionInv
<1> SUFFICES ASSUME Init PROVE DecisionInv
  OBVIOUS
<1>1. decided = [h \in Host |-> NoKey] /\ gate = [o \in Op |-> NoUse] /\ prompt = NoPrompt
  BY DEF Init, KeysInit
<1>2. \A o \in Op : gate[o].at = "ended"
  BY <1>1, NoUseEnded
<1>3. decided \in [Host -> Maybe] /\ \A h \in Host : decided[h] = NoKey
  BY <1>1 DEF Maybe
<1> QED BY <1>1, <1>2, <1>3 DEF DecisionInv, DecisionFits, OneUse, Recalled, FollowsDecision

(* The one use that is under way becomes g; and what g carries is decided.  *)
LEMMA TheOneUse ==
  ASSUME DecisionFits, NEW o \in Op, NEW CONSTANT g,
         gate[o].at # "ended" \/ Alone,
         gate'[o] = g, \A p \in Op \ {o} : gate'[p] = gate[p] \/ gate'[p].at = "ended",
         \A h \in Host : decided'[h] \in {NoKey, sessionApprovals'[h]} \/ (g.at = "save" /\ g.host = h),
         g.at \in {"save", "use"} => decided'[g.host] \in {NoKey, g.key}
  PROVE  DecisionFits'
<1>1. \A p \in Op \ {o} : gate[p].at = "ended" /\ gate'[p].at = "ended"
  BY DEF DecisionFits, OneUse, Alone
<1>2. OneUse'
  BY <1>1 DEF OneUse
<1>3. \A h \in Host : Recalled(h)'
  BY DEF Recalled
<1>4. \A p \in Op : FollowsDecision(gate[p])'
  <2> SUFFICES ASSUME NEW p \in Op PROVE gate'[p].at \in {"save", "use"} => decided'[gate'[p].host] \in {NoKey, gate'[p].key}
    BY DEF FollowsDecision
  <2> QED BY <1>1
<1> QED BY <1>2, <1>3, <1>4 DEF DecisionFits

(* Nothing is being saved, or it is what this use saves.                    *)
LEMMA Remembers ==
  ASSUME DecisionFits, NEW o \in Op, gate[o].at # "ended"
  PROVE  \A h \in Host : decided[h] \in {NoKey, sessionApprovals[h]} \/ (gate[o].at = "save" /\ gate[o].host = h)
BY DEF DecisionFits, OneUse, Recalled

LEMMA EnterDecides ==
  ASSUME KeysInv, DecisionInv, ~Hasty, NEW what \in {"connect", "verify"}, Enter(what) PROVE DecisionFits'
<1>1. PICK h \in Host :
        /\ Begin /\ Alone
        /\ gate' = [gate EXCEPT ![ops'] =
             [for |-> what, host |-> h, before |-> seen[h], persist |-> writable,
              key |-> IF what = "connect" THEN effectivePins(h, seen[h]) ELSE NoKey,
              at |-> IF what = "connect" /\ effectivePins(h, seen[h]) # NoKey THEN "use" ELSE "scan"]]
        /\ UNCHANGED <<sessionApprovals, decided>>
  BY DEF Enter, keyring, said
<1>2. PICK v : v = ops'
  OBVIOUS
<1>3. PICK g : g = [for |-> what, host |-> h, before |-> seen[h], persist |-> writable,
              key |-> IF what = "connect" THEN effectivePins(h, seen[h]) ELSE NoKey,
              at |-> IF what = "connect" /\ effectivePins(h, seen[h]) # NoKey THEN "use" ELSE "scan"]
  OBVIOUS
<1>4. gate \in [Op -> Uses] /\ DecisionFits /\ v \in Op
  BY <1>1, <1>2, NativeBridgeAssumption DEF KeysInv, KeysTypes, DecisionInv, Begin, Op
<1>5. gate' = [gate EXCEPT ![v] = g]
  BY <1>1, <1>2, <1>3
<1>6. gate'[v] = g /\ \A p \in Op \ {v} : gate'[p] = gate[p]
  BY <1>4, <1>5
<1>7. \A x \in Host : decided[x] \in {NoKey, sessionApprovals[x]}
  BY <1>1, <1>4 DEF DecisionFits, Recalled, Alone
<1>8. g.host = h /\ (g.at = "use" => g.key = effectivePins(h, seen[h])) /\ g.at # "save"
  BY <1>3
<1>9. g.at = "use" => decided[h] \in {NoKey, g.key}
  BY <1>7, <1>8 DEF effectivePins
<1> QED BY <1>1, <1>4, <1>6, <1>7, <1>8, <1>9, TheOneUse

(* A use that ends or asks, and carries nothing.                            *)
LEMMA NothingCarried ==
  ASSUME KeysInv, DecisionFits, NEW o \in Op, gate[o].at \in {"scan", "use", "ask"}, NEW CONSTANT g, g.at \in {"ended", "ask"},
         gate'[o] = g, \A p \in Op \ {o} : gate'[p] = gate[p] \/ gate'[p].at = "ended",
         UNCHANGED <<sessionApprovals, decided>>
  PROVE  DecisionFits'
<1>1. \A h \in Host : decided[h] \in {NoKey, sessionApprovals[h]}
  BY Remembers
<1> QED BY <1>1, TheOneUse

LEMMA UsesDecide ==
  ASSUME KeysInv, DecisionFits, NEW o \in Op, Scanned(o) \/ ScanFailed(o) \/ Admitted(o) \/ HandleHostKeyError(o)
  PROVE  DecisionFits'
<1>1. gate \in [Op -> Uses] /\ gate[o] \in Uses
  BY DEF KeysInv, KeysTypes
<1>2. gate[o].at \in {"scan", "use", "ask"} /\ UNCHANGED <<sessionApprovals, decided>>
  BY DEF Scanned, ScanFailed, Admitted, HandleHostKeyError, keyring, said
<1>3. PICK k : k = presents[gate[o].host]
  OBVIOUS
<1>4. PICK q : q = [gate[o] EXCEPT !.at = "ask", !.key = k]
  OBVIOUS
<1>5. q.at = "ask"
  BY <1>1, <1>4 DEF Uses
<1>6. [gate EXCEPT ![o].at = "ask", ![o].key = k] = [gate EXCEPT ![o] = q]
  BY <1>1, <1>4
<1>7. \E g \in {NoUse, q} : \/ gate' = [gate EXCEPT ![o] = g]
                            \/ gate' = [p \in Op |-> IF p # o /\ Waiting(p) THEN NoUse ELSE [gate EXCEPT ![o] = g][p]]
  <2>1. CASE Scanned(o)
    <3>1. CASE gate' = [gate EXCEPT ![o] = NoUse]
      BY <3>1
    <3>2. CASE \E mode \in {"approve", "replace"} : Ask([gate EXCEPT ![o].at = "ask", ![o].key = k], o, mode, k)
      <4>1. gate' = [p \in Op |-> IF p # o /\ Waiting(p) THEN NoUse ELSE [gate EXCEPT ![o] = q][p]]
        BY <1>6, <3>2 DEF Ask
      <4> QED BY <4>1
    <3> QED BY <1>3, <2>1, <3>1, <3>2 DEF Scanned, Ended
  <2>2. CASE HandleHostKeyError(o)
    <3>1. gate' = [p \in Op |-> IF p # o /\ Waiting(p) THEN NoUse ELSE [gate EXCEPT ![o] = NoUse][p]]
      BY <2>2 DEF HandleHostKeyError, Ended, Ask
    <3> QED BY <3>1
  <2>3. CASE ScanFailed(o) \/ Admitted(o)
    BY <2>3 DEF ScanFailed, Admitted, Ended
  <2> QED BY <2>1, <2>2, <2>3
<1>8. PICK g \in {NoUse, q} : \/ gate' = [gate EXCEPT ![o] = g]
                            \/ gate' = [p \in Op |-> IF p # o /\ Waiting(p) THEN NoUse ELSE [gate EXCEPT ![o] = g][p]]
  BY <1>7
<1>9. g.at \in {"ended", "ask"} /\ NoUse.at = "ended"
  BY <1>5, NoUseEnded
<1>10. gate'[o] = g /\ \A p \in Op \ {o} : gate'[p] = gate[p] \/ gate'[p] = NoUse
  <2>1. [gate EXCEPT ![o] = g][o] = g /\ \A p \in Op \ {o} : [gate EXCEPT ![o] = g][p] = gate[p]
    BY <1>1
  <2> QED BY <1>8, <2>1
<1> QED BY <1>2, <1>9, <1>10, NothingCarried

LEMMA TrustDecides == ASSUME KeysInv, DecisionInv, ~Hasty, Trust PROVE DecisionFits'
<1>1. PICK o : o = prompt.by
  OBVIOUS
<1>2. PICK h : h = prompt.host
  OBVIOUS
<1>3. PICK k : k = prompt.key
  OBVIOUS
<1>4. /\ prompt.mode \in Questions
      /\ gate' = [gate EXCEPT ![o] = Approved(o)]
      /\ IF gate[o].persist THEN sessionApprovals' = sessionApprovals ELSE sessionApprovals' = [sessionApprovals EXCEPT ![h] = k]
      /\ decided' = [decided EXCEPT ![h] = k]
  BY <1>1, <1>2, <1>3 DEF Trust, Questions, Remembered
<1>5. KeysTypes /\ Begun /\ Dialog(gate, prompt) /\ DecisionFits /\ decided \in [Host -> Maybe]
  BY DEF KeysInv, DecisionInv
<1>6. o \in Op /\ gate[o].at = "ask"
  BY <1>1, <1>4, <1>5 DEF Dialog
<1>7. gate[o].host = h /\ gate[o].key = k /\ gate[o] \in Uses /\ h \in Host
  BY <1>1, <1>2, <1>3, <1>5, <1>6 DEF Dialog, AskerShown, KeysTypes, Begun
<1>8. PICK g : g = Approved(o)
  OBVIOUS
<1>9. /\ g.at \in {"save", "use", "ended"} /\ (g.at # "ended" => g.host = h /\ g.key = k)
      /\ gate[o].persist = TRUE => g.at = "save"
  <2>1. ASSUME NEW at \in {"save", "use"}
        PROVE  /\ [gate[o] EXCEPT !.at = at].at = at
               /\ [gate[o] EXCEPT !.at = at].host = h /\ [gate[o] EXCEPT !.at = at].key = k
    BY <1>7 DEF Uses
  <2> QED BY <1>6, <1>8, <2>1, NoUseEnded DEF Approved
<1>10. gate'[o] = g /\ \A p \in Op \ {o} : gate'[p] = gate[p]
  BY <1>4, <1>5, <1>6, <1>8 DEF KeysTypes
<1>11. decided'[h] = k /\ \A x \in Host \ {h} : decided'[x] = decided[x]
  BY <1>4, <1>5, <1>7
<1>12. /\ \A x \in Host \ {h} : sessionApprovals'[x] = sessionApprovals[x]
       /\ gate[o].persist # TRUE => sessionApprovals'[h] = k
  <2>1. sessionApprovals \in [Host -> Maybe] /\ gate[o].persist \in BOOLEAN
    BY <1>5, <1>7 DEF KeysTypes, Uses
  <2> QED BY <1>4, <1>7, <2>1
<1>13. \A x \in Host : decided[x] \in {NoKey, sessionApprovals[x]}
  BY <1>5, <1>6, Remembers
<1>14. \A x \in Host : decided'[x] \in {NoKey, sessionApprovals'[x]} \/ (g.at = "save" /\ g.host = x)
  BY <1>9, <1>11, <1>12, <1>13
<1> QED BY <1>5, <1>6, <1>9, <1>10, <1>11, <1>14, TheOneUse

LEMMA SavesDecide ==
  ASSUME KeysInv, DecisionInv, ~Hasty, NEW o \in Op, Saved(o) \/ SaveFailed(o) PROVE DecisionFits'
<1>1. KeysTypes /\ Begun /\ DecisionFits /\ decided \in [Host -> Maybe]
  BY DEF KeysInv, DecisionInv
<1>2. PICK h : h = gate[o].host
  OBVIOUS
<1>3. PICK k : k = gate[o].key
  OBVIOUS
<1>4. gate[o].at = "save" /\ gate[o] \in Uses /\ h \in Host /\ gate \in [Op -> Uses]
  BY <1>1, <1>2 DEF KeysTypes, Begun, Saved, SaveFailed
<1>5. \A x \in Host : decided[x] \in {NoKey, sessionApprovals[x]} \/ h = x
  BY <1>1, <1>2, <1>4, Remembers
<1>6. decided[h] \in {NoKey, k}
  BY <1>1, <1>2, <1>3, <1>4 DEF DecisionFits, FollowsDecision
<1>7. CASE Saved(o)
  <2>1. PICK g : g = Approved(o)
    OBVIOUS
  <2>2. gate' = [gate EXCEPT ![o] = g] /\ decided' = decided /\ sessionApprovals' = [sessionApprovals EXCEPT ![h] = k]
    BY <1>2, <1>3, <1>7, <2>1 DEF Saved, Remembered, said
  <2>3. g.at \in {"use", "ended"} /\ (g.at = "use" => g.host = h /\ g.key = k)
    <3>1. /\ [gate[o] EXCEPT !.at = "use"].at = "use"
          /\ [gate[o] EXCEPT !.at = "use"].host = h /\ [gate[o] EXCEPT !.at = "use"].key = k
      BY <1>2, <1>3, <1>4 DEF Uses
    <3> QED BY <1>4, <2>1, <3>1, NoUseEnded DEF Approved
  <2>4. gate'[o] = g /\ \A p \in Op \ {o} : gate'[p] = gate[p]
    BY <1>4, <2>2
  <2>5. sessionApprovals'[h] = k /\ \A x \in Host \ {h} : sessionApprovals'[x] = sessionApprovals[x]
    BY <1>1, <1>4, <2>2 DEF KeysTypes
  <2>6. \A x \in Host : decided'[x] \in {NoKey, sessionApprovals'[x]}
    BY <1>5, <1>6, <2>2, <2>5
  <2> QED BY <1>1, <1>4, <1>6, <2>2, <2>3, <2>4, <2>6, TheOneUse
<1>8. CASE SaveFailed(o)
  <2>1. gate' = [gate EXCEPT ![o] = NoUse] /\ decided' = [decided EXCEPT ![h] = NoKey] /\ sessionApprovals' = sessionApprovals
    BY <1>2, <1>8 DEF SaveFailed, Ended
  <2>2. gate'[o] = NoUse /\ \A p \in Op \ {o} : gate'[p] = gate[p]
    BY <1>4, <2>1
  <2>3. decided'[h] = NoKey /\ \A x \in Host \ {h} : decided'[x] = decided[x]
    BY <1>1, <1>4, <2>1
  <2>4. \A x \in Host : decided'[x] \in {NoKey, sessionApprovals'[x]}
    BY <1>5, <2>1, <2>3
  <2>5. PICK g : g = NoUse
    OBVIOUS
  <2>6. g.at = "ended" /\ gate'[o] = g
    BY <2>2, <2>5, NoUseEnded
  <2> QED BY <1>1, <1>4, <2>2, <2>4, <2>6, TheOneUse
<1> QED BY <1>7, <1>8

LEMMA DeclineDecides == ASSUME KeysInv, DecisionInv, ~Hasty, Decline PROVE DecisionFits'
<1>1. /\ gate \in [Op -> Uses] /\ UNCHANGED <<sessionApprovals, decided>> /\ Dialog(gate, prompt)
      /\ DecisionFits /\ prompt.mode \in Questions \cup {"changed"}
      /\ prompt.mode # "changed" => gate' = [gate EXCEPT ![prompt.by] = NoUse]
      /\ prompt.mode = "changed" => gate' = gate
  BY DEF KeysInv, KeysTypes, Decline, Ended, keyring, said, DecisionInv
<1>2. CASE gate' = gate
  BY <1>1, <1>2 DEF DecisionFits, OneUse, Recalled, FollowsDecision
<1>3. CASE prompt.mode \in Questions
  <2>1. PICK o : o = prompt.by
    OBVIOUS
  <2>2. PICK g : g = NoUse
    OBVIOUS
  <2>3. o \in Op /\ gate[o].at = "ask"
    BY <1>1, <1>3, <2>1 DEF Dialog
  <2>4. gate'[o] = g /\ g.at = "ended" /\ \A p \in Op \ {o} : gate'[p] = gate[p]
    BY <1>1, <1>3, <2>1, <2>2, <2>3, NoUseEnded DEF Questions
  <2> QED BY <1>1, <2>3, <2>4, NothingCarried
<1> QED BY <1>1, <1>2, <1>3

LEMMA DecisionInductive == KeysInv /\ DecisionInv /\ [Next]_vars => DecisionInv'
<1> SUFFICES ASSUME KeysInv, DecisionInv, [Next]_vars PROVE DecisionInv'
  OBVIOUS
<1>1. CASE KeysNext
  <2>1. decided' \in [Host -> Maybe]
    <3>1. NoKey \in Maybe
      BY DEF Maybe
    <3>2. CASE Trust
      <4>1. prompt.by \in Op /\ gate[prompt.by] \in Uses /\ prompt.key = gate[prompt.by].key
        BY <3>2 DEF Trust, KeysInv, KeysTypes, Dialog, AskerShown, Questions
      <4>2. prompt.key \in Maybe
        BY <4>1 DEF Uses
      <4> QED BY <3>2, <4>2 DEF Trust, DecisionInv
    <3>3. ASSUME NEW o \in Op, SaveFailed(o) PROVE decided' \in [Host -> Maybe]
      BY <3>1, <3>3 DEF SaveFailed, DecisionInv
    <3>4. CASE UNCHANGED decided
      BY <3>4 DEF DecisionInv
    <3>5. ASSUME NEW o \in Op, Scanned(o) \/ ScanFailed(o) \/ Saved(o) \/ Admitted(o) \/ HandleHostKeyError(o) PROVE UNCHANGED decided
      BY <3>5 DEF Scanned, ScanFailed, Saved, Admitted, HandleHostKeyError, said
    <3>6. ASSUME Decline \/ EnsureHostKeys \/ VerifyFromEditor \/ Rekey \/ PinnedElsewhere \/ HostsRead PROVE UNCHANGED decided
      BY <3>6 DEF Decline, EnsureHostKeys, VerifyFromEditor, Enter, Rekey, PinnedElsewhere, HostsRead, said
    <3> QED BY <1>1, <3>2, <3>3, <3>4, <3>5, <3>6 DEF KeysNext
  <2>2. prompt' = NoPrompt \/ prompt'.mode \in Questions \cup {"changed"}
    <3>2. ASSUME NEW o \in Op, Scanned(o) PROVE prompt' = prompt \/ prompt'.mode \in Questions \cup {"changed"}
      BY <3>2 DEF Scanned, Ask, Questions
    <3>3. ASSUME NEW o \in Op, HandleHostKeyError(o) PROVE prompt'.mode \in Questions \cup {"changed"}
      BY <3>3 DEF HandleHostKeyError, Ask
    <3>4. ASSUME NEW o \in Op, ScanFailed(o) \/ Saved(o) \/ SaveFailed(o) \/ Admitted(o) PROVE prompt' = prompt
      BY <3>4 DEF ScanFailed, Saved, SaveFailed, Admitted
    <3>5. ASSUME EnsureHostKeys \/ VerifyFromEditor \/ Rekey \/ PinnedElsewhere \/ HostsRead PROVE prompt' = prompt
      BY <3>5 DEF EnsureHostKeys, VerifyFromEditor, Enter, Rekey, PinnedElsewhere, HostsRead
    <3>6. ASSUME Trust \/ Decline PROVE prompt' = NoPrompt
      BY <3>6 DEF Trust, Decline
    <3> QED BY <1>1, <3>2, <3>3, <3>4, <3>5, <3>6 DEF KeysNext, DecisionInv
  <2>3. ASSUME ~Hasty' PROVE DecisionFits'
    <3>1. ~Hasty /\ DecisionFits
      BY <2>3, MannerStays DEF Hasty, manner, DecisionInv
    <3>2. CASE Rekey \/ PinnedElsewhere \/ HostsRead
      <4>1. UNCHANGED <<gate, sessionApprovals, decided>>
        BY <3>2 DEF Rekey, PinnedElsewhere, HostsRead, said
      <4> QED BY <3>1, <4>1 DEF DecisionFits, OneUse, Recalled, FollowsDecision
    <3> QED BY <1>1, <3>1, <3>2, EnterDecides, UsesDecide, TrustDecides, SavesDecide, DeclineDecides
            DEF KeysNext, EnsureHostKeys, VerifyFromEditor
  <2> QED BY <2>1, <2>2, <2>3 DEF DecisionInv
<1>2. CASE UNCHANGED hostKeyVars
  BY <1>2, MannerStays DEF hostKeyVars, keyring, said, manner, DecisionInv, DecisionFits, OneUse, Recalled, FollowsDecision, Hasty
<1> QED BY <1>1, <1>2, SignOutStill DEF Next, vars

(* "An approval made in this app session wins (it is the user's latest      *)
(* decision)" (host-keys.ts): who answers one question at a time connects *)
(* with the key accepted last, whichever list the host was read from.       *)
THEOREM TheLatestDecisionWins == Spec => []LatestDecision
<1>1. KeysInv /\ DecisionInv => LatestDecision
  BY DEF DecisionInv, DecisionFits, FollowsDecision, LatestDecision, Hasty
<1>2. KeysInv /\ DecisionInv /\ [Next]_vars => (KeysInv /\ DecisionInv)'
  BY DecisionInductive, KeysInductive
<1> QED BY <1>1, <1>2, SpecSteps, KeysInitial, DecisionInitial, PTL

------------------------------------------------------------------------------
(* FilePanes                                                                *)

(* What waits for an answer that is not dropped, and what changes or reads  *)
(* again the directory of a click.                                          *)
AsksHome(c) == c.cmd = "home" /\ c.live
AsksList(c) == c.cmd = "list" /\ c.live
OfAClick(c) == c.cmd \in {"refresh", "remove", "mkdir"}
Waits == 1 .. Len(calls)

(* A host is being resolved or is connected; of each effect one run lives,  *)
(* and it is for what is picked and shown.                                  *)
RunsFit ==
  /\ Connected => hostArgs = picked /\ resolve.at = "no"
  /\ resolve.at # "no" => picked # NoHost
  /\ resolve.shown => resolve.at # "no" \/ picked = NoHost
  /\ \A i \in Waits : AsksHome(calls[i]) => resolve.at = "home" /\ calls[i].host = picked
  /\ \A i \in Waits : AsksList(calls[i]) => Connected /\ calls[i].host = hostArgs /\ calls[i].dir = remotePath
  /\ \A i, j \in Waits : AsksHome(calls[i]) /\ AsksHome(calls[j]) => i = j
  /\ \A i, j \in Waits : AsksList(calls[i]) /\ AsksList(calls[j]) => i = j
  /\ Connected /\ pane.loading => \E i \in Waits : calls[i].cmd = "refresh" \/ AsksList(calls[i])

(* What the patient user clicked is the only thing under way; what is shown *)
(* and what is chosen is of the directory of the path bar.                  *)
ClicksFit ==
  /\ \A i \in Waits : OfAClick(calls[i]) =>
       Len(calls) = 1 /\ Connected /\ calls[i].host = hostArgs /\ calls[i].dir = remotePath
  /\ \A i \in Waits : calls[i].cmd = "remove" => calls[i].name = <<calls[i].host, calls[i].dir>>
  /\ Connected /\ ~pane.error /\ (\A i \in Waits : ~AsksList(calls[i])) => pane.entries = Here
  /\ Connected /\ ~pane.loading => \A i \in Waits : ~AsksList(calls[i])
  /\ chosen # Nowhere => Connected /\ chosen = Here

(* What the pane shows, and how far it is with a host.                     *)
PaneShown == [entries : Place \cup {Nowhere}, loading : BOOLEAN, error : BOOLEAN]
Resolves == [at : {"no", "keys", "home"}, shown : BOOLEAN]
PanesInv == PanesTypeOK /\ RunsFit /\ (~Hasty => ClicksFit)

LEMMA PanesInitial == Init => PanesInv
<1> SUFFICES ASSUME Init PROVE PanesInv
  OBVIOUS
<1>1. /\ picked = NoHost /\ hostArgs = NoHost /\ resolve = [at |-> "no", shown |-> FALSE]
      /\ remotePath = "home" /\ chosen = Nowhere /\ calls = <<>>
      /\ pane = [entries |-> Nowhere, loading |-> FALSE, error |-> FALSE]
  BY DEF Init, PanesInit
<1>2. PanesTypeOK
  BY <1>1 DEF PanesTypeOK, Dir
<1>3. ~Connected /\ Waits = {} /\ resolve.at = "no" /\ ~resolve.shown
  BY <1>1 DEF Connected, Waits
<1> QED BY <1>1, <1>2, <1>3 DEF PanesInv, RunsFit, ClicksFit

------------------------------------------------------------------------------
LEMMA MoreCalls ==
  ASSUME NEW cs \in Seq(PaneCall), NEW c \in PaneCall
  PROVE  /\ Append(cs, c) \in Seq(PaneCall) /\ Len(Append(cs, c)) = Len(cs) + 1 /\ Len(cs) \in Nat
         /\ \A i \in 1 .. Len(cs) : Append(cs, c)[i] = cs[i]
         /\ Append(cs, c)[Len(cs) + 1] = c
OBVIOUS

LEMMA LessCalls ==
  ASSUME NEW cs \in Seq(PaneCall), cs # <<>>
  PROVE  /\ Tail(cs) \in Seq(PaneCall) /\ Len(Tail(cs)) = Len(cs) - 1 /\ Len(cs) \in Nat \ {0}
         /\ \A i \in 1 .. Len(Tail(cs)) : i + 1 \in 1 .. Len(cs) /\ Tail(cs)[i] = cs[i + 1]
         /\ \A i \in 1 .. Len(cs) : i = 1 \/ (i - 1 \in 1 .. Len(Tail(cs)) /\ Tail(cs)[i - 1] = cs[i])
         /\ Head(cs) = cs[1] /\ cs[1] \in PaneCall
<1>1. Len(cs) \in Nat /\ Len(cs) # 0 /\ Tail(cs) \in Seq(PaneCall) /\ Len(Tail(cs)) = Len(cs) - 1
  OBVIOUS
<1>2. \A i \in 1 .. Len(cs) - 1 : Tail(cs)[i] = cs[i + 1]
  BY <1>1
<1>3. Head(cs) = cs[1] /\ cs[1] \in PaneCall
  BY <1>1
<1> QED BY <1>1, <1>2, <1>3

LEMMA OneDead ==
  ASSUME NEW c \in PaneCall
  PROVE  /\ Cancelled(c) \in PaneCall /\ Cancelled(c).live = FALSE /\ Cancelled(c).cmd = c.cmd
         /\ Cancelled(c).host = c.host /\ Cancelled(c).dir = c.dir /\ Cancelled(c).name = c.name
BY DEF Cancelled, PaneCall

LEMMA DeadCalls ==
  ASSUME NEW cs \in Seq(PaneCall)
  PROVE  /\ Dead(cs) \in Seq(PaneCall) /\ Len(Dead(cs)) = Len(cs)
         /\ \A i \in 1 .. Len(cs) :
              /\ Dead(cs)[i].live = FALSE /\ Dead(cs)[i].cmd = cs[i].cmd
              /\ Dead(cs)[i].host = cs[i].host /\ Dead(cs)[i].dir = cs[i].dir /\ Dead(cs)[i].name = cs[i].name
<1>1. \A i \in 1 .. Len(cs) : cs[i] \in PaneCall
  OBVIOUS
<1>2. Dead(cs) = [i \in 1 .. Len(cs) |-> Cancelled(cs[i])]
  BY DEF Dead
<1>3. ASSUME NEW i \in 1 .. Len(cs)
      PROVE  /\ Dead(cs)[i] \in PaneCall /\ Dead(cs)[i].live = FALSE /\ Dead(cs)[i].cmd = cs[i].cmd
             /\ Dead(cs)[i].host = cs[i].host /\ Dead(cs)[i].dir = cs[i].dir /\ Dead(cs)[i].name = cs[i].name
  <2>1. cs[i] \in PaneCall /\ Dead(cs)[i] = Cancelled(cs[i])
    BY <1>1, <1>2
  <2> QED BY <2>1, OneDead
<1>4. Dead(cs) \in Seq(PaneCall) /\ Len(Dead(cs)) = Len(cs)
  <2>1. Len(cs) \in Nat
    OBVIOUS
  <2>2. Dead(cs) \in [1 .. Len(cs) -> PaneCall]
    BY <1>2, <1>3
  <2>3. Dead(cs) \in Seq(PaneCall)
    BY <2>1, <2>2, SeqDef
  <2>4. DOMAIN Dead(cs) = 1 .. Len(cs)
    BY <2>2
  <2> QED BY <2>1, <2>3, <2>4
<1> QED BY <1>3, <1>4

LEMMA PanesTypes ==
  ASSUME PanesInv
  PROVE  /\ picked \in Host \cup {NoHost} /\ hostArgs \in Host \cup {NoHost} /\ (Connected => hostArgs \in Host)
         /\ resolve \in Resolves /\ remotePath \in Dir /\ chosen \in Place \cup {Nowhere}
         /\ pane \in PaneShown /\ pane.entries \in Place \cup {Nowhere} /\ calls \in Seq(PaneCall) /\ RunsFit /\ (~Hasty => ClicksFit)
         /\ Len(calls) \in Nat /\ \A i \in Waits : calls[i] \in PaneCall
         /\ Nowhere \in Place \cup {Nowhere} /\ "home" \in Dir
<1>1. pane \in PaneShown /\ calls \in Seq(PaneCall)
  BY DEF PanesInv, PanesTypeOK, PaneShown
<1>2. pane.entries \in Place \cup {Nowhere} /\ Len(calls) \in Nat /\ \A i \in Waits : calls[i] \in PaneCall
  BY <1>1 DEF PaneShown, Waits
<1> QED BY <1>1, <1>2 DEF PanesInv, PanesTypeOK, Resolves, Connected, Dir

(* Another host, or the host anew: nothing that lives goes on.              *)
LEMMA ResolvingKeeps ==
  ASSUME PanesInv, NEW h \in Host \cup {NoHost}, Resolving(h), pace' = pace,
         chosen' = Nowhere \/ (Hasty /\ chosen' = chosen),
         Hasty \/ \A i \in Waits : ~OfAClick(calls[i])
  PROVE  PanesInv'
<1>1. PICK rest : rest = IF Connected THEN <<Cancelled(Query("list", hostArgs, remotePath, Nowhere))>> ELSE <<>>
  OBVIOUS
<1>2. /\ picked' = h /\ hostArgs' = NoHost /\ UNCHANGED remotePath
      /\ resolve' = IF h = NoHost THEN [resolve EXCEPT !.at = "no"] ELSE [at |-> "keys", shown |-> TRUE]
      /\ calls' = Dead(calls) \o rest
      /\ pane' = IF Connected THEN [pane EXCEPT !.loading = TRUE, !.error = FALSE] ELSE pane
  BY <1>1 DEF Resolving
<1>3. /\ Dead(calls) \in Seq(PaneCall) /\ Len(Dead(calls)) = Len(calls) /\ Len(calls) \in Nat
      /\ \A i \in Waits : Dead(calls)[i].live = FALSE /\ Dead(calls)[i].cmd = calls[i].cmd
  BY PanesTypes, DeadCalls DEF Waits
<1>4. rest = <<>> \/ \E c \in PaneCall : rest = <<c>> /\ c.live = FALSE /\ c.cmd = "list"
  <2>1. CASE Connected
    <3>1. hostArgs \in Host /\ remotePath \in Dir
      BY <2>1, PanesTypes
    <3>2. PICK c : c = Cancelled(Query("list", hostArgs, remotePath, Nowhere))
      OBVIOUS
    <3>3. PICK q : q = Query("list", hostArgs, remotePath, Nowhere)
      OBVIOUS
    <3>4. q \in PaneCall /\ q.cmd = "list"
      BY <3>1, <3>3, PanesTypes DEF Query, PaneCall
    <3>5. c \in PaneCall /\ c.live = FALSE /\ c.cmd = "list"
      BY <3>2, <3>3, <3>4, OneDead
    <3> QED BY <1>1, <2>1, <3>2, <3>5
  <2>2. CASE ~Connected
    BY <1>1, <2>2
  <2> QED BY <2>1, <2>2
<1>5. /\ calls' \in Seq(PaneCall)
      /\ \A i \in Waits' : calls'[i].live = FALSE /\ (calls'[i].cmd = "list" \/ (i \in Waits /\ calls'[i].cmd = calls[i].cmd))
  <2>1. CASE rest = <<>>
    BY <1>2, <1>3, <2>1 DEF Waits
  <2>2. ASSUME NEW c \in PaneCall, rest = <<c>>, c.live = FALSE, c.cmd = "list"
        PROVE /\ calls' \in Seq(PaneCall)
              /\ \A i \in Waits' : calls'[i].live = FALSE /\ (calls'[i].cmd = "list" \/ (i \in Waits /\ calls'[i].cmd = calls[i].cmd))
    <3>1. calls' = Append(Dead(calls), c)
      BY <1>2, <1>3, <2>2
    <3>2. /\ calls' \in Seq(PaneCall) /\ Len(calls') = Len(calls) + 1
          /\ \A i \in 1 .. Len(calls) : calls'[i] = Dead(calls)[i]
          /\ calls'[Len(calls) + 1] = c
      BY <1>3, <2>2, <3>1, MoreCalls
    <3>3. \A i \in Waits' : i \in Waits \/ i = Len(calls) + 1
      BY <1>3, <3>2 DEF Waits
    <3> QED BY <1>3, <2>2, <3>2, <3>3 DEF Waits
  <2> QED BY <1>4, <2>1, <2>2
<1>6. resolve' \in Resolves /\ (h = NoHost => resolve'.at = "no") /\ (h # NoHost => resolve'.at = "keys")
  BY <1>2, PanesTypes DEF Resolves
<1>7. pane' \in PaneShown
  BY <1>2, PanesTypes DEF PaneShown
<1>8. ~Connected'
  BY <1>2 DEF Connected
<1>9. PanesTypeOK'
  BY <1>2, <1>5, <1>6, <1>7, PanesTypes DEF PanesTypeOK, PaneShown, Resolves
<1>10. RunsFit'
  BY <1>2, <1>5, <1>6, <1>8 DEF RunsFit, AsksHome, AsksList
<1>11. ~Hasty' => ClicksFit'
  BY <1>5, <1>8 DEF ClicksFit, OfAClick, Hasty
<1> QED BY <1>9, <1>10, <1>11 DEF PanesInv

LEMMA PickKeeps == ASSUME PanesInv, (\E h \in Host \cup {NoHost} : PickHost(h)) \/ HostChanges PROVE PanesInv'
<1>1. ASSUME NEW h \in Host \cup {NoHost}, PickHost(h) PROVE PanesInv'
  <2>1. Resolving(h) /\ chosen' = Nowhere /\ pace' = pace
    BY <1>1 DEF PickHost, Acts, bridge, shared, manner
  <2>2. Hasty \/ \A i \in Waits : ~OfAClick(calls[i])
    <3>1. Hasty \/ \A i \in DOMAIN calls : calls[i].cmd \in {"home", "list"}
      BY <1>1 DEF PickHost, Waited
    <3>2. DOMAIN calls = Waits
      BY PanesTypes DEF Waits
    <3> QED BY <3>1, <3>2 DEF OfAClick
  <2> QED BY <2>1, <2>2, ResolvingKeeps
<1>2. CASE HostChanges
  <2>1. Resolving(picked) /\ Hasty /\ chosen' = chosen /\ pace' = pace
    BY <1>2 DEF HostChanges, Acts, bridge, shared, manner
  <2> QED BY <2>1, PanesTypes, ResolvingKeeps
<1> QED BY <1>1, <1>2

LEMMA NotResolvedKeeps == ASSUME PanesInv, NotResolved PROVE PanesInv'
<1>1. /\ resolve.at = "keys" /\ resolve'.at = "no" /\ resolve'.shown = FALSE /\ resolve' \in Resolves
      /\ UNCHANGED <<picked, hostArgs, remotePath, pane, chosen, calls, pace>>
  BY DEF NotResolved, Resolves, bridge, shared, manner
<1>2. PanesTypeOK'
  BY <1>1, PanesTypes DEF PanesTypeOK, PaneShown, Resolves
<1>3. RunsFit'
  BY <1>1, PanesTypes DEF RunsFit, Waits, Connected
<1>4. ~Hasty' => ClicksFit'
  BY <1>1, PanesTypes DEF ClicksFit, Waits, Connected, Hasty, Here
<1> QED BY <1>2, <1>3, <1>4 DEF PanesInv

LEMMA AskHomeKeeps == ASSUME PanesInv, AskHome PROVE PanesInv'
<1>1. PICK c : c = Query("home", picked, "home", Nowhere)
  OBVIOUS
<1>2. /\ resolve.at = "keys" /\ resolve' = [resolve EXCEPT !.at = "home"] /\ calls' = Append(calls, c)
      /\ UNCHANGED <<picked, hostArgs, remotePath, pane, chosen, pace>>
  BY <1>1 DEF AskHome, bridge, shared, manner
<1>3. picked \in Host /\ ~Connected
  BY <1>2, PanesTypes DEF RunsFit
<1>4. c \in PaneCall /\ c.cmd = "home" /\ c.host = picked
  <2>1. PICK h \in Host : h = picked
    BY <1>3
  <2>2. "home" \in Dir /\ Nowhere \in Place \cup {Nowhere}
    BY DEF Dir
  <2>3. c = Query("home", h, "home", Nowhere)
    BY <1>1, <2>1
  <2> QED BY <2>1, <2>2, <2>3 DEF Query, PaneCall
<1>5. /\ calls' \in Seq(PaneCall) /\ calls'[Len(calls) + 1] = c
      /\ \A i \in Waits' : (i \in Waits /\ calls'[i] = calls[i]) \/ i = Len(calls) + 1
  <2>1. /\ calls' \in Seq(PaneCall) /\ Len(calls') = Len(calls) + 1 /\ Len(calls) \in Nat
        /\ \A i \in 1 .. Len(calls) : calls'[i] = calls[i]
        /\ calls'[Len(calls) + 1] = c
    BY <1>2, <1>4, PanesTypes, MoreCalls
  <2> QED BY <2>1 DEF Waits
<1>6. resolve' \in Resolves /\ resolve'.at = "home" /\ resolve'.shown = resolve.shown
  BY <1>2, PanesTypes DEF Resolves
<1>7. PanesTypeOK'
  BY <1>2, <1>5, <1>6, PanesTypes DEF PanesTypeOK, PaneShown, Resolves
<1>8. \A i \in Waits : ~AsksHome(calls[i]) /\ ~AsksList(calls[i])
  BY <1>2, <1>3, PanesTypes DEF RunsFit
<1>9. RunsFit'
  <2>1. ~Connected'
    BY <1>2, <1>3 DEF Connected
  <2>2. \A i \in Waits' : ~AsksList(calls'[i]) /\ (AsksHome(calls'[i]) => i = Len(calls) + 1)
    BY <1>4, <1>5, <1>8 DEF AsksList, AsksHome
  <2> QED BY <1>2, <1>4, <1>5, <1>6, <2>1, <2>2, PanesTypes DEF RunsFit
<1>10. ASSUME ~Hasty' PROVE ClicksFit'
  <2>1. ClicksFit /\ ~Connected'
    BY <1>2, <1>3, <1>10, PanesTypes DEF Hasty, Connected
  <2>2. \A i \in Waits : ~OfAClick(calls[i])
    BY <1>3, <2>1 DEF ClicksFit
  <2>3. \A i \in Waits' : ~OfAClick(calls'[i]) /\ calls'[i].cmd # "remove"
    BY <1>4, <1>5, <2>2 DEF OfAClick
  <2> QED BY <1>2, <1>3, <2>1, <2>3 DEF ClicksFit
<1> QED BY <1>7, <1>9, <1>10 DEF PanesInv

(* A directory is listed: the runs before are cancelled.                    *)
LEMMA ListDirCalls ==
  ASSUME NEW cs \in Seq(PaneCall), NEW h \in Host, NEW d \in Dir, PanesInv, ListDir(h, d, cs)
  PROVE  /\ calls' \in Seq(PaneCall) /\ Len(calls') = Len(cs) + 1 /\ Len(cs) \in Nat
         /\ \A i \in 1 .. Len(cs) : calls'[i].live = FALSE /\ calls'[i].cmd = cs[i].cmd
         /\ AsksList(calls'[Len(cs) + 1]) /\ calls'[Len(cs) + 1].host = h /\ calls'[Len(cs) + 1].dir = d
         /\ pane' \in PaneShown /\ pane'.loading = TRUE /\ pane'.error = FALSE /\ pane'.entries = pane.entries
<1>1. PICK c : c = Query("list", h, d, Nowhere)
  OBVIOUS
<1>2. c \in PaneCall /\ c.cmd = "list" /\ c.live = TRUE /\ c.host = h /\ c.dir = d
  BY <1>1 DEF Query, PaneCall
<1>3. calls' = Append(Dead(cs), c) /\ pane' = [pane EXCEPT !.loading = TRUE, !.error = FALSE]
  BY <1>1 DEF ListDir
<1>4. /\ Dead(cs) \in Seq(PaneCall) /\ Len(Dead(cs)) = Len(cs)
      /\ \A i \in 1 .. Len(cs) : Dead(cs)[i].live = FALSE /\ Dead(cs)[i].cmd = cs[i].cmd
  BY DeadCalls
<1>5. /\ calls' \in Seq(PaneCall) /\ Len(calls') = Len(cs) + 1 /\ Len(cs) \in Nat
      /\ \A i \in 1 .. Len(cs) : calls'[i] = Dead(cs)[i]
      /\ calls'[Len(cs) + 1] = c
  BY <1>2, <1>3, <1>4, MoreCalls
<1>6. pane' \in PaneShown /\ pane'.loading = TRUE /\ pane'.error = FALSE /\ pane'.entries = pane.entries
  BY <1>3, PanesTypes DEF PaneShown
<1> QED BY <1>2, <1>4, <1>5, <1>6 DEF AsksList

LEMMA ListDirKeeps ==
  ASSUME PanesInv, NEW cs \in Seq(PaneCall), NEW h \in Host, NEW d \in Dir, ListDir(h, d, cs),
         hostArgs' = h, remotePath' = d, picked = h, h # NoHost, resolve' \in Resolves, resolve'.at = "no", ~resolve'.shown,
         picked' = picked, pace' = pace, chosen' \in Place \cup {Nowhere},
         Hasty \/ (chosen' = Nowhere /\ \A i \in 1 .. Len(cs) : ~OfAClick(cs[i]))
  PROVE  PanesInv'
<1>1. /\ calls' \in Seq(PaneCall) /\ Len(calls') = Len(cs) + 1 /\ Len(cs) \in Nat
      /\ \A i \in 1 .. Len(cs) : calls'[i].live = FALSE /\ calls'[i].cmd = cs[i].cmd
      /\ AsksList(calls'[Len(cs) + 1]) /\ calls'[Len(cs) + 1].host = h /\ calls'[Len(cs) + 1].dir = d
      /\ pane' \in PaneShown /\ pane'.loading = TRUE /\ pane'.error = FALSE
  BY ListDirCalls
<1>2. PICK n : n = Len(cs) + 1
  OBVIOUS
<1>3. /\ n \in Waits' /\ AsksList(calls'[n]) /\ calls'[n].host = h /\ calls'[n].dir = d /\ ~AsksHome(calls'[n])
      /\ \A i \in Waits' : i = n \/ (i \in 1 .. Len(cs) /\ ~AsksList(calls'[i]) /\ ~AsksHome(calls'[i]))
  BY <1>1, <1>2 DEF Waits, AsksList, AsksHome
<1>4. PanesTypeOK'
  BY <1>1, PanesTypes DEF PanesTypeOK, PaneShown, Resolves
<1>5. RunsFit'
  BY <1>3, PanesTypes DEF RunsFit, Connected
<1>6. ASSUME ~Hasty' PROVE ClicksFit'
  <2>1. chosen' = Nowhere /\ \A i \in 1 .. Len(cs) : ~OfAClick(cs[i])
    BY <1>6 DEF Hasty
  <2>2. \A i \in Waits' : ~OfAClick(calls'[i])
    BY <1>1, <1>3, <2>1 DEF OfAClick, AsksList
  <2> QED BY <1>1, <1>3, <2>1, <2>2 DEF ClicksFit, OfAClick
<1> QED BY <1>4, <1>5, <1>6 DEF PanesInv

LEMMA NavigateKeeps == ASSUME PanesInv, NEW d \in Dir, Navigate(d) PROVE PanesInv'
<1>1. /\ Connected /\ remotePath' = d /\ chosen' = Nowhere /\ ListDir(hostArgs, d, calls)
      /\ UNCHANGED <<picked, resolve, hostArgs, pace>>
  BY DEF Navigate, Acts, bridge, shared, manner
<1>2. Hasty \/ \A i \in 1 .. Len(calls) : ~OfAClick(calls[i])
  <2>1. Hasty \/ \A i \in DOMAIN calls : calls[i].cmd \in {"home", "list"}
    BY DEF Navigate, Waited
  <2>2. DOMAIN calls = 1 .. Len(calls)
    BY PanesTypes
  <2> QED BY <2>1, <2>2 DEF OfAClick
<1>3. PICK h \in Host : h = hostArgs
  BY <1>1, PanesTypes
<1>4. h # NoHost /\ picked = h /\ hostArgs' = h /\ resolve'.at = "no" /\ ~resolve'.shown /\ resolve' \in Resolves
  BY <1>1, <1>3, PanesTypes DEF RunsFit, Connected
<1>5. calls \in Seq(PaneCall) /\ Nowhere \in Place \cup {Nowhere} /\ ListDir(h, d, calls)
  BY <1>1, <1>3, PanesTypes
<1> QED BY <1>1, <1>2, <1>4, <1>5, ListDirKeeps

LEMMA ChooseKeeps == ASSUME PanesInv, Choose PROVE PanesInv'
<1>1. /\ Connected /\ ~pane.error /\ pane.entries # Nowhere /\ chosen' = pane.entries
      /\ UNCHANGED <<picked, resolve, hostArgs, remotePath, pane, calls, pace>>
  BY DEF Choose, Acts, bridge, shared, manner
<1>2. PanesTypeOK'
  BY <1>1, PanesTypes DEF PanesTypeOK, PaneShown, Resolves
<1>3. RunsFit'
  BY <1>1, PanesTypes DEF RunsFit, Waits, Connected
<1>4. ASSUME ~Hasty' PROVE ClicksFit'
  <2>1. ~Hasty /\ ClicksFit /\ ~pane.loading
    BY <1>1, <1>4, PanesTypes DEF Hasty, Choose, Quiet
  <2>2. pane.entries = Here
    BY <1>1, <2>1 DEF ClicksFit
  <2> QED BY <1>1, <2>1, <2>2 DEF ClicksFit, Waits, Connected, Here
<1> QED BY <1>2, <1>3, <1>4 DEF PanesInv

(* A click on what is shown: the command is for the directory shown.        *)
LEMMA ClickKeeps ==
  ASSUME PanesInv, NEW cmd \in {"refresh", "remove", "mkdir"}, NEW name \in Place \cup {Nowhere},
         Connected, calls' = Append(calls, Query(cmd, hostArgs, remotePath, name)),
         UNCHANGED <<picked, resolve, hostArgs, remotePath, chosen, pace>>,
         pane' = pane \/ (cmd = "refresh" /\ pane' = [pane EXCEPT !.loading = TRUE]),
         Hasty \/ calls = <<>>,
         cmd = "remove" => name = chosen /\ chosen # Nowhere
  PROVE  PanesInv'
<1>1. PICK c : c = Query(cmd, hostArgs, remotePath, name)
  OBVIOUS
<1>2. hostArgs \in Host /\ remotePath \in Dir
  BY PanesTypes
<1>3. c \in PaneCall /\ c.cmd = cmd /\ c.host = hostArgs /\ c.dir = remotePath /\ c.name = name
  BY <1>1, <1>2 DEF Query, PaneCall
<1>4. /\ calls' \in Seq(PaneCall) /\ Len(calls') = Len(calls) + 1 /\ Len(calls) \in Nat
      /\ \A i \in 1 .. Len(calls) : calls'[i] = calls[i]
      /\ calls'[Len(calls) + 1] = c
  BY <1>1, <1>3, PanesTypes, MoreCalls
<1>5. /\ Len(calls) + 1 \in Waits' /\ Waits \subseteq Waits' /\ ~AsksHome(c) /\ ~AsksList(c) /\ OfAClick(c)
      /\ \A i \in Waits' : (i \in Waits /\ calls'[i] = calls[i]) \/ (i = Len(calls) + 1 /\ calls'[i] = c)
      /\ \A i \in Waits : calls'[i] = calls[i]
  BY <1>3, <1>4 DEF Waits, AsksHome, AsksList, OfAClick
<1>6. /\ pane' \in PaneShown /\ pane'.error = pane.error /\ pane'.entries = pane.entries
      /\ pane' = pane \/ (cmd = "refresh" /\ pane'.loading = TRUE)
  BY PanesTypes DEF PaneShown
<1>7. PanesTypeOK'
  BY <1>4, <1>6, PanesTypes DEF PanesTypeOK, PaneShown, Resolves
<1>8. RunsFit'
  <2>1. /\ \A i \in Waits' : AsksHome(calls'[i]) => i \in Waits /\ AsksHome(calls[i]) /\ calls'[i] = calls[i]
        /\ \A i \in Waits' : AsksList(calls'[i]) => i \in Waits /\ AsksList(calls[i]) /\ calls'[i] = calls[i]
    BY <1>5
  <2>2. Connected' /\ pane'.loading => \E i \in Waits' : calls'[i].cmd = "refresh" \/ AsksList(calls'[i])
    <3> SUFFICES ASSUME Connected, pane'.loading PROVE \E i \in Waits' : calls'[i].cmd = "refresh" \/ AsksList(calls'[i])
      BY DEF Connected
    <3>1. CASE cmd = "refresh"
      BY <1>3, <1>4, <1>5, <3>1
    <3>2. CASE pane' = pane
      <4>1. PICK i \in Waits : calls[i].cmd = "refresh" \/ AsksList(calls[i])
        BY <3>2, PanesTypes DEF RunsFit
      <4>2. i \in Waits' /\ calls'[i] = calls[i]
        BY <1>5
      <4> QED BY <4>1, <4>2
    <3> QED BY <1>6, <3>1, <3>2
  <2> QED BY <2>1, <2>2, PanesTypes DEF RunsFit, Connected
<1>9. ASSUME ~Hasty' PROVE ClicksFit'
  <2>1. ~Hasty /\ ClicksFit /\ calls = <<>>
    BY <1>9, PanesTypes DEF Hasty
  <2>2. Waits = {} /\ Len(calls') = 1 /\ \A i \in Waits' : calls'[i] = c
    BY <1>4, <1>5, <2>1 DEF Waits
  <2>3. cmd = "remove" => name = <<hostArgs, remotePath>>
    BY <2>1 DEF ClicksFit, Here
  <2>4. Connected' /\ ~pane'.error => pane'.entries = Here'
    BY <1>6, <2>1, <2>2 DEF ClicksFit, Connected, Here
  <2>5. chosen' # Nowhere => Connected' /\ chosen' = Here'
    BY <2>1 DEF ClicksFit, Connected, Here
  <2>6. \A i \in Waits' : ~AsksList(calls'[i]) /\ calls'[i].host = hostArgs /\ calls'[i].dir = remotePath
                          /\ (calls'[i].cmd = "remove" => calls'[i].name = <<hostArgs, remotePath>>)
    BY <1>3, <1>5, <2>2, <2>3
  <2> QED BY <2>2, <2>4, <2>5, <2>6 DEF ClicksFit, Connected
<1> QED BY <1>7, <1>8, <1>9 DEF PanesInv

LEMMA ClicksKeep == ASSUME PanesInv, MakeFolder \/ Delete \/ Refresh PROVE PanesInv'
<1>1. UNCHANGED <<picked, resolve, hostArgs, remotePath, chosen, pace>> /\ Connected /\ (Hasty \/ calls = <<>>)
  BY DEF MakeFolder, Delete, Refresh, Change, Acts, Quiet, bridge, shared, manner
<1>2. CASE MakeFolder
  <2>1. calls' = Append(calls, Query("mkdir", hostArgs, remotePath, Nowhere)) /\ pane' = pane
    BY <1>2 DEF MakeFolder, Change
  <2>2. PICK cmd \in {"refresh", "remove", "mkdir"} : cmd = "mkdir"
    OBVIOUS
  <2> QED BY <1>1, <2>1, <2>2, PanesTypes, ClickKeeps
<1>3. CASE Delete
  <2>1. calls' = Append(calls, Query("remove", hostArgs, remotePath, chosen)) /\ pane' = pane /\ chosen # Nowhere
    BY <1>3 DEF Delete, Change
  <2>2. PICK name \in Place \cup {Nowhere} : name = chosen
    BY PanesTypes
  <2>3. PICK cmd \in {"refresh", "remove", "mkdir"} : cmd = "remove"
    OBVIOUS
  <2> QED BY <1>1, <2>1, <2>2, <2>3, ClickKeeps
<1>4. CASE Refresh
  <2>1. calls' = Append(calls, Query("refresh", hostArgs, remotePath, Nowhere)) /\ pane' = [pane EXCEPT !.loading = TRUE]
    BY <1>4 DEF Refresh
  <2>2. PICK cmd \in {"refresh", "remove", "mkdir"} : cmd = "refresh"
    OBVIOUS
  <2> QED BY <1>1, <2>1, <2>2, PanesTypes, ClickKeeps
<1> QED BY <1>2, <1>3, <1>4

------------------------------------------------------------------------------
LEMMA FirstAnswered ==
  ASSUME PanesInv, calls # <<>>
  PROVE  /\ Tail(calls) \in Seq(PaneCall) /\ Len(Tail(calls)) = Len(calls) - 1 /\ 1 \in Waits
         /\ \A i \in 1 .. Len(Tail(calls)) : i + 1 \in Waits /\ i + 1 # 1 /\ Tail(calls)[i] = calls[i + 1]
         /\ \A i \in Waits : i = 1 \/ (i - 1 \in 1 .. Len(Tail(calls)) /\ Tail(calls)[i - 1] = calls[i])
         /\ Head(calls) = calls[1] /\ calls[1] \in PaneCall /\ calls[1].host \in Host /\ calls[1].dir \in Dir
         /\ <<calls[1].host, calls[1].dir>> \in Place
<1>1. /\ Tail(calls) \in Seq(PaneCall) /\ Len(Tail(calls)) = Len(calls) - 1 /\ Len(calls) \in Nat \ {0}
      /\ \A i \in 1 .. Len(Tail(calls)) : i + 1 \in 1 .. Len(calls) /\ Tail(calls)[i] = calls[i + 1]
      /\ \A i \in 1 .. Len(calls) : i = 1 \/ (i - 1 \in 1 .. Len(Tail(calls)) /\ Tail(calls)[i - 1] = calls[i])
      /\ Head(calls) = calls[1] /\ calls[1] \in PaneCall
  BY PanesTypes, LessCalls
<1>2. calls[1].host \in Host /\ calls[1].dir \in Dir
  BY <1>1 DEF PaneCall
<1> QED BY <1>1, <1>2 DEF Waits, Place

(* The first answer is in, and nothing new is asked.                        *)
LEMMA AnswerKeeps ==
  ASSUME PanesInv, calls # <<>>, calls' = Tail(calls), UNCHANGED <<picked, hostArgs, remotePath, chosen, pace>>,
         resolve' = resolve \/ (resolve' \in Resolves /\ resolve'.at = "no" /\ ~resolve'.shown /\ AsksHome(calls[1])),
         pane' \in PaneShown,
         Connected /\ pane'.loading => pane.loading /\ calls[1].cmd # "refresh" /\ ~AsksList(calls[1]),
         ~Hasty /\ Connected /\ ~pane'.error /\ (\A i \in Waits : i = 1 \/ ~AsksList(calls[i])) => pane'.entries = Here,
         ~Hasty /\ Connected /\ ~pane'.loading => \A i \in Waits : i = 1 \/ ~AsksList(calls[i])
  PROVE  PanesInv'
<1>1. /\ calls' \in Seq(PaneCall) /\ Len(calls') = Len(calls) - 1 /\ 1 \in Waits /\ Len(calls) \in Nat
      /\ \A i \in Waits' : i + 1 \in Waits /\ i + 1 # 1 /\ calls'[i] = calls[i + 1]
      /\ \A i \in Waits : i = 1 \/ (i - 1 \in Waits' /\ calls'[i - 1] = calls[i])
  BY FirstAnswered, PanesTypes DEF Waits
<1>2. \A i, j \in Waits' : i + 1 = j + 1 => i = j
  BY DEF Waits
<1>3. RunsFit
  BY PanesTypes
<1>4. PanesTypeOK'
  BY <1>1, PanesTypes DEF PanesTypeOK, PaneShown, Resolves
<1>5. RunsFit'
  <2>0. ASSUME NEW i \in Waits'
        PROVE  /\ i + 1 \in Waits /\ i + 1 # 1 /\ calls'[i] = calls[i + 1]
               /\ (AsksHome(calls'[i]) => AsksHome(calls[i + 1])) /\ (AsksList(calls'[i]) => AsksList(calls[i + 1]))
    BY <1>1
  <2>1. ASSUME NEW i \in Waits', AsksList(calls'[i]) PROVE Connected' /\ calls'[i].host = hostArgs' /\ calls'[i].dir = remotePath'
    <3>1. i + 1 \in Waits /\ AsksList(calls[i + 1]) /\ calls'[i] = calls[i + 1]
      BY <2>0, <2>1
    <3>2. Connected /\ calls[i + 1].host = hostArgs /\ calls[i + 1].dir = remotePath
      BY <1>3, <3>1 DEF RunsFit
    <3> QED BY <3>1, <3>2 DEF Connected
  <2>2. ASSUME NEW i \in Waits', NEW j \in Waits',
               (AsksHome(calls'[i]) /\ AsksHome(calls'[j])) \/ (AsksList(calls'[i]) /\ AsksList(calls'[j]))
        PROVE  i = j
    <3>1. i + 1 \in Waits /\ j + 1 \in Waits
      BY <2>0
    <3>2. (AsksHome(calls[i + 1]) /\ AsksHome(calls[j + 1])) \/ (AsksList(calls[i + 1]) /\ AsksList(calls[j + 1]))
      BY <2>0, <2>2
    <3>3. i + 1 = j + 1
      BY <1>3, <3>1, <3>2 DEF RunsFit
    <3> QED BY <1>2, <3>3
  <2>4. ASSUME NEW i \in Waits', AsksHome(calls'[i]) PROVE resolve'.at = "home" /\ calls'[i].host = picked'
    <3>1. i + 1 \in Waits /\ i + 1 # 1 /\ AsksHome(calls[i + 1]) /\ calls'[i] = calls[i + 1]
      BY <2>0, <2>4
    <3>2. resolve.at = "home" /\ calls[i + 1].host = picked
      BY <1>3, <3>1 DEF RunsFit
    <3>3. ~AsksHome(calls[1])
      BY <1>1, <1>3, <3>1 DEF RunsFit
    <3> QED BY <3>1, <3>2, <3>3
  <2>5. /\ Connected' => hostArgs' = picked' /\ resolve'.at = "no"
        /\ resolve'.at # "no" => picked' # NoHost
        /\ resolve'.shown => resolve'.at # "no" \/ picked' = NoHost
    BY <1>3 DEF RunsFit, Connected
  <2>6. Connected' /\ pane'.loading => \E i \in Waits' : calls'[i].cmd = "refresh" \/ AsksList(calls'[i])
    <3> SUFFICES ASSUME Connected, pane'.loading PROVE \E i \in Waits' : calls'[i].cmd = "refresh" \/ AsksList(calls'[i])
      BY DEF Connected
    <3>1. PICK i \in Waits : calls[i].cmd = "refresh" \/ AsksList(calls[i])
      BY <1>3 DEF RunsFit
    <3>2. i # 1
      BY <3>1
    <3>3. i - 1 \in Waits' /\ calls'[i - 1] = calls[i]
      BY <1>1, <3>2
    <3>4. calls'[i - 1].cmd = "refresh" \/ AsksList(calls'[i - 1])
      BY <3>1, <3>3
    <3> QED BY <3>3, <3>4
  <2> QED BY <2>1, <2>2, <2>4, <2>5, <2>6 DEF RunsFit
<1>6. ASSUME ~Hasty' PROVE ClicksFit'
  <2>1. ~Hasty /\ ClicksFit
    BY <1>6, PanesTypes DEF Hasty
  <2>2. \A i \in Waits' : ~OfAClick(calls'[i])
    <3>1. \A i \in Waits' : Len(calls) # 1
      BY <1>1 DEF Waits
    <3> QED BY <1>1, <2>1, <3>1 DEF ClicksFit
  <2>3. (\A i \in Waits' : ~AsksList(calls'[i])) => \A i \in Waits : i = 1 \/ ~AsksList(calls[i])
    BY <1>1
  <2>4. (\A i \in Waits : i = 1 \/ ~AsksList(calls[i])) => \A i \in Waits' : ~AsksList(calls'[i])
    BY <1>1
  <2>5. chosen' # Nowhere => Connected' /\ chosen' = Here'
    BY <2>1 DEF ClicksFit, Connected, Here
  <2>6. Connected' = Connected /\ Here' = Here
    BY DEF Connected, Here
  <2> QED BY <2>1, <2>2, <2>3, <2>4, <2>5, <2>6 DEF ClicksFit, OfAClick
<1> QED BY <1>4, <1>5, <1>6 DEF PanesInv

LEMMA HomeKeeps == ASSUME PanesInv, HomeAnswer PROVE PanesInv'
<1>1. /\ calls # <<>> /\ calls[1].cmd = "home" /\ calls[1].live /\ pace' = pace
      /\ resolve' = [at |-> "no", shown |-> FALSE] /\ UNCHANGED <<picked, chosen>>
      /\ \/ /\ remotePath' = "home" /\ hostArgs' = calls[1].host
            /\ ListDir(hostArgs', remotePath', Tail(calls))
         \/ calls' = Tail(calls) /\ UNCHANGED <<remotePath, hostArgs, pane>>
  BY FirstAnswered DEF HomeAnswer, Answered, Rest, bridge, shared, manner
<1>2. /\ AsksHome(calls[1]) /\ 1 \in Waits /\ Tail(calls) \in Seq(PaneCall) /\ calls[1].host \in Host
      /\ \A i \in 1 .. Len(Tail(calls)) : i + 1 \in Waits /\ Tail(calls)[i] = calls[i + 1]
  BY <1>1, FirstAnswered DEF AsksHome
<1>3. resolve.at = "home" /\ calls[1].host = picked /\ ~Connected /\ picked # NoHost
  BY <1>2, PanesTypes DEF RunsFit
<1>4. resolve' \in Resolves /\ resolve'.at = "no" /\ ~resolve'.shown
  BY <1>1 DEF Resolves
<1>5. CASE remotePath' = "home" /\ hostArgs' = calls[1].host /\ ListDir(hostArgs', remotePath', Tail(calls))
  <2>1. PICK h \in Host : h = calls[1].host
    BY <1>2
  <2>2. PICK d \in Dir : d = "home"
    BY DEF Dir
  <2>3. PICK cs \in Seq(PaneCall) : cs = Tail(calls)
    BY <1>2
  <2>4. ListDir(h, d, cs) /\ hostArgs' = h /\ remotePath' = d /\ picked = h /\ h # NoHost
    BY <1>3, <1>5, <2>1, <2>2, <2>3
  <2>5. Hasty \/ (chosen' = Nowhere /\ \A i \in 1 .. Len(cs) : ~OfAClick(cs[i]))
    BY <1>1, <1>2, <1>3, <2>3, PanesTypes DEF ClicksFit
  <2>6. chosen' \in Place \cup {Nowhere}
    BY <1>1, PanesTypes
  <2> QED BY <1>1, <1>4, <2>4, <2>5, <2>6, ListDirKeeps
<1>6. CASE calls' = Tail(calls) /\ UNCHANGED <<remotePath, hostArgs, pane>>
  <2>1. pane' \in PaneShown
    BY <1>6, PanesTypes
  <2> QED BY <1>1, <1>2, <1>3, <1>4, <1>6, <2>1, AnswerKeeps
<1> QED BY <1>1, <1>5, <1>6

LEMMA ListedKeeps == ASSUME PanesInv, ListAnswer \/ LateAnswer \/ RefreshAnswer PROVE PanesInv'
<1>1. /\ calls # <<>> /\ calls' = Tail(calls) /\ UNCHANGED <<picked, hostArgs, remotePath, chosen, pace, resolve>>
  BY DEF ListAnswer, LateAnswer, RefreshAnswer, Answered, Rest, bridge, shared, manner
<1>2. /\ Head(calls) = calls[1] /\ 1 \in Waits /\ calls[1] \in PaneCall /\ <<calls[1].host, calls[1].dir>> \in Place
  BY <1>1, FirstAnswered
<1>3. RunsFit /\ pane \in PaneShown /\ pane.entries \in Place \cup {Nowhere} /\ (~Hasty => ClicksFit)
  BY PanesTypes
<1>4. PICK at : at = <<calls[1].host, calls[1].dir>>
  OBVIOUS
<1>5. CASE ListAnswer
  <2>1. PICK ok \in BOOLEAN : pane' = [pane EXCEPT !.entries = IF ok THEN at ELSE @, !.loading = FALSE, !.error = ~ok]
    BY <1>2, <1>4, <1>5 DEF ListAnswer, Place0
  <2>2. /\ pane' \in PaneShown /\ pane'.loading = FALSE /\ (ok => pane'.entries = at) /\ (~ok => pane'.error)
    BY <1>2, <1>3, <1>4, <2>1 DEF PaneShown
  <2>3. AsksList(calls[1])
    BY <1>2, <1>5 DEF ListAnswer, Answered, AsksList
  <2>4. at = Here /\ \A i \in Waits : i = 1 \/ ~AsksList(calls[i])
    BY <1>2, <1>3, <1>4, <2>3 DEF RunsFit, Here
  <2> QED BY <1>1, <2>2, <2>4, AnswerKeeps
<1>6. CASE LateAnswer
  <2>1. pane' = pane /\ calls[1].cmd # "refresh" /\ ~AsksList(calls[1])
    BY <1>2, <1>6 DEF LateAnswer, AsksList
  <2>2. (\A i \in Waits : i = 1 \/ ~AsksList(calls[i])) => \A i \in Waits : ~AsksList(calls[i])
    BY <2>1
  <2>3. ~Hasty /\ Connected /\ ~pane'.error /\ (\A i \in Waits : i = 1 \/ ~AsksList(calls[i])) => pane'.entries = Here
    BY <1>3, <2>1, <2>2 DEF ClicksFit
  <2>4. ~Hasty /\ Connected /\ ~pane'.loading => \A i \in Waits : i = 1 \/ ~AsksList(calls[i])
    BY <1>3, <2>1 DEF ClicksFit
  <2>5. pane' \in PaneShown
    BY <1>3, <2>1
  <2> QED BY <1>1, <2>1, <2>3, <2>4, <2>5, AnswerKeeps
<1>7. CASE RefreshAnswer
  <2>1. PICK e \in {at, pane.entries} : pane' = [pane EXCEPT !.entries = e, !.loading = FALSE]
    BY <1>2, <1>4, <1>7 DEF RefreshAnswer, Place0
  <2>2. pane' \in PaneShown /\ pane'.loading = FALSE /\ pane'.entries = e /\ pane'.error = pane.error
    BY <1>2, <1>3, <1>4, <2>1 DEF PaneShown
  <2>3. calls[1].cmd = "refresh"
    BY <1>2, <1>7 DEF RefreshAnswer, Answered
  <2>4. ~AsksList(calls[1])
    BY <2>3 DEF AsksList
  <2>5. ~Hasty => at = Here /\ \A i \in Waits : i = 1
    BY <1>2, <1>3, <1>4, <2>3 DEF ClicksFit, OfAClick, Here, Waits
  <2>6. ~Hasty /\ Connected /\ ~pane'.error /\ (\A i \in Waits : i = 1 \/ ~AsksList(calls[i])) => pane'.entries = Here
    BY <1>3, <2>2, <2>4, <2>5 DEF ClicksFit
  <2> QED BY <1>1, <2>2, <2>5, <2>6, AnswerKeeps
<1> QED BY <1>5, <1>6, <1>7

LEMMA ChangedKeeps == ASSUME PanesInv, ChangeAnswer PROVE PanesInv'
<1>1. /\ calls # <<>> /\ UNCHANGED <<picked, hostArgs, remotePath, pace, resolve>>
      /\ Head(calls).cmd \in {"remove", "mkdir"}
  BY DEF ChangeAnswer, Answered, bridge, shared, manner
<1>2. /\ Head(calls) = calls[1] /\ 1 \in Waits /\ calls[1] \in PaneCall /\ calls[1].host \in Host /\ calls[1].dir \in Dir
      /\ Tail(calls) \in Seq(PaneCall) /\ Len(Tail(calls)) = Len(calls) - 1
      /\ \A i \in 1 .. Len(Tail(calls)) : i + 1 \in Waits /\ i + 1 # 1 /\ Tail(calls)[i] = calls[i + 1]
  BY <1>1, FirstAnswered
<1>3. RunsFit /\ pane \in PaneShown /\ (~Hasty => ClicksFit) /\ Len(calls) \in Nat
  BY PanesTypes
<1>4. OfAClick(calls[1]) /\ ~AsksList(calls[1]) /\ calls[1].cmd # "refresh"
  BY <1>1, <1>2 DEF OfAClick, AsksList
<1>5. CASE calls' = Tail(calls) /\ UNCHANGED <<pane, chosen>>
  <2>1. (\A i \in Waits : i = 1 \/ ~AsksList(calls[i])) => \A i \in Waits : ~AsksList(calls[i])
    BY <1>4
  <2>2. ~Hasty /\ Connected /\ ~pane'.error /\ (\A i \in Waits : i = 1 \/ ~AsksList(calls[i])) => pane'.entries = Here
    BY <1>3, <1>5, <2>1 DEF ClicksFit
  <2>3. ~Hasty /\ Connected /\ ~pane'.loading => \A i \in Waits : i = 1 \/ ~AsksList(calls[i])
    BY <1>3, <1>5 DEF ClicksFit
  <2>4. pane' \in PaneShown
    BY <1>3, <1>5
  <2> QED BY <1>1, <1>4, <1>5, <2>2, <2>3, <2>4, AnswerKeeps
<1>6. CASE /\ chosen' = IF Head(calls).cmd = "remove" THEN Nowhere ELSE chosen
           /\ calls' = Append(Tail(calls), Query("refresh", Head(calls).host, Head(calls).dir, Nowhere))
           /\ pane' = [pane EXCEPT !.loading = TRUE]
  <2>1. PICK c : c = Query("refresh", calls[1].host, calls[1].dir, Nowhere)
    OBVIOUS
  <2>2. /\ c \in PaneCall /\ c.cmd = "refresh" /\ c.host = calls[1].host /\ c.dir = calls[1].dir
        /\ ~AsksList(c) /\ ~AsksHome(c)
    BY <1>2, <2>1 DEF Query, PaneCall, AsksList, AsksHome
  <2>3. /\ calls' \in Seq(PaneCall) /\ Len(calls') = Len(calls)
        /\ \A i \in 1 .. Len(Tail(calls)) : calls'[i] = Tail(calls)[i]
        /\ calls'[Len(calls)] = c
    <3>1. calls' = Append(Tail(calls), c)
      BY <1>2, <1>6, <2>1
    <3>2. PICK cs \in Seq(PaneCall) : cs = Tail(calls)
      BY <1>2
    <3>3. /\ calls' \in Seq(PaneCall) /\ Len(calls') = Len(cs) + 1
          /\ \A i \in 1 .. Len(cs) : calls'[i] = cs[i]
          /\ calls'[Len(cs) + 1] = c
      BY <2>2, <3>1, <3>2, MoreCalls
    <3>4. Len(cs) + 1 = Len(calls)
      BY <1>2, <1>3, <3>2
    <3> QED BY <3>2, <3>3, <3>4
  <2>4. /\ Waits' = Waits /\ Len(calls) \in Waits
        /\ \A i \in Waits : (i = Len(calls) /\ calls'[i] = c) \/ (i + 1 \in Waits /\ calls'[i] = calls[i + 1])
    BY <1>2, <1>3, <2>3 DEF Waits
  <2>5. pane' \in PaneShown /\ pane'.loading = TRUE /\ pane'.error = pane.error /\ pane'.entries = pane.entries
    BY <1>3, <1>6 DEF PaneShown
  <2>6. PanesTypeOK'
    BY <1>1, <1>6, <2>3, <2>5, PanesTypes DEF PanesTypeOK, PaneShown, Resolves
  <2>7. RunsFit'
    <3>1. /\ \A i \in Waits : AsksHome(calls'[i]) => i + 1 \in Waits /\ AsksHome(calls[i + 1]) /\ calls'[i] = calls[i + 1]
          /\ \A i \in Waits : AsksList(calls'[i]) => i + 1 \in Waits /\ AsksList(calls[i + 1]) /\ calls'[i] = calls[i + 1]
      BY <2>2, <2>4
    <3>2. \A i, j \in Waits : i + 1 = j + 1 => i = j
      BY DEF Waits
    <3>3. \E i \in Waits : calls'[i].cmd = "refresh"
      BY <2>2, <2>3, <2>4
    <3>4. /\ \A i, j \in Waits' : AsksHome(calls'[i]) /\ AsksHome(calls'[j]) => i = j
          /\ \A i, j \in Waits' : AsksList(calls'[i]) /\ AsksList(calls'[j]) => i = j
      BY <1>3, <2>4, <3>1, <3>2 DEF RunsFit
    <3>5. \A i \in Waits' : AsksHome(calls'[i]) => resolve'.at = "home" /\ calls'[i].host = picked'
      BY <1>1, <1>3, <2>4, <3>1 DEF RunsFit
    <3>6. \A i \in Waits' : AsksList(calls'[i]) => Connected' /\ calls'[i].host = hostArgs' /\ calls'[i].dir = remotePath'
      BY <1>1, <1>3, <2>4, <3>1 DEF RunsFit, Connected
    <3>7. Connected' = Connected
      BY <1>1 DEF Connected
    <3> QED BY <1>1, <1>3, <2>4, <3>3, <3>4, <3>5, <3>6, <3>7 DEF RunsFit
  <2>8. ASSUME ~Hasty' PROVE ClicksFit'
    <3>1. ~Hasty /\ ClicksFit /\ Connected' = Connected /\ Here' = Here
      BY <1>1, <1>3, <2>8 DEF Hasty, Connected, Here
    <3>2. Len(calls) = 1 /\ Connected /\ c.host = hostArgs /\ c.dir = remotePath /\ \A i \in Waits : i = 1
      BY <1>2, <1>4, <2>2, <3>1 DEF ClicksFit, Waits
    <3>3. \A i \in Waits' : calls'[i] = c
      BY <2>3, <2>4, <3>2
    <3>4. (\A i \in Waits : ~AsksList(calls[i])) /\ \A i \in Waits' : ~AsksList(calls'[i])
      BY <1>4, <2>2, <3>2, <3>3
    <3>5. chosen' # Nowhere => Connected' /\ chosen' = Here'
      BY <1>6, <3>1 DEF ClicksFit
    <3>6. Connected' /\ ~pane'.error => pane'.entries = Here'
      BY <2>5, <3>1, <3>4 DEF ClicksFit
    <3>7. \A i \in Waits' : OfAClick(calls'[i]) =>
             Len(calls') = 1 /\ Connected' /\ calls'[i].host = hostArgs' /\ calls'[i].dir = remotePath'
      BY <1>1, <2>3, <3>1, <3>2, <3>3
    <3>8. \A i \in Waits' : calls'[i].cmd # "remove"
      BY <2>2, <3>3
    <3> QED BY <3>4, <3>5, <3>6, <3>7, <3>8 DEF ClicksFit
  <2> QED BY <2>6, <2>7, <2>8 DEF PanesInv
<1> QED BY <1>5, <1>6 DEF ChangeAnswer, Rest

LEMMA PanesStill == ASSUME PanesInv, UNCHANGED <<paneVars, pace>> PROVE PanesInv'
BY DEF paneVars, PanesInv, PanesTypeOK, RunsFit, ClicksFit, Waits, Connected, Here, Hasty

LEMMA PanesInductive == PanesInv /\ [Next]_vars => PanesInv'
<1> SUFFICES ASSUME PanesInv, [Next]_vars PROVE PanesInv'
  OBVIOUS
<1>1. CASE PanesNext
  BY <1>1, PickKeeps, AskHomeKeeps, NotResolvedKeeps, NavigateKeeps, ChooseKeeps, ClicksKeep, HomeKeeps, ListedKeeps, ChangedKeeps
     DEF PanesNext, PaneAnswer
<1>2. CASE UNCHANGED paneVars
  BY <1>2, MannerStays, PanesStill DEF manner
<1> QED BY <1>1, <1>2, SignOutStill DEF Next, vars, shellVars

(* After a listing the pane shows the directory of its path bar, what is    *)
(* removed was chosen there, and no command goes to another host than the   *)
(* one that is picked: the effects of SftpPage.tsx drop the answers of the  *)
(* runs that a newer one replaced.                                          *)
THEOREM PanesShowTheirPath == Spec => []PanesAgree
<1>1. PanesInv => PanesAgree
  <2> SUFFICES ASSUME PanesInv PROVE PanesAgree
    OBVIOUS
  <2>1. DOMAIN calls = Waits
    BY PanesTypes DEF Waits
  <2>2. Connected /\ pane.loading => \E i \in DOMAIN calls : calls[i].cmd = "refresh" \/ calls[i].live
    BY <2>1, PanesTypes DEF RunsFit, AsksList
  <2>3. pace = "patient" => ClicksFit
    BY PanesTypes DEF Hasty
  <2> QED BY <2>1, <2>2, <2>3, PanesTypes DEF PanesAgree, RunsFit, ClicksFit
<1> QED BY <1>1, SpecSteps, PanesInitial, PanesInductive, PTL

------------------------------------------------------------------------------
(* Assistant                                                               *)

(* Numbers that were not given out have asked nothing; what is in flight   *)
(* streams into the panel or has no bubble; and each of the two components *)
(* is about requests of its own.                                           *)
AsksFit ==
  /\ \A o \in Op : asks[o].at # "idle" => o <= ops
  /\ \A o \in Op : InFlight(o) => asks[o].bubble # "still" /\ (asks[o].by = "inline" => asks[o].bubble = "none")
  /\ overlay.kind \in {"loading", "visible"} => overlay.of \in Op /\ asks[overlay.of].by = "inline" /\ asks[overlay.of].at # "idle"
  /\ panel.ref # None => asks[panel.ref].by = "panel" /\ asks[panel.ref].at # "idle"
  /\ ~panel.open => ~panel.submitting

(* What is seen over the terminal, but for what went astray: a suggestion  *)
(* that is visible is of this tab and, if keys dismiss it, of this line;   *)
(* and the request that can still answer is the one that loads and that is *)
(* tracked, and is of this tab and this line too.                          *)
SuggestionFits ==
  /\ overlay.kind = "visible" /\ overlay.of \notin astray =>
       asks[overlay.of].tab = shownTab /\ (autoSuggest => asks[overlay.of].fresh)
  /\ overlay.kind = "loading" /\ overlay.of \notin astray => InFlight(overlay.of) \/ asks[overlay.of].aborted
  /\ \A o \in Op \ astray : InFlight(o) /\ asks[o].by = "inline" /\ ~asks[o].aborted =>
       /\ inlineRef = o /\ overlay.kind = "loading" /\ overlay.of = o
       /\ asks[o].tab = shownTab /\ (autoSuggest => asks[o].fresh)

(* And in the panel: what streams and was not stopped is what Stop would   *)
(* stop, and the panel says that it streams for a request that does.       *)
StreamFits ==
  /\ \A o \in Op \ astray : InFlight(o) /\ asks[o].bubble = "streaming" /\ ~asks[o].aborted =>
       panel.ref = o /\ panel.submitting
  /\ panel.submitting => panel.ref \in Op /\ InFlight(panel.ref) /\ asks[panel.ref].bubble = "streaming"

(* What the overlay and the panel of the assistant hold.                   *)
Overlay == [kind : {"idle", "loading", "visible", "error"}, of : 0 .. MaxOps]
Panel == [open : BOOLEAN, submitting : BOOLEAN, ref : 0 .. MaxOps, prompt : BOOLEAN]
AssistantInv == AssistantTypeOK /\ AsksFit /\ SuggestionFits /\ StreamFits

LEMMA AssistantRest ==
  /\ Idle \in Overlay /\ Idle.kind = "idle" /\ NotAsked \in Asked /\ NotAsked.at = "idle"
  /\ \A b \in BOOLEAN : /\ Mounted(b) \in Panel /\ Mounted(b).open /\ ~Mounted(b).submitting /\ Mounted(b).ref = None
                        /\ [Mounted(b) EXCEPT !.open = FALSE] \in Panel /\ ~[Mounted(b) EXCEPT !.open = FALSE].submitting
                        /\ [Mounted(b) EXCEPT !.open = FALSE].ref = None
<1>1. None \in 0 .. MaxOps
  BY NativeBridgeAssumption DEF None
<1>2. \A b \in BOOLEAN : /\ Mounted(b) \in Panel /\ Mounted(b).open = TRUE /\ Mounted(b).submitting = FALSE /\ Mounted(b).ref = None
                         /\ [Mounted(b) EXCEPT !.open = FALSE] \in Panel /\ [Mounted(b) EXCEPT !.open = FALSE].submitting = FALSE
                         /\ [Mounted(b) EXCEPT !.open = FALSE].ref = None
  BY <1>1 DEF Mounted, Panel
<1>3. Idle \in Overlay /\ Idle.kind = "idle"
  BY <1>1 DEF Idle, Overlay
<1>4. NotAsked \in Asked /\ NotAsked.at = "idle"
  BY DEF NotAsked, Asked
<1> QED BY <1>2, <1>3, <1>4

LEMMA AssistantInitial == Init => AssistantInv
<1> SUFFICES ASSUME Init PROVE AssistantInv
  OBVIOUS
<1>1. /\ asks = [o \in Op |-> NotAsked] /\ shownTab = 1 /\ autoSuggest \in BOOLEAN
      /\ timer = FALSE /\ overlay = Idle /\ inlineRef = None /\ astray = {}
      /\ panel = [Mounted(FALSE) EXCEPT !.open = FALSE]
  BY DEF Init, AssistantInit
<1>2. panel \in Panel /\ ~panel.submitting /\ panel.ref = None
  BY <1>1, AssistantRest
<1>3. overlay \in Overlay /\ overlay.kind = "idle"
  BY <1>1, AssistantRest
<1>4. asks \in [Op -> Asked] /\ \A o \in Op : asks[o].at = "idle"
  BY <1>1, AssistantRest
<1>5. AssistantTypeOK
  BY <1>1, <1>2, <1>3, <1>4, NativeBridgeAssumption DEF AssistantTypeOK, None, Overlay, Panel
<1> QED BY <1>2, <1>3, <1>4, <1>5 DEF AssistantInv, AsksFit, SuggestionFits, StreamFits, InFlight

(* Typing and aborting leave the rest of a request.                        *)
Like(as, bs) == \A o \in Op : /\ bs[o].by = as[o].by /\ bs[o].tab = as[o].tab
                              /\ bs[o].at = as[o].at /\ bs[o].bubble = as[o].bubble

LEMMA AbortedOne ==
  ASSUME NEW a \in Asked
  PROVE  LET b == [a EXCEPT !.aborted = TRUE]
         IN  /\ b \in Asked /\ b.by = a.by /\ b.tab = a.tab /\ b.at = a.at /\ b.bubble = a.bubble
             /\ b.fresh = a.fresh /\ b.aborted = TRUE
BY DEF Asked

LEMMA TypedOne ==
  ASSUME NEW a \in Asked
  PROVE  LET b == [a EXCEPT !.fresh = FALSE]
         IN  /\ b \in Asked /\ b.by = a.by /\ b.tab = a.tab /\ b.at = a.at /\ b.bubble = a.bubble
             /\ b.aborted = a.aborted
BY DEF Asked

LEMMA AbortedAsks ==
  ASSUME NEW as \in [Op -> Asked], NEW r \in 0 .. MaxOps
  PROVE  /\ Aborted(as, r) \in [Op -> Asked] /\ Like(as, Aborted(as, r))
         /\ \A o \in Op : /\ Aborted(as, r)[o].fresh = as[o].fresh
                          /\ o # r => Aborted(as, r)[o].aborted = as[o].aborted
                          /\ o = r => Aborted(as, r)[o].aborted = TRUE
<1>1. CASE r = None
  <2>1. Aborted(as, r) = as /\ r \notin Op
    BY <1>1 DEF Aborted, None, Op
  <2> QED BY <2>1 DEF Like
<1>2. CASE r # None
  <2>1. r \in Op
    BY <1>2, NativeBridgeAssumption DEF None, Op
  <2> DEFINE b == [as[r] EXCEPT !.aborted = TRUE]
  <2>2. Aborted(as, r) = [as EXCEPT ![r] = b]
    BY <1>2 DEF Aborted
  <2>3. /\ b \in Asked /\ b.by = as[r].by /\ b.tab = as[r].tab /\ b.at = as[r].at /\ b.bubble = as[r].bubble
        /\ b.fresh = as[r].fresh /\ b.aborted = TRUE
    BY <2>1, AbortedOne
  <2> HIDE DEF b
  <2>4. Aborted(as, r) \in [Op -> Asked] /\ Aborted(as, r)[r] = b /\ \A o \in Op \ {r} : Aborted(as, r)[o] = as[o]
    BY <2>1, <2>2, <2>3
  <2> QED BY <2>1, <2>3, <2>4 DEF Like
<1> QED BY <1>1, <1>2

LEMMA TypedAsks ==
  ASSUME NEW as \in [Op -> Asked]
  PROVE  /\ Typed(as) \in [Op -> Asked] /\ Like(as, Typed(as))
         /\ \A o \in Op : Typed(as)[o].aborted = as[o].aborted
<1>1. \A o \in Op : Typed(as)[o] = [as[o] EXCEPT !.fresh = FALSE]
  BY DEF Typed
<1>2. ASSUME NEW o \in Op
      PROVE  /\ Typed(as)[o] \in Asked /\ Typed(as)[o].by = as[o].by /\ Typed(as)[o].tab = as[o].tab
             /\ Typed(as)[o].at = as[o].at /\ Typed(as)[o].bubble = as[o].bubble /\ Typed(as)[o].aborted = as[o].aborted
  BY <1>1, TypedOne
<1>3. Typed(as) \in [Op -> Asked]
  BY <1>2 DEF Typed
<1> QED BY <1>2, <1>3 DEF Like

LEMMA NewAsk ==
  ASSUME NEW by \in {"inline", "panel"}, shownTab \in {1, 2}
  PROVE  /\ Asks(by) \in Asked /\ Asks(by).by = by /\ Asks(by).tab = shownTab /\ Asks(by).fresh = TRUE
         /\ Asks(by).aborted = FALSE /\ Asks(by).at = "sent"
         /\ by = "inline" => Asks(by).bubble = "none"
         /\ by = "panel" => Asks(by).bubble = "streaming"
BY DEF Asks, NotAsked, Asked

(* The next request: the one before is aborted, the others stay.           *)
LEMMA NextAsk ==
  ASSUME AssistantInv, BridgeTypeOK, Begin, NEW by \in {"inline", "panel"}, NEW r \in 0 .. MaxOps,
         NEW CONSTANT v, v = ops',
         asks' = [Aborted(asks, r) EXCEPT ![ops'] = Asks(by)]
  PROVE  /\ v \in Op /\ v = ops + 1 /\ asks' \in [Op -> Asked] /\ asks'[v] = Asks(by)
         /\ asks[v].at = "idle"
         /\ \A o \in Op \ {v} :
              /\ asks'[o].by = asks[o].by /\ asks'[o].tab = asks[o].tab /\ asks'[o].at = asks[o].at
              /\ asks'[o].bubble = asks[o].bubble /\ asks'[o].fresh = asks[o].fresh
              /\ o # r => asks'[o].aborted = asks[o].aborted
              /\ o = r => asks'[o].aborted = TRUE
<1>1. v \in Op /\ v = ops + 1 /\ ops \in Nat
  BY NativeBridgeAssumption DEF Begin, BridgeTypeOK, Op
<1>3. asks \in [Op -> Asked] /\ shownTab \in {1, 2}
  BY DEF AssistantInv, AssistantTypeOK
<1>4. /\ Aborted(asks, r) \in [Op -> Asked] /\ Like(asks, Aborted(asks, r))
      /\ \A o \in Op : /\ Aborted(asks, r)[o].fresh = asks[o].fresh
                       /\ o # r => Aborted(asks, r)[o].aborted = asks[o].aborted
                       /\ o = r => Aborted(asks, r)[o].aborted = TRUE
  BY <1>3, AbortedAsks
<1>5. Asks(by) \in Asked
  BY <1>3, NewAsk
<1>6. asks' \in [Op -> Asked] /\ asks'[v] = Asks(by) /\ \A o \in Op \ {v} : asks'[o] = Aborted(asks, r)[o]
  BY <1>1, <1>4, <1>5
<1>7. asks[v].at = "idle"
  BY <1>1, <1>3 DEF AssistantInv, AsksFit, Asked, Op
<1> QED BY <1>1, <1>4, <1>6, <1>7 DEF Like

LEMMA TriggerKeeps ==
  ASSUME AssistantInv, BridgeTypeOK, Trigger, timer' \in BOOLEAN
  PROVE  AssistantInv'
<1>1. /\ asks \in [Op -> Asked] /\ shownTab \in {1, 2} /\ autoSuggest \in BOOLEAN /\ overlay \in Overlay
      /\ inlineRef \in 0 .. MaxOps /\ panel \in Panel /\ astray \subseteq Op /\ SuggestionFits /\ StreamFits
  BY DEF AssistantInv, AssistantTypeOK, Overlay, Panel
<1>2. /\ Begin /\ asks' = [Aborted(asks, inlineRef) EXCEPT ![ops'] = Asks("inline")]
      /\ overlay' = [kind |-> "loading", of |-> ops'] /\ inlineRef' = ops'
      /\ shownTab' = shownTab /\ autoSuggest' = autoSuggest /\ panel' = panel /\ astray' = astray
  BY DEF Trigger
<1>3. PICK v : v = ops'
  OBVIOUS
<1>4. /\ v \in Op /\ v = ops + 1 /\ asks' \in [Op -> Asked] /\ asks'[v] = Asks("inline") /\ asks[v].at = "idle"
      /\ \A o \in Op \ {v} :
              /\ asks'[o].by = asks[o].by /\ asks'[o].tab = asks[o].tab /\ asks'[o].at = asks[o].at
              /\ asks'[o].bubble = asks[o].bubble
              /\ o # inlineRef => asks'[o].aborted = asks[o].aborted
              /\ o = inlineRef => asks'[o].aborted = TRUE
  <2>1. PICK r \in 0 .. MaxOps : r = inlineRef
    BY <1>1
  <2>2. asks' = [Aborted(asks, r) EXCEPT ![ops'] = Asks("inline")]
    BY <1>2, <2>1
  <2>3. /\ v \in Op /\ v = ops + 1 /\ asks' \in [Op -> Asked] /\ asks'[v] = Asks("inline") /\ asks[v].at = "idle"
        /\ \A o \in Op \ {v} :
              /\ asks'[o].by = asks[o].by /\ asks'[o].tab = asks[o].tab /\ asks'[o].at = asks[o].at
              /\ asks'[o].bubble = asks[o].bubble /\ asks'[o].fresh = asks[o].fresh
              /\ o # r => asks'[o].aborted = asks[o].aborted
              /\ o = r => asks'[o].aborted = TRUE
    BY ONLY AssistantInv, BridgeTypeOK, <1>2, <1>3, <2>2, NextAsk
  <2> QED BY <2>1, <2>3
<1>5. /\ asks'[v].by = "inline" /\ asks'[v].tab = shownTab /\ asks'[v].fresh /\ ~asks'[v].aborted
      /\ asks'[v].at = "sent" /\ asks'[v].bubble = "none"
  BY <1>1, <1>4, NewAsk
<1>6. overlay'.kind = "loading" /\ overlay'.of = v /\ overlay' \in Overlay /\ v \in 0 .. MaxOps /\ v # None /\ ops \in Nat
  BY <1>2, <1>3, <1>4, NativeBridgeAssumption DEF Overlay, Op, None, BridgeTypeOK
<1>7. AssistantTypeOK'
  BY <1>1, <1>2, <1>3, <1>4, <1>6 DEF AssistantTypeOK, Overlay, Panel
<1>8. AsksFit'
  <2>1. \A o \in Op : asks'[o].at # "idle" => o <= ops'
    BY <1>3, <1>4, <1>6 DEF AssistantInv, AsksFit, Op
  <2>2. panel.ref # None => panel.ref \in Op \ {v}
    BY <1>1, <1>4, NativeBridgeAssumption DEF AssistantInv, AsksFit, Panel, None, Op
  <2>3. \A o \in Op : InFlight(o)' => asks'[o].bubble # "still" /\ (asks'[o].by = "inline" => asks'[o].bubble = "none")
    BY <1>4, <1>5 DEF AssistantInv, AsksFit, InFlight
  <2>4. panel'.ref # None => asks'[panel'.ref].by = "panel" /\ asks'[panel'.ref].at # "idle"
    BY <1>2, <1>4, <2>2 DEF AssistantInv, AsksFit
  <2>5. ~panel'.open => ~panel'.submitting
    BY <1>2 DEF AssistantInv, AsksFit
  <2> QED BY <1>4, <1>5, <1>6, <2>1, <2>3, <2>4, <2>5 DEF AsksFit
<1>9. SuggestionFits'
  <2>1. \A o \in Op \ astray : InFlight(o)' /\ asks'[o].by = "inline" /\ ~asks'[o].aborted => o = v
    <3> SUFFICES ASSUME NEW o \in Op \ astray, o # v, InFlight(o)', asks'[o].by = "inline", ~asks'[o].aborted PROVE FALSE
      OBVIOUS
    <3>1. o # inlineRef /\ InFlight(o) /\ asks[o].by = "inline" /\ ~asks[o].aborted
      BY <1>4 DEF InFlight
    <3> QED BY <1>1, <3>1 DEF SuggestionFits
  <2>2. InFlight(v)' /\ inlineRef' = v
    BY <1>2, <1>3, <1>5 DEF InFlight
  <2> QED BY <1>2, <1>3, <1>5, <1>6, <2>1, <2>2 DEF SuggestionFits
<1>10. StreamFits'
  <2>1. panel.submitting => panel.ref \in Op \ {v}
    BY <1>1, <1>4 DEF StreamFits, InFlight
  <2>2. \A o \in Op : InFlight(o)' /\ asks'[o].bubble = "streaming" /\ ~asks'[o].aborted =>
          InFlight(o) /\ asks[o].bubble = "streaming" /\ ~asks[o].aborted
    <3> SUFFICES ASSUME NEW o \in Op, InFlight(o)', asks'[o].bubble = "streaming", ~asks'[o].aborted
                 PROVE  InFlight(o) /\ asks[o].bubble = "streaming" /\ ~asks[o].aborted
      OBVIOUS
    <3>1. o # v
      BY <1>5
    <3> QED BY <1>4, <3>1 DEF InFlight
  <2> QED BY <1>1, <1>2, <1>4, <2>1, <2>2 DEF StreamFits, InFlight
<1> QED BY <1>7, <1>8, <1>9, <1>10 DEF AssistantInv

LEMMA SendKeeps ==
  ASSUME AssistantInv, BridgeTypeOK, NEW p \in Panel, SendText(p), p.open,
         p.ref = panel.ref \/ (p.ref = None /\ ~panel.submitting)
  PROVE  AssistantInv'
<1>1. /\ asks \in [Op -> Asked] /\ shownTab \in {1, 2} /\ autoSuggest \in BOOLEAN /\ overlay \in Overlay
      /\ inlineRef \in 0 .. MaxOps /\ panel \in Panel /\ timer \in BOOLEAN /\ p.ref \in 0 .. MaxOps
      /\ astray \subseteq Op /\ SuggestionFits /\ StreamFits
  BY DEF AssistantInv, AssistantTypeOK, Overlay, Panel
<1>2. /\ Begin /\ asks' = [Aborted(asks, p.ref) EXCEPT ![ops'] = Asks("panel")]
      /\ panel' = [p EXCEPT !.ref = ops', !.submitting = TRUE]
      /\ UNCHANGED <<shownTab, autoSuggest, timer, overlay, inlineRef, astray>>
  BY DEF SendText
<1>3. PICK v : v = ops'
  OBVIOUS
<1>4. /\ v \in Op /\ v = ops + 1 /\ asks' \in [Op -> Asked] /\ asks'[v] = Asks("panel") /\ asks[v].at = "idle"
      /\ \A o \in Op \ {v} :
              /\ asks'[o].by = asks[o].by /\ asks'[o].tab = asks[o].tab /\ asks'[o].at = asks[o].at
              /\ asks'[o].bubble = asks[o].bubble /\ asks'[o].fresh = asks[o].fresh
              /\ o # p.ref => asks'[o].aborted = asks[o].aborted
              /\ o = p.ref => asks'[o].aborted = TRUE
  <2>1. PICK r \in 0 .. MaxOps : r = p.ref
    BY <1>1
  <2>2. asks' = [Aborted(asks, r) EXCEPT ![ops'] = Asks("panel")]
    BY <1>2, <2>1
  <2>3. /\ v \in Op /\ v = ops + 1 /\ asks' \in [Op -> Asked] /\ asks'[v] = Asks("panel") /\ asks[v].at = "idle"
        /\ \A o \in Op \ {v} :
              /\ asks'[o].by = asks[o].by /\ asks'[o].tab = asks[o].tab /\ asks'[o].at = asks[o].at
              /\ asks'[o].bubble = asks[o].bubble /\ asks'[o].fresh = asks[o].fresh
              /\ o # r => asks'[o].aborted = asks[o].aborted
              /\ o = r => asks'[o].aborted = TRUE
    BY ONLY AssistantInv, BridgeTypeOK, <1>2, <1>3, <2>2, NextAsk
  <2> QED BY <2>1, <2>3
<1>5. asks'[v].by = "panel" /\ asks'[v].at = "sent" /\ asks'[v].bubble = "streaming"
  BY <1>1, <1>4, NewAsk
<1>6. v \in 0 .. MaxOps /\ v # None /\ ops \in Nat
  BY <1>4, NativeBridgeAssumption DEF Op, None, BridgeTypeOK
<1>7. panel' \in Panel /\ panel'.ref = v /\ panel'.submitting = TRUE /\ panel'.open = p.open
  BY <1>2, <1>3, <1>6 DEF Panel
<1>8. AssistantTypeOK'
  BY <1>1, <1>2, <1>3, <1>4, <1>7 DEF AssistantTypeOK, Overlay, Panel
<1>9. overlay.kind \in {"loading", "visible"} => overlay.of \in Op \ {v} /\ overlay.of # p.ref
  BY <1>1, <1>4 DEF AssistantInv, AsksFit, None, Op
<1>10. AsksFit'
  <2>1. \A o \in Op : asks'[o].at # "idle" => o <= ops'
    BY <1>3, <1>4, <1>6 DEF AssistantInv, AsksFit, Op
  <2>2. overlay'.kind \in {"loading", "visible"} => overlay'.of \in Op /\ asks'[overlay'.of].by = "inline" /\ asks'[overlay'.of].at # "idle"
    BY <1>2, <1>4, <1>9 DEF AssistantInv, AsksFit
  <2>3. \A o \in Op : InFlight(o)' => asks'[o].bubble # "still" /\ (asks'[o].by = "inline" => asks'[o].bubble = "none")
    BY <1>4, <1>5 DEF AssistantInv, AsksFit, InFlight
  <2> QED BY <1>4, <1>5, <1>7, <2>1, <2>2, <2>3 DEF AsksFit
<1>11. SuggestionFits'
  <2>1. overlay.kind \in {"loading", "visible"} =>
           /\ asks'[overlay.of].tab = asks[overlay.of].tab /\ asks'[overlay.of].fresh = asks[overlay.of].fresh
           /\ asks'[overlay.of].at = asks[overlay.of].at /\ asks'[overlay.of].aborted = asks[overlay.of].aborted
    BY <1>4, <1>9
  <2>2. \A o \in Op : InFlight(o)' /\ asks'[o].by = "inline" /\ ~asks'[o].aborted =>
           /\ InFlight(o) /\ asks[o].by = "inline" /\ ~asks[o].aborted
           /\ asks'[o].tab = asks[o].tab /\ asks'[o].fresh = asks[o].fresh
    <3> SUFFICES ASSUME NEW o \in Op, InFlight(o)', asks'[o].by = "inline", ~asks'[o].aborted
                 PROVE  /\ InFlight(o) /\ asks[o].by = "inline" /\ ~asks[o].aborted
                        /\ asks'[o].tab = asks[o].tab /\ asks'[o].fresh = asks[o].fresh
      OBVIOUS
    <3>1. o # v
      BY <1>5
    <3> QED BY <1>4, <3>1 DEF InFlight
  <2> QED BY <1>1, <1>2, <2>1, <2>2 DEF SuggestionFits, InFlight
<1>12. StreamFits'
  <2>1. \A o \in Op \ astray : InFlight(o)' /\ asks'[o].bubble = "streaming" /\ ~asks'[o].aborted => o = v
    <3> SUFFICES ASSUME NEW o \in Op \ astray, o # v, InFlight(o)', asks'[o].bubble = "streaming", ~asks'[o].aborted
                 PROVE  FALSE
      OBVIOUS
    <3>1. o # p.ref /\ InFlight(o) /\ asks[o].bubble = "streaming" /\ ~asks[o].aborted
      BY <1>4 DEF InFlight
    <3>2. panel.ref = o /\ panel.submitting
      BY <1>1, <3>1 DEF StreamFits
    <3> QED BY <3>1, <3>2
  <2> QED BY <1>2, <1>4, <1>5, <1>7, <2>1 DEF StreamFits, InFlight
<1> QED BY <1>8, <1>10, <1>11, <1>12 DEF AssistantInv

(* What InlineSuggestion does with its own request leaves the panel alone. *)
LEMMA PanelStays ==
  ASSUME AssistantInv, asks' \in [Op -> Asked], UNCHANGED <<panel, ops, autoSuggest>>, astray \subseteq astray', astray' \subseteq Op,
         \A o \in Op : /\ asks'[o].by = asks[o].by /\ asks'[o].bubble = asks[o].bubble
                       /\ asks[o].aborted => asks'[o].aborted
                       /\ \/ asks'[o].at = asks[o].at
                          \/ asks[o].by = "inline" /\ asks[o].at = "sent" /\ asks'[o].at = "ended",
         overlay' \in Overlay, shownTab' \in {1, 2}, timer' \in BOOLEAN, inlineRef' \in 0 .. MaxOps,
         \/ overlay'.kind \notin {"loading", "visible"}
         \/ overlay' = overlay
         \/ overlay'.of \in Op /\ asks[overlay'.of].by = "inline" /\ asks[overlay'.of].at = "sent",
         SuggestionFits'
  PROVE  AssistantInv'
<1>1. AssistantTypeOK'
  BY DEF AssistantInv, AssistantTypeOK, Overlay
<1>2. AsksFit'
  <2>1. overlay'.kind \in {"loading", "visible"} => overlay'.of \in Op /\ asks'[overlay'.of].by = "inline" /\ asks'[overlay'.of].at # "idle"
    BY DEF AssistantInv, AsksFit
  <2>2. panel.ref # None => panel.ref \in Op
    BY NativeBridgeAssumption DEF AssistantInv, AssistantTypeOK, None, Op
  <2>3. panel'.ref # None => asks'[panel'.ref].by = "panel" /\ asks'[panel'.ref].at # "idle"
    BY <2>2 DEF AssistantInv, AsksFit
  <2>4. \A o \in Op : asks'[o].at # "idle" => o <= ops'
    BY DEF AssistantInv, AsksFit
  <2>5. \A o \in Op : InFlight(o)' => asks'[o].bubble # "still" /\ (asks'[o].by = "inline" => asks'[o].bubble = "none")
    BY DEF AssistantInv, AsksFit, InFlight
  <2>6. ~panel'.open => ~panel'.submitting
    BY DEF AssistantInv, AsksFit
  <2> QED BY <2>1, <2>3, <2>4, <2>5, <2>6 DEF AsksFit
<1>3. StreamFits'
  <2>1. StreamFits /\ AsksFit
    BY DEF AssistantInv
  <2>2. panel.submitting => InFlight(panel.ref)' /\ asks'[panel.ref].bubble = "streaming"
    BY <2>1 DEF StreamFits, AsksFit, InFlight
  <2>3. \A o \in Op : InFlight(o)' /\ asks'[o].bubble = "streaming" /\ ~asks'[o].aborted =>
          InFlight(o) /\ asks[o].bubble = "streaming" /\ ~asks[o].aborted
    BY DEF InFlight
  <2>4. panel' = panel
    OBVIOUS
  <2> QED BY <2>1, <2>2, <2>3, <2>4 DEF StreamFits
<1> QED BY <1>1, <1>2, <1>3 DEF AssistantInv

(* What is dismissed or left: nothing in flight can answer any more, but   *)
(* for what went astray; with its tab, a suggestion on the screen does.    *)
LEMMA AbortKeeps ==
  ASSUME AssistantInv, UNCHANGED <<panel, ops, autoSuggest>>, astray \subseteq astray', astray' \subseteq Op,
         asks' \in [Op -> Asked], Like(asks, asks'),
         \A o \in Op : /\ o # inlineRef => asks'[o].aborted = asks[o].aborted
                       /\ o = inlineRef => asks'[o].aborted = TRUE,
         overlay' = Idle \/ (overlay' = overlay /\ (overlay.kind = "visible" => overlay.of \in astray')),
         shownTab' \in {1, 2}, timer' \in BOOLEAN, inlineRef' \in 0 .. MaxOps
  PROVE  AssistantInv'
<1>1. /\ overlay \in Overlay /\ Idle \in Overlay /\ Idle.kind = "idle" /\ asks \in [Op -> Asked]
      /\ SuggestionFits /\ AsksFit
  BY AssistantRest DEF AssistantInv, AssistantTypeOK, Overlay
<1>2. overlay' \in Overlay /\ (overlay'.kind = "idle" \/ overlay' = overlay)
  BY <1>1
<1>3. \A o \in Op : /\ asks'[o].by = asks[o].by /\ asks'[o].bubble = asks[o].bubble /\ asks'[o].at = asks[o].at
                    /\ asks[o].aborted => asks'[o].aborted
  BY DEF Like
<1>4. SuggestionFits'
  <2>1. \A o \in Op : o \notin astray' /\ asks'[o].at = "sent" /\ asks'[o].by = "inline" => asks'[o].aborted
    <3> SUFFICES ASSUME NEW o \in Op, o \notin astray', asks'[o].at = "sent", asks'[o].by = "inline", ~asks'[o].aborted
                 PROVE  FALSE
      OBVIOUS
    <3>1. o # inlineRef /\ InFlight(o) /\ asks[o].by = "inline" /\ ~asks[o].aborted
      BY <1>3 DEF InFlight
    <3> QED BY <1>1, <3>1 DEF SuggestionFits
  <2>2. overlay'.kind = "loading" /\ overlay'.of \notin astray' => asks'[overlay'.of].at = "sent" \/ asks'[overlay'.of].aborted
    <3> SUFFICES ASSUME overlay'.kind = "loading", overlay'.of \notin astray'
                 PROVE  asks'[overlay'.of].at = "sent" \/ asks'[overlay'.of].aborted
      BY DEF InFlight
    <3>1. overlay' = overlay /\ overlay.of \in Op
      BY <1>1, <1>2 DEF AsksFit
    <3> QED BY <1>1, <1>3, <3>1 DEF SuggestionFits, InFlight
  <2>3. overlay'.kind = "visible" => overlay'.of \in astray'
    BY <1>1
  <2> QED BY <2>1, <2>2, <2>3 DEF SuggestionFits, InFlight
<1>5. overlay'.kind \notin {"loading", "visible"} \/ overlay' = overlay
  BY <1>2
<1> QED BY <1>2, <1>3, <1>4, <1>5, PanelStays

LEMMA EscapeKeeps == ASSUME AssistantInv, PressEscape PROVE AssistantInv'
<1>1. /\ asks \in [Op -> Asked] /\ shownTab \in {1, 2} /\ inlineRef \in 0 .. MaxOps /\ timer \in BOOLEAN
      /\ None \in 0 .. MaxOps /\ astray \subseteq Op
  BY NativeBridgeAssumption DEF AssistantInv, AssistantTypeOK, None
<1>2. /\ UNCHANGED <<panel, ops, autoSuggest, shownTab, timer, astray>>
      /\ asks' = Aborted(asks, inlineRef) /\ inlineRef' = None /\ overlay' = Idle
  BY DEF PressEscape, Dismissed, bridge, shared, manner
<1> QED BY <1>1, <1>2, AbortedAsks, AbortKeeps

LEMMA SwitchKeeps == ASSUME AssistantInv, SwitchTab PROVE AssistantInv'
<1>1. /\ asks \in [Op -> Asked] /\ shownTab \in {1, 2} /\ inlineRef \in 0 .. MaxOps /\ astray \subseteq Op
      /\ overlay.kind = "visible" => overlay.of \in Op
  BY DEF AssistantInv, AssistantTypeOK, AsksFit
<1>2. /\ UNCHANGED <<panel, ops, autoSuggest, inlineRef, overlay>> /\ shownTab' = 3 - shownTab /\ timer' = FALSE
      /\ asks' = Aborted(asks, inlineRef)
      /\ astray' = astray \cup (IF overlay.kind = "visible" THEN {overlay.of} ELSE {})
  BY DEF SwitchTab, bridge
<1>3. shownTab' \in {1, 2} /\ timer' \in BOOLEAN /\ inlineRef' \in 0 .. MaxOps
  <2>1. 3 - shownTab \in {1, 2}
    BY <1>1
  <2> QED BY <1>1, <1>2, <2>1
<1>4. /\ asks' \in [Op -> Asked] /\ Like(asks, asks')
      /\ \A o \in Op : /\ o # inlineRef => asks'[o].aborted = asks[o].aborted
                       /\ o = inlineRef => asks'[o].aborted = TRUE
  BY <1>1, <1>2, AbortedAsks
<1>5. astray \subseteq astray' /\ astray' \subseteq Op /\ (overlay.kind = "visible" => overlay.of \in astray')
  BY <1>1, <1>2
<1> QED BY <1>2, <1>3, <1>4, <1>5, AbortKeeps

(* A key that dismisses nothing, or that accepts what is visible.          *)
LEMMA TypedKeeps ==
  ASSUME AssistantInv, UNCHANGED <<panel, ops, autoSuggest, shownTab, inlineRef, astray>>, asks' = Typed(asks), timer' \in BOOLEAN,
         \/ overlay' = Idle /\ overlay.kind = "visible"
         \/ overlay' = overlay /\ (overlay.kind # "idle" => ~autoSuggest)
  PROVE  AssistantInv'
<1>1. /\ asks \in [Op -> Asked] /\ shownTab \in {1, 2} /\ overlay \in Overlay /\ inlineRef \in 0 .. MaxOps
      /\ Idle \in Overlay /\ Idle.kind = "idle" /\ astray \subseteq Op
  BY AssistantRest DEF AssistantInv, AssistantTypeOK, Overlay
<1>2. /\ asks' \in [Op -> Asked] /\ Like(asks, asks')
      /\ \A o \in Op : asks'[o].aborted = asks[o].aborted
  BY <1>1, TypedAsks
<1>3. SuggestionFits'
  <2>1. SuggestionFits /\ AsksFit
    BY DEF AssistantInv
  <2>2. \A o \in Op : /\ asks'[o].at = asks[o].at /\ asks'[o].by = asks[o].by /\ asks'[o].aborted = asks[o].aborted
                      /\ asks'[o].tab = asks[o].tab
    BY <1>2 DEF Like
  <2>3. CASE overlay' = Idle /\ overlay.kind = "visible"
    BY <1>1, <2>1, <2>2, <2>3 DEF SuggestionFits, InFlight
  <2>4. CASE overlay' = overlay /\ overlay.kind = "idle"
    BY <2>1, <2>2, <2>4 DEF SuggestionFits, InFlight
  <2>5. CASE overlay' = overlay /\ ~autoSuggest
    <3>1. overlay.kind \in {"loading", "visible"} => overlay.of \in Op
      BY <2>1 DEF AsksFit
    <3> QED BY <2>1, <2>2, <2>5, <3>1 DEF SuggestionFits, InFlight
  <2> QED BY <2>3, <2>4, <2>5
<1>4. \A o \in Op : asks'[o].by = asks[o].by /\ asks'[o].bubble = asks[o].bubble /\ asks'[o].at = asks[o].at
                    /\ (asks[o].aborted => asks'[o].aborted)
  BY <1>2 DEF Like
<1>5. overlay' \in Overlay /\ (overlay'.kind \notin {"loading", "visible"} \/ overlay' = overlay)
  BY <1>1
<1>6. shownTab' \in {1, 2} /\ inlineRef' \in 0 .. MaxOps
  BY <1>1
<1> QED BY <1>1, <1>2, <1>3, <1>4, <1>5, <1>6, PanelStays

LEMMA KeyKeeps == ASSUME AssistantInv, TypeKey PROVE AssistantInv'
<1>1. /\ asks \in [Op -> Asked] /\ shownTab \in {1, 2} /\ inlineRef \in 0 .. MaxOps /\ autoSuggest \in BOOLEAN
      /\ None \in 0 .. MaxOps /\ astray \subseteq Op
  BY NativeBridgeAssumption DEF AssistantInv, AssistantTypeOK, None
<1>2. UNCHANGED <<panel, ops, autoSuggest, shownTab, astray>> /\ timer' = autoSuggest
  BY DEF TypeKey, bridge
<1>3. CASE autoSuggest /\ overlay.kind # "idle"
  <2>1. asks' = Aborted(Typed(asks), inlineRef) /\ inlineRef' = None /\ overlay' = Idle
    BY <1>3 DEF TypeKey, Dismissed
  <2>2. /\ Typed(asks) \in [Op -> Asked] /\ Like(asks, Typed(asks))
        /\ \A o \in Op : Typed(asks)[o].aborted = asks[o].aborted
    BY <1>1, TypedAsks
  <2>3. /\ asks' \in [Op -> Asked] /\ Like(Typed(asks), asks')
        /\ \A o \in Op : /\ o # inlineRef => asks'[o].aborted = Typed(asks)[o].aborted
                         /\ o = inlineRef => asks'[o].aborted = TRUE
    BY <1>1, <2>1, <2>2, AbortedAsks
  <2>4. /\ Like(asks, asks')
        /\ \A o \in Op : /\ o # inlineRef => asks'[o].aborted = asks[o].aborted
                         /\ o = inlineRef => asks'[o].aborted = TRUE
    BY <2>2, <2>3 DEF Like
  <2>5. shownTab' \in {1, 2} /\ timer' \in BOOLEAN /\ inlineRef' \in 0 .. MaxOps
    BY <1>1, <1>2, <2>1
  <2> QED BY <1>1, <1>2, <2>1, <2>3, <2>4, <2>5, AbortKeeps
<1>4. CASE ~(autoSuggest /\ overlay.kind # "idle")
  <2>1. asks' = Typed(asks) /\ overlay' = overlay /\ inlineRef' = inlineRef
    BY <1>4 DEF TypeKey
  <2>2. timer' \in BOOLEAN /\ (overlay.kind # "idle" => ~autoSuggest)
    BY <1>1, <1>2, <1>4
  <2> QED BY <1>2, <2>1, <2>2, TypedKeeps
<1> QED BY <1>3, <1>4

LEMMA AcceptKeeps == ASSUME AssistantInv, Accept PROVE AssistantInv'
<1>1. timer \in BOOLEAN
  BY DEF AssistantInv, AssistantTypeOK
<1>2. /\ UNCHANGED <<panel, ops, autoSuggest, shownTab, inlineRef, timer, astray>>
      /\ asks' = Typed(asks) /\ overlay' = Idle /\ overlay.kind = "visible"
  BY DEF Accept, bridge, shared, manner
<1> QED BY <1>1, <1>2, TypedKeeps

LEMMA SuggestionEndKeeps == ASSUME AssistantInv, NEW o \in Op, SuggestionEnds(o) PROVE AssistantInv'
<1>1. /\ asks \in [Op -> Asked] /\ shownTab \in {1, 2} /\ timer \in BOOLEAN /\ overlay \in Overlay
      /\ None \in 0 .. MaxOps /\ Idle \in Overlay /\ Idle.kind = "idle" /\ o \in 0 .. MaxOps
      /\ inlineRef \in 0 .. MaxOps /\ astray \subseteq Op
  BY AssistantRest, NativeBridgeAssumption DEF AssistantInv, AssistantTypeOK, Overlay, None, Op
<1>2. /\ UNCHANGED <<panel, ops, autoSuggest, shownTab, timer>> /\ inlineRef' = None
      /\ astray' = astray \cup ({inlineRef} \ {None, o})
      /\ asks[o].at = "sent" /\ asks[o].by = "inline"
      /\ asks' = [asks EXCEPT ![o].at = "ended"]
      /\ asks[o].aborted => overlay' = overlay
      /\ ~asks[o].aborted => overlay' \in {Idle} \cup {[kind |-> k, of |-> o] : k \in {"visible", "error"}}
  BY DEF SuggestionEnds, bridge, InFlight, Cleared
<1> DEFINE b == [asks[o] EXCEPT !.at = "ended"]
<1>3. /\ b \in Asked /\ b.by = asks[o].by /\ b.bubble = asks[o].bubble /\ b.aborted = asks[o].aborted
      /\ b.tab = asks[o].tab /\ b.fresh = asks[o].fresh /\ b.at = "ended"
  BY <1>1 DEF Asked
<1>4. asks' = [asks EXCEPT ![o] = b]
  BY <1>2
<1> HIDE DEF b
<1>5. asks' \in [Op -> Asked] /\ asks'[o] = b /\ \A x \in Op \ {o} : asks'[x] = asks[x]
  BY <1>1, <1>3, <1>4
<1>6. ~asks[o].aborted => overlay' \in Overlay /\ overlay'.kind \in {"idle", "visible", "error"} /\ (overlay'.kind = "visible" => overlay'.of = o)
  BY <1>1, <1>2 DEF Overlay
<1>7. overlay' \in Overlay
  BY <1>1, <1>2, <1>6
<1>8. SuggestionFits'
  <2>1. SuggestionFits /\ AsksFit
    BY DEF AssistantInv
  <2>2. \A x \in Op : InFlight(x)' => x # o /\ InFlight(x) /\ asks'[x] = asks[x]
    BY <1>3, <1>5 DEF InFlight
  <2>3. \A x \in Op : x \notin astray' /\ asks'[x].at = "sent" /\ asks'[x].by = "inline" => asks'[x].aborted
    <3> SUFFICES ASSUME NEW x \in Op, x \notin astray', asks'[x].at = "sent", asks'[x].by = "inline", ~asks'[x].aborted
                 PROVE  FALSE
      OBVIOUS
    <3>1. x # o /\ InFlight(x) /\ asks[x].by = "inline" /\ ~asks[x].aborted
      BY <2>2 DEF InFlight
    <3>2. x \in Op \ astray
      BY <1>2
    <3>3. inlineRef = x /\ x # None
      BY <2>1, <3>1, <3>2 DEF SuggestionFits, Op, None
    <3> QED BY <1>2, <3>1, <3>3
  <2>4. CASE asks[o].aborted
    <3>1. overlay' = overlay
      BY <1>2, <2>4
    <3>2. overlay.kind \in {"loading", "visible"} => /\ overlay.of \in Op /\ asks'[overlay.of].tab = asks[overlay.of].tab
                                                    /\ asks'[overlay.of].fresh = asks[overlay.of].fresh
                                                    /\ asks'[overlay.of].aborted = asks[overlay.of].aborted
      BY <1>3, <1>5, <2>1 DEF AsksFit
    <3>3. overlay.kind = "loading" /\ overlay.of \notin astray => asks'[overlay.of].at = "sent" \/ asks'[overlay.of].aborted
      BY <1>3, <1>5, <2>1, <2>4, <3>2 DEF SuggestionFits, InFlight
    <3>4. \A x : x \notin astray' => x \notin astray
      BY <1>2
    <3> QED BY <1>2, <2>1, <2>3, <3>1, <3>2, <3>3, <3>4 DEF SuggestionFits, InFlight
  <2>5. CASE ~asks[o].aborted
    <3>1. o \notin astray => asks'[o].tab = shownTab /\ (autoSuggest => asks'[o].fresh)
      BY <1>2, <1>3, <1>5, <2>1, <2>5 DEF SuggestionFits, InFlight
    <3>2. o \notin astray' => o \notin astray
      BY <1>2
    <3> QED BY <1>2, <1>6, <2>3, <2>5, <3>1, <3>2 DEF SuggestionFits, InFlight
  <2> QED BY <2>4, <2>5
<1>9. \A x \in Op : /\ asks'[x].by = asks[x].by /\ asks'[x].bubble = asks[x].bubble
                    /\ asks[x].aborted => asks'[x].aborted
                    /\ \/ asks'[x].at = asks[x].at
                       \/ asks[x].by = "inline" /\ asks[x].at = "sent" /\ asks'[x].at = "ended"
  BY <1>2, <1>3, <1>5
<1>10. \/ overlay'.kind \notin {"loading", "visible"}
       \/ overlay' = overlay
       \/ overlay'.of \in Op /\ asks[overlay'.of].by = "inline" /\ asks[overlay'.of].at = "sent"
  BY <1>2, <1>6
<1>11. shownTab' \in {1, 2} /\ timer' \in BOOLEAN /\ inlineRef' \in 0 .. MaxOps
  BY <1>1, <1>2
<1>12. astray \subseteq astray' /\ astray' \subseteq Op
  BY <1>1, <1>2, NativeBridgeAssumption DEF Op, None
<1> QED BY <1>2, <1>5, <1>7, <1>8, <1>9, <1>10, <1>11, <1>12, PanelStays

(* And what the panel does leaves the suggestion alone.                    *)
LEMMA OverlayStays ==
  ASSUME AssistantInv, asks' \in [Op -> Asked], panel' \in Panel,
         UNCHANGED <<ops, shownTab, autoSuggest, timer, overlay, inlineRef>>, astray \subseteq astray', astray' \subseteq Op,
         \A o \in Op : /\ asks'[o].by = asks[o].by /\ asks'[o].tab = asks[o].tab /\ asks'[o].fresh = asks[o].fresh
                       /\ asks'[o].at = asks[o].at \/ (asks[o].by = "panel" /\ asks[o].at = "sent" /\ asks'[o].at = "ended")
                       /\ asks[o].aborted => asks'[o].aborted
                       /\ InFlight(o)' => asks'[o].bubble \in {asks[o].bubble, "none"},
         panel'.ref \in {None, panel.ref}, ~panel'.open => ~panel'.submitting,
         StreamFits'
  PROVE  AssistantInv'
<1>1. AssistantTypeOK'
  BY DEF AssistantInv, AssistantTypeOK, Panel
<1>2. AsksFit'
  <2>1. overlay'.kind \in {"loading", "visible"} => overlay'.of \in Op /\ asks'[overlay'.of].by = "inline" /\ asks'[overlay'.of].at # "idle"
    BY DEF AssistantInv, AsksFit
  <2>2. panel.ref # None => panel.ref \in Op
    BY NativeBridgeAssumption DEF AssistantInv, AssistantTypeOK, None, Op
  <2>3. panel'.ref # None => asks'[panel'.ref].by = "panel" /\ asks'[panel'.ref].at # "idle"
    BY <2>2 DEF AssistantInv, AsksFit
  <2>4. \A o \in Op : asks'[o].at # "idle" => o <= ops'
    BY DEF AssistantInv, AsksFit
  <2>5. \A o \in Op : InFlight(o)' => asks'[o].bubble # "still" /\ (asks'[o].by = "inline" => asks'[o].bubble = "none")
    BY DEF AssistantInv, AsksFit, InFlight
  <2> QED BY <2>1, <2>3, <2>4, <2>5 DEF AsksFit
<1>3. SuggestionFits'
  <2>1. SuggestionFits /\ AsksFit
    BY DEF AssistantInv
  <2>2. \A o \in Op : InFlight(o)' /\ asks'[o].by = "inline" /\ ~asks'[o].aborted =>
          InFlight(o) /\ asks[o].by = "inline" /\ ~asks[o].aborted
    BY DEF InFlight
  <2>3. overlay.kind \in {"loading", "visible"} => overlay.of \in Op /\ asks[overlay.of].by = "inline"
    BY <2>1 DEF AsksFit
  <2>4. overlay.kind = "loading" /\ overlay.of \notin astray => InFlight(overlay.of)' \/ asks'[overlay.of].aborted
    BY <2>1, <2>3 DEF SuggestionFits, InFlight
  <2>5. \A x : x \notin astray' => x \notin astray
    OBVIOUS
  <2>6. \A o \in Op : asks'[o].tab = asks[o].tab /\ asks'[o].fresh = asks[o].fresh
    OBVIOUS
  <2>7. overlay' = overlay /\ inlineRef' = inlineRef /\ shownTab' = shownTab /\ autoSuggest' = autoSuggest
    OBVIOUS
  <2> QED BY <2>1, <2>2, <2>3, <2>4, <2>5, <2>6, <2>7 DEF SuggestionFits
<1> QED BY <1>1, <1>2, <1>3 DEF AssistantInv

LEMMA CloseThePanel == ASSUME AssistantInv, ClosePanel PROVE AssistantInv'
<1>1. asks \in [Op -> Asked] /\ panel \in Panel /\ astray \subseteq Op
  BY DEF AssistantInv, AssistantTypeOK, Panel
<1>2. /\ UNCHANGED <<ops, shownTab, autoSuggest, timer, overlay, inlineRef, astray>>
      /\ panel' = [Mounted(panel.prompt) EXCEPT !.open = FALSE]
      /\ asks' = [o \in Op |-> [asks[o] EXCEPT !.bubble = "none"]]
  BY DEF ClosePanel, bridge
<1>3. panel' \in Panel /\ panel'.ref = None /\ ~panel'.submitting
  <2>1. panel.prompt \in BOOLEAN
    BY <1>1 DEF Panel
  <2> QED BY <1>2, <2>1, AssistantRest
<1>4. ASSUME NEW o \in Op
      PROVE  /\ asks'[o] \in Asked /\ asks'[o].by = asks[o].by /\ asks'[o].tab = asks[o].tab /\ asks'[o].fresh = asks[o].fresh
             /\ asks'[o].at = asks[o].at /\ asks'[o].aborted = asks[o].aborted /\ asks'[o].bubble = "none"
  <2>1. asks'[o] = [asks[o] EXCEPT !.bubble = "none"] /\ asks[o] \in Asked
    BY <1>1, <1>2
  <2> QED BY <2>1 DEF Asked
<1>5. asks' \in [Op -> Asked]
  BY <1>2, <1>4
<1>6. StreamFits'
  BY <1>3, <1>4 DEF StreamFits
<1> QED BY <1>1, <1>2, <1>3, <1>4, <1>5, <1>6, OverlayStays

LEMMA CancelStreamKeeps == ASSUME AssistantInv, CancelStreaming PROVE AssistantInv'
<1>1. asks \in [Op -> Asked] /\ panel \in Panel /\ panel.ref \in 0 .. MaxOps /\ astray \subseteq Op
  BY DEF AssistantInv, AssistantTypeOK, Panel
<1>2. /\ UNCHANGED <<ops, shownTab, autoSuggest, timer, overlay, inlineRef, panel, astray>>
      /\ asks' = Aborted(asks, panel.ref)
  BY DEF CancelStreaming, bridge
<1>3. /\ asks' \in [Op -> Asked] /\ Like(asks, asks')
      /\ \A o \in Op : /\ asks'[o].fresh = asks[o].fresh
                       /\ o # panel.ref => asks'[o].aborted = asks[o].aborted
                       /\ o = panel.ref => asks'[o].aborted = TRUE
  BY <1>1, <1>2, AbortedAsks
<1>4. \A o \in Op : /\ asks'[o].by = asks[o].by /\ asks'[o].tab = asks[o].tab /\ asks'[o].fresh = asks[o].fresh
                    /\ asks'[o].at = asks[o].at /\ asks'[o].bubble = asks[o].bubble
                    /\ asks[o].aborted => asks'[o].aborted
  BY <1>3 DEF Like
<1>5. StreamFits'
  <2>1. StreamFits
    BY DEF AssistantInv
  <2>2. \A o \in Op : InFlight(o)' <=> InFlight(o)
    BY <1>4 DEF InFlight
  <2> QED BY <1>2, <1>4, <2>1, <2>2 DEF StreamFits, InFlight
<1>6. ~panel'.open => ~panel'.submitting
  BY <1>2 DEF AssistantInv, AsksFit
<1> QED BY <1>1, <1>2, <1>3, <1>4, <1>5, <1>6, OverlayStays

LEMMA StreamEndKeeps == ASSUME AssistantInv, NEW o \in Op, StreamEnds(o) PROVE AssistantInv'
<1>1. asks \in [Op -> Asked] /\ panel \in Panel /\ None \in 0 .. MaxOps /\ astray \subseteq Op /\ panel.ref \in 0 .. MaxOps
  BY NativeBridgeAssumption DEF AssistantInv, AssistantTypeOK, Panel, None
<1> DEFINE b == [asks[o] EXCEPT !.at = "ended", !.bubble = IF @ = "none" THEN "none" ELSE "still"]
<1>2. /\ UNCHANGED <<ops, shownTab, autoSuggest, timer, overlay, inlineRef>>
      /\ asks[o].at = "sent" /\ asks[o].by = "panel"
      /\ panel' = IF asks[o].bubble = "none" THEN panel ELSE [panel EXCEPT !.submitting = FALSE, !.ref = None]
      /\ astray' = IF asks[o].bubble = "none" THEN astray ELSE astray \cup ({panel.ref} \ {None, o})
  BY DEF StreamEnds, bridge, InFlight, Cleared
<1>3. /\ b \in Asked /\ b.by = asks[o].by /\ b.aborted = asks[o].aborted
      /\ b.tab = asks[o].tab /\ b.fresh = asks[o].fresh /\ b.at = "ended"
  <2> DEFINE u == IF asks[o].bubble = "none" THEN "none" ELSE "still"
  <2>1. b = [asks[o] EXCEPT !.at = "ended", !.bubble = u] /\ u \in {"none", "still"} /\ asks[o] \in Asked
    BY <1>1
  <2> HIDE DEF b, u
  <2> QED BY <2>1 DEF Asked
<1>4. asks' = [asks EXCEPT ![o] = b]
  BY <1>1 DEF StreamEnds
<1> HIDE DEF b
<1>5. asks' \in [Op -> Asked] /\ asks'[o] = b /\ \A x \in Op \ {o} : asks'[x] = asks[x]
  BY <1>1, <1>3, <1>4
<1>6. /\ panel' \in Panel /\ panel'.ref \in {None, panel.ref} /\ panel'.open = panel.open
      /\ asks[o].bubble = "none" => panel' = panel
      /\ asks[o].bubble # "none" => panel'.submitting = FALSE
  BY <1>1, <1>2 DEF Panel
<1>7. ~panel'.open => ~panel'.submitting
  BY <1>6 DEF AssistantInv, AsksFit
<1>8. \A x \in Op : InFlight(x)' => x # o /\ InFlight(x) /\ asks'[x] = asks[x]
  BY <1>3, <1>5 DEF InFlight
<1>9. StreamFits'
  <2>1. StreamFits /\ AsksFit
    BY DEF AssistantInv
  <2>2. CASE asks[o].bubble = "none"
    <3>1. panel' = panel /\ astray' = astray
      BY <1>2, <1>6, <2>2
    <3>2. panel.submitting => panel.ref \in Op /\ panel.ref # o /\ InFlight(panel.ref) /\ asks[panel.ref].bubble = "streaming"
      BY <2>1, <2>2 DEF StreamFits
    <3>3. panel.submitting => InFlight(panel.ref)' /\ asks'[panel.ref].bubble = "streaming"
      BY <1>5, <3>1, <3>2 DEF InFlight
    <3> QED BY <1>8, <2>1, <3>1, <3>2, <3>3 DEF StreamFits
  <2>3. CASE asks[o].bubble # "none"
    <3>1. panel'.submitting = FALSE /\ astray' = astray \cup ({panel.ref} \ {None, o})
      BY <1>2, <1>6, <2>3
    <3>2. \A x \in Op : x \notin astray' /\ asks'[x].at = "sent" /\ asks'[x].bubble = "streaming" => asks'[x].aborted
      <4> SUFFICES ASSUME NEW x \in Op, x \notin astray', asks'[x].at = "sent", asks'[x].bubble = "streaming", ~asks'[x].aborted
                   PROVE  FALSE
        OBVIOUS
      <4>1. x # o /\ InFlight(x) /\ asks[x].bubble = "streaming" /\ ~asks[x].aborted /\ x \in Op \ astray
        BY <1>8, <3>1 DEF InFlight
      <4>2. panel.ref = x /\ x # None
        BY <2>1, <4>1 DEF StreamFits, Op, None
      <4> QED BY <3>1, <4>1, <4>2
    <3> QED BY <3>1, <3>2 DEF StreamFits, InFlight
  <2> QED BY <2>2, <2>3
<1>10. \A x \in Op : /\ asks'[x].by = asks[x].by /\ asks'[x].tab = asks[x].tab /\ asks'[x].fresh = asks[x].fresh
                     /\ asks'[x].at = asks[x].at \/ (asks[x].by = "panel" /\ asks[x].at = "sent" /\ asks'[x].at = "ended")
                     /\ asks[x].aborted => asks'[x].aborted
                     /\ InFlight(x)' => asks'[x].bubble \in {asks[x].bubble, "none"}
  BY <1>2, <1>3, <1>5, <1>8
<1>11. astray \subseteq astray' /\ astray' \subseteq Op
  BY <1>1, <1>2, NativeBridgeAssumption DEF Op, None
<1> QED BY <1>2, <1>5, <1>6, <1>7, <1>9, <1>10, <1>11, OverlayStays

LEMMA AssistantStill ==
  ASSUME AssistantInv, BridgeTypeOK, UNCHANGED assistantVars, ops' = ops \/ Begin PROVE AssistantInv'
<1>1. \A o \in Op : o <= ops => o <= ops'
  BY NativeBridgeAssumption DEF BridgeTypeOK, Begin, Op
<1>2. AsksFit'
  BY <1>1 DEF assistantVars, AssistantInv, AsksFit, InFlight
<1>3. AssistantTypeOK' /\ SuggestionFits' /\ StreamFits'
  BY DEF assistantVars, AssistantInv, AssistantTypeOK, SuggestionFits, StreamFits, InFlight
<1> QED BY <1>2, <1>3 DEF AssistantInv

LEMMA SuggestionsKeep ==
  ASSUME AssistantInv, BridgeTypeOK, RequestSuggestion \/ AutoTrigger PROVE AssistantInv'
<1>1. timer \in BOOLEAN
  BY DEF AssistantInv, AssistantTypeOK
<1>2. CASE RequestSuggestion
  <2>1. Trigger /\ timer' = timer
    BY <1>2 DEF RequestSuggestion
  <2> QED BY <1>1, <2>1, TriggerKeeps
<1>3. CASE AutoTrigger
  <2>1. timer' = FALSE
    BY <1>3 DEF AutoTrigger
  <2>2. CASE Trigger
    BY <2>1, <2>2, TriggerKeeps
  <2>3. CASE UNCHANGED <<bridge, asks, shownTab, autoSuggest, overlay, inlineRef, panel, astray>>
    BY <2>1, <2>3 DEF AssistantInv, AssistantTypeOK, AsksFit, SuggestionFits, StreamFits, InFlight, bridge
  <2> QED BY <1>3, <2>2, <2>3 DEF AutoTrigger
<1> QED BY <1>2, <1>3

LEMMA PanelKeeps ==
  ASSUME AssistantInv, BridgeTypeOK, Send \/ Explain \/ OpenPanel PROVE AssistantInv'
<1>1. panel \in Panel /\ panel.open \in BOOLEAN /\ panel.submitting \in BOOLEAN /\ asks \in [Op -> Asked] /\ astray \subseteq Op
  BY DEF AssistantInv, AssistantTypeOK, Panel
<1>2. Mounted(TRUE) \in Panel /\ Mounted(TRUE).open /\ Mounted(TRUE).ref = None
  BY AssistantRest
<1>3. ~panel.open => ~panel.submitting
  BY DEF AssistantInv, AsksFit
<1>4. CASE Send
  BY <1>1, <1>4, SendKeeps DEF Send
<1>5. CASE Explain
  <2>1. CASE panel.open
    <3> DEFINE p == [panel EXCEPT !.prompt = TRUE]
    <3>1. p \in Panel /\ p.open /\ p.ref = panel.ref
      BY <1>1, <2>1 DEF Panel
    <3>2. SendText(p)
      BY <1>5, <2>1 DEF Explain
    <3> HIDE DEF p
    <3> QED BY <3>1, <3>2, SendKeeps
  <2>2. CASE ~panel.open
    BY <1>2, <1>3, <1>5, <2>2, SendKeeps DEF Explain
  <2> QED BY <2>1, <2>2
<1>6. CASE OpenPanel
  <2>1. CASE panel.prompt
    BY <1>2, <1>3, <1>6, <2>1, SendKeeps DEF OpenPanel
  <2>2. CASE ~panel.prompt
    <3>1. /\ panel' = Mounted(FALSE) /\ ~panel.open
          /\ UNCHANGED <<bridge, asks, shownTab, autoSuggest, timer, overlay, inlineRef, astray>>
      BY <1>6, <2>2 DEF OpenPanel
    <3>2. panel' \in Panel /\ panel'.open /\ ~panel'.submitting /\ panel'.ref = None
      BY <3>1, AssistantRest
    <3>3. StreamFits'
      <4>1. StreamFits
        BY DEF AssistantInv
      <4> QED BY <1>3, <3>1, <3>2, <4>1 DEF StreamFits, InFlight
    <3>4. UNCHANGED <<ops, shownTab, autoSuggest, timer, overlay, inlineRef, astray>>
      BY <3>1 DEF bridge
    <3> QED BY <1>1, <3>1, <3>2, <3>3, <3>4, OverlayStays
  <2> QED BY <2>1, <2>2
<1> QED BY <1>4, <1>5, <1>6

LEMMA AssistantInductive == AssistantInv /\ BridgeTypeOK /\ [Next]_vars => AssistantInv'
<1> SUFFICES ASSUME AssistantInv, BridgeTypeOK, [Next]_vars PROVE AssistantInv'
  OBVIOUS
<1>1. CASE AssistantNext
  BY <1>1, SuggestionsKeep, PanelKeeps, KeyKeeps, EscapeKeeps, AcceptKeeps, SwitchKeeps, SuggestionEndKeeps,
     StreamEndKeeps, CloseThePanel, CancelStreamKeeps DEF AssistantNext
<1>2. CASE UNCHANGED assistantVars
  <2>1. ops' = ops \/ Begin
    BY OpsGrow DEF Next, vars, bridge
  <2> QED BY <1>2, <2>1, AssistantStill
<1> QED BY <1>1, <1>2, SignOutStill DEF Next, vars, shellVars

(* What is asked of a language model answers the question on the screen,   *)
(* in whatever order requests are made, aborted and answered and tabs are  *)
(* changed, but for the requests that went astray (whose ref the end of    *)
(* another one cleared, or whose suggestion was shown when its tab was     *)
(* left): a suggestion that is visible is of the tab and of the line that  *)
(* are shown, and what streams into the panel is what Stop aborts          *)
(* (InlineSuggestion.tsx, AskAiPanel.tsx).                                 *)
THEOREM AnswersFitTheQuestion == Spec => []LateAnswersAreDropped
<1>1. AssistantInv => LateAnswersAreDropped
  BY DEF AssistantInv, SuggestionFits, StreamFits, LateAnswersAreDropped
<1>2. BridgeTypeOK /\ AssistantInv /\ [Next]_vars => (BridgeTypeOK /\ AssistantInv)'
  BY AssistantInductive, BridgeInductive
<1> QED BY <1>1, <1>2, SpecSteps, AssistantInitial, BridgeInitial, PTL

------------------------------------------------------------------------------
(* AiSettings                                                              *)

(* The form is that of the record with the id for which it was filled, or  *)
(* of none; a save is of that record, or of a new one.                     *)
FormFits ==
  /\ settings.hydrated \in {"no", "__empty__", stored.id}
  /\ settings.draft.id = IF settings.hydrated \in {"mine", "theirs"} THEN settings.hydrated ELSE "none"
SaveFits ==
  /\ query # Unread => settings.hydrated # "no"
  /\ saving.at # "no" => saving.draft.model = "m" /\ savedDraft = EmptyDraft
  /\ saving.at = "sent" => saving.draft.id \in {"none", stored.id}

(* The patient user saves when the settings were read.                     *)
RecordFits ==
  /\ query = Unread => saving = NotSaving /\ stored = NoAiRecord /\ savedDraft = EmptyDraft
  /\ saving.at = "reading" => stored = [saving.draft EXCEPT !.id = stored.id] /\ stored # NoAiRecord
  /\ savedDraft # EmptyDraft => savedDraft = [stored EXCEPT !.id = savedDraft.id]
  /\ ~lost /\ saving.at = "no" /\ stored # NoAiRecord => aiDraft.id = stored.id

(* What the tab of the AI settings has and shows, as sets of records.      *)
Form == [draft : AiDraft, hydrated : {"no", "__empty__", "mine", "theirs"}, manual : BOOLEAN]
ModelsShown == [kind : {"idle", "loading", "loaded", "error"}, about : Accounts]
TestShown == [kind : {"idle", "testing", "answered"}, about : Accounts]
AiInv == AiTypeOK /\ FormFits /\ SaveFits /\ (~Hasty => RecordFits)

LEMMA NoRecordYet == Unread # NoAiRecord /\ NoAiRecord.id = "__empty__" /\ \A r \in AiRecord : r # NoAiRecord /\ r # Unread
<1>1. Unread.id = "unread" /\ NoAiRecord.id = "__empty__"
  BY DEF Unread, NoAiRecord
<1>2. \A r \in AiRecord : r.id \in {"mine", "theirs"}
  BY DEF AiRecord
<1> QED BY <1>1, <1>2

LEMMA AiInitial == Init => AiInv
<1> SUFFICES ASSUME Init PROVE AiInv
  OBVIOUS
<1>1. /\ stored = NoAiRecord /\ query = Unread
      /\ settings = [draft |-> EmptyDraft, hydrated |-> "no", manual |-> FALSE]
      /\ models = NotShown /\ connection = NotShown
      /\ fetches = {} /\ tests = {} /\ saving = NotSaving
      /\ savedDraft = EmptyDraft /\ lost = FALSE
  BY DEF Init, AiInit
<1>2. EmptyDraft \in AiDraft /\ EmptyDraft.id = "none" /\ Account(EmptyDraft) \in Accounts
  BY DEF EmptyDraft, AiDraft, Account, Accounts
<1>3. /\ settings.draft = EmptyDraft /\ settings.hydrated = "no" /\ saving.at = "no"
      /\ models.kind = "idle" /\ connection.kind = "idle"
  BY <1>1 DEF NotShown, About, NotSaving
<1>4. AiTypeOK
  BY <1>1, <1>2 DEF AiTypeOK, NotShown, About, NotSaving
<1> QED BY <1>1, <1>2, <1>3, <1>4, NoRecordYet DEF AiInv, FormFits, SaveFits, RecordFits

(* Edits of the form, and what was asked about it.                         *)
LEMMA FormKeeps ==
  ASSUME AiInv,
         \/ EnterManually \/ PickModel \/ FetchModels \/ TestConnection
         \/ (\E p \in {"keyed", "open"} : PickProvider(p))
         \/ EditConnection
         \/ (\E m \in {"", "m"} : TypeModel(m))
  PROVE  AiInv'
<1>1. UNCHANGED <<stored, query, saving, savedDraft, lost, pace>>
  BY DEF EnterManually, PickModel, FetchModels, TestConnection, PickProvider, EditConnection, TypeModel, aiRowVars,
     bridge, shared, manner
<1>2. settings \in Form /\ settings.draft \in AiDraft /\ aiDraft = settings.draft
  BY DEF AiInv, AiTypeOK, Form, aiDraft
<1>3. /\ settings' \in Form /\ settings'.hydrated = settings.hydrated /\ settings'.draft.id = settings.draft.id
  <2>1. CASE EnterManually
    BY <1>2, <2>1 DEF EnterManually, Form
  <2>2. CASE PickModel
    BY <1>2, <2>2 DEF PickModel, Edited, Form, AiDraft
  <2>3. CASE FetchModels \/ TestConnection
    BY <1>2, <2>3 DEF FetchModels, TestConnection
  <2>4. ASSUME NEW p \in {"keyed", "open"}, PickProvider(p) PROVE <1>3
    BY <1>2, <2>4 DEF PickProvider, Form, AiDraft
  <2>5. CASE EditConnection
    BY <1>2, <2>5 DEF EditConnection, Edited, Form, AiDraft
  <2>6. ASSUME NEW m \in {"", "m"}, TypeModel(m) PROVE <1>3
    BY <1>2, <2>6 DEF TypeModel, Edited, Form, AiDraft
  <2> QED BY <2>1, <2>2, <2>3, <2>4, <2>5, <2>6
<1>4. /\ models' \in {models, NotShown, About("loading", Account(aiDraft))}
      /\ connection' \in {connection, NotShown, About("testing", Account(aiDraft))}
      /\ fetches' \in {fetches, {[aiDraft EXCEPT !.id = "none"]}} /\ tests' \in {tests, {Account(aiDraft)}}
  BY DEF EnterManually, PickModel, FetchModels, TestConnection, PickProvider, EditConnection, TypeModel
<1>5. Account(aiDraft) \in Accounts /\ [aiDraft EXCEPT !.id = "none"] \in AiDraft
  BY <1>2 DEF AiDraft, Account, Accounts
<1>6. /\ NotShown \in ModelsShown \cap TestShown /\ NotShown.kind = "idle"
      /\ About("loading", Account(aiDraft)) \in ModelsShown /\ About("testing", Account(aiDraft)) \in TestShown
      /\ About("loading", Account(aiDraft)).kind = "loading" /\ About("testing", Account(aiDraft)).kind = "testing"
  BY <1>5 DEF About, NotShown, ModelsShown, TestShown, Account, EmptyDraft, Accounts
<1>7. AiTypeOK'
  <2>1. models' \in ModelsShown /\ connection' \in TestShown /\ fetches' \subseteq AiDraft /\ tests' \subseteq Accounts
    BY <1>2, <1>4, <1>5, <1>6 DEF AiInv, AiTypeOK, ModelsShown, TestShown
  <2> QED BY <1>1, <1>3, <2>1 DEF AiTypeOK, AiInv, Form, ModelsShown, TestShown
<1>8. FormFits' /\ SaveFits'
  BY <1>1, <1>3 DEF AiInv, FormFits, SaveFits
<1>9. ASSUME ~Hasty' PROVE RecordFits'
  <2>1. RecordFits
    BY <1>1, <1>9 DEF Hasty, AiInv
  <2>2. aiDraft'.id = aiDraft.id
    BY <1>3 DEF aiDraft
  <2> QED BY <1>1, <2>1, <2>2 DEF RecordFits
<1> QED BY <1>7, <1>8, <1>9 DEF AiInv

(* Answers to lists and tests.                                             *)
LEMMA AnswersKeep ==
  ASSUME AiInv,
         \/ (\E d \in fetches : ModelsAnswer(d) \/ NoModels(d))
         \/ (\E a \in tests : ConnectionAnswer(a))
  PROVE  AiInv'
<1>1. UNCHANGED <<stored, query, saving, savedDraft, lost, pace>>
  BY DEF ModelsAnswer, NoModels, ConnectionAnswer, aiRowVars, bridge, shared, manner
<1>2. settings \in Form /\ settings.draft \in AiDraft /\ fetches \subseteq AiDraft /\ tests \subseteq Accounts
  BY DEF AiInv, AiTypeOK, Form
<1>3. settings' \in Form /\ settings'.hydrated = settings.hydrated /\ settings'.draft.id = settings.draft.id
  <2>1. ASSUME NEW d \in fetches, ModelsAnswer(d) PROVE <1>3
    <3>1. PICK m \in {settings.draft.model, ""} : settings' = [settings EXCEPT !.manual = FALSE, !.draft.model = m]
      BY <2>1 DEF ModelsAnswer
    <3>2. m \in {"", "m"}
      BY <1>2, <3>1 DEF AiDraft
    <3> QED BY <1>2, <3>1, <3>2 DEF Form, AiDraft
  <2> QED BY <1>2, <2>1 DEF NoModels, ConnectionAnswer
<1>4. /\ fetches' \in {fetches, {}} /\ tests' \in {tests, {}}
      /\ \/ models' \in {models, [NotShown EXCEPT !.kind = "error"]}
         \/ \E d \in fetches : models' = About("loaded", Account(d))
      /\ connection' = connection \/ \E a \in tests : connection' = About("answered", a)
  BY DEF ModelsAnswer, NoModels, ConnectionAnswer
<1>5. AiTypeOK'
  <2>1. \A d \in AiDraft : Account(d) \in Accounts
    BY DEF AiDraft, Account, Accounts
  <2>2. models' \in ModelsShown
    <3>1. NotShown \in ModelsShown
      BY DEF NotShown, About, ModelsShown, Account, Accounts, EmptyDraft
    <3>2. [NotShown EXCEPT !.kind = "error"] \in ModelsShown
      BY <3>1 DEF ModelsShown
    <3> QED BY <1>2, <1>4, <2>1, <3>2 DEF AiInv, AiTypeOK, ModelsShown, About
  <2>3. connection' \in TestShown
    BY <1>2, <1>4 DEF AiInv, AiTypeOK, TestShown, About
  <2>4. fetches' \subseteq AiDraft /\ tests' \subseteq Accounts
    BY <1>2, <1>4
  <2> QED BY <1>1, <1>3, <2>2, <2>3, <2>4 DEF AiTypeOK, AiInv, Form, ModelsShown, TestShown
<1>6. FormFits' /\ SaveFits'
  BY <1>1, <1>3 DEF AiInv, FormFits, SaveFits
<1>7. ASSUME ~Hasty' PROVE RecordFits'
  <2>1. RecordFits
    BY <1>1, <1>7 DEF Hasty, AiInv
  <2>2. aiDraft'.id = aiDraft.id
    BY <1>3 DEF aiDraft
  <2> QED BY <1>1, <2>1, <2>2 DEF RecordFits
<1> QED BY <1>5, <1>6, <1>7 DEF AiInv

(* A save, and what other devices write.                                   *)
LEMMA SavesKeep ==
  ASSUME AiInv, SaveSettings \/ SettingsSaved \/ SettingsNotSaved \/ SettingsElsewhere
  PROVE  AiInv'
<1>1. UNCHANGED <<query, settings, models, connection, fetches, tests, pace>> /\ aiDraft' = aiDraft
  BY DEF SaveSettings, SettingsSaved, SettingsNotSaved, SettingsElsewhere, aiFormVars, aiRowVars, bridge, shared, manner, aiDraft
<1>2. /\ settings.draft \in AiDraft /\ saving \in [at : {"no", "sent", "reading"}, draft : AiDraft]
      /\ stored \in AiRecord \cup {NoAiRecord} /\ aiDraft = settings.draft /\ FormFits /\ SaveFits
  BY DEF AiInv, AiTypeOK, aiDraft
<1>3. NoAiRecord.id = "__empty__" /\ NotSaving.at = "no" /\ NotSaving.draft = EmptyDraft /\ EmptyDraft \in AiDraft
  BY DEF NoAiRecord, NotSaving, EmptyDraft, AiDraft
<1>4. CASE SaveSettings
  <2> DEFINE s == [at |-> "sent", draft |-> aiDraft]
  <2>1. /\ saving' = s /\ savedDraft' = EmptyDraft /\ aiDraft.model # "" /\ Attending
        /\ UNCHANGED <<stored, lost>>
    BY <1>4 DEF SaveSettings, aiRowVars
  <2>2. s \in [at : {"no", "sent", "reading"}, draft : AiDraft] /\ s.at = "sent" /\ s.draft = aiDraft /\ aiDraft.model = "m"
    BY <1>2, <2>1 DEF AiDraft
  <2> HIDE DEF s
  <2>3. AiTypeOK'
    BY <1>1, <1>3, <2>1, <2>2 DEF AiInv, AiTypeOK
  <2>4. FormFits'
    BY <1>1, <1>2, <2>1 DEF FormFits
  <2>5. aiDraft.id \in {"none", stored.id}
    BY <1>2 DEF FormFits
  <2>6. SaveFits'
    BY <1>1, <1>2, <2>1, <2>2, <2>5 DEF SaveFits
  <2>7. ASSUME ~Hasty' PROVE RecordFits'
    <3>1. ~Hasty /\ RecordFits
      BY <1>1, <2>7 DEF Hasty, AiInv
    <3>2. query # Unread
      BY <2>1, <3>1 DEF Attending
    <3> QED BY <1>1, <2>1, <2>2, <3>1, <3>2 DEF RecordFits
  <2> QED BY <2>3, <2>4, <2>6, <2>7 DEF AiInv
<1>5. ASSUME saving.at = "sent", saving.draft.id = "none" => stored = NoAiRecord
      PROVE  /\ Written \in AiRecord /\ Written = [saving.draft EXCEPT !.id = Written.id]
             /\ settings.hydrated \in {"no", "__empty__", Written.id}
             /\ Written.id = IF saving.draft.id = "none" THEN "mine" ELSE stored.id
  <2>1. saving.draft \in AiDraft /\ saving.draft.model = "m" /\ saving.draft.id \in {"none", stored.id}
    BY <1>2, <1>5 DEF SaveFits
  <2>2. Written \in AiRecord /\ Written = [saving.draft EXCEPT !.id = Written.id]
        /\ Written.id = IF saving.draft.id = "none" THEN "mine" ELSE saving.draft.id
    BY <2>1 DEF Written, AiDraft, AiRecord
  <2>3. settings.hydrated \in {"no", "__empty__", stored.id}
    BY <1>2 DEF FormFits
  <2> QED BY <1>3, <1>5, <2>1, <2>2, <2>3
<1>6. ASSUME stored' = Written, saving.at = "sent", saving.draft.id = "none" => stored = NoAiRecord
      PROVE  /\ stored' \in AiRecord /\ stored' # NoAiRecord /\ FormFits' /\ stored'.id \in {saving.draft.id, "mine"}
             /\ stored' = [saving.draft EXCEPT !.id = stored'.id]
  <2>1. saving.draft.id = "none" \/ saving.draft.id = stored.id
    BY <1>2, <1>6 DEF SaveFits
  <2>2. FormFits'
    BY <1>1, <1>2, <1>5, <1>6 DEF FormFits
  <2> QED BY <1>5, <1>6, <2>1, <2>2, NoRecordYet
<1>7. CASE SettingsSaved
  <2>1. /\ saving.at = "sent" /\ saving' = [saving EXCEPT !.at = "reading"] /\ UNCHANGED <<savedDraft, lost>>
        /\ stored' = Written /\ (saving.draft.id = "none" => stored = NoAiRecord)
    BY <1>7 DEF SettingsSaved, aiFormVars
  <2>2. saving' \in [at : {"no", "sent", "reading"}, draft : AiDraft] /\ saving'.at = "reading" /\ saving'.draft = saving.draft
    BY <1>2, <2>1
  <2>3. /\ stored' \in AiRecord /\ stored' # NoAiRecord /\ FormFits'
        /\ stored' = [saving.draft EXCEPT !.id = stored'.id]
    BY <1>6, <2>1
  <2>4. AiTypeOK'
    BY <1>1, <2>1, <2>2, <2>3 DEF AiInv, AiTypeOK
  <2>5. SaveFits'
    BY <1>1, <1>2, <2>1, <2>2 DEF SaveFits
  <2>6. ASSUME ~Hasty' PROVE RecordFits'
    <3>1. ~Hasty /\ RecordFits
      BY <1>1, <2>6 DEF Hasty, AiInv
    <3>2. query # Unread
      BY <1>3, <2>1, <3>1 DEF RecordFits
    <3>3. savedDraft' = EmptyDraft
      BY <1>2, <2>1 DEF SaveFits
    <3> QED BY <1>1, <2>1, <2>2, <2>3, <3>2, <3>3 DEF RecordFits
  <2> QED BY <2>3, <2>4, <2>5, <2>6 DEF AiInv
<1>8. CASE SettingsNotSaved
  <2>1. /\ saving.at = "sent" /\ saving' = NotSaving /\ lost' = TRUE /\ savedDraft' = savedDraft
        /\ \/ stored' = stored
           \/ stored' = Written /\ (saving.draft.id = "none" => stored = NoAiRecord)
    BY <1>8 DEF SettingsNotSaved, aiFormVars
  <2>2. stored' \in AiRecord \cup {NoAiRecord} /\ FormFits'
    <3>1. CASE stored' = stored
      BY <1>1, <1>2, <3>1 DEF FormFits
    <3> QED BY <1>6, <2>1, <3>1
  <2>3. AiTypeOK'
    BY <1>1, <1>3, <2>1, <2>2 DEF AiInv, AiTypeOK, NotSaving
  <2>4. SaveFits' /\ savedDraft' = EmptyDraft
    BY <1>1, <1>2, <1>3, <2>1 DEF SaveFits
  <2>5. ASSUME ~Hasty' PROVE RecordFits'
    <3>1. ~Hasty /\ RecordFits
      BY <1>1, <2>5 DEF Hasty, AiInv
    <3>2. query # Unread
      BY <1>3, <2>1, <3>1 DEF RecordFits
    <3> QED BY <1>1, <1>3, <2>1, <2>4, <3>2 DEF RecordFits
  <2> QED BY <2>2, <2>3, <2>4, <2>5 DEF AiInv
<1>9. CASE SettingsElsewhere
  <2>1. Hasty /\ Hasty' /\ stored = NoAiRecord /\ lost' = TRUE /\ UNCHANGED <<saving, savedDraft>>
        /\ stored' = [EmptyDraft EXCEPT !.id = "theirs", !.provider = "open", !.model = "m"]
    BY <1>1, <1>9 DEF SettingsElsewhere, Hasty
  <2>2. stored' \in AiRecord
    BY <2>1 DEF EmptyDraft, AiRecord
  <2>3. AiTypeOK'
    BY <1>1, <2>1, <2>2 DEF AiInv, AiTypeOK
  <2>4. settings.hydrated \in {"no", "__empty__"} /\ settings.draft.id = "none"
    BY <1>2, <1>3, <2>1 DEF FormFits
  <2>5. FormFits'
    BY <1>1, <2>4 DEF FormFits
  <2>6. saving.at = "sent" => saving.draft.id = "none"
    BY <1>2, <1>3, <2>1 DEF SaveFits, AiDraft
  <2>7. SaveFits'
    BY <1>1, <1>2, <2>1, <2>6 DEF SaveFits
  <2> QED BY <2>1, <2>3, <2>5, <2>7 DEF AiInv
<1> QED BY <1>4, <1>7, <1>8, <1>9

(* The record is read, and the form is filled if it has another id.        *)
LEMMA ReadsKeep == ASSUME AiInv, ReadSettings \/ SettingsReadAgain PROVE AiInv'
<1>1. UNCHANGED <<stored, models, connection, fetches, tests, pace>> /\ aiDraft' = settings'.draft /\ aiDraft = settings.draft
  BY DEF ReadSettings, SettingsReadAgain, bridge, shared, manner, aiDraft
<1>2. /\ settings \in Form /\ settings.draft \in AiDraft /\ saving \in [at : {"no", "sent", "reading"}, draft : AiDraft]
      /\ stored \in AiRecord \cup {NoAiRecord} /\ FormFits /\ SaveFits
  BY DEF AiInv, AiTypeOK, Form
<1>3. /\ NoAiRecord.id = "__empty__" /\ NotSaving.at = "no" /\ NotSaving.draft = EmptyDraft /\ EmptyDraft \in AiDraft
      /\ stored.id \in {"mine", "theirs", "__empty__"} /\ (stored = NoAiRecord <=> stored.id = "__empty__") /\ stored # Unread
  <2>1. NotSaving.at = "no" /\ NotSaving.draft = EmptyDraft /\ EmptyDraft \in AiDraft
    BY DEF NotSaving, EmptyDraft, AiDraft
  <2>2. \A r \in AiRecord : r.id \in {"mine", "theirs"}
    BY DEF AiRecord
  <2> QED BY <1>2, <2>1, <2>2, NoRecordYet
<1>4. AiRecord \subseteq AiDraft
  BY DEF AiRecord, AiDraft
<1>5. ASSUME Hydrate(stored)
      PROVE  /\ settings' \in Form /\ FormFits' /\ query' = stored /\ settings'.hydrated = stored.id
             /\ settings'.draft = settings.draft \/ (settings'.draft = stored /\ stored # NoAiRecord)
  <2>1. CASE settings' = settings /\ stored.id = settings.hydrated
    BY <1>1, <1>2, <1>5, <2>1 DEF FormFits, Hydrate
  <2>2. CASE settings' = [settings EXCEPT !.hydrated = stored.id, !.draft = stored] /\ stored # NoAiRecord
    <3>1. settings' \in Form /\ settings'.hydrated = stored.id /\ settings'.draft = stored
      BY <1>2, <1>3, <1>4, <2>2 DEF Form
    <3> QED BY <1>1, <1>3, <1>5, <2>2, <3>1 DEF FormFits, Hydrate
  <2>3. CASE settings' = [settings EXCEPT !.hydrated = stored.id, !.draft = settings.draft] /\ stored = NoAiRecord
    <3>1. settings' \in Form /\ settings'.hydrated = stored.id /\ settings'.draft = settings.draft
      BY <1>2, <1>3, <2>3 DEF Form
    <3>2. settings.draft.id = "none"
      BY <1>2, <1>3, <2>3 DEF FormFits, Form
    <3> QED BY <1>1, <1>3, <1>5, <2>3, <3>1, <3>2 DEF FormFits, Hydrate
  <2> QED BY <1>1, <1>5, <2>1, <2>2, <2>3 DEF Hydrate
<1>6. /\ query' = query \/ query' = stored
      /\ query' # Unread => settings'.hydrated # "no"
      /\ savedDraft' = savedDraft \/ (savedDraft' = saving.draft /\ saving.at = "reading")
      /\ (saving' = saving /\ lost' = lost) \/ saving' = NotSaving
      /\ (Hydrate(stored) /\ lost' = lost) \/ (settings' = settings /\ query' = query /\ lost' = TRUE /\ saving' = NotSaving)
      /\ saving' = NotSaving \/ (savedDraft' = savedDraft /\ (query = Unread \/ Hasty))
  <2>1. CASE ReadSettings
    BY <1>2, <1>3, <1>5, <2>1 DEF ReadSettings, SaveFits
  <2>2. CASE SettingsReadAgain
    BY <1>2, <1>3, <1>5, <2>2 DEF SettingsReadAgain, SaveFits
  <2> QED BY <2>1, <2>2
<1>7. AiTypeOK' /\ FormFits'
  <2>1. settings' \in Form /\ FormFits' /\ saving' \in [at : {"no", "sent", "reading"}, draft : AiDraft]
    <3>1. NotSaving \in [at : {"no", "sent", "reading"}, draft : AiDraft]
      BY <1>3 DEF NotSaving
    <3>2. CASE settings' = settings
      BY <1>1, <1>2, <1>6, <3>1, <3>2 DEF FormFits
    <3> QED BY <1>2, <1>5, <1>6, <3>1, <3>2
  <2>2. query' \in AiRecord \cup {NoAiRecord, Unread} /\ savedDraft' \in AiDraft /\ lost' \in BOOLEAN
    BY <1>2, <1>6 DEF AiInv, AiTypeOK
  <2> QED BY <1>1, <2>1, <2>2 DEF AiInv, AiTypeOK, Form
<1>8. SaveFits'
  <2>1. CASE saving' = NotSaving
    BY <1>1, <1>2, <1>3, <1>6, <2>1 DEF SaveFits
  <2>2. CASE saving' = saving /\ savedDraft' = savedDraft
    <3>1. query' # Unread \/ query = Unread
      BY <1>3, <1>6
    <3> QED BY <1>1, <1>2, <1>3, <1>6, <2>2, <3>1 DEF SaveFits
  <2> QED BY <1>6, <2>1, <2>2
<1>9. ASSUME ~Hasty' PROVE RecordFits'
  <2>1. ~Hasty /\ RecordFits
    BY <1>1, <1>9 DEF Hasty, AiInv
  <2>2. CASE query = Unread /\ saving = NotSaving /\ stored = NoAiRecord
    <3>1. saving' = NotSaving
      BY <1>6, <2>2
    <3>2. savedDraft' = EmptyDraft
      BY <1>3, <1>6, <2>1, <2>2 DEF RecordFits
    <3> QED BY <1>1, <1>3, <2>2, <3>1, <3>2 DEF RecordFits
  <2>3. CASE query # Unread
    <3>1. saving.at = "reading" /\ saving' = NotSaving /\ stored = [saving.draft EXCEPT !.id = stored.id] /\ stored # NoAiRecord
      BY <1>6, <2>1, <2>3 DEF ReadSettings, SettingsReadAgain, RecordFits
    <3>2. query' # Unread
      BY <1>3, <1>6, <2>3
    <3>3. ~lost' => aiDraft'.id = stored.id
      <4>1. ASSUME ~lost' PROVE settings'.hydrated = stored.id /\ FormFits'
        BY <4>1, <1>5, <1>6
      <4> QED BY <1>1, <1>3, <3>1, <4>1 DEF FormFits
    <3>4. savedDraft' = saving.draft /\ saving.draft = [stored EXCEPT !.id = saving.draft.id]
      <4>1. savedDraft' = saving.draft
        BY <2>3, <2>1, <3>1 DEF ReadSettings, SettingsReadAgain
      <4>2. saving.draft = [stored EXCEPT !.id = saving.draft.id]
        BY <1>2, <3>1 DEF AiDraft
      <4> QED BY <4>1, <4>2
    <3> QED BY <1>1, <1>3, <3>1, <3>2, <3>3, <3>4 DEF RecordFits
  <2> QED BY <2>1, <2>2, <2>3 DEF RecordFits
<1> QED BY <1>7, <1>8, <1>9 DEF AiInv

LEMMA AiStill == ASSUME AiInv, UNCHANGED <<aiVars, pace>> PROVE AiInv'
BY DEF aiVars, aiRowVars, aiFormVars, AiInv, AiTypeOK, FormFits, SaveFits, RecordFits, aiDraft, Hasty

LEMMA AiInductive == AiInv /\ [Next]_vars => AiInv'
<1> SUFFICES ASSUME AiInv, [Next]_vars PROVE AiInv'
  OBVIOUS
<1>1. CASE AiNext
  BY <1>1, FormKeeps, AnswersKeep, SavesKeep, ReadsKeep DEF AiNext
<1>2. CASE UNCHANGED aiVars
  BY <1>2, MannerStays, AiStill DEF manner
<1> QED BY <1>1, <1>2, SignOutStill DEF Next, vars, shellVars

(* A save makes a record only where there was none, whatever is edited or  *)
(* answered while it is under way; and for the user who saves when the     *)
(* settings are there "Saved." is true, and the next save updates the      *)
(* record that the last one made (AiSettingsTab.tsx, useSaveAiSettings).   *)
THEOREM SettingsBelongTogether == Spec => []SettingsAgree
<1>1. AiInv => SettingsAgree
  <2> SUFFICES ASSUME AiInv PROVE SettingsAgree
    OBVIOUS
  <2>1. settings.draft.id \in {"none", stored.id}
    BY DEF AiInv, FormFits
  <2>2. NotSaving.at = "no"
    BY DEF NotSaving
  <2>3. pace = "patient" => ~Hasty
    BY DEF Hasty
  <2> QED BY <2>1, <2>2, <2>3 DEF AiInv, RecordFits, SettingsAgree
<1> QED BY <1>1, SpecSteps, AiInitial, AiInductive, PTL

------------------------------------------------------------------------------
(* TerminalTabs                                                            *)

Maybe1 == Op \cup {None}
Tab == [id : Op, kind : Kind, status : {"closed", "connecting", "connected"}, session : Maybe1]
Ending == [session : Op, tab : Maybe1, answered : BOOLEAN]
TabsTypes ==
  /\ tabs \in Seq(Tab) /\ call \in [Op -> Call] /\ obj \in [Op -> Session]
  /\ closing \subseteq Ending /\ pty \subseteq Op /\ exits \subseteq Op /\ displaced \subseteq Op

(* A connect that has not its key yet, or has ended, holds none; and only  *)
(* numbers that were given out are used.                                   *)
KeysHeld ==
  /\ \A c \in Op : call[c].at \in {"idle", "asking", "ended"} => obj[c].key # "held"
  /\ \A c \in Op : c > ops => call[c].at = "idle" /\ c \notin pty \cup exits
  /\ \A k \in closing : k.session <= ops /\ k.tab <= ops

(* Which tab has which session.                                            *)
Seats == {<<tabs[i].id, tabs[i].session>> : i \in DOMAIN tabs}
SeatsKnown == \A i \in DOMAIN tabs : tabs[i].id <= ops /\ tabs[i].session <= ops
UniqueTabs == \A i, j \in DOMAIN tabs : tabs[i].id = tabs[j].id => i = j

(* A connect that runs has its tab to itself, and its session is the tab's *)
(* as soon as there is one; the session that it replaces has no process or *)
(* is displaced.                                                           *)
Runs(c) == c.at \notin {"idle", "deaf", "ended"}
Placed == pty \ displaced
CallsFit(S, cl, p) ==
  /\ \A c \in Op : Runs(cl[c]) =>
       \E b \in Maybe1 : <<cl[c].tab, b>> \in S /\ (cl[c].at # "asking" => b = c)
  /\ \A c, d \in Op : Runs(cl[c]) /\ Runs(cl[d]) /\ cl[c].tab = cl[d].tab => c = d
  /\ \A a, c \in Op : Runs(cl[c]) /\ <<a, c>> \in S => cl[c].tab = a
  /\ \A c \in Op, b \in Maybe1 : cl[c].at = "asking" /\ <<cl[c].tab, b>> \in S => b \notin p

(* A close that waits for the shell is of a session whose connect is over; *)
(* the tab that it will patch still has that session, and no connect.      *)
ClosesFit(S, cl, K, p) ==
  \A k \in K :
    /\ ~Runs(cl[k.session])
    /\ k.answered => k.session \notin p
    /\ \A b \in Maybe1 : <<k.tab, b>> \in S => b \in {k.session, None}
    /\ \A c \in Op : Runs(cl[c]) => cl[c].tab # k.tab

(* A process belongs to a session that is open in the webview, of a tab,   *)
(* being closed, or displaced.                                             *)
Reached(S, K, D, s) == s \in D \/ (\E a \in Op : <<a, s>> \in S) \/ \E k \in K : k.session = s /\ ~k.answered
PtysFit(S, cl, ob, K, D, p, e) ==
  /\ \A s \in p : ob[s].native /\ cl[s].at \in {"opened", "ended"} /\ Reached(S, K, D, s)
  /\ \A s \in Op : cl[s].at \in {"listening", "invoked", "keyless"} => ob[s].native
  /\ \A s \in e : s \notin p /\ cl[s].at \in {"opened", "ended"}

TabsFit ==
  pace = "patient" =>
    /\ CallsFit(Seats, call, Placed)
    /\ ClosesFit(Seats, call, closing, pty)
    /\ PtysFit(Seats, call, obj, closing, displaced, pty, exits)

TabsInv == TabsTypes /\ KeysHeld /\ UniqueTabs /\ SeatsKnown /\ TabsFit
LEMMA TabsInitial == Init => TabsInv
<1> SUFFICES ASSUME Init PROVE TabsInv
  OBVIOUS
<1>1. /\ tabs = <<>> /\ closing = {} /\ pty = {} /\ exits = {} /\ displaced = {} /\ ops = 0
      /\ call = [c \in Op |-> NoCall] /\ obj = [c \in Op |-> NoSession]
  BY DEF Init, TabsInit, BridgeInit
<1>2. NoCall \in Call /\ NoSession \in Session
  BY NativeBridgeAssumption DEF NoCall, NoSession, Call, Session, Kind
<1>3. TabsTypes
  BY <1>1, <1>2 DEF TabsTypes
<1>4. KeysHeld /\ UniqueTabs /\ SeatsKnown
  BY <1>1 DEF KeysHeld, UniqueTabs, SeatsKnown, NoCall, NoSession
<1>5. TabsFit
  BY <1>1 DEF TabsFit, CallsFit, ClosesFit, PtysFit, Runs, NoCall
<1> QED BY <1>3, <1>4, <1>5 DEF TabsInv

LEMMA SeatsTyped == ASSUME TabsTypes PROVE Seats \subseteq Op \X Maybe1
<1>1. \A i \in DOMAIN tabs : tabs[i] \in Tab
  BY DEF TabsTypes
<1>2. \A i \in DOMAIN tabs : tabs[i].id \in Op /\ tabs[i].session \in Maybe1
  BY <1>1 DEF Tab
<1> QED BY <1>2 DEF Seats

LEMMA OneSeat ==
  ASSUME TabsTypes, UniqueTabs
  PROVE  \A a, b, d : <<a, b>> \in Seats /\ <<a, d>> \in Seats => b = d
BY DEF Seats, UniqueTabs

(* Patching keeps the tabs; who had the tab that is patched loses it.      *)
LEMMA TabsMapped ==
  ASSUME TabsTypes, UniqueTabs, NEW g \in [Tab -> Tab], \A r \in Tab : g[r].id = r.id,
         tabs' = [i \in DOMAIN tabs |-> g[tabs[i]]]
  PROVE  /\ tabs' \in Seq(Tab) /\ UniqueTabs'
         /\ DOMAIN tabs' = DOMAIN tabs /\ \A i \in DOMAIN tabs : tabs[i] \in Tab /\ tabs'[i] = g[tabs[i]]
<1>1. /\ Len(tabs) \in Nat /\ DOMAIN tabs = 1 .. Len(tabs)
      /\ \A i \in DOMAIN tabs : tabs[i] \in Tab
  BY DEF TabsTypes
<1>2. tabs' \in [1 .. Len(tabs) -> Tab] /\ DOMAIN tabs' = DOMAIN tabs
  BY <1>1
<1>3. tabs' \in Seq(Tab)
  BY <1>1, <1>2
<1>4. \A i \in DOMAIN tabs : tabs'[i] = g[tabs[i]] /\ tabs'[i].id = tabs[i].id
  BY <1>1
<1> QED BY <1>1, <1>2, <1>3, <1>4 DEF UniqueTabs

Statuses == {"closed", "connecting", "connected"}

(* Tab t gets the session s, or loses the one it has.                      *)
Seated(S, S2, t, s) ==
  \A a, b : <<a, b>> \in S2 <=>
    IF a = t THEN b = s /\ (\E d \in Maybe1 : <<a, d>> \in S) ELSE <<a, b>> \in S

LEMMA SeatTaken ==
  ASSUME TabsTypes, UniqueTabs, SeatsKnown, NEW t, NEW s \in Maybe1,
         ops \in Nat, ops' \in Nat, ops <= ops', s <= ops',
         NEW g \in [Tab -> Tab],
         \A r \in Tab : g[r].id = r.id /\ g[r].session = IF r.id = t THEN s ELSE r.session,
         tabs' = [i \in DOMAIN tabs |-> g[tabs[i]]]
  PROVE  tabs' \in Seq(Tab) /\ UniqueTabs' /\ SeatsKnown' /\ Seated(Seats, Seats', t, s)
<1>1. \A r \in Tab : g[r] \in Tab /\ g[r].id = r.id /\ g[r].session = IF r.id = t THEN s ELSE r.session
  OBVIOUS
<1>2. tabs' = [i \in DOMAIN tabs |-> g[tabs[i]]]
  OBVIOUS
<1>3. g \in [Tab -> Tab]
  OBVIOUS
<1>4. /\ tabs' \in Seq(Tab) /\ UniqueTabs'
      /\ DOMAIN tabs' = DOMAIN tabs /\ \A i \in DOMAIN tabs : tabs[i] \in Tab /\ tabs'[i] = g[tabs[i]]
  BY <1>1, <1>2, <1>3, TabsMapped
<1>5. \A i \in DOMAIN tabs : /\ tabs'[i].id = tabs[i].id
                             /\ tabs'[i].session = IF tabs[i].id = t THEN s ELSE tabs[i].session
  BY <1>1, <1>4
<1>6. SeatsKnown'
  <2>1. ASSUME NEW i \in DOMAIN tabs PROVE tabs'[i].id <= ops' /\ tabs'[i].session <= ops'
    <3>1. tabs[i].id \in Op /\ tabs[i].session \in Maybe1 /\ tabs[i].id <= ops /\ tabs[i].session <= ops
      BY <1>4 DEF SeatsKnown, Tab
    <3> QED BY <1>5, <3>1 DEF Op, Maybe1, None
  <2> QED BY Zenon, <1>4, <2>1 DEF SeatsKnown
<1>7. \A i \in DOMAIN tabs : tabs[i].session \in Maybe1
  BY <1>4 DEF Tab
<1>8. \A a, b : <<a, b>> \in Seats <=> \E i \in DOMAIN tabs : a = tabs[i].id /\ b = tabs[i].session
  BY DEF Seats
<1>9. \A a, b : <<a, b>> \in Seats' <=> \E i \in DOMAIN tabs : a = tabs'[i].id /\ b = tabs'[i].session
  BY <1>4 DEF Seats
<1> HIDE DEF Seats
<1>10. ASSUME NEW a, NEW b
       PROVE  <<a, b>> \in Seats' <=>
                IF a = t THEN b = s /\ (\E d \in Maybe1 : <<a, d>> \in Seats) ELSE <<a, b>> \in Seats
  <2>1. CASE a = t
    <3>1. (\E d \in Maybe1 : <<a, d>> \in Seats) <=> \E i \in DOMAIN tabs : a = tabs[i].id
      BY Zenon, <1>7, <1>8
    <3>2. \A i \in DOMAIN tabs : a = tabs'[i].id /\ b = tabs'[i].session <=> a = tabs[i].id /\ b = s
      BY <2>1, <1>5
    <3>3. <<a, b>> \in Seats' <=> \E i \in DOMAIN tabs : a = tabs[i].id /\ b = s
      BY <3>2, <1>9
    <3> QED BY Zenon, <2>1, <3>1, <3>3
  <2>2. CASE a # t
    BY <2>2, <1>5, <1>8, <1>9
  <2> QED BY <2>1, <2>2
<1> QED BY <1>4, <1>6, <1>10 DEF Seated

LEMMA TabPatched ==
  ASSUME TabsTypes, UniqueTabs, SeatsKnown, NEW t, NEW st \in Statuses, NEW s \in Maybe1,
         ops \in Nat, ops' \in Nat, ops <= ops', s <= ops',
         tabs' = Patch(t, st, s)
  PROVE  tabs' \in Seq(Tab) /\ UniqueTabs' /\ SeatsKnown' /\ Seated(Seats, Seats', t, s)
<1> DEFINE g == [r \in Tab |-> IF r.id = t THEN [r EXCEPT !.status = st, !.session = s] ELSE r]
<1>1. ASSUME NEW r \in Tab
      PROVE  g[r] \in Tab /\ g[r].id = r.id /\ g[r].session = IF r.id = t THEN s ELSE r.session
  BY DEF Tab, Statuses
<1>2. tabs' = [i \in DOMAIN tabs |-> g[tabs[i]]]
  <2>1. \A i \in DOMAIN tabs : tabs[i] \in Tab
    BY DEF TabsTypes
  <2> QED BY <2>1 DEF Patch
<1>3. g \in [Tab -> Tab]
  BY <1>1
<1> HIDE DEF g
<1> QED BY <1>1, <1>2, <1>3, SeatTaken

LEMMA SessionTaken ==
  ASSUME TabsTypes, UniqueTabs, SeatsKnown, NEW t, NEW s \in Op,
         ops \in Nat, ops' = ops, s <= ops,
         tabs' = [i \in DOMAIN tabs |-> IF tabs[i].id = t THEN [tabs[i] EXCEPT !.session = s] ELSE tabs[i]]
  PROVE  tabs' \in Seq(Tab) /\ UniqueTabs' /\ SeatsKnown' /\ Seated(Seats, Seats', t, s)
<1> DEFINE g == [r \in Tab |-> IF r.id = t THEN [r EXCEPT !.session = s] ELSE r]
<1>1. ASSUME NEW r \in Tab
      PROVE  g[r] \in Tab /\ g[r].id = r.id /\ g[r].session = IF r.id = t THEN s ELSE r.session
  BY DEF Tab, Maybe1
<1>2. tabs' = [i \in DOMAIN tabs |-> g[tabs[i]]]
  <2>1. \A i \in DOMAIN tabs : tabs[i] \in Tab
    BY DEF TabsTypes
  <2> QED BY <2>1
<1>3. g \in [Tab -> Tab] /\ s \in Maybe1
  BY <1>1 DEF Maybe1
<1>4. ops \in Nat /\ ops' \in Nat /\ ops <= ops' /\ s <= ops'
  BY DEF Op
<1> HIDE DEF g
<1> QED BY <1>1, <1>2, <1>3, <1>4, SeatTaken

LEMMA StatusPatched ==
  ASSUME TabsTypes, UniqueTabs, NEW t, NEW st \in Statuses, tabs' = PatchStatus(t, st)
  PROVE  tabs' \in Seq(Tab) /\ UniqueTabs' /\ Seats' = Seats
<1> DEFINE g == [r \in Tab |-> IF r.id = t THEN [r EXCEPT !.status = st] ELSE r]
<1>1. ASSUME NEW r \in Tab
      PROVE  g[r] \in Tab /\ g[r].id = r.id /\ g[r].session = r.session
  BY DEF Tab, Statuses
<1>2. tabs' = [i \in DOMAIN tabs |-> g[tabs[i]]]
  <2>1. \A i \in DOMAIN tabs : tabs[i] \in Tab
    BY DEF TabsTypes
  <2> QED BY <2>1 DEF PatchStatus
<1>3. g \in [Tab -> Tab]
  BY <1>1
<1> HIDE DEF g
<1>4. /\ tabs' \in Seq(Tab) /\ UniqueTabs'
      /\ DOMAIN tabs' = DOMAIN tabs /\ \A i \in DOMAIN tabs : tabs[i] \in Tab /\ tabs'[i] = g[tabs[i]]
  BY <1>1, <1>2, <1>3, TabsMapped
<1>5. \A i \in DOMAIN tabs : tabs'[i].id = tabs[i].id /\ tabs'[i].session = tabs[i].session
  BY <1>1, <1>4
<1> QED BY <1>4, <1>5 DEF Seats

(* What RemoveAt leaves, and where.                                        *)
LEMMA OneTaken ==
  ASSUME NEW S, NEW s \in Seq(S), NEW i \in DOMAIN s, NEW t, t = RemoveAt(s, i)
  PROVE  /\ t \in Seq(S) /\ Len(t) = Len(s) - 1 /\ DOMAIN t = 1 .. Len(s) - 1
         /\ \A j \in 1 .. Len(s) - 1 : t[j] = IF j < i THEN s[j] ELSE s[j + 1]
<1>1. /\ Len(s) \in Nat /\ DOMAIN s = 1 .. Len(s) /\ i \in 1 .. Len(s)
      /\ \A j \in 1 .. Len(s) : s[j] \in S
  OBVIOUS
<1> DEFINE n == Len(s)  p == SubSeq(s, 1, i - 1)  q == SubSeq(s, i + 1, n)
<1>2. p \in Seq(S) /\ Len(p) = i - 1 /\ \A j \in 1 .. i - 1 : p[j] = s[j]
  <2>1. \A j \in 1 .. i - 1 : s[j] \in S
    BY <1>1
  <2>2. 1 \in Int /\ i - 1 \in Int /\ (IF 1 <= i - 1 THEN i - 1 - 1 + 1 ELSE 0) = i - 1
    BY <1>1
  <2>3. \A j \in 1 .. i - 1 : 1 + j - 1 = j
    BY <1>1
  <2> DEFINE m == i - 1
  <2>4. m \in Int /\ m - 1 + 1 = m
    BY <2>2
  <2> HIDE DEF m
  <2>5. SubSeq(s, 1, m) \in Seq(S) /\ Len(SubSeq(s, 1, m)) = (IF 1 <= m THEN m - 1 + 1 ELSE 0)
        /\ \A j \in 1 .. m - 1 + 1 : SubSeq(s, 1, m)[j] = s[1 + j - 1]
    BY <2>1, <2>4, SubSeqProperties DEF m
  <2> QED BY <2>2, <2>3, <2>4, <2>5 DEF m
<1>3. q \in Seq(S) /\ Len(q) = n - i /\ \A j \in 1 .. n - i : q[j] = s[i + j]
  <2>1. \A j \in i + 1 .. n : s[j] \in S
    BY <1>1
  <2> DEFINE m == i + 1
  <2>2. m \in Int /\ n \in Int /\ n - m + 1 = n - i /\ (IF m <= n THEN n - m + 1 ELSE 0) = n - i
        /\ \A j \in 1 .. n - i : m + j - 1 = i + j
    BY <1>1
  <2> HIDE DEF m
  <2>3. SubSeq(s, m, n) \in Seq(S) /\ Len(SubSeq(s, m, n)) = (IF m <= n THEN n - m + 1 ELSE 0)
        /\ \A j \in 1 .. n - m + 1 : SubSeq(s, m, n)[j] = s[m + j - 1]
    BY <2>1, <2>2, SubSeqProperties DEF m
  <2> QED BY <2>2, <2>3 DEF m
<1>4. t = p \o q
  BY DEF RemoveAt
<1> HIDE DEF p, q, n
<1>5. /\ t \in Seq(S) /\ Len(t) = n - 1 /\ DOMAIN t = 1 .. n - 1
      /\ \A j \in 1 .. n - 1 : t[j] = IF j < i THEN s[j] ELSE s[j + 1]
  <2>1. t \in Seq(S) /\ Len(t) = Len(p) + Len(q)
    BY <1>2, <1>3, <1>4, ConcatProperties
  <2>2. \A j \in 1 .. Len(p) + Len(q) : t[j] = IF j <= Len(p) THEN p[j] ELSE q[j - Len(p)]
    BY <1>2, <1>3, <1>4, ConcatProperties
  <2>3. Len(p) + Len(q) = n - 1 /\ n \in Nat
    BY <1>1, <1>2, <1>3 DEF n
  <2>4. ASSUME NEW j \in 1 .. n - 1 PROVE t[j] = IF j < i THEN s[j] ELSE s[j + 1]
    <3>1. CASE j < i
      BY <3>1, <2>2, <2>3, <1>1, <1>2
    <3>2. CASE ~(j < i)
      <4>1. j - (i - 1) \in 1 .. n - i /\ i + (j - (i - 1)) = j + 1 /\ ~(j <= i - 1)
        BY <3>2, <2>3, <1>1
      <4>2. t[j] = q[j - (i - 1)]
        BY <4>1, <2>2, <2>3, <1>2
      <4>3. q[j - (i - 1)] = s[i + (j - (i - 1))]
        BY <4>1, <1>3
      <4> QED BY <4>1, <4>2, <4>3, <3>2
    <3> QED BY <3>1, <3>2
  <2> QED BY <2>1, <2>3, <2>4
<1> QED BY <1>5 DEF n

(* A tab is taken off the bar.                                             *)
LEMMA TabRemoved ==
  ASSUME TabsTypes, UniqueTabs, NEW i \in DOMAIN tabs, tabs' = RemoveAt(tabs, i)
  PROVE  /\ tabs' \in Seq(Tab) /\ UniqueTabs'
         /\ \A j \in DOMAIN tabs' : \E k \in DOMAIN tabs : k # i /\ tabs'[j] = tabs[k]
         /\ Seats' = Seats \ {<<tabs[i].id, tabs[i].session>>}
<1>1. /\ Len(tabs) \in Nat /\ DOMAIN tabs = 1 .. Len(tabs) /\ i \in 1 .. Len(tabs)
      /\ \A j \in 1 .. Len(tabs) : tabs[j] \in Tab
  BY DEF TabsTypes
<1> DEFINE n == Len(tabs)
<1>5. /\ tabs' \in Seq(Tab) /\ Len(tabs') = n - 1 /\ DOMAIN tabs' = 1 .. n - 1
      /\ \A j \in 1 .. n - 1 : tabs'[j] = IF j < i THEN tabs[j] ELSE tabs[j + 1]
  BY OneTaken DEF TabsTypes
<1> HIDE DEF n
<1>6. \A j \in 1 .. n - 1 : \E k \in 1 .. n : k # i /\ tabs'[j] = tabs[k] /\ k = IF j < i THEN j ELSE j + 1
  BY <1>1, <1>5 DEF n
<1>7. \A k \in 1 .. n : k # i => \E j \in 1 .. n - 1 : tabs'[j] = tabs[k]
  <2>1. ASSUME NEW k \in 1 .. n, k # i PROVE \E j \in 1 .. n - 1 : tabs'[j] = tabs[k]
    <3>1. CASE k < i
      <4>1. k \in 1 .. n - 1
        BY <3>1, <1>1 DEF n
      <4> QED BY <3>1, <4>1, <1>5
    <3>2. CASE ~(k < i)
      <4>1. k - 1 \in 1 .. n - 1 /\ ~(k - 1 < i) /\ (k - 1) + 1 = k
        BY <3>2, <2>1, <1>1 DEF n
      <4> QED BY <4>1, <1>5
    <3> QED BY <3>1, <3>2
  <2> QED BY <2>1
<1>8. UniqueTabs'
  <2>1. ASSUME NEW j \in 1 .. n - 1, NEW k \in 1 .. n - 1, tabs'[j].id = tabs'[k].id PROVE j = k
    <3>1. PICK a \in 1 .. n : tabs'[j] = tabs[a] /\ a = IF j < i THEN j ELSE j + 1
      BY <1>6
    <3>2. PICK b \in 1 .. n : tabs'[k] = tabs[b] /\ b = IF k < i THEN k ELSE k + 1
      BY <1>6
    <3>3. a = b
      BY <2>1, <3>1, <3>2, <1>1 DEF UniqueTabs, n
    <3> QED BY <3>1, <3>2, <3>3, <1>1
  <2> QED BY <2>1, <1>5 DEF UniqueTabs
<1>9. Seats' = Seats \ {<<tabs[i].id, tabs[i].session>>}
  <2>1. \A a, b : <<a, b>> \in Seats <=> \E k \in 1 .. n : a = tabs[k].id /\ b = tabs[k].session
    BY <1>1 DEF Seats, n
  <2>2. \A a, b : <<a, b>> \in Seats' <=> \E j \in 1 .. n - 1 : a = tabs'[j].id /\ b = tabs'[j].session
    BY <1>5 DEF Seats
  <2>3. \A a, b : <<a, b>> \in Seats' <=> \E k \in 1 .. n : k # i /\ a = tabs[k].id /\ b = tabs[k].session
    <3> HIDE DEF Seats
    <3>1. \A j \in 1 .. n - 1 : \E k \in 1 .. n : k # i /\ tabs'[j] = tabs[k]
      BY <1>6
    <3>2. ASSUME NEW a, NEW b, <<a, b>> \in Seats'
          PROVE  \E k \in 1 .. n : k # i /\ a = tabs[k].id /\ b = tabs[k].session
      <4>1. PICK j \in 1 .. n - 1 : a = tabs'[j].id /\ b = tabs'[j].session
        BY <3>2, <2>2
      <4>2. PICK k \in 1 .. n : k # i /\ tabs'[j] = tabs[k]
        BY <3>1
      <4> QED BY <4>1, <4>2
    <3>3. ASSUME NEW a, NEW b, NEW k \in 1 .. n, k # i, a = tabs[k].id, b = tabs[k].session
          PROVE  <<a, b>> \in Seats'
      <4>1. PICK j \in 1 .. n - 1 : tabs'[j] = tabs[k]
        BY <3>3, <1>7
      <4> QED BY <3>3, <4>1, <2>2
    <3>4. ASSUME NEW a, NEW b
          PROVE  <<a, b>> \in Seats' <=> \E k \in 1 .. n : k # i /\ a = tabs[k].id /\ b = tabs[k].session
      <4>1. CASE <<a, b>> \in Seats'
        BY <4>1, <3>2
      <4>2. CASE \E k \in 1 .. n : k # i /\ a = tabs[k].id /\ b = tabs[k].session
        <5>1. PICK k \in 1 .. n : k # i /\ a = tabs[k].id /\ b = tabs[k].session
          BY <4>2
        <5>2. <<a, b>> \in Seats'
          BY <5>1, <3>3
        <5> QED BY <5>2, <4>2
      <4> QED BY <4>1, <4>2
    <3> QED BY <3>4
  <2>4. \A k \in 1 .. n : tabs[k].id = tabs[i].id => k = i
    BY <1>1 DEF UniqueTabs, n
  <2>5. \A a, b : <<a, b>> \in Seats' <=> <<a, b>> \in Seats /\ <<a, b>> # <<tabs[i].id, tabs[i].session>>
    <3>1. ASSUME NEW a, NEW b, <<a, b>> \in Seats'
          PROVE  <<a, b>> \in Seats /\ ~(a = tabs[i].id /\ b = tabs[i].session)
      BY <3>1, <2>1, <2>3, <2>4
    <3>2. ASSUME NEW a, NEW b, <<a, b>> \in Seats, ~(a = tabs[i].id /\ b = tabs[i].session)
          PROVE  <<a, b>> \in Seats'
      BY <3>2, <2>1, <2>3
    <3>3. \A a, b : <<a, b>> # <<tabs[i].id, tabs[i].session>> <=> ~(a = tabs[i].id /\ b = tabs[i].session)
      OBVIOUS
    <3> QED BY <3>1, <3>2, <3>3
  <2>6. \A x \in Seats : \E a, b : x = <<a, b>>
    BY DEF Seats
  <2>7. \A x \in Seats' : \E a, b : x = <<a, b>>
    BY DEF Seats
  <2> HIDE DEF Seats
  <2>8. ASSUME NEW x PROVE x \in Seats' <=> x \in Seats /\ x # <<tabs[i].id, tabs[i].session>>
    <3>1. CASE x \in Seats \/ x \in Seats'
      <4>1. PICK a, b : x = <<a, b>>
        BY <3>1, <2>6, <2>7
      <4> QED BY <4>1, <2>5
    <3>2. CASE ~(x \in Seats \/ x \in Seats')
      BY <3>2
    <3> QED BY <3>1, <3>2
  <2>9. Seats' \subseteq Seats \ {<<tabs[i].id, tabs[i].session>>}
    BY <2>8
  <2>10. Seats \ {<<tabs[i].id, tabs[i].session>>} \subseteq Seats'
    BY <2>8
  <2> QED BY <2>9, <2>10
<1>10. \A j \in DOMAIN tabs' : \E k \in DOMAIN tabs : k # i /\ tabs'[j] = tabs[k]
  BY <1>1, <1>5, <1>6 DEF n
<1> QED BY <1>5, <1>8, <1>9, <1>10

(* A tab that is opened takes a seat.                                      *)
LEMMA TabAdded ==
  ASSUME TabsTypes, UniqueTabs, SeatsKnown, NEW r \in Tab,
         ops \in Nat, r.id = ops + 1, ops' = ops + 1, r.session <= ops + 1,
         tabs' = Append(tabs, r)
  PROVE  /\ tabs' \in Seq(Tab) /\ UniqueTabs' /\ SeatsKnown'
         /\ \A a, b : <<a, b>> \in Seats' <=> <<a, b>> \in Seats \/ (a = r.id /\ b = r.session)
<1> DEFINE n == Len(tabs)
<1>1. /\ n \in Nat /\ DOMAIN tabs = 1 .. n /\ \A j \in 1 .. n : tabs[j] \in Tab
  BY DEF TabsTypes
<1>2. tabs' \in Seq(Tab) /\ Len(tabs') = n + 1
  BY AppendProperties DEF TabsTypes
<1>3. tabs'[n + 1] = r /\ \A j \in 1 .. n : tabs'[j] = tabs[j]
  BY <1>1, AppendProperties DEF TabsTypes
<1>4. DOMAIN tabs' = 1 .. n + 1
  BY <1>2
<1>5. \A j \in 1 .. n : tabs[j].id \in Nat /\ tabs[j].session \in Nat /\ tabs[j].id <= ops /\ tabs[j].session <= ops
  BY <1>1 DEF SeatsKnown, Tab, Op, Maybe1, None
<1>6. r.session \in Nat
  BY DEF Tab, Op, Maybe1, None
<1> HIDE DEF n
<1>7. \A j \in 1 .. n + 1 : j \in 1 .. n \/ j = n + 1
  BY <1>1
<1>8. SeatsKnown'
  <2>1. ASSUME NEW j \in 1 .. n + 1 PROVE tabs'[j].id <= ops' /\ tabs'[j].session <= ops'
    <3>1. CASE j \in 1 .. n
      <4>1. tabs'[j] = tabs[j] /\ tabs[j].id <= ops /\ tabs[j].session <= ops
            /\ tabs[j].id \in Nat /\ tabs[j].session \in Nat
        BY <3>1, <1>3, <1>5
      <4>2. \A x, y \in Nat : x <= y => x <= y + 1
        OBVIOUS
      <4> QED BY <4>1, <4>2
    <3>2. CASE j = n + 1
      <4>1. tabs'[j] = r
        BY <3>2, <1>3
      <4>2. ops + 1 <= ops + 1
        OBVIOUS
      <4> QED BY <4>1, <4>2
    <3> QED BY <3>1, <3>2, <1>7
  <2> QED BY <2>1, <1>4 DEF SeatsKnown
<1>9. UniqueTabs'
  <2>1. \A i, j \in 1 .. n : tabs[i].id = tabs[j].id => i = j
    BY <1>1 DEF UniqueTabs
  <2>2. \A j \in 1 .. n : tabs[j].id # r.id
    BY <1>5
  <2>3. ASSUME NEW i \in 1 .. n + 1, NEW j \in 1 .. n + 1, tabs'[i].id = tabs'[j].id PROVE i = j
    <3>1. CASE i \in 1 .. n /\ j \in 1 .. n
      BY <3>1, <2>1, <2>3, <1>3
    <3>2. CASE i \in 1 .. n /\ j = n + 1
      BY <3>2, <2>2, <2>3, <1>3
    <3>3. CASE i = n + 1 /\ j \in 1 .. n
      BY <3>3, <2>2, <2>3, <1>3
    <3> QED BY <3>1, <3>2, <3>3, <1>7
  <2> QED BY <2>3, <1>4 DEF UniqueTabs
<1>10. ASSUME NEW a, NEW b
       PROVE  <<a, b>> \in Seats' <=> <<a, b>> \in Seats \/ (a = r.id /\ b = r.session)
  <2>1. <<a, b>> \in Seats <=> \E j \in 1 .. n : a = tabs[j].id /\ b = tabs[j].session
    BY <1>1 DEF Seats
  <2>2. <<a, b>> \in Seats' <=> \E j \in 1 .. n + 1 : a = tabs'[j].id /\ b = tabs'[j].session
    BY <1>4 DEF Seats
  <2>3. \A j \in 1 .. n : j \in 1 .. n + 1
    BY <1>1
  <2>4. n + 1 \in 1 .. n + 1
    BY <1>1
  <2> HIDE DEF Seats
  <2> QED BY <2>1, <2>2, <2>3, <2>4, <1>3, <1>7
<1> QED BY <1>2, <1>8, <1>9, <1>10

(* What fits goes on to fit while calls only advance or end, seats are     *)
(* only given up, and PTYs and closes only go.                             *)
CallsAdvance(cl, cl2) ==
  \A c \in Op : Runs(cl2[c]) => /\ Runs(cl[c]) /\ cl2[c].tab = cl[c].tab
                                /\ (cl2[c].at = "asking" <=> cl[c].at = "asking")
GivenUp(S, S2, cl2) ==
  /\ \A a, b : <<a, b>> \in S2 => <<a, b>> \in S \/ b = None
  /\ \A c \in Op : Runs(cl2[c]) => \A b : <<cl2[c].tab, b>> \in S2 <=> <<cl2[c].tab, b>> \in S

LEMMA CallsStay ==
  ASSUME NEW S, NEW S2, NEW cl, NEW cl2, NEW p, NEW p2,
         CallsFit(S, cl, p), CallsAdvance(cl, cl2), GivenUp(S, S2, cl2),
         \A c \in Op, b \in Maybe1 : cl2[c].at = "asking" /\ <<cl[c].tab, b>> \in S => b \notin p2 \ p
  PROVE  CallsFit(S2, cl2, p2)
<1>0. /\ \A c \in Op : Runs(cl[c]) => \E b \in Maybe1 : <<cl[c].tab, b>> \in S /\ (cl[c].at # "asking" => b = c)
      /\ \A a, c \in Op : Runs(cl[c]) /\ <<a, c>> \in S => cl[c].tab = a
  BY DEF CallsFit
<1>1. ASSUME NEW c \in Op, Runs(cl2[c])
      PROVE  \E b \in Maybe1 : <<cl2[c].tab, b>> \in S2 /\ (cl2[c].at # "asking" => b = c)
  <2>1. /\ Runs(cl[c]) /\ cl2[c].tab = cl[c].tab /\ (cl2[c].at = "asking" <=> cl[c].at = "asking")
        /\ \A b : <<cl2[c].tab, b>> \in S2 <=> <<cl2[c].tab, b>> \in S
    BY <1>1 DEF CallsAdvance, GivenUp
  <2>2. PICK b \in Maybe1 : <<cl[c].tab, b>> \in S /\ (cl[c].at # "asking" => b = c)
    BY <1>0, <2>1
  <2> QED BY <2>1, <2>2
<1>2. \A c, d \in Op : Runs(cl2[c]) /\ Runs(cl2[d]) /\ cl2[c].tab = cl2[d].tab => c = d
  BY DEF CallsFit, CallsAdvance
<1>3. \A a, c \in Op : Runs(cl2[c]) /\ <<a, c>> \in S2 => cl2[c].tab = a
  <2>1. None \notin Op
    BY DEF Op, None
  <2>2. ASSUME NEW a \in Op, NEW c \in Op, Runs(cl2[c]), <<a, c>> \in S2 PROVE cl2[c].tab = a
    <3>1. Runs(cl[c]) /\ cl2[c].tab = cl[c].tab /\ <<a, c>> \in S
      BY <2>1, <2>2 DEF CallsAdvance, GivenUp
    <3> QED BY <3>1, <1>0
  <2> QED BY <2>2
<1>4. \A c \in Op : cl2[c].at = "asking" => Runs(cl2[c]) /\ cl[c].at = "asking" /\ cl2[c].tab = cl[c].tab
  BY DEF CallsAdvance, Runs
<1>5. \A c \in Op, b \in Maybe1 : cl2[c].at = "asking" /\ <<cl2[c].tab, b>> \in S2 => b \notin p2
  BY <1>4 DEF CallsFit, GivenUp
<1> QED BY <1>1, <1>2, <1>3, <1>5 DEF CallsFit

LEMMA ClosesStay ==
  ASSUME NEW S, NEW S2, NEW cl, NEW cl2, NEW p, NEW p2, NEW K,
         ClosesFit(S, cl, K, p), CallsAdvance(cl, cl2), GivenUp(S, S2, cl2),
         K \subseteq Ending, \A s \in p2 \ p : Runs(cl[s])
  PROVE  ClosesFit(S2, cl2, K, p2)
<1> SUFFICES ASSUME NEW k \in K
             PROVE  /\ ~Runs(cl2[k.session])
                    /\ k.answered => k.session \notin p2
                    /\ \A b \in Maybe1 : <<k.tab, b>> \in S2 => b \in {k.session, None}
                    /\ \A c \in Op : Runs(cl2[c]) => cl2[c].tab # k.tab
  BY DEF ClosesFit
<1>1. k.session \in Op
  BY DEF Ending
<1>2. ~Runs(cl[k.session]) /\ (k.answered => k.session \notin p)
  BY DEF ClosesFit
<1>3. \A b \in Maybe1 : <<k.tab, b>> \in S => b \in {k.session, None}
  BY DEF ClosesFit
<1>4. \A c \in Op : Runs(cl[c]) => cl[c].tab # k.tab
  BY DEF ClosesFit
<1>5. \A b \in Maybe1 : <<k.tab, b>> \in S2 => b \in {k.session, None}
  BY <1>3 DEF GivenUp
<1> QED BY <1>1, <1>2, <1>4, <1>5 DEF CallsAdvance

LEMMA PtysStay ==
  ASSUME NEW S, NEW S2, NEW cl, NEW cl2, NEW ob, NEW ob2, NEW K, NEW K2, NEW D, NEW D2, NEW p, NEW p2, NEW e, NEW e2,
         PtysFit(S, cl, ob, K, D, p, e), p2 \subseteq p, p \subseteq Op, e2 \subseteq Op,
         \A s \in p2 : ob2[s].native /\ Reached(S2, K2, D2, s),
         \A s \in Op : cl[s].at \in {"opened", "ended"} => cl2[s].at \in {"opened", "ended"},
         \A s \in Op : cl2[s].at \in {"listening", "invoked", "keyless"} => ob2[s].native,
         \A s \in e2 : s \notin p2 /\ (s \in e \/ s \in p)
  PROVE  PtysFit(S2, cl2, ob2, K2, D2, p2, e2)
BY DEF PtysFit

(* What every step uses of the state it starts in.                         *)
Grounds == BridgeTypeOK /\ TabsInv

LEMMA OnTheGround ==
  ASSUME Grounds
  PROVE  /\ TabsTypes /\ KeysHeld /\ UniqueTabs /\ SeatsKnown /\ TabsFit
         /\ MaxOps \in Nat /\ ops \in Nat /\ ops <= MaxOps /\ None = 0 /\ None \in Maybe1 /\ Op \subseteq Maybe1
         /\ \A c \in Op : c \in Nat /\ c # None
         /\ Seats \subseteq Op \X Maybe1
         /\ \A a, b, d : <<a, b>> \in Seats /\ <<a, d>> \in Seats => b = d
         /\ \A a, b : <<a, b>> \in Seats => a \in Op /\ b \in Maybe1 /\ a <= ops /\ b <= ops
<1>1. /\ TabsTypes /\ KeysHeld /\ UniqueTabs /\ SeatsKnown /\ TabsFit
      /\ MaxOps \in Nat /\ ops \in Nat /\ ops <= MaxOps
  BY NativeBridgeAssumption DEF Grounds, TabsInv, BridgeTypeOK
<1>2. None = 0 /\ None \in Maybe1 /\ Op \subseteq Maybe1 /\ \A c \in Op : c \in Nat /\ c # None
  BY <1>1 DEF None, Maybe1, Op
<1>3. Seats \subseteq Op \X Maybe1 /\ \A a, b, d : <<a, b>> \in Seats /\ <<a, d>> \in Seats => b = d
  BY <1>1, SeatsTyped, OneSeat
<1>4. ASSUME NEW a, NEW b, <<a, b>> \in Seats
      PROVE  a \in Op /\ b \in Maybe1 /\ a <= ops /\ b <= ops
  <2>1. PICK i \in DOMAIN tabs : a = tabs[i].id /\ b = tabs[i].session
    BY <1>4 DEF Seats
  <2>2. a <= ops /\ b <= ops
    BY <2>1, <1>1 DEF SeatsKnown
  <2> QED BY <2>2, <1>3, <1>4
<1> QED BY <1>1, <1>2, <1>3, <1>4

(* A call that moves on in its course.                                     *)
LEMMA Moves ==
  ASSUME Grounds, NEW c \in Op,
         NEW at \in {"listening", "invoked", "keyless", "opened", "refused"}, Move(c, at)
  PROVE  /\ call' \in [Op -> Call] /\ call'[c].at = at /\ call'[c].tab = call[c].tab
         /\ \A d \in Op : d # c => call'[d] = call[d]
<1>1. call \in [Op -> Call] /\ call[c] \in Call
  BY OnTheGround DEF TabsTypes
<1>2. [call[c] EXCEPT !.at = at] \in Call
      /\ [call[c] EXCEPT !.at = at].at = at /\ [call[c] EXCEPT !.at = at].tab = call[c].tab
  BY <1>1 DEF Call
<1> QED BY <1>1, <1>2 DEF Move

LEMMA Ends ==
  ASSUME Grounds, NEW c \in Op, NEW at \in {"deaf", "ended"}, CallIs(c, at)
  PROVE  /\ call' \in [Op -> Call] /\ call'[c].at = at /\ call'[c].tab = None
         /\ \A d \in Op : d # c => call'[d] = call[d]
<1>1. call \in [Op -> Call] /\ call[c] \in Call
  BY OnTheGround DEF TabsTypes
<1>2. [call[c] EXCEPT !.at = at, !.tab = None] \in Call
      /\ [call[c] EXCEPT !.at = at, !.tab = None].at = at /\ [call[c] EXCEPT !.at = at, !.tab = None].tab = None
  BY <1>1 DEF Call
<1>3. call' = [call EXCEPT ![c] = [call[c] EXCEPT !.at = at, !.tab = None]]
  BY <1>1 DEF CallIs
<1> QED BY <1>1, <1>2, <1>3

LEMMA SessionsClose ==
  ASSUME NEW s \in Session
  PROVE  /\ Wiped(s) \in Session /\ Closed(s) \in Session /\ Wiped(Closed(s)) \in Session
         /\ Wiped(s).key # "held" /\ Wiped(Closed(s)).key # "held" /\ Closed(s).key = s.key
         /\ Wiped(s).native = s.native
BY DEF Session, Wiped, Closed

LEMMA FitMeans ==
  ASSUME pace' = pace,
         pace = "patient" => /\ CallsFit(Seats', call', Placed')
                             /\ ClosesFit(Seats', call', closing', pty')
                             /\ PtysFit(Seats', call', obj', closing', displaced', pty', exits')
  PROVE  TabsFit'
BY DEF TabsFit

LEMMA ListenedKeeps == ASSUME Grounds, NEW c \in Op, Listened(c) PROVE TabsInv'
<1>1. /\ call[c].at = "listening" /\ obj' = [obj EXCEPT ![c].listening = TRUE]
      /\ Move(c, IF obj[c].key = "wiped" THEN "keyless" ELSE "invoked")
      /\ UNCHANGED <<ops, tabs, closing, pty, exits, displaced, pace>>
  BY DEF Listened, shared, manner
<1>2. /\ call' \in [Op -> Call] /\ call'[c].at \in {"keyless", "invoked"} /\ call'[c].tab = call[c].tab
      /\ \A d \in Op : d # c => call'[d] = call[d]
  <2>1. CASE obj[c].key = "wiped"
    BY <2>1, <1>1, Moves
  <2>2. CASE obj[c].key # "wiped"
    BY <2>2, <1>1, Moves
  <2> QED BY <2>1, <2>2
<1>3. obj' \in [Op -> Session] /\ \A d \in Op : obj'[d].key = obj[d].key /\ obj'[d].native = obj[d].native
  BY <1>1, OnTheGround DEF TabsTypes, Session
<1>4. Seats' = Seats /\ UniqueTabs' /\ SeatsKnown' /\ TabsTypes'
  BY <1>1, <1>2, <1>3, OnTheGround DEF Seats, UniqueTabs, SeatsKnown, TabsTypes
<1>5. KeysHeld'
  BY <1>1, <1>2, <1>3, OnTheGround DEF KeysHeld
<1>6. ASSUME pace = "patient"
      PROVE  /\ CallsFit(Seats', call', Placed')
             /\ ClosesFit(Seats', call', closing', pty')
             /\ PtysFit(Seats', call', obj', closing', displaced', pty', exits')
  <2>1. /\ CallsFit(Seats, call, Placed) /\ ClosesFit(Seats, call, closing, pty)
        /\ PtysFit(Seats, call, obj, closing, displaced, pty, exits)
    BY <1>6, OnTheGround DEF TabsFit
  <2>2. CallsAdvance(call, call') /\ GivenUp(Seats, Seats', call')
    BY <1>1, <1>2, <1>4 DEF CallsAdvance, GivenUp, Runs
  <2>3. CallsFit(Seats', call', Placed')
    BY <1>1, <2>1, <2>2, CallsStay DEF Placed
  <2>4. ClosesFit(Seats', call', closing', pty')
    BY <1>1, <2>1, <2>2, ClosesStay, OnTheGround DEF TabsTypes
  <2>5. PtysFit(Seats', call', obj', closing', displaced', pty', exits')
    BY <1>1, <1>2, <1>3, <1>4, <2>1, OnTheGround DEF PtysFit, TabsTypes
  <2> QED BY <2>3, <2>4, <2>5
<1> QED BY <1>1, <1>4, <1>5, <1>6, FitMeans DEF TabsInv

LEMMA OpenPtyKeeps == ASSUME Grounds, NEW c \in Op, OpenPty(c) PROVE TabsInv'
<1>1. /\ call[c].at \in {"invoked", "keyless"} /\ UNCHANGED <<ops, tabs, obj, closing, exits, displaced, pace>>
      /\ \/ Move(c, "opened") /\ pty' = pty \cup {c}
         \/ Move(c, "refused") /\ pty' = pty
  BY DEF OpenPty, shared, manner
<1>2. /\ call' \in [Op -> Call] /\ call'[c].tab = call[c].tab
      /\ \/ call'[c].at = "opened" /\ pty' = pty \cup {c}
         \/ call'[c].at = "refused" /\ pty' = pty
      /\ \A d \in Op : d # c => call'[d] = call[d]
  <2>1. CASE Move(c, "opened")
    BY <2>1, <1>1, Moves DEF Move
  <2>2. CASE Move(c, "refused")
    BY <2>2, <1>1, Moves DEF Move
  <2> QED BY <1>1, <2>1, <2>2
<1>4. Seats' = Seats /\ UniqueTabs' /\ SeatsKnown' /\ TabsTypes'
  BY <1>1, <1>2, OnTheGround DEF Seats, UniqueTabs, SeatsKnown, TabsTypes
<1>5. KeysHeld'
  <2>1. ~(c > ops)
    BY <1>1, OnTheGround DEF KeysHeld
  <2> QED BY <1>1, <1>2, <2>1, OnTheGround DEF KeysHeld
<1>6. ASSUME pace = "patient"
      PROVE  /\ CallsFit(Seats', call', Placed')
             /\ ClosesFit(Seats', call', closing', pty')
             /\ PtysFit(Seats', call', obj', closing', displaced', pty', exits')
  <2>1. /\ CallsFit(Seats, call, Placed) /\ ClosesFit(Seats, call, closing, pty)
        /\ PtysFit(Seats, call, obj, closing, displaced, pty, exits)
    BY <1>6, OnTheGround DEF TabsFit
  <2>2. CallsAdvance(call, call') /\ GivenUp(Seats, Seats', call')
    BY <1>1, <1>2, <1>4 DEF CallsAdvance, GivenUp, Runs
  <2>3. Runs(call[c]) /\ <<call[c].tab, c>> \in Seats /\ call[c].tab \in Op
    BY <1>1, <2>1, OnTheGround DEF Runs, CallsFit
  <2>4. \A d \in Op, b \in Maybe1 : call'[d].at = "asking" /\ <<call[d].tab, b>> \in Seats => b \notin pty' \ pty
    <3>1. ASSUME NEW d \in Op, call'[d].at = "asking", <<call[d].tab, c>> \in Seats PROVE FALSE
      <4>1. d # c /\ call[d].at = "asking" /\ Runs(call[d])
        BY <3>1, <1>2 DEF Runs
      <4>2. call[c].tab = call[d].tab
        BY <3>1, <2>1, <2>3, OnTheGround DEF CallsFit
      <4> QED BY <4>1, <4>2, <2>1, <2>3 DEF CallsFit
    <3> QED BY <3>1, <1>2
  <2>5. CallsFit(Seats', call', Placed')
    BY <2>1, <2>2, <2>4, <1>1, CallsStay DEF Placed
  <2>6. ClosesFit(Seats', call', closing', pty')
    BY <1>1, <1>2, <2>1, <2>2, <2>3, ClosesStay, OnTheGround DEF TabsTypes
  <2>7. PtysFit(Seats', call', obj', closing', displaced', pty', exits')
    <3>1. obj[c].native /\ Reached(Seats, closing, displaced, c)
      BY <1>1, <2>1, <2>3 DEF PtysFit, Reached
    <3> QED BY <1>1, <1>2, <1>4, <2>1, <3>1, OnTheGround DEF PtysFit, TabsTypes
  <2> QED BY <2>5, <2>6, <2>7
<1> QED BY <1>1, <1>4, <1>5, <1>6, FitMeans DEF TabsInv

(* A call that ends leaves the seats or empties its own.                   *)
LEMMA EndsFit ==
  ASSUME Grounds, NEW c \in Op, Runs(call[c]), pace = "patient", NEW at \in {"deaf", "ended"}, CallIs(c, at),
         at = "deaf" => call[c].at = "listening",
         UNCHANGED <<closing, pty, exits, displaced>>,
         \/ \A a, b : <<a, b>> \in Seats' <=> <<a, b>> \in Seats
         \/ c \notin pty /\ Seated(Seats, Seats', call[c].tab, None),
         \A d \in Op : d # c => obj'[d] = obj[d],
         c \in pty => obj'[c].native
  PROVE  /\ CallsFit(Seats', call', Placed')
         /\ ClosesFit(Seats', call', closing', pty')
         /\ PtysFit(Seats', call', obj', closing', displaced', pty', exits')
<1>1. /\ CallsFit(Seats, call, Placed) /\ ClosesFit(Seats, call, closing, pty)
      /\ PtysFit(Seats, call, obj, closing, displaced, pty, exits)
  BY OnTheGround DEF TabsFit
<1>2. /\ call' \in [Op -> Call] /\ call'[c].at = at /\ call'[c].tab = None
      /\ \A d \in Op : d # c => call'[d] = call[d]
  BY Ends
<1>3. \A d \in Op : Runs(call[d]) /\ d # c => call[d].tab # call[c].tab
  BY <1>1 DEF CallsFit
<1>4. CallsAdvance(call, call')
  BY <1>2 DEF CallsAdvance, Runs
<1>5. GivenUp(Seats, Seats', call')
  <2>1. CASE \A a, b : <<a, b>> \in Seats' <=> <<a, b>> \in Seats
    BY <2>1 DEF GivenUp
  <2>2. CASE Seated(Seats, Seats', call[c].tab, None)
    <3>1. \A d \in Op : Runs(call'[d]) => call'[d].tab # call[c].tab
      BY <1>2, <1>3 DEF Runs
    <3> QED BY <2>2, <3>1 DEF GivenUp, Seated
  <2> QED BY <2>1, <2>2
<1>6. CallsFit(Seats', call', Placed')
  BY <1>1, <1>4, <1>5, CallsStay DEF Placed
<1>7. ClosesFit(Seats', call', closing', pty')
  BY <1>1, <1>4, <1>5, ClosesStay, OnTheGround DEF TabsTypes
<1>8. ASSUME NEW s \in pty PROVE obj'[s].native /\ Reached(Seats', closing', displaced', s)
  <2>1. s \in Op /\ obj[s].native /\ Reached(Seats, closing, displaced, s)
    BY <1>1, <1>8, OnTheGround DEF PtysFit, TabsTypes
  <2>2. obj'[s].native
    BY <2>1, <1>8
  <2>3. ASSUME NEW a \in Op, <<a, s>> \in Seats, s \notin displaced PROVE <<a, s>> \in Seats'
    <3>1. CASE \A a1, b1 : <<a1, b1>> \in Seats' <=> <<a1, b1>> \in Seats
      BY <2>3, <3>1
    <3>2. CASE c \notin pty /\ Seated(Seats, Seats', call[c].tab, None)
      <4>1. PICK b \in Maybe1 : <<call[c].tab, b>> \in Seats /\ (call[c].at # "asking" => b = c)
        BY <1>1 DEF CallsFit
      <4>2. b \notin Placed
        BY <4>1, <3>2, <1>1 DEF CallsFit, Placed
      <4>3. a # call[c].tab
        BY <4>1, <4>2, <2>3, <1>8, OnTheGround DEF Placed
      <4> QED BY <4>3, <2>3, <3>2 DEF Seated
    <3> QED BY <3>1, <3>2
  <2> QED BY <2>1, <2>2, <2>3 DEF Reached
<1>9. \A s \in Op : call'[s].at \in {"listening", "invoked", "keyless"} => obj'[s].native
  BY <1>1, <1>2 DEF PtysFit
<1>10. PtysFit(Seats', call', obj', closing', displaced', pty', exits')
  <2>1. \A s \in Op : call[s].at \in {"opened", "ended"} => call'[s].at \in {"opened", "ended"}
    BY <1>2
  <2>2. pty \subseteq Op /\ exits \subseteq Op /\ \A s \in exits : s \notin pty
    BY <1>1, OnTheGround DEF PtysFit, TabsTypes
  <2> QED BY <1>1, <1>8, <1>9, <2>1, <2>2, PtysStay
<1> QED BY <1>6, <1>7, <1>10

LEMMA Vacates ==
  ASSUME Grounds, NEW t, ops' = ops, tabs' = Patch(t, "closed", None)
  PROVE  tabs' \in Seq(Tab) /\ UniqueTabs' /\ SeatsKnown' /\ Seated(Seats, Seats', t, None)
<1>1. ops' \in Nat /\ ops <= ops' /\ None <= ops' /\ None \in Maybe1 /\ ops \in Nat
  BY OnTheGround
<1>2. "closed" \in Statuses
  BY DEF Statuses
<1> QED BY <1>1, <1>2, TabPatched, OnTheGround

LEMMA DeclinedKeeps == ASSUME Grounds, NEW c \in Op, Declined(c) PROVE TabsInv'
<1>1. /\ call[c].at = "asking" /\ CallEnds(c) /\ tabs' = Patch(call[c].tab, "closed", None)
      /\ UNCHANGED <<ops, obj, closing, pty, exits, displaced, pace>>
  BY DEF Declined, bridge, shared, manner
<1>2. /\ call' \in [Op -> Call] /\ call'[c].at = "ended" /\ call'[c].tab = None
      /\ \A d \in Op : d # c => call'[d] = call[d]
  BY <1>1, Ends DEF CallEnds
<1>3. tabs' \in Seq(Tab) /\ UniqueTabs' /\ SeatsKnown' /\ Seated(Seats, Seats', call[c].tab, None)
  BY <1>1, Vacates
<1>4. TabsTypes'
  BY <1>1, <1>2, <1>3, OnTheGround DEF TabsTypes
<1>5. KeysHeld'
  <2>1. ~(c > ops) /\ obj[c].key # "held"
    BY <1>1, OnTheGround DEF KeysHeld
  <2> QED BY <1>1, <1>2, <2>1, OnTheGround DEF KeysHeld
<1>6. ASSUME pace = "patient"
      PROVE  /\ CallsFit(Seats', call', Placed')
             /\ ClosesFit(Seats', call', closing', pty')
             /\ PtysFit(Seats', call', obj', closing', displaced', pty', exits')
  <2>1. c \notin pty /\ Runs(call[c])
    BY <1>1, <1>6, OnTheGround DEF TabsFit, PtysFit, Runs
  <2> QED BY <1>1, <1>3, <1>6, <2>1, EndsFit DEF CallEnds
<1> QED BY <1>1, <1>3, <1>4, <1>5, <1>6, FitMeans DEF TabsInv

LEMMA ListenFailsKeeps == ASSUME Grounds, NEW c \in Op, ListenFails(c) PROVE TabsInv'
<1>1. /\ call[c].at = "listening" /\ CallIs(c, "deaf") /\ tabs' = Patch(call[c].tab, "closed", None)
      /\ UNCHANGED <<ops, obj, closing, pty, exits, displaced, pace>>
  BY DEF ListenFails, bridge, shared, manner
<1>2. /\ call' \in [Op -> Call] /\ call'[c].at = "deaf" /\ call'[c].tab = None
      /\ \A d \in Op : d # c => call'[d] = call[d]
  BY <1>1, Ends
<1>3. tabs' \in Seq(Tab) /\ UniqueTabs' /\ SeatsKnown' /\ Seated(Seats, Seats', call[c].tab, None)
  BY <1>1, Vacates
<1>4. TabsTypes'
  BY <1>1, <1>2, <1>3, OnTheGround DEF TabsTypes
<1>5. KeysHeld'
  <2>1. ~(c > ops)
    BY <1>1, OnTheGround DEF KeysHeld
  <2> QED BY <1>1, <1>2, <2>1, OnTheGround DEF KeysHeld
<1>6. ASSUME pace = "patient"
      PROVE  /\ CallsFit(Seats', call', Placed')
             /\ ClosesFit(Seats', call', closing', pty')
             /\ PtysFit(Seats', call', obj', closing', displaced', pty', exits')
  <2>1. c \notin pty /\ Runs(call[c])
    BY <1>1, <1>6, OnTheGround DEF TabsFit, PtysFit, Runs
  <2> QED BY <1>1, <1>3, <1>6, <2>1, EndsFit
<1> QED BY <1>1, <1>3, <1>4, <1>5, <1>6, FitMeans DEF TabsInv

LEMMA RefusedKeeps == ASSUME Grounds, NEW c \in Op, Refused(c) PROVE TabsInv'
<1>1. /\ call[c].at = "refused" /\ CallEnds(c) /\ tabs' = Patch(call[c].tab, "closed", None)
      /\ obj' = [obj EXCEPT ![c] = Wiped(Closed(obj[c]))]
      /\ UNCHANGED <<ops, closing, pty, exits, displaced, pace>>
  BY DEF Refused, bridge, shared, manner
<1>2. /\ call' \in [Op -> Call] /\ call'[c].at = "ended" /\ call'[c].tab = None
      /\ \A d \in Op : d # c => call'[d] = call[d]
  BY <1>1, Ends DEF CallEnds
<1>3. tabs' \in Seq(Tab) /\ UniqueTabs' /\ SeatsKnown' /\ Seated(Seats, Seats', call[c].tab, None)
  BY <1>1, Vacates
<1>4. /\ obj' \in [Op -> Session] /\ obj'[c].key # "held" /\ \A d \in Op : d # c => obj'[d] = obj[d]
  <2>1. obj \in [Op -> Session] /\ obj[c] \in Session
    BY OnTheGround DEF TabsTypes
  <2> QED BY <1>1, <2>1, SessionsClose
<1>5. TabsTypes'
  BY <1>1, <1>2, <1>3, <1>4, OnTheGround DEF TabsTypes
<1>6. KeysHeld'
  <2>1. ~(c > ops)
    BY <1>1, OnTheGround DEF KeysHeld
  <2> QED BY <1>1, <1>2, <1>4, <2>1, OnTheGround DEF KeysHeld
<1>7. ASSUME pace = "patient"
      PROVE  /\ CallsFit(Seats', call', Placed')
             /\ ClosesFit(Seats', call', closing', pty')
             /\ PtysFit(Seats', call', obj', closing', displaced', pty', exits')
  <2>1. c \notin pty /\ Runs(call[c])
    BY <1>1, <1>7, OnTheGround DEF TabsFit, PtysFit, Runs
  <2> QED BY <1>1, <1>3, <1>4, <1>7, <2>1, EndsFit DEF CallEnds
<1> QED BY <1>1, <1>3, <1>5, <1>6, <1>7, FitMeans DEF TabsInv

LEMMA OpenedKeeps == ASSUME Grounds, NEW c \in Op, Opened(c) PROVE TabsInv'
<1>1. /\ call[c].at = "opened" /\ CallEnds(c) /\ tabs' = Patch(call[c].tab, "connected", c)
      /\ obj' = [obj EXCEPT ![c] = Wiped(obj[c])]
      /\ UNCHANGED <<ops, closing, pty, exits, displaced, pace>>
  BY DEF Opened, bridge, shared, manner
<1>2. /\ call' \in [Op -> Call] /\ call'[c].at = "ended" /\ call'[c].tab = None
      /\ \A d \in Op : d # c => call'[d] = call[d]
  BY <1>1, Ends DEF CallEnds
<1>3. ~(c > ops) /\ c <= ops
  BY <1>1, OnTheGround DEF KeysHeld
<1>4. tabs' \in Seq(Tab) /\ UniqueTabs' /\ SeatsKnown' /\ Seated(Seats, Seats', call[c].tab, c)
  <2>1. ops' \in Nat /\ ops <= ops' /\ c <= ops' /\ c \in Maybe1 /\ ops \in Nat
    BY <1>1, <1>3, OnTheGround
  <2>2. "connected" \in Statuses
    BY DEF Statuses
  <2> QED BY <1>1, <2>1, <2>2, TabPatched, OnTheGround
<1>5. /\ obj' \in [Op -> Session] /\ obj'[c].key # "held" /\ obj'[c].native = obj[c].native
      /\ \A d \in Op : d # c => obj'[d] = obj[d]
  <2>1. obj \in [Op -> Session] /\ obj[c] \in Session
    BY OnTheGround DEF TabsTypes
  <2> QED BY <1>1, <2>1, SessionsClose
<1>6. TabsTypes'
  BY <1>1, <1>2, <1>4, <1>5, OnTheGround DEF TabsTypes
<1>7. KeysHeld'
  BY <1>1, <1>2, <1>3, <1>5, OnTheGround DEF KeysHeld
<1>8. ASSUME pace = "patient"
      PROVE  /\ CallsFit(Seats', call', Placed')
             /\ ClosesFit(Seats', call', closing', pty')
             /\ PtysFit(Seats', call', obj', closing', displaced', pty', exits')
  <2>1. /\ Runs(call[c]) /\ <<call[c].tab, c>> \in Seats
        /\ c \in pty => obj[c].native
    BY <1>1, <1>8, OnTheGround DEF TabsFit, CallsFit, PtysFit, Runs
  <2>2. \A a, b : <<a, b>> \in Seats' <=> <<a, b>> \in Seats
    BY <1>4, <2>1, OnTheGround DEF Seated
  <2>3. c \in pty => obj'[c].native
    BY <1>5, <2>1
  <2> HIDE DEF Seats
  <2> QED BY <1>1, <1>5, <1>8, <2>1, <2>2, <2>3, EndsFit DEF CallEnds
<1> QED BY <1>1, <1>4, <1>6, <1>7, <1>8, FitMeans DEF TabsInv

LEMMA HostSessionKeeps == ASSUME Grounds, NEW c \in Op, HostSession(c) PROVE TabsInv'
<1>1. /\ call[c].at = "asking" /\ Move(c, "listening")
      /\ obj' = [obj EXCEPT ![c] = [native |-> TRUE, listening |-> FALSE, key |-> "held"]]
      /\ tabs' = [i \in DOMAIN tabs |-> IF tabs[i].id = call[c].tab THEN [tabs[i] EXCEPT !.session = c] ELSE tabs[i]]
      /\ UNCHANGED <<ops, closing, pty, exits, displaced, pace>>
  BY DEF HostSession, bridge, shared, manner
<1>2. /\ call' \in [Op -> Call] /\ call'[c].at = "listening" /\ call'[c].tab = call[c].tab
      /\ \A d \in Op : d # c => call'[d] = call[d]
  BY <1>1, Moves
<1>3. ~(c > ops) /\ c <= ops
  BY <1>1, OnTheGround DEF KeysHeld
<1>4. tabs' \in Seq(Tab) /\ UniqueTabs' /\ SeatsKnown' /\ Seated(Seats, Seats', call[c].tab, c)
  BY <1>1, <1>3, SessionTaken, OnTheGround
<1>5. obj' \in [Op -> Session] /\ obj'[c].native /\ \A d \in Op : d # c => obj'[d] = obj[d]
  BY <1>1, OnTheGround DEF TabsTypes, Session
<1>6. TabsTypes'
  BY <1>1, <1>2, <1>4, <1>5, OnTheGround DEF TabsTypes
<1>7. KeysHeld'
  BY <1>1, <1>2, <1>3, <1>5, OnTheGround DEF KeysHeld
<1>8. ASSUME pace = "patient"
      PROVE  /\ CallsFit(Seats', call', Placed')
             /\ ClosesFit(Seats', call', closing', pty')
             /\ PtysFit(Seats', call', obj', closing', displaced', pty', exits')
  <2>1. /\ CallsFit(Seats, call, Placed) /\ ClosesFit(Seats, call, closing, pty)
        /\ PtysFit(Seats, call, obj, closing, displaced, pty, exits)
    BY <1>8, OnTheGround DEF TabsFit
  <2>2. PICK b \in Maybe1 : <<call[c].tab, b>> \in Seats
    BY <1>1, <2>1 DEF CallsFit, Runs
  <2>3. b \notin Placed
    BY <1>1, <2>1, <2>2 DEF CallsFit
  <2>4. <<call[c].tab, c>> \in Seats'
    BY <2>2, <1>4 DEF Seated
  <2>5. \A d \in Op : Runs(call'[d]) <=> Runs(call[d])
    BY <1>1, <1>2 DEF Runs
  <2>6. \A d \in Op : call'[d].tab = call[d].tab
    BY <1>2
  <2>7. \A d \in Op : Runs(call[d]) /\ d # c => call[d].tab # call[c].tab
    BY <1>1, <2>1 DEF CallsFit, Runs
  <2> HIDE DEF Seats
  <2>8. CallsFit(Seats', call', Placed')
    <3>1. ASSUME NEW d \in Op, Runs(call'[d])
          PROVE  \E b1 \in Maybe1 : <<call'[d].tab, b1>> \in Seats' /\ (call'[d].at # "asking" => b1 = d)
      <4>1. CASE d = c
        BY <4>1, <2>4, <2>6, OnTheGround
      <4>2. CASE d # c
        <5>1. call'[d] = call[d] /\ Runs(call[d]) /\ call[d].tab # call[c].tab
          BY <3>1, <4>2, <1>2, <2>5, <2>7
        <5>2. PICK b1 \in Maybe1 : <<call[d].tab, b1>> \in Seats /\ (call[d].at # "asking" => b1 = d)
          BY <5>1, <2>1 DEF CallsFit
        <5>3. <<call[d].tab, b1>> \in Seats'
          BY <5>1, <5>2, <1>4 DEF Seated
        <5> QED BY <5>1, <5>2, <5>3
      <4> QED BY <4>1, <4>2
    <3>2. \A d, e \in Op : Runs(call'[d]) /\ Runs(call'[e]) /\ call'[d].tab = call'[e].tab => d = e
      BY <2>1, <2>5, <2>6 DEF CallsFit
    <3>3. ASSUME NEW a \in Op, NEW d \in Op, Runs(call'[d]), <<a, d>> \in Seats' PROVE call'[d].tab = a
      <4>1. CASE a = call[c].tab
        BY <4>1, <3>3, <1>4, <2>6 DEF Seated
      <4>2. CASE a # call[c].tab
        BY <4>2, <3>3, <1>4, <2>1, <2>5, <2>6 DEF CallsFit, Seated
      <4> QED BY <4>1, <4>2
    <3>4. \A d \in Op, b1 \in Maybe1 : call'[d].at = "asking" /\ <<call'[d].tab, b1>> \in Seats' => b1 \notin Placed'
      <4>1. \A d \in Op : call'[d].at = "asking" => d # c /\ Runs(call[d]) /\ call[d].at = "asking"
        BY <1>2 DEF Runs
      <4>2. Placed' = Placed
        BY <1>1 DEF Placed
      <4> QED BY <4>1, <4>2, <1>1, <1>4, <2>1, <2>6, <2>7 DEF CallsFit, Seated
    <3> QED BY <3>1, <3>2, <3>3, <3>4 DEF CallsFit
  <2>9. ClosesFit(Seats', call', closing', pty')
    <3>1. \A k \in closing : k.session \in Op /\ k.tab # call[c].tab /\ ~Runs(call[k.session])
      BY <1>1, <2>1, OnTheGround DEF ClosesFit, Runs, TabsTypes, Ending
    <3>2. \A k \in closing, b1 \in Maybe1 : <<k.tab, b1>> \in Seats' => b1 \in {k.session, None}
      BY <3>1, <2>1, <1>4 DEF ClosesFit, Seated
    <3> QED BY <3>1, <3>2, <1>1, <2>1, <2>5, <2>6 DEF ClosesFit
  <2>10. PtysFit(Seats', call', obj', closing', displaced', pty', exits')
    <3>1. ASSUME NEW s \in pty PROVE obj'[s].native /\ Reached(Seats', closing', displaced', s)
      <4>1. s \in Op /\ s # c /\ obj[s].native /\ Reached(Seats, closing, displaced, s)
        BY <2>1, <1>1, <3>1, OnTheGround DEF PtysFit, TabsTypes
      <4>2. \A a \in Op : <<a, s>> \in Seats /\ s \notin displaced => a # call[c].tab
        BY <2>2, <2>3, <3>1, OnTheGround DEF Placed
      <4>3. \A a \in Op : <<a, s>> \in Seats /\ s \notin displaced => <<a, s>> \in Seats'
        BY <4>2, <1>4 DEF Seated
      <4> QED BY <4>1, <4>3, <1>1, <1>5 DEF Reached
    <3>2. \A s \in Op : call[s].at \in {"opened", "ended"} => call'[s].at \in {"opened", "ended"}
      BY <1>1, <1>2
    <3>3. \A s \in Op : call'[s].at \in {"listening", "invoked", "keyless"} => obj'[s].native
      BY <1>2, <1>5, <2>1 DEF PtysFit
    <3>4. pty \subseteq Op /\ exits \subseteq Op /\ \A s \in exits : s \notin pty
      BY <2>1, OnTheGround DEF PtysFit, TabsTypes
    <3>5. pty' = pty /\ exits' = exits
      BY <1>1
    <3>6. PtysFit(Seats, call, obj, closing, displaced, pty, exits)
      BY <2>1
    <3> QED BY <3>1, <3>2, <3>3, <3>4, <3>5, <3>6, PtysStay
  <2> QED BY <2>8, <2>9, <2>10
<1> QED BY <1>1, <1>4, <1>6, <1>7, <1>8, FitMeans DEF TabsInv

(* A call that begins has the next number, which nobody has used.          *)
LEMMA Launched ==
  ASSUME Grounds, NEW t \in Op, NEW kind \in Kind, Begin, Launch(ops', t, kind)
  PROVE  /\ ops' \in Op /\ ops' = ops + 1 /\ call' \in [Op -> Call] /\ obj' \in [Op -> Session]
         /\ call[ops'].at = "idle" /\ ops' \notin pty \cup exits
         /\ call'[ops'].tab = t /\ call'[ops'].at = (IF kind = "local" THEN "listening" ELSE "asking")
         /\ (kind = "local" => obj'[ops'].native)
         /\ \A d \in Op : d # ops' => call'[d] = call[d] /\ obj'[d] = obj[d]
         /\ \A d \in Op : obj'[d].key = obj[d].key
<1> DEFINE n == ops'
<1>1. n \in Op /\ n = ops + 1 /\ n > ops
  BY OnTheGround DEF Begin, Op
<1>2. call \in [Op -> Call] /\ obj \in [Op -> Session] /\ obj[n] \in Session
  BY <1>1, OnTheGround DEF TabsTypes
<1>3. call[n].at = "idle" /\ n \notin pty \cup exits
  BY <1>1, OnTheGround DEF KeysHeld
<1> DEFINE r == [tab |-> t, kind |-> kind, account |-> account, at |-> IF kind = "local" THEN "listening" ELSE "asking"]
<1>4. r \in Call
  <2>1. account \in 0 .. MaxAccount
    BY DEF Grounds, BridgeTypeOK
  <2> QED BY <2>1 DEF Call
<1>5. call' = [call EXCEPT ![n] = r]
  BY DEF Launch
<1>6. r.tab = t /\ r.at = (IF kind = "local" THEN "listening" ELSE "asking")
  OBVIOUS
<1>7. obj' = IF kind = "local" THEN [obj EXCEPT ![n].native = TRUE] ELSE obj
  BY DEF Launch
<1> HIDE DEF r, n
<1>8. /\ call' \in [Op -> Call] /\ call'[n] = r /\ \A d \in Op : d # n => call'[d] = call[d]
  BY <1>1, <1>2, <1>4, <1>5
<1>9. /\ obj' \in [Op -> Session] /\ (kind = "local" => obj'[n].native)
      /\ \A d \in Op : d # n => obj'[d] = obj[d]
      /\ \A d \in Op : obj'[d].key = obj[d].key
  <2>1. CASE kind = "local"
    BY <2>1, <1>1, <1>2, <1>7 DEF Session
  <2>2. CASE kind # "local"
    BY <2>2, <1>2, <1>7
  <2> QED BY <2>1, <2>2
<1> QED BY <1>1, <1>3, <1>6, <1>8, <1>9 DEF n

(* It takes a seat of its own, or the seat of a tab without a call.        *)
LEMMA LaunchFits ==
  ASSUME Grounds, NEW n \in Op, NEW t \in Op, NEW kind \in Kind, NEW b0 \in Maybe1, pace = "patient",
         UNCHANGED <<closing, pty, exits>>,
         n = ops + 1, call' \in [Op -> Call],
         call[n].at = "idle", n \notin pty \cup exits,
         call'[n].tab = t, call'[n].at = IF kind = "local" THEN "listening" ELSE "asking",
         kind = "local" => obj'[n].native,
         \A d \in Op : d # n => call'[d] = call[d] /\ obj'[d] = obj[d],
         \A a, b : <<a, b>> \in Seats' <=> IF a = t THEN b = b0 ELSE <<a, b>> \in Seats,
         IF kind = "local" THEN b0 = n ELSE b0 # n,
         displaced \subseteq displaced', b0 \notin Placed',
         \A a, b : <<a, b>> \in Seats /\ a = t => b \notin Placed',
         \A d \in Op : Runs(call[d]) => call[d].tab # t,
         \A k \in closing : k.tab # t,
         \A d \in Op : d # n /\ b0 = d => ~Runs(call[d])
  PROVE  /\ CallsFit(Seats', call', Placed')
         /\ ClosesFit(Seats', call', closing', pty')
         /\ PtysFit(Seats', call', obj', closing', displaced', pty', exits')
<1>1. /\ CallsFit(Seats, call, Placed) /\ ClosesFit(Seats, call, closing, pty)
      /\ PtysFit(Seats, call, obj, closing, displaced, pty, exits)
  BY OnTheGround DEF TabsFit
<1>2. /\ ~Runs(call[n]) /\ Runs(call'[n])
      /\ \A d \in Op : d # n => call'[d] = call[d] /\ (Runs(call'[d]) <=> Runs(call[d]))
  BY DEF Runs
<1>3. \A a, b : <<a, b>> \in Seats => b # n /\ a \in Op /\ b \in Maybe1
  <2>1. \A a, b : <<a, b>> \in Seats => a \in Op /\ b \in Maybe1 /\ b <= ops
    BY OnTheGround
  <2> HIDE DEF Seats
  <2> QED BY <2>1, OnTheGround
<1> HIDE DEF Seats
<1>4. CallsFit(Seats', call', Placed')
  <2>1. ASSUME NEW d \in Op, Runs(call'[d])
        PROVE  \E b \in Maybe1 : <<call'[d].tab, b>> \in Seats' /\ (call'[d].at # "asking" => b = d)
    <3>1. CASE d = n
      BY <3>1
    <3>2. CASE d # n
      <4>1. call'[d] = call[d] /\ Runs(call[d]) /\ call[d].tab # t
        BY <2>1, <3>2, <1>2
      <4>2. PICK b \in Maybe1 : <<call[d].tab, b>> \in Seats /\ (call[d].at # "asking" => b = d)
        BY <4>1, <1>1 DEF CallsFit
      <4>3. <<call[d].tab, b>> \in Seats'
        BY <4>1, <4>2
      <4> QED BY <4>1, <4>2, <4>3
    <3> QED BY <3>1, <3>2
  <2>2. \A d, e \in Op : Runs(call'[d]) /\ Runs(call'[e]) /\ call'[d].tab = call'[e].tab => d = e
    BY <1>1, <1>2 DEF CallsFit
  <2>3. ASSUME NEW a \in Op, NEW d \in Op, Runs(call'[d]), <<a, d>> \in Seats' PROVE call'[d].tab = a
    <3>1. CASE d = n
      <4>1. a = t
        BY <3>1, <2>3, <1>3
      <4> QED BY <3>1, <4>1
    <3>2. CASE d # n
      <4>1. call'[d] = call[d] /\ Runs(call[d])
        BY <2>3, <3>2, <1>2
      <4>2. a # t
        BY <2>3, <3>2, <4>1
      <4>3. <<a, d>> \in Seats
        BY <2>3, <4>2
      <4> QED BY <4>1, <4>3, <1>1 DEF CallsFit
    <3> QED BY <3>1, <3>2
  <2>4. ASSUME NEW d \in Op, NEW b \in Maybe1, call'[d].at = "asking", <<call'[d].tab, b>> \in Seats' PROVE b \notin Placed'
    <3>1. CASE d = n
      BY <3>1, <2>4
    <3>2. CASE d # n
      <4>1. call'[d] = call[d] /\ Runs(call[d])
        BY <2>4, <3>2 DEF Runs
      <4>2. call[d].tab # t
        BY <4>1
      <4>3. b \notin Placed
        BY <2>4, <4>1, <4>2, <1>1 DEF CallsFit
      <4> QED BY <4>3 DEF Placed
    <3> QED BY <3>1, <3>2
  <2> QED BY <2>1, <2>2, <2>3, <2>4 DEF CallsFit
<1>5. ClosesFit(Seats', call', closing', pty')
  <2>1. ASSUME NEW k \in closing
        PROVE  /\ ~Runs(call'[k.session])
               /\ k.answered => k.session \notin pty
               /\ \A b \in Maybe1 : <<k.tab, b>> \in Seats' => b \in {k.session, None}
               /\ \A c \in Op : Runs(call'[c]) => call'[c].tab # k.tab
    <3>1. k.session \in Op /\ k.session <= ops
      BY OnTheGround DEF TabsTypes, Ending, KeysHeld
    <3>2. k.session # n
      BY <3>1, OnTheGround
    <3>3. ~Runs(call'[k.session])
      BY <3>1, <3>2, <1>1, <1>2 DEF ClosesFit
    <3>4. \A c \in Op : Runs(call'[c]) => call'[c].tab # k.tab
      BY <1>1, <1>2 DEF ClosesFit
    <3>5. \A b \in Maybe1 : <<k.tab, b>> \in Seats' => b \in {k.session, None}
      BY <1>1 DEF ClosesFit
    <3> QED BY <3>3, <3>4, <3>5, <1>1 DEF ClosesFit
  <2> QED BY <2>1 DEF ClosesFit
<1>6. PtysFit(Seats', call', obj', closing', displaced', pty', exits')
  <2>1. ASSUME NEW s \in pty PROVE obj'[s].native /\ Reached(Seats', closing', displaced', s)
    <3>1. s \in Op /\ s # n /\ obj[s].native /\ Reached(Seats, closing, displaced, s)
      BY <1>1, OnTheGround DEF PtysFit, TabsTypes
    <3>2. \A a \in Op : <<a, s>> \in Seats => <<a, s>> \in Seats' \/ s \in displaced'
      BY <3>1, <2>1 DEF Placed
    <3> QED BY <3>1, <3>2 DEF Reached
  <2>2. \A s \in Op : call[s].at \in {"opened", "ended"} => call'[s].at \in {"opened", "ended"}
    BY <1>2
  <2>3. \A s \in Op : call'[s].at \in {"listening", "invoked", "keyless"} => obj'[s].native
    <3>1. ASSUME NEW s \in Op, call'[s].at \in {"listening", "invoked", "keyless"} PROVE obj'[s].native
      <4>1. CASE s = n
        BY <4>1, <3>1
      <4>2. CASE s # n
        BY <4>2, <3>1, <1>1 DEF PtysFit
      <4> QED BY <4>1, <4>2
    <3> QED BY <3>1
  <2>4. pty \subseteq Op /\ exits \subseteq Op /\ \A s \in exits : s \notin pty
    BY <1>1, OnTheGround DEF PtysFit, TabsTypes
  <2>5. PtysFit(Seats, call, obj, closing, displaced, pty, exits)
    BY <1>1
  <2>6. pty' = pty /\ exits' = exits
    OBVIOUS
  <2>7. pty' \subseteq pty /\ exits' \subseteq Op /\ \A s \in exits' : s \notin pty' /\ (s \in exits \/ s \in pty)
    BY <2>4, <2>6
  <2>8. \A s \in pty' : obj'[s].native /\ Reached(Seats', closing', displaced', s)
    BY <2>1, <2>6
  <2>9. pty \subseteq Op
    BY <2>4
  <2> QED BY ONLY <2>2, <2>3, <2>5, <2>7, <2>8, <2>9, PtysStay
<1> QED BY <1>4, <1>5, <1>6

LEMMA LaunchKeys ==
  ASSUME Grounds, NEW kind, NEW t \in Op, kind \in Kind, Begin, Launch(ops', t, kind),
         UNCHANGED <<closing, pty, exits>>
  PROVE  KeysHeld'
<1>1. /\ ops' \in Op /\ ops' = ops + 1
      /\ call[ops'].at = "idle"
      /\ call'[ops'].at \in {"listening", "asking"}
      /\ \A d \in Op : d # ops' => call'[d] = call[d] /\ obj'[d] = obj[d]
      /\ \A d \in Op : obj'[d].key = obj[d].key
  BY Launched
<1>2. \A c \in Op : c > ops' => c # ops' /\ c > ops
  BY <1>1, OnTheGround
<1>3. \A k \in closing : k.session <= ops' /\ k.tab <= ops'
  <2>1. \A k \in closing : k.session \in Nat /\ k.tab \in Nat /\ k.session <= ops /\ k.tab <= ops
    BY OnTheGround DEF TabsTypes, Ending, KeysHeld, Op, Maybe1
  <2> QED BY <2>1, <1>1, OnTheGround
<1>4. \A c \in Op : call'[c].at \in {"idle", "asking", "ended"} => obj'[c].key # "held"
  BY <1>1, OnTheGround DEF KeysHeld
<1>5. \A c \in Op : c > ops' => call'[c].at = "idle" /\ c \notin pty' \cup exits'
  BY <1>1, <1>2, OnTheGround DEF KeysHeld
<1> QED BY <1>3, <1>4, <1>5 DEF KeysHeld

LEMMA AddTabKeeps == ASSUME Grounds, NEW kind \in Kind, AddTab(kind) PROVE TabsInv'
<1> DEFINE r == [id |-> ops', kind |-> kind, status |-> "connecting", session |-> IF kind = "local" THEN ops' ELSE None]
<1>1. /\ Begin /\ tabs' = Append(tabs, r) /\ Launch(ops', ops', kind)
      /\ UNCHANGED <<closing, pty, exits, displaced, pace>>
  BY DEF AddTab, shared, manner
<1>2. ops' \in Op /\ ops' = ops + 1 /\ ops + 1 \in Op /\ ops + 1 \in Nat
  BY <1>1, OnTheGround DEF Begin, Op
<1>3. r \in Tab /\ r.id = ops + 1 /\ r.session = (IF kind = "local" THEN ops + 1 ELSE None)
  BY <1>2 DEF Tab, Maybe1
<1>4. r.session <= ops + 1
  BY <1>2, <1>3, OnTheGround
<1> HIDE DEF r
<1>5. /\ tabs' \in Seq(Tab) /\ UniqueTabs' /\ SeatsKnown'
      /\ \A a, b : <<a, b>> \in Seats' <=> <<a, b>> \in Seats \/ (a = ops + 1 /\ b = r.session)
  BY <1>1, <1>2, <1>3, <1>4, TabAdded, OnTheGround
<1>6. /\ call' \in [Op -> Call] /\ obj' \in [Op -> Session]
      /\ call[ops'].at = "idle" /\ ops' \notin pty \cup exits
      /\ call'[ops'].tab = ops' /\ call'[ops'].at = (IF kind = "local" THEN "listening" ELSE "asking")
      /\ (kind = "local" => obj'[ops'].native)
      /\ \A d \in Op : d # ops' => call'[d] = call[d] /\ obj'[d] = obj[d]
  BY <1>1, <1>2, Launched
<1>7. TabsTypes'
  BY <1>1, <1>5, <1>6, OnTheGround DEF TabsTypes
<1>8. KeysHeld'
  BY <1>1, <1>2, LaunchKeys
<1>9. ASSUME pace = "patient"
      PROVE  /\ CallsFit(Seats', call', Placed')
             /\ ClosesFit(Seats', call', closing', pty')
             /\ PtysFit(Seats', call', obj', closing', displaced', pty', exits')
  <2>1. \A a, b : <<a, b>> \in Seats => a # ops + 1 /\ b # ops + 1
    <3>1. \A a, b : <<a, b>> \in Seats => a \in Op /\ b \in Maybe1 /\ a <= ops /\ b <= ops
      BY OnTheGround
    <3>2. \A a \in Maybe1 : a <= ops => a # ops + 1
      BY OnTheGround DEF Maybe1
    <3> HIDE DEF Seats
    <3> QED BY <3>1, <3>2, OnTheGround
  <2> DEFINE n == ops + 1
  <2>2. n \in Op /\ ops' = n /\ n = ops + 1 /\ n # None
    BY <1>2, OnTheGround
  <2> HIDE DEF n, Seats
  <2>3. ASSUME NEW a, NEW b PROVE <<a, b>> \in Seats' <=> IF a = n THEN b = r.session ELSE <<a, b>> \in Seats
    <3>1. <<a, b>> \in Seats' <=> <<a, b>> \in Seats \/ (a = n /\ b = r.session)
      BY <1>5, <2>2
    <3>2. <<a, b>> \in Seats => a # n
      BY <2>1, <2>2
    <3> QED BY <3>1, <3>2
  <2>4. r.session \in Maybe1 /\ (IF kind = "local" THEN r.session = n ELSE r.session # n)
    BY <1>3, <2>2, OnTheGround
  <2>5. r.session \notin Placed' /\ \A d \in Op : d # n /\ r.session = d => ~Runs(call[d])
    <3>1. None \notin Op /\ pty \subseteq Op
      BY OnTheGround DEF TabsTypes
    <3>2. Placed' \subseteq pty
      BY <1>1 DEF Placed
    <3> QED BY <3>1, <3>2, <1>3, <1>6, <2>2
  <2>6. \A a, b : <<a, b>> \in Seats /\ a = n => b \notin Placed'
    BY <2>1, <2>2
  <2>7. \A d \in Op : Runs(call[d]) => call[d].tab # n
    <3>1. CallsFit(Seats, call, Placed)
      BY <1>9, OnTheGround DEF TabsFit
    <3> QED BY <3>1, <2>1, <2>2 DEF CallsFit
  <2>8. \A k \in closing : k.tab # n
    <3>1. \A k \in closing : k.tab \in Maybe1 /\ k.tab <= ops
      BY OnTheGround DEF TabsTypes, Ending, KeysHeld
    <3>2. \A a \in Maybe1 : a <= ops => a # ops + 1
      BY OnTheGround DEF Maybe1
    <3> QED BY <3>1, <3>2, <2>2
  <2>9. UNCHANGED <<closing, pty, exits, displaced>>
    BY <1>1
  <2>10. /\ call' \in [Op -> Call] /\ call[n].at = "idle" /\ n \notin pty \cup exits
         /\ call'[n].tab = n /\ call'[n].at = (IF kind = "local" THEN "listening" ELSE "asking")
         /\ (kind = "local" => obj'[n].native)
         /\ \A d \in Op : d # n => call'[d] = call[d] /\ obj'[d] = obj[d]
    BY <1>6, <2>2
  <2> QED BY <1>9, <2>2, <2>3, <2>4, <2>5, <2>6, <2>7, <2>8, <2>9, <2>10, LaunchFits
<1> QED BY <1>1, <1>5, <1>7, <1>8, <1>9, FitMeans DEF TabsInv

LEMMA ReconnectKeeps == ASSUME Grounds, NEW i \in DOMAIN tabs, Connect(i) PROVE TabsInv'
<1>0. \E t, kind : t = tabs[i].id /\ kind = tabs[i].kind
  OBVIOUS
<1> PICK t, kind : t = tabs[i].id /\ kind = tabs[i].kind
  BY <1>0
<1>1. /\ Begin /\ Launch(ops', t, kind)
      /\ tabs' = IF kind = "local" THEN Patch(t, "connecting", ops') ELSE PatchStatus(t, "connecting")
      /\ Hasty \/ ~Busy(t)
      /\ displaced' = displaced \cup {s \in {tabs[i].session} \cap pty : ~Hasty}
      /\ UNCHANGED <<closing, pty, exits, pace>>
  BY DEF Connect, shared, manner
<1>2. tabs[i] \in Tab /\ t \in Op /\ kind \in Kind /\ tabs[i].session \in Maybe1 /\ <<t, tabs[i].session>> \in Seats
  <2>1. tabs[i] \in Tab
    BY OnTheGround DEF TabsTypes
  <2> QED BY <2>1 DEF Tab, Seats
<1>3. ops' \in Op /\ ops' = ops + 1 /\ ops \in Nat /\ ops' \in Nat /\ ops <= ops' /\ ops' <= ops'
  BY <1>1, OnTheGround DEF Begin, Op
<1>4. /\ call' \in [Op -> Call] /\ obj' \in [Op -> Session]
      /\ call[ops'].at = "idle" /\ ops' \notin pty \cup exits
      /\ call'[ops'].tab = t /\ call'[ops'].at = (IF kind = "local" THEN "listening" ELSE "asking")
      /\ (kind = "local" => obj'[ops'].native)
      /\ \A d \in Op : d # ops' => call'[d] = call[d] /\ obj'[d] = obj[d]
  BY <1>1, <1>2, Launched
<1> DEFINE b0 == IF kind = "local" THEN ops' ELSE tabs[i].session
<1>5. b0 \in Maybe1 /\ b0 = IF kind = "local" THEN ops' ELSE tabs[i].session
  BY <1>2, <1>3, OnTheGround
<1> HIDE DEF b0
<1>6. /\ tabs' \in Seq(Tab) /\ UniqueTabs' /\ SeatsKnown'
      /\ \A a, b : <<a, b>> \in Seats' <=> IF a = t THEN b = b0 ELSE <<a, b>> \in Seats
  <2>1. CASE kind = "local"
    <3>1. tabs' = Patch(t, "connecting", ops') /\ "connecting" \in Statuses
      BY <1>1, <2>1 DEF Statuses
    <3>2. tabs' \in Seq(Tab) /\ UniqueTabs' /\ SeatsKnown' /\ Seated(Seats, Seats', t, ops')
      BY <3>1, <1>3, TabPatched, OnTheGround
    <3> HIDE DEF Seats
    <3> QED BY <2>1, <3>2, <1>2, <1>5 DEF Seated
  <2>2. CASE kind # "local"
    <3>1. tabs' = PatchStatus(t, "connecting") /\ "connecting" \in Statuses
      BY <1>1, <2>2 DEF Statuses
    <3>2. tabs' \in Seq(Tab) /\ UniqueTabs' /\ Seats' = Seats
      BY <3>1, StatusPatched, OnTheGround
    <3>3. SeatsKnown'
      <4>1. \A a \in Maybe1 : a <= ops => a <= ops'
        BY <1>3 DEF Maybe1
      <4>2. \A a, b : <<a, b>> \in Seats' => a <= ops' /\ b <= ops'
        BY <3>2, <4>1, OnTheGround
      <4>3. \A j \in DOMAIN tabs' : <<tabs'[j].id, tabs'[j].session>> \in Seats'
        BY DEF Seats
      <4> HIDE DEF Seats
      <4> QED BY <4>2, <4>3 DEF SeatsKnown
    <3>4. ASSUME NEW a, NEW b PROVE <<a, b>> \in Seats' <=> IF a = t THEN b = b0 ELSE <<a, b>> \in Seats
      <4> HIDE DEF Seats
      <4>1. b0 = tabs[i].session /\ <<t, b0>> \in Seats
        BY <1>2, <1>5, <2>2
      <4>2. a = t /\ <<a, b>> \in Seats => b = b0
        BY <4>1, OnTheGround
      <4> QED BY <4>1, <4>2, <3>2
    <3> QED BY <3>2, <3>3, <3>4
  <2> QED BY <2>1, <2>2
<1>7. TabsTypes'
  <2>1. displaced' \subseteq Op
    BY <1>1, OnTheGround DEF TabsTypes
  <2> QED BY <2>1, <1>1, <1>4, <1>6, OnTheGround DEF TabsTypes
<1>8. KeysHeld'
  BY <1>1, <1>2, LaunchKeys
<1>9. ASSUME pace = "patient"
      PROVE  /\ CallsFit(Seats', call', Placed')
             /\ ClosesFit(Seats', call', closing', pty')
             /\ PtysFit(Seats', call', obj', closing', displaced', pty', exits')
  <2>1. ~Busy(t) /\ tabs[i].session \notin Placed'
    BY <1>1, <1>9 DEF Hasty, Placed
  <2>2. (\A d \in Op : Runs(call[d]) => call[d].tab # t) /\ \A k \in closing : k.tab # t
    BY <2>1 DEF Busy, Running, Runs
  <2>3. \A a, b : <<a, b>> \in Seats /\ a = t => b \notin Placed'
    BY <1>2, <2>1, OnTheGround
  <2> DEFINE n == ops'
  <2>4. n \in Op /\ n = ops + 1
    BY <1>3
  <2>5. /\ call' \in [Op -> Call] /\ call[n].at = "idle" /\ n \notin pty \cup exits
        /\ call'[n].tab = t /\ call'[n].at = (IF kind = "local" THEN "listening" ELSE "asking")
        /\ (kind = "local" => obj'[n].native)
        /\ \A d \in Op : d # n => call'[d] = call[d] /\ obj'[d] = obj[d]
    BY <1>4
  <2>6. tabs[i].session # n /\ n \notin pty
    <3>1. tabs[i].session <= ops
      BY OnTheGround DEF SeatsKnown
    <3>2. \A a \in Maybe1 : a <= ops => a # ops + 1
      BY OnTheGround DEF Maybe1
    <3> QED BY <3>1, <3>2, <1>2, <1>3, <1>4
  <2> HIDE DEF n, Seats
  <2>7. (IF kind = "local" THEN b0 = n ELSE b0 # n) /\ b0 \notin Placed'
    <3>1. n \notin Placed'
      BY <2>6, <1>1 DEF Placed
    <3> QED BY <3>1, <2>1, <2>6, <1>5 DEF n
  <2>8. \A d \in Op : d # n /\ b0 = d => ~Runs(call[d])
    <3>1. CallsFit(Seats, call, Placed)
      BY <1>9, OnTheGround DEF TabsFit
    <3>2. \A d \in Op : b0 = d /\ d # n => <<t, d>> \in Seats
      BY <1>2, <1>5 DEF n
    <3> QED BY <3>1, <3>2, <2>2, <1>2 DEF CallsFit
  <2>9. UNCHANGED <<closing, pty, exits>> /\ displaced \subseteq displaced'
    BY <1>1
  <2> QED BY <1>2, <1>5, <1>6, <1>9, <2>2, <2>3, <2>4, <2>5, <2>7, <2>8, <2>9, LaunchFits
<1> QED BY <1>1, <1>6, <1>7, <1>8, <1>9, FitMeans DEF TabsInv

(* close() of sessions without a call: those that the shell knows are      *)
(* closed there first.                                                     *)
LEMMA ClosesSome ==
  ASSUME Grounds, NEW T, T \subseteq Op, NEW t \in Maybe1, CloseAll(T, t), \A s \in T : s <= ops, t <= ops
  PROVE  /\ obj' \in [Op -> Session] /\ closing' \subseteq Ending
         /\ closing' = closing \cup Closing(T, t)
         /\ \A k \in closing' : k.session <= ops /\ k.tab <= ops
         /\ \A k \in Closing(T, t) : k.session \in T /\ k.tab = t /\ ~k.answered
         /\ \A s \in T : obj[s].native => \E k \in closing' : k.session = s /\ ~k.answered
         /\ \A s \in Op : obj[s].native => obj'[s].native
         /\ \A s \in Op : obj[s].key # "held" => obj'[s].key # "held"
<1>1. obj \in [Op -> Session] /\ closing \subseteq Ending /\ \A k \in closing : k.session <= ops /\ k.tab <= ops
  BY OnTheGround DEF TabsTypes, KeysHeld
<1>2. obj' = [s \in Op |-> IF s \notin T THEN obj[s] ELSE IF obj[s].native THEN Wiped(obj[s]) ELSE Wiped(Closed(obj[s]))]
      /\ closing' = closing \cup Closing(T, t)
  BY DEF CloseAll
<1>3. ASSUME NEW s \in Op
      PROVE  /\ obj'[s] \in Session /\ (obj[s].native => obj'[s].native)
             /\ (obj[s].key # "held" => obj'[s].key # "held")
  <2>1. obj[s] \in Session
    BY <1>1
  <2>2. obj'[s] \in {obj[s], Wiped(obj[s]), Wiped(Closed(obj[s]))} /\ (obj[s].native => obj'[s] \in {obj[s], Wiped(obj[s])})
    BY <1>2
  <2> QED BY <2>1, <2>2, SessionsClose
<1>4. obj' \in [Op -> Session]
  BY <1>2, <1>3
<1>5. \A k \in Closing(T, t) : k \in Ending /\ k.session \in T /\ k.tab = t /\ ~k.answered
  <2>1. ASSUME NEW k \in Closing(T, t) PROVE k \in Ending /\ k.session \in T /\ k.tab = t /\ ~k.answered
    <3>1. PICK x \in T : k = [session |-> x, tab |-> t, answered |-> FALSE]
      BY <2>1 DEF Closing
    <3> QED BY <3>1 DEF Ending
  <2> QED BY <2>1
<1>6. ASSUME NEW s \in T, obj[s].native PROVE \E k \in closing' : k.session = s /\ ~k.answered
  <2>1. [session |-> s, tab |-> t, answered |-> FALSE] \in Closing(T, t)
    BY <1>6 DEF Closing
  <2>2. [session |-> s, tab |-> t, answered |-> FALSE] \in closing'
    BY <2>1, <1>2
  <2> QED BY <2>2
<1> QED BY <1>1, <1>2, <1>3, <1>4, <1>5, <1>6

LEMMA CloseKeys ==
  ASSUME Grounds, UNCHANGED <<ops, call, pty, exits, displaced>>,
         \A k \in closing' : k.session <= ops /\ k.tab <= ops,
         \A s \in Op : obj[s].key # "held" => obj'[s].key # "held"
  PROVE  KeysHeld'
BY OnTheGround DEF KeysHeld

(* The sessions that are closed have no call, and the tab that a close     *)
(* will patch has the session that is closed, or none.                     *)
LEMMA CloseFits ==
  ASSUME Grounds, pace = "patient", NEW T, T \subseteq Op, NEW t \in Maybe1,
         UNCHANGED <<call, pty, exits, displaced>>,
         closing' = closing \cup Closing(T, t),
         \A k \in Closing(T, t) : k.session \in T /\ k.tab = t /\ ~k.answered,
         \A s \in T : obj[s].native => \E k \in closing' : k.session = s /\ ~k.answered,
         \A s \in Op : obj[s].native => obj'[s].native,
         \A s \in T : ~Runs(call[s]),
         \A c \in Op : Runs(call[c]) => call[c].tab # t,
         \A s \in T : \A b : <<t, b>> \in Seats' => b \in {s, None},
         GivenUp(Seats, Seats', call),
         \A a \in Op, s \in Op : <<a, s>> \in Seats /\ <<a, s>> \notin Seats' => s \in T
  PROVE  /\ CallsFit(Seats', call', Placed')
         /\ ClosesFit(Seats', call', closing', pty')
         /\ PtysFit(Seats', call', obj', closing', displaced', pty', exits')
<1>1. /\ CallsFit(Seats, call, Placed) /\ ClosesFit(Seats, call, closing, pty)
      /\ PtysFit(Seats, call, obj, closing, displaced, pty, exits)
  BY OnTheGround DEF TabsFit
<1> HIDE DEF Seats
<1>2. call' = call /\ pty' = pty /\ exits' = exits /\ CallsAdvance(call, call') /\ GivenUp(Seats, Seats', call')
  BY DEF CallsAdvance
<1>3. CallsFit(Seats', call', Placed')
  BY <1>1, <1>2, CallsStay DEF Placed
<1>4. closing \subseteq Ending
  BY OnTheGround DEF TabsTypes
<1>5. ClosesFit(Seats', call', closing, pty')
  BY <1>1, <1>2, <1>4, ClosesStay
<1>6. ClosesFit(Seats', call', closing', pty')
  BY <1>2, <1>5 DEF ClosesFit
<1>7. PtysFit(Seats', call', obj', closing', displaced', pty', exits')
  <2>1. pty \subseteq Op /\ exits \subseteq Op /\ \A s \in exits : s \notin pty
    BY <1>1, OnTheGround DEF PtysFit, TabsTypes
  <2>2. ASSUME NEW s \in pty PROVE obj'[s].native /\ Reached(Seats', closing', displaced', s)
    <3>1. s \in Op /\ obj[s].native /\ Reached(Seats, closing, displaced, s)
      BY <1>1, <2>1 DEF PtysFit
    <3> QED BY <3>1 DEF Reached
  <2>3. \A s \in Op : call'[s].at \in {"listening", "invoked", "keyless"} => obj'[s].native
    BY <1>1, <1>2 DEF PtysFit
  <2> QED BY <1>2, <2>1, <2>2, <2>3, <1>1 DEF PtysFit
<1> QED BY <1>3, <1>6, <1>7

LEMMA DisconnectKeeps == ASSUME Grounds, NEW i \in DOMAIN tabs, Disconnect(i) PROVE TabsInv'
<1> DEFINE t == tabs[i].id  s == tabs[i].session  T == {s} \ {None}  open == {x \in T : obj[x].native}
<1>1. /\ Hasty \/ ~Busy(t)
      /\ CloseAll(T, t)
      /\ tabs' = IF open = {} THEN Patch(t, "closed", None) ELSE tabs
      /\ UNCHANGED <<ops, call, pty, exits, displaced, pace>>
  BY DEF Disconnect, shared, manner
<1>2. tabs[i] \in Tab /\ t \in Op /\ s \in Maybe1 /\ <<t, s>> \in Seats /\ t <= ops /\ s <= ops
  <2>1. tabs[i] \in Tab
    BY OnTheGround DEF TabsTypes
  <2>2. t <= ops /\ s <= ops
    BY OnTheGround DEF SeatsKnown
  <2> QED BY <2>1, <2>2 DEF Tab, Seats
<1>3. T \subseteq Op /\ t \in Maybe1 /\ \A x \in T : x <= ops /\ x = s
  BY <1>2, OnTheGround DEF Maybe1
<1>4. open = {} => \A x \in T : ~obj[x].native
  OBVIOUS
<1> HIDE DEF t, s, T, open
<1>5. /\ obj' \in [Op -> Session] /\ closing' \subseteq Ending
      /\ closing' = closing \cup Closing(T, t)
      /\ \A k \in closing' : k.session <= ops /\ k.tab <= ops
      /\ \A k \in Closing(T, t) : k.session \in T /\ k.tab = t /\ ~k.answered
      /\ \A x \in T : obj[x].native => \E k \in closing' : k.session = x /\ ~k.answered
      /\ \A x \in Op : obj[x].native => obj'[x].native
      /\ \A x \in Op : obj[x].key # "held" => obj'[x].key # "held"
  BY <1>1, <1>2, <1>3, ClosesSome
<1>6. /\ tabs' \in Seq(Tab) /\ UniqueTabs' /\ SeatsKnown'
      /\ \/ Seats' = Seats
         \/ open = {} /\ Seated(Seats, Seats', t, None)
  <2>1. CASE open = {}
    BY <2>1, <1>1, Vacates
  <2>2. CASE open # {}
    BY <2>2, <1>1, OnTheGround DEF Seats, UniqueTabs, SeatsKnown, TabsTypes
  <2> QED BY <2>1, <2>2
<1>7. TabsTypes'
  BY <1>1, <1>5, <1>6, OnTheGround DEF TabsTypes
<1>8. KeysHeld'
  BY <1>1, <1>5, CloseKeys
<1>9. ASSUME pace = "patient"
      PROVE  /\ CallsFit(Seats', call', Placed')
             /\ ClosesFit(Seats', call', closing', pty')
             /\ PtysFit(Seats', call', obj', closing', displaced', pty', exits')
  <2>1. \A d \in Op : Runs(call[d]) => call[d].tab # t
    BY <1>1, <1>9 DEF Busy, Running, Runs, Hasty
  <2> HIDE DEF Seats
  <2>2. \A x \in T : ~Runs(call[x])
    <3>1. CallsFit(Seats, call, Placed)
      BY <1>9, OnTheGround DEF TabsFit
    <3> QED BY <3>1, <2>1, <1>2, <1>3 DEF CallsFit
  <2>3. \A x \in T : \A b : <<t, b>> \in Seats' => b \in {x, None}
    <3>1. \A b : <<t, b>> \in Seats => b = s
      BY <1>2, OnTheGround
    <3> QED BY <3>1, <1>3, <1>6 DEF Seated
  <2>4. GivenUp(Seats, Seats', call)
    BY <1>6, <2>1 DEF GivenUp, Seated
  <2>5. \A a \in Op, x \in Op : <<a, x>> \in Seats /\ <<a, x>> \notin Seats' => x \in T
    <3>1. ASSUME NEW a \in Op, NEW x \in Op, <<a, x>> \in Seats, <<a, x>> \notin Seats' PROVE x \in T
      <4>1. a = t
        BY <3>1, <1>6 DEF Seated
      <4>2. x = s /\ x # None
        BY <3>1, <4>1, <1>2, OnTheGround
      <4> QED BY <4>2 DEF T
    <3> QED BY <3>1
  <2>6. UNCHANGED <<call, pty, exits, displaced>>
    BY <1>1
  <2> QED BY <1>3, <1>5, <1>9, <2>1, <2>2, <2>3, <2>4, <2>5, <2>6, CloseFits
<1> QED BY <1>1, <1>6, <1>7, <1>8, <1>9, FitMeans DEF TabsInv

LEMMA CloseTabKeeps == ASSUME Grounds, NEW i \in DOMAIN tabs, CloseTab(i) PROVE TabsInv'
<1> DEFINE t == tabs[i].id  s == tabs[i].session  T == {s} \ {None}
<1>1. /\ Hasty \/ ~Busy(t)
      /\ CloseAll(T, None)
      /\ tabs' = RemoveAt(tabs, i)
      /\ UNCHANGED <<ops, call, pty, exits, displaced, pace>>
  BY DEF CloseTab, shared, manner
<1>2. tabs[i] \in Tab /\ t \in Op /\ s \in Maybe1 /\ <<t, s>> \in Seats /\ t <= ops /\ s <= ops
  <2>1. tabs[i] \in Tab
    BY OnTheGround DEF TabsTypes
  <2>2. t <= ops /\ s <= ops
    BY OnTheGround DEF SeatsKnown
  <2> QED BY <2>1, <2>2 DEF Tab, Seats
<1>3. T \subseteq Op /\ None \in Maybe1 /\ None <= ops /\ \A x \in T : x <= ops /\ x = s
  BY <1>2, OnTheGround DEF Maybe1
<1>4. /\ tabs' \in Seq(Tab) /\ UniqueTabs'
      /\ \A j \in DOMAIN tabs' : \E k \in DOMAIN tabs : tabs'[j] = tabs[k]
      /\ Seats' = Seats \ {<<t, s>>}
  BY <1>1, TabRemoved, OnTheGround
<1> HIDE DEF t, s, T
<1>5. /\ obj' \in [Op -> Session] /\ closing' \subseteq Ending
      /\ closing' = closing \cup Closing(T, None)
      /\ \A k \in closing' : k.session <= ops /\ k.tab <= ops
      /\ \A k \in Closing(T, None) : k.session \in T /\ k.tab = None /\ ~k.answered
      /\ \A x \in T : obj[x].native => \E k \in closing' : k.session = x /\ ~k.answered
      /\ \A x \in Op : obj[x].native => obj'[x].native
      /\ \A x \in Op : obj[x].key # "held" => obj'[x].key # "held"
  BY <1>1, <1>3, ClosesSome
<1>6. SeatsKnown'
  BY <1>1, <1>4, OnTheGround DEF SeatsKnown
<1>7. TabsTypes'
  BY <1>1, <1>4, <1>5, OnTheGround DEF TabsTypes
<1>8. KeysHeld'
  BY <1>1, <1>5, CloseKeys
<1>9. ASSUME pace = "patient"
      PROVE  /\ CallsFit(Seats', call', Placed')
             /\ ClosesFit(Seats', call', closing', pty')
             /\ PtysFit(Seats', call', obj', closing', displaced', pty', exits')
  <2>1. \A d \in Op : Runs(call[d]) => call[d].tab # t
    BY <1>1, <1>9 DEF Busy, Running, Runs, Hasty
  <2>2. CallsFit(Seats, call, Placed)
    BY <1>9, OnTheGround DEF TabsFit
  <2> HIDE DEF Seats
  <2>3. \A x \in T : ~Runs(call[x])
    BY <2>2, <2>1, <1>2, <1>3 DEF CallsFit
  <2>4. \A x \in T : \A b : <<None, b>> \in Seats' => b \in {x, None}
    <3>1. \A b : <<None, b>> \notin Seats
      BY OnTheGround
    <3> QED BY <3>1, <1>4
  <2>5. \A d \in Op : Runs(call[d]) => call[d].tab # None
    BY <2>2, OnTheGround DEF CallsFit
  <2>6. GivenUp(Seats, Seats', call)
    <3>1. \A a, b : <<a, b>> \in Seats' => <<a, b>> \in Seats
      BY <1>4
    <3>2. \A a, b : a # t => (<<a, b>> \in Seats' <=> <<a, b>> \in Seats)
      <4>1. \A a, b : a # t => <<a, b>> # <<t, s>>
        OBVIOUS
      <4> QED BY <1>4, <4>1
    <3> QED BY <3>1, <3>2, <2>1 DEF GivenUp
  <2>7. \A a \in Op, x \in Op : <<a, x>> \in Seats /\ <<a, x>> \notin Seats' => x \in T
    <3>1. ASSUME NEW a \in Op, NEW x \in Op, <<a, x>> \in Seats, <<a, x>> \notin Seats' PROVE x \in T
      <4>1. <<a, x>> = <<t, s>>
        BY <3>1, <1>4
      <4>2. x = s /\ x # None
        BY <4>1, OnTheGround
      <4> QED BY <4>2 DEF T
    <3> QED BY <3>1
  <2>8. UNCHANGED <<call, pty, exits, displaced>>
    BY <1>1
  <2> QED BY <1>3, <1>5, <1>9, <2>3, <2>4, <2>5, <2>6, <2>7, <2>8, CloseFits
<1> QED BY <1>1, <1>4, <1>6, <1>7, <1>8, <1>9, FitMeans DEF TabsInv

LEMMA ClosePtyKeeps == ASSUME Grounds, NEW s \in Op, ClosePty(s) PROVE TabsInv'
<1>1. /\ closing' = {IF k.session = s THEN [k EXCEPT !.answered = TRUE] ELSE k : k \in closing}
      /\ pty' = pty \ {s} /\ UNCHANGED <<ops, tabs, call, obj, exits, displaced, pace>>
  BY DEF ClosePty, shared, manner
<1>2. \A k \in closing : k \in Ending /\ k.session <= ops /\ k.tab <= ops
  BY OnTheGround DEF TabsTypes, KeysHeld
<1>3. ASSUME NEW k2 \in closing'
      PROVE  /\ k2 \in Ending
             /\ \E k \in closing : k2.session = k.session /\ k2.tab = k.tab /\ (k2.answered => k.answered \/ k.session = s)
  <2>1. PICK k \in closing : k2 = IF k.session = s THEN [k EXCEPT !.answered = TRUE] ELSE k
    BY <1>1, <1>3
  <2> QED BY <2>1, <1>2 DEF Ending
<1>4. \A k \in closing : k.session # s => k \in closing'
  BY <1>1
<1>5. TabsTypes' /\ UniqueTabs' /\ SeatsKnown' /\ Seats' = Seats
  BY <1>1, <1>3, OnTheGround DEF TabsTypes, UniqueTabs, SeatsKnown, Seats
<1>6. KeysHeld'
  BY <1>1, <1>2, <1>3, OnTheGround DEF KeysHeld
<1>7. ASSUME pace = "patient"
      PROVE  /\ CallsFit(Seats', call', Placed')
             /\ ClosesFit(Seats', call', closing', pty')
             /\ PtysFit(Seats', call', obj', closing', displaced', pty', exits')
  <2> HIDE DEF Seats
  <2>1. /\ CallsFit(Seats, call, Placed) /\ ClosesFit(Seats, call, closing, pty)
        /\ PtysFit(Seats, call, obj, closing, displaced, pty, exits)
    BY <1>7, OnTheGround DEF TabsFit
  <2>2. CallsFit(Seats', call', Placed')
    <3>1. Placed' \subseteq Placed
      BY <1>1 DEF Placed
    <3> QED BY <3>1, <1>1, <1>5, <2>1 DEF CallsFit
  <2>3. ClosesFit(Seats', call', closing', pty')
    BY <1>1, <1>3, <1>5, <2>1 DEF ClosesFit
  <2>4. PtysFit(Seats', call', obj', closing', displaced', pty', exits')
    <3>1. \A x \in pty' : x \in pty /\ x # s
      BY <1>1
    <3> QED BY <1>1, <1>4, <1>5, <2>1, <3>1 DEF PtysFit, Reached
  <2> QED BY <2>2, <2>3, <2>4
<1> QED BY <1>1, <1>5, <1>6, <1>7, FitMeans DEF TabsInv

LEMMA CloseDoneKeeps == ASSUME Grounds, NEW k \in closing, CloseDone(k) PROVE TabsInv'
<1> DEFINE s == k.session  t == k.tab
<1>1. /\ k.answered /\ closing' = closing \ {k} /\ obj' = [obj EXCEPT ![s] = Closed(obj[s])]
      /\ tabs' = IF t = None THEN tabs ELSE Patch(t, "closed", None)
      /\ UNCHANGED <<ops, call, pty, exits, displaced, pace>>
  BY DEF CloseDone, bridge, shared, manner
<1>2. s \in Op /\ t \in Maybe1 /\ s <= ops /\ t <= ops
  BY OnTheGround DEF TabsTypes, KeysHeld, Ending
<1>3. obj' \in [Op -> Session] /\ (\A d \in Op : obj'[d].key = obj[d].key) /\ \A d \in Op : d # s => obj'[d] = obj[d]
  <2>1. obj \in [Op -> Session] /\ obj[s] \in Session
    BY <1>2, OnTheGround DEF TabsTypes
  <2>2. Closed(obj[s]) \in Session /\ Closed(obj[s]).key = obj[s].key
    BY <2>1, SessionsClose
  <2> QED BY <1>1, <2>1, <2>2
<1>4. /\ tabs' \in Seq(Tab) /\ UniqueTabs' /\ SeatsKnown'
      /\ \/ Seats' = Seats /\ t = None
         \/ Seated(Seats, Seats', t, None)
  <2>1. CASE t = None
    BY <2>1, <1>1, OnTheGround DEF Seats, UniqueTabs, SeatsKnown, TabsTypes
  <2>2. CASE t # None
    BY <2>2, <1>1, Vacates
  <2> QED BY <2>1, <2>2
<1> HIDE DEF s, t, Seats
<1>5. TabsTypes'
  BY <1>1, <1>3, <1>4, OnTheGround DEF TabsTypes
<1>6. KeysHeld'
  BY <1>1, <1>3, OnTheGround DEF KeysHeld
<1>7. ASSUME pace = "patient"
      PROVE  /\ CallsFit(Seats', call', Placed')
             /\ ClosesFit(Seats', call', closing', pty')
             /\ PtysFit(Seats', call', obj', closing', displaced', pty', exits')
  <2>1. /\ CallsFit(Seats, call, Placed) /\ ClosesFit(Seats, call, closing, pty)
        /\ PtysFit(Seats, call, obj, closing, displaced, pty, exits)
    BY <1>7, OnTheGround DEF TabsFit
  <2>2. /\ ~Runs(call[s]) /\ s \notin pty
        /\ \A b \in Maybe1 : <<t, b>> \in Seats => b \in {s, None}
        /\ \A c \in Op : Runs(call[c]) => call[c].tab # t
    BY <1>1, <2>1 DEF ClosesFit, s, t
  <2>3. CallsAdvance(call, call') /\ GivenUp(Seats, Seats', call')
    BY <1>1, <1>4, <2>2 DEF CallsAdvance, GivenUp, Seated
  <2>4. call' = call /\ pty' = pty /\ exits' = exits /\ displaced' = displaced /\ closing' \subseteq closing
    BY <1>1
  <2>5. CallsFit(Seats', call', Placed')
    BY <2>1, <2>3, <2>4, CallsStay DEF Placed
  <2>6. ClosesFit(Seats', call', closing, pty')
    BY <2>1, <2>3, <2>4, ClosesStay, OnTheGround DEF TabsTypes
  <2>7. ClosesFit(Seats', call', closing', pty')
    BY <2>4, <2>6 DEF ClosesFit
  <2>8. ASSUME NEW x \in pty PROVE obj'[x].native /\ Reached(Seats', closing', displaced', x)
    <3>1. x \in Op /\ x # s /\ obj[x].native /\ Reached(Seats, closing, displaced, x) /\ x # None
      BY <2>1, <2>2, OnTheGround DEF PtysFit, TabsTypes
    <3>2. ASSUME NEW a \in Op, <<a, x>> \in Seats PROVE <<a, x>> \in Seats'
      <4>1. x \in Maybe1
        BY <3>1, OnTheGround
      <4>2. a # t
        BY <3>1, <3>2, <2>2, <4>1
      <4> QED BY <3>2, <4>2, <1>4 DEF Seated
    <3>3. \A k2 \in closing : ~k2.answered => k2 \in closing'
      BY <1>1
    <3> QED BY <3>1, <3>2, <3>3, <2>4, <1>3 DEF Reached
  <2>9. \A x \in Op : call'[x].at \in {"listening", "invoked", "keyless"} => obj'[x].native
    <3>1. \A x \in Op : call[x].at \in {"listening", "invoked", "keyless"} => x # s
      BY <2>2 DEF Runs
    <3> QED BY <3>1, <2>1, <2>4, <1>3 DEF PtysFit
  <2>10. PtysFit(Seats', call', obj', closing', displaced', pty', exits')
    BY <2>1, <2>4, <2>8, <2>9 DEF PtysFit
  <2> QED BY <2>5, <2>7, <2>10
<1> QED BY <1>1, <1>4, <1>5, <1>6, <1>7, FitMeans DEF TabsInv

LEMMA ExitKeeps == ASSUME Grounds, NEW s \in Op, Exit(s) \/ ExitHeard(s) PROVE TabsInv'
<1>1. /\ UNCHANGED <<ops, tabs, call, closing, displaced, pace>>
      /\ pty' \subseteq pty
      /\ \/ s \in pty /\ pty' = pty \ {s} /\ exits' = exits \cup {s} /\ obj' = obj
         \/ /\ s \in exits /\ exits' = exits \ {s} /\ pty' = pty
            /\ obj' \in {obj, [obj EXCEPT ![s] = Closed(obj[s])], [obj EXCEPT ![s].listening = FALSE]}
  BY DEF Exit, ExitHeard, bridge, shared, manner
<1>2. /\ obj' \in [Op -> Session] /\ (\A d \in Op : obj'[d].key = obj[d].key)
      /\ \A d \in Op : d # s => obj'[d] = obj[d]
      /\ obj'[s].native = obj[s].native \/ s \in exits
  <2>1. obj \in [Op -> Session] /\ obj[s] \in Session
    BY OnTheGround DEF TabsTypes
  <2>2. Closed(obj[s]) \in Session /\ Closed(obj[s]).key = obj[s].key
    BY <2>1, SessionsClose
  <2>3. CASE obj' = obj
    BY <2>1, <2>3
  <2>4. CASE s \in exits /\ obj' = [obj EXCEPT ![s] = Closed(obj[s])]
    BY <2>1, <2>2, <2>4
  <2>5. CASE s \in exits /\ obj' = [obj EXCEPT ![s].listening = FALSE]
    BY <2>1, <2>5 DEF Session
  <2> QED BY <1>1, <2>3, <2>4, <2>5
<1>3. pty' \subseteq Op /\ exits' \subseteq exits \cup pty /\ pty \subseteq Op /\ exits \subseteq Op
  BY <1>1, OnTheGround DEF TabsTypes
<1>4. TabsTypes' /\ UniqueTabs' /\ SeatsKnown' /\ Seats' = Seats
  BY <1>1, <1>2, <1>3, OnTheGround DEF TabsTypes, UniqueTabs, SeatsKnown, Seats
<1>5. KeysHeld'
  BY <1>1, <1>2, <1>3, OnTheGround DEF KeysHeld
<1>6. ASSUME pace = "patient"
      PROVE  /\ CallsFit(Seats', call', Placed')
             /\ ClosesFit(Seats', call', closing', pty')
             /\ PtysFit(Seats', call', obj', closing', displaced', pty', exits')
  <2> HIDE DEF Seats
  <2>1. /\ CallsFit(Seats, call, Placed) /\ ClosesFit(Seats, call, closing, pty)
        /\ PtysFit(Seats, call, obj, closing, displaced, pty, exits)
    BY <1>6, OnTheGround DEF TabsFit
  <2>2. CallsFit(Seats', call', Placed')
    <3>1. Placed' \subseteq Placed
      BY <1>1 DEF Placed
    <3> QED BY <3>1, <1>1, <1>4, <2>1 DEF CallsFit
  <2>3. ClosesFit(Seats', call', closing', pty')
    BY <1>1, <1>4, <2>1 DEF ClosesFit
  <2>4. \A x \in pty' : obj'[x].native /\ Reached(Seats', closing', displaced', x)
    <3>1. ASSUME NEW x \in pty' PROVE obj'[x].native /\ Reached(Seats', closing', displaced', x)
      <4>1. x \in pty /\ x \in Op /\ obj[x].native /\ Reached(Seats, closing, displaced, x) /\ x \notin exits
        BY <1>1, <1>3, <2>1, <3>1 DEF PtysFit
      <4>2. obj'[x].native
        BY <4>1, <1>2
      <4> QED BY <4>1, <4>2, <1>1, <1>4 DEF Reached
    <3> QED BY <3>1
  <2>5. \A x \in Op : call'[x].at \in {"listening", "invoked", "keyless"} => obj'[x].native
    <3>1. \A x \in Op : call[x].at \in {"listening", "invoked", "keyless"} => x \notin exits /\ obj[x].native
      BY <2>1 DEF PtysFit
    <3> QED BY <3>1, <1>1, <1>2
  <2>6. \A x \in exits' : x \notin pty' /\ call'[x].at \in {"opened", "ended"}
    BY <1>1, <2>1 DEF PtysFit
  <2>7. PtysFit(Seats', call', obj', closing', displaced', pty', exits')
    BY <1>1, <2>1, <2>4, <2>5, <2>6 DEF PtysFit
  <2> QED BY <2>2, <2>3, <2>7
<1> QED BY <1>1, <1>4, <1>5, <1>6, FitMeans DEF TabsInv

(* A sign-out closes the sessions of all tabs; the patient user's have no  *)
(* call then.                                                              *)
LEMMA TabsSignOut == ASSUME Grounds, SignOut PROVE TabsInv'
<1>1. /\ Hasty \/ ~Making
      /\ tabs' = <<>> /\ CloseAll(Held, None)
      /\ UNCHANGED <<ops, call, pty, exits, displaced, pace>>
  BY DEF SignOut, ResetAll, manner
<1>2. Held \subseteq Op /\ None \in Maybe1 /\ None <= ops /\ \A x \in Held : x <= ops
  <2>1. \A i \in DOMAIN tabs : tabs[i].session \in Maybe1 /\ tabs[i].session <= ops
    <3>1. \A i \in DOMAIN tabs : tabs[i] \in Tab
      BY OnTheGround DEF TabsTypes
    <3> QED BY <3>1, OnTheGround DEF SeatsKnown, Tab
  <2> QED BY <2>1, OnTheGround DEF Held, Maybe1
<1>3. /\ obj' \in [Op -> Session] /\ closing' \subseteq Ending
      /\ closing' = closing \cup Closing(Held, None)
      /\ \A k \in closing' : k.session <= ops /\ k.tab <= ops
      /\ \A k \in Closing(Held, None) : k.session \in Held /\ k.tab = None /\ ~k.answered
      /\ \A x \in Held : obj[x].native => \E k \in closing' : k.session = x /\ ~k.answered
      /\ \A x \in Op : obj[x].native => obj'[x].native
      /\ \A x \in Op : obj[x].key # "held" => obj'[x].key # "held"
  BY <1>1, <1>2, ClosesSome
<1>4. tabs' \in Seq(Tab) /\ UniqueTabs' /\ SeatsKnown' /\ Seats' = {}
  BY <1>1 DEF UniqueTabs, SeatsKnown, Seats
<1>5. TabsTypes'
  BY <1>1, <1>3, <1>4, OnTheGround DEF TabsTypes
<1>6. KeysHeld'
  BY <1>1, <1>3, CloseKeys
<1>7. ASSUME pace = "patient"
      PROVE  /\ CallsFit(Seats', call', Placed')
             /\ ClosesFit(Seats', call', closing', pty')
             /\ PtysFit(Seats', call', obj', closing', displaced', pty', exits')
  <2>1. \A x \in Op : ~Runs(call[x])
    BY <1>1, <1>7 DEF Making, Running, Runs, Hasty
  <2>2. \A a, s \in Op : <<a, s>> \in Seats => s \in Held
    BY OnTheGround DEF Seats, Held
  <2> HIDE DEF Seats, Held
  <2>3. \A x \in Held : \A b : <<None, b>> \in Seats' => b \in {x, None}
    BY <1>4
  <2>4. GivenUp(Seats, Seats', call)
    BY <1>4, <2>1 DEF GivenUp
  <2>5. UNCHANGED <<call, pty, exits, displaced>>
    BY <1>1
  <2>6. \A x \in Held : ~Runs(call[x])
    BY <1>2, <2>1
  <2> QED BY <1>2, <1>3, <1>7, <2>1, <2>2, <2>3, <2>4, <2>5, <2>6, CloseFits
<1> QED BY <1>1, <1>4, <1>5, <1>6, <1>7, FitMeans DEF TabsInv

LEMMA TabsStill ==
  ASSUME Grounds, UNCHANGED <<tabVars, pace>>, ops' = ops \/ ops' = ops + 1
  PROVE  TabsInv'
<1>1. UNCHANGED <<tabs, call, obj, closing, pty, exits, displaced, pace>> /\ ops' \in Nat /\ ops <= ops'
  BY OnTheGround DEF tabVars
<1>2. TabsTypes' /\ UniqueTabs' /\ Seats' = Seats
  BY <1>1, OnTheGround DEF TabsTypes, UniqueTabs, Seats
<1>3. \A a \in Maybe1 : a <= ops => a <= ops'
  BY <1>1, OnTheGround DEF Maybe1
<1>4. \A c \in Op : c > ops' => c > ops
  BY <1>1, OnTheGround
<1>5. SeatsKnown'
  <2>1. \A i \in DOMAIN tabs : tabs[i] \in Tab
    BY OnTheGround DEF TabsTypes
  <2>2. \A i \in DOMAIN tabs : tabs[i].id \in Maybe1 /\ tabs[i].session \in Maybe1
    BY <2>1, OnTheGround DEF Tab
  <2> QED BY <1>1, <1>3, <2>2, OnTheGround DEF SeatsKnown
<1>6. KeysHeld'
  <2>1. \A k \in closing : k.session \in Maybe1 /\ k.tab \in Maybe1
    BY OnTheGround DEF TabsTypes, Ending
  <2> QED BY <1>1, <1>3, <1>4, <2>1, OnTheGround DEF KeysHeld
<1>7. TabsFit'
  <2> HIDE DEF Seats
  <2>1. Placed' = Placed
    BY <1>1 DEF Placed
  <2> QED BY <2>1, <1>1, <1>2, OnTheGround DEF TabsFit
<1> QED BY <1>2, <1>5, <1>6, <1>7 DEF TabsInv

LEMMA TabsInductive == BridgeTypeOK /\ TabsInv /\ [Next]_vars => TabsInv'
<1> SUFFICES ASSUME Grounds, [Next]_vars PROVE TabsInv'
  BY DEF Grounds
<1>1. CASE TabsNext
  BY <1>1, AddTabKeeps, ReconnectKeeps, DisconnectKeeps, CloseTabKeeps, HostSessionKeeps, DeclinedKeeps, ListenedKeeps, ListenFailsKeeps,
     OpenedKeeps, RefusedKeeps, CloseDoneKeeps, ExitKeeps, OpenPtyKeeps, ClosePtyKeeps DEF TabsNext, TabsProgress, TabsShell
<1>2. CASE SignOut
  BY <1>2, TabsSignOut
<1>3. CASE UNCHANGED tabVars
  <2>1. pace' = pace
    BY MannerStays DEF manner
  <2>2. ops' = ops \/ ops' = ops + 1
    <3>1. CASE UNCHANGED vars
      BY <3>1 DEF vars, bridge
    <3> QED BY <3>1, OpsGrow DEF Next, Begin
  <2> QED BY <1>3, <2>1, <2>2, TabsStill
<1> QED BY <1>1, <1>2, <1>3 DEF Next, vars

(* Every PTY of the patient user is the session of a tab, is being closed, *)
(* or was displaced: its tab was connected anew while it ran, which drops  *)
(* its session (TerminalPage.tsx:171-204). A connect has its tab to        *)
(* itself, and no connect that has ended, but for those that could not     *)
(* register their listeners, still holds the private key it was lent       *)
(* (terminal.ts connect, close, resetAll; pty.rs open_pty, close_pty).     *)
THEOREM TabsInvariant == Spec => []TabsInv
BY SpecSteps, BridgeInitial, BridgeInductive, TabsInitial, TabsInductive, PTL

(* A connect that has ended after its listeners were registered has wiped  *)
(* its copy of the private key (what comes before has no finally:          *)
(* native-transport.ts:42-56), a preparation that has ended has left no    *)
(* directory, agent or child and the app no second tunnel, and when the    *)
(* end of an sftp command has been told no child of it runs, the monitor   *)
(* and the cancel tell it alike, and what is told as ended by itself was   *)
(* not killed (ssh_identity.rs, sftp_process.rs).                          *)
THEOREM NothingIsLeft == Spec => []NothingRemains
<1>1. TabsInv => KeysAreWiped
  BY DEF TabsInv, KeysHeld, KeysAreWiped
<1>2. PipesInv => OutcomesAgree
  BY DEF PipesInv
<1>3. TabsInv /\ AgentsInv /\ PipesInv => NothingRemains
  BY <1>1, <1>2, NothingLeft DEF NothingRemains
<1> QED BY <1>3, TabsInvariant, AgentsInvariant, PipesInvariant, PTL

------------------------------------------------------------------------------
(* The types of VaultRecords, HostKeys and SftpProcess                      *)

(* What is cached of the lists, and what the user looks at.                *)
Fetch == [list : List, held : BOOLEAN, at : {"asked", "read"}, behind : BOOLEAN]
CacheTypes ==
  /\ table \in [Record -> Table] /\ viewed \in Table \cup {"none"}
  /\ unlocked \in BOOLEAN /\ failed \in BOOLEAN /\ due \in BOOLEAN /\ listed \in Version
  /\ shown \subseteq List /\ behind \subseteq List /\ marked \subseteq List /\ fetch \subseteq Fetch

LEMMA CacheInitial == Init => CacheTypes
<1> SUFFICES ASSUME Init PROVE CacheTypes
  OBVIOUS
<1>1. RecordsInit
  BY DEF Init
<1>2. PICK l \in Layouts : Linkable(l)
  BY LayoutsAssumption
<1>3. (CHOOSE k \in Layouts : Linkable(k)) \in Layouts
  BY <1>2
<1>4. table \in Layouts
  BY <1>1, <1>3 DEF RecordsInit
<1>5. table \in [Record -> Table]
  BY <1>4, LayoutsAssumption
<1>6. \E r \in Record : TRUE
  BY <1>2 DEF Linkable
<1>7. (CHOOSE r \in Record : TRUE) \in Record
  BY <1>6
<1>8. viewed \in Table \cup {"none"}
  BY <1>1, <1>5, <1>7 DEF RecordsInit
<1>9. 1 \in Version
  BY RecordsAssumption DEF Version
<1> QED BY <1>1, <1>5, <1>8, <1>9 DEF RecordsInit, CacheTypes

(* Steps that read no list into the cache. *)
LEMMA SameCache ==
  ASSUME CacheTypes, UNCHANGED <<table, viewed>>, unlocked' \in BOOLEAN, failed' \in BOOLEAN, due' \in BOOLEAN,
         listed' \in Version, shown' \subseteq shown, behind' \subseteq behind \cup shown, marked' \subseteq marked \cup shown,
         fetch' \subseteq Fetch
  PROVE  CacheTypes'
BY DEF CacheTypes

FetchesBehind(t, ws) == {[f EXCEPT !.behind = @ \/ (f.at = "read" /\ f.list.table = t /\ f.list.ws = ws)] : f \in fetch}
LEMMA FetchesStay ==
  ASSUME fetch \subseteq Fetch
  PROVE  /\ WithoutKey \subseteq Fetch
         /\ \A t, ws : FetchesBehind(t, ws) \subseteq Fetch
<1>1. ASSUME NEW f \in fetch, NEW b \in BOOLEAN PROVE [f EXCEPT !.held = b] \in Fetch /\ [f EXCEPT !.behind = b] \in Fetch
  BY DEF Fetch
<1>2. WithoutKey \subseteq Fetch
  <2> SUFFICES ASSUME NEW f \in fetch PROVE [f EXCEPT !.held = @ /\ f.list.ws = "personal"] \in Fetch
    BY DEF WithoutKey
  <2>1. (f.held /\ f.list.ws = "personal") \in BOOLEAN
    OBVIOUS
  <2> QED BY <1>1, <2>1
<1>3. ASSUME NEW t, NEW ws, NEW f \in fetch
      PROVE  [f EXCEPT !.behind = @ \/ (f.at = "read" /\ f.list.table = t /\ f.list.ws = ws)] \in Fetch
  <2>1. (f.behind \/ (f.at = "read" /\ f.list.table = t /\ f.list.ws = ws)) \in BOOLEAN
    OBVIOUS
  <2> QED BY <1>1, <2>1
<1> QED BY <1>2, <1>3 DEF FetchesBehind

LEMMA CacheQuiet == ASSUME RecordsInv, CacheTypes, QuietStep, ~Fetching PROVE CacheTypes'
<1> USE DEF serverVars, scopeVars, listVars
<1>1. version \in Version /\ listed \in Version /\ fetch \subseteq Fetch
  BY DEF RecordsInv, RecordsTypes, CacheTypes
<1>2. UNCHANGED <<table, viewed>>
  BY DEF QuietStep, SelectTeam, SelectPersonal, Select, RefreshList, Lock, Unlock, Switcher,
     SwitcherEffect, LoadRead, LoadFailed, LoadDone
<1>3. unlocked' \in BOOLEAN /\ failed' \in BOOLEAN /\ due' \in BOOLEAN
  <2>1. unlocked' \in {unlocked, TRUE, FALSE} /\ failed' \in {failed, TRUE, FALSE} /\ due' \in {due, TRUE, FALSE, teamKey # 0}
    BY DEF QuietStep, SelectTeam, SelectPersonal, Select, RefreshList, Lock, LockRecords, Unlock, Switcher,
       SwitcherEffect, ClearTeamKey, LoadRead, LoadFailed, LoadDone
  <2> QED BY <2>1 DEF CacheTypes
<1>4. listed' \in {listed, version}
  BY DEF QuietStep, SelectTeam, SelectPersonal, Select, RefreshList, Lock, LockRecords, Unlock, Switcher,
     SwitcherEffect, ClearTeamKey, LoadRead, LoadFailed, LoadDone
<1>5. \/ fetch' = WithoutKey /\ UNCHANGED <<shown, behind, marked>>
      \/ fetch' = {} /\ shown' = {} /\ behind' = {} /\ marked' = {}
      \/ UNCHANGED <<shown, behind, marked, fetch>>
  BY DEF QuietStep, SelectTeam, SelectPersonal, Select, RefreshList, Lock, LockRecords, Unlock, Switcher,
     SwitcherEffect, ClearTeamKey, LoadRead, LoadFailed, LoadDone
<1>6. fetch' \subseteq Fetch
  BY <1>1, <1>5, FetchesStay
<1> QED BY <1>1, <1>2, <1>3, <1>4, <1>5, <1>6, SameCache

LEMMA CacheFetches == ASSUME RecordsInv, CacheTypes, Fetching PROVE CacheTypes'
<1> USE DEF serverVars, scopeVars, listVars
<1>1. scope \in Space /\ teamKey \in Version /\ fetch \subseteq Fetch /\ viewed \in Table \cup {"none"} /\ 0 \in Version
  BY RecordsAssumption DEF RecordsInv, RecordsTypes, CacheTypes, Version
<1>2. UNCHANGED <<table, viewed, unlocked, failed, due, listed>>
  BY DEF Fetching, ReadList, Listed, Decrypted
<1>3. ASSUME ReadList PROVE CacheTypes'
  <2>1. InView \in List
    BY <1>1, <1>3 DEF ReadList, InView, KeyVersion, List
  <2>2. [list |-> InView, held |-> TRUE, at |-> "asked", behind |-> FALSE] \in Fetch
    BY <2>1 DEF Fetch
  <2>3. fetch' \subseteq Fetch /\ UNCHANGED <<shown, behind, marked>>
    BY <1>1, <1>3, <2>2 DEF ReadList
  <2> QED BY <1>2, <2>3 DEF CacheTypes
<1>4. ASSUME NEW f \in fetch, Listed(f) PROVE CacheTypes'
  <2>1. [f EXCEPT !.at = "read"] \in Fetch
    BY <1>1 DEF Fetch
  <2>2. fetch' \subseteq Fetch /\ UNCHANGED <<shown, behind, marked>>
    BY <1>1, <1>4, <2>1 DEF Listed
  <2> QED BY <1>2, <2>2 DEF CacheTypes
<1>5. ASSUME NEW f \in fetch, Decrypted(f) PROVE CacheTypes'
  <2>1. f.list \in List
    BY <1>1 DEF Fetch
  <2>2. fetch' \subseteq fetch
    BY <1>5 DEF Decrypted
  <2>3. shown' \subseteq shown \cup {f.list} /\ marked' \subseteq marked /\ behind' \subseteq behind \cup {f.list}
    BY <1>5 DEF Decrypted
  <2> QED BY <1>2, <2>1, <2>2, <2>3 DEF CacheTypes
<1> QED BY <1>3, <1>4, <1>5 DEF Fetching

LEMMA CacheWrites ==
  ASSUME RecordsInv, CacheTypes, RecordsNext, ~QuietStep
  PROVE  CacheTypes'
<1> USE DEF serverVars, scopeVars, listVars
<1>1. fetch \subseteq Fetch
  BY DEF CacheTypes
<1>2. ASSUME NEW t, SaveRecord(t) \/ DeleteRecord(t) PROVE UNCHANGED <<table, viewed, scopeVars, listVars>>
  BY <1>2 DEF SaveRecord, DeleteRecord, Capture
<1>3. SaveHostKeys \/ RotateElsewhere \/ RemovedElsewhere => UNCHANGED <<table, viewed, scopeVars, listVars>>
  BY DEF SaveHostKeys, Capture, RotateElsewhere, RemovedElsewhere
<1>4. ASSUME NEW o \in Op, WriteStep(o)
      PROVE  /\ UNCHANGED <<table, viewed, scopeVars, shown>>
             /\ behind' \subseteq behind \cup shown /\ marked' \subseteq marked \cup shown /\ fetch' \subseteq Fetch
  <2>1. Told(o) \/ Refuse(o) \/ Lost(o) => UNCHANGED <<table, viewed, scopeVars, listVars>>
    BY DEF Told, Refuse, Lost
  <2>2. ASSUME Store(o) PROVE UNCHANGED <<table, viewed, scopeVars, shown, marked>>
                           /\ behind' \subseteq behind \cup shown /\ fetch' \subseteq Fetch
    <3>1. PICK t, ws : Changed(t, ws)
      BY <2>2 DEF Store
    <3>2. UNCHANGED <<shown, marked>> /\ behind' \subseteq behind \cup shown
      BY <3>1 DEF Changed
    <3>3. fetch' = FetchesBehind(t, ws)
      BY <3>1 DEF Changed, FetchesBehind
    <3>4. FetchesBehind(t, ws) \subseteq Fetch
      BY <1>1, FetchesStay
    <3>5. fetch' \subseteq Fetch
      BY <3>3, <3>4
    <3>6. UNCHANGED <<table, viewed, scopeVars>>
      BY <2>2 DEF Store
    <3> QED BY <3>2, <3>5, <3>6
  <2>3. ASSUME Reply(o) PROVE UNCHANGED <<table, viewed, scopeVars, shown, behind>>
                           /\ marked' \subseteq marked \cup shown /\ fetch' \subseteq fetch
    BY <2>3 DEF Reply
  <2> QED BY <1>1, <1>4, <2>1, <2>2, <2>3 DEF WriteStep
<1>5. \/ UNCHANGED <<table, viewed, scopeVars, listVars>>
      \/ \E o \in Op : WriteStep(o)
  BY <1>2, <1>3 DEF RecordsNext, QuietStep, SaveGroup, SaveHost, SaveHostCredential, SaveSnippet, SaveIdentity,
     SaveTunnel, DeleteHost, DeleteHostCredential, DeleteSnippet, DeleteIdentity, DeleteTunnel
<1>6. ASSUME UNCHANGED <<table, viewed, scopeVars, listVars>> PROVE CacheTypes'
  BY <1>6 DEF CacheTypes
<1>7. ASSUME NEW o \in Op, WriteStep(o) PROVE CacheTypes'
  BY <1>4, <1>7 DEF CacheTypes
<1> QED BY <1>5, <1>6, <1>7

LEMMA CacheInductive == RecordsInv /\ CacheTypes /\ [Next]_vars => CacheTypes'
<1> SUFFICES ASSUME RecordsInv, CacheTypes, [Next]_vars PROVE CacheTypes'
  OBVIOUS
<1>1. CASE RecordsNext
  BY <1>1, CacheQuiet, CacheFetches, CacheWrites DEF QuietStep
<1>2. CASE UNCHANGED recordVars
  BY <1>2 DEF CacheTypes, recordVars, serverVars, scopeVars, listVars
<1>3. CASE SignOut
  <2>1. UNCHANGED <<table, viewed, listed>>
    BY <1>3 DEF SignOut, serverVars
  <2>2. \/ /\ unlocked' = FALSE /\ due' = TRUE /\ failed' = FALSE
           /\ shown' = {} /\ behind' = {} /\ marked' = {} /\ fetch' = {}
        \/ UNCHANGED <<unlocked, due, failed, listVars>>
    BY <1>3 DEF SignOut, LeaveRecords, LockRecords, scopeVars
  <2> QED BY <2>1, <2>2 DEF CacheTypes, listVars
<1> QED BY <1>1, <1>2, <1>3, NextForms

LEMMA RecordsTyped == Spec => []RecordsTypeOK
<1>1. RecordsInv /\ CacheTypes => RecordsTypeOK
  BY DEF RecordsInv, RecordsTypes, CacheTypes, RecordsTypeOK, Fetch
<1>2. Spec => []CacheTypes
  BY CacheInitial, CacheInductive, RecordsInvariant, SpecSteps, PTL
<1> QED BY <1>1, <1>2, RecordsInvariant, PTL

(* What the dialog shows, and what was trusted.                            *)
PromptTypes ==
  /\ prompt = NoPrompt \/ prompt \in [by : Op, mode : {"approve", "replace", "changed"}, host : Host, key : Key]
  /\ trusted \subseteq Host \X Key

LEMMA PromptInitial == Init => PromptTypes
<1> SUFFICES ASSUME Init PROVE PromptTypes
  OBVIOUS
<1>1. PICK p \in {NoKey, FirstKey} : pinned = [h \in Host |-> p]
  BY DEF Init, KeysInit
<1>2. FirstKey \in Key
  BY HostKeysAssumption DEF FirstKey
<1>3. prompt = NoPrompt /\ trusted = {<<h, pinned[h]>> : h \in {x \in Host : pinned[x] # NoKey}}
  BY DEF Init, KeysInit
<1>4. \A h \in Host : pinned[h] # NoKey => pinned[h] \in Key
  BY <1>1, <1>2
<1> QED BY <1>3, <1>4 DEF PromptTypes

LEMMA AskPrompts ==
  ASSUME KeysInv, NEW o \in Op, gate[o].at # "ended", NEW g, NEW mode \in {"approve", "replace", "changed"},
         Ask(g, o, mode, presents[gate[o].host])
  PROVE  prompt' \in [by : Op, mode : {"approve", "replace", "changed"}, host : Host, key : Key]
<1>1. gate[o].host \in Host
  BY DEF KeysInv, Begun
<1>2. presents[gate[o].host] \in Key
  BY <1>1 DEF KeysInv, KeysTypes
<1> QED BY <1>1, <1>2 DEF Ask

LEMMA PromptInductive == KeysInv /\ PromptTypes /\ [Next]_vars => PromptTypes'
<1> SUFFICES ASSUME KeysInv, PromptTypes, [Next]_vars PROVE PromptTypes'
  OBVIOUS
<1> USE DEF said, keyring
<1>1. CASE UNCHANGED <<prompt, trusted>>
  BY <1>1 DEF PromptTypes
<1>2. CASE Trust
  <2>1. prompt # NoPrompt
    BY <1>2 DEF Trust, NoPrompt
  <2>2. prompt.host \in Host /\ prompt.key \in Key
    BY <2>1 DEF PromptTypes
  <2>3. prompt' = NoPrompt /\ trusted' = trusted \cup {<<prompt.host, prompt.key>>}
    BY <1>2 DEF Trust
  <2> QED BY <2>2, <2>3 DEF PromptTypes
<1>3. CASE Decline
  BY <1>3 DEF Decline, PromptTypes
<1>4. CASE PinnedElsewhere
  <2>1. FirstHost \in Host
    BY HostKeysAssumption DEF FirstHost
  <2>2. presents[FirstHost] \in Key
    BY <2>1 DEF KeysInv, KeysTypes
  <2>3. prompt' = prompt /\ trusted' = trusted \cup {<<FirstHost, presents[FirstHost]>>}
    BY <1>4 DEF PinnedElsewhere
  <2> QED BY <2>1, <2>2, <2>3 DEF PromptTypes
<1>5. ASSUME NEW o \in Op, Scanned(o) PROVE PromptTypes'
  <2>1. gate[o].at # "ended" /\ UNCHANGED trusted
    BY <1>5 DEF Scanned
  <2>2. PICK pins, g : UNCHANGED prompt \/ Ask(g, o, IF pins = NoKey THEN "approve" ELSE "replace", presents[gate[o].host])
    <3> DEFINE found == IF gate[o].for = "connect" THEN NoKey ELSE effectivePins(gate[o].host, gate[o].before)
               g1 == [gate EXCEPT ![o].at = "ask", ![o].key = presents[gate[o].host]]
    <3>1. UNCHANGED prompt \/ Ask(g1, o, IF found = NoKey THEN "approve" ELSE "replace", presents[gate[o].host])
      BY <1>5 DEF Scanned
    <3> QED BY <3>1
  <2>3. PICK mode \in {"approve", "replace", "changed"} : UNCHANGED prompt \/ Ask(g, o, mode, presents[gate[o].host])
    BY <2>2
  <2> QED BY <2>1, <2>3, AskPrompts DEF PromptTypes
<1>6. ASSUME NEW o \in Op, HandleHostKeyError(o) PROVE PromptTypes'
  <2>1. gate[o].at # "ended" /\ UNCHANGED trusted
    BY <1>6 DEF HandleHostKeyError
  <2>2. Ask(Ended(o), o, "changed", presents[gate[o].host])
    BY <1>6 DEF HandleHostKeyError
  <2> QED BY <2>1, <2>2, AskPrompts DEF PromptTypes
<1>7. ASSUME NEW o \in Op, ScanFailed(o) \/ Saved(o) \/ SaveFailed(o) \/ Admitted(o) PROVE UNCHANGED <<prompt, trusted>>
  BY <1>7 DEF ScanFailed, Saved, SaveFailed, Admitted
<1>8. EnsureHostKeys \/ VerifyFromEditor \/ Rekey \/ HostsRead => UNCHANGED <<prompt, trusted>>
  BY DEF EnsureHostKeys, VerifyFromEditor, Enter, Rekey, HostsRead
<1>9. CASE KeysNext
  BY <1>1, <1>2, <1>3, <1>4, <1>5, <1>6, <1>7, <1>8, <1>9 DEF KeysNext
<1>10. KeysNext \/ UNCHANGED hostKeyVars
  BY SignOutStill DEF Next, vars
<1> QED BY <1>1, <1>9, <1>10 DEF hostKeyVars

LEMMA KeysTyped == Spec => []KeysTypeOK
<1>1. KeysInv /\ DecisionInv /\ PromptTypes => KeysTypeOK
  BY DEF KeysInv, KeysTypes, DecisionInv, PromptTypes, KeysTypeOK, Uses
<1>2. Spec => []DecisionInv
  <2>1. KeysInv /\ DecisionInv /\ [Next]_vars => DecisionInv'
    BY DecisionInductive
  <2> QED BY <2>1, SpecSteps, KeysInvariant, DecisionInitial, PTL
<1>3. Spec => []PromptTypes
  BY PromptInitial, PromptInductive, KeysInvariant, SpecSteps, PTL
<1> QED BY <1>1, <1>2, <1>3, KeysInvariant, PTL

(* A pipe takes no more than it has room for, and neither does the child   *)
(* write more than there is (bounds of the model).                         *)
PipesBounded == \A s \in Stream : sftpChild.wrote[s] \in 0 .. Pieces[s] /\ Len(pipes[s]) <= PipeSize

LEMMA BoundedInitial == Init => PipesBounded
BY DEF Init, PipesInit, PipesBounded, NoChild, Unwritten, Pieces, PipeSize, Stream

LEMMA BoundedInductive == PipesInv /\ PipesBounded /\ [Next]_vars => PipesBounded'
<1> SUFFICES ASSUME PipesInv, PipesBounded, [Next]_vars PROVE PipesBounded'
  OBVIOUS
<1> USE DEF pieceVars, childVars
<1>1. PipesTypes /\ Pieces \in [Stream -> {2, 6}]
  BY DEF PipesInv, Pieces, Stream
<1>2. ASSUME NEW t \in Stream, WritePiece(t) PROVE PipesBounded'
  <2>1. sftpChild' = [sftpChild EXCEPT !.wrote[t] = @ + 1] /\ sftpChild.wrote[t] < Pieces[t] /\ Len(pipes[t]) < PipeSize
    BY <1>2 DEF WritePiece
  <2>2. sftpChild.wrote \in [Stream -> Nat] /\ pipes \in [Stream -> Seq(Nat)]
    BY <1>1 DEF PipesTypes
  <2>3. sftpChild'.wrote = [sftpChild.wrote EXCEPT ![t] = @ + 1]
    BY <1>1, <2>1 DEF PipesTypes
  <2>4. PICK n : pipes' = [pipes EXCEPT ![t] = Append(@, n)] /\ n \in Nat
    <3>1. sftpChild'.wrote[t] \in Nat
      BY <2>2, <2>3
    <3> QED BY <1>2, <3>1 DEF WritePiece
  <2>5. ASSUME NEW s \in Stream PROVE sftpChild'.wrote[s] \in 0 .. Pieces[s] /\ Len(pipes'[s]) <= PipeSize
    <3>1. sftpChild.wrote[s] \in 0 .. Pieces[s] /\ Len(pipes[s]) <= PipeSize /\ Pieces[s] \in {2, 6}
      BY <1>1 DEF PipesBounded
    <3>2. CASE s = t
      <4>1. sftpChild'.wrote[s] = sftpChild.wrote[s] + 1
        BY <2>2, <2>3, <3>2
      <4>2. pipes'[s] = Append(pipes[s], n)
        BY <2>2, <2>4, <3>2
      <4>3. pipes[s] \in Seq(Nat)
        BY <2>2
      <4>4. Len(pipes'[s]) = Len(pipes[s]) + 1
        BY <2>4, <4>2, <4>3
      <4>5. Len(pipes[s]) < PipeSize /\ sftpChild.wrote[s] < Pieces[s] /\ Len(pipes[s]) \in Nat
        BY <2>1, <3>2, <4>3
      <4> QED BY <3>1, <4>1, <4>4, <4>5 DEF PipeSize
    <3>3. CASE s # t
      <4>1. sftpChild'.wrote[s] = sftpChild.wrote[s] /\ pipes'[s] = pipes[s]
        BY <2>2, <2>3, <2>4, <3>3
      <4> QED BY <3>1, <4>1
    <3> QED BY <3>2, <3>3
  <2> QED BY <2>5 DEF PipesBounded
<1>3. ASSUME NEW t \in Stream, Drain(t) PROVE PipesBounded'
  <2>1. pipes' = [pipes EXCEPT ![t] = Tail(@)] /\ pipes[t] # <<>> /\ UNCHANGED sftpChild
    BY <1>3 DEF Drain
  <2>2. pipes \in [Stream -> Seq(Nat)]
    BY <1>1 DEF PipesTypes
  <2>3. ASSUME NEW s \in Stream PROVE Len(pipes'[s]) <= PipeSize
    <3>1. pipes[s] \in Seq(Nat) /\ Len(pipes[s]) <= PipeSize
      BY <2>2 DEF PipesBounded
    <3>2. CASE s = t
      <4>1. pipes'[s] = Tail(pipes[s]) /\ pipes[s] # <<>>
        BY <2>1, <2>2, <3>2
      <4>2. Len(pipes'[s]) = Len(pipes[s]) - 1
        BY <3>1, <4>1
      <4>3. Len(pipes[s]) \in Nat
        BY <3>1
      <4> QED BY <3>1, <4>2, <4>3 DEF PipeSize
    <3>3. CASE s # t
      BY <2>1, <2>2, <3>1, <3>3
    <3> QED BY <3>2, <3>3
  <2> QED BY <2>1, <2>3 DEF PipesBounded
<1>4. ASSUME sftpChild'.wrote = sftpChild.wrote, UNCHANGED pipes PROVE PipesBounded'
  BY <1>4 DEF PipesBounded
<1>5. ASSUME NextChild PROVE PipesBounded'
  BY <1>5 DEF NextChild, PipesBounded, NoChild, Unwritten, Pieces, PipeSize, Stream
<1>6. sftpChild'.at # sftpChild.at /\ (\E at : sftpChild' = [sftpChild EXCEPT !.at = at]) => sftpChild'.wrote = sftpChild.wrote
  BY <1>1 DEF PipesTypes
<1>7. (ExitChild \/ SpawnChild \/ Kill) => sftpChild' = sftpChild \/ (\E at : sftpChild' = [sftpChild EXCEPT !.at = at])
  BY DEF ExitChild, SpawnChild, Kill
<1>8. (\E at : sftpChild' = [sftpChild EXCEPT !.at = at]) => sftpChild'.wrote = sftpChild.wrote
  BY <1>1 DEF PipesTypes
<1>9. ASSUME \/ ExitChild \/ SpawnChild \/ NotFed \/ Unobserved \/ KillChild PROVE PipesBounded'
  <2>1. UNCHANGED pipes /\ (ExitChild \/ SpawnChild \/ Kill)
    BY <1>9 DEF ExitChild, SpawnChild, NotFed, Unobserved, KillChild
  <2> QED BY <1>4, <1>7, <1>8, <2>1
<1>10. ASSUME \/ HeirEnds \/ Feed \/ Poll \/ CollectOutput \/ GraceOver \/ Cancel \/ \E s \in Stream : EndOfFile(s) PROVE PipesBounded'
  <2>1. UNCHANGED <<sftpChild, pipes>>
    BY <1>10 DEF HeirEnds, Feed, Poll, CollectOutput, GraceOver, Cancel, EndOfFile
  <2> QED BY <1>4, <2>1
<1>11. CASE PipesNext
  BY <1>2, <1>3, <1>5, <1>9, <1>10, <1>11 DEF PipesNext, PipeStep
<1>12. PipesNext \/ UNCHANGED pipeVars
  BY SignOutStill DEF Next, vars, shellVars
<1> QED BY <1>4, <1>11, <1>12 DEF pipeVars

LEMMA PipesTyped == Spec => []PipesTypeOK
<1>1. ASSUME PipesInv, PipesBounded PROVE PipesTypeOK
  <2>1. PipesTypes
    BY <1>1 DEF PipesInv
  <2>2. sftpChild.wrote \in [Stream -> 0 .. 6]
    <3>1. \A s \in Stream : sftpChild.wrote[s] \in 0 .. 6
      BY <1>1 DEF PipesBounded, Pieces, Stream
    <3>2. sftpChild.wrote \in [Stream -> Nat]
      BY <2>1 DEF PipesTypes
    <3> QED BY <3>1, <3>2
  <2>3. sftpChild \in [at : {"none", "running", "exited", "killed"}, wrote : [Stream -> 0 .. 6]]
    BY <2>1, <2>2 DEF PipesTypes
  <2>4. ASSUME NEW s \in Stream PROVE Len(Captured(s).kept) <= 2 * MaxCaptured
    BY <1>1 DEF PipesInv, Flows, Flow, Drains, Captured
  <2>5. waiter.at \in {"none", "feeding", "polling", "collecting", "told"}
        /\ waiter.outcome.kind \in {"none", "unfed", "exited", "cancelled", "waiterror"}
    BY <2>1 DEF PipesTypes
  <2> QED BY <1>1, <2>1, <2>3, <2>4, <2>5 DEF PipesTypes, PipesBounded, PipesTypeOK
<1>2. Spec => []PipesBounded
  BY BoundedInitial, BoundedInductive, PipesInvariant, SpecSteps, PTL
<1> QED BY <1>1, <1>2, PipesInvariant, PTL

==============================================================================

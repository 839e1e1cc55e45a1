------------------------------ MODULE Workspace ------------------------------
(***************************************************************************)
(* The parts of the client together, and the sign-out that ends them:      *)
(* teardownSession(), as far as ClientSession does not model it. Which     *)
(* parts the user works with is chosen at the start.                       *)
(***************************************************************************)
EXTENDS TerminalTabs, Tunnels, Transfers, VaultRecords, HostKeys, KeyAgents, FilePanes, Assistant, WebSsh, HostEditor, Listings,
        AiSettings, SftpProcess

shellVars == <<agentVars, paneVars, assistantVars, webVars, editorVars, listingVars, aiVars, pipeVars>>
vars == <<bridge, tabVars, tunnelVars, transferVars, recordVars, hostKeyVars, shellVars>>

Init == BridgeInit /\ TabsInit /\ TunnelsInit /\ TransfersInit /\ RecordsInit /\ KeysInit
        /\ AgentsInit /\ PanesInit /\ AssistantInit /\ WebInit /\ EditorInit /\ ListingsInit /\ AiInit /\ PipesInit

(* A patient user signs out when no session is being made.                 *)
Making == \/ \E o \in Op : Running(o) \/ Starting(o)
          \/ TunnelsBusy
          \/ ~NoWrites

(* The team is left, the vault is locked and its cache is purged. What was *)
(* approved for host keys stays, and so does a question about one: a       *)
(* sign-out changes nothing of HostKeys (bound: it is left out there).     *)
LeaveRecords ==
    IF "records" \in used THEN LockRecords /\ scope' = "personal" ELSE UNCHANGED <<scopeVars, write, listVars>>

SignOut ==
    /\ account < MaxAccount /\ used \cap {"keys", "agents", "panes", "assistant", "web", "editor", "listing", "settings", "pipes"} = {}
    /\ Hasty \/ ~Making
    /\ account' = account + 1 /\ page' = "other"
    /\ ResetAll /\ EmptyList /\ CloseAllTunnels
    /\ ipc' = Unasked \o CancelListed \o ResetCommands \o CloseTracked
    /\ LeaveRecords
    /\ UNCHANGED <<manner, ops, call, pty, exits, displaced, saved, up, forgotten, reply, process, owner, events>>
    /\ UNCHANGED <<serverVars, listed, load, hostKeyVars, shellVars>>

Next ==
    \/ SignOut
    \/ "tabs" \in used /\ TabsNext /\ UNCHANGED <<tunnelVars, transferVars, recordVars, hostKeyVars, shellVars>>
    \/ "tunnels" \in used /\ TunnelsNext /\ UNCHANGED <<tabVars, transferVars, recordVars, hostKeyVars, shellVars>>
    \/ "transfers" \in used /\ TransfersNext /\ UNCHANGED <<tabVars, tunnelVars, recordVars, hostKeyVars, shellVars>>
    \/ "records" \in used /\ RecordsNext /\ UNCHANGED <<tabVars, tunnelVars, transferVars, hostKeyVars, shellVars>>
    \/ "keys" \in used /\ KeysNext /\ UNCHANGED <<tabVars, tunnelVars, transferVars, recordVars, shellVars>>
    \/ "agents" \in used /\ AgentsNext /\ UNCHANGED <<tabVars, tunnelVars, transferVars, recordVars, hostKeyVars, paneVars, assistantVars, webVars, editorVars, listingVars, aiVars, pipeVars>>
    \/ "panes" \in used /\ PanesNext /\ UNCHANGED <<tabVars, tunnelVars, transferVars, recordVars, hostKeyVars, agentVars, assistantVars, webVars, editorVars, listingVars, aiVars, pipeVars>>
    \/ "assistant" \in used /\ AssistantNext /\ UNCHANGED <<tabVars, tunnelVars, transferVars, recordVars, hostKeyVars, agentVars, paneVars, webVars, editorVars, listingVars, aiVars, pipeVars>>
    \/ "web" \in used /\ WebNext /\ UNCHANGED <<tabVars, tunnelVars, transferVars, recordVars, hostKeyVars, agentVars, paneVars, assistantVars, editorVars, listingVars, aiVars, pipeVars>>
    \/ "editor" \in used /\ EditorNext /\ UNCHANGED <<tabVars, tunnelVars, transferVars, recordVars, hostKeyVars, agentVars, paneVars, assistantVars, webVars, listingVars, aiVars, pipeVars>>
    \/ "listing" \in used /\ ListingsNext /\ UNCHANGED <<tabVars, tunnelVars, transferVars, recordVars, hostKeyVars, agentVars, paneVars, assistantVars, webVars, editorVars, aiVars, pipeVars>>
    \/ "settings" \in used /\ AiNext /\ UNCHANGED <<tabVars, tunnelVars, transferVars, recordVars, hostKeyVars, agentVars, paneVars, assistantVars, webVars, editorVars, listingVars, pipeVars>>
    \/ "pipes" \in used /\ PipesNext /\ UNCHANGED <<tabVars, tunnelVars, transferVars, recordVars, hostKeyVars, agentVars, paneVars, assistantVars, webVars, editorVars, listingVars, aiVars>>

Spec ==
    /\ Init /\ [][Next]_vars
    /\ TabsFairness /\ TunnelsFairness /\ TransfersFairness /\ RecordsFairness
    /\ AgentsFairness /\ WebFairness /\ EditorFairness /\ PipesFairness

-----------------------------------------------------------------------------
TypeOK == /\ BridgeTypeOK /\ TabsTypeOK /\ TunnelsTypeOK /\ TransfersTypeOK
          /\ RecordsTypeOK /\ KeysTypeOK /\ AgentsTypeOK /\ PanesTypeOK /\ AssistantTypeOK /\ WebTypeOK
          /\ EditorTypeOK /\ AiTypeOK /\ PipesTypeOK

(* Each PTY is the session of a tab or is being closed, each tunnel is in  *)
(* the registry that a sign-out closes and has a row, or is being closed,  *)
(* and each running transfer is listed or is being cancelled, but for the  *)
(* PTYs of the sessions D and the tunnels F. (resetAll, removeTunnel,      *)
(* closeAllTunnelSessions and teardownSession act on those records only.)  *)
ReachableBut(D, F) ==
      /\ \A s \in pty \ D : \/ s \in Held
                            \/ \E k \in closing : k.session = s /\ ~k.answered
      /\ \A t \in Tunnel \ F : up[t] # None =>
           \/ t \in tracked \cap saved
           \/ Sent("ssh_tunnel_close", t)
      /\ \A o \in Op : process[o] = "running" =>
           \/ items[o] \in Unfinished
           \/ Sent("sftp_cancel", o)

(* No process is left behind, as long as the user waits for a connect, a   *)
(* start or a stop to end before closing, reconnecting or signing out, and *)
(* leaves unfinished transfers in the list. Two ways to lose one are left  *)
(* to this user: to connect a tab anew whose session runs, which drops the *)
(* session without closing it; and a tunnel that the page takes for idle,  *)
(* as it started after its status was read, or as its row is removed       *)
(* before its status is known.                                             *)
EveryProcessIsReachable == pace = "patient" => ReachableBut(displaced, forgotten)

(* When a connect() has ended that had its listeners registered, or did    *)
(* not come so far as to have a session, the copy of the private key that  *)
(* it was given is wiped, also when its tab is long gone. (One whose       *)
(* registration fails is "deaf" and keeps the key.)                        *)
KeysAreWiped == \A c \in Op : call[c].at = "ended" => obj[c].key # "held"

(* A finished transfer does not come back to life in the list, whatever    *)
(* the order of commands, events and sign-outs.                            *)
FinishedStays ==
    [][\A o \in Op : items[o] \in Final => items'[o] \in {items[o], "absent"}]_vars

(* Nothing spins for ever. A tab leaves "connecting", except beside an     *)
(* open question about a host key: connect() patches its tab on each of    *)
(* its ways out. A tunnel leaves "starting", unless a question about its   *)
(* host key is open or its SSH key cannot be parsed: each other way out of *)
(* startTunnel() sets its status.                                          *)
NothingSpins ==
    /\ \A i \in DOMAIN tabs : tabs[i].status = "connecting" =>
         \E c \in Op : Asking(c) /\ call[c].tab = tabs[i].id
    /\ \A t \in Tunnel : runtime[t] = "starting" =>
         \E o \in Op : start[o].at \in {"keys", "thrown"} /\ start[o].tunnel = t

(* Who stays on the SFTP page sees the end of every transfer that ends.    *)
TransfersAreShown ==
    pace = "patient" => \A o \in Op : items[o] \in Unfinished => process[o] = "running"

(* What was lent to a connect that had its listeners registered, to a      *)
(* transfer, a tunnel or a preparation is not left behind, in the client   *)
(* or beside the shell, nor is the child of a transfer whose end was told, *)
(* which monitor and cancel tell alike (OutcomesAgree in SftpProcess).     *)
NothingRemains == KeysAreWiped /\ NothingIsLeftBehind /\ OutcomesAgree

(* Whatever is under way with a session, a tunnel, a transfer, an agent or *)
(* a web connection comes to its end, as often as it begins. Two formulas, *)
(* as a part may have two things to wait for: in a behaviour one part is   *)
(* in use, and what is said of the others holds.                           *)
ProcessesSettle ==
    /\ []<>(NothingSpins /\ TransfersAreShown /\ KeysAreForgotten /\ ConnectsAreAnswered)
    /\ []<>(NothingPrepares /\ OrphansAreClosed /\ PipesFlow)

(* The key of a team is loaded or its failure shown, lists catch up with   *)
(* the server, and an installation of a key ends.                          *)
RecordsSettle == []<>(TeamKeySettles /\ InstallsEnd) /\ []<>ListsCatchUp

(* What was chosen last is what counts and what is shown. Each part says   *)
(* for itself when: the panes of files, for who waits for removals,        *)
(* folders and refreshes (PanesAgree); the terminal's suggestions and the  *)
(* Ask AI panel, but for requests that went astray (LateAnswersAreDropped);*)
(* decisions about a host key, for who does one thing at a time            *)
(* (LatestDecision); the host editor, for who waits (EditorAgrees); and of *)
(* the AI settings what is saved, not what is listed or tested, for who    *)
(* saves when the settings are there (SettingsAgree).                      *)
LatestChoiceCounts ==
    PanesAgree /\ LateAnswersAreDropped /\ LatestDecision /\ EditorAgrees /\ SettingsAgree

-----------------------------------------------------------------------------
(* What TLC refutes (README, section 3).                                   *)

(* EveryProcessIsReachable without its two exceptions.                     *)
NoProcessIsLost == pace = "patient" => ReachableBut({}, {})

(* The finally of connect() wipes the key, whatever way connect() ends.    *)
EveryKeyIsWiped == \A c \in Op : call[c].at \in {"deaf", "ended"} => obj[c].key # "held"

(* What terminal.ts says of a sign-out: no SSH or local-shell process      *)
(* outlives the account. Judged when nothing is under way any more.        *)
NoProcessOutlivesTheAccount ==
    (closing = {} /\ ipc = <<>> /\ \A c \in Op : ~Running(c))
      => \A s \in pty : call[s].account = account
=============================================================================

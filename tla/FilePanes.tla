------------------------------- MODULE FilePanes -------------------------------
(***************************************************************************)
(* The remote pane of the SFTP page: the host that is picked, the effect   *)
(* that resolves it, the effect that lists the directory, and what the     *)
(* user does with the entries. A re-render cancels the effects of the one  *)
(* before: their answers are dropped. refreshRemote() and the end of a     *)
(* removal are not effects, nothing cancels them. The commands of sftp.rs  *)
(* used here run on the main thread, one after the other, and are answered *)
(* in that order. An entry stands for all entries of its directory.        *)
(***************************************************************************)
EXTENDS HostKeys

Dir == {"home", "docs"}       \* bound: two directories of each host
NoHost == NoKey

VARIABLES
    picked,       \* selectedHost
    resolve,      \* where the live run of resolveHost() is
    hostArgs,     \* the host that commands are for
    remotePath,
    pane,         \* what the pane shows of a listing
    chosen,       \* remoteSelected: the directory that the entry was listed in
    calls         \* the commands that are not answered; `live`: not cancelled

paneVars == <<picked, resolve, hostArgs, remotePath, pane, chosen, calls>>

Place == Host \X Dir
Nowhere == <<>>
PaneCall == [cmd : {"home", "list", "refresh", "remove", "mkdir"}, host : Host, dir : Dir,
         name : Place \cup {Nowhere}, live : BOOLEAN]

PanesTypeOK ==
    /\ picked \in Host \cup {NoHost} /\ hostArgs \in Host \cup {NoHost}
    /\ resolve \in [at : {"no", "keys", "home"}, shown : BOOLEAN]
    /\ remotePath \in Dir /\ chosen \in Place \cup {Nowhere}
    /\ pane \in [entries : Place \cup {Nowhere}, loading : BOOLEAN, error : BOOLEAN]
    /\ calls \in Seq(PaneCall)

PanesInit ==
    /\ picked = NoHost /\ hostArgs = NoHost
    /\ resolve = [at |-> "no", shown |-> FALSE]
    /\ remotePath = "home" /\ chosen = Nowhere
    /\ pane = [entries |-> Nowhere, loading |-> FALSE, error |-> FALSE]
    /\ calls = <<>>

Here == <<hostArgs, remotePath>>
Query(cmd, h, d, name) == [cmd |-> cmd, host |-> h, dir |-> d, name |-> name, live |-> TRUE]
Cancelled(c) == [c EXCEPT !.live = FALSE]
Dead(cs) == [i \in DOMAIN cs |-> Cancelled(cs[i])]

(* The user of the pane. The patient one waits for a removal, a new folder *)
(* or a refresh, not for a listing that another one replaces.              *)
Acts == "panes" \in used /\ Len(calls) <= MaxIpc /\ UNCHANGED bridge
Waited == Hasty \/ \A i \in DOMAIN calls : calls[i].cmd \in {"home", "list"}
Quiet == Hasty \/ (~pane.loading /\ calls = <<>>)
Connected == hostArgs # NoHost

-----------------------------------------------------------------------------
(* Picking a host                                                          *)

(* Both effects run: the one that lists still has the old host, and is     *)
(* cancelled when resolveHost() has cleared it.                            *)
Resolving(h) ==
    /\ picked' = h /\ hostArgs' = NoHost
    /\ resolve' = IF h = NoHost THEN [resolve EXCEPT !.at = "no"] ELSE [at |-> "keys", shown |-> TRUE]
    /\ calls' = Dead(calls) \o (IF Connected THEN <<Cancelled(Query("list", hostArgs, remotePath, Nowhere))>> ELSE <<>>)
    /\ pane' = IF Connected THEN [pane EXCEPT !.loading = TRUE, !.error = FALSE] ELSE pane
    /\ UNCHANGED remotePath

PickHost(h) ==
    /\ Acts /\ Waited /\ h # picked
    /\ Resolving(h) /\ chosen' = Nowhere

(* Another device changed the host or a credential of it: the selection is *)
(* not cleared.                                                            *)
HostChanges ==
    /\ Acts /\ Hasty /\ picked # NoHost
    /\ Resolving(picked) /\ UNCHANGED chosen

(* The host's keys are approved and its identity is there; or one is not.  *)
AskHome ==
    /\ resolve.at = "keys"
    /\ resolve' = [resolve EXCEPT !.at = "home"]
    /\ calls' = Append(calls, Query("home", picked, "home", Nowhere))
    /\ UNCHANGED <<bridge, picked, hostArgs, remotePath, pane, chosen>>
NotResolved ==
    /\ resolve.at = "keys"
    /\ resolve' = [at |-> "no", shown |-> FALSE]
    /\ UNCHANGED <<bridge, picked, hostArgs, remotePath, pane, chosen, calls>>

-----------------------------------------------------------------------------
(* The listing                                                             *)

(* A render with another host or another path.                             *)
ListDir(h, d, cs) ==
    /\ calls' = Append(Dead(cs), Query("list", h, d, Nowhere))
    /\ pane' = [pane EXCEPT !.loading = TRUE, !.error = FALSE]

Navigate(d) ==
    /\ Acts /\ Waited /\ Connected /\ d # remotePath
    /\ remotePath' = d /\ chosen' = Nowhere
    /\ ListDir(hostArgs, d, calls)
    /\ UNCHANGED <<picked, resolve, hostArgs>>

Choose ==
    /\ Acts /\ Quiet /\ Connected /\ ~pane.error /\ pane.entries # Nowhere
    /\ chosen' = pane.entries
    /\ UNCHANGED <<picked, resolve, hostArgs, remotePath, pane, calls>>

(* newRemoteFolder(), and deleteRemoteSelection(): the name of the entry   *)
(* that is chosen, in the directory that is shown.                         *)
Change(cmd, name) ==
    /\ Acts /\ Quiet /\ Connected
    /\ calls' = Append(calls, Query(cmd, hostArgs, remotePath, name))
    /\ UNCHANGED <<picked, resolve, hostArgs, remotePath, pane, chosen>>
MakeFolder == Change("mkdir", Nowhere)
Delete == chosen # Nowhere /\ Change("remove", chosen)

Refresh ==
    /\ Acts /\ Quiet /\ Connected
    /\ calls' = Append(calls, Query("refresh", hostArgs, remotePath, Nowhere))
    /\ pane' = [pane EXCEPT !.loading = TRUE]
    /\ UNCHANGED <<picked, resolve, hostArgs, remotePath, chosen>>

-----------------------------------------------------------------------------
(* Answers                                                                 *)

Answered(cmd) == calls # <<>> /\ Head(calls).cmd = cmd /\ UNCHANGED bridge
Rest == Tail(calls)
Place0 == <<Head(calls).host, Head(calls).dir>>

(* A home that cannot be read is the root; a host key that is not the      *)
(* approved one ends the attempt.                                          *)
HomeAnswer ==
    /\ Answered("home") /\ Head(calls).live
    /\ resolve' = [at |-> "no", shown |-> FALSE]
    /\ \/ /\ remotePath' = "home" /\ hostArgs' = Head(calls).host
          /\ ListDir(hostArgs', remotePath', Rest)
       \/ calls' = Rest /\ UNCHANGED <<remotePath, hostArgs, pane>>
    /\ UNCHANGED <<picked, chosen>>

(* A listing whose effect was cancelled, in a build that forgot to ask.    *)
LateListAnswer ==
    /\ Answered("list")
    /\ pane' = [pane EXCEPT !.entries = Place0, !.loading = FALSE, !.error = FALSE]
    /\ calls' = Rest
    /\ UNCHANGED <<picked, resolve, hostArgs, remotePath, chosen>>

ListAnswer ==
    /\ Answered("list") /\ Head(calls).live
    /\ \E ok \in BOOLEAN :
         pane' = [pane EXCEPT !.entries = IF ok THEN Place0 ELSE @, !.loading = FALSE, !.error = ~ok]
    /\ calls' = Rest
    /\ UNCHANGED <<picked, resolve, hostArgs, remotePath, chosen>>

LateAnswer ==
    /\ calls # <<>> /\ ~Head(calls).live /\ Head(calls).cmd \in {"home", "list"}
    /\ calls' = Rest
    /\ UNCHANGED <<bridge, picked, resolve, hostArgs, remotePath, pane, chosen>>

RefreshAnswer ==
    /\ Answered("refresh")
    /\ \E e \in {Place0, pane.entries} : pane' = [pane EXCEPT !.entries = e, !.loading = FALSE]
    /\ calls' = Rest
    /\ UNCHANGED <<picked, resolve, hostArgs, remotePath, chosen>>

(* The directory of the click is listed again; or the change failed.       *)
ChangeAnswer ==
    /\ \E cmd \in {"remove", "mkdir"} : Answered(cmd)
    /\ \/ /\ chosen' = IF Head(calls).cmd = "remove" THEN Nowhere ELSE chosen
          /\ calls' = Append(Rest, Query("refresh", Head(calls).host, Head(calls).dir, Nowhere))
          /\ pane' = [pane EXCEPT !.loading = TRUE]
       \/ calls' = Rest /\ UNCHANGED <<pane, chosen>>
    /\ UNCHANGED <<picked, resolve, hostArgs, remotePath>>

-----------------------------------------------------------------------------
PaneAnswer == HomeAnswer \/ ListAnswer \/ LateAnswer \/ RefreshAnswer \/ ChangeAnswer

PanesNext ==
    \/ \E h \in Host \cup {NoHost} : PickHost(h)
    \/ HostChanges \/ AskHome \/ NotResolved
    \/ \E d \in Dir : Navigate(d)
    \/ Choose \/ MakeFolder \/ Delete \/ Refresh
    \/ PaneAnswer

(* After a listing the pane shows the directory of its path bar, and what  *)
(* is removed is the entry that was chosen there, for a user who waits for *)
(* removals, folders and refreshes and whose hosts nobody changes; and no  *)
(* command goes to another host than the one that is picked. A pane that   *)
(* loads has asked, so has a host that is being resolved.                  *)
PanesAgree ==
    /\ Connected => hostArgs = picked
    /\ Connected /\ pane.loading => \E i \in DOMAIN calls : calls[i].cmd = "refresh" \/ calls[i].live
    /\ resolve.shown => resolve.at # "no" \/ picked = NoHost
    /\ pace = "patient" =>
         /\ Connected /\ ~pane.loading /\ ~pane.error => pane.entries = Here
         /\ \A i \in DOMAIN calls :
              calls[i].cmd = "remove" => calls[i].name = <<calls[i].host, calls[i].dir>>

=============================================================================

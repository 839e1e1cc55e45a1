------------------------------ MODULE HostEditor ------------------------------
(***************************************************************************)
(* The host editor of HostsPage: a submission saves the host, then the     *)
(* credential that attaches an identity to it, deletes the credentials     *)
(* that are left over, asks for the host key, has the shell try the SSH    *)
(* key, and offers to install it with the server's password. Each wait of  *)
(* a submission is a step; what it saves and shows comes from the draft    *)
(* and the lists of the render in which it was begun. ssh_key_test and     *)
(* ssh_key_install run on the main thread of the shell.                    *)
(***************************************************************************)
EXTENDS NativeBridge

VARIABLES
    hosts,        \* server: the ids of the hosts
    creds,        \* server: the host credentials
    hostList,     \* the query of the hosts
    credList,     \* the query of the host credentials
    draft,        \* the form: the host's id, its credential, the identity picked
    editorOpen,
    submission,   \* the runs of submitHost() and submitBootstrap()
    bootstrap,    \* the dialog that asks for the server's password
    shell,        \* the child that the main thread of the shell waits for
    attached      \* history: the identity that the patient user's last submission
                  \* of a host attached, "unknown" at first, "failed" once one failed

rowVars == <<hosts, creds>>
queryVars == <<hostList, credList>>
formVars == <<draft, editorOpen, bootstrap>>
editorVars == <<rowVars, queryVars, formVars, submission, shell, attached>>

(* Records 1 and 2 are there; an operation makes the record of its number. *)
Rec == 1 .. MaxOps + 2
New(o) == o + 2
Ident == {"none", "a", "b"}
Time == 0 .. MaxOps
Credential == [id : Rec, host : Rec, ident : Ident, updatedAt : Time]
Draft == [id : Rec \cup {None}, cred : Rec \cup {None}, ident : Ident]
EmptyHost == [id |-> None, cred |-> None, ident |-> "none"]
Submission == [at : {"host", "credential", "duplicates", "clear", "keys", "test", "install", "retest", "ended"},
               draft : Draft, listed : SUBSET Rec, host : Rec \cup {None}]
NoSubmission == [at |-> "ended", draft |-> EmptyHost, listed |-> {}, host |-> None]
NoBootstrap == [host |-> None, status |-> "none"]
FreeShell == [at |-> "free", of |-> None]

EditorTypeOK ==
    /\ hosts \subseteq Rec /\ hostList \subseteq Rec
    /\ creds \subseteq Credential /\ credList \subseteq Credential
    /\ draft \in Draft /\ editorOpen \in BOOLEAN
    /\ submission \in [Op -> Submission]
    /\ bootstrap \in [host : Rec \cup {None}, status : {"none", "password", "installing"}]
    /\ shell \in [at : {"free", "test", "copy", "manual"}, of : Op \cup {None}]
    /\ attached \in [Rec -> Ident \cup {"unknown", "failed"}]

(* A host to which other devices attached an identity twice.               *)
EditorInit ==
    /\ hosts = {1}
    /\ creds = {[id |-> i, host |-> 1, ident |-> "a", updatedAt |-> 0] : i \in {1, 2}}
    /\ hostList = hosts /\ credList = creds
    /\ draft = EmptyHost /\ editorOpen = FALSE
    /\ submission = [o \in Op |-> NoSubmission]
    /\ bootstrap = NoBootstrap /\ shell = FreeShell
    /\ attached = [h \in Rec |-> "unknown"]

Editing == "editor" \in used
Submitting == \E o \in Op : submission[o].at # "ended"
Advanced(o, at) == [submission EXCEPT ![o].at = at]
Done(o) == [submission EXCEPT ![o] = NoSubmission]

hostCredentialsForHost(h, cs) == {c \in cs : c.host = h}
Newer(c, d) == c.updatedAt > d.updatedAt \/ (c.updatedAt = d.updatedAt /\ c.id >= d.id)
Latest(cs) == {c \in cs : \A d \in cs : Newer(c, d)}
Ids(cs) == {c.id : c \in cs}
Without(cs, ids) == {c \in cs : c.id \notin ids}

-----------------------------------------------------------------------------
(* The form. The patient user waits for a submission and its dialogs.      *)

Undisturbed == Hasty \/ (~Submitting /\ bootstrap = NoBootstrap)

CloseEditor == draft' = EmptyHost /\ editorOpen' = FALSE
KeepEditor == UNCHANGED <<draft, editorOpen>>

(* Also by shortcut, while a dialog is open.                               *)
OpenNewHost ==
    /\ Editing /\ Undisturbed
    /\ draft' = EmptyHost /\ editorOpen' = TRUE
    /\ UNCHANGED <<bridge, rowVars, queryVars, bootstrap, submission, shell, attached>>

(* hostToInput, with latestHostCredentialForHost.                          *)
HostToInput(h) ==
    LET cs == hostCredentialsForHost(h, credList) IN
    IF cs = {} THEN {[EmptyHost EXCEPT !.id = h]}
    ELSE {[id |-> h, cred |-> c.id, ident |-> c.ident] : c \in Latest(cs)}

OpenHost(h) ==
    /\ Editing /\ Undisturbed /\ bootstrap = NoBootstrap
    /\ h \in hostList
    /\ draft' \in HostToInput(h) /\ editorOpen' = TRUE
    /\ UNCHANGED <<bridge, rowVars, queryVars, bootstrap, submission, shell, attached>>

DismissEditor ==
    /\ Undisturbed /\ editorOpen /\ bootstrap = NoBootstrap
    /\ CloseEditor
    /\ UNCHANGED <<bridge, rowVars, queryVars, bootstrap, submission, shell, attached>>

(* With the identity, the latest credential of a host that is listed.      *)
(* Bound: the hasty user has one identity to pick.                         *)
PickIdentity(i) ==
    /\ Undisturbed /\ editorOpen /\ bootstrap = NoBootstrap /\ draft.ident # i
    /\ Hasty => i # "b"
    /\ \E saved \in HostToInput(draft.id) :
         draft' = [draft EXCEPT !.ident = i,
                     !.cred = IF draft.id \in hostList /\ saved.cred # None THEN saved.cred ELSE @]
    /\ UNCHANGED <<bridge, rowVars, queryVars, editorOpen, bootstrap, submission, shell, attached>>

(* The button waits for the save of a host only. What will be saved is the *)
(* credential of the draft, or else the latest one that is listed.         *)
SubmitHost ==
    /\ Begin /\ Undisturbed /\ editorOpen /\ bootstrap = NoBootstrap
    /\ \A o \in Op : submission[o].at # "host"
    /\ \E saved \in IF draft.cred # None THEN {draft} ELSE HostToInput(draft.id) :
         submission' = [submission EXCEPT ![ops'] =
           [at |-> "host", draft |-> [draft EXCEPT !.cred = saved.cred], host |-> draft.id,
            listed |-> Ids(hostCredentialsForHost(draft.id, credList))]]
    /\ UNCHANGED <<shared, ipc, rowVars, queryVars, formVars, shell, attached>>

-----------------------------------------------------------------------------
(* A submission: each request is answered after the lists were read again, *)
(* or it fails, with or without effect, and the submission ends there.     *)

Lists == hostList' = hosts' /\ credList' = creds'
Failed(o) ==
    /\ submission' = Done(o)
    /\ attached' = IF Hasty \/ submission[o].host = None THEN attached
                   ELSE [attached EXCEPT ![submission[o].host] = "failed"]
    /\ UNCHANGED <<bridge, queryVars, formVars, shell>>

(* saveHost: without an id a host is made.                                 *)
HostId(o) == IF submission[o].draft.id = None THEN New(o) ELSE submission[o].draft.id
HostSaved(o) ==
    /\ submission[o].at = "host"
    /\ hosts' = hosts \cup {HostId(o)} /\ UNCHANGED creds /\ Lists
    /\ submission' = [submission EXCEPT ![o].host = HostId(o),
         ![o].at = IF submission[o].draft.ident = "none" THEN "clear" ELSE "credential"]
    /\ UNCHANGED <<bridge, formVars, shell, attached>>
HostNotSaved(o) ==
    /\ submission[o].at = "host"
    /\ hosts' \in {hosts, hosts \cup {HostId(o)}}
    /\ UNCHANGED creds /\ Failed(o)

(* saveHostCredential, in the second of the latest one or in a later one,  *)
(* which is the next (bound: only the order of the seconds matters).       *)
CredId(o) == IF submission[o].draft.cred # None THEN submission[o].draft.cred ELSE New(o)
Attach(o) ==
    \E now \in Time :
      /\ \A c \in creds : c.updatedAt <= now
      /\ now = 0 \/ \E c \in creds : now <= c.updatedAt + 1
      /\ creds' = Without(creds, {CredId(o)})
                  \cup {[id |-> CredId(o), host |-> submission[o].host, ident |-> submission[o].draft.ident, updatedAt |-> now]}
Updatable(o) == CredId(o) \in Ids(creds) \cup {New(o)}
Attached(o) ==
    /\ submission[o].at = "credential" /\ Updatable(o)
    /\ Attach(o) /\ UNCHANGED hosts /\ Lists
    /\ submission' = Advanced(o, "duplicates")
    /\ UNCHANGED <<bridge, formVars, shell, attached>>
NotAttached(o) ==
    /\ submission[o].at = "credential"
    /\ UNCHANGED creds \/ (Updatable(o) /\ Attach(o))
    /\ UNCHANGED hosts /\ Failed(o)

(* deleteDuplicateHostCredentials, deleteSavedHostCredentials: those that  *)
(* the render listed, at once. One that is gone fails.                     *)
Doomed(o) ==
    IF submission[o].at = "duplicates" THEN submission[o].listed \ {CredId(o)}
    ELSE submission[o].listed \cup ({submission[o].draft.cred} \ {None})
Present(ids) == ids \subseteq Ids(creds)
Cleaned(o) == attached' = [attached EXCEPT ![submission[o].host] =
                               IF Hasty \/ @ = "failed" THEN @ ELSE submission[o].draft.ident]

(* The draft becomes what was saved, and the identity is tried.            *)
SavedDraft(o) == draft' = [submission[o].draft EXCEPT !.id = submission[o].host, !.cred = CredId(o)]
DuplicatesDeleted(o) ==
    /\ submission[o].at = "duplicates" /\ Present(Doomed(o))
    /\ creds' = Without(creds, Doomed(o)) /\ UNCHANGED hosts /\ Lists
    /\ \/ SavedDraft(o) /\ UNCHANGED editorOpen /\ submission' = Advanced(o, "keys")
       \/ CloseEditor /\ submission' = Done(o)
    /\ Cleaned(o)
    /\ UNCHANGED <<bridge, bootstrap, shell>>
CredentialsDeleted(o) ==
    /\ submission[o].at = "clear" /\ Present(Doomed(o))
    /\ creds' = Without(creds, Doomed(o)) /\ UNCHANGED hosts /\ Lists
    /\ CloseEditor /\ submission' = Done(o)
    /\ Cleaned(o)
    /\ UNCHANGED <<bridge, bootstrap, shell>>
NotDeleted(o) ==
    /\ submission[o].at \in {"duplicates", "clear"}
    /\ \E gone \in SUBSET Doomed(o) : creds' = Without(creds, gone)
    /\ UNCHANGED hosts /\ Failed(o)

(* testAttachedKey, installAttachedKey: the calls of the shell.            *)
TestKey(o) == ipc' = Append(ipc, Command("ssh_key_test", o))
InstallKey(o) == ipc' = Append(ipc, Command("ssh_key_install", o))

(* The gate of HostKeys: no pins, and the key is not tried, and neither is *)
(* one that cannot be read; or the shell is asked.                         *)
TestAttachedKey(o) ==
    /\ submission[o].at = "keys"
    /\ \/ submission' = Done(o) /\ UNCHANGED <<ops, ipc>>
       \/ submission' = Advanced(o, "test") /\ TestKey(o) /\ UNCHANGED ops
    /\ UNCHANGED <<shared, rowVars, queryVars, formVars, shell, attached>>

(* submitBootstrap and the dialog, which cannot be closed meanwhile.       *)
SubmitBootstrap ==
    /\ Begin /\ bootstrap.status = "password"
    /\ bootstrap' = [bootstrap EXCEPT !.status = "installing"]
    /\ submission' = [submission EXCEPT ![ops'] = [NoSubmission EXCEPT !.at = "install", !.host = bootstrap.host]]
    /\ InstallKey(ops')
    /\ UNCHANGED <<shared, rowVars, queryVars, draft, editorOpen, shell, attached>>
CancelBootstrap ==
    /\ bootstrap.status = "password"
    /\ bootstrap' = NoBootstrap
    /\ UNCHANGED <<bridge, rowVars, queryVars, draft, editorOpen, submission, shell, attached>>

-----------------------------------------------------------------------------
(* The shell, and what the page does with its answer.                      *)

AskPassword(o) == [host |-> submission[o].host, status |-> "password"]

(* "works" or "fails", a host key that is not the approved one, or another *)
(* error. A test after an installation counts as its end.                  *)
TestAnswer(o, result) ==
    /\ shell' = FreeShell
    /\ submission' = Done(o)
    /\ LET again == submission[o].at = "retest" IN
       CASE result = "works" -> CloseEditor /\ bootstrap' = IF again THEN NoBootstrap ELSE bootstrap
         [] result = "fails" -> KeepEditor /\ bootstrap' = AskPassword(o)
         [] result = "host key" -> KeepEditor /\ bootstrap' = IF again THEN NoBootstrap ELSE bootstrap
         [] OTHER -> KeepEditor /\ bootstrap' = IF again THEN AskPassword(o) ELSE bootstrap
    /\ UNCHANGED <<shared, ops, rowVars, queryVars, attached>>

(* test_private_key_auth: `ssh ... true`, with a limit for the connection  *)
(* and none for the sign-in.                                               *)
KeyTest(o) ==
    /\ shell = FreeShell /\ Run("ssh_key_test", o)
    /\ \/ /\ shell' = [FreeShell EXCEPT !.at = "test", !.of = o]
          /\ UNCHANGED <<shared, ops, rowVars, queryVars, formVars, submission, attached>>
       \/ TestAnswer(o, "error")
KeyTestEnds(o) ==
    /\ shell.at = "test" /\ shell.of = o
    /\ \E result \in {"works", "fails", "host key"} : TestAnswer(o, result)
    /\ UNCHANGED ipc

InstallAnswer(o, result) ==
    /\ shell' = FreeShell
    /\ IF result = "installed" THEN submission' = Advanced(o, "retest") /\ TestKey(o)
                               ELSE submission' = Done(o) /\ UNCHANGED ipc
    /\ bootstrap' = CASE result = "installed" -> bootstrap
                      [] result = "host key" -> NoBootstrap
                      [] OTHER -> AskPassword(o)
    /\ UNCHANGED <<shared, ops, rowVars, queryVars, draft, editorOpen, attached>>

(* install_public_key_auth: ssh-copy-id if there is one, else by hand.     *)
KeyInstall(o) ==
    /\ shell = FreeShell /\ Run("ssh_key_install", o)
    /\ \/ /\ \E method \in {"copy", "manual"} : shell' = [FreeShell EXCEPT !.at = method, !.of = o]
          /\ UNCHANGED <<submission, bootstrap>>
       \/ /\ shell' = FreeShell /\ submission' = Done(o) /\ bootstrap' = AskPassword(o)
    /\ UNCHANGED <<shared, ops, rowVars, queryVars, draft, editorOpen, attached>>

(* run_password_pty: what the child prints is left out; it exits, or it is *)
(* killed after 60 seconds. After ssh-copy-id the same is tried by hand,   *)
(* unless the host key was not the approved one.                           *)
Installing(o) == shell.at \in {"copy", "manual"} /\ shell.of = o
InstallExits(o) ==
    /\ Installing(o)
    /\ \E result \in {"installed", "host key"} : InstallAnswer(o, result)
InstallFailsCopying(o) ==
    /\ Installing(o) /\ shell.at = "copy"
    /\ shell' = [FreeShell EXCEPT !.at = "manual", !.of = o]
    /\ UNCHANGED <<bridge, rowVars, queryVars, formVars, submission, attached>>
InstallFails(o) ==
    /\ Installing(o)
    /\ \/ /\ shell.at = "copy"
          /\ shell' = [FreeShell EXCEPT !.at = "manual", !.of = o]
          /\ UNCHANGED <<bridge, rowVars, queryVars, formVars, submission, attached>>
       \/ shell.at = "manual" /\ InstallAnswer(o, "error")

-----------------------------------------------------------------------------
ShellEnds(o) == KeyTest(o) \/ KeyInstall(o) \/ InstallFails(o)

EditorNext ==
    \/ OpenNewHost \/ DismissEditor \/ SubmitHost
    \/ \E h \in Rec : OpenHost(h)
    \/ \E i \in Ident : PickIdentity(i)
    \/ SubmitBootstrap \/ CancelBootstrap
    \/ \E o \in Op :
         \/ HostSaved(o) \/ HostNotSaved(o) \/ Attached(o) \/ NotAttached(o)
         \/ DuplicatesDeleted(o) \/ CredentialsDeleted(o) \/ NotDeleted(o) \/ TestAttachedKey(o)
         \/ KeyTestEnds(o) \/ InstallExits(o) \/ ShellEnds(o)

(* The shell runs its commands, and what waits for a child that installs a *)
(* key looks at the clock. Nothing is assumed of a server or of a request. *)
EditorFairness == WF_<<bridge, editorVars>>(InUse("editor", \E o \in Op : ShellEnds(o)))

-----------------------------------------------------------------------------
(* The editor never takes a credential from one host to another, whatever  *)
(* was opened while a submission was under way. A dialog that cannot be    *)
(* closed has an operation that will end it. And for a user who waits: the *)
(* dialog is about the host in the editor, and a host whose submission     *)
(* ended well, and none before failed, has the identity that was picked    *)
(* and no other credential, also when another device had left it two.      *)
EditorAgrees ==
    /\ \A c \in creds : c.id = draft.cred => c.host = draft.id
    /\ bootstrap.status = "installing" => \E o \in Op : submission[o].at \in {"install", "retest"}
    /\ pace = "patient" =>
         /\ bootstrap # NoBootstrap => editorOpen /\ bootstrap.host = draft.id
         /\ \A h \in Rec : attached[h] \in Ident /\ ~Submitting =>
              LET cs == hostCredentialsForHost(h, creds) IN
              IF attached[h] = "none" THEN cs = {} ELSE \E c \in cs : cs = {c} /\ c.ident = attached[h]

(* An installation comes to its end even if the server never answers,      *)
(* unless what hangs is the test of the key.                               *)
InstallsEnd == bootstrap.status = "installing" => shell.at = "test"
=============================================================================

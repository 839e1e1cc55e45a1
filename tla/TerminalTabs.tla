---------------------------- MODULE TerminalTabs -----------------------------
(***************************************************************************)
(* Terminal tabs and their sessions. A call of connect() makes at most one *)
(* session and one PTY, so the three have the number of the call; a tab    *)
(* has the number of the call that opened it. A call and a close() are cut *)
(* where they wait: for the host key and the SSH key, for the registration *)
(* of the listeners, for the shell. What a session prints is left out.     *)
(***************************************************************************)
EXTENDS NativeBridge

CONSTANT MaxTabs  \* bound: tabs that are open at the same time

VARIABLES
    tabs,         \* the tab bar: id, kind, status, session (or None)
    call,         \* calls of connect()
    obj,          \* the SshSession objects
    closing,      \* calls of close() that wait for the shell
    pty,          \* shell: PTY sessions whose child runs
    exits,        \* "closed" events on their way to the webview
    displaced     \* history: sessions whose PTY ran when the patient user connected
                  \* their tab anew

tabVars == <<tabs, call, obj, closing, pty, exits, displaced>>

Kind == {"host", "local"}
Call == [tab : Op \cup {None}, kind : Kind, account : 0 .. MaxAccount,
         at : {"idle", "asking", "listening", "invoked", "keyless", "opened", "refused", "deaf", "ended"}]
Session == [native : BOOLEAN, listening : BOOLEAN, key : {"none", "held", "wiped"}]

NoCall == [tab |-> None, kind |-> "host", account |-> 0, at |-> "idle"]
NoSession == [native |-> FALSE, listening |-> FALSE, key |-> "none"]

TabsTypeOK ==
    /\ \A i \in DOMAIN tabs : tabs[i] \in
         [id : Op, kind : Kind, status : {"closed", "connecting", "connected"}, session : Op \cup {None}]
    /\ call \in [Op -> Call] /\ obj \in [Op -> Session]
    /\ closing \subseteq [session : Op, tab : Op \cup {None}, answered : BOOLEAN]
    /\ pty \subseteq Op /\ exits \subseteq Op /\ displaced \subseteq Op

TabsInit ==
    /\ tabs = <<>>
    /\ call = [c \in Op |-> NoCall] /\ obj = [c \in Op |-> NoSession]
    /\ closing = {} /\ pty = {} /\ exits = {} /\ displaced = {}

First == {1}
Running(c) == call[c].at \notin {"idle", "deaf", "ended"}
Busy(t) == \/ \E c \in Op : Running(c) /\ call[c].tab = t
           \/ \E k \in closing : k.tab = t
CallIs(c, at) == call' = [call EXCEPT ![c].at = at, ![c].tab = None]
CallEnds(c) == CallIs(c, "ended")
Move(c, at) == call' = [call EXCEPT ![c].at = at]

(* patchTab: the tab may be gone. A status alone leaves the session.       *)
Patch(t, status, session) ==
    [i \in DOMAIN tabs |-> IF tabs[i].id = t
        THEN [tabs[i] EXCEPT !.status = status, !.session = session] ELSE tabs[i]]
PatchStatus(t, status) ==
    [i \in DOMAIN tabs |-> IF tabs[i].id = t THEN [tabs[i] EXCEPT !.status = status] ELSE tabs[i]]

Wiped(s) == [s EXCEPT !.key = IF @ = "held" THEN "wiped" ELSE @]
Closed(s) == [s EXCEPT !.native = FALSE, !.listening = FALSE]

-----------------------------------------------------------------------------
(* connect                                                                 *)

(* A local shell has its session at once and waits for the listeners; a    *)
(* host tab waits for the approved host key and the SSH key.               *)
Launch(c, t, kind) ==
    /\ call' = [call EXCEPT ![c] = [tab |-> t, kind |-> kind, account |-> account,
                                    at |-> IF kind = "local" THEN "listening" ELSE "asking"]]
    /\ obj' = IF kind = "local" THEN [obj EXCEPT ![c].native = TRUE] ELSE obj

(* Bound: the hasty user has one kind of tabs.                             *)
AddTab(kind) ==
    /\ Begin /\ "tabs" \in used /\ Len(tabs) < MaxTabs
    /\ Hasty => \A c \in Op : call[c].at # "idle" => call[c].kind = kind
    /\ tabs' = Append(tabs, [id |-> ops', kind |-> kind, status |-> "connecting",
                             session |-> IF kind = "local" THEN ops' ELSE None])
    /\ Launch(ops', ops', kind)
    /\ UNCHANGED <<shared, ipc, closing, pty, exits, displaced>>

(* Connect and Restart on a closed tab; Reconnect and Restart on one that  *)
(* is connected replace its session, a host's once it has its keys, and    *)
(* neither closes it: a PTY that still runs is in no tab afterwards.       *)
Connect(i) ==
    /\ Begin
    /\ tabs[i].status \in {"closed", "connected"}
    /\ Hasty \/ ~Busy(tabs[i].id)
    /\ displaced' = displaced \cup {s \in {tabs[i].session} \cap pty : ~Hasty}
    /\ tabs' = IF tabs[i].kind = "local" THEN Patch(tabs[i].id, "connecting", ops')
               ELSE PatchStatus(tabs[i].id, "connecting")
    /\ Launch(ops', tabs[i].id, tabs[i].kind)
    /\ UNCHANGED <<shared, ipc, closing, pty, exits>>

(* hostSession() has the pins and the private key of the host.             *)
HostSession(c) ==
    /\ call[c].at = "asking"
    /\ Move(c, "listening")
    /\ obj' = [obj EXCEPT ![c] = [native |-> TRUE, listening |-> FALSE, key |-> "held"]]
    /\ tabs' = [i \in DOMAIN tabs |-> IF tabs[i].id = call[c].tab
                   THEN [tabs[i] EXCEPT !.session = c] ELSE tabs[i]]
    /\ UNCHANGED <<bridge, closing, pty, exits, displaced>>

(* The host key was declined, or reading it or the SSH key failed.         *)
DeclinedUnshown(c) ==
    /\ call[c].at = "asking"
    /\ CallEnds(c)
    /\ UNCHANGED <<bridge, tabs, obj, closing, pty, exits, displaced>>
Declined(c) ==
    /\ call[c].at = "asking"
    /\ CallEnds(c)
    /\ tabs' = Patch(call[c].tab, "closed", None)
    /\ UNCHANGED <<bridge, obj, closing, pty, exits, displaced>>

(* Both listeners are registered: the command is sent, ssh_connect to a    *)
(* thread of its own.                                                      *)
Listened(c) ==
    /\ call[c].at = "listening"
    /\ Move(c, IF obj[c].key = "wiped" THEN "keyless" ELSE "invoked")
    /\ obj' = [obj EXCEPT ![c].listening = TRUE]
    /\ IF call[c].kind = "local" THEN Invoke("local_shell_open", c) ELSE UNCHANGED ipc
    /\ UNCHANGED <<shared, ops, tabs, closing, pty, exits, displaced>>

(* The modules of the shell or a listener cannot be had (bound: for the    *)
(* first session). That happens before the try of connect(): its "finally" *)
(* does not wipe the key and its "catch" does not close the session; the   *)
(* caller shows the tab closed.                                            *)
ListenFails(c) ==
    /\ call[c].at = "listening" /\ c \in First
    /\ CallIs(c, "deaf")
    /\ tabs' = Patch(call[c].tab, "closed", None)
    /\ UNCHANGED <<bridge, obj, closing, pty, exits, displaced>>

(* A key that was wiped before it was sent cannot be loaded.               *)
OpenPty(c) ==
    /\ call[c].at \in {"invoked", "keyless"}
    /\ IF call[c].kind = "local" THEN Run("local_shell_open", c) ELSE UNCHANGED ipc
    /\ \/ call[c].at = "invoked" /\ Move(c, "opened") /\ pty' = pty \cup {c}
       \/ Move(c, "refused") /\ UNCHANGED pty
    /\ UNCHANGED <<shared, ops, tabs, obj, closing, exits, displaced>>

Opened(c) ==
    /\ call[c].at = "opened"
    /\ CallEnds(c)
    /\ obj' = [obj EXCEPT ![c] = Wiped(@)]
    /\ tabs' = Patch(call[c].tab, "connected", c)
    /\ UNCHANGED <<bridge, closing, pty, exits, displaced>>

Refused(c) ==
    /\ call[c].at = "refused"
    /\ CallEnds(c)
    /\ obj' = [obj EXCEPT ![c] = Wiped(Closed(@))]
    /\ tabs' = Patch(call[c].tab, "closed", None)
    /\ UNCHANGED <<bridge, closing, pty, exits, displaced>>

-----------------------------------------------------------------------------
(* close                                                                   *)

(* close() of a set of sessions; the calls that ask the shell. t is the    *)
(* tab that disconnect() patches afterwards.                               *)
Closing(S, t) == {[session |-> s, tab |-> t, answered |-> FALSE] : s \in {s \in S : obj[s].native}}
CloseAll(S, t) ==
    /\ closing' = closing \cup Closing(S, t)
    /\ obj' = [s \in Op |-> IF s \notin S THEN obj[s]
                            ELSE IF obj[s].native THEN Wiped(obj[s]) ELSE Wiped(Closed(obj[s]))]

Disconnect(i) ==
    /\ tabs[i].status # "closed" /\ Room
    /\ Hasty \/ ~Busy(tabs[i].id)
    /\ LET S == {tabs[i].session} \ {None}
           open == {s \in S : obj[s].native}
       IN /\ CloseAll(S, tabs[i].id)
          /\ ipc' = ipc \o Commands("pty_close", open)
          /\ tabs' = IF open = {} THEN Patch(tabs[i].id, "closed", None) ELSE tabs
    /\ UNCHANGED <<shared, ops, call, pty, exits, displaced>>

CloseTab(i) ==
    /\ Room
    /\ Hasty \/ ~Busy(tabs[i].id)
    /\ LET S == {tabs[i].session} \ {None}
       IN /\ CloseAll(S, None)
          /\ ipc' = ipc \o Commands("pty_close", {s \in S : obj[s].native})
    /\ tabs' = RemoveAt(tabs, i)
    /\ UNCHANGED <<shared, ops, call, pty, exits, displaced>>

(* resetAll, of a sign-out: the sessions that the tabs hold.               *)
Held == {tabs[i].session : i \in DOMAIN tabs} \ {None}
ResetCommands == Commands("pty_close", {s \in Held : obj[s].native})
ResetAll == tabs' = <<>> /\ CloseAll(Held, None)

(* The child is killed. Its "closed" event is left out: hearing it does a  *)
(* part of what the answer to close() does anyway.                         *)
ClosePty(s) ==
    /\ Run("pty_close", s)
    /\ closing' = {IF k.session = s THEN [k EXCEPT !.answered = TRUE] ELSE k : k \in closing}
    /\ pty' = pty \ {s}
    /\ UNCHANGED <<shared, ops, tabs, call, obj, exits, displaced>>

CloseDone(k) ==
    /\ k.answered
    /\ closing' = closing \ {k}
    /\ obj' = [obj EXCEPT ![k.session] = Closed(@)]
    /\ tabs' = IF k.tab = None THEN tabs ELSE Patch(k.tab, "closed", None)
    /\ UNCHANGED <<bridge, call, pty, exits, displaced>>

(* The child ends by itself (bound: that of the first session, for the     *)
(* hasty user of a host); the event is heard by whoever listens for it.    *)
Exit(s) ==
    /\ s \in pty \cap First /\ (Hasty => call[s].kind = "host")
    /\ pty' = pty \ {s} /\ exits' = exits \cup {s}
    /\ UNCHANGED <<bridge, tabs, call, obj, closing, displaced>>

ExitHeard(s) ==
    /\ s \in exits
    /\ exits' = exits \ {s}
    /\ obj' = IF ~(obj[s].listening /\ obj[s].native) THEN obj
              ELSE IF call[s].kind = "host" THEN [obj EXCEPT ![s] = Closed(@)]
              ELSE [obj EXCEPT ![s].listening = FALSE]
    /\ UNCHANGED <<bridge, tabs, call, closing, pty, displaced>>

-----------------------------------------------------------------------------
TabsProgress(c) ==
    \/ HostSession(c) \/ Declined(c) \/ Listened(c) \/ ListenFails(c) \/ Opened(c) \/ Refused(c)
    \/ \E k \in closing : k.session = c /\ CloseDone(k)
    \/ ExitHeard(c)
TabsShell(c) == OpenPty(c) \/ ClosePty(c)

TabsNext ==
    \/ \E kind \in Kind : AddTab(kind)
    \/ \E i \in DOMAIN tabs : Connect(i) \/ Disconnect(i) \/ CloseTab(i)
    \/ \E c \in Op : TabsProgress(c) \/ TabsShell(c) \/ Exit(c)

(* Event loop and shell go on. Each call takes finitely many steps, so     *)
(* this gives every one of them its turn. The user may leave a question    *)
(* about a host key open for ever.                                         *)
Asking(c) == call[c].at = "asking"
TabsFairness ==
    LET v == <<bridge, tabVars>> IN
    /\ WF_v(InUse("tabs", \E c \in Op : ~Asking(c) /\ TabsProgress(c)))
    /\ WF_v(InUse("tabs", \E c \in Op : TabsShell(c)))
=============================================================================

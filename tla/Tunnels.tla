------------------------------- MODULE Tunnels -------------------------------
(***************************************************************************)
(* SSH tunnels. The shell runs them; the tunnels page shows what it knows  *)
(* of them in React state, which is lost with the page; the registry of    *)
(* the module "runtime" is what a sign-out closes.                         *)
(***************************************************************************)
EXTENDS NativeBridge

CONSTANT Tunnel   \* rows of the vault; their id names the session of the shell
ASSUME TunnelAssumption == IsFiniteSet(Tunnel)

VARIABLES
    saved,        \* the rows that exist
    runtime,      \* the page: the status it shows
    tracked,      \* the registry
    start,        \* calls of startTunnel()
    stopping,     \* calls of stopTunnel(): tunnel, and whether its row goes next
    sync,         \* the page's reading of the shell: idle, asked or answered
    up,           \* shell: the call that opened the child that runs, or None
    forgotten     \* history: tunnels that the page took for idle while they ran,
                  \* with the patient user
                  \* or were starting, and therefore forgot

tunnelVars == <<saved, runtime, tracked, start, stopping, sync, up, forgotten>>

Start == [tunnel : Tunnel \cup {None}, here : BOOLEAN,
          at : {"idle", "keys", "auth", "sent", "opened", "refused", "thrown", "ended"}]
NoStart == [tunnel |-> None, here |-> FALSE, at |-> "idle"]
NoSync == [at |-> "idle", rows |-> {}, running |-> {}]

TunnelsTypeOK ==
    /\ saved \subseteq Tunnel /\ tracked \subseteq Tunnel
    /\ runtime \in [Tunnel -> {"none", "starting", "running", "stopping"}]
    /\ start \in [Op -> Start]
    /\ stopping \subseteq [tunnel : Tunnel, delete : BOOLEAN, here : BOOLEAN, answered : BOOLEAN]
    /\ sync \in [at : {"idle", "asked", "answered"}, rows : SUBSET Tunnel, running : SUBSET Tunnel]
    /\ up \in [Tunnel -> Op \cup {None}] /\ forgotten \subseteq Tunnel

NoRuntime == [t \in Tunnel |-> "none"]

TunnelsInit ==
    /\ saved = Tunnel /\ tracked = {} /\ stopping = {}
    /\ runtime = NoRuntime
    /\ start = [o \in Op |-> NoStart]
    /\ sync = NoSync
    /\ up = [t \in Tunnel |-> None] /\ forgotten = {}

Shown == page = "tunnels"
Starting(o) == start[o].at \notin {"idle", "thrown", "ended"}
TunnelsBusy == stopping # {} \/ \E o \in Op : Starting(o)
Lives(t) == up[t] # None \/ \E o \in Op : Starting(o) /\ start[o].tunnel = t
(* setRuntime of a page that was left does nothing: calls of its handlers  *)
(* go on, but are no longer "here".                                        *)
Show(k, status) == runtime' = IF k.here THEN [runtime EXCEPT ![k.tunnel] = status] ELSE runtime
PageGone ==
    /\ runtime' = NoRuntime /\ sync' = NoSync
    /\ start' = [o \in Op |-> [start[o] EXCEPT !.here = FALSE]]
    /\ stopping' = {[k EXCEPT !.here = FALSE] : k \in stopping}
Track(t) == tracked' = tracked \cup {t}
To(o, at) == start' = [start EXCEPT ![o].at = at]

-----------------------------------------------------------------------------
(* The status effect runs when the page appears and when the rows change;  *)
(* the answer of an earlier one is then ignored, so its command, which     *)
(* changes nothing that is seen, is taken back.                            *)
Unasked == RemoveFirst(ipc, Command("ssh_tunnel_status", None))
AskStatus(rows) ==
    IF rows = {} THEN sync' = NoSync /\ ipc' = Unasked
    ELSE /\ sync' = [at |-> "asked", rows |-> rows, running |-> {}]
         /\ ipc' = Append(Unasked, Command("ssh_tunnel_status", None))

ReadStatus ==
    /\ Run("ssh_tunnel_status", None)
    /\ sync' = [sync EXCEPT !.at = "answered", !.running = {t \in sync.rows : up[t] # None}]
    /\ UNCHANGED <<shared, ops, saved, runtime, tracked, start, stopping, up, forgotten>>

(* What runs is tracked and shown; what does not is forgotten, also what   *)
(* was started after it was read.                                          *)
ShowStatus ==
    /\ sync.at = "answered"
    /\ tracked' = (tracked \ sync.rows) \cup sync.running
    /\ runtime' = [t \in Tunnel |-> IF t \notin sync.rows THEN runtime[t]
                                    ELSE IF t \in sync.running THEN "running" ELSE "none"]
    /\ forgotten' = forgotten \cup {t \in sync.rows \ sync.running : Lives(t) /\ ~Hasty}
    /\ sync' = NoSync
    /\ UNCHANGED <<bridge, saved, start, stopping, up>>

(* Going to another page and coming back; saving a tunnel.                 *)
OpenTunnels ==
    /\ "tunnels" \in used /\ page = "other" /\ Room
    /\ page' = "tunnels"
    /\ AskStatus(saved)
    /\ UNCHANGED <<account, manner, ops, saved, runtime, tracked, start, stopping, up, forgotten>>

LeaveTunnels ==
    /\ Shown /\ Room /\ (Hasty \/ ~TunnelsBusy)
    /\ page' = "other"
    /\ PageGone /\ ipc' = Unasked
    /\ UNCHANGED <<account, manner, ops, saved, tracked, up, forgotten>>

Save(t) ==
    /\ Shown /\ Room /\ (Hasty \/ ~TunnelsBusy)
    /\ saved' = saved \cup {t}
    /\ AskStatus(saved')
    /\ UNCHANGED <<shared, ops, runtime, tracked, start, stopping, up, forgotten>>

-----------------------------------------------------------------------------
(* startTunnel                                                             *)

(* The patient user waits for a stop, and for nothing else: a tunnel whose *)
(* status is being read is shown idle and can be started, once more too.   *)
StartTunnel(t) ==
    /\ Begin /\ Shown
    /\ t \in saved /\ runtime[t] = "none"
    /\ Hasty \/ stopping = {}
    /\ start' = [start EXCEPT ![ops'] = [tunnel |-> t, here |-> TRUE, at |-> "keys"]]
    /\ runtime' = [runtime EXCEPT ![t] = "starting"]
    /\ UNCHANGED <<shared, ipc, saved, tracked, stopping, sync, up, forgotten>>

HasKeys(o) ==
    /\ start[o].at = "keys"
    /\ To(o, "auth")
    /\ UNCHANGED <<bridge, saved, runtime, tracked, stopping, sync, up, forgotten>>

(* The host key is refused or unreadable, or the host has no identity.     *)
NotStarted(o) ==
    /\ start[o].at \in {"keys", "auth"}
    /\ To(o, "ended")
    /\ Show(start[o], "none")
    /\ UNCHANGED <<bridge, saved, tracked, stopping, sync, up, forgotten>>

(* An SSH key that cannot be parsed: nothing catches that.                 *)
AuthThrows(o) ==
    /\ start[o].at = "auth"
    /\ To(o, "thrown")
    /\ UNCHANGED <<bridge, saved, runtime, tracked, stopping, sync, up, forgotten>>

HasAuthUntracked(o) ==
    /\ start[o].at = "auth"
    /\ To(o, "sent")
    /\ Invoke("ssh_tunnel_open", o)
    /\ UNCHANGED <<shared, ops, saved, runtime, tracked, stopping, sync, up, forgotten>>
HasAuth(o) ==
    /\ start[o].at = "auth"
    /\ To(o, "sent")
    /\ Track(start[o].tunnel)
    /\ Invoke("ssh_tunnel_open", o)
    /\ UNCHANGED <<shared, ops, saved, runtime, stopping, sync, up, forgotten>>

(* A child of the same tunnel is replaced.                                 *)
OpenTunnel(o) ==
    /\ Run("ssh_tunnel_open", o)
    /\ \/ To(o, "opened") /\ up' = [up EXCEPT ![start[o].tunnel] = o]
       \/ To(o, "refused") /\ UNCHANGED up
    /\ UNCHANGED <<shared, ops, saved, runtime, tracked, stopping, sync, forgotten>>

Started(o) ==
    /\ start[o].at = "opened"
    /\ To(o, "ended")
    /\ Track(start[o].tunnel)
    /\ Show(start[o], "running")
    /\ UNCHANGED <<bridge, saved, stopping, sync, up, forgotten>>

StartFailed(o) ==
    /\ start[o].at = "refused"
    /\ To(o, "ended")
    /\ Show(start[o], "none")
    /\ UNCHANGED <<bridge, saved, tracked, stopping, sync, up, forgotten>>

-----------------------------------------------------------------------------
(* stopTunnel and removeTunnel                                             *)

(* A tunnel that still starts has no session yet: only its row is cleared. *)
StopTunnel(t) ==
    /\ Shown /\ Room /\ runtime[t] # "none"
    /\ Hasty \/ ~TunnelsBusy
    /\ IF runtime[t] = "starting"
         THEN /\ runtime' = [runtime EXCEPT ![t] = "none"]
              /\ UNCHANGED <<ipc, stopping>>
         ELSE /\ runtime' = [runtime EXCEPT ![t] = "stopping"]
              /\ stopping' = stopping \cup {[tunnel |-> t, delete |-> FALSE, here |-> TRUE, answered |-> FALSE]}
              /\ Invoke("ssh_tunnel_close", t)
    /\ UNCHANGED <<shared, ops, saved, tracked, start, sync, up, forgotten>>

(* The row goes at once when the page shows the tunnel idle or starting,   *)
(* whether its child runs or not.                                          *)
RemoveTunnel(t) ==
    /\ Shown /\ Room /\ t \in saved
    /\ Hasty \/ ~TunnelsBusy
    /\ IF runtime[t] \in {"none", "starting"}
         THEN /\ saved' = saved \ {t}
              /\ runtime' = [runtime EXCEPT ![t] = "none"]
              /\ AskStatus(saved')
              /\ forgotten' = forgotten \cup {u \in {t} : up[u] # None /\ ~Hasty}
              /\ UNCHANGED stopping
         ELSE /\ runtime' = [runtime EXCEPT ![t] = "stopping"]
              /\ stopping' = stopping \cup {[tunnel |-> t, delete |-> TRUE, here |-> TRUE, answered |-> FALSE]}
              /\ Invoke("ssh_tunnel_close", t)
              /\ UNCHANGED <<saved, sync, forgotten>>
    /\ UNCHANGED <<shared, ops, tracked, start, up>>

CloseTunnel(t) ==
    /\ Run("ssh_tunnel_close", t)
    /\ up' = [up EXCEPT ![t] = None]
    /\ stopping' = {IF k.tunnel = t THEN [k EXCEPT !.answered = TRUE] ELSE k : k \in stopping}
    /\ UNCHANGED <<shared, ops, saved, runtime, tracked, start, sync, forgotten>>

Stopped(k) ==
    /\ k.answered
    /\ stopping' = stopping \ {k}
    /\ tracked' = tracked \ {k.tunnel}
    /\ Show(k, "none")
    /\ IF k.delete
         THEN /\ saved' = saved \ {k.tunnel}
              /\ IF Shown THEN AskStatus(saved') ELSE UNCHANGED <<sync, ipc>>
         ELSE UNCHANGED <<saved, sync, ipc>>
    /\ UNCHANGED <<shared, ops, start, up, forgotten>>

(* The child ends by itself: the shell says nothing of it.                 *)
TunnelExit(t) ==
    /\ up[t] # None
    /\ up' = [up EXCEPT ![t] = None]
    /\ UNCHANGED <<bridge, saved, runtime, tracked, start, stopping, sync, forgotten>>

(* closeAllTunnelSessions, of a sign-out; the guards leave the page.       *)
CloseTracked == Commands("ssh_tunnel_close", tracked)
CloseAllTunnels == tracked' = {} /\ PageGone

-----------------------------------------------------------------------------
TunnelProgress(o) ==
    \/ HasKeys(o) \/ NotStarted(o) \/ AuthThrows(o) \/ HasAuth(o)
    \/ Started(o) \/ StartFailed(o)

TunnelsNext ==
    \/ OpenTunnels \/ LeaveTunnels \/ ReadStatus \/ ShowStatus
    \/ \E o \in Op : TunnelProgress(o) \/ OpenTunnel(o)
    \/ \E t \in Tunnel : \/ Save(t) \/ StartTunnel(t) \/ StopTunnel(t) \/ RemoveTunnel(t)
                         \/ CloseTunnel(t) \/ TunnelExit(t)
    \/ \E k \in stopping : Stopped(k)

(* As for the tabs: a question about a host key may stay open.             *)
TunnelsFairness ==
    LET v == <<bridge, tunnelVars>> IN
    /\ WF_v(InUse("tunnels", \E o \in Op : start[o].at # "keys" /\ (TunnelProgress(o) \/ OpenTunnel(o))))
    /\ WF_v(InUse("tunnels", (\E t \in Tunnel : CloseTunnel(t)) \/ ReadStatus))
    /\ WF_v(InUse("tunnels", ShowStatus \/ \E k \in stopping : Stopped(k)))
=============================================================================

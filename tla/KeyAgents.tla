------------------------------ MODULE KeyAgents ------------------------------
(***************************************************************************)
(* How the desktop shell lends a private key to an ssh process: a private  *)
(* directory and an ssh-agent of its own for each operation (on Windows a  *)
(* key file), prepared step by step, owned by the session and released     *)
(* with it. The application may be quit or die at any point and be started *)
(* again; other instances of it sweep old directories. An operation has    *)
(* the number of its command.                                              *)
(***************************************************************************)
EXTENDS NativeBridge

VARIABLES
    job,          \* the operations
    app,          \* whether the application runs
    platform      \* "unix" or "windows"

agentVars == <<job, app, platform>>

(* A batch is an sftp listing, a test of a key or the installation of one: *)
(* its command returns when the child has ended.                           *)
JobKind == {"terminal", "tunnel", "transfer", "batch"}
Preparing == {"directory", "agent", "adding", "listing", "prepared"}

(* What an operation has: `agent` says whether its agent runs and holds    *)
(* the key (on Windows, whether the key file is there); `asked` what the   *)
(* server of its passphrase did.                                           *)
Job == [kind : JobKind, key : {"none", "plain", "locked"},
        at : Preparing \cup {"idle", "running", "ended", "lost"},
        dir : {"none", "new", "old"}, agent : {"none", "empty", "keyed"},
        asked : {"no", "yes", "answered"}, child : {"none", "running"}]
NoJob == [kind |-> "batch", key |-> "none", at |-> "idle", dir |-> "none", agent |-> "none",
          asked |-> "no", child |-> "none"]

AgentsTypeOK ==
    job \in [Op -> Job] /\ app \in {"up", "down"} /\ platform \in {"unix", "windows"}

AgentsInit ==
    /\ job = [o \in Op |-> NoJob] /\ app = "up"
    /\ platform \in IF "agents" \in used THEN {"unix", "windows"} ELSE {"unix"}
    /\ "agents" \in used => Hasty     \* the patient user only does less

At(o, S) == job[o].at \in S
Become(o, j) == job' = [job EXCEPT ![o] = j]
Still == UNCHANGED <<bridge, app, platform>>

(* Commands that are not async run on the main thread, one at a time; only *)
(* the terminal's runs beside it.                                          *)
MainFree ==
    /\ app = "up"
    /\ \A o \in Op : /\ At(o, Preparing) => job[o].kind = "terminal"
                     /\ At(o, {"running"}) => job[o].kind # "batch"

(* PreparedSsh is dropped: first the identity, then the directory. What    *)
(* kind of operation it was matters no more.                               *)
Past(j, at) == [j EXCEPT !.at = at, !.kind = "batch", !.key = "none", !.asked = "no"]
Over(j) == [Past(j, "ended") EXCEPT !.agent = "none", !.dir = "none"]
Killed(j) == [j EXCEPT !.child = "none"]

-----------------------------------------------------------------------------
(* PreparedSsh::prepare, LoadedIdentity::load                              *)

(* The host has approved keys, the destination is well-formed; a tunnel    *)
(* and a transfer need a key. The directory gets known_hosts and config.   *)
Prepare(kind, key) ==
    /\ "agents" \in used /\ Begin /\ MainFree
    /\ kind \in {"tunnel", "transfer"} => key # "none"
    /\ Become(ops', [NoJob EXCEPT !.kind = kind, !.key = key, !.at = "directory", !.dir = "new"])
    /\ UNCHANGED <<shared, ipc, app, platform>>

NoIdentity(o) ==
    /\ At(o, {"directory"}) /\ job[o].key = "none"
    /\ Become(o, [job[o] EXCEPT !.at = "prepared"])
    /\ Still

(* The file's timer is a thread of the application.                        *)
WriteKeyFile(o) ==
    /\ At(o, {"directory"}) /\ job[o].key # "none" /\ platform = "windows"
    /\ Become(o, [job[o] EXCEPT !.at = "prepared", !.agent = "keyed"])
    /\ Still

StartAgent(o) ==
    /\ At(o, {"directory"}) /\ job[o].key # "none" /\ platform = "unix"
    /\ Become(o, [job[o] EXCEPT !.at = "agent", !.agent = "empty"])
    /\ Still

(* The agent's socket is there. A key with a passphrase needs the server   *)
(* that answers askpass; ssh-add reads the key from a pipe.                *)
AddKey(o) ==
    /\ At(o, {"agent"})
    /\ Become(o, [job[o] EXCEPT !.at = "adding", !.asked = IF job[o].key = "locked" THEN "yes" ELSE "no"])
    /\ Still

(* The server answers one connection and stops.                            *)
AnswerAskpass(o) ==
    /\ job[o].asked = "yes"
    /\ Become(o, [job[o] EXCEPT !.asked = "answered"])
    /\ Still

KeyAdded(o) ==
    /\ At(o, {"adding"}) /\ job[o].asked # "yes"
    /\ Become(o, [job[o] EXCEPT !.at = "listing", !.agent = "keyed", !.asked = "no"])
    /\ Still

ListKey(o) ==
    /\ At(o, {"listing"}) /\ job[o].agent = "keyed"
    /\ Become(o, [job[o] EXCEPT !.at = "prepared"])
    /\ Still

(* Any of these steps, or the start of the child, fails or takes too long. *)
FailUndropped(o) ==
    /\ At(o, Preparing)
    /\ Become(o, [Past(job[o], "ended") EXCEPT !.dir = "none"])
    /\ Still
Fail(o) ==
    /\ At(o, Preparing)
    /\ Become(o, Over(job[o]))
    /\ Still

-----------------------------------------------------------------------------
(* The child process                                                       *)

(* The session is registered under its id. All tunnels here have one id:   *)
(* the one that was registered is killed and dropped.                      *)
Replaced(o, p) == p # o /\ job[o].kind = "tunnel" /\ job[p].kind = "tunnel" /\ At(p, {"running"})
Spawn(o) ==
    /\ At(o, {"prepared"})
    /\ job' = [p \in Op |-> IF p = o THEN [job[o] EXCEPT !.at = "running", !.child = "running"]
                            ELSE IF Replaced(o, p) THEN Over(Killed(job[p])) ELSE job[p]]
    /\ Still

ChildEnds(o) ==
    /\ job[o].child = "running"
    /\ Become(o, Killed(job[o]))
    /\ Still

(* The reader of a terminal, the monitor of a transfer or the command of a *)
(* batch sees the end of the child; that of a tunnel is seen when its      *)
(* status is asked for.                                                    *)
SeeEnd(o) ==
    /\ app = "up" /\ At(o, {"running"}) /\ job[o].child = "none"
    /\ job[o].kind = "tunnel" => MainFree
    /\ Become(o, Over(job[o]))
    /\ Still

(* ssh_close, ssh_tunnel_close, sftp_cancel: the monitor of a transfer     *)
(* drops what it had.                                                      *)
CloseJob(o) ==
    /\ MainFree /\ At(o, {"running"})
    /\ Become(o, IF job[o].kind = "transfer" THEN Killed(job[o]) ELSE Over(Killed(job[o])))
    /\ Still

-----------------------------------------------------------------------------
(* Time, and the end of the application                                    *)

(* KEY_LIFETIME has passed: the agent forgets the key, or the timer of the *)
(* application deletes the key file.                                       *)
Orphan(o) == platform = "windows" /\ At(o, {"lost"})
ForgetKey(o) ==
    /\ job[o].agent = "keyed" /\ ~Orphan(o)
    /\ Become(o, [job[o] EXCEPT !.agent = IF platform = "unix" THEN "empty" ELSE "none"])
    /\ Still

(* The directory is a minute older than that (the preparation took less).  *)
GrowOld(o) ==
    /\ job[o].dir = "new" /\ ~At(o, Preparing)
    /\ job[o].agent = "keyed" => Orphan(o)
    /\ Become(o, [job[o] EXCEPT !.dir = "old"])
    /\ Still

(* sweep_stale_dirs, at the start of this instance or of another one.      *)
Swept(j) ==
    IF j.dir = "old" THEN [j EXCEPT !.dir = "none", !.agent = IF platform = "windows" THEN "none" ELSE @] ELSE j
SweepStaleDirs ==
    /\ \E o \in Op : job[o].dir = "old"
    /\ job' = [o \in Op |-> Swept(job[o])]
    /\ Still

StartApp ==
    /\ app = "down"
    /\ app' = "up" /\ job' = [o \in Op |-> Swept(job[o])]
    /\ UNCHANGED <<bridge, platform>>

(* What the threads of the application had under way is lost; a key that   *)
(* was given to ssh-add may still be added.                                *)
Abandoned(j) ==
    {Past(j, "lost")} \cup
    (IF j.at = "adding" /\ j.asked # "yes" THEN {[Past(j, "lost") EXCEPT !.agent = "keyed"]} ELSE {})
Died(j) == IF j.at \in Preparing \cup {"running"} THEN Abandoned(j) ELSE {j}
Crash ==
    /\ "agents" \in used /\ app = "up"
    /\ app' = "down"
    /\ job' \in {f \in [Op -> UNION {Died(job[o]) : o \in Op}] : \A o \in Op : f[o] \in Died(job[o])}
    /\ UNCHANGED <<bridge, platform>>

(* RunEvent::Exit: close_all_sessions, cancel_all. The monitors have two   *)
(* seconds. A terminal that is being prepared is on a thread of its own.   *)
Finish(j) ==
    IF j.at # "running" THEN Died(j)
    ELSE {Over(Killed(j))} \cup (IF j.kind = "transfer" THEN Abandoned(Killed(j)) ELSE {})
Quit ==
    /\ "agents" \in used /\ MainFree
    /\ app' = "down"
    /\ job' \in {f \in [Op -> UNION {Finish(job[o]) : o \in Op}] : \A o \in Op : f[o] \in Finish(job[o])}
    /\ UNCHANGED <<bridge, platform>>

-----------------------------------------------------------------------------
PrepareStep(o) ==
    \/ NoIdentity(o) \/ WriteKeyFile(o) \/ StartAgent(o) \/ AddKey(o) \/ AnswerAskpass(o)
    \/ KeyAdded(o) \/ ListKey(o) \/ Spawn(o)

AgentsNext ==
    \/ \E kind \in JobKind, key \in {"none", "plain", "locked"} : Prepare(kind, key)
    \/ \E o \in Op : \/ PrepareStep(o) \/ Fail(o) \/ ChildEnds(o) \/ SeeEnd(o) \/ CloseJob(o)
                     \/ ForgetKey(o) \/ GrowOld(o)
    \/ SweepStaleDirs \/ StartApp \/ Crash \/ Quit

(* Each step of a preparation has a deadline or is local (so is ssh-add -L,*)
(* which has none: it asks the own agent); clocks go on. An operation      *)
(* takes finitely many of them, so this gives each its turn.               *)
AgentsFairness ==
    WF_<<bridge, agentVars>>(InUse("agents", \E o \in Op : PrepareStep(o) \/ Fail(o) \/ ForgetKey(o)))

(* An operation that ended, in whatever way and after whatever step of its *)
(* preparation, leaves no directory, no agent, no server that would tell a *)
(* passphrase and no child; a tunnel that was opened anew runs once.       *)
NothingIsLeftBehind ==
    /\ \A o \in Op : At(o, {"idle", "ended"}) =>
         /\ job[o].dir = "none" /\ job[o].agent = "none"
         /\ job[o].asked = "no" /\ job[o].child = "none"
    /\ Cardinality({o \in Op : job[o].kind = "tunnel" /\ At(o, {"running"})}) <= 1

(* No agent keeps a key for ever, also when the application died: all that *)
(* can stay is the key file of Windows, until a later start finds it old.  *)
KeysAreForgotten == \A o \in Op : job[o].agent = "keyed" => Orphan(o)

(* And no preparation waits for ever.                                      *)
NothingPrepares == \A o \in Op : ~At(o, Preparing)
=============================================================================

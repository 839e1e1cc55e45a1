---------------------------- MODULE NativeBridge -----------------------------
(***************************************************************************)
(* What the terminal tabs, the tunnels and the transfers of the desktop    *)
(* client share: the account that is signed in, and the commands that the  *)
(* webview has sent to the desktop shell and that the shell has not run.   *)
(* A Tauri command declared "fn" runs on the main thread of the shell, in  *)
(* the order of the calls; one declared "async fn" runs beside it.         *)
(***************************************************************************)
EXTENDS Naturals, SequencesExt

CONSTANTS
    MaxOps,       \* bound: connects, tunnel starts and transfers, together
    MaxAccount,   \* bound: sign-outs; the next account signs in before it acts
    MaxIpc,       \* bound: commands that wait when the user acts again
    Pace,         \* what Init chooses from: "patient", "hasty"
    Use           \* what Init chooses from: sets of the parts below

ASSUME NativeBridgeAssumption ==
    /\ MaxOps \in Nat /\ MaxAccount \in Nat /\ MaxIpc \in Nat
    /\ Pace \subseteq {"patient", "hasty"}
    /\ Use \subseteq SUBSET {"tabs", "tunnels", "transfers", "records", "keys", "agents", "panes", "assistant", "web", "editor", "listing", "settings", "pipes"}

VARIABLES
    account,      \* how many sessions were signed out before this one
    ops,          \* operations begun so far; an operation is named by its number
    ipc,          \* commands waiting for the main thread
    page,         \* the route that is shown: "tunnels", "sftp" or another
    pace,         \* whether the user waits for what is under way
    used          \* the parts of the client that the user works with

manner == <<pace, used>>
shared == <<account, page, manner>>
bridge == <<shared, ops, ipc>>

Op == 1 .. MaxOps
None == 0

BridgeTypeOK ==
    /\ account \in 0 .. MaxAccount
    /\ ops \in 0 .. MaxOps
    /\ page \in {"tunnels", "sftp", "other"} /\ pace \in Pace /\ used \in Use

BridgeInit ==
    /\ account = 0
    /\ ops = 0 /\ ipc = <<>>
    /\ page = "other" /\ pace \in Pace /\ used \in Use

Room == Len(ipc) < MaxIpc
Begin == Room /\ ops < MaxOps /\ ops' = ops + 1
Hasty == pace = "hasty"

(* A step of a part that is in use, for the fairness of that part.         *)
InUse(part, step) == part \in used /\ step

(* Calls from the webview, and the call whose turn it is.                  *)
Command(c, id) == [cmd |-> c, id |-> id]
Sent(c, id) == \E i \in DOMAIN ipc : ipc[i] = Command(c, id)
Commands(c, ids) == SetToSeq({Command(c, id) : id \in ids})
Invoke(c, id) == ipc' = Append(ipc, Command(c, id))
Run(c, id) == ipc # <<>> /\ Head(ipc) = Command(c, id) /\ ipc' = Tail(ipc)
=============================================================================

------------------------------ MODULE Transfers ------------------------------
(***************************************************************************)
(* SFTP uploads and downloads: the list of the client, the child process   *)
(* and the monitor thread of the shell, and the events between them, which *)
(* only the SFTP page hears. A transfer has the number of its operation.   *)
(***************************************************************************)
EXTENDS NativeBridge

VARIABLES
    items,        \* the list: the status of each transfer, or "absent"
    reply,        \* what the upload or download command came to
    process,      \* shell: the child and what its monitor has seen of it
    owner,        \* the account that began it
    events        \* "sftp://transfer" events on their way

transferVars == <<items, reply, process, owner, events>>

Unfinished == {"pending", "active"}
Final == {"done", "error", "cancelled"}

TransfersTypeOK ==
    /\ items \in [Op -> Unfinished \cup Final \cup {"absent"}]
    /\ reply \in [Op -> {"none", "waiting", "started", "refused"}]
    /\ process \in [Op -> {"none", "running", "reported"} \cup Final]
    /\ owner \in [Op -> 0 .. MaxAccount]
    /\ \A i \in DOMAIN events : events[i] \in [id : Op, state : {"started"} \cup Final]

TransfersInit ==
    /\ items = [o \in Op |-> "absent"]
    /\ reply = [o \in Op |-> "none"] /\ process = [o \in Op |-> "none"]
    /\ owner = [o \in Op |-> 0]
    /\ events = <<>>

(* updateById: a transfer that is not listed stays so.                     *)
Mark(o, status) == items' = IF items[o] = "absent" THEN items ELSE [items EXCEPT ![o] = status]
Emit(o, state) == events' = Append(events, [id |-> o, state |-> state])
StatusOfRaw(state) == state
StatusOf(state) == IF state = "started" THEN "active" ELSE state

OpenSftp ==
    /\ "transfers" \in used /\ page = "other"
    /\ page' = "sftp"
    /\ UNCHANGED <<account, manner, ops, ipc, transferVars>>

(* The patient user stays until the list shows the end of every transfer.  *)
LeaveSftp ==
    /\ page = "sftp"
    /\ Hasty \/ \A o \in Op : items[o] \notin Unfinished
    /\ page' = "other"
    /\ UNCHANGED <<account, manner, ops, ipc, transferVars>>

(* uploadEntry, downloadEntry                                              *)
Transfer ==
    /\ Begin /\ page = "sftp"
    /\ items' = [items EXCEPT ![ops'] = "pending"]
    /\ reply' = [reply EXCEPT ![ops'] = "waiting"]
    /\ owner' = [owner EXCEPT ![ops'] = account]
    /\ Invoke("sftp_transfer", ops')
    /\ UNCHANGED <<shared, process, events>>

(* The event leaves before the monitor thread starts.                      *)
SpawnTransferLate(o) ==
    /\ Run("sftp_transfer", o)
    /\ reply' = [reply EXCEPT ![o] = "started"]
    /\ process' = [process EXCEPT ![o] = "done"]
    /\ events' = events \o <<[id |-> o, state |-> "done"], [id |-> o, state |-> "started"]>>
    /\ UNCHANGED <<shared, ops, items, owner>>
SpawnTransfer(o) ==
    /\ Run("sftp_transfer", o)
    /\ \/ /\ reply' = [reply EXCEPT ![o] = "started"]
          /\ process' = [process EXCEPT ![o] = "running"]
          /\ Emit(o, "started")
       \/ /\ reply' = [reply EXCEPT ![o] = "refused"]
          /\ UNCHANGED <<process, events>>
    /\ UNCHANGED <<shared, ops, items, owner>>

Refusal(o) ==
    /\ reply[o] = "refused"
    /\ reply' = [reply EXCEPT ![o] = "none"]
    /\ Mark(o, "error")
    /\ UNCHANGED <<bridge, process, owner, events>>

(* The child exits, or is killed by a cancel that finds it running.        *)
TransferExit(o) ==
    /\ process[o] = "running"
    /\ process' = [process EXCEPT ![o] = "done"] \/ process' = [process EXCEPT ![o] = "error"]
    /\ UNCHANGED <<bridge, items, reply, owner, events>>

CancelTransfer(o) ==
    /\ Run("sftp_cancel", o)
    /\ process' = [process EXCEPT ![o] = IF @ = "running" THEN "cancelled" ELSE @]
    /\ UNCHANGED <<shared, ops, items, reply, owner, events>>

Monitor(o) ==
    /\ process[o] \in Final
    /\ process' = [process EXCEPT ![o] = "reported"]
    /\ Emit(o, process[o])
    /\ UNCHANGED <<bridge, items, reply, owner>>

Hear ==
    /\ events # <<>>
    /\ events' = Tail(events)
    /\ IF page = "sftp" THEN Mark(Head(events).id, StatusOf(Head(events).state)) ELSE UNCHANGED items
    /\ UNCHANGED <<bridge, reply, process, owner>>

(* The cross in the list takes a transfer off it, and does not cancel it.  *)
RemoveTransfer(o) ==
    /\ page = "sftp" /\ items[o] # "absent"
    /\ Hasty \/ items[o] \in Final
    /\ items' = [items EXCEPT ![o] = "absent"]
    /\ UNCHANGED <<bridge, reply, process, owner, events>>

(* The part of a sign-out.                                                 *)
CancelListed == Commands("sftp_cancel", {o \in Op : items[o] \in Unfinished})
EmptyList == items' = [o \in Op |-> "absent"]

-----------------------------------------------------------------------------
TransferStep(o) == SpawnTransfer(o) \/ Refusal(o) \/ CancelTransfer(o) \/ Monitor(o)

TransfersNext ==
    \/ OpenSftp \/ LeaveSftp \/ Transfer \/ Hear
    \/ \E o \in Op : TransferStep(o) \/ TransferExit(o) \/ RemoveTransfer(o)

(* The child itself may hang.                                              *)
TransfersFairness ==
    LET v == <<bridge, transferVars>> IN
    WF_v(InUse("transfers", Hear)) /\ WF_v(InUse("transfers", \E o \in Op : TransferStep(o)))
=============================================================================

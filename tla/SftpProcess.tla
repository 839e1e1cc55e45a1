------------------------------ MODULE SftpProcess ------------------------------
(***************************************************************************)
(* One sftp child of the desktop shell, for a transfer or for a listing:   *)
(* the batch it is fed, the threads that drain its two pipes, the thread   *)
(* that waits for it, a cancel beside them, and the mutex under which the  *)
(* exit or the cancel is recorded. The output is counted in pieces of      *)
(* MAX_CAPTURED_BYTES, numbered as they are written.                       *)
(***************************************************************************)
EXTENDS NativeBridge

VARIABLES
    sftpChild,    \* the child: where it is, and what it wrote
    pipes,        \* what is written and not yet read
    heirs,        \* a grandchild holds the pipes open
    captures,     \* what the draining threads keep, and whether they ended
    recorded,     \* under the mutex: the phase
    mutex,        \* who holds it: nobody, or a cancel
    waiter,       \* wait_for_exit(), and what it returned
    canceller     \* the cancel that was answered last

pieceVars == <<pipes, captures>>
childVars == <<sftpChild, heirs>>
pipeVars == <<pieceVars, childVars, recorded, mutex, waiter, canceller>>

(* Bounds: the pieces of each stream; the pipe of the system; two pieces   *)
(* are kept at the end, where the code keeps one of a larger size.         *)
Stream == {"stdout", "stderr"}
Pieces == [stdout |-> 6, stderr |-> 2]
PipeSize == 1
MaxCaptured == 2

Untold == [kind |-> "none", out |-> <<>>, full |-> FALSE]
Unwritten == [s \in Stream |-> 0]
Captured(s) == captures[s]

PipesTypeOK ==
    /\ sftpChild \in [at : {"none", "running", "exited", "killed"}, wrote : [Stream -> 0 .. 6]]
    /\ \A s \in Stream : Len(pipes[s]) <= PipeSize /\ Len(Captured(s).kept) <= 2 * MaxCaptured
    /\ heirs \in BOOLEAN
    /\ recorded \in {"running", "exited", "cancelled"} /\ mutex \in {"free", "cancel"}
    /\ waiter.at \in {"none", "feeding", "polling", "collecting", "told"}
    /\ waiter.outcome.kind \in {"none", "unfed", "exited", "cancelled", "waiterror"}
    /\ canceller \in {"none", "killing", "cancelled", "finished"}

NoChild == [at |-> "none", wrote |-> Unwritten]
NothingDrained == [s \in Stream |-> [kept |-> <<>>, done |-> FALSE]]
NotWaiting == [at |-> "none", outcome |-> Untold]
PipesInit ==
    /\ sftpChild = NoChild /\ heirs = FALSE
    /\ pipes = [s \in Stream |-> <<>>] /\ captures = NothingDrained
    /\ recorded = "running" /\ mutex = "free"
    /\ waiter = NotWaiting /\ canceller = "none"

-----------------------------------------------------------------------------
(* The child, which may hang, and the system                               *)

Alive == sftpChild.at = "running"
WritePiece(s) ==
    /\ Alive /\ sftpChild.wrote[s] < Pieces[s] /\ Len(pipes[s]) < PipeSize
    /\ sftpChild' = [sftpChild EXCEPT !.wrote[s] = @ + 1]
    /\ pipes' = [pipes EXCEPT ![s] = Append(@, sftpChild'.wrote[s])]
    /\ UNCHANGED <<bridge, captures, heirs, recorded, mutex, waiter, canceller>>

ExitChild ==
    /\ Alive
    /\ sftpChild' = [sftpChild EXCEPT !.at = "exited"] /\ heirs' \in BOOLEAN
    /\ UNCHANGED <<bridge, pieceVars, recorded, mutex, waiter, canceller>>
HeirEnds ==
    /\ heirs /\ heirs' = FALSE
    /\ UNCHANGED <<bridge, pieceVars, sftpChild, recorded, mutex, waiter, canceller>>
Kill == sftpChild' = IF Alive THEN [sftpChild EXCEPT !.at = "killed"] ELSE sftpChild

(* The threads that drain the pipes.                                       *)
Kept(k) == IF Len(k) > 2 * MaxCaptured THEN SubSeq(k, Len(k) - MaxCaptured + 1, Len(k)) ELSE k
Drain(s) ==
    /\ pipes[s] # <<>>
    /\ pipes' = [pipes EXCEPT ![s] = Tail(@)]
    /\ captures' = [captures EXCEPT ![s].kept = Kept(Append(@, Head(pipes[s])))]
    /\ UNCHANGED <<bridge, childVars, recorded, mutex, waiter, canceller>>
EndOfFile(s) ==
    /\ sftpChild.at \in {"exited", "killed"} /\ ~heirs /\ pipes[s] = <<>> /\ ~Captured(s).done
    /\ captures' = [captures EXCEPT ![s].done = TRUE]
    /\ UNCHANGED <<bridge, pipes, childVars, recorded, mutex, waiter, canceller>>
Snapshot(s) == LET k == Captured(s).kept IN
    IF Len(k) > MaxCaptured THEN SubSeq(k, Len(k) - MaxCaptured + 1, Len(k)) ELSE k

-----------------------------------------------------------------------------
(* TransferProcess                                                         *)

(* How fast the user is makes no difference here.                          *)
SpawnChild ==
    /\ ~Hasty /\ sftpChild.at = "none"
    /\ sftpChild' = [sftpChild EXCEPT !.at = "running"]
    /\ waiter' = [waiter EXCEPT !.at = "feeding"]
    /\ UNCHANGED <<bridge, pieceVars, heirs, recorded, mutex, canceller>>

TellWaiter(outcome) == waiter' = [at |-> "told", outcome |-> outcome]
TellEnd(kind) == TellWaiter([Untold EXCEPT !.kind = kind])

(* The batch cannot be written to a child that is gone or closed its end.  *)
Feed ==
    /\ waiter.at = "feeding"
    /\ waiter' = [waiter EXCEPT !.at = "polling"]
    /\ UNCHANGED <<bridge, pieceVars, childVars, recorded, mutex, canceller>>
NotFed ==
    /\ waiter.at = "feeding"
    /\ Kill /\ recorded' = IF Alive THEN "cancelled" ELSE "exited"
    /\ TellEnd("unfed")
    /\ UNCHANGED <<bridge, pieceVars, heirs, mutex, canceller>>

(* A turn of wait_for_exit(), under the mutex. It may fail to observe the  *)
(* child, and ends it then.                                                *)
Poll ==
    /\ waiter.at = "polling" /\ mutex = "free"
    /\ \/ recorded = "cancelled" /\ TellEnd("cancelled") /\ UNCHANGED recorded
       \/ /\ recorded = "exited" \/ ~Alive
          /\ recorded # "cancelled" /\ recorded' = "exited"
          /\ waiter' = [waiter EXCEPT !.at = "collecting"]
    /\ UNCHANGED <<bridge, pieceVars, childVars, mutex, canceller>>
Unobserved ==
    /\ waiter.at = "polling" /\ mutex = "free" /\ recorded = "running"
    /\ Kill /\ recorded' = "cancelled" /\ TellEnd("waiterror")
    /\ UNCHANGED <<bridge, pieceVars, heirs, mutex, canceller>>

(* Until both pipes are drained, or two seconds.                           *)
Drained == \A s \in Stream : Captured(s).done
TellExited == TellWaiter([kind |-> "exited", out |-> Snapshot("stdout"), full |-> Drained])
CollectOutput ==
    /\ waiter.at = "collecting" /\ Drained /\ TellExited
    /\ UNCHANGED <<bridge, pieceVars, childVars, recorded, mutex, canceller>>
GraceOver ==
    /\ waiter.at = "collecting" /\ ~Drained /\ TellExited
    /\ UNCHANGED <<bridge, pieceVars, childVars, recorded, mutex, canceller>>

(* cancel(): it looks at the child, kills it and waits for it, and holds   *)
(* the mutex meanwhile. A child that is not registered yet has none.       *)
Cancel ==
    /\ waiter.at \in {"polling", "collecting", "told"} /\ waiter.outcome.kind # "unfed"
    /\ mutex = "free" /\ canceller = "none"
    /\ CASE recorded = "cancelled" -> canceller' = "cancelled" /\ UNCHANGED <<recorded, mutex>>
         [] recorded = "exited" -> canceller' = "finished" /\ UNCHANGED <<recorded, mutex>>
         [] recorded = "running" /\ ~Alive -> canceller' = "finished" /\ recorded' = "exited" /\ UNCHANGED mutex
         [] OTHER -> canceller' = "killing" /\ mutex' = "cancel" /\ UNCHANGED recorded
    /\ UNCHANGED <<bridge, pieceVars, childVars, waiter>>
KillChild ==
    /\ canceller = "killing"
    /\ Kill /\ recorded' = "cancelled" /\ mutex' = "free" /\ canceller' = "cancelled"
    /\ UNCHANGED <<bridge, pieceVars, heirs, waiter>>

(* The next one. Its predecessor's threads keep nothing of it.             *)
NextChild ==
    /\ waiter.at = "told" /\ canceller # "killing"
    /\ sftpChild' = NoChild /\ heirs' = FALSE
    /\ pipes' = [s \in Stream |-> <<>>] /\ captures' = NothingDrained
    /\ recorded' = "running" /\ waiter' = NotWaiting /\ canceller' = "none"
    /\ UNCHANGED <<bridge, mutex>>

-----------------------------------------------------------------------------
PipeStep ==
    \/ \E s \in Stream : Drain(s) \/ EndOfFile(s)
    \/ Feed \/ Poll \/ CollectOutput \/ GraceOver \/ KillChild

PipesNext ==
    \/ PipeStep \/ SpawnChild \/ NotFed \/ Unobserved \/ Cancel \/ NextChild
    \/ \E s \in Stream : WritePiece(s)
    \/ ExitChild \/ HeirEnds

(* Threads of the shell run, and two seconds pass.                         *)
PipesFairness ==
    LET v == <<bridge, pipeVars>> IN
    /\ \A s \in Stream : WF_v(InUse("pipes", Drain(s))) /\ WF_v(InUse("pipes", EndOfFile(s)))
    /\ WF_v(InUse("pipes", Feed \/ Poll \/ CollectOutput \/ GraceOver)) /\ WF_v(InUse("pipes", KillChild))

(* A child whose end was told is gone; an answered cancel agrees with what *)
(* the monitor tells; what is told as ended by itself was not killed; and  *)
(* the output that is told is the end of what the child wrote, without a   *)
(* gap, up to the last piece unless a grandchild held the pipe or the time *)
(* was over. (What is told as cancelled may have ended by itself: see      *)
(* CompletedIsNotCancelled.)                                               *)
LastPieces(n) == LET k == IF n < MaxCaptured THEN n ELSE MaxCaptured IN [i \in 1 .. k |-> n - k + i]
OutcomesAgree ==
    /\ waiter.at = "told" => sftpChild.at \in {"exited", "killed"}
    /\ waiter.outcome.kind = "exited" =>
         /\ sftpChild.at = "exited" /\ recorded = "exited"
         /\ \E n \in 0 .. sftpChild.wrote["stdout"] :
              waiter.outcome.out = LastPieces(n) /\ (waiter.outcome.full => n = sftpChild.wrote["stdout"])
    /\ canceller = "cancelled" => recorded = "cancelled" /\ waiter.outcome.kind \in {"none", "cancelled", "waiterror"}
    /\ canceller = "finished" => recorded = "exited" /\ waiter.outcome.kind \in {"none", "exited"}

(* What sftp_process.rs says of the phase that is recorded first: "a       *)
(* completed one is never reported cancelled". A child that ends between   *)
(* the look of cancel() at it and the kill is (README, section 3).         *)
CompletedIsNotCancelled == sftpChild.at = "exited" => waiter.outcome.kind # "cancelled" /\ canceller # "cancelled"

(* The child is not held up by a full pipe, and who waits for a child that *)
(* is gone is told.                                                        *)
PipesFlow ==
    /\ \A s \in Stream : Len(pipes[s]) < PipeSize
    /\ sftpChild.at \in {"exited", "killed"} => waiter.at = "told"
=============================================================================

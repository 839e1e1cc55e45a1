------------------------------- MODULE HostKeys -------------------------------
(***************************************************************************)
(* The approval of SSH host keys: useHostKeyGate(), which every desktop    *)
(* feature asks before it connects, the one dialog of HostKeyPrompt, and   *)
(* the check that the shell makes. Each use of the gate is an operation,   *)
(* cut where it waits: for the scan, for the user, for the vault.          *)
(* A server has one key at a time and a record one pin.                    *)
(***************************************************************************)
EXTENDS NativeBridge

CONSTANTS Host, Key

ASSUME HostKeysAssumption == Host # {} /\ Key # {}

VARIABLES
    presents,     \* the key of each server
    pinned,       \* the pin in the vault record of each host
    seen,         \* the pin in the host that the pages hold: a cached list, a tab
    writable,     \* canPersistPins(): the record can be updated from here
    sessionApprovals, \* the pins approved since the app was started
    prompt,       \* the dialog: who asks, in which mode, and the key it shows
    gate,         \* the uses of the gate
    trusted,      \* history: the keys that the user accepted, or found pinned
    decided       \* history: the key accepted last, unless its save failed

keyring == <<presents, pinned, seen, writable, sessionApprovals>>
said == <<trusted, decided>>
hostKeyVars == <<keyring, prompt, gate, said>>

NoKey == "none"
Maybe == Key \cup {NoKey}
NoPrompt == [by |-> None, mode |-> "none", host |-> NoKey, key |-> NoKey]
NoUse == [for |-> "none", host |-> NoKey, before |-> NoKey, key |-> NoKey,
          persist |-> FALSE, at |-> "ended"]

KeysTypeOK ==
    /\ presents \in [Host -> Key]
    /\ {pinned, seen, sessionApprovals, decided} \subseteq [Host -> Maybe]
    /\ writable \in BOOLEAN /\ trusted \subseteq Host \X Key
    /\ prompt = NoPrompt \/ prompt \in
         [by : Op, mode : {"approve", "replace", "changed"}, host : Host, key : Key]
    /\ gate \in [Op ->
         [for : {"none", "connect", "verify"}, host : Host \cup {NoKey}, before : Maybe, key : Maybe,
          persist : BOOLEAN, at : {"scan", "ask", "save", "use", "ended"}]]

FirstKey == CHOOSE k \in Key : TRUE
FirstHost == CHOOSE h \in Host : TRUE     \* bound: it is used first, and only its key changes
KeysInit ==
    /\ presents = [h \in Host |-> FirstKey]
    /\ \E p \in {NoKey, FirstKey} : pinned = [h \in Host |-> p]
    /\ seen = pinned
    /\ writable \in BOOLEAN
    /\ "keys" \in used \/ (pinned = presents /\ writable)
    /\ sessionApprovals = [h \in Host |-> NoKey] /\ decided = sessionApprovals
    /\ trusted = {<<h, pinned[h]>> : h \in {x \in Host : pinned[x] # NoKey}}
    /\ prompt = NoPrompt /\ gate = [o \in Op |-> NoUse]

Checking == "keys" \in used /\ account = 0
Waiting(o) == gate[o].at = "ask"
Ended(o) == [gate EXCEPT ![o] = NoUse]
Alone == \A o \in Op : gate[o].at = "ended"

(* effectivePins: an approval of this session, or what the record says.    *)
effectivePins(h, saved) == IF sessionApprovals[h] # NoKey THEN sessionApprovals[h] ELSE saved

-----------------------------------------------------------------------------
(* The prompt                                                              *)

(* ask(): a newer question replaces the older one, which counts as         *)
(* declined. The question of "changed" is nobody's.                        *)
AskBeside(g, o, mode, k) ==
    /\ prompt' = [by |-> o, mode |-> mode, host |-> gate[o].host, key |-> k]
    /\ gate' = g
AskAccepts(g, o, mode, k) ==
    /\ prompt' = [by |-> o, mode |-> mode, host |-> gate[o].host, key |-> k]
    /\ gate' = [p \in Op |-> IF p # o /\ Waiting(p) THEN [g[p] EXCEPT !.at = "use"] ELSE g[p]]
Ask(g, o, mode, k) ==
    /\ prompt' = [by |-> o, mode |-> mode, host |-> gate[o].host, key |-> k]
    /\ gate' = [p \in Op |-> IF p # o /\ Waiting(p) THEN NoUse ELSE g[p]]

(* The pins are stored in the vault first, if that is possible, and        *)
(* remembered for the session then.                                        *)
Remembered(h, k) == sessionApprovals' = [sessionApprovals EXCEPT ![h] = k]
Approved(o) == IF gate[o].at = "ask" /\ gate[o].persist THEN [gate[o] EXCEPT !.at = "save"]
               ELSE IF gate[o].for = "connect" THEN [gate[o] EXCEPT !.at = "use"] ELSE NoUse

Trust ==
    LET o == prompt.by IN
    /\ prompt.mode \in {"approve", "replace"}
    /\ prompt' = NoPrompt
    /\ gate' = [gate EXCEPT ![o] = Approved(o)]
    /\ IF gate[o].persist THEN UNCHANGED sessionApprovals ELSE Remembered(prompt.host, prompt.key)
    /\ trusted' = trusted \cup {<<prompt.host, prompt.key>>}
    /\ decided' = [decided EXCEPT ![prompt.host] = prompt.key]
    /\ UNCHANGED <<bridge, presents, pinned, seen, writable>>

Decline ==
    /\ prompt # NoPrompt
    /\ prompt' = NoPrompt
    /\ gate' = IF prompt.mode = "changed" THEN gate ELSE Ended(prompt.by)
    /\ UNCHANGED <<bridge, keyring, said>>

-----------------------------------------------------------------------------
(* ensureHostKeys and verifyFromEditor                                     *)

Enter(what) == \E h \in Host :
    /\ Begin /\ Checking
    /\ Hasty \/ (Alone /\ prompt = NoPrompt)
    /\ ops = 0 => h = FirstHost
    /\ LET pins == effectivePins(h, seen[h]) IN
       gate' = [gate EXCEPT ![ops'] =
         [for |-> what, host |-> h, before |-> seen[h], persist |-> writable,
          key |-> IF what = "connect" THEN pins ELSE NoKey,
          at |-> IF what = "connect" /\ pins # NoKey THEN "use" ELSE "scan"]]
    /\ UNCHANGED <<shared, ipc, keyring, prompt, said>>
EnsureHostKeys == Enter("connect")
VerifyFromEditor == Enter("verify")

(* The answer of ssh-keyscan.                                              *)
Scanned(o) ==
    LET h == gate[o].host
        k == presents[h]
        pins == IF gate[o].for = "connect" THEN NoKey ELSE effectivePins(h, gate[o].before)
    IN
    /\ gate[o].at = "scan"
    /\ IF pins = k THEN gate' = Ended(o) /\ UNCHANGED prompt
       ELSE Ask([gate EXCEPT ![o].at = "ask", ![o].key = k], o,
                IF pins = NoKey THEN "approve" ELSE "replace", k)
    /\ UNCHANGED <<bridge, keyring, said>>
ScanFailed(o) ==
    /\ gate[o].at = "scan"
    /\ gate' = Ended(o)
    /\ UNCHANGED <<bridge, keyring, prompt, said>>

(* saveHostKeys(): a save that failed leaves nothing remembered, although  *)
(* the record may have been stored.                                        *)
Saved(o) ==
    /\ gate[o].at = "save"
    /\ pinned' = [pinned EXCEPT ![gate[o].host] = gate[o].key]
    /\ Remembered(gate[o].host, gate[o].key)
    /\ gate' = [gate EXCEPT ![o] = Approved(o)]
    /\ UNCHANGED <<bridge, presents, seen, writable, prompt, said>>
SaveFailed(o) ==
    /\ gate[o].at = "save"
    /\ pinned' \in {pinned, [pinned EXCEPT ![gate[o].host] = gate[o].key]}
    /\ gate' = Ended(o)
    /\ decided' = [decided EXCEPT ![gate[o].host] = NoKey]
    /\ UNCHANGED <<bridge, presents, seen, writable, sessionApprovals, prompt, trusted>>

(* The session is opened with the pins that the gate returned; the server  *)
(* has to present them (check_presented_keys, known_hosts). handleHostKey- *)
(* Error shows the mismatch and waits for nothing.                         *)
Admits(o) == presents[gate[o].host] = gate[o].key
Admitted(o) ==
    /\ gate[o].at = "use" /\ Admits(o)
    /\ gate' = Ended(o)
    /\ UNCHANGED <<bridge, keyring, prompt, said>>
HandleHostKeyError(o) ==
    /\ gate[o].at = "use" /\ ~Admits(o)
    /\ Ask(Ended(o), o, "changed", presents[gate[o].host])
    /\ UNCHANGED <<bridge, keyring, said>>

-----------------------------------------------------------------------------
(* Others: the first server gets a new key, another device stores a pin    *)
(* for it, and the list of hosts is read anew.                             *)
Rekey ==
    /\ Checking
    /\ \E k \in Key \ {presents[FirstHost]} : presents' = [presents EXCEPT ![FirstHost] = k]
    /\ UNCHANGED <<bridge, pinned, seen, writable, sessionApprovals, prompt, gate, said>>
PinnedElsewhere ==
    LET h == FirstHost IN
    /\ Checking /\ pinned[h] # presents[h]
    /\ pinned' = [pinned EXCEPT ![h] = presents[h]]
    /\ trusted' = trusted \cup {<<h, presents[h]>>}
    /\ UNCHANGED <<bridge, presents, seen, writable, sessionApprovals, prompt, gate, decided>>
HostsRead ==
    /\ Checking /\ seen # pinned
    /\ seen' = pinned
    /\ UNCHANGED <<bridge, presents, pinned, writable, sessionApprovals, prompt, gate, said>>

-----------------------------------------------------------------------------
KeysNext ==
    \/ Trust \/ Decline \/ EnsureHostKeys \/ VerifyFromEditor
    \/ Rekey \/ PinnedElsewhere \/ HostsRead
    \/ \E o \in Op : \/ Scanned(o) \/ ScanFailed(o) \/ Saved(o) \/ SaveFailed(o)
                     \/ Admitted(o) \/ HandleHostKeyError(o)

-----------------------------------------------------------------------------
(* Who waits for the user has its question on the screen: each of two      *)
(* features that ask at once, about the same host or about two, gets an    *)
(* answer, and no connect stays open for a dialog that is gone.            *)
AskersAreShown == \A o \in Op : Waiting(o) => prompt.by = o /\ prompt.key = gate[o].key

(* A session is opened only with a key that the user accepted while it was *)
(* on the screen, for that host, or that the vault has: also when another  *)
(* question came in between, or the server got a new key meanwhile.        *)
OnlyTrustedKeys == \A o \in Op : gate[o].at = "use" => <<gate[o].host, gate[o].key>> \in trusted

(* "An approval made in this app session wins (it is the user's latest     *)
(* decision)": who does one thing at a time connects with the key that he  *)
(* accepted last, also with a host that was read before he did.            *)
LatestDecision ==
    pace = "patient" => \A o \in Op :
        gate[o].at = "use" /\ decided[gate[o].host] # NoKey => gate[o].key = decided[gate[o].host]
=============================================================================

---------------------------- MODULE ClientSession ----------------------------
(***************************************************************************)
(* The session of one running client: the auth and vault stores, the       *)
(* singleton API client, the two values that outlive a restart (server URL *)
(* and refresh token) and the asynchronous operations that share them.     *)
(* Each operation is cut at the awaits that reach storage, the native      *)
(* bridge or the network; what runs between two of them is one action.     *)
(* Storage may refuse whatever it is asked: then it is as it was.          *)
(* A server is what the client speaks to and the account it has there: a   *)
(* vault key or the vault material is named by its server.                 *)
(***************************************************************************)
EXTENDS Naturals, FiniteSets

CONSTANTS
    Server,       \* servers the user may connect to
    None,
    MaxSession,   \* bound: sign-ins
    MaxGen,       \* bound: refresh tokens of one sign-in
    MaxEpoch,     \* bound: sign-outs between two restarts
    Overlap,      \* pairs <<t, u>>: t may be started while u is in flight
    Enabled       \* optional events: "restart", "revoke", "reconnect"

Task == {"hydrate", "login", "register", "logout", "switch", "unlock", "rotate"}
SignIn == {"login", "register"}
Leaving == {"logout", "switch"}
Entering == SignIn \cup {"hydrate"}
Opening == {"unlock", "rotate"}

(* Each thing while any other is under way; or all but the pairs that      *)
(* spoil it: leaving while entering or while the vault is being opened,    *)
(* and two sign-ins at once.                                               *)
Both(S, R) == (S \X R) \cup (R \X S)
Hasty == Task \X Task
Settled == Hasty \ (Both(Leaving, Entering \cup Opening) \cup Both(Entering, Entering))

ASSUME ClientSessionAssumption ==
    /\ None \notin Server
    /\ MaxSession \in Nat /\ MaxGen \in Nat \ {0} /\ MaxEpoch \in Nat
    /\ Overlap \subseteq Task \X Task

VARIABLES
    url,        \* secure storage: api_base_url
    stored,     \* secure storage: refresh_token
    client,     \* the singleton: its server and bearer, or None
    auth,       \* the token pair of the auth store
    user,       \* the user of the auth store
    hydrating,
    epoch,      \* sessionEpoch
    material,   \* vault store: whose material is loaded
    key,        \* vault store: whose vault key is in memory
    task,       \* where each operation stands
    live,       \* servers: the refresh token each open session accepts
    issued,     \* servers: sign-ins granted so far
    presented   \* history: [from, to] for each credential sent

storage == <<url, stored>>
session == <<auth, user, hydrating, epoch>>
vault == <<material, key>>
servers == <<live, issued>>
vars == <<storage, client, session, vault, task, servers, presented>>

(* A token pair: its server, the sign-in it descends from, its generation. *)
Token == [server : Server, n : 1 .. MaxSession, gen : 1 .. MaxGen]
ASSUME NoTokenAssumption == None \notin Token

ClientOf(s, t) == [server |-> s, bearer |-> t]
Idle == [at |-> "idle", to |-> None, token |-> None, epoch |-> 0, target |-> None]

(* A hydration that has thrown is "stranded": it is over, and nothing will *)
(* clear the splash.                                                       *)
Stranded == [Idle EXCEPT !.at = "stranded"]
Free(t) == task[t].at \in {"idle", "stranded"}
MayStart(t) == \A u \in Task : Free(u) \/ (u # t /\ <<t, u>> \in Overlap)
At(t, p) == task[t].at = p
Move(t, r) == task' = [task EXCEPT ![t] = r]
Step(t, p) == Move(t, [task[t] EXCEPT !.at = p])
Ask(t, c, tok, target) ==
    Move(t, [Idle EXCEPT !.at = "asked", !.to = c.server, !.token = tok, !.target = target])
Present(c, t) == presented' = IF t = None THEN presented
                              ELSE presented \cup {[from |-> t.server, to |-> c.server]}

(* The first call builds the client for the stored URL, without a bearer.  *)
GetApiClient == IF client # None THEN client ELSE ClientOf(url, None)

Restarted == [t \in Task |-> IF t = "hydrate" THEN [Idle EXCEPT !.at = "reading"] ELSE Idle]

Init ==
    /\ url = None /\ stored = None
    /\ client = None /\ auth = None /\ user = None
    /\ hydrating = TRUE /\ epoch = 0
    /\ material = None /\ key = None
    /\ task = Restarted
    /\ live = {} /\ issued = 0 /\ presented = {}

(* What is left of a closed, reloaded or crashed client: its storage.      *)
Restart ==
    /\ "restart" \in Enabled
    /\ client' = None /\ auth' = None /\ user' = None
    /\ hydrating' = TRUE /\ epoch' = 0
    /\ material' = None /\ key' = None
    /\ task' = Restarted
    /\ UNCHANGED <<storage, servers, presented>>

(* The synchronous part of teardownSession: key, team key, records, tabs.  *)
TeardownUnlocked == material' = None /\ UNCHANGED key
Teardown == material' = None /\ key' = None

(* The refresh token in secure storage.                                    *)
Unstored(tok) == UNCHANGED stored
Store(tok) == stored' = tok
Kept == UNCHANGED stored
Forget == stored' = None

-----------------------------------------------------------------------------
(* hydrate, once at the start of the client.                               *)

(* The token is read from storage before it is used.                       *)
HydrateRead ==
    /\ At("hydrate", "reading")
    /\ IF stored = None
         THEN hydrating' = FALSE /\ Move("hydrate", Idle)
         ELSE /\ Move("hydrate", [task["hydrate"] EXCEPT !.at = "read", !.token = stored])
              /\ UNCHANGED hydrating
    /\ UNCHANGED <<storage, client, auth, user, epoch, vault, servers, presented>>

(* The epoch that the answer will be compared with is noted here.          *)
HydrateAsk ==
    /\ At("hydrate", "read")
    /\ client' = GetApiClient
    /\ Present(client', task["hydrate"].token)
    /\ Move("hydrate", [task["hydrate"] EXCEPT !.at = "asked", !.to = client'.server, !.epoch = epoch])
    /\ UNCHANGED <<storage, session, vault, servers>>

(* A refresh answered before a sign-out must not resurrect the session.    *)
HydrateStore ==
    /\ At("hydrate", "granted")
    /\ IF task["hydrate"].epoch # epoch
         THEN hydrating' = FALSE /\ Move("hydrate", Idle) /\ UNCHANGED stored
         ELSE /\ Store(task["hydrate"].token)
              /\ Step("hydrate", "stored")
              /\ UNCHANGED hydrating
    /\ UNCHANGED <<url, client, auth, user, epoch, vault, servers, presented>>

(* A rejected token (401, 422) is forgotten; then the session is torn down.*)
(* If storage refuses to forget it, the error handler itself throws.       *)
HydrateForget ==
    /\ At("hydrate", "refused")
    /\ \/ Forget /\ Step("hydrate", "forgotten")
       \/ UNCHANGED stored /\ Move("hydrate", Stranded)
    /\ UNCHANGED <<url, client, session, vault, servers, presented>>

HydrateReset ==
    /\ At("hydrate", "forgotten")
    /\ Teardown
    /\ auth' = None /\ user' = None /\ hydrating' = FALSE
    /\ Move("hydrate", Idle)
    /\ UNCHANGED <<storage, client, epoch, servers, presented>>

(* Anything else keeps the token for another try: an answer that is lost,  *)
(* a token that cannot be read, or one that cannot be stored.              *)
HydrateFailQuiet ==
    /\ task["hydrate"].at \in {"reading", "granted", "failed"}
    /\ Move("hydrate", Idle)
    /\ UNCHANGED <<storage, client, session, vault, servers, presented>>

HydrateFail ==
    /\ task["hydrate"].at \in {"reading", "granted", "failed"}
    /\ hydrating' = FALSE
    /\ Move("hydrate", Idle)
    /\ UNCHANGED <<storage, client, auth, user, epoch, vault, servers, presented>>

-----------------------------------------------------------------------------
(* login and register, from the pages that GuestGuard and ConnectGuard show.*)

Guest == ~hydrating /\ auth = None
ConnectedGuest == url # None /\ Guest

SignInAsk(t) ==
    /\ MayStart(t)
    /\ ConnectedGuest
    /\ client' = GetApiClient
    /\ Ask(t, client', None, None)
    /\ UNCHANGED <<storage, session, vault, servers, presented>>

SignInStore(t) ==
    /\ At(t, "granted")
    /\ Store(task[t].token)
    /\ Step(t, "stored")
    /\ UNCHANGED <<url, client, session, vault, servers, presented>>

SignInFail(t) ==
    /\ task[t].at \in {"granted", "refused", "failed"}
    /\ Move(t, Idle)
    /\ UNCHANGED <<storage, client, session, vault, servers, presented>>

(* The rest of applyTokenPair, once the refresh token is stored: whatever  *)
(* client there is now gets the bearer. A sign-in then loads the vault     *)
(* material, which locks a vault unlocked with another; a registration     *)
(* adopts the key it derived.                                              *)
Apply(t) ==
    LET tok == task[t].token IN
    /\ At(t, "stored")
    /\ client' = ClientOf(GetApiClient.server, tok)
    /\ auth' = tok /\ user' = tok.server
    /\ IF t = "hydrate"
         THEN hydrating' = FALSE /\ UNCHANGED <<vault>>
         ELSE /\ UNCHANGED hydrating
              /\ material' = tok.server
              /\ key' = CASE t = "register" -> tok.server
                          [] t = "login" /\ material \notin {None, tok.server} -> None
                          [] OTHER -> key
    /\ Move(t, Idle)
    /\ UNCHANGED <<storage, epoch, servers, presented>>

-----------------------------------------------------------------------------
(* logout, from its buttons or within a switch of servers.                 *)

(* Everything up to the request: epoch and teardown before any await.      *)
Leave(t, target) ==
    /\ auth # None
    /\ epoch < MaxEpoch
    /\ epoch' = epoch + 1
    /\ Teardown
    /\ client' = GetApiClient
    /\ Present(client', client'.bearer)
    /\ Ask(t, client', client'.bearer, target)
    /\ UNCHANGED <<storage, auth, user, hydrating, servers>>

Logout == MayStart("logout") /\ Leave("logout", None)

(* Whether the server answered or not, the stored token is deleted.        *)
LeaveForget(t) ==
    /\ task[t].at \in {"granted", "refused", "failed"}
    /\ Forget
    /\ Step(t, "left")
    /\ UNCHANGED <<url, client, session, vault, servers, presented>>

(* Unless storage refuses: logout() throws before it resets the stores.    *)
LeaveFail(t) ==
    /\ task[t].at \in {"granted", "refused", "failed"}
    /\ Move(t, Idle)
    /\ UNCHANGED <<storage, client, session, vault, servers, presented>>

LeaveReset(t) ==
    /\ At(t, "left")
    /\ client' = None
    /\ auth' = None /\ user' = None /\ hydrating' = FALSE
    /\ IF t = "logout" THEN Move(t, Idle) ELSE Step(t, "moving")
    /\ UNCHANGED <<storage, epoch, vault, servers, presented>>

-----------------------------------------------------------------------------
(* handleConnect.                                                          *)

Switch(s) ==
    /\ MayStart("switch")
    /\ s # url
    /\ \/ Leave("switch", s)
       \/ /\ auth = None
          /\ Forget
          /\ Move("switch", [Idle EXCEPT !.at = "forgotten", !.target = s])
          /\ UNCHANGED <<url, client, session, vault, servers, presented>>

SwitchTeardown ==
    /\ At("switch", "forgotten")
    /\ Teardown
    /\ Step("switch", "moving")
    /\ UNCHANGED <<storage, client, session, servers, presented>>

SwitchMove ==
    /\ At("switch", "moving")
    /\ url' = task["switch"].target
    /\ client' = None
    /\ Move("switch", Idle)
    /\ UNCHANGED <<stored, session, vault, servers, presented>>

SwitchFail ==
    /\ At("switch", "moving")
    /\ Move("switch", Idle)
    /\ UNCHANGED <<storage, client, session, vault, servers, presented>>

(* Connecting to the URL already in use ends no session; but the client    *)
(* that the next request builds has no bearer.                             *)
Reconnect ==
    /\ "reconnect" \in Enabled
    /\ MayStart("switch")
    /\ url # None
    /\ client' = None
    /\ UNCHANGED <<storage, session, vault, task, servers, presented>>

-----------------------------------------------------------------------------
(* The vault.                                                              *)

(* The unlock page shows once AuthGuard lets the user in. The derivation   *)
(* and the canary run on the main thread: only fetchMe is waited for.      *)
Unlock ==
    /\ MayStart("unlock")
    /\ auth # None /\ ~hydrating /\ key = None
    /\ \/ /\ user # None /\ material # None
          /\ key' = material
          /\ UNCHANGED <<client, task, presented>>
       \/ /\ user = None \/ material = None
          /\ client' = GetApiClient
          /\ Present(client', client'.bearer)
          /\ Ask("unlock", client', client'.bearer, None)
          /\ UNCHANGED key
    /\ UNCHANGED <<storage, session, material, servers>>

UnlockReply ==
    /\ At("unlock", "granted")
    /\ user' = task["unlock"].to
    /\ material' = task["unlock"].to
    /\ key' = task["unlock"].to
    /\ Move("unlock", Idle)
    /\ UNCHANGED <<storage, client, auth, hydrating, epoch, servers, presented>>

(* The rotation of the master password: its many requests are one here.    *)
Rotate ==
    /\ MayStart("rotate")
    /\ auth # None /\ key # None /\ material # None
    /\ client' = GetApiClient
    /\ Present(client', client'.bearer)
    /\ Ask("rotate", client', client'.bearer, None)
    /\ UNCHANGED <<storage, session, vault, servers>>

(* replaceKey adopts the new key and material, whatever happened since.    *)
RotateReply ==
    /\ At("rotate", "granted")
    /\ key' = task["rotate"].to
    /\ material' = task["rotate"].to
    /\ Move("rotate", Idle)
    /\ UNCHANGED <<storage, client, session, servers, presented>>

VaultFail(t) ==
    /\ task[t].at \in {"refused", "failed"}
    /\ Move(t, Idle)
    /\ UNCHANGED <<storage, client, session, vault, servers, presented>>

(* The idle timer, or the lock button.                                     *)
Lock ==
    /\ key # None
    /\ key' = None
    /\ UNCHANGED <<storage, client, session, material, task, servers, presented>>

-----------------------------------------------------------------------------
(* The servers, as the client uses them.                                   *)

SessionOf(tok) == {x \in live : x.n = tok.n}
Answer(t, at, tok) == Move(t, [task[t] EXCEPT !.at = at, !.token = tok])

(* The request arrives and is executed; the answer is on its way back.     *)
Grant(t) ==
    LET tok == task[t].token
        known == tok # None /\ tok.server = task[t].to /\ SessionOf(tok) # {}
        first == [server |-> task[t].to, n |-> issued + 1, gen |-> 1]
        next == [tok EXCEPT !.gen = @ + 1]
    IN
    /\ At(t, "asked")
    /\ \/ /\ t \in SignIn
          /\ issued < MaxSession
          /\ issued' = issued + 1
          /\ live' = live \cup {first}
          /\ Answer(t, "granted", first)
       \/ /\ t = "hydrate" /\ known /\ tok \in live
          /\ tok.gen < MaxGen
          /\ live' = (live \ {tok}) \cup {next}
          /\ Answer(t, "granted", next)
          /\ UNCHANGED issued
       \/ /\ t \in Leaving \cup Opening /\ known
          /\ live' = IF t \in Leaving THEN live \ SessionOf(tok) ELSE live
          /\ Answer(t, "granted", tok)
          /\ UNCHANGED issued
    /\ UNCHANGED <<storage, client, session, vault, presented>>

(* Wrong credentials, or a token the server does not accept; a refresh     *)
(* token that was replaced ends its session.                               *)
Refuse(t) ==
    LET tok == task[t].token
        known == tok # None /\ tok.server = task[t].to /\ SessionOf(tok) # {}
    IN
    /\ At(t, "asked")
    /\ \/ t \in SignIn /\ UNCHANGED live
       \/ /\ t = "hydrate" /\ ~(known /\ tok \in live)
          /\ live' = IF known THEN live \ SessionOf(tok) ELSE live
       \/ t \in Leaving \cup Opening /\ ~known /\ UNCHANGED live
    /\ Answer(t, "refused", tok)
    /\ UNCHANGED <<storage, client, session, vault, issued, presented>>

(* The request or its answer is lost, or the server fails.                 *)
Unreachable(t) ==
    /\ task[t].at \in {"asked", "granted", "refused"}
    /\ Step(t, "failed")
    /\ UNCHANGED <<storage, client, session, vault, servers, presented>>

(* Another device or an administrator ends a session.                      *)
Revoke ==
    /\ "revoke" \in Enabled
    /\ \E tok \in live : live' = live \ SessionOf(tok)
    /\ UNCHANGED <<storage, client, session, vault, task, issued, presented>>

-----------------------------------------------------------------------------
Hydrate == HydrateRead \/ HydrateAsk \/ HydrateStore \/ HydrateForget \/ HydrateReset \/ HydrateFail

Next ==
    \/ Hydrate
    \/ \E t \in SignIn : SignInAsk(t) \/ SignInStore(t) \/ SignInFail(t)
    \/ \E t \in Entering : Apply(t)
    \/ Logout
    \/ \E t \in Leaving : LeaveForget(t) \/ LeaveFail(t) \/ LeaveReset(t)
    \/ \E s \in Server : Switch(s)
    \/ SwitchTeardown \/ SwitchMove \/ SwitchFail \/ Reconnect
    \/ Unlock \/ UnlockReply \/ Rotate \/ RotateReply \/ Lock
    \/ \E t \in Opening : VaultFail(t)
    \/ \E t \in Task : Grant(t) \/ Refuse(t) \/ Unreachable(t)
    \/ Revoke
    \/ Restart

Spec == Init /\ [][Next]_vars

-----------------------------------------------------------------------------
(* Types of every variable: a client is always bound to a server, and a    *)
(* task carries a request of the right shape.                              *)
TypeOK ==
    /\ url \in Server \cup {None}
    /\ stored \in Token \cup {None}
    /\ client \in {None} \cup [server : Server, bearer : Token \cup {None}]
    /\ auth \in Token \cup {None} /\ user \in Server \cup {None}
    /\ hydrating \in BOOLEAN /\ epoch \in 0 .. MaxEpoch
    /\ material \in Server \cup {None} /\ key \in Server \cup {None}
    /\ \A t \in Task :
         /\ DOMAIN task[t] = DOMAIN Idle
         /\ task[t].to \in Server \cup {None}
         /\ task[t].token \in Token \cup {None}
         /\ task[t].target \in Server \cup {None}
    /\ live \subseteq Token /\ issued \in 0 .. MaxSession
    /\ presented \subseteq [from : Server, to : Server]

(* Neither the refresh token nor the bearer of one server is ever sent to  *)
(* another, whatever is interrupted by a restart between two steps of a    *)
(* switch.                                                                 *)
OnlyHomeServer == \A p \in presented : p.from = p.to

(* The refresh token in storage is never behind the one the client works   *)
(* with: a restart finds the pair that the server accepts, not a replaced  *)
(* one that would end the session. Only a sign-out under way lacks it.     *)
StorageKeepsUp ==
    auth # None =>
        \/ stored = auth
        \/ \E t \in Leaving : At(t, "left")

(* The splash is left up by one thing only: a rejected refresh token that  *)
(* storage refuses to delete. On every other way out, whatever operation   *)
(* overlaps, the hydration that will clear the flag is still under way.    *)
SplashEnds == hydrating => ~Free("hydrate") \/ At("hydrate", "stranded")

(* A vault key in memory belongs to the account that is signed in: none    *)
(* outlives a sign-out, a rejected session or a switch of servers.         *)
KeyOfAccount == key # None => auth # None /\ key = auth.server
=============================================================================

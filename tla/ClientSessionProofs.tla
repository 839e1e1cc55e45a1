------------------------- MODULE ClientSessionProofs -------------------------
(***************************************************************************)
(* Proofs about ClientSession, for any number of servers, sign-ins and     *)
(* sign-outs.                                                              *)
(***************************************************************************)
EXTENDS ClientSession, TLAPS

Client == [server : Server, bearer : Token \cup {None}]
Place == {"idle", "reading", "read", "asked", "granted", "refused", "failed", "stored", "forgotten", "left", "moving",
          "stranded"}
Errand == [at : Place, to : Server \cup {None}, token : Token \cup {None}, epoch : 0 .. MaxEpoch,
           target : Server \cup {None}]
WithToken == {"read", "granted", "stored"}

(* What an operation t that stands at r has, and what was there before it. *)
Carries(t, r) ==
  /\ t \in Entering /\ r.at \in WithToken => r.token # None
  /\ t = "hydrate" /\ r.at = "asked" => r.token # None
  /\ r.at = "asked" => r.to # None
  /\ t \in Opening /\ r.at = "granted" => r.to # None
  /\ t = "switch" /\ r.at # "idle" => r.target # None
  /\ r.at = "reading" => t = "hydrate"
  /\ r.at = "idle" => r = Idle
  /\ r.at = "stranded" => t = "hydrate"
(* Before the first server is set nothing but a change of server goes on.  *)
Quiet(t, r) == t = "switch" \/ r.at \in {"idle", "reading"}

Types ==
  /\ url \in Server \cup {None}
  /\ stored \in Token \cup {None}
  /\ client \in {None} \cup Client
  /\ auth \in Token \cup {None} /\ user \in Server \cup {None}
  /\ hydrating \in BOOLEAN /\ epoch \in 0 .. MaxEpoch
  /\ material \in Server \cup {None} /\ key \in Server \cup {None}
  /\ task \in [Task -> Errand]
  /\ live \subseteq Token /\ issued \in 0 .. MaxSession
  /\ presented \subseteq [from : Server, to : Server]
  /\ \A t \in Task : Carries(t, task[t])
  /\ url = None => stored = None /\ auth = None /\ client = None /\ \A t \in Task : Quiet(t, task[t])

-----------------------------------------------------------------------------
LEMMA IdleErrand == Idle \in Errand /\ \A t \in Task : Carries(t, Idle)
BY ClientSessionAssumption DEF Idle, Errand, Place, Carries, WithToken

LEMMA RestartedTasks ==
  /\ Restarted \in [Task -> Errand]
  /\ \A t \in Task : Carries(t, Restarted[t]) /\ Quiet(t, Restarted[t])
<1>1. "hydrate" \in Task
  BY DEF Task
<1>2. \A t \in Task : /\ Restarted[t] \in {Idle, [Idle EXCEPT !.at = "reading"]}
                      /\ Restarted[t].at = "reading" => t = "hydrate"
  BY DEF Restarted, Idle
<1>3. [Idle EXCEPT !.at = "reading"] \in Errand
  BY IdleErrand DEF Errand, Place
<1>4. \A t \in Task : Carries(t, Restarted[t]) /\ Quiet(t, Restarted[t])
  BY <1>2 DEF Restarted, Carries, Quiet, Idle, WithToken
<1> QED BY <1>2, <1>3, <1>4, IdleErrand DEF Restarted

LEMMA Initial == Init => Types
<1> SUFFICES ASSUME Init PROVE Types
  OBVIOUS
<1>1. epoch \in 0 .. MaxEpoch /\ issued \in 0 .. MaxSession
  BY ClientSessionAssumption DEF Init
<1> QED BY <1>1, RestartedTasks DEF Init, Types

(* One operation moves on, the others stay.                                *)
LEMMA OneMoves ==
  ASSUME Types, NEW t \in Task, NEW r \in Errand, Move(t, r), Carries(t, r)
  PROVE  /\ task' \in [Task -> Errand] /\ task'[t] = r /\ \A u \in Task \ {t} : task'[u] = task[u]
         /\ \A u \in Task : Carries(u, task'[u])
BY DEF Types, Move

LEMMA ErrandOf == ASSUME Types, NEW t \in Task PROVE task[t] \in Errand /\ Carries(t, task[t])
BY DEF Types

(* A client is only built when a server is set.                            *)
LEMMA Built ==
  ASSUME Types, url # None
  PROVE  GetApiClient \in Client /\ ((GetApiClient = client /\ client # None) \/ GetApiClient = ClientOf(url, None))
BY DEF Types, GetApiClient, ClientOf, Client

LEMMA Shown ==
  ASSUME Types, NEW c \in Client, NEW tok \in Token \cup {None}, Present(c, tok)
  PROVE  presented' \subseteq [from : Server, to : Server]
BY DEF Types, Present, Client, Token

(* What a step leaves typed, when the operation that it moves is.          *)
LEMMA StoresTyped ==
  ASSUME Types, NEW t \in Task, NEW r \in Errand, Move(t, r), Carries(t, r),
         url' \in Server \cup {None}, stored' \in Token \cup {None}, client' \in {None} \cup Client,
         auth' \in Token \cup {None}, user' \in Server \cup {None}, hydrating' \in BOOLEAN,
         epoch' \in 0 .. MaxEpoch, material' \in Server \cup {None}, key' \in Server \cup {None},
         live' \subseteq Token, issued' \in 0 .. MaxSession, presented' \subseteq [from : Server, to : Server],
         \/ url' # None
         \/ url = None /\ Quiet(t, r) /\ stored' = None /\ auth' = None /\ client' = None
  PROVE  Types'
<1>1. /\ task' \in [Task -> Errand] /\ task'[t] = r /\ \A u \in Task \ {t} : task'[u] = task[u]
      /\ \A u \in Task : Carries(u, task'[u])
  BY OneMoves
<1>2. url' = None => \A u \in Task : Quiet(u, task'[u])
  BY <1>1 DEF Types
<1> QED BY <1>1, <1>2 DEF Types

LEMMA HydrateTyped == ASSUME Types, Hydrate PROVE Types'
<1> DEFINE h == task["hydrate"]
<1>0. "hydrate" \in Task /\ "hydrate" \in Entering /\ h \in Errand /\ Carries("hydrate", h)
  BY ErrandOf DEF Task, Entering
<1>1. Idle \in Errand /\ Carries("hydrate", Idle) /\ Quiet("hydrate", Idle)
  BY <1>0, IdleErrand DEF Idle, Quiet
<1>2. h.at \notin {"idle", "reading"} => url # None
  BY <1>0 DEF Types, Quiet
<1>3. CASE HydrateRead
  <2>1. CASE stored = None
    BY <1>0, <1>1, <1>3, <2>1, StoresTyped DEF HydrateRead, storage, vault, servers, Types
  <2>2. CASE stored # None
    <3> DEFINE r == [h EXCEPT !.at = "read", !.token = stored]
    <3>1. r \in Errand /\ Carries("hydrate", r) /\ url # None
      BY <1>0, <2>2 DEF Types, Errand, Place, Carries
    <3> QED BY <1>0, <1>3, <2>2, <3>1, StoresTyped DEF HydrateRead, storage, vault, servers, Types
  <2> QED BY <2>1, <2>2
<1>4. CASE HydrateAsk
  <2>1. url # None /\ h.token # None
    BY <1>0, <1>2, <1>4 DEF HydrateAsk, At, Carries, WithToken
  <2>2. client' \in Client /\ presented' \subseteq [from : Server, to : Server]
    BY <1>0, <1>4, <2>1, Built, Shown DEF HydrateAsk, Errand
  <2> DEFINE r == [h EXCEPT !.at = "asked", !.to = client'.server, !.epoch = epoch]
  <2>3. r \in Errand /\ Carries("hydrate", r)
    BY <1>0, <2>1, <2>2, ClientSessionAssumption DEF Types, Errand, Place, Carries, WithToken, Client, Opening
  <2> QED BY <1>0, <1>4, <2>1, <2>2, <2>3, StoresTyped DEF HydrateAsk, storage, session, vault, servers, Types
<1>5. CASE HydrateStore
  <2>1. url # None /\ h.token # None
    BY <1>0, <1>2, <1>5 DEF HydrateStore, At, Carries, WithToken
  <2> DEFINE r == [h EXCEPT !.at = "stored"]
  <2>2. r \in Errand /\ Carries("hydrate", r)
    BY <1>0, <2>1 DEF Errand, Place, Carries
  <2>3. Step("hydrate", "stored") <=> Move("hydrate", r)
    BY DEF Step
  <2>4. h.token \in Token
    BY <1>0, <2>1 DEF Errand
  <2> QED BY <1>0, <1>1, <1>5, <2>1, <2>2, <2>3, <2>4, StoresTyped DEF HydrateStore, Store, vault, servers, Types
<1>6. CASE HydrateForget
  <2>1. url # None
    BY <1>2, <1>6 DEF HydrateForget, At
  <2>2. CASE Step("hydrate", "forgotten") /\ Forget
    <3> DEFINE r == [h EXCEPT !.at = "forgotten"]
    <3>1. r \in Errand /\ Carries("hydrate", r)
      BY <1>0 DEF Errand, Place, Carries, WithToken
    <3>2. Move("hydrate", r)
      BY <2>2 DEF Step
    <3> QED BY <1>0, <1>6, <2>1, <2>2, <3>1, <3>2, StoresTyped DEF HydrateForget, Forget, session, vault, servers, Types
  <2>3. CASE Move("hydrate", Stranded) /\ UNCHANGED stored
    <3>1. Stranded \in Errand /\ Carries("hydrate", Stranded)
      BY <1>0, <1>1 DEF Stranded, Idle, Errand, Place, Carries, WithToken, Opening
    <3> QED BY <1>0, <1>6, <2>1, <2>3, <3>1, StoresTyped DEF HydrateForget, session, vault, servers, Types
  <2> QED BY <1>6, <2>2, <2>3 DEF HydrateForget
<1>7. CASE HydrateReset
  <2>1. url # None
    BY <1>2, <1>7 DEF HydrateReset, At
  <2> QED BY <1>0, <1>1, <1>7, <2>1, StoresTyped DEF HydrateReset, Teardown, storage, vault, servers, Types
<1>8. CASE HydrateFail
  BY <1>0, <1>1, <1>2, <1>8, StoresTyped DEF HydrateFail, storage, vault, servers, Types
<1> QED BY <1>3, <1>4, <1>5, <1>6, <1>7, <1>8 DEF Hydrate

LEMMA SignInTyped ==
  ASSUME Types, NEW t \in SignIn, SignInAsk(t) \/ SignInStore(t) \/ SignInFail(t)
  PROVE  Types'
<1> DEFINE h == task[t]
<1>0. t \in Task /\ t \in Entering /\ t # "switch" /\ t \notin Opening /\ h \in Errand /\ Carries(t, h)
  BY ErrandOf DEF Task, Entering, SignIn, Opening
<1>1. Idle \in Errand /\ Carries(t, Idle)
  BY <1>0, IdleErrand
<1>2. h.at \notin {"idle", "reading"} => url # None
  BY <1>0 DEF Types, Quiet
<1>3. CASE SignInAsk(t)
  <2>1. url # None /\ client' \in Client
    BY <1>3, Built DEF SignInAsk, ConnectedGuest
  <2> DEFINE r == [Idle EXCEPT !.at = "asked", !.to = client'.server, !.token = None, !.target = None]
  <2>2. r \in Errand /\ Carries(t, r)
    BY <1>0, <1>1, <2>1, ClientSessionAssumption DEF Errand, Place, Carries, WithToken, Client, Idle, SignIn
  <2>3. Move(t, r)
    BY <1>3 DEF SignInAsk, Ask
  <2> QED BY <1>0, <1>3, <2>1, <2>2, <2>3, StoresTyped DEF SignInAsk, storage, session, vault, servers, Types
<1>4. CASE SignInStore(t)
  <2>1. url # None /\ h.token # None
    BY <1>0, <1>2, <1>4 DEF SignInStore, At, Carries, WithToken
  <2> DEFINE r == [h EXCEPT !.at = "stored"]
  <2>2. r \in Errand /\ Carries(t, r) /\ h.token \in Token
    BY <1>0, <2>1 DEF Errand, Place, Carries
  <2>3. Move(t, r)
    BY <1>4 DEF SignInStore, Step
  <2> QED BY <1>0, <1>4, <2>1, <2>2, <2>3, StoresTyped DEF SignInStore, Store, session, vault, servers, Types
<1>5. CASE SignInFail(t)
  BY <1>0, <1>1, <1>2, <1>5, StoresTyped DEF SignInFail, storage, session, vault, servers, Types
<1> QED BY <1>3, <1>4, <1>5

LEMMA ApplyTyped == ASSUME Types, NEW t \in Entering, Apply(t) PROVE Types'
<1> DEFINE h == task[t]
<1>0. t \in Task /\ t # "switch" /\ h \in Errand /\ Carries(t, h)
  BY ErrandOf DEF Task, Entering, SignIn
<1>1. Idle \in Errand /\ Carries(t, Idle)
  BY <1>0, IdleErrand
<1>2. url # None /\ h.token \in Token
  BY <1>0 DEF Types, Quiet, Apply, At, Carries, WithToken, Errand
<1>3. h.token.server \in Server
  BY <1>2 DEF Token
<1>4. GetApiClient \in Client
  BY <1>2, Built
<1>5. client' \in Client
  BY <1>2, <1>4 DEF Apply, ClientOf, Client
<1>6. key' \in Server \cup {None} /\ material' \in Server \cup {None}
  BY <1>3 DEF Apply, vault, Types
<1> QED BY <1>0, <1>1, <1>2, <1>3, <1>5, <1>6, StoresTyped DEF Apply, storage, vault, servers, Types

(* Both ways of leaving, up to the request.                                *)
LEMMA LeaveTyped ==
  ASSUME Types, NEW t \in Leaving, NEW s \in Server \cup {None}, t = "switch" => s # None, Leave(t, s)
  PROVE  Types'
<1>0. t \in Task /\ t \notin Entering /\ t \notin Opening
  BY DEF Task, Leaving, Entering, SignIn, Opening
<1>1. url # None
  BY DEF Types, Leave
<1>2. client' \in Client
  BY <1>1, Built DEF Leave
<1>3. client'.bearer \in Token \cup {None} /\ client'.server \in Server
  BY <1>2 DEF Client
<1>4. presented' \subseteq [from : Server, to : Server]
  BY <1>2, <1>3, Shown DEF Leave
<1> DEFINE r == [Idle EXCEPT !.at = "asked", !.to = client'.server, !.token = client'.bearer, !.target = s]
<1>5. r \in Errand
  BY <1>3, IdleErrand DEF Errand, Place, Idle
<1>6. Carries(t, r)
  BY <1>0, <1>3, ClientSessionAssumption DEF Carries, WithToken, Idle, Leaving, Entering
<1>7. Move(t, r)
  BY DEF Leave, Ask
<1>8. epoch' \in 0 .. MaxEpoch
  BY ClientSessionAssumption DEF Leave, Types
<1> QED BY <1>0, <1>1, <1>2, <1>4, <1>5, <1>6, <1>7, <1>8, StoresTyped DEF Leave, Teardown, storage, servers, Types

LEMMA LeavingTyped ==
  ASSUME Types, NEW t \in Leaving, LeaveForget(t) \/ LeaveFail(t) \/ LeaveReset(t)
  PROVE  Types'
<1> DEFINE h == task[t]
<1>0. t \in Task /\ t \notin Entering /\ t \notin Opening /\ h \in Errand /\ Carries(t, h)
  BY ErrandOf DEF Task, Leaving, Entering, SignIn, Opening
<1>1. Idle \in Errand /\ Carries(t, Idle)
  BY <1>0, IdleErrand
<1>2. CASE LeaveForget(t)
  <2> DEFINE r == [h EXCEPT !.at = "left"]
  <2>1. r \in Errand /\ Carries(t, r) /\ Move(t, r) /\ h.at \notin {"idle", "reading"}
    BY <1>0, <1>2 DEF LeaveForget, Step, Errand, Place, Carries, WithToken
  <2> QED BY <1>0, <1>2, <2>1, StoresTyped DEF LeaveForget, Forget, session, vault, servers, Types, Quiet
<1>3. CASE LeaveReset(t)
  <2>1. CASE t = "logout"
    BY <1>0, <1>1, <1>3, <2>1, StoresTyped DEF LeaveReset, At, storage, vault, servers, Types, Quiet
  <2>2. CASE t = "switch"
    <3> DEFINE r == [h EXCEPT !.at = "moving"]
    <3>1. r \in Errand /\ Carries(t, r) /\ Move(t, r) /\ Quiet(t, r)
      BY <1>0, <1>3, <2>2 DEF LeaveReset, At, Step, Errand, Place, Carries, WithToken, Quiet
    <3> QED BY <1>0, <1>3, <3>1, StoresTyped DEF LeaveReset, storage, vault, servers, Types
  <2> QED BY <2>1, <2>2 DEF Leaving
<1>4. CASE LeaveFail(t)
  <2>1. url # None \/ (Quiet(t, Idle) /\ stored = None /\ auth = None /\ client = None)
    BY DEF Types, Quiet, Idle
  <2> QED BY <1>0, <1>1, <1>4, <2>1, StoresTyped DEF LeaveFail, storage, session, vault, servers, Types
<1> QED BY <1>2, <1>3, <1>4

LEMMA SwitchTyped ==
  ASSUME Types, (\E s \in Server : Switch(s)) \/ SwitchTeardown \/ SwitchMove \/ SwitchFail \/ Reconnect
  PROVE  Types'
<1> DEFINE h == task["switch"]
<1>0. "switch" \in Task /\ "switch" \in Leaving /\ "switch" \notin Entering /\ "switch" \notin Opening
      /\ h \in Errand /\ Carries("switch", h)
  BY ErrandOf DEF Task, Leaving, Entering, SignIn, Opening
<1>1. ASSUME NEW s \in Server, Switch(s) PROVE Types'
  <2>1. CASE Leave("switch", s)
    BY <1>0, <2>1, LeaveTyped, ClientSessionAssumption
  <2>2. CASE ~Leave("switch", s)
    <3> DEFINE r == [Idle EXCEPT !.at = "forgotten", !.target = s]
    <3>1. r \in Errand /\ Carries("switch", r) /\ Quiet("switch", r)
      BY <1>0, IdleErrand, ClientSessionAssumption DEF Errand, Place, Carries, WithToken, Idle, Quiet
    <3> QED BY <1>0, <1>1, <2>2, <3>1, StoresTyped DEF Switch, Forget, session, vault, servers, Types
  <2> QED BY <2>1, <2>2
<1>2. CASE SwitchTeardown
  <2> DEFINE r == [h EXCEPT !.at = "moving"]
  <2>1. r \in Errand /\ Carries("switch", r) /\ Move("switch", r) /\ Quiet("switch", r)
    BY <1>0, <1>2 DEF SwitchTeardown, At, Step, Errand, Place, Carries, WithToken, Quiet
  <2> QED BY <1>0, <1>2, <2>1, StoresTyped DEF SwitchTeardown, Teardown, storage, session, servers, Types
<1>3. CASE SwitchMove
  <2>1. h.target \in Server
    BY <1>0, <1>3 DEF SwitchMove, At, Carries, Errand
  <2>2. Idle \in Errand /\ Carries("switch", Idle)
    BY IdleErrand, ClientSessionAssumption DEF Idle, Carries, WithToken
  <2>3. url' # None /\ url' \in Server
    BY <1>3, <2>1, ClientSessionAssumption DEF SwitchMove
  <2> QED BY <1>0, <1>3, <2>2, <2>3, StoresTyped DEF SwitchMove, session, vault, servers, Types
<1>4. CASE Reconnect
  BY <1>4 DEF Reconnect, storage, session, vault, servers, Types
<1>5. CASE SwitchFail
  <2>1. Idle \in Errand /\ Carries("switch", Idle) /\ Quiet("switch", Idle)
    BY IdleErrand, <1>0 DEF Idle, Quiet
  <2> QED BY <1>0, <1>5, <2>1, StoresTyped DEF SwitchFail, storage, session, vault, servers, Types
<1> QED BY <1>1, <1>2, <1>3, <1>4, <1>5

LEMMA VaultTyped ==
  ASSUME Types, Unlock \/ UnlockReply \/ Rotate \/ RotateReply \/ Lock \/ \E t \in Opening : VaultFail(t)
  PROVE  Types'
<1>0. \A t \in Opening : /\ t \in Task /\ t \notin Entering /\ t # "switch"
                         /\ task[t] \in Errand /\ Carries(t, task[t]) /\ Carries(t, Idle)
  BY ErrandOf, IdleErrand DEF Task, Entering, SignIn, Opening
<1>1. Idle \in Errand /\ "unlock" \in Opening /\ "rotate" \in Opening
  BY IdleErrand DEF Opening
<1>2. \A t \in Opening : task[t].at \notin {"idle", "reading"} => url # None
  BY <1>0 DEF Types, Quiet
<1>3. ASSUME NEW t \in Opening, auth # None, client' = GetApiClient, Present(client', client'.bearer), Ask(t, client', client'.bearer, None)
      PROVE  url # None /\ client' \in Client /\ presented' \subseteq [from : Server, to : Server]
             /\ \E r \in Errand : Move(t, r) /\ Carries(t, r)
  <2>1. url # None /\ client' \in Client
    BY <1>3, Built DEF Types
  <2>2. client'.bearer \in Token \cup {None} /\ client'.server \in Server
    BY <2>1 DEF Client
  <2>3. presented' \subseteq [from : Server, to : Server]
    BY <1>3, <2>1, <2>2, Shown
  <2> DEFINE r == [Idle EXCEPT !.at = "asked", !.to = client'.server, !.token = client'.bearer, !.target = None]
  <2>4. r \in Errand
    BY <1>1, <2>2 DEF Errand, Place, Idle
  <2>5. Carries(t, r)
    BY <1>0, <2>2, ClientSessionAssumption DEF Carries, WithToken, Idle, Entering
  <2>6. Move(t, r)
    BY <1>3 DEF Ask
  <2> QED BY <2>1, <2>3, <2>4, <2>5, <2>6
<1>4. CASE Unlock
  <2>1. CASE UNCHANGED <<client, task, presented>>
    BY <1>4, <2>1 DEF Unlock, Ask, Move, storage, session, servers, Types
  <2>2. CASE Ask("unlock", client', client'.bearer, None) /\ client' = GetApiClient /\ Present(client', client'.bearer) /\ UNCHANGED key
    <3>1. PICK r \in Errand : Move("unlock", r) /\ Carries("unlock", r)
      BY <1>1, <1>3, <1>4, <2>2 DEF Unlock
    <3> QED BY <1>0, <1>1, <1>3, <1>4, <2>2, <3>1, StoresTyped DEF Unlock, storage, session, servers, Types
  <2> QED BY <1>4, <2>1, <2>2 DEF Unlock
<1>5. CASE UnlockReply
  <2>1. task["unlock"].to \in Server
    BY <1>0, <1>1, <1>5 DEF UnlockReply, At, Carries, Errand
  <2> QED BY <1>0, <1>1, <1>2, <1>5, <2>1, StoresTyped DEF UnlockReply, At, storage, servers, Types
<1>6. CASE Rotate
  <2>1. PICK r \in Errand : Move("rotate", r) /\ Carries("rotate", r)
    BY <1>1, <1>3, <1>6 DEF Rotate
  <2> QED BY <1>0, <1>1, <1>3, <1>6, <2>1, StoresTyped DEF Rotate, storage, session, vault, servers, Types
<1>7. CASE RotateReply
  <2>1. task["rotate"].to \in Server
    BY <1>0, <1>1, <1>7 DEF RotateReply, At, Carries, Errand
  <2> QED BY <1>0, <1>1, <1>2, <1>7, <2>1, StoresTyped DEF RotateReply, At, storage, session, servers, Types
<1>8. CASE Lock
  BY <1>8 DEF Lock, storage, session, servers, Types
<1>9. ASSUME NEW t \in Opening, VaultFail(t) PROVE Types'
  BY <1>0, <1>1, <1>2, <1>9, StoresTyped DEF VaultFail, storage, session, vault, servers, Types
<1> QED BY <1>4, <1>5, <1>6, <1>7, <1>8, <1>9

(* The answer to a request: the session that the server opened or renewed. *)
LEMMA AnswerTyped ==
  ASSUME Types, NEW t \in Task, NEW at \in {"granted", "refused"}, NEW tok \in Token \cup {None}, At(t, "asked"), Answer(t, at, tok),
         at = "granted" /\ t \in Entering => tok # None,
         live' \subseteq Token, issued' \in 0 .. MaxSession,
         UNCHANGED <<storage, client, session, vault, presented>>
  PROVE  Types'
<1> DEFINE r == [task[t] EXCEPT !.at = at, !.token = tok]
<1>1. task[t] \in Errand /\ Carries(t, task[t])
  BY ErrandOf
<1>2. r \in Errand /\ Carries(t, r) /\ Move(t, r)
  BY <1>1 DEF Errand, Place, Carries, WithToken, Answer, At
<1>3. url # None \/ Quiet(t, r)
  BY DEF Types, Quiet, At
<1> QED BY <1>2, <1>3, StoresTyped DEF storage, session, vault, Types

LEMMA ServersTyped ==
  ASSUME Types, NEW t \in Task, Grant(t) \/ Refuse(t) \/ Unreachable(t)
  PROVE  Types'
<1>0. task[t] \in Errand /\ Carries(t, task[t])
  BY ErrandOf
<1>1. CASE Grant(t)
  <2> DEFINE tok == task[t].token
             first == [server |-> task[t].to, n |-> issued + 1, gen |-> 1]
             next == [tok EXCEPT !.gen = @ + 1]
  <2>1. task[t].to \in Server /\ tok \in Token \cup {None}
    BY <1>0, <1>1 DEF Grant, At, Carries, Errand
  <2>2. CASE t \in SignIn
    <3>1. issued < MaxSession /\ issued' = issued + 1 /\ live' = live \cup {first} /\ Answer(t, "granted", first)
      BY <1>1, <2>2 DEF Grant, SignIn, Leaving, Opening
    <3>2. issued' \in 0 .. MaxSession /\ issued' \in 1 .. MaxSession /\ 1 \in 1 .. MaxGen
      BY <3>1, ClientSessionAssumption DEF Types
    <3>3. first \in Token /\ first # None
      BY <2>1, <3>1, <3>2, NoTokenAssumption DEF Token, Types
    <3> QED BY <1>1, <3>1, <3>2, <3>3, AnswerTyped DEF Grant, Types
  <2>3. CASE t = "hydrate"
    <3>1. tok # None /\ tok.gen < MaxGen /\ live' = (live \ {tok}) \cup {next} /\ Answer(t, "granted", next) /\ UNCHANGED issued
      BY <1>1, <2>3 DEF Grant, SignIn, Leaving, Opening
    <3>2. next \in Token
      BY <2>1, <3>1, ClientSessionAssumption DEF Token
    <3>3. (live \ {tok}) \cup {next} \subseteq Token /\ next # None
      BY <3>2, NoTokenAssumption DEF Types
    <3> QED BY <1>1, <2>3, <3>1, <3>2, <3>3, AnswerTyped DEF Grant, Types
  <2>4. CASE t \in Leaving \cup Opening
    <3>1. Answer(t, "granted", tok) /\ UNCHANGED issued /\ live' \subseteq live /\ t \notin Entering
      BY <1>1, <2>4 DEF Grant, SessionOf, SignIn, Leaving, Opening, Entering
    <3> QED BY <1>1, <2>1, <3>1, AnswerTyped DEF Grant, Types
  <2> QED BY <2>2, <2>3, <2>4 DEF Task, SignIn, Leaving, Opening
<1>2. CASE Refuse(t)
  <2>1. live' \subseteq live /\ Answer(t, "refused", task[t].token) /\ task[t].token \in Token \cup {None}
    BY <1>0, <1>2 DEF Refuse, SessionOf, Errand
  <2> QED BY <1>2, <2>1, AnswerTyped DEF Refuse, Types
<1>3. CASE Unreachable(t)
  <2> DEFINE r == [task[t] EXCEPT !.at = "failed"]
  <2>1. r \in Errand /\ Carries(t, r) /\ Move(t, r)
    BY <1>0, <1>3 DEF Unreachable, Step, Errand, Place, Carries, WithToken
  <2>2. url # None \/ Quiet(t, r)
    BY <1>3 DEF Unreachable, Types, Quiet
  <2> QED BY <1>3, <2>1, <2>2, StoresTyped DEF Unreachable, storage, session, vault, servers, Types
<1> QED BY <1>1, <1>2, <1>3

LEMMA TypesInductive == Types /\ [Next]_vars => Types'
<1> SUFFICES ASSUME Types, [Next]_vars PROVE Types'
  OBVIOUS
<1>1. CASE Restart
  <2>1. 0 \in 0 .. MaxEpoch
    BY ClientSessionAssumption
  <2> QED BY <1>1, <2>1, RestartedTasks DEF Restart, storage, servers, Types
<1>2. CASE Revoke
  BY <1>2 DEF Revoke, SessionOf, storage, session, vault, Types
<1>3. CASE UNCHANGED vars
  BY <1>3 DEF vars, storage, session, vault, servers, Types, Carries, Quiet
<1>4. CASE Logout
  BY <1>4, LeaveTyped DEF Logout, Leaving
<1> QED BY <1>1, <1>2, <1>3, <1>4, HydrateTyped, SignInTyped, ApplyTyped, LeavingTyped, SwitchTyped, VaultTyped, ServersTyped DEF Next

-----------------------------------------------------------------------------
(* One account at a time. What is kept or carried is of the server whose   *)
(* URL is set; that holds when nothing is started while something is in    *)
(* flight that it spoils (Settled).                                        *)
Spoiling == Both(Leaving, Entering \cup Opening) \cup Both(Entering, Entering)
Busy(t) == ~Free(t)
Apart == \A t, u \in Task : t # u /\ Busy(t) /\ Busy(u) => <<t, u>> \notin Spoiling

KeptAtHome ==
  /\ stored # None => stored.server = url
  /\ client # None => client.server = url /\ (client.bearer # None => client.bearer.server = url)
  /\ auth # None => auth.server = url
  /\ material \in {None, url}
  /\ key # None => auth # None /\ key = url

(* What t has on its way is of that server, too.                           *)
AtHome(t, r) ==
  /\ t \in Entering /\ r.at \in WithToken \cup {"asked"} /\ r.token # None => r.token.server = url
  /\ t \in Entering \cup Opening /\ r.at \in {"asked", "granted"} => r.to = url
  /\ t \in Entering /\ r.at = "stored" => stored = r.token

(* When something is under way, what is known of the session.              *)
Stage(t, r) ==
  /\ t = "hydrate" => (r.at # "idle" <=> hydrating)
  /\ t \in Entering /\ r.at # "idle" => auth = None /\ (t \in SignIn => ~hydrating)
  /\ t \in Opening /\ r.at # "idle" => auth # None
  /\ t \in Leaving /\ r.at # "idle" => key = None /\ (hydrating => auth = None /\ r.at \in {"forgotten", "moving"})
  /\ t \in Leaving /\ r.at = "left" => stored = None
  /\ t = "switch" /\ r.at \notin {"idle", "forgotten"} => material = None
  /\ t = "switch" /\ r.at \in {"forgotten", "moving"} => stored = None /\ auth = None

IInv ==
  /\ Types /\ Apart /\ KeptAtHome
  /\ \A t \in Task : AtHome(t, task[t]) /\ Stage(t, task[t])
  /\ OnlyHomeServer /\ StorageKeepsUp
LEMMA HomeInitial == Init => IInv
<1> SUFFICES ASSUME Init PROVE IInv
  OBVIOUS
<1>1. /\ url = None /\ stored = None /\ client = None /\ auth = None /\ material = None /\ key = None
      /\ hydrating = TRUE /\ presented = {}
  BY DEF Init
<1>2. \A t \in Task : task[t].at = IF t = "hydrate" THEN "reading" ELSE "idle"
  BY DEF Init, Restarted, Idle
<1>3. \A t \in Task : AtHome(t, task[t]) /\ Stage(t, task[t])
  BY <1>1, <1>2 DEF AtHome, Stage, WithToken, Entering, SignIn, Opening, Leaving
<1>4. Apart
  BY <1>2 DEF Apart, Busy, Free
<1> QED BY <1>1, <1>3, <1>4, Initial DEF IInv, KeptAtHome, OnlyHomeServer, StorageKeepsUp

(* Who enters is alone, who leaves meets only those who leave, and while   *)
(* the vault is opened nobody does either.                                 *)
LEMMA Company ==
  ASSUME IInv, NEW t \in Task, Busy(t), NEW u \in Task \ {t}, Busy(u)
  PROVE  /\ t \notin Entering
         /\ t \in Leaving => u \in Leaving
         /\ t \in Opening => u \in Opening
<1>1. <<t, u>> \notin Spoiling /\ <<u, t>> \notin Spoiling
  BY DEF IInv, Apart
<1>2. Stage(t, task[t]) /\ Stage(u, task[u])
  BY DEF IInv
<1>3. t \in Entering => u \notin Opening
  BY <1>2 DEF Stage, Busy, Free
<1>4. t \in Opening => u \notin Entering
  BY <1>2 DEF Stage, Busy, Free
<1> QED BY <1>1, <1>3, <1>4 DEF Spoiling, Both, Task, Entering, SignIn, Leaving, Opening

(* What is not under way is over, or is a hydration that has thrown.       *)
LEMMA AtRest ==
  ASSUME IInv, NEW t \in Task, ~Busy(t)
  PROVE  task[t].at = "idle" \/ (t = "hydrate" /\ task[t].at = "stranded" /\ hydrating /\ auth = None)
<1>1. Carries(t, task[t]) /\ Stage(t, task[t])
  BY DEF IInv, Types
<1> QED BY <1>1 DEF Carries, Stage, Busy, Free, Entering

(* Likewise when t is only being started.                                  *)
LEMMA MayJoin ==
  ASSUME IInv, Overlap \subseteq Settled, NEW t \in Task, MayStart(t)
  PROVE  /\ ~Busy(t)
         /\ \A u \in Task \ {t} : Busy(u) =>
              /\ <<t, u>> \notin Spoiling /\ <<u, t>> \notin Spoiling
              /\ t \in Leaving => u \in Leaving
              /\ t \in SignIn => u \in Opening
              /\ t \in Opening => u \notin Leaving
<1>0. Free(t)
  BY DEF MayStart
<1>1. ~Busy(t)
  BY <1>0 DEF Busy
<1>2. ASSUME NEW u \in Task \ {t}, Busy(u) PROVE <<t, u>> \in Settled
  BY <1>2 DEF MayStart, Busy
<1>3. \A u \in Task \ {t} : Busy(u) => <<t, u>> \notin Spoiling /\ <<u, t>> \notin Spoiling
  BY <1>2 DEF Settled, Spoiling, Both
<1> QED BY <1>1, <1>3 DEF Spoiling, Both, Task, Entering, SignIn, Leaving, Opening

LEMMA ApartKept ==
  ASSUME IInv, NEW t \in Task, NEW r \in Errand, Move(t, r),
         \/ Busy(t)
         \/ r.at \in {"idle", "stranded"}
         \/ \A u \in Task \ {t} : Busy(u) => <<t, u>> \notin Spoiling /\ <<u, t>> \notin Spoiling
  PROVE  Apart'
<1>1. task'[t] = r /\ \A u \in Task \ {t} : task'[u] = task[u]
  BY DEF IInv, Types, Move
<1> QED BY <1>1 DEF IInv, Apart, Busy, Free


(* While t enters or the vault opens it, nothing of the other operations   *)
(* is told apart; what is left to show of a step is about t itself.        *)
LEMMA EnteringHome ==
  ASSUME IInv, NEW t \in Entering, Busy(t), NEW r \in Errand, Move(t, r), Types', KeptAtHome', OnlyHomeServer', StorageKeepsUp',
         t # "hydrate" => hydrating' = hydrating,
         (AtHome(t, task[t]) /\ Stage(t, task[t]))'
  PROVE  IInv'
<1>2. t \in Task
  BY DEF Task, Entering, SignIn
<1>1. task'[t] = r /\ \A u \in Task \ {t} : task'[u] = task[u] /\ task[u].at = "idle"
  <2>1. task'[t] = r /\ \A u \in Task \ {t} : task'[u] = task[u] /\ ~Busy(u)
    BY <1>2, Company DEF IInv, Types, Move
  <2>2. task["hydrate"].at # "stranded" \/ t = "hydrate"
    BY DEF IInv, Stage, Busy, Free, Task, Entering, SignIn
  <2>3. \A u \in Task : task[u].at = "stranded" => u = "hydrate"
    BY DEF IInv, Types, Carries
  <2> QED BY <2>1, <2>2, <2>3 DEF Busy, Free
<1>3. Apart'
  BY <1>2, ApartKept
<1>4. \A u \in Task \ {t} : Stage(u, task[u])
  BY DEF IInv
<1>5. \A u \in Task \ {t} : (AtHome(u, task[u]) /\ Stage(u, task[u]))'
  BY <1>1, <1>4 DEF AtHome, Stage, WithToken
<1> QED BY <1>3, <1>5 DEF IInv

(* What a request is sent with is of the server it is sent to.             *)
LEMMA BuiltHome ==
  ASSUME Types, KeptAtHome, url # None
  PROVE  /\ GetApiClient \in Client /\ GetApiClient.server = url
         /\ GetApiClient.bearer # None => GetApiClient.bearer.server = url
BY Built DEF KeptAtHome, ClientOf

LEMMA HydrateHome == ASSUME IInv, Hydrate, Types' PROVE IInv'
<1> DEFINE h == task["hydrate"]
<1>0. "hydrate" \in Task /\ "hydrate" \in Entering /\ "hydrate" \notin Opening \cup Leaving \cup SignIn
      /\ h \in Errand /\ Carries("hydrate", h) /\ Idle \in Errand
  BY ErrandOf, IdleErrand DEF IInv, Task, Entering, SignIn, Opening, Leaving
<1>1. Busy("hydrate")
  BY DEF Hydrate, HydrateRead, HydrateAsk, HydrateStore, HydrateForget, HydrateReset, HydrateFail, At, Busy, Free
<1>2. hydrating /\ auth = None /\ key = None /\ AtHome("hydrate", h) /\ KeptAtHome /\ OnlyHomeServer /\ Types
  BY <1>0, <1>1 DEF IInv, Stage, Busy, Free, KeptAtHome
<1>3. ASSUME NEW r \in Errand, Move("hydrate", r), auth' = None, key' = None, url' = url, KeptAtHome', OnlyHomeServer',
             hydrating' = (r.at # "idle"),
             r.at \in WithToken \cup {"asked"} /\ r.token # None => r.token.server = url,
             r.at \in {"asked", "granted"} => r.to = url,
             r.at = "stored" => stored' = r.token
      PROVE  IInv'
  <2>1. task'["hydrate"] = r
    BY <1>0, <1>2, <1>3 DEF Types, Move
  <2>2. (AtHome("hydrate", task["hydrate"]) /\ Stage("hydrate", task["hydrate"]))'
    BY <1>0, <1>3, <2>1 DEF AtHome, Stage
  <2>3. StorageKeepsUp'
    BY <1>3 DEF StorageKeepsUp
  <2> QED BY <1>0, <1>1, <1>3, <2>2, <2>3, EnteringHome
<1>4. CASE HydrateRead
  <2>1. CASE stored = None
    BY <1>0, <1>2, <1>3, <1>4, <2>1 DEF HydrateRead, storage, vault, servers, Idle, KeptAtHome, OnlyHomeServer, WithToken
  <2>2. CASE stored # None
    <3> DEFINE r == [h EXCEPT !.at = "read", !.token = stored]
    <3>1. r \in Errand
      BY <1>0, <1>2 DEF Types, Errand, Place
    <3> QED BY <1>0, <1>2, <1>3, <1>4, <2>2, <3>1 DEF HydrateRead, storage, vault, servers, KeptAtHome, OnlyHomeServer, Errand
  <2> QED BY <2>1, <2>2
<1>5. CASE HydrateAsk
  <2>1. url # None /\ h.token # None /\ h.token.server = url
    BY <1>0, <1>2, <1>5 DEF HydrateAsk, At, Carries, WithToken, AtHome, Types, Quiet
  <2>2. client' \in Client /\ client'.server = url /\ (client'.bearer # None => client'.bearer.server = url)
    BY <1>2, <1>5, <2>1, BuiltHome DEF HydrateAsk
  <2>3. OnlyHomeServer' /\ KeptAtHome'
    BY <1>2, <1>5, <2>1, <2>2 DEF HydrateAsk, Present, OnlyHomeServer, KeptAtHome, storage, session, vault
  <2> DEFINE r == [h EXCEPT !.at = "asked", !.to = client'.server, !.epoch = epoch]
  <2>4. r \in Errand
    BY <1>0, <1>2, <2>2 DEF Types, Errand, Place, Client
  <2> QED BY <1>0, <1>2, <1>3, <1>5, <2>1, <2>2, <2>3, <2>4 DEF HydrateAsk, storage, session, vault, servers, Errand
<1>6. CASE HydrateStore
  <2>1. h.token # None /\ h.token.server = url
    BY <1>0, <1>2, <1>6 DEF HydrateStore, At, Carries, WithToken, AtHome
  <2>2. CASE h.epoch # epoch
    BY <1>0, <1>2, <1>3, <1>6, <2>2 DEF HydrateStore, vault, servers, Idle, KeptAtHome, OnlyHomeServer, WithToken
  <2>3. CASE h.epoch = epoch
    <3> DEFINE r == [h EXCEPT !.at = "stored"]
    <3>1. r \in Errand /\ Move("hydrate", r)
      BY <1>0, <1>6, <2>3 DEF HydrateStore, Step, Errand, Place
    <3>2. stored' = h.token /\ KeptAtHome' /\ OnlyHomeServer'
      BY <1>2, <1>6, <2>1, <2>3 DEF HydrateStore, Store, vault, KeptAtHome, OnlyHomeServer
    <3> QED BY <1>0, <1>2, <1>3, <1>6, <2>1, <2>3, <3>1, <3>2 DEF HydrateStore, vault, Errand
  <2> QED BY <2>2, <2>3
<1>7. CASE HydrateForget
  <2>1. CASE Step("hydrate", "forgotten") /\ Forget
    <3> DEFINE r == [h EXCEPT !.at = "forgotten"]
    <3>1. r \in Errand /\ Move("hydrate", r)
      BY <1>0, <2>1 DEF Step, Errand, Place
    <3> QED BY <1>0, <1>2, <1>3, <1>7, <2>1, <3>1
        DEF HydrateForget, Forget, session, vault, Errand, KeptAtHome, OnlyHomeServer, WithToken
  <2>2. CASE Move("hydrate", Stranded) /\ UNCHANGED stored
    <3>1. Stranded \in Errand /\ Stranded.at = "stranded"
      BY <1>0 DEF Stranded, Idle, Errand, Place
    <3> QED BY <1>0, <1>2, <1>3, <1>7, <2>2, <3>1
        DEF HydrateForget, session, vault, KeptAtHome, OnlyHomeServer, WithToken
  <2> QED BY <1>7, <2>1, <2>2 DEF HydrateForget
<1>8. CASE HydrateReset
  BY <1>0, <1>2, <1>3, <1>8 DEF HydrateReset, Teardown, storage, Idle, KeptAtHome, OnlyHomeServer, WithToken
<1>9. CASE HydrateFail
  BY <1>0, <1>2, <1>3, <1>9 DEF HydrateFail, storage, vault, Idle, KeptAtHome, OnlyHomeServer, WithToken
<1> QED BY <1>4, <1>5, <1>6, <1>7, <1>8, <1>9 DEF Hydrate

LEMMA SignInHome ==
  ASSUME IInv, Overlap \subseteq Settled, NEW t \in SignIn, SignInAsk(t) \/ SignInStore(t) \/ SignInFail(t), Types'
  PROVE  IInv'
<1> DEFINE h == task[t]
<1>0. t \in Task /\ t \in Entering /\ t # "hydrate" /\ t \notin Opening \cup Leaving
      /\ h \in Errand /\ Carries(t, h) /\ Idle \in Errand
  BY ErrandOf, IdleErrand DEF IInv, Task, Entering, SignIn, Opening, Leaving
<1>1. KeptAtHome /\ OnlyHomeServer /\ StorageKeepsUp /\ Types /\ AtHome(t, h) /\ Stage(t, h)
  BY <1>0 DEF IInv
<1>2. ASSUME NEW r \in Errand, Move(t, r), UNCHANGED <<url, vault, presented>>, auth' = None, key = None, hydrating' = hydrating, KeptAtHome',
             ~hydrating,
             r.at \in WithToken \cup {"asked"} /\ r.token # None => r.token.server = url,
             r.at \in {"asked", "granted"} => r.to = url,
             r.at = "stored" => stored' = r.token
      PROVE  (AtHome(t, task[t]) /\ Stage(t, task[t]))' /\ OnlyHomeServer' /\ StorageKeepsUp'
  <2>1. task'[t] = r
    BY <1>0, <1>1, <1>2 DEF Types, Move
  <2> QED BY <1>0, <1>1, <1>2, <2>1 DEF AtHome, Stage, SignIn, OnlyHomeServer, StorageKeepsUp
<1>3. CASE SignInAsk(t)
  <2>1. auth = None /\ ~hydrating /\ key = None /\ url # None
    BY <1>1, <1>3 DEF SignInAsk, ConnectedGuest, Guest, KeptAtHome
  <2>2. \A u \in Task \ {t} : ~Busy(u)
    <3>1. \A u \in Task \ {t} : Busy(u) => u \in Opening
      BY <1>0, <1>3, MayJoin DEF SignInAsk
    <3> QED BY <2>1, <3>1 DEF IInv, Stage, Busy, Free
  <2>3. client' \in Client /\ client'.server = url /\ (client'.bearer # None => client'.bearer.server = url)
    BY <1>1, <1>3, <2>1, BuiltHome DEF SignInAsk
  <2> DEFINE r == [Idle EXCEPT !.at = "asked", !.to = client'.server, !.token = None, !.target = None]
  <2>4. r \in Errand /\ Move(t, r)
    BY <1>0, <1>3, <2>3 DEF SignInAsk, Ask, Errand, Place, Client, Idle
  <2>5. KeptAtHome'
    BY <1>1, <1>3, <2>3 DEF SignInAsk, KeptAtHome, storage, session, vault
  <2>6. (AtHome(t, task[t]) /\ Stage(t, task[t]))' /\ OnlyHomeServer' /\ StorageKeepsUp'
    BY <1>0, <1>1, <1>2, <1>3, <2>1, <2>3, <2>4, <2>5 DEF SignInAsk, Idle, storage, session, vault, WithToken
  <2>7. Apart'
    BY <1>0, <2>2, <2>4, ApartKept
  <2>8. \A u \in Task \ {t} : task'[u] = task[u] /\ task[u].at = "idle" /\ Stage(u, task[u])
    BY <1>1, <2>1, <2>2, <2>4, AtRest DEF IInv, Types, Move
  <2>9. \A u \in Task \ {t} : (AtHome(u, task[u]) /\ Stage(u, task[u]))'
    BY <1>3, <2>8 DEF SignInAsk, session, AtHome, Stage, WithToken
  <2> QED BY <2>5, <2>6, <2>7, <2>9 DEF IInv
<1>4. CASE SignInStore(t)
  <2> DEFINE r == [h EXCEPT !.at = "stored"]
  <2>1. r \in Errand /\ Move(t, r) /\ Busy(t) /\ h.token.server = url /\ auth = None /\ key = None /\ ~hydrating
    BY <1>0, <1>1, <1>4 DEF SignInStore, Step, At, Busy, Free, Errand, Place, Carries, WithToken, AtHome, Stage, KeptAtHome
  <2>2. KeptAtHome' /\ stored' = h.token
    BY <1>1, <1>4, <2>1 DEF SignInStore, Store, KeptAtHome, session, vault
  <2>3. (AtHome(t, task[t]) /\ Stage(t, task[t]))' /\ OnlyHomeServer' /\ StorageKeepsUp'
    BY <1>2, <1>4, <2>1, <2>2 DEF SignInStore, session, Errand
  <2> QED BY <1>0, <1>4, <2>1, <2>2, <2>3, EnteringHome DEF SignInStore, session, IInv
<1>5. CASE SignInFail(t)
  <2>1. Busy(t) /\ auth = None /\ key = None /\ ~hydrating
    BY <1>0, <1>1, <1>5 DEF SignInFail, Busy, Free, Stage, KeptAtHome
  <2>2. KeptAtHome'
    BY <1>1, <1>5, <2>1 DEF SignInFail, KeptAtHome, storage, session, vault
  <2>3. (AtHome(t, task[t]) /\ Stage(t, task[t]))' /\ OnlyHomeServer' /\ StorageKeepsUp'
    BY <1>0, <1>2, <1>5, <2>1, <2>2 DEF SignInFail, storage, session, Idle, WithToken
  <2> QED BY <1>0, <1>5, <2>1, <2>2, <2>3, EnteringHome DEF SignInFail, session
<1> QED BY <1>3, <1>4, <1>5

LEMMA ApplyHome == ASSUME IInv, NEW t \in Entering, Apply(t), Types' PROVE IInv'
<1> DEFINE h == task[t]
<1>0. t \in Task /\ t \notin Opening \cup Leaving /\ h \in Errand /\ Carries(t, h) /\ Idle \in Errand
  BY ErrandOf, IdleErrand DEF IInv, Task, Entering, SignIn, Opening, Leaving
<1>1. KeptAtHome /\ OnlyHomeServer /\ Types /\ AtHome(t, h) /\ Stage(t, h) /\ Busy(t)
  BY <1>0 DEF IInv, Apply, At, Busy, Free
<1>2. auth = None /\ key = None /\ stored = h.token /\ h.token \in Token /\ h.token.server = url /\ url # None
  BY <1>0, <1>1 DEF Apply, At, Stage, AtHome, KeptAtHome, Carries, WithToken, Errand, Types, Quiet, Busy
<1>3. client' = ClientOf(url, h.token)
  BY <1>1, <1>2, BuiltHome DEF Apply
<1>4. key' \in {None, url} /\ material' \in {None, url}
  BY <1>1, <1>2 DEF Apply, vault, KeptAtHome
<1>5. KeptAtHome'
  BY <1>2, <1>3, <1>4, NoTokenAssumption DEF Apply, KeptAtHome, ClientOf, storage
<1>6. task'[t] = Idle /\ Move(t, Idle)
  BY <1>0, <1>1 DEF Apply, Types, Move
<1>7. t # "hydrate" => ~hydrating /\ hydrating' = hydrating
  BY <1>1 DEF Apply, Stage, Busy, Free, Entering
<1>8. (AtHome(t, task[t]) /\ Stage(t, task[t]))'
  BY <1>0, <1>6, <1>7 DEF Apply, AtHome, Stage, Idle, WithToken
<1>9. StorageKeepsUp' /\ OnlyHomeServer'
  BY <1>1, <1>2 DEF Apply, StorageKeepsUp, OnlyHomeServer, storage
<1> QED BY <1>0, <1>1, <1>5, <1>6, <1>7, <1>8, <1>9, EnteringHome

(* A step of one who leaves: nobody but they is about, and none of what    *)
(* they do brings anything back.                                           *)
LEMMA LeavingHome ==
  ASSUME IInv, NEW t \in Leaving, NEW r \in Errand, Move(t, r), Types',
         \A u \in Task \ {t} : Busy(u) => u \in Leaving /\ <<t, u>> \notin Spoiling /\ <<u, t>> \notin Spoiling,
         UNCHANGED url \/ (t = "switch" /\ r = Idle),
         hydrating' = hydrating, r.at = "idle" \/ key' = None,
         hydrating => auth = None /\ r.at \in {"idle", "forgotten", "moving"},
         stored' \in {stored, None}, auth' \in {auth, None}, material' \in {material, None},
         key' \in {key, None}, key = None \/ key' = None,
         KeptAtHome', OnlyHomeServer', StorageKeepsUp',
         r.at = "left" => stored' = None,
         t = "switch" /\ r.at \notin {"idle", "forgotten"} => material' = None,
         t = "switch" /\ r.at \in {"forgotten", "moving"} => stored' = None /\ auth' = None
  PROVE  IInv'
<1>0. t \in Task /\ t \notin Entering \cup Opening /\ Leaving \cap (Entering \cup Opening) = {} /\ "hydrate" \notin Leaving
  BY DEF Task, Entering, SignIn, Opening, Leaving
<1>1. task'[t] = r /\ \A u \in Task \ {t} : task'[u] = task[u]
  BY <1>0 DEF IInv, Types, Move
<1>2. Apart'
  BY <1>0, ApartKept
<1>3. \A u \in Task : Stage(u, task[u])
  BY DEF IInv
<1>4. \A u \in Task \ {t} : Busy(u) => u \in Leaving
  OBVIOUS
<1>5. \A u \in Task \ {t} : (AtHome(u, task[u]) /\ Stage(u, task[u]))'
  <2>1. ASSUME NEW u \in Task \ {t}, Busy(u) PROVE (AtHome(u, task[u]) /\ Stage(u, task[u]))'
    BY <1>0, <1>1, <1>3, <1>4, <2>1 DEF AtHome, Stage
  <2>2. ASSUME NEW u \in Task \ {t}, ~Busy(u) PROVE (AtHome(u, task[u]) /\ Stage(u, task[u]))'
    <3>1. task[u].at = "idle" \/ (u = "hydrate" /\ task[u].at = "stranded" /\ hydrating /\ auth = None)
      BY <2>2, AtRest
    <3> QED BY <1>0, <1>1, <1>3, <3>1 DEF AtHome, Stage, WithToken, SignIn, Opening
  <2> QED BY <2>1, <2>2
<1>6. (AtHome(t, task[t]) /\ Stage(t, task[t]))'
  BY <1>0, <1>1 DEF AtHome, Stage
<1> QED BY <1>2, <1>5, <1>6 DEF IInv

LEMMA LeaveHome ==
  ASSUME IInv, Overlap \subseteq Settled, NEW t \in Leaving, MayStart(t),
         NEW s \in Server \cup {None}, Leave(t, s), Types'
  PROVE  IInv'
<1>0. t \in Task /\ Idle \in Errand
  BY IdleErrand DEF Task, Leaving
<1>1. Types /\ KeptAtHome /\ OnlyHomeServer /\ StorageKeepsUp /\ auth # None /\ url # None
  BY DEF IInv, Leave, Types
<1>2. \A u \in Task \ {t} : Busy(u) => u \in Leaving /\ <<t, u>> \notin Spoiling /\ <<u, t>> \notin Spoiling
  BY <1>0, MayJoin
<1>3. client' \in Client /\ client'.server = url /\ (client'.bearer # None => client'.bearer.server = url)
  BY <1>1, BuiltHome DEF Leave
<1> DEFINE r == [Idle EXCEPT !.at = "asked", !.to = client'.server, !.token = client'.bearer, !.target = s]
<1>4. r \in Errand /\ Move(t, r)
  BY <1>0, <1>3 DEF Leave, Ask, Errand, Place, Client, Idle
<1>5. OnlyHomeServer' /\ KeptAtHome'
  BY <1>1, <1>3 DEF Leave, Teardown, Present, OnlyHomeServer, KeptAtHome, storage
<1>6. ~hydrating
  BY <1>1 DEF IInv, Stage, Busy, Free, Task, Entering
<1>7. StorageKeepsUp'
  <2>1. \A u \in Leaving : At(u, "left") => u # t
    BY <1>0, MayJoin DEF At, Busy, Free
  <2>2. \A u \in Leaving : At(u, "left") => At(u, "left")'
    BY <1>0, <1>1, <1>4, <2>1 DEF At, Move, Types, Leaving, Task
  <2> QED BY <1>1, <2>2 DEF StorageKeepsUp, Leave, storage
<1> QED BY <1>0, <1>1, <1>2, <1>3, <1>4, <1>5, <1>6, <1>7, LeavingHome DEF Leave, Teardown, storage, Idle

LEMMA LeaveStepHome ==
  ASSUME IInv, NEW t \in Leaving, LeaveForget(t) \/ LeaveFail(t) \/ LeaveReset(t), Types'
  PROVE  IInv'
<1> DEFINE h == task[t]
<1>0. t \in Task /\ h \in Errand /\ Idle \in Errand /\ Stage(t, h) /\ Busy(t)
  BY ErrandOf, IdleErrand DEF IInv, Task, Leaving, LeaveForget, LeaveFail, LeaveReset, At, Busy, Free
<1>1. KeptAtHome /\ OnlyHomeServer /\ StorageKeepsUp /\ key = None
  BY <1>0 DEF IInv, Stage, Busy, Free
<1>2. \A u \in Task \ {t} : Busy(u) => u \in Leaving /\ <<t, u>> \notin Spoiling /\ <<u, t>> \notin Spoiling
  BY <1>0, Company DEF IInv, Apart
<1>3. CASE LeaveForget(t)
  <2> DEFINE r == [h EXCEPT !.at = "left"]
  <2>1. r \in Errand /\ Move(t, r)
    BY <1>0, <1>3 DEF LeaveForget, Step, Errand, Place
  <2>2. KeptAtHome' /\ OnlyHomeServer'
    BY <1>1, <1>3 DEF LeaveForget, Forget, KeptAtHome, OnlyHomeServer, session, vault
  <2>3. At(t, "left")'
    BY <1>0, <2>1 DEF IInv, Types, Move, At, Errand
  <2>4. h.at \notin {"idle", "forgotten"}
    BY <1>3 DEF LeaveForget
  <2>5. t = "switch" => material = None
    BY <1>0, <2>4 DEF Stage
  <2>6. StorageKeepsUp'
    BY <2>3 DEF StorageKeepsUp
  <2>7. ~hydrating
    BY <1>0, <1>3 DEF LeaveForget, Stage
  <2> QED BY <1>0, <1>1, <1>2, <1>3, <2>1, <2>2, <2>5, <2>6, <2>7, LeavingHome DEF LeaveForget, Forget, session, vault, Errand
<1>4. CASE LeaveReset(t)
  <2>1. stored = None /\ (t = "switch" => material = None)
    BY <1>0, <1>4 DEF LeaveReset, At, Stage
  <2>2. KeptAtHome' /\ OnlyHomeServer' /\ StorageKeepsUp'
    BY <1>1, <1>4 DEF LeaveReset, KeptAtHome, OnlyHomeServer, StorageKeepsUp, storage, vault
  <2>3. PICK r \in Errand : Move(t, r) /\ r.at \in {"idle", "moving"}
    BY <1>0, <1>4 DEF LeaveReset, Step, Errand, Place, Idle
  <2>4. hydrating = FALSE /\ hydrating' = FALSE
    BY <1>0, <1>4 DEF LeaveReset, At, Stage, IInv, Types
  <2> QED BY <1>0, <1>1, <1>2, <1>4, <2>1, <2>2, <2>3, <2>4, LeavingHome DEF LeaveReset, storage, vault
<1>5. CASE LeaveFail(t)
  <2>1. KeptAtHome' /\ OnlyHomeServer'
    BY <1>1, <1>5 DEF LeaveFail, KeptAtHome, OnlyHomeServer, storage, session, vault
  <2>2. \A u \in Leaving : At(u, "left") => At(u, "left")'
    BY <1>0, <1>5 DEF LeaveFail, IInv, Types, Move, At, Leaving, Task
  <2>3. StorageKeepsUp'
    BY <1>1, <1>5, <2>2 DEF LeaveFail, StorageKeepsUp, storage, session
  <2>4. ~hydrating
    BY <1>0, <1>5 DEF LeaveFail, Stage
  <2> QED BY <1>0, <1>1, <1>2, <1>5, <2>1, <2>3, <2>4, LeavingHome DEF LeaveFail, storage, session, vault, Idle
<1> QED BY <1>3, <1>4, <1>5

LEMMA SwitchHome ==
  ASSUME IInv, Overlap \subseteq Settled, (\E s \in Server : Switch(s)) \/ SwitchTeardown \/ SwitchMove \/ SwitchFail \/ Reconnect, Types'
  PROVE  IInv'
<1> DEFINE h == task["switch"]
<1>0. "switch" \in Task /\ "switch" \in Leaving /\ h \in Errand /\ Idle \in Errand /\ Stage("switch", h)
  BY ErrandOf, IdleErrand DEF IInv, Task, Leaving
<1>1. KeptAtHome /\ OnlyHomeServer /\ StorageKeepsUp /\ Types
  BY DEF IInv
<1>2. Busy("switch") => /\ key = None
                        /\ \A u \in Task \ {"switch"} : Busy(u) => u \in Leaving /\ <<"switch", u>> \notin Spoiling /\ <<u, "switch">> \notin Spoiling
  BY <1>0, Company DEF IInv, Apart, Stage, Busy, Free
<1>3. ASSUME NEW s \in Server, Switch(s) PROVE IInv'
  <2>1. CASE Leave("switch", s)
    BY <1>0, <1>3, <2>1, LeaveHome DEF Switch
  <2>2. CASE ~Leave("switch", s)
    <3> DEFINE r == [Idle EXCEPT !.at = "forgotten", !.target = s]
    <3>1. auth = None /\ stored' = None /\ Move("switch", r) /\ UNCHANGED <<url, client, session, vault, servers, presented>>
      BY <1>3, <2>2 DEF Switch, Forget
    <3>2. r \in Errand
      BY <1>0 DEF Errand, Place
    <3>3. \A u \in Task \ {"switch"} : Busy(u) => u \in Leaving /\ <<"switch", u>> \notin Spoiling /\ <<u, "switch">> \notin Spoiling
      BY <1>0, <1>3, MayJoin DEF Switch
    <3>5. KeptAtHome' /\ OnlyHomeServer' /\ StorageKeepsUp'
      BY <1>1, <3>1 DEF KeptAtHome, OnlyHomeServer, StorageKeepsUp, session, vault
    <3>6. key = None
      BY <1>1, <3>1 DEF KeptAtHome
    <3> QED BY <1>0, <3>1, <3>2, <3>3, <3>5, <3>6, LeavingHome DEF session, vault, Idle
  <2> QED BY <2>1, <2>2
<1>4. CASE SwitchTeardown
  <2> DEFINE r == [h EXCEPT !.at = "moving"]
  <2>1. r \in Errand /\ Move("switch", r) /\ Busy("switch") /\ stored = None /\ auth = None
    BY <1>0, <1>4 DEF SwitchTeardown, Step, At, Busy, Free, Errand, Place, Stage
  <2>2. KeptAtHome' /\ OnlyHomeServer' /\ StorageKeepsUp'
    BY <1>1, <1>4, <2>1 DEF SwitchTeardown, Teardown, KeptAtHome, OnlyHomeServer, StorageKeepsUp, storage, session
  <2> QED BY <1>0, <1>2, <1>4, <2>1, <2>2, LeavingHome DEF SwitchTeardown, Teardown, storage, session, Errand
<1>5. CASE SwitchMove
  <2>1. Busy("switch") /\ stored = None /\ auth = None /\ material = None
    BY <1>0, <1>5 DEF SwitchMove, At, Busy, Free, Stage
  <2>2. KeptAtHome' /\ OnlyHomeServer' /\ StorageKeepsUp'
    BY <1>1, <1>2, <1>5, <2>1 DEF SwitchMove, KeptAtHome, OnlyHomeServer, StorageKeepsUp, session, vault
  <2> QED BY <1>0, <1>2, <1>5, <2>1, <2>2, LeavingHome DEF SwitchMove, session, vault, Idle
<1>6. CASE Reconnect
  <2>1. KeptAtHome' /\ OnlyHomeServer' /\ StorageKeepsUp' /\ Apart'
    BY <1>1, <1>6 DEF IInv, Reconnect, KeptAtHome, OnlyHomeServer, StorageKeepsUp, Apart, Busy, Free, At, storage, session, vault
  <2>2. \A u \in Task : (AtHome(u, task[u]) /\ Stage(u, task[u]))'
    BY <1>6 DEF IInv, Reconnect, AtHome, Stage, storage, session, vault
  <2> QED BY <2>1, <2>2 DEF IInv
<1>7. CASE SwitchFail
  <2>1. Busy("switch") /\ stored = None /\ auth = None /\ material = None
    BY <1>0, <1>7 DEF SwitchFail, At, Busy, Free, Stage
  <2>2. KeptAtHome' /\ OnlyHomeServer' /\ StorageKeepsUp'
    BY <1>1, <1>7, <2>1 DEF SwitchFail, KeptAtHome, OnlyHomeServer, StorageKeepsUp, storage, session, vault
  <2> QED BY <1>0, <1>2, <1>7, <2>1, <2>2, LeavingHome DEF SwitchFail, storage, session, vault, Idle
<1> QED BY <1>3, <1>4, <1>5, <1>6, <1>7

(* A step of the vault, or a start of one: nobody enters or leaves.        *)
LEMMA OpeningHome ==
  ASSUME IInv, NEW t \in Opening, NEW r \in Errand, Move(t, r), Types',
         \A u \in Task \ {t} : Busy(u) => u \in Opening, ~hydrating,
         UNCHANGED <<storage, auth, hydrating>>, KeptAtHome', OnlyHomeServer',
         r.at # "idle" => auth # None, r.at \in {"asked", "granted"} => r.to = url
  PROVE  IInv'
<1>0. t \in Task /\ t \notin Entering \cup Leaving /\ Opening \cap (Entering \cup Leaving \cup {"hydrate", "switch"}) = {}
  BY DEF Task, Entering, SignIn, Opening, Leaving
<1>1. task'[t] = r /\ \A u \in Task \ {t} : task'[u] = task[u]
  BY <1>0 DEF IInv, Types, Move
<1>2. \A u \in Task \ {t} : Busy(u) => <<t, u>> \notin Spoiling /\ <<u, t>> \notin Spoiling
  BY <1>0 DEF Spoiling, Both
<1>3. Apart'
  BY <1>0, <1>2, ApartKept
<1>4. \A u \in Task \ {t} : AtHome(u, task[u]) /\ Stage(u, task[u])
  BY DEF IInv
<1>5. \A u \in Task \ {t} : (AtHome(u, task[u]) /\ Stage(u, task[u]))'
  <2>1. \A u \in Task \ {t} : u \in Opening \/ task[u].at = "idle"
    BY AtRest
  <2> QED BY <1>0, <1>1, <1>4, <2>1 DEF AtHome, Stage, WithToken, storage
<1>6. (AtHome(t, task[t]) /\ Stage(t, task[t]))'
  BY <1>0, <1>1 DEF AtHome, Stage, storage
<1>7. ASSUME NEW u \in Leaving PROVE ~At(u, "left")
  <2>1. u \in Task \ {t} /\ u \notin Opening
    BY <1>0, <1>7 DEF Task, Leaving
  <2> QED BY <2>1 DEF At, Busy, Free
<1>8. StorageKeepsUp'
  BY <1>7 DEF IInv, StorageKeepsUp, storage
<1> QED BY <1>3, <1>5, <1>6, <1>8 DEF IInv

LEMMA VaultHome ==
  ASSUME IInv, Overlap \subseteq Settled, Unlock \/ UnlockReply \/ Rotate \/ RotateReply \/ Lock \/ \E t \in Opening : VaultFail(t), Types'
  PROVE  IInv'
<1>0. /\ \A t \in Opening : t \in Task /\ task[t] \in Errand /\ Stage(t, task[t]) /\ AtHome(t, task[t])
      /\ Idle \in Errand /\ "unlock" \in Opening /\ "rotate" \in Opening /\ "hydrate" \notin Opening /\ "hydrate" \in Task
  BY ErrandOf, IdleErrand DEF IInv, Task, Opening
<1>1. KeptAtHome /\ OnlyHomeServer /\ Types /\ Stage("hydrate", task["hydrate"])
  BY <1>0 DEF IInv
<1>2. ASSUME NEW t \in Opening, Busy(t)
      PROVE  ~hydrating /\ auth # None /\ \A u \in Task \ {t} : Busy(u) => u \in Opening
  <2>1. \A u \in Task \ {t} : Busy(u) => u \in Opening
    BY <1>0, <1>2, Company
  <2>2. "hydrate" \in Task \ {t}
    BY <1>0
  <2>3. ~Busy("hydrate")
    BY <1>0, <2>1, <2>2
  <2> QED BY <1>0, <1>1, <1>2, <2>1, <2>3 DEF Stage, Busy, Free, Entering
<1>3. ASSUME NEW t \in Opening, MayStart(t), auth # None
      PROVE  ~hydrating /\ \A u \in Task \ {t} : Busy(u) => u \in Opening
  <2>1. \A u \in Task \ {t} : Busy(u) => u \notin Leaving
    BY <1>0, <1>3, MayJoin
  <2>2. \A u \in Task \ {t} : Busy(u) => u \notin Entering
    BY <1>3 DEF IInv, Stage, Busy, Free
  <2>3. ~hydrating
    BY <1>1, <1>3 DEF IInv, Stage, Task, Entering
  <2> QED BY <2>1, <2>2, <2>3 DEF Task, Entering, SignIn, Leaving, Opening
<1>4. ASSUME NEW t \in Opening, MayStart(t), auth # None, client' = GetApiClient, Present(client', client'.bearer),
             Ask(t, client', client'.bearer, None), UNCHANGED <<storage, session, vault, servers>>
      PROVE  IInv'
  <2>1. url # None
    BY <1>1, <1>4 DEF Types
  <2>2. client' \in Client /\ client'.server = url /\ (client'.bearer # None => client'.bearer.server = url)
    BY <1>1, <1>4, <2>1, BuiltHome
  <2> DEFINE r == [Idle EXCEPT !.at = "asked", !.to = client'.server, !.token = client'.bearer, !.target = None]
  <2>3. r \in Errand /\ Move(t, r)
    BY <1>0, <1>4, <2>2 DEF Ask, Errand, Place, Client, Idle
  <2>4. KeptAtHome' /\ OnlyHomeServer'
    BY <1>1, <1>4, <2>2 DEF Present, KeptAtHome, OnlyHomeServer, storage, session, vault
  <2>5. r.at = "asked" /\ r.to = url
    BY <2>2 DEF Idle
  <2> QED BY <1>3, <1>4, <2>3, <2>4, <2>5, OpeningHome DEF session
<1>5. ASSUME UNCHANGED <<storage, client, session, task, presented>>, key' = None \/ (auth # None /\ key' = material /\ material # None), UNCHANGED material,
             \A u \in Leaving : Busy(u) => key' = None
      PROVE  IInv'
  <2>1. KeptAtHome' /\ OnlyHomeServer' /\ StorageKeepsUp' /\ Apart'
    BY <1>1, <1>5 DEF IInv, KeptAtHome, OnlyHomeServer, StorageKeepsUp, Apart, Busy, Free, At, storage, session
  <2>2. \A u \in Task : (AtHome(u, task[u]) /\ Stage(u, task[u]))'
    <3>1. \A u \in Leaving : u \in Task /\ (Busy(u) \/ task[u].at = "idle")
      BY AtRest DEF Task, Leaving
    <3> QED BY <1>5, <3>1 DEF IInv, AtHome, Stage, storage, session
  <2> QED BY <2>1, <2>2 DEF IInv
<1>6. CASE Unlock
  <2>1. CASE UNCHANGED <<client, task, presented>> /\ material # None /\ key' = material
    <3>1. \A u \in Leaving : ~Busy(u)
      BY <1>0, <1>3, <1>6 DEF Unlock, Leaving, Opening, Task
    <3> QED BY <1>5, <1>6, <2>1, <3>1 DEF Unlock
  <2>2. CASE Ask("unlock", client', client'.bearer, None) /\ client' = GetApiClient /\ Present(client', client'.bearer) /\ UNCHANGED key
    BY <1>0, <1>4, <1>6, <2>2 DEF Unlock, vault
  <2> QED BY <1>6, <2>1, <2>2 DEF Unlock
<1>7. CASE Rotate
  BY <1>0, <1>4, <1>7 DEF Rotate
<1>8. ASSUME NEW t \in Opening, At(t, "granted"), key' = task[t].to, material' = task[t].to, Move(t, Idle),
             UNCHANGED <<storage, client, auth, hydrating, epoch, servers, presented>>
      PROVE  IInv'
  <2>1. task[t].to = url /\ Busy(t)
    BY <1>0, <1>8 DEF At, AtHome, Busy, Free
  <2>2. KeptAtHome' /\ OnlyHomeServer'
    BY <1>1, <1>2, <1>8, <2>1 DEF KeptAtHome, OnlyHomeServer, storage
  <2> QED BY <1>0, <1>2, <1>8, <2>1, <2>2, OpeningHome DEF Idle
<1>9. CASE UnlockReply \/ RotateReply
  BY <1>0, <1>8, <1>9 DEF UnlockReply, RotateReply, session
<1>10. CASE Lock
  BY <1>5, <1>10 DEF Lock
<1>11. ASSUME NEW t \in Opening, VaultFail(t) PROVE IInv'
  <2>1. Busy(t)
    BY <1>11 DEF VaultFail, Busy, Free
  <2>2. KeptAtHome' /\ OnlyHomeServer'
    BY <1>1, <1>11 DEF VaultFail, KeptAtHome, OnlyHomeServer, storage, session, vault
  <2> QED BY <1>0, <1>2, <1>11, <2>1, <2>2, OpeningHome DEF VaultFail, storage, session, Idle
<1> QED BY <1>6, <1>7, <1>9, <1>10, <1>11

(* An answer, or its loss: only the operation that waits for it moves.     *)
LEMMA ServersHome ==
  ASSUME IInv, NEW t \in Task, Grant(t) \/ Refuse(t) \/ Unreachable(t), Types'
  PROVE  IInv'
<1> DEFINE h == task[t]
<1>0. h \in Errand /\ Carries(t, h) /\ AtHome(t, h) /\ Stage(t, h)
  BY ErrandOf DEF IInv
<1>1. UNCHANGED <<storage, client, session, vault, presented>>
  BY DEF Grant, Refuse, Unreachable, servers
<1>2. ASSUME NEW r \in Errand, Move(t, r), h.at \notin {"idle", "reading", "forgotten", "left", "moving", "stranded"},
             r.at \in {"granted", "refused", "failed"},
             t \in Entering /\ r.at = "granted" => r.token.server = url, r.to = h.to,
             r.at = "granted" => h.at = "asked"
      PROVE  IInv'
  <2>1. task'[t] = r /\ \A u \in Task \ {t} : task'[u] = task[u]
    BY <1>2 DEF IInv, Types, Move
  <2>2. Apart'
    BY <1>2, ApartKept DEF Busy, Free
  <2>3. (AtHome(t, task[t]) /\ Stage(t, task[t]))'
    BY <1>0, <1>1, <1>2, <2>1 DEF AtHome, Stage, storage, session, vault, WithToken
  <2>4. \A u \in Task \ {t} : (AtHome(u, task[u]) /\ Stage(u, task[u]))'
    BY <1>1, <2>1 DEF IInv, AtHome, Stage, storage, session, vault
  <2>5. \A u \in Leaving : At(u, "left") => At(u, "left")'
    BY <1>2, <2>1 DEF At, Leaving, Task
  <2>6. KeptAtHome' /\ OnlyHomeServer' /\ StorageKeepsUp'
    BY <1>1, <2>5 DEF IInv, KeptAtHome, OnlyHomeServer, StorageKeepsUp, storage, session, vault
  <2> QED BY <2>2, <2>3, <2>4, <2>6 DEF IInv
<1>3. CASE Grant(t)
  <2>1. h.at = "asked"
    BY <1>3 DEF Grant, At
  <2>2. PICK tok : Answer(t, "granted", tok) /\ tok \in Token \cup {None} /\ (t \in Entering => tok.server = url)
    <3>1. CASE t \in SignIn
      <4>1. Answer(t, "granted", [server |-> h.to, n |-> issued + 1, gen |-> 1]) /\ issued < MaxSession /\ issued \in Nat /\ h.to = url
        BY <1>0, <1>3, <2>1, <3>1 DEF Grant, SignIn, Leaving, Opening, AtHome, Entering, IInv, Types
      <4>2. [server |-> h.to, n |-> issued + 1, gen |-> 1] \in Token
        BY <1>0, <2>1, <4>1, ClientSessionAssumption DEF Token, Carries, Errand
      <4> QED BY <4>1, <4>2
    <3>2. CASE t = "hydrate"
      <4>1. Answer(t, "granted", [h.token EXCEPT !.gen = @ + 1]) /\ h.token # None /\ h.token.gen < MaxGen
        BY <1>3, <3>2 DEF Grant, SignIn, Leaving, Opening
      <4>2. h.token \in Token /\ h.token.server = url
        BY <1>0, <2>1, <3>2, <4>1 DEF AtHome, Errand, Entering
      <4>3. [h.token EXCEPT !.gen = @ + 1] \in Token /\ [h.token EXCEPT !.gen = @ + 1].server = url
        BY <4>1, <4>2, ClientSessionAssumption DEF Token
      <4> QED BY <4>1, <4>3
    <3>3. CASE t \in Leaving \cup Opening
      <4>1. Answer(t, "granted", h.token) /\ t \notin Entering
        BY <1>3, <3>3 DEF Grant, SignIn, Leaving, Opening, Entering
      <4> QED BY <1>0, <4>1 DEF Errand
    <3> QED BY <3>1, <3>2, <3>3 DEF Task, SignIn, Leaving, Opening
  <2> DEFINE r == [h EXCEPT !.at = "granted", !.token = tok]
  <2>3. r \in Errand /\ Move(t, r)
    BY <1>0, <2>2 DEF Answer, Errand, Place
  <2> QED BY <1>0, <1>2, <2>1, <2>2, <2>3 DEF Errand
<1>4. CASE Refuse(t)
  <2> DEFINE r == [h EXCEPT !.at = "refused", !.token = h.token]
  <2>1. r \in Errand /\ Move(t, r) /\ h.at = "asked"
    BY <1>0, <1>4 DEF Refuse, Answer, At, Errand, Place
  <2> QED BY <1>0, <1>2, <2>1 DEF Errand
<1>5. CASE Unreachable(t)
  <2> DEFINE r == [h EXCEPT !.at = "failed"]
  <2>1. r \in Errand /\ Move(t, r) /\ h.at \in {"asked", "granted", "refused"}
    BY <1>0, <1>5 DEF Unreachable, Step, Errand, Place
  <2> QED BY <1>0, <1>2, <2>1 DEF Errand
<1> QED BY <1>3, <1>4, <1>5

LEMMA HomeInductive == Overlap \subseteq Settled => (IInv /\ [Next]_vars => IInv')
<1> SUFFICES ASSUME Overlap \subseteq Settled, IInv, [Next]_vars PROVE IInv'
  OBVIOUS
<1>0. Types'
  BY TypesInductive DEF IInv
<1>1. CASE Restart
  <2>1. /\ auth' = None /\ client' = None /\ key' = None /\ material' = None /\ hydrating' = TRUE
        /\ UNCHANGED <<url, stored, presented>>
    BY <1>1 DEF Restart, storage
  <2>2. \A t \in Task : task'[t].at = IF t = "hydrate" THEN "reading" ELSE "idle"
    BY <1>1 DEF Restart, Restarted, Idle
  <2>3. \A t \in Task : (AtHome(t, task[t]) /\ Stage(t, task[t]))'
    BY <2>1, <2>2 DEF AtHome, Stage, WithToken, Entering, SignIn, Opening, Leaving
  <2>4. Apart'
    BY <2>2 DEF Apart, Busy, Free
  <2> QED BY <1>0, <2>1, <2>3, <2>4 DEF IInv, KeptAtHome, OnlyHomeServer, StorageKeepsUp
<1>2. CASE Revoke \/ UNCHANGED vars
  <2>1. UNCHANGED <<storage, client, session, vault, task, presented>>
    BY <1>2 DEF Revoke, vars
  <2>2. KeptAtHome' /\ OnlyHomeServer' /\ StorageKeepsUp' /\ Apart'
    BY <2>1 DEF IInv, KeptAtHome, OnlyHomeServer, StorageKeepsUp, Apart, Busy, Free, At, storage, session, vault
  <2>3. \A u \in Task : (AtHome(u, task[u]) /\ Stage(u, task[u]))'
    BY <2>1 DEF IInv, AtHome, Stage, storage, session, vault
  <2> QED BY <1>0, <2>2, <2>3 DEF IInv
<1>3. CASE Logout
  BY <1>0, <1>3, LeaveHome DEF Logout, Leaving
<1> QED BY <1>0, <1>1, <1>2, <1>3, HydrateHome, SignInHome, ApplyHome, LeaveStepHome, SwitchHome, VaultHome, ServersHome DEF Next

-----------------------------------------------------------------------------
(* Stores, client and operations keep their types, whatever overlaps.      *)
THEOREM TypeCorrect == Spec => []TypeOK
<1>1. Types => TypeOK
  BY DEF Types, TypeOK, Client, Errand, Idle
<1>2. Spec => []Types
  BY Initial, TypesInductive, PTL DEF Spec
<1> QED BY <1>1, <1>2, PTL


(* hydrate(): each way out of it takes the splash away, whatever overlaps, *)
(* but the refusal to delete a token that the server rejected.             *)
THEOREM SplashTakenAway == Spec => []SplashEnds
<1> DEFINE at == task["hydrate"].at
           Splash == hydrating => at # "idle"
<1>1. Init => Splash
  BY DEF Init, Restarted, Idle, Task
<1>2. Types /\ Splash /\ [Next]_vars => Splash'
  <2> SUFFICES ASSUME Types, Splash, [Next]_vars, hydrating' PROVE at' # "idle"
    OBVIOUS
  <2>0. "hydrate" \in Task /\ "hydrate" \notin SignIn \cup Leaving \cup Opening \cup {"switch"} /\ task["hydrate"] \in Errand
    BY ErrandOf DEF Task, SignIn, Leaving, Opening
  <2>1. \A r : Move("hydrate", r) => task'["hydrate"] = r
    BY <2>0 DEF Types, Move
  <2>12. \A t \in Task \ {"hydrate"} : \A r : Move(t, r) => task'["hydrate"] = task["hydrate"]
    BY <2>0 DEF Types, Move
  <2>13. \A p : Step("hydrate", p) => task'["hydrate"].at = p
    BY <2>0, <2>1 DEF Errand, Step
  <2>2. CASE Hydrate
    <3>1. CASE HydrateRead
      <4>1. stored # None /\ Move("hydrate", [task["hydrate"] EXCEPT !.at = "read", !.token = stored])
        BY <3>1 DEF HydrateRead
      <4> QED BY <2>0, <2>1, <4>1 DEF Errand
    <3>2. CASE HydrateAsk
      <4>1. Move("hydrate", [task["hydrate"] EXCEPT !.at = "asked", !.to = client'.server, !.epoch = epoch])
        BY <3>2 DEF HydrateAsk
      <4> QED BY <2>0, <2>1, <4>1 DEF Errand
    <3>3. CASE HydrateStore
      <4>1. Step("hydrate", "stored")
        BY <3>3 DEF HydrateStore
      <4> QED BY <2>13, <4>1
    <3>4. CASE HydrateForget
      BY <2>1, <2>13, <3>4 DEF HydrateForget, Stranded, Idle
    <3>5. CASE HydrateReset \/ HydrateFail
      BY <3>5 DEF HydrateReset, HydrateFail
    <3> QED BY <2>2, <3>1, <3>2, <3>3, <3>4, <3>5 DEF Hydrate
  <2>3. CASE \E t \in Task : Grant(t) \/ Refuse(t) \/ Unreachable(t)
    <3>1. PICK t \in Task : Grant(t) \/ Refuse(t) \/ Unreachable(t)
      BY <2>3
    <3>2. hydrating' = hydrating
      BY <3>1 DEF Grant, Refuse, Unreachable, session
    <3>3. \E r : Move(t, r) /\ (t = "hydrate" => r.at # "idle")
      <4>1. CASE Unreachable(t)
        <5>1. [task[t] EXCEPT !.at = "failed"].at = "failed"
          BY DEF Types, Errand
        <5> QED BY <4>1, <5>1 DEF Unreachable, Step
      <4>2. CASE Grant(t) \/ Refuse(t)
        <5>1. \A p, tok : [task[t] EXCEPT !.at = p, !.token = tok].at = p
          BY DEF Types, Errand
        <5>2. \E p \in {"granted", "refused"} : \E tok : Answer(t, p, tok)
          <6>1. CASE Grant(t)
            BY <6>1 DEF Grant
          <6>2. CASE Refuse(t)
            BY <6>2 DEF Refuse
          <6> QED BY <4>2, <6>1, <6>2
        <5> QED BY <5>1, <5>2 DEF Answer
      <4> QED BY <3>1, <4>1, <4>2
    <3>4. CASE t = "hydrate"
      BY <2>1, <3>3, <3>4
    <3>5. CASE t # "hydrate"
      BY <2>12, <3>2, <3>3, <3>5
    <3> QED BY <3>4, <3>5
  <2>4. CASE Restart
    BY <2>0, <2>4 DEF Restart, Restarted, Idle
  <2>5. ASSUME hydrating, task'["hydrate"] = task["hydrate"] PROVE at' # "idle"
    BY <2>5
  <2>6. CASE \E t \in SignIn : SignInAsk(t) \/ SignInStore(t) \/ SignInFail(t)
    BY <2>0, <2>12, <2>5, <2>6 DEF SignInAsk, SignInStore, SignInFail, Ask, Step, session, Task, SignIn
  <2>7. CASE \E t \in Entering : Apply(t)
    BY <2>0, <2>12, <2>5, <2>7 DEF Apply, Task, Entering, SignIn
  <2>8. CASE \/ Logout \/ (\E t \in Leaving : LeaveForget(t) \/ LeaveFail(t) \/ LeaveReset(t))
             \/ SwitchTeardown \/ SwitchMove \/ SwitchFail \/ Reconnect
    BY <2>0, <2>12, <2>5, <2>8
    DEF Logout, Leave, LeaveForget, LeaveFail, LeaveReset, SwitchTeardown, SwitchMove, SwitchFail, Reconnect,
       Ask, Step, session, Task, Leaving
  <2>9. CASE \E s \in Server : Switch(s)
    <3>1. PICK r : Move("switch", r) /\ hydrating' = hydrating
      BY <2>9 DEF Switch, Leave, Ask, session
    <3> QED BY <2>5, <2>12, <3>1 DEF Task
  <2>10. CASE Unlock \/ UnlockReply \/ Rotate \/ RotateReply \/ Lock \/ \E t \in Opening : VaultFail(t)
    BY <2>0, <2>12, <2>5, <2>10 DEF Unlock, UnlockReply, Rotate, RotateReply, Lock, VaultFail, Ask, session, Task, Opening
  <2>11. CASE Revoke \/ UNCHANGED vars
    BY <2>5, <2>11 DEF Revoke, vars, session
  <2> QED BY <2>2, <2>3, <2>4, <2>6, <2>7, <2>8, <2>9, <2>10, <2>11 DEF Next
<1>3. Types /\ Splash => SplashEnds
  BY DEF Types, SplashEnds, Free, At
<1>4. Spec => []Types
  BY Initial, TypesInductive, PTL DEF Spec
<1> QED BY <1>1, <1>2, <1>3, <1>4, PTL DEF Spec

(* The inductive invariant holds of every client that starts nothing while *)
(* something is in flight that it spoils.                                  *)
THEOREM HomeInvariant == ASSUME Overlap \subseteq Settled PROVE Spec => []IInv
BY HomeInitial, HomeInductive, PTL DEF Spec

(* handleConnect and teardownSession: a refresh token or a bearer is only  *)
(* sent to the server that issued it, with restarts between any two steps. *)
THEOREM CredentialsStayHome == ASSUME Overlap \subseteq Settled PROVE Spec => []OnlyHomeServer
<1>1. IInv => OnlyHomeServer
  BY DEF IInv
<1> QED BY <1>1, HomeInvariant, PTL

(* teardownSession: a vault key is never left to another account.          *)
THEOREM KeysGoWithTheAccount == ASSUME Overlap \subseteq Settled PROVE Spec => []KeyOfAccount
<1>1. IInv => KeyOfAccount
  BY DEF IInv, KeptAtHome, KeyOfAccount
<1> QED BY <1>1, HomeInvariant, PTL

(* applyTokenPair: the token is stored before it is used, so that a crash  *)
(* never leaves a replaced one behind.                                     *)
THEOREM StorageIsFirst == ASSUME Overlap \subseteq Settled PROVE Spec => []StorageKeepsUp
<1>1. IInv => StorageKeepsUp
  BY DEF IInv
<1> QED BY <1>1, HomeInvariant, PTL
==============================================================================

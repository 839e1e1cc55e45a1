-------------------------------- MODULE WebSsh --------------------------------
(***************************************************************************)
(* SSH through the server: SshTokenController issues a token, the client   *)
(* (WebSocketSshSession, probeWebSshHostKey) presents it in the first      *)
(* frame of a WebSocket, WebSshProxy has WebSshSessionOpener make the SSH  *)
(* connection. A proxy process does nothing else while it opens one: each  *)
(* connection here has a process of its own, so that two may present one   *)
(* token at once. A connection is used once; a token is an operation, for  *)
(* the first host (bound: one token is issued).                            *)
(***************************************************************************)
EXTENDS HostKeys

CONSTANT Conn

VARIABLES
    ticket,       \* rows of ws_session_tokens
    rowLock,      \* who holds the lock of such a row
    sock,         \* the client's end of each connection
    conn          \* the proxy's end

webVars == <<ticket, rowLock, sock, conn>>

NoConn == "none"
ASSUME WebAssumption == NoConn \notin Conn
Ticket == {"none", "issued", "expired", "consumed"}

(* The first frame: what the client asks for, with which token, at which   *)
(* host and against which pin.                                             *)
Request == [mode : {"probe", "connect"}, token : Op, host : Host, pin : Maybe]
NoRequest == [mode |-> "none"]

(* `secret`: the private key that the caller handed over.                  *)
Sock == [at : {"none", "opening", "sent", "closing", "over"}, frame : Request \cup {NoRequest},
         secret : {"none", "held", "wiped"}, promise : {"none", "pending", "resolved", "rejected"}]

(* `seen`: whether the row that was selected is unused and not expired.    *)
(* `past`: the token was accepted, which stays so when the rest fails.     *)
(* `key`: what the server presented, which is what it is logged in with.   *)
(* `inbox`: what the client is going to hear.                              *)
Step == {"none", "open", "select", "consume", "bind", "verify", "login", "session", "closed"}
Proxied == [at : Step, frame : Request \cup {NoRequest}, seen : BOOLEAN, past : Op \cup {None},
            timer : BOOLEAN, client : BOOLEAN, reader : BOOLEAN,
            key : Maybe, inbox : Seq({"ready", "error", "host_key"})]

NoSock == [at |-> "none", frame |-> NoRequest, secret |-> "none", promise |-> "none"]
NoProxy == [at |-> "none", frame |-> NoRequest, seen |-> FALSE, past |-> None, timer |-> FALSE,
            client |-> FALSE, reader |-> FALSE, key |-> NoKey, inbox |-> <<>>]

WebTypeOK ==
    /\ ticket \in [Op -> Ticket] /\ rowLock \in [Op -> Conn \cup {NoConn}]
    /\ sock \in [Conn -> Sock] /\ conn \in [Conn -> Proxied]

WebInit ==
    /\ ("web" \in used => Hasty)    \* nobody here waits
    /\ ticket = [o \in Op |-> "none"] /\ rowLock = [o \in Op |-> NoConn]
    /\ sock = [c \in Conn |-> NoSock] /\ conn = [c \in Conn |-> NoProxy]

ProxyAt(c, step) == conn[c].at = step
SetSock(c, s) == sock' = [sock EXCEPT ![c] = s]
SetConn(c, p) == conn' = [conn EXCEPT ![c] = p]
FrameOf(c) == conn[c].frame
Presented(c) == conn[c].frame.token

-----------------------------------------------------------------------------
(* Tokens                                                                  *)

(* SshTokenController::store() for a host that the user may connect to.    *)
StoreToken ==
    /\ "web" \in used /\ ops = 0 /\ Begin
    /\ ticket' = [ticket EXCEPT ![ops'] = "issued"]
    /\ UNCHANGED <<shared, ipc, rowLock, sock, conn>>

(* Thirty seconds have passed.                                             *)
ExpireToken(o) ==
    /\ ticket[o] = "issued"
    /\ ticket' = [ticket EXCEPT ![o] = "expired"]
    /\ UNCHANGED <<bridge, rowLock, sock, conn>>

-----------------------------------------------------------------------------
(* The client                                                              *)

(* connect() without a pinned key ends before there is a socket (bound: a  *)
(* pin is the first key).                                                  *)
Requests(o) == [mode : {"connect"}, token : {o}, host : Host, pin : {NoKey, FirstKey}]
               \cup [mode : {"probe"}, token : {o}, host : Host, pin : {NoKey}]
Unpinned(f) == f.mode = "connect" /\ f.pin = NoKey
OpenSocket(c, f) ==
    /\ sock[c].at = "none" /\ ticket[f.token] # "none"
    /\ IF Unpinned(f)
       THEN /\ SetSock(c, [NoSock EXCEPT !.at = "over", !.promise = "rejected", !.secret = "wiped"])
            /\ UNCHANGED conn
       ELSE /\ SetSock(c, [at |-> "opening", frame |-> f, promise |-> "pending",
                           secret |-> IF f.mode = "connect" THEN "held" ELSE "none"])
            /\ SetConn(c, [NoProxy EXCEPT !.at = "open", !.timer = TRUE])
    /\ UNCHANGED <<bridge, ticket, rowLock>>

Wipe(s) == [s EXCEPT !.secret = IF @ = "held" THEN "wiped" ELSE @]
SendFrame(c) ==
    /\ sock[c].at = "opening"
    /\ SetSock(c, [Wipe(sock[c]) EXCEPT !.at = "sent"])
    /\ UNCHANGED <<bridge, ticket, rowLock, conn>>

(* close(): a socket that is closing delivers no more messages, and its    *)
(* frame is sent or never will be.                                         *)
CloseSocket(c) ==
    /\ sock[c].at \in {"opening", "sent"} /\ sock[c].frame.mode = "connect"
    /\ SetSock(c, [Wipe(sock[c]) EXCEPT !.at = "closing"])
    /\ SetConn(c, [conn[c] EXCEPT !.inbox = <<>>])
    /\ UNCHANGED <<bridge, ticket, rowLock>>

(* A probe closes the socket when it has heard the host key.               *)
Settled(s, how) == [s EXCEPT !.promise = IF @ = "pending" THEN how ELSE @]
HearFrame(c) ==
    /\ conn[c].inbox # <<>>
    /\ SetSock(c, LET f == Head(conn[c].inbox) IN
                  IF f = "error" THEN Settled(sock[c], "rejected")
                  ELSE [Settled(sock[c], "resolved") EXCEPT !.at = IF f = "host_key" THEN "closing" ELSE @])
    /\ SetConn(c, [conn[c] EXCEPT !.inbox = Tail(@)])
    /\ UNCHANGED <<bridge, ticket, rowLock>>

(* onclose: after the messages, or because the connection broke.           *)
SocketOver(s) == [Settled(Wipe(s), "rejected") EXCEPT !.at = "over", !.frame = NoRequest]
HearClose(c) ==
    /\ sock[c].at \in {"opening", "sent", "closing"}
    /\ conn[c].inbox = <<>> /\ (ProxyAt(c, "closed") \/ sock[c].at = "closing")
    /\ SetSock(c, SocketOver(sock[c]))
    /\ UNCHANGED <<bridge, ticket, rowLock, conn>>
ConnectionBreaks(c) ==
    /\ sock[c].at \in {"opening", "sent", "closing"}
    /\ SetSock(c, SocketOver(sock[c]))
    /\ SetConn(c, [conn[c] EXCEPT !.inbox = <<>>])
    /\ UNCHANGED <<bridge, ticket, rowLock>>

-----------------------------------------------------------------------------
(* The proxy                                                               *)

Listens(c) == sock[c].at \in {"opening", "sent"}
Tell(c, p, f) == [p EXCEPT !.inbox = IF Listens(c) THEN Append(@, f) ELSE @]

(* A connection is closed with a frame that says why, unless the client is *)
(* gone; onClose() releases what the connection had.                       *)
Release(p) == [NoProxy EXCEPT !.at = "closed", !.past = p.past, !.inbox = p.inbox]
CloseWith(c, f) == SetConn(c, Tell(c, Release(conn[c]), f))
Reject(c) == CloseWith(c, "error")

HandshakeTimeout(c) ==
    /\ ProxyAt(c, "open") /\ conn[c].timer
    /\ Reject(c)
    /\ UNCHANGED <<bridge, ticket, rowLock, sock>>

(* The first frame; from here on the process is busy until the session is  *)
(* open or refused. A server on which web SSH is turned off, and one that  *)
(* cannot read the frame, refuses.                                         *)
ReceiveFrame(c) ==
    /\ ProxyAt(c, "open") /\ sock[c].at = "sent"
    /\ \/ SetConn(c, [conn[c] EXCEPT !.at = "select", !.frame = sock[c].frame, !.timer = FALSE])
       \/ Reject(c)
    /\ UNCHANGED <<bridge, ticket, rowLock, sock>>

(* consume(): the row is locked before it is looked at. A frame from an    *)
(* address that the token is not bound to is refused like a used token.    *)
Look(c) == SetConn(c, [conn[c] EXCEPT !.at = "consume", !.seen = ticket[Presented(c)] = "issued"])
SelectTokenUnlocked(c) ==
    /\ ProxyAt(c, "select")
    /\ rowLock' = [rowLock EXCEPT ![Presented(c)] = c]
    /\ Look(c)
    /\ UNCHANGED <<bridge, ticket, sock>>
SelectToken(c) ==
    /\ ProxyAt(c, "select") /\ rowLock[Presented(c)] = NoConn
    /\ rowLock' = [rowLock EXCEPT ![Presented(c)] = c]
    /\ Look(c)
    /\ UNCHANGED <<bridge, ticket, sock>>
ConsumeToken(c) ==
    /\ ProxyAt(c, "consume")
    /\ rowLock' = [rowLock EXCEPT ![Presented(c)] = NoConn]
    /\ \/ /\ conn[c].seen
          /\ ticket' = [ticket EXCEPT ![Presented(c)] = "consumed"]
          /\ SetConn(c, [conn[c] EXCEPT !.at = "bind", !.past = Presented(c)])
       \/ Reject(c) /\ UNCHANGED ticket
    /\ UNCHANGED <<bridge, sock>>

(* The pin, the destination that the token was issued for, the egress      *)
(* policy; the connection to the address that was vetted.                  *)
BoundDestination(f) == f.host = FirstHost
ConnectTo(c) ==
    /\ ProxyAt(c, "bind")
    /\ \/ /\ ~Unpinned(FrameOf(c)) /\ BoundDestination(FrameOf(c))
          /\ SetConn(c, [conn[c] EXCEPT !.at = "verify", !.client = TRUE])
       \/ Reject(c)
    /\ UNCHANGED <<bridge, ticket, rowLock, sock>>

(* The server presents a key.                                              *)
Probe(c) ==
    /\ ProxyAt(c, "verify") /\ FrameOf(c).mode = "probe"
    /\ CloseWith(c, "host_key")
    /\ UNCHANGED <<bridge, ticket, rowLock, sock>>
VerifyHostKey(c, k) ==
    /\ ProxyAt(c, "verify") /\ FrameOf(c).mode = "connect"
    /\ IF FrameOf(c).pin = k THEN SetConn(c, [conn[c] EXCEPT !.at = "login", !.key = k]) ELSE Reject(c)
    /\ UNCHANGED <<bridge, ticket, rowLock, sock>>
HostKeyUnavailable(c) ==
    /\ ProxyAt(c, "verify")
    /\ Reject(c)
    /\ UNCHANGED <<bridge, ticket, rowLock, sock>>

(* The client that was verified is the one that is logged in.              *)
Authenticate(c) ==
    /\ ProxyAt(c, "login")
    /\ \/ SetConn(c, Tell(c, [conn[c] EXCEPT !.at = "session", !.reader = TRUE], "ready"))
       \/ Reject(c)
    /\ UNCHANGED <<bridge, ticket, rowLock, sock>>

(* The read pump finds the channel closed.                                 *)
ChannelCloses(c) ==
    /\ ProxyAt(c, "session") /\ conn[c].reader
    /\ Reject(c)
    /\ UNCHANGED <<bridge, ticket, rowLock, sock>>

(* onClose() for a client that is gone: a process that opens a session     *)
(* learns of it afterwards.                                                *)
ClientGone(c) ==
    /\ conn[c].at \in {"open", "session"} /\ sock[c].at \in {"closing", "over"}
    /\ SetConn(c, Release(conn[c]))
    /\ UNCHANGED <<bridge, ticket, rowLock, sock>>

-----------------------------------------------------------------------------
ProxyStep(c) ==
    \/ HandshakeTimeout(c) \/ ReceiveFrame(c) \/ SelectToken(c) \/ ConsumeToken(c) \/ ConnectTo(c) \/ Probe(c)
    \/ \E k \in Key : VerifyHostKey(c, k)
    \/ HostKeyUnavailable(c) \/ Authenticate(c) \/ ClientGone(c)

WebNext ==
    \/ StoreToken
    \/ \E o \in Op : ExpireToken(o)
    \/ \E c \in Conn :
         \/ \E o \in Op : \E f \in Requests(o) : OpenSocket(c, f)
         \/ SendFrame(c) \/ CloseSocket(c) \/ HearFrame(c) \/ HearClose(c) \/ ConnectionBreaks(c)
         \/ ProxyStep(c) \/ ChannelCloses(c)

(* Both ends go on, the proxy's steps have timeouts; a connection takes    *)
(* finitely many steps.                                                    *)
WebFairness ==
    WF_<<bridge, webVars>>(InUse("web", \E c \in Conn : ProxyStep(c) \/ HearFrame(c) \/ HearClose(c)))

-----------------------------------------------------------------------------
(* A token opens one connection, also when two present it at once and      *)
(* whatever becomes of the first.                                          *)
TokensOpenOnce ==
    \A c, d \in Conn : conn[c].past # None /\ conn[c].past = conn[d].past => c = d

(* Credentials go to the destination that the token was issued for, over a *)
(* connection whose server has presented the pinned key.                   *)
CredentialsFollowThePin ==
    \A c \in Conn : conn[c].at \in {"login", "session"} =>
        /\ FrameOf(c).mode = "connect" /\ BoundDestination(FrameOf(c)) /\ ticket[Presented(c)] = "consumed"
        /\ conn[c].key = FrameOf(c).pin /\ conn[c].key # NoKey

(* Each connect() and each probe is answered, and the private key of one   *)
(* that is answered is wiped.                                              *)
ConnectsAreAnswered == \A c \in Conn : sock[c].promise # "pending" /\ sock[c].secret # "held"

(* A session without a client ends.                                        *)
OrphansAreClosed == \A c \in Conn : sock[c].at = "over" => conn[c].at \in {"none", "closed"}
=============================================================================

------------------------------- MODULE Session -------------------------------
(***************************************************************************)
(* BaseSession (packages/common/src/BaseSession.ts) together with the      *)
(* parts of Connection.ts and Setup.ts it drives: one JavaScript object    *)
(* that owns a WebSocket, reconnects it, runs the blade.connect / setup /  *)
(* subscribe handshake on every open, queues messages while it is idle,    *)
(* pings the server and reacts to requests that time out.                  *)
(*                                                                         *)
(* The code is single-threaded: an action is one callback (a socket event, *)
(* a timer, the continuation of an await, a call of the application) run   *)
(* to its next await.  Callbacks interleave in every order the event loop  *)
(* allows; a timer may be overtaken by anything, with the one exception    *)
(* stated at KeepAliveTick.                                                *)
(***************************************************************************)
EXTENDS Naturals, Sequences, Functions

CONSTANTS
  Sockets,     \* WebSocket objects, one per Connection.connect() that makes one
  Msgs,        \* messages the application hands to execute(), each once
  None,        \* null
  KeepAlive,   \* _doKeepAlive: TRUE in the node client, FALSE in the browser
  Jwt,         \* whether blade.connect may return an expires_at
  UserOps,     \* the operations this application uses
  MaxOrphans,  \* bound: armed reconnect timers whose handle was overwritten
  MaxQueue     \* bound: length of _executeQueue

ASSUME NoneAssumption   == None \notin Sockets \cup Msgs
ASSUME FlagAssumption   == KeepAlive \in BOOLEAN /\ Jwt \in BOOLEAN
ASSUME BoundAssumption  == MaxOrphans \in Nat /\ MaxQueue \in Nat
ASSUME UserOpsAssumption ==
  UserOps \subseteq {"connect", "execute", "disconnect", "refresh"}

VARIABLES
  sock,          \* readyState of each socket and whether its error event fired
  ws,            \* Connection._wsClient
  listening,     \* the four socket listeners of the session are registered
  idle,          \* _idle
  autoReconnect, \* _autoReconnect
  token,         \* expiresAt: 0, in the future, or in the past
  timer,         \* the timer _reconnectTimeout refers to is armed
  orphans,       \* number of other armed reconnect timers
  queue,         \* _executeQueue
  pending,       \* requests sent, with handler and timeout timer armed
  hs,            \* where the _onSocketOpen call of each socket is suspended
  pong,          \* _pong
  loops,         \* armed _keepAlive timers, named by the handshake they came from
  beat,          \* the one _keepAliveTimeout refers to
  disconnecting, \* disconnect() awaits the removal of the stored protocol
  wanted,        \* history: whether the application wants a session
  fate,          \* history: what became of each application message
  sent           \* history: how often each was transmitted (2: more than once)

connVars == <<sock, ws, listening>>
beatVars == <<pong, loops, beat>>
userVars == <<disconnecting, wanted>>
msgVars  == <<fate, sent>>
vars == <<connVars, idle, autoReconnect, token, timer, orphans, queue, pending,
          hs, beatVars, userVars, msgVars>>

------------------------------------------------------------------------------
(* Requests.  A handshake request belongs to the socket whose open event     *)
(* started the handshake, a ping to its keepalive loop.  "stale" is a ping   *)
(* sent again by a later flush, whose promise is settled already.            *)

HandshakeKinds == {"connect", "setup", "subscribe"}
Request == [kind : HandshakeKinds \cup {"ping", "stale"}, of : Sockets]
             \cup [kind : {"app"}, of : Msgs]
             \cup [kind : {"reauth"}, of : {None}]

Req(k, x) == [kind |-> k, of |-> x]
Reauth    == Req("reauth", None)

SockState == {"free", "connecting", "open", "closing", "errored", "closed"}
Live(s)   == sock[s] \in {"connecting", "open"}           \* Connection.isAlive
Dying(s)  == sock[s] \in {"closing", "errored"}           \* close event to come
Connected == ws # None /\ sock[ws] = "open"
Alive     == ws # None /\ Live(ws)

TypeOK ==
  /\ sock \in [Sockets -> SockState]
  /\ ws \in Sockets \cup {None}
  /\ listening \in BOOLEAN /\ idle \in BOOLEAN /\ autoReconnect \in BOOLEAN
  /\ token \in {"none", "valid", "expired"}
  /\ timer \in BOOLEAN
  /\ orphans \in 0 .. MaxOrphans
  /\ queue \in Seq(Request)
  /\ pending \subseteq Request \X Sockets
  /\ hs \in [Sockets -> {"none", "ready", "failed"} \cup HandshakeKinds]
  /\ pong \in {"null", "true", "false"}
  /\ loops \subseteq Sockets
  /\ beat \in Sockets \cup {None}
  /\ disconnecting \in BOOLEAN
  /\ wanted \in {"no", "yes"}
  /\ fate \in [Msgs -> {"new", "accepted", "dropped"}]
  /\ sent \in [Msgs -> 0 .. 2]

Init ==
  /\ sock = [s \in Sockets |-> "free"]
  /\ ws = None
  /\ listening = TRUE
  /\ idle = FALSE
  /\ autoReconnect = TRUE
  /\ token = "none"
  /\ timer = FALSE
  /\ orphans = 0
  /\ queue = <<>>
  /\ pending = {}
  /\ hs = [s \in Sockets |-> "none"]
  /\ pong = "null"
  /\ loops = {}
  /\ beat = None
  /\ disconnecting = FALSE
  /\ wanted = "no"
  /\ fate = [m \in Msgs |-> "new"]
  /\ sent = [m \in Msgs |-> 0]

------------------------------------------------------------------------------
(* What the callbacks are made of.                                           *)

(* Mutant: connect() that does not ask isAlive first. *)
ConnectAnyway ==
  /\ listening' = TRUE
  /\ \E s \in Sockets :
       /\ sock[s] = "free"
       /\ sock' = [sock EXCEPT ![s] = "connecting"]
       /\ ws' = s

(* connect(): re-attach the listeners and, unless the current socket is      *)
(* connecting or open, replace it by a new one.                              *)
Connect ==
  /\ listening' = TRUE
  /\ \/ /\ Alive
        /\ UNCHANGED <<sock, ws>>
     \/ /\ ~Alive
        /\ \E s \in Sockets :
             /\ sock[s] = "free"
             /\ sock' = [sock EXCEPT ![s] = "connecting"]
             /\ ws' = s

(* How often message m has been on the wire once the requests rs are sent.   *)
Transmissions(rs, m) ==
  LET at == {i \in DOMAIN rs : rs[i] = Req("app", m)}
  IN  IF at = {} THEN sent[m]
      ELSE IF sent[m] = 0 /\ (\A i, j \in at : i = j) THEN 1 ELSE 2

(* Mutant: execute() that connects a dead session without queueing. *)
PushIfIdle(q, rs) == IF idle THEN q \o rs ELSE q

(* The queue once execute() could not send rs. *)
Push(q, rs) == q \o rs

(* execute() called on each of rs in turn, when q is the queue and p the     *)
(* requests in flight.                                                       *)
ExecuteAll(rs, q, p) ==
  \/ /\ ~idle /\ Connected
     /\ queue' = q
     /\ pending' = p \cup {<<r, ws>> : r \in Range(rs)}
     /\ sent' = [m \in Msgs |-> Transmissions(rs, m)]
     /\ UNCHANGED connVars
  \/ /\ idle \/ ~Connected
     /\ Len(q) + Len(rs) <= MaxQueue
     /\ queue' = Push(q, rs)
     /\ pending' = p
     /\ IF idle \/ rs = <<>> THEN UNCHANGED connVars ELSE Connect
     /\ UNCHANGED sent

Execute(r, p) == ExecuteAll(<<r>>, queue, p)

(* The queue after its promises were resolved: they cannot be settled again. *)
Spent(q) ==
  [i \in DOMAIN q |-> IF q[i].kind = "ping" THEN Req("stale", q[i].of) ELSE q[i]]

(* Mutant: _closeConnection() that only forgets the socket. *)
ForgetConnection(ended) ==
  idle' = TRUE /\ loops' = loops \ ({beat} \cup ended) /\ ws' = None /\ sock' = sock

(* _closeConnection(), called from the timers of the loops in ended, if any. *)
CloseConnection(ended) ==
  /\ idle' = TRUE
  /\ loops' = loops \ ({beat} \cup ended)
  /\ sock' = IF Alive THEN [sock EXCEPT ![ws] = "closing"] ELSE sock
  /\ ws' = None

(* Handlers and timers of request r are gone. *)
Settle(r) == {rs \in pending : rs[1] # r}

------------------------------------------------------------------------------
(* The application.                                                          *)

UserConnect ==
  /\ "connect" \in UserOps
  /\ Connect
  /\ wanted' = "yes"
  /\ UNCHANGED <<idle, autoReconnect, token, timer, orphans, queue, pending, hs,
                 beatVars, disconnecting, msgVars>>

UserExecute(m) ==
  /\ "execute" \in UserOps
  /\ fate[m] = "new"
  /\ Execute(Req("app", m), pending)
  /\ fate' = [fate EXCEPT ![m] = "accepted"]
  /\ wanted' = "yes"
  /\ UNCHANGED <<idle, autoReconnect, token, timer, orphans, hs, beatVars,
                 disconnecting>>

(* refreshToken() *)
UserRefresh ==
  /\ "refresh" \in UserOps
  /\ Reauth \notin Range(queue) /\ (\A s \in Sockets : <<Reauth, s>> \notin pending)
  /\ \/ token = "expired" /\ Connect /\ UNCHANGED <<queue, pending, sent>>
     \/ token # "expired" /\ Execute(Reauth, pending)
  /\ wanted' = "yes"
  /\ UNCHANGED <<idle, autoReconnect, token, timer, orphans, hs, beatVars,
                 disconnecting, fate>>

(* disconnect() up to its await ... *)
Disconnect ==
  /\ "disconnect" \in UserOps
  /\ timer' = FALSE
  /\ autoReconnect' = FALSE
  /\ CloseConnection({})
  /\ disconnecting' = TRUE
  /\ wanted' = "no"
  /\ UNCHANGED <<listening, token, orphans, queue, pending, hs, pong, beat,
                 msgVars>>

(* Mutant: disconnect() that forgets to empty the queue. *)
KeepsQueue ==
  /\ disconnecting
  /\ disconnecting' = FALSE
  /\ queue' = queue
  /\ listening' = FALSE
  /\ fate' = [m \in Msgs |->
                IF Req("app", m) \in Range(queue) THEN "dropped" ELSE fate[m]]
  /\ UNCHANGED <<sock, ws, idle, autoReconnect, token, timer, orphans, pending,
                 hs, beatVars, wanted, sent>>

(* ... and after it. *)
DisconnectDone ==
  /\ disconnecting
  /\ disconnecting' = FALSE
  /\ queue' = <<>>
  /\ listening' = FALSE
  /\ fate' = [m \in Msgs |->
                IF Req("app", m) \in Range(queue) THEN "dropped" ELSE fate[m]]
  /\ UNCHANGED <<sock, ws, idle, autoReconnect, token, timer, orphans, pending,
                 hs, beatVars, wanted, sent>>

------------------------------------------------------------------------------
(* Socket events.                                                            *)

(* _onSocketOpen() up to the answer to blade.connect. *)
SocketOpen(s) ==
  /\ sock[s] = "connecting"
  /\ sock' = [sock EXCEPT ![s] = "open"]
  /\ IF listening
       THEN /\ idle' = FALSE
            /\ hs' = [hs EXCEPT ![s] = "connect"]
            /\ pending' = pending \cup {<<Req("connect", s), s>>}
       ELSE UNCHANGED <<idle, hs, pending>>
  /\ UNCHANGED <<ws, listening, autoReconnect, token, timer, orphans, queue,
                 beatVars, userVars, msgVars>>

(* Mutant: an idle session does not arm the reconnect timer. *)
ArmUnlessIdle == timer' = (timer \/ (autoReconnect' /\ ~idle)) /\ UNCHANGED orphans

(* setTimeout(connect): the handle of a timer still armed is overwritten. *)
ArmReconnect ==
  /\ timer' = (timer \/ autoReconnect')
  /\ orphans' = IF timer /\ autoReconnect' /\ orphans < MaxOrphans
                  THEN orphans + 1 ELSE orphans

(* _onSocketCloseOrError() *)
OnCloseOrError ==
  IF ~listening THEN UNCHANGED <<idle, autoReconnect, token, timer, orphans>>
  ELSE /\ IF token = "expired"
            THEN idle' = TRUE /\ autoReconnect' = FALSE /\ token' = "none"
            ELSE UNCHANGED <<idle, autoReconnect, token>>
       /\ ArmReconnect

(* A network failure, or close() on a socket that is not open yet: the ws    *)
(* object reports an error first and a close later.                          *)
SocketError(s) ==
  /\ sock[s] \in {"connecting", "open", "closing"}
  /\ sock' = [sock EXCEPT ![s] = "errored"]
  /\ OnCloseOrError
  /\ UNCHANGED <<ws, listening, queue, pending, hs, beatVars, userVars, msgVars>>

SocketClose(s) ==
  /\ sock[s] \in {"open", "closing", "errored"}
  /\ sock' = [sock EXCEPT ![s] = "closed"]
  /\ OnCloseOrError
  /\ UNCHANGED <<ws, listening, queue, pending, hs, beatVars, userVars, msgVars>>

(* A blade.disconnect message: the server is about to close the socket. *)
BladeDisconnect(s) ==
  /\ sock[s] \in {"open", "closing"}
  /\ listening
  /\ idle' = TRUE
  /\ UNCHANGED <<connVars, autoReconnect, token, timer, orphans, queue, pending,
                 hs, beatVars, userVars, msgVars>>

------------------------------------------------------------------------------
(* Answers.                                                                  *)

Answerable(r, s) == <<r, s>> \in pending /\ sock[s] \in {"open", "closing"}

(* The answer to r moves the handshake of socket s from its request k on. *)
Continues(k, s) == hs[s] = k

(* blade.connect answered: note the token and run Setup.  The await of the     *)
(* session storage before its request (Setup.ts:16) is part of this step; the  *)
(* one after the subscription (Setup.ts:25) is part of HandshakeDone.  In Node  *)
(* and in the browser both return before another event is handled; the         *)
(* AsyncStorage of React Native would be a step of its own.                     *)
ConnectAnswered(s, t) ==
  LET r == Req("connect", s) IN
  /\ Continues("connect", s)
  /\ Answerable(r, t)
  /\ autoReconnect' = TRUE
  /\ token' \in IF Jwt THEN {"none", "valid"} ELSE {"none"}
  /\ hs' = [hs EXCEPT ![s] = "setup"]
  /\ Execute(Req("setup", s), Settle(r))
  /\ UNCHANGED <<idle, timer, orphans, beatVars, userVars, fate>>

(* Setup answered with a protocol: subscribe to its notifications. *)
SetupAnswered(s, t) ==
  LET r == Req("setup", s) IN
  /\ Continues("setup", s)
  /\ Answerable(r, t)
  /\ hs' = [hs EXCEPT ![s] = "subscribe"]
  /\ Execute(Req("subscribe", s), Settle(r))
  /\ UNCHANGED <<idle, autoReconnect, token, timer, orphans, beatVars, userVars,
                 fate>>

(* Mutant: the handshake ends without _emptyExecuteQueues(). *)
PingOnly(s) == IF KeepAlive THEN <<Req("ping", s)>> ELSE <<>>

(* What a handshake that ends executes: the queue, then the first ping. *)
Flush(s) == queue \o IF KeepAlive THEN <<Req("ping", s)>> ELSE <<>>

(* The rest of _onSocketOpen(): _emptyExecuteQueues(), then the first beat of *)
(* a new keepalive loop, and the Ready event.  Without a protocol Setup ends  *)
(* here at once.                                                              *)
HandshakeDone(s, k, t) ==
  /\ k \in {"setup", "subscribe"}
  /\ Continues(k, s)
  /\ Answerable(Req(k, s), t)
  /\ hs' = [hs EXCEPT ![s] = "ready"]
  /\ ExecuteAll(Flush(s), Spent(queue), Settle(Req(k, s)))
  /\ IF KeepAlive
       THEN pong' = "false" /\ loops' = loops \cup {s} /\ beat' = s
       ELSE pong' = "null" /\ UNCHANGED <<loops, beat>>
  /\ UNCHANGED <<idle, autoReconnect, token, timer, orphans, userVars, fate>>

(* Any other answer, good or bad, that does not carry the timeout code. *)
OtherAnswered(r, t) ==
  /\ Answerable(r, t)
  /\ pending' = Settle(r)
  /\ \/ /\ r.kind \in HandshakeKinds
        /\ hs' = IF Continues(r.kind, r.of) THEN [hs EXCEPT ![r.of] = "failed"] ELSE hs
        /\ UNCHANGED <<pong, token>>
     \/ /\ r.kind = "ping"
        /\ pong' \in {"true", "false"}
        /\ UNCHANGED <<hs, token>>
     \/ /\ r.kind = "reauth"
        /\ token' \in {token} \cup (IF Jwt THEN {"none", "valid"} ELSE {"none"})
        /\ UNCHANGED <<hs, pong>>
     \/ /\ r.kind \in {"app", "stale"}
        /\ UNCHANGED <<hs, pong, token>>
  /\ UNCHANGED <<connVars, idle, autoReconnect, timer, orphans, queue, loops,
                 beat, userVars, msgVars>>

(* Mutant: the timers of requests go when the socket does. *)
TimerArmedIfConnected(r) == Connected /\ \E s \in Sockets : <<r, s>> \in pending

(* _timers has an entry for r. *)
TimerArmed(r) == \E s \in Sockets : <<r, s>> \in pending

(* The error with timeoutErrorCode, from the request's own timer or from the  *)
(* server: execute() closes the connection, and the caller fails.             *)
TimedOut(r) ==
  /\ TimerArmed(r)
  /\ pending' = Settle(r)
  /\ CloseConnection({})
  /\ hs' = IF r.kind \in HandshakeKinds /\ Continues(r.kind, r.of)
             THEN [hs EXCEPT ![r.of] = "failed"] ELSE hs
  /\ pong' = IF r.kind = "ping" THEN "false" ELSE pong
  /\ UNCHANGED <<listening, autoReconnect, token, timer, orphans, queue, beat,
                 userVars, msgVars>>

------------------------------------------------------------------------------
(* Timers.                                                                   *)

(* One of the armed reconnect timers fires. *)
ReconnectFires ==
  \/ timer /\ timer' = FALSE /\ UNCHANGED orphans
  \/ orphans > 0 /\ orphans' = orphans - 1 /\ UNCHANGED timer

(* The reconnect timer of _onSocketCloseOrError: nothing but clearTimeout on  *)
(* the latest handle keeps it from calling connect().                         *)
ReconnectTimer ==
  /\ ReconnectFires
  /\ Connect
  /\ UNCHANGED <<idle, autoReconnect, token, queue, pending, hs, beatVars,
                 userVars, msgVars>>

(* Mutant: _keepAlive() that does not re-arm its timer. *)
BeatOnce(s) == loops' = loops \ {s} /\ beat' = s

(* setTimeout(_keepAlive) by the loop s itself. *)
Rearm(s) == loops' = loops /\ beat' = s

(* _keepAlive() called by its own timer.  The loop's last ping was sent just  *)
(* before this timer was armed with the same 10 seconds, so its own timeout   *)
(* comes first: the ping is no longer in flight.                              *)
KeepAliveTick(s) ==
  /\ s \in loops
  /\ \A t \in Sockets : <<Req("ping", s), t>> \notin pending
  /\ \/ /\ pong = "false"
        /\ CloseConnection({s})
        /\ UNCHANGED <<listening, queue, pending, pong, beat, sent>>
     \/ /\ pong # "false"
        /\ pong' = "false"
        /\ Rearm(s)
        /\ Execute(Req("ping", s), pending)
        /\ UNCHANGED idle
  /\ UNCHANGED <<autoReconnect, token, timer, orphans, hs, userVars, fate>>

(* The clock passes expiresAt. *)
TokenExpires ==
  /\ token = "valid"
  /\ token' = "expired"
  /\ UNCHANGED <<connVars, idle, autoReconnect, timer, orphans, queue, pending, hs,
                 beatVars, userVars, msgVars>>

------------------------------------------------------------------------------
User ==
  \/ UserConnect \/ UserRefresh \/ Disconnect
  \/ \E m \in Msgs : UserExecute(m)

Answer ==
  \/ \E s, t \in Sockets : ConnectAnswered(s, t) \/ SetupAnswered(s, t)
  \/ \E s, t \in Sockets, k \in {"setup", "subscribe"} : HandshakeDone(s, k, t)
  \/ \E rs \in pending : OtherAnswered(rs[1], rs[2])

Event ==
  \E s \in Sockets : SocketOpen(s) \/ SocketError(s) \/ SocketClose(s)
                       \/ BladeDisconnect(s)

Timer ==
  \/ ReconnectTimer \/ TokenExpires
  \/ \E rs \in pending : TimedOut(rs[1])
  \/ \E s \in Sockets : KeepAliveTick(s)

Next == User \/ DisconnectDone \/ Answer \/ Event \/ Timer

Spec == Init /\ [][Next]_vars

(* Timers fire, an awaited promise resumes, a socket told to close or broken  *)
(* emits its close event, and one that connects succeeds or fails.  The user, *)
(* the server's answers and the network owe nothing.                          *)
Fairness ==
  /\ WF_vars(ReconnectTimer)
  /\ WF_vars(DisconnectDone)
  /\ \A r \in Request : WF_vars(TimedOut(r))
  /\ \A s \in Sockets :
       /\ WF_vars(Dying(s) /\ SocketClose(s))
       /\ WF_vars(SocketOpen(s) \/ (sock[s] = "connecting" /\ SocketError(s)))
       /\ WF_vars(KeepAliveTick(s))

FairSpec == Spec /\ Fairness

------------------------------------------------------------------------------
(* What must hold.                                                           *)

Started == \E s \in Sockets : sock[s] # "free"

(* Whatever races between timers, refreshes and calls of connect(), a socket  *)
(* that is connecting or open is the one _wsClient refers to: the session     *)
(* never keeps a second connection alive that nobody would ever close.        *)
LiveIsCurrent == \A s \in Sockets : Live(s) => ws = s

(* A session that wants to reconnect always has something left that will make *)
(* it: a live socket, a close event to come or an armed reconnect timer.      *)
(* connect() of BaseSession consumes the timer and _closeConnection forgets   *)
(* the socket, so any of them may go as long as another is there.             *)
ReconnectOwed ==
  listening /\ autoReconnect /\ Started =>
    timer \/ orphans > 0 \/ \E s \in Sockets : Live(s) \/ Dying(s)

(* A dead server does not go unnoticed: an open, handshaken socket is given up *)
(* unless the server answers a ping, whichever keepalive loop is still armed    *)
(* and whatever timer handle was overwritten (BaseSession.ts:420-432).         *)
DeadPeerDropped ==
  KeepAlive =>
    \A s \in Sockets : (sock[s] = "open" /\ hs[s] = "ready")
                          ~> (sock[s] # "open" \/ pong = "true")

(* What the keepalive rests on: an open, handshaken socket always has the     *)
(* timer of its own loop armed, although a loop clears and overwrites the      *)
(* one handle all loops share (BaseSession.ts:394-400, 420-432).               *)
DeadPeerWatched ==
  KeepAlive => \A s \in Sockets : sock[s] = "open" /\ hs[s] = "ready" => s \in loops

(* A message execute() accepted and never sent is still in _executeQueue,     *)
(* unless disconnect() dropped it: idle periods, flushes that meet another    *)
(* idle period and reconnections lose nothing.                                *)
NothingLost ==
  \A m \in Msgs : fate[m] = "accepted" /\ sent[m] = 0 =>
                     Req("app", m) \in Range(queue)

(* Once the current socket went through its handshake and the session is not  *)
(* idle, every accepted message has been sent.                                *)
ReadyMeansFlushed ==
  ~idle /\ Connected /\ hs[ws] = "ready" =>
    \A m \in Msgs : fate[m] = "accepted" => sent[m] > 0

(* execute() keeps the promise of module Outbox: accepted messages wait       *)
(* together until one flush sends them all or one disconnect() drops them     *)
(* all, and what was dropped is not sent by a later connection. A message     *)
(* that was sent counts as sent, although the queue keeps it until            *)
(* disconnect() and each handshake sends it again (BaseSession.ts:380-388).   *)
Standing(m) ==
  CASE sent[m] > 0                          -> "sent"
    [] sent[m] = 0 /\ fate[m] = "accepted" -> "waiting"
    [] sent[m] = 0 /\ fate[m] # "accepted" -> fate[m]

Box == INSTANCE Outbox WITH Messages <- Msgs, status <- [m \in Msgs |-> Standing(m)]
ImplementsOutbox == Box!OutboxSpec

(* A session without a live socket that may reconnect does try again (node    *)
(* CHANGELOG 2.3.2), unless the application or an expired token stops it; the *)
(* last disjunct is the bound on sockets.                                     *)
KeepsReconnecting ==
  (listening /\ autoReconnect /\ Started /\ ~Alive)
    ~> (Alive \/ ~autoReconnect \/ ~listening \/ \A s \in Sockets : sock[s] # "free")

(* Every request that was sent is settled: its own timer outlives the socket. *)
SentIsSettled ==
  \A r \in Request : (\E s \in Sockets : <<r, s>> \in pending)
                       ~> (\A s \in Sockets : <<r, s>> \notin pending)

------------------------------------------------------------------------------
(* What the repository says and the code does not do.                        *)

(* "Remove subscriptions and calls, close WS connection and remove all        *)
(* session listeners" (BaseSession.ts:151): after disconnect() there is no    *)
(* connection until the application asks for one.                             *)
DisconnectIsFinal == wanted = "no" /\ ~disconnecting => \A s \in Sockets : ~Live(s)
=============================================================================

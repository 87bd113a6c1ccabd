---------------------------- MODULE SessionProofs ----------------------------
(* Proofs about Session, for any number of sockets and messages and any      *)
(* bounds: the type invariant, that a live socket is the current one, that a  *)
(* session that wants to reconnect has something left to do it, that the      *)
(* queue loses no message and keeps the promise of module Outbox, and that an *)
(* open socket has its keepalive timer.                                       *)
EXTENDS Session, TLAPS

------------------------------------------------------------------------------
(* The building blocks.                                                      *)

(* connect() changes the listeners, the sockets and the current socket only,  *)
(* and the current socket is alive afterwards.                                *)
LEMMA ConnectEffect ==
  ASSUME TypeOK, Connect
  PROVE  /\ listening' = TRUE
         /\ sock' \in [Sockets -> SockState]
         /\ ws' \in Sockets
         /\ sock'[ws'] \in {"connecting", "open"}
         /\ \A s \in Sockets : s # ws' => sock'[s] = sock[s]
         /\ Alive => ws' = ws
<1>1. CASE Alive /\ UNCHANGED <<sock, ws>> /\ listening' = TRUE
  BY <1>1, NoneAssumption DEF TypeOK, Alive, Live
<1>2. CASE ~Alive /\ listening' = TRUE
  <2>1. PICK s \in Sockets : /\ sock[s] = "free"
                             /\ sock' = [sock EXCEPT ![s] = "connecting"]
                             /\ ws' = s
    BY <1>2 DEF Connect
  <2>2. QED
    BY <1>2, <2>1 DEF TypeOK, SockState
<1>3. QED
  BY <1>1, <1>2 DEF Connect

(* The parts of a state execute() may change keep their types.                *)
LEMMA ExecuteAllType ==
  ASSUME TypeOK, NEW rs \in Seq(Request), NEW q \in Seq(Request),
         NEW p \in SUBSET (Request \X Sockets), ExecuteAll(rs, q, p)
  PROVE  /\ queue' \in Seq(Request)
         /\ pending' \subseteq Request \X Sockets
         /\ sock' \in [Sockets -> SockState]
         /\ ws' \in Sockets \cup {None}
         /\ listening' \in BOOLEAN
         /\ sent' \in [Msgs -> 0 .. 2]
<1>1. CASE /\ ~idle /\ Connected
           /\ queue' = q
           /\ pending' = p \cup {<<r, ws>> : r \in Range(rs)}
           /\ sent' = [m \in Msgs |-> Transmissions(rs, m)]
           /\ UNCHANGED connVars
  <2>1. Range(rs) \subseteq Request
    BY DEF Range
  <2>2. ws \in Sockets
    BY <1>1 DEF Connected, TypeOK
  <2>3. \A m \in Msgs : Transmissions(rs, m) \in 0 .. 2
    BY DEF Transmissions, TypeOK
  <2>4. QED
    BY <1>1, <2>1, <2>2, <2>3 DEF TypeOK, connVars
<1>2. CASE /\ queue' = q \o rs
           /\ pending' = p
           /\ IF idle \/ rs = <<>> THEN UNCHANGED connVars ELSE Connect
           /\ UNCHANGED sent
  <2>1. queue' \in Seq(Request) /\ pending' \subseteq Request \X Sockets
    BY <1>2
  <2>2. sent' \in [Msgs -> 0 .. 2]
    BY <1>2 DEF TypeOK
  <2>3. CASE UNCHANGED connVars
    BY <2>1, <2>2, <2>3 DEF TypeOK, connVars
  <2>4. CASE Connect
    <3>1. listening' \in BOOLEAN /\ sock' \in [Sockets -> SockState] /\ ws' \in Sockets
      BY <2>4, ConnectEffect
    <3>2. QED
      BY <2>1, <2>2, <3>1
  <2>5. QED
    BY <1>2, <2>3, <2>4
<1>3. QED
  BY <1>1, <1>2 DEF ExecuteAll, Push

(* _closeConnection() keeps the types and makes no socket live.               *)
LEMMA CloseEffect ==
  ASSUME TypeOK, NEW L, CloseConnection(L)
  PROVE  /\ idle' \in BOOLEAN
         /\ loops' \subseteq Sockets
         /\ sock' \in [Sockets -> SockState]
         /\ ws' = None
         /\ \A s \in Sockets : s # ws => sock'[s] = sock[s]
         /\ \A s \in Sockets : Live(s) /\ s = ws => sock'[s] = "closing"
         /\ \A s \in Sockets : ~Live(s) => sock'[s] = sock[s]
BY NoneAssumption DEF CloseConnection, TypeOK, SockState, Alive, Live

(* _onSocketCloseOrError() keeps the types, and arms a timer whenever it      *)
(* leaves a listening session with _autoReconnect set.                        *)
LEMMA CloseOrErrorEffect ==
  ASSUME TypeOK, OnCloseOrError
  PROVE  /\ idle' \in BOOLEAN /\ autoReconnect' \in BOOLEAN
         /\ token' \in {"none", "valid", "expired"}
         /\ timer' \in BOOLEAN /\ orphans' \in 0 .. MaxOrphans
         /\ listening /\ autoReconnect' => timer'
<1>1. orphans \in Nat /\ MaxOrphans \in Nat
  BY BoundAssumption DEF TypeOK
<1>2. CASE ~listening
  BY <1>2 DEF OnCloseOrError, ArmReconnect, TypeOK
<1>3. CASE listening
  <2>1. autoReconnect' \in BOOLEAN /\ idle' \in BOOLEAN
          /\ token' \in {"none", "valid", "expired"}
    BY <1>3 DEF OnCloseOrError, ArmReconnect, TypeOK
  <2>2. timer' = (timer \/ autoReconnect')
    BY <1>3 DEF OnCloseOrError, ArmReconnect
  <2>3. orphans' \in 0 .. MaxOrphans
    BY <1>1, <1>3 DEF OnCloseOrError, ArmReconnect, TypeOK
  <2>4. timer' \in BOOLEAN /\ (autoReconnect' => timer')
    BY <2>1, <2>2 DEF TypeOK
  <2>5. QED
    BY <2>1, <2>3, <2>4
<1>4. QED
  BY <1>2, <1>3 DEF TypeOK

LEMMA SettleType ==
  ASSUME TypeOK, NEW r
  PROVE  Settle(r) \in SUBSET (Request \X Sockets)
BY DEF TypeOK, Settle

LEMMA SpentType ==
  ASSUME NEW q \in Seq(Request)
  PROVE  Spent(q) \in Seq(Request)
<1>1. \A i \in DOMAIN q : q[i] \in Request
  OBVIOUS
<1>2. \A r \in Request : r.kind = "ping" => Req("stale", r.of) \in Request
  BY DEF Request, Req, HandshakeKinds
<1>3. QED
  BY <1>1, <1>2 DEF Spent

LEMMA RequestType ==
  /\ \A k \in HandshakeKinds \cup {"ping", "stale"}, s \in Sockets : Req(k, s) \in Request
  /\ \A m \in Msgs : Req("app", m) \in Request
  /\ Reauth \in Request
BY DEF Request, Req, Reauth

------------------------------------------------------------------------------
(* Type correctness.                                                         *)

USE DEF connVars, beatVars, userVars, msgVars

(* Every variable keeps its type: no step of the session, in whatever order   *)
(* sockets, timers, answers and calls arrive, leaves the state space above.   *)
THEOREM TypeCorrect == Spec => []TypeOK
<1>1. Init => TypeOK
  <2> SUFFICES ASSUME Init PROVE TypeOK
    OBVIOUS
  <2>1. queue \in Seq(Request)
    BY DEF Init
  <2>2. orphans \in 0 .. MaxOrphans
    BY BoundAssumption DEF Init
  <2>3. sent \in [Msgs -> 0 .. 2]
    BY DEF Init
  <2>4. QED
    BY <2>1, <2>2, <2>3 DEF Init, TypeOK, SockState
<1>2. ASSUME TypeOK, [Next]_vars PROVE TypeOK'
  <2> USE <1>2
  <2>1. CASE UserConnect
    <3>1. listening' \in BOOLEAN /\ sock' \in [Sockets -> SockState] /\ ws' \in Sockets
      BY <2>1, ConnectEffect DEF UserConnect
    <3>2. QED
      BY <2>1, <3>1 DEF UserConnect, TypeOK
  <2>2. ASSUME NEW m \in Msgs, UserExecute(m) PROVE TypeOK'
    <3>1. /\ <<Req("app", m)>> \in Seq(Request)
          /\ queue \in Seq(Request)
          /\ pending \in SUBSET (Request \X Sockets)
      BY RequestType DEF TypeOK
    <3>2. ExecuteAll(<<Req("app", m)>>, queue, pending)
      BY <2>2 DEF UserExecute, Execute
    <3>3. /\ queue' \in Seq(Request) /\ pending' \subseteq Request \X Sockets
          /\ sock' \in [Sockets -> SockState] /\ ws' \in Sockets \cup {None}
          /\ listening' \in BOOLEAN /\ sent' \in [Msgs -> 0 .. 2]
      BY <3>1, <3>2, ExecuteAllType
    <3>4. QED
      BY <2>2, <3>3 DEF UserExecute, TypeOK
  <2>3. CASE UserRefresh
    <3>1. /\ <<Reauth>> \in Seq(Request)
          /\ queue \in Seq(Request)
          /\ pending \in SUBSET (Request \X Sockets)
      BY RequestType DEF TypeOK
    <3>2. CASE Connect /\ UNCHANGED <<queue, pending, sent>>
      <4>1. listening' \in BOOLEAN /\ sock' \in [Sockets -> SockState] /\ ws' \in Sockets
        BY <3>2, ConnectEffect
      <4>2. QED
        BY <2>3, <3>2, <4>1 DEF UserRefresh, TypeOK
    <3>3. CASE ExecuteAll(<<Reauth>>, queue, pending)
      <4>1. /\ queue' \in Seq(Request) /\ pending' \subseteq Request \X Sockets
            /\ sock' \in [Sockets -> SockState] /\ ws' \in Sockets \cup {None}
            /\ listening' \in BOOLEAN /\ sent' \in [Msgs -> 0 .. 2]
        BY <3>1, <3>3, ExecuteAllType
      <4>2. QED
        BY <2>3, <4>1 DEF UserRefresh, TypeOK
    <3>4. QED
      BY <2>3, <3>2, <3>3 DEF UserRefresh, Execute
  <2>4. CASE Disconnect
    <3>1. /\ idle' \in BOOLEAN /\ loops' \subseteq Sockets
          /\ sock' \in [Sockets -> SockState] /\ ws' = None
      BY <2>4, CloseEffect DEF Disconnect
    <3>2. QED
      BY <2>4, <3>1 DEF Disconnect, TypeOK
  <2>5. CASE DisconnectDone
    <3>1. queue' \in Seq(Request)
      BY <2>5 DEF DisconnectDone
    <3>2. fate' \in [Msgs -> {"new", "accepted", "dropped"}]
      BY <2>5 DEF DisconnectDone, TypeOK
    <3>3. QED
      BY <2>5, <3>1, <3>2 DEF DisconnectDone, TypeOK
  <2>6. ASSUME NEW s \in Sockets, SocketOpen(s) PROVE TypeOK'
    <3>1. <<Req("connect", s), s>> \in Request \X Sockets
      BY RequestType DEF HandshakeKinds
    <3>2. sock' \in [Sockets -> SockState]
      BY <2>6 DEF SocketOpen, TypeOK, SockState
    <3>3. /\ idle' \in BOOLEAN /\ pending' \subseteq Request \X Sockets
          /\ hs' \in [Sockets -> {"none", "ready", "failed"} \cup HandshakeKinds]
      BY <2>6, <3>1 DEF SocketOpen, TypeOK, HandshakeKinds
    <3>4. wanted' \in {"no", "yes"}
      BY <2>6 DEF SocketOpen, TypeOK
    <3>5. QED
      BY <2>6, <3>2, <3>3, <3>4 DEF SocketOpen, TypeOK
  <2>7. ASSUME NEW s \in Sockets, SocketError(s) \/ SocketClose(s) PROVE TypeOK'
    <3>1. OnCloseOrError
      BY <2>7 DEF SocketError, SocketClose
    <3>2. /\ idle' \in BOOLEAN /\ autoReconnect' \in BOOLEAN
          /\ token' \in {"none", "valid", "expired"}
          /\ timer' \in BOOLEAN /\ orphans' \in 0 .. MaxOrphans
      BY <3>1, CloseOrErrorEffect
    <3>3. sock' \in [Sockets -> SockState]
      BY <2>7 DEF SocketError, SocketClose, TypeOK, SockState
    <3>4. QED
      BY <2>7, <3>2, <3>3 DEF SocketError, SocketClose, TypeOK
  <2>8. ASSUME NEW s \in Sockets, BladeDisconnect(s) PROVE TypeOK'
    BY <2>8 DEF BladeDisconnect, TypeOK
  <2>9. ASSUME NEW s \in Sockets, NEW t \in Sockets, ConnectAnswered(s, t) PROVE TypeOK'
    <3>1. /\ <<Req("setup", s)>> \in Seq(Request)
          /\ queue \in Seq(Request)
          /\ Settle(Req("connect", s)) \in SUBSET (Request \X Sockets)
      BY RequestType, SettleType DEF TypeOK, HandshakeKinds
    <3>2. ExecuteAll(<<Req("setup", s)>>, queue, Settle(Req("connect", s)))
      BY <2>9 DEF ConnectAnswered, Execute
    <3>3. /\ queue' \in Seq(Request) /\ pending' \subseteq Request \X Sockets
          /\ sock' \in [Sockets -> SockState] /\ ws' \in Sockets \cup {None}
          /\ listening' \in BOOLEAN /\ sent' \in [Msgs -> 0 .. 2]
      BY <3>1, <3>2, ExecuteAllType
    <3>4. /\ autoReconnect' \in BOOLEAN /\ token' \in {"none", "valid", "expired"}
          /\ hs' \in [Sockets -> {"none", "ready", "failed"} \cup HandshakeKinds]
      BY <2>9 DEF ConnectAnswered, TypeOK, HandshakeKinds
    <3>5. QED
      BY <2>9, <3>3, <3>4 DEF ConnectAnswered, TypeOK
  <2>10. ASSUME NEW s \in Sockets, NEW t \in Sockets, SetupAnswered(s, t) PROVE TypeOK'
    <3>1. /\ <<Req("subscribe", s)>> \in Seq(Request)
          /\ queue \in Seq(Request)
          /\ Settle(Req("setup", s)) \in SUBSET (Request \X Sockets)
      BY RequestType, SettleType DEF TypeOK, HandshakeKinds
    <3>2. ExecuteAll(<<Req("subscribe", s)>>, queue, Settle(Req("setup", s)))
      BY <2>10 DEF SetupAnswered, Execute
    <3>3. /\ queue' \in Seq(Request) /\ pending' \subseteq Request \X Sockets
          /\ sock' \in [Sockets -> SockState] /\ ws' \in Sockets \cup {None}
          /\ listening' \in BOOLEAN /\ sent' \in [Msgs -> 0 .. 2]
      BY <3>1, <3>2, ExecuteAllType
    <3>4. hs' \in [Sockets -> {"none", "ready", "failed"} \cup HandshakeKinds]
      BY <2>10 DEF SetupAnswered, TypeOK, HandshakeKinds
    <3>5. QED
      BY <2>10, <3>3, <3>4 DEF SetupAnswered, TypeOK
  <2>11. ASSUME NEW s \in Sockets, NEW t \in Sockets, NEW k \in {"setup", "subscribe"},
                HandshakeDone(s, k, t)
         PROVE  TypeOK'
    <3> DEFINE pings == IF KeepAlive THEN <<Req("ping", s)>> ELSE <<>>
    <3>1. ExecuteAll(queue \o pings, Spent(queue), Settle(Req(k, s)))
      BY <2>11 DEF HandshakeDone, Flush
    <3>2. pings \in Seq(Request)
      BY RequestType
    <3>3. queue \in Seq(Request)
      BY DEF TypeOK
    <3>4. /\ queue \o pings \in Seq(Request)
          /\ Spent(queue) \in Seq(Request)
          /\ Settle(Req(k, s)) \in SUBSET (Request \X Sockets)
      <4> HIDE DEF pings
      <4> QED
        BY <3>2, <3>3, SpentType, SettleType
    <3>5. /\ queue' \in Seq(Request) /\ pending' \subseteq Request \X Sockets
          /\ sock' \in [Sockets -> SockState] /\ ws' \in Sockets \cup {None}
          /\ listening' \in BOOLEAN /\ sent' \in [Msgs -> 0 .. 2]
      <4> HIDE DEF pings
      <4> QED
        BY <3>1, <3>4, ExecuteAllType
    <3>6. /\ hs' \in [Sockets -> {"none", "ready", "failed"} \cup HandshakeKinds]
          /\ pong' \in {"null", "true", "false"}
          /\ loops' \subseteq Sockets
          /\ beat' \in Sockets \cup {None}
      BY <2>11 DEF HandshakeDone, TypeOK
    <3>7. QED
      BY <2>11, <3>5, <3>6 DEF HandshakeDone, TypeOK
  <2>12. ASSUME NEW rs \in pending, OtherAnswered(rs[1], rs[2]) PROVE TypeOK'
    <3>1. rs[1] \in Request
      BY DEF TypeOK
    <3>2. pending' \subseteq Request \X Sockets
      BY <2>12, SettleType DEF OtherAnswered
    <3>3. token' \in {"none", "valid", "expired"} /\ pong' \in {"null", "true", "false"}
      BY <2>12, <3>1 DEF OtherAnswered, TypeOK
    <3>4. hs' \in [Sockets -> {"none", "ready", "failed"} \cup HandshakeKinds]
      BY <2>12, <3>1 DEF OtherAnswered, TypeOK
    <3>5. QED
      BY <2>12, <3>2, <3>3, <3>4 DEF OtherAnswered, TypeOK
  <2>13. ASSUME NEW rs \in pending, TimedOut(rs[1]) PROVE TypeOK'
    <3>1. /\ idle' \in BOOLEAN /\ loops' \subseteq Sockets
          /\ sock' \in [Sockets -> SockState] /\ ws' = None
      BY <2>13, CloseEffect DEF TimedOut
    <3>2. pending' \subseteq Request \X Sockets
      BY <2>13, SettleType DEF TimedOut
    <3>3. /\ hs' \in [Sockets -> {"none", "ready", "failed"} \cup HandshakeKinds]
          /\ pong' \in {"null", "true", "false"}
      BY <2>13 DEF TimedOut, TypeOK
    <3>4. QED
      BY <2>13, <3>1, <3>2, <3>3 DEF TimedOut, TypeOK
  <2>14. CASE ReconnectTimer
    <3>1. listening' \in BOOLEAN /\ sock' \in [Sockets -> SockState] /\ ws' \in Sockets
      BY <2>14, ConnectEffect DEF ReconnectTimer
    <3>2. timer' \in BOOLEAN
      BY <2>14 DEF ReconnectTimer, ReconnectFires, TypeOK
    <3>3. orphans' = orphans \/ (orphans > 0 /\ orphans' = orphans - 1)
      BY <2>14 DEF ReconnectTimer, ReconnectFires
    <3>4. orphans' \in 0 .. MaxOrphans
      BY <3>3, BoundAssumption DEF TypeOK
    <3>5. QED
      BY <2>14, <3>1, <3>2, <3>4 DEF ReconnectTimer, ReconnectFires, TypeOK
  <2>15. ASSUME NEW s \in Sockets, KeepAliveTick(s) PROVE TypeOK'
    <3>1. CASE CloseConnection({s}) /\ UNCHANGED <<listening, queue, pending, pong, beat, sent>>
      <4>1. /\ idle' \in BOOLEAN /\ loops' \subseteq Sockets
            /\ sock' \in [Sockets -> SockState] /\ ws' = None
        BY <3>1, CloseEffect
      <4>2. QED
        BY <2>15, <3>1, <4>1 DEF KeepAliveTick, TypeOK
    <3>2. CASE /\ pong' = "false" /\ beat' = s
               /\ ExecuteAll(<<Req("ping", s)>>, queue, pending)
               /\ UNCHANGED <<idle, loops>>
      <4>1. /\ <<Req("ping", s)>> \in Seq(Request)
            /\ queue \in Seq(Request)
            /\ pending \in SUBSET (Request \X Sockets)
        <5>1. Req("ping", s) \in Request
          BY RequestType
        <5>2. QED
          BY <5>1 DEF TypeOK
      <4>2. /\ queue' \in Seq(Request) /\ pending' \subseteq Request \X Sockets
            /\ sock' \in [Sockets -> SockState] /\ ws' \in Sockets \cup {None}
            /\ listening' \in BOOLEAN /\ sent' \in [Msgs -> 0 .. 2]
        BY <3>2, <4>1, ExecuteAllType
      <4>3. QED
        BY <2>15, <3>2, <4>2 DEF KeepAliveTick, TypeOK
    <3>3. QED
      BY <2>15, <3>1, <3>2 DEF KeepAliveTick, Execute, Rearm
  <2>16. CASE TokenExpires
    BY <2>16 DEF TokenExpires, TypeOK
  <2>17. CASE UNCHANGED vars
    BY <2>17 DEF vars, TypeOK
  <2>18. QED
    BY <2>1, <2>2, <2>3, <2>4, <2>5, <2>6, <2>7, <2>8, <2>9, <2>10, <2>11, <2>12,
       <2>13, <2>14, <2>15, <2>16, <2>17
       DEF Next, User, Answer, Event, Timer
<1>3. QED
  BY <1>1, <1>2, PTL DEF Spec

------------------------------------------------------------------------------
(* The socket invariant.                                                     *)

LEMMA ConnectKeepsLive ==
  ASSUME TypeOK, LiveIsCurrent, Connect
  PROVE  LiveIsCurrent'
<1>1. ASSUME NEW s \in Sockets, s # ws', sock[s] \in {"connecting", "open"}
      PROVE  FALSE
  <2>1. s = ws
    BY <1>1 DEF LiveIsCurrent, Live
  <2>2. Alive
    BY <1>1, <2>1, NoneAssumption DEF Alive, Live
  <2>3. QED
    BY <1>1, <2>1, <2>2, ConnectEffect
<1>2. QED
  BY <1>1, ConnectEffect DEF LiveIsCurrent, Live

LEMMA ExecuteAllKeepsLive ==
  ASSUME TypeOK, LiveIsCurrent, NEW rs, NEW q, NEW p, ExecuteAll(rs, q, p)
  PROVE  LiveIsCurrent'
<1>1. UNCHANGED connVars \/ Connect
  BY DEF ExecuteAll
<1>2. CASE UNCHANGED connVars
  BY <1>2 DEF LiveIsCurrent, Live
<1>3. QED
  BY <1>1, <1>2, ConnectKeepsLive

LEMMA CloseKeepsLive ==
  ASSUME TypeOK, LiveIsCurrent, NEW L, CloseConnection(L)
  PROVE  LiveIsCurrent'
BY CloseEffect DEF LiveIsCurrent, Live

LEMMA StepKeepsLive == TypeOK /\ LiveIsCurrent /\ [Next]_vars => LiveIsCurrent'
<1> SUFFICES ASSUME TypeOK, LiveIsCurrent, [Next]_vars PROVE LiveIsCurrent'
  OBVIOUS
<1>1. CASE UserConnect
  BY <1>1, ConnectKeepsLive DEF UserConnect
<1>2. ASSUME NEW m \in Msgs, UserExecute(m) PROVE LiveIsCurrent'
  BY <1>2, ExecuteAllKeepsLive DEF UserExecute, Execute
<1>3. CASE UserRefresh
  BY <1>3, ConnectKeepsLive, ExecuteAllKeepsLive DEF UserRefresh, Execute
<1>4. CASE Disconnect
  BY <1>4, CloseKeepsLive DEF Disconnect
<1>5. CASE DisconnectDone
  BY <1>5 DEF DisconnectDone, LiveIsCurrent, Live
<1>6. ASSUME NEW s \in Sockets, SocketOpen(s) PROVE LiveIsCurrent'
  BY <1>6 DEF SocketOpen, LiveIsCurrent, Live, TypeOK
<1>7. ASSUME NEW s \in Sockets, SocketError(s) \/ SocketClose(s) PROVE LiveIsCurrent'
  BY <1>7 DEF SocketError, SocketClose, LiveIsCurrent, Live, TypeOK
<1>8. ASSUME NEW s \in Sockets, BladeDisconnect(s) PROVE LiveIsCurrent'
  BY <1>8 DEF BladeDisconnect, LiveIsCurrent, Live
<1>9. ASSUME NEW s \in Sockets, NEW t \in Sockets,
             ConnectAnswered(s, t) \/ SetupAnswered(s, t)
      PROVE  LiveIsCurrent'
  BY <1>9, ExecuteAllKeepsLive DEF ConnectAnswered, SetupAnswered, Execute
<1>10. ASSUME NEW s \in Sockets, NEW t \in Sockets, NEW k, HandshakeDone(s, k, t)
       PROVE  LiveIsCurrent'
  BY <1>10, ExecuteAllKeepsLive DEF HandshakeDone
<1>11. ASSUME NEW r, NEW t, OtherAnswered(r, t) PROVE LiveIsCurrent'
  BY <1>11 DEF OtherAnswered, LiveIsCurrent, Live
<1>12. ASSUME NEW r, TimedOut(r) PROVE LiveIsCurrent'
  BY <1>12, CloseKeepsLive DEF TimedOut
<1>13. CASE ReconnectTimer
  BY <1>13, ConnectKeepsLive DEF ReconnectTimer
<1>14. ASSUME NEW s \in Sockets, KeepAliveTick(s) PROVE LiveIsCurrent'
  BY <1>14, CloseKeepsLive, ExecuteAllKeepsLive DEF KeepAliveTick, Execute
<1>15. CASE TokenExpires
  BY <1>15 DEF TokenExpires, LiveIsCurrent, Live
<1>16. CASE UNCHANGED vars
  BY <1>16 DEF vars, LiveIsCurrent, Live
<1>17. QED
  BY <1>1, <1>2, <1>3, <1>4, <1>5, <1>6, <1>7, <1>8, <1>9, <1>10, <1>11, <1>12,
     <1>13, <1>14, <1>15, <1>16
     DEF Next, User, Answer, Event, Timer

(* Every socket that is connecting or open is the current one: the code never *)
(* leaks a live connection, whatever timers and calls of connect() race.      *)
THEOREM LiveSocketIsCurrent == Spec => []LiveIsCurrent
<1>1. Init => LiveIsCurrent
  BY DEF Init, LiveIsCurrent, Live
<1>2. QED
  BY <1>1, StepKeepsLive, TypeCorrect, PTL DEF Spec

------------------------------------------------------------------------------
(* The reconnect obligation.                                                 *)

(* connect() discharges it on the spot. *)
LEMMA ConnectOwed ==
  ASSUME TypeOK, Connect
  PROVE  ReconnectOwed'
BY ConnectEffect DEF ReconnectOwed, Live

LEMMA ExecuteAllOwed ==
  ASSUME TypeOK, ReconnectOwed, NEW rs, NEW q, NEW p, ExecuteAll(rs, q, p),
         autoReconnect' = autoReconnect, timer' = timer, orphans' = orphans
  PROVE  ReconnectOwed'
<1>1. CASE UNCHANGED connVars
  BY <1>1 DEF ReconnectOwed, Started, Live, Dying
<1>2. QED
  BY <1>1, ConnectOwed DEF ExecuteAll

(* _closeConnection() turns the live socket into one whose close event is to *)
(* come.                                                                     *)
LEMMA ClosingOwed ==
  ASSUME TypeOK, ReconnectOwed, NEW L, CloseConnection(L),
         UNCHANGED <<listening, autoReconnect, timer, orphans>>
  PROVE  ReconnectOwed'
<1>1. \A s \in Sockets : sock[s] = "free" <=> sock'[s] = "free"
  BY DEF CloseConnection, TypeOK, Alive, Live
<1>2. \A s \in Sockets : Live(s) \/ Dying(s) => Live(s)' \/ Dying(s)'
  BY DEF CloseConnection, TypeOK, Alive, Live, Dying
<1>3. QED
  BY <1>1, <1>2 DEF ReconnectOwed, Started

LEMMA StepKeepsOwed == TypeOK /\ ReconnectOwed /\ [Next]_vars => ReconnectOwed'
<1> SUFFICES ASSUME TypeOK, ReconnectOwed, [Next]_vars PROVE ReconnectOwed'
  OBVIOUS
<1>1. CASE UserConnect
  BY <1>1, ConnectOwed DEF UserConnect
<1>2. ASSUME NEW m \in Msgs, UserExecute(m) PROVE ReconnectOwed'
  BY <1>2, ExecuteAllOwed DEF UserExecute, Execute
<1>3. CASE UserRefresh
  BY <1>3, ConnectOwed, ExecuteAllOwed DEF UserRefresh, Execute
<1>4. CASE Disconnect
  BY <1>4 DEF Disconnect, ReconnectOwed
<1>5. CASE DisconnectDone
  BY <1>5 DEF DisconnectDone, ReconnectOwed
<1>6. ASSUME NEW s \in Sockets, SocketOpen(s) PROVE ReconnectOwed'
  BY <1>6 DEF SocketOpen, ReconnectOwed, Live, TypeOK
<1>7. ASSUME NEW s \in Sockets, SocketError(s) \/ SocketClose(s) PROVE ReconnectOwed'
  <2>1. listening' = listening /\ OnCloseOrError
    BY <1>7 DEF SocketError, SocketClose
  <2>2. QED
    BY <2>1, CloseOrErrorEffect DEF ReconnectOwed
<1>8. ASSUME NEW s \in Sockets, BladeDisconnect(s) PROVE ReconnectOwed'
  BY <1>8 DEF BladeDisconnect, ReconnectOwed, Started, Live, Dying
<1>9. ASSUME NEW s \in Sockets, NEW t \in Sockets, ConnectAnswered(s, t)
      PROVE  ReconnectOwed'
  <2>1. sock[t] \in {"open", "closing"}
    BY <1>9 DEF ConnectAnswered, Answerable
  <2>2. CASE UNCHANGED connVars
    BY <2>1, <2>2 DEF ReconnectOwed, Live, Dying
  <2>3. QED
    BY <1>9, <2>2, ConnectOwed DEF ConnectAnswered, Execute, ExecuteAll
<1>10. ASSUME NEW s \in Sockets, NEW t \in Sockets, SetupAnswered(s, t)
       PROVE  ReconnectOwed'
  BY <1>10, ExecuteAllOwed DEF SetupAnswered, Execute
<1>11. ASSUME NEW s \in Sockets, NEW t \in Sockets, NEW k, HandshakeDone(s, k, t)
       PROVE  ReconnectOwed'
  BY <1>11, ExecuteAllOwed DEF HandshakeDone
<1>12. ASSUME NEW r, NEW t, OtherAnswered(r, t) PROVE ReconnectOwed'
  BY <1>12 DEF OtherAnswered, ReconnectOwed, Started, Live, Dying
<1>13. ASSUME NEW r, TimedOut(r) PROVE ReconnectOwed'
  <2>1. CloseConnection({}) /\ UNCHANGED <<listening, autoReconnect, timer, orphans>>
    BY <1>13 DEF TimedOut
  <2>2. QED
    BY <2>1, ClosingOwed
<1>14. CASE ReconnectTimer
  BY <1>14, ConnectOwed DEF ReconnectTimer
<1>15. ASSUME NEW s \in Sockets, KeepAliveTick(s) PROVE ReconnectOwed'
  <2>1. CASE CloseConnection({s}) /\ UNCHANGED <<listening, autoReconnect, timer, orphans>>
    BY <2>1, ClosingOwed
  <2>2. CASE /\ ExecuteAll(<<Req("ping", s)>>, queue, pending)
             /\ UNCHANGED <<autoReconnect, timer, orphans>>
    BY <2>2, ExecuteAllOwed
  <2>3. QED
    BY <1>15, <2>1, <2>2 DEF KeepAliveTick, Execute
<1>16. CASE TokenExpires
  BY <1>16 DEF TokenExpires, ReconnectOwed, Started, Live, Dying
<1>17. CASE UNCHANGED vars
  BY <1>17 DEF vars, ReconnectOwed, Started, Live, Dying
<1>18. QED
  BY <1>1, <1>2, <1>3, <1>4, <1>5, <1>6, <1>7, <1>8, <1>9, <1>10, <1>11, <1>12,
     <1>13, <1>14, <1>15, <1>16, <1>17
     DEF Next, User, Answer, Event, Timer

(* The reconnect obligation is never lost: while the session listens and      *)
(* _autoReconnect is set, a live socket, a close event to come or an armed    *)
(* timer remains, so no interleaving leaves it disconnected for good.         *)
THEOREM ReconnectIsOwed == Spec => []ReconnectOwed
<1>1. Init => ReconnectOwed
  BY DEF Init, ReconnectOwed, Started
<1>2. QED
  BY <1>1, StepKeepsOwed, TypeCorrect, PTL DEF Spec

------------------------------------------------------------------------------
(* The queue.                                                                *)

LEMMA RangeOfBoth ==
  ASSUME NEW q \in Seq(Request), NEW rs \in Seq(Request)
  PROVE  Range(q \o rs) = Range(q) \cup Range(rs)
<1>1. Len(q) \in Nat /\ Len(rs) \in Nat
  OBVIOUS
<1>2. ASSUME NEW x \in Range(q) PROVE x \in Range(q \o rs)
  <2>1. PICK i \in DOMAIN q : x = q[i]
    BY <1>2 DEF Range
  <2>2. i \in DOMAIN (q \o rs) /\ (q \o rs)[i] = x
    BY <1>1, <2>1
  <2>3. QED
    BY <2>2 DEF Range
<1>3. ASSUME NEW x \in Range(rs) PROVE x \in Range(q \o rs)
  <2>1. PICK i \in DOMAIN rs : x = rs[i]
    BY <1>3 DEF Range
  <2>2. Len(q) + i \in DOMAIN (q \o rs) /\ (q \o rs)[Len(q) + i] = x
    BY <1>1, <2>1
  <2>3. QED
    BY <2>2 DEF Range
<1>4. ASSUME NEW x \in Range(q \o rs) PROVE x \in Range(q) \cup Range(rs)
  <2>1. PICK i \in DOMAIN (q \o rs) : x = (q \o rs)[i]
    BY <1>4 DEF Range
  <2>2. i \in 1 .. Len(q) + Len(rs)
    BY <1>1, <2>1
  <2>3. CASE i <= Len(q)
    <3>1. i \in DOMAIN q /\ x = q[i]
      BY <1>1, <2>1, <2>2, <2>3
    <3>2. QED
      BY <3>1 DEF Range
  <2>4. CASE ~(i <= Len(q))
    <3>1. i - Len(q) \in DOMAIN rs /\ x = rs[i - Len(q)]
      BY <1>1, <2>1, <2>2, <2>4
    <3>2. QED
      BY <3>1 DEF Range
  <2>5. QED
    BY <2>3, <2>4
<1>5. QED
  BY <1>2, <1>3, <1>4

(* Settling the promises of the queue loses no message.                       *)
LEMMA SpentKeepsMessages ==
  ASSUME NEW q \in Seq(Request), NEW m \in Msgs, Req("app", m) \in Range(q)
  PROVE  Req("app", m) \in Range(Spent(q))
<1>1. PICK i \in DOMAIN q : q[i] = Req("app", m)
  BY DEF Range
<1>2. q[i].kind # "ping"
  BY <1>1 DEF Req
<1>3. i \in DOMAIN Spent(q) /\ Spent(q)[i] = Req("app", m)
  BY <1>1, <1>2 DEF Spent
<1>4. QED
  BY <1>3 DEF Range

(* What execute() does for the messages: none it was given before is          *)
(* forgotten, and each it is given now is sent or queued.                     *)
LEMMA ExecuteAllSends ==
  ASSUME TypeOK, NEW rs \in Seq(Request), NEW q \in Seq(Request), NEW p, ExecuteAll(rs, q, p)
  PROVE  /\ Range(q) \subseteq Range(queue')
         /\ \A m \in Msgs : sent'[m] = 0 => sent[m] = 0
         /\ \A m \in Msgs : Req("app", m) \in Range(rs) =>
              sent'[m] # 0 \/ Req("app", m) \in Range(queue')
         /\ ~idle /\ Connected =>
              /\ UNCHANGED <<sock, ws>>
              /\ \A m \in Msgs : Req("app", m) \in Range(rs) => sent'[m] # 0
         /\ ~idle /\ ~Connected => ~Connected'
<1>1. CASE /\ ~idle /\ Connected
           /\ queue' = q
           /\ sent' = [m \in Msgs |-> Transmissions(rs, m)]
           /\ UNCHANGED connVars
  <2>1. ASSUME NEW m \in Msgs PROVE Transmissions(rs, m) = 0 => sent[m] = 0
    BY DEF Transmissions
  <2>2. ASSUME NEW m \in Msgs, Req("app", m) \in Range(rs) PROVE Transmissions(rs, m) # 0
    <3>1. {i \in DOMAIN rs : rs[i] = Req("app", m)} # {}
      BY <2>2 DEF Range
    <3>2. QED
      BY <3>1 DEF Transmissions
  <2>3. QED
    BY <1>1, <2>1, <2>2
<1>2. CASE /\ idle \/ ~Connected
           /\ queue' = q \o rs
           /\ IF idle \/ rs = <<>> THEN UNCHANGED connVars ELSE Connect
           /\ UNCHANGED sent
  <2>1. Range(queue') = Range(q) \cup Range(rs)
    BY <1>2, RangeOfBoth
  <2>2. ~idle /\ ~Connected => ~Connected'
    <3>1. CASE UNCHANGED connVars
      BY <3>1 DEF Connected
    <3>2. CASE Connect /\ ~Connected
      BY <3>2, NoneAssumption DEF Connect, Connected, TypeOK
    <3>3. QED
      BY <1>2, <3>1, <3>2
  <2>3. QED
    BY <1>2, <2>1, <2>2
<1>3. QED
  BY <1>1, <1>2 DEF ExecuteAll, Push

(* connect() alone opens nothing.                                             *)
LEMMA ConnectOpensNothing ==
  ASSUME TypeOK, Connect
  PROVE  Connected' => Connected /\ UNCHANGED <<sock, ws>>
BY NoneAssumption DEF Connect, Connected, TypeOK, Alive, Live

(* A socket that never opened has no handshake.                               *)
NotOpened == {"free", "connecting"}
Fresh == \A s \in Sockets : sock[s] \in NotOpened => hs[s] = "none"

(* No step opens a socket backwards.                                          *)
LEMMA ConnectFresh ==
  ASSUME TypeOK, Connect, NEW s \in Sockets, sock'[s] \in NotOpened
  PROVE  sock[s] \in NotOpened
BY DEF Connect, TypeOK, NotOpened

LEMMA ExecuteAllFresh ==
  ASSUME TypeOK, NEW rs, NEW q, NEW p, ExecuteAll(rs, q, p),
         NEW s \in Sockets, sock'[s] \in NotOpened
  PROVE  sock[s] \in NotOpened
BY ConnectFresh DEF ExecuteAll

LEMMA CloseFresh ==
  ASSUME TypeOK, NEW L, CloseConnection(L), NEW s \in Sockets, sock'[s] \in NotOpened
  PROVE  sock[s] \in NotOpened
BY DEF CloseConnection, TypeOK, NotOpened

LEMMA StepKeepsFresh == TypeOK /\ Fresh /\ [Next]_vars => Fresh'
<1> SUFFICES ASSUME TypeOK, Fresh, [Next]_vars, NEW s \in Sockets, sock'[s] \in NotOpened
             PROVE  hs'[s] = "none"
  BY DEF Fresh
<1> USE DEF Fresh
<1>0. hs \in [Sockets -> {"none", "ready", "failed"} \cup HandshakeKinds]
  BY DEF TypeOK
<1>1. CASE UserConnect
  BY <1>1, ConnectFresh DEF UserConnect
<1>2. ASSUME NEW m \in Msgs, UserExecute(m) PROVE hs'[s] = "none"
  BY <1>2, ExecuteAllFresh DEF UserExecute, Execute
<1>3. CASE UserRefresh
  BY <1>3, ConnectFresh, ExecuteAllFresh DEF UserRefresh, Execute
<1>4. CASE Disconnect
  BY <1>4, CloseFresh DEF Disconnect
<1>5. CASE DisconnectDone
  BY <1>5 DEF DisconnectDone
<1>6. ASSUME NEW t \in Sockets, SocketOpen(t) PROVE hs'[s] = "none"
  BY <1>0, <1>6 DEF SocketOpen, NotOpened, TypeOK
<1>7. ASSUME NEW t \in Sockets, SocketError(t) \/ SocketClose(t) PROVE hs'[s] = "none"
  BY <1>7 DEF SocketError, SocketClose, NotOpened, TypeOK
<1>8. ASSUME NEW t \in Sockets, BladeDisconnect(t) PROVE hs'[s] = "none"
  BY <1>8 DEF BladeDisconnect
<1>9. ASSUME NEW u \in Sockets, NEW t \in Sockets, ConnectAnswered(u, t) PROVE hs'[s] = "none"
  BY <1>0, <1>9, ExecuteAllFresh DEF ConnectAnswered, Execute, Continues
<1>10. ASSUME NEW u \in Sockets, NEW t \in Sockets, SetupAnswered(u, t) PROVE hs'[s] = "none"
  BY <1>0, <1>10, ExecuteAllFresh DEF SetupAnswered, Execute, Continues
<1>11. ASSUME NEW u \in Sockets, NEW t \in Sockets, NEW k \in {"setup", "subscribe"},
              HandshakeDone(u, k, t)
       PROVE  hs'[s] = "none"
  BY <1>0, <1>11, ExecuteAllFresh DEF HandshakeDone, Continues
<1>12. ASSUME NEW rs \in pending, OtherAnswered(rs[1], rs[2]) PROVE hs'[s] = "none"
  BY <1>0, <1>12 DEF OtherAnswered, Continues, HandshakeKinds
<1>13. ASSUME NEW rs \in pending, TimedOut(rs[1]) PROVE hs'[s] = "none"
  BY <1>0, <1>13, CloseFresh DEF TimedOut, Continues, HandshakeKinds
<1>14. CASE ReconnectTimer
  BY <1>14, ConnectFresh DEF ReconnectTimer
<1>15. ASSUME NEW t \in Sockets, KeepAliveTick(t) PROVE hs'[s] = "none"
  BY <1>15, CloseFresh, ExecuteAllFresh DEF KeepAliveTick, Execute
<1>16. CASE TokenExpires
  BY <1>16 DEF TokenExpires
<1>17. CASE UNCHANGED vars
  BY <1>17 DEF vars
<1>18. QED
  BY <1>1, <1>2, <1>3, <1>4, <1>5, <1>6, <1>7, <1>8, <1>9, <1>10, <1>11, <1>12,
     <1>13, <1>14, <1>15, <1>16, <1>17
     DEF Next, User, Answer, Event, Timer

Flushed == NothingLost /\ ReadyMeansFlushed

(* A step that loses no message, and after which a session that is ready was  *)
(* ready before.                                                              *)
LEMMA QuietKeepsFlushed ==
  ASSUME TypeOK, TypeOK', Flushed, fate' = fate,
         \A m \in Msgs : sent'[m] = 0 => sent[m] = 0,
         \A m \in Msgs : Req("app", m) \in Range(queue) => Req("app", m) \in Range(queue'),
         ~idle' /\ Connected' /\ hs'[ws'] = "ready" => ~idle /\ Connected /\ hs[ws] = "ready"
  PROVE  Flushed'
<1>1. \A m \in Msgs : sent[m] \in 0 .. 2 /\ sent'[m] \in 0 .. 2
  BY DEF TypeOK
<1>2. \A m \in Msgs : sent[m] > 0 => sent'[m] > 0
  BY <1>1
<1>3. NothingLost'
  BY DEF Flushed, NothingLost
<1>4. ReadyMeansFlushed'
  BY <1>2 DEF Flushed, ReadyMeansFlushed
<1>5. QED
  BY <1>3, <1>4 DEF Flushed

(* The same for a step that executes requests.                                *)
LEMMA ExecuteKeepsFlushed ==
  ASSUME TypeOK, TypeOK', Flushed, fate' = fate, idle' = idle,
         NEW rs \in Seq(Request), NEW p, ExecuteAll(rs, queue, p),
         \A s \in Sockets : hs'[s] = "ready" => hs[s] = "ready"
  PROVE  Flushed'
<1>1. queue \in Seq(Request)
  BY DEF TypeOK
<1>2. /\ Range(queue) \subseteq Range(queue')
      /\ \A m \in Msgs : sent'[m] = 0 => sent[m] = 0
      /\ ~idle /\ Connected => UNCHANGED <<sock, ws>>
      /\ ~idle /\ ~Connected => ~Connected'
  BY <1>1, ExecuteAllSends
<1>3. ~idle' /\ Connected' /\ hs'[ws'] = "ready" => ~idle /\ Connected /\ hs[ws] = "ready"
  BY <1>2 DEF Connected, TypeOK
<1>4. QED
  BY <1>2, <1>3, QuietKeepsFlushed

LEMMA UserExecuteKeepsFlushed ==
  ASSUME TypeOK, TypeOK', Flushed, NEW m \in Msgs, UserExecute(m)
  PROVE  Flushed'
<1> DEFINE rs == <<Req("app", m)>>
<1>1. /\ rs \in Seq(Request) /\ Req("app", m) \in Range(rs)
      /\ queue \in Seq(Request) /\ ExecuteAll(rs, queue, pending)
  <2>1. Req("app", m) \in Request
    BY RequestType
  <2>2. 1 \in DOMAIN rs /\ rs[1] = Req("app", m)
    OBVIOUS
  <2>3. Req("app", m) \in Range(rs)
    BY <2>2 DEF Range
  <2>4. ExecuteAll(rs, queue, pending)
    BY DEF UserExecute, Execute
  <2>5. QED
    BY <2>1, <2>3, <2>4 DEF TypeOK
<1> HIDE DEF rs
<1>2. /\ Range(queue) \subseteq Range(queue')
      /\ \A n \in Msgs : sent'[n] = 0 => sent[n] = 0
      /\ sent'[m] # 0 \/ Req("app", m) \in Range(queue')
      /\ ~idle /\ Connected => UNCHANGED <<sock, ws>> /\ sent'[m] # 0
      /\ ~idle /\ ~Connected => ~Connected'
  BY <1>1, ExecuteAllSends
<1>3. UNCHANGED <<idle, hs>> /\ \A n \in Msgs : n # m => fate'[n] = fate[n]
  BY DEF UserExecute, TypeOK
<1>4. \A n \in Msgs : sent[n] \in 0 .. 2 /\ sent'[n] \in 0 .. 2
  BY DEF TypeOK
<1>5. NothingLost'
  BY <1>2, <1>3 DEF Flushed, NothingLost
<1>6. ReadyMeansFlushed'
  <2> SUFFICES ASSUME ~idle', Connected', hs'[ws'] = "ready", NEW n \in Msgs, fate'[n] = "accepted"
               PROVE  sent'[n] > 0
    BY DEF ReadyMeansFlushed
  <2>1. ~idle /\ Connected /\ hs[ws] = "ready" /\ sent'[m] # 0
    BY <1>2, <1>3
  <2>2. n # m => sent[n] > 0
    BY <1>3, <2>1 DEF Flushed, ReadyMeansFlushed
  <2>3. sent'[n] # 0
    BY <1>2, <1>4, <2>1, <2>2
  <2>4. QED
    BY <1>4, <2>3
<1>7. QED
  BY <1>5, <1>6 DEF Flushed

(* The flush at the end of a handshake, for a session that meanwhile went     *)
(* idle or lost the socket too.                                               *)
LEMMA HandshakeKeepsFlushed ==
  ASSUME TypeOK, TypeOK', Flushed, NEW s \in Sockets, NEW t \in Sockets,
         NEW k \in {"setup", "subscribe"}, HandshakeDone(s, k, t)
  PROVE  Flushed'
<1> DEFINE pings == IF KeepAlive THEN <<Req("ping", s)>> ELSE <<>>
           rs    == queue \o pings
<1>1. pings \in Seq(Request) /\ queue \in Seq(Request) /\ Spent(queue) \in Seq(Request)
  <2>1. pings \in Seq(Request)
    BY RequestType
  <2>2. queue \in Seq(Request)
    BY DEF TypeOK
  <2>3. QED
    BY <2>1, <2>2, SpentType
<1>2. ExecuteAll(rs, Spent(queue), Settle(Req(k, s))) /\ UNCHANGED <<idle, fate>>
  BY DEF HandshakeDone, Flush
<1> HIDE DEF pings
<1>3. rs \in Seq(Request) /\ Range(queue) \subseteq Range(rs)
  BY <1>1, RangeOfBoth
<1> HIDE DEF rs
<1>4. /\ Range(Spent(queue)) \subseteq Range(queue')
      /\ \A m \in Msgs : sent'[m] = 0 => sent[m] = 0
      /\ ~idle /\ Connected => \A m \in Msgs : Req("app", m) \in Range(rs) => sent'[m] # 0
      /\ ~idle /\ ~Connected => ~Connected'
  BY <1>1, <1>2, <1>3, ExecuteAllSends
<1>5. \A m \in Msgs : sent[m] \in 0 .. 2 /\ sent'[m] \in 0 .. 2
  BY DEF TypeOK
<1>6. NothingLost'
  <2> SUFFICES ASSUME NEW m \in Msgs, fate'[m] = "accepted", sent'[m] = 0
               PROVE  Req("app", m) \in Range(queue')
    BY DEF NothingLost
  <2>1. Req("app", m) \in Range(queue)
    BY <1>2, <1>4 DEF Flushed, NothingLost
  <2>2. QED
    BY <1>1, <1>4, <2>1, SpentKeepsMessages
<1>7. ReadyMeansFlushed'
  <2> SUFFICES ASSUME ~idle', Connected', NEW m \in Msgs, fate'[m] = "accepted"
               PROVE  sent'[m] > 0
    BY DEF ReadyMeansFlushed
  <2>1. \A n \in Msgs : Req("app", n) \in Range(rs) => sent'[n] # 0
    BY <1>2, <1>4
  <2>2. CASE sent[m] = 0
    BY <1>2, <1>3, <1>5, <2>1, <2>2 DEF Flushed, NothingLost
  <2>3. CASE sent[m] # 0
    BY <1>4, <1>5, <2>3
  <2>4. QED
    BY <2>2, <2>3
<1>8. QED
  BY <1>6, <1>7 DEF Flushed

(* A socket that opens has its handshake before it.                           *)
LEMMA OpenKeepsFlushed ==
  ASSUME TypeOK, TypeOK', LiveIsCurrent, Fresh, Flushed, NEW s \in Sockets, SocketOpen(s)
  PROVE  Flushed'
<1>1. ws = s /\ hs[s] = "none"
  BY DEF SocketOpen, LiveIsCurrent, Live, Fresh, NotOpened
<1>2. hs'[ws'] # "ready"
  BY <1>1 DEF SocketOpen, TypeOK
<1>3. UNCHANGED <<fate, sent, queue>>
  BY DEF SocketOpen
<1>4. QED
  BY <1>2, <1>3, QuietKeepsFlushed

LEMMA StepKeepsFlushed ==
  TypeOK /\ TypeOK' /\ LiveIsCurrent /\ Fresh /\ Flushed /\ [Next]_vars => Flushed'
<1> SUFFICES ASSUME TypeOK, TypeOK', LiveIsCurrent, Fresh, Flushed, [Next]_vars PROVE Flushed'
  OBVIOUS
<1>0. /\ hs \in [Sockets -> {"none", "ready", "failed"} \cup HandshakeKinds]
      /\ None \notin Sockets
  BY NoneAssumption DEF TypeOK
<1>1. CASE UserConnect
  <2>1. Connected' => Connected /\ UNCHANGED <<sock, ws>>
    BY <1>1, ConnectOpensNothing DEF UserConnect
  <2>2. QED
    BY <1>1, <2>1, QuietKeepsFlushed DEF UserConnect
<1>2. ASSUME NEW m \in Msgs, UserExecute(m) PROVE Flushed'
  BY <1>2, UserExecuteKeepsFlushed
<1>3. CASE UserRefresh
  <2>1. CASE Connect /\ UNCHANGED <<queue, pending, sent>>
    <3>1. Connected' => Connected /\ UNCHANGED <<sock, ws>>
      BY <2>1, ConnectOpensNothing
    <3>2. QED
      BY <1>3, <2>1, <3>1, QuietKeepsFlushed DEF UserRefresh
  <2>2. CASE ExecuteAll(<<Reauth>>, queue, pending)
    <3>1. <<Reauth>> \in Seq(Request)
      BY RequestType
    <3>2. QED
      BY <1>3, <2>2, <3>1, ExecuteKeepsFlushed DEF UserRefresh
  <2>3. QED
    BY <1>3, <2>1, <2>2 DEF UserRefresh, Execute
<1>4. CASE Disconnect
  <2>1. ~Connected'
    BY <1>4, CloseEffect DEF Disconnect, Connected
  <2>2. QED
    BY <1>4, <2>1, QuietKeepsFlushed DEF Disconnect
<1>5. CASE DisconnectDone
  <2>1. \A m \in Msgs : fate'[m] = "accepted" =>
          fate[m] = "accepted" /\ Req("app", m) \notin Range(queue)
    BY <1>5 DEF DisconnectDone
  <2>2. NothingLost'
    BY <1>5, <2>1 DEF DisconnectDone, Flushed, NothingLost
  <2>3. ReadyMeansFlushed'
    BY <1>5, <2>1 DEF DisconnectDone, Flushed, ReadyMeansFlushed, Connected
  <2>4. QED
    BY <2>2, <2>3 DEF Flushed
<1>6. ASSUME NEW s \in Sockets, SocketOpen(s) PROVE Flushed'
  BY <1>6, OpenKeepsFlushed
<1>7. ASSUME NEW s \in Sockets, SocketError(s) \/ SocketClose(s) PROVE Flushed'
  <2>1. Connected' => Connected
    BY <1>7 DEF SocketError, SocketClose, Connected, TypeOK
  <2>2. UNCHANGED <<ws, hs, queue, fate, sent>>
    BY <1>7 DEF SocketError, SocketClose
  <2>3. ~idle' => ~idle
    <3>1. OnCloseOrError
      BY <1>7 DEF SocketError, SocketClose
    <3>2. QED
      BY <3>1 DEF OnCloseOrError
  <2>4. QED
    BY <2>1, <2>2, <2>3, QuietKeepsFlushed
<1>8. ASSUME NEW s \in Sockets, BladeDisconnect(s) PROVE Flushed'
  BY <1>8, QuietKeepsFlushed DEF BladeDisconnect
<1>9. ASSUME NEW s \in Sockets, NEW t \in Sockets, ConnectAnswered(s, t) PROVE Flushed'
  <2>1. <<Req("setup", s)>> \in Seq(Request)
    BY RequestType DEF HandshakeKinds
  <2>2. \A u \in Sockets : hs'[u] = "ready" => hs[u] = "ready"
    BY <1>0, <1>9 DEF ConnectAnswered
  <2>3. QED
    BY <1>9, <2>1, <2>2, ExecuteKeepsFlushed DEF ConnectAnswered, Execute
<1>10. ASSUME NEW s \in Sockets, NEW t \in Sockets, SetupAnswered(s, t) PROVE Flushed'
  <2>1. <<Req("subscribe", s)>> \in Seq(Request)
    BY RequestType DEF HandshakeKinds
  <2>2. \A u \in Sockets : hs'[u] = "ready" => hs[u] = "ready"
    BY <1>0, <1>10 DEF SetupAnswered
  <2>3. QED
    BY <1>10, <2>1, <2>2, ExecuteKeepsFlushed DEF SetupAnswered, Execute
<1>11. ASSUME NEW s \in Sockets, NEW t \in Sockets, NEW k \in {"setup", "subscribe"},
              HandshakeDone(s, k, t)
       PROVE  Flushed'
  BY <1>11, HandshakeKeepsFlushed
<1>12. ASSUME NEW rs \in pending, OtherAnswered(rs[1], rs[2]) PROVE Flushed'
  <2>1. \A u \in Sockets : hs'[u] = "ready" => hs[u] = "ready"
    BY <1>0, <1>12 DEF OtherAnswered
  <2>2. UNCHANGED <<sock, ws, idle, queue, fate, sent>>
    BY <1>12 DEF OtherAnswered
  <2>3. Connected' <=> Connected
    BY <2>2 DEF Connected
  <2>4. ~idle' /\ Connected' /\ hs'[ws'] = "ready" => ~idle /\ Connected /\ hs[ws] = "ready"
    BY <2>1, <2>2, <2>3 DEF Connected, TypeOK
  <2>5. QED
    BY <2>2, <2>4, QuietKeepsFlushed
<1>13. ASSUME NEW rs \in pending, TimedOut(rs[1]) PROVE Flushed'
  <2>1. ~Connected'
    BY <1>13, CloseEffect DEF TimedOut, Connected
  <2>2. QED
    BY <1>13, <2>1, QuietKeepsFlushed DEF TimedOut
<1>14. CASE ReconnectTimer
  <2>1. Connected' => Connected /\ UNCHANGED <<sock, ws>>
    BY <1>14, ConnectOpensNothing DEF ReconnectTimer
  <2>2. QED
    BY <1>14, <2>1, QuietKeepsFlushed DEF ReconnectTimer
<1>15. ASSUME NEW s \in Sockets, KeepAliveTick(s) PROVE Flushed'
  <2>1. CASE CloseConnection({s}) /\ UNCHANGED <<queue, sent>>
    <3>1. ~Connected'
      BY <2>1, CloseEffect DEF Connected
    <3>2. QED
      BY <1>15, <2>1, <3>1, QuietKeepsFlushed DEF KeepAliveTick
  <2>2. CASE ExecuteAll(<<Req("ping", s)>>, queue, pending) /\ UNCHANGED idle
    <3>1. <<Req("ping", s)>> \in Seq(Request)
      <4>1. Req("ping", s) \in Request
        BY RequestType
      <4>2. QED
        BY <4>1
    <3>2. QED
      BY <1>15, <2>2, <3>1, ExecuteKeepsFlushed DEF KeepAliveTick
  <2>3. QED
    BY <1>15, <2>1, <2>2 DEF KeepAliveTick, Execute
<1>16. CASE TokenExpires
  BY <1>16, QuietKeepsFlushed DEF TokenExpires, Connected
<1>17. CASE UNCHANGED vars
  BY <1>17, QuietKeepsFlushed DEF vars, Connected
<1>18. QED
  BY <1>1, <1>2, <1>3, <1>4, <1>5, <1>6, <1>7, <1>8, <1>9, <1>10, <1>11, <1>12,
     <1>13, <1>14, <1>15, <1>16, <1>17
     DEF Next, User, Answer, Event, Timer

(* The three invariants of the queue hold together.                           *)
LEMMA QueueInvariant == Spec => [](Fresh /\ Flushed)
<1>1. Init => Fresh /\ Flushed
  BY DEF Init, Fresh, Flushed, NothingLost, ReadyMeansFlushed
<1>2. TypeOK /\ Fresh /\ [Next]_vars => Fresh'
  BY StepKeepsFresh
<1>3. TypeOK /\ TypeOK' /\ LiveIsCurrent /\ Fresh /\ Flushed /\ [Next]_vars => Flushed'
  BY StepKeepsFlushed
<1>4. QED
  BY <1>1, <1>2, <1>3, TypeCorrect, LiveSocketIsCurrent, PTL DEF Spec

(* A message that execute() accepted and nobody sent is in _executeQueue,     *)
(* however flushes, idle periods and reconnections meet (BaseSession.ts:377). *)
THEOREM NoMessageIsLost == Spec => []NothingLost
<1>1. Flushed => NothingLost
  BY DEF Flushed
<1>2. QED
  BY <1>1, QueueInvariant, PTL

(* A session that is ready on its socket has sent all it was given: the flush *)
(* of the handshake and execute() between them leave nothing behind           *)
(* (BaseSession.ts:244-256, 82-106).                                          *)
THEOREM ReadyIsFlushed == Spec => []ReadyMeansFlushed
<1>1. Flushed => ReadyMeansFlushed
  BY DEF Flushed
<1>2. QED
  BY <1>1, QueueInvariant, PTL
------------------------------------------------------------------------------
(* The keepalive.                                                            *)

(* A step that opens no socket, completes no handshake and keeps the loops.   *)
LEMMA QuietIsWatched ==
  ASSUME DeadPeerWatched, loops \subseteq loops',
         \A s \in Sockets : sock'[s] = "open" => sock[s] = "open",
         \A s \in Sockets : sock'[s] = "open" /\ hs'[s] = "ready" => hs[s] = "ready"
  PROVE  DeadPeerWatched'
BY DEF DeadPeerWatched

LEMMA ConnectWatched ==
  ASSUME TypeOK, Connect
  PROVE  \A s \in Sockets : sock'[s] = "open" => sock[s] = "open"
BY DEF Connect, TypeOK

LEMMA ExecuteAllWatched ==
  ASSUME TypeOK, NEW rs, NEW q, NEW p, ExecuteAll(rs, q, p)
  PROVE  \A s \in Sockets : sock'[s] = "open" => sock[s] = "open"
BY ConnectWatched DEF ExecuteAll

(* _closeConnection() may end any loop, for it leaves no socket open.         *)
LEMMA CloseWatched ==
  ASSUME TypeOK, LiveIsCurrent, NEW L, CloseConnection(L)
  PROVE  DeadPeerWatched'
BY CloseEffect DEF DeadPeerWatched, LiveIsCurrent, Live, TypeOK

LEMMA StepKeepsWatched ==
  TypeOK /\ LiveIsCurrent /\ Fresh /\ DeadPeerWatched /\ [Next]_vars => DeadPeerWatched'
<1> SUFFICES ASSUME TypeOK, LiveIsCurrent, Fresh, DeadPeerWatched, [Next]_vars
             PROVE  DeadPeerWatched'
  OBVIOUS
<1>0. hs \in [Sockets -> {"none", "ready", "failed"} \cup HandshakeKinds]
  BY DEF TypeOK
<1>1. CASE UserConnect
  BY <1>1, ConnectWatched, QuietIsWatched DEF UserConnect
<1>2. ASSUME NEW m \in Msgs, UserExecute(m) PROVE DeadPeerWatched'
  BY <1>2, ExecuteAllWatched, QuietIsWatched DEF UserExecute, Execute
<1>3. CASE UserRefresh
  BY <1>3, ConnectWatched, ExecuteAllWatched, QuietIsWatched DEF UserRefresh, Execute
<1>4. CASE Disconnect
  BY <1>4, CloseWatched DEF Disconnect
<1>5. CASE DisconnectDone
  BY <1>5, QuietIsWatched DEF DisconnectDone
<1>6. ASSUME NEW s \in Sockets, SocketOpen(s) PROVE DeadPeerWatched'
  <2>1. hs'[s] # "ready" /\ \A t \in Sockets : t # s => hs'[t] = hs[t] /\ sock'[t] = sock[t]
    BY <1>0, <1>6 DEF SocketOpen, Fresh, NotOpened, TypeOK
  <2>2. QED
    BY <1>6, <2>1 DEF SocketOpen, DeadPeerWatched
<1>7. ASSUME NEW s \in Sockets, SocketError(s) \/ SocketClose(s) PROVE DeadPeerWatched'
  <2>1. \A t \in Sockets : sock'[t] = "open" => sock[t] = "open"
    BY <1>7 DEF SocketError, SocketClose, TypeOK
  <2>2. QED
    BY <1>7, <2>1, QuietIsWatched DEF SocketError, SocketClose
<1>8. ASSUME NEW s \in Sockets, BladeDisconnect(s) PROVE DeadPeerWatched'
  BY <1>8, QuietIsWatched DEF BladeDisconnect
<1>9. ASSUME NEW s \in Sockets, NEW t \in Sockets,
             ConnectAnswered(s, t) \/ SetupAnswered(s, t)
      PROVE  DeadPeerWatched'
  <2>1. \A u \in Sockets : hs'[u] = "ready" => hs[u] = "ready"
    BY <1>0, <1>9 DEF ConnectAnswered, SetupAnswered
  <2>2. \A u \in Sockets : sock'[u] = "open" => sock[u] = "open"
    BY <1>9, ExecuteAllWatched DEF ConnectAnswered, SetupAnswered, Execute
  <2>3. QED
    BY <1>9, <2>1, <2>2, QuietIsWatched DEF ConnectAnswered, SetupAnswered
<1>10. ASSUME NEW s \in Sockets, NEW t \in Sockets, NEW k, HandshakeDone(s, k, t)
       PROVE  DeadPeerWatched'
  <2>1. \A u \in Sockets : sock'[u] = "open" => sock[u] = "open"
    BY <1>10, ExecuteAllWatched DEF HandshakeDone
  <2>2. \A u \in Sockets : u # s => hs'[u] = hs[u]
    BY <1>0, <1>10 DEF HandshakeDone
  <2>3. KeepAlive => loops' = loops \cup {s}
    BY <1>10 DEF HandshakeDone
  <2>4. QED
    BY <2>1, <2>2, <2>3 DEF DeadPeerWatched
<1>11. ASSUME NEW rs \in pending, OtherAnswered(rs[1], rs[2]) PROVE DeadPeerWatched'
  <2>1. \A u \in Sockets : hs'[u] = "ready" => hs[u] = "ready"
    BY <1>0, <1>11 DEF OtherAnswered
  <2>2. QED
    BY <1>11, <2>1, QuietIsWatched DEF OtherAnswered
<1>12. ASSUME NEW r, TimedOut(r) PROVE DeadPeerWatched'
  BY <1>12, CloseWatched DEF TimedOut
<1>13. CASE ReconnectTimer
  BY <1>13, ConnectWatched, QuietIsWatched DEF ReconnectTimer
<1>14. ASSUME NEW s \in Sockets, KeepAliveTick(s) PROVE DeadPeerWatched'
  <2>1. CASE CloseConnection({s})
    BY <2>1, CloseWatched
  <2>2. CASE loops' = loops /\ hs' = hs /\ ExecuteAll(<<Req("ping", s)>>, queue, pending)
    BY <2>2, ExecuteAllWatched, QuietIsWatched
  <2>3. QED
    BY <1>14, <2>1, <2>2 DEF KeepAliveTick, Execute, Rearm
<1>15. CASE TokenExpires
  BY <1>15, QuietIsWatched DEF TokenExpires
<1>16. CASE UNCHANGED vars
  BY <1>16, QuietIsWatched DEF vars
<1>17. QED
  BY <1>1, <1>2, <1>3, <1>4, <1>5, <1>6, <1>7, <1>8, <1>9, <1>10, <1>11, <1>12,
     <1>13, <1>14, <1>15, <1>16
     DEF Next, User, Answer, Event, Timer

(* An open socket that went through its handshake has the timer of its own    *)
(* keepalive loop armed, whichever loops cleared or overwrote the one handle  *)
(* in between: the last of them may end only with the connection.             *)
THEOREM DeadPeerIsWatched == Spec => []DeadPeerWatched
<1>1. Init => DeadPeerWatched
  BY DEF Init, DeadPeerWatched
<1>2. QED
  BY <1>1, StepKeepsWatched, QueueInvariant, TypeCorrect, LiveSocketIsCurrent, PTL DEF Spec

------------------------------------------------------------------------------
(* The session implements module Outbox.                                      *)

InQueue(m) == Req("app", m) \in Range(queue)

(* The queue holds messages that are still accepted, and only those the       *)
(* application handed over are sent.                                          *)
Accepted ==
  \A m \in Msgs : /\ InQueue(m) => fate[m] = "accepted"
                  /\ sent[m] # 0 => fate[m] # "new"

(* What every step keeps and makes of the messages.                           *)
OutboxStep == Accepted' /\ [Box!OutboxNext]_[m \in Msgs |-> Standing(m)]

LEMMA DifferentMessages ==
  /\ \A m, n : Req("app", m) = Req("app", n) => m = n
  /\ \A m, s, k : k # "app" => Req(k, s) # Req("app", m)
BY DEF Req

LEMMA SpentAddsNoMessage ==
  ASSUME NEW q \in Seq(Request), NEW m \in Msgs, Req("app", m) \in Range(Spent(q))
  PROVE  Req("app", m) \in Range(q)
<1>1. PICK i \in DOMAIN q : Spent(q)[i] = Req("app", m)
  BY DEF Range, Spent
<1>2. q[i].kind # "ping"
  BY <1>1, DifferentMessages DEF Spent
<1>3. q[i] = Req("app", m)
  BY <1>1, <1>2 DEF Spent
<1>4. QED
  BY <1>3 DEF Range

(* What execute() does to the messages, said of each: those it is given are   *)
(* all sent or all queued, and the others are left where they are.            *)
LEMMA ExecuteAllMoves ==
  ASSUME TypeOK, NEW rs \in Seq(Request), NEW q \in Seq(Request), NEW p, ExecuteAll(rs, q, p)
  PROVE  /\ Range(queue') \subseteq Range(q) \cup Range(rs)
         /\ \A m \in Msgs : Req("app", m) \notin Range(rs) => sent'[m] = sent[m]
         /\ \/ \A m \in Msgs : Req("app", m) \in Range(rs) => sent'[m] # 0
            \/ sent' = sent
<1>1. CASE queue' = q /\ sent' = [m \in Msgs |-> Transmissions(rs, m)]
  <2>1. ASSUME NEW m \in Msgs, Req("app", m) \notin Range(rs)
        PROVE  Transmissions(rs, m) = sent[m]
    <3>1. {i \in DOMAIN rs : rs[i] = Req("app", m)} = {}
      BY <2>1 DEF Range
    <3>2. QED
      BY <3>1 DEF Transmissions
  <2>2. ASSUME NEW m \in Msgs, Req("app", m) \in Range(rs)
        PROVE  Transmissions(rs, m) # 0
    <3>1. {i \in DOMAIN rs : rs[i] = Req("app", m)} # {}
      BY <2>2 DEF Range
    <3>2. QED
      BY <3>1 DEF Transmissions
  <2>3. QED
    BY <1>1, <2>1, <2>2
<1>2. CASE queue' = q \o rs /\ UNCHANGED sent
  BY <1>2, RangeOfBoth
<1>3. QED
  BY <1>1, <1>2 DEF ExecuteAll, Push

(* A step after which every message stands where it stood.                    *)
LEMMA QuietStands ==
  ASSUME TypeOK, TypeOK', Accepted, fate' = fate,
         \A m \in Msgs : sent'[m] = sent[m],
         \A m \in Msgs : InQueue(m)' => InQueue(m)
  PROVE  OutboxStep
<1>1. Accepted'
  BY DEF Accepted
<1>2. \A m \in Msgs : Standing(m)' = Standing(m)
  BY DEF Standing
<1>3. [m \in Msgs |-> Standing(m)]' = [m \in Msgs |-> Standing(m)]
  BY <1>2
<1>4. QED
  BY <1>1, <1>3 DEF OutboxStep

(* One that executes a request of the session's own.                          *)
LEMMA ExecuteStands ==
  ASSUME TypeOK, TypeOK', Accepted, fate' = fate, NEW r \in Request, r.kind # "app",
         NEW p, ExecuteAll(<<r>>, queue, p)
  PROVE  OutboxStep
<1>1. /\ <<r>> \in Seq(Request) /\ queue \in Seq(Request)
      /\ Range(<<r>>) = {r}
  BY DEF TypeOK, Range
<1>2. \A m \in Msgs : Req("app", m) \notin Range(<<r>>)
  BY <1>1 DEF Req
<1>3. /\ Range(queue') \subseteq Range(queue) \cup Range(<<r>>)
      /\ \A m \in Msgs : sent'[m] = sent[m]
  BY <1>1, <1>2, ExecuteAllMoves
<1>4. \A m \in Msgs : InQueue(m)' => InQueue(m)
  BY <1>2, <1>3 DEF InQueue
<1>5. QED
  BY <1>3, <1>4, QuietStands

(* execute() called by the application: the message goes out or waits.        *)
LEMMA UserExecuteAccepts ==
  ASSUME TypeOK, TypeOK', Accepted, NEW m \in Msgs, UserExecute(m)
  PROVE  OutboxStep
<1> DEFINE rs == <<Req("app", m)>>
<1>1. rs \in Seq(Request) /\ Range(rs) = {Req("app", m)} /\ queue \in Seq(Request)
  <2>1. Req("app", m) \in Request
    BY RequestType
  <2>2. QED
    BY <2>1 DEF TypeOK, Range
<1>2. ExecuteAll(rs, queue, pending)
  BY DEF UserExecute, Execute
<1> HIDE DEF rs
<1>3. /\ Range(queue') \subseteq Range(queue) \cup Range(rs)
      /\ \A n \in Msgs : Req("app", n) \notin Range(rs) => sent'[n] = sent[n]
      /\ (\A n \in Msgs : Req("app", n) \in Range(rs) => sent'[n] # 0) \/ sent' = sent
  BY <1>1, <1>2, ExecuteAllMoves
<1>4. \A n \in Msgs : Req("app", n) \in Range(rs) <=> n = m
  BY <1>1, DifferentMessages
<1>5. /\ fate[m] = "new" /\ fate'[m] = "accepted"
      /\ \A n \in Msgs : n # m => fate'[n] = fate[n] /\ sent'[n] = sent[n]
  BY <1>3, <1>4 DEF UserExecute, TypeOK
<1>6. sent[m] = 0
  BY <1>5 DEF Accepted
<1>7. Accepted'
  <2>1. \A n \in Msgs : InQueue(n)' => InQueue(n) \/ n = m
    BY <1>3, <1>4 DEF InQueue
  <2>2. QED
    BY <1>5, <2>1 DEF Accepted
<1>8. Standing(m) = "new" /\ \A n \in Msgs : n # m => Standing(n)' = Standing(n)
  <2>1. Standing(m) = "new"
    BY <1>5, <1>6 DEF Standing
  <2>2. ASSUME NEW n \in Msgs, n # m PROVE Standing(n)' = Standing(n)
    BY <1>5, <2>2 DEF Standing
  <2>3. QED
    BY <2>1, <2>2
<1>9. Standing(m)' \in {"waiting", "sent"}
  BY <1>5 DEF Standing, TypeOK
<1>10. [n \in Msgs |-> Standing(n)]'
         = [[n \in Msgs |-> Standing(n)] EXCEPT ![m] = Standing(m)']
  BY <1>8
<1>11. Box!Accept(m)
  BY <1>8, <1>9, <1>10 DEF Box!Accept
<1>12. QED
  BY <1>7, <1>11 DEF Box!OutboxNext, OutboxStep

(* The flush of a handshake sends all that waits, or leaves it all.           *)
LEMMA HandshakeResolves ==
  ASSUME TypeOK, TypeOK', Accepted, NothingLost, NEW s \in Sockets, NEW t \in Sockets,
         NEW k \in {"setup", "subscribe"}, HandshakeDone(s, k, t)
  PROVE  OutboxStep
<1> DEFINE pings == IF KeepAlive THEN <<Req("ping", s)>> ELSE <<>>
           rs    == queue \o pings
<1>1. /\ pings \in Seq(Request) /\ queue \in Seq(Request) /\ Spent(queue) \in Seq(Request)
      /\ \A m \in Msgs : Req("app", m) \notin Range(pings)
  <2>1. pings \in Seq(Request)
    BY RequestType
  <2>2. queue \in Seq(Request)
    BY DEF TypeOK
  <2>3. \A m \in Msgs : Req("app", m) \notin Range(pings)
    BY DEF Req, Range
  <2>4. QED
    BY <2>1, <2>2, <2>3, SpentType
<1>2. ExecuteAll(rs, Spent(queue), Settle(Req(k, s))) /\ fate' = fate
  BY DEF HandshakeDone, Flush
<1> HIDE DEF pings
<1>3. rs \in Seq(Request) /\ \A m \in Msgs : Req("app", m) \in Range(rs) <=> InQueue(m)
  BY <1>1, RangeOfBoth DEF InQueue
<1> HIDE DEF rs
<1>4. /\ Range(queue') \subseteq Range(Spent(queue)) \cup Range(rs)
      /\ \A m \in Msgs : Req("app", m) \notin Range(rs) => sent'[m] = sent[m]
      /\ (\A m \in Msgs : Req("app", m) \in Range(rs) => sent'[m] # 0) \/ sent' = sent
  BY <1>1, <1>2, <1>3, ExecuteAllMoves
<1>5. \A m \in Msgs : InQueue(m)' => InQueue(m)
  BY <1>1, <1>3, <1>4, SpentAddsNoMessage DEF InQueue
<1>6. CASE sent' = sent
  BY <1>2, <1>5, <1>6, QuietStands
<1>7. CASE \A m \in Msgs : InQueue(m) => sent'[m] # 0
  <2>1. \A m \in Msgs : sent[m] \in 0 .. 2 /\ sent'[m] \in 0 .. 2
    BY DEF TypeOK
  <2>2. ASSUME NEW m \in Msgs
        PROVE  Standing(m)' = IF Standing(m) = "waiting" THEN "sent" ELSE Standing(m)
    <3>1. CASE InQueue(m)
      BY <1>2, <1>7, <2>1, <3>1 DEF Accepted, Standing
    <3>2. CASE ~InQueue(m)
      <4>1. sent'[m] = sent[m] /\ fate'[m] = fate[m]
        BY <1>2, <1>3, <1>4, <3>2
      <4>2. ~(fate[m] = "accepted" /\ sent[m] = 0)
        BY <3>2 DEF NothingLost, InQueue
      <4>3. fate[m] \in {"new", "accepted", "dropped"}
        BY DEF TypeOK
      <4>4. QED
        BY <2>1, <4>1, <4>2, <4>3 DEF Standing
    <3>3. QED
      BY <3>1, <3>2
  <2>3. Box!Resolve("sent")
    BY <2>2 DEF Box!Resolve
  <2>4. Accepted'
    <3>1. \A m \in Msgs : sent'[m] # 0 => sent[m] # 0 \/ InQueue(m)
      BY <1>3, <1>4
    <3>2. QED
      BY <1>2, <1>5, <3>1 DEF Accepted
  <2>5. QED
    BY <2>3, <2>4 DEF Box!OutboxNext, OutboxStep
<1>8. QED
  BY <1>3, <1>4, <1>6, <1>7

(* disconnect() drops all that waits.                                         *)
LEMMA DisconnectResolves ==
  ASSUME TypeOK, TypeOK', Accepted, NothingLost, DisconnectDone
  PROVE  OutboxStep
<1>1. \A m \in Msgs : sent[m] \in 0 .. 2 /\ sent'[m] = sent[m]
  BY DEF TypeOK, DisconnectDone
<1>2. \A m \in Msgs : fate'[m] = IF InQueue(m) THEN "dropped" ELSE fate[m]
  BY DEF DisconnectDone, InQueue
<1>3. \A m \in Msgs : ~InQueue(m)'
  BY DEF DisconnectDone, InQueue, Range
<1>4. Accepted'
  BY <1>1, <1>2, <1>3 DEF Accepted
<1>5. ASSUME NEW m \in Msgs
      PROVE  Standing(m)' = IF Standing(m) = "waiting" THEN "dropped" ELSE Standing(m)
  <2>1. CASE InQueue(m)
    BY <1>1, <1>2, <2>1 DEF Accepted, Standing
  <2>2. CASE ~InQueue(m)
    <3>1. ~(fate[m] = "accepted" /\ sent[m] = 0)
      BY <2>2 DEF NothingLost, InQueue
    <3>2. fate[m] \in {"new", "accepted", "dropped"}
      BY DEF TypeOK
    <3>3. QED
      BY <1>1, <1>2, <2>2, <3>1, <3>2 DEF Standing
  <2>3. QED
    BY <2>1, <2>2
<1>6. Box!Resolve("dropped")
  BY <1>5 DEF Box!Resolve
<1>7. QED
  BY <1>4, <1>6 DEF Box!OutboxNext, OutboxStep

LEMMA StepIsOutbox ==
  ASSUME TypeOK, TypeOK', Accepted, NothingLost, [Next]_vars
  PROVE  OutboxStep
<1>0. ASSUME UNCHANGED <<queue, fate, sent>> PROVE OutboxStep
  BY <1>0, QuietStands DEF InQueue
<1>1. ASSUME fate' = fate, NEW r \in Request, r.kind # "app", NEW p, ExecuteAll(<<r>>, queue, p)
      PROVE  OutboxStep
  BY <1>1, ExecuteStands
<1>2. /\ Reauth \in Request /\ Reauth.kind # "app"
      /\ \A s \in Sockets, k \in {"setup", "subscribe", "ping"} :
           Req(k, s) \in Request /\ Req(k, s).kind # "app"
  BY RequestType DEF Reauth, Req, HandshakeKinds
<1>3. CASE UserConnect
  BY <1>0, <1>3 DEF UserConnect
<1>4. ASSUME NEW m \in Msgs, UserExecute(m) PROVE OutboxStep
  BY <1>4, UserExecuteAccepts
<1>5. CASE UserRefresh
  BY <1>0, <1>1, <1>2, <1>5 DEF UserRefresh, Execute
<1>6. CASE Disconnect
  BY <1>0, <1>6 DEF Disconnect
<1>7. CASE DisconnectDone
  BY <1>7, DisconnectResolves
<1>8. ASSUME NEW s \in Sockets,
             SocketOpen(s) \/ SocketError(s) \/ SocketClose(s) \/ BladeDisconnect(s)
      PROVE  OutboxStep
  BY <1>0, <1>8 DEF SocketOpen, SocketError, SocketClose, BladeDisconnect
<1>9. ASSUME NEW s \in Sockets, NEW t \in Sockets,
             ConnectAnswered(s, t) \/ SetupAnswered(s, t)
      PROVE  OutboxStep
  <2>1. CASE ConnectAnswered(s, t)
    BY <1>1, <1>2, <2>1 DEF ConnectAnswered, Execute
  <2>2. CASE SetupAnswered(s, t)
    <3>1. Req("subscribe", s) \in Request /\ Req("subscribe", s).kind # "app"
      BY RequestType DEF Req, HandshakeKinds
    <3>2. QED
      BY <1>1, <2>2, <3>1 DEF SetupAnswered, Execute
  <2>3. QED
    BY <1>9, <2>1, <2>2
<1>10. ASSUME NEW s \in Sockets, NEW t \in Sockets, NEW k \in {"setup", "subscribe"},
              HandshakeDone(s, k, t)
       PROVE  OutboxStep
  BY <1>10, HandshakeResolves
<1>11. ASSUME NEW r, NEW t, OtherAnswered(r, t) \/ TimedOut(r) PROVE OutboxStep
  BY <1>0, <1>11 DEF OtherAnswered, TimedOut
<1>12. CASE ReconnectTimer \/ TokenExpires
  BY <1>0, <1>12 DEF ReconnectTimer, TokenExpires
<1>13. ASSUME NEW s \in Sockets, KeepAliveTick(s) PROVE OutboxStep
  BY <1>0, <1>1, <1>2, <1>13 DEF KeepAliveTick, Execute
<1>14. CASE UNCHANGED vars
  BY <1>0, <1>14 DEF vars
<1>15. QED
  BY <1>3, <1>4, <1>5, <1>6, <1>7, <1>8, <1>9, <1>10, <1>11, <1>12, <1>13, <1>14
     DEF Next, User, Answer, Event, Timer

(* execute() keeps the promise of Outbox, through idle periods, lost sockets, *)
(* timeouts and disconnections: what waits is sent together or dropped        *)
(* together, and what was dropped is never sent. That the flush reaches all   *)
(* that waits is NothingLost.                                                 *)
THEOREM QueueImplementsOutbox == Spec => ImplementsOutbox
<1>1. Init => Accepted /\ Box!OutboxInit
  BY DEF Init, Accepted, InQueue, Range, Box!OutboxInit, Standing
<1>2. TypeOK /\ TypeOK' /\ Accepted /\ NothingLost /\ [Next]_vars => Accepted'
  BY StepIsOutbox DEF OutboxStep
<1>3. TypeOK /\ TypeOK' /\ Accepted /\ NothingLost /\ [Next]_vars =>
        [Box!OutboxNext]_[m \in Msgs |-> Standing(m)]
  BY StepIsOutbox DEF OutboxStep
<1>4. QED
  BY <1>1, <1>2, <1>3, TypeCorrect, NoMessageIsLost, PTL
     DEF Spec, ImplementsOutbox, Box!OutboxSpec

=============================================================================

--------------------------- MODULE ConsumerProofs ---------------------------
(***************************************************************************)
(* Proofs about Consumer, for any number of sockets and requests.  A step  *)
(* of the consumer is a step of its session, so that what SessionProofs    *)
(* proves of the session holds here as well.                               *)
(***************************************************************************)
EXTENDS Consumer, SessionProofs

USE DEF connVars, beatVars, userVars, msgVars, consVars

------------------------------------------------------------------------------
(* Steps of the consumer are steps of the session.                            *)

LEMMA AnsweredIsStep ==
  ASSUME NEW r, NEW t, OtherAnswered(r, t)
  PROVE  Next
  <1> DEFINE rs == <<r, t>>
  <1>1. rs \in pending /\ rs[1] = r /\ rs[2] = t
    BY DEF OtherAnswered, Answerable
  <1>2. OtherAnswered(rs[1], rs[2])
    BY <1>1
  <1> HIDE DEF rs
  <1>3. Answer
    BY <1>1, <1>2 DEF Answer
  <1> QED
    BY <1>3 DEF Next

LEMMA TimedOutIsStep ==
  ASSUME NEW r, TimedOut(r)
  PROVE  Next
  <1> PICK s \in Sockets : <<r, s>> \in pending
    BY DEF TimedOut, TimerArmed
  <1> DEFINE rs == <<r, s>>
  <1>1. rs \in pending /\ rs[1] = r
    OBVIOUS
  <1>2. TimedOut(rs[1])
    BY <1>1
  <1> HIDE DEF rs
  <1>3. Timer
    BY <1>1, <1>2 DEF Timer
  <1> QED
    BY <1>3 DEF Next

LEMMA StepIsSession == [ConsumerNext]_allVars => [Next]_vars
  <1> SUFFICES ASSUME [ConsumerNext]_allVars PROVE [Next]_vars
    OBVIOUS
  <1>1. CASE OnReady
    BY <1>1 DEF OnReady, Asked, Next, User
  <1>2. ASSUME NEW s \in Sockets, NEW t \in Sockets, BecomesReady(s, t) PROVE Next
    BY <1>2 DEF BecomesReady, Next, Answer
  <1>3. ASSUME NEW r \in Msgs, ReceiveTimedOut(r) PROVE Next
    BY <1>3, TimedOutIsStep DEF ReceiveTimedOut
  <1>4. ASSUME NEW r \in Msgs, NEW t \in Sockets, ReceiveAnswered(r, t) PROVE Next
    BY <1>4, AnsweredIsStep DEF ReceiveAnswered
  <1>5. ASSUME NEW s \in Sockets, SocketEnds(s) PROVE Next
    BY <1>5 DEF SocketEnds, Next, Event
  <1>6. CASE ConsumerDisconnects
    BY <1>6 DEF ConsumerDisconnects, Next, User
  <1>7. CASE SessionStep
    BY <1>7 DEF SessionStep, Next, User, Answer, Event, Timer
  <1>8. CASE UNCHANGED allVars
    BY <1>8 DEF allVars
  <1> QED
    BY <1>1, <1>2, <1>3, <1>4, <1>5, <1>6, <1>7, <1>8 DEF ConsumerNext

(* The consumer leaves its session a session.                                 *)
THEOREM SessionIsImplemented == ConsumerSpec => Spec
  <1>1. ConsumerInit => Init
    BY DEF ConsumerInit
  <1> QED
    BY <1>1, StepIsSession, PTL DEF ConsumerSpec, Spec

------------------------------------------------------------------------------
(* The session is up once the handshake of its open socket is done.           *)

Up == Connected /\ hs[ws] = "ready"

LEMMA ExecuteUps ==
  ASSUME TypeOK, NEW rs, NEW q, NEW p, ExecuteAll(rs, q, p),
         \A s \in Sockets : hs'[s] = "ready" => hs[s] = "ready", Up'
  PROVE  Up
  <1>1. UNCHANGED <<sock, ws>> \/ Connect
    BY DEF ExecuteAll
  <1>2. Connected /\ ws' = ws
    BY <1>1, ConnectOpensNothing DEF Up, Connected
  <1> QED
    BY <1>2 DEF Up, Connected, TypeOK

LEMMA CloseDowns ==
  ASSUME TypeOK, NEW L, CloseConnection(L)
  PROVE  ~Up'
  BY CloseEffect DEF Up, Connected

(* Only the end of a handshake makes the session ready: a socket that opens   *)
(* has its handshake before it.                                               *)
LEMMA EventUps ==
  ASSUME TypeOK, LiveIsCurrent, Fresh, Up',
         NEW s \in Sockets,
         SocketOpen(s) \/ SocketError(s) \/ SocketClose(s) \/ BladeDisconnect(s)
  PROVE  Up
  <1>1. CASE SocketOpen(s)
    <2>1. ws = s /\ hs[s] = "none"
      BY <1>1 DEF SocketOpen, LiveIsCurrent, Live, Fresh, NotOpened
    <2> QED
      BY <1>1, <2>1 DEF SocketOpen, TypeOK, Up
  <1>2. CASE SocketError(s) \/ SocketClose(s)
    BY <1>2 DEF SocketError, SocketClose, Up, Connected, TypeOK
  <1>3. CASE BladeDisconnect(s)
    BY <1>3 DEF BladeDisconnect, Up, Connected
  <1> QED
    BY <1>1, <1>2, <1>3

LEMMA AnsweredUps ==
  ASSUME TypeOK, NEW r, NEW t, OtherAnswered(r, t), Up'
  PROVE  Up
  <1>1. UNCHANGED <<sock, ws>> /\ Connected
    BY DEF OtherAnswered, Up, Connected
  <1>2. \A s \in Sockets : hs'[s] = "ready" => hs[s] = "ready"
    BY DEF OtherAnswered, TypeOK
  <1> QED
    BY <1>1, <1>2 DEF Up, Connected, TypeOK

LEMMA SessionStepUps ==
  ASSUME TypeOK, LiveIsCurrent, Fresh, SessionStep, Up'
  PROVE  Up
  <1>1. CASE UserConnect \/ ReconnectTimer
    BY <1>1, ConnectOpensNothing DEF UserConnect, ReconnectTimer, Up
  <1>2. CASE DisconnectDone
    BY <1>2 DEF DisconnectDone, Up, Connected
  <1>3. ASSUME NEW s \in Sockets, NEW t \in Sockets,
               ConnectAnswered(s, t) \/ SetupAnswered(s, t)
        PROVE  Up
    <2>1. \A u \in Sockets : hs'[u] = "ready" => hs[u] = "ready"
      BY <1>3 DEF ConnectAnswered, SetupAnswered, TypeOK
    <2> QED
      BY <1>3, <2>1, ExecuteUps DEF ConnectAnswered, SetupAnswered, Execute
  <1>4. ASSUME NEW s \in Sockets, SocketOpen(s) \/ BladeDisconnect(s)
        PROVE  Up
    BY <1>4, EventUps
  <1>5. ASSUME NEW s \in Sockets, KeepAliveTick(s)
        PROVE  Up
    <2>1. UNCHANGED hs /\ (CloseConnection({s}) \/ ExecuteAll(<<Req("ping", s)>>, queue, pending))
      BY <1>5 DEF KeepAliveTick, Execute
    <2> QED
      BY <2>1, CloseDowns, ExecuteUps
  <1>6. ASSUME NEW rs \in pending, OtherAnswered(rs[1], rs[2]) \/ TimedOut(rs[1])
        PROVE  Up
    BY <1>6, AnsweredUps, CloseDowns DEF TimedOut
  <1> QED
    BY <1>1, <1>2, <1>3, <1>4, <1>5, <1>6 DEF SessionStep

------------------------------------------------------------------------------
(* Type correctness.                                                         *)

LEMMA InitIsTyped == ConsumerInit => ConsumerTypeOK
  <1>1. 0 \in 0 .. 2
    OBVIOUS
  <1> QED
    BY <1>1 DEF ConsumerInit, ConsumerTypeOK

LEMMA StepIsTyped == ConsumerTypeOK /\ [ConsumerNext]_allVars => ConsumerTypeOK'
  <1> SUFFICES ASSUME ConsumerTypeOK, [ConsumerNext]_allVars PROVE ConsumerTypeOK'
    OBVIOUS
  <1> USE DEF ConsumerTypeOK
  <1>0. 0 \in 0 .. 2 /\ Registered \in 0 .. 2
    BY DEF Registered
  <1>1. CASE OnReady
    BY <1>0, <1>1 DEF OnReady, Asked
  <1>2. ASSUME NEW s \in Sockets, NEW t \in Sockets, BecomesReady(s, t)
        PROVE  ConsumerTypeOK'
    BY <1>2 DEF BecomesReady
  <1>3. ASSUME NEW r \in Msgs, ReceiveTimedOut(r)
        PROVE  ConsumerTypeOK'
    BY <1>3 DEF ReceiveTimedOut, Refused, Excuses
  <1>4. ASSUME NEW r \in Msgs, NEW t \in Sockets, ReceiveAnswered(r, t)
        PROVE  ConsumerTypeOK'
    BY <1>0, <1>4 DEF ReceiveAnswered, Received, Refused, Excuses
  <1>5. ASSUME NEW s \in Sockets, SocketEnds(s)
        PROVE  ConsumerTypeOK'
    BY <1>0, <1>5 DEF SocketEnds, Wiped, Excuses
  <1>6. CASE ConsumerDisconnects
    BY <1>0, <1>6 DEF ConsumerDisconnects
  <1>7. CASE SessionStep
    BY <1>7 DEF SessionStep
  <1>8. CASE UNCHANGED allVars
    BY <1>8 DEF allVars
  <1> QED
    BY <1>1, <1>2, <1>3, <1>4, <1>5, <1>6, <1>7, <1>8 DEF ConsumerNext

(* The variables of a consumer keep their types, and with SessionIsImplemented *)
(* so do those of its session, whatever sockets, answers and timers come.      *)
THEOREM ConsumerTypeCorrect == ConsumerSpec => []ConsumerTypeOK
  BY InitIsTyped, StepIsTyped, PTL DEF ConsumerSpec

------------------------------------------------------------------------------
(* Contexts and callbacks.                                                   *)

(* Callbacks stand under a protocol and for contexts that are listed; a        *)
(* session that is up has a protocol; and once Ready has been dispatched the   *)
(* contexts it lists have their callbacks.                                    *)
HeldTogether ==
  /\ handlers > 0 => contexts /\ protocol
  /\ Up \/ due => protocol
  /\ Up /\ ~due /\ contexts => handlers > 0

SessionInv == TypeOK /\ LiveIsCurrent /\ Fresh

(* A socket that ends was not up, or takes the session down with it.           *)
LEMMA EndUps ==
  ASSUME TypeOK, NEW s \in Sockets, SocketError(s) \/ SocketClose(s), Up'
  PROVE  Up /\ s # ws
  <1>1. UNCHANGED <<ws, hs>> /\ sock'[s] # "open" /\ \A u \in Sockets : u # s => sock'[u] = sock[u]
    BY DEF SocketError, SocketClose, TypeOK
  <1>2. ws \in Sockets
    BY <1>1 DEF Up, Connected, TypeOK
  <1> QED
    BY <1>1, <1>2 DEF Up, Connected

LEMMA StepHoldsTogether ==
  ConsumerTypeOK /\ SessionInv /\ HeldTogether /\ [ConsumerNext]_allVars => HeldTogether'
  <1> SUFFICES ASSUME ConsumerTypeOK, SessionInv, HeldTogether, [ConsumerNext]_allVars
               PROVE  HeldTogether'
    OBVIOUS
  <1> USE DEF SessionInv, HeldTogether
  <1>0. handlers \in 0 .. 2
    BY DEF ConsumerTypeOK
  <1>1. CASE OnReady
    BY <1>0, <1>1 DEF OnReady, Asked, Registered
  <1>2. ASSUME NEW s \in Sockets, NEW t \in Sockets, BecomesReady(s, t)
        PROVE  HeldTogether'
    BY <1>2 DEF BecomesReady
  <1>3. ASSUME NEW r \in Msgs, ReceiveTimedOut(r)
        PROVE  HeldTogether'
    <2>1. ~Up'
      BY <1>3, CloseDowns DEF ReceiveTimedOut, TimedOut
    <2> QED
      BY <1>3, <2>1 DEF ReceiveTimedOut, Refused
  <1>4. ASSUME NEW r \in Msgs, NEW t \in Sockets, ReceiveAnswered(r, t)
        PROVE  HeldTogether'
    <2>1. Up' => Up
      BY <1>4, AnsweredUps DEF ReceiveAnswered
    <2> QED
      BY <1>0, <1>4, <2>1 DEF ReceiveAnswered, Received, Refused, Registered
  <1>5. ASSUME NEW s \in Sockets, SocketEnds(s)
        PROVE  HeldTogether'
    <2>1. Up' => Up
      BY <1>5, EndUps DEF SocketEnds
    <2>2. UNCHANGED <<contexts, handlers>> \/ (~contexts' /\ handlers' = 0)
      <3>1. ~protocol => handlers = 0
        BY <1>0
      <3> QED
        BY <1>5, <3>1 DEF SocketEnds, Wiped
    <2>3. UNCHANGED <<protocol, due>>
      BY <1>5 DEF SocketEnds
    <2> QED
      BY <2>1, <2>2, <2>3
  <1>6. CASE ConsumerDisconnects /\ ~due
    <2>1. ~Up' /\ handlers' = 0 /\ ~due'
      BY <1>6, CloseDowns DEF ConsumerDisconnects, Disconnect
    <2> QED
      BY <2>1
  <1>7. CASE SessionStep
    BY <1>7, SessionStepUps DEF SessionStep
  <1>8. CASE UNCHANGED allVars
    BY <1>8 DEF allVars, vars, Up, Connected
  <1> QED
    BY <1>1, <1>2, <1>3, <1>4, <1>5, <1>6, <1>7, <1>8 DEF ConsumerNext

LEMMA SessionKept == ConsumerSpec => []SessionInv
  <1>1. Init => Fresh
    BY DEF Init, Fresh, NotOpened
  <1>2. Spec => []Fresh
    BY <1>1, StepKeepsFresh, TypeCorrect, PTL DEF Spec
  <1>3. SessionInv <=> TypeOK /\ LiveIsCurrent /\ Fresh
    BY DEF SessionInv
  <1> QED
    BY <1>2, <1>3, SessionIsImplemented, TypeCorrect, LiveSocketIsCurrent, PTL

LEMMA TogetherInvariant == ConsumerSpec => []HeldTogether
  <1>1. ConsumerInit => HeldTogether
    BY DEF ConsumerInit, Init, HeldTogether, Up, Connected
  <1> QED
    BY <1>1, StepHoldsTogether, ConsumerTypeCorrect, SessionKept, PTL DEF ConsumerSpec

(* On a session that is ready the listed contexts are those whose events find  *)
(* a callback: the two are taken away and put back together, in any order of   *)
(* closes, answers, timeouts and Readys.                                      *)
THEOREM ContextsAreHeard == ConsumerSpec => []ListedIsHeard
  <1>1. ConsumerTypeOK /\ HeldTogether => ListedIsHeard
    BY DEF ConsumerTypeOK, HeldTogether, ListedIsHeard, Ready, Up
  <1> QED
    BY <1>1, ConsumerTypeCorrect, TogetherInvariant, PTL

------------------------------------------------------------------------------
(* Why a ready session is without contexts.                                   *)

LEMMA StepKeepsExcuse ==
  ConsumerTypeOK /\ SessionInv /\ DeafOnlyWithExcuse /\ [ConsumerNext]_allVars
    => DeafOnlyWithExcuse'
  <1> SUFFICES ASSUME ConsumerTypeOK, SessionInv, DeafOnlyWithExcuse, [ConsumerNext]_allVars,
                      Up', ~due', ~contexts'
               PROVE  excuse' # {} \/ \E r \in Msgs : receive'[r] = "waiting"
    BY DEF DeafOnlyWithExcuse, Ready, Up
  <1> USE DEF SessionInv
  <1>0. /\ receive \in [Msgs -> {"new", "waiting", "done"}]
        /\ Up /\ ~due /\ ~contexts => excuse # {} \/ \E r \in Msgs : receive[r] = "waiting"
    BY DEF ConsumerTypeOK, DeafOnlyWithExcuse, Ready, Up
  <1>1. CASE OnReady
    BY <1>0, <1>1 DEF OnReady, Asked
  <1>2. ASSUME NEW s \in Sockets, NEW t \in Sockets, BecomesReady(s, t)
        PROVE  FALSE
    BY <1>2 DEF BecomesReady
  <1>3. ASSUME NEW r \in Msgs, ReceiveTimedOut(r)
        PROVE  FALSE
    BY <1>3, CloseDowns DEF ReceiveTimedOut, TimedOut
  <1>4. ASSUME NEW r \in Msgs, NEW t \in Sockets, ReceiveAnswered(r, t)
        PROVE  excuse' # {} \/ \E m \in Msgs : receive'[m] = "waiting"
    <2>1. Up /\ due' = due
      BY <1>4, AnsweredUps DEF ReceiveAnswered
    <2>2. CASE receive[r] = "waiting"
      BY <1>4, <2>2 DEF ReceiveAnswered, Received, Refused
    <2>3. CASE receive[r] # "waiting"
      BY <1>0, <1>4, <2>1, <2>3 DEF ReceiveAnswered
    <2> QED
      BY <2>2, <2>3
  <1>5. ASSUME NEW s \in Sockets, SocketEnds(s)
        PROVE  excuse' # {} \/ \E r \in Msgs : receive'[r] = "waiting"
    <2>1. Up /\ s # ws /\ ~due
      BY <1>5, EndUps DEF SocketEnds
    <2> QED
      BY <1>0, <1>5, <2>1 DEF SocketEnds, Ready, Up
  <1>6. CASE ConsumerDisconnects
    BY <1>6, CloseDowns DEF ConsumerDisconnects, Disconnect
  <1>7. CASE SessionStep
    BY <1>0, <1>7, SessionStepUps DEF SessionStep
  <1>8. CASE UNCHANGED allVars
    BY <1>0, <1>8 DEF allVars, vars, Up, Connected
  <1> QED
    BY <1>1, <1>2, <1>3, <1>4, <1>5, <1>6, <1>7, <1>8 DEF ConsumerNext

(* A ready session that has no contexts either waits for them or was refused   *)
(* them, or lost them to the late close of an older socket: nothing else makes *)
(* a consumer deaf.                                                            *)
THEOREM NeverDeafWithoutExcuse == ConsumerSpec => []DeafOnlyWithExcuse
  <1>1. ConsumerInit => DeafOnlyWithExcuse
    BY DEF ConsumerInit, Init, DeafOnlyWithExcuse, Ready, Connected
  <1> QED
    BY <1>1, StepKeepsExcuse, ConsumerTypeCorrect, SessionKept, PTL DEF ConsumerSpec

(* What the session promises is kept under a consumer, with all that run()     *)
(* adds to it at every Ready: one live socket, a reconnect that is owed, and   *)
(* Receive requests that wait together until they are sent or dropped.         *)
THEOREM ConsumerKeepsSession ==
  ConsumerSpec => []LiveIsCurrent /\ []ReconnectOwed /\ ImplementsOutbox
  BY SessionIsImplemented, LiveSocketIsCurrent, ReconnectIsOwed, QueueImplementsOutbox, PTL
=============================================================================

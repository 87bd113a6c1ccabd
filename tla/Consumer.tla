------------------------------- MODULE Consumer -------------------------------
(***************************************************************************)
(* A Relay consumer (packages/node/src/relay/RelayConsumer.ts) on its      *)
(* session: at every Ready it asks the server for its contexts             *)
(* (services/Receive.ts) and, once they are granted, registers its         *)
(* callbacks for calls, messages, message states and tasks                 *)
(* (relay/Relay.ts); the close of a socket takes contexts and callbacks    *)
(* away (BaseSession.ts:270).                                              *)
(*                                                                         *)
(* The session is the one of Session, whole: Msgs are the signalwire.receive *)
(* requests of the successive Readys.  The contexts of a consumer are asked *)
(* for, granted and forgotten together, and so are its callbacks: one       *)
(* Boolean and one counter stand for all.                                  *)
(***************************************************************************)
EXTENDS Session

VARIABLES
  contexts,  \* session.contexts includes the consumer's
  handlers,  \* how often its callbacks are registered under session.relayProtocol
  protocol,  \* session.relayProtocol is not null
  receive,   \* the Receive call of each request: where its await is
  due,       \* the Ready event is being dispatched
  excuse     \* history: since the last Ready, what may have made the consumer deaf

consVars == <<contexts, handlers, protocol, receive, due, excuse>>
allVars  == <<vars, consVars>>

Excuses == {"refused", "late close"}

ConsumerTypeOK ==
  /\ contexts \in BOOLEAN /\ protocol \in BOOLEAN /\ due \in BOOLEAN
  /\ handlers \in 0 .. 2
  /\ receive \in [Msgs -> {"new", "waiting", "done"}]
  /\ excuse \subseteq Excuses

ConsumerInit ==
  /\ Init
  /\ contexts = FALSE /\ protocol = FALSE /\ due = FALSE
  /\ handlers = 0
  /\ receive = [r \in Msgs |-> "new"]
  /\ excuse = {}

Ready == Connected /\ hs[ws] = "ready" /\ ~due

(* onReceive() and onStateChange() of every service: their Receive finds the  *)
(* contexts listed, and register() adds each callback once more.              *)
Registered == IF handlers = 0 THEN 1 ELSE 2

------------------------------------------------------------------------------
(* The end of the handshake, up to the dispatch of Ready; Setup has given a   *)
(* protocol.                                                                  *)
BecomesReady(s, t) ==
  /\ contexts \/ \E r \in Msgs : receive[r] = "new"
  /\ HandshakeDone(s, "subscribe", t)
  /\ protocol' = TRUE
  /\ due' = TRUE
  /\ excuse' = {}
  /\ UNCHANGED <<contexts, handlers, receive>>

(* Mutant: run() that asks at the first Ready only. *)
AskedOnce ==
  IF \E r \in Msgs : receive[r] # "new"
    THEN UNCHANGED <<vars, receive>>
    ELSE \E r \in Msgs : /\ UserExecute(r)
                         /\ receive' = [receive EXCEPT ![r] = "waiting"]

(* Receive up to its await: the contexts are not listed, so they are asked for. *)
Asked ==
  \E r \in Msgs : /\ receive[r] = "new"
                  /\ UserExecute(r)
                  /\ receive' = [receive EXCEPT ![r] = "waiting"]

(* The 'signalwire.ready' callback of run() up to its await, or to its end if *)
(* the contexts are listed.                                                   *)
OnReady ==
  /\ due
  /\ due' = FALSE
  /\ IF contexts THEN handlers' = Registered /\ UNCHANGED <<vars, receive>>
                 ELSE Asked /\ UNCHANGED handlers
  /\ UNCHANGED <<contexts, protocol, excuse>>

(* Receive(r) resumes with an answer. *)
Received(r) ==
  /\ contexts' = TRUE
  /\ handlers' = IF protocol THEN Registered ELSE handlers
  /\ UNCHANGED excuse

(* ... or with an error: run() registers nothing and waits for another Ready. *)
Refused ==
  /\ excuse' = excuse \cup {"refused"}
  /\ UNCHANGED <<contexts, handlers>>

(* An answer to r; a request that is sent again by a later flush has resumed  *)
(* its caller before.                                                         *)
ReceiveAnswered(r, t) ==
  /\ OtherAnswered(Req("app", r), t)
  /\ IF receive[r] = "waiting" THEN Received(r) \/ Refused
                                ELSE UNCHANGED <<contexts, handlers, excuse>>
  /\ receive' = [receive EXCEPT ![r] = "done"]
  /\ UNCHANGED <<protocol, due>>

ReceiveTimedOut(r) ==
  /\ TimedOut(Req("app", r))
  /\ IF receive[r] = "waiting" THEN Refused ELSE UNCHANGED <<contexts, handlers, excuse>>
  /\ receive' = [receive EXCEPT ![r] = "done"]
  /\ UNCHANGED <<protocol, due>>

(* Mutant: _onSocketCloseOrError() that keeps session.contexts. *)
WipedHandlers ==
  /\ handlers' = IF protocol THEN 0 ELSE handlers
  /\ UNCHANGED contexts

(* What _onSocketCloseOrError() takes away. *)
Wiped ==
  /\ contexts' = FALSE
  /\ handlers' = IF protocol THEN 0 ELSE handlers

(* A socket reports an error or its close: any socket the session had. *)
SocketEnds(s) ==
  /\ SocketError(s) \/ SocketClose(s)
  /\ IF listening
       THEN /\ Wiped
            /\ excuse' = IF Ready /\ s # ws THEN excuse \cup {"late close"} ELSE excuse
       ELSE UNCHANGED <<contexts, handlers, excuse>>
  /\ UNCHANGED <<protocol, receive, due>>

(* disconnect() forgets the protocol: callbacks that are registered for it    *)
(* are not found again (BroadcastHandler.ts:8).                               *)
ConsumerDisconnects ==
  /\ Disconnect
  /\ protocol' = FALSE
  /\ handlers' = 0
  /\ UNCHANGED <<contexts, receive, due, excuse>>

(* Everything else the session does; a consumer has no token that expires.    *)
SessionStep ==
  /\ \/ UserConnect \/ DisconnectDone \/ ReconnectTimer
     \/ \E s, t \in Sockets : ConnectAnswered(s, t) \/ SetupAnswered(s, t)
     \/ \E s \in Sockets : SocketOpen(s) \/ BladeDisconnect(s) \/ KeepAliveTick(s)
     \/ \E rs \in pending : /\ rs[1].kind # "app"
                            /\ OtherAnswered(rs[1], rs[2]) \/ TimedOut(rs[1])
  /\ UNCHANGED consVars

ConsumerNext ==
  \/ OnReady
  \/ /\ ~due
     /\ \/ \E s, t \in Sockets : BecomesReady(s, t)
        \/ \E r \in Msgs : ReceiveTimedOut(r) \/ \E t \in Sockets : ReceiveAnswered(r, t)
        \/ \E s \in Sockets : SocketEnds(s)
        \/ ConsumerDisconnects
        \/ SessionStep

ConsumerSpec == ConsumerInit /\ [][ConsumerNext]_allVars

------------------------------------------------------------------------------
(* What must hold.                                                           *)

(* On a session that is ready, the contexts it lists are those whose events   *)
(* find a callback: Receive never answers from a list that outlived the       *)
(* callbacks, whatever sockets closed, requests failed and Readys came in     *)
(* between (Receive.ts:17, BaseSession.ts:272-279).                           *)
ListedIsHeard == Ready => (contexts <=> handlers > 0)

(* A ready session without its contexts is waiting for them, unless the       *)
(* server refused (or a timeout did), or an older socket closed late.         *)
DeafOnlyWithExcuse ==
  Ready /\ ~contexts => excuse # {} \/ \E r \in Msgs : receive[r] = "waiting"
=============================================================================

----------------------------- MODULE RelayCall -----------------------------
(***************************************************************************)
(* One Relay call (packages/common/src/relay/calling/Call.ts) with its     *)
(* components: the methods the application calls, the requests they send,  *)
(* the notifications of the server, which a callback of the session hands  *)
(* to the call one at a time, and the end of the call, which terminates    *)
(* every component and takes the call off Calling's list.                  *)
(***************************************************************************)
EXTENDS Components

CONSTANTS
  Comps,     \* components, one per call of a method
  Kinds,     \* the kinds of component the application uses
  WaitSets   \* the sets of call states it passes to waitFor()

ASSUME KindsAssumption    == Kinds \subseteq AllKinds
ASSUME CompsAssumption    == "tag" \notin Comps    \* the key of the call itself
ASSUME WaitSetsAssumption == WaitSets \subseteq (SUBSET CallState) \ {{}}

VARIABLES
  state,   \* Call.state
  reason,  \* end_reason once the call ended, from which busy and failed follow
  peer,    \* options.peer: the call this one is connected to
  comp,    \* _components
  link     \* the server: whether it is connecting the call to another one

vars == <<state, reason, peer, comp, link>>

TypeOK ==
  /\ state \in CallState
  /\ reason \in {"none", "hangup", "busy", "error"}
  /\ peer \in {"none", "call"}
  /\ comp \in [Comps -> Component]
  /\ link \in {"idle", "connecting", "connected"}

Init ==
  /\ state = "none"
  /\ reason = "none"
  /\ peer = "none"
  /\ comp = [c \in Comps |-> NoComponent]
  /\ link = "idle"

------------------------------------------------------------------------------
Added(c)  == comp[c].kind # "none"
Ended     == state \in {"ending", "ended"}    \* get ended()
Requested(k) ==
  \E c \in Comps : comp[c].kind = k /\ comp[c].exec \in {"sent", "ok", "failed"}

(* The promise of the method behind component c is settled.                  *)
Returned(c) ==
  /\ Added(c)
  /\ comp[c].exec \in {"ok", "failed", "skipped", "thrown"}
  /\ comp[c].blocker # "armed"

(* Mutant: execute() that sends whether or not the call has ended. *)
ExecuteBlindly(c) ==
  IF c.kind = "await" THEN [c EXCEPT !.exec = "skipped"] ELSE [c EXCEPT !.exec = "sent"]

(* execute(): nothing is sent for a call that has ended, nor by Await.       *)
(* record's and pass's asynchronous methods destructure the result, which is *)
(* undefined when nothing was sent.                                          *)
Execute(c) ==
  IF Ended
    THEN [Terminate(c) EXCEPT !.exec =
            IF c.kind \in {"record", "pass"} /\ ~HasBlocker(c) THEN "thrown" ELSE "skipped"]
  ELSE IF c.kind = "await" THEN [c EXCEPT !.exec = "skipped"]
  ELSE [c EXCEPT !.exec = "sent"]

(* Add a component of kind k and execute it: _waitFor(events) when the       *)
(* method waits for the outcome.                                             *)
Start(c, k, blocking, waits) ==
  /\ ~Added(c)
  /\ comp' = [comp EXCEPT ![c] =
                Execute([NoComponent EXCEPT !.kind = k,
                           !.waits = IF blocking THEN waits ELSE {},
                           !.blocker = IF blocking THEN "armed" ELSE "none"])]
  /\ UNCHANGED <<state, reason, peer, link>>

(* dial(), answer(), hangup(), disconnect(), play(), prompt(), record() ...  *)
Call(c, k) == k # "await" /\ k \notin OnlyAsync /\ Start(c, k, TRUE, Waits(k))

(* playAsync(), promptAsync(), recordAsync() ... and pass() *)
CallAsync(c, k) == k \in HasAsync /\ Start(c, k, FALSE, {})

(* The loop of waitFor() over the states passed to it. *)
Passed(events) == \E e \in events : Rank(e) <= Rank(state)

(* waitFor(), which returns true at once when a state was passed.            *)
WaitFor(c, events) ==
  /\ "await" \in Kinds
  /\ ~Passed(events)
  /\ Start(c, "await", TRUE, events)

(* stop(), pause(), resume() and volume() of a Controllable. *)
Control(c) ==
  /\ comp[c].kind \in Controllables
  /\ comp[c].control = "none"
  /\ Returned(c) /\ ~HasBlocker(comp[c]) /\ comp[c].exec # "thrown"
  /\ comp' = [comp EXCEPT ![c].control = "sent"]
  /\ UNCHANGED <<state, reason, peer, link>>

------------------------------------------------------------------------------
(* Answers to requests.  Session gives every one an answer or a timeout.     *)

ExecuteAnswered(c) ==
  /\ comp[c].exec = "sent"
  /\ comp' = [comp EXCEPT ![c] =
                LET d == [@ EXCEPT !.exec = "ok"] IN
                IF d.kind = "pass" THEN [d EXCEPT !.completed = TRUE, !.successful = TRUE]
                                   ELSE d]
  /\ UNCHANGED <<state, reason, peer, link>>

ExecuteFailed(c) ==
  /\ comp[c].exec = "sent"
  /\ comp' = [comp EXCEPT ![c] = [Terminate(@) EXCEPT !.exec = "failed"]]
  /\ UNCHANGED <<state, reason, peer, link>>

ControlAnswered(c) ==
  /\ comp[c].control = "sent"
  /\ \E r \in {"ok", "failed"} : comp' = [comp EXCEPT ![c].control = r]
  /\ UNCHANGED <<state, reason, peer, link>>

------------------------------------------------------------------------------
(* Notifications.  Those with a control id reach one component, those keyed  *)
(* by the tag of the call every component of their type that uses the tag.   *)

(* Mutant: notifications reach completed components, too. *)
HearsAgain(c, type, key) ==
  /\ Added(c)
  /\ EventType(comp[c].kind) = type
  /\ key = IF comp[c].kind \in ByTag THEN "tag" ELSE c

(* _notifyComponents passes the notification on to c. *)
Hears(c, type, key) ==
  /\ Added(c)
  /\ comp[c].completed = FALSE
  /\ EventType(comp[c].kind) = type
  /\ key = IF comp[c].kind \in ByTag THEN "tag" ELSE c

(* _notifyComponents *)
Notified(type, key, e) ==
  [c \in Comps |-> IF Hears(c, type, key) THEN Handle(comp[c], e) ELSE comp[c]]

(* _playChange, _recordChange, _collectChange, _faxChange, _detectChange,    *)
(* _tapChange and _sendDigitsChange.                                         *)
ControlChange(c, e) ==
  /\ state # "ended"
  /\ Added(c) /\ comp[c].kind \notin ByTag \cup {"connect", "pass"}
  /\ comp[c].exec # "skipped"
  /\ e \in Events(comp[c].kind)
  /\ comp' = Notified(EventType(comp[c].kind), c, e)
  /\ UNCHANGED <<state, reason, peer, link>>

(* _dialChange, _referChange *)
TagChange(k, e) ==
  /\ state # "ended"
  /\ k \in {"dial", "refer"} /\ Requested(k)
  /\ e \in Events(k)
  /\ comp' = Notified(k, "tag", e)
  /\ UNCHANGED <<state, reason, peer, link>>

(* What the server reports of a connection, in an order it can happen in.    *)
Links(e) ==
  CASE e = "connecting"   -> link = "idle" /\ Requested("connect") /\ link' = "connecting"
    [] e = "connected"    -> link = "connecting" /\ link' = "connected"
    [] e = "failed"       -> link = "connecting" /\ link' = "idle"
    [] e = "disconnected" -> link = "connected" /\ link' = "idle"

(* options.peer after the notification e. *)
PeerAfter(e) == 
  IF e = "connected" THEN "call" ELSE IF e = "disconnected" THEN "none" ELSE peer

(* _connectChange *)
ConnectChange(e) ==
  /\ state # "ended"
  /\ Links(e)
  /\ peer' = PeerAfter(e)
  /\ comp' = Notified("connect", "tag", e)
  /\ UNCHANGED <<state, reason>>

(* _terminateComponents *)
TerminateAll(cs) ==
  [c \in Comps |-> IF cs[c].kind # "none" /\ ~cs[c].completed
                     THEN Terminate(cs[c]) ELSE cs[c]]

(* _stateChange.  The states come in order, though not every call goes       *)
(* through every one.  Calling no longer finds a call that ended.            *)
StateChange(s) ==
  /\ Rank(s) > Rank(state)
  /\ state' = s
  /\ LET notified == Notified("state", "tag", s) IN
     IF s = "ended"
       THEN /\ comp' = TerminateAll(notified)
            /\ reason' \in {"hangup", "busy", "error"}
       ELSE /\ comp' = notified
            /\ UNCHANGED reason
  /\ UNCHANGED <<peer, link>>

------------------------------------------------------------------------------
User ==
  \E c \in Comps :
    \/ \E k \in Kinds : Call(c, k) \/ CallAsync(c, k)
    \/ \E events \in WaitSets : WaitFor(c, events)
    \/ Control(c)

Answer ==
  \E c \in Comps : ExecuteAnswered(c) \/ ExecuteFailed(c) \/ ControlAnswered(c)

Notification ==
  \/ \E c \in Comps : \E e \in Events(comp[c].kind) : ControlChange(c, e)
  \/ \E k \in {"dial", "refer"} : \E e \in Events(k) : TagChange(k, e)
  \/ \E e \in Events("connect") : ConnectChange(e)
  \/ \E s \in CallState : StateChange(s)

Next == User \/ Answer \/ Notification

Spec == Init /\ [][Next]_vars

(* A request is answered or times out (SentIsSettled of Session).  Neither   *)
(* the application nor the server owes anything else.                        *)
Fairness ==
  \A c \in Comps : WF_vars(ExecuteAnswered(c) \/ ExecuteFailed(c))

FairSpec == Spec /\ Fairness

------------------------------------------------------------------------------
(* What must hold.                                                           *)

(* The one component that completes and leaves its method waiting: a         *)
(* disconnect() that hears "connected" (Disconnect.notificationHandler).     *)
Stranded(c) ==
  /\ comp[c].kind = "disconnect" /\ comp[c].state = "connected"
  /\ comp[c].completed /\ comp[c].blocker = "armed"

(* A component that completes releases the method that waits for it: nobody  *)
(* else will, since neither a notification nor the end of the call touches a *)
(* completed component (_notifyComponents, _terminateComponents).  The one   *)
(* exception is a disconnect() that is told the call is connected: "failed"  *)
(* and "disconnected", the end of the call and a failed request all release  *)
(* it, but "connected" completes it (every state but "connecting" does) and  *)
(* is not among the states its method waits for.                             *)
CompletedIsReleased ==
  \A c \in Comps : comp[c].completed => comp[c].blocker # "armed" \/ Stranded(c)

(* Once the call has ended no component is still running, those included     *)
(* that were added by a callback after the end.                              *)
EndedStopsAll ==
  state = "ended" => \A c \in Comps : Added(c) => comp[c].completed

(* The methods that wait behave like the operations of module Operations:    *)
(* what a method returned is never taken back, although its result object    *)
(* reads the live component, and one called on an ended call fails.          *)
OperationPhase ==
  [c \in Comps |->
     IF ~HasBlocker(comp[c]) THEN "idle"
     ELSE IF ~Returned(c) THEN "running"
     ELSE IF comp[c].successful THEN "succeeded" ELSE "failed"]

Abstract == INSTANCE Operations WITH Ops <- Comps, over <- Ended, phase <- OperationPhase

ImplementsOperations == Abstract!OpsSpec

(* A machine detector with wait_for_beep does not report a machine before    *)
(* its beep ("with wait_for_beep should wait until READY in case of          *)
(* MACHINE", Call.test.ts:1130): it never succeeds on MACHINE, and once it   *)
(* has heard MACHINE nothing but READY makes it a success, whatever it hears *)
(* in between (NOT_READY, HUMAN or MACHINE again).                           *)
BeepIsAwaited ==
  \A c \in Comps : comp[c].kind = "beep" /\ HasBlocker(comp[c]) /\ comp[c].successful =>
                     /\ comp[c].state # "MACHINE"
                     /\ comp[c].beeping => comp[c].state = "READY"

(* The end of the call releases the methods in progress: each returns once   *)
(* its request is settled, but for a disconnect() that had been told         *)
(* "connected", which nothing releases any more.                             *)
EndReleases ==
  \A c \in Comps : (state = "ended" /\ Added(c)) ~> (Returned(c) \/ Stranded(c))

------------------------------------------------------------------------------
(* What the repository says and the code does not do.                        *)

(* ".connect() ... should wait until the call is connected" (Call.test.ts:   *)
(* 351): the notification that the call is connected completes a connect()   *)
(* whose request was sent.  Connect listens under a control id of its own,   *)
(* and _connectChange notifies under the tag of the call.                    *)
ConnectCompletes ==
  [][link = "connecting" /\ link' = "connected" =>
       \A c \in Comps : comp[c].kind = "connect" /\ comp[c].exec = "ok" =>
                          comp'[c].completed]_vars
=============================================================================

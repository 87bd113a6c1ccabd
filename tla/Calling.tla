------------------------------ MODULE Calling ------------------------------
(***************************************************************************)
(* Calling's list of calls (packages/common/src/relay/calling/Calling.ts): *)
(* which Call object a notification reaches.  A call the application dials *)
(* has a tag of its own before the server gives it an id; a call dialed to *)
(* several devices gets its id only when one of its legs wins, and each    *)
(* leg meanwhile has a Call object that the list makes for it.             *)
(***************************************************************************)
EXTENDS Components, SequencesExt

CONSTANTS
  Objs,   \* Call objects
  Legs,   \* calls at the server, by their ids
  None

ASSUME NoneAssumption  == None \notin Objs \cup Legs

VARIABLES
  calls,   \* Calling._calls
  obj,     \* the Call objects
  leg,     \* the server: state of each call and the dial it belongs to
  dialing  \* the server: outcome of each dial

vars == <<calls, obj, leg, dialing>>

Obj == [owner : {"none", "application", "inbound", "notified"}, id : Legs \cup {None},
        multi : BOOLEAN, state : CallState,
        dial : {"none", "waiting", "answered", "failed"},  \* the Dial component
        request : {"none", "sent", "ok", "failed"}]        \* calling.dial or calling.begin

TypeOK ==
  /\ calls \in Seq(Objs)
  /\ obj \in [Objs -> Obj]
  /\ leg \in [Legs -> [state : CallState, tag : Objs \cup {None}]]
  /\ dialing \in [Objs -> {"no", "dialing", "answered", "failed"}]

NoObj == [owner |-> "none", id |-> None, multi |-> FALSE, state |-> "none",
          dial |-> "none", request |-> "none"]

Init ==
  /\ calls = <<>>
  /\ obj = [o \in Objs |-> NoObj]
  /\ leg = [l \in Legs |-> [state |-> "none", tag |-> None]]
  /\ dialing = [o \in Objs |-> "no"]

------------------------------------------------------------------------------
(* Array.find: the call at the first of the positions that pass the test.    *)
FirstOf(at) == IF at = {} THEN None ELSE calls[Min(at)]

(* getCallById() *)
CallById(l) == FirstOf({i \in DOMAIN calls : obj[calls[i]].id = l})

(* getCallByTag(): the tag of a call is its object. *)
CallByTag(t) == FirstOf({i \in DOMAIN calls : calls[i] = t})

(* Mutant: addCall() that puts the newest call first. *)
AddedFirst(o) == <<o>> \o calls

(* addCall() *)
Added(o) == Append(calls, o)

(* Mutant: removeCall() that removes the newest call. *)
RemovedLast(o) == SubSeq(calls, 1, Len(calls) - 1)

(* removeCall() *)
Removed(o) ==
  LET at == {i \in DOMAIN calls : calls[i] = o}
  IN  IF at = {} THEN calls ELSE RemoveAt(calls, Min(at))

(* new Call(): constructed and added to the list. *)
NewCallObject(o, owner, l, multi) ==
  /\ obj[o].owner = "none"
  /\ obj' = [obj EXCEPT ![o] = [NoObj EXCEPT !.owner = owner, !.id = l, !.multi = multi]]
  /\ calls' = Added(o)

(* newCall() *)
NewCall(o, multi) ==
  /\ NewCallObject(o, "application", None, multi)
  /\ UNCHANGED <<leg, dialing>>

(* dial() of a call made by newCall(); Calling.dial() is both. *)
Dial(o) ==
  /\ obj[o].owner = "application" /\ obj[o].dial = "none"
  /\ obj' = [obj EXCEPT ![o].dial = "waiting", ![o].request = "sent"]
  /\ dialing' = [dialing EXCEPT ![o] = "dialing"]
  /\ UNCHANGED <<calls, leg>>

(* The request to dial is answered: execute() returns. *)
DialAccepted(o) ==
  /\ obj[o].request = "sent"
  /\ obj' = [obj EXCEPT ![o].request = "ok"]
  /\ UNCHANGED <<calls, leg, dialing>>

(* execute() terminates the component, whether it has completed or not.      *)
RequestFails(o) == obj' = [obj EXCEPT ![o].dial = "failed", ![o].request = "failed"]

(* The server refuses to dial. *)
DialRefused(o) ==
  /\ obj[o].request = "sent"
  /\ dialing[o] = "dialing" /\ \A l \in Legs : leg[l].tag # o
  /\ RequestFails(o)
  /\ dialing' = [dialing EXCEPT ![o] = "failed"]
  /\ UNCHANGED <<calls, leg>>

(* The answer is lost or too late: the request fails on this side only, at   *)
(* any point of the dial, and the server goes on with it.                    *)
DialTimedOut(o) ==
  /\ obj[o].request = "sent"
  /\ RequestFails(o)
  /\ UNCHANGED <<calls, leg, dialing>>

------------------------------------------------------------------------------
(* Mutant: the end of a call terminates its dial, completed or not. *)
ChangedTerminatesAll(o, l, s) ==
  /\ obj' = [obj EXCEPT ![o] = [@ EXCEPT
               !.id = IF @ = None THEN l ELSE @,
               !.state = s,
               !.dial = IF s = "ended" THEN "failed" ELSE @]]
  /\ calls' = IF s = "ended" THEN Removed(o) ELSE calls

(* _stateChange of the Call: the end terminates the dial in progress and     *)
(* takes the call off the list.                                              *)
Changed(o, l, s) ==
  /\ LET call == obj[o] IN
     obj' = [obj EXCEPT ![o] = [call EXCEPT
               !.id = IF call.id = None THEN l ELSE call.id,
               !.state = s,
               !.dial = IF s = "ended" /\ call.dial = "waiting" THEN "failed" ELSE call.dial]]
  /\ calls' = IF s = "ended" THEN Removed(o) ELSE calls

(* Mutant: _onState() that takes a leg's state for the state of the call.    *)
OnStateOfAny(l, t, s) ==
  LET o == IF CallById(l) # None THEN CallById(l) ELSE CallByTag(t) IN
  IF o # None THEN Changed(o, l, s)
              ELSE \E new \in Objs : NewCallObject(new, "notified", l, FALSE)

(* _onState(): a call found by id or by tag changes; for an unknown call, or *)
(* a leg of one dialed to several devices, a Call object is made, which does *)
(* not take the state the notification reports.                              *)
OnState(l, t, s) ==
  LET o == IF CallById(l) # None THEN CallById(l) ELSE CallByTag(t) IN
  IF o # None /\ ~obj[o].multi
    THEN Changed(o, l, s)
    ELSE \E new \in Objs : NewCallObject(new, "notified", l, FALSE)

(* _onDial(), _dialChange(): the call takes the id and the device of the     *)
(* winner, and the Dial component completes.                                 *)
OnDial(t, outcome, winner) ==
  LET o    == CallByTag(t)
      call == obj[o]
      won  == outcome = "answered"
  IN  IF o = None THEN UNCHANGED <<calls, obj>>
      ELSE /\ obj' = [obj EXCEPT ![o] = [call EXCEPT
                        !.dial = IF call.dial = "waiting" THEN outcome ELSE call.dial,
                        !.id = IF won THEN winner ELSE call.id,
                        !.multi = call.multi /\ ~won]]
           /\ UNCHANGED calls

(* _onReceive() *)
OnReceive(l) == \E new \in Objs : NewCallObject(new, "inbound", l, FALSE)

------------------------------------------------------------------------------
(* The server, which tells the client of each step, in order.                *)
LegsOf(o) == {l \in Legs : leg[l].tag = o}

(* A leg of a dial: one for a call to one device; otherwise all at once, or  *)
(* one after the other until one answers.                                    *)
LegCreated(l, o) ==
  /\ leg[l].state = "none"
  /\ dialing[o] = "dialing"
  /\ ~obj[o].multi => LegsOf(o) = {}
  /\ \A k \in LegsOf(o) : leg[k].state # "answered"
  /\ leg' = [leg EXCEPT ![l] = [state |-> "created", tag |-> o]]
  /\ OnState(l, o, "created")
  /\ UNCHANGED dialing

(* The other end of a connect(). *)
PeerCreated(l) ==
  /\ leg[l].state = "none"
  /\ \E o \in Objs : obj[o].state = "answered"
  /\ leg' = [leg EXCEPT ![l].state = "created"]
  /\ OnState(l, None, "created")
  /\ UNCHANGED dialing

(* A call to a context of the session. *)
InboundCreated(l) ==
  /\ leg[l].state = "none"
  /\ leg' = [leg EXCEPT ![l].state = "created"]
  /\ OnReceive(l)
  /\ UNCHANGED dialing

(* One leg of a dial can answer. *)
LegAdvances(l, s) ==
  /\ leg[l].state # "none" /\ Rank(s) > Rank(leg[l].state)
  /\ s = "answered" /\ leg[l].tag # None =>
       /\ dialing[leg[l].tag] = "dialing"
       /\ \A k \in LegsOf(leg[l].tag) : leg[k].state # "answered"
  /\ leg' = [leg EXCEPT ![l].state = s]
  /\ OnState(l, leg[l].tag, s)
  /\ UNCHANGED dialing

DialAnswered(o) ==
  /\ dialing[o] = "dialing"
  /\ dialing' = [dialing EXCEPT ![o] = "answered"]
  /\ \E l \in LegsOf(o) : leg[l].state = "answered" /\ OnDial(o, "answered", l)
  /\ UNCHANGED leg

DialFailed(o) ==
  /\ dialing[o] = "dialing"
  /\ LegsOf(o) # {} /\ \A l \in LegsOf(o) : leg[l].state = "ended"
  /\ dialing' = [dialing EXCEPT ![o] = "failed"]
  /\ OnDial(o, "failed", None)
  /\ UNCHANGED leg

------------------------------------------------------------------------------
User ==
  \E o \in Objs : (\E multi \in BOOLEAN : NewCall(o, multi)) \/ Dial(o)

Request ==
  \E o \in Objs : DialAccepted(o) \/ DialRefused(o) \/ DialTimedOut(o)

Server ==
  \/ \E o \in Objs : DialAnswered(o) \/ DialFailed(o)
  \/ \E l \in Legs : \/ \E o \in Objs : LegCreated(l, o)
                     \/ PeerCreated(l) \/ InboundCreated(l)
                     \/ \E s \in CallState : LegAdvances(l, s)

Next == User \/ Request \/ Server

Spec == Init /\ [][Next]_vars

------------------------------------------------------------------------------
(* The Call objects the application holds: those it dialed and those it was  *)
(* given.                                                                    *)
Held(o) == obj[o].owner \in {"application", "inbound"}

(* A notification for a call the application holds reaches the object it     *)
(* holds (calling.test.ts:178 expects it of the winner of a dial), although  *)
(* the list has another one for the winning leg.                             *)
HeldIsFound ==
  \A o \in Objs : Held(o) /\ obj[o].id # None /\ obj[o].state # "ended" =>
                    CallById(obj[o].id) = o

(* The application's object is in the state the server says its call is in.  *)
(* The winner of a dial to several devices learns it with the next change.   *)
FollowsItsLeg ==
  \A o \in Objs : Held(o) /\ obj[o].id # None =>
    \/ obj[o].state = leg[obj[o].id].state
    \/ obj[o].state = "none" /\ obj[o].owner = "inbound" /\ leg[obj[o].id].state = "created"
    \/ obj[o].state = "none" /\ LegsOf(o) # {} /\ leg[obj[o].id].state = "answered"

(* The Dial component is settled as the server settled the dial, unless the  *)
(* request failed or the call to one device ended: no leg's end, and no      *)
(* leg's notification, is taken for the outcome of the whole.  A request     *)
(* that fails late (BaseComponent.ts:59) makes a failure of a dial that the  *)
(* server answered, or goes on to answer.                                    *)
DialIsSettled ==
  \A o \in Objs :
    /\ obj[o].dial = "answered" => dialing[o] = "answered"
    /\ dialing[o] = "answered"  => obj[o].dial = "answered" \/ obj[o].request = "failed"
    /\ dialing[o] = "failed"    => obj[o].dial = "failed"
    /\ obj[o].dial = "failed"   => \/ dialing[o] = "failed" \/ obj[o].request = "failed"
                                  \/ (obj[o].state = "ended" /\ ~obj[o].multi)

(* A call that ended is taken off the list; only the second object of a      *)
(* winning leg stays (its notifications reach the call that won).  An object *)
(* without an id is not counted: that of a dial to several devices none of   *)
(* which answered never sees an end and stays in the list for ever.          *)
EndedIsForgotten ==
  \A i \in DOMAIN calls :
    LET o == calls[i] IN
    obj[o].id # None /\ leg[obj[o].id].state = "ended" =>
      \E p \in Objs \ {o} : obj[p].owner = "application" /\ obj[p].id = obj[o].id

(* Whatever object a notification is matched to, by id or by tag, and however *)
(* many objects a call has: no object goes back to an earlier state, and an   *)
(* object that learned its call's id never takes another's (Call.ts:550-580). *)
CallsGoForward ==
  [][\A o \in Objs :
       /\ Rank(obj'[o].state) >= Rank(obj[o].state)
       /\ obj[o].id # None => obj'[o].id = obj[o].id]_vars

(* dial() behaves like an operation of module Operations.  It returns when    *)
(* its request and its component are settled (_waitFor awaits execute()       *)
(* first); until then the end of the call, the outcome of the dial and the    *)
(* failure of the request compete, and a failure of the request prevails.     *)
(* Whatever comes later leaves what it returned as it is, although the result *)
(* reads the live component.                                                  *)
DialPhase(o) ==
  IF obj[o].dial = "none" THEN "idle"
  ELSE IF obj[o].dial = "waiting" \/ obj[o].request = "sent" THEN "running"
  ELSE IF obj[o].dial = "answered" THEN "succeeded" ELSE "failed"

Abstract == INSTANCE Operations WITH Ops <- Objs, over <- FALSE,
                                     phase <- [o \in Objs |-> DialPhase(o)]
DialsAreOperations == Abstract!OpsSpec
=============================================================================

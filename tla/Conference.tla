----------------------------- MODULE Conference -----------------------------
(***************************************************************************)
(* The channels of a conference and the session's subscriptions to them.   *)
(*                                                                         *)
(* The server tells the client that a call joined a conference             *)
(* (VertoHandler._handlePvtEvent); the client subscribes to the live array *)
(* of the conference, asks for its content, and when that comes subscribes *)
(* to the other channels one after the other                               *)
(* (BaseCall.handleConferenceUpdate).  When the call parts, it             *)
(* unsubscribes from what is subscribed at that moment.  Every request is  *)
(* awaited, and what follows it runs on the subscriptions there are then;  *)
(* the connection may close and come back in between.                      *)
(***************************************************************************)
EXTENDS Naturals, Sequences

CONSTANTS
  Calls,     \* call ids; a call has one object here (WebCall has those that are replaced)
  Extras,    \* the channels of the conference but the live array, in the order
             \* in which they are subscribed: chat, info, moderator
  Slots,     \* bounds the requests awaited at a time
  MaxBoots,  \* bounds the live array contents asked for at a time
  Absent, None

LiveArray == "liveArray"
Channels  == {LiveArray} \cup {Extras[k] : k \in DOMAIN Extras}

ASSUME ExtrasAssumption ==
  /\ Extras \in Seq(STRING)
  /\ \A k \in DOMAIN Extras : Extras[k] # LiveArray
  /\ \A j, k \in DOMAIN Extras : Extras[j] = Extras[k] => j = k
ASSUME BootsAssumption == MaxBoots \in Nat
ASSUME NoneAssumption  == None \notin Calls /\ Absent \notin Calls \cup {None}

VARIABLES
  call,      \* the call: not created, in session.calls, or removed from it
  channels,  \* call.channels
  subs,      \* session.subscriptions[relayProtocol]: the callId of each channel,
             \* None when it has none yet
  handlers,  \* the callbacks registered for each channel: the calls they are for
  req,       \* requests whose answer is awaited, with what follows it
  boots,     \* live array contents asked for and not yet received
  member,    \* the server: the call that is in the conference
  held       \* the server: the channels it has the session subscribed to

vars == <<call, channels, subs, handlers, req, boots, member, held>>

Request ==
  [op : {"subscribe"}, on : SUBSET Channels, call : Calls, lost : BOOLEAN]
    \cup
  [op : {"unsubscribe"}, on : SUBSET Channels, call : Calls \cup {None}, lost : BOOLEAN]
Free == [op |-> "none", on |-> {}, call |-> None, lost |-> FALSE]

TypeOK ==
  /\ call \in [Calls -> {"none", "live", "gone"}]
  /\ channels \in [Calls -> SUBSET Channels]
  /\ subs \in [Channels -> Calls \cup {None, Absent}]
  /\ handlers \in [Channels -> Seq(Calls)]
  /\ req \in [Slots -> Request \cup {Free}]
  /\ boots \in 0..MaxBoots
  /\ member \in Calls \cup {None}
  /\ held \in SUBSET Channels

Unsubscribed == [ch \in Channels |-> Absent]
Unhandled    == [ch \in Channels |-> <<>>]

Init ==
  /\ call = [c \in Calls |-> "none"]
  /\ channels = [c \in Calls |-> {}]
  /\ subs = Unsubscribed
  /\ handlers = Unhandled
  /\ req = [i \in Slots |-> Free]
  /\ boots = 0
  /\ member = None
  /\ held = {}

----------------------------------------------------------------------------
(* BaseSession._addSubscription, with the registration of the callback.      *)
SubsWith(ch) == IF subs[ch] = Absent THEN [subs EXCEPT ![ch] = None] ELSE subs
HandlersWith(ch, c) ==
  IF subs[ch] = Absent THEN [handlers EXCEPT ![ch] = Append(@, c)] ELSE handlers

\* MUTANT: deRegister left out.
HandlersKept(chs) == handlers

(* BaseSession._removeSubscription, which removes the callbacks too.         *)
SubsWithout(chs) == [ch \in Channels |-> IF ch \in chs THEN Absent ELSE subs[ch]]
HandlersWithout(chs) ==
  [ch \in Channels |-> IF ch \in chs /\ subs[ch] # Absent THEN <<>> ELSE handlers[ch]]

(* BaseCall._addChannel of call c, the subscriptions being s.                *)
Claimed(s, ch, c) == IF s[ch] = Absent THEN s ELSE [s EXCEPT ![ch] = c]

(* session.vertoSubscribe for one channel on behalf of call c.               *)
Subscribing(ch, c) == [op |-> "subscribe", on |-> {ch}, call |-> c, lost |-> FALSE]

(* What handleConferenceUpdate awaits from the k-th channel on: those that   *)
(* are already subscribed are passed over.                                   *)
NextExtra(k, c, s) ==
  LET open == {j \in DOMAIN Extras : j >= k /\ s[Extras[j]] = Absent}
  IN  IF open = {} THEN {Free}
      ELSE {Subscribing(Extras[j], c) : j \in {j \in open : \A i \in open : j <= i}}

(* What follows the answer, or the failure, of the subscription to ch by     *)
(* call c in slot i: ok says whether the answer lists the channel, s is what *)
(* the subscriptions then are.                                               *)
Follows(i, ch, c, s, ok) ==
  IF ch = LiveArray
    THEN /\ subs' = s
         /\ boots' = IF ok THEN boots + 1 ELSE boots
         /\ boots' <= MaxBoots
         /\ req' = [req EXCEPT ![i] = Free]
         /\ UNCHANGED channels
    ELSE /\ subs' = IF ok THEN Claimed(s, ch, c) ELSE s
         /\ channels' = IF ok THEN [channels EXCEPT ![c] = @ \cup {ch}] ELSE channels
         /\ \E k \in DOMAIN Extras : \E r \in NextExtra(k + 1, c, subs') :
              Extras[k] = ch /\ req' = [req EXCEPT ![i] = r]
         /\ UNCHANGED boots

----------------------------------------------------------------------------
(* The application and the server begin and end calls.                       *)
CallStarts(c) ==
  /\ call[c] = "none"
  /\ call' = [call EXCEPT ![c] = "live"]
  /\ UNCHANGED <<channels, subs, handlers, req, boots, member, held>>

CallEnds(c) ==
  /\ call[c] = "live"
  /\ call' = [call EXCEPT ![c] = "gone"]
  /\ UNCHANGED <<channels, subs, handlers, req, boots, member, held>>

(* conference-liveArray-join.  One call of the session at a time is a member *)
(* of the conference: two calls that are members of it at once are left out, *)
(* and so a packet is for the call of its callback (callID), never for one   *)
(* found by _retrieveCallId() (VertoHandler.ts:139).                         *)
Join(c) ==
  /\ member = None /\ call[c] = "live"
  /\ member' = c
  /\ IF subs[LiveArray] # Absent THEN UNCHANGED req
     ELSE \E i \in Slots :
            req[i] = Free /\ req' = [req EXCEPT ![i] = Subscribing(LiveArray, c)]
  /\ UNCHANGED <<call, channels, subs, handlers, boots, held>>

(* The call whose live array is subscribed, if it still exists.              *)
Leaving ==
  IF subs[LiveArray] \in Calls /\ call[subs[LiveArray]] = "live"
    THEN subs[LiveArray] ELSE None

\* MUTANT: the channels are taken off the call when it parts.
PartAtOnce ==
  LET on == {ch \in Channels : subs[ch] # Absent} IN
  /\ member # None
  /\ member' = None
  /\ channels' = [c \in Calls |-> IF c = Leaving THEN channels[c] \ on ELSE channels[c]]
  /\ \E i \in Slots : req[i] = Free /\ req' = [req EXCEPT ![i] =
        IF on = {} THEN Free
        ELSE [op |-> "unsubscribe", on |-> on, call |-> Leaving, lost |-> FALSE]]
  /\ UNCHANGED <<call, subs, handlers, boots, held>>

(* conference-liveArray-part: what is not subscribed now is not unsubscribed.*)
Part ==
  LET on == {ch \in Channels : subs[ch] # Absent} IN
  /\ member # None
  /\ member' = None
  /\ IF on = {} THEN UNCHANGED req
     ELSE \E i \in Slots :
            /\ req[i] = Free
            /\ req' = [req EXCEPT ![i] =
                 [op |-> "unsubscribe", on |-> on, call |-> Leaving, lost |-> FALSE]]
  /\ UNCHANGED <<call, channels, subs, handlers, boots, held>>

(* The answer to verto.subscribe: the channel is subscribed, it was before   *)
(* (then no callback is registered), or it is refused.                       *)
Subscribed(i) ==
  /\ req[i].op = "subscribe" /\ ~req[i].lost
  /\ \E ch \in req[i].on \ held :
       /\ held' = held \cup {ch}
       /\ handlers' = HandlersWith(ch, req[i].call)
       /\ Follows(i, ch, req[i].call, SubsWith(ch), TRUE)
  /\ UNCHANGED <<call, member>>

AlreadySubscribed(i) ==
  /\ req[i].op = "subscribe" /\ ~req[i].lost
  /\ \E ch \in req[i].on \cap held : Follows(i, ch, req[i].call, subs, TRUE)
  /\ UNCHANGED <<call, handlers, member, held>>

Unauthorized(i) ==
  /\ req[i].op = "subscribe" /\ ~req[i].lost
  /\ \E ch \in req[i].on :
       /\ handlers' = HandlersWithout({ch})
       /\ Follows(i, ch, req[i].call, SubsWithout({ch}), FALSE)
  /\ UNCHANGED <<call, member, held>>

(* The answer to verto.unsubscribe lists every channel, as unsubscribed or   *)
(* as not subscribed.                                                        *)
UnsubscribeAnswered(i) ==
  /\ req[i].op = "unsubscribe" /\ ~req[i].lost
  /\ subs' = SubsWithout(req[i].on)
  /\ handlers' = HandlersWithout(req[i].on)
  /\ channels' = [c \in Calls |-> IF c = req[i].call
                                    THEN channels[c] \ (req[i].on \cap held)
                                    ELSE channels[c]]
  /\ held' = held \ req[i].on
  /\ req' = [req EXCEPT ![i] = Free]
  /\ UNCHANGED <<call, boots, member>>

(* An error, or ten seconds without an answer.                               *)
SubscribeFails(i) ==
  /\ req[i].op = "subscribe"
  /\ \E ch \in req[i].on : Follows(i, ch, req[i].call, subs, FALSE)
  /\ UNCHANGED <<call, handlers, member, held>>

UnsubscribeFails(i) ==
  /\ req[i].op = "unsubscribe"
  /\ req' = [req EXCEPT ![i] = Free]
  /\ UNCHANGED <<call, channels, subs, handlers, boots, member, held>>

----------------------------------------------------------------------------
\* MUTANT: the call that joined last.
HeardByMember(c) == handlers[LiveArray] # <<>> /\ c = member

(* The call that a packet of the live array is for: the callback's.          *)
Heard(c) == handlers[LiveArray] # <<>> /\ c = Head(handlers[LiveArray])

(* A packet of the live array (HandledOnce: it has one callback).            *)
Packet(c) ==
  /\ LiveArray \in held /\ Heard(c) /\ call[c] = "live"
  /\ subs' = Claimed(subs, LiveArray, c)
  /\ channels' = [channels EXCEPT ![c] = @ \cup {LiveArray}]
  /\ UNCHANGED <<call, handlers, member, held>>

Update(c) == Packet(c) /\ UNCHANGED <<req, boots>>

(* ... its content: bootObj.                                                 *)
Boot(c) ==
  /\ boots > 0 /\ boots' = boots - 1
  /\ Packet(c)
  /\ \E i \in Slots : \E r \in NextExtra(1, c, subs) :
       req[i] = Free /\ req' = [req EXCEPT ![i] = r]

(* Nobody is there to receive it.                                            *)
BootUnheard ==
  /\ boots > 0 /\ boots' = boots - 1
  /\ \A c \in Calls : Heard(c) => call[c] # "live"
  /\ UNCHANGED <<call, channels, subs, handlers, req, member, held>>

----------------------------------------------------------------------------
(* BaseSession._onSocketCloseOrError.  The server may keep the session with  *)
(* its calls and subscriptions or not.                                       *)
Wiped == subs' = Unsubscribed /\ handlers' = Unhandled

Dropped ==
  /\ Wiped
  /\ req' = [i \in Slots |-> IF req[i] = Free THEN Free ELSE [req[i] EXCEPT !.lost = TRUE]]
  /\ boots' = 0
  /\ member' \in {member, None}
  /\ held' \in {held, {}}

SocketCloses == Dropped /\ UNCHANGED <<call, channels>>

(* The close event of an earlier socket comes when a new one is in use.      *)
LateClose == Wiped /\ UNCHANGED <<call, channels, req, boots, member, held>>

(* BrowserSession.disconnect.  The callbacks stay registered under the name  *)
(* of a protocol that is not used again.                                     *)
Disconnect ==
  /\ Dropped
  /\ call' = [c \in Calls |-> IF call[c] = "live" THEN "gone" ELSE call[c]]
  /\ UNCHANGED channels

Next ==
  \/ \E c \in Calls : CallStarts(c) \/ CallEnds(c) \/ Join(c) \/ Update(c) \/ Boot(c)
  \/ \E i \in Slots :
       \/ Subscribed(i) \/ AlreadySubscribed(i) \/ Unauthorized(i) \/ SubscribeFails(i)
       \/ UnsubscribeAnswered(i) \/ UnsubscribeFails(i)
  \/ Part \/ BootUnheard \/ SocketCloses \/ LateClose \/ Disconnect

Spec == Init /\ [][Next]_vars

----------------------------------------------------------------------------
(* A channel that is subscribed has one callback and one that is not has     *)
(* none, whatever requests overlap and wherever the connection closes:       *)
(* nothing is delivered twice, to a call that left, or to nobody             *)
(* (BaseSession._addSubscription, _removeSubscription).                      *)
HandledOnce ==
  \A ch \in Channels : Len(handlers[ch]) = IF subs[ch] = Absent THEN 0 ELSE 1

(* The call a channel is booked for lists it: the call is found from the     *)
(* channel and the channel from the call (BaseCall._addChannel,              *)
(* VertoHandler._retrieveCallId, the part of _handlePvtEvent).               *)
OwnerKnows ==
  \A ch \in Channels : subs[ch] \in Calls => ch \in channels[subs[ch]]

(* The call that is told that it left the conference is the one that         *)
(* received its updates (VertoHandler._handlePvtEvent, join and part).       *)
OwnerIsServed ==
  subs[LiveArray] \in Calls => handlers[LiveArray] = <<subs[LiveArray]>>
=============================================================================

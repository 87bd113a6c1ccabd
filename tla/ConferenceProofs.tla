-------------------------- MODULE ConferenceProofs --------------------------
(***************************************************************************)
(* Proofs about module Conference, for any calls, channels, requests in    *)
(* flight and bound on the contents asked for.  The inductive invariant is *)
(* the conjunction of the invariants that the run conference checks: that  *)
(* a subscribed channel has exactly one callback is what makes the call    *)
(* that hears a packet the one the channel is booked for.                  *)
(***************************************************************************)
EXTENDS Conference, TLAPS

IInv == TypeOK /\ HandledOnce /\ OwnerKnows /\ OwnerIsServed

LEMMA LiveArrayIsChannel == LiveArray \in Channels
  BY DEF Channels

LEMMA ExtrasAreChannels ==
  ASSUME NEW k \in DOMAIN Extras PROVE Extras[k] \in Channels
  BY DEF Channels

(* Every request of a chain is a request for a channel, or none.             *)
LEMMA NextExtraIsRequest ==
  ASSUME NEW k \in Nat, NEW c \in Calls, NEW s, NEW r \in NextExtra(k, c, s)
  PROVE  r \in Request \cup {Free}
  <1> DEFINE open == {j \in DOMAIN Extras : j >= k /\ s[Extras[j]] = Absent}
             first == {j \in open : \A i \in open : j <= i}
  <1>1. CASE r = Free
    BY <1>1
  <1>2. CASE r # Free
    <2>1. PICK j \in first : r = Subscribing(Extras[j], c)
      BY <1>2 DEF NextExtra
    <2>2. j \in DOMAIN Extras
      BY <2>1
    <2>3. Extras[j] \in Channels
      BY <2>2, ExtrasAreChannels
    <2> HIDE DEF first, open
    <2> QED BY <2>1, <2>3 DEF Subscribing, Request
  <1> QED BY <1>1, <1>2

(* The first state satisfies the invariant.                                  *)
LEMMA InitInv == Init => IInv
  <1> SUFFICES ASSUME Init PROVE IInv
    OBVIOUS
  <1> USE LiveArrayIsChannel DEF Init
  <1>1. TypeOK
    BY BootsAssumption DEF TypeOK, Unsubscribed, Unhandled
  <1>2. HandledOnce
    BY DEF HandledOnce, Unsubscribed, Unhandled
  <1>3. OwnerKnows /\ OwnerIsServed
    BY NoneAssumption DEF OwnerKnows, OwnerIsServed, Unsubscribed
  <1> QED BY <1>1, <1>2, <1>3 DEF IInv

(* What follows an answer books a channel only for a call that lists it, and *)
(* leaves alone which channels are subscribed.                               *)
LEMMA FollowsKeeps ==
  ASSUME IInv,
         NEW i \in Slots, NEW ch \in Channels, NEW c \in Calls,
         NEW s \in [Channels -> Calls \cup {None, Absent}], NEW ok \in BOOLEAN,
         \A d \in Channels : s[d] \in Calls => s[d] = subs[d],
         Follows(i, ch, c, s, ok)
  PROVE  /\ channels' \in [Calls -> SUBSET Channels]
         /\ subs' \in [Channels -> Calls \cup {None, Absent}]
         /\ req' \in [Slots -> Request \cup {Free}]
         /\ boots' \in 0..MaxBoots
         /\ OwnerKnows'
         /\ \A d \in Channels : subs'[d] = Absent <=> s[d] = Absent
         /\ subs'[LiveArray] = s[LiveArray]
  <1> USE LiveArrayIsChannel DEF IInv
  <1>1. CASE ch = LiveArray
    <2>1. subs' = s /\ UNCHANGED channels /\ req' = [req EXCEPT ![i] = Free]
      BY <1>1 DEF Follows
    <2>2. boots' \in 0..MaxBoots
      BY <1>1, BootsAssumption DEF Follows, TypeOK
    <2> QED BY <2>1, <2>2 DEF TypeOK, OwnerKnows
  <1>2. CASE ch # LiveArray
    <2>1. /\ subs' = IF ok THEN Claimed(s, ch, c) ELSE s
          /\ channels' = IF ok THEN [channels EXCEPT ![c] = @ \cup {ch}] ELSE channels
          /\ UNCHANGED boots
      BY <1>2 DEF Follows
    <2>2. PICK k \in DOMAIN Extras : \E r \in NextExtra(k + 1, c, subs') :
            req' = [req EXCEPT ![i] = r]
      BY <1>2 DEF Follows
    <2>3. k + 1 \in Nat
      BY <2>2, ExtrasAssumption
    <2>4. NextExtra(k + 1, c, subs') \subseteq Request \cup {Free}
      BY <2>3, NextExtraIsRequest
    <2>5. req' \in [Slots -> Request \cup {Free}]
      BY <2>2, <2>4 DEF TypeOK
    <2>6. /\ channels' \in [Calls -> SUBSET Channels]
          /\ subs' \in [Channels -> Calls \cup {None, Absent}]
          /\ boots' \in 0..MaxBoots
      BY <2>1 DEF TypeOK, Claimed
    <2>7. /\ \A d \in Channels : subs'[d] = Absent <=> s[d] = Absent
          /\ subs'[LiveArray] = s[LiveArray]
      BY <1>2, <2>1, NoneAssumption DEF Claimed
    <2>8. OwnerKnows'
      BY <2>1 DEF OwnerKnows, TypeOK, Claimed
    <2> QED BY <2>5, <2>6, <2>7, <2>8
  <1> QED BY <1>1, <1>2

(* Adding and removing callbacks along with subscriptions.                   *)
LEMMA AddingKeepsHandled ==
  ASSUME TypeOK, HandledOnce, NEW ch \in Channels, NEW c \in Calls
  PROVE  /\ SubsWith(ch) \in [Channels -> Calls \cup {None, Absent}]
         /\ HandlersWith(ch, c) \in [Channels -> Seq(Calls)]
         /\ \A d \in Channels : Len(HandlersWith(ch, c)[d]) =
                                 IF SubsWith(ch)[d] = Absent THEN 0 ELSE 1
         /\ \A d \in Channels : SubsWith(ch)[d] \in Calls =>
               SubsWith(ch)[d] = subs[d] /\ HandlersWith(ch, c)[d] = handlers[d]
  <1>1. CASE subs[ch] # Absent
    BY <1>1 DEF TypeOK, HandledOnce, SubsWith, HandlersWith
  <1>2. CASE subs[ch] = Absent
    <2>1. handlers[ch] \in Seq(Calls) /\ Len(handlers[ch]) = 0
      BY <1>2 DEF TypeOK, HandledOnce
    <2>2. /\ Append(handlers[ch], c) \in Seq(Calls)
          /\ Len(Append(handlers[ch], c)) = 1
      BY <2>1
    <2>3. SubsWith(ch) = [subs EXCEPT ![ch] = None]
      BY <1>2 DEF SubsWith
    <2>4. HandlersWith(ch, c) = [handlers EXCEPT ![ch] = Append(handlers[ch], c)]
      BY <1>2 DEF HandlersWith
    <2>5. subs \in [Channels -> Calls \cup {None, Absent}] /\ handlers \in [Channels -> Seq(Calls)]
      BY DEF TypeOK
    <2>6. SubsWith(ch) \in [Channels -> Calls \cup {None, Absent}]
      BY <2>3, <2>5
    <2>7. HandlersWith(ch, c) \in [Channels -> Seq(Calls)]
      BY <2>2, <2>4, <2>5
    <2>8. ASSUME NEW d \in Channels
          PROVE  /\ Len(HandlersWith(ch, c)[d]) = IF SubsWith(ch)[d] = Absent THEN 0 ELSE 1
                 /\ SubsWith(ch)[d] \in Calls =>
                      SubsWith(ch)[d] = subs[d] /\ HandlersWith(ch, c)[d] = handlers[d]
      <3>1. CASE d = ch
        <4>1. SubsWith(ch)[d] = None
          BY <2>3, <2>5, <3>1
        <4>2. HandlersWith(ch, c)[d] = Append(handlers[ch], c)
          BY <2>4, <2>5, <3>1
        <4> QED BY <2>2, <4>1, <4>2, NoneAssumption
      <3>2. CASE d # ch
        <4>1. SubsWith(ch)[d] = subs[d] /\ HandlersWith(ch, c)[d] = handlers[d]
          BY <2>3, <2>4, <2>5, <3>2
        <4> QED BY <4>1 DEF HandledOnce
      <3> QED BY <3>1, <3>2
    <2> QED BY <2>6, <2>7, <2>8
  <1> QED BY <1>1, <1>2

LEMMA RemovingKeepsHandled ==
  ASSUME TypeOK, HandledOnce, NEW chs \in SUBSET Channels
  PROVE  /\ SubsWithout(chs) \in [Channels -> Calls \cup {None, Absent}]
         /\ HandlersWithout(chs) \in [Channels -> Seq(Calls)]
         /\ \A d \in Channels : Len(HandlersWithout(chs)[d]) =
                                 IF SubsWithout(chs)[d] = Absent THEN 0 ELSE 1
         /\ \A d \in Channels : SubsWithout(chs)[d] \in Calls =>
               /\ SubsWithout(chs)[d] = subs[d]
               /\ HandlersWithout(chs)[d] = handlers[d]
               /\ d \notin chs
  <1>1. SubsWithout(chs) \in [Channels -> Calls \cup {None, Absent}]
    BY DEF TypeOK, SubsWithout
  <1>2. HandlersWithout(chs) \in [Channels -> Seq(Calls)]
    <2>1. ASSUME NEW d \in Channels
          PROVE  (IF d \in chs /\ subs[d] # Absent THEN <<>> ELSE handlers[d]) \in Seq(Calls)
      BY DEF TypeOK
    <2> QED BY <2>1 DEF HandlersWithout
  <1>3. ASSUME NEW d \in Channels
        PROVE  /\ Len(HandlersWithout(chs)[d]) = IF SubsWithout(chs)[d] = Absent THEN 0 ELSE 1
               /\ SubsWithout(chs)[d] \in Calls =>
                    /\ SubsWithout(chs)[d] = subs[d]
                    /\ HandlersWithout(chs)[d] = handlers[d]
                    /\ d \notin chs
    <2>1. SubsWithout(chs)[d] = IF d \in chs THEN Absent ELSE subs[d]
      BY DEF SubsWithout
    <2>2. HandlersWithout(chs)[d] = IF d \in chs /\ subs[d] # Absent THEN <<>> ELSE handlers[d]
      BY DEF HandlersWithout
    <2>3. Len(handlers[d]) = IF subs[d] = Absent THEN 0 ELSE 1
      BY DEF HandledOnce
    <2>4. CASE d \in chs /\ subs[d] # Absent
      <3>1. HandlersWithout(chs)[d] = <<>>
        BY <2>2, <2>4
      <3>2. Len(HandlersWithout(chs)[d]) = 0
        BY <3>1
      <3> QED BY <2>1, <2>4, <3>2, NoneAssumption
    <2>5. CASE ~(d \in chs /\ subs[d] # Absent)
      BY <2>1, <2>2, <2>3, <2>5, NoneAssumption
    <2> QED BY <2>4, <2>5
  <1> QED BY <1>1, <1>2, <1>3

(* The steps that do not touch subscriptions, callbacks or channels.         *)
LEMMA QuietStep ==
  ASSUME IInv, UNCHANGED <<channels, subs, handlers, boots, held>>,
         call' \in [Calls -> {"none", "live", "gone"}],
         req' \in [Slots -> Request \cup {Free}],
         member' \in Calls \cup {None}
  PROVE  IInv'
  BY DEF IInv, TypeOK, HandledOnce, OwnerKnows, OwnerIsServed

(* Every answer to a subscription.                                           *)
LEMMA AnswerStep ==
  ASSUME IInv,
         NEW i \in Slots, NEW ch \in Channels, NEW c \in Calls,
         NEW s \in [Channels -> Calls \cup {None, Absent}], NEW ok \in BOOLEAN,
         Follows(i, ch, c, s, ok),
         UNCHANGED <<call, member>>, held' \in SUBSET Channels,
         handlers' \in [Channels -> Seq(Calls)],
         \A d \in Channels : Len(handlers'[d]) = IF s[d] = Absent THEN 0 ELSE 1,
         \A d \in Channels : s[d] \in Calls => s[d] = subs[d] /\ handlers'[d] = handlers[d]
  PROVE  IInv'
  <1>1. /\ channels' \in [Calls -> SUBSET Channels]
        /\ subs' \in [Channels -> Calls \cup {None, Absent}]
        /\ req' \in [Slots -> Request \cup {Free}]
        /\ boots' \in 0..MaxBoots
        /\ OwnerKnows'
        /\ \A d \in Channels : subs'[d] = Absent <=> s[d] = Absent
        /\ subs'[LiveArray] = s[LiveArray]
    BY FollowsKeeps
  <1>2. TypeOK'
    BY <1>1 DEF IInv, TypeOK
  <1>3. HandledOnce'
    BY <1>1 DEF HandledOnce
  <1>4. OwnerIsServed'
    BY <1>1, LiveArrayIsChannel DEF IInv, OwnerIsServed
  <1> QED BY <1>1, <1>2, <1>3, <1>4 DEF IInv

(* A packet of the live array books the channel for the call of its one      *)
(* callback.                                                                 *)
LEMMA PacketStep ==
  ASSUME IInv, NEW c \in Calls, Packet(c),
         req' \in [Slots -> Request \cup {Free}], boots' \in 0..MaxBoots
  PROVE  IInv'
  <1> USE LiveArrayIsChannel, NoneAssumption DEF IInv
  <1>1. subs[LiveArray] # Absent /\ handlers[LiveArray] = <<c>>
    BY DEF Packet, Heard, HandledOnce, TypeOK
  <1>2. subs' = [subs EXCEPT ![LiveArray] = c]
    BY <1>1 DEF Packet, Claimed
  <1>3. TypeOK'
    BY <1>2 DEF Packet, TypeOK
  <1>4. HandledOnce'
    BY <1>1, <1>2 DEF Packet, HandledOnce, TypeOK
  <1>5. OwnerKnows'
    BY <1>2 DEF Packet, OwnerKnows, TypeOK
  <1>6. OwnerIsServed'
    BY <1>1, <1>2 DEF Packet, OwnerIsServed, TypeOK
  <1> QED BY <1>3, <1>4, <1>5, <1>6

(* A closed connection leaves nothing subscribed.                            *)
LEMMA WipedStep ==
  ASSUME IInv, Wiped, UNCHANGED channels,
         call' \in [Calls -> {"none", "live", "gone"}],
         req' \in [Slots -> Request \cup {Free}], boots' \in 0..MaxBoots,
         member' \in Calls \cup {None}, held' \in SUBSET Channels
  PROVE  IInv'
  BY NoneAssumption, LiveArrayIsChannel
  DEF IInv, TypeOK, Wiped, Unsubscribed, Unhandled, HandledOnce, OwnerKnows, OwnerIsServed

LEMMA StepInv == IInv /\ [Next]_vars => IInv'
  <1> SUFFICES ASSUME IInv, [Next]_vars PROVE IInv'
    OBVIOUS
  <1>t. TypeOK /\ HandledOnce
    BY DEF IInv
  <1>1. ASSUME NEW c \in Calls, CallStarts(c) \/ CallEnds(c) PROVE IInv'
    BY <1>t, <1>1, QuietStep DEF CallStarts, CallEnds, TypeOK
  <1>2. ASSUME NEW c \in Calls, Join(c) PROVE IInv'
    <2>1. Subscribing(LiveArray, c) \in Request
      BY LiveArrayIsChannel DEF Subscribing, Request
    <2> QED BY <1>t, <1>2, <2>1, QuietStep DEF Join, TypeOK
  <1>3. ASSUME NEW c \in Calls, Update(c) PROVE IInv'
    BY <1>t, <1>3, PacketStep DEF Update, TypeOK
  <1>4. ASSUME NEW c \in Calls, Boot(c) PROVE IInv'
    <2>1. NextExtra(1, c, subs) \subseteq Request \cup {Free}
      BY NextExtraIsRequest
    <2>2. req' \in [Slots -> Request \cup {Free}]
      BY <1>t, <1>4, <2>1 DEF Boot, TypeOK
    <2>3. boots' \in 0..MaxBoots
      BY <1>t, <1>4, BootsAssumption DEF Boot, TypeOK
    <2> QED BY <1>4, <2>2, <2>3, PacketStep DEF Boot
  <1>5. ASSUME NEW i \in Slots, Subscribed(i) PROVE IInv'
    <2>1. PICK ch \in req[i].on \ held :
            /\ held' = held \cup {ch}
            /\ handlers' = HandlersWith(ch, req[i].call)
            /\ Follows(i, ch, req[i].call, SubsWith(ch), TRUE)
      BY <1>5 DEF Subscribed
    <2>2. ch \in Channels /\ req[i].call \in Calls
      BY <1>t, <1>5, <2>1 DEF Subscribed, TypeOK, Request, Free
    <2>3. UNCHANGED <<call, member>> /\ held' \in SUBSET Channels
      BY <1>t, <1>5, <2>1, <2>2 DEF Subscribed, TypeOK
    <2> DEFINE s == SubsWith(ch)
    <2>4. /\ s \in [Channels -> Calls \cup {None, Absent}]
          /\ handlers' \in [Channels -> Seq(Calls)]
          /\ \A d \in Channels : Len(handlers'[d]) = IF s[d] = Absent THEN 0 ELSE 1
          /\ \A d \in Channels :
               s[d] \in Calls => s[d] = subs[d] /\ handlers'[d] = handlers[d]
      BY <1>t, <2>1, <2>2, AddingKeepsHandled
    <2>5. Follows(i, ch, req[i].call, s, TRUE)
      BY <2>1
    <2> HIDE DEF s
    <2> QED BY <2>2, <2>3, <2>4, <2>5, AnswerStep
  <1>6. ASSUME NEW i \in Slots, AlreadySubscribed(i) PROVE IInv'
    <2>1. PICK ch \in req[i].on : Follows(i, ch, req[i].call, subs, TRUE)
      BY <1>6 DEF AlreadySubscribed
    <2>2. ch \in Channels /\ req[i].call \in Calls
      BY <1>t, <1>6, <2>1 DEF AlreadySubscribed, TypeOK, Request, Free
    <2> QED
      BY <1>t, <1>6, <2>1, <2>2, AnswerStep DEF AlreadySubscribed, TypeOK, HandledOnce
  <1>7. ASSUME NEW i \in Slots, SubscribeFails(i) PROVE IInv'
    <2>1. PICK ch \in req[i].on : Follows(i, ch, req[i].call, subs, FALSE)
      BY <1>7 DEF SubscribeFails
    <2>2. ch \in Channels /\ req[i].call \in Calls
      BY <1>t, <1>7, <2>1 DEF SubscribeFails, TypeOK, Request, Free
    <2> QED
      BY <1>t, <1>7, <2>1, <2>2, AnswerStep DEF SubscribeFails, TypeOK, HandledOnce
  <1>8. ASSUME NEW i \in Slots, Unauthorized(i) PROVE IInv'
    <2>1. PICK ch \in req[i].on :
            /\ handlers' = HandlersWithout({ch})
            /\ Follows(i, ch, req[i].call, SubsWithout({ch}), FALSE)
      BY <1>8 DEF Unauthorized
    <2>2. ch \in Channels /\ req[i].call \in Calls
      BY <1>t, <1>8, <2>1 DEF Unauthorized, TypeOK, Request, Free
    <2>3. UNCHANGED <<call, member>> /\ held' \in SUBSET Channels
      BY <1>t, <1>8 DEF Unauthorized, TypeOK
    <2> DEFINE one == {ch}
               s == SubsWithout(one)
    <2>4. one \in SUBSET Channels /\ handlers' = HandlersWithout(one)
      BY <2>1, <2>2
    <2>5. /\ s \in [Channels -> Calls \cup {None, Absent}]
          /\ handlers' \in [Channels -> Seq(Calls)]
          /\ \A d \in Channels : Len(handlers'[d]) = IF s[d] = Absent THEN 0 ELSE 1
          /\ \A d \in Channels :
               s[d] \in Calls => s[d] = subs[d] /\ handlers'[d] = handlers[d]
      <3> HIDE DEF one
      <3> QED BY <1>t, <2>4, RemovingKeepsHandled
    <2>6. Follows(i, ch, req[i].call, s, FALSE)
      BY <2>1
    <2> HIDE DEF s
    <2> QED BY <2>2, <2>3, <2>5, <2>6, AnswerStep
  <1>9. ASSUME NEW i \in Slots, UnsubscribeAnswered(i) PROVE IInv'
    <2> DEFINE chs == req[i].on
    <2>1. chs \in SUBSET Channels
      <3>1. req[i] \in Request
        BY <1>t, <1>9 DEF UnsubscribeAnswered, TypeOK, Free
      <3> QED BY <3>1 DEF Request
    <2>2. /\ subs' = SubsWithout(chs) /\ handlers' = HandlersWithout(chs)
          /\ channels' = [c \in Calls |-> IF c = req[i].call
                            THEN channels[c] \ (chs \cap held) ELSE channels[c]]
          /\ held' = held \ chs /\ req' = [req EXCEPT ![i] = Free]
          /\ UNCHANGED <<call, boots, member>>
      BY <1>9 DEF UnsubscribeAnswered
    <2> HIDE DEF chs
    <2>3. /\ subs' \in [Channels -> Calls \cup {None, Absent}]
          /\ handlers' \in [Channels -> Seq(Calls)]
          /\ HandledOnce'
          /\ \A d \in Channels : subs'[d] \in Calls =>
                subs'[d] = subs[d] /\ handlers'[d] = handlers[d] /\ d \notin chs
      BY <1>t, <2>1, <2>2, RemovingKeepsHandled DEF HandledOnce
    <2>4. TypeOK'
      BY <1>t, <2>2, <2>3 DEF TypeOK
    <2>5. OwnerKnows'
      BY <2>2, <2>3 DEF IInv, OwnerKnows
    <2>6. OwnerIsServed'
      BY <2>3, LiveArrayIsChannel DEF IInv, OwnerIsServed
    <2> QED BY <2>3, <2>4, <2>5, <2>6 DEF IInv
  <1>10. ASSUME NEW i \in Slots, UnsubscribeFails(i) PROVE IInv'
    BY <1>t, <1>10, QuietStep DEF UnsubscribeFails, TypeOK
  <1>11. ASSUME Part PROVE IInv'
    <2> DEFINE on == {ch \in Channels : subs[ch] # Absent}
               r == [op |-> "unsubscribe", on |-> on, call |-> Leaving, lost |-> FALSE]
    <2>1. Leaving \in Calls \cup {None}
      BY DEF Leaving
    <2>2. r \in Request
      BY <2>1 DEF Request
    <2>3. req' = req \/ \E i \in Slots : req' = [req EXCEPT ![i] = r]
      BY <1>11 DEF Part
    <2> HIDE DEF r
    <2>4. req' \in [Slots -> Request \cup {Free}]
      BY <1>t, <2>2, <2>3 DEF TypeOK
    <2> QED BY <1>t, <1>11, <2>4, QuietStep DEF Part, TypeOK
  <1>12. ASSUME BootUnheard PROVE IInv'
    <2>1. boots' \in 0..MaxBoots
      BY <1>t, <1>12, BootsAssumption DEF BootUnheard, TypeOK
    <2> QED
      BY <1>12, <2>1
      DEF BootUnheard, IInv, TypeOK, HandledOnce, OwnerKnows, OwnerIsServed
  <1>13. ASSUME Dropped PROVE req' \in [Slots -> Request \cup {Free}]
    <2>1. ASSUME NEW i \in Slots, req[i] # Free
          PROVE  [req[i] EXCEPT !.lost = TRUE] \in Request
      BY <1>t, <2>1 DEF TypeOK, Request
    <2> QED BY <1>13, <2>1 DEF Dropped
  <1>14. ASSUME SocketCloses PROVE IInv'
    BY <1>t, <1>13, <1>14, BootsAssumption, WipedStep DEF SocketCloses, Dropped, TypeOK
  <1>15. ASSUME LateClose PROVE IInv'
    BY <1>t, <1>15, WipedStep DEF LateClose, TypeOK
  <1>16. ASSUME Disconnect PROVE IInv'
    BY <1>t, <1>13, <1>16, BootsAssumption, WipedStep DEF Disconnect, Dropped, TypeOK
  <1>17. CASE UNCHANGED vars
    BY <1>17 DEF vars, IInv, TypeOK, HandledOnce, OwnerKnows, OwnerIsServed
  <1> QED
    BY <1>1, <1>2, <1>3, <1>4, <1>5, <1>6, <1>7, <1>8, <1>9, <1>10, <1>11, <1>12,
       <1>14, <1>15, <1>16, <1>17 DEF Next

LEMMA Invariant == Spec => []IInv
  BY InitInv, StepInv, PTL DEF Spec

(* The state stays in its types.                                             *)
THEOREM TypeCorrect == Spec => []TypeOK
  BY Invariant, PTL DEF IInv

(* A subscribed channel has exactly one callback, any other none             *)
(* (BaseSession._addSubscription, _removeSubscription), for any calls and    *)
(* channels, any overlap of requests and any loss of the connection.         *)
THEOREM OneCallbackPerChannel == Spec => []HandledOnce
  BY Invariant, PTL DEF IInv

(* A call lists every channel that is booked for it (BaseCall._addChannel),  *)
(* although what is unsubscribed is taken off a call chosen before the await.*)
THEOREM OwnersListTheirChannels == Spec => []OwnerKnows
  BY Invariant, PTL DEF IInv

(* The call that is told that it left is the one that heard the updates      *)
(* (VertoHandler._handlePvtEvent).                                           *)
THEOREM OwnersHearTheirConference == Spec => []OwnerIsServed
  BY Invariant, PTL DEF IInv
=============================================================================

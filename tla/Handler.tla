------------------------------- MODULE Handler -------------------------------
(***************************************************************************)
(* The event registry (packages/common/src/services/Handler.ts) through    *)
(* which socket events, answers and notifications reach their receivers.   *)
(* One event is modelled; lists of different events share nothing.         *)
(*                                                                         *)
(* trigger() walks a list from its end to its beginning and calls what it  *)
(* finds; the callbacks it calls may register, deregister and trigger, so  *)
(* that the list changes under the walk and walks nest.                    *)
(*                                                                         *)
(* Callbacks are pushed at the end of a list and spliced out of it: a list *)
(* is always in the order of registration.  A registration is therefore    *)
(* its number, a list the set of its registrations, and an index the rank  *)
(* of a number in that set (counted from 1).                               *)
(***************************************************************************)
EXTENDS Naturals, Sequences, FiniteSets

CONSTANTS
  Callbacks, \* functions of the application and of the SDK
  Ids,       \* unique ids under which the event has lists
  GLOBAL,    \* the default unique id
  MaxRegs,   \* bound: registrations
  MaxDepth   \* bound: walks nested in each other

ASSUME IdsAssumption   == GLOBAL \in Ids
ASSUME BoundAssumption == MaxRegs \in Nat /\ MaxDepth \in Nat

VARIABLES
  regs,   \* the registrations there were: the function, whether registerOnce wraps
          \* it and, as history, how often it was called if so (2: more than once)
  queue,  \* queue[eventName]: the list of each id, {} when there is none
  walks   \* the loops of trigger() under way, the innermost last

vars == <<regs, queue, walks>>

Registration == [cb : Callbacks, once : BOOLEAN, calls : 0 .. 2]

(* A walk: its list, the index it visits next, whether GLOBAL follows;       *)
(* history: who stayed in the list since it began, whom it called, and       *)
(* whether all that were removed had been visited or were new.               *)
Walks == [id : Ids, next : 0 .. MaxRegs, propagate : BOOLEAN,
          stayed : SUBSET (1 .. MaxRegs), heard : SUBSET (1 .. MaxRegs),
          intact : BOOLEAN]

TypeOK ==
  /\ regs \in Seq(Registration) /\ Len(regs) <= MaxRegs
  /\ queue \in [Ids -> SUBSET DOMAIN regs]
  /\ walks \in Seq(Walks)

Init ==
  /\ regs = <<>>
  /\ queue = [i \in Ids |-> {}]
  /\ walks = <<>>

------------------------------------------------------------------------------
(* Lists and walks.                                                          *)

Rank(S, r)  == Cardinality({q \in S : q <= r})
Inner       == walks[Len(walks)]
Outer       == SubSeq(walks, 1, Len(walks) - 1)

(* The application's code, and the SDK's, runs between events and in a        *)
(* callback that is being called.                                             *)
CodeRuns == IF walks = <<>> THEN TRUE ELSE Inner.heard # {}

(* The walks ws once the registrations R are taken off their lists. *)
Bereft(ws, R) ==
  [k \in DOMAIN ws |->
     [ws[k] EXCEPT
        !.stayed = @ \ R,
        !.intact = @ /\ \A r \in R \cap queue[ws[k].id] :
                            Rank(queue[ws[k].id], r) > ws[k].next]]

(* Mutant: the loop starts one past the end. *)
NewWalkPastEnd(id, propagate) ==
  [id |-> id, next |-> Cardinality(queue[id]) + 1, propagate |-> propagate,
   stayed |-> queue[id], heard |-> {}, intact |-> TRUE]

(* for (let i = len - 1; i >= 0; i--), len being read before. *)
NewWalk(id, propagate) ==
  [id |-> id, next |-> Cardinality(queue[id]), propagate |-> propagate,
   stayed |-> queue[id], heard |-> {}, intact |-> TRUE]

------------------------------------------------------------------------------
(* register(), and registerOnce(), which wraps the callback first. *)
Register(c, id, once) ==
  /\ CodeRuns
  /\ Len(regs) < MaxRegs
  /\ regs' = Append(regs, [cb |-> c, once |-> once, calls |-> 0])
  /\ queue' = [queue EXCEPT ![id] = @ \cup {Len(regs) + 1}]
  /\ UNCHANGED walks

(* deRegister() with a callback: every entry that is it or wraps it goes. *)
DeRegister(c, id) ==
  LET R == {r \in queue[id] : regs[r].cb = c} IN
  /\ CodeRuns
  /\ R # {}
  /\ queue' = [queue EXCEPT ![id] = @ \ R]
  /\ walks' = Bereft(walks, R)
  /\ UNCHANGED regs

(* deRegister() without one empties the list. *)
DeRegisterList(id) ==
  /\ CodeRuns
  /\ queue[id] # {}
  /\ queue' = [queue EXCEPT ![id] = {}]
  /\ walks' = Bereft(walks, queue[id])
  /\ UNCHANGED regs

(* deRegisterAll(): the event is forgotten. *)
DeRegisterAll ==
  /\ CodeRuns
  /\ queue' = [i \in Ids |-> {}]
  /\ walks' = Bereft(walks, UNION {queue[i] : i \in Ids})
  /\ UNCHANGED regs

(* trigger() up to its loop: without a list of its own the id is passed over  *)
(* for GLOBAL, unless propagation is off.  Without either nothing happens.    *)
Trigger(id, propagation) ==
  LET propagate == propagation /\ id # GLOBAL IN
  /\ CodeRuns
  /\ Len(walks) < MaxDepth
  /\ \/ /\ queue[id] # {}
        /\ walks' = Append(walks, NewWalk(id, propagate))
     \/ /\ queue[id] = {} /\ propagate /\ queue[GLOBAL] # {}
        /\ walks' = Append(walks, NewWalk(GLOBAL, FALSE))
  /\ UNCHANGED <<regs, queue>>

(* Mutant: the loop goes up. *)
IndexAscending(w) == Cardinality(w.heard) + 1

(* The index the loop of walk w looks at. *)
Index(w) == w.next

(* Mutant: the wrapper of registerOnce() deregisters without the unique id. *)
OnceFromGlobal(id, r) == IF regs[r].once /\ id = GLOBAL THEN {r} ELSE {}

(* What the wrapper of registerOnce() deregisters before it calls. *)
OnceGone(id, r) == IF regs[r].once THEN {r} ELSE {}

Called(reg) == IF ~reg.once THEN 0 ELSE IF reg.calls = 0 THEN 1 ELSE 2

(* One round of the loop: the callback called before has returned, the next   *)
(* one is called.                                                             *)
Visit ==
  /\ walks # <<>>
  /\ Inner.next > 0
  /\ \E r \in queue[Inner.id] :
       /\ Rank(queue[Inner.id], r) = Index(Inner)
       /\ regs' = [regs EXCEPT ![r].calls = Called(regs[r])]
       /\ LET gone == OnceGone(Inner.id, r)
              w    == [Inner EXCEPT !.next = @ - 1, !.heard = @ \cup {r}]
          IN  /\ queue' = [queue EXCEPT ![Inner.id] = @ \ gone]
              /\ walks' = Bereft(Append(Outer, w), gone)

(* The loop is over; GLOBAL follows. *)
WalkEnds ==
  /\ walks # <<>>
  /\ Inner.next = 0
  /\ walks' = IF Inner.propagate /\ queue[GLOBAL] # {}
                THEN Append(Outer, NewWalk(GLOBAL, FALSE)) ELSE Outer
  /\ UNCHANGED <<regs, queue>>

(* An exception passes through the walks up to the callback that catches it,  *)
(* if any: trigger() does not.                                                *)
Unwind ==
  /\ \E k \in 0 .. Len(walks) - 1 : walks' = SubSeq(walks, 1, k)
  /\ UNCHANGED <<regs, queue>>

(* The list became shorter than the index: what is there is no function. *)
TypeErrorThrown ==
  /\ walks # <<>>
  /\ Inner.next > Cardinality(queue[Inner.id])
  /\ Unwind

(* A callback throws. *)
CallbackThrows ==
  /\ walks # <<>>
  /\ Inner.heard # {}
  /\ Unwind

------------------------------------------------------------------------------
Next ==
  \/ \E c \in Callbacks, id \in Ids, once \in BOOLEAN : Register(c, id, once)
  \/ \E c \in Callbacks, id \in Ids : DeRegister(c, id)
  \/ \E id \in Ids : DeRegisterList(id)
  \/ DeRegisterAll
  \/ \E id \in Ids, propagation \in BOOLEAN : Trigger(id, propagation)
  \/ Visit \/ WalkEnds \/ TypeErrorThrown \/ CallbackThrows

Spec == Init /\ [][Next]_vars

------------------------------------------------------------------------------
(* What must hold, whatever the callbacks do to the lists they are called     *)
(* from.                                                                      *)

(* A callback registered with registerOnce() is called at most once, although *)
(* it may itself trigger the event, or another walk be half through its list. *)
(* Every answer to a request is settled this way (Connection.ts:89).          *)
OnceIsOnce == \A r \in DOMAIN regs : regs[r].once => regs[r].calls <= 1

(* trigger() walks down so that removals cannot hide a callback from it: a    *)
(* walk that reaches its end has called whoever stayed in the list from its   *)
(* beginning, whatever others removed.                                        *)
StayersHeard ==
  \A k \in DOMAIN walks : walks[k].next = 0 => walks[k].stayed \subseteq walks[k].heard

(* A walk calls a callback twice, or finds none at its index (a TypeError     *)
(* that cuts it short), only if an entry it had not reached yet was removed   *)
(* from its list: a callback that removes itself, or adds others, is safe.    *)
IntactWalk ==
  \A k \in DOMAIN walks : walks[k].intact =>
    LET S == queue[walks[k].id] IN
    /\ walks[k].next <= Cardinality(S)
    /\ \A r \in S : Rank(S, r) <= walks[k].next => r \notin walks[k].heard
=============================================================================

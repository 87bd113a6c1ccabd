---------------------------- MODULE CallingProofs ----------------------------
(***************************************************************************)
(* Proofs about Calling, for any number of Call objects and of calls at    *)
(* the server: a notification reaches the object the application holds,    *)
(* which follows its call and never goes back; dials are settled as the    *)
(* server settled them, once, and so are operations of module Operations;  *)
(* ended calls leave the list.                                             *)
(***************************************************************************)
EXTENDS Calling, TLAPS, WellFoundedInduction, SequenceTheorems

------------------------------------------------------------------------------
(* The inductive invariant.                                                   *)

Listed(o)    == \E i \in DOMAIN calls : calls[i] = o
Before(o, p) == \E i, j \in DOMAIN calls : i < j /\ calls[i] = o /\ calls[j] = p
Mine(o)      == obj[o].owner = "application"

NoDuplicates == \A i, j \in DOMAIN calls : calls[i] = calls[j] => i = j

(* The list holds the objects that were made and did not see their end.       *)
ListIsAccurate ==
  \A o \in Objs : Listed(o) <=> obj[o].owner # "none" /\ obj[o].state # "ended"

(* An object that has an id is about a call of the server ...                 *)
IdIsKnown ==
  \A o \in Objs : obj[o].id # None =>
    /\ ~obj[o].multi /\ obj[o].owner # "none"
    /\ leg[obj[o].id].state # "none"
    /\ Mine(o) => leg[obj[o].id].tag = o
    /\ obj[o].owner = "inbound" => leg[obj[o].id].tag = None
    /\ obj[o].state = "ended" => leg[obj[o].id].state = "ended"

(* ... and one that has none is dialing, or unused.                           *)
NoIdYet ==
  \A o \in Objs : obj[o].id = None =>
    obj[o].state = "none" /\ (obj[o].owner = "none" \/ Mine(o))

(* Two objects of one call: the application dialed one of them.               *)
OneIsMine ==
  \A o, p \in Objs : o # p /\ obj[o].id # None /\ obj[o].id = obj[p].id =>
    Mine(o) \/ Mine(p)

(* It is in the list before those made for its legs.                          *)
MineIsFirst ==
  \A o, p \in Objs :
    Mine(o) /\ ~Mine(p) /\ Listed(o) /\ Listed(p)
      /\ obj[p].id # None /\ leg[obj[p].id].tag = o => Before(o, p)

(* The dial of an object and the dial at the server.                          *)
DialsAgree ==
  \A o \in Objs :
    /\ obj[o].dial = "none" <=> dialing[o] = "no"
    /\ obj[o].dial = "none" <=> obj[o].request = "none"
    /\ obj[o].dial # "none" => Mine(o)
    /\ obj[o].request = "failed" => obj[o].dial = "failed"
    /\ dialing[o] = "dialing" =>
         \/ obj[o].dial = "waiting"
         \/ obj[o].dial = "failed" /\ (obj[o].state = "ended" \/ obj[o].request = "failed")
    /\ dialing[o] = "dialing" /\ ~obj[o].multi => \A l \in LegsOf(o) : l = obj[o].id
    /\ obj[o].dial = "waiting" => dialing[o] = "dialing" /\ obj[o].state # "ended"

(* What the server has of a call belongs to a dial that was begun, and until  *)
(* it ends there is an object for it in the list.                             *)
LegsAreKnown ==
  \A l \in Legs :
    /\ leg[l].tag # None => leg[l].state # "none" /\ dialing[leg[l].tag] # "no"
    /\ leg[l].state \notin {"none", "ended"} => \E o \in Objs : Listed(o) /\ obj[o].id = l

(* EndedIsForgotten, said of objects. *)
ListedHasLeg ==
  \A o \in Objs :
    Listed(o) /\ obj[o].id # None /\ leg[obj[o].id].state = "ended" =>
      \E p \in Objs \ {o} : Mine(p) /\ obj[p].id = obj[o].id

IInv ==
  /\ TypeOK
  /\ NoDuplicates /\ ListIsAccurate
  /\ IdIsKnown /\ NoIdYet
  /\ OneIsMine /\ MineIsFirst
  /\ DialsAgree /\ DialIsSettled
  /\ LegsAreKnown
  /\ FollowsItsLeg /\ ListedHasLeg

------------------------------------------------------------------------------
(* The list.                                                                 *)

LEMMA LeastExists ==
  ASSUME NEW S \in SUBSET Nat, S # {}
  PROVE  Min(S) \in S /\ \A i \in S : Min(S) <= i
  <1> DEFINE R == OpToRel(<, Nat)
  <1>1. IsWellFoundedOn(R, Nat)
    BY NatLessThanWellFounded
  <1>2. \A i, j \in S : <<j, i>> \in R <=> j < i
    BY DEF OpToRel
  <1> HIDE DEF R
  <1>3. PICK i \in S : \A j \in S : ~(<<j, i>> \in R)
    BY <1>1, WFMin
  <1>4. \A j \in S : ~(j < i) /\ i \in Nat /\ j \in Nat
    BY <1>2, <1>3
  <1>5. \A j \in S : i <= j
    BY <1>4
  <1> QED
    BY <1>5 DEF Min

(* getCallById() finds the first of the objects that have the id.             *)
LEMMA FoundById ==
  ASSUME TypeOK, NEW l \in Legs
  PROVE  \/ /\ CallById(l) = None
            /\ \A o \in Objs : Listed(o) => obj[o].id # l
         \/ /\ CallById(l) \in Objs /\ Listed(CallById(l)) /\ obj[CallById(l)].id = l
            /\ \A o \in Objs : Listed(o) /\ obj[o].id = l /\ o # CallById(l) =>
                                 Before(CallById(l), o)
  <1> DEFINE at == {i \in DOMAIN calls : obj[calls[i]].id = l}
  <1>0. calls \in Seq(Objs) /\ DOMAIN calls \subseteq Nat /\ None \notin Objs
    BY NoneAssumption DEF TypeOK
  <1>1. CASE at = {}
    BY <1>1 DEF CallById, FirstOf, Listed
  <1>2. CASE at # {}
    <2>1. Min(at) \in at /\ \A i \in at : Min(at) <= i
      BY <1>0, <1>2, LeastExists
    <2>2. CallById(l) = calls[Min(at)]
      BY <1>2 DEF CallById, FirstOf
    <2> DEFINE m == Min(at)
    <2> HIDE DEF m
    <2>3. m \in DOMAIN calls /\ obj[calls[m]].id = l /\ CallById(l) = calls[m]
      BY <2>1, <2>2 DEF m
    <2>4. \A i \in DOMAIN calls : obj[calls[i]].id = l => m <= i
      BY <2>1 DEF m
    <2>5. calls[m] \in Objs
      BY <1>0, <2>3
    <2>6. ASSUME NEW o \in Objs, Listed(o), obj[o].id = l, o # calls[m]
          PROVE  Before(calls[m], o)
      <3>1. PICK i \in DOMAIN calls : calls[i] = o
        BY <2>6 DEF Listed
      <3>2. m < i
        BY <1>0, <2>3, <2>4, <2>6, <3>1
      <3> QED
        BY <2>3, <3>1, <3>2 DEF Before
    <2> QED
      BY <2>3, <2>5, <2>6 DEF Listed
  <1> QED
    BY <1>1, <1>2

(* getCallByTag() finds the object itself, if it is in the list.              *)
LEMMA FoundByTag ==
  ASSUME TypeOK, NEW o
  PROVE  CallByTag(o) = IF Listed(o) THEN o ELSE None
  <1> DEFINE at == {i \in DOMAIN calls : calls[i] = o}
  <1>0. DOMAIN calls \subseteq Nat
    BY DEF TypeOK
  <1>1. CASE at = {}
    BY <1>1 DEF CallByTag, FirstOf, Listed
  <1>2. CASE at # {}
    <2>1. Min(at) \in at
      BY <1>0, <1>2, LeastExists
    <2>2. CallByTag(o) = calls[Min(at)]
      BY <1>2 DEF CallByTag, FirstOf
    <2> QED
      BY <2>1, <2>2 DEF Listed
  <1> QED
    BY <1>1, <1>2

(* addCall() puts an object behind the others.                                *)
LEMMA AddedToList ==
  ASSUME TypeOK, NoDuplicates, NEW o \in Objs, ~Listed(o), calls' = Added(o)
  PROVE  /\ calls' \in Seq(Objs)
         /\ NoDuplicates'
         /\ \A p : Listed(p)' <=> Listed(p) \/ p = o
         /\ \A p, q : Before(p, q) => Before(p, q)'
         /\ \A p : Listed(p) => Before(p, o)'
  <1> DEFINE n == Len(calls) + 1
  <1>1. /\ calls \in Seq(Objs) /\ calls' \in Seq(Objs)
        /\ DOMAIN calls = 1 .. Len(calls) /\ DOMAIN calls' = 1 .. n
        /\ Len(calls) \in Nat
        /\ \A i \in DOMAIN calls : calls'[i] = calls[i]
        /\ calls'[n] = o
    BY DEF TypeOK, Added
  <1>2. \A i \in DOMAIN calls' : i \in DOMAIN calls \/ i = n
    BY <1>1
  <1>3. \A i \in DOMAIN calls : i \in DOMAIN calls' /\ i < n
    BY <1>1
  <1>4. n \in DOMAIN calls'
    BY <1>1
  <1> HIDE DEF n
  <1>5. NoDuplicates'
    BY <1>1, <1>2 DEF NoDuplicates, Listed
  <1>6. \A p : Listed(p)' <=> Listed(p) \/ p = o
    BY <1>1, <1>2, <1>3, <1>4 DEF Listed
  <1>7. \A p, q : Before(p, q) => Before(p, q)'
    BY <1>1, <1>3 DEF Before
  <1>8. \A p : Listed(p) => Before(p, o)'
    BY <1>1, <1>3, <1>4 DEF Before, Listed
  <1> QED
    BY <1>1, <1>5, <1>6, <1>7, <1>8

(* What splice(k, 1) leaves.                                                  *)
LEMMA Spliced ==
  ASSUME NEW S, NEW s \in Seq(S), NEW k \in 1 .. Len(s)
  PROVE  /\ RemoveAt(s, k) \in Seq(S)
         /\ Len(RemoveAt(s, k)) = Len(s) - 1
         /\ \A i \in 1 .. (Len(s) - 1) : RemoveAt(s, k)[i] = s[IF i < k THEN i ELSE i + 1]
  <1> DEFINE head == SubSeq(s, 1, k - 1)
             tail == SubSeq(s, k + 1, Len(s))
             rest == head \o tail
  <1>0. /\ Len(s) \in Nat /\ k \in Int /\ k - 1 \in Int /\ k + 1 \in Int
        /\ Len(s) \in Int /\ 1 \in Int
        /\ \A i \in 1 .. (k - 1) : s[i] \in S
        /\ \A i \in (k + 1) .. Len(s) : s[i] \in S
    OBVIOUS
  <1>1. /\ head \in Seq(S) /\ Len(head) = k - 1
        /\ \A i \in 1 .. (k - 1) : head[i] = s[i]
    <2>1. /\ head \in Seq(S)
          /\ Len(head) = IF 1 <= k - 1 THEN k - 1 - 1 + 1 ELSE 0
          /\ \A i \in 1 .. k - 1 - 1 + 1 : head[i] = s[1 + i - 1]
      BY <1>0, SubSeqProperties
    <2> HIDE DEF head
    <2> QED
      BY <1>0, <2>1
  <1>2. /\ tail \in Seq(S) /\ Len(tail) = Len(s) - k
        /\ \A i \in 1 .. (Len(s) - k) : tail[i] = s[k + i]
    <2>1. /\ tail \in Seq(S)
          /\ Len(tail) = IF k + 1 <= Len(s) THEN Len(s) - (k + 1) + 1 ELSE 0
          /\ \A i \in 1 .. Len(s) - (k + 1) + 1 : tail[i] = s[k + 1 + i - 1]
      BY <1>0, SubSeqProperties
    <2> HIDE DEF tail
    <2>2. Len(tail) = Len(s) - k
      BY <1>0, <2>1
    <2>3. ASSUME NEW i \in 1 .. (Len(s) - k)
          PROVE  tail[i] = s[k + i]
      <3>1. i \in 1 .. Len(s) - (k + 1) + 1 /\ k + 1 + i - 1 = k + i
        BY <1>0
      <3> QED
        BY <2>1, <3>1
    <2> QED
      BY <2>1, <2>2, <2>3
  <1>3. RemoveAt(s, k) = rest
    BY DEF RemoveAt
  <1> HIDE DEF head, tail
  <1>4. /\ rest \in Seq(S) /\ Len(rest) = Len(head) + Len(tail)
        /\ \A i \in 1 .. Len(head) + Len(tail) :
             rest[i] = IF i <= Len(head) THEN head[i] ELSE tail[i - Len(head)]
    BY <1>1, <1>2, ConcatProperties
  <1> HIDE DEF rest
  <1>5. Len(head) = k - 1 /\ Len(tail) = Len(s) - k /\ Len(rest) = Len(s) - 1
    BY <1>0, <1>1, <1>2, <1>4
  <1>6. ASSUME NEW i \in 1 .. (Len(s) - 1)
        PROVE  rest[i] = s[IF i < k THEN i ELSE i + 1]
    <2>1. /\ i \in Int
          /\ i <= k - 1 <=> i < k
          /\ i < k => i \in 1 .. (k - 1)
          /\ ~(i < k) => i - (k - 1) \in 1 .. (Len(s) - k) /\ k + (i - (k - 1)) = i + 1
          /\ i \in 1 .. (k - 1) + (Len(s) - k)
      BY <1>0
    <2>2. i \in 1 .. Len(head) + Len(tail)
      BY <1>5, <2>1
    <2>3. rest[i] = IF i <= Len(head) THEN head[i] ELSE tail[i - Len(head)]
      BY <1>4, <2>2
    <2>4. rest[i] = IF i < k THEN head[i] ELSE tail[i - (k - 1)]
      BY <1>5, <2>1, <2>3
    <2>5. CASE i < k
      BY <1>1, <2>1, <2>4, <2>5
    <2>6. CASE ~(i < k)
      <3>1. tail[i - (k - 1)] = s[k + (i - (k - 1))]
        BY <1>2, <2>1, <2>6
      <3> QED
        BY <2>1, <2>4, <2>6, <3>1
    <2> QED
      BY <2>5, <2>6
  <1> QED
    BY <1>3, <1>4, <1>5, <1>6

(* removeCall() takes one object out and keeps the order of the others.       *)
LEMMA RemovedFromList ==
  ASSUME TypeOK, NoDuplicates, NEW o \in Objs, Listed(o), calls' = Removed(o)
  PROVE  /\ calls' \in Seq(Objs)
         /\ NoDuplicates'
         /\ \A p : Listed(p)' <=> Listed(p) /\ p # o
         /\ \A p, q : Before(p, q) /\ p # o /\ q # o => Before(p, q)'
  <1> DEFINE at == {i \in DOMAIN calls : calls[i] = o}
             k  == Min(at)
             f(i) == IF i < k THEN i ELSE i - 1
             g(i) == IF i < k THEN i ELSE i + 1
  <1>0. calls \in Seq(Objs) /\ DOMAIN calls = 1 .. Len(calls) /\ Len(calls) \in Nat
    BY DEF TypeOK
  <1>1. at # {} /\ at \subseteq Nat
    BY <1>0 DEF Listed
  <1>2. k \in at
    BY <1>1, LeastExists
  <1>3. calls' = RemoveAt(calls, k)
    BY <1>1 DEF Removed
  <1>4. k \in 1 .. Len(calls) /\ calls[k] = o
    BY <1>0, <1>2
  <1> HIDE DEF at, k
  <1>5. /\ calls' \in Seq(Objs)
        /\ DOMAIN calls' = 1 .. (Len(calls) - 1)
        /\ \A i \in 1 .. (Len(calls) - 1) : calls'[i] = calls[g(i)]
    <2>1. /\ calls' \in Seq(Objs)
          /\ Len(calls') = Len(calls) - 1
          /\ \A i \in 1 .. (Len(calls) - 1) : calls'[i] = calls[IF i < k THEN i ELSE i + 1]
      BY <1>0, <1>3, <1>4, Spliced
    <2>2. DOMAIN calls' = 1 .. Len(calls')
      BY <2>1
    <2> QED
      BY <2>1, <2>2
  <1>6. \A i \in DOMAIN calls' : g(i) \in DOMAIN calls /\ g(i) # k
    BY <1>0, <1>4, <1>5
  <1>7. \A i, j \in DOMAIN calls' : g(i) = g(j) => i = j
    BY <1>0, <1>4, <1>5
  <1>8. \A i \in DOMAIN calls : i # k => f(i) \in DOMAIN calls' /\ g(f(i)) = i
    BY <1>0, <1>4, <1>5
  <1>9. \A i, j \in DOMAIN calls : i # k /\ j # k /\ i < j => f(i) < f(j)
    BY <1>0, <1>4, <1>5
  <1>10. \A i \in DOMAIN calls' : calls'[i] = calls[g(i)]
    BY <1>5
  <1> HIDE DEF f, g
  <1>11. \A i \in DOMAIN calls : i # k => calls'[f(i)] = calls[i]
    BY <1>8, <1>10
  <1>12. \A i \in DOMAIN calls : i # k <=> calls[i] # o
    BY <1>0, <1>4 DEF NoDuplicates
  <1>13. NoDuplicates'
    BY <1>6, <1>7, <1>10 DEF NoDuplicates
  <1>14. \A p : Listed(p)' <=> Listed(p) /\ p # o
    <2> TAKE p
    <2>1. ASSUME NEW i \in DOMAIN calls', calls'[i] = p
          PROVE  Listed(p) /\ p # o
      BY <1>6, <1>10, <1>12, <2>1 DEF Listed
    <2>2. ASSUME NEW i \in DOMAIN calls, calls[i] = p, p # o
          PROVE  Listed(p)'
      BY <1>8, <1>11, <1>12, <2>2 DEF Listed
    <2> QED
      BY <2>1, <2>2 DEF Listed
  <1>15. \A p, q : Before(p, q) /\ p # o /\ q # o => Before(p, q)'
    BY <1>8, <1>9, <1>11, <1>12 DEF Before
  <1> QED
    BY <1>5, <1>13, <1>14, <1>15

(* No object is before another that is before it.                             *)
LEMMA OneOrder ==
  ASSUME TypeOK, NoDuplicates, NEW o, NEW p, Before(o, p)
  PROVE  ~Before(p, o)
  <1>1. DOMAIN calls \subseteq Nat
    BY DEF TypeOK
  <1> QED
    BY <1>1 DEF Before, NoDuplicates

------------------------------------------------------------------------------
(* New objects.                                                              *)

LEMMA NewObject ==
  ASSUME IInv, NEW o \in Objs, NEW w \in {"application", "inbound", "notified"},
         NEW l \in Legs \cup {None}, NEW multi \in BOOLEAN, NewCallObject(o, w, l, multi)
  PROVE  /\ calls' \in Seq(Objs) /\ obj' \in [Objs -> Obj]
         /\ obj[o].owner = "none" /\ obj[o].dial = "none" /\ obj[o].id = None /\ ~Listed(o)
         /\ obj'[o].owner = w /\ obj'[o].id = l /\ obj'[o].multi = multi
         /\ obj'[o].state = "none" /\ obj'[o].dial = "none" /\ obj'[o].request = "none"
         /\ \A p \in Objs : p # o => obj'[p] = obj[p]
         /\ NoDuplicates' /\ ListIsAccurate'
         /\ \A p : Listed(p)' <=> Listed(p) \/ p = o
         /\ \A p, q : Before(p, q) => Before(p, q)'
         /\ \A p : Listed(p) => Before(p, o)'
  <1>1. obj[o].owner = "none" /\ ~Listed(o)
    BY DEF IInv, NewCallObject, ListIsAccurate
  <1>2. obj[o].dial = "none" /\ obj[o].id = None
    BY <1>1 DEF IInv, DialsAgree, IdIsKnown, Mine
  <1> DEFINE new == [NoObj EXCEPT !.owner = w, !.id = l, !.multi = multi]
  <1>3. /\ new \in Obj
        /\ new.owner = w /\ new.id = l /\ new.multi = multi
        /\ new.state = "none" /\ new.dial = "none" /\ new.request = "none"
    BY DEF NoObj, Obj, CallState
  <1>4. obj' = [obj EXCEPT ![o] = new] /\ calls' = Added(o)
    BY DEF NewCallObject
  <1> HIDE DEF new
  <1>5. /\ obj' \in [Objs -> Obj] /\ obj'[o] = new
        /\ \A p \in Objs : p # o => obj'[p] = obj[p]
    BY <1>3, <1>4 DEF IInv, TypeOK
  <1>6. /\ calls' \in Seq(Objs)
        /\ NoDuplicates'
        /\ \A p : Listed(p)' <=> Listed(p) \/ p = o
        /\ \A p, q : Before(p, q) => Before(p, q)'
        /\ \A p : Listed(p) => Before(p, o)'
    BY <1>1, <1>4, AddedToList DEF IInv
  <1>7. ListIsAccurate'
    BY <1>3, <1>5, <1>6 DEF IInv, ListIsAccurate
  <1> QED
    BY <1>1, <1>2, <1>3, <1>5, <1>6, <1>7

(* A call that the server has just created, and an object made for it.        *)
LEMMA NewForLeg ==
  ASSUME IInv, NEW l \in Legs, leg[l].state = "none",
         NEW t \in Objs \cup {None}, t # None => dialing[t] = "dialing" /\ obj[t].multi,
         leg' = [leg EXCEPT ![l] = [state |-> "created", tag |-> t]],
         NEW w \in {"inbound", "notified"}, w = "inbound" => t = None,
         NEW o \in Objs, NewCallObject(o, w, l, FALSE), UNCHANGED dialing
  PROVE  IInv'
  <1>0. None \notin Objs /\ None \notin Legs
    BY NoneAssumption
  <1>1. /\ calls' \in Seq(Objs) /\ obj' \in [Objs -> Obj]
        /\ obj[o].owner = "none" /\ obj[o].dial = "none" /\ obj[o].id = None /\ ~Listed(o)
        /\ obj'[o].owner = w /\ obj'[o].id = l /\ obj'[o].multi = FALSE
        /\ obj'[o].state = "none" /\ obj'[o].dial = "none" /\ obj'[o].request = "none"
        /\ \A p \in Objs : p # o => obj'[p] = obj[p]
        /\ NoDuplicates' /\ ListIsAccurate'
        /\ \A p : Listed(p)' <=> Listed(p) \/ p = o
        /\ \A p, q : Before(p, q) => Before(p, q)'
        /\ \A p : Listed(p) => Before(p, o)'
    BY NewObject
  <1>2. /\ leg' \in [Legs -> [state : CallState, tag : Objs \cup {None}]]
        /\ leg'[l].state = "created" /\ leg'[l].tag = t
        /\ \A k \in Legs : k # l => leg'[k] = leg[k]
    BY DEF IInv, TypeOK, CallState
  <1>3. /\ obj \in [Objs -> Obj] /\ \A p \in Objs : obj[p].id \in Legs \cup {None}
        /\ \A p \in Objs : obj[p].id # l
        /\ leg[l].tag = None
        /\ dialing' = dialing
    BY <1>0 DEF IInv, TypeOK, Obj, IdIsKnown, LegsAreKnown
  <1>4. TypeOK'
    BY <1>1, <1>2 DEF IInv, TypeOK
  <1>5. IdIsKnown'
    BY <1>0, <1>1, <1>2, <1>3 DEF IInv, IdIsKnown, Mine
  <1>6. NoIdYet'
    BY <1>0, <1>1, <1>3 DEF IInv, NoIdYet, Mine
  <1>7. OneIsMine'
    BY <1>0, <1>1, <1>3 DEF IInv, OneIsMine, Mine
  <1>8. MineIsFirst'
    BY <1>0, <1>1, <1>2, <1>3 DEF IInv, MineIsFirst, Mine
  <1>9. DialsAgree'
    BY <1>0, <1>1, <1>2, <1>3 DEF IInv, DialsAgree, Mine, LegsOf
  <1>10. DialIsSettled'
    BY <1>1, <1>3 DEF IInv, DialIsSettled, DialsAgree
  <1>11. LegsAreKnown'
    BY <1>0, <1>1, <1>2, <1>3 DEF IInv, LegsAreKnown
  <1>12. FollowsItsLeg'
    BY <1>0, <1>1, <1>2, <1>3 DEF IInv, FollowsItsLeg, Held, LegsOf
  <1>13. ListedHasLeg'
    BY <1>0, <1>1, <1>2, <1>3 DEF IInv, ListedHasLeg, Mine
  <1> QED
    BY <1>1, <1>4, <1>5, <1>6, <1>7, <1>8, <1>9, <1>10, <1>11, <1>12, <1>13 DEF IInv

(* An object the application makes itself.                                    *)
LEMMA NewCallKeeps ==
  ASSUME IInv, NEW o \in Objs, NEW multi \in BOOLEAN, NewCall(o, multi)
  PROVE  IInv'
  <1>0. None \notin Objs /\ None \notin Legs
    BY NoneAssumption
  <1>1. /\ calls' \in Seq(Objs) /\ obj' \in [Objs -> Obj]
        /\ obj[o].owner = "none" /\ obj[o].dial = "none" /\ obj[o].id = None /\ ~Listed(o)
        /\ obj'[o].owner = "application" /\ obj'[o].id = None /\ obj'[o].multi = multi
        /\ obj'[o].state = "none" /\ obj'[o].dial = "none" /\ obj'[o].request = "none"
        /\ \A p \in Objs : p # o => obj'[p] = obj[p]
        /\ NoDuplicates' /\ ListIsAccurate'
        /\ \A p : Listed(p)' <=> Listed(p) \/ p = o
        /\ \A p, q : Before(p, q) => Before(p, q)'
        /\ \A p : Listed(p) => Before(p, o)'
    BY NewObject DEF NewCall
  <1>2. leg' = leg /\ dialing' = dialing
    BY DEF NewCall
  <1>3. /\ dialing[o] = "no" /\ \A l \in Legs : leg[l].tag # o
        /\ \A p \in Objs : obj[p].id \in Legs \cup {None}
    BY <1>0, <1>1 DEF IInv, DialsAgree, LegsAreKnown, TypeOK, Obj
  <1>4. TypeOK'
    BY <1>1, <1>2 DEF IInv, TypeOK
  <1>5. IdIsKnown'
    BY <1>0, <1>1, <1>2, <1>3 DEF IInv, IdIsKnown, Mine
  <1>6. NoIdYet'
    BY <1>0, <1>1, <1>3 DEF IInv, NoIdYet, Mine
  <1>7. OneIsMine'
    BY <1>0, <1>1, <1>3 DEF IInv, OneIsMine, Mine
  <1>8. MineIsFirst'
    BY <1>0, <1>1, <1>2, <1>3 DEF IInv, MineIsFirst, Mine
  <1>9. DialsAgree'
    BY <1>0, <1>1, <1>2, <1>3 DEF IInv, DialsAgree, Mine, LegsOf
  <1>10. DialIsSettled'
    BY <1>1, <1>2, <1>3 DEF IInv, DialIsSettled, DialsAgree
  <1>11. LegsAreKnown'
    BY <1>0, <1>1, <1>2, <1>3 DEF IInv, LegsAreKnown
  <1>12. FollowsItsLeg'
    BY <1>0, <1>1, <1>2, <1>3 DEF IInv, FollowsItsLeg, Held, LegsOf
  <1>13. ListedHasLeg'
    BY <1>0, <1>1, <1>2, <1>3 DEF IInv, ListedHasLeg, Mine
  <1> QED
    BY <1>1, <1>4, <1>5, <1>6, <1>7, <1>8, <1>9, <1>10, <1>11, <1>12, <1>13 DEF IInv

------------------------------------------------------------------------------
(* What is found.                                                            *)

(* The object of the application that has the id of a call is found by it.    *)
LEMMA HeldFound == IInv => HeldIsFound
  <1> SUFFICES ASSUME IInv, NEW o \in Objs, Held(o), obj[o].id # None, obj[o].state # "ended"
               PROVE  CallById(obj[o].id) = o
    BY DEF HeldIsFound
  <1> DEFINE l == obj[o].id
             x == CallById(l)
  <1>1. l \in Legs /\ Listed(o) /\ obj[o].owner # "none"
    BY DEF IInv, TypeOK, Obj, ListIsAccurate, Held
  <1>2. /\ x \in Objs /\ Listed(x) /\ obj[x].id = l
        /\ x # o => Before(x, o)
    BY <1>1, FoundById DEF IInv
  <1> HIDE DEF x
  <1>3. SUFFICES ASSUME x # o PROVE FALSE
    BY DEF x
  <1>4. Mine(o) \/ Mine(x)
    BY <1>1, <1>2, <1>3 DEF IInv, OneIsMine
  <1>5. Mine(o) => leg[l].tag = o
    BY <1>1 DEF IInv, IdIsKnown
  <1>6. Mine(x) => leg[l].tag = x
    BY <1>1, <1>2 DEF IInv, IdIsKnown
  <1>7. CASE Mine(o)
    <2>1. ~Mine(x)
      BY <1>3, <1>5, <1>6, <1>7
    <2>2. Before(o, x)
      BY <1>1, <1>2, <1>5, <1>7, <2>1 DEF IInv, MineIsFirst
    <2> QED
      BY <1>2, <1>3, <2>2, OneOrder DEF IInv
  <1>8. CASE Mine(x) /\ ~Mine(o)
    <2>1. leg[l].tag = None
      BY <1>1, <1>8 DEF IInv, IdIsKnown, Held, Mine
    <2> QED
      BY <1>2, <1>6, <1>8, <2>1, NoneAssumption
  <1> QED
    BY <1>4, <1>7, <1>8

------------------------------------------------------------------------------
(* Objects that change.                                                      *)

LEMMA ChangedObject ==
  ASSUME IInv, NEW o \in Objs, Listed(o), NEW l \in Legs, NEW s \in CallState, s # "none",
         obj[o].id \in {None, l}, Changed(o, l, s)
  PROVE  /\ calls' \in Seq(Objs) /\ obj' \in [Objs -> Obj]
         /\ obj'[o].owner = obj[o].owner /\ obj'[o].multi = obj[o].multi
         /\ obj'[o].id = l /\ obj'[o].state = s
         /\ obj'[o].dial = IF s = "ended" /\ obj[o].dial = "waiting" THEN "failed" ELSE obj[o].dial
         /\ obj'[o].request = obj[o].request
         /\ \A p \in Objs : p # o => obj'[p] = obj[p]
         /\ NoDuplicates' /\ ListIsAccurate'
         /\ \A p : Listed(p)' <=> Listed(p) /\ (s = "ended" => p # o)
         /\ \A p, q : Before(p, q) /\ Listed(p)' /\ Listed(q)' => Before(p, q)'
  <1> DEFINE call == obj[o]
             new  == [call EXCEPT
                        !.id = IF call.id = None THEN l ELSE call.id,
                        !.state = s,
                        !.dial = IF s = "ended" /\ call.dial = "waiting"
                                   THEN "failed" ELSE call.dial]
  <1>0. obj[o] \in Obj /\ obj \in [Objs -> Obj]
    BY DEF IInv, TypeOK
  <1>1. /\ new \in Obj
        /\ new.owner = obj[o].owner /\ new.multi = obj[o].multi
        /\ new.id = l /\ new.state = s
        /\ new.dial = IF s = "ended" /\ obj[o].dial = "waiting" THEN "failed" ELSE obj[o].dial
        /\ new.request = obj[o].request
    BY <1>0 DEF Obj
  <1>2. obj' = [obj EXCEPT ![o] = new] /\ calls' = IF s = "ended" THEN Removed(o) ELSE calls
    BY DEF Changed
  <1> HIDE DEF new
  <1>3. /\ obj' \in [Objs -> Obj] /\ obj'[o] = new
        /\ \A p \in Objs : p # o => obj'[p] = obj[p]
    BY <1>0, <1>1, <1>2
  <1>4. /\ calls' \in Seq(Objs)
        /\ NoDuplicates'
        /\ \A p : Listed(p)' <=> Listed(p) /\ (s = "ended" => p # o)
        /\ \A p, q : Before(p, q) /\ Listed(p)' /\ Listed(q)' => Before(p, q)'
    <2>1. CASE s = "ended"
      BY <1>2, <2>1, RemovedFromList DEF IInv
    <2>2. CASE s # "ended"
      BY <1>2, <2>2 DEF IInv, TypeOK, NoDuplicates, Listed, Before
    <2> QED
      BY <2>1, <2>2
  <1>5. ListIsAccurate'
    BY <1>1, <1>3, <1>4 DEF IInv, ListIsAccurate
  <1> QED
    BY <1>1, <1>3, <1>4, <1>5

(* The one leg of a call to one device is created.                            *)
LEMMA OnlyLegKeeps ==
  ASSUME IInv, NEW l \in Legs, leg[l].state = "none",
         NEW o \in Objs, dialing[o] = "dialing", ~obj[o].multi, LegsOf(o) = {},
         leg' = [leg EXCEPT ![l] = [state |-> "created", tag |-> o]],
         Changed(o, l, "created"), UNCHANGED dialing
  PROVE  IInv'
  <1>0. None \notin Objs /\ None \notin Legs
    BY NoneAssumption
  <1>1. /\ \A p \in Objs : obj[p].id \in Legs \cup {None}
        /\ \A p \in Objs : obj[p].id # l
        /\ leg[l].tag = None
        /\ dialing' = dialing
        /\ Mine(o) /\ obj[o].owner = "application"
    BY <1>0 DEF IInv, TypeOK, Obj, IdIsKnown, LegsAreKnown, DialsAgree, Mine
  <1>2. obj[o].id = None
    BY <1>1 DEF IInv, IdIsKnown, LegsOf
  <1>3. Listed(o) /\ obj[o].state = "none"
    BY <1>1, <1>2 DEF IInv, NoIdYet, ListIsAccurate
  <1>4. /\ calls' \in Seq(Objs) /\ obj' \in [Objs -> Obj]
        /\ obj'[o].owner = "application" /\ obj'[o].multi = obj[o].multi
        /\ obj'[o].id = l /\ obj'[o].state = "created"
        /\ obj'[o].dial = obj[o].dial /\ obj'[o].request = obj[o].request
        /\ \A p \in Objs : p # o => obj'[p] = obj[p]
        /\ NoDuplicates' /\ ListIsAccurate'
        /\ \A p : Listed(p)' <=> Listed(p)
        /\ \A p, q : Before(p, q) /\ Listed(p)' /\ Listed(q)' => Before(p, q)'
    BY <1>1, <1>2, <1>3, ChangedObject DEF CallState
  <1>5. /\ leg' \in [Legs -> [state : CallState, tag : Objs \cup {None}]]
        /\ leg'[l].state = "created" /\ leg'[l].tag = o
        /\ \A k \in Legs : k # l => leg'[k] = leg[k]
    BY DEF IInv, TypeOK, CallState
  <1>6. \A p \in Objs : (Mine(p)' <=> Mine(p)) /\ obj'[p].owner = obj[p].owner
                          /\ (p # o => obj'[p].id = obj[p].id)
    BY <1>1, <1>4 DEF Mine
  <1>7. TypeOK'
    BY <1>4, <1>5 DEF IInv, TypeOK
  <1>8. IdIsKnown'
    <2> SUFFICES ASSUME NEW p \in Objs, obj'[p].id # None
                 PROVE  /\ ~obj'[p].multi /\ obj'[p].owner # "none"
                        /\ leg'[obj'[p].id].state # "none"
                        /\ Mine(p)' => leg'[obj'[p].id].tag = p
                        /\ obj'[p].owner = "inbound" => leg'[obj'[p].id].tag = None
                        /\ obj'[p].state = "ended" => leg'[obj'[p].id].state = "ended"
      BY DEF IdIsKnown
    <2>1. CASE p = o
      BY <1>4, <1>5, <2>1
    <2>2. CASE p # o
      <3>1. obj'[p] = obj[p] /\ obj[p].id \in Legs /\ obj[p].id # l
        BY <1>1, <1>4, <2>2
      <3>2. leg'[obj[p].id] = leg[obj[p].id]
        BY <1>5, <3>1
      <3>3. /\ ~obj[p].multi /\ obj[p].owner # "none"
            /\ leg[obj[p].id].state # "none"
            /\ Mine(p) => leg[obj[p].id].tag = p
            /\ obj[p].owner = "inbound" => leg[obj[p].id].tag = None
            /\ obj[p].state = "ended" => leg[obj[p].id].state = "ended"
        BY <3>1 DEF IInv, IdIsKnown
      <3> QED
        BY <1>6, <3>1, <3>2, <3>3
    <2> QED
      BY <2>1, <2>2
  <1>9. NoIdYet'
    BY <1>0, <1>1, <1>4 DEF IInv, NoIdYet, Mine
  <1>10. OneIsMine'
    <2> SUFFICES ASSUME NEW p \in Objs, NEW q \in Objs, p # q,
                        obj'[p].id # None, obj'[p].id = obj'[q].id
                 PROVE  Mine(p) \/ Mine(q)
      BY <1>6 DEF OneIsMine
    <2>1. CASE p = o \/ q = o
      BY <1>1, <2>1
    <2>2. CASE p # o /\ q # o
      BY <1>6, <2>2 DEF IInv, OneIsMine
    <2> QED
      BY <2>1, <2>2
  <1>11. MineIsFirst'
    BY <1>0, <1>1, <1>4, <1>5 DEF IInv, MineIsFirst, Mine
  <1>12. DialsAgree'
    BY <1>0, <1>1, <1>3, <1>4, <1>5 DEF IInv, DialsAgree, Mine, LegsOf
  <1>13. DialIsSettled'
    BY <1>1, <1>3, <1>4 DEF IInv, DialIsSettled
  <1>14. LegsAreKnown'
    <2> SUFFICES ASSUME NEW k \in Legs
                 PROVE  /\ leg'[k].tag # None => leg'[k].state # "none" /\ dialing[leg'[k].tag] # "no"
                        /\ leg'[k].state \notin {"none", "ended"} =>
                             \E p \in Objs : Listed(p)' /\ obj'[p].id = k
      BY <1>1 DEF LegsAreKnown
    <2>1. CASE k = l
      BY <1>3, <1>4, <1>5, <2>1
    <2>2. CASE k # l
      <3>1. /\ leg[k].tag # None => leg[k].state # "none" /\ dialing[leg[k].tag] # "no"
            /\ leg[k].state \notin {"none", "ended"} =>
                 \E p \in Objs : Listed(p) /\ obj[p].id = k
        BY DEF IInv, LegsAreKnown
      <3>2. \A p \in Objs : obj[p].id = k => p # o
        BY <1>0, <1>2
      <3>3. \A p \in Objs : Listed(p) /\ obj[p].id = k => Listed(p)' /\ obj'[p].id = k
        BY <1>4, <1>6, <3>2
      <3> QED
        BY <1>5, <2>2, <3>1, <3>3
    <2> QED
      BY <2>1, <2>2
  <1>15. FollowsItsLeg'
    BY <1>0, <1>1, <1>4, <1>5 DEF IInv, FollowsItsLeg, Held, LegsOf
  <1>16. ListedHasLeg'
    <2> SUFFICES ASSUME NEW p \in Objs, Listed(p)', obj'[p].id # None,
                        leg'[obj'[p].id].state = "ended"
                 PROVE  \E q \in Objs \ {p} : Mine(q)' /\ obj'[q].id = obj'[p].id
      BY DEF ListedHasLeg
    <2>1. p # o
      BY <1>4, <1>5
    <2>2. obj'[p].id = obj[p].id /\ obj[p].id \in Legs /\ obj[p].id # l /\ Listed(p)
      BY <1>1, <1>4, <1>6, <2>1
    <2>3. leg[obj[p].id].state = "ended"
      BY <1>5, <2>2
    <2>4. PICK q \in Objs \ {p} : Mine(q) /\ obj[q].id = obj[p].id
      BY <2>2, <2>3 DEF IInv, ListedHasLeg
    <2>5. q # o
      BY <1>0, <1>2, <2>2, <2>4
    <2> QED
      BY <1>6, <2>2, <2>4, <2>5
  <1> QED
    BY <1>4, <1>7, <1>8, <1>9, <1>10, <1>11, <1>12, <1>13, <1>14, <1>15, <1>16 DEF IInv

(* The object that is found for a call learns its new state.                  *)
LEMMA FollowingKeeps ==
  ASSUME IInv, NEW l \in Legs, leg[l].state \notin {"none", "ended"},
         NEW s \in CallState, s # "none",
         leg' = [leg EXCEPT ![l].state = s],
         NEW x \in Objs, CallById(l) = x, Listed(x), obj[x].id = l,
         Changed(x, l, s), UNCHANGED dialing
  PROVE  IInv'
  <1>0. None \notin Objs /\ None \notin Legs
    BY NoneAssumption
  <1>1. /\ \A p \in Objs : obj[p].id \in Legs \cup {None}
        /\ dialing' = dialing
        /\ \A p \in Objs : obj[p].id = l => obj[p].state # "ended"
        /\ obj[x].owner # "none" /\ ~obj[x].multi
    BY <1>0 DEF IInv, TypeOK, Obj, IdIsKnown
  <1>2. \A p \in Objs : Held(p) /\ obj[p].id = l => p = x
    BY <1>0, <1>1, HeldFound DEF HeldIsFound
  <1>3. /\ calls' \in Seq(Objs) /\ obj' \in [Objs -> Obj]
        /\ obj'[x].owner = obj[x].owner /\ obj'[x].multi = obj[x].multi
        /\ obj'[x].id = l /\ obj'[x].state = s
        /\ obj'[x].dial = IF s = "ended" /\ obj[x].dial = "waiting" THEN "failed" ELSE obj[x].dial
        /\ obj'[x].request = obj[x].request
        /\ \A p \in Objs : p # x => obj'[p] = obj[p]
        /\ NoDuplicates' /\ ListIsAccurate'
        /\ \A p : Listed(p)' <=> Listed(p) /\ (s = "ended" => p # x)
        /\ \A p, q : Before(p, q) /\ Listed(p)' /\ Listed(q)' => Before(p, q)'
    BY ChangedObject
  <1>4. /\ leg' \in [Legs -> [state : CallState, tag : Objs \cup {None}]]
        /\ leg'[l].state = s
        /\ \A k \in Legs : leg'[k].tag = leg[k].tag
        /\ \A k \in Legs : k # l => leg'[k] = leg[k]
    BY DEF IInv, TypeOK
  <1>5. \A p \in Objs : obj'[p].id = obj[p].id /\ obj'[p].owner = obj[p].owner
                          /\ obj'[p].multi = obj[p].multi
    BY <1>3
  <1>6. TypeOK'
    BY <1>3, <1>4 DEF IInv, TypeOK
  <1>7. IdIsKnown'
    <2> SUFFICES ASSUME NEW p \in Objs, obj[p].id # None
                 PROVE  /\ ~obj'[p].multi /\ obj'[p].owner # "none"
                        /\ leg'[obj[p].id].state # "none"
                        /\ Mine(p)' => leg'[obj[p].id].tag = p
                        /\ obj'[p].owner = "inbound" => leg'[obj[p].id].tag = None
                        /\ obj'[p].state = "ended" => leg'[obj[p].id].state = "ended"
      BY <1>5 DEF IdIsKnown
    <2>1. /\ ~obj[p].multi /\ obj[p].owner # "none" /\ obj[p].id \in Legs
          /\ leg[obj[p].id].state # "none"
          /\ Mine(p) => leg[obj[p].id].tag = p
          /\ obj[p].owner = "inbound" => leg[obj[p].id].tag = None
          /\ obj[p].state = "ended" => leg[obj[p].id].state = "ended"
      BY <1>1 DEF IInv, IdIsKnown
    <2>2. CASE obj[p].id = l
      BY <1>1, <1>3, <1>4, <1>5, <2>1, <2>2 DEF Mine
    <2>3. CASE obj[p].id # l
      BY <1>3, <1>4, <1>5, <2>1, <2>3 DEF Mine
    <2> QED
      BY <2>2, <2>3
  <1>8. NoIdYet'
    BY <1>0, <1>1, <1>3, <1>5 DEF IInv, NoIdYet, Mine
  <1>9. OneIsMine'
    <2>1. \A p \in Objs : Mine(p)' <=> Mine(p)
      BY <1>5 DEF Mine
    <2> QED
      BY <1>5, <2>1 DEF IInv, OneIsMine
  <1>10. MineIsFirst'
    BY <1>0, <1>1, <1>3, <1>4, <1>5 DEF IInv, MineIsFirst, Mine
  <1>11. DialsAgree'
    BY <1>0, <1>1, <1>3, <1>4, <1>5 DEF IInv, DialsAgree, Mine, LegsOf
  <1>12. DialIsSettled'
    BY <1>1, <1>3 DEF IInv, DialIsSettled
  <1>13. LegsAreKnown'
    <2> SUFFICES ASSUME NEW k \in Legs
                 PROVE  /\ leg'[k].tag # None => leg'[k].state # "none" /\ dialing[leg'[k].tag] # "no"
                        /\ leg'[k].state \notin {"none", "ended"} =>
                             \E p \in Objs : Listed(p)' /\ obj'[p].id = k
      BY <1>1 DEF LegsAreKnown
    <2>1. /\ leg[k].tag # None => leg[k].state # "none" /\ dialing[leg[k].tag] # "no"
          /\ leg[k].state \notin {"none", "ended"} =>
               \E p \in Objs : Listed(p) /\ obj[p].id = k
      BY DEF IInv, LegsAreKnown
    <2>2. CASE k = l
      BY <1>3, <1>4, <2>1, <2>2
    <2>3. CASE k # l
      <3>1. \A p \in Objs : Listed(p) /\ obj[p].id = k => Listed(p)' /\ obj'[p].id = k
        BY <1>3, <1>5, <2>3
      <3> QED
        BY <1>4, <2>1, <2>3, <3>1
    <2> QED
      BY <2>2, <2>3
  <1>14. FollowsItsLeg'
    BY <1>0, <1>1, <1>2, <1>3, <1>4, <1>5 DEF IInv, FollowsItsLeg, Held, LegsOf
  <1>15. ListedHasLeg'
    <2> SUFFICES ASSUME NEW p \in Objs, Listed(p)', obj[p].id # None,
                        leg'[obj[p].id].state = "ended"
                 PROVE  \E q \in Objs \ {p} : Mine(q)' /\ obj'[q].id = obj[p].id
      BY <1>5 DEF ListedHasLeg
    <2>1. CASE obj[p].id = l
      <3>1. s = "ended" /\ p # x
        BY <1>3, <1>4, <2>1
      <3>2. Mine(p) \/ Mine(x)
        BY <1>0, <2>1, <3>1 DEF IInv, OneIsMine
      <3>3. Mine(x)
        BY <1>2, <2>1, <3>1, <3>2 DEF Held, Mine
      <3> QED
        BY <1>5, <2>1, <3>1, <3>3 DEF Mine
    <2>2. CASE obj[p].id # l
      <3>1. Listed(p) /\ leg[obj[p].id].state = "ended"
        BY <1>1, <1>3, <1>4, <2>2
      <3>2. PICK q \in Objs \ {p} : Mine(q) /\ obj[q].id = obj[p].id
        BY <3>1 DEF IInv, ListedHasLeg
      <3> QED
        BY <1>5, <3>2 DEF Mine
    <2> QED
      BY <2>1, <2>2
  <1> QED
    BY <1>3, <1>6, <1>7, <1>8, <1>9, <1>10, <1>11, <1>12, <1>13, <1>14, <1>15 DEF IInv

------------------------------------------------------------------------------
(* Dials.                                                                    *)

(* A step that changes only how a dial stands.                                *)
LEMMA DialStepKeeps ==
  ASSUME IInv, TypeOK', UNCHANGED <<calls, leg>>,
         \A p \in Objs : /\ obj'[p].owner = obj[p].owner /\ obj'[p].id = obj[p].id
                         /\ obj'[p].multi = obj[p].multi /\ obj'[p].state = obj[p].state
                         /\ dialing[p] # "no" => dialing'[p] # "no",
         DialsAgree', DialIsSettled'
  PROVE  IInv'
  <1>0. /\ None \notin Objs
        /\ \A p : Listed(p)' <=> Listed(p)
        /\ \A p, q : Before(p, q)' <=> Before(p, q)
        /\ \A p \in Objs : (Mine(p)' <=> Mine(p)) /\ (Held(p)' <=> Held(p))
        /\ \A p \in Objs : LegsOf(p)' = LegsOf(p)
    BY NoneAssumption DEF Listed, Before, Mine, Held, LegsOf
  <1>1. NoDuplicates' /\ ListIsAccurate'
    BY <1>0 DEF IInv, NoDuplicates, ListIsAccurate
  <1>2. IdIsKnown' /\ NoIdYet'
    BY <1>0 DEF IInv, IdIsKnown, NoIdYet
  <1>3. OneIsMine' /\ MineIsFirst'
    BY <1>0 DEF IInv, OneIsMine, MineIsFirst
  <1>4. LegsAreKnown'
    <2>1. \A l \in Legs : leg[l].tag \in Objs \cup {None}
      BY DEF IInv, TypeOK
    <2> QED
      BY <1>0, <2>1 DEF IInv, LegsAreKnown
  <1>5. FollowsItsLeg'
    BY <1>0 DEF IInv, FollowsItsLeg
  <1>6. ListedHasLeg'
    BY <1>0 DEF IInv, ListedHasLeg
  <1> QED
    BY <1>1, <1>2, <1>3, <1>4, <1>5, <1>6 DEF IInv

LEMMA DialKeeps ==
  ASSUME IInv, NEW o \in Objs, Dial(o)
  PROVE  IInv'
  <1>0. None \notin Objs
    BY NoneAssumption
  <1>1. /\ obj[o].owner = "application" /\ obj[o].dial = "none" /\ dialing[o] = "no"
        /\ obj[o].id = None /\ obj[o].state = "none" /\ LegsOf(o) = {}
    <2>1. Mine(o) /\ obj[o].dial = "none" /\ dialing[o] = "no"
      BY DEF Dial, Mine, IInv, DialsAgree
    <2>2. LegsOf(o) = {}
      BY <1>0, <2>1 DEF IInv, LegsAreKnown, LegsOf
    <2>3. obj[o].id = None
      BY <2>1, <2>2 DEF IInv, IdIsKnown, LegsOf, TypeOK, Obj
    <2> QED
      BY <2>1, <2>2, <2>3 DEF Mine, IInv, NoIdYet
  <1>2. /\ obj' \in [Objs -> Obj] /\ obj'[o].dial = "waiting" /\ obj'[o].request = "sent"
        /\ \A p \in Objs : /\ obj'[p].owner = obj[p].owner /\ obj'[p].id = obj[p].id
                           /\ obj'[p].multi = obj[p].multi /\ obj'[p].state = obj[p].state
                           /\ p # o => obj'[p] = obj[p]
    BY DEF Dial, IInv, TypeOK, Obj
  <1>3. /\ dialing' \in [Objs -> {"no", "dialing", "answered", "failed"}]
        /\ dialing'[o] = "dialing" /\ \A p \in Objs : p # o => dialing'[p] = dialing[p]
        /\ calls' = calls /\ leg' = leg
    BY DEF Dial, IInv, TypeOK
  <1>4. TypeOK'
    BY <1>2, <1>3 DEF IInv, TypeOK
  <1>5. DialsAgree'
    BY <1>1, <1>2, <1>3 DEF IInv, DialsAgree, Mine, LegsOf
  <1>6. DialIsSettled'
    BY <1>1, <1>2, <1>3 DEF IInv, DialIsSettled
  <1> QED
    BY <1>1, <1>2, <1>3, <1>4, <1>5, <1>6, DialStepKeeps

(* A dial that fails at the server, which refuses it or sees all its legs end. *)
LEMMA FailedDialKeeps ==
  ASSUME IInv, NEW o \in Objs, dialing[o] = "dialing", UNCHANGED <<calls, leg>>,
         dialing' = [dialing EXCEPT ![o] = "failed"],
         obj' \in [Objs -> Obj], obj'[o].dial = "failed",
         obj'[o].request \in {obj[o].request, "failed"},
         \A p \in Objs : /\ obj'[p].owner = obj[p].owner /\ obj'[p].id = obj[p].id
                         /\ obj'[p].multi = obj[p].multi /\ obj'[p].state = obj[p].state
                         /\ p # o => obj'[p] = obj[p]
  PROVE  IInv'
  <1>1. /\ dialing' \in [Objs -> {"no", "dialing", "answered", "failed"}]
        /\ dialing'[o] = "failed" /\ \A p \in Objs : p # o => dialing'[p] = dialing[p]
    BY DEF IInv, TypeOK
  <1>2. TypeOK'
    BY <1>1 DEF IInv, TypeOK
  <1>3. DialsAgree'
    BY <1>1 DEF IInv, DialsAgree, Mine, LegsOf
  <1>4. DialIsSettled'
    BY <1>1 DEF IInv, DialIsSettled
  <1> QED
    BY <1>1, <1>2, <1>3, <1>4, DialStepKeeps

(* A request that is settled changes nothing but its own dial.                *)
LEMMA RequestObject ==
  ASSUME IInv, NEW o \in Objs, DialAccepted(o) \/ DialRefused(o) \/ DialTimedOut(o)
  PROVE  /\ obj' \in [Objs -> Obj] /\ obj[o].dial # "none" /\ obj[o].request = "sent"
         /\ \/ DialAccepted(o) /\ obj'[o].dial = obj[o].dial /\ obj'[o].request = "ok"
            \/ /\ DialRefused(o) \/ DialTimedOut(o)
               /\ obj'[o].dial = "failed" /\ obj'[o].request = "failed"
         /\ \A p \in Objs : /\ obj'[p].owner = obj[p].owner /\ obj'[p].id = obj[p].id
                            /\ obj'[p].multi = obj[p].multi /\ obj'[p].state = obj[p].state
                            /\ p # o => obj'[p] = obj[p]
  <1>1. obj \in [Objs -> Obj] /\ obj[o] \in Obj
    BY DEF IInv, TypeOK
  <1>2. obj[o].request = "sent" /\ obj[o].dial # "none"
    BY DEF DialAccepted, DialRefused, DialTimedOut, IInv, DialsAgree
  <1>3. CASE DialAccepted(o)
    BY <1>1, <1>2, <1>3 DEF DialAccepted, Obj
  <1>4. CASE DialRefused(o) \/ DialTimedOut(o)
    <2>1. obj' = [obj EXCEPT ![o].dial = "failed", ![o].request = "failed"]
      BY <1>4 DEF DialRefused, DialTimedOut, RequestFails
    <2> QED
      BY <1>1, <1>2, <1>4, <2>1 DEF Obj
  <1> QED
    BY <1>3, <1>4

(* An answer, and one that is late, say nothing to the server.                *)
LEMMA RequestKeeps ==
  ASSUME IInv, NEW o \in Objs, DialAccepted(o) \/ DialTimedOut(o)
  PROVE  IInv'
  <1>1. /\ obj' \in [Objs -> Obj] /\ obj[o].dial # "none"
        /\ \/ obj'[o].dial = obj[o].dial /\ obj'[o].request = "ok"
           \/ obj'[o].dial = "failed" /\ obj'[o].request = "failed"
        /\ \A p \in Objs : /\ obj'[p].owner = obj[p].owner /\ obj'[p].id = obj[p].id
                           /\ obj'[p].multi = obj[p].multi /\ obj'[p].state = obj[p].state
                           /\ p # o => obj'[p] = obj[p]
    BY RequestObject
  <1>2. obj[o].request = "sent" /\ UNCHANGED <<calls, leg, dialing>>
    BY DEF DialAccepted, DialTimedOut
  <1>3. TypeOK'
    BY <1>1, <1>2 DEF IInv, TypeOK
  <1>4. DialsAgree'
    BY <1>1, <1>2 DEF IInv, DialsAgree, Mine, LegsOf
  <1>5. DialIsSettled'
    BY <1>1, <1>2 DEF IInv, DialIsSettled
  <1> QED
    BY <1>1, <1>2, <1>3, <1>4, <1>5, DialStepKeeps

LEMMA DialRefusedKeeps ==
  ASSUME IInv, NEW o \in Objs, DialRefused(o)
  PROVE  IInv'
  <1>1. obj'[o].request = "failed"
    BY DEF DialRefused, RequestFails, IInv, TypeOK, Obj
  <1>2. /\ obj' \in [Objs -> Obj]
        /\ obj'[o].dial = "failed" /\ obj'[o].request = "failed"
        /\ \A p \in Objs : /\ obj'[p].owner = obj[p].owner /\ obj'[p].id = obj[p].id
                           /\ obj'[p].multi = obj[p].multi /\ obj'[p].state = obj[p].state
                           /\ p # o => obj'[p] = obj[p]
    BY <1>1, RequestObject
  <1> QED
    BY <1>2, FailedDialKeeps DEF DialRefused

LEMMA DialFailedKeeps ==
  ASSUME IInv, NEW o \in Objs, DialFailed(o)
  PROVE  IInv'
  <1>0. None \notin Objs /\ obj \in [Objs -> Obj] /\ obj[o] \in Obj
    BY NoneAssumption DEF IInv, TypeOK
  <1>1. /\ dialing[o] = "dialing" /\ dialing' = [dialing EXCEPT ![o] = "failed"]
        /\ leg' = leg
    BY DEF DialFailed
  <1>2. obj[o].dial \in {"waiting", "failed"}
    BY <1>1 DEF IInv, DialsAgree
  <1>3. CASE Listed(o)
    <2>1. CallByTag(o) = o
      BY <1>3, FoundByTag DEF IInv
    <2> DEFINE new == [obj[o] EXCEPT
                         !.dial = IF obj[o].dial = "waiting" THEN "failed" ELSE obj[o].dial,
                         !.id = obj[o].id,
                         !.multi = obj[o].multi /\ TRUE]
    <2>2. obj' = [obj EXCEPT ![o] = new] /\ calls' = calls
      BY <1>0, <2>1 DEF DialFailed, OnDial
    <2>3. /\ new \in Obj /\ new.dial = "failed" /\ new.id = obj[o].id
          /\ new.request = obj[o].request
          /\ new.multi = obj[o].multi /\ new.state = obj[o].state /\ new.owner = obj[o].owner
      BY <1>0, <1>2 DEF Obj
    <2> HIDE DEF new
    <2>4. /\ obj' \in [Objs -> Obj] /\ obj'[o] = new
          /\ \A p \in Objs : p # o => obj'[p] = obj[p]
      BY <1>0, <2>2, <2>3
    <2> QED
      BY <1>1, <2>2, <2>3, <2>4, FailedDialKeeps
  <1>4. CASE ~Listed(o)
    <2>1. CallByTag(o) = None
      BY <1>4, FoundByTag DEF IInv
    <2>2. obj' = obj /\ calls' = calls
      BY <2>1 DEF DialFailed, OnDial
    <2>3. obj[o].dial = "failed"
      BY <1>1, <1>2, <1>4 DEF IInv, DialsAgree, Mine, ListIsAccurate
    <2> QED
      BY <1>0, <1>1, <2>2, <2>3, FailedDialKeeps
  <1> QED
    BY <1>3, <1>4

(* The winner of a dial gives its id to the call the application holds.       *)
LEMMA DialAnsweredKeeps ==
  ASSUME IInv, NEW o \in Objs, DialAnswered(o)
  PROVE  IInv'
  <1>0. /\ None \notin Objs /\ None \notin Legs
        /\ obj \in [Objs -> Obj] /\ obj[o] \in Obj
        /\ \A p \in Objs : obj[p].id \in Legs \cup {None}
    BY NoneAssumption DEF IInv, TypeOK, Obj
  <1>1. PICK l \in LegsOf(o) : leg[l].state = "answered" /\ OnDial(o, "answered", l)
    BY DEF DialAnswered
  <1>2. l \in Legs /\ leg[l].tag = o
    BY <1>1 DEF LegsOf
  <1>3. /\ dialing[o] = "dialing" /\ leg' = leg
        /\ dialing' \in [Objs -> {"no", "dialing", "answered", "failed"}]
        /\ dialing'[o] = "answered" /\ \A p \in Objs : p # o => dialing'[p] = dialing[p]
    BY DEF DialAnswered, IInv, TypeOK
  <1>4. Mine(o) /\ (~obj[o].multi => obj[o].id = l) /\ (obj[o].multi => obj[o].id = None)
    BY <1>1, <1>3 DEF IInv, DialsAgree, IdIsKnown
  <1>5. obj[o].state # "ended"
    BY <1>0, <1>1, <1>2, <1>4 DEF IInv, IdIsKnown, NoIdYet
  <1>6. /\ Listed(o)
        /\ obj[o].dial = "waiting" \/ (obj[o].dial = "failed" /\ obj[o].request = "failed")
    BY <1>3, <1>4, <1>5 DEF IInv, ListIsAccurate, Mine, DialsAgree
  <1>7. CallByTag(o) = o
    BY <1>6, FoundByTag DEF IInv
  <1> DEFINE new == [obj[o] EXCEPT
                       !.dial = IF obj[o].dial = "waiting" THEN "answered" ELSE obj[o].dial,
                       !.id = l,
                       !.multi = obj[o].multi /\ FALSE]
  <1>8. obj' = [obj EXCEPT ![o] = new] /\ calls' = calls
    BY <1>0, <1>1, <1>7 DEF OnDial
  <1>9. /\ new \in Obj /\ new.id = l /\ new.multi = FALSE
        /\ new.dial = (IF obj[o].dial = "waiting" THEN "answered" ELSE obj[o].dial)
        /\ new.request = obj[o].request
        /\ new.state = obj[o].state /\ new.owner = obj[o].owner
    BY <1>0, <1>2, <1>6 DEF Obj
  <1> HIDE DEF new
  <1>10. /\ obj' \in [Objs -> Obj]
         /\ obj'[o].id = l /\ obj'[o].multi = FALSE
         /\ obj'[o].dial = (IF obj[o].dial = "waiting" THEN "answered" ELSE obj[o].dial)
         /\ obj'[o].request = obj[o].request
         /\ \A p \in Objs : /\ p # o => obj'[p] = obj[p]
                            /\ obj'[p].owner = obj[p].owner /\ obj'[p].state = obj[p].state
    BY <1>0, <1>8, <1>9
  <1>11. TypeOK'
    BY <1>3, <1>8, <1>10 DEF IInv, TypeOK
  <1>12. DialsAgree'
    BY <1>0, <1>3, <1>4, <1>6, <1>10 DEF IInv, DialsAgree, Mine, LegsOf
  <1>13. DialIsSettled'
    BY <1>3, <1>6, <1>10 DEF IInv, DialIsSettled
  <1>14. CASE ~obj[o].multi
    <2>1. \A p \in Objs : obj'[p].id = obj[p].id /\ obj'[p].multi = obj[p].multi
      BY <1>0, <1>4, <1>10, <1>14 DEF Obj
    <2> QED
      BY <1>3, <1>8, <1>10, <1>11, <1>12, <1>13, <2>1, DialStepKeeps
  <1>15. CASE obj[o].multi
    <2>0. obj[o].id = None /\ obj[o].state = "none" /\ obj[o].owner = "application"
      BY <1>4, <1>15 DEF IInv, NoIdYet, Mine
    <2>1. /\ \A p : Listed(p)' <=> Listed(p)
          /\ \A p, q : Before(p, q)' <=> Before(p, q)
          /\ \A p \in Objs : (Mine(p)' <=> Mine(p)) /\ (Held(p)' <=> Held(p))
          /\ \A p \in Objs : LegsOf(p)' = LegsOf(p)
          /\ \A p \in Objs : obj[p].id # None => p # o /\ obj'[p] = obj[p]
      BY <1>3, <1>8, <1>10, <2>0 DEF Listed, Before, Mine, Held, LegsOf
    <2>2. NoDuplicates' /\ ListIsAccurate'
      BY <1>8, <1>10, <2>1 DEF IInv, NoDuplicates, ListIsAccurate
    <2>3. IdIsKnown'
      BY <1>0, <1>1, <1>2, <1>3, <1>10, <2>0, <2>1 DEF IInv, IdIsKnown
    <2>4. NoIdYet'
      BY <1>0, <1>2, <1>10, <2>1 DEF IInv, NoIdYet
    <2>5. OneIsMine'
      <3> SUFFICES ASSUME NEW p \in Objs, NEW q \in Objs, p # q,
                          obj'[p].id # None, obj'[p].id = obj'[q].id
                   PROVE  Mine(p) \/ Mine(q)
        BY <2>1 DEF OneIsMine
      <3>1. CASE p = o \/ q = o
        BY <1>4, <3>1
      <3>2. CASE p # o /\ q # o
        BY <1>10, <3>2 DEF IInv, OneIsMine
      <3> QED
        BY <3>1, <3>2
    <2>6. MineIsFirst'
      BY <1>3, <1>4, <1>10, <2>1 DEF IInv, MineIsFirst
    <2>7. LegsAreKnown'
      <3> SUFFICES ASSUME NEW k \in Legs
                   PROVE  /\ leg[k].tag # None =>
                               leg[k].state # "none" /\ dialing'[leg[k].tag] # "no"
                          /\ leg[k].state \notin {"none", "ended"} =>
                               \E p \in Objs : Listed(p) /\ obj'[p].id = k
        BY <1>3, <2>1 DEF LegsAreKnown
      <3>1. leg[k].tag \in Objs \cup {None}
        BY DEF IInv, TypeOK
      <3>2. leg[k].tag # None => leg[k].state # "none" /\ dialing'[leg[k].tag] # "no"
        BY <1>3, <3>1 DEF IInv, LegsAreKnown
      <3>3. ASSUME leg[k].state \notin {"none", "ended"}
            PROVE  \E p \in Objs : Listed(p) /\ obj'[p].id = k
        <4>1. PICK p \in Objs : Listed(p) /\ obj[p].id = k
          BY <3>3 DEF IInv, LegsAreKnown
        <4> QED
          BY <1>0, <2>1, <4>1
      <3> QED
        BY <3>2, <3>3
    <2>8. FollowsItsLeg'
      <3> SUFFICES ASSUME NEW p \in Objs, Held(p), obj'[p].id # None
                   PROVE  \/ obj'[p].state = leg[obj'[p].id].state
                          \/ /\ obj'[p].state = "none" /\ obj'[p].owner = "inbound"
                             /\ leg[obj'[p].id].state = "created"
                          \/ /\ obj'[p].state = "none" /\ LegsOf(p) # {}
                             /\ leg[obj'[p].id].state = "answered"
        BY <1>3, <2>1 DEF FollowsItsLeg
      <3>1. CASE p = o
        BY <1>1, <1>10, <2>0, <3>1
      <3>2. CASE p # o
        BY <1>10, <3>2 DEF IInv, FollowsItsLeg
      <3> QED
        BY <3>1, <3>2
    <2>9. ListedHasLeg'
      <3> SUFFICES ASSUME NEW p \in Objs, Listed(p), obj'[p].id # None,
                          leg[obj'[p].id].state = "ended"
                   PROVE  \E q \in Objs \ {p} : Mine(q)' /\ obj'[q].id = obj'[p].id
        BY <1>3, <2>1 DEF ListedHasLeg
      <3>1. p # o
        BY <1>1, <1>10
      <3>2. obj'[p] = obj[p]
        BY <1>10, <3>1
      <3>3. PICK q \in Objs \ {p} : Mine(q) /\ obj[q].id = obj[p].id
        BY <3>2 DEF IInv, ListedHasLeg
      <3>4. obj'[q] = obj[q]
        BY <2>1, <3>2, <3>3
      <3> QED
        BY <2>1, <3>2, <3>3, <3>4
    <2> QED
      BY <1>11, <1>12, <1>13, <2>2, <2>3, <2>4, <2>5, <2>6, <2>7, <2>8, <2>9 DEF IInv
  <1> QED
    BY <1>14, <1>15

------------------------------------------------------------------------------
(* The calls of the server.                                                  *)

(* No object has the id of a call that the server has not created.            *)
LEMMA UnknownIsNotFound ==
  ASSUME IInv, NEW l \in Legs, leg[l].state = "none"
  PROVE  CallById(l) = None /\ leg[l].tag = None
  <1>1. None \notin Legs
    BY NoneAssumption
  <1>2. \A o \in Objs : obj[o].id # l
    BY <1>1 DEF IInv, IdIsKnown
  <1> QED
    BY <1>2, FoundById DEF IInv, LegsAreKnown

LEMMA LegCreatedKeeps ==
  ASSUME IInv, NEW l \in Legs, NEW o \in Objs, LegCreated(l, o)
  PROVE  IInv'
  <1>0. None \notin Objs
    BY NoneAssumption
  <1>1. /\ leg[l].state = "none" /\ dialing[o] = "dialing"
        /\ ~obj[o].multi => LegsOf(o) = {}
        /\ leg' = [leg EXCEPT ![l] = [state |-> "created", tag |-> o]]
        /\ OnState(l, o, "created") /\ UNCHANGED dialing
    BY DEF LegCreated
  <1>2. Mine(o) /\ obj[o].id = None
    BY <1>1 DEF IInv, DialsAgree, IdIsKnown, LegsOf, TypeOK, Obj
  <1>3. Listed(o)
    BY <1>2 DEF IInv, NoIdYet, ListIsAccurate, Mine
  <1>4. CallById(l) = None /\ CallByTag(o) = o
    BY <1>1, <1>3, UnknownIsNotFound, FoundByTag DEF IInv
  <1>5. CASE obj[o].multi
    <2>1. PICK new \in Objs : NewCallObject(new, "notified", l, FALSE)
      BY <1>1, <1>4, <1>5 DEF OnState
    <2> QED
      BY <1>1, <1>5, <2>1, NewForLeg
  <1>6. CASE ~obj[o].multi
    <2>1. Changed(o, l, "created")
      BY <1>0, <1>1, <1>4, <1>6 DEF OnState
    <2> QED
      BY <1>1, <1>6, <2>1, OnlyLegKeeps
  <1> QED
    BY <1>5, <1>6

(* A call that no dial of this client asked for.                              *)
LEMMA UndialedKeeps ==
  ASSUME IInv, NEW l \in Legs, leg[l].state = "none",
         leg' = [leg EXCEPT ![l].state = "created"], UNCHANGED dialing,
         NEW w \in {"inbound", "notified"},
         \E new \in Objs : NewCallObject(new, w, l, FALSE)
  PROVE  IInv'
  <1>1. leg[l].tag = None
    BY UnknownIsNotFound
  <1>2. leg[l] \in [state : CallState, tag : Objs \cup {None}]
    BY DEF IInv, TypeOK
  <1>3. [leg[l] EXCEPT !.state = "created"] = [state |-> "created", tag |-> None]
    BY <1>1, <1>2
  <1>4. leg' = [leg EXCEPT ![l] = [state |-> "created", tag |-> None]]
    BY <1>3
  <1>5. PICK new \in Objs : NewCallObject(new, w, l, FALSE)
    OBVIOUS
  <1> QED
    BY <1>4, <1>5, NewForLeg

LEMMA PeerCreatedKeeps ==
  ASSUME IInv, NEW l \in Legs, PeerCreated(l)
  PROVE  IInv'
  <1>1. /\ leg[l].state = "none" /\ leg' = [leg EXCEPT ![l].state = "created"]
        /\ OnState(l, None, "created") /\ UNCHANGED dialing
    BY DEF PeerCreated
  <1>2. ~Listed(None)
    BY NoneAssumption DEF IInv, TypeOK, Listed
  <1>3. CallById(l) = None /\ CallByTag(None) = None
    BY <1>1, <1>2, UnknownIsNotFound, FoundByTag DEF IInv
  <1>4. \E new \in Objs : NewCallObject(new, "notified", l, FALSE)
    BY <1>1, <1>3 DEF OnState
  <1> QED
    BY <1>1, <1>4, UndialedKeeps

LEMMA InboundCreatedKeeps ==
  ASSUME IInv, NEW l \in Legs, InboundCreated(l)
  PROVE  IInv'
  BY UndialedKeeps DEF InboundCreated, OnReceive

(* The notification that a call moved on reaches an object of the call.       *)
LEMMA AdvanceIsHeard ==
  ASSUME IInv, NEW l \in Legs, NEW s \in CallState, LegAdvances(l, s),
         leg[l].state \notin {"none", "ended"}
  PROVE  \E x \in Objs : /\ CallById(l) = x /\ Listed(x) /\ obj[x].id = l
                         /\ Changed(x, l, s)
  <1>0. None \notin Objs /\ None \notin Legs
    BY NoneAssumption
  <1>1. PICK o \in Objs : Listed(o) /\ obj[o].id = l
    BY DEF IInv, LegsAreKnown
  <1> DEFINE x == CallById(l)
  <1>2. x \in Objs /\ Listed(x) /\ obj[x].id = l
    BY <1>1, FoundById DEF IInv
  <1>3. x # None /\ ~obj[x].multi
    BY <1>0, <1>2 DEF IInv, IdIsKnown
  <1>4. Changed(x, l, s)
    BY <1>3 DEF LegAdvances, OnState
  <1> QED
    BY <1>2, <1>4

LEMMA LegAdvancesKeeps ==
  ASSUME IInv, NEW l \in Legs, NEW s \in CallState, LegAdvances(l, s)
  PROVE  IInv'
  <1>1. /\ leg[l].state # "none" /\ Rank(s) > Rank(leg[l].state)
        /\ leg' = [leg EXCEPT ![l].state = s]
        /\ UNCHANGED dialing
        /\ leg[l].state \in CallState
    BY DEF LegAdvances, IInv, TypeOK
  <1>2. s # "none" /\ leg[l].state # "ended"
    BY <1>1 DEF Rank, CallState
  <1>3. PICK x \in Objs : /\ CallById(l) = x /\ Listed(x) /\ obj[x].id = l
                          /\ Changed(x, l, s)
    BY <1>1, <1>2, AdvanceIsHeard
  <1> QED
    BY <1>1, <1>2, <1>3, FollowingKeeps

------------------------------------------------------------------------------
(* How objects change.                                                        *)

(* What the rest of the proofs uses of the order of states.                   *)
LEMMA RankIsOrder ==
  /\ \A s \in CallState : Rank(s) \in Nat
  /\ Rank("none") = 0 /\ Rank("created") = 1
  BY DEF Rank, CallState

(* No object is ahead of the call it is about, whoever holds it. *)
Behind ==
  \A o \in Objs : obj[o].id # None => Rank(obj[o].state) <= Rank(leg[obj[o].id].state)

(* Going forward is all that happens to an object.                            *)
Forward(o) ==
  /\ Rank(obj'[o].state) >= Rank(obj[o].state)
  /\ obj[o].id # None => obj'[o].id = obj[o].id

(* Its dial is left alone, or was in progress.                                *)
DialStep(o) ==
  \/ obj'[o].dial = obj[o].dial /\ obj'[o].request = obj[o].request
  \/ DialPhase(o) = "running" /\ obj'[o].dial # "none"

Good(o) == Forward(o) /\ DialStep(o)

(* A step that gives no object another id or state.                           *)
LEMMA SameIsBehind ==
  ASSUME IInv, Behind, UNCHANGED leg,
         \A p \in Objs : obj'[p].state = obj[p].state /\ obj'[p].id = obj[p].id
  PROVE  Behind' /\ \A p \in Objs : Forward(p)
  <1>1. \A p \in Objs : obj[p].state \in CallState
    BY DEF IInv, TypeOK, Obj
  <1> QED
    BY <1>1, RankIsOrder DEF Behind, Forward

(* A Call object that is made for a call the server has just created, or for  *)
(* one that it does not know yet.                                             *)
LEMMA NewIsBehind ==
  ASSUME IInv, Behind, NEW o \in Objs, NEW w \in {"application", "inbound", "notified"},
         NEW l \in Legs \cup {None}, NEW multi \in BOOLEAN, NewCallObject(o, w, l, multi),
         \A p \in Objs : obj[p].id # None => leg'[obj[p].id] = leg[obj[p].id],
         l # None => leg'[l].state \in CallState
  PROVE  Behind' /\ \A p \in Objs : Good(p)
  <1>1. /\ obj[o].dial = "none" /\ obj[o].id = None
        /\ obj[o].request = "none" /\ obj'[o].request = "none"
        /\ obj'[o].id = l /\ obj'[o].state = "none" /\ obj'[o].dial = "none"
        /\ \A p \in Objs : p # o => obj'[p] = obj[p]
    BY NewObject DEF IInv, DialsAgree
  <1>2. /\ obj[o].state = "none"
        /\ \A p \in Objs : obj[p].state \in CallState
    BY <1>1 DEF IInv, NoIdYet, TypeOK, Obj
  <1>3. Behind'
    <2> SUFFICES ASSUME NEW p \in Objs, obj'[p].id # None
                 PROVE  Rank(obj'[p].state) <= Rank(leg'[obj'[p].id].state)
      BY DEF Behind
    <2>1. CASE p = o
      BY <1>1, <2>1, RankIsOrder
    <2>2. CASE p # o
      BY <1>1, <2>2 DEF Behind
    <2> QED
      BY <2>1, <2>2
  <1>4. \A p \in Objs : Good(p)
    BY <1>1, <1>2, RankIsOrder DEF Good, Forward, DialStep, DialPhase
  <1> QED
    BY <1>3, <1>4

(* The object x of a call that moves on learns the new state.                 *)
LEMMA ChangedIsBehind ==
  ASSUME IInv, Behind, NEW x \in Objs, Listed(x), NEW l \in Legs,
         NEW s \in CallState, s # "none", obj[x].id \in {None, l},
         Changed(x, l, s),
         Rank(leg[l].state) < Rank(s), leg' = [leg EXCEPT ![l].state = s]
                                  \/ \E t : leg' = [leg EXCEPT ![l] = [state |-> s, tag |-> t]]
  PROVE  Behind' /\ \A p \in Objs : Good(p)
  <1>1. /\ obj'[x].id = l /\ obj'[x].state = s
        /\ obj'[x].dial = IF s = "ended" /\ obj[x].dial = "waiting" THEN "failed" ELSE obj[x].dial
        /\ obj'[x].request = obj[x].request
        /\ \A p \in Objs : p # x => obj'[p] = obj[p]
    BY ChangedObject
  <1>2. /\ \A p \in Objs : obj[p].state \in CallState /\ obj[p].id \in Legs \cup {None}
        /\ \A k \in Legs : leg[k].state \in CallState
        /\ leg'[l].state = s
        /\ \A k \in Legs : k # l => leg'[k] = leg[k]
    BY DEF IInv, TypeOK, Obj
  <1>3. \A p \in Objs : obj[p].id = l => Rank(obj[p].state) <= Rank(leg[l].state)
    BY NoneAssumption DEF Behind
  <1>4. /\ \A p \in Objs : Rank(obj[p].state) \in Nat
        /\ Rank(leg[l].state) \in Nat /\ Rank(s) \in Nat
    BY <1>2, RankIsOrder
  <1>5. Rank(obj[x].state) <= Rank(s)
    <2>1. CASE obj[x].id = l
      BY <1>3, <1>4, <2>1
    <2>2. CASE obj[x].id = None
      BY <1>4, <2>2, RankIsOrder DEF IInv, NoIdYet
    <2> QED
      BY <2>1, <2>2
  <1>6. Behind'
    <2> SUFFICES ASSUME NEW p \in Objs, obj'[p].id # None
                 PROVE  Rank(obj'[p].state) <= Rank(leg'[obj'[p].id].state)
      BY DEF Behind
    <2>1. CASE p = x
      BY <1>1, <1>2, <1>4, <2>1
    <2>2. CASE p # x /\ obj[p].id = l
      BY <1>1, <1>2, <1>3, <1>4, <2>2
    <2>3. CASE p # x /\ obj[p].id # l
      BY <1>1, <1>2, <2>3 DEF Behind
    <2> QED
      BY <2>1, <2>2, <2>3
  <1>7. Good(x)
    BY <1>1, <1>4, <1>5 DEF Good, Forward, DialStep, DialPhase
  <1>8. \A p \in Objs : p # x => Good(p)
    BY <1>1, <1>4 DEF Good, Forward, DialStep, DialPhase
  <1> QED
    BY <1>6, <1>7, <1>8

(* The notification that a call moved on.                                     *)
LEMMA AdvancedIsBehind ==
  ASSUME IInv, Behind, NEW l \in Legs, NEW s \in CallState, LegAdvances(l, s)
  PROVE  Behind' /\ \A p \in Objs : Good(p)
  <1>1. /\ leg[l].state # "none" /\ Rank(s) > Rank(leg[l].state)
        /\ leg' = [leg EXCEPT ![l].state = s]
        /\ leg[l].state \in CallState
    BY DEF LegAdvances, IInv, TypeOK
  <1>2. s # "none" /\ leg[l].state # "ended"
    BY <1>1 DEF Rank, CallState
  <1>3. PICK x \in Objs : Listed(x) /\ obj[x].id = l /\ Changed(x, l, s)
    BY <1>1, <1>2, AdvanceIsHeard
  <1>4. Rank(leg[l].state) < Rank(s)
    BY <1>1, RankIsOrder
  <1> QED
    BY <1>1, <1>2, <1>3, <1>4, ChangedIsBehind

(* A dial that fails changes no object but its own, and that only in its dial. *)
LEMMA FailedDialObjects ==
  ASSUME IInv, NEW o \in Objs, DialFailed(o)
  PROVE  \A p \in Objs : /\ obj'[p].state = obj[p].state /\ obj'[p].id = obj[p].id
                         /\ DialStep(p)
  <1>0. obj \in [Objs -> Obj] /\ None \notin Objs
    BY NoneAssumption DEF IInv, TypeOK
  <1>1. OnDial(o, "failed", None)
    BY DEF DialFailed
  <1>2. CASE CallByTag(o) = None
    <2>1. obj' = obj
      BY <1>1, <1>2 DEF OnDial
    <2> QED
      BY <2>1 DEF DialStep
  <1>3. CASE CallByTag(o) = o /\ CallByTag(o) # None
    <2> DEFINE new == [obj[o] EXCEPT
                         !.dial = IF obj[o].dial = "waiting" THEN "failed" ELSE obj[o].dial,
                         !.id = obj[o].id,
                         !.multi = obj[o].multi /\ TRUE]
    <2>1. obj' = [obj EXCEPT ![o] = new]
      BY <1>1, <1>3 DEF OnDial
    <2>2. /\ new.id = obj[o].id /\ new.state = obj[o].state
          /\ new.dial = IF obj[o].dial = "waiting" THEN "failed" ELSE obj[o].dial
          /\ new.request = obj[o].request
      BY <1>0 DEF Obj
    <2> HIDE DEF new
    <2>3. /\ obj'[o].id = obj[o].id /\ obj'[o].state = obj[o].state
          /\ obj'[o].dial = IF obj[o].dial = "waiting" THEN "failed" ELSE obj[o].dial
          /\ obj'[o].request = obj[o].request
          /\ \A p \in Objs : p # o => obj'[p] = obj[p]
      BY <1>0, <2>1, <2>2
    <2> QED
      BY <2>3 DEF DialStep, DialPhase
  <1> QED
    BY <1>2, <1>3, FoundByTag DEF IInv

(* The outcome of a dial gives its object an id at most once.                 *)
LEMMA AnsweredIsBehind ==
  ASSUME IInv, Behind, NEW o \in Objs, DialAnswered(o)
  PROVE  Behind' /\ \A p \in Objs : Good(p)
  <1>1. PICK l \in LegsOf(o) : leg[l].state = "answered" /\ OnDial(o, "answered", l)
    BY DEF DialAnswered
  <1>2. /\ l \in Legs /\ leg' = leg /\ dialing[o] = "dialing"
        /\ obj \in [Objs -> Obj]
        /\ \A p \in Objs : obj[p].state \in CallState
    BY <1>1 DEF LegsOf, DialAnswered, IInv, TypeOK, Obj
  <1>3. (~obj[o].multi => obj[o].id = l) /\ (obj[o].multi => obj[o].id = None)
    BY <1>1, <1>2 DEF IInv, DialsAgree, IdIsKnown
  <1>4. CASE CallByTag(o) = None
    <2>1. obj' = obj
      BY <1>1, <1>4 DEF OnDial
    <2> QED
      BY <1>2, <2>1, SameIsBehind DEF Good, DialStep
  <1>5. CASE CallByTag(o) # None
    <2>1. CallByTag(o) = o
      BY <1>5, FoundByTag DEF IInv
    <2> DEFINE new == [obj[o] EXCEPT
                         !.dial = IF obj[o].dial = "waiting" THEN "answered" ELSE obj[o].dial,
                         !.id = l,
                         !.multi = obj[o].multi /\ FALSE]
    <2>2. obj' = [obj EXCEPT ![o] = new]
      BY <1>1, <1>5, <2>1 DEF OnDial
    <2>3. /\ new.id = l /\ new.state = obj[o].state
          /\ new.dial = IF obj[o].dial = "waiting" THEN "answered" ELSE obj[o].dial
          /\ new.request = obj[o].request
      BY <1>2 DEF Obj
    <2> HIDE DEF new
    <2>4. /\ obj'[o].id = l /\ obj'[o].state = obj[o].state
          /\ obj'[o].dial = IF obj[o].dial = "waiting" THEN "answered" ELSE obj[o].dial
          /\ obj'[o].request = obj[o].request
          /\ \A p \in Objs : p # o => obj'[p] = obj[p]
      BY <1>2, <2>2, <2>3
    <2>5. Rank(obj[o].state) <= Rank(leg[l].state)
      <3>1. CASE obj[o].id = l
        BY <1>2, <3>1, NoneAssumption DEF Behind
      <3>2. CASE obj[o].id = None
        BY <1>1, <1>2, <3>2, RankIsOrder DEF IInv, NoIdYet, TypeOK
      <3> QED
        BY <1>3, <3>1, <3>2 DEF IInv, TypeOK, Obj
    <2>6. Behind'
      BY <1>2, <2>4, <2>5 DEF Behind
    <2>7. \A p \in Objs : Forward(p)
      BY <1>2, <1>3, <2>4, RankIsOrder DEF Forward, IInv, TypeOK, Obj
    <2>8. \A p \in Objs : DialStep(p)
      BY <2>4 DEF DialStep, DialPhase
    <2> QED
      BY <2>6, <2>7, <2>8 DEF Good
  <1> QED
    BY <1>4, <1>5

(* The notification of a call the server created.                             *)
LEMMA CreatedIsBehind ==
  ASSUME IInv, Behind, NEW l \in Legs, leg[l].state = "none",
         NEW t \in Objs \cup {None},
         t # None => /\ dialing[t] = "dialing" /\ (~obj[t].multi => LegsOf(t) = {})
                     /\ leg' = [leg EXCEPT ![l] = [state |-> "created", tag |-> t]],
         t = None => leg' = [leg EXCEPT ![l].state = "created"],
         OnState(l, t, "created")
  PROVE  Behind' /\ \A p \in Objs : Good(p)
  <1>0. /\ None \notin Objs /\ None \notin Legs
        /\ leg'[l].state = "created"
        /\ \A k \in Legs : k # l => leg'[k] = leg[k]
        /\ \A p \in Objs : obj[p].id \in Legs \cup {None} /\ obj[p].id # l
    BY NoneAssumption DEF IInv, TypeOK, Obj, IdIsKnown
  <1>1. CallById(l) = None
    BY UnknownIsNotFound
  <1>2. CASE \E new \in Objs : NewCallObject(new, "notified", l, FALSE)
    <2>1. PICK new \in Objs : NewCallObject(new, "notified", l, FALSE)
      BY <1>2
    <2>2. /\ \A p \in Objs : obj[p].id # None => leg'[obj[p].id] = leg[obj[p].id]
          /\ leg'[l].state \in CallState
      BY <1>0 DEF CallState
    <2> QED
      BY <2>1, <2>2, NewIsBehind
  <1>3. CASE CallByTag(t) # None /\ ~obj[CallByTag(t)].multi /\ Changed(CallByTag(t), l, "created")
    <2>1. CallByTag(t) = t /\ Listed(t)
      BY <1>3, FoundByTag DEF IInv
    <2>2. t \in Objs
      BY <1>0, <2>1 DEF IInv, TypeOK, Listed
    <2>3. obj[t].id = None
      BY <1>0, <1>3, <2>1, <2>2 DEF IInv, DialsAgree, IdIsKnown, LegsOf
    <2>4. Rank(leg[l].state) < Rank("created")
      BY RankIsOrder
    <2> QED
      BY <1>0, <1>3, <2>1, <2>2, <2>3, <2>4, ChangedIsBehind DEF CallState
  <1> QED
    BY <1>1, <1>2, <1>3 DEF OnState

(* The request of a dial settles nothing but the dial, which was in progress. *)
LEMMA RequestObjects ==
  ASSUME IInv, Request
  PROVE  /\ UNCHANGED leg
         /\ \A p \in Objs : /\ obj'[p].state = obj[p].state /\ obj'[p].id = obj[p].id
                            /\ DialStep(p)
  <1>1. PICK o \in Objs : DialAccepted(o) \/ DialRefused(o) \/ DialTimedOut(o)
    BY DEF Request
  <1>2. obj[o].request = "sent" /\ UNCHANGED leg
    BY <1>1 DEF DialAccepted, DialRefused, DialTimedOut
  <1>3. /\ obj[o].dial # "none" /\ obj'[o].dial # "none"
        /\ \A p \in Objs : /\ obj'[p].state = obj[p].state /\ obj'[p].id = obj[p].id
                           /\ p # o => obj'[p] = obj[p]
    BY <1>1, RequestObject
  <1> QED
    BY <1>2, <1>3 DEF DialStep, DialPhase

(* So do all steps that make objects, change them or answer a dial.           *)
LEMMA OtherStepsAreGood ==
  ASSUME IInv, Behind, Next, ~Request, ~\E o \in Objs : Dial(o) \/ DialFailed(o)
  PROVE  Behind' /\ \A p \in Objs : Good(p)
  <1>0. None \notin Objs /\ None \notin Legs
    BY NoneAssumption
  <1>1. ASSUME NEW o \in Objs, NEW multi \in BOOLEAN, NewCall(o, multi)
        PROVE  Behind' /\ \A p \in Objs : Good(p)
    BY <1>1, NewIsBehind DEF NewCall
  <1>2. ASSUME NEW o \in Objs, DialAnswered(o) PROVE Behind' /\ \A p \in Objs : Good(p)
    BY <1>2, AnsweredIsBehind
  <1>3. ASSUME NEW l \in Legs, NEW o \in Objs, LegCreated(l, o)
        PROVE  Behind' /\ \A p \in Objs : Good(p)
    BY <1>0, <1>3, CreatedIsBehind DEF LegCreated
  <1>4. ASSUME NEW l \in Legs, PeerCreated(l) PROVE Behind' /\ \A p \in Objs : Good(p)
    BY <1>4, CreatedIsBehind DEF PeerCreated
  <1>5. ASSUME NEW l \in Legs, InboundCreated(l) PROVE Behind' /\ \A p \in Objs : Good(p)
    <2>1. PICK new \in Objs : NewCallObject(new, "inbound", l, FALSE)
      BY <1>5 DEF InboundCreated, OnReceive
    <2>2. /\ \A p \in Objs : obj[p].id # None => leg'[obj[p].id] = leg[obj[p].id]
          /\ leg'[l].state \in CallState
      BY <1>0, <1>5 DEF InboundCreated, IInv, TypeOK, Obj, IdIsKnown, CallState
    <2> QED
      BY <2>1, <2>2, NewIsBehind
  <1>6. ASSUME NEW l \in Legs, NEW s \in CallState, LegAdvances(l, s)
        PROVE  Behind' /\ \A p \in Objs : Good(p)
    BY <1>6, AdvancedIsBehind
  <1> QED
    BY <1>1, <1>2, <1>3, <1>4, <1>5, <1>6 DEF Next, User, Server

(* Every step keeps objects behind their calls and lets none go back.         *)
LEMMA StepsGoForward ==
  ASSUME IInv, Behind, [Next]_vars
  PROVE  Behind' /\ \A p \in Objs : Forward(p)
  <1>1. ASSUME UNCHANGED leg,
               \A p \in Objs : obj'[p].state = obj[p].state /\ obj'[p].id = obj[p].id
        PROVE  Behind' /\ \A p \in Objs : Forward(p)
    BY <1>1, SameIsBehind
  <1>2. CASE \E o \in Objs : Dial(o)
    BY <1>1, <1>2 DEF Dial, IInv, TypeOK, Obj
  <1>6. CASE Request
    BY <1>1, <1>6, RequestObjects
  <1>3. CASE \E o \in Objs : DialFailed(o)
    BY <1>1, <1>3, FailedDialObjects DEF DialFailed
  <1>4. CASE UNCHANGED vars
    BY <1>1, <1>4 DEF vars
  <1>5. CASE Next /\ ~Request /\ ~\E o \in Objs : Dial(o) \/ DialFailed(o)
    BY <1>5, OtherStepsAreGood DEF Good
  <1> QED
    BY <1>2, <1>3, <1>4, <1>5, <1>6

------------------------------------------------------------------------------
(* dial() implements module Operations.                                       *)

(* Objects whose dials are left alone or settled make a step of Operations.   *)
LEMMA DialsProgress ==
  ASSUME IInv, TypeOK', \A p \in Objs : DialStep(p)
  PROVE  [Abstract!OpsNext]_(Abstract!opsVars)
  <1> DEFINE phase == [p \in Objs |-> DialPhase(p)]
  <1>1. \A p \in Objs : DialPhase(p)' \in Abstract!Phase
    BY DEF DialPhase, Abstract!Phase, TypeOK, Obj
  <1>2. \A p \in Objs : \/ DialPhase(p)' = DialPhase(p)
                        \/ DialPhase(p) = "running" /\ DialPhase(p)' \in Abstract!Settled
    BY DEF DialPhase, DialStep, Abstract!Settled
  <1>3. phase' = [p \in Objs |-> DialPhase(p)']
    OBVIOUS
  <1>4. /\ phase' \in [Objs -> Abstract!Phase]
        /\ \A p \in Objs : \/ phase'[p] = phase[p]
                           \/ phase[p] = "running" /\ phase'[p] \in Abstract!Settled
    BY <1>1, <1>2, <1>3
  <1>5. Abstract!Progress
    BY <1>4 DEF Abstract!Progress
  <1> QED
    BY <1>5 DEF Abstract!OpsNext

LEMMA DialBegins ==
  ASSUME IInv, NEW o \in Objs, Dial(o)
  PROVE  [Abstract!OpsNext]_(Abstract!opsVars)
  <1> DEFINE phase == [p \in Objs |-> DialPhase(p)]
  <1>1. obj \in [Objs -> Obj]
    BY DEF IInv, TypeOK
  <1>2. /\ obj[o].dial = "none" /\ obj'[o].dial = "waiting" /\ obj'[o].request = "sent"
        /\ \A p \in Objs : p # o => obj'[p] = obj[p]
    BY <1>1 DEF Dial, Obj
  <1>3. /\ DialPhase(o) = "idle" /\ DialPhase(o)' = "running"
        /\ \A p \in Objs : p # o => DialPhase(p)' = DialPhase(p)
    BY <1>2 DEF DialPhase
  <1>4. phase' = [p \in Objs |-> DialPhase(p)']
    OBVIOUS
  <1>5. phase[o] = "idle" /\ phase' = [phase EXCEPT ![o] = "running"]
    BY <1>3, <1>4
  <1>6. Abstract!Begin(o)
    BY <1>5 DEF Abstract!Begin
  <1> QED
    BY <1>6 DEF Abstract!OpsNext

LEMMA StepsAreOperations ==
  ASSUME IInv, Behind, IInv', [Next]_vars
  PROVE  [Abstract!OpsNext]_(Abstract!opsVars)
  <1>0. TypeOK' /\ obj \in [Objs -> Obj]
    BY DEF IInv, TypeOK
  <1>1. ASSUME \A p \in Objs : DialStep(p)
        PROVE  [Abstract!OpsNext]_(Abstract!opsVars)
    BY <1>0, <1>1, DialsProgress
  <1>2. CASE \E o \in Objs : Dial(o)
    BY <1>2, DialBegins
  <1>3. CASE Request
    BY <1>1, <1>3, RequestObjects
  <1>4. CASE \E o \in Objs : DialFailed(o)
    BY <1>1, <1>4, FailedDialObjects
  <1>5. CASE UNCHANGED vars
    BY <1>1, <1>5 DEF vars, DialStep
  <1>6. CASE ~UNCHANGED vars /\ ~Request /\ ~\E o \in Objs : Dial(o) \/ DialFailed(o)
    BY <1>1, <1>6, OtherStepsAreGood DEF Good
  <1> QED
    BY <1>2, <1>3, <1>4, <1>5, <1>6

------------------------------------------------------------------------------
(* The theorems.                                                             *)

LEMMA InitEstablishes == Init => IInv
  <1> SUFFICES ASSUME Init PROVE IInv
    OBVIOUS
  <1>1. calls = <<>> /\ DOMAIN calls = {} /\ calls \in Seq(Objs)
    BY DEF Init
  <1>2. \A o \in Objs : /\ obj[o] \in Obj
                        /\ obj[o].owner = "none" /\ obj[o].id = None
                        /\ obj[o].multi = FALSE
                        /\ obj[o].state = "none" /\ obj[o].dial = "none"
                        /\ obj[o].request = "none"
                        /\ dialing[o] = "no"
    BY DEF Init, NoObj, Obj, CallState
  <1>3. \A l \in Legs : leg[l].state = "none" /\ leg[l].tag = None
    BY DEF Init
  <1>4. TypeOK
    BY <1>1, <1>2 DEF Init, TypeOK, CallState
  <1>5. NoDuplicates /\ ListIsAccurate /\ MineIsFirst
    BY <1>1, <1>2 DEF NoDuplicates, ListIsAccurate, MineIsFirst, Listed
  <1>6. IdIsKnown /\ NoIdYet /\ OneIsMine
    BY <1>2 DEF IdIsKnown, NoIdYet, OneIsMine
  <1>7. DialsAgree /\ DialIsSettled
    BY <1>2 DEF DialsAgree, DialIsSettled
  <1>8. LegsAreKnown /\ FollowsItsLeg /\ ListedHasLeg
    BY <1>2, <1>3 DEF LegsAreKnown, FollowsItsLeg, ListedHasLeg
  <1> QED
    BY <1>4, <1>5, <1>6, <1>7, <1>8 DEF IInv

LEMMA StutterKeeps == IInv /\ UNCHANGED vars => IInv'
  <1> SUFFICES ASSUME IInv, UNCHANGED vars PROVE IInv'
    OBVIOUS
  <1>1. TypeOK'
    BY DEF IInv, TypeOK, vars
  <1>2. DialsAgree' /\ DialIsSettled'
    BY DEF IInv, DialsAgree, DialIsSettled, Mine, LegsOf, vars
  <1> QED
    BY <1>1, <1>2, DialStepKeeps DEF vars

LEMMA NextKeeps == IInv /\ [Next]_vars => IInv'
  <1> SUFFICES ASSUME IInv, [Next]_vars PROVE IInv'
    OBVIOUS
  <1>1. ASSUME NEW o \in Objs, NEW multi \in BOOLEAN, NewCall(o, multi) PROVE IInv'
    BY <1>1, NewCallKeeps
  <1>2. ASSUME NEW o \in Objs, Dial(o) PROVE IInv'
    BY <1>2, DialKeeps
  <1>3. ASSUME NEW o \in Objs, DialRefused(o) PROVE IInv'
    BY <1>3, DialRefusedKeeps
  <1>11. ASSUME NEW o \in Objs, DialAccepted(o) \/ DialTimedOut(o) PROVE IInv'
    BY <1>11, RequestKeeps
  <1>4. ASSUME NEW o \in Objs, DialAnswered(o) PROVE IInv'
    BY <1>4, DialAnsweredKeeps
  <1>5. ASSUME NEW o \in Objs, DialFailed(o) PROVE IInv'
    BY <1>5, DialFailedKeeps
  <1>6. ASSUME NEW l \in Legs, NEW o \in Objs, LegCreated(l, o) PROVE IInv'
    BY <1>6, LegCreatedKeeps
  <1>7. ASSUME NEW l \in Legs, PeerCreated(l) PROVE IInv'
    BY <1>7, PeerCreatedKeeps
  <1>8. ASSUME NEW l \in Legs, InboundCreated(l) PROVE IInv'
    BY <1>8, InboundCreatedKeeps
  <1>9. ASSUME NEW l \in Legs, NEW s \in CallState, LegAdvances(l, s) PROVE IInv'
    BY <1>9, LegAdvancesKeeps
  <1>10. ASSUME UNCHANGED vars PROVE IInv'
    BY <1>10, StutterKeeps
  <1> QED
    BY <1>1, <1>2, <1>3, <1>4, <1>5, <1>6, <1>7, <1>8, <1>9, <1>10, <1>11
       DEF Next, User, Request, Server

LEMMA Invariance == Spec => []IInv
  BY InitEstablishes, NextKeeps, PTL DEF Spec

(* The list and the Call objects are what their types say, whatever the order *)
(* of the application's calls and of the server's notifications.              *)
THEOREM TypeCorrect == Spec => []TypeOK
  <1>1. IInv => TypeOK
    BY DEF IInv
  <1> QED
    BY <1>1, Invariance, PTL

(* _onState() and the other handlers, which look a call up by its id, reach   *)
(* the object the application holds and not the one the list made for the leg *)
(* that won: the application's object is the first of the two.                *)
THEOREM HeldCallsAreFound == Spec => []HeldIsFound
  BY HeldFound, Invariance, PTL

(* The object the application holds is in the state the server says its call  *)
(* is in: what a leg's notification changes is never another call.            *)
THEOREM CallsFollowTheirLegs == Spec => []FollowsItsLeg
  <1>1. IInv => FollowsItsLeg
    BY DEF IInv
  <1> QED
    BY <1>1, Invariance, PTL

(* dial() is settled as the server settled the dial, and never by a leg.      *)
THEOREM DialsAreSettled == Spec => []DialIsSettled
  <1>1. IInv => DialIsSettled
    BY DEF IInv
  <1> QED
    BY <1>1, Invariance, PTL

(* removeCall() takes every call that ended off the list, but for the second  *)
(* object of the leg that won a dial.                                         *)
THEOREM EndedCallsAreForgotten == Spec => []EndedIsForgotten
  <1>1. IInv => EndedIsForgotten
    <2> SUFFICES ASSUME IInv, NEW i \in DOMAIN calls, obj[calls[i]].id # None,
                        leg[obj[calls[i]].id].state = "ended"
                 PROVE  \E p \in Objs \ {calls[i]} :
                          obj[p].owner = "application" /\ obj[p].id = obj[calls[i]].id
      BY DEF EndedIsForgotten
    <2>1. calls[i] \in Objs /\ Listed(calls[i])
      BY DEF IInv, TypeOK, Listed
    <2> QED
      BY <2>1 DEF IInv, ListedHasLeg, Mine
  <1> QED
    BY <1>1, Invariance, PTL
(* However notifications are matched to objects, by id or by tag, no Call     *)
(* object goes back to an earlier state or takes the id of another call: an   *)
(* object is never ahead of the call it is about, and calls only go forward.  *)
THEOREM CallsNeverGoBack == Spec => CallsGoForward
  <1>1. Init => Behind
    BY NoneAssumption DEF Init, Behind, NoObj
  <1>2. IInv /\ Behind /\ [Next]_vars => Behind'
    BY StepsGoForward
  <1>3. IInv /\ Behind /\ [Next]_vars =>
          [\A o \in Objs :
             /\ Rank(obj'[o].state) >= Rank(obj[o].state)
             /\ obj[o].id # None => obj'[o].id = obj[o].id]_vars
    BY StepsGoForward DEF Forward
  <1> QED
    BY <1>1, <1>2, <1>3, Invariance, PTL DEF Spec, CallsGoForward

(* dial() is an operation: it runs once begun, is settled once, by whichever  *)
(* of the call's end, the dial's outcome or the request's failure comes first, *)
(* and stays settled.                                                         *)
THEOREM DialsImplementOperations == Spec => DialsAreOperations
  <1>1. Init => Abstract!OpsInit
    BY DEF Init, Abstract!OpsInit, DialPhase, NoObj
  <1>2. Init => Behind
    BY NoneAssumption DEF Init, Behind, NoObj
  <1>3. IInv /\ Behind /\ [Next]_vars => Behind'
    BY StepsGoForward
  <1>4. IInv /\ Behind /\ IInv' /\ [Next]_vars => [Abstract!OpsNext]_(Abstract!opsVars)
    BY StepsAreOperations
  <1> QED
    BY <1>1, <1>2, <1>3, <1>4, Invariance, PTL DEF Spec, DialsAreOperations, Abstract!OpsSpec

=============================================================================

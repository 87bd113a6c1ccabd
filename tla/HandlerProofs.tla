---------------------------- MODULE HandlerProofs ----------------------------
(* Proofs about Handler, for any callbacks, ids and registrations and walks    *)
(* nested to any depth: its types, that a callback of registerOnce() is called *)
(* at most once, and what a walk over a list that its callbacks change is sure *)
(* to do.                                                                      *)
EXTENDS Handler, FiniteSetTheorems, TLAPS

------------------------------------------------------------------------------
(* The rank of a registration in a list.                                     *)

(* A rank is a natural number; those of the members lie between 1 and the      *)
(* length of the list and grow with the registration.                         *)
LEMMA RankFacts ==
  ASSUME NEW S \in SUBSET Nat, IsFiniteSet(S)
  PROVE  /\ Cardinality(S) \in Nat
         /\ \A r \in Nat : Rank(S, r) \in Nat /\ Rank(S, r) <= Cardinality(S)
         /\ \A r \in S : 1 <= Rank(S, r)
         /\ \A r \in Nat, s \in S : r < s => Rank(S, r) < Rank(S, s)
<1>1. Cardinality(S) \in Nat
  BY FS_CardinalityType
<1>2. ASSUME NEW r \in Nat
      PROVE  LET L == {q \in S : q <= r} IN
             /\ IsFiniteSet(L) /\ Rank(S, r) = Cardinality(L)
             /\ Rank(S, r) \in Nat /\ Rank(S, r) <= Cardinality(S)
  <2>1. {q \in S : q <= r} \in SUBSET S
    OBVIOUS
  <2>2. IsFiniteSet({q \in S : q <= r})
    BY <2>1, FS_Subset
  <2>3. Cardinality({q \in S : q <= r}) <= Cardinality(S)
    BY <2>1, FS_Subset
  <2>4. Cardinality({q \in S : q <= r}) \in Nat
    BY <2>2, FS_CardinalityType
  <2>5. QED
    BY <2>2, <2>3, <2>4 DEF Rank
<1>3. ASSUME NEW r \in S PROVE 1 <= Rank(S, r)
  <2>1. r \in {q \in S : q <= r}
    OBVIOUS
  <2>2. Cardinality({q \in S : q <= r}) # 0
    BY <2>1, <1>2, FS_EmptySet
  <2>3. QED
    BY <2>2, <1>2
<1>4. ASSUME NEW r \in Nat, NEW s \in S, r < s PROVE Rank(S, r) < Rank(S, s)
  <2> DEFINE L == {q \in S : q <= r}
             M == {q \in S : q <= s}
  <2>0. s \in Nat /\ \A q \in S : q \in Nat
    OBVIOUS
  <2>a. s \in M /\ s \notin L
    BY <1>4, <2>0
  <2>b. \A q \in L : q \in M
    BY <1>4, <2>0
  <2>1. s \in M /\ s \notin L /\ L \in SUBSET M
    BY <2>a, <2>b
  <2>2. IsFiniteSet(M) /\ Cardinality(M) \in Nat /\ Cardinality(L) \in Nat
    BY <1>2, s \in Nat, FS_CardinalityType
  <2>3. Cardinality(L) <= Cardinality(M) /\ Cardinality(L) # Cardinality(M)
    BY <2>1, <2>2, FS_Subset
  <2>4. QED
    BY <2>2, <2>3 DEF Rank
<1>5. QED
  BY <1>1, <1>2, <1>3, <1>4

(* Every index of a list is the rank of one of its registrations.             *)
LEMMA RankOnto ==
  ASSUME NEW S \in SUBSET Nat, IsFiniteSet(S), NEW n \in 1 .. Cardinality(S)
  PROVE  \E e \in S : Rank(S, e) = n
<1> DEFINE T == 1 .. Cardinality(S)
           f == [e \in S |-> Rank(S, e)]
<1>1. Cardinality(S) \in Nat
  BY FS_CardinalityType
<1>2. IsFiniteSet(T) /\ Cardinality(T) = Cardinality(S)
  BY <1>1, FS_Interval
<1>3. f \in [S -> T]
  BY <1>1, RankFacts
<1>4. \A a, b \in S : f[a] = f[b] => a = b
  BY RankFacts
<1>5. f \in Injection(S, T)
  BY <1>3, <1>4 DEF Injection, IsInjective
<1>6. f \in Surjection(S, T)
  BY <1>2, <1>5, FS_Injection
<1>7. QED
  BY <1>6, <1>1 DEF Surjection

(* A registration that is newer than all of a list comes behind them, and     *)
(* moves none of them.                                                        *)
LEMMA RankAbove ==
  ASSUME NEW S \in SUBSET Nat, IsFiniteSet(S), NEW n \in Nat, \A s \in S : s < n
  PROVE  /\ Cardinality(S \cup {n}) = Cardinality(S) + 1
         /\ Rank(S \cup {n}, n) = Cardinality(S) + 1
         /\ \A r \in S : Rank(S \cup {n}, r) = Rank(S, r)
<1>1. n \notin S
  OBVIOUS
<1>2. Cardinality(S \cup {n}) = Cardinality(S) + 1
  BY <1>1, FS_AddElement
<1>3. {q \in S \cup {n} : q <= n} = S \cup {n}
  <2>1. \A q \in S \cup {n} : q <= n
    OBVIOUS
  <2>2. QED
    BY <2>1
<1>4. ASSUME NEW r \in S PROVE {q \in S \cup {n} : q <= r} = {q \in S : q <= r}
  OBVIOUS
<1>5. QED
  BY <1>2, <1>3, <1>4 DEF Rank

(* Without some of a list, the others do not move up.                         *)
LEMMA RankSubset ==
  ASSUME NEW S \in SUBSET Nat, IsFiniteSet(S), NEW T \in SUBSET S, NEW r \in Nat
  PROVE  IsFiniteSet(T) /\ Rank(T, r) <= Rank(S, r)
<1> DEFINE M == {q \in S : q <= r}
<1>1. IsFiniteSet(T)
  BY FS_Subset
<1>2. IsFiniteSet(M)
  BY FS_Subset, M \in SUBSET S
<1>3. {q \in T : q <= r} \in SUBSET M
  OBVIOUS
<1>4. Cardinality({q \in T : q <= r}) <= Cardinality(M)
  BY <1>2, <1>3, FS_Subset
<1>5. QED
  BY <1>1, <1>4 DEF Rank

(* If those that go have rank above n, the first n stay where they are and    *)
(* there are still n.                                                         *)
LEMMA RankRemoval ==
  ASSUME NEW S \in SUBSET Nat, IsFiniteSet(S), NEW R, NEW n \in 0 .. Cardinality(S),
         \A r \in R \cap S : Rank(S, r) > n
  PROVE  /\ n <= Cardinality(S \ R)
         /\ \A r \in S \ R : Rank(S \ R, r) <= n => Rank(S, r) <= n
<1> DEFINE T == S \ R
<1>1. T \in SUBSET Nat /\ T \in SUBSET S /\ IsFiniteSet(T)
  BY FS_Subset
<1>2. n \in Nat /\ Cardinality(S) \in Nat
  BY RankFacts
<1>3. CASE n = 0
  <2>1. Cardinality(T) \in Nat /\ \A r \in T : 1 <= Rank(T, r) /\ Rank(T, r) \in Nat
    BY <1>1, RankFacts
  <2>2. QED
    BY <1>3, <2>1
<1>4. CASE n # 0
  <2>1. PICK e \in S : Rank(S, e) = n
    BY <1>2, <1>4, RankOnto
  <2>2. e \in T
    BY <1>2, <2>1
  <2>3. ASSUME NEW q \in S, q <= e PROVE q \in T
    <3>1. Rank(S, q) <= n
      BY <2>1, <2>3, <1>2, RankFacts
    <3>2. QED
      BY <3>1, <1>2, <2>3, RankFacts
  <2>4. {q \in T : q <= e} = {q \in S : q <= e}
    BY <2>3
  <2>5. Rank(T, e) = n
    BY <2>1, <2>4 DEF Rank
  <2>6. n <= Cardinality(T)
    BY <2>5, <2>2, <1>1, RankFacts
  <2>7. ASSUME NEW r \in T, Rank(T, r) <= n PROVE Rank(S, r) <= n
    <3>0. r \in Nat /\ e \in Nat /\ r \in S
      OBVIOUS
    <3>1. ~(e < r)
      BY <2>5, <2>7, <1>1, <1>2, <3>0, RankFacts
    <3>2. r = e \/ r < e
      BY <3>0, <3>1
    <3>3. CASE r = e
      BY <2>1, <3>3, <1>2
    <3>4. CASE r < e
      BY <2>1, <3>0, <3>4, <1>2, RankFacts
    <3>5. QED
      BY <3>2, <3>3, <3>4
  <2>8. QED
    BY <2>6, <2>7
<1>5. QED
  BY <1>3, <1>4

------------------------------------------------------------------------------
(* The invariant.                                                            *)

(* No registration is in two lists: what is taken off one is gone.            *)
OneList == \A i, j \in Ids : i # j => queue[i] \cap queue[j] = {}

(* A callback of registerOnce() that was called is in no list.                *)
CalledIsGone ==
  \A r \in DOMAIN regs : regs[r].once =>
    /\ regs[r].calls <= 1
    /\ regs[r].calls = 1 => \A i \in Ids : r \notin queue[i]

(* Of a walk w over a list S: who stayed was called or is still to be called; *)
(* if only visited or new entries were removed, the entries still to be       *)
(* called are the first w.next ones, and none of them was.                    *)
WalkOK(w, S) ==
  /\ w.stayed \subseteq S
  /\ \A r \in w.stayed : r \in w.heard \/ Rank(S, r) <= w.next
  /\ w.intact =>
       /\ w.next <= Cardinality(S)
       /\ \A r \in S : Rank(S, r) <= w.next => r \notin w.heard

WalksOK == \A k \in DOMAIN walks : WalkOK(walks[k], queue[walks[k].id])

IInv == TypeOK /\ OneList /\ CalledIsGone /\ WalksOK

(* Lists are finite sets of numbers up to MaxRegs.                            *)
LEMMA ListType ==
  ASSUME TypeOK, NEW i \in Ids
  PROVE  /\ queue[i] \in SUBSET Nat /\ IsFiniteSet(queue[i])
         /\ queue[i] \subseteq 1 .. Len(regs)
         /\ Cardinality(queue[i]) \in 0 .. MaxRegs
<1>1. /\ Len(regs) \in Nat /\ Len(regs) <= MaxRegs /\ DOMAIN regs = 1 .. Len(regs)
      /\ MaxRegs \in Nat
  BY BoundAssumption DEF TypeOK
<1>2. queue[i] \in SUBSET (1 .. Len(regs))
  BY <1>1 DEF TypeOK
<1>3. IsFiniteSet(1 .. Len(regs)) /\ Cardinality(1 .. Len(regs)) = Len(regs)
  <2>1. \A n \in Nat : IsFiniteSet(1 .. n) /\ Cardinality(1 .. n) = n
    BY FS_Interval
  <2>2. QED
    BY <1>1, <2>1
<1>4. IsFiniteSet(queue[i]) /\ Cardinality(queue[i]) <= Len(regs)
  BY <1>2, <1>3, FS_Subset
<1>5. Cardinality(queue[i]) \in Nat
  BY <1>4, FS_CardinalityType
<1>6. QED
  BY <1>1, <1>2, <1>4, <1>5

(* What Bereft makes of a walk w over S when R goes. *)
Survivor(w, S, R) ==
  [w EXCEPT !.stayed = @ \ R, !.intact = @ /\ \A r \in R \cap S : Rank(S, r) > w.next]

(* A walk survives the removal of R from its list.                            *)
LEMMA WalkSurvives ==
  ASSUME NEW S \in SUBSET Nat, IsFiniteSet(S), NEW R, NEW w \in Walks, WalkOK(w, S)
  PROVE  /\ Survivor(w, S, R) \in Walks
         /\ WalkOK(Survivor(w, S, R), S \ R)
         /\ Survivor(w, S, R).id = w.id
<1> DEFINE v == Survivor(w, S, R)
<1>1. /\ v \in Walks /\ v.id = w.id /\ v.next = w.next /\ v.heard = w.heard
      /\ v.stayed = w.stayed \ R
      /\ v.intact => w.intact /\ \A r \in R \cap S : Rank(S, r) > w.next
  BY DEF Walks, Survivor
<1> HIDE DEF v
<1>2. w.next \in Nat /\ w.stayed \subseteq S
  BY DEF Walks, WalkOK
<1>3. S \ R \in SUBSET S /\ Cardinality(S) \in Nat
  BY RankFacts
<1>4. ASSUME NEW r \in v.stayed PROVE r \in v.heard \/ Rank(S \ R, r) <= v.next
  <2>1. r \in w.stayed /\ r \in S /\ r \in S \ R
    BY <1>1, <1>2
  <2>2. r \in w.heard \/ Rank(S, r) <= w.next
    BY <2>1 DEF WalkOK
  <2>3. Rank(S \ R, r) <= Rank(S, r)
    BY <1>3, <2>1, RankSubset
  <2>4. Rank(S, r) \in Nat
    BY <2>1, RankFacts
  <2>5. IsFiniteSet(S \ R) /\ S \ R \in SUBSET Nat
    BY <1>3, FS_Subset
  <2>6. Rank(S \ R, r) \in Nat
    BY <2>1, <2>5, RankFacts
  <2>7. QED
    BY <1>1, <1>2, <2>2, <2>3, <2>4, <2>6
<1>5. ASSUME v.intact
      PROVE  /\ v.next <= Cardinality(S \ R)
             /\ \A r \in S \ R : Rank(S \ R, r) <= v.next => r \notin v.heard
  <2>1. /\ w.next \in 0 .. Cardinality(S)
        /\ \A r \in S : Rank(S, r) <= w.next => r \notin w.heard
        /\ \A r \in R \cap S : Rank(S, r) > w.next
    BY <1>1, <1>2, <1>3, <1>5 DEF WalkOK
  <2>2. /\ w.next <= Cardinality(S \ R)
        /\ \A r \in S \ R : Rank(S \ R, r) <= w.next => Rank(S, r) <= w.next
    BY <2>1, RankRemoval
  <2>3. QED
    BY <1>1, <2>1, <2>2
<1>6. v.stayed \subseteq S \ R
  BY <1>1, <1>2
<1>7. WalkOK(v, S \ R)
  BY <1>4, <1>5, <1>6 DEF WalkOK
<1>8. QED
  BY <1>1, <1>7 DEF v

(* So do all walks under way, when R is taken off the lists.                  *)
LEMMA WalksSurvive ==
  ASSUME TypeOK, NEW ws \in Seq(Walks), NEW R,
         \A k \in DOMAIN ws : WalkOK(ws[k], queue[ws[k].id]),
         NEW Q, \A i \in Ids : Q[i] = queue[i] \ R
  PROVE  /\ Bereft(ws, R) \in Seq(Walks)
         /\ \A k \in DOMAIN Bereft(ws, R) : WalkOK(Bereft(ws, R)[k], Q[Bereft(ws, R)[k].id])
<1>1. DOMAIN Bereft(ws, R) = DOMAIN ws
  BY DEF Bereft
<1>2. ASSUME NEW k \in DOMAIN ws
      PROVE  /\ Bereft(ws, R)[k] \in Walks
             /\ WalkOK(Bereft(ws, R)[k], Q[Bereft(ws, R)[k].id])
  <2>1. PICK w \in Walks : w = ws[k]
    OBVIOUS
  <2>2. w.id \in Ids
    BY DEF Walks
  <2>3. PICK S \in SUBSET Nat : S = queue[w.id] /\ IsFiniteSet(S)
    BY <2>2, ListType
  <2>4. Bereft(ws, R)[k] = Survivor(w, S, R)
    BY <2>1, <2>3 DEF Bereft, Survivor
  <2>5. WalkOK(w, S)
    BY <2>1, <2>3
  <2>6. /\ Survivor(w, S, R) \in Walks
        /\ WalkOK(Survivor(w, S, R), S \ R)
        /\ Survivor(w, S, R).id = w.id
    BY <2>3, <2>5, WalkSurvives
  <2>7. Q[w.id] = S \ R
    BY <2>2, <2>3
  <2>8. QED
    BY <2>4, <2>6, <2>7
<1>3. Bereft(ws, R) \in Seq(Walks)
  <2>1. DOMAIN ws = 1 .. Len(ws) /\ Len(ws) \in Nat
    OBVIOUS
  <2>2. Bereft(ws, R) = [k \in 1 .. Len(ws) |-> Bereft(ws, R)[k]]
    BY <2>1 DEF Bereft
  <2>3. QED
    BY <1>2, <2>1, <2>2
<1>4. QED
  BY <1>1, <1>2, <1>3

(* Walks that are sound. *)
Sound(ws) == ws \in Seq(Walks) /\ \A k \in DOMAIN ws : WalkOK(ws[k], queue[ws[k].id])

(* The walks a return or an exception leaves under way stay sound.            *)
LEMMA PrefixSound ==
  ASSUME Sound(walks), NEW k \in 0 .. Len(walks)
  PROVE  Sound(SubSeq(walks, 1, k))
<1>1. walks \in Seq(Walks) /\ k \in Nat
  BY DEF Sound
<1>2. SubSeq(walks, 1, k) = [i \in 1 .. k |-> walks[i]]
  BY <1>1
<1>3. \A i \in 1 .. k : i \in DOMAIN walks
  BY <1>1
<1>4. SubSeq(walks, 1, k) \in Seq(Walks)
  BY <1>1, <1>2, <1>3
<1>5. QED
  BY <1>2, <1>3, <1>4 DEF Sound

(* So do they with one more that is sound.                                    *)
LEMMA AppendSound ==
  ASSUME NEW ws, Sound(ws), NEW w \in Walks, WalkOK(w, queue[w.id])
  PROVE  Sound(Append(ws, w))
<1>1. ws \in Seq(Walks)
  BY DEF Sound
<1>2. Append(ws, w) \in Seq(Walks) /\ DOMAIN Append(ws, w) = 1 .. Len(ws) + 1
  BY <1>1
<1>3. ASSUME NEW k \in DOMAIN Append(ws, w)
      PROVE  WalkOK(Append(ws, w)[k], queue[Append(ws, w)[k].id])
  <2>1. CASE k = Len(ws) + 1
    BY <1>1, <2>1
  <2>2. CASE k # Len(ws) + 1
    <3>1. k \in DOMAIN ws /\ Append(ws, w)[k] = ws[k]
      BY <1>1, <1>2, <2>2
    <3>2. QED
      BY <3>1 DEF Sound
  <2>3. QED
    BY <2>1, <2>2
<1>4. QED
  BY <1>2, <1>3 DEF Sound

(* A walk that begins is sound.                                               *)
LEMMA NewWalkSound ==
  ASSUME TypeOK, NEW id \in Ids, NEW p \in BOOLEAN
  PROVE  /\ NewWalk(id, p) \in Walks /\ NewWalk(id, p).id = id
         /\ WalkOK(NewWalk(id, p), queue[id])
<1>1. /\ queue[id] \in SUBSET Nat /\ IsFiniteSet(queue[id])
      /\ queue[id] \subseteq 1 .. MaxRegs
      /\ Cardinality(queue[id]) \in 0 .. MaxRegs
  <2>1. queue[id] \subseteq 1 .. Len(regs) /\ Len(regs) \in Nat /\ Len(regs) <= MaxRegs
    BY ListType DEF TypeOK
  <2>2. 1 .. Len(regs) \subseteq 1 .. MaxRegs
    BY <2>1, BoundAssumption
  <2>3. QED
    BY <2>1, <2>2, ListType
<1>2. /\ NewWalk(id, p).id = id /\ NewWalk(id, p).next = Cardinality(queue[id])
      /\ NewWalk(id, p).stayed = queue[id] /\ NewWalk(id, p).heard = {}
  BY DEF NewWalk
<1>3. NewWalk(id, p) \in Walks
  BY <1>1 DEF NewWalk, Walks
<1>4. \A r \in queue[id] : Rank(queue[id], r) <= Cardinality(queue[id])
  BY <1>1, RankFacts
<1>5. Cardinality(queue[id]) <= Cardinality(queue[id])
  BY <1>1
<1>6. QED
  BY <1>2, <1>3, <1>4, <1>5 DEF WalkOK

(* Taking the registrations R off the lists keeps the invariant.              *)
LEMMA RemovalKeeps ==
  ASSUME IInv, NEW R, UNCHANGED regs, walks' = Bereft(walks, R),
         queue' = [i \in Ids |-> queue[i] \ R]
  PROVE  IInv'
<1>1. TypeOK /\ OneList /\ CalledIsGone /\ WalksOK
  BY DEF IInv
<1>2. walks' \in Seq(Walks) /\ WalksOK'
  <2>1. walks \in Seq(Walks) /\ \A k \in DOMAIN walks : WalkOK(walks[k], queue[walks[k].id])
    BY <1>1 DEF TypeOK, WalksOK
  <2>2. \A i \in Ids : queue'[i] = queue[i] \ R
    OBVIOUS
  <2>3. /\ Bereft(walks, R) \in Seq(Walks)
        /\ \A k \in DOMAIN Bereft(walks, R) :
             WalkOK(Bereft(walks, R)[k], queue'[Bereft(walks, R)[k].id])
    BY <1>1, <2>1, <2>2, WalksSurvive
  <2>4. QED
    BY <2>3 DEF WalksOK, WalkOK, Rank
<1>3. TypeOK'
  BY <1>1, <1>2 DEF TypeOK
<1>4. OneList'
  BY <1>1 DEF OneList
<1>5. CalledIsGone'
  BY <1>1 DEF CalledIsGone
<1>6. QED
  BY <1>2, <1>3, <1>4, <1>5 DEF IInv

(* A step that changes the walks only, to sound ones, keeps the invariant.    *)
LEMMA WalksOnly ==
  ASSUME IInv, UNCHANGED <<regs, queue>>, Sound(walks')
  PROVE  IInv'
<1>1. walks' \in Seq(Walks)
  BY DEF Sound
<1>2. WalksOK'
  BY DEF Sound, WalksOK, WalkOK, Rank
<1>3. QED
  BY <1>1, <1>2 DEF IInv, TypeOK, OneList, CalledIsGone

------------------------------------------------------------------------------
(* The steps.                                                                *)

(* A walk stays sound when its list gets a newer registration.                *)
LEMMA NewUnseen ==
  ASSUME NEW S \in SUBSET Nat, IsFiniteSet(S), NEW n \in Nat, \A s \in S : s < n,
         NEW w \in Walks, WalkOK(w, S)
  PROVE  WalkOK(w, S \cup {n})
<1>1. /\ Cardinality(S \cup {n}) = Cardinality(S) + 1
      /\ Rank(S \cup {n}, n) = Cardinality(S) + 1
      /\ \A r \in S : Rank(S \cup {n}, r) = Rank(S, r)
  BY RankAbove
<1>2. Cardinality(S) \in Nat /\ w.next \in Nat
  BY RankFacts DEF Walks
<1>3. w.stayed \subseteq S \cup {n}
  BY DEF WalkOK
<1>4. \A r \in w.stayed : r \in w.heard \/ Rank(S \cup {n}, r) <= w.next
  BY <1>1 DEF WalkOK
<1>5. ASSUME w.intact
      PROVE  /\ w.next <= Cardinality(S \cup {n})
             /\ \A r \in S \cup {n} : Rank(S \cup {n}, r) <= w.next => r \notin w.heard
  <2>1. w.next <= Cardinality(S) /\ \A r \in S : Rank(S, r) <= w.next => r \notin w.heard
    BY <1>5 DEF WalkOK
  <2>2. QED
    BY <1>1, <1>2, <2>1
<1>6. QED
  BY <1>3, <1>4, <1>5 DEF WalkOK

(* A registration comes last in its list: walks under way do not see it.      *)
LEMMA RegisterKeeps ==
  ASSUME IInv, NEW c \in Callbacks, NEW id \in Ids, NEW once \in BOOLEAN,
         Register(c, id, once)
  PROVE  IInv'
<1> DEFINE n == Len(regs) + 1
<1>1. TypeOK /\ OneList /\ CalledIsGone /\ WalksOK
  BY DEF IInv
<1>2. /\ regs \in Seq(Registration) /\ Len(regs) \in Nat /\ n <= MaxRegs /\ MaxRegs \in Nat
      /\ regs' = Append(regs, [cb |-> c, once |-> once, calls |-> 0])
      /\ queue' = [queue EXCEPT ![id] = @ \cup {n}]
      /\ walks' = walks
  BY <1>1, BoundAssumption DEF TypeOK, Register
<1>3. /\ regs' \in Seq(Registration) /\ Len(regs') = n /\ DOMAIN regs' = 1 .. n
      /\ regs'[n].calls = 0
      /\ \A r \in 1 .. Len(regs) : regs'[r] = regs[r]
  BY <1>2 DEF Registration
<1>4. /\ \A i \in Ids : queue[i] \subseteq 1 .. Len(regs)
      /\ \A i \in Ids : n \notin queue[i]
  BY <1>1, <1>2, ListType
<1>5. /\ queue'[id] = queue[id] \cup {n}
      /\ \A i \in Ids : i # id => queue'[i] = queue[i]
  BY <1>1, <1>2 DEF TypeOK
<1>6. TypeOK'
  <2>1. \A i \in Ids : queue'[i] \in SUBSET DOMAIN regs'
    BY <1>2, <1>3, <1>4, <1>5
  <2>2. queue' = [i \in Ids |-> queue'[i]]
    BY <1>1, <1>2 DEF TypeOK
  <2>3. QED
    BY <1>1, <1>2, <1>3, <2>1, <2>2 DEF TypeOK
<1>7. OneList'
  BY <1>1, <1>4, <1>5 DEF OneList
<1>8. CalledIsGone'
  <2>1. ASSUME NEW r \in DOMAIN regs', regs'[r].once
        PROVE  /\ regs'[r].calls <= 1
               /\ regs'[r].calls = 1 => \A i \in Ids : r \notin queue'[i]
    <3>1. CASE r = n
      BY <1>3, <3>1
    <3>2. CASE r # n
      <4>1. r \in DOMAIN regs /\ regs'[r] = regs[r]
        BY <1>2, <1>3, <3>2
      <4>2. QED
        BY <1>1, <1>5, <2>1, <3>2, <4>1 DEF CalledIsGone
    <3>3. QED
      BY <3>1, <3>2
  <2>2. QED
    BY <2>1 DEF CalledIsGone
<1>9. WalksOK'
  <2>1. ASSUME NEW k \in DOMAIN walks
        PROVE  WalkOK(walks[k], queue'[walks[k].id])
    <3>1. PICK w \in Walks : w = walks[k]
      BY <1>1 DEF TypeOK
    <3>2. PICK S \in SUBSET Nat : S = queue[w.id] /\ IsFiniteSet(S)
      BY <1>1, ListType DEF Walks
    <3>3. WalkOK(w, S)
      BY <1>1, <3>1, <3>2 DEF WalksOK
    <3>4. CASE w.id # id
      BY <1>5, <3>1, <3>2, <3>3, <3>4 DEF Walks
    <3>5. CASE w.id = id
      <4>1. \A s \in S : s < n
        BY <1>2, <1>4, <3>2, <3>5
      <4>2. n \in Nat
        BY <1>2
      <4>3. WalkOK(w, S \cup {n})
        BY <3>2, <3>3, <4>1, <4>2, NewUnseen
      <4>4. QED
        BY <1>5, <3>1, <3>2, <3>5, <4>3
    <3>6. QED
      BY <3>4, <3>5
  <2>2. QED
    BY <1>2, <2>1 DEF WalksOK, WalkOK, Rank
<1>10. QED
  BY <1>6, <1>7, <1>8, <1>9 DEF IInv

(* The three forms of deRegister() are removals.                              *)
LEMMA DeRegisterKeeps ==
  ASSUME IInv,
         \/ \E c \in Callbacks, id \in Ids : DeRegister(c, id)
         \/ \E id \in Ids : DeRegisterList(id)
         \/ DeRegisterAll
  PROVE  IInv'
<1>1. TypeOK /\ OneList
  BY DEF IInv
<1>2. ASSUME NEW id \in Ids, NEW R \in SUBSET queue[id], UNCHANGED regs,
             walks' = Bereft(walks, R), queue' = [queue EXCEPT ![id] = @ \ R]
      PROVE  IInv'
  <2>1. \A i \in Ids : i # id => queue[i] \ R = queue[i]
    BY <1>1 DEF OneList
  <2>2. queue' = [i \in Ids |-> queue[i] \ R]
    BY <1>1, <1>2, <2>1 DEF TypeOK
  <2>3. QED
    BY <1>2, <2>2, RemovalKeeps
<1>3. ASSUME NEW c \in Callbacks, NEW id \in Ids, DeRegister(c, id) PROVE IInv'
  <2>1. {r \in queue[id] : regs[r].cb = c} \in SUBSET queue[id]
    OBVIOUS
  <2>2. QED
    BY <1>2, <1>3, <2>1 DEF DeRegister
<1>4. ASSUME NEW id \in Ids, DeRegisterList(id) PROVE IInv'
  <2>1. queue' = [queue EXCEPT ![id] = @ \ queue[id]]
    BY <1>1, <1>4 DEF DeRegisterList, TypeOK
  <2>2. QED
    BY <1>2, <1>4, <2>1 DEF DeRegisterList
<1>5. ASSUME DeRegisterAll PROVE IInv'
  <2> DEFINE R == UNION {queue[i] : i \in Ids}
  <2>1. \A i \in Ids : queue[i] \ R = {}
    OBVIOUS
  <2>2. queue' = [i \in Ids |-> queue[i] \ R]
    BY <1>5, <2>1 DEF DeRegisterAll
  <2>3. QED
    BY <1>5, <2>2, RemovalKeeps DEF DeRegisterAll
<1>6. QED
  BY <1>3, <1>4, <1>5

(* The walks under way are sound.                                             *)
LEMMA WalksSound ==
  ASSUME IInv
  PROVE  Sound(walks)
BY DEF IInv, TypeOK, WalksOK, Sound

(* trigger() begins a walk ...                                                *)
LEMMA TriggerKeeps ==
  ASSUME IInv, NEW id \in Ids, NEW propagation \in BOOLEAN, Trigger(id, propagation)
  PROVE  IInv'
<1>1. TypeOK /\ Sound(walks)
  BY WalksSound DEF IInv
<1>2. ASSUME NEW i \in Ids, NEW p \in BOOLEAN PROVE Sound(Append(walks, NewWalk(i, p)))
  BY <1>1, NewWalkSound, AppendSound
<1>3. \E i \in Ids, p \in BOOLEAN : walks' = Append(walks, NewWalk(i, p))
  BY IdsAssumption DEF Trigger
<1>4. QED
  BY <1>2, <1>3, WalksOnly DEF Trigger

(* ... ends it, or goes on with GLOBAL ...                                    *)
LEMMA WalkEndsKeeps ==
  ASSUME IInv, WalkEnds
  PROVE  IInv'
<1>1. TypeOK /\ Sound(walks) /\ walks # <<>> /\ walks \in Seq(Walks)
  BY WalksSound DEF IInv, WalkEnds, TypeOK
<1>2. Len(walks) - 1 \in 0 .. Len(walks)
  BY <1>1
<1>3. Sound(Outer)
  BY <1>1, <1>2, PrefixSound DEF Outer
<1>4. Sound(Append(Outer, NewWalk(GLOBAL, FALSE)))
  BY <1>1, <1>3, IdsAssumption, NewWalkSound, AppendSound
<1>5. QED
  BY <1>3, <1>4, WalksOnly DEF WalkEnds

(* ... or is cut short by an exception.                                       *)
LEMMA UnwindKeeps ==
  ASSUME IInv, Unwind
  PROVE  IInv'
<1>1. Sound(walks) /\ walks \in Seq(Walks)
  BY WalksSound DEF IInv, TypeOK
<1>2. PICK k \in 0 .. Len(walks) - 1 : walks' = SubSeq(walks, 1, k)
  BY DEF Unwind
<1>3. k \in 0 .. Len(walks)
  BY <1>1
<1>4. Sound(walks')
  BY <1>1, <1>2, <1>3, PrefixSound
<1>5. QED
  BY <1>4, WalksOnly DEF Unwind

(* One round of the loop: the callback at the index is called and, if it was  *)
(* registered once, taken off first.                                          *)
LEMMA VisitKeeps ==
  ASSUME IInv, Visit
  PROVE  IInv'
<1>1. /\ TypeOK /\ OneList /\ CalledIsGone /\ Sound(walks)
      /\ walks \in Seq(Walks) /\ Len(walks) \in 1 .. Len(walks) /\ walks # <<>>
      /\ regs \in Seq(Registration)
  BY WalksSound DEF IInv, TypeOK, Visit
<1>2. PICK u \in Walks : u = Inner /\ u.next > 0 /\ u.id \in Ids
  <2>1. Inner \in Walks
    BY <1>1 DEF Inner
  <2>2. Inner.next > 0
    BY DEF Visit
  <2>3. Inner.id \in Ids
    BY <2>1 DEF Walks
  <2>4. QED
    BY <2>1, <2>2, <2>3
<1>3. PICK r \in queue[u.id] :
        /\ Rank(queue[u.id], r) = u.next
        /\ regs' = [regs EXCEPT ![r].calls = Called(regs[r])]
        /\ queue' = [queue EXCEPT ![u.id] = @ \ OnceGone(u.id, r)]
        /\ walks' = Bereft(Append(Outer, [u EXCEPT !.next = @ - 1, !.heard = @ \cup {r}]),
                           OnceGone(u.id, r))
  BY <1>2 DEF Visit, Index
<1> DEFINE w == [u EXCEPT !.next = @ - 1, !.heard = @ \cup {r}]
           R == OnceGone(u.id, r)
<1>4. /\ r \in 1 .. MaxRegs /\ r \in Nat /\ r \in DOMAIN regs
      /\ DOMAIN regs = 1 .. Len(regs)
  <2>1. /\ r \in 1 .. Len(regs) /\ Len(regs) \in Nat /\ Len(regs) <= MaxRegs
        /\ MaxRegs \in Nat
    BY <1>1, <1>2, ListType, BoundAssumption DEF TypeOK
  <2>2. QED
    BY <1>1, <2>1
<1>5. R \in SUBSET {r} /\ (regs[r].once => R = {r})
  BY DEF OnceGone
<1>6. /\ w \in Walks /\ w.id = u.id /\ w.next = u.next - 1 /\ w.stayed = u.stayed
      /\ w.heard = u.heard \cup {r} /\ (w.intact <=> u.intact)
  <2>1. /\ u.next - 1 \in 0 .. MaxRegs
        /\ u.heard \cup {r} \in SUBSET (1 .. MaxRegs)
    BY <1>2, <1>4, BoundAssumption DEF Walks
  <2>2. w \in Walks
    BY <2>1 DEF Walks
  <2>3. QED
    BY <2>2 DEF Walks
<1> HIDE DEF w, R
<1>7. WalkOK(w, queue[w.id])
  <2>1. PICK S \in SUBSET Nat : S = queue[u.id] /\ IsFiniteSet(S)
    BY <1>1, <1>2, ListType
  <2>2. WalkOK(u, S)
    BY <1>1, <1>2, <2>1 DEF Sound, Inner
  <2>3. /\ Cardinality(S) \in Nat /\ u.next \in Nat
        /\ \A q \in S : Rank(S, q) \in Nat
        /\ \A q \in S : q # r => Rank(S, q) # u.next
    <3>1. \A q \in S : q # r => q < r \/ r < q
      BY <1>4
    <3>2. r \in S /\ Rank(S, r) = u.next
      BY <1>3, <2>1
    <3>3. \A q \in S : Rank(S, q) \in Nat
      BY <2>1, RankFacts
    <3>4. \A q \in S : q # r => Rank(S, q) # u.next
      <4>1. ASSUME NEW q \in S, q < r PROVE Rank(S, q) < u.next
        BY <2>1, <3>2, <4>1, RankFacts
      <4>2. ASSUME NEW q \in S, r < q PROVE u.next < Rank(S, q)
        BY <1>4, <2>1, <3>2, <4>2, RankFacts
      <4>3. u.next \in Nat
        BY <3>2, <3>3
      <4>4. QED
        BY <3>1, <3>3, <4>1, <4>2, <4>3
    <3>5. QED
      BY <1>2, <2>1, <3>3, <3>4, RankFacts DEF Walks
  <2>4. \A q \in w.stayed : q \in w.heard \/ Rank(S, q) <= w.next
    <3>1. ASSUME NEW q \in u.stayed, q \notin w.heard PROVE Rank(S, q) <= w.next
      <4>1. q \in S /\ q # r /\ Rank(S, q) <= u.next
        BY <1>6, <2>2, <3>1 DEF WalkOK
      <4>2. QED
        BY <1>6, <2>3, <4>1
    <3>2. QED
      BY <1>6, <3>1
  <2>5. ASSUME w.intact
        PROVE  /\ w.next <= Cardinality(S)
               /\ \A q \in S : Rank(S, q) <= w.next => q \notin w.heard
    <3>1. /\ u.next <= Cardinality(S)
          /\ \A q \in S : Rank(S, q) <= u.next => q \notin u.heard
      BY <1>6, <2>2, <2>5 DEF WalkOK
    <3>2. ASSUME NEW q \in S, Rank(S, q) <= w.next PROVE q \notin w.heard
      <4>1. Rank(S, q) <= u.next /\ Rank(S, q) # u.next
        BY <1>6, <2>3, <3>2
      <4>2. q # r
        BY <1>3, <2>1, <4>1
      <4>3. QED
        BY <1>6, <3>1, <4>1, <4>2
    <3>3. QED
      BY <1>6, <2>3, <3>1, <3>2
  <2>6. QED
    BY <1>6, <2>1, <2>2, <2>4, <2>5 DEF WalkOK
<1>8. Sound(Append(Outer, w))
  <2>1. Len(walks) - 1 \in 0 .. Len(walks)
    BY <1>1
  <2>2. Sound(Outer)
    BY <1>1, <2>1, PrefixSound DEF Outer
  <2>3. QED
    BY <1>6, <1>7, <2>2, AppendSound
<1>9. \A i \in Ids : queue'[i] = queue[i] \ R
  <2>1. ASSUME NEW i \in Ids, i # u.id PROVE queue[i] \ R = queue[i]
    BY <1>1, <1>2, <1>3, <1>5, <2>1 DEF OneList
  <2>2. queue'[u.id] = queue[u.id] \ R /\ \A i \in Ids : i # u.id => queue'[i] = queue[i]
    BY <1>1, <1>2, <1>3 DEF TypeOK, R
  <2>3. QED
    BY <2>1, <2>2
<1>10. walks' \in Seq(Walks) /\ WalksOK'
  <2>1. walks' = Bereft(Append(Outer, w), R)
    BY <1>3 DEF w, R
  <2>2. /\ Append(Outer, w) \in Seq(Walks)
        /\ \A k \in DOMAIN Append(Outer, w) :
             WalkOK(Append(Outer, w)[k], queue[Append(Outer, w)[k].id])
    BY <1>8 DEF Sound
  <2>3. /\ Bereft(Append(Outer, w), R) \in Seq(Walks)
        /\ \A k \in DOMAIN Bereft(Append(Outer, w), R) :
             WalkOK(Bereft(Append(Outer, w), R)[k],
                    queue'[Bereft(Append(Outer, w), R)[k].id])
    BY <1>1, <1>9, <2>2, WalksSurvive
  <2>4. QED
    BY <2>1, <2>3 DEF WalksOK, WalkOK, Rank
<1>11. /\ regs' \in Seq(Registration) /\ Len(regs') = Len(regs) /\ DOMAIN regs' = DOMAIN regs
       /\ regs'[r].once = regs[r].once /\ regs'[r].calls = Called(regs[r])
       /\ \A q \in DOMAIN regs : q # r => regs'[q] = regs[q]
  <2>a. regs[r] \in Registration
    BY <1>1, <1>4
  <2>1. regs[r] \in Registration /\ Called(regs[r]) \in 0 .. 2
    BY <2>a DEF Called
  <2>2. QED
    BY <1>1, <1>3, <1>4, <2>1 DEF Registration
<1>12. TypeOK'
  <2>1. queue' = [i \in Ids |-> queue'[i]]
    BY <1>1, <1>3 DEF TypeOK
  <2>2. \A i \in Ids : queue'[i] \in SUBSET DOMAIN regs'
    BY <1>1, <1>9, <1>11 DEF TypeOK
  <2>3. QED
    BY <1>1, <1>10, <1>11, <2>1, <2>2 DEF TypeOK
<1>13. OneList'
  BY <1>1, <1>9 DEF OneList
<1>14. CalledIsGone'
  <2>1. ASSUME NEW q \in DOMAIN regs', regs'[q].once
        PROVE  /\ regs'[q].calls <= 1
               /\ regs'[q].calls = 1 => \A i \in Ids : q \notin queue'[i]
    <3>1. CASE q = r
      <4>a. regs[r] \in Registration
        BY <1>1, <1>4
      <4>b. regs[r].once
        BY <1>11, <2>1, <3>1
      <4>c. regs[r].calls # 1 /\ regs[r].calls <= 1
        BY <1>1, <1>2, <1>4, <4>b DEF CalledIsGone
      <4>1. regs[r].calls \in 0 .. 2 /\ regs[r].calls # 1 /\ regs[r].calls <= 1
        BY <4>a, <4>c DEF Registration
      <4>2. regs'[r].calls = 1
        BY <1>11, <2>1, <3>1, <4>1 DEF Called
      <4>3. r \in R
        BY <1>5, <1>11, <2>1, <3>1
      <4>4. QED
        BY <1>9, <3>1, <4>2, <4>3
    <3>2. CASE q # r
      BY <1>1, <1>9, <1>11, <2>1, <3>2 DEF CalledIsGone
    <3>3. QED
      BY <3>1, <3>2
  <2>2. QED
    BY <2>1 DEF CalledIsGone
<1>15. QED
  BY <1>10, <1>12, <1>13, <1>14 DEF IInv

------------------------------------------------------------------------------
(* The theorems.                                                             *)

(* IInv is inductive.                                                         *)
THEOREM Invariance == Spec => []IInv
<1>1. Init => IInv
  <2> SUFFICES ASSUME Init PROVE IInv
    OBVIOUS
  <2>1. TypeOK
    BY BoundAssumption DEF Init, TypeOK
  <2>2. OneList /\ CalledIsGone /\ WalksOK
    BY DEF Init, OneList, CalledIsGone, WalksOK
  <2>3. QED
    BY <2>1, <2>2 DEF IInv
<1>2. IInv /\ [Next]_vars => IInv'
  <2> SUFFICES ASSUME IInv, [Next]_vars PROVE IInv'
    OBVIOUS
  <2>1. CASE \E c \in Callbacks, id \in Ids, once \in BOOLEAN : Register(c, id, once)
    BY <2>1, RegisterKeeps
  <2>2. CASE \/ \E c \in Callbacks, id \in Ids : DeRegister(c, id)
             \/ \E id \in Ids : DeRegisterList(id)
             \/ DeRegisterAll
    BY <2>2, DeRegisterKeeps
  <2>3. CASE \E id \in Ids, propagation \in BOOLEAN : Trigger(id, propagation)
    BY <2>3, TriggerKeeps
  <2>4. CASE Visit
    BY <2>4, VisitKeeps
  <2>5. CASE WalkEnds
    BY <2>5, WalkEndsKeeps
  <2>6. CASE TypeErrorThrown \/ CallbackThrows
    BY <2>6, UnwindKeeps DEF TypeErrorThrown, CallbackThrows
  <2>7. CASE UNCHANGED vars
    BY <2>7 DEF vars, IInv, TypeOK, OneList, CalledIsGone, WalksOK, WalkOK, Rank
  <2>8. QED
    BY <2>1, <2>2, <2>3, <2>4, <2>5, <2>6, <2>7 DEF Next
<1>3. QED
  BY <1>1, <1>2, PTL DEF Spec

(* The registry keeps its types: an index never leaves its range, nor a list   *)
(* the registrations there were, however walks nest and unwind.               *)
THEOREM TypeCorrect == Spec => []TypeOK
<1>1. IInv => TypeOK
  BY DEF IInv
<1>2. QED
  BY <1>1, Invariance, PTL

(* A callback of registerOnce() is called at most once (Handler.ts:47).        *)
THEOREM OnceIsAtMostOnce == Spec => []OnceIsOnce
<1>1. IInv => OnceIsOnce
  BY DEF IInv, CalledIsGone, OnceIsOnce
<1>2. QED
  BY <1>1, Invariance, PTL

(* A walk that reaches its end has called all that stayed (Handler.ts:113).    *)
THEOREM WhoStaysIsHeard == Spec => []StayersHeard
<1>1. IInv => StayersHeard
  <2> SUFFICES ASSUME IInv, NEW k \in DOMAIN walks, walks[k].next = 0
               PROVE  walks[k].stayed \subseteq walks[k].heard
    BY DEF StayersHeard
  <2>1. PICK w \in Walks : w = walks[k]
    BY DEF IInv, TypeOK
  <2>2. PICK S \in SUBSET Nat : S = queue[w.id] /\ IsFiniteSet(S)
    BY ListType DEF IInv, Walks
  <2>3. WalkOK(w, S)
    BY <2>1, <2>2 DEF IInv, WalksOK
  <2>4. \A r \in S : ~(Rank(S, r) <= 0)
    <3>1. \A r \in S : 1 <= Rank(S, r) /\ Rank(S, r) \in Nat
      BY <2>2, RankFacts
    <3>2. QED
      BY <3>1
  <2>5. QED
    BY <2>1, <2>3, <2>4 DEF WalkOK
<1>2. QED
  BY <1>1, Invariance, PTL

(* Only the removal of an entry not yet reached makes a walk call an entry     *)
(* twice or find none (Handler.ts:114).                                       *)
THEOREM OnlyRemovalsAheadHurt == Spec => []IntactWalk
<1>1. IInv => IntactWalk
  BY DEF IInv, WalksOK, WalkOK, IntactWalk
<1>2. QED
  BY <1>1, Invariance, PTL
=============================================================================

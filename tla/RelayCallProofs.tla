--------------------------- MODULE RelayCallProofs ---------------------------
(***************************************************************************)
(* Proofs about RelayCall, for any set of components, kinds and waits.     *)
(***************************************************************************)
EXTENDS RelayCall, TLAPS

(* What handling a notification never touches, and that the waiting method   *)
(* is never un-released.                                                     *)
SameWork(d, f) ==
  /\ f.kind = d.kind /\ f.exec = d.exec /\ f.control = d.control /\ f.waits = d.waits
  /\ d.blocker = "none" <=> f.blocker = "none"
  /\ d.blocker = "released" => f.blocker = "released"

LEMMA ReleaseEffect ==
  ASSUME NEW d \in Component
  PROVE  Release(d) \in Component /\ SameWork(d, Release(d))
         /\ Release(d).completed = d.completed /\ Release(d).successful = d.successful
         /\ Release(d).blocker # "armed"
  BY DEF Release, HasBlocker, Component, SameWork

LEMMA TerminateEffect ==
  ASSUME NEW d \in Component
  PROVE  Terminate(d) \in Component /\ SameWork(d, Terminate(d))
         /\ Terminate(d).completed /\ ~Terminate(d).successful
         /\ Terminate(d).blocker # "armed"
  <1> DEFINE f == [d EXCEPT !.completed = TRUE, !.successful = FALSE, !.state = "failed"]
  <1>1. f \in Component
    BY DEF Component, EventName
  <1>2. SameWork(d, f)
    BY DEF Component, SameWork
  <1>3. f.completed /\ ~f.successful
    BY DEF Component
  <1>4. Terminate(d) = Release(f)
    BY DEF Terminate
  <1> HIDE DEF f
  <1>5. Release(f) \in Component /\ SameWork(f, Release(f))
        /\ Release(f).completed = f.completed /\ Release(f).successful = f.successful
        /\ Release(f).blocker # "armed"
    BY <1>1, ReleaseEffect
  <1> QED
    BY <1>2, <1>3, <1>4, <1>5 DEF SameWork

LEMMA EventsAreNames ==
  ASSUME NEW k \in AllKinds
  PROVE  Events(k) \subseteq EventName /\ Waits(k) \subseteq EventName
  BY DEF AllKinds, Controllables, Detectors, Events, Waits, Final, EventName, CallState

(* notificationHandler() of a detector or of Await either leaves the outcome   *)
(* and the waiting method alone or completes and releases at once.            *)
LeftOrDone(d, f) ==
  \/ f.completed = d.completed /\ f.successful = d.successful /\ f.blocker = d.blocker
  \/ f.completed /\ f.blocker # "armed"

LEMMA DetectedEffect ==
  ASSUME NEW d \in Component, NEW e \in EventName
  PROVE  Detected(d, e) \in Component /\ SameWork(d, Detected(d, e))
         /\ LeftOrDone(d, Detected(d, e))
  <1> DEFINE g == [d EXCEPT !.state = e]
             f == [g EXCEPT !.completed = TRUE,
                            !.successful = IF HasBlocker(d) THEN e \notin Final("detect")
                                                            ELSE e # "error"]
             b == [g EXCEPT !.beeping = TRUE]
  <1>1. g \in Component /\ f \in Component /\ b \in Component
    BY DEF Component
  <1>2. SameWork(d, g) /\ SameWork(d, f) /\ SameWork(d, b)
    BY DEF Component, SameWork
  <1>3. LeftOrDone(d, g) /\ LeftOrDone(d, b) /\ f.completed
    BY DEF Component, LeftOrDone
  <1>4. Detected(d, e) \in {g, b, Release(f)}
    BY DEF Detected
  <1> HIDE DEF g, f, b
  <1>5. Release(f) \in Component /\ SameWork(f, Release(f))
        /\ Release(f).completed = f.completed /\ Release(f).blocker # "armed"
    BY <1>1, ReleaseEffect
  <1>6. SameWork(d, Release(f)) /\ LeftOrDone(d, Release(f))
    BY <1>2, <1>3, <1>5 DEF SameWork, LeftOrDone
  <1> QED
    BY <1>1, <1>2, <1>3, <1>4, <1>5, <1>6

LEMMA AwaitedEffect ==
  ASSUME NEW d \in Component, NEW e \in EventName
  PROVE  Awaited(d, e) \in Component /\ SameWork(d, Awaited(d, e))
         /\ LeftOrDone(d, Awaited(d, e))
  <1> DEFINE f == [d EXCEPT !.completed = TRUE, !.successful = TRUE]
  <1>1. f \in Component /\ SameWork(d, f) /\ f.completed
    BY DEF Component, SameWork
  <1>2. Awaited(d, e) \in {d, Release(f)}
    BY DEF Awaited
  <1>3. SameWork(d, d) /\ LeftOrDone(d, d)
    BY DEF SameWork, LeftOrDone
  <1> HIDE DEF f
  <1>4. Release(f) \in Component /\ SameWork(f, Release(f))
        /\ Release(f).completed = f.completed /\ Release(f).blocker # "armed"
    BY <1>1, ReleaseEffect
  <1>5. SameWork(d, Release(f)) /\ LeftOrDone(d, Release(f))
    BY <1>1, <1>4 DEF SameWork, LeftOrDone
  <1> QED
    BY <1>2, <1>3, <1>4, <1>5

(* notificationHandler() of every other kind. *)
LEMMA NotedEffect ==
  ASSUME NEW d \in Component, NEW e \in EventName
  PROVE  Noted(d, e) \in Component /\ SameWork(d, Noted(d, e))
         /\ Noted(d, e).completed = (IF e \in Final(d.kind) THEN TRUE ELSE d.completed)
         /\ Noted(d, e).successful = (IF e \in Final(d.kind) THEN e \in Success(d.kind)
                                                            ELSE d.successful)
         /\ Noted(d, e).blocker = (IF e \in d.waits /\ HasBlocker(d) THEN "released"
                                                                    ELSE d.blocker)
         /\ Noted(d, e).state = (IF d.kind = "answer" THEN d.state ELSE e)
  <1> DEFINE noted == [d EXCEPT !.state = IF d.kind = "answer" THEN @ ELSE e]
             done  == [noted EXCEPT !.completed = e \in Final(d.kind),
                                    !.successful = e \in Success(d.kind)]
             next  == IF e \in Final(d.kind) THEN done ELSE noted
  <1>1. noted \in Component /\ noted.completed = d.completed
        /\ noted.successful = d.successful /\ noted.blocker = d.blocker
        /\ noted.kind = d.kind /\ noted.exec = d.exec /\ noted.control = d.control
        /\ noted.waits = d.waits /\ noted.state = (IF d.kind = "answer" THEN d.state ELSE e)
    BY DEF Component
  <1>2. done \in Component /\ done.blocker = d.blocker
        /\ done.completed = (e \in Final(d.kind))
        /\ done.successful = (e \in Success(d.kind))
        /\ done.kind = d.kind /\ done.exec = d.exec /\ done.control = d.control
        /\ done.waits = d.waits /\ done.state = noted.state
    <2> HIDE DEF noted
    <2>1. (e \in Final(d.kind)) \in BOOLEAN /\ (e \in Success(d.kind)) \in BOOLEAN
      OBVIOUS
    <2> QED
      BY <1>1, <2>1 DEF Component
  <1>3. Noted(d, e) = IF e \in d.waits THEN Release(next) ELSE next
    BY DEF Noted
  <1> HIDE DEF noted, done
  <1>4. next \in Component /\ next.blocker = d.blocker
        /\ next.kind = d.kind /\ next.exec = d.exec /\ next.control = d.control
        /\ next.waits = d.waits /\ next.state = (IF d.kind = "answer" THEN d.state ELSE e)
        /\ next.completed = (IF e \in Final(d.kind) THEN TRUE ELSE d.completed)
        /\ next.successful = (IF e \in Final(d.kind) THEN e \in Success(d.kind)
                                                    ELSE d.successful)
    BY <1>1, <1>2
  <1> HIDE DEF next
  <1>5. Release(next).blocker = IF HasBlocker(d) THEN "released" ELSE d.blocker
    BY <1>4 DEF Release, HasBlocker, Component
  <1>6. SameWork(d, next)
    BY <1>4 DEF SameWork
  <1>7. Release(next) \in Component /\ SameWork(next, Release(next))
        /\ Release(next).completed = next.completed
        /\ Release(next).successful = next.successful
        /\ Release(next).state = next.state
    BY <1>4, ReleaseEffect DEF Release, HasBlocker, Component
  <1>8. SameWork(d, Release(next))
    BY <1>6, <1>7 DEF SameWork
  <1>9. CASE e \in d.waits
    BY <1>3, <1>4, <1>5, <1>7, <1>8, <1>9
  <1>10. CASE e \notin d.waits
    BY <1>3, <1>4, <1>6, <1>10
  <1> QED
    BY <1>9, <1>10

(* Final events release the waiting method, except those of Connect and       *)
(* Disconnect; only an answer stops waiting before it completes.              *)
LEMMA FinalAndWaits ==
  ASSUME NEW k \in AllKinds \ Detectors
  PROVE  /\ k \notin {"connect", "disconnect"} => Final(k) \subseteq Waits(k)
         /\ k = "disconnect" => Final(k) \subseteq Waits(k) \cup {"connected"}
         /\ k # "answer" => Waits(k) \subseteq Final(k)
         /\ k = "answer" => Final(k) = {"answered"} /\ Success(k) = {"answered"}
         /\ Waits(k) \subseteq EventName
  BY EventsAreNames DEF AllKinds, Controllables, Detectors, Waits, Final, Success, Events

(* What is always true of one component.                                      *)
Sound(d) ==
  /\ d.kind = "none" => d.blocker = "none"
  /\ d.successful => d.completed
  /\ d.completed /\ d.blocker = "armed" => d.kind = "disconnect" /\ d.state = "connected"
  /\ d.blocker # "none" => d.kind # "pass" /\ (d.kind = "await" \/ d.waits = Waits(d.kind))
  /\ d.blocker = "released" /\ ~d.completed => d.kind = "answer"

(* A notification keeps a component sound, Connect excepted.  An answer gives *)
(* up only at the end of the call, and is no success after it gave up, unless *)
(* the call is answered.                                                      *)
LEMMA HandleEffect ==
  ASSUME NEW d \in Component, NEW e \in EventName, Sound(d), ~d.completed,
         d.kind # "none", d.kind # "connect"
  PROVE  Handle(d, e) \in Component /\ SameWork(d, Handle(d, e)) /\ Sound(Handle(d, e))
         /\ (d.blocker = "released" /\ e # "answered" => ~Handle(d, e).successful)
         /\ (d.blocker # "released" /\ Handle(d, e).blocker = "released"
               => Handle(d, e).completed \/ e \in {"ending", "ended"})
  <1> DEFINE f == Handle(d, e)
  <1>1. CASE d.kind \in Detectors
    <2>1. f = Detected(d, e)
      BY <1>1 DEF Handle, Detectors
    <2>2. f \in Component /\ SameWork(d, f) /\ LeftOrDone(d, f)
      BY <2>1, DetectedEffect
    <2> HIDE DEF f
    <2>3. d.kind # "answer"
      BY <1>1 DEF Detectors
    <2>4. d.blocker # "released"
      BY <2>3 DEF Sound
    <2>5. Sound(f)
      BY <2>2, <2>3, <2>4 DEF Sound, SameWork, LeftOrDone, Component
    <2>6. f.blocker = "released" => f.completed
      BY <2>2, <2>4 DEF LeftOrDone
    <2> QED
      BY <2>2, <2>4, <2>5, <2>6 DEF f
  <1>2. CASE d.kind = "await"
    <2>1. f = Awaited(d, e)
      BY <1>2 DEF Handle, Detectors
    <2>2. f \in Component /\ SameWork(d, f) /\ LeftOrDone(d, f)
      BY <2>1, AwaitedEffect
    <2> HIDE DEF f
    <2>3. d.blocker # "released"
      BY <1>2 DEF Sound
    <2>4. Sound(f)
      BY <1>2, <2>2, <2>3 DEF Sound, SameWork, LeftOrDone, Component
    <2>5. f.blocker = "released" => f.completed
      BY <2>2, <2>3 DEF LeftOrDone
    <2> QED
      BY <2>2, <2>3, <2>4, <2>5 DEF f
  <1>3. CASE d.kind = "pass"
    <2>1. f = d
      BY <1>3 DEF Handle, Detectors
    <2> QED
      BY <2>1, <1>3 DEF SameWork, Sound
  <1>4. CASE d.kind \notin Detectors \cup {"await", "pass"}
    <2>1. f = Noted(d, e)
      BY <1>4 DEF Handle
    <2>2. d.kind \in AllKinds \ Detectors
      BY <1>4 DEF Component
    <2> HIDE DEF f
    <2>3. f \in Component /\ SameWork(d, f)
          /\ f.completed = (IF e \in Final(d.kind) THEN TRUE ELSE d.completed)
          /\ f.successful = (IF e \in Final(d.kind) THEN e \in Success(d.kind)
                                                    ELSE d.successful)
          /\ f.blocker = (IF e \in d.waits /\ HasBlocker(d) THEN "released"
                                                            ELSE d.blocker)
          /\ f.state = (IF d.kind = "answer" THEN d.state ELSE e)
      BY <2>1, NotedEffect
    <2>4. /\ d.kind # "disconnect" => Final(d.kind) \subseteq Waits(d.kind)
          /\ d.kind = "disconnect" => Final(d.kind) \subseteq Waits(d.kind) \cup {"connected"}
          /\ d.kind # "answer" => Waits(d.kind) \subseteq Final(d.kind)
          /\ d.kind = "answer" => Final(d.kind) = {"answered"} /\ Success(d.kind) = {"answered"}
      BY <2>2, FinalAndWaits
    <2>5. f.successful => f.completed
      BY <2>3 DEF Sound
    <2>6. f.completed /\ f.blocker = "armed" => f.kind = "disconnect" /\ f.state = "connected"
      BY <1>4, <2>3, <2>4 DEF Sound, SameWork, HasBlocker
    <2>7. f.blocker = "released" /\ ~f.completed => f.kind = "answer"
      BY <1>4, <2>3, <2>4 DEF Sound, SameWork, HasBlocker
    <2>8. f.blocker # "none" => f.kind # "pass" /\ (f.kind = "await" \/ f.waits = Waits(f.kind))
      BY <2>3 DEF Sound, SameWork
    <2>9. f.kind = "none" => f.blocker = "none"
      BY <2>3 DEF Sound, SameWork
    <2>10. d.blocker = "released" /\ e # "answered" => ~f.successful
      BY <2>3, <2>4 DEF Sound
    <2>11. d.blocker # "released" /\ f.blocker = "released" /\ ~f.completed
             => e \in {"ending", "ended"}
      <3> SUFFICES ASSUME d.blocker # "released", f.blocker = "released", ~f.completed
                   PROVE  e \in {"ending", "ended"}
        OBVIOUS
      <3>1. d.kind = "answer" /\ e \in d.waits /\ HasBlocker(d)
        BY <2>3, <2>7 DEF SameWork
      <3>2. d.waits = Waits("answer")
        BY <3>1 DEF Sound, HasBlocker
      <3>3. e # "answered"
        BY <2>3, <2>4, <3>1
      <3> QED
        BY <3>1, <3>2, <3>3 DEF Waits, Detectors
    <2> QED
      BY <2>3, <2>5, <2>6, <2>7, <2>8, <2>9, <2>10, <2>11 DEF Sound, f
  <1> QED
    BY <1>1, <1>2, <1>3, <1>4

------------------------------------------------------------------------------
(* Execution and the end of the call. *)

LEMMA ExecuteEffect ==
  ASSUME NEW d \in Component, Sound(d), ~d.completed, ~d.successful
  PROVE  LET f == Execute(d) IN
         /\ f \in Component /\ Sound(f) /\ f.kind = d.kind /\ ~f.successful
         /\ (d.blocker = "none" <=> f.blocker = "none")
         /\ Ended => f.completed
         /\ Ended /\ f.blocker # "none" => f.blocker = "released" /\ f.exec = "skipped"
         /\ ~Ended => ~f.completed /\ f.blocker = d.blocker
  <1> DEFINE f == Execute(d)
  <1>1. CASE Ended
    <2> DEFINE t == Terminate(d)
               x == IF d.kind \in {"record", "pass"} /\ ~HasBlocker(d) THEN "thrown"
                                                                       ELSE "skipped"
    <2>1. t \in Component /\ SameWork(d, t) /\ t.completed /\ ~t.successful
          /\ t.blocker # "armed"
      BY TerminateEffect
    <2>2. f = [t EXCEPT !.exec = x]
      BY <1>1 DEF Execute
    <2>3. x = "skipped" \/ (x = "thrown" /\ d.blocker = "none")
      BY DEF HasBlocker
    <2> HIDE DEF t, x
    <2>4. f \in Component /\ f.kind = t.kind /\ f.completed = t.completed
          /\ f.successful = t.successful /\ f.blocker = t.blocker /\ f.waits = t.waits
          /\ f.exec = x
      BY <2>1, <2>2, <2>3 DEF Component
    <2> HIDE DEF f
    <2>5. Sound(f)
      BY <2>1, <2>4 DEF Sound, SameWork
    <2>6. f.blocker # "none" => f.blocker = "released" /\ f.exec = "skipped"
      BY <2>1, <2>3, <2>4 DEF SameWork, Component
    <2> QED
      BY <1>1, <2>1, <2>4, <2>5, <2>6 DEF SameWork, f
  <1>2. CASE ~Ended
    <2>1. f = [d EXCEPT !.exec = IF d.kind = "await" THEN "skipped" ELSE "sent"]
      BY <1>2 DEF Execute
    <2> HIDE DEF f
    <2>2. f \in Component /\ f.kind = d.kind /\ f.completed = d.completed
          /\ f.successful = d.successful /\ f.blocker = d.blocker /\ f.waits = d.waits
      BY <2>1 DEF Component
    <2>3. Sound(f)
      BY <2>2 DEF Sound
    <2> QED
      BY <1>2, <2>2, <2>3 DEF f
  <1> QED
    BY <1>1, <1>2

------------------------------------------------------------------------------
(* The inductive invariant. *)

(* A method that gave up without its component being complete did so because  *)
(* the call is ending.                                                        *)
GaveUpAtEnd ==
  \A c \in Comps : comp[c].blocker = "released" /\ ~comp[c].completed => Ended

IInv ==
  /\ TypeOK
  /\ \A c \in Comps : Sound(comp[c])
  /\ GaveUpAtEnd
  /\ EndedStopsAll

(* What a notification of event e makes of a component: f of d.               *)
Heard(d, f, type, e) ==
  /\ f \in Component /\ SameWork(d, f) /\ Sound(f)
  /\ (d.completed \/ d.kind = "none") => f = d
  /\ (d.blocker = "released" /\ ~d.completed /\ (e # "answered" \/ type # "state"))
       => ~f.successful
  /\ (f.blocker = "released" /\ ~f.completed)
       => (d.blocker = "released" \/ (type = "state" /\ e \in {"ending", "ended"}))

LEMMA NotifiedEffect ==
  ASSUME TypeOK, \A c \in Comps : Sound(comp[c]),
         NEW type, NEW key, NEW e \in EventName, type = "connect" => key = "tag"
  PROVE  /\ Notified(type, key, e) \in [Comps -> Component]
         /\ \A c \in Comps : Heard(comp[c], Notified(type, key, e)[c], type, e)
  <1> SUFFICES ASSUME NEW c \in Comps
               PROVE  Heard(comp[c], Notified(type, key, e)[c], type, e)
    BY DEF Notified, Heard
  <1> DEFINE d == comp[c]
             f == Notified(type, key, e)[c]
  <1>1. d \in Component /\ Sound(d)
    BY DEF TypeOK
  <1>2. CASE Hears(c, type, key)
    <2>1. f = Handle(d, e)
      BY <1>2 DEF Notified
    <2>2. d.kind # "none" /\ ~d.completed /\ EventType(d.kind) = type
      BY <1>2 DEF Hears, Added
    <2>3. d.kind # "connect"
      BY <1>2, <2>2, CompsAssumption DEF Hears, ByTag, EventType, Detectors
    <2>5. d.kind = "answer" => type = "state"
      BY <2>2 DEF EventType, Detectors
    <2> HIDE DEF d, f
    <2>4. /\ f \in Component /\ SameWork(d, f) /\ Sound(f)
          /\ (d.blocker = "released" /\ e # "answered" => ~f.successful)
          /\ (d.blocker # "released" /\ f.blocker = "released"
                => f.completed \/ e \in {"ending", "ended"})
      BY <1>1, <2>1, <2>2, <2>3, HandleEffect
    <2>6. /\ f.blocker = "released" /\ ~f.completed => d.kind = "answer"
          /\ d.blocker = "released" => d.kind = "answer"
      BY <1>1, <2>2, <2>4 DEF Sound, SameWork
    <2>7. Heard(d, f, type, e)
      BY <2>2, <2>4, <2>5, <2>6 DEF Heard
    <2> QED
      BY <2>7 DEF d, f
  <1>3. CASE ~Hears(c, type, key)
    <2>1. f = d
      BY <1>3 DEF Notified
    <2>2. d.blocker = "released" /\ ~d.completed => ~d.successful
      BY <1>1 DEF Sound
    <2> HIDE DEF d, f
    <2>3. SameWork(d, f)
      BY <2>1 DEF SameWork
    <2>4. Heard(d, f, type, e)
      BY <1>1, <2>1, <2>2, <2>3 DEF Heard
    <2> QED
      BY <2>4 DEF d, f
  <1> QED
    BY <1>2, <1>3

(* The end of the call terminates what is still running and touches nothing   *)
(* else.                                                                      *)
LEMMA TerminateAllEffect ==
  ASSUME NEW cs \in [Comps -> Component], \A c \in Comps : Sound(cs[c])
  PROVE  /\ TerminateAll(cs) \in [Comps -> Component]
         /\ \A c \in Comps : LET f == TerminateAll(cs)[c] IN
              /\ Sound(f) /\ SameWork(cs[c], f)
              /\ f.kind # "none" => f.completed
              /\ cs[c].completed \/ cs[c].kind = "none" => f = cs[c]
              /\ ~cs[c].completed => ~f.successful
  <1>1. ASSUME NEW c \in Comps
        PROVE  LET f == TerminateAll(cs)[c] IN
               /\ f \in Component /\ Sound(f) /\ SameWork(cs[c], f)
               /\ f.kind # "none" => f.completed
               /\ cs[c].completed \/ cs[c].kind = "none" => f = cs[c]
               /\ ~cs[c].completed => ~f.successful
    <2> DEFINE d == cs[c]
               f == TerminateAll(cs)[c]
    <2>1. d \in Component /\ Sound(d)
      OBVIOUS
    <2>2. CASE d.kind # "none" /\ ~d.completed
      <3>1. f = Terminate(d)
        BY <2>2 DEF TerminateAll
      <3>2. /\ f \in Component /\ SameWork(d, f) /\ f.completed /\ ~f.successful
            /\ f.blocker # "armed"
        BY <2>1, <3>1, TerminateEffect
      <3> HIDE DEF d, f
      <3>3. Sound(f)
        BY <2>1, <3>2 DEF Sound, SameWork
      <3> QED
        BY <2>2, <3>2, <3>3 DEF d, f
    <2>3. CASE ~(d.kind # "none" /\ ~d.completed)
      <3>1. f = d
        BY <2>3 DEF TerminateAll
      <3>2. ~d.completed => ~d.successful
        BY <2>1 DEF Sound
      <3> HIDE DEF d, f
      <3>3. SameWork(d, f)
        BY <3>1 DEF SameWork
      <3> QED
        BY <2>1, <2>3, <3>1, <3>2, <3>3 DEF d, f
    <2> QED
      BY <2>2, <2>3
  <1> QED
    BY <1>1 DEF TerminateAll

LEMMA RankIsPlace ==
  ASSUME NEW s \in CallState, NEW t \in CallState, Rank(t) > Rank(s)
  PROVE  /\ s # "ended"
         /\ s = "ending" => t = "ended"
  BY DEF CallState, Rank

(* Every action keeps the invariant.                                          *)
LEMMA StartKeeps ==
  ASSUME IInv, NEW c \in Comps, NEW k \in AllKinds, NEW blocking \in BOOLEAN,
         NEW waits \in SUBSET EventName, Start(c, k, blocking, waits),
         blocking => k # "pass" /\ (k = "await" \/ waits = Waits(k))
  PROVE  IInv'
  <1> DEFINE d == [NoComponent EXCEPT !.kind = k,
                     !.waits = IF blocking THEN waits ELSE {},
                     !.blocker = IF blocking THEN "armed" ELSE "none"]
             f == Execute(d)
  <1>1. d \in Component /\ ~d.completed /\ ~d.successful
    BY DEF NoComponent, Component, EventName, CallState
  <1>2. Sound(d)
    BY DEF NoComponent, Sound, AllKinds, Controllables, Detectors
  <1>3. comp' = [comp EXCEPT ![c] = f]
    BY DEF Start
  <1> HIDE DEF d
  <1>4. /\ f \in Component /\ Sound(f)
        /\ Ended => f.completed
        /\ ~Ended => ~f.completed /\ f.blocker = d.blocker
    BY <1>1, <1>2, ExecuteEffect
  <1>5. d.blocker # "released"
    BY DEF d, NoComponent
  <1> HIDE DEF f
  <1>6. state' = state /\ UNCHANGED <<reason, peer, link>>
    BY DEF Start
  <1>7. comp \in [Comps -> Component]
    BY DEF IInv, TypeOK
  <1>8. TypeOK'
    BY <1>3, <1>4, <1>6, <1>7 DEF IInv, TypeOK
  <1>9. (\A x \in Comps : Sound(comp[x]))'
    BY <1>3, <1>4, <1>7 DEF IInv
  <1>10. GaveUpAtEnd'
    BY <1>3, <1>4, <1>5, <1>6, <1>7 DEF IInv, GaveUpAtEnd, Ended
  <1>11. EndedStopsAll'
    BY <1>3, <1>4, <1>6, <1>7 DEF IInv, EndedStopsAll, Ended, Added
  <1> QED
    BY <1>8, <1>9, <1>10, <1>11 DEF IInv

(* Answers to requests and control requests touch neither the waiting method  *)
(* nor, but for pass, the outcome.                                            *)
LEMMA OneChangedKeeps ==
  ASSUME IInv, NEW c \in Comps, NEW f \in Component,
         comp' = [comp EXCEPT ![c] = f], Sound(f),
         comp[c].completed => f.completed,
         f.kind = comp[c].kind,
         f.blocker = "released" /\ ~f.completed => comp[c].blocker = "released",
         UNCHANGED <<state, reason, peer, link>>
  PROVE  IInv'
  <1>1. comp \in [Comps -> Component]
    BY DEF IInv, TypeOK
  <1>2. TypeOK'
    BY <1>1 DEF IInv, TypeOK
  <1>3. (\A x \in Comps : Sound(comp[x]))'
    BY <1>1 DEF IInv
  <1>4. GaveUpAtEnd'
    BY <1>1 DEF IInv, GaveUpAtEnd, Ended
  <1>5. EndedStopsAll'
    BY <1>1 DEF IInv, EndedStopsAll, Added
  <1> QED
    BY <1>2, <1>3, <1>4, <1>5 DEF IInv

LEMMA ControlKeeps ==
  ASSUME IInv, NEW c \in Comps, Control(c)
  PROVE  IInv'
  <1> DEFINE f == [comp[c] EXCEPT !.control = "sent"]
  <1>1. comp[c] \in Component /\ Sound(comp[c])
    BY DEF IInv, TypeOK
  <1>2. /\ f \in Component /\ f.kind = comp[c].kind /\ f.completed = comp[c].completed
        /\ f.blocker = comp[c].blocker /\ f.successful = comp[c].successful
        /\ f.waits = comp[c].waits /\ f.state = comp[c].state
    BY <1>1 DEF Component
  <1>3. comp' = [comp EXCEPT ![c] = f]
        /\ UNCHANGED <<state, reason, peer, link>>
    BY DEF Control, IInv, TypeOK
  <1> HIDE DEF f
  <1>4. Sound(f)
    BY <1>1, <1>2 DEF Sound
  <1> QED
    BY <1>2, <1>3, <1>4, OneChangedKeeps

LEMMA ExecuteAnsweredKeeps ==
  ASSUME IInv, NEW c \in Comps, ExecuteAnswered(c)
  PROVE  IInv'
  <1> DEFINE d == [comp[c] EXCEPT !.exec = "ok"]
             f == IF d.kind = "pass" THEN [d EXCEPT !.completed = TRUE, !.successful = TRUE]
                                     ELSE d
  <1>1. comp[c] \in Component /\ Sound(comp[c])
    BY DEF IInv, TypeOK
  <1>2. /\ d \in Component /\ d.kind = comp[c].kind /\ d.completed = comp[c].completed
        /\ d.blocker = comp[c].blocker /\ d.successful = comp[c].successful
        /\ d.waits = comp[c].waits /\ d.state = comp[c].state
    BY <1>1 DEF Component
  <1>3. comp' = [comp EXCEPT ![c] = f]
        /\ UNCHANGED <<state, reason, peer, link>>
    BY DEF ExecuteAnswered, IInv, TypeOK
  <1> HIDE DEF d
  <1>4. /\ f \in Component /\ f.kind = d.kind /\ f.blocker = d.blocker /\ f.waits = d.waits
        /\ f = d \/ (d.kind = "pass" /\ f.completed)
    BY <1>2 DEF Component
  <1> HIDE DEF f
  <1>5. Sound(d)
    BY <1>1, <1>2 DEF Sound
  <1>6. Sound(f)
    BY <1>4, <1>5 DEF Sound
  <1> QED
    BY <1>2, <1>3, <1>4, <1>6, OneChangedKeeps

LEMMA ExecuteFailedKeeps ==
  ASSUME IInv, NEW c \in Comps, ExecuteFailed(c)
  PROVE  IInv'
  <1> DEFINE t == Terminate(comp[c])
             f == [t EXCEPT !.exec = "failed"]
  <1>1. comp[c] \in Component /\ Sound(comp[c])
    BY DEF IInv, TypeOK
  <1>2. /\ t \in Component /\ SameWork(comp[c], t) /\ t.completed /\ ~t.successful
        /\ t.blocker # "armed"
    BY <1>1, TerminateEffect
  <1>3. comp' = [comp EXCEPT ![c] = f]
        /\ UNCHANGED <<state, reason, peer, link>>
    BY DEF ExecuteFailed, IInv, TypeOK
  <1> HIDE DEF t
  <1>6. t \in Component
    BY <1>2
  <1>4. /\ f \in Component /\ f.kind = t.kind /\ f.completed = t.completed
        /\ f.blocker = t.blocker /\ f.successful = t.successful /\ f.waits = t.waits
    BY <1>6 DEF Component
  <1> HIDE DEF f
  <1>5. Sound(f)
    BY <1>1, <1>2, <1>4 DEF Sound, SameWork
  <1> QED
    BY <1>2, <1>3, <1>4, <1>5, OneChangedKeeps DEF SameWork

LEMMA ControlAnsweredKeeps ==
  ASSUME IInv, NEW c \in Comps, ControlAnswered(c)
  PROVE  IInv'
  <1> PICK r \in {"ok", "failed"} : comp' = [comp EXCEPT ![c].control = r]
    BY DEF ControlAnswered
  <1> DEFINE f == [comp[c] EXCEPT !.control = r]
  <1>1. comp[c] \in Component /\ Sound(comp[c])
    BY DEF IInv, TypeOK
  <1>2. /\ f \in Component /\ f.kind = comp[c].kind /\ f.completed = comp[c].completed
        /\ f.blocker = comp[c].blocker /\ f.successful = comp[c].successful
        /\ f.waits = comp[c].waits /\ f.state = comp[c].state
    BY <1>1 DEF Component
  <1>3. comp' = [comp EXCEPT ![c] = f]
        /\ UNCHANGED <<state, reason, peer, link>>
    BY DEF ControlAnswered, IInv, TypeOK
  <1> HIDE DEF f
  <1>4. Sound(f)
    BY <1>1, <1>2 DEF Sound
  <1> QED
    BY <1>2, <1>3, <1>4, OneChangedKeeps

LEMMA EveryEventIsAName ==
  ASSUME NEW k \in AllKinds \cup {"none"}
  PROVE  Events(k) \subseteq EventName
  BY DEF AllKinds, Controllables, Detectors, Events, Final, EventName, CallState

(* Notifications of media, dial, refer and connections: a handler passes      *)
(* event e on.                                                                *)
PassedOn(type, key, e) ==
  /\ e \in EventName
  /\ type # "state" /\ (type = "connect" => key = "tag")
  /\ comp' = Notified(type, key, e)
  /\ state # "ended"
  /\ peer' \in {"none", "call"}
  /\ link' \in {"idle", "connecting", "connected"}
  /\ UNCHANGED <<state, reason>>

LEMMA NotificationPasses ==
  ASSUME IInv, Notification
  PROVE  \/ \E s \in CallState : StateChange(s)
         \/ \E type, key, e : PassedOn(type, key, e)
  <1>1. ASSUME NEW c \in Comps, NEW e \in Events(comp[c].kind), ControlChange(c, e)
        PROVE  PassedOn(EventType(comp[c].kind), c, e)
    <2> DEFINE k == comp[c].kind
    <2>1. k \in AllKinds \ (ByTag \cup {"connect", "pass"})
      BY <1>1 DEF ControlChange, Added, IInv, TypeOK, Component
    <2>2. EventType(k) \notin {"state", "connect"}
      BY <2>1 DEF AllKinds, Controllables, Detectors, ByTag, EventType
    <2>3. e \in EventName
      BY <2>1, EveryEventIsAName
    <2>4. /\ comp' = Notified(EventType(k), c, e)
          /\ state # "ended"
          /\ UNCHANGED <<state, reason, peer, link>>
      BY <1>1 DEF ControlChange
    <2> HIDE DEF k
    <2>5. PassedOn(EventType(k), c, e)
      BY <2>2, <2>3, <2>4 DEF PassedOn, IInv, TypeOK
    <2> QED
      BY <2>5 DEF k
  <1>2. ASSUME NEW k \in {"dial", "refer"}, NEW e \in Events(k), TagChange(k, e)
        PROVE  PassedOn(k, "tag", e)
    <2>1. e \in EventName
      BY EveryEventIsAName DEF AllKinds
    <2>2. k # "state"
      OBVIOUS
    <2> QED
      BY <1>2, <2>1, <2>2 DEF TagChange, PassedOn, IInv, TypeOK
  <1>3. ASSUME NEW e \in Events("connect"), ConnectChange(e)
        PROVE  PassedOn("connect", "tag", e)
    <2>1. e \in EventName
      BY EveryEventIsAName DEF AllKinds
    <2>2. link' \in {"idle", "connecting", "connected"}
      BY <1>3 DEF ConnectChange, Links, Events
    <2>3. peer' \in {"none", "call"}
      BY <1>3 DEF ConnectChange, PeerAfter, IInv, TypeOK
    <2> QED
      BY <1>3, <2>1, <2>2, <2>3 DEF ConnectChange, PassedOn
  <1> QED
    BY <1>1, <1>2, <1>3 DEF Notification

LEMMA NotificationKeeps ==
  ASSUME IInv, NEW type, NEW key, NEW e, PassedOn(type, key, e)
  PROVE  IInv'
  <1>1. TypeOK /\ \A c \in Comps : Sound(comp[c])
    BY DEF IInv
  <1>2. /\ comp' \in [Comps -> Component]
        /\ \A c \in Comps : Heard(comp[c], comp'[c], type, e)
    BY <1>1, NotifiedEffect DEF PassedOn
  <1>3. TypeOK'
    BY <1>1, <1>2 DEF TypeOK, PassedOn
  <1>4. (\A c \in Comps : Sound(comp[c]))'
    BY <1>2 DEF Heard
  <1>5. GaveUpAtEnd'
    <2> SUFFICES ASSUME NEW c \in Comps, comp'[c].blocker = "released", ~comp'[c].completed
                 PROVE  Ended
      BY DEF GaveUpAtEnd, Ended, PassedOn
    <2>1. comp[c].blocker = "released"
      BY <1>2 DEF Heard, PassedOn
    <2>2. ~comp[c].completed
      BY <1>2 DEF Heard
    <2> QED
      BY <2>1, <2>2 DEF IInv, GaveUpAtEnd
  <1>6. EndedStopsAll'
    BY DEF EndedStopsAll, PassedOn
  <1> QED
    BY <1>3, <1>4, <1>5, <1>6 DEF IInv

LEMMA StateChangeKeeps ==
  ASSUME IInv, NEW s \in CallState, StateChange(s)
  PROVE  IInv'
  <1> DEFINE notified == Notified("state", "tag", s)
  <1>1. TypeOK /\ (\A c \in Comps : Sound(comp[c])) /\ s \in EventName
    BY DEF IInv, EventName
  <1>2. /\ notified \in [Comps -> Component]
        /\ \A c \in Comps : Heard(comp[c], notified[c], "state", s)
    BY <1>1, NotifiedEffect
  <1>3. state' = s /\ state # "ended" /\ (Ended => s = "ended")
    BY <1>1, RankIsPlace DEF StateChange, Ended, TypeOK
  <1>4. /\ s = "ended" => comp' = TerminateAll(notified)
        /\ s # "ended" => comp' = notified
        /\ reason' \in {"none", "hangup", "busy", "error"}
        /\ UNCHANGED <<peer, link>>
    BY <1>1 DEF StateChange, TypeOK
  <1> HIDE DEF notified
  <1>5. CASE s = "ended"
    <2>1. \A c \in Comps : Sound(notified[c])
      BY <1>2 DEF Heard
    <2>2. /\ comp' \in [Comps -> Component]
          /\ \A c \in Comps : Sound(comp'[c]) /\ (comp'[c].kind # "none" => comp'[c].completed)
      BY <1>2, <1>4, <1>5, <2>1, TerminateAllEffect
    <2>3. TypeOK'
      BY <1>1, <1>3, <1>4, <2>2 DEF TypeOK
    <2>4. GaveUpAtEnd'
      BY <1>3, <1>5 DEF GaveUpAtEnd, Ended
    <2>5. EndedStopsAll'
      BY <2>2 DEF EndedStopsAll, Added
    <2> QED
      BY <2>2, <2>3, <2>4, <2>5 DEF IInv
  <1>6. CASE s # "ended"
    <2>1. /\ comp' \in [Comps -> Component]
          /\ \A c \in Comps : Heard(comp[c], comp'[c], "state", s)
      BY <1>2, <1>4, <1>6
    <2>2. TypeOK'
      BY <1>1, <1>3, <1>4, <2>1 DEF TypeOK
    <2>3. (\A c \in Comps : Sound(comp[c]))'
      BY <2>1 DEF Heard
    <2>4. GaveUpAtEnd'
      <3> SUFFICES ASSUME NEW c \in Comps, comp'[c].blocker = "released",
                          ~comp'[c].completed
                   PROVE  Ended'
        BY DEF GaveUpAtEnd
      <3>1. comp[c].blocker = "released" \/ s \in {"ending", "ended"}
        BY <2>1 DEF Heard
      <3>2. ~comp[c].completed
        BY <2>1 DEF Heard
      <3>3. Ended => s = "ended"
        BY <1>3
      <3> QED
        BY <1>3, <3>1, <3>2, <3>3 DEF IInv, GaveUpAtEnd, Ended
    <2>5. EndedStopsAll'
      BY <1>3, <1>6 DEF EndedStopsAll
    <2> QED
      BY <2>2, <2>3, <2>4, <2>5 DEF IInv
  <1> QED
    BY <1>5, <1>6

LEMMA InitEstablishes == Init => IInv
  <1> SUFFICES ASSUME Init PROVE IInv
    OBVIOUS
  <1>1. NoComponent \in Component /\ Sound(NoComponent)
    BY DEF NoComponent, Component, EventName, CallState, Sound
  <1>2. \A c \in Comps : comp[c] = NoComponent
    BY DEF Init
  <1>3. TypeOK
    BY <1>1 DEF Init, TypeOK, CallState
  <1>4. GaveUpAtEnd
    BY <1>2 DEF GaveUpAtEnd, NoComponent
  <1>5. EndedStopsAll
    BY DEF Init, EndedStopsAll
  <1> QED
    BY <1>1, <1>2, <1>3, <1>4, <1>5 DEF IInv

(* Which method of the call the application's step starts.                    *)
Starts(c, k, blocking, waits) ==
  /\ k \in AllKinds /\ waits \in SUBSET EventName
  /\ blocking => k # "pass" /\ (k = "await" \/ waits = Waits(k))
  /\ Start(c, k, blocking, waits)

LEMMA UserStarts ==
  ASSUME NEW c \in Comps,
         \/ \E k \in Kinds : Call(c, k) \/ CallAsync(c, k)
         \/ \E events \in WaitSets : WaitFor(c, events)
  PROVE  \E k, waits : \E blocking \in BOOLEAN : Starts(c, k, blocking, waits)
  <1>1. ASSUME NEW k \in Kinds, Call(c, k) PROVE Starts(c, k, TRUE, Waits(k))
    <2>1. k \in AllKinds /\ k # "pass" /\ Start(c, k, TRUE, Waits(k))
      BY <1>1, KindsAssumption DEF Call, OnlyAsync
    <2>2. Waits(k) \in SUBSET EventName
      BY <2>1, EventsAreNames
    <2> QED
      BY <2>1, <2>2 DEF Starts
  <1>2. ASSUME NEW k \in Kinds, CallAsync(c, k) PROVE Starts(c, k, FALSE, {})
    BY <1>2, KindsAssumption DEF CallAsync, Starts
  <1>3. ASSUME NEW events \in WaitSets, WaitFor(c, events)
        PROVE  Starts(c, "await", TRUE, events)
    <2>1. "await" \in AllKinds /\ events \in SUBSET EventName
      BY WaitSetsAssumption DEF AllKinds, EventName
    <2> QED
      BY <1>3, <2>1 DEF WaitFor, Starts
  <1> QED
    BY <1>1, <1>2, <1>3

LEMMA UserKeeps ==
  ASSUME IInv, User
  PROVE  IInv'
  <1> PICK c \in Comps :
        \/ \E k \in Kinds : Call(c, k) \/ CallAsync(c, k)
        \/ \E events \in WaitSets : WaitFor(c, events)
        \/ Control(c)
    BY DEF User
  <1>1. ASSUME NEW k, NEW waits, NEW blocking \in BOOLEAN, Starts(c, k, blocking, waits)
        PROVE  IInv'
    BY <1>1, StartKeeps DEF Starts
  <1>2. CASE Control(c)
    BY <1>2, ControlKeeps
  <1> QED
    BY <1>1, <1>2, UserStarts

LEMMA StepKeeps ==
  ASSUME IInv, [Next]_vars
  PROVE  IInv'
  <1>1. CASE User
    BY <1>1, UserKeeps
  <1>2. CASE Answer
    BY <1>2, ExecuteAnsweredKeeps, ExecuteFailedKeeps, ControlAnsweredKeeps DEF Answer
  <1>3. CASE Notification
    BY <1>3, NotificationPasses, NotificationKeeps, StateChangeKeeps
  <1>4. CASE UNCHANGED vars
    BY <1>4 DEF vars, IInv, TypeOK, GaveUpAtEnd, EndedStopsAll, Ended, Added
  <1> QED
    BY <1>1, <1>2, <1>3, <1>4 DEF Next

THEOREM Invariance == Spec => []IInv
  BY InitEstablishes, StepKeeps, PTL DEF Spec

(* The state of the call and of its components stays what the code's fields   *)
(* can hold.                                                                  *)
THEOREM TypeCorrect == Spec => []TypeOK
  BY Invariance, PTL DEF IInv

(* A component that completes releases the method waiting for it, but for a   *)
(* disconnect() told "connected", whatever components the call has and in     *)
(* whatever order answers, notifications and the end of the call come.        *)
THEOREM CompletionReleases == Spec => []CompletedIsReleased
  <1>1. IInv => CompletedIsReleased
    BY DEF IInv, Sound, CompletedIsReleased, Stranded
  <1> QED
    BY <1>1, Invariance, PTL

(* No component outlives the call.                                            *)
THEOREM EndStopsAll == Spec => []EndedStopsAll
  BY Invariance, PTL DEF IInv

------------------------------------------------------------------------------
(* A machine detector that waits for the beep. *)

Beeped(d) ==
  d.kind = "beep" /\ HasBlocker(d) /\ d.successful =>
    d.state # "MACHINE" /\ (d.beeping => d.state = "READY")

LEMMA DetectedBeeps ==
  ASSUME NEW d \in Component, NEW e \in EventName, d.kind = "beep", ~d.successful
  PROVE  Beeped(Detected(d, e))
  <1> DEFINE g == [d EXCEPT !.state = e]
             f == [g EXCEPT !.completed = TRUE,
                            !.successful = IF HasBlocker(d) THEN e \notin Final("detect")
                                                            ELSE e # "error"]
             b == [g EXCEPT !.beeping = TRUE]
  <1>1. g \in Component /\ f \in Component /\ b \in Component
    BY DEF Component
  <1>2. ~g.successful /\ ~b.successful
    BY DEF Component
  <1>3. /\ f.state = e
        /\ HasBlocker(d) => f.successful = (e \notin Final("detect"))
        /\ f.blocker = d.blocker /\ f.beeping = d.beeping
    BY DEF Component
  <1>4. Detected(d, e) \in {g, b, Release(f)}
    BY DEF Detected
  <1>5. Detected(d, e) = Release(f) /\ HasBlocker(d)
          => \/ e \in Final("detect") \/ Detected(d, e) \in {g, b}
             \/ e # "MACHINE" /\ (d.beeping => e = "READY")
    BY DEF Detected
  <1>6. /\ Release(f).state = f.state /\ Release(f).successful = f.successful
        /\ Release(f).beeping = f.beeping
        /\ HasBlocker(Release(f)) => HasBlocker(f)
    <2> HIDE DEF f
    <2> QED
      BY <1>1 DEF Release, HasBlocker, Component
  <1> HIDE DEF g, f, b
  <1>7. CASE Detected(d, e) \in {g, b}
    BY <1>2, <1>7 DEF Beeped
  <1>8. CASE Detected(d, e) = Release(f) /\ Detected(d, e) \notin {g, b}
    <2>1. HasBlocker(Release(f)) => HasBlocker(d)
      BY <1>3, <1>6 DEF HasBlocker
    <2>2. HasBlocker(d) => ~f.successful \/ (e # "MACHINE" /\ (d.beeping => e = "READY"))
      BY <1>3, <1>5, <1>8
    <2> QED
      BY <1>3, <1>6, <1>8, <2>1, <2>2 DEF Beeped
  <1> QED
    BY <1>4, <1>7, <1>8

LEMMA NotifiedBeeps ==
  ASSUME IInv, BeepIsAwaited,
         NEW type, NEW key, NEW e \in EventName, type = "connect" => key = "tag"
  PROVE  \A c \in Comps : Beeped(Notified(type, key, e)[c])
  <1> SUFFICES ASSUME NEW c \in Comps PROVE Beeped(Notified(type, key, e)[c])
    OBVIOUS
  <1> DEFINE d == comp[c]
             f == Notified(type, key, e)[c]
  <1>1. d \in Component /\ Sound(d) /\ Beeped(d)
    BY DEF IInv, TypeOK, BeepIsAwaited, Beeped
  <1>2. SameWork(d, f)
    BY NotifiedEffect DEF IInv, Heard
  <1>3. CASE Hears(c, type, key) /\ d.kind = "beep"
    <2>1. f = Detected(d, e)
      BY <1>3 DEF Notified, Handle, Detectors
    <2>2. ~d.successful
      BY <1>1, <1>3 DEF Hears, Sound
    <2> HIDE DEF d, f
    <2>3. Beeped(f)
      BY <1>1, <1>3, <2>1, <2>2, DetectedBeeps
    <2> QED
      BY <2>3 DEF f
  <1>4. CASE d.kind # "beep"
    BY <1>2, <1>4 DEF Beeped, SameWork
  <1>5. CASE ~Hears(c, type, key)
    BY <1>1, <1>5 DEF Notified
  <1> QED
    BY <1>3, <1>4, <1>5

LEMMA OneChangedBeeps ==
  ASSUME IInv, BeepIsAwaited, NEW c \in Comps, NEW f, Beeped(f),
         comp' = [comp EXCEPT ![c] = f]
  PROVE  BeepIsAwaited'
  BY DEF IInv, TypeOK, BeepIsAwaited, Beeped, HasBlocker

LEMMA AnswerBeeps ==
  ASSUME IInv, BeepIsAwaited, NEW c \in Comps,
         Control(c) \/ ExecuteAnswered(c) \/ ExecuteFailed(c) \/ ControlAnswered(c)
  PROVE  BeepIsAwaited'
  <1>1. comp[c] \in Component /\ Beeped(comp[c])
    BY DEF IInv, TypeOK, BeepIsAwaited, Beeped
  <1>2. ASSUME NEW r, (Control(c) /\ r = "sent") \/ ControlAnswered(c),
               comp' = [comp EXCEPT ![c].control = r]
        PROVE  BeepIsAwaited'
    <2> DEFINE f == [comp[c] EXCEPT !.control = r]
    <2>1. Beeped(f)
      BY <1>1 DEF Beeped, HasBlocker, Component
    <2>2. comp' = [comp EXCEPT ![c] = f]
      BY <1>2
    <2> QED
      BY <2>1, <2>2, OneChangedBeeps
  <1>3. CASE ExecuteAnswered(c)
    <2> DEFINE d == [comp[c] EXCEPT !.exec = "ok"]
               f == IF d.kind = "pass" THEN [d EXCEPT !.completed = TRUE, !.successful = TRUE]
                                       ELSE d
    <2>1. d.kind = "pass" => f.kind = "pass"
      BY <1>1 DEF Component
    <2>2. d.kind # "pass" => Beeped(f)
      BY <1>1 DEF Beeped, HasBlocker, Component
    <2>3. comp' = [comp EXCEPT ![c] = f]
      BY <1>3 DEF ExecuteAnswered
    <2> HIDE DEF f
    <2>4. Beeped(f)
      BY <2>1, <2>2 DEF Beeped
    <2> QED
      BY <2>3, <2>4, OneChangedBeeps
  <1>4. CASE ExecuteFailed(c)
    <2> DEFINE t == Terminate(comp[c])
               f == [t EXCEPT !.exec = "failed"]
    <2>1. t \in Component /\ ~t.successful
      BY <1>1, TerminateEffect
    <2>2. comp' = [comp EXCEPT ![c] = f]
      BY <1>4 DEF ExecuteFailed
    <2> HIDE DEF t
    <2>3. Beeped(f)
      BY <2>1 DEF Beeped, Component
    <2> QED
      BY <2>2, <2>3, OneChangedBeeps
  <1> QED
    BY <1>2, <1>3, <1>4 DEF Control, ControlAnswered

LEMMA StartsBeeps ==
  ASSUME IInv, BeepIsAwaited, NEW c \in Comps, NEW k, NEW waits,
         NEW blocking \in BOOLEAN, Starts(c, k, blocking, waits)
  PROVE  BeepIsAwaited'
  <1> DEFINE d == [NoComponent EXCEPT !.kind = k,
                     !.waits = IF blocking THEN waits ELSE {},
                     !.blocker = IF blocking THEN "armed" ELSE "none"]
             f == Execute(d)
  <1>1. d \in Component /\ ~d.completed /\ ~d.successful
    BY DEF Starts, NoComponent, Component, EventName, CallState
  <1>2. Sound(d)
    BY DEF Starts, NoComponent, Sound, AllKinds, Controllables, Detectors
  <1>3. comp' = [comp EXCEPT ![c] = f]
    BY DEF Starts, Start
  <1> HIDE DEF d
  <1>4. ~f.successful
    BY <1>1, <1>2, ExecuteEffect
  <1> HIDE DEF f
  <1> QED
    BY <1>3, <1>4, OneChangedBeeps DEF Beeped

LEMMA NotificationBeeps ==
  ASSUME IInv, BeepIsAwaited, Notification
  PROVE  BeepIsAwaited'
  <1>1. ASSUME NEW type, NEW key, NEW e, PassedOn(type, key, e)
        PROVE  BeepIsAwaited'
    BY <1>1, NotifiedBeeps DEF PassedOn, BeepIsAwaited, Beeped, HasBlocker
  <1>2. ASSUME NEW s \in CallState, StateChange(s)
        PROVE  BeepIsAwaited'
    <2> DEFINE notified == Notified("state", "tag", s)
    <2>1. \A c \in Comps : Beeped(notified[c])
      BY NotifiedBeeps DEF EventName
    <2>2. notified \in [Comps -> Component]
      BY NotifiedEffect DEF EventName, IInv
    <2>3. comp' = notified \/ comp' = TerminateAll(notified)
      BY <1>2 DEF StateChange
    <2> HIDE DEF notified
    <2>4. ASSUME NEW c \in Comps PROVE Beeped(TerminateAll(notified)[c])
      <3>1. CASE notified[c].kind # "none" /\ ~notified[c].completed
        <4>1. TerminateAll(notified)[c] = Terminate(notified[c])
          BY <3>1 DEF TerminateAll
        <4> QED
          BY <2>2, <4>1, TerminateEffect DEF Beeped
      <3>2. CASE ~(notified[c].kind # "none" /\ ~notified[c].completed)
        BY <2>1, <3>2 DEF TerminateAll
      <3> QED
        BY <3>1, <3>2
    <2> QED
      BY <2>1, <2>3, <2>4 DEF BeepIsAwaited, Beeped, HasBlocker
  <1> QED
    BY <1>1, <1>2, NotificationPasses

(* A machine detector that waits for the beep reports no machine before it,   *)
(* in whatever order the detector's events, the answer to its request and the *)
(* end of the call come.                                                      *)
THEOREM NoMachineBeforeItsBeep == Spec => []BeepIsAwaited
  <1>1. Init => BeepIsAwaited
    BY DEF Init, BeepIsAwaited, NoComponent
  <1>2. IInv /\ BeepIsAwaited /\ [Next]_vars => BeepIsAwaited'
    <2> SUFFICES ASSUME IInv, BeepIsAwaited, [Next]_vars
                 PROVE  BeepIsAwaited'
      OBVIOUS
    <2>1. CASE User
      <3> PICK c \in Comps :
            \/ \E k \in Kinds : Call(c, k) \/ CallAsync(c, k)
            \/ \E events \in WaitSets : WaitFor(c, events)
            \/ Control(c)
        BY <2>1 DEF User
      <3>1. ASSUME NEW k, NEW waits, NEW blocking \in BOOLEAN, Starts(c, k, blocking, waits)
            PROVE  BeepIsAwaited'
        BY <3>1, StartsBeeps
      <3>2. CASE Control(c)
        BY <3>2, AnswerBeeps
      <3> QED
        BY <3>1, <3>2, UserStarts
    <2>2. CASE Answer
      BY <2>2, AnswerBeeps DEF Answer
    <2>3. CASE Notification
      BY <2>3, NotificationBeeps
    <2>4. CASE UNCHANGED vars
      BY <2>4 DEF vars, BeepIsAwaited, HasBlocker
    <2> QED
      BY <2>1, <2>2, <2>3, <2>4 DEF Next
  <1> QED
    BY <1>1, <1>2, Invariance, PTL DEF Spec

------------------------------------------------------------------------------
(* The call implements module Operations. *)

(* The phase of the operation behind component d.                             *)
PhaseOf(d) ==
  IF d.blocker = "none" THEN "idle"
  ELSE IF ~(/\ d.kind # "none"
            /\ d.exec \in {"ok", "failed", "skipped", "thrown"}
            /\ d.blocker # "armed") THEN "running"
  ELSE IF d.successful THEN "succeeded" ELSE "failed"

PhaseStep(d, f) ==
  \/ PhaseOf(f) = PhaseOf(d)
  \/ PhaseOf(d) = "running" /\ PhaseOf(f) \in {"succeeded", "failed"}

LEMMA PhaseIs ==
  /\ OperationPhase = [c \in Comps |-> PhaseOf(comp[c])]
  /\ OperationPhase' = [c \in Comps |-> PhaseOf(comp'[c])]
  BY DEF OperationPhase, PhaseOf, HasBlocker, Returned, Added

(* What keeps the outcome of a method that returned keeps its phase.          *)
LEMMA PhaseKept ==
  ASSUME NEW d \in Component, NEW f \in Component, Sound(d), SameWork(d, f),
         d.completed => f.successful = d.successful,
         d.blocker = "released" /\ ~d.completed => ~f.successful
  PROVE  PhaseStep(d, f)
  <1>1. CASE d.blocker = "none"
    BY <1>1 DEF PhaseStep, PhaseOf, SameWork
  <1>2. CASE d.blocker = "armed"
    <2>1. PhaseOf(d) = "running" /\ f.blocker # "none"
      BY <1>2 DEF PhaseOf, SameWork
    <2> QED
      BY <2>1 DEF PhaseStep, PhaseOf
  <1>3. CASE d.blocker = "released"
    <2>1. f.blocker = "released" /\ f.kind = d.kind /\ f.exec = d.exec
      BY <1>3 DEF SameWork
    <2>2. f.successful = d.successful
      BY <1>3 DEF Sound, Component
    <2> QED
      BY <1>3, <2>1, <2>2 DEF PhaseStep, PhaseOf
  <1> QED
    BY <1>1, <1>2, <1>3 DEF Component

(* A step in which no method is called is a step of Progress.                 *)
LEMMA ProgressStep ==
  ASSUME \A c \in Comps : PhaseStep(comp[c], comp'[c]), Ended => Ended'
  PROVE  Abstract!Progress
  <1>1. \A c \in Comps : PhaseOf(comp'[c]) \in Abstract!Phase
    BY DEF PhaseOf, Abstract!Phase
  <1>2. OperationPhase' \in [Comps -> Abstract!Phase]
    BY <1>1, PhaseIs
  <1>3. \A c \in Comps : \/ OperationPhase'[c] = OperationPhase[c]
                         \/ OperationPhase[c] = "running"
                            /\ OperationPhase'[c] \in Abstract!Settled
    BY PhaseIs DEF PhaseStep, Abstract!Settled
  <1>4. Ended' \in BOOLEAN
    BY DEF Ended
  <1> QED
    BY <1>2, <1>3, <1>4 DEF Abstract!Progress

LEMMA StartsSteps ==
  ASSUME IInv, NEW c \in Comps, NEW k, NEW waits, NEW blocking \in BOOLEAN,
         Starts(c, k, blocking, waits)
  PROVE  Abstract!OpsNext
  <1> DEFINE d == [NoComponent EXCEPT !.kind = k,
                     !.waits = IF blocking THEN waits ELSE {},
                     !.blocker = IF blocking THEN "armed" ELSE "none"]
             f == Execute(d)
  <1>1. d \in Component /\ ~d.completed /\ ~d.successful /\ d.kind = k
    BY DEF Starts, NoComponent, Component, EventName, CallState
  <1>2. Sound(d)
    BY DEF Starts, NoComponent, Sound, AllKinds, Controllables, Detectors
  <1>3. comp' = [comp EXCEPT ![c] = f] /\ state' = state /\ ~Added(c)
    BY DEF Starts, Start
  <1>4. d.blocker = IF blocking THEN "armed" ELSE "none"
    BY DEF NoComponent
  <1> HIDE DEF d
  <1>5. /\ f \in Component /\ f.kind = k /\ ~f.successful
        /\ d.blocker = "none" <=> f.blocker = "none"
        /\ Ended /\ f.blocker # "none" => f.blocker = "released" /\ f.exec = "skipped"
        /\ ~Ended => f.blocker = d.blocker
    BY <1>1, <1>2, ExecuteEffect
  <1> HIDE DEF f
  <1>6. k # "none"
    BY DEF Starts, AllKinds, Controllables, Detectors
  <1>7. comp \in [Comps -> Component] /\ PhaseOf(comp[c]) = "idle"
    BY <1>3 DEF IInv, TypeOK, Sound, Added, PhaseOf
  <1>8. Ended' = Ended
    BY <1>3 DEF Ended
  <1>9. CASE blocking
    <2>1. PhaseOf(f) = IF Ended THEN "failed" ELSE "running"
      BY <1>4, <1>5, <1>6, <1>9 DEF PhaseOf
    <2>2. OperationPhase[c] = "idle"
      BY <1>7, PhaseIs
    <2>3. OperationPhase' = [OperationPhase EXCEPT ![c] = PhaseOf(f)]
      BY <1>3, <1>7, PhaseIs
    <2>4. Abstract!Begin(c)
      BY <1>8, <2>1, <2>2, <2>3 DEF Abstract!Begin
    <2> QED
      BY <2>4 DEF Abstract!OpsNext
  <1>10. CASE ~blocking
    <2>1. PhaseOf(f) = "idle"
      BY <1>4, <1>5, <1>10 DEF PhaseOf
    <2>2. \A x \in Comps : PhaseStep(comp[x], comp'[x])
      BY <1>3, <1>7, <2>1 DEF PhaseStep
    <2>3. Abstract!Progress
      BY <1>8, <2>2, ProgressStep
    <2> QED
      BY <2>3 DEF Abstract!OpsNext
  <1> QED
    BY <1>9, <1>10

(* Requests and their answers.                                                *)
LEMMA OneChangedSteps ==
  ASSUME IInv, NEW c \in Comps, NEW f, comp' = [comp EXCEPT ![c] = f],
         PhaseStep(comp[c], f), UNCHANGED state
  PROVE  Abstract!Progress
  <1>1. comp \in [Comps -> Component]
    BY DEF IInv, TypeOK
  <1>2. \A x \in Comps : PhaseStep(comp[x], comp'[x])
    BY <1>1 DEF PhaseStep
  <1> QED
    BY <1>2, ProgressStep DEF Ended

LEMMA AnswerSteps ==
  ASSUME IInv, NEW c \in Comps,
         Control(c) \/ ExecuteAnswered(c) \/ ExecuteFailed(c) \/ ControlAnswered(c)
  PROVE  Abstract!Progress
  <1>1. comp[c] \in Component /\ Sound(comp[c])
    BY DEF IInv, TypeOK
  <1>2. CASE Control(c)
    <2> DEFINE f == [comp[c] EXCEPT !.control = "sent"]
    <2>1. PhaseOf(f) = PhaseOf(comp[c])
      BY <1>1 DEF PhaseOf, Component
    <2>2. comp' = [comp EXCEPT ![c] = f] /\ UNCHANGED state
      BY <1>2 DEF Control
    <2> QED
      BY <2>1, <2>2, OneChangedSteps DEF PhaseStep
  <1>3. CASE ControlAnswered(c)
    <2> PICK r \in {"ok", "failed"} : comp' = [comp EXCEPT ![c].control = r]
      BY <1>3 DEF ControlAnswered
    <2> DEFINE f == [comp[c] EXCEPT !.control = r]
    <2>1. PhaseOf(f) = PhaseOf(comp[c])
      BY <1>1 DEF PhaseOf, Component
    <2>2. comp' = [comp EXCEPT ![c] = f] /\ UNCHANGED state
      BY <1>3 DEF ControlAnswered
    <2> QED
      BY <2>1, <2>2, OneChangedSteps DEF PhaseStep
  <1>4. CASE ExecuteAnswered(c)
    <2> DEFINE d == [comp[c] EXCEPT !.exec = "ok"]
               f == IF d.kind = "pass" THEN [d EXCEPT !.completed = TRUE, !.successful = TRUE]
                                       ELSE d
    <2>1. d \in Component /\ d.blocker = comp[c].blocker
      BY <1>1 DEF Component
    <2>2. comp' = [comp EXCEPT ![c] = f] /\ UNCHANGED state /\ comp[c].exec = "sent"
      BY <1>4 DEF ExecuteAnswered
    <2> HIDE DEF d
    <2>3. f.blocker = comp[c].blocker
      BY <2>1 DEF Component
    <2> HIDE DEF f
    <2>4. PhaseStep(comp[c], f)
      BY <2>2, <2>3 DEF PhaseStep, PhaseOf
    <2> QED
      BY <2>2, <2>4, OneChangedSteps
  <1>5. CASE ExecuteFailed(c)
    <2> DEFINE t == Terminate(comp[c])
               f == [t EXCEPT !.exec = "failed"]
    <2>1. t \in Component /\ SameWork(comp[c], t)
      BY <1>1, TerminateEffect
    <2>2. comp' = [comp EXCEPT ![c] = f] /\ UNCHANGED state /\ comp[c].exec = "sent"
      BY <1>5 DEF ExecuteFailed
    <2> HIDE DEF t
    <2>3. f.blocker = t.blocker
      BY <2>1 DEF Component
    <2> HIDE DEF f
    <2>4. PhaseStep(comp[c], f)
      BY <2>1, <2>2, <2>3 DEF PhaseStep, PhaseOf, SameWork
    <2> QED
      BY <2>2, <2>4, OneChangedSteps
  <1> QED
    BY <1>2, <1>3, <1>4, <1>5

LEMMA HeardSteps ==
  ASSUME NEW d \in Component, NEW f, NEW type, NEW e, Sound(d), Heard(d, f, type, e),
         d.blocker = "released" /\ ~d.completed => e # "answered" \/ type # "state"
  PROVE  PhaseStep(d, f)
  BY PhaseKept DEF Heard

LEMMA NotificationSteps ==
  ASSUME IInv, Notification
  PROVE  Abstract!Progress
  <1> USE DEF IInv
  <1>1. ASSUME NEW type, NEW key, NEW e, PassedOn(type, key, e)
        PROVE  Abstract!Progress
    <2>1. \A c \in Comps : Heard(comp[c], comp'[c], type, e)
      BY <1>1, NotifiedEffect DEF PassedOn
    <2>2. \A c \in Comps : PhaseStep(comp[c], comp'[c])
      BY <1>1, <2>1, HeardSteps DEF PassedOn, TypeOK
    <2>3. Ended => Ended'
      BY <1>1 DEF PassedOn, Ended
    <2> QED
      BY <2>2, <2>3, ProgressStep
  <1>2. ASSUME NEW s \in CallState, StateChange(s)
        PROVE  Abstract!Progress
    <2> DEFINE notified == Notified("state", "tag", s)
    <2>1. /\ notified \in [Comps -> Component]
          /\ \A c \in Comps : Heard(comp[c], notified[c], "state", s)
      BY NotifiedEffect DEF EventName
    <2>2. state' = s /\ (Ended => s = "ended")
      BY <1>2, RankIsPlace DEF StateChange, Ended, TypeOK
    <2>3. /\ s = "ended" => comp' = TerminateAll(notified)
          /\ s # "ended" => comp' = notified
      BY <1>2 DEF StateChange
    <2> HIDE DEF notified
    <2>4. ASSUME NEW c \in Comps PROVE PhaseStep(comp[c], comp'[c])
      <3>1. comp[c] \in Component /\ Sound(comp[c])
        BY DEF TypeOK
      <3>2. comp[c].blocker = "released" /\ ~comp[c].completed => s = "ended"
        BY <2>2 DEF GaveUpAtEnd
      <3>3. CASE s # "ended"
        BY <2>1, <2>3, <3>1, <3>2, <3>3, HeardSteps
      <3>4. CASE s = "ended"
        <4> DEFINE d == comp[c]
                   f == notified[c]
                   g == comp'[c]
        <4>1. /\ f \in Component /\ SameWork(d, f) /\ (d.completed => f = d)
              /\ d.blocker = "released" /\ ~d.completed => ~f.successful
          BY <2>1, <3>4 DEF Heard
        <4>2. \A x \in Comps : Sound(notified[x])
          BY <2>1 DEF Heard
        <4>3. /\ g \in Component /\ SameWork(f, g) /\ (f.completed => g = f)
              /\ ~f.completed => ~g.successful
          BY <2>1, <2>3, <3>4, <4>2, TerminateAllEffect
        <4> HIDE DEF d, f, g
        <4>4. SameWork(d, g)
          BY <4>1, <4>3 DEF SameWork
        <4>5. /\ d.completed => g.successful = d.successful
              /\ d.blocker = "released" /\ ~d.completed => ~g.successful
          BY <4>1, <4>3
        <4>6. d \in Component /\ Sound(d)
          BY <3>1 DEF d
        <4>7. PhaseStep(d, g)
          BY <4>3, <4>4, <4>5, <4>6, PhaseKept
        <4> QED
          BY <4>7 DEF d, g
      <3> QED
        BY <3>3, <3>4
    <2>5. Ended => Ended'
      BY <2>2 DEF Ended
    <2> QED
      BY <2>4, <2>5, ProgressStep
  <1> QED
    BY <1>1, <1>2, NotificationPasses

LEMMA UserSteps ==
  ASSUME IInv, User
  PROVE  Abstract!OpsNext
  <1> PICK c \in Comps :
        \/ \E k \in Kinds : Call(c, k) \/ CallAsync(c, k)
        \/ \E events \in WaitSets : WaitFor(c, events)
        \/ Control(c)
    BY DEF User
  <1>1. ASSUME NEW k, NEW waits, NEW blocking \in BOOLEAN, Starts(c, k, blocking, waits)
        PROVE  Abstract!OpsNext
    BY <1>1, StartsSteps
  <1>2. CASE Control(c)
    BY <1>2, AnswerSteps DEF Abstract!OpsNext
  <1> QED
    BY <1>1, <1>2, UserStarts

(* A method that waits is settled once and stays settled, though its result   *)
(* reads the live component, and fails at once when the call is over: the     *)
(* call implements Operations.                                                *)
THEOREM ImplementsTheOperations == Spec => ImplementsOperations
  <1>1. Init => Abstract!OpsInit
    BY DEF Init, Abstract!OpsInit, Ended, OperationPhase, NoComponent, HasBlocker
  <1>2. IInv /\ [Next]_vars => [Abstract!OpsNext]_(Abstract!opsVars)
    <2> SUFFICES ASSUME IInv, [Next]_vars
                 PROVE  [Abstract!OpsNext]_(Abstract!opsVars)
      OBVIOUS
    <2>1. CASE User
      BY <2>1, UserSteps
    <2>2. CASE Answer
      BY <2>2, AnswerSteps DEF Answer, Abstract!OpsNext
    <2>3. CASE Notification
      BY <2>3, NotificationSteps DEF Abstract!OpsNext
    <2>4. CASE UNCHANGED vars
      BY <2>4 DEF vars, Abstract!opsVars, Ended, OperationPhase, HasBlocker, Returned, Added
    <2> QED
      BY <2>1, <2>2, <2>3, <2>4 DEF Next
  <1> QED
    BY <1>1, <1>2, Invariance, PTL DEF Spec, ImplementsOperations, Abstract!OpsSpec
=============================================================================

--------------------------- MODULE WebCallProofs ---------------------------
(***************************************************************************)
(* Proofs about WebCall, for any number of objects of a call, with and     *)
(* without automatic recovery, bare descriptions and ICE restarts.         *)
(***************************************************************************)
EXTENDS WebCall, TLAPS

------------------------------------------------------------------------------
(* A field of the object may be set to what belongs in it. *)

LEMMA PutFlag ==
  ASSUME NEW r \in CallType, NEW v \in BOOLEAN
  PROVE  /\ [r EXCEPT !.gotEarly = v] \in CallType
         /\ [r EXCEPT !.gotAnswer = v] \in CallType
         /\ [r EXCEPT !.timer = v] \in CallType
         /\ [r EXCEPT !.done = v] \in CallType
         /\ [r EXCEPT !.peer = v] \in CallType
         /\ [r EXCEPT !.neg = v] \in CallType
         /\ [r EXCEPT !.twice = v] \in CallType
         /\ [r EXCEPT !.needed = v] \in CallType
         /\ [r EXCEPT !.cands = v] \in CallType
         /\ [r EXCEPT !.gather = v] \in CallType
         /\ [r EXCEPT !.refused = v] \in CallType
  <1>1. /\ [r EXCEPT !.gotEarly = v] \in CallType
        /\ [r EXCEPT !.gotAnswer = v] \in CallType
        /\ [r EXCEPT !.timer = v] \in CallType
    BY DEF CallType
  <1>2. /\ [r EXCEPT !.done = v] \in CallType
        /\ [r EXCEPT !.peer = v] \in CallType
        /\ [r EXCEPT !.neg = v] \in CallType
    BY DEF CallType
  <1>3. /\ [r EXCEPT !.twice = v] \in CallType
        /\ [r EXCEPT !.needed = v] \in CallType
        /\ [r EXCEPT !.refused = v] \in CallType
    BY DEF CallType
  <1>4. /\ [r EXCEPT !.cands = v] \in CallType
        /\ [r EXCEPT !.gather = v] \in CallType
    BY DEF CallType
  <1> QED
    BY <1>1, <1>2, <1>3, <1>4

Media == {"none", "asked", "held", "stopped"}
Pcs   == {"none", "open", "closed"}
Types == {"none", "offer", "answer"}

LEMMA PutName ==
  ASSUME NEW r \in CallType
  PROVE  /\ \A v \in States : [r EXCEPT !.state = v] \in CallType
         /\ \A v \in Media : [r EXCEPT !.media = v] \in CallType
         /\ \A v \in Pcs : [r EXCEPT !.pc = v] \in CallType
         /\ \A v \in {"stable", "local", "remote"} : [r EXCEPT !.sig = v] \in CallType
         /\ \A v \in {"none", "first", "modify"} : [r EXCEPT !.srd = v] \in CallType
  <1>1. /\ \A v \in States : [r EXCEPT !.state = v] \in CallType
        /\ \A v \in Media : [r EXCEPT !.media = v] \in CallType
        /\ \A v \in Pcs : [r EXCEPT !.pc = v] \in CallType
    BY DEF CallType, Media, Pcs
  <1>2. /\ \A v \in {"stable", "local", "remote"} : [r EXCEPT !.sig = v] \in CallType
        /\ \A v \in {"none", "first", "modify"} : [r EXCEPT !.srd = v] \in CallType
    BY DEF CallType
  <1> QED
    BY <1>1, <1>2

LEMMA PutType ==
  ASSUME NEW r \in CallType, NEW v \in Types
  PROVE  /\ [r EXCEPT !.type = v] \in CallType
         /\ [r EXCEPT !.making = v] \in CallType
         /\ [r EXCEPT !.desc = v] \in CallType
  BY DEF CallType, Types

LEMMA PutNumber ==
  ASSUME NEW r \in CallType
  PROVE  /\ \A n \in Nat : [r EXCEPT !.invites = n] \in CallType
         /\ \A n \in 0 .. MaxAttempts : [r EXCEPT !.attempts = n] \in CallType
         /\ \A n \in 0 .. MaxRestarts : [r EXCEPT !.restarts = n] \in CallType
  BY DEF CallType

LEMMA PutAsked ==
  ASSUME NEW r \in CallType
  PROVE  /\ \A f \in [Requests -> Nat] : [r EXCEPT !.asked = f] \in CallType
         /\ \A n \in Nat :
              /\ [r EXCEPT !.asked.bye = n] \in CallType
              /\ [r EXCEPT !.asked.invite = n] \in CallType
              /\ [r EXCEPT !.asked.answer = n] \in CallType
              /\ [r EXCEPT !.asked.modify = n] \in CallType
              /\ [r EXCEPT !.asked.hold = n] \in CallType
  <1>1. \A f \in [Requests -> Nat] : [r EXCEPT !.asked = f] \in CallType
    BY DEF CallType
  <1>2. \A n \in Nat : /\ [r EXCEPT !.asked.bye = n] \in CallType
                       /\ [r EXCEPT !.asked.invite = n] \in CallType
                       /\ [r EXCEPT !.asked.answer = n] \in CallType
    BY DEF CallType, Requests
  <1>3. \A n \in Nat : /\ [r EXCEPT !.asked.modify = n] \in CallType
                       /\ [r EXCEPT !.asked.hold = n] \in CallType
    BY DEF CallType, Requests
  <1> QED
    BY <1>1, <1>2, <1>3

LEMMA Fields ==
  ASSUME NEW r \in CallType
  PROVE  /\ r.state \in States \cup {"unused"} /\ r.media \in Media /\ r.pc \in Pcs
         /\ r.type \in Types /\ r.making \in Types /\ r.desc \in Types
         /\ r.asked \in [Requests -> Nat]
         /\ r.invites \in Nat /\ r.attempts \in 0 .. MaxAttempts
         /\ r.restarts \in 0 .. MaxRestarts
         /\ {r.gotEarly, r.gotAnswer, r.timer, r.done, r.peer, r.neg, r.twice, r.needed,
             r.cands, r.gather, r.refused} \subseteq BOOLEAN
         /\ r.sig \in {"stable", "local", "remote"}
  BY DEF CallType, Media, Pcs, Types

LEMMA Names ==
  /\ {"new", "requesting", "trying", "recovering", "ringing", "answering", "early",
      "active", "held", "hangup", "destroy"} \subseteq States
  /\ {"none", "asked", "held", "stopped"} \subseteq Media
  /\ {"none", "open", "closed"} \subseteq Pcs
  /\ {"none", "offer", "answer"} \subseteq Types
  BY DEF States, Media, Pcs, Types

------------------------------------------------------------------------------
(* One object. *)

(* It holds its peer while the connection is open.                            *)
Sound(r) == r \in CallType /\ (r.pc = "open" <=> r.peer)

Live(r) == r.state \notin {"unused", "destroy"}

(* s comes of r by something that neither opens nor closes the connection nor *)
(* destroys the call.                                                         *)
Goes(r, s) ==
  /\ s \in CallType
  /\ s.pc = r.pc /\ s.peer = r.peer
  /\ Live(r) => Live(s)

LEMMA GoesOn ==
  ASSUME NEW r, NEW s, NEW t, Goes(r, s), Goes(s, t)
  PROVE  Goes(r, t)
  BY DEF Goes

LEMMA GoesSound ==
  ASSUME NEW r, NEW s, Sound(r), Goes(r, s)
  PROVE  Sound(s)
  BY DEF Goes, Sound

LEMMA UnusedIsSound == Sound(Unused)
  BY BoundAssumption DEF Sound, Unused, CallType, States, Requests

LEMMA WithPeerEffect ==
  ASSUME NEW r \in CallType, NEW t \in {"offer", "answer"}
  PROVE  Sound(WithPeer(r, t)) /\ WithPeer(r, t).state = r.state
  <1>1. WithPeer(r, t) \in CallType
    BY PutFlag, PutName, PutType, Names, Zenon DEF WithPeer
  <1>2. /\ WithPeer(r, t).pc = "open" /\ WithPeer(r, t).peer
        /\ WithPeer(r, t).state = r.state
    BY DEF WithPeer, CallType
  <1> QED
    BY <1>1, <1>2 DEF Sound

LEMMA ClosedEffect ==
  ASSUME NEW r, Sound(r)
  PROVE  /\ Sound(Closed(r)) /\ Closed(r).pc # "open" /\ Closed(r).state = "destroy"
         /\ Closed(r).asked = r.asked
  <1>1. r \in CallType /\ (r.pc = "open" => r.peer)
    BY DEF Sound
  <1>2. /\ (IF r.media = "held" THEN "stopped" ELSE r.media) \in Media
        /\ (IF r.peer THEN "closed" ELSE r.pc) \in Pcs
    BY <1>1, Fields, Names
  <1>3. Closed(r) \in CallType
    BY <1>1, <1>2, PutFlag, PutName, Names, Zenon DEF Closed
  <1>4. /\ Closed(r).pc = (IF r.peer THEN "closed" ELSE r.pc) /\ ~Closed(r).peer
        /\ Closed(r).state = "destroy" /\ Closed(r).asked = r.asked
    BY <1>1 DEF Closed, CallType
  <1> QED
    BY <1>1, <1>3, <1>4 DEF Sound

LEMMA HangupWithByeEffect ==
  ASSUME NEW r \in CallType
  PROVE  Goes(r, HangupWithBye(r)) /\ Live(HangupWithBye(r))
  <1>1. r.asked.bye + 1 \in Nat
    BY DEF CallType, Requests
  <1>2. HangupWithBye(r) \in CallType
    BY <1>1, PutName, PutAsked, Names, Zenon DEF HangupWithBye
  <1>3. /\ HangupWithBye(r).pc = r.pc /\ HangupWithBye(r).peer = r.peer
        /\ HangupWithBye(r).state = "hangup"
    BY DEF HangupWithBye, CallType
  <1> QED
    BY <1>2, <1>3 DEF Goes, Live

LEMMA NegotiatesEffect ==
  ASSUME NEW r \in CallType
  PROVE  Goes(r, Negotiates(r))
  <1>1. (IF r.pc = "open" THEN r.type ELSE r.making) \in Types
    BY Fields
  <1>2. Negotiates(r) \in CallType
    BY <1>1, PutFlag, PutType, Zenon DEF Negotiates
  <1>3. /\ Negotiates(r).pc = r.pc /\ Negotiates(r).peer = r.peer
        /\ Negotiates(r).state = r.state
    BY DEF Negotiates, CallType
  <1> QED
    BY <1>2, <1>3 DEF Goes, Live

LEMMA RestartedEffect ==
  ASSUME NEW r \in CallType, r.restarts < MaxRestarts
  PROVE  Goes(r, Restarted(r))
  <1>1. r.restarts + 1 \in 0 .. MaxRestarts
    BY Fields, BoundAssumption
  <1>2. Restarted(r) \in CallType
    BY <1>1, PutFlag, PutType, PutNumber, Names, Zenon DEF Restarted
  <1>3. /\ Restarted(r).pc = r.pc /\ Restarted(r).peer = r.peer
        /\ Restarted(r).state = r.state
    BY DEF Restarted, CallType
  <1> QED
    BY <1>2, <1>3 DEF Goes, Live

LEMMA SendsEffect ==
  ASSUME NEW r \in CallType
  PROVE  Goes(r, Sends(r))
  <1> DEFINE modify == [r EXCEPT !.asked.modify = @ + 1]
             invite == [r EXCEPT !.state = "requesting", !.asked.invite = @ + 1,
                                 !.invites = @ + 1]
             answer == [r EXCEPT !.state = "answering", !.asked.answer = @ + 1]
  <1>1. /\ r.asked.modify + 1 \in Nat /\ r.asked.invite + 1 \in Nat
        /\ r.asked.answer + 1 \in Nat /\ r.invites + 1 \in Nat
    BY DEF CallType, Requests
  <1>2. modify \in CallType /\ invite \in CallType /\ answer \in CallType
    BY <1>1, PutName, PutNumber, PutAsked, Names, Zenon
  <1>3. /\ modify.pc = r.pc /\ modify.peer = r.peer /\ modify.state = r.state
        /\ invite.pc = r.pc /\ invite.peer = r.peer /\ invite.state = "requesting"
        /\ answer.pc = r.pc /\ answer.peer = r.peer /\ answer.state = "answering"
    BY DEF CallType
  <1>4. Sends(r) \in {modify, invite, answer}
    BY DEF Sends
  <1> HIDE DEF modify, invite, answer
  <1> QED
    BY <1>2, <1>3, <1>4 DEF Goes, Live

LEMMA OnIceSdpEffect ==
  ASSUME NEW r \in CallType
  PROVE  Goes(r, OnIceSdp(r))
  <1> DEFINE s == [r EXCEPT !.timer = FALSE, !.done = TRUE]
             t == [s EXCEPT !.neg = FALSE]
             u == [t EXCEPT !.twice = TRUE, !.done = FALSE]
  <1>1. s \in CallType /\ t \in CallType /\ u \in CallType
    BY PutFlag, Zenon
  <1>2. /\ s.pc = r.pc /\ s.peer = r.peer /\ s.state = r.state
        /\ t.pc = r.pc /\ t.peer = r.peer /\ t.state = r.state
        /\ u.pc = r.pc /\ u.peer = r.peer /\ u.state = r.state
    BY DEF CallType
  <1>3. OnIceSdp(r) \in {s, Sends(t), t, Negotiates(u)}
    BY DEF OnIceSdp, AsksAgain
  <1> HIDE DEF s, t, u
  <1>4. Goes(r, s) /\ Goes(r, t) /\ Goes(r, u)
    BY <1>1, <1>2 DEF Goes, Live
  <1>5. Goes(t, Sends(t)) /\ Goes(u, Negotiates(u))
    BY <1>1, SendsEffect, NegotiatesEffect
  <1> QED
    BY <1>3, <1>4, <1>5, GoesOn

LEMMA WithDescriptionEffect ==
  ASSUME NEW r \in CallType
  PROVE  /\ \A full, neg \in BOOLEAN : Goes(r, WithDescription(r, full, neg))
         /\ \A sig \in {"stable", "local", "remote"} : Goes(r, WithoutDescription(r, sig))
  <1>1. ASSUME NEW full \in BOOLEAN, NEW neg \in BOOLEAN
        PROVE  Goes(r, WithDescription(r, full, neg))
    <2> DEFINE s == WithDescription(r, full, neg)
    <2>1. /\ (IF r.making = "offer" THEN "local" ELSE "stable") \in {"stable", "local", "remote"}
          /\ r.making \in Types
      BY Fields
    <2>2. s \in CallType
      BY <2>1, PutFlag, PutName, PutType, Names, Zenon DEF WithDescription
    <2>3. s.pc = r.pc /\ s.peer = r.peer /\ s.state = r.state
      BY DEF CallType, WithDescription
    <2> QED
      BY <2>2, <2>3 DEF Goes, Live
  <1>2. ASSUME NEW sig \in {"stable", "local", "remote"}
        PROVE  Goes(r, WithoutDescription(r, sig))
    <2> DEFINE s == WithoutDescription(r, sig)
    <2>1. (r.neg \/ sig # r.sig) \in BOOLEAN
      OBVIOUS
    <2>2. s \in CallType
      BY <2>1, PutFlag, PutName, PutType, Names, Zenon DEF WithoutDescription
    <2>3. s.pc = r.pc /\ s.peer = r.peer /\ s.state = r.state
      BY DEF CallType, WithoutDescription
    <2> QED
      BY <2>2, <2>3 DEF Goes, Live
  <1> QED
    BY <1>1, <1>2

LEMMA OnOldSdpEffect ==
  ASSUME NEW r \in CallType, NEW full \in BOOLEAN
  PROVE  Goes(r, OnOldSdp(r, full))
  <1> DEFINE s == [r EXCEPT !.desc = "answer", !.cands = full]
             t == OnIceSdp(s)
             u == [t EXCEPT !.desc = r.desc, !.cands = r.cands]
  <1>1. s \in CallType
    BY PutFlag, PutType, Names, Zenon
  <1>2. s.pc = r.pc /\ s.peer = r.peer /\ s.state = r.state
    BY DEF CallType
  <1> HIDE DEF s
  <1>3. Goes(s, t)
    BY <1>1, OnIceSdpEffect
  <1> HIDE DEF t
  <1>4. t \in CallType /\ r.desc \in Types /\ r.cands \in BOOLEAN
    BY <1>3, Fields DEF Goes
  <1>5. u \in CallType
    BY <1>4, PutFlag, PutType, Zenon
  <1>6. u.pc = t.pc /\ u.peer = t.peer /\ u.state = t.state
    BY <1>4 DEF CallType
  <1>7. u = OnOldSdp(r, full)
    BY DEF OnOldSdp, s, t
  <1> HIDE DEF u
  <1> QED
    BY <1>2, <1>3, <1>5, <1>6, <1>7 DEF Goes, Live

------------------------------------------------------------------------------
(* The inductive invariant, and the steps that leave the registry alone. *)

Typed ==
  /\ call \in [Calls -> CallType]
  /\ reg \in Calls \cup {None}
  /\ remote \in {"none", "ringing", "trying", "early", "answered", "gone"}
  /\ down \in BOOLEAN

IInv ==
  /\ Typed
  /\ \A c \in Calls : Sound(call[c])
  /\ RegisteredIsLive

Remotes == {"none", "ringing", "trying", "early", "answered", "gone"}

(* c becomes f, and the registry stays.                                       *)
Alone(c, f) ==
  /\ Is(c, f)
  /\ Sound(f) /\ (Live(call[c]) => Live(f))
  /\ reg' = reg /\ remote' \in Remotes /\ down' \in BOOLEAN

LEMMA AloneKeeps ==
  ASSUME IInv, NEW c \in Calls, NEW f, Alone(c, f)
  PROVE  IInv'
  <1>1. call \in [Calls -> CallType] /\ f \in CallType
    BY DEF IInv, Typed, Alone, Sound
  <1>2. call' = [call EXCEPT ![c] = f] /\ reg' = reg
    BY DEF Alone, Is
  <1>3. Typed'
    BY <1>1, <1>2 DEF IInv, Typed, Alone, Remotes
  <1>4. \A d \in Calls : Sound(call'[d])
    BY <1>1, <1>2 DEF IInv, Alone
  <1>5. reg # None => Live(call'[reg])
    BY <1>1, <1>2 DEF IInv, Typed, RegisteredIsLive, Alone, Live
  <1> QED
    BY <1>2, <1>3, <1>4, <1>5 DEF IInv, RegisteredIsLive, Live

LEMMA GoesAlone ==
  ASSUME IInv, NEW c \in Calls, NEW f, Is(c, f), Goes(call[c], f),
         reg' = reg, remote' \in Remotes, down' \in BOOLEAN
  PROVE  Alone(c, f)
  BY GoesSound DEF Alone, Goes, IInv

LEMMA UserAlone ==
  ASSUME IInv, NEW c \in Calls, User(c)
  PROVE  \E f : Alone(c, f)
  <1> DEFINE r == call[c]
  <1>1. r \in CallType /\ remote \in Remotes /\ down \in BOOLEAN
    BY DEF IInv, Typed, Remotes
  <1>2. CASE Answer(c)
    <2>1. Sound(WithPeer(r, "answer")) /\ WithPeer(r, "answer").state = r.state
      BY <1>1, WithPeerEffect
    <2>2. Alone(c, WithPeer(r, "answer"))
      BY <1>1, <1>2, <2>1 DEF Answer, Alone, Live
    <2> QED
      BY <2>2
  <1>3. CASE Hangup(c)
    <2>1. Goes(r, HangupWithBye(r))
      BY <1>1, HangupWithByeEffect
    <2>2. Alone(c, HangupWithBye(r))
      BY <1>1, <1>3, <2>1, GoesAlone DEF Hangup
    <2> QED
      BY <2>2
  <1>4. CASE Hold(c)
    <2> DEFINE f == [r EXCEPT !.asked.hold = 1]
    <2>1. f \in CallType
      BY <1>1, PutAsked
    <2>2. f.pc = r.pc /\ f.peer = r.peer /\ f.state = r.state
      BY <1>1 DEF CallType
    <2>3. Is(c, f) /\ UNCHANGED <<reg, remote, down>>
      BY <1>4 DEF Hold
    <2> HIDE DEF f
    <2>4. Goes(r, f)
      BY <2>1, <2>2 DEF Goes, Live
    <2>5. Alone(c, f)
      BY <1>1, <2>3, <2>4, GoesAlone
    <2> QED
      BY <2>5
  <1>5. CASE RestartIce(c)
    <2>1. Goes(r, Restarted(r))
      BY <1>1, <1>5, RestartedEffect DEF RestartIce
    <2>2. Alone(c, Restarted(r))
      BY <1>1, <1>5, <2>1, GoesAlone DEF RestartIce
    <2> QED
      BY <2>2
  <1>6. CASE AnswerAgain(c)
    <2>1. Sound(WithPeer(r, "answer")) /\ WithPeer(r, "answer").state = r.state
      BY <1>1, WithPeerEffect
    <2>2. Alone(c, WithPeer(r, "answer"))
      BY <1>1, <1>6, <2>1 DEF AnswerAgain, Alone, Live
    <2> QED
      BY <2>2
  <1> QED
    BY <1>2, <1>3, <1>4, <1>5, <1>6 DEF User

(* Events of the connection that was replaced, OldRefused excepted.           *)
LEMMA OldAlone ==
  ASSUME IInv, NEW c \in Calls,
         \/ OldMedia(c) \/ OldDescribed(c) \/ OldCandidate(c)
         \/ OldGathered(c) \/ OldTimeout(c)
  PROVE  \E f : Alone(c, f)
  <1> DEFINE r == call[c]
  <1>1. /\ r \in CallType /\ remote \in Remotes /\ down \in BOOLEAN
        /\ call \in [Calls -> CallType]
    BY DEF IInv, Typed, Remotes
  <1>2. UNCHANGED <<reg, remote, down>>
    BY DEF OldMedia, OldDescribed, OldCandidate, OldGathered, OldTimeout
  <1>3. ASSUME Is(c, r)
        PROVE  Alone(c, r)
    BY <1>1, <1>2, <1>3, GoesAlone DEF Goes
  <1>4. ASSUME NEW full \in BOOLEAN, Is(c, OnOldSdp(r, full))
        PROVE  Alone(c, OnOldSdp(r, full))
    BY <1>1, <1>2, <1>4, OnOldSdpEffect, GoesAlone
  <1>5. CASE OldMedia(c) \/ OldDescribed(c)
    <2>1. Is(c, r)
      BY <1>1, <1>5 DEF OldMedia, OldDescribed, Is
    <2> QED
      BY <1>3, <2>1
  <1>6. CASE OldCandidate(c)
    <2> DEFINE f == [r EXCEPT !.timer = @ \/ ~r.done]
    <2>1. (r.timer \/ ~r.done) \in BOOLEAN
      OBVIOUS
    <2>2. f \in CallType
      BY <1>1, <2>1, PutFlag, Zenon
    <2>3. f.pc = r.pc /\ f.peer = r.peer /\ f.state = r.state
      BY <1>1 DEF CallType
    <2>4. Is(c, f)
      BY <1>6 DEF OldCandidate
    <2> HIDE DEF f
    <2>5. Goes(r, f)
      BY <2>2, <2>3 DEF Goes, Live
    <2>6. Alone(c, f)
      BY <1>1, <1>2, <2>4, <2>5, GoesAlone
    <2> QED
      BY <2>6
  <1>7. CASE OldGathered(c)
    <2>1. PICK full \in BOOLEAN : Is(c, IF r.done THEN r ELSE OnOldSdp(r, full))
      BY <1>7 DEF OldGathered
    <2> QED
      BY <1>3, <1>4, <2>1
  <1>8. CASE OldTimeout(c)
    BY <1>4, <1>8 DEF OldTimeout
  <1> QED
    BY <1>5, <1>6, <1>7, <1>8

(* Events of the browser on c, MediaRefused excepted.                         *)
LEMMA MediaAlone ==
  ASSUME IInv, NEW c \in Calls,
         \/ MediaGranted(c) \/ MediaEmpty(c) \/ NegotiationNeeded(c)
         \/ Described(c) \/ DescribeFailed(c)
  PROVE  \E f : Alone(c, f)
  <1> DEFINE r == call[c]
  <1>1. r \in CallType /\ remote \in Remotes /\ down \in BOOLEAN
    BY DEF IInv, Typed, Remotes
  <1>2. CASE MediaGranted(c)
    <2> DEFINE f == [r EXCEPT !.media = "held", !.needed = call[c].pc = "open"]
    <2>1. f \in CallType
      BY <1>1, PutFlag, PutName, Names, Zenon
    <2>2. f.pc = r.pc /\ f.peer = r.peer /\ f.state = r.state
      BY <1>1 DEF CallType
    <2>3. Is(c, f) /\ UNCHANGED <<reg, remote, down>>
      BY <1>2 DEF MediaGranted
    <2> HIDE DEF f
    <2>4. Goes(r, f)
      BY <2>1, <2>2 DEF Goes, Live
    <2>5. Alone(c, f)
      BY <1>1, <2>3, <2>4, GoesAlone
    <2> QED
      BY <2>5
  <1>3. CASE MediaEmpty(c)
    <2> DEFINE s == [r EXCEPT !.media = "none"]
    <2>1. s \in CallType
      BY <1>1, PutName, Names, Zenon
    <2>2. s.pc = r.pc /\ s.peer = r.peer /\ s.state = r.state
      BY <1>1 DEF CallType
    <2>3. Is(c, Negotiates(s)) /\ UNCHANGED <<reg, remote, down>>
      BY <1>3 DEF MediaEmpty
    <2> HIDE DEF s
    <2>4. Goes(r, Negotiates(s))
      BY <2>1, <2>2, NegotiatesEffect, GoesOn DEF Goes, Live
    <2>5. Alone(c, Negotiates(s))
      BY <1>1, <2>3, <2>4, GoesAlone
    <2> QED
      BY <2>5
  <1>4. CASE NegotiationNeeded(c)
    <2> DEFINE s == [r EXCEPT !.needed = FALSE]
    <2>1. s \in CallType
      BY <1>1, PutFlag, Zenon
    <2>2. s.pc = r.pc /\ s.peer = r.peer /\ s.state = r.state
      BY <1>1 DEF CallType
    <2>3. (Is(c, s) \/ Is(c, Negotiates(s))) /\ UNCHANGED <<reg, remote, down>>
      BY <1>4 DEF NegotiationNeeded
    <2> HIDE DEF s
    <2>4. Goes(r, s) /\ Goes(r, Negotiates(s))
      BY <2>1, <2>2, NegotiatesEffect, GoesOn DEF Goes, Live
    <2>5. Alone(c, s) \/ Alone(c, Negotiates(s))
      BY <1>1, <2>3, <2>4, GoesAlone
    <2> QED
      BY <2>5
  <1>5. CASE Described(c)
    <2>1. PICK full \in BOOLEAN, neg \in BOOLEAN :
             \/ Is(c, WithDescription(r, full, neg))
             \/ Is(c, OnIceSdp(WithDescription(r, full, neg)))
      BY <1>5 DEF Described
    <2> DEFINE s == WithDescription(r, full, neg)
    <2>2. Goes(r, s)
      BY <1>1, WithDescriptionEffect
    <2> HIDE DEF s
    <2>3. Goes(r, OnIceSdp(s))
      BY <2>2, OnIceSdpEffect, GoesOn DEF Goes
    <2>4. Alone(c, s) \/ Alone(c, OnIceSdp(s))
      BY <1>1, <1>5, <2>1, <2>2, <2>3, GoesAlone DEF Described, s
    <2> QED
      BY <2>4
  <1>6. CASE DescribeFailed(c)
    <2>1. PICK sig \in {"stable", "local", "remote"} : Is(c, WithoutDescription(r, sig))
      BY <1>1, <1>6, Fields DEF DescribeFailed
    <2>2. Goes(r, WithoutDescription(r, sig))
      BY <1>1, WithDescriptionEffect
    <2>3. Alone(c, WithoutDescription(r, sig))
      BY <1>1, <1>6, <2>1, <2>2, GoesAlone DEF DescribeFailed
    <2> QED
      BY <2>3
  <1> QED
    BY <1>2, <1>3, <1>4, <1>5, <1>6

LEMMA IceAlone ==
  ASSUME IInv, NEW c \in Calls,
         \/ IceCandidate(c) \/ IceGathered(c) \/ IceTimeout(c)
         \/ IceFailed(c) \/ IceConnected(c)
  PROVE  \E f : Alone(c, f)
  <1> DEFINE r == call[c]
  <1>1. r \in CallType /\ remote \in Remotes /\ down \in BOOLEAN
    BY DEF IInv, Typed, Remotes
  <1>2. CASE IceCandidate(c)
    <2> DEFINE f == [r EXCEPT !.cands = TRUE, !.timer = @ \/ ~call[c].done]
    <2>1. (r.timer \/ ~r.done) \in BOOLEAN
      OBVIOUS
    <2>2. f \in CallType
      BY <1>1, <2>1, PutFlag, Zenon
    <2>3. f.pc = r.pc /\ f.peer = r.peer /\ f.state = r.state
      BY <1>1 DEF CallType
    <2>4. Is(c, f) /\ UNCHANGED <<reg, remote, down>>
      BY <1>2 DEF IceCandidate
    <2> HIDE DEF f
    <2>5. Goes(r, f)
      BY <2>2, <2>3 DEF Goes, Live
    <2>6. Alone(c, f)
      BY <1>1, <2>4, <2>5, GoesAlone
    <2> QED
      BY <2>6
  <1>3. CASE IceGathered(c)
    <2> DEFINE s == [r EXCEPT !.gather = FALSE]
    <2>1. s \in CallType
      BY <1>1, PutFlag, Zenon
    <2>2. s.pc = r.pc /\ s.peer = r.peer /\ s.state = r.state
      BY <1>1 DEF CallType
    <2>3. (Is(c, s) \/ Is(c, OnIceSdp(s))) /\ UNCHANGED <<reg, remote, down>>
      BY <1>3 DEF IceGathered
    <2> HIDE DEF s
    <2>4. Goes(r, s) /\ Goes(r, OnIceSdp(s))
      BY <2>1, <2>2, OnIceSdpEffect, GoesOn DEF Goes, Live
    <2>5. Alone(c, s) \/ Alone(c, OnIceSdp(s))
      BY <1>1, <2>3, <2>4, GoesAlone
    <2> QED
      BY <2>5
  <1>4. CASE IceTimeout(c)
    <2>1. Goes(r, OnIceSdp(r))
      BY <1>1, OnIceSdpEffect
    <2>2. Alone(c, OnIceSdp(r))
      BY <1>1, <1>4, <2>1, GoesAlone DEF IceTimeout
    <2> QED
      BY <2>2
  <1>5. CASE IceFailed(c)
    <2> DEFINE s == [r EXCEPT !.attempts = @ + 1]
    <2>1. r.attempts + 1 \in 0 .. MaxAttempts /\ r.restarts < MaxRestarts
      BY <1>1, <1>5, Fields, BoundAssumption DEF IceFailed
    <2>2. s \in CallType
      BY <1>1, <2>1, PutNumber, Zenon
    <2>3. s.pc = r.pc /\ s.peer = r.peer /\ s.state = r.state /\ s.restarts = r.restarts
      BY <1>1 DEF CallType
    <2>4. (Is(c, s) \/ Is(c, Restarted(s))) /\ UNCHANGED <<reg, remote, down>>
      BY <1>5 DEF IceFailed
    <2> HIDE DEF s
    <2>5. Goes(r, s) /\ Goes(r, Restarted(s))
      BY <2>1, <2>2, <2>3, RestartedEffect, GoesOn DEF Goes, Live
    <2>6. Alone(c, s) \/ Alone(c, Restarted(s))
      BY <1>1, <2>4, <2>5, GoesAlone
    <2> QED
      BY <2>6
  <1>6. CASE IceConnected(c)
    <2> DEFINE f == [r EXCEPT !.attempts = 0]
    <2>1. 0 \in 0 .. MaxAttempts
      BY BoundAssumption
    <2>2. f \in CallType
      BY <1>1, <2>1, PutNumber, Zenon
    <2>3. f.pc = r.pc /\ f.peer = r.peer /\ f.state = r.state
      BY <1>1 DEF CallType
    <2>4. Is(c, f) /\ UNCHANGED <<reg, remote, down>>
      BY <1>6 DEF IceConnected
    <2> HIDE DEF f
    <2>5. Goes(r, f)
      BY <2>2, <2>3 DEF Goes, Live
    <2>6. Alone(c, f)
      BY <1>1, <2>4, <2>5, GoesAlone
    <2> QED
      BY <2>6
  <1> QED
    BY <1>2, <1>3, <1>4, <1>5, <1>6

LEMMA RemoteAlone ==
  ASSUME IInv, NEW c \in Calls, RemoteSet(c) \/ RemoteRejected(c)
  PROVE  \E f : Alone(c, f)
  <1> DEFINE r == call[c]
  <1>1. r \in CallType /\ remote \in Remotes /\ down \in BOOLEAN
    BY DEF IInv, Typed, Remotes
  <1>2. CASE RemoteSet(c)
    <2> DEFINE s == [r EXCEPT !.sig = "stable", !.srd = "none"]
               v == AfterRemote(r)
               t == [s EXCEPT !.state = v]
    <2>1. v \in {"active", "early", r.state}
      BY DEF AfterRemote
    <2>2. s \in CallType
      BY <1>1, PutName, Zenon
    <2>3. s.pc = r.pc /\ s.peer = r.peer /\ s.state = r.state
      BY <1>1 DEF CallType
    <2>4. (Is(c, s) \/ Is(c, t)) /\ UNCHANGED <<reg, remote, down>>
      <3>1. UNCHANGED <<reg, remote, down>>
        BY <1>2 DEF RemoteSet
      <3>2. Is(c, [s EXCEPT !.state = IF r.srd = "first" THEN v ELSE @])
        BY <1>2, Zenon DEF RemoteSet
      <3>3. [s EXCEPT !.state = s.state] = s
        BY <2>2 DEF CallType
      <3> HIDE DEF s, v
      <3>4. CASE r.srd = "first"
        BY <3>1, <3>2, <3>4
      <3>5. CASE r.srd # "first"
        BY <3>1, <3>2, <3>3, <3>5
      <3> QED
        BY <3>4, <3>5
    <2> HIDE DEF s, v
    <2>5. t \in CallType
      <3>1. CASE v \in States
        BY <2>2, <3>1, PutName, Zenon
      <3>2. CASE v \notin States
        <4>1. v = "unused" /\ s.state = "unused"
          BY <1>1, <2>1, <2>3, <3>2, Fields, Names
        <4>2. t = s
          BY <2>2, <4>1 DEF CallType
        <4> QED
          BY <2>2, <4>2
      <3> QED
        BY <3>1, <3>2
    <2>6. t.pc = s.pc /\ t.peer = s.peer /\ t.state = v
      BY <2>2 DEF CallType
    <2> HIDE DEF t
    <2>7. Goes(r, s) /\ Goes(r, t)
      BY <2>1, <2>2, <2>3, <2>5, <2>6 DEF Goes, Live
    <2>8. Alone(c, s) \/ Alone(c, t)
      BY <1>1, <2>4, <2>7, GoesAlone
    <2> QED
      BY <2>8
  <1>3. CASE RemoteRejected(c)
    <2> DEFINE s == [r EXCEPT !.srd = "none"]
    <2>1. s \in CallType
      BY <1>1, PutName, Zenon
    <2>2. s.pc = r.pc /\ s.peer = r.peer /\ s.state = r.state
      BY <1>1 DEF CallType
    <2>3. (Is(c, s) \/ Is(c, HangupWithBye(s))) /\ UNCHANGED <<reg, remote, down>>
      BY <1>3 DEF RemoteRejected
    <2> HIDE DEF s
    <2>4. Goes(r, s) /\ Goes(r, HangupWithBye(s))
      BY <2>1, <2>2, HangupWithByeEffect, GoesOn DEF Goes, Live
    <2>5. Alone(c, s) \/ Alone(c, HangupWithBye(s))
      BY <1>1, <2>3, <2>4, GoesAlone
    <2> QED
      BY <2>5
  <1> QED
    BY <1>2, <1>3

(* Answers to requests, those to verto.bye excepted.                          *)
LEMMA AnsweredEffect ==
  ASSUME NEW r \in CallType, NEW q \in Requests, r.asked[q] > 0
  PROVE  /\ Goes(r, Answered(r, q)) /\ Answered(r, q).state = r.state
         /\ Answered(r, q).asked[q] < r.asked[q]
  BY DEF Answered, Goes, Live, CallType

LEMMA AnswerAlone ==
  ASSUME IInv, NEW c \in Calls,
         \/ InviteAnswered(c) \/ AnswerAnswered(c) \/ ModifyAnswered(c)
         \/ HoldAnswered(c) \/ SetupFailed(c) \/ ChangeFailed(c)
  PROVE  \E f : Alone(c, f)
  <1> DEFINE r == call[c]
  <1>1. r \in CallType /\ remote \in Remotes /\ down \in BOOLEAN
    BY DEF IInv, Typed, Remotes
  <1>2. PICK q \in Requests :
          /\ r.asked[q] > 0
          /\ \/ Is(c, Answered(r, q))
             \/ \E v \in {"trying", "active", "held"} :
                  Is(c, [Answered(r, q) EXCEPT !.state = v])
             \/ Is(c, [Answered(r, q) EXCEPT !.srd = "modify"])
             \/ Is(c, HangupWithBye(Answered(r, q)))
          /\ reg' = reg /\ remote' \in Remotes /\ down' \in BOOLEAN
    <2>1. CASE InviteAnswered(c)
      BY <1>1, <2>1 DEF InviteAnswered, Requests, Remotes
    <2>2. CASE AnswerAnswered(c)
      BY <1>1, <2>2 DEF AnswerAnswered, Requests, Remotes
    <2>3. CASE ModifyAnswered(c)
      BY <1>1, <2>3 DEF ModifyAnswered, Requests, Remotes
    <2>4. CASE HoldAnswered(c)
      BY <1>1, <2>4 DEF HoldAnswered, Requests, Remotes
    <2>5. CASE SetupFailed(c)
      BY <1>1, <2>5 DEF SetupFailed, Requests, Remotes
    <2>6. CASE ChangeFailed(c)
      BY <1>1, <2>6 DEF ChangeFailed, Requests, Remotes
    <2> QED
      BY <2>1, <2>2, <2>3, <2>4, <2>5, <2>6
  <1> DEFINE s == Answered(r, q)
  <1>3. Goes(r, s) /\ s \in CallType
    BY <1>1, <1>2, AnsweredEffect DEF Goes
  <1> HIDE DEF s
  <1>4. ASSUME NEW f, Goes(s, f), Is(c, f)
        PROVE  Alone(c, f)
    BY <1>2, <1>3, <1>4, GoesOn, GoesAlone
  <1>5. CASE Is(c, s)
    BY <1>3, <1>4, <1>5 DEF Goes
  <1>6. ASSUME NEW v \in {"trying", "active", "held"}, Is(c, [s EXCEPT !.state = v])
        PROVE  \E f : Alone(c, f)
    <2> DEFINE f == [s EXCEPT !.state = v]
    <2>1. f \in CallType
      <3>1. v \in States
        BY Names
      <3> QED
        BY <1>3, <3>1, PutName, Zenon
    <2>2. f.pc = s.pc /\ f.peer = s.peer /\ f.state = v
      BY <1>3 DEF CallType
    <2> HIDE DEF f
    <2>3. Goes(s, f)
      BY <2>1, <2>2 DEF Goes, Live
    <2> QED
      BY <1>4, <1>6, <2>3 DEF f
  <1>7. CASE Is(c, [s EXCEPT !.srd = "modify"])
    <2> DEFINE f == [s EXCEPT !.srd = "modify"]
    <2>1. f \in CallType
      BY <1>3, PutName, Zenon
    <2>2. f.pc = s.pc /\ f.peer = s.peer /\ f.state = s.state
      BY <1>3 DEF CallType
    <2> HIDE DEF f
    <2>3. Goes(s, f)
      BY <2>1, <2>2 DEF Goes, Live
    <2> QED
      BY <1>4, <1>7, <2>3 DEF f
  <1>8. CASE Is(c, HangupWithBye(s))
    BY <1>3, <1>4, <1>8, HangupWithByeEffect
  <1> QED
    BY <1>2, <1>5, <1>6, <1>7, <1>8 DEF s

(* verto.media and verto.answer. *)
LEMMA OnMediaEffect ==
  ASSUME NEW r \in CallType
  PROVE  Goes(r, OnMedia(r))
  <1> DEFINE f == [r EXCEPT !.gotEarly = TRUE, !.srd = "first"]
  <1>1. f \in CallType
    BY PutFlag, PutName, Zenon
  <1>2. f.pc = r.pc /\ f.peer = r.peer /\ f.state = r.state
    BY DEF CallType
  <1>3. OnMedia(r) \in {f, r}
    BY DEF OnMedia, RemoteSdp
  <1> HIDE DEF f
  <1> QED
    BY <1>1, <1>2, <1>3 DEF Goes, Live

LEMMA OnAnswerEffect ==
  ASSUME NEW r \in CallType
  PROVE  Goes(r, OnAnswer(r))
  <1> DEFINE s == [r EXCEPT !.gotAnswer = TRUE]
             t == [s EXCEPT !.state = "active"]
             u == [s EXCEPT !.srd = "first"]
  <1>1. s \in CallType /\ t \in CallType /\ u \in CallType
    BY PutFlag, PutName, Names, Zenon
  <1>2. /\ s.pc = r.pc /\ s.peer = r.peer /\ s.state = r.state
        /\ t.pc = r.pc /\ t.peer = r.peer /\ t.state = "active"
        /\ u.pc = r.pc /\ u.peer = r.peer /\ u.state = r.state
    BY DEF CallType
  <1>3. OnAnswer(r) \in {s, t, u}
    BY DEF OnAnswer, RemoteSdp
  <1> HIDE DEF s, t, u
  <1> QED
    BY <1>1, <1>2, <1>3 DEF Goes, Live

LEMMA MessageKeeps ==
  ASSUME IInv, VertoMedia \/ VertoAnswer
  PROVE  IInv' /\ reg' = reg
  <1>1. /\ reg' = reg /\ remote' \in Remotes /\ down' \in BOOLEAN
        /\ reg \in Calls \cup {None}
    BY DEF IInv, Typed, VertoMedia, VertoAnswer, Remotes
  <1>2. CASE reg = None
    <2>1. call' = call
      BY <1>2 DEF VertoMedia, VertoAnswer, ToRegistered
    <2> QED
      BY <1>1, <1>2, <2>1 DEF IInv, Typed, RegisteredIsLive, Remotes
  <1>3. CASE reg # None
    <2>1. reg \in Calls /\ call[reg] \in CallType
      BY <1>1, <1>3 DEF IInv, Typed
    <2>2. Is(reg, OnMedia(call[reg])) \/ Is(reg, OnAnswer(call[reg]))
      BY <1>3, <2>1 DEF VertoMedia, VertoAnswer, ToRegistered, Is
    <2>3. Goes(call[reg], OnMedia(call[reg])) /\ Goes(call[reg], OnAnswer(call[reg]))
      BY <2>1, OnMediaEffect, OnAnswerEffect
    <2>4. Alone(reg, OnMedia(call[reg])) \/ Alone(reg, OnAnswer(call[reg]))
      BY <1>1, <2>1, <2>2, <2>3, GoesAlone
    <2> QED
      BY <1>1, <2>1, <2>4, AloneKeeps
  <1> QED
    BY <1>2, <1>3

------------------------------------------------------------------------------
(* The steps that change the registry. *)

(* The step closes the registered call or answers a verto.bye of another.     *)
LosesPlace(c) ==
  \/ call'[c].pc # "open"
  \/ \E d \in Calls \ {c} : call'[d].asked.bye < call[d].asked.bye

(* What such a step leaves behind.                                            *)
Left ==
  /\ \A c \in Calls : Sound(call'[c])
  /\ call' \in [Calls -> CallType]
  /\ reg' \in Calls \cup {None} /\ (reg' # None => Live(call'[reg']))
  /\ remote' \in Remotes /\ down' \in BOOLEAN
  /\ \A c \in Calls : reg = c => LosesPlace(c)

LEMMA LeftKeeps ==
  ASSUME Left
  PROVE  IInv'
  BY DEF Left, IInv, Typed, RegisteredIsLive, Live, Remotes

LEMMA ByeLeaves ==
  ASSUME IInv, NEW c \in Calls, ByeAnswered(c) \/ ByeFailed(c)
  PROVE  Left
  <1> DEFINE s == Answered(call[c], "bye")
  <1>1. /\ call \in [Calls -> CallType] /\ remote \in Remotes /\ down \in BOOLEAN
        /\ \A d \in Calls : Sound(call[d])
    BY DEF IInv, Typed, Remotes
  <1>2. call[c].asked["bye"] > 0 /\ Is(c, Closed(s)) /\ reg' = None
    BY DEF ByeAnswered, ByeFailed, Forgotten
  <1>3. /\ Goes(call[c], s) /\ s.asked["bye"] < call[c].asked["bye"]
    BY <1>1, <1>2, AnsweredEffect DEF Requests
  <1> HIDE DEF s
  <1>4. /\ Sound(Closed(s)) /\ Closed(s).pc # "open" /\ Closed(s).asked = s.asked
    BY <1>1, <1>3, GoesSound, ClosedEffect
  <1> DEFINE f == Closed(s)
  <1>5. /\ Sound(f) /\ f.pc # "open" /\ f.asked.bye < call[c].asked.bye
        /\ f \in CallType /\ call' = [call EXCEPT ![c] = f]
    BY <1>2, <1>3, <1>4 DEF Is, Sound
  <1> HIDE DEF f
  <1>6. \A d \in Calls : LosesPlace(d)
    BY <1>1, <1>5 DEF LosesPlace
  <1>7. remote' \in Remotes /\ down' \in BOOLEAN
    BY <1>1 DEF ByeAnswered, ByeFailed, Remotes
  <1> QED
    BY <1>1, <1>2, <1>5, <1>6, <1>7 DEF Left

(* The registered call, if any, hangs up without a verto.bye.                 *)
LEMMA DroppedEffect ==
  ASSUME IInv
  PROVE  /\ Dropped \in [Calls -> CallType]
         /\ \A c \in Calls : /\ Sound(Dropped[c])
                             /\ c # reg => Dropped[c] = call[c]
                             /\ c = reg => Dropped[c].pc # "open"
  <1>1. /\ call \in [Calls -> CallType] /\ reg \in Calls \cup {None}
        /\ \A d \in Calls : Sound(call[d])
    BY DEF IInv, Typed
  <1>2. CASE reg = None
    BY <1>1, <1>2, NoneAssumption DEF Dropped
  <1>3. CASE reg # None
    <2> DEFINE f == HangupLocally(call[reg])
    <2>1. Sound(f) /\ f.pc # "open"
      BY <1>1, <1>3, ClosedEffect DEF HangupLocally
    <2>2. Dropped = [call EXCEPT ![reg] = f] /\ reg \in Calls
      BY <1>1, <1>3 DEF Dropped
    <2> HIDE DEF f
    <2> QED
      BY <1>1, <2>1, <2>2 DEF Sound
  <1> QED
    BY <1>2, <1>3

LEMMA MediaRefusedLeaves ==
  ASSUME IInv, NEW c \in Calls, MediaRefused(c)
  PROVE  Left
  <1>1. /\ Dropped \in [Calls -> CallType] /\ remote \in Remotes /\ down \in BOOLEAN
        /\ \A x \in Calls : /\ Sound(Dropped[x])
                            /\ x = reg => Dropped[x].pc # "open"
    BY DroppedEffect DEF IInv, Typed, Remotes
  <1> DEFINE s == [Dropped[c] EXCEPT !.media = "none"]
             f == Negotiates(s)
  <1>2. call' = [Dropped EXCEPT ![c] = f] /\ reg' = None /\ UNCHANGED <<remote, down>>
    BY DEF MediaRefused, Dropped, Forgotten
  <1>3. s \in CallType
    BY <1>1, PutName, Names, Zenon
  <1>4. s.pc = Dropped[c].pc /\ s.peer = Dropped[c].peer
    BY <1>1 DEF CallType
  <1> HIDE DEF s
  <1>5. Goes(s, f)
    BY <1>3, NegotiatesEffect
  <1>6. Sound(f) /\ f.pc = Dropped[c].pc /\ f \in CallType
    BY <1>1, <1>4, <1>5 DEF Goes, Sound
  <1> HIDE DEF f
  <1>7. \A x \in Calls : reg = x => call'[x].pc # "open"
    BY <1>1, <1>2, <1>6
  <1> QED
    BY <1>1, <1>2, <1>6, <1>7 DEF Left, LosesPlace

LEMMA OldRefusedLeaves ==
  ASSUME IInv, NEW c \in Calls, OldRefused(c)
  PROVE  Left
  <1>1. call' = Dropped /\ reg' = None /\ UNCHANGED <<remote, down>>
    BY DEF OldRefused, Forgotten
  <1> QED
    BY <1>1, DroppedEffect DEF Left, LosesPlace, IInv, Typed, Remotes

LEMMA VertoByeLeaves ==
  ASSUME IInv, VertoBye
  PROVE  Left
  <1>1. call' = Dropped /\ reg' = None /\ remote' = "gone" /\ down' = down
    BY DEF VertoBye, ToRegistered, Dropped, Forgotten, IInv, Typed
  <1> QED
    BY <1>1, DroppedEffect DEF Left, LosesPlace, IInv, Typed, Remotes

LEMMA VertoAttachLeaves ==
  ASSUME IInv, VertoAttach
  PROVE  Left
  <1> DEFINE new       == WithPeer([Unused EXCEPT !.state = "new"], "answer")
             recovered == [Unused EXCEPT !.state = "recovering"]
  <1>1. PICK d \in Fresh : /\ reg' = d
                           /\ \/ call' = [Dropped EXCEPT ![d] = new]
                              \/ call' = [Dropped EXCEPT ![d] = recovered]
    BY DEF VertoAttach, Dropped
  <1>2. Unused \in CallType /\ Unused.pc = "none" /\ ~Unused.peer
    BY UnusedIsSound DEF Sound, Unused
  <1>3. /\ recovered \in CallType /\ [Unused EXCEPT !.state = "new"] \in CallType
    BY <1>2, PutName, Names, Zenon
  <1>4. /\ recovered.pc = "none" /\ ~recovered.peer /\ recovered.state = "recovering"
        /\ [Unused EXCEPT !.state = "new"].state = "new"
    BY <1>2 DEF Unused
  <1>5. Sound(new) /\ new.state = "new"
    BY <1>3, <1>4, WithPeerEffect
  <1> HIDE DEF new, recovered
  <1>6. Sound(recovered) /\ Live(recovered) /\ Live(new)
    BY <1>3, <1>4, <1>5 DEF Sound, Live
  <1>7. d \in Calls /\ (reg # None => d # reg)
    BY <1>1 DEF Fresh, IInv, RegisteredIsLive
  <1>8. UNCHANGED <<remote, down>>
    BY DEF VertoAttach
  <1>9. /\ Dropped \in [Calls -> CallType]
        /\ \A c \in Calls : Sound(Dropped[c]) /\ (c = reg => Dropped[c].pc # "open")
    BY DroppedEffect
  <1>10. \A c \in Calls : reg = c => call'[c].pc # "open"
    BY <1>1, <1>7, <1>9, NoneAssumption
  <1>11. call' \in [Calls -> CallType] /\ \A c \in Calls : Sound(call'[c])
    BY <1>1, <1>5, <1>6, <1>7, <1>9 DEF Sound
  <1>12. Live(call'[reg'])
    BY <1>1, <1>6, <1>7, <1>9
  <1> QED
    BY <1>1, <1>7, <1>8, <1>10, <1>11, <1>12 DEF Left, LosesPlace, IInv, Typed, Remotes

LEMMA InviteLeaves ==
  ASSUME IInv, Invite \/ VertoInvite
  PROVE  Left
  <1> DEFINE new     == WithPeer([Unused EXCEPT !.state = "new"], "offer")
             ringing == [Unused EXCEPT !.state = "ringing"]
  <1>1. PICK c \in Calls : reg' = c /\ (Is(c, new) \/ Is(c, ringing))
    BY DEF Invite, VertoInvite
  <1>2. /\ Unused \in CallType
    BY UnusedIsSound DEF Sound
  <1>3. /\ ringing \in CallType /\ [Unused EXCEPT !.state = "new"] \in CallType
    BY <1>2, PutName, Names, Zenon
  <1>4. /\ ringing.pc = "none" /\ ~ringing.peer /\ ringing.state = "ringing"
        /\ [Unused EXCEPT !.state = "new"].state = "new"
    BY DEF Unused
  <1>5. Sound(new) /\ new.state = "new"
    BY <1>3, <1>4, WithPeerEffect
  <1> HIDE DEF new, ringing
  <1>6. Sound(ringing) /\ Live(ringing) /\ Live(new)
    BY <1>3, <1>4, <1>5 DEF Sound, Live
  <1>7. \A x \in Calls : reg # x
    BY NoneAssumption DEF Invite, VertoInvite, Fresh, IInv, RegisteredIsLive
  <1>8. /\ call \in [Calls -> CallType] /\ \A x \in Calls : Sound(call[x])
        /\ remote' \in Remotes /\ down' \in BOOLEAN
    BY DEF IInv, Typed, Invite, VertoInvite, Remotes
  <1>9. call' \in [Calls -> CallType] /\ \A x \in Calls : Sound(call'[x])
    BY <1>1, <1>5, <1>6, <1>8 DEF Is, Sound
  <1>10. Live(call'[reg'])
    BY <1>1, <1>6, <1>8 DEF Is
  <1> QED
    BY <1>1, <1>7, <1>8, <1>9, <1>10 DEF Left

LEMMA DisconnectLeaves ==
  ASSUME IInv, Disconnect
  PROVE  Left
  <1>1. PICK dropped \in SUBSET Calls :
          call' = [c \in Calls |->
                     LET r == IF c \in dropped THEN [call[c] EXCEPT !.asked = Unused.asked]
                                               ELSE call[c]
                     IN IF c = reg THEN HangupLocally(r) ELSE r]
    BY DEF Disconnect
  <1>2. ASSUME NEW c \in Calls
        PROVE  /\ Sound(call'[c]) /\ call'[c] \in CallType
               /\ reg = c => call'[c].pc # "open"
    <2> DEFINE d == [call[c] EXCEPT !.asked = Unused.asked]
               r == IF c \in dropped THEN d ELSE call[c]
    <2>1. call[c] \in CallType /\ Sound(call[c])
      BY DEF IInv, Typed
    <2>2. Unused.asked \in [Requests -> Nat]
      BY DEF Unused
    <2>3. d \in CallType
      BY <2>1, <2>2, PutAsked, Zenon
    <2>4. d.pc = call[c].pc /\ d.peer = call[c].peer
      BY <2>1 DEF CallType
    <2>5. call'[c] = IF c = reg THEN HangupLocally(r) ELSE r
      BY <1>1
    <2> HIDE DEF d
    <2>6. Sound(r)
      BY <2>1, <2>3, <2>4 DEF Sound
    <2> HIDE DEF r
    <2>7. Sound(HangupLocally(r)) /\ HangupLocally(r).pc # "open"
      BY <2>6, ClosedEffect DEF HangupLocally
    <2> QED
      BY <2>5, <2>6, <2>7 DEF Sound
  <1>3. call' \in [Calls -> CallType]
    BY <1>1, <1>2
  <1>4. reg' = None /\ remote' \in Remotes /\ down' \in BOOLEAN
    BY DEF Disconnect, IInv, Typed, Remotes
  <1> QED
    BY <1>2, <1>3, <1>4 DEF Left, LosesPlace

------------------------------------------------------------------------------
(* Every step keeps the invariant, and either the registry or what it asks of *)
(* a call that loses its place.                                               *)

LEMMA StepKeeps ==
  ASSUME IInv, [Next]_vars
  PROVE  IInv' /\ (reg' = reg \/ Left)
  <1>1. ASSUME NEW c \in Calls, NEW f, Alone(c, f)
        PROVE  IInv' /\ reg' = reg
    BY <1>1, AloneKeeps DEF Alone
  <1>2. CASE Left
    BY <1>2, LeftKeeps
  <1>3. CASE Invite \/ Disconnect
    BY <1>2, <1>3, InviteLeaves, DisconnectLeaves
  <1>4. CASE Server
    BY <1>2, <1>4, MessageKeeps, VertoByeLeaves, InviteLeaves, VertoAttachLeaves DEF Server
  <1>5. ASSUME NEW c \in Calls, User(c)
        PROVE  IInv' /\ reg' = reg
    BY <1>1, <1>5, UserAlone
  <1>6. ASSUME NEW c \in Calls, Browser(c)
        PROVE  IInv' /\ (reg' = reg \/ Left)
    BY <1>1, <1>2, <1>6, MediaAlone, IceAlone, RemoteAlone, MediaRefusedLeaves DEF Browser
  <1>7. ASSUME NEW c \in Calls, Settled(c)
        PROVE  IInv' /\ (reg' = reg \/ Left)
    BY <1>1, <1>2, <1>7, AnswerAlone, ByeLeaves DEF Settled
  <1>8. ASSUME NEW c \in Calls, Old(c)
        PROVE  IInv' /\ (reg' = reg \/ Left)
    BY <1>1, <1>2, <1>8, OldAlone, OldRefusedLeaves DEF Old
  <1>9. CASE UNCHANGED vars
    BY <1>9 DEF vars, IInv, Typed, RegisteredIsLive
  <1> QED
    BY <1>3, <1>4, <1>5, <1>6, <1>7, <1>8, <1>9 DEF Next

LEMMA InitEstablishes == Init => IInv
  <1> SUFFICES ASSUME Init PROVE IInv
    OBVIOUS
  <1>1. \A c \in Calls : Sound(call[c])
    BY UnusedIsSound DEF Init
  <1>2. call \in [Calls -> CallType]
    BY UnusedIsSound DEF Init, Sound
  <1> QED
    BY <1>1, <1>2 DEF Init, IInv, Typed, RegisteredIsLive

(* The inductive invariant the theorems below are read off from: every object *)
(* is a sound one, and the registered object of the call was not destroyed.  *)
THEOREM Invariance == Spec => []IInv
  BY InitEstablishes, StepKeeps, PTL DEF Spec

(* The application answers once, so no connection is replaced.                *)
OneAnswer == "again" \notin UserOps

(* What is left of a connection that was replaced, and that there is none     *)
(* where the application answers once.                                        *)
OldInv ==
  /\ old \in [Calls -> [at : OldStages, timer : BOOLEAN]]
  /\ OneAnswer => \A c \in Calls : old[c].at = "none" /\ ~old[c].timer

LEMMA OldIsKept ==
  ASSUME IInv, OldInv, [Next]_vars
  PROVE  OldInv'
  <1>1. CASE UNCHANGED old
    BY <1>1 DEF OldInv
  <1>2. ASSUME NEW c \in Calls, AnswerAgain(c)
        PROVE  OldInv'
    <2>1. call[c].timer \in BOOLEAN
      BY Fields DEF IInv, Typed
    <2>2. Leftover(call[c]) \in [at : OldStages, timer : BOOLEAN]
      BY <2>1 DEF Leftover, OldStages
    <2> QED
      BY <1>2, <2>2 DEF AnswerAgain, OldInv, OneAnswer
  <1>3. ASSUME NEW c \in Calls, IceCandidate(c)
        PROVE  OldInv'
    <2>1. (old[c].timer /\ call[c].timer) \in BOOLEAN
      OBVIOUS
    <2> QED
      BY <1>3, <2>1 DEF IceCandidate, OldInv
  <1>4. ASSUME NEW c \in Calls, Old(c)
        PROVE  OldInv'
    <2>1. \A stage \in OldStages \ {"none"} :
            old[c].at # "none" /\ OldBecomes(c, stage) => OldInv'
      BY DEF OldBecomes, OldInv
    <2>2. CASE OldMedia(c) \/ OldRefused(c) \/ OldDescribed(c) \/ OldGathered(c)
      BY <2>1, <2>2 DEF OldMedia, OldRefused, OldDescribed, OldGathered, OldStages
    <2>3. CASE OldCandidate(c)
      <3> DEFINE v == IF call[c].timer THEN old[c].timer ELSE ~call[c].done
      <3>1. v \in BOOLEAN
        BY DEF OldInv
      <3>2. old' = [old EXCEPT ![c].timer = v] /\ old[c].at # "none"
        BY <2>3 DEF OldCandidate
      <3> HIDE DEF v
      <3> QED
        BY <3>1, <3>2 DEF OldInv
    <2>4. CASE OldTimeout(c)
      BY <1>1, <2>4 DEF OldTimeout
    <2> QED
      BY <1>4, <2>2, <2>3, <2>4 DEF Old
  <1>5. CASE Invite \/ Disconnect \/ Server
    <2>1. UNCHANGED old
      BY <1>5 DEF Invite, Disconnect, Server, VertoMedia, VertoAnswer, VertoBye, VertoInvite,
                  VertoAttach
    <2> QED
      BY <1>1, <2>1
  <1>6. ASSUME NEW c \in Calls, User(c)
        PROVE  OldInv'
    BY <1>1, <1>2, <1>6 DEF User, Answer, Hangup, Hold, RestartIce
  <1>7. ASSUME NEW c \in Calls, Browser(c)
        PROVE  OldInv'
    BY <1>1, <1>3, <1>7 DEF Browser, MediaGranted, MediaEmpty, MediaRefused,
         NegotiationNeeded, Described, DescribeFailed, IceGathered, IceTimeout, IceFailed,
         IceConnected, RemoteSet, RemoteRejected
  <1>8. ASSUME NEW c \in Calls, Settled(c)
        PROVE  OldInv'
    BY <1>1, <1>8 DEF Settled, InviteAnswered, AnswerAnswered, ModifyAnswered, HoldAnswered,
                      ByeAnswered, ByeFailed, SetupFailed, ChangeFailed
  <1>9. CASE UNCHANGED vars
    BY <1>1, <1>9 DEF vars
  <1> QED
    BY <1>4, <1>5, <1>6, <1>7, <1>8, <1>9 DEF Next

LEMMA OldInvariance == Spec => [](IInv /\ OldInv)
  <1>1. Init => IInv /\ OldInv
    BY InitEstablishes DEF Init, OldInv, OldStages
  <1>2. IInv /\ OldInv /\ [Next]_vars => (IInv /\ OldInv)'
    BY StepKeeps, OldIsKept
  <1> QED
    BY <1>1, <1>2, PTL DEF Spec

(* The fields of every object of the call, the registry and the server's side *)
(* stay what they can be, however many objects the call goes through.         *)
THEOREM TypeCorrect == Spec => []TypeOK
  <1>1. IInv /\ OldInv => TypeOK
    BY DEF IInv, Typed, OldInv, TypeOK
  <1> QED
    BY <1>1, OldInvariance, PTL

(* The connection of this.peer is open exactly as long as its object holds    *)
(* the peer: it is not left behind when an attach, a late answer to verto.bye, *)
(* a refused stream or the end of the session closes the call, in whatever    *)
(* order.  The connection that a second answer() replaced is (BaseCall.ts:142). *)
THEOREM NoConnectionLeaks == Spec => []OpenPeerIsHeld
  <1>1. IInv => OpenPeerIsHeld
    BY DEF IInv, Sound, OpenPeerIsHeld
  <1> QED
    BY <1>1, Invariance, PTL

(* What is registered under the id was not destroyed.                         *)
THEOREM RegistryIsLive == Spec => []RegisteredIsLive
  BY Invariance, PTL DEF IInv

(* A registered call that is replaced, dropped or hung up has been closed; if *)
(* it is still open, a verto.bye of an object before it took its place away.  *)
THEOREM PlaceIsKept == Spec => KeepsItsPlace
  <1> DEFINE A == \A c \in Calls :
                    reg = c /\ reg' # c =>
                      \/ call'[c].pc # "open"
                      \/ \E d \in Calls \ {c} : call'[d].asked.bye < call[d].asked.bye
  <1>1. IInv /\ [Next]_vars => [A]_vars
    <2> SUFFICES ASSUME IInv, [Next]_vars PROVE A
      OBVIOUS
    <2>1. CASE reg' = reg
      BY <2>1
    <2>2. CASE Left
      BY <2>2 DEF Left, LosesPlace
    <2> QED
      BY <2>1, <2>2, StepKeeps
  <1> QED
    BY <1>1, Invariance, PTL DEF Spec, KeepsItsPlace

------------------------------------------------------------------------------
(* What is still to be sent, and what was sent.  The invariant is about one   *)
(* object at a time, but for OneOffer.                                        *)

(* Nothing has happened on the connection yet.                                *)
Blank(r) ==
  /\ ~r.neg /\ ~r.needed /\ ~r.gather /\ ~r.timer
  /\ r.making = "none" /\ r.sig = "stable" /\ r.invites = 0
  /\ r.asked.invite = 0 /\ r.asked.answer = 0 /\ r.asked.hold = 0
  /\ r.state \notin {"early", "active", "held"}

Opened(r) ==
  /\ OneAnswer /\ (r.media = "asked" \/ r.pc = "none") => Blank(r)
  /\ r.pc = "none" => r.media = "none"
  /\ r.state \in {"unused", "ringing", "recovering"} /\ ~r.peer => r.pc = "none"
  /\ r.pc = "open" => r.type # "none"

Coming(r) ==
  /\ Opened(r)
  /\ r.pc = "open" /\ ~r.done =>
       \/ r.making # "none" \/ r.gather \/ r.refused
       \/ ~r.neg /\ (r.needed \/ r.media = "asked")

(* Nor is ICE ever restarted, by the application or by the options.           *)
NoRestarts == OneAnswer /\ "restart" \notin UserOps /\ MaxAttempts = 0

(* Nothing will be sent any more.                                             *)
Quiet(r) == r.done /\ r.making = "none" /\ ~r.needed /\ r.media # "asked"

(* Without restarts an object sends one description, and no state that comes  *)
(* after it is reached before.                                                *)
Once(r) ==
  /\ r.gather \/ r.timer => r.making = "none" /\ ~r.needed /\ r.media # "asked" /\ r.desc = r.type
  /\ r.timer => r.cands /\ ~r.done
  /\ (r.invites # 0 \/ r.asked.answer # 0 \/ r.asked.hold # 0
        \/ r.state \in {"early", "active", "held"}) => Quiet(r)
  /\ r.invites <= 1 /\ r.asked.invite <= r.invites
  /\ r.making \in {"none", r.type}
  /\ r.invites # 0 \/ r.sig = "local" => r.type = "offer"
  /\ r.state = "unused" => r.type = "none"
  /\ r.type = "offer" =>
       /\ r.asked.answer = 0
       /\ r.srd = "first" \/ r.asked.hold # 0 \/ r.state \in {"early", "active", "held"} =>
            r.invites = 1 /\ r.asked.invite = 0
       /\ r.asked.hold # 0 \/ r.state \in {"active", "held"} => r.gotAnswer

Offers(c) == call[c].type = "offer"

(* One object at most made the call; the server speaks of a call that was made *)
(* only after it answered its verto.invite.                                   *)
OneOffer ==
  /\ \A c, d \in Calls : Offers(c) /\ Offers(d) => c = d
  /\ remote = "ringing" => \A c \in Calls : ~Offers(c)
  /\ remote \in {"trying", "early", "answered"} =>
       \A c \in Calls : Offers(c) => call[c].invites = 1 /\ call[c].asked.invite = 0

SInv ==
  /\ \A c \in Calls : Coming(call[c])
  /\ NoRestarts => OneOffer /\ \A c \in Calls : Once(call[c])

(* Without restarts, s may come of r.                                         *)
Follows(r, s) ==
  /\ s.type = "offer" =>
       /\ r.type = "offer"
       /\ r.invites = 1 /\ r.asked.invite = 0 => s.invites = 1 /\ s.asked.invite = 0
  /\ r.state \in {"active", "held"} => s.state \in {"active", "held", "hangup", "destroy"}

Fine(r, s) == Coming(s) /\ (NoRestarts => Once(s) /\ Follows(r, s))

Half(r) == r \in CallType /\ (r.pc = "open" <=> r.peer) /\ Opened(r) /\ (NoRestarts => Once(r))
Fit(r)  == Half(r) /\ Coming(r)

LEMMA FollowsOn ==
  ASSUME NEW r, NEW s, NEW t, Follows(r, s), Follows(s, t),
         r.state \in {"active", "held"} => s.state # "hangup" /\ s.state # "destroy"
  PROVE  Follows(r, t)
  BY DEF Follows

LEMMA FollowsItself == \A r : Follows(r, r)
  BY DEF Follows

(* Operators on one object.                                                   *)

LEMMA HangupWithByeFine ==
  ASSUME NEW r, Fit(r)
  PROVE  Fine(r, HangupWithBye(r))
  <1>1. Coming(HangupWithBye(r))
    BY DEF Fit, Half, HangupWithBye, Coming, Opened, Blank, CallType, Requests
  <1>2. ASSUME NoRestarts PROVE Once(HangupWithBye(r))
    BY <1>2 DEF Fit, Half, HangupWithBye, Once, Quiet, CallType, Requests
  <1>3. Follows(r, HangupWithBye(r))
    BY DEF Fit, Half, HangupWithBye, Follows, CallType, Requests
  <1> QED
    BY <1>1, <1>2, <1>3 DEF Fine

LEMMA ClosedFine ==
  ASSUME NEW r, Fit(r)
  PROVE  Fine(r, Closed(r)) /\ (r.media = "asked" => Closed(r).media = "asked")
  <1>1. Coming(Closed(r))
    BY DEF Fit, Half, Closed, Coming, Opened, Blank, CallType, Requests
  <1>2. ASSUME NoRestarts PROVE Once(Closed(r))
    BY <1>2 DEF Fit, Half, Closed, Once, Quiet, CallType, Requests
  <1>3. Follows(r, Closed(r)) /\ (r.media = "asked" => Closed(r).media = "asked")
    BY DEF Fit, Half, Closed, Follows, CallType, Requests
  <1> QED
    BY <1>1, <1>2, <1>3 DEF Fine

LEMMA WithPeerFields ==
  ASSUME NEW r \in CallType, NEW t
  PROVE  LET s == WithPeer(r, t) IN
         /\ s.pc = "open" /\ s.peer /\ s.type = t /\ s.media = "asked" /\ ~s.done
         /\ ~s.neg /\ ~s.needed /\ ~s.gather /\ ~s.twice /\ s.making = "none"
         /\ s.sig = "stable" /\ s.srd = "none"
         /\ s.state = r.state /\ s.timer = r.timer /\ s.invites = r.invites
         /\ s.asked = r.asked /\ s.gotAnswer = r.gotAnswer /\ s.restarts = r.restarts
  <1> DEFINE s == WithPeer(r, t)
  <1>1. /\ s.pc = "open" /\ s.peer /\ s.type = t /\ s.media = "asked" /\ ~s.done
        /\ ~s.neg /\ ~s.needed /\ ~s.gather /\ ~s.twice
    BY DEF WithPeer, CallType
  <1>2. /\ s.making = "none" /\ s.sig = "stable" /\ s.srd = "none"
        /\ s.state = r.state /\ s.timer = r.timer /\ s.invites = r.invites
    BY DEF WithPeer, CallType
  <1>3. s.asked = r.asked /\ s.gotAnswer = r.gotAnswer /\ s.restarts = r.restarts
    BY DEF WithPeer, CallType
  <1> QED
    BY <1>1, <1>2, <1>3

(* An object that gets its peer had none.                                     *)
LEMMA WithPeerFine ==
  ASSUME NEW r, Fit(r), r.pc = "none", NEW t \in {"offer", "answer"},
         r.state \notin {"unused", "active", "held"}, t = "offer" => r.srd # "first"
  PROVE  Coming(WithPeer(r, t)) /\ (NoRestarts => Once(WithPeer(r, t)))
  <1> DEFINE s == WithPeer(r, t)
  <1>1. /\ s.pc = "open" /\ s.peer /\ s.type = t /\ s.media = "asked" /\ ~s.done
        /\ ~s.neg /\ ~s.needed /\ ~s.gather /\ ~s.twice /\ s.making = "none"
        /\ s.sig = "stable" /\ s.srd = "none"
        /\ s.state = r.state /\ s.timer = r.timer /\ s.invites = r.invites
        /\ s.asked = r.asked /\ s.gotAnswer = r.gotAnswer
    BY WithPeerFields DEF Fit, Half
  <1> HIDE DEF s
  <1>2. OneAnswer => Blank(r)
    BY DEF Fit, Half, Opened
  <1>3. Coming(s)
    BY <1>1, <1>2 DEF Coming, Opened, Blank
  <1>4. ASSUME NoRestarts PROVE Once(s)
    BY <1>1, <1>2, <1>4 DEF Blank, Once, NoRestarts
  <1> QED
    BY <1>3, <1>4 DEF s

LEMMA NotQuiet ==
  ASSUME NEW r, Fit(r), NoRestarts, ~Quiet(r)
  PROVE  /\ r.invites = 0 /\ r.asked.answer = 0 /\ r.asked.hold = 0
         /\ r.state \notin {"early", "active", "held"}
  BY DEF Fit, Half, Once

(* The description is there, and was not sent before.                         *)
Ready(r) ==
  /\ OneAnswer => r.media # "asked" /\ r.pc # "none"
  /\ NoRestarts =>
       /\ r.making = "none" /\ ~r.needed /\ r.desc = r.type
       /\ r.invites = 0 /\ r.asked.answer = 0 /\ r.asked.hold = 0
       /\ r.state \notin {"early", "active", "held"}
       /\ r.gather => r.cands \/ r.twice

LEMMA SendsFine ==
  ASSUME NEW r, r \in CallType, r.pc = "open" <=> r.peer,
         OneAnswer => r.media # "asked" /\ r.pc # "none",
         Coming(r), r.done, ~r.timer, r.peer,
         NoRestarts => Once(r) /\ Ready(r)
  PROVE  Fine(r, Sends(r))
  <1>1. Coming(Sends(r))
    BY DEF Sends, Renegotiates, Coming, Opened, Blank, CallType, Requests
  <1>2. ASSUME NoRestarts PROVE Once(Sends(r)) /\ Follows(r, Sends(r))
    BY <1>2 DEF Sends, Renegotiates, NoRestarts, Once, Ready, Quiet, Follows, CallType, Requests
  <1> QED
    BY <1>1, <1>2 DEF Fine

LEMMA OnIceSdpFine ==
  ASSUME NEW r, Half(r), Ready(r)
  PROVE  Fine(r, OnIceSdp(r))
  <1> DEFINE s == [r EXCEPT !.timer = FALSE, !.done = TRUE]
             t == [s EXCEPT !.neg = FALSE]
             u == [t EXCEPT !.twice = TRUE, !.done = FALSE]
  <1>1. Fine(r, s)
    <2>1. Coming(s)
      BY DEF Half, Coming, Opened, Blank, CallType, Requests
    <2>2. ASSUME NoRestarts PROVE Once(s) /\ Follows(r, s)
      BY <2>2 DEF Half, Ready, Once, Quiet, Follows, CallType, Requests
    <2> QED
      BY <2>1, <2>2 DEF Fine
  <1>2. Fine(r, t)
    <2>1. Coming(t)
      BY DEF Half, Coming, Opened, Blank, CallType, Requests
    <2>2. ASSUME NoRestarts PROVE Once(t) /\ Follows(r, t)
      BY <2>2 DEF Half, Ready, Once, Quiet, Follows, CallType, Requests
    <2> QED
      BY <2>1, <2>2 DEF Fine
  <1>3. ASSUME r.peer, ~r.twice, ~r.cands PROVE Fine(r, Negotiates(u))
    <2>1. Coming(Negotiates(u))
      BY <1>3 DEF Half, Ready, Negotiates, Coming, Opened, Blank, CallType, Requests
    <2>2. ASSUME NoRestarts PROVE Once(Negotiates(u)) /\ Follows(r, Negotiates(u))
      BY <1>3, <2>2 DEF Half, Ready, Negotiates, Once, Quiet, Follows, CallType, Requests
    <2> QED
      BY <2>1, <2>2 DEF Fine
  <1>4. ASSUME r.peer, r.cands PROVE Fine(r, Sends(t))
    <2>1. /\ t \in CallType /\ r \in CallType /\ t.pc = r.pc /\ t.peer = r.peer /\ t.media = r.media
          /\ t.state = r.state /\ t.done /\ ~t.timer
      <3>1. s \in CallType /\ t \in CallType
        BY PutFlag, Zenon DEF Half
      <3> QED
        BY <3>1 DEF Half, CallType
    <2>2. /\ t.making = r.making /\ t.needed = r.needed /\ t.desc = r.desc /\ t.type = r.type
          /\ t.invites = r.invites /\ t.asked = r.asked
          /\ t.gather = r.gather /\ t.cands = r.cands /\ t.twice = r.twice
      BY DEF Half, CallType
    <2> HIDE DEF s, t
    <2>3. Ready(t)
      BY <2>1, <2>2 DEF Ready
    <2>4. Fine(t, Sends(t))
      <3>1. /\ t.pc = "open" <=> t.peer
            /\ OneAnswer => t.media # "asked" /\ t.pc # "none"
            /\ t.peer
        BY <1>4, <2>1, <2>3 DEF Half, Ready
      <3>2. Coming(t) /\ (NoRestarts => Once(t) /\ Ready(t))
        BY <1>2, <2>3 DEF Fine
      <3> QED
        BY <2>1, <3>1, <3>2, SendsFine
    <2>5. ASSUME NoRestarts PROVE Follows(r, Sends(t))
      BY <1>2, <2>1, <2>4, <2>5, FollowsOn DEF Fine, Ready
    <2> QED
      BY <2>4, <2>5 DEF Fine
  <1>5. OnIceSdp(r) = IF ~r.peer THEN s ELSE IF r.cands THEN Sends(t)
                      ELSE IF r.twice THEN t ELSE Negotiates(u)
    BY DEF OnIceSdp, AsksAgain, Fit, CallType
  <1> HIDE DEF s, t, u
  <1> QED
    BY <1>1, <1>2, <1>3, <1>4, <1>5 DEF Half, CallType

(* Events of the browser, and what the application may change.                *)

LEMMA SameFine == \A r : Fit(r) => Fine(r, r)
  BY DEF Fit, Half, Fine, Follows

LEMMA HoldFine ==
  ASSUME NEW r, Fit(r),
         r.state \in {"active", "held"}
  PROVE  Fine(r, [r EXCEPT !.asked.hold = 1])
  <1>1. Coming([r EXCEPT !.asked.hold = 1])
    BY DEF Fit, Half, Coming, Opened, Blank, CallType, Requests
  <1>2. ASSUME NoRestarts PROVE Once([r EXCEPT !.asked.hold = 1])
    BY <1>2 DEF Fit, Half, Coming, Opened, Blank, Once, Quiet, CallType, Requests
  <1>3. ASSUME NoRestarts PROVE Follows(r, [r EXCEPT !.asked.hold = 1])
    BY <1>3 DEF Fit, Half, Coming, Opened, Blank, Once, Quiet, Follows, CallType, Requests
  <1> QED
    BY <1>1, <1>2, <1>3 DEF Fine

LEMMA GrantedFine ==
  ASSUME NEW r, Fit(r), r.media = "asked"
  PROVE  Fine(r, [r EXCEPT !.media = "held", !.needed = r.pc = "open"])
  <1>1. Coming([r EXCEPT !.media = "held", !.needed = r.pc = "open"])
    BY DEF Fit, Half, Coming, Opened, Blank, CallType, Requests
  <1>2. ASSUME NoRestarts PROVE Once([r EXCEPT !.media = "held", !.needed = r.pc = "open"])
    BY <1>2 DEF Fit, Half, Coming, Opened, Blank, Once, Quiet, CallType, Requests
  <1>3. ASSUME NoRestarts PROVE Follows(r, [r EXCEPT !.media = "held", !.needed = r.pc = "open"])
    BY <1>3 DEF Fit, Half, Coming, Opened, Blank, Once, Quiet, Follows, CallType, Requests
  <1> QED
    BY <1>1, <1>2, <1>3 DEF Fine

LEMMA NoStreamFine ==
  ASSUME NEW r, Fit(r), r.media = "asked"
  PROVE  Fine(r, Negotiates([r EXCEPT !.media = "none"]))
  <1>1. Coming(Negotiates([r EXCEPT !.media = "none"]))
    BY DEF Fit, Half, Negotiates, Coming, Opened, Blank, CallType, Requests
  <1>2. ASSUME NoRestarts PROVE Once(Negotiates([r EXCEPT !.media = "none"]))
    BY <1>2 DEF Fit, Half, Negotiates, Coming, Opened, Blank, Once, Quiet, CallType, Requests
  <1>3. ASSUME NoRestarts PROVE Follows(r, Negotiates([r EXCEPT !.media = "none"]))
    BY <1>3 DEF Fit, Half, Negotiates, Coming, Opened, Blank, Once, Quiet, Follows, CallType, Requests
  <1> QED
    BY <1>1, <1>2, <1>3 DEF Fine

LEMMA SkippedFine ==
  ASSUME NEW r, Fit(r), r.needed, r.neg
  PROVE  Fine(r, [r EXCEPT !.needed = FALSE])
  <1>1. Coming([r EXCEPT !.needed = FALSE])
    BY DEF Fit, Half, Coming, Opened, Blank, CallType, Requests
  <1>2. ASSUME NoRestarts PROVE Once([r EXCEPT !.needed = FALSE])
    BY <1>2 DEF Fit, Half, Coming, Opened, Blank, Once, Quiet, CallType, Requests
  <1>3. ASSUME NoRestarts PROVE Follows(r, [r EXCEPT !.needed = FALSE])
    BY <1>3 DEF Fit, Half, Coming, Opened, Blank, Once, Quiet, Follows, CallType, Requests
  <1> QED
    BY <1>1, <1>2, <1>3 DEF Fine

LEMMA NegotiatesFine ==
  ASSUME NEW r, Fit(r), r.needed, r.pc = "open"
  PROVE  Fine(r, Negotiates([r EXCEPT !.needed = FALSE]))
  <1>1. Coming(Negotiates([r EXCEPT !.needed = FALSE]))
    BY DEF Fit, Half, Negotiates, Coming, Opened, Blank, CallType, Requests
  <1>2. ASSUME NoRestarts PROVE Once(Negotiates([r EXCEPT !.needed = FALSE]))
    BY <1>2 DEF Fit, Half, Negotiates, Coming, Opened, Blank, Once, Quiet, CallType, Requests
  <1>3. ASSUME NoRestarts PROVE Follows(r, Negotiates([r EXCEPT !.needed = FALSE]))
    BY <1>3 DEF Fit, Half, Negotiates, Coming, Opened, Blank, Once, Quiet, Follows, CallType, Requests
  <1> QED
    BY <1>1, <1>2, <1>3 DEF Fine

LEMMA CandidateFine ==
  ASSUME NEW r, Fit(r), r.gather, r.pc = "open"
  PROVE  Fine(r, [r EXCEPT !.cands = TRUE, !.timer = @ \/ ~r.done])
  <1>1. Coming([r EXCEPT !.cands = TRUE, !.timer = @ \/ ~r.done])
    BY DEF Fit, Half, Coming, Opened, Blank, CallType, Requests
  <1>2. ASSUME NoRestarts PROVE Once([r EXCEPT !.cands = TRUE, !.timer = @ \/ ~r.done])
    BY <1>2 DEF Fit, Half, Coming, Opened, Blank, Once, Quiet, CallType, Requests
  <1>3. ASSUME NoRestarts PROVE Follows(r, [r EXCEPT !.cands = TRUE, !.timer = @ \/ ~r.done])
    BY <1>3 DEF Fit, Half, Coming, Opened, Blank, Once, Quiet, Follows, CallType, Requests
  <1> QED
    BY <1>1, <1>2, <1>3 DEF Fine

LEMMA ConnectedFine ==
  ASSUME NEW r, Fit(r), 0 \in 0 .. MaxAttempts
  PROVE  Fine(r, [r EXCEPT !.attempts = 0])
  <1>1. Coming([r EXCEPT !.attempts = 0])
    BY DEF Fit, Half, Coming, Opened, Blank, CallType, Requests
  <1>2. ASSUME NoRestarts PROVE Once([r EXCEPT !.attempts = 0])
    BY <1>2 DEF Fit, Half, Coming, Opened, Blank, Once, Quiet, CallType, Requests
  <1>3. ASSUME NoRestarts PROVE Follows(r, [r EXCEPT !.attempts = 0])
    BY <1>3 DEF Fit, Half, Coming, Opened, Blank, Once, Quiet, Follows, CallType, Requests
  <1> QED
    BY <1>1, <1>2, <1>3 DEF Fine

LEMMA RestartedFine ==
  ASSUME NEW r, Fit(r), r.state \in {"active", "held"}, r.peer, ~NoRestarts
  PROVE  Fine(r, Restarted(r))
  <1>1. Coming(Restarted(r))
    BY DEF Fit, Half, Restarted, Coming, Opened, Blank, CallType, Requests
  <1> QED
    BY <1>1 DEF Fine

(* Gathering ends, or the timer fires, with a description that was not sent.  *)
LEMMA GatheredFine ==
  ASSUME NEW r, Fit(r), r.gather, r.pc = "open", NEW s, s = [r EXCEPT !.gather = FALSE]
  PROVE  IF r.done THEN Fine(r, s) ELSE Fine(r, OnIceSdp(s))
  <1>1. /\ s \in CallType /\ ~s.gather
        /\ s.state = r.state /\ s.pc = r.pc /\ s.peer = r.peer /\ s.media = r.media
        /\ s.done = r.done
    <2>1. s \in CallType
      BY PutFlag, Zenon DEF Fit, Half
    <2> QED
      BY <2>1 DEF Fit, Half, CallType
  <1>2. ASSUME r.done PROVE Coming(s)
    BY <1>2 DEF Fit, Half, Coming, Opened, Blank, CallType, Requests
  <1>3. ASSUME NoRestarts PROVE Once(s) /\ Follows(r, s)
    BY <1>3 DEF Fit, Half, Once, Quiet, Follows, CallType, Requests
  <1>4. ASSUME ~r.done PROVE Fine(r, OnIceSdp(s))
    <2>1. Opened(s)
      BY DEF Fit, Half, Opened, Blank, CallType
    <2>2. Half(s)
      BY <1>1, <1>3, <2>1 DEF Fit, Half
    <2>3. Ready(s)
      <3>1. OneAnswer => r.media # "asked" /\ r.pc # "none"
        BY DEF Fit, Half, Opened, Blank
      <3>2. /\ s.making = r.making /\ s.needed = r.needed /\ s.desc = r.desc /\ s.type = r.type
            /\ s.invites = r.invites /\ s.asked = r.asked
        BY DEF Fit, Half, CallType
      <3>3. ASSUME NoRestarts
            PROVE  r.making = "none" /\ ~r.needed /\ r.desc = r.type
        BY <3>3 DEF Fit, Half, Once
      <3>4. ~Quiet(r)
        BY <1>4 DEF Quiet
      <3> QED
        BY <1>1, <3>1, <3>2, <3>3, <3>4, NotQuiet DEF Ready
    <2>4. Fine(s, OnIceSdp(s))
      BY <2>2, <2>3, OnIceSdpFine
    <2>5. ASSUME NoRestarts PROVE Follows(r, OnIceSdp(s))
      BY <1>1, <1>3, <2>4, <2>5, FollowsOn DEF Fine
    <2> QED
      BY <2>4, <2>5 DEF Fine
  <1> QED
    BY <1>1, <1>2, <1>3, <1>4 DEF Fine

LEMMA TimeoutFine ==
  ASSUME NEW r, Fit(r), r.timer
  PROVE  Fine(r, OnIceSdp(r))
  <1>1. Ready(r)
    <2>1. OneAnswer => r.media # "asked" /\ r.pc # "none"
      BY DEF Fit, Half, Opened, Blank
    <2>2. ASSUME NoRestarts
          PROVE  r.making = "none" /\ ~r.needed /\ r.desc = r.type /\ r.cands /\ ~Quiet(r)
      BY <2>2 DEF Fit, Half, Once, Quiet
    <2> QED
      BY <2>1, <2>2, NotQuiet DEF Ready
  <1> QED
    BY <1>1, OnIceSdpFine DEF Fit

LEMMA DescribedFine ==
  ASSUME NEW r, Fit(r), r.making # "none", r.pc = "open",
         NEW full \in BOOLEAN, NEW neg \in BOOLEAN,
         NEW s, s = WithDescription(r, full, neg)
  PROVE  Fine(r, s) /\ (r.twice => Fine(r, OnIceSdp(s)))
  <1>1. s \in CallType /\ s.state = r.state /\ s.pc = r.pc /\ s.peer = r.peer
    <2>1. Goes(r, s)
      BY WithDescriptionEffect DEF Fit, Half
    <2> QED
      BY <2>1 DEF Goes, WithDescription, Fit, Half, CallType
  <1>2. s.state = r.state /\ s.pc = r.pc /\ s.peer = r.peer
    BY <1>1
  <1>3. Coming(s)
    BY DEF WithDescription, Fit, Half, Coming, Opened, Blank, CallType, Requests
  <1>4. ASSUME NoRestarts PROVE Once(s) /\ Follows(r, s)
    BY <1>4 DEF WithDescription, Fit, Half, Opened, Blank, NoRestarts, Once, Quiet, Follows, CallType, Requests
  <1>5. ASSUME r.twice PROVE Fine(r, OnIceSdp(s))
    <2>1. Half(s)
      BY <1>1, <1>2, <1>3, <1>4 DEF Fit, Half, Coming
    <2>2. Ready(s)
      <3>1. (OneAnswer => r.media # "asked" /\ r.pc # "none") /\ ~Quiet(r)
        BY DEF Fit, Half, Opened, Blank, Quiet
      <3>2. /\ s.making = "none" /\ ~s.needed /\ s.desc = r.making /\ s.type = r.type
            /\ s.invites = r.invites /\ s.asked = r.asked /\ s.twice = r.twice
            /\ s.media = r.media
        BY DEF WithDescription, Fit, Half, CallType
      <3>3. ASSUME NoRestarts
            PROVE  r.making = r.type
        BY <3>3 DEF Fit, Half, Once
      <3> QED
        BY <1>2, <1>5, <3>1, <3>2, <3>3, NotQuiet DEF Ready
    <2>3. Fine(s, OnIceSdp(s))
      BY <2>1, <2>2, OnIceSdpFine
    <2>4. ASSUME NoRestarts PROVE Follows(r, OnIceSdp(s))
      BY <1>2, <1>4, <2>3, <2>4, FollowsOn DEF Fine
    <2> QED
      BY <2>3, <2>4 DEF Fine
  <1> QED
    BY <1>3, <1>4, <1>5 DEF Fine

(* It cannot be made, or not be set.                                          *)
LEMMA DescribeFailedFine ==
  ASSUME NEW r, Fit(r), r.making # "none", NEW sig \in {"stable", "local", "remote"},
         sig = "local" => r.sig = "local", NEW s, s = WithoutDescription(r, sig)
  PROVE  Fine(r, s)
  <1>1. Coming(s)
    BY DEF WithoutDescription, Fit, Half, Coming, Opened, Blank, CallType, Requests
  <1>2. ASSUME NoRestarts PROVE Once(s) /\ Follows(r, s)
    BY <1>2 DEF WithoutDescription, Fit, Half, Once, Quiet, Follows, CallType, Requests
  <1> QED
    BY <1>1, <1>2 DEF Fine

(* setRemoteDescription() is settled.                                         *)
LEMMA RemoteSetFine ==
  ASSUME NEW r, Fit(r), r.srd # "none", r.sig = "local",
         NEW s, s = [r EXCEPT !.sig = "stable", !.srd = "none",
                              !.state = IF r.srd = "first" THEN AfterRemote(r) ELSE @]
  PROVE  Fine(r, s)
  <1>1. Coming(s)
    BY DEF Fit, Half, AfterRemote, Coming, Opened, Blank, CallType, Requests
  <1>2. ASSUME NoRestarts PROVE Once(s) /\ Follows(r, s)
    BY <1>2 DEF Fit, Half, AfterRemote, Once, Quiet, Follows, CallType, Requests
  <1> QED
    BY <1>1, <1>2 DEF Fine

LEMMA RemoteRejectedFine ==
  ASSUME NEW r, Fit(r), NEW s, s = [r EXCEPT !.srd = "none"]
  PROVE  Fine(r, s) /\ Fine(r, HangupWithBye(s))
  <1>1. s \in CallType /\ s.state = r.state /\ s.pc = r.pc /\ s.peer = r.peer
    <2>1. s \in CallType
      BY PutName, Zenon DEF Fit, Half
    <2> QED
      BY <2>1 DEF Fit, Half, CallType
  <1>2. Coming(s)
    BY DEF Fit, Half, Coming, Opened, Blank, CallType, Requests
  <1>3. ASSUME NoRestarts PROVE Once(s) /\ Follows(r, s)
    BY <1>3 DEF Fit, Half, Once, Quiet, Follows, CallType, Requests
  <1>4. Fit(s)
    BY <1>1, <1>2, <1>3 DEF Fit, Half, Coming
  <1>5. Fine(s, HangupWithBye(s))
    BY <1>4, HangupWithByeFine
  <1> QED
    BY <1>1, <1>2, <1>3, <1>5, FollowsOn DEF Fine

(* Answers to requests.                                                       *)

LEMMA LessAskedFine ==
  ASSUME NEW r, Fit(r), NEW f \in [Requests -> Nat], \A q \in Requests : f[q] <= r.asked[q],
         NEW s, s = [r EXCEPT !.asked = f]
  PROVE  Fine(r, s) /\ Fit(s) /\ s.state = r.state
  <1>1. /\ s \in CallType /\ s.state = r.state /\ s.pc = r.pc /\ s.peer = r.peer
    <2>1. s \in CallType
      BY PutAsked, Zenon DEF Fit, Half
    <2> QED
      BY <2>1 DEF Fit, Half, CallType
  <1>2. /\ r.asked \in [Requests -> Nat] /\ s.asked = f
        /\ {"invite", "answer", "hold"} \subseteq Requests
    BY DEF Fit, Half, CallType, Requests
  <1>3. /\ s.asked.invite <= r.asked.invite
        /\ r.asked.invite = 0 => s.asked.invite = 0
        /\ r.asked.answer = 0 => s.asked.answer = 0
        /\ r.asked.hold = 0 => s.asked.hold = 0
        /\ s.asked.invite \in Nat /\ r.asked.invite \in Nat
    <2>1. /\ f["invite"] <= r.asked["invite"] /\ f["answer"] <= r.asked["answer"]
          /\ f["hold"] <= r.asked["hold"]
          /\ {f["invite"], f["answer"], f["hold"]} \subseteq Nat
          /\ {r.asked["invite"], r.asked["answer"], r.asked["hold"]} \subseteq Nat
      BY <1>2
    <2> QED
      BY <1>2, <2>1
  <1>4. /\ s.media = r.media /\ s.neg = r.neg /\ s.needed = r.needed /\ s.gather = r.gather
        /\ s.timer = r.timer /\ s.making = r.making /\ s.sig = r.sig /\ s.invites = r.invites
        /\ s.type = r.type /\ s.done = r.done /\ s.desc = r.desc /\ s.cands = r.cands
        /\ s.srd = r.srd /\ s.gotAnswer = r.gotAnswer
    BY DEF Fit, Half, CallType
  <1>5. Coming(s)
    BY <1>1, <1>3, <1>4 DEF Fit, Half, Coming, Opened, Blank
  <1>6. ASSUME NoRestarts PROVE Once(s)
    <2>1. Once(r) /\ r.invites \in Nat
      BY <1>6 DEF Fit, Half, CallType
    <2>2. Quiet(r) <=> Quiet(s)
      BY <1>4 DEF Quiet
    <2> QED
      BY <1>1, <1>3, <1>4, <2>1, <2>2 DEF Once
  <1>7. Follows(r, s)
    BY <1>1, <1>3, <1>4 DEF Follows
  <1> QED
    BY <1>1, <1>5, <1>6, <1>7 DEF Fine, Fit, Half, Coming

LEMMA AnsweredFine ==
  ASSUME NEW r, Fit(r), NEW q \in Requests, r.asked[q] > 0
  PROVE  /\ Fine(r, Answered(r, q)) /\ Fit(Answered(r, q))
         /\ Answered(r, q).state = r.state
         /\ Fine(r, HangupWithBye(Answered(r, q)))
         /\ Fine(r, Closed(Answered(r, q)))
  <1> DEFINE f == [r.asked EXCEPT ![q] = @ - 1]
             s == [r EXCEPT !.asked = f]
  <1>1. r.asked \in [Requests -> Nat]
    BY DEF Fit, Half, CallType
  <1>2. f \in [Requests -> Nat] /\ \A x \in Requests : f[x] <= r.asked[x]
    BY <1>1
  <1>3. Answered(r, q) = s
    BY DEF Answered, Fit, Half, CallType
  <1> HIDE DEF f
  <1>4. Fine(r, s) /\ Fit(s) /\ s.state = r.state
    BY <1>2, LessAskedFine
  <1> HIDE DEF s
  <1>5. Fine(s, HangupWithBye(s)) /\ Fine(s, Closed(s))
    BY <1>4, HangupWithByeFine, ClosedFine
  <1> QED
    BY <1>3, <1>4, <1>5, FollowsOn DEF Fine

(* The call is up, after its one description was sent.                        *)
LEMMA UpFine ==
  ASSUME NEW r, Fit(r), NEW v \in {"active", "held"},
         OneAnswer => r.media # "asked" /\ r.pc # "none",
         NoRestarts => /\ Quiet(r)
                       /\ r.type = "offer" => /\ r.gotAnswer /\ r.invites = 1
                                              /\ r.asked.invite = 0
  PROVE  Fine(r, [r EXCEPT !.state = v])
  <1> DEFINE s == [r EXCEPT !.state = v]
  <1>1. Coming(s)
    BY DEF Fit, Half, Coming, Opened, Blank, CallType, Requests
  <1>2. ASSUME NoRestarts PROVE Once(s) /\ Follows(r, s)
    BY <1>2 DEF Fit, Half, Once, Quiet, Follows, CallType, Requests
  <1> QED
    BY <1>1, <1>2 DEF Fine

LEMMA InviteAnsweredFine ==
  ASSUME NEW r, Fit(r), r.asked.invite > 0
  PROVE  Fine(r, [Answered(r, "invite") EXCEPT !.state = "trying"])
  <1>1. Coming([Answered(r, "invite") EXCEPT !.state = "trying"])
    BY DEF Fit, Half, Answered, Coming, Opened, Blank, CallType, Requests
  <1>2. ASSUME NoRestarts PROVE Once([Answered(r, "invite") EXCEPT !.state = "trying"]) /\ Follows(r, [Answered(r, "invite") EXCEPT !.state = "trying"])
    BY <1>2 DEF Fit, Half, Answered, Once, Quiet, Follows, CallType, Requests
  <1> QED
    BY <1>1, <1>2 DEF Fine

LEMMA AnswerAnsweredFine ==
  ASSUME NEW r, Fit(r), r.asked.answer > 0
  PROVE  Fine(r, [Answered(r, "answer") EXCEPT !.state = "active"])
  <1> DEFINE s == Answered(r, "answer")
  <1>1. Fine(r, s) /\ Fit(s) /\ s.state = r.state
    BY AnsweredFine DEF Requests
  <1>2. /\ s.media = r.media /\ s.pc = r.pc /\ s.type = r.type
        /\ s.done = r.done /\ s.making = r.making /\ s.needed = r.needed
    BY DEF Answered, Fit, Half, CallType
  <1>3. OneAnswer => r.media # "asked" /\ r.pc # "none"
    BY DEF Fit, Half, Opened, Blank
  <1>4. ASSUME NoRestarts PROVE Quiet(r) /\ r.type # "offer"
    BY <1>4 DEF Fit, Half, Once, CallType, Requests
  <1> HIDE DEF s
  <1>5. NoRestarts => Quiet(s) /\ s.type # "offer"
    BY <1>2, <1>4 DEF Quiet
  <1>6. Fine(s, [s EXCEPT !.state = "active"])
    BY <1>1, <1>2, <1>3, <1>5, UpFine
  <1> QED
    BY <1>1, <1>6, FollowsOn DEF Fine, s

LEMMA ModifyAnsweredFine ==
  ASSUME NEW r, Fit(r), r.asked.modify > 0
  PROVE  Fine(r, [Answered(r, "modify") EXCEPT !.srd = "modify"])
  <1>1. Coming([Answered(r, "modify") EXCEPT !.srd = "modify"])
    BY DEF Fit, Half, Answered, Coming, Opened, Blank, CallType, Requests
  <1>2. ASSUME NoRestarts PROVE Once([Answered(r, "modify") EXCEPT !.srd = "modify"]) /\ Follows(r, [Answered(r, "modify") EXCEPT !.srd = "modify"])
    BY <1>2 DEF Fit, Half, Answered, Once, Quiet, Follows, CallType, Requests
  <1> QED
    BY <1>1, <1>2 DEF Fine

LEMMA HoldAnsweredFine ==
  ASSUME NEW r, Fit(r), r.asked.hold > 0, NEW v \in {"active", "held"}
  PROVE  Fine(r, [Answered(r, "hold") EXCEPT !.state = v])
  <1> DEFINE s == Answered(r, "hold")
  <1>1. Fine(r, s) /\ Fit(s) /\ s.state = r.state
    BY AnsweredFine DEF Requests
  <1>2. /\ s.media = r.media /\ s.pc = r.pc /\ s.type = r.type
        /\ s.done = r.done /\ s.making = r.making /\ s.needed = r.needed
        /\ s.gotAnswer = r.gotAnswer /\ s.invites = r.invites
        /\ s.asked.invite = r.asked.invite
    BY DEF Answered, Fit, Half, CallType, Requests
  <1>3. OneAnswer => r.media # "asked" /\ r.pc # "none"
    BY DEF Fit, Half, Opened, Blank
  <1>4. ASSUME NoRestarts
        PROVE  /\ Quiet(r)
               /\ r.type = "offer" => r.gotAnswer /\ r.invites = 1 /\ r.asked.invite = 0
    BY <1>4 DEF Fit, Half, Once, CallType, Requests
  <1> HIDE DEF s
  <1>5. NoRestarts => /\ Quiet(s)
                      /\ s.type = "offer" => s.gotAnswer /\ s.invites = 1 /\ s.asked.invite = 0
    BY <1>2, <1>4 DEF Quiet
  <1>6. Fine(s, [s EXCEPT !.state = v])
    BY <1>1, <1>2, <1>3, <1>5, UpFine
  <1> QED
    BY <1>1, <1>6, FollowsOn DEF Fine, s

(* Messages of the server, which speaks of a call that was made only after it *)
(* answered its verto.invite.                                                 *)
LEMMA OnMediaFine ==
  ASSUME NEW r, Fit(r),
         NoRestarts /\ r.type = "offer" => r.invites = 1 /\ r.asked.invite = 0
  PROVE  Fine(r, OnMedia(r))
  <1>1. Coming(OnMedia(r))
    BY DEF Fit, Half, OnMedia, RemoteSdp, Before, Coming, Opened, Blank, CallType, Requests
  <1>2. ASSUME NoRestarts PROVE Once(OnMedia(r)) /\ Follows(r, OnMedia(r))
    BY <1>2 DEF Fit, Half, OnMedia, RemoteSdp, Before, Once, Quiet, Follows, CallType, Requests
  <1> QED
    BY <1>1, <1>2 DEF Fine

LEMMA OnAnswerFine ==
  ASSUME NEW r, Fit(r),
         NoRestarts /\ r.type = "offer" => r.invites = 1 /\ r.asked.invite = 0
  PROVE  Fine(r, OnAnswer(r))
  <1>1. Coming(OnAnswer(r))
    BY DEF Fit, Half, OnAnswer, RemoteSdp, Before, Coming, Opened, Blank, CallType, Requests
  <1>2. ASSUME NoRestarts PROVE Once(OnAnswer(r)) /\ Follows(r, OnAnswer(r))
    BY <1>2 DEF Fit, Half, OnAnswer, RemoteSdp, Before, Once, Quiet, Follows, CallType, Requests
  <1> QED
    BY <1>1, <1>2 DEF Fine

LEMMA UnaskedFine ==
  ASSUME NEW r, Fit(r), NEW s, s = [r EXCEPT !.asked = Unused.asked]
  PROVE  Fine(r, s) /\ Fit(s) /\ s.state = r.state
  <1>1. Unused.asked = [q \in Requests |-> 0]
    BY DEF Unused
  <1>2. Unused.asked \in [Requests -> Nat] /\ \A q \in Requests : Unused.asked[q] <= r.asked[q]
    BY <1>1 DEF Fit, Half, CallType
  <1> QED
    BY <1>2, LessAskedFine

------------------------------------------------------------------------------
(* The steps.  But for the first verto.invite and the answer to it, they change *)
(* every object in a way of its own that is fine.                             *)

Stays ==
  \A c \in Calls : call[c].state \in {"active", "held"} =>
                     call'[c].state \in {"active", "held", "hangup", "destroy"}

AllFine == \A c \in Calls : Fine(call[c], call'[c])

Speaks == {"trying", "early", "answered"}

LEMMA AllFineKeeps ==
  ASSUME SInv, AllFine,
         \/ remote' = remote \/ remote' = "gone"
         \/ remote' \in Speaks /\ remote \in Speaks
         \/ remote' = "answered" /\ remote = "ringing"
  PROVE  SInv' /\ (NoRestarts => Stays)
  <1>1. \A c \in Calls : Coming(call'[c])
    BY DEF AllFine, Fine
  <1>2. ASSUME NoRestarts
        PROVE  OneOffer' /\ (\A c \in Calls : Once(call'[c])) /\ Stays
    <2>1. \A c \in Calls : Once(call'[c]) /\ Follows(call[c], call'[c])
      BY <1>2 DEF AllFine, Fine
    <2>2. OneOffer
      BY <1>2 DEF SInv
    <2>3. Stays
      BY <2>1 DEF Follows, Stays
    <2>4. OneOffer'
      BY <2>1, <2>2 DEF OneOffer, Offers, Follows, Speaks
    <2> QED
      BY <2>1, <2>3, <2>4
  <1> QED
    BY <1>1, <1>2 DEF SInv

LEMMA AllFit ==
  ASSUME IInv, SInv
  PROVE  \A c \in Calls : Fit(call[c])
  BY DEF IInv, SInv, Sound, Fit, Half, Coming

LEMMA OneIsFine ==
  ASSUME IInv, SInv, NEW c \in Calls, NEW f, Is(c, f), Fine(call[c], f)
  PROVE  AllFine
  <1>1. \A d \in Calls : Fine(call[d], call[d])
    BY AllFit, SameFine
  <1> QED
    BY <1>1 DEF AllFine, Is, IInv, Typed

LEMMA UserFine ==
  ASSUME IInv, SInv, NEW c \in Calls, User(c)
  PROVE  AllFine /\ remote' = remote
  <1> DEFINE r == call[c]
  <1>1. Fit(r) /\ r \in CallType
    BY AllFit DEF Fit, Half
  <1>2. CASE Answer(c)
    <2>1. r.pc = "none" /\ r.state \notin {"unused", "active", "held"}
      BY <1>1, <1>2 DEF Answer, Fit, Half, Opened
    <2>2. Coming(WithPeer(r, "answer")) /\ (NoRestarts => Once(WithPeer(r, "answer")))
      BY <1>1, <2>1, WithPeerFine
    <2>3. Follows(r, WithPeer(r, "answer"))
      BY <1>1, <2>1 DEF Follows, WithPeer, CallType
    <2> QED
      BY <1>2, <2>2, <2>3, OneIsFine DEF Answer, Fine
  <1>3. CASE Hangup(c)
    BY <1>1, <1>3, HangupWithByeFine, OneIsFine DEF Hangup
  <1>4. CASE Hold(c)
    BY <1>1, <1>4, HoldFine, OneIsFine DEF Hold
  <1>5. CASE RestartIce(c)
    BY <1>1, <1>5, RestartedFine, OneIsFine DEF RestartIce, MayRestart, NoRestarts
  <1>6. CASE AnswerAgain(c)
    <2>1. ~NoRestarts /\ ~OneAnswer
      BY <1>6 DEF AnswerAgain, NoRestarts, OneAnswer
    <2>2. Coming(WithPeer(r, "answer"))
      BY <1>1, <2>1 DEF WithPeer, Coming, Opened, CallType
    <2> QED
      BY <1>6, <2>1, <2>2, OneIsFine DEF AnswerAgain, Fine
  <1> QED
    BY <1>2, <1>3, <1>4, <1>5, <1>6 DEF User

LEMMA MediaFine ==
  ASSUME IInv, SInv, NEW c \in Calls,
         \/ MediaGranted(c) \/ MediaEmpty(c) \/ NegotiationNeeded(c)
         \/ Described(c) \/ DescribeFailed(c)
  PROVE  AllFine /\ remote' = remote
  <1> DEFINE r == call[c]
  <1>1. Fit(r)
    BY AllFit
  <1>2. CASE MediaGranted(c)
    <2> DEFINE f == [r EXCEPT !.media = "held", !.needed = r.pc = "open"]
    <2>1. Is(c, f) /\ r.media = "asked" /\ remote' = remote
      BY <1>2 DEF MediaGranted
    <2>2. Fine(r, f)
      BY <1>1, <2>1, GrantedFine
    <2> HIDE DEF f
    <2> QED
      BY <2>1, <2>2, OneIsFine
  <1>3. CASE MediaEmpty(c)
    BY <1>1, <1>3, NoStreamFine, OneIsFine DEF MediaEmpty
  <1>4. CASE NegotiationNeeded(c)
    <2>1. CASE r.neg
      BY <1>1, <1>4, <2>1, SkippedFine, OneIsFine DEF NegotiationNeeded
    <2>2. CASE ~r.neg
      BY <1>1, <1>4, <2>2, NegotiatesFine, OneIsFine DEF NegotiationNeeded
    <2> QED
      BY <2>1, <2>2
  <1>5. CASE Described(c)
    <2> DEFINE s(full, neg) == WithDescription(r, full, neg)
    <2>1. r.making # "none" /\ r.pc = "open" /\ remote' = remote
      BY <1>5 DEF Described
    <2>2. PICK full \in BOOLEAN, neg \in BOOLEAN :
            Is(c, IF r.twice THEN OnIceSdp(s(full, neg)) ELSE s(full, neg))
      BY <1>5 DEF Described
    <2>3. Fine(r, s(full, neg)) /\ (r.twice => Fine(r, OnIceSdp(s(full, neg))))
      BY <1>1, <2>1, DescribedFine
    <2> HIDE DEF s
    <2> QED
      BY <2>1, <2>2, <2>3, OneIsFine
  <1>6. CASE DescribeFailed(c)
    <2>1. PICK sig \in {r.sig} \cup {"remote"} : Is(c, WithoutDescription(r, sig))
      BY <1>6 DEF DescribeFailed
    <2>2. r.making # "none" /\ remote' = remote
      BY <1>6 DEF DescribeFailed
    <2>3. sig \in {"stable", "local", "remote"}
      BY <1>1, <2>1, Fields DEF Fit, Half
    <2>4. Fine(r, WithoutDescription(r, sig))
      BY <1>1, <2>1, <2>2, <2>3, DescribeFailedFine
    <2> QED
      BY <2>1, <2>2, <2>4, OneIsFine
  <1> QED
    BY <1>2, <1>3, <1>4, <1>5, <1>6

LEMMA IceFine ==
  ASSUME IInv, SInv, NEW c \in Calls,
         \/ IceCandidate(c) \/ IceGathered(c) \/ IceTimeout(c)
         \/ IceFailed(c) \/ IceConnected(c)
  PROVE  AllFine /\ remote' = remote
  <1> DEFINE r == call[c]
  <1>1. Fit(r)
    BY AllFit
  <1>2. CASE IceCandidate(c)
    <2> DEFINE f == [r EXCEPT !.cands = TRUE, !.timer = @ \/ ~r.done]
    <2>1. Is(c, f) /\ r.gather /\ r.pc = "open" /\ remote' = remote
      BY <1>2 DEF IceCandidate
    <2>2. Fine(r, f)
      BY <1>1, <2>1, CandidateFine
    <2> HIDE DEF f
    <2> QED
      BY <2>1, <2>2, OneIsFine
  <1>3. CASE IceGathered(c)
    <2> DEFINE s == [r EXCEPT !.gather = FALSE]
    <2>1. /\ r.gather /\ r.pc = "open" /\ remote' = remote
          /\ IF r.done THEN Is(c, s) ELSE Is(c, OnIceSdp(s))
      <3>1. /\ s.done = r.done
        BY <1>1 DEF Fit, Half, CallType
      <3> QED
        BY <1>3, <3>1 DEF IceGathered
    <2>2. IF r.done THEN Fine(r, s) ELSE Fine(r, OnIceSdp(s))
      BY <1>1, <2>1, GatheredFine
    <2> HIDE DEF s
    <2> QED
      BY <2>1, <2>2, OneIsFine
  <1>4. CASE IceTimeout(c)
    BY <1>1, <1>4, TimeoutFine, OneIsFine DEF IceTimeout
  <1>5. CASE IceFailed(c)
    <2> DEFINE s == [r EXCEPT !.attempts = @ + 1]
    <2>1. ~NoRestarts /\ r.attempts + 1 \in 0 .. MaxAttempts
      BY <1>1, <1>5, Fields, BoundAssumption DEF IceFailed, NoRestarts, Fit, Half
    <2>2. s \in CallType
      BY <1>1, <2>1, PutNumber, Zenon DEF Fit, Half
    <2>3. s.pc = r.pc /\ s.peer = r.peer /\ s.state = r.state
      BY <1>1 DEF Fit, Half, CallType
    <2>4. Coming(s)
      BY <1>1 DEF Fit, Half, Coming, Opened, Blank, CallType, Requests
    <2>5. /\ Is(c, s) \/ (Is(c, Restarted(s)) /\ MayRestart(s))
          /\ remote' = remote
      BY <1>5 DEF IceFailed
    <2> HIDE DEF s
    <2>6. Fit(s)
      BY <1>1, <2>1, <2>2, <2>3, <2>4 DEF Fit, Half, Coming
    <2>7. Fine(r, s) /\ (MayRestart(s) => Fine(r, Restarted(s)))
      BY <2>1, <2>4, <2>6, RestartedFine DEF Fine, MayRestart
    <2> QED
      BY <2>5, <2>7, OneIsFine
  <1>6. CASE IceConnected(c)
    BY <1>1, <1>6, BoundAssumption, ConnectedFine, OneIsFine DEF IceConnected
  <1> QED
    BY <1>2, <1>3, <1>4, <1>5, <1>6

LEMMA RemoteFine ==
  ASSUME IInv, SInv, NEW c \in Calls, RemoteSet(c) \/ RemoteRejected(c)
  PROVE  AllFine /\ remote' = remote
  <1>1. Fit(call[c])
    BY AllFit
  <1>2. CASE RemoteSet(c)
    <2> DEFINE r == call[c]
               f == [r EXCEPT !.sig = "stable", !.srd = "none",
                              !.state = IF r.srd = "first" THEN AfterRemote(r) ELSE @]
    <2>1. Is(c, f) /\ r.srd # "none" /\ r.sig = "local" /\ remote' = remote
      BY <1>2 DEF RemoteSet
    <2>2. Fine(r, f)
      BY <1>1, <2>1, RemoteSetFine
    <2> HIDE DEF f
    <2> QED
      BY <2>1, <2>2, OneIsFine
  <1>3. CASE RemoteRejected(c)
    <2> DEFINE s == [call[c] EXCEPT !.srd = "none"]
    <2>1. (Is(c, s) \/ Is(c, HangupWithBye(s))) /\ remote' = remote
      BY <1>3 DEF RemoteRejected
    <2>2. Fine(call[c], s) /\ Fine(call[c], HangupWithBye(s))
      BY <1>1, RemoteRejectedFine
    <2> HIDE DEF s
    <2> QED
      BY <2>1, <2>2, OneIsFine
  <1> QED
    BY <1>2, <1>3

LEMMA AnswersFine ==
  ASSUME IInv, SInv, NEW c \in Calls,
         \/ AnswerAnswered(c) \/ ModifyAnswered(c) \/ HoldAnswered(c)
         \/ ByeAnswered(c) \/ ByeFailed(c) \/ SetupFailed(c) \/ ChangeFailed(c)
  PROVE  /\ AllFine
         /\ \/ remote' = remote \/ remote' = "gone"
            \/ remote' = "answered" /\ remote = "ringing"
  <1> DEFINE r == call[c]
  <1>1. /\ Fit(r) /\ {"invite", "answer", "modify", "hold", "bye"} \subseteq Requests
    BY AllFit DEF Requests
  <1>2. CASE AnswerAnswered(c)
    BY <1>1, <1>2, AnswerAnsweredFine, OneIsFine DEF AnswerAnswered
  <1>3. CASE ModifyAnswered(c)
    BY <1>1, <1>3, AnsweredFine, ModifyAnsweredFine, OneIsFine DEF ModifyAnswered
  <1>4. CASE HoldAnswered(c)
    BY <1>1, <1>4, HoldAnsweredFine, OneIsFine DEF HoldAnswered
  <1>5. CASE ByeAnswered(c) \/ ByeFailed(c)
    BY <1>1, <1>5, AnsweredFine, OneIsFine DEF ByeAnswered, ByeFailed
  <1>6. CASE SetupFailed(c)
    <2>1. PICK q \in {"invite", "answer"} :
            r.asked[q] > 0 /\ Is(c, HangupWithBye(Answered(r, q)))
      BY <1>6 DEF SetupFailed
    <2>2. remote' = remote
      BY <1>6 DEF SetupFailed
    <2> QED
      BY <1>1, <2>1, <2>2, AnsweredFine, OneIsFine
  <1>7. CASE ChangeFailed(c)
    <2>1. PICK q \in {"modify", "hold"} : r.asked[q] > 0 /\ Is(c, Answered(r, q))
      BY <1>7 DEF ChangeFailed
    <2>2. remote' = remote
      BY <1>7 DEF ChangeFailed
    <2> QED
      BY <1>1, <2>1, <2>2, AnsweredFine, OneIsFine
  <1> QED
    BY <1>2, <1>3, <1>4, <1>5, <1>6, <1>7

LEMMA MessageFine ==
  ASSUME IInv, SInv, VertoMedia \/ VertoAnswer
  PROVE  AllFine /\ remote' \in Speaks /\ remote \in Speaks
  <1>1. remote' \in Speaks /\ remote \in Speaks
    BY DEF VertoMedia, VertoAnswer, Speaks
  <1>2. CASE reg = None
    BY <1>1, <1>2, AllFit, SameFine DEF VertoMedia, VertoAnswer, ToRegistered, AllFine
  <1>3. CASE reg # None
    <2>1. reg \in Calls /\ Fit(call[reg])
      BY <1>3, AllFit DEF IInv, Typed
    <2>2. NoRestarts /\ call[reg].type = "offer" =>
            call[reg].invites = 1 /\ call[reg].asked.invite = 0
      BY <1>1, <2>1 DEF SInv, OneOffer, Offers, Speaks
    <2>3. Is(reg, OnMedia(call[reg])) \/ Is(reg, OnAnswer(call[reg]))
      BY <1>3, <2>1 DEF VertoMedia, VertoAnswer, ToRegistered, Is
    <2> QED
      BY <1>1, <2>1, <2>2, <2>3, OnMediaFine, OnAnswerFine, OneIsFine
  <1> QED
    BY <1>1, <1>2, <1>3

(* The registered call, if any, hangs up without a verto.bye.                 *)
LEMMA DroppedFine ==
  ASSUME IInv, SInv
  PROVE  \A c \in Calls :
           /\ Fine(call[c], Dropped[c])
           /\ call[c].media = "asked" => Dropped[c].media = "asked"
  <1>1. \A c \in Calls : Fit(call[c]) /\ call \in [Calls -> CallType]
    BY AllFit DEF IInv, Typed
  <1> SUFFICES ASSUME NEW c \in Calls
               PROVE  /\ Fine(call[c], Dropped[c])
                      /\ call[c].media = "asked" => Dropped[c].media = "asked"
    OBVIOUS
  <1>2. Dropped[c] = call[c] \/ Dropped[c] = Closed(call[c])
    BY <1>1 DEF Dropped, HangupLocally
  <1> QED
    BY <1>1, <1>2, SameFine, ClosedFine

LEMMA MediaRefusedFine ==
  ASSUME IInv, SInv, NEW c \in Calls, MediaRefused(c)
  PROVE  AllFine /\ remote' = remote
  <1> DEFINE r == call[c]
             s == Dropped[c]
             f == Negotiates([s EXCEPT !.media = "none"])
  <1>1. /\ call' = [Dropped EXCEPT ![c] = f] /\ remote' = remote /\ r.media = "asked"
    BY DEF MediaRefused, Dropped
  <1>2. Fine(r, s) /\ s.media = "asked" /\ Sound(s) /\ Dropped \in [Calls -> CallType]
    BY <1>1, DroppedFine, DroppedEffect
  <1>3. Fit(s)
    BY <1>2 DEF Sound, Fine, Fit, Half, Coming
  <1>4. Fine(s, f)
    BY <1>2, <1>3, NoStreamFine
  <1>5. OneAnswer => r.state \notin {"active", "held"}
    BY <1>1, AllFit DEF Fit, Half, Opened, Blank
  <1> HIDE DEF f
  <1>6. Fine(r, f)
    BY <1>2, <1>4, <1>5, FollowsOn DEF Fine, NoRestarts
  <1> QED
    BY <1>1, <1>2, <1>6, DroppedFine DEF AllFine

LEMMA VertoByeFine ==
  ASSUME IInv, SInv, VertoBye
  PROVE  AllFine /\ remote' = "gone"
  <1>1. call' = Dropped /\ remote' = "gone"
    BY DEF VertoBye, ToRegistered, Dropped, IInv, Typed
  <1> QED
    BY <1>1, DroppedFine DEF AllFine

(* Events of the connection that was replaced.                                *)
LEMMA OldFine ==
  ASSUME IInv, OldInv, SInv, NEW c \in Calls, Old(c)
  PROVE  AllFine /\ remote' = remote
  <1> DEFINE r == call[c]
  <1>1. Fit(r) /\ r \in CallType
    BY AllFit DEF Fit, Half
  <1>2. ~OneAnswer /\ ~NoRestarts /\ remote' = remote
    BY DEF Old, OldMedia, OldRefused, OldDescribed, OldCandidate, OldGathered, OldTimeout,
           OldInv, NoRestarts
  <1>3. ASSUME NEW full \in BOOLEAN
        PROVE  Fine(r, OnOldSdp(r, full))
    <2> DEFINE s == [r EXCEPT !.desc = "answer", !.cands = full]
               t == OnIceSdp(s)
    <2>1. s \in CallType
      BY <1>1, PutFlag, PutType, Names, Zenon
    <2>2. Half(s)
      BY <1>1, <1>2, <2>1 DEF Fit, Half, NoRestarts, Opened, CallType
    <2>3. Ready(s)
      BY <1>2 DEF Ready
    <2> HIDE DEF s
    <2>4. Coming(t) /\ t \in CallType
      BY <2>1, <2>2, <2>3, OnIceSdpFine, OnIceSdpEffect DEF Fine, Goes
    <2> HIDE DEF t
    <2>5. Coming([t EXCEPT !.desc = r.desc, !.cands = r.cands])
      BY <1>2, <2>4 DEF Coming, Opened, CallType
    <2> QED
      BY <1>2, <2>5 DEF OnOldSdp, Fine, s, t
  <1>4. CASE OldMedia(c) \/ OldDescribed(c)
    BY <1>2, <1>4, AllFit, SameFine DEF OldMedia, OldDescribed, AllFine
  <1>5. CASE OldRefused(c)
    BY <1>2, <1>5, DroppedFine DEF OldRefused, AllFine
  <1>6. CASE OldCandidate(c)
    <2> DEFINE f == [r EXCEPT !.timer = @ \/ ~r.done]
    <2>1. Coming(f)
      BY <1>1, <1>2 DEF Fit, Half, Coming, Opened, CallType
    <2>2. Is(c, f)
      BY <1>6 DEF OldCandidate
    <2> HIDE DEF f
    <2> QED
      BY <1>2, <2>1, <2>2, OneIsFine DEF Fine
  <1>7. CASE OldGathered(c)
    <2>1. PICK full \in BOOLEAN : Is(c, IF r.done THEN r ELSE OnOldSdp(r, full))
      BY <1>7 DEF OldGathered
    <2>2. Fine(r, r)
      BY <1>1, SameFine
    <2> QED
      BY <1>2, <1>3, <2>1, <2>2, OneIsFine
  <1>8. CASE OldTimeout(c)
    BY <1>2, <1>3, <1>8, OneIsFine DEF OldTimeout
  <1> QED
    BY <1>4, <1>5, <1>6, <1>7, <1>8 DEF Old

(* A new object, before it has done anything.                                 *)
LEMMA NewIsFit ==
  ASSUME NEW v \in {"new", "ringing", "recovering"}
  PROVE  /\ Fit([Unused EXCEPT !.state = v])
         /\ [Unused EXCEPT !.state = v].pc = "none"
         /\ [Unused EXCEPT !.state = v].state = v
         /\ [Unused EXCEPT !.state = v].type = "none"
         /\ [Unused EXCEPT !.state = v].srd = "none"
  <1> DEFINE s == [Unused EXCEPT !.state = v]
  <1>1. s \in CallType
    BY UnusedIsSound, PutName, Names, Zenon DEF Sound
  <1>2. /\ s.pc = "none" /\ ~s.peer /\ s.media = "none" /\ ~s.neg /\ ~s.needed /\ ~s.gather
        /\ ~s.timer /\ s.making = "none" /\ s.sig = "stable" /\ s.invites = 0
        /\ s.asked.invite = 0 /\ s.asked.answer = 0 /\ s.asked.hold = 0
        /\ s.state = v /\ s.type = "none" /\ s.srd = "none"
    BY DEF Unused, Requests
  <1> HIDE DEF s
  <1>3. Coming(s)
    BY <1>2 DEF Coming, Opened, Blank
  <1>4. Once(s)
    BY <1>2 DEF Once
  <1> QED
    BY <1>1, <1>2, <1>3, <1>4 DEF Fit, Half, Coming, s

LEMMA VertoAttachFine ==
  ASSUME IInv, SInv, VertoAttach
  PROVE  AllFine /\ remote' = remote
  <1> DEFINE n         == [Unused EXCEPT !.state = "new"]
             new       == WithPeer(n, "answer")
             recovered == [Unused EXCEPT !.state = "recovering"]
  <1>1. PICK d \in Fresh : \/ call' = [Dropped EXCEPT ![d] = new]
                           \/ call' = [Dropped EXCEPT ![d] = recovered]
    BY DEF VertoAttach, Dropped
  <1>2. remote' = remote /\ d \in Calls /\ call[d].state = "unused"
    BY DEF VertoAttach, Fresh
  <1>3. /\ Fit(n) /\ n.pc = "none" /\ n.state = "new" /\ n \in CallType
        /\ Fit(recovered) /\ recovered.type = "none"
    BY NewIsFit DEF Fit, Half
  <1> HIDE DEF n, recovered
  <1>4. Coming(new) /\ (NoRestarts => Once(new)) /\ new.type = "answer"
    BY <1>3, WithPeerFine, WithPeerFields
  <1> HIDE DEF new
  <1>5. Fine(call[d], new) /\ Fine(call[d], recovered)
    BY <1>2, <1>3, <1>4 DEF Fine, Follows, Fit, Half
  <1> QED
    BY <1>1, <1>2, <1>5, DroppedFine, DroppedEffect DEF AllFine

LEMMA DisconnectFine ==
  ASSUME IInv, SInv, Disconnect
  PROVE  AllFine /\ remote' = remote
  <1>1. PICK dropped \in SUBSET Calls :
          call' = [c \in Calls |->
                     LET r == IF c \in dropped THEN [call[c] EXCEPT !.asked = Unused.asked]
                                               ELSE call[c]
                     IN IF c = reg THEN HangupLocally(r) ELSE r]
    BY DEF Disconnect
  <1>2. ASSUME NEW c \in Calls
        PROVE  Fine(call[c], call'[c])
    <2> DEFINE d == [call[c] EXCEPT !.asked = Unused.asked]
               r == IF c \in dropped THEN d ELSE call[c]
    <2>1. Fit(call[c])
      BY AllFit
    <2>2. call'[c] = IF c = reg THEN Closed(r) ELSE r
      BY <1>1 DEF HangupLocally
    <2>3. Fine(call[c], d) /\ Fit(d) /\ d.state = call[c].state
      BY <2>1, UnaskedFine
    <2> HIDE DEF d
    <2>4. Fine(call[c], r) /\ Fit(r) /\ r.state = call[c].state
      BY <2>1, <2>3, SameFine
    <2> HIDE DEF r
    <2>5. Fine(r, Closed(r))
      BY <2>4, ClosedFine
    <2>6. Fine(call[c], Closed(r))
      BY <2>4, <2>5, FollowsOn DEF Fine
    <2> QED
      BY <2>2, <2>4, <2>6
  <1> QED
    BY <1>2 DEF AllFine, Disconnect

(* The object that invites is the first of all.                               *)
LEMMA InviteKeeps ==
  ASSUME IInv, SInv, Invite
  PROVE  SInv' /\ Stays
  <1> DEFINE n   == [Unused EXCEPT !.state = "new"]
             new == WithPeer(n, "offer")
  <1>1. PICK c \in Calls : call' = [call EXCEPT ![c] = new]
    BY DEF Invite, Is
  <1>2. /\ Fresh = Calls /\ remote = "none" /\ remote' = "none"
        /\ call \in [Calls -> CallType]
    BY DEF Invite, IInv, Typed
  <1>3. Fit(n) /\ n.pc = "none" /\ n.state = "new" /\ n.srd = "none"
    BY NewIsFit
  <1> HIDE DEF n
  <1>4. Coming(new) /\ (NoRestarts => Once(new))
    BY <1>3, WithPeerFine
  <1> HIDE DEF new
  <1>5. \A d \in Calls : call[d].state = "unused"
    BY <1>2 DEF Fresh
  <1>6. Stays
    BY <1>5 DEF Stays
  <1>7. ASSUME NoRestarts
        PROVE  OneOffer' /\ \A d \in Calls : Once(call'[d])
    <2>1. \A d \in Calls : ~Offers(d) /\ Once(call[d])
      BY <1>5, <1>7 DEF SInv, Once, Offers
    <2>2. \A d \in Calls : d # c => ~Offers(d)'
      BY <1>1, <1>2, <2>1 DEF Offers
    <2> QED
      BY <1>1, <1>2, <1>4, <1>7, <2>1, <2>2 DEF OneOffer
  <1>8. \A d \in Calls : Coming(call'[d])
    BY <1>1, <1>2, <1>4 DEF SInv
  <1> QED
    BY <1>6, <1>7, <1>8 DEF SInv

(* The server calls; nobody made the call.                                    *)
LEMMA VertoInviteKeeps ==
  ASSUME IInv, SInv, VertoInvite
  PROVE  SInv' /\ Stays
  <1> DEFINE n == [Unused EXCEPT !.state = "ringing"]
  <1>1. PICK c \in Calls : call' = [call EXCEPT ![c] = n]
    BY DEF VertoInvite, Is
  <1>2. /\ Fresh = Calls /\ remote' = "ringing"
        /\ call \in [Calls -> CallType]
    BY DEF VertoInvite, IInv, Typed
  <1>3. Fit(n) /\ n.type = "none"
    BY NewIsFit
  <1> HIDE DEF n
  <1>4. \A d \in Calls : call[d].state = "unused"
    BY <1>2 DEF Fresh
  <1>5. Stays
    BY <1>4 DEF Stays
  <1>6. ASSUME NoRestarts
        PROVE  OneOffer' /\ \A d \in Calls : Once(call'[d])
    <2>1. \A d \in Calls : ~Offers(d) /\ Once(call[d])
      BY <1>4, <1>6 DEF SInv, Once, Offers
    <2>2. \A d \in Calls : ~Offers(d)'
      BY <1>1, <1>2, <1>3, <2>1 DEF Offers
    <2> QED
      BY <1>1, <1>2, <1>3, <1>6, <2>1, <2>2 DEF OneOffer, Fit, Half
  <1>7. \A d \in Calls : Coming(call'[d])
    BY <1>1, <1>2, <1>3 DEF SInv, Fit
  <1> QED
    BY <1>5, <1>6, <1>7 DEF SInv

(* The answer to the one verto.invite: from here on the server speaks.        *)
LEMMA InviteAnsweredKeeps ==
  ASSUME IInv, SInv, NEW c \in Calls, InviteAnswered(c)
  PROVE  SInv' /\ (NoRestarts => Stays)
  <1> DEFINE f == [Answered(call[c], "invite") EXCEPT !.state = "trying"]
  <1>1. call[c].asked.invite > 0 /\ Is(c, f)
    BY DEF InviteAnswered
  <1>2. remote' = remote \/ remote' = "trying"
    BY DEF InviteAnswered
  <1>3. Fit(call[c]) /\ call \in [Calls -> CallType]
    BY AllFit DEF IInv, Typed
  <1>4. Fine(call[c], f)
    BY <1>1, <1>3, InviteAnsweredFine
  <1>5. f.asked.invite = call[c].asked.invite - 1 /\ f.invites = call[c].invites
    BY <1>3 DEF Answered, Fit, Half, CallType, Requests
  <1>6. call[c].asked.invite \in Nat /\ call[c].invites \in Nat
    BY <1>3 DEF Fit, Half, CallType, Requests
  <1> HIDE DEF f
  <1>7. AllFine
    BY <1>1, <1>4, OneIsFine
  <1>8. CASE remote' = remote
    BY <1>7, <1>8, AllFineKeeps
  <1>9. CASE remote' = "trying"
    <2>1. \A d \in Calls : Coming(call'[d])
      BY <1>7 DEF AllFine, Fine
    <2>2. ASSUME NoRestarts
          PROVE  OneOffer' /\ (\A d \in Calls : Once(call'[d])) /\ Stays
      <3>1. \A d \in Calls : Once(call'[d]) /\ Follows(call[d], call'[d])
        BY <1>7, <2>2 DEF AllFine, Fine
      <3>2. Stays
        BY <3>1 DEF Follows, Stays
      <3>3. call[c].invites = 1 /\ call[c].asked.invite = 1 /\ Offers(c)
        BY <1>1, <1>3, <1>6, <2>2 DEF Fit, Half, Once, Offers
      <3>4. \A d \in Calls : Offers(d)' => d = c
        BY <2>2, <3>1, <3>3 DEF SInv, OneOffer, Follows, Offers
      <3>5. call'[c].invites = 1 /\ call'[c].asked.invite = 0
        BY <1>1, <1>3, <1>5, <3>3 DEF Is
      <3> QED
        BY <1>9, <3>1, <3>2, <3>4, <3>5 DEF OneOffer
    <2> QED
      BY <2>1, <2>2 DEF SInv
  <1> QED
    BY <1>2, <1>8, <1>9

LEMMA StepSends ==
  ASSUME IInv, OldInv, SInv, [Next]_vars
  PROVE  SInv' /\ (NoRestarts => Stays)
  <1>1. ASSUME AllFine,
               \/ remote' = remote \/ remote' = "gone"
               \/ remote' \in Speaks /\ remote \in Speaks
               \/ remote' = "answered" /\ remote = "ringing"
        PROVE  SInv' /\ (NoRestarts => Stays)
    BY <1>1, AllFineKeeps
  <1>2. CASE Invite \/ Disconnect
    BY <1>1, <1>2, InviteKeeps, DisconnectFine
  <1>3. CASE Server
    BY <1>1, <1>3, MessageFine, VertoByeFine, VertoInviteKeeps, VertoAttachFine DEF Server
  <1>4. ASSUME NEW c \in Calls, User(c)
        PROVE  SInv' /\ (NoRestarts => Stays)
    BY <1>1, <1>4, UserFine
  <1>5. ASSUME NEW c \in Calls, Browser(c)
        PROVE  SInv' /\ (NoRestarts => Stays)
    BY <1>1, <1>5, MediaFine, MediaRefusedFine, IceFine, RemoteFine DEF Browser
  <1>6. ASSUME NEW c \in Calls, Settled(c)
        PROVE  SInv' /\ (NoRestarts => Stays)
    BY <1>1, <1>6, InviteAnsweredKeeps, AnswersFine DEF Settled
  <1>7. ASSUME NEW c \in Calls, Old(c)
        PROVE  SInv' /\ (NoRestarts => Stays)
    BY <1>1, <1>7, OldFine
  <1>8. CASE UNCHANGED vars
    BY <1>1, <1>8, AllFit, SameFine DEF vars, AllFine
  <1> QED
    BY <1>2, <1>3, <1>4, <1>5, <1>6, <1>7, <1>8 DEF Next

LEMMA InitSends == Init => SInv
  <1> SUFFICES ASSUME Init PROVE SInv
    OBVIOUS
  <1>1. /\ Unused.pc = "none" /\ ~Unused.peer /\ Unused.media = "none" /\ ~Unused.neg
        /\ ~Unused.needed /\ ~Unused.gather /\ ~Unused.timer /\ Unused.making = "none"
        /\ Unused.sig = "stable" /\ Unused.invites = 0 /\ Unused.asked.invite = 0
        /\ Unused.asked.answer = 0 /\ Unused.asked.hold = 0
        /\ Unused.state = "unused" /\ Unused.type = "none" /\ Unused.srd = "none"
    BY DEF Unused, Requests
  <1>2. Coming(Unused) /\ Once(Unused)
    BY <1>1 DEF Coming, Opened, Blank, Once
  <1>3. (\A c \in Calls : call[c] = Unused) /\ remote = "none"
    BY DEF Init
  <1>4. OneOffer
    BY <1>1, <1>3 DEF OneOffer, Offers
  <1> QED
    BY <1>2, <1>3, <1>4 DEF SInv

LEMMA SendingInvariance == Spec => [](IInv /\ OldInv /\ SInv)
  <1>1. Init => SInv
    BY InitSends
  <1>2. IInv /\ OldInv /\ SInv /\ [Next]_vars => SInv'
    BY StepSends
  <1> QED
    BY <1>1, <1>2, OldInvariance, PTL DEF Spec

(* No object of a call waits for a description that nothing will bring: not    *)
(* even a restart of ICE, of the application or of a failed connection, makes  *)
(* Peer skip the event it needs (Peer.startNegotiation, BaseCall._onIceSdp).   *)
(* Excepted is the object whose last negotiation failed, which Peer only logs. *)
THEOREM DescriptionComes == Spec => []DescriptionIsComing
  <1>1. SInv => DescriptionIsComing
    BY DEF SInv, Coming, DescriptionIsComing
  <1> QED
    BY <1>1, SendingInvariance, PTL

(* Where ICE is not restarted and the application answers once, the ICE timer,  *)
(* the end of gathering and a second description together send one verto.invite *)
(* (BaseCall._onIceSdp).                                                        *)
THEOREM OneInvite ==
  ASSUME NoRestarts
  PROVE  Spec => []InvitedOnce
  <1>1. SInv => InvitedOnce
    BY DEF SInv, Once, InvitedOnce
  <1> QED
    BY <1>1, SendingInvariance, PTL

(* Where ICE is not restarted and the application answers once, a call that was *)
(* active stays so until it is hung up, whatever order descriptions, answers    *)
(* and messages of the server come in (BaseCall.setState, _onRemoteSdp).        *)
THEOREM NeverBack ==
  ASSUME NoRestarts
  PROVE  Spec => NeverFallsBack
  <1>1. IInv /\ OldInv /\ SInv /\ [Next]_vars => [Stays]_vars
    BY StepSends
  <1> QED
    BY <1>1, SendingInvariance, PTL DEF Spec, NeverFallsBack, Stays

------------------------------------------------------------------------------
(* Where ICE is restarted: which verto.invite goes out.  The invariant is about *)
(* the calls that have neither said goodbye nor asked for a second description  *)
(* nor let go of their connection, while the session is there.                  *)

Spared(r) == r.twice \/ r.asked.bye > 0 \/ r.pc = "closed"

Up(r) == r.state \in {"active", "held"}

(* Before the first restart: one verto.invite, and the call is up only after it *)
(* was answered.                                                                *)
First(r) ==
  /\ r.invites <= 1 /\ r.asked.invite <= r.invites
  /\ r.invites # 0 => r.done
  /\ r.making \in {"none", r.type}
  /\ r.gather \/ r.timer => r.desc = r.type
  /\ r.type = "answer" => r.srd # "first" /\ r.invites = 0
  /\ r.type = "offer" =>
       /\ r.asked.answer = 0
       /\ r.asked.hold # 0 => Up(r)
       /\ Up(r) => r.gotAnswer
       /\ r.srd = "first" \/ r.state = "early" \/ Up(r) => r.invites = 1 /\ r.asked.invite = 0
       /\ r.srd = "first" => r.state # "early" /\ ~Up(r)

(* After a restart: it is up while anything is still to be sent.                *)
Again(r) ==
  /\ r.asked.invite = 0 /\ r.srd # "first"
  /\ Up(r) \/ (r.state = "answering" /\ r.done)

Kept(r) ==
  /\ r.pc = "none" => r.type = "none" /\ r.srd = "none" /\ r.restarts = 0
  /\ r.pc = "open" /\ ~Spared(r) =>
       /\ r.timer => ~r.done
       /\ IF r.restarts = 0 THEN First(r) ELSE Again(r)

(* The call was made here and the other side has not answered it; the server    *)
(* has answered its verto.invite.                                               *)
Caller(r)  == r.type = "offer" /\ r.restarts = 0 /\ ~r.gotAnswer
Reached(r) == Caller(r) /\ r.invites = 1 /\ r.asked.invite = 0

(* What the server says before the call is answered reaches the object that     *)
(* made it, or one that is spared.                                              *)
Told ==
  /\ down => reg = None
  /\ remote = "gone" => reg = None
  /\ reg # None /\ remote \in {"none", "trying", "early"} => call[reg].pc # "none"
  /\ reg # None /\ remote = "none" =>
       /\ \A c \in Calls : c # reg => call[c] = Unused
       /\ Spared(call[reg]) \/ Caller(call[reg])
  /\ reg # None /\ remote \in {"trying", "early"} => Spared(call[reg]) \/ Reached(call[reg])

AInv ==
  /\ Told
  /\ ~down =>
       \A c \in Calls :
         /\ Kept(call[c])
         /\ call[c].state = "unused" => call[c] = Unused

(* s may come of r, as far as requests go.                                      *)
Asks(r, s) ==
  /\ Kept(s)
  /\ s.state = "unused" => r.state = "unused"
  /\ s.invites > r.invites =>
       (r.invites = 0 /\ r.restarts = 0) \/ r.asked.bye > 0 \/ r.twice

(* s is to the server what r was.                                               *)
Same(r, s) ==
  r.pc # "none" =>
  /\ s.pc # "none"
  /\ Spared(r) => Spared(s)
  /\ Caller(r) => Spared(s) \/ Caller(s)
  /\ Reached(r) => Spared(s) \/ Reached(s)

Moves(r, s) == Asks(r, s) /\ Same(r, s)

Ripe(r) == OneAnswer /\ Fit(r) /\ Kept(r)

LEMMA SparedMoves ==
  ASSUME NEW r, NEW s, Kept(r), Spared(s), r.invites \in Nat, s.invites = r.invites,
         s.state = "unused" => r.state = "unused",
         s.pc = "none" => /\ r.pc = "none" /\ s.type = r.type /\ s.srd = r.srd
                          /\ s.restarts = r.restarts
  PROVE  Moves(r, s)
  BY DEF Moves, Asks, Same, Kept

LEMMA HangupWithByeMoves ==
  ASSUME NEW r, r \in CallType, Kept(r)
  PROVE  Moves(r, HangupWithBye(r))
  <1> DEFINE s == HangupWithBye(r)
  <1>1. /\ s.asked.bye > 0 /\ r.invites \in Nat
        /\ s.invites = r.invites /\ s.pc = r.pc /\ s.type = r.type /\ s.srd = r.srd
        /\ s.restarts = r.restarts /\ s.state = "hangup"
    BY DEF HangupWithBye, CallType, Requests
  <1> QED
    BY <1>1, SparedMoves DEF Spared

LEMMA ClosedMoves ==
  ASSUME NEW r, Ripe(r)
  PROVE  Moves(r, Closed(r))
  <1>1. /\ Closed(r).pc = IF r.peer THEN "closed" ELSE r.pc
        /\ Closed(r).invites = r.invites /\ r.invites \in Nat
        /\ Closed(r).asked = r.asked /\ Closed(r).twice = r.twice
        /\ Closed(r).timer = r.timer /\ Closed(r).done = r.done
        /\ Closed(r).type = r.type /\ Closed(r).srd = r.srd
        /\ Closed(r).restarts = r.restarts /\ Closed(r).gotAnswer = r.gotAnswer
        /\ Closed(r).state = "destroy"
    BY DEF Ripe, Fit, Half, Closed, CallType
  <1>2. r.pc = "open" <=> r.peer
    BY DEF Ripe, Fit, Half
  <1> HIDE DEF Closed
  <1>3. CASE Spared(Closed(r))
    BY <1>1, <1>2, <1>3, SparedMoves DEF Ripe
  <1>4. CASE ~Spared(Closed(r))
    <2>1. r.pc # "open" /\ Closed(r).pc = r.pc
      BY <1>1, <1>2, <1>4 DEF Spared
    <2> QED
      BY <1>1, <1>4, <2>1 DEF Moves, Asks, Same, Kept, Spared, Caller, Reached, Ripe
  <1> QED
    BY <1>3, <1>4

(* What neither the description nor the state of the call depends on.           *)
LEMMA AlikeMoves ==
  ASSUME NEW r, NEW s, Ripe(r),
         /\ s.invites = r.invites /\ s.restarts = r.restarts /\ s.asked = r.asked
         /\ s.twice = r.twice /\ s.type = r.type /\ s.gotAnswer = r.gotAnswer,
         /\ s.timer = r.timer /\ s.done = r.done /\ s.pc = r.pc /\ s.srd = r.srd
         /\ s.making = r.making /\ s.desc = r.desc /\ s.state = r.state
         /\ s.gather => r.gather
  PROVE  Moves(r, s)
  <1>1. r.invites \in Nat
    BY DEF Ripe, Fit, Half, CallType
  <1>2. Same(r, s) /\ (Spared(s) <=> Spared(r))
    BY DEF Same, Spared, Caller, Reached
  <1>3. Kept(s)
    <2>1. /\ First(r) => First(s)
          /\ Again(r) => Again(s)
      BY DEF First, Again, Up
    <2> QED
      BY <1>2, <2>1 DEF Ripe, Kept
  <1> QED
    BY <1>1, <1>2, <1>3 DEF Moves, Asks

LEMMA AlikeThenMoves ==
  ASSUME NEW r, NEW s, NEW t, Moves(s, t),
         /\ s.invites = r.invites /\ s.restarts = r.restarts /\ s.asked = r.asked
         /\ s.twice = r.twice /\ s.type = r.type /\ s.gotAnswer = r.gotAnswer /\ s.pc = r.pc
         /\ s.state = r.state
  PROVE  Moves(r, t)
  BY DEF Moves, Asks, Same, Spared, Caller, Reached

(* What the application and the browser do to one object.                       *)

LEMMA SameMoves == \A r : Ripe(r) => Moves(r, r)
  BY AlikeMoves

LEMMA WithPeerMoves ==
  ASSUME NEW r, Ripe(r), r.pc = "none", NEW t \in {"offer", "answer"}
  PROVE  /\ Kept(WithPeer(r, t))
         /\ t = "answer" => Moves(r, WithPeer(r, t))
  <1> DEFINE s == WithPeer(r, t)
  <1>1. /\ s.type = t /\ s.pc = "open" /\ ~s.done
        /\ s.invites = r.invites /\ s.asked = r.asked
        /\ s.timer = r.timer /\ s.srd = "none" /\ s.restarts = r.restarts
        /\ s.making = "none" /\ ~s.gather /\ s.state = r.state
    BY WithPeerFields DEF Ripe, Fit, Half
  <1>2. Blank(r) /\ r.invites \in Nat
    BY DEF Ripe, Fit, Half, Opened, CallType
  <1> HIDE DEF s
  <1>3. r.restarts = 0
    BY DEF Ripe, Kept
  <1>4. Kept(s)
    BY <1>1, <1>2, <1>3 DEF Kept, First, Blank, Up
  <1>5. Moves(r, s)
    BY <1>1, <1>2, <1>4 DEF Moves, Asks, Same
  <1> QED
    BY <1>4, <1>5 DEF s

LEMMA HoldMoves ==
  ASSUME NEW r, Ripe(r), Up(r)
  PROVE  Moves(r, [r EXCEPT !.asked.hold = 1])
  <1> DEFINE s == [r EXCEPT !.asked.hold = 1]
  <1>1. /\ s.invites = r.invites /\ s.restarts = r.restarts
        /\ s.twice = r.twice /\ s.type = r.type /\ s.gotAnswer = r.gotAnswer
        /\ s.timer = r.timer /\ s.done = r.done /\ s.pc = r.pc /\ s.srd = r.srd
        /\ s.making = r.making /\ s.desc = r.desc /\ s.state = r.state
        /\ s.gather = r.gather /\ r.invites \in Nat
    BY DEF Ripe, Fit, Half, CallType
  <1>2. /\ s.asked.bye = r.asked.bye /\ s.asked.invite = r.asked.invite
        /\ s.asked.answer = r.asked.answer
    BY DEF Ripe, Fit, Half, CallType, Requests
  <1> HIDE DEF s
  <1>3. /\ First(r) => First(s)
        /\ Again(r) => Again(s)
    BY <1>1, <1>2 DEF First, Again, Up
  <1>4. Spared(r) <=> Spared(s)
    BY <1>1, <1>2 DEF Spared
  <1> QED
    BY <1>1, <1>2, <1>3, <1>4 DEF Moves, Asks, Same, Kept, Caller, Reached, Ripe, s

(* A negotiation is for what the object is to describe.                         *)
LEMMA NegotiatesMoves ==
  ASSUME NEW r, Ripe(r), NEW s, s \in CallType,
         /\ s.invites = r.invites /\ s.restarts = r.restarts /\ s.asked = r.asked
         /\ s.twice = r.twice /\ s.type = r.type /\ s.gotAnswer = r.gotAnswer
         /\ s.timer = r.timer /\ s.done = r.done /\ s.pc = r.pc /\ s.srd = r.srd
         /\ s.making = r.making /\ s.desc = r.desc /\ s.state = r.state
         /\ s.gather = r.gather
  PROVE  Moves(r, Negotiates(s))
  <1> DEFINE t == Negotiates(s)
  <1>1. /\ t.invites = r.invites /\ t.restarts = r.restarts /\ t.asked = r.asked
        /\ t.twice = r.twice /\ t.type = r.type /\ t.gotAnswer = r.gotAnswer
        /\ t.timer = r.timer /\ t.done = r.done /\ t.pc = r.pc /\ t.srd = r.srd
        /\ t.desc = r.desc /\ t.state = r.state /\ t.gather = r.gather
        /\ t.making \in {r.making, r.type}
    BY DEF Negotiates, CallType
  <1>2. r.invites \in Nat
    BY DEF Ripe, Fit, Half, CallType
  <1> HIDE DEF t
  <1>3. /\ First(r) => First(t)
        /\ Again(r) => Again(t)
    BY <1>1 DEF First, Again, Up
  <1>4. Same(r, t) /\ (Spared(t) <=> Spared(r))
    BY <1>1 DEF Same, Spared, Caller, Reached
  <1> QED
    BY <1>1, <1>2, <1>3, <1>4 DEF Moves, Asks, Kept, Ripe, t

LEMMA GrantedMoves ==
  ASSUME NEW r, Ripe(r)
  PROVE  Moves(r, [r EXCEPT !.media = "held", !.needed = r.pc = "open"])
  <1> DEFINE s == [r EXCEPT !.media = "held", !.needed = r.pc = "open"]
  <1>1. /\ s.invites = r.invites /\ s.restarts = r.restarts /\ s.asked = r.asked
        /\ s.twice = r.twice /\ s.type = r.type /\ s.gotAnswer = r.gotAnswer
        /\ s.timer = r.timer /\ s.done = r.done /\ s.pc = r.pc /\ s.srd = r.srd
        /\ s.making = r.making /\ s.desc = r.desc /\ s.state = r.state
        /\ s.gather = r.gather
    BY DEF Ripe, Fit, Half, CallType
  <1> HIDE DEF s
  <1> QED
    BY <1>1, AlikeMoves DEF s

LEMMA NoStreamMoves ==
  ASSUME NEW r, Ripe(r)
  PROVE  Moves(r, Negotiates([r EXCEPT !.media = "none"]))
  <1> DEFINE s == [r EXCEPT !.media = "none"]
  <1>1. /\ s.invites = r.invites /\ s.restarts = r.restarts /\ s.asked = r.asked
        /\ s.twice = r.twice /\ s.type = r.type /\ s.gotAnswer = r.gotAnswer
        /\ s.timer = r.timer /\ s.done = r.done /\ s.pc = r.pc /\ s.srd = r.srd
        /\ s.making = r.making /\ s.desc = r.desc /\ s.state = r.state
        /\ s.gather = r.gather
    BY DEF Ripe, Fit, Half, CallType
  <1>2. s \in CallType
    BY PutName, Names, Zenon DEF Ripe, Fit, Half
  <1> HIDE DEF s
  <1> QED
    BY <1>1, <1>2, NegotiatesMoves DEF s

LEMMA NeededMoves ==
  ASSUME NEW r, Ripe(r), NEW s, s = [r EXCEPT !.needed = FALSE]
  PROVE  Moves(r, s) /\ Moves(r, Negotiates(s))
  <1>1. /\ s.invites = r.invites /\ s.restarts = r.restarts /\ s.asked = r.asked
        /\ s.twice = r.twice /\ s.type = r.type /\ s.gotAnswer = r.gotAnswer
        /\ s.timer = r.timer /\ s.done = r.done /\ s.pc = r.pc /\ s.srd = r.srd
        /\ s.making = r.making /\ s.desc = r.desc /\ s.state = r.state
        /\ s.gather = r.gather
    BY DEF Ripe, Fit, Half, CallType
  <1>2. s \in CallType
    BY PutFlag, Zenon DEF Ripe, Fit, Half
  <1> QED
    BY <1>1, <1>2, AlikeMoves, NegotiatesMoves

LEMMA CandidateMoves ==
  ASSUME NEW r, Ripe(r), r.gather
  PROVE  Moves(r, [r EXCEPT !.cands = TRUE, !.timer = @ \/ ~r.done])
  <1> DEFINE s == [r EXCEPT !.cands = TRUE, !.timer = @ \/ ~r.done]
  <1>1. /\ s.invites = r.invites /\ s.restarts = r.restarts /\ s.asked = r.asked
        /\ s.twice = r.twice /\ s.type = r.type /\ s.gotAnswer = r.gotAnswer
        /\ s.done = r.done /\ s.pc = r.pc /\ s.srd = r.srd
        /\ s.making = r.making /\ s.desc = r.desc /\ s.state = r.state
        /\ s.gather = r.gather /\ (s.timer => r.timer \/ ~r.done) /\ r.invites \in Nat
    BY DEF Ripe, Fit, Half, CallType
  <1> HIDE DEF s
  <1>2. /\ First(r) => First(s)
        /\ Again(r) => Again(s)
    BY <1>1 DEF First, Again, Up
  <1>3. Same(r, s) /\ (Spared(s) <=> Spared(r))
    BY <1>1 DEF Same, Spared, Caller, Reached
  <1>4. Kept(s)
    BY <1>1, <1>2, <1>3 DEF Kept, Ripe
  <1> QED
    BY <1>1, <1>3, <1>4 DEF Moves, Asks, s

LEMMA AttemptsMoves ==
  ASSUME NEW r, Ripe(r), NEW n, NEW s, s = [r EXCEPT !.attempts = n]
  PROVE  Moves(r, s)
  <1>1. /\ s.invites = r.invites /\ s.restarts = r.restarts /\ s.asked = r.asked
        /\ s.twice = r.twice /\ s.type = r.type /\ s.gotAnswer = r.gotAnswer
        /\ s.timer = r.timer /\ s.done = r.done /\ s.pc = r.pc /\ s.srd = r.srd
        /\ s.making = r.making /\ s.desc = r.desc /\ s.state = r.state
        /\ s.gather = r.gather
    BY DEF Ripe, Fit, Half, CallType
  <1> QED
    BY <1>1, AlikeMoves

(* A call that is up has no first description to wait for.                      *)
LEMMA RestartedMoves ==
  ASSUME NEW r, Ripe(r), Up(r), r.peer
  PROVE  Moves(r, Restarted(r))
  <1> DEFINE s == Restarted(r)
  <1>1. /\ s.invites = r.invites /\ s.restarts # 0 /\ s.asked = r.asked
        /\ s.twice = r.twice /\ s.gotAnswer = r.gotAnswer
        /\ ~s.timer /\ s.pc = r.pc /\ s.srd = r.srd /\ s.state = r.state
        /\ r.invites \in Nat
    BY DEF Restarted, Ripe, Fit, Half, CallType
  <1>2. r.pc = "open" /\ r.type \in {"offer", "answer"} /\ r.invites \in Nat
        /\ r.asked.invite \in Nat
    BY DEF Ripe, Fit, Half, Coming, Opened, CallType, Requests
  <1> HIDE DEF s
  <1>3. Spared(s) <=> Spared(r)
    BY <1>1 DEF Spared
  <1>4. ASSUME ~Spared(r) PROVE Again(s) /\ ~Caller(r)
    <2>1. CASE r.restarts = 0
      BY <1>1, <1>2, <1>4, <2>1 DEF Ripe, Kept, First, Again, Up, Caller
    <2>2. CASE r.restarts # 0
      BY <1>1, <1>2, <1>4, <2>2 DEF Ripe, Kept, Again, Up, Caller
    <2> QED
      BY <2>1, <2>2
  <1>5. Kept(s)
    BY <1>1, <1>2, <1>3, <1>4 DEF Kept
  <1>6. Same(r, s)
    BY <1>1, <1>2, <1>3, <1>4 DEF Same, Reached
  <1> QED
    BY <1>1, <1>5, <1>6 DEF Moves, Asks, s

(* A description goes out: the first of an object, or of a call that is up.     *)
LEMMA SendsMoves ==
  ASSUME NEW r, r \in CallType, NEW t, t \in CallType, r.pc = "open",
         /\ t.invites = r.invites /\ t.restarts = r.restarts /\ t.asked = r.asked
         /\ t.twice = r.twice /\ t.type = r.type /\ t.gotAnswer = r.gotAnswer
         /\ t.pc = r.pc /\ t.srd = r.srd /\ t.making = r.making /\ t.desc = r.desc
         /\ t.state = r.state /\ t.gather = r.gather /\ t.done /\ ~t.timer,
         ~Spared(r) => /\ Kept(r) /\ ~r.done /\ r.type # "none"
                       /\ r.restarts = 0 => r.desc = r.type
  PROVE  Moves(r, Sends(t))
  <1> DEFINE s == Sends(t)
  <1>1. /\ s.restarts = r.restarts /\ s.twice = r.twice /\ s.type = r.type
        /\ s.gotAnswer = r.gotAnswer /\ s.pc = r.pc /\ s.srd = r.srd
        /\ s.making = r.making /\ s.desc = r.desc /\ s.gather = r.gather
        /\ s.done /\ ~s.timer
    BY DEF Sends, Renegotiates, CallType
  <1>2. /\ s.asked.bye = r.asked.bye /\ s.asked.hold = r.asked.hold
        /\ r.asked.invite \in Nat /\ r.invites \in Nat
    BY DEF Sends, Renegotiates, CallType, Requests
  <1>3. CASE r.desc = "offer" /\ Up(r)
    <2>1. /\ s.asked.invite = r.asked.invite /\ s.asked.answer = r.asked.answer
          /\ s.invites = r.invites /\ s.state = r.state
      BY <1>3 DEF Sends, Renegotiates, Up, CallType, Requests
    <2> HIDE DEF s
    <2>2. /\ Spared(r) <=> Spared(s)
          /\ First(r) => First(s)
          /\ Again(r) => Again(s)
      BY <1>1, <1>2, <2>1 DEF Spared, First, Again, Up
    <2> QED
      BY <1>1, <1>2, <2>1, <2>2 DEF Moves, Asks, Same, Kept, Caller, Reached, s
  <1>4. CASE r.desc = "offer" /\ ~Up(r)
    <2>1. /\ s.asked.invite = r.asked.invite + 1 /\ s.asked.answer = r.asked.answer
          /\ s.invites = r.invites + 1 /\ s.state = "requesting"
      BY <1>4 DEF Sends, Renegotiates, Up, CallType, Requests
    <2> HIDE DEF s
    <2>2. Spared(r) <=> Spared(s)
      BY <1>1, <1>2 DEF Spared
    <2>3. ASSUME ~Spared(r)
          PROVE  r.restarts = 0 /\ r.invites = 0 /\ First(s) /\ ~Reached(r)
      <3>1. r.restarts = 0 /\ First(r)
        BY <1>4, <2>3 DEF Kept, Again
      <3>2. r.type = "offer" /\ r.invites = 0 /\ r.asked.invite = 0
        BY <1>2, <1>4, <2>3, <3>1 DEF First
      <3> QED
        BY <1>1, <1>2, <1>4, <2>1, <3>1, <3>2 DEF First, Up, Reached
    <2>4. Kept(s) /\ Same(r, s)
      BY <1>1, <2>2, <2>3 DEF Kept, Same, Caller, Reached
    <2>5. s.invites > r.invites =>
            (r.invites = 0 /\ r.restarts = 0) \/ r.asked.bye > 0 \/ r.twice
      BY <2>3 DEF Spared
    <2> QED
      BY <2>1, <2>4, <2>5 DEF Moves, Asks, s
  <1>5. CASE r.desc # "offer"
    <2>1. /\ s.asked.invite = r.asked.invite
          /\ s.invites = r.invites /\ s.state = "answering"
      BY <1>5 DEF Sends, Renegotiates, CallType, Requests
    <2> HIDE DEF s
    <2>2. Spared(r) <=> Spared(s)
      BY <1>1, <1>2 DEF Spared
    <2>3. ASSUME ~Spared(r)
          PROVE  IF r.restarts = 0 THEN First(s) /\ r.type # "offer" ELSE Again(s)
      BY <1>1, <1>2, <1>5, <2>1, <2>3 DEF Kept, First, Again, Up
    <2>4. Kept(s) /\ Same(r, s)
      BY <1>1, <2>2, <2>3 DEF Kept, Same, Caller, Reached
    <2> QED
      BY <1>2, <2>1, <2>4 DEF Moves, Asks, s
  <1> QED
    BY <1>3, <1>4, <1>5

LEMMA OnIceSdpMoves ==
  ASSUME NEW r, r \in CallType, r.pc = "open" <=> r.peer, Kept(r),
         r.pc = "open" => r.type # "none",
         ~Spared(r) => /\ r.pc = "open" /\ ~r.done
                       /\ r.restarts = 0 => r.desc = r.type
  PROVE  Moves(r, OnIceSdp(r))
  <1> DEFINE s == [r EXCEPT !.timer = FALSE, !.done = TRUE]
             t == [s EXCEPT !.neg = FALSE]
             u == [t EXCEPT !.twice = TRUE, !.done = FALSE]
  <1>1. OnIceSdp(r) = IF ~r.peer THEN s ELSE IF r.cands THEN Sends(t)
                      ELSE IF r.twice THEN t ELSE Negotiates(u)
    BY DEF OnIceSdp, AsksAgain, CallType
  <1>2. s \in CallType /\ t \in CallType
    BY PutFlag, Zenon
  <1>3. /\ s.invites = r.invites /\ s.asked = r.asked /\ s.twice = r.twice /\ s.pc = r.pc
        /\ s.type = r.type /\ s.srd = r.srd /\ s.restarts = r.restarts /\ s.state = r.state
        /\ t.invites = r.invites /\ t.restarts = r.restarts /\ t.asked = r.asked
        /\ t.twice = r.twice /\ t.type = r.type /\ t.gotAnswer = r.gotAnswer
        /\ t.pc = r.pc /\ t.srd = r.srd /\ t.making = r.making /\ t.desc = r.desc
        /\ t.state = r.state /\ t.gather = r.gather /\ t.done /\ ~t.timer
        /\ r.invites \in Nat
    BY DEF CallType
  <1>4. Negotiates(u).twice /\ Negotiates(u).invites = r.invites /\ Negotiates(u).pc = r.pc
        /\ Negotiates(u).state = r.state
    BY DEF Negotiates, CallType
  <1> HIDE DEF s, t, u
  <1>5. CASE ~r.peer
    BY <1>1, <1>3, <1>5, SparedMoves DEF Spared
  <1>6. CASE r.peer /\ r.cands
    BY <1>1, <1>2, <1>3, <1>6, SendsMoves
  <1>7. CASE r.peer /\ ~r.cands
    BY <1>1, <1>3, <1>4, <1>7, SparedMoves DEF Spared
  <1> QED
    BY <1>5, <1>6, <1>7

LEMMA DescribedMoves ==
  ASSUME NEW r, Ripe(r), r.making # "none", r.pc = "open",
         NEW full \in BOOLEAN, NEW neg \in BOOLEAN,
         NEW s, s = WithDescription(r, full, neg)
  PROVE  Moves(r, s) /\ (r.twice => Moves(r, OnIceSdp(s)))
  <1>1. s \in CallType
    BY WithDescriptionEffect DEF Goes, Ripe, Fit, Half
  <1>2. /\ s.invites = r.invites /\ s.restarts = r.restarts /\ s.asked = r.asked
        /\ s.twice = r.twice /\ s.type = r.type /\ s.gotAnswer = r.gotAnswer
        /\ s.timer = r.timer /\ s.done = r.done /\ s.pc = r.pc /\ s.srd = r.srd
        /\ s.making = "none" /\ s.desc = r.making /\ s.state = r.state /\ s.peer = r.peer
        /\ r.invites \in Nat
    BY DEF WithDescription, Ripe, Fit, Half, CallType
  <1>3. Same(r, s) /\ (Spared(s) <=> Spared(r))
    BY <1>2 DEF Same, Spared, Caller, Reached
  <1>4. /\ First(r) => First(s)
        /\ Again(r) => Again(s)
    BY <1>2 DEF First, Again, Up
  <1>5. Kept(s)
    BY <1>2, <1>3, <1>4 DEF Kept, Ripe
  <1>6. Moves(r, s)
    BY <1>2, <1>3, <1>5 DEF Moves, Asks
  <1>7. ASSUME r.twice PROVE Moves(r, OnIceSdp(s))
    <2>1. /\ s.pc = "open" <=> s.peer
          /\ s.type # "none" /\ Spared(s)
      BY <1>2, <1>7 DEF Ripe, Fit, Half, Opened, Spared
    <2>2. Moves(s, OnIceSdp(s))
      BY <1>1, <1>5, <2>1, OnIceSdpMoves
    <2>3. /\ s.invites = r.invites /\ s.restarts = r.restarts /\ s.asked = r.asked
          /\ s.twice = r.twice /\ s.type = r.type /\ s.gotAnswer = r.gotAnswer /\ s.pc = r.pc
          /\ s.state = r.state
      BY <1>2
    <2> QED
      BY <2>2, <2>3, AlikeThenMoves, Zenon
  <1> QED
    BY <1>6, <1>7

LEMMA DescribeFailedMoves ==
  ASSUME NEW r, Ripe(r), NEW sig, NEW s, s = WithoutDescription(r, sig)
  PROVE  Moves(r, s)
  <1>1. /\ s.invites = r.invites /\ s.restarts = r.restarts /\ s.asked = r.asked
        /\ s.twice = r.twice /\ s.type = r.type /\ s.gotAnswer = r.gotAnswer
        /\ s.timer = r.timer /\ s.done = r.done /\ s.pc = r.pc /\ s.srd = r.srd
        /\ s.making = "none" /\ s.desc = r.desc /\ s.state = r.state /\ s.gather = r.gather
        /\ r.invites \in Nat
    BY DEF WithoutDescription, Ripe, Fit, Half, CallType
  <1>2. Same(r, s) /\ (Spared(s) <=> Spared(r))
    BY <1>1 DEF Same, Spared, Caller, Reached
  <1>3. /\ First(r) => First(s)
        /\ Again(r) => Again(s)
    BY <1>1 DEF First, Again, Up
  <1>4. Kept(s)
    BY <1>1, <1>2, <1>3 DEF Kept, Ripe
  <1> QED
    BY <1>1, <1>2, <1>4 DEF Moves, Asks

LEMMA GatheredMoves ==
  ASSUME NEW r, Ripe(r), r.gather, r.pc = "open", NEW s, s = [r EXCEPT !.gather = FALSE]
  PROVE  IF r.done THEN Moves(r, s) ELSE Moves(r, OnIceSdp(s))
  <1>1. s \in CallType
    BY PutFlag, Zenon DEF Ripe, Fit, Half
  <1>2. /\ s.invites = r.invites /\ s.restarts = r.restarts /\ s.asked = r.asked
        /\ s.twice = r.twice /\ s.type = r.type /\ s.gotAnswer = r.gotAnswer
        /\ s.timer = r.timer /\ s.done = r.done /\ s.pc = r.pc /\ s.srd = r.srd
        /\ s.making = r.making /\ s.desc = r.desc /\ s.state = r.state
        /\ ~s.gather /\ s.peer = r.peer
    BY DEF Ripe, Fit, Half, CallType
  <1>3. Moves(r, s)
    BY <1>2, AlikeMoves
  <1>4. ASSUME ~r.done PROVE Moves(r, OnIceSdp(s))
    <2>1. /\ s.pc = "open" <=> s.peer
          /\ s.type # "none" /\ Kept(s)
      BY <1>2, <1>3 DEF Ripe, Fit, Half, Opened, Moves, Asks
    <2>2. ASSUME ~Spared(s), s.restarts = 0 PROVE s.desc = s.type
      <3>1. ~Spared(r) /\ r.restarts = 0
        BY <1>2, <2>2 DEF Spared
      <3>2. First(r)
        BY <3>1 DEF Ripe, Kept
      <3> QED
        BY <1>2, <3>2 DEF First
    <2>3. Moves(s, OnIceSdp(s))
      BY <1>1, <1>2, <1>4, <2>1, <2>2, OnIceSdpMoves
    <2> QED
      BY <1>2, <2>3, AlikeThenMoves
  <1> QED
    BY <1>3, <1>4

LEMMA TimeoutMoves ==
  ASSUME NEW r, Ripe(r), r.timer
  PROVE  Moves(r, OnIceSdp(r))
  <1>1. /\ r \in CallType /\ r.pc # "none" /\ r.pc \in {"none", "open", "closed"}
        /\ r.pc = "open" <=> r.peer
        /\ r.pc = "open" => r.type # "none"
    BY DEF Ripe, Fit, Half, Opened, Blank, CallType
  <1>2. ASSUME ~Spared(r)
        PROVE  /\ r.pc = "open" /\ ~r.done
               /\ r.restarts = 0 => r.desc = r.type
    BY <1>1, <1>2 DEF Ripe, Kept, First, Spared
  <1> QED
    BY <1>1, <1>2, OnIceSdpMoves DEF Ripe

LEMMA RemoteSetMoves ==
  ASSUME NEW r, Ripe(r), r.srd # "none", r.pc = "open",
         NEW s, s = [r EXCEPT !.sig = "stable", !.srd = "none",
                              !.state = IF r.srd = "first" THEN AfterRemote(r) ELSE @]
  PROVE  Moves(r, s)
  <1>1. /\ s.invites = r.invites /\ s.restarts = r.restarts /\ s.asked = r.asked
        /\ s.twice = r.twice /\ s.type = r.type /\ s.gotAnswer = r.gotAnswer
        /\ s.timer = r.timer /\ s.done = r.done /\ s.pc = r.pc /\ s.srd = "none"
        /\ s.making = r.making /\ s.desc = r.desc
        /\ s.gather = r.gather
        /\ s.state = IF r.srd = "first" THEN AfterRemote(r) ELSE r.state
        /\ r.invites \in Nat
    BY DEF Ripe, Fit, Half, AfterRemote, CallType
  <1>2. Same(r, s) /\ (Spared(s) <=> Spared(r))
    BY <1>1 DEF Same, Spared, Caller, Reached
  <1>3. ASSUME r.type # "none" PROVE First(r) => First(s)
    <2>1. r.type \in {"offer", "answer"}
      BY <1>3 DEF Ripe, Fit, Half, CallType
    <2> QED
      BY <1>1, <2>1 DEF First, Up, AfterRemote
  <1>4. Again(r) => Again(s)
    BY <1>1 DEF Again, Up
  <1>5. Kept(s)
    BY <1>1, <1>2, <1>3, <1>4 DEF Kept, Ripe, Fit, Half, Opened
  <1> QED
    BY <1>1, <1>2, <1>5 DEF Moves, Asks, AfterRemote

LEMMA RemoteRejectedMoves ==
  ASSUME NEW r, Ripe(r), NEW s, s = [r EXCEPT !.srd = "none"]
  PROVE  Moves(r, s) /\ Moves(r, HangupWithBye(s))
  <1>1. s \in CallType
    BY PutName, Zenon DEF Ripe, Fit, Half
  <1>2. /\ s.invites = r.invites /\ s.restarts = r.restarts /\ s.asked = r.asked
        /\ s.twice = r.twice /\ s.type = r.type /\ s.gotAnswer = r.gotAnswer
        /\ s.timer = r.timer /\ s.done = r.done /\ s.pc = r.pc /\ s.srd = "none"
        /\ s.making = r.making /\ s.desc = r.desc /\ s.state = r.state
        /\ s.gather = r.gather /\ r.invites \in Nat
    BY DEF Ripe, Fit, Half, CallType
  <1>3. Same(r, s) /\ (Spared(s) <=> Spared(r))
    BY <1>2 DEF Same, Spared, Caller, Reached
  <1>4. /\ First(r) => First(s)
        /\ Again(r) => Again(s)
    BY <1>2 DEF First, Again, Up
  <1>5. Kept(s)
    BY <1>2, <1>3, <1>4 DEF Kept, Ripe
  <1>6. Moves(s, HangupWithBye(s))
    BY <1>1, <1>5, HangupWithByeMoves
  <1>7. Moves(r, HangupWithBye(s))
    BY <1>2, <1>6, AlikeThenMoves
  <1> QED
    BY <1>2, <1>3, <1>5, <1>7 DEF Moves, Asks

(* Answers to requests.                                                         *)

(* Some requests fewer.                                                         *)
Fewer(r, s) ==
  /\ s.twice = r.twice /\ s.type = r.type /\ s.gotAnswer = r.gotAnswer
  /\ s.invites = r.invites /\ s.restarts = r.restarts
  /\ s.timer = r.timer /\ s.done = r.done /\ s.pc = r.pc /\ s.peer = r.peer
  /\ s.making = r.making /\ s.desc = r.desc /\ s.gather = r.gather
  /\ r.invites \in Nat /\ r.asked.invite \in Nat

LEMMA FewerStays ==
  ASSUME NEW r, Ripe(r), NEW s, Fewer(r, s), s.asked.bye = r.asked.bye
  PROVE  Spared(s) <=> Spared(r)
  BY DEF Fewer, Spared

LEMMA InviteAnsweredMoves ==
  ASSUME NEW r, Ripe(r), r.asked.invite > 0,
         NEW s, s = [Answered(r, "invite") EXCEPT !.state = "trying"]
  PROVE  Moves(r, s) /\ r.pc # "none" /\ (Caller(r) => Spared(s) \/ Reached(s))
  <1>1. Fewer(r, s) /\ s.srd = r.srd /\ s.state = "trying"
    BY DEF Ripe, Fit, Half, Answered, CallType, Requests, Fewer
  <1>2. /\ s.asked.bye = r.asked.bye /\ s.asked.hold = r.asked.hold
        /\ s.asked.answer = r.asked.answer /\ s.asked.invite = r.asked.invite - 1
        /\ r.pc \in {"none", "open", "closed"} /\ r.pc # "none"
    BY DEF Ripe, Fit, Half, Opened, Blank, Answered, CallType, Requests
  <1>3. Spared(s) <=> Spared(r)
    BY <1>1, <1>2, FewerStays
  <1>4. ASSUME ~Spared(r)
        PROVE  First(s) /\ r.restarts = 0 /\ ~Reached(r) /\ s.asked.invite = 0 /\ r.invites = 1
               /\ r.pc = "open"
    <2>1. r.pc = "open" /\ r.restarts = 0 /\ First(r)
      BY <1>2, <1>4 DEF Ripe, Kept, Spared, Again
    <2>2. r.asked.invite = 1 /\ r.invites = 1
      BY <1>1, <2>1 DEF First, Fewer
    <2> QED
      BY <1>1, <1>2, <2>1, <2>2 DEF First, Fewer, Up, Reached
  <1>5. Kept(s)
    BY <1>1, <1>2, <1>3, <1>4 DEF Kept, Ripe, Fewer
  <1> QED
    BY <1>1, <1>2, <1>3, <1>4, <1>5 DEF Fewer, Moves, Asks, Same, Caller, Reached

LEMMA AnswerAnsweredMoves ==
  ASSUME NEW r, Ripe(r), r.asked.answer > 0,
         NEW s, s = [Answered(r, "answer") EXCEPT !.state = "active"]
  PROVE  Moves(r, s)
  <1>1. Fewer(r, s) /\ s.srd = r.srd /\ s.state = "active"
    BY DEF Ripe, Fit, Half, Answered, CallType, Requests, Fewer
  <1>2. /\ s.asked.bye = r.asked.bye /\ s.asked.hold = r.asked.hold
        /\ s.asked.invite = r.asked.invite
        /\ r.pc \in {"none", "open", "closed"} /\ r.pc # "none"
        /\ r.pc = "open" => r.type \in {"offer", "answer"}
    BY DEF Ripe, Fit, Half, Opened, Blank, Answered, CallType, Requests
  <1>3. Spared(s) <=> Spared(r)
    BY <1>1, <1>2, FewerStays
  <1>4. ASSUME ~Spared(r)
        PROVE  IF r.restarts = 0 THEN First(s) ELSE Again(s)
    <2>1. r.pc = "open" /\ IF r.restarts = 0 THEN First(r) ELSE Again(r)
      BY <1>2, <1>4 DEF Ripe, Kept, Spared
    <2>2. CASE r.restarts = 0
      BY <1>1, <1>2, <2>1, <2>2 DEF First, Fewer, Up
    <2>3. CASE r.restarts # 0
      BY <1>1, <1>2, <2>1, <2>3 DEF Again, Fewer, Up
    <2> QED
      BY <2>2, <2>3
  <1>5. Kept(s)
    BY <1>1, <1>2, <1>3, <1>4 DEF Kept, Ripe, Fewer
  <1> QED
    BY <1>1, <1>2, <1>3, <1>5 DEF Fewer, Moves, Asks, Same, Caller, Reached

LEMMA ModifyAnsweredMoves ==
  ASSUME NEW r, Ripe(r), r.asked.modify > 0, r.peer,
         NEW s, s = [Answered(r, "modify") EXCEPT !.srd = "modify"]
  PROVE  Moves(r, s)
  <1>1. Fewer(r, s) /\ s.srd = "modify" /\ s.state = r.state /\ r.pc = "open"
    BY DEF Ripe, Fit, Half, Answered, CallType, Requests, Fewer
  <1>2. /\ s.asked.bye = r.asked.bye /\ s.asked.hold = r.asked.hold
        /\ s.asked.invite = r.asked.invite /\ s.asked.answer = r.asked.answer
    BY DEF Ripe, Fit, Half, Answered, CallType, Requests
  <1>3. Spared(s) <=> Spared(r)
    BY <1>1, <1>2, FewerStays
  <1>4. /\ First(r) => First(s)
        /\ Again(r) => Again(s)
    BY <1>1, <1>2 DEF First, Again, Up, Fewer
  <1>5. Kept(s)
    BY <1>1, <1>2, <1>3, <1>4 DEF Kept, Ripe, Fewer
  <1> QED
    BY <1>1, <1>2, <1>3, <1>5 DEF Fewer, Moves, Asks, Same, Caller, Reached

LEMMA ChangeFailedMoves ==
  ASSUME NEW r, Ripe(r), NEW q \in {"modify", "hold"}, r.asked[q] > 0,
         NEW s, s = Answered(r, q)
  PROVE  Moves(r, s)
  <1>1. Fewer(r, s) /\ s.srd = r.srd /\ s.state = r.state
    BY DEF Ripe, Fit, Half, Answered, CallType, Requests, Fewer
  <1>2. /\ s.asked.bye = r.asked.bye
        /\ r.asked.hold = 0 => s.asked.hold = 0
        /\ s.asked.invite = r.asked.invite /\ s.asked.answer = r.asked.answer
    BY DEF Ripe, Fit, Half, Answered, CallType, Requests
  <1>3. Spared(s) <=> Spared(r)
    BY <1>1, <1>2, FewerStays
  <1>4. /\ First(r) => First(s)
        /\ Again(r) => Again(s)
    BY <1>1, <1>2 DEF First, Again, Up, Fewer
  <1>5. Kept(s)
    BY <1>1, <1>2, <1>3, <1>4 DEF Kept, Ripe, Fewer
  <1> QED
    BY <1>1, <1>2, <1>3, <1>5 DEF Fewer, Moves, Asks, Same, Caller, Reached

LEMMA HoldAnsweredMoves ==
  ASSUME NEW r, Ripe(r), r.asked.hold > 0, NEW v \in {"active", "held"},
         NEW s, s = [Answered(r, "hold") EXCEPT !.state = v]
  PROVE  Moves(r, s)
  <1>1. Fewer(r, s) /\ s.srd = r.srd /\ s.state = v
    BY DEF Ripe, Fit, Half, Answered, CallType, Requests, Fewer
  <1>2. /\ s.asked.bye = r.asked.bye
        /\ s.asked.invite = r.asked.invite /\ s.asked.answer = r.asked.answer
        /\ r.pc \in {"none", "open", "closed"} /\ r.pc # "none"
        /\ r.pc = "open" => r.type \in {"offer", "answer"}
    BY DEF Ripe, Fit, Half, Opened, Blank, Answered, CallType, Requests
  <1>3. Spared(s) <=> Spared(r)
    BY <1>1, <1>2, FewerStays
  <1>4. ASSUME ~Spared(r)
        PROVE  IF r.restarts = 0 THEN First(s) ELSE Again(s)
    <2>1. r.pc = "open" /\ IF r.restarts = 0 THEN First(r) ELSE Again(r)
      BY <1>2, <1>4 DEF Ripe, Kept, Spared
    <2>2. CASE r.restarts = 0
      BY <1>1, <1>2, <2>1, <2>2 DEF First, Fewer, Up
    <2>3. CASE r.restarts # 0
      BY <1>1, <1>2, <2>1, <2>3 DEF Again, Fewer, Up
    <2> QED
      BY <2>2, <2>3
  <1>5. Kept(s)
    BY <1>1, <1>2, <1>3, <1>4 DEF Kept, Ripe, Fewer
  <1> QED
    BY <1>1, <1>2, <1>3, <1>5 DEF Fewer, Moves, Asks, Same, Caller, Reached

(* The answer to a verto.bye closes the object, the failure of a setup sends    *)
(* a verto.bye.                                                                 *)
LEMMA ByeAnsweredMoves ==
  ASSUME NEW r, Ripe(r), r.asked.bye > 0
  PROVE  Moves(r, Closed(Answered(r, "bye")))
  <1> DEFINE s == Closed(Answered(r, "bye"))
  <1>1. /\ s.invites = r.invites /\ r.invites \in Nat /\ s.state = "destroy"
        /\ s.type = r.type /\ s.srd = r.srd /\ s.restarts = r.restarts
        /\ s.pc = IF r.pc = "open" THEN "closed" ELSE r.pc
        /\ r.pc \in {"none", "open", "closed"}
    BY DEF Ripe, Fit, Half, Answered, Closed, CallType, Requests
  <1> HIDE DEF s
  <1>2. r.pc # "none" => Spared(s) /\ s.pc # "none"
    BY <1>1 DEF Spared
  <1>3. Kept(s)
    BY <1>1, <1>2 DEF Kept, Ripe
  <1> QED
    BY <1>1, <1>2, <1>3 DEF Moves, Asks, Same, s

LEMMA SetupFailedMoves ==
  ASSUME NEW r, Ripe(r), NEW q \in {"invite", "answer"}, r.asked[q] > 0
  PROVE  Moves(r, HangupWithBye(Answered(r, q)))
  <1> DEFINE t == Answered(r, q)
             s == HangupWithBye(t)
  <1>1. /\ t.invites = r.invites /\ r.invites \in Nat /\ t.pc = r.pc
        /\ t.asked.bye \in Nat /\ t \in CallType
    BY DEF Ripe, Fit, Half, Answered, CallType, Requests
  <1>2. s.invites = r.invites /\ s.asked.bye > 0 /\ s.pc = r.pc /\ s.state = "hangup"
    <2> HIDE DEF t
    <2> QED
      BY <1>1 DEF HangupWithBye, CallType, Requests
  <1>3. r.pc # "none"
    BY DEF Ripe, Fit, Half, Opened, Blank, CallType, Requests
  <1> HIDE DEF s
  <1> QED
    BY <1>1, <1>2, <1>3, SparedMoves DEF Spared, Ripe, s

(* Messages of the server, to an object whose verto.invite it answered.         *)

LEMMA OnMediaMoves ==
  ASSUME NEW r, Ripe(r), r.pc # "none", Spared(r) \/ Reached(r), NEW s, s = OnMedia(r)
  PROVE  Moves(r, s)
  <1>1. /\ s.invites = r.invites /\ s.restarts = r.restarts /\ s.asked = r.asked
        /\ s.twice = r.twice /\ s.type = r.type /\ s.gotAnswer = r.gotAnswer
        /\ s.timer = r.timer /\ s.done = r.done /\ s.pc = r.pc
        /\ s.making = r.making /\ s.desc = r.desc /\ s.gather = r.gather
        /\ s.state = r.state
        /\ s.srd = r.srd \/ (s.srd = "first" /\ r.state # "early" /\ ~Up(r))
        /\ r.invites \in Nat
    BY DEF Ripe, Fit, Half, OnMedia, RemoteSdp, Before, Up, CallType
  <1>2. Same(r, s) /\ (Spared(s) <=> Spared(r))
    BY <1>1 DEF Same, Spared, Caller, Reached
  <1>3. Reached(r) /\ First(r) => First(s)
    BY <1>1 DEF First, Up, Reached, Caller
  <1>4. Kept(s)
    BY <1>1, <1>2, <1>3 DEF Kept, Ripe, Reached, Caller
  <1> QED
    BY <1>1, <1>2, <1>4 DEF Moves, Asks

LEMMA OnAnswerAsks ==
  ASSUME NEW r, Ripe(r), r.pc # "none", Spared(r) \/ Reached(r), NEW s, s = OnAnswer(r)
  PROVE  Asks(r, s)
  <1>1. /\ s.invites = r.invites /\ s.restarts = r.restarts /\ s.asked = r.asked
        /\ s.twice = r.twice /\ s.type = r.type /\ s.gotAnswer
        /\ s.timer = r.timer /\ s.done = r.done /\ s.pc = r.pc
        /\ s.making = r.making /\ s.desc = r.desc /\ s.gather = r.gather
        /\ \/ s.srd = r.srd /\ s.state = r.state
           \/ s.srd = r.srd /\ r.state = "early" /\ s.state = "active"
           \/ s.srd = "first" /\ s.state = r.state /\ r.state # "early" /\ ~Up(r)
        /\ r.invites \in Nat
    BY DEF Ripe, Fit, Half, OnAnswer, RemoteSdp, Before, Up, CallType
  <1>2. Spared(s) <=> Spared(r)
    BY <1>1 DEF Spared
  <1>3. Reached(r) /\ First(r) => First(s)
    BY <1>1 DEF First, Up, Reached, Caller
  <1>4. Kept(s)
    BY <1>1, <1>2, <1>3 DEF Kept, Ripe, Reached, Caller
  <1> QED
    BY <1>1, <1>4 DEF Asks

------------------------------------------------------------------------------
(* The steps, while the session is there.                                       *)

Invites ==
  \A c \in Calls :
    call'[c].invites > call[c].invites =>
      \/ call[c].invites = 0 /\ call[c].restarts = 0
      \/ call[c].asked.bye > 0 \/ call[c].twice \/ down \/ old[c].at # "none"

AllAsk == \A c \in Calls : Asks(call[c], call'[c])

(* Nothing happens to an object that was not built.                             *)
LEMMA UnusedRests ==
  ASSUME NEW c \in Calls, call[c] = Unused, OneAnswer, OldInv
  PROVE  ~User(c) /\ ~Browser(c) /\ ~Settled(c)
  <1>1. /\ Unused.state = "unused" /\ ~Unused.peer /\ Unused.media = "none"
        /\ Unused.pc = "none" /\ ~Unused.timer /\ Unused.making = "none"
        /\ \A q \in Requests : Unused.asked[q] = 0
    BY DEF Unused
  <1>2. ~User(c)
    BY <1>1 DEF User, Answer, AnswerAgain, OneAnswer, Hangup, Hold, RestartIce, MayRestart
  <1>3. ~Browser(c)
    <2>1. ~Probes(c)
      BY <1>1 DEF Probes, OldInv
    <2> QED
      BY <1>1, <2>1 DEF Browser, MediaGranted, MediaEmpty, MediaRefused, NegotiationNeeded,
        Described, DescribeFailed, IceCandidate, IceGathered, IceTimeout, IceFailed,
        IceConnected, RemoteSet, RemoteRejected
  <1>4. ~Settled(c)
    BY <1>1 DEF Settled, InviteAnswered, AnswerAnswered, ModifyAnswered, HoldAnswered,
      ByeAnswered, ByeFailed, SetupFailed, ChangeFailed, Requests
  <1> QED
    BY <1>2, <1>3, <1>4

LEMMA AllRipe ==
  ASSUME IInv, SInv, AInv, OneAnswer, OldInv, ~down
  PROVE  \A c \in Calls : Ripe(call[c]) /\ (call[c].state = "unused" => call[c] = Unused)
  BY AllFit DEF AInv, Ripe

LEMMA AllAskKeeps ==
  ASSUME AInv, ~down, AllAsk, Told',
         \A c \in Calls : call'[c].state = "unused" => call'[c] = call[c]
  PROVE  AInv' /\ Invites
  <1>1. \A c \in Calls : Kept(call'[c])
    BY DEF AllAsk, Asks
  <1>2. \A c \in Calls : call'[c].state = "unused" => call'[c] = Unused
    BY DEF AInv
  <1>3. Invites
    BY DEF AllAsk, Asks, Invites
  <1> QED
    BY <1>1, <1>2, <1>3 DEF AInv

LEMMA OneAsks ==
  ASSUME IInv, SInv, AInv, OneAnswer, OldInv, ~down, NEW c \in Calls, call[c] # Unused,
         NEW f, Is(c, f), Asks(call[c], f), Told'
  PROVE  AInv' /\ Invites
  <1>1. \A d \in Calls : Ripe(call[d]) /\ (call[d].state = "unused" => call[d] = Unused)
    BY AllRipe
  <1>2. \A d \in Calls : Asks(call[d], call[d])
    BY <1>1, SameMoves DEF Moves
  <1>3. call'[c] = f /\ \A d \in Calls : d # c => call'[d] = call[d]
    BY DEF Is, IInv, Typed
  <1>4. f.state # "unused"
    BY <1>1 DEF Asks
  <1> QED
    BY <1>2, <1>3, <1>4, AllAskKeeps DEF AllAsk

LEMMA OneMoves ==
  ASSUME IInv, SInv, AInv, OneAnswer, OldInv, ~down, NEW c \in Calls, call[c] # Unused,
         NEW f, Is(c, f), Moves(call[c], f), ~down',
         reg' = None \/ UNCHANGED <<reg, remote>>
  PROVE  AInv' /\ Invites
  <1>1. call'[c] = f /\ \A d \in Calls : d # c => call'[d] = call[d]
    BY DEF Is, IInv, Typed
  <1>2. CASE reg' = None
    BY <1>2, OneAsks DEF Told, Moves
  <1>3. CASE UNCHANGED <<reg, remote>> /\ reg # None
    <2>1. reg \in Calls /\ Told
      BY <1>3 DEF IInv, Typed, AInv
    <2>2. CASE c = reg
      <3>1. Same(call[reg], call'[reg])
        BY <1>1, <2>2 DEF Moves
      <3> QED
        BY <1>1, <1>3, <2>1, <2>2, <3>1, OneAsks DEF Told, Moves, Same
    <2>3. CASE c # reg
      BY <1>1, <1>3, <2>1, <2>3, OneAsks DEF Told, Moves
    <2> QED
      BY <2>2, <2>3
  <1> QED
    BY <1>2, <1>3

LEMMA UserAsks ==
  ASSUME IInv, SInv, AInv, OneAnswer, OldInv, ~down, NEW c \in Calls, User(c)
  PROVE  AInv' /\ Invites
  <1> DEFINE r == call[c]
  <1>1. Ripe(r) /\ r \in CallType /\ r # Unused
    BY AllRipe, UnusedRests DEF Ripe, Fit, Half
  <1>2. ~down' /\ UNCHANGED <<reg, remote>>
    BY DEF User, Answer, AnswerAgain, Hangup, Hold, RestartIce
  <1>3. CASE Answer(c)
    <2>1. r.pc = "none" /\ Is(c, WithPeer(r, "answer"))
      BY <1>1, <1>3 DEF Answer, Ripe, Fit, Half, Opened
    <2> QED
      BY <1>1, <1>2, <2>1, WithPeerMoves, OneMoves
  <1>4. CASE Hangup(c)
    BY <1>1, <1>2, <1>4, HangupWithByeMoves, OneMoves DEF Hangup, Ripe
  <1>5. CASE Hold(c)
    BY <1>1, <1>2, <1>5, HoldMoves, OneMoves DEF Hold, Up
  <1>6. CASE RestartIce(c)
    BY <1>1, <1>2, <1>6, RestartedMoves, OneMoves DEF RestartIce, MayRestart, Up
  <1> QED
    BY <1>3, <1>4, <1>5, <1>6 DEF User, AnswerAgain, OneAnswer

LEMMA MediaAsks ==
  ASSUME IInv, SInv, AInv, OneAnswer, OldInv, ~down, NEW c \in Calls,
         MediaGranted(c) \/ MediaEmpty(c) \/ NegotiationNeeded(c)
           \/ Described(c) \/ DescribeFailed(c)
  PROVE  AInv' /\ Invites
  <1> DEFINE r == call[c]
  <1>1. Ripe(r) /\ r # Unused
    BY AllRipe, UnusedRests DEF Browser
  <1>2. ~down' /\ UNCHANGED <<reg, remote>>
    <2>1. ASSUME Described(c) PROVE UNCHANGED <<reg, remote, down>>
      BY <2>1, Zenon DEF Described
    <2> QED
      BY <2>1 DEF MediaGranted, MediaEmpty, NegotiationNeeded, DescribeFailed
  <1>3. CASE MediaGranted(c)
    BY <1>1, <1>2, <1>3, GrantedMoves, OneMoves DEF MediaGranted
  <1>4. CASE MediaEmpty(c)
    BY <1>1, <1>2, <1>4, NoStreamMoves, OneMoves DEF MediaEmpty
  <1>5. CASE NegotiationNeeded(c)
    <2> DEFINE s == [r EXCEPT !.needed = FALSE]
    <2>1. Is(c, s) \/ Is(c, Negotiates(s))
      BY <1>5 DEF NegotiationNeeded
    <2>2. Moves(r, s) /\ Moves(r, Negotiates(s))
      BY <1>1, NeededMoves
    <2> HIDE DEF s
    <2> QED
      BY <1>1, <1>2, <2>1, <2>2, OneMoves
  <1>6. CASE Described(c)
    <2> DEFINE s(full, neg) == WithDescription(r, full, neg)
    <2>1. /\ r.making # "none" /\ r.pc = "open"
          /\ \E full \in BOOLEAN, neg \in BOOLEAN :
               Is(c, IF r.twice THEN OnIceSdp(s(full, neg)) ELSE s(full, neg))
      <3>1. r.neg \in BOOLEAN
        BY <1>1, Fields DEF Ripe, Fit, Half
      <3>2. (r.neg \/ r.making = "offer") \in BOOLEAN
        OBVIOUS
      <3> QED
        BY <1>6, <3>2, Zenon DEF Described
    <2>2. PICK full \in BOOLEAN, neg \in BOOLEAN :
            Is(c, IF r.twice THEN OnIceSdp(s(full, neg)) ELSE s(full, neg))
      BY <2>1
    <2>3. Moves(r, s(full, neg)) /\ (r.twice => Moves(r, OnIceSdp(s(full, neg))))
      BY <1>1, <2>1, DescribedMoves
    <2> HIDE DEF s
    <2> QED
      BY <1>1, <1>2, <2>2, <2>3, OneMoves
  <1>7. CASE DescribeFailed(c)
    <2>1. PICK sig : Is(c, WithoutDescription(r, sig))
      BY <1>7, Zenon DEF DescribeFailed
    <2>2. Moves(r, WithoutDescription(r, sig))
      BY <1>1, DescribeFailedMoves
    <2> QED
      BY <1>1, <1>2, <2>1, <2>2, OneMoves
  <1> QED
    BY <1>3, <1>4, <1>5, <1>6, <1>7

LEMMA IceAsks ==
  ASSUME IInv, SInv, AInv, OneAnswer, OldInv, ~down, NEW c \in Calls,
         \/ IceCandidate(c) \/ IceGathered(c) \/ IceTimeout(c)
         \/ IceFailed(c) \/ IceConnected(c)
  PROVE  AInv' /\ Invites
  <1> DEFINE r == call[c]
  <1>1. Ripe(r) /\ r # Unused
    BY AllRipe, UnusedRests DEF Browser
  <1>2. ~down' /\ UNCHANGED <<reg, remote>>
    BY DEF IceCandidate, IceGathered, IceTimeout, IceFailed, IceConnected
  <1>3. CASE IceCandidate(c)
    BY <1>1, <1>2, <1>3, CandidateMoves, OneMoves DEF IceCandidate
  <1>4. CASE IceGathered(c)
    <2> DEFINE s == [r EXCEPT !.gather = FALSE]
    <2>1. /\ r.gather /\ r.pc = "open"
          /\ IF r.done THEN Is(c, s) ELSE Is(c, OnIceSdp(s))
      <3>1. s.done = r.done
        BY <1>1 DEF Ripe, Fit, Half, CallType
      <3> QED
        BY <1>4, <3>1 DEF IceGathered
    <2>2. IF r.done THEN Moves(r, s) ELSE Moves(r, OnIceSdp(s))
      BY <1>1, <2>1, GatheredMoves
    <2> HIDE DEF s
    <2> QED
      BY <1>1, <1>2, <2>1, <2>2, OneMoves
  <1>5. CASE IceTimeout(c)
    BY <1>1, <1>2, <1>5, TimeoutMoves, OneMoves DEF IceTimeout
  <1>6. CASE IceFailed(c)
    <2> DEFINE s == [r EXCEPT !.attempts = @ + 1]
    <2>1. ~NoRestarts /\ r.attempts + 1 \in 0 .. MaxAttempts
      BY <1>1, <1>6, Fields, BoundAssumption DEF IceFailed, NoRestarts, Ripe, Fit, Half
    <2>2. s \in CallType
      BY <1>1, <2>1, PutNumber, Zenon DEF Ripe, Fit, Half
    <2>3. /\ s.invites = r.invites /\ s.restarts = r.restarts /\ s.asked = r.asked
          /\ s.twice = r.twice /\ s.type = r.type /\ s.gotAnswer = r.gotAnswer /\ s.pc = r.pc
          /\ s.state = r.state /\ s.peer = r.peer
      BY <1>1 DEF Ripe, Fit, Half, CallType
    <2>4. Coming(s)
      BY <1>1 DEF Ripe, Fit, Half, Coming, Opened, Blank, CallType, Requests
    <2>5. Is(c, s) \/ (Is(c, Restarted(s)) /\ MayRestart(s))
      BY <1>6 DEF IceFailed
    <2>6. Moves(r, s)
      BY <1>1, AttemptsMoves
    <2> HIDE DEF s
    <2>7. Ripe(s)
      BY <1>1, <2>1, <2>2, <2>3, <2>4, <2>6 DEF Ripe, Fit, Half, Coming, Moves, Asks
    <2>8. MayRestart(s) => Moves(s, Restarted(s))
      BY <2>7, RestartedMoves DEF MayRestart, Up
    <2>9. MayRestart(s) => Moves(r, Restarted(s))
      BY <2>3, <2>8, AlikeThenMoves
    <2> QED
      BY <1>1, <1>2, <2>5, <2>6, <2>9, OneMoves
  <1>7. CASE IceConnected(c)
    BY <1>1, <1>2, <1>7, AttemptsMoves, OneMoves DEF IceConnected
  <1> QED
    BY <1>3, <1>4, <1>5, <1>6, <1>7

LEMMA RemoteAsks ==
  ASSUME IInv, SInv, AInv, OneAnswer, OldInv, ~down, NEW c \in Calls, RemoteSet(c) \/ RemoteRejected(c)
  PROVE  AInv' /\ Invites
  <1> DEFINE r == call[c]
  <1>1. Ripe(r) /\ r # Unused
    BY AllRipe, UnusedRests DEF Browser
  <1>2. ~down' /\ UNCHANGED <<reg, remote>>
    BY DEF RemoteSet, RemoteRejected
  <1>3. CASE RemoteSet(c)
    BY <1>1, <1>2, <1>3, RemoteSetMoves, OneMoves DEF RemoteSet
  <1>4. CASE RemoteRejected(c)
    <2> DEFINE s == [r EXCEPT !.srd = "none"]
    <2>1. Is(c, s) \/ Is(c, HangupWithBye(s))
      BY <1>4 DEF RemoteRejected
    <2>2. Moves(r, s) /\ Moves(r, HangupWithBye(s))
      BY <1>1, RemoteRejectedMoves
    <2> HIDE DEF s
    <2> QED
      BY <1>1, <1>2, <2>1, <2>2, OneMoves
  <1> QED
    BY <1>3, <1>4

(* Until the server has answered the verto.invite of the call no other object   *)
(* asked for anything.                                                          *)
LEMMA InviteAnsweredAsks ==
  ASSUME IInv, SInv, AInv, OneAnswer, OldInv, ~down, NEW c \in Calls, InviteAnswered(c)
  PROVE  AInv' /\ Invites
  <1> DEFINE r == call[c]
             f == [Answered(r, "invite") EXCEPT !.state = "trying"]
  <1>1. Ripe(r) /\ r # Unused
    BY AllRipe, UnusedRests DEF Settled
  <1>2. /\ ~down' /\ reg' = reg /\ r.asked.invite > 0 /\ Is(c, f)
        /\ remote' = remote \/ (remote \in {"none", "gone"} /\ remote' = "trying")
    BY DEF InviteAnswered
  <1>3. Moves(r, f) /\ r.pc # "none" /\ (Caller(r) => Spared(f) \/ Reached(f))
    BY <1>1, <1>2, InviteAnsweredMoves
  <1> HIDE DEF f
  <1>4. CASE reg = None \/ UNCHANGED remote
    BY <1>1, <1>2, <1>3, <1>4, OneMoves
  <1>5. CASE reg # None /\ remote = "none" /\ remote' = "trying"
    <2>1. reg = c /\ call'[c] = f
      BY <1>1, <1>2, <1>5 DEF AInv, Told, IInv, Typed, Is
    <2>2. f.pc # "none" /\ (Spared(f) \/ Reached(f))
      BY <1>3, <1>5, <2>1 DEF AInv, Told, Moves, Same
    <2>3. Told'
      BY <1>2, <1>5, <2>1, <2>2 DEF Told
    <2> QED
      BY <1>1, <1>2, <1>3, <2>3, OneAsks DEF Moves
  <1> QED
    BY <1>2, <1>4, <1>5 DEF AInv, Told

LEMMA AnswersAsk ==
  ASSUME IInv, SInv, AInv, OneAnswer, OldInv, ~down, NEW c \in Calls,
         \/ AnswerAnswered(c) \/ ModifyAnswered(c) \/ HoldAnswered(c)
         \/ ByeAnswered(c) \/ ByeFailed(c) \/ SetupFailed(c) \/ ChangeFailed(c)
  PROVE  AInv' /\ Invites
  <1> DEFINE r == call[c]
  <1>1. Ripe(r) /\ r # Unused /\ ~down'
    BY AllRipe, UnusedRests DEF Settled, AnswerAnswered, ModifyAnswered, HoldAnswered,
      ByeAnswered, ByeFailed, SetupFailed, ChangeFailed
  <1>2. CASE AnswerAnswered(c)
    <2> DEFINE f == [Answered(r, "answer") EXCEPT !.state = "active"]
    <2>1. Moves(r, f) /\ Is(c, f)
      BY <1>1, <1>2, AnswerAnsweredMoves DEF AnswerAnswered
    <2>2. reg' = reg /\ (remote' = remote \/ remote' = "answered")
      BY <1>2 DEF AnswerAnswered
    <2> HIDE DEF f
    <2>3. CASE remote' = remote
      BY <1>1, <2>1, <2>2, <2>3, OneMoves
    <2>4. CASE remote' = "answered"
      BY <1>1, <2>1, <2>2, <2>4, OneAsks DEF Told, Moves
    <2> QED
      BY <2>2, <2>3, <2>4
  <1>3. CASE ModifyAnswered(c)
    <2> DEFINE s == Answered(r, "modify")
               f == [s EXCEPT !.srd = "modify"]
    <2>1. /\ r.asked["modify"] > 0 /\ UNCHANGED <<reg, remote>>
          /\ Is(c, s) \/ (s.peer /\ Is(c, f))
      BY <1>3 DEF ModifyAnswered
    <2>2. s.peer = r.peer
      BY <1>1 DEF Ripe, Fit, Half, Answered, CallType
    <2>3. Moves(r, s) /\ (r.peer => Moves(r, f))
      BY <1>1, <2>1, ModifyAnsweredMoves, ChangeFailedMoves
    <2> HIDE DEF s, f
    <2> QED
      BY <1>1, <2>1, <2>2, <2>3, OneMoves
  <1>4. CASE HoldAnswered(c)
    <2> DEFINE f(v) == [Answered(r, "hold") EXCEPT !.state = v]
    <2>1. PICK v \in {"active", "held"} : Is(c, f(v))
      BY <1>4 DEF HoldAnswered
    <2>2. r.asked.hold > 0 /\ UNCHANGED <<reg, remote>>
      BY <1>4 DEF HoldAnswered
    <2>3. Moves(r, f(v))
      BY <1>1, <2>2, HoldAnsweredMoves
    <2> HIDE DEF f
    <2> QED
      BY <1>1, <2>1, <2>2, <2>3, OneMoves
  <1>5. CASE ByeAnswered(c) \/ ByeFailed(c)
    <2>1. r.asked.bye > 0 /\ Is(c, Closed(Answered(r, "bye"))) /\ reg' = None
      BY <1>5 DEF ByeAnswered, ByeFailed, Forgotten
    <2> QED
      BY <1>1, <2>1, ByeAnsweredMoves, OneMoves
  <1>6. CASE SetupFailed(c)
    <2>1. PICK q \in {"invite", "answer"} :
            r.asked[q] > 0 /\ Is(c, HangupWithBye(Answered(r, q)))
      BY <1>6 DEF SetupFailed
    <2>2. UNCHANGED <<reg, remote>>
      BY <1>6 DEF SetupFailed
    <2> QED
      BY <1>1, <2>1, <2>2, SetupFailedMoves, OneMoves
  <1>7. CASE ChangeFailed(c)
    <2>1. PICK q \in {"modify", "hold"} : r.asked[q] > 0 /\ Is(c, Answered(r, q))
      BY <1>7 DEF ChangeFailed
    <2>2. UNCHANGED <<reg, remote>>
      BY <1>7 DEF ChangeFailed
    <2> QED
      BY <1>1, <2>1, <2>2, ChangeFailedMoves, OneMoves
  <1> QED
    BY <1>2, <1>3, <1>4, <1>5, <1>6, <1>7

LEMMA MessageAsks ==
  ASSUME IInv, SInv, AInv, OneAnswer, OldInv, ~down, VertoMedia \/ VertoAnswer
  PROVE  AInv' /\ Invites
  <1>1. /\ ~down' /\ reg' = reg /\ remote \in {"trying", "early"}
        /\ remote' = "early" \/ remote' = "answered"
    BY DEF VertoMedia, VertoAnswer
  <1>2. CASE reg = None
    <2>1. call' = call
      BY <1>2 DEF VertoMedia, VertoAnswer, ToRegistered
    <2>2. AllAsk
      BY <2>1, AllRipe, SameMoves DEF AllAsk, Moves
    <2> QED
      BY <1>1, <1>2, <2>1, <2>2, AllAskKeeps DEF Told
  <1>3. CASE reg # None
    <2> DEFINE r == call[reg]
    <2>1. /\ reg \in Calls /\ Ripe(r) /\ r.pc # "none" /\ (Spared(r) \/ Reached(r))
      BY <1>1, <1>3, AllRipe DEF IInv, Typed, AInv, Told
    <2>2. r # Unused
      BY <2>1 DEF Unused
    <2>3. CASE VertoMedia
      <3>1. Is(reg, OnMedia(r)) /\ remote' = "early"
        BY <1>3, <2>1, <2>3 DEF VertoMedia, ToRegistered, Is
      <3>2. Moves(r, OnMedia(r))
        BY <2>1, OnMediaMoves
      <3>3. call'[reg] = OnMedia(r)
        BY <2>1, <3>1 DEF Is, IInv, Typed
      <3>4. Told'
        BY <1>1, <2>1, <3>1, <3>2, <3>3 DEF Told, Moves, Same
      <3> QED
        BY <2>1, <2>2, <3>1, <3>2, <3>4, OneAsks DEF Moves
    <2>4. CASE VertoAnswer
      <3>1. Is(reg, OnAnswer(r)) /\ remote' = "answered"
        BY <1>3, <2>1, <2>4 DEF VertoAnswer, ToRegistered, Is
      <3>2. Asks(r, OnAnswer(r))
        BY <2>1, OnAnswerAsks
      <3>3. Told'
        BY <1>1, <3>1 DEF Told
      <3> QED
        BY <2>1, <2>2, <3>1, <3>2, <3>3, OneAsks
    <2> QED
      BY <2>3, <2>4
  <1> QED
    BY <1>2, <1>3

LEMMA DroppedAsks ==
  ASSUME IInv, SInv, AInv, OneAnswer, OldInv, ~down
  PROVE  \A c \in Calls :
           /\ Asks(call[c], Dropped[c]) /\ Ripe(Dropped[c])
           /\ Dropped[c].invites = call[c].invites
           /\ Dropped[c].state = "unused" => Dropped[c] = call[c]
  <1> SUFFICES ASSUME NEW c \in Calls
               PROVE  /\ Asks(call[c], Dropped[c]) /\ Ripe(Dropped[c])
                      /\ Dropped[c].invites = call[c].invites
                      /\ Dropped[c].state = "unused" => Dropped[c] = call[c]
    OBVIOUS
  <1>1. Ripe(call[c]) /\ Moves(call[c], call[c]) /\ Moves(call[c], Closed(call[c]))
    BY AllRipe, SameMoves, ClosedMoves
  <1>2. Dropped[c] = call[c] \/ Dropped[c] = Closed(call[c])
    BY DEF Dropped, HangupLocally, IInv, Typed
  <1>3. Sound(Dropped[c]) /\ Coming(Dropped[c]) /\ (NoRestarts => Once(Dropped[c]))
    BY DroppedEffect, DroppedFine DEF Fine
  <1>4. Fit(Dropped[c])
    BY <1>3 DEF Fit, Half, Sound, Coming
  <1>5. Closed(call[c]).invites = call[c].invites /\ Closed(call[c]).state = "destroy"
    BY <1>1 DEF Closed, Ripe, Fit, Half, CallType
  <1> QED
    BY <1>1, <1>2, <1>4, <1>5 DEF Moves, Asks, Ripe

LEMMA MediaRefusedAsks ==
  ASSUME IInv, SInv, AInv, OneAnswer, OldInv, ~down, NEW c \in Calls, MediaRefused(c)
  PROVE  AInv' /\ Invites
  <1> DEFINE r == call[c]
             s == Dropped[c]
             f == Negotiates([s EXCEPT !.media = "none"])
  <1>1. call' = [Dropped EXCEPT ![c] = f] /\ reg' = None /\ ~down'
    BY DEF MediaRefused, Dropped, Forgotten
  <1>2. Asks(r, s) /\ Ripe(s) /\ s.invites = r.invites /\ (s.state = "unused" => s = r)
    BY DroppedAsks
  <1>3. Moves(s, f)
    BY <1>2, NoStreamMoves
  <1>4. f.invites = s.invites /\ s.invites \in Nat /\ f.state = s.state
    BY <1>2 DEF Negotiates, Ripe, Fit, Half, CallType
  <1>5. Dropped \in [Calls -> CallType]
    BY DroppedEffect
  <1>6. Ripe(r) /\ r # Unused /\ r.state # "unused"
    BY AllRipe, UnusedRests DEF Browser
  <1> HIDE DEF f
  <1>7. Asks(r, f) /\ f.state # "unused"
    BY <1>2, <1>3, <1>4, <1>6 DEF Moves, Asks
  <1>8. /\ call'[c] = f
        /\ \A d \in Calls : d # c => call'[d] = Dropped[d]
    BY <1>1, <1>5
  <1>9. Told'
    BY <1>1 DEF Told
  <1> QED
    BY <1>7, <1>8, <1>9, DroppedAsks, AllAskKeeps DEF AllAsk

LEMMA VertoByeAsks ==
  ASSUME IInv, SInv, AInv, OneAnswer, OldInv, ~down, VertoBye
  PROVE  AInv' /\ Invites
  <1>1. call' = Dropped /\ reg' = None /\ ~down'
    BY DEF VertoBye, ToRegistered, Dropped, Forgotten, IInv, Typed
  <1>2. Told'
    BY <1>1 DEF Told
  <1> QED
    BY <1>1, <1>2, DroppedAsks, AllAskKeeps DEF AllAsk

(* A new object has asked for nothing.                                          *)
LEMMA NewIsRipe ==
  ASSUME OneAnswer, NEW v \in {"new", "ringing", "recovering"}, NEW s, s = [Unused EXCEPT !.state = v]
  PROVE  Ripe(s) /\ s.pc = "none" /\ s.invites = 0 /\ s.restarts = 0 /\ ~s.gotAnswer
         /\ s.state = v
  <1>1. s.type = "none" /\ s.srd = "none" /\ s.pc = "none" /\ s.invites = 0 /\ s.restarts = 0
        /\ ~s.gotAnswer /\ s.state = v
    BY DEF Unused
  <1>2. Fit(s)
    BY NewIsFit
  <1> QED
    BY <1>1, <1>2 DEF Ripe, Kept

LEMMA NewAsks ==
  ASSUME NEW c \in Calls, call[c] \in CallType, NEW s, Kept(s), s.invites = 0,
         s.state # "unused"
  PROVE  Asks(call[c], s)
  <1>1. call[c].invites \in Nat
    BY DEF CallType
  <1> QED
    BY <1>1 DEF Asks

LEMMA NewPeerIsKept ==
  ASSUME OneAnswer, NEW t \in {"offer", "answer"},
         NEW s, s = WithPeer([Unused EXCEPT !.state = "new"], t)
  PROVE  Kept(s) /\ s.invites = 0 /\ s.state = "new" /\ s.pc = "open"
         /\ (t = "offer" => Caller(s))
  <1> DEFINE n == [Unused EXCEPT !.state = "new"]
  <1>1. Ripe(n) /\ n.pc = "none" /\ n.invites = 0 /\ n.restarts = 0 /\ ~n.gotAnswer /\ n.state = "new"
    BY NewIsRipe
  <1> HIDE DEF n
  <1>2. Kept(WithPeer(n, t))
    BY <1>1, WithPeerMoves
  <1>3. LET w == WithPeer(n, t)
        IN  /\ w.invites = 0 /\ w.state = "new" /\ w.pc = "open" /\ w.type = t
            /\ w.restarts = 0 /\ ~w.gotAnswer
    BY <1>1 DEF WithPeer, Ripe, Fit, Half, CallType
  <1> QED
    BY <1>2, <1>3 DEF Caller, n

LEMMA VertoAttachAsks ==
  ASSUME IInv, SInv, AInv, OneAnswer, OldInv, ~down, VertoAttach
  PROVE  AInv' /\ Invites
  <1> DEFINE new       == WithPeer([Unused EXCEPT !.state = "new"], "answer")
             recovered == [Unused EXCEPT !.state = "recovering"]
  <1>1. PICK d \in Fresh : \/ call' = [Dropped EXCEPT ![d] = new]
                           \/ call' = [Dropped EXCEPT ![d] = recovered]
    BY DEF VertoAttach, Dropped
  <1>2. remote' = "answered" /\ ~down' /\ d \in Calls
    BY DEF VertoAttach, Fresh
  <1>3. /\ Kept(new) /\ new.invites = 0 /\ new.state # "unused"
        /\ Kept(recovered) /\ recovered.invites = 0 /\ recovered.state # "unused"
    BY NewPeerIsKept, NewIsRipe DEF Ripe
  <1> HIDE DEF new, recovered
  <1>4. Dropped \in [Calls -> CallType] /\ call[d] \in CallType
    BY <1>2, DroppedEffect DEF IInv, Typed
  <1>5. Asks(call[d], new) /\ Asks(call[d], recovered)
    BY <1>2, <1>3, <1>4, NewAsks
  <1>6. /\ call'[d] \in {new, recovered}
        /\ \A e \in Calls : e # d => call'[e] = Dropped[e]
    BY <1>1, <1>2, <1>4
  <1>7. Told'
    BY <1>2 DEF Told
  <1> QED
    BY <1>3, <1>5, <1>6, <1>7, DroppedAsks, AllAskKeeps DEF AllAsk

LEMMA InviteAsks ==
  ASSUME IInv, SInv, AInv, OneAnswer, OldInv, ~down, Invite \/ VertoInvite
  PROVE  AInv' /\ Invites
  <1> DEFINE new  == WithPeer([Unused EXCEPT !.state = "new"], "offer")
             rung == [Unused EXCEPT !.state = "ringing"]
  <1>1. PICK c \in Calls :
          /\ reg' = c
          /\ \/ Is(c, new) /\ remote' = "none"
             \/ Is(c, rung) /\ remote' = "ringing"
    BY DEF Invite, VertoInvite
  <1>2. Fresh = Calls /\ ~down'
    BY DEF Invite, VertoInvite
  <1>3. /\ Kept(new) /\ new.invites = 0 /\ new.state # "unused" /\ Caller(new) /\ new.pc = "open"
        /\ Kept(rung) /\ rung.invites = 0 /\ rung.state # "unused"
    BY NewPeerIsKept, NewIsRipe DEF Ripe
  <1> HIDE DEF new, rung
  <1>4. call[c] \in CallType /\ call \in [Calls -> CallType]
    BY DEF IInv, Typed
  <1>5. Asks(call[c], new) /\ Asks(call[c], rung)
    BY <1>3, <1>4, NewAsks
  <1>6. \A d \in Calls : call[d] = Unused /\ Asks(call[d], call[d])
    BY <1>2, AllRipe, SameMoves DEF Fresh, Moves
  <1>7. \A d \in Calls : d # c => call'[d] = call[d]
    BY <1>1, <1>4 DEF Is
  <1>8. \/ call'[c] = new /\ remote' = "none"
        \/ call'[c] = rung /\ remote' = "ringing"
    BY <1>1, <1>4 DEF Is
  <1>9. Told'
    BY <1>1, <1>2, <1>3, <1>6, <1>7, <1>8 DEF Told
  <1> QED
    BY <1>3, <1>5, <1>6, <1>7, <1>8, <1>9, AllAskKeeps DEF AllAsk

(* Once the session was disconnected nothing is registered any more.            *)
LEMMA DownStays ==
  ASSUME reg = None, down, Next
  PROVE  reg' = None /\ down'
  <1>1. CASE Invite \/ Disconnect \/ Server
    BY <1>1 DEF Invite, Disconnect, Server, VertoMedia, VertoAnswer, VertoBye, VertoInvite,
      VertoAttach
  <1>2. ASSUME NEW c \in Calls, User(c)
        PROVE  reg' = None /\ down'
    BY <1>2 DEF User, Answer, AnswerAgain, Hangup, Hold, RestartIce
  <1>3. ASSUME NEW c \in Calls, Browser(c)
        PROVE  reg' = None /\ down'
    <2>1. ASSUME Described(c) PROVE UNCHANGED <<reg, remote, down>>
      BY <2>1, Zenon DEF Described
    <2> QED
      BY <1>3, <2>1 DEF Browser, MediaGranted, MediaEmpty, MediaRefused, NegotiationNeeded,
        DescribeFailed, IceCandidate, IceGathered, IceTimeout, IceFailed, IceConnected,
        RemoteSet, RemoteRejected, Forgotten
  <1>4. ASSUME NEW c \in Calls, Settled(c)
        PROVE  reg' = None /\ down'
    BY <1>4 DEF Settled, InviteAnswered, AnswerAnswered, ModifyAnswered, HoldAnswered,
      ByeAnswered, ByeFailed, SetupFailed, ChangeFailed, Forgotten
  <1>5. ASSUME NEW c \in Calls, Old(c)
        PROVE  reg' = None /\ down'
    BY <1>5 DEF Old, OldMedia, OldRefused, OldDescribed, OldCandidate, OldGathered,
      OldTimeout, Forgotten
  <1> QED
    BY <1>1, <1>2, <1>3, <1>4, <1>5 DEF Next

LEMMA StepAsks ==
  ASSUME IInv, SInv, AInv, OneAnswer, OldInv, [Next]_vars
  PROVE  AInv' /\ Invites
  <1>1. CASE UNCHANGED vars
    <2>1. AInv'
      BY <1>1 DEF vars, AInv, Told
    <2>2. \A c \in Calls : call[c].invites \in Nat
      BY DEF IInv, Sound, CallType
    <2> QED
      BY <1>1, <2>1, <2>2 DEF vars, Invites
  <1>2. CASE down /\ Next
    <2>1. reg' = None /\ down'
      BY <1>2, DownStays DEF AInv, Told
    <2> QED
      BY <1>2, <2>1 DEF AInv, Told, Invites
  <1>3. CASE ~down /\ Next
    <2>1. CASE Disconnect
      <3>1. reg' = None /\ down'
        BY <2>1 DEF Disconnect
      <3>2. \A c \in Calls : call'[c].invites = call[c].invites /\ call[c].invites \in Nat
        <4>1. PICK dropped \in SUBSET Calls :
                call' = [c \in Calls |->
                           LET r == IF c \in dropped THEN [call[c] EXCEPT !.asked = Unused.asked]
                                                     ELSE call[c]
                           IN IF c = reg THEN HangupLocally(r) ELSE r]
          BY <2>1 DEF Disconnect
        <4>2. ASSUME NEW c \in Calls
              PROVE  call'[c].invites = call[c].invites /\ call[c].invites \in Nat
          <5> DEFINE d == [call[c] EXCEPT !.asked = Unused.asked]
                     r == IF c \in dropped THEN d ELSE call[c]
          <5>1. call[c] \in CallType
            BY DEF IInv, Sound
          <5>2. d.invites = call[c].invites /\ d \in CallType /\ call[c].invites \in Nat
            BY <5>1 DEF CallType, Unused
          <5> HIDE DEF d
          <5>3. r.invites = call[c].invites /\ r \in CallType
            BY <5>1, <5>2
          <5>4. call'[c] = IF c = reg THEN Closed(r) ELSE r
            BY <4>1 DEF HangupLocally, d
          <5> HIDE DEF r
          <5>5. Closed(r).invites = r.invites
            BY <5>3 DEF Closed, CallType
          <5> QED
            BY <5>2, <5>3, <5>4, <5>5
        <4> QED
          BY <4>2
      <3> QED
        BY <3>1, <3>2 DEF AInv, Told, Invites
    <2>2. CASE Invite \/ VertoInvite
      BY <1>3, <2>2, InviteAsks
    <2>3. CASE VertoMedia \/ VertoAnswer \/ VertoBye \/ VertoAttach
      BY <1>3, <2>3, MessageAsks, VertoByeAsks, VertoAttachAsks
    <2>4. ASSUME NEW c \in Calls, User(c)
          PROVE  AInv' /\ Invites
      BY <1>3, <2>4, UserAsks
    <2>5. ASSUME NEW c \in Calls, Browser(c)
          PROVE  AInv' /\ Invites
      BY <1>3, <2>5, MediaAsks, MediaRefusedAsks, IceAsks, RemoteAsks DEF Browser
    <2>6. ASSUME NEW c \in Calls, Settled(c)
          PROVE  AInv' /\ Invites
      BY <1>3, <2>6, InviteAnsweredAsks, AnswersAsk DEF Settled
    <2>7. \A c \in Calls : ~Old(c)
      BY DEF OldInv, Old, OldMedia, OldRefused, OldDescribed, OldCandidate, OldGathered,
        OldTimeout
    <2> QED
      BY <1>3, <2>1, <2>2, <2>3, <2>4, <2>5, <2>6, <2>7 DEF Next, Server
  <1> QED
    BY <1>1, <1>2, <1>3

LEMMA InitAsks == Init => AInv
  <1> SUFFICES ASSUME Init PROVE AInv
    OBVIOUS
  <1>1. /\ Unused.pc = "none" /\ Unused.type = "none" /\ Unused.srd = "none"
        /\ Unused.restarts = 0
    BY DEF Unused
  <1> QED
    BY <1>1 DEF Init, AInv, Told, Kept

(* Whether or not ICE is restarted, by the application or after a failure, and   *)
(* whatever order the server's messages, answers and failures come in: no second *)
(* verto.invite, and none for a call that was restarted, while the call is up;   *)
(* one goes out only once it has said goodbye (BaseCall._onIceSdp, restartIce).  *)
(* Stated where the application answers a call once.                             *)
THEOREM InvitedAgainAfterBye ==
  ASSUME OneAnswer
  PROVE  Spec => InvitesAgainAfterBye
  <1>1. Init => AInv
    BY InitAsks
  <1>2. IInv /\ SInv /\ OldInv /\ AInv /\ [Next]_vars => AInv' /\ [Invites]_vars
    BY StepAsks
  <1> QED
    BY <1>1, <1>2, SendingInvariance, PTL DEF Spec, InvitesAgainAfterBye, Invites
=============================================================================

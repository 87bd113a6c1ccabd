--------------------------- MODULE LocalMediaProofs ---------------------------
(* Proofs about LocalMedia, for any screen shares, tracks and device changes:  *)
(* its types, that what captures is held by its call and stops with it, and    *)
(* that mute reaches what is sent.  They rest on four facts that no run has to *)
(* state: only the call itself awaits Peer._init, a call that has no stream    *)
(* yet has nothing else either, a stream holds tracks of its own call only,    *)
(* and the sender of a kind carries a track of that kind.                      *)
EXTENDS LocalMedia, TLAPS

(* A screen share is given its stream: it never awaits one.                    *)
MainOnly ==
  /\ phase[main] # "unused"
  /\ \A c \in Calls : media[c] => c = main

(* Before its stream a call sends nothing, and no device of it is changed.     *)
Blank ==
  \A c \in Calls :
    /\ media[c] \/ phase[c] = "unused" =>
         /\ stream[c] = {}
         /\ sender[c] = NoSender
         /\ \A k \in Kinds : change[c][k] = 0
    /\ phase[c] = "unused" => wish[c] = {}

Owned == \A c \in Calls : \A t \in stream[c] : tracks[t].of = c

SenderKind ==
  \A c \in Calls, k \in Kinds : sender[c][k] # 0 => tracks[sender[c][k]].kind = k

IInv ==
  /\ TypeOK /\ MainOnly /\ Blank /\ Owned /\ SenderKind
  /\ HeldIsAll /\ EndStopsAll /\ MuteLasts

------------------------------------------------------------------------------
(* Tracks are only added.                                                    *)

LEMMA Grows ==
  ASSUME NEW s \in Seq(Track), NEW f \in Seq(Track)
  PROVE  /\ s \o f \in Seq(Track)
         /\ Len(s \o f) = Len(s) + Len(f)
         /\ DOMAIN (s \o f) = DOMAIN s \cup (Len(s) + 1 .. Len(s) + Len(f))
         /\ \A i \in DOMAIN s : (s \o f)[i] = s[i]
         /\ \A i \in DOMAIN f : (s \o f)[Len(s) + i] = f[i]
  <1>1. Len(s) \in Nat /\ Len(f) \in Nat
    OBVIOUS
  <1> QED BY <1>1

LEMMA GrowsByOne ==
  ASSUME NEW s \in Seq(Track), NEW e \in Track
  PROVE  /\ Append(s, e) \in Seq(Track)
         /\ Len(Append(s, e)) = Len(s) + 1
         /\ DOMAIN Append(s, e) = DOMAIN s \cup {Len(s) + 1}
         /\ \A i \in DOMAIN s : Append(s, e)[i] = s[i]
         /\ Append(s, e)[Len(s) + 1] = e
         /\ Len(s) + 1 \notin DOMAIN s
         /\ Len(s) + 1 # 0
  <1>1. Len(s) \in Nat
    OBVIOUS
  <1> QED BY <1>1

LEMMA GivenIsTrack ==
  ASSUME NEW k \in Kinds, NEW c \in Calls
  PROVE  Given(k, c) \in Track
  BY DEF Given, Track

LEMMA TrackFields ==
  ASSUME TypeOK
  PROVE  \A t \in DOMAIN tracks : tracks[t].of \in Calls /\ tracks[t].kind \in Kinds
  <1>1. ASSUME NEW t \in DOMAIN tracks PROVE tracks[t] \in Track
    BY DEF TypeOK
  <1> QED BY <1>1 DEF Track

(* Closing connections only empties senders.                                 *)
LEMMA ClosedSenders ==
  ASSUME TypeOK, NEW C, Finalize(C)
  PROVE  /\ sender' \in [Calls -> [Kinds -> {0} \cup DOMAIN tracks]]
         /\ \A d \in Calls : sender'[d] = sender[d] \/ sender'[d] = NoSender
  <1>1. NoSender \in [Kinds -> {0} \cup DOMAIN tracks]
    BY DEF NoSender
  <1>2. sender \in [Calls -> [Kinds -> {0} \cup DOMAIN tracks]]
    BY DEF TypeOK
  <1>3. sender' = [d \in Calls |-> IF d \in C THEN NoSender ELSE sender[d]]
    BY DEF Finalize
  <1> QED BY <1>1, <1>2, <1>3

LEMMA InitInv == Init => IInv
  <1> SUFFICES ASSUME Init PROVE IInv
    OBVIOUS
  <1> USE NoneAssumption, BoundAssumption DEF Init, Calls, Kinds
  <1>1. TypeOK
    BY DEF TypeOK, Phases
  <1>2. MainOnly /\ Blank /\ Owned /\ SenderKind
    BY DEF MainOnly, Blank, Owned, SenderKind, NoSender
  <1>3. HeldIsAll /\ EndStopsAll /\ MuteLasts
    BY DEF HeldIsAll, EndStopsAll, MuteLasts
  <1> QED BY <1>1, <1>2, <1>3 DEF IInv

------------------------------------------------------------------------------
(* Hanging up.                                                               *)

(* Whatever else is as before, hanging a call up, which never makes a call    *)
(* unused again, keeps the invariant; the peer may stop awaiting its stream.  *)
LEMMA HangUpKeeps ==
  ASSUME IInv, NEW c \in Calls, NEW execute \in BOOLEAN, HangUp(c, execute),
         media' \in [Calls -> BOOLEAN], \A d \in Calls : media'[d] => media[d],
         UNCHANGED <<change, display, share, stream, tracks, muted, wish>>
  PROVE  IInv'
  <1> USE DEF IInv
  <1>0. /\ phase' \in [Calls -> Phases]
        /\ \A d \in Calls : phase'[d] = "unused" => phase[d] = "unused"
        /\ \A d \in Calls : phase'[d] = "up" => phase[d] = "up" /\ d \notin HungUp(c)
        /\ \A d \in Calls : d \notin HungUp(c) => phase'[d] = phase[d]
    BY DEF HangUp, TypeOK, Phases
  <1>1. /\ live' \subseteq live
        /\ \A t \in live' : phase'[tracks[t].of] = "destroyed" =>
             phase[tracks[t].of] = "destroyed"
    <2>1. CASE execute
      <3>1. \A t \in live : tracks[t].of \in Calls
        BY TrackFields DEF TypeOK
      <3> QED BY <2>1, <3>1 DEF HangUp, TypeOK
    <2>2. CASE ~execute
      <3>1. live' = Stopped(HungUp(c))
        BY <2>2 DEF HangUp, Finalize
      <3>2. \A t \in live' : t \in live /\ tracks[t].of \in Calls
        BY <3>1, TrackFields DEF Stopped, TypeOK
      <3>3. \A t \in live' : tracks[t].of \notin HungUp(c)
        <4>1. \A t \in live : t \in stream[tracks[t].of]
          BY DEF HeldIsAll
        <4> QED BY <3>1, <3>2, <4>1 DEF Stopped
      <3> QED BY <1>0, <3>1, <3>2, <3>3
    <2> QED BY <2>1, <2>2
  <1>2. /\ sender' \in [Calls -> [Kinds -> {0} \cup DOMAIN tracks]]
        /\ \A d \in Calls : sender'[d] = sender[d] \/ sender'[d] = NoSender
    <2>1. CASE execute
      BY <2>1 DEF HangUp, TypeOK
    <2>2. CASE ~execute
      BY <2>2, ClosedSenders DEF HangUp
    <2> QED BY <2>1, <2>2
  <1>3. TypeOK'
    BY <1>0, <1>1, <1>2 DEF TypeOK
  <1>4. MainOnly' /\ Blank' /\ Owned'
    BY <1>0, <1>2 DEF MainOnly, Blank, Owned, Calls
  <1>5. \A d \in Calls, k \in Kinds : sender'[d][k] # 0 => sender'[d][k] = sender[d][k]
    BY <1>2 DEF NoSender
  <1>6. SenderKind' /\ MuteLasts'
    BY <1>5 DEF SenderKind, MuteLasts
  <1>7. HeldIsAll'
    BY <1>1, <1>5 DEF HeldIsAll
  <1>8. EndStopsAll'
    <2>1. \A t \in live' : phase'[tracks[t].of] = "destroyed" => tracks[t].late
      BY <1>1 DEF EndStopsAll
    <2>2. ASSUME share # None, phase'[share] = "up", phase'[main] # "up"
          PROVE  phase[share] = "up" /\ phase[main] # "up"
      <3>1. share \in Calls /\ share # main /\ main \in Calls
        BY <2>2, NoneAssumption DEF TypeOK, Calls
      <3>2. share \notin HungUp(c)
        BY <1>0, <2>2, <3>1
      <3>3. main \notin HungUp(c)
        BY <2>2, <3>1, <3>2 DEF HungUp
      <3> QED BY <1>0, <2>2, <3>1, <3>3
    <2> QED BY <2>1, <2>2 DEF EndStopsAll
  <1> QED BY <1>3, <1>4, <1>6, <1>7, <1>8

LEMMA ByeKeeps ==
  ASSUME IInv, NEW c \in Calls, ByeSettled(c)
  PROVE  IInv'
  <1> USE DEF IInv, ByeSettled
  <1>0. /\ phase' \in [Calls -> Phases]
        /\ \A d \in Calls : d # c => phase'[d] = phase[d]
        /\ phase'[c] = "destroyed" /\ phase[c] = "hanging"
    BY DEF TypeOK, Phases
  <1>1. live' \subseteq live /\ \A t \in live' : tracks[t].of \in Calls \ {c}
    <2>1. live' = live \ stream[c]
      BY DEF Finalize, Stopped
    <2>2. \A t \in live : tracks[t].of \in Calls /\ t \in stream[tracks[t].of]
      BY TrackFields DEF TypeOK, HeldIsAll
    <2> QED BY <2>1, <2>2
  <1>2. /\ sender' \in [Calls -> [Kinds -> {0} \cup DOMAIN tracks]]
        /\ \A d \in Calls : sender'[d] = sender[d] \/ sender'[d] = NoSender
    BY ClosedSenders
  <1>3. TypeOK'
    BY <1>0, <1>1, <1>2 DEF TypeOK
  <1>4. MainOnly' /\ Blank' /\ Owned'
    BY <1>0, <1>2 DEF MainOnly, Blank, Owned, Calls
  <1>5. \A d \in Calls, k \in Kinds : sender'[d][k] # 0 => sender'[d][k] = sender[d][k]
    BY <1>2 DEF NoSender
  <1>6. SenderKind' /\ MuteLasts'
    BY <1>5 DEF SenderKind, MuteLasts
  <1>7. HeldIsAll'
    BY <1>1, <1>5 DEF HeldIsAll
  <1>8. EndStopsAll'
    <2>1. \A t \in live' : phase'[tracks[t].of] = "destroyed" => tracks[t].late
      BY <1>0, <1>1 DEF EndStopsAll
    <2>2. ASSUME share # None, phase'[share] = "up", phase'[main] # "up"
          PROVE  phase[share] = "up" /\ phase[main] # "up"
      BY <1>0, <2>2 DEF TypeOK, Calls
    <2> QED BY <2>1, <2>2 DEF EndStopsAll
  <1> QED BY <1>3, <1>4, <1>6, <1>7, <1>8

LEMMA RefusedKeeps ==
  ASSUME IInv, NEW c \in Calls, MediaRefused(c)
  PROVE  IInv'
  <1> USE DEF MediaRefused
  <1>1. media' \in [Calls -> BOOLEAN] /\ \A d \in Calls : media'[d] => media[d]
    BY DEF IInv, TypeOK
  <1>2. CASE phase[c] # "destroyed"
    BY <1>1, <1>2, HangUpKeeps
  <1>3. CASE phase[c] = "destroyed"
    <2>1. TypeOK'
      BY <1>1, <1>3 DEF IInv, TypeOK
    <2>2. MainOnly' /\ Blank' /\ Owned' /\ SenderKind'
      BY <1>1, <1>3 DEF IInv, MainOnly, Blank, Owned, SenderKind
    <2>3. HeldIsAll' /\ EndStopsAll' /\ MuteLasts'
      BY <1>3 DEF IInv, HeldIsAll, EndStopsAll, MuteLasts
    <2> QED BY <2>1, <2>2, <2>3 DEF IInv
  <1> QED BY <1>2, <1>3

------------------------------------------------------------------------------
(* Asking for a device, and mute.                                            *)

(* Only what is awaited changes.                                             *)
LEMMA AskingKeeps ==
  ASSUME IInv,
         change' \in [Calls -> [Kinds -> 0 .. MaxAsked]], display' \in 0 .. MaxAsked,
         \A c \in Calls, k \in Kinds : change'[c][k] # 0 =>
           change[c][k] # 0 \/ sender[c] # NoSender,
         UNCHANGED <<phase, media, share, stream, sender, tracks, live, muted, wish>>
  PROVE  IInv'
  <1>1. TypeOK'
    BY DEF IInv, TypeOK
  <1>2. Blank'
    BY DEF IInv, Blank
  <1>3. MainOnly' /\ Owned' /\ SenderKind' /\ HeldIsAll' /\ EndStopsAll' /\ MuteLasts'
    BY DEF IInv, MainOnly, Owned, SenderKind, HeldIsAll, EndStopsAll, MuteLasts
  <1> QED BY <1>1, <1>2, <1>3 DEF IInv

LEMMA ChangeDeviceKeeps ==
  ASSUME IInv, NEW c \in Calls, NEW k \in Kinds, ChangeDevice(c, k)
  PROVE  IInv'
  <1>1. change \in [Calls -> [Kinds -> 0 .. MaxAsked]] /\ display \in 0 .. MaxAsked
    BY DEF IInv, TypeOK
  <1>2. change[c][k] + 1 \in 0 .. MaxAsked
    BY <1>1, BoundAssumption DEF ChangeDevice
  <1>3. change' \in [Calls -> [Kinds -> 0 .. MaxAsked]]
    BY <1>1, <1>2 DEF ChangeDevice
  <1>4. sender[c] # NoSender
    BY DEF ChangeDevice, NoSender
  <1>5. \A d \in Calls, j \in Kinds :
          change'[d][j] # 0 => change[d][j] # 0 \/ sender[d] # NoSender
    BY <1>1, <1>4 DEF ChangeDevice
  <1>6. UNCHANGED <<phase, media, display, share, stream, sender, tracks, live, muted, wish>>
    BY DEF ChangeDevice
  <1> QED BY <1>1, <1>3, <1>5, <1>6, AskingKeeps

LEMMA DeviceRefusedKeeps ==
  ASSUME IInv, NEW c \in Calls, NEW k \in Kinds, DeviceRefused(c, k)
  PROVE  IInv'
  <1>1. change \in [Calls -> [Kinds -> 0 .. MaxAsked]] /\ display \in 0 .. MaxAsked
    BY DEF IInv, TypeOK
  <1>2. change[c][k] - 1 \in 0 .. MaxAsked /\ change[c][k] # 0
    BY <1>1, BoundAssumption DEF DeviceRefused
  <1>3. change' \in [Calls -> [Kinds -> 0 .. MaxAsked]]
    BY <1>1, <1>2 DEF DeviceRefused
  <1>4. \A d \in Calls, j \in Kinds :
          change'[d][j] # 0 => change[d][j] # 0 \/ sender[d] # NoSender
    BY <1>1, <1>2 DEF DeviceRefused
  <1>5. UNCHANGED <<phase, media, display, share, stream, sender, tracks, live, muted, wish>>
    BY DEF DeviceRefused
  <1> QED BY <1>1, <1>3, <1>4, <1>5, AskingKeeps

LEMMA StartShareKeeps == IInv /\ StartScreenShare => IInv'
  <1> SUFFICES ASSUME IInv, StartScreenShare PROVE IInv'
    OBVIOUS
  <1>1. display \in 0 .. MaxAsked /\ change \in [Calls -> [Kinds -> 0 .. MaxAsked]]
    BY DEF IInv, TypeOK
  <1>2. display' \in 0 .. MaxAsked
    BY <1>1, BoundAssumption DEF StartScreenShare
  <1> QED BY <1>1, <1>2, AskingKeeps DEF StartScreenShare

LEMMA ShareRefusedKeeps == IInv /\ ShareRefused => IInv'
  <1> SUFFICES ASSUME IInv, ShareRefused PROVE IInv'
    OBVIOUS
  <1>1. display \in 0 .. MaxAsked /\ change \in [Calls -> [Kinds -> 0 .. MaxAsked]]
    BY DEF IInv, TypeOK
  <1>2. display' \in 0 .. MaxAsked
    BY <1>1, BoundAssumption DEF ShareRefused
  <1> QED BY <1>1, <1>2, AskingKeeps DEF ShareRefused

(* What a call sends of one kind is reached by the mute of that kind, and by  *)
(* no other: it is in the call's own stream.                                  *)
LEMMA ReachIsExact ==
  ASSUME IInv, NEW c \in Calls, NEW k \in Kinds,
         NEW d \in Calls, NEW j \in Kinds, sender[d][j] # 0
  PROVE  sender[d][j] \in Reaches(c, k) <=> (c = d /\ k = j)
  <1>1. /\ sender[d][j] \in DOMAIN tracks
        /\ sender[d][j] \in stream[d]
        /\ tracks[sender[d][j]].kind = j
        /\ tracks[sender[d][j]].of = d
    BY DEF IInv, TypeOK, HeldIsAll, SenderKind, Owned
  <1>2. sender[d][j] \in stream[c] => tracks[sender[d][j]].of = c
    BY DEF IInv, Owned
  <1> QED BY <1>1, <1>2 DEF Reaches, OfKind

(* Muting and unmuting one kind of one call.                                  *)
LEMMA MutingKeeps ==
  ASSUME IInv, NEW c \in Calls, NEW k \in Kinds, NEW W \in SUBSET Kinds,
         Mutable(c, k),
         wish' = [wish EXCEPT ![c] = W],
         W \ {k} = wish[c] \ {k},
         muted' \subseteq DOMAIN tracks,
         \A t \in DOMAIN tracks : t \notin Reaches(c, k) => (t \in muted' <=> t \in muted),
         \A t \in Reaches(c, k) :
           (t \in muted <=> k \in wish[c]) => (t \in muted' <=> k \in W),
         UNCHANGED <<callVars, stream, sender, tracks, live>>
  PROVE  IInv'
  <1> USE DEF callVars
  <1>1. TypeOK'
    BY DEF IInv, TypeOK
  <1>2. Blank'
    <2>1. phase[c] # "unused"
      BY DEF Mutable, Reaches, IInv, Blank, MainOnly
    <2> QED BY <2>1 DEF IInv, Blank, TypeOK
  <1>3. MuteLasts'
    <2> SUFFICES ASSUME NEW d \in Calls, NEW j \in Kinds, sender[d][j] # 0
                 PROVE  sender[d][j] \in muted' <=> j \in wish'[d]
      BY DEF MuteLasts
    <2>1. /\ sender[d][j] \in DOMAIN tracks
          /\ sender[d][j] \in muted <=> j \in wish[d]
          /\ wish \in [Calls -> SUBSET Kinds]
      BY DEF IInv, TypeOK, MuteLasts
    <2>2. CASE c = d /\ k = j
      <3>1. sender[d][j] \in Reaches(c, k)
        BY <2>2, ReachIsExact
      <3> QED BY <2>1, <2>2, <3>1
    <2>3. CASE ~(c = d /\ k = j)
      <3>1. sender[d][j] \notin Reaches(c, k)
        BY <2>3, ReachIsExact
      <3>2. j \in wish'[d] <=> j \in wish[d]
        BY <2>1, <2>3
      <3> QED BY <2>1, <3>1, <3>2
    <2> QED BY <2>2, <2>3
  <1>4. MainOnly' /\ Owned' /\ SenderKind' /\ HeldIsAll' /\ EndStopsAll'
    BY DEF IInv, MainOnly, Owned, SenderKind, HeldIsAll, EndStopsAll
  <1> QED BY <1>1, <1>2, <1>3, <1>4 DEF IInv

LEMMA ReachIsTracks ==
  ASSUME TypeOK, NEW c \in Calls, NEW k
  PROVE  Reaches(c, k) \subseteq DOMAIN tracks
  BY DEF TypeOK, Reaches

LEMMA MuteKeeps ==
  ASSUME IInv, NEW c \in Calls, NEW k \in Kinds, NEW on \in BOOLEAN, Mute(c, k, on)
  PROVE  IInv'
  <1> DEFINE W == IF on THEN wish[c] \cup {k} ELSE wish[c] \ {k}
  <1>1. wish \in [Calls -> SUBSET Kinds] /\ muted \subseteq DOMAIN tracks
    BY DEF IInv, TypeOK
  <1>2. W \in SUBSET Kinds /\ W \ {k} = wish[c] \ {k} /\ (k \in W <=> on)
    BY <1>1
  <1>3. wish' = [wish EXCEPT ![c] = W]
    BY DEF Mute
  <1>4. muted' = IF on THEN muted \cup Reaches(c, k) ELSE muted \ Reaches(c, k)
    BY DEF Mute
  <1>5. Reaches(c, k) \subseteq DOMAIN tracks
    BY ReachIsTracks DEF IInv
  <1>6. /\ muted' \subseteq DOMAIN tracks
        /\ \A t \in DOMAIN tracks : t \notin Reaches(c, k) => (t \in muted' <=> t \in muted)
        /\ \A t \in Reaches(c, k) : t \in muted' <=> k \in W
    BY <1>1, <1>2, <1>4, <1>5
  <1>7. Mutable(c, k) /\ UNCHANGED <<callVars, stream, sender, tracks, live>>
    BY DEF Mute
  <1> HIDE DEF W
  <1> QED BY <1>2, <1>3, <1>6, <1>7, MutingKeeps

LEMMA ToggleKeeps ==
  ASSUME IInv, NEW c \in Calls, NEW k \in Kinds, ToggleMute(c, k)
  PROVE  IInv'
  <1> DEFINE W == IF k \in wish[c] THEN wish[c] \ {k} ELSE wish[c] \cup {k}
  <1>1. wish \in [Calls -> SUBSET Kinds] /\ muted \subseteq DOMAIN tracks
    BY DEF IInv, TypeOK
  <1>2. W \in SUBSET Kinds /\ W \ {k} = wish[c] \ {k} /\ (k \in W <=> k \notin wish[c])
    BY <1>1
  <1>3. wish' = [wish EXCEPT ![c] = W]
    BY DEF ToggleMute
  <1>4. muted' = (muted \ Reaches(c, k)) \cup (Reaches(c, k) \ muted)
    BY DEF ToggleMute
  <1>5. Reaches(c, k) \subseteq DOMAIN tracks
    BY ReachIsTracks DEF IInv
  <1>6. /\ muted' \subseteq DOMAIN tracks
        /\ \A t \in DOMAIN tracks : t \notin Reaches(c, k) => (t \in muted' <=> t \in muted)
        /\ \A t \in Reaches(c, k) : t \in muted' <=> t \notin muted
    BY <1>1, <1>4, <1>5
  <1>7. Mutable(c, k) /\ UNCHANGED <<callVars, stream, sender, tracks, live>>
    BY DEF ToggleMute
  <1>8. \A t \in Reaches(c, k) :
          (t \in muted <=> k \in wish[c]) => (t \in muted' <=> k \in W)
    BY <1>2, <1>6
  <1> HIDE DEF W
  <1> QED BY <1>2, <1>3, <1>6, <1>7, <1>8, MutingKeeps

------------------------------------------------------------------------------
(* The browser gives tracks, and ends them.                                  *)

LEMMA DeviceChangedKeeps ==
  ASSUME IInv, NEW c \in Calls, NEW k \in Kinds, DeviceChanged(c, k)
  PROVE  IInv'
  <1> DEFINE n == NextTrack
  <1> USE DEF IInv
  <1>1. /\ tracks \in Seq(Track) /\ Given(k, c) \in Track
        /\ tracks' = Append(tracks, Given(k, c)) /\ n = Len(tracks) + 1
    BY GivenIsTrack DEF DeviceChanged, TypeOK, NextTrack
  <1>2. /\ tracks' \in Seq(Track) /\ Len(tracks') <= MaxTracks
        /\ DOMAIN tracks' = DOMAIN tracks \cup {n} /\ n \notin DOMAIN tracks /\ n # 0
        /\ \A t \in DOMAIN tracks : tracks'[t] = tracks[t]
        /\ tracks'[n].kind = k /\ tracks'[n].of = c
        /\ tracks'[n].late = (phase[c] = "destroyed")
    BY <1>1, GrowsByOne DEF DeviceChanged, Given
  <1>3. /\ stream' = [stream EXCEPT ![c] = {n} \cup (stream[c] \ OfKind(k))]
        /\ live' = (live \ (stream[c] \cap OfKind(k))) \cup {n}
        /\ muted' = muted \ (stream[c] \cap OfKind(k))
        /\ wish' = [wish EXCEPT ![c] = @ \ {k}]
        /\ sender' = IF sender[c][k] = 0 THEN sender ELSE [sender EXCEPT ![c][k] = n]
        /\ change' = [change EXCEPT ![c][k] = @ - 1]
        /\ change[c][k] > 0
        /\ UNCHANGED <<phase, media, display, share>>
    BY DEF DeviceChanged, Renewed
  <1> HIDE DEF n
  <1>4. /\ stream \in [Calls -> SUBSET DOMAIN tracks]
        /\ sender \in [Calls -> [Kinds -> {0} \cup DOMAIN tracks]]
        /\ change \in [Calls -> [Kinds -> 0 .. MaxAsked]]
        /\ live \subseteq DOMAIN tracks /\ muted \subseteq DOMAIN tracks
        /\ wish \in [Calls -> SUBSET Kinds]
    BY DEF TypeOK
  <1>5. OfKind(k) = {t \in DOMAIN tracks : tracks[t].kind = k}
    BY DEF OfKind
  <1>6. TypeOK'
    <2>1. change[c][k] - 1 \in 0 .. MaxAsked
      BY <1>3, <1>4, BoundAssumption
    <2>2. change' \in [Calls -> [Kinds -> 0 .. MaxAsked]]
      BY <1>3, <1>4, <2>1
    <2>3. stream' \in [Calls -> SUBSET DOMAIN tracks']
      BY <1>2, <1>3, <1>4
    <2>4. sender' \in [Calls -> [Kinds -> {0} \cup DOMAIN tracks']]
      BY <1>2, <1>3, <1>4
    <2>5. live' \subseteq DOMAIN tracks' /\ muted' \subseteq DOMAIN tracks'
      BY <1>2, <1>3, <1>4
    <2>6. wish' \in [Calls -> SUBSET Kinds]
      BY <1>3, <1>4
    <2> QED BY <1>2, <1>3, <2>2, <2>3, <2>4, <2>5, <2>6 DEF TypeOK
  <1>7. MainOnly' /\ Blank'
    <2>1. change[c][k] # 0
      BY <1>3, <1>4
    <2>2. ~(media[c] \/ phase[c] = "unused")
      BY <2>1 DEF Blank
    <2>3. \A d \in Calls : d # c =>
            /\ stream'[d] = stream[d] /\ sender'[d] = sender[d]
            /\ wish'[d] = wish[d] /\ change'[d] = change[d]
      BY <1>3, <1>4
    <2> QED BY <1>3, <2>2, <2>3 DEF MainOnly, Blank
  <1>8. Owned'
    BY <1>2, <1>3, <1>4 DEF Owned
  <1>9. \A d \in Calls, j \in Kinds : sender'[d][j] # 0 =>
          \/ d = c /\ j = k /\ sender'[d][j] = n /\ sender[d][j] # 0
          \/ /\ ~(d = c /\ j = k) /\ sender'[d][j] = sender[d][j]
             /\ sender[d][j] \in DOMAIN tracks
    BY <1>3, <1>4
  <1>10. SenderKind'
    BY <1>2, <1>9 DEF SenderKind
  <1>11. \A d \in Calls, j \in Kinds : sender[d][j] # 0 /\ ~(d = c /\ j = k) =>
           /\ sender[d][j] \in DOMAIN tracks
           /\ sender[d][j] \in stream[d]
           /\ sender[d][j] \notin stream[c] \cap OfKind(k)
    BY <1>4, <1>5, ReachIsExact DEF HeldIsAll, Reaches
  <1>12. HeldIsAll'
    <2>1. ASSUME NEW t \in live' PROVE t \in stream'[tracks'[t].of]
      <3>1. CASE t = n
        BY <1>2, <1>3, <1>4, <3>1
      <3>2. CASE t # n
        <4>1. /\ t \in live /\ t \in DOMAIN tracks /\ tracks'[t] = tracks[t]
              /\ t \notin stream[c] \cap OfKind(k)
          BY <1>2, <1>3, <1>4, <3>2
        <4>2. t \in stream[tracks[t].of] /\ tracks[t].of \in Calls
          BY <4>1, TrackFields DEF HeldIsAll
        <4>3. CASE tracks[t].of = c
          BY <1>3, <1>4, <4>1, <4>2, <4>3
        <4>4. CASE tracks[t].of # c
          BY <1>3, <1>4, <4>1, <4>2, <4>4
        <4> QED BY <4>3, <4>4
      <3> QED BY <3>1, <3>2
    <2>2. ASSUME NEW d \in Calls, NEW j \in Kinds, sender'[d][j] # 0
          PROVE  sender'[d][j] \in stream'[d]
      <3>1. CASE d = c /\ j = k
        BY <1>3, <1>4, <1>9, <2>2, <3>1
      <3>2. CASE ~(d = c /\ j = k)
        <4>1. sender'[d][j] = sender[d][j] /\ sender[d][j] # 0
          BY <1>9, <2>2, <3>2
        <4>2. sender[d][j] \in stream[d] /\ sender[d][j] \notin stream[c] \cap OfKind(k)
          BY <1>11, <3>2, <4>1
        <4>3. CASE d = c
          BY <1>3, <1>4, <4>1, <4>2, <4>3
        <4>4. CASE d # c
          BY <1>3, <1>4, <4>1, <4>2, <4>4
        <4> QED BY <4>3, <4>4
      <3> QED BY <3>1, <3>2
    <2> QED BY <2>1, <2>2 DEF HeldIsAll
  <1>13. MuteLasts'
    <2> SUFFICES ASSUME NEW d \in Calls, NEW j \in Kinds, sender'[d][j] # 0
                 PROVE  sender'[d][j] \in muted' <=> j \in wish'[d]
      BY DEF MuteLasts
    <2>1. CASE d = c /\ j = k
      BY <1>2, <1>3, <1>4, <1>9, <2>1
    <2>2. CASE ~(d = c /\ j = k)
      <3>1. sender'[d][j] = sender[d][j] /\ sender[d][j] # 0
        BY <1>9, <2>2
      <3>2. sender[d][j] \in muted' <=> sender[d][j] \in muted
        BY <1>3, <1>11, <2>2, <3>1
      <3>3. j \in wish'[d] <=> j \in wish[d]
        BY <1>3, <1>4, <2>2
      <3> QED BY <3>1, <3>2, <3>3 DEF MuteLasts
    <2> QED BY <2>1, <2>2
  <1>14. EndStopsAll'
    <2>1. ASSUME NEW t \in live', phase'[tracks'[t].of] = "destroyed" PROVE tracks'[t].late
      BY <1>2, <1>3, <1>4, <2>1 DEF EndStopsAll
    <2>2. ASSUME share' # None, phase'[share'] = "up", phase'[main] # "up"
          PROVE  \E t \in DOMAIN tracks' :
                   tracks'[t].of = share' /\ tracks'[t].display /\ tracks'[t].late
      BY <1>2, <1>3, <2>2 DEF EndStopsAll
    <2> QED BY <2>1, <2>2 DEF EndStopsAll
  <1> QED BY <1>6, <1>7, <1>8, <1>10, <1>12, <1>13, <1>14

LEMMA ScreenSharedKeeps ==
  ASSUME IInv, NEW s \in Shares, ScreenShared(s)
  PROVE  IInv'
  <1> DEFINE n == NextTrack
             e == [kind |-> "video", of |-> s, display |-> TRUE, late |-> phase[main] # "up"]
  <1> USE DEF IInv
  <1>0. s \in Calls /\ main \in Calls /\ s # main /\ s # None /\ "video" \in Kinds
    BY NoneAssumption DEF Calls, Kinds
  <1>1. /\ tracks \in Seq(Track) /\ e \in Track
        /\ tracks' = Append(tracks, e) /\ n = Len(tracks) + 1
    BY <1>0 DEF ScreenShared, TypeOK, NextTrack, Track
  <1>2. /\ tracks' \in Seq(Track) /\ Len(tracks') <= MaxTracks
        /\ DOMAIN tracks' = DOMAIN tracks \cup {n} /\ n \notin DOMAIN tracks /\ n # 0
        /\ \A t \in DOMAIN tracks : tracks'[t] = tracks[t]
        /\ tracks'[n].kind = "video" /\ tracks'[n].of = s /\ tracks'[n].display
        /\ tracks'[n].late = (phase[main] # "up")
    BY <1>1, GrowsByOne DEF ScreenShared
  <1>3. /\ stream' = [stream EXCEPT ![s] = {n}]
        /\ live' = live \cup {n}
        /\ sender' = [sender EXCEPT ![s]["video"] = n]
        /\ phase[s] = "unused" /\ phase' = [phase EXCEPT ![s] = "up"]
        /\ share' = s /\ display > 0 /\ display' = display - 1
        /\ UNCHANGED <<media, change, muted, wish>>
    BY DEF ScreenShared
  <1> HIDE DEF n, e
  <1>4. /\ stream \in [Calls -> SUBSET DOMAIN tracks]
        /\ sender \in [Calls -> [Kinds -> {0} \cup DOMAIN tracks]]
        /\ live \subseteq DOMAIN tracks /\ muted \subseteq DOMAIN tracks
        /\ phase \in [Calls -> Phases] /\ display \in 0 .. MaxAsked
    BY DEF TypeOK
  <1>5. stream[s] = {} /\ sender[s] = NoSender /\ wish[s] = {}
    BY <1>0, <1>3 DEF Blank
  <1>6. TypeOK'
    <2>1. display' \in 0 .. MaxAsked
      BY <1>3, <1>4, BoundAssumption
    <2>2. phase' \in [Calls -> Phases]
      BY <1>3, <1>4 DEF Phases
    <2>3. stream' \in [Calls -> SUBSET DOMAIN tracks']
      BY <1>2, <1>3, <1>4
    <2>4. sender' \in [Calls -> [Kinds -> {0} \cup DOMAIN tracks']]
      BY <1>0, <1>2, <1>3, <1>4
    <2>5. live' \subseteq DOMAIN tracks' /\ muted' \subseteq DOMAIN tracks'
      BY <1>2, <1>3, <1>4
    <2> QED BY <1>2, <1>3, <2>1, <2>2, <2>3, <2>4, <2>5 DEF TypeOK
  <1>7. MainOnly' /\ Blank'
    <2>1. phase'[s] = "up" /\ ~media[s]
      BY <1>0, <1>3, <1>4 DEF MainOnly
    <2>2. \A d \in Calls : d # s =>
            stream'[d] = stream[d] /\ sender'[d] = sender[d] /\ phase'[d] = phase[d]
      BY <1>3, <1>4
    <2> QED BY <1>0, <1>3, <2>1, <2>2 DEF MainOnly, Blank
  <1>8. Owned'
    BY <1>2, <1>3, <1>4 DEF Owned
  <1>9. \A d \in Calls, j \in Kinds : sender'[d][j] # 0 =>
          \/ d = s /\ j = "video" /\ sender'[d][j] = n
          \/ d # s /\ sender'[d][j] = sender[d][j] /\ sender[d][j] \in DOMAIN tracks
    BY <1>3, <1>4, <1>5 DEF NoSender
  <1>10. SenderKind'
    BY <1>2, <1>9 DEF SenderKind
  <1>11. HeldIsAll'
    <2>1. ASSUME NEW t \in live' PROVE t \in stream'[tracks'[t].of]
      <3>1. CASE t = n
        BY <1>0, <1>2, <1>3, <1>4, <3>1
      <3>2. CASE t # n
        <4>1. t \in live /\ t \in DOMAIN tracks /\ tracks'[t] = tracks[t]
          BY <1>2, <1>3, <1>4, <3>2
        <4>2. t \in stream[tracks[t].of] /\ tracks[t].of \in Calls
          BY <4>1, TrackFields DEF HeldIsAll
        <4> QED BY <1>3, <1>4, <1>5, <4>1, <4>2
      <3> QED BY <3>1, <3>2
    <2>2. ASSUME NEW d \in Calls, NEW j \in Kinds, sender'[d][j] # 0
          PROVE  sender'[d][j] \in stream'[d]
      BY <1>3, <1>4, <1>9, <2>2 DEF HeldIsAll
    <2> QED BY <2>1, <2>2 DEF HeldIsAll
  <1>12. MuteLasts'
    <2> SUFFICES ASSUME NEW d \in Calls, NEW j \in Kinds, sender'[d][j] # 0
                 PROVE  sender'[d][j] \in muted' <=> j \in wish'[d]
      BY DEF MuteLasts
    <2>1. CASE d = s
      BY <1>2, <1>3, <1>4, <1>5, <1>9, <2>1
    <2>2. CASE d # s
      BY <1>3, <1>9, <2>2 DEF MuteLasts
    <2> QED BY <2>1, <2>2
  <1>13. EndStopsAll'
    <2>1. ASSUME NEW t \in live', phase'[tracks'[t].of] = "destroyed" PROVE tracks'[t].late
      <3>1. t # n
        BY <1>0, <1>2, <1>3, <1>4, <2>1
      <3>2. t \in live /\ t \in DOMAIN tracks /\ tracks'[t] = tracks[t]
        BY <1>2, <1>3, <1>4, <3>1
      <3>3. tracks[t].of \in Calls
        BY <3>2, TrackFields
      <3>4. phase[tracks[t].of] = "destroyed"
        BY <1>3, <1>4, <2>1, <3>2, <3>3
      <3> QED BY <3>2, <3>4 DEF EndStopsAll
    <2>2. ASSUME phase'[main] # "up"
          PROVE  \E t \in DOMAIN tracks' :
                   tracks'[t].of = share' /\ tracks'[t].display /\ tracks'[t].late
      <3>1. phase[main] # "up"
        BY <1>0, <1>3, <1>4, <2>2
      <3> QED BY <1>2, <1>3, <3>1
    <2> QED BY <2>1, <2>2 DEF EndStopsAll
  <1> QED BY <1>6, <1>7, <1>8, <1>10, <1>11, <1>12, <1>13

LEMMA TrackEndsKeeps ==
  ASSUME IInv, NEW t \in live, TrackEnds(t)
  PROVE  IInv'
  <1> USE DEF IInv, TrackEnds
  <1>0. main \in Calls /\ share # main
    BY NoneAssumption DEF TypeOK, Calls
  <1>1. /\ phase' \in [Calls -> Phases]
        /\ \A d \in Calls : phase'[d] = phase[d] \/ (d = share /\ phase'[d] = "hanging")
    BY DEF TypeOK, Phases
  <1>2. TypeOK'
    BY <1>1 DEF TypeOK
  <1>3. MainOnly' /\ Blank' /\ Owned' /\ SenderKind'
    BY <1>0, <1>1 DEF MainOnly, Blank, Owned, SenderKind
  <1>4. HeldIsAll' /\ MuteLasts'
    BY DEF HeldIsAll, MuteLasts
  <1>5. EndStopsAll'
    <2>1. ASSUME NEW u \in live', phase'[tracks[u].of] = "destroyed" PROVE tracks[u].late
      <3>1. u \in live /\ tracks[u].of \in Calls
        BY TrackFields DEF TypeOK
      <3> QED BY <1>1, <2>1, <3>1 DEF EndStopsAll
    <2>2. ASSUME share # None, phase'[share] = "up", phase'[main] # "up"
          PROVE  phase[share] = "up" /\ phase[main] # "up"
      <3>1. share \in Calls
        BY <2>2 DEF TypeOK, Calls
      <3> QED BY <1>0, <1>1, <2>2, <3>1
    <2> QED BY <2>1, <2>2 DEF EndStopsAll
  <1> QED BY <1>2, <1>3, <1>4, <1>5

(* What Peer._init gets is new: nothing of it is muted, and the call held      *)
(* nothing that it could replace.                                              *)
LEMMA MediaArrivesKeeps ==
  ASSUME IInv, NEW c \in Calls, NEW ks \in Seq(Kinds), MediaArrives(c, ks)
  PROVE  IInv'
  <1> DEFINE new == Len(tracks) + 1 .. Len(tracks) + Len(ks)
             f == [i \in DOMAIN ks |-> Given(ks[i], c)]
             first(k) == CHOOSE i \in DOMAIN ks : ks[i] = k
             given == [k \in Kinds |-> IF \E i \in DOMAIN ks : ks[i] = k
                                        THEN Len(tracks) + first(k) ELSE 0]
  <1> USE DEF IInv
  <1>1. /\ tracks \in Seq(Track) /\ Len(tracks) \in Nat /\ Len(ks) \in Nat
        /\ f \in Seq(Track) /\ Len(f) = Len(ks) /\ DOMAIN f = DOMAIN ks
        /\ tracks' = tracks \o f
    <2>1. \A i \in DOMAIN ks : f[i] \in Track
      BY GivenIsTrack
    <2>2. tracks \in Seq(Track) /\ tracks' = tracks \o f
      BY DEF MediaArrives, TypeOK
    <2>3. Len(ks) \in Nat /\ DOMAIN ks = 1 .. Len(ks) /\ DOMAIN f = DOMAIN ks
      OBVIOUS
    <2> HIDE DEF f
    <2>4. f \in Seq(Track) /\ Len(f) = Len(ks)
      <3>1. f \in [1 .. Len(ks) -> Track]
        <4>1. f = [i \in DOMAIN ks |-> f[i]]
          BY DEF f
        <4> QED BY <2>1, <2>3, <4>1
      <3> QED BY <2>3, <3>1
    <2>5. Len(tracks) \in Nat
      BY <2>2
    <2> QED BY <2>2, <2>3, <2>4, <2>5
  <1>2. /\ tracks' \in Seq(Track) /\ Len(tracks') <= MaxTracks
        /\ DOMAIN tracks' = DOMAIN tracks \cup new
        /\ \A t \in DOMAIN tracks : tracks'[t] = tracks[t]
        /\ \A i \in DOMAIN ks : tracks'[Len(tracks) + i] = Given(ks[i], c)
    <2>1. Len(tracks) + Len(ks) <= MaxTracks
      BY DEF MediaArrives
    <2>2. \A i \in DOMAIN ks : f[i] = Given(ks[i], c)
      OBVIOUS
    <2> HIDE DEF f
    <2>3. /\ tracks' \in Seq(Track)
          /\ Len(tracks') = Len(tracks) + Len(f)
          /\ DOMAIN tracks' = DOMAIN tracks \cup (Len(tracks) + 1 .. Len(tracks) + Len(f))
          /\ \A t \in DOMAIN tracks : tracks'[t] = tracks[t]
          /\ \A i \in DOMAIN f : tracks'[Len(tracks) + i] = f[i]
      <3>1. \A u \in Seq(Track), v \in Seq(Track) :
              /\ u \o v \in Seq(Track)
              /\ Len(u \o v) = Len(u) + Len(v)
              /\ DOMAIN (u \o v) = DOMAIN u \cup (Len(u) + 1 .. Len(u) + Len(v))
              /\ \A i \in DOMAIN u : (u \o v)[i] = u[i]
              /\ \A i \in DOMAIN v : (u \o v)[Len(u) + i] = v[i]
        BY Grows
      <3> QED BY <1>1, <3>1, Zenon
    <2> QED BY <1>1, <2>1, <2>2, <2>3
  <1>3. /\ \A t \in new : t \notin DOMAIN tracks /\ t # 0
        /\ \A t \in new : \E i \in DOMAIN ks : t = Len(tracks) + i
        /\ \A i \in DOMAIN ks : Len(tracks) + i \in new
    <2>1. DOMAIN tracks = 1 .. Len(tracks) /\ DOMAIN ks = 1 .. Len(ks)
      BY <1>1
    <2>2. ASSUME NEW t \in new
          PROVE  t \notin DOMAIN tracks /\ t # 0 /\ \E i \in DOMAIN ks : t = Len(tracks) + i
      <3>1. t \in Nat /\ t > Len(tracks) /\ t <= Len(tracks) + Len(ks)
        BY <1>1
      <3>2. t - Len(tracks) \in 1 .. Len(ks) /\ t = Len(tracks) + (t - Len(tracks))
        BY <1>1, <3>1
      <3>3. t \notin 1 .. Len(tracks) /\ t # 0
        BY <1>1, <3>1
      <3> QED BY <2>1, <3>2, <3>3
    <2>3. \A i \in DOMAIN ks : Len(tracks) + i \in new
      BY <1>1, <2>1
    <2> QED BY <2>2, <2>3
  <1>4. /\ media[c] /\ media' = [media EXCEPT ![c] = FALSE]
        /\ stream' = [stream EXCEPT ![c] = new]
        /\ live' = live \cup new
        /\ sender' = IF phase[c] = "destroyed" THEN sender ELSE [sender EXCEPT ![c] = given]
        /\ wish' = [wish EXCEPT ![c] = {}]
        /\ UNCHANGED <<phase, change, display, share, muted>>
    BY DEF MediaArrives
  <1>5. \A t \in new : /\ t \in DOMAIN tracks' /\ tracks'[t].of = c
                       /\ tracks'[t].late = (phase[c] = "destroyed")
    <2> HIDE DEF new
    <2> SUFFICES ASSUME NEW t \in new
                 PROVE  /\ t \in DOMAIN tracks' /\ tracks'[t].of = c
                        /\ tracks'[t].late = (phase[c] = "destroyed")
      OBVIOUS
    <2>1. PICK i \in DOMAIN ks : t = Len(tracks) + i
      BY <1>3
    <2>2. tracks'[t] = Given(ks[i], c) /\ t \in DOMAIN tracks'
      BY <1>2, <2>1
    <2> QED BY <2>2 DEF Given
  <1>6. \A k \in Kinds : given[k] # 0 => given[k] \in new /\ tracks'[given[k]].kind = k
    <2> SUFFICES ASSUME NEW k \in Kinds, given[k] # 0
                 PROVE  given[k] \in new /\ tracks'[given[k]].kind = k
      OBVIOUS
    <2>1. \E i \in DOMAIN ks : ks[i] = k
      OBVIOUS
    <2>2. first(k) \in DOMAIN ks /\ ks[first(k)] = k
      BY <2>1
    <2>3. given[k] = Len(tracks) + first(k)
      BY <2>1
    <2> HIDE DEF first, given, new
    <2>4. tracks'[given[k]] = Given(k, c)
      BY <1>2, <2>2, <2>3
    <2> QED BY <1>3, <2>2, <2>3, <2>4 DEF Given
  <1>7. given \in [Kinds -> {0} \cup new]
    <2>1. \A k \in Kinds : given[k] \in {0} \cup new
      BY <1>6
    <2>2. given = [k \in Kinds |-> given[k]]
      OBVIOUS
    <2> HIDE DEF given, new
    <2> QED BY <2>1, <2>2
  <1> HIDE DEF new, f, first, given
  <1>8. /\ stream \in [Calls -> SUBSET DOMAIN tracks]
        /\ sender \in [Calls -> [Kinds -> {0} \cup DOMAIN tracks]]
        /\ live \subseteq DOMAIN tracks /\ muted \subseteq DOMAIN tracks
        /\ media \in [Calls -> BOOLEAN] /\ wish \in [Calls -> SUBSET Kinds]
    BY DEF TypeOK
  <1>9. stream[c] = {} /\ sender[c] = NoSender
    BY <1>4 DEF Blank
  <1>10. TypeOK'
    <2>1. stream' \in [Calls -> SUBSET DOMAIN tracks']
      BY <1>2, <1>4, <1>8
    <2>2. sender' \in [Calls -> [Kinds -> {0} \cup DOMAIN tracks']]
      <3>1. sender \in [Calls -> [Kinds -> {0} \cup DOMAIN tracks']]
        <4>1. ASSUME NEW d \in Calls PROVE sender[d] \in [Kinds -> {0} \cup DOMAIN tracks']
          BY <1>2, <1>8
        <4> QED BY <1>8, <4>1
      <3>2. given \in [Kinds -> {0} \cup DOMAIN tracks']
        BY <1>2, <1>7
      <3> QED BY <1>4, <3>1, <3>2
    <2>3. live' \subseteq DOMAIN tracks' /\ muted' \subseteq DOMAIN tracks'
      BY <1>2, <1>4, <1>8
    <2>4. media' \in [Calls -> BOOLEAN]
      BY <1>4, <1>8
    <2>5. wish' \in [Calls -> SUBSET Kinds]
      BY <1>4, <1>8
    <2> QED BY <1>2, <1>4, <2>1, <2>2, <2>3, <2>4, <2>5 DEF TypeOK
  <1>11. MainOnly' /\ Blank'
    <2>1. c = main /\ phase[c] # "unused" /\ ~media'[c]
      BY <1>4, <1>8 DEF MainOnly
    <2>2. \A d \in Calls : d # c =>
            /\ stream'[d] = stream[d] /\ sender'[d] = sender[d] /\ media'[d] = media[d]
            /\ wish'[d] = wish[d]
      BY <1>4, <1>8
    <2> QED BY <1>4, <2>1, <2>2 DEF MainOnly, Blank
  <1>12. Owned'
    BY <1>2, <1>4, <1>5, <1>8 DEF Owned
  <1>13. \A d \in Calls, j \in Kinds : sender'[d][j] # 0 =>
           \/ d = c /\ sender'[d][j] = given[j]
           \/ d # c /\ sender'[d][j] = sender[d][j] /\ sender[d][j] \in DOMAIN tracks
    BY <1>4, <1>8, <1>9 DEF NoSender
  <1>14. SenderKind'
    BY <1>2, <1>6, <1>13 DEF SenderKind
  <1>15. HeldIsAll'
    <2>1. ASSUME NEW t \in live' PROVE t \in stream'[tracks'[t].of]
      <3>1. CASE t \in new
        BY <1>4, <1>5, <1>8, <3>1
      <3>2. CASE t \notin new
        <4>1. t \in live /\ t \in DOMAIN tracks /\ tracks'[t] = tracks[t]
          BY <1>2, <1>4, <1>8, <3>2
        <4>2. t \in stream[tracks[t].of] /\ tracks[t].of \in Calls
          BY <4>1, TrackFields DEF HeldIsAll
        <4> QED BY <1>4, <1>8, <1>9, <4>1, <4>2
      <3> QED BY <3>1, <3>2
    <2>2. ASSUME NEW d \in Calls, NEW j \in Kinds, sender'[d][j] # 0
          PROVE  sender'[d][j] \in stream'[d]
      BY <1>4, <1>6, <1>8, <1>13, <2>2 DEF HeldIsAll
    <2> QED BY <2>1, <2>2 DEF HeldIsAll
  <1>16. MuteLasts'
    <2> SUFFICES ASSUME NEW d \in Calls, NEW j \in Kinds, sender'[d][j] # 0
                 PROVE  sender'[d][j] \in muted' <=> j \in wish'[d]
      BY DEF MuteLasts
    <2>1. CASE d = c
      BY <1>3, <1>4, <1>6, <1>8, <1>9, <1>13, <2>1
    <2>2. CASE d # c
      BY <1>4, <1>8, <1>13, <2>2 DEF MuteLasts
    <2> QED BY <2>1, <2>2
  <1>17. EndStopsAll'
    <2>1. ASSUME NEW t \in live', phase'[tracks'[t].of] = "destroyed" PROVE tracks'[t].late
      <3>1. CASE t \in new
        BY <1>4, <1>5, <2>1, <3>1
      <3>2. CASE t \notin new
        <4>1. t \in live /\ tracks'[t] = tracks[t]
          BY <1>2, <1>4, <1>8, <3>2
        <4> QED BY <1>4, <2>1, <4>1 DEF EndStopsAll
      <3> QED BY <3>1, <3>2
    <2>2. ASSUME share' # None, phase'[share'] = "up", phase'[main] # "up"
          PROVE  \E t \in DOMAIN tracks' :
                   tracks'[t].of = share' /\ tracks'[t].display /\ tracks'[t].late
      BY <1>2, <1>4, <2>2 DEF EndStopsAll
    <2> QED BY <2>1, <2>2 DEF EndStopsAll
  <1> QED BY <1>10, <1>11, <1>12, <1>14, <1>15, <1>16, <1>17

------------------------------------------------------------------------------
LEMMA StepInv == IInv /\ [Next]_vars => IInv'
  <1> SUFFICES ASSUME IInv, [Next]_vars PROVE IInv'
    OBVIOUS
  <1>1. CASE UNCHANGED vars
    BY <1>1 DEF vars, callVars, IInv, TypeOK, MainOnly, Blank, Owned, SenderKind,
                HeldIsAll, EndStopsAll, MuteLasts
  <1>2. CASE User
    <2>1. ASSUME NEW c \in Calls, NEW execute \in BOOLEAN, Hangup(c, execute) PROVE IInv'
      <3>1. media' \in [Calls -> BOOLEAN] /\ \A d \in Calls : media'[d] => media[d]
        BY <2>1 DEF Hangup, IInv, TypeOK
      <3> QED BY <2>1, <3>1, HangUpKeeps DEF Hangup
    <2>2. ASSUME NEW c \in Calls, NEW k \in Kinds, ChangeDevice(c, k) PROVE IInv'
      BY <2>2, ChangeDeviceKeeps
    <2>3. ASSUME NEW c \in Calls, NEW k \in Kinds, ToggleMute(c, k) PROVE IInv'
      BY <2>3, ToggleKeeps
    <2>4. ASSUME NEW c \in Calls, NEW k \in Kinds, NEW on \in BOOLEAN, Mute(c, k, on) PROVE IInv'
      BY <2>4, MuteKeeps
    <2> QED BY <1>2, <2>1, <2>2, <2>3, <2>4, StartShareKeeps DEF User
  <1>3. CASE Browser
    <2>1. ASSUME NEW c \in Calls, NEW ks \in Seq(Kinds), MediaArrives(c, ks) PROVE IInv'
      BY <2>1, MediaArrivesKeeps
    <2>2. {<<"audio">>, <<"video">>, <<"audio", "video">>} \subseteq Seq(Kinds)
      BY DEF Kinds
    <2>3. ASSUME NEW c \in Calls, MediaRefused(c) PROVE IInv'
      BY <2>3, RefusedKeeps
    <2>4. ASSUME NEW c \in Calls, NEW k \in Kinds, DeviceChanged(c, k) PROVE IInv'
      BY <2>4, DeviceChangedKeeps
    <2>5. ASSUME NEW c \in Calls, NEW k \in Kinds, DeviceRefused(c, k) PROVE IInv'
      BY <2>5, DeviceRefusedKeeps
    <2>6. ASSUME NEW s \in Shares, ScreenShared(s) PROVE IInv'
      BY <2>6, ScreenSharedKeeps
    <2>7. ASSUME NEW t \in live, TrackEnds(t) PROVE IInv'
      BY <2>7, TrackEndsKeeps
    <2>8. ShareRefused => IInv'
      BY ShareRefusedKeeps
    <2> QED BY <1>3, <2>1, <2>2, <2>3, <2>4, <2>5, <2>6, <2>7, <2>8 DEF Browser
  <1>4. CASE \E c \in Calls : ByeSettled(c)
    BY <1>4, ByeKeeps
  <1> QED BY <1>1, <1>2, <1>3, <1>4 DEF Next

(* The invariant holds throughout, for any shares, tracks and device changes  *)
(* in flight.                                                                 *)
THEOREM Invariance == Spec => []IInv
  <1>1. Init => IInv
    BY InitInv
  <1>2. IInv /\ [Next]_vars => IInv'
    BY StepInv
  <1> QED BY <1>1, <1>2, PTL DEF Spec

(* The types of the local media, for any number of shares and tracks.         *)
THEOREM TypeCorrect == Spec => []TypeOK
  <1>1. IInv => TypeOK
    BY DEF IInv
  <1> QED BY <1>1, Invariance, PTL

(* However device changes overlap, what captures is in the stream its call     *)
(* holds, and what the call sends is what it holds (BaseCall.ts:303-357).      *)
THEOREM CapturedIsHeld == Spec => []HeldIsAll
  <1>1. IInv => HeldIsAll
    BY DEF IInv
  <1> QED BY <1>1, Invariance, PTL

(* A destroyed call captures nothing but what the browser gave it afterwards,  *)
(* and takes the screen share it holds with it (BaseCall.ts:1142, Call.ts:11). *)
THEOREM EndStopsCapture == Spec => []EndStopsAll
  <1>1. IInv => EndStopsAll
    BY DEF IInv
  <1> QED BY <1>1, Invariance, PTL

(* What is sent is muted exactly when the application's last word on its kind  *)
(* since its track came was mute, whichever other device was changed since     *)
(* (helpers.ts:298-332).  What was said before the track came is lost.         *)
THEOREM MuteIsKept == Spec => []MuteLasts
  <1>1. IInv => MuteLasts
    BY DEF IInv
  <1> QED BY <1>1, Invariance, PTL
=============================================================================

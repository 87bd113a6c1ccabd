------------------------------ MODULE LocalMedia ------------------------------
(***************************************************************************)
(* The local media of a browser call: the microphone and camera tracks it  *)
(* holds and sends, device changes, mute, and the screen shares that the   *)
(* application starts from it (packages/common/src/webrtc/BaseCall.ts,     *)
(* Call.ts, helpers.ts and util/webrtc).                                   *)
(*                                                                         *)
(* Every track comes from a promise of the browser (getUserMedia,          *)
(* getDisplayMedia) and meets the call as it is then: another device       *)
(* change may have replaced the stream, the call may be hung up or gone.   *)
(* The signalling of the call is in WebCall; here it is up, hanging up (a  *)
(* verto.bye is awaited) or destroyed.                                     *)
(***************************************************************************)
EXTENDS Naturals, Sequences

CONSTANTS
  Shares,     \* Call objects that startScreenShare() makes
  main,       \* the call they are started from
  None,       \* null
  MaxTracks,  \* bound: tracks the browser gives
  MaxAsked    \* bound: device changes of one kind awaited by one call

ASSUME NoneAssumption  == None \notin Shares \cup {main} /\ main \notin Shares
ASSUME BoundAssumption == MaxTracks \in Nat /\ MaxAsked \in Nat

Calls == Shares \cup {main}
Kinds == {"audio", "video"}

VARIABLES
  phase,   \* of each call
  media,   \* Peer._init: whether getUserMedia() is awaited
  stream,  \* the tracks of options.localStream
  sender,  \* the track last given to the RTCRtpSender of each kind, 0: none
  change,  \* setAudioInDevice, setVideoDevice: how many await getUserMedia()
  display, \* how many startScreenShare() await getDisplayMedia()
  share,   \* main.screenShare
  tracks,  \* the tracks there are: kind, call, and, as history, whether the call
           \* was destroyed (or, for a display, hung up) when it got it
  live,    \* those that capture: readyState is "live"
  muted,   \* those of the streams that are not enabled
  wish     \* history: the kinds muted by the application since their track came

callVars == <<phase, media, change, display, share>>
vars     == <<callVars, stream, sender, tracks, live, muted, wish>>

Phases == {"unused", "up", "hanging", "destroyed"}
Track  == [kind : Kinds, of : Calls, display : BOOLEAN, late : BOOLEAN]
OfKind(k) == {t \in DOMAIN tracks : tracks[t].kind = k}

TypeOK ==
  /\ phase \in [Calls -> Phases]
  /\ media \in [Calls -> BOOLEAN]
  /\ stream \in [Calls -> SUBSET DOMAIN tracks]
  /\ sender \in [Calls -> [Kinds -> {0} \cup DOMAIN tracks]]
  /\ change \in [Calls -> [Kinds -> 0 .. MaxAsked]]
  /\ display \in 0 .. MaxAsked
  /\ share \in Shares \cup {None}
  /\ tracks \in Seq(Track) /\ Len(tracks) <= MaxTracks
  /\ live \subseteq DOMAIN tracks
  /\ muted \subseteq DOMAIN tracks
  /\ wish \in [Calls -> SUBSET Kinds]

(* invite() or answer() was called. *)
Init ==
  /\ phase = [c \in Calls |-> IF c = main THEN "up" ELSE "unused"]
  /\ media = [c \in Calls |-> c = main]
  /\ stream = [c \in Calls |-> {}]
  /\ sender = [c \in Calls |-> [k \in Kinds |-> 0]]
  /\ change = [c \in Calls |-> [k \in Kinds |-> 0]]
  /\ display = 0
  /\ share = None
  /\ tracks = <<>>
  /\ live = {}
  /\ muted = {}
  /\ wish = [c \in Calls |-> {}]

------------------------------------------------------------------------------
(* hangup() and _finalize().                                                 *)

NoSender == [k \in Kinds |-> 0]

(* Mutant: _finalize() that stops the camera only. *)
VideoStopped(C) == live \ (UNION {stream[c] : c \in C} \cap OfKind("video"))

(* stopStream(localStream) of the calls C. *)
Stopped(C) == live \ UNION {stream[c] : c \in C}

(* _finalize() of the calls C: the streams stop, the connections are closed. *)
Finalize(C) ==
  /\ live' = Stopped(C)
  /\ sender' = [c \in Calls |-> IF c \in C THEN NoSender ELSE sender[c]]

(* Mutant: Call.hangup() without the screen share. *)
HungUpAlone(c) == {c}

(* hangup() of a call hangs the screen share it holds up first. *)
HungUp(c) == {c} \cup IF c = main /\ share # None THEN {share} ELSE {}

(* hangup() up to its verto.bye, or, without one, to the end. *)
HangUp(c, execute) ==
  IF execute
    THEN /\ phase' = [d \in Calls |-> IF d \in HungUp(c) THEN "hanging" ELSE phase[d]]
         /\ UNCHANGED <<live, sender>>
    ELSE /\ phase' = [d \in Calls |-> IF d \in HungUp(c) THEN "destroyed" ELSE phase[d]]
         /\ Finalize(HungUp(c))

(* The application hangs up (stopScreenShare() is hangup() of the share), the *)
(* server does, or the session disconnects.                                   *)
Hangup(c, execute) ==
  /\ phase[c] # "unused"
  /\ HangUp(c, execute)
  /\ UNCHANGED <<media, change, display, share, stream, tracks, muted, wish>>

(* The verto.bye is answered, refused or given up. *)
ByeSettled(c) ==
  /\ phase[c] = "hanging"
  /\ phase' = [phase EXCEPT ![c] = "destroyed"]
  /\ Finalize({c})
  /\ UNCHANGED <<media, change, display, share, stream, tracks, muted, wish>>

------------------------------------------------------------------------------
(* The microphone and the camera.                                            *)

(* A track the browser gives to call c. *)
Given(k, c) ==
  [kind |-> k, of |-> c, display |-> FALSE, late |-> phase[c] = "destroyed"]

(* The number of the next one. *)
NextTrack == Len(tracks) + 1

(* Peer._init() has its stream, with tracks of the kinds ks, and adds them to *)
(* the connection, unless it was closed meanwhile.                            *)
MediaArrives(c, ks) ==
  LET new == Len(tracks) + 1 .. Len(tracks) + Len(ks) IN
  /\ media[c]
  /\ Len(tracks) + Len(ks) <= MaxTracks
  /\ media' = [media EXCEPT ![c] = FALSE]
  /\ tracks' = tracks \o [i \in DOMAIN ks |-> Given(ks[i], c)]
  /\ stream' = [stream EXCEPT ![c] = new]
  /\ live' = live \cup new
  /\ sender' = IF phase[c] = "destroyed" THEN sender
                 ELSE [sender EXCEPT ![c] =
                        [k \in Kinds |-> IF \E i \in DOMAIN ks : ks[i] = k
                                           THEN Len(tracks) + CHOOSE i \in DOMAIN ks : ks[i] = k
                                           ELSE 0]]
  /\ wish' = [wish EXCEPT ![c] = {}]
  /\ UNCHANGED <<phase, change, display, share, muted>>

(* It has none: MediaError, which the call hears until it is destroyed. *)
MediaRefused(c) ==
  /\ media[c]
  /\ media' = [media EXCEPT ![c] = FALSE]
  /\ IF phase[c] = "destroyed" THEN UNCHANGED <<phase, live, sender>> ELSE HangUp(c, FALSE)
  /\ UNCHANGED <<change, display, share, stream, tracks, muted, wish>>

(* setAudioInDevice() and setVideoDevice() up to getUserMedia(): they need a  *)
(* peer, and a sender of the kind.                                            *)
ChangeDevice(c, k) ==
  /\ sender[c][k] # 0
  /\ change[c][k] < MaxAsked
  /\ change' = [change EXCEPT ![c][k] = @ + 1]
  /\ UNCHANGED <<phase, media, display, share, stream, sender, tracks, live, muted, wish>>

(* Mutant: the new stream does not take over the tracks of the other kind. *)
OnlyTheNew(c, k, t) == {t}

(* The stream after a device change: the new track, and the tracks of the     *)
(* other kind of the stream the call has now.                                 *)
Renewed(c, k, t) == {t} \cup (stream[c] \ OfKind(k))

(* ... and after it: replaceTrack() (which a closed connection refuses), the  *)
(* tracks of the kind stop, and a new stream takes over the others.           *)
DeviceChanged(c, k) ==
  /\ change[c][k] > 0
  /\ NextTrack <= MaxTracks
  /\ change' = [change EXCEPT ![c][k] = @ - 1]
  /\ tracks' = Append(tracks, Given(k, c))
  /\ sender' = IF sender[c][k] = 0 THEN sender ELSE [sender EXCEPT ![c][k] = NextTrack]
  /\ live' = (live \ (stream[c] \cap OfKind(k))) \cup {NextTrack}
  /\ stream' = [stream EXCEPT ![c] = Renewed(c, k, NextTrack)]
  /\ muted' = muted \ (stream[c] \cap OfKind(k))
  /\ wish' = [wish EXCEPT ![c] = @ \ {k}]
  /\ UNCHANGED <<phase, media, display, share>>

DeviceRefused(c, k) ==
  /\ change[c][k] > 0
  /\ change' = [change EXCEPT ![c][k] = @ - 1]
  /\ UNCHANGED <<phase, media, display, share, stream, sender, tracks, live, muted, wish>>

(* Mutant: mute reaches the tracks of both kinds. *)
ReachesAll(c, k) == stream[c]

(* The tracks muteAudio() and its kin reach: none while the stream is awaited. *)
Reaches(c, k) == stream[c] \cap OfKind(k)

(* Of a kind it neither has nor awaits a call will never have a track, and    *)
(* muting it is nothing.                                                      *)
Mutable(c, k) == media[c] \/ Reaches(c, k) # {}

(* muteAudio(), unmuteAudio(), muteVideo(), unmuteVideo() *)
Mute(c, k, on) ==
  /\ Mutable(c, k)
  /\ muted' = IF on THEN muted \cup Reaches(c, k) ELSE muted \ Reaches(c, k)
  /\ wish' = [wish EXCEPT ![c] = IF on THEN @ \cup {k} ELSE @ \ {k}]
  /\ UNCHANGED <<callVars, stream, sender, tracks, live>>

(* toggleAudioMute(), toggleVideoMute() *)
ToggleMute(c, k) ==
  /\ Mutable(c, k)
  /\ muted' = (muted \ Reaches(c, k)) \cup (Reaches(c, k) \ muted)
  /\ wish' = [wish EXCEPT ![c] = IF k \in @ THEN @ \ {k} ELSE @ \cup {k}]
  /\ UNCHANGED <<callVars, stream, sender, tracks, live>>

------------------------------------------------------------------------------
(* Screen shares.                                                            *)

(* startScreenShare() up to getDisplayMedia() *)
StartScreenShare ==
  /\ display < MaxAsked
  /\ display' = display + 1
  /\ UNCHANGED <<phase, media, change, share, stream, sender, tracks, live, muted, wish>>

(* ... and after it: a Call of its own that is given the stream, and invites. *)
ScreenShared(s) ==
  /\ display > 0
  /\ phase[s] = "unused"
  /\ NextTrack <= MaxTracks
  /\ display' = display - 1
  /\ phase' = [phase EXCEPT ![s] = "up"]
  /\ share' = s
  /\ tracks' = Append(tracks, [kind |-> "video", of |-> s, display |-> TRUE,
                               late |-> phase[main] # "up"])
  /\ stream' = [stream EXCEPT ![s] = {NextTrack}]
  /\ sender' = [sender EXCEPT ![s]["video"] = NextTrack]
  /\ live' = live \cup {NextTrack}
  /\ UNCHANGED <<media, change, muted, wish>>

ShareRefused ==
  /\ display > 0
  /\ display' = display - 1
  /\ UNCHANGED <<phase, media, change, share, stream, sender, tracks, live, muted, wish>>

(* A track ends by itself: the device is gone, or the user stops sharing in   *)
(* the browser, which hangs up the share that the call holds now.             *)
TrackEnds(t) ==
  /\ t \in live
  /\ live' = live \ {t}
  /\ phase' = IF tracks[t].display /\ share # None
                THEN [phase EXCEPT ![share] = "hanging"] ELSE phase
  /\ UNCHANGED <<media, change, display, share, stream, sender, tracks, muted, wish>>

------------------------------------------------------------------------------
User ==
  \/ \E c \in Calls, execute \in BOOLEAN : Hangup(c, execute)
  \/ \E c \in Calls, k \in Kinds : ChangeDevice(c, k) \/ ToggleMute(c, k)
  \/ \E c \in Calls, k \in Kinds, on \in BOOLEAN : Mute(c, k, on)
  \/ StartScreenShare

Browser ==
  \/ \E c \in Calls, ks \in {<<"audio">>, <<"video">>, <<"audio", "video">>} : MediaArrives(c, ks)
  \/ \E c \in Calls : MediaRefused(c)
  \/ \E c \in Calls, k \in Kinds : DeviceChanged(c, k) \/ DeviceRefused(c, k)
  \/ \E s \in Shares : ScreenShared(s)
  \/ ShareRefused
  \/ \E t \in live : TrackEnds(t)

Next == User \/ Browser \/ \E c \in Calls : ByeSettled(c)

Spec == Init /\ [][Next]_vars

------------------------------------------------------------------------------
(* What must hold.                                                           *)

(* However device changes overlap, a track that captures is in the stream its *)
(* call holds, so that the call can stop it, and what the call sends is what  *)
(* it holds: mute and hangup reach it (BaseCall.ts:303-357).                  *)
HeldIsAll ==
  /\ \A t \in live : t \in stream[tracks[t].of]
  /\ \A c \in Calls, k \in Kinds : sender[c][k] # 0 => sender[c][k] \in stream[c]

(* A call that is destroyed captures nothing but what the browser gave it     *)
(* after that: whatever was replaced before, the camera light goes off        *)
(* (_finalize, BaseCall.ts:1142).  Nor does the screen share it holds survive *)
(* it, unless it started later (Call.test.ts:322 tests the simplest case).    *)
EndStopsAll ==
  /\ \A t \in live : phase[tracks[t].of] = "destroyed" => tracks[t].late
  /\ share # None /\ phase[share] = "up" /\ phase[main] # "up" =>
       \E t \in DOMAIN tracks : tracks[t].of = share /\ tracks[t].display /\ tracks[t].late

(* What is sent is muted if and only if the application's last word on its    *)
(* kind since its track came was mute: changing the camera does not open the  *)
(* microphone.  A new track starts unmuted, whatever was said before: a mute  *)
(* is lost while getUserMedia() is awaited (Peer.ts:84, BaseCall.ts:291), and *)
(* when the device of its kind changes.                                       *)
MuteLasts ==
  \A c \in Calls, k \in Kinds :
    sender[c][k] # 0 => (sender[c][k] \in muted <=> k \in wish[c])
=============================================================================

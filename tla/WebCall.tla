------------------------------- MODULE WebCall -------------------------------
(***************************************************************************)
(* A browser call (packages/common/src/webrtc): BaseCall.ts with the Peer  *)
(* it drives, and the part of VertoHandler.ts and BrowserSession.ts that   *)
(* creates, finds and drops calls.                                         *)
(*                                                                         *)
(* The model follows one call id.  Several Call objects can have it, one   *)
(* after the other: verto.attach hangs the registered one up and builds    *)
(* another with the same id, while promises of the first are pending.      *)
(* An action is one callback run to completion: a method the application   *)
(* calls, a message of the server, an event of the RTCPeerConnection, the  *)
(* ICE timer, or the continuation of a promise.  The application sees each *)
(* change of state synchronously, so it calls what the state allows.       *)
(***************************************************************************)
EXTENDS Naturals, FiniteSets

CONSTANTS
  Calls,        \* Call objects
  None,         \* no object
  AutoRecover,  \* session.autoRecoverCalls
  UserOps,      \* the operations this application uses
  Bare,         \* a description may come without candidates (React Native)
  MaxRestarts,  \* bound: ICE restarts of one call
  MaxAttempts   \* options.maxIceRestartAttempts, 0 when auto-restart is off

ASSUME NoneAssumption == None \notin Calls
ASSUME FlagAssumption == AutoRecover \in BOOLEAN /\ Bare \in BOOLEAN
ASSUME BoundAssumption == MaxRestarts \in Nat /\ MaxAttempts \in Nat
ASSUME UserOpsAssumption ==
  UserOps \subseteq {"invite", "answer", "again", "hangup", "hold", "restart", "disconnect"}

VARIABLES
  call,    \* the fields of each object, its Peer and its RTCPeerConnection
  reg,     \* session.calls[id]; the object that listens to MediaError of the id
  remote,  \* the server's side of the call
  down,    \* the session was disconnected
  old      \* of each object, the connection that a second answer() replaced

vars == <<call, reg, remote, down, old>>

States == {"new", "requesting", "trying", "recovering", "ringing", "answering",
           "early", "active", "held", "hangup", "destroy"}
Before == [early  |-> {"new", "requesting", "trying", "recovering", "ringing", "answering"},
           active |-> {"new", "requesting", "trying", "recovering", "ringing", "answering", "early"}]

Requests == {"invite", "answer", "modify", "hold", "bye"}

Unused == [
  state    |-> "unused",
  gotEarly |-> FALSE,  gotAnswer |-> FALSE,
  timer    |-> FALSE,  \* _iceTimeout is armed
  done     |-> FALSE,  \* _iceDone
  attempts |-> 0,      \* _iceRestartAttempts
  peer     |-> FALSE,  \* this.peer is not null
  type     |-> "none", \* peer.type
  neg      |-> FALSE,  \* peer._negotiating
  twice    |-> FALSE,  \* peer.onSdpReadyTwice is set
  media    |-> "none", \* getUserMedia() "asked"; localStream "held" or "stopped"
  pc       |-> "none", \* the RTCPeerConnection: "open", "closed"
  needed   |-> FALSE,  \* it owes a negotiationneeded event
  making   |-> "none", \* createOffer or createAnswer is under way
  refused  |-> FALSE,  \* history: the last one failed
  sig      |-> "stable", \* signalingState; "local", "remote": have-local-offer, -remote-offer
  desc     |-> "none", \* type of localDescription
  cands    |-> FALSE,  \* localDescription has candidates
  gather   |-> FALSE,  \* candidates are being gathered
  srd      |-> "none", \* a pending setRemoteDescription: the "first" answer's or a "modify"'s
  asked    |-> [q \in Requests |-> 0], \* requests without an answer so far
  invites  |-> 0,      \* history: verto.invite sent
  restarts |-> 0]      \* history: restartIce() went through

\* How far a replaced connection is: its stream is awaited, its description is made
\* or failed, its candidates are being gathered or are.  timer: it armed _iceTimeout.
OldStages == {"none", "asked", "making", "idle", "gathering", "gathered"}

Init ==
  /\ call = [c \in Calls |-> Unused]
  /\ reg = None
  /\ remote = "none"
  /\ down = FALSE
  /\ old = [c \in Calls |-> [at |-> "none", timer |-> FALSE]]

Is(c, r) == call' = [call EXCEPT ![c] = r]
Fresh    == {c \in Calls : call[c].state = "unused"}

----------------------------------------------------------------------------
\* Helpers on one object.

\* invite() and answer(): a new Peer, whose _init() asks for the local stream.
WithPeer(r, t) ==
  [r EXCEPT !.peer = TRUE, !.type = t, !.neg = FALSE, !.twice = FALSE, !.done = FALSE,
            !.media = "asked", !.pc = "open", !.needed = FALSE, !.making = "none",
            !.refused = FALSE, !.sig = "stable", !.desc = "none", !.cands = FALSE,
            !.gather = FALSE, !.srd = "none"]

\* What becomes of the connection that another answer() replaces.
Leftover(r) ==
  [at    |-> CASE r.media = "asked" -> "asked"
               [] r.making # "none" \/ (r.needed /\ ~r.neg) -> "making"
               [] r.gather -> "gathering"
               [] OTHER -> "idle",
   timer |-> r.timer]

\* MUTANT: _finalize() first, so that there is no peer left to close.
ClosedAfterFinalize(r) ==
  [r EXCEPT !.peer = FALSE, !.media = IF @ = "held" THEN "stopped" ELSE @, !.state = "destroy"]

\* The close of hangup(): the peer connection, then setState(Destroy), which
\* runs _finalize().  Its effect on session.calls is Forgotten.
Closed(r) ==
  [r EXCEPT !.pc    = IF r.peer THEN "closed" ELSE @,
            !.peer  = FALSE,
            !.media = IF @ = "held" THEN "stopped" ELSE @,
            !.state = "destroy"]

\* MUTANT: the call is not deleted from session.calls.
StillThere == UNCHANGED reg

Forgotten == reg' = None

\* hangup(params, true) and hangup(params, false).
HangupWithBye(r) == [r EXCEPT !.state = "hangup", !.asked.bye = @ + 1]
HangupLocally(r) == Closed(r)

\* The registered object, if any, hangs up without a verto.bye.
Dropped == IF reg = None THEN call ELSE [call EXCEPT ![reg] = HangupLocally(@)]

\* Peer.startNegotiation(); createOffer() of a closed connection fails, which
\* is logged.
Negotiates(r) ==
  [r EXCEPT !.neg = TRUE, !.refused = FALSE,
            !.making = IF r.pc = "open" THEN r.type ELSE @]

\* MUTANT: _negotiating is set after the restart, and its event is skipped.
RestartedNegotiating(r) ==
  [r EXCEPT !.done = FALSE, !.timer = FALSE, !.type = "offer", !.neg = TRUE,
            !.needed = TRUE, !.restarts = @ + 1]

\* restartIce().
MayRestart(r) == r.peer /\ r.state \in {"active", "held"}
Restarted(r) ==
  [r EXCEPT !.done = FALSE, !.timer = FALSE, !.type = "offer", !.neg = FALSE,
            !.needed = TRUE, !.restarts = @ + 1]

\* MUTANT: a call on hold is not up.
RenegotiatesActive(r) == r.desc = "offer" /\ r.state = "active"

\* _onIceSdp(localDescription): nothing is left to do once _finalize() dropped the
\* peer (a TypeError); without candidates a second description is asked for once;
\* otherwise the description goes out.
Renegotiates(r) == r.desc = "offer" /\ r.state \in {"active", "held"}

Sends(r) ==
  IF Renegotiates(r) THEN [r EXCEPT !.asked.modify = @ + 1]
  ELSE IF r.desc = "offer"
       THEN [r EXCEPT !.state = "requesting", !.asked.invite = @ + 1, !.invites = @ + 1]
       ELSE [r EXCEPT !.state = "answering", !.asked.answer = @ + 1]

AsksAgain(r) ==
  IF r.twice THEN r ELSE Negotiates([r EXCEPT !.twice = TRUE, !.done = FALSE])

\* MUTANT: _iceDone is not set, so the end of gathering sends it once more.
OnIceSdpNotDone(r) ==
  LET t == [r EXCEPT !.timer = FALSE, !.neg = FALSE]
  IN IF ~r.peer THEN r ELSE IF r.cands THEN Sends(t) ELSE AsksAgain(t)

OnIceSdp(r) ==
  LET s == [r EXCEPT !.timer = FALSE, !.done = TRUE]
      t == [s EXCEPT !.neg = FALSE]
  IN IF ~r.peer THEN s ELSE IF r.cands THEN Sends(t) ELSE AsksAgain(t)

\* _onIceSdp() with the answer of the connection that was replaced; full: it has
\* candidates.
OnOldSdp(r, full) ==
  [OnIceSdp([r EXCEPT !.desc = "answer", !.cands = full])
     EXCEPT !.desc = r.desc, !.cands = r.cands]

\* _onRemoteSdp().
RemoteSdp(r) == [r EXCEPT !.srd = "first"]

----------------------------------------------------------------------------
\* The application.

Invite ==
  /\ "invite" \in UserOps /\ remote = "none" /\ reg = None /\ ~down
  /\ Fresh = Calls
  /\ \E c \in Calls : Is(c, WithPeer([Unused EXCEPT !.state = "new"], "offer")) /\ reg' = c
  /\ UNCHANGED <<remote, down, old>>

\* answer() while the call still rings replaces this.peer, and nobody closes the
\* connection before it (AnswerAgain).
Answer(c) ==
  /\ "answer" \in UserOps
  /\ call[c].state \in {"ringing", "recovering"} /\ ~call[c].peer
  /\ Is(c, WithPeer(call[c], "answer"))
  /\ UNCHANGED <<reg, remote, down, old>>

AnswerAgain(c) ==
  /\ "again" \in UserOps
  /\ call[c].state \in {"ringing", "recovering"} /\ call[c].peer
  /\ old[c].at = "none" /\ ~call[c].twice   \* bound: once, before a second description
  /\ Is(c, WithPeer(call[c], "answer"))
  /\ old' = [old EXCEPT ![c] = Leftover(call[c])]
  /\ UNCHANGED <<reg, remote, down>>

Hangup(c) ==
  /\ "hangup" \in UserOps
  /\ call[c].state \notin {"unused", "hangup", "destroy"}
  /\ call[c].asked.bye = 0   \* bound: not again while a verto.bye is out
  /\ Is(c, HangupWithBye(call[c]))
  /\ UNCHANGED <<reg, remote, down, old>>

Hold(c) ==
  /\ "hold" \in UserOps
  /\ call[c].state \in {"active", "held"} /\ call[c].asked.hold = 0
  /\ Is(c, [call[c] EXCEPT !.asked.hold = 1])
  /\ UNCHANGED <<reg, remote, down, old>>

RestartIce(c) ==
  /\ "restart" \in UserOps
  /\ MayRestart(call[c]) /\ call[c].restarts < MaxRestarts
  /\ Is(c, Restarted(call[c]))
  /\ UNCHANGED <<reg, remote, down, old>>

\* BrowserSession.disconnect(): setState(Purge) of the registered calls, which
\* hangs them up.  A request that waits in the queue of the session is dropped,
\* one that was sent is left to its timer.
Disconnect ==
  /\ "disconnect" \in UserOps /\ ~down
  /\ down' = TRUE
  /\ reg' = None
  /\ \E dropped \in SUBSET {c \in Calls : \E q \in Requests : call[c].asked[q] > 0} :
       call' = [c \in Calls |->
                  LET r == IF c \in dropped THEN [call[c] EXCEPT !.asked = Unused.asked]
                                            ELSE call[c]
                  IN IF c = reg THEN HangupLocally(r) ELSE r]
  /\ UNCHANGED <<remote, old>>

----------------------------------------------------------------------------
\* The browser: media, the RTCPeerConnection, the ICE timer.

\* The local stream arrives; its tracks make the connection owe a negotiation.
\* addTrack() on a closed connection throws, and the stream stays open.
MediaGranted(c) ==
  /\ call[c].media = "asked"
  /\ Is(c, [call[c] EXCEPT !.media = "held", !.needed = call[c].pc = "open"])
  /\ UNCHANGED <<reg, remote, down, old>>

\* No stream was asked for: the peer negotiates at once.
MediaEmpty(c) ==
  /\ call[c].media = "asked"
  /\ Is(c, Negotiates([call[c] EXCEPT !.media = "none"]))
  /\ UNCHANGED <<reg, remote, down, old>>

\* getUserMedia() fails: whoever listens to MediaError of this id hangs up, then
\* the peer negotiates without a stream.
MediaRefused(c) ==
  /\ call[c].media = "asked"
  /\ call' = [Dropped EXCEPT ![c] = Negotiates([@ EXCEPT !.media = "none"])]
  /\ Forgotten
  /\ UNCHANGED <<remote, down, old>>

NegotiationNeeded(c) ==
  LET r == call[c] IN
  /\ r.needed /\ r.pc = "open" /\ r.sig = "stable" /\ r.making = "none"
  /\ Is(c, IF r.neg THEN [r EXCEPT !.needed = FALSE]
                    ELSE Negotiates([r EXCEPT !.needed = FALSE]))
  /\ UNCHANGED <<reg, remote, down, old>>

\* setLocalDescription() is done, gathering starts.
WithDescription(r, full, neg) ==
  [r EXCEPT !.making = "none", !.desc = r.making, !.gather = TRUE, !.cands = full,
            !.needed = FALSE, !.neg = neg,
            !.sig = IF r.making = "offer" THEN "local" ELSE "stable"]

\* An offer sets _negotiating as it is set; an answer did so before, with the remote
\* description.  _sdpReady() follows.
Described(c) ==
  LET r == call[c] IN
  /\ r.making # "none" /\ r.pc = "open"
  /\ \E full \in (IF Bare THEN BOOLEAN ELSE {FALSE}),
        neg  \in {r.neg \/ r.making = "offer", TRUE} :
       LET s == WithDescription(r, full, neg)
       IN Is(c, IF r.twice THEN OnIceSdp(s) ELSE s)
  /\ UNCHANGED <<reg, remote, down, old>>

\* A description cannot be made or set on the open connection, which is only logged;
\* of an answer, the remote description may have been set.
WithoutDescription(r, sig) ==
  [r EXCEPT !.making = "none", !.refused = TRUE, !.sig = sig, !.neg = @ \/ sig # r.sig]

DescribeFailed(c) ==
  LET r == call[c] IN
  /\ r.making # "none" /\ r.pc = "open"
  /\ \E sig \in {r.sig} \cup (IF r.making = "answer" THEN {"remote"} ELSE {}) :
       Is(c, WithoutDescription(r, sig))
  /\ UNCHANGED <<reg, remote, down, old>>

IceCandidate(c) ==
  /\ call[c].gather /\ call[c].pc = "open"
  /\ Is(c, [call[c] EXCEPT !.cands = TRUE, !.timer = @ \/ ~call[c].done])
  /\ old' = [old EXCEPT ![c].timer = @ /\ call[c].timer]
  /\ UNCHANGED <<reg, remote, down>>

\* The null candidate: gathering is over.
IceGathered(c) ==
  LET r == [call[c] EXCEPT !.gather = FALSE] IN
  /\ call[c].gather /\ call[c].pc = "open"
  /\ Bare \/ r.cands
  /\ Is(c, IF r.done THEN r ELSE OnIceSdp(r))
  /\ UNCHANGED <<reg, remote, down, old>>

IceTimeout(c) ==
  /\ call[c].timer /\ ~old[c].timer
  /\ Is(c, OnIceSdp(call[c]))
  /\ UNCHANGED <<reg, remote, down, old>>

\* The state of ICE changes, of the connection or of the one it replaced.
Probes(c) ==
  \/ call[c].pc = "open" /\ call[c].desc # "none"
  \/ old[c].at \in {"gathering", "gathered"}

IceFailed(c) ==
  LET r == call[c] IN
  /\ Probes(c)
  /\ r.attempts < MaxAttempts /\ r.restarts < MaxRestarts
  /\ LET s == [r EXCEPT !.attempts = @ + 1]
     IN Is(c, IF MayRestart(s) THEN Restarted(s) ELSE s)
  /\ UNCHANGED <<reg, remote, down, old>>

IceConnected(c) ==
  /\ Probes(c) /\ call[c].attempts > 0
  /\ Is(c, [call[c] EXCEPT !.attempts = 0])
  /\ UNCHANGED <<reg, remote, down, old>>

\* MUTANT: the answer that came while early media was being set up is not seen.
AfterRemoteEarly(r) ==
  IF r.gotEarly THEN "early" ELSE IF r.gotAnswer THEN "active" ELSE r.state

\* setRemoteDescription() is settled; a closed connection never settles it.
AfterRemote(r) ==
  IF r.gotAnswer THEN "active" ELSE IF r.gotEarly THEN "early" ELSE r.state

RemoteSet(c) ==
  LET r == call[c] IN
  /\ r.srd # "none" /\ r.pc = "open" /\ r.sig = "local"
  /\ Is(c, [r EXCEPT !.sig = "stable", !.srd = "none",
                     !.state = IF r.srd = "first" THEN AfterRemote(r) ELSE @])
  /\ UNCHANGED <<reg, remote, down, old>>

RemoteRejected(c) ==
  LET r == [call[c] EXCEPT !.srd = "none"] IN
  /\ call[c].srd # "none" /\ call[c].pc = "open"
  /\ Is(c, IF call[c].srd = "first" THEN HangupWithBye(r) ELSE r)
  /\ UNCHANGED <<reg, remote, down, old>>

----------------------------------------------------------------------------
\* The connection a second answer() replaced goes on, its handlers bound to the call.

OldBecomes(c, stage) == old' = [old EXCEPT ![c].at = stage]

OldMedia(c) ==
  /\ old[c].at = "asked" /\ OldBecomes(c, "making")
  /\ UNCHANGED <<call, reg, remote, down>>

OldRefused(c) ==
  /\ old[c].at = "asked" /\ OldBecomes(c, "making")
  /\ call' = Dropped /\ Forgotten
  /\ UNCHANGED <<remote, down>>

OldDescribed(c) ==
  /\ old[c].at = "making"
  /\ OldBecomes(c, "gathering") \/ OldBecomes(c, "idle")
  /\ UNCHANGED <<call, reg, remote, down>>

OldCandidate(c) ==
  LET r == call[c] IN
  /\ old[c].at = "gathering"
  /\ Is(c, [r EXCEPT !.timer = @ \/ ~r.done])
  /\ old' = [old EXCEPT ![c].timer = IF r.timer THEN @ ELSE ~r.done]
  /\ UNCHANGED <<reg, remote, down>>

OldGathered(c) ==
  LET r == call[c] IN
  /\ old[c].at = "gathering" /\ OldBecomes(c, "gathered")
  /\ \E full \in (IF Bare THEN BOOLEAN ELSE {TRUE}) :
       Is(c, IF r.done THEN r ELSE OnOldSdp(r, full))
  /\ UNCHANGED <<reg, remote, down>>

OldTimeout(c) ==
  /\ call[c].timer /\ old[c].timer
  /\ Is(c, OnOldSdp(call[c], TRUE))
  /\ UNCHANGED <<reg, remote, down, old>>

----------------------------------------------------------------------------
\* The server: answers to requests and messages of its own.  The answer to
\* verto.invite comes before anything else about the call, and a call the server
\* has ended gets no good answer any more.

Answered(r, q) == [r EXCEPT !.asked[q] = @ - 1]

Reachable == remote # "gone" /\ ~down

InviteAnswered(c) ==
  /\ call[c].asked.invite > 0 /\ ~down
  /\ Is(c, [Answered(call[c], "invite") EXCEPT !.state = "trying"])
  /\ remote' = IF remote \in {"none", "gone"} THEN "trying" ELSE remote
  /\ UNCHANGED <<reg, down, old>>

AnswerAnswered(c) ==
  /\ call[c].asked.answer > 0 /\ Reachable
  /\ Is(c, [Answered(call[c], "answer") EXCEPT !.state = "active"])
  /\ remote' = IF remote = "ringing" THEN "answered" ELSE remote
  /\ UNCHANGED <<reg, down, old>>

\* The answer to verto.modify may bring a description.
ModifyAnswered(c) ==
  LET r == Answered(call[c], "modify") IN
  /\ call[c].asked.modify > 0 /\ Reachable
  /\ Is(c, r) \/ (r.peer /\ Is(c, [r EXCEPT !.srd = "modify"]))
  /\ UNCHANGED <<reg, remote, down, old>>

HoldAnswered(c) ==
  /\ call[c].asked.hold > 0 /\ Reachable
  /\ \E s \in {"active", "held"} : Is(c, [Answered(call[c], "hold") EXCEPT !.state = s])
  /\ UNCHANGED <<reg, remote, down, old>>

\* hangup() closes whether or not its verto.bye was accepted.
ByeAnswered(c) ==
  /\ call[c].asked.bye > 0 /\ ~down
  /\ Is(c, Closed(Answered(call[c], "bye"))) /\ Forgotten
  /\ remote' = "gone"
  /\ UNCHANGED <<down, old>>

\* MUTANT: no catch before the then.
ByeFailedUncaught(c) ==
  /\ call[c].asked.bye > 0
  /\ Is(c, Answered(call[c], "bye"))
  /\ UNCHANGED <<reg, remote, down, old>>

ByeFailed(c) ==
  /\ call[c].asked.bye > 0
  /\ Is(c, Closed(Answered(call[c], "bye"))) /\ Forgotten
  /\ UNCHANGED <<remote, down, old>>

SetupFailed(c) ==
  /\ \E q \in {"invite", "answer"} :
       /\ call[c].asked[q] > 0
       /\ Is(c, HangupWithBye(Answered(call[c], q)))
  /\ UNCHANGED <<reg, remote, down, old>>

ChangeFailed(c) ==
  /\ \E q \in {"modify", "hold"} : call[c].asked[q] > 0 /\ Is(c, Answered(call[c], q))
  /\ UNCHANGED <<reg, remote, down, old>>

\* verto.media, verto.answer and verto.bye reach the registered object, if any.
ToRegistered(handled) ==
  call' = IF reg = None THEN call ELSE [call EXCEPT ![reg] = handled[reg]]

OnMedia(r) ==
  IF r.state \in Before.early THEN RemoteSdp([r EXCEPT !.gotEarly = TRUE]) ELSE r

OnAnswer(r) ==
  LET s == [r EXCEPT !.gotAnswer = TRUE] IN
  IF r.state \notin Before.active THEN s
  ELSE IF r.state = "early" THEN [s EXCEPT !.state = "active"]
  ELSE IF r.gotEarly THEN s ELSE RemoteSdp(s)

VertoMedia ==
  /\ remote = "trying" /\ ~down
  /\ remote' = "early"
  /\ ToRegistered([c \in Calls |-> OnMedia(call[c])])
  /\ UNCHANGED <<reg, down, old>>

VertoAnswer ==
  /\ remote \in {"trying", "early"} /\ ~down
  /\ remote' = "answered"
  /\ ToRegistered([c \in Calls |-> OnAnswer(call[c])])
  /\ UNCHANGED <<reg, down, old>>

VertoBye ==
  /\ remote \notin {"none", "gone"} /\ ~down
  /\ remote' = "gone"
  /\ ToRegistered([c \in Calls |-> HangupLocally(call[c])]) /\ Forgotten
  /\ UNCHANGED <<down, old>>

VertoInvite ==
  /\ remote = "none" /\ Fresh = Calls /\ ~down
  /\ remote' = "ringing"
  /\ \E c \in Calls : Is(c, [Unused EXCEPT !.state = "ringing"]) /\ reg' = c
  /\ UNCHANGED <<down, old>>

\* verto.attach, after a reconnection: the registered object is hung up without
\* a verto.bye and a new one takes its place.
VertoAttach ==
  /\ remote = "answered" /\ ~down
  /\ \E d \in Fresh :
       LET built == IF AutoRecover
                    THEN WithPeer([Unused EXCEPT !.state = "new"], "answer")
                    ELSE [Unused EXCEPT !.state = "recovering"]
       IN call' = [Dropped EXCEPT ![d] = built] /\ reg' = d
  /\ UNCHANGED <<remote, down, old>>

----------------------------------------------------------------------------
User(c) == Answer(c) \/ AnswerAgain(c) \/ Hangup(c) \/ Hold(c) \/ RestartIce(c)

Browser(c) ==
  \/ MediaGranted(c) \/ MediaEmpty(c) \/ MediaRefused(c)
  \/ NegotiationNeeded(c) \/ Described(c) \/ DescribeFailed(c)
  \/ IceCandidate(c) \/ IceGathered(c) \/ IceTimeout(c)
  \/ IceFailed(c) \/ IceConnected(c)
  \/ RemoteSet(c) \/ RemoteRejected(c)

Old(c) ==
  \/ OldMedia(c) \/ OldRefused(c) \/ OldDescribed(c)
  \/ OldCandidate(c) \/ OldGathered(c) \/ OldTimeout(c)

Settled(c) ==
  \/ InviteAnswered(c) \/ AnswerAnswered(c) \/ ModifyAnswered(c) \/ HoldAnswered(c)
  \/ ByeAnswered(c) \/ ByeFailed(c) \/ SetupFailed(c) \/ ChangeFailed(c)

Server == VertoMedia \/ VertoAnswer \/ VertoBye \/ VertoInvite \/ VertoAttach

Next ==
  \/ Invite \/ Disconnect \/ Server
  \/ \E c \in Calls : User(c) \/ Browser(c) \/ Old(c) \/ Settled(c)

Spec == Init /\ [][Next]_vars

\* A request is answered or times out (Connection.ts); the browser settles
\* setRemoteDescription().
FairSpec ==
  /\ Spec
  /\ \A c \in Calls :
       /\ WF_vars(ByeAnswered(c) \/ ByeFailed(c))
       /\ WF_vars(RemoteSet(c) \/ RemoteRejected(c))

----------------------------------------------------------------------------
\* Properties.

CallType == [
  state : States \cup {"unused"},
  gotEarly : BOOLEAN, gotAnswer : BOOLEAN, timer : BOOLEAN, done : BOOLEAN,
  attempts : 0..MaxAttempts,
  peer : BOOLEAN, type : {"none", "offer", "answer"}, neg : BOOLEAN, twice : BOOLEAN,
  media : {"none", "asked", "held", "stopped"}, pc : {"none", "open", "closed"},
  needed : BOOLEAN, making : {"none", "offer", "answer"}, refused : BOOLEAN,
  sig : {"stable", "local", "remote"},
  desc : {"none", "offer", "answer"}, cands : BOOLEAN, gather : BOOLEAN,
  srd : {"none", "first", "modify"}, asked : [Requests -> Nat],
  invites : Nat, restarts : 0..MaxRestarts]

\* Type correctness of the objects, the registry and the server's side.
TypeOK ==
  /\ call \in [Calls -> CallType]
  /\ reg \in Calls \cup {None}
  /\ remote \in {"none", "ringing", "trying", "early", "answered", "gone"}
  /\ down \in BOOLEAN
  /\ old \in [Calls -> [at : OldStages, timer : BOOLEAN]]

\* No RTCPeerConnection stays open behind a call that let go of its peer, whichever
\* of answers, failures, attaches and media errors ended the call
\* (BaseCall.hangup, _finalize).  It is about the connection of this.peer: the one a
\* second answer() replaced, old, is open behind the call for good (BaseCall.ts:142).
OpenPeerIsHeld == \A c \in Calls : call[c].pc = "open" <=> call[c].peer

\* session.calls never leads to a call that was destroyed, although several
\* callbacks can destroy a call and destroy it again (BaseCall._finalize).
RegisteredIsLive == reg # None => call[reg].state \notin {"unused", "destroy"}

\* While the connection is open, a description that has still to be sent is on its
\* way: the stream, a negotiation or candidates are to come, or the browser owes an
\* event that will not be skipped; it fires once the last offer was answered
\* (Peer._negotiating, BaseCall._iceDone).  Excepted is a negotiation that failed:
\* Peer logs the error and nothing is coming any more (Peer.ts:119, 137).
DescriptionIsComing ==
  \A c \in Calls :
    LET r == call[c] IN
    r.pc = "open" /\ ~r.done =>
      r.media = "asked" \/ r.making # "none" \/ r.gather \/ (r.needed /\ ~r.neg) \/ r.refused

\* A call loses its place in session.calls only with its connection closed, so that
\* what the server says of an open call reaches it and an attach finds what it has to
\* close (VertoHandler.handleMessage, BaseCall._finalize); excepted is the verto.bye
\* of an object it replaced, which settles late and deletes the id.
KeepsItsPlace ==
  [][\A c \in Calls :
       reg = c /\ reg' # c =>
         \/ call'[c].pc # "open"
         \/ \E d \in Calls \ {c} : call'[d].asked.bye < call[d].asked.bye]_vars

\* One verto.invite for a call, though the ICE timer, the end of gathering and a
\* second description each may send it; stated where restartIce() is not used,
\* whose offer may become a second invite (BaseCall.ts:928).
InvitedOnce == \A c \in Calls : call[c].invites <= 1

\* A verto.invite other than the first of its call, or of a call whose ICE was
\* restarted, goes out only while a verto.bye of that call does: the offer of a restart
\* becomes an invite (BaseCall.ts:928) for no call that is up.  Excepted are a session
\* that was disconnected, a call whose description was asked for twice, which sends
\* every description that follows (Peer.onSdpReadyTwice), and a call answered twice: the
\* answer of the connection that was replaced takes it back to answering.
InvitesAgainAfterBye ==
  [][\A c \in Calls :
       call'[c].invites > call[c].invites =>
         \/ call[c].invites = 0 /\ call[c].restarts = 0
         \/ call[c].asked.bye > 0 \/ call[c].twice \/ down \/ old[c].at # "none"]_vars

\* A call that was active is active or held until it is hung up: no late answer
\* or description takes it back to an earlier state (BaseCall.setState); stated where
\* ICE is not restarted and the application answers once.
NeverFallsBack ==
  [][\A c \in Calls :
       call[c].state \in {"active", "held"}
         => call'[c].state \in {"active", "held", "hangup", "destroy"}]_vars

\* A call that is being hung up is destroyed in the end, also when the server does
\* not answer its verto.bye (BaseCall.hangup).
HangupEnds == \A c \in Calls : call[c].state = "hangup" ~> call[c].state = "destroy"

\* A call the other side answered becomes active, or ends: also when the answer
\* comes while the description of early media is being set (BaseCall.handleMessage,
\* _onRemoteSdp).
AnsweredConnects ==
  \A c \in Calls :
    call[c].gotAnswer ~> call[c].state \in {"active", "held", "hangup", "destroy"}

=============================================================================

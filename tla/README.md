# A TLA+ verification of the SignalWire JavaScript SDK

This directory holds TLA+ models of the SDK in `src/packages` (the `common` core and the `node`,
`js` and `react-native` packages over it), TLC configurations that check them on small instances,
and TLAPS proofs of their main invariants for every value of the constants. `PROJECT.json` relates
every definition to the lines it translates, lists what each run checks, and gives for every
property a mutation of the code's model that breaks it. Paths below are relative to
`src/packages/common/src` unless they name a package.

Contents: [1 The system](#1-the-system) · [2 The modules](#2-the-modules) ·
[3 The runs](#3-the-runs) · [4 Fairness](#4-fairness) · [5 The proofs](#5-the-proofs) ·
[6 Where code and documentation disagree](#6-where-code-and-documentation-disagree) ·
[7 What is not modelled](#7-what-is-not-modelled) · [8 The plan](#8-the-plan)

## 1 The system

The SDK is single-threaded JavaScript. What makes it hard is not shared memory but *time*: an
`await`, a timer or a socket callback separates the moment a decision is taken from the moment its
effect happens, and the event loop may run anything in between. Every action of the models is
therefore one callback run to its next `await`, and the models let callbacks follow each other in
every order the event loop allows.

```
   application
       |   connect, execute, disconnect        dial, play, waitFor ...      newCall, answer, hangup ...
       v                                              v                             v
  +--------------+   requests, answers    +----------------------+   +---------------------------+
  | BaseSession  |<---------------------->| Calling, Call,       |   | BrowserSession,           |
  |  Setup       |                        | components, actions  |   | VertoHandler, BaseCall,   |
  |  Connection  |---- notifications ---->| (Relay)              |   | Peer (Verto, WebRTC)      |
  +--------------+                        +----------------------+   +---------------------------+
       |  ^                                                             |            ^
       v  |  WebSocket: open, message, error, close                     v            |
     server                                                       RTCPeerConnection, media
```

`services/Handler.ts` is the glue: a global registry from (event, unique id) to callbacks, through
which sockets, answers and notifications reach their receivers.

### Components

| Component | State it keeps | Operations | Hard behaviour | Correct when |
|---|---|---|---|---|
| **Session**: `BaseSession.ts`, `services/Connection.ts`, `services/Setup.ts` | the current socket, `_idle`, `_autoReconnect`, the reconnect timer, `_executeQueue`, request handlers and timers, `_pong` and the keepalive timer, `expiresAt` | `connect`, `execute`, `disconnect`, `refreshToken`; socket events; answers; timers | two sockets at once; timers whose handle was overwritten; a handshake that outlives its socket; a flush that meets another idle period | one live socket; a reconnect is always owed; a dead peer is noticed; no message lost; every request settled |
| **Relay call**: `relay/calling/Call.ts`, `components/`, `actions/`, `results/` | `state`, `peer`, the list of components with their blockers | every calling method, sync and async; `stop` and its kin; notifications by control id or by tag; the end of the call | a request that fails after the notification that completed it; notifications in any order; a method called while the call ends | whoever waits is released once and told the truth |
| **Call list**: `relay/calling/Calling.ts` | `_calls` | `newCall`, `dial`, routing of `state`, `dial`, `receive` | two objects for one server call; a tag before there is an id; legs that lose | a notification reaches the object the application holds; ended calls are forgotten |
| **Browser call**: `webrtc/BaseCall.ts`, `Peer.ts`, `Call.ts` | `state`, the peer connection, the ICE flags, the local stream | `invite`, `answer`, `hangup`, `hold`, `restartIce`; media, negotiation and ICE callbacks; verto messages | descriptions prepared asynchronously while the call changes; the ICE timer against the end of gathering; `verto.answer` inside `setRemoteDescription` | one connection, one invite; nothing leaks; a hangup ends; an answer connects |
| **Verto routing**: `webrtc/VertoHandler.ts`, `BrowserSession.ts` | `session.calls` | `handleMessage`, `verto.attach`, `disconnect` | an object replaced by another with the same id, with promises of the first pending | the registered object is the live one |
| **Conference channels**: `VertoHandler._handlePvtEvent`, `BaseCall.handleConferenceUpdate`, `vertoSubscribe`, `_addSubscription` ... | `session.subscriptions`, callbacks of channels, `call.channels` | join, part, subscribe, unsubscribe, live array packets, loss of the connection | decisions on subscriptions taken before an `await` and applied after it | one callback per subscribed channel; calls and channels refer to each other |
| **Handler**: `services/Handler.ts` | per event and unique id a list of callbacks | `register`, `registerOnce`, `deRegister`, `deRegisterAll`, `trigger` | callbacks that change the list that is being walked, trigger again, or throw | a once-callback runs once; whoever stays registered is called; only the removal of entries still ahead disturbs a walk |
| **Local media**: `webrtc/BaseCall.ts:291-357`, `Call.ts`, `Peer._init`, `webrtc/helpers.ts` | the local stream, the track each sender carries, `screenShare` | `setAudioInDevice`, `setVideoDevice`, mute and unmute, `startScreenShare`, `hangup` | device changes that await `getUserMedia()` at once; streams that arrive after the hangup | what captures is held, so that it can be stopped; the call stops it; mute reaches what is sent |
| **Relay consumer and contexts**: `node/src/relay/RelayConsumer.ts`, `services/Receive.ts`, `relay/Relay.ts`, `services/BroadcastHandler.ts` | `session.contexts`, the callbacks under `relayProtocol` | what `run()` does at every Ready: `Receive`, then `onReceive` and `onStateChange` of calls, messages and tasks | repeated at every reconnection; the close of an old socket empties both | contexts and callbacks come and go together |
| Sending messages and tasks, layouts, REST, storage, SDP and device helpers, React Native, the client constructors | none, or only what the application gave | one request each | - | not modelled, see section 7 |

Interactions: a call sends requests through `BaseSession.execute` and is told by its promise, which
the session settles with an answer or with the timeout of the request (10 s, `Connection.ts:114`).
Notifications come up through `BroadcastHandler` and `VertoHandler`. The list of hazards in
`PROJECT.json` names, line by line, where these interactions can go wrong and which property looks
at each.

## 2 The modules

| Module | Models | Uses |
|---|---|---|
| `Session` | the session with its connections | `Outbox` |
| `Outbox` | abstract: what `execute()` promises of the messages handed to it | |
| `Components` | the kinds of component of a Relay call, and what each handler makes of an event | |
| `RelayCall` | one Relay call with its components | `Components`, `Operations` |
| `Operations` | abstract: what a call promises of its waiting methods | |
| `Calling` | the list of Relay calls and the routing to it | `Components`, `Operations` |
| `WebCall` | one browser call id: Call objects, Peer, RTCPeerConnection, verto messages | |
| `Conference` | conference channels, subscriptions and their callbacks | |
| `Handler` | the lists of callbacks of one event, and the walks of `trigger()` over them | |
| `LocalMedia` | tracks, senders, device changes, mute and screen shares of a browser call | |
| `Consumer` | a Relay consumer with its contexts and callbacks, on the whole session | `Session` |
| `MC...` | what TLC needs: symmetry, and definitions for constants a .cfg cannot write | the module they name |
| `...Proofs` | theorems and proofs | the module they name |

Operators marked *Mutant* are altered copies of a definition, used only to see that the properties
notice; no specification refers to them.

### Session

One JavaScript object with its sockets. `sock[s]` is the `readyState` of each WebSocket ever made
(with `errored`: the error event has fired and the close event is to come), `ws` is
`Connection._wsClient`. `hs[s]` says where the `_onSocketOpen` call of socket `s` is suspended:
at `blade.connect`, at the setup request, at the subscription, done, or rejected. Requests in flight
are pairs of the request and the socket that carries it, since an answer can only arrive on a socket
that is still open, while the timer of a request outlives it. `timer` is the reconnect timer that
`_reconnectTimeout` refers to; `orphans` counts those armed but no longer referred to, because the
error and the close event of one socket both arm one (`BaseSession.ts:286`). `loops` are the armed
keepalive timers, one per handshake that ended, of which `_keepAliveTimeout` (`beat`) refers to one.

| Action | Code |
|---|---|
| `UserConnect`, `Connect` | `connect()` |
| `UserExecute`, `Execute`, `ExecuteAll` | `execute()`: sends, or queues and connects |
| `Disconnect`, `DisconnectDone` | `disconnect()` before and after its `await` |
| `UserRefresh` | `refreshToken()` |
| `SocketOpen`, `ConnectAnswered`, `SetupAnswered`, `HandshakeDone` | `_onSocketOpen()` between its awaits |
| `SocketError`, `SocketClose`, `OnCloseOrError` | `_onSocketCloseOrError()` |
| `BladeDisconnect` | the `blade.disconnect` message |
| `TimedOut`, `CloseConnection` | a request's timer, and what `execute()` does about it |
| `ReconnectTimer`, `KeepAliveTick`, `TokenExpires` | the timers and the clock |

History variables `wanted`, `fate` and `sent` record what the application asked for and what became
of its messages; no action is guarded by them except that each message is executed once.

### Outbox

The promise to whoever calls `execute()`: a message is sent at once or waits; what waits leaves
together, sent by a handshake or dropped by `disconnect()`; what was sent stays sent, and what was
dropped is never sent. `Session` implements it under the mapping `status <- Standing`, which reads the
history variables and nothing of sockets, queue, timers or handshakes: a flush and a drop may happen at
any time in `Outbox`, and the refinement says that `Session` does nothing else to a message. A message
counts as sent from its first transmission on (that later handshakes repeat it is in section 6).

### Components and RelayCall

`Components` gives, per kind of component, its event type, the events the server sends, the
events that complete it (`Final`), those that are a success, and those the waiting method passes to
`_waitFor` (`Waits`); `Handle` is `notificationHandler`, a function from a component and an event to
a component. `Terminate` and `Release` are `terminate()` and `blocker.resolve()`.

`RelayCall` adds the call: a method of the application is `Call` (waits), `CallAsync` (does not) or
`WaitFor`; each adds a component and executes it in the same step, as the code does. `ExecuteAnswered`
and `ExecuteFailed` settle the request. `ControlChange`, `TagChange`, `ConnectChange` and
`StateChange` are the notifications; `Hears` is the filter of `_notifyComponents` (event type,
control id or tag, not completed). `StateChange` includes the termination of all components when
the call ends. A control id is the component itself or `"tag"`; the difference is kept because it
decides who hears what. Components are bounded by `Comps`, never by time: once started, a component
stays in the list, as in the code.

### Operations

The promise to the caller: a method begins `running` (or `failed` at once when the call is over),
becomes `succeeded` or `failed` once, and stays so. `RelayCall` implements it under the mapping
`over <- Ended`, `phase <- OperationPhase`, where the phase of a component is read from the live
component, as `results/BaseResult.ts` does. That a result *could* change after it was returned is
what the refinement excludes. `Calling` implements it once more, for `dial()`, under `over <- FALSE` and
`phase <- DialPhase`: until `dial()` returns, the end of its call, the outcome the server announces and
the failure of its request compete. The request may fail at any point, also when legs exist or the dial was
answered (`BaseComponent.ts:60`), and then prevails; what `dial()` has returned, nothing changes.

### Calling

`calls` is the ordered list `_calls`; `obj` the Call objects, `leg` and `dialing` the server's calls
and dials. The tag of a call is the object itself. The `request` of a dial is answered (`DialAccepted`),
refused (`DialRefused`) or given up on this side while the server goes on (`DialTimedOut`), in any order with
the notifications. The legs of a dial to several devices are tried at once, one after the other, or both:
`LegCreated` asks only that no leg has been answered. `OnState`, `OnDial`, `OnReceive` are the three
routing handlers; the server's actions (`LegCreated`, `LegAdvances`, `DialAnswered` ...) each notify
the client in the same step, in the order the server does things. Call objects are made by the list
itself for legs of a dial to several devices and for unknown calls.

### WebCall

A record per Call object holds the fields of `BaseCall`, its `Peer` and the RTCPeerConnection. The
browser is modelled from how the code uses it: negotiation is owed after a track is added or
`restartIce()`, is signalled in a stable state, a closed connection settles nothing more. `reg` is
both `session.calls[id]` and the object whose MediaError callback is registered under the id.
A description that cannot be made or set on an open connection ends the negotiation without a word
(`DescribeFailed`). A second `answer()` while the call rings (`AnswerAgain`) replaces the peer: the connection
before it, which nobody closes, goes on with its handlers bound to the call, and `old` follows how far it is:
its media, its description, its candidates, the ICE timer that it armed. One such connection per object is
followed, and not its stream, and it is replaced before a second description was asked for. Operators on a record (`Negotiates`, `OnIceSdp`, `Sends`, `Restarted`, `Closed`, `AfterRemote`) are
the methods; actions combine them with what the object's surroundings do. Requests are counted per
kind (`asked`), because a call may have several under way, and are answered, refused, or dropped by
`disconnect()`. `verto.attach` hangs the registered object up and makes another.

### Conference

`subs` is `session.subscriptions[relayProtocol]` (the call a channel is booked for, `None`, or
`Absent`), `handlers` the callbacks registered for each channel, `req` the requests in flight
together with what follows their answer: the next channel of `handleConferenceUpdate`, or the
`bootObj` request of the live array. The call that an unsubscribe is about (`Leaving`) is chosen
before the `await` and kept in the request. `SocketCloses`, `LateClose` (the close event of an
earlier socket, which comes when the session is on a new one) and `Disconnect` empty the
subscriptions while requests are pending; these requests are `lost` and can only time out. One call of the
session at a time is a member of the conference (`Join`).

### Handler

A list is always in the order of registration, because `register` pushes and `deRegister` splices. A
registration is therefore its number, a list the set of its registrations, and an array index the
`Rank` of a number in that set. `walks` is the stack of `trigger()` loops: the application's code runs
between events and inside the callback that the innermost loop has just called (`CodeRuns`), and may
then do anything a caller of `Handler` may do, `trigger` included.

| Action | Code |
|---|---|
| `Register` | `register()` and `registerOnce()`, which wraps the callback first |
| `DeRegister`, `DeRegisterList`, `DeRegisterAll` | the three ways to remove |
| `Trigger` | `trigger()` up to its loop: the length is read once, GLOBAL replaces a missing list |
| `Visit` | one round of the loop, with the deregistration in the wrapper of `registerOnce()` |
| `WalkEnds` | the end of the loop, and the propagation to GLOBAL |
| `TypeErrorThrown`, `CallbackThrows` | the list became shorter than the index; a callback throws: loops are left up to a caller that catches |

A walk carries as history who stayed in the list since it began, whom it called, and whether all that
were removed had been called already or were behind (`intact`).

### LocalMedia

`tracks` are the tracks the browser gave, in order; `live` those that capture. `stream` is
`options.localStream` of each Call object, `sender` the track its RTCRtpSender of each kind was given
last. A device change is two steps, `ChangeDevice` before its `getUserMedia()` and `DeviceChanged`
after it, which works on the stream the call has *then*; any number up to the bound overlap. Muting reaches
the tracks of the stream (`Reaches`), and none while the stream is awaited; `wish`, a history, is what the
application said of a kind since its track came. The
signalling of the call (module `WebCall`) is reduced to up, hanging up with a `verto.bye` awaited, and
destroyed. `startScreenShare()` makes a Call object of its own, `ScreenShared`, after
`getDisplayMedia()`; `Call.hangup()` hangs the share it holds up first (`HungUp`). The browser ends a
track by itself with `TrackEnds`; for a display that is the user's "stop sharing", which hangs up the
share that the call holds at that moment. `replaceTrack()` is taken to be accepted while the
connection is open.

### Consumer

EXTENDS `Session`: each action of the consumer is an action of the session with what the consumer adds,
and `Msgs` are its `signalwire.receive` requests. `BecomesReady` is the end of the handshake up to the
Ready event, `OnReady` the callback of `run()`: with the contexts listed, `Receive` answers at once
and the callbacks are registered; otherwise the request is executed, and `ReceiveAnswered` or
`ReceiveTimedOut` resume it. `SocketEnds` is any socket's error or close, which empties contexts and
callbacks (`Wiped`); `disconnect()` forgets the protocol and leaves the contexts. The consumer's
contexts are asked for, granted and forgotten together, and so are its callbacks, so one Boolean
and one counter stand for them.

## 3 The runs

Every run explores its instance completely. Bounds are constants of the modules.

| Run | Instance | Shows |
|---|---|---|
| `session_queue` | 2 sockets, 2 messages, connect, execute and disconnect, queue of 3, 1 orphaned timer, no keepalive | `NothingLost`, `ReadyMeansFlushed`, `ImplementsOutbox` |
| `session_live` | 2 sockets, keepalive, tokens that expire and are refreshed, fair | `DeadPeerWatched`, `KeepsReconnecting`, `SentIsSettled`, `DeadPeerDropped` |
| `call` | 2 components of any two of ten kinds, fair | `CompletedIsReleased`, `EndedStopsAll`, `BeepIsAwaited`, `ImplementsOperations`, `EndReleases` |
| `calling` | 4 Call objects, at most 2 of them dialed, 2 server calls | `HeldIsFound`, `FollowsItsLeg`, `DialIsSettled`, `EndedIsForgotten`, `CallsGoForward`, `DialsAreOperations` |
| `web_setup` | 1 object, every operation with a second `answer()`, 1 ICE restart, 1 automatic attempt, descriptions without candidates | `DescriptionIsComing`, `InvitesAgainAfterBye` |
| `web_attach` | 2 objects of one id, descriptions without candidates, no hold, fair | `OpenPeerIsHeld`, `RegisteredIsLive`, `KeepsItsPlace`, `InvitedOnce`, `NeverFallsBack`, `HangupEnds`, `AnsweredConnects` |
| `conference` | 2 calls, 3 channels, 2 requests and 1 `bootObj` in flight | `HandledOnce`, `OwnerKnows`, `OwnerIsServed` |
| `handler` | 2 callbacks, an id and GLOBAL, 4 registrations, walks nested twice | `OnceIsOnce`, `StayersHeard`, `IntactWalk` |
| `local_media` | a call and 1 screen share, 4 tracks, 2 device changes of one kind at once | `HeldIsAll`, `EndStopsAll`, `MuteLasts` |
| `consumer` | 2 sockets, 2 Receive requests, keepalive, connect, execute and disconnect | `LiveIsCurrent`, `ReconnectOwed`, `ListedIsHeard`, `DeafOnlyWithExcuse` |
| `session_final`, `call_connect` | the smallest that shows it | a statement of the repository that the code does not keep (section 6) |

The type invariants (`TypeOK` of each module, `ConsumerTypeOK`) are theorems, for every value of the
constants, and no run repeats them. `LiveIsCurrent` and `ReconnectOwed` of `Session` are checked in the
`consumer` run, where the session has all its operations and the consumer on top of it.

Why the bounds are enough for the interesting cases:

- *Two sockets* are the least for a stale close event, a request whose answer's socket was replaced,
  a timer of an earlier handshake and a second keepalive loop. A third appears in `session_final`,
  which needs a socket that fails, its successor, and the one that should not be.
- *One orphaned timer* is reached by the error and close of one socket. More of them repeat the same
  step (`ReconnectTimer` calls `connect()`, which does nothing when a socket is alive).
- *Queue*: two messages and a setup request of a dead handshake can meet in it; in `consumer`, requests
  and a ping.
- *Two messages* are the least that shows them leaving the queue together, as `Outbox` says, and one that
  is executed between a flush and the next idle period while the other is waiting or dropped. The
  keepalive is off in this run and on in `session_live` and `consumer`; the proofs include it.
- *Two components*: the properties of a call relate a component to the call or to its own past;
  two show that notifications keyed by tag reach several. The ten kinds stand for all seventeen:
  each of the others has the handler of one of these (`play`, `fax`, `tap`, `sendDigits` and
  `prompt` that of `record`; `refer` that of `dial`, and hears nothing else by its tag; `detect` that of `beep` without the beep), and the proofs are for all.
- *Four objects, two calls*: a dial to two devices with a winner and a loser needs three objects (its
  own, one per leg); the fourth is a second dial, or both calls are a call and its peer, or inbound.
  The constraint `TwoDials` leaves out a third dial: with two calls at the server it meets nothing the
  second does not. The
  request may fail at any point. The proofs cover any number of objects and calls.
- *Two calls, three channels, two requests*: a rejoin by another call while the part of the first is
  being answered, with a subscription chain running. The proof covers any number.

- *Four registrations, two nested walks*: a walk over two entries of one list, in which a callback
  removes one, adds another and triggers a walk over GLOBAL that removes again. The proof covers any
  number and depth.
- *One share, four tracks, two changes*: microphone and camera, and two changes that overlap, of one
  kind or of both; or one change and a share. The proof covers any number.
- *One object in `web_setup`, two in `web_attach`*: every operation, with one restart, of the application's or
  automatic, and a second `answer()`, on one object; and an object that is replaced while promises of it are
  pending. The proof of `DescriptionIsComing` has any number of restarts and both answers. Hold is left out of the second to keep it
  small: it adds a request and the state held, which the proofs of its three safety properties include,
  and neither liveness property depends on it (a call on hold has connected, and is hung up as another).
- *Two sockets, two requests of the consumer*: a first Ready, the loss of the socket, and a second
  Ready whose Receive meets the late close event or the late answer of the first.

`CHECK_DEADLOCK FALSE` is used where the system may stop: every socket of the instance is used up,
the call is over, or the objects are exhausted. In `conference` and `handler` it is checked.

What leaves the state space unbounded in the code and is bounded here: sockets, messages, orphaned
timers and queue (`Session`); components, and one control request per action (`RelayCall`); Call
objects (`Calling`); ICE restarts, one `verto.bye` and one hold request of a call at a time
(`WebCall`); requests and `bootObj` in flight (`Conference`); registrations and nesting (`Handler`);
tracks, and changes awaited at once (`LocalMedia`); Readys that ask (`Consumer`).

## 4 Fairness

- `Session`: timers that are armed fire (reconnect, request, keepalive), an awaited storage
  operation returns, a socket that was told to close or that failed emits its close event (the
  WebSocket standard promises it), and one that is connecting opens or fails. The application, the
  answers of the server and network failures owe nothing: `SentIsSettled` holds because of the
  request's own timer alone.
- `RelayCall`: a request is settled by an answer or a failure. This is `SentIsSettled` of `Session`.
  Nothing obliges the server to send a notification; `EndReleases` is stated for a call that did end.
- `WebCall`: a `verto.bye` is answered or fails, at the latest with its timer, and
  `setRemoteDescription` on an open connection is settled one way or the other. The other requests,
  the user, the media and the server's messages owe nothing.
- `Conference`, `Handler`, `LocalMedia` and `Consumer` state safety only, and no fairness.

## 5 The proofs

Each theorem is about `Spec` with the constants restricted only by the named `ASSUME`s of its
module. These say that `None` and its kind are not members of the sets they are distinguished from,
that the bounds are natural numbers, and that the kinds and operations are among those there are.

**`SessionProofs`.** `TypeCorrect`. `LiveSocketIsCurrent`: any number of sockets, no live one but
`_wsClient`. The argument is that only `connect()` makes sockets, and it makes one only when the
current one is dead, while `_closeConnection` forgets a socket only after telling it to close; with
`TypeOK`, `LiveIsCurrent` is inductive. `ReconnectIsOwed`: for a listening session that may
reconnect there is a live socket, a close event to come, or an armed timer. It is inductive with
`TypeOK` as well: each step that takes one of the three away leaves another (the timer calls
`connect()`; `_closeConnection` makes a close event due; the close event arms the timer).
`NoMessageIsLost` and `ReadyIsFlushed`: with the first, "ready means flushed" is inductive, because
what the flush of a handshake sends is the whole queue, and the queue holds all that was not sent. A
socket that opens must not be ready already; that is `Fresh` (a socket that never opened has no
handshake) together with `LiveSocketIsCurrent`. The
lemmas (`ConnectEffect`, `ExecuteAllOwed`, `CloseEffect` ...) state what each building block does
to the part of the state concerned, so that a step's proof names them.

`DeadPeerIsWatched` is inductive with `LiveIsCurrent` and `Fresh`: a handshake that ends arms the loop of its
socket, and the last round of a loop, which rearms nothing, closes the connection; since no other socket is
live, none is left open without its loop. `QueueImplementsOutbox`: every step maps to a step or a stutter of
`Outbox`. What makes it go through is `Accepted` (the queue holds accepted messages only, so a flush cannot
send a dropped one; nothing is sent that was not handed over) together with `NothingLost`, by which the
queue that `disconnect()` empties and a flush transmits holds *all* that wait, never some of them.

**`RelayCallProofs`.** The inductive invariant is
`IInv == TypeOK /\ (\A c : Sound(comp[c])) /\ GaveUpAtEnd /\ EndedStopsAll`.
`CompletedIsReleased` excepts what the code does not release: a `disconnect()` that is told "connected"
(`Stranded`; section 6). It is not inductive alone: to know that a notification that completes a component
releases its method one has to know which events it waits for (`waits = Waits(kind)` as long as it
has a blocker) and that `Waits` includes what is final, but for that event (`FinalAndWaits`). `GaveUpAtEnd` is for
`answer()`, which is released by the end of the call without completing. From it follow
`CompletionReleases`, `EndStopsAll`, and `ImplementsTheOperations`: the initial state maps to an
initial state of `Operations`, and every step maps to a step or a stutter.
`NoMachineBeforeItsBeep`: `BeepIsAwaited` is inductive with `IInv`, because only a component that is not
complete hears an event, and such a component is no success yet (`Sound`), so that one event decides.
All this is for every set of components, of all kinds.

**`ConferenceProofs`.** `IInv == TypeOK /\ HandledOnce /\ OwnerKnows /\ OwnerIsServed`, inductive as
it stands. `OwnerKnows` survives an unsubscribe that takes channels off a call chosen long before,
since the channels of the request have become `Absent` in the same step; `OwnerIsServed` survives
packets since a packet goes to the callback's call and books the channel for it. The lemmas
`FollowsKeeps`, `AddingKeepsHandled`, `RemovingKeepsHandled` treat the three ways answers change
the subscriptions.

**`HandlerProofs`.** `TypeCorrect`, `OnceIsAtMostOnce`, `WhoStaysIsHeard`, `OnlyRemovalsAheadHurt`, for
any callbacks, ids and registrations and walks nested to any depth. The invariant of a walk is
`WalkOK`: who stayed is in the list, and was called or has a rank not above the next index; and if the
walk is intact, none of the entries up to that index was called. It survives removals because a rank
never grows when a set shrinks, and because an entry whose removal shifts others across the index is
exactly one that `intact` counts. `RankOnto` (every index up to the length is the rank of an entry)
is the one fact that needs a counting argument. `OnceIsOnce` needs that a registration is in one list
only and that a once-callback that was called is in none.

**`LocalMediaProofs`.** `TypeCorrect`, `CapturedIsHeld`, `EndStopsCapture`, `MuteIsKept`, for any number of
screen shares, tracks and changes in flight. Four facts make them inductive: only the call itself
awaits `Peer._init` (`MainOnly`), a call without its stream has nothing else either (`Blank`), a stream
holds tracks of its own call (`Owned`), and a sender carries its kind (`SenderKind`). The last two give
`ReachIsExact`: the mute of one kind of one call reaches what that call sends of that kind, and nothing
another sender carries.

**`CallingProofs`.** `TypeCorrect`, `HeldCallsAreFound`, `CallsFollowTheirLegs`, `DialsAreSettled`,
`EndedCallsAreForgotten`, `CallsNeverGoBack`, `DialsImplementOperations`, for any number of Call objects and of calls at the server, and so for dials to any
number of devices. A leg that wins a dial has two objects with its id in the list, and
`getCallById()` takes the first. Hence the invariant is about the order of the list: `OneIsMine` (of two
objects with one id, one was dialed by the application) and `MineIsFirst` (it stands before those
made for its legs). The rest of `IInv` says what the objects and the server know of each other: an object
with an id is about a call of the server that belongs to its dial (`IdIsKnown`), one without an id is dialing
or unused (`NoIdYet`), a call of the server that has not ended has an object in the list (`LegsAreKnown`),
and the dial of an object agrees with the one at the server, unless its request failed (`DialsAgree`). The lemmas on the list
(`FoundById`, `AddedToList`, `RemovedFromList`) say what `find`, `push` and `splice` do to membership and
order; that a nonempty set of positions has a first one (`LeastExists`) is the well-foundedness of the
natural numbers, taken from the library. The last two theorems are about steps. An object that is matched
to a notification takes the state the server has just reached, so it goes forward if it was not ahead:
`Behind` (no object is ahead of the call it is about) is inductive with `IInv`, for the second object of a
winning leg too, which is not told everything. From the same case split, each step leaves a dial alone or settles one
that has not returned, which are the steps of `Operations`: `dial()` returns when both its request and its
component are settled, and a request that failed is settled for good.

**`WebCallProofs`.** `TypeCorrect`, `NoConnectionLeaks`, `RegistryIsLive`, `PlaceIsKept`,
`DescriptionComes`, `OneInvite`, `NeverBack`, `InvitedAgainAfterBye`, for any number of objects that an id goes through. The
invariant of the first four is
`IInv == TypeOK /\ (\A c : Sound(call[c])) /\ RegisteredIsLive`, where a sound record is one of its type
whose connection is open exactly as long as `peer` is held; it speaks of the connection of `this.peer`, and
the one a second `answer()` replaced is left open (section 6). `OldInv` gives the types of `old`, and that there
is nothing in it where the application answers once (`OneAnswer`, a hypothesis on `UserOps`). The browser call has many actions and a
record of some twenty fields, so the proof is split by what a step touches: the methods of one object
(`Negotiates`, `OnIceSdp`, `Closed` ...) take a sound record to a sound one, steps that leave the registry
alone follow from that at once, and only the six that change it (the answer to `verto.bye`, refused
media, `verto.bye`, `verto.attach`, an invite, `disconnect()`) are looked at with the other objects.
`PlaceIsKept` follows from the same case split.

The next three rest on a second invariant, `SInv`, of what is still to be sent and what was sent.
`Coming` is `DescriptionIsComing` of one object, failed negotiations excepted, with what makes it inductive: a
connection whose media are still awaited has not begun to negotiate (`Opened`). `OneInvite` and `NeverBack`
assume `NoRestarts`: ICE is not restarted and the application answers once, since a restart that is ready when
the call is being hung up is a second `verto.invite`, and a replaced connection sends its description when it
is ready, whatever became of the call (section 6). Under it
`Once` says that an object sends one description, that nothing is being prepared afterwards (`Quiet`), and
that the states after it are not reached before; and `OneOffer` relates the objects to the server, which
speaks of a call that was made only after it answered the one `verto.invite`. Each method and event of an
object is shown to lead from a record that fits to one that is `Fine` for it; the steps follow, and only
three (an invite of either side, the answer to `verto.invite`) need `OneOffer` to be looked at anew.

`InvitedAgainAfterBye` assumes `OneAnswer` and nothing of restarts, and says what a second invite takes: an offer becomes
an invite when the call is neither active nor held, and a call that restarted ICE leaves these states only
by being hung up. The invariant `AInv` follows the life of a call that is not `Spared`, that is, not being hung up,
not closed, and not described twice: `First` before its first restart (one invite, and up only after the server
answered it), `Again` after it (nothing is owed to the invite any more, and it is up, or an answered call
whose answer was sent). What ties it to the server is `Told`: while the server has not answered, it speaks to
the object that made the call (`Caller`), or to one that is spared. Three exceptions are in the property
because without them it does not hold: once a call has asked for a second description (`AsksAgain`), Peer
hands on every later one (`onSdpReadyTwice` stays set, `Peer.ts:162`), and `done` is not looked at there;
`BrowserSession.disconnect()` drops a `verto.bye` that waits in the queue, so that a call being hung up no longer
shows it; and the answer of a replaced connection takes a call that is up back to answering.

**`ConsumerProofs`.** `SessionIsImplemented`: a step of the consumer is a step of its session or leaves it
alone, so that every theorem of `SessionProofs` holds of it; `ConsumerKeepsSession` states the three that the
system built on it rests on. `ContextsAreHeard` needs `HeldTogether`:
callbacks stand under a protocol and for listed contexts, a session that is up has a protocol, and once
Ready was dispatched the listed contexts have callbacks. The lemmas (`ExecuteUps`, `CloseDowns`,
`EventUps`, `AnsweredUps`, `EndUps`) show that no step but the end of a handshake makes a session ready,
which rests on `LiveIsCurrent` and on `Fresh` of the session; `NeverDeafWithoutExcuse` is then inductive as it
stands.

**Only model-checked**: the six liveness properties, `KeepsReconnecting`, `SentIsSettled`, `DeadPeerDropped`,
`EndReleases`, `HangupEnds` and `AnsweredConnects`. Each needs a fairness condition and so `ENABLED`, which
is beyond these provers; the safety half of three of them is proved: `ReconnectOwed` (a reconnect is
always on its way), `DeadPeerWatched` (the timer that will notice a silent peer is always armed) and
`CompletedIsReleased`. Every safety property, action property and refinement that a passing run checks is a
theorem; `InvitedOnce` and `NeverFallsBack` under `NoRestarts`, as they are stated for calls whose ICE is not
restarted and that are answered once, and `InvitesAgainAfterBye` under `OneAnswer`: where a call is answered
twice, only its run checks it. No module declares RECURSIVE operators; what a recursive definition
computes for every input is not provable with these tools, and no theorem says it.

## 6 Where code and documentation disagree

Two disagreements are runs whose counterexample is the evidence (`findings` in `PROJECT.json`):

1. `session_final`: `disconnect()` clears the last reconnect timer (`BaseSession.ts:155`), the one
   whose handle was overwritten fires and reconnects.
2. `call_connect`: `Connect` listens under a control id of its own, `_connectChange` notifies under
   the tag of the call (`Call.ts:594`): the notification never completes `connect()`. The tests
   give every uuid the same value and cannot see it.

The rest were met while modelling. The models contain the steps; no run claims the contrary.

| Where | What happens | Said otherwise |
|---|---|---|
| `BaseSession.ts:381` | the queue of an idle period is flushed but never emptied: later handshakes transmit the same messages again (`sent` reaches 2 in `Session`) | `BaseSession.ts:377` |
| `BaseSession.ts:283` | the close of an expired session forgets the expiry that `refreshToken()` tests, so a refresh then queues a request on a session that stays idle | `BaseSession.ts:412` |
| `BaseSession.ts:157` | after `disconnect()` then `connect()`, a failed attempt is the last: `_autoReconnect` is false until a `blade.connect` is answered | `node/CHANGELOG.md:42` |
| `BaseSession.ts:88` | a request that times out closes the *current* connection, not the one it was sent on | `node/CHANGELOG.md:35` |
| `BaseSession.ts:156` | a subscription chain that times out after `disconnect()` executes its next request, which connects again; `disconnect()` leaves callbacks of the old protocol in `Handler` | `BaseSession.ts:151` |
| `BaseSession.ts:278` | the late close event of an old socket empties the subscriptions made on the new one | - |
| `Call.ts:335` | `waitFor()` says true for a state that was skipped | `node/tests/relay/Call.test.ts:940` |
| `components/BaseComponent.ts:47` | `waitFor('ended')` called while the call is ending says false | `Call.test.ts:932` |
| `components/BaseComponent.ts:60` | a request that fails after the notification that completed the component turns its outcome into a failure (of an asynchronous method; a waiting one has not returned yet) | `BaseComponent.ts:27` |
| `components/Controllable.ts:7` | `stop()` and the others send requests for a call that has ended | `node/CHANGELOG.md:68` |
| `components/Disconnect.ts:20` | a `disconnect()` that is told "connected" is completed by it without being released, is then skipped by the end of the call, and never returns unless its request fails (`Stranded` in `RelayCall`) | `Call.test.ts:1419` |
| `components/BaseComponent.ts:60` | the request of a dial that times out fails `dial()` while the server goes on: legs ring, and a call the application was told failed may be answered (`DialTimedOut`) | - |
| `Call.ts:190`, `:171` | `recordAsync()` and `pass()` on an ended call throw: the result is undefined | - |
| `components/Refer.ts:20` | two refers share one key: a notification completes both | - |
| `BaseCall.ts:977` | a call that `verto.bye` ended is set to trying or active by the answer to its `verto.invite` or `verto.answer` that comes later; it is not registered any more, so that `disconnect()` does not end it (`BrowserSession.ts:131`) | `BrowserSession.ts:128` |
| `BaseCall.ts:142` | `answer()` called again while the call rings replaces `this.peer`; the connection before it stays open with its handlers bound to the call, so that its description may be sent for the call, also when it is up | - |
| `Peer.ts:119`, `:137` | a failed `createOffer()`, `createAnswer()` or setting of a description is logged; nothing is sent and nothing retried, and the call stays as it is until it is hung up | - |
| `BaseCall.ts:1154` | the late `_finalize()` of a replaced object unregisters the object that replaced it; a third attach then leaves two connections | - |
| `BaseCall.ts:985` | after a failed `verto.modify`, or when one restart overlaps another, later ICE restarts do nothing | - |
| `BaseCall.ts:928` | the description of a `restartIce()` that is ready when the call is being hung up is sent as a new `verto.invite` | `BaseCall.ts:204` |
| `Peer.ts:84`, `BaseCall.ts:310` | the stream that `getUserMedia()` yields after the call was destroyed, at its start or for another device, is never stopped | - |
| `Peer.ts:84`, `BaseCall.ts:291` | a mute while `getUserMedia()` is awaited reaches nothing and is not remembered: the track that arrives is open | - |
| `BaseCall.ts:345` | a camera or microphone that replaces a muted one starts unmuted; a sender without a track makes the change throw | - |
| `webrtc/Call.ts:19` | a share whose `getDisplayMedia()` is awaited while the call is hung up starts, and is not hung up with it; a second share takes the place of the first, whose end then hangs up the second | - |
| `webrtc/Call.ts:20` | the end of a share that was hung up before sends another `verto.bye` | - |
| `Handler.ts:113` | a callback that removes an entry the walk has not reached makes the walk call another twice, or end in an uncaught TypeError that skips the rest and GLOBAL; a callback that throws does the latter too | - |
| `BaseSession.ts:216` | an application callback of `signalwire.socket.close` that was registered after `connect()` and calls `connect()` itself is an instance: the session's listener is taken off and put back while the walk is between them | - |
| `RelayConsumer.ts:67` | a callback may be registered twice, and then hear each call twice: a late handshake fires a second Ready with the contexts listed, or two Readys' Receives both wait in the queue. `ready()` of the application runs even when `Receive` failed | - |
| `BaseSession.ts:156` | `disconnect()` then `connect()` keeps `session.contexts`: the next Ready registers callbacks without asking the server, on the new protocol | `BaseSession.ts:151` |
| `BaseSession.ts:279` | the late close event of an old socket empties contexts and callbacks of the new one: the consumer is deaf until the next Ready (`excuse` in `Consumer`) | - |
| `BaseCall.ts:478` | `INVALID_PACKET` is never raised: the condition is joined to the name by `&&` | - |
| `VertoHandler.ts:181` | a part does not unsubscribe from channels whose subscription is still being answered | `VertoHandler.ts:165` |
| `BrowserSession.ts:402` | a call that joins before the previous part's unsubscribe is answered stays without live array | - |
| `webrtc/helpers.ts:249` | `alreadySubscribed` after a reconnection passes for success and registers no callback | - |

## 7 What is not modelled

- *Payloads*: SDP text, device lists, media parameters, record URLs, logging. Properties do not tell
  them apart. `relay/helpers.ts` prepares request parameters and is a candidate for a module of
  operators with a reference definition.
- *Session*: the awaits of the session storage inside a handshake (`Setup.ts:16`, `:25`), which are part of the
  steps before them: in Node and in the browser they return before another event is handled, on React Native they
  need not; `executeRaw` and the speed test, the notification timer of an expiring token, the Verto
  login of `js/src/Verto.ts`, whose `_onSocketOpen` has a login in the place of `blade.connect` and
  never flushes the queue.
- *RelayCall*: callbacks registered with `on`. They run between a notification and what follows it;
  what a callback calls is a user action of its own in the model, before or after the notification.
  The deprecated `detectHuman` and `detectMachine`.
- *Calling*: notifications lost while the session reconnects.
- *WebCall*: a third `answer()`, and a second one after a second description was asked for; the stream of the
  connection that is replaced, and the remote one.
- *WebCall* and *LocalMedia*: DTMF, messages, `CantinaAuth`; constraints, speakers, the remote stream and
  its statistics; a `replaceTrack()` that an open connection refuses.
- *Consumer*: the checks of host, project and token, and `setup`, `ready` and `teardown`, which are
  the application's; several contexts, and services used without a consumer.
- *Conference*: two calls of one session that are members of the same conference at once, and with them
  `_retrieveCallId()` (`VertoHandler.ts:139`), which finds the call of a packet whose callback has none; the serial number and contents of live array packets, moderator commands, layouts,
  and the part notification to the application.
- *Sending messages and tasks, REST, storage, SDP and device helpers, React Native, constructors*: one
  request with one answer, functions of text, or thin wrappers of a library; there is no interleaving
  to get wrong.
- *Bundled code*: `js/examples/citix-overrides/public` holds two built copies of earlier SDKs, some
  16 000 of the 26 000 lines that are not tests in the repository. They are not this code. Of the
  about 8 300 lines of `packages/*/src`, a third is mapped; most of the rest is interfaces, constants,
  constraints, SDP text, logging and the items above.

## 8 The plan

Done, in this order: the session (everything rests on it), the Relay call with the abstraction of its
methods, the call list, the browser call, the conference channels, the event registry, the local
media, the Relay consumer on the session; the proofs of `Session`, `RelayCall`, `Conference`, `Handler`,
`LocalMedia`, `Consumer`, `Calling` and `WebCall`.

Next, to prove: nothing that a run checks is left but liveness. Worth stating and proving are the order of
what `verto.bye` ends (`ByeAnswered` against the state `hangup`), and how much a late close event can take
from a conference.

Next, to model: the Verto login as a variant of the handshake of `Session`; the serial numbers of the
live array and the member list in `Conference`; `relay/helpers.ts` against a reference definition.

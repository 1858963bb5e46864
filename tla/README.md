# Altexo desktop: a TLA+ model

Altexo desktop is a holographic chat: a window (`al_ui`), a core that negotiates a call
(`al_core`), a signalling client (`al_json_rpc_client_2`), a WebRTC plugin
(`altexosdk`) and depth sensors (`al_kinect`, `al_realsense`, `al_fake_sensor`). The
parts are shared libraries, each with threads of its own, which call one another
directly. There are almost no locks: the program relies on the order in which
threads happen to call. That is what these modules are about.

## The system

| Part | State | Operations | Interacts by |
|---|---|---|---|
| `Manager` (al_core/src/manager.cpp) | both SDPs and their sent flags, two candidate queues, `m_processingCandidates`, `m_calling`, `connectionInitialized`, video setting, source | `AlWsCb` callbacks (ws thread), `AlSDKCb` callbacks (sdk thread), `setDeviceName`, `toggleVideo` (ui thread); `handleMessages` on both callback threads | direct calls on `m_wsClient` and `m_sdk`, each of which pushes on that component's queue |
| `AlRpc`/`AlWsClient` (al_json_rpc_client_2/src) | message counter, `m_requests`, `m_sdpOfferId`, send queue, `wsi_dumb` | `roomOpen`, `sendSdpOffer`, `sendSdpAnswer`, `sendIceCandidate`, `userMode`, `onMessage`, the service loop | signals to `Manager`; JSON-RPC with the server through libwebsockets |
| `AlSdkPlugin`, `CustomSocketServer`, `Conductor` (altexosdk/src) | message queue, peer connection, local stream, capturer, desired source | `Wait` (one message at a time), `InitializePeerConnection`, `OnMessageFromPeer`, `OnSuccess`, `OnFailure`, `OnIceCandidate` | callbacks into `Manager` on the WebRTC thread |
| `MainWindow`, `SceneRenderer` (al_ui/src) | dialogs, `sendingFrames` | device list, room dialog, toggle, one frame per rendering | calls `Manager` and `AlSdkPlugin` |
| `SensorDataFboRenderer`, `VideoStreamRenderer` (al_ui/src) | frame buffers, `m_newFrame`, a mutex (video only) | a frame arrives (sensor or WebRTC thread), a frame is drawn (ui thread) | called by sensors and by `Manager` |
| Sensors (al_kinect, al_realsense, al_fake_sensor) | device, running and new-frame flags | `init`, `requestNewFrame`, destruction | called by the Manager's frame thread, call the renderer |
| Settings (al_utils) | a property tree in a file | `get`, `set` | called by the window |

Not part of the application: `al_sdk`, `al_json_rpc_client`, `al_kinect_win` (earlier or
Windows variants), `AlteXo`, `recorder`, `recorder-test`, scripts, and vendored code.

### What is hard, and what should hold

* **Manager.** `handleMessages()` runs on two threads at once. Its flags are tested in one
  place and set in another. Candidates must stay behind the SDP of their side, in order,
  neither lost nor repeated; none may be left in a queue; an SDP should go out once.
* **Signalling.** Three threads make messages, one loop sends them, and the connection
  comes and goes. What is sent must be written, in order, across reconnections; a reply
  must find its request; a peer must end up as the one who opened the room or the one
  who calls; the answer must go to the offer it answers.
* **WebRTC plugin.** One thread, but every message depends on those before it: a
  candidate needs a description, a frame needs a capturer, `InitializePeerConnection`
  must find no peer connection.
* **Frames.** A sensor's thread and the window share two buffers guarded by one flag, and
  every selection of a sensor starts one thread more. A picture must not be drawn with the
  depths of another; what is sent must not be older than what was drawn; a frame that was
  handed over must be drawn.
* **Video stream.** The decoding thread and the window share a frame under a mutex, and its
  size and place under a flag only. What is shown must be whole, in its size, in its place.
* **Start-up and shutdown.** Plugins start threads before they are complete, and are taken
  down in an order nobody wrote down: threads are forgotten, or joined without being
  stopped, and objects are deleted before their users. A camera chosen early must be the
  one that is used; threads must end before what they call; a closed window must go away.

`PROJECT.json` lists these hazards one by one, at their lines.

## Modules

| Module | Stands for |
|---|---|
| `Handoff` | the abstract promise of one direction of a call: candidates wait behind a gate, which the SDP opens, and leave one by one; with the theorem of what follows from it |
| `Manager` | class `Manager` during a call, with `handleMessages()` split at every access to shared state |
| `Conductor` | `AlSdkPlugin`'s queue, `CustomSocketServer::Wait` and `Conductor`; the peer connection is external |
| `Peer` | `Manager` and `Conductor` composed into one end of a call, for each role |
| `Signalling` | `AlRpc` and `AlWsClient`; libwebsockets and the server are external |
| `Sensors` | the three sensor plugins' devices and `requestNewFrame()`, and the Manager's frame threads |
| `Frames` | EXTENDS `Sensors`: `SensorDataFboRenderer`, the sending of what was drawn, `m_imageBytes` and the `NEW_FRAME` messages |
| `Video` | `VideoStreamRenderer`: one stream from the decoder to the screen |
| `Scene` | `Frames` and `Video` composed by `MainWindow::_render()` |
| `Lifecycle` | the application from `main()` to exit: plugins, their threads, the choice of a device, the destructors |
| `MCManager`, `MCPeer`, `MCSignalling`, `MCScene` | instances for TLC; `MCManager` also holds the refinement mapping |
| `ManagerProofs`, `HandoffProofs`, `PeerProofs`, `SignallingProofs`, `VideoProofs`, `FramesProofs`, `LifecycleProofs` | theorems |

### Manager

Threads are `ui`, `ws` and `sdk`. `pc[t]` says where thread t is inside a callback. The
local and the remote half of `handleMessages()` have the same text, so they are one set
of actions over `Sides`; `side[t]` says which half t is in. In order of the code:

| Lines of manager.cpp | Actions |
|---|---|
| 319-330, 331-339 | `TestSdp`, `SendSdp`, `MarkSdp`, once per side |
| 340-341 | `TestDrain`, `Claim` |
| 342-347, 348-356 | `TestQueue`, `Front`, `Pop`, `SendCandidate`, once per side |
| 357, 360 | `Release`, `SendMode` |
| 362-365 | `TestConnected` |
| 224-227, 313-316 | `onIceCandidateCb`, `onLocalIceCandidateCb` (`NewCandidate`) |
| 386-432 | `setDeviceName`, `SetMode`, `ReadSource`, and `SetSource` (almanager.cpp:48-53) |

`SetConductor` is `AlManager::run()` setting `m_conductor`: what the SDK is told before is
forgotten (`forgotten`), and no callback of the SDK comes before. `Dequeue` is the WebRTC
loop taking a message.

A call on `m_wsClient` or `m_sdk` appends to `out["local"]` or `out["remote"]`: what the
signalling client is asked to send, and what the WebRTC thread will dequeue. Both are
unsynchronised `std::queue`s, and so are the two candidate queues. When two accesses that
change one of them overlap (two pushes, a push and a pop by the thread that drains or by
the WebRTC loop, two drain loops), what was pushed may be lost, and the variable `raced`
records it. Where the code has undefined behaviour, most properties can promise nothing, so
they are stated for `~raced`; `raced` is never assumed to stay false, and the steps after a
race are explored like any other, but for what the torn queue itself may do later. Two
stores of the video source that overlap are no such race: either may come last, and both
are behaviours that `SourceIsSelected` speaks of. `skipped` records that a
handler returned because another thread was draining. An error reply taken for an answer
ends the program (`Crash`), with the candidate a thread had taken out of its queue.

A direction of a Manager is mapped to `Handoff` by what it has: `taken` is the candidates
that arrived, `waiting` those in the queue and the one a thread has in its hand (`Pending`),
`passed` is `out`, and `broken` says that threads raced or the program ended. `Take` is
a candidate's callback, `Deliver` is `SendCandidate`, `Tell` every other push.

Abstracted: the text of SDPs and candidates (an SDP is its type and a number, a candidate
is its number of arrival), device names, `setConnectionMode` (it calls the empty
`sendMessageToPeer`), the two counters nobody reads. Accesses to one word (a flag, a
string's emptiness) are taken as atomic and sequentially consistent; tearing inside a
`std::string` is not modelled. A pop of the signalling client's send queue that overlaps a
push is in `Signalling`, not in `Manager`.

### Conductor and Peer

`Conductor` runs on one thread, a message per step. `Connect` and `FailToConnect` are the
outcomes of `InitializePeerConnection()`; `signaling` and `hasRemote` are what the peer
connection answers by. `Peer` gives the Conductor's inbox to be `out["remote"]` and its
source to be `dataSource`, makes a `Wait` that takes a message (`SdkTakes`) a `Dequeue` of
the Manager's, and lets a completion (`OnSuccess`, `OnIceCandidate`) enter the Manager in
the same step. While the WebRTC thread is inside the Manager it takes no message. `lost`
records that a stream was opened while the SDK had forgotten what it was told, or that an
older selection was passed on behind a newer. The environment follows the protocol, and
sends descriptions and candidates that parse: an enterer is told to start a call, and gets
an answer and candidates only after its offer; an opener gets offers, and candidates after
an offer; the window opens a room once, so a call is started once (`Entered`). What this
assumes of the other end, the theorems `GateHolds` (its Manager) and `FifoHolds` (its
signalling client) say of it.

### Signalling

Every message is made in steps: `Request` is the increment in `getMsgId()`, `Register` its
second read of the counter and the insertion in `m_requests`, `sendMessage` the push; that
`m_curRoomName` is written while `roomEnter` reads it is recorded in `raced`. A
notification or an answer has only the push. The loop is `Connect`, `AskWritable`, then
the events of `lws_service()`: `Established`, `Closed`, a WRITEABLE event in two steps
(`Front`, `Write`), a received message (`onMessage`, by kind), and `Return`. The server
answers `room/open` and `room/enter` with success or error, passes offers on, and forgets
a peer whose connection closes.

### Sensors and Frames

A picture is the number of its making; 0 is one that was never made, or a mixture of two.

| Code | Actions |
|---|---|
| alkinectplugin: `VideoCallback`, `DepthCallback`; alrealsenseplugin: `threadMain` | `PictureCallback`, `InitFinished`, `WaitForFrames`, `Publish` |
| `requestNewFrame()` of each plugin | `Request` (by plugin), `Lock`, `Take`, `Taken` |
| `SensorDataFboRenderer::newFrame()` | `TestRoom`, `SwapRgb`, `SwapDepth`, `SetNew` |
| `SensorDataFboRenderer::render()` | `RenderSensor`, `UploadRgb`, `UploadDepth`, `ClearNew` |
| `readGlFrame()`, `AlSdkPlugin::setImageData()` | `Send`, `CopyImage`, `PushNewFrame` |
| `CustomSocketServer::Wait`, `NEW_FRAME` | `Dequeue`, `ReadImage`, `Capture` |

RealSense holds `m_mutex` from `Lock` until `newFrame()` has returned, but the test before
it, and `wait_for_frames()`, are outside: `recycled` says that the device may be writing
where the pointers still point, and a picture taken then may be a mixture. An image has two
halves, which are copied one by one, by the window and by the WebRTC thread, in any order.

### Video and Scene

The decoder's steps in `updateFrame()` hold `m_remoteFrameMtx` from `LockFrame` to
`FinishFrame`, the window's from `LockScreen` to `Unlock`; `TestUpdate`, `ReadPlace` and
`ReadSize` of `render()` hold nothing. A frame is cut into the bytes before and after the
copy (`n` = 0 in between). The vertices are floating point and stand for the size and the
place they were computed from. `Scene` has the window's thread do one pass after another:
`ui` runs through `Frames`' part of `_render()`, then `draw` through `Video`'s.

### Lifecycle

`window` is where the window's thread is: `initSdk`, `initWsConnection`, `run`, the steps of
a selection (`findManager`, `findConductor`, `initSensor`, `unloadSensor`, `startSensor`),
then those of `~MainWindow`, `~Manager` and `exit()` in the order of the destructors.
`objects` is what exists; `Use` records in `broken` that something was used that did not,
and from then on `Fall` may end the program at any time. A NULL pointer ends it at once
(`Crash`). Whether a plugin's library is unloaded with its last reference, and its global
object destroyed with it, is the loader's choice: `unloads`, fixed at the start, and every
property holds for both or says which. `stray` is a device thread whose `m_internalThread`
was overwritten by a second `init()`; `events` is the thread libfreenect starts for itself,
which `~AlKinectPlugin` does not end. AlWsPlugin's own thread is `ws = "starting"` until it
calls `run()` (`StartService`), which may come late, even after `~AlWsClient`, which then
joined nothing. `onInitCall` reads the choice and `StoreSource` stores it: in between the user
may choose again. The list of cameras growing while the window reads it is in `broken`, too.

## Runs

Every run turns the deadlock check off: the window may be idle for ever, the bounds end
every behaviour, and in `lifecycle` the program ends.

| Run | Asks | Bounds |
|---|---|---|
| `manager_handoff` | gate, order and completeness of the hand-off, and that each direction implements `Handoff` | both SDPs, an answer twice (or an error), one local and two remote candidates |
| `manager_video` | types; source and mode while a call starts | two device selections, one toggle, one call, one frame |
| `manager_video_off` | finding | as above |
| `peer_enterer` | candidates, descriptions, the peer connection and the capturer of the calling peer | one call, one SDP each, one remote candidate, one device selection, one frame |
| `peer_opener` | candidates of the called peer; how often an SDP goes out, and that later ones do not | two offers, two local SDPs, two remote candidates, one gathered |
| `peer_liveness` | candidates of both sides are passed on and added | one call, one SDP each, one remote candidate, one gathered |
| `signalling_session` | types, FIFO, replies, roles; messages are written, the room is settled | one room, two offers sent, one received, one answer, one notification, one connection failure |
| `signalling_connection`, `signalling_two_offers` | findings | one room; two failures, or two offers received |
| `scene` | types; frames, images and the stream; frames flow, the stream is shown | by sensor: two pictures of a kind; RealSense selected twice; two images sent; two frames of a stream in two sizes, one resizing |
| `scene_init_once` | finding | Kinect selected twice |
| `lifecycle` | types; early and overtaken choices, lifetimes, what has ended at the end; the window closes | two selections of sensors, one camera, choices of cameras at any time |

The bounds are `MaxCalls` (how often each callback is entered), `Limits` (each operation
and event of `Signalling`), `MaxGathered`, `MaxThreads`, `MaxPictures`, `MaxImages`,
`MaxResizes`, `VideoFrames`, `FrameThreads` and `MaxCameras`. They are enough because the
hazards need few events: a drain race takes two threads and one candidate, an order two
candidates of one side (`manager_handoff` and `peer_opener` have them; both sides share their
actions, so one side is enough), a stranded candidate one that comes while another is being
passed on; a second SDP is the first that could be treated differently, and one failure with a
message queued shows everything a reconnection does. A frame can be mixed with one other, an
image overtaken by one, a resize missed once; the third selection of a sensor does to the
second what the second does to the first. What `scene` takes depends on the sensor, to
keep the parts that do not touch from multiplying: the picture pipeline with Kinect and
RealSense, the sending with the fake sensor, whose pictures are always there, the stream in
a call without a sensor. Every property is known to fail on a variant of the code with a
plausible slip (the "Faulty variants" of the modules).

### What the runs show

* The hand-off keeps its promise as long as threads do not race on a container: candidates
  stay behind the SDP, in order, each passed on once. Two threads can enter the drain
  together (`Claim` records it), and then nothing is promised.
* A candidate may stay in its queue when its handler finds `m_processingCandidates` set
  and returns; this is the only way (`StrandedOnlyBySkip`). The next callback clears it.
* An SDP can be handed over twice, once by each thread, never more often. A later offer of
  the peer is stored and goes nowhere.
* `m_newFrame` keeps a frame thread and the window apart, and draws frames whole, with one
  frame thread (`BuffersAreExclusive`, `DrawnTogether`). With RealSense it does so with
  any number of them, because `m_mutex` happens to span `newFrame()`; with the other
  sensors a second selection breaks it. A Kinect frame may pair new depths with old
  colours, but never older depths (`DepthAdvances`).
* Several `NEW_FRAME` messages may find the same, or a half-written, image; what is
  captured is never older than the message (`NeverOlder`).
* The video stream is whole and in its place although the size is read without the mutex
  (`GeometryKept`): the flag is cleared before it is read and set after it is written.
* A camera can be chosen as soon as it is listed, although the plugin is still starting,
  and is the one that is used (`ListedIsReady`, `CameraIsKept`): the source chosen too
  early is lost, but the default is a camera. A sensor chosen too early is lost, or ends
  the program; a call that the peer starts passes it on again, an opener's stream is then
  a camera's.
* A choice may be undone by `onInitCall`, which has read the one before and stores it
  last. `CameraIsKept` and `SourceIsSelected` name this; nothing else undoes one.
* With one selection of a sensor the destructors' order is right as far as it goes: every
  loop that was entered and can be joined has ended before the Manager is gone
  (`LoopsEndFirst`). Three threads are never joined: WebRTC's, which is told to quit;
  libfreenect's, which is not; AlWsPlugin's, which may still be on its way to `run()`.
  With a second selection the forgotten frame thread outlives its sensor. A closed window
  goes away unless RealSense's loop runs (`WindowCloses` names it): its destructor waits
  for a flag nothing clears.
* Four places disagree with what the code says of itself (`findings`): the video mode
  announced after a drain ignores that the user switched the video off; the loop asks for
  a WRITEABLE event on a NULL connection; the answer to the first of two offers carries
  the id of the second; Kinect is not "init once".

### Fairness

Weak fairness of each thread's steps inside a callback: the operating system schedules
threads, and there is no lock to wait for. No fairness for entering callbacks: nobody has
to call. In `Peer` the WebRTC loop goes on calling `Wait`, which never sleeps more than a
millisecond where the library would wait for ever (customsocketserver.h:68). In
`Signalling` the loop's own steps are weakly fair; the events libwebsockets delivers are
strongly fair, because the loop passes through `lws_service()` again and again and the
library polls every connection each time; the server answers requests and two seconds
pass. Nothing is assumed of the peer or of failures.

In `Scene` the window's passes, the decoder, the frame threads and the WebRTC loop are
weakly fair. Taking `m_remoteFrameMtx` or RealSense's `m_mutex` is strongly fair: each is
free again and again, for most of a frame's time, and a waiting thread gets it. The
devices, the streams and the user may stop. In `Lifecycle` the window's thread, the frame
threads, a callback of the service loop (`Callback`, `StoreSource`) and its end when asked
are weakly fair, and a device is opened or found missing; the user, the WebRTC thread and
incoming messages are not.

## Theorems

| Module | Theorem | States |
|---|---|---|
| `ManagerProofs` | `TypeCorrect` | `Spec => []TypeOK` |
| | `GateHolds` | `Spec => []SdpBeforeCandidates` |
| | `NeverRenegotiated` | `Spec => NoRenegotiation` |
| | `SourceSelected` | `Spec => []SourceIsSelected` |
| | `OnceEach` | `Spec => []OneSdpPerThread` |
| `Handoff` | `InOrderHolds` | `Spec => []HandoffInv` |
| `HandoffProofs` | `LocalRefines`, `RemoteRefines` | `Spec => LocalHandoff`, `RemoteHandoff` |
| | `OrderHolds` | `Spec => []CandidatesInOrder` |
| | `StrandedHolds`, `ConnectedHolds` | `Spec => []StrandedOnlyBySkip`, `[]ConnectedMeansAnnounced` |
| `PeerProofs` | `PeerHasManager` | `PeerSpec => Spec` |
| | `OnePeerConnectionHolds`, `SdpSentAsMadeHolds` | `PeerSpec => []OnePeerConnection`, `[]SdpSentAsMade` |
| | `FramesFindCapturerHolds` | `PeerSpec => []FramesFindCapturer` |
| | `CandidatesAddedHolds` | `PeerSpec => []CandidatesAreAdded` |
| `SignallingProofs` | `TypeCorrect` | `Spec => []TypeOK` |
| | `FifoHolds` | `Spec => []WrittenInOrder` |
| | `OneRoleHolds`, `RepliesHold` | `Spec => []OneRole`, `[]RepliesAreExpected` |
| `VideoProofs` | `VideoTypeCorrect`, `WholeFrames`, `GeometryHolds` | `Spec => []VideoTypeOK`, `[]ShownWhole`, `[]GeometryKept` |
| `FramesProofs` | `FramesTypeCorrect`, `SceneTypeCorrect` | `Spec => []FramesTypeOK`, `[]TypeOK` |
| | `BuffersHold`, `DrawnTogetherHolds` | `Spec => []BuffersAreExclusive`, `[]DrawnTogether` |
| | `OneWaitHolds` | `Spec => []OneWait` |
| | `NeverOlderHolds` | `Spec => []NeverOlder` |
| | `DepthAdvancesHolds` | `Spec => DepthAdvances` |
| `LifecycleProofs` | `TypeCorrect` | `Spec => []TypeOK` |
| | `ListedIsReadyHolds`, `CameraIsKeptHolds` | `Spec => []ListedIsReady`, `[]CameraIsKept` |
| | `ServiceEndsFirstHolds` | `Spec => []ServiceEndsFirst` |
| | `SensorOutlivesHolds`, `LoopsEndFirstHolds` | `Spec => []SensorOutlivesItsThread`, `[]LoopsEndFirst` |

`Spec` is that of `Manager` (`ManagerProofs`, `HandoffProofs`), `Handoff`, `Signalling`,
`Scene` (`VideoProofs`, `FramesProofs`) and `Lifecycle`; `PeerSpec` is `Peer`'s, for both
roles. They hold for every value of the constants. What is assumed of these
(`CallsAssumption`, `LimitsAssumption`, `SensorAssumption`, `ImagesAssumption`,
`VideoAssumption`, `StreamAssumption`, `LifecycleAssumption`) says only that the bounds are
natural numbers, that a size is a pair of them, and that "no thread" is not a thread: so
any number of callbacks, candidates, offers, reconnections, selections, pictures, frames
and sizes.

*GateHolds.* `SdpBeforeCandidates` alone is not inductive: it says nothing of how a thread
came to be passing on a candidate. `GateInv` adds that a thread between `Claim` and
`Release` has seen both sent flags, that a set flag, and a thread about to set one, mean
that the SDP is in `out`, and that flags are never cleared. A push of a candidate then
finds its side open (`PushKeepsOrder`); every other step leaves `out` alone (`QuietStep`).

*NeverRenegotiated.* From the types alone: a side is settled when its flag is set and no
thread stands between the test of the flag and the assignment that follows the call. Only
`TestSdp` leads there, and it finds the flag set; `PushAddsNoSdp` covers the other calls.

*SourceSelected.* `SourceInv`: a window about to store a source holds the one it selected.
When neither the window nor the service's thread is on its way to storing one, the SDK has
the selected source, or had no Conductor to keep it (`forgotten`), or has what `onInitCall`
stored last. No race is excluded: a step that stores establishes one of the three, and
`SelectionKept` covers the steps that store nothing.

*OnceEach.* Every SDP of a side that went out before its flag is set is in the hands of a
thread that will set it, and those about to hand one over come on top: `CountInv` bounds
both by the two threads. Cardinalities of index sets come from `FiniteSetTheorems`.

*LocalRefines, RemoteRefines.* A step between `Front` and `SendCandidate` is a stutter of
`Handoff` only if the candidate in hand is the head of the queue and nobody else takes it:
`DrainInv` says that, short of a race, one thread drains at a time, that the queue it found
filled still is, and that what it read is the first. `GateInv` gives the description that
`Deliver` asks for. `Steps` sorts the Manager's actions into those that matter to a
direction and those `Aside`; `StepsRefine` maps each.

*OrderHolds.* `InOrderHolds`, Handoff's own theorem about its own state, of which the
refinements make a statement about `out` and `candidates`. (`~Crashed` is in the property
because the candidate a thread has in its hand is lost with the program.)

*StrandedHolds.* `StrandInv`: once both SDPs went out, a candidate in a queue has a thread
that will still look at that queue: its own handler, the one that set the second flag, or
the one in the drain, if it has not passed that side.

*ConnectedHolds.* `AnnounceInv`: from the moment both SDPs are out, the video mode was
announced or a thread is on its way to it; one that finds the drain claimed can leave, since
the claimant is on its way. `connectionInitialized` means both flags.

*PeerHasManager, and the theorems of `Peer`.* Every step of a `Peer` is a Manager's or leaves
it alone, so the theorems above hold inside it. `StoredInv` (what is on its way was stored,
and candidates are out only behind both SDPs), `InitInv` (one init message, and only an
enterer's) and `RemoteInv` (remote descriptions are of the type the role is due) bring out
what the Conductor gets; `EngineInv` is what it makes of that, with one reason per role for
each message to find the peer connection: the opener's is made by the offer, ahead of its
candidates, the enterer's by the start of the call, without which nothing comes back.
`FrameInv`: a stream opens only when there is a Conductor, and from what the SDK was told;
unless an older selection was passed on behind it or the SDK forgot it (`lost`), that is what
the window has selected, so a window that sends pictures finds the stream opened from them.
`AddInv`: the candidates taken from the inbox are those added, which `OrderHolds` makes the
first ones, and `EngineInv` accepted ones.

*OneRoleHolds.* `RoleInv` counts, for every `roomOpen`, its outcome or the one request under
way for it: registered, or about to be. `onMessage` erases the request it settles, and
`room/enter` follows `room/open` in the step that erases it. No race is excluded: two
requests with one id only lose one.

*RepliesHold.* `RepliesInv`: the counter is ahead of every id in `m_requests`, one thread at a
time is between its two reads (or threads raced), and every request, wherever it is on its
way to the server and back, waits in the map as what it is, in one place only (`ApartInv`):
so its reply finds it, and none comes twice.

*FifoHolds.* `FifoInv` says that message i on the wire is number i, that the j-th message
waiting is number `Len(wire) + j`, and that the two lengths add up to `pushed`. It needs
`TypeOK` for one fact: what the loop writes is the head of the queue it pops.

*WholeFrames.* `WholeInv`: outside `updateFrame()` the size is that of the frame in the
buffer, and once `m_newFrame` is set that frame is a whole one. Both hold whenever the
window has the mutex, by the last two conjuncts of `VideoTypeOK`.

*GeometryHolds.* With `m_updateSize` clear and no resize under way, what `render()` has
already read of place, width and height is what is there now; `GeometryInv` says it for
every point of `render()`, since a change sets the flag after it is made.

*BuffersHold, DrawnTogetherHolds.* `ExclusiveInv`: RealSense's `m_mutex` is held from
`Lock` to the return of `newFrame()`; the window uploads only while `m_newFrame` is set;
and with one writer, a thread that swaps has seen it clear and knows what the buffers hold
(`WritersKnow`), and an upload under way is of the frame accepted last (`UploadsKnow`).

*OneWaitHolds.* RealSense's two pictures have the same number at every stage from the
device to the textures, or one was spoilt (`OneWaitInv`). It needs `ExclusiveInv` for the
stage in the renderer's buffers.

*NeverOlderHolds.* `AnnouncedIsThere`: the image of every waiting message, and of the one at
work, is in `m_imageBytes` in each half, or a later one is.

*DepthAdvancesHolds.* `AdvanceInv`: what a frame thread has in hand is later than what was
accepted, and once a further picture is announced, earlier than that (`KinectKnows`,
`RealsenseKnows`); with Kinect the depth flag alone gives that, as the pictures of the device
only get later (`DeviceInv`).

*LifecycleProofs.* `PlaceInv` ties the window's place to the sensor and the loader. Then,
for each theorem, what the destructors have ensured by each place: `ReadyInv` (a listed
camera means a set `m_manager`, never taken back), `CameraInv` (before there is a
Conductor the source is the default; afterwards it is a sensor, with a camera chosen, only
by an overtaken `onInitCall`), `ServiceInv` (nothing the service threads use goes before
`JoinService`, after which the loop has ended, or was not entered and finds `force_exit`
set: `ServiceOver`), `ThreadInv` (the one frame thread is the one named by
`m_frameThread`, and gone once joined), `DeviceInv` (a running device thread belongs to a
loaded sensor). That there is one selection is a statement about `Cardinality(Started)`,
so `StartedIsFinite` is proved first.

So every safety invariant and action property of the passing runs is proved. Only
model-checked is what must happen eventually: `CandidatesArrive`, `CandidatesHandedOver`,
`EverythingIsWritten`, `RoomIsSettled`, `FramesFlow`, `StreamIsShown` and `WindowCloses`;
liveness under fairness is out of the prover's reach. The four findings are TLC's
counterexamples. No property asks what a recursive definition computes. The inductive
invariants were checked by TLC on the runs' instances before they were proved.

## Not modelled

* **Settings** (`al_utils`): one entry of a property tree, read and written by one thread.
* **Drawing and geometry**: shaders, cameras, the mapping of depths to the picture, colour
  conversion, resolutions (`UPDATE_RESOLUTION_SM` is left out; every sensor has one).
* **A signalling or sensor library that cannot be loaded**; an SDK that cannot is in
  `Lifecycle`. `authenticate` is never called.
* **What follows undefined behaviour**: `Manager` lets the two threads of a race go on,
  `Lifecycle` lets the program stop at any time once a destroyed object was used (the scene
  by a frame or WebRTC thread during `~MainWindow`, the plugin by the WebRTC thread after
  it, a sensor by a forgotten frame thread). No document says what is meant there.
* **Older and separate programs**: `al_sdk`, `al_json_rpc_client`, `al_kinect_win`, `AlteXo`,
  `recorder`, scripts.
* **Vendored code**: about thirty thousand of the repository's forty-four thousand lines are
  Dear ImGui, gl3w, stb and OpenGL headers; the application's own code is small beside it.

## Plan

1. Done: `Handoff`, `Manager`, `Conductor`, `Peer`, `Signalling`; `Sensors`, `Frames`,
   `Video`, `Scene`; `Lifecycle`; their runs and the theorems above, the refinement of
   `Handoff` and the theorems of `Peer` among them.
2. `Signalling` as an abstract FIFO from `sendMessage` to the server, shown to be implemented
   from `FifoInv` the way `Manager` implements `Handoff`.
3. `Call`: two `Manager`s over an abstract server, with the abstract specification that each
   peer gets the other's SDP and candidates in order, at most once; it would replace the
   environment of `Peer`.

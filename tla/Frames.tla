-------------------------------- MODULE Frames --------------------------------
(***************************************************************************)
(* From a sensor to the WebRTC capturer: SensorDataFboRenderer, which the  *)
(* frame threads and the window's thread share, SceneRenderer's sending of *)
(* what was drawn, AlSdkPlugin's m_imageBytes, and the NEW_FRAME messages  *)
(* by which the WebRTC thread comes to copy it.                            *)
(*                                                                         *)
(* m_newFrame is the only thing between the threads at the renderer, and   *)
(* there is nothing at all between them at m_imageBytes.  Flags and        *)
(* queues are taken as atomic; the queue itself is the matter of Manager.  *)
(***************************************************************************)
EXTENDS Sensors, Sequences

CONSTANT MaxImages   \* how many drawn images are sent, by sensor (bounds the model)

ASSUME ImagesAssumption == MaxImages \in [Choices -> Nat]

Halves == {"upper", "lower"}        \* an image is copied in more than one step

VARIABLES
  newFrame,    \* SensorDataFboRenderer::m_newFrame
  pictures,    \* m_rgbFrame and m_depthFrame
  accepted,    \* history: the pictures whose newFrame() returned last with effect
  textures,    \* what was uploaded
  ui,          \* where the window's thread is in _render()
  sending,     \* SceneRenderer::sendingFrames
  sent,        \* how many drawn images were sent
  imageBytes,  \* m_imageBytes: the number of the image in each half
  copied,      \* the halves that the thread at work has copied
  queue,       \* NEW_FRAME messages: the number of the image each was pushed for
  sdk,         \* the message the WebRTC thread works on, 0 for none
  unread,      \* the halves it has still to copy
  got          \* the halves it has copied

renderer == <<newFrame, pictures, accepted>>
images == <<sending, sent, imageBytes, copied, queue>>
capture == <<sdk, unread, got>>
frameVars == <<sensorVars, newFrame, pictures, accepted, textures, ui, sending, sent,
               imageBytes, copied, queue, sdk, unread, got>>

NoImage == [h \in Halves |-> 0]

FramesInit ==
  /\ SensorInit
  /\ newFrame = FALSE
  /\ pictures = NoPictures
  /\ accepted = NoPictures
  /\ textures = NoPictures
  /\ ui = "idle"
  /\ sending = FALSE
  /\ sent = 0
  /\ imageBytes = NoImage
  /\ copied = {}
  /\ queue = <<>>
  /\ sdk = 0
  /\ unread = {}
  /\ got = NoImage

-----------------------------------------------------------------------------
(* Faulty variants of definitions below: what a slip in this code would     *)
(* look like.  No specification uses them.                                  *)

\* TestRoom without the test.
TestNothing(f) ==
  /\ pc[f] = "test"
  /\ GotoF(f, "swapRgb")
  /\ UNCHANGED <<device, mutex, todo, hand, renderer>>

\* UploadRgb after which m_newFrame is already false.
UploadAndClear ==
  /\ ui = "uploadRgb"
  /\ textures' = [textures EXCEPT !["rgb"] = pictures["rgb"]]
  /\ newFrame' = FALSE
  /\ ui' = "uploadDepth"
  /\ UNCHANGED <<pictures, accepted, images>>

\* ClearNew left out.
ClearNothing ==
  /\ ui = "clearNew"
  /\ ui' = "send"
  /\ UNCHANGED <<renderer, textures, images>>

\* Send that pushes NEW_FRAME before the image is copied.
SendFirst ==
  /\ ui = "send"
  /\ IF sending /\ sent < MaxImages[sensor]
     THEN ui' = "copy" /\ sent' = sent + 1 /\ queue' = Append(queue, sent + 1)
     ELSE ui' = "video" /\ UNCHANGED <<sent, queue>>
  /\ copied' = {}
  /\ UNCHANGED <<renderer, textures, sending, imageBytes>>

-----------------------------------------------------------------------------
(* SensorDataFboRenderer::newFrame(), on a frame thread. *)

TestRoom(f) ==
  /\ pc[f] = "test"
  /\ \/ ~newFrame /\ GotoF(f, "swapRgb") /\ UNCHANGED <<mutex, todo, hand>>
     \/ newFrame /\ Return(f)
  /\ UNCHANGED <<device, renderer>>

SwapRgb(f) ==
  /\ pc[f] = "swapRgb"
  /\ pictures' = [pictures EXCEPT !["rgb"] = hand[f]["rgb"]]
  /\ GotoF(f, "swapDepth")
  /\ UNCHANGED <<device, mutex, todo, hand, newFrame, accepted>>

SwapDepth(f) ==
  /\ pc[f] = "swapDepth"
  /\ pictures' = [pictures EXCEPT !["depth"] = hand[f]["depth"]]
  /\ GotoF(f, "setNew")
  /\ UNCHANGED <<device, mutex, todo, hand, newFrame, accepted>>

SetNew(f) ==
  /\ pc[f] = "setNew"
  /\ newFrame' = TRUE
  /\ accepted' = hand[f]
  /\ Return(f)
  /\ UNCHANGED <<device, pictures>>

FrameStep(f) ==
  \/ RequestStep(f) /\ UNCHANGED renderer
  \/ TestRoom(f) \/ SwapRgb(f) \/ SwapDepth(f) \/ SetNew(f)

-----------------------------------------------------------------------------
(* The window's thread. *)

\* The device list and the button of the test source.
SelectSensor ==
  /\ ui = "idle"
  /\ \E f \in FrameThreads : initSensor(f)
  /\ UNCHANGED <<renderer, textures, ui, images>>

\* initFrameSending(), at the end of _render(): the connection is initialized.
StartSending ==
  /\ ui = "idle" /\ Started # {} /\ ~sending
  /\ sending' = TRUE
  /\ UNCHANGED <<sensorVars, renderer, textures, ui, sent, imageBytes, copied, queue>>

\* SensorDataFboRenderer::render().
RenderSensor ==
  /\ ui = "idle"
  /\ ui' = IF newFrame THEN "uploadRgb" ELSE "send"
  /\ UNCHANGED <<renderer, textures, images>>

UploadRgb ==
  /\ ui = "uploadRgb"
  /\ textures' = [textures EXCEPT !["rgb"] = pictures["rgb"]]
  /\ ui' = "uploadDepth"
  /\ UNCHANGED <<renderer, images>>

UploadDepth ==
  /\ ui = "uploadDepth"
  /\ textures' = [textures EXCEPT !["depth"] = pictures["depth"]]
  /\ ui' = "clearNew"
  /\ UNCHANGED <<renderer, images>>

ClearNew ==
  /\ ui = "clearNew"
  /\ newFrame' = FALSE
  /\ ui' = "send"
  /\ UNCHANGED <<pictures, accepted, textures, images>>

\* readGlFrame(); newFrameSignal calls AlSdkPlugin::setImageData with a copy.
Send ==
  /\ ui = "send"
  /\ IF sending /\ sent < MaxImages[sensor]
     THEN ui' = "copy" /\ sent' = sent + 1
     ELSE ui' = "video" /\ UNCHANGED sent
  /\ copied' = {}
  /\ UNCHANGED <<renderer, textures, sending, imageBytes, queue>>

\* m_imageBytes = imageBytes, in whatever order the bytes are moved.
CopyImage(h) ==
  /\ ui = "copy" /\ h \notin copied
  /\ imageBytes' = [imageBytes EXCEPT ![h] = sent]
  /\ copied' = copied \cup {h}
  /\ UNCHANGED <<renderer, textures, ui, sending, sent, queue>>

PushNewFrame ==
  /\ ui = "copy" /\ copied = Halves
  /\ queue' = Append(queue, sent)
  /\ copied' = {}
  /\ ui' = "video"
  /\ UNCHANGED <<renderer, textures, sending, sent, imageBytes>>

\* What _render() does until the video streams are drawn.
Render ==
  /\ \/ RenderSensor \/ UploadRgb \/ UploadDepth \/ ClearNew \/ Send
     \/ (\E h \in Halves : CopyImage(h)) \/ PushNewFrame
  /\ UNCHANGED sensorVars

-----------------------------------------------------------------------------
(* The WebRTC thread: CustomSocketServer::Wait, NEW_FRAME. *)

Dequeue ==
  /\ sdk = 0 /\ queue # <<>>
  /\ sdk' = Head(queue)
  /\ queue' = Tail(queue)
  /\ unread' = Halves
  /\ got' = NoImage
  /\ UNCHANGED <<sending, sent, imageBytes, copied>>

\* setImageData takes the vector by value: it is copied, in any order.
ReadImage(h) ==
  /\ h \in unread
  /\ got' = [got EXCEPT ![h] = imageBytes[h]]
  /\ unread' = unread \ {h}
  /\ UNCHANGED <<sdk, images>>

\* The copy is converted and given to WebRTC.
Capture ==
  /\ sdk # 0 /\ unread = {}
  /\ sdk' = 0
  /\ UNCHANGED <<unread, got, images>>

Wait ==
  /\ Dequeue \/ (\E h \in Halves : ReadImage(h)) \/ Capture
  /\ UNCHANGED <<sensorVars, renderer, textures, ui>>

-----------------------------------------------------------------------------

FramesStep ==
  /\ \/ Device /\ UNCHANGED <<renderer, textures, ui, images>>
     \/ \E f \in FrameThreads : FrameStep(f) /\ UNCHANGED <<textures, ui, images>>
     \/ SelectSensor \/ StartSending \/ Render
  /\ UNCHANGED capture

FramesNext == FramesStep \/ Wait

-----------------------------------------------------------------------------
(* Correctness *)

FrameLabels == {"none", "idle", "lock", "take", "test", "swapRgb", "swapDepth", "setNew"}
Writing == {"swapRgb", "swapDepth", "setNew"}
Uploading == {"uploadRgb", "uploadDepth", "clearNew"}
Uploads == Uploading \cup {"idle", "send", "copy", "video"}

FramesTypeOK ==
  /\ sensor \in Choices /\ ready \in BOOLEAN /\ recycled \in BOOLEAN
  /\ made \in [Kinds -> Nat] /\ buffer \in [Kinds -> Nat]
  /\ fresh \in [Kinds \cup {"frame"} -> BOOLEAN]
  /\ mutex \in FrameThreads \cup {NoThread}
  /\ pc \in [FrameThreads -> FrameLabels]
  /\ todo \in [FrameThreads -> SUBSET Kinds]
  /\ hand \in [FrameThreads -> [Kinds -> Nat]]
  /\ newFrame \in BOOLEAN /\ pictures \in [Kinds -> Nat] /\ accepted \in [Kinds -> Nat]
  /\ textures \in [Kinds -> Nat] /\ ui \in Uploads
  /\ sending \in BOOLEAN /\ sent \in Nat /\ imageBytes \in [Halves -> Nat]
  /\ copied \in SUBSET Halves /\ queue \in Seq(Nat) /\ sdk \in Nat
  /\ unread \in SUBSET Halves /\ got \in [Halves -> Nat]

\* One thread at a time writes the renderer's buffers, however often a sensor is
\* selected in the window: "be sure init once".
OneThreadWrites ==
  \A f, g \in FrameThreads : pc[f] \in Writing /\ pc[g] \in Writing => f = g

\* One thread at a time calls newFrame(): there is one, or m_mutex sees to it.
OneWriter == sensor = "realsense" \/ \A f, g \in Started : f = g

\* m_newFrame is enough to keep a frame thread's swaps and the window's uploads
\* apart, and the swaps of two requests, as long as one thread at a time calls.
BuffersAreExclusive ==
  OneWriter =>
    /\ OneThreadWrites
    /\ (\E f \in FrameThreads : pc[f] \in Writing) => ui \notin Uploading /\ ~newFrame

\* What is drawn is a frame a sensor handed over: never the colours of one and
\* the depths of the next, and always the last one that was taken.
DrawnTogether ==
  OneWriter /\ ~newFrame /\ ui \notin Uploading => textures = accepted

\* RealSense's pictures come from one wait_for_frames(), however many threads ask
\* for them: m_mutex spans the reading of both, and the renderer's swaps.  Only the
\* device itself can spoil one, by writing where the pointers still point.
OneWait ==
  sensor = "realsense" /\ ui \notin Uploading =>
    textures["rgb"] = textures["depth"] \/ \E k \in Kinds : textures[k] = 0

\* A message NEW_FRAME may find a later image in m_imageBytes than the one it was
\* pushed for, or a part of it; what is captured is never, in any part, older.
NeverOlder ==
  sdk # 0 => \A h \in Halves \ unread : got[h] >= sdk

\* One frame thread hands no depth picture over twice and none after a later one;
\* colours may stay behind, as nothing asks whether they are new.
LaterDepth ==
  ~newFrame /\ newFrame' /\ Cardinality(Started) <= 1 /\ sensor # "fake"
    /\ accepted'["depth"] # 0
  => /\ accepted'["depth"] > accepted["depth"]
     /\ sensor = "kinect" => accepted'["rgb"] >= accepted["rgb"]

DepthAdvances == [][LaterDepth]_frameVars

\* Liveness: a frame that was handed over is drawn, and while a frame thread runs
\* a picture the sensor announces is taken, even by threads that contend for m_mutex.
FramesFlow ==
  /\ newFrame ~> ~newFrame
  /\ \A k \in {"depth", "frame"} : fresh[k] /\ ready ~> ~fresh[k]
=============================================================================

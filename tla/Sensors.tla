------------------------------- MODULE Sensors -------------------------------
(***************************************************************************)
(* The sensor plugins (al_kinect, al_realsense, al_fake_sensor) and the    *)
(* Manager's frame threads, up to the call of newFrame() on the renderer.  *)
(*                                                                         *)
(* Every selection of a sensor in the window starts one more frame thread  *)
(* (manager.cpp:87, 99, 108), which calls m_sensor->requestNewFrame() for  *)
(* ever; nothing stops the one before.  What a request takes depends on    *)
(* the plugin:                                                             *)
(*   kinect     libfreenect's thread copies colour and depth pictures into *)
(*              a buffer each, under a mutex each;                         *)
(*   realsense  the plugin's own thread points at the device's pictures    *)
(*              under m_mutex, which a request holds until the renderer    *)
(*              has taken them;                                            *)
(*   fake       the same two pictures for ever.                            *)
(* A picture is the number of its making, 0 one that was never made or is  *)
(* a mixture of two.                                                       *)
(*                                                                         *)
(* The plugin is one global object of its library: all selections here     *)
(* name the same sensor, and the device thread that a second init() starts *)
(* ends in an exception, as the device is open.  Selecting one sensor      *)
(* after another is the matter of Lifecycle.                               *)
(***************************************************************************)
EXTENDS Naturals, FiniteSets

CONSTANTS
  FrameThreads,   \* the threads that selections may start
  MaxThreads,     \* how many selections start, by sensor (bounds the model)
  MaxPictures,    \* how many pictures of a kind each device makes (bounds the model)
  NoThread        \* m_mutex is free

Plugins == {"kinect", "realsense", "fake"}
Choices == Plugins \cup {"none"}          \* a call without a sensor
Kinds == {"rgb", "depth"}
NoPictures == [k \in Kinds |-> 0]

ASSUME SensorAssumption ==
  {MaxThreads, MaxPictures} \subseteq [Choices -> Nat] /\ NoThread \notin FrameThreads

VARIABLES
  sensor,    \* the plugin that selections name
  ready,     \* Kinect's m_initFinished, RealSense's m_running
  made,      \* how many pictures of each kind the device has made
  buffer,    \* Kinect's buffers, or what RealSense's pointers point at
  fresh,     \* m_newRgbFrame, m_newDepthFrame; m_hasNewFrame is "frame"
  recycled,  \* the device may be writing where RealSense's pointers point
  mutex,     \* the frame thread that holds RealSense's m_mutex
  pc,        \* where each frame thread is, "none" before it is started
  todo,      \* the pictures a frame thread has still to take
  hand       \* the pictures it has taken

device == <<sensor, ready, made, buffer, fresh, recycled>>
requests == <<mutex, pc, todo, hand>>
sensorVars == <<sensor, ready, made, buffer, fresh, recycled, mutex, pc, todo, hand>>

SensorInit ==
  /\ sensor \in Choices
  /\ ready = (sensor = "fake")
  /\ made = NoPictures
  /\ buffer = NoPictures
  /\ fresh = [k \in Kinds \cup {"frame"} |-> FALSE]
  /\ recycled = FALSE
  /\ mutex = NoThread
  /\ pc = [f \in FrameThreads |-> "none"]
  /\ todo = [f \in FrameThreads |-> {}]
  /\ hand = [f \in FrameThreads |-> NoPictures]

Started == {f \in FrameThreads : pc[f] # "none"}
GotoF(f, label) == pc' = [pc EXCEPT ![f] = label]

-----------------------------------------------------------------------------
(* Faulty variants of definitions below: what a slip in this code would     *)
(* look like.  No specification uses them.                                  *)

\* TakeKinect that leaves the flags set.
TakeAndForget(f, k) ==
  /\ sensor = "kinect"
  /\ hand' = [hand EXCEPT ![f][k] = buffer[k]]
  /\ UNCHANGED fresh

\* RequestRealsense without m_mutex.
RequestUnlocked(f) ==
  /\ sensor = "realsense" /\ ready /\ fresh["frame"]
  /\ GotoF(f, "take")
  /\ todo' = [todo EXCEPT ![f] = Kinds]
  /\ UNCHANGED hand

-----------------------------------------------------------------------------
(* The devices. *)

\* ALFreenectDevice's VideoCallback and DepthCallback.
PictureCallback(k) ==
  /\ sensor = "kinect" /\ Started # {}
  /\ made[k] < MaxPictures["kinect"]
  /\ made' = [made EXCEPT ![k] = @ + 1]
  /\ buffer' = [buffer EXCEPT ![k] = made[k] + 1]
  /\ fresh' = [fresh EXCEPT ![k] = TRUE]
  /\ UNCHANGED <<sensor, ready, recycled, requests>>

\* The end of AlKinectPlugin::threadMain(), the start of RealSense's loop.  When
\* the device cannot be opened an exception is printed and this never comes.
InitFinished ==
  /\ Started # {} /\ ~ready
  /\ ready' = TRUE
  /\ UNCHANGED <<sensor, made, buffer, fresh, recycled, requests>>

\* m_dev->wait_for_frames() returns: the pictures before are the device's again.
WaitForFrames ==
  /\ sensor = "realsense" /\ ready /\ ~recycled
  /\ made["depth"] < MaxPictures["realsense"]
  /\ made' = [k \in Kinds |-> made[k] + 1]
  /\ recycled' = TRUE
  /\ UNCHANGED <<sensor, ready, buffer, fresh, requests>>

\* The rest of the loop, under m_mutex.
Publish ==
  /\ recycled /\ mutex = NoThread
  /\ buffer' = made
  /\ fresh' = [fresh EXCEPT !["frame"] = TRUE]
  /\ recycled' = FALSE
  /\ UNCHANGED <<sensor, ready, made, requests>>

Device == (\E k \in Kinds : PictureCallback(k)) \/ InitFinished \/ WaitForFrames \/ Publish

-----------------------------------------------------------------------------
(* requestNewFrame(), as far as the arguments of newFrame(). *)

\* The condition of AlKinectPlugin::requestNewFrame names the depth flag twice.
RequestKinect(f) ==
  /\ sensor = "kinect" /\ ready /\ fresh["depth"]
  /\ GotoF(f, "take")
  /\ todo' = [todo EXCEPT ![f] = Kinds]
  /\ UNCHANGED hand

\* RealSense's test is made before m_mutex is taken, and not again.
RequestRealsense(f) ==
  /\ sensor = "realsense" /\ ready /\ fresh["frame"]
  /\ GotoF(f, "lock")
  /\ UNCHANGED <<todo, hand>>

RequestFake(f) ==
  /\ sensor = "fake"
  /\ hand' = [hand EXCEPT ![f] = [k \in Kinds |-> 1]]
  /\ GotoF(f, "test")
  /\ UNCHANGED todo

Request(f) ==
  /\ pc[f] = "idle"
  /\ RequestKinect(f) \/ RequestRealsense(f) \/ RequestFake(f)
  /\ UNCHANGED <<device, mutex>>

Lock(f) ==
  /\ pc[f] = "lock"
  /\ mutex = NoThread
  /\ mutex' = f
  /\ fresh' = [fresh EXCEPT !["frame"] = FALSE]
  /\ todo' = [todo EXCEPT ![f] = Kinds]
  /\ GotoF(f, "take")
  /\ UNCHANGED <<sensor, ready, made, buffer, recycled, hand>>

\* getRGB() and getDepth(), arguments of one call: in either order.
TakeKinect(f, k) ==
  /\ sensor = "kinect"
  /\ hand' = [hand EXCEPT ![f][k] = buffer[k]]
  /\ fresh' = [fresh EXCEPT ![k] = FALSE]

\* What the pointers point at, while wait_for_frames() runs beside.
TakeRealsense(f, k) ==
  /\ sensor = "realsense"
  /\ \E p \in {buffer[k]} \cup (IF recycled THEN {0} ELSE {}) :
       hand' = [hand EXCEPT ![f][k] = p]
  /\ UNCHANGED fresh

Take(f, k) ==
  /\ pc[f] = "take" /\ k \in todo[f]
  /\ TakeKinect(f, k) \/ TakeRealsense(f, k)
  /\ todo' = [todo EXCEPT ![f] = @ \ {k}]
  /\ UNCHANGED <<sensor, ready, made, buffer, recycled, mutex, pc>>

\* newFrame() is called.
Taken(f) ==
  /\ pc[f] = "take" /\ todo[f] = {}
  /\ GotoF(f, "test")
  /\ UNCHANGED <<device, mutex, todo, hand>>

RequestStep(f) == Request(f) \/ Lock(f) \/ (\E k \in Kinds : Take(f, k)) \/ Taken(f)

\* newFrame() has returned; so does requestNewFrame().
Return(f) ==
  /\ GotoF(f, "idle")
  /\ mutex' = IF mutex = f THEN NoThread ELSE mutex
  /\ hand' = [hand EXCEPT ![f] = NoPictures]
  /\ UNCHANGED todo

\* MainWindow selects the sensor: setDeviceName() and initSensor().
initSensor(f) ==
  /\ pc[f] = "none" /\ Cardinality(Started) < MaxThreads[sensor]
  /\ GotoF(f, "idle")
  /\ UNCHANGED <<device, mutex, todo, hand>>
=============================================================================

------------------------------ MODULE Lifecycle ------------------------------
(***************************************************************************)
(* The application from main() to exit: MainWindow and Manager load three  *)
(* kinds of plugins, each with threads of its own, let the user choose a   *)
(* device, and take everything down again.                                 *)
(*                                                                         *)
(*   window       main(): init, run, ~MainWindow, ~Manager                 *)
(*   sdk          AlSdkPlugin::init, AlManager::run: the WebRTC thread     *)
(*   ws           AlWsPlugin::threadMain, which starts the service loop    *)
(*                AlWsClient::threadMain                                   *)
(*   frame        Manager::frameThread, one for every sensor selected      *)
(*   device       the thread a sensor's init() starts                      *)
(*                                                                         *)
(* A sensor and the signalling client are global objects of their          *)
(* libraries.  Whether a library is unloaded, and its objects destroyed,   *)
(* with the last reference to it, or only when the program exits, is the   *)
(* loader's to decide.  A use of what was destroyed is recorded in         *)
(* `broken'; from then on the program may stop at any time.  Three threads *)
(* are never joined and may outlive everything here: WebRTC's, AlWsPlugin's*)
(* and the one that libfreenect starts for its events.                     *)
(***************************************************************************)
EXTENDS Naturals, FiniteSets

CONSTANTS
  FrameThreads,   \* the threads that selections may start (bounds the model)
  NoThread,       \* m_frameThread is NULL
  MaxCameras      \* how many cameras there are (bounds the model)

Plugins == {"kinect", "realsense", "fake"}
Sources == {"CAMERA", "IMG_SNAPSHOTS"}

ASSUME LifecycleAssumption == MaxCameras \in Nat /\ NoThread \notin FrameThreads

VARIABLES
  unloads,      \* the loader unloads a library without references
  window,       \* where the window's thread is
  webcamList,   \* how many cameras the Manager was told of
  deviceType,   \* m_videoDeviceType
  wanted,       \* the sensor that is being selected, "none" for a camera
  room,         \* the user has entered a room
  sdk,          \* where the WebRTC thread is
  alManager,    \* AlSdkPlugin::m_manager is set
  conductor,    \* AlManager::m_conductor is set
  dataSource,   \* m_desiredVideoSource of the Conductor's data manager
  overtaken,    \* history: onInitCall stored a source after another was chosen
  quit,         \* m_thread->Quit() was called
  ws,           \* where AlWsPlugin's thread is, then the service loop
  held,         \* the source that onInitCall has read and is about to store
  forceExit,    \* force_exit
  sensor,       \* m_sensor
  loaded,       \* the sensors whose objects exist
  device,       \* the thread that m_internalThread of a sensor names, while it runs
  stray,        \* the one that it named before, while that runs
  events,       \* a thread of libfreenect calls VideoCallback and DepthCallback
  frame,        \* where a frame thread is: in the sensor of that name, or elsewhere
  frameThread,  \* m_frameThread
  interrupted,  \* it was interrupted
  objects,      \* what the window's thread has made and not destroyed
  broken        \* history: something was used that had been destroyed, or the list
                \* of cameras was read while it grew

choice == <<webcamList, deviceType, wanted, room>>
webrtc == <<sdk, alManager, conductor, dataSource, overtaken, quit>>
service == <<ws, held, forceExit>>
sensors == <<sensor, loaded, device, stray, events>>
frames == <<frame, frameThread, interrupted>>
vars == <<unloads, window, webcamList, deviceType, wanted, room, sdk, alManager, conductor,
          dataSource, overtaken, quit, ws, held, forceExit, sensor, loaded, device, stray,
          events, frame, frameThread, interrupted, objects, broken>>

\* m_sdk, m_wsClient: the pointers; plugin: the AlSdkPlugin, which the signal for
\* the resolution keeps; rpc: the AlRpc part of the signalling client.
Objects == {"scene", "manager", "m_sdk", "plugin", "m_wsClient", "rpc"}

Init ==
  /\ unloads \in BOOLEAN
  /\ window = "initSdk"
  /\ webcamList = 0 /\ deviceType = "CAMERA" /\ wanted = "none" /\ room = FALSE
  /\ sdk = "none" /\ alManager = FALSE /\ conductor = FALSE
  /\ dataSource = "CAMERA" /\ overtaken = FALSE /\ quit = FALSE
  /\ ws = "none" /\ held = "none" /\ forceExit = FALSE
  /\ sensor = "none" /\ loaded = {}
  /\ device = [p \in Plugins |-> "none"] /\ stray = [p \in Plugins |-> "none"]
  /\ events = FALSE
  /\ frame = [f \in FrameThreads |-> "none"] /\ frameThread = NoThread
  /\ interrupted = FALSE
  /\ objects = {"scene", "manager"}
  /\ broken = FALSE

Crashed == window = "crashed"
Crash == window' = "crashed"
Use(things) == broken' = (broken \/ ~(things \subseteq objects))
Started == {f \in FrameThreads : frame[f] # "none"}

-----------------------------------------------------------------------------
(* Faulty variants of definitions below: what a slip in this code would     *)
(* look like.  No specification uses them.                                  *)

\* AlSdkPlugin::init that assigns m_manager after run().
RunFirst ==
  /\ sdk = "init"
  /\ sdk' = "list"
  /\ UNCHANGED <<unloads, window, choice, alManager, conductor, dataSource, overtaken, quit,
                 service, sensors, frames, objects, broken>>

\* JoinFrame and JoinService that do not wait.
DetachFrame ==
  /\ window = "joinFrame"
  /\ frameThread' = NoThread
  /\ window' = "freeService"
  /\ UNCHANGED <<unloads, choice, webrtc, service, sensors, frame, interrupted, objects,
                 broken>>

DetachService ==
  /\ window \in {"joinService", "exitService"}
  /\ window' = IF window = "exitService" THEN "closed" ELSE "freeSensor"
  /\ UNCHANGED <<unloads, choice, webrtc, service, sensors, frames, objects, broken>>

\* FindConductor that stores the source of a sensor only.
StoreSensor ==
  /\ window = "findConductor"
  /\ dataSource' = IF conductor /\ wanted # "none" THEN deviceType ELSE dataSource
  /\ window' = IF wanted = "none" THEN "run" ELSE "initSensor"
  /\ UNCHANGED <<unloads, choice, sdk, alManager, conductor, overtaken, quit, service,
                 sensors, frames, objects, broken>>

\* FreeSensor that leaves m_sensor as it is.
KeepSensor ==
  /\ window = "freeSensor"
  /\ window' = IF unloads THEN "joinSensor" ELSE "freeSdk"
  /\ UNCHANGED <<unloads, choice, webrtc, service, sensors, frames, objects, broken>>

\* FreeService without force_exit.
FreeServiceOnly ==
  /\ window = "freeService"
  /\ IF unloads
     THEN window' = "joinService" /\ objects' = objects \ {"m_wsClient", "rpc"}
     ELSE window' = "freeSensor" /\ objects' = objects \ {"m_wsClient"}
  /\ UNCHANGED <<unloads, choice, webrtc, service, sensors, frames, broken>>

-----------------------------------------------------------------------------
(* MainWindow::init(). *)

\* Without the library a message is printed, and m_sdk stays NULL.
initSdk ==
  /\ window = "initSdk"
  /\ \/ objects' = objects \cup {"m_sdk", "plugin"} /\ sdk' = "init"
     \/ UNCHANGED <<objects, sdk>>
  /\ window' = "initWsConnection"
  /\ UNCHANGED <<unloads, choice, alManager, conductor, dataSource, overtaken, quit,
                 service, sensors, frames, broken>>

\* AlWsPlugin::init() leaves the rest to a thread of its own.
initWsConnection ==
  /\ window = "initWsConnection"
  /\ objects' = objects \cup {"m_wsClient", "rpc"}
  /\ ws' = "starting"
  /\ window' = "run"
  /\ UNCHANGED <<unloads, choice, webrtc, held, forceExit, sensors, frames, broken>>

-----------------------------------------------------------------------------
(* The WebRTC thread. *)

\* AlSdkPlugin::init().
SetManager ==
  /\ sdk = "init"
  /\ alManager' = TRUE
  /\ sdk' = "list"
  /\ Use({"plugin"})
  /\ UNCHANGED <<unloads, window, choice, conductor, dataSource, overtaken, quit, service,
                 sensors, frames, objects>>

\* The constructor of Conductor tells of the cameras, one by one, maybe while the
\* window shows those it knows.
onNewCaptureDeciceCb ==
  /\ sdk = "list" /\ webcamList < MaxCameras
  /\ webcamList' = webcamList + 1
  /\ Use({"manager", "plugin"}) \/ (window = "run" /\ broken' = TRUE)
  /\ UNCHANGED <<unloads, window, deviceType, wanted, room, webrtc, service, sensors,
                 frames, objects>>

\* AlManager::run() has the Conductor, and m_thread; the loop begins.
SetConductor ==
  /\ sdk = "list" /\ webcamList = MaxCameras
  /\ conductor' = TRUE
  /\ sdk' = "loop"
  /\ Use({"plugin"})
  /\ UNCHANGED <<unloads, window, choice, alManager, dataSource, overtaken, quit, service,
                 sensors, frames, objects>>

\* Wait() asks the plugin for messages; frames and descriptions go to the Manager.
SdkWait ==
  /\ sdk = "loop" /\ ~quit
  /\ Use({"plugin"}) \/ Use({"plugin", "manager"}) \/ Use({"plugin", "manager", "scene"})
  /\ UNCHANGED <<unloads, window, choice, webrtc, service, sensors, frames, objects>>

\* Run() returns, and m_thread is set to NULL.
SdkQuit ==
  /\ sdk = "loop" /\ quit
  /\ sdk' = "gone"
  /\ Use({"plugin"})
  /\ UNCHANGED <<unloads, window, choice, alManager, conductor, dataSource, overtaken,
                 quit, service, sensors, frames, objects>>

SdkThread == SetManager \/ onNewCaptureDeciceCb \/ SetConductor \/ SdkWait \/ SdkQuit

-----------------------------------------------------------------------------
(* The service loop. *)

\* AlWsPlugin::threadMain() calls run(), whenever it gets to it: the loop begins,
\* unless force_exit is set, or libwebsockets fails to make its context.
StartService ==
  /\ ws = "starting"
  /\ ws' \in IF forceExit THEN {"gone"} ELSE {"service", "gone"}
  /\ Use({"rpc"})
  /\ UNCHANGED <<unloads, window, choice, webrtc, held, forceExit, sensors, frames,
                 objects>>

\* onMessage() is AlRpc's: without it, the call of a pure virtual function.
Receive ==
  /\ ws = "service"
  /\ IF "rpc" \in objects THEN ws' = "callback" /\ UNCHANGED window
                          ELSE Crash /\ UNCHANGED ws
  /\ UNCHANGED <<unloads, choice, webrtc, held, forceExit, sensors, frames, objects,
                 broken>>

\* A callback of the Manager: it uses m_sdk and m_wsClient, NULL or not.
Callback ==
  /\ ws = "callback"
  /\ Use({"manager"})
  /\ \/ ws' = "service" /\ UNCHANGED window
     \/ ~({"m_sdk", "m_wsClient"} \subseteq objects) /\ Crash /\ UNCHANGED ws
  /\ UNCHANGED <<unloads, choice, webrtc, held, forceExit, sensors, frames, objects>>

\* onInitCall(): _initVideoDevice() again, which reads the choice and passes it on,
\* while the user may be choosing another.
onInitCall ==
  /\ ws = "callback" /\ room
  /\ Use({"manager"})
  /\ IF alManager /\ "m_sdk" \in objects
     THEN held' = deviceType /\ ws' = "storing" /\ UNCHANGED window
     ELSE Crash /\ UNCHANGED <<held, ws>>
  /\ UNCHANGED <<unloads, choice, webrtc, forceExit, sensors, frames, objects>>

\* AlManager::setDesiredDataSource(), called by onInitCall().
StoreSource ==
  /\ ws = "storing"
  /\ IF conductor THEN dataSource' = held /\ overtaken' = (held # deviceType)
                  ELSE UNCHANGED <<dataSource, overtaken>>
  /\ held' = "none" /\ ws' = "service"
  /\ Use({"manager", "plugin"})
  /\ UNCHANGED <<unloads, window, choice, sdk, alManager, conductor, quit, forceExit,
                 sensors, frames, objects>>

ServiceEnds ==
  /\ ws = "service" /\ forceExit
  /\ ws' = "gone"
  /\ UNCHANGED <<unloads, window, choice, webrtc, held, forceExit, sensors, frames, objects,
                 broken>>

ServiceLoop ==
  StartService \/ Receive \/ Callback \/ onInitCall \/ StoreSource \/ ServiceEnds

-----------------------------------------------------------------------------
(* The window: a choice of a device. *)

roomOpen ==
  /\ window = "run" /\ ~room
  /\ room' = TRUE
  /\ UNCHANGED <<unloads, window, webcamList, deviceType, wanted, webrtc, service, sensors,
                 frames, objects, broken>>

\* setDeviceName(): a camera of the list, or a sensor, which is always on it.
setDeviceName(source, plugin) ==
  /\ window = "run"
  /\ IF source = "CAMERA" THEN webcamList > 0 /\ plugin = "none"
     ELSE plugin \in Plugins /\ Started # FrameThreads
  /\ deviceType' = source
  /\ wanted' = plugin
  /\ window' = "findManager"
  /\ UNCHANGED <<unloads, webcamList, room, webrtc, service, sensors, frames, objects,
                 broken>>

\* AlSdkPlugin::setDesiredDataSource().
FindManager ==
  /\ window = "findManager"
  /\ IF alManager THEN window' = "findConductor" ELSE Crash
  /\ UNCHANGED <<unloads, choice, webrtc, service, sensors, frames, objects, broken>>

\* AlManager::setDesiredDataSource().
FindConductor ==
  /\ window = "findConductor"
  /\ IF conductor THEN dataSource' = deviceType /\ overtaken' = FALSE
                  ELSE UNCHANGED <<dataSource, overtaken>>
  /\ window' = IF wanted = "none" THEN "run" ELSE "initSensor"
  /\ UNCHANGED <<unloads, choice, sdk, alManager, conductor, quit, service, sensors,
                 frames, objects, broken>>

\* initSensor(): m_sensor is replaced; the sensor it was may be unloaded.
initSensor ==
  /\ window = "initSensor"
  /\ sensor' = wanted
  /\ loaded' = loaded \cup {wanted}
  /\ window' = IF unloads /\ sensor \notin {"none", wanted} THEN "unloadSensor"
                                                           ELSE "startSensor"
  /\ UNCHANGED <<unloads, choice, webrtc, service, device, stray, events, frames, objects,
                 broken>>

\* The destructor of a sensor joins the thread of its m_internalThread, and none
\* that was named there before.  ~AlKinectPlugin does not end libfreenect's thread,
\* which is left without its code if the library is unloaded.
Runs(thread) == thread \in {"starting", "loop"}

Pulled(plugins) ==
  \/ \E p \in plugins : Runs(stray[p])
  \/ (unloads /\ "kinect" \in plugins /\ events)

UnloadSensor ==
  /\ window = "unloadSensor"
  /\ \A p \in loaded \ {wanted} : ~Runs(device[p])
  /\ broken' = (broken \/ Pulled(loaded \ {wanted}))
  /\ loaded' = {wanted}
  /\ device' = [p \in Plugins |-> IF p = wanted THEN device[p] ELSE "none"]
  /\ window' = "startSensor"
  /\ UNCHANGED <<unloads, choice, webrtc, service, sensor, stray, events, frames, objects>>

\* init(), and one more frame thread; which of them it is makes no difference.
NewThread == CHOOSE f \in FrameThreads : frame[f] = "none"

StartSensor ==
  /\ window = "startSensor"
  /\ IF wanted = "fake" THEN UNCHANGED <<device, stray>>
     ELSE /\ device' = [device EXCEPT ![wanted] = "starting"]
          /\ stray' = IF Runs(device[wanted])
                      THEN [stray EXCEPT ![wanted] = device[wanted]] ELSE stray
  /\ NewThread \in FrameThreads \ Started
  /\ frame' = [frame EXCEPT ![NewThread] = "awake"] /\ frameThread' = NewThread
  /\ window' = "run"
  /\ UNCHANGED <<unloads, choice, webrtc, service, sensor, loaded, events, interrupted,
                 objects, broken>>

Window ==
  \/ initSdk \/ initWsConnection
  \/ FindManager \/ FindConductor \/ initSensor \/ UnloadSensor \/ StartSensor

User ==
  \/ roomOpen
  \/ \E source \in Sources, plugin \in Plugins \cup {"none"} : setDeviceName(source, plugin)

-----------------------------------------------------------------------------
(* The threads of a sensor. *)

\* threadMain(): Kinect's thread ends when the device is open, RealSense's runs a
\* loop, unless another has the device; either ends when there is no device.  The
\* library that Kinect's uses has a thread of its own by then, device or not.
DeviceStarts(p) ==
  /\ \/ /\ device[p] = "starting"
        /\ \/ device' = [device EXCEPT ![p] = "none"]
           \/ /\ p = "realsense" /\ stray[p] # "loop"
              /\ device' = [device EXCEPT ![p] = "loop"]
        /\ UNCHANGED stray
     \/ /\ stray[p] = "starting"
        /\ \/ stray' = [stray EXCEPT ![p] = "none"]
           \/ /\ p = "realsense" /\ device[p] # "loop"
              /\ stray' = [stray EXCEPT ![p] = "loop"]
        /\ UNCHANGED device
  /\ (p = "kinect" /\ events' = TRUE) \/ UNCHANGED events
  /\ UNCHANGED <<unloads, window, choice, webrtc, service, sensor, loaded, frames, objects,
                 broken>>

\* frameThread(): m_sensor->requestNewFrame().
RequestNewFrame(f) ==
  /\ frame[f] = "awake"
  /\ IF sensor = "none" THEN Crash /\ UNCHANGED frame
                        ELSE frame' = [frame EXCEPT ![f] = sensor] /\ UNCHANGED window
  /\ Use({"manager"})
  /\ UNCHANGED <<unloads, choice, webrtc, service, sensors, frameThread, interrupted,
                 objects>>

\* The sensor looks for pictures, and may have some for the renderer; sleep() follows.
FrameReturns(f) ==
  /\ frame[f] \in Plugins
  /\ frame' = [frame EXCEPT ![f] = "sleep"]
  /\ \E handed \in {{}, {"scene"}} :
       broken' = (broken \/ frame[f] \notin loaded \/ ~(handed \subseteq objects))
  /\ UNCHANGED <<unloads, window, choice, webrtc, service, sensors, frameThread,
                 interrupted, objects>>

\* sleep() is where an interruption ends the thread.
FrameSleeps(f) ==
  /\ frame[f] = "sleep"
  /\ frame' = [frame EXCEPT ![f] = IF f = frameThread /\ interrupted THEN "gone"
                                                                     ELSE "awake"]
  /\ UNCHANGED <<unloads, window, choice, webrtc, service, sensors, frameThread,
                 interrupted, objects, broken>>

FrameLoop(f) == RequestNewFrame(f) \/ FrameReturns(f) \/ FrameSleeps(f)

-----------------------------------------------------------------------------
(* ~MainWindow() and ~Manager(). *)

\* SDL_QUIT ends run(); the scene goes first.
FreeScene ==
  /\ window = "run"
  /\ objects' = objects \ {"scene"}
  /\ window' = "interrupt"
  /\ UNCHANGED <<unloads, choice, webrtc, service, sensors, frames, broken>>

Interrupt ==
  /\ window = "interrupt"
  /\ interrupted' = (frameThread # NoThread)
  /\ window' = IF frameThread # NoThread THEN "joinFrame" ELSE "freeService"
  /\ UNCHANGED <<unloads, choice, webrtc, service, sensors, frame, frameThread, objects,
                 broken>>

JoinFrame ==
  /\ window = "joinFrame" /\ frame[frameThread] = "gone"
  /\ frameThread' = NoThread
  /\ window' = "freeService"
  /\ UNCHANGED <<unloads, choice, webrtc, service, sensors, frame, interrupted, objects,
                 broken>>

\* m_wsClient.reset().  The library's object, if it goes now, first loses its AlRpc.
FreeService ==
  /\ window = "freeService"
  /\ IF unloads
     THEN /\ window' = "joinService" /\ forceExit' = TRUE
          /\ objects' = objects \ {"m_wsClient", "rpc"}
     ELSE /\ window' = "freeSensor" /\ UNCHANGED forceExit
          /\ objects' = objects \ {"m_wsClient"}
  /\ UNCHANGED <<unloads, choice, webrtc, ws, held, sensors, frames, broken>>

\* ~AlWsClient(): there is no thread to wait for if run() was not reached.
JoinService ==
  /\ window \in {"joinService", "exitService"} /\ ws \in {"starting", "gone"}
  /\ window' = IF window = "exitService" THEN "closed" ELSE "freeSensor"
  /\ UNCHANGED <<unloads, choice, webrtc, service, sensors, frames, objects, broken>>

FreeSensor ==
  /\ window = "freeSensor"
  /\ sensor' = "none"
  /\ window' = IF unloads THEN "joinSensor" ELSE "freeSdk"
  /\ UNCHANGED <<unloads, choice, webrtc, service, loaded, device, stray, events, frames,
                 objects, broken>>

JoinSensor ==
  /\ window \in {"joinSensor", "exitSensor"}
  /\ \A p \in loaded : ~Runs(device[p])
  /\ broken' = (broken \/ Pulled(loaded))
  /\ loaded' = {}
  /\ window' = IF window = "joinSensor" THEN "freeSdk" ELSE "freeLibrary"
  /\ UNCHANGED <<unloads, choice, webrtc, service, sensor, device, stray, events, frames,
                 objects>>

\* m_sdk.reset(), then the Manager's members: the signal's copy of m_sdk was the last.
FreeSdk ==
  /\ window = "freeSdk"
  /\ objects' = objects \ {"m_sdk"}
  /\ window' = "freeManager"
  /\ UNCHANGED <<unloads, choice, webrtc, service, sensors, frames, broken>>

\* ~AlSdkPlugin(), ~AlManager(): a thread that has reached its loop is told to quit.
FreeManager ==
  /\ window = "freeManager"
  /\ objects' = objects \ {"plugin", "manager"}
  /\ quit' = (quit \/ sdk = "loop")
  /\ window' = IF unloads THEN "closed" ELSE "exitSensor"
  /\ UNCHANGED <<unloads, choice, sdk, alManager, conductor, dataSource, overtaken,
                 service, sensors, frames, broken>>

\* exit(): the signalling client is destroyed after the sensors.
FreeLibrary ==
  /\ window = "freeLibrary"
  /\ objects' = objects \ {"rpc"}
  /\ forceExit' = TRUE
  /\ window' = "exitService"
  /\ UNCHANGED <<unloads, choice, webrtc, ws, held, sensors, frames, broken>>

Close ==
  \/ Interrupt \/ JoinFrame \/ FreeService \/ JoinService \/ FreeSensor \/ JoinSensor
  \/ FreeSdk \/ FreeManager \/ FreeLibrary

-----------------------------------------------------------------------------

\* The use of what was destroyed has its consequences.
Fall ==
  /\ broken
  /\ Crash
  /\ UNCHANGED <<unloads, choice, webrtc, service, sensors, frames, objects, broken>>

Next ==
  /\ window \notin {"closed", "crashed"}
  /\ \/ Window \/ User \/ FreeScene \/ Close \/ Fall
     \/ SdkThread \/ ServiceLoop
     \/ \E p \in Plugins : DeviceStarts(p)
     \/ \E f \in FrameThreads : FrameLoop(f)

Spec == Init /\ [][Next]_vars

\* The threads run, lws_service() returns, and a device is opened or is not; the
\* user need not do anything.
Running(A) == window \notin {"closed", "crashed"} /\ A

Fairness ==
  /\ WF_vars(Running(Window \/ Close))
  /\ WF_vars(Running(Callback \/ StoreSource)) /\ WF_vars(Running(ServiceEnds))
  /\ \A p \in Plugins : WF_vars(Running(DeviceStarts(p)))
  /\ \A f \in FrameThreads : WF_vars(Running(FrameLoop(f)))

FairSpec == Spec /\ Fairness

-----------------------------------------------------------------------------
(* Correctness *)

Closing == {"interrupt", "joinFrame", "freeService", "joinService", "freeSensor",
            "joinSensor", "freeSdk", "freeManager", "exitSensor", "freeLibrary",
            "exitService"}
Places == Closing \cup {"initSdk", "initWsConnection", "run", "findManager",
            "findConductor", "initSensor", "unloadSensor", "startSensor", "closed",
            "crashed"}

TypeOK ==
  /\ unloads \in BOOLEAN /\ window \in Places
  /\ webcamList \in 0 .. MaxCameras /\ deviceType \in Sources
  /\ wanted \in Plugins \cup {"none"} /\ room \in BOOLEAN
  /\ sdk \in {"none", "init", "list", "loop", "gone"}
  /\ alManager \in BOOLEAN /\ conductor \in BOOLEAN /\ dataSource \in Sources
  /\ overtaken \in BOOLEAN /\ quit \in BOOLEAN
  /\ ws \in {"none", "starting", "service", "callback", "storing", "gone"}
  /\ IF ws = "storing" THEN held \in Sources ELSE held = "none"
  /\ forceExit \in BOOLEAN
  /\ sensor \in loaded \cup {"none"} /\ loaded \in SUBSET Plugins
  /\ device \in [Plugins -> {"none", "starting", "loop"}]
  /\ stray \in [Plugins -> {"none", "starting", "loop"}]
  /\ events \in BOOLEAN
  /\ frame \in [FrameThreads -> Plugins \cup {"none", "awake", "sleep", "gone"}]
  /\ frameThread \in FrameThreads \cup {NoThread} /\ interrupted \in BOOLEAN
  /\ objects \in SUBSET Objects /\ broken \in BOOLEAN

\* Selecting a camera from the list does not run into a plugin without its
\* AlManager, however early: only a constructed Conductor fills the list.
ListedIsReady == window = "findManager" /\ deviceType = "CAMERA" => alManager

\* One sensor was selected, and no other is being.
OneSelection ==
  Cardinality(Started) = 1 /\ window \notin {"initSensor", "unloadSensor", "startSensor"}

\* With one selection, a frame thread asks no sensor that was destroyed, and none
\* is left to ask when m_sensor is NULL: ~Manager has joined it.
SensorOutlivesItsThread ==
  OneSelection /\ ~Crashed => \A f \in Started :
    /\ frame[f] \in Plugins => frame[f] \in loaded
    /\ sensor = "none" => frame[f] = "gone"

\* When the signalling library is unloaded with m_wsClient, its thread has ended
\* before anything of a loaded SDK that its callbacks use is gone.
ServiceEndsFirst ==
  unloads /\ ws \in {"callback", "storing"} /\ sdk # "none" =>
    {"manager", "m_sdk", "plugin"} \subseteq objects

\* When the Manager is gone no loop of a plugin or of its own can still call it: the
\* service loop has ended or will not be entered, and the loops of the frame thread
\* and of the sensors have ended.  What may be left running are threads that nothing
\* joins: WebRTC's, libfreenect's, and AlWsPlugin's, short of run().
LoopsEndFirst ==
  unloads /\ Cardinality(Started) <= 1 /\ ~Crashed /\ "manager" \notin objects =>
    /\ ws = "gone" \/ (ws = "starting" /\ forceExit)
    /\ \A f \in Started : frame[f] = "gone"
    /\ \A p \in Plugins : ~Runs(device[p])

\* A camera the user chose is the one WebRTC captures from, even when it was
\* chosen from a list that is not complete, before AlManager has its Conductor and
\* the choice is not stored: nothing but a camera is stored before that either.
\* One thing undoes it: an onInitCall() under way since an earlier choice, which
\* stores that one last.  No earlier call does, nor one that has yet to begin.
CameraIsKept ==
  window = "run" /\ deviceType = "CAMERA" => dataSource = "CAMERA" \/ overtaken

\* Liveness: a window that is closed goes away, unless RealSense's loop runs, which
\* its destructor waits for and nothing ends.
WindowCloses ==
  window \in Closing ~>
    window \in {"closed", "crashed"} \/ device["realsense"] = "loop"
=============================================================================

--------------------------- MODULE LifecycleProofs ---------------------------
(***************************************************************************)
(* What holds of the application's life, for any number of cameras and any *)
(* set of frame threads.                                                   *)
(***************************************************************************)
EXTENDS Lifecycle, FiniteSetTheorems, TLAPS

\* Every step is one of these, with the program still running.
AnyStep ==
  \/ Window \/ User \/ FreeScene \/ Close \/ Fall \/ SdkThread \/ ServiceLoop
  \/ \E p \in Plugins : DeviceStarts(p)
  \/ \E f \in FrameThreads : FrameLoop(f)

\* No step is taken by a program that has stopped.
LEMMA Steps ==
  ASSUME [Next]_vars
  PROVE  (AnyStep /\ ~Crashed /\ window # "closed") \/ UNCHANGED vars
BY DEF Next, AnyStep, Crashed

-----------------------------------------------------------------------------
(* Types, and what the place of the window's thread says of the sensor.      *)

Selecting == {"initSensor", "unloadSensor", "startSensor"}
SensorFreed == {"joinSensor", "freeSdk", "freeManager", "exitSensor", "freeLibrary",
                "exitService", "closed"}

PlaceInv ==
  /\ window \in Selecting => wanted \in Plugins
  /\ window \in {"unloadSensor", "startSensor"} => sensor = wanted
  /\ window \in SensorFreed => sensor = "none"
  /\ window \in {"initSdk", "initWsConnection"} => ws = "none"
  /\ window \in {"exitSensor", "freeLibrary", "exitService"} => ~unloads

\* One case for every action: types.
LEMMA TypeStep ==
  ASSUME TypeOK, PlaceInv, [Next]_vars
  PROVE  TypeOK'
<1> USE LifecycleAssumption
    DEF TypeOK, PlaceInv, Places, Closing, Sources, Objects, Selecting, SensorFreed, choice,
        webrtc, service, sensors, frames, Use, Crash
<1>1. CASE initSdk
  <2>1. objects' \in SUBSET Objects /\ sdk' \in {"none", "init", "list", "loop", "gone"}
    BY <1>1 DEF initSdk
  <2> QED
    BY <1>1, <2>1 DEF initSdk
<1>2. CASE initWsConnection
  BY <1>2 DEF initWsConnection
<1>3. CASE FindManager
  BY <1>3 DEF FindManager
<1>4. CASE FindConductor
  <2>1. dataSource' \in Sources /\ overtaken' \in BOOLEAN
    BY <1>4 DEF FindConductor
  <2> QED
    BY <1>4, <2>1 DEF FindConductor
<1>5. CASE initSensor
  BY <1>5 DEF initSensor
<1>6. CASE UnloadSensor
  BY <1>6 DEF UnloadSensor
<1>7. CASE StartSensor
  BY <1>7 DEF StartSensor
<1>8. CASE roomOpen
  BY <1>8 DEF roomOpen
<1>9. ASSUME NEW source \in Sources, NEW plugin \in Plugins \cup {"none"},
            setDeviceName(source, plugin)
      PROVE  TypeOK'
  BY <1>9 DEF setDeviceName
<1>10. CASE FreeScene
  BY <1>10 DEF FreeScene
<1>11. CASE Fall
  BY <1>11 DEF Fall
<1>12. CASE Interrupt
  BY <1>12 DEF Interrupt
<1>13. CASE JoinFrame
  BY <1>13 DEF JoinFrame
<1>14. CASE FreeService
  <2>1. objects' \in SUBSET Objects /\ window' \in Places /\ forceExit' \in BOOLEAN
    BY <1>14 DEF FreeService
  <2> QED
    BY <1>14, <2>1 DEF FreeService
<1>15. CASE JoinService
  BY <1>15 DEF JoinService
<1>16. CASE FreeSensor
  BY <1>16 DEF FreeSensor
<1>17. CASE JoinSensor
  BY <1>17 DEF JoinSensor
<1>18. CASE FreeSdk
  BY <1>18 DEF FreeSdk
<1>19. CASE FreeManager
  BY <1>19 DEF FreeManager
<1>20. CASE FreeLibrary
  BY <1>20 DEF FreeLibrary
<1>21. CASE SetManager
  BY <1>21 DEF SetManager
<1>22. CASE onNewCaptureDeciceCb
  <2>1. broken' \in BOOLEAN
    BY <1>22 DEF onNewCaptureDeciceCb
  <2> QED
    BY <1>22, <2>1 DEF onNewCaptureDeciceCb
<1>23. CASE SetConductor
  BY <1>23 DEF SetConductor
<1>24. CASE SdkWait
  <2>1. broken' \in BOOLEAN
    BY <1>24 DEF SdkWait
  <2> QED
    BY <1>24, <2>1 DEF SdkWait
<1>25. CASE SdkQuit
  BY <1>25 DEF SdkQuit
<1>26. CASE Receive
  BY <1>26 DEF Receive
<1>27. CASE Callback
  BY <1>27 DEF Callback
<1>28. CASE ServiceEnds
  BY <1>28 DEF ServiceEnds
<1>29. CASE onInitCall
  BY <1>29 DEF onInitCall
<1>30. CASE StartService
  BY <1>30 DEF StartService
<1>31. CASE StoreSource
  <2>1. dataSource' \in Sources /\ overtaken' \in BOOLEAN
    BY <1>31 DEF StoreSource
  <2> QED
    BY <1>31, <2>1 DEF StoreSource
<1>32. ASSUME NEW p \in Plugins, DeviceStarts(p) PROVE TypeOK'
  <2>1. events' \in BOOLEAN
    BY <1>32 DEF DeviceStarts
  <2>2. /\ device' \in [Plugins -> {"none", "starting", "loop"}]
        /\ stray' \in [Plugins -> {"none", "starting", "loop"}]
    BY <1>32 DEF DeviceStarts
  <2> QED
    BY <1>32, <2>1, <2>2 DEF DeviceStarts
<1>33. ASSUME NEW f \in FrameThreads, RequestNewFrame(f) PROVE TypeOK'
  BY <1>33 DEF RequestNewFrame
<1>34. ASSUME NEW f \in FrameThreads, FrameReturns(f) PROVE TypeOK'
  BY <1>34 DEF FrameReturns
<1>35. ASSUME NEW f \in FrameThreads, FrameSleeps(f) PROVE TypeOK'
  BY <1>35 DEF FrameSleeps
<1>36. CASE UNCHANGED vars
  BY <1>36 DEF vars
<1> QED
  BY Steps, <1>1, <1>2, <1>3, <1>4, <1>5, <1>6, <1>7, <1>8, <1>9, <1>10, <1>11,
     <1>12, <1>13, <1>14, <1>15, <1>16, <1>17, <1>18, <1>19, <1>20, <1>21, <1>22,
     <1>23, <1>24, <1>25, <1>26, <1>27, <1>28, <1>29, <1>30, <1>31, <1>32, <1>33,
     <1>34, <1>35, <1>36
     DEF AnyStep, Window, User, Close, SdkThread, ServiceLoop, FrameLoop

\* The window's thread goes its way, and nobody else moves it but into a crash.
LEMMA PlaceStep ==
  ASSUME TypeOK, PlaceInv, [Next]_vars
  PROVE  PlaceInv'
<1> USE DEF PlaceInv, Selecting, SensorFreed, choice, webrtc, service, sensors, frames, Use,
        Crash
<1>1. CASE Window
  BY <1>1 DEF TypeOK, Window, initSdk, initWsConnection, FindManager, FindConductor,
              initSensor, UnloadSensor, StartSensor
<1>2. CASE User
  BY <1>2 DEF User, roomOpen, setDeviceName
<1>3. CASE FreeScene \/ Fall
  BY <1>3 DEF FreeScene, Fall
<1>4. CASE Close
  BY <1>4 DEF Close, Interrupt, JoinFrame, FreeService, JoinService, FreeSensor, JoinSensor,
              FreeSdk, FreeManager, FreeLibrary
<1>5. CASE SdkThread
  BY <1>5 DEF SdkThread, SetManager, onNewCaptureDeciceCb, SetConductor, SdkWait, SdkQuit
<1>6. CASE ServiceLoop
  BY <1>6 DEF ServiceLoop, StartService, Receive, Callback, onInitCall, StoreSource, ServiceEnds
<1>7. ASSUME NEW p \in Plugins, DeviceStarts(p) PROVE PlaceInv'
  BY <1>7 DEF DeviceStarts
<1>8. ASSUME NEW f \in FrameThreads, FrameLoop(f) PROVE PlaceInv'
  BY <1>8 DEF FrameLoop, RequestNewFrame, FrameReturns, FrameSleeps
<1>9. CASE UNCHANGED vars
  BY <1>9 DEF vars
<1> QED
  BY Steps, <1>1, <1>2, <1>3, <1>4, <1>5, <1>6, <1>7, <1>8, <1>9 DEF AnyStep

\* The two hold together: neither is inductive alone.
LEMMA TypeAndPlace == Spec => [](TypeOK /\ PlaceInv)
<1>1. Init => TypeOK /\ PlaceInv
  <2> SUFFICES ASSUME Init PROVE TypeOK /\ PlaceInv
    OBVIOUS
  <2> USE LifecycleAssumption DEF Init
  <2>1. /\ device \in [Plugins -> {"none", "starting", "loop"}]
        /\ stray \in [Plugins -> {"none", "starting", "loop"}]
        /\ frame \in [FrameThreads -> Plugins \cup {"none", "awake", "sleep", "gone"}]
    OBVIOUS
  <2>2. objects \in SUBSET Objects /\ window \in Places /\ webcamList \in 0 .. MaxCameras
    BY DEF Objects, Places
  <2>3. TypeOK
    BY <2>1, <2>2 DEF TypeOK, Sources
  <2>4. PlaceInv
    BY DEF PlaceInv, Selecting, SensorFreed
  <2> QED
    BY <2>3, <2>4
<1>2. TypeOK /\ PlaceInv /\ [Next]_vars => TypeOK' /\ PlaceInv'
  BY TypeStep, PlaceStep
<1> QED
  BY <1>1, <1>2, PTL DEF Spec
\* The values every variable ranges over, with m_sensor one of the sensors whose
\* objects exist, through every order of starting, choosing and closing.
THEOREM TypeCorrect == Spec => []TypeOK
BY TypeAndPlace, PTL

-----------------------------------------------------------------------------
(* The choice of a source.                                                   *)

\* The list is filled by a Conductor's constructor, which AlManager::run() calls.
ReadyInv ==
  /\ webcamList > 0 \/ sdk \in {"list", "loop", "gone"} => alManager
  /\ ListedIsReady

\* m_manager is never taken back.
LEMMA ReadyStep ==
  ASSUME TypeOK, PlaceInv, ReadyInv, [Next]_vars
  PROVE  ReadyInv'
<1> USE DEF TypeOK, ReadyInv, ListedIsReady, choice, webrtc, service,
        sensors, frames, Use, Crash
<1>1. CASE Window
  BY <1>1 DEF Window, initSdk, initWsConnection, FindManager, FindConductor, initSensor,
              UnloadSensor, StartSensor
<1>2. CASE User
  BY <1>2 DEF User, roomOpen, setDeviceName
<1>3. CASE FreeScene \/ Fall
  BY <1>3 DEF FreeScene, Fall
<1>4. CASE Close
  BY <1>4 DEF Close, Interrupt, JoinFrame, FreeService, JoinService, FreeSensor, JoinSensor,
              FreeSdk, FreeManager, FreeLibrary
<1>5. CASE SdkThread
  BY <1>5 DEF SdkThread, SetManager, onNewCaptureDeciceCb, SetConductor, SdkWait, SdkQuit
<1>6. CASE ServiceLoop
  BY <1>6 DEF ServiceLoop, StartService, Receive, Callback, onInitCall, StoreSource, ServiceEnds
<1>7. ASSUME NEW p \in Plugins, DeviceStarts(p) PROVE ReadyInv'
  BY <1>7 DEF DeviceStarts
<1>8. ASSUME NEW f \in FrameThreads, FrameLoop(f) PROVE ReadyInv'
  BY <1>8 DEF FrameLoop, RequestNewFrame, FrameReturns, FrameSleeps
<1>9. CASE UNCHANGED vars
  BY <1>9 DEF vars
<1> QED
  BY Steps, <1>1, <1>2, <1>3, <1>4, <1>5, <1>6, <1>7, <1>8, <1>9 DEF AnyStep

\* A camera that is on the list can be chosen: the plugin has its AlManager.
THEOREM ListedIsReadyHolds == Spec => []ListedIsReady
<1>1. Init => ReadyInv
  BY DEF Init, ReadyInv, ListedIsReady
<1>2. TypeOK /\ PlaceInv /\ ReadyInv /\ [Next]_vars => ReadyInv'
  BY ReadyStep
<1> QED
  BY <1>1, <1>2, TypeAndPlace, PTL DEF Spec, ReadyInv

\* Until a Conductor can store a choice, the source is the default one, a camera.
\* Afterwards the source is a sensor, with a camera chosen, only by the call that
\* read the choice before.
CameraInv ==
  /\ ~conductor => dataSource = "CAMERA"
  /\ window \notin {"findManager", "findConductor", "crashed"} /\ deviceType = "CAMERA"
       => dataSource = "CAMERA" \/ overtaken

\* FindConductor stores the choice whenever there is a Conductor, and StoreSource
\* what onInitCall read.
LEMMA CameraStep ==
  ASSUME TypeOK, PlaceInv, CameraInv, [Next]_vars
  PROVE  CameraInv'
<1> USE DEF TypeOK, CameraInv, Sources, choice, webrtc, service,
        sensors, frames, Use, Crash
<1>1. CASE Window
  BY <1>1 DEF Window, initSdk, initWsConnection, FindManager, FindConductor, initSensor,
              UnloadSensor, StartSensor
<1>2. CASE User
  BY <1>2 DEF User, roomOpen, setDeviceName
<1>3. CASE FreeScene \/ Fall
  BY <1>3 DEF FreeScene, Fall
<1>4. CASE Close
  BY <1>4 DEF Close, Interrupt, JoinFrame, FreeService, JoinService, FreeSensor, JoinSensor,
              FreeSdk, FreeManager, FreeLibrary
<1>5. CASE SdkThread
  BY <1>5 DEF SdkThread, SetManager, onNewCaptureDeciceCb, SetConductor, SdkWait, SdkQuit
<1>6. CASE ServiceLoop
  BY <1>6 DEF ServiceLoop, StartService, Receive, Callback, onInitCall, StoreSource, ServiceEnds
<1>7. ASSUME NEW p \in Plugins, DeviceStarts(p) PROVE CameraInv'
  BY <1>7 DEF DeviceStarts
<1>8. ASSUME NEW f \in FrameThreads, FrameLoop(f) PROVE CameraInv'
  BY <1>8 DEF FrameLoop, RequestNewFrame, FrameReturns, FrameSleeps
<1>9. CASE UNCHANGED vars
  BY <1>9 DEF vars
<1> QED
  BY Steps, <1>1, <1>2, <1>3, <1>4, <1>5, <1>6, <1>7, <1>8, <1>9 DEF AnyStep

\* The camera that was chosen is captured from, whenever it was chosen, unless an
\* onInitCall() that had read the choice before stored it after.
THEOREM CameraIsKeptHolds == Spec => []CameraIsKept
<1>1. Init => CameraInv
  BY DEF Init, CameraInv
<1>2. TypeOK /\ PlaceInv /\ CameraInv /\ [Next]_vars => CameraInv'
  BY CameraStep
<1>3. CameraInv => CameraIsKept
  BY DEF CameraInv, CameraIsKept
<1> QED
  BY <1>1, <1>2, <1>3, TypeAndPlace, PTL DEF Spec

-----------------------------------------------------------------------------
(* Closing, when libraries are unloaded with the last reference.             *)

\* ~Manager has waited for the service loop before it lets go of a sensor or of
\* the SDK, and is itself there until then.
ServiceOver == ws \in {"gone", "starting"} /\ forceExit

ServiceInv ==
  /\ "manager" \notin objects =>
       window \in {"closed", "exitSensor", "freeLibrary", "exitService", "crashed"}
  /\ unloads /\ window = "joinService" => forceExit
  /\ unloads /\ window \in {"freeSensor", "joinSensor", "freeSdk", "freeManager", "closed"}
       => ServiceOver
  /\ unloads /\ sdk # "none" /\ ~ServiceOver =>
       {"manager", "m_sdk", "plugin"} \subseteq objects

\* Nothing goes before JoinService has returned.
LEMMA ServiceStep ==
  ASSUME TypeOK, PlaceInv, ServiceInv, [Next]_vars
  PROVE  ServiceInv'
<1> USE DEF TypeOK, PlaceInv, ServiceInv, ServiceOver, choice, webrtc, service,
        sensors, frames, Use, Crash
<1>1. CASE Window
  BY <1>1 DEF Window, initSdk, initWsConnection, FindManager, FindConductor, initSensor,
              UnloadSensor, StartSensor
<1>2. CASE User
  BY <1>2 DEF User, roomOpen, setDeviceName
<1>3. CASE FreeScene \/ Fall
  BY <1>3 DEF FreeScene, Fall
<1>4. CASE Close
  BY <1>4 DEF Close, Interrupt, JoinFrame, FreeService, JoinService, FreeSensor, JoinSensor,
              FreeSdk, FreeManager, FreeLibrary
<1>5. CASE SdkThread
  BY <1>5 DEF SdkThread, SetManager, onNewCaptureDeciceCb, SetConductor, SdkWait, SdkQuit
<1>6. CASE ServiceLoop
  BY <1>6 DEF ServiceLoop, StartService, Receive, Callback, onInitCall, StoreSource, ServiceEnds
<1>7. ASSUME NEW p \in Plugins, DeviceStarts(p) PROVE ServiceInv'
  BY <1>7 DEF DeviceStarts
<1>8. ASSUME NEW f \in FrameThreads, FrameLoop(f) PROVE ServiceInv'
  BY <1>8 DEF FrameLoop, RequestNewFrame, FrameReturns, FrameSleeps
<1>9. CASE UNCHANGED vars
  BY <1>9 DEF vars
<1> QED
  BY Steps, <1>1, <1>2, <1>3, <1>4, <1>5, <1>6, <1>7, <1>8, <1>9 DEF AnyStep

\* It holds from the start.
LEMMA ServiceHolds == Spec => []ServiceInv
<1>1. Init => ServiceInv
  BY DEF Init, ServiceInv
<1>2. TypeOK /\ PlaceInv /\ ServiceInv /\ [Next]_vars => ServiceInv'
  BY ServiceStep
<1> QED
  BY <1>1, <1>2, TypeAndPlace, PTL DEF Spec

\* No callback of the service runs into a Manager or an SDK that is being destroyed.
THEOREM ServiceEndsFirstHolds == Spec => []ServiceEndsFirst
<1>1. ServiceInv => ServiceEndsFirst
  BY DEF ServiceInv, ServiceOver, ServiceEndsFirst
<1> QED
  BY <1>1, ServiceHolds, PTL

-----------------------------------------------------------------------------
(* Frame threads.                                                            *)

Joined == SensorFreed \cup {"freeService", "joinService", "freeSensor"}
OneThread == \A f, g \in Started : f = g

\* m_frameThread is the thread of the last selection, and the only one, after one
\* selection: it asks m_sensor, which is there, until ~Manager has joined it.
ThreadInv ==
  /\ frameThread # NoThread => frameThread \in Started
  /\ window \notin Joined \cup {"crashed"} /\ Started # {} => frameThread # NoThread
  /\ window \notin Joined \cup Selecting \cup {"crashed"} /\ Started # {} => sensor # "none"
  /\ OneThread /\ window \notin Selecting \cup {"crashed"} =>
       \A f \in Started : frame[f] \in Plugins => frame[f] = sensor
  /\ OneThread /\ window \in Joined => \A f \in Started : frame[f] = "gone"

\* The thread of one selection: started, asked to end, joined.
LEMMA ThreadStep ==
  ASSUME TypeOK, PlaceInv, ThreadInv, [Next]_vars
  PROVE  ThreadInv'
<1> USE DEF TypeOK, PlaceInv, ThreadInv, Joined, SensorFreed,
        Selecting, OneThread, Started, Plugins, choice, webrtc, service,
        sensors, frames, Use, Crash
<1>1. CASE Window
  <2>1. CASE initSdk \/ initWsConnection \/ FindManager \/ FindConductor
    BY <2>1 DEF initSdk, initWsConnection, FindManager, FindConductor
  <2>2. CASE initSensor \/ UnloadSensor
    BY <2>2 DEF initSensor, UnloadSensor
  <2>3. CASE StartSensor
    <3>1. PICK f \in FrameThreads \ Started :
            frame' = [frame EXCEPT ![f] = "awake"] /\ frameThread' = f
      <4> HIDE DEF Started
      <4> QED
        BY <2>3 DEF StartSensor
    <3>2. window' = "run" /\ sensor' = sensor /\ sensor # "none"
      BY <2>3 DEF StartSensor
    <3>3. Started' = Started \cup {f}
      BY <3>1
    <3>4. OneThread' => Started' = {f}
      BY <3>1, <3>3
    <3>5. frame'[f] = "awake" /\ "awake" \notin Plugins
      BY <3>1
    <3> HIDE DEF Started
    <3> QED
      BY <3>1, <3>2, <3>3, <3>4, <3>5, LifecycleAssumption
  <2> QED
    BY <1>1, <2>1, <2>2, <2>3 DEF Window
<1>2. CASE User
  BY <1>2 DEF User, roomOpen, setDeviceName
<1>3. CASE FreeScene \/ Fall
  BY <1>3 DEF FreeScene, Fall
<1>4. CASE Close
  <2>1. CASE Interrupt
    BY <2>1 DEF Interrupt
  <2>2. CASE JoinFrame
    <3>1. OneThread => \A f \in Started : frame[f] = "gone"
      BY <2>2, LifecycleAssumption DEF JoinFrame
    <3> QED
      BY <2>2, <3>1 DEF JoinFrame
  <2>3. CASE FreeService \/ JoinService \/ FreeSensor \/ JoinSensor
    BY <2>3 DEF FreeService, JoinService, FreeSensor, JoinSensor
  <2>4. CASE FreeSdk \/ FreeManager \/ FreeLibrary
    BY <2>4 DEF FreeSdk, FreeManager, FreeLibrary
  <2> QED
    BY <1>4, <2>1, <2>2, <2>3, <2>4 DEF Close
<1>5. CASE SdkThread
  BY <1>5 DEF SdkThread, SetManager, onNewCaptureDeciceCb, SetConductor, SdkWait, SdkQuit
<1>6. CASE ServiceLoop
  BY <1>6 DEF ServiceLoop, StartService, Receive, Callback, onInitCall, StoreSource, ServiceEnds
<1>7. ASSUME NEW p \in Plugins, DeviceStarts(p) PROVE ThreadInv'
  BY <1>7 DEF DeviceStarts
<1>8. ASSUME NEW f \in FrameThreads, FrameLoop(f) PROVE ThreadInv'
  <2>1. CASE RequestNewFrame(f)
    BY <2>1 DEF RequestNewFrame
  <2>2. CASE FrameReturns(f)
    BY <2>2 DEF FrameReturns
  <2>3. CASE FrameSleeps(f)
    BY <2>3 DEF FrameSleeps
  <2> QED
    BY <1>8, <2>1, <2>2, <2>3 DEF FrameLoop
<1>9. CASE UNCHANGED vars
  BY <1>9 DEF vars
<1> QED
  BY Steps, <1>1, <1>2, <1>3, <1>4, <1>5, <1>6, <1>7, <1>8, <1>9 DEF AnyStep

\* It holds from the start: no thread has been started.
LEMMA ThreadHolds == Spec => []ThreadInv
<1>1. Init => ThreadInv
  BY DEF Init, ThreadInv, Joined, SensorFreed, Selecting, Started
<1>2. TypeOK /\ PlaceInv /\ ThreadInv /\ [Next]_vars => ThreadInv'
  BY ThreadStep
<1> QED
  BY <1>1, <1>2, TypeAndPlace, PTL DEF Spec

\* Threads are started one by one, so that they can be counted.
LEMMA StartedStep ==
  ASSUME TypeOK, IsFiniteSet(Started), [Next]_vars
  PROVE  IsFiniteSet(Started')
<1>1. CASE StartSensor
  <2>1. PICK f \in FrameThreads : frame' = [frame EXCEPT ![f] = "awake"]
    BY <1>1 DEF StartSensor
  <2>2. Started' = Started \cup {f}
    BY <2>1 DEF Started, TypeOK
  <2> QED
    BY <2>2, FS_AddElement
<1>2. ASSUME NEW f \in FrameThreads, FrameLoop(f) PROVE Started' = Started
  <2>1. CASE RequestNewFrame(f)
    BY <2>1 DEF RequestNewFrame, Started, TypeOK
  <2>2. CASE FrameReturns(f) \/ FrameSleeps(f)
    BY <2>2 DEF FrameReturns, FrameSleeps, Started, TypeOK, Plugins
  <2> QED
    BY <1>2, <2>1, <2>2 DEF FrameLoop
<1>3. CASE frame' = frame
  BY <1>3 DEF Started
<1>4. ASSUME AnyStep PROVE \/ StartSensor \/ frame' = frame
                           \/ \E f \in FrameThreads : FrameLoop(f)
  <2> USE DEF frames
  <2>1. Window => StartSensor \/ frame' = frame
    BY DEF Window, initSdk, initWsConnection, FindManager, FindConductor, initSensor,
           UnloadSensor
  <2>2. User \/ FreeScene \/ Fall => frame' = frame
    BY DEF User, roomOpen, setDeviceName, FreeScene, Fall
  <2>3. Close => frame' = frame
    BY DEF Close, Interrupt, JoinFrame, FreeService, JoinService, FreeSensor, JoinSensor,
           FreeSdk, FreeManager, FreeLibrary
  <2>4. SdkThread \/ ServiceLoop => frame' = frame
    BY DEF SdkThread, SetManager, onNewCaptureDeciceCb, SetConductor, SdkWait, SdkQuit,
           ServiceLoop, StartService, Receive, Callback, onInitCall, StoreSource, ServiceEnds
  <2>5. \A p \in Plugins : DeviceStarts(p) => frame' = frame
    BY DEF DeviceStarts
  <2> QED
    BY <1>4, <2>1, <2>2, <2>3, <2>4, <2>5 DEF AnyStep
<1>5. CASE UNCHANGED vars
  BY <1>3, <1>5 DEF vars
<1> QED
  BY Steps, <1>1, <1>2, <1>3, <1>4, <1>5

\* However many threads the set allows, finitely many have been started.
LEMMA StartedIsFinite == Spec => []IsFiniteSet(Started)
<1>1. Init => IsFiniteSet(Started)
  <2>1. Init => Started = {}
    BY DEF Init, Started
  <2> QED
    BY <2>1, FS_EmptySet
<1>2. TypeOK /\ IsFiniteSet(Started) /\ [Next]_vars => IsFiniteSet(Started)'
  BY StartedStep
<1> QED
  BY <1>1, <1>2, TypeAndPlace, PTL DEF Spec

\* After one selection, the frame thread never asks a sensor that was destroyed,
\* nor m_sensor when it is NULL.
THEOREM SensorOutlivesHolds == Spec => []SensorOutlivesItsThread
<1>1. TypeOK /\ ThreadInv /\ IsFiniteSet(Started) => SensorOutlivesItsThread
  <2> SUFFICES ASSUME TypeOK, ThreadInv, IsFiniteSet(Started), OneSelection, ~Crashed,
                      NEW f \in Started
               PROVE  /\ frame[f] \in Plugins => frame[f] \in loaded
                      /\ sensor = "none" => frame[f] = "gone"
    BY DEF SensorOutlivesItsThread
  <2>1. OneThread
    BY FS_Singleton DEF OneThread, OneSelection
  <2>2. window \notin Selecting \cup {"crashed"}
    BY DEF OneSelection, Selecting, Crashed
  <2>3. frame[f] \in Plugins => frame[f] = sensor
    BY <2>1, <2>2 DEF ThreadInv
  <2>4. sensor = "none" => window \in Joined
    BY <2>2 DEF ThreadInv
  <2> QED
    BY <2>1, <2>3, <2>4 DEF ThreadInv, TypeOK, Plugins
<1> QED
  BY <1>1, TypeAndPlace, ThreadHolds, StartedIsFinite, PTL

-----------------------------------------------------------------------------
(* The threads of the sensors.                                               *)

DeviceInv ==
  /\ \A p \in Plugins \ loaded : ~Runs(device[p])
  /\ unloads /\ window \in {"freeSdk", "freeManager", "closed"} => loaded = {}

\* A thread runs for a sensor that is loaded; a destructor waits for it.
LEMMA DeviceStep ==
  ASSUME TypeOK, PlaceInv, DeviceInv, [Next]_vars
  PROVE  DeviceInv'
<1> USE DEF TypeOK, PlaceInv, DeviceInv, SensorFreed,
        Selecting, Runs, choice, webrtc, service,
        sensors, frames, Use, Crash
<1>1. CASE Window
  <2>1. CASE initSdk \/ initWsConnection \/ FindManager \/ FindConductor \/ initSensor
    BY <2>1 DEF initSdk, initWsConnection, FindManager, FindConductor, initSensor
  <2>2. CASE UnloadSensor
    BY <2>2 DEF UnloadSensor
  <2>3. CASE StartSensor
    <3>1. wanted \in loaded /\ window' = "run" /\ loaded' = loaded
      BY <2>3 DEF StartSensor, Plugins
    <3>2. \A p \in Plugins \ {wanted} : device'[p] = device[p]
      BY <2>3 DEF StartSensor
    <3> QED
      BY <3>1, <3>2
  <2> QED
    BY <1>1, <2>1, <2>2, <2>3 DEF Window
<1>2. CASE User
  BY <1>2 DEF User, roomOpen, setDeviceName
<1>3. CASE FreeScene \/ Fall
  BY <1>3 DEF FreeScene, Fall
<1>4. CASE Close
  BY <1>4 DEF Close, Interrupt, JoinFrame, FreeService, JoinService, FreeSensor, JoinSensor,
              FreeSdk, FreeManager, FreeLibrary
<1>5. CASE SdkThread
  BY <1>5 DEF SdkThread, SetManager, onNewCaptureDeciceCb, SetConductor, SdkWait, SdkQuit
<1>6. CASE ServiceLoop
  BY <1>6 DEF ServiceLoop, StartService, Receive, Callback, onInitCall, StoreSource, ServiceEnds
<1>7. ASSUME NEW p \in Plugins, DeviceStarts(p) PROVE DeviceInv'
  BY <1>7 DEF DeviceStarts
<1>8. ASSUME NEW f \in FrameThreads, FrameLoop(f) PROVE DeviceInv'
  BY <1>8 DEF FrameLoop, RequestNewFrame, FrameReturns, FrameSleeps
<1>9. CASE UNCHANGED vars
  BY <1>9 DEF vars
<1> QED
  BY Steps, <1>1, <1>2, <1>3, <1>4, <1>5, <1>6, <1>7, <1>8, <1>9 DEF AnyStep

\* It holds from the start.
LEMMA DeviceHolds == Spec => []DeviceInv
<1>1. Init => DeviceInv
  BY DEF Init, DeviceInv, Runs
<1>2. TypeOK /\ PlaceInv /\ DeviceInv /\ [Next]_vars => DeviceInv'
  BY DeviceStep
<1> QED
  BY <1>1, <1>2, TypeAndPlace, PTL DEF Spec

\* When the Manager is gone so are the frame thread and the loops of the sensors, and
\* the service loop has ended or will not be entered: ~Manager has waited for each
\* that had begun.
THEOREM LoopsEndFirstHolds == Spec => []LoopsEndFirst
<1>1. TypeOK /\ PlaceInv /\ ServiceInv /\ ThreadInv /\ DeviceInv /\ IsFiniteSet(Started)
        => LoopsEndFirst
  <2> SUFFICES ASSUME TypeOK, PlaceInv, ServiceInv, ThreadInv, DeviceInv,
                      IsFiniteSet(Started), unloads, Cardinality(Started) <= 1, ~Crashed,
                      "manager" \notin objects
               PROVE  /\ ws = "gone" \/ (ws = "starting" /\ forceExit)
                      /\ \A f \in Started : frame[f] = "gone"
                      /\ \A p \in Plugins : ~Runs(device[p])
    BY DEF LoopsEndFirst
  <2>1. window = "closed"
    BY DEF ServiceInv, PlaceInv, Crashed
  <2>2. Cardinality(Started) \in {0, 1}
    BY FS_CardinalityType
  <2>3. OneThread
    BY <2>2, FS_EmptySet, FS_Singleton DEF OneThread
  <2>4. \A f \in Started : frame[f] = "gone"
    BY <2>1, <2>3 DEF ThreadInv, Joined, SensorFreed
  <2> QED
    BY <2>1, <2>4 DEF ServiceInv, ServiceOver, DeviceInv
<1> QED
  BY <1>1, TypeAndPlace, ServiceHolds, ThreadHolds, DeviceHolds, StartedIsFinite, PTL
=============================================================================

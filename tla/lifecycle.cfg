SPECIFICATION FairSpec
CONSTANTS
  FrameThreads = {f1, f2}
  NoThread = null
  MaxCameras = 1
INVARIANTS TypeOK ListedIsReady CameraIsKept SensorOutlivesItsThread ServiceEndsFirst LoopsEndFirst
PROPERTY WindowCloses
CHECK_DEADLOCK FALSE

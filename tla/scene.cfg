SPECIFICATION FairSpec
CONSTANTS
  FrameThreads = {f1, f2}
  NoThread = free
  MaxThreads <- MCThreads
  MaxPictures <- MCPictures
  MaxImages <- MCImages
  MaxResizes <- MCResizes
  Sizes <- MCSizes
  VideoFrames <- MCFrames
INVARIANTS TypeOK BuffersAreExclusive DrawnTogether OneWait NeverOlder ShownWhole GeometryKept
PROPERTIES DepthAdvances FramesFlow StreamIsShown
CHECK_DEADLOCK FALSE

SPECIFICATION Spec
CONSTANTS
  FrameThreads = {f1, f2}
  NoThread = free
  MaxThreads <- MCTwice
  MaxPictures <- MCPictures
  MaxImages <- MCNothing
  MaxResizes <- MCNothing
  Sizes <- MCSizes
  VideoFrames <- MCNothing
INVARIANT OneThreadWrites
CHECK_DEADLOCK FALSE

SPECIFICATION PeerSpec
CONSTANTS
  Role = "enterer"
  MaxGathered = 0
  MaxCalls <- MCEnterer
INVARIANTS CandidatesAreAdded OnePeerConnection SdpSentAsMade FramesFindCapturer
CHECK_DEADLOCK FALSE

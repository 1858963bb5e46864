SPECIFICATION PeerSpec
CONSTANTS
  Role = "opener"
  MaxGathered = 1
  MaxCalls <- MCOpener
INVARIANTS CandidatesAreAdded OneSdpPerThread
PROPERTY NoRenegotiation
CHECK_DEADLOCK FALSE

SPECIFICATION FairPeerSpec
CONSTANTS
  Role = "enterer"
  MaxGathered = 1
  MaxCalls <- MCLiveness
PROPERTIES CandidatesArrive CandidatesHandedOver
CHECK_DEADLOCK FALSE

SPECIFICATION Spec
CONSTANT MaxCalls <- MCVideo
INVARIANTS TypeOK  ConnectedMeansAnnounced
CHECK_DEADLOCK FALSE

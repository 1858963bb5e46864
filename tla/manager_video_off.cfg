SPECIFICATION Spec
CONSTANT MaxCalls <- MCVideo
INVARIANT VideoOffAnnounced
CHECK_DEADLOCK FALSE

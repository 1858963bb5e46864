SPECIFICATION Spec
CONSTANT Limits <- MCFault
INVARIANT LoopHasConnection
CHECK_DEADLOCK FALSE

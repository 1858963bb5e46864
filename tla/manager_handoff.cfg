SPECIFICATION Spec
CONSTANT MaxCalls <- MCNegotiation
INVARIANTS SdpBeforeCandidates CandidatesInOrder StrandedOnlyBySkip
PROPERTIES LocalHandoff RemoteHandoff
CHECK_DEADLOCK FALSE

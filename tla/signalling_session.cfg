SPECIFICATION FairSpec
CONSTANT Limits <- MCSession
INVARIANTS TypeOK WrittenInOrder RepliesAreExpected OneRole
PROPERTIES EverythingIsWritten RoomIsSettled
CHECK_DEADLOCK FALSE

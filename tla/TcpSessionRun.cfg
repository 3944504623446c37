SPECIFICATION FairSpec
CONSTANTS
  MaxAttempts = 2
  Settings <- Sessions
INVARIANTS TypeOK HoldCoversRead RestartableIsUnlisted BooksAgree
PROPERTIES CallbackProtocol ClosedIsReported NoLeak
CHECK_DEADLOCK FALSE

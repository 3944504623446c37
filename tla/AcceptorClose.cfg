SPECIFICATION Spec
CONSTANTS
  MaxStarts = 1
  MaxConnections = 1
  MaxWorkers = 1
  Settings <- OneWorker
INVARIANTS CloseEndsSessions
CHECK_DEADLOCK FALSE

SPECIFICATION FairSpec
CONSTANTS
  MaxStarts = 2
  MaxConnections = 2
  MaxWorkers = 2
  Settings <- Servers
INVARIANTS TypeOK ListAgrees FullStrength
PROPERTIES InstancesDrain AcceptorIsFreed
CHECK_DEADLOCK FALSE

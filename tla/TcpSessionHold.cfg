SPECIFICATION Spec
CONSTANTS
  MaxAttempts = 2
  Settings <- Restarted
INVARIANTS HoldCoversEveryRead
CHECK_DEADLOCK FALSE

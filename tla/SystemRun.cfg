SPECIFICATION FairSpec
CONSTANTS
  slow = slow
  quick = quick
  Managers = {1, 2}
  Schedulables <- Both
  Interval <- Ticks
  MaxTick = 1
  MaxAttaches = 3
  Settings <- Runs
INVARIANTS TypeOK InstanceLivesRightly ListsAgree
PROPERTIES UnregisteredIsNotExecuted DueIsExecuted
CHECK_DEADLOCK FALSE

SPECIFICATION FairSpec
CONSTANTS
  t1 = t1
  t2 = t2
  t3 = t3
  Executables <- ThreeExecutables
  Due <- ThreeDue
  MaxTime = 3
  MayCancel = TRUE
  MayStop = TRUE
INVARIANTS TypeOK ExecutedRightly SleepsForTheTop
PROPERTIES PostedIsExecuted
CHECK_DEADLOCK FALSE

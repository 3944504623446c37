SPECIFICATION FairSpec
CONSTANTS
  t1 = t1
  t2 = t2
  t3 = t3
  Executables <- TwoExecutables
  Due <- TwoDue
  MaxTime = 2
  MayCancel = FALSE
  MayStop = TRUE
PROPERTIES StopCompletes
CHECK_DEADLOCK FALSE

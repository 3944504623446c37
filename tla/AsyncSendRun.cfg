SPECIFICATION FairSpec
CONSTANTS
  m1 = m1
  m2 = m2
  m3 = m3
  m4 = m4
  Messages <- ThreeAndAnEmpty
  Size <- ThreeAndAnEmptySizes
  Gathers = {TRUE, FALSE}
  MayClose = TRUE
  Throws = {"send", "handler"}
INVARIANTS TypeOK OneWriteForTheFront HoldIsForWrites
PROPERTIES InOrderStream AcceptedIsSent ClosedIsReleased
CHECK_DEADLOCK FALSE

SPECIFICATION FairSpec
CONSTANTS
  Groups = {A, B}
  Members = {m1, m2}
  Admin = admin
  NoGroup = NoGroup
  MaxMembers = 2
  MaxCalls = 2
  Settings <- Chats
INVARIANTS TypeOK MembershipAgrees ReceiversAgree
PROPERTIES DoorIsKept CallsReturn OnlyMembersAreHeard
CHECK_DEADLOCK FALSE

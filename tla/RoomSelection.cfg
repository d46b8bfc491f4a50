CONSTANTS
  club = club
  choir = choir
  made1 = made1
  made2 = made2
  made3 = made3
  demoRoom = demoRoom
  nothing = nothing
  InviteRooms <- MCInviteRooms
  NewRooms <- MCNewRooms
  DemoRoom = demoRoom
  NoRoom = nothing
  MaxRequests = 3
SPECIFICATION FairSpec
INVARIANTS SelectionValid ListedOnce RefreshComes CreationTracked
PROPERTIES ErasureKeepsSelection CreationEnds
CHECK_DEADLOCK FALSE

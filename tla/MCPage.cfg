SPECIFICATION FairSpec
CONSTANTS
  roomA = roomA
  roomB = roomB
  none = none
  practice = practice
  Rooms <- TwoRooms
  NoRoom = none
  Practice = practice
  MaxJoins = 2
  MaxRounds = 2
  MaxSockets = 2
  MaxReloads = 1
INVARIANTS
  PageInv
PROPERTIES
  RoomMovesOn
  RecoveryEnds
CHECK_DEADLOCK FALSE

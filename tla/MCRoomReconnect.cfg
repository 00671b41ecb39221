SPECIFICATION Spec
CONSTANTS
  a = a
  b = b
  a1 = a1
  a2 = a2
  b1 = b1
  Guests <- TwoGuests
  Sockets <- ReconnectSockets
  Owner <- ReconnectOwner
  MaxPlayers = 2
  MaxSockets = 3
  MaxRound = 1
  Rules <- RaceOnly
  NoGuest = NoGuest
  NoSocket = NoSocket
INVARIANTS
  RoomInv
PROPERTIES
  StartsTogether
  ForfeitIsEarned
  SeatIsKept
CHECK_DEADLOCK FALSE

SPECIFICATION OversizedSpec
CONSTANTS
  a = a
  b = b
  a1 = a1
  a2 = a2
  b1 = b1
  Guests <- TwoGuests
  Sockets <- PlainSockets
  Owner <- PlainOwner
  MaxPlayers = 2
  MaxSockets = 2
  MaxRound = 1
  Rules <- RaceOnly
  NoGuest = NoGuest
  NoSocket = NoSocket
PROPERTIES
  LostSocketIsNoticed
CHECK_DEADLOCK FALSE

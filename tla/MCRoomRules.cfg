SPECIFICATION Spec
CONSTANTS
  a = a
  b = b
  a1 = a1
  a2 = a2
  b1 = b1
  Guests <- TwoGuests
  Sockets <- PlainSockets
  Owner <- PlainOwner
  MaxPlayers = 2
  MaxSockets = 2
  MaxRound = 2
  Rules <- AllRules
  NoGuest = NoGuest
  NoSocket = NoSocket
INVARIANTS
  RoundInv
PROPERTIES
  ImplementsLifecycle
  AnnouncedOnce
  ResultIsRetained
CHECK_DEADLOCK FALSE

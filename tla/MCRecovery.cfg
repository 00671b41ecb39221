SPECIFICATION FairRecoverySpec
CONSTANTS
  a = a
  b = b
  a1 = a1
  b1 = b1
  Guests <- TwoGuests
  Sockets <- TwoSockets
  Owner <- OwnerOf
  MaxPlayers = 2
  MaxSockets = 2
  MaxRound = 1
  Rules <- RaceOnly
  MaxLost = 1
  NoGuest = NoGuest
  NoSocket = NoSocket
INVARIANTS
  StoredIsCurrent
  RestoredIsSound
PROPERTIES
  ResultSurvives
  MatchesMoveOn
CHECK_DEADLOCK FALSE

SPECIFICATION FairSpec
CONSTANTS
  a = a
  b = b
  a1 = a1
  a2 = a2
  b1 = b1
  c1 = c1
  p1 = p1
  p2 = p2
  p3 = p3
  Guests <- EngineGuests
  Bot = Bot
  Sockets <- EngineSockets
  Owner <- EngineOwner
  Codes <- EngineCodes
  MaxPlayers = 2
  Rules <- EngineRules
  Categories <- EngineCategories
  PromptsIn <- EnginePrompts
  NoPrompt = NoPrompt
  NoRoom = NoRoom
  NoEntry = NoEntry
  Length = 1
  MaxHp = 1
  MaxKeys = 1
  MaxRound = 2
  MaxRestarts = 1
INVARIANTS
  EngineInv
PROPERTIES
  MatchIsHeld
  PromptsAreFresh
  LeftMatchEnds
CHECK_DEADLOCK FALSE

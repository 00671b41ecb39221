SPECIFICATION FairSpec
CONSTANTS
  a = a
  b = b
  Com = Com
  Rooms <- TwoPlayers
  PromptLength = 2
  TotalLength = 3
  Duration = 1
  MaxHp = 3
  GuardStreak = 2
  MaxGuards = 1
  Burst = 2
  Rate = 1
  MaxSpeed = 2
  MaxKeys = 2
  MaxTime = 2
INVARIANTS
  PlayInv
  WinnerIsRight
PROPERTIES
  MatchEnds
CHECK_DEADLOCK FALSE

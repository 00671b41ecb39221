SPECIFICATION Spec
CONSTANTS
  Matches <- TypingMatches
  MaxText = 2
  MaxCounted = 7
  SwitchAnywhere = FALSE
INVARIANTS
  PositionInv
PROPERTIES
  CountedOnce
CHECK_DEADLOCK FALSE

SPECIFICATION FairSpec
CONSTANTS
  PromptLength = 2
  MaxTyped = 4
  MaxConns = 3
  MaxPending = 1
INVARIANTS
  TypingInv
  FewerMeansOlder
PROPERTIES
  CountedInOrder
  FinishIsSeen
  GuideNeverMovesBack
CHECK_DEADLOCK FALSE

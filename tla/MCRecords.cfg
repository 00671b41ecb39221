SPECIFICATION Spec
CONSTANTS
  t1 = t1
  t2 = t2
  practice = practice
  daily1 = daily1
  daily2 = daily2
  match = match
  hat = hat
  noPlay = noPlay
  noItem = noItem
  Tabs <- TwoTabs
  Practices <- OnePractice
  Dailies <- TwoDailies
  Matches <- OneMatch
  Items <- Hat
  Price <- HatPrice
  StartCoins = 0
  MaxAttempts = 1
  Days = 2
  NoPlay = noPlay
  NoItem = noItem
  Typed <- HowTyped
  MatchResults <- OneResult
SYMMETRY TabsAreAlike
INVARIANTS
  RecordsInv
PROPERTIES
  BestIsKept
CHECK_DEADLOCK FALSE

SPECIFICATION Spec
CONSTANTS
  None = None
  auds = auds
  svcs = svcs
  comp = comp
  Order <- MCOrder
  Listing <- MCListing
  Length <- MCLength
  Window = 3
  ShortWindow = 4
  MaxWindow = 5
  Skew = 2
  HubTime = 1
  MaxWalk = 2
  Budgets = {9, 40}
  FlawSets <- MCFlawSets
  Busy = {auds}
  MaxTime = 7
  Founded = 3
  MaxSeq = 4
  MaxTrouble = 2
INVARIANTS
  NeverCleared
  HonestNotBlamed
  RetentionEarned
  ForkExact
PROPERTIES
  RunEnds

SPECIFICATION FairSpec
CONSTANTS
  PairCap = 1
  MaxSession = 2
  MaxFlip = 2
INVARIANTS OneCollector RowsOfSession
PROPERTIES FollowsMarket SessionEnds
CHECK_DEADLOCK FALSE

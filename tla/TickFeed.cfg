SPECIFICATION FairSpec
CONSTANTS
  Prices <- MCPrices
  Step = 1000
  Noise = 10
  ChanCap = 2
  MaxHistory = 3
  MaxTick = 5
  None = None
INVARIANTS PayloadCoherent MoneyTracked
PROPERTIES ConsumerLeaves NewestPublished
CHECK_DEADLOCK FALSE

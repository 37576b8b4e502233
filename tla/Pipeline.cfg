SPECIFICATION Spec
CONSTANTS
  BigVolume = 8
  Quotes <- MCQuotes
  Strike = 100
  Spots = {105, 120}
  RingSize = 4
  StrikeRange = 8
  NarrowRange = 4
  CleanupRange = 16
  SnapshotEvery = 2
  CleanupEvery = 3
  MaxOIEvents = 2
  MaxTick = 5
  None = None
INVARIANTS WindowIsRecent FreshPrices TradeIffStrong SignalsAgree

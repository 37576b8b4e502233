SPECIFICATION Spec
CONSTANTS
  Keys <- MCKeys
  Clients = {c1, c2}
  Prices <- MCPrices
  Lots <- MCLots
  Exits <- MCExits
  Capital = 500
  MaxTrades = 3
SYMMETRY Symmetry
INVARIANTS NeverOverdrawn MarginCovers PositionIsNet
PROPERTY OnlyLongExitsPay
CHECK_DEADLOCK FALSE

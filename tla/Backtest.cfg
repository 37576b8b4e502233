SPECIFICATION BacktestSpec
CONSTANTS
  Options <- MCOptions
  Batches <- MCBatches
  Events <- MCEvents
  Requests <- MCRequests
  MaxMinutes = 3
  None = None
INVARIANTS TradesAsAsked NoMatchLost
PROPERTY NoLookAhead

SPECIFICATION Spec
CONSTANTS
  Options <- OneOption
  Quotes <- MCQuotes
  MaxPoll = 3
INVARIANT Conserved
PROPERTY ReloadHidesMove
CHECK_DEADLOCK FALSE

SPECIFICATION PageSpec
VIEW PageView
CONSTANTS
  Clients = {c1}
  NoClient = NoClient
  Modes = {TRUE, FALSE}
  SendCap = 1
  BroadcastCap = 1
  MaxVersion = 2
  OI <- NoneThenRise
  Blank <- MCBlank
INVARIANTS DoneIffDropped ChangesAddUp
PROPERTIES NewestKept LiveInOrder LeavesNothing CatchesUp Settles
CHECK_DEADLOCK FALSE

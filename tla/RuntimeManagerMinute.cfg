SPECIFICATION Spec
CONSTANTS
  r1 = r1
  r2 = r2
  Keys = {k1}
  StopKeys = {}
  Runtimes = {r1, r2}
  NoKey = NoKey
  NoRuntime = NoRuntime
  MaxMinute = 1
  MaxRevision <- OneEach
INVARIANT MinuteStoredOnce
CHECK_DEADLOCK FALSE

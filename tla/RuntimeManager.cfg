SPECIFICATION FairSpec
CONSTANTS
  r1 = r1
  r2 = r2
  Keys = {k1, k2}
  StopKeys = {k1}
  Runtimes = {r1, r2}
  NoKey = NoKey
  NoRuntime = NoRuntime
  MaxMinute = 2
  MaxRevision <- TwoAndOne
INVARIANTS OnePersister OncePerMinute StoppedNeverStored
PROPERTIES StoppedEnds LeaseSpec
CHECK_DEADLOCK FALSE

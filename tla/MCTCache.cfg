CONSTANTS
  Caller = {c1, c2}
  Tag = {t1}
  None = None
  MaxTries = 2
  MaxCalls = 3
  MaxSource = 1
  MaxNow = 2
  MaxInc = 1
  MaxFaults = 1
SPECIFICATION FairSpec
INVARIANTS
  StoredIsComplete
  LockIsHeld
PROPERTIES
  HitIsFresh
  CallsEnd
CHECK_DEADLOCK FALSE

CONSTANTS
  Caller = {c1, c2}
  Tag = {t1}
  None = None
  MaxTries = 4
  MaxCalls = 2
  MaxSource = 1
  MaxNow = 1
  MaxInc = 1
  MaxFaults = 0
SPECIFICATION Spec
INVARIANTS
  OneRebuilder
CHECK_DEADLOCK FALSE

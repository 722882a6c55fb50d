CONSTANTS
  Address = {a1, a2, a3}
  MaxChanges = 3
  MaxFaults = 1
SPECIFICATION FairSpec
INVARIANTS
  NothingLostOnTheWay
PROPERTIES
  ListsConverge
  DialReturns
CHECK_DEADLOCK FALSE

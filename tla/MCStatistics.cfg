CONSTANTS
  MethodName = {check, add}
  Consumer = {user, admin}
  Interval = {0, 1}
  MaxEvents = 2
SPECIFICATION FairSpec
INVARIANTS
  Accounting
  TornOneWay
PROPERTIES
  ClientGoneEndsBoth
CHECK_DEADLOCK FALSE

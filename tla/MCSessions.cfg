CONSTANTS
  t1 = t1
  t2 = t2
  t3 = t3
  ann = ann
  bob = bob
  Tab = {t1, t2, t3}
  Owner <- MCOwner
  Program <- Programs
  Client = {t1, t3}
  MaxAsks <- MCMaxAsks
  MaxId = 5
  MaxFaults = 1
SPECIFICATION Spec
INVARIANTS
  WelcomeIsOwn
  CrashOnlyInService1
PROPERTIES
  StoreRefined
CHECK_DEADLOCK FALSE

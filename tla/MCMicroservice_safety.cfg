CONSTANTS
  biz1 = biz1
  biz2 = biz2
  anon = anon
  bad1 = bad1
  log1 = log1
  log2 = log2
  stat1 = stat1
  NoEvent = NoEvent
  Event = {biz1, anon, bad1, log1, stat1}
  Subscriber = {log1, stat1}
  LoggingCall = {log1}
  Leaver = {log1, stat1}
  Interval = {0, 1}
  Method <- MCMethod
  Header <- MCHeader
  AclData <- MCAclData
SPECIFICATION Spec
INVARIANTS
  OnlyAuthorised
  OwnEventInvisible
  CrashHasCause
  OnlyTheGoneBlock
PROPERTIES
  StuckForever
CHECK_DEADLOCK FALSE

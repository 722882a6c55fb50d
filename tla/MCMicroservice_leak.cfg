CONSTANTS
  biz1 = biz1
  biz2 = biz2
  anon = anon
  bad1 = bad1
  log1 = log1
  log2 = log2
  stat1 = stat1
  NoEvent = NoEvent
  Event = {biz1, log1}
  Subscriber = {log1}
  LoggingCall = {log1}
  Leaver = {}
  Interval = {1}
  Method <- MCMethod
  Header <- MCHeader
  AclData <- MCAclData
SPECIFICATION FairSpec
PROPERTIES
  NoLeak
CHECK_DEADLOCK FALSE

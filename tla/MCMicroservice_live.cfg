CONSTANTS
  biz1 = biz1
  biz2 = biz2
  anon = anon
  bad1 = bad1
  log1 = log1
  log2 = log2
  stat1 = stat1
  NoEvent = NoEvent
  Event = {biz1, log1, stat1}
  Subscriber = {log1, stat1}
  LoggingCall = {log1}
  Leaver = {log1}
  Interval = {0, 1}
  Method <- MCMethod
  Header <- MCHeader
  AclData <- MCAclData
SPECIFICATION FairSpec
PROPERTIES
  BizNeverBlocks
  SubscribersCatchUp
  UnaryServiceStops
CHECK_DEADLOCK FALSE

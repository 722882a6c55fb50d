CONSTANTS
  Event = {e1, e2}
  Subscriber = {s1, s2, s3}
  NoEvent = NoEvent
SPECIFICATION BusFairSpec
INVARIANTS
  GaplessFeed
  NobodyLags
  ClosedOnce
PROPERTIES
  FeedRefined
  StopEndsPublisher
CHECK_DEADLOCK FALSE

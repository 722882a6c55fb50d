CONSTANTS
  Upload = {u1, u2}
  Image = {pic, txt}
  Jpeg = {pic}
  Foreign = Foreign
  Process = {p1, p2}
  Thread = {t1, t2}
  Sizes = 1
  MaxFaults = 2
SPECIFICATION FairSpec
INVARIANTS
  ThumbsComplete
  SuccessIsKept
PROPERTIES
  TasksAreDone
CHECK_DEADLOCK FALSE

CONSTANTS
  p1 = p1
  Pages = {p1}
  MaxTick = 4
  MaxLate = 1
  Size = 3
  QueueSize = 2
  Backlog = 3
  First = 3
SPECIFICATION Spec
CHECK_DEADLOCK FALSE
INVARIANT ResumeSkipsNothing

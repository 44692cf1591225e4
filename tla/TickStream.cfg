SPECIFICATION TicksSpec
CHECK_DEADLOCK FALSE
CONSTANTS
  p1 = p1
  Pages = {p1}
  MaxTick = 5
  MaxLate = 1
  Size = 3
  QueueSize = 2
  Backlog = 2
  First = 1
  NodeCount = 2
  Stall = 1
  Lag = 3
  NetEvery = 3
  Retry = 3
  PollFor = 5
  Failures = 2
  TimeLimit = 11
  MaxTurns = 2
INVARIANTS
  TicksTypeOK  DetailBehindEveryTick NothingFallsBetween
  StoppedNodeIsLeft BareFeedEnds
PROPERTIES
   WellNodeIsKept

CONSTANTS
  MaxTick = 6
  DayLen = 3
  Burns = {2, 3, 5}
  Chunk = 1
  LiveCalls = 2
  CatchUpCalls = 3
  MaxLag = 9
  FillDays = 2
  FillCalls = 6
  StatusUp = {TRUE}
  LogsUp = {TRUE}
  Rescans = {}
  MaxCrashes = 0
SPECIFICATION Spec
CHECK_DEADLOCK FALSE
INVARIANT CountedOnce

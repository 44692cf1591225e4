CONSTANTS
  MaxTick = 6
  DayLen = 3
  Burns = {1, 2, 3, 4, 5, 6}
  Chunk = 2
  LiveCalls = 1
  CatchUpCalls = 2
  MaxLag = 3
  FillDays = 2
  FillCalls = 4
  StatusUp = {TRUE}
  LogsUp = {TRUE}
  Rescans = {}
  MaxCrashes = 0
SPECIFICATION FairSpec
CHECK_DEADLOCK FALSE
PROPERTY FinishedDaysCounted

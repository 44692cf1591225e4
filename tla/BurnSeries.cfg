CONSTANTS
  MaxTick = 5
  DayLen = 3
  Burns = {2, 4, 5}
  Chunk = 2
  LiveCalls = 1
  CatchUpCalls = 1
  MaxLag = 3
  FillDays = 2
  FillCalls = 2
  StatusUp = {TRUE}
  LogsUp = {TRUE, FALSE}
  Rescans = {1}
  MaxCrashes = 1
SPECIFICATION Spec
CHECK_DEADLOCK FALSE
INVARIANT TypeOK
INVARIANT RecordedRunIsCounted
PROPERTY CountedStaysCounted
 

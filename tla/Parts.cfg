SPECIFICATION PartsSpec
CHECK_DEADLOCK FALSE
CONSTANTS
  Prices = {1000, 1100}
  SlotsPerHour = 2
  JumpPart = 200
  ChainGap = 120
  MinReturns = 2
  Window = 180
  EchoSpan = 240
  RollSpan = 60
  KeepSpan = 240
  Slack = 90
  EndOfTime = 360
  MaxMissed = 1
  MaxFaults = 1
  BarShapes <- MCShapes
  Scales <- MCScales
  MaxHours = 10
  MaxTips = 3
  MaxUpsets = 1
  EchoReach = 2
  HourPrices = {1, 2}
  HoursPerDay = 3
  MinHours = 2
  CalendarDays = {1}
  Windows = {2}
  Spans = {1}
  RecordLength = 10
  KeepEpochs = 2
  LastEpoch = 3
  MostSolved = 1
  LastSecond = 4
  MaxRestarts = 1
  Clients = {"c1", "c2"}
  KeptPaths = {"computors"}
  FreshPaths = {"tick-info"}
  Answers = {"a", "b"}
  RetryAttempts = 3
  MaxCalls = 3
  Threads = {t1, t2}
  Questions = {q1, q2, q3}
  Ttl = 2
  MostEntries = 1
  Horizon = 2
  MaxAsked = 3
  Operators = {"o1"}
  Owners = {"w1"}
  Revenues = {0, 1, 3}
  SlotCount = 4
INVARIANTS
  PartsTypeOK ReadingsAnswered HoursHoldEveryReading NoEchoInHours  
  OneActive StoppedPassHeals 
  CalendarTellsWhatWasSeen CompleteIsComplete
  PeakIsHighest NewestAreWhole
  ReturnsWhatWasGiven
  FreshUnlessMarked AnswersTheQuestion CacheBounded
  ClusteringNeverSpreads  DetectedIsExact NakamotoIsSmallest

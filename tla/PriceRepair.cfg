CONSTANTS
  Prices = {1000, 1100}
  SlotsPerHour = 2
  JumpPart = 200
  ChainGap = 120
  MinReturns = 2
  Window = 180
  EchoSpan = 240
  RollSpan = 60
  KeepSpan = 240
  Slack = 90
  EndOfTime = 420
  MaxMissed = 1
  MaxFaults = 1
SPECIFICATION PriceSpec
CHECK_DEADLOCK FALSE
INVARIANT RepairSettles

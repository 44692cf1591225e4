CONSTANTS
  v1 = v1
  v2 = v2
  w = w
  op = op
  NoVersion = NoVersion
  MaxEpoch = 2
  Versions <- MCTwoVersions
  FirstVersion = v1
  Upgrades <- MCUpgrade
  Worker = w
  Operators <- MCNobody
  ByHand = {}
  Window = 2
  RunningLogs = {"none", "some"}
  ClosedLogs = {"none", "final"}
  DeltaKinds = {"final"}
  BobUp = {TRUE, FALSE}
  MaxCrashes = 2
SPECIFICATION Spec
PROPERTY SealedReportStays
PROPERTY RefinesHistory

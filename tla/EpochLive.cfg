CONSTANTS
  v1 = v1
  v2 = v2
  w = w
  op = op
  NoVersion = NoVersion
  MaxEpoch = 3
  Versions <- MCOneVersion
  FirstVersion = v1
  Upgrades <- MCNoUpgrade
  Worker = w
  Operators <- MCNobody
  ByHand = {}
  Window = 2
  RunningLogs = {"none"}
  ClosedLogs = {"none", "final"}
  DeltaKinds = {}
  BobUp = {TRUE}
  MaxCrashes = 1
SPECIFICATION FairSpec
PROPERTY ClosedIsSealed
INVARIANT SealedIsCharted

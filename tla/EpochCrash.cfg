CONSTANTS
  v1 = v1
  v2 = v2
  w = w
  op = op
  NoVersion = NoVersion
  MaxEpoch = 2
  Versions <- MCOneVersion
  FirstVersion = v1
  Upgrades <- MCNoUpgrade
  Worker = w
  Operators <- MCNobody
  ByHand = {}
  Window = 2
  RunningLogs = {"none"}
  ClosedLogs = {"none", "final"}
  DeltaKinds = {}
  BobUp = {TRUE}
  MaxCrashes = 1
SPECIFICATION Spec
INVARIANT SealedIsServed

SPECIFICATION AscendingSpec
CONSTANTS
  Nodes = {1, 2, 3, 4}
  Origin = 1
  Stakes <- MCStakes
  Unreached = Unreached
  Fanout = 2
  Size = 2
  Capacity = 3
  NumDupsThreshold = 2
  MinNumUpserts = 3
  ThresholdPct = 50
  MinIngressNodes = 1
  NumToFail = 0
  MaxRotations = 2
INVARIANTS
  IngressPeersKept

SPECIFICATION AscendingSpec
CONSTANTS
  Nodes = {1, 2, 3, 4, 5}
  Origin = 1
  Stakes <- MCStakes
  Unreached = Unreached
  Fanout = 2
  Size = 2
  Capacity = 3
  NumDupsThreshold = 2
  MinNumUpserts = 2
  ThresholdPct = 50
  MinIngressNodes = 2
  NumToFail = 0
  MaxRotations = 0
INVARIANTS
  IngressPeersKept
PROPERTIES
  PruningCostsNothing
  PruningSettles

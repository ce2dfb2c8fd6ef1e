SPECIFICATION Spec
CONSTANTS
  me = me
  o = o
  p = p
  q = q
  Nodes = {me, o, p, q}
  Self = me
  Origins = {o, p, q}
  Stakes <- MCStakes
  Capacity = 2
  NumDupsThreshold = 1
  CacheCapacity = 2
  MinNumUpserts = 2
  ThresholdPct = 75
  MinIngressNodes = 1
  MaxUpserts = 2
  NoPrune = NoPrune
INVARIANTS
  KeepsEnoughIngress
  KeepsBestPeers
  CutsAllItMay
  ScoresAccount
  RecentOriginsHeld
SYMMETRY Symmetry

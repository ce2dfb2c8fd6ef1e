SPECIFICATION Spec
CONSTANTS
  o = o
  a = a
  b = b
  c = c
  d = d
  Nodes = {o, a, b, c, d}
  Origin = o
  NoNode = NoNode
  Unreached = Unreached
  Fanout = 2
  ActiveSets <- MCActiveSets
INVARIANTS
  ShortestPaths
  OrdersComplete
  SpanningTree
  MessageConservation
  IInv
PROPERTIES
  NothingRevised
  Termination
  FloodsInLayers

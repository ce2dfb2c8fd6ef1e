SPECIFICATION Spec
CONSTANTS
  ArgSets <- MCArgSets
  Snapshots <- MCSnapshots
  StakeBuckets = 3
  None = None
  a = a
  b = b
  c = c
INVARIANTS
  SweepsAsDocumented

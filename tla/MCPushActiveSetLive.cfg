SPECIFICATION Spec
CONSTANTS
  self = self
  unstaked = unstaked
  small = small
  large = large
  Nodes = {self, unstaked, small, large}
  Self = self
  Stakes <- MCStakes
  MaxBucket = 0
  Size = 2
  FalsePositives = {}
PROPERTIES
  SilenceEnds

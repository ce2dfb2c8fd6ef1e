SPECIFICATION Spec
CONSTANTS
  o = o
  a = a
  b = b
  Unreached = Unreached
  Nodes = {o, a}
  Origin = o
  Stakes <- MCStakes
  Iterations = 1
  WarmUp = 0
  NumToFail = 0
  WhenToFail = 0
  StakeBuckets = 2
  HopsUpper = 4
  BucketChoices <- MCBucketChoices
  Word = 64
INVARIANTS
  RmrOnlyWhereDefined

SPECIFICATION Spec
CONSTANTS
  o = o
  a = a
  b = b
  Unreached = Unreached
  Nodes = {o, a, b}
  Origin = o
  Stakes <- MCStakes
  Iterations = 4
  WarmUp = 1
  NumToFail = 1
  WhenToFail = 2
  StakeBuckets = 2
  HopsUpper = 4
  BucketChoices <- MCBucketChoices
  Word = 64
INVARIANTS
  StrandedTwice
  RoundsAccount
  MessagesAccount
  HistogramsComplete
  ReportAgrees
  HistogramsLegible
  ReportedUnlessAlone

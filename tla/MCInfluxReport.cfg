SPECIFICATION Spec
CONSTANTS
  Settings <- MCSettings
  Buckets = 2
  Workers = 2
INVARIANTS
  ReportInv
  LinesKept
PROPERTIES
  Ends
  AllPosted
  KeepsPromise

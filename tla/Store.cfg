CONSTANTS
  Starts <- MCStarts
  Plans <- MCPlans
  MaxVersion = 2
  MaxRuns = 2
SPECIFICATION StoreSpec
INVARIANTS
  OneReport
  VerdictIsEarned
PROPERTY
  CacheIsSafe

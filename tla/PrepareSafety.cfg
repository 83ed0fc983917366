SPECIFICATION FairSpec
CONSTANTS
  Images <- MCImages
  Services <- MCServices
  Configs <- MCConfigs
  MaxFailures = 2
INVARIANTS
  FailureIsSeen
  CleanUnlessAbandoned
PROPERTY EverythingEnds
CHECK_DEADLOCK FALSE

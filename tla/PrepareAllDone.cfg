SPECIFICATION Spec
CONSTANTS
  Images <- MCImages
  Services <- MCServices
  Configs <- MCConfigs
  MaxFailures = 2
INVARIANT AllDone
CHECK_DEADLOCK FALSE

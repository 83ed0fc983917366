\* Two tests of at most two AppWrappers; every option.
CONSTANTS
  NTests = 2
  MaxCount = 2
  Canary = canary
  Objects <- EveryObject
  Options <- EveryOption
SPECIFICATION FairSpec
INVARIANTS
  CleanSlate
  VerdictIsSound
PROPERTIES
  PassIsEarned
  TestsEnd

\* Every option of the role, every failure; hanging tests, killed containers.
CONSTANTS
  p0 = p0
  p1 = p1
  Pods = {p0, p1}
  Leader = p0
  Options <- EveryOption
SPECIFICATION FairSpec
INVARIANTS
  TestsStartTogether
  ExportIsFinal
  PassIsEarned
PROPERTIES
  FailuresStayLocal
  EverythingStops
\* The run ends with the play and its Job.
CHECK_DEADLOCK FALSE

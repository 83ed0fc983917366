\* Two users; a play that gives up, containers and Pods that are lost.
CONSTANTS
  p0 = p0
  p1 = p1
  Pods = {p0, p1}
  Leader = p0
  Options <- MCOptions
SPECIFICATION FairSpec
INVARIANT
  CountIsExact
PROPERTIES
  FailuresStayLocal
  EverythingStops
\* The run ends with the play and its Job.
CHECK_DEADLOCK FALSE

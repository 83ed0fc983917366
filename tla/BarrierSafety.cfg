\* Three Pods: every failure allowed, a finite --delay.
CONSTANTS
  p0 = p0
  p1 = p1
  p2 = p2
  Pods = {p0, p1, p2}
  Leader = p0
  WaitForever = FALSE
  MayDie = {p0, p1, p2}
  MayRefuse = {p0, p1, p2}
  MaxUnread = 2
SPECIFICATION FairSpec
INVARIANTS
  TypeOK
  PassedTogether
  VerdictReachesSubscribers
PROPERTIES
  ImplementsStartBarrier
  EveryoneLeaves
\* The Pods end, and the Job stops.
CHECK_DEADLOCK FALSE

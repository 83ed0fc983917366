SPECIFICATION Spec
CONSTANTS
  Users = {u1, u2}
  Jobs <- MCJobs
INVARIANTS
  TypeOK
  TestIsReady
  VerdictIsShown
  CleanupIsComplete

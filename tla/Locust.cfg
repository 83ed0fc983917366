\* Two users on a worker, or one user and two workers.
CONSTANTS
  MaxUsers = 2
  MaxRetries = 2
  NWorkers = 2
  LeaderRetries = 2
  Found = {"absent", "running"}
  Sizes <- Shared
SPECIFICATION LocustFairSpec
INVARIANTS
  FailureIsRecorded
  LeftRunning
  OneSessionPerUser
PROPERTIES
  SessionsEnd
CHECK_DEADLOCK FALSE

\* Two processes, every command and every way to call it.
CONSTANTS
  Procs <- TwoProcs
  Starts <- AllStarts
  Found <- AnyFound
SPECIFICATION ToolboxSpec
INVARIANTS
  DirectoriesInOrder
  FailureIsMarked
  MandatoryIsGiven
CHECK_DEADLOCK FALSE

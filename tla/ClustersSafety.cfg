\* Every configuration, every failure.
CONSTANTS
  Options <- EveryOption
SPECIFICATION Spec
INVARIANTS
  RecordedBeforeCreated
  NothingLeftBehind

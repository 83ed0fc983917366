SPECIFICATION Spec
CONSTANTS
  Plans <- MCPlans
  Threshold = 2
INVARIANTS
  TestStartsFresh
  PlotsShowTheirTest
  PassIsComplete
  BothAreCleaned

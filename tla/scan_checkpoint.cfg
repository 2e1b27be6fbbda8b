SPECIFICATION FairSpec
CONSTANTS
  N = 3
  Concurrency = 2
  MaxFailures = 2
  Faults = {"timeout", "interrupt", "kill", "power"}
  MaxFaults = 3
INVARIANTS
  TypeOK
  CheckpointBacked
  CompletedIsComplete
  RedundantBound
PROPERTIES
  RepeatsAreBounded
  Completes
CHECK_DEADLOCK FALSE

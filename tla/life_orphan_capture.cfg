SPECIFICATION Spec
CONSTANTS
  Faults = {"interrupt"}
  MaxFaults = 1
  MaxEdits = 0
  Concurrent = FALSE
INVARIANT
  SealedIsRestored

SPECIFICATION Spec
CONSTANTS
  Faults = {"fail", "interrupt"}
  MaxFaults = 1
  MaxEdits = 0
  Concurrent = TRUE
INVARIANTS
  Exclusive
  OneOutcome
PROPERTY
  LogClosed

SPECIFICATION Spec
CONSTANTS
  Faults = {"fail", "kill", "reboot"}
  MaxFaults = 2
  MaxEdits = 1
  Concurrent = FALSE
CHECK_DEADLOCK FALSE
INVARIANTS
  TypeOK
  WriteAhead
  EvidenceIntact
  SealedIsRestored
PROPERTY
  KeepsContract

SPECIFICATION FairSpec
CONSTANTS
  Faults = {"interrupt"}
  MaxFaults = 1
  MaxEdits = 0
  Concurrent = FALSE
PROPERTIES
  WatchdogSeals
  AbortSeals

SPECIFICATION FairSpec
CONSTANTS
  Plans = {"blocked"}
  Faults = {"fail", "kill", "interrupt", "reboot", "edit"}
  MaxFaults = 1
  PidReuse = TRUE
CHECK_DEADLOCK FALSE
PROPERTIES
  CleanupSeals
  WatchdogSeals

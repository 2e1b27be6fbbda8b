SPECIFICATION Spec
CONSTANTS
  Plans = {"permitted", "blocked", "rehearsal"}
  Faults = {"fail", "kill", "interrupt", "reboot", "edit"}
  MaxFaults = 2
  PidReuse = TRUE
CHECK_DEADLOCK FALSE
INVARIANTS
  AnnouncedFirst
  SealedIsRestored
  SuccessHasCapture
PROPERTIES
  KeepsContract

SPECIFICATION FairSpec
CONSTANTS
  Helpers = {"h1", "h2"}
  Life = 2
  Minimum = 2
  Faults = {"fail", "kill", "reboot", "deaf"}
  MaxFaults = 2
INVARIANTS
  TypeOK
  TargetIsTimed
PROPERTIES
  KeepsLease
  GetsArmed

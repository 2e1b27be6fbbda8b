SPECIFICATION FairSpec
CONSTANTS
  SlotCount = 2
  MaxTries = 2
  Snapshots = {"a", "b"}
  Days = 2
  Life = 1
  Minimum = 1
INVARIANTS
  TypeOK
  SameConditions
  
PROPERTIES
  FollowsPlan
  SeriesCompletes

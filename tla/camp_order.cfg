SPECIFICATION Spec
CONSTANTS
  c1 = c1
  c2 = c2
  p1 = p1
  p2 = p2
  o1 = o1
  o2 = o2
  Operators = {o1, o2}
  Campaigns = {c1, c2}
  Plans = {p1, p2}
  NoPlan = NoPlan
  CampaignOf <- BothForFirst
  SlotCount = 2
  MaxRetries = 2
  AdHoc = TRUE
  Endings = {"success", "aborted", "ambiguous"}
  GivesUp = TRUE
INVARIANTS
  TypeOK
  AtMostOneOpen
  SuccessIsFinal
PROPERTY
  FollowsPlan
CONSTRAINT
  SmallArchive

SPECIFICATION FairSpec
CONSTANTS
  c1 = c1
  c2 = c2
  p1 = p1
  p2 = p2
  o1 = o1
  o2 = o2
  Operators = {o1}
  Campaigns = {c1}
  Plans = {p1}
  NoPlan = NoPlan
  CampaignOf <- BothForFirst
  SlotCount = 2
  MaxRetries = 2
  AdHoc = FALSE
  Endings = {"success", "error", "timeout", "prepare_error", "aborted"}
  GivesUp = FALSE
PROPERTY
  PlanCompletes

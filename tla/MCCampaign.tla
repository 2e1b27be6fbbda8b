------------------------------ MODULE MCCampaign ------------------------------
(***************************************************************************)
(* Campaign with its refinement of CampaignPlan, for TLC.                  *)
(***************************************************************************)
EXTENDS Campaign

CONSTANTS c1, c2, p1, p2, o1, o2

\* Two plans frozen for the same campaign.
BothForFirst == [plan \in Plans |-> c1]
\* One plan for each campaign.
OneEach == [plan \in Plans |-> IF plan = p1 THEN c1 ELSE c2]

\* Bound: no state with more than three attempts is left, so the archive grows
\* to four, as many as two slots can be tried under one plan.
SmallArchive == Len(attempts) <= 3

UnderPlan(plan) == {i \in DOMAIN attempts : attempts[i].plan = plan}
Newest(plan) == CHOOSE i \in UnderPlan(plan) : \A j \in UnderPlan(plan) : j <= i
LatestOf(plan) ==
  IF UnderPlan(plan) = {} THEN [slot |-> 1, retry |-> 0, outcome |-> "none"]
  ELSE attempts[Newest(plan)]

First == INSTANCE CampaignPlan WITH
  MaxTries <- MaxRetries,
  Unusable <- "ambiguous",
  slot <- LatestOf(p1).slot,
  tries <- LatestOf(p1).retry,
  last <- LatestOf(p1).outcome

Second == INSTANCE CampaignPlan WITH
  MaxTries <- MaxRetries,
  Unusable <- "ambiguous",
  slot <- LatestOf(p2).slot,
  tries <- LatestOf(p2).retry,
  last <- LatestOf(p2).outcome

\* The attempts under each plan are a run of the plan: the numbers the
\* attempts carry are the plan's slots in order and the tries of each, whatever
\* was asked for in whichever order, by however many operators.
FollowsPlan == First!Spec /\ Second!Spec

=============================================================================

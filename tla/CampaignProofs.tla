---------------------------- MODULE CampaignProofs ----------------------------
(***************************************************************************)
(* Theorems about Campaign, for any number of operators, campaigns, plans, *)
(* slots and retries.                                                      *)
(*                                                                         *)
(* What validate_slot lets through depends on what the archive is, not on  *)
(* how it came about, so the refinement of the plan needs one more fact    *)
(* about the archive: the attempts under a plan lie in the plan's order    *)
(* (Orderly).                                                              *)
(***************************************************************************)
EXTENDS MCCampaign, WellFoundedInduction, TLAPS

\* The lock: whoever is past Ask holds it, and nobody else is.
LockHeld == \A p \in Operators : pc[p] # "idle" <=> lock = p

\* What prepare-run has checked is still true when it acts on it.
Checked ==
  \A p \in Operators :
    /\ pc[p] # "idle" => request[p] \in Requests
    /\ pc[p] \in {"slot", "create"} => ~Unresolved
    /\ pc[p] = "create" => MayStart(request[p])

Alike(i, j) ==
  attempts[i].campaign = attempts[j].campaign /\ attempts[i].slot = attempts[j].slot

\* The retries of a slot are numbered without a gap.
Contiguous ==
  \A j \in DOMAIN attempts : \A n \in 1..attempts[j].retry :
    \E i \in DOMAIN attempts : Alike(i, j) /\ attempts[i].retry = n

\* No retry of a slot comes after one that has succeeded, or that still may.
Last ==
  \A i, j \in DOMAIN attempts :
    Alike(i, j) /\ attempts[i].outcome \in {"open", "success"}
      => attempts[j].retry <= attempts[i].retry

Inv == TypeOK /\ LockHeld /\ Checked /\ AtMostOneOpen /\ Contiguous /\ Last

USE ConstantsAssumption

LEMMA InvInit == Init => Inv
  BY DEF Init, Inv, TypeOK, LockHeld, Checked, AtMostOneOpen, Contiguous, Last

\* A step that adds and finalizes no attempt: what is left to show is the lock,
\* and what the process itself has just checked.
LEMMA InvCheck ==
  ASSUME Inv, UNCHANGED attempts, TypeOK', LockHeld', Checked'
  PROVE  Inv'
  BY DEF Inv, AtMostOneOpen, Contiguous, Last, Alike

LEMMA InvQuit ==
  ASSUME Inv, NEW p \in Operators, pc[p] # "idle", Quit(p), UNCHANGED attempts
  PROVE  Inv'
<1> USE DEF Inv, Quit, Go
<1>1. TypeOK' BY DEF TypeOK
<1>2. LockHeld' BY DEF TypeOK, LockHeld
<1>3. Checked'
  BY DEF TypeOK, Checked, Unresolved, MayStart, Duplicate, RetryAllowed, PlanAllows,
     Previous, SameSlot, Planned, SlotComplete
<1> QED BY <1>1, <1>2, <1>3, InvCheck

LEMMA InvAsk ==
  ASSUME Inv, NEW p \in Operators, NEW r \in Requests, Ask(p, r)
  PROVE  Inv'
<1> USE DEF Inv, Ask, Go
<1>1. TypeOK' BY DEF TypeOK
<1>2. LockHeld' BY DEF TypeOK, LockHeld
<1>3. Checked' BY DEF TypeOK, LockHeld, Checked
<1> QED BY <1>1, <1>2, <1>3, InvCheck

LEMMA InvCheckUnfinished ==
  ASSUME Inv, NEW p \in Operators, CheckUnfinished(p)
  PROVE  Inv'
<1>1. CASE Unresolved BY <1>1, InvQuit DEF CheckUnfinished
<1>2. CASE ~Unresolved
  <2> USE <1>2 DEF Inv, CheckUnfinished, Go
  <2>1. TypeOK' BY DEF TypeOK
  <2>2. LockHeld' BY DEF TypeOK, LockHeld
  <2>3. Checked' BY DEF TypeOK, LockHeld, Checked, Unresolved
  <2> QED BY <2>1, <2>2, <2>3, InvCheck
<1> QED BY <1>1, <1>2

LEMMA InvCheckSlot ==
  ASSUME Inv, NEW p \in Operators, CheckSlot(p)
  PROVE  Inv'
<1>1. CASE ~MayStart(request[p]) BY <1>1, InvQuit DEF CheckSlot
<1>2. CASE MayStart(request[p])
  <2> USE <1>2 DEF Inv, CheckSlot, Go
  <2>1. TypeOK' BY DEF TypeOK
  <2>2. LockHeld' BY DEF TypeOK, LockHeld
  <2>3. MayStart(request[p])' 
    BY DEF MayStart, Duplicate, RetryAllowed, PlanAllows, Previous, SameSlot, Planned,
       SlotComplete
  <2>4. Checked' BY <2>3 DEF TypeOK, LockHeld, Checked, Unresolved
  <2> QED BY <2>1, <2>2, <2>4, InvCheck
<1> QED BY <1>1, <1>2

\* A slot that may be tried has been tried with every lower number, and the last
\* of these tries has failed.
LEMMA RetryFollows ==
  ASSUME Inv, NEW r \in Requests, MayStart(r)
  PROVE  /\ r.retry \in 1..MaxRetries
         /\ \A i \in SameSlot(r) : attempts[i].retry < r.retry
         /\ r.retry > 1 =>
              \E i \in SameSlot(r) :
                /\ attempts[i].retry = r.retry - 1 /\ attempts[i].outcome \in Technical
                /\ \A j \in SameSlot(r) : attempts[j].retry = r.retry - 1 => j = i
<1>1. /\ \A i \in SameSlot(r) : attempts[i].retry # r.retry
      /\ r.retry \in 1..MaxRetries
      /\ r.retry > 1 =>
           \E i \in SameSlot(r) :
             /\ attempts[i].retry = r.retry - 1 /\ attempts[i].outcome \in Technical
             /\ \A j \in SameSlot(r) : attempts[j].retry = r.retry - 1 => j = i
  BY DEF MayStart, Duplicate, RetryAllowed, Previous
<1>2. ASSUME NEW i \in SameSlot(r), ~(attempts[i].retry < r.retry) PROVE FALSE
  <2>1. i \in DOMAIN attempts /\ attempts[i] \in Attempt
    BY DEF SameSlot, Inv, TypeOK
  <2>2. attempts[i].retry \in 1..MaxRetries
    BY <2>1 DEF Attempt
  <2>3. r.retry \in 1..attempts[i].retry
    BY <1>1, <1>2, <2>2
  <2>4. PICK j \in DOMAIN attempts : Alike(j, i) /\ attempts[j].retry = r.retry
    BY <2>1, <2>3 DEF Inv, Contiguous
  <2>5. j \in SameSlot(r)
    BY <2>4 DEF Alike, SameSlot
  <2> QED
    BY <1>1, <2>4, <2>5
<1> QED
  BY <1>1, <1>2

\* Adding an attempt: the checks made before it, still true, make it the last
\* of its slot, the next in number, and the only one that is open.
LEMMA InvAddAttempt ==
  ASSUME Inv, NEW p \in Operators, AddAttempt(p)
  PROVE  Inv'
<1> DEFINE r == request[p]
           new == [campaign |-> r.campaign, plan |-> r.plan, slot |-> r.slot,
                   retry |-> r.retry, outcome |-> "open"]
           n == Len(attempts) + 1
<1>1. r \in Requests /\ MayStart(r) /\ ~Unresolved
  BY DEF Inv, Checked, AddAttempt
<1>2. new \in Attempt
  BY <1>1 DEF Requests, Attempt, MayStart, RetryAllowed
<1>3. /\ DOMAIN attempts = 1..Len(attempts) /\ Len(attempts) \in Nat
      /\ \A i \in DOMAIN attempts : attempts[i] \in Attempt
  BY DEF Inv, TypeOK
<1>4. /\ attempts' \in Seq(Attempt)
      /\ DOMAIN attempts' = DOMAIN attempts \cup {n} /\ n \notin DOMAIN attempts
      /\ attempts'[n] = new
      /\ \A i \in DOMAIN attempts : attempts'[i] = attempts[i]
  BY <1>2, <1>3 DEF AddAttempt, Inv, TypeOK
<1> HIDE DEF new, n
<1>5. TypeOK' BY <1>4 DEF AddAttempt, Go, Inv, TypeOK
<1>6. LockHeld' BY DEF AddAttempt, Go, Inv, TypeOK, LockHeld
<1>7. Checked' BY DEF AddAttempt, Go, Inv, TypeOK, LockHeld, Checked
<1>8. new.outcome = "open" /\ \A i \in DOMAIN attempts : attempts[i].outcome # "open"
  BY <1>1 DEF Unresolved, new
<1>9. AtMostOneOpen' BY <1>4, <1>8 DEF AtMostOneOpen
<1> DEFINE same == SameSlot(r)
<1>10. /\ r.retry \in 1..MaxRetries
       /\ r.retry > 1 => \E i \in same : /\ attempts[i].retry = r.retry - 1
                                         /\ attempts[i].outcome \in Technical
                                         /\ \A j \in same : attempts[j].retry = r.retry - 1
                                                              => j = i
  BY <1>1, RetryFollows
<1>11. /\ same \subseteq DOMAIN attempts
       /\ \A i \in DOMAIN attempts :
            i \in same <=> attempts[i].campaign = new.campaign /\ attempts[i].slot = new.slot
       /\ \A i \in same, j \in DOMAIN attempts : Alike(i, j) <=> j \in same
       /\ new.retry = r.retry
  BY DEF SameSlot, Alike, new
<1>12. \A i \in same : attempts[i].retry < r.retry
  BY <1>1, RetryFollows
<1>13. \A m \in 1..(r.retry - 1) : \E i \in same : attempts[i].retry = m
  <2> SUFFICES ASSUME NEW m \in 1..(r.retry - 1)
               PROVE  \E i \in same : attempts[i].retry = m
    OBVIOUS
  <2>1. PICK i \in same : attempts[i].retry = r.retry - 1 BY <1>10
  <2>2. PICK j \in DOMAIN attempts : Alike(j, i) /\ attempts[j].retry = m
    BY <2>1, <1>11 DEF Inv, Contiguous
  <2> QED BY <2>2, <1>11 DEF Alike
<1>14. \A i \in same : attempts[i].outcome # "success"
  <2> SUFFICES ASSUME NEW i \in same, attempts[i].outcome = "success" PROVE FALSE
    OBVIOUS
  <2>1. attempts[i].retry \in 1..MaxRetries /\ attempts[i].retry < r.retry
    BY <1>3, <1>11, <1>12 DEF Attempt
  <2>2. PICK j \in same : /\ attempts[j].retry = r.retry - 1
                          /\ attempts[j].outcome \in Technical
                          /\ \A k \in same : attempts[k].retry = r.retry - 1 => k = j
    BY <2>1, <1>10
  <2>3. attempts[j].retry <= attempts[i].retry
    BY <1>11 DEF Inv, Last
  <2>4. i = j BY <2>1, <2>2, <2>3, <1>10
  <2> QED BY <2>2, <2>4 DEF Technical
<1>15. Contiguous'
  <2> SUFFICES ASSUME NEW j \in DOMAIN attempts', NEW m \in 1..attempts'[j].retry
               PROVE  \E i \in DOMAIN attempts' : Alike(i, j)' /\ attempts'[i].retry = m
    BY DEF Contiguous
  <2>1. CASE j \in DOMAIN attempts BY <2>1, <1>4 DEF Inv, Contiguous, Alike
  <2>2. CASE j = n /\ m = r.retry BY <2>2, <1>4, <1>11 DEF Alike
  <2>3. CASE j = n /\ m # r.retry
    <3>1. m \in 1..(r.retry - 1) BY <2>3, <1>4, <1>10, <1>11
    <3>2. PICK i \in same : attempts[i].retry = m BY <3>1, <1>13
    <3> QED BY <2>3, <3>2, <1>4, <1>11 DEF Alike
  <2> QED BY <2>1, <2>2, <2>3, <1>4
<1>16. Last'
  <2> SUFFICES ASSUME NEW i \in DOMAIN attempts', NEW j \in DOMAIN attempts', Alike(i, j)',
                      attempts'[i].outcome \in {"open", "success"}
               PROVE  attempts'[j].retry <= attempts'[i].retry
    BY DEF Last
  <2>1. CASE i # n /\ j # n BY <2>1, <1>4 DEF Inv, Last, Alike
  <2>2. CASE i = n /\ j # n
    <3>1. j \in same BY <2>2, <1>4, <1>11 DEF Alike
    <3>2. attempts[j].retry \in 1..MaxRetries BY <3>1, <1>3, <1>11 DEF Attempt
    <3> QED BY <2>2, <3>1, <3>2, <1>4, <1>10, <1>11, <1>12
  <2>3. CASE i # n /\ j = n BY <2>3, <1>4, <1>8, <1>11, <1>14 DEF Alike
  <2>4. CASE i = n /\ j = n BY <2>4, <1>4, <1>10, <1>11
  <2> QED BY <2>1, <2>2, <2>3, <2>4
<1> QED BY <1>5, <1>6, <1>7, <1>9, <1>15, <1>16 DEF Inv

\* Finalizing the open attempt: every process that has checked the archive
\* has found none open, so no check is overtaken.
LEMMA InvFinalize ==
  ASSUME Inv, NEW k \in DOMAIN attempts, NEW outcome \in Endings, Finalize(k, outcome)
  PROVE  Inv'
<1> DEFINE closed == [attempts[k] EXCEPT !.outcome = outcome]
<1>1. /\ DOMAIN attempts = 1..Len(attempts) /\ Len(attempts) \in Nat
      /\ \A i \in DOMAIN attempts : attempts[i] \in Attempt
  BY DEF Inv, TypeOK
<1>2. /\ closed \in Attempt /\ closed.outcome = outcome
      /\ closed.campaign = attempts[k].campaign /\ closed.slot = attempts[k].slot
      /\ closed.retry = attempts[k].retry
  BY <1>1 DEF Attempt
<1>3. attempts' = [attempts EXCEPT ![k] = closed] /\ attempts[k].outcome = "open"
  BY DEF Finalize
<1> HIDE DEF closed
<1>4. /\ DOMAIN attempts' = DOMAIN attempts
      /\ attempts'[k] = closed
      /\ \A i \in DOMAIN attempts : i # k => attempts'[i] = attempts[i]
  BY <1>3
<1>5. \A i \in DOMAIN attempts : /\ attempts'[i].campaign = attempts[i].campaign
                                 /\ attempts'[i].slot = attempts[i].slot
                                 /\ attempts'[i].retry = attempts[i].retry
  BY <1>2, <1>4
<1>6. attempts' \in Seq(Attempt) BY <1>2, <1>3 DEF Inv, TypeOK
<1>7. TypeOK' BY <1>6 DEF Finalize, Inv, TypeOK
<1>8. LockHeld' BY DEF Finalize, Inv, LockHeld
<1>9. Checked' BY <1>3 DEF Finalize, Inv, Checked, Unresolved
<1>10. AtMostOneOpen'
  BY <1>2, <1>3, <1>4 DEF Inv, AtMostOneOpen
<1>11. Contiguous'
  <2> SUFFICES ASSUME NEW j \in DOMAIN attempts, NEW n \in 1..attempts[j].retry
               PROVE  \E i \in DOMAIN attempts : Alike(i, j)' /\ attempts'[i].retry = n
    BY <1>4, <1>5 DEF Contiguous
  <2>1. PICK i \in DOMAIN attempts : Alike(i, j) /\ attempts[i].retry = n
    BY DEF Inv, Contiguous
  <2> QED BY <2>1, <1>5 DEF Alike
<1>12. Last'
  <2> SUFFICES ASSUME NEW i \in DOMAIN attempts, NEW j \in DOMAIN attempts, Alike(i, j)',
                      attempts'[i].outcome \in {"open", "success"}
               PROVE  attempts'[j].retry <= attempts'[i].retry
    BY <1>4 DEF Last
  <2>1. Alike(i, j) BY <1>5 DEF Alike
  <2>2. attempts[i].outcome \in {"open", "success"} BY <1>3, <1>4
  <2> QED BY <2>1, <2>2, <1>5 DEF Inv, Last
<1> QED BY <1>7, <1>8, <1>9, <1>10, <1>11, <1>12 DEF Inv

LEMMA InvNext == Inv /\ [Next]_vars => Inv'
<1> SUFFICES ASSUME Inv, [Next]_vars PROVE Inv' OBVIOUS
<1>1. ASSUME NEW p \in Operators, PrepareRun(p) \/ GiveUp(p) PROVE Inv'
  BY <1>1, InvCheckUnfinished, InvCheckSlot, InvAddAttempt, InvQuit
     DEF PrepareRun, Return, GiveUp
<1>2. ASSUME NEW p \in Operators, NEW r \in Requests, Ask(p, r) PROVE Inv'
  BY <1>2, InvAsk
<1>3. ASSUME NEW i \in DOMAIN attempts, NEW outcome \in Endings, Finalize(i, outcome)
      PROVE  Inv'
  BY <1>3, InvFinalize
<1>4. CASE UNCHANGED vars
  <2> USE <1>4 DEF vars, Inv
  <2>1. TypeOK' BY DEF TypeOK
  <2>2. LockHeld' BY DEF LockHeld
  <2>3. Checked'
    BY DEF Checked, Unresolved, MayStart, Duplicate, RetryAllowed, PlanAllows,
       Previous, SameSlot, Planned, SlotComplete
  <2> QED BY <2>1, <2>2, <2>3, InvCheck
<1> QED BY <1>1, <1>2, <1>3, <1>4 DEF Next

LEMMA Invariance == Spec => []Inv
  BY InvInit, InvNext, PTL DEF Spec

\* Every variable keeps its type: no attempt has a retry number beyond the limit
\* or a slot outside of the plan.
THEOREM TypeCorrect == Spec => []TypeOK
<1>1. Inv => TypeOK BY DEF Inv
<1> QED BY <1>1, Invariance, PTL

\* Two attempts never alter the Mac at once: between the check that nothing is
\* unfinished and the new attempt no other prepare-run gets in (cmd_prepare).
THEOREM OneAttemptAtATime == Spec => []AtMostOneOpen
<1>1. Inv => AtMostOneOpen BY DEF Inv
<1> QED BY <1>1, Invariance, PTL

\* No slot is tried again after it has succeeded, whatever the operators ask
\* for and with or without a plan (validate_slot).
THEOREM SuccessStays == Spec => []SuccessIsFinal
<1>1. Inv => SuccessIsFinal BY DEF Inv, Last, Alike, SuccessIsFinal
<1> QED BY <1>1, Invariance, PTL

---------------------------------------------------------------------------
\* The attempts under a plan are a run of the plan.

Before(a, b) == a.slot < b.slot \/ (a.slot = b.slot /\ a.retry < b.retry)

\* An attempt under a plan is one of the plan's campaign, and comes after every
\* earlier one under this plan in the plan's order.
Orderly ==
  /\ \A i \in DOMAIN attempts :
       attempts[i].plan # NoPlan => attempts[i].campaign = CampaignOf[attempts[i].plan]
  /\ \A i, j \in DOMAIN attempts :
       /\ attempts[i].plan # NoPlan /\ attempts[i].plan = attempts[j].plan
       /\ i < j
       => Before(attempts[i], attempts[j])

\* Attempt i is the latest one under plan.
IsNewest(i, plan) == i \in UnderPlan(plan) /\ \A j \in UnderPlan(plan) : j <= i

\* A bounded set of numbers that is not empty has a largest one.
LEMMA LargestExists ==
  ASSUME NEW n \in Nat, NEW S \in SUBSET (1..n), S # {}
  PROVE  \E x \in S : \A y \in S : y <= x
<1> DEFINE R == OpToRel(<, Nat)
           T == {n - x : x \in S}
<1>1. IsWellFoundedOn(R, Nat)
  BY NatLessThanWellFounded
<1>2. T \subseteq Nat /\ T # {}
  <2>1. ASSUME NEW x \in S PROVE n - x \in Nat
    OBVIOUS
  <2> QED
    BY <2>1
<1> HIDE DEF T
<1>3. PICK m \in T : \A k \in T : ~(<<k, m>> \in R)
  BY <1>1, <1>2, WFMin
<1> USE DEF T
<1>4. PICK x \in S : m = n - x
  OBVIOUS
<1>5. ASSUME NEW y \in S PROVE y <= x
  <2>1. n - y \in T /\ n - y \in Nat /\ m \in Nat
    BY <1>2
  <2>2. ~(n - y < m)
    BY <1>3, <2>1 DEF OpToRel
  <2> QED
    BY <1>4, <2>2
<1> QED
  BY <1>5

\* What LatestOf is: the numbers of the latest attempt, where there is one.
LEMMA LatestIs ==
  ASSUME TypeOK, NEW plan
  PROVE  /\ UnderPlan(plan) = {}
              => /\ LatestOf(plan).slot = 1 /\ LatestOf(plan).retry = 0
                 /\ LatestOf(plan).outcome = "none"
         /\ UnderPlan(plan) # {}
              => \E i \in DOMAIN attempts : IsNewest(i, plan) /\ LatestOf(plan) = attempts[i]
<1>1. CASE UnderPlan(plan) = {}
  BY <1>1 DEF LatestOf
<1>2. CASE UnderPlan(plan) # {}
  <2>1. Len(attempts) \in Nat /\ UnderPlan(plan) \subseteq 1..Len(attempts)
    BY DEF TypeOK, UnderPlan
  <2>2. \E i \in UnderPlan(plan) : \A j \in UnderPlan(plan) : j <= i
    BY <1>2, <2>1, LargestExists
  <2>3. IsNewest(Newest(plan), plan)
    BY <2>2 DEF Newest, IsNewest
  <2>4. Newest(plan) \in DOMAIN attempts
    BY <2>3 DEF IsNewest, UnderPlan
  <2> QED
    BY <1>2, <2>3, <2>4 DEF LatestOf
<1> QED
  BY <1>1, <1>2

\* The same after a step.
LEMMA LatestBecomes ==
  ASSUME TypeOK', NEW plan
  PROVE  /\ UnderPlan(plan)' = {}
              => /\ LatestOf(plan).slot' = 1 /\ LatestOf(plan).retry' = 0
                 /\ LatestOf(plan).outcome' = "none"
         /\ UnderPlan(plan)' # {}
              => \E i \in DOMAIN attempts' :
                   IsNewest(i, plan)' /\ LatestOf(plan)' = attempts'[i]
<1>1. CASE UnderPlan(plan)' = {}
  BY <1>1 DEF LatestOf
<1>2. CASE UnderPlan(plan)' # {}
  <2>1. Len(attempts') \in Nat /\ UnderPlan(plan)' \subseteq 1..Len(attempts')
    BY DEF TypeOK, UnderPlan
  <2>2. \E i \in UnderPlan(plan)' : \A j \in UnderPlan(plan)' : j <= i
    BY <1>2, <2>1, LargestExists
  <2>3. Newest(plan)' \in UnderPlan(plan)' /\ \A j \in UnderPlan(plan)' : j <= Newest(plan)'
    BY <2>2 DEF Newest
  <2>4. Newest(plan)' \in DOMAIN attempts'
    BY <2>3 DEF UnderPlan
  <2> QED
    BY <1>2, <2>3, <2>4 DEF LatestOf, IsNewest
<1> QED
  BY <1>1, <1>2

\* What validate_slot lets through under a plan comes after all attempts made
\* under it: one more try of the latest slot, which has failed, or the first of
\* the slot that follows one that is complete.
LEMMA PlanAdvances ==
  ASSUME Inv, Orderly, NEW r \in Requests, MayStart(r), r.plan # NoPlan
  PROVE  /\ r.campaign = CampaignOf[r.plan]
         /\ \A i \in UnderPlan(r.plan) : Before(attempts[i], r)
         /\ UnderPlan(r.plan) = {} => r.slot = 1 /\ r.retry = 1
         /\ \A l \in DOMAIN attempts :
              IsNewest(l, r.plan) =>
                \/ /\ r.slot = attempts[l].slot /\ r.retry = attempts[l].retry + 1
                   /\ attempts[l].outcome \in Technical
                \/ /\ r.slot = attempts[l].slot + 1 /\ r.retry = 1
                   /\ \/ attempts[l].outcome = "success"
                      \/ /\ attempts[l].outcome \in Technical
                         /\ attempts[l].retry = MaxRetries
<1> DEFINE under == UnderPlan(r.plan)
           same == SameSlot(r)
<1>1. /\ r.campaign = CampaignOf[r.plan]
      /\ \A i \in DOMAIN attempts : attempts[i].campaign = r.campaign => i \in under
      /\ \A i \in Planned(r.campaign, r.plan) :
           attempts[i].outcome \in Readable /\ attempts[i].slot <= r.slot
      /\ \A s \in 1..(r.slot - 1) : SlotComplete(r.campaign, r.plan, s)
  BY DEF MayStart, PlanAllows, UnderPlan
<1>2. \A i \in under : i \in Planned(r.campaign, r.plan)
  BY <1>1 DEF Orderly, UnderPlan, Planned
<1>3. \A i \in DOMAIN attempts : i \in same <=> i \in under /\ attempts[i].slot = r.slot
  BY <1>1, <1>2 DEF SameSlot, Planned
<1>4. /\ r.retry \in 1..MaxRetries /\ r.slot \in 1..SlotCount
      /\ \A i \in same : attempts[i].retry < r.retry
      /\ r.retry > 1 =>
           \E i \in same :
             /\ attempts[i].retry = r.retry - 1 /\ attempts[i].outcome \in Technical
             /\ \A j \in same : attempts[j].retry = r.retry - 1 => j = i
  BY RetryFollows DEF Requests
<1>5. /\ under \subseteq DOMAIN attempts /\ same \subseteq DOMAIN attempts
      /\ DOMAIN attempts \subseteq Int
      /\ \A i \in DOMAIN attempts :
           attempts[i].slot \in 1..SlotCount /\ attempts[i].retry \in 1..MaxRetries
  <2>1. under \subseteq DOMAIN attempts /\ same \subseteq DOMAIN attempts
    BY DEF UnderPlan, SameSlot
  <2>2. attempts \in Seq(Attempt)
    BY DEF Inv, TypeOK
  <2>3. DOMAIN attempts \subseteq Int /\ \A i \in DOMAIN attempts : attempts[i] \in Attempt
    BY <2>2
  <2> QED
    BY <2>1, <2>3 DEF Attempt
<1>6. \A i \in under : attempts[i].outcome \in Readable /\ attempts[i].slot <= r.slot
  BY <1>1, <1>2
<1>7. \A s \in 1..(r.slot - 1) : \E i \in under :
        /\ attempts[i].slot = s
        /\ \/ attempts[i].outcome = "success"
           \/ attempts[i].retry = MaxRetries /\ attempts[i].outcome \in Technical
  <2> SUFFICES ASSUME NEW s \in 1..(r.slot - 1)
               PROVE  \E i \in under :
                        /\ attempts[i].slot = s
                        /\ \/ attempts[i].outcome = "success"
                           \/ attempts[i].retry = MaxRetries /\ attempts[i].outcome \in Technical
    OBVIOUS
  <2>1. SlotComplete(r.campaign, r.plan, s)
    BY <1>1
  <2> QED
    BY <2>1 DEF SlotComplete, Planned, UnderPlan
<1>8. \A i, j \in under : i < j => Before(attempts[i], attempts[j])
  BY DEF Orderly, UnderPlan
<1> HIDE DEF under, same
<1>9. ASSUME NEW i \in under PROVE Before(attempts[i], r)
  BY <1>3, <1>4, <1>5, <1>6 DEF Before
<1>10. ASSUME under = {} PROVE r.slot = 1 /\ r.retry = 1
  <2>1. same = {}
    BY <1>3, <1>5, <1>10
  <2>2. ~(1 \in 1..(r.slot - 1))
    BY <1>7, <1>10
  <2> QED
    BY <1>4, <2>1, <2>2
<1>11. ASSUME NEW l \in under, \A j \in under : j <= l
       PROVE  \/ /\ r.slot = attempts[l].slot /\ r.retry = attempts[l].retry + 1
                 /\ attempts[l].outcome \in Technical
              \/ /\ r.slot = attempts[l].slot + 1 /\ r.retry = 1
                 /\ \/ attempts[l].outcome = "success"
                    \/ /\ attempts[l].outcome \in Technical
                       /\ attempts[l].retry = MaxRetries
  <2>1. \A i \in under : i = l \/ Before(attempts[i], attempts[l])
    BY <1>5, <1>8, <1>11
  <2>2. /\ attempts[l].slot \in 1..SlotCount /\ attempts[l].retry \in 1..MaxRetries
        /\ attempts[l].slot <= r.slot /\ attempts[l].outcome \in Readable
    BY <1>5, <1>6
  <2>3. CASE attempts[l].slot = r.slot
    <3>1. l \in same
      BY <1>3, <1>5, <2>3
    <3>2. attempts[l].retry < r.retry
      BY <1>4, <3>1
    <3>3. PICK i \in same : /\ attempts[i].retry = r.retry - 1
                            /\ attempts[i].outcome \in Technical
      BY <1>4, <2>2, <3>2
    <3>4. i = l
      <4>1. i \in under /\ attempts[i].slot = r.slot
        BY <1>3, <1>5
      <4>2. i = l \/ attempts[i].retry < attempts[l].retry
        BY <2>1, <2>2, <2>3, <4>1, <1>4 DEF Before
      <4> QED
        BY <1>4, <2>2, <3>2, <3>3, <4>2
    <3> QED
      BY <1>4, <2>3, <3>3, <3>4
  <2>4. CASE attempts[l].slot # r.slot
    <3>1. attempts[l].slot \in 1..(r.slot - 1) /\ r.slot - 1 \in 1..(r.slot - 1)
      BY <1>4, <2>2, <2>4
    <3>2. PICK i \in under : attempts[i].slot = r.slot - 1
      BY <1>7, <3>1
    <3>3. attempts[i].slot <= attempts[l].slot
      BY <1>5, <2>1, <2>2 DEF Before
    <3>4. r.slot = attempts[l].slot + 1
      BY <1>4, <2>2, <3>1, <3>2, <3>3
    <3>5. PICK k \in under :
            /\ attempts[k].slot = attempts[l].slot
            /\ \/ attempts[k].outcome = "success"
               \/ attempts[k].retry = MaxRetries /\ attempts[k].outcome \in Technical
      BY <1>7, <3>1
    <3>6. k \in DOMAIN attempts /\ attempts[k].retry \in 1..MaxRetries
      BY <1>5
    <3>7. k = l \/ attempts[k].retry < attempts[l].retry
      BY <2>1, <2>2, <3>5 DEF Before
    <3>8. k = l
      <4>1. CASE attempts[k].outcome = "success"
        <5>1. Alike(k, l)
          BY <1>2, <3>5, <3>6 DEF Alike, Planned, under
        <5>2. attempts[l].retry <= attempts[k].retry
          BY <1>5, <3>6, <4>1, <5>1 DEF Inv, Last
        <5> QED
          BY <2>2, <3>6, <3>7, <5>2
      <4>2. CASE attempts[k].retry = MaxRetries
        BY <2>2, <3>7, <4>2
      <4> QED
        BY <3>5, <4>1, <4>2
    <3>9. same = {}
      <4>1. ASSUME NEW i2 \in same PROVE FALSE
        <5>1. i2 \in under /\ attempts[i2].slot = r.slot
          BY <1>3, <1>5
        <5>2. attempts[i2].slot <= attempts[l].slot
          BY <1>5, <2>1, <2>2, <5>1 DEF Before
        <5> QED
          BY <2>2, <3>4, <5>1, <5>2
      <4> QED
        BY <4>1
    <3>10. r.retry = 1
      BY <1>4, <3>9
    <3> QED
      BY <3>4, <3>5, <3>8, <3>10
  <2> QED
    BY <2>3, <2>4
<1>12. \A l \in DOMAIN attempts : IsNewest(l, r.plan) => l \in under /\ \A j \in under : j <= l
  BY DEF IsNewest, under
<1> QED
  BY <1>1, <1>9, <1>10, <1>11, <1>12 DEF under

\* What AddAttempt adds, behind all that is there.
LEMMA Added ==
  ASSUME Inv, NEW p \in Operators, AddAttempt(p)
  PROVE  /\ request[p] \in Requests /\ MayStart(request[p])
         /\ \E n \in Nat :
              /\ DOMAIN attempts' = DOMAIN attempts \cup {n}
              /\ \A i \in DOMAIN attempts : i < n /\ attempts'[i] = attempts[i]
              /\ attempts'[n].campaign = request[p].campaign
              /\ attempts'[n].plan = request[p].plan
              /\ attempts'[n].slot = request[p].slot
              /\ attempts'[n].retry = request[p].retry
              /\ attempts'[n].outcome = "open"
<1> DEFINE new == [campaign |-> request[p].campaign, plan |-> request[p].plan,
                   slot |-> request[p].slot, retry |-> request[p].retry,
                   outcome |-> "open"]
           n == Len(attempts) + 1
<1>1. request[p] \in Requests /\ MayStart(request[p])
  BY DEF Inv, Checked, AddAttempt
<1>2. attempts \in Seq(Attempt) /\ new \in Attempt
  BY <1>1 DEF Inv, TypeOK, Requests, Attempt, MayStart, RetryAllowed
<1>3. attempts' = Append(attempts, new)
  BY DEF AddAttempt
<1>4. /\ new.campaign = request[p].campaign /\ new.plan = request[p].plan
      /\ new.slot = request[p].slot /\ new.retry = request[p].retry
      /\ new.outcome = "open"
  OBVIOUS
<1> HIDE DEF new
<1>5. /\ n \in Nat /\ DOMAIN attempts' = DOMAIN attempts \cup {n}
      /\ \A i \in DOMAIN attempts : i < n /\ attempts'[i] = attempts[i]
      /\ attempts'[n] = new
  BY <1>2, <1>3
<1> QED
  BY <1>1, <1>4, <1>5

\* What Finalize changes.
LEMMA Closed ==
  ASSUME Inv, NEW k \in DOMAIN attempts, NEW outcome \in Endings, Finalize(k, outcome)
  PROVE  /\ DOMAIN attempts' = DOMAIN attempts
         /\ attempts[k].outcome = "open" /\ attempts'[k].outcome = outcome
         /\ \A i \in DOMAIN attempts :
              /\ attempts'[i].campaign = attempts[i].campaign
              /\ attempts'[i].plan = attempts[i].plan
              /\ attempts'[i].slot = attempts[i].slot
              /\ attempts'[i].retry = attempts[i].retry
              /\ i # k => attempts'[i] = attempts[i]
<1> DEFINE closed == [attempts[k] EXCEPT !.outcome = outcome]
<1>1. attempts[k] \in Attempt /\ attempts \in Seq(Attempt)
  BY DEF Inv, TypeOK
<1>2. /\ closed.outcome = outcome /\ closed.plan = attempts[k].plan
      /\ closed.campaign = attempts[k].campaign /\ closed.slot = attempts[k].slot
      /\ closed.retry = attempts[k].retry
  BY <1>1 DEF Attempt
<1>3. attempts' = [attempts EXCEPT ![k] = closed] /\ attempts[k].outcome = "open"
  BY DEF Finalize
<1> HIDE DEF closed
<1>4. /\ DOMAIN attempts' = DOMAIN attempts /\ attempts'[k] = closed
      /\ \A i \in DOMAIN attempts : i # k => attempts'[i] = attempts[i]
  BY <1>3
<1> QED
  BY <1>2, <1>3, <1>4

\* A step leaves the archive alone, or adds to it, or finalizes an attempt.
LEMMA ArchiveStep ==
  ASSUME [Next]_vars
  PROVE  \/ UNCHANGED attempts
         \/ \E p \in Operators : AddAttempt(p)
         \/ \E i \in DOMAIN attempts, outcome \in Endings : Finalize(i, outcome)
  BY DEF Next, PrepareRun, CheckUnfinished, CheckSlot, Return, GiveUp, Ask, vars

LEMMA OrderlyInit == Init => Orderly
  BY DEF Init, Orderly

\* The plan's order is kept: a new attempt comes after all that are there.
LEMMA OrderlyNext ==
  ASSUME Inv, Orderly, [Next]_vars
  PROVE  Orderly'
<1>1. CASE UNCHANGED attempts
  BY <1>1 DEF Orderly, Before
<1>2. ASSUME NEW p \in Operators, AddAttempt(p) PROVE Orderly'
  <2> DEFINE r == request[p]
  <2>1. PICK n \in Nat :
          /\ r \in Requests /\ MayStart(r)
          /\ DOMAIN attempts' = DOMAIN attempts \cup {n}
          /\ \A i \in DOMAIN attempts : i < n /\ attempts'[i] = attempts[i]
          /\ attempts'[n].campaign = r.campaign /\ attempts'[n].plan = r.plan
          /\ attempts'[n].slot = r.slot /\ attempts'[n].retry = r.retry
    BY <1>2, Added
  <2>2. r.plan # NoPlan =>
          /\ r.campaign = CampaignOf[r.plan]
          /\ \A i \in UnderPlan(r.plan) : Before(attempts[i], r)
    BY <2>1, PlanAdvances
  <2> HIDE DEF r
  <2>3. \A i \in DOMAIN attempts' : i \in DOMAIN attempts \/ i = n
    BY <2>1
  <2>4. \A i \in DOMAIN attempts' : attempts'[i].plan # NoPlan =>
          attempts'[i].campaign = CampaignOf[attempts'[i].plan]
    BY <2>1, <2>2, <2>3 DEF Orderly
  <2>5. ASSUME NEW i \in DOMAIN attempts', NEW j \in DOMAIN attempts',
               attempts'[i].plan # NoPlan, attempts'[i].plan = attempts'[j].plan, i < j
        PROVE  Before(attempts'[i], attempts'[j])
    <3>1. i \in DOMAIN attempts
      <4>1. i # n
        <5>1. j \in DOMAIN attempts => j < n
          BY <2>1
        <5>2. attempts \in Seq(Attempt)
          BY DEF Inv, TypeOK
        <5>3. j \in DOMAIN attempts => j \in Int
          BY <5>2
        <5> QED
          BY <2>3, <2>5, <5>1, <5>3
      <4> QED
        BY <2>3, <4>1
    <3>2. CASE j \in DOMAIN attempts
      BY <2>1, <2>5, <3>1, <3>2 DEF Orderly, Before
    <3>3. CASE j = n
      <4>1. i \in UnderPlan(r.plan) /\ r.plan # NoPlan
        BY <2>1, <2>5, <3>1, <3>3 DEF UnderPlan
      <4>2. Before(attempts[i], r)
        BY <2>2, <4>1
      <4> QED
        BY <2>1, <3>1, <3>3, <4>2 DEF Before
    <3> QED
      BY <2>3, <3>2, <3>3
  <2> QED
    BY <2>4, <2>5 DEF Orderly
<1>3. ASSUME NEW k \in DOMAIN attempts, NEW outcome \in Endings, Finalize(k, outcome)
      PROVE  Orderly'
  <2>1. /\ DOMAIN attempts' = DOMAIN attempts
        /\ \A i \in DOMAIN attempts :
             /\ attempts'[i].campaign = attempts[i].campaign
             /\ attempts'[i].plan = attempts[i].plan
             /\ attempts'[i].slot = attempts[i].slot
             /\ attempts'[i].retry = attempts[i].retry
    BY <1>3, Closed
  <2> QED
    BY <2>1 DEF Orderly, Before
<1> QED
  BY <1>1, <1>2, <1>3, ArchiveStep

\* What a step does to the latest attempt under a plan: nothing, or a new one
\* follows it as the plan says, or it is the one that is finalized.
PlanStep(plan) ==
  \/ /\ LatestOf(plan).slot' = LatestOf(plan).slot
     /\ LatestOf(plan).retry' = LatestOf(plan).retry
     /\ LatestOf(plan).outcome' = LatestOf(plan).outcome
  \/ /\ LatestOf(plan).outcome \in {"none"} \cup Technical
     /\ LatestOf(plan).retry < MaxRetries
     /\ LatestOf(plan).retry' = LatestOf(plan).retry + 1
     /\ LatestOf(plan).outcome' = "open"
     /\ LatestOf(plan).slot' = LatestOf(plan).slot
  \/ /\ LatestOf(plan).slot < SlotCount
     /\ \/ LatestOf(plan).outcome = "success"
        \/ LatestOf(plan).outcome \in Technical /\ LatestOf(plan).retry = MaxRetries
     /\ LatestOf(plan).slot' = LatestOf(plan).slot + 1
     /\ LatestOf(plan).retry' = 1
     /\ LatestOf(plan).outcome' = "open"
  \/ /\ LatestOf(plan).outcome = "open"
     /\ LatestOf(plan).outcome' \in {"success", "ambiguous"} \cup Technical
     /\ LatestOf(plan).slot' = LatestOf(plan).slot
     /\ LatestOf(plan).retry' = LatestOf(plan).retry

\* The latest attempt is the latest one for as long as the plan has no other.
LEMMA SameLatest ==
  ASSUME TypeOK, TypeOK', NEW plan, UnderPlan(plan)' = UnderPlan(plan)
  PROVE  \/ UnderPlan(plan) = {} /\ LatestOf(plan)' = LatestOf(plan)
         \/ \E i \in DOMAIN attempts :
              /\ i \in DOMAIN attempts' /\ i \in UnderPlan(plan)
              /\ LatestOf(plan) = attempts[i] /\ LatestOf(plan)' = attempts'[i]
<1>1. CASE UnderPlan(plan) = {}
  BY <1>1 DEF LatestOf
<1>2. CASE UnderPlan(plan) # {}
  <2>1. PICK i \in DOMAIN attempts : IsNewest(i, plan) /\ LatestOf(plan) = attempts[i]
    BY <1>2, LatestIs
  <2>2. PICK j \in DOMAIN attempts' : IsNewest(j, plan)' /\ LatestOf(plan)' = attempts'[j]
    BY <1>2, LatestBecomes
  <2>3. i \in Int /\ j \in Int
    BY DEF TypeOK
  <2>4. i \in UnderPlan(plan) /\ j \in UnderPlan(plan) /\ i <= j /\ j <= i
    BY <2>1, <2>2 DEF IsNewest
  <2>5. i = j
    BY <2>3, <2>4
  <2> QED
    BY <2>1, <2>2, <2>4, <2>5
<1> QED
  BY <1>1, <1>2

LEMMA EveryStepFollows ==
  ASSUME Inv, Inv', Orderly, [Next]_vars, NEW plan, plan # NoPlan
  PROVE  PlanStep(plan)
<1>1. TypeOK /\ TypeOK' /\ attempts \in Seq(Attempt)
  BY DEF Inv, TypeOK
<1>2. CASE UNCHANGED attempts
  <2>1. UnderPlan(plan)' = UnderPlan(plan)
    BY <1>2 DEF UnderPlan
  <2> QED
    BY <1>1, <1>2, <2>1, SameLatest DEF PlanStep
<1>3. ASSUME NEW p \in Operators, AddAttempt(p), request[p].plan # plan
      PROVE  PlanStep(plan)
  <2>1. UnderPlan(plan)' = UnderPlan(plan)
    <3>1. PICK n \in Nat :
            /\ DOMAIN attempts' = DOMAIN attempts \cup {n}
            /\ \A i \in DOMAIN attempts : attempts'[i] = attempts[i]
            /\ attempts'[n].plan # plan
      BY <1>3, Added
    <3> QED
      BY <3>1 DEF UnderPlan
  <2>2. \A i \in DOMAIN attempts : attempts'[i] = attempts[i]
    BY <1>3, Added
  <2> QED
    BY <1>1, <2>1, <2>2, SameLatest DEF PlanStep
<1>4. ASSUME NEW p \in Operators, AddAttempt(p), request[p].plan = plan
      PROVE  PlanStep(plan)
  <2> DEFINE r == request[p]
  <2>1. PICK n \in Nat :
          /\ r \in Requests /\ MayStart(r)
          /\ DOMAIN attempts' = DOMAIN attempts \cup {n}
          /\ \A i \in DOMAIN attempts : i < n
          /\ attempts'[n].plan = r.plan /\ attempts'[n].slot = r.slot
          /\ attempts'[n].retry = r.retry /\ attempts'[n].outcome = "open"
    BY <1>4, Added
  <2>2. r.plan = plan /\ r.plan # NoPlan
    BY <1>4
  <2>3. /\ UnderPlan(plan) = {} => r.slot = 1 /\ r.retry = 1
        /\ \A l \in DOMAIN attempts :
             IsNewest(l, plan) =>
               \/ /\ r.slot = attempts[l].slot /\ r.retry = attempts[l].retry + 1
                  /\ attempts[l].outcome \in Technical
               \/ /\ r.slot = attempts[l].slot + 1 /\ r.retry = 1
                  /\ \/ attempts[l].outcome = "success"
                     \/ /\ attempts[l].outcome \in Technical
                        /\ attempts[l].retry = MaxRetries
    BY <2>1, <2>2, PlanAdvances
  <2>4. r.retry \in 1..MaxRetries /\ r.slot \in 1..SlotCount
    BY <2>1, RetryFollows DEF Requests
  <2> HIDE DEF r
  <2>5. LatestOf(plan)' = attempts'[n]
    <3>1. n \in UnderPlan(plan)'
      <4>1. n \in DOMAIN attempts' /\ attempts'[n].plan = plan
        BY <2>1, <2>2
      <4> QED
        BY <4>1 DEF UnderPlan
    <3>2. PICK i \in DOMAIN attempts' : IsNewest(i, plan)' /\ LatestOf(plan)' = attempts'[i]
      BY <1>1, <3>1, LatestBecomes
    <3>3. n <= i
      BY <3>1, <3>2 DEF IsNewest
    <3>4. i = n
      <4>1. i \in DOMAIN attempts => i \in Int /\ i < n
        BY <1>1, <2>1
      <4> QED
        BY <2>1, <3>3, <4>1
    <3> QED
      BY <3>2, <3>4
  <2>6. /\ LatestOf(plan).slot' = r.slot /\ LatestOf(plan).retry' = r.retry
        /\ LatestOf(plan).outcome' = "open"
    BY <2>1, <2>5
  <2>7. CASE UnderPlan(plan) = {}
    <3>1. /\ LatestOf(plan).slot = 1 /\ LatestOf(plan).retry = 0
          /\ LatestOf(plan).outcome = "none"
      BY <1>1, <2>7, LatestIs
    <3>2. r.slot = 1 /\ r.retry = 1
      BY <2>3, <2>7
    <3> QED
      BY <2>4, <2>6, <3>1, <3>2 DEF PlanStep
  <2>8. CASE UnderPlan(plan) # {}
    <3>1. PICK l \in DOMAIN attempts : IsNewest(l, plan) /\ LatestOf(plan) = attempts[l]
      BY <1>1, <2>8, LatestIs
    <3>2. /\ LatestOf(plan).slot \in 1..SlotCount /\ LatestOf(plan).retry \in 1..MaxRetries
      <4>1. LatestOf(plan) \in Attempt
        BY <1>1, <3>1
      <4> QED
        BY <4>1 DEF Attempt
    <3>3. CASE /\ r.slot = LatestOf(plan).slot /\ r.retry = LatestOf(plan).retry + 1
               /\ LatestOf(plan).outcome \in Technical
      <4>1. LatestOf(plan).retry < MaxRetries
        BY <2>4, <3>2, <3>3
      <4> QED
        BY <2>6, <3>3, <4>1 DEF PlanStep
    <3>4. CASE /\ r.slot = LatestOf(plan).slot + 1 /\ r.retry = 1
               /\ \/ LatestOf(plan).outcome = "success"
                  \/ /\ LatestOf(plan).outcome \in Technical
                     /\ LatestOf(plan).retry = MaxRetries
      <4>1. LatestOf(plan).slot < SlotCount
        BY <2>4, <3>2, <3>4
      <4> QED
        BY <2>6, <3>4, <4>1 DEF PlanStep
    <3> QED
      BY <2>3, <3>1, <3>3, <3>4
  <2> QED
    BY <2>7, <2>8
<1>5. ASSUME NEW k \in DOMAIN attempts, NEW outcome \in Endings, Finalize(k, outcome)
      PROVE  PlanStep(plan)
  <2>1. /\ DOMAIN attempts' = DOMAIN attempts
        /\ attempts[k].outcome = "open" /\ attempts'[k].outcome = outcome
        /\ \A i \in DOMAIN attempts :
             /\ attempts'[i].plan = attempts[i].plan
             /\ attempts'[i].slot = attempts[i].slot
             /\ attempts'[i].retry = attempts[i].retry
             /\ i # k => attempts'[i] = attempts[i]
    BY <1>5, Closed
  <2>2. UnderPlan(plan)' = UnderPlan(plan)
    BY <2>1 DEF UnderPlan
  <2>3. outcome \in {"success", "ambiguous"} \cup Technical
    BY DEF Technical
  <2>4. CASE LatestOf(plan)' = LatestOf(plan)
    BY <2>4 DEF PlanStep
  <2>5. ASSUME NEW i \in DOMAIN attempts,
               LatestOf(plan) = attempts[i], LatestOf(plan)' = attempts'[i]
        PROVE  PlanStep(plan)
    <3>1. CASE i = k
      BY <2>1, <2>3, <2>5, <3>1 DEF PlanStep
    <3>2. CASE i # k
      BY <2>1, <2>5, <3>2 DEF PlanStep
    <3> QED
      BY <3>1, <3>2
  <2> QED
    BY <1>1, <2>2, <2>4, <2>5, SameLatest
<1> QED
  BY <1>2, <1>3, <1>4, <1>5, ArchiveStep

\* The attempts under each of two plans are a run of the plan, whatever is asked
\* for in whichever order and by however many operators: prepare-run lets nothing
\* through that the plan does not list next (validate_slot).
THEOREM AttemptsFollowPlan ==
  ASSUME NoPlan \notin {p1, p2}
  PROVE  Spec => FollowsPlan
<1>1. Spec => [](Inv /\ Orderly)
  <2>1. Inv /\ Orderly /\ [Next]_vars => Orderly'
    BY OrderlyNext
  <2> QED
    BY <2>1, OrderlyInit, Invariance, PTL DEF Spec
<1>2. ASSUME NEW plan, Init
      PROVE  /\ LatestOf(plan).slot = 1 /\ LatestOf(plan).retry = 0
             /\ LatestOf(plan).outcome = "none"
  <2>1. UnderPlan(plan) = {}
    BY <1>2 DEF Init, UnderPlan
  <2> QED
    BY <2>1 DEF LatestOf
<1>3. Init => First!Init /\ Second!Init
  BY <1>2 DEF First!Init, Second!Init
<1>4. ASSUME Inv, Inv', Orderly, [Next]_vars
      PROVE  [First!Next]_(First!progress) /\ [Second!Next]_(Second!progress)
  <2>1. PlanStep(p1) /\ PlanStep(p2)
    BY <1>4, EveryStepFollows
  <2>2. [First!Next]_(First!progress)
    BY <2>1 DEF PlanStep, First!Next, First!Try, First!MoveOn, First!End, First!progress
  <2>3. [Second!Next]_(Second!progress)
    BY <2>1 DEF PlanStep, Second!Next, Second!Try, Second!MoveOn, Second!End, Second!progress
  <2> QED
    BY <2>2, <2>3
<1> QED
  BY <1>1, <1>3, <1>4, PTL DEF Spec, FollowsPlan, First!Spec, Second!Spec

=============================================================================

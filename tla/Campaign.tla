------------------------------- MODULE Campaign -------------------------------
(***************************************************************************)
(* Which attempts experiment/controller.py lets an operator start.  Every  *)
(* prepare-run takes the global lock, refuses while any attempt in the     *)
(* archive is unresolved, checks the requested slot against the archive    *)
(* and the frozen execution plan, and only then adds an attempt.  What     *)
(* happens inside an attempt is AttemptLifecycle; here it is open, and at  *)
(* some moment, by whichever process, it is finalized with an outcome.     *)
(***************************************************************************)
EXTENDS Integers, Sequences

CONSTANTS
  Operators,   \* the processes that run prepare-run
  Campaigns,   \* the names given with --campaign
  Plans,       \* the execution plans, by the digest recorded in metadata.json
  NoPlan,      \* no --execution-plan: a smoke or pilot attempt
  CampaignOf,  \* the campaign each plan is frozen for
  SlotCount,   \* the number of slots in a plan, in their order
  MaxRetries,  \* maximum_attempts_per_scheduled_slot
  AdHoc,       \* are there attempts without a plan?
  Endings,     \* how an attempt may end: its outcome, or "ambiguous" when it
               \* is finalized without exactly one run_finished event
  GivesUp      \* may prepare-run fail or be killed before it adds the attempt?

ASSUME ConstantsAssumption ==
  /\ NoPlan \notin Plans
  /\ CampaignOf \in [Plans -> Campaigns]
  /\ SlotCount \in Nat
  /\ MaxRetries \in Nat
  /\ {AdHoc, GivesUp} \subseteq BOOLEAN
  /\ "free" \notin Operators
  /\ Endings \subseteq {"success", "error", "timeout", "prepare_error", "aborted",
                        "ambiguous"}

VARIABLES
  attempts,  \* the attempts in client/, in the order they were added
  lock,      \* holder of runtime/locks/global-live-attempt.lock
  pc,        \* where each prepare-run is
  request    \* what each prepare-run was asked for

vars == <<attempts, lock, pc, request>>

Technical == {"error", "timeout", "prepare_error", "aborted"}
Readable == {"success"} \cup Technical

Requests == [campaign : Campaigns, plan : Plans \cup (IF AdHoc THEN {NoPlan} ELSE {}),
             slot : 1..SlotCount, retry : 0..(MaxRetries + 1)]
NoRequest == <<>>

Init ==
  /\ attempts = <<>>
  /\ lock = "free"
  /\ pc = [p \in Operators |-> "idle"]
  /\ request = [p \in Operators |-> NoRequest]

---------------------------------------------------------------------------
\* The checks.

\* recovery_required_attempts: an attempt that is not finalized.
Unresolved == \E i \in DOMAIN attempts : attempts[i].outcome = "open"

SameSlot(r) ==
  {i \in DOMAIN attempts : attempts[i].campaign = r.campaign /\ attempts[i].slot = r.slot}
Planned(c, plan) ==
  {i \in DOMAIN attempts : attempts[i].campaign = c /\ attempts[i].plan = plan}

Duplicate(r) == \E i \in SameSlot(r) : attempts[i].retry = r.retry

Previous(r) == {i \in SameSlot(r) : attempts[i].retry = r.retry - 1}

\* Mutant: any finalized attempt may be retried.
RetryOfAnything(r) ==
  r.retry \in 1..MaxRetries /\ (r.retry > 1 => \E i \in Previous(r) : Previous(r) = {i})

\* Mutant: the retries are not counted.
RetryWithoutLimit(r) ==
  r.retry > 1 =>
    \E i \in Previous(r) : Previous(r) = {i} /\ attempts[i].outcome \in Technical

\* A retry, within the limit, follows exactly one attempt with the previous
\* number, finalized with a technical failure, a timeout or an abort.
RetryAllowed(r) ==
  /\ r.retry \in 1..MaxRetries
  /\ r.retry > 1 =>
       \E i \in Previous(r) : Previous(r) = {i} /\ attempts[i].outcome \in Technical

\* Mutant: only a success completes a slot.
SlotNeedsSuccess(c, plan, s) ==
  \E i \in Planned(c, plan) : attempts[i].slot = s /\ attempts[i].outcome = "success"

\* slot_is_complete: one success, or the last permitted retry has failed.
SlotComplete(c, plan, s) ==
  \E i \in Planned(c, plan) :
    /\ attempts[i].slot = s
    /\ \/ attempts[i].outcome = "success"
       \/ attempts[i].retry = MaxRetries /\ attempts[i].outcome \in Technical

\* Mutant: a later slot may be tried before the earlier ones are complete.
PlanWithoutOrder(r) ==
  r.plan # NoPlan =>
    /\ CampaignOf[r.plan] = r.campaign
    /\ \A i \in DOMAIN attempts :
         attempts[i].campaign = r.campaign => attempts[i].plan = r.plan
    /\ \A i \in Planned(r.campaign, r.plan) : attempts[i].outcome \in Readable

\* The part of validate_slot that reads the plan: the campaign is the plan's
\* and holds attempts under this plan only; each of them has a readable
\* outcome; all earlier slots are complete; no later slot has been tried.
PlanAllows(r) ==
  r.plan # NoPlan =>
    /\ CampaignOf[r.plan] = r.campaign
    /\ \A i \in DOMAIN attempts :
         attempts[i].campaign = r.campaign => attempts[i].plan = r.plan
    /\ \A i \in Planned(r.campaign, r.plan) :
         attempts[i].outcome \in Readable /\ attempts[i].slot <= r.slot
    /\ \A s \in 1..(r.slot - 1) : SlotComplete(r.campaign, r.plan, s)

MayStart(r) == ~Duplicate(r) /\ RetryAllowed(r) /\ PlanAllows(r)

---------------------------------------------------------------------------
\* prepare-run.

Go(p, label) == pc' = [pc EXCEPT ![p] = label]

\* prepare-run ends, and drops the lock.
Quit(p) ==
  /\ Go(p, "idle") /\ request' = [request EXCEPT ![p] = NoRequest]
  /\ lock' = "free"

\* Mutant: prepare-run does not wait for another one to return.
AskUnlocked(p, r) ==
  /\ pc[p] = "idle"
  /\ lock' = p
  /\ request' = [request EXCEPT ![p] = r]
  /\ Go(p, "unfinished")
  /\ UNCHANGED attempts

\* prepare-run is typed; acquire_lifecycle_lock blocks it until no other
\* prepare-run is running.
Ask(p, r) ==
  /\ pc[p] = "idle"
  /\ lock = "free" /\ lock' = p
  /\ request' = [request EXCEPT ![p] = r]
  /\ Go(p, "unfinished")
  /\ UNCHANGED attempts

\* validate_prepare: refuse_unfinished_attempts.
CheckUnfinished(p) ==
  /\ pc[p] = "unfinished"
  /\ IF Unresolved THEN Quit(p) ELSE Go(p, "slot") /\ UNCHANGED <<lock, request>>
  /\ UNCHANGED attempts

\* validate_slot.
CheckSlot(p) ==
  /\ pc[p] = "slot"
  /\ IF MayStart(request[p]) THEN Go(p, "create") /\ UNCHANGED <<lock, request>>
                             ELSE Quit(p)
  /\ UNCHANGED attempts

\* The attempt directory with its metadata.json; without metadata.json no
\* other command sees it.
AddAttempt(p) ==
  /\ pc[p] = "create"
  /\ attempts' = Append(attempts,
       [campaign |-> request[p].campaign, plan |-> request[p].plan,
        slot |-> request[p].slot, retry |-> request[p].retry, outcome |-> "open"])
  /\ Go(p, "running")
  /\ UNCHANGED <<lock, request>>

\* prepare-run returns, or fails, and leaves its attempt as it is.
Return(p) ==
  /\ pc[p] = "running"
  /\ Quit(p)
  /\ UNCHANGED attempts

\* Every other check of validate_prepare and validate_slot, an interface that
\* is gone, or a signal: prepare-run ends before it has added anything.
GiveUp(p) ==
  /\ GivesUp
  /\ pc[p] \in {"unfinished", "slot", "create"}
  /\ Quit(p)
  /\ UNCHANGED attempts

\* finish-run, abort-run, cleanup, the watchdog or prepare-run's own handler
\* finalizes an attempt, at any moment.
Finalize(i, outcome) ==
  /\ attempts[i].outcome = "open"
  /\ attempts' = [attempts EXCEPT ![i].outcome = outcome]
  /\ UNCHANGED <<lock, pc, request>>

PrepareRun(p) ==
  CheckUnfinished(p) \/ CheckSlot(p) \/ AddAttempt(p) \/ Return(p)

Next ==
  \/ \E p \in Operators : PrepareRun(p) \/ GiveUp(p) \/ \E r \in Requests : Ask(p, r)
  \/ \E i \in DOMAIN attempts, outcome \in Endings : Finalize(i, outcome)

Spec == Init /\ [][Next]_vars

\* A started command goes on, an open attempt is finalized in the end, and the
\* operator keeps asking for every slot and retry of the plan.
FairSpec ==
  /\ Spec
  /\ \A p \in Operators : WF_vars(PrepareRun(p))
  /\ WF_vars(\E i \in DOMAIN attempts, outcome \in Endings : Finalize(i, outcome))
  /\ \A p \in Operators, r \in Requests : SF_vars(Ask(p, r))

---------------------------------------------------------------------------
\* Properties.

Attempt == [campaign : Campaigns, plan : Plans \cup {NoPlan}, slot : 1..SlotCount,
            retry : 1..MaxRetries, outcome : Endings \cup {"open"}]

\* Every variable has its type.
TypeOK ==
  /\ attempts \in Seq(Attempt)
  /\ lock \in Operators \cup {"free"}
  /\ pc \in [Operators -> {"idle", "unfinished", "slot", "create", "running"}]
  /\ request \in [Operators -> Requests \cup {NoRequest}]

\* However many operators type prepare-run, two attempts never alter the Mac
\* at once: the check for unfinished attempts is still true when the new
\* attempt is added (cmd_prepare's global lock, refuse_unfinished_attempts).
AtMostOneOpen ==
  \A i, j \in DOMAIN attempts :
    attempts[i].outcome = "open" /\ attempts[j].outcome = "open" => i = j

\* A slot that has succeeded is never tried again, with or without a plan, so
\* that no result can be replaced by a later one (validate_slot's retry rule).
SuccessIsFinal ==
  \A i, j \in DOMAIN attempts :
    /\ attempts[i].campaign = attempts[j].campaign /\ attempts[i].slot = attempts[j].slot
    /\ attempts[i].outcome = "success"
    => attempts[j].retry <= attempts[i].retry

\* The operator who keeps asking for what the plan lists gets through it: no
\* outcome of an attempt leaves the plan with nothing it allows next.
PlanCompletes ==
  \A plan \in Plans, s \in 1..SlotCount :
    <>(\E i \in Planned(CampaignOf[plan], plan) :
         /\ attempts[i].slot = s
         /\ \/ attempts[i].outcome = "success"
            \/ attempts[i].retry = MaxRetries /\ attempts[i].outcome # "open")

=============================================================================

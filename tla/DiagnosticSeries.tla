--------------------------- MODULE DiagnosticSeries ---------------------------
(***************************************************************************)
(* One H3-required series of the protocol diagnostic (protocol_diag.py):   *)
(* its frozen slots, tried one after the other within one UTC day, with    *)
(* one candidate snapshot, behind the origin gate, until a safety stop     *)
(* latches.  How an attempt alters and restores the Mac is the subject of  *)
(* DiagnosticLifecycle; here an attempt is what later checks read of it.   *)
(***************************************************************************)
EXTENDS Sequences, Integers

CONSTANTS
  SlotCount,  \* how many slots the plan lists
  MaxTries,   \* maximum_attempts_per_slot
  Snapshots,  \* the candidate snapshots that may be frozen
  Days,       \* bound: the UTC days
  Life,       \* the origin gate's timeout in units of the model's clock
  Minimum     \* minimum_remaining_seconds in the same unit

ASSUME SeriesAssumption ==
  /\ SlotCount \in Nat \ {0} /\ MaxTries \in Nat \ {0} /\ Days \in Nat \ {0}
  /\ Life \in Nat \ {0} /\ Minimum \in 1..Life
  /\ Snapshots # {}

VARIABLES
  day,        \* the UTC day
  readiness,  \* a run-day HTTP/3 attestation of this day is valid
  snapped,    \* the day on which each candidate snapshot was frozen, 0 when it is not
  campaign,   \* the normal campaign is attested as complete
  table,      \* the origin gate's table exists
  left,       \* what is left of its target's timeout
  pc,         \* where prepare is, "idle" when no prepare runs
  request,    \* what it has been asked for, and the day it has settled on
  kept,       \* the attempt that is open has its response.json
  archive     \* the attempts of the series in the order of their creation

gate == <<table, left>>
world == <<day, readiness, snapped, campaign>>
vars == <<world, gate, pc, request, kept, archive>>

\* "other" stands for every scientific outcome that nothing else depends on:
\* timeout, aborted, operator_completion_timeout and the rest.  A technical
\* ending authorizes a retry; an invalid one does not.
Scientific == {"success", "direct_bypass", "other"}
Endings == Scientific \cup {"technical", "invalid"}

\* The browser's responses that may be saved: one that is in time, one that is
\* late, one that names an own address; and what stops the series when later
\* checks read an attempt's response.json.
Files == {"none", "exact", "late", "own"}
Alarms == {"none", "own", "torn"}

Slots == 1..SlotCount
Requests == [slot : Slots, try : 1..MaxTries, snap : Snapshots, day : {0}]
NoRequest == [slot |-> 1, try |-> 1, snap |-> CHOOSE s \in Snapshots : TRUE, day |-> 0]

Lease == INSTANCE GateLease

Init ==
  /\ day = 1 /\ readiness = FALSE /\ snapped = [s \in Snapshots |-> 0] /\ campaign = FALSE
  /\ Lease!Init
  /\ pc = "idle" /\ request = NoRequest /\ kept = FALSE /\ archive = <<>>

---------------------------------------------------------------------------
\* What prepare reads.

Finalized(a) == a.end \notin {"open", "launched"}
Unfinished == \E i \in DOMAIN archive : ~Finalized(archive[i])
InSlot(s) == {i \in DOMAIN archive : archive[i].slot = s}

\* Mutant: the response an attempt keeps is not read.
Stops(a) == a.end = "direct_bypass" \/ a.changed

\* safety_stop_reasons: what an attempt has shown stops the series for good.
SafetyStop(a) == a.end = "direct_bypass" \/ a.alarm # "none" \/ a.changed

\* Mutant: a failure without a retry leaves its slot incomplete.
SlotObserved(s) ==
  \E i \in InSlot(s) :
    \/ archive[i].end \in Scientific
    \/ archive[i].end = "technical" /\ archive[i].try = MaxTries

\* slot_complete: an observation, a failure that authorizes no retry, or the
\* last permitted try.
SlotComplete(s) ==
  \E i \in InSlot(s) :
    \/ archive[i].end \in Scientific \cup {"invalid"}
    \/ archive[i].end = "technical" /\ archive[i].try = MaxTries

\* Mutant: a slot is tried for as long as its tries may be retried.
SlotAllowsMore(r) ==
  /\ r.try = 1 => InSlot(r.slot) = {}
  /\ r.try > 1 => \E i \in InSlot(r.slot) : archive[i].end = "technical"
  /\ \A s \in 1..(r.slot - 1) : SlotComplete(s)
  /\ \A s \in (r.slot + 1)..SlotCount : InSlot(s) = {}

\* validate_slot_request.
SlotAllowed(r) ==
  /\ \A i \in InSlot(r.slot) : archive[i].try # r.try
  /\ r.try = 1 => InSlot(r.slot) = {}
  /\ r.try > 1 =>
       \E i \in InSlot(r.slot) : archive[i].try = r.try - 1 /\ archive[i].end = "technical"
  /\ \A s \in 1..(r.slot - 1) : SlotComplete(s)
  /\ \A s \in (r.slot + 1)..SlotCount : InSlot(s) = {}

\* verify_campaign_completion: the attestation of the normal campaign holds.
CampaignCompleted == campaign

\* verify_run_day_readiness: an attestation of this day, not too old, holds.
RunDayReady == readiness

\* campaign_preflight.
Ready ==
  /\ ~Unfinished
  /\ ~\E i \in DOMAIN archive : SafetyStop(archive[i])
  /\ CampaignCompleted
  /\ RunDayReady

\* The snapshot is of this day and no attempt has used another one.
SnapshotFits(s) ==
  snapped[s] = day /\ \A i \in DOMAIN archive : archive[i].snap = s

\* ServerGateClient.snapshot.
GateValid == table /\ left >= Minimum

---------------------------------------------------------------------------
\* prepare, under the controller's lock.

\* A request that fails a check leaves nothing behind.
Ask(r) ==
  /\ pc = "idle"
  /\ Ready /\ SlotAllowed(r) /\ SnapshotFits(r.snap)
  /\ pc' = "checked" /\ request' = r
  /\ UNCHANGED <<world, gate, kept, archive>>

Refuse == pc' = "idle" /\ request' = NoRequest

\* Mutant: the day is taken from the clock and not compared.
SettleUnchecked ==
  /\ pc = "checked"
  /\ pc' = "settled" /\ request' = [request EXCEPT !.day = day]
  /\ UNCHANGED <<world, gate, kept, archive>>

\* The day of the attempt; it must still be that of the snapshot.
Settle ==
  /\ pc = "checked"
  /\ IF snapped[request.snap] = day
     THEN pc' = "settled" /\ request' = [request EXCEPT !.day = day] ELSE Refuse
  /\ UNCHANGED <<world, gate, kept, archive>>

\* The snapshot of the gate, and the attempt's directory and metadata.
Create ==
  /\ pc = "settled"
  /\ IF GateValid
     THEN /\ archive' = Append(archive,
               [slot |-> request.slot, try |-> request.try, snap |-> request.snap,
                day |-> request.day, alarm |-> "none", end |-> "open", changed |-> FALSE, pinned |-> FALSE])
          /\ pc' = "preparing" /\ kept' = FALSE /\ UNCHANGED request
     ELSE Refuse /\ UNCHANGED <<kept, archive>>
  /\ UNCHANGED <<world, gate>>

n == Len(archive)

\* How the error handler ends an attempt, by the stage that failed.
StageEnd(stage) == IF stage \in {"capture", "safari"} THEN "technical" ELSE "invalid"
StageStops(stage) == stage \in {"clock", "firewall", "dns"}
\* Whether dns-pin-state.json may exist, or be missing, when a stage fails.
StagePins(stage) == CASE stage = "dns" -> BOOLEAN [] stage = "safari" -> {TRUE} [] OTHER -> {FALSE}

\* prepare opens Safari, or one of its stages fails.
PrepareEnds ==
  /\ pc = "preparing"
  /\ \/ archive' = [archive EXCEPT ![n].end = "launched", ![n].pinned = TRUE]
     \/ \E stage \in {"initialization", "clock", "capture", "firewall", "dns", "safari"} :
          \E pins \in StagePins(stage) :
            archive' = [archive EXCEPT ![n].end = StageEnd(stage), ![n].changed = StageStops(stage),
                                       ![n].pinned = pins]
  /\ Refuse
  /\ UNCHANGED <<world, gate, kept>>

\* It is refused by something else or killed, or cannot clean up: what it has
\* created stays open.
Interrupted ==
  /\ pc # "idle" /\ Refuse
  /\ IF pc = "preparing" THEN \E pins \in BOOLEAN : archive' = [archive EXCEPT ![n].pinned = pins]
     ELSE UNCHANGED archive
  /\ UNCHANGED <<world, gate, kept>>

---------------------------------------------------------------------------
\* The commands that end an attempt.

Open == pc = "idle" /\ Unfinished
Launched == Open /\ archive[n].end = "launched"

\* What finish_attempt does before it may be refused: it keeps the response.
Keep(file) == [archive EXCEPT ![n].alarm = IF file \in Alarms \ {"none"} THEN file ELSE @]

Outcome(typed, file) ==
  CASE file = "own" -> "direct_bypass"
    [] file = "late" -> "other"
    [] OTHER -> typed

\* The end of finish_attempt: a capture that ended early makes a technical
\* failure of anything but a stop; conditions that have changed stop as well.
Close(outcome, file, stop) ==
  \E early \in BOOLEAN, automatic \in BOOLEAN :
    archive' = [Keep(file) EXCEPT
      ![n].end = IF early /\ outcome # "direct_bypass" /\ ~stop THEN "technical" ELSE outcome,
      ![n].changed = stop \/ automatic]

\* finish-run.  A gate that is not valid any more is a stop.
Finish(typed, file, changed) ==
  /\ Launched
  /\ file # "none" => ~kept
  /\ kept' = (kept \/ file # "none")
  /\ typed = "success" => file # "none"
  /\ \/ Close(Outcome(typed, file), file, changed \/ ~GateValid)
     \/ archive' = Keep(file)
  /\ UNCHANGED <<world, gate, pc, request>>

\* The process ends while it writes response.json.
FinishTorn ==
  /\ Launched /\ ~kept
  /\ kept' = TRUE /\ archive' = Keep("torn")
  /\ UNCHANGED <<world, gate, pc, request>>

\* abort-run, as aborted or because no response could be saved; the latter
\* is refused together with a stop.
Abort(saved, stop) ==
  /\ Open
  /\ LET stops == stop \/ ~GateValid
     IN \/ saved /\ Close("other", "none", stops)
        \/ ~saved /\ ~kept /\ ~stops /\ Close("technical", "none", FALSE)
  /\ UNCHANGED <<world, gate, pc, request, kept>>

\* cleanup, and the watchdog's deadline; neither looks at the gate.
Recover ==
  /\ \/ Open /\ archive' = [archive EXCEPT ![n].end = "invalid"]
     \/ Launched /\ archive' = [archive EXCEPT ![n].end = "other"]
  /\ UNCHANGED <<world, gate, pc, request, kept>>

---------------------------------------------------------------------------
\* What pairing counts in the end.

\* pair_attempt knows the slot only of an attempt with all of its state files,
\* and with a response that can be read.
Readable(a) == a.pinned /\ a.alarm # "torn"

\* Mutant: the first attempt of a slot that can be read is counted.
CountedFirst(s) ==
  {i \in InSlot(s) : Readable(archive[i]) /\ \A j \in InSlot(s) : Readable(archive[j]) => i <= j}

\* summarize_h3_required: the latest one is.
Counted(s) ==
  {i \in InSlot(s) : Readable(archive[i]) /\ \A j \in InSlot(s) : Readable(archive[j]) => j <= i}

---------------------------------------------------------------------------
\* What goes on around it.

Freeze(s) == snapped[s] = 0 /\ snapped' = [snapped EXCEPT ![s] = day] /\ UNCHANGED <<day, readiness, campaign>>

\* The attestation of readiness is written, or grows too old.
Attest == readiness' = ~readiness /\ UNCHANGED <<day, snapped, campaign>>

CampaignEnds == ~campaign /\ campaign' = TRUE /\ UNCHANGED <<day, readiness, snapped>>

Midnight == day < Days /\ day' = day + 1 /\ readiness' = FALSE /\ UNCHANGED <<snapped, campaign>>

Around ==
  /\ (\E s \in Snapshots : Freeze(s)) \/ Attest \/ CampaignEnds \/ Midnight
  /\ UNCHANGED <<gate, pc, request, kept, archive>>

\* The gate goes through its lease; prepare takes less than a unit of the clock.
Gate(step) == pc = "idle" /\ step /\ UNCHANGED <<world, pc, request, kept, archive>>

Prepare == Settle \/ Create \/ PrepareEnds
End ==
  \/ \E typed \in Scientific, file \in Files, changed \in BOOLEAN : Finish(typed, file, changed)
  \/ FinishTorn \/ Recover
  \/ \E saved, stop \in BOOLEAN : Abort(saved, stop)

Next ==
  \/ \E r \in Requests : Ask(r)
  \/ Prepare \/ Interrupted \/ End \/ Around \/ Gate(Lease!Next)

Spec == Init /\ [][Next]_vars

\* The operator freezes a snapshot, keeps the attestations valid and the gate
\* armed, ends every attempt and keeps asking for every slot and try.
FairSpec ==
  /\ Spec
  /\ WF_vars(Around /\ \E s \in Snapshots : Freeze(s))
  /\ SF_vars(Around /\ GateValid /\ readiness' /\ Attest)
  /\ WF_vars(Around /\ CampaignEnds)
  /\ WF_vars(Gate(Lease!Pass)) /\ SF_vars(Gate(Lease!Create)) /\ SF_vars(Gate(Lease!Block))
  /\ SF_vars(GateValid /\ \E r \in Requests : Ask(r))
  /\ WF_vars(Prepare) /\ SF_vars(GateValid /\ Settle) /\ SF_vars(GateValid /\ Create)
  /\ WF_vars(Recover)

---------------------------------------------------------------------------
\* Properties.

Attempt == [slot : Slots, try : 1..MaxTries, snap : Snapshots, day : 1..Days,
            alarm : Alarms, end : Endings \cup {"open", "launched"}, changed : BOOLEAN, pinned : BOOLEAN]

\* Every variable has its type; no slot has more attempts than tries.
TypeOK ==
  /\ day \in 1..Days /\ readiness \in BOOLEAN /\ snapped \in [Snapshots -> 0..Days]
  /\ campaign \in BOOLEAN /\ kept \in BOOLEAN
  /\ table \in BOOLEAN /\ left \in 0..Life
  /\ pc \in {"idle", "checked", "settled", "preparing"}
  /\ request \in [slot : Slots, try : 1..MaxTries, snap : Snapshots, day : 0..Days]
  /\ archive \in Seq(Attempt) /\ Len(archive) <= SlotCount * MaxTries

\* Whatever stops a series stops it for good, whichever command has ended the
\* attempt and whatever was lost on the way; until then its slots are taken in
\* order and tried again only as the frozen plan permits.
Ended(a) ==
  CASE ~Finalized(a) -> "open"
    [] Finalized(a) /\ (a.end = "direct_bypass" \/ a.changed \/ a.alarm # "none") -> "stopped"
    [] a.end = "technical" /\ ~a.changed /\ a.alarm = "none" -> "technical"
    [] OTHER -> "success"
Plan == INSTANCE CampaignPlan WITH
  Technical <- {"technical"}, Unusable <- "stopped",
  slot <- IF n = 0 THEN 1 ELSE archive[n].slot,
  tries <- IF n = 0 THEN 0 ELSE archive[n].try,
  last <- IF n = 0 THEN "none" ELSE Ended(archive[n])
FollowsPlan == Plan!Spec

\* All attempts of a series were made with one candidate snapshot on its day,
\* wherever midnight falls: "all ten diagnostic slots must use the same frozen
\* candidate snapshot".
SameConditions ==
  \A i, j \in DOMAIN archive :
    archive[i].snap = archive[j].snap /\ archive[i].day = snapped[archive[j].snap]

\* An observation is what its slot counts by, whatever was tried before it and
\* whatever became of those attempts.
CountsObservations ==
  \A i \in DOMAIN archive :
    archive[i].end \in {"success", "direct_bypass"} /\ archive[i].alarm # "torn" =>
      Counted(archive[i].slot) = {i}

\* The operator who goes on gets the series to its end within the day, unless a
\* safety stop latches: no ending of an attempt, no interruption and no lapse of
\* an attestation leaves the plan with nothing it allows next.
SeriesCompletes ==
  <>(\/ \A s \in Slots : SlotComplete(s)
     \/ \E i \in DOMAIN archive : SafetyStop(archive[i])
     \/ day > 1)

=============================================================================

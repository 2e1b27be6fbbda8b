# Formal models of the iCPR observation toolkit

This directory holds TLA+ models of the stateful parts of the repository: what
they promise, how the code keeps it, and where it does not. TLC checks the
models on small instances; TLAPS proves the theorems for every value of the
constants. `PROJECT.json` maps every definition to the lines it models.

To repeat a run: `tlc -config <run>.cfg <module>`; to repeat the proofs:
`tlapm <module>Proofs.tla` (the attempt lifecycle has a second module of proofs,
`AttemptSealProofs`).

## The system

| Component | Where | State it keeps | Operations |
| --- | --- | --- | --- |
| Attempt lifecycle | `experiment/controller.py`, `experiment/icprlib.py` | one attempt directory (metadata, event log, capture, DNS and PF state files, manifest); the Mac: `/etc/hosts`, a PF anchor and its enable reference, tcpdump; a per-attempt lock; a watchdog process | `prepare-run`, `finish-run`, `abort-run`, `cleanup`, the watchdog's deadline, `cleanup_attempt`, `finalize_attempt` |
| Campaign admission | `experiment/controller.py` | the archive of attempts, the global lock, the frozen execution plan | `validate_prepare`, `validate_slot`, `refuse_unfinished_attempts` |
| ECS scanner | `ecs-scanner/ecs_ingress_scanner.py` | `results.csv`, `summary.txt`, a queue of worker futures | scan, checkpoint, resume, retry of pending prefixes |
| Launch gates, plan freezing | `experiment/controller.py` | plans, gate reports and their sidecars | `plan`, `pilot`, `rehearsal-check`, `gate_report` |
| Diagnostic series | `protocol-diagnostic/protocol_diag.py` | the attempts of a frozen plan of slots, the candidate snapshot, the attestations of the campaign and of the day, safety stops | checks of prepare (`campaign_preflight`, `validate_slot_request`, `verify_candidate_snapshot`), the commands that end an attempt |
| Protocol diagnostic lifecycle | `protocol-diagnostic/protocol_diag.py`, `platform_ops.py` | like the attempt lifecycle, with its own capture, DNS and firewall records | prepare, finish, abort, cleanup, watchdog |
| Origin gate | `server/h3-required/icpr-h3-origin-gate`, `protocol-diagnostic/server_gate.py`, `h3_gate.py` | an nftables table, a set element with a timeout, a systemd timer; `arm.json`, `disarm.json` at the client | arm, status, disarm, rollback |
| Retention | `server/retention/` | uploaded objects, sidecars, markers, last-success | backup, pull to the Mac, health check |
| Diagnostic evidence pairing | `protocol-diagnostic/pairing.py`, the log snapshot of `protocol_diag.py` | the copies of the origin's log on the Mac; the verdicts are a function of the evidence | snapshot, pull, pair client and server records, classify, count slots |
| Campaign evidence pipeline | `experiment/pipeline.py`, `objective_eligibility.py` | none: functions of the archive | pair, exclude with a reason, tabulate |
| Diagnostic profiles | `protocol-diagnostic/series_profile.py`, `h3_controls.py` | none | validate JSON documents |
| Egress catalogue analysis | `egress-catalog-analysis/` | none | differences and series of snapshots |
| DNS stub, server installation, infrastructure, publication checks | `experiment/helpers/`, `server/*.sh`, `infra/`, `scripts/` | files and declared resources | one-shot programs |

How they interact. `prepare-run` takes the global lock, asks admission whether
the archive and the plan allow the attempt, creates its directory and then
alters the Mac; admission reads nothing but what attempts have left in their
directories, so a lifecycle that never finalizes an attempt stops the whole
campaign. `finish-run`, `abort-run`, `cleanup`, the detached watchdog and the
error handler of `prepare-run` all run the same cleanup and finalization, and
are kept apart by the per-attempt lock. Pairing reads finalized attempts and
the server's log and captures. The protocol diagnostic repeats the lifecycle
with other records, orders its attempts by a plan of its own, and asks the
server, over SSH, to arm the origin gate and to read it before and after each
attempt; its pairing runs at any time over whatever copies of the log have
reached the Mac. The scanner and the catalogue analysis are programs of their
own.

What is hard here:

- *a process ends between an effect and its record* - an interrupt, a kill or a
  restart between `pfctl`, `install /etc/hosts` or `tcpdump` and the JSON file
  that says so; the next command has only the record to go by;
- *several processes finish one attempt* - the watchdog's deadline, a command
  typed twice, and the handler of an interrupted `prepare-run`;
- *one of several restorations fails* and the others have succeeded, and the
  command is typed again;
- *evidence is hashed, then something still writes* - an event, a running
  capture, a late record;
- *somebody else edits `/etc/hosts`* in between;
- *a checkpoint claims more than the results on disk can back*, or less;
- *a plan or a series is left with nothing it allows next*;
- *a condition that must hold for a whole series* - one snapshot, one day, one
  gate, no safety stop - is checked at some moments and may lapse between them;
- *deliveries, the deadline, the gate and the copies of the log* come in any
  order, and a verdict must not depend on which copy came first.

What makes each part correct: the attempt lifecycle alters the Mac only while
the attempt is open, seals it once, with one outcome, and gives everything
back; admission keeps one attempt open at a time and takes the plan's slots in
order, each until it succeeds or its tries are used up; the scanner never
forgets a prefix, repeats at most what a checkpoint did not cover, and
completes when restarted; the origin gate blocks for one lease at a time and no
longer than its timer; the series keeps its conditions or stops for good, and
counts each slot by its observation; pairing supports a finding only when the
evidence earns it, keeps it, and always reports a bypass.

`PROJECT.json` lists the hazards one by one with the line at which each bites.

## The modules

### AttemptLifecycle: one attempt and the Mac

Three processes, `"prepare"`, `"operator"` and `"watchdog"`, each with a program
counter `pc[p]` naming the next *effect*: one privileged command, or one
artifact written. Everything between two effects is local to a process, so a
fault between two effects is a fault anywhere the outside could tell.

| In the model | In the code |
| --- | --- |
| `files`, `perm`, `dirty` | the artifacts; 0440 and 0550 of `finalize_attempt`; whether an artifact still matches its digest |
| `events` | `events.jsonl`; an outcome stands for its `run_finished` line |
| `capState` | `capture-state.json` |
| `dnsState`, `baseline` | the marks of `dns-pin-state.json` (saved, installed, restored) and its `hosts_previous_base64` |
| `pfState` | the marks of `firewall-state.json` (active, token, unparsed, loaded, cleared, released, restored) |
| `hosts` | whether the pin is in `/etc/hosts`, and which version of everything else |
| `tcpdump`, `pfRule`, `pfRef` | what runs and what PF holds |
| `lock` | `runtime/locks/<attempt>.lock` |
| `mem` | what a process has read and still acts on: cleanup's error, the record it will write back |
| `plan` | unpinned, pinned (`/etc/hosts` only), fallback (PF rule, then `/etc/hosts`) |

The actions follow the code's order: `Prepare`, `PrepareRecord`,
`PrepareCapture`, `PfEnable`, `PfApply`, `HostsRead` .. `HostsMark`,
`PrepareLaunch`, `StartWatchdog`, `OpenSafari`; the handler (`PrepareFails`,
`Interrupt`, `PrepareHandler`, `PrepareErrorDetected`); `cleanup_attempt`
(`SnapshotPf`, `StopCapture` .. `RemoveCapturePid`, `HostsDecide` ..
`HostsConfirm`, `PfDecide`, `PfRestore`, `CleanupFails`, `Cleaned`), in which a
failed operation skips to the next one (`AfterError`); the commands
(`Command`, `CommandLocked`, `CommandBegin`, `PreCaptureAbort`, `Recover`); the
closing steps (`RecordedStop`, `StopWatchdog`, `LogStopped`, `LogFinished`,
`FreezeArtifacts`, `WriteManifest`, `CloseDirectory`); and the watchdog
(`WatchdogWakes`, `WatchdogLocked`).

The environment: a command fails (`PrepareFails`, `CleanupFails`), the token of
`pfctl -E` cannot be parsed, prepare-run gets SIGTERM or Ctrl-C (`Interrupt`),
a process is killed, the Mac restarts (which ends the capture and forgets PF,
and keeps the files), another program edits `/etc/hosts`, and a running tcpdump
goes on writing `client.pcap`.

### AttemptContract: what an attempt promises

An attempt is absent, open, then sealed with an outcome. An override of
`/etc/hosts` or of PF is *owed* before it is made, may be undone only while the
attempt is open, and an attempt is sealed only when nothing is owed and nothing
is altered. `MCAttemptLifecycle` maps the files and the Mac to it
(`KeepsContract`): owed is "a state file without `restored_utc`".

### Campaign, CampaignPlan: which attempts may start

`Campaign` models `prepare-run` from the global lock to the added attempt, one
step for each check: `Ask`, `CheckUnfinished`, `CheckSlot`, `AddAttempt`,
`Return`, or `GiveUp` at any point before the attempt exists. What happens
inside an attempt is the previous module; here it is open until `Finalize`.
`Duplicate`, `RetryAllowed`, `PlanAllows` and `SlotComplete` are the parts of
`validate_slot` and `slot_is_complete`. `CampaignPlan` is what a frozen plan
promises: slots in order, each tried until it succeeds or its tries are used
up. `MCCampaign` maps the attempts under a plan to it (`FollowsPlan`).

### EcsScan: a scan that is resumed

The main thread of one run (`Start`, `WriteHeader`, `RetryPending`, `Retried`,
`RetriesDone`, `Fill`, `Take`, `Commit`, `Decide`, `Finish`), its checkpoint in
four steps (`CheckpointSync`, `CheckpointWrite`), and the output directory that
outlives it: what the page cache holds (`results`, `summary`) and what the disk
holds (`synced`, `durable`). Prefixes are the numbers 1..N. Worker threads
compute answers nobody sees before the main thread takes them in input order,
so an answer is chosen there; `sent` remembers which prefixes a worker had been
given. Ctrl-C is caught where the code catches it, a killed process leaves the
page cache, a power failure leaves any prefix of what was not synced.

### DiagnosticLifecycle: one attempt of the protocol diagnostic

The same three processes over `protocol_diag.py` and `platform_ops.py`, and a
cleanup rehearsal as a third plan. The records differ: an effect is announced
(`prepared`, `enabling`, `loading`, `clearing`, `started`) before it is tried
and marked when it has returned, and cleanup infers from both what an
interrupted process did. `StartCapture`, `PfPrepare`, `PfApply`, `PinHosts` and
`Launch` are prepare; `PrepareHandler` its handler, which takes no lock;
`StopCapture`, `SignalCapture`, `RecordCaptureStop`, `SnapshotPf`,
`RestoreHosts`, `InstallBaseline`, `ConfirmHosts`, `RestorePf`, `ReleasePf` are
the four restorations of `cleanup_attempt`; `CommandBegin`, `StopWatchdog`,
`Validate`, `LogFinished`, `Finalize` and `Recover` the commands. `capture` is
the tree of processes that `sudo tcpdump` becomes (`CaptureRefused` is the
matching of command lines), `pfOutput` the retained output of `pfctl -E`,
`reused` the recorded PIDs that belong to another process after a restart.
`MCDiagnosticLifecycle` maps it to `AttemptContract`, like the other lifecycle.

### OriginGate, GateLease: the server's TCP block

`OriginGate` has one helper process per command, each `nft`, `systemctl` or
`systemd-run` call a step, and a client that waits for the answer, writes the
evidence (`arm.json`, ...) or gives up after 30 seconds without the helper
noticing (`GiveUp`). `rules`, `left`, `loaded` and `timer` are the table, the
element's timeout and the transient timer; `Tick` is time, `Rollback` what the
timer starts. `GateLease` is the promise: in a table of its own a block lasts
at most `Life`, is never prolonged, and a new one begins after the last has
ended. `KeepsLease` is the refinement, with `table <- rules > 0`. The two
modules below use `GateLease` in place of the gate.

### DiagnosticSeries: an H3-required series

The attempts of a series as later checks read them: slot, retry, snapshot, day,
how it ended, whether a condition changed or a safety-stop code was given
(`changed`), what its `response.json` says that stops the series (`alarm`), and
whether `dns-pin-state.json` exists (`pinned`). `Ask`, `Settle`, `Create`,
`PrepareEnds` and `Interrupted` are prepare under the controller's lock - the
checks, the day it settles on, the gate's reading with the new directory, the
stage that fails - and `Finish`, `FinishTorn`, `Abort` and `Recover` the
commands and the watchdog. `SafetyStop`, `SlotComplete` and `SlotAllowed` are
`safety_stop_reasons`, `slot_complete` and `validate_slot_request`; `Counted`
is the choice of `summarize_h3_required`. Around it the operator freezes
snapshots, attestations are written and lapse, the UTC day changes and the gate
runs through its lease. `FollowsPlan` is a refinement of `CampaignPlan` - the
same abstract plan as the campaign's, with a latched safety stop for an ending
that nothing may follow.

### DiagnosticEvidence: what pairing makes of an attempt

One attempt from the reset of the proxy to the sealed directory, the packets of
its outer connections in the order in which the capture holds them
(`OuterPacket`, `DroppedPacket`, `DirectPacket`), the deliveries the origin logs
(`Deliver`), the two gate readings, `Finish`, `Seal` and `Refuse`; the snapshot
of the active log and the pull of the archive (`Snapshot`, `Pull`); and `Pair`,
which may run after any of them and applies `exact_caddy_pair` (`Selected`),
`client_contacts` (`Contacts`, `Steps`), `validate_origin_gate_evidence`,
`classify_h3_required_trial` (`Classify`) and `gate_acceptance_by_lifecycle`
(`Lifecycle`). Time has three values - before the reset, until the first
delivery, after it - because those are the two limits of the attribution
window.

## What the runs check

| Run | Question |
| --- | --- |
| `life_faults` | With two faults of any kind but signals and one foreign edit: is every alteration on record first (`WriteAhead`), does a sealed attempt match its manifest (`EvidenceIntact`), has it given everything back (`SealedIsRestored`), is the contract kept (`KeepsContract`)? |
| `life_concurrent` | When commands and the deadline overlap a running `prepare-run`: does the lock serialise cleanup and finalization (`Exclusive`), is one outcome logged (`OneOutcome`), does the log stay as the manifest hashed it (`LogClosed`)? |
| `life_liveness` | After an interrupt at any point: does the watchdog finalize the attempt of an operator who is gone (`WatchdogSeals`), does abort-run, typed again and again (`AbortSeals`)? |
| `life_orphan_capture` | One statement of the guide, refuted: see Findings. |
| `diag_faults` | One diagnostic attempt or rehearsal under two faults: is every effect announced before it is tried (`AnnouncedFirst`), does cleanup infer rightly what was interrupted (`SealedIsRestored`, `KeepsContract`), does a counted success have its whole capture (`SuccessHasCapture`)? |
| `diag_liveness` | With one fault: does cleanup, typed again and again, finalize whatever is not in one of the states the code refuses to interpret (`CleanupSeals`); is a launched attempt finalized when nothing fails (`WatchdogSeals`)? |
| `gate` | Two helpers, two faults of different kinds: does the gate keep its lease (`KeepsLease`), is a target always timed (`TargetIsTimed`), can the operator get it armed from any state (`GetsArmed`)? |
| `series` | Two slots of two tries, two snapshots, two days: does whatever stops the series stop it for good, and are the slots taken as planned (`FollowsPlan`); is every attempt under one snapshot on its day (`SameConditions`); is an observation what its slot counts by (`CountsObservations`); does a persistent operator get to the end (`SeriesCompletes`)? |
| `evidence` | One attempt, two connections, two deliveries, two oddities: is support earned (`SupportIsEarned`), is the strong endpoint backed by one TCP fallback in the window (`StrongNeedsFallback`), does another copy of the same log never take support back (`SupportIsKept`), is a bypass reported whatever else is wrong (`BypassStops`)? |
| `camp_order` | Two operators, two campaigns, two plans for one of them, attempts without a plan and unreadable ones: `AtMostOneOpen`, `SuccessIsFinal`, `FollowsPlan`. |
| `camp_progress` | Can the operator of a plan always go on, whatever the outcomes (`PlanCompletes`)? |
| `scan_checkpoint` | With up to three faults of any kind: is every checkpoint backed by answers on disk (`CheckpointBacked`), is a completed scan complete (`CompletedIsComplete`), is redundant work bounded as documented (`RedundantBound`, `RepeatsAreBounded`), does a scan that is typed again complete (`Completes`)? |

For every property of a passing run `PROJECT.json` names a mutated definition,
standing in the module above the one it mutates (`Mutant: ...`), under which
the same run finds the property violated.

### Bounds, and why they are enough

- `MaxFaults` is 1 or 2 for an attempt. What a fault leaves is visible in the
  files and the Mac only; every record has at most three effects between two
  writes, and two faults cover a fault in prepare and another in the cleanup
  that repairs it, or one in each of two cleanups. Commands are not bounded:
  the operator types any number of them.
- `MaxEdits = 1`: the comparison in `HostsDecide` tells an edited file from an
  unedited one, and a second edit does not change that. An edit between the
  controller's read of `/etc/hosts` and its install, which is lost, is left out
  (`BetweenReadAndInstall`).
- `Concurrent = FALSE` in `life_faults` and `life_liveness`: commands start after
  `prepare-run` has ended, as the operator's guide has it. `life_concurrent`
  drops that for the lock, the outcome and the log. What is *not* shown is that
  the records stay right when a `finish-run` overlaps the *body* of
  `prepare-run`, which does not hold the attempt's lock there.
- `DiagnosticLifecycle`: commands and the deadline come after prepare has ended
  (the grace is 600 seconds, the handler's work far less), and beside each
  other. Only an attempt whose URL was opened has a response. Recorded PIDs
  name other processes only after a restart. The events of `events.jsonl` other
  than `run_finished` are not kept, since nothing reads them. `diag_liveness`
  has the blocked condition only, which runs every part of cleanup.
- `gate`: time passes only while no helper runs - their calls take seconds, a
  lease 1,800 - each kind of fault happens once, and two helpers suffice for
  one that was given up to meet its successor. `Life = Minimum = 2`: the only
  valid gate is one that has just been armed; `series` and `evidence` have the
  other gates.
- `series`: `Life = Minimum = 1`, so that a gate can lapse between any two
  attempts and within one; it does not lapse while prepare runs, which takes
  less than a unit of the clock (the code asks for 180 of 1,800 seconds to be
  left). Two days are one midnight, and a series never continues after it. The
  outcomes that nothing distinguishes later are one (`"other"`). The campaign's
  attestation, once valid, stays valid.
- `evidence`: `MaxOddities = 2` bounds how often a behaviour leaves the expected
  course (a packet before the reset or after the delivery, a second delivery,
  a lapse of the gate, a refused or premature end, ...), so that all pairs of
  them happen. A second delivery comes from where the first came and by the
  same protocol. Connections to candidates without a known hostname are left
  out, as pairing leaves them out of every count.
- `camp_order` has two slots and two tries, and archives of up to four attempts
  (`SmallArchive`): as many as one plan can have. `camp_progress` is not
  bounded further.
- `scan_checkpoint` has three prefixes, a queue of two and two consecutive
  failures: the queue is full, partly full and empty, a scope covers none, some
  and all of what follows, and a run stops on failures in its retries and in
  its input. Three faults let two runs in a row stop and a third lose what the
  disk had not synced.

Deadlock is checked everywhere but in four runs, where the system really stops:
in `life_faults` and `diag_*` a prepare killed before `metadata.json`, or a
rehearsal, leaves a directory that no command knows of, and in
`scan_checkpoint` a torn `summary.txt` makes every later run refuse the
directory. In `evidence` pairing may always run again, in `series` the operator
may always attest anew.

### Fairness

- `AttemptLifecycle!FairSpec`, `DiagnosticLifecycle!FairSpec`: weak fairness of
  each process's own steps - a process that is not killed goes on, and the
  watchdog's deadline passes (it sleeps for a finite time) - and, in the second,
  of a signalled capture's end. No command has to be typed: `AbortSeals` and
  `CleanupSeals` have the operator's persistence as a premise, and nothing has
  to fail.
- `OriginGate!FairSpec`: helpers go on, systemd starts what is due (weak), and
  time passes between commands although they are typed again and again (strong
  fairness of `Tick`, which a running helper disables).
- `DiagnosticSeries!FairSpec`: the operator freezes a snapshot, keeps the
  attestation of the day and the gate valid, and keeps asking for every slot and
  retry while the gate is valid; prepare goes on, the watchdog or cleanup ends
  what is open. Strong fairness stands where a step is enabled again and again
  but not all the time: the attestation grows too old, the gate lapses, prepare
  is interrupted. This is the premise of `SeriesCompletes`, not a claim about
  operators.
- `Campaign!FairSpec`: a started command goes on; an open attempt is finalized
  in the end (what `life_liveness` is about); the operator keeps asking for
  every slot and retry. The last is strong fairness, for the lock is taken and
  released in between; it is the premise of `PlanCompletes`.
- `EcsScan!FairSpec`: a running scan goes on, and the command is typed again
  whenever a run has ended ("run the exact same scanner command again").

`evidence` has no liveness property: nothing obliges anybody to pair.

## What is proved

Every component has a module of theorems. Each uses the assumptions its model
states about the constants (`ConstantsAssumption`, `GateAssumption`,
`SeriesAssumption`, `EvidenceAssumption`: numbers are natural, faults are known
ones) and, for four theorems about the attempt lifecycle and one about plans, a
hypothesis given below. So they are about any number of faults, edits,
operators, helpers, plans, slots, retries, days, prefixes, connections and
deliveries. Every invariant and every action or refinement property of the runs
but the liveness properties is the statement of a theorem.

`AttemptLifecycleProofs`, `AttemptSealProofs`:

- `TypeCorrect` (`TypeOK`). `TypeOK` is not inductive: that `dns-pin-state.json`
  never records an installation without its baseline depends on what each
  process carries in `mem`. The invariant adds that what a process is about to
  write back, or write next, extends what it has read.
- `WriteAheadHolds` (`WriteAhead`). The strengthening says where each alteration
  stands in `prepare-run`: past the label at which the override is installed or
  the rule is loaded, its record is there already; and no cleanup, in whichever
  process, removes a record, it only adds marks.
- `MutualExclusion` (`Exclusive`): the labels of cleanup and closing are entered
  with the lock and left only by giving it up. A fault drops the lock exactly
  when it ends the holder.
- `LogStaysClosed` (`LogClosed`): once the manifest exists the artifacts are
  read-only, so no append succeeds. The invariant ties the manifest to `perm`,
  and needs `MutualExclusion`: only the holder of the lock writes the manifest,
  after it has frozen the artifacts itself.
- `SealedRestores` (`SealedIsRestored`), `EvidenceMatches` (`EvidenceIntact`) and
  `ContractKept` (`KeepsContract`), under `Sequential`: no signal interrupts
  `prepare-run` and no command overlaps it, which is what `life_faults` has. The
  hypothesis is needed: `life_orphan_capture` is the state a signal leads to.
  Nothing on the Mac says how far a cleanup is, so the invariant (`SeqInv`) says
  it label by label: what `prepare-run` has begun (`Fresh`, `BegunCapture`,
  `BegunPf`, `BegunHosts`), what a process that has met no error has undone
  (`CaptureUndone`, `HostsUndone`, `PfUndone`), that nothing is written after it
  is hashed (`Intact`), and that the outcome comes first (`Concluded`). A
  capture that `capture.pid` does not name is left by a kill, and nobody
  finalizes such an attempt: that clause of `CaptureUndone` is why kills need no
  hypothesis.
- `OutcomeOnce` (`OneOutcome`), under `Unkilled`: no kill and no restart, but any
  overlap, signal and failure. Whoever has logged the outcome goes on to the
  manifest under the lock; a kill in between is the case described in Findings.

`DiagnosticLifecycleProofs`: `AlterationsAnnounced` (`AnnouncedFirst`),
`SealedRestores` (`SealedIsRestored`), `SuccessCaptured` (`SuccessHasCapture`) and
`ContractKept` (`KeepsContract`), for every plan, fault and number of faults,
interrupts and kills included: this lifecycle announces the capture before it
exists, and refuses what it cannot infer. The invariant has the same four parts
- who may work (`Exclusive`), what prepare has put on record at each label
(`Begun`, `Announced`), what the cleanup has restored at each (`Undone`,
`Settled`), and what became of the capture (`Watched`): a capture that died by
itself is found out before it is recorded as stopped.

`CampaignProofs`:

- `TypeCorrect`, `OneAttemptAtATime` (`AtMostOneOpen`), `SuccessStays`
  (`SuccessIsFinal`): whoever is past `CheckUnfinished` holds the lock, and until
  it adds its attempt nobody can open another, so what it has checked is still
  true; likewise for what `validate_slot` has read of the slot, since finalizing
  changes open attempts only and there is none.
- `AttemptsFollowPlan` (`FollowsPlan`), for `p1` and `p2` that are not "no plan".
  The refinement looks at the latest attempt under a plan only, so it needs that
  the attempts of a plan lie in the plan's order (`Orderly`). Then the latest
  one has the highest retry of the latest slot, and `PlanAllows` and
  `RetryAllowed` leave a request one of two places to go (`PlanAdvances`).

`EcsScanProofs`:

- `TypeCorrect` (`TypeOK`), `CheckpointsAreBacked` (`CheckpointBacked`),
  `CompletedAccountsForAll` (`CompletedIsComplete`). A checkpoint is a copy of
  memory, so the invariant has two halves: what a running scan holds in memory
  is backed by `results.csv` as it is (`MemoryBacked`), what either `summary.txt`
  holds is backed by what is synced (`DiskBacked`); between them, a checkpoint
  that is about to write has synced (`SyncedFirst`). For a prefix skipped inside
  a scope the rows must cover everything up to `skip`, not only up to `last`.
  That nothing is skipped in between is `QueueFollows` (the queue is the input
  right after `last`), that a row is for the prefix it is credited to is
  `AnswerInHand`, and that a completed scan has reached the end needs the queue
  to be filled whenever it has room (`Running`).
- `RedundantBounded` (`RedundantBound`): a fill that appends anything appends a
  last prefix outside every known scope; a scope learnt later comes with a
  `Commit`, which takes one prefix off the queue.
- `RepeatsBounded` (`RepeatsAreBounded`), by the order of the three states of a
  scan (`InOrder`): memory is never behind `summary.txt`, nor that behind its
  synced version. `Started` settles the case of a missing `summary.txt`, which
  only a directory without results may have when a run starts; `RetriesListed`
  the prefixes that are retried.

`OriginGateProofs`: `TypeCorrect` (`TypeOK`); `GateIsLease`, the safety part of
`KeepsLease`, from an invariant that a helper at work on an arm sees a target
with all of its timeout or none (`FreshTarget`), since no time passes meanwhile;
`TargetTimed` (`TargetIsTimed`), from the fact that without a client that has
given up one helper works at a time (`OneHelper`).

`DiagnosticSeriesProofs`: `TypeCorrect` (`TypeOK`), `OneSnapshotOneDay`
(`SameConditions`), `ObservationsCount` (`CountsObservations`), `SeriesFollowsPlan`
(`FollowsPlan`). Between the checks and the new attempt only the clock moves, so
what was checked still holds (`Checked`), but for the day, on which `Settle`
insists again. Only the latest attempt may have stopped the series (`Settled`),
and the attempts lie in the plan's order, each try after a technical failure
(`Ordered`, `Contiguous`). The bound of the archive in `TypeOK` is the number of
places the plan has up to the latest attempt (`Position`).

`DiagnosticEvidenceProofs`: `SupportEarned` (`SupportIsEarned`), from two facts about
the gate that survive whatever comes in between - a delivery that found TCP open
means a lapsed gate until it is armed anew (`Lapsed`), and an attempt with
unchanged conditions ended behind a valid one (`GateRead`); `SupportKept`
(`SupportIsKept`), from the fact that what supported once still does while the log
holds one delivery (`StillSupports`); `StrongByFallback` (`StrongNeedsFallback`) and
`BypassReported` (`BypassStops`), from what `Classify` and `Lifecycle` compute.

Only model-checked: the liveness properties (`WatchdogSeals`, `AbortSeals`,
`CleanupSeals`, `PlanCompletes`, `GetsArmed`, `Completes`, `SeriesCompletes`) and
the fairness part of `KeepsLease`, that a block ends. Fairness is beyond the
prover.

## Findings

`life_orphan_capture` violates one property, which states what the guide says of
the program ("Always finish or abort through the controller so cleanup runs"):
SIGTERM between the start of tcpdump and `capture.pid` leaves a finalized
attempt whose capture runs on; the handler sees nothing to clean up.

Facts that the models contain, or exclude by a guard, and that no run singles
out:

- A process killed between `run_finished` and the manifest
  (`controller.py:2344`) leaves an attempt to which the next command adds a
  second outcome; the reader of outcomes (`controller.py:1691`) then refuses the
  attempt for good. `OneOutcome` is checked and proved without kills. The diagnostic's
  `cleanup` finds the first outcome and keeps it (`protocol_diag.py:2121`); its
  finish, abort and watchdog do not.
- A cache flush that fails after `/etc/hosts` was restored (`controller.py:754`)
  makes every later cleanup report a concurrent change that nobody made.
- `/etc/hosts` is compared and replaced in two commands (`controller.py:734`): an
  edit in between is lost.
- A signal between `pfctl -E` and the first write of `firewall-state.json` leaves
  the enable reference held after the attempt is finalized, which is why
  `SealedIsRestored` speaks of the reference of attempts with that file.
- `summary.txt` of the scanner is truncated and rewritten in place (line 171): a
  process that ends in between leaves a directory that every later run refuses.
  And as many prefixes as `--max-consecutive-failures`, refused by the server
  for good, stop every later scan in its retries before it reads new input,
  which is why `Completes` is stated for finitely many failures.
- In the diagnostic, an interrupt between the start of tcpdump and its PID leaves
  a capture whose command line matches several processes, and a killed `pfctl`
  call an ambiguous record: cleanup refuses both for ever (`Stuck`). A killed
  rehearsal lies where no command looks.
- Finish and abort of the diagnostic stop the watchdog before validations that
  may refuse them (`protocol_diag.py:1972`); only the operator can end the
  attempt then.
- `response.json` is stored before later steps of finish-run may still refuse
  (`protocol_diag.py:1931`). `success` can never be typed again: with a response
  file the command is refused because one exists, without one it is refused
  because success needs it. A response with the own address stops the series
  all the same, which is part of `FollowsPlan`.
- A finish typed with less than 180 seconds of the gate left is a safety stop for
  the whole series, whatever the response was.
- A gate disarmed and armed anew between the two readings of an attempt goes
  undetected, and so does a new one between two attempts: the plan has
  `origin_gate_constant_across_series` (`examples/h3-required-plan.json:20`), and
  no code compares sessions or arm hashes. `SupportIsEarned` therefore excepts an
  attempt during which the gate was armed anew.
- A prepare that fails before `apply_dns_pin` leaves no `dns-pin-state.json`;
  pairing then cannot say which slot the attempt belongs to, and when the slot
  has no other attempt `summarize_h3_required` lists it as missing for good,
  although `slot_complete` goes on to the next slot to "retain the failed slot
  as planned-but-invalid" (`protocol_diag.py:514`). When the latest retry of a
  slot is such an attempt, the one before it is counted.
- Errors in any copy of the server's log override every verdict of the pass, a
  safety stop too (`pairing.py:1518`); `BypassStops` excepts them.
- A target without its timer is possible when a helper whose client has given up
  stops the timer that a later arm has started; `TargetIsTimed` excepts that
  case, and the element's own timeout still ends the block (`KeepsLease`).

## What is not modelled

In the attempt lifecycle: the branch of `cleanup_dns` for the resolver files of
older attempts (no code writes that state any more), freshness methods and the
validation of arguments (they end `prepare-run` before it has changed anything:
`Prepare` is the case in which they pass), and the contents of evidence. In
admission: the launch gates and the UTC day. In the scanner: the `dig` command
line, the parsing of its output, counters that no decision reads, and
`unique_ingress_ips.txt`, which each run derives anew from `results.csv`. In the
diagnostic: commands beside a running prepare, `validate-pf`, the reading of
responses and evidence beyond what the outcome depends on. In the series: the
dual-protocol and response-probe plans, the contents of the attestations, the
controls of the gate's session. In pairing: attempts whose pin, feed, snapshot
or PF evidence does not verify (all of them excluded before anything else is
looked at), `classify_trial`, the response probe, the decoding of packets.

Not at all: `pipeline.py` and the catalogue analysis (single-pass functions from
files to tables, most of whose lines parse packets, compute statistics and draw
plots; what they compute is data that no process shares), launch gates and plan
freezing (one-shot checks of documents), the shell scripts of retention (what
their pull leaves on the Mac is an input of `DiagnosticEvidence`), the DNS stub
(stateless, kept for old attempts), the installation scripts, Terraform, the
checks of the public tree, and JSON profile validation.

## Plan

Done, in this order: the attempt lifecycle with its contract; admission with
the plan it implements; the scanner; the diagnostic's lifecycle against the
same contract; the origin gate and its lease; the diagnostic series, against
the same plan, behind the lease; the evidence of its attempts and their
pairing; the proofs of all safety properties, action properties and
refinements that the runs check.

Next, proofs, the most useful first:

1. `AttemptLifecycle`: weaken `Sequential`. `SealedIsRestored` should hold for
   interrupts outside the two windows of Findings (between the start of tcpdump
   and `capture.pid`, and between `pfctl -E` and `firewall-state.json`), and
   `HostsUndone` for all of them.
2. `AttemptLifecycle`: `OneOutcome` with kills that do not fall between the
   outcome and the manifest.
3. The gate's lease as `DiagnosticSeries` and `DiagnosticEvidence` use it: that
   their steps of the gate are steps of `GateLease`, so that what is proved of
   the gate carries over.

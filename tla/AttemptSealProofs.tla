--------------------------- MODULE AttemptSealProofs ---------------------------
(***************************************************************************)
(* The attempt's lock excludes, and a finalized attempt's event log is     *)
(* closed: for every set of faults, every bound, and for commands that     *)
(* overlap prepare-run.                                                    *)
(*                                                                         *)
(* A finalized attempt has undone what it did to the Mac, matches its      *)
(* manifest and keeps its contract: for every bound, kills, failures and   *)
(* restarts included, when no signal interrupts prepare-run and no command *)
(* overlaps it.  It has one outcome: for every bound, overlap, failure and *)
(* interrupt, when nobody is killed.                                       *)
(***************************************************************************)
EXTENDS AttemptLifecycleProofs, MCAttemptLifecycle, FiniteSetTheorems

\* Before run_started is logged nothing else is, and an operator who already
\* typed a command gets no further than an error or an empty cleanup.
Early == pc["prepare"] \in {"idle", "meta", "started"}
EarlyLabels == {"idle", "wantLock", "begin", "snapshot", "capture", "dns", "pf",
                "cleaned", "recorded", "stopWd", "recover"}
Untouched ==
  Early =>
    /\ events = <<>> /\ capState = "none" /\ dnsState = {} /\ pfState = {}
    /\ files \subseteq {"metadata.json"}
    /\ pc["watchdog"] = "idle"
    /\ pc["operator"] \in EarlyLabels
    /\ pc["operator"] \in {"stopWd", "recover"} => cmd = "cleanup"

\* The manifest is written after the artifacts have become read-only.
Frozen ==
  /\ Sealed => perm # "open"
  /\ \A p \in Proc : pc[p] \in {"manifest", "sidecar", "close"} => perm # "open"

\* Until prepare-run spawns it there is no watchdog, and no watchdog.pid.
BeforeWatch == {"idle", "meta", "started"} \cup (TryLabels \ {"watchPid", "open"})
Unwatched ==
  pc["prepare"] \in BeforeWatch => pc["watchdog"] = "idle" /\ "watchdog.pid" \notin files

USE DEF Proc, At, Go, LockedLabels, CleanupLabels, CaptureLabels, DnsLabels, PfLabels,
        ClosingLabels

---------------------------------------------------------------------------
\* What a step of the cleanup leaves alone, whichever process runs it.
LEMMA CleanupMoves ==
  ASSUME TypeOK, NEW p \in Proc, CleanupStep(p)
  PROVE  /\ pc[p] \in CleanupLabels
         /\ pc'[p] \in CleanupLabels \cup {"prepErr", "stopWd", "recorded", "idle", "done"}
         /\ p # "operator" => pc'[p] # "idle"
         /\ \A q \in Proc : q # p => pc'[q] = pc[q]
         /\ files' \subseteq files
         /\ UNCHANGED <<cmd, events, perm>>
<1> USE DEF TypeOK, CleanupError, AfterError, Leave, evidence, marks, mac
<1>1. CASE SnapshotPf(p) BY <1>1 DEF SnapshotPf
<1>2. CASE StopCapture(p) BY <1>2 DEF StopCapture
<1>3. CASE RecordCaptureStop(p) BY <1>3 DEF RecordCaptureStop
<1>4. CASE RemoveCapturePid(p) BY <1>4 DEF RemoveCapturePid
<1>5. CASE HostsDecide(p) BY <1>5 DEF HostsDecide
<1>6. CASE HostsRestore(p) BY <1>6 DEF HostsRestore
<1>7. CASE HostsConfirm(p) BY <1>7 DEF HostsConfirm
<1>8. CASE PfDecide(p) BY <1>8 DEF PfDecide
<1>9. CASE PfRestore(p) BY <1>9 DEF PfRestore
<1>10. CASE CleanupFails(p) BY <1>10 DEF CleanupFails
<1>11. CASE Cleaned(p) BY <1>11 DEF Cleaned
<1> QED
  BY <1>1, <1>2, <1>3, <1>4, <1>5, <1>6, <1>7, <1>8, <1>9, <1>10, <1>11
     DEF CleanupStep

---------------------------------------------------------------------------
\* The watchdog is spawned once.
LEMMA UnwatchedNext ==
  ASSUME TypeOK, Unwatched, [Next]_vars
  PROVE  Unwatched'
<1> USE DEF Unwatched, BeforeWatch, TryLabels, TypeOK
<1>1. ASSUME Environment PROVE Unwatched'
  <2>1. CASE Prepare BY <2>1 DEF Prepare, evidence
  <2>2. ASSUME NEW c \in Commands, Command(c) PROVE Unwatched'
    BY <2>2 DEF Command, evidence
  <2>3. CASE Interrupt BY <2>3 DEF Interrupt, evidence
  <2>4. CASE CaptureGrows BY <2>4 DEF CaptureGrows, procs
  <2>5. CASE EditHosts BY <2>5 DEF EditHosts, procs, evidence
  <2>6. CASE Reboot BY <2>6 DEF Reboot, evidence
  <2>7. ASSUME NEW p \in Proc, Kill(p) PROVE Unwatched'
    BY <2>7 DEF Kill, Leave, evidence
  <2> QED BY <1>1, <2>1, <2>2, <2>3, <2>4, <2>5, <2>6, <2>7 DEF Environment
<1>2. ASSUME PrepareStep PROVE Unwatched'
  <2> USE DEF evidence
  <2>1. CASE PrepareRecord BY <2>1 DEF PrepareRecord
  <2>2. CASE PrepareCapture BY <2>2 DEF PrepareCapture
  <2>3. CASE PfEnable BY <2>3 DEF PfEnable
  <2>4. CASE PfTokenUnparsed BY <2>4 DEF PfTokenUnparsed
  <2>5. CASE PfApply BY <2>5 DEF PfApply
  <2>6. CASE HostsRead BY <2>6 DEF HostsRead
  <2>7. CASE HostsSave BY <2>7 DEF HostsSave
  <2>8. CASE HostsInstall BY <2>8 DEF HostsInstall
  <2>9. CASE HostsMark BY <2>9 DEF HostsMark
  <2>10. CASE PrepareLaunch BY <2>10 DEF PrepareLaunch
  <2>11. CASE StartWatchdog BY <2>11 DEF StartWatchdog
  <2>12. CASE OpenSafari BY <2>12 DEF OpenSafari, Leave
  <2>13. CASE PrepareFails BY <2>13 DEF PrepareFails
  <2>14. CASE PrepareHandler BY <2>14 DEF PrepareHandler
  <2>15. CASE PrepareErrorDetected BY <2>15 DEF PrepareErrorDetected, Leave
  <2> QED
    BY <1>2, <2>1, <2>2, <2>3, <2>4, <2>5, <2>6, <2>7, <2>8, <2>9, <2>10, <2>11,
       <2>12, <2>13, <2>14, <2>15 DEF PrepareStep
<1>3. ASSUME OperatorStep PROVE Unwatched'
  BY <1>3 DEF OperatorStep, CommandLocked, CommandBegin, PreCaptureAbort, Recover,
     LogThen, Leave, evidence
<1>4. ASSUME WatchdogStep PROVE Unwatched'
  BY <1>4 DEF WatchdogStep, WatchdogWakes, WatchdogLocked, evidence
<1>5. ASSUME NEW p \in Proc, CleanupStep(p) PROVE Unwatched'
  BY <1>5, CleanupMoves
<1>6. ASSUME NEW p \in Proc, ClosingStep(p) PROVE Unwatched'
  <2> USE DEF LogThen, Leave, evidence
  <2>1. CASE RecordedStop(p) BY <2>1 DEF RecordedStop
  <2>2. CASE StopWatchdog(p) BY <2>2 DEF StopWatchdog
  <2>3. CASE LogStopped(p) BY <2>3 DEF LogStopped
  <2>4. CASE LogFinished(p) BY <2>4 DEF LogFinished
  <2>5. CASE FreezeArtifacts(p) BY <2>5 DEF FreezeArtifacts
  <2>6. CASE WriteManifest(p) BY <2>6 DEF WriteManifest
  <2>7. CASE CloseDirectory(p) BY <2>7 DEF CloseDirectory
  <2> QED BY <1>6, <2>1, <2>2, <2>3, <2>4, <2>5, <2>6, <2>7 DEF ClosingStep
<1>7. CASE UNCHANGED vars BY <1>7 DEF vars, procs, evidence
<1> QED BY <1>1, <1>2, <1>3, <1>4, <1>5, <1>6, <1>7 DEF Next, ProcessStep

LEMMA UnwatchedHolds == Spec => []Unwatched
<1>1. Init => Unwatched BY DEF Init, Unwatched
<1>2. TypeOK /\ Unwatched /\ [Next]_vars => Unwatched' BY UnwatchedNext
<1> QED BY <1>1, <1>2, TypeCorrect, PTL DEF Spec

---------------------------------------------------------------------------
\* The lock.  A step inside or outside of the locked region changes nothing.
LEMMA ExclusiveGo ==
  ASSUME TypeOK, Exclusive, NEW p \in Proc, NEW label, Go(p, label), UNCHANGED lock,
         pc[p] \in LockedLabels <=> label \in LockedLabels
  PROVE  Exclusive'
  BY DEF TypeOK, Exclusive

\* Whoever leaves drops the lock, if it held it.
LEMMA ExclusiveLeave ==
  ASSUME TypeOK, Exclusive, NEW p \in Proc, Leave(p)
  PROVE  Exclusive'
  BY DEF TypeOK, Exclusive, Leave

LEMMA ExclusiveError ==
  ASSUME TypeOK, Exclusive, NEW p \in Proc, CleanupError(p), UNCHANGED lock,
         pc[p] \in CleanupLabels
  PROVE  Exclusive'
<1>1. AfterError(pc[p]) \in LockedLabels BY DEF AfterError
<1> QED BY <1>1, ExclusiveGo DEF CleanupError

LEMMA ExclusiveLogThen ==
  ASSUME TypeOK, Exclusive, NEW p \in Proc, NEW event, NEW label, LogThen(p, event, label),
         pc[p] \in LockedLabels, label \in LockedLabels
  PROVE  Exclusive'
  BY ExclusiveGo, ExclusiveLeave DEF LogThen

LEMMA ExclusiveCleanup ==
  ASSUME TypeOK, Exclusive, NEW p \in Proc, CleanupStep(p)
  PROVE  Exclusive'
<1>1. CASE SnapshotPf(p) BY <1>1, ExclusiveGo DEF SnapshotPf
<1>2. CASE StopCapture(p) BY <1>2, ExclusiveGo, ExclusiveError DEF StopCapture
<1>3. CASE RecordCaptureStop(p)
  BY <1>3, ExclusiveGo, ExclusiveError DEF RecordCaptureStop
<1>4. CASE RemoveCapturePid(p)
  BY <1>4, ExclusiveGo, ExclusiveError DEF RemoveCapturePid
<1>5. CASE HostsDecide(p) BY <1>5, ExclusiveGo, ExclusiveError DEF HostsDecide
<1>6. CASE HostsRestore(p) BY <1>6, ExclusiveGo DEF HostsRestore
<1>7. CASE HostsConfirm(p) BY <1>7, ExclusiveGo, ExclusiveError DEF HostsConfirm
<1>8. CASE PfDecide(p) BY <1>8, ExclusiveGo, ExclusiveError DEF PfDecide
<1>9. CASE PfRestore(p) BY <1>9, ExclusiveGo, ExclusiveError DEF PfRestore
<1>10. CASE CleanupFails(p)
  <2>1. pc[p] \in CleanupLabels BY <1>10 DEF CleanupFails
  <2> QED BY <1>10, <2>1, ExclusiveError DEF CleanupFails
<1>11. CASE Cleaned(p) BY <1>11, ExclusiveGo, ExclusiveLeave DEF Cleaned
<1> QED
  BY <1>1, <1>2, <1>3, <1>4, <1>5, <1>6, <1>7, <1>8, <1>9, <1>10, <1>11
     DEF CleanupStep

LEMMA ExclusiveClosing ==
  ASSUME TypeOK, Exclusive, NEW p \in Proc, ClosingStep(p)
  PROVE  Exclusive'
<1>1. CASE RecordedStop(p) BY <1>1, ExclusiveGo, ExclusiveLeave DEF RecordedStop
<1>2. CASE StopWatchdog(p) BY <1>2 DEF StopWatchdog, TypeOK, Exclusive
<1>3. CASE LogStopped(p)
  BY <1>3, ExclusiveGo, ExclusiveLeave, ExclusiveLogThen DEF LogStopped
<1>4. CASE LogFinished(p) BY <1>4, ExclusiveLogThen DEF LogFinished
<1>5. CASE FreezeArtifacts(p) BY <1>5, ExclusiveGo, ExclusiveLeave DEF FreezeArtifacts
<1>6. CASE WriteManifest(p) BY <1>6, ExclusiveGo DEF WriteManifest
<1>7. CASE CloseDirectory(p) BY <1>7, ExclusiveLeave DEF CloseDirectory
<1> QED BY <1>1, <1>2, <1>3, <1>4, <1>5, <1>6, <1>7 DEF ClosingStep

\* prepare-run holds the lock in its error handler only.
LEMMA ExclusivePrepare ==
  ASSUME TypeOK, Unwatched, Exclusive, PrepareStep
  PROVE  Exclusive'
<1> USE DEF TryLabels
<1>1. CASE PrepareRecord BY <1>1, ExclusiveGo DEF PrepareRecord
<1>2. CASE PrepareCapture BY <1>2, ExclusiveGo DEF PrepareCapture
<1>3. CASE PfEnable BY <1>3, ExclusiveGo DEF PfEnable
<1>4. CASE PfTokenUnparsed BY <1>4, ExclusiveGo DEF PfTokenUnparsed
<1>5. CASE PfApply BY <1>5, ExclusiveGo DEF PfApply
<1>6. CASE HostsRead BY <1>6, ExclusiveGo DEF HostsRead
<1>7. CASE HostsSave BY <1>7, ExclusiveGo DEF HostsSave
<1>8. CASE HostsInstall BY <1>8, ExclusiveGo DEF HostsInstall
<1>9. CASE HostsMark BY <1>9, ExclusiveGo DEF HostsMark
<1>10. CASE PrepareLaunch BY <1>10, ExclusiveGo DEF PrepareLaunch
<1>11. CASE StartWatchdog 
  BY <1>11 DEF StartWatchdog, Unwatched, BeforeWatch, TypeOK, Exclusive
<1>12. CASE OpenSafari BY <1>12, ExclusiveLeave DEF OpenSafari
<1>13. CASE PrepareFails BY <1>13, ExclusiveGo DEF PrepareFails
<1>14. CASE PrepareHandler BY <1>14 DEF PrepareHandler, Acquire, TypeOK, Exclusive
<1>15. CASE PrepareErrorDetected BY <1>15, ExclusiveLeave DEF PrepareErrorDetected
<1> QED
  BY <1>1, <1>2, <1>3, <1>4, <1>5, <1>6, <1>7, <1>8, <1>9, <1>10, <1>11, <1>12,
     <1>13, <1>14, <1>15 DEF PrepareStep

LEMMA ExclusiveNext ==
  ASSUME TypeOK, Unwatched, Exclusive, [Next]_vars
  PROVE  Exclusive'
<1>1. ASSUME Environment PROVE Exclusive'
  <2>1. CASE Prepare BY <2>1, ExclusiveGo DEF Prepare
  <2>2. ASSUME NEW c \in Commands, Command(c) PROVE Exclusive'
    BY <2>2, ExclusiveGo DEF Command
  <2>3. CASE Interrupt BY <2>3 DEF Interrupt, TryLabels, TypeOK, Exclusive
  <2>4. CASE CaptureGrows BY <2>4 DEF CaptureGrows, procs, Exclusive
  <2>5. CASE EditHosts BY <2>5 DEF EditHosts, procs, Exclusive
  <2>6. CASE Reboot BY <2>6 DEF Reboot, Exclusive
  <2>7. ASSUME NEW p \in Proc, Kill(p) PROVE Exclusive'
    BY <2>7, ExclusiveLeave DEF Kill
  <2> QED BY <1>1, <2>1, <2>2, <2>3, <2>4, <2>5, <2>6, <2>7 DEF Environment
<1>2. ASSUME OperatorStep PROVE Exclusive'
  <2>1. CASE CommandLocked BY <2>1 DEF CommandLocked, Acquire, TypeOK, Exclusive
  <2>2. CASE CommandBegin BY <2>2, ExclusiveGo, ExclusiveLeave DEF CommandBegin
  <2>3. CASE PreCaptureAbort BY <2>3, ExclusiveLogThen DEF PreCaptureAbort
  <2>4. CASE Recover BY <2>4, ExclusiveLogThen, ExclusiveLeave DEF Recover
  <2> QED BY <1>2, <2>1, <2>2, <2>3, <2>4 DEF OperatorStep
<1>3. ASSUME WatchdogStep PROVE Exclusive'
  <2>1. CASE WatchdogWakes BY <2>1, ExclusiveGo DEF WatchdogWakes
  <2>2. CASE WatchdogLocked BY <2>2 DEF WatchdogLocked, TypeOK, Exclusive
  <2> QED BY <1>3, <2>1, <2>2 DEF WatchdogStep
<1>4. CASE UNCHANGED vars BY <1>4 DEF vars, procs, Exclusive
<1> QED
  BY <1>1, <1>2, <1>3, <1>4, ExclusivePrepare, ExclusiveCleanup, ExclusiveClosing
     DEF Next, ProcessStep

\* Everything that cleans up or finalizes an attempt, in any of the three
\* processes, runs under the attempt's lock, and nothing else does
\* (acquire_lifecycle_lock in _finish, cmd_abort, cmd_cleanup, cmd_watchdog and
\* prepare-run's handler).
THEOREM MutualExclusion == Spec => []Exclusive
<1>1. Init => Exclusive BY DEF Init, Exclusive
<1>2. TypeOK /\ Exclusive /\ Unwatched /\ [Next]_vars => Exclusive' BY ExclusiveNext
<1> QED BY <1>1, <1>2, TypeCorrect, UnwatchedHolds, PTL DEF Spec

---------------------------------------------------------------------------
\* Before run_started, the steps of an impatient operator change nothing.
LEMMA UntouchedNext ==
  ASSUME TypeOK, Untouched, [Next]_vars
  PROVE  Untouched'
<1> SUFFICES ASSUME Early' PROVE Untouched' BY DEF Untouched
<1> USE DEF Untouched, Early, EarlyLabels, TypeOK
<1>1. CASE Environment
  <2>1. CASE Prepare BY <2>1 DEF Prepare, evidence, marks
  <2>2. ASSUME NEW c \in Commands, Command(c) PROVE Untouched'
    BY <2>2 DEF Command, evidence, marks
  <2>3. CASE Interrupt BY <2>3 DEF Interrupt
  <2>4. CASE CaptureGrows BY <2>4 DEF CaptureGrows, procs, marks
  <2>5. CASE EditHosts BY <2>5 DEF EditHosts, procs, evidence, marks
  <2>6. CASE Reboot BY <2>6 DEF Reboot
  <2>7. ASSUME NEW p \in Proc, Kill(p) PROVE Untouched'
    BY <2>7 DEF Kill, Leave, evidence, marks
  <2> QED BY <1>1, <2>1, <2>2, <2>3, <2>4, <2>5, <2>6, <2>7 DEF Environment
<1>2. CASE PrepareStep
  <2>1. PrepareRecord
    BY <1>2 DEF PrepareStep, TryLabels, PrepareCapture, PfEnable, PfTokenUnparsed,
       PfApply, HostsRead, HostsSave, HostsInstall, HostsMark, PrepareLaunch,
       StartWatchdog, OpenSafari, PrepareFails, PrepareHandler, PrepareErrorDetected,
       Leave
  <2> QED BY <2>1 DEF PrepareRecord, marks
<1>3. CASE OperatorStep
  <2>1. CASE CommandLocked BY <2>1 DEF CommandLocked, evidence, marks
  <2>2. CASE CommandBegin
    <3>1. events = <<>> BY <2>2 DEF CommandBegin, Leave
    <3>2. ~PreCapture BY <3>1 DEF PreCapture, Logged
    <3> QED BY <2>2, <3>2 DEF CommandBegin, Leave, evidence, marks
  <2>3. CASE PreCaptureAbort BY <2>3 DEF PreCaptureAbort, LogThen, Leave, marks
  <2>4. CASE Recover
    <3>1. ~Logged("prepare_error_detected") BY <2>4 DEF Recover, Logged, LogThen, Leave
    <3> QED BY <2>4, <3>1 DEF Recover, Leave, marks
  <2> QED BY <1>3, <2>1, <2>2, <2>3, <2>4 DEF OperatorStep
<1>4. CASE WatchdogStep
  BY <1>4 DEF WatchdogStep, WatchdogWakes, WatchdogLocked
<1>5. ASSUME NEW p \in Proc, CleanupStep(p) PROVE Untouched'
  <2>1. p = "operator" /\ Early BY <1>5, CleanupMoves
  <2> USE <2>1 DEF CleanupError, AfterError, Leave, evidence, marks
  <2>2. CASE SnapshotPf(p) BY <2>2 DEF SnapshotPf
  <2>3. CASE StopCapture(p) BY <2>3 DEF StopCapture
  <2>4. CASE HostsDecide(p) BY <2>4 DEF HostsDecide
  <2>5. CASE PfDecide(p) BY <2>5 DEF PfDecide
  <2>6. CASE Cleaned(p) BY <2>6 DEF Cleaned
  <2>7. CASE CleanupFails(p) BY <2>7 DEF CleanupFails
  <2> QED
    BY <1>5, <2>2, <2>3, <2>4, <2>5, <2>6, <2>7 DEF CleanupStep, RecordCaptureStop,
       RemoveCapturePid, HostsRestore, HostsConfirm, PfRestore
<1>6. ASSUME NEW p \in Proc, ClosingStep(p) PROVE Untouched'
  <2> USE <1>6 DEF LogThen, Leave, evidence, marks
  <2>1. CASE RecordedStop(p) BY <2>1 DEF RecordedStop
  <2>2. CASE StopWatchdog(p) BY <2>2 DEF StopWatchdog
  <2>3. CASE LogStopped(p) BY <2>3 DEF LogStopped
  <2>4. CASE LogFinished(p) BY <2>4 DEF LogFinished
  <2>5. CASE FreezeArtifacts(p) BY <2>5 DEF FreezeArtifacts
  <2>6. CASE WriteManifest(p) BY <2>6 DEF WriteManifest
  <2>7. CASE CloseDirectory(p) BY <2>7 DEF CloseDirectory
  <2> QED BY <2>1, <2>2, <2>3, <2>4, <2>5, <2>6, <2>7 DEF ClosingStep
<1>7. CASE UNCHANGED vars BY <1>7 DEF vars, procs, evidence, marks
<1> QED BY <1>1, <1>2, <1>3, <1>4, <1>5, <1>6, <1>7 DEF Next, ProcessStep

---------------------------------------------------------------------------
\* What a step of the finalization does to the artifacts, and to the log.
LEMMA ClosingMoves ==
  ASSUME TypeOK, Frozen, NEW p \in Proc, ClosingStep(p)
  PROVE  Frozen' /\ (Sealed => events' = events)
<1> USE DEF TypeOK, Frozen, Sealed, LogThen, Leave, MayAppend, evidence
<1>1. CASE RecordedStop(p) BY <1>1 DEF RecordedStop
<1>2. CASE StopWatchdog(p) BY <1>2 DEF StopWatchdog
<1>3. CASE LogStopped(p) BY <1>3 DEF LogStopped
<1>4. CASE LogFinished(p) BY <1>4 DEF LogFinished
<1>5. CASE FreezeArtifacts(p) BY <1>5 DEF FreezeArtifacts
<1>6. CASE WriteManifest(p) BY <1>6 DEF WriteManifest
<1>7. CASE CloseDirectory(p) BY <1>7 DEF CloseDirectory
<1> QED BY <1>1, <1>2, <1>3, <1>4, <1>5, <1>6, <1>7 DEF ClosingStep

LEMMA PrepareMoves ==
  ASSUME TypeOK, Untouched, Frozen, PrepareStep
  PROVE  Frozen' /\ (Sealed => events' = events)
<1> USE DEF TypeOK, Frozen, Sealed, Leave, MayAppend, evidence, TryLabels
<1>1. CASE PrepareRecord BY <1>1 DEF PrepareRecord, Untouched, Early
<1>2. CASE PrepareCapture BY <1>2 DEF PrepareCapture
<1>3. CASE PfEnable BY <1>3 DEF PfEnable
<1>4. CASE PfTokenUnparsed BY <1>4 DEF PfTokenUnparsed
<1>5. CASE PfApply BY <1>5 DEF PfApply
<1>6. CASE HostsRead BY <1>6 DEF HostsRead
<1>7. CASE HostsSave BY <1>7 DEF HostsSave
<1>8. CASE HostsInstall BY <1>8 DEF HostsInstall
<1>9. CASE HostsMark BY <1>9 DEF HostsMark
<1>10. CASE PrepareLaunch BY <1>10 DEF PrepareLaunch
<1>11. CASE StartWatchdog BY <1>11 DEF StartWatchdog
<1>12. CASE OpenSafari BY <1>12 DEF OpenSafari
<1>13. CASE PrepareFails BY <1>13 DEF PrepareFails
<1>14. CASE PrepareHandler BY <1>14 DEF PrepareHandler
<1>15. CASE PrepareErrorDetected BY <1>15 DEF PrepareErrorDetected
<1> QED
  BY <1>1, <1>2, <1>3, <1>4, <1>5, <1>6, <1>7, <1>8, <1>9, <1>10, <1>11, <1>12,
     <1>13, <1>14, <1>15 DEF PrepareStep

LEMMA FrozenNext ==
  ASSUME TypeOK, Untouched, Frozen, [Next]_vars
  PROVE  Frozen' /\ (Sealed => events' = events)
<1> USE DEF TypeOK, Frozen, Sealed
<1>1. CASE Environment
  <2> USE DEF evidence, procs
  <2>1. CASE Prepare BY <2>1 DEF Prepare
  <2>2. ASSUME NEW c \in Commands, Command(c) PROVE Frozen' /\ events' = events
    BY <2>2 DEF Command
  <2>3. CASE Interrupt BY <2>3 DEF Interrupt
  <2>4. CASE CaptureGrows BY <2>4 DEF CaptureGrows
  <2>5. CASE EditHosts BY <2>5 DEF EditHosts
  <2>6. CASE Reboot BY <2>6 DEF Reboot
  <2>7. ASSUME NEW p \in Proc, Kill(p) PROVE Frozen' /\ events' = events
    BY <2>7 DEF Kill, Leave
  <2> QED BY <1>1, <2>1, <2>2, <2>3, <2>4, <2>5, <2>6, <2>7 DEF Environment
<1>2. CASE OperatorStep
  BY <1>2 DEF OperatorStep, CommandLocked, CommandBegin, PreCaptureAbort, Recover,
     LogThen, MayAppend, Leave, evidence
<1>3. CASE WatchdogStep
  BY <1>3 DEF WatchdogStep, WatchdogWakes, WatchdogLocked, evidence
<1>4. ASSUME NEW p \in Proc, CleanupStep(p) PROVE Frozen' /\ events' = events
  BY <1>4, CleanupMoves
<1>5. CASE UNCHANGED vars BY <1>5 DEF vars, procs, evidence
<1> QED
  BY <1>1, <1>2, <1>3, <1>4, <1>5, PrepareMoves, ClosingMoves DEF Next, ProcessStep

LEMMA FrozenHolds == Spec => [](Untouched /\ Frozen)
<1>1. Init => Untouched /\ Frozen
  BY DEF Init, Untouched, Early, EarlyLabels, Frozen, Sealed
<1>2. TypeOK /\ Untouched /\ Frozen /\ [Next]_vars => (Untouched /\ Frozen)'
  BY UntouchedNext, FrozenNext
<1> QED BY <1>1, <1>2, TypeCorrect, PTL DEF Spec

\* Nothing that runs late, an operator's second command, the watchdog or the
\* error handler of prepare-run, adds to the event log of a finalized attempt
\* (append_jsonl against the modes finalize_attempt sets before its manifest).
THEOREM LogStaysClosed == Spec => LogClosed
<1>1. TypeOK /\ Untouched /\ Frozen /\ [Next]_vars => [Sealed => events' = events]_vars
  BY FrozenNext
<1> QED BY <1>1, FrozenHolds, TypeCorrect, PTL DEF Spec, LogClosed

---------------------------------------------------------------------------
\* The rest holds of attempts that no signal interrupts and no command overlaps:
\* run life_orphan_capture shows the states that a signal leads to.
Sequential == "interrupt" \notin Faults /\ ~Concurrent

\* prepare-run has ended before a command or the watchdog starts to work.
Alone ==
  /\ pc["prepare"] \notin {"waiting", "wantLock", "begin", "preAbort", "recorded", "recover"}
  /\ pc["operator"] \in {"idle", "wantLock"} \cup LockedLabels
  /\ pc["watchdog"] \in {"idle", "waiting", "wantLock", "done"} \cup LockedLabels
  /\ pc["watchdog"] \notin {"begin", "preAbort", "recover"}
  /\ \A p \in {"operator", "watchdog"} : pc[p] # "prepErr"
  /\ pc["prepare"] # "done" =>
       pc["operator"] = "idle" /\ pc["watchdog"] \in {"idle", "waiting", "done"}

\* Nothing is on record of an attempt that was killed before its metadata.json;
\* in a finalized one only a cleanup command still runs, and finds nothing to do.
Quiet ==
  /\ "metadata.json" \notin files =>
       /\ files = {} /\ capState = "none" /\ dnsState = {} /\ pfState = {}
       /\ pc["prepare"] \in {"idle", "meta", "done"} /\ pc["operator"] = "idle"
       /\ pc["watchdog"] \in {"idle", "done"}
  /\ pc["prepare"] \in {"idle", "meta"} => files = {}
  /\ Sealed => pc["prepare"] \in {"sidecar", "close", "done"}
  /\ Sealed =>
       \A p \in Proc :
         pc[p] \in LockedLabels =>
           \/ pc[p] \in {"begin", "sidecar", "close"}
           \/ /\ p = "operator" /\ cmd = "cleanup"
              /\ pc[p] \in {"snapshot", "capture", "dns", "pf", "cleaned", "stopWd",
                            "recover"}

\* What prepare-run has on record, and has not, at each of its labels.
Body == {"idle", "meta", "started"} \cup TryLabels
UntilSpawn == {"idle", "meta", "started", "observe", "spawn"}
UntilCapState == UntilSpawn \cup {"capPid", "capState"}
UntilPfSave == UntilCapState \cup {"pfEnable", "pfSave"}
UntilHostsSave == UntilPfSave \cup {"pfLoad", "pfMark", "pfReset", "hostsRead", "hostsSave"}

Fresh ==
  pc["prepare"] \in Body =>
    /\ ~Sealed /\ perm = "open" /\ capState # "stopped"
    /\ dnsState \subseteq {"saved", "installed"}
    /\ pfState \subseteq {"active", "token", "loaded"}
    /\ mem["prepare"].pf \subseteq {"active", "token", "loaded"}
    /\ ~Logged("prepare_error_detected")

\* The capture, the PF rule and the override of /etc/hosts in turn: not begun before
\* their labels, and on record, or in prepare-run's memory, before they are made.
BegunCapture ==
  /\ pc["prepare"] \in UntilSpawn => ~tcpdump /\ "capture.pid" \notin files
  /\ pc["prepare"] \in UntilCapState => capState = "none"
  /\ pc["prepare"] \in {"spawn", "capPid"} => "clock-status.json" \in files
  /\ pc["prepare"] = "capState" => "capture.pid" \in files

BegunPf ==
  /\ pc["prepare"] \in UntilPfSave => pfState = {} /\ ~pfRule
  /\ pc["prepare"] \in UntilPfSave \ {"pfSave"} => ~pfRef
  /\ pc["prepare"] \in {"pfSave", "pfLoad", "pfMark", "pfReset"} /\ pfRef =>
       "token" \in mem["prepare"].pf

Overriding == {"pfEnable", "pfSave", "pfLoad", "pfMark", "pfReset", "hostsRead",
               "hostsSave", "hostsFile", "hostsInstall", "hostsMark", "activate"}
BegunHosts ==
  /\ pc["prepare"] \in Overriding => mem["prepare"].priv
  /\ pc["prepare"] \in UntilHostsSave => dnsState = {}
  /\ pc["prepare"] \in UntilHostsSave \cup {"hostsFile", "hostsInstall"} => ~hosts.pin
  /\ pc["prepare"] \in TryLabels \cup {"handler"} /\ ~mem["prepare"].priv =>
       dnsState = {} /\ pfState = {}

\* How far a process has got that has met no error.
Sealing == {"freeze", "manifest", "sidecar", "close"}
Cleared == {"preAbort", "recorded", "stopWd", "stopped", "finished", "recover"} \cup Sealing

\* A capture that capture.pid does not name is found by no cleanup; nobody
\* finalizes such an attempt.
CaptureUndone ==
  /\ tcpdump /\ "capture.pid" \notin files =>
       /\ capState = "none" /\ "clock-status.json" \in files
       /\ pc["prepare"] \in {"capPid", "done"} /\ ~Logged("prepare_error_detected")
  /\ capState = "stopped" => ~tcpdump
  /\ \A p \in Proc : pc[p] \in {"capMark", "capUnlink", "finished"} \cup Sealing => ~tcpdump
  /\ \A p \in {"operator", "watchdog"} :
       pc[p] = "preAbort" \/ (pc[p] = "stopWd" /\ p = "watchdog") => ~tcpdump
  /\ \A p \in Proc :
       pc[p] \in {"cleaned"} \cup DnsLabels \cup PfLabels /\ ~mem[p].err
         => "capture.pid" \notin files
  /\ \A p \in Proc : pc[p] \in Cleared => "capture.pid" \notin files
  /\ Sealed => ~tcpdump /\ "capture.pid" \notin files

\* Whoever has no error to report has seen the override undone and on record as such.
NoOverride == ~hosts.pin /\ Restored(dnsState)
HostsUndone ==
  /\ \A p \in Proc : pc[p] \in {"cleaned"} \cup PfLabels /\ ~mem[p].err => NoOverride
  /\ \A p \in Proc : pc[p] \in Cleared => NoOverride
  /\ Sealed => NoOverride

\* The same for the rule; the marks say how far a cleanup that stopped got.
NoRule == ~pfRule /\ Restored(pfState) /\ (pfState # {} => ~pfRef)
PfActing == PfLabels \ {"pf"}
PfUndone ==
  /\ pfRef /\ pfState # {} => {"token", "unparsed"} \cap pfState # {}
  /\ {"released", "restored"} \cap pfState # {} => ~pfRef
  /\ {"cleared", "restored"} \cap pfState # {} => ~pfRule
  /\ \A p \in Proc :
       pc[p] \in PfActing \cup {"snapWrite"} =>
         mem[p].pf = pfState /\ "restored" \notin pfState /\ pfState # {}
  /\ \A p \in Proc : pc[p] \in PfActing => "unparsed" \notin pfState
  /\ \A p \in Proc : pc[p] \in {"pfCleared", "release", "released", "pfDone"} => ~pfRule
  /\ \A p \in Proc : pc[p] \in {"released", "pfDone"} => ~pfRef
  /\ \A p \in Proc : pc[p] = "cleaned" /\ ~mem[p].err => NoRule
  /\ \A p \in Proc : pc[p] \in Cleared => NoRule
  /\ Sealed => NoRule

\* The watchdog is stopped before anything is hashed, and nothing is written, or
\* finalized without an outcome, afterwards.
Intact ==
  /\ \A p \in {"prepare", "operator"} :
       pc[p] \in Cleared \ {"recorded", "stopWd"} => "watchdog.pid" \notin files
  /\ pc["watchdog"] \in Sealing => "watchdog.pid" \notin files
  /\ Sealed => "watchdog.pid" \notin files
  /\ \A p \in Proc : pc[p] \in Sealing \ {"freeze"} => ~dirty
  /\ Sealed => ~dirty

\* The outcome precedes the hashing, the manifest its sidecar and the closing.
Concluded ==
  /\ \A p \in Proc : pc[p] \in Sealing => Finished
  /\ pc["watchdog"] = "stopWd" => Finished
  /\ Sealed => Finished
  /\ \A p \in Proc : pc[p] \in {"sidecar", "close"} => Sealed
  /\ "manifest.sha256.sha256" \in files \/ perm = "closed" => Sealed

\* kill -9, and a restart of the machine.
Unkilled == {"kill", "reboot"} \cap Faults = {}

\* One outcome, when nobody is killed after it has been logged.
OneLogged ==
  \E i \in DOMAIN events :
    events[i] \in Outcomes /\ \A j \in DOMAIN events : events[j] \in Outcomes => j = i
Decided == \/ Sealed \/ \E p \in Proc : pc[p] \in Sealing
           \/ pc["watchdog"] = "stopWd"
Single == IF Decided THEN OneLogged ELSE ~Finished

USE DEF procs, evidence, marks, mac

---------------------------------------------------------------------------
\* What the steps' vocabulary changes in mem and in the log.
LEMMA ErrorKeeps ==
  ASSUME TypeOK, NEW p \in Proc, CleanupError(p)
  PROVE  /\ mem'[p].err
         /\ mem'[p].pf = mem[p].pf /\ mem'[p].priv = mem[p].priv
         /\ \A q \in Proc : q # p => mem'[q] = mem[q]
         /\ pc'[p] = AfterError(pc[p])
         /\ \A q \in Proc : q # p => pc'[q] = pc[q]
<1>1. pc'[p] = AfterError(pc[p]) /\ \A q \in Proc : q # p => pc'[q] = pc[q]
  BY DEF TypeOK, CleanupError
<1>2. mem'[p].err /\ mem'[p].pf = mem[p].pf /\ mem'[p].priv = mem[p].priv
  BY DEF TypeOK, CleanupError, Remember, MemType
<1>3. \A q \in Proc : q # p => mem'[q] = mem[q]
  BY DEF TypeOK, CleanupError, Remember
<1> QED BY <1>1, <1>2, <1>3

LEMMA PfKeeps ==
  ASSUME TypeOK, NEW p \in Proc, NEW S, Remember(p, "pf", S)
  PROVE  /\ mem'[p].pf = S
         /\ mem'[p].err = mem[p].err /\ mem'[p].priv = mem[p].priv
         /\ \A q \in Proc : q # p => mem'[q] = mem[q]
  BY DEF TypeOK, Remember, MemType

LEMMA DnsKeeps ==
  ASSUME TypeOK, NEW p \in Proc, NEW S, Remember(p, "dns", S)
  PROVE  /\ mem'[p].pf = mem[p].pf
         /\ mem'[p].err = mem[p].err /\ mem'[p].priv = mem[p].priv
         /\ \A q \in Proc : q # p => mem'[q] = mem[q]
  BY DEF TypeOK, Remember, MemType

LEMMA VersionKeeps ==
  ASSUME TypeOK, NEW p \in Proc, NEW v, Remember(p, "version", v)
  PROVE  /\ mem'[p].pf = mem[p].pf
         /\ mem'[p].err = mem[p].err /\ mem'[p].priv = mem[p].priv
         /\ \A q \in Proc : q # p => mem'[q] = mem[q]
  BY DEF TypeOK, Remember, MemType

LEMMA PrivKeeps ==
  ASSUME TypeOK, NEW p \in Proc, NEW b, Remember(p, "priv", b)
  PROVE  /\ mem'[p].priv = b
         /\ mem'[p].err = mem[p].err /\ mem'[p].pf = mem[p].pf
         /\ \A q \in Proc : q # p => mem'[q] = mem[q]
  BY DEF TypeOK, Remember, MemType

LEMMA LeaveKeeps ==
  ASSUME TypeOK, NEW p \in Proc, Leave(p)
  PROVE  /\ ~mem'[p].err /\ ~mem'[p].priv /\ mem'[p].pf = {}
         /\ \A q \in Proc : q # p => mem'[q] = mem[q]
         /\ pc'[p] = IF p = "operator" THEN "idle" ELSE "done"
         /\ \A q \in Proc : q # p => pc'[q] = pc[q]
  BY DEF TypeOK, Leave, Blank

LEMMA LogKeeps ==
  ASSUME TypeOK, NEW e, Log(e)
  PROVE  /\ \A x : Logged(x)' <=> Logged(x) \/ x = e
         /\ Finished' <=> Finished \/ e \in Outcomes
<1>1. /\ DOMAIN events' = 1 .. (Len(events) + 1) /\ DOMAIN events = 1 .. Len(events)
      /\ Len(events) \in Nat
      /\ \A i \in DOMAIN events : events'[i] = events[i]
      /\ events'[Len(events) + 1] = e
  BY DEF TypeOK, Log
<1>2. \A i \in DOMAIN events' : i \in DOMAIN events \/ i = Len(events) + 1 BY <1>1
<1>3. DOMAIN events \subseteq DOMAIN events' /\ Len(events) + 1 \in DOMAIN events' BY <1>1
<1>4. \A x : Logged(x)' <=> Logged(x) \/ x = e BY <1>1, <1>2, <1>3, Zenon DEF Logged
<1>5. Finished' <=> Finished \/ e \in Outcomes BY <1>1, <1>2, <1>3, Zenon DEF Finished
<1> QED BY <1>4, <1>5

\* Commands and the watchdog work only after prepare-run has ended.
LEMMA AloneNext ==
  ASSUME Sequential, TypeOK, Exclusive, Alone, [Next]_vars
  PROVE  Alone'
<1> USE DEF Sequential, TypeOK, Exclusive, Alone, TryLabels
<1>1. ASSUME Environment PROVE Alone'
  <2>1. CASE Prepare BY <2>1 DEF Prepare
  <2>2. ASSUME NEW c \in Commands, Command(c) PROVE Alone' BY <2>2 DEF Command
  <2>3. CASE Interrupt BY <2>3 DEF Interrupt
  <2>4. CASE CaptureGrows BY <2>4 DEF CaptureGrows
  <2>5. CASE EditHosts BY <2>5 DEF EditHosts
  <2>6. CASE Reboot BY <2>6 DEF Reboot
  <2>7. ASSUME NEW p \in Proc, Kill(p) PROVE Alone' BY <2>7 DEF Kill, Leave
  <2> QED BY <1>1, <2>1, <2>2, <2>3, <2>4, <2>5, <2>6, <2>7 DEF Environment
<1>2. ASSUME PrepareStep PROVE Alone'
  <2>1. CASE PrepareRecord BY <2>1 DEF PrepareRecord
  <2>2. CASE PrepareCapture BY <2>2 DEF PrepareCapture
  <2>3. CASE PfEnable BY <2>3 DEF PfEnable
  <2>4. CASE PfTokenUnparsed BY <2>4 DEF PfTokenUnparsed
  <2>5. CASE PfApply BY <2>5 DEF PfApply
  <2>6. CASE HostsRead BY <2>6 DEF HostsRead
  <2>7. CASE HostsSave BY <2>7 DEF HostsSave
  <2>8. CASE HostsInstall BY <2>8 DEF HostsInstall
  <2>9. CASE HostsMark BY <2>9 DEF HostsMark
  <2>10. CASE PrepareLaunch BY <2>10 DEF PrepareLaunch
  <2>11. CASE StartWatchdog BY <2>11 DEF StartWatchdog
  <2>12. CASE OpenSafari BY <2>12 DEF OpenSafari, Leave
  <2>13. CASE PrepareFails BY <2>13 DEF PrepareFails
  <2>14. CASE PrepareHandler BY <2>14 DEF PrepareHandler, Acquire
  <2>15. CASE PrepareErrorDetected BY <2>15 DEF PrepareErrorDetected, Leave
  <2> QED
    BY <1>2, <2>1, <2>2, <2>3, <2>4, <2>5, <2>6, <2>7, <2>8, <2>9, <2>10, <2>11,
       <2>12, <2>13, <2>14, <2>15 DEF PrepareStep
<1>3. ASSUME OperatorStep PROVE Alone'
  <2>1. CASE CommandLocked BY <2>1 DEF CommandLocked, Acquire
  <2>2. CASE CommandBegin BY <2>2 DEF CommandBegin, Leave
  <2>3. CASE PreCaptureAbort BY <2>3 DEF PreCaptureAbort, LogThen, Leave
  <2>4. CASE Recover BY <2>4 DEF Recover, LogThen, Leave
  <2> QED BY <1>3, <2>1, <2>2, <2>3, <2>4 DEF OperatorStep
<1>4. ASSUME WatchdogStep PROVE Alone'
  <2>1. CASE WatchdogWakes BY <2>1 DEF WatchdogWakes
  <2>2. CASE WatchdogLocked BY <2>2 DEF WatchdogLocked
  <2> QED BY <1>4, <2>1, <2>2 DEF WatchdogStep
<1>5. ASSUME NEW p \in Proc, CleanupStep(p) PROVE Alone'
  <2>1. CASE SnapshotPf(p) BY <2>1 DEF SnapshotPf
  <2>2. CASE StopCapture(p) BY <2>2, ErrorKeeps DEF StopCapture, AfterError
  <2>3. CASE RecordCaptureStop(p) BY <2>3, ErrorKeeps DEF RecordCaptureStop, AfterError
  <2>4. CASE RemoveCapturePid(p) BY <2>4, ErrorKeeps DEF RemoveCapturePid, AfterError
  <2>5. CASE HostsDecide(p) BY <2>5, ErrorKeeps DEF HostsDecide, AfterError
  <2>6. CASE HostsRestore(p) BY <2>6 DEF HostsRestore
  <2>7. CASE HostsConfirm(p) BY <2>7, ErrorKeeps DEF HostsConfirm, AfterError
  <2>8. CASE PfDecide(p) BY <2>8, ErrorKeeps DEF PfDecide, AfterError
  <2>9. CASE PfRestore(p) BY <2>9, ErrorKeeps DEF PfRestore, AfterError
  <2>10. CASE CleanupFails(p) BY <2>10, ErrorKeeps DEF CleanupFails, AfterError
  <2>11. CASE Cleaned(p) BY <2>11 DEF Cleaned, Leave
  <2> QED
    BY <1>5, <2>1, <2>2, <2>3, <2>4, <2>5, <2>6, <2>7, <2>8, <2>9, <2>10, <2>11 DEF
       CleanupStep
<1>6. ASSUME NEW p \in Proc, ClosingStep(p) PROVE Alone'
  <2>1. CASE RecordedStop(p) BY <2>1 DEF RecordedStop, Leave
  <2>2. CASE StopWatchdog(p) BY <2>2 DEF StopWatchdog
  <2>3. CASE LogStopped(p) BY <2>3 DEF LogStopped, LogThen, Leave
  <2>4. CASE LogFinished(p) BY <2>4 DEF LogFinished, OutcomesOf, LogThen, Leave
  <2>5. CASE FreezeArtifacts(p) BY <2>5 DEF FreezeArtifacts, Leave
  <2>6. CASE WriteManifest(p) BY <2>6 DEF WriteManifest
  <2>7. CASE CloseDirectory(p) BY <2>7 DEF CloseDirectory, Leave
  <2> QED BY <1>6, <2>1, <2>2, <2>3, <2>4, <2>5, <2>6, <2>7 DEF ClosingStep
<1>7. CASE UNCHANGED vars BY <1>7 DEF vars
<1> QED
  BY <1>1, <1>2, <1>3, <1>4, <1>5, <1>6, <1>7 DEF Next, ProcessStep

\* Nothing of an attempt is altered before its metadata.json, and none of its files
\* after its manifest.
LEMMA QuietNext ==
  ASSUME Sequential, TypeOK, Exclusive, Alone, Fresh, CaptureUndone, HostsUndone,
         PfUndone, Intact, Quiet, [Next]_vars
  PROVE  Quiet'
<1> USE DEF Sequential, TypeOK, Exclusive, Alone, TryLabels, Quiet, Fresh,
  CaptureUndone, HostsUndone, PfUndone, NoOverride, NoRule, Restored, Body, Sealed, Intact
<1>1. ASSUME Environment PROVE Quiet'
  <2>1. CASE Prepare BY <2>1 DEF Prepare
  <2>2. ASSUME NEW c \in Commands, Command(c) PROVE Quiet' BY <2>2 DEF Command
  <2>3. CASE Interrupt BY <2>3 DEF Interrupt
  <2>4. CASE CaptureGrows BY <2>4 DEF CaptureGrows
  <2>5. CASE EditHosts BY <2>5 DEF EditHosts
  <2>6. CASE Reboot BY <2>6 DEF Reboot
  <2>7. ASSUME NEW p \in Proc, Kill(p) PROVE Quiet' BY <2>7 DEF Kill, Leave
  <2> QED BY <1>1, <2>1, <2>2, <2>3, <2>4, <2>5, <2>6, <2>7 DEF Environment
<1>2. ASSUME PrepareStep PROVE Quiet'
  <2>1. CASE PrepareRecord BY <2>1 DEF PrepareRecord
  <2>2. CASE PrepareCapture BY <2>2 DEF PrepareCapture
  <2>3. CASE PfEnable BY <2>3 DEF PfEnable
  <2>4. CASE PfTokenUnparsed BY <2>4 DEF PfTokenUnparsed
  <2>5. CASE PfApply BY <2>5 DEF PfApply
  <2>6. CASE HostsRead BY <2>6 DEF HostsRead
  <2>7. CASE HostsSave BY <2>7 DEF HostsSave
  <2>8. CASE HostsInstall BY <2>8 DEF HostsInstall
  <2>9. CASE HostsMark BY <2>9 DEF HostsMark
  <2>10. CASE PrepareLaunch BY <2>10 DEF PrepareLaunch
  <2>11. CASE StartWatchdog BY <2>11 DEF StartWatchdog
  <2>12. CASE OpenSafari BY <2>12 DEF OpenSafari, Leave
  <2>13. CASE PrepareFails BY <2>13 DEF PrepareFails
  <2>14. CASE PrepareHandler BY <2>14 DEF PrepareHandler, Acquire
  <2>15. CASE PrepareErrorDetected BY <2>15 DEF PrepareErrorDetected, Leave
  <2> QED
    BY <1>2, <2>1, <2>2, <2>3, <2>4, <2>5, <2>6, <2>7, <2>8, <2>9, <2>10, <2>11,
       <2>12, <2>13, <2>14, <2>15 DEF PrepareStep
<1>3. ASSUME OperatorStep PROVE Quiet'
  <2>1. CASE CommandLocked BY <2>1 DEF CommandLocked, Acquire
  <2>2. CASE CommandBegin BY <2>2 DEF CommandBegin, Leave
  <2>3. CASE PreCaptureAbort BY <2>3 DEF PreCaptureAbort, LogThen, Leave
  <2>4. CASE Recover BY <2>4 DEF Recover, LogThen, Leave
  <2> QED BY <1>3, <2>1, <2>2, <2>3, <2>4 DEF OperatorStep
<1>4. ASSUME WatchdogStep PROVE Quiet'
  <2>1. CASE WatchdogWakes BY <2>1 DEF WatchdogWakes
  <2>2. CASE WatchdogLocked BY <2>2 DEF WatchdogLocked
  <2> QED BY <1>4, <2>1, <2>2 DEF WatchdogStep
<1>5. ASSUME NEW p \in Proc, CleanupStep(p) PROVE Quiet'
  <2>1. CASE SnapshotPf(p) BY <2>1 DEF SnapshotPf
  <2>2. CASE StopCapture(p) BY <2>2, ErrorKeeps DEF StopCapture, AfterError
  <2>3. CASE RecordCaptureStop(p) BY <2>3, ErrorKeeps DEF RecordCaptureStop, AfterError
  <2>4. CASE RemoveCapturePid(p) BY <2>4, ErrorKeeps DEF RemoveCapturePid, AfterError
  <2>5. CASE HostsDecide(p) BY <2>5, ErrorKeeps DEF HostsDecide, AfterError
  <2>6. CASE HostsRestore(p) BY <2>6 DEF HostsRestore
  <2>7. CASE HostsConfirm(p) BY <2>7, ErrorKeeps DEF HostsConfirm, AfterError
  <2>8. CASE PfDecide(p) BY <2>8, ErrorKeeps DEF PfDecide, AfterError
  <2>9. CASE PfRestore(p) BY <2>9, ErrorKeeps DEF PfRestore, AfterError
  <2>10. CASE CleanupFails(p) BY <2>10, ErrorKeeps DEF CleanupFails, AfterError
  <2>11. CASE Cleaned(p) BY <2>11 DEF Cleaned, Leave
  <2> QED
    BY <1>5, <2>1, <2>2, <2>3, <2>4, <2>5, <2>6, <2>7, <2>8, <2>9, <2>10, <2>11 DEF
       CleanupStep
<1>6. ASSUME NEW p \in Proc, ClosingStep(p) PROVE Quiet'
  <2>1. CASE RecordedStop(p) BY <2>1 DEF RecordedStop, Leave
  <2>2. CASE StopWatchdog(p) BY <2>2 DEF StopWatchdog
  <2>3. CASE LogStopped(p) BY <2>3 DEF LogStopped, LogThen, Leave
  <2>4. CASE LogFinished(p) BY <2>4 DEF LogFinished, OutcomesOf, LogThen, Leave
  <2>5. CASE FreezeArtifacts(p) BY <2>5 DEF FreezeArtifacts, Leave
  <2>6. CASE WriteManifest(p) BY <2>6 DEF WriteManifest
  <2>7. CASE CloseDirectory(p) BY <2>7 DEF CloseDirectory, Leave
  <2> QED BY <1>6, <2>1, <2>2, <2>3, <2>4, <2>5, <2>6, <2>7 DEF ClosingStep
<1>7. CASE UNCHANGED vars BY <1>7 DEF vars
<1> QED
  BY <1>1, <1>2, <1>3, <1>4, <1>5, <1>6, <1>7 DEF Next, ProcessStep

\* prepare-run's progress, capture first.
LEMMA BegunCaptureNext ==
  ASSUME Sequential, TypeOK, Exclusive, Alone, Fresh, BegunCapture, [Next]_vars
  PROVE  BegunCapture'
<1> USE DEF Sequential, TypeOK, Exclusive, Alone, TryLabels, BegunCapture, Fresh, Body,
  Sealed, UntilSpawn, UntilCapState, MayWrite
<1>1. ASSUME Environment PROVE BegunCapture'
  <2>1. CASE Prepare BY <2>1 DEF Prepare
  <2>2. ASSUME NEW c \in Commands, Command(c) PROVE BegunCapture' BY <2>2 DEF Command
  <2>3. CASE Interrupt BY <2>3 DEF Interrupt
  <2>4. CASE CaptureGrows BY <2>4 DEF CaptureGrows
  <2>5. CASE EditHosts BY <2>5 DEF EditHosts
  <2>6. CASE Reboot BY <2>6 DEF Reboot
  <2>7. ASSUME NEW p \in Proc, Kill(p) PROVE BegunCapture' BY <2>7 DEF Kill, Leave
  <2> QED BY <1>1, <2>1, <2>2, <2>3, <2>4, <2>5, <2>6, <2>7 DEF Environment
<1>2. ASSUME PrepareStep PROVE BegunCapture'
  <2>1. CASE PrepareRecord BY <2>1 DEF PrepareRecord
  <2>2. CASE PrepareCapture BY <2>2 DEF PrepareCapture
  <2>3. CASE PfEnable BY <2>3 DEF PfEnable
  <2>4. CASE PfTokenUnparsed BY <2>4 DEF PfTokenUnparsed
  <2>5. CASE PfApply BY <2>5 DEF PfApply
  <2>6. CASE HostsRead BY <2>6 DEF HostsRead
  <2>7. CASE HostsSave BY <2>7 DEF HostsSave
  <2>8. CASE HostsInstall BY <2>8 DEF HostsInstall
  <2>9. CASE HostsMark BY <2>9 DEF HostsMark
  <2>10. CASE PrepareLaunch BY <2>10 DEF PrepareLaunch
  <2>11. CASE StartWatchdog BY <2>11 DEF StartWatchdog
  <2>12. CASE OpenSafari BY <2>12 DEF OpenSafari, Leave
  <2>13. CASE PrepareFails BY <2>13 DEF PrepareFails
  <2>14. CASE PrepareHandler BY <2>14 DEF PrepareHandler, Acquire
  <2>15. CASE PrepareErrorDetected BY <2>15 DEF PrepareErrorDetected, Leave
  <2> QED
    BY <1>2, <2>1, <2>2, <2>3, <2>4, <2>5, <2>6, <2>7, <2>8, <2>9, <2>10, <2>11,
       <2>12, <2>13, <2>14, <2>15 DEF PrepareStep
<1>3. ASSUME OperatorStep PROVE BegunCapture'
  <2>1. CASE CommandLocked BY <2>1 DEF CommandLocked, Acquire
  <2>2. CASE CommandBegin BY <2>2 DEF CommandBegin, Leave
  <2>3. CASE PreCaptureAbort BY <2>3 DEF PreCaptureAbort, LogThen, Leave
  <2>4. CASE Recover BY <2>4 DEF Recover, LogThen, Leave
  <2> QED BY <1>3, <2>1, <2>2, <2>3, <2>4 DEF OperatorStep
<1>4. ASSUME WatchdogStep PROVE BegunCapture'
  <2>1. CASE WatchdogWakes BY <2>1 DEF WatchdogWakes
  <2>2. CASE WatchdogLocked BY <2>2 DEF WatchdogLocked
  <2> QED BY <1>4, <2>1, <2>2 DEF WatchdogStep
<1>5. ASSUME NEW p \in Proc, CleanupStep(p) PROVE BegunCapture'
  <2>1. CASE SnapshotPf(p) BY <2>1 DEF SnapshotPf
  <2>2. CASE StopCapture(p) BY <2>2, ErrorKeeps DEF StopCapture, AfterError
  <2>3. CASE RecordCaptureStop(p) BY <2>3, ErrorKeeps DEF RecordCaptureStop, AfterError
  <2>4. CASE RemoveCapturePid(p) BY <2>4, ErrorKeeps DEF RemoveCapturePid, AfterError
  <2>5. CASE HostsDecide(p) BY <2>5, ErrorKeeps DEF HostsDecide, AfterError
  <2>6. CASE HostsRestore(p) BY <2>6 DEF HostsRestore
  <2>7. CASE HostsConfirm(p) BY <2>7, ErrorKeeps DEF HostsConfirm, AfterError
  <2>8. CASE PfDecide(p) BY <2>8, ErrorKeeps DEF PfDecide, AfterError
  <2>9. CASE PfRestore(p) BY <2>9, ErrorKeeps DEF PfRestore, AfterError
  <2>10. CASE CleanupFails(p) BY <2>10, ErrorKeeps DEF CleanupFails, AfterError
  <2>11. CASE Cleaned(p) BY <2>11 DEF Cleaned, Leave
  <2> QED
    BY <1>5, <2>1, <2>2, <2>3, <2>4, <2>5, <2>6, <2>7, <2>8, <2>9, <2>10, <2>11 DEF
       CleanupStep
<1>6. ASSUME NEW p \in Proc, ClosingStep(p) PROVE BegunCapture'
  <2>1. CASE RecordedStop(p) BY <2>1 DEF RecordedStop, Leave
  <2>2. CASE StopWatchdog(p) BY <2>2 DEF StopWatchdog
  <2>3. CASE LogStopped(p) BY <2>3 DEF LogStopped, LogThen, Leave
  <2>4. CASE LogFinished(p) BY <2>4 DEF LogFinished, OutcomesOf, LogThen, Leave
  <2>5. CASE FreezeArtifacts(p) BY <2>5 DEF FreezeArtifacts, Leave
  <2>6. CASE WriteManifest(p) BY <2>6 DEF WriteManifest
  <2>7. CASE CloseDirectory(p) BY <2>7 DEF CloseDirectory, Leave
  <2> QED BY <1>6, <2>1, <2>2, <2>3, <2>4, <2>5, <2>6, <2>7 DEF ClosingStep
<1>7. CASE UNCHANGED vars BY <1>7 DEF vars
<1> QED
  BY <1>1, <1>2, <1>3, <1>4, <1>5, <1>6, <1>7 DEF Next, ProcessStep

\* The watchdog is gone, or is the finalizer, when the artifacts are hashed.
LEMMA IntactNext ==
  ASSUME Sequential, TypeOK, Exclusive, Alone, Quiet, Fresh, CaptureUndone,
         HostsUndone, PfUndone, Intact, [Next]_vars
  PROVE  Intact'
<1> USE DEF Sequential, TypeOK, Exclusive, Alone, TryLabels, Quiet, Fresh,
  CaptureUndone, HostsUndone, PfUndone, NoOverride, NoRule, Restored, Intact, Body,
  Sealed, Cleared, Sealing, Written, PreCapture
<1>1. ASSUME Environment PROVE Intact'
  <2>1. CASE Prepare BY <2>1 DEF Prepare
  <2>2. ASSUME NEW c \in Commands, Command(c) PROVE Intact' BY <2>2 DEF Command
  <2>3. CASE Interrupt BY <2>3 DEF Interrupt
  <2>4. CASE CaptureGrows BY <2>4 DEF CaptureGrows
  <2>5. CASE EditHosts BY <2>5 DEF EditHosts
  <2>6. CASE Reboot BY <2>6 DEF Reboot
  <2>7. ASSUME NEW p \in Proc, Kill(p) PROVE Intact' BY <2>7 DEF Kill, Leave
  <2> QED BY <1>1, <2>1, <2>2, <2>3, <2>4, <2>5, <2>6, <2>7 DEF Environment
<1>2. ASSUME PrepareStep PROVE Intact'
  <2>1. CASE PrepareRecord BY <2>1 DEF PrepareRecord
  <2>2. CASE PrepareCapture BY <2>2 DEF PrepareCapture
  <2>3. CASE PfEnable BY <2>3 DEF PfEnable
  <2>4. CASE PfTokenUnparsed BY <2>4 DEF PfTokenUnparsed
  <2>5. CASE PfApply BY <2>5 DEF PfApply
  <2>6. CASE HostsRead BY <2>6 DEF HostsRead
  <2>7. CASE HostsSave BY <2>7 DEF HostsSave
  <2>8. CASE HostsInstall BY <2>8 DEF HostsInstall
  <2>9. CASE HostsMark BY <2>9 DEF HostsMark
  <2>10. CASE PrepareLaunch BY <2>10 DEF PrepareLaunch
  <2>11. CASE StartWatchdog BY <2>11 DEF StartWatchdog
  <2>12. CASE OpenSafari BY <2>12 DEF OpenSafari, Leave
  <2>13. CASE PrepareFails BY <2>13 DEF PrepareFails
  <2>14. CASE PrepareHandler BY <2>14 DEF PrepareHandler, Acquire
  <2>15. CASE PrepareErrorDetected BY <2>15 DEF PrepareErrorDetected, Leave
  <2> QED
    BY <1>2, <2>1, <2>2, <2>3, <2>4, <2>5, <2>6, <2>7, <2>8, <2>9, <2>10, <2>11,
       <2>12, <2>13, <2>14, <2>15 DEF PrepareStep
<1>3. ASSUME OperatorStep PROVE Intact'
  <2>1. CASE CommandLocked BY <2>1 DEF CommandLocked, Acquire
  <2>2. CASE CommandBegin BY <2>2 DEF CommandBegin, Leave
  <2>3. CASE PreCaptureAbort BY <2>3 DEF PreCaptureAbort, LogThen, Leave
  <2>4. CASE Recover BY <2>4 DEF Recover, LogThen, Leave
  <2> QED BY <1>3, <2>1, <2>2, <2>3, <2>4 DEF OperatorStep
<1>4. ASSUME WatchdogStep PROVE Intact'
  <2>1. CASE WatchdogWakes BY <2>1 DEF WatchdogWakes
  <2>2. CASE WatchdogLocked BY <2>2 DEF WatchdogLocked
  <2> QED BY <1>4, <2>1, <2>2 DEF WatchdogStep
<1>5. ASSUME NEW p \in Proc, CleanupStep(p) PROVE Intact'
  <2>1. CASE SnapshotPf(p) BY <2>1 DEF SnapshotPf
  <2>2. CASE StopCapture(p) BY <2>2, ErrorKeeps DEF StopCapture, AfterError
  <2>3. CASE RecordCaptureStop(p) BY <2>3, ErrorKeeps DEF RecordCaptureStop, AfterError
  <2>4. CASE RemoveCapturePid(p) BY <2>4, ErrorKeeps DEF RemoveCapturePid, AfterError
  <2>5. CASE HostsDecide(p) BY <2>5, ErrorKeeps DEF HostsDecide, AfterError
  <2>6. CASE HostsRestore(p) BY <2>6 DEF HostsRestore
  <2>7. CASE HostsConfirm(p) BY <2>7, ErrorKeeps DEF HostsConfirm, AfterError
  <2>8. CASE PfDecide(p) BY <2>8, ErrorKeeps DEF PfDecide, AfterError
  <2>9. CASE PfRestore(p) BY <2>9, ErrorKeeps DEF PfRestore, AfterError
  <2>10. CASE CleanupFails(p) BY <2>10, ErrorKeeps DEF CleanupFails, AfterError
  <2>11. CASE Cleaned(p) BY <2>11 DEF Cleaned, Leave
  <2> QED
    BY <1>5, <2>1, <2>2, <2>3, <2>4, <2>5, <2>6, <2>7, <2>8, <2>9, <2>10, <2>11 DEF
       CleanupStep
<1>6. ASSUME NEW p \in Proc, ClosingStep(p) PROVE Intact'
  <2>1. CASE RecordedStop(p) BY <2>1 DEF RecordedStop, Leave
  <2>2. CASE StopWatchdog(p) BY <2>2 DEF StopWatchdog
  <2>3. CASE LogStopped(p) BY <2>3 DEF LogStopped, LogThen, Leave
  <2>4. CASE LogFinished(p) BY <2>4 DEF LogFinished, OutcomesOf, LogThen, Leave
  <2>5. CASE FreezeArtifacts(p) BY <2>5 DEF FreezeArtifacts, Leave
  <2>6. CASE WriteManifest(p) BY <2>6 DEF WriteManifest
  <2>7. CASE CloseDirectory(p) BY <2>7 DEF CloseDirectory, Leave
  <2> QED BY <1>6, <2>1, <2>2, <2>3, <2>4, <2>5, <2>6, <2>7 DEF ClosingStep
<1>7. CASE UNCHANGED vars BY <1>7 DEF vars
<1> QED
  BY <1>1, <1>2, <1>3, <1>4, <1>5, <1>6, <1>7 DEF Next, ProcessStep


LEMMA SameLog ==
  ASSUME UNCHANGED events
  PROVE  /\ \A x : Logged(x)' <=> Logged(x)
         /\ Finished' <=> Finished
  BY DEF Logged, Finished

\* prepare-run's records undo nothing yet.
LEMMA FreshNext ==
  ASSUME Sequential, TypeOK, Exclusive, Alone, Quiet, Fresh, [Next]_vars
  PROVE  Fresh'
<1> USE DEF Sequential, TypeOK, Exclusive, Alone, TryLabels, Fresh, Body, Quiet, Sealed
<1>1. ASSUME Environment PROVE Fresh'
  <2>1. CASE Prepare BY <2>1, SameLog DEF Prepare
  <2>2. ASSUME NEW c \in Commands, Command(c) PROVE Fresh' BY <2>2, SameLog DEF Command
  <2>3. CASE Interrupt BY <2>3, SameLog DEF Interrupt
  <2>4. CASE CaptureGrows BY <2>4, SameLog DEF CaptureGrows
  <2>5. CASE EditHosts BY <2>5, SameLog DEF EditHosts
  <2>6. CASE Reboot BY <2>6, SameLog DEF Reboot, Blank
  <2>7. ASSUME NEW p \in Proc, Kill(p) PROVE Fresh'
    BY <2>7, LeaveKeeps, SameLog DEF Kill
  <2> QED BY <1>1, <2>1, <2>2, <2>3, <2>4, <2>5, <2>6, <2>7 DEF Environment
<1>2. ASSUME PrepareStep PROVE Fresh'
  <2>1. CASE PrepareRecord BY <2>1, LogKeeps, SameLog DEF PrepareRecord
  <2>2. CASE PrepareCapture BY <2>2, PrivKeeps, SameLog DEF PrepareCapture
  <2>3. CASE PfEnable BY <2>3, PfKeeps, SameLog DEF PfEnable
  <2>4. CASE PfTokenUnparsed BY <2>4, SameLog DEF PfTokenUnparsed
  <2>5. CASE PfApply BY <2>5, PfKeeps, SameLog DEF PfApply
  <2>6. CASE HostsRead BY <2>6, VersionKeeps, SameLog DEF HostsRead
  <2>7. CASE HostsSave BY <2>7, SameLog DEF HostsSave
  <2>8. CASE HostsInstall BY <2>8, SameLog DEF HostsInstall
  <2>9. CASE HostsMark BY <2>9, SameLog DEF HostsMark
  <2>10. CASE PrepareLaunch BY <2>10, LogKeeps DEF PrepareLaunch
  <2>11. CASE StartWatchdog BY <2>11, SameLog DEF StartWatchdog
  <2>12. CASE OpenSafari BY <2>12, LeaveKeeps, LogKeeps DEF OpenSafari
  <2>13. CASE PrepareFails BY <2>13, SameLog DEF PrepareFails, WriteRefused
  <2>14. CASE PrepareHandler BY <2>14, SameLog DEF PrepareHandler, Acquire
  <2>15. CASE PrepareErrorDetected
    BY <2>15, LeaveKeeps, LogKeeps, SameLog DEF PrepareErrorDetected
  <2> QED
    BY <1>2, <2>1, <2>2, <2>3, <2>4, <2>5, <2>6, <2>7, <2>8, <2>9, <2>10, <2>11,
       <2>12, <2>13, <2>14, <2>15 DEF PrepareStep
<1>3. ASSUME OperatorStep PROVE Fresh'
  <2>1. CASE CommandLocked BY <2>1, SameLog DEF CommandLocked, Acquire
  <2>2. CASE CommandBegin BY <2>2, LeaveKeeps, SameLog DEF CommandBegin
  <2>3. CASE PreCaptureAbort
    BY <2>3, LeaveKeeps, LogKeeps, SameLog DEF PreCaptureAbort, LogThen
  <2>4. CASE Recover BY <2>4, LeaveKeeps, LogKeeps, SameLog DEF Recover, LogThen
  <2> QED BY <1>3, <2>1, <2>2, <2>3, <2>4 DEF OperatorStep
<1>4. ASSUME WatchdogStep PROVE Fresh'
  <2>1. CASE WatchdogWakes BY <2>1, SameLog DEF WatchdogWakes
  <2>2. CASE WatchdogLocked BY <2>2, SameLog DEF WatchdogLocked
  <2> QED BY <1>4, <2>1, <2>2 DEF WatchdogStep
<1>5. ASSUME NEW p \in Proc, CleanupStep(p) PROVE Fresh'
  <2>1. CASE SnapshotPf(p) BY <2>1, PfKeeps, SameLog DEF SnapshotPf
  <2>2. CASE StopCapture(p) BY <2>2, ErrorKeeps, SameLog DEF StopCapture, AfterError
  <2>3. CASE RecordCaptureStop(p)
    BY <2>3, ErrorKeeps, SameLog DEF RecordCaptureStop, AfterError
  <2>4. CASE RemoveCapturePid(p)
    BY <2>4, ErrorKeeps, SameLog DEF RemoveCapturePid, AfterError
  <2>5. CASE HostsDecide(p)
    BY <2>5, DnsKeeps, ErrorKeeps, SameLog DEF HostsDecide, AfterError
  <2>6. CASE HostsRestore(p) BY <2>6, SameLog DEF HostsRestore
  <2>7. CASE HostsConfirm(p) BY <2>7, ErrorKeeps, SameLog DEF HostsConfirm, AfterError
  <2>8. CASE PfDecide(p) BY <2>8, PfKeeps, ErrorKeeps, SameLog DEF PfDecide, AfterError
  <2>9. CASE PfRestore(p)
    BY <2>9, PfKeeps, ErrorKeeps, SameLog DEF PfRestore, AfterError
  <2>10. CASE CleanupFails(p) BY <2>10, ErrorKeeps, SameLog DEF CleanupFails, AfterError
  <2>11. CASE Cleaned(p) BY <2>11, LeaveKeeps, SameLog DEF Cleaned
  <2> QED
    BY <1>5, <2>1, <2>2, <2>3, <2>4, <2>5, <2>6, <2>7, <2>8, <2>9, <2>10, <2>11 DEF
       CleanupStep
<1>6. ASSUME NEW p \in Proc, ClosingStep(p) PROVE Fresh'
  <2>1. CASE RecordedStop(p) BY <2>1, LeaveKeeps, SameLog DEF RecordedStop
  <2>2. CASE StopWatchdog(p) BY <2>2, SameLog DEF StopWatchdog, Blank
  <2>3. CASE LogStopped(p)
    BY <2>3, LeaveKeeps, LogKeeps, SameLog DEF LogStopped, LogThen
  <2>4. CASE LogFinished(p)
    BY <2>4, LeaveKeeps, LogKeeps, SameLog DEF LogFinished, OutcomesOf, LogThen
  <2>5. CASE FreezeArtifacts(p) BY <2>5, LeaveKeeps, SameLog DEF FreezeArtifacts
  <2>6. CASE WriteManifest(p) BY <2>6, SameLog DEF WriteManifest
  <2>7. CASE CloseDirectory(p) BY <2>7, LeaveKeeps, SameLog DEF CloseDirectory
  <2> QED BY <1>6, <2>1, <2>2, <2>3, <2>4, <2>5, <2>6, <2>7 DEF ClosingStep
<1>7. CASE UNCHANGED vars BY <1>7, SameLog DEF vars
<1> QED
  BY <1>1, <1>2, <1>3, <1>4, <1>5, <1>6, <1>7 DEF Next, ProcessStep

\* The PF rule and its reference follow firewall-state.json's preparation.
LEMMA BegunPfNext ==
  ASSUME Sequential, TypeOK, Exclusive, Alone, Fresh, BegunPf, [Next]_vars
  PROVE  BegunPf'
<1> USE DEF Sequential, TypeOK, Exclusive, Alone, TryLabels, BegunPf, Fresh, Body,
  Sealed, UntilSpawn, UntilCapState, UntilPfSave, MayWrite
<1>1. ASSUME Environment PROVE BegunPf'
  <2>1. CASE Prepare BY <2>1 DEF Prepare
  <2>2. ASSUME NEW c \in Commands, Command(c) PROVE BegunPf' BY <2>2 DEF Command
  <2>3. CASE Interrupt BY <2>3 DEF Interrupt
  <2>4. CASE CaptureGrows BY <2>4 DEF CaptureGrows
  <2>5. CASE EditHosts BY <2>5 DEF EditHosts
  <2>6. CASE Reboot BY <2>6 DEF Reboot, Blank
  <2>7. ASSUME NEW p \in Proc, Kill(p) PROVE BegunPf' BY <2>7, LeaveKeeps DEF Kill
  <2> QED BY <1>1, <2>1, <2>2, <2>3, <2>4, <2>5, <2>6, <2>7 DEF Environment
<1>2. ASSUME PrepareStep PROVE BegunPf'
  <2>1. CASE PrepareRecord BY <2>1 DEF PrepareRecord
  <2>2. CASE PrepareCapture BY <2>2, PrivKeeps DEF PrepareCapture
  <2>3. CASE PfEnable BY <2>3, PfKeeps DEF PfEnable
  <2>4. CASE PfTokenUnparsed BY <2>4 DEF PfTokenUnparsed
  <2>5. CASE PfApply BY <2>5, PfKeeps DEF PfApply
  <2>6. CASE HostsRead BY <2>6, VersionKeeps DEF HostsRead
  <2>7. CASE HostsSave BY <2>7 DEF HostsSave
  <2>8. CASE HostsInstall BY <2>8 DEF HostsInstall
  <2>9. CASE HostsMark BY <2>9 DEF HostsMark
  <2>10. CASE PrepareLaunch BY <2>10 DEF PrepareLaunch
  <2>11. CASE StartWatchdog BY <2>11 DEF StartWatchdog
  <2>12. CASE OpenSafari BY <2>12, LeaveKeeps DEF OpenSafari
  <2>13. CASE PrepareFails BY <2>13 DEF PrepareFails, WriteRefused
  <2>14. CASE PrepareHandler BY <2>14 DEF PrepareHandler, Acquire
  <2>15. CASE PrepareErrorDetected BY <2>15, LeaveKeeps DEF PrepareErrorDetected
  <2> QED
    BY <1>2, <2>1, <2>2, <2>3, <2>4, <2>5, <2>6, <2>7, <2>8, <2>9, <2>10, <2>11,
       <2>12, <2>13, <2>14, <2>15 DEF PrepareStep
<1>3. ASSUME OperatorStep PROVE BegunPf'
  <2>1. CASE CommandLocked BY <2>1 DEF CommandLocked, Acquire
  <2>2. CASE CommandBegin BY <2>2, LeaveKeeps DEF CommandBegin
  <2>3. CASE PreCaptureAbort BY <2>3, LeaveKeeps DEF PreCaptureAbort, LogThen
  <2>4. CASE Recover BY <2>4, LeaveKeeps DEF Recover, LogThen
  <2> QED BY <1>3, <2>1, <2>2, <2>3, <2>4 DEF OperatorStep
<1>4. ASSUME WatchdogStep PROVE BegunPf'
  <2>1. CASE WatchdogWakes BY <2>1 DEF WatchdogWakes
  <2>2. CASE WatchdogLocked BY <2>2 DEF WatchdogLocked
  <2> QED BY <1>4, <2>1, <2>2 DEF WatchdogStep
<1>5. ASSUME NEW p \in Proc, CleanupStep(p) PROVE BegunPf'
  <2>1. CASE SnapshotPf(p) BY <2>1, PfKeeps DEF SnapshotPf
  <2>2. CASE StopCapture(p) BY <2>2, ErrorKeeps DEF StopCapture, AfterError
  <2>3. CASE RecordCaptureStop(p) BY <2>3, ErrorKeeps DEF RecordCaptureStop, AfterError
  <2>4. CASE RemoveCapturePid(p) BY <2>4, ErrorKeeps DEF RemoveCapturePid, AfterError
  <2>5. CASE HostsDecide(p) BY <2>5, DnsKeeps, ErrorKeeps DEF HostsDecide, AfterError
  <2>6. CASE HostsRestore(p) BY <2>6 DEF HostsRestore
  <2>7. CASE HostsConfirm(p) BY <2>7, ErrorKeeps DEF HostsConfirm, AfterError
  <2>8. CASE PfDecide(p) BY <2>8, PfKeeps, ErrorKeeps DEF PfDecide, AfterError
  <2>9. CASE PfRestore(p) BY <2>9, PfKeeps, ErrorKeeps DEF PfRestore, AfterError
  <2>10. CASE CleanupFails(p) BY <2>10, ErrorKeeps DEF CleanupFails, AfterError
  <2>11. CASE Cleaned(p) BY <2>11, LeaveKeeps DEF Cleaned
  <2> QED
    BY <1>5, <2>1, <2>2, <2>3, <2>4, <2>5, <2>6, <2>7, <2>8, <2>9, <2>10, <2>11 DEF
       CleanupStep
<1>6. ASSUME NEW p \in Proc, ClosingStep(p) PROVE BegunPf'
  <2>1. CASE RecordedStop(p) BY <2>1, LeaveKeeps DEF RecordedStop
  <2>2. CASE StopWatchdog(p) BY <2>2 DEF StopWatchdog, Blank
  <2>3. CASE LogStopped(p) BY <2>3, LeaveKeeps DEF LogStopped, LogThen
  <2>4. CASE LogFinished(p) BY <2>4, LeaveKeeps DEF LogFinished, OutcomesOf, LogThen
  <2>5. CASE FreezeArtifacts(p) BY <2>5, LeaveKeeps DEF FreezeArtifacts
  <2>6. CASE WriteManifest(p) BY <2>6 DEF WriteManifest
  <2>7. CASE CloseDirectory(p) BY <2>7, LeaveKeeps DEF CloseDirectory
  <2> QED BY <1>6, <2>1, <2>2, <2>3, <2>4, <2>5, <2>6, <2>7 DEF ClosingStep
<1>7. CASE UNCHANGED vars BY <1>7 DEF vars
<1> QED
  BY <1>1, <1>2, <1>3, <1>4, <1>5, <1>6, <1>7 DEF Next, ProcessStep

\* The override of /etc/hosts follows dns-pin-state.json.
LEMMA BegunHostsNext ==
  ASSUME Sequential, TypeOK, Exclusive, Alone, Fresh, BegunPf, BegunHosts,
         [Next]_vars
  PROVE  BegunHosts'
<1> USE DEF Sequential, TypeOK, Exclusive, Alone, TryLabels, BegunHosts, Overriding,
  BegunPf, Fresh, Body, Sealed, UntilSpawn, UntilCapState, UntilPfSave, UntilHostsSave,
  MayWrite, Pinned, Plain
<1>1. ASSUME Environment PROVE BegunHosts'
  <2>1. CASE Prepare BY <2>1 DEF Prepare
  <2>2. ASSUME NEW c \in Commands, Command(c) PROVE BegunHosts' BY <2>2 DEF Command
  <2>3. CASE Interrupt BY <2>3 DEF Interrupt
  <2>4. CASE CaptureGrows BY <2>4 DEF CaptureGrows
  <2>5. CASE EditHosts BY <2>5 DEF EditHosts
  <2>6. CASE Reboot BY <2>6 DEF Reboot, Blank
  <2>7. ASSUME NEW p \in Proc, Kill(p) PROVE BegunHosts' BY <2>7, LeaveKeeps DEF Kill
  <2> QED BY <1>1, <2>1, <2>2, <2>3, <2>4, <2>5, <2>6, <2>7 DEF Environment
<1>2. ASSUME PrepareStep PROVE BegunHosts'
  <2>1. CASE PrepareRecord BY <2>1 DEF PrepareRecord
  <2>2. CASE PrepareCapture
    <3> USE <2>2 DEF PrepareCapture
    <3>1. CASE At("prepare", "capState")
      <4>1. mem'["prepare"].priv <=> plan # "unpinned"
        BY <3>1, PrivKeeps
      <4>2. pc'["prepare"] \in Overriding => plan # "unpinned"
        BY <3>1
      <4>3. UNCHANGED <<dnsState, pfState, hosts>>
        OBVIOUS
      <4>4. dnsState = {} /\ pfState = {} /\ ~hosts.pin
        BY <3>1
      <4> QED
        BY <3>1, <4>1, <4>2, <4>3, <4>4
    <3>2. CASE ~At("prepare", "capState")
      BY <3>2
    <3> QED
      BY <3>1, <3>2
  <2>3. CASE PfEnable BY <2>3, PfKeeps DEF PfEnable
  <2>4. CASE PfTokenUnparsed BY <2>4 DEF PfTokenUnparsed
  <2>5. CASE PfApply BY <2>5, PfKeeps DEF PfApply
  <2>6. CASE HostsRead BY <2>6, VersionKeeps DEF HostsRead
  <2>7. CASE HostsSave BY <2>7 DEF HostsSave
  <2>8. CASE HostsInstall BY <2>8 DEF HostsInstall
  <2>9. CASE HostsMark BY <2>9 DEF HostsMark
  <2>10. CASE PrepareLaunch BY <2>10 DEF PrepareLaunch
  <2>11. CASE StartWatchdog BY <2>11 DEF StartWatchdog
  <2>12. CASE OpenSafari BY <2>12, LeaveKeeps DEF OpenSafari
  <2>13. CASE PrepareFails BY <2>13 DEF PrepareFails, WriteRefused
  <2>14. CASE PrepareHandler BY <2>14 DEF PrepareHandler, Acquire
  <2>15. CASE PrepareErrorDetected BY <2>15, LeaveKeeps DEF PrepareErrorDetected
  <2> QED
    BY <1>2, <2>1, <2>2, <2>3, <2>4, <2>5, <2>6, <2>7, <2>8, <2>9, <2>10, <2>11,
       <2>12, <2>13, <2>14, <2>15 DEF PrepareStep
<1>3. ASSUME OperatorStep PROVE BegunHosts'
  <2>1. CASE CommandLocked BY <2>1 DEF CommandLocked, Acquire
  <2>2. CASE CommandBegin BY <2>2, LeaveKeeps DEF CommandBegin
  <2>3. CASE PreCaptureAbort BY <2>3, LeaveKeeps DEF PreCaptureAbort, LogThen
  <2>4. CASE Recover BY <2>4, LeaveKeeps DEF Recover, LogThen
  <2> QED BY <1>3, <2>1, <2>2, <2>3, <2>4 DEF OperatorStep
<1>4. ASSUME WatchdogStep PROVE BegunHosts'
  <2>1. CASE WatchdogWakes BY <2>1 DEF WatchdogWakes
  <2>2. CASE WatchdogLocked BY <2>2 DEF WatchdogLocked
  <2> QED BY <1>4, <2>1, <2>2 DEF WatchdogStep
<1>5. ASSUME NEW p \in Proc, CleanupStep(p) PROVE BegunHosts'
  <2>1. CASE SnapshotPf(p) BY <2>1, PfKeeps DEF SnapshotPf
  <2>2. CASE StopCapture(p) BY <2>2, ErrorKeeps DEF StopCapture, AfterError
  <2>3. CASE RecordCaptureStop(p) BY <2>3, ErrorKeeps DEF RecordCaptureStop, AfterError
  <2>4. CASE RemoveCapturePid(p) BY <2>4, ErrorKeeps DEF RemoveCapturePid, AfterError
  <2>5. CASE HostsDecide(p) BY <2>5, DnsKeeps, ErrorKeeps DEF HostsDecide, AfterError
  <2>6. CASE HostsRestore(p) BY <2>6 DEF HostsRestore
  <2>7. CASE HostsConfirm(p) BY <2>7, ErrorKeeps DEF HostsConfirm, AfterError
  <2>8. CASE PfDecide(p) BY <2>8, PfKeeps, ErrorKeeps DEF PfDecide, AfterError
  <2>9. CASE PfRestore(p) BY <2>9, PfKeeps, ErrorKeeps DEF PfRestore, AfterError
  <2>10. CASE CleanupFails(p) BY <2>10, ErrorKeeps DEF CleanupFails, AfterError
  <2>11. CASE Cleaned(p) BY <2>11, LeaveKeeps DEF Cleaned
  <2> QED
    BY <1>5, <2>1, <2>2, <2>3, <2>4, <2>5, <2>6, <2>7, <2>8, <2>9, <2>10, <2>11 DEF
       CleanupStep
<1>6. ASSUME NEW p \in Proc, ClosingStep(p) PROVE BegunHosts'
  <2>1. CASE RecordedStop(p) BY <2>1, LeaveKeeps DEF RecordedStop
  <2>2. CASE StopWatchdog(p) BY <2>2 DEF StopWatchdog, Blank
  <2>3. CASE LogStopped(p) BY <2>3, LeaveKeeps DEF LogStopped, LogThen
  <2>4. CASE LogFinished(p) BY <2>4, LeaveKeeps DEF LogFinished, OutcomesOf, LogThen
  <2>5. CASE FreezeArtifacts(p) BY <2>5, LeaveKeeps DEF FreezeArtifacts
  <2>6. CASE WriteManifest(p) BY <2>6 DEF WriteManifest
  <2>7. CASE CloseDirectory(p) BY <2>7, LeaveKeeps DEF CloseDirectory
  <2> QED BY <1>6, <2>1, <2>2, <2>3, <2>4, <2>5, <2>6, <2>7 DEF ClosingStep
<1>7. CASE UNCHANGED vars BY <1>7 DEF vars
<1> QED
  BY <1>1, <1>2, <1>3, <1>4, <1>5, <1>6, <1>7 DEF Next, ProcessStep

\* Whoever reaches the finalization has seen the capture stopped.
LEMMA CaptureUndoneNext ==
  ASSUME Sequential, TypeOK, Exclusive, Alone, Quiet, Fresh, BegunCapture,
         BegunHosts, Intact, CaptureUndone, [Next]_vars
  PROVE  CaptureUndone'
<1> USE DEF Sequential, TypeOK, Exclusive, Alone, TryLabels, CaptureUndone, Quiet,
  Fresh, Body, Sealed, Cleared, Sealing, MayWrite, MayAppend, PreCapture, BegunCapture,
  UntilSpawn, UntilCapState
<1>1. ASSUME Environment PROVE CaptureUndone'
  <2>1. CASE Prepare BY <2>1, SameLog DEF Prepare
  <2>2. ASSUME NEW c \in Commands, Command(c) PROVE CaptureUndone'
    BY <2>2, SameLog DEF Command
  <2>3. CASE Interrupt BY <2>3, SameLog DEF Interrupt
  <2>4. CASE CaptureGrows BY <2>4, SameLog DEF CaptureGrows
  <2>5. CASE EditHosts BY <2>5, SameLog DEF EditHosts
  <2>6. CASE Reboot BY <2>6, SameLog DEF Reboot, Blank
  <2>7. ASSUME NEW p \in Proc, Kill(p) PROVE CaptureUndone'
    BY <2>7, LeaveKeeps, SameLog DEF Kill
  <2> QED BY <1>1, <2>1, <2>2, <2>3, <2>4, <2>5, <2>6, <2>7 DEF Environment
<1>2. ASSUME PrepareStep PROVE CaptureUndone'
  <2>1. CASE PrepareRecord BY <2>1, LogKeeps, SameLog DEF PrepareRecord
  <2>2. CASE PrepareCapture BY <2>2, PrivKeeps, SameLog DEF PrepareCapture
  <2>3. CASE PfEnable BY <2>3, PfKeeps, SameLog DEF PfEnable
  <2>4. CASE PfTokenUnparsed BY <2>4, SameLog DEF PfTokenUnparsed
  <2>5. CASE PfApply BY <2>5, PfKeeps, SameLog DEF PfApply
  <2>6. CASE HostsRead BY <2>6, VersionKeeps, SameLog DEF HostsRead
  <2>7. CASE HostsSave BY <2>7, SameLog DEF HostsSave
  <2>8. CASE HostsInstall BY <2>8, SameLog DEF HostsInstall
  <2>9. CASE HostsMark BY <2>9, SameLog DEF HostsMark
  <2>10. CASE PrepareLaunch BY <2>10, LogKeeps DEF PrepareLaunch
  <2>11. CASE StartWatchdog BY <2>11, SameLog DEF StartWatchdog
  <2>12. CASE OpenSafari BY <2>12, LeaveKeeps, LogKeeps DEF OpenSafari
  <2>13. CASE PrepareFails
    <3> USE <2>13, SameLog DEF PrepareFails, WriteRefused
    <3>1. CASE At("prepare", "capPid")
      BY <3>1
    <3>2. CASE ~At("prepare", "capPid")
      <4>1. UNCHANGED <<tcpdump, files, capState>>
        BY <3>2
      <4> QED
        BY <3>2, <4>1
    <3> QED
      BY <3>1, <3>2
  <2>14. CASE PrepareHandler BY <2>14, SameLog DEF PrepareHandler, Acquire
  <2>15. CASE PrepareErrorDetected
    BY <2>15, LeaveKeeps, LogKeeps, SameLog DEF PrepareErrorDetected
  <2> QED
    BY <1>2, <2>1, <2>2, <2>3, <2>4, <2>5, <2>6, <2>7, <2>8, <2>9, <2>10, <2>11,
       <2>12, <2>13, <2>14, <2>15 DEF PrepareStep
<1>3. ASSUME OperatorStep PROVE CaptureUndone'
  <2>1. CASE CommandLocked BY <2>1, SameLog DEF CommandLocked, Acquire
  <2>2. CASE CommandBegin BY <2>2, LeaveKeeps, SameLog DEF CommandBegin
  <2>3. CASE PreCaptureAbort
    BY <2>3, LeaveKeeps, LogKeeps, SameLog DEF PreCaptureAbort, LogThen
  <2>4. CASE Recover BY <2>4, LeaveKeeps, LogKeeps, SameLog DEF Recover, LogThen
  <2> QED BY <1>3, <2>1, <2>2, <2>3, <2>4 DEF OperatorStep
<1>4. ASSUME WatchdogStep PROVE CaptureUndone'
  <2>1. CASE WatchdogWakes BY <2>1, SameLog DEF WatchdogWakes
  <2>2. CASE WatchdogLocked BY <2>2, SameLog DEF WatchdogLocked
  <2> QED BY <1>4, <2>1, <2>2 DEF WatchdogStep
<1>5. ASSUME NEW p \in Proc, CleanupStep(p) PROVE CaptureUndone'
  <2>1. CASE SnapshotPf(p) BY <2>1, PfKeeps, SameLog DEF SnapshotPf
  <2>2. CASE StopCapture(p) BY <2>2, ErrorKeeps, SameLog DEF StopCapture, AfterError
  <2>3. CASE RecordCaptureStop(p)
    BY <2>3, ErrorKeeps, SameLog DEF RecordCaptureStop, AfterError
  <2>4. CASE RemoveCapturePid(p)
    BY <2>4, ErrorKeeps, SameLog DEF RemoveCapturePid, AfterError
  <2>5. CASE HostsDecide(p)
    BY <2>5, DnsKeeps, ErrorKeeps, SameLog DEF HostsDecide, AfterError
  <2>6. CASE HostsRestore(p) BY <2>6, SameLog DEF HostsRestore
  <2>7. CASE HostsConfirm(p) BY <2>7, ErrorKeeps, SameLog DEF HostsConfirm, AfterError
  <2>8. CASE PfDecide(p) BY <2>8, PfKeeps, ErrorKeeps, SameLog DEF PfDecide, AfterError
  <2>9. CASE PfRestore(p)
    BY <2>9, PfKeeps, ErrorKeeps, SameLog DEF PfRestore, AfterError
  <2>10. CASE CleanupFails(p) BY <2>10, ErrorKeeps, SameLog DEF CleanupFails, AfterError
  <2>11. CASE Cleaned(p) BY <2>11, LeaveKeeps, SameLog DEF Cleaned
  <2> QED
    BY <1>5, <2>1, <2>2, <2>3, <2>4, <2>5, <2>6, <2>7, <2>8, <2>9, <2>10, <2>11 DEF
       CleanupStep
<1>6. ASSUME NEW p \in Proc, ClosingStep(p) PROVE CaptureUndone'
  <2>1. CASE RecordedStop(p) BY <2>1, LeaveKeeps, SameLog DEF RecordedStop
  <2>2. CASE StopWatchdog(p) BY <2>2, SameLog DEF StopWatchdog, Blank
  <2>3. CASE LogStopped(p)
    BY <2>3, LeaveKeeps, LogKeeps, SameLog DEF LogStopped, LogThen
  <2>4. CASE LogFinished(p)
    BY <2>4, LeaveKeeps, LogKeeps, SameLog DEF LogFinished, OutcomesOf, LogThen
  <2>5. CASE FreezeArtifacts(p) BY <2>5, LeaveKeeps, SameLog DEF FreezeArtifacts
  <2>6. CASE WriteManifest(p) BY <2>6, SameLog DEF WriteManifest
  <2>7. CASE CloseDirectory(p) BY <2>7, LeaveKeeps, SameLog DEF CloseDirectory
  <2> QED BY <1>6, <2>1, <2>2, <2>3, <2>4, <2>5, <2>6, <2>7 DEF ClosingStep
<1>7. CASE UNCHANGED vars BY <1>7, SameLog DEF vars
<1> QED
  BY <1>1, <1>2, <1>3, <1>4, <1>5, <1>6, <1>7 DEF Next, ProcessStep

\* Whoever gets past the hosts cleanup without an error has seen the baseline back.
LEMMA HostsUndoneNext ==
  ASSUME Sequential, TypedInv, Exclusive, Alone, Quiet, Fresh, BegunHosts,
         HostsUndone, [Next]_vars
  PROVE  HostsUndone'
<1> USE DEF Sequential, TypeOK, Exclusive, Alone, TryLabels, HostsUndone, NoOverride,
  Restored, Quiet, Fresh, Body, Sealed, Cleared, Sealing, MayWrite, MayAppend, PreCapture,
  BegunHosts, UntilSpawn, UntilCapState, UntilPfSave, UntilHostsSave, Pinned, Plain,
  Overriding, TypedInv, Recorded, WriteAhead, DnsStates, DnsMarks
<1>1. ASSUME Environment PROVE HostsUndone'
  <2>1. CASE Prepare BY <2>1 DEF Prepare
  <2>2. ASSUME NEW c \in Commands, Command(c) PROVE HostsUndone' BY <2>2 DEF Command
  <2>3. CASE Interrupt BY <2>3 DEF Interrupt
  <2>4. CASE CaptureGrows BY <2>4 DEF CaptureGrows
  <2>5. CASE EditHosts BY <2>5 DEF EditHosts
  <2>6. CASE Reboot BY <2>6 DEF Reboot, Blank
  <2>7. ASSUME NEW p \in Proc, Kill(p) PROVE HostsUndone' BY <2>7, LeaveKeeps DEF Kill
  <2> QED BY <1>1, <2>1, <2>2, <2>3, <2>4, <2>5, <2>6, <2>7 DEF Environment
<1>2. ASSUME PrepareStep PROVE HostsUndone'
  <2>1. CASE PrepareRecord BY <2>1 DEF PrepareRecord
  <2>2. CASE PrepareCapture BY <2>2, PrivKeeps DEF PrepareCapture
  <2>3. CASE PfEnable BY <2>3, PfKeeps DEF PfEnable
  <2>4. CASE PfTokenUnparsed BY <2>4 DEF PfTokenUnparsed
  <2>5. CASE PfApply BY <2>5, PfKeeps DEF PfApply
  <2>6. CASE HostsRead BY <2>6, VersionKeeps DEF HostsRead
  <2>7. CASE HostsSave BY <2>7 DEF HostsSave
  <2>8. CASE HostsInstall BY <2>8 DEF HostsInstall
  <2>9. CASE HostsMark BY <2>9 DEF HostsMark
  <2>10. CASE PrepareLaunch BY <2>10 DEF PrepareLaunch
  <2>11. CASE StartWatchdog BY <2>11 DEF StartWatchdog
  <2>12. CASE OpenSafari BY <2>12, LeaveKeeps DEF OpenSafari
  <2>13. CASE PrepareFails BY <2>13 DEF PrepareFails, WriteRefused
  <2>14. CASE PrepareHandler BY <2>14 DEF PrepareHandler, Acquire
  <2>15. CASE PrepareErrorDetected BY <2>15, LeaveKeeps DEF PrepareErrorDetected
  <2> QED
    BY <1>2, <2>1, <2>2, <2>3, <2>4, <2>5, <2>6, <2>7, <2>8, <2>9, <2>10, <2>11,
       <2>12, <2>13, <2>14, <2>15 DEF PrepareStep
<1>3. ASSUME OperatorStep PROVE HostsUndone'
  <2>1. CASE CommandLocked BY <2>1 DEF CommandLocked, Acquire
  <2>2. CASE CommandBegin BY <2>2, LeaveKeeps DEF CommandBegin
  <2>3. CASE PreCaptureAbort BY <2>3, LeaveKeeps DEF PreCaptureAbort, LogThen
  <2>4. CASE Recover BY <2>4, LeaveKeeps DEF Recover, LogThen
  <2> QED BY <1>3, <2>1, <2>2, <2>3, <2>4 DEF OperatorStep
<1>4. ASSUME WatchdogStep PROVE HostsUndone'
  <2>1. CASE WatchdogWakes BY <2>1 DEF WatchdogWakes
  <2>2. CASE WatchdogLocked BY <2>2 DEF WatchdogLocked
  <2> QED BY <1>4, <2>1, <2>2 DEF WatchdogStep
<1>5. ASSUME NEW p \in Proc, CleanupStep(p) PROVE HostsUndone'
  <2>1. CASE SnapshotPf(p) BY <2>1, PfKeeps DEF SnapshotPf
  <2>2. CASE StopCapture(p) BY <2>2, ErrorKeeps DEF StopCapture, AfterError
  <2>3. CASE RecordCaptureStop(p) BY <2>3, ErrorKeeps DEF RecordCaptureStop, AfterError
  <2>4. CASE RemoveCapturePid(p) BY <2>4, ErrorKeeps DEF RemoveCapturePid, AfterError
  <2>5. CASE HostsDecide(p) BY <2>5, DnsKeeps, ErrorKeeps DEF HostsDecide, AfterError
  <2>6. CASE HostsRestore(p) BY <2>6 DEF HostsRestore
  <2>7. CASE HostsConfirm(p) BY <2>7, ErrorKeeps DEF HostsConfirm, AfterError
  <2>8. CASE PfDecide(p) BY <2>8, PfKeeps, ErrorKeeps DEF PfDecide, AfterError
  <2>9. CASE PfRestore(p) BY <2>9, PfKeeps, ErrorKeeps DEF PfRestore, AfterError
  <2>10. CASE CleanupFails(p) BY <2>10, ErrorKeeps DEF CleanupFails, AfterError
  <2>11. CASE Cleaned(p) BY <2>11, LeaveKeeps DEF Cleaned
  <2> QED
    BY <1>5, <2>1, <2>2, <2>3, <2>4, <2>5, <2>6, <2>7, <2>8, <2>9, <2>10, <2>11 DEF
       CleanupStep
<1>6. ASSUME NEW p \in Proc, ClosingStep(p) PROVE HostsUndone'
  <2>1. CASE RecordedStop(p) BY <2>1, LeaveKeeps DEF RecordedStop
  <2>2. CASE StopWatchdog(p) BY <2>2 DEF StopWatchdog, Blank
  <2>3. CASE LogStopped(p) BY <2>3, LeaveKeeps DEF LogStopped, LogThen
  <2>4. CASE LogFinished(p) BY <2>4, LeaveKeeps DEF LogFinished, OutcomesOf, LogThen
  <2>5. CASE FreezeArtifacts(p) BY <2>5, LeaveKeeps DEF FreezeArtifacts
  <2>6. CASE WriteManifest(p) BY <2>6 DEF WriteManifest
  <2>7. CASE CloseDirectory(p) BY <2>7, LeaveKeeps DEF CloseDirectory
  <2> QED BY <1>6, <2>1, <2>2, <2>3, <2>4, <2>5, <2>6, <2>7 DEF ClosingStep
<1>7. CASE UNCHANGED vars BY <1>7 DEF vars
<1> QED
  BY <1>1, <1>2, <1>3, <1>4, <1>5, <1>6, <1>7 DEF Next, ProcessStep

\* Whoever gets past the firewall cleanup without an error has flushed the anchor
\* and returned the reference.
LEMMA PfUndoneNext ==
  ASSUME Sequential, TypedInv, Exclusive, Alone, Quiet, Fresh, BegunPf,
         BegunHosts, PfUndone, [Next]_vars
  PROVE  PfUndone'
<1> USE DEF Sequential, TypeOK, Exclusive, Alone, TryLabels, PfUndone, PfActing, NoRule,
  Restored, Quiet, Fresh, Body, Sealed, Cleared, Sealing, MayWrite, MayAppend, PreCapture,
  BegunPf, BegunHosts, UntilSpawn, UntilCapState, UntilPfSave, Overriding, TypedInv,
  Recorded, WriteAhead, PfMarks
<1>1. ASSUME Environment PROVE PfUndone'
  <2>1. CASE Prepare BY <2>1 DEF Prepare
  <2>2. ASSUME NEW c \in Commands, Command(c) PROVE PfUndone' BY <2>2 DEF Command
  <2>3. CASE Interrupt BY <2>3 DEF Interrupt
  <2>4. CASE CaptureGrows BY <2>4 DEF CaptureGrows
  <2>5. CASE EditHosts BY <2>5 DEF EditHosts
  <2>6. CASE Reboot BY <2>6 DEF Reboot, Blank
  <2>7. ASSUME NEW p \in Proc, Kill(p) PROVE PfUndone' BY <2>7, LeaveKeeps DEF Kill
  <2> QED BY <1>1, <2>1, <2>2, <2>3, <2>4, <2>5, <2>6, <2>7 DEF Environment
<1>2. ASSUME PrepareStep PROVE PfUndone'
  <2>1. CASE PrepareRecord BY <2>1 DEF PrepareRecord
  <2>2. CASE PrepareCapture BY <2>2, PrivKeeps DEF PrepareCapture
  <2>3. CASE PfEnable BY <2>3, PfKeeps DEF PfEnable
  <2>4. CASE PfTokenUnparsed BY <2>4 DEF PfTokenUnparsed
  <2>5. CASE PfApply BY <2>5, PfKeeps DEF PfApply
  <2>6. CASE HostsRead BY <2>6, VersionKeeps DEF HostsRead
  <2>7. CASE HostsSave BY <2>7 DEF HostsSave
  <2>8. CASE HostsInstall BY <2>8 DEF HostsInstall
  <2>9. CASE HostsMark BY <2>9 DEF HostsMark
  <2>10. CASE PrepareLaunch BY <2>10 DEF PrepareLaunch
  <2>11. CASE StartWatchdog BY <2>11 DEF StartWatchdog
  <2>12. CASE OpenSafari BY <2>12, LeaveKeeps DEF OpenSafari
  <2>13. CASE PrepareFails BY <2>13 DEF PrepareFails, WriteRefused
  <2>14. CASE PrepareHandler BY <2>14 DEF PrepareHandler, Acquire
  <2>15. CASE PrepareErrorDetected BY <2>15, LeaveKeeps DEF PrepareErrorDetected
  <2> QED
    BY <1>2, <2>1, <2>2, <2>3, <2>4, <2>5, <2>6, <2>7, <2>8, <2>9, <2>10, <2>11,
       <2>12, <2>13, <2>14, <2>15 DEF PrepareStep
<1>3. ASSUME OperatorStep PROVE PfUndone'
  <2>1. CASE CommandLocked BY <2>1 DEF CommandLocked, Acquire
  <2>2. CASE CommandBegin
    <3> USE <2>2, LeaveKeeps DEF CommandBegin
    <3>1. CASE pc'["operator"] = "preAbort"
      <4>1. PreCapture
        BY <3>1 DEF Leave
      <4>2. pfState = {} /\ ~pfRule
        BY <4>1
      <4> QED
        BY <3>1, <4>2
    <3>2. CASE pc'["operator"] # "preAbort"
      BY <3>2
    <3> QED
      BY <3>1, <3>2
  <2>3. CASE PreCaptureAbort BY <2>3, LeaveKeeps DEF PreCaptureAbort, LogThen
  <2>4. CASE Recover BY <2>4, LeaveKeeps DEF Recover, LogThen
  <2> QED BY <1>3, <2>1, <2>2, <2>3, <2>4 DEF OperatorStep
<1>4. ASSUME WatchdogStep PROVE PfUndone'
  <2>1. CASE WatchdogWakes BY <2>1 DEF WatchdogWakes
  <2>2. CASE WatchdogLocked BY <2>2 DEF WatchdogLocked
  <2> QED BY <1>4, <2>1, <2>2 DEF WatchdogStep
<1>5. ASSUME NEW p \in Proc, CleanupStep(p) PROVE PfUndone'
  <2>1. CASE SnapshotPf(p) BY <2>1, PfKeeps DEF SnapshotPf
  <2>2. CASE StopCapture(p) BY <2>2, ErrorKeeps DEF StopCapture, AfterError
  <2>3. CASE RecordCaptureStop(p) BY <2>3, ErrorKeeps DEF RecordCaptureStop, AfterError
  <2>4. CASE RemoveCapturePid(p) BY <2>4, ErrorKeeps DEF RemoveCapturePid, AfterError
  <2>5. CASE HostsDecide(p) BY <2>5, DnsKeeps, ErrorKeeps DEF HostsDecide, AfterError
  <2>6. CASE HostsRestore(p) BY <2>6 DEF HostsRestore
  <2>7. CASE HostsConfirm(p) BY <2>7, ErrorKeeps DEF HostsConfirm, AfterError
  <2>8. CASE PfDecide(p) BY <2>8, PfKeeps, ErrorKeeps DEF PfDecide, AfterError
  <2>9. CASE PfRestore(p)
    <3> USE <2>9 DEF PfRestore
    <3>1. CASE At(p, "pfFlush")
      BY <3>1
    <3>2. CASE At(p, "pfCleared")
      <4>1. pfState' = mem[p].pf \cup {"cleared"} /\ mem[p].pf = pfState
            /\ Remember(p, "pf", mem[p].pf \cup {"cleared"})
        BY <3>2
      <4>2. mem'[p].pf = pfState' /\ \A q \in Proc : q # p => mem'[q] = mem[q]
        BY <4>1, PfKeeps
      <4> QED
        BY <3>2, <4>1, <4>2
    <3>3. CASE At(p, "release")
      BY <3>3, ErrorKeeps DEF AfterError
    <3>4. CASE At(p, "released")
      <4>1. pfState' = mem[p].pf \cup {"released"} /\ mem[p].pf = pfState
            /\ Remember(p, "pf", mem[p].pf \cup {"released"})
        BY <3>4
      <4>2. mem'[p].pf = pfState' /\ \A q \in Proc : q # p => mem'[q] = mem[q]
        BY <4>1, PfKeeps
      <4> QED
        BY <3>4, <4>1, <4>2
    <3>5. CASE At(p, "pfDone")
      <4>1. pfState' = pfState \cup {"restored"}
        BY <3>5
      <4> QED
        BY <3>5, <4>1
    <3> QED
      BY <3>1, <3>2, <3>3, <3>4, <3>5
  <2>10. CASE CleanupFails(p) BY <2>10, ErrorKeeps DEF CleanupFails, AfterError
  <2>11. CASE Cleaned(p) BY <2>11, LeaveKeeps DEF Cleaned
  <2> QED
    BY <1>5, <2>1, <2>2, <2>3, <2>4, <2>5, <2>6, <2>7, <2>8, <2>9, <2>10, <2>11 DEF
       CleanupStep
<1>6. ASSUME NEW p \in Proc, ClosingStep(p) PROVE PfUndone'
  <2>1. CASE RecordedStop(p) BY <2>1, LeaveKeeps DEF RecordedStop
  <2>2. CASE StopWatchdog(p) BY <2>2 DEF StopWatchdog, Blank
  <2>3. CASE LogStopped(p) BY <2>3, LeaveKeeps DEF LogStopped, LogThen
  <2>4. CASE LogFinished(p) BY <2>4, LeaveKeeps DEF LogFinished, OutcomesOf, LogThen
  <2>5. CASE FreezeArtifacts(p) BY <2>5, LeaveKeeps DEF FreezeArtifacts
  <2>6. CASE WriteManifest(p) BY <2>6 DEF WriteManifest
  <2>7. CASE CloseDirectory(p) BY <2>7, LeaveKeeps DEF CloseDirectory
  <2> QED BY <1>6, <2>1, <2>2, <2>3, <2>4, <2>5, <2>6, <2>7 DEF ClosingStep
<1>7. CASE UNCHANGED vars BY <1>7 DEF vars
<1> QED
  BY <1>1, <1>2, <1>3, <1>4, <1>5, <1>6, <1>7 DEF Next, ProcessStep

\* The outcome is logged before the artifacts are hashed.
LEMMA ConcludedNext ==
  ASSUME TypeOK, Exclusive, Concluded, [Next]_vars
  PROVE  Concluded'
<1> USE DEF TypeOK, Exclusive, TryLabels, Concluded, Sealing, Sealed, Outcomes
<1>1. ASSUME Environment PROVE Concluded'
  <2>1. CASE Prepare BY <2>1, SameLog DEF Prepare
  <2>2. ASSUME NEW c \in Commands, Command(c) PROVE Concluded'
    BY <2>2, SameLog DEF Command
  <2>3. CASE Interrupt BY <2>3, SameLog DEF Interrupt
  <2>4. CASE CaptureGrows BY <2>4, SameLog DEF CaptureGrows
  <2>5. CASE EditHosts BY <2>5, SameLog DEF EditHosts
  <2>6. CASE Reboot BY <2>6, SameLog DEF Reboot, Blank
  <2>7. ASSUME NEW p \in Proc, Kill(p) PROVE Concluded'
    BY <2>7, LeaveKeeps, SameLog DEF Kill
  <2> QED BY <1>1, <2>1, <2>2, <2>3, <2>4, <2>5, <2>6, <2>7 DEF Environment
<1>2. ASSUME PrepareStep PROVE Concluded'
  <2>1. CASE PrepareRecord BY <2>1, LogKeeps, SameLog DEF PrepareRecord
  <2>2. CASE PrepareCapture BY <2>2, PrivKeeps, SameLog DEF PrepareCapture
  <2>3. CASE PfEnable BY <2>3, PfKeeps, SameLog DEF PfEnable
  <2>4. CASE PfTokenUnparsed BY <2>4, SameLog DEF PfTokenUnparsed
  <2>5. CASE PfApply BY <2>5, PfKeeps, SameLog DEF PfApply
  <2>6. CASE HostsRead BY <2>6, VersionKeeps, SameLog DEF HostsRead
  <2>7. CASE HostsSave BY <2>7, SameLog DEF HostsSave
  <2>8. CASE HostsInstall BY <2>8, SameLog DEF HostsInstall
  <2>9. CASE HostsMark BY <2>9, SameLog DEF HostsMark
  <2>10. CASE PrepareLaunch BY <2>10, LogKeeps DEF PrepareLaunch
  <2>11. CASE StartWatchdog BY <2>11, SameLog DEF StartWatchdog
  <2>12. CASE OpenSafari BY <2>12, LeaveKeeps, LogKeeps DEF OpenSafari
  <2>13. CASE PrepareFails BY <2>13, SameLog DEF PrepareFails, WriteRefused
  <2>14. CASE PrepareHandler BY <2>14, SameLog DEF PrepareHandler, Acquire
  <2>15. CASE PrepareErrorDetected
    BY <2>15, LeaveKeeps, LogKeeps, SameLog DEF PrepareErrorDetected
  <2> QED
    BY <1>2, <2>1, <2>2, <2>3, <2>4, <2>5, <2>6, <2>7, <2>8, <2>9, <2>10, <2>11,
       <2>12, <2>13, <2>14, <2>15 DEF PrepareStep
<1>3. ASSUME OperatorStep PROVE Concluded'
  <2>1. CASE CommandLocked BY <2>1, SameLog DEF CommandLocked, Acquire
  <2>2. CASE CommandBegin BY <2>2, LeaveKeeps, SameLog DEF CommandBegin
  <2>3. CASE PreCaptureAbort
    BY <2>3, LeaveKeeps, LogKeeps, SameLog DEF PreCaptureAbort, LogThen
  <2>4. CASE Recover BY <2>4, LeaveKeeps, LogKeeps, SameLog DEF Recover, LogThen
  <2> QED BY <1>3, <2>1, <2>2, <2>3, <2>4 DEF OperatorStep
<1>4. ASSUME WatchdogStep PROVE Concluded'
  <2>1. CASE WatchdogWakes BY <2>1, SameLog DEF WatchdogWakes
  <2>2. CASE WatchdogLocked BY <2>2, SameLog DEF WatchdogLocked
  <2> QED BY <1>4, <2>1, <2>2 DEF WatchdogStep
<1>5. ASSUME NEW p \in Proc, CleanupStep(p) PROVE Concluded'
  <2>1. CASE SnapshotPf(p) BY <2>1, PfKeeps, SameLog DEF SnapshotPf
  <2>2. CASE StopCapture(p) BY <2>2, ErrorKeeps, SameLog DEF StopCapture, AfterError
  <2>3. CASE RecordCaptureStop(p)
    BY <2>3, ErrorKeeps, SameLog DEF RecordCaptureStop, AfterError
  <2>4. CASE RemoveCapturePid(p)
    BY <2>4, ErrorKeeps, SameLog DEF RemoveCapturePid, AfterError
  <2>5. CASE HostsDecide(p)
    BY <2>5, DnsKeeps, ErrorKeeps, SameLog DEF HostsDecide, AfterError
  <2>6. CASE HostsRestore(p) BY <2>6, SameLog DEF HostsRestore
  <2>7. CASE HostsConfirm(p) BY <2>7, ErrorKeeps, SameLog DEF HostsConfirm, AfterError
  <2>8. CASE PfDecide(p) BY <2>8, PfKeeps, ErrorKeeps, SameLog DEF PfDecide, AfterError
  <2>9. CASE PfRestore(p)
    BY <2>9, PfKeeps, ErrorKeeps, SameLog DEF PfRestore, AfterError
  <2>10. CASE CleanupFails(p) BY <2>10, ErrorKeeps, SameLog DEF CleanupFails, AfterError
  <2>11. CASE Cleaned(p) BY <2>11, LeaveKeeps, SameLog DEF Cleaned
  <2> QED
    BY <1>5, <2>1, <2>2, <2>3, <2>4, <2>5, <2>6, <2>7, <2>8, <2>9, <2>10, <2>11 DEF
       CleanupStep
<1>6. ASSUME NEW p \in Proc, ClosingStep(p) PROVE Concluded'
  <2>1. CASE RecordedStop(p) BY <2>1, LeaveKeeps, SameLog DEF RecordedStop
  <2>2. CASE StopWatchdog(p) BY <2>2, SameLog DEF StopWatchdog, Blank
  <2>3. CASE LogStopped(p)
    BY <2>3, LeaveKeeps, LogKeeps, SameLog DEF LogStopped, LogThen
  <2>4. CASE LogFinished(p)
    BY <2>4, LeaveKeeps, LogKeeps, SameLog DEF LogFinished, OutcomesOf, LogThen
  <2>5. CASE FreezeArtifacts(p) BY <2>5, LeaveKeeps, SameLog DEF FreezeArtifacts
  <2>6. CASE WriteManifest(p) BY <2>6, SameLog DEF WriteManifest
  <2>7. CASE CloseDirectory(p) BY <2>7, LeaveKeeps, SameLog DEF CloseDirectory
  <2> QED BY <1>6, <2>1, <2>2, <2>3, <2>4, <2>5, <2>6, <2>7 DEF ClosingStep
<1>7. CASE UNCHANGED vars BY <1>7, SameLog DEF vars
<1> QED
  BY <1>1, <1>2, <1>3, <1>4, <1>5, <1>6, <1>7 DEF Next, ProcessStep

---------------------------------------------------------------------------
\* The inductive invariant.
SeqInv ==
  /\ TypedInv /\ Exclusive /\ Unwatched /\ Untouched /\ Frozen
  /\ Alone /\ Quiet /\ Fresh /\ BegunCapture /\ BegunPf /\ BegunHosts
  /\ CaptureUndone /\ HostsUndone /\ PfUndone /\ Intact /\ Concluded

LEMMA SeqInit == Init => SeqInv
<1> SUFFICES ASSUME Init PROVE SeqInv OBVIOUS
<1> USE DEF Init
<1>1. TypedInv BY TypedInit
<1>2. Exclusive /\ Unwatched /\ Untouched /\ Frozen
  BY DEF Exclusive, Unwatched, Untouched, Early, EarlyLabels, Frozen, Sealed
<1>3. \A e : ~Logged(e) BY DEF Logged
<1>4. Alone /\ Quiet /\ Intact /\ Concluded
  BY DEF Alone, Quiet, Intact, Concluded, Sealed, Cleared, Sealing
<1>5. Fresh /\ BegunCapture /\ BegunPf /\ BegunHosts
  BY <1>3 DEF Fresh, Body, TryLabels, Sealed, BegunCapture, BegunPf, BegunHosts, UntilSpawn,
     UntilCapState, UntilPfSave, UntilHostsSave, Overriding, Plain, Blank
<1>6. CaptureUndone BY DEF CaptureUndone, Cleared, Sealing, Sealed
<1>7. HostsUndone BY DEF HostsUndone, NoOverride, Cleared, Sealing, Sealed
<1>8. PfUndone BY DEF PfUndone, PfActing, NoRule, Cleared, Sealing, Sealed
<1> QED BY <1>1, <1>2, <1>4, <1>5, <1>6, <1>7, <1>8 DEF SeqInv

LEMMA SeqNext == ASSUME Sequential, SeqInv, [Next]_vars PROVE SeqInv'
<1> USE DEF SeqInv
<1>1. TypeOK /\ TypedInv' BY TypedNext DEF TypedInv
<1>2. Exclusive' /\ Unwatched' /\ Untouched' /\ Frozen'
  BY <1>1, ExclusiveNext, UnwatchedNext, UntouchedNext, FrozenNext
<1>3. Alone' /\ Quiet' /\ Fresh' /\ Intact' /\ Concluded'
  BY <1>1, AloneNext, QuietNext, FreshNext, IntactNext, ConcludedNext
<1>4. BegunCapture' /\ BegunPf' /\ BegunHosts'
  BY <1>1, BegunCaptureNext, BegunPfNext, BegunHostsNext
<1>5. CaptureUndone' /\ HostsUndone' /\ PfUndone'
  BY <1>1, CaptureUndoneNext, HostsUndoneNext, PfUndoneNext
<1> QED BY <1>1, <1>2, <1>3, <1>4, <1>5

LEMMA SeqInvariance == ASSUME Sequential PROVE Spec => []SeqInv
<1>1. SeqInv /\ [Next]_vars => SeqInv' BY SeqNext
<1> QED BY <1>1, SeqInit, PTL DEF Spec

\* An attempt that no signal interrupts and no command overlaps is finalized only
\* with /etc/hosts, PF and the capture as they were, and with the PF reference
\* given back, whatever fails, whoever is killed and whenever the machine restarts
\* (cleanup_attempt before finalize_attempt in all four callers).  Without the two
\* hypotheses it is false: run life_orphan_capture has the interrupted attempt.
THEOREM SealedRestores == ASSUME Sequential PROVE Spec => []SealedIsRestored
<1>1. SeqInv => SealedIsRestored
  BY DEF SeqInv, SealedIsRestored, CaptureUndone, HostsUndone, NoOverride, PfUndone, NoRule
<1> QED BY <1>1, SeqInvariance, PTL

\* Under the same hypotheses an attempt that carries its manifest's sidecar matches
\* its manifest: no capture, watchdog.pid or cleanup record is written after the
\* artifacts have been hashed (stop_watchdog and cleanup_attempt before
\* finalize_attempt).
THEOREM EvidenceMatches == ASSUME Sequential PROVE Spec => []EvidenceIntact
<1>1. SeqInv => EvidenceIntact BY DEF SeqInv, EvidenceIntact, Intact, Concluded
<1> QED BY <1>1, SeqInvariance, PTL

---------------------------------------------------------------------------
\* The steps of AttemptContract, in terms of the attempt's own state.
Open == "metadata.json" \in files /\ ~Sealed
SameAltered == (hosts.pin' <=> hosts.pin) /\ (pfRule' <=> pfRule) /\ (tcpdump' <=> tcpdump)
SameOwed ==
  (Restored(dnsState') <=> Restored(dnsState)) /\ (Restored(pfState') <=> Restored(pfState))

USE DEF Contract!contract, Contract!Next, Contract!Alterations, Contract!Overrides

LEMMA Unseen ==
  ASSUME Sealed' <=> Sealed, ("metadata.json" \in files') <=> ("metadata.json" \in files),
         SameAltered, SameOwed, Sealed => events' = events
  PROVE  [Contract!Next]_(Contract!contract)
<1>1. Sealed => OutcomeOf(events') = OutcomeOf(events) OBVIOUS
<1> QED BY <1>1 DEF SameAltered, SameOwed

LEMMA BeginStep ==
  ASSUME ~Sealed, ~Sealed', "metadata.json" \notin files, "metadata.json" \in files',
         SameAltered, SameOwed
  PROVE  [Contract!Next]_(Contract!contract)
  BY DEF Contract!Begin, SameAltered, SameOwed

LEMMA UndoStep ==
  ASSUME Open, Open', SameOwed,
         hosts.pin' => hosts.pin, pfRule' => pfRule, tcpdump' => tcpdump
  PROVE  [Contract!Next]_(Contract!contract)
<1> DEFINE S == {x \in {"hosts", "rule", "capture"} :
                   CASE x = "hosts" -> ~hosts.pin'
                     [] x = "rule" -> ~pfRule'
                     [] x = "capture" -> ~tcpdump'}
<1>1. PICK T \in SUBSET Contract!Alterations : T = S OBVIOUS
<1>2. Contract!Undo(T) BY <1>1 DEF Contract!Undo, Open, SameOwed
<1> HIDE DEF S
<1> QED BY <1>2

LEMMA AlterStep ==
  ASSUME Open, Open', SameOwed, NEW x \in {"hosts", "rule", "capture"},
         x = "hosts" \/ (hosts.pin' <=> hosts.pin),
         x = "rule" \/ (pfRule' <=> pfRule),
         x = "capture" \/ (tcpdump' <=> tcpdump),
         x = "hosts" => hosts.pin' /\ ~Restored(dnsState),
         x = "rule" => pfRule' /\ ~Restored(pfState),
         x = "capture" => tcpdump'
  PROVE  [Contract!Next]_(Contract!contract)
<1>1. Contract!Alter(x) BY DEF Contract!Alter, Open, SameOwed
<1> QED BY <1>1

LEMMA RecordHosts ==
  ASSUME Open, Open', SameAltered, ~hosts.pin,
         Restored(pfState') <=> Restored(pfState)
  PROVE  [Contract!Next]_(Contract!contract)
<1>1. Contract!Owe("hosts") \/ Contract!Settle("hosts")
  BY DEF Contract!Owe, Contract!Settle, Open, SameAltered
<1> QED BY <1>1

LEMMA RecordPf ==
  ASSUME Open, Open', SameAltered, ~pfRule,
         Restored(dnsState') <=> Restored(dnsState)
  PROVE  [Contract!Next]_(Contract!contract)
<1>1. Contract!Owe("rule") \/ Contract!Settle("rule")
  BY DEF Contract!Owe, Contract!Settle, Open, SameAltered
<1> QED BY <1>1

LEMMA SealStep ==
  ASSUME Open, Sealed', SameAltered, SameOwed, events' = events, Finished,
         ~hosts.pin, ~pfRule, ~tcpdump, Restored(dnsState), Restored(pfState)
  PROVE  [Contract!Next]_(Contract!contract)
<1>1. OutcomeOf(events) \in Outcomes BY Zenon DEF Finished, OutcomeOf
<1>2. PICK o \in Outcomes : o = OutcomeOf(events) BY <1>1
<1>3. Contract!Seal(o) BY <1>2 DEF Contract!Seal, Open, SameAltered, SameOwed
<1> QED BY <1>3

\* Every step of the attempt is a step of the contract, or none.
LEMMA ContractNext ==
  ASSUME Sequential, SeqInv, [Next]_vars
  PROVE  [Contract!Next]_(Contract!contract)
<1> USE DEF Sequential, SeqInv, TypeOK, Exclusive, Alone, TryLabels, Open, SameAltered,
  SameOwed, Sealed, Restored
<1>8. TypeOK BY DEF TypedInv
<1>9. "manifest.sha256" \in files => events' = events BY <1>8, FrozenNext
<1> USE <1>8, <1>9
<1> HIDE DEF Contract!contract, Contract!Next, Contract!Alterations, Contract!Overrides
<1>1. ASSUME Environment PROVE [Contract!Next]_(Contract!contract)
  <2>1. CASE Prepare BY <2>1, Unseen DEF Prepare
  <2>2. ASSUME NEW c \in Commands, Command(c) PROVE [Contract!Next]_(Contract!contract)
    BY <2>2, Unseen DEF Command
  <2>3. CASE Interrupt BY <2>3, Unseen DEF Interrupt
  <2>4. CASE CaptureGrows BY <2>4, Unseen DEF CaptureGrows
  <2>5. CASE EditHosts BY <2>5, Unseen DEF EditHosts
  <2>6. CASE Reboot
    BY <2>6, UndoStep, Unseen DEF Reboot, Quiet, TypedInv, Recorded, WriteAhead,
       CaptureUndone, HostsUndone, PfUndone, NoOverride, NoRule
  <2>7. ASSUME NEW p \in Proc, Kill(p) PROVE [Contract!Next]_(Contract!contract)
    BY <2>7, Unseen DEF Kill, Leave
  <2> QED BY <1>1, <2>1, <2>2, <2>3, <2>4, <2>5, <2>6, <2>7 DEF Environment
<1>2. ASSUME PrepareStep PROVE [Contract!Next]_(Contract!contract)
  <2>1. CASE PrepareRecord
    BY <2>1, BeginStep, Unseen DEF PrepareRecord, Quiet, Fresh, Body
  <2>2. CASE PrepareCapture
    BY <2>2, AlterStep, Unseen DEF PrepareCapture, Quiet, Fresh, Body
  <2>3. CASE PfEnable BY <2>3, Unseen DEF PfEnable
  <2>4. CASE PfTokenUnparsed
    BY <2>4, RecordPf DEF PfTokenUnparsed, Quiet, Fresh, Body, BegunPf, UntilPfSave
  <2>5. CASE PfApply
    BY <2>5, RecordPf, AlterStep, Unseen DEF PfApply, Quiet, Fresh, Body, BegunPf,
       UntilPfSave, TypedInv, Recorded
  <2>6. CASE HostsRead BY <2>6, Unseen DEF HostsRead
  <2>7. CASE HostsSave
    BY <2>7, RecordHosts, Unseen DEF HostsSave, Quiet, Fresh, Body, BegunHosts,
       UntilHostsSave
  <2>8. CASE HostsInstall
    BY <2>8, AlterStep DEF HostsInstall, Quiet, Fresh, Body, TypedInv, Recorded, Pinned
  <2>9. CASE HostsMark
    BY <2>9, Unseen DEF HostsMark, Quiet, Fresh, Body, TypedInv, Recorded
  <2>10. CASE PrepareLaunch BY <2>10, Unseen DEF PrepareLaunch
  <2>11. CASE StartWatchdog BY <2>11, Unseen DEF StartWatchdog
  <2>12. CASE OpenSafari BY <2>12, Unseen DEF OpenSafari, Leave
  <2>13. CASE PrepareFails
    BY <2>13, UndoStep, Unseen DEF PrepareFails, WriteRefused, Quiet, Fresh, Body
  <2>14. CASE PrepareHandler BY <2>14, Unseen DEF PrepareHandler, Acquire
  <2>15. CASE PrepareErrorDetected BY <2>15, Unseen DEF PrepareErrorDetected, Leave
  <2> QED
    BY <1>2, <2>1, <2>2, <2>3, <2>4, <2>5, <2>6, <2>7, <2>8, <2>9, <2>10, <2>11,
       <2>12, <2>13, <2>14, <2>15 DEF PrepareStep
<1>3. ASSUME OperatorStep PROVE [Contract!Next]_(Contract!contract)
  <2>1. CASE CommandLocked BY <2>1, Unseen DEF CommandLocked, Acquire
  <2>2. CASE CommandBegin BY <2>2, Unseen DEF CommandBegin, Leave
  <2>3. CASE PreCaptureAbort BY <2>3, Unseen DEF PreCaptureAbort, LogThen, Leave
  <2>4. CASE Recover BY <2>4, Unseen DEF Recover, LogThen, Leave
  <2> QED BY <1>3, <2>1, <2>2, <2>3, <2>4 DEF OperatorStep
<1>4. ASSUME WatchdogStep PROVE [Contract!Next]_(Contract!contract)
  <2>1. CASE WatchdogWakes BY <2>1, Unseen DEF WatchdogWakes
  <2>2. CASE WatchdogLocked BY <2>2, Unseen DEF WatchdogLocked
  <2> QED BY <1>4, <2>1, <2>2 DEF WatchdogStep
<1>5. ASSUME NEW p \in Proc, CleanupStep(p) PROVE [Contract!Next]_(Contract!contract)
  <2>1. CASE SnapshotPf(p) BY <2>1, Unseen DEF SnapshotPf, PfUndone
  <2>2. CASE StopCapture(p)
    <3> USE <2>2 DEF StopCapture, Quiet, CaptureUndone
    <3>1. CASE Sealed
      BY <3>1, Unseen
    <3>2. CASE ~Sealed
      <4>1. Open /\ Open'
        BY <3>2
      <4> QED
        BY <4>1, UndoStep
    <3> QED
      BY <3>1, <3>2
  <2>3. CASE RecordCaptureStop(p) BY <2>3, Unseen DEF RecordCaptureStop
  <2>4. CASE RemoveCapturePid(p) BY <2>4, Unseen DEF RemoveCapturePid
  <2>5. CASE HostsDecide(p) BY <2>5, Unseen DEF HostsDecide
  <2>6. CASE HostsRestore(p) BY <2>6, UndoStep, Unseen DEF HostsRestore, Quiet, Plain
  <2>7. CASE HostsConfirm(p)
    <3> USE <2>7 DEF HostsConfirm, Quiet, Plain
    <3>1. Open /\ Open'
      OBVIOUS
    <3>2. CASE hosts = Plain(baseline)
      BY <3>1, <3>2, RecordHosts
    <3>3. CASE hosts # Plain(baseline)
      BY <3>3, Unseen
    <3> QED
      BY <3>2, <3>3
  <2>8. CASE PfDecide(p) BY <2>8, Unseen DEF PfDecide
  <2>9. CASE PfRestore(p)
    <3> USE <2>9 DEF PfRestore, Quiet, PfUndone, PfActing
    <3>1. Open /\ Open'
      OBVIOUS
    <3>2. CASE At(p, "pfFlush")
      BY <3>1, <3>2, UndoStep
    <3>3. CASE At(p, "pfDone")
      BY <3>1, <3>3, RecordPf
    <3>4. CASE ~At(p, "pfFlush") /\ ~At(p, "pfDone")
      <4>1. Restored(pfState') <=> Restored(pfState)
        BY <3>4
      <4> QED
        BY <3>4, <4>1, Unseen
    <3> QED
      BY <3>2, <3>3, <3>4
  <2>10. CASE CleanupFails(p) BY <2>10, Unseen DEF CleanupFails
  <2>11. CASE Cleaned(p) BY <2>11, Unseen DEF Cleaned, Leave
  <2> QED
    BY <1>5, <2>1, <2>2, <2>3, <2>4, <2>5, <2>6, <2>7, <2>8, <2>9, <2>10, <2>11 DEF
       CleanupStep
<1>6. ASSUME NEW p \in Proc, ClosingStep(p) PROVE [Contract!Next]_(Contract!contract)
  <2>1. CASE RecordedStop(p) BY <2>1, Unseen DEF RecordedStop, Leave
  <2>2. CASE StopWatchdog(p) BY <2>2, Unseen DEF StopWatchdog
  <2>3. CASE LogStopped(p) BY <2>3, Unseen DEF LogStopped, LogThen, Leave
  <2>4. CASE LogFinished(p) BY <2>4, Unseen DEF LogFinished, OutcomesOf, LogThen, Leave
  <2>5. CASE FreezeArtifacts(p) BY <2>5, Unseen DEF FreezeArtifacts, Leave
  <2>6. CASE WriteManifest(p)
    BY <2>6, SealStep, Unseen DEF WriteManifest, Quiet, CaptureUndone, HostsUndone,
       PfUndone, NoOverride, NoRule, Cleared, Sealing, Concluded
  <2>7. CASE CloseDirectory(p) BY <2>7, Unseen DEF CloseDirectory, Leave
  <2> QED BY <1>6, <2>1, <2>2, <2>3, <2>4, <2>5, <2>6, <2>7 DEF ClosingStep
<1>7. CASE UNCHANGED vars BY <1>7, Unseen DEF vars
<1> QED
  BY <1>1, <1>2, <1>3, <1>4, <1>5, <1>6, <1>7 DEF Next, ProcessStep

\* The attempt implements its contract: an override is owed before it is made, what
\* is owed is settled only when it is undone, and the attempt is sealed once, with
\* one outcome and nothing left altered or owed.
THEOREM ContractKept == ASSUME Sequential PROVE Spec => KeepsContract
<1>1. ASSUME Init PROVE Contract!Init
  <2>1. files = {} /\ ~hosts.pin /\ ~tcpdump /\ ~pfRule BY <1>1 DEF Init, Plain
  <2>2. Restored(dnsState) /\ Restored(pfState) BY <1>1 DEF Init, Restored
  <2> QED BY <2>1, <2>2 DEF Contract!Init, Sealed
<1>2. SeqInv /\ [Next]_vars => [Contract!Next]_(Contract!contract) BY ContractNext
<1> QED BY <1>1, <1>2, SeqInvariance, PTL DEF Spec, Contract!Spec, KeepsContract

---------------------------------------------------------------------------
\* What one more event does to the outcomes of the log.
LEMMA OneMore ==
  ASSUME TypeOK, NEW e, Log(e)
  PROVE  /\ ~Finished /\ e \in Outcomes => OneLogged'
         /\ OneLogged /\ e \notin Outcomes => OneLogged'
<1>1. /\ DOMAIN events' = 1 .. (Len(events) + 1) /\ DOMAIN events = 1 .. Len(events)
      /\ Len(events) \in Nat
      /\ \A i \in DOMAIN events : events'[i] = events[i]
      /\ events'[Len(events) + 1] = e
  BY DEF TypeOK, Log
<1>2. \A i \in DOMAIN events' : i \in DOMAIN events \/ i = Len(events) + 1 BY <1>1
<1>3. DOMAIN events \subseteq DOMAIN events' /\ Len(events) + 1 \in DOMAIN events' BY <1>1
<1>4. ~Finished /\ e \in Outcomes => OneLogged'
  BY <1>1, <1>2, <1>3, Zenon DEF Finished, OneLogged
<1>5. OneLogged /\ e \notin Outcomes => OneLogged'
  BY <1>1, <1>2, <1>3, Zenon DEF OneLogged
<1> QED BY <1>4, <1>5

LEMMA SameOutcomes == ASSUME UNCHANGED events PROVE OneLogged' <=> OneLogged
  BY DEF OneLogged

\* Logging an outcome decides the attempt, and a decided attempt logs no other.
LEMMA SingleNext ==
  ASSUME Unkilled, TypeOK, Exclusive, Unwatched, Frozen, Concluded, Single,
         [Next]_vars
  PROVE  Single'
<1> USE DEF Unkilled, TypeOK, Exclusive, Frozen, Concluded, Single, Decided, Sealing,
  Sealed, TryLabels, Outcomes, MayWrite, MayAppend, Unwatched, BeforeWatch
<1>1. ASSUME Environment PROVE Single'
  <2>1. CASE Prepare BY <2>1, SameLog, SameOutcomes DEF Prepare
  <2>2. ASSUME NEW c \in Commands, Command(c) PROVE Single'
    BY <2>2, SameLog, SameOutcomes DEF Command
  <2>3. CASE Interrupt BY <2>3, SameLog, SameOutcomes DEF Interrupt
  <2>4. CASE CaptureGrows BY <2>4, SameLog, SameOutcomes DEF CaptureGrows
  <2>5. CASE EditHosts BY <2>5, SameLog, SameOutcomes DEF EditHosts
  <2>6. CASE Reboot BY <2>6, SameLog, SameOutcomes DEF Reboot
  <2>7. ASSUME NEW p \in Proc, Kill(p) PROVE Single'
    BY <2>7, SameLog, SameOutcomes DEF Kill, Leave
  <2> QED BY <1>1, <2>1, <2>2, <2>3, <2>4, <2>5, <2>6, <2>7 DEF Environment
<1>2. ASSUME PrepareStep PROVE Single'
  <2>1. CASE PrepareRecord
    BY <2>1, LogKeeps, OneMore, SameLog, SameOutcomes DEF PrepareRecord
  <2>2. CASE PrepareCapture BY <2>2, SameLog, SameOutcomes DEF PrepareCapture
  <2>3. CASE PfEnable BY <2>3, SameLog, SameOutcomes DEF PfEnable
  <2>4. CASE PfTokenUnparsed BY <2>4, SameLog, SameOutcomes DEF PfTokenUnparsed
  <2>5. CASE PfApply BY <2>5, SameLog, SameOutcomes DEF PfApply
  <2>6. CASE HostsRead BY <2>6, SameLog, SameOutcomes DEF HostsRead
  <2>7. CASE HostsSave BY <2>7, SameLog, SameOutcomes DEF HostsSave
  <2>8. CASE HostsInstall BY <2>8, SameLog, SameOutcomes DEF HostsInstall
  <2>9. CASE HostsMark BY <2>9, SameLog, SameOutcomes DEF HostsMark
  <2>10. CASE PrepareLaunch BY <2>10, LogKeeps, OneMore DEF PrepareLaunch
  <2>11. CASE StartWatchdog BY <2>11, SameLog, SameOutcomes DEF StartWatchdog
  <2>12. CASE OpenSafari BY <2>12, LogKeeps, OneMore DEF OpenSafari, Leave
  <2>13. CASE PrepareFails
    BY <2>13, SameLog, SameOutcomes DEF PrepareFails, WriteRefused
  <2>14. CASE PrepareHandler BY <2>14, SameLog, SameOutcomes DEF PrepareHandler, Acquire
  <2>15. CASE PrepareErrorDetected
    BY <2>15, LogKeeps, OneMore, SameLog, SameOutcomes DEF PrepareErrorDetected, Leave
  <2> QED
    BY <1>2, <2>1, <2>2, <2>3, <2>4, <2>5, <2>6, <2>7, <2>8, <2>9, <2>10, <2>11,
       <2>12, <2>13, <2>14, <2>15 DEF PrepareStep
<1>3. ASSUME OperatorStep PROVE Single'
  <2>1. CASE CommandLocked BY <2>1, SameLog, SameOutcomes DEF CommandLocked, Acquire
  <2>2. CASE CommandBegin BY <2>2, SameLog, SameOutcomes DEF CommandBegin, Leave
  <2>3. CASE PreCaptureAbort
    BY <2>3, LogKeeps, OneMore, SameLog, SameOutcomes DEF PreCaptureAbort, LogThen,
       Leave
  <2>4. CASE Recover
    BY <2>4, LogKeeps, OneMore, SameLog, SameOutcomes DEF Recover, LogThen, Leave
  <2> QED BY <1>3, <2>1, <2>2, <2>3, <2>4 DEF OperatorStep
<1>4. ASSUME WatchdogStep PROVE Single'
  <2>1. CASE WatchdogWakes BY <2>1, SameLog, SameOutcomes DEF WatchdogWakes
  <2>2. CASE WatchdogLocked BY <2>2, SameLog, SameOutcomes DEF WatchdogLocked
  <2> QED BY <1>4, <2>1, <2>2 DEF WatchdogStep
<1>5. ASSUME NEW p \in Proc, CleanupStep(p) PROVE Single'
  <2>1. CASE SnapshotPf(p) BY <2>1, SameLog, SameOutcomes DEF SnapshotPf
  <2>2. CASE StopCapture(p)
    BY <2>2, ErrorKeeps, SameLog, SameOutcomes DEF StopCapture, AfterError
  <2>3. CASE RecordCaptureStop(p)
    BY <2>3, ErrorKeeps, SameLog, SameOutcomes DEF RecordCaptureStop, AfterError
  <2>4. CASE RemoveCapturePid(p)
    BY <2>4, ErrorKeeps, SameLog, SameOutcomes DEF RemoveCapturePid, AfterError
  <2>5. CASE HostsDecide(p)
    BY <2>5, ErrorKeeps, SameLog, SameOutcomes DEF HostsDecide, AfterError
  <2>6. CASE HostsRestore(p) BY <2>6, SameLog, SameOutcomes DEF HostsRestore
  <2>7. CASE HostsConfirm(p)
    BY <2>7, ErrorKeeps, SameLog, SameOutcomes DEF HostsConfirm, AfterError
  <2>8. CASE PfDecide(p)
    BY <2>8, ErrorKeeps, SameLog, SameOutcomes DEF PfDecide, AfterError
  <2>9. CASE PfRestore(p)
    BY <2>9, ErrorKeeps, SameLog, SameOutcomes DEF PfRestore, AfterError
  <2>10. CASE CleanupFails(p)
    BY <2>10, ErrorKeeps, SameLog, SameOutcomes DEF CleanupFails, AfterError
  <2>11. CASE Cleaned(p) BY <2>11, SameLog, SameOutcomes DEF Cleaned, Leave
  <2> QED
    BY <1>5, <2>1, <2>2, <2>3, <2>4, <2>5, <2>6, <2>7, <2>8, <2>9, <2>10, <2>11 DEF
       CleanupStep
<1>6. ASSUME NEW p \in Proc, ClosingStep(p) PROVE Single'
  <2>1. CASE RecordedStop(p) BY <2>1, SameLog, SameOutcomes DEF RecordedStop, Leave
  <2>2. CASE StopWatchdog(p) BY <2>2, SameLog, SameOutcomes DEF StopWatchdog
  <2>3. CASE LogStopped(p)
    BY <2>3, LogKeeps, OneMore, SameLog, SameOutcomes DEF LogStopped, LogThen, Leave
  <2>4. CASE LogFinished(p)
    BY <2>4, LogKeeps, OneMore, SameLog, SameOutcomes DEF LogFinished, OutcomesOf,
       LogThen, Leave
  <2>5. CASE FreezeArtifacts(p)
    BY <2>5, SameLog, SameOutcomes DEF FreezeArtifacts, Leave
  <2>6. CASE WriteManifest(p) BY <2>6, SameLog, SameOutcomes DEF WriteManifest
  <2>7. CASE CloseDirectory(p) BY <2>7, SameLog, SameOutcomes DEF CloseDirectory, Leave
  <2> QED BY <1>6, <2>1, <2>2, <2>3, <2>4, <2>5, <2>6, <2>7 DEF ClosingStep
<1>7. CASE UNCHANGED vars BY <1>7, SameLog, SameOutcomes DEF vars
<1> QED
  BY <1>1, <1>2, <1>3, <1>4, <1>5, <1>6, <1>7 DEF Next, ProcessStep

\* When nobody is killed and the machine does not restart, a finalized attempt has
\* logged exactly one outcome, also when commands and the watchdog overlap
\* prepare-run and whatever fails or is interrupted (run_finished is
\* appended before finalize_attempt, under the lock, in every caller).
\* A process killed between the two leaves an outcome to which its successor adds another.
THEOREM OutcomeOnce == ASSUME Unkilled PROVE Spec => []OneOutcome
<1>1. Init => Concluded /\ Single
  BY DEF Init, Concluded, Single, Decided, Sealing, Sealed, Finished
<1>2. TypeOK /\ Exclusive /\ Concluded /\ [Next]_vars => Concluded' BY ConcludedNext
<1>3. TypeOK /\ Exclusive /\ Unwatched /\ Frozen /\ Concluded /\ Single /\ [Next]_vars
      => Single'
  BY SingleNext
<1>4. Single => OneOutcome
  <2> SUFFICES ASSUME Single, Sealed
               PROVE  Cardinality({i \in DOMAIN events : events[i] \in Outcomes}) = 1
    BY DEF OneOutcome
  <2>1. OneLogged BY DEF Single, Decided
  <2>2. PICK i \in DOMAIN events :
          events[i] \in Outcomes /\ \A j \in DOMAIN events : events[j] \in Outcomes => j = i
    BY <2>1 DEF OneLogged
  <2>3. {j \in DOMAIN events : events[j] \in Outcomes} = {i} BY <2>2
  <2> QED BY <2>3, FS_Singleton
<1> QED
  BY <1>1, <1>2, <1>3, <1>4, TypeCorrect, UnwatchedHolds, MutualExclusion, FrozenHolds, PTL
     DEF Spec

=============================================================================

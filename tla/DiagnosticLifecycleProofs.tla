----------------------- MODULE DiagnosticLifecycleProofs -----------------------
(***************************************************************************)
(* What an attempt of protocol-diagnostic leaves behind: every alteration  *)
(* is on record before it is made, a finalized attempt or rehearsal has    *)
(* undone all of them, and a success had its capture.  Proved for every    *)
(* set of plans and of faults, and for every number of them.               *)
(*                                                                         *)
(* The three processes share no variable that says how far the cleanup is; *)
(* what holds of the Mac is known from the label of the one that works and *)
(* from its having met no error.  So the inductive invariant has four      *)
(* parts: who may work (Exclusive), what prepare-run has put on record     *)
(* when it gets to a label (Begun, Announced), what the cleanup has        *)
(* restored when it gets to one (Undone), and what became of the capture   *)
(* (Watched).                                                              *)
(***************************************************************************)
EXTENDS MCDiagnosticLifecycle, TLAPS

USE ConstantsAssumption DEF Proc, At, Go, Fault, procs, evidence, marks, mac

Busy == CleanupLabels \cup ClosingLabels
Starting == {"idle", "meta"} \cup TryLabels

\* The operator and the watchdog work under the attempt's lock, and not before
\* prepare-run is over.
Exclusive ==
  /\ pc["prepare"] \notin {"waiting", "wantLock", "begin", "stopWd", "validate", "recover",
                           "unlinkWd"}
  /\ pc["operator"] \in {"idle", "wantLock"} \cup Busy
  /\ pc["watchdog"] \in {"idle", "waiting", "wantLock", "done"} \cup Busy
  /\ \A p \in {"operator", "watchdog"} : pc[p] \in Busy => lock = p
  /\ pc["prepare"] # "done" =>
       pc["operator"] = "idle" /\ pc["watchdog"] \in {"idle", "waiting", "done"}

\* Nothing is on record of an attempt that was killed before its metadata.json;
\* nobody works on a finalized one, except to refuse or to write the sidecar.
Quiet ==
  /\ "metadata.json" \notin files =>
       /\ files = {} /\ capState = {} /\ dnsState = {} /\ pfState = {}
       /\ pc["prepare"] \in {"idle", "meta", "done"} /\ pc["operator"] = "idle"
       /\ pc["watchdog"] \in {"idle", "done"}
  /\ pc["prepare"] \in {"idle", "meta"} => files = {}
  /\ Sealed => /\ pc["prepare"] \in {"sidecar", "done"}
               /\ \A p \in Proc : pc[p] \in Busy => pc[p] \in {"begin", "sidecar"}

\* What prepare-run has recorded, and what it has not, at each of its labels.
UntilCapPrep == {"idle", "meta", "clock", "capPrep"}
UntilPfSave == UntilCapPrep \cup {"spawn", "settle", "capPid", "capState", "pfSave"}
UntilPfLoad == UntilPfSave \cup {"pfEnabling", "pfEnable", "pfLoading", "pfLoad"}
UntilHostsSave == UntilPfLoad \cup {"pfMark", "pfReset", "hostsSave"}
LaunchLabels == {"launch", "watch", "watchPid", "open"}

Fresh ==
  pc["prepare"] \in Starting =>
    /\ ~Sealed /\ outcomes = <<>>
    /\ capState \subseteq {"prepared", "started"}
    /\ dnsState \subseteq {"started", "installed"}
    /\ "restored" \notin pfState

BegunCapture ==
  /\ pc["prepare"] \in UntilCapPrep => capState = {}
  /\ pc["prepare"] \in UntilCapPrep \cup {"spawn"} => capture = "none" /\ ~lost
  /\ pc["prepare"] \in {"spawn", "settle", "capPid", "capState"} => "prepared" \in capState
  /\ pc["prepare"] \in (TryLabels \ UntilPfSave) \cup {"pfSave"} /\ plan # "rehearsal" =>
       "started" \in capState
  /\ pc["prepare"] \in LaunchLabels => plan # "rehearsal"

BegunPf ==
  /\ pc["prepare"] \in UntilPfSave => pfState = {}
  /\ pc["prepare"] \in TryLabels \ UntilPfSave => "saved" \in pfState
  /\ pc["prepare"] \in {"pfEnabling", "pfEnable"} => "required" \in pfState
  /\ pc["prepare"] = "pfEnable" => "enabling" \in pfState
  /\ pc["prepare"] = "pfLoad" => "loading" \in pfState

BegunHosts ==
  /\ pc["prepare"] \in UntilHostsSave => dnsState = {}
  /\ pc["prepare"] \in {"hostsInstall", "hostsMark"} => "started" \in dnsState

Begun == Fresh /\ BegunCapture /\ BegunPf /\ BegunHosts

\* AnnouncedFirst, and what its preservation by the cleanup rests on.
AnnouncedCapture ==
  /\ capState # {} => "prepared" \in capState
  /\ capture # "none" => "prepared" \in capState
  /\ opened => "started" \in capState
  /\ \A p \in Proc : pc[p] \in {"signal", "capMark", "capUnlink"} => "prepared" \in capState
  /\ \A p \in Proc : pc[p] = "signal" => "signalled" \in capState

AnnouncedHosts ==
  /\ dnsState # {} => "started" \in dnsState
  /\ hosts = "override" => "started" \in dnsState
  /\ \A p \in Proc : pc[p] \in {"hostsBack", "flush", "hostsCheck"} => "started" \in dnsState

AnnouncedPf ==
  /\ pfState # {} => "saved" \in pfState
  /\ pfRef => {"required", "enabling"} \subseteq pfState
  /\ pfRule => "loading" \in pfState
  /\ \A p \in Proc : pc[p] \in {"pfFlush", "release", "unref", "pfDone"} => "saved" \in pfState

Announced == AnnouncedCapture /\ AnnouncedHosts /\ AnnouncedPf

\* How far a cleanup that has met no error has got.
Final == {"validate", "recover", "unlinkWd", "finished", "verify", "freeze", "manifest",
          "sidecar"}
Gone == capture = "none" /\ (capState = {} \/ "stopped" \in capState)

UndoneCapture ==
  /\ \A p \in Proc : pc[p] \in {"capMark", "capUnlink"} => capture = "none"
  /\ \A p \in Proc : pc[p] = "capUnlink" => "stopped" \in capState
  /\ \A p \in Proc \ err :
       pc[p] \in {"pfSnap", "cleaned"} \cup DnsLabels \cup PfLabels => Gone
  /\ \A p \in Proc : pc[p] \in Final => Gone
  /\ Sealed => capture = "none"
  /\ outcomes # <<>> => capture = "none"

UndoneHosts ==
  /\ \A p \in Proc \ err : pc[p] \in {"cleaned"} \cup PfLabels => hosts # "override"
  /\ \A p \in Proc : pc[p] \in Final => hosts # "override"
  /\ Sealed => hosts # "override"

UndonePf ==
  /\ "restored" \in pfState => ~pfRef
  /\ \A p \in Proc : pc[p] \in {"pfFlush", "release"} /\ pfRef => pfOutput = "token"
  /\ \A p \in Proc : pc[p] \in {"unref", "pfDone"} => ~pfRule
  /\ \A p \in Proc : pc[p] = "pfDone" => ~pfRef
  /\ \A p \in Proc \ err : pc[p] = "cleaned" => ~pfRule /\ ~pfRef
  /\ \A p \in Proc : pc[p] \in Final => ~pfRule /\ ~pfRef
  /\ Sealed => ~pfRule /\ ~pfRef

Undone == UndoneCapture /\ UndoneHosts /\ UndonePf

\* What is restored is on record as restored.
Settled ==
  /\ \A p \in Proc \ err : pc[p] \in {"cleaned"} \cup PfLabels => ~Owed(dnsState)
  /\ \A p \in Proc \ err : pc[p] = "cleaned" => ~Owed(pfState)
  /\ \A p \in Proc : pc[p] \in Final => ~Owed(dnsState) /\ ~Owed(pfState)

\* A capture that was lost is found to be, before it is on record as stopped.
Watched ==
  /\ lost => capture = "none" /\ "signalled" \notin capState
  /\ \A p \in Proc : pc[p] = "capMark" /\ lost /\ "started" \in capState => Premature
  /\ "stopped" \in capState => capture = "none"
  /\ "stopped" \in capState /\ lost /\ "started" \in capState => Premature
  /\ cmd.response => opened

---------------------------------------------------------------------------
\* TypeOK in three parts, which different provers manage.
HoldersOK ==
  /\ lock \in Proc \cup {"free"}
  /\ cmd \in Commands \cup {NoCommand}
  /\ err \subseteq Proc

RecordsOK ==
  /\ plan \in Plans
  /\ files \subseteq Artifacts /\ outcomes \in Seq(Outcome)
  /\ capState \subseteq CapMarks /\ dnsState \subseteq DnsMarks /\ pfState \subseteq PfMarks
  /\ pfOutput \in {"absent", "noToken", "token"}
  /\ hosts \in {"baseline", "override", "other"}
  /\ capture \in Trees
  /\ reused \subseteq {"capture", "watchdog"}
  /\ faults \in Nat

FlagsOK ==
  /\ opened \in BOOLEAN /\ frozen \in BOOLEAN
  /\ lost \in BOOLEAN /\ pfRule \in BOOLEAN /\ pfRef \in BOOLEAN

\* A process leaves; it gives an operation up, or skips it.
LEMMA LeaveKeepsControls ==
  ASSUME TypeOK, NEW p \in Proc, Leave(p)
  PROVE  /\ pc' \in [Proc -> Labels]
         /\ lock' \in Proc \cup {"free"}
         /\ cmd' \in Commands \cup {NoCommand}
         /\ err' \subseteq Proc
<1>1. pc' \in [Proc -> Labels] BY DEF TypeOK, Leave, Labels
<1>2. lock' \in Proc \cup {"free"} BY DEF TypeOK, Leave
<1>3. cmd' \in Commands \cup {NoCommand} BY DEF TypeOK, Leave
<1>4. err' \subseteq Proc BY DEF TypeOK, Leave
<1> QED BY <1>1, <1>2, <1>3, <1>4

LEMMA SkipKeepsControls ==
  ASSUME TypeOK, NEW p \in Proc, GiveUp(p) \/ Skip(p)
  PROVE  pc' \in [Proc -> Labels] /\ err' \subseteq Proc
<1>1. NextOperation(pc[p]) \in Labels
  BY DEF NextOperation, Labels, CleanupLabels, DnsLabels, PfLabels
<1>2. pc' \in [Proc -> Labels] BY <1>1 DEF TypeOK, GiveUp, Skip
<1>3. err' \subseteq Proc BY DEF TypeOK, GiveUp, Skip
<1> QED BY <1>2, <1>3

LEMMA PcNext ==
  ASSUME TypeOK, [Next]_vars
  PROVE  pc' \in [Proc -> Labels]
<1> USE DEF TypeOK, Labels, TryLabels, CleanupLabels, CaptureLabels, DnsLabels,
  PfLabels, ClosingLabels
<1>1. ASSUME Environment PROVE pc' \in [Proc -> Labels]
  <2>1. CASE Prepare BY <2>1 DEF Prepare
  <2>2. ASSUME NEW c \in Commands, Command(c) PROVE pc' \in [Proc -> Labels]
    BY <2>2 DEF Command
  <2>3. CASE Interrupt BY <2>3 DEF Interrupt
  <2>4. CASE CaptureDies BY <2>4 DEF CaptureDies
  <2>5. CASE EditHosts BY <2>5 DEF EditHosts
  <2>6. CASE Reboot BY <2>6 DEF Reboot
  <2>7. ASSUME NEW p \in Proc, Kill(p) PROVE pc' \in [Proc -> Labels]
    BY <2>7, LeaveKeepsControls DEF Kill
  <2> QED BY <1>1, <2>1, <2>2, <2>3, <2>4, <2>5, <2>6, <2>7 DEF Environment
<1>2. ASSUME PrepareStep PROVE pc' \in [Proc -> Labels]
  <2>1. CASE StartCapture BY <2>1 DEF StartCapture
  <2>2. CASE PfPrepare BY <2>2 DEF PfPrepare
  <2>3. CASE PfApply BY <2>3 DEF PfApply
  <2>4. CASE PinHosts BY <2>4 DEF PinHosts
  <2>5. CASE Launch BY <2>5 DEF Launch
  <2>6. CASE PrepareFails BY <2>6 DEF PrepareFails, Raise
  <2>7. CASE PrepareHandler BY <2>7 DEF PrepareHandler
  <2>8. CASE VerifyRehearsal BY <2>8, LeaveKeepsControls DEF VerifyRehearsal
  <2>9. CASE Prepare BY <2>9 DEF Prepare
  <2> QED
    BY <1>2, <2>1, <2>2, <2>3, <2>4, <2>5, <2>6, <2>7, <2>8, <2>9
       DEF PrepareStep
<1>3. ASSUME OperatorStep PROVE pc' \in [Proc -> Labels]
  <2>1. CASE CommandLocked BY <2>1 DEF CommandLocked
  <2>2. CASE CommandBegin BY <2>2, LeaveKeepsControls DEF CommandBegin
  <2>3. CASE StopWatchdog BY <2>3 DEF StopWatchdog
  <2>4. CASE Validate BY <2>4, LeaveKeepsControls DEF Validate
  <2>5. CASE Recover BY <2>5, LeaveKeepsControls DEF Recover
  <2> QED BY <1>3, <2>1, <2>2, <2>3, <2>4, <2>5 DEF OperatorStep
<1>4. CASE Watchdog BY <1>4 DEF Watchdog
<1>5. ASSUME NEW p \in Proc, CleanupStep(p) PROVE pc' \in [Proc -> Labels]
  <2>1. CASE StopCapture(p) BY <2>1, SkipKeepsControls DEF StopCapture
  <2>2. CASE SignalCapture(p) BY <2>2, SkipKeepsControls DEF SignalCapture
  <2>3. CASE RecordCaptureStop(p) BY <2>3 DEF RecordCaptureStop
  <2>4. CASE SnapshotPf(p) BY <2>4, SkipKeepsControls DEF SnapshotPf
  <2>5. CASE RestoreHosts(p) BY <2>5, SkipKeepsControls DEF RestoreHosts
  <2>6. CASE InstallBaseline(p) BY <2>6 DEF InstallBaseline
  <2>7. CASE ConfirmHosts(p) BY <2>7, SkipKeepsControls DEF ConfirmHosts
  <2>8. CASE RestorePf(p) BY <2>8, SkipKeepsControls DEF RestorePf
  <2>9. CASE ReleasePf(p) BY <2>9, SkipKeepsControls DEF ReleasePf
  <2>10. CASE CleanupFails(p) BY <2>10, SkipKeepsControls DEF CleanupFails
  <2>11. CASE Cleaned(p) BY <2>11, LeaveKeepsControls DEF Cleaned
  <2> QED
    BY <1>5, <2>1, <2>2, <2>3, <2>4, <2>5, <2>6, <2>7, <2>8, <2>9, <2>10, <2>11
       DEF CleanupStep
<1>6. ASSUME NEW p \in Proc, LogFinished(p) PROVE pc' \in [Proc -> Labels]
  BY <1>6, LeaveKeepsControls DEF LogFinished
<1>7. ASSUME NEW p \in Proc, Finalize(p) PROVE pc' \in [Proc -> Labels]
  BY <1>7, LeaveKeepsControls DEF Finalize
<1>8. CASE CaptureProceeds BY <1>8 DEF CaptureProceeds
<1>9. CASE UNCHANGED vars BY <1>9 DEF vars
<1> QED
  BY <1>1, <1>2, <1>3, <1>4, <1>5, <1>6, <1>7, <1>8, <1>9 DEF Next, ProcessStep

LEMMA HoldersNext ==
  ASSUME TypeOK, [Next]_vars
  PROVE  HoldersOK'
<1> USE DEF TypeOK, HoldersOK
<1>1. ASSUME Environment PROVE HoldersOK'
  <2>1. CASE Prepare BY <2>1 DEF Prepare
  <2>2. ASSUME NEW c \in Commands, Command(c) PROVE HoldersOK' BY <2>2 DEF Command
  <2>3. CASE Interrupt BY <2>3 DEF Interrupt
  <2>4. CASE CaptureDies BY <2>4 DEF CaptureDies
  <2>5. CASE EditHosts BY <2>5 DEF EditHosts
  <2>6. CASE Reboot BY <2>6 DEF Reboot
  <2>7. ASSUME NEW p \in Proc, Kill(p) PROVE HoldersOK'
    BY <2>7, LeaveKeepsControls DEF Kill
  <2> QED BY <1>1, <2>1, <2>2, <2>3, <2>4, <2>5, <2>6, <2>7 DEF Environment
<1>2. ASSUME PrepareStep PROVE HoldersOK'
  <2>1. CASE StartCapture BY <2>1 DEF StartCapture
  <2>2. CASE PfPrepare BY <2>2 DEF PfPrepare
  <2>3. CASE PfApply BY <2>3 DEF PfApply
  <2>4. CASE PinHosts BY <2>4 DEF PinHosts
  <2>5. CASE Launch BY <2>5 DEF Launch
  <2>6. CASE PrepareFails BY <2>6 DEF PrepareFails, Raise
  <2>7. CASE PrepareHandler BY <2>7 DEF PrepareHandler
  <2>8. CASE VerifyRehearsal BY <2>8, LeaveKeepsControls DEF VerifyRehearsal
  <2>9. CASE Prepare BY <2>9 DEF Prepare
  <2> QED
    BY <1>2, <2>1, <2>2, <2>3, <2>4, <2>5, <2>6, <2>7, <2>8, <2>9
       DEF PrepareStep
<1>3. ASSUME OperatorStep PROVE HoldersOK'
  <2>1. CASE CommandLocked BY <2>1 DEF CommandLocked
  <2>2. CASE CommandBegin BY <2>2, LeaveKeepsControls DEF CommandBegin
  <2>3. CASE StopWatchdog BY <2>3 DEF StopWatchdog
  <2>4. CASE Validate BY <2>4, LeaveKeepsControls DEF Validate
  <2>5. CASE Recover BY <2>5, LeaveKeepsControls DEF Recover
  <2> QED BY <1>3, <2>1, <2>2, <2>3, <2>4, <2>5 DEF OperatorStep
<1>4. CASE Watchdog BY <1>4 DEF Watchdog
<1>5. ASSUME NEW p \in Proc, CleanupStep(p) PROVE HoldersOK'
  <2>1. CASE StopCapture(p) BY <2>1, SkipKeepsControls DEF StopCapture
  <2>2. CASE SignalCapture(p) BY <2>2, SkipKeepsControls DEF SignalCapture
  <2>3. CASE RecordCaptureStop(p) BY <2>3 DEF RecordCaptureStop
  <2>4. CASE SnapshotPf(p) BY <2>4, SkipKeepsControls DEF SnapshotPf
  <2>5. CASE RestoreHosts(p) BY <2>5, SkipKeepsControls DEF RestoreHosts
  <2>6. CASE InstallBaseline(p) BY <2>6 DEF InstallBaseline
  <2>7. CASE ConfirmHosts(p) BY <2>7, SkipKeepsControls DEF ConfirmHosts
  <2>8. CASE RestorePf(p) BY <2>8, SkipKeepsControls DEF RestorePf
  <2>9. CASE ReleasePf(p) BY <2>9, SkipKeepsControls DEF ReleasePf
  <2>10. CASE CleanupFails(p) BY <2>10, SkipKeepsControls DEF CleanupFails
  <2>11. CASE Cleaned(p) BY <2>11, LeaveKeepsControls DEF Cleaned
  <2> QED
    BY <1>5, <2>1, <2>2, <2>3, <2>4, <2>5, <2>6, <2>7, <2>8, <2>9, <2>10, <2>11
       DEF CleanupStep
<1>6. ASSUME NEW p \in Proc, LogFinished(p) PROVE HoldersOK'
  BY <1>6, LeaveKeepsControls DEF LogFinished
<1>7. ASSUME NEW p \in Proc, Finalize(p) PROVE HoldersOK'
  BY <1>7, LeaveKeepsControls DEF Finalize
<1>8. CASE CaptureProceeds BY <1>8 DEF CaptureProceeds
<1>9. CASE UNCHANGED vars BY <1>9 DEF vars
<1> QED
  BY <1>1, <1>2, <1>3, <1>4, <1>5, <1>6, <1>7, <1>8, <1>9 DEF Next, ProcessStep

\* A command has one of the results, success only with a response; run_finished says
\* one of the outcomes.
LEMMA CommandTyped ==
  ASSUME TypeOK
  PROVE  /\ cmd.result \in Results /\ cmd.changed \in BOOLEAN
         /\ cmd.result = "success" => cmd.response
<1> USE DEF NoCommand, Finish, Results
<1> DEFINE Typed == /\ cmd.result \in Results /\ cmd.changed \in BOOLEAN
                    /\ cmd.result = "success" => cmd.response
<1>1. ASSUME cmd = NoCommand PROVE Typed BY <1>1
<1>2. ASSUME NEW c \in BOOLEAN, cmd = Finish("success", TRUE, c) PROVE Typed BY <1>2
<1>3. ASSUME cmd = Finish("timeout", FALSE, FALSE) PROVE Typed BY <1>3
<1>4. ASSUME NEW v, cmd = [NoCommand EXCEPT !.verb = v] PROVE Typed BY <1>4
<1>5. ASSUME cmd = [NoCommand EXCEPT !.verb = "abort", !.result = "mechanical_failure"]
      PROVE  Typed
  BY <1>5
<1>6. ASSUME cmd = [NoCommand EXCEPT !.verb = "abort", !.changed = TRUE] PROVE Typed
  BY <1>6
<1>7. cmd \in Commands \cup {NoCommand} BY DEF TypeOK
<1> HIDE DEF NoCommand, Finish, Results, Typed
<1>8. Typed BY <1>1, <1>2, <1>3, <1>4, <1>5, <1>6, <1>7 DEF Commands
<1> QED BY <1>8 DEF Typed

LEMMA ResultIsOutcome ==
  ASSUME TypeOK, NEW p \in Proc
  PROVE  ResultOf(p) \subseteq Outcome
<1>1. ASSUME NEW r \in Results, NEW c \in BOOLEAN
      PROVE  [result |-> r, changed |-> c] \in Outcome
  BY DEF Outcome
<1> QED BY <1>1, CommandTyped DEF ResultOf, Results

LEMMA RecordsNext ==
  ASSUME TypeOK, [Next]_vars
  PROVE  RecordsOK'
<1> USE DEF TypeOK, RecordsOK, Artifacts, Trees, CapMarks, DnsMarks, PfMarks
<1>1. ASSUME Environment PROVE RecordsOK'
  <2>1. CASE Prepare BY <2>1 DEF Prepare
  <2>2. ASSUME NEW c \in Commands, Command(c) PROVE RecordsOK' BY <2>2 DEF Command
  <2>3. CASE Interrupt BY <2>3 DEF Interrupt
  <2>4. CASE CaptureDies BY <2>4 DEF CaptureDies
  <2>5. CASE EditHosts BY <2>5 DEF EditHosts
  <2>6. CASE Reboot BY <2>6 DEF Reboot
  <2>7. ASSUME NEW p \in Proc, Kill(p) PROVE RecordsOK' BY <2>7 DEF Kill, Leave
  <2> QED BY <1>1, <2>1, <2>2, <2>3, <2>4, <2>5, <2>6, <2>7 DEF Environment
<1>2. ASSUME PrepareStep PROVE RecordsOK'
  <2>1. CASE StartCapture BY <2>1 DEF StartCapture
  <2>2. CASE PfPrepare BY <2>2 DEF PfPrepare
  <2>3. CASE PfApply BY <2>3 DEF PfApply
  <2>4. CASE PinHosts BY <2>4 DEF PinHosts
  <2>5. CASE Launch BY <2>5 DEF Launch
  <2>6. CASE PrepareFails BY <2>6 DEF PrepareFails, Raise
  <2>7. CASE PrepareHandler BY <2>7 DEF PrepareHandler
  <2>8. CASE VerifyRehearsal BY <2>8 DEF VerifyRehearsal, Leave
  <2>9. CASE Prepare BY <2>9 DEF Prepare
  <2> QED
    BY <1>2, <2>1, <2>2, <2>3, <2>4, <2>5, <2>6, <2>7, <2>8, <2>9
       DEF PrepareStep
<1>3. ASSUME OperatorStep PROVE RecordsOK'
  <2>1. CASE CommandLocked BY <2>1 DEF CommandLocked
  <2>2. CASE CommandBegin BY <2>2 DEF CommandBegin, Leave
  <2>3. CASE StopWatchdog BY <2>3 DEF StopWatchdog
  <2>4. CASE Validate BY <2>4 DEF Validate, Leave
  <2>5. CASE Recover BY <2>5 DEF Recover, Leave
  <2> QED BY <1>3, <2>1, <2>2, <2>3, <2>4, <2>5 DEF OperatorStep
<1>4. CASE Watchdog BY <1>4 DEF Watchdog
<1>5. ASSUME NEW p \in Proc, CleanupStep(p) PROVE RecordsOK'
  <2>1. CASE StopCapture(p) BY <2>1 DEF StopCapture, GiveUp, Skip, NextOperation
  <2>2. CASE SignalCapture(p) BY <2>2 DEF SignalCapture, GiveUp, Skip, NextOperation
  <2>3. CASE RecordCaptureStop(p) BY <2>3 DEF RecordCaptureStop
  <2>4. CASE SnapshotPf(p) BY <2>4 DEF SnapshotPf, GiveUp, Skip, NextOperation
  <2>5. CASE RestoreHosts(p) BY <2>5 DEF RestoreHosts, GiveUp, Skip, NextOperation
  <2>6. CASE InstallBaseline(p) BY <2>6 DEF InstallBaseline
  <2>7. CASE ConfirmHosts(p) BY <2>7 DEF ConfirmHosts, GiveUp, Skip, NextOperation
  <2>8. CASE RestorePf(p)
    BY <2>8 DEF RestorePf, PfAmbiguous, GiveUp, Skip, NextOperation
  <2>9. CASE ReleasePf(p) BY <2>9 DEF ReleasePf, GiveUp, Skip, NextOperation
  <2>10. CASE CleanupFails(p) BY <2>10 DEF CleanupFails, GiveUp, Skip, NextOperation
  <2>11. CASE Cleaned(p) BY <2>11 DEF Cleaned, Leave
  <2> QED
    BY <1>5, <2>1, <2>2, <2>3, <2>4, <2>5, <2>6, <2>7, <2>8, <2>9, <2>10, <2>11
       DEF CleanupStep
<1>6. ASSUME NEW p \in Proc, LogFinished(p) PROVE RecordsOK'
  BY <1>6, ResultIsOutcome DEF LogFinished
<1>7. ASSUME NEW p \in Proc, Finalize(p) PROVE RecordsOK' BY <1>7 DEF Finalize, Leave
<1>8. CASE CaptureProceeds BY <1>8 DEF CaptureProceeds
<1>9. CASE UNCHANGED vars BY <1>9 DEF vars
<1> QED
  BY <1>1, <1>2, <1>3, <1>4, <1>5, <1>6, <1>7, <1>8, <1>9 DEF Next, ProcessStep

LEMMA FlagsNext ==
  ASSUME TypeOK, [Next]_vars
  PROVE  FlagsOK'
<1> USE DEF TypeOK, FlagsOK
<1>1. ASSUME Environment PROVE FlagsOK'
  <2>1. CASE Prepare BY <2>1 DEF Prepare
  <2>2. ASSUME NEW c \in Commands, Command(c) PROVE FlagsOK' BY <2>2 DEF Command
  <2>3. CASE Interrupt BY <2>3 DEF Interrupt
  <2>4. CASE CaptureDies BY <2>4 DEF CaptureDies
  <2>5. CASE EditHosts BY <2>5 DEF EditHosts
  <2>6. CASE Reboot BY <2>6 DEF Reboot
  <2>7. ASSUME NEW p \in Proc, Kill(p) PROVE FlagsOK' BY <2>7 DEF Kill, Leave
  <2> QED BY <1>1, <2>1, <2>2, <2>3, <2>4, <2>5, <2>6, <2>7 DEF Environment
<1>2. ASSUME PrepareStep PROVE FlagsOK'
  <2>1. CASE StartCapture BY <2>1 DEF StartCapture
  <2>2. CASE PfPrepare BY <2>2 DEF PfPrepare
  <2>3. CASE PfApply BY <2>3 DEF PfApply
  <2>4. CASE PinHosts BY <2>4 DEF PinHosts
  <2>5. CASE Launch BY <2>5 DEF Launch
  <2>6. CASE PrepareFails BY <2>6 DEF PrepareFails, Raise
  <2>7. CASE PrepareHandler BY <2>7 DEF PrepareHandler
  <2>8. CASE VerifyRehearsal BY <2>8 DEF VerifyRehearsal, Leave
  <2>9. CASE Prepare BY <2>9 DEF Prepare
  <2> QED
    BY <1>2, <2>1, <2>2, <2>3, <2>4, <2>5, <2>6, <2>7, <2>8, <2>9
       DEF PrepareStep
<1>3. ASSUME OperatorStep PROVE FlagsOK'
  <2>1. CASE CommandLocked BY <2>1 DEF CommandLocked
  <2>2. CASE CommandBegin BY <2>2 DEF CommandBegin, Leave
  <2>3. CASE StopWatchdog BY <2>3 DEF StopWatchdog
  <2>4. CASE Validate BY <2>4 DEF Validate, Leave
  <2>5. CASE Recover BY <2>5 DEF Recover, Leave
  <2> QED BY <1>3, <2>1, <2>2, <2>3, <2>4, <2>5 DEF OperatorStep
<1>4. CASE Watchdog BY <1>4 DEF Watchdog
<1>5. ASSUME NEW p \in Proc, CleanupStep(p) PROVE FlagsOK'
  <2>1. CASE StopCapture(p) BY <2>1 DEF StopCapture, GiveUp, Skip, NextOperation
  <2>2. CASE SignalCapture(p) BY <2>2 DEF SignalCapture, GiveUp, Skip, NextOperation
  <2>3. CASE RecordCaptureStop(p) BY <2>3 DEF RecordCaptureStop
  <2>4. CASE SnapshotPf(p) BY <2>4 DEF SnapshotPf, GiveUp, Skip, NextOperation
  <2>5. CASE RestoreHosts(p) BY <2>5 DEF RestoreHosts, GiveUp, Skip, NextOperation
  <2>6. CASE InstallBaseline(p) BY <2>6 DEF InstallBaseline
  <2>7. CASE ConfirmHosts(p) BY <2>7 DEF ConfirmHosts, GiveUp, Skip, NextOperation
  <2>8. CASE RestorePf(p)
    BY <2>8 DEF RestorePf, PfAmbiguous, GiveUp, Skip, NextOperation
  <2>9. CASE ReleasePf(p) BY <2>9 DEF ReleasePf, GiveUp, Skip, NextOperation
  <2>10. CASE CleanupFails(p) BY <2>10 DEF CleanupFails, GiveUp, Skip, NextOperation
  <2>11. CASE Cleaned(p) BY <2>11 DEF Cleaned, Leave
  <2> QED
    BY <1>5, <2>1, <2>2, <2>3, <2>4, <2>5, <2>6, <2>7, <2>8, <2>9, <2>10, <2>11
       DEF CleanupStep
<1>6. ASSUME NEW p \in Proc, LogFinished(p) PROVE FlagsOK'
  BY <1>6 DEF LogFinished, ResultOf, Leave
<1>7. ASSUME NEW p \in Proc, Finalize(p) PROVE FlagsOK' BY <1>7 DEF Finalize, Leave
<1>8. CASE CaptureProceeds BY <1>8 DEF CaptureProceeds
<1>9. CASE UNCHANGED vars BY <1>9 DEF vars
<1> QED
  BY <1>1, <1>2, <1>3, <1>4, <1>5, <1>6, <1>7, <1>8, <1>9 DEF Next, ProcessStep

LEMMA TypeOKNext ==
  ASSUME TypeOK, [Next]_vars
  PROVE  TypeOK'
<1>1. pc' \in [Proc -> Labels] BY PcNext
<1>2. HoldersOK' BY HoldersNext
<1>3. RecordsOK' BY RecordsNext
<1>4. FlagsOK' BY FlagsNext
<1> QED BY <1>1, <1>2, <1>3, <1>4, Zenon DEF TypeOK, HoldersOK, RecordsOK, FlagsOK

---------------------------------------------------------------------------
\* prepare-run has ended before a command or the watchdog starts to work; of those
\* two, whoever takes the lock finds the other one idle.
LEMMA ExclusiveNext ==
  ASSUME TypeOK, Exclusive, [Next]_vars
  PROVE  Exclusive'
<1> USE DEF TypeOK, Exclusive, Busy, Labels, TryLabels, CleanupLabels, CaptureLabels,
  DnsLabels, PfLabels, ClosingLabels
<1>1. ASSUME Environment PROVE Exclusive'
  <2>1. CASE Prepare BY <2>1 DEF Prepare
  <2>2. ASSUME NEW c \in Commands, Command(c) PROVE Exclusive' BY <2>2 DEF Command
  <2>3. CASE Interrupt BY <2>3 DEF Interrupt
  <2>4. CASE CaptureDies BY <2>4 DEF CaptureDies
  <2>5. CASE EditHosts BY <2>5 DEF EditHosts
  <2>6. CASE Reboot BY <2>6 DEF Reboot
  <2>7. ASSUME NEW p \in Proc, Kill(p) PROVE Exclusive' BY <2>7 DEF Kill, Leave
  <2> QED BY <1>1, <2>1, <2>2, <2>3, <2>4, <2>5, <2>6, <2>7 DEF Environment
<1>2. ASSUME PrepareStep PROVE Exclusive'
  <2>1. CASE StartCapture BY <2>1 DEF StartCapture
  <2>2. CASE PfPrepare BY <2>2 DEF PfPrepare
  <2>3. CASE PfApply BY <2>3 DEF PfApply
  <2>4. CASE PinHosts BY <2>4 DEF PinHosts
  <2>5. CASE Launch BY <2>5 DEF Launch
  <2>6. CASE PrepareFails BY <2>6 DEF PrepareFails, Raise
  <2>7. CASE PrepareHandler BY <2>7 DEF PrepareHandler
  <2>8. CASE VerifyRehearsal BY <2>8 DEF VerifyRehearsal, Leave
  <2>9. CASE Prepare BY <2>9 DEF Prepare
  <2> QED
    BY <1>2, <2>1, <2>2, <2>3, <2>4, <2>5, <2>6, <2>7, <2>8, <2>9
       DEF PrepareStep
<1>3. ASSUME OperatorStep PROVE Exclusive'
  <2>1. CASE CommandLocked BY <2>1 DEF CommandLocked
  <2>2. CASE CommandBegin BY <2>2 DEF CommandBegin, Leave
  <2>3. CASE StopWatchdog BY <2>3 DEF StopWatchdog
  <2>4. CASE Validate BY <2>4 DEF Validate, Leave
  <2>5. CASE Recover BY <2>5 DEF Recover, Leave
  <2> QED BY <1>3, <2>1, <2>2, <2>3, <2>4, <2>5 DEF OperatorStep
<1>4. CASE Watchdog BY <1>4 DEF Watchdog
<1>5. ASSUME NEW p \in Proc, CleanupStep(p) PROVE Exclusive'
  <2>1. CASE StopCapture(p) BY <2>1 DEF StopCapture, GiveUp, Skip, NextOperation
  <2>2. CASE SignalCapture(p) BY <2>2 DEF SignalCapture, GiveUp, Skip, NextOperation
  <2>3. CASE RecordCaptureStop(p) BY <2>3 DEF RecordCaptureStop
  <2>4. CASE SnapshotPf(p) BY <2>4 DEF SnapshotPf, GiveUp, Skip, NextOperation
  <2>5. CASE RestoreHosts(p) BY <2>5 DEF RestoreHosts, GiveUp, Skip, NextOperation
  <2>6. CASE InstallBaseline(p) BY <2>6 DEF InstallBaseline
  <2>7. CASE ConfirmHosts(p) BY <2>7 DEF ConfirmHosts, GiveUp, Skip, NextOperation
  <2>8. CASE RestorePf(p)
    BY <2>8 DEF RestorePf, PfAmbiguous, GiveUp, Skip, NextOperation
  <2>9. CASE ReleasePf(p) BY <2>9 DEF ReleasePf, GiveUp, Skip, NextOperation
  <2>10. CASE CleanupFails(p) BY <2>10 DEF CleanupFails, GiveUp, Skip, NextOperation
  <2>11. CASE Cleaned(p) BY <2>11 DEF Cleaned, Leave
  <2> QED
    BY <1>5, <2>1, <2>2, <2>3, <2>4, <2>5, <2>6, <2>7, <2>8, <2>9, <2>10, <2>11
       DEF CleanupStep
<1>6. ASSUME NEW p \in Proc, LogFinished(p) PROVE Exclusive'
  BY <1>6 DEF LogFinished, ResultOf, Leave
<1>7. ASSUME NEW p \in Proc, Finalize(p) PROVE Exclusive' BY <1>7 DEF Finalize, Leave
<1>8. CASE CaptureProceeds BY <1>8 DEF CaptureProceeds
<1>9. CASE UNCHANGED vars BY <1>9 DEF vars
<1> QED
  BY <1>1, <1>2, <1>3, <1>4, <1>5, <1>6, <1>7, <1>8, <1>9 DEF Next, ProcessStep

\* Each label of prepare-run is reached through the one before it; once its body
\* is over nothing is claimed any more.
LEMMA BegunNext ==
  ASSUME TypeOK, Exclusive, Begun, [Next]_vars
  PROVE  Begun'
<1> USE DEF TypeOK, Exclusive, Busy, Begun, Fresh, BegunCapture, BegunPf, BegunHosts,
  Starting, UntilCapPrep, UntilPfSave, UntilPfLoad, UntilHostsSave, LaunchLabels, Sealed,
  Labels, TryLabels, CleanupLabels, CaptureLabels, DnsLabels, PfLabels, ClosingLabels
<1>1. ASSUME Environment PROVE Begun'
  <2>1. CASE Prepare BY <2>1 DEF Prepare
  <2>2. ASSUME NEW c \in Commands, Command(c) PROVE Begun' BY <2>2 DEF Command
  <2>3. CASE Interrupt BY <2>3 DEF Interrupt
  <2>4. CASE CaptureDies BY <2>4 DEF CaptureDies
  <2>5. CASE EditHosts BY <2>5 DEF EditHosts
  <2>6. CASE Reboot BY <2>6 DEF Reboot
  <2>7. ASSUME NEW p \in Proc, Kill(p) PROVE Begun' BY <2>7 DEF Kill, Leave
  <2> QED BY <1>1, <2>1, <2>2, <2>3, <2>4, <2>5, <2>6, <2>7 DEF Environment
<1>2. ASSUME PrepareStep PROVE Begun'
  <2>1. CASE StartCapture BY <2>1 DEF StartCapture
  <2>2. CASE PfPrepare BY <2>2 DEF PfPrepare
  <2>3. CASE PfApply BY <2>3 DEF PfApply
  <2>4. CASE PinHosts BY <2>4 DEF PinHosts
  <2>5. CASE Launch BY <2>5 DEF Launch
  <2>6. CASE PrepareFails BY <2>6 DEF PrepareFails, Raise
  <2>7. CASE PrepareHandler BY <2>7 DEF PrepareHandler
  <2>8. CASE VerifyRehearsal BY <2>8 DEF VerifyRehearsal, Leave
  <2>9. CASE Prepare BY <2>9 DEF Prepare
  <2> QED
    BY <1>2, <2>1, <2>2, <2>3, <2>4, <2>5, <2>6, <2>7, <2>8, <2>9
       DEF PrepareStep
<1>3. ASSUME OperatorStep PROVE Begun'
  <2>1. CASE CommandLocked BY <2>1 DEF CommandLocked
  <2>2. CASE CommandBegin BY <2>2 DEF CommandBegin, Leave
  <2>3. CASE StopWatchdog BY <2>3 DEF StopWatchdog
  <2>4. CASE Validate BY <2>4 DEF Validate, Leave
  <2>5. CASE Recover BY <2>5 DEF Recover, Leave
  <2> QED BY <1>3, <2>1, <2>2, <2>3, <2>4, <2>5 DEF OperatorStep
<1>4. CASE Watchdog BY <1>4 DEF Watchdog
<1>5. ASSUME NEW p \in Proc, CleanupStep(p) PROVE Begun'
  <2>1. CASE StopCapture(p) BY <2>1 DEF StopCapture, GiveUp, Skip, NextOperation
  <2>2. CASE SignalCapture(p) BY <2>2 DEF SignalCapture, GiveUp, Skip, NextOperation
  <2>3. CASE RecordCaptureStop(p) BY <2>3 DEF RecordCaptureStop
  <2>4. CASE SnapshotPf(p) BY <2>4 DEF SnapshotPf, GiveUp, Skip, NextOperation
  <2>5. CASE RestoreHosts(p) BY <2>5 DEF RestoreHosts, GiveUp, Skip, NextOperation
  <2>6. CASE InstallBaseline(p) BY <2>6 DEF InstallBaseline
  <2>7. CASE ConfirmHosts(p) BY <2>7 DEF ConfirmHosts, GiveUp, Skip, NextOperation
  <2>8. CASE RestorePf(p)
    BY <2>8 DEF RestorePf, PfAmbiguous, GiveUp, Skip, NextOperation
  <2>9. CASE ReleasePf(p) BY <2>9 DEF ReleasePf, GiveUp, Skip, NextOperation
  <2>10. CASE CleanupFails(p) BY <2>10 DEF CleanupFails, GiveUp, Skip, NextOperation
  <2>11. CASE Cleaned(p) BY <2>11 DEF Cleaned, Leave
  <2> QED
    BY <1>5, <2>1, <2>2, <2>3, <2>4, <2>5, <2>6, <2>7, <2>8, <2>9, <2>10, <2>11
       DEF CleanupStep
<1>6. ASSUME NEW p \in Proc, LogFinished(p) PROVE Begun'
  BY <1>6 DEF LogFinished, ResultOf, Leave
<1>7. ASSUME NEW p \in Proc, Finalize(p) PROVE Begun' BY <1>7 DEF Finalize, Leave
<1>8. CASE CaptureProceeds BY <1>8 DEF CaptureProceeds
<1>9. CASE UNCHANGED vars BY <1>9 DEF vars
<1> QED
  BY <1>1, <1>2, <1>3, <1>4, <1>5, <1>6, <1>7, <1>8, <1>9 DEF Next, ProcessStep

\* What is altered is announced, and no later mark takes an announcement back.
LEMMA AnnouncedNext ==
  ASSUME TypeOK, Exclusive, Begun, Announced, [Next]_vars
  PROVE  Announced'
<1> USE DEF TypeOK, Exclusive, Busy, Begun, Announced, Fresh, BegunCapture, BegunPf,
  BegunHosts, Starting, UntilCapPrep, UntilPfSave, UntilPfLoad, UntilHostsSave,
  LaunchLabels, Sealed, AnnouncedCapture, AnnouncedHosts, AnnouncedPf, Labels, TryLabels,
  CleanupLabels, CaptureLabels, DnsLabels, PfLabels, ClosingLabels
<1>1. ASSUME Environment PROVE Announced'
  <2>1. CASE Prepare BY <2>1 DEF Prepare
  <2>2. ASSUME NEW c \in Commands, Command(c) PROVE Announced' BY <2>2 DEF Command
  <2>3. CASE Interrupt BY <2>3 DEF Interrupt
  <2>4. CASE CaptureDies BY <2>4 DEF CaptureDies
  <2>5. CASE EditHosts BY <2>5 DEF EditHosts
  <2>6. CASE Reboot BY <2>6 DEF Reboot
  <2>7. ASSUME NEW p \in Proc, Kill(p) PROVE Announced' BY <2>7 DEF Kill, Leave
  <2> QED BY <1>1, <2>1, <2>2, <2>3, <2>4, <2>5, <2>6, <2>7 DEF Environment
<1>2. ASSUME PrepareStep PROVE Announced'
  <2>1. CASE StartCapture BY <2>1 DEF StartCapture
  <2>2. CASE PfPrepare BY <2>2 DEF PfPrepare
  <2>3. CASE PfApply BY <2>3 DEF PfApply
  <2>4. CASE PinHosts BY <2>4 DEF PinHosts
  <2>5. CASE Launch BY <2>5 DEF Launch
  <2>6. CASE PrepareFails BY <2>6 DEF PrepareFails, Raise
  <2>7. CASE PrepareHandler BY <2>7 DEF PrepareHandler
  <2>8. CASE VerifyRehearsal BY <2>8 DEF VerifyRehearsal, Leave
  <2>9. CASE Prepare BY <2>9 DEF Prepare
  <2> QED
    BY <1>2, <2>1, <2>2, <2>3, <2>4, <2>5, <2>6, <2>7, <2>8, <2>9
       DEF PrepareStep
<1>3. ASSUME OperatorStep PROVE Announced'
  <2>1. CASE CommandLocked BY <2>1 DEF CommandLocked
  <2>2. CASE CommandBegin BY <2>2 DEF CommandBegin, Leave
  <2>3. CASE StopWatchdog BY <2>3 DEF StopWatchdog
  <2>4. CASE Validate BY <2>4 DEF Validate, Leave
  <2>5. CASE Recover BY <2>5 DEF Recover, Leave
  <2> QED BY <1>3, <2>1, <2>2, <2>3, <2>4, <2>5 DEF OperatorStep
<1>4. CASE Watchdog BY <1>4 DEF Watchdog
<1>5. ASSUME NEW p \in Proc, CleanupStep(p) PROVE Announced'
  <2>1. CASE StopCapture(p) BY <2>1 DEF StopCapture, GiveUp, Skip, NextOperation
  <2>2. CASE SignalCapture(p) BY <2>2 DEF SignalCapture, GiveUp, Skip, NextOperation
  <2>3. CASE RecordCaptureStop(p) BY <2>3 DEF RecordCaptureStop
  <2>4. CASE SnapshotPf(p) BY <2>4 DEF SnapshotPf, GiveUp, Skip, NextOperation
  <2>5. CASE RestoreHosts(p) BY <2>5 DEF RestoreHosts, GiveUp, Skip, NextOperation
  <2>6. CASE InstallBaseline(p) BY <2>6 DEF InstallBaseline
  <2>7. CASE ConfirmHosts(p) BY <2>7 DEF ConfirmHosts, GiveUp, Skip, NextOperation
  <2>8. CASE RestorePf(p)
    BY <2>8 DEF RestorePf, PfAmbiguous, GiveUp, Skip, NextOperation
  <2>9. CASE ReleasePf(p) BY <2>9 DEF ReleasePf, GiveUp, Skip, NextOperation
  <2>10. CASE CleanupFails(p) BY <2>10 DEF CleanupFails, GiveUp, Skip, NextOperation
  <2>11. CASE Cleaned(p) BY <2>11 DEF Cleaned, Leave
  <2> QED
    BY <1>5, <2>1, <2>2, <2>3, <2>4, <2>5, <2>6, <2>7, <2>8, <2>9, <2>10, <2>11
       DEF CleanupStep
<1>6. ASSUME NEW p \in Proc, LogFinished(p) PROVE Announced'
  BY <1>6 DEF LogFinished, ResultOf, Leave
<1>7. ASSUME NEW p \in Proc, Finalize(p) PROVE Announced' BY <1>7 DEF Finalize, Leave
<1>8. CASE CaptureProceeds BY <1>8 DEF CaptureProceeds
<1>9. CASE UNCHANGED vars BY <1>9 DEF vars
<1> QED
  BY <1>1, <1>2, <1>3, <1>4, <1>5, <1>6, <1>7, <1>8, <1>9 DEF Next, ProcessStep

\* A label of the cleanup is reached without an error only past what it restores:
\* there was nothing on record, thus nothing altered, or it was looked at.
LEMMA UndoneNext ==
  ASSUME TypeOK, Exclusive, Begun, Announced, Undone, [Next]_vars
  PROVE  Undone'
<1> USE DEF TypeOK, Exclusive, Busy, Final, Gone, Begun, Announced, Undone, Fresh,
  BegunCapture, BegunPf, BegunHosts, Starting, UntilCapPrep, UntilPfSave, UntilPfLoad,
  UntilHostsSave, LaunchLabels, Sealed, AnnouncedCapture, AnnouncedHosts, AnnouncedPf,
  UndoneCapture, UndoneHosts, UndonePf, Labels, TryLabels, CleanupLabels, CaptureLabels,
  DnsLabels, PfLabels, ClosingLabels
<1>1. ASSUME Environment PROVE Undone'
  <2>1. CASE Prepare BY <2>1 DEF Prepare
  <2>2. ASSUME NEW c \in Commands, Command(c) PROVE Undone' BY <2>2 DEF Command
  <2>3. CASE Interrupt BY <2>3 DEF Interrupt
  <2>4. CASE CaptureDies BY <2>4 DEF CaptureDies
  <2>5. CASE EditHosts BY <2>5 DEF EditHosts
  <2>6. CASE Reboot BY <2>6 DEF Reboot
  <2>7. ASSUME NEW p \in Proc, Kill(p) PROVE Undone' BY <2>7 DEF Kill, Leave
  <2> QED BY <1>1, <2>1, <2>2, <2>3, <2>4, <2>5, <2>6, <2>7 DEF Environment
<1>2. ASSUME PrepareStep PROVE Undone'
  <2>1. CASE StartCapture BY <2>1 DEF StartCapture
  <2>2. CASE PfPrepare BY <2>2 DEF PfPrepare
  <2>3. CASE PfApply BY <2>3 DEF PfApply
  <2>4. CASE PinHosts BY <2>4 DEF PinHosts
  <2>5. CASE Launch BY <2>5 DEF Launch
  <2>6. CASE PrepareFails BY <2>6 DEF PrepareFails, Raise
  <2>7. CASE PrepareHandler BY <2>7 DEF PrepareHandler
  <2>8. CASE VerifyRehearsal BY <2>8 DEF VerifyRehearsal, Leave
  <2>9. CASE Prepare BY <2>9 DEF Prepare
  <2> QED
    BY <1>2, <2>1, <2>2, <2>3, <2>4, <2>5, <2>6, <2>7, <2>8, <2>9
       DEF PrepareStep
<1>3. ASSUME OperatorStep PROVE Undone'
  <2>1. CASE CommandLocked BY <2>1 DEF CommandLocked
  <2>2. CASE CommandBegin BY <2>2 DEF CommandBegin, Leave
  <2>3. CASE StopWatchdog BY <2>3 DEF StopWatchdog
  <2>4. CASE Validate BY <2>4 DEF Validate, Leave
  <2>5. CASE Recover BY <2>5 DEF Recover, Leave
  <2> QED BY <1>3, <2>1, <2>2, <2>3, <2>4, <2>5 DEF OperatorStep
<1>4. CASE Watchdog BY <1>4 DEF Watchdog
<1>5. ASSUME NEW p \in Proc, CleanupStep(p) PROVE Undone'
  <2>1. CASE StopCapture(p) BY <2>1 DEF StopCapture, GiveUp, Skip, NextOperation
  <2>2. CASE SignalCapture(p) BY <2>2 DEF SignalCapture, GiveUp, Skip, NextOperation
  <2>3. CASE RecordCaptureStop(p) BY <2>3 DEF RecordCaptureStop
  <2>4. CASE SnapshotPf(p) BY <2>4 DEF SnapshotPf, GiveUp, Skip, NextOperation
  <2>5. CASE RestoreHosts(p) BY <2>5 DEF RestoreHosts, GiveUp, Skip, NextOperation
  <2>6. CASE InstallBaseline(p) BY <2>6 DEF InstallBaseline
  <2>7. CASE ConfirmHosts(p) BY <2>7 DEF ConfirmHosts, GiveUp, Skip, NextOperation
  <2>8. CASE RestorePf(p)
    BY <2>8 DEF RestorePf, PfAmbiguous, GiveUp, Skip, NextOperation
  <2>9. CASE ReleasePf(p) BY <2>9 DEF ReleasePf, GiveUp, Skip, NextOperation
  <2>10. CASE CleanupFails(p) BY <2>10 DEF CleanupFails, GiveUp, Skip, NextOperation
  <2>11. CASE Cleaned(p) BY <2>11 DEF Cleaned, Leave
  <2> QED
    BY <1>5, <2>1, <2>2, <2>3, <2>4, <2>5, <2>6, <2>7, <2>8, <2>9, <2>10, <2>11
       DEF CleanupStep
<1>6. ASSUME NEW p \in Proc, LogFinished(p) PROVE Undone'
  BY <1>6 DEF LogFinished, ResultOf, Leave
<1>7. ASSUME NEW p \in Proc, Finalize(p) PROVE Undone' BY <1>7 DEF Finalize, Leave
<1>8. CASE CaptureProceeds BY <1>8 DEF CaptureProceeds
<1>9. CASE UNCHANGED vars BY <1>9 DEF vars
<1> QED
  BY <1>1, <1>2, <1>3, <1>4, <1>5, <1>6, <1>7, <1>8, <1>9 DEF Next, ProcessStep

\* stop_capture meets a capture that was lost before it has recorded a stop.
LEMMA WatchedNext ==
  ASSUME TypeOK, Exclusive, Begun, Announced, Undone, Watched, [Next]_vars
  PROVE  Watched'
<1> USE DEF TypeOK, NoCommand, Exclusive, Busy, Final, Gone, Watched, Premature, Begun,
  Announced, Undone, Fresh, BegunCapture, BegunPf, BegunHosts, Starting, UntilCapPrep,
  UntilPfSave, UntilPfLoad, UntilHostsSave, LaunchLabels, Sealed, AnnouncedCapture,
  AnnouncedHosts, AnnouncedPf, UndoneCapture, UndoneHosts, UndonePf, Labels, TryLabels,
  CleanupLabels, CaptureLabels, DnsLabels, PfLabels, ClosingLabels
<1>1. ASSUME Environment PROVE Watched'
  <2>1. CASE Prepare BY <2>1 DEF Prepare
  <2>2. ASSUME NEW c \in Commands, Command(c) PROVE Watched' BY <2>2 DEF Command
  <2>3. CASE Interrupt BY <2>3 DEF Interrupt
  <2>4. CASE CaptureDies BY <2>4 DEF CaptureDies
  <2>5. CASE EditHosts BY <2>5 DEF EditHosts
  <2>6. CASE Reboot BY <2>6 DEF Reboot
  <2>7. ASSUME NEW p \in Proc, Kill(p) PROVE Watched' BY <2>7 DEF Kill, Leave
  <2> QED BY <1>1, <2>1, <2>2, <2>3, <2>4, <2>5, <2>6, <2>7 DEF Environment
<1>2. ASSUME PrepareStep PROVE Watched'
  <2>1. CASE StartCapture BY <2>1 DEF StartCapture
  <2>2. CASE PfPrepare BY <2>2 DEF PfPrepare
  <2>3. CASE PfApply BY <2>3 DEF PfApply
  <2>4. CASE PinHosts BY <2>4 DEF PinHosts
  <2>5. CASE Launch BY <2>5 DEF Launch
  <2>6. CASE PrepareFails BY <2>6 DEF PrepareFails, Raise
  <2>7. CASE PrepareHandler BY <2>7 DEF PrepareHandler
  <2>8. CASE VerifyRehearsal BY <2>8 DEF VerifyRehearsal, Leave
  <2>9. CASE Prepare BY <2>9 DEF Prepare
  <2> QED
    BY <1>2, <2>1, <2>2, <2>3, <2>4, <2>5, <2>6, <2>7, <2>8, <2>9
       DEF PrepareStep
<1>3. ASSUME OperatorStep PROVE Watched'
  <2>1. CASE CommandLocked BY <2>1 DEF CommandLocked
  <2>2. CASE CommandBegin BY <2>2 DEF CommandBegin, Leave
  <2>3. CASE StopWatchdog BY <2>3 DEF StopWatchdog
  <2>4. CASE Validate BY <2>4 DEF Validate, Leave
  <2>5. CASE Recover BY <2>5 DEF Recover, Leave
  <2> QED BY <1>3, <2>1, <2>2, <2>3, <2>4, <2>5 DEF OperatorStep
<1>4. CASE Watchdog BY <1>4 DEF Watchdog
<1>5. ASSUME NEW p \in Proc, CleanupStep(p) PROVE Watched'
  <2>1. CASE StopCapture(p) BY <2>1 DEF StopCapture, GiveUp, Skip, NextOperation
  <2>2. CASE SignalCapture(p) BY <2>2 DEF SignalCapture, GiveUp, Skip, NextOperation
  <2>3. CASE RecordCaptureStop(p) BY <2>3 DEF RecordCaptureStop
  <2>4. CASE SnapshotPf(p) BY <2>4 DEF SnapshotPf, GiveUp, Skip, NextOperation
  <2>5. CASE RestoreHosts(p) BY <2>5 DEF RestoreHosts, GiveUp, Skip, NextOperation
  <2>6. CASE InstallBaseline(p) BY <2>6 DEF InstallBaseline
  <2>7. CASE ConfirmHosts(p) BY <2>7 DEF ConfirmHosts, GiveUp, Skip, NextOperation
  <2>8. CASE RestorePf(p)
    BY <2>8 DEF RestorePf, PfAmbiguous, GiveUp, Skip, NextOperation
  <2>9. CASE ReleasePf(p) BY <2>9 DEF ReleasePf, GiveUp, Skip, NextOperation
  <2>10. CASE CleanupFails(p) BY <2>10 DEF CleanupFails, GiveUp, Skip, NextOperation
  <2>11. CASE Cleaned(p) BY <2>11 DEF Cleaned, Leave
  <2> QED
    BY <1>5, <2>1, <2>2, <2>3, <2>4, <2>5, <2>6, <2>7, <2>8, <2>9, <2>10, <2>11
       DEF CleanupStep
<1>6. ASSUME NEW p \in Proc, LogFinished(p) PROVE Watched'
  BY <1>6 DEF LogFinished, ResultOf, Leave
<1>7. ASSUME NEW p \in Proc, Finalize(p) PROVE Watched' BY <1>7 DEF Finalize, Leave
<1>8. CASE CaptureProceeds BY <1>8 DEF CaptureProceeds
<1>9. CASE UNCHANGED vars BY <1>9 DEF vars
<1> QED
  BY <1>1, <1>2, <1>3, <1>4, <1>5, <1>6, <1>7, <1>8, <1>9 DEF Next, ProcessStep

\* Under the lock the manifest is looked at first, and it is written last.
LEMMA QuietNext ==
  ASSUME TypeOK, Exclusive, Begun, Quiet, [Next]_vars
  PROVE  Quiet'
<1> USE DEF TypeOK, Exclusive, Busy, Begun, Fresh, Starting, Sealed, Quiet, Labels,
  TryLabels, CleanupLabels, CaptureLabels, DnsLabels, PfLabels, ClosingLabels
<1>1. ASSUME Environment PROVE Quiet'
  <2>1. CASE Prepare BY <2>1 DEF Prepare
  <2>2. ASSUME NEW c \in Commands, Command(c) PROVE Quiet' BY <2>2 DEF Command
  <2>3. CASE Interrupt BY <2>3 DEF Interrupt
  <2>4. CASE CaptureDies BY <2>4 DEF CaptureDies
  <2>5. CASE EditHosts BY <2>5 DEF EditHosts
  <2>6. CASE Reboot BY <2>6 DEF Reboot
  <2>7. ASSUME NEW p \in Proc, Kill(p) PROVE Quiet' BY <2>7 DEF Kill, Leave
  <2> QED BY <1>1, <2>1, <2>2, <2>3, <2>4, <2>5, <2>6, <2>7 DEF Environment
<1>2. ASSUME PrepareStep PROVE Quiet'
  <2>1. CASE StartCapture BY <2>1 DEF StartCapture
  <2>2. CASE PfPrepare BY <2>2 DEF PfPrepare
  <2>3. CASE PfApply BY <2>3 DEF PfApply
  <2>4. CASE PinHosts BY <2>4 DEF PinHosts
  <2>5. CASE Launch BY <2>5 DEF Launch
  <2>6. CASE PrepareFails BY <2>6 DEF PrepareFails, Raise
  <2>7. CASE PrepareHandler BY <2>7 DEF PrepareHandler
  <2>8. CASE VerifyRehearsal BY <2>8 DEF VerifyRehearsal, Leave
  <2>9. CASE Prepare BY <2>9 DEF Prepare
  <2> QED
    BY <1>2, <2>1, <2>2, <2>3, <2>4, <2>5, <2>6, <2>7, <2>8, <2>9
       DEF PrepareStep
<1>3. ASSUME OperatorStep PROVE Quiet'
  <2>1. CASE CommandLocked BY <2>1 DEF CommandLocked
  <2>2. CASE CommandBegin BY <2>2 DEF CommandBegin, Leave
  <2>3. CASE StopWatchdog BY <2>3 DEF StopWatchdog
  <2>4. CASE Validate BY <2>4 DEF Validate, Leave
  <2>5. CASE Recover BY <2>5 DEF Recover, Leave
  <2> QED BY <1>3, <2>1, <2>2, <2>3, <2>4, <2>5 DEF OperatorStep
<1>4. CASE Watchdog BY <1>4 DEF Watchdog
<1>5. ASSUME NEW p \in Proc, CleanupStep(p) PROVE Quiet'
  <2>1. CASE StopCapture(p) BY <2>1 DEF StopCapture, GiveUp, Skip, NextOperation
  <2>2. CASE SignalCapture(p) BY <2>2 DEF SignalCapture, GiveUp, Skip, NextOperation
  <2>3. CASE RecordCaptureStop(p) BY <2>3 DEF RecordCaptureStop
  <2>4. CASE SnapshotPf(p) BY <2>4 DEF SnapshotPf, GiveUp, Skip, NextOperation
  <2>5. CASE RestoreHosts(p) BY <2>5 DEF RestoreHosts, GiveUp, Skip, NextOperation
  <2>6. CASE InstallBaseline(p) BY <2>6 DEF InstallBaseline
  <2>7. CASE ConfirmHosts(p) BY <2>7 DEF ConfirmHosts, GiveUp, Skip, NextOperation
  <2>8. CASE RestorePf(p)
    BY <2>8 DEF RestorePf, PfAmbiguous, GiveUp, Skip, NextOperation
  <2>9. CASE ReleasePf(p) BY <2>9 DEF ReleasePf, GiveUp, Skip, NextOperation
  <2>10. CASE CleanupFails(p) BY <2>10 DEF CleanupFails, GiveUp, Skip, NextOperation
  <2>11. CASE Cleaned(p) BY <2>11 DEF Cleaned, Leave
  <2> QED
    BY <1>5, <2>1, <2>2, <2>3, <2>4, <2>5, <2>6, <2>7, <2>8, <2>9, <2>10, <2>11
       DEF CleanupStep
<1>6. ASSUME NEW p \in Proc, LogFinished(p) PROVE Quiet'
  BY <1>6 DEF LogFinished, ResultOf, Leave
<1>7. ASSUME NEW p \in Proc, Finalize(p) PROVE Quiet' BY <1>7 DEF Finalize, Leave
<1>8. CASE CaptureProceeds BY <1>8 DEF CaptureProceeds
<1>9. CASE UNCHANGED vars BY <1>9 DEF vars
<1> QED
  BY <1>1, <1>2, <1>3, <1>4, <1>5, <1>6, <1>7, <1>8, <1>9 DEF Next, ProcessStep

\* Past the operation that restores it, an override is not owed any more.
LEMMA SettledNext ==
  ASSUME TypeOK, Exclusive, Begun, Announced, Undone, Settled, [Next]_vars
  PROVE  Settled'
<1> USE DEF TypeOK, Exclusive, Busy, Final, Settled, Owed, Begun, Announced, Fresh,
  BegunCapture, BegunPf, BegunHosts, Starting, AnnouncedCapture, AnnouncedHosts,
  AnnouncedPf, Labels, TryLabels, CleanupLabels, CaptureLabels, DnsLabels, PfLabels,
  ClosingLabels
<1>1. ASSUME Environment PROVE Settled'
  <2>1. CASE Prepare BY <2>1 DEF Prepare
  <2>2. ASSUME NEW c \in Commands, Command(c) PROVE Settled' BY <2>2 DEF Command
  <2>3. CASE Interrupt BY <2>3 DEF Interrupt
  <2>4. CASE CaptureDies BY <2>4 DEF CaptureDies
  <2>5. CASE EditHosts BY <2>5 DEF EditHosts
  <2>6. CASE Reboot BY <2>6 DEF Reboot
  <2>7. ASSUME NEW p \in Proc, Kill(p) PROVE Settled' BY <2>7 DEF Kill, Leave
  <2> QED BY <1>1, <2>1, <2>2, <2>3, <2>4, <2>5, <2>6, <2>7 DEF Environment
<1>2. ASSUME PrepareStep PROVE Settled'
  <2>1. CASE StartCapture BY <2>1 DEF StartCapture
  <2>2. CASE PfPrepare BY <2>2 DEF PfPrepare
  <2>3. CASE PfApply BY <2>3 DEF PfApply
  <2>4. CASE PinHosts BY <2>4 DEF PinHosts
  <2>5. CASE Launch BY <2>5 DEF Launch
  <2>6. CASE PrepareFails BY <2>6 DEF PrepareFails, Raise
  <2>7. CASE PrepareHandler BY <2>7 DEF PrepareHandler
  <2>8. CASE VerifyRehearsal BY <2>8 DEF VerifyRehearsal, Leave
  <2>9. CASE Prepare BY <2>9 DEF Prepare
  <2> QED
    BY <1>2, <2>1, <2>2, <2>3, <2>4, <2>5, <2>6, <2>7, <2>8, <2>9
       DEF PrepareStep
<1>3. ASSUME OperatorStep PROVE Settled'
  <2>1. CASE CommandLocked BY <2>1 DEF CommandLocked
  <2>2. CASE CommandBegin BY <2>2 DEF CommandBegin, Leave
  <2>3. CASE StopWatchdog BY <2>3 DEF StopWatchdog
  <2>4. CASE Validate BY <2>4 DEF Validate, Leave
  <2>5. CASE Recover BY <2>5 DEF Recover, Leave
  <2> QED BY <1>3, <2>1, <2>2, <2>3, <2>4, <2>5 DEF OperatorStep
<1>4. CASE Watchdog BY <1>4 DEF Watchdog
<1>5. ASSUME NEW p \in Proc, CleanupStep(p) PROVE Settled'
  <2>1. CASE StopCapture(p) BY <2>1 DEF StopCapture, GiveUp, Skip, NextOperation
  <2>2. CASE SignalCapture(p) BY <2>2 DEF SignalCapture, GiveUp, Skip, NextOperation
  <2>3. CASE RecordCaptureStop(p) BY <2>3 DEF RecordCaptureStop
  <2>4. CASE SnapshotPf(p) BY <2>4 DEF SnapshotPf, GiveUp, Skip, NextOperation
  <2>5. CASE RestoreHosts(p) BY <2>5 DEF RestoreHosts, GiveUp, Skip, NextOperation
  <2>6. CASE InstallBaseline(p) BY <2>6 DEF InstallBaseline
  <2>7. CASE ConfirmHosts(p) BY <2>7 DEF ConfirmHosts, GiveUp, Skip, NextOperation
  <2>8. CASE RestorePf(p)
    BY <2>8 DEF RestorePf, PfAmbiguous, GiveUp, Skip, NextOperation
  <2>9. CASE ReleasePf(p) BY <2>9 DEF ReleasePf, GiveUp, Skip, NextOperation
  <2>10. CASE CleanupFails(p) BY <2>10 DEF CleanupFails, GiveUp, Skip, NextOperation
  <2>11. CASE Cleaned(p) BY <2>11 DEF Cleaned, Leave
  <2> QED
    BY <1>5, <2>1, <2>2, <2>3, <2>4, <2>5, <2>6, <2>7, <2>8, <2>9, <2>10, <2>11
       DEF CleanupStep
<1>6. ASSUME NEW p \in Proc, LogFinished(p) PROVE Settled'
  BY <1>6 DEF LogFinished, ResultOf, Leave
<1>7. ASSUME NEW p \in Proc, Finalize(p) PROVE Settled' BY <1>7 DEF Finalize, Leave
<1>8. CASE CaptureProceeds BY <1>8 DEF CaptureProceeds
<1>9. CASE UNCHANGED vars BY <1>9 DEF vars
<1> QED
  BY <1>1, <1>2, <1>3, <1>4, <1>5, <1>6, <1>7, <1>8, <1>9 DEF Next, ProcessStep

---------------------------------------------------------------------------
\* The parts together.
IInv ==
  TypeOK /\ Exclusive /\ Begun /\ Announced /\ Undone /\ Watched /\ Quiet /\ Settled

LEMMA InitIInv == Init => IInv
<1> SUFFICES ASSUME Init PROVE IInv OBVIOUS
<1> USE DEF Init
<1>1. TypeOK
  <2>1. pc \in [Proc -> Labels] BY DEF Labels
  <2>2. HoldersOK BY DEF HoldersOK
  <2>3. RecordsOK
    BY DEF RecordsOK, Artifacts, Trees, CapMarks, DnsMarks, PfMarks
  <2>4. FlagsOK BY DEF FlagsOK
  <2> QED BY <2>1, <2>2, <2>3, <2>4, Zenon DEF TypeOK, HoldersOK, RecordsOK, FlagsOK
<1>2. Exclusive
  BY DEF Exclusive, Busy, CleanupLabels, CaptureLabels, DnsLabels, PfLabels, ClosingLabels
<1>3. Begun
  BY DEF Begun, Fresh, BegunCapture, BegunPf, BegunHosts, Starting,
     UntilCapPrep, UntilPfSave, UntilPfLoad, UntilHostsSave, LaunchLabels, TryLabels, Sealed
<1>4. Announced BY DEF Announced, AnnouncedCapture, AnnouncedHosts, AnnouncedPf
<1>5. Undone
  BY DEF Undone, UndoneCapture, UndoneHosts, UndonePf, Final, Gone, Sealed,
     DnsLabels, PfLabels
<1>6. Watched BY DEF Watched, NoCommand
<1>7. Quiet
  BY DEF Quiet, Sealed, Busy, CleanupLabels, CaptureLabels, DnsLabels, PfLabels,
     ClosingLabels
<1>8. Settled BY DEF Settled, Final, PfLabels
<1> QED BY <1>1, <1>2, <1>3, <1>4, <1>5, <1>6, <1>7, <1>8 DEF IInv

LEMMA NextIInv == IInv /\ [Next]_vars => IInv'
  BY TypeOKNext, ExclusiveNext, BegunNext, AnnouncedNext, UndoneNext, WatchedNext,
     QuietNext, SettledNext DEF IInv

LEMMA Invariance == Spec => []IInv
  BY InitIInv, NextIInv, PTL DEF Spec

\* Whatever interrupts, kills or restarts an attempt of the diagnostic, its records
\* on disk and the state of the Mac stay in the domains the code tells apart.
THEOREM TypeCorrect == Spec => []TypeOK
<1>1. IInv => TypeOK BY DEF IInv
<1> QED BY <1>1, Invariance, PTL

\* The capture, the PF reference, the rule and the override are announced in their
\* state files before they are made, and stay announced (start_capture,
\* prepare_firewall, apply_dns_pin): a later process finds all of them.
THEOREM AlterationsAnnounced == Spec => []AnnouncedFirst
<1>1. IInv => AnnouncedFirst
  BY DEF IInv, Announced, AnnouncedCapture, AnnouncedHosts, AnnouncedPf, AnnouncedFirst
<1> QED BY <1>1, Invariance, PTL

\* A finalized attempt or rehearsal has undone everything: whichever process, after
\* whatever interruption, completes the cleanup of another (cleanup_attempt,
\* finalize_attempt).
THEOREM SealedRestores == Spec => []SealedIsRestored
<1>1. IInv => SealedIsRestored
  BY DEF IInv, Undone, UndoneCapture, UndoneHosts, UndonePf, SealedIsRestored
<1> QED BY <1>1, Invariance, PTL

---------------------------------------------------------------------------
\* A success under unchanged conditions is written by finish-run only, for an
\* attempt whose URL was opened, thus with a confirmed capture: one that was lost
\* would have been found premature.
LEMMA SuccessEarned ==
  ASSUME IInv, NEW p \in Proc, At(p, "finished"), NEW o \in ResultOf(p),
         o.result = "success", ~o.changed
  PROVE  ~lost
<1>1. p = "operator" /\ cmd.verb # "cleanup" BY DEF ResultOf
<1>2. PICK r \in {cmd.result, "timeout", "direct_bypass"} :
        /\ o.result = IF Premature /\ r # "direct_bypass" /\ ~cmd.changed
                      THEN "mechanical_failure" ELSE r
        /\ o.changed = cmd.changed
  BY <1>1 DEF ResultOf
<1>3. cmd.result = "success" /\ ~Premature BY <1>2
<1>4. cmd.response
  BY <1>3, CommandTyped DEF IInv
<1>5. "started" \in capState BY <1>4 DEF IInv, Watched, Announced, AnnouncedCapture
<1>6. "stopped" \in capState
  BY <1>5 DEF IInv, Undone, UndoneCapture, Gone, Final
<1> QED BY <1>3, <1>5, <1>6 DEF IInv, Watched

\* Once there is an outcome there is no capture left to lose.
LEMMA SuccessNext ==
  ASSUME IInv, SuccessHasCapture, [Next]_vars
  PROVE  SuccessHasCapture'
<1> USE DEF IInv, TypeOK, SuccessHasCapture, Begun, Fresh, Starting, Undone,
  UndoneCapture
<1>1. ASSUME Environment PROVE SuccessHasCapture'
  <2>1. CASE Prepare BY <2>1 DEF Prepare
  <2>2. ASSUME NEW c \in Commands, Command(c) PROVE SuccessHasCapture'
    BY <2>2 DEF Command
  <2>3. CASE Interrupt BY <2>3 DEF Interrupt
  <2>4. CASE CaptureDies BY <2>4 DEF CaptureDies
  <2>5. CASE EditHosts BY <2>5 DEF EditHosts
  <2>6. CASE Reboot BY <2>6 DEF Reboot
  <2>7. ASSUME NEW p \in Proc, Kill(p) PROVE SuccessHasCapture' BY <2>7 DEF Kill, Leave
  <2> QED BY <1>1, <2>1, <2>2, <2>3, <2>4, <2>5, <2>6, <2>7 DEF Environment
<1>2. ASSUME PrepareStep PROVE SuccessHasCapture'
  <2>1. CASE StartCapture BY <2>1 DEF StartCapture
  <2>2. CASE PfPrepare BY <2>2 DEF PfPrepare
  <2>3. CASE PfApply BY <2>3 DEF PfApply
  <2>4. CASE PinHosts BY <2>4 DEF PinHosts
  <2>5. CASE Launch BY <2>5 DEF Launch
  <2>6. CASE PrepareFails BY <2>6 DEF PrepareFails, Raise
  <2>7. CASE PrepareHandler BY <2>7 DEF PrepareHandler
  <2>8. CASE VerifyRehearsal BY <2>8 DEF VerifyRehearsal, Leave
  <2>9. CASE Prepare BY <2>9 DEF Prepare
  <2> QED
    BY <1>2, <2>1, <2>2, <2>3, <2>4, <2>5, <2>6, <2>7, <2>8, <2>9
       DEF PrepareStep
<1>3. ASSUME OperatorStep PROVE SuccessHasCapture'
  <2>1. CASE CommandLocked BY <2>1 DEF CommandLocked
  <2>2. CASE CommandBegin BY <2>2 DEF CommandBegin, Leave
  <2>3. CASE StopWatchdog BY <2>3 DEF StopWatchdog
  <2>4. CASE Validate BY <2>4 DEF Validate, Leave
  <2>5. CASE Recover BY <2>5 DEF Recover, Leave
  <2> QED BY <1>3, <2>1, <2>2, <2>3, <2>4, <2>5 DEF OperatorStep
<1>4. CASE Watchdog BY <1>4 DEF Watchdog
<1>5. ASSUME NEW p \in Proc, CleanupStep(p) PROVE SuccessHasCapture'
  <2>1. CASE StopCapture(p) BY <2>1 DEF StopCapture, GiveUp, Skip, NextOperation
  <2>2. CASE SignalCapture(p) BY <2>2 DEF SignalCapture, GiveUp, Skip, NextOperation
  <2>3. CASE RecordCaptureStop(p) BY <2>3 DEF RecordCaptureStop
  <2>4. CASE SnapshotPf(p) BY <2>4 DEF SnapshotPf, GiveUp, Skip, NextOperation
  <2>5. CASE RestoreHosts(p) BY <2>5 DEF RestoreHosts, GiveUp, Skip, NextOperation
  <2>6. CASE InstallBaseline(p) BY <2>6 DEF InstallBaseline
  <2>7. CASE ConfirmHosts(p) BY <2>7 DEF ConfirmHosts, GiveUp, Skip, NextOperation
  <2>8. CASE RestorePf(p)
    BY <2>8 DEF RestorePf, PfAmbiguous, GiveUp, Skip, NextOperation
  <2>9. CASE ReleasePf(p) BY <2>9 DEF ReleasePf, GiveUp, Skip, NextOperation
  <2>10. CASE CleanupFails(p) BY <2>10 DEF CleanupFails, GiveUp, Skip, NextOperation
  <2>11. CASE Cleaned(p) BY <2>11 DEF Cleaned, Leave
  <2> QED
    BY <1>5, <2>1, <2>2, <2>3, <2>4, <2>5, <2>6, <2>7, <2>8, <2>9, <2>10, <2>11
       DEF CleanupStep
<1>6. ASSUME NEW p \in Proc, LogFinished(p) PROVE SuccessHasCapture'
  BY <1>6, SuccessEarned DEF LogFinished, Leave
<1>7. ASSUME NEW p \in Proc, Finalize(p) PROVE SuccessHasCapture'
  BY <1>7 DEF Finalize, Leave
<1>8. CASE CaptureProceeds BY <1>8 DEF CaptureProceeds
<1>9. CASE UNCHANGED vars BY <1>9 DEF vars
<1> QED
  BY <1>1, <1>2, <1>3, <1>4, <1>5, <1>6, <1>7, <1>8, <1>9 DEF Next, ProcessStep

\* No run_finished of an undisturbed success without the whole capture: "objective
\* retryable evidence loss, not a network outcome" (stop_capture, finish_attempt).
THEOREM SuccessCaptured == Spec => []SuccessHasCapture
<1>1. Init => SuccessHasCapture BY DEF Init, SuccessHasCapture
<1>2. IInv /\ SuccessHasCapture /\ [Next]_vars => SuccessHasCapture' BY SuccessNext
<1> QED BY <1>1, <1>2, Invariance, PTL DEF Spec

---------------------------------------------------------------------------
\* The steps of AttemptContract, in terms of the attempt's own state.
Open == "metadata.json" \in files /\ ~Sealed
SameAltered ==
  /\ (hosts' = "override") <=> (hosts = "override")
  /\ pfRule' <=> pfRule
  /\ (capture' = "none") <=> (capture = "none")
SameOwed == (Owed(dnsState') <=> Owed(dnsState)) /\ (Owed(pfState') <=> Owed(pfState))

USE DEF Contract!contract, Contract!Next, Contract!Alterations, Contract!Overrides

LEMMA Unseen ==
  ASSUME Sealed' <=> Sealed, ("metadata.json" \in files') <=> ("metadata.json" \in files),
         SameAltered, SameOwed, Sealed => outcomes' = outcomes
  PROVE  [Contract!Next]_(Contract!contract)
  BY DEF SameAltered, SameOwed

LEMMA BeginStep ==
  ASSUME ~Sealed, ~Sealed', "metadata.json" \notin files, "metadata.json" \in files',
         SameAltered, SameOwed
  PROVE  [Contract!Next]_(Contract!contract)
  BY DEF Contract!Begin, SameAltered, SameOwed

LEMMA UndoStep ==
  ASSUME Open, Open', SameOwed,
         hosts' = "override" => hosts = "override", pfRule' => pfRule,
         capture' # "none" => capture # "none"
  PROVE  [Contract!Next]_(Contract!contract)
<1> DEFINE S == {x \in {"hosts", "rule", "capture"} :
                   CASE x = "hosts" -> hosts' # "override"
                     [] x = "rule" -> ~pfRule'
                     [] x = "capture" -> capture' = "none"}
<1>1. PICK T \in SUBSET Contract!Alterations : T = S OBVIOUS
<1>2. Contract!Undo(T) BY <1>1 DEF Contract!Undo, Open, SameOwed
<1> HIDE DEF S
<1> QED BY <1>2

LEMMA AlterStep ==
  ASSUME Open, Open', SameOwed, NEW x \in {"hosts", "rule", "capture"},
         x = "hosts" \/ ((hosts' = "override") <=> (hosts = "override")),
         x = "rule" \/ (pfRule' <=> pfRule),
         x = "capture" \/ ((capture' = "none") <=> (capture = "none")),
         x = "hosts" => hosts' = "override" /\ Owed(dnsState),
         x = "rule" => pfRule' /\ Owed(pfState),
         x = "capture" => capture' # "none"
  PROVE  [Contract!Next]_(Contract!contract)
<1>1. Contract!Alter(x) BY DEF Contract!Alter, Open, SameOwed
<1> QED BY <1>1

LEMMA RecordHosts ==
  ASSUME Open, Open', SameAltered, hosts # "override",
         Owed(pfState') <=> Owed(pfState)
  PROVE  [Contract!Next]_(Contract!contract)
<1>1. Contract!Owe("hosts") \/ Contract!Settle("hosts")
  BY DEF Contract!Owe, Contract!Settle, Open, SameAltered
<1> QED BY <1>1

LEMMA RecordPf ==
  ASSUME Open, Open', SameAltered, ~pfRule,
         Owed(dnsState') <=> Owed(dnsState)
  PROVE  [Contract!Next]_(Contract!contract)
<1>1. Contract!Owe("rule") \/ Contract!Settle("rule")
  BY DEF Contract!Owe, Contract!Settle, Open, SameAltered
<1> QED BY <1>1

LEMMA SealStep ==
  ASSUME Open, Sealed', SameAltered, SameOwed, outcomes' = outcomes,
         outcomes \in Seq(Outcome),
         hosts # "override", ~pfRule, capture = "none",
         ~Owed(dnsState), ~Owed(pfState)
  PROVE  [Contract!Next]_(Contract!contract)
<1> DEFINE o == IF outcomes = <<>> THEN NoCommand ELSE outcomes[Len(outcomes)]
<1>1. o \in Outcome \cup {NoCommand} OBVIOUS
<1>2. Contract!Seal(o) BY DEF Contract!Seal, Open, SameAltered, SameOwed
<1> QED BY <1>1, <1>2

\* Every step of the attempt is a step of the contract, or none.
LEMMA ContractNext ==
  ASSUME IInv, [Next]_vars
  PROVE  [Contract!Next]_(Contract!contract)
<1> USE DEF IInv, TypeOK, Exclusive, Busy, Final, Gone, Quiet, Settled, Owed, Begun,
  Announced, Undone, Open, SameAltered, SameOwed, Fresh, BegunCapture, BegunPf,
  BegunHosts, Starting, UntilCapPrep, UntilPfSave, UntilPfLoad, UntilHostsSave,
  LaunchLabels, Sealed, AnnouncedCapture, AnnouncedHosts, AnnouncedPf, UndoneCapture,
  UndoneHosts, UndonePf, Labels, TryLabels, CleanupLabels, CaptureLabels, DnsLabels,
  PfLabels, ClosingLabels
<1> HIDE DEF Contract!contract, Contract!Next, Contract!Alterations, Contract!Overrides
<1>1. ASSUME Environment PROVE [Contract!Next]_(Contract!contract)
  <2>1. CASE Prepare BY <2>1, BeginStep, Unseen DEF Prepare
  <2>2. ASSUME NEW c \in Commands, Command(c) PROVE [Contract!Next]_(Contract!contract)
    BY <2>2, Unseen DEF Command
  <2>3. CASE Interrupt BY <2>3, UndoStep, Unseen DEF Interrupt
  <2>4. CASE CaptureDies BY <2>4, UndoStep DEF CaptureDies
  <2>5. CASE EditHosts BY <2>5, UndoStep, Unseen DEF EditHosts
  <2>6. CASE Reboot BY <2>6, UndoStep, Unseen DEF Reboot
  <2>7. ASSUME NEW p \in Proc, Kill(p) PROVE [Contract!Next]_(Contract!contract)
    BY <2>7, Unseen DEF Kill, Leave
  <2> QED BY <1>1, <2>1, <2>2, <2>3, <2>4, <2>5, <2>6, <2>7 DEF Environment
<1>2. ASSUME PrepareStep PROVE [Contract!Next]_(Contract!contract)
  <2>1. CASE StartCapture BY <2>1, AlterStep, Unseen DEF StartCapture
  <2>2. CASE PfPrepare BY <2>2, RecordPf, Unseen DEF PfPrepare
  <2>3. CASE PfApply BY <2>3, AlterStep, Unseen DEF PfApply
  <2>4. CASE PinHosts BY <2>4, RecordHosts, AlterStep, Unseen DEF PinHosts
  <2>5. CASE Launch BY <2>5, Unseen DEF Launch
  <2>6. CASE PrepareFails BY <2>6, Unseen DEF PrepareFails, Raise
  <2>7. CASE PrepareHandler BY <2>7, Unseen DEF PrepareHandler
  <2>8. CASE VerifyRehearsal BY <2>8, Unseen DEF VerifyRehearsal, Leave
  <2>9. CASE Prepare BY <2>9, BeginStep, Unseen DEF Prepare
  <2> QED
    BY <1>2, <2>1, <2>2, <2>3, <2>4, <2>5, <2>6, <2>7, <2>8, <2>9
       DEF PrepareStep
<1>3. ASSUME OperatorStep PROVE [Contract!Next]_(Contract!contract)
  <2>1. CASE CommandLocked BY <2>1, Unseen DEF CommandLocked
  <2>2. CASE CommandBegin BY <2>2, Unseen DEF CommandBegin, Leave
  <2>3. CASE StopWatchdog BY <2>3, Unseen DEF StopWatchdog
  <2>4. CASE Validate BY <2>4, Unseen DEF Validate, Leave
  <2>5. CASE Recover BY <2>5, Unseen DEF Recover, Leave
  <2> QED BY <1>3, <2>1, <2>2, <2>3, <2>4, <2>5 DEF OperatorStep
<1>4. CASE Watchdog BY <1>4, Unseen DEF Watchdog
<1>5. ASSUME NEW p \in Proc, CleanupStep(p) PROVE [Contract!Next]_(Contract!contract)
  <2>1. CASE StopCapture(p) BY <2>1, Unseen DEF StopCapture, GiveUp, Skip, NextOperation
  <2>2. CASE SignalCapture(p)
    BY <2>2, UndoStep, Unseen DEF SignalCapture, GiveUp, Skip, NextOperation
  <2>3. CASE RecordCaptureStop(p) BY <2>3, Unseen DEF RecordCaptureStop
  <2>4. CASE SnapshotPf(p) BY <2>4, Unseen DEF SnapshotPf, GiveUp, Skip, NextOperation
  <2>5. CASE RestoreHosts(p)
    BY <2>5, Unseen DEF RestoreHosts, GiveUp, Skip, NextOperation
  <2>6. CASE InstallBaseline(p) BY <2>6, UndoStep, Unseen DEF InstallBaseline
  <2>7. CASE ConfirmHosts(p)
    BY <2>7, RecordHosts, Unseen DEF ConfirmHosts, GiveUp, Skip, NextOperation
  <2>8. CASE RestorePf(p)
    BY <2>8, Unseen DEF RestorePf, PfAmbiguous, GiveUp, Skip, NextOperation
  <2>9. CASE ReleasePf(p)
    BY <2>9, UndoStep, RecordPf, Unseen DEF ReleasePf, GiveUp, Skip, NextOperation
  <2>10. CASE CleanupFails(p)
    BY <2>10, Unseen DEF CleanupFails, GiveUp, Skip, NextOperation
  <2>11. CASE Cleaned(p) BY <2>11, Unseen DEF Cleaned, Leave
  <2> QED
    BY <1>5, <2>1, <2>2, <2>3, <2>4, <2>5, <2>6, <2>7, <2>8, <2>9, <2>10, <2>11
       DEF CleanupStep
<1>6. ASSUME NEW p \in Proc, LogFinished(p) PROVE [Contract!Next]_(Contract!contract)
  BY <1>6, Unseen DEF LogFinished, ResultOf, Leave
<1>7. ASSUME NEW p \in Proc, Finalize(p) PROVE [Contract!Next]_(Contract!contract)
  BY <1>7, SealStep, Unseen DEF Finalize, Leave
<1>8. CASE CaptureProceeds BY <1>8, UndoStep, Unseen DEF CaptureProceeds
<1>9. CASE UNCHANGED vars BY <1>9, Unseen DEF vars
<1> QED
  BY <1>1, <1>2, <1>3, <1>4, <1>5, <1>6, <1>7, <1>8, <1>9 DEF Next, ProcessStep

\* The attempt and the rehearsal implement the contract of the measurement attempt:
\* owed before altered, settled when undone, sealed once with nothing left.
THEOREM ContractKept == Spec => KeepsContract
<1>1. Init => Contract!Init BY DEF Init, Contract!Init, Sealed, Owed
<1>2. IInv /\ [Next]_vars => [Contract!Next]_(Contract!contract) BY ContractNext
<1> QED BY <1>1, <1>2, Invariance, PTL DEF Spec, Contract!Spec, KeepsContract

=============================================================================

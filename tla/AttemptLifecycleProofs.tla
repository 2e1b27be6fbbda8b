------------------------ MODULE AttemptLifecycleProofs ------------------------
(***************************************************************************)
(* Theorems about AttemptLifecycle, for every set of faults, every bound,  *)
(* with or without commands that overlap prepare-run.                      *)
(***************************************************************************)
EXTENDS AttemptLifecycle, TLAPS

\* What makes TypeOK and WriteAhead inductive: a process about to act on, or to
\* write back, a recorded state has a state on record, and has read one.
Recorded ==
  /\ WriteAhead
  /\ pc["prepare"] \in {"hostsFile", "hostsInstall", "hostsMark", "activate"}
       => dnsState # {}
  /\ pc["prepare"] \in {"pfLoad", "pfMark", "pfReset"} => pfState # {}
  /\ pc["prepare"] \in {"pfSave", "pfMark", "pfReset"} => mem["prepare"].pf # {}
  /\ \A p \in Proc :
       /\ pc[p] \in {"hostsBack", "flush", "hostsCheck"} => "saved" \in mem[p].dns
       /\ pc[p] = "snapWrite" => mem[p].pf # {}

TypedInv == TypeOK /\ Recorded

USE DEF Proc, At, Go

LEMMA TypedInit == Init => TypedInv
<1> SUFFICES ASSUME Init PROVE TypedInv OBVIOUS
<1> USE DEF Init
<1>1. pc \in [Proc -> Labels] BY DEF Labels
<1>2. mem \in [Proc -> MemType] BY DEF MemType, Blank
<1>3. hosts \in [pin : BOOLEAN, version : Nat] BY DEF Plain
<1>4. events \in Seq(Events) OBVIOUS
<1>5. TypeOK BY <1>1, <1>2, <1>3, <1>4 DEF TypeOK, Plans, Commands, DnsStates
<1>6. Recorded BY DEF Recorded, WriteAhead, Plain
<1> QED BY <1>5, <1>6 DEF TypedInv

\* What the vocabulary of the steps does to the variables it changes.
LEMMA BlankType == Blank \in MemType
  BY DEF Blank, MemType

LEMMA LeaveMem ==
  ASSUME TypeOK, NEW p \in Proc, Leave(p)
  PROVE  /\ mem' \in [Proc -> MemType]
         /\ \A q \in Proc : q # p => mem'[q] = mem[q]
  BY BlankType DEF TypeOK, Leave

LEMMA ErrorMem ==
  ASSUME TypeOK, NEW p \in Proc, CleanupError(p)
  PROVE  /\ mem' \in [Proc -> MemType]
         /\ \A q \in Proc : mem'[q].dns = mem[q].dns /\ mem'[q].pf = mem[q].pf
  BY DEF TypeOK, CleanupError, Remember, MemType

LEMMA PfMem ==
  ASSUME TypeOK, NEW p \in Proc, NEW S \in SUBSET PfMarks, Remember(p, "pf", S)
  PROVE  /\ mem' \in [Proc -> MemType]
         /\ mem'[p].pf = S
         /\ \A q \in Proc : mem'[q].dns = mem[q].dns /\ (q # p => mem'[q] = mem[q])
  BY DEF TypeOK, Remember, MemType

LEMMA DnsMem ==
  ASSUME TypeOK, NEW p \in Proc, NEW S \in SUBSET DnsMarks, Remember(p, "dns", S)
  PROVE  /\ mem' \in [Proc -> MemType]
         /\ mem'[p].dns = S
         /\ \A q \in Proc : mem'[q].pf = mem[q].pf /\ (q # p => mem'[q] = mem[q])
  BY DEF TypeOK, Remember, MemType

LEMMA PrivMem ==
  ASSUME TypeOK, NEW p \in Proc, NEW b \in BOOLEAN, Remember(p, "priv", b)
  PROVE  /\ mem' \in [Proc -> MemType]
         /\ \A q \in Proc : mem'[q].dns = mem[q].dns /\ mem'[q].pf = mem[q].pf
  BY DEF TypeOK, Remember, MemType

LEMMA MemRead ==
  ASSUME TypeOK, NEW p \in Proc
  PROVE  mem[p].pf \in SUBSET PfMarks /\ mem[p].dns \in SUBSET DnsMarks
  BY DEF TypeOK, MemType

LEMMA HostsType ==
  ASSUME NEW v \in Nat
  PROVE  /\ Pinned(v) \in [pin : BOOLEAN, version : Nat] /\ Pinned(v).pin
         /\ Plain(v) \in [pin : BOOLEAN, version : Nat] /\ ~Plain(v).pin
  BY DEF Pinned, Plain

LEMMA ErrorPc ==
  ASSUME TypeOK, NEW p \in Proc, CleanupError(p)
  PROVE  /\ pc' \in [Proc -> Labels]
         /\ pc'[p] \in {"dns", "pf", "cleaned"}
         /\ \A q \in Proc : q # p => pc'[q] = pc[q]
  <1>1. AfterError(pc[p]) \in {"dns", "pf", "cleaned"} BY DEF AfterError
  <1>2. {"dns", "pf", "cleaned"} \subseteq Labels
    BY DEF Labels, LockedLabels, CleanupLabels, DnsLabels, PfLabels
  <1> QED BY <1>1, <1>2 DEF TypeOK, CleanupError

LEMMA LeavePc ==
  ASSUME TypeOK, NEW p \in Proc, Leave(p)
  PROVE  /\ pc' \in [Proc -> Labels]
         /\ pc'[p] \in {"idle", "done"}
         /\ \A q \in Proc : q # p => pc'[q] = pc[q]
  <1>1. {"idle", "done"} \subseteq Labels BY DEF Labels
  <1> QED BY <1>1 DEF TypeOK, Leave

LEMMA LogEvents ==
  ASSUME TypeOK, NEW e \in Events, Log(e)
  PROVE  events' \in Seq(Events)
  BY DEF TypeOK, Log

LEMMA TypedPrepare == ASSUME TypedInv, Prepare PROVE TypedInv'
  <1> USE DEF TypedInv, Prepare, evidence, marks, mac
  <1>1. pc' \in [Proc -> Labels] BY DEF TypeOK, Labels
  <1>2. TypeOK' BY <1>1 DEF TypeOK
  <1>3. Recorded' BY DEF Recorded, WriteAhead, TypeOK
  <1> QED BY <1>2, <1>3

LEMMA TypedPrepareRecord == ASSUME TypedInv, PrepareRecord PROVE TypedInv'
  <1> USE DEF TypedInv, PrepareRecord, marks, mac
  <1>1. pc' \in [Proc -> Labels] BY DEF TypeOK, Labels, TryLabels
  <1>2. events' \in Seq(Events) BY LogEvents DEF TypeOK, Events, Outcomes
  <1>3. files' \subseteq Artifacts BY DEF TypeOK, Artifacts
  <1>4. TypeOK' BY <1>1, <1>2, <1>3 DEF TypeOK
  <1>5. Recorded' BY DEF Recorded, WriteAhead, TypeOK
  <1> QED BY <1>4, <1>5

LEMMA TypedPrepareCapture == ASSUME TypedInv, PrepareCapture PROVE TypedInv'
  <1> USE DEF TypedInv, PrepareCapture
  <1>1. pc' \in [Proc -> Labels] BY DEF TypeOK, Labels, TryLabels
  <1>2. mem' \in [Proc -> MemType] BY PrivMem DEF TypeOK
  <1>3. files' \subseteq Artifacts BY DEF TypeOK, Artifacts
  <1>4. capState' \in {"none", "started", "stopped"} BY DEF TypeOK
  <1>5. dirty' \in BOOLEAN /\ tcpdump' \in BOOLEAN BY DEF TypeOK, Written
  <1>6. TypeOK' BY <1>1, <1>2, <1>3, <1>4, <1>5 DEF TypeOK
  <1>7. Recorded' BY PrivMem DEF Recorded, WriteAhead, TypeOK
  <1> QED BY <1>6, <1>7

LEMMA TypedPfEnable == ASSUME TypedInv, PfEnable PROVE TypedInv'
  <1> USE DEF TypedInv, PfEnable, evidence, marks
  <1>1. pc' \in [Proc -> Labels]
    BY DEF TypeOK, Labels, TryLabels
  <1>2. PICK S \in SUBSET PfMarks : S # {} /\ Remember("prepare", "pf", S) /\ pfRef' \in BOOLEAN
    BY DEF PfMarks
  <1>3. /\ mem' \in [Proc -> MemType] /\ mem'["prepare"].pf # {}
        /\ \A q \in Proc : mem'[q].dns = mem[q].dns /\ (q # "prepare" => mem'[q] = mem[q])
    BY <1>2, PfMem
  <1>4. TypeOK' BY <1>1, <1>2, <1>3 DEF TypeOK
  <1>5. Recorded' BY <1>3 DEF Recorded, WriteAhead, TypeOK
  <1> QED BY <1>4, <1>5

LEMMA TypedPfTokenUnparsed == ASSUME TypedInv, PfTokenUnparsed PROVE TypedInv'
  <1> USE DEF TypedInv, PfTokenUnparsed, mac
  <1>1. pc' \in [Proc -> Labels] BY DEF TypeOK, Labels, TryLabels
  <1>2. faults' \in Nat BY DEF TypeOK
  <1>3. pfState' \subseteq PfMarks BY MemRead DEF TypeOK, PfMarks
  <1>4. dirty' \in BOOLEAN BY DEF TypeOK, Written
  <1>5. TypeOK' BY <1>1, <1>2, <1>3, <1>4 DEF TypeOK
  <1>6. Recorded' BY DEF Recorded, WriteAhead, TypeOK
  <1> QED BY <1>5, <1>6

LEMMA TypedPfApply == ASSUME TypedInv, PfApply PROVE TypedInv'
  <1> USE DEF TypedInv, PfApply
  <1>1. pc' \in [Proc -> Labels]
    BY DEF TypeOK, Labels, TryLabels
  <1>2. mem' \in [Proc -> MemType]
    BY PfMem, MemRead DEF TypeOK, PfMarks
  <1>3. dirty' \in BOOLEAN /\ pfRule' \in BOOLEAN
    BY DEF TypeOK, Written
  <1>4. pfState' \subseteq PfMarks
    BY MemRead DEF TypeOK, PfMarks
  <1>5. TypeOK' BY <1>1, <1>2, <1>3, <1>4 DEF TypeOK
  <1>6. /\ At("prepare", "pfLoad") => mem'["prepare"].pf # {}
        /\ ~At("prepare", "pfLoad") => mem' = mem
        /\ \A q \in Proc : mem'[q].dns = mem[q].dns /\ (q # "prepare" => mem'[q] = mem[q])
    <2>1. CASE At("prepare", "pfLoad")
      <3>1. mem["prepare"].pf \cup {"loaded"} \in SUBSET PfMarks BY MemRead DEF PfMarks
      <3> QED BY <2>1, <3>1, PfMem
    <2>2. CASE ~At("prepare", "pfLoad") BY <2>2
    <2> QED BY <2>1, <2>2
  <1>7. Recorded' BY <1>6 DEF Recorded, WriteAhead, TypeOK
  <1> QED BY <1>5, <1>7

LEMMA TypedHostsRead == ASSUME TypedInv, HostsRead PROVE TypedInv'
  <1> USE DEF TypedInv, HostsRead, evidence, marks, mac
  <1>1. pc' \in [Proc -> Labels] BY DEF TypeOK, Labels, TryLabels
  <1>2. mem' \in [Proc -> MemType] BY DEF TypeOK, Remember, MemType
  <1>3. TypeOK' BY <1>1, <1>2 DEF TypeOK
  <1>4. Recorded' BY DEF Recorded, WriteAhead, TypeOK, Remember, MemType
  <1> QED BY <1>3, <1>4

LEMMA TypedHostsSave == ASSUME TypedInv, HostsSave PROVE TypedInv'
  <1> USE DEF TypedInv, HostsSave, mac
  <1>1. pc' \in [Proc -> Labels] BY DEF TypeOK, Labels, TryLabels
  <1>2. baseline' \in Nat BY DEF TypeOK, MemType
  <1>3. dnsState' \in DnsStates BY DEF TypeOK, DnsStates, DnsMarks
  <1>4. dirty' \in BOOLEAN BY DEF TypeOK, Written
  <1>5. TypeOK' BY <1>1, <1>2, <1>3, <1>4 DEF TypeOK
  <1>6. Recorded' BY DEF Recorded, WriteAhead, TypeOK
  <1> QED BY <1>5, <1>6

LEMMA TypedHostsInstall == ASSUME TypedInv, HostsInstall PROVE TypedInv'
  <1> USE DEF TypedInv, HostsInstall, evidence, marks
  <1>1. pc' \in [Proc -> Labels] BY DEF TypeOK, Labels, TryLabels
  <1>2. hosts' \in [pin : BOOLEAN, version : Nat] BY HostsType DEF TypeOK, MemType
  <1>3. TypeOK' BY <1>1, <1>2 DEF TypeOK
  <1>4. Recorded' BY HostsType DEF Recorded, WriteAhead, TypeOK, DnsStates
  <1> QED BY <1>3, <1>4

LEMMA TypedHostsMark == ASSUME TypedInv, HostsMark PROVE TypedInv'
  <1> USE DEF TypedInv, HostsMark, mac
  <1>1. pc' \in [Proc -> Labels] BY DEF TypeOK, Labels, TryLabels
  <1>2. dnsState' \in DnsStates BY DEF TypeOK, DnsStates, DnsMarks
  <1>3. dirty' \in BOOLEAN BY DEF TypeOK, Written
  <1>4. TypeOK' BY <1>1, <1>2, <1>3 DEF TypeOK
  <1>5. Recorded' BY DEF Recorded, WriteAhead, TypeOK
  <1> QED BY <1>4, <1>5

LEMMA TypedPrepareLaunch == ASSUME TypedInv, PrepareLaunch PROVE TypedInv'
  <1> USE DEF TypedInv, PrepareLaunch, marks, mac
  <1>1. pc' \in [Proc -> Labels] BY DEF TypeOK, Labels, TryLabels
  <1>2. events' \in Seq(Events) BY LogEvents DEF TypeOK, Events, Outcomes
  <1>3. TypeOK' BY <1>1, <1>2 DEF TypeOK
  <1>4. Recorded' BY DEF Recorded, WriteAhead, TypeOK
  <1> QED BY <1>3, <1>4

LEMMA TypedStartWatchdog == ASSUME TypedInv, StartWatchdog PROVE TypedInv'
  <1> USE DEF TypedInv, StartWatchdog, marks, mac
  <1>1. pc' \in [Proc -> Labels] BY DEF TypeOK, Labels, TryLabels
  <1>2. files' \subseteq Artifacts BY DEF TypeOK, Artifacts
  <1>3. dirty' \in BOOLEAN BY DEF TypeOK, Written
  <1>4. TypeOK' BY <1>1, <1>2, <1>3 DEF TypeOK
  <1>5. Recorded' BY DEF Recorded, WriteAhead, TypeOK
  <1> QED BY <1>4, <1>5

LEMMA TypedOpenSafari == ASSUME TypedInv, OpenSafari PROVE TypedInv'
  <1> USE DEF TypedInv, OpenSafari, marks, mac
  <1>1. pc' \in [Proc -> Labels] BY LeavePc DEF TypeOK, Labels, TryLabels
  <1>2. mem' \in [Proc -> MemType] BY LeaveMem DEF TypeOK
  <1>3. lock' \in Proc \cup {"free"} BY DEF TypeOK, Leave
  <1>4. events' \in Seq(Events) BY LogEvents DEF TypeOK, Events, Outcomes
  <1>5. TypeOK' BY <1>1, <1>2, <1>3, <1>4 DEF TypeOK
  <1>6. Recorded' BY LeavePc, LeaveMem DEF Recorded, WriteAhead, TypeOK
  <1> QED BY <1>5, <1>6

LEMMA TypedPrepareFails == ASSUME TypedInv, PrepareFails PROVE TypedInv'
  <1> USE DEF TypedInv, PrepareFails, evidence, marks
  <1>1. pc' \in [Proc -> Labels] BY DEF TypeOK, Labels, TryLabels
  <1>2. faults' \in Nat BY DEF TypeOK
  <1>3. tcpdump' \in BOOLEAN BY DEF TypeOK
  <1>4. TypeOK' BY <1>1, <1>2, <1>3 DEF TypeOK
  <1>5. Recorded' BY DEF Recorded, WriteAhead, TypeOK
  <1> QED BY <1>4, <1>5

LEMMA TypedInterrupt == ASSUME TypedInv, Interrupt PROVE TypedInv'
  <1> USE DEF TypedInv, Interrupt, evidence, marks
  <1>1. pc' \in [Proc -> Labels] BY DEF TypeOK, Labels
  <1>2. faults' \in Nat BY DEF TypeOK
  <1>3. tcpdump' \in BOOLEAN BY DEF TypeOK
  <1>4. TypeOK' BY <1>1, <1>2, <1>3 DEF TypeOK
  <1>5. Recorded' BY DEF Recorded, WriteAhead, TypeOK
  <1> QED BY <1>4, <1>5

LEMMA TypedPrepareHandler == ASSUME TypedInv, PrepareHandler PROVE TypedInv'
  <1> USE DEF TypedInv, PrepareHandler, evidence, marks, mac
  <1>1. pc' \in [Proc -> Labels]
    BY DEF TypeOK, Labels, LockedLabels, CleanupLabels, ClosingLabels
  <1>2. lock' \in Proc \cup {"free"} BY DEF TypeOK, Acquire
  <1>3. TypeOK' BY <1>1, <1>2 DEF TypeOK
  <1>4. Recorded' BY DEF Recorded, WriteAhead, TypeOK
  <1> QED BY <1>3, <1>4

LEMMA TypedSnapshotPf ==
  ASSUME TypedInv, NEW p \in Proc, SnapshotPf(p) PROVE TypedInv'
  <1> USE DEF TypedInv, SnapshotPf, mac
  <1>1. pc' \in [Proc -> Labels]
    BY DEF TypeOK, Labels, LockedLabels, CleanupLabels, CaptureLabels, PfLabels
  <1>2. mem' \in [Proc -> MemType] BY PfMem DEF TypeOK
  <1>3. pfState' \subseteq PfMarks BY MemRead DEF TypeOK
  <1>4. dirty' \in BOOLEAN BY DEF TypeOK, Written
  <1>5. TypeOK' BY <1>1, <1>2, <1>3, <1>4 DEF TypeOK
  <1>6. Recorded' BY PfMem, MemRead DEF Recorded, WriteAhead, TypeOK
  <1> QED BY <1>5, <1>6

LEMMA TypedStopCapture ==
  ASSUME TypedInv, NEW p \in Proc, StopCapture(p) PROVE TypedInv'
  <1> USE DEF TypedInv, StopCapture, evidence, marks
  <1>1. pc' \in [Proc -> Labels]
    BY ErrorPc DEF TypeOK, Labels, LockedLabels, CleanupLabels, CaptureLabels,
      DnsLabels
  <1>2. mem' \in [Proc -> MemType] BY ErrorMem DEF TypeOK
  <1>3. tcpdump' \in BOOLEAN BY DEF TypeOK
  <1>4. TypeOK' BY <1>1, <1>2, <1>3 DEF TypeOK
  <1>5. Recorded' BY ErrorPc, ErrorMem DEF Recorded, WriteAhead, TypeOK
  <1> QED BY <1>4, <1>5

LEMMA TypedRecordCaptureStop ==
  ASSUME TypedInv, NEW p \in Proc, RecordCaptureStop(p) PROVE TypedInv'
  <1> USE DEF TypedInv, RecordCaptureStop, mac
  <1>1. pc' \in [Proc -> Labels]
    BY ErrorPc DEF TypeOK, Labels, TryLabels, LockedLabels, CleanupLabels,
      CaptureLabels, ClosingLabels
  <1>2. mem' \in [Proc -> MemType] BY ErrorMem DEF TypeOK
  <1>3. capState' \in {"none", "started", "stopped"} BY DEF TypeOK
  <1>4. dirty' \in BOOLEAN BY DEF TypeOK
  <1>5. TypeOK' BY <1>1, <1>2, <1>3, <1>4 DEF TypeOK
  <1>6. Recorded' BY ErrorPc, ErrorMem DEF Recorded, WriteAhead, TypeOK
  <1> QED BY <1>5, <1>6

LEMMA TypedRemoveCapturePid ==
  ASSUME TypedInv, NEW p \in Proc, RemoveCapturePid(p) PROVE TypedInv'
  <1> USE DEF TypedInv, RemoveCapturePid, marks, mac
  <1>1. pc' \in [Proc -> Labels]
    BY ErrorPc DEF TypeOK, Labels, LockedLabels, CleanupLabels, CaptureLabels,
      DnsLabels
  <1>2. mem' \in [Proc -> MemType] BY ErrorMem DEF TypeOK
  <1>3. files' \subseteq Artifacts BY DEF TypeOK, Artifacts
  <1>4. TypeOK' BY <1>1, <1>2, <1>3 DEF TypeOK
  <1>5. Recorded' BY ErrorPc, ErrorMem DEF Recorded, WriteAhead, TypeOK
  <1> QED BY <1>4, <1>5

LEMMA TypedHostsDecide ==
  ASSUME TypedInv, NEW p \in Proc, HostsDecide(p) PROVE TypedInv'
  <1> USE DEF TypedInv, HostsDecide, evidence, marks, mac
  <1>1. pc' \in [Proc -> Labels]
    BY ErrorPc DEF TypeOK, Labels, LockedLabels, CleanupLabels, DnsLabels, PfLabels
  <1>2. mem' \in [Proc -> MemType] BY ErrorMem, DnsMem DEF TypeOK, DnsStates
  <1>3. TypeOK' BY <1>1, <1>2 DEF TypeOK
  <1>4. Recorded'
    BY ErrorPc, ErrorMem, DnsMem, MemRead DEF Recorded, WriteAhead, TypeOK, DnsStates
  <1> QED BY <1>3, <1>4

LEMMA TypedHostsRestore ==
  ASSUME TypedInv, NEW p \in Proc, HostsRestore(p) PROVE TypedInv'
  <1> USE DEF TypedInv, HostsRestore, evidence, marks
  <1>1. pc' \in [Proc -> Labels]
    BY DEF TypeOK, Labels, LockedLabels, CleanupLabels, DnsLabels
  <1>2. hosts' \in [pin : BOOLEAN, version : Nat] BY HostsType DEF TypeOK
  <1>3. TypeOK' BY <1>1, <1>2 DEF TypeOK
  <1>4. Recorded' BY HostsType DEF Recorded, WriteAhead, TypeOK
  <1> QED BY <1>3, <1>4

LEMMA TypedHostsConfirm == ASSUME TypedInv, NEW p \in Proc, HostsConfirm(p) PROVE TypedInv'
  <1> USE DEF TypedInv, HostsConfirm, mac
  <1>1. CASE hosts = Plain(baseline) /\ MayWrite
    <2>1. pc' \in [Proc -> Labels]
      BY <1>1 DEF TypeOK, Labels, LockedLabels, CleanupLabels, PfLabels
    <2>2. dirty' \in BOOLEAN BY <1>1 DEF Written, TypeOK
    <2>3. "saved" \in mem[p].dns BY DEF Recorded
    <2>4. dnsState' \in DnsStates /\ "saved" \in dnsState'
      BY <1>1, <2>3, MemRead DEF DnsStates, DnsMarks
    <2>5. TypeOK' BY <1>1, <2>1, <2>2, <2>4 DEF TypeOK
    <2>6. Recorded' BY <1>1, <2>4 DEF Recorded, WriteAhead, TypeOK
    <2> QED BY <2>5, <2>6
  <1>2. CASE ~(hosts = Plain(baseline) /\ MayWrite)
    <2>1. TypeOK' BY <1>2, ErrorPc, ErrorMem DEF TypeOK
    <2>2. Recorded' BY <1>2, ErrorPc, ErrorMem DEF Recorded, WriteAhead, TypeOK
    <2> QED BY <2>1, <2>2
  <1> QED BY <1>1, <1>2

LEMMA TypedPfDecide == ASSUME TypedInv, NEW p \in Proc, PfDecide(p) PROVE TypedInv'
  <1> USE DEF TypedInv, PfDecide, evidence, marks, mac
  <1>1. pc' \in [Proc -> Labels]
    BY ErrorPc DEF TypeOK, Labels, LockedLabels, CleanupLabels, PfLabels
  <1>2. mem' \in [Proc -> MemType] BY ErrorMem, PfMem DEF TypeOK
  <1>3. TypeOK' BY <1>1, <1>2 DEF TypeOK
  <1>4. Recorded'
    BY ErrorPc, ErrorMem, PfMem, MemRead DEF Recorded, WriteAhead, TypeOK
  <1> QED BY <1>3, <1>4

LEMMA TypedPfRestore == ASSUME TypedInv, NEW p \in Proc, PfRestore(p) PROVE TypedInv'
  <1> USE DEF TypedInv, PfRestore
  <1>1. /\ pc' \in [Proc -> Labels]
        /\ \A q \in Proc : q # p => pc'[q] = pc[q]
        /\ pc'[p] \in {"dns", "pf", "cleaned", "pfCleared", "release", "released", "pfDone"}
    BY ErrorPc DEF TypeOK, Labels, LockedLabels, CleanupLabels, PfLabels
  <1>2. mem' \in [Proc -> MemType]
    BY ErrorMem, PfMem, MemRead DEF TypeOK, PfMarks
  <1>3. dirty' \in BOOLEAN /\ pfRule' \in BOOLEAN /\ pfRef' \in BOOLEAN
    BY DEF TypeOK, Written
  <1>4. pfState' \subseteq PfMarks
    BY MemRead DEF TypeOK, PfMarks
  <1>5. TypeOK' BY <1>1, <1>2, <1>3, <1>4 DEF TypeOK
  <1>6. \A q \in Proc :
          mem'[q].dns = mem[q].dns /\ (mem[q].pf # {} => mem'[q].pf # {})
    <2>1. mem[p].pf \cup {"cleared"} \in SUBSET PfMarks
          /\ mem[p].pf \cup {"released"} \in SUBSET PfMarks
      BY MemRead DEF PfMarks
    <2>2. CASE Remember(p, "pf", mem[p].pf \cup {"cleared"}) BY <2>1, <2>2, PfMem
    <2>3. CASE Remember(p, "pf", mem[p].pf \cup {"released"}) BY <2>1, <2>3, PfMem
    <2>4. CASE CleanupError(p) BY <2>4, ErrorMem
    <2>5. CASE UNCHANGED mem BY <2>5
    <2> QED BY <2>2, <2>3, <2>4, <2>5
  <1>7. pfState' # {} \/ pfState' = pfState OBVIOUS
  <1>8. Recorded' BY <1>1, <1>6, <1>7 DEF Recorded, WriteAhead, TypeOK
  <1> QED BY <1>5, <1>8

LEMMA TypedCleanupFails ==
  ASSUME TypedInv, NEW p \in Proc, CleanupFails(p) PROVE TypedInv'
  <1> USE DEF TypedInv, CleanupFails, evidence, marks, mac
  <1>1. pc' \in [Proc -> Labels]
    BY ErrorPc DEF TypeOK, Labels, LockedLabels, CleanupLabels, CaptureLabels,
      DnsLabels, PfLabels
  <1>2. mem' \in [Proc -> MemType] BY ErrorMem DEF TypeOK
  <1>3. faults' \in Nat BY DEF TypeOK
  <1>4. TypeOK' BY <1>1, <1>2, <1>3 DEF TypeOK
  <1>5. Recorded' BY ErrorPc, ErrorMem DEF Recorded, WriteAhead, TypeOK
  <1> QED BY <1>4, <1>5

LEMMA TypedCleaned == ASSUME TypedInv, NEW p \in Proc, Cleaned(p) PROVE TypedInv'
  <1> USE DEF TypedInv, Cleaned, evidence, marks, mac
  <1>1. pc' \in [Proc -> Labels]
    BY LeavePc DEF TypeOK, Labels, LockedLabels, CleanupLabels, ClosingLabels
  <1>2. mem' \in [Proc -> MemType] BY LeaveMem DEF TypeOK
  <1>3. lock' \in Proc \cup {"free"} BY DEF TypeOK, Leave
  <1>4. TypeOK' BY <1>1, <1>2, <1>3 DEF TypeOK
  <1>5. Recorded' BY LeavePc, LeaveMem DEF Recorded, WriteAhead, TypeOK
  <1> QED BY <1>4, <1>5

LEMMA TypedCommand == ASSUME TypedInv, NEW c \in Commands, Command(c) PROVE TypedInv'
  <1> USE DEF TypedInv, Command, evidence, marks, mac
  <1>1. pc' \in [Proc -> Labels] BY DEF TypeOK, Labels
  <1>2. cmd' \in Commands BY DEF TypeOK
  <1>3. TypeOK' BY <1>1, <1>2 DEF TypeOK
  <1>4. Recorded' BY DEF Recorded, WriteAhead, TypeOK
  <1> QED BY <1>3, <1>4

LEMMA TypedCommandLocked == ASSUME TypedInv, CommandLocked PROVE TypedInv'
  <1> USE DEF TypedInv, CommandLocked, evidence, marks, mac
  <1>1. pc' \in [Proc -> Labels]
    BY DEF TypeOK, Labels, LockedLabels, CleanupLabels, ClosingLabels
  <1>2. lock' \in Proc \cup {"free"} BY DEF TypeOK, Acquire
  <1>3. TypeOK' BY <1>1, <1>2 DEF TypeOK
  <1>4. Recorded' BY DEF Recorded, WriteAhead, TypeOK
  <1> QED BY <1>3, <1>4

LEMMA TypedCommandBegin == ASSUME TypedInv, CommandBegin PROVE TypedInv'
  <1> USE DEF TypedInv, CommandBegin, evidence, marks, mac
  <1>1. pc' \in [Proc -> Labels]
    BY LeavePc DEF TypeOK, Labels, LockedLabels, CleanupLabels, ClosingLabels
  <1>2. mem' \in [Proc -> MemType] BY LeaveMem DEF TypeOK
  <1>3. lock' \in Proc \cup {"free"} BY DEF TypeOK, Leave
  <1>4. TypeOK' BY <1>1, <1>2, <1>3 DEF TypeOK
  <1>5. Recorded' BY LeavePc, LeaveMem DEF Recorded, WriteAhead, TypeOK
  <1> QED BY <1>4, <1>5

LEMMA TypedPreCaptureAbort == ASSUME TypedInv, PreCaptureAbort PROVE TypedInv'
  <1> USE DEF TypedInv, PreCaptureAbort, marks, mac
  <1>1. pc' \in [Proc -> Labels]
    BY LeavePc DEF TypeOK, LogThen, Labels, LockedLabels, ClosingLabels
  <1>2. mem' \in [Proc -> MemType] BY LeaveMem DEF TypeOK, LogThen
  <1>3. lock' \in Proc \cup {"free"} BY DEF TypeOK, LogThen, Leave
  <1>4. events' \in Seq(Events) BY LogEvents DEF TypeOK, LogThen, Events, Outcomes
  <1>5. TypeOK' BY <1>1, <1>2, <1>3, <1>4 DEF TypeOK
  <1>6. Recorded' BY LeavePc, LeaveMem DEF Recorded, WriteAhead, TypeOK, LogThen
  <1> QED BY <1>5, <1>6

LEMMA TypedRecover == ASSUME TypedInv, Recover PROVE TypedInv'
  <1> USE DEF TypedInv, Recover, marks, mac
  <1>1. pc' \in [Proc -> Labels]
    BY LeavePc DEF TypeOK, LogThen, Labels, LockedLabels, ClosingLabels
  <1>2. mem' \in [Proc -> MemType] BY LeaveMem DEF TypeOK, LogThen
  <1>3. lock' \in Proc \cup {"free"} BY DEF TypeOK, LogThen, Leave
  <1>4. events' \in Seq(Events) BY LogEvents DEF TypeOK, LogThen, Events, Outcomes
  <1>5. TypeOK' BY <1>1, <1>2, <1>3, <1>4 DEF TypeOK
  <1>6. Recorded' BY LeavePc, LeaveMem DEF Recorded, WriteAhead, TypeOK, LogThen
  <1> QED BY <1>5, <1>6

LEMMA TypedRecordedStop ==
  ASSUME TypedInv, NEW p \in Proc, RecordedStop(p) PROVE TypedInv'
  <1> USE DEF TypedInv, RecordedStop, evidence, marks, mac
  <1>1. pc' \in [Proc -> Labels]
    BY LeavePc DEF TypeOK, Labels, LockedLabels, ClosingLabels
  <1>2. mem' \in [Proc -> MemType] BY LeaveMem DEF TypeOK
  <1>3. lock' \in Proc \cup {"free"} BY DEF TypeOK, Leave
  <1>4. TypeOK' BY <1>1, <1>2, <1>3 DEF TypeOK
  <1>5. Recorded' BY LeavePc, LeaveMem DEF Recorded, WriteAhead, TypeOK
  <1> QED BY <1>4, <1>5

LEMMA TypedStopWatchdog ==
  ASSUME TypedInv, NEW p \in Proc, StopWatchdog(p) PROVE TypedInv'
  <1> USE DEF TypedInv, StopWatchdog, marks, mac
  <1>1. pc' \in [Proc -> Labels]
    BY DEF TypeOK, Labels, TryLabels, LockedLabels, ClosingLabels
  <1>2. mem' \in [Proc -> MemType] BY BlankType DEF TypeOK
  <1>3. lock' \in Proc \cup {"free"} BY DEF TypeOK
  <1>4. files' \subseteq Artifacts BY DEF TypeOK, Artifacts
  <1>5. dirty' \in BOOLEAN BY DEF TypeOK
  <1>6. TypeOK' BY <1>1, <1>2, <1>3, <1>4, <1>5 DEF TypeOK
  <1>7. Recorded' BY DEF Recorded, WriteAhead, TypeOK
  <1> QED BY <1>6, <1>7

LEMMA TypedLogStopped ==
  ASSUME TypedInv, NEW p \in Proc, LogStopped(p) PROVE TypedInv'
  <1> USE DEF TypedInv, LogStopped, marks, mac
  <1>1. pc' \in [Proc -> Labels]
    BY LeavePc DEF TypeOK, LogThen, Labels, LockedLabels, ClosingLabels
  <1>2. mem' \in [Proc -> MemType] BY LeaveMem DEF TypeOK, LogThen
  <1>3. lock' \in Proc \cup {"free"} BY DEF TypeOK, LogThen, Leave
  <1>4. events' \in Seq(Events) BY LogEvents DEF TypeOK, LogThen, Events, Outcomes
  <1>5. TypeOK' BY <1>1, <1>2, <1>3, <1>4 DEF TypeOK
  <1>6. Recorded' BY LeavePc, LeaveMem DEF Recorded, WriteAhead, TypeOK, LogThen
  <1> QED BY <1>5, <1>6

LEMMA TypedLogFinished ==
  ASSUME TypedInv, NEW p \in Proc, LogFinished(p) PROVE TypedInv'
  <1> USE DEF TypedInv, LogFinished, marks, mac
  <1>1. pc' \in [Proc -> Labels]
    BY LeavePc DEF TypeOK, LogThen, Labels, LockedLabels, ClosingLabels
  <1>2. mem' \in [Proc -> MemType] BY LeaveMem DEF TypeOK, LogThen
  <1>3. lock' \in Proc \cup {"free"} BY DEF TypeOK, LogThen, Leave
  <1>4. events' \in Seq(Events)
    BY LogEvents DEF TypeOK, LogThen, OutcomesOf, Events, Outcomes
  <1>5. TypeOK' BY <1>1, <1>2, <1>3, <1>4 DEF TypeOK
  <1>6. Recorded' BY LeavePc, LeaveMem DEF Recorded, WriteAhead, TypeOK, LogThen
  <1> QED BY <1>5, <1>6

LEMMA TypedPrepareErrorDetected ==
  ASSUME TypedInv, PrepareErrorDetected PROVE TypedInv'
  <1> USE DEF TypedInv, PrepareErrorDetected, marks, mac
  <1>1. pc' \in [Proc -> Labels]
    BY LeavePc DEF TypeOK, Labels, LockedLabels, ClosingLabels
  <1>2. mem' \in [Proc -> MemType] BY LeaveMem DEF TypeOK
  <1>3. lock' \in Proc \cup {"free"} BY DEF TypeOK, Leave
  <1>4. events' \in Seq(Events) BY LogEvents DEF TypeOK, Events, Outcomes
  <1>5. TypeOK' BY <1>1, <1>2, <1>3, <1>4 DEF TypeOK
  <1>6. Recorded' BY LeavePc, LeaveMem DEF Recorded, WriteAhead, TypeOK
  <1> QED BY <1>5, <1>6

LEMMA TypedFreezeArtifacts ==
  ASSUME TypedInv, NEW p \in Proc, FreezeArtifacts(p) PROVE TypedInv'
  <1> USE DEF TypedInv, FreezeArtifacts, marks, mac
  <1>1. pc' \in [Proc -> Labels]
    BY LeavePc DEF TypeOK, Labels, LockedLabels, ClosingLabels
  <1>2. mem' \in [Proc -> MemType] BY LeaveMem DEF TypeOK
  <1>3. lock' \in Proc \cup {"free"} BY DEF TypeOK, Leave
  <1>4. perm' \in {"open", "frozen", "closed"} BY DEF TypeOK
  <1>5. dirty' \in BOOLEAN BY DEF TypeOK
  <1>6. TypeOK' BY <1>1, <1>2, <1>3, <1>4, <1>5 DEF TypeOK
  <1>7. Recorded' BY LeavePc, LeaveMem DEF Recorded, WriteAhead, TypeOK
  <1> QED BY <1>6, <1>7

LEMMA TypedWriteManifest ==
  ASSUME TypedInv, NEW p \in Proc, WriteManifest(p) PROVE TypedInv'
  <1> USE DEF TypedInv, WriteManifest, marks, mac
  <1>1. pc' \in [Proc -> Labels] BY DEF TypeOK, Labels, LockedLabels, ClosingLabels
  <1>2. files' \subseteq Artifacts BY DEF TypeOK, Artifacts
  <1>3. TypeOK' BY <1>1, <1>2 DEF TypeOK
  <1>4. Recorded' BY DEF Recorded, WriteAhead, TypeOK
  <1> QED BY <1>3, <1>4

LEMMA TypedCloseDirectory ==
  ASSUME TypedInv, NEW p \in Proc, CloseDirectory(p) PROVE TypedInv'
  <1> USE DEF TypedInv, CloseDirectory, marks, mac
  <1>1. pc' \in [Proc -> Labels]
    BY LeavePc DEF TypeOK, Labels, LockedLabels, ClosingLabels
  <1>2. mem' \in [Proc -> MemType] BY LeaveMem DEF TypeOK
  <1>3. lock' \in Proc \cup {"free"} BY DEF TypeOK, Leave
  <1>4. perm' \in {"open", "frozen", "closed"} BY DEF TypeOK
  <1>5. TypeOK' BY <1>1, <1>2, <1>3, <1>4 DEF TypeOK
  <1>6. Recorded' BY LeavePc, LeaveMem DEF Recorded, WriteAhead, TypeOK
  <1> QED BY <1>5, <1>6

LEMMA TypedWatchdogWakes == ASSUME TypedInv, WatchdogWakes PROVE TypedInv'
  <1> USE DEF TypedInv, WatchdogWakes, evidence, marks, mac
  <1>1. pc' \in [Proc -> Labels] BY DEF TypeOK, Labels
  <1>2. faults' \in Nat BY DEF TypeOK
  <1>3. TypeOK' BY <1>1, <1>2 DEF TypeOK
  <1>4. Recorded' BY DEF Recorded, WriteAhead, TypeOK
  <1> QED BY <1>3, <1>4

LEMMA TypedWatchdogLocked == ASSUME TypedInv, WatchdogLocked PROVE TypedInv'
  <1> USE DEF TypedInv, WatchdogLocked, evidence, marks, mac
  <1>1. pc' \in [Proc -> Labels] BY DEF TypeOK, Labels, LockedLabels, CleanupLabels
  <1>2. lock' \in Proc \cup {"free"} BY DEF TypeOK
  <1>3. TypeOK' BY <1>1, <1>2 DEF TypeOK
  <1>4. Recorded' BY DEF Recorded, WriteAhead, TypeOK
  <1> QED BY <1>3, <1>4

LEMMA TypedCaptureGrows == ASSUME TypedInv, CaptureGrows PROVE TypedInv'
  <1> USE DEF TypedInv, CaptureGrows, procs, marks, mac
  <1>1. dirty' \in BOOLEAN BY DEF TypeOK
  <1>2. TypeOK' BY <1>1 DEF TypeOK
  <1>3. Recorded' BY DEF Recorded, WriteAhead, TypeOK
  <1> QED BY <1>2, <1>3

LEMMA TypedEditHosts == ASSUME TypedInv, EditHosts PROVE TypedInv'
  <1> USE DEF TypedInv, EditHosts, procs, evidence, marks
  <1>1. hosts' \in [pin : BOOLEAN, version : Nat] BY HostsType DEF TypeOK
  <1>2. TypeOK' BY <1>1 DEF TypeOK
  <1>3. Recorded' BY DEF Recorded, WriteAhead, TypeOK
  <1> QED BY <1>2, <1>3

LEMMA TypedKill == ASSUME TypedInv, NEW p \in Proc, Kill(p) PROVE TypedInv'
  <1> USE DEF TypedInv, Kill, evidence, marks, mac
  <1>1. pc' \in [Proc -> Labels] BY LeavePc DEF TypeOK, Labels
  <1>2. mem' \in [Proc -> MemType] BY LeaveMem DEF TypeOK
  <1>3. lock' \in Proc \cup {"free"} BY DEF TypeOK, Leave
  <1>4. faults' \in Nat BY DEF TypeOK
  <1>5. TypeOK' BY <1>1, <1>2, <1>3, <1>4 DEF TypeOK
  <1>6. Recorded' BY LeavePc, LeaveMem DEF Recorded, WriteAhead, TypeOK
  <1> QED BY <1>5, <1>6

LEMMA TypedReboot == ASSUME TypedInv, Reboot PROVE TypedInv'
  <1> USE DEF TypedInv, Reboot, evidence, marks
  <1>1. pc' \in [Proc -> Labels] BY DEF TypeOK, Labels
  <1>2. mem' \in [Proc -> MemType] BY BlankType DEF TypeOK
  <1>3. lock' \in Proc \cup {"free"} BY DEF TypeOK
  <1>4. faults' \in Nat BY DEF TypeOK
  <1>5. tcpdump' \in BOOLEAN /\ pfRule' \in BOOLEAN /\ pfRef' \in BOOLEAN
    BY DEF TypeOK
  <1>6. TypeOK' BY <1>1, <1>2, <1>3, <1>4, <1>5 DEF TypeOK
  <1>7. Recorded' BY DEF Recorded, WriteAhead, TypeOK
  <1> QED BY <1>6, <1>7

---------------------------------------------------------------------------
\* Every step preserves the strengthened invariant: one case per action.
LEMMA TypedProcess ==
  ASSUME TypedInv, NEW p \in Proc, ProcessStep(p)
  PROVE  TypedInv'
<1>1. CASE PrepareStep
  BY <1>1, TypedPrepareRecord, TypedPrepareCapture, TypedPfEnable, TypedPfTokenUnparsed,
     TypedPfApply, TypedHostsRead, TypedHostsSave, TypedHostsInstall, TypedHostsMark,
     TypedPrepareLaunch, TypedStartWatchdog, TypedOpenSafari, TypedPrepareFails,
     TypedPrepareHandler, TypedPrepareErrorDetected DEF PrepareStep
<1>2. CASE OperatorStep
  BY <1>2, TypedCommandLocked, TypedCommandBegin, TypedPreCaptureAbort, TypedRecover
     DEF OperatorStep
<1>3. CASE WatchdogStep
  BY <1>3, TypedWatchdogWakes, TypedWatchdogLocked DEF WatchdogStep
<1>4. CASE CleanupStep(p)
  BY <1>4, TypedSnapshotPf, TypedStopCapture, TypedRecordCaptureStop,
     TypedRemoveCapturePid, TypedHostsDecide, TypedHostsRestore, TypedHostsConfirm,
     TypedPfDecide, TypedPfRestore, TypedCleanupFails, TypedCleaned DEF CleanupStep
<1>5. CASE ClosingStep(p)
  BY <1>5, TypedRecordedStop, TypedStopWatchdog, TypedLogStopped, TypedLogFinished,
     TypedFreezeArtifacts, TypedWriteManifest, TypedCloseDirectory DEF ClosingStep
<1> QED BY <1>1, <1>2, <1>3, <1>4, <1>5 DEF ProcessStep

LEMMA TypedNext == TypedInv /\ [Next]_vars => TypedInv'
<1> SUFFICES ASSUME TypedInv, [Next]_vars PROVE TypedInv' OBVIOUS
<1>1. CASE Environment
  BY <1>1, TypedPrepare, TypedCommand, TypedInterrupt, TypedCaptureGrows,
     TypedEditHosts, TypedReboot, TypedKill DEF Environment
<1>2. CASE \E p \in Proc : ProcessStep(p)
  BY <1>2, TypedProcess
<1>3. CASE UNCHANGED vars
  <2> USE <1>3 DEF vars, procs, evidence, marks, mac, TypedInv
  <2>1. TypeOK' BY DEF TypeOK
  <2>2. Recorded' BY DEF Recorded, WriteAhead
  <2> QED BY <2>1, <2>2
<1> QED BY <1>1, <1>2, <1>3 DEF Next

\* Both facts hold in every state any behaviour reaches.
LEMMA Typed == Spec => []TypedInv
  BY TypedInit, TypedNext, PTL DEF Spec

\* Every variable keeps its type, in particular the marks of the two recovery
\* files: dns-pin-state.json never carries installed_utc or restored_utc
\* without the baseline that the restore would put back.
THEOREM TypeCorrect == Spec => []TypeOK
<1>1. TypedInv => TypeOK BY DEF TypedInv
<1> QED BY <1>1, Typed, PTL

\* Whatever fails, whoever is killed and whenever the machine restarts: what
\* the attempt has changed on the Mac is on record in the attempt directory,
\* so a later cleanup command finds it (apply_dns_pin, apply_firewall).
THEOREM WriteAheadHolds == Spec => []WriteAhead
<1>1. TypedInv => WriteAhead BY DEF TypedInv, Recorded
<1> QED BY <1>1, Typed, PTL

=============================================================================

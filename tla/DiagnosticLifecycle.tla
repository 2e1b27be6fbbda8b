-------------------------- MODULE DiagnosticLifecycle --------------------------
(***************************************************************************)
(* One attempt, or one cleanup rehearsal, of protocol-diagnostic, and the  *)
(* Mac it alters (protocol_diag.py, platform_ops.py).  It has the three    *)
(* processes of the experiment's attempt, but each record on disk says     *)
(* more: an effect is announced before it is tried and marked when it has  *)
(* returned, and cleanup infers from both what an interrupted process did. *)
(*                                                                         *)
(* A step is one effect outside the process.  prepare-run ends before a    *)
(* command is typed or the watchdog's grace period is over; commands and   *)
(* the watchdog run concurrently with each other.                          *)
(***************************************************************************)
EXTENDS Integers, Sequences, FiniteSets

CONSTANTS
  Plans,       \* what prepare-run, or rehearse-cleanup, may be asked for
  Faults,      \* the kinds of fault the environment may inject
  MaxFaults,   \* bound: how many faults a behaviour contains
  PidReuse     \* may macOS give a recorded PID to another process?

PlanKinds == {"permitted", "blocked", "rehearsal"}
FaultKinds == {"fail", "kill", "interrupt", "reboot", "edit"}

ASSUME ConstantsAssumption ==
  /\ Plans \subseteq PlanKinds
  /\ Faults \subseteq FaultKinds
  /\ MaxFaults \in Nat
  /\ PidReuse \in BOOLEAN

VARIABLES
  plan,       \* what was asked for
  pc,         \* the effect each process performs next
  lock,       \* holder of runtime/locks/<attempt>.lock
  cmd,        \* the command the operator typed
  err,        \* processes whose cleanup has met an error
  files,      \* the artifacts present in the attempt directory
  opened,     \* Safari was asked to open the attempt's URL
  frozen,     \* finalize_attempt has set the artifacts to 0440
  outcomes,   \* the run_finished events of events.jsonl
  capState,   \* the marks recorded in capture-state.json
  dnsState,   \* the marks recorded in dns-pin-state.json
  pfState,    \* the marks recorded in firewall-state.json
  pfOutput,   \* pf-enable-output.txt: "absent", "noToken" or "token"
  hosts,      \* /etc/hosts: the baseline, the override, or anything else
  capture,    \* the processes of the capture: see Trees
  lost,       \* the capture ended although nobody had asked it to stop
  pfRule,     \* the UDP block is loaded in the dedicated PF anchor
  pfRef,      \* PF holds the enable reference that pfctl -E acquired
  reused,     \* recorded PIDs that belong to another process now
  faults      \* how many faults have happened

procs == <<pc, lock, cmd, err>>
evidence == <<files, opened, frozen, outcomes>>
marks == <<capState, dnsState, pfState, pfOutput>>
mac == <<hosts, capture, lost, pfRule, pfRef>>
vars == <<plan, procs, evidence, marks, mac, reused, faults>>

Proc == {"prepare", "operator", "watchdog"}
Artifacts == {"metadata.json", "capture.pid", "watchdog.pid", "response.json",
              "manifest.sha256", "manifest.sha256.sha256"}

\* sudo forks before it executes tcpdump, so for a moment only its own process
\* carries the capture's command line; afterwards the wrappers and tcpdump do.
\* "ending" is a tree that was signalled and has not ended yet.
Trees == {"none", "sudo", "tree", "ending"}

CapMarks == {"prepared", "started", "premature", "signalled", "stopped"}
DnsMarks == {"started", "installed", "restored"}
PfMarks == {"saved", "required", "enabling", "loading", "loaded", "clearing",
            "releasing", "restored"}

Results == {"success", "timeout", "direct_bypass", "aborted", "mechanical_failure",
            "prepare_error", "operator_completion_timeout"}
\* changed: a condition changed, or a safety-stop code was given.
Outcome == [result : Results, changed : BOOLEAN]

NoCommand == [verb |-> "none", result |-> "aborted", response |-> FALSE, changed |-> FALSE]
Finish(result, response, changed) ==
  [verb |-> "finish", result |-> result, response |-> response, changed |-> changed]
Commands ==
  {Finish("success", TRUE, changed) : changed \in BOOLEAN}
    \cup {Finish("timeout", FALSE, FALSE)}
    \cup {[NoCommand EXCEPT !.verb = v] : v \in {"abort", "abortBothCodes", "cleanup"}}
    \cup {[NoCommand EXCEPT !.verb = "abort", !.result = "mechanical_failure"],
          [NoCommand EXCEPT !.verb = "abort", !.changed = TRUE]}

\* The body of prepare-run's try block, where an error enters the handler.
TryLabels == {"clock", "capPrep", "spawn", "settle", "capPid", "capState", "pfSave",
              "pfEnabling", "pfEnable", "pfLoading", "pfLoad", "pfMark", "pfReset",
              "hostsSave", "hostsInstall", "hostsMark", "activate", "launch", "watch",
              "watchPid", "open"}
CaptureLabels == {"capture", "signal", "capMark", "capUnlink"}
DnsLabels == {"dns", "hostsBack", "flush", "hostsCheck"}
PfLabels == {"pf", "pfFlush", "release", "unref", "pfDone"}
CleanupLabels == CaptureLabels \cup {"pfSnap"} \cup DnsLabels \cup PfLabels \cup {"cleaned"}
ClosingLabels == {"begin", "stopWd", "validate", "recover", "unlinkWd", "finished",
                  "verify", "freeze", "manifest", "sidecar"}
Labels == {"idle", "meta", "handler", "waiting", "wantLock", "done"}
            \cup TryLabels \cup CleanupLabels \cup ClosingLabels

Init ==
  /\ plan \in Plans
  /\ pc = [p \in Proc |-> "idle"]
  /\ lock = "free" /\ cmd = NoCommand /\ err = {}
  /\ files = {} /\ opened = FALSE /\ frozen = FALSE /\ outcomes = <<>>
  /\ capState = {} /\ dnsState = {} /\ pfState = {} /\ pfOutput = "absent"
  /\ hosts = "baseline"
  /\ capture = "none" /\ lost = FALSE
  /\ pfRule = FALSE /\ pfRef = FALSE
  /\ reused = {} /\ faults = 0

---------------------------------------------------------------------------
\* Vocabulary of the steps.

At(p, label) == pc[p] = label
Go(p, label) == pc' = [pc EXCEPT ![p] = label]
Sealed == "manifest.sha256" \in files

\* A process leaves for good, the operator only until the next command; the
\* kernel drops its flock, whether it returned, raised or was killed.
Leave(p) ==
  /\ Go(p, IF p = "operator" THEN "idle" ELSE "done")
  /\ cmd' = IF p = "operator" THEN NoCommand ELSE cmd
  /\ err' = err \ {p}
  /\ lock' = IF lock = p THEN "free" ELSE lock

Fault(kind) == kind \in Faults /\ faults < MaxFaults /\ faults' = faults + 1

---------------------------------------------------------------------------
\* prepare-run and rehearse-cleanup, each under the global controller lock.

\* The checks that refuse to start, mkdir; then metadata.json and run_started.
Prepare ==
  /\ \/ At("prepare", "idle") /\ hosts = "baseline" /\ ~pfRule
        /\ Go("prepare", "meta") /\ UNCHANGED files
     \/ /\ At("prepare", "meta")
        /\ files' = files \cup {"metadata.json"}
        /\ Go("prepare", IF plan = "rehearsal" THEN "pfSave" ELSE "clock")
  /\ UNCHANGED <<plan, lock, cmd, err, opened, frozen, outcomes, marks, mac, reused, faults>>

\* Mutant: capture-state.json is written once tcpdump is known to run.
StartCaptureUnprepared ==
  /\ \/ At("prepare", "clock") /\ Go("prepare", "capPrep") /\ UNCHANGED <<capState, capture>>
     \/ At("prepare", "capPrep") /\ Go("prepare", "spawn") /\ UNCHANGED <<capState, capture>>
     \/ At("prepare", "spawn") /\ capture' = "sudo" /\ Go("prepare", "settle")
        /\ UNCHANGED capState
     \/ /\ At("prepare", "settle")
        /\ Go("prepare", IF capture = "tree" THEN "capPid" ELSE "handler")
        /\ capState' = {"prepared"} /\ UNCHANGED capture
     \/ At("prepare", "capPid") /\ Go("prepare", "capState") /\ UNCHANGED <<capState, capture>>
     \/ At("prepare", "capState") /\ capState' = {"prepared", "started"}
        /\ Go("prepare", "pfSave") /\ UNCHANGED capture
  /\ files' = IF At("prepare", "capPid") THEN files \cup {"capture.pid"} ELSE files
  /\ UNCHANGED <<plan, lock, cmd, err, opened, frozen, outcomes, dnsState, pfState, pfOutput,
                 hosts, lost, pfRule, pfRef, reused, faults>>

\* The clock check, then start_capture: what will be run is on record, it is
\* spawned, and a second later exactly one tcpdump must be found, whose PID is
\* written first to capture.pid and then to capture-state.json.
StartCapture ==
  /\ \/ At("prepare", "clock") /\ Go("prepare", "capPrep")
        /\ UNCHANGED <<files, capState, capture>>
     \/ At("prepare", "capPrep") /\ capState' = {"prepared"}
        /\ Go("prepare", "spawn") /\ UNCHANGED <<files, capture>>
     \/ At("prepare", "spawn") /\ capture' = "sudo"
        /\ Go("prepare", "settle") /\ UNCHANGED <<files, capState>>
     \/ At("prepare", "settle")
        /\ Go("prepare", IF capture = "tree" THEN "capPid" ELSE "handler")
        /\ UNCHANGED <<files, capState, capture>>
     \/ At("prepare", "capPid") /\ files' = files \cup {"capture.pid"}
        /\ Go("prepare", "capState") /\ UNCHANGED <<capState, capture>>
     \/ At("prepare", "capState") /\ capState' = {"prepared", "started"}
        /\ Go("prepare", "pfSave") /\ UNCHANGED <<files, capture>>
  /\ UNCHANGED <<plan, lock, cmd, err, opened, frozen, outcomes, dnsState, pfState, pfOutput,
                 hosts, lost, pfRule, pfRef, reused, faults>>

\* prepare_firewall up to the token.  PF may be enabled already; otherwise, for
\* a rule, pfctl -E writes its own output file, from which the token is read.
PfPrepare ==
  /\ \/ /\ At("prepare", "pfSave")
        /\ \E enabled \in BOOLEAN :
             /\ pfState' = IF enabled THEN {"saved"} ELSE {"saved", "required"}
             /\ Go("prepare", CASE plan = "permitted" -> "hostsSave"
                                [] enabled /\ plan # "permitted" -> "pfLoading"
                                [] OTHER -> "pfEnabling")
        /\ UNCHANGED <<pfOutput, pfRef>>
     \/ /\ At("prepare", "pfEnabling")
        /\ pfState' = pfState \cup {"enabling"}
        /\ Go("prepare", "pfEnable")
        /\ UNCHANGED <<pfOutput, pfRef>>
     \/ /\ At("prepare", "pfEnable")
        /\ pfOutput' = "token" /\ pfRef' = TRUE
        /\ Go("prepare", "pfLoading")
        /\ UNCHANGED pfState
  /\ UNCHANGED <<plan, lock, cmd, err, evidence, capState, dnsState, hosts,
                 capture, lost, pfRule, reused, faults>>

\* The token and the exact rule are on record, the rule is loaded, read back
\* and recorded as loaded, verified, and the states to the ingress are reset.
PfApply ==
  /\ \/ At("prepare", "pfLoading") /\ pfState' = pfState \cup {"loading"}
        /\ Go("prepare", "pfLoad") /\ UNCHANGED pfRule
     \/ At("prepare", "pfLoad") /\ pfRule' = TRUE
        /\ Go("prepare", "pfMark") /\ UNCHANGED pfState
     \/ At("prepare", "pfMark") /\ pfState' = pfState \cup {"loaded"}
        /\ Go("prepare", "pfReset") /\ UNCHANGED pfRule
     \/ At("prepare", "pfReset")
        /\ Go("prepare", "hostsSave") /\ UNCHANGED <<pfState, pfRule>>
  /\ UNCHANGED <<plan, lock, cmd, err, evidence, capState, dnsState, pfOutput, hosts,
                 capture, lost, pfRef, reused, faults>>

\* apply_dns_pin: baseline and override are saved and the install announced,
\* installed, marked as installed; the caches and the proxy are reset, the
\* effective answers checked and saved.
PinHosts ==
  /\ \/ At("prepare", "hostsSave") /\ hosts = "baseline" /\ dnsState' = {"started"}
        /\ Go("prepare", "hostsInstall") /\ UNCHANGED hosts
     \/ At("prepare", "hostsInstall") /\ hosts' = "override"
        /\ Go("prepare", "hostsMark") /\ UNCHANGED dnsState
     \/ At("prepare", "hostsMark") /\ dnsState' = {"started", "installed"}
        /\ Go("prepare", "activate") /\ UNCHANGED hosts
     \/ At("prepare", "activate")
        /\ Go("prepare", IF plan = "rehearsal" THEN "capture" ELSE "launch")
        /\ UNCHANGED <<dnsState, hosts>>
  /\ UNCHANGED <<plan, lock, cmd, err, evidence, capState, pfState, pfOutput,
                 capture, lost, pfRule, pfRef, reused, faults>>

\* The launch is announced, the watchdog is spawned before watchdog.pid names
\* it, Safari is opened last.
Launch ==
  /\ \/ At("prepare", "launch") /\ Go("prepare", "watch") /\ UNCHANGED files
     \/ /\ At("prepare", "watch")
        /\ pc' = [pc EXCEPT !["prepare"] = "watchPid", !["watchdog"] = "waiting"]
        /\ UNCHANGED files
     \/ At("prepare", "watchPid") /\ files' = files \cup {"watchdog.pid"}
        /\ Go("prepare", "open")
     \/ At("prepare", "open") /\ Go("prepare", "done") /\ UNCHANGED files
  /\ opened' = (opened \/ At("prepare", "open"))
  /\ UNCHANGED <<plan, lock, cmd, err, frozen, outcomes, marks, mac, reused, faults>>

\* An error of the try block enters the handler; of a rehearsal, the cleanup
\* of its finally clause, after which the error goes on.
Raise ==
  /\ Go("prepare", IF plan = "rehearsal" THEN "capture" ELSE "handler")
  /\ err' = IF plan = "rehearsal" THEN err \cup {"prepare"} ELSE err

\* A command fails without effect, or /etc/hosts is not what is expected; pfctl -E
\* may have enabled PF without printing a token.
PrepareFails ==
  /\ \/ /\ Fault("fail") /\ UNCHANGED <<pfOutput, pfRef>>
        /\ pc["prepare"] \in {"clock", "capPrep", "pfSave", "pfLoad", "pfReset",
                              "hostsSave", "hostsInstall", "activate", "open"}
     \/ /\ Fault("fail") /\ At("prepare", "pfEnable")
        /\ pfOutput' = "noToken" /\ pfRef' \in BOOLEAN
     \/ At("prepare", "hostsSave") /\ hosts # "baseline" /\ UNCHANGED <<pfOutput, pfRef, faults>>
  /\ Raise
  /\ UNCHANGED <<plan, lock, cmd, evidence, capState, dnsState, pfState, hosts,
                 capture, lost, pfRule, reused>>

\* Ctrl-C raises KeyboardInterrupt, in prepare-run alone or, typed in its
\* terminal, also ends the capture and the watchdog of the same process group.
Interrupt ==
  /\ pc["prepare"] \in TryLabels
  /\ Fault("interrupt")
  /\ err' = IF plan = "rehearsal" THEN err \cup {"prepare"} ELSE err
  /\ LET next == IF plan = "rehearsal" THEN "capture" ELSE "handler"
     IN \/ Go("prepare", next) /\ UNCHANGED <<capture, lost>>
        \/ /\ pc' = [pc EXCEPT !["prepare"] = next,
                               !["watchdog"] = IF @ = "waiting" THEN "done" ELSE @]
           /\ capture' = "none" /\ lost' = (lost \/ capture # "none")
  /\ UNCHANGED <<plan, lock, cmd, evidence, marks, hosts, pfRule, pfRef, reused>>

\* The except clause takes no attempt lock.  stop_watchdog signals the watchdog,
\* its own child, and waits for a process that it never reaps: its error is
\* ignored and watchdog.pid stays.
PrepareHandler ==
  /\ At("prepare", "handler")
  /\ pc' = [pc EXCEPT !["prepare"] = "capture",
                      !["watchdog"] = IF "watchdog.pid" \in files THEN "done" ELSE @]
  /\ UNCHANGED <<plan, lock, cmd, err, evidence, marks, mac, reused, faults>>

---------------------------------------------------------------------------
\* cleanup_attempt: capture, PF counters, resolver, firewall, each tried
\* whatever became of the previous one.

NextOperation(label) ==
  IF label \in CaptureLabels THEN "pfSnap"
  ELSE IF label = "pfSnap" THEN "dns"
  ELSE IF label \in DnsLabels THEN "pf" ELSE "cleaned"

GiveUp(p) == err' = err \cup {p} /\ Go(p, NextOperation(pc[p]))
Skip(p) == Go(p, NextOperation(pc[p])) /\ UNCHANGED err

Recorded == "started" \in capState \/ "capture.pid" \in files

\* stop_capture refuses a reused PID, and several processes of which it has no
\* recorded PID.
CaptureRefused ==
  \/ Recorded /\ "capture" \in reused
  \/ capture \in {"tree", "ending"} /\ ~Recorded

\* Mutant: a capture that is gone is a capture that was stopped.
StopCaptureTrusting(p) ==
  /\ At(p, "capture")
  /\ \/ capState = {} /\ Skip(p) /\ UNCHANGED capState
     \/ capState # {} /\ CaptureRefused /\ GiveUp(p) /\ UNCHANGED capState
     \/ /\ capState # {} /\ ~CaptureRefused
        /\ capState' = IF capture = "none" THEN capState ELSE capState \cup {"signalled"}
        /\ Go(p, IF capture = "none" THEN "capMark" ELSE "signal")
        /\ UNCHANGED err
  /\ UNCHANGED <<plan, lock, cmd, evidence, dnsState, pfState, pfOutput, mac, reused, faults>>

\* A confirmed capture that is gone and was never stopped is marked premature;
\* one that runs is marked signalled before it is.
StopCapture(p) ==
  /\ At(p, "capture")
  /\ \/ capState = {} /\ Skip(p) /\ UNCHANGED capState
     \/ capState # {} /\ CaptureRefused /\ GiveUp(p) /\ UNCHANGED capState
     \/ /\ capState # {} /\ ~CaptureRefused
        /\ capState' =
             IF capture # "none" THEN capState \cup {"signalled"}
             ELSE IF "started" \in capState /\ "stopped" \notin capState
             THEN capState \cup {"premature"} ELSE capState
        /\ Go(p, IF capture = "none" THEN "capMark" ELSE "signal")
        /\ UNCHANGED err
  /\ UNCHANGED <<plan, lock, cmd, evidence, dnsState, pfState, pfOutput, mac, reused, faults>>

\* kill -INT and up to ten seconds of waiting.
SignalCapture(p) ==
  /\ At(p, "signal")
  /\ \/ capture' = "none" /\ Go(p, "capMark") /\ UNCHANGED <<err, faults>>
     \/ Fault("fail") /\ capture # "none" /\ capture' \in {capture, "ending"} /\ GiveUp(p)
  /\ UNCHANGED <<plan, lock, cmd, evidence, marks, hosts, lost, pfRule, pfRef, reused>>

\* stopped_utc is recorded, capture.pid removed.
RecordCaptureStop(p) ==
  /\ \/ At(p, "capMark") /\ capState' = capState \cup {"stopped"}
        /\ Go(p, "capUnlink") /\ UNCHANGED files
     \/ At(p, "capUnlink") /\ files' = files \ {"capture.pid"}
        /\ Go(p, "pfSnap") /\ UNCHANGED capState
  /\ UNCHANGED <<plan, lock, cmd, err, opened, frozen, outcomes, dnsState, pfState, pfOutput, mac,
                 reused, faults>>

\* snapshot_firewall_before_cleanup only adds counters to firewall-state.json.
SnapshotPf(p) ==
  /\ At(p, "pfSnap") /\ Skip(p)
  /\ UNCHANGED <<plan, lock, cmd, evidence, marks, mac, reused, faults>>

\* Mutant: only an install that is on record is undone.
RestoreHostsRecorded(p) ==
  /\ At(p, "dns")
  /\ \/ dnsState = {} /\ Skip(p)
     \/ "restored" \in dnsState /\ (IF hosts = "baseline" THEN Skip(p) ELSE GiveUp(p))
     \/ /\ "started" \in dnsState /\ "restored" \notin dnsState
        /\ IF hosts = "other" THEN GiveUp(p)
           ELSE Go(p, IF "installed" \in dnsState THEN "hostsBack" ELSE "hostsCheck")
                /\ UNCHANGED err
  /\ UNCHANGED <<plan, lock, cmd, evidence, marks, mac, reused, faults>>

\* restore_dns goes by the bytes of /etc/hosts: the override is replaced, the
\* baseline only confirmed, and anything else is a conflict.  The caches are
\* flushed when the install is on record or the override is still there.
RestoreHosts(p) ==
  /\ At(p, "dns")
  /\ \/ dnsState = {} /\ Skip(p)
     \/ "restored" \in dnsState /\ (IF hosts = "baseline" THEN Skip(p) ELSE GiveUp(p))
     \/ /\ "started" \in dnsState /\ "restored" \notin dnsState
        /\ \/ hosts = "other" /\ GiveUp(p)
           \/ hosts = "override" /\ Go(p, "hostsBack") /\ UNCHANGED err
           \/ /\ hosts = "baseline" /\ UNCHANGED err
              /\ Go(p, IF "installed" \in dnsState THEN "flush" ELSE "hostsCheck")
  /\ UNCHANGED <<plan, lock, cmd, evidence, marks, mac, reused, faults>>

InstallBaseline(p) ==
  /\ \/ At(p, "hostsBack") /\ hosts' = "baseline" /\ Go(p, "flush")
     \/ At(p, "flush") /\ Go(p, "hostsCheck") /\ UNCHANGED hosts
  /\ UNCHANGED <<plan, lock, cmd, err, evidence, marks, capture, lost, pfRule, pfRef,
                 reused, faults>>

ConfirmHosts(p) ==
  /\ At(p, "hostsCheck")
  /\ IF hosts = "baseline"
     THEN dnsState' = dnsState \cup {"restored"} /\ Skip(p)
     ELSE GiveUp(p) /\ UNCHANGED dnsState
  /\ UNCHANGED <<plan, lock, cmd, evidence, capState, pfState, pfOutput, mac, reused, faults>>

\* Mutant: an enable whose token is missing counts as an enable not done.
PfAmbiguousUnlessEnabled ==
  \/ "releasing" \in pfState
  \/ "loaded" \in pfState /\ ~pfRule /\ "clearing" \notin pfState

\* What restore_firewall refuses to interpret: an enable without a token, a
\* release begun and not on record as done, a loaded rule that is gone though
\* no clearing was announced.
PfAmbiguous ==
  \/ {"required", "enabling"} \subseteq pfState /\ pfOutput # "token"
  \/ "releasing" \in pfState
  \/ "loaded" \in pfState /\ ~pfRule /\ "clearing" \notin pfState

\* restore_firewall goes by the rules of the anchor: a rule that is there and
\* explained is recorded as loaded and about to be cleared.
RestorePf(p) ==
  /\ At(p, "pf")
  /\ \/ pfState = {} /\ Skip(p) /\ UNCHANGED pfState
     \/ "restored" \in pfState /\ (IF pfRule THEN GiveUp(p) ELSE Skip(p)) /\ UNCHANGED pfState
     \/ /\ pfState # {} /\ "restored" \notin pfState
        /\ IF PfAmbiguous THEN GiveUp(p) /\ UNCHANGED pfState
           ELSE /\ Go(p, IF pfRule THEN "pfFlush" ELSE "release")
                /\ pfState' = IF pfRule THEN pfState \cup {"loaded", "clearing"} ELSE pfState
                /\ UNCHANGED err
  /\ UNCHANGED <<plan, lock, cmd, evidence, capState, dnsState, pfOutput, mac, reused, faults>>

\* Flush the anchor and look again, announce the release, release, record that all is restored.
\* Whether pfctl accepts a token PF no longer knows is open.
ReleasePf(p) ==
  /\ \/ At(p, "pfFlush") /\ pfRule' = FALSE /\ Go(p, "release")
        /\ UNCHANGED <<pfState, pfRef, err>>
     \/ /\ At(p, "release")
        /\ IF pfRule THEN GiveUp(p) /\ UNCHANGED pfState
           ELSE IF pfOutput = "token"
           THEN Go(p, "unref") /\ pfState' = pfState \cup {"releasing"} /\ UNCHANGED err
           ELSE Go(p, "pfDone") /\ UNCHANGED <<pfState, err>>
        /\ UNCHANGED <<pfRule, pfRef>>
     \/ /\ At(p, "unref")
        /\ \/ pfRef' = FALSE /\ Go(p, "pfDone") /\ UNCHANGED err
           \/ ~pfRef /\ GiveUp(p) /\ UNCHANGED pfRef
        /\ UNCHANGED <<pfState, pfRule>>
     \/ At(p, "pfDone") /\ pfState' = (pfState \ {"releasing"}) \cup {"restored"}
        /\ Skip(p) /\ UNCHANGED <<pfRule, pfRef>>
  /\ UNCHANGED <<plan, lock, cmd, evidence, capState, dnsState, pfOutput, hosts,
                 capture, lost, reused, faults>>

\* A command run with sudo fails without effect.
CleanupFails(p) ==
  /\ \/ pc[p] \in {"hostsBack", "flush", "hostsCheck", "pfFlush", "unref"}
     \/ At(p, "capture") /\ capState # {}
     \/ At(p, "pfSnap") /\ pfState # {} /\ "restored" \notin pfState
     \/ At(p, "dns") /\ dnsState # {}
     \/ At(p, "pf") /\ pfState # {}
  /\ Fault("fail")
  /\ GiveUp(p)
  /\ UNCHANGED <<plan, lock, cmd, evidence, marks, mac, reused>>

\* Mutant: the errors of the restorations are not reported.
CleanedAnyway(p) ==
  /\ At(p, "cleaned")
  /\ Go(p, CASE p = "prepare" -> IF plan = "rehearsal" THEN "verify" ELSE "finished"
             [] p = "operator" -> IF cmd.verb = "cleanup" THEN "recover" ELSE "validate"
             [] p = "watchdog" -> "unlinkWd")
  /\ UNCHANGED <<plan, lock, cmd, err, evidence, marks, mac, reused, faults>>

\* With an error, an event is logged, at most, and the caller raises.
Cleaned(p) ==
  /\ At(p, "cleaned")
  /\ IF p \in err THEN Leave(p)
     ELSE /\ Go(p, CASE p = "prepare" -> IF plan = "rehearsal" THEN "verify" ELSE "finished"
                     [] p = "operator" -> IF cmd.verb = "cleanup" THEN "recover" ELSE "validate"
                     [] p = "watchdog" -> "unlinkWd")
          /\ UNCHANGED <<lock, cmd, err>>
  /\ UNCHANGED <<plan, evidence, marks, mac, reused, faults>>

---------------------------------------------------------------------------
\* finish-run, abort-run, cleanup.

\* find_attempt looks below the client root only, where no rehearsal is.  Only
\* an attempt whose URL was opened can have a response.
Command(c) ==
  /\ At("operator", "idle") /\ At("prepare", "done")
  /\ plan # "rehearsal" /\ "metadata.json" \in files
  /\ c.response => opened
  /\ cmd' = c
  /\ Go("operator", "wantLock")
  /\ UNCHANGED <<plan, lock, err, evidence, marks, mac, reused, faults>>

CommandLocked ==
  /\ At("operator", "wantLock")
  /\ lock = "free" /\ lock' = "operator"
  /\ Go("operator", "begin")
  /\ UNCHANGED <<plan, cmd, err, evidence, marks, mac, reused, faults>>

\* A finalized attempt is refused (cleanup verifies it); so are a second
\* response file, and a code for a response not saved when one is there.
CommandBegin ==
  /\ At("operator", "begin")
  /\ LET there == "response.json" \in files
         refused == \/ Sealed
                    \/ cmd.response /\ there
                    \/ cmd.result = "mechanical_failure" /\ there
     IN IF refused THEN Leave("operator") /\ UNCHANGED files
        ELSE /\ Go("operator", "stopWd")
             /\ files' = IF cmd.response THEN files \cup {"response.json"} ELSE files
             /\ UNCHANGED <<lock, cmd, err>>
  /\ UNCHANGED <<plan, opened, frozen, outcomes, marks, mac, reused, faults>>

\* stop_watchdog, by an operator command.
StopWatchdog ==
  /\ At("operator", "stopWd")
  /\ LET named == "watchdog.pid" \in files
     IN IF named /\ "watchdog" \in reused
        THEN err' = err \cup {"operator"} /\ Go("operator", "capture") /\ UNCHANGED files
        ELSE /\ pc' = [pc EXCEPT !["operator"] = "capture",
                                 !["watchdog"] = IF named THEN "done" ELSE @]
             /\ files' = files \ {"watchdog.pid"}
             /\ UNCHANGED err
  /\ UNCHANGED <<plan, lock, cmd, opened, frozen, outcomes, marks, mac, reused, faults>>

\* What finish-run checks only now: a capture must have been prepared, and the
\* two abort codes exclude each other; a lost capture is not an observation.
Premature == "premature" \in capState
Validate ==
  /\ At("operator", "validate")
  /\ IF capState = {} \/ cmd.verb = "abortBothCodes"
     THEN Leave("operator")
     ELSE Go("operator", "finished") /\ UNCHANGED <<lock, cmd, err>>
  /\ UNCHANGED <<plan, evidence, marks, mac, reused, faults>>

\* What run_finished says.  A response decides over the typed outcome when it
\* is late or shows the client's own address; the finishing conditions may
\* differ from the starting ones.
ResultOf(p) ==
  CASE p = "prepare" -> {[result |-> "prepare_error", changed |-> FALSE]}
    [] p = "watchdog" -> {[result |-> "operator_completion_timeout", changed |-> FALSE]}
    [] p = "operator" /\ cmd.verb = "cleanup" ->
         {[result |-> "prepare_error", changed |-> FALSE]}
    [] OTHER ->
         LET results == IF cmd.response THEN {cmd.result, "timeout", "direct_bypass"}
                        ELSE {cmd.result}
         IN {[result |-> IF Premature /\ r # "direct_bypass" /\ ~cmd.changed
                         THEN "mechanical_failure" ELSE r,
              changed |-> cmd.changed] : r \in results}

\* append_jsonl needs an events.jsonl that finalize_attempt has not frozen.
LogFinished(p) ==
  /\ At(p, "finished")
  /\ \/ /\ ~frozen
        /\ \E o \in ResultOf(p) : outcomes' = Append(outcomes, o)
        /\ Go(p, "freeze") /\ UNCHANGED <<lock, cmd, err>>
     \/ frozen /\ Leave(p) /\ UNCHANGED outcomes
  /\ UNCHANGED <<plan, files, opened, frozen, marks, mac, reused, faults>>

\* cleanup refuses two run_finished events, finalizes the one there is, or
\* records its own.
Recover ==
  /\ At("operator", "recover")
  /\ IF Len(outcomes) > 1 THEN Leave("operator")
     ELSE /\ Go("operator", IF outcomes = <<>> THEN "finished" ELSE "freeze")
          /\ UNCHANGED <<lock, cmd, err>>
  /\ UNCHANGED <<plan, evidence, marks, mac, reused, faults>>

\* A rehearsal compares /etc/hosts and the anchor before it is finalized.
VerifyRehearsal ==
  /\ At("prepare", "verify")
  /\ IF hosts = "baseline" /\ ~pfRule
     THEN Go("prepare", "freeze") /\ UNCHANGED <<lock, cmd, err>>
     ELSE Leave("prepare")
  /\ UNCHANGED <<plan, evidence, marks, mac, reused, faults>>

\* finalize_attempt: every artifact hashed and made read-only, then the
\* manifest, then its sidecar.
Finalize(p) ==
  /\ \/ At(p, "freeze") /\ Go(p, "manifest") /\ frozen' = TRUE
        /\ UNCHANGED <<files, lock, cmd, err>>
     \/ At(p, "manifest") /\ Go(p, "sidecar") /\ files' = files \cup {"manifest.sha256"}
        /\ UNCHANGED <<frozen, lock, cmd, err>>
     \/ At(p, "sidecar") /\ Leave(p) /\ files' = files \cup {"manifest.sha256.sha256"}
        /\ UNCHANGED frozen
  /\ UNCHANGED <<plan, opened, outcomes, marks, mac, reused, faults>>

---------------------------------------------------------------------------
\* The watchdog and the environment.

\* Mutant: the watchdog restores and does not finalize.
WatchdogRestoresOnly ==
  /\ \/ /\ At("watchdog", "waiting") /\ At("prepare", "done")
        /\ Go("watchdog", IF Sealed THEN "done" ELSE "wantLock") /\ UNCHANGED <<lock, files>>
     \/ /\ At("watchdog", "wantLock") /\ lock = "free" /\ UNCHANGED files
        /\ IF Sealed THEN Go("watchdog", "done") /\ UNCHANGED lock
           ELSE Go("watchdog", "capture") /\ lock' = "watchdog"
     \/ At("watchdog", "unlinkWd") /\ Go("watchdog", "done") /\ lock' = "free"
        /\ files' = files \ {"watchdog.pid"}
  /\ UNCHANGED <<plan, cmd, err, opened, frozen, outcomes, marks, mac, reused, faults>>

\* The grace period is over; the manifest is looked at before and after the
\* lock is taken; watchdog.pid goes once everything is restored.
Watchdog ==
  /\ \/ /\ At("watchdog", "waiting") /\ At("prepare", "done")
        /\ Go("watchdog", IF Sealed THEN "done" ELSE "wantLock") /\ UNCHANGED <<lock, files>>
     \/ /\ At("watchdog", "wantLock") /\ lock = "free" /\ UNCHANGED files
        /\ IF Sealed THEN Go("watchdog", "done") /\ UNCHANGED lock
           ELSE Go("watchdog", "capture") /\ lock' = "watchdog"
     \/ At("watchdog", "unlinkWd") /\ Go("watchdog", "finished")
        /\ files' = files \ {"watchdog.pid"} /\ UNCHANGED lock
  /\ UNCHANGED <<plan, cmd, err, opened, frozen, outcomes, marks, mac, reused, faults>>

\* sudo starts tcpdump; a signalled tree ends in the end.
CaptureProceeds ==
  /\ \/ capture = "sudo" /\ capture' = "tree"
     \/ capture = "ending" /\ capture' = "none"
  /\ UNCHANGED <<plan, procs, evidence, marks, hosts, lost, pfRule, pfRef,
                 reused, faults>>

\* tcpdump cannot start, or ends by itself.
CaptureDies ==
  /\ capture \in {"sudo", "tree"}
  /\ Fault("fail")
  /\ capture' = "none"
  /\ lost' = (lost \/ "signalled" \notin capState)
  /\ UNCHANGED <<plan, procs, evidence, marks, hosts, pfRule, pfRef, reused>>

\* Another program changes /etc/hosts, not between cleanup's read and install.
EditHosts ==
  /\ \A p \in Proc : pc[p] \notin {"hostsBack", "hostsInstall"}
  /\ Fault("edit")
  /\ hosts' = "other"
  /\ UNCHANGED <<plan, procs, evidence, marks, capture, lost, pfRule, pfRef, reused>>

Kill(p) ==
  /\ pc[p] \notin {"idle", "done"}
  /\ Fault("kill")
  /\ Leave(p)
  /\ UNCHANGED <<plan, evidence, marks, mac, reused>>

\* A restart ends every process and clears PF and the caches; /etc/hosts and
\* the attempt directory stay, and the recorded PIDs may name other processes.
Reboot ==
  /\ pc["prepare"] # "idle"
  /\ Fault("reboot")
  /\ pc' = [p \in Proc |-> IF p = "operator" THEN "idle" ELSE "done"]
  /\ lock' = "free" /\ cmd' = NoCommand /\ err' = {}
  /\ pfRule' = FALSE /\ pfRef' = FALSE
  /\ capture' = "none"
  /\ lost' = (lost \/ (capture # "none" /\ "signalled" \notin capState))
  /\ reused' \in IF PidReuse THEN SUBSET {"capture", "watchdog"} ELSE {{}}
  /\ UNCHANGED <<plan, evidence, marks, hosts>>

---------------------------------------------------------------------------
\* The specification.

PrepareStep ==
  \/ StartCapture \/ PfPrepare \/ PfApply \/ PinHosts \/ Launch
  \/ At("prepare", "meta") /\ Prepare
  \/ PrepareFails \/ PrepareHandler \/ VerifyRehearsal

CleanupStep(p) ==
  \/ StopCapture(p) \/ SignalCapture(p) \/ RecordCaptureStop(p) \/ SnapshotPf(p)
  \/ RestoreHosts(p) \/ InstallBaseline(p) \/ ConfirmHosts(p)
  \/ RestorePf(p) \/ ReleasePf(p) \/ CleanupFails(p) \/ Cleaned(p)

OperatorStep == CommandLocked \/ CommandBegin \/ StopWatchdog \/ Validate \/ Recover

ProcessStep(p) ==
  \/ p = "prepare" /\ PrepareStep
  \/ p = "operator" /\ OperatorStep
  \/ p = "watchdog" /\ Watchdog
  \/ CleanupStep(p) \/ LogFinished(p) \/ Finalize(p)

Environment ==
  \/ At("prepare", "idle") /\ Prepare
  \/ \E c \in Commands : Command(c)
  \/ Interrupt \/ CaptureDies \/ EditHosts \/ Reboot
  \/ \E p \in Proc : Kill(p)

Next == Environment \/ CaptureProceeds \/ \E p \in Proc : ProcessStep(p)

Spec == Init /\ [][Next]_vars

\* A process that is not killed goes on, the grace period ends, a signalled
\* capture ends; nobody has to type a command and nothing has to fail.
FairSpec == Spec /\ WF_vars(CaptureProceeds) /\ \A p \in Proc : WF_vars(ProcessStep(p))

---------------------------------------------------------------------------
\* Properties.

\* Every variable has its type: the records on disk draw from their domains.
TypeOK ==
  /\ plan \in Plans
  /\ pc \in [Proc -> Labels]
  /\ lock \in Proc \cup {"free"}
  /\ cmd \in Commands \cup {NoCommand}
  /\ err \subseteq Proc
  /\ files \subseteq Artifacts /\ opened \in BOOLEAN /\ frozen \in BOOLEAN /\ outcomes \in Seq(Outcome)
  /\ capState \subseteq CapMarks /\ dnsState \subseteq DnsMarks /\ pfState \subseteq PfMarks
  /\ pfOutput \in {"absent", "noToken", "token"}
  /\ hosts \in {"baseline", "override", "other"}
  /\ capture \in Trees /\ lost \in BOOLEAN /\ pfRule \in BOOLEAN /\ pfRef \in BOOLEAN
  /\ reused \subseteq {"capture", "watchdog"}
  /\ faults \in Nat

\* Whatever is altered was announced in its state file first, so that a later
\* process can find it: the capture (start_capture), the PF reference and the
\* rule (prepare_firewall), /etc/hosts (apply_dns_pin); and no later mark takes
\* the announcement back.
AnnouncedFirst ==
  /\ capState # {} => "prepared" \in capState
  /\ dnsState # {} => "started" \in dnsState
  /\ pfState # {} => "saved" \in pfState
  /\ capture # "none" => "prepared" \in capState
  /\ pfRef => "enabling" \in pfState
  /\ pfRule => "loading" \in pfState
  /\ hosts = "override" => "started" \in dnsState

\* A finalized attempt or rehearsal has undone everything it did to the Mac,
\* also the PF reference, whatever was interrupted, inferred or restarted.
SealedIsRestored ==
  Sealed => hosts # "override" /\ ~pfRule /\ ~pfRef /\ capture = "none"

\* A success recorded under unchanged conditions had its capture from the
\* confirmed start to the requested stop: "objective retryable evidence loss,
\* not a network outcome" (stop_capture, finish_attempt).
SuccessHasCapture ==
  \A i \in DOMAIN outcomes :
    outcomes[i].result = "success" /\ ~outcomes[i].changed => ~lost

\* What no command of the diagnostic undoes: a capture tree without a recorded
\* PID, a PID that names another process, a changed /etc/hosts, a PF record
\* that is ambiguous, two outcomes, a manifest without its sidecar.
Stuck ==
  \/ capState # {} /\ CaptureRefused
  \/ "watchdog.pid" \in files /\ "watchdog" \in reused
  \/ hosts = "other" /\ dnsState # {}
  \/ pfState # {} /\ PfAmbiguous /\ \A p \in Proc : pc[p] \notin {"unref", "pfDone"}
  \/ Len(outcomes) > 1
  \/ Sealed

\* The operator who, among other commands, keeps typing cleanup gets the
\* attempt finalized, unless it is Stuck for ever.
CleanupSeals ==
  []<><<Command([NoCommand EXCEPT !.verb = "cleanup"])>>_vars =>
    (At("prepare", "done") /\ "metadata.json" \in files /\ plan # "rehearsal"
       ~> "manifest.sha256.sha256" \in files \/ []Stuck)

\* When nothing fails, a launched attempt is finalized in the end, by the
\* watchdog or by a command, also when they meet.  Only the abort that is
\* refused for its two codes leaves it unfinished, with its watchdog stopped.
WatchdogSeals ==
  At("watchdog", "waiting") ~>
    Sealed \/ faults > 0 \/ cmd.verb = "abortBothCodes"

=============================================================================

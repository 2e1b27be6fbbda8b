---------------------------- MODULE AttemptLifecycle ----------------------------
(***************************************************************************)
(* One measurement attempt of experiment/controller.py and the Mac it      *)
(* alters.  Three processes work on the attempt:                           *)
(*                                                                         *)
(*   "prepare"   prepare-run, which starts the capture, loads the PF rule, *)
(*               overrides /etc/hosts, starts the watchdog, opens Safari;  *)
(*   "operator"  finish-run, abort-run or cleanup, as often as typed;      *)
(*   "watchdog"  the detached process that finishes the attempt when the   *)
(*               operator's grace period is over.                          *)
(*                                                                         *)
(* A step is one effect outside the process: one command run with sudo, or *)
(* one artifact written in the attempt directory.  pc[p] names the effect  *)
(* process p performs next, so a fault may fall between any two effects.   *)
(***************************************************************************)
EXTENDS Integers, Sequences, FiniteSets

CONSTANTS
  Faults,      \* the kinds of fault the environment may inject
  MaxFaults,   \* bound: how many faults a behaviour contains
  MaxEdits,    \* bound: how often another program edits /etc/hosts
  Concurrent   \* may a command run, or the watchdog's deadline pass, while
               \* prepare-run is still running?

FaultKinds == {"fail", "kill", "interrupt", "reboot"}

ASSUME ConstantsAssumption ==
  /\ Faults \subseteq FaultKinds
  /\ MaxFaults \in Nat
  /\ MaxEdits \in Nat
  /\ Concurrent \in BOOLEAN

VARIABLES
  plan,       \* what prepare-run was asked for: the Plans below
  pc,         \* the effect each process performs next
  lock,       \* holder of runtime/locks/<attempt>.lock
  cmd,        \* the command the operator typed
  mem,        \* what each process has read and still acts on
  files,      \* the artifacts present in the attempt directory
  perm,       \* "open", "frozen" (files 0440), "closed" (directory 0550 too)
  events,     \* events.jsonl; an outcome stands for its run_finished line
  capState,   \* capture-state.json: absent, no stopped_utc, stopped_utc
  dnsState,   \* the marks recorded in dns-pin-state.json, {} when absent
  pfState,    \* the marks recorded in firewall-state.json, {} when absent
  baseline,   \* hosts_previous_base64: the version of /etc/hosts it saves
  dirty,      \* an artifact no longer matches the digests taken of it
  hosts,      \* /etc/hosts: is the pin in it, how often others edited it
  tcpdump,    \* the capture process runs
  pfRule,     \* the UDP block is loaded in the PF anchor
  pfRef,      \* PF holds the enable reference the controller acquired
  faults      \* how many faults have happened

procs == <<pc, lock, cmd, mem>>
evidence == <<files, perm, events, dirty>>
marks == <<capState, dnsState, pfState, baseline>>
mac == <<hosts, tcpdump, pfRule, pfRef>>
vars == <<plan, procs, evidence, marks, mac, faults>>

Proc == {"prepare", "operator", "watchdog"}
Plans == {"unpinned", "pinned", "fallback"}
Commands == {"finish", "abort", "cleanup"}
Artifacts == {"metadata.json", "clock-status.json", "client.pcap", "capture.pid",
              "watchdog.pid", "manifest.sha256", "manifest.sha256.sha256"}
Outcomes == {"success", "error", "timeout", "aborted", "prepare_error"}
Events == Outcomes \cup {"run_started", "prepare_error_detected",
                         "safari_url_launch_requested", "safari_url_opened",
                         "capture_stopped"}
DnsMarks == {"saved", "installed", "restored"}
DnsStates == {S \in SUBSET DnsMarks : S # {} => "saved" \in S}
PfMarks == {"active", "token", "unparsed", "loaded", "cleared", "released",
            "restored"}

\* The body of prepare-run's try block; an error here enters its handler.
TryLabels == {"observe", "spawn", "capPid", "capState", "pfEnable", "pfSave",
              "pfLoad", "pfMark", "pfReset", "hostsRead", "hostsSave",
              "hostsFile", "hostsInstall", "hostsMark", "activate", "launch", "watch",
              "watchPid", "open"}
CaptureLabels == {"capture", "capMark", "capUnlink"}
DnsLabels == {"dns", "hostsBack", "flush", "hostsCheck"}
PfLabels == {"pf", "pfFlush", "pfCleared", "release", "released", "pfDone"}
CleanupLabels == {"snapshot", "snapWrite"} \cup CaptureLabels \cup DnsLabels
                   \cup PfLabels \cup {"cleaned"}
ClosingLabels == {"begin", "preAbort", "recorded", "stopWd", "stopped",
                  "finished", "recover", "prepErr", "freeze", "manifest",
                  "sidecar", "close"}
LockedLabels == CleanupLabels \cup ClosingLabels
Labels == {"idle", "meta", "started", "handler", "waiting", "wantLock", "done"}
            \cup TryLabels \cup LockedLabels

Blank == [err |-> FALSE, priv |-> FALSE, dns |-> {}, pf |-> {}, version |-> 0]
Pinned(version) == [pin |-> TRUE, version |-> version]
Plain(version) == [pin |-> FALSE, version |-> version]

Init ==
  /\ plan \in Plans
  /\ pc = [p \in Proc |-> "idle"]
  /\ lock = "free"
  /\ cmd = "finish"
  /\ mem = [p \in Proc |-> Blank]
  /\ files = {} /\ perm = "open" /\ events = <<>> /\ dirty = FALSE
  /\ capState = "none" /\ dnsState = {} /\ pfState = {} /\ baseline = 0
  /\ hosts = Plain(0)
  /\ tcpdump = FALSE /\ pfRule = FALSE /\ pfRef = FALSE
  /\ faults = 0

---------------------------------------------------------------------------
\* Vocabulary of the steps.

At(p, label) == pc[p] = label
Go(p, label) == pc' = [pc EXCEPT ![p] = label]
Remember(p, field, value) == mem' = [mem EXCEPT ![p][field] = value]
Logged(event) == \E i \in DOMAIN events : events[i] = event
Finished == \E i \in DOMAIN events : events[i] \in Outcomes

\* A process leaves for good, the operator only until the next command; the
\* kernel drops its flock, whether it returned, raised or was killed.
Leave(p) ==
  /\ Go(p, IF p = "operator" THEN "idle" ELSE "done")
  /\ mem' = [mem EXCEPT ![p] = Blank]
  /\ lock' = IF lock = p THEN "free" ELSE lock

\* append_jsonl needs a writable events.jsonl; write_json replaces a file, so
\* it needs a writable directory only.
MayAppend == perm = "open"
MayWrite == perm # "closed"
Log(event) == events' = Append(events, event)
\* An artifact written after finalize_attempt has listed and hashed them is
\* missing from the manifest, or differs from it.
Written == dirty' = (dirty \/ perm # "open")

Acquire(p) == lock = "free" /\ lock' = p

---------------------------------------------------------------------------
\* prepare-run.

\* validate_prepare, mkdir, metadata.json.
Prepare ==
  /\ At("prepare", "idle")
  /\ ~hosts.pin
  /\ Go("prepare", "meta")
  /\ UNCHANGED <<plan, lock, cmd, mem, evidence, marks, mac, faults>>

\* Before the try block: writes metadata.json, then the run_started event.
PrepareRecord ==
  /\ \/ /\ At("prepare", "meta")
        /\ files' = files \cup {"metadata.json"}
        /\ Go("prepare", "started")
        /\ UNCHANGED events
     \/ /\ At("prepare", "started")
        /\ Log("run_started")
        /\ Go("prepare", "observe")
        /\ UNCHANGED files
  /\ UNCHANGED <<plan, lock, cmd, mem, perm, dirty, marks, mac, faults>>

\* Clock evidence and DNS snapshots, then start_capture: tcpdump is running
\* before capture.pid names it, and capture.pid precedes capture-state.json.
PrepareCapture ==
  /\ MayWrite
  /\ \/ /\ At("prepare", "observe")
        /\ files' = files \cup {"clock-status.json"}
        /\ Written
        /\ Go("prepare", "spawn")
        /\ UNCHANGED <<mem, tcpdump, capState>>
     \/ /\ At("prepare", "spawn")
        /\ files' = files \cup {"client.pcap"}
        /\ Written
        /\ tcpdump' = TRUE
        /\ Go("prepare", "capPid")
        /\ UNCHANGED <<mem, capState>>
     \/ /\ At("prepare", "capPid")
        /\ files' = files \cup {"capture.pid"}
        /\ Go("prepare", "capState")
        /\ UNCHANGED <<mem, dirty, tcpdump, capState>>
     \/ /\ At("prepare", "capState")
        /\ capState' = "started"
        /\ Written
        /\ Remember("prepare", "priv", plan # "unpinned")
        /\ Go("prepare", IF plan = "fallback" THEN "pfEnable"
                         ELSE IF plan = "pinned" THEN "hostsRead" ELSE "launch")
        /\ UNCHANGED <<files, tcpdump>>
  /\ UNCHANGED <<plan, lock, cmd, perm, events, dnsState, pfState, baseline,
                 hosts, pfRule, pfRef, faults>>

\* apply_firewall up to its first write: the anchor must be empty; PF may be
\* enabled already, otherwise pfctl -E acquires a reference and prints a token.
PfEnable ==
  /\ At("prepare", "pfEnable")
  /\ ~pfRule
  /\ \E wasEnabled \in BOOLEAN :
       /\ pfRef' = ~wasEnabled
       /\ Remember("prepare", "pf",
                   IF wasEnabled THEN {"active"} ELSE {"active", "token"})
  /\ Go("prepare", "pfSave")
  /\ UNCHANGED <<plan, lock, cmd, evidence, marks, hosts, tcpdump, pfRule, faults>>

\* The token could not be parsed: recorded as such, and prepare-run fails.
PfTokenUnparsed ==
  /\ At("prepare", "pfSave")
  /\ "token" \in mem["prepare"].pf
  /\ "fail" \in Faults /\ faults < MaxFaults
  /\ MayWrite /\ Written
  /\ pfState' = {"active", "unparsed"}
  /\ faults' = faults + 1
  /\ Go("prepare", "handler")
  /\ UNCHANGED <<plan, lock, cmd, mem, files, perm, events, capState, dnsState,
                 baseline, mac>>

\* apply_firewall: save the state, load the rule, record that it is loaded,
\* verify it and reset the states to the ingress, save again.
PfApply ==
  /\ \/ /\ At("prepare", "pfSave") /\ MayWrite /\ Written
        /\ pfState' = mem["prepare"].pf
        /\ Go("prepare", "pfLoad")
        /\ UNCHANGED <<mem, pfRule>>
     \/ /\ At("prepare", "pfLoad")
        /\ pfRule' = TRUE
        /\ Remember("prepare", "pf", mem["prepare"].pf \cup {"loaded"})
        /\ Go("prepare", "pfMark")
        /\ UNCHANGED <<dirty, pfState>>
     \/ /\ At("prepare", "pfMark") /\ MayWrite /\ Written
        /\ pfState' = mem["prepare"].pf
        /\ Go("prepare", "pfReset")
        /\ UNCHANGED <<mem, pfRule>>
     \/ /\ At("prepare", "pfReset") /\ MayWrite /\ Written
        /\ pfState' = mem["prepare"].pf
        /\ Go("prepare", "hostsRead")
        /\ UNCHANGED <<mem, pfRule>>
  /\ UNCHANGED <<plan, lock, cmd, files, perm, events, capState, dnsState, baseline,
                 hosts, tcpdump, pfRef, faults>>

\* Mutant: install the override before anything is saved.
HostsReadInstallsFirst ==
  /\ At("prepare", "hostsRead")
  /\ ~hosts.pin
  /\ Remember("prepare", "version", hosts.version)
  /\ Go("prepare", "hostsInstall")
  /\ UNCHANGED <<plan, lock, cmd, evidence, marks, mac, faults>>

\* apply_dns_pin: read /etc/hosts, save baseline and override in
\* dns-pin-state.json, write hosts.applied, install it, record that it is
\* installed, flush the caches, check the effective answer, save again.
HostsRead ==
  /\ At("prepare", "hostsRead")
  /\ ~hosts.pin
  /\ Remember("prepare", "version", hosts.version)
  /\ Go("prepare", "hostsSave")
  /\ UNCHANGED <<plan, lock, cmd, evidence, marks, mac, faults>>

HostsSave ==
  /\ MayWrite /\ Written
  /\ \/ /\ At("prepare", "hostsSave")
        /\ dnsState' = {"saved"}
        /\ baseline' = mem["prepare"].version
        /\ Go("prepare", "hostsFile")
     \/ /\ At("prepare", "hostsFile")
        /\ Go("prepare", "hostsInstall")
        /\ UNCHANGED <<dnsState, baseline>>
  /\ UNCHANGED <<plan, lock, cmd, mem, files, perm, events, capState, pfState, mac,
                 faults>>

HostsInstall ==
  /\ At("prepare", "hostsInstall")
  /\ hosts' = Pinned(mem["prepare"].version)
  /\ Go("prepare", "hostsMark")
  /\ UNCHANGED <<plan, lock, cmd, mem, evidence, marks, tcpdump, pfRule, pfRef, faults>>

\* Mutant: the second write of dns-pin-state.json drops what the first saved.
HostsMarkOverwrites ==
  /\ At("prepare", "hostsMark") /\ Go("prepare", "activate")
  /\ MayWrite /\ Written
  /\ dnsState' = {"installed"}
  /\ UNCHANGED <<plan, lock, cmd, mem, files, perm, events, capState, pfState, baseline,
                 mac, faults>>

HostsMark ==
  /\ \/ At("prepare", "hostsMark") /\ Go("prepare", "activate")
     \/ At("prepare", "activate") /\ Go("prepare", "launch")
  /\ MayWrite /\ Written
  /\ dnsState' = {"saved", "installed"}
  /\ UNCHANGED <<plan, lock, cmd, mem, files, perm, events, capState, pfState, baseline,
                 mac, faults>>

\* The launch is announced, the watchdog is spawned before watchdog.pid names
\* it, and Safari is opened last.
PrepareLaunch ==
  /\ At("prepare", "launch") /\ MayAppend
  /\ Log("safari_url_launch_requested")
  /\ Go("prepare", "watch")
  /\ UNCHANGED <<plan, lock, cmd, mem, files, perm, dirty, marks, mac, faults>>

StartWatchdog ==
  /\ \/ /\ At("prepare", "watch")
        /\ pc' = [pc EXCEPT !["prepare"] = "watchPid", !["watchdog"] = "waiting"]
        /\ UNCHANGED <<files, dirty>>
     \/ /\ At("prepare", "watchPid") /\ MayWrite /\ Written
        /\ files' = files \cup {"watchdog.pid"}
        /\ Go("prepare", "open")
  /\ UNCHANGED <<plan, lock, cmd, mem, perm, events, marks, mac, faults>>

OpenSafari ==
  /\ At("prepare", "open") /\ MayAppend
  /\ Log("safari_url_opened")
  /\ Leave("prepare")
  /\ UNCHANGED <<plan, cmd, files, perm, dirty, marks, mac, faults>>

\* A command of the try block fails without effect.  When tcpdump fails to
\* start, it is not running.  A write that another process's finalization
\* refuses fails without any fault of the environment.
WriteRefused(label) ==
  \/ ~MayWrite /\ label \in TryLabels \ {"pfEnable", "pfLoad", "hostsRead",
                                         "hostsInstall", "watch"}
  \/ ~MayAppend /\ label \in {"launch", "open"}
  \/ label \in {"pfEnable"} /\ pfRule
  \/ label \in {"hostsRead"} /\ hosts.pin

PrepareFails ==
  /\ pc["prepare"] \in TryLabels
  /\ \/ WriteRefused(pc["prepare"]) /\ UNCHANGED <<faults, tcpdump>>
     \/ /\ "fail" \in Faults /\ faults < MaxFaults
        /\ pc["prepare"] \notin {"pfSave", "capState", "hostsMark", "watchPid"}
        /\ faults' = faults + 1
        /\ tcpdump' = (tcpdump /\ pc["prepare"] # "capPid")
  /\ Go("prepare", "handler")
  /\ UNCHANGED <<plan, lock, cmd, mem, evidence, marks, hosts, pfRule, pfRef>>

\* SIGTERM, or Ctrl-C, raises KeyboardInterrupt wherever the try block is.
\* SIGTERM reaches prepare-run alone, whatever it started stays; Ctrl-C also
\* ends tcpdump and the watchdog, which share its terminal's process group.
Interrupt ==
  /\ "interrupt" \in Faults /\ faults < MaxFaults
  /\ pc["prepare"] \in TryLabels
  /\ faults' = faults + 1
  /\ \/ Go("prepare", "handler") /\ UNCHANGED tcpdump
     \/ /\ pc' = [pc EXCEPT !["prepare"] = "handler",
                            !["watchdog"] = IF @ = "waiting" THEN "done" ELSE @]
        /\ tcpdump' = FALSE
  /\ UNCHANGED <<plan, lock, cmd, mem, evidence, marks, hosts, pfRule, pfRef>>

\* The except clause: take the attempt's lock; clean up when something
\* privileged was applied or a capture is on record.
PrepareHandler ==
  /\ At("prepare", "handler")
  /\ Acquire("prepare")
  /\ Go("prepare", IF mem["prepare"].priv \/ "capture.pid" \in files
                   THEN "snapshot" ELSE "stopWd")
  /\ UNCHANGED <<plan, cmd, mem, evidence, marks, mac, faults>>

---------------------------------------------------------------------------
\* cleanup_attempt, run by each process under the attempt's lock.  Its three
\* operations follow each other whether or not the previous one failed.

AfterError(label) ==
  IF label \in CaptureLabels THEN "dns"
  ELSE IF label \in DnsLabels THEN "pf" ELSE "cleaned"

\* Mutant: the failed operation is not reported.
CleanupErrorIgnored(p) == Go(p, AfterError(pc[p])) /\ UNCHANGED mem

\* An operation gives up; the error is reported after the last operation.
CleanupError(p) ==
  /\ Remember(p, "err", TRUE)
  /\ Go(p, AfterError(pc[p]))

\* snapshot_firewall_statistics reads firewall-state.json and writes it back
\* with the counters; whatever error it meets is swallowed.
SnapshotPf(p) ==
  /\ \/ /\ At(p, "snapshot")
        /\ IF pfState = {} \/ "restored" \in pfState
           THEN Go(p, "capture") /\ UNCHANGED mem
           ELSE Go(p, "snapWrite") /\ Remember(p, "pf", pfState)
        /\ UNCHANGED <<dirty, pfState>>
     \/ /\ At(p, "snapWrite")
        /\ IF MayWrite THEN Written /\ pfState' = mem[p].pf
                       ELSE UNCHANGED <<dirty, pfState>>
        /\ Go(p, "capture")
        /\ UNCHANGED mem
  /\ UNCHANGED <<plan, lock, cmd, files, perm, events, capState, dnsState, baseline,
                 mac, faults>>

\* Mutant: tcpdump is signalled and not waited for.
StopCaptureUnwaited(p) ==
  /\ At(p, "capture")
  /\ \/ "capture.pid" \notin files /\ Go(p, "dns") /\ UNCHANGED mem
     \/ "capture.pid" \in files /\ capState = "none" /\ CleanupError(p)
     \/ "capture.pid" \in files /\ capState # "none" /\ Go(p, "capMark") /\ UNCHANGED mem
  /\ UNCHANGED <<plan, lock, cmd, evidence, marks, mac, faults>>

\* Mutant: a missing capture.pid is an error, not a capture already stopped.
StopCaptureOnce(p) ==
  /\ At(p, "capture")
  /\ IF "capture.pid" \in files /\ capState # "none"
     THEN Go(p, "capMark") /\ tcpdump' = FALSE /\ UNCHANGED mem
     ELSE CleanupError(p) /\ UNCHANGED tcpdump
  /\ UNCHANGED <<plan, lock, cmd, evidence, marks, hosts, pfRule, pfRef, faults>>

\* cleanup_capture: nothing without capture.pid; otherwise tcpdump is
\* signalled and waited for, its stop is recorded, capture.pid is removed.
StopCapture(p) ==
  /\ At(p, "capture")
  /\ \/ "capture.pid" \notin files /\ Go(p, "dns") /\ UNCHANGED <<mem, tcpdump>>
     \/ "capture.pid" \in files /\ capState = "none" /\ CleanupError(p) /\ UNCHANGED tcpdump
     \/ /\ "capture.pid" \in files /\ capState # "none"
        /\ Go(p, "capMark") /\ tcpdump' = FALSE /\ UNCHANGED mem
  /\ UNCHANGED <<plan, lock, cmd, evidence, marks, hosts, pfRule, pfRef, faults>>

\* setdefault: a stop already on record keeps its time, and its digest.
RecordCaptureStop(p) ==
  /\ At(p, "capMark")
  /\ IF MayWrite
     THEN /\ capState' = "stopped"
          /\ dirty' = (dirty \/ (perm # "open" /\ capState # "stopped"))
          /\ Go(p, "capUnlink") /\ UNCHANGED mem
     ELSE CleanupError(p) /\ UNCHANGED <<dirty, capState>>
  /\ UNCHANGED <<plan, lock, cmd, files, perm, events, dnsState, pfState, baseline, mac,
                 faults>>

RemoveCapturePid(p) ==
  /\ At(p, "capUnlink")
  /\ IF MayWrite
     THEN files' = files \ {"capture.pid"} /\ Go(p, "dns") /\ UNCHANGED mem
     ELSE CleanupError(p) /\ UNCHANGED files
  /\ UNCHANGED <<plan, lock, cmd, perm, events, dirty, marks, mac, faults>>

\* cleanup_dns, hosts override: refuse when /etc/hosts is not exactly what
\* the recorded marks say it must be.
HostsDecide(p) ==
  /\ At(p, "dns")
  /\ LET installed == "installed" \in dnsState
         restored == "restored" \in dnsState
         expected == IF installed /\ ~restored THEN Pinned(baseline) ELSE Plain(baseline)
     IN \/ dnsState = {} /\ Go(p, "pf") /\ UNCHANGED mem
        \/ dnsState # {} /\ hosts # expected /\ CleanupError(p)
        \/ /\ dnsState # {} /\ hosts = expected
           /\ Remember(p, "dns", dnsState)
           /\ Go(p, IF restored THEN "pf" ELSE IF installed THEN "hostsBack" ELSE "hostsCheck")
  /\ UNCHANGED <<plan, lock, cmd, evidence, marks, mac, faults>>

\* Write hosts.previous and install it, then flush the caches and restart the
\* proxy.  That the baseline is back is recorded at the end only.
HostsRestore(p) ==
  /\ \/ /\ At(p, "hostsBack") /\ MayWrite
        /\ hosts' = Plain(baseline)
        /\ Go(p, "flush")
     \/ /\ At(p, "flush")
        /\ Go(p, "hostsCheck")
        /\ UNCHANGED hosts
  /\ UNCHANGED <<plan, lock, cmd, mem, evidence, marks, tcpdump, pfRule, pfRef, faults>>

\* Read /etc/hosts again and record restored_utc when it is the baseline.
HostsConfirm(p) ==
  /\ At(p, "hostsCheck")
  /\ IF hosts = Plain(baseline) /\ MayWrite
     THEN /\ dnsState' = mem[p].dns \cup {"restored"}
          /\ Written
          /\ Go(p, "pf") /\ UNCHANGED mem
     ELSE CleanupError(p) /\ UNCHANGED <<dnsState, dirty>>
  /\ UNCHANGED <<plan, lock, cmd, files, perm, events, capState, pfState, baseline, mac,
                 faults>>

\* Mutant: an anchor whose rule is not on record as loaded is not flushed.
PfDecideTrustsRecord(p) ==
  /\ At(p, "pf")
  /\ CASE "restored" \in pfState \/ pfState = {} -> Go(p, "cleaned") /\ UNCHANGED mem
       [] "unparsed" \in pfState -> CleanupError(p)
       [] OTHER -> /\ Go(p, IF "loaded" \in pfState \ {"cleared"} THEN "pfFlush" ELSE "pfCleared")
                   /\ Remember(p, "pf", pfState)
  /\ UNCHANGED <<plan, lock, cmd, evidence, marks, mac, faults>>

\* cleanup_firewall: refuse rules that the recorded marks do not explain.
PfDecide(p) ==
  /\ At(p, "pf")
  /\ LET open == pfState # {} /\ "restored" \notin pfState
         readable == "unparsed" \notin pfState
         cleared == "cleared" \in pfState
         explained == readable /\ (cleared \/ (("loaded" \in pfState) <=> pfRule))
     IN \/ ~open /\ Go(p, "cleaned") /\ UNCHANGED mem
        \/ open /\ ~explained /\ CleanupError(p)
        \/ /\ open /\ explained
           /\ Remember(p, "pf", pfState)
           /\ Go(p, IF cleared THEN "release" ELSE "pfFlush")
  /\ UNCHANGED <<plan, lock, cmd, evidence, marks, mac, faults>>

\* Flush the anchor, record it, release the enable reference, record it,
\* record restored_utc.  Whether pfctl accepts a token PF no longer knows
\* is not the controller's to say: both answers are possible.
PfRestore(p) ==
  /\ \/ /\ At(p, "pfFlush")
        /\ pfRule' = FALSE
        /\ Go(p, "pfCleared")
        /\ UNCHANGED <<mem, pfState, dirty, pfRef>>
     \/ /\ At(p, "pfCleared") /\ MayWrite /\ Written
        /\ pfState' = mem[p].pf \cup {"cleared"}
        /\ Remember(p, "pf", mem[p].pf \cup {"cleared"})
        /\ Go(p, "release")
        /\ UNCHANGED <<pfRule, pfRef>>
     \/ /\ At(p, "release")
        /\ IF "token" \in mem[p].pf /\ "released" \notin mem[p].pf
           THEN \/ pfRef' = FALSE /\ Go(p, "released") /\ UNCHANGED mem
                \/ ~pfRef /\ CleanupError(p) /\ UNCHANGED pfRef
           ELSE Go(p, "pfDone") /\ UNCHANGED <<mem, pfRef>>
        /\ UNCHANGED <<pfRule, pfState, dirty>>
     \/ /\ At(p, "released") /\ MayWrite /\ Written
        /\ pfState' = mem[p].pf \cup {"released"}
        /\ Remember(p, "pf", mem[p].pf \cup {"released"})
        /\ Go(p, "pfDone")
        /\ UNCHANGED <<pfRule, pfRef>>
     \/ /\ At(p, "pfDone") /\ MayWrite /\ Written
        /\ pfState' = mem[p].pf \cup {"restored"}
        /\ Go(p, "cleaned")
        /\ UNCHANGED <<mem, pfRule, pfRef>>
  /\ UNCHANGED <<plan, lock, cmd, files, perm, events, capState, dnsState, baseline,
                 hosts, tcpdump, faults>>

\* A command run with sudo fails, or a write is refused by a closed directory.
CleanupFails(p) ==
  /\ \/ /\ "fail" \in Faults /\ faults < MaxFaults
        /\ \/ pc[p] \in {"hostsBack", "flush", "hostsCheck", "pfFlush"}
           \/ At(p, "release") /\ "token" \in mem[p].pf /\ "released" \notin mem[p].pf
           \/ At(p, "capture") /\ tcpdump /\ "capture.pid" \in files /\ capState # "none"
           \/ At(p, "dns") /\ dnsState # {}
           \/ At(p, "pf") /\ pfState # {} /\ "restored" \notin pfState
        /\ faults' = faults + 1
     \/ /\ ~MayWrite /\ pc[p] \in {"hostsBack", "pfCleared", "released", "pfDone"}
        /\ UNCHANGED faults
  /\ CleanupError(p)
  /\ UNCHANGED <<plan, lock, cmd, evidence, marks, mac>>

\* What each caller does with the result of cleanup_attempt.
Cleaned(p) ==
  /\ At(p, "cleaned")
  /\ \/ /\ p = "prepare"
        /\ Go(p, IF mem[p].err THEN "prepErr" ELSE "stopWd")
        /\ UNCHANGED <<mem, lock>>
     \/ p # "prepare" /\ mem[p].err /\ Leave(p)
     \/ /\ p # "prepare" /\ ~mem[p].err
        /\ Go(p, IF p = "operator" /\ cmd = "cleanup" THEN "stopWd" ELSE "recorded")
        /\ UNCHANGED <<mem, lock>>
  /\ UNCHANGED <<plan, cmd, evidence, marks, mac, faults>>

---------------------------------------------------------------------------
\* finish-run, abort-run, cleanup.

\* A command is typed: find_attempt needs metadata.json.
Command(c) ==
  /\ At("operator", "idle")
  /\ "metadata.json" \in files
  /\ Concurrent \/ pc["prepare"] = "done"
  /\ cmd' = c
  /\ Go("operator", "wantLock")
  /\ UNCHANGED <<plan, lock, mem, evidence, marks, mac, faults>>

\* Mutant: the command does not take the attempt's lock.
CommandUnlocked ==
  /\ At("operator", "wantLock")
  /\ Go("operator", IF cmd = "cleanup" THEN "snapshot" ELSE "begin")
  /\ UNCHANGED <<plan, lock, cmd, mem, evidence, marks, mac, faults>>

CommandLocked ==
  /\ At("operator", "wantLock")
  /\ Acquire("operator")
  /\ Go("operator", IF cmd = "cleanup" THEN "snapshot" ELSE "begin")
  /\ UNCHANGED <<plan, cmd, mem, evidence, marks, mac, faults>>

\* Nothing on record says that prepare-run got past run_started.
PreCapture ==
  /\ {"clock-status.json", "capture.pid", "watchdog.pid"} \cap files = {}
  /\ capState = "none" /\ dnsState = {} /\ pfState = {}
  /\ Logged("run_started")
  /\ ~Logged("safari_url_launch_requested") /\ ~Logged("safari_url_opened")
  /\ ~Logged("prepare_error_detected") /\ ~Finished

\* _finish refuses a finalized attempt; abort-run has a short way when the
\* attempt never got to the capture, and needs an event log to tell; the
\* others go on to record the conditions and clean up.
CommandBegin ==
  /\ At("operator", "begin")
  /\ IF "manifest.sha256" \in files \/ (cmd = "abort" /\ events = <<>>)
     THEN Leave("operator")
     ELSE /\ Go("operator", IF cmd = "abort" /\ PreCapture THEN "preAbort" ELSE "snapshot")
          /\ UNCHANGED <<mem, lock>>
  /\ UNCHANGED <<plan, cmd, evidence, marks, mac, faults>>

\* An append that a finalized or half-finalized attempt refuses ends the
\* process with PermissionError.
LogThen(p, event, label) ==
  \/ MayAppend /\ Log(event) /\ Go(p, label) /\ UNCHANGED <<mem, lock>>
  \/ ~MayAppend /\ Leave(p) /\ UNCHANGED events

PreCaptureAbort ==
  /\ At("operator", "preAbort")
  /\ LogThen("operator", "aborted", "freeze")
  /\ UNCHANGED <<plan, cmd, files, perm, dirty, marks, mac, faults>>

\* recorded_capture_stop trusts only a stop time in capture-state.json.
RecordedStop(p) ==
  /\ At(p, "recorded")
  /\ IF capState = "stopped"
     THEN Go(p, IF p = "operator" THEN "stopWd" ELSE "stopped") /\ UNCHANGED <<mem, lock>>
     ELSE Leave(p)
  /\ UNCHANGED <<plan, cmd, evidence, marks, mac, faults>>

\* Mutant: the watchdog signals the process watchdog.pid names, itself.
StopWatchdogSuicide(p) ==
  /\ At(p, "stopWd")
  /\ LET next == IF p = "operator" /\ cmd = "cleanup" THEN "recover" ELSE "stopped"
     IN pc' = [pc EXCEPT ![p] = next, !["watchdog"] = "done"]
  /\ lock' = IF p = "watchdog" THEN "free" ELSE lock
  /\ files' = files \ {"watchdog.pid"}
  /\ UNCHANGED <<plan, cmd, mem, perm, events, dirty, marks, mac, faults>>

\* stop_watchdog: SIGTERM to the process watchdog.pid names, then remove the
\* file; the watchdog itself only removes the file.
StopWatchdog(p) ==
  /\ At(p, "stopWd")
  /\ LET next == CASE p = "watchdog" -> "freeze"
                   [] p = "operator" /\ cmd = "cleanup" -> "recover"
                   [] OTHER -> "stopped"
     IN IF "watchdog.pid" \in files /\ ~MayWrite
        THEN /\ pc' = [pc EXCEPT ![p] = IF p = "operator" THEN "idle" ELSE "done",
                                 !["watchdog"] = "done"]
             /\ mem' = [mem EXCEPT ![p] = Blank]
             /\ lock' = "free"
             /\ UNCHANGED <<files, dirty>>
        ELSE /\ pc' = IF "watchdog.pid" \in files /\ p # "watchdog"
                      THEN [pc EXCEPT ![p] = next, !["watchdog"] = "done"]
                      ELSE [pc EXCEPT ![p] = next]
             /\ files' = files \ {"watchdog.pid"}
             /\ dirty' = (dirty \/ ("watchdog.pid" \in files /\ perm # "open"))
             /\ UNCHANGED <<mem, lock>>
  /\ UNCHANGED <<plan, cmd, perm, events, marks, mac, faults>>

\* The capture_stopped event; prepare-run skips it when no capture started.
LogStopped(p) ==
  /\ At(p, "stopped")
  /\ IF p = "prepare" /\ capState = "none"
     THEN Go(p, "finished") /\ UNCHANGED <<events, mem, lock>>
     ELSE IF capState = "stopped" THEN LogThen(p, "capture_stopped", "finished")
          ELSE Leave(p) /\ UNCHANGED events
  /\ UNCHANGED <<plan, cmd, files, perm, dirty, marks, mac, faults>>

\* The run_finished event with the attempt's outcome.
OutcomesOf(p) ==
  IF p = "prepare" THEN {"prepare_error"}
  ELSE IF p = "watchdog" THEN {"timeout"}
  ELSE IF cmd = "abort" THEN {"aborted"} ELSE {"success", "error", "timeout"}

LogFinished(p) ==
  /\ At(p, "finished")
  /\ \E o \in OutcomesOf(p) : LogThen(p, o, IF p = "watchdog" THEN "stopWd" ELSE "freeze")
  /\ UNCHANGED <<plan, cmd, files, perm, dirty, marks, mac, faults>>

\* finalize_recovered_prepare_error, after a cleanup that succeeded.
Recover ==
  /\ At("operator", "recover")
  /\ IF "manifest.sha256" \notin files /\ Logged("prepare_error_detected") /\ ~Finished
     THEN LogThen("operator", "prepare_error", "freeze")
     ELSE Leave("operator") /\ UNCHANGED events
  /\ UNCHANGED <<plan, cmd, files, perm, dirty, marks, mac, faults>>

\* prepare-run's handler when its own cleanup failed.
PrepareErrorDetected ==
  /\ At("prepare", "prepErr")
  /\ IF MayAppend THEN Log("prepare_error_detected") ELSE UNCHANGED events
  /\ Leave("prepare")
  /\ UNCHANGED <<plan, cmd, files, perm, dirty, marks, mac, faults>>

---------------------------------------------------------------------------
\* Mutant: the artifacts are hashed and not made read-only.
FreezeWithoutChmod(p) ==
  /\ At(p, "freeze")
  /\ IF "manifest.sha256" \in files
     THEN Leave(p) /\ UNCHANGED dirty
     ELSE dirty' = FALSE /\ Go(p, "manifest") /\ UNCHANGED <<mem, lock>>
  /\ UNCHANGED <<plan, cmd, files, perm, events, marks, mac, faults>>

\* finalize_attempt: hash every artifact and make it read-only, write the
\* manifest, write its sidecar, close the directory.
FreezeArtifacts(p) ==
  /\ At(p, "freeze")
  /\ IF "manifest.sha256" \in files
     THEN Leave(p) /\ UNCHANGED <<perm, dirty>>
     ELSE perm' = "frozen" /\ dirty' = FALSE /\ Go(p, "manifest") /\ UNCHANGED <<mem, lock>>
  /\ UNCHANGED <<plan, cmd, files, events, marks, mac, faults>>

WriteManifest(p) ==
  /\ \/ At(p, "manifest") /\ files' = files \cup {"manifest.sha256"} /\ Go(p, "sidecar")
     \/ At(p, "sidecar") /\ files' = files \cup {"manifest.sha256.sha256"} /\ Go(p, "close")
  /\ UNCHANGED <<plan, lock, cmd, mem, perm, events, dirty, marks, mac, faults>>

CloseDirectory(p) ==
  /\ At(p, "close")
  /\ perm' = "closed"
  /\ Leave(p)
  /\ UNCHANGED <<plan, cmd, files, events, dirty, marks, mac, faults>>

---------------------------------------------------------------------------
\* The watchdog and the environment.

\* The deadline passes, or the watchdog cannot refresh its sudo timestamp and
\* exits; at the deadline it looks at the manifest, takes the lock, looks again.
WatchdogWakes ==
  /\ At("watchdog", "waiting")
  /\ \/ /\ Concurrent \/ pc["prepare"] = "done"
        /\ Go("watchdog", IF "manifest.sha256" \in files THEN "done" ELSE "wantLock")
        /\ UNCHANGED faults
     \/ /\ "fail" \in Faults /\ faults < MaxFaults
        /\ Go("watchdog", "done")
        /\ faults' = faults + 1
  /\ UNCHANGED <<plan, lock, cmd, mem, evidence, marks, mac>>

\* Mutant: the watchdog goes on without the attempt's lock.
WatchdogUnlocked ==
  /\ At("watchdog", "wantLock")
  /\ Go("watchdog", IF "manifest.sha256" \in files THEN "done" ELSE "snapshot")
  /\ UNCHANGED <<plan, lock, cmd, mem, evidence, marks, mac, faults>>

WatchdogLocked ==
  /\ At("watchdog", "wantLock")
  /\ lock = "free"
  /\ IF "manifest.sha256" \in files
     THEN Go("watchdog", "done") /\ UNCHANGED lock
     ELSE Go("watchdog", "snapshot") /\ lock' = "watchdog"
  /\ UNCHANGED <<plan, cmd, mem, evidence, marks, mac, faults>>

\* A running tcpdump still writes client.pcap, whose descriptor it holds,
\* after the file has been hashed.
CaptureGrows ==
  /\ tcpdump /\ perm # "open" /\ ~dirty
  /\ dirty' = TRUE
  /\ UNCHANGED <<plan, procs, files, perm, events, marks, mac, faults>>

\* Another program edits /etc/hosts, but not between the controller's read of it
\* and the install that follows: the two are not atomic, and such an edit is lost.
BetweenReadAndInstall ==
  \/ pc["prepare"] \in {"hostsSave", "hostsFile", "hostsInstall"}
  \/ \E p \in Proc : pc[p] = "hostsBack"

EditHosts ==
  /\ hosts.version < MaxEdits
  /\ ~BetweenReadAndInstall
  /\ hosts' = [hosts EXCEPT !.version = @ + 1]
  /\ UNCHANGED <<plan, procs, evidence, marks, tcpdump, pfRule, pfRef, faults>>

\* A process is killed; the machine restarts, which ends the capture and
\* clears PF, and keeps /etc/hosts and the attempt directory.
Kill(p) ==
  /\ "kill" \in Faults /\ faults < MaxFaults
  /\ pc[p] \notin {"idle", "done"}
  /\ Leave(p)
  /\ faults' = faults + 1
  /\ UNCHANGED <<plan, cmd, evidence, marks, mac>>

Reboot ==
  /\ "reboot" \in Faults /\ faults < MaxFaults
  /\ pc["prepare"] # "idle"
  /\ pc' = [p \in Proc |-> IF p = "operator" THEN "idle" ELSE "done"]
  /\ mem' = [p \in Proc |-> Blank]
  /\ lock' = "free"
  /\ tcpdump' = FALSE /\ pfRule' = FALSE /\ pfRef' = FALSE
  /\ faults' = faults + 1
  /\ UNCHANGED <<plan, cmd, evidence, marks, hosts>>

---------------------------------------------------------------------------
\* The specification.

PrepareStep ==
  \/ PrepareRecord \/ PrepareCapture \/ PfEnable \/ PfTokenUnparsed \/ PfApply
  \/ HostsRead \/ HostsSave \/ HostsInstall \/ HostsMark
  \/ PrepareLaunch \/ StartWatchdog \/ OpenSafari
  \/ PrepareFails \/ PrepareHandler \/ PrepareErrorDetected

CleanupStep(p) ==
  \/ SnapshotPf(p) \/ StopCapture(p) \/ RecordCaptureStop(p) \/ RemoveCapturePid(p)
  \/ HostsDecide(p) \/ HostsRestore(p) \/ HostsConfirm(p)
  \/ PfDecide(p) \/ PfRestore(p) \/ CleanupFails(p) \/ Cleaned(p)

ClosingStep(p) ==
  \/ RecordedStop(p) \/ StopWatchdog(p) \/ LogStopped(p) \/ LogFinished(p)
  \/ FreezeArtifacts(p) \/ WriteManifest(p) \/ CloseDirectory(p)

OperatorStep == CommandLocked \/ CommandBegin \/ PreCaptureAbort \/ Recover
WatchdogStep == WatchdogWakes \/ WatchdogLocked
ProcessStep(p) ==
  \/ p = "prepare" /\ PrepareStep
  \/ p = "operator" /\ OperatorStep
  \/ p = "watchdog" /\ WatchdogStep
  \/ CleanupStep(p)
  \/ ClosingStep(p)

Environment ==
  \/ Prepare
  \/ \E c \in Commands : Command(c)
  \/ Interrupt \/ CaptureGrows \/ EditHosts \/ Reboot
  \/ \E p \in Proc : Kill(p)

Next == Environment \/ \E p \in Proc : ProcessStep(p)

Spec == Init /\ [][Next]_vars

\* A process that is not killed goes on, the deadline passes; nobody has to
\* type a command and nothing has to fail.
Fairness == \A p \in Proc : WF_vars(ProcessStep(p))
FairSpec == Spec /\ Fairness

---------------------------------------------------------------------------
\* Properties.

MemType == [err : BOOLEAN, priv : BOOLEAN, dns : SUBSET DnsMarks,
            pf : SUBSET PfMarks, version : Nat]

\* Every variable has its type.  In particular dns-pin-state.json never holds
\* an installation that its own earlier write has not saved the baseline for.
TypeOK ==
  /\ plan \in Plans
  /\ pc \in [Proc -> Labels]
  /\ lock \in Proc \cup {"free"}
  /\ cmd \in Commands
  /\ mem \in [Proc -> MemType]
  /\ files \subseteq Artifacts
  /\ perm \in {"open", "frozen", "closed"}
  /\ events \in Seq(Events)
  /\ capState \in {"none", "started", "stopped"}
  /\ dnsState \in DnsStates
  /\ pfState \subseteq PfMarks
  /\ baseline \in Nat
  /\ dirty \in BOOLEAN
  /\ hosts \in [pin : BOOLEAN, version : Nat]
  /\ tcpdump \in BOOLEAN /\ pfRule \in BOOLEAN /\ pfRef \in BOOLEAN
  /\ faults \in Nat

Sealed == "manifest.sha256" \in files

\* Wherever a process stops, what it changed on the Mac is on record first: a
\* pinned /etc/hosts has its baseline in dns-pin-state.json, a loaded rule has
\* a firewall-state.json (apply_dns_pin and apply_firewall save, then act).
WriteAhead ==
  /\ hosts.pin => "saved" \in dnsState
  /\ pfRule => pfState # {}

\* cleanup_attempt, finalize_attempt and everything between them run only
\* in the holder of the attempt's lock, whichever of the three processes it is.
Exclusive == \A p \in Proc : pc[p] \in LockedLabels <=> lock = p

\* Once the manifest is written the event log never changes, whichever late
\* command, watchdog or error handler still runs (append_jsonl and the 0440
\* that finalize_attempt sets before it writes the manifest).
LogClosed == [][Sealed => events' = events]_vars

Restored(state) == state = {} \/ "restored" \in state

\* An attempt that carries its manifest's sidecar still matches the manifest.
EvidenceIntact == "manifest.sha256.sha256" \in files => ~dirty

\* finalized_attempt_outcome: a finalized attempt has exactly one run_finished.
OneOutcome ==
  Sealed => Cardinality({i \in DOMAIN events : events[i] \in Outcomes}) = 1

\* A finalized attempt has undone everything it did to the Mac, as the retained
\* evidence claims with its cleanup actions; with a firewall-state.json it has
\* given its PF enable reference back too, also when the token could not be
\* parsed at first.
SealedIsRestored ==
  Sealed => /\ ~hosts.pin /\ ~pfRule /\ ~tcpdump
            /\ pfState # {} => ~pfRef

\* The attempt is finalized in the end even when the operator walks away: the
\* watchdog, once running, finishes it, unless a cleanup command stops it.
WatchdogSeals ==
  pc["watchdog"] = "waiting" ~>
    (Sealed \/ (cmd = "cleanup" /\ pc["operator"] # "idle"))

\* What prepare-run did last and was interrupted before it could record: every
\* later cleanup refuses to touch what the records do not explain.
Unexplained ==
  \/ "capture.pid" \in files /\ capState = "none"
  \/ hosts.pin /\ "installed" \notin dnsState
  \/ pfRule /\ "loaded" \notin pfState

\* The operator who, among other commands, keeps typing abort-run gets the
\* attempt finalized; only what is left unexplained for ever can prevent it.
AbortSeals ==
  []<><<Command("abort")>>_vars =>
    ("metadata.json" \in files ~> (Sealed \/ []Unexplained))

=============================================================================

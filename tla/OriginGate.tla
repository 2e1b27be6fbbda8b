------------------------------ MODULE OriginGate ------------------------------
(***************************************************************************)
(* The origin gate of one session: the root helper on the server           *)
(* (icpr-h3-origin-gate), the nftables table and the systemd timer it      *)
(* works on, and the controller's commands that reach it over SSH          *)
(* (server_gate.py, cmd_gate_* in protocol_diag.py).                       *)
(*                                                                         *)
(* Each command runs a helper of its own, one nft or systemctl call per    *)
(* step, and nothing keeps two helpers apart.  The operator waits for the  *)
(* answer to a command; a client that has waited for 30 seconds gives up,  *)
(* which its helper does not notice.                                       *)
(***************************************************************************)
EXTENDS Integers, FiniteSets

CONSTANTS
  Helpers,    \* the helper processes that may run at once
  Life,       \* TIMEOUT_SECONDS in units of the model's clock
  Minimum,    \* minimum_remaining_seconds in the same unit
  Faults,     \* the kinds of fault the environment may inject, each once
  MaxFaults   \* bound: how many faults a behaviour contains

FaultKinds == {"fail", "kill", "reboot", "deaf"}

ASSUME GateAssumption ==
  /\ Life \in Nat \ {0} /\ Minimum \in 1..Life
  /\ Faults \subseteq FaultKinds /\ MaxFaults \in Nat

VARIABLES
  rules,     \* drop rules in the session's table, 0 when there is no table
  left,      \* what is left of the target's timeout, 0 when it is not in the set
  loaded,    \* systemd has loaded the rollback timer
  timer,     \* what is left of it; loaded with 0 left, the rollback service runs
  pc,        \* the call each helper makes next
  waiting,   \* helpers whose client still waits for the answer
  files,     \* what the client has written under reference/gates/<session>
  faults     \* the faults that have happened

server == <<rules, left, loaded, timer>>
vars == <<server, pc, waiting, files, faults>>

Commands == {"validate", "arm", "status", "disarm"}
Calls == {"validate", "status", "arm", "timer?", "batch", "systemd-run", "active?",
          "insert", "armStatus", "undoBatch", "undoTable", "undoTimer",
          "disarm", "deleteElement", "deleteTable", "stopTimer", "gone?"}

Init ==
  /\ rules = 0 /\ left = 0 /\ loaded = FALSE /\ timer = 0
  /\ pc = [h \in Helpers |-> "idle"] /\ waiting = {}
  /\ files = {} /\ faults = {}

At(h, call) == pc[h] = call
Go(h, call) == pc' = [pc EXCEPT ![h] = call]
Die(h) == Go(h, "idle") /\ waiting' = waiting \ {h} /\ UNCHANGED files
Fault(kind) ==
  /\ kind \in Faults \ faults /\ Cardinality(faults) < MaxFaults
  /\ faults' = faults \cup {kind}

---------------------------------------------------------------------------
\* The client.

\* A command is typed; arm needs the validation evidence.
Type(c) ==
  /\ waiting = {}
  /\ c = "arm" => "validation.json" \in files
  /\ \E h \in Helpers :
       /\ At(h, "idle") /\ Go(h, c)
       /\ waiting' = waiting \cup {h}
  /\ UNCHANGED <<server, files, faults>>

\* The helper answers; a client that still waits writes the evidence down.
Answer(h, file) ==
  /\ Go(h, "idle")
  /\ files' = IF h \in waiting THEN files \cup {file} ELSE files
  /\ waiting' = waiting \ {h}

\* validate_gate_status: one exact rule, the target with enough of its timeout
\* left, the timer active.
ValidStatus == rules = 1 /\ left >= Minimum /\ loaded /\ timer > 0

\* subprocess.run raises TimeoutExpired.
GiveUp(h) ==
  /\ h \in waiting /\ pc[h] # "idle"
  /\ Fault("deaf")
  /\ waiting' = waiting \ {h}
  /\ UNCHANGED <<server, pc, files>>

---------------------------------------------------------------------------
\* The helper.

\* validate_gate: refuses what is stale, changes nothing.
Validate(h) ==
  /\ At(h, "validate")
  /\ IF rules = 0 /\ ~loaded THEN Answer(h, "validation.json") ELSE Die(h)
  /\ UNCHANGED <<server, faults>>

\* Mutant: arming a gate that is there renews its target.
ArmRenews(h) ==
  /\ \/ At(h, "arm") /\ Go(h, IF rules = 0 THEN "timer?" ELSE "active?") /\ UNCHANGED <<waiting, files>>
     \/ At(h, "timer?") /\ (IF ~loaded THEN Go(h, "batch") /\ UNCHANGED <<waiting, files>> ELSE Die(h))
  /\ UNCHANGED <<server, faults>>

\* arm_gate refuses what is stale, in two calls.
ArmChecks(h) ==
  /\ \/ At(h, "arm") /\ (IF rules = 0 THEN Go(h, "timer?") /\ UNCHANGED <<waiting, files>> ELSE Die(h))
     \/ At(h, "timer?") /\ (IF ~loaded THEN Go(h, "batch") /\ UNCHANGED <<waiting, files>> ELSE Die(h))
  /\ UNCHANGED <<server, faults>>

\* The batch creates what is missing and appends the rule in any case.
ApplyBatch(h) ==
  /\ At(h, "batch")
  /\ rules' = rules + 1
  /\ Go(h, "systemd-run")
  /\ UNCHANGED <<left, loaded, timer, waiting, files, faults>>

\* Mutant: the target is inserted first, the timer armed afterwards.
ArmTimerLast(h) ==
  /\ \/ /\ At(h, "systemd-run")
        /\ Go(h, IF rules = 0 THEN "undoTable" ELSE "active?")
        /\ left' = (IF rules = 0 THEN left ELSE Life)
        /\ UNCHANGED <<loaded, timer>>
     \/ /\ At(h, "active?")
        /\ IF loaded THEN Go(h, "undoBatch") /\ UNCHANGED <<loaded, timer>>
           ELSE Go(h, "insert") /\ loaded' = TRUE /\ timer' = Life
        /\ UNCHANGED left
  /\ UNCHANGED <<rules, waiting, files, faults>>

\* systemd-run refuses a unit that is loaded; the timer must then be active.
ArmTimer(h) ==
  /\ \/ At(h, "systemd-run")
        /\ IF loaded THEN Go(h, "undoBatch") /\ UNCHANGED <<loaded, timer>>
           ELSE Go(h, "active?") /\ loaded' = TRUE /\ timer' = Life
     \/ At(h, "active?") /\ UNCHANGED <<loaded, timer>>
        /\ Go(h, IF loaded /\ timer > 0 THEN "insert" ELSE "undoTable")
  /\ UNCHANGED <<rules, left, waiting, files, faults>>

\* Mutant: a missing table goes unnoticed.
InsertAnyway(h) ==
  /\ At(h, "insert")
  /\ Go(h, "armStatus") /\ left' = Life
  /\ UNCHANGED <<rules, loaded, timer, waiting, files, faults>>

\* The element is added with the whole timeout.
InsertTarget(h) ==
  /\ At(h, "insert")
  /\ IF rules = 0 THEN Go(h, "undoTable") /\ UNCHANGED left
     ELSE Go(h, "armStatus") /\ left' = Life
  /\ UNCHANGED <<rules, loaded, timer, waiting, files, faults>>

\* After an error the helper deletes the table and, unless it was systemd-run
\* that failed, stops the timer.
UndoArm(h) ==
  /\ pc[h] \in {"undoBatch", "undoTable", "undoTimer"}
  /\ IF At(h, "undoTimer")
     THEN loaded' = FALSE /\ timer' = 0 /\ UNCHANGED <<rules, left>>
     ELSE rules' = 0 /\ left' = 0 /\ UNCHANGED <<loaded, timer>>
  /\ IF At(h, "undoTable") THEN Go(h, "undoTimer") /\ UNCHANGED <<waiting, files>> ELSE Die(h)
  /\ UNCHANGED faults

\* emit_status; the client accepts a valid status only.
EmitStatus(h) ==
  /\ pc[h] \in {"status", "armStatus"}
  /\ IF ValidStatus
     THEN Answer(h, IF At(h, "status") THEN "status.json" ELSE "arm.json")
     ELSE Die(h)
  /\ UNCHANGED <<server, faults>>

\* Mutant: the last status must be a valid one.
DisarmValid(h) ==
  /\ \/ At(h, "disarm")
        /\ (IF ValidStatus THEN Go(h, "deleteElement") /\ UNCHANGED <<waiting, files>> ELSE Die(h))
        /\ UNCHANGED server
     \/ At(h, "deleteElement") /\ left' = 0 /\ Go(h, "deleteTable")
        /\ UNCHANGED <<rules, loaded, timer, waiting, files>>
     \/ At(h, "deleteTable") /\ rules' = 0 /\ left' = 0 /\ UNCHANGED <<loaded, timer>>
        /\ IF rules = 0 THEN Die(h) ELSE Go(h, "stopTimer") /\ UNCHANGED <<waiting, files>>
     \/ At(h, "stopTimer") /\ loaded' = FALSE /\ timer' = 0 /\ Go(h, "gone?")
        /\ UNCHANGED <<rules, left, waiting, files>>
     \/ At(h, "gone?") /\ (IF rules = 0 THEN Answer(h, "disarm.json") ELSE Die(h))
        /\ UNCHANGED server
  /\ UNCHANGED faults

\* disarm_gate: the last status needs the table only; then target, table and
\* timer go, in this order.
Disarm(h) ==
  /\ \/ At(h, "disarm")
        /\ (IF rules > 0 THEN Go(h, "deleteElement") /\ UNCHANGED <<waiting, files>> ELSE Die(h))
        /\ UNCHANGED server
     \/ At(h, "deleteElement") /\ left' = 0 /\ Go(h, "deleteTable")
        /\ UNCHANGED <<rules, loaded, timer, waiting, files>>
     \/ At(h, "deleteTable") /\ rules' = 0 /\ left' = 0 /\ UNCHANGED <<loaded, timer>>
        /\ IF rules = 0 THEN Die(h) ELSE Go(h, "stopTimer") /\ UNCHANGED <<waiting, files>>
     \/ At(h, "stopTimer") /\ loaded' = FALSE /\ timer' = 0 /\ Go(h, "gone?")
        /\ UNCHANGED <<rules, left, waiting, files>>
     \/ At(h, "gone?") /\ (IF rules = 0 THEN Answer(h, "disarm.json") ELSE Die(h))
        /\ UNCHANGED server
  /\ UNCHANGED faults

\* A call that changes the server fails; sudo and nft exit without effect.
Fails(h) ==
  /\ Fault("fail")
  /\ \/ pc[h] \in {"validate", "timer?", "batch", "armStatus", "status", "deleteTable"} /\ Die(h)
     \/ /\ pc[h] \in {"systemd-run", "active?", "insert"}
        /\ Go(h, IF At(h, "systemd-run") THEN "undoBatch" ELSE "undoTable")
        /\ UNCHANGED <<waiting, files>>
     \/ At(h, "stopTimer") /\ Go(h, "gone?") /\ UNCHANGED <<waiting, files>>
  /\ UNCHANGED server

---------------------------------------------------------------------------
\* The server.

\* A helper's calls take seconds, a unit of the clock many of them.
Tick ==
  /\ \A h \in Helpers : At(h, "idle")
  /\ left > 0 \/ timer > 0
  /\ ~(loaded /\ timer = 0)
  /\ left' = IF left > 0 THEN left - 1 ELSE 0
  /\ timer' = IF timer > 0 THEN timer - 1 ELSE 0
  /\ UNCHANGED <<rules, loaded, pc, waiting, files, faults>>

\* The timer starts rollback_gate, which removes the target and leaves the
\* table; systemd forgets the transient unit.
Rollback ==
  /\ loaded /\ timer = 0
  /\ left' = 0 /\ loaded' = FALSE
  /\ UNCHANGED <<rules, timer, pc, waiting, files, faults>>

Kill(h) ==
  /\ pc[h] # "idle" /\ Fault("kill")
  /\ Die(h)
  /\ UNCHANGED server

Reboot ==
  /\ Fault("reboot")
  /\ rules' = 0 /\ left' = 0 /\ loaded' = FALSE /\ timer' = 0
  /\ pc' = [h \in Helpers |-> "idle"] /\ waiting' = {}
  /\ UNCHANGED files

HelperStep(h) ==
  \/ Validate(h) \/ ArmChecks(h) \/ ApplyBatch(h) \/ ArmTimer(h) \/ InsertTarget(h)
  \/ UndoArm(h) \/ EmitStatus(h) \/ Disarm(h)

Next ==
  \/ \E c \in Commands : Type(c)
  \/ \E h \in Helpers : HelperStep(h) \/ GiveUp(h) \/ Fails(h) \/ Kill(h)
  \/ Tick \/ Rollback \/ Reboot

Spec == Init /\ [][Next]_vars

\* Helpers go on, time passes between commands, systemd starts what is due.
FairSpec ==
  Spec /\ SF_vars(Tick) /\ WF_vars(Rollback) /\ \A h \in Helpers : WF_vars(HelperStep(h))

---------------------------------------------------------------------------
\* Properties.

\* Every variable has its type; a target lies in a table, and what a timer has
\* left it has left while it is loaded.
TypeOK ==
  /\ rules \in Nat /\ left \in 0..Life /\ loaded \in BOOLEAN /\ timer \in 0..Life
  /\ pc \in [Helpers -> Calls \cup {"idle"}] /\ waiting \subseteq Helpers
  /\ files \subseteq {"validation.json", "arm.json", "status.json", "disarm.json"}
  /\ faults \subseteq Faults
  /\ left > 0 => rules > 0
  /\ timer > 0 => loaded

\* arm "confirms an independent 1,800-second systemd rollback timer, and only
\* then inserts the timeout-bound target" (README.md of h3-required): whatever
\* call fails and wherever a helper dies, a target never outlives its timer.
\* Two helpers at work at once can break that: a disarm whose client has given
\* up stops the timer that a later arm has started.
TargetIsTimed == "deaf" \notin faults => (left > 0 => loaded /\ left <= timer)

\* The gate is the lease that the series relies on: whatever overlaps, fails or
\* is killed, a block is never prolonged, never begins beside another, and ends.
Lease == INSTANCE GateLease WITH table <- rules > 0
KeepsLease == Lease!Spec

\* The operator who keeps typing validate, disarm and arm has the gate armed in
\* the end and the evidence of it, whatever a helper or a restart has left.
GetsArmed ==
  (\A c \in {"validate", "disarm", "arm"} : []<><<Type(c)>>_vars) => <>("arm.json" \in files)

=============================================================================

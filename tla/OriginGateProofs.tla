--------------------------- MODULE OriginGateProofs ---------------------------
(***************************************************************************)
(* Theorems about OriginGate, for any number of helpers, any timeout and   *)
(* any set of faults.                                                      *)
(***************************************************************************)
EXTENDS OriginGate, TLAPS

USE GateAssumption

---------------------------------------------------------------------------
\* Types.

LEMMA TypeInit == ASSUME Init PROVE TypeOK
<1>1. loaded \in BOOLEAN BY DEF Init
<1> QED BY <1>1 DEF Init, TypeOK

LEMMA TypeHelper ==
  ASSUME TypeOK, NEW h \in Helpers, HelperStep(h)
  PROVE  TypeOK'
<1> USE DEF TypeOK, server, At, Go, Die, Answer, Calls
<1>1. CASE Validate(h) BY <1>1 DEF Validate
<1>2. CASE ArmChecks(h) BY <1>2 DEF ArmChecks
<1>3. CASE ApplyBatch(h) BY <1>3 DEF ApplyBatch
<1>4. CASE ArmTimer(h)
  <2>1. loaded' \in BOOLEAN BY <1>4 DEF ArmTimer
  <2> QED BY <1>4, <2>1 DEF ArmTimer
<1>5. CASE InsertTarget(h) BY <1>5 DEF InsertTarget
<1>6. CASE UndoArm(h)
  <2>1. loaded' \in BOOLEAN BY <1>6 DEF UndoArm
  <2>2. timer' \in 0..Life /\ (timer' > 0 => loaded') BY <1>6 DEF UndoArm
  <2>3. rules' \in Nat /\ left' \in 0..Life /\ (left' > 0 => rules' > 0) BY <1>6 DEF UndoArm
  <2>4. pc' \in [Helpers -> Calls \cup {"idle"}] BY <1>6 DEF UndoArm
  <2>5. waiting' \subseteq Helpers /\ UNCHANGED <<files, faults>> BY <1>6 DEF UndoArm
  <2> QED BY <2>1, <2>2, <2>3, <2>4, <2>5
<1>7. CASE EmitStatus(h) BY <1>7 DEF EmitStatus
<1>8. CASE Disarm(h)
  <2>1. loaded' \in BOOLEAN BY <1>8 DEF Disarm
  <2>2. UNCHANGED <<loaded, timer>> \/ (loaded' = FALSE /\ timer' = 0) BY <1>8 DEF Disarm
  <2>3. timer' \in 0..Life /\ (timer' > 0 => loaded') BY <2>2
  <2>4. rules' \in Nat /\ left' \in 0..Life /\ (left' > 0 => rules' > 0) BY <1>8 DEF Disarm
  <2> QED BY <1>8, <2>1, <2>3, <2>4 DEF Disarm
<1> QED
  BY <1>1, <1>2, <1>3, <1>4, <1>5, <1>6, <1>7, <1>8 DEF HelperStep

LEMMA TypeNext == ASSUME TypeOK, [Next]_vars PROVE TypeOK'
<1> USE DEF TypeOK, Go, Die, Fault, server
<1>1. ASSUME NEW c \in Commands, Type(c) PROVE TypeOK'
  BY <1>1 DEF Type, Commands, Calls
<1>2. ASSUME NEW h \in Helpers, HelperStep(h) PROVE TypeOK'
  BY <1>2, TypeHelper
<1>3. ASSUME NEW h \in Helpers, GiveUp(h) PROVE TypeOK'
  BY <1>3 DEF GiveUp
<1>4. ASSUME NEW h \in Helpers, Fails(h) PROVE TypeOK'
  BY <1>4 DEF Fails, Calls
<1>5. ASSUME NEW h \in Helpers, Kill(h) PROVE TypeOK'
  BY <1>5 DEF Kill
<1>6. CASE Tick BY <1>6 DEF Tick
<1>7. CASE Rollback
  <2>1. loaded' \in BOOLEAN BY <1>7 DEF Rollback
  <2> QED BY <1>7, <2>1 DEF Rollback
<1>8. CASE Reboot
  <2>1. loaded' \in BOOLEAN BY <1>8 DEF Reboot
  <2> QED BY <1>8, <2>1 DEF Reboot
<1>9. CASE UNCHANGED vars BY <1>9 DEF vars
<1> QED BY <1>1, <1>2, <1>3, <1>4, <1>5, <1>6, <1>7, <1>8, <1>9 DEF Next

\* Every variable keeps its type; a target lies in a table, and only a loaded
\* timer has time left.
THEOREM TypeCorrect == Spec => []TypeOK
  BY TypeInit, TypeNext, PTL DEF Spec

---------------------------------------------------------------------------
\* The lease.

Arming == {"timer?", "batch", "systemd-run", "active?", "insert"}

\* While a helper is arming no time passes: a target that another one has
\* inserted in the meantime has all of its timeout left.
FreshTarget == \A h \in Helpers : pc[h] \in Arming => left \in {0, Life}

\* Only a client that has given up leaves a helper at work behind it.
OneHelper == "deaf" \notin faults => \A h \in Helpers : ~At(h, "idle") => waiting = {h}

\* Before the target is inserted the timer has just been started, and the
\* target is gone before the timer is stopped.
TimerAround ==
  "deaf" \notin faults =>
    \A h \in Helpers :
      /\ pc[h] \in {"active?", "insert"} => loaded /\ timer = Life
      /\ pc[h] \in {"undoTimer", "stopTimer"} => left = 0

\* FreshTarget needs nothing but the types.
LEMMA FreshHelper ==
  ASSUME TypeOK, FreshTarget, NEW h \in Helpers, HelperStep(h)
  PROVE  FreshTarget'
<1> SUFFICES ASSUME NEW g \in Helpers, pc'[g] \in Arming PROVE left' \in {0, Life}
  BY DEF FreshTarget
<1> USE DEF TypeOK, FreshTarget, Arming, server, At, Go, Die, Answer
<1>1. CASE Validate(h) BY <1>1 DEF Validate
<1>2. CASE ArmChecks(h)
  <2>1. UNCHANGED <<rules, left>> /\ (pc'[h] \in Arming => rules = 0 \/ pc[h] \in Arming)
    BY <1>2 DEF ArmChecks
  <2>2. g # h => pc'[g] = pc[g] BY <1>2 DEF ArmChecks
  <2> QED BY <2>1, <2>2
<1>3. CASE ApplyBatch(h) BY <1>3 DEF ApplyBatch
<1>4. CASE ArmTimer(h) BY <1>4 DEF ArmTimer
<1>5. CASE InsertTarget(h) BY <1>5 DEF InsertTarget
<1>6. CASE UndoArm(h) BY <1>6 DEF UndoArm
<1>7. CASE EmitStatus(h) BY <1>7 DEF EmitStatus
<1>8. CASE Disarm(h) BY <1>8 DEF Disarm
<1> QED
  BY <1>1, <1>2, <1>3, <1>4, <1>5, <1>6, <1>7, <1>8 DEF HelperStep

LEMMA FreshNext ==
  ASSUME TypeOK, FreshTarget, [Next]_vars
  PROVE  FreshTarget'
<1> USE DEF TypeOK, FreshTarget, Arming, At, Go, Die, server
<1>1. ASSUME NEW c \in Commands, Type(c) PROVE FreshTarget'
  BY <1>1 DEF Type, Commands
<1>2. ASSUME NEW h \in Helpers, HelperStep(h) PROVE FreshTarget'
  BY <1>2, FreshHelper
<1>3. ASSUME NEW h \in Helpers, GiveUp(h) PROVE FreshTarget'
  BY <1>3 DEF GiveUp
<1>4. ASSUME NEW h \in Helpers, Fails(h) PROVE FreshTarget'
  BY <1>4 DEF Fails
<1>5. ASSUME NEW h \in Helpers, Kill(h) PROVE FreshTarget'
  BY <1>5 DEF Kill
<1>6. CASE Tick BY <1>6 DEF Tick
<1>7. CASE Rollback BY <1>7 DEF Rollback
<1>8. CASE Reboot BY <1>8 DEF Reboot
<1>9. CASE UNCHANGED vars BY <1>9 DEF vars
<1> QED BY <1>1, <1>2, <1>3, <1>4, <1>5, <1>6, <1>7, <1>8, <1>9 DEF Next

\* A helper's call does to the lease what a step of GateLease does, or nothing:
\* a second insertion finds either no target or one that is as fresh.
LEMMA LeaseHelper ==
  ASSUME TypeOK, FreshTarget, NEW h \in Helpers, HelperStep(h)
  PROVE  [Lease!Next]_(Lease!lease)
<1> USE DEF TypeOK, Lease!Next, Lease!lease, server, At, Go, Die
<1>1. CASE Validate(h) BY <1>1 DEF Validate
<1>2. CASE ArmChecks(h) BY <1>2 DEF ArmChecks
<1>3. CASE ApplyBatch(h) BY <1>3 DEF ApplyBatch, Lease!Create
<1>4. CASE ArmTimer(h) BY <1>4 DEF ArmTimer
<1>5. CASE InsertTarget(h)
  <2>1. left \in {0, Life} BY <1>5 DEF InsertTarget, FreshTarget, Arming
  <2> QED BY <1>5, <2>1 DEF InsertTarget, Lease!Block
<1>6. CASE UndoArm(h) BY <1>6 DEF UndoArm, Lease!Remove
<1>7. CASE EmitStatus(h) BY <1>7 DEF EmitStatus
<1>8. CASE Disarm(h) BY <1>8 DEF Disarm, Lease!Lift, Lease!Remove
<1> QED
  BY <1>1, <1>2, <1>3, <1>4, <1>5, <1>6, <1>7, <1>8 DEF HelperStep

LEMMA LeaseNext ==
  ASSUME TypeOK, FreshTarget, [Next]_vars
  PROVE  [Lease!Next]_(Lease!lease)
<1> USE DEF TypeOK, Lease!Next, Lease!lease, server
<1>1. ASSUME NEW c \in Commands, Type(c) PROVE [Lease!Next]_(Lease!lease)
  BY <1>1 DEF Type
<1>2. ASSUME NEW h \in Helpers, HelperStep(h) PROVE [Lease!Next]_(Lease!lease)
  BY <1>2, LeaseHelper
<1>3. ASSUME NEW h \in Helpers, GiveUp(h) PROVE [Lease!Next]_(Lease!lease)
  BY <1>3 DEF GiveUp
<1>4. ASSUME NEW h \in Helpers, Fails(h) PROVE [Lease!Next]_(Lease!lease)
  BY <1>4 DEF Fails
<1>5. ASSUME NEW h \in Helpers, Kill(h) PROVE [Lease!Next]_(Lease!lease)
  BY <1>5 DEF Kill
<1>6. CASE Tick BY <1>6 DEF Tick, Lease!Pass
<1>7. CASE Rollback BY <1>7 DEF Rollback, Lease!Lift
<1>8. CASE Reboot BY <1>8 DEF Reboot, Lease!Remove
<1>9. CASE UNCHANGED vars BY <1>9 DEF vars
<1> QED BY <1>1, <1>2, <1>3, <1>4, <1>5, <1>6, <1>7, <1>8, <1>9 DEF Next

\* The gate implements its lease, step by step, whatever overlaps, fails or is
\* killed: a block is never prolonged and never begins beside another.
THEOREM GateIsLease == Spec => Lease!Safety
<1>1. Init => FreshTarget BY DEF Init, FreshTarget, Arming
<1>2. Init => Lease!Init BY DEF Init, Lease!Init
<1> QED BY <1>1, <1>2, TypeInit, TypeNext, FreshNext, LeaseNext, PTL DEF Spec, Lease!Safety

---------------------------------------------------------------------------
\* A target is timed, as long as no client has given up.

LEMMA OneHelperNext ==
  ASSUME TypeOK, OneHelper, [Next]_vars
  PROVE  OneHelper'
<1> USE DEF TypeOK, OneHelper, At, Go, Die, Answer, Fault, server
<1>1. ASSUME NEW c \in Commands, Type(c) PROVE OneHelper'
  BY <1>1 DEF Type
<1>2. ASSUME NEW h \in Helpers, HelperStep(h) PROVE OneHelper'
  <2>1. CASE Validate(h) BY <2>1 DEF Validate
  <2>2. CASE ArmChecks(h) BY <2>2 DEF ArmChecks
  <2>3. CASE ApplyBatch(h) BY <2>3 DEF ApplyBatch
  <2>4. CASE ArmTimer(h) BY <2>4 DEF ArmTimer
  <2>5. CASE InsertTarget(h) BY <2>5 DEF InsertTarget
  <2>6. CASE UndoArm(h) BY <2>6 DEF UndoArm
  <2>7. CASE EmitStatus(h) BY <2>7 DEF EmitStatus
  <2>8. CASE Disarm(h) BY <2>8 DEF Disarm
  <2> QED
    BY <1>2, <2>1, <2>2, <2>3, <2>4, <2>5, <2>6, <2>7, <2>8 DEF HelperStep
<1>3. ASSUME NEW h \in Helpers, GiveUp(h) PROVE OneHelper'
  BY <1>3 DEF GiveUp
<1>4. ASSUME NEW h \in Helpers, Fails(h) PROVE OneHelper'
  BY <1>4 DEF Fails
<1>5. ASSUME NEW h \in Helpers, Kill(h) PROVE OneHelper'
  BY <1>5 DEF Kill
<1>6. CASE Tick BY <1>6 DEF Tick
<1>7. CASE Rollback BY <1>7 DEF Rollback
<1>8. CASE Reboot BY <1>8 DEF Reboot
<1>9. CASE UNCHANGED vars BY <1>9 DEF vars
<1> QED BY <1>1, <1>2, <1>3, <1>4, <1>5, <1>6, <1>7, <1>8, <1>9 DEF Next

\* The helper at work is the only one, so that no other command comes between
\* its calls: a helper is at the call it makes, and all the others are idle.
LEMMA Others ==
  ASSUME OneHelper, "deaf" \notin faults, NEW h \in Helpers, ~At(h, "idle"),
         NEW g \in Helpers, g # h
  PROVE  At(g, "idle")
  BY DEF OneHelper

LEMMA TimedHelper ==
  ASSUME TypeOK, OneHelper, TimerAround, TargetIsTimed, NEW h \in Helpers, HelperStep(h),
         "deaf" \notin faults'
  PROVE  TimerAround' /\ TargetIsTimed'
<1>1. "deaf" \notin faults /\ faults' = faults
  BY DEF HelperStep, Validate, ArmChecks, ApplyBatch, ArmTimer, InsertTarget, UndoArm,
         EmitStatus, Disarm
<1>2. ~At(h, "idle")
  BY DEF HelperStep, Validate, ArmChecks, ApplyBatch, ArmTimer, InsertTarget, UndoArm,
         EmitStatus, Disarm, At
<1>3. \A g \in Helpers \ {h} : pc[g] = "idle"
  BY <1>1, <1>2, Others DEF At
<1> USE <1>1, <1>3 DEF TypeOK, TimerAround, TargetIsTimed, server, At, Go, Die, Answer
<1>4. CASE Validate(h) BY <1>4 DEF Validate
<1>5. CASE ArmChecks(h) BY <1>5 DEF ArmChecks
<1>6. CASE ApplyBatch(h) BY <1>6 DEF ApplyBatch
<1>7. CASE ArmTimer(h) BY <1>7 DEF ArmTimer
<1>8. CASE InsertTarget(h) BY <1>8 DEF InsertTarget
<1>9. CASE UndoArm(h) BY <1>9 DEF UndoArm
<1>10. CASE EmitStatus(h) BY <1>10 DEF EmitStatus
<1>11. CASE Disarm(h) BY <1>11 DEF Disarm
<1> QED
  BY <1>4, <1>5, <1>6, <1>7, <1>8, <1>9, <1>10, <1>11 DEF HelperStep

LEMMA TimedNext ==
  ASSUME TypeOK, OneHelper, TimerAround, TargetIsTimed, [Next]_vars
  PROVE  TimerAround' /\ TargetIsTimed'
<1> SUFFICES ASSUME "deaf" \notin faults' PROVE TimerAround' /\ TargetIsTimed'
  BY DEF TimerAround, TargetIsTimed
<1> USE DEF TypeOK, TimerAround, TargetIsTimed, At, Go, Die, Fault, server
<1>1. ASSUME NEW c \in Commands, Type(c) PROVE TimerAround' /\ TargetIsTimed'
  BY <1>1 DEF Type, Commands
<1>2. ASSUME NEW h \in Helpers, HelperStep(h) PROVE TimerAround' /\ TargetIsTimed'
  BY <1>2, TimedHelper
<1>3. ASSUME NEW h \in Helpers, GiveUp(h) PROVE TimerAround' /\ TargetIsTimed'
  BY <1>3 DEF GiveUp
<1>4. ASSUME NEW h \in Helpers, Fails(h) PROVE TimerAround' /\ TargetIsTimed'
  BY <1>4 DEF Fails
<1>5. ASSUME NEW h \in Helpers, Kill(h) PROVE TimerAround' /\ TargetIsTimed'
  BY <1>5 DEF Kill
<1>6. CASE Tick BY <1>6 DEF Tick
<1>7. CASE Rollback BY <1>7 DEF Rollback
<1>8. CASE Reboot BY <1>8 DEF Reboot
<1>9. CASE UNCHANGED vars BY <1>9 DEF vars
<1> QED BY <1>1, <1>2, <1>3, <1>4, <1>5, <1>6, <1>7, <1>8, <1>9 DEF Next

\* A target never outlives its timer, whatever call fails and wherever a helper
\* dies, as long as no client has given up on its helper.
THEOREM TargetTimed == Spec => []TargetIsTimed
<1>1. Init => OneHelper /\ TimerAround /\ TargetIsTimed
  BY DEF Init, OneHelper, TimerAround, TargetIsTimed, At
<1> QED BY <1>1, TypeInit, TypeNext, OneHelperNext, TimedNext, PTL DEF Spec

=============================================================================

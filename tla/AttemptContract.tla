---------------------------- MODULE AttemptContract ----------------------------
(***************************************************************************)
(* What one measurement attempt promises to whoever owns the Mac and to    *)
(* whoever reads the evidence, without processes, locks or files:          *)
(*                                                                         *)
(*   - the Mac is altered only while the attempt is open;                  *)
(*   - an override of the resolver or of the firewall is recorded as owed  *)
(*     before it is made, and stays owed until it has been undone;         *)
(*   - the attempt is sealed with one outcome, nothing owed and nothing    *)
(*     left altered; a sealed attempt is never opened or changed again.    *)
(***************************************************************************)
CONSTANTS
  Outcome,   \* the outcomes an attempt may be sealed with
  NoOutcome  \* what an attempt that is not sealed has

Alterations == {"hosts", "rule", "capture"}
Overrides == Alterations \ {"capture"}

VARIABLES
  phase,     \* "absent", "open" or "sealed"
  altered,   \* what the attempt has altered on the Mac
  owed,      \* the overrides on record and not on record as undone
  outcome    \* the outcome the attempt is sealed with

contract == <<phase, altered, owed, outcome>>

Init ==
  /\ phase = "absent" /\ altered = {} /\ owed = {} /\ outcome = NoOutcome

Begin ==
  /\ phase = "absent" /\ phase' = "open"
  /\ UNCHANGED <<altered, owed, outcome>>

Owe(x) ==
  /\ phase = "open" /\ x \notin altered
  /\ owed' = owed \cup {x}
  /\ UNCHANGED <<phase, altered, outcome>>

Alter(x) ==
  /\ phase = "open" /\ x \in owed \cup {"capture"}
  /\ altered' = altered \cup {x}
  /\ UNCHANGED <<phase, owed, outcome>>

\* One by one, or all that a restart of the machine does away with.
Undo(S) ==
  /\ phase = "open" /\ altered' = altered \ S
  /\ UNCHANGED <<phase, owed, outcome>>

Settle(x) ==
  /\ phase = "open" /\ x \notin altered
  /\ owed' = owed \ {x}
  /\ UNCHANGED <<phase, altered, outcome>>

Seal(o) ==
  /\ phase = "open" /\ altered = {} /\ owed = {}
  /\ phase' = "sealed" /\ outcome' = o
  /\ UNCHANGED <<altered, owed>>

Next ==
  \/ Begin
  \/ \E x \in Overrides : Owe(x) \/ Settle(x)
  \/ \E x \in Alterations : Alter(x)
  \/ \E S \in SUBSET Alterations : Undo(S)
  \/ \E o \in Outcome : Seal(o)

Spec == Init /\ [][Next]_contract

=============================================================================

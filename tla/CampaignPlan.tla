----------------------------- MODULE CampaignPlan -----------------------------
(***************************************************************************)
(* What a frozen execution plan promises about the attempts made under it: *)
(* the slots are taken one after the other, each is tried until it         *)
(* succeeds or its tries are used up, one attempt at a time, and no slot   *)
(* is ever visited again.                                                  *)
(***************************************************************************)
EXTENDS Integers

CONSTANTS
  SlotCount,  \* how many slots the plan lists
  MaxTries,   \* how often one slot may be tried
  Technical,  \* the outcomes after which a slot may be tried again
  Unusable    \* an ending from which nothing follows

VARIABLES
  slot,   \* the slot of the latest attempt, 1 before the first
  tries,  \* how often that slot has been tried
  last    \* "none", "open", or how the latest attempt ended

progress == <<slot, tries, last>>

Init == slot = 1 /\ tries = 0 /\ last = "none"

Try ==
  /\ last \in {"none"} \cup Technical
  /\ tries < MaxTries
  /\ tries' = tries + 1 /\ last' = "open"
  /\ UNCHANGED slot

MoveOn ==
  /\ slot < SlotCount
  /\ last = "success" \/ (last \in Technical /\ tries = MaxTries)
  /\ slot' = slot + 1 /\ tries' = 1 /\ last' = "open"

End ==
  /\ last = "open"
  /\ last' \in {"success", Unusable} \cup Technical
  /\ UNCHANGED <<slot, tries>>

Next == Try \/ MoveOn \/ End

Spec == Init /\ [][Next]_progress

=============================================================================

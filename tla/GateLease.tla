------------------------------- MODULE GateLease -------------------------------
(***************************************************************************)
(* What the origin gate promises the H3-required series: inside a table of *)
(* its own, TCP is blocked for at most Life, a block is never prolonged,   *)
(* and a new one begins only after the last one has ended.                 *)
(***************************************************************************)
EXTENDS Integers

CONSTANT Life   \* how long a block may last, in units of the model's clock

VARIABLES
  table,   \* the session's table exists
  left     \* what is left of the block, 0 when nothing is blocked

lease == <<table, left>>

Init == table = FALSE /\ left = 0

Create == ~table /\ table' = TRUE /\ left' = left

Block == table /\ left = 0 /\ left' = Life /\ table' = table

\* Time passes for the block; it ends early when it is lifted.
Pass == left > 0 /\ left' = left - 1 /\ table' = table
Lift == left > 0 /\ left' = 0 /\ table' = table

Remove == table /\ table' = FALSE /\ left' = 0

Next == Create \/ Block \/ Pass \/ Lift \/ Remove

Safety == Init /\ [][Next]_lease
Spec == Safety /\ WF_lease(Pass)

=============================================================================

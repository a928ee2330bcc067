---------------------------- MODULE StillDetector ----------------------------
(***************************************************************************)
(* What the main loop expects of the IMU: it counts the samples in a row   *)
(* that moved nothing, and forgets them all with one that does.            *)
(***************************************************************************)
EXTENDS Integers
CONSTANT StillValue     \* more unchanged samples than this mean: still
VARIABLES
  unchanged,            \* unchanged samples in a row, capped above StillValue
  moved                 \* the last sample differed from the one before

vars == <<unchanged, moved>>

Init == unchanged = 0 /\ moved = TRUE

Move == moved' = TRUE /\ unchanged' = 0

Rest ==
  /\ moved' = FALSE
  /\ unchanged' = IF unchanged > StillValue THEN unchanged ELSE unchanged + 1

Next == Move \/ Rest

Spec == Init /\ [][Next]_vars
=============================================================================

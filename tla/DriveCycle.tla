----------------------------- MODULE DriveCycle -----------------------------
(***************************************************************************)
(* What the car promises about its four driving states: the order they     *)
(* follow each other in, and that it moves in Start and Ride only.         *)
(***************************************************************************)
VARIABLES
  state,    \* one of Stay, Start, Ride, Brake
  moving    \* whether the motors are given a speed

vars == <<state, moving>>

Init == state = "Stay" /\ moving = FALSE

\* Leaving Stay.  Ride may be reached in the same step only at a standstill.
Launch ==
  /\ state = "Stay"
  /\ \/ state' = "Start" /\ moving' \in BOOLEAN
     \/ state' = "Ride" /\ UNCHANGED moving

\* A start only speeds up, and ends in Ride with the speed it has reached.
Accelerate == state = "Start" /\ state' = "Start" /\ (moving => moving')
Cruise     == state = "Start" /\ state' = "Ride" /\ UNCHANGED moving

\* In Ride the mode setting decides the speed.
Drive == state = "Ride" /\ state' = "Ride" /\ moving' \in BOOLEAN

Halt   == state = "Ride" /\ state' \in {"Stay", "Brake"} /\ moving' = FALSE
Settle == state = "Brake" /\ state' = "Stay" /\ UNCHANGED moving

Next == Launch \/ Accelerate \/ Cruise \/ Drive \/ Halt \/ Settle

Spec == Init /\ [][Next]_vars
=============================================================================

---------------------------- MODULE LineCrossing ----------------------------
(***************************************************************************)
(* What the detection of the finish line promises: each outer IR sensor is *)
(* remembered for a window of readings after it last saw white, and a      *)
(* riding car goes to Brake exactly when both are remembered at once.      *)
(***************************************************************************)
EXTENDS Integers
CONSTANT Window       \* readings for which a white one is remembered
VARIABLES
  state,              \* the driving state of the car
  memory              \* per outer sensor: readings it is still remembered

Outer == {"left", "right"}
vars == <<state, memory>>

Init == state # "Brake" /\ memory = [s \in Outer |-> 0]

\* What is remembered after a reading in which the sensors of white see it.
After(white) ==
  [s \in Outer |-> IF s \in white THEN Window
                   ELSE IF memory[s] > 0 THEN memory[s] - 1 ELSE 0]

Both(m) == \A s \in Outer : m[s] > 0

Look(white) ==
  /\ state = "Ride" /\ ~Both(After(white))
  /\ state' = "Ride" /\ memory' = After(white)

Cross(white) ==
  /\ state = "Ride" /\ Both(After(white))
  /\ state' = "Brake" /\ memory' = [s \in Outer |-> 0]

\* Every other step: the sensors are not looked at.
Elsewhere ==
  /\ state' = "Brake" => state = "Brake"
  /\ UNCHANGED memory

Next == (\E white \in SUBSET Outer : Look(white) \/ Cross(white)) \/ Elsewhere

Spec == Init /\ [][Next]_vars
=============================================================================

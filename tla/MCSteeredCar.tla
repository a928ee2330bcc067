---------------------------- MODULE MCSteeredCar ----------------------------
(* Constants of SteeredCar for TLC.                                        *)
EXTENDS SteeredCar

MCConstSetting ==
  [m \in FixedModes |-> [mode |-> m, p |-> 2, maxSpeed |-> 300]]

\* All buttons, IR left and right, the default branch and two modes: one with
\* its own gain and speed, and one with both potentiometers at their left
\* ends, so that a mode change means another gain (zero) and a target speed
\* that wraps.  in.out is replaced by what the regulator computes.
SteeredInputs ==
  {[pushed |-> b, dip |-> d, zoneDip |-> FALSE, ir |-> w, potP |-> 0,
    potSpeed |-> -10, out |-> o, whites |-> 0, curve |-> FALSE] :
     b \in SUBSET Button, d \in {"modeRideOne", "modeRideSetting", "other"},
     w \in SUBSET {"left", "right"}, o \in -ServoLimit .. ServoLimit}

MCErrors == {-1, 1}

\* Beyond the limits.
MCGarbage == {9}

=============================================================================

--------------------------- MODULE PID_NewHistory ---------------------------
(***************************************************************************)
(* PID_New with one history variable, which only records: whether the sign *)
(* of the gains is behind the direction.  SetTunings gives the gains the   *)
(* sign of the direction; SetControllerDirection turns it along in         *)
(* automatic mode and leaves it behind in manual mode.                     *)
(***************************************************************************)
EXTENDS PID_New

VARIABLE behind  \* the direction was turned in manual mode an odd number of
                 \* times since the last tuning

hvars == <<vars, behind>>

HInit == Init /\ behind = FALSE

Opposite(dir) == IF dir = "DIRECT" THEN "REVERSE" ELSE "DIRECT"

\* One line per call that sets the gains or the direction; every other call
\* leaves the record alone.
Tuned == \E t \in Tunings, onError \in BOOLEAN : SetTunings(t, onError)
Turned ==
  \E dir \in Direction \ {direction} : ~inAuto /\ SetControllerDirection(dir)

HNext ==
  /\ Next
  /\ behind' = IF Tuned THEN FALSE ELSE IF Turned THEN ~behind ELSE behind

HSpec == HInit /\ [][HNext]_hvars

-----------------------------------------------------------------------------
(* Properties.                                                             *)

\* After any sequence of calls the gains are the numbers entered, scaled by
\* the present sample time, with the sign of the direction, except for the
\* turns made in manual mode, which SetControllerDirection leaves to the next
\* SetTunings.  So the calls commute in automatic mode, and in manual mode
\* their order decides the sign: tuning after the turn, not before it.
GainsAsEntered ==
  gains = Scaled(disp, sampleTime,
                 IF behind THEN Opposite(direction) ELSE direction)

=============================================================================

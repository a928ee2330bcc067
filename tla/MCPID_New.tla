------------------------------ MODULE MCPID_New ------------------------------
(* Constants of PID_NewHistory for TLC.                                    *)
EXTENDS PID_NewHistory

\* Proportional and integral, or all three.
MCTunings == {[kp |-> 1, ki |-> 1, kd |-> 0], [kp |-> 0, ki |-> 2, kd |-> 1]}

\* A wide range, and one inside it that leaves zero out.
MCLimits == {[min |-> -5, max |-> 5], [min |-> 1, max |-> 3]}

\* Inside and outside both ranges.
MCGarbage == {-7, 2}

=============================================================================

-------------------------- MODULE MCGyroMagSensor --------------------------
(* Constants of FxosSensor for TLC.                                        *)
EXTENDS FxosSensor

\* A little and a lot to either side.
MCReadings == {-3, 0, 5}

=============================================================================

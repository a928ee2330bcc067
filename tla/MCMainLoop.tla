----------------------------- MODULE MCMainLoop -----------------------------
(* Constants of MainLoop for TLC.                                          *)
EXTENDS MainLoop

MCConstSetting ==
  [m \in FixedModes |->
     [mode |-> m, p |-> IF m = "modeFigEight" THEN 250 ELSE 160,
      maxSpeed |-> IF m = "modeFigEight" THEN 100 ELSE 300]]

Quiet == [pushed |-> {}, dip |-> "modeRideOne", zoneDip |-> FALSE,
          ir |-> {}, potP |-> 0, potSpeed |-> 0, out |-> 0,
          whites |-> 0, curve |-> FALSE]

\* Button B and the whole finish line, in two modes: one reaches its speed
\* in the first step of the start, the other not within all of them.
LoopInputs ==
  {[Quiet EXCEPT !.pushed = b, !.dip = d, !.ir = w] :
     b \in {{}, {"B"}}, d \in {"modeRideOne", "modeFigEight"},
     w \in {{}, {"left", "right"}}}

=============================================================================

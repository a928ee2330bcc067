--------------------------- MODULE MCNxpCarHistory ---------------------------
(***************************************************************************)
(* Constants of NxpCarHistory for TLC.  One run answers several questions: *)
(* every behaviour chooses at its start the input set that the user, the   *)
(* track and the sensors draw from, one per question, instead of mixing    *)
(* them all.                                                               *)
(***************************************************************************)
EXTENDS NxpCarHistory

MCConstSetting ==
  [m \in FixedModes |->
     [mode |-> m, p |-> IF m \in {"modeSpeedZone", "modeFigEight"} THEN 250
                        ELSE IF m = "modeObstacle" THEN 200 ELSE 160,
      maxSpeed |-> CASE m = "modeRideTwo" -> 280
                     [] m \in {"modeFigEight", "modeObstacle"} -> 250
                     [] OTHER -> 300]]

Quiet == [pushed |-> {}, dip |-> "modeRideOne", zoneDip |-> FALSE,
          ir |-> {}, potP |-> 0, potSpeed |-> 0, out |-> 0,
          whites |-> 0, curve |-> FALSE]

\* The reading the history starts from.
Boot == {[Quiet EXCEPT !.dip = "other"]}

\* Button B against the outer IR sensors, with a mode that ignores them.
CrossInputs == Boot \union
  {[Quiet EXCEPT !.pushed = b, !.dip = d, !.ir = w] :
     b \in {{}, {"B"}}, d \in {"modeRideOne", "modeSpeedZone"},
     w \in SUBSET {"left", "right"}}

\* Both potentiometers in RideSetting, around the edges of a decade.
PotInputs == Boot \union
  {[Quiet EXCEPT !.pushed = b, !.dip = "modeRideSetting", !.potP = p,
                 !.potSpeed = v] :
     b \in {{}, {"B"}}, p \in {48, 49, 50, 51}, v \in {-15, 140, 159}}

\* White regions in the speed zone mode, and a mode that does not look.
ZoneInputs == Boot \union
  {[Quiet EXCEPT !.pushed = b, !.dip = d, !.zoneDip = d = "modeSpeedZone",
                 !.whites = n] :
     b \in {{}, {"A"}, {"B"}}, d \in {"modeSpeedZone", "modeRideTwo"},
     n \in {3, 4, 5}}

\* Steering with and without a curve, up to both limits.
SteerInputs == Boot \union
  {[Quiet EXCEPT !.pushed = b, !.out = o, !.curve = c] :
     b \in {{}, {"B"}}, o \in {-1000, 0, 1000}, c \in BOOLEAN}

Scenarios == {CrossInputs, PotInputs, ZoneInputs, SteerInputs}
AllInputs == UNION Scenarios

VARIABLE inputs    \* the scenario of this behaviour

MCInit == HInit /\ inputs \in Scenarios

MCNext ==
  /\ (\E in \in inputs : HUpdate(in)) \/ HSwitch
  /\ UNCHANGED inputs

MCSpec == MCInit /\ [][MCNext]_<<hvars, inputs>>

=============================================================================

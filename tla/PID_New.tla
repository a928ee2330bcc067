------------------------------- MODULE PID_New -------------------------------
(***************************************************************************)
(* PID_new, the regulator that steers the car, with its whole interface.   *)
(* The car uses the constructor, SetMode() and Compute(); the other calls, *)
(* the variant compute() among them, may come at any time and in any order *)
(* as well.                                                                *)
(*                                                                         *)
(* Numbers are integers.  Gains are kept in units of 1 / PerSecond, so     *)
(* that the scaling of ki and kd by the sample time is exact: ki is        *)
(* Ki * SampleTime, kd is Kd * PerSecond^2 / SampleTime.  The rounding of  *)
(* the program's doubles is left out.                                      *)
(***************************************************************************)
EXTENDS Integers

CONSTANTS
  PerSecond,     \* 1000 ms
  TimeChange,    \* 10: what Compute() takes for the time since its last call
  SampleTimes,   \* arguments of SetSampleTime
  Tunings,       \* what the user may enter: records [kp, ki, kd]
  OutputLimits,  \* arguments of SetOutputLimits: records [min, max]
  Measured,      \* values of the input and of the setpoint
  Garbage        \* what a member may hold before anything was stored in it

ASSUME PidAssumption ==
  /\ PerSecond \in Nat \ {0} /\ TimeChange \in Nat
  /\ SampleTimes \subseteq Nat \ {0}
  /\ \A t \in SampleTimes :
       \E q \in 1 .. PerSecond * PerSecond : PerSecond * PerSecond = q * t
  /\ Tunings \subseteq [kp : Nat, ki : Nat, kd : Nat]
  /\ OutputLimits \subseteq [min : Int, max : Int]
  /\ \A l \in OutputLimits : l.min < l.max
  /\ Measured \subseteq Int /\ Garbage \subseteq Int

VARIABLES
  disp,                    \* dispKp, dispKi, dispKd: as entered
  gains,                   \* kp, ki, kd: scaled and signed
  pOnE,                    \* proportional on error, not on measurement
  direction,               \* controllerDirection
  sampleTime, limits,      \* SampleTime; outMin and outMax
  inAuto,                  \* automatic mode
  outputSum, lastInput,    \* what Compute() remembers
  output                   \* *myOutput

config == <<disp, gains, pOnE, direction, sampleTime, limits>>
vars   == <<config, inAuto, outputSum, lastInput, output>>

Direction == {"DIRECT", "REVERSE"}

Clamp(x, l) == IF x > l.max THEN l.max ELSE IF x < l.min THEN l.min ELSE x

Signed(k, dir) == IF dir = "REVERSE" THEN -k ELSE k
Reversed(g) == [kp |-> -g.kp, ki |-> -g.ki, kd |-> -g.kd]

\* What SetTunings makes of the numbers entered.
Scaled(t, time, dir) ==
  [kp |-> Signed(t.kp * PerSecond, dir),
   ki |-> Signed(t.ki * time, dir),
   kd |-> Signed((t.kd * PerSecond * PerSecond) \div time, dir)]

\* The constructor.  It stores nothing in outputSum and lastInput.
Init ==
  /\ disp \in Tunings /\ direction \in Direction /\ pOnE \in BOOLEAN
  /\ sampleTime \in SampleTimes /\ limits \in OutputLimits
  /\ gains = Scaled(disp, sampleTime, direction)
  /\ inAuto = FALSE /\ output = 0
  /\ outputSum \in Garbage /\ lastInput \in Garbage

-----------------------------------------------------------------------------
(* Compute() and compute().                                                *)

\* Mutated: only the output is clamped, not the sum.
NewSumUnbounded(input, setpoint) ==
  outputSum + gains.ki * (setpoint - input)
  - (IF pOnE THEN 0 ELSE gains.kp * (input - lastInput))

NewSum(input, setpoint) ==
  Clamp(outputSum + gains.ki * (setpoint - input)
        - (IF pOnE THEN 0 ELSE gains.kp * (input - lastInput)), limits)

NewOutput(input, setpoint) ==
  Clamp((IF pOnE THEN gains.kp * (setpoint - input) ELSE 0)
        + NewSum(input, setpoint) - gains.kd * (input - lastInput), limits)

\* The same computation for values that are passed, in manual mode too.
compute(input, target) ==
  /\ outputSum' = NewSum(input, target)
  /\ output' = NewOutput(input, target)
  /\ lastInput' = input
  /\ UNCHANGED <<config, inAuto>>

\* The time since the last call is not measured but TimeChange, so a longer
\* sample time switches the regulator off.
Compute(input, setpoint) ==
  inAuto /\ TimeChange >= sampleTime /\ compute(input, setpoint)

-----------------------------------------------------------------------------
(* SetMode() and Initialize().                                             *)

\* Mutated: the sum keeps what it held before manual mode.
InitializeNoSum(input) == UNCHANGED outputSum /\ lastInput' = input

\* The bumpless transfer: the sum starts from the present output.
Initialize(input) ==
  outputSum' = Clamp(output, limits) /\ lastInput' = input

SetMode(auto, input) ==
  /\ inAuto' = auto
  /\ IF auto /\ ~inAuto THEN Initialize(input)
     ELSE UNCHANGED <<outputSum, lastInput>>
  /\ UNCHANGED <<config, output>>

-----------------------------------------------------------------------------
(* The calls that change the configuration.                                *)

SetTunings(t, onError) ==
  /\ disp' = t /\ pOnE' = onError
  /\ gains' = Scaled(t, sampleTime, direction)
  /\ UNCHANGED <<direction, sampleTime, limits,
                 inAuto, outputSum, lastInput, output>>

SetSampleTime(time) ==
  /\ sampleTime' = time
  /\ gains' = [gains EXCEPT !.ki = (@ * time) \div sampleTime,
                            !.kd = (@ * sampleTime) \div time]
  /\ UNCHANGED <<disp, pOnE, direction, limits,
                 inAuto, outputSum, lastInput, output>>

\* In manual mode the output and the sum are left alone.
SetOutputLimits(l) ==
  /\ limits' = l
  /\ IF inAuto
     THEN output' = Clamp(output, l) /\ outputSum' = Clamp(outputSum, l)
     ELSE UNCHANGED <<output, outputSum>>
  /\ UNCHANGED <<disp, gains, pOnE, direction, sampleTime, inAuto, lastInput>>

\* Mutated: nothing tells whether the direction is another one.
SetControllerDirectionAlways(dir) ==
  /\ direction' = dir
  /\ gains' = IF inAuto THEN Reversed(gains) ELSE gains
  /\ UNCHANGED <<disp, pOnE, sampleTime, limits,
                 inAuto, outputSum, lastInput, output>>

\* In manual mode the gains keep their sign.
SetControllerDirection(dir) ==
  /\ direction' = dir
  /\ gains' = IF inAuto /\ dir # direction THEN Reversed(gains) ELSE gains
  /\ UNCHANGED <<disp, pOnE, sampleTime, limits,
                 inAuto, outputSum, lastInput, output>>

\* The user of the regulator may move the output itself in manual mode.
MoveOutput(x) ==
  /\ ~inAuto
  /\ output' = x
  /\ UNCHANGED <<config, inAuto, outputSum, lastInput>>

Next ==
  \/ \E x, y \in Measured : Compute(x, y) \/ compute(x, y)
  \/ \E auto \in BOOLEAN, x \in Measured : SetMode(auto, x)
  \/ \E t \in Tunings, onError \in BOOLEAN : SetTunings(t, onError)
  \/ \E time \in SampleTimes : SetSampleTime(time)
  \/ \E l \in OutputLimits : SetOutputLimits(l)
  \/ \E dir \in Direction : SetControllerDirection(dir)
  \/ \E x \in Garbage : MoveOutput(x)

Spec == Init /\ [][Next]_vars

-----------------------------------------------------------------------------
(* Properties.                                                             *)

\* The sum of a running regulator never winds up beyond the limits, whatever
\* was set in manual mode and whatever the members held at construction.
NoWindup == inAuto => outputSum \in limits.min .. limits.max

\* Switching to automatic mode is bumpless: if input and setpoint then agree
\* and stay, the first output computed is the one that was there, cut to the
\* limits, whatever the regulator remembered from its last automatic phase.
Bumpless ==
  [][~inAuto /\ inAuto'
       => NewOutput(lastInput, lastInput)' = Clamp(output, limits)]_vars

=============================================================================

----------------------------- MODULE SteeredCar -----------------------------
(***************************************************************************)
(* The car with its regulator: NxpCar, whose update() takes any output the *)
(* regulator may give, composed with PID_New, which computes it from the   *)
(* car's distance from the middle of the track (ratioDiff).                *)
(*                                                                         *)
(* The regulator is an object of its own that the car deletes and replaces *)
(* on a reset.  Its gains come from the mode setting at that moment, its   *)
(* memory is undefined until SetMode(AUTOMATIC) fills it.  Numbers are     *)
(* integers, as in PID_New, in a unit that makes all products exact.       *)
(***************************************************************************)
EXTENDS NxpCar

CONSTANTS
  IntegralStep,     \* regulatorI_ scaled by the sample time: ki
  DerivativeStep,   \* regulatorD_ scaled by the sample time: kd
  Errors,           \* values of ratioDiff
  Garbage           \* what a new regulator may remember

ASSUME SteeringAssumption ==
  /\ IntegralStep \in Nat /\ DerivativeStep \in Nat
  /\ Errors \subseteq Int /\ Garbage \subseteq Int /\ Garbage # {}
  /\ \A in \in Inputs, o \in -ServoLimit .. ServoLimit :
       [in EXCEPT !.out = o] \in Inputs

VARIABLES
  tunedP,                 \* the proportional gain the regulator was made with
  outputSum, lastInput    \* its memory

rvars == <<vars, tunedP, outputSum, lastInput>>

OutputRange == [min |-> -ServoLimit, max |-> ServoLimit]

\* The regulator of the car: proportional on error, direct, called once per
\* sample time, which is its unit of time.
Regulator ==
  INSTANCE PID_New
    WITH disp <- [kp |-> tunedP, ki |-> IntegralStep, kd |-> DerivativeStep],
         gains <- [kp |-> tunedP, ki |-> IntegralStep, kd |-> DerivativeStep],
         pOnE <- TRUE, direction <- "DIRECT", limits <- OutputRange, output <- regOut,
         sampleTime <- 1, PerSecond <- 1, TimeChange <- 1, SampleTimes <- {1},
         Tunings <- {}, OutputLimits <- {OutputRange}, Measured <- Errors

RInit ==
  /\ Init
  /\ tunedP = setting.p /\ outputSum \in Garbage /\ lastInput \in Garbage

\* The setpoint is steerRegulatorTarget_, always zero.
Computes(in) ==
  /\ inAuto /\ ~ResetsRegulator(in)
  /\ AfterIr(AfterBtns(in.pushed), in) # "Stay"

\* What Compute() gives when it is called and does something.
Steering(in, error) ==
  IF Computes(in) THEN Regulator!NewOutput(error, 0) ELSE 0

\* Mutated: B makes a new regulator before the mode changes, a mode change
\* makes none.
RetuneByButton(in) ==
  tunedP' = IF Pressed("B", in.pushed) THEN setting.p ELSE tunedP

\* A reset makes a new regulator with the gains of the setting, which the
\* mode's case has replaced before.
Retune(in) ==
  tunedP' = IF ModeChanged(in) THEN Selected(in).p
            ELSE IF Pressed("B", in.pushed) THEN setting.p ELSE tunedP

\* Mutated: the memory of the regulator deleted is handed on.
RememberAlways(in, error) ==
  \/ /\ Computes(in)
     /\ outputSum' = Regulator!NewSum(error, 0) /\ lastInput' = error
  \/ ~Computes(in) /\ UNCHANGED <<outputSum, lastInput>>

\* Compute() comes before the motor switch, in which Start calls
\* SetMode(AUTOMATIC): a manual regulator is initialised with the output it
\* has, zero, and the error of this update.
Remember(in, error) ==
  LET s2 == AfterIr(AfterBtns(in.pushed), in) IN
  \/ /\ Computes(in)
     /\ outputSum' = Regulator!NewSum(error, 0) /\ lastInput' = error
  \/ /\ ~Computes(in) /\ s2 = "Start"
     /\ outputSum' = Regulator!Clamp(regOut', OutputRange)
     /\ lastInput' = error
  \/ /\ ~Computes(in) /\ s2 # "Start" /\ ResetsRegulator(in)
     /\ outputSum' \in Garbage /\ lastInput' \in Garbage
  \/ /\ ~Computes(in) /\ s2 # "Start" /\ ~ResetsRegulator(in)
     /\ UNCHANGED <<outputSum, lastInput>>

\* in.out is what the regulator gives, so the inputs leave it open (zero).
RUpdate(in, error) ==
  /\ in.out = 0
  /\ Update([in EXCEPT !.out = Steering(in, error)])
  /\ Retune(in)
  /\ Remember(in, error)

RSwitch ==
  /\ SwitchToStayMode
  /\ tunedP' = setting.p /\ outputSum' \in Garbage /\ lastInput' \in Garbage

RNext == (\E in \in Inputs, error \in Errors : RUpdate(in, error)) \/ RSwitch

RSpec == RInit /\ [][RNext]_rvars

-----------------------------------------------------------------------------
(* Properties.                                                             *)

\* The regulator has the gains of the present setting, in every mode and
\* after every reset: update() stores the setting before it makes the new
\* regulator.  And the sum of a running regulator is within the limits, so
\* the undefined memory of a new one never reaches the servo.
RegulatorReady ==
  /\ tunedP = setting.p
  /\ inAuto => outputSum \in -ServoLimit .. ServoLimit

\* Nothing of an earlier ride steers the next: in the update in which the
\* regulator goes to automatic mode its sum becomes zero and the error it
\* remembers is the one this update has read, so the first output has
\* neither an old sum nor a derivative kick.
SteersFromRest ==
  [][~inAuto /\ inAuto' =>
       /\ outputSum' = 0
       /\ \A in \in Inputs, error \in Errors :
            RUpdate(in, error) => lastInput' = error]_rvars

\* Whatever the regulator computes, the car is the NxpCar of the other runs.
ImplementsCar == Spec

=============================================================================

------------------------------ MODULE MainLoop ------------------------------
(***************************************************************************)
(* The super-loop of main.cpp around the car: the timer interrupt counts   *)
(* HW_TFC_TimeStamp, and once per new time stamp the loop runs either the  *)
(* car or the demo program, as the first DIP switch says.  The car pass    *)
(* has two steps: car->update(), and what follows it.  The interrupt and   *)
(* the user act between them.                                              *)
(*                                                                         *)
(* The loop compares time stamps with #, so only their difference matters: *)
(* lag is HW_TFC_TimeStamp - old_tick, phase is old_tick % SendPeriod.     *)
(* The IMU is reduced to whether two samples in a row were equal.          *)
(***************************************************************************)
EXTENDS NxpCar

CONSTANTS
  MaxLag,       \* bound on the ticks that pass before a pass is over
  SendPeriod,   \* sendData() is called when old_tick % 5 = 0
  StillValue    \* ACCEL_TIMER_STILL_VALUE

ASSUME LoopAssumption ==
  MaxLag \in Nat \ {0} /\ SendPeriod \in Nat \ {0} /\ StillValue \in Nat

VARIABLES
  pc,           \* "poll": top of the loop, "updated": after car->update()
  lag, phase,   \* the time stamps
  demoSwitch,   \* the first DIP switch
  unchanged,    \* unchangedAccelTimer, capped above StillValue
  moved,        \* the last IMU sample differed from the one before
  motorsOn,     \* the last argument of MotorPWMOnOff
  wheels        \* who gave the last motor PWM: the car or the potentiometers

tickVars == <<lag, phase>>
imuVars  == <<unchanged, moved>>
outVars  == <<motorsOn, wheels>>
loopVars == <<vars, pc, tickVars, demoSwitch, imuVars, outVars>>

\* Calibrating the IMU takes a while: the loop starts in any phase.
LInit ==
  /\ Init /\ pc = "poll"
  /\ lag \in 0 .. MaxLag /\ phase \in 0 .. SendPeriod - 1
  /\ demoSwitch \in BOOLEAN
  /\ unchanged = 0 /\ moved = TRUE
  /\ motorsOn = TRUE /\ wheels = "car"

isAccelStill == unchanged > StillValue

-----------------------------------------------------------------------------
(* The environment: the timer interrupt and the user's DIP switch.         *)

Interrupt ==
  /\ lag < MaxLag /\ lag' = lag + 1
  /\ UNCHANGED <<vars, pc, phase, demoSwitch, imuVars, outVars>>

FlipSwitch ==
  /\ demoSwitch' = ~demoSwitch
  /\ UNCHANGED <<vars, pc, tickVars, imuVars, outVars>>

-----------------------------------------------------------------------------
(* The car passes and the demo pass.                                       *)

\* Mutated: the phase runs one too far.
TakeTickLate == lag' = 0 /\ phase' = ((phase + lag) % SendPeriod) + 1

\* old_tick = HW_TFC_TimeStamp, read anew: ticks of this pass are dropped.
TakeTick == lag' = 0 /\ phase' = (phase + lag) % SendPeriod

UpdateCar(in) ==
  /\ pc = "poll" /\ lag # 0 /\ ~demoSwitch
  /\ Update(in)
  /\ pc' = "updated" /\ wheels' = "car"
  /\ UNCHANGED <<tickVars, demoSwitch, imuVars, motorsOn>>

\* Mutated: a sample is taken in Ride only.
SendDataInRide ==
  IF phase' = 0 /\ motorsState = "Ride"
  THEN /\ moved' \in BOOLEAN
       /\ unchanged' = IF moved' THEN 0
                       ELSE IF isAccelStill THEN unchanged ELSE unchanged + 1
  ELSE UNCHANGED imuVars

\* sendData() takes an IMU sample; nothing else does.
SendData ==
  IF phase' = 0
  THEN /\ moved' \in BOOLEAN
       /\ unchanged' = IF moved' THEN 0
                       ELSE IF isAccelStill THEN unchanged ELSE unchanged + 1
  ELSE UNCHANGED imuVars

\* Mutated: the state of the car is not looked at.
FinishCarAnyState ==
  /\ pc = "updated" /\ pc' = "poll"
  /\ IF isAccelStill
     THEN /\ motorsState' = "Stay" /\ frames' = 0 /\ inAuto' = FALSE
          /\ regOut' = 0
          /\ UNCHANGED <<motorSpeed, startTimer, btnVars, crossVars, setting,
                         zoneVars, rideVars>>
     ELSE UNCHANGED vars
  /\ TakeTick /\ SendData
  /\ UNCHANGED <<demoSwitch, outVars>>

FinishCar ==
  /\ pc = "updated" /\ pc' = "poll"
  /\ \/ isAccelStill /\ SwitchToStayMode
     \/ ~(isAccelStill /\ motorsState = "Brake") /\ UNCHANGED vars
  /\ TakeTick /\ SendData
  /\ UNCHANGED <<demoSwitch, outVars>>

\* Mutated: only the motor test sets the motor stage.
DemoKeepsStage(test) ==
  /\ motorsOn' = IF test = "motors" THEN TRUE ELSE motorsOn
  /\ wheels'   = IF test = "motors" THEN "pots" ELSE wheels

\* diagnostic(): the motor test drives the wheels from the potentiometers,
\* every other test turns the motor stage off.
Demo(test) ==
  /\ motorsOn' = (test = "motors")
  /\ wheels'   = IF test = "motors" THEN "pots" ELSE wheels

RunDemo(test) ==
  /\ pc = "poll" /\ lag # 0 /\ demoSwitch
  /\ Demo(test) /\ TakeTick
  /\ UNCHANGED <<vars, pc, demoSwitch, imuVars>>

UpdateAny == \E in \in Inputs : UpdateCar(in)
DemoAny   == \E test \in {"motors", "other"} : RunDemo(test)

LNext == Interrupt \/ FlipSwitch \/ UpdateAny \/ FinishCar \/ DemoAny

LSpec == LInit /\ [][LNext]_loopVars

\* The timer keeps running, and the loop never blocks.
Fairness ==
  /\ WF_loopVars(Interrupt)
  /\ WF_loopVars(UpdateAny) /\ WF_loopVars(FinishCar) /\ WF_loopVars(DemoAny)

FairSpec == LSpec /\ Fairness

-----------------------------------------------------------------------------
(* Properties.                                                             *)

\* The types of main.cpp's variables and of unchangedAccelTimer.
LTypeOK ==
  /\ pc \in {"poll", "updated"}
  /\ lag \in 0 .. MaxLag /\ phase \in 0 .. SendPeriod - 1
  /\ demoSwitch \in BOOLEAN
  /\ unchanged \in 0 .. StillValue + 1 /\ moved \in BOOLEAN
  /\ motorsOn \in BOOLEAN /\ wheels \in {"car", "pots"}

\* Whatever the interleaving of loop, timer and user, the car object goes
\* through a behaviour of NxpCar: what is proved of it holds in the program.
ImplementsCar == Spec

\* A braking car does come to Stay without a button, once the accelerations
\* stop changing, the car program is left switched on and every pass is over
\* before the next tick.  Without the last the loop could miss every tick
\* that takes a sample.
BrakeEnds ==
  <>[](~demoSwitch /\ ~moved /\ lag <= 1)
    => (motorsState = "Brake" ~> motorsState # "Brake")

\* A start always comes to an end, whatever is pressed and whatever speed the
\* mode asks for, if the car program is left switched on: the steps are
\* counted, the speed need not be reached.
StartEnds ==
  <>[]~demoSwitch => (motorsState = "Start" ~> motorsState = "Ride")

\* When the demo program is switched on for good, the speed the car last
\* commanded does not go on driving the wheels, whichever test is selected.
DemoTakesOver == <>[]demoSwitch => <>[](wheels = "pots" \/ ~motorsOn)

\* main.cpp says of the two programs: if DIP switch 1 is low, then drive
\* car.  After update() in Ride with a speed, the motor stage is on.
RideDrives ==
  pc = "updated" /\ motorsState = "Ride" /\ motorSpeed # 0 => motorsOn

=============================================================================

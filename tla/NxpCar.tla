------------------------------- MODULE NxpCar -------------------------------
(***************************************************************************)
(* The car object: NxpCar / NxpCarAbstract and the part of PID_new that    *)
(* decides whether the steering regulator runs.  The two public methods    *)
(* that change state are the actions: update(), called once per tick of    *)
(* the 10 ms timer, and switchToStayMode(), called by the main loop when   *)
(* the accelerometer stands still.                                         *)
(*                                                                         *)
(* update() is one sequential handler; here it is a conjunction of its     *)
(* parts.  The motor state changes up to three times in one call, so its   *)
(* intermediate values are named: s1 after the buttons, s2 after the IR    *)
(* sensors, motorsState' at the end.                                       *)
(***************************************************************************)
EXTENDS Integers

CONSTANTS
  StartSteps,      \* START_STEPS: updates spent in Start
  PwmStep,         \* CONTROL_PWM_STEP: speed added per update in Start
  DebounceMax,     \* debounceCounterMax_: updates a button sample is kept
  MaxCrossTimer,   \* LINE_CROSS_TIMER: updates a white IR reading is kept
  ZoneDelay,       \* reload value of speedCheckZoneDebounce_
  HistorySize,     \* TRACER_HISTORY_SIZE
  ServoLimit,      \* SERVO_LR and the limit of the regulator's output
  MaxServoChange,  \* MAX_SERVO_CHANGE
  ConstSetting,    \* the const...Setting of every fixed mode
  Inputs           \* what one update() may read (see InputsAssumption)

Word == 65536      \* motorSpeed_ and maxSpeed_ are uint16_t

Button == {"A", "B"}
Sensor == {"left", "middle", "right"}
MotorsState == {"Stay", "Start", "Ride", "Brake"}

\* DIP positions with a case of their own; "other" is every position that
\* falls to the default branch: the odd ones and 0b1100.
FixedModes == {"modeSpeedZone", "modeFigEight", "modeObstacle",
               "modeRideOne", "modeRideTwo", "modeRideThree"}
Modes == FixedModes \union {"modeRideSetting"}
Dip == Modes \union {"other"}

\* NxpModeSetting with one of its regulator constants standing for the
\* others: they differ only from mode to mode, except regulatorP_, which
\* the second potentiometer sets.
NxpModeSetting == [mode : Modes, p : Nat, maxSpeed : 0 .. Word - 1]

ASSUME ConstantsAssumption ==
  /\ StartSteps \in Nat /\ PwmStep \in Nat \ {0}
  /\ DebounceMax \in 1 .. 255
  /\ MaxCrossTimer \in 0 .. 255
  /\ ZoneDelay \in 0 .. 255
  /\ HistorySize \in Nat
  /\ ServoLimit \in Nat
  /\ MaxServoChange \in Nat
  /\ ConstSetting \in [FixedModes -> NxpModeSetting]

\* The whole ramp of start() fits the 16-bit speed.
ASSUME RampAssumption == StartSteps * PwmStep < Word

\* One update() reads: the buttons, the DIP switch (line 58) and once more
\* in setRide (zoneDip: whether that second reading is modeSpeedZone), the
\* IR sensors that see white, both potentiometers (potP already scaled to
\* 0..100), what the regulator computes, the number of white regions and
\* whether the tracer reports a curve.
ASSUME InputsAssumption ==
  Inputs \subseteq [pushed : SUBSET Button, dip : Dip, zoneDip : BOOLEAN,
                    ir : SUBSET Sensor, potP : 0 .. 100,
                    potSpeed : Int,
                    out : -ServoLimit .. ServoLimit,
                    whites : 0 .. 255, curve : BOOLEAN]

VARIABLES
  motorsState, motorSpeed, startTimer,      \* what the motors do
  debounce, debounceCounter, btns,          \* handleBtns
  crossBit, crossTimer,                     \* lineCrossBits_, ...CrossTimer_
  setting, frames,                          \* modeSetting_, tracer history
  inAuto, regOut,                           \* the regulator and its output
  inZone, zoneDebounce, prevZones,          \* speed check zone
  servoPos, servoTrend, pwm                 \* what setRide commands

motorVars == <<motorsState, motorSpeed, startTimer>>
btnVars   == <<debounce, debounceCounter, btns>>
crossVars == <<crossBit, crossTimer>>
modeVars  == <<setting, frames>>
regVars   == <<inAuto, regOut>>
zoneVars  == <<inZone, zoneDebounce, prevZones>>
rideVars  == <<servoPos, servoTrend, pwm>>
vars == <<motorVars, btnVars, crossVars, modeVars, regVars, zoneVars, rideVars>>

Init ==
  /\ motorsState = "Stay" /\ motorSpeed = 0 /\ startTimer = StartSteps
  /\ debounce = FALSE /\ debounceCounter = 0 /\ btns = {}
  /\ crossBit = [s \in Sensor |-> FALSE]
  /\ crossTimer = [s \in Sensor |-> 0]
  /\ setting = ConstSetting["modeRideOne"] /\ frames = 0
  /\ inAuto = FALSE /\ regOut = 0
  /\ inZone = FALSE /\ zoneDebounce = 0 /\ prevZones = 0
  /\ servoPos = 0 /\ servoTrend = "staying" /\ pwm = "off"

-----------------------------------------------------------------------------
(* Buttons: one call in DebounceMax + 1 samples them, the others count.    *)

\* Mutated: the buttons of the last sample are not looked at.
PressedAgain(b, pushed) == ~debounce /\ b \in pushed

Pressed(b, pushed) == ~debounce /\ b \in pushed /\ b \notin btns

\* Mutated: the counter runs one further before it is reset.
HandleBtnsLate(pushed) ==
  \/ ~debounce /\ debounce' = TRUE /\ btns' = pushed /\ UNCHANGED debounceCounter
  \/ debounce /\ debounceCounter >= DebounceMax
     /\ debounce' = FALSE /\ debounceCounter' = 0 /\ UNCHANGED btns
  \/ debounce /\ debounceCounter < DebounceMax
     /\ debounceCounter' = debounceCounter + 1 /\ UNCHANGED <<debounce, btns>>

\* Mutated: the end of debouncing forgets to clear debounce_.
HandleBtnsStuck(pushed) ==
  \/ ~debounce /\ debounce' = TRUE /\ btns' = pushed /\ UNCHANGED debounceCounter
  \/ debounce /\ UNCHANGED <<debounce, btns>>
     /\ debounceCounter' = (debounceCounter + 1) % DebounceMax

HandleBtns(pushed) ==
  \/ /\ ~debounce
     /\ debounce' = TRUE /\ btns' = pushed
     /\ UNCHANGED debounceCounter
  \/ /\ debounce /\ debounceCounter + 1 >= DebounceMax
     /\ debounce' = FALSE /\ debounceCounter' = 0
     /\ UNCHANGED btns
  \/ /\ debounce /\ debounceCounter + 1 < DebounceMax
     /\ debounceCounter' = debounceCounter + 1
     /\ UNCHANGED <<debounce, btns>>

\* Mutated: B in Brake starts the car again instead of stopping it.
AfterBtnsToggling(pushed) ==
  IF ~Pressed("B", pushed) THEN motorsState
  ELSE IF motorsState = "Ride" THEN "Stay" ELSE "Start"

\* Button B toggles between standing and driving; in Start it changes nothing.
AfterBtns(pushed) ==
  IF ~Pressed("B", pushed) THEN motorsState
  ELSE IF motorsState \in {"Ride", "Brake"} THEN "Stay" ELSE "Start"

-----------------------------------------------------------------------------
(* IR sensors: a white reading sets a sensor's bit and its timer; the bit  *)
(* is cleared one update after the timer has run out.                      *)

IrHandled(s1, in) == s1 = "Ride" /\ in.dip \in Modes \ {"modeSpeedZone"}

\* Mutated: the bit is cleared when the timer reaches one.
BitAfterEarly(s, white) == s \in white \/ (crossTimer[s] > 1 /\ crossBit[s])

BitAfter(s, white) == s \in white \/ (crossTimer[s] > 0 /\ crossBit[s])

\* Mutated: a running timer is not reloaded by another white reading.
TimerAfterNoReload(s, white) ==
  IF crossTimer[s] > 0 THEN crossTimer[s] - 1
  ELSE IF s \in white THEN MaxCrossTimer ELSE 0

TimerAfter(s, white) ==
  IF s \in white THEN MaxCrossTimer
  ELSE IF crossTimer[s] > 0 THEN crossTimer[s] - 1 ELSE 0

\* Mutated: only 0b111 counts.
LineCrossedByAll(white) == \A s \in Sensor : BitAfter(s, white)

\* 0b111 or 0b101: the middle sensor does not matter.
LineCrossed(white) == BitAfter("left", white) /\ BitAfter("right", white)

HandleIrSensors(s1, in) ==
  \/ /\ ~IrHandled(s1, in)
     /\ UNCHANGED crossVars
  \/ /\ IrHandled(s1, in) /\ LineCrossed(in.ir)
     /\ crossBit' = [s \in Sensor |-> FALSE]
     /\ crossTimer' = [s \in Sensor |-> 0]
  \/ /\ IrHandled(s1, in) /\ ~LineCrossed(in.ir)
     /\ crossBit' = [s \in Sensor |-> BitAfter(s, in.ir)]
     /\ crossTimer' = [s \in Sensor |-> TimerAfter(s, in.ir)]

AfterIr(s1, in) ==
  IF IrHandled(s1, in) /\ LineCrossed(in.ir) THEN "Brake" ELSE s1

-----------------------------------------------------------------------------
(* The mode setting and the tracer's history.                              *)

\* x /= 10; x *= 10 on a C int
RoundTens(x) == IF x >= 0 THEN (x \div 10) * 10 ELSE -(((-x) \div 10) * 10)

\* Mutated: the constant of the regulator is not rounded.
SelectedRaw(in) ==
  IF in.dip = "modeRideSetting"
  THEN [mode |-> in.dip, p |-> in.potP,
        maxSpeed |-> RoundTens(in.potSpeed) % Word]
  ELSE ConstSetting[in.dip]

Selected(in) ==
  IF in.dip = "modeRideSetting"
  THEN [mode |-> in.dip, p |-> RoundTens(in.potP),
        maxSpeed |-> RoundTens(in.potSpeed) % Word]
  ELSE ConstSetting[in.dip]

\* operator==, which does not compare maxSpeed_
SameSetting(a, b) == a.mode = b.mode /\ a.p = b.p

ModeChanged(in) == in.dip \in Modes /\ ~SameSetting(setting, Selected(in))

SelectMode(in) ==
  setting' = IF ModeChanged(in) THEN Selected(in) ELSE setting

\* Button A and a mode change empty the history, then the mode's case adds
\* the image; the default branch adds none.
TraceImage(in) ==
  LET kept  == IF Pressed("A", in.pushed) \/ ModeChanged(in) THEN 0 ELSE frames
      added == IF kept > HistorySize THEN kept ELSE kept + 1
  IN frames' = IF in.dip \in Modes THEN added ELSE kept

-----------------------------------------------------------------------------
(* Speed check zone: at least four white regions, another number of them   *)
(* than in the previous image, and no delay pending.                       *)

ZoneMark(in)    == in.whites >= 4
ZoneToggles(in) == ZoneMark(in) /\ in.whites # prevZones /\ zoneDebounce = 0

\* Mutated: the delay is not started when the flag is switched.
DetectZoneUndelayed(s2, in) ==
  LET zone == inZone /\ debounce
  IN IF in.dip = "modeSpeedZone" /\ s2 = "Ride"
     THEN /\ inZone' = IF ZoneToggles(in) THEN ~zone ELSE zone
          /\ prevZones' = in.whites /\ UNCHANGED zoneDebounce
     ELSE inZone' = zone /\ UNCHANGED <<zoneDebounce, prevZones>>

\* handleBtns clears the flag on every sampled call, pressed or not.
DetectZone(s2, in) ==
  LET zone == inZone /\ debounce
  IN IF in.dip = "modeSpeedZone" /\ s2 = "Ride"
     THEN /\ inZone' = IF ZoneToggles(in) THEN ~zone ELSE zone
          /\ zoneDebounce' = IF ZoneToggles(in) THEN ZoneDelay
                             ELSE IF ZoneMark(in) /\ zoneDebounce > 0
                                  THEN zoneDebounce - 1 ELSE zoneDebounce
          /\ prevZones' = in.whites
     ELSE inZone' = zone /\ UNCHANGED <<zoneDebounce, prevZones>>

-----------------------------------------------------------------------------
(* The regulator: a reset replaces it with one in manual mode, whose       *)
(* Compute() leaves the output alone.                                      *)

\* Mutated: button B does not reset the regulator.
ResetsRegulatorByMode(in) == ModeChanged(in)

\* Mutated: button A resets the regulator as well.
ResetsRegulatorByA(in) ==
  Pressed("A", in.pushed) \/ Pressed("B", in.pushed) \/ ModeChanged(in)

ResetsRegulator(in) == Pressed("B", in.pushed) \/ ModeChanged(in)

Regulate(s2, in) ==
  LET auto == inAuto /\ ~ResetsRegulator(in)
      old  == IF ResetsRegulator(in) THEN 0 ELSE regOut
  IN /\ regOut' = IF s2 # "Stay" /\ auto THEN in.out ELSE old
     /\ inAuto' = (s2 = "Start" \/ (s2 # "Stay" /\ auto))

-----------------------------------------------------------------------------
(* Motors: start() and the switch over motorsState_.                       *)

\* Mutated: the speed is not cleared.
StandStepRolling ==
  motorsState' = "Stay" /\ UNCHANGED motorSpeed /\ startTimer' = StartSteps

\* Mutated: the steps of the next start are not put back.
StandStepTimerKept ==
  motorsState' = "Stay" /\ motorSpeed' = 0 /\ UNCHANGED startTimer

StandStep ==
  motorsState' = "Stay" /\ motorSpeed' = 0 /\ startTimer' = StartSteps

\* Mutated: the step is not counted while the speed still grows.
StartStepUncounted ==
  \/ startTimer = 0 /\ motorsState' = "Ride" /\ UNCHANGED <<motorSpeed, startTimer>>
  \/ /\ startTimer # 0 /\ motorsState' = "Start"
     /\ startTimer' = IF motorSpeed < setting'.maxSpeed THEN startTimer
                      ELSE startTimer - 1
     /\ motorSpeed' = IF motorSpeed < setting'.maxSpeed
                      THEN (motorSpeed + PwmStep) % Word ELSE motorSpeed

\* Mutated: the start ends with the speed of the mode, not with its steps.
StartStepToSpeed ==
  \/ /\ motorSpeed >= setting'.maxSpeed
     /\ motorsState' = "Ride" /\ UNCHANGED <<motorSpeed, startTimer>>
  \/ /\ motorSpeed < setting'.maxSpeed /\ motorsState' = "Start"
     /\ IF startTimer = 0 THEN UNCHANGED <<motorSpeed, startTimer>>
        ELSE startTimer' = startTimer - 1 /\ motorSpeed' = motorSpeed + PwmStep

StartStep ==
  \/ /\ startTimer = 0
     /\ motorsState' = "Ride"
     /\ UNCHANGED <<motorSpeed, startTimer>>
  \/ /\ startTimer # 0
     /\ motorsState' = "Start"
     /\ startTimer' = startTimer - 1
     /\ motorSpeed' = IF motorSpeed < setting'.maxSpeed
                      THEN (motorSpeed + PwmStep) % Word ELSE motorSpeed

RideStep ==
  /\ motorsState' = "Ride" /\ motorSpeed' = setting'.maxSpeed
  /\ UNCHANGED startTimer

BrakeStep ==
  /\ motorsState' = "Brake" /\ motorSpeed' = 0
  /\ UNCHANGED startTimer

DriveMotors(s2) ==
  \/ s2 = "Stay"  /\ StandStep
  \/ s2 = "Start" /\ StartStep
  \/ s2 = "Ride"  /\ RideStep
  \/ s2 = "Brake" /\ BrakeStep

-----------------------------------------------------------------------------
(* Servo: rate limit, clip to the limit, and half as much again in a curve.*)

Clamp(x, low, high) == IF x > high THEN high ELSE IF x < low THEN low ELSE x

\* Mutated: half the allowed change.
RateLimitedHalf(target, prev) ==
  Clamp(target, prev - MaxServoChange \div 2, prev + MaxServoChange \div 2)

RateLimited(target, prev) ==
  Clamp(target, prev - MaxServoChange, prev + MaxServoChange)

Clip(x) == Clamp(x, -ServoLimit, ServoLimit)

\* servoPos_ *= 1.5f on an int16_t
Sharpen(x) == IF x >= 0 THEN (3 * x) \div 2 ELSE -((3 * (-x)) \div 2)

SetServo(s2, in) ==
  LET target == IF s2 = "Stay" THEN 0 ELSE regOut'
      pos    == Clip(RateLimited(target, servoPos))
  IN /\ servoTrend' = IF target > servoPos THEN "increasing"
                      ELSE IF target < servoPos THEN "decreasing" ELSE "staying"
     /\ servoPos' = IF in.curve THEN Sharpen(pos) ELSE pos

\* The wheel speeds, without the differential: off, full or half speed.
SetRide(in) ==
  pwm' = IF motorSpeed' = 0 THEN "off"
         ELSE IF in.zoneDip /\ inZone' THEN "half" ELSE "full"

-----------------------------------------------------------------------------
Update(in) ==
  LET s1 == AfterBtns(in.pushed)
      s2 == AfterIr(s1, in)
  IN /\ HandleBtns(in.pushed)
     /\ HandleIrSensors(s1, in)
     /\ SelectMode(in)
     /\ TraceImage(in)
     /\ DetectZone(s2, in)
     /\ Regulate(s2, in)
     /\ DriveMotors(s2)
     /\ SetServo(s2, in)
     /\ SetRide(in)

\* The next update clears the start timer; until then it is what it was.
SwitchToStayMode ==
  /\ motorsState = "Brake"
  /\ motorsState' = "Stay"
  /\ frames' = 0 /\ inAuto' = FALSE /\ regOut' = 0
  /\ UNCHANGED <<motorSpeed, startTimer, btnVars, crossVars, setting,
                 zoneVars, rideVars>>

Next == (\E in \in Inputs : Update(in)) \/ SwitchToStayMode

Spec == Init /\ [][Next]_vars

-----------------------------------------------------------------------------
(* Properties.                                                             *)

\* The types of the members of NxpCarAbstract and NxpCar.
TypeOK ==
  /\ motorsState \in MotorsState
  /\ motorSpeed \in 0 .. Word - 1 /\ startTimer \in 0 .. StartSteps
  /\ debounce \in BOOLEAN /\ debounceCounter \in 0 .. DebounceMax - 1
  /\ btns \in SUBSET Button
  /\ crossBit \in [Sensor -> BOOLEAN]
  /\ crossTimer \in [Sensor -> 0 .. MaxCrossTimer]
  /\ setting \in NxpModeSetting /\ frames \in 0 .. HistorySize + 1
  /\ inAuto \in BOOLEAN /\ regOut \in -ServoLimit .. ServoLimit
  /\ inZone \in BOOLEAN /\ zoneDebounce \in 0 .. ZoneDelay
  /\ prevZones \in 0 .. 255
  /\ servoPos \in Int
  /\ servoTrend \in {"increasing", "decreasing", "staying"}
  /\ pwm \in {"off", "full", "half"}

\* A standing or braking car commands no speed, on every way into these two
\* states (button B, the IR sensors inside update, the main loop).
StandsStill == motorsState \in {"Stay", "Brake"} => motorSpeed = 0 /\ pwm = "off"

\* The ramp of start() never wraps the 16-bit speed and never goes above
\* what its remaining steps allow, whatever mode changes happen during it:
\* the setting's own speed may be anything up to 65535.
RampBudget ==
  /\ motorsState = "Start" =>
       motorSpeed + startTimer * PwmStep <= StartSteps * PwmStep
  /\ motorsState \in {"Ride", "Brake"} => startTimer = 0

\* A regulator in manual mode has output zero on every path (reset by B, by
\* a mode change, by switchToStayMode); every update in Start leaves it
\* automatic, so Ride never begins unregulated; in Stay it is manual.
RegulatorConsistent ==
  /\ ~inAuto => regOut = 0
  /\ motorsState = "Start" => inAuto
  /\ motorsState = "Stay" => ~inAuto

\* Between updates the two outer bits are never both set (the car has then
\* braked and cleared them), and a running timer means a set bit.
CrossingConsistent ==
  /\ ~(crossBit["left"] /\ crossBit["right"])
  /\ \A s \in Sensor : crossTimer[s] > 0 => crossBit[s]

\* The drive cycle of DriveCycle.tla: which state may follow which, and when
\* the motors may turn.
Cycle == INSTANCE DriveCycle WITH state <- motorsState, moving <- motorSpeed # 0
ImplementsDriveCycle == Cycle!Spec

\* The two outer sensors' bits and timers are one countdown per sensor, and
\* Brake is entered exactly when both run (LineCrossing.tla).
Crossing == INSTANCE LineCrossing
              WITH state <- motorsState, Window <- MaxCrossTimer + 1,
                   memory <- [s \in {"left", "right"} |->
                                IF crossBit[s] THEN crossTimer[s] + 1 ELSE 0]
ImplementsLineCrossing == Crossing!Spec

\* The regulator drops out of automatic mode only when the car goes to Stay
\* or when the mode setting changes: nothing else can take the steering
\* away from a driving car.
RegulatorLostOnlyByModeChange ==
  [][inAuto /\ ~inAuto' => motorsState' = "Stay" \/ setting' # setting]_vars

=============================================================================

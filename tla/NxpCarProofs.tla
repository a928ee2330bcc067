---------------------------- MODULE NxpCarProofs ----------------------------
(* Theorems about NxpCar, for every value of its constants.                *)
EXTENDS NxpCar, TLAPS

\* A remainder is less than its divisor.
LEMMA RemainderType ==
  ASSUME NEW x \in Int, NEW n \in Int, n > 0
  PROVE  x % n \in 0 .. n - 1
OBVIOUS

\* All that is needed of the size of a word: the number slows the provers down.
LEMMA WordPositive == Word \in Int /\ Word > 0
BY DEF Word

\* Conversion to 16 bits.
LEMMA WordType == ASSUME NEW x \in Int PROVE x % Word \in 0 .. Word - 1
BY WordPositive, RemainderType

\* Rounding a potentiometer value to tens.
LEMMA RoundType ==
  ASSUME NEW x \in Int
  PROVE  RoundTens(x) \in Int /\ (x >= 0 => RoundTens(x) >= 0)
<1>1. \A y \in Nat : (y \div 10) \in Nat
  OBVIOUS
<1>2. CASE x >= 0
  BY <1>1, <1>2 DEF RoundTens
<1>3. CASE x < 0
  <2>1. (-x) \div 10 \in Nat
    BY <1>1, <1>3
  <2>2. QED
    BY <1>3, <2>1 DEF RoundTens
<1>4. QED
  BY <1>2, <1>3

\* A selected setting has the type of a setting: the rounded potentiometer
\* values fit it after the conversion of the speed to 16 bits.
LEMMA SelectedType ==
  ASSUME NEW in \in Inputs, in.dip \in Modes
  PROVE  Selected(in) \in NxpModeSetting
<1>1. in.potP \in 0 .. 100 /\ in.potSpeed \in Int
  BY InputsAssumption
<1>2. RoundTens(in.potP) \in Nat
  BY <1>1, RoundType
<1>3. RoundTens(in.potSpeed) \in Int
  BY <1>1, RoundType
<1>4. RoundTens(in.potSpeed) % Word \in 0 .. Word - 1
  BY <1>3, WordType
<1>5. CASE in.dip = "modeRideSetting"
  BY <1>2, <1>4, <1>5 DEF Selected, NxpModeSetting, Modes
<1>6. CASE in.dip # "modeRideSetting"
  <2>1. in.dip \in FixedModes
    BY <1>6 DEF Modes
  <2>2. QED
    BY <2>1, <1>6, ConstantsAssumption DEF Selected
<1>7. QED
  BY <1>5, <1>6

\* The driving states an update passes through are driving states.
LEMMA IntermediateStates ==
  ASSUME TypeOK, NEW in \in Inputs
  PROVE  /\ AfterBtns(in.pushed) \in MotorsState
         /\ AfterIr(AfterBtns(in.pushed), in) \in MotorsState
  BY DEF TypeOK, AfterBtns, AfterIr, MotorsState

\* The servo position stays an integer through limiter, clip and sharpening.
LEMMA ServoType ==
  ASSUME NEW t \in Int, NEW p \in Int
  PROVE  /\ Clip(RateLimited(t, p)) \in Int
         /\ Sharpen(Clip(RateLimited(t, p))) \in Int
<1>1. RateLimited(t, p) \in Int
  BY ConstantsAssumption DEF RateLimited, Clamp
<1>2. Clip(RateLimited(t, p)) \in Int
  BY <1>1, ConstantsAssumption DEF Clip, Clamp
<1>3. QED
  BY <1>2 DEF Sharpen

\* Update and switchToStayMode keep every member within its type.
LEMMA UpdateType ==
  ASSUME TypeOK, NEW in \in Inputs, Update(in)
  PROVE  TypeOK'
<1> DEFINE s1 == AfterBtns(in.pushed)
           s2 == AfterIr(s1, in)
<1>1. s1 \in MotorsState /\ s2 \in MotorsState
  BY IntermediateStates
<1>2. (debounce \in BOOLEAN /\ debounceCounter \in 0 .. DebounceMax - 1
        /\ btns \in SUBSET Button)'
  <2>1. in.pushed \in SUBSET Button
    BY InputsAssumption
  <2>2. HandleBtns(in.pushed)
    BY DEF Update
  <2>3. debounceCounter \in 0 .. DebounceMax - 1 /\ DebounceMax \in 1 .. 255
    BY ConstantsAssumption DEF TypeOK
  <2>4. debounce \in BOOLEAN /\ btns \in SUBSET Button
    BY DEF TypeOK
  <2>5. (debounce \in BOOLEAN /\ btns \in SUBSET Button)'
    BY <2>1, <2>2, <2>4 DEF HandleBtns
  <2>6. debounceCounter' \in 0 .. DebounceMax - 1
    BY <2>2, <2>3 DEF HandleBtns
  <2>7. QED
    BY <2>5, <2>6
<1>3. (crossBit \in [Sensor -> BOOLEAN]
        /\ crossTimer \in [Sensor -> 0 .. MaxCrossTimer])'
  <2>1. HandleIrSensors(s1, in)
    BY DEF Update
  <2>2. \A s \in Sensor : TimerAfter(s, in.ir) \in 0 .. MaxCrossTimer
    BY ConstantsAssumption DEF TimerAfter, TypeOK
  <2>3. \A s \in Sensor : BitAfter(s, in.ir) \in BOOLEAN
    BY DEF BitAfter
  <2>4. 0 \in 0 .. MaxCrossTimer
    BY ConstantsAssumption
  <2>5. crossBit \in [Sensor -> BOOLEAN]
        /\ crossTimer \in [Sensor -> 0 .. MaxCrossTimer]
    BY DEF TypeOK
  <2>6. CASE UNCHANGED crossVars
    BY <2>5, <2>6 DEF crossVars
  <2>7. CASE crossBit' = [s \in Sensor |-> FALSE]
             /\ crossTimer' = [s \in Sensor |-> 0]
    BY <2>4, <2>7
  <2>8. CASE crossBit' = [s \in Sensor |-> BitAfter(s, in.ir)]
             /\ crossTimer' = [s \in Sensor |-> TimerAfter(s, in.ir)]
    BY <2>2, <2>3, <2>8
  <2>9. QED
    BY <2>1, <2>6, <2>7, <2>8 DEF HandleIrSensors
<1>4. (setting \in NxpModeSetting)'
  <2>1. SelectMode(in)
    BY DEF Update
  <2>2. QED
    BY <2>1, SelectedType DEF SelectMode, ModeChanged, TypeOK
<1>5. (frames \in 0 .. HistorySize + 1)'
  <2>1. TraceImage(in)
    BY DEF Update
  <2>2. QED
    BY <2>1, ConstantsAssumption DEF TraceImage, TypeOK
<1>6. (inAuto \in BOOLEAN /\ regOut \in -ServoLimit .. ServoLimit)'
  <2>1. Regulate(s2, in) /\ in.out \in -ServoLimit .. ServoLimit
    BY InputsAssumption DEF Update
  <2>2. QED
    BY <2>1, ConstantsAssumption DEF Regulate, TypeOK
<1>7. (inZone \in BOOLEAN /\ zoneDebounce \in 0 .. ZoneDelay
        /\ prevZones \in 0 .. 255)'
  <2>1. DetectZone(s2, in) /\ in.whites \in 0 .. 255
    BY InputsAssumption DEF Update
  <2>2. inZone \in BOOLEAN /\ zoneDebounce \in 0 .. ZoneDelay
        /\ prevZones \in 0 .. 255 /\ ZoneDelay \in 0 .. 255
    BY ConstantsAssumption DEF TypeOK
  <2>3. inZone' \in BOOLEAN
    BY <2>1, <2>2 DEF DetectZone
  <2>4. zoneDebounce' \in 0 .. ZoneDelay /\ prevZones' \in 0 .. 255
    BY <2>1, <2>2 DEF DetectZone
  <2>5. QED
    BY <2>3, <2>4
<1>8. (motorsState \in MotorsState /\ motorSpeed \in 0 .. Word - 1
        /\ startTimer \in 0 .. StartSteps)'
  <2>1. DriveMotors(s2)
    BY DEF Update
  <2>2. setting'.maxSpeed \in 0 .. Word - 1
    BY <1>4 DEF NxpModeSetting
  <2>3. (motorSpeed + PwmStep) % Word \in 0 .. Word - 1
    <3>1. motorSpeed + PwmStep \in Int
      BY ConstantsAssumption, WordPositive DEF TypeOK
    <3>2. QED
      BY <3>1, WordType
  <2>4. CASE s2 = "Stay" /\ StandStep
    BY <2>4, ConstantsAssumption, WordPositive DEF StandStep, MotorsState
  <2>5. CASE s2 = "Start" /\ StartStep
    BY <2>2, <2>3, <2>5, ConstantsAssumption DEF StartStep, MotorsState, TypeOK
  <2>6. CASE s2 = "Ride" /\ RideStep
    BY <2>2, <2>6 DEF RideStep, MotorsState, TypeOK
  <2>7. CASE s2 = "Brake" /\ BrakeStep
    BY <2>7, WordPositive DEF BrakeStep, MotorsState, TypeOK
  <2>8. QED
    BY <2>1, <2>4, <2>5, <2>6, <2>7 DEF DriveMotors
<1>9. (servoPos \in Int
        /\ servoTrend \in {"increasing", "decreasing", "staying"})'
  <2>1. SetServo(s2, in)
    BY DEF Update
  <2> DEFINE target == IF s2 = "Stay" THEN 0 ELSE regOut'
  <2>2. target \in Int
    BY <1>6, ConstantsAssumption
  <2>3. servoPos \in Int
    BY DEF TypeOK
  <2>4. /\ Clip(RateLimited(target, servoPos)) \in Int
        /\ Sharpen(Clip(RateLimited(target, servoPos))) \in Int
    BY <2>2, <2>3, ServoType
  <2>5. QED
    BY <2>1, <2>4 DEF SetServo
<1>10. (pwm \in {"off", "full", "half"})'
  BY DEF Update, SetRide
<1>11. QED
  BY <1>2, <1>3, <1>4, <1>5, <1>6, <1>7, <1>8, <1>9, <1>10 DEF TypeOK

\* The initial state is typed.
LEMMA InitType == Init => TypeOK
<1> SUFFICES ASSUME Init PROVE TypeOK
  OBVIOUS
<1>1. motorsState \in MotorsState /\ motorSpeed \in 0 .. Word - 1
      /\ startTimer \in 0 .. StartSteps
  BY ConstantsAssumption, WordPositive DEF Init, MotorsState
<1>2. debounce \in BOOLEAN /\ debounceCounter \in 0 .. DebounceMax - 1
      /\ btns \in SUBSET Button
  <2>1. debounceCounter \in 0 .. DebounceMax - 1
    BY ConstantsAssumption DEF Init
  <2>2. debounce \in BOOLEAN /\ btns \in SUBSET Button
    BY Zenon DEF Init
  <2>3. QED
    BY <2>1, <2>2
<1>3. crossBit \in [Sensor -> BOOLEAN]
      /\ crossTimer \in [Sensor -> 0 .. MaxCrossTimer]
  BY ConstantsAssumption DEF Init
<1>4. setting \in NxpModeSetting
  BY ConstantsAssumption DEF Init, FixedModes
<1>5. frames \in 0 .. HistorySize + 1 /\ regOut \in -ServoLimit .. ServoLimit
      /\ zoneDebounce \in 0 .. ZoneDelay /\ prevZones \in 0 .. 255
      /\ servoPos \in Int
  BY ConstantsAssumption DEF Init
<1>6. inAuto \in BOOLEAN /\ inZone \in BOOLEAN
      /\ servoTrend \in {"increasing", "decreasing", "staying"}
      /\ pwm \in {"off", "full", "half"}
  BY DEF Init
<1>7. QED
  BY <1>1, <1>2, <1>3, <1>4, <1>5, <1>6 DEF TypeOK

\* What UNCHANGED vars says of each variable.
LEMMA Unchanged ==
  ASSUME UNCHANGED vars
  PROVE  /\ UNCHANGED <<motorsState, motorSpeed, startTimer>>
         /\ UNCHANGED <<debounce, debounceCounter, btns>>
         /\ UNCHANGED <<crossBit, crossTimer>> /\ UNCHANGED <<setting, frames>>
         /\ UNCHANGED <<inAuto, regOut>>
         /\ UNCHANGED <<inZone, zoneDebounce, prevZones>>
         /\ UNCHANGED <<servoPos, servoTrend, pwm>>
  BY DEF vars, motorVars, btnVars, crossVars, modeVars, regVars, zoneVars,
         rideVars

LEMMA SwitchType ==
  ASSUME TypeOK, SwitchToStayMode
  PROVE  TypeOK'
<1>1. /\ UNCHANGED <<motorSpeed, startTimer, setting>>
      /\ UNCHANGED <<debounce, debounceCounter, btns>>
      /\ UNCHANGED <<crossBit, crossTimer>>
      /\ UNCHANGED <<inZone, zoneDebounce, prevZones>>
      /\ UNCHANGED <<servoPos, servoTrend, pwm>>
  BY DEF SwitchToStayMode, btnVars, crossVars, zoneVars, rideVars
<1>2. motorsState' \in MotorsState
  BY DEF SwitchToStayMode, MotorsState
<1>3. frames' \in 0 .. HistorySize + 1 /\ regOut' \in -ServoLimit .. ServoLimit
  BY ConstantsAssumption DEF SwitchToStayMode
<1>4. inAuto' \in BOOLEAN
  BY DEF SwitchToStayMode
<1>5. QED
  BY <1>1, <1>2, <1>3, <1>4 DEF TypeOK

\* The members of the car object keep their types in every run of the car.
THEOREM TypeCorrect == Spec => []TypeOK
<1>1. TypeOK /\ [Next]_vars => TypeOK'
  <2> SUFFICES ASSUME TypeOK, [Next]_vars
               PROVE  TypeOK'
    OBVIOUS
  <2>1. CASE \E in \in Inputs : Update(in)
    BY <2>1, UpdateType
  <2>2. CASE SwitchToStayMode
    BY <2>2, SwitchType
  <2>3. CASE UNCHANGED vars
    BY <2>3, Unchanged DEF TypeOK
  <2>4. QED
    BY <2>1, <2>2, <2>3 DEF Next
<1>2. QED
  BY <1>1, InitType, PTL DEF Spec

-----------------------------------------------------------------------------
(* Safety: the invariant is the type invariant and the four state          *)
(* invariants together.  None of the four is inductive alone: the ramp     *)
(* starts from the zero speed of StandsStill, and a start that begins with *)
(* a manual regulator has the zero output of RegulatorConsistent.          *)

CarInv == TypeOK /\ StandsStill /\ RampBudget /\ RegulatorConsistent
          /\ CrossingConsistent

\* Arithmetic of the ramp.
LEMMA OneStep ==
  ASSUME NEW t \in Nat \ {0}, NEW p \in Nat
  PROVE  (t - 1) * p + p = t * p /\ t * p >= p
<1>1. (t - 1) * p + p = t * p
  BY SMT
<1>2. (t - 1) * p >= 0
  BY SMT
<1>3. (t - 1) * p \in Int /\ t * p \in Int
  BY SMT
<1>4. QED
  BY <1>1, <1>2, <1>3

LEMMA FewerSteps ==
  ASSUME NEW s \in Nat, NEW t \in 0 .. s, NEW p \in Nat
  PROVE  t * p <= s * p
<1>1. (s - t) * p >= 0
  BY SMT
<1>2. s * p = (s - t) * p + t * p
  BY SMT
<1>3. (s - t) * p \in Int /\ t * p \in Int
  BY SMT
<1>4. QED
  BY <1>1, <1>2, <1>3

LEMMA RampArithmetic ==
  ASSUME NEW m \in Nat, NEW p \in Nat, NEW now \in Int, NEW left \in Int,
         NEW all \in Int, left + p = now, now >= p,
         m + now <= all, all < Word
  PROVE  /\ m + p \in 0 .. Word - 1
         /\ m + p + left <= all /\ m + left <= all
<1>1. m + p <= all
  OBVIOUS
<1>2. m + p < Word /\ m + p \in Nat /\ Word \in Nat
  BY <1>1, WordPositive
<1>3. m + p + left <= all /\ m + left <= all
  OBVIOUS
<1>4. QED
  BY <1>2, <1>3

LEMMA NoWrap == ASSUME NEW x \in 0 .. Word - 1 PROVE x % Word = x
<1>1. ASSUME NEW n \in Int, n > 0, NEW y \in 0 .. n - 1
      PROVE  y % n = y
  OBVIOUS
<1>2. QED
  BY <1>1, WordPositive

\* The state an update starts to drive in, after the buttons and the
\* sensors, is the state before the call unless B or a crossing changed it.
LEMMA Entered ==
  ASSUME TypeOK, NEW in \in Inputs
  PROVE  LET s2 == AfterIr(AfterBtns(in.pushed), in)
         IN /\ s2 = "Start" => \/ motorsState = "Start"
                               \/ /\ motorsState = "Stay"
                                  /\ Pressed("B", in.pushed)
            /\ s2 \in {"Ride", "Brake"} => motorsState \in {"Ride", "Brake"}
            /\ s2 = "Stay" => \/ motorsState = "Stay"
                              \/ Pressed("B", in.pushed)
  BY DEF TypeOK, MotorsState, AfterBtns, AfterIr, IrHandled

LEMMA UpdateStandsStill ==
  ASSUME NEW in \in Inputs, Update(in)
  PROVE  StandsStill'
<1> DEFINE s2 == AfterIr(AfterBtns(in.pushed), in)
<1>1. DriveMotors(s2) /\ SetRide(in)
  BY DEF Update
<1>2. motorsState' \in {"Stay", "Brake"} => motorSpeed' = 0
  BY <1>1 DEF DriveMotors, StandStep, StartStep, RideStep, BrakeStep
<1>3. motorSpeed' = 0 => pwm' = "off"
  BY <1>1 DEF SetRide
<1>4. QED
  BY <1>2, <1>3 DEF StandsStill

LEMMA UpdateRampBudget ==
  ASSUME CarInv, NEW in \in Inputs, Update(in)
  PROVE  RampBudget'
<1> DEFINE s2 == AfterIr(AfterBtns(in.pushed), in)
<1>1. DriveMotors(s2)
  BY DEF Update
<1>2. /\ StartSteps \in Nat /\ PwmStep \in Nat /\ startTimer \in 0 .. StartSteps
      /\ motorSpeed \in Nat
  BY ConstantsAssumption DEF CarInv, TypeOK
<1>3. ASSUME s2 = "Start"
      PROVE  motorSpeed + startTimer * PwmStep <= StartSteps * PwmStep
  <2>1. CASE motorsState = "Start"
    BY <2>1 DEF CarInv, RampBudget
  <2>2. CASE motorsState = "Stay"
    <3>1. motorSpeed = 0
      BY <2>2 DEF CarInv, StandsStill
    <3>2. startTimer * PwmStep <= StartSteps * PwmStep
      BY <1>2, FewerSteps
    <3>3. startTimer * PwmStep \in Int
      BY <1>2, SMT
    <3>4. QED
      BY <3>1, <3>2, <3>3
  <2>3. QED
    BY <1>3, <2>1, <2>2, Entered DEF CarInv
<1>4. CASE s2 = "Stay" /\ StandStep
  BY <1>4 DEF StandStep, RampBudget
<1>5. CASE s2 = "Start" /\ StartStep /\ startTimer = 0
  BY <1>5 DEF StartStep, RampBudget
<1>6. CASE s2 = "Start" /\ StartStep /\ startTimer # 0
  <2>1. /\ motorsState' = "Start" /\ startTimer' = startTimer - 1
        /\ motorSpeed' \in {motorSpeed, (motorSpeed + PwmStep) % Word}
    BY <1>6 DEF StartStep
  <2> DEFINE left == (startTimer - 1) * PwmStep
             all  == StartSteps * PwmStep
             now  == startTimer * PwmStep
  <2>2. left + PwmStep = now /\ now >= PwmStep
    BY <1>2, <1>6, OneStep
  <2>3. left \in Int /\ all \in Int /\ now \in Int
    BY <1>2, SMT
  <2>4. motorSpeed + now <= all /\ all < Word
    BY <1>3, <1>6, RampAssumption
  <2>5. /\ motorSpeed + PwmStep \in 0 .. Word - 1
        /\ motorSpeed + PwmStep + left <= all /\ motorSpeed + left <= all
    <3> HIDE DEF left, all, now
    <3>1. motorSpeed \in Nat /\ PwmStep \in Nat
      BY <1>2
    <3>2. QED
      BY <3>1, <2>2, <2>3, <2>4, RampArithmetic
  <2>6. (motorSpeed + PwmStep) % Word = motorSpeed + PwmStep
    BY <2>5, NoWrap
  <2>7. motorSpeed' + left <= all
    BY <2>1, <2>5, <2>6
  <2>8. QED
    BY <2>1, <2>7 DEF RampBudget
<1>7. CASE s2 = "Ride" /\ RideStep
  BY <1>7, Entered DEF RideStep, RampBudget, CarInv
<1>8. CASE s2 = "Brake" /\ BrakeStep
  BY <1>8, Entered DEF BrakeStep, RampBudget, CarInv
<1>9. QED
  BY <1>1, <1>4, <1>5, <1>6, <1>7, <1>8 DEF DriveMotors

\* The speed of a start never shrinks.
LEMMA SpeedsUp ==
  ASSUME CarInv, motorsState = "Start", StartStep, startTimer # 0
  PROVE  motorSpeed' >= motorSpeed
<1>1. /\ StartSteps \in Nat /\ PwmStep \in Nat /\ startTimer \in Nat
      /\ motorSpeed \in Nat
  BY ConstantsAssumption DEF CarInv, TypeOK
<1> DEFINE left == (startTimer - 1) * PwmStep
           all  == StartSteps * PwmStep
           now  == startTimer * PwmStep
<1>2. left + PwmStep = now /\ now >= PwmStep
  BY <1>1, OneStep
<1>3. left \in Int /\ all \in Int /\ now \in Int
  BY <1>1, SMT
<1>4. motorSpeed + now <= all /\ all < Word
  BY RampAssumption DEF CarInv, RampBudget
<1>5. motorSpeed + PwmStep \in 0 .. Word - 1
  <2> HIDE DEF left, all, now
  <2> QED
    BY <1>1, <1>2, <1>3, <1>4, RampArithmetic
<1>6. (motorSpeed + PwmStep) % Word = motorSpeed + PwmStep
  BY <1>5, NoWrap
<1>7. QED
  BY <1>1, <1>6 DEF StartStep

LEMMA UpdateRegulator ==
  ASSUME CarInv, NEW in \in Inputs, Update(in)
  PROVE  RegulatorConsistent'
<1> DEFINE s2 == AfterIr(AfterBtns(in.pushed), in)
<1>1. Regulate(s2, in) /\ DriveMotors(s2)
  BY DEF Update
<1>2. motorsState' = "Start" => s2 = "Start"
  BY <1>1 DEF DriveMotors, StandStep, StartStep, RideStep, BrakeStep
<1>3. /\ motorsState' = "Start" => inAuto'
      /\ motorsState' = "Stay" => ~inAuto'
  <2>1. motorsState' = "Stay" => s2 = "Stay"
    BY <1>1 DEF DriveMotors, StandStep, StartStep, RideStep, BrakeStep
  <2>2. QED
    BY <1>1, <1>2, <2>1 DEF Regulate
<1>4. ASSUME ~inAuto' PROVE regOut' = 0
  <2>1. CASE s2 = "Stay"
    <3>1. ResetsRegulator(in) \/ motorsState = "Stay"
      BY <2>1, Entered DEF CarInv, ResetsRegulator
    <3>2. motorsState = "Stay" => ~inAuto
      BY DEF CarInv, RegulatorConsistent
    <3>3. QED
      BY <1>1, <2>1, <3>1, <3>2 DEF Regulate, CarInv, RegulatorConsistent
  <2>2. CASE s2 # "Stay"
    BY <1>1, <1>4, <2>2 DEF Regulate, CarInv, RegulatorConsistent
  <2>3. QED
    BY <2>1, <2>2
<1>5. QED
  BY <1>3, <1>4 DEF RegulatorConsistent

LEMMA UpdateCrossing ==
  ASSUME CarInv, NEW in \in Inputs, Update(in)
  PROVE  CrossingConsistent'
<1> DEFINE s1 == AfterBtns(in.pushed)
<1>1. HandleIrSensors(s1, in)
  BY DEF Update
<1>2. {"left", "right"} \subseteq Sensor
  BY DEF Sensor
<1>3. \A s \in Sensor : crossTimer[s] \in 0 .. MaxCrossTimer
  BY DEF CarInv, TypeOK
<1>4. CASE UNCHANGED crossVars
  BY <1>4 DEF crossVars, CarInv, CrossingConsistent
<1>5. CASE /\ crossBit' = [s \in Sensor |-> FALSE]
           /\ crossTimer' = [s \in Sensor |-> 0]
  BY <1>2, <1>5 DEF CrossingConsistent
<1>6. CASE /\ ~LineCrossed(in.ir)
           /\ crossBit' = [s \in Sensor |-> BitAfter(s, in.ir)]
           /\ crossTimer' = [s \in Sensor |-> TimerAfter(s, in.ir)]
  <2>1. ~(crossBit'["left"] /\ crossBit'["right"])
    BY <1>2, <1>6 DEF LineCrossed
  <2>2. ASSUME NEW s \in Sensor, crossTimer'[s] > 0
        PROVE  crossBit'[s]
    <3>1. s \in in.ir \/ crossTimer[s] > 0
      BY <1>6, <2>2 DEF TimerAfter
    <3>2. crossTimer[s] > 0 => crossBit[s]
      BY DEF CarInv, CrossingConsistent
    <3>3. QED
      BY <1>6, <3>1, <3>2 DEF BitAfter
  <2>3. QED
    BY <2>1, <2>2 DEF CrossingConsistent
<1>7. QED
  BY <1>1, <1>4, <1>5, <1>6 DEF HandleIrSensors

LEMMA SwitchCarInv ==
  ASSUME CarInv, SwitchToStayMode
  PROVE  CarInv'
<1>1. TypeOK'
  BY SwitchType DEF CarInv
<1>2. /\ motorsState = "Brake" /\ motorsState' = "Stay"
      /\ regOut' = 0 /\ inAuto' = FALSE
      /\ UNCHANGED <<motorSpeed, startTimer>> /\ UNCHANGED pwm
      /\ UNCHANGED <<crossBit, crossTimer>>
  BY DEF SwitchToStayMode, crossVars, rideVars
<1>3. StandsStill' /\ RampBudget' /\ RegulatorConsistent'
  BY <1>2 DEF CarInv, StandsStill, RampBudget, RegulatorConsistent
<1>4. CrossingConsistent'
  BY <1>2 DEF CarInv, CrossingConsistent
<1>5. QED
  BY <1>1, <1>3, <1>4 DEF CarInv

LEMMA InitCarInv == Init => CarInv
<1> SUFFICES ASSUME Init PROVE CarInv
  OBVIOUS
<1>1. TypeOK
  BY InitType
<1>2. StandsStill /\ RampBudget /\ RegulatorConsistent
  BY DEF Init, StandsStill, RampBudget, RegulatorConsistent
<1>3. CrossingConsistent
  BY DEF Init, CrossingConsistent, Sensor
<1>4. QED
  BY <1>1, <1>2, <1>3 DEF CarInv

LEMMA NextCarInv == CarInv /\ [Next]_vars => CarInv'
<1> SUFFICES ASSUME CarInv, [Next]_vars
             PROVE  CarInv'
  OBVIOUS
<1>1. ASSUME NEW in \in Inputs, Update(in)
      PROVE  CarInv'
  <2>1. TypeOK'
    BY <1>1, UpdateType DEF CarInv
  <2>2. QED
    BY <1>1, <2>1, UpdateStandsStill, UpdateRampBudget, UpdateRegulator,
       UpdateCrossing DEF CarInv
<1>2. CASE SwitchToStayMode
  BY <1>2, SwitchCarInv
<1>3. CASE UNCHANGED vars
  <2>1. TypeOK'
    BY <1>3, Unchanged DEF CarInv, TypeOK
  <2>2. StandsStill' /\ RampBudget' /\ RegulatorConsistent'
    BY <1>3, Unchanged
       DEF CarInv, StandsStill, RampBudget, RegulatorConsistent
  <2>3. CrossingConsistent'
    BY <1>3, Unchanged DEF CarInv, CrossingConsistent
  <2>4. QED
    BY <2>1, <2>2, <2>3 DEF CarInv
<1>4. QED
  BY <1>1, <1>2, <1>3 DEF Next

LEMMA CarInvariant == Spec => []CarInv
  BY InitCarInv, NextCarInv, PTL DEF Spec

\* A standing or braking car is given no speed, on every path into Stay and
\* Brake.
THEOREM StandsStillHolds == Spec => []StandsStill
<1>1. CarInv => StandsStill
  BY DEF CarInv
<1>2. QED
  BY <1>1, CarInvariant, PTL

\* The start ramp stays within its budget, so it never wraps 16 bits.
THEOREM RampBudgetHolds == Spec => []RampBudget
<1>1. CarInv => RampBudget
  BY DEF CarInv
<1>2. QED
  BY <1>1, CarInvariant, PTL

\* The regulator's mode and output agree with the driving state.
THEOREM RegulatorConsistentHolds == Spec => []RegulatorConsistent
<1>1. CarInv => RegulatorConsistent
  BY DEF CarInv
<1>2. QED
  BY <1>1, CarInvariant, PTL

\* The IR bits and timers are consistent and never left in the state that
\* should have braked the car.
THEOREM CrossingConsistentHolds == Spec => []CrossingConsistent
<1>1. CarInv => CrossingConsistent
  BY DEF CarInv
<1>2. QED
  BY <1>1, CarInvariant, PTL

-----------------------------------------------------------------------------
(* The action property and the two refinements.                            *)

\* Only the button takes the car to Start or out of Ride to Stay, and a
\* pressed B never leaves it in Ride or Brake.
LEMMA AfterB ==
  ASSUME TypeOK, NEW in \in Inputs, Pressed("B", in.pushed)
  PROVE  AfterIr(AfterBtns(in.pushed), in) \in {"Stay", "Start"}
  BY DEF TypeOK, MotorsState, AfterBtns, AfterIr, IrHandled

\* In a driving car the regulator drops out of automatic mode only by a
\* change of the mode setting.
THEOREM RegulatorLostOnlyByModeChangeHolds ==
  Spec => RegulatorLostOnlyByModeChange
<1> DEFINE Lost == inAuto /\ ~inAuto' => motorsState' = "Stay" \/ setting' # setting
<1>1. ASSUME CarInv, NEW in \in Inputs, Update(in), inAuto, ~inAuto'
      PROVE  motorsState' = "Stay" \/ setting' # setting
  <2> DEFINE s2 == AfterIr(AfterBtns(in.pushed), in)
  <2>1. Regulate(s2, in) /\ DriveMotors(s2) /\ SelectMode(in)
    BY <1>1 DEF Update
  <2>2. CASE s2 = "Stay"
    BY <2>1, <2>2 DEF DriveMotors, StandStep
  <2>3. CASE s2 # "Stay"
    <3>1. s2 # "Start" /\ ResetsRegulator(in)
      BY <1>1, <2>1, <2>3 DEF Regulate
    <3>2. ModeChanged(in)
      BY <1>1, <2>3, <3>1, AfterB DEF ResetsRegulator, CarInv
    <3>3. setting' = Selected(in) /\ ~SameSetting(setting, Selected(in))
      BY <2>1, <3>2 DEF SelectMode, ModeChanged
    <3>4. QED
      BY <3>3 DEF SameSetting
  <2>4. QED
    BY <2>2, <2>3
<1>2. CarInv /\ [Next]_vars => [Lost]_vars
  <2> SUFFICES ASSUME CarInv, Next PROVE Lost
    OBVIOUS
  <2>1. CASE SwitchToStayMode
    BY <2>1 DEF SwitchToStayMode
  <2>2. QED
    BY <1>1, <2>1 DEF Next
<1>3. QED
  BY <1>2, CarInvariant, PTL DEF Spec, RegulatorLostOnlyByModeChange

\* One update is a step, or a stutter, of the drive cycle.
LEMMA UpdateCycle ==
  ASSUME CarInv, NEW in \in Inputs, Update(in)
  PROVE  [Cycle!Next]_(Cycle!vars)
<1> DEFINE s2 == AfterIr(AfterBtns(in.pushed), in)
           moving == motorSpeed # 0
<1>1. DriveMotors(s2)
  BY DEF Update
<1>2. motorsState \in MotorsState /\ motorSpeed \in Nat
  BY DEF CarInv, TypeOK
<1>3. motorsState \in {"Stay", "Brake"} => motorSpeed = 0
  BY DEF CarInv, StandsStill
<1> USE DEF Cycle!Next, Cycle!vars
<1>4. CASE s2 = "Stay" /\ StandStep
  <2>1. motorsState \in {"Stay", "Ride", "Brake"}
    BY <1>4, <1>2 DEF AfterIr, AfterBtns, MotorsState
  <2>2. motorsState' = "Stay" /\ motorSpeed' = 0
    BY <1>4 DEF StandStep
  <2>3. QED
    BY <1>3, <2>1, <2>2 DEF Cycle!Halt, Cycle!Settle
<1>5. CASE s2 = "Start" /\ StartStep
  <2>1. motorsState \in {"Stay", "Start"}
    BY <1>5, Entered DEF CarInv
  <2>2. CASE startTimer = 0
    BY <1>5, <1>3, <2>1, <2>2 DEF StartStep, Cycle!Launch, Cycle!Cruise
  <2>3. CASE startTimer # 0
    <3>1. motorsState' = "Start"
      BY <1>5, <2>3 DEF StartStep
    <3>2. CASE motorsState = "Stay"
      BY <3>1, <3>2, Zenon DEF Cycle!Launch
    <3>3. CASE motorsState = "Start"
      <4>1. motorSpeed # 0 => motorSpeed' # 0
        BY <1>2, <1>5, <2>3, <3>3, SpeedsUp
      <4>2. QED
        BY <3>1, <3>3, <4>1 DEF Cycle!Accelerate
    <3>4. QED
      BY <2>1, <3>2, <3>3
  <2>4. QED
    BY <2>2, <2>3
<1>6. CASE s2 = "Ride" /\ RideStep
  <2>1. motorsState = "Ride" /\ motorsState' = "Ride"
    BY <1>6 DEF AfterIr, AfterBtns, RideStep
  <2>2. QED
    BY <2>1, Zenon DEF Cycle!Drive
<1>7. CASE s2 = "Brake" /\ BrakeStep
  <2>1. motorsState \in {"Ride", "Brake"}
    BY <1>7, Entered DEF CarInv
  <2>2. QED
    BY <1>3, <1>7, <2>1 DEF BrakeStep, Cycle!Halt
<1>8. QED
  BY <1>1, <1>4, <1>5, <1>6, <1>7 DEF DriveMotors

\* The car implements the drive cycle of DriveCycle.tla.
THEOREM DriveCycleImplemented == Spec => ImplementsDriveCycle
<1>1. Init => Cycle!Init
  BY DEF Init, Cycle!Init
<1>2. CarInv /\ [Next]_vars => [Cycle!Next]_(Cycle!vars)
  <2> SUFFICES ASSUME CarInv, [Next]_vars PROVE [Cycle!Next]_(Cycle!vars)
    OBVIOUS
  <2>1. ASSUME NEW in \in Inputs, Update(in) PROVE [Cycle!Next]_(Cycle!vars)
    BY <2>1, UpdateCycle
  <2>2. CASE SwitchToStayMode
    BY <2>2 DEF SwitchToStayMode, Cycle!Next, Cycle!Settle
  <2>3. CASE UNCHANGED vars
    BY <2>3, Unchanged DEF Cycle!vars
  <2>4. QED
    BY <2>1, <2>2, <2>3 DEF Next
<1>3. QED
  BY <1>1, <1>2, CarInvariant, PTL DEF Spec, ImplementsDriveCycle, Cycle!Spec

\* What the abstract specification remembers of one sensor.
Memory(bit, timer) ==
  [s \in {"left", "right"} |-> IF bit[s] THEN timer[s] + 1 ELSE 0]

\* The bits and timers after a reading are the abstract memory after it, and
\* the test for 0b101 is the abstract one.
LEMMA ReadingRemembered ==
  ASSUME TypeOK, NEW in \in Inputs
  PROVE  /\ Crossing!After(in.ir \intersect {"left", "right"})
              = Memory([s \in Sensor |-> BitAfter(s, in.ir)],
                       [s \in Sensor |-> TimerAfter(s, in.ir)])
         /\ LineCrossed(in.ir)
              <=> Crossing!Both(Crossing!After(in.ir \intersect {"left", "right"}))
<1> DEFINE white == in.ir \intersect {"left", "right"}
           bit   == [s \in Sensor |-> BitAfter(s, in.ir)]
           timer == [s \in Sensor |-> TimerAfter(s, in.ir)]
<1>1. /\ {"left", "right"} \subseteq Sensor
      /\ MaxCrossTimer \in Nat
      /\ \A s \in Sensor : crossTimer[s] \in Nat /\ crossBit[s] \in BOOLEAN
  BY ConstantsAssumption DEF Sensor, TypeOK
<1>2. ASSUME NEW s \in {"left", "right"}
      PROVE  Crossing!After(white)[s] = IF bit[s] THEN timer[s] + 1 ELSE 0
  <2>1. CASE s \in in.ir
    BY <1>1, <2>1 DEF Crossing!After, Crossing!Outer, BitAfter, TimerAfter
  <2>2. CASE s \notin in.ir /\ crossBit[s] /\ crossTimer[s] > 0
    BY <1>1, <2>2 DEF Crossing!After, Crossing!Outer, BitAfter, TimerAfter
  <2>3. CASE s \notin in.ir /\ ~(crossBit[s] /\ crossTimer[s] > 0)
    <3>1. ~BitAfter(s, in.ir)
      BY <2>3 DEF BitAfter
    <3>2. Crossing!After(white)[s] = 0
      BY <1>1, <2>3 DEF Crossing!After, Crossing!Outer
    <3>3. QED
      BY <1>1, <3>1, <3>2
  <2>4. QED
    BY <1>1, <2>1, <2>2, <2>3
<1>3. Crossing!After(white) = Memory(bit, timer)
  BY <1>2 DEF Crossing!After, Crossing!Outer, Memory
<1>4. ASSUME NEW s \in {"left", "right"}
      PROVE  BitAfter(s, in.ir) <=> Crossing!After(white)[s] > 0
  <2>1. timer[s] \in Nat
    BY <1>1 DEF TimerAfter
  <2>2. CASE BitAfter(s, in.ir)
    <3>1. Crossing!After(white)[s] = timer[s] + 1
      BY <1>1, <1>2, <2>2
    <3>2. QED
      BY <2>1, <2>2, <3>1
  <2>3. CASE ~BitAfter(s, in.ir)
    <3>1. Crossing!After(white)[s] = 0
      BY <1>1, <1>2, <2>3
    <3>2. QED
      BY <2>3, <3>1
  <2>4. QED
    BY <2>2, <2>3
<1>5. LineCrossed(in.ir) <=> Crossing!Both(Crossing!After(white))
  BY <1>4 DEF LineCrossed, Crossing!Both, Crossing!Outer
<1>6. QED
  BY <1>3, <1>5

LEMMA UpdateCrosses ==
  ASSUME CarInv, NEW in \in Inputs, Update(in)
  PROVE  [Crossing!Next]_(Crossing!vars)
<1> DEFINE s1 == AfterBtns(in.pushed)
           s2 == AfterIr(s1, in)
           white == in.ir \intersect {"left", "right"}
           mem == Memory(crossBit, crossTimer)
<1>1. HandleIrSensors(s1, in) /\ DriveMotors(s2)
  BY DEF Update
<1>2. motorsState' = "Brake" => s2 = "Brake"
  BY <1>1 DEF DriveMotors, StandStep, StartStep, RideStep, BrakeStep
<1>3. TypeOK
  BY DEF CarInv
<1> USE DEF Crossing!Next, Crossing!vars
<1>4. CASE ~IrHandled(s1, in) /\ UNCHANGED crossVars
  <2>1. s2 = "Brake" => motorsState = "Brake"
    BY <1>3, <1>4 DEF AfterIr, AfterBtns, TypeOK, MotorsState
  <2>2. Crossing!Elsewhere
    BY <1>2, <1>4, <2>1 DEF Crossing!Elsewhere, crossVars
  <2>3. QED
    BY <2>2
<1>5. CASE IrHandled(s1, in)
  <2>1. motorsState = "Ride" /\ s1 = "Ride"
    BY <1>5 DEF IrHandled, AfterBtns
  <2>2. white \in SUBSET Crossing!Outer
    BY DEF Crossing!Outer
  <2>3. CASE /\ LineCrossed(in.ir)
             /\ crossBit' = [s \in Sensor |-> FALSE]
             /\ crossTimer' = [s \in Sensor |-> 0]
    <3>1. motorsState' = "Brake"
      BY <1>1, <1>5, <2>3 DEF AfterIr, DriveMotors, BrakeStep
    <3>2. Memory(crossBit', crossTimer') = [s \in Crossing!Outer |-> 0]
      BY <2>3 DEF Memory, Crossing!Outer, Sensor
    <3>3. Crossing!Both(Crossing!After(white))
      BY <1>3, <2>3, ReadingRemembered
    <3>4. Crossing!Cross(white)
      BY <2>1, <3>1, <3>2, <3>3 DEF Crossing!Cross, Memory
    <3>5. QED
      BY <2>2, <3>4
  <2>4. CASE /\ ~LineCrossed(in.ir)
             /\ crossBit' = [s \in Sensor |-> BitAfter(s, in.ir)]
             /\ crossTimer' = [s \in Sensor |-> TimerAfter(s, in.ir)]
    <3>1. motorsState' = "Ride"
      BY <1>1, <2>1, <2>4 DEF AfterIr, DriveMotors, RideStep
    <3>2. Memory(crossBit', crossTimer') = Crossing!After(white)
      BY <1>3, <2>4, ReadingRemembered
    <3>3. ~Crossing!Both(Crossing!After(white))
      BY <1>3, <2>4, ReadingRemembered
    <3>4. Crossing!Look(white)
      BY <2>1, <3>1, <3>2, <3>3 DEF Crossing!Look, Memory
    <3>5. QED
      BY <2>2, <3>4
  <2>5. QED
    BY <1>1, <1>5, <2>3, <2>4 DEF HandleIrSensors
<1>6. QED
  BY <1>1, <1>4, <1>5 DEF HandleIrSensors

\* The car implements the detection of LineCrossing.tla: each outer sensor is
\* one countdown, and Brake is entered exactly when both run.
THEOREM LineCrossingImplemented == Spec => ImplementsLineCrossing
<1>1. Init => Crossing!Init
  BY DEF Init, Crossing!Init, Crossing!Outer, Sensor
<1>2. CarInv /\ [Next]_vars => [Crossing!Next]_(Crossing!vars)
  <2> SUFFICES ASSUME CarInv, [Next]_vars PROVE [Crossing!Next]_(Crossing!vars)
    OBVIOUS
  <2>1. ASSUME NEW in \in Inputs, Update(in)
        PROVE  [Crossing!Next]_(Crossing!vars)
    BY <2>1, UpdateCrosses
  <2>2. CASE SwitchToStayMode
    BY <2>2 DEF SwitchToStayMode, crossVars, Crossing!Next, Crossing!Elsewhere
  <2>3. CASE UNCHANGED vars
    BY <2>3, Unchanged DEF Crossing!vars
  <2>4. QED
    BY <2>1, <2>2, <2>3 DEF Next
<1>3. QED
  BY <1>1, <1>2, CarInvariant, PTL DEF Spec, ImplementsLineCrossing, Crossing!Spec

=============================================================================

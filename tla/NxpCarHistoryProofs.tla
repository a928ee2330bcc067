------------------------- MODULE NxpCarHistoryProofs -------------------------
(***************************************************************************)
(* Proofs about NxpCarHistory, for every value of its constants.           *)
(*                                                                         *)
(* The memory of the IR sensors is exact.  CrossBitExact is not inductive: *)
(* it does not say how much longer a bit stays set.  MemoryInv does: the   *)
(* age of a remembered reading and the rest of its timer add up to         *)
(* MaxCrossTimer.                                                          *)
(*                                                                         *)
(* The properties of button B hang on the debouncing, so their invariant   *)
(* counts in updates since the buttons were sampled.  What is proved of    *)
(* the zone and of the ramp says that what was counted and what is left in *)
(* the program's own counter add up.                                       *)
(***************************************************************************)
EXTENDS NxpCarHistory, NxpCarProofs

MemoryOf(s) ==
  /\ crossBit[s]  => age[s] + crossTimer[s] = MaxCrossTimer
  /\ ~crossBit[s] => age[s] = Forgotten /\ crossTimer[s] = 0

MemoryInv ==
  /\ age \in [Sensor -> 0 .. Forgotten]
  /\ \A s \in Sensor : MemoryOf(s)

\* The history variables never change what the car does.
LEMMA HistoryIsCar == HSpec => Spec
<1>1. HInit => Init
  BY DEF HInit
<1>2. [HNext]_hvars => [Next]_vars
  BY DEF HNext, HUpdate, HSwitch, hvars, Next
<1>3. QED
  BY <1>1, <1>2, PTL DEF HSpec, Spec

LEMMA InitMemory == HInit => MemoryInv
  BY ConstantsAssumption DEF HInit, Init, MemoryInv, MemoryOf, Forgotten

LEMMA UpdateMemory ==
  ASSUME CarInv, MemoryInv, NEW in \in Inputs, HUpdate(in)
  PROVE  MemoryInv'
<1> DEFINE s1 == AfterBtns(in.pushed)
<1>1. HandleIrSensors(s1, in) /\ RecordCrossing(in)
  BY DEF HUpdate, Update
<1>2. /\ MaxCrossTimer \in Nat
      /\ \A s \in Sensor : /\ crossTimer[s] \in 0 .. MaxCrossTimer
                            /\ age[s] \in 0 .. MaxCrossTimer + 1
                            /\ crossBit[s] \in BOOLEAN
  BY ConstantsAssumption DEF CarInv, TypeOK, MemoryInv, Forgotten
<1>3. CASE ~IrHandled(s1, in)
  BY <1>1, <1>3 DEF HandleIrSensors, RecordCrossing, crossVars, MemoryInv, MemoryOf
<1>4. CASE IrHandled(s1, in) /\ LineCrossed(in.ir)
  BY <1>1, <1>2, <1>4
     DEF HandleIrSensors, RecordCrossing, MemoryInv, MemoryOf, Forgotten
<1>5. CASE IrHandled(s1, in) /\ ~LineCrossed(in.ir)
  <2>1. /\ crossBit' = [s \in Sensor |-> BitAfter(s, in.ir)]
        /\ crossTimer' = [s \in Sensor |-> TimerAfter(s, in.ir)]
    BY <1>1, <1>5 DEF HandleIrSensors
  <2>2. age' = [s \in Sensor |-> IF s \in in.ir THEN 0
                                 ELSE Capped(age[s] + 1, Forgotten)]
    BY <1>1, <1>5 DEF RecordCrossing
  <2>3. ASSUME NEW s \in Sensor
        PROVE  age'[s] \in 0 .. Forgotten /\ MemoryOf(s)'
    <3>1. CASE s \in in.ir
      <4>1. crossBit'[s] /\ crossTimer'[s] = MaxCrossTimer
        BY <2>1, <3>1 DEF BitAfter, TimerAfter
      <4>2. age'[s] = 0
        BY <2>2, <3>1
      <4>3. QED
        BY <1>2, <4>1, <4>2 DEF MemoryOf, Forgotten
    <3>2. CASE s \notin in.ir /\ crossBit[s] /\ crossTimer[s] > 0
      <4>1. crossBit'[s] /\ crossTimer'[s] = crossTimer[s] - 1
        BY <2>1, <3>2 DEF BitAfter, TimerAfter
      <4>2. age'[s] = age[s] + 1
        BY <1>2, <2>2, <3>2 DEF Capped, Forgotten, MemoryInv, MemoryOf
      <4>3. QED
        BY <1>2, <3>2, <4>1, <4>2 DEF MemoryInv, MemoryOf, Forgotten
    <3>3. CASE s \notin in.ir /\ ~(crossBit[s] /\ crossTimer[s] > 0)
      <4>1. ~crossBit'[s]
        BY <2>1, <3>3 DEF BitAfter
      <4>2. crossTimer[s] = 0 /\ age[s] >= MaxCrossTimer
        BY <1>2, <3>3 DEF MemoryInv, MemoryOf, Forgotten
      <4>3. crossTimer'[s] = 0 /\ age'[s] = Forgotten
        BY <1>2, <2>1, <2>2, <3>3, <4>2 DEF TimerAfter, Capped, Forgotten
      <4>4. QED
        BY <1>2, <4>1, <4>3 DEF MemoryOf, Forgotten
    <3>4. QED
      BY <3>1, <3>2, <3>3
  <2>4. QED
    BY <2>2, <2>3 DEF MemoryInv
<1>6. QED
  BY <1>3, <1>4, <1>5

LEMMA MemoryInvariant == HSpec => []MemoryInv
<1>1. CarInv /\ MemoryInv /\ [HNext]_hvars => MemoryInv'
  <2> SUFFICES ASSUME CarInv, MemoryInv, [HNext]_hvars PROVE MemoryInv'
    OBVIOUS
  <2>1. CASE HSwitch
    BY <2>1 DEF HSwitch, SwitchToStayMode, history, crossVars, MemoryInv, MemoryOf
  <2>2. CASE UNCHANGED hvars
    <3>1. UNCHANGED vars /\ UNCHANGED age
      BY <2>2 DEF hvars, history
    <3>2. QED
      BY <3>1, Unchanged DEF MemoryInv, MemoryOf
  <2>3. QED
    BY <2>1, <2>2, UpdateMemory DEF HNext
<1>2. QED
  BY <1>1, InitMemory, HistoryIsCar, CarInvariant, PTL DEF HSpec

\* For every window length: a bit is set exactly while its sensor's last
\* white reading is at most MaxCrossTimer readings old and unconsumed.
THEOREM CrossBitExactHolds == HSpec => []CrossBitExact
<1>1. CarInv /\ MemoryInv => CrossBitExact
  BY ConstantsAssumption
     DEF CarInv, TypeOK, MemoryInv, MemoryOf, CrossBitExact, Forgotten
<1>2. QED
  BY <1>1, MemoryInvariant, HistoryIsCar, CarInvariant, PTL

\* No crossing is missed: the two outer sensors never both have a recent
\* white reading after an update.
THEOREM NoCrossingMissedHolds == HSpec => []NoCrossingMissed
<1>1. CarInv /\ CrossBitExact => NoCrossingMissed
  BY DEF CarInv, CrossingConsistent, CrossBitExact, NoCrossingMissed, Sensor
<1>2. QED
  BY <1>1, CrossBitExactHolds, HistoryIsCar, CarInvariant, PTL

-----------------------------------------------------------------------------
(* Button B, the ramp and the zone: what the records of the history have   *)
(* to do with the counters of the program.                                 *)

SinceSample == IF debounce THEN debounceCounter ELSE DebounceMax

SampleInv == ~debounce => debounceCounter = 0

\* B has been up since before the last sample, or it is held and has not
\* been sampled since.
HoldInv ==
  /\ released \in 0 .. Settled /\ held \in 0 .. Settled
  /\ held > 0 => "B" \in last.pushed
  /\ "B" \notin last.pushed /\ released > SinceSample => "B" \notin btns
  /\ released = Settled /\ held > 0 => "B" \notin btns /\ held <= SinceSample

\* A button that has acted was down when it was sampled.
ActedInv ==
  acted \in BOOLEAN /\ (acted => "B" \in last.pushed /\ "B" \in btns)

\* A start has all its steps before it, but for switchToStayMode.
RampInv ==
  /\ switched \in BOOLEAN
  /\ motorsState = "Start" => ramp + startTimer = StartSteps /\ ramp \in Nat
  /\ motorsState # "Start" => ramp = 0
  /\ motorsState \in {"Ride", "Brake"} => startTimer = 0
  /\ motorsState = "Stay" => startTimer = IF switched THEN 0 ELSE StartSteps

\* The marks seen and those the delay still waits for.
ZoneInv == marks \in 0 .. ZoneDelay /\ marks + zoneDebounce >= ZoneDelay

\* In RideSetting the setting is that of the reading before.
SettingInv ==
  last.dip = "modeRideSetting" =>
    /\ setting.mode = "modeRideSetting"
    /\ setting.p = RoundTens(last.potP)

\* The servo is commanded at most half as much again as its limit.
ServoInv == 2 * servoPos \in -3 * ServoLimit .. 3 * ServoLimit

HistoryInv ==
  /\ SampleInv /\ HoldInv /\ ActedInv /\ RampInv
  /\ ZoneInv /\ SettingInv /\ ServoInv

LEMMA HistoryTypes ==
  /\ DebounceMax \in Nat \ {0} /\ ZoneDelay \in Nat /\ StartSteps \in Nat
  /\ ServoLimit \in Nat /\ MaxServoChange \in Nat
  /\ Settled = DebounceMax + 1
BY ConstantsAssumption DEF Settled

LEMMA InitHistory == HInit => HistoryInv
<1> SUFFICES ASSUME HInit PROVE HistoryInv
  OBVIOUS
<1>1. SampleInv
  BY DEF HInit, Init, SampleInv
<1>2. HoldInv
  BY HistoryTypes DEF HInit, Init, HoldInv
<1>3. ZoneInv
  BY HistoryTypes DEF HInit, Init, ZoneInv
<1>4. SettingInv
  BY DEF HInit, SettingInv
<1>5. ServoInv
  BY HistoryTypes DEF HInit, Init, ServoInv
<1>6. ActedInv /\ RampInv
  BY DEF HInit, Init, ActedInv, RampInv
<1>7. QED
  BY <1>1, <1>2, <1>3, <1>4, <1>5, <1>6 DEF HistoryInv

\* An update samples the buttons or counts.
LEMMA SampleOrCount ==
  ASSUME TypeOK, SampleInv, NEW in \in Inputs, Update(in)
  PROVE  /\ SampleInv' /\ SinceSample \in 0 .. DebounceMax
         /\ \/ /\ ~debounce /\ debounce' /\ btns' = in.pushed
               /\ SinceSample = DebounceMax /\ SinceSample' = 0
            \/ /\ debounce /\ btns' = btns
               /\ SinceSample < DebounceMax /\ SinceSample' = SinceSample + 1
<1>1. /\ debounceCounter \in 0 .. DebounceMax - 1 /\ DebounceMax \in Nat \ {0}
      /\ debounce \in BOOLEAN
  BY HistoryTypes DEF TypeOK
<1>2. HandleBtns(in.pushed)
  BY DEF Update
<1>3. CASE ~debounce
  BY <1>1, <1>2, <1>3 DEF HandleBtns, SampleInv, SinceSample
<1>4. CASE debounce /\ debounceCounter + 1 >= DebounceMax
  <2>1. ~debounce' /\ debounceCounter' = 0 /\ btns' = btns
    <3>1. ~(debounceCounter + 1 < DebounceMax)
      BY <1>1, <1>4
    <3>2. QED
      BY <1>2, <1>4, <3>1, Zenon DEF HandleBtns
  <2>2. SinceSample = debounceCounter /\ SinceSample' = DebounceMax
    BY <1>4, <2>1 DEF SinceSample
  <2>3. QED
    BY <1>1, <1>4, <2>1, <2>2 DEF SampleInv
<1>5. CASE debounce /\ debounceCounter + 1 < DebounceMax
  <2>1. debounce' /\ debounceCounter' = debounceCounter + 1 /\ btns' = btns
    <3>1. ~(debounceCounter + 1 >= DebounceMax)
      BY <1>1, <1>5
    <3>2. QED
      BY <1>2, <1>5, <3>1, Zenon DEF HandleBtns
  <2>2. /\ SinceSample = debounceCounter
        /\ SinceSample' = debounceCounter + 1
    BY <1>5, <2>1 DEF SinceSample
  <2>3. QED
    BY <1>1, <1>5, <2>1, <2>2 DEF SampleInv
<1>6. QED
  BY <1>1, <1>3, <1>4, <1>5

\* The driving state of an update that leaves the car in Ride or Stay.
LEMMA DrivenState ==
  ASSUME NEW in, NEW s2, DriveMotors(s2)
  PROVE  /\ motorsState' = "Stay" <=> s2 = "Stay"
         /\ s2 = "Ride" => motorsState' = "Ride"
         /\ motorsState' = "Ride" => s2 \in {"Start", "Ride"}
BY DEF DriveMotors, StandStep, StartStep, RideStep, BrakeStep

LEMMA UpdateHold ==
  ASSUME TypeOK, SampleInv, HoldInv, NEW in \in Inputs, HUpdate(in)
  PROVE  HoldInv'
<1> DEFINE down  == "B" \in in.pushed
           fresh == down /\ "B" \notin last.pushed
           rides == motorsState = "Ride" /\ motorsState' = "Ride"
<1>1. /\ released' = IF down THEN released
                     ELSE IF "B" \in last.pushed THEN 1
                     ELSE Capped(released + 1, Settled)
      /\ held' = IF down /\ rides /\ (fresh \/ held > 0)
                 THEN Capped(held + 1, Settled) ELSE 0
      /\ last' = in
  BY DEF HUpdate, RecordHold
<1>2. /\ SinceSample \in 0 .. DebounceMax
      /\ \/ /\ ~debounce /\ btns' = in.pushed
            /\ SinceSample = DebounceMax /\ SinceSample' = 0
         \/ /\ debounce /\ btns' = btns
            /\ SinceSample < DebounceMax /\ SinceSample' = SinceSample + 1
  BY SampleOrCount DEF HUpdate
<1>3. Settled = DebounceMax + 1 /\ DebounceMax \in Nat \ {0}
  BY HistoryTypes
<1>4. down /\ rides => ~Pressed("B", in.pushed)
  <2>1. ASSUME Pressed("B", in.pushed), motorsState = "Ride"
        PROVE  motorsState' = "Stay"
    <3>1. AfterIr(AfterBtns(in.pushed), in) = "Stay"
      BY <2>1 DEF AfterBtns, AfterIr, IrHandled
    <3>2. QED
      BY <3>1, DrivenState DEF HUpdate, Update
  <2>2. QED
    BY <2>1
<1>5. /\ released \in 0 .. Settled /\ held \in 0 .. Settled
      /\ held > 0 => "B" \in last.pushed
      /\ "B" \notin last.pushed /\ released > SinceSample => "B" \notin btns
      /\ released = Settled /\ held > 0 => "B" \notin btns /\ held <= SinceSample
  BY DEF HoldInv
<1> HIDE DEF rides
<1>6. released' \in 0 .. Settled /\ held' \in 0 .. Settled
  BY <1>1, <1>3, <1>5 DEF Capped
<1>7. held' > 0 => "B" \in last'.pushed
  BY <1>1, <1>3, <1>5
<1>8. "B" \notin last'.pushed /\ released' > SinceSample' => "B" \notin btns'
  BY <1>1, <1>2, <1>3, <1>5 DEF Capped
<1>9. ASSUME released' = Settled, held' > 0
      PROVE  "B" \notin btns' /\ held' <= SinceSample'
  <2>1. down /\ rides /\ (fresh \/ held > 0) /\ released = Settled
    BY <1>1, <1>9
  <2>2. "B" \notin btns /\ held <= SinceSample
    BY <1>2, <1>3, <1>5, <2>1
  <2>3. debounce
    BY <1>4, <2>1, <2>2 DEF Pressed
  <2>4. btns' = btns /\ SinceSample' = SinceSample + 1 /\ SinceSample < DebounceMax
    BY <1>2, <2>3
  <2>5. held' = held + 1
    <3>1. held' = Capped(held + 1, Settled)
      BY <1>1, <2>1
    <3>2. QED
      BY <1>2, <1>3, <1>5, <2>2, <2>4, <3>1 DEF Capped
  <2>6. QED
    BY <1>2, <1>5, <2>2, <2>4, <2>5
<1>10. (released \in 0 .. Settled)' /\ (held \in 0 .. Settled)'
  BY <1>6 DEF Settled
<1>11. QED
  BY <1>7, <1>8, <1>9, <1>10 DEF HoldInv, Settled

\* Starting and stopping by an update is a pressed button's doing, which
\* needs a sample in which B was not yet down.
LEMMA ActsBySample ==
  ASSUME NEW in \in Inputs, Update(in), StartedOrStopped
  PROVE  Pressed("B", in.pushed)
<1> DEFINE s2 == AfterIr(AfterBtns(in.pushed), in)
<1>1. SUFFICES ASSUME ~Pressed("B", in.pushed) PROVE FALSE
  OBVIOUS
<1>2. AfterBtns(in.pushed) = motorsState
  BY <1>1 DEF AfterBtns
<1>3. s2 = "Stay" <=> motorsState = "Stay"
  BY <1>2 DEF AfterIr, IrHandled
<1>4. motorsState' = "Stay" <=> s2 = "Stay"
  BY DrivenState DEF Update
<1>5. QED
  BY <1>3, <1>4 DEF StartedOrStopped

LEMMA UpdateActed ==
  ASSUME TypeOK, SampleInv, ActedInv, NEW in \in Inputs, HUpdate(in)
  PROVE  /\ ActedInv'
         /\ acted /\ "B" \in in.pushed => ~StartedOrStopped
<1>1. /\ acted' = ("B" \in in.pushed /\ (acted \/ StartedOrStopped))
      /\ last' = in /\ Update(in)
  BY DEF HUpdate, RecordHold
<1>2. \/ ~debounce /\ btns' = in.pushed
      \/ debounce /\ btns' = btns
  BY <1>1, SampleOrCount
<1>3. StartedOrStopped => ~debounce /\ "B" \notin btns
  BY <1>1, ActsBySample DEF Pressed
<1>4. acted \in BOOLEAN /\ (acted => "B" \in btns)
  BY DEF ActedInv
<1>5. acted' => "B" \in btns'
  BY <1>1, <1>2, <1>3, <1>4
<1>6. acted' \in BOOLEAN /\ (acted' => "B" \in last'.pushed)
  BY <1>1
<1>7. ActedInv'
  BY <1>5, <1>6 DEF ActedInv
<1>8. QED
  BY <1>3, <1>4, <1>7

\* The state start() finds: a car that stands or has started.
LEMMA StartFrom ==
  ASSUME NEW in \in Inputs, AfterIr(AfterBtns(in.pushed), in) = "Start",
         motorsState \in MotorsState
  PROVE  motorsState \in {"Stay", "Start"}
BY DEF AfterIr, AfterBtns, IrHandled, MotorsState

LEMMA UpdateRamp ==
  ASSUME TypeOK, RampInv, NEW in \in Inputs, HUpdate(in)
  PROVE  /\ RampInv'
         /\ motorsState # "Ride" /\ motorsState' = "Ride"
              => ramp = StartSteps \/ (motorsState = "Stay" /\ switched)
<1> DEFINE s2 == AfterIr(AfterBtns(in.pushed), in)
<1>1. DriveMotors(s2) /\ RecordStart
  BY DEF HUpdate, Update
<1>2. /\ StartSteps \in Nat /\ startTimer \in 0 .. StartSteps
      /\ motorsState \in MotorsState /\ switched \in BOOLEAN
  BY HistoryTypes DEF TypeOK, RampInv
<1>3. /\ ramp' = IF motorsState' = "Start" THEN Capped(ramp + 1, StartSteps + 1) ELSE 0
      /\ switched' = FALSE
  BY <1>1 DEF RecordStart
<1>4. CASE s2 = "Start"
  <2>1. motorsState \in {"Stay", "Start"}
    BY <1>2, <1>4, StartFrom
  <2>2. StartStep
    BY <1>1, <1>4 DEF DriveMotors
  <2>3. CASE startTimer = 0
    <3>1. motorsState' = "Ride" /\ startTimer' = startTimer
      BY <2>2, <2>3 DEF StartStep
    <3>2. ramp = StartSteps \/ (motorsState = "Stay" /\ switched)
      BY <1>2, <2>1, <2>3 DEF RampInv
    <3>3. QED
      BY <1>3, <2>3, <3>1, <3>2 DEF RampInv
  <2>4. CASE startTimer # 0
    <3>1. motorsState' = "Start" /\ startTimer' = startTimer - 1
      BY <2>2, <2>4 DEF StartStep
    <3>2. ramp + startTimer = StartSteps /\ ramp \in Nat
      <4>1. CASE motorsState = "Start"
        BY <4>1 DEF RampInv
      <4>2. CASE motorsState = "Stay"
        <5>1. ramp = 0
          BY <4>2 DEF RampInv
        <5>2. startTimer = StartSteps
          BY <4>2, <2>4 DEF RampInv
        <5>3. QED
          BY <1>2, <5>1, <5>2
      <4>3. QED
        BY <2>1, <4>1, <4>2
    <3>3. ramp' = ramp + 1
      BY <1>2, <1>3, <2>4, <3>1, <3>2 DEF Capped
    <3>4. ramp' + startTimer' = StartSteps /\ ramp' \in Nat
      BY <1>2, <3>1, <3>2, <3>3
    <3>5. QED
      BY <1>3, <3>1, <3>4 DEF RampInv
  <2>5. QED
    BY <2>3, <2>4
<1>5. CASE s2 # "Start"
  <2>1. /\ motorsState' # "Start"
        /\ motorsState' = "Stay" => startTimer' = StartSteps
        /\ motorsState' \in {"Ride", "Brake"} => startTimer' = 0
    <3>1. s2 \in {"Ride", "Brake"} => motorsState \in {"Ride", "Brake"}
      BY DEF AfterIr, AfterBtns, IrHandled
    <3>2. s2 \in {"Ride", "Brake"} => startTimer = 0
      BY <3>1 DEF RampInv
    <3>3. QED
      BY <1>1, <1>5, <3>2 DEF DriveMotors, StandStep, RideStep, BrakeStep
  <2>2. motorsState' = "Ride" => motorsState = "Ride"
    <3>1. motorsState' = "Ride" => s2 = "Ride"
      BY <1>1, <1>5, DrivenState
    <3>2. s2 = "Ride" => motorsState = "Ride"
      BY DEF AfterIr, AfterBtns, IrHandled
    <3>3. QED
      BY <3>1, <3>2
  <2>3. QED
    BY <1>3, <2>1, <2>2 DEF RampInv
<1>6. QED
  BY <1>4, <1>5

LEMMA UpdateZone ==
  ASSUME TypeOK, ZoneInv, NEW in \in Inputs, HUpdate(in)
  PROVE  /\ ZoneInv'
         /\ ~inZone /\ inZone' => marks = ZoneDelay
<1> DEFINE s2    == AfterIr(AfterBtns(in.pushed), in)
           looks == in.dip = "modeSpeedZone" /\ s2 = "Ride"
<1>1. DetectZone(s2, in) /\ RecordZone(in) /\ DriveMotors(s2)
  BY DEF HUpdate, Update
<1>2. /\ ZoneDelay \in Nat /\ zoneDebounce \in 0 .. ZoneDelay
      /\ marks \in 0 .. ZoneDelay /\ marks + zoneDebounce >= ZoneDelay
  BY HistoryTypes DEF TypeOK, ZoneInv
<1>3. marks' = IF inZone' /\ ~inZone THEN 0
               ELSE IF in.dip = "modeSpeedZone" /\ motorsState' = "Ride"
                       /\ ZoneMark(in)
               THEN Capped(marks + 1, ZoneDelay) ELSE marks
  BY <1>1 DEF RecordZone
<1>4. CASE looks /\ ZoneToggles(in)
  <2>1. zoneDebounce' = ZoneDelay /\ zoneDebounce = 0
    BY <1>1, <1>4 DEF DetectZone, ZoneToggles
  <2>2. marks = ZoneDelay
    BY <1>2, <2>1
  <2>3. marks' \in {0, marks, Capped(marks + 1, ZoneDelay)}
    BY <1>3, Zenon
  <2>4. marks' \in 0 .. ZoneDelay
    BY <1>2, <2>3 DEF Capped
  <2>5. marks' + zoneDebounce' >= ZoneDelay
    <3>1. marks' \in Nat /\ ZoneDelay \in Nat
      BY <1>2, <2>4
    <3>2. zoneDebounce' = ZoneDelay
      BY <2>1
    <3>3. \A m \in Nat : m + ZoneDelay >= ZoneDelay
      BY <3>1
    <3>4. QED
      BY <3>1, <3>2, <3>3
  <2>6. QED
    BY <2>2, <2>4, <2>5 DEF ZoneInv
<1>5. CASE ~(looks /\ ZoneToggles(in))
  <2>1. inZone' = (inZone /\ debounce)
    BY <1>1, <1>5 DEF DetectZone
  <2>2. \/ zoneDebounce' = zoneDebounce
        \/ /\ looks /\ ZoneMark(in) /\ zoneDebounce > 0
           /\ zoneDebounce' = zoneDebounce - 1
    BY <1>1, <1>5 DEF DetectZone
  <2>3. looks => motorsState' = "Ride"
    BY <1>1, DrivenState
  <2>4. /\ ~(~inZone /\ inZone')
        /\ marks' = Capped(marks + 1, ZoneDelay) \/ (~(looks /\ ZoneMark(in)) /\ marks' = marks)
    BY <1>3, <2>1, <2>3, Zenon
  <2>5. marks' \in 0 .. ZoneDelay /\ marks' + zoneDebounce' >= ZoneDelay
    BY <1>2, <2>2, <2>4 DEF Capped
  <2>6. QED
    BY <2>4, <2>5 DEF ZoneInv
<1>6. QED
  BY <1>4, <1>5

LEMMA UpdateSetting ==
  ASSUME NEW in \in Inputs, HUpdate(in) PROVE SettingInv'
<1>1. SelectMode(in) /\ last' = in
  BY DEF HUpdate, Update
<1>2. CASE in.dip = "modeRideSetting"
  <2>1. /\ Selected(in).mode = "modeRideSetting"
        /\ Selected(in).p = RoundTens(in.potP)
        /\ in.dip \in Modes
    BY <1>2 DEF Selected, Modes
  <2>2. QED
    BY <1>1, <2>1 DEF SelectMode, ModeChanged, SameSetting, SettingInv, RoundTens
<1>3. QED
  BY <1>1, <1>2 DEF SettingInv

-----------------------------------------------------------------------------
(* The servo: what the clip and the sharpening make of a position.         *)

LEMMA ClipReach ==
  ASSUME NEW x \in Int PROVE Clip(x) \in -ServoLimit .. ServoLimit
BY HistoryTypes DEF Clip, Clamp

LEMMA SharpenReach ==
  ASSUME NEW x \in -ServoLimit .. ServoLimit
  PROVE  2 * Sharpen(x) \in -3 * ServoLimit .. 3 * ServoLimit
<1>1. ServoLimit \in Nat /\ x \in Int /\ -ServoLimit <= x /\ x <= ServoLimit
  BY HistoryTypes
<1>2. \A y \in Nat : y \div 2 \in Nat /\ 2 * (y \div 2) <= y
  OBVIOUS
<1>3. CASE x >= 0
  BY <1>1, <1>2, <1>3 DEF Sharpen
<1>4. CASE x < 0
  <2> DEFINE q == (3 * (-x)) \div 2
  <2>1. q \in Nat /\ 2 * q <= 3 * (-x)
    BY <1>1, <1>2, <1>4
  <2>2. Sharpen(x) = -q
    BY <1>1, <1>4 DEF Sharpen
  <2> HIDE DEF q
  <2>3. QED
    BY <1>1, <2>1, <2>2
<1>5. QED
  BY <1>1, <1>3, <1>4

LEMMA UpdateServo ==
  ASSUME TypeOK, TypeOK', NEW in \in Inputs, Update(in) PROVE ServoInv'
<1> DEFINE s2 == AfterIr(AfterBtns(in.pushed), in)
           target == IF s2 = "Stay" THEN 0 ELSE regOut'
           pos == Clip(RateLimited(target, servoPos))
<1>1. servoPos' = IF in.curve THEN Sharpen(pos) ELSE pos
  BY DEF Update, SetServo
<1>2. target \in Int /\ servoPos \in Int
  BY HistoryTypes DEF TypeOK
<1> HIDE DEF target
<1>3. RateLimited(target, servoPos) \in Int
  BY <1>2, HistoryTypes DEF RateLimited, Clamp
<1>4. pos \in -ServoLimit .. ServoLimit
  BY <1>3, ClipReach
<1> HIDE DEF pos
<1>5. 2 * pos \in -3 * ServoLimit .. 3 * ServoLimit
  BY <1>4, HistoryTypes
<1>6. QED
  BY <1>1, <1>4, <1>5, SharpenReach DEF ServoInv

-----------------------------------------------------------------------------
LEMMA NextHistory ==
  ASSUME TypeOK, TypeOK', HistoryInv, [HNext]_hvars PROVE HistoryInv'
<1>1. ASSUME NEW in \in Inputs, HUpdate(in) PROVE HistoryInv'
  <2>1. Update(in)
    BY <1>1 DEF HUpdate
  <2>2. QED
    BY <1>1, <2>1, SampleOrCount, UpdateHold, UpdateActed, UpdateRamp,
       UpdateZone, UpdateSetting, UpdateServo DEF HistoryInv
<1>2. CASE HSwitch \/ UNCHANGED hvars
  <2>1. UNCHANGED <<debounce, debounceCounter, btns, setting, zoneDebounce,
                    servoPos, released, held, acted, ramp, marks, last, startTimer>>
    BY <1>2, Unchanged DEF HSwitch, SwitchToStayMode, hvars, history, btnVars,
                           zoneVars, rideVars
  <2>2. SinceSample' = SinceSample
    BY <2>1 DEF SinceSample
  <2>3. SampleInv' /\ HoldInv' /\ ActedInv'
    BY <2>1, <2>2 DEF HistoryInv, SampleInv, HoldInv, ActedInv, Settled
  <2>4. ZoneInv' /\ SettingInv' /\ ServoInv'
    BY <2>1 DEF HistoryInv, ZoneInv, SettingInv, ServoInv
  <2>5. RampInv'
    <3>1. CASE HSwitch
      BY <2>1, <3>1 DEF HSwitch, SwitchToStayMode, HistoryInv, RampInv
    <3>2. CASE UNCHANGED hvars
      <4>1. UNCHANGED <<motorsState, switched>>
        BY <3>2, Unchanged DEF hvars, history
      <4>2. QED
        BY <2>1, <4>1 DEF HistoryInv, RampInv
    <3>3. QED
      BY <1>2, <3>1, <3>2
  <2>6. QED
    BY <2>3, <2>4, <2>5 DEF HistoryInv
<1>3. QED
  BY <1>1, <1>2 DEF HNext

LEMMA HistoryInvariant == HSpec => [](TypeOK /\ HistoryInv)
<1>1. TypeOK /\ HistoryInv /\ [HNext]_hvars /\ TypeOK' => HistoryInv'
  BY NextHistory
<1>2. QED
  BY <1>1, InitHistory, HistoryIsCar, TypeCorrect, PTL DEF HSpec

\* For every length of the debouncing: a button B that was up long enough to
\* be sampled up, and is then pushed in a riding car and held, stops it
\* within DebounceMax + 1 updates.
THEOREM StopButtonWorksHolds == HSpec => []StopButtonWorks
<1>1. TypeOK /\ HistoryInv => StopButtonWorks
  BY HistoryTypes
     DEF TypeOK, HistoryInv, HoldInv, StopButtonWorks, SinceSample
<1>2. QED
  BY <1>1, HistoryInvariant, PTL

\* For every length of the debouncing and of the hold: one press of B starts
\* or stops the car once.
THEOREM HoldActsOnceHolds == HSpec => HoldActsOnce
<1>1. TypeOK /\ HistoryInv /\ [HNext]_hvars
        => [Updates /\ acted /\ "B" \in last'.pushed => ~StartedOrStopped]_hvars
  <2> SUFFICES ASSUME TypeOK, HistoryInv, HNext, Updates, acted,
                      "B" \in last'.pushed
               PROVE  ~StartedOrStopped
    OBVIOUS
  <2>1. ~HSwitch
    BY DEF HSwitch, SwitchToStayMode, Updates, btnVars
  <2>2. PICK in \in Inputs : HUpdate(in)
    BY <2>1 DEF HNext
  <2>3. last' = in
    BY <2>2 DEF HUpdate
  <2>4. QED
    BY <2>2, <2>3, UpdateActed DEF HistoryInv
<1>2. QED
  BY <1>1, HistoryInvariant, PTL DEF HSpec, HoldActsOnce

\* For every number of steps: a ride begins with all of them, unless the car
\* was put to Stay by the main loop just before.
THEOREM RampCompleteHolds == HSpec => RampComplete
<1>1. TypeOK /\ HistoryInv /\ [HNext]_hvars
        => [motorsState # "Ride" /\ motorsState' = "Ride"
              => ramp = StartSteps \/ (motorsState = "Stay" /\ switched)]_hvars
  <2> SUFFICES ASSUME TypeOK, HistoryInv, HNext,
                      motorsState # "Ride", motorsState' = "Ride"
               PROVE  ramp = StartSteps \/ (motorsState = "Stay" /\ switched)
    OBVIOUS
  <2>1. ~HSwitch
    BY DEF HSwitch, SwitchToStayMode
  <2>2. QED
    BY <2>1, UpdateRamp DEF HNext, HistoryInv
<1>2. QED
  BY <1>1, HistoryInvariant, PTL DEF HSpec, RampComplete

\* For every delay: that many images with a mark lie between two times the
\* zone is switched on.
THEOREM ZoneTogglesSpacedHolds == HSpec => ZoneTogglesSpaced
<1>1. TypeOK /\ HistoryInv /\ [HNext]_hvars
        => [~inZone /\ inZone' => marks = ZoneDelay]_hvars
  <2> SUFFICES ASSUME TypeOK, HistoryInv, HNext, ~inZone, inZone'
               PROVE  marks = ZoneDelay
    OBVIOUS
  <2>1. CASE HSwitch
    BY <2>1 DEF HSwitch, SwitchToStayMode, zoneVars
  <2>2. QED
    BY <2>1, UpdateZone DEF HNext, HistoryInv
<1>2. QED
  BY <1>1, HistoryInvariant, PTL DEF HSpec, ZoneTogglesSpaced

\* An update that leaves the car standing has centred the servo, for every
\* rate limit of at least one and a half times the servo's limit.
THEOREM StandingCentredHolds == HSpec => StandingCentred
<1>1. ASSUME TypeOK, HistoryInv, NEW in \in Inputs, HUpdate(in),
             motorsState' = "Stay"
      PROVE  servoPos' = 0
  <2> DEFINE s2 == AfterIr(AfterBtns(in.pushed), in)
  <2>1. s2 = "Stay" /\ SetServo(s2, in)
    BY <1>1, DrivenState DEF HUpdate, Update
  <2>2. /\ servoPos \in Int /\ 2 * servoPos \in -3 * ServoLimit .. 3 * ServoLimit
    BY <1>1 DEF TypeOK, HistoryInv, ServoInv
  <2>3. -MaxServoChange <= servoPos /\ servoPos <= MaxServoChange
    BY <2>2, HistoryTypes, HistoryAssumption
  <2>4. Clip(RateLimited(0, servoPos)) = 0 /\ Sharpen(0) = 0
    BY <2>2, <2>3, HistoryTypes DEF Clip, RateLimited, Clamp, Sharpen
  <2>5. QED
    BY <2>1, <2>4 DEF SetServo
<1>2. TypeOK /\ HistoryInv /\ [HNext]_hvars
        => [Updates /\ motorsState' = "Stay" => servoPos' = 0]_hvars
  <2> SUFFICES ASSUME TypeOK, HistoryInv, HNext, Updates, motorsState' = "Stay"
               PROVE  servoPos' = 0
    OBVIOUS
  <2>1. ~HSwitch
    BY DEF HSwitch, SwitchToStayMode, Updates, btnVars
  <2>2. QED
    BY <1>1, <2>1 DEF HNext
<1>3. QED
  BY <1>2, HistoryInvariant, PTL DEF HSpec, StandingCentred

\* A second reading of the potentiometers in the same tens never takes the
\* regulator of a riding car out of automatic mode.
THEOREM SameTensNeverResetHolds == HSpec => SameTensNeverReset
<1>1. ASSUME TypeOK, HistoryInv, NEW in \in Inputs, HUpdate(in),
             motorsState = "Ride", motorsState' = "Ride", SameTens
      PROVE  inAuto' = inAuto
  <2> DEFINE s2 == AfterIr(AfterBtns(in.pushed), in)
  <2>1. DriveMotors(s2) /\ Regulate(s2, in) /\ last' = in
    BY <1>1 DEF HUpdate, Update
  <2>2. s2 = "Ride" /\ ~Pressed("B", in.pushed)
    <3>1. s2 \in {"Start", "Ride"}
      BY <1>1, <2>1, DrivenState
    <3>2. QED
      BY <1>1, <3>1 DEF AfterIr, AfterBtns, IrHandled
  <2>3. ~ModeChanged(in)
    <3>1. /\ setting.mode = "modeRideSetting"
          /\ setting.p = RoundTens(last.potP)
          /\ in.dip = "modeRideSetting" /\ RoundTens(in.potP) = RoundTens(last.potP)
      BY <1>1, <2>1 DEF HistoryInv, SettingInv, SameTens
    <3>2. QED
      BY <3>1 DEF ModeChanged, SameSetting, Selected
  <2>4. inAuto \in BOOLEAN
    BY <1>1 DEF TypeOK
  <2>5. QED
    BY <2>1, <2>2, <2>3, <2>4 DEF Regulate, ResetsRegulator
<1>2. TypeOK /\ HistoryInv /\ [HNext]_hvars
        => [motorsState = "Ride" /\ motorsState' = "Ride" /\ SameTens
              => inAuto' = inAuto]_hvars
  <2> SUFFICES ASSUME TypeOK, HistoryInv, HNext,
                      motorsState = "Ride", motorsState' = "Ride", SameTens
               PROVE  inAuto' = inAuto
    OBVIOUS
  <2>1. ~HSwitch
    BY DEF HSwitch, SwitchToStayMode
  <2>2. QED
    BY <1>1, <2>1 DEF HNext
<1>3. QED
  BY <1>2, HistoryInvariant, PTL DEF HSpec, SameTensNeverReset

=============================================================================

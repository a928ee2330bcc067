--------------------------- MODULE NxpCarHistory ---------------------------
(***************************************************************************)
(* NxpCar with history variables.  They record what the program does not   *)
(* store (what the last update read, how long ago a sensor saw white, how  *)
(* long a button has been held and what it did, how many marks were seen,  *)
(* how the car came to stand and to ride), so that properties can relate a *)
(* step to earlier ones.  They never restrict a step of NxpCar.            *)
(***************************************************************************)
EXTENDS NxpCar

VARIABLES
  age,        \* per sensor: handled IR readings since the last white one
  crossed,    \* sensors that saw white since the car last began to ride
  released,   \* updates for which B was up before it was last pushed, capped
  held,       \* updates of a hold of B that began in Ride and is not answered
  acted,      \* B has been down since an update started or stopped the car
  ramp,       \* updates in a row that left the car in Start, capped
  switched,   \* the last step was the main loop's switchToStayMode
  marks,      \* marks seen since the zone was last switched on, capped
  last        \* what the last update read

history == <<age, crossed, released, held, acted, ramp, switched, marks, last>>
hvars == <<vars, history>>

\* Longer than the bits remember, and longer than a sample is kept.
Forgotten == MaxCrossTimer + 1
Settled   == DebounceMax + 1

\* The rate limit of the servo is wide enough for the whole way back from a
\* sharpened curve.
ASSUME HistoryAssumption == 3 * ServoLimit <= 2 * MaxServoChange

Capped(n, cap) == IF n < cap THEN n ELSE cap

HInit ==
  /\ Init
  /\ age = [s \in Sensor |-> Forgotten]
  /\ crossed = {} /\ released = 0 /\ held = 0
  /\ acted = FALSE /\ ramp = 0 /\ switched = FALSE /\ marks = ZoneDelay
  /\ last \in {in \in Inputs : in.dip = "other"}

\* A detected crossing consumes the readings it was made of.
RecordCrossing(in) ==
  LET s1 == AfterBtns(in.pushed)
  IN /\ age' = IF ~IrHandled(s1, in) THEN age
               ELSE [s \in Sensor |->
                       IF LineCrossed(in.ir) THEN Forgotten
                       ELSE IF s \in in.ir THEN 0
                       ELSE Capped(age[s] + 1, Forgotten)]
     /\ crossed' = IF s1 # "Ride" THEN {}
                   ELSE IF IrHandled(s1, in) THEN crossed \union in.ir
                   ELSE crossed

\* Within an update only a button can do either.
StartedOrStopped == (motorsState = "Stay") # (motorsState' = "Stay")

RecordHold(in) ==
  LET down  == "B" \in in.pushed
      fresh == down /\ "B" \notin last.pushed
      rides == motorsState = "Ride" /\ motorsState' = "Ride"
  IN /\ released' = IF down THEN released
                    ELSE IF "B" \in last.pushed THEN 1
                    ELSE Capped(released + 1, Settled)
     /\ held' = IF down /\ rides /\ (fresh \/ held > 0)
                THEN Capped(held + 1, Settled) ELSE 0
     /\ acted' = (down /\ (acted \/ StartedOrStopped))

RecordStart ==
  /\ ramp' = IF motorsState' = "Start" THEN Capped(ramp + 1, StartSteps + 1) ELSE 0
  /\ switched' = FALSE

RecordZone(in) ==
  LET looks == in.dip = "modeSpeedZone" /\ motorsState' = "Ride" /\ ZoneMark(in)
  IN marks' = IF inZone' /\ ~inZone THEN 0
              ELSE IF looks THEN Capped(marks + 1, ZoneDelay) ELSE marks

HUpdate(in) ==
  /\ Update(in)
  /\ RecordCrossing(in) /\ RecordHold(in) /\ RecordStart /\ RecordZone(in)
  /\ last' = in

HSwitch ==
  /\ SwitchToStayMode
  /\ switched' = TRUE
  /\ UNCHANGED <<age, crossed, released, held, acted, ramp, marks, last>>

HNext == (\E in \in Inputs : HUpdate(in)) \/ HSwitch

HSpec == HInit /\ [][HNext]_hvars

\* Every update moves the debouncing on; switchToStayMode does not.
Updates == <<debounce, debounceCounter>>' # <<debounce, debounceCounter>>

-----------------------------------------------------------------------------
(* Properties that hold.                                                   *)

\* A bit of lineCrossBits_ is set exactly when its sensor saw white at most
\* MaxCrossTimer handled readings ago and no crossing has consumed it: the
\* bit and its timer together neither forget early nor remember late.
CrossBitExact == \A s \in Sensor : crossBit[s] <=> age[s] <= MaxCrossTimer

\* After every update that looks at the sensors, a car that still rides has
\* not seen both outer sensors white within the window: no crossing of the
\* line is missed, whatever the order and the gap of the two readings.
NoCrossingMissed ==
  ~(age["left"] <= MaxCrossTimer /\ age["right"] <= MaxCrossTimer)

\* A button B that was up long enough to be sampled up, and is then pushed
\* while the car rides and held, stops the car within DebounceMax + 1
\* updates: debouncing delays the stop button, it never swallows it.
StopButtonWorks == released = Settled => held < Settled

\* The slow-down is not switched on twice by one mark: at least ZoneDelay
\* images with a mark lie between two times it is.
ZoneTogglesSpaced == [][~inZone /\ inZone' => marks = ZoneDelay]_hvars

\* One press of B acts once: while B stays down after it has started or
\* stopped the car, no later sample starts or stops it again, however long
\* the hold is and whatever the debouncing lets through.
HoldActsOnce ==
  [][Updates /\ acted /\ "B" \in last'.pushed => ~StartedOrStopped]_hvars

\* Every ride begins with all the steps of its ramp, no more and no fewer,
\* whatever is pressed or switched during it.  The only exception is a start
\* in the very first update after the main loop has put the car to Stay:
\* switchToStayMode leaves the used-up timer, so that ride has no ramp.
RampComplete ==
  [][motorsState # "Ride" /\ motorsState' = "Ride"
       => ramp = StartSteps \/ (motorsState = "Stay" /\ switched)]_hvars

SameTens ==
  /\ last.dip = "modeRideSetting" /\ last'.dip = "modeRideSetting"
  /\ RoundTens(last.potP) = RoundTens(last'.potP)

\* A second reading of the potentiometers in the same tens never takes the
\* regulator of a riding car out of automatic mode.
SameTensNeverReset ==
  [][motorsState = "Ride" /\ motorsState' = "Ride" /\ SameTens
       => inAuto' = inAuto]_hvars

\* An update that leaves the car standing has centred the servo wherever a
\* curve had left it: the rate limit is wide enough for the whole way back.
StandingCentred ==
  [][Updates /\ motorsState' = "Stay" => servoPos' = 0]_hvars

-----------------------------------------------------------------------------
(* Properties the comments of the program state and the code violates.     *)

\* NxpCarFreescale.h says handleIrSensors stops the car when it crosses the
\* line: a ride that ends in Brake has seen both outer sensors white.
BrakeOnlyOnCrossing ==
  [][motorsState # "Brake" /\ motorsState' = "Brake"
       => {"left", "right"} \subseteq crossed']_hvars

\* NxpDefines.h says SERVO_LR is the maximal turn of the servo, and setRide
\* cuts servoPos_ to it: no position beyond it is commanded.
ServoInLimit == servoPos \in -ServoLimit .. ServoLimit

\* inSpeedCheckZone_ is said to store whether the car is in the slow zone:
\* it is left by another mark or by button A, not by the passing of time.
ZoneLeftOnlyByMark ==
  [][inZone /\ ~inZone'
       => ZoneMark(last') \/ "A" \in last'.pushed]_hvars

=============================================================================

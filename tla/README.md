# Verification of the NXP Cup car

The repository is the firmware of a model race car for the NXP Cup: a FRDM-K66F
board with a line camera, three infrared (IR) sensors that look for the finish
line, an inertial sensor, two motors and a steering servo. This directory holds
TLA+ models of its own code, the TLC runs that check them and the TLAPS proofs
of what matters most. Paths below are those of the repository; `Car` stands for
`src/NxpCarFreescale.cpp`, `Abstract` for `src/NxpCarAbstract.cpp`, `Tracer` for
`src/LineTracer.cpp`, `Imu` for `source/GyroMagSensor.cpp`, `main` for
`source/main.cpp`.

## 1. The system

The program is a super-loop. A timer interrupt of the TFC library counts
`HW_TFC_TimeStamp`; whenever the loop sees a new value it runs one pass of either
the car or the demo program, as the first DIP switch says. There is no other
thread, but the interrupt, the user (buttons, DIP switches, potentiometers) and
the physical world act at any moment, also between two reads of the same pass.

| Component | State | Operations | Talks to |
|---|---|---|---|
| Drive states and speed (`Car` 267-309, `Abstract` 172-231) | `motorsState_` (Stay, Start, Ride, Brake), `motorSpeed_` (uint16), `startTimer_` | `update()`, `start()`, `switchToStayMode()` | set by buttons, IR sensors, main loop |
| Buttons (`Car` 378-410) | `debounce_`, `debounceCounter_`, `btns_` | `handleBtns()`, called by `update()` | drive state, regulator, tracer, slow zone |
| Line crossing (`Car` 338-376) | `lineCrossBits_`, three timers | `handleIrSensors()`, called in six of seven modes | drive state |
| Mode setting (`Car` 58-215, `NxpModeSetting.h`) | `modeSetting_` | one case per DIP position, `operator==` | regulator and tracer (reset), speed |
| Speed check zone (`Car` 59-110) | `inSpeedCheckZone_`, `speedCheckZoneDebounce_`, `prevZonesFoundCount_` | a case of `update()` | wheel speed, cleared by buttons |
| Steering regulator (`PID_New.cpp`, `Abstract` 201-220) | `inAuto`, output, sum | `Compute`, `SetMode`, replaced by `resetRegulator()` | tracer's distances in, servo out |
| Servo and wheels (`Car` 312-331, `Abstract` 86-162) | `servoPos_`, `servoIncreasingBits_`, PWM | rate limit, `setRide()` | tracer (curve), TFC |
| Line tracer (`Tracer`, `Region.h`) | `imageRegionList_`, `hasLeft_`, `hasRight_`, `computedRegion_` | `addImage`, `reset`, `getDistancesPair` | image in, distances out |
| Image preparation (`NxpImage*.cpp`) | one image | min/max, cut, normalise, threshold | camera in, tracer out |
| Inertial sensor (`Imu`, `board/fsl_fxos.c`) | sample buffers, offsets, dead band, `unchangedAccelTimer` | `callibrate`, `getProcessedData`, `isAccelStill` | main loop |
| Sensor driver (`Imu` 268-347, `board/fsl_fxos.c`) | the chip's registers, `isInit`, `g_dataScale` | `init`, `FXOS_Init`, `Sensor_ReadData` | inertial sensor |
| Main loop (`main` 91-232) | `old_tick` | the two programs, `sendData()` every fifth tick | all |
| Demo program (`main` 234-322) | none of its own; the motor stage | `diagnostic()` | TFC |
| Telemetry (`NxpSendFrame.h`, `Car` 412-446), Ethernet (`lwip/enet`, `lwip/port`) | frame, four payload buffers | `setSendData`, `Enet::send`, `check` | switched off: `UDP_SEND_DATA` is 0 |

Not the project's own code: CMSIS, `drivers/`, `lwip/src`, `utilities/`, `startup/`
and the generated part of `board/`. The TFC library is a git submodule whose
directory is empty; what `src/` uses of it (time stamp, DIP switch, buttons, ADC)
is modelled from that use. The repository has no tests; its documentation is the
comments in the headers, mostly Czech.

### What is hard

* One `update()` changes the driving state up to three times (button, IR sensors,
  motor switch), and each component is reset from several places.
* State survives where it should not: crossing bits over a stop, an unloaded start
  timer over `switchToStayMode`, the motor stage over the demo program.
* Counters and timers interact: debouncing, the window of the IR sensors, the delay
  between two marks, the still counter that only every fifth tick advances.
* Index arithmetic of the tracer: an alternating search with a bounds check, a step
  counter and a store that happens one step late.
* Boundaries of numbers: a negative potentiometer value in a uint16, a servo scaled
  after it was clipped, a threshold that wraps in 16 bits on a dark line.
* A regulator that is deleted and made anew while the car drives, whose memory is
  undefined until its mode is switched, and whose configuration calls may come in any
  order.
* A sensor that is set up over a bus that may fail at any access, by a caller that
  ignores the result.

What makes each component correct is stated by the properties of section 4; the
hazards they are for are listed, line by line, in `PROJECT.json`.

## 2. Modules

| Module | What it is |
|---|---|
| `NxpCar` | The car object. Actions `Update(in)` and `SwitchToStayMode`. |
| `DriveCycle` | Abstract: order of the four driving states and when the car may move. |
| `LineCrossing` | Abstract: each outer sensor is remembered for a window, and a riding car brakes exactly when both are. |
| `NxpCarHistory` | `NxpCar` with history variables, for properties that relate a step to earlier ones. |
| `PID_New` | The regulator with its whole interface, both forms of `Compute` included, its calls in any order. |
| `PID_NewHistory` | `PID_New` with a record of the turns of direction in manual mode. |
| `SteeredCar` | `NxpCar` composed with `PID_New`: the output the car takes is the one its regulator computes. |
| `MainLoop` | Extends `NxpCar` by the super-loop, the timer interrupt, the user's DIP switch, the demo program and the sampling of the IMU. |
| `LineTracer`, `LineTracerHistory` | The tracer over sets of black pixels; history: the image looked at and how often. |
| `NxpImage` | From a raw line to its black pixels, as operators: extremes, cut, normalisation, threshold. |
| `TelemetryFrame` | `LineTracerHistory` with the list of regions it leaves for `setSendData` and what that copies. |
| `Camera` | The pipeline: a raw line through `NxpImage` into the tracer and the frame. |
| `GyroMagSensor`, `GyroMagSensorHistory` | Averaging, calibration, dead band and still counter. |
| `FxosSensor` | `GyroMagSensorHistory` behind `init()` and the chip: every sample it takes comes from a sensor that may not be set up. |
| `StillDetector` | Abstract: what the main loop expects of the sensor. |
| `NxpCarProofs`, `NxpCarHistoryProofs`, `SteeredCarProofs`, `PID_NewProofs`, `MainLoopProofs`, `CameraProofs`, `FxosSensorProofs` | Theorems about the module they are named after; `CameraProofs` also those about the tracer and the frame, which `Camera` extends. |
| `NumberLemmas` | What these proofs need of integers, finite sets of them, and sums. |
| `MC...` | Constants for TLC. |

What extends or instantiates what:

    NxpCar <- NxpCarHistory            PID_New <- SteeredCar -> NxpCar
    PID_New <- PID_NewHistory
    NxpCar <- MainLoop -> StillDetector <- GyroMagSensorHistory <- FxosSensor
    LineTracer <- LineTracerHistory <- TelemetryFrame <- Camera -> NxpImage
    DriveCycle, LineCrossing: implemented by NxpCar

### How the models correspond to the code

`update()` is one sequential handler. In `NxpCar` it is one action, the conjunction
of its parts, each a definition named after the method or the part of it. The
driving state's intermediate values have names: `s1` after the buttons, `s2` after
the IR sensors, `motorsState'` at the end; a primed variable is used where the code
reads a value it has already updated in the same call. What the call reads from
outside (`Inputs`) is a record: pushed buttons, the mode DIP position and, as a
separate reading, whether `setRide` sees the speed zone position, the white IR
sensors, both potentiometers, what the regulator computes, the number of white
regions, and whether the tracer reports a curve. All of them may differ in each
call, so anything the world can do between two ticks is included.

Abstractions: in `NxpCar` the regulator gives any output within its limits; its
constants are one number per setting, since settings differ in it and in the mode
only; the tracer's history is its length; the wheels are off, full or half.
`servoPos_` is exact, with the limiter, the clip and the truncating factor 1.5;
`motorSpeed_` and `maxSpeed_` are 16 bits wide. Positions `0b1100` and the odd ones
fall to the default branch of the mode switch (`"other"`).

`PID_New` has one action per method; `compute(input, target, output)`, which needs no
automatic mode, is one of them, although the car does not call it. Numbers are integers in a unit in which the
scaling by the sample time is exact; the rounding of doubles is left out. Members the
constructor does not store (`outputSum`, `lastInput`) start with any value, as the
undefined contents they have. `MoveOutput` is the user of the regulator, who owns the
output in manual mode. Calls the code rejects (a negative tuning, a sample time that
is not positive, a minimum that is not below the maximum) change nothing and are left
out.

`SteeredCar` replaces the free output by the regulator's. A reset deletes the object
and makes another: `Retune` takes the gains from the setting as it is at that moment,
`Remember` makes the memory undefined again. `Computes` is the guard of `Compute()` at
its place in `update()`, after the buttons and the IR sensors and before the motor
switch, in which Start calls `SetMode(AUTOMATIC)`.

`MainLoop` splits a car pass in two steps, `UpdateCar` and `FinishCar`, so that the
interrupt and the user may act between `update()` and what follows it. The loop
compares time stamps for inequality only, so the difference (`lag`) and the
remainder modulo five (`phase`) replace them. `FinishCar` re-reads the time stamp
and loses the ticks of the pass, as line 168 does. Of the inertial sensor the
loop sees one bit, whether a sample moved; `StillDetector` is that view, and
`FxosSensor` is checked and proved to implement it.

In `LineTracer` the search loops are stated by what they find. The alternating
search of `findByPreviousIndex` is the set of its steps with the index each looks
at (`Offset`), the steps at which an edge is seen (`LeftHits`, `RightHits`), and
the steps that are reached at all (`Reached`: an index out of bounds makes the code
repeat the same step until its counter ends the search). `getRegions` is the set of
colour changes. `Distance` is `REGION_DISTANCE + REGION_COMPUTED_SIZE` (55.5) rounded
down; the left bound, computed by subtraction and truncated, is one further.

`NxpImage` works on the brightness of each pixel. `normalize()` computes in floats;
its operands are small enough that cutting the quotient off gives the integer
quotient. The average threshold is a 16-bit number and wraps. In `Camera` one update
takes a raw line through all of it; the tracer sees the inner pixels only.
`TelemetryFrame` keeps the list of regions with their number, which is what
`setSendData` reads; the frame's other members are plain copies.

In `GyroMagSensor` accelerations are integers in units of 1/(25 * 8192 * 90) g, so the
averages are exact; the rounding of floats is left out. `Readings` with a failed
read give zeros, because the raw values are cleared before each read. In `FxosSensor`
the accesses of `FXOS_Init` are a sequence and `init` takes any number of them that
reached the chip: a bus may fail anywhere, and an access that reports a failure may
have arrived. The chip starts in any state, as a restart of the processor alone leaves
it. An uninitialised scale is zero, so a mute sensor reads zeros.

## 3. Runs

All bounds are constants of the cfg files. Every passing property has a mutant, a
plausible bug in one definition that makes TLC find the property violated.

| Run | Question | Bounds, and why they are enough |
|---|---|---|
| `car_drive` (pass) | On `SteeredCar`: do buttons, modes, IR sensors and regulator keep the car consistent in every order, does the car implement `DriveCycle` and `LineCrossing`, and has the regulator it deletes and makes anew the right gains and a clean memory? | 3 start steps, debounce 2, IR window 2: each counter has a first, a middle and a last value, and no branch depends on a counter in another way. The default branch and two modes, one with its own gain and speed, one with both potentiometers at their left ends: a mode change means another gain, zero included, and a target speed that wraps to 65526. Errors to both sides; undefined memory beyond the limits; limit 2, below what an error gives. |
| `hist_all` (pass) | Does a step agree with the earlier ones: IR memory, held stop button, one press and its one effect, the ramp before a ride, marks, potentiometer tens, servo? | One scenario per question, chosen at the start. Zone delay 4 is longer than a button sample (3), as 40 is longer than 11 in the code; potentiometer values around a border of tens and negative; servo targets at both limits. |
| `hist_brake`, `hist_servo`, `hist_zone` (violation) | Section 6. | As above. |
| `pid_api` (pass) | Does the regulator keep its promises for every order of its calls? | Sample times below, at and above the fixed time change; two ranges, one inside the other that leaves zero out; undefined members outside both ranges; tunings with and without each of the three terms; a record of the turns in manual mode. The sum is bounded by the limits while it runs and frozen otherwise, so the state space is finite as it is. |
| `loop_run` (pass) | Does the loop implement the car under every interleaving, does a braking car come to Stay, does a start end, does the demo program take over? | Up to three ticks before a pass is over, so ticks are lost and samples missed; period 5, still value 1; two start steps and two modes that may change during them, one that reaches its speed in the first step and one that does not. |
| `loop_demo` (violation) | Section 6. | As above. |
| `tracer_lines` (pass) | From raw line to frame: do regions stay on the image, is the widest lane found, does a constant view settle, does the light matter, what do the observers get? | Raw lines of 12 pixels and 6 levels (white is 12 after normalisation), one black margin pixel, search radius 3, six borders kept, four regions in a frame, history 1: thin lines at every pair of positions, dark margins, two lanes, stripes with more borders than are kept, a widest lane behind the last border kept, a lane whose searched region is found too late, shade over half of the line, a slope of brightness. Every line may follow every other. |
| `tracer_found` (violation) | Section 6. | As above. |
| `imu_still` (pass) | Does the sensor implement `StillDetector` whatever its bus does, report rest in time, and cover what calibration saw? | Two axes, three samples of buffer, two of calibration, readings to both sides, zero and failure; `init()` failing at each of its accesses, with the chip found active or not in each range. |
| `imu_average` (violation) | Section 6. | As above. |

### Fairness

Safety is checked without fairness. The three liveness properties of `loop_run` use
weak fairness of the interrupt and of the three passes of the loop: the timer is
hardware and keeps counting, and the loop contains no blocking call. No fairness is
assumed of the user. `BrakeEnds` also supposes that from some point on every pass is
over before the next tick (`lag <= 1`). This is needed: otherwise the loop may skip
every tick divisible by five for ever, never sample the sensor, and brake for ever.
The code relies on its passes being shorter than 10 ms; the safety properties do not.
`StartEnds` and `DemoTakesOver` need no such bound.

## 4. What is checked

* The drive cycle (`ImplementsDriveCycle`): from Stay only to Start (or, with a start
  timer of zero, to Ride at a standstill), Start ends in Ride at the speed reached,
  Brake is left to Stay only; `StandsStill`: no speed in Stay and Brake.
* The start (`RampBudget`): the speed never exceeds what the remaining steps allow and
  so never wraps, although the target speed may be any 16-bit number. `RampComplete`: a
  ride begins after all the steps of its ramp, whatever is pressed or switched during it,
  except for a start in the update right after `switchToStayMode` (section 6).
* The regulator (`RegulatorConsistent`, `RegulatorLostOnlyByModeChange`,
  `SameTensNeverReset`): manual mode has output zero, no ride begins in manual mode,
  and a ride loses its regulator by a change of the setting only, never by readings
  within the same tens.
* The regulator's memory (`RegulatorReady`, `SteersFromRest`): whenever it starts it has
  the gains of the present setting, a sum of zero and for its last input the error of
  this very update, so neither undefined memory nor an earlier ride reaches the servo.
* The regulator's interface (`NoWindup`, `GainsAsEntered`, `Bumpless`): in every order of
  its calls a running sum is within the limits, the gains are those entered scaled by
  the present sample time, and automatic mode takes over without a jump. The sign of the
  gains is that of the direction except for the turns made in manual mode since the last
  `SetTunings`: there the order of the calls matters, and `GainsAsEntered` says how.
* The finish line (`ImplementsLineCrossing`, `CrossBitExact`, `NoCrossingMissed`): bit and timer together remember a white reading for exactly
  `LINE_CROSS_TIMER` further readings, and no riding car has both outer readings within
  the window.
* Button B, which starts and stops. `StopButtonWorks`: held for one debounce period, it
  stops a riding car. `HoldActsOnce`: while it stays down, no later sample undoes what it did.
* The slow zone (`ZoneTogglesSpaced`): one mark seen in several images does not switch it
  on twice.
* The servo (`StandingCentred`): an update that leaves the car standing has centred it.
* The program (`ImplementsCar`, `StartEnds`, `BrakeEnds`, `DemoTakesOver`).
* The tracer (`TypeOK`, `SearchedWidest`, `RadiusSearched`, `ViewSettles`,
  `SettledIsStraight`): regions lie on the image; a search that finds both lines stores
  the widest lane among those before the last region kept; edges that moved within the
  radius are followed; a constant view gives a constant region after three images, and
  counts as straight, except where `FoundTooLate` says that the edges of the searched
  region are known in the last step only (section 6).
* The image (`LightingInvariant`, `TrackSeen`): no gain and no stray light that leaves the
  sensor unsaturated changes a single black pixel; and with enough bright pixels the
  threshold does not wrap, the darkest pixels are black and the brightest white.
* The frame (`HalfTheWhitesSent`): it counts every white region and holds at least half of
  them. That it does not hold all is how the code is: `setSendData` looks at as many
  regions as there are white ones and skips the black ones among them.
* The sensor (`ImplementsStillDetector`, `StillPrompt`, `CalibratedRest`,
  `ConfiguredOrMute`). Equal samples, failed ones included, make the car count as standing
  in time; every acceleration strictly between the extremes calibration saw is reported as
  rest (the extremes themselves need not be, the comparison is strict); wherever setting up
  failed, the sensor is either active in the range its scale is for or reports zeros, and
  then the car counts as standing for good.

## 5. What is proved

The proofs hold for every value of the constants under the named assumptions of the
modules, which TLC evaluates on every run: `ConstantsAssumption`, `RampAssumption` (all
start steps together fit 16 bits, 200 * 20 in the code), `InputsAssumption`,
`HistoryAssumption` (three times the servo limit is at most twice the rate limit), `LoopAssumption`,
`TracerAssumption`, `FrameAssumption` (a frame holds more than half of the
regions a search may list, 15 against 25), `CameraAssumption`, `PidAssumption` (sample times divide the unit),
`SteeringAssumption`, `SensorAssumption`.

* `NxpCarProofs`. `CarInv` is the conjunction of `TypeOK`, `StandsStill`,
  `RampBudget`, `RegulatorConsistent` and `CrossingConsistent` (both outer bits are never
  set between updates, and a running timer means a set bit). It is inductive as a
  whole, its parts are not: braking enters Stay with the speed it has, so
  `StandsStill` needs Brake and Stay together; the ramp needs the bound of the timer;
  a bit needs its timer. One lemma per part shows that an update keeps it. The
  refinements `DriveCycleImplemented` and `LineCrossingImplemented` show that every
  step under `CarInv` is a step of the abstract specification or a stutter; the
  mapping sends a sensor's bit and timer to one countdown, zero without the bit and
  timer + 1 with it.
* `NxpCarHistoryProofs`. `CrossBitExact` does not say how long a bit will stay set;
  `MemoryInv` does: age and remaining timer of a remembered reading add up to
  `MaxCrossTimer`. `NoCrossingMissed` follows from it and `CrossingConsistent`. The other
  six history properties rest on `HistoryInv`, one conjunct for each record.
  `HoldInv` counts in updates since the last sample of the buttons: a hold cannot be longer
  than that without having been sampled (`StopButtonWorks`). `ActedInv`: a button that has
  acted is in `btns_`, so it is not pressed again (`HoldActsOnce`). `RampInv`: in Start the
  steps taken and the timer add up to `StartSteps`, and the timer is zero outside Start
  only in Ride, Brake and right after `switchToStayMode` (`RampComplete`). `ZoneInv` adds up
  the marks seen and those the delay still waits for (`ZoneTogglesSpaced`). `SettingInv`
  ties the setting to the reading before (`SameTensNeverReset`), and `ServoInv` bounds what
  the scaling after the clip reaches, so that one rate step leads back (`StandingCentred`).
* `PID_NewProofs`. `NoWindup`, `GainsAsEntered` (with `HInv`, over `PID_NewHistory`) and
  `Bumpless`. Turning the direction in automatic mode reverses all three gains, so the sign
  stays where the record says it is (`ScaledReversed`). Multiplying by the new
  sample time and dividing by the old is exact because both divide the unit.
* `SteeredCarProofs`. Every step of the composition is a step of `NxpCar`
  (`SteeredImplementsCar`), so `CarInv` holds of it; from there `RegulatorReady`, and
  `SteersFromRest`, which needs that manual mode means output zero: `Initialize()` takes the
  output for its sum and the present input for the last one. `SteeredImplementsCar` is a
  theorem only: `car_drive` runs on the composition itself, so checking it there against
  `NxpCar` as well would need TLC to look for the regulator's output in every step.
* `MainLoopProofs`. Every step of the loop is a step of the car or leaves it
  alone, so `LSpec => Spec`, and what is proved of the car holds in the program.
* `NumberLemmas`. The lemmas on least and greatest elements, on the ranks of a finite set
  of integers (every rank below its size is taken, by one element, and the next element
  has the next rank), on a list of two colours in turn (half of any prefix has either,
  `HalfOfEach`), and on sums. The sum of the community modules is a `CHOOSE` among the
  functions that satisfy its recursion. `SumExists` shows that there is one; `SumType`,
  `SumBounds`, `SumConstant` and `SumAtLeast` then follow by a smallest subset for which
  they fail (`SmallestSubset`), since the induction theorems of the library have an operator
  as parameter and cannot be cited.
* `CameraProofs`, the tracer. `RegionsStayInside`: whichever way a region is found, its bounds
  lie between `minLeft` and `maxRight`. Followed edges are within bounds because the
  step that found them was reached; searched regions because the constructor of
  `Region` clamps them after a computation that, with the distance at most half a
  line, stays within a byte. So no later index leaves the image and the two ratios of
  `update()` never divide by zero.

  `SearchedWidestHolds`: between two consecutive borders the colour does
  not change, and no border left of a kept one is dropped, so every lane that ends before
  the last region is in the list and every white region inside the list is a lane; a
  black region on either side of the winner excludes the first and the last region.
  `RadiusSearchedHolds`: the steps' offsets cover the radius.
  `ViewSettlesHolds`: under one image a region that was followed in time stays, since both
  bounds are edges and step 0 finds them; the whole line is never followed, since its
  first index is out of bounds; so after three copies the region is one that stays, or
  the search is found too late and two regions alternate (`SettleInv`).
  `SettledIsStraightHolds`: from then on each copy adds the same region and at most the
  oldest one goes, so the equal ones at the end of the list grow by one (`TailInv`) until
  they are all of it, and the mean of equal numbers is this number.
  `FollowedOrWhole` is what remains of the comment that `tracer_found` refutes: what
  following stores has two edges of the image for bounds, or is the whole line.
* `CameraProofs`, the frame. `HalfTheWhitesSentHolds`: the starts of the regions in their
  order are the ones the list takes, between two of them in turn there is no border, so
  the colours alternate (`RegionsInTurn`); then a list of n regions has at most
  (n + 1) / 2 white ones, and half of any part of it is white (`HalfWhite`).
* `CameraProofs`, the image. `LightingInvariantHolds`: gain and stray light carry over to
  the extremes and cancel in the quotient (`CommonFactor`).
  `TrackSeenHolds`: every pixel between the margins adds at most `White` to the threshold's
  sum, so it does not wrap; the brightest ones add `White` each, so the average exceeds the
  margins subtracted from it, and what is left lies above the darkest level, zero, and not
  above the brightest (`ThresholdSum`, `ThresholdBetween`).
  `FoundInv`, `FrameInv` and `SentInv` tie the variables to the line.
* `FxosSensorProofs`. The refinement of `StillDetector`, and `StillPrompt` from `StillInv`:
  after three equal samples the buffer holds nothing else, whatever its arithmetic, so
  the reported acceleration repeats and the counter runs. `SensorTypeCorrect` rests on
  `SensorInv`: buffer, sum and extremes are numbers, and the extremes include zero, where
  they start. `CalibratedRestHolds`: the distance from the offset is greatest at one of the
  extremes, and the dead band is that distance. `ConfiguredOrMuteHolds` rests on `MuteInv`: whatever access of the
  set-up failed, without `isInit` the scale is zero, so every sample, the buffer, the
  calibration and all that is reported are zero and each sample counts as unchanged; with
  it the chip was written to the end.

Only model-checked, and why:

* `StartEnds`, `BrakeEnds`, `DemoTakesOver`: liveness under fairness, which the prover does
  not do.
* The six properties of section 6, which do not hold.

Every other property of the passing runs, all safety, action and refinement properties,
is a theorem.

## 6. Where code and comments disagree

Each has a run in which TLC finds the violation; `PROJECT.json` quotes the comment.

* `hist_brake`: crossing bits survive button B, so one white sensor can brake the next ride.
* `hist_zone`: `handleBtns` clears the slow zone on every sampled call.
* `hist_servo`: in a curve the servo is commanded to 1500, although `SERVO_LR` (1000) is
  called its maximal turn: `setRide` cuts the position first and multiplies it by 1.5 then.
* `loop_demo`: the demo program leaves the motor stage off, and the car program never
  switches it on again.
* `tracer_found`: edges completed in the last step of the search are reported as found,
  with the default region. This reaches further: the search does not count a line one
  pixel wide on the right (the centre of a region [e, e + 1] is e), so it computes the
  left edge 56 pixels from the right one; if the real one is 4 further (a lane of 59
  pixels), following completes in the last step, gives the whole line, is searched
  again, and so on: in front of a constant view the region alternates.
* `imu_average`: the shift of the sample buffer runs upwards (line 365), so the average is one
  part the new sample and all the rest the previous one.

Read in the code while modelling, visible in the definitions, without a run of their own:

* `Car`: a change of the mode, or of the tens of a potentiometer, replaces the regulator of a
  riding car by one in manual mode, and only Start switches it on again: the car goes on with
  its wheels straight (`RegulatorLostOnlyByModeChange` names this as the only way); after
  `switchToStayMode` a press of B seen by the next update skips the ramp (the exception of
  `RampComplete`); a speed potentiometer moved alone is not taken over, since `operator==`
  (`src/NxpModeSetting.h:33`) does not compare the speed; potentiometers are cut to tens
  without hysteresis, so a reading on a border resets the regulator.
* `Tracer`: an index out of bounds ends the search on the other side too, although that
  edge may be within the radius (line 295, `Reached`; `RadiusSearched` therefore
  supposes that neither search meets the border); the tracer keeps
  `TRACER_HISTORY_SIZE + 1` images (`TypeOK`); the two followed edges may cross, left
  above right.
* `src/NxpImageAbstract.cpp`: the branches for low diversity are dead with `LOW_DIVERSITY` 0; a
  uniform line divides zero by zero and comes out black.
* `src/PID_New.cpp`: `SetControllerDirection` in manual mode stores the direction and leaves the
  sign of the gains to the next `SetTunings`, although `src/PID_New.h:51-54` says that
  REVERSE means the opposite (no caller does it); `Compute` takes its time since the last call to be a constant 10, so a
  longer sample time switches it off.
* `Imu`: the gyro term is computed from the accelerometer's own register, so a
  constant acceleration cancels up to the rounding of its average; the range register is compared
  with 0x10 for 8 g (line 308), which it never holds; `main` ignores the result of
  `init()` (line 115).
* `board/fsl_fxos.c`: `!FXOS_ReadReg(...) == kStatus_Success` (line 180) means the opposite of what
  it reads like, and works because success is zero and failures are not one.

## 7. Not modelled

* Ethernet (`lwip/enet`, `lwip/port`): compiled, but with `UDP_SEND_DATA` 0 `init()` is never
  called and `send()` and `check()` return at once.
* `PID.cpp`: constructed and never asked.
* Of the image, the median blur and the edge filters: not called. Of the tracer,
  `forceSearchRegions`: true in no call.
* Of the telemetry frame, the members that are plain copies.
* Of the inertial sensor, the magnetometer, the angles and the z axis: only sent away.
* `getDistancesPair` on an empty list (a DIP position without a case, before any image) is
  undefined behaviour; the car's model allows any distances there and the tracer's does
  not average an empty list.
* Of the wheels, the differential in curves beyond half speed on one side: the PWM values
  are not state of the program.
* Vendor code: CMSIS, `drivers/`, `lwip/src`, `utilities/`, `startup/` and the generated part of
  `board/`. It is by far the larger part of the repository's lines (some 200 000 of 207 000),
  is used through a handful of calls, and has no behaviour of this program of its own. So
  the models cover most of the project's own logic and a small share of all lines.

## 8. What is left

Every component of the project's own code that runs in the shipped configuration is
modelled, some in part (section 7). What could still be added: the rounding of doubles in
the regulator, the differential of the wheels, and the ring of payload buffers of `Enet`
once the build option that enables it is used.

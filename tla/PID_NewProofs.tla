---------------------------- MODULE PID_NewProofs ----------------------------
(***************************************************************************)
(* Proofs about PID_New, for every order of its calls and every argument:  *)
(* the sum of a running regulator stays within the limits, switching to    *)
(* automatic mode is bumpless, and the gains are those entered, with the   *)
(* sign that the turns made in manual mode leave them.                     *)
(***************************************************************************)
EXTENDS PID_NewHistory, TLAPS

Gains == [kp : Int, ki : Int, kd : Int]

PidType ==
  /\ disp \in Tunings /\ gains \in Gains
  /\ pOnE \in BOOLEAN /\ direction \in Direction
  /\ sampleTime \in SampleTimes /\ limits \in OutputLimits
  /\ inAuto \in BOOLEAN
  /\ outputSum \in Int /\ lastInput \in Int /\ output \in Int

\* The inductive invariant of the regulator.
PidInv == PidType /\ NoWindup

\* ... and of the regulator with its history.
HInv == PidInv /\ behind \in BOOLEAN /\ GainsAsEntered

-----------------------------------------------------------------------------
(* Arithmetic.                                                             *)

LEMMA ProductType == ASSUME NEW a \in Int, NEW b \in Int PROVE a * b \in Int
OBVIOUS

LEMMA NothingTimes == ASSUME NEW a \in Int, NEW k \in Int PROVE k * (a - a) = 0
<1>1. a - a = 0 /\ k * 0 = 0
  OBVIOUS
<1>2. QED
  BY <1>1

LEMMA ClampInLimits ==
  ASSUME NEW x \in Int, NEW l \in OutputLimits
  PROVE  Clamp(x, l) \in Int /\ Clamp(x, l) \in l.min .. l.max
BY PidAssumption DEF Clamp

LEMMA ClampTwice ==
  ASSUME NEW x \in Int, NEW l \in OutputLimits
  PROVE  Clamp(Clamp(x, l), l) = Clamp(x, l)
BY PidAssumption DEF Clamp

\* Division by a factor gives the other one.
LEMMA Quotient ==
  ASSUME NEW q \in Int, NEW b \in Nat \ {0}
  PROVE  (q * b) \div b = q
OBVIOUS

\* A derivative gain is a multiple of every sample time it may be scaled by.
LEMMA Exact ==
  ASSUME NEW k \in Nat, NEW t \in SampleTimes
  PROVE  \E m \in Nat : k * PerSecond * PerSecond = m * t
<1>1. PerSecond \in Nat /\ t \in Nat
  BY PidAssumption
<1>2. PICK q \in 1 .. PerSecond * PerSecond : PerSecond * PerSecond = q * t
  BY PidAssumption
<1>3. q \in Nat /\ k * q \in Nat
  BY <1>1, <1>2
<1>4. k * PerSecond * PerSecond = k * (PerSecond * PerSecond)
  BY <1>1
<1>5. k * (q * t) = (k * q) * t
  BY <1>1, <1>3
<1>6. QED
  BY <1>2, <1>3, <1>4, <1>5

\* Rescaling the integral gain from one sample time to another.
LEMMA IntegralRescaled ==
  ASSUME NEW k \in Nat, NEW t \in SampleTimes, NEW u \in SampleTimes,
         NEW dir \in Direction
  PROVE  (Signed(k * t, dir) * u) \div t = Signed(k * u, dir)
<1>1. t \in Nat \ {0} /\ u \in Nat \ {0}
  BY PidAssumption
<1>2. k * u \in Int /\ -(k * u) \in Int
  BY <1>1, ProductType
<1>3. (k * t) * u = (k * u) * t /\ (-(k * t)) * u = (-(k * u)) * t
  BY <1>1
<1>4. ((k * u) * t) \div t = k * u /\ ((-(k * u)) * t) \div t = -(k * u)
  BY <1>1, <1>2, Quotient
<1>5. QED
  BY <1>3, <1>4 DEF Signed

\* ... and the derivative one.
LEMMA DerivativeRescaled ==
  ASSUME NEW k \in Nat, NEW t \in SampleTimes, NEW u \in SampleTimes,
         NEW dir \in Direction
  PROVE  (Signed((k * PerSecond * PerSecond) \div t, dir) * t) \div u
           = Signed((k * PerSecond * PerSecond) \div u, dir)
<1> DEFINE d == k * PerSecond * PerSecond
<1>1. t \in Nat \ {0} /\ u \in Nat \ {0}
  BY PidAssumption
<1>2. PICK m \in Nat : d = m * t
  BY Exact
<1>3. PICK n \in Nat : d = n * u
  BY Exact
<1> HIDE DEF d
<1>4. d \div t = m /\ d \div u = n
  BY <1>1, <1>2, <1>3, Quotient
<1>5. (-m) * t = (-n) * u
  <2>1. (-m) * t = -(m * t) /\ (-n) * u = -(n * u)
    BY <1>1
  <2>2. QED
    BY <1>2, <1>3, <2>1
<1>6. ((-n) * u) \div u = -n
  BY <1>1, Quotient
<1>7. Signed(d \div t, dir) * t = Signed(d \div u, dir) * u
  BY <1>2, <1>3, <1>4, <1>5 DEF Signed
<1>8. (Signed(d \div u, dir) * u) \div u = Signed(d \div u, dir)
  BY <1>1, <1>4, <1>6, Quotient DEF Signed
<1>9. QED
  BY <1>7, <1>8 DEF d

\* Reversing three gains is scaling them with the other sign.
LEMMA ScaledReversed ==
  ASSUME NEW t \in Tunings, NEW time \in SampleTimes, NEW dir \in Direction
  PROVE  Reversed(Scaled(t, time, dir)) = Scaled(t, time, Opposite(dir))
<1>1. ASSUME NEW k \in Int PROVE -Signed(k, dir) = Signed(k, Opposite(dir))
  BY DEF Direction, Signed, Opposite
<1>2. /\ t.kp * PerSecond \in Int /\ t.ki * time \in Int
      /\ (t.kd * PerSecond * PerSecond) \div time \in Int
  <2>1. /\ t.kp \in Nat /\ t.ki \in Nat /\ t.kd \in Nat
        /\ PerSecond \in Nat /\ time \in Nat \ {0}
    BY PidAssumption
  <2>2. t.kd * PerSecond * PerSecond \in Int
    BY <2>1, ProductType
  <2>3. QED
    BY <2>1, <2>2, ProductType
<1>3. QED
  BY <1>1, <1>2 DEF Reversed, Scaled

LEMMA ScaledType ==
  ASSUME NEW t \in Tunings, NEW time \in SampleTimes, NEW dir \in Direction
  PROVE  Scaled(t, time, dir) \in Gains
<1>1. /\ t.kp \in Nat /\ t.ki \in Nat /\ t.kd \in Nat
      /\ PerSecond \in Nat /\ time \in Nat \ {0}
  BY PidAssumption
<1>2. t.kp * PerSecond \in Int /\ t.ki * time \in Int
  BY <1>1, ProductType
<1>3. t.kd * PerSecond * PerSecond \in Int
  BY <1>1, ProductType
<1>4. (t.kd * PerSecond * PerSecond) \div time \in Int
  BY <1>1, <1>3
<1>5. QED
  BY <1>2, <1>4 DEF Scaled, Signed, Gains

-----------------------------------------------------------------------------
(* One lemma per call.                                                     *)

LEMMA SumType ==
  ASSUME PidInv, NEW x \in Measured, NEW y \in Measured
  PROVE  /\ NewSum(x, y) \in Int /\ NewSum(x, y) \in limits.min .. limits.max
         /\ NewOutput(x, y) \in Int
<1>1. /\ x \in Int /\ y \in Int /\ outputSum \in Int /\ lastInput \in Int
      /\ gains.kp \in Int /\ gains.ki \in Int /\ gains.kd \in Int
      /\ limits \in OutputLimits
  BY PidAssumption DEF PidInv, PidType, Gains
<1>2. /\ gains.ki * (y - x) \in Int /\ gains.kp * (x - lastInput) \in Int
      /\ gains.kp * (y - x) \in Int /\ gains.kd * (x - lastInput) \in Int
  BY <1>1, ProductType
<1>3. outputSum + gains.ki * (y - x)
        - (IF pOnE THEN 0 ELSE gains.kp * (x - lastInput)) \in Int
  BY <1>1, <1>2
<1>4. NewSum(x, y) \in Int /\ NewSum(x, y) \in limits.min .. limits.max
  BY <1>1, <1>3, ClampInLimits DEF NewSum
<1>5. (IF pOnE THEN gains.kp * (y - x) ELSE 0)
        + NewSum(x, y) - gains.kd * (x - lastInput) \in Int
  BY <1>2, <1>4
<1>6. QED
  BY <1>1, <1>4, <1>5, ClampInLimits DEF NewOutput

LEMMA ComputeInv ==
  ASSUME PidInv, NEW x \in Measured, NEW y \in Measured, compute(x, y)
  PROVE  PidInv'
<1>1. /\ outputSum' = NewSum(x, y) /\ output' = NewOutput(x, y) /\ lastInput' = x
      /\ UNCHANGED <<disp, gains, pOnE, direction, sampleTime, limits, inAuto>>
  BY DEF compute, config
<1>2. x \in Int
  BY PidAssumption
<1>3. QED
  BY <1>1, <1>2, SumType DEF PidInv, PidType, NoWindup

LEMMA SetModeInv ==
  ASSUME PidInv, NEW auto \in BOOLEAN, NEW x \in Measured, SetMode(auto, x)
  PROVE  PidInv'
<1>1. /\ inAuto' = auto
      /\ UNCHANGED <<disp, gains, pOnE, direction, sampleTime, limits, output>>
  BY DEF SetMode, config
<1>2. x \in Int
  BY PidAssumption
<1>3. CASE auto /\ ~inAuto
  <2>1. outputSum' = Clamp(output, limits) /\ lastInput' = x
    BY <1>3 DEF SetMode, Initialize
  <2>2. Clamp(output, limits) \in Int
        /\ Clamp(output, limits) \in limits.min .. limits.max
    BY ClampInLimits DEF PidInv, PidType
  <2>3. QED
    BY <1>1, <1>2, <2>1, <2>2 DEF PidInv, PidType, NoWindup
<1>4. CASE ~(auto /\ ~inAuto)
  <2>1. UNCHANGED <<outputSum, lastInput>>
    BY <1>4 DEF SetMode
  <2>2. QED
    BY <1>1, <1>4, <2>1 DEF PidInv, PidType, NoWindup
<1>5. QED
  BY <1>3, <1>4

LEMMA SetTuningsInv ==
  ASSUME PidInv, NEW t \in Tunings, NEW onError \in BOOLEAN, SetTunings(t, onError)
  PROVE  PidInv'
<1>1. /\ disp' = t /\ pOnE' = onError /\ gains' = Scaled(t, sampleTime, direction)
      /\ UNCHANGED <<direction, sampleTime, limits, inAuto, outputSum, lastInput, output>>
  BY DEF SetTunings
<1>2. gains' \in Gains
  BY <1>1, ScaledType DEF PidInv, PidType
<1>3. QED
  BY <1>1, <1>2 DEF PidInv, PidType, NoWindup

\* A new sample time rescales the gains to what a new tuning would make.
LEMMA SampleTimeRescales ==
  ASSUME PidInv, NEW time \in SampleTimes, SetSampleTime(time),
         NEW dir \in Direction, gains = Scaled(disp, sampleTime, dir)
  PROVE  gains' = Scaled(disp, time, dir)
<1>1. /\ disp \in Tunings /\ sampleTime \in SampleTimes
      /\ disp.ki \in Nat /\ disp.kd \in Nat
  BY PidAssumption DEF PidInv, PidType
<1>2. gains' = [gains EXCEPT !.ki = (@ * time) \div sampleTime,
                             !.kd = (@ * sampleTime) \div time]
  BY DEF SetSampleTime
<1>3. (gains.ki * time) \div sampleTime = Signed(disp.ki * time, dir)
  BY <1>1, IntegralRescaled DEF Scaled
<1>4. (gains.kd * sampleTime) \div time
        = Signed((disp.kd * PerSecond * PerSecond) \div time, dir)
  BY <1>1, DerivativeRescaled DEF Scaled
<1>5. QED
  BY <1>2, <1>3, <1>4 DEF Scaled

LEMMA SetSampleTimeInv ==
  ASSUME PidInv, NEW time \in SampleTimes, SetSampleTime(time)
  PROVE  PidInv'
<1>1. /\ sampleTime' = time
      /\ gains' = [gains EXCEPT !.ki = (@ * time) \div sampleTime,
                                !.kd = (@ * sampleTime) \div time]
      /\ UNCHANGED <<disp, pOnE, direction, limits, inAuto, outputSum, lastInput, output>>
  BY DEF SetSampleTime
<1>2. gains' \in Gains
  <2>1. /\ gains \in Gains /\ sampleTime \in Nat \ {0} /\ time \in Nat \ {0}
        /\ gains.ki \in Int /\ gains.kd \in Int
    BY PidAssumption DEF PidInv, PidType, Gains
  <2>2. gains.ki * time \in Int /\ gains.kd * sampleTime \in Int
    BY <2>1, ProductType
  <2>3. (gains.ki * time) \div sampleTime \in Int
        /\ (gains.kd * sampleTime) \div time \in Int
    BY <2>1, <2>2
  <2>4. QED
    BY <1>1, <2>1, <2>3 DEF Gains
<1>3. QED
  BY <1>1, <1>2 DEF PidInv, PidType, NoWindup

LEMMA SetOutputLimitsInv ==
  ASSUME PidInv, NEW l \in OutputLimits, SetOutputLimits(l)
  PROVE  PidInv'
<1>1. /\ limits' = l
      /\ UNCHANGED <<disp, gains, pOnE, direction, sampleTime, inAuto, lastInput>>
  BY DEF SetOutputLimits
<1>2. CASE inAuto
  <2>1. output' = Clamp(output, l) /\ outputSum' = Clamp(outputSum, l)
    BY <1>2 DEF SetOutputLimits
  <2>2. /\ Clamp(output, l) \in Int /\ Clamp(outputSum, l) \in Int
        /\ Clamp(outputSum, l) \in l.min .. l.max
    BY ClampInLimits DEF PidInv, PidType
  <2>3. QED
    BY <1>1, <2>1, <2>2 DEF PidInv, PidType, NoWindup
<1>3. CASE ~inAuto
  <2>1. UNCHANGED <<output, outputSum>>
    BY <1>3 DEF SetOutputLimits
  <2>2. QED
    BY <1>1, <1>3, <2>1 DEF PidInv, PidType, NoWindup
<1>4. QED
  BY <1>2, <1>3

LEMMA SetControllerDirectionInv ==
  ASSUME PidInv, NEW dir \in Direction, SetControllerDirection(dir)
  PROVE  PidInv'
<1>1. /\ direction' = dir
      /\ gains' = gains \/ gains' = Reversed(gains)
      /\ UNCHANGED <<disp, pOnE, sampleTime, limits, inAuto, outputSum, lastInput, output>>
  BY DEF SetControllerDirection
<1>2. gains \in Gains /\ Reversed(gains) \in Gains
  BY DEF PidInv, PidType, Gains, Reversed
<1>3. QED
  BY <1>1, <1>2 DEF PidInv, PidType, NoWindup

LEMMA MoveOutputInv ==
  ASSUME PidInv, NEW x \in Garbage, MoveOutput(x)
  PROVE  PidInv'
<1>1. /\ output' = x
      /\ UNCHANGED <<disp, gains, pOnE, direction, sampleTime, limits, inAuto,
                     outputSum, lastInput>>
  BY DEF MoveOutput, config
<1>2. x \in Int
  BY PidAssumption
<1>3. QED
  BY <1>1, <1>2 DEF PidInv, PidType, NoWindup

-----------------------------------------------------------------------------
LEMMA InitPidInv == Init => PidInv
<1> SUFFICES ASSUME Init PROVE PidInv
  OBVIOUS
<1>1. gains \in Gains
  BY ScaledType DEF Init
<1>2. outputSum \in Int /\ lastInput \in Int /\ output = 0
  BY PidAssumption DEF Init
<1>3. /\ disp \in Tunings /\ pOnE \in BOOLEAN /\ direction \in Direction
      /\ sampleTime \in SampleTimes /\ limits \in OutputLimits
      /\ ~inAuto /\ inAuto \in BOOLEAN
  BY DEF Init
<1>4. QED
  BY <1>1, <1>2, <1>3 DEF PidInv, PidType, NoWindup

LEMMA NextPidInv == PidInv /\ [Next]_vars => PidInv'
<1> SUFFICES ASSUME PidInv, [Next]_vars PROVE PidInv'
  OBVIOUS
<1>1. CASE UNCHANGED vars
  BY <1>1 DEF vars, config, PidInv, PidType, NoWindup
<1>2. CASE Next
  BY <1>2, ComputeInv, SetModeInv, SetTuningsInv, SetSampleTimeInv,
     SetOutputLimitsInv, SetControllerDirectionInv, MoveOutputInv DEF Next, Compute
<1>3. QED
  BY <1>1, <1>2

LEMMA PidInvariant == Spec => []PidInv
  BY InitPidInv, NextPidInv, PTL DEF Spec

\* While the regulator runs its sum lies within the limits.
THEOREM NoWindupHolds == Spec => []NoWindup
<1>1. PidInv => NoWindup
  BY DEF PidInv
<1>2. QED
  BY <1>1, PidInvariant, PTL

-----------------------------------------------------------------------------
(* The history: which sign the gains have.                                 *)

LEMMA OppositeTwice ==
  ASSUME NEW dir \in Direction
  PROVE  Opposite(dir) \in Direction /\ Opposite(Opposite(dir)) = dir
BY DEF Direction, Opposite

\* The sign the gains have, and that it is one of the two.
Sign == IF behind THEN Opposite(direction) ELSE direction

LEMMA SignType ==
  ASSUME PidInv PROVE Sign \in Direction
BY OppositeTwice DEF Sign, PidInv, PidType

\* A turn of the direction in manual mode leaves the gains, and the record
\* says so; in automatic mode it reverses both.
LEMMA DirectionSign ==
  ASSUME HInv, NEW dir \in Direction, SetControllerDirection(dir),
         behind' = IF ~inAuto /\ dir # direction THEN ~behind ELSE behind
  PROVE  GainsAsEntered'
<1>1. /\ gains = Scaled(disp, sampleTime, Sign)
      /\ disp \in Tunings /\ sampleTime \in SampleTimes
      /\ direction \in Direction /\ behind \in BOOLEAN /\ Sign \in Direction
  BY SignType DEF HInv, GainsAsEntered, Sign, PidInv, PidType
<1>2. /\ disp' = disp /\ sampleTime' = sampleTime /\ direction' = dir
      /\ gains' = IF inAuto /\ dir # direction THEN Reversed(gains) ELSE gains
  BY DEF SetControllerDirection
<1>3. CASE dir = direction
  BY <1>1, <1>2, <1>3 DEF GainsAsEntered, Sign
<1>4. CASE dir # direction
  <2>1. dir = Opposite(direction) /\ direction = Opposite(dir)
    BY <1>1, <1>4 DEF Direction, Opposite
  <2>2. CASE inAuto
    <3>1. gains' = Scaled(disp, sampleTime, Opposite(Sign)) /\ behind' = behind
      BY <1>1, <1>2, <1>4, <2>2, ScaledReversed
    <3>2. Opposite(Sign) = IF behind THEN Opposite(dir) ELSE dir
      BY <2>1 DEF Sign
    <3>3. QED
      BY <1>2, <3>1, <3>2 DEF GainsAsEntered
  <2>3. CASE ~inAuto
    <3>1. gains' = gains /\ behind' = ~behind
      BY <1>2, <1>4, <2>3
    <3>2. Sign = IF behind' THEN Opposite(dir) ELSE dir
      BY <1>1, <2>1, <3>1 DEF Sign
    <3>3. QED
      BY <1>1, <1>2, <3>1, <3>2 DEF GainsAsEntered
  <2>4. QED
    BY <2>2, <2>3
<1>5. QED
  BY <1>3, <1>4

LEMMA NextHInv == HInv /\ [HNext]_hvars => HInv'
<1> SUFFICES ASSUME HInv, [HNext]_hvars PROVE HInv'
  OBVIOUS
<1>1. PidInv'
  BY NextPidInv DEF HInv, HNext, hvars
<1>2. CASE UNCHANGED hvars
  BY <1>1, <1>2 DEF HInv, GainsAsEntered, hvars, vars, config
<1>3. CASE HNext
  <2>1. behind' = IF Tuned THEN FALSE ELSE IF Turned THEN ~behind ELSE behind
    BY <1>3 DEF HNext
  <2>2. behind' \in BOOLEAN
    BY <2>1 DEF HInv
  <2>3. CASE Tuned
    <3>1. PICK t \in Tunings, onError \in BOOLEAN : SetTunings(t, onError)
      BY <2>3 DEF Tuned
    <3>2. QED
      BY <1>1, <2>1, <2>2, <2>3, <3>1 DEF HInv, GainsAsEntered, SetTunings
  <2>4. CASE ~Tuned /\ \E dir \in Direction : SetControllerDirection(dir)
    <3>1. PICK dir \in Direction : SetControllerDirection(dir)
      BY <2>4
    <3>2. Turned <=> ~inAuto /\ dir # direction
      BY <3>1 DEF Turned, SetControllerDirection
    <3>3. behind' = IF ~inAuto /\ dir # direction THEN ~behind ELSE behind
      BY <2>1, <2>4, <3>2
    <3>4. QED
      BY <1>1, <2>2, <3>1, <3>3, DirectionSign DEF HInv
  <2>5. CASE ~Tuned /\ ~(\E dir \in Direction : SetControllerDirection(dir))
    <3>1. behind' = behind
      BY <2>1, <2>5 DEF Turned
    <3>2. Sign \in Direction /\ gains = Scaled(disp, sampleTime, Sign)
      BY SignType DEF HInv, GainsAsEntered, Sign
    <3>3. CASE \E time \in SampleTimes : SetSampleTime(time)
      <4>1. PICK time \in SampleTimes : SetSampleTime(time)
        BY <3>3
      <4>2. gains' = Scaled(disp, time, Sign)
        BY <3>2, <4>1, SampleTimeRescales DEF HInv
      <4>3. sampleTime' = time /\ disp' = disp /\ direction' = direction
        BY <4>1 DEF SetSampleTime
      <4>4. QED
        BY <1>1, <2>2, <3>1, <4>2, <4>3 DEF HInv, GainsAsEntered, Sign
    <3>4. CASE ~(\E time \in SampleTimes : SetSampleTime(time))
      <4>1. UNCHANGED <<gains, disp, sampleTime, direction>>
        BY <1>3, <2>5, <3>4
        DEF HNext, Next, Compute, compute, SetMode, Tuned, SetOutputLimits,
            MoveOutput, config
      <4>2. QED
        BY <1>1, <2>2, <3>1, <3>2, <4>1 DEF HInv, GainsAsEntered, Sign
    <3>5. QED
      BY <3>3, <3>4
  <2>6. QED
    BY <2>3, <2>4, <2>5
<1>4. QED
  BY <1>2, <1>3

\* After every sequence of calls the gains are the numbers entered, scaled by
\* the sample time; their sign is that of the direction, but for the turns
\* made in manual mode since the last tuning.
THEOREM GainsAsEnteredHolds == HSpec => []GainsAsEntered
<1>1. HInit => HInv
  BY InitPidInv DEF HInit, HInv, Init, GainsAsEntered
<1>2. HInv => GainsAsEntered
  BY DEF HInv
<1>3. QED
  BY <1>1, <1>2, NextHInv, PTL DEF HSpec

-----------------------------------------------------------------------------
\* Only SetMode switches to automatic mode.
LEMMA SwitchedBySetMode ==
  ASSUME Next, ~inAuto, inAuto'
  PROVE  \E x \in Measured : SetMode(TRUE, x)
<1>1. \E auto \in BOOLEAN, x \in Measured : SetMode(auto, x)
  BY DEF Next, Compute, compute, SetTunings, SetSampleTime, SetOutputLimits,
         SetControllerDirection, MoveOutput
<1>2. PICK auto \in BOOLEAN, x \in Measured : SetMode(auto, x)
  BY <1>1
<1>3. auto = TRUE
  BY <1>2 DEF SetMode
<1>4. QED
  BY <1>2, <1>3

\* Switching to automatic mode does not move the output by itself.
THEOREM BumplessHolds == Spec => Bumpless
<1>1. ASSUME PidInv, PidInv', Next, ~inAuto, inAuto'
      PROVE  NewOutput(lastInput, lastInput)' = Clamp(output, limits)
  <2>1. PICK x \in Measured : SetMode(TRUE, x)
    BY <1>1, SwitchedBySetMode
  <2>2. outputSum' = Clamp(output, limits) /\ limits' = limits
    BY <1>1, <2>1 DEF SetMode, Initialize, config
  <2>3. /\ gains.kp' \in Int /\ gains.ki' \in Int /\ gains.kd' \in Int
        /\ lastInput' \in Int /\ outputSum' \in Int
        /\ limits \in OutputLimits /\ output \in Int
    BY <1>1 DEF PidInv, PidType, Gains
  <2>4. ASSUME NEW k \in Int PROVE k * (lastInput' - lastInput') = 0
    BY <2>3, NothingTimes
  <2>5. NewSum(lastInput, lastInput)' = Clamp(outputSum', limits')
    <3>1. outputSum' + gains.ki' * (lastInput' - lastInput')
            - (IF pOnE' THEN 0 ELSE gains.kp' * (lastInput' - lastInput'))
          = outputSum'
      BY <2>3, <2>4
    <3>2. QED
      BY <3>1 DEF NewSum
  <2>6. NewOutput(lastInput, lastInput)' = Clamp(Clamp(outputSum', limits'), limits')
    <3>1. Clamp(outputSum', limits') \in Int
      BY <2>2, <2>3, ClampInLimits
    <3>2. (IF pOnE' THEN gains.kp' * (lastInput' - lastInput') ELSE 0)
            + Clamp(outputSum', limits') - gains.kd' * (lastInput' - lastInput')
          = Clamp(outputSum', limits')
      BY <2>3, <2>4, <3>1
    <3>3. QED
      BY <2>5, <3>2 DEF NewOutput
  <2>7. QED
    BY <2>2, <2>3, <2>6, ClampTwice
<1>2. PidInv /\ PidInv' /\ [Next]_vars
        => [~inAuto /\ inAuto'
              => NewOutput(lastInput, lastInput)' = Clamp(output, limits)]_vars
  BY <1>1
<1>3. QED
  BY <1>2, PidInvariant, PTL DEF Spec, Bumpless

=============================================================================

-------------------------- MODULE FxosSensorProofs --------------------------
(***************************************************************************)
(* Proofs about the inertial sensor: it is the counter the main loop takes *)
(* it for, and it does tell a car that stands still.                       *)
(***************************************************************************)
EXTENDS FxosSensor, NumberLemmas

\* To the main loop the IMU is the counter StillDetector describes, whatever
\* the calibration found and whether or not the sensor answers.
THEOREM FxosImplementsStillDetector == FSpec => ImplementsStillDetector
<1>1. FInit => Detector!Init
  BY DEF FInit, HInit, Init, Detector!Init
<1>2. [FNext]_fvars => [Detector!Next]_(Detector!vars)
  <2> SUFFICES ASSUME [FNext]_fvars PROVE [Detector!Next]_(Detector!vars)
    OBVIOUS
  <2>1. CASE UNCHANGED hvars
    BY <2>1 DEF hvars, vars, Detector!vars
  <2>2. ASSUME NEW raw, HCalibrate(raw) PROVE UNCHANGED Detector!vars
    BY <2>2 DEF HCalibrate, Calibrate, Detector!vars
  <2>3. ASSUME NEW raw, HProcess(raw) PROVE Detector!Next
    <3>1. Count /\ moved' = (prevAccel' # prevAccel)
      BY <2>3 DEF HProcess, getProcessedData
    <3>2. CASE prevAccel' # prevAccel
      BY <3>1, <3>2 DEF Count, Detector!Next, Detector!Move
    <3>3. CASE prevAccel' = prevAccel
      BY <3>1, <3>3 DEF Count, Detector!Next, Detector!Rest
    <3>4. QED
      BY <3>2, <3>3
  <2>4. QED
    BY <2>1, <2>2, <2>3 DEF FNext, init, Sample, fvars
<1>3. QED
  BY <1>1, <1>2, PTL DEF FSpec, ImplementsStillDetector, Detector!Spec

-----------------------------------------------------------------------------
(* The acceleration is a function of the buffer and the last raw sample.   *)

AccelOf(b, raw) ==
  [a \in Axis |->
     MapThenSumSet(LAMBDA i : b[a][i], 0 .. AvgCount - 1) * Degrees
     - Gyro(raw[a]) * AvgCount * UnitG]

\* After one sample it is in front, after two of the same it is all there is
\* in the buffer, and from then on nothing moves.
StillInv ==
  /\ steady \in 0 .. Prompt /\ unchanged \in 0 .. StillValue + 1
  /\ DOMAIN buff = Axis /\ \A a \in Axis : DOMAIN buff[a] = 0 .. AvgCount - 1
  /\ steady > 0 =>
       samples = AvgTimes /\ \A a \in Axis : buff[a][0] = latest[a]
  /\ steady > 1 =>
       /\ buff = [a \in Axis |-> [i \in 0 .. AvgCount - 1 |-> latest[a]]]
       /\ prevAccel = Processed(AccelOf(buff, latest))
       /\ unchanged > StillValue \/ unchanged >= steady - 2

\* The buffer starts full of zeros and nothing has been sampled.
LEMMA StillInit == FInit => StillInv
BY SensorAssumption DEF FInit, HInit, Init, StillInv, Prompt

\* A processed sample, by the number of equal ones before it.
LEMMA StillProcess ==
  ASSUME StillInv, NEW raw, HProcess(raw) PROVE StillInv'
<1>1. /\ samples = AvgTimes /\ UNCHANGED calibration
      /\ buff' = [a \in Axis |-> Shifted(buff[a], raw[a])]
      /\ prevAccel' = Processed(Accel(raw)) /\ Count /\ latest' = raw
      /\ steady' = IF steady = 0 \/ raw # latest THEN 1
                   ELSE IF steady < Prompt THEN steady + 1 ELSE steady
  BY DEF HProcess, getProcessedData, getSensorData
<1>2. Accel(raw) = AccelOf(buff', raw)
  BY DEF Accel, AccelOf
<1>3. /\ Prompt = StillValue + 3 /\ StillValue \in Nat /\ AvgCount \in Nat \ {0}
      /\ steady \in 0 .. Prompt /\ unchanged \in 0 .. StillValue + 1
  BY SensorAssumption DEF StillInv, Prompt
<1>4. steady' \in 0 .. Prompt /\ unchanged' \in 0 .. StillValue + 1
  BY <1>1, <1>3 DEF Count
<1>5. /\ DOMAIN buff' = Axis
      /\ \A a \in Axis : /\ DOMAIN buff'[a] = 0 .. AvgCount - 1
                         /\ buff'[a][0] = latest'[a]
                         /\ \A i \in 1 .. AvgCount - 1 : buff'[a][i] = buff[a][0]
  BY <1>1, <1>3 DEF Shifted, StillInv
<1>6. samples' = AvgTimes
  BY <1>1 DEF calibration
<1>7. ASSUME steady' > 1
      PROVE  /\ buff' = [a \in Axis |-> [i \in 0 .. AvgCount - 1 |-> latest'[a]]]
             /\ prevAccel' = Processed(AccelOf(buff, latest))'
             /\ unchanged' > StillValue \/ unchanged' >= steady' - 2
  <2>1. /\ steady > 0 /\ raw = latest
        /\ steady' = IF steady < Prompt THEN steady + 1 ELSE steady
    BY <1>1, <1>3, <1>7
  <2>2. buff' = [a \in Axis |-> [i \in 0 .. AvgCount - 1 |-> latest'[a]]]
    <3>1. \A a \in Axis : buff[a][0] = raw[a]
      BY <2>1 DEF StillInv
    <3>2. \A a \in Axis : Shifted(buff[a], raw[a])
                          = [i \in 0 .. AvgCount - 1 |-> raw[a]]
      BY <3>1 DEF Shifted, StillInv
    <3>3. QED
      BY <1>1, <3>2
  <2>3. prevAccel' = Processed(AccelOf(buff', latest))
    BY <1>1, <1>2, <2>1
  <2>4. Processed(AccelOf(buff, latest))' = Processed(AccelOf(buff', latest))
    <3>1. AccelOf(buff, latest)' = AccelOf(buff', latest)
      BY <1>1, <2>1
    <3>2. UNCHANGED <<sum, low, high>>
      BY <1>1 DEF calibration
    <3>3. QED
      BY <3>1, <3>2 DEF Processed, Offset, Pass
  <2>5. CASE steady = 1
    BY <2>1, <2>2, <2>3, <2>4, <2>5, <1>3, <1>4
  <2>6. CASE steady > 1
    <3>1. /\ buff = [a \in Axis |-> [i \in 0 .. AvgCount - 1 |-> latest[a]]]
          /\ prevAccel = Processed(AccelOf(buff, latest))
          /\ unchanged > StillValue \/ unchanged >= steady - 2
      BY <2>6 DEF StillInv
    <3>2. buff' = buff
      BY <1>1, <2>1, <2>2, <3>1
    <3>3. prevAccel' = prevAccel
      BY <2>3, <3>1, <3>2
    <3>4. unchanged' > StillValue \/ unchanged' >= steady' - 2
      BY <1>1, <1>3, <2>1, <3>1, <3>3 DEF Count
    <3>5. QED
      BY <2>2, <2>3, <2>4, <3>4
  <2>7. QED
    BY <2>1, <2>5, <2>6, <1>3
<1>8. QED
  BY <1>4, <1>5, <1>6, <1>7 DEF StillInv, Prompt

\* The calibration comes before all of them.
LEMMA StillCalibrate ==
  ASSUME StillInv, NEW raw, HCalibrate(raw) PROVE StillInv'
<1>1. /\ samples < AvgTimes /\ UNCHANGED <<unchanged, steady>>
      /\ buff' = [a \in Axis |-> Shifted(buff[a], raw[a])]
  BY DEF HCalibrate, Calibrate, getSensorData
<1>2. steady = 0
  BY <1>1, SensorAssumption DEF StillInv, Prompt
<1>3. /\ DOMAIN buff' = Axis
      /\ \A a \in Axis : DOMAIN buff'[a] = 0 .. AvgCount - 1
  BY <1>1 DEF Shifted, StillInv
<1>4. QED
  BY <1>1, <1>2, <1>3 DEF StillInv, Prompt

\* The buffer and the counter under equal samples, on every step.
LEMMA StillInvHolds == FSpec => []StillInv
<1>1. StillInv /\ [FNext]_fvars => StillInv'
  <2> SUFFICES ASSUME StillInv, [FNext]_fvars PROVE StillInv'
    OBVIOUS
  <2>1. CASE UNCHANGED hvars
    <3>1. UNCHANGED <<buff, samples, sum, low, high, prevAccel, unchanged,
                      latest, steady>>
      BY <2>1 DEF hvars, vars, calibration
    <3>2. AccelOf(buff, latest)' = AccelOf(buff, latest)
      BY <3>1
    <3>3. Processed(AccelOf(buff, latest))' = Processed(AccelOf(buff, latest))
      BY <3>1, <3>2 DEF Processed, Offset, Pass
    <3>4. QED
      BY <3>1, <3>3 DEF StillInv, Prompt
  <2>2. ASSUME NEW raw, Sample(raw) PROVE StillInv'
    BY <2>2, StillProcess, StillCalibrate DEF Sample
  <2>3. QED
    BY <2>1, <2>2 DEF FNext, init, fvars
<1>2. QED
  BY <1>1, StillInit, PTL DEF FSpec

\* A car whose sensor gives the same values (or fails, or was never set up)
\* for StillValue + 3 samples counts as standing still, whatever was read and
\* calibrated before.
THEOREM StillPromptHolds == FSpec => []StillPrompt
<1>1. StillInv => StillPrompt
  BY SensorAssumption DEF StillInv, StillPrompt, Prompt, isAccelStill
<1>2. QED
  BY <1>1, StillInvHolds, PTL

-----------------------------------------------------------------------------
(* The numbers: a sum of samples and what becomes of it are integers, so   *)
(* the calibration can compare them.                                       *)

Samples == 0 .. AvgCount - 1

\* The constants as the proofs use them.
LEMMA SensorConstants ==
  /\ AvgCount \in Nat \ {0} /\ AvgTimes \in Nat \ {0} /\ StillValue \in Nat
  /\ UnitG \in Nat \ {0} /\ Degrees \in Nat \ {0}
  /\ IsFiniteSet(Samples) /\ Cardinality(Samples) = AvgCount
<1>1. /\ AvgCount \in Nat \ {0} /\ AvgTimes \in Nat \ {0} /\ StillValue \in Nat
      /\ UnitG \in Nat \ {0} /\ Degrees \in Nat \ {0}
  BY SensorAssumption DEF SensorAssumption
<1>2. /\ 0 \in Int /\ AvgCount - 1 \in Int /\ ~(0 > AvgCount - 1)
      /\ AvgCount - 1 - 0 + 1 = AvgCount
  BY <1>1
<1>3. QED
  BY <1>1, <1>2, FS_Interval DEF Samples

\* The gyro term is a whole number ...
LEMMA GyroType ==
  ASSUME NEW r \in Int
  PROVE  Gyro(r) \in Int
<1>1. ASSUME NEW m \in Int, NEW n \in Nat \ {0} PROVE m \div n \in Int
  BY <1>1
<1>2. r * Degrees \in Int /\ UnitG \in Nat \ {0}
  BY SensorConstants
<1>3. QED
  BY <1>1, <1>2 DEF Gyro

\* The acceleration of one axis, from its buffer and its raw sample.
AxisAccel(b, r) == SumOf(b, Samples) * Degrees - Gyro(r) * AvgCount * UnitG

\* An acceleration is computed axis by axis.
LEMMA AccelByAxis ==
  ASSUME NEW b, NEW raw
  PROVE  AccelOf(b, raw) = [a \in Axis |-> AxisAccel(b[a], raw[a])]
BY DEF AccelOf, AxisAccel, SumOf, Samples

\* ... and so is the acceleration of an axis.
LEMMA AxisAccelType ==
  ASSUME NEW b \in [Samples -> Int], NEW r \in Int
  PROVE  AxisAccel(b, r) \in Int
<1>1. SumOf(b, Samples) \in Int
  BY SensorConstants, SumType
<1>2. /\ SumOf(b, Samples) * Degrees \in Int
      /\ Gyro(r) * AvgCount * UnitG \in Int
  BY <1>1, SensorConstants, GyroType, IntProduct
<1>3. QED
  BY <1>2 DEF AxisAccel

-----------------------------------------------------------------------------
(* The calibration.                                                        *)

\* The inductive type invariant.
SensorInv ==
  /\ samples \in 0 .. AvgTimes /\ unchanged \in 0 .. StillValue + 1
  /\ buff \in [Axis -> [Samples -> Int]] /\ latest \in [Axis -> Int]
  /\ sum \in [Axis -> Int] /\ low \in [Axis -> Int] /\ high \in [Axis -> Int]
  /\ \A a \in Axis : low[a] <= 0 /\ 0 <= high[a]

\* Every raw sample is an integer on each axis.
LEMMA RawType ==
  ASSUME NEW raw \in Answers
  PROVE  raw \in [Axis -> Int]
<1>1. raw \in [Axis -> Readings] \/ raw = Zero
  BY DEF Answers, Sensor_ReadData
<1>2. Zero \in [Axis -> Int]
  BY DEF Zero
<1>3. \A r \in Readings : r \in Int
  BY SensorAssumption DEF SensorAssumption
<1>4. [Axis -> Readings] \subseteq [Axis -> Int]
  BY <1>3
<1>5. QED
  BY <1>1, <1>2, <1>4

\* Taking a sample keeps the buffer's type, whatever it shifts out.
LEMMA BufferType ==
  ASSUME SensorInv, NEW raw \in [Axis -> Int], getSensorData(raw)
  PROVE  /\ buff' \in [Axis -> [Samples -> Int]]
         /\ Accel(raw) \in [Axis -> Int]
<1>1. \A a \in Axis : Shifted(buff[a], raw[a]) \in [Samples -> Int]
  <2>1. ASSUME NEW b \in [Samples -> Int], NEW r \in Int
        PROVE  Shifted(b, r) \in [Samples -> Int]
    BY SensorConstants DEF Shifted, Samples
  <2>2. QED
    BY <2>1 DEF SensorInv
<1>2. buff' = [a \in Axis |-> Shifted(buff[a], raw[a])]
  BY DEF getSensorData
<1>3. buff' \in [Axis -> [Samples -> Int]]
  BY <1>1, <1>2
<1>4. Accel(raw) = AccelOf(buff', raw)
  BY DEF Accel, AccelOf
<1>5. \A a \in Axis : AxisAccel(buff'[a], raw[a]) \in Int
  BY <1>3, AxisAccelType
<1>6. QED
  BY <1>3, <1>4, <1>5, AccelByAxis

\* Calibrating, sampling and setting up keep the types.
LEMMA SensorInvHolds == FSpec => []SensorInv
<1>1. FInit => SensorInv
  BY SensorConstants DEF FInit, HInit, Init, SensorInv, Zero, Samples
<1>2. SensorInv /\ [FNext]_fvars => SensorInv'
  <2> SUFFICES ASSUME SensorInv, [FNext]_fvars PROVE SensorInv'
    OBVIOUS
  <2>1. CASE UNCHANGED hvars
    BY <2>1 DEF hvars, vars, calibration, SensorInv
  <2>2. ASSUME NEW raw \in [Axis -> Int], HCalibrate(raw) PROVE SensorInv'
    <3> DEFINE accel == Accel(raw)
    <3>1. /\ samples < AvgTimes /\ samples' = samples + 1 /\ latest' = raw
          /\ getSensorData(raw) /\ unchanged' = unchanged
          /\ sum'  = [a \in Axis |-> sum[a] + accel[a]]
          /\ low'  = [a \in Axis |-> Lower(low[a], accel[a])]
          /\ high' = [a \in Axis |-> Greater(high[a], accel[a])]
      BY <2>2 DEF HCalibrate, Calibrate
    <3>2. /\ buff' \in [Axis -> [Samples -> Int]]
          /\ accel \in [Axis -> Int]
      BY <3>1, BufferType
    <3> HIDE DEF accel
    <3>3. samples' \in 0 .. AvgTimes
      BY <3>1, SensorConstants DEF SensorInv
    <3>4. sum' \in [Axis -> Int]
      BY <3>1, <3>2 DEF SensorInv
    <3>5. low' \in [Axis -> Int] /\ \A a \in Axis : low'[a] <= 0
      BY <3>1, <3>2 DEF SensorInv, Lower
    <3>6. high' \in [Axis -> Int] /\ \A a \in Axis : 0 <= high'[a]
      BY <3>1, <3>2 DEF SensorInv, Greater
    <3>7. QED
      BY <3>1, <3>2, <3>3, <3>4, <3>5, <3>6 DEF SensorInv
  <2>3. ASSUME NEW raw \in [Axis -> Int], HProcess(raw) PROVE SensorInv'
    <3>1. /\ getSensorData(raw) /\ Count /\ latest' = raw
          /\ UNCHANGED <<samples, sum, low, high>>
      BY <2>3 DEF HProcess, getProcessedData, calibration
    <3>2. buff' \in [Axis -> [Samples -> Int]]
      BY <3>1, BufferType
    <3>3. unchanged' \in 0 .. StillValue + 1
      BY <3>1, SensorConstants DEF SensorInv, Count
    <3>4. QED
      BY <3>1, <3>2, <3>3 DEF SensorInv
  <2>4. QED
    BY <2>1, <2>2, <2>3, RawType DEF FNext, init, Sample, fvars
<1>3. QED
  BY <1>1, <1>2, PTL DEF FSpec

\* For every length of the calibration and of the buffers and every sample:
\* the counters keep their bounds and the extremes lie on either side of zero.
THEOREM SensorTypeCorrect == FSpec => []TypeOK
<1>1. SensorInv => TypeOK
  BY DEF SensorInv, TypeOK
<1>2. QED
  BY <1>1, SensorInvHolds, PTL

\* Distances from a number between two others.
LEMMA BetweenIsNearer ==
  ASSUME NEW x \in Int, NEW l \in Int, NEW h \in Int, NEW o \in Int,
         l < x, x < h
  PROVE  Abs(x - o) < Greater(Abs(o - l), Abs(o - h))
BY DEF Abs, Greater

\* Whatever was sampled, an acceleration strictly between the extremes the
\* calibration saw is reported as zero.
THEOREM CalibratedRestHolds == FSpec => []CalibratedRest
<1>1. SensorInv => CalibratedRest
  <2> SUFFICES ASSUME SensorInv, NEW a \in Axis,
                      NEW x \in low[a] + 1 .. high[a] - 1
               PROVE  Abs(AvgTimes * x - Offset(a)) < Pass(a)
    BY DEF CalibratedRest
  <2>1. /\ x \in Int /\ low[a] \in Int /\ high[a] \in Int /\ sum[a] \in Int
        /\ low[a] < x /\ x < high[a]
    BY DEF SensorInv
  <2>2. /\ AvgTimes * low[a] < AvgTimes * x /\ AvgTimes * x < AvgTimes * high[a]
        /\ AvgTimes * low[a] \in Int /\ AvgTimes * x \in Int
        /\ AvgTimes * high[a] \in Int
    BY <2>1, SensorConstants, TimesMonotonic
  <2>3. QED
    BY <2>1, <2>2, BetweenIsNearer DEF Offset, Pass
<1>2. QED
  BY <1>1, SensorInvHolds, PTL

-----------------------------------------------------------------------------
(* A sensor that is not set up.                                            *)

\* All that a mute sensor leaves is zero, and the counter has counted every
\* sample that was processed.
MuteInv ==
  /\ isInit => started
  /\ isInit => active /\ range = 1 /\ dataScale = 4
  /\ ~isInit =>
       /\ dataScale = 0
       /\ buff = [a \in Axis |-> [i \in Samples |-> 0]]
       /\ sum = Zero /\ low = Zero /\ high = Zero /\ prevAccel = Zero
       /\ unchanged > StillValue \/ unchanged >= steady

\* A buffer of zeros and a raw sample of zero give no acceleration.
LEMMA ZeroAccel ==
  ASSUME NEW b, \A i \in Samples : b[i] = 0
  PROVE  AxisAccel(b, 0) = 0
<1>1. SumOf(b, Samples) = AvgCount * 0
  BY SensorConstants, SumConstant, 0 \in Int
<1>2. Gyro(0) = 0
  <2>1. ASSUME NEW q \in Int, NEW n \in Int, n > 0, q = 0 \div n PROVE q = 0
    <3>1. 0 <= 0 - q * n /\ 0 - q * n < n
      BY <2>1, DivisionRest, 0 \in Int
    <3>2. QED
      BY <2>1
  <2>2. Gyro(0) = (0 * Degrees) \div UnitG /\ 0 * Degrees = 0
    BY SensorConstants DEF Gyro
  <2>3. QED
    BY <2>1, <2>2, GyroType, SensorConstants, 0 \in Int
<1>3. QED
  BY <1>1, <1>2, SensorConstants DEF AxisAccel

\* With no offset and nothing accelerated nothing is reported.
LEMMA ZeroProcessed ==
  ASSUME sum = Zero, NEW accel, \A a \in Axis : accel[a] = 0
  PROVE  Processed(accel) = Zero
<1>1. ASSUME NEW a \in Axis
      PROVE  (LET x == AvgTimes * accel[a] - Offset(a)
              IN IF Abs(x) < Pass(a) THEN 0 ELSE x) = 0
  <2>1. AvgTimes * accel[a] - Offset(a) = 0
    BY SensorConstants DEF Offset, Zero
  <2>2. QED
    BY <2>1
<1>2. QED
  BY <1>1 DEF Processed, Zero

\* One more sample of zero.
LEMMA ZeroSample ==
  ASSUME buff = [a \in Axis |-> [i \in Samples |-> 0]], getSensorData(Zero)
  PROVE  buff' = buff /\ \A a \in Axis : Accel(Zero)[a] = 0
<1>1. \A a \in Axis : Shifted(buff[a], Zero[a]) = [i \in Samples |-> 0]
  BY SensorConstants DEF Shifted, Samples, Zero
<1>2. buff' = buff
  BY <1>1 DEF getSensorData
<1>3. Accel(Zero) = AccelOf(buff', Zero)
  BY DEF Accel, AccelOf
<1>4. \A a \in Axis : AxisAccel(buff'[a], Zero[a]) = 0
  BY <1>2, ZeroAccel DEF Zero
<1>5. QED
  BY <1>2, <1>3, <1>4, AccelByAxis

\* Every access has its place among them.
LEMMA ActivatedInTime == Position("activate") <= Len(Accesses)
<1>1. Len(Accesses) = 11 /\ DOMAIN Accesses = 1 .. 11
  BY DEF Accesses
<1>2. 10 \in 1 .. 11 /\ Accesses[10] = "activate"
  BY DEF Accesses
<1>3. Position("activate") \in 1 .. 11
  BY <1>1, <1>2 DEF Position
<1>4. QED
  BY <1>1, <1>3

\* FXOS_Init sets the scale and isInit together, once the chip is active and
\* in the range that goes with it.
LEMMA MuteInit ==
  ASSUME MuteInv, init
  PROVE  MuteInv'
<1>1. PICK done \in 0 .. Len(Accesses), configured \in BOOLEAN,
           answered \in BOOLEAN :
        /\ ~started /\ started' = TRUE
        /\ configured => done = Len(Accesses)
        /\ answered => configured
        /\ Configured(done)
        /\ dataScale' = IF answered THEN Scale(range') ELSE dataScale
        /\ isInit' = (answered /\ Scale(range') # 0)
        /\ UNCHANGED hvars
  BY DEF init, MuteInv
<1>2. /\ ~isInit /\ dataScale = 0
      /\ UNCHANGED <<buff, sum, low, high, prevAccel, unchanged, steady>>
  BY <1>1 DEF MuteInv, hvars, vars, calibration
<1>3. CASE answered
  <2>1. active'
    BY <1>1, <1>3, ActivatedInTime DEF Configured
  <2>2. range' = 1
    <3>1. Len(Accesses) = 11 /\ DOMAIN Accesses = 1 .. 11
      BY DEF Accesses
    <3>2. 9 \in 1 .. 11 /\ Accesses[9] = "range"
      BY DEF Accesses
    <3>3. Position("range") \in 1 .. 11
      BY <3>1, <3>2 DEF Position
    <3>4. QED
      BY <1>1, <1>3, <3>1, <3>3 DEF Configured
  <2>3. Scale(range') = 4 /\ Scale(range') # 0
    <3>1. ASSUME NEW r, r = 1 PROVE Scale(r) = 4
      BY <3>1 DEF Scale
    <3>2. QED
      BY <2>2, <3>1
  <2>4. dataScale' = 4 /\ isInit'
    BY <1>1, <1>3, <2>3
  <2>5. QED
    BY <1>1, <2>1, <2>2, <2>4 DEF MuteInv
<1>4. CASE ~answered
  BY <1>1, <1>2, <1>4 DEF MuteInv
<1>5. QED
  BY <1>3, <1>4

\* A mute sensor only gives samples of zero.
LEMMA MuteSample ==
  ASSUME MuteInv, SensorInv, StillInv, NEW raw \in Answers, Sample(raw)
  PROVE  MuteInv'
<1>1. UNCHANGED <<started, active, range, isInit, dataScale>>
  BY DEF Sample, chip
<1>2. CASE isInit
  BY <1>1, <1>2 DEF MuteInv
<1>3. CASE ~isInit
  <2>1. raw = Zero
    BY <1>3 DEF MuteInv, Answers
  <2>2. /\ buff = [a \in Axis |-> [i \in Samples |-> 0]]
        /\ sum = Zero /\ low = Zero /\ high = Zero /\ prevAccel = Zero
        /\ unchanged > StillValue \/ unchanged >= steady
    BY <1>3 DEF MuteInv
  <2>3. CASE HCalibrate(Zero)
    <3> DEFINE accel == Accel(Zero)
    <3>1. /\ getSensorData(Zero)
          /\ sum'  = [a \in Axis |-> sum[a] + accel[a]]
          /\ low'  = [a \in Axis |-> Lower(low[a], accel[a])]
          /\ high' = [a \in Axis |-> Greater(high[a], accel[a])]
          /\ UNCHANGED <<prevAccel, unchanged, steady>>
      BY <2>3 DEF HCalibrate, Calibrate
    <3>2. buff' = buff /\ \A a \in Axis : accel[a] = 0
      BY <2>2, <3>1, ZeroSample
    <3> HIDE DEF accel
    <3>3. sum' = Zero /\ low' = Zero /\ high' = Zero
      BY <2>2, <3>1, <3>2 DEF Zero, Lower, Greater
    <3>4. QED
      BY <1>1, <2>2, <3>1, <3>2, <3>3 DEF MuteInv
  <2>4. CASE HProcess(Zero)
    <3>1. /\ getSensorData(Zero) /\ UNCHANGED <<sum, low, high>> /\ Count
          /\ prevAccel' = Processed(Accel(Zero))
          /\ steady' = IF steady = 0 \/ Zero # latest THEN 1
                       ELSE IF steady < Prompt THEN steady + 1 ELSE steady
      BY <2>4 DEF HProcess, getProcessedData, calibration
    <3>2. buff' = buff /\ \A a \in Axis : Accel(Zero)[a] = 0
      BY <2>2, <3>1, ZeroSample
    <3>3. prevAccel' = Zero
      BY <2>2, <3>1, <3>2, ZeroProcessed
    <3>4. unchanged' = IF unchanged > StillValue THEN unchanged
                       ELSE unchanged + 1
      BY <2>2, <3>1, <3>3 DEF Count
    <3>5. steady \in Nat /\ unchanged \in Nat /\ StillValue \in Nat
      BY SensorConstants DEF StillInv, SensorInv, Prompt
    <3>6. unchanged' > StillValue \/ unchanged' >= steady'
      BY <2>2, <3>1, <3>4, <3>5
    <3>7. QED
      BY <1>1, <2>2, <3>1, <3>2, <3>3, <3>6 DEF MuteInv
  <2>5. QED
    BY <2>1, <2>3, <2>4 DEF Sample
<1>4. QED
  BY <1>2, <1>3 DEF MuteInv

\* Wherever the bus fails during the set-up and in whatever state the chip was
\* found: it is active in the range its samples are scaled for, or all it
\* reports is zero and the car soon counts as standing still.
THEOREM ConfiguredOrMuteHolds == FSpec => []ConfiguredOrMute
<1>1. FInit => MuteInv
  <2> SUFFICES ASSUME FInit PROVE MuteInv
    OBVIOUS
  <2>1. ~started /\ ~isInit /\ dataScale = 0
    BY DEF FInit
  <2>2. /\ buff = [a \in Axis |-> [i \in Samples |-> 0]]
        /\ sum = Zero /\ low = Zero /\ high = Zero /\ prevAccel = Zero
        /\ unchanged >= steady
    BY DEF FInit, HInit, Init, Samples
  <2>3. QED
    BY <2>1, <2>2 DEF MuteInv
<1>2. MuteInv /\ SensorInv /\ StillInv /\ [FNext]_fvars => MuteInv'
  <2> SUFFICES ASSUME MuteInv, SensorInv, StillInv, [FNext]_fvars
               PROVE  MuteInv'
    OBVIOUS
  <2>1. CASE UNCHANGED fvars
    BY <2>1 DEF MuteInv, fvars, hvars, vars, calibration, chip
  <2>2. QED
    BY <2>1, MuteInit, MuteSample DEF FNext
<1>3. MuteInv /\ SensorInv /\ StillInv => ConfiguredOrMute
  BY SensorConstants DEF MuteInv, SensorInv, StillInv, ConfiguredOrMute,
                         isAccelStill, Prompt
<1>4. QED
  BY <1>1, <1>2, <1>3, SensorInvHolds, StillInvHolds, PTL DEF FSpec

=============================================================================

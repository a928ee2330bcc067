---------------------------- MODULE GyroMagSensor ----------------------------
(***************************************************************************)
(* GyroMagSensor as far as it decides whether the car stands still: the    *)
(* buffers of acceleration, the calibration of offset and dead band, and   *)
(* the counter of unchanged samples.  The magnetometer and the angles are  *)
(* only sent away and are left out.                                        *)
(*                                                                         *)
(* A raw sample r is what Sensor_ReadData leaves in g_Ax_Raw.  The "gyro"  *)
(* is the same register scaled to degrees and rounded down.  Accelerations *)
(* are kept as integers, in units of 1 / (AvgCount * UnitG * Degrees) g;   *)
(* the rounding of the program's floats is left out.                       *)
(***************************************************************************)
EXTENDS Integers, FiniteSetsExt

CONSTANTS
  Axis,         \* the axes that are compared: x and y
  AvgCount,     \* MAX_ACCEL_AVG_COUNT
  AvgTimes,     \* avg_times: samples of the calibration
  StillValue,   \* ACCEL_TIMER_STILL_VALUE
  UnitG,        \* 8192: the raw value of 1 g
  Degrees,      \* 90: the factor of the gyro
  Readings      \* raw values the sensor may give

ASSUME SensorAssumption ==
  /\ AvgCount \in Nat \ {0} /\ AvgTimes \in Nat \ {0} /\ StillValue \in Nat
  /\ UnitG \in Nat \ {0} /\ Degrees \in Nat \ {0}
  /\ Readings \subseteq Int

VARIABLES
  buff,             \* g_Ax_buff, g_Ay_buff
  samples,          \* samples of the calibration already taken
  sum, low, high,   \* xOffset (not yet divided), xMin, xMax, and of y
  prevAccel,        \* prevAccel
  unchanged         \* unchangedAccelTimer, capped above StillValue

calibration == <<samples, sum, low, high>>
vars == <<buff, calibration, prevAccel, unchanged>>

Zero == [a \in Axis |-> 0]

Init ==
  /\ buff = [a \in Axis |-> [i \in 0 .. AvgCount - 1 |-> 0]]
  /\ samples = 0 /\ sum = Zero /\ low = Zero /\ high = Zero
  /\ prevAccel = Zero /\ unchanged = 0

\* What one Sensor_ReadData leaves: getSensorData has cleared the raw values
\* before, so a read that fails, of the acceleration or of the magnetic
\* field, gives zeros.
Sensor_ReadData == [Axis -> Readings] \union {Zero}

\* The loop runs upwards: it copies the newest sample over all the others
\* before the new one takes its place.
Shifted(b, r) == [i \in DOMAIN b |-> IF i = 0 THEN r ELSE b[0]]

\* g_Gx: floor(raw * 90 / 8192)
Gyro(r) == (r * Degrees) \div UnitG

\* getSensorData, and the subtraction of the gyro both callers make next.
Accel(raw) ==
  [a \in Axis |->
     MapThenSumSet(LAMBDA i : buff'[a][i], 0 .. AvgCount - 1) * Degrees
     - Gyro(raw[a]) * AvgCount * UnitG]

getSensorData(raw) == buff' = [a \in Axis |-> Shifted(buff[a], raw[a])]

Lower(x, y)   == IF x < y THEN x ELSE y
Greater(x, y) == IF x > y THEN x ELSE y
Abs(x)        == IF x < 0 THEN -x ELSE x

-----------------------------------------------------------------------------
\* Mutated: the lower extreme starts from the first sample.
CalibrateFromFirst(raw) ==
  /\ samples < AvgTimes /\ samples' = samples + 1
  /\ getSensorData(raw)
  /\ LET accel == Accel(raw)
     IN /\ sum'  = [a \in Axis |-> sum[a] + accel[a]]
        /\ low'  = IF samples = 0 THEN accel
                   ELSE [a \in Axis |-> Lower(low[a], accel[a])]
        /\ high' = [a \in Axis |-> Greater(high[a], accel[a])]
  /\ UNCHANGED <<prevAccel, unchanged>>

\* One round of callibrate(): the extremes start from zero.
Calibrate(raw) ==
  /\ samples < AvgTimes /\ samples' = samples + 1
  /\ getSensorData(raw)
  /\ LET accel == Accel(raw)
     IN /\ sum'  = [a \in Axis |-> sum[a] + accel[a]]
        /\ low'  = [a \in Axis |-> Lower(low[a], accel[a])]
        /\ high' = [a \in Axis |-> Greater(high[a], accel[a])]
  /\ UNCHANGED <<prevAccel, unchanged>>

\* Mutated: only the upper extreme is looked at.
PassAbove(a) == Abs(sum[a] - AvgTimes * high[a])

\* xOffset and xPass, times AvgTimes.
Offset(a) == sum[a]

Pass(a) == Greater(Abs(Offset(a) - AvgTimes * low[a]),
                   Abs(Offset(a) - AvgTimes * high[a]))

\* An acceleration as getProcessedData reports it, times AvgTimes.
Processed(accel) ==
  [a \in Axis |->
     LET x == AvgTimes * accel[a] - Offset(a)
     IN IF Abs(x) < Pass(a) THEN 0 ELSE x]

\* Mutated: the counter starts again when it has reached its bound.
CountWrapping ==
  unchanged' = IF prevAccel' # prevAccel \/ unchanged > StillValue - 1
               THEN 0 ELSE unchanged + 1

Count ==
  unchanged' = IF prevAccel' # prevAccel THEN 0
               ELSE IF unchanged > StillValue THEN unchanged ELSE unchanged + 1

getProcessedData(raw) ==
  /\ samples = AvgTimes
  /\ getSensorData(raw)
  /\ prevAccel' = Processed(Accel(raw))
  /\ Count
  /\ UNCHANGED calibration

isAccelStill == unchanged > StillValue

Next ==
  \E raw \in Sensor_ReadData : Calibrate(raw) \/ getProcessedData(raw)

Spec == Init /\ [][Next]_vars

=============================================================================

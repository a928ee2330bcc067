------------------------ MODULE GyroMagSensorHistory ------------------------
(***************************************************************************)
(* GyroMagSensor with the raw samples it has read, so that properties can  *)
(* compare what it reports with what was there.                            *)
(***************************************************************************)
EXTENDS GyroMagSensor

VARIABLES
  latest,    \* the last raw sample
  steady,    \* processed samples in a row with the same raw values, capped
  moved      \* the last processed sample differed from the one before

hvars == <<vars, latest, steady, moved>>

\* Equal raw samples after which the car counts as standing still: two until
\* the buffer holds nothing else, then more than StillValue unchanged ones.
Prompt == StillValue + 3

HInit == Init /\ latest = Zero /\ steady = 0 /\ moved = TRUE

HCalibrate(raw) ==
  Calibrate(raw) /\ latest' = raw /\ UNCHANGED <<steady, moved>>

HProcess(raw) ==
  /\ getProcessedData(raw) /\ latest' = raw
  /\ steady' = IF steady = 0 \/ raw # latest THEN 1
               ELSE IF steady < Prompt THEN steady + 1 ELSE steady
  /\ moved' = (prevAccel' # prevAccel)

-----------------------------------------------------------------------------
\* The types of the members, as far as they are not data.
TypeOK ==
  /\ samples \in 0 .. AvgTimes /\ unchanged \in 0 .. StillValue + 1
  /\ \A a \in Axis : low[a] <= 0 /\ 0 <= high[a]

\* To the main loop the IMU is the counter StillDetector describes, whatever
\* the calibration found and whether or not the sensor answers.
Detector == INSTANCE StillDetector
ImplementsStillDetector == Detector!Spec

\* A car whose sensor gives the same values (or fails) for StillValue + 3
\* samples counts as standing still, whatever was read and calibrated before.
StillPrompt == steady = Prompt => isAccelStill

\* The calibration does its work: an acceleration strictly between the
\* extremes it saw is reported as zero.
CalibratedRest ==
  samples = AvgTimes =>
    \A a \in Axis : \A x \in low[a] + 1 .. high[a] - 1 :
      Abs(AvgTimes * x - Offset(a)) < Pass(a)

-----------------------------------------------------------------------------
(* A property a comment of the program states and the code violates.       *)

Total(a) == MapThenSumSet(LAMBDA i : buff[a][i], 0 .. AvgCount - 1)

\* g_Ax is said to be an average of the acceleration: an average over the
\* last AvgCount samples moves by the newest and the oldest of them.
AveragesLast ==
  [][\A a \in Axis :
       Total(a)' = Total(a) - buff[a][AvgCount - 1] + latest'[a]]_hvars

=============================================================================

--------------------------- MODULE MainLoopProofs ---------------------------
(***************************************************************************)
(* Proofs about MainLoop: its types, and that it drives the car object     *)
(* only through steps of NxpCar, so that the theorems about the car hold   *)
(* in the whole program.                                                   *)
(***************************************************************************)
EXTENDS MainLoop, NxpCarProofs

\* A step of the loop is a step of the car or leaves it alone.
LEMMA StepOfCar ==
  ASSUME [LNext]_loopVars
  PROVE  [Next]_vars
<1>1. CASE Interrupt \/ FlipSwitch \/ DemoAny
  BY <1>1 DEF Interrupt, FlipSwitch, DemoAny, RunDemo
<1>2. CASE UpdateAny
  BY <1>2 DEF UpdateAny, UpdateCar, Next
<1>3. CASE FinishCar
  BY <1>3 DEF FinishCar, Next
<1>4. CASE UNCHANGED loopVars
  BY <1>4 DEF loopVars
<1>5. QED
  BY <1>1, <1>2, <1>3, <1>4 DEF LNext

\* The program implements the car object's specification.
THEOREM LoopImplementsCar == LSpec => ImplementsCar
<1>1. LInit => Init
  BY DEF LInit
<1>2. [LNext]_loopVars => [Next]_vars
  BY StepOfCar
<1>3. QED
  BY <1>1, <1>2, PTL DEF LSpec, ImplementsCar, Spec

\* In the whole program a standing or braking car is given no speed.
THEOREM LoopStandsStill == LSpec => []StandsStill
  BY LoopImplementsCar, StandsStillHolds, PTL DEF ImplementsCar

\* The drive cycle holds of the whole program, demo program included.
THEOREM LoopDriveCycle == LSpec => ImplementsDriveCycle
  BY LoopImplementsCar, DriveCycleImplemented, PTL DEF ImplementsCar

\* So does the crossing detector: lost ticks and the demo program cost it
\* readings, but nothing else moves its countdowns or brakes the car.
THEOREM LoopLineCrossing == LSpec => ImplementsLineCrossing
  BY LoopImplementsCar, LineCrossingImplemented, PTL DEF ImplementsCar

LEMMA PhaseType ==
  ASSUME LTypeOK, TakeTick
  PROVE  lag' \in 0 .. MaxLag /\ phase' \in 0 .. SendPeriod - 1
<1>1. MaxLag \in Nat /\ SendPeriod \in Nat /\ SendPeriod > 0 /\ phase + lag \in Nat
  BY LoopAssumption DEF LTypeOK
<1>2. (phase + lag) % SendPeriod \in 0 .. SendPeriod - 1
  BY <1>1, SMTT(30)
<1>3. QED
  BY <1>1, <1>2 DEF TakeTick

LEMMA ImuType ==
  ASSUME LTypeOK, SendData
  PROVE  unchanged' \in 0 .. StillValue + 1 /\ moved' \in BOOLEAN
  BY LoopAssumption DEF LTypeOK, SendData, imuVars, isAccelStill

\* The loop's variables keep their types, for every lag and period.
THEOREM LoopTypeCorrect == LSpec => []LTypeOK
<1>1. LInit => LTypeOK
  BY LoopAssumption DEF LInit, LTypeOK
<1>2. LTypeOK /\ [LNext]_loopVars => LTypeOK'
  <2> SUFFICES ASSUME LTypeOK, [LNext]_loopVars PROVE LTypeOK'
    OBVIOUS
  <2>1. CASE Interrupt
    BY <2>1, LoopAssumption DEF Interrupt, LTypeOK, imuVars, outVars
  <2>2. CASE FlipSwitch
    BY <2>2 DEF FlipSwitch, LTypeOK, tickVars, imuVars, outVars
  <2>3. ASSUME NEW in \in Inputs, UpdateCar(in)
        PROVE  LTypeOK'
    BY <2>3 DEF UpdateCar, LTypeOK, tickVars, imuVars
  <2>4. CASE FinishCar
    <3>1. TakeTick /\ SendData
      BY <2>4 DEF FinishCar
    <3>2. pc' = "poll" /\ UNCHANGED <<demoSwitch, motorsOn, wheels>>
      BY <2>4 DEF FinishCar, outVars
    <3>3. QED
      BY <3>1, <3>2, PhaseType, ImuType DEF LTypeOK
  <2>5. ASSUME NEW test \in {"motors", "other"}, RunDemo(test)
        PROVE  LTypeOK'
    <3>1. TakeTick /\ Demo(test)
      BY <2>5 DEF RunDemo
    <3>2. UNCHANGED <<pc, demoSwitch, unchanged, moved>>
      BY <2>5 DEF RunDemo, imuVars
    <3>3. QED
      BY <3>1, <3>2, PhaseType DEF LTypeOK, Demo
  <2>6. CASE UNCHANGED loopVars
    BY <2>6 DEF loopVars, LTypeOK, tickVars, imuVars, outVars
  <2>7. QED
    BY <2>1, <2>2, <2>3, <2>4, <2>5, <2>6 DEF LNext, UpdateAny, DemoAny
<1>3. QED
  BY <1>1, <1>2, PTL DEF LSpec

=============================================================================

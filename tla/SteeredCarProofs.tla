-------------------------- MODULE SteeredCarProofs --------------------------
(***************************************************************************)
(* Proofs about SteeredCar: with its regulator in place the car is still   *)
(* the NxpCar everything else is proved of, and nothing of an earlier ride *)
(* reaches the servo.                                                      *)
(***************************************************************************)
EXTENDS SteeredCar, NxpCarProofs

\* The inductive invariant: that of the car, the types of the regulator's
\* own memory, and what is to be shown of it.
SteeredInv ==
  /\ CarInv
  /\ tunedP \in Nat /\ outputSum \in Int /\ lastInput \in Int
  /\ RegulatorReady

\* What is cut to the limits lies within them.
LEMMA CutInRange ==
  ASSUME NEW x \in Int
  PROVE  Regulator!Clamp(x, OutputRange) \in -ServoLimit .. ServoLimit
BY ConstantsAssumption DEF Regulator!Clamp, OutputRange

LEMMA ProductType == ASSUME NEW a \in Int, NEW b \in Int PROVE a * b \in Int
OBVIOUS

\* Sum and output of Compute() lie within the limits.
LEMMA ComputeInRange ==
  ASSUME SteeredInv, NEW error \in Errors
  PROVE  /\ Regulator!NewSum(error, 0) \in -ServoLimit .. ServoLimit
         /\ Regulator!NewOutput(error, 0) \in -ServoLimit .. ServoLimit
<1>1. /\ tunedP \in Int /\ outputSum \in Int /\ lastInput \in Int
      /\ error \in Int /\ IntegralStep \in Int /\ DerivativeStep \in Int
  BY SteeringAssumption DEF SteeredInv
<1>2. outputSum + IntegralStep * (0 - error) - 0 \in Int
  BY <1>1, ProductType
<1>3. Regulator!NewSum(error, 0) \in -ServoLimit .. ServoLimit
  BY <1>2, CutInRange DEF Regulator!NewSum
<1>4. ServoLimit \in Nat
  BY ConstantsAssumption
<1>5. Regulator!NewSum(error, 0) \in Int
  BY <1>3, <1>4
<1>6. tunedP * (0 - error) + Regulator!NewSum(error, 0)
        - DerivativeStep * (error - lastInput) \in Int
  <2>1. tunedP * (0 - error) \in Int /\ DerivativeStep * (error - lastInput) \in Int
    BY <1>1, ProductType
  <2>2. QED
    BY <1>5, <2>1
<1>7. Regulator!NewOutput(error, 0)
        = Regulator!Clamp(tunedP * (0 - error) + Regulator!NewSum(error, 0)
                          - DerivativeStep * (error - lastInput), OutputRange)
  BY DEF Regulator!NewOutput
<1>8. QED
  BY <1>3, <1>6, <1>7, CutInRange

\* What the car reads when the regulator steers: one of its inputs.
Steered(in, error) == [in EXCEPT !.out = Steering(in, error)]

LEMMA SteeredIsInput ==
  ASSUME SteeredInv, NEW in \in Inputs, NEW error \in Errors
  PROVE  Steered(in, error) \in Inputs
<1>1. Steering(in, error) \in -ServoLimit .. ServoLimit
  BY ComputeInRange, ConstantsAssumption DEF Steering
<1>2. QED
  BY <1>1, SteeringAssumption DEF Steered

\* Nothing that decides over the regulator depends on what it computes.
LEMMA SteeredReads ==
  ASSUME NEW in \in Inputs, NEW error
  PROVE  /\ Steered(in, error).pushed = in.pushed
         /\ Steered(in, error).out = Steering(in, error)
         /\ ModeChanged(Steered(in, error)) = ModeChanged(in)
         /\ Selected(Steered(in, error)) = Selected(in)
         /\ AfterIr(AfterBtns(in.pushed), Steered(in, error))
              = AfterIr(AfterBtns(in.pushed), in)
<1> DEFINE st == Steered(in, error)
<1>1. /\ st.pushed = in.pushed /\ st.dip = in.dip /\ st.ir = in.ir
      /\ st.potP = in.potP /\ st.potSpeed = in.potSpeed
      /\ st.out = Steering(in, error)
  BY InputsAssumption DEF Steered
<1> HIDE DEF st
<1>2. Selected(st) = Selected(in)
  BY <1>1 DEF Selected
<1>3. ModeChanged(st) = ModeChanged(in)
  BY <1>1, <1>2 DEF ModeChanged
<1>4. AfterIr(AfterBtns(in.pushed), st) = AfterIr(AfterBtns(in.pushed), in)
  BY <1>1 DEF AfterIr, IrHandled
<1>5. QED
  BY <1>1, <1>2, <1>3, <1>4 DEF st

\* An update keeps the gains those of the setting.
LEMMA UpdateRetunes ==
  ASSUME SteeredInv, NEW in \in Inputs, NEW error \in Errors, RUpdate(in, error)
  PROVE  tunedP' = setting'.p
<1>1. SelectMode(Steered(in, error)) /\ Retune(in)
  BY DEF RUpdate, Update, Steered
<1>2. setting' = IF ModeChanged(in) THEN Selected(in) ELSE setting
  BY <1>1, SteeredReads DEF SelectMode
<1>3. tunedP = setting.p
  BY DEF SteeredInv, RegulatorReady
<1>4. QED
  BY <1>1, <1>2, <1>3 DEF Retune

\* An update leaves the regulator automatic when it computed, or in Start.
LEMMA UpdateAuto ==
  ASSUME SteeredInv, NEW in \in Inputs, NEW error \in Errors, RUpdate(in, error)
  PROVE  LET s2 == AfterIr(AfterBtns(in.pushed), in)
         IN /\ inAuto' <=> s2 = "Start" \/ Computes(in)
            /\ ~Computes(in) => regOut' = regOut \/ regOut' = 0
<1> DEFINE st == Steered(in, error)
           s2 == AfterIr(AfterBtns(in.pushed), in)
<1>1. Regulate(AfterIr(AfterBtns(st.pushed), st), st)
  BY DEF RUpdate, Update, Steered
<1>2. st.pushed = in.pushed /\ ModeChanged(st) = ModeChanged(in)
      /\ AfterIr(AfterBtns(in.pushed), st) = s2
  BY SteeredReads
<1>3. ResetsRegulator(st) = ResetsRegulator(in)
  BY <1>2 DEF ResetsRegulator
<1>4. Regulate(s2, st)
  BY <1>1, <1>2
<1>5. inAuto \in BOOLEAN
  BY DEF SteeredInv, CarInv, TypeOK
<1> HIDE DEF st, s2
<1>6. inAuto' = (s2 = "Start" \/ (s2 # "Stay" /\ (inAuto /\ ~ResetsRegulator(in))))
  BY <1>3, <1>4 DEF Regulate
<1>7. regOut' = IF s2 # "Stay" /\ (inAuto /\ ~ResetsRegulator(in)) THEN st.out
                ELSE IF ResetsRegulator(in) THEN 0 ELSE regOut
  BY <1>3, <1>4 DEF Regulate
<1>8. Computes(in) <=> s2 # "Stay" /\ inAuto /\ ~ResetsRegulator(in)
  BY DEF Computes, s2
<1>9. QED
  BY <1>6, <1>7, <1>8 DEF s2

\* What the regulator remembers after an update.
LEMMA UpdateRemembers ==
  ASSUME SteeredInv, NEW in \in Inputs, NEW error \in Errors, RUpdate(in, error)
  PROVE  /\ outputSum' \in Int /\ lastInput' \in Int
         /\ inAuto' => outputSum' \in -ServoLimit .. ServoLimit
         /\ ~inAuto /\ inAuto' => outputSum' = 0 /\ lastInput' = error
<1> DEFINE s2 == AfterIr(AfterBtns(in.pushed), in)
<1>1. Remember(in, error)
  BY DEF RUpdate
<1>2. /\ inAuto' <=> s2 = "Start" \/ Computes(in)
      /\ ~Computes(in) => regOut' = regOut \/ regOut' = 0
  BY UpdateAuto
<1>3. error \in Int /\ Garbage \subseteq Int /\ ServoLimit \in Nat
      /\ outputSum \in Int /\ lastInput \in Int
  BY SteeringAssumption, ConstantsAssumption DEF SteeredInv
<1>4. CASE Computes(in)
  <2>1. outputSum' = Regulator!NewSum(error, 0) /\ lastInput' = error
    BY <1>1, <1>4 DEF Remember
  <2>2. inAuto
    BY <1>4 DEF Computes
  <2>3. QED
    BY <1>3, <2>1, <2>2, ComputeInRange
<1>5. CASE ~Computes(in) /\ s2 = "Start"
  <2>1. outputSum' = Regulator!Clamp(regOut', OutputRange) /\ lastInput' = error
    BY <1>1, <1>5 DEF Remember
  <2>2. regOut' = 0 \/ regOut' = regOut
    BY <1>2, <1>5
  <2>3. regOut \in Int /\ (~inAuto => regOut = 0)
    BY <1>3 DEF SteeredInv, CarInv, TypeOK, RegulatorConsistent
  <2>4. outputSum' \in -ServoLimit .. ServoLimit
    BY <2>1, <2>2, <2>3, CutInRange
  <2>5. ~inAuto => outputSum' = 0
    BY <1>3, <2>1, <2>2, <2>3 DEF Regulator!Clamp, OutputRange
  <2>6. QED
    BY <1>3, <2>1, <2>4, <2>5
<1>6. CASE ~Computes(in) /\ s2 # "Start"
  <2>1. ~inAuto'
    BY <1>2, <1>6
  <2>2. \/ outputSum' \in Garbage /\ lastInput' \in Garbage
        \/ UNCHANGED <<outputSum, lastInput>>
    BY <1>1, <1>6 DEF Remember
  <2>3. QED
    BY <1>3, <2>1, <2>2
<1>7. QED
  BY <1>4, <1>5, <1>6

LEMMA UpdateSteeredInv ==
  ASSUME SteeredInv, NEW in \in Inputs, NEW error \in Errors, RUpdate(in, error)
  PROVE  SteeredInv'
<1>1. Update(Steered(in, error)) /\ Steered(in, error) \in Inputs
  BY SteeredIsInput DEF RUpdate, Steered
<1>2. CarInv'
  BY <1>1, NextCarInv DEF SteeredInv, Next
<1>3. tunedP' = setting'.p
  BY UpdateRetunes
<1>4. tunedP' \in Nat
  BY <1>2, <1>3 DEF CarInv, TypeOK, NxpModeSetting
<1>5. QED
  BY <1>2, <1>3, <1>4, UpdateRemembers DEF SteeredInv, RegulatorReady

LEMMA SwitchSteeredInv ==
  ASSUME SteeredInv, RSwitch
  PROVE  SteeredInv' /\ ~inAuto'
<1>1. CarInv'
  BY SwitchCarInv DEF SteeredInv, RSwitch
<1>2. setting' = setting /\ ~inAuto'
  BY DEF RSwitch, SwitchToStayMode
<1>3. tunedP' = setting'.p /\ outputSum' \in Int /\ lastInput' \in Int
  BY <1>2, SteeringAssumption DEF RSwitch
<1>4. tunedP' \in Nat
  BY <1>1, <1>3 DEF CarInv, TypeOK, NxpModeSetting
<1>5. QED
  BY <1>1, <1>2, <1>3, <1>4 DEF SteeredInv, RegulatorReady

LEMMA InitSteeredInv == RInit => SteeredInv
<1> SUFFICES ASSUME RInit PROVE SteeredInv
  OBVIOUS
<1>1. CarInv
  BY InitCarInv DEF RInit
<1>2. tunedP = setting.p /\ outputSum \in Int /\ lastInput \in Int /\ ~inAuto
  BY SteeringAssumption DEF RInit, Init
<1>3. tunedP \in Nat
  BY <1>1, <1>2 DEF CarInv, TypeOK, NxpModeSetting
<1>4. QED
  BY <1>1, <1>2, <1>3 DEF SteeredInv, RegulatorReady

LEMMA NextSteeredInv == SteeredInv /\ [RNext]_rvars => SteeredInv'
<1> SUFFICES ASSUME SteeredInv, [RNext]_rvars PROVE SteeredInv'
  OBVIOUS
<1>1. ASSUME NEW in \in Inputs, NEW error \in Errors, RUpdate(in, error)
      PROVE  SteeredInv'
  BY <1>1, UpdateSteeredInv
<1>2. CASE RSwitch
  BY <1>2, SwitchSteeredInv
<1>3. CASE UNCHANGED rvars
  <2>1. UNCHANGED vars /\ UNCHANGED <<tunedP, outputSum, lastInput>>
    BY <1>3 DEF rvars
  <2>2. CarInv'
    BY <2>1, NextCarInv DEF SteeredInv
  <2>3. setting' = setting /\ inAuto' = inAuto
    BY <2>1, Unchanged DEF vars, modeVars, regVars
  <2>4. QED
    BY <2>1, <2>2, <2>3 DEF SteeredInv, RegulatorReady
<1>4. QED
  BY <1>1, <1>2, <1>3 DEF RNext

LEMMA SteeredInvariant == RSpec => []SteeredInv
  BY InitSteeredInv, NextSteeredInv, PTL DEF RSpec

\* The regulator always has the gains of the present setting, and while it
\* runs its sum lies within the limits, whatever memory it was created with.
THEOREM RegulatorReadyHolds == RSpec => []RegulatorReady
<1>1. SteeredInv => RegulatorReady
  BY DEF SteeredInv
<1>2. QED
  BY <1>1, SteeredInvariant, PTL

\* The update in which the regulator goes to automatic mode empties its sum
\* and stores the present error: no ride begins with a derivative kick.
THEOREM SteersFromRestHolds == RSpec => SteersFromRest
<1> DEFINE FromRest ==
      /\ outputSum' = 0
      /\ \A in \in Inputs, error \in Errors :
           RUpdate(in, error) => lastInput' = error
<1>1. ASSUME SteeredInv, [RNext]_rvars, ~inAuto, inAuto' PROVE FromRest
  <2>1. ASSUME NEW in \in Inputs, NEW error \in Errors, RUpdate(in, error)
        PROVE  outputSum' = 0 /\ lastInput' = error
    BY <1>1, <2>1, UpdateRemembers
  <2>2. ~RSwitch
    BY <1>1, SwitchSteeredInv
  <2>3. ~UNCHANGED rvars
    <3>1. ASSUME UNCHANGED rvars PROVE FALSE
      <4>1. UNCHANGED vars
        BY <3>1 DEF rvars
      <4>2. QED
        BY <1>1, <4>1, Unchanged DEF vars, regVars
    <3>2. QED
      BY <3>1
  <2>4. QED
    BY <1>1, <2>1, <2>2, <2>3 DEF RNext
<1>2. SteeredInv /\ [RNext]_rvars => [~inAuto /\ inAuto' => FromRest]_rvars
  BY <1>1
<1>3. QED
  BY <1>2, SteeredInvariant, PTL DEF RSpec, SteersFromRest

\* With its regulator the car implements NxpCar: the outputs computed are
\* among those the car was proved correct for.
THEOREM SteeredImplementsCar == RSpec => ImplementsCar
<1>1. RInit => Init
  BY DEF RInit
<1>2. SteeredInv /\ [RNext]_rvars => [Next]_vars
  <2> SUFFICES ASSUME SteeredInv, [RNext]_rvars PROVE [Next]_vars
    OBVIOUS
  <2>1. ASSUME NEW in \in Inputs, NEW error \in Errors, RUpdate(in, error)
        PROVE  Next
    BY <2>1, SteeredIsInput DEF RUpdate, Steered, Next
  <2>2. CASE RSwitch
    BY <2>2 DEF RSwitch, Next
  <2>3. CASE UNCHANGED rvars
    BY <2>3 DEF rvars
  <2>4. QED
    BY <2>1, <2>2, <2>3 DEF RNext
<1>3. QED
  BY <1>1, <1>2, SteeredInvariant, PTL DEF RSpec, Spec, ImplementsCar

=============================================================================

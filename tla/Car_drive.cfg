CONSTANTS
  StartSteps = 3
  PwmStep = 100
  DebounceMax = 2
  MaxCrossTimer = 2
  ZoneDelay = 2
  HistorySize = 1
  ServoLimit = 2
  MaxServoChange = 4
  ConstSetting <- MCConstSetting
  Inputs <- SteeredInputs
  IntegralStep = 1
  DerivativeStep = 1
  Errors <- MCErrors
  Garbage <- MCGarbage
SPECIFICATION RSpec
INVARIANTS TypeOK StandsStill RampBudget RegulatorConsistent RegulatorReady
PROPERTIES RegulatorLostOnlyByModeChange SteersFromRest ImplementsDriveCycle ImplementsLineCrossing

CONSTANTS
  StartSteps = 2
  PwmStep = 100
  DebounceMax = 1
  MaxCrossTimer = 1
  ZoneDelay = 1
  HistorySize = 0
  ServoLimit = 1000
  MaxServoChange = 2000
  MaxLag = 3
  SendPeriod = 5
  StillValue = 1
  ConstSetting <- MCConstSetting
  Inputs <- LoopInputs
SPECIFICATION LSpec
INVARIANTS RideDrives

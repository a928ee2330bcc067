CONSTANTS
  StartSteps = 2
  PwmStep = 100
  DebounceMax = 2
  MaxCrossTimer = 2
  ZoneDelay = 4
  HistorySize = 1
  ServoLimit = 1000
  MaxServoChange = 2000
  ConstSetting <- MCConstSetting
  Inputs <- AllInputs
SPECIFICATION MCSpec
PROPERTIES ZoneLeftOnlyByMark

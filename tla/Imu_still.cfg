CONSTANTS
  Axis = {"x", "y"}
  AvgCount = 3
  AvgTimes = 2
  StillValue = 2
  UnitG = 2
  Degrees = 3
  Readings <- MCReadings
SPECIFICATION FSpec
INVARIANTS TypeOK StillPrompt CalibratedRest ConfiguredOrMute
PROPERTIES ImplementsStillDetector

CONSTANTS
  PerSecond = 2
  TimeChange = 2
  SampleTimes = {1, 2, 4}
  Tunings <- MCTunings
  OutputLimits <- MCLimits
  Measured = {0, 1}
  Garbage <- MCGarbage
SPECIFICATION HSpec
INVARIANTS NoWindup GainsAsEntered
PROPERTIES Bumpless

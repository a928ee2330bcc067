CONSTANTS
  LineLength = 12
  BlackCount = 1
  SearchRegion = 3
  MaxRegions = 6
  Distance = 2
  ListSize = 1
  Tolerance = 1
  SendRegions = 4
  White = 12
  WhiteOriginal = 5
  LowDiversity = 0
  Images <- CameraImages
  RawLines <- Lines
SPECIFICATION CSpec
INVARIANTS TypeOK SearchedWidest ViewSettles SettledIsStraight HalfTheWhitesSent LightingInvariant TrackSeen
PROPERTY RadiusSearched

SPECIFICATION Spec
CONSTANTS
  One = 2048
  Half = 1024
  Gaps <- MCGaps
  Linear <- MCLinear
  Angular <- MCAngular
  HalfSeparation <- MCHalfSeparation
  RpmPerMps <- MCRpmPerMps
  Limit = 135
  MaxSpeedRpm = 135
  UnitsPerRpm = 1
  FeedbackUnitsPerRpm = 10
  InvertLeft = FALSE
  InvertRight = TRUE
  Tolerance = 2
INVARIANT
  CommandIsSent

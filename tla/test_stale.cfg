SPECIFICATION Spec
CONSTANTS
  Config <- StaleConfig
  Kinds = {"straight"}
  Reach <- MCReach
  QuarterTurn = 2
  FullTurn = 3
  HalfWidth = 1
PROPERTY StandstillIsMeasured

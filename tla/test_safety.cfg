SPECIFICATION FairSpec
CONSTANTS
  Config <- MCConfig
  Kinds <- MCKinds
  Reach <- MCReach
  QuarterTurn = 2
  FullTurn = 3
  HalfWidth = 1
INVARIANTS TypeOK WheelSpeedWasChecked PhaseIsBounded
PROPERTIES CommandRamps StandstillIsMeasured ImplementsSequence TestEnds

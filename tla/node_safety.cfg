SPECIFICATION FairSpec
CONSTANTS
  EnableCan = TRUE
  CommandTimeout = 2
  FeedbackTimeout = 2
  FaultIgnoreWindow = 1
  ReopenInterval = 4
  Motors = {1, 2}
  FaultMasks = {0, 4}
INVARIANTS
  TypeOK
  GateInvariant
  TestInvariant
  NoReplay
  LinkInvariant
  WatchdogInvariant
  FaultMemory
PROPERTIES
  ImplementsPermit
  MotionNeedsPermit
  GateClosesHalting
  SilenceCloses
  LinkLossCloses
  SilentCommandHalts

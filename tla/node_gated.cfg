SPECIFICATION Spec
CONSTANTS
  EnableCan = TRUE
  CommandTimeout = 1
  FeedbackTimeout = 1
  FaultIgnoreWindow = 1
  ReopenInterval = 1
  Motors = {1, 2}
  FaultMasks = {0, 4}
INVARIANTS
  SafelyGated

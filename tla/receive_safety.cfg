SPECIFICATION Spec
CONSTANTS
  Traffic <- MCTraffic
  kMaximumFramesPerPoll = 2
  QueueLimit = 6
  FeedbackTimeout = 1
  FaultIgnoreWindow = 1
  ReopenInterval = 1
  FaultRepeat = 1
  MaxTraffic = 1
  MaxStall = 1
  MaxStalls = 1
INVARIANTS
  TypeOK
  GateRestsOnRecentFeedback
  FaultIsNoticedInTime
  LossIsNoticedInTime

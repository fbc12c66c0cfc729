SPECIFICATION FairSpec
CONSTANTS
  ReplyTimeout = 2
  MaxInFlight = 5
INVARIANTS
  TypeOK
  UncertaintyIsShown
  RemainingInvariant
  AcknowledgedByOwnReplies
PROPERTIES
  AmbiguityIsFinal
  PendingResolves

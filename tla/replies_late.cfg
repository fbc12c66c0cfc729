SPECIFICATION Spec
CONSTANTS
  ReplyTimeout = 2
  MaxInFlight = 5
INVARIANTS
  LateReplyConfirmsNothing

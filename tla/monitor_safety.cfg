CONSTANTS
  CounterHalf = 1
  MaxPlausible = 0
  FirstCounters = {0}
  Inverted = {}
  EnableGrace = 3
  StaleTimeout = 1
  MaxDelay = 1
  MaxUptime = 2
  MaxResets = 2
  Travel <- StandsStill
  MaxReports = 1
SPECIFICATION FairSpec
INVARIANTS
  OpenGateIsBacked
PROPERTIES
  NoFalseAlarm
  ForgottenEnableCloses

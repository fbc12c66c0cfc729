CONSTANTS
  CounterHalf = 2
  MaxPlausible = 1
  FirstCounters = {1}
  Inverted = {"right"}
  EnableGrace = 1
  StaleTimeout = 0
  MaxDelay = 0
  MaxUptime = 1
  MaxResets = 1
  Travel <- PathOfJumps
  MaxReports = 1
SPECIFICATION Spec
PROPERTIES
  RestartIsNeverIntegrated

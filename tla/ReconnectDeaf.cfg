SPECIFICATION Spec
CONSTANTS
  MaxSockets = 2
  MaxCuts = 2
  MaxPending = 2
  MaxFailures = 0
PROPERTIES ReconnectedPageHears
CHECK_DEADLOCK FALSE

SPECIFICATION Spec
CONSTANTS
  MaxSockets = 2
  MaxCuts = 2
  MaxPending = 2
  MaxFailures = 1
INVARIANTS ConnectedIsListening
PROPERTIES UnbrokenPageHears
CHECK_DEADLOCK FALSE

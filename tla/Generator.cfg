SPECIFICATION Spec
CONSTANTS
  ElixirCap = 10
  RegenInterval = 2
  MaxResult = 99999
  StartNumbers <- MCStartNumbers
  TargetMax = 99
  Operands <- MCOperands
  MaxAttempts = 2
  GameDuration = 45
INVARIANTS TargetReachable TargetIsAhead WinnableInTime
CHECK_DEADLOCK FALSE

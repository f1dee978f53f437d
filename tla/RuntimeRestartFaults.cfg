SPECIFICATION Spec
CONSTANTS
  p1 = p1
  p2 = p2
  r1 = r1
  r2 = r2
  Players <- MCPlayers
  Requests <- MCRequests
  Nobody = Nobody
  Sweeper = Sweeper
  Start = 1
  Target = 2
  Operations <- NoOperations
  MaxSeq = 1
  StartedAt = 0
  ExpiresAt = 1
  Watchers <- JustP1
  Ranked = TRUE
  MaxCrashes = 1
  MaxFaults = 1
  ElixirCap = 2
  RegenInterval = 2
  MaxResult = 9
SYMMETRY Symmetry
INVARIANTS
  OneFinalizer
  RatedWithResult

SPECIFICATION Spec
CONSTANTS
  p1 = p1
  p2 = p2
  r1 = r1
  r2 = r2
  Players <- MCPlayers
  Requests <- MCRequests
  Nobody = Nobody
  Sweeper = Sweeper
  Start = 0
  Target = 2
  Operations <- Plus1
  MaxSeq = 2
  StartedAt = 1
  ExpiresAt = 2
  Watchers <- JustP1
  Ranked = TRUE
  MaxCrashes = 0
  MaxFaults = 1
  ElixirCap = 2
  RegenInterval = 1
  MaxResult = 9
SYMMETRY Symmetry
INVARIANTS
  OneFinalizer
  RatedWithResult
  AnnouncedIsStored
  CacheIsFinal
  AcknowledgedIsLogged
PROPERTIES
  FrozenWhenFinished
  AcceptedOnce
  ImplementsLifecycle

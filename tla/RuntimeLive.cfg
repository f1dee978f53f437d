SPECIFICATION FairSpec
CONSTANTS
  p1 = p1
  p2 = p2
  r1 = r1
  r2 = r2
  Players <- MCPlayers
  Requests <- MCRequests
  Nobody = Nobody
  Sweeper = Sweeper
  Start = 1
  Target = 2
  Operations <- Plus1
  MaxSeq = 2
  StartedAt = 0
  ExpiresAt = 1
  Watchers <- NoPlayers
  Ranked = TRUE
  MaxCrashes = 0
  MaxFaults = 0
  ElixirCap = 1
  RegenInterval = 2
  MaxResult = 9
INVARIANTS
  TypeOK
PROPERTIES
  MatchResolved
  WonIsAnnounced

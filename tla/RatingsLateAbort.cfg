SPECIFICATION Spec
CONSTANTS
  u1 = u1
  u2 = u2
  u3 = u3
  m1 = m1
  m2 = m2
  m3 = m3
  Users <- MCUsers
  Matches <- MCMatches
  Players <- MCPlayers
  Expected <- MCExpected
  MaxLateAborts = 1
  MaxFailures = 0
INVARIANTS RatingsNeedResult
CHECK_DEADLOCK FALSE

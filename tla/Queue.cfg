SPECIFICATION Spec
CONSTANTS
  a = a
  b = b
  c = c
  d = d
  k1 = k1
  k2 = k2
  k3 = k3
  Users <- ThreeUsers
  Callers <- TwoCallers
  Rating <- Even
  Window = 100
  MaxJoins = 4
  MaxLeaves = 1
  MaxFaults = 1
SYMMETRY Symmetry
INVARIANTS
  TypeOK
  PairMadeOnce
  PlayersMeetUnlessMissed
PROPERTIES
  NoRematchWhileRecent
CHECK_DEADLOCK FALSE

SPECIFICATION Spec
CONSTANTS
  a = a
  b = b
  c1 = c1
  Users <- MCUsers
  Leavers <- MCLeavers
  Codes <- MCCodes
  MaxInvites = 2
  MaxJoins = 2
  MaxTries = 1
  MaxTroubles = 1
INVARIANTS TypeOK UsedInviteIsGone CodeIsShown
PROPERTIES CodeGoesToAReader GuestMeetsHost
CHECK_DEADLOCK FALSE

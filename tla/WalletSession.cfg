CONSTANTS
  Sessions = {s1, s2}
  First = s1
  MaxPending = 2
  MaxMishaps = 1
  Null = Null
SPECIFICATION FairSpec
INVARIANTS
  SessionInv
  ShownIsTrue
  LoginFollowsWallet
  NoOrphans
PROPERTIES
  DisconnectIsSeen
CHECK_DEADLOCK FALSE

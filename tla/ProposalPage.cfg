CONSTANTS
  Second = 10
  EpochSeconds = 2
  MinEpochs = 4
  ServerZone <- MCServerZone
  ClientZone <- MCClientZone
  Members = {a1, a2}
  Me = a1
  Required = 2
  Rows <- MCRows
  Faults = TRUE
SPECIFICATION FairSpec
INVARIANTS
  PageInv
  ShownIsBacked
  SignedIsStored
  WindowOutlasts
  OneRequestAtATime
PROPERTIES
  OwnActionIsShown
CHECK_DEADLOCK FALSE

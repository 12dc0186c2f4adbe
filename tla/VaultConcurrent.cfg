CONSTANTS
  k1 = k1
  k2 = k2
  Proposals = {p1}
  Entities = {v1}
  Keys <- MCKeys
  Rules <- DriftingRules
  Intents = {i1, i2}
  MaxTime = 2
  Null = Null
  Accounts = {a1, a2}
  Deadlines = {1}
  Requests = {r1, r2}
  Faults = TRUE
SYMMETRY Symmetry
SPECIFICATION Spec
INVARIANTS
  QuorumWasReached
  IntentsAreBacked
  SettledByLedger
  HashNamesOwnIntent
  IInv

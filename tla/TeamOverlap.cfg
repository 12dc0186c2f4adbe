CONSTANTS
  k1 = k1
  k2 = k2
  Proposals = {p1}
  Entities = {badge, v1}
  Keys <- MCKeys
  Rules <- MCRules
  Intents = {i1, i2}
  MaxTime = 2
  Null = Null
  Accounts = {a1, a2}
  Deadlines = {1}
  Founders = {a1, a2}
  Requests = {r1, r2}
  Transfers = FALSE
  Faults = FALSE
  Badge = badge
  FoundingRules <- TwoSigners
  Asked = {1}
SYMMETRY FullSymmetry
SPECIFICATION Spec
INVARIANTS
  IInv
  SettledByLedger

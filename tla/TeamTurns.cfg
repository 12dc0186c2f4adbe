CONSTANTS
  k1 = k1
  k2 = k2
  Proposals = {p1, p2}
  Entities = {badge, v1}
  Keys <- MCKeys
  Rules <- MCRules
  Intents = {i1, i2}
  MaxTime = 1
  Null = Null
  Accounts = {a1, a2}
  Deadlines = {1}
  Founders = {a1, a2}
  Requests = {r1}
  Transfers = FALSE
  Faults = FALSE
  Badge = badge
  FoundingRules <- MixedSigners
  Asked = {1, 2}
SYMMETRY FounderSymmetry
SPECIFICATION Spec
INVARIANTS
  RequiredWasReached
PROPERTIES
  ImplementsGlossary
CHECK_DEADLOCK FALSE

CONSTANTS
  k1 = k1
  k2 = k2
  Proposals = {p1, p2}
  Entities = {badge}
  Keys <- MCKeys
  Rules <- MCRules
  Intents = {i1, i2}
  MaxTime = 0
  Null = Null
  Accounts = {a1, a2}
  Deadlines = {1}
  Founders = {a1}
  Requests = {r1}
  Transfers = TRUE
  Faults = TRUE
  Badge = badge
  FoundingRules <- OneSigner
  Asked = {1, 2}
SYMMETRY Symmetry
SPECIFICATION Spec
INVARIANTS
  MembersWereVotedIn
  NobodyIsLockedOut
PROPERTIES
  MembersAreVotedOut
CHECK_DEADLOCK FALSE

CONSTANTS
  k1 = k1
  k2 = k2
  Proposals = {p1}
  Entities = {badge}
  Keys <- MCKeys
  Rules <- MCRules
  Intents = {i1}
  MaxTime = 0
  Null = Null
  Accounts = {a1}
  Deadlines = {1}
  Founders = {a1}
  Requests = {r1}
  Transfers = FALSE
  Faults = FALSE
  Badge = badge
  FoundingRules <- OneSigner
  Asked = {1}
SPECIFICATION Spec
PROPERTIES
  CleanupSparesMembers
CHECK_DEADLOCK FALSE

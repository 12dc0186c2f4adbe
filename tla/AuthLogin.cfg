CONSTANTS
  a1 = a1
  a2 = a2
  k1 = k1
  k2 = k2
  Challenges = {c1, c2}
  Sessions = {s1, s2}
  Accounts <- MCAccounts
  Keys <- MCKeys
  AddressOf <- MCAddressOf
  KeySets <- MCKeySets
  Requests = {r1, r2}
  ChallengeTTL = 1
  SessionTTL = 1
  Skews = {0}
  MaxTime = 1
  Faults = TRUE
  Null = Null
SYMMETRY Symmetry
SPECIFICATION Spec
INVARIANTS
  AuthInv
  OneSessionPerChallenge
  SessionsAreProven
  ActorsHaveLoggedIn
PROPERTIES
  LogoutIsFinal

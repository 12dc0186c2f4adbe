CONSTANTS
  k1 = k1
  k2 = k2
  k3 = k3
  v2 = v2
  v3 = v3
  Texts <- MCTexts
  PublicKeys <- MCPublicKeys
  Keys = {k1, k2, k3}
  Accounts = {a1, a2, a3}
  Vaults = {v1, v2, v3}
  OwnRules <- MCOwnRules
  Thresholds = {1, 2, 3}
  MaxSigners = 3
  MaxOdd = 1
  Null = Null
SYMMETRY Symmetry
SPECIFICATION Spec
INVARIANTS
  AccessInv
  ShownAsAsked
  ThresholdIsExact
  MembersAreSigners
CHECK_DEADLOCK FALSE

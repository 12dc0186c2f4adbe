CONSTANTS
  t2 = t2
  b2 = b2
  Founded <- OneTeam
  Teams = {t1, t2}
  Accounts = {a1}
  Keys = {k1, k2}
  Badges = {b1, b2}
  Vaults = {v1}
  Foreign = {v1}
  Thresholds = {1, 2}
  Requests = {r1, r2}
  Changes = {c1}
  Faults = TRUE
  Null = Null
SPECIFICATION Spec
CHECK_DEADLOCK FALSE
INVARIANT
  VaultsFollowBadge

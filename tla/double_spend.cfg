SPECIFICATION Spec
CONSTANTS
  r1 = r1
  r2 = r2
  k1 = k1
  k2 = k2
  Request = {r1, r2}
  Key = {k1}
  KeyOf <- OneKey
  Days <- OneDay
  SeedBalances = {1}
  Adjustments <- Never
  MaxVersion = 1
  MaxAttempts = 2
  ClaimLimit = 1
  Faults = {}
INVARIANTS
  RequestsNeverOverdraw
CHECK_DEADLOCK FALSE

SPECIFICATION Spec
CONSTANTS
  r1 = r1
  r2 = r2
  k1 = k1
  k2 = k2
  Request = {r1, r2}
  Key = {k1}
  KeyOf <- OneKey
  Days <- OneDay
  SeedBalances = {2}
  Adjustments <- UpAndDown
  MaxVersion = 2
  MaxAttempts = 2
  ClaimLimit = 1
  Faults = {"ghostSuccess", "silentOverdraw", "invalidDimensions", "decrease"}
SYMMETRY Symmetry
INVARIANTS
  NegativeIsExplained
PROPERTIES
  NewestRowAgrees
CHECK_DEADLOCK FALSE

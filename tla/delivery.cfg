SPECIFICATION FairSpec
CONSTANTS
  r1 = r1
  r2 = r2
  k1 = k1
  k2 = k2
  Request = {r1, r2}
  Key = {k1, k2}
  KeyOf <- TwoKeys
  Days <- OneDay
  SeedBalances = {1}
  Adjustments <- Never
  MaxVersion = 1
  MaxAttempts = 2
  ClaimLimit = 1
  Faults = {"unavailable"}
INVARIANTS
  NegativeIsExplained
PROPERTIES
  ApprovalSettles
  CancellationSettles
CHECK_DEADLOCK FALSE

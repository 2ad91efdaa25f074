SPECIFICATION FairSpec
CONSTANTS
  r1 = r1
  r2 = r2
  k1 = k1
  k2 = k2
  Request = {r1}
  Key = {k1}
  KeyOf <- OneKey
  Days <- OneDay
  SeedBalances = {2}
  Adjustments <- Never
  MaxVersion = 1
  MaxAttempts = 2
  ClaimLimit = 1
  Faults = {"crash"}
PROPERTIES
  ApprovalSettles
CHECK_DEADLOCK FALSE

SPECIFICATION FairSpec
CONSTANTS
  r1 = r1
  r2 = r2
  k1 = k1
  k2 = k2
  Request = {r1}
  Key = {k1}
  KeyOf <- OneKey
  Days <- OneDay
  SeedBalances = {2}
  Adjustments <- Never
  MaxVersion = 1
  MaxAttempts = 3
  ClaimLimit = 1
  Faults = {"unavailable", "loseReply", "late", "invalidDimensions"}
PROPERTIES
  ApprovalSettles
  CancellationSettles
CHECK_DEADLOCK FALSE

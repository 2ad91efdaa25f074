SPECIFICATION Spec
CONSTANTS
  r1 = r1
  r2 = r2
  k1 = k1
  k2 = k2
  Request = {r1, r2}
  Key = {k1}
  KeyOf <- OneKey
  Days <- OneAndTwoDays
  SeedBalances = {2}
  Adjustments <- UpOnly
  MaxVersion = 2
  MaxAttempts = 2
  ClaimLimit = 2
  Faults = {"loseReply", "silentOverdraw", "crash"}
INVARIANTS
  NeverOverPromised
  RefusedNeverDebited
  CreditUndoesADebit
CHECK_DEADLOCK FALSE

SPECIFICATION FairSpec
CONSTANTS
  r1 = r1
  r2 = r2
  r3 = r3
  r4 = r4
  k1 = k1
  c1 = c1
  c2 = c2
  c3 = c3
  i1 = i1
  i2 = i2
  i3 = i3
  NoPromise = NoPromise
  Request = {r1, r2, r3, r4}
  Key = {k1}
  LockKey = {k1}
  KeyOf <- OneKey
  Days <- TwoForTheSecond
  SeedBalances = {2}
  Adjustments <- Down
  MaxVersion = 2
  MaxAttempts = 2
  ClaimLimit = 1
  Faults = {"decrease", "unavailable"}
  Call <- MCCall
  On <- MCOn
  Mixes <- AnyThreeOrCreates
  IdempotencyKeyOf <- TwoRetries
  Stored = {r1, r2}
INVARIANTS
  TypeOK
  MutualExclusion
  TailIsLast
  OneHoldPerRequest
  CreatesAgree
PROPERTIES
  ImplementsFifoLock
  OnlyACommitOvertakesTheCheck
  OnlyAFirstLoadIsOverwritten
  OnlyUpdatesByIdRewrite
  EveryCallEnds
CHECK_DEADLOCK FALSE

SPECIFICATION Spec
CONSTANTS
  r1 = r1
  r2 = r2
  k1 = k1
  k2 = k2
  Request = {r1}
  Key = {k1}
  KeyOf <- OneKey
  Days <- OneDay
  SeedBalances = {2}
  Adjustments <- UpAndDown
  MaxVersion = 3
  MaxAttempts = 2
  ClaimLimit = 1
  Faults = {"ghostSuccess", "silentOverdraw", "invalidDimensions", "unavailable", "loseReply", "late", "crash", "decrease"}
INVARIANTS
  TypeOK
  HoldMatchesStatus
  OneActiveEntry
  CommittedDaysCounted
  ApprovalIsQueued
  AckedBeforeCommitted
  SnapshotIsHistoric
  GhostCommitsAreDrift
PROPERTIES
  LedgerForwardOnly
  SettledMessagesStay
  SnapshotNeverGoesBack
  SnapshotHeals
  ImplementsSaga
CHECK_DEADLOCK FALSE

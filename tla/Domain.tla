------------------------------- MODULE Domain -------------------------------
(***************************************************************************)
(* The vocabulary every other module shares: the enums, the lifecycle      *)
(* table of a time-off request, and the parameters of an instance.         *)
(*                                                                         *)
(* A balance key is one (employeeId, locationId) pair.  A request belongs  *)
(* to one key and asks for a fixed number of days.  The first three        *)
(* constants are the world the service is run in; the rest are bounds of   *)
(* an instance and the switches that say which faults it may meet.         *)
(***************************************************************************)
EXTENDS Integers, Sequences

CONSTANTS
  Request,      \* ids of time-off requests
  Key,          \* balance keys, (employeeId, locationId)
  KeyOf,        \* the key each request draws on
  Days,         \* the days each request asks for
  SeedBalances, \* balances HCM may provision a key with
  Adjustments,  \* independent changes HCM may make (bonus, HR correction)
  MaxVersion,   \* bound: HCM changes a key by itself only below this version
  MaxAttempts,  \* OutboxService.MAX_ATTEMPTS
  ClaimLimit,   \* the limit of OutboxService.claimDue
  Faults        \* which of FaultKinds this instance may meet

FaultKinds ==
  { "ghostSuccess",      \* HCM acknowledges a delta and does not apply it
    "silentOverdraw",    \* HCM accepts a debit beyond the balance
    "invalidDimensions", \* HCM rejects the key
    "unavailable",       \* HCM or the circuit breaker refuses before any effect
    "loseReply",         \* HCM answered, the service never recorded the answer
    "late",              \* the client timed out, HCM handles the command later
    "decrease",          \* HCM lowers a balance by itself
    "crash" }            \* the drain stops with its claims unfinished

\* Requests are drawn from existing keys and ask for at least one day
\* (canReserve refuses days <= 0, the DTO refuses them before).
ASSUME RequestAssumption ==
  /\ KeyOf \in [Request -> Key]
  /\ Days \in [Request -> Nat \ {0}]

ASSUME BoundsAssumption ==
  /\ SeedBalances \subseteq Nat
  /\ Adjustments \subseteq Int
  /\ MaxVersion \in Nat
  /\ MaxAttempts \in Nat \ {0}
  /\ ClaimLimit \in Nat \ {0}
  /\ Faults \subseteq FaultKinds

------------------------------------------------------------------------------
(* enums.ts *)

RequestStatus ==
  { "DRAFT", "PENDING_APPROVAL", "APPROVED", "COMMITTED", "REJECTED",
    "CANCELLED", "CANCELLATION_PENDING", "FAILED" }

\* The members of LedgerPhase the code writes (RELEASE and HCM_ADJUSTMENT
\* are declared and never used).
LedgerPhase == { "RESERVE", "COMMIT" }

LedgerState == { "ACTIVE", "RELEASED", "RECONCILED" }

OutboxType == { "DEBIT", "CREDIT" }

OutboxStatus == { "PENDING", "INFLIGHT", "DONE", "FAILED", "DEAD" }

------------------------------------------------------------------------------
(* state-machine.ts *)

\* The table as data, as in the source: a status maps each action it allows
\* to the status that follows; the terminal statuses allow none.
TRANSITIONS ==
  [ DRAFT                |-> [ SUBMIT  |-> "PENDING_APPROVAL",
                               CANCEL  |-> "CANCELLED" ],
    PENDING_APPROVAL     |-> [ APPROVE |-> "APPROVED",
                               REJECT  |-> "REJECTED",
                               CANCEL  |-> "CANCELLED" ],
    APPROVED             |-> [ HCM_COMMITTED |-> "COMMITTED",
                               HCM_REJECTED  |-> "FAILED",
                               CANCEL        |-> "CANCELLED" ],
    COMMITTED            |-> [ CANCEL |-> "CANCELLATION_PENDING" ],
    CANCELLATION_PENDING |-> [ HCM_CREDIT_DONE |-> "CANCELLED" ],
    REJECTED             |-> << >>,
    CANCELLED            |-> << >>,
    FAILED               |-> << >> ]

\* The status of an id nobody has created yet.
NoRequest == "NONE"

\* FALSE for an id that does not exist: every handler throws NotFound then.
CanTransition(from, action) ==
  /\ from \in RequestStatus
  /\ action \in DOMAIN TRANSITIONS[from]

NextState(from, action) == TRANSITIONS[from][action]

\* Mutant: the `if (to)` of the outbox outcomes is dropped.
AdvanceUnchecked(from, action) ==
  IF CanTransition(from, action) THEN NextState(from, action) ELSE "null"

\* The outbox outcomes tolerate a request that has moved on: `if (to)`.
AdvanceIfLegal(from, action) ==
  IF CanTransition(from, action) THEN NextState(from, action) ELSE from

==============================================================================

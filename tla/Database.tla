------------------------------ MODULE Database ------------------------------
(***************************************************************************)
(* The tables of the service's SQLite database (src/database/entities) and *)
(* what the services read from them.  A transaction of the code is one     *)
(* step of the model, so a crash finds these variables as the last         *)
(* committed transaction left them.                                        *)
(***************************************************************************)
EXTENDS Domain, BalanceMath

VARIABLES
  status,   \* time_off_requests.status, NoRequest for an id without a row
  balance,  \* balances: the cached HCM snapshot of each key
  ledger,   \* balance_ledger_entries of each request, oldest first
  outbox,   \* outbox_messages in creation order; the position is the id
  events,   \* reconciliation_events written by a reconcile
  drift     \* requests with a DRIFT_DETECTED reconciliation event

dbVars == << status, balance, ledger, outbox, events, drift >>

\* A key without a row reads as balance 0 at watermark 0.
NoBalance == [ hcmBalance |-> 0, lastReconciledVersion |-> 0 ]

\* Nobody has seen the key: every row is written with a version >= 1.
HasBalance(k) == balance[k] # NoBalance

LedgerEntry ==
  [ phase : LedgerPhase, state : LedgerState, hcmVersion : Nat ]

\* last_error by cause: none, a transient failure, a cancel, a rejection.
LastError == { "none", "transient", "cancelled", "rejected" }

OutboxMessage ==
  [ request : Request, type : OutboxType, status : OutboxStatus,
    attempts : Nat, lastError : LastError ]

ReconcileEvent ==
  [ key : Key, version : Nat,
    type : { "OVER_ALLOCATED", "BALANCE_INCREASED", "BALANCE_DECREASED" } ]

DatabaseTypeOK ==
  /\ status \in [Request -> RequestStatus \union {NoRequest}]
  /\ balance \in [Key -> [hcmBalance : Int, lastReconciledVersion : Nat]]
  /\ ledger \in [Request -> Seq(LedgerEntry)]
  /\ outbox \in Seq(OutboxMessage)
  /\ events \subseteq ReconcileEvent
  /\ drift \subseteq Request

DatabaseInit ==
  /\ status = [r \in Request |-> NoRequest]
  /\ balance = [k \in Key |-> NoBalance]
  /\ ledger = [r \in Request |-> << >>]
  /\ outbox = << >>
  /\ events = {}
  /\ drift = {}

==============================================================================

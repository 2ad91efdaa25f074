--------------------------- MODULE TimeOffService ---------------------------
(***************************************************************************)
(* time-off.service.ts: the lifecycle of a request, one action per         *)
(* endpoint.  A handler that throws (NotFound, IllegalTransition,          *)
(* InsufficientBalance) rolls its transaction back and changes nothing, so *)
(* only the accepting path is an action; its guard is every check on it.   *)
(***************************************************************************)
EXTENDS BalanceService, OutboxService

\* A repeated Idempotency-Key returns the existing row: no second row.
Create(r) ==
  /\ status[r] = NoRequest
  /\ status' = [status EXCEPT ![r] = "DRAFT"]
  /\ UNCHANGED << balance, ledger, outbox, events, drift >>

\* The check and the reservation, under the key's mutex.  The balance row
\* exists by then: EnsureBalanceLoaded has run and rows are never deleted.
Submit(r) ==
  /\ CanTransition(status[r], "SUBMIT")
  /\ HasBalance(KeyOf[r])
  /\ CanReserve(ComputeComponents(KeyOf[r]), Days[r])
  /\ ledger' = AddReservation(ledger, r)
  /\ status' = [status EXCEPT ![r] = NextState(@, "SUBMIT")]
  /\ UNCHANGED << balance, outbox, events, drift >>

\* The status and the debit message in one transaction.
Approve(r) ==
  /\ CanTransition(status[r], "APPROVE")
  /\ status' = [status EXCEPT ![r] = NextState(@, "APPROVE")]
  /\ outbox' = Enqueue(outbox, r, "DEBIT")
  /\ UNCHANGED << balance, ledger, events, drift >>

Reject(r) ==
  /\ CanTransition(status[r], "REJECT")
  /\ ledger' = ReleaseReservation(ledger, r)
  /\ status' = [status EXCEPT ![r] = NextState(@, "REJECT")]
  /\ UNCHANGED << balance, outbox, events, drift >>

\* Mutant: an approved request is sent down the compensating path.
CancelCommittedOrApproved(r) ==
  /\ status[r] \in {"APPROVED", "COMMITTED"}
  /\ outbox' = Enqueue(outbox, r, "CREDIT")
  /\ UNCHANGED ledger

\* A committed request asks HCM for its days back.
CancelCommitted(r) ==
  /\ status[r] = "COMMITTED"
  /\ outbox' = Enqueue(outbox, r, "CREDIT")
  /\ UNCHANGED ledger

\* Mutant: the cancel forgets to release the hold.
CancelKeepingHold(r) ==
  /\ status[r] # "COMMITTED"
  /\ outbox' = IF status[r] = "APPROVED" THEN CancelPendingForRequest(outbox, r)
                                         ELSE outbox
  /\ UNCHANGED ledger

\* Before the commit the hold is released, and an approved request stops
\* its debit if that has not shipped.
CancelBeforeCommit(r) ==
  /\ status[r] # "COMMITTED"
  /\ ledger' = ReleaseReservation(ledger, r)
  /\ outbox' = IF status[r] = "APPROVED" THEN CancelPendingForRequest(outbox, r)
                                         ELSE outbox

Cancel(r) ==
  /\ CanTransition(status[r], "CANCEL")
  /\ CancelCommitted(r) \/ CancelBeforeCommit(r)
  /\ status' = [status EXCEPT ![r] = NextState(@, "CANCEL")]
  /\ UNCHANGED << balance, events, drift >>

==============================================================================

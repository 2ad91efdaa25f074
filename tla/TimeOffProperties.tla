-------------------------- MODULE TimeOffProperties --------------------------
(***************************************************************************)
(* What the service promises, over the state of TimeOffSystem.             *)
(***************************************************************************)
EXTENDS TimeOffSystem

Debit(r) == << r, "DEBIT" >>
Credit(r) == << r, "CREDIT" >>

\* HCM holds an ack for the command, and really moved the balance.
Acked(c) == applied[c] # NoAck
ReallyApplied(c) == applied[c].applied

Messages(r, type) ==
  { i \in DOMAIN outbox : outbox[i].request = r /\ outbox[i].type = type }

Live == { "PENDING", "INFLIGHT", "FAILED" }

Watermark(k) == balance[k].lastReconciledVersion

Committed == { "COMMITTED", "CANCELLATION_PENDING" }

------------------------------------------------------------------------------
(* The ledger and the lifecycle *)

\* A request holds days exactly while it waits for approval or for HCM, and
\* holds them once (TRD I1): no release, commit or rejection that raced with
\* another leaves a hold behind or takes one away.
HoldMatchesStatus ==
  \A r \in Request :
    IF status[r] \in {"PENDING_APPROVAL", "APPROVED"}
    THEN \E i \in DOMAIN ledger[r] : Active(ledger[r], "RESERVE") = {i}
    ELSE Active(ledger[r], "RESERVE") = {}

\* The days of a request are subtracted from the available balance at most
\* once: never as a hold and a commit together, never as two commits.
OneActiveEntry ==
  \A r \in Request : \A i, j \in DOMAIN ledger[r] :
    ledger[r][i].state = "ACTIVE" /\ ledger[r][j].state = "ACTIVE" => i = j

\* Days HCM took for a committed request stay counted: its commit entry is
\* still subtracted, or the snapshot accepted since includes the debit.
CommittedDaysCounted ==
  \A r \in Request :
    status[r] \in Committed =>
      \E i \in DOMAIN ledger[r] :
        /\ ledger[r][i].phase = "COMMIT"
        /\ ledger[r][i].hcmVersion = applied[Debit(r)].version
        /\ \/ ledger[r][i].state = "ACTIVE"
           \/ /\ ledger[r][i].state = "RECONCILED"
              /\ ledger[r][i].hcmVersion <= Watermark(KeyOf[r])

\* An entry of the audit trail as it was, or marked for the first time.
MarkedOnce(before, after) ==
  \/ after = before
  \/ /\ before.state = "ACTIVE"
     /\ after.state # "ACTIVE"
     /\ after = [before EXCEPT !.state = after.state]

LedgerStep ==
  \A r \in Request :
    /\ Len(ledger'[r]) >= Len(ledger[r])
    /\ \A i \in DOMAIN ledger[r] : MarkedOnce(ledger[r][i], ledger'[r][i])

\* The audit trail only grows, and an entry changes once at most, from
\* ACTIVE: no two services ever undo each other's mark on an entry.  This is
\* between transactions; Statements has the mark that reconcileKey makes by id.
LedgerForwardOnly == [][LedgerStep]_vars

------------------------------------------------------------------------------
(* The outbox *)

\* An approval is never lost: the debit of an APPROVED request is queued, in
\* flight or parked after its last attempt, and the credit of a request
\* waiting for its cancellation has not been settled as done.  In flight
\* counts, also when the drain has stopped: see crash_strands.
ApprovalIsQueued ==
  \A r \in Request :
    /\ status[r] = "APPROVED" =>
         \E i \in Messages(r, "DEBIT") :
           \/ outbox[i].status \in Live
           \/ outbox[i].status = "DEAD" /\ outbox[i].lastError = "transient"
    /\ status[r] = "CANCELLATION_PENDING" =>
         \E i \in Messages(r, "CREDIT") : outbox[i].status # "DONE"

OutboxStep ==
  \A i \in DOMAIN outbox :
    outbox[i].status \in {"DONE", "DEAD"} => outbox'[i] = outbox[i]

\* A message that is done or dead stays as it is: a drain holding a stale
\* copy of it and a cancel never overwrite each other's verdict.  This is
\* between transactions; Statements has the claim that claimDue makes by id.
SettledMessagesStay == [][OutboxStep]_vars

\* Each direction is queued once per request, and HCM has acknowledged the
\* debit before the service says so or asks for the days back.  This is between
\* transactions; by statements a lost update may queue a direction twice.
AckedBeforeCommitted ==
  \A r \in Request :
    /\ \A t \in OutboxType : Cardinality(Messages(r, t)) <= 1
    /\ status[r] \in Committed \/ Messages(r, "CREDIT") # {} => Acked(Debit(r))

------------------------------------------------------------------------------
(* The snapshot *)

\* The cached pair is a row HCM really held: no interleaving of the lazy
\* load, webhooks and batches mixes the balance of one version with the
\* number of another.
SnapshotIsHistoric ==
  \A k \in Key :
    HasBalance(k) =>
      /\ Watermark(k) \in DOMAIN hcm[k]
      /\ balance[k].hcmBalance = hcm[k][Watermark(k)]

SnapshotStep ==
  \A k \in Key :
    balance'[k] # balance[k] => balance'[k].lastReconciledVersion > Watermark(k)

\* Snapshots are accepted in the order of their versions (C8): a late,
\* duplicated or reordered row never takes the cache back, not even through
\* the insert of a first load that read HCM before a webhook arrived.
SnapshotNeverGoesBack == [][SnapshotStep]_vars

HealStep ==
  \A r \in Request :
    LET k == KeyOf[r] IN
      balance'[k] # balance[k] =>
        \A i \in Active(ledger'[r], "COMMIT") :
          ledger'[r][i].hcmVersion > balance'[k].lastReconciledVersion

\* A commit the snapshot includes is subtracted until the next snapshot at
\* most: whatever order acks and snapshots came in, accepting one leaves no
\* commit ACTIVE that it includes, also one an older snapshot had missed.  A
\* row of the watermark's own version is stale and heals nothing.
SnapshotHeals == [][HealStep]_vars

------------------------------------------------------------------------------
(* Agreement with HCM *)

\* A commit HCM acknowledged without applying is on record as drift, also
\* when the ack was lost and replayed, or the request cancelled meanwhile.
GhostCommitsAreDrift ==
  \A r \in Request :
    (\E i \in DOMAIN ledger[r] : ledger[r][i].phase = "COMMIT")
      => ReallyApplied(Debit(r)) \/ r \in drift

Cancelled(k) == { r \in Request : KeyOf[r] = k /\ status[r] = "CANCELLED" }

\* The available balance is negative only for a reason on record (C9): the
\* snapshot's reconcile raised OVER_ALLOCATED, the key was first loaded below
\* zero, or a cancelled request's debit landed after its cancellation.
NegativeIsExplained ==
  \A k \in Key :
    Available(k) < 0 =>
      \/ [ key |-> k, version |-> Watermark(k), type |-> "OVER_ALLOCATED" ] \in events
      \/ balance[k].hcmBalance < 0
      \/ \E r \in Cancelled(k) : Active(ledger[r], "COMMIT") # {}

\* Days as entries, for Total.
Asked(requests) == { [ id |-> r, amount |-> Days[r] ] : r \in requests }

\* Requests whose days are held, those of them HCM has yet to hear of, and
\* requests that ended without leave though HCM took their days.
Waiting(k) ==
  { r \in Request : KeyOf[r] = k /\ status[r] \in {"PENDING_APPROVAL", "APPROVED"} }

Owed(k) == { r \in Waiting(k) : ~Acked(Debit(r)) }

Leaked(k) ==
  { r \in Cancelled(k) : Acked(Debit(r)) /\ ~Acked(Credit(r)) }

\* While HCM honours its acks and lowers no balance by itself, the service
\* never promises days HCM does not have: what it shows as available and what
\* it still has to debit fit in HCM's balance of this moment, however stale
\* the snapshot (G3).  Days HCM took for requests cancelled in flight are the
\* exception, and are counted on HCM's side.
NeverOverPromised ==
  \A k \in Key :
    HasBalance(k) =>
      Available(k) + Total(Asked(Owed(k)))
        <= CurrentBalance(k) + Total(Asked(Leaked(k)))

AgreeStep ==
  \A k \in Key :
    balance'[k] # balance[k] /\ balance'[k].lastReconciledVersion = Version(k)' =>
      Available(k)' + Total(Asked(Waiting(k)))' = CurrentBalance(k)'

\* Convergence: a snapshot that carries HCM's newest row ends every difference
\* that late, lost or reordered messages, ghost acks and cancellations have
\* left.  What the employee sees is then HCM's balance less the days held.
NewestRowAgrees == [][AgreeStep]_vars

\* A request that ended REJECTED or FAILED costs nothing in HCM, after any
\* number of retries: a rejection is final.
RefusedNeverDebited ==
  \A r \in Request : status[r] \in {"REJECTED", "FAILED"} => ~Acked(Debit(r))

\* HCM gets no days back for a debit it never applied.
CreditUndoesADebit ==
  \A r \in Request : ReallyApplied(Credit(r)) => ReallyApplied(Debit(r))

------------------------------------------------------------------------------
(* The two parties to a request *)

\* Where the service stands with a request, to an outsider.
StageOf(s, approved) ==
  CASE s \in {NoRequest, "DRAFT"}  -> "new"
    [] s = "PENDING_APPROVAL"       -> "asked"
    [] s = "APPROVED"               -> "promised"
    [] s = "COMMITTED"              -> "confirmed"
    [] s = "CANCELLATION_PENDING"   -> "returning"
    [] OTHER                        -> IF approved THEN "ended" ELSE "dropped"

SagaStage == [ r \in Request |-> StageOf(status[r], Messages(r, "DEBIT") # {}) ]

SagaTaken == { r \in Request : Acked(Debit(r)) }

SagaReturned == { r \in Request : Acked(Credit(r)) }

Saga == INSTANCE LeaveSaga WITH
          stage <- SagaStage, taken <- SagaTaken, returned <- SagaReturned

\* Through lost replies, late commands, crashes and cancellations a request
\* goes through the steps of the saga and no others: HCM takes its days once
\* and only after an approval, the service confirms nothing HCM has not taken
\* and completes no cancellation HCM has not given back.
ImplementsSaga == Saga!Spec

------------------------------------------------------------------------------
(* Progress, under FairSpec *)

Parked(r, type) == \E i \in Messages(r, type) : outbox[i].status = "DEAD"

\* The retries of an approval end: in HCM's outcome, in a cancel, or in a debit
\* parked after its last attempt.  A parked debit leaves the request APPROVED
\* with its days held, for a person to resolve; calls of HCM are taken to end.
ApprovalSettles ==
  \A r \in Request :
    status[r] = "APPROVED" ~> status[r] # "APPROVED" \/ Parked(r, "DEBIT")

\* The retries of a cancellation end: it completes, or its credit is parked and
\* the request waits in CANCELLATION_PENDING for a person.
CancellationSettles ==
  \A r \in Request :
    status[r] = "CANCELLATION_PENDING" ~>
      status[r] = "CANCELLED" \/ Parked(r, "CREDIT")

------------------------------------------------------------------------------
(* What the documents say and the code does not do; each is checked by a    *)
(* run that expects a counterexample.                                       *)

\* HCM acknowledged a debit at or below the snapshot's version.
SnapshotHasOurDebit(k) ==
  \E r \in Request :
    KeyOf[r] = k /\ Acked(Debit(r)) /\ applied[Debit(r)].version <= Watermark(k)

\* TRD G3: concurrent requests never drive the local balance negative.  The
\* premise leaves the requests as the only possible cause: the snapshot is
\* one from before any of our debits.
RequestsNeverOverdraw ==
  \A k \in Key : ~SnapshotHasOurDebit(k) => Available(k) >= 0

\* README, C7: a commit the accepted snapshot includes is not subtracted
\* again.
NoDoubleCount ==
  \A r \in Request : \A i \in Active(ledger[r], "COMMIT") :
    ledger[r][i].hcmVersion > Watermark(KeyOf[r])

\* No message or late command of the request is left.
Quiet(r) ==
  /\ \A i \in DOMAIN outbox : outbox[i].request = r => outbox[i].status \notin Live
  /\ \A c \in late : c[1] # r

\* state-machine.ts: a debit that lands after the cancel is reconciled away
\* or compensated, so a cancelled request does not cost its days.
CancelledCostsNothing ==
  \A r \in Request :
    status[r] = "CANCELLED" /\ Quiet(r) /\ ReallyApplied(Debit(r))
      => ReallyApplied(Credit(r))

==============================================================================

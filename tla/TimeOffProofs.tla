---------------------------- MODULE TimeOffProofs ----------------------------
(***************************************************************************)
(* What holds of TimeOffSystem for every value of its constants: types,    *)
(* the agreement of holds with statuses, and the two facts about the       *)
(* cached snapshot.  The only assumptions are RequestAssumption and        *)
(* BoundsAssumption of Domain.                                             *)
(***************************************************************************)
EXTENDS TimeOffProperties, TableProofs

------------------------------------------------------------------------------
(* Type correctness *)

\* The initial state is typed.
LEMMA InitType ==
  ASSUME Init
  PROVE  TypeOK
BY DEF Init, DatabaseInit, HcmInit, ProcessorInit, TypeOK, DatabaseTypeOK,
       HcmTypeOK, ProcessorTypeOK, NoBalance, NoAck, Reply

\* The endpoints keep the types.
LEMMA LifecycleType ==
  ASSUME TypeOK, NEW r \in Request, Lifecycle(r)
  PROVE  TypeOK'
<1> USE DEF TypeOK
<1>0. HcmTypeOK' /\ UNCHANGED processorVars
  BY DEF Lifecycle, HcmTypeOK, hcmVars
<1>1. CASE Create(r)
  BY <1>0, <1>1
     DEF Create, DatabaseTypeOK, ProcessorTypeOK, processorVars, RequestStatus
<1>2. CASE Submit(r)
  <2>1. status' \in [Request -> RequestStatus \union {NoRequest}]
    BY <1>2, SubmitTransition DEF Submit, DatabaseTypeOK, RequestStatus
  <2>2. [phase |-> "RESERVE", state |-> "ACTIVE", hcmVersion |-> NoVersion]
          \in LedgerEntry
    BY DEF LedgerEntry, LedgerPhase, LedgerState, NoVersion
  <2>3. ledger' \in [Request -> Seq(LedgerEntry)]
    BY <1>2, <2>2 DEF Submit, DatabaseTypeOK, AddReservation
  <2> QED BY <1>0, <1>2, <2>1, <2>3
             DEF Submit, DatabaseTypeOK, ProcessorTypeOK, processorVars
<1>3. CASE Approve(r)
  <2>1. status' \in [Request -> RequestStatus \union {NoRequest}]
    BY <1>3, ApproveTransition DEF Approve, DatabaseTypeOK, RequestStatus
  <2>2. outbox' \in Seq(OutboxMessage) /\ DOMAIN outbox \subseteq DOMAIN outbox'
    BY <1>3, EnqueueType DEF Approve, DatabaseTypeOK, OutboxType
  <2> QED BY <1>0, <1>3, <2>1, <2>2
             DEF Approve, DatabaseTypeOK, ProcessorTypeOK, processorVars
<1>4. CASE Reject(r)
  <2>1. status' \in [Request -> RequestStatus \union {NoRequest}]
    BY <1>4, RejectTransition DEF Reject, DatabaseTypeOK, RequestStatus
  <2>2. ledger' \in [Request -> Seq(LedgerEntry)]
    BY <1>4, ReleasedLedgerType DEF Reject
  <2> QED BY <1>0, <1>4, <2>1, <2>2
             DEF Reject, DatabaseTypeOK, ProcessorTypeOK, processorVars
<1>5. CASE Cancel(r)
  <2>1. status' \in [Request -> RequestStatus \union {NoRequest}]
    BY <1>5, CancelTransition DEF Cancel, DatabaseTypeOK, RequestStatus
  <2>2. outbox' \in Seq(OutboxMessage) /\ DOMAIN outbox \subseteq DOMAIN outbox'
    <3>1. outbox \in Seq(OutboxMessage) /\ "CREDIT" \in OutboxType
      BY DEF DatabaseTypeOK, OutboxType
    <3>2. CASE CancelCommitted(r)
      BY <3>1, <3>2, EnqueueType DEF CancelCommitted
    <3>3. CASE CancelBeforeCommit(r)
      BY <3>1, <3>3, CancelPendingType DEF CancelBeforeCommit, SameCommands
    <3> QED BY <1>5, <3>2, <3>3 DEF Cancel
  <2>3. ledger' \in [Request -> Seq(LedgerEntry)]
    BY <1>5, ReleasedLedgerType
       DEF Cancel, CancelCommitted, CancelBeforeCommit, DatabaseTypeOK
  <2> QED BY <1>0, <1>5, <2>1, <2>2, <2>3
             DEF Cancel, DatabaseTypeOK, ProcessorTypeOK, processorVars
<1> QED BY <1>1, <1>2, <1>3, <1>4, <1>5 DEF Lifecycle

\* HCM's own changes keep the types and rewrite no version of any row.
LEMMA HcmMovesType ==
  ASSUME TypeOK, NEW k \in Key, HcmMoves(k)
  PROVE  TypeOK' /\ HistoryKept
<1> USE DEF TypeOK
<1>0. DatabaseTypeOK' /\ ProcessorTypeOK'
  BY DEF HcmMoves, DatabaseTypeOK, ProcessorTypeOK, dbVars, processorVars
<1>1. ASSUME NEW b \in SeedBalances, Seed(k, b)
      PROVE  HcmTypeOK' /\ HistoryKept
  BY <1>1, BoundsAssumption DEF Seed, HistoryKept, HcmTypeOK
<1>2. ASSUME NEW d \in Adjustments, Adjust(k, d)
      PROVE  HcmTypeOK' /\ HistoryKept
  <2>1. CurrentBalance(k) + d \in Int
    BY <1>2, BoundsAssumption DEF Adjust, HcmTypeOK, CurrentBalance, Version
  <2> QED BY <1>2, <2>1 DEF Adjust, HistoryKept, HcmTypeOK
<1>3. CASE GetBalance(k)
  <2>1. << 0 >> \in Seq(Int) /\ DOMAIN hcm[k] = {}
    BY <1>3 DEF GetBalance
  <2>2. hcm' = [hcm EXCEPT ![k] = << 0 >>] /\ UNCHANGED applied
    BY <1>3 DEF GetBalance, Referenced
  <2>3. HcmTypeOK'
    BY <2>1, <2>2 DEF HcmTypeOK
  <2>4. \A q \in Key : hcm'[q] = IF q = k THEN << 0 >> ELSE hcm[q]
    BY <2>2 DEF HcmTypeOK
  <2>5. ASSUME NEW q \in Key, NEW v \in DOMAIN hcm[q]
        PROVE  v \in DOMAIN hcm'[q] /\ hcm'[q][v] = hcm[q][v]
    <3>1. q # k
      BY <2>1
    <3> QED BY <2>4, <3>1
  <2> QED BY <1>0, <2>3, <2>5 DEF HistoryKept
<1> QED BY <1>0, <1>1, <1>2, <1>3 DEF HcmMoves

\* A first load or a reconcile keeps the types.
LEMMA SnapshotArrivesType ==
  ASSUME TypeOK, NEW k \in Key, SnapshotArrives(k)
  PROVE  TypeOK'
<1> USE DEF TypeOK
<1>0. UNCHANGED << hcmVars, processorVars >>
  BY DEF SnapshotArrives
<1>1. PICK v \in DOMAIN hcm[k] :
        EnsureBalanceLoaded(k, RowAt(k, v)) \/ ReconcileKey(k, RowAt(k, v))
  BY DEF SnapshotArrives
<1>2. v \in Nat /\ hcm[k][v] \in Int
  BY DEF HcmTypeOK
<1>3. balance' \in [Key -> [hcmBalance : Int, lastReconciledVersion : Nat]]
  <2>1. balance' = [balance EXCEPT ![k] =
          [hcmBalance |-> hcm[k][v], lastReconciledVersion |-> v]]
    BY <1>1, LoadEffect, ReconcileEffect
  <2> QED BY <1>2, <2>1 DEF DatabaseTypeOK
<1>4. CASE EnsureBalanceLoaded(k, RowAt(k, v))
  BY <1>0, <1>3, <1>4
     DEF EnsureBalanceLoaded, DatabaseTypeOK, HcmTypeOK, ProcessorTypeOK,
         SnapshotArrives, hcmVars, processorVars
<1>5. CASE ReconcileKey(k, RowAt(k, v))
  <2>1. ledger' \in [Request -> Seq(LedgerEntry)] /\ events' \subseteq ReconcileEvent
    <3>1. PICK ids : ledger' = MarkReconciled(ledger, ids)
      BY <1>5, ReconcileEffect
    <3>2. events' \subseteq events \union ReconcileEvent
      BY <1>5, ReconcileEffect
    <3> QED BY <3>1, <3>2, ReconciledLedgerType DEF DatabaseTypeOK
  <2>2. UNCHANGED << status, outbox, drift >>
    BY <1>5 DEF ReconcileKey
  <2> QED BY <1>3, <2>1, <2>2
             DEF DatabaseTypeOK, HcmTypeOK, ProcessorTypeOK, SnapshotArrives,
                 hcmVars, processorVars
<1> QED BY <1>1, <1>4, <1>5

\* A claim keeps the types, and takes messages of the outbox.
LEMMA ClaimDueType ==
  ASSUME TypeOK, ClaimDue
  PROVE  TypeOK'
<1>1. PICK elapsed \in SUBSET DOMAIN outbox :
        batch' = Claimed(outbox, elapsed) /\ outbox' = MarkInflight(outbox, batch')
  BY DEF ClaimDue
<1>2. outbox' \in Seq(OutboxMessage) /\ DOMAIN outbox' = DOMAIN outbox
  BY <1>1, MarkInflightType DEF TypeOK, DatabaseTypeOK, SameCommands
<1>3. batch' \subseteq DOMAIN outbox
  BY <1>1 DEF Claimed, Due
<1> QED BY <1>2, <1>3
           DEF ClaimDue, TypeOK, DatabaseTypeOK, HcmTypeOK, ProcessorTypeOK,
               hcmVars

\* A delivery step keeps the types.
LEMMA DeliverType ==
  ASSUME TypeOK, NEW i \in DOMAIN outbox, Deliver(i)
  PROVE  TypeOK'
<1> USE DEF TypeOK
<1>0. /\ outbox[i] \in OutboxMessage
      /\ outbox[i].request \in Request
      /\ CommandOf(i) \in Command
      /\ applied[CommandOf(i)].version \in Nat
  <2>1. outbox[i] \in OutboxMessage
    BY DEF DatabaseTypeOK
  <2>2. outbox[i].request \in Request /\ outbox[i].type \in OutboxType
    BY <2>1 DEF OutboxMessage
  <2>3. CommandOf(i) \in Command
    BY <2>2 DEF CommandOf, Command
  <2> QED BY <2>1, <2>2, <2>3 DEF HcmTypeOK
<1>1. CASE CallHcm(i)
  BY <1>0, <1>1, ApplyDeltaType
     DEF CallHcm, DatabaseTypeOK, ProcessorTypeOK, dbVars, Reply
<1>2. CASE CallRefused(i) \/ LoseReply(i)
  BY <1>2
     DEF CallRefused, LoseReply, DatabaseTypeOK, HcmTypeOK, ProcessorTypeOK,
         dbVars, hcmVars, Reply, Outcome
<1>3. CASE CallTimesOut(i)
  BY <1>0, <1>3
     DEF CallTimesOut, DatabaseTypeOK, HcmTypeOK, ProcessorTypeOK, dbVars,
         hcmVars, Reply, Outcome
<1>4. CASE ApplySuccess(i)
  <2>1. status' \in [Request -> RequestStatus \union {NoRequest}]
    <3>1. PICK action \in {"HCM_COMMITTED", "HCM_CREDIT_DONE"} :
            status' = [status EXCEPT ![outbox[i].request] = AdvanceIfLegal(@, action)]
      BY <1>4 DEF ApplySuccess, ApplyDebitSuccess, ApplyCreditSuccess
    <3> QED BY <1>0, <3>1, AdvanceType DEF DatabaseTypeOK
  <2>2. ledger' \in [Request -> Seq(LedgerEntry)]
    BY <1>0, <1>4, ReleasedLedgerType, CommitLedgerType
       DEF ApplySuccess, ApplyDebitSuccess, ApplyCreditSuccess
  <2>3. drift' \subseteq Request
    BY <1>0, <1>4
       DEF ApplySuccess, ApplyDebitSuccess, ApplyCreditSuccess, DatabaseTypeOK
  <2>4. outbox' \in Seq(OutboxMessage) /\ DOMAIN outbox' = DOMAIN outbox
    BY <1>4, OutcomeType DEF ApplySuccess, DatabaseTypeOK, SameCommands
  <2> QED BY <1>4, <2>1, <2>2, <2>3, <2>4
             DEF ApplySuccess, Settle, DatabaseTypeOK, HcmTypeOK,
                 ProcessorTypeOK, hcmVars, Reply
<1>5. CASE ApplyRejection(i)
  <2>1. status' \in [Request -> RequestStatus \union {NoRequest}]
    BY <1>0, <1>5, AdvanceType DEF ApplyRejection, DatabaseTypeOK
  <2>2. ledger' \in [Request -> Seq(LedgerEntry)]
    BY <1>0, <1>5, ReleasedLedgerType DEF ApplyRejection, DatabaseTypeOK
  <2>4. outbox' \in Seq(OutboxMessage) /\ DOMAIN outbox' = DOMAIN outbox
    BY <1>5, OutcomeType DEF ApplyRejection, DatabaseTypeOK, SameCommands
  <2> QED BY <1>5, <2>1, <2>2, <2>4
             DEF ApplyRejection, Settle, DatabaseTypeOK, HcmTypeOK,
                 ProcessorTypeOK, hcmVars, Reply
<1>6. CASE ApplyTransientFailure(i)
  <2>4. outbox' \in Seq(OutboxMessage) /\ DOMAIN outbox' = DOMAIN outbox
    BY <1>6, OutcomeType DEF ApplyTransientFailure, DatabaseTypeOK, SameCommands
  <2> QED BY <1>6, <2>4
             DEF ApplyTransientFailure, Settle, DatabaseTypeOK, HcmTypeOK,
                 ProcessorTypeOK, hcmVars, Reply
<1> QED BY <1>1, <1>2, <1>3, <1>4, <1>5, <1>6 DEF Deliver

\* Type correctness of the whole system, for any number of requests, keys, days,
\* versions and attempts, and any set of faults.
THEOREM TypeCorrect == Spec => []TypeOK
<1>1. Init => TypeOK
  BY InitType
<1>2. TypeOK /\ [Next]_vars => TypeOK'
  <2> SUFFICES ASSUME TypeOK, [Next]_vars PROVE TypeOK'
    OBVIOUS
  <2>1. ASSUME NEW r \in Request, Lifecycle(r) PROVE TypeOK'
    BY <2>1, LifecycleType
  <2>2. ASSUME NEW k \in Key, HcmMoves(k) PROVE TypeOK'
    BY <2>2, HcmMovesType
  <2>3. ASSUME NEW k \in Key, SnapshotArrives(k) PROVE TypeOK'
    BY <2>3, SnapshotArrivesType
  <2>4. CASE ClaimDue
    BY <2>4, ClaimDueType
  <2>5. ASSUME NEW i \in DOMAIN outbox, Deliver(i) PROVE TypeOK'
    BY <2>5, DeliverType
  <2>6. ASSUME NEW c \in Command, HcmHandlesLate(c) PROVE TypeOK'
    BY <2>6, ApplyDeltaType
       DEF HcmHandlesLate, TypeOK, DatabaseTypeOK, ProcessorTypeOK, dbVars
  <2>7. CASE DrainStops
    BY <2>7
       DEF DrainStops, TypeOK, DatabaseTypeOK, HcmTypeOK, ProcessorTypeOK,
           dbVars, hcmVars, Reply
  <2>8. CASE UNCHANGED vars
    BY <2>8
       DEF vars, dbVars, hcmVars, processorVars, TypeOK, DatabaseTypeOK,
           HcmTypeOK, ProcessorTypeOK
  <2> QED BY <2>1, <2>2, <2>3, <2>4, <2>5, <2>6, <2>7, <2>8 DEF Next
<1> QED BY <1>1, <1>2, PTL DEF Spec

------------------------------------------------------------------------------
(* Holds *)

\* A message belongs to a request that has been approved.  This is what makes
\* HoldMatchesStatus inductive: a delivery releases the hold of a request, which
\* would be wrong for one still waiting for its approval.
MessageNeedsApproval ==
  \A i \in DOMAIN outbox :
    status[outbox[i].request] \notin {NoRequest, "DRAFT", "PENDING_APPROVAL"}

\* The inductive invariant behind HoldsAreExact.
HoldInv == TypeOK /\ MessageNeedsApproval /\ HoldMatchesStatus

\* The statuses in which a request holds its days.
Holding == {"PENDING_APPROVAL", "APPROVED"}

\* A step that leaves statuses and ledger alone keeps the holds exact.
LEMMA HoldFrame ==
  ASSUME TypeOK, HoldMatchesStatus, UNCHANGED << status, ledger >>
  PROVE  HoldMatchesStatus'
BY DEF HoldMatchesStatus

\* A step that gives one request a status and entries that agree keeps the
\* holds exact.
LEMMA HoldStep ==
  ASSUME TypeOK, HoldMatchesStatus, NEW r \in Request, NEW s, NEW e,
         status' = [status EXCEPT ![r] = s], ledger' = [ledger EXCEPT ![r] = e],
         IF s \in Holding THEN \E i \in DOMAIN e : Active(e, "RESERVE") = {i}
                          ELSE Active(e, "RESERVE") = {}
  PROVE  HoldMatchesStatus'
<1> SUFFICES ASSUME NEW q \in Request
             PROVE  IF status'[q] \in Holding
                    THEN \E i \in DOMAIN ledger'[q] : Active(ledger'[q], "RESERVE") = {i}
                    ELSE Active(ledger'[q], "RESERVE") = {}
  BY DEF HoldMatchesStatus, Holding
<1>1. CASE q = r
  BY <1>1 DEF TypeOK, DatabaseTypeOK
<1>2. CASE q # r
  BY <1>2 DEF TypeOK, DatabaseTypeOK, HoldMatchesStatus, Holding
<1> QED BY <1>1, <1>2

\* Queueing a message for a request that leaves the waiting statuses.
LEMMA EnqueueKeepsApproval ==
  ASSUME TypeOK, MessageNeedsApproval, NEW r \in Request, NEW t \in OutboxType,
         NEW s, s \notin {NoRequest, "DRAFT", "PENDING_APPROVAL"},
         outbox' = Enqueue(outbox, r, t), status' = [status EXCEPT ![r] = s]
  PROVE  MessageNeedsApproval'
<1>1. /\ outbox \in Seq(OutboxMessage)
      /\ status \in [Request -> RequestStatus \union {NoRequest}]
  BY DEF TypeOK, DatabaseTypeOK
<1>2. /\ outbox' \in Seq(OutboxMessage)
      /\ Len(outbox') = Len(outbox) + 1
      /\ \A i \in DOMAIN outbox : outbox'[i] = outbox[i]
      /\ outbox'[Len(outbox) + 1].request = r
  BY <1>1, EnqueueType
<1>3. SUFFICES ASSUME NEW i \in DOMAIN outbox'
               PROVE  status'[outbox'[i].request]
                        \notin {NoRequest, "DRAFT", "PENDING_APPROVAL"}
  BY DEF MessageNeedsApproval
<1>4. CASE i = Len(outbox) + 1
  BY <1>1, <1>2, <1>4
<1>5. CASE i \in DOMAIN outbox
  <2>1. status[outbox[i].request] \notin {NoRequest, "DRAFT", "PENDING_APPROVAL"}
    BY <1>5 DEF MessageNeedsApproval
  <2>2. outbox'[i].request = outbox[i].request
    BY <1>2, <1>5
  <2>3. outbox[i] \in OutboxMessage
    BY <1>1, <1>5
  <2>4. outbox[i].request \in Request
    BY <2>3 DEF OutboxMessage
  <2> QED BY <1>1, <2>1, <2>2, <2>4
<1> QED BY <1>1, <1>2, <1>4, <1>5

\* The endpoints keep the holds exact.
LEMMA LifecycleHold ==
  ASSUME HoldInv, NEW r \in Request, Lifecycle(r)
  PROVE  HoldMatchesStatus' /\ MessageNeedsApproval'
<1> USE DEF HoldInv
<1>0. /\ ledger[r] \in Seq(LedgerEntry) /\ outbox \in Seq(OutboxMessage)
      /\ \A i \in DOMAIN outbox : outbox[i].request \in Request
      /\ status \in [Request -> RequestStatus \union {NoRequest}]
      /\ IF status[r] \in Holding
         THEN \E i \in DOMAIN ledger[r] : Active(ledger[r], "RESERVE") = {i}
         ELSE Active(ledger[r], "RESERVE") = {}
      /\ ledger = [ledger EXCEPT ![r] = ledger[r]]
  <2>1. \A i \in DOMAIN outbox : outbox[i] \in OutboxMessage
    BY DEF TypeOK, DatabaseTypeOK
  <2>2. \A i \in DOMAIN outbox : outbox[i].request \in Request
    BY <2>1 DEF OutboxMessage
  <2>3. ledger \in [Request -> Seq(LedgerEntry)]
    BY DEF TypeOK, DatabaseTypeOK
  <2> QED BY <2>2, <2>3 DEF TypeOK, DatabaseTypeOK, HoldMatchesStatus, Holding
<1>1. CASE Create(r)
  <2>1. HoldMatchesStatus'
    BY <1>0, <1>1, HoldStep DEF Create, Holding, NoRequest
  <2>2. MessageNeedsApproval'
    BY <1>0, <1>1 DEF Create, MessageNeedsApproval, TypeOK, DatabaseTypeOK
  <2> QED BY <2>1, <2>2
<1>2. CASE Submit(r)
  <2>1. /\ status[r] = "DRAFT"
        /\ status' = [status EXCEPT ![r] = "PENDING_APPROVAL"]
    BY <1>2, SubmitTransition DEF Submit
  <2>2. MessageNeedsApproval'
    BY <1>0, <1>2, <2>1 DEF Submit, MessageNeedsApproval, TypeOK, DatabaseTypeOK
  <2> DEFINE x == [ phase |-> "RESERVE", state |-> "ACTIVE",
                    hcmVersion |-> NoVersion ]
  <2>3. x \in LedgerEntry /\ x.phase = "RESERVE" /\ x.state = "ACTIVE"
    BY DEF LedgerEntry, LedgerPhase, LedgerState, NoVersion
  <2>4. ledger' = [ledger EXCEPT ![r] = Append(ledger[r], x)]
    BY <1>2 DEF Submit, AddReservation
  <2> HIDE DEF x
  <2>5. Active(ledger[r], "RESERVE") = {}
    BY <1>0, <2>1 DEF Holding
  <2>6. Active(Append(ledger[r], x), "RESERVE") = {Len(ledger[r]) + 1}
    BY <1>0, <2>3, <2>5, AppendActive
  <2>7. Len(ledger[r]) + 1 \in DOMAIN Append(ledger[r], x)
    BY <1>0
  <2>8. HoldMatchesStatus'
    BY <2>1, <2>4, <2>6, <2>7, HoldStep DEF Holding
  <2> QED BY <2>2, <2>8
<1>3. CASE Approve(r)
  <2>1. /\ status[r] = "PENDING_APPROVAL"
        /\ status' = [status EXCEPT ![r] = "APPROVED"]
    BY <1>3, ApproveTransition DEF Approve
  <2>2. HoldMatchesStatus'
    BY <1>0, <1>3, <2>1, HoldStep DEF Approve, Holding
  <2>4. MessageNeedsApproval'
    BY <1>3, <2>1, EnqueueKeepsApproval DEF Approve, OutboxType, NoRequest
  <2> QED BY <2>2, <2>4
<1>4. CASE Reject(r)
  <2>1. /\ status[r] = "PENDING_APPROVAL"
        /\ status' = [status EXCEPT ![r] = "REJECTED"]
    BY <1>4, RejectTransition DEF Reject
  <2>2. HoldMatchesStatus'
    BY <1>0, <1>4, <2>1, HoldStep, ReleaseActive
       DEF Reject, ReleaseReservation, Holding
  <2>3. MessageNeedsApproval'
    BY <1>0, <1>4, <2>1 DEF Reject, MessageNeedsApproval, TypeOK, DatabaseTypeOK
  <2> QED BY <2>2, <2>3
<1>5. CASE Cancel(r)
  <2>1. PICK s \in {"CANCELLATION_PENDING", "CANCELLED"} :
          status' = [status EXCEPT ![r] = s]
    BY <1>5, CancelTransition DEF Cancel
  <2>2. CASE CancelCommitted(r)
    <3>1. HoldMatchesStatus'
      BY <1>0, <2>1, <2>2, HoldStep DEF CancelCommitted, Holding
    <3>3. MessageNeedsApproval'
      BY <2>1, <2>2, EnqueueKeepsApproval
         DEF CancelCommitted, OutboxType, NoRequest
    <3> QED BY <3>1, <3>3
  <2>3. CASE CancelBeforeCommit(r)
    <3>1. HoldMatchesStatus'
      BY <1>0, <2>1, <2>3, HoldStep, ReleaseActive
         DEF CancelBeforeCommit, ReleaseReservation, Holding
    <3>2. SameCommands(outbox, outbox')
      BY <1>0, <2>3, CancelPendingType DEF CancelBeforeCommit, SameCommands, Alike
    <3>3. MessageNeedsApproval'
      BY <1>0, <2>1, <3>2 DEF MessageNeedsApproval, SameCommands, Alike, NoRequest
    <3> QED BY <3>1, <3>3
  <2> QED BY <1>5, <2>2, <2>3 DEF Cancel
<1> QED BY <1>1, <1>2, <1>3, <1>4, <1>5 DEF Lifecycle

\* An outbox outcome never takes a request back before its approval.
LEMMA StatusKept ==
  ASSUME TypeOK, MessageNeedsApproval, SameCommands(outbox, outbox'),
         \/ UNCHANGED status
         \/ \E r \in Request :
            \E a \in {"HCM_COMMITTED", "HCM_REJECTED", "HCM_CREDIT_DONE"} :
              status' = [status EXCEPT ![r] = AdvanceIfLegal(@, a)]
  PROVE  MessageNeedsApproval'
<1> SUFFICES ASSUME NEW i \in DOMAIN outbox
             PROVE  status'[outbox[i].request]
                      \notin {NoRequest, "DRAFT", "PENDING_APPROVAL"}
  BY DEF MessageNeedsApproval, SameCommands, Alike
<1>1. /\ outbox[i] \in OutboxMessage
      /\ status \in [Request -> RequestStatus \union {NoRequest}]
  BY DEF TypeOK, DatabaseTypeOK
<1>2. outbox[i].request \in Request
  BY <1>1 DEF OutboxMessage
<1>3. status[outbox[i].request] \notin {NoRequest, "DRAFT", "PENDING_APPROVAL"}
  BY DEF MessageNeedsApproval
<1>4. CASE UNCHANGED status
  BY <1>3, <1>4
<1>5. ASSUME NEW r \in Request,
             NEW a \in {"HCM_COMMITTED", "HCM_REJECTED", "HCM_CREDIT_DONE"},
             status' = [status EXCEPT ![r] = AdvanceIfLegal(@, a)]
      PROVE  status'[outbox[i].request]
               \notin {NoRequest, "DRAFT", "PENDING_APPROVAL"}
  BY <1>1, <1>2, <1>3, <1>5, OutcomeTransitions DEF NoRequest
<1> QED BY <1>4, <1>5

\* The delivery steps keep the holds exact.
LEMMA DeliverHold ==
  ASSUME HoldInv, NEW i \in DOMAIN outbox, Deliver(i)
  PROVE  HoldMatchesStatus' /\ MessageNeedsApproval'
<1> USE DEF HoldInv
<1> DEFINE r == outbox[i].request
<1>0. /\ outbox[i] \in OutboxMessage /\ outbox \in Seq(OutboxMessage)
      /\ ledger \in [Request -> Seq(LedgerEntry)]
      /\ status \in [Request -> RequestStatus \union {NoRequest}]
      /\ applied \in [Command -> [version : Nat, applied : BOOLEAN]]
  BY DEF TypeOK, DatabaseTypeOK, HcmTypeOK
<1>1. /\ r \in Request /\ CommandOf(i) \in Command
      /\ applied[CommandOf(i)].version \in Nat
  <2>1. outbox[i].request \in Request /\ outbox[i].type \in OutboxType
    BY <1>0 DEF OutboxMessage
  <2>2. CommandOf(i) \in Command
    BY <2>1 DEF CommandOf, Command
  <2> QED BY <1>0, <2>1, <2>2
<1>2. ledger[r] \in Seq(LedgerEntry) /\ status[r] # "PENDING_APPROVAL"
  BY <1>0, <1>1 DEF MessageNeedsApproval
<1>3. IF status[r] \in Holding
      THEN \E n \in DOMAIN ledger[r] : Active(ledger[r], "RESERVE") = {n}
      ELSE Active(ledger[r], "RESERVE") = {}
  BY <1>1 DEF HoldMatchesStatus, Holding
<1> HIDE DEF r
<1>4. CASE CallHcm(i) \/ CallRefused(i) \/ CallTimesOut(i) \/ LoseReply(i)
  <2>1. UNCHANGED dbVars
    BY <1>4 DEF CallHcm, CallRefused, CallTimesOut, LoseReply
  <2> QED BY <2>1, HoldFrame DEF dbVars, MessageNeedsApproval
<1>5. CASE ApplySuccess(i)
  <2>1. SameCommands(outbox, outbox')
    BY <1>0, <1>5, OutcomeType DEF ApplySuccess
  <2>2. CASE ApplyDebitSuccess(i)
    <3>1. /\ ledger' = CommitReservation(ledger, r, applied[CommandOf(i)].version)
          /\ status' = [status EXCEPT ![r] = AdvanceIfLegal(@, "HCM_COMMITTED")]
      BY <2>2 DEF ApplyDebitSuccess, r
    <3> DEFINE x == [ phase |-> "COMMIT", state |-> "ACTIVE",
                      hcmVersion |-> applied[CommandOf(i)].version ]
               e == Release(ledger[r], "RESERVE")
    <3>2. x \in LedgerEntry /\ x.phase # "RESERVE"
      BY <1>1 DEF LedgerEntry, LedgerPhase, LedgerState
    <3>3. ledger' = [ledger EXCEPT ![r] = Append(e, x)]
      BY <3>1 DEF CommitReservation
    <3>4. e \in Seq(LedgerEntry) /\ Active(e, "RESERVE") = {}
      BY <1>2, ReleaseType, ReleaseActive
    <3> HIDE DEF x, e
    <3>5. Active(Append(e, x), "RESERVE") = {}
      BY <3>2, <3>4, AppendActive
    <3>6. AdvanceIfLegal(status[r], "HCM_COMMITTED") \notin Holding
      BY <1>2, OutcomeTransitions DEF Holding
    <3>7. status' = [status EXCEPT ![r] = AdvanceIfLegal(status[r], "HCM_COMMITTED")]
      BY <3>1
    <3>8. HoldMatchesStatus'
      BY <1>1, <3>3, <3>5, <3>6, <3>7, HoldStep
    <3> QED BY <1>1, <2>1, <3>1, <3>8, StatusKept
  <2>3. CASE ApplyCreditSuccess(i)
    <3>1. /\ ledger' = [ledger EXCEPT ![r] = Release(ledger[r], "COMMIT")]
          /\ status' = [status EXCEPT ![r] = AdvanceIfLegal(status[r], "HCM_CREDIT_DONE")]
      BY <2>3 DEF ApplyCreditSuccess, ReleaseCommit, r
    <3>2. /\ Active(Release(ledger[r], "COMMIT"), "RESERVE")
               = Active(ledger[r], "RESERVE")
          /\ DOMAIN Release(ledger[r], "COMMIT") = DOMAIN ledger[r]
      BY <1>2, ReleaseActive DEF Release
    <3>3. AdvanceIfLegal(status[r], "HCM_CREDIT_DONE") \in Holding
            <=> status[r] \in Holding
      BY OutcomeTransitions DEF Holding
    <3>4. HoldMatchesStatus'
      BY <1>1, <1>3, <3>1, <3>2, <3>3, HoldStep
    <3> QED BY <1>1, <2>1, <3>1, <3>4, StatusKept
  <2> QED BY <1>5, <2>2, <2>3 DEF ApplySuccess
<1>6. CASE ApplyRejection(i)
  <2>1. SameCommands(outbox, outbox')
    BY <1>0, <1>6, OutcomeType DEF ApplyRejection
  <2>2. CASE outbox[i].type = "DEBIT"
    <3>1. /\ ledger' = [ledger EXCEPT ![r] = Release(ledger[r], "RESERVE")]
          /\ status' = [status EXCEPT ![r] = AdvanceIfLegal(status[r], "HCM_REJECTED")]
      BY <1>6, <2>2 DEF ApplyRejection, ReleaseReservation, r
    <3>2. AdvanceIfLegal(status[r], "HCM_REJECTED") \notin Holding
      BY <1>2, OutcomeTransitions DEF Holding
    <3>3. Active(Release(ledger[r], "RESERVE"), "RESERVE") = {}
      BY <1>2, ReleaseActive
    <3>4. HoldMatchesStatus'
      BY <1>1, <3>1, <3>2, <3>3, HoldStep
    <3> QED BY <1>1, <2>1, <3>1, <3>4, StatusKept
  <2>3. CASE outbox[i].type # "DEBIT"
    BY <1>6, <2>1, <2>3, HoldFrame, StatusKept DEF ApplyRejection
  <2> QED BY <2>2, <2>3
<1>7. CASE ApplyTransientFailure(i)
  <2>1. SameCommands(outbox, outbox')
    BY <1>0, <1>7, OutcomeType DEF ApplyTransientFailure
  <2> QED BY <1>7, <2>1, HoldFrame, StatusKept DEF ApplyTransientFailure
<1> QED BY <1>4, <1>5, <1>6, <1>7 DEF Deliver

\* A request holds its days exactly while it is PENDING_APPROVAL or APPROVED,
\* and holds them once, whatever races: submit, approve, reject and cancel
\* (time-off.service.ts) against the outcomes of the outbox (applySuccess,
\* applyRejection) and the reconciles that mark entries.
THEOREM HoldsAreExact == Spec => []HoldMatchesStatus
<1>1. Init => HoldInv
  <2> SUFFICES ASSUME Init PROVE HoldInv
    OBVIOUS
  <2>1. TypeOK
    BY InitType
  <2>2. MessageNeedsApproval
    BY DEF Init, DatabaseInit, MessageNeedsApproval
  <2>3. \A r \in Request : status[r] = NoRequest /\ ledger[r] = << >>
    BY DEF Init, DatabaseInit
  <2>4. Active(<< >>, "RESERVE") = {}
    BY DEF Active
  <2>5. HoldMatchesStatus
    BY <2>3, <2>4 DEF HoldMatchesStatus, NoRequest
  <2> QED BY <2>1, <2>2, <2>5 DEF HoldInv
<1>2. TypeOK' /\ HoldInv /\ [Next]_vars => HoldInv'
  <2> SUFFICES ASSUME TypeOK', HoldInv, [Next]_vars
               PROVE  HoldMatchesStatus' /\ MessageNeedsApproval'
    BY DEF HoldInv
  <2>0. TypeOK /\ HoldMatchesStatus /\ MessageNeedsApproval
    BY DEF HoldInv
  <2>1. ASSUME NEW r \in Request, Lifecycle(r)
        PROVE  HoldMatchesStatus' /\ MessageNeedsApproval'
    BY <2>1, LifecycleHold
  <2>2. CASE UNCHANGED << status, ledger, outbox >>
    BY <2>0, <2>2, HoldFrame DEF MessageNeedsApproval
  <2>3. ASSUME NEW k \in Key, SnapshotArrives(k)
        PROVE  HoldMatchesStatus' /\ MessageNeedsApproval'
    <3>1. UNCHANGED << status, outbox >>
      BY <2>3 DEF SnapshotArrives, EnsureBalanceLoaded, ReconcileKey
    <3>2. \A r \in Request :
            /\ DOMAIN ledger'[r] = DOMAIN ledger[r]
            /\ Active(ledger'[r], "RESERVE") = Active(ledger[r], "RESERVE")
      <4>1. PICK v \in DOMAIN hcm[k] :
              EnsureBalanceLoaded(k, RowAt(k, v)) \/ ReconcileKey(k, RowAt(k, v))
        BY <2>3 DEF SnapshotArrives
      <4>2. CASE EnsureBalanceLoaded(k, RowAt(k, v))
        BY <4>2 DEF EnsureBalanceLoaded
      <4>3. CASE ReconcileKey(k, RowAt(k, v))
        <5>1. PICK ids : /\ ledger' = MarkReconciled(ledger, ids)
                         /\ \A r \in Request : \A i \in DOMAIN ledger[r] :
                              << r, i >> \in ids => i \in Active(ledger[r], "COMMIT")
          BY <2>0, <4>3, ReconcileEffect DEF TypeOK
        <5> QED BY <2>0, <5>1, ReconcileActive, ReconciledLedgerType DEF TypeOK
      <4> QED BY <4>1, <4>2, <4>3
    <3> QED BY <2>0, <3>1, <3>2 DEF HoldMatchesStatus, MessageNeedsApproval
  <2>4. CASE ClaimDue
    <3>1. SameCommands(outbox, outbox') /\ UNCHANGED << status, ledger >>
      BY <2>0, <2>4, MarkInflightType DEF ClaimDue, TypeOK, DatabaseTypeOK
    <3> QED BY <2>0, <3>1, HoldFrame, StatusKept
  <2>5. ASSUME NEW i \in DOMAIN outbox, Deliver(i)
        PROVE  HoldMatchesStatus' /\ MessageNeedsApproval'
    BY <2>5, DeliverHold
  <2> QED BY <2>1, <2>2, <2>3, <2>4, <2>5
          DEF Next, HcmMoves, HcmHandlesLate, DrainStops, vars, dbVars
<1>3. HoldInv => HoldMatchesStatus
  BY DEF HoldInv
<1> QED BY <1>1, <1>2, <1>3, TypeCorrect, PTL DEF Spec

------------------------------------------------------------------------------
(* The snapshot *)

\* A step either extends HCM's histories and leaves the cache alone, or gives one
\* key of the cache a row of HCM's history newer than the one it had.
LEMMA NextMovesSnapshotOrHistory ==
  ASSUME TypeOK, [Next]_vars
  PROVE  \/ UNCHANGED balance /\ HistoryKept
         \/ /\ UNCHANGED hcm
            /\ \E k \in Key : \E v \in DOMAIN hcm[k] :
                 /\ v > Watermark(k)
                 /\ balance' = [balance EXCEPT ![k] =
                      [hcmBalance |-> hcm[k][v], lastReconciledVersion |-> v]]
<1> DEFINE Goal == \/ UNCHANGED balance /\ HistoryKept
                   \/ /\ UNCHANGED hcm
                      /\ \E k \in Key : \E v \in DOMAIN hcm[k] :
                           /\ v > Watermark(k)
                           /\ balance' = [balance EXCEPT ![k] =
                                [hcmBalance |-> hcm[k][v], lastReconciledVersion |-> v]]
<1>0. UNCHANGED hcm => HistoryKept
  BY DEF HistoryKept
<1>1. ASSUME NEW r \in Request, Lifecycle(r) PROVE Goal
  BY <1>0, <1>1 DEF Lifecycle, hcmVars, Create, Submit, Approve, Reject, Cancel
<1>2. ASSUME NEW k \in Key, HcmMoves(k) PROVE Goal
  BY <1>2, HcmMovesType DEF HcmMoves, dbVars
<1>3. ASSUME NEW k \in Key, SnapshotArrives(k) PROVE Goal
  <2>1. PICK v \in DOMAIN hcm[k] :
          EnsureBalanceLoaded(k, RowAt(k, v)) \/ ReconcileKey(k, RowAt(k, v))
    BY <1>3 DEF SnapshotArrives
  <2>2. /\ v > balance[k].lastReconciledVersion
        /\ balance' = [balance EXCEPT ![k] =
             [hcmBalance |-> hcm[k][v], lastReconciledVersion |-> v]]
    BY <2>1, LoadEffect, ReconcileEffect DEF TypeOK
  <2> QED BY <1>3, <2>2 DEF SnapshotArrives, hcmVars, Watermark
<1>4. CASE ClaimDue
  BY <1>0, <1>4 DEF ClaimDue, hcmVars
<1>5. ASSUME NEW i \in DOMAIN outbox, Deliver(i) PROVE Goal
  <2>1. CASE CallHcm(i)
    <3>1. CommandOf(i) \in Command
      <4>1. outbox[i] \in OutboxMessage
        BY DEF TypeOK, DatabaseTypeOK
      <4> QED BY <4>1 DEF OutboxMessage, CommandOf, Command
    <3> QED BY <2>1, <3>1, ApplyDeltaType DEF CallHcm, TypeOK, dbVars
  <2>2. CASE CallRefused(i) \/ CallTimesOut(i) \/ LoseReply(i)
    BY <1>0, <2>2 DEF CallRefused, CallTimesOut, LoseReply, dbVars, hcmVars
  <2>3. CASE ApplySuccess(i) \/ ApplyRejection(i) \/ ApplyTransientFailure(i)
    BY <1>0, <2>3
       DEF ApplySuccess, ApplyRejection, ApplyTransientFailure, Settle,
           hcmVars
  <2> QED BY <1>5, <2>1, <2>2, <2>3 DEF Deliver
<1>6. ASSUME NEW c \in Command, HcmHandlesLate(c) PROVE Goal
  BY <1>6, ApplyDeltaType DEF HcmHandlesLate, TypeOK, dbVars
<1>7. CASE DrainStops \/ UNCHANGED vars
  BY <1>0, <1>7 DEF DrainStops, vars, dbVars, hcmVars
<1> QED BY <1>1, <1>2, <1>3, <1>4, <1>5, <1>6, <1>7 DEF Next

\* The cached balance and watermark are always one row that HCM held, whatever
\* the order in which first loads, webhooks and batches arrive (reconcileKey,
\* ensureBalanceLoaded).
THEOREM SnapshotsAreHistoric == Spec => []SnapshotIsHistoric
<1>1. Init => SnapshotIsHistoric
  BY DEF Init, DatabaseInit, SnapshotIsHistoric, HasBalance
<1>2. TypeOK /\ SnapshotIsHistoric /\ [Next]_vars => SnapshotIsHistoric'
  <2> SUFFICES ASSUME TypeOK, SnapshotIsHistoric, [Next]_vars
               PROVE  SnapshotIsHistoric'
    OBVIOUS
  <2>1. CASE UNCHANGED balance /\ HistoryKept
    BY <2>1 DEF SnapshotIsHistoric, HistoryKept, HasBalance, Watermark
  <2>2. ASSUME UNCHANGED hcm, NEW k \in Key, NEW v \in DOMAIN hcm[k],
               balance' = [balance EXCEPT ![k] =
                 [hcmBalance |-> hcm[k][v], lastReconciledVersion |-> v]]
        PROVE  SnapshotIsHistoric'
    BY <2>2
       DEF SnapshotIsHistoric, HasBalance, Watermark, TypeOK, DatabaseTypeOK
  <2> QED BY <2>1, <2>2, NextMovesSnapshotOrHistory
<1> QED BY <1>1, <1>2, TypeCorrect, PTL DEF Spec

\* A key of the cache only changes to a higher version: late, duplicated and
\* reordered snapshots never take it back.
THEOREM SnapshotsAdvance == Spec => SnapshotNeverGoesBack
<1>1. TypeOK /\ [Next]_vars => [SnapshotStep]_vars
  <2> SUFFICES ASSUME TypeOK, [Next]_vars PROVE SnapshotStep
    OBVIOUS
  <2>1. CASE UNCHANGED balance
    BY <2>1 DEF SnapshotStep
  <2>2. ASSUME NEW k \in Key, NEW v \in DOMAIN hcm[k], v > Watermark(k),
               balance' = [balance EXCEPT ![k] =
                 [hcmBalance |-> hcm[k][v], lastReconciledVersion |-> v]]
        PROVE  SnapshotStep
    BY <2>2 DEF SnapshotStep, TypeOK, DatabaseTypeOK
  <2> QED BY <2>1, <2>2, NextMovesSnapshotOrHistory
<1> QED BY <1>1, TypeCorrect, PTL DEF Spec, SnapshotNeverGoesBack

==============================================================================

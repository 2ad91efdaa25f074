----------------------------- MODULE LedgerProofs -----------------------------
(***************************************************************************)
(* The outbox and the ledger are forward-only, and together they keep the  *)
(* days of a request counted once.                                         *)
(***************************************************************************)
EXTENDS SagaProofs

------------------------------------------------------------------------------
(* The outbox *)

\* Nobody but the drain settles what the drain has claimed.
BatchInFlight == \A i \in batch : outbox[i].status = "INFLIGHT"

\* Messages that cannot change any more.
SettledAt(i) == outbox[i].status \in {"DONE", "DEAD"}

OutboxForward ==
  /\ \A i \in DOMAIN outbox : i \in DOMAIN outbox' /\ (SettledAt(i) => outbox'[i] = outbox[i])
  /\ BatchInFlight'

\* An endpoint queues, or cancels what waits; it changes no message of the drain.
LEMMA LifecycleOutbox ==
  ASSUME TypeOK, BatchInFlight, NEW r \in Request, Lifecycle(r)
  PROVE  OutboxForward
<1>0. /\ outbox \in Seq(OutboxMessage) /\ batch \subseteq DOMAIN outbox
      /\ UNCHANGED batch
  BY DEF TypeOK, DatabaseTypeOK, ProcessorTypeOK, Lifecycle, processorVars
<1>1. CASE UNCHANGED outbox
  BY <1>0, <1>1 DEF OutboxForward, BatchInFlight
<1>2. ASSUME NEW t \in OutboxType, outbox' = Enqueue(outbox, r, t)
      PROVE  OutboxForward
  BY <1>0, <1>2, EnqueueType DEF OutboxForward, BatchInFlight
<1>3. CASE outbox' = CancelPendingForRequest(outbox, r)
  BY <1>0, <1>3 DEF OutboxForward, BatchInFlight, SettledAt, CancelPendingForRequest
<1> QED BY <1>1, <1>2, <1>3
        DEF Lifecycle, Create, Submit, Approve, Reject, Cancel, CancelCommitted,
            CancelBeforeCommit, OutboxType

\* A claim takes PENDING and FAILED messages and no settled one.
LEMMA ClaimOutbox ==
  ASSUME TypeOK, ClaimDue
  PROVE  OutboxForward
<1>1. PICK elapsed \in SUBSET DOMAIN outbox :
        /\ elapsed \subseteq { i \in DOMAIN outbox : outbox[i].status = "FAILED" }
        /\ batch' = Claimed(outbox, elapsed)
        /\ outbox' = MarkInflight(outbox, batch')
  BY DEF ClaimDue
<1>2. /\ batch' \subseteq DOMAIN outbox
      /\ \A i \in batch' : outbox[i].status \in {"PENDING", "FAILED"}
  BY <1>1 DEF Claimed, Due
<1>3. outbox \in Seq(OutboxMessage)
  BY DEF TypeOK, DatabaseTypeOK
<1>4. outbox' = [ i \in DOMAIN outbox |->
                    IF i \in batch' THEN [outbox[i] EXCEPT !.status = "INFLIGHT"]
                                    ELSE outbox[i] ]
  BY <1>1 DEF MarkInflight
<1>5. \A i \in DOMAIN outbox : [outbox[i] EXCEPT !.status = "INFLIGHT"].status = "INFLIGHT"
  BY <1>3 DEF OutboxMessage
<1> QED BY <1>2, <1>4, <1>5 DEF OutboxForward, BatchInFlight, SettledAt

\* An outcome writes the message it is about, which was INFLIGHT, and no other.
LEMMA OutcomeOutbox ==
  ASSUME TypeOK, BatchInFlight, NEW i \in DOMAIN outbox,
         ApplySuccess(i) \/ ApplyRejection(i) \/ ApplyTransientFailure(i)
  PROVE  /\ OutboxForward
         /\ \A j \in DOMAIN outbox \ {i} : outbox'[j] = outbox[j]
         /\ ApplySuccess(i) => outbox'[i].status = "DONE"
         /\ ApplyTransientFailure(i) =>
              \/ outbox'[i].status = "FAILED"
              \/ outbox'[i].status = "DEAD" /\ outbox'[i].lastError = "transient"
<1>0. outbox \in Seq(OutboxMessage) /\ batch \subseteq DOMAIN outbox
  BY DEF TypeOK, DatabaseTypeOK, ProcessorTypeOK
<1>1. outbox[i] \in OutboxMessage
  BY <1>0
<1>2. i \in batch /\ batch' = batch \ {i} /\ ~SettledAt(i)
  BY DEF ApplySuccess, ApplyRejection, ApplyTransientFailure, Settle, IsCurrent,
         BatchInFlight, SettledAt
<1>3. \E m : outbox' = [outbox EXCEPT ![i] = m]
  BY DEF ApplySuccess, ApplyRejection, ApplyTransientFailure, MarkDone, MarkRejected,
         MarkRetryOrDead
<1>4. OutboxForward /\ \A j \in DOMAIN outbox \ {i} : outbox'[j] = outbox[j]
  BY <1>0, <1>2, <1>3 DEF OutboxForward, BatchInFlight, SettledAt
<1>5. ApplySuccess(i) => outbox'[i].status = "DONE"
  BY <1>0, <1>1 DEF ApplySuccess, MarkDone, OutboxMessage
<1>6. ApplyTransientFailure(i) =>
        \/ outbox'[i].status = "FAILED"
        \/ outbox'[i].status = "DEAD" /\ outbox'[i].lastError = "transient"
  BY <1>0, <1>1 DEF ApplyTransientFailure, MarkRetryOrDead, OutboxMessage
<1> QED BY <1>4, <1>5, <1>6

\* So no step takes a settled message back.
LEMMA NextOutbox ==
  ASSUME TypeOK, BatchInFlight, Next
  PROVE  OutboxForward
<1>0. batch \subseteq DOMAIN outbox
  BY DEF TypeOK, ProcessorTypeOK
<1>1. CASE UNCHANGED outbox /\ batch' \subseteq batch
  BY <1>0, <1>1 DEF OutboxForward, BatchInFlight
<1>2. ASSUME NEW k \in Key, HcmMoves(k) \/ SnapshotArrives(k)
      PROVE  UNCHANGED << outbox, batch >>
  BY <1>2 DEF HcmMoves, SnapshotArrives, EnsureBalanceLoaded, ReconcileKey, dbVars,
              processorVars
<1>3. ASSUME NEW i \in DOMAIN outbox,
             CallHcm(i) \/ CallRefused(i) \/ CallTimesOut(i) \/ LoseReply(i)
      PROVE  UNCHANGED << outbox, batch >>
  BY <1>3 DEF CallHcm, CallRefused, CallTimesOut, LoseReply, dbVars
<1>4. ASSUME NEW c \in Command, HcmHandlesLate(c)
      PROVE  UNCHANGED << outbox, batch >>
  BY <1>4 DEF HcmHandlesLate, dbVars
<1>5. ASSUME DrainStops
      PROVE  UNCHANGED outbox /\ batch' \subseteq batch
  BY <1>5 DEF DrainStops, dbVars
<1> QED BY <1>1, <1>2, <1>3, <1>4, <1>5, LifecycleOutbox, ClaimOutbox, OutcomeOutbox
        DEF Next, Deliver

\* What a drain has still to deliver is INFLIGHT.
LEMMA BatchStaysInFlight == Spec => []BatchInFlight
<1>1. Init => BatchInFlight
  BY DEF Init, ProcessorInit, BatchInFlight
<1>2. TypeOK /\ BatchInFlight /\ [Next]_vars => BatchInFlight'
  BY NextOutbox DEF OutboxForward, BatchInFlight, vars, dbVars, processorVars
<1> QED BY <1>1, <1>2, TypeCorrect, PTL DEF Spec

\* A message that is done or dead stays as it is: what a drain has claimed no
\* cancel touches, and what a cancel has parked no drain settles.
THEOREM SettledForGood == Spec => SettledMessagesStay
<1>1. TypeOK /\ BatchInFlight /\ [Next]_vars => [OutboxStep]_vars
  BY NextOutbox DEF OutboxForward, OutboxStep, SettledAt
<1> QED BY <1>1, BatchStaysInFlight, TypeCorrect, PTL DEF Spec, SettledMessagesStay

------------------------------------------------------------------------------
(* Approvals *)

\* The debit or the credit a request waits for has not been settled.
QueuedOK(r) ==
  /\ status[r] = "APPROVED" =>
       \E i \in Messages(r, "DEBIT") :
         \/ outbox[i].status \in Live
         \/ outbox[i].status = "DEAD" /\ outbox[i].lastError = "transient"
  /\ status[r] = "CANCELLATION_PENDING" =>
       \E i \in Messages(r, "CREDIT") : outbox[i].status # "DONE"

\* A step that moves no status and loses no message that counts.
LEMMA QueuedFrame ==
  ASSUME NEW r \in Request, QueuedOK(r), status'[r] = status[r],
         \A i \in DOMAIN outbox :
           /\ i \in DOMAIN outbox' /\ Alike(outbox'[i], outbox[i])
           /\ \/ outbox'[i] = outbox[i]
              \/ outbox'[i].status \in Live
              \/ outbox'[i].status = "DEAD" /\ outbox'[i].lastError = "transient"
  PROVE  QueuedOK(r)'
<1>1. \A t : \A i \in Messages(r, t) : i \in Messages(r, t)' /\ i \in DOMAIN outbox
  BY DEF Messages, Alike
<1>2. ASSUME status'[r] = "APPROVED"
      PROVE  \E i \in Messages(r, "DEBIT")' :
               \/ outbox'[i].status \in Live
               \/ outbox'[i].status = "DEAD" /\ outbox'[i].lastError = "transient"
  BY <1>1, <1>2 DEF QueuedOK
<1>3. ASSUME status'[r] = "CANCELLATION_PENDING"
      PROVE  \E i \in Messages(r, "CREDIT")' : outbox'[i].status # "DONE"
  BY <1>1, <1>3 DEF QueuedOK, Live
<1> QED BY <1>2, <1>3 DEF QueuedOK

\* A request that waits for nothing.
LEMMA QueuedIdle ==
  ASSUME NEW r, status'[r] \notin {"APPROVED", "CANCELLATION_PENDING"}
  PROVE  QueuedOK(r)'
BY DEF QueuedOK

\* An endpoint leaves every request with the messages its status needs.
LEMMA LifecycleQueued ==
  ASSUME TypeOK, NEW r \in Request, Lifecycle(r), NEW q \in Request, QueuedOK(q)
  PROVE  QueuedOK(q)'
<1>0. /\ outbox \in Seq(OutboxMessage)
      /\ status \in [Request -> RequestStatus \union {NoRequest}]
  BY DEF TypeOK, DatabaseTypeOK
<1>1. UNCHANGED outbox =>
        \A i \in DOMAIN outbox : i \in DOMAIN outbox' /\ outbox'[i] = outbox[i]
                                /\ Alike(outbox'[i], outbox[i])
  BY DEF Alike
<1>2. CASE Create(r)
  BY <1>0, <1>1, <1>2, QueuedFrame, QueuedIdle DEF Create
<1>3. CASE Submit(r)
  <2>1. status' = [status EXCEPT ![r] = "PENDING_APPROVAL"]
    BY <1>3, SubmitTransition DEF Submit
  <2> QED BY <1>0, <1>1, <1>3, <2>1, QueuedFrame, QueuedIdle DEF Submit
<1>4. CASE Reject(r)
  <2>1. status' = [status EXCEPT ![r] = "REJECTED"]
    BY <1>4, RejectTransition DEF Reject
  <2> QED BY <1>0, <1>1, <1>4, <2>1, QueuedFrame, QueuedIdle DEF Reject
<1>5. ASSUME NEW t \in OutboxType, outbox' = Enqueue(outbox, r, t)
      PROVE  /\ \A i \in DOMAIN outbox : i \in DOMAIN outbox' /\ outbox'[i] = outbox[i]
                                        /\ Alike(outbox'[i], outbox[i])
             /\ \E i \in Messages(r, t)' : outbox'[i].status = "PENDING"
  <2>1. outbox'[Len(outbox) + 1].status = "PENDING"
    BY <1>0, <1>5 DEF Enqueue
  <2>2. Len(outbox) + 1 \in Messages(r, t)'
    BY <1>0, <1>5, EnqueueType DEF Messages
  <2> QED BY <1>0, <1>5, <2>1, <2>2, EnqueueType DEF Alike
<1>6. CASE Approve(r)
  <2>1. status' = [status EXCEPT ![r] = "APPROVED"] /\ outbox' = Enqueue(outbox, r, "DEBIT")
    BY <1>6, ApproveTransition DEF Approve
  <2>2. CASE q = r
    BY <1>0, <1>5, <2>1, <2>2 DEF QueuedOK, Live, OutboxType
  <2>3. CASE q # r
    BY <1>0, <1>5, <2>1, <2>3, QueuedFrame DEF OutboxType
  <2> QED BY <2>2, <2>3
<1>7. CASE Cancel(r)
  <2>1. CASE CancelCommitted(r)
    <3>1. status' = [status EXCEPT ![r] = "CANCELLATION_PENDING"]
          /\ outbox' = Enqueue(outbox, r, "CREDIT")
      BY <1>7, <2>1, CancelTransition DEF Cancel, CancelCommitted
    <3>2. CASE q = r
      <4>1. \E i \in Messages(r, "CREDIT")' : outbox'[i].status # "DONE"
        BY <1>5, <3>1 DEF OutboxType
      <4> QED BY <1>0, <3>1, <3>2, <4>1 DEF QueuedOK
    <3>3. CASE q # r
      BY <1>0, <1>5, <3>1, <3>3, QueuedFrame DEF OutboxType
    <3> QED BY <3>2, <3>3
  <2>2. CASE CancelBeforeCommit(r)
    <3>0. NextState(status[r], "CANCEL") = "CANCELLED"
      BY <1>7, <2>2, CancelTransition DEF Cancel, CancelBeforeCommit
    <3>1. /\ status' = [status EXCEPT ![r] = "CANCELLED"]
          /\ UNCHANGED outbox \/ outbox' = CancelPendingForRequest(outbox, r)
      BY <1>7, <2>2, <3>0 DEF Cancel, CancelBeforeCommit
    <3>2. CASE q = r
      BY <1>0, <3>1, <3>2, QueuedIdle
    <3>3. CASE q # r
      <4>1. \A i \in DOMAIN outbox : /\ i \in DOMAIN outbox'
                                     /\ Alike(outbox'[i], outbox[i])
                                     /\ outbox[i].request # r => outbox'[i] = outbox[i]
        BY <1>0, <1>1, <3>1, CancelPendingType DEF CancelPendingForRequest, SameCommands
      <4>2. \A t : \A i \in Messages(q, t) : i \in Messages(q, t)' /\ outbox'[i] = outbox[i]
        BY <3>3, <4>1 DEF Messages, Alike
      <4> QED BY <1>0, <3>1, <3>3, <4>2 DEF QueuedOK
    <3> QED BY <3>2, <3>3
  <2> QED BY <1>7, <2>1, <2>2 DEF Cancel
<1> QED BY <1>2, <1>3, <1>4, <1>6, <1>7 DEF Lifecycle

\* So does an outcome, which settles a message and moves its request at once.
LEMMA OutcomeQueued ==
  ASSUME SagaInv, BatchInFlight, NEW i \in DOMAIN outbox,
         ApplySuccess(i) \/ ApplyRejection(i) \/ ApplyTransientFailure(i),
         NEW q \in Request, QueuedOK(q)
  PROVE  QueuedOK(q)'
<1> DEFINE r == outbox[i].request
<1>0. /\ TypeOK /\ outbox \in Seq(OutboxMessage) /\ RequestOK(q)
      /\ status \in [Request -> RequestStatus \union {NoRequest}]
  BY DEF SagaInv, TypeOK, DatabaseTypeOK
<1>1. /\ DOMAIN outbox' = DOMAIN outbox
      /\ \A j \in DOMAIN outbox : Alike(outbox'[j], outbox[j])
      /\ \A j \in DOMAIN outbox \ {i} : outbox'[j] = outbox[j]
  <2>1. SameCommands(outbox, outbox')
    BY <1>0, OutcomeType DEF ApplySuccess, ApplyRejection, ApplyTransientFailure
  <2> QED BY <1>0, <2>1, OutcomeOutbox DEF SameCommands
<1>2. ASSUME ~(\E t : i \in Messages(q, t) /\ t = "DEBIT" /\ status'[q] = "APPROVED"),
             ~(\E t : i \in Messages(q, t) /\ t = "CREDIT"
                                    /\ status'[q] = "CANCELLATION_PENDING"),
             status'[q] = status[q]
      PROVE  QueuedOK(q)'
  <2>1. \A t : \A j \in Messages(q, t) : j \in DOMAIN outbox /\ j \in Messages(q, t)'
    BY <1>1 DEF Messages, Alike
  <2> QED BY <1>1, <1>2, <2>1 DEF QueuedOK
<1>3. outbox[i] \in OutboxMessage
  BY <1>0
<1> HIDE DEF r
<1>4. \A t : i \in Messages(q, t) => q = r /\ outbox[i].type = t
  BY DEF Messages, r
<1>5. CASE ApplySuccess(i)
  <2>1. CASE ApplyDebitSuccess(i)
    <3>1. status' = [status EXCEPT ![r] = IF status[r] = "APPROVED" THEN "COMMITTED"
                                          ELSE status[r]]
          /\ outbox[i].type = "DEBIT"
      BY <2>1, OutcomeTransitions DEF ApplyDebitSuccess, r
    <3> QED BY <1>0, <1>2, <1>4, <3>1, QueuedIdle
  <2>2. CASE ApplyCreditSuccess(i)
    <3>1. status' = [status EXCEPT ![r] = IF status[r] = "CANCELLATION_PENDING"
                                          THEN "CANCELLED" ELSE status[r]]
          /\ outbox[i].type = "CREDIT"
      BY <2>2, OutcomeTransitions DEF ApplyCreditSuccess, r
    <3> QED BY <1>0, <1>2, <1>4, <3>1, QueuedIdle
  <2> QED BY <1>5, <2>1, <2>2 DEF ApplySuccess
<1>6. CASE ApplyRejection(i)
  <2>1. CASE outbox[i].type = "DEBIT"
    <3>1. status' = [status EXCEPT ![r] = IF status[r] = "APPROVED" THEN "FAILED"
                                          ELSE status[r]]
      BY <1>6, <2>1, OutcomeTransitions DEF ApplyRejection, r
    <3> QED BY <1>0, <1>2, <1>4, <2>1, <3>1, QueuedIdle
  <2>2. CASE outbox[i].type # "DEBIT"
    <3>1. UNCHANGED status /\ outbox'[i].status # "DONE"
      BY <1>0, <1>3, <1>6, <2>2 DEF ApplyRejection, MarkRejected, OutboxMessage
    <3>2. \A t : \A j \in Messages(q, t) : j \in DOMAIN outbox /\ j \in Messages(q, t)'
      BY <1>1 DEF Messages, Alike
    <3>3. i \notin Messages(q, "DEBIT")
      BY <1>4, <2>2
    <3> QED BY <1>1, <3>1, <3>2, <3>3 DEF QueuedOK
  <2> QED BY <2>1, <2>2
<1>7. CASE ApplyTransientFailure(i)
  <2>1. UNCHANGED status
    BY <1>7 DEF ApplyTransientFailure
  <2>2. \/ outbox'[i].status \in Live
        \/ outbox'[i].status = "DEAD" /\ outbox'[i].lastError = "transient"
    BY <1>0, <1>3, <1>7
       DEF ApplyTransientFailure, MarkRetryOrDead, Live, OutboxMessage
  <2> QED BY <1>1, <2>1, <2>2, QueuedFrame
<1> QED BY <1>5, <1>6, <1>7

\* An approval is never lost: its debit is queued, in flight or parked after
\* its last attempt, and a pending cancellation's credit is not done.
THEOREM ApprovalsAreQueued == Spec => []ApprovalIsQueued
<1> DEFINE Inv == \A r \in Request : QueuedOK(r)
<1>1. Init => Inv
  BY DEF Init, DatabaseInit, QueuedOK, NoRequest
<1>2. SagaInv /\ BatchInFlight /\ Inv /\ [Next]_vars => Inv'
  <2> SUFFICES ASSUME SagaInv, BatchInFlight, Inv, [Next]_vars, NEW q \in Request
               PROVE  QueuedOK(q)'
    OBVIOUS
  <2>0. TypeOK /\ QueuedOK(q)
    BY DEF SagaInv
  <2>1. CASE UNCHANGED << status, outbox >>
    BY <2>0, <2>1 DEF QueuedOK, Messages
  <2>2. ASSUME NEW r \in Request, Lifecycle(r)
        PROVE  QueuedOK(q)'
    BY <2>0, <2>2, LifecycleQueued
  <2>3. CASE ClaimDue
    <3>1. UNCHANGED status
          /\ \A i \in DOMAIN outbox :
                /\ i \in DOMAIN outbox' /\ Alike(outbox'[i], outbox[i])
                /\ outbox'[i] = outbox[i] \/ outbox'[i].status \in Live
      <4>1. outbox \in Seq(OutboxMessage)
        BY <2>0 DEF TypeOK, DatabaseTypeOK
      <4>2. PICK ids : outbox' = MarkInflight(outbox, ids)
        BY <2>3 DEF ClaimDue
      <4>3. \A i \in DOMAIN outbox :
              outbox'[i] = outbox[i] \/ outbox'[i].status \in Live
        BY <4>1, <4>2 DEF MarkInflight, OutboxMessage, Live
      <4> QED BY <2>3, <4>1, <4>2, <4>3, MarkInflightType DEF ClaimDue, SameCommands
    <3> QED BY <2>0, <3>1, QueuedFrame
  <2>4. ASSUME NEW i \in DOMAIN outbox,
               ApplySuccess(i) \/ ApplyRejection(i) \/ ApplyTransientFailure(i)
        PROVE  QueuedOK(q)'
    BY <2>0, <2>4, OutcomeQueued
  <2>5. \/ UNCHANGED << status, outbox >>
        \/ ClaimDue
        \/ \E r \in Request : Lifecycle(r)
        \/ \E i \in DOMAIN outbox :
             ApplySuccess(i) \/ ApplyRejection(i) \/ ApplyTransientFailure(i)
    BY DEF Next, vars, dbVars, Deliver, HcmMoves, SnapshotArrives, EnsureBalanceLoaded,
           ReconcileKey, CallHcm, CallRefused, CallTimesOut, LoseReply, HcmHandlesLate,
           DrainStops
  <2> QED BY <2>1, <2>2, <2>3, <2>4, <2>5
<1>3. Inv => ApprovalIsQueued
  BY DEF QueuedOK, ApprovalIsQueued
<1> QED BY <1>1, <1>2, <1>3, SagaInvariant, BatchStaysInFlight, PTL DEF Spec


------------------------------------------------------------------------------
(* What a step does to the entries of one request *)

HoldEntry == [ phase |-> "RESERVE", state |-> "ACTIVE", hcmVersion |-> NoVersion ]

CommitEntry(v) == [ phase |-> "COMMIT", state |-> "ACTIVE", hcmVersion |-> v ]

\* The drain writes the commit of a debit HCM acknowledged.
Commits(q) ==
  /\ \E i \in batch : /\ IsCurrent(i) /\ CommandOf(i) = Debit(q)
                      /\ outbox' = MarkDone(outbox, i)
  /\ reply = "ack"
  /\ UNCHANGED applied
  /\ applied[Debit(q)].applied \/ q \in drift'
  /\ ledger'[q] = Append(Release(ledger[q], "RESERVE"),
                         CommitEntry(applied[Debit(q)].version))

\* A snapshot is accepted that includes some of its commits.
Reconciles(q) ==
  /\ DOMAIN ledger'[q] = DOMAIN ledger[q] /\ Len(ledger'[q]) = Len(ledger[q])
  /\ \A i \in DOMAIN ledger[q] :
       \/ ledger'[q][i] = ledger[q][i]
       \/ /\ i \in Active(ledger[q], "COMMIT")
          /\ ledger'[q][i] = [ledger[q][i] EXCEPT !.state = "RECONCILED"]
          /\ ledger[q][i].hcmVersion <= balance'[KeyOf[q]].lastReconciledVersion

EntriesStep(q) ==
  \/ Commits(q)
  \/ /\ status'[q] \in Committed => status[q] \in Committed
     /\ \/ ledger'[q] = ledger[q]
        \/ ledger'[q] = Append(ledger[q], HoldEntry) /\ status[q] = "DRAFT"
        \/ ledger'[q] = Release(ledger[q], "RESERVE")
        \/ ledger'[q] = Release(ledger[q], "COMMIT") /\ status'[q] \notin Committed
        \/ Reconciles(q)

\* The ways an endpoint changes a ledger.
LEMMA LifecycleEntries ==
  ASSUME TypeOK, NEW r \in Request, Lifecycle(r), NEW q \in Request
  PROVE  EntriesStep(q)
<1>0. /\ ledger \in [Request -> Seq(LedgerEntry)]
      /\ status \in [Request -> RequestStatus \union {NoRequest}]
  BY DEF TypeOK, DatabaseTypeOK
<1>1. CASE Create(r)
  BY <1>0, <1>1 DEF Create, EntriesStep, Committed
<1>2. CASE Submit(r)
  <2>1. /\ status[r] = "DRAFT" /\ status' = [status EXCEPT ![r] = "PENDING_APPROVAL"]
        /\ ledger' = [ledger EXCEPT ![r] = Append(@, HoldEntry)]
    BY <1>2, SubmitTransition DEF Submit, AddReservation, HoldEntry
  <2> QED BY <1>0, <2>1 DEF EntriesStep, Committed
<1>3. CASE Approve(r)
  <2>1. status' = [status EXCEPT ![r] = "APPROVED"] /\ UNCHANGED ledger
    BY <1>3, ApproveTransition DEF Approve
  <2> QED BY <1>0, <2>1 DEF EntriesStep, Committed
<1>4. CASE Reject(r)
  <2>1. /\ status' = [status EXCEPT ![r] = "REJECTED"]
        /\ ledger' = [ledger EXCEPT ![r] = Release(@, "RESERVE")]
    BY <1>4, RejectTransition DEF Reject, ReleaseReservation
  <2> QED BY <1>0, <2>1 DEF EntriesStep, Committed
<1>5. CASE Cancel(r)
  <2>0. CanTransition(status[r], "CANCEL")
    BY <1>5 DEF Cancel
  <2>1. CASE CancelCommitted(r)
    BY <1>0, <1>5, <2>0, <2>1, CancelTransition
       DEF Cancel, CancelCommitted, EntriesStep, Committed
  <2>2. CASE CancelBeforeCommit(r)
    <3>1. NextState(status[r], "CANCEL") = "CANCELLED"
      BY <2>0, <2>2, CancelTransition DEF CancelBeforeCommit
    <3>2. /\ status' = [status EXCEPT ![r] = "CANCELLED"]
          /\ ledger' = [ledger EXCEPT ![r] = Release(@, "RESERVE")]
      BY <1>5, <2>2, <3>1 DEF Cancel, CancelBeforeCommit, ReleaseReservation
    <3> QED BY <1>0, <3>2 DEF EntriesStep, Committed
  <2> QED BY <1>5, <2>1, <2>2 DEF Cancel
<1> QED BY <1>1, <1>2, <1>3, <1>4, <1>5 DEF Lifecycle

\* The ways an outcome does.
LEMMA OutcomeEntries ==
  ASSUME SagaInv, NEW i \in DOMAIN outbox,
         ApplySuccess(i) \/ ApplyRejection(i) \/ ApplyTransientFailure(i),
         NEW q \in Request
  PROVE  EntriesStep(q)
<1> DEFINE r == outbox[i].request
<1>0. /\ ledger \in [Request -> Seq(LedgerEntry)]
      /\ status \in [Request -> RequestStatus \union {NoRequest}]
      /\ outbox[i] \in OutboxMessage
  BY DEF SagaInv, TypeOK, DatabaseTypeOK
<1>r. r \in Request
  BY <1>0 DEF OutboxMessage
<1>1. CASE ApplyTransientFailure(i)
  BY <1>1 DEF ApplyTransientFailure, EntriesStep
<1>2. CASE ApplyRejection(i)
  <2>1. CASE outbox[i].type = "DEBIT"
    <3>1. /\ status' = [status EXCEPT ![r] = IF status[r] = "APPROVED" THEN "FAILED"
                                             ELSE status[r]]
          /\ ledger' = [ledger EXCEPT ![r] = Release(@, "RESERVE")]
      BY <1>2, <2>1, OutcomeTransitions DEF ApplyRejection, ReleaseReservation
    <3> QED BY <1>0, <1>r, <3>1 DEF EntriesStep, Committed
  <2>2. CASE outbox[i].type # "DEBIT"
    BY <1>2, <2>2 DEF ApplyRejection, EntriesStep
  <2> QED BY <2>1, <2>2
<1>3. CASE ApplySuccess(i) /\ ApplyDebitSuccess(i)
  <2>1. /\ i \in batch /\ IsCurrent(i) /\ reply = "ack" /\ outbox' = MarkDone(outbox, i)
        /\ UNCHANGED applied /\ CommandOf(i) = Debit(r)
        /\ status' = [status EXCEPT ![r] = IF status[r] = "APPROVED" THEN "COMMITTED"
                                           ELSE status[r]]
        /\ drift' = IF applied[Debit(r)].applied THEN drift ELSE drift \union {r}
        /\ ledger' = [ledger EXCEPT ![r] = Append(Release(@, "RESERVE"),
                                       CommitEntry(applied[Debit(r)].version))]
    BY <1>3, OutcomeTransitions
       DEF ApplySuccess, ApplyDebitSuccess, Settle, IsCurrent, hcmVars, CommandOf, Debit,
           CommitReservation, CommitEntry
  <2> HIDE DEF r
  <2>2. CASE q = r
    BY <1>0, <1>r, <2>1, <2>2 DEF EntriesStep, Commits
  <2>3. CASE q # r
    BY <1>0, <1>r, <2>1, <2>3 DEF EntriesStep
  <2> QED BY <2>2, <2>3
<1>4. CASE ApplySuccess(i) /\ ApplyCreditSuccess(i)
  <2>1. /\ outbox[i].type = "CREDIT"
        /\ status' = [status EXCEPT ![r] = IF status[r] = "CANCELLATION_PENDING"
                                           THEN "CANCELLED" ELSE status[r]]
        /\ ledger' = [ledger EXCEPT ![r] = Release(@, "COMMIT")]
    BY <1>4, OutcomeTransitions DEF ApplyCreditSuccess, ReleaseCommit
  <2>2. status[r] \in {"CANCELLATION_PENDING", "CANCELLED"}
    <3>1. i \in Messages(r, "CREDIT")
      BY <2>1 DEF Messages
    <3> QED BY <1>r, <3>1 DEF SagaInv, RequestOK, Sent
  <2> HIDE DEF r
  <2> QED BY <1>0, <1>r, <2>1, <2>2 DEF EntriesStep, Committed
<1> QED BY <1>1, <1>2, <1>3, <1>4 DEF ApplySuccess

\* The way a snapshot does: commits it includes are marked.
LEMMA SnapshotEntries ==
  ASSUME TypeOK, NEW k \in Key, SnapshotArrives(k), NEW q \in Request
  PROVE  EntriesStep(q)
<1>0. /\ ledger \in [Request -> Seq(LedgerEntry)]
      /\ balance \in [Key -> [hcmBalance : Int, lastReconciledVersion : Nat]]
      /\ KeyOf[q] \in Key
  BY RequestAssumption DEF TypeOK, DatabaseTypeOK
<1>1. PICK v \in DOMAIN hcm[k] :
        EnsureBalanceLoaded(k, RowAt(k, v)) \/ ReconcileKey(k, RowAt(k, v))
  BY DEF SnapshotArrives
<1>2. CASE EnsureBalanceLoaded(k, RowAt(k, v))
  BY <1>2 DEF EnsureBalanceLoaded, EntriesStep
<1>3. CASE ReconcileKey(k, RowAt(k, v))
  <2>1. /\ balance' = [balance EXCEPT ![k] =
             [hcmBalance |-> hcm[k][v], lastReconciledVersion |-> v]]
        /\ UNCHANGED status
    BY <1>3, ReconcileEffect DEF TypeOK, ReconcileKey
  <2>2. PICK ids : /\ ledger' = MarkReconciled(ledger, ids)
                   /\ \A r \in Request : \A i \in DOMAIN ledger[r] :
                        << r, i >> \in ids =>
                          /\ i \in Active(ledger[r], "COMMIT")
                          /\ KeyOf[r] = k /\ ledger[r][i].hcmVersion <= v
    BY <1>3, ReconcileEffect DEF TypeOK
  <2>3. /\ DOMAIN ledger'[q] = DOMAIN ledger[q] /\ Len(ledger'[q]) = Len(ledger[q])
    BY <2>2, ReconciledLedgerType DEF TypeOK
  <2>4. \A i \in DOMAIN ledger[q] :
          ledger'[q][i] = IF << q, i >> \in ids
                          THEN [ledger[q][i] EXCEPT !.state = "RECONCILED"]
                          ELSE ledger[q][i]
    BY <2>2 DEF MarkReconciled
  <2>5. Reconciles(q)
    BY <1>0, <2>1, <2>2, <2>3, <2>4 DEF Reconciles
  <2> QED BY <2>1, <2>5 DEF EntriesStep
<1> QED BY <1>1, <1>2, <1>3

\* There are no others.
LEMMA NextEntries ==
  ASSUME SagaInv, [Next]_vars, NEW q \in Request
  PROVE  EntriesStep(q)
<1>0. TypeOK
  BY DEF SagaInv
<1>1. CASE UNCHANGED << status, ledger >>
  BY <1>1 DEF EntriesStep
<1>2. \/ UNCHANGED << status, ledger >>
      \/ \E r \in Request : Lifecycle(r)
      \/ \E k \in Key : SnapshotArrives(k)
      \/ \E i \in DOMAIN outbox :
           ApplySuccess(i) \/ ApplyRejection(i) \/ ApplyTransientFailure(i)
  BY DEF Next, vars, dbVars, Deliver, HcmMoves, ClaimDue, CallHcm, CallRefused,
         CallTimesOut, LoseReply, HcmHandlesLate, DrainStops
<1> QED BY <1>0, <1>1, <1>2, LifecycleEntries, SnapshotEntries, OutcomeEntries

------------------------------------------------------------------------------
(* The audit trail *)

\* An ACTIVE entry may be marked, either way.
LEMMA MarkOnce ==
  ASSUME NEW m \in LedgerEntry, m.state = "ACTIVE", NEW s \in {"RELEASED", "RECONCILED"}
  PROVE  MarkedOnce(m, [m EXCEPT !.state = s])
<1>1. [m EXCEPT !.state = s].state = s
  BY DEF LedgerEntry
<1> QED BY <1>1 DEF MarkedOnce

\* Every kind of step leaves every entry as it was or marks it once.
LEMMA EntriesForward ==
  ASSUME TypeOK, NEW q \in Request, EntriesStep(q)
  PROVE  /\ Len(ledger'[q]) >= Len(ledger[q])
         /\ \A i \in DOMAIN ledger[q] :
              /\ i \in DOMAIN ledger'[q]
              /\ MarkedOnce(ledger[q][i], ledger'[q][i])
<1> DEFINE e == ledger[q]
<1>0. e \in Seq(LedgerEntry)
  BY DEF TypeOK, DatabaseTypeOK
<1>1. \A i \in DOMAIN e : e[i] \in LedgerEntry
  BY <1>0
<1>2. \A p : /\ Release(e, p) \in Seq(LedgerEntry) /\ Len(Release(e, p)) = Len(e)
             /\ \A i \in DOMAIN e : MarkedOnce(e[i], Release(e, p)[i])
  <2> TAKE p
  <2>1. \A i \in Active(e, p) :
          i \in DOMAIN e /\ MarkedOnce(e[i], [e[i] EXCEPT !.state = "RELEASED"])
    BY <1>1, MarkOnce DEF Active
  <2>2. \A i \in DOMAIN e : MarkedOnce(e[i], e[i])
    BY DEF MarkedOnce
  <2> HIDE DEF e
  <2>3. /\ Release(e, p) \in Seq(LedgerEntry) /\ Len(Release(e, p)) = Len(e)
        /\ \A i \in DOMAIN e :
             \/ Release(e, p)[i] = e[i]
             \/ /\ i \in Active(e, p)
                /\ Release(e, p)[i] = [e[i] EXCEPT !.state = "RELEASED"]
    BY <1>0, ReleaseType
  <2>4. ASSUME NEW i \in DOMAIN e PROVE MarkedOnce(e[i], Release(e, p)[i])
    BY <2>1, <2>2, <2>3
  <2> QED BY <2>3, <2>4
<1>3. \A v : MarkedOnce(v, v)
  BY DEF MarkedOnce
<1>4. CASE ledger'[q] = e
  BY <1>0, <1>3, <1>4
<1>5. CASE ledger'[q] = Append(e, HoldEntry)
  BY <1>0, <1>3, <1>5
<1>6. ASSUME NEW p, ledger'[q] = Release(e, p)
      PROVE  /\ Len(ledger'[q]) >= Len(e)
             /\ \A i \in DOMAIN e :
                  i \in DOMAIN ledger'[q] /\ MarkedOnce(e[i], ledger'[q][i])
  BY <1>0, <1>2, <1>6
<1>7. CASE Reconciles(q)
  <2>1. \A i \in Active(e, "COMMIT") :
          MarkedOnce(e[i], [e[i] EXCEPT !.state = "RECONCILED"])
    BY <1>1, MarkOnce DEF Active
  <2>2. ASSUME NEW i \in DOMAIN e PROVE MarkedOnce(e[i], ledger'[q][i])
    BY <1>3, <1>7, <2>1, <2>2 DEF Reconciles
  <2>3. /\ Len(ledger'[q]) = Len(e) /\ DOMAIN ledger'[q] = DOMAIN e
        /\ Len(e) \in Nat
    BY <1>0, <1>7 DEF Reconciles
  <2> QED BY <2>2, <2>3
<1>8. CASE Commits(q)
  <2> DEFINE t == Release(e, "RESERVE")
  <2>1. PICK x : ledger'[q] = Append(t, x)
    BY <1>8 DEF Commits
  <2>2. /\ t \in Seq(LedgerEntry) /\ Len(t) = Len(e)
        /\ \A i \in DOMAIN e : MarkedOnce(e[i], t[i])
    BY <1>2
  <2> HIDE DEF e, t
  <2>3. /\ Len(Append(t, x)) = Len(t) + 1
        /\ \A i \in DOMAIN e : i \in DOMAIN Append(t, x) /\ Append(t, x)[i] = t[i]
    BY <1>0, <2>2
  <2> QED BY <1>0, <2>1, <2>2, <2>3 DEF e
<1> QED BY <1>4, <1>5, <1>6, <1>7, <1>8 DEF EntriesStep

\* The ledger is an audit trail: nothing is removed or rewritten, and of two
\* services that find the same ACTIVE entry only one marks it.
THEOREM LedgerIsForward == Spec => LedgerForwardOnly
<1>1. SagaInv /\ [Next]_vars => [LedgerStep]_vars
  BY NextEntries, EntriesForward DEF LedgerStep, SagaInv
<1> QED BY <1>1, SagaInvariant, PTL DEF Spec, LedgerForwardOnly

------------------------------------------------------------------------------
(* Commits *)

IsCommit(q, i) == i \in DOMAIN ledger[q] /\ ledger[q][i].phase = "COMMIT"

\* A request is committed once, by the delivery of its debit, at the version
\* HCM acknowledged; an acknowledgement that changed nothing is on record.
CommitOK(q) ==
  /\ \A i, j \in DOMAIN ledger[q] : IsCommit(q, i) /\ IsCommit(q, j) => i = j
  /\ \A i \in DOMAIN ledger[q] : IsCommit(q, i) =>
       /\ Sent(q, "DEBIT")
       /\ \A m \in Messages(q, "DEBIT") : outbox[m].status = "DONE"
       /\ Acked(Debit(q))
       /\ ledger[q][i].hcmVersion = applied[Debit(q)].version
       /\ ReallyApplied(Debit(q)) \/ q \in drift

\* HCM records one acknowledgement for a command, whatever is repeated, and
\* drift is never taken back.
LEMMA AcksStay ==
  ASSUME TypeOK, [Next]_vars
  PROVE  /\ \A c \in Command : Acked(c) => applied'[c] = applied[c]
         /\ drift \subseteq drift'
<1> DEFINE Kept == \A c \in Command : Acked(c) => applied'[c] = applied[c]
<1>0. applied \in [Command -> [version : Nat, applied : BOOLEAN]]
  BY DEF TypeOK, HcmTypeOK
<1>1. ASSUME NEW d \in Command, NEW outcome, ApplyDelta(d, outcome) PROVE Kept
  <2>1. CASE Acked(d)
    BY <1>1, <2>1 DEF ApplyDelta, Prior, Acked, hcmVars
  <2>2. CASE ~Acked(d)
    <3>1. PICK a : applied' = applied \/ applied' = [applied EXCEPT ![d] = a]
      BY <1>1 DEF ApplyDelta, Acknowledge, hcmVars
    <3> QED BY <1>0, <2>2, <3>1
  <2> QED BY <2>1, <2>2
<1>2. \A i \in DOMAIN outbox : CommandOf(i) \in Command
  <2>1. \A i \in DOMAIN outbox : outbox[i] \in OutboxMessage
    BY DEF TypeOK, DatabaseTypeOK
  <2> QED BY <2>1 DEF OutboxMessage, CommandOf, Command
<1>3. \/ UNCHANGED applied
      \/ \E d \in Command, outcome \in Outcome : ApplyDelta(d, outcome)
  BY <1>2
     DEF Next, vars, dbVars, hcmVars, Lifecycle, HcmMoves, Seed, Adjust, GetBalance,
         SnapshotArrives, ClaimDue, Deliver, CallHcm, CallRefused, CallTimesOut, LoseReply,
         ApplySuccess, ApplyRejection, ApplyTransientFailure, Settle, HcmHandlesLate,
         DrainStops
<1>4. drift \subseteq drift'
  BY DEF Next, vars, dbVars, hcmVars, Lifecycle, Create, Submit, Approve, Reject, Cancel,
         HcmMoves, SnapshotArrives, EnsureBalanceLoaded, ReconcileKey, ClaimDue, Deliver,
         CallHcm, CallRefused, CallTimesOut, LoseReply, ApplySuccess, ApplyDebitSuccess,
         ApplyCreditSuccess, ApplyRejection, ApplyTransientFailure, HcmHandlesLate,
         DrainStops
<1> QED BY <1>1, <1>3, <1>4

\* Only the delivery of a debit adds a commit, and commits keep their version.
LEMMA OldCommits ==
  ASSUME TypeOK, NEW q \in Request, EntriesStep(q), ~Commits(q), NEW i, IsCommit(q, i)'
  PROVE  IsCommit(q, i) /\ ledger'[q][i].hcmVersion = ledger[q][i].hcmVersion
<1>0. /\ ledger[q] \in Seq(LedgerEntry)
      /\ \A j \in DOMAIN ledger[q] : ledger[q][j] \in LedgerEntry
  BY DEF TypeOK, DatabaseTypeOK
<1>1. i \in DOMAIN ledger[q]
  <2>1. CASE ledger'[q] = Append(ledger[q], HoldEntry)
    <3>1. HoldEntry.phase # "COMMIT"
      BY DEF HoldEntry
    <3> QED BY <1>0, <2>1, <3>1 DEF IsCommit
  <2>2. CASE ledger'[q] # Append(ledger[q], HoldEntry)
    BY <1>0, <2>2, ReleaseType DEF EntriesStep, Reconciles, IsCommit
  <2> QED BY <2>1, <2>2
<1>2. MarkedOnce(ledger[q][i], ledger'[q][i]) /\ ledger[q][i] \in LedgerEntry
  BY <1>0, <1>1, EntriesForward
<1>3. /\ ledger'[q][i].phase = ledger[q][i].phase
      /\ ledger'[q][i].hcmVersion = ledger[q][i].hcmVersion
  BY <1>2 DEF MarkedOnce, LedgerEntry
<1> QED BY <1>1, <1>3 DEF IsCommit

\* A debit that is done stays the only debit of its request, and done.
LEMMA DoneStays ==
  ASSUME TypeOK, OutboxForward, NoDuplicates', NEW q \in Request, Sent(q, "DEBIT"),
         \A m \in Messages(q, "DEBIT") : outbox[m].status = "DONE"
  PROVE  Sent(q, "DEBIT")' /\ \A m \in Messages(q, "DEBIT")' : outbox'[m].status = "DONE"
<1>1. PICK m \in Messages(q, "DEBIT") : outbox[m].status = "DONE"
  BY DEF Sent
<1>2. /\ m \in DOMAIN outbox' /\ outbox'[m] = outbox[m]
      /\ m \in Messages(q, "DEBIT")'
  BY <1>1 DEF OutboxForward, SettledAt, Messages
<1>3. \A n \in Messages(q, "DEBIT")' : n = m
  BY <1>2 DEF NoDuplicates, Messages, Alike
<1> QED BY <1>1, <1>2, <1>3 DEF Sent

\* A commit entry comes with an acknowledged debit, as the first of its request.
LEMMA CommitStep ==
  ASSUME SagaInv, BatchInFlight, NoDuplicates', NEW q \in Request, CommitOK(q), Commits(q)
  PROVE  /\ CommitOK(q)'
         /\ \A j : ~IsCommit(q, j)
         /\ Len(ledger[q]) + 1 \in DOMAIN ledger'[q]
         /\ ledger'[q][Len(ledger[q]) + 1] = CommitEntry(applied[Debit(q)].version)
<1> DEFINE n == Len(ledger[q]) + 1
           new == CommitEntry(applied[Debit(q)].version)
<1>0. /\ ledger[q] \in Seq(LedgerEntry) /\ outbox \in Seq(OutboxMessage)
      /\ batch \subseteq DOMAIN outbox
  BY DEF SagaInv, TypeOK, DatabaseTypeOK, ProcessorTypeOK
<1>1. PICK i \in batch : /\ IsCurrent(i) /\ CommandOf(i) = Debit(q)
                         /\ outbox' = MarkDone(outbox, i)
  BY DEF Commits
<1>2. /\ i \in DOMAIN outbox /\ outbox[i] \in OutboxMessage
      /\ outbox[i].status = "INFLIGHT" /\ i \in Messages(q, "DEBIT")
  BY <1>0, <1>1 DEF BatchInFlight, Messages, CommandOf, Debit
<1>3. \A j : ~IsCommit(q, j)
  BY <1>2 DEF CommitOK, IsCommit
<1>4. i \in Messages(q, "DEBIT")' /\ outbox'[i].status = "DONE"
  BY <1>0, <1>1, <1>2 DEF MarkDone, Messages, OutboxMessage
<1>5. Sent(q, "DEBIT")' /\ \A m \in Messages(q, "DEBIT")' : outbox'[m].status = "DONE"
  <2>1. \A m \in Messages(q, "DEBIT")' : m = i
    BY <1>4 DEF NoDuplicates, Messages, Alike
  <2> QED BY <1>4, <2>1 DEF Sent
<1>6. Acked(Debit(q)) /\ applied' = applied
  BY <1>1 DEF SagaInv, ReplyIsTrue, Commits
<1>7. /\ DOMAIN ledger'[q] = DOMAIN ledger[q] \union {n}
      /\ ledger'[q][n] = new
      /\ \A j \in DOMAIN ledger[q] : ledger'[q][j].phase = ledger[q][j].phase
  <2> DEFINE t == Release(ledger[q], "RESERVE")
  <2>1. ledger'[q] = Append(t, new)
    BY DEF Commits
  <2>2. /\ t \in Seq(LedgerEntry) /\ Len(t) = Len(ledger[q])
        /\ \A j \in DOMAIN ledger[q] :
             t[j] = ledger[q][j] \/ t[j] = [ledger[q][j] EXCEPT !.state = "RELEASED"]
    BY <1>0, ReleaseType
  <2>3. \A j \in DOMAIN ledger[q] : t[j].phase = ledger[q][j].phase
    <3>1. \A m \in LedgerEntry : [m EXCEPT !.state = "RELEASED"].phase = m.phase
      BY DEF LedgerEntry
    <3>2. \A j \in DOMAIN ledger[q] : ledger[q][j] \in LedgerEntry
      BY <1>0
    <3> HIDE DEF t
    <3> QED BY <2>2, <3>1, <3>2
  <2> HIDE DEF t, new
  <2>4. /\ DOMAIN t = 1 .. Len(ledger[q]) /\ DOMAIN ledger[q] = 1 .. Len(ledger[q])
        /\ Len(t) \in Nat
    BY <1>0, <2>2
  <2>5. /\ DOMAIN Append(t, new) = 1 .. n
        /\ Append(t, new)[n] = new /\ \A j \in DOMAIN t : Append(t, new)[j] = t[j]
    BY <2>2, <2>4
  <2> QED BY <2>1, <2>3, <2>4, <2>5
<1>8. \A j : IsCommit(q, j)' => j = n
  BY <1>3, <1>7 DEF IsCommit
<1>9. new.hcmVersion = applied[Debit(q)].version
  BY DEF CommitEntry
<1>10. applied[Debit(q)].applied \/ q \in drift'
  BY DEF Commits
<1> HIDE DEF n, new
<1>11. CommitOK(q)'
  BY <1>5, <1>6, <1>7, <1>8, <1>9, <1>10 DEF CommitOK, Acked, ReallyApplied, Debit
<1> QED BY <1>3, <1>7, <1>11 DEF n, new

\* No step takes a commit entry from its debit.
LEMMA CommitsStayOK ==
  ASSUME SagaInv, BatchInFlight, OutboxForward, NoDuplicates', [Next]_vars,
         NEW q \in Request, CommitOK(q)
  PROVE  CommitOK(q)'
<1>0. TypeOK /\ EntriesStep(q) /\ Debit(q) \in Command
  BY NextEntries DEF SagaInv, Debit, Command, OutboxType
<1>1. CASE Commits(q)
  BY <1>1, CommitStep
<1>2. CASE ~Commits(q)
  <2>1. \A i : IsCommit(q, i)' => /\ IsCommit(q, i)
                                  /\ ledger'[q][i].hcmVersion = ledger[q][i].hcmVersion
    BY <1>0, <1>2, OldCommits
  <2>2. ASSUME NEW i, IsCommit(q, i)'
        PROVE  /\ Sent(q, "DEBIT")'
               /\ \A m \in Messages(q, "DEBIT")' : outbox'[m].status = "DONE"
               /\ Acked(Debit(q))'
               /\ ledger'[q][i].hcmVersion = applied'[Debit(q)].version
               /\ ReallyApplied(Debit(q))' \/ q \in drift'
    <3>1. /\ i \in DOMAIN ledger[q] /\ IsCommit(q, i)
          /\ ledger'[q][i].hcmVersion = ledger[q][i].hcmVersion
      BY <2>1, <2>2 DEF IsCommit
    <3>2. /\ Sent(q, "DEBIT") /\ \A m \in Messages(q, "DEBIT") : outbox[m].status = "DONE"
          /\ Acked(Debit(q)) /\ ledger[q][i].hcmVersion = applied[Debit(q)].version
          /\ ReallyApplied(Debit(q)) \/ q \in drift
      BY <3>1 DEF CommitOK
    <3>3. applied'[Debit(q)] = applied[Debit(q)] /\ drift \subseteq drift'
      BY <1>0, <3>2, AcksStay
    <3> QED BY <1>0, <3>1, <3>2, <3>3, DoneStays DEF Acked, ReallyApplied, Debit
  <2>3. \A i, j : IsCommit(q, i)' /\ IsCommit(q, j)' => i = j
    BY <2>1 DEF CommitOK, IsCommit
  <2> QED BY <2>2, <2>3 DEF CommitOK
<1> QED BY <1>1, <1>2

\* Every commit entry has an acknowledged debit and that debit's version.
LEMMA CommitsAreOK == Spec => [](\A q \in Request : CommitOK(q))
<1> DEFINE Inv == \A q \in Request : CommitOK(q)
<1>1. Init => Inv
  BY DEF Init, DatabaseInit, CommitOK
<1>2. SagaInv /\ SagaInv' /\ BatchInFlight /\ Inv /\ [Next]_vars => Inv'
  <2> SUFFICES ASSUME SagaInv, SagaInv', BatchInFlight, Inv, [Next]_vars
               PROVE  Inv'
    OBVIOUS
  <2>1. TypeOK /\ NoDuplicates'
    BY DEF SagaInv
  <2>2. OutboxForward
    BY <2>1, NextOutbox DEF vars, dbVars, processorVars, OutboxForward, BatchInFlight
  <2> QED BY <2>1, <2>2, CommitsStayOK
<1> QED BY <1>1, <1>2, SagaInvariant, BatchStaysInFlight, PTL DEF Spec

\* A commit that HCM acknowledged without applying is on record as drift, by
\* the transaction that writes it (applySuccess, recordDrift), for good.
THEOREM GhostsAreOnRecord == Spec => []GhostCommitsAreDrift
<1>1. (\A q \in Request : CommitOK(q)) => GhostCommitsAreDrift
  BY DEF CommitOK, IsCommit, GhostCommitsAreDrift
<1> QED BY <1>1, CommitsAreOK, PTL

\* The days of a request are never subtracted twice: a request has one hold or
\* one commit that counts.  A hold goes with a debit still to be settled and a
\* commit with one that is done, and each request has one debit.
THEOREM DaysCountOnce == Spec => []OneActiveEntry
<1>1. /\ SagaInv /\ HoldMatchesStatus /\ ApprovalIsQueued
      /\ \A q \in Request : CommitOK(q)
      => OneActiveEntry
  <2> SUFFICES ASSUME SagaInv, HoldMatchesStatus, ApprovalIsQueued, NEW q \in Request,
                      CommitOK(q), NEW i \in DOMAIN ledger[q], NEW j \in DOMAIN ledger[q],
                      ledger[q][i].state = "ACTIVE", ledger[q][j].state = "ACTIVE"
               PROVE  i = j
    BY DEF OneActiveEntry
  <2>1. ledger[q][i] \in LedgerEntry /\ ledger[q][j] \in LedgerEntry
    BY DEF SagaInv, TypeOK, DatabaseTypeOK
  <2>2. /\ ledger[q][i].phase \in {"RESERVE", "COMMIT"}
        /\ ledger[q][j].phase \in {"RESERVE", "COMMIT"}
    BY <2>1 DEF LedgerEntry, LedgerPhase
  <2>3. ASSUME NEW m \in DOMAIN ledger[q], NEW n \in DOMAIN ledger[q],
               m \in Active(ledger[q], "RESERVE"), IsCommit(q, n)
        PROVE  FALSE
    <3>1. status[q] \in {"PENDING_APPROVAL", "APPROVED"}
      BY <2>3 DEF HoldMatchesStatus
    <3>2. /\ Sent(q, "DEBIT") /\ \A k \in Messages(q, "DEBIT") : outbox[k].status = "DONE"
      BY <2>3 DEF CommitOK
    <3>3. status[q] # "PENDING_APPROVAL"
      BY <3>2 DEF SagaInv, RequestOK
    <3>4. status[q] # "APPROVED"
      BY <3>2 DEF ApprovalIsQueued, Live
    <3> QED BY <3>1, <3>3, <3>4
  <2>4. CASE ledger[q][i].phase = "RESERVE" /\ ledger[q][j].phase = "RESERVE"
    <3>1. i \in Active(ledger[q], "RESERVE") /\ j \in Active(ledger[q], "RESERVE")
      BY <2>4 DEF Active
    <3> QED BY <3>1 DEF HoldMatchesStatus
  <2>5. CASE ledger[q][i].phase = "COMMIT" /\ ledger[q][j].phase = "COMMIT"
    BY <2>5 DEF CommitOK, IsCommit
  <2> QED BY <2>2, <2>3, <2>4, <2>5 DEF Active, IsCommit
<1> QED BY <1>1, SagaInvariant, HoldsAreExact, ApprovalsAreQueued, CommitsAreOK, PTL

------------------------------------------------------------------------------
(* Committed days *)

\* The commit of a request is subtracted, or inside the snapshot.
CountedOK(q) ==
  status[q] \in Committed =>
    \E i \in DOMAIN ledger[q] :
      /\ ledger[q][i].phase = "COMMIT"
      /\ ledger[q][i].hcmVersion = applied[Debit(q)].version
      /\ \/ ledger[q][i].state = "ACTIVE"
         \/ /\ ledger[q][i].state = "RECONCILED"
            /\ ledger[q][i].hcmVersion <= Watermark(KeyOf[q])

\* Watermarks are numbers and never fall.
LEMMA WatermarkRises ==
  ASSUME TypeOK, [Next]_vars, NEW k \in Key
  PROVE  /\ Watermark(k) \in Nat /\ balance'[k].lastReconciledVersion \in Nat
         /\ Watermark(k) <= balance'[k].lastReconciledVersion
<1>1. /\ balance \in [Key -> [hcmBalance : Int, lastReconciledVersion : Nat]]
      /\ \A q \in Key : DOMAIN hcm[q] \subseteq Nat
  BY DEF TypeOK, DatabaseTypeOK, HcmTypeOK
<1>2. CASE UNCHANGED balance
  BY <1>1, <1>2 DEF Watermark
<1>3. CASE \E q \in Key : \E v \in DOMAIN hcm[q] :
             /\ v > Watermark(q)
             /\ balance' = [balance EXCEPT ![q] =
                  [hcmBalance |-> hcm[q][v], lastReconciledVersion |-> v]]
  BY <1>1, <1>3 DEF Watermark
<1> QED BY <1>2, <1>3, NextMovesSnapshotOrHistory

\* The days of a committed request stay in its commit entry or in the snapshot.
LEMMA CountedStays ==
  ASSUME SagaInv, BatchInFlight, NoDuplicates', [Next]_vars,
         NEW q \in Request, CommitOK(q), CountedOK(q)
  PROVE  CountedOK(q)'
<1>0. /\ TypeOK /\ EntriesStep(q) /\ Debit(q) \in Command /\ KeyOf[q] \in Key
      /\ ledger[q] \in Seq(LedgerEntry)
      /\ \A i \in DOMAIN ledger[q] : ledger[q][i] \in LedgerEntry
  BY NextEntries, RequestAssumption
     DEF SagaInv, Debit, Command, OutboxType, TypeOK, DatabaseTypeOK
<1>1. CASE Commits(q)
  <2> DEFINE n == Len(ledger[q]) + 1
             new == CommitEntry(applied[Debit(q)].version)
  <2>1. n \in DOMAIN ledger'[q] /\ ledger'[q][n] = new
    BY <1>1, CommitStep
  <2>2. /\ new.phase = "COMMIT" /\ new.state = "ACTIVE"
        /\ new.hcmVersion = applied[Debit(q)].version
    BY DEF CommitEntry
  <2>3. applied' = applied
    BY <1>1 DEF Commits
  <2> HIDE DEF n, new
  <2> QED BY <2>1, <2>2, <2>3 DEF CountedOK, Debit
<1>2. CASE ~Commits(q) /\ status'[q] \in Committed
  <2>1. status[q] \in Committed
    BY <1>0, <1>2 DEF EntriesStep
  <2>2. PICK i \in DOMAIN ledger[q] :
          /\ ledger[q][i].phase = "COMMIT"
          /\ ledger[q][i].hcmVersion = applied[Debit(q)].version
          /\ \/ ledger[q][i].state = "ACTIVE"
             \/ /\ ledger[q][i].state = "RECONCILED"
                /\ ledger[q][i].hcmVersion <= Watermark(KeyOf[q])
    BY <2>1 DEF CountedOK
  <2>3. Acked(Debit(q)) /\ applied'[Debit(q)] = applied[Debit(q)]
    BY <1>0, <2>2, AcksStay DEF CommitOK, IsCommit
  <2>4. /\ i \in DOMAIN ledger'[q]
        /\ \/ ledger'[q][i] = ledger[q][i]
           \/ /\ ledger'[q][i] = [ledger[q][i] EXCEPT !.state = "RECONCILED"]
              /\ ledger[q][i].hcmVersion <= balance'[KeyOf[q]].lastReconciledVersion
    <3>1. i \notin Active(ledger[q], "RESERVE")
      BY <2>2 DEF Active
    <3>2. CASE ledger'[q] = Append(ledger[q], HoldEntry)
      BY <1>0, <3>2
    <3>3. CASE ledger'[q] = Release(ledger[q], "RESERVE")
      <4>1. Release(ledger[q], "RESERVE")[i] = ledger[q][i]
        BY <1>0, <3>1, ReleaseType
      <4>2. DOMAIN Release(ledger[q], "RESERVE") = DOMAIN ledger[q]
        BY DEF Release
      <4> QED BY <3>3, <4>1, <4>2
    <3>4. CASE Reconciles(q)
      BY <3>4 DEF Reconciles
    <3>5. CASE ledger'[q] = ledger[q]
      BY <3>5
    <3>6. \/ ledger'[q] = ledger[q]
          \/ ledger'[q] = Append(ledger[q], HoldEntry)
          \/ ledger'[q] = Release(ledger[q], "RESERVE")
          \/ Reconciles(q)
      BY <1>0, <1>2 DEF EntriesStep
    <3> QED BY <3>2, <3>3, <3>4, <3>5, <3>6
  <2>5. /\ Watermark(KeyOf[q]) \in Nat /\ ledger[q][i].hcmVersion \in Nat
        /\ balance'[KeyOf[q]].lastReconciledVersion \in Nat
        /\ Watermark(KeyOf[q]) <= balance'[KeyOf[q]].lastReconciledVersion
    BY <1>0, WatermarkRises DEF LedgerEntry
  <2>6. /\ ledger'[q][i].phase = "COMMIT"
        /\ ledger'[q][i].hcmVersion = ledger[q][i].hcmVersion
        /\ \/ ledger'[q][i].state = "ACTIVE"
           \/ /\ ledger'[q][i].state = "RECONCILED"
              /\ ledger'[q][i].hcmVersion <= balance'[KeyOf[q]].lastReconciledVersion
    <3>1. CASE ledger'[q][i] = ledger[q][i]
      BY <2>2, <2>5, <3>1
    <3>2. CASE /\ ledger'[q][i] = [ledger[q][i] EXCEPT !.state = "RECONCILED"]
               /\ ledger[q][i].hcmVersion <= balance'[KeyOf[q]].lastReconciledVersion
      <4>1. ledger[q][i] \in LedgerEntry
        BY <1>0
      <4>2. /\ ledger'[q][i].phase = ledger[q][i].phase
            /\ ledger'[q][i].hcmVersion = ledger[q][i].hcmVersion
            /\ ledger'[q][i].state = "RECONCILED"
        BY <3>2, <4>1 DEF LedgerEntry
      <4> QED BY <2>2, <3>2, <4>2
    <3> QED BY <2>4, <3>1, <3>2
  <2> QED BY <2>2, <2>3, <2>4, <2>6 DEF CountedOK, Watermark, Debit
<1> QED BY <1>1, <1>2 DEF CountedOK

\* Days HCM took for a committed request stay counted, through any order of
\* commits and snapshots: subtracted by their entry until a snapshot that is
\* recent enough to include them is accepted (reconcile, commitReservation).
THEOREM CommittedDaysStay == Spec => []CommittedDaysCounted
<1> DEFINE Inv == \A q \in Request : CountedOK(q)
<1>1. Init => Inv
  BY DEF Init, DatabaseInit, CountedOK, Committed, NoRequest
<1>2. /\ SagaInv /\ SagaInv' /\ BatchInFlight /\ Inv /\ [Next]_vars
      /\ \A q \in Request : CommitOK(q)
      => Inv'
  BY CountedStays DEF SagaInv
<1>3. Inv => CommittedDaysCounted
  BY DEF CountedOK, CommittedDaysCounted
<1> QED BY <1>1, <1>2, <1>3, SagaInvariant, BatchStaysInFlight, CommitsAreOK, PTL DEF Spec

==============================================================================

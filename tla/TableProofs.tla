------------------------------ MODULE TableProofs ------------------------------
(***************************************************************************)
(* Lemmas about the operations on the tables and on HCM, which the proofs  *)
(* about TimeOffSystem and those about Statements both rest on.            *)
(***************************************************************************)
EXTENDS TimeOffService, SyncService, HcmCore, TLAPS

------------------------------------------------------------------------------
(* The lifecycle table *)

\* A request is submitted from DRAFT only.
LEMMA SubmitTransition ==
  ASSUME NEW s, CanTransition(s, "SUBMIT")
  PROVE  s = "DRAFT" /\ NextState(s, "SUBMIT") = "PENDING_APPROVAL"
BY DEF CanTransition, NextState, TRANSITIONS, RequestStatus

\* A request is approved from PENDING_APPROVAL only.
LEMMA ApproveTransition ==
  ASSUME NEW s, CanTransition(s, "APPROVE")
  PROVE  s = "PENDING_APPROVAL" /\ NextState(s, "APPROVE") = "APPROVED"
BY DEF CanTransition, NextState, TRANSITIONS, RequestStatus

\* A request is rejected from PENDING_APPROVAL only.
LEMMA RejectTransition ==
  ASSUME NEW s, CanTransition(s, "REJECT")
  PROVE  s = "PENDING_APPROVAL" /\ NextState(s, "REJECT") = "REJECTED"
BY DEF CanTransition, NextState, TRANSITIONS, RequestStatus

\* The statuses a cancel accepts; only a committed request waits for HCM.
LEMMA CancelTransition ==
  ASSUME NEW s, CanTransition(s, "CANCEL")
  PROVE  /\ s \in {"DRAFT", "PENDING_APPROVAL", "APPROVED", "COMMITTED"}
         /\ NextState(s, "CANCEL") = IF s = "COMMITTED"
                                     THEN "CANCELLATION_PENDING" ELSE "CANCELLED"
BY DEF CanTransition, NextState, TRANSITIONS, RequestStatus

\* What the three outbox outcomes do to a status: each moves one status and
\* leaves every other alone.
LEMMA OutcomeTransitions ==
  ASSUME NEW s
  PROVE  /\ AdvanceIfLegal(s, "HCM_COMMITTED") =
              IF s = "APPROVED" THEN "COMMITTED" ELSE s
         /\ AdvanceIfLegal(s, "HCM_REJECTED") =
              IF s = "APPROVED" THEN "FAILED" ELSE s
         /\ AdvanceIfLegal(s, "HCM_CREDIT_DONE") =
              IF s = "CANCELLATION_PENDING" THEN "CANCELLED" ELSE s
BY DEF AdvanceIfLegal, CanTransition, NextState, TRANSITIONS, RequestStatus

\* The outbox outcomes keep a status a status.
LEMMA AdvanceType ==
  ASSUME NEW s \in RequestStatus \union {NoRequest},
         NEW action \in {"HCM_COMMITTED", "HCM_REJECTED", "HCM_CREDIT_DONE"}
  PROVE  AdvanceIfLegal(s, action) \in RequestStatus \union {NoRequest}
BY OutcomeTransitions DEF RequestStatus

------------------------------------------------------------------------------
(* The ledger and the outbox stay typed under the operations on them *)

\* A function over the positions of a sequence with values in S is a sequence
\* of the same length.
LEMMA SeqMap ==
  ASSUME NEW S, NEW s \in Seq(S), NEW t, t = [i \in DOMAIN s |-> t[i]],
         \A i \in DOMAIN s : t[i] \in S
  PROVE  t \in Seq(S) /\ Len(t) = Len(s) /\ DOMAIN t = DOMAIN s
OBVIOUS

\* A release keeps the entries and their number, and changes ACTIVE ones only.
LEMMA ReleaseType ==
  ASSUME NEW e \in Seq(LedgerEntry), NEW p
  PROVE  /\ Release(e, p) \in Seq(LedgerEntry)
         /\ Len(Release(e, p)) = Len(e)
         /\ \A i \in DOMAIN e :
              \/ Release(e, p)[i] = e[i]
              \/ /\ i \in Active(e, p)
                 /\ Release(e, p)[i] = [e[i] EXCEPT !.state = "RELEASED"]
<1>1. \A i \in DOMAIN e : e[i] \in LedgerEntry
  OBVIOUS
<1>2. \A i \in DOMAIN e : Release(e, p)[i] \in LedgerEntry
  BY <1>1 DEF Release, LedgerEntry, LedgerState
<1> QED BY <1>2, SeqMap DEF Release

\* Both releases keep the ledger typed.
LEMMA ReleasedLedgerType ==
  ASSUME NEW r \in Request, DatabaseTypeOK
  PROVE /\ ReleaseReservation(ledger, r) \in [Request -> Seq(LedgerEntry)]
        /\ ReleaseCommit(ledger, r) \in [Request -> Seq(LedgerEntry)]
BY ReleaseType DEF DatabaseTypeOK, ReleaseReservation, ReleaseCommit

\* commitReservation keeps the ledger typed.
LEMMA CommitLedgerType ==
  ASSUME NEW r \in Request, NEW v \in Nat, DatabaseTypeOK
  PROVE  CommitReservation(ledger, r, v) \in [Request -> Seq(LedgerEntry)]
<1>1. Release(ledger[r], "RESERVE") \in Seq(LedgerEntry)
  BY ReleaseType DEF DatabaseTypeOK
<1>2. [phase |-> "COMMIT", state |-> "ACTIVE", hcmVersion |-> v] \in LedgerEntry
  BY DEF LedgerEntry, LedgerPhase, LedgerState
<1> QED BY <1>1, <1>2 DEF DatabaseTypeOK, CommitReservation

\* Marking entries reconciled keeps the ledger typed and its lengths.
LEMMA ReconciledLedgerType ==
  ASSUME NEW ids, DatabaseTypeOK
  PROVE  /\ MarkReconciled(ledger, ids) \in [Request -> Seq(LedgerEntry)]
         /\ \A r \in Request :
              /\ DOMAIN MarkReconciled(ledger, ids)[r] = DOMAIN ledger[r]
              /\ Len(MarkReconciled(ledger, ids)[r]) = Len(ledger[r])
<1> SUFFICES ASSUME NEW r \in Request
    PROVE  /\ MarkReconciled(ledger, ids)[r] \in Seq(LedgerEntry)
           /\ DOMAIN MarkReconciled(ledger, ids)[r] = DOMAIN ledger[r]
           /\ Len(MarkReconciled(ledger, ids)[r]) = Len(ledger[r])
  BY DEF MarkReconciled
<1> DEFINE t == MarkReconciled(ledger, ids)[r]
<1>0. ledger[r] \in Seq(LedgerEntry) BY DEF DatabaseTypeOK
<1>1. t = [ i \in DOMAIN ledger[r] |->
              IF << r, i >> \in ids
              THEN [ledger[r][i] EXCEPT !.state = "RECONCILED"]
              ELSE ledger[r][i] ]
  BY DEF MarkReconciled
<1> HIDE DEF t
<1>2. \A i \in DOMAIN ledger[r] : t[i] \in LedgerEntry
  <2> SUFFICES ASSUME NEW i \in DOMAIN ledger[r] PROVE t[i] \in LedgerEntry
    OBVIOUS
  <2>1. ledger[r][i] \in LedgerEntry
    BY <1>0
  <2>2. [ledger[r][i] EXCEPT !.state = "RECONCILED"] \in LedgerEntry
    BY <2>1 DEF LedgerEntry, LedgerState
  <2> QED
    BY <2>1, <2>2, <1>1
<1>3. t = [i \in DOMAIN ledger[r] |-> t[i]]
  BY <1>1
<1> QED BY <1>0, <1>2, <1>3, SeqMap DEF t

\* Two messages that ask HCM for the same.
Alike(m, n) == m.request = n.request /\ m.type = n.type

\* Two outboxes with the same messages, up to what an update may set.
SameCommands(o, p) == DOMAIN p = DOMAIN o /\ \A i \in DOMAIN o : Alike(p[i], o[i])

\* enqueue appends one message of the request and keeps the others.
LEMMA EnqueueType ==
  ASSUME NEW o \in Seq(OutboxMessage), NEW r \in Request, NEW t \in OutboxType
  PROVE  /\ Enqueue(o, r, t) \in Seq(OutboxMessage)
         /\ DOMAIN o \subseteq DOMAIN Enqueue(o, r, t)
         /\ Len(Enqueue(o, r, t)) = Len(o) + 1
         /\ \A i \in DOMAIN o : Enqueue(o, r, t)[i] = o[i]
         /\ Enqueue(o, r, t)[Len(o) + 1].request = r
         /\ Enqueue(o, r, t)[Len(o) + 1].type = t
<1>1. [ request |-> r, type |-> t, status |-> "PENDING",
        attempts |-> 0, lastError |-> "none" ] \in OutboxMessage
  BY DEF OutboxMessage, OutboxStatus, LastError
<1> QED BY <1>1 DEF Enqueue

\* A message with another status is a message of the same request.
LEMMA SetStatusType ==
  ASSUME NEW m \in OutboxMessage, NEW st \in OutboxStatus
  PROVE  /\ [m EXCEPT !.status = st] \in OutboxMessage
         /\ Alike([m EXCEPT !.status = st], m)
BY DEF OutboxMessage, Alike

\* Claiming messages keeps the outbox typed and what each is about.
LEMMA MarkInflightType ==
  ASSUME NEW o \in Seq(OutboxMessage), NEW ids
  PROVE  /\ MarkInflight(o, ids) \in Seq(OutboxMessage)
         /\ SameCommands(o, MarkInflight(o, ids))
<1> DEFINE t == MarkInflight(o, ids)
<1>1. t = [ i \in DOMAIN o |-> IF i \in ids THEN [o[i] EXCEPT !.status = "INFLIGHT"]
                                    ELSE o[i] ]
  BY DEF MarkInflight
<1> HIDE DEF t
<1>2. \A i \in DOMAIN o : o[i] \in OutboxMessage
  OBVIOUS
<1>3. "INFLIGHT" \in OutboxStatus
  BY DEF OutboxStatus
<1>4. \A i \in DOMAIN o : t[i] \in OutboxMessage /\ Alike(t[i], o[i])
  BY <1>1, <1>2, <1>3, SetStatusType DEF Alike
<1>5. t = [i \in DOMAIN o |-> t[i]]
  BY <1>1
<1> QED BY <1>4, <1>5, SeqMap DEF t, SameCommands

\* Cancelling messages keeps the outbox typed and what each is about.
LEMMA CancelPendingType ==
  ASSUME NEW o \in Seq(OutboxMessage), NEW r
  PROVE  /\ CancelPendingForRequest(o, r) \in Seq(OutboxMessage)
         /\ SameCommands(o, CancelPendingForRequest(o, r))
<1> DEFINE t == CancelPendingForRequest(o, r)
<1>1. t = [ i \in DOMAIN o |->
              IF o[i].request = r /\ o[i].status \in {"PENDING", "FAILED"}
              THEN [o[i] EXCEPT !.status = "DEAD", !.lastError = "cancelled"]
              ELSE o[i] ]
  BY DEF CancelPendingForRequest
<1> HIDE DEF t
<1>2. \A i \in DOMAIN o : o[i] \in OutboxMessage
  OBVIOUS
<1>3. \A m \in OutboxMessage :
        /\ [m EXCEPT !.status = "DEAD", !.lastError = "cancelled"] \in OutboxMessage
        /\ Alike([m EXCEPT !.status = "DEAD", !.lastError = "cancelled"], m)
  BY DEF OutboxMessage, OutboxStatus, LastError, Alike
<1>4. \A i \in DOMAIN o : t[i] \in OutboxMessage /\ Alike(t[i], o[i])
  BY <1>1, <1>2, <1>3 DEF Alike
<1>5. t = [i \in DOMAIN o |-> t[i]]
  BY <1>1
<1> QED BY <1>4, <1>5, SeqMap DEF t, SameCommands

\* So do the three outcomes of a delivery.
LEMMA OutcomeType ==
  ASSUME NEW o \in Seq(OutboxMessage), NEW i \in DOMAIN o
  PROVE  /\ MarkDone(o, i) \in Seq(OutboxMessage)
         /\ SameCommands(o, MarkDone(o, i))
         /\ MarkRejected(o, i) \in Seq(OutboxMessage)
         /\ SameCommands(o, MarkRejected(o, i))
         /\ MarkRetryOrDead(o, i) \in Seq(OutboxMessage)
         /\ SameCommands(o, MarkRetryOrDead(o, i))
<1>0. o[i] \in OutboxMessage
  OBVIOUS
<1>1. /\ [o[i] EXCEPT !.status = "DONE", !.lastError = "none"] \in OutboxMessage
      /\ Alike([o[i] EXCEPT !.status = "DONE", !.lastError = "none"], o[i])
  BY <1>0 DEF OutboxMessage, OutboxStatus, LastError, Alike
<1>2. /\ [o[i] EXCEPT !.status = "DEAD", !.lastError = "rejected"] \in OutboxMessage
      /\ Alike([o[i] EXCEPT !.status = "DEAD", !.lastError = "rejected"], o[i])
  BY <1>0 DEF OutboxMessage, OutboxStatus, LastError, Alike
<1>3. \A n \in Nat, st \in {"DEAD", "FAILED"} :
        /\ [o[i] EXCEPT !.attempts = n, !.lastError = "transient", !.status = st]
             \in OutboxMessage
        /\ Alike([o[i] EXCEPT !.attempts = n, !.lastError = "transient", !.status = st],
                 o[i])
  BY <1>0 DEF OutboxMessage, OutboxStatus, LastError, Alike
<1>4. \A m \in OutboxMessage : Alike(m, o[i]) =>
        /\ [o EXCEPT ![i] = m] \in Seq(OutboxMessage)
        /\ SameCommands(o, [o EXCEPT ![i] = m])
  BY DEF SameCommands, Alike
<1>5. o[i].attempts + 1 \in Nat
  BY <1>0 DEF OutboxMessage
<1>6. /\ MarkRetryOrDead(o, i) \in Seq(OutboxMessage)
      /\ SameCommands(o, MarkRetryOrDead(o, i))
  <2> DEFINE st == IF o[i].attempts + 1 >= MaxAttempts THEN "DEAD" ELSE "FAILED"
             m == [o[i] EXCEPT !.attempts = o[i].attempts + 1,
                               !.lastError = "transient", !.status = st]
  <2>1. st \in {"DEAD", "FAILED"}
    OBVIOUS
  <2>2. MarkRetryOrDead(o, i) = [o EXCEPT ![i] = m]
    BY DEF MarkRetryOrDead
  <2> HIDE DEF st
  <2>3. m \in OutboxMessage /\ Alike(m, o[i])
    BY <1>3, <1>5, <2>1
  <2> HIDE DEF m
  <2> QED BY <1>4, <2>2, <2>3
<1> QED BY <1>1, <1>2, <1>4, <1>6 DEF MarkDone, MarkRejected

------------------------------------------------------------------------------
(* What the operations do to the ACTIVE entries *)

\* A release leaves no ACTIVE entry of its phase, and releasing commits leaves
\* the holds alone.
LEMMA ReleaseActive ==
  ASSUME NEW e \in Seq(LedgerEntry)
  PROVE  /\ \A p : Active(Release(e, p), p) = {}
         /\ Active(Release(e, "COMMIT"), "RESERVE") = Active(e, "RESERVE")
<1>1. \A i \in DOMAIN e : e[i] \in LedgerEntry
  OBVIOUS
<1>2. ASSUME NEW p
      PROVE  /\ DOMAIN Release(e, p) = DOMAIN e
             /\ \A i \in DOMAIN e :
                  IF i \in Active(e, p)
                  THEN Release(e, p)[i].state = "RELEASED"
                       /\ Release(e, p)[i].phase = e[i].phase
                  ELSE Release(e, p)[i] = e[i]
  BY <1>1 DEF Release, LedgerEntry
<1>3. ASSUME NEW p PROVE Active(Release(e, p), p) = {}
  BY <1>2 DEF Active
<1>4. Active(Release(e, "COMMIT"), "RESERVE") = Active(e, "RESERVE")
  BY <1>2 DEF Active
<1> QED BY <1>3, <1>4

\* Appending an entry adds its position to the ACTIVE holds when it is one.
LEMMA AppendActive ==
  ASSUME NEW e \in Seq(LedgerEntry), NEW x \in LedgerEntry
  PROVE  Active(Append(e, x), "RESERVE") =
           Active(e, "RESERVE") \union
             (IF x.phase = "RESERVE" /\ x.state = "ACTIVE" THEN {Len(e) + 1} ELSE {})
BY DEF Active

\* Reconciling commits leaves the holds alone.
LEMMA ReconcileActive ==
  ASSUME DatabaseTypeOK, NEW ids,
         \A r \in Request : \A i \in DOMAIN ledger[r] :
           << r, i >> \in ids => i \in Active(ledger[r], "COMMIT")
  PROVE  \A r \in Request :
           Active(MarkReconciled(ledger, ids)[r], "RESERVE")
             = Active(ledger[r], "RESERVE")
<1> SUFFICES ASSUME NEW r \in Request
             PROVE  Active(MarkReconciled(ledger, ids)[r], "RESERVE")
                      = Active(ledger[r], "RESERVE")
  OBVIOUS
<1> DEFINE t == MarkReconciled(ledger, ids)[r]
<1>1. \A i \in DOMAIN ledger[r] : ledger[r][i] \in LedgerEntry
  BY DEF DatabaseTypeOK
<1>2. /\ DOMAIN t = DOMAIN ledger[r]
      /\ \A i \in DOMAIN ledger[r] :
           IF << r, i >> \in ids
           THEN t[i].phase = ledger[r][i].phase /\ i \in Active(ledger[r], "COMMIT")
           ELSE t[i] = ledger[r][i]
  BY <1>1 DEF MarkReconciled, LedgerEntry
<1> HIDE DEF t
<1>3. Active(t, "RESERVE") = Active(ledger[r], "RESERVE")
  BY <1>2 DEF Active
<1> QED BY <1>3 DEF t

------------------------------------------------------------------------------
(* The days the entries hold *)

\* The day units ledger l holds on key k in one phase.
UnitsOf(l, k, p) ==
  { u \in (Request \X Nat) \X Nat :
      LET r == u[1][1] IN /\ KeyOf[r] = k
                          /\ u[1][2] \in Active(l[r], p)
                          /\ u[2] \in 1 .. Days[r] }

\* What the sums of balance.service.ts count.
LEMMA UnitsAre ==
  ASSUME NEW k, NEW p, ledger \in [Request -> Seq(LedgerEntry)]
  PROVE  DayUnits(ActiveEntries(k, p)) = UnitsOf(ledger, k, p)
<1>1. ASSUME NEW u \in DayUnits(ActiveEntries(k, p)) PROVE u \in UnitsOf(ledger, k, p)
  <2>1. PICK e \in ActiveEntries(k, p) : u \in {e.id} \X (1 .. e.amount)
    BY DEF DayUnits
  <2>2. PICK r \in { q \in Request : KeyOf[q] = k } :
          e \in { [ id |-> << r, i >>, amount |-> Days[r],
                    hcmVersion |-> ledger[r][i].hcmVersion ] : i \in Active(ledger[r], p) }
    BY <2>1 DEF ActiveEntries
  <2>3. PICK i \in Active(ledger[r], p) : e.id = << r, i >> /\ e.amount = Days[r]
    BY <2>2
  <2>4. i \in Nat
    BY DEF Active
  <2>5. PICK n \in 1 .. Days[r] : u = << << r, i >>, n >>
    BY <2>1, <2>3
  <2>6. n \in Nat /\ r \in Request /\ KeyOf[r] = k
    OBVIOUS
  <2> QED BY <2>3, <2>4, <2>5, <2>6 DEF UnitsOf
<1>2. ASSUME NEW u \in UnitsOf(ledger, k, p) PROVE u \in DayUnits(ActiveEntries(k, p))
  <2>1. PICK r \in Request, i \in Nat, n \in Nat : u = << << r, i >>, n >>
    BY DEF UnitsOf
  <2>2. KeyOf[r] = k /\ i \in Active(ledger[r], p) /\ n \in 1 .. Days[r]
    BY <2>1 DEF UnitsOf
  <2> DEFINE e == [ id |-> << r, i >>, amount |-> Days[r],
                    hcmVersion |-> ledger[r][i].hcmVersion ]
  <2>3. e \in ActiveEntries(k, p)
    <3>1. e \in { [ id |-> << r, j >>, amount |-> Days[r],
                    hcmVersion |-> ledger[r][j].hcmVersion ] : j \in Active(ledger[r], p) }
      BY <2>2
    <3> HIDE DEF e
    <3>2. r \in { q \in Request : KeyOf[q] = k }
      BY <2>2
    <3> QED BY <3>1, <3>2 DEF ActiveEntries
  <2>4. u \in {e.id} \X (1 .. e.amount)
    BY <2>1, <2>2
  <2> HIDE DEF e
  <2> QED BY <2>3, <2>4 DEF DayUnits
<1> QED BY <1>1, <1>2

------------------------------------------------------------------------------
(* Snapshots and HCM *)

\* What reconcileKey does to the rows it writes: the snapshot becomes the row
\* that arrived, which is newer than the watermark, and the entries marked are
\* ACTIVE commits of the key, acknowledged no later than that row.
LEMMA ReconcileEffect ==
  ASSUME NEW k \in Key, NEW v \in DOMAIN hcm[k], DatabaseTypeOK, HcmTypeOK,
         ReconcileKey(k, RowAt(k, v))
  PROVE  /\ v > balance[k].lastReconciledVersion
         /\ balance' = [balance EXCEPT ![k] =
              [hcmBalance |-> hcm[k][v], lastReconciledVersion |-> v]]
         /\ events' \subseteq events \union ReconcileEvent
         /\ \E ids : /\ ledger' = MarkReconciled(ledger, ids)
                     /\ \A r \in Request : \A i \in DOMAIN ledger[r] :
                          << r, i >> \in ids =>
                            /\ i \in Active(ledger[r], "COMMIT")
                            /\ KeyOf[r] = k /\ ledger[r][i].hcmVersion <= v
<1> DEFINE in == ReconcileInput(k, RowAt(k, v))
           result == Reconcile(in)
<1>1. v \in Nat /\ hcm[k][v] \in Int
  BY DEF HcmTypeOK
<1>2. balance[k].lastReconciledVersion \in Nat
  BY DEF DatabaseTypeOK
<1>3. /\ in.lastReconciledVersion = balance[k].lastReconciledVersion
      /\ in.authoritativeVersion = v
      /\ in.authoritativeBalance = hcm[k][v]
      /\ in.committedEntries = ActiveEntries(k, "COMMIT")
  BY DEF ReconcileInput, RowAt
<1>4. /\ result.applied
      /\ ledger' = MarkReconciled(ledger, result.matchedCommitIds)
      /\ balance' = [balance EXCEPT ![k] =
                      [ hcmBalance            |-> result.newHcmBalance,
                        lastReconciledVersion |-> result.newLastReconciledVersion ]]
      /\ events' = events \union Logged(k, result)
  BY DEF ReconcileKey
<1> HIDE DEF in
<1>5. ~IsStale(in)
  BY <1>4 DEF Reconcile
<1>6. /\ result.newHcmBalance = in.authoritativeBalance
      /\ result.newLastReconciledVersion = in.authoritativeVersion
      /\ result.matchedCommitIds = { e.id : e \in Matched(in) }
      /\ result.eventType = EventType(in)
  BY <1>5 DEF Reconcile
<1> HIDE DEF result
<1>7. v > balance[k].lastReconciledVersion
  BY <1>1, <1>2, <1>3, <1>5 DEF IsStale
<1>8. Logged(k, result) \subseteq ReconcileEvent
  BY <1>1, <1>3, <1>6 DEF Logged, EventType, ReconcileEvent
<1>9. \A r \in Request : \A i \in DOMAIN ledger[r] :
        << r, i >> \in result.matchedCommitIds =>
          /\ i \in Active(ledger[r], "COMMIT")
          /\ KeyOf[r] = k /\ ledger[r][i].hcmVersion <= v
  <2> SUFFICES ASSUME NEW r \in Request, NEW i \in DOMAIN ledger[r],
                      << r, i >> \in result.matchedCommitIds
               PROVE  /\ i \in Active(ledger[r], "COMMIT")
                      /\ KeyOf[r] = k /\ ledger[r][i].hcmVersion <= v
    OBVIOUS
  <2>1. PICK e \in ActiveEntries(k, "COMMIT") : e.id = << r, i >> /\ e.hcmVersion <= v
    BY <1>3, <1>6 DEF Matched
  <2>2. PICK q \in { p \in Request : KeyOf[p] = k } :
          e \in { [ id |-> << q, j >>, amount |-> Days[q],
                    hcmVersion |-> ledger[q][j].hcmVersion ] :
                  j \in Active(ledger[q], "COMMIT") }
    BY <2>1 DEF ActiveEntries
  <2>3. PICK j \in Active(ledger[q], "COMMIT") :
          e.id = << q, j >> /\ e.hcmVersion = ledger[q][j].hcmVersion
    BY <2>2
  <2>4. q = r /\ j = i
    BY <2>1, <2>3
  <2> QED
    BY <2>1, <2>2, <2>3, <2>4
<1> QED
  BY <1>3, <1>4, <1>6, <1>7, <1>8, <1>9

\* The first load, too, only ever raises the watermark.
LEMMA LoadEffect ==
  ASSUME NEW k \in Key, NEW v \in DOMAIN hcm[k], DatabaseTypeOK, HcmTypeOK,
         EnsureBalanceLoaded(k, RowAt(k, v))
  PROVE  /\ v > balance[k].lastReconciledVersion
         /\ balance' = [balance EXCEPT ![k] =
              [hcmBalance |-> hcm[k][v], lastReconciledVersion |-> v]]
BY DEF EnsureBalanceLoaded, HasBalance, NoBalance, RowAt, DatabaseTypeOK,
       HcmTypeOK

\* Every row HCM ever held is still what it was.
HistoryKept ==
  \A q \in Key : \A v \in DOMAIN hcm[q] :
    v \in DOMAIN hcm'[q] /\ hcm'[q][v] = hcm[q][v]

\* applyDelta keeps HCM typed and rewrites no version of any row.
LEMMA ApplyDeltaType ==
  ASSUME NEW c \in Command, NEW outcome, HcmTypeOK, ApplyDelta(c, outcome)
  PROVE  HcmTypeOK' /\ HistoryKept
<1> DEFINE k == KeyOf[c[1]]
           row == Referenced(k)
           next == row[Len(row)] + Signed(c)
<1>1. c[1] \in Request /\ k \in Key
  BY RequestAssumption DEF Command
<1>2. /\ row \in Seq(Int) /\ Len(row) > 0
      /\ \A v \in DOMAIN hcm[k] : v \in DOMAIN row /\ row[v] = hcm[k][v]
  BY <1>1 DEF Referenced, HcmTypeOK
<1>3. Signed(c) \in Int
  BY <1>1, RequestAssumption DEF Signed
<1>4. next \in Int
  BY <1>2, <1>3
<1>5. CASE UNCHANGED hcmVars
  BY <1>5 DEF hcmVars, HistoryKept, HcmTypeOK
<1>6. CASE Acknowledge(c, row, FALSE)
  BY <1>6, <1>1, <1>2 DEF Acknowledge, HistoryKept, HcmTypeOK
<1>7. CASE hcm' = [hcm EXCEPT ![k] = row] /\ UNCHANGED applied
  BY <1>7, <1>1, <1>2 DEF HcmTypeOK, HistoryKept
<1>8. CASE Acknowledge(c, Append(row, next), TRUE)
  <2> HIDE DEF next
  <2>1. /\ Append(row, next) \in Seq(Int)
        /\ \A v \in DOMAIN row :
             v \in DOMAIN Append(row, next) /\ Append(row, next)[v] = row[v]
    BY <1>2, <1>4
  <2>2. hcm' = [hcm EXCEPT ![k] = Append(row, next)]
    BY <1>8 DEF Acknowledge
  <2>3. hcm' \in [Key -> Seq(Int)] /\ HistoryKept
    BY <1>1, <1>2, <2>1, <2>2 DEF HistoryKept, HcmTypeOK
  <2>4. [ version |-> Len(Append(row, next)), applied |-> TRUE ]
          \in [ version : Nat, applied : BOOLEAN ]
    BY <2>1
  <2>5. applied' \in [Command -> [ version : Nat, applied : BOOLEAN ]]
    BY <1>8, <2>4 DEF Acknowledge, HcmTypeOK
  <2> QED BY <2>3, <2>5 DEF HcmTypeOK
<1> QED BY <1>5, <1>6, <1>7, <1>8 DEF ApplyDelta

==============================================================================

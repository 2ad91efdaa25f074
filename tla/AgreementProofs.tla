--------------------------- MODULE AgreementProofs ---------------------------
(***************************************************************************)
(* The service's figures against HCM's: what the available balance is made *)
(* of, why it may be negative, what a snapshot mends, and the promises     *)
(* that hold while HCM and the network keep theirs.  A theorem that needs  *)
(* a fault away names it.                                                  *)
(***************************************************************************)
EXTENDS LedgerProofs

------------------------------------------------------------------------------
(* The days of a set of requests *)

Cost(S) == Total(Asked(S))

\* Each request stands for its days, once.
LEMMA AskedUnits ==
  ASSUME NEW S
  PROVE  \A u : u \in DayUnits(Asked(S)) <=>
           \E r \in S : \E n \in 1 .. Days[r] : u = << r, n >>
<1>1. ASSUME NEW u, u \in DayUnits(Asked(S))
      PROVE  \E r \in S : \E n \in 1 .. Days[r] : u = << r, n >>
  <2>1. PICK e \in Asked(S) : u \in {e.id} \X (1 .. e.amount)
    BY <1>1 DEF DayUnits
  <2>2. PICK r \in S : e = [ id |-> r, amount |-> Days[r] ]
    BY DEF Asked
  <2>3. u \in {r} \X (1 .. Days[r])
    BY <2>1, <2>2
  <2> QED BY <2>3
<1>2. ASSUME NEW r \in S, NEW n \in 1 .. Days[r] PROVE << r, n >> \in DayUnits(Asked(S))
  <2> DEFINE e == [ id |-> r, amount |-> Days[r] ]
  <2>1. e \in Asked(S)
    BY DEF Asked
  <2>2. << r, n >> \in {e.id} \X (1 .. e.amount)
    OBVIOUS
  <2> HIDE DEF e
  <2> QED BY <2>1, <2>2 DEF DayUnits
<1> QED BY <1>1, <1>2

\* Finitely many days.
FiniteDays(S) == IsFiniteSet(DayUnits(Asked(S)))

\* Costs add up: of requests that are counted twice, the cost is too.
LEMMA CostAdds ==
  ASSUME NEW S, NEW T, FiniteDays(S), FiniteDays(T)
  PROVE  /\ FiniteDays(S \union T) /\ Cost(S) \in Nat /\ Cost(T) \in Nat
         /\ Cost(S \union T) \in Nat /\ Cost(S \intersect T) \in Nat
         /\ Cost(S \union T) = Cost(S) + Cost(T) - Cost(S \intersect T)
<1>1. DayUnits(Asked(S \union T)) = DayUnits(Asked(S)) \union DayUnits(Asked(T))
  BY AskedUnits
<1>2. DayUnits(Asked(S \intersect T)) = DayUnits(Asked(S)) \intersect DayUnits(Asked(T))
  <2>1. \A r, q, n, m : << r, n >> = << q, m >> => r = q /\ n = m
    OBVIOUS
  <2>2. ASSUME NEW u, u \in DayUnits(Asked(S)), u \in DayUnits(Asked(T))
        PROVE  u \in DayUnits(Asked(S \intersect T))
    <3>1. PICK r \in S : \E n \in 1 .. Days[r] : u = << r, n >>
      BY <2>2, AskedUnits
    <3>2. PICK q \in T : \E n \in 1 .. Days[q] : u = << q, n >>
      BY <2>2, AskedUnits
    <3>3. r = q
      BY <2>1, <3>1, <3>2
    <3> QED BY <3>1, <3>3, AskedUnits
  <2>3. DayUnits(Asked(S \intersect T)) \subseteq DayUnits(Asked(S)) \intersect DayUnits(Asked(T))
    BY AskedUnits
  <2> QED BY <2>2, <2>3
<1> DEFINE A == DayUnits(Asked(S))
           B == DayUnits(Asked(T))
<1>3. IsFiniteSet(A) /\ IsFiniteSet(B)
  BY DEF FiniteDays
<1> HIDE DEF A, B
<1>4. /\ IsFiniteSet(A \union B) /\ IsFiniteSet(A \intersect B)
      /\ Cardinality(A \union B) = Cardinality(A) + Cardinality(B) - Cardinality(A \intersect B)
  BY <1>3, FS_Union, FS_Intersection
<1>5. /\ Cardinality(A) \in Nat /\ Cardinality(B) \in Nat
      /\ Cardinality(A \union B) \in Nat /\ Cardinality(A \intersect B) \in Nat
  BY <1>3, <1>4, FS_CardinalityType
<1> QED BY <1>1, <1>2, <1>4, <1>5 DEF FiniteDays, Cost, Total, A, B

\* More requests cost no less.
LEMMA CostGrows ==
  ASSUME NEW S, NEW T, S \subseteq T, FiniteDays(T)
  PROVE  FiniteDays(S) /\ Cost(S) \in Nat /\ Cost(T) \in Nat /\ Cost(S) <= Cost(T)
<1>1. DayUnits(Asked(S)) \in SUBSET DayUnits(Asked(T))
  BY AskedUnits
<1> QED BY <1>1, FS_Subset, FS_CardinalityType DEF FiniteDays, Cost, Total

\* One request costs its days, none cost nothing.
LEMMA CostOfOne ==
  /\ FiniteDays({}) /\ Cost({}) = 0
  /\ \A r \in Request : FiniteDays({r}) /\ Cost({r}) = Days[r] /\ Days[r] \in Nat
<1>1. FiniteDays({}) /\ Cost({}) = 0
  <2>1. DayUnits(Asked({})) = {}
    BY AskedUnits
  <2> QED BY <2>1, FS_EmptySet DEF FiniteDays, Cost, Total
<1>2. ASSUME NEW r \in Request
      PROVE  FiniteDays({r}) /\ Cost({r}) = Days[r] /\ Days[r] \in Nat
  <2> DEFINE D == 1 .. Days[r]
  <2>0. Days[r] \in Nat
    BY RequestAssumption
  <2>1. IsFiniteSet(D) /\ Cardinality(D) = Days[r]
    BY <2>0, FS_Interval
  <2>2. IsFiniteSet({r}) /\ Cardinality({r}) = 1
    BY FS_Singleton
  <2>3. DayUnits(Asked({r})) = {r} \X D
    <3>1. \A u : u \in {r} \X D <=> \E n \in D : u = << r, n >>
      OBVIOUS
    <3>2. \A u : u \in DayUnits(Asked({r})) <=> \E n \in D : u = << r, n >>
      BY AskedUnits
    <3> QED BY <3>1, <3>2
  <2> HIDE DEF D
  <2>4. IsFiniteSet({r} \X D) /\ Cardinality({r} \X D) = Cardinality({r}) * Cardinality(D)
    BY <2>1, <2>2, FS_Product, Zenon
  <2>5. 1 * Days[r] = Days[r]
    BY <2>0
  <2> QED BY <2>0, <2>1, <2>2, <2>3, <2>4, <2>5 DEF FiniteDays, Cost, Total
<1> QED BY <1>1, <1>2

\* One request more costs its days more.
LEMMA CostOfMore ==
  ASSUME NEW S, FiniteDays(S), NEW r \in Request, r \notin S
  PROVE  /\ Cost(S) \in Nat /\ Days[r] \in Nat
         /\ Cost(S \union {r}) = Cost(S) + Days[r]
<1>1. FiniteDays({r}) /\ Cost({r}) = Days[r] /\ Days[r] \in Nat
  BY CostOfOne
<1>2. /\ Cost(S) \in Nat
      /\ Cost(S \union {r}) = Cost(S) + Cost({r}) - Cost(S \intersect {r})
  BY <1>1, CostAdds
<1>3. S \intersect {r} = {}
  OBVIOUS
<1>4. Cost(S \intersect {r}) = 0
  BY <1>3, CostOfOne
<1> QED BY <1>1, <1>2, <1>4

------------------------------------------------------------------------------
(* What the available balance is made of *)

Existing == { r \in Request : status[r] # NoRequest }

IsCounted(r) == Active(ledger[r], "COMMIT") # {}

\* The requests of a key whose days the service subtracts.
Taken(k) ==
  { r \in Request : /\ KeyOf[r] = k
                    /\ status[r] \in Holding \/ IsCounted(r) }

\* What the sums of the available balance rest on.
BooksOK ==
  /\ SagaInv
  /\ HoldMatchesStatus
  /\ OneActiveEntry
  /\ \A r \in Request : CommitOK(r)
  /\ FiniteDays(Existing)

\* The requests that have an active entry of one phase.
Having(k, p) == { r \in Request : KeyOf[r] = k /\ Active(ledger[r], p) # {} }

\* With one entry for each request, the sum over entries is the cost of the
\* requests.
LEMMA EntriesAreRequests ==
  ASSUME ledger \in [Request -> Seq(LedgerEntry)], OneActiveEntry, NEW k, NEW p,
         FiniteDays(Having(k, p))
  PROVE  Total(ActiveEntries(k, p)) = Cost(Having(k, p))
<1> DEFINE S == Having(k, p)
           A == DayUnits(Asked(S))
           B == UnitsOf(ledger, k, p)
           entry == [ r \in S |-> CHOOSE i \in Active(ledger[r], p) : TRUE ]
           f == [ u \in A |-> << << u[1], entry[u[1]] >>, u[2] >> ]
<1>1. \A r \in S : /\ r \in Request /\ KeyOf[r] = k /\ entry[r] \in Active(ledger[r], p)
                   /\ entry[r] \in Nat
                   /\ \A i \in Active(ledger[r], p) : i = entry[r]
  <2> SUFFICES ASSUME NEW r \in S
               PROVE  /\ r \in Request /\ KeyOf[r] = k /\ entry[r] \in Active(ledger[r], p)
                      /\ entry[r] \in Nat
                      /\ \A i \in Active(ledger[r], p) : i = entry[r]
    OBVIOUS
  <2>1. r \in Request /\ KeyOf[r] = k /\ Active(ledger[r], p) # {}
    BY DEF Having
  <2>2. entry[r] \in Active(ledger[r], p)
    BY <2>1
  <2>3. \A i \in Active(ledger[r], p) : i \in Nat /\ i = entry[r]
    <3> HIDE DEF entry
    <3> QED BY <2>1, <2>2 DEF Active, OneActiveEntry
  <2> QED BY <2>1, <2>2, <2>3
<1>2. \A u : u \in A <=> \E r \in S : \E n \in 1 .. Days[r] : u = << r, n >>
  BY AskedUnits
<1>3. \A r \in S : Days[r] \in Nat
  BY <1>1, RequestAssumption
<1> HIDE DEF S, A, entry
<1>4. ASSUME NEW u \in A PROVE f[u] \in B
  <2>0. PICK r \in S : \E n \in 1 .. Days[r] : u = << r, n >>
    BY <1>2
  <2>1. PICK n \in 1 .. Days[r] : u = << r, n >>
    BY <2>0
  <2>2. f[u] = << << r, entry[r] >>, n >>
    BY <2>1
  <2>3. n \in Nat
    BY <1>3, <2>1
  <2> HIDE DEF f
  <2> QED BY <1>1, <2>2, <2>3 DEF UnitsOf
<1>5. ASSUME NEW w \in B PROVE \E u \in A : f[u] = w
  <2>1. PICK r \in Request, i \in Nat, n \in Nat :
          /\ w = << << r, i >>, n >> /\ KeyOf[r] = k
          /\ i \in Active(ledger[r], p) /\ n \in 1 .. Days[r]
    BY DEF UnitsOf
  <2>2. r \in S
    BY <2>1 DEF S, Having
  <2>3. << r, n >> \in A /\ i = entry[r]
    BY <1>1, <1>2, <2>1, <2>2
  <2>4. f[<< r, n >>] = w
    BY <2>1, <2>3
  <2> QED BY <2>3, <2>4
<1>6. \A u, v \in A : f[u] = f[v] => u = v
  BY <1>2
<1>7. f \in Bijection(A, B)
  <2>1. f \in [A -> B]
    BY <1>4
  <2>2. f \in Injection(A, B)
    BY <1>6, <2>1 DEF Injection, IsInjective
  <2>3. f \in Surjection(A, B)
    BY <1>5, <2>1 DEF Surjection
  <2> QED BY <2>2, <2>3 DEF Bijection
<1>8. Cardinality(B) = Cardinality(A)
  BY <1>7, FS_Bijection DEF FiniteDays, S, A, ExistsBijection
<1> QED BY <1>8, UnitsAre DEF Total, Cost, A, S

SumsOK ==
  \A k \in Key :
    /\ FiniteDays(Taken(k)) /\ Cost(Taken(k)) \in Nat
    /\ balance[k].hcmBalance \in Int
    /\ Available(k) = balance[k].hcmBalance - Cost(Taken(k))

\* The available balance is the snapshot less the days of the taken requests.
LEMMA AvailableIs == BooksOK => SumsOK
<1> SUFFICES ASSUME BooksOK, NEW k \in Key
             PROVE  /\ FiniteDays(Taken(k)) /\ Cost(Taken(k)) \in Nat
                    /\ balance[k].hcmBalance \in Int
                    /\ Available(k) = balance[k].hcmBalance - Cost(Taken(k))
  BY DEF SumsOK
<1> DEFINE H == Having(k, "RESERVE")
           C == Having(k, "COMMIT")
<1>0. /\ ledger \in [Request -> Seq(LedgerEntry)] /\ balance[k].hcmBalance \in Int
      /\ OneActiveEntry /\ FiniteDays(Existing)
  BY DEF BooksOK, SagaInv, TypeOK, DatabaseTypeOK
<1>1. H \union C = Taken(k)
  BY DEF BooksOK, HoldMatchesStatus, Having, Taken, Holding, IsCounted
<1>2. H \intersect C = {}
  BY DEF BooksOK, OneActiveEntry, Having, Active
<1>3. Taken(k) \subseteq Existing
  <2> SUFFICES ASSUME NEW r \in Taken(k) PROVE status[r] # NoRequest
    BY DEF Existing, Taken
  <2>1. CASE status[r] \in Holding
    BY <2>1 DEF Holding, NoRequest
  <2>2. CASE IsCounted(r)
    <3>1. PICK i : IsCommit(r, i)
      BY <2>2 DEF IsCounted, Active, IsCommit
    <3>2. r \in Request /\ Sent(r, "DEBIT")
      BY <3>1 DEF BooksOK, CommitOK, IsCommit, Taken
    <3> QED BY <3>2 DEF BooksOK, SagaInv, RequestOK
  <2> QED BY <2>1, <2>2 DEF Taken
<1>4. /\ FiniteDays(Taken(k)) /\ FiniteDays(H) /\ FiniteDays(C)
      /\ Cost(Taken(k)) \in Nat /\ Cost(H) \in Nat /\ Cost(C) \in Nat
  BY <1>0, <1>1, <1>3, CostGrows
<1>5. Total(ActiveEntries(k, "RESERVE")) = Cost(H) /\ Total(ActiveEntries(k, "COMMIT")) = Cost(C)
  BY <1>0, <1>4, EntriesAreRequests
<1> HIDE DEF H, C
<1>6. Cost(Taken(k)) = Cost(H) + Cost(C)
  <2>1. Cost(H \intersect C) = 0
    BY <1>2, CostOfOne
  <2>2. Cost(H \union C) = Cost(H) + Cost(C) - Cost(H \intersect C)
    BY <1>4, CostAdds
  <2>3. Cost(H) + Cost(C) - 0 = Cost(H) + Cost(C)
    BY <1>4
  <2> QED BY <1>1, <2>1, <2>2, <2>3
<1>7. Available(k) = balance[k].hcmBalance - Cost(H) - Cost(C)
  BY <1>5 DEF Available, ComputeAvailable, ComputeComponents
<1> QED BY <1>0, <1>4, <1>6, <1>7

\* And so it is after a step.
LEMMA AvailableNext ==
  ASSUME BooksOK', NEW k \in Key
  PROVE  /\ Cost(Taken(k)') \in Nat /\ balance'[k].hcmBalance \in Int
         /\ Available(k)' = balance'[k].hcmBalance - Cost(Taken(k)')
<1>1. SumsOK'
  BY AvailableIs, PTL
<1> QED BY <1>1 DEF SumsOK, Cost, Total, Asked

------------------------------------------------------------------------------
(* Who moves a request, and what it has open *)

\* A status is changed by its own endpoints and by the outcome of its messages.
LEMMA WhoMoves ==
  ASSUME SagaInv, [Next]_vars, NEW r \in Request, status'[r] # status[r]
  PROVE  \/ Lifecycle(r)
         \/ \E i \in DOMAIN outbox : /\ ApplySuccess(i) \/ ApplyRejection(i)
                                     /\ outbox[i].request = r
<1>0. status \in [Request -> RequestStatus \union {NoRequest}]
  BY DEF SagaInv, TypeOK, DatabaseTypeOK
<1>1. \/ \E q \in Request : Lifecycle(q)
      \/ \E i \in DOMAIN outbox : ApplySuccess(i) \/ ApplyRejection(i)
  BY DEF Next, vars, dbVars, HcmMoves, SnapshotArrives, EnsureBalanceLoaded, ReconcileKey,
         ClaimDue, Deliver, CallHcm, CallRefused, CallTimesOut, LoseReply,
         ApplyTransientFailure, HcmHandlesLate, DrainStops
<1>2. ASSUME NEW q \in Request, Lifecycle(q) PROVE q = r
  <2>1. PICK s : status' = [status EXCEPT ![q] = s]
    BY <1>2 DEF Lifecycle, Create, Submit, Approve, Reject, Cancel
  <2> QED BY <1>0, <2>1
<1>3. ASSUME NEW i \in DOMAIN outbox, ApplySuccess(i) \/ ApplyRejection(i)
      PROVE  outbox[i].request = r
  <2>1. PICK s : status' = [status EXCEPT ![outbox[i].request] = s] \/ status' = status
    BY <1>3 DEF ApplySuccess, ApplyDebitSuccess, ApplyCreditSuccess, ApplyRejection
  <2> QED BY <1>0, <2>1
<1> QED BY <1>1, <1>2, <1>3

\* The endpoints move a request from where they accept it, and never to an
\* outcome of HCM's.
LEMMA LifecycleMoves ==
  ASSUME SagaInv, NEW r \in Request, Lifecycle(r)
  PROVE  /\ \A q \in Request \ {r} : status'[q] = status[q]
         /\ \/ Create(r) /\ Becomes(r, NoRequest, "DRAFT")
            \/ Submit(r) /\ Becomes(r, "DRAFT", "PENDING_APPROVAL")
            \/ Approve(r) /\ Becomes(r, "PENDING_APPROVAL", "APPROVED")
            \/ Reject(r) /\ Becomes(r, "PENDING_APPROVAL", "REJECTED")
            \/ CancelCommitted(r) /\ Becomes(r, "COMMITTED", "CANCELLATION_PENDING")
            \/ /\ CancelBeforeCommit(r)
               /\ status[r] \in {"DRAFT", "PENDING_APPROVAL", "APPROVED"}
               /\ status'[r] = "CANCELLED"
<1>0. status \in [Request -> RequestStatus \union {NoRequest}]
  BY DEF SagaInv, TypeOK, DatabaseTypeOK
<1>1. \A q \in Request \ {r} : status'[q] = status[q]
  BY <1>0 DEF Lifecycle, Create, Submit, Approve, Reject, Cancel
<1>2. CASE Create(r)
  BY <1>0, <1>1, <1>2 DEF Create, Becomes
<1>3. CASE Submit(r)
  BY <1>0, <1>1, <1>3, SubmitTransition DEF Submit, Becomes
<1>4. CASE Approve(r)
  BY <1>0, <1>1, <1>4, ApproveTransition DEF Approve, Becomes
<1>5. CASE Reject(r)
  BY <1>0, <1>1, <1>5, RejectTransition DEF Reject, Becomes
<1>6. CASE Cancel(r)
  <2>1. CanTransition(status[r], "CANCEL") /\ status'[r] = NextState(status[r], "CANCEL")
    BY <1>0, <1>6 DEF Cancel
  <2>2. CASE CancelCommitted(r)
    BY <1>1, <2>1, <2>2, CancelTransition DEF CancelCommitted, Becomes
  <2>3. CASE CancelBeforeCommit(r)
    BY <1>1, <2>1, <2>3, CancelTransition DEF CancelBeforeCommit
  <2> QED BY <1>6, <2>2, <2>3 DEF Cancel
<1> QED BY <1>2, <1>3, <1>4, <1>5, <1>6 DEF Lifecycle

\* Only submit puts a request up for approval.
LEMMA OnlySubmit ==
  ASSUME SagaInv, [Next]_vars, NEW r \in Request, Becomes(r, "DRAFT", "PENDING_APPROVAL")
  PROVE  Submit(r)
<1>0. status \in [Request -> RequestStatus \union {NoRequest}]
  BY DEF SagaInv, TypeOK, DatabaseTypeOK
<1>1. ASSUME NEW i \in DOMAIN outbox, ApplySuccess(i) \/ ApplyRejection(i),
             outbox[i].request = r
      PROVE  FALSE
  BY <1>0, <1>1, OutcomeTransitions
     DEF Becomes, ApplySuccess, ApplyDebitSuccess, ApplyCreditSuccess, ApplyRejection
<1> QED BY <1>1, WhoMoves, LifecycleMoves DEF Becomes, NoRequest

\* A message of the request is still to be settled.
Open(r, t) == \E i \in Messages(r, t) : ~SettledAt(i)

\* A debit is open while it may still commit its request or is being
\* delivered although the request was cancelled; a credit, while it is awaited.
OpenOK(r) ==
  /\ Open(r, "DEBIT") => status[r] \in {"APPROVED", "CANCELLED"}
  /\ Open(r, "CREDIT") => status[r] = "CANCELLATION_PENDING"

\* A direction that sends nothing new opens nothing.
LEMMA OpenKept ==
  ASSUME OutboxForward, NoDuplicates', NEW r \in Request, NEW t,
         Sent(r, t)' = Sent(r, t), Open(r, t)'
  PROVE  Open(r, t)
<1>1. PICK i \in Messages(r, t)' : ~SettledAt(i)'
  BY DEF Open
<1>2. PICK n : n \in Messages(r, t)
  BY <1>1 DEF Sent
<1>3. SUFFICES ASSUME SettledAt(n) PROVE FALSE
  BY <1>2 DEF Open
<1>4. n \in DOMAIN outbox' /\ outbox'[n] = outbox[n]
  BY <1>2, <1>3 DEF OutboxForward, Messages
<1>5. n = i
  BY <1>1, <1>2, <1>4 DEF NoDuplicates, Messages, Alike
<1> QED BY <1>1, <1>3, <1>4, <1>5 DEF SettledAt

\* The outcome of a delivery leaves its direction closed.
LEMMA OutcomeCloses ==
  ASSUME SagaInv, BatchInFlight, NoDuplicates', NEW i \in DOMAIN outbox,
         ApplySuccess(i) \/ ApplyRejection(i),
         NEW r, NEW t, outbox[i].request = r, outbox[i].type = t
  PROVE  /\ r \in Request /\ t \in OutboxType
         /\ Open(r, t) /\ ~Open(r, t)'
         /\ \A q \in Request : SentKept(q)
<1>0. /\ TypeOK /\ outbox \in Seq(OutboxMessage) /\ outbox[i] \in OutboxMessage
      /\ outbox[i].status = "INFLIGHT"
  BY DEF SagaInv, TypeOK, DatabaseTypeOK, ApplySuccess, ApplyRejection, IsCurrent,
         BatchInFlight
<1>1. outbox' = MarkDone(outbox, i) \/ outbox' = MarkRejected(outbox, i)
  BY DEF ApplySuccess, ApplyRejection
<1>2. SameCommands(outbox, outbox')
  BY <1>0, <1>1, OutcomeType
<1>3. SettledAt(i)' /\ i \in Messages(r, t)'
  BY <1>0, <1>1, <1>2
     DEF SettledAt, MarkDone, MarkRejected, OutboxMessage, SameCommands, Alike, Messages
<1>4. ~Open(r, t)'
  <2>1. \A n \in Messages(r, t)' : n = i
    BY <1>3 DEF NoDuplicates, Messages, Alike
  <2> QED BY <1>3, <2>1 DEF Open
<1>5. Open(r, t)
  BY <1>0 DEF Open, Messages, SettledAt
<1>6. \A q \in Request : SentKept(q)
  BY <1>0, <1>2, SameCommandsSent
<1> QED BY <1>0, <1>4, <1>5, <1>6 DEF OutboxMessage

\* No step leaves a message open that its request has no use for.
LEMMA OpenStays ==
  ASSUME SagaInv, BatchInFlight, OutboxForward, NoDuplicates', [Next]_vars,
         NEW r \in Request, OpenOK(r)
  PROVE  OpenOK(r)'
<1>0. RequestOK(r) /\ OutboxType = {"DEBIT", "CREDIT"}
  BY DEF SagaInv, OutboxType
<1>1. \A t : Open(r, t) => Sent(r, t)
  BY DEF Open, Sent
<1>2. CASE status'[r] = status[r]
  <2>1. SentKept(r)
    <3>1. CASE Next
      BY <1>2, <3>1, NextEffect DEF StepOK, Effect, Moves, Becomes, NoRequest
    <3>2. CASE UNCHANGED vars
      BY <3>2 DEF vars, dbVars, SentKept, Sent, Messages
    <3> QED BY <3>1, <3>2
  <2>2. \A t \in OutboxType : Open(r, t)' => Open(r, t)
    BY <2>1, OpenKept DEF SentKept
  <2> QED BY <1>0, <1>2, <2>2 DEF OpenOK
<1>3. CASE status'[r] # status[r] /\ Lifecycle(r)
  <2>1. SentKept(r) \/ Moves(r)
    BY <1>3, LifecycleEffect DEF StepOK, Effect
  <2>2. \/ SentKept(r)
        \/ Becomes(r, "PENDING_APPROVAL", "APPROVED") /\ Sends(r, "DEBIT")
        \/ Becomes(r, "COMMITTED", "CANCELLATION_PENDING") /\ Sends(r, "CREDIT")
    BY <2>1 DEF Moves
  <2>3. CASE SentKept(r)
    <3>1. \A t \in OutboxType : Open(r, t)' => Open(r, t)
      BY <2>3, OpenKept DEF SentKept
    <3>2. Open(r, "DEBIT")' => status[r] = "APPROVED" /\ status'[r] = "CANCELLED"
      BY <1>0, <1>3, <3>1, LifecycleMoves DEF OpenOK, Becomes, NoRequest
    <3>3. ~Open(r, "CREDIT")'
      BY <1>0, <1>3, <3>1, LifecycleMoves DEF OpenOK, Becomes, NoRequest
    <3> QED BY <3>2, <3>3 DEF OpenOK
  <2>4. CASE Becomes(r, "PENDING_APPROVAL", "APPROVED") /\ Sends(r, "DEBIT")
    <3>1. ~Sent(r, "CREDIT") /\ Sent(r, "CREDIT")' = Sent(r, "CREDIT")
      BY <1>0, <2>4 DEF RequestOK, Becomes, Sends
    <3>2. ~Open(r, "CREDIT")'
      BY <1>1, <3>1, OpenKept
    <3> QED BY <2>4, <3>2 DEF OpenOK, Becomes
  <2>5. CASE Becomes(r, "COMMITTED", "CANCELLATION_PENDING") /\ Sends(r, "CREDIT")
    <3>1. ~Open(r, "DEBIT") /\ Sent(r, "DEBIT")' = Sent(r, "DEBIT")
      BY <1>0, <2>5 DEF OpenOK, Becomes, Sends
    <3>2. ~Open(r, "DEBIT")'
      BY <3>1, OpenKept
    <3> QED BY <2>5, <3>2 DEF OpenOK, Becomes
  <2> QED BY <2>2, <2>3, <2>4, <2>5
<1>4. ASSUME status'[r] # status[r],
             NEW i \in DOMAIN outbox, ApplySuccess(i) \/ ApplyRejection(i),
             outbox[i].request = r
      PROVE  OpenOK(r)'
  <2>1. PICK t : outbox[i].type = t
    OBVIOUS
  <2>2. t \in OutboxType /\ ~Open(r, t)' /\ Open(r, t) /\ SentKept(r)
    BY <1>4, <2>1, OutcomeCloses
  <2>3. \A u \in OutboxType : Open(r, u)' => Open(r, u)
    BY <2>2, OpenKept DEF SentKept
  <2>4. ~(Open(r, "DEBIT") /\ Open(r, "CREDIT"))
    BY DEF OpenOK
  <2>5. ~Open(r, "DEBIT")' /\ ~Open(r, "CREDIT")'
    BY <1>0, <2>2, <2>3, <2>4
  <2> QED BY <2>5 DEF OpenOK
<1> QED BY <1>2, <1>3, <1>4, WhoMoves

\* The open messages of a request always fit its status.
LEMMA OpenAlways == Spec => [](\A r \in Request : OpenOK(r))
<1> DEFINE Inv == \A r \in Request : OpenOK(r)
<1>1. Init => Inv
  <2>1. Init => \A r, t : Messages(r, t) = {}
    BY DEF Init, DatabaseInit, Messages
  <2> QED BY <2>1 DEF OpenOK, Open
<1>2. SagaInv /\ SagaInv' /\ BatchInFlight /\ Inv /\ [Next]_vars => Inv'
  <2> SUFFICES ASSUME SagaInv, SagaInv', BatchInFlight, Inv, [Next]_vars
               PROVE  Inv'
    OBVIOUS
  <2>1. TypeOK /\ NoDuplicates'
    BY DEF SagaInv
  <2>2. OutboxForward
    BY <2>1, NextOutbox DEF vars, dbVars, processorVars, OutboxForward, BatchInFlight
  <2> QED BY <2>1, <2>2, OpenStays
<1> QED BY <1>1, <1>2, SagaInvariant, BatchStaysInFlight, PTL DEF Spec

------------------------------------------------------------------------------
(* What the books rest on *)

\* A request whose days are taken, or whose debit was sent, draws on a key the
\* service has a snapshot of: submit checks it, and no snapshot is deleted.
LoadedOK(r) ==
  status[r] \in Holding \/ Sent(r, "DEBIT") => HasBalance(KeyOf[r])

\* No step takes the snapshot of a key away.
LEMMA BalanceKept ==
  ASSUME TypeOK, [Next]_vars, NEW k \in Key, HasBalance(k)
  PROVE  HasBalance(k)'
<1>0. balance \in [Key -> [hcmBalance : Int, lastReconciledVersion : Nat]]
  BY DEF TypeOK, DatabaseTypeOK
<1>1. CASE UNCHANGED balance
  BY <1>1 DEF HasBalance
<1>2. CASE \E q \in Key : \E v \in DOMAIN hcm[q] :
             /\ v > Watermark(q)
             /\ balance' = [balance EXCEPT ![q] =
                  [hcmBalance |-> hcm[q][v], lastReconciledVersion |-> v]]
  <2>1. PICK q \in Key : \E v \in DOMAIN hcm[q] :
             /\ v > Watermark(q)
             /\ balance' = [balance EXCEPT ![q] =
                  [hcmBalance |-> hcm[q][v], lastReconciledVersion |-> v]]
    BY <1>2
  <2>2. PICK v \in DOMAIN hcm[q] :
             /\ v > Watermark(q)
             /\ balance' = [balance EXCEPT ![q] =
                  [hcmBalance |-> hcm[q][v], lastReconciledVersion |-> v]]
    BY <2>1
  <2>3. v \in Nat /\ v # 0
    BY DEF TypeOK, HcmTypeOK
  <2>4. [hcmBalance |-> hcm[q][v], lastReconciledVersion |-> v] # NoBalance
    BY <2>3 DEF NoBalance
  <2> QED BY <1>0, <2>2, <2>4 DEF HasBalance
<1> QED BY <1>1, <1>2, NextMovesSnapshotOrHistory

SupportOK ==
  /\ \A r \in Request : OpenOK(r)
  /\ \A r \in Request : LoadedOK(r)

\* A step makes one request exist at most.
LEMMA ExistingStays ==
  ASSUME SagaInv, [Next]_vars, FiniteDays(Existing)
  PROVE  FiniteDays(Existing)'
<1>1. \E S : Existing' \subseteq Existing \union S /\ FiniteDays(S)
  <2>1. CASE \A q \in Request : status'[q] = status[q]
    BY <2>1, CostOfOne DEF Existing
  <2>2. ASSUME NEW r \in Request, \A q \in Request \ {r} : status'[q] = status[q]
        PROVE  Existing' \subseteq Existing \union {r} /\ FiniteDays({r})
    BY <2>2, CostOfOne DEF Existing
  <2>3. \/ \A q \in Request : status'[q] = status[q]
        \/ \E r \in Request : \A q \in Request \ {r} : status'[q] = status[q]
    <3>1. CASE Next
      BY <3>1, NextEffect DEF StepOK, Effect
    <3>2. CASE UNCHANGED vars
      BY <3>2 DEF vars, dbVars
    <3> QED BY <3>1, <3>2
  <2> QED BY <2>1, <2>2, <2>3
<1>2. PICK S : Existing' \subseteq Existing \union S /\ FiniteDays(S)
  BY <1>1
<1>3. FiniteDays(Existing \union S)
  BY <1>2, CostAdds
<1>4. PICK E : E = Existing'
  OBVIOUS
<1>5. FiniteDays(E)
  BY <1>2, <1>3, <1>4, CostGrows
<1> QED BY <1>4, <1>5 DEF FiniteDays

\* A request comes to count against a key when it is submitted.
LEMMA LoadedStays ==
  ASSUME SagaInv, [Next]_vars, NEW r \in Request, LoadedOK(r)
  PROVE  LoadedOK(r)'
<1>0. TypeOK /\ KeyOf[r] \in Key
  BY RequestAssumption DEF SagaInv
<1>1. HasBalance(KeyOf[r]) => HasBalance(KeyOf[r])'
  BY <1>0, BalanceKept
<1>2. CASE HasBalance(KeyOf[r])
  BY <1>1, <1>2 DEF LoadedOK, HasBalance
<1>3. CASE ~HasBalance(KeyOf[r])
  <2>1. status[r] \notin Holding /\ ~Sent(r, "DEBIT")
    BY <1>3 DEF LoadedOK
  <2>2. status[r] \notin Committed
    BY <2>1 DEF SagaInv, RequestOK, Committed
  <2>3. \/ status'[r] = status[r] /\ SentKept(r)
        \/ Moves(r)
    <3>1. CASE Next
      BY <3>1, NextEffect DEF StepOK, Effect
    <3>2. CASE UNCHANGED vars
      BY <3>2 DEF vars, dbVars, SentKept, Sent, Messages
    <3> QED BY <3>1, <3>2
  <2>4. ~Becomes(r, "DRAFT", "PENDING_APPROVAL")
    BY <1>3, OnlySubmit DEF Submit
  <2>5. status'[r] \notin Holding /\ ~Sent(r, "DEBIT")'
    BY <2>1, <2>2, <2>3, <2>4
       DEF Moves, Becomes, Holding, Committed, SentKept, OutboxType, NoRequest
  <2> QED BY <2>5 DEF LoadedOK
<1> QED BY <1>2, <1>3

\* The books are always in order.
LEMMA SupportAlways == Spec => [](BooksOK /\ SupportOK)
<1>1. Init => FiniteDays(Existing)
  <2>1. Init => Existing = {}
    BY DEF Init, DatabaseInit, Existing
  <2> QED BY <2>1, CostOfOne
<1>2. Init => \A r \in Request : LoadedOK(r)
  <2>1. Init => \A r \in Request : Messages(r, "DEBIT") = {} /\ status[r] \notin Holding
    <3>1. Init => \A r, t : Messages(r, t) = {}
      BY DEF Init, DatabaseInit, Messages
    <3>2. Init => \A r \in Request : status[r] \notin Holding
      BY DEF Init, DatabaseInit, Holding, NoRequest
    <3> QED BY <3>1, <3>2
  <2> QED BY <2>1 DEF LoadedOK, Sent
<1> DEFINE Inv == FiniteDays(Existing) /\ \A r \in Request : LoadedOK(r)
<1>3. Init => Inv
  BY <1>1, <1>2
<1>4. SagaInv /\ Inv /\ [Next]_vars => Inv'
  BY ExistingStays, LoadedStays
<1>5. /\ SagaInv /\ HoldMatchesStatus /\ OneActiveEntry /\ Inv
      /\ (\A q \in Request : CommitOK(q)) /\ (\A r \in Request : OpenOK(r))
      => BooksOK /\ SupportOK
  BY DEF BooksOK, SupportOK
<1> QED BY <1>3, <1>4, <1>5, SagaInvariant, HoldsAreExact, DaysCountOnce, CommitsAreOK,
           OpenAlways, PTL DEF Spec

------------------------------------------------------------------------------
(* What takes days, and what gives them back *)

\* Of the entries a mutation writes, what counts as a commit.
LEMMA CommitsActive ==
  ASSUME NEW e \in Seq(LedgerEntry)
  PROVE  /\ Active(Append(e, HoldEntry), "COMMIT") = Active(e, "COMMIT")
         /\ Active(Release(e, "RESERVE"), "COMMIT") = Active(e, "COMMIT")
         /\ Active(Release(e, "COMMIT"), "COMMIT") = {}
         /\ \A v : Active(Append(Release(e, "RESERVE"), CommitEntry(v)), "COMMIT") # {}
<1>1. Active(Append(e, HoldEntry), "COMMIT") = Active(e, "COMMIT")
  BY DEF Active, HoldEntry
<1>2. Active(Release(e, "RESERVE"), "COMMIT") = Active(e, "COMMIT")
  <2>1. /\ DOMAIN Release(e, "RESERVE") = DOMAIN e
        /\ \A i \in DOMAIN e :
             IF i \in Active(e, "RESERVE")
             THEN e[i].phase = "RESERVE" /\ Release(e, "RESERVE")[i].phase = e[i].phase
             ELSE Release(e, "RESERVE")[i] = e[i]
    <3>1. \A i \in DOMAIN e : e[i] \in LedgerEntry
      OBVIOUS
    <3> QED BY <3>1 DEF Release, LedgerEntry, Active
  <2> QED BY <2>1 DEF Active
<1>3. Active(Release(e, "COMMIT"), "COMMIT") = {}
  BY ReleaseActive
<1>4. ASSUME NEW v
      PROVE  Active(Append(Release(e, "RESERVE"), CommitEntry(v)), "COMMIT") # {}
  <2>1. Release(e, "RESERVE") \in Seq(LedgerEntry)
    BY ReleaseType
  <2> DEFINE f == Release(e, "RESERVE")
  <2> HIDE DEF f
  <2>2. Len(f) + 1 \in Active(Append(f, CommitEntry(v)), "COMMIT")
    BY <2>1 DEF Active, CommitEntry, f
  <2> QED BY <2>2 DEF f
<1> QED BY <1>1, <1>2, <1>3, <1>4

\* A commit that counts is written by the delivery of its debit.
LEMMA WhoCounts ==
  ASSUME SagaInv, BatchInFlight, [Next]_vars, NEW q \in Request,
         IsCounted(q)', ~IsCounted(q)
  PROVE  Open(q, "DEBIT")
<1>0. ledger[q] \in Seq(LedgerEntry) /\ EntriesStep(q) /\ batch \subseteq DOMAIN outbox
  BY NextEntries DEF SagaInv, TypeOK, DatabaseTypeOK, ProcessorTypeOK
<1>1. ASSUME Reconciles(q) PROVE FALSE
  BY <1>1 DEF Reconciles, IsCounted, Active
<1>2. Commits(q)
  BY <1>0, <1>1, CommitsActive DEF EntriesStep, IsCounted
<1>3. PICK i \in batch : IsCurrent(i) /\ CommandOf(i) = Debit(q)
  BY <1>2 DEF Commits
<1> QED BY <1>0, <1>3 DEF Open, Messages, SettledAt, BatchInFlight, CommandOf, Debit

\* It stops counting by the delivery of its credit, or by a snapshot of its key.
LEMMA WhoUncounts ==
  ASSUME SagaInv, BatchInFlight, [Next]_vars, NEW q \in Request,
         IsCounted(q), ~IsCounted(q)'
  PROVE  Open(q, "CREDIT") \/ balance'[KeyOf[q]] # balance[KeyOf[q]]
<1>0. /\ TypeOK /\ ledger \in [Request -> Seq(LedgerEntry)]
      /\ batch \subseteq DOMAIN outbox /\ KeyOf[q] \in Key
      /\ \A i \in DOMAIN outbox : outbox[i] \in OutboxMessage
  BY RequestAssumption DEF SagaInv, TypeOK, DatabaseTypeOK, ProcessorTypeOK
<1>1. \/ UNCHANGED ledger
      \/ \E r \in Request : Lifecycle(r)
      \/ \E k \in Key : SnapshotArrives(k)
      \/ \E i \in DOMAIN outbox : ApplySuccess(i) \/ ApplyRejection(i)
  BY DEF Next, vars, dbVars, Deliver, HcmMoves, ClaimDue, CallHcm, CallRefused,
         CallTimesOut, LoseReply, HcmHandlesLate, DrainStops, ApplyTransientFailure
<1>2. ASSUME NEW e, e = ledger'[q],
             \/ e = ledger[q] \/ e = Append(ledger[q], HoldEntry)
             \/ e = Release(ledger[q], "RESERVE")
             \/ \E v : e = Append(Release(ledger[q], "RESERVE"), CommitEntry(v))
      PROVE  FALSE
  <2>1. Active(ledger[q], "COMMIT") # {} /\ Active(e, "COMMIT") = {}
    BY <1>2 DEF IsCounted
  <2>2. ledger[q] \in Seq(LedgerEntry)
    BY <1>0
  <2>3. /\ Active(Append(ledger[q], HoldEntry), "COMMIT") = Active(ledger[q], "COMMIT")
        /\ Active(Release(ledger[q], "RESERVE"), "COMMIT") = Active(ledger[q], "COMMIT")
        /\ \A v : Active(Append(Release(ledger[q], "RESERVE"), CommitEntry(v)), "COMMIT") # {}
    BY <2>2, CommitsActive
  <2> QED BY <1>2, <2>1, <2>3, Zenon
<1>3. CASE UNCHANGED ledger
  BY <1>2, <1>3
<1>4. ASSUME NEW r \in Request, Lifecycle(r) PROVE FALSE
  BY <1>0, <1>2, <1>4
     DEF Lifecycle, Create, Submit, Approve, Reject, Cancel, CancelCommitted,
         CancelBeforeCommit, AddReservation, ReleaseReservation, HoldEntry
<1>5. ASSUME NEW k \in Key, SnapshotArrives(k)
      PROVE  balance'[KeyOf[q]] # balance[KeyOf[q]]
  <2>1. PICK v \in DOMAIN hcm[k] :
          EnsureBalanceLoaded(k, RowAt(k, v)) \/ ReconcileKey(k, RowAt(k, v))
    BY <1>5 DEF SnapshotArrives
  <2>2. ReconcileKey(k, RowAt(k, v))
    BY <1>2, <2>1 DEF EnsureBalanceLoaded
  <2>3. /\ v > balance[k].lastReconciledVersion
        /\ balance' = [balance EXCEPT ![k] =
             [hcmBalance |-> hcm[k][v], lastReconciledVersion |-> v]]
    BY <1>0, <2>2, ReconcileEffect DEF TypeOK
  <2>4. PICK ids : /\ ledger' = MarkReconciled(ledger, ids)
                   /\ \A r \in Request : \A i \in DOMAIN ledger[r] :
                        << r, i >> \in ids => KeyOf[r] = k
    BY <1>0, <2>2, ReconcileEffect DEF TypeOK
  <2>5. KeyOf[q] = k
    <3>1. SUFFICES ASSUME KeyOf[q] # k PROVE ledger'[q] = ledger[q]
      BY <1>2
    <3>2. ledger'[q] = [ i \in DOMAIN ledger[q] |-> ledger[q][i] ]
      BY <2>4, <3>1 DEF MarkReconciled
    <3> QED BY <1>0, <3>2
  <2>6. balance \in [Key -> [hcmBalance : Int, lastReconciledVersion : Nat]]
    BY <1>0 DEF TypeOK, DatabaseTypeOK
  <2> QED BY <2>3, <2>5, <2>6
<1>6. ASSUME NEW i \in DOMAIN outbox, ApplySuccess(i) \/ ApplyRejection(i)
      PROVE  Open(q, "CREDIT")
  <2> DEFINE r == outbox[i].request
  <2>0. r \in Request
    BY <1>0 DEF OutboxMessage
  <2> HIDE DEF r
  <2>1. ~ApplyRejection(i)
    BY <1>0, <1>2, <2>0 DEF ApplyRejection, ReleaseReservation, r
  <2>2. ~(ApplySuccess(i) /\ ApplyDebitSuccess(i))
    BY <1>0, <1>2, <2>0 DEF ApplyDebitSuccess, CommitReservation, CommitEntry, r
  <2>3. ApplySuccess(i) /\ outbox[i].type = "CREDIT" /\ ledger' = ReleaseCommit(ledger, r)
    BY <1>6, <2>1, <2>2 DEF ApplySuccess, ApplyCreditSuccess, r
  <2>4. r = q
    BY <1>0, <1>2, <2>0, <2>3 DEF ReleaseCommit
  <2>5. outbox[i].status = "INFLIGHT"
    BY <2>3 DEF ApplySuccess, IsCurrent, BatchInFlight
  <2> QED BY <2>3, <2>4, <2>5 DEF Open, Messages, SettledAt, r
<1> QED BY <1>1, <1>3, <1>4, <1>5, <1>6

------------------------------------------------------------------------------
(* A snapshot that arrives *)

EntryOf(r, i) ==
  [ id |-> << r, i >>, amount |-> Days[r], hcmVersion |-> ledger[r][i].hcmVersion ]

\* Which request and position an entry of the sums is of.
IsActiveEntry(k, p, e) ==
  \E r \in Request : /\ KeyOf[r] = k
                     /\ \E i \in Active(ledger[r], p) : e = EntryOf(r, i)

EntriesDescribed ==
  \A k, p, e : e \in ActiveEntries(k, p) <=> IsActiveEntry(k, p, e)

\* The entries the sums count, one by one.
LEMMA EntriesAre == EntriesDescribed
<1>1. ASSUME NEW k, NEW p, NEW e \in ActiveEntries(k, p)
      PROVE  IsActiveEntry(k, p, e)
  <2>1. PICK r \in { q \in Request : KeyOf[q] = k } :
          e \in { [ id |-> << r, i >>, amount |-> Days[r],
                    hcmVersion |-> ledger[r][i].hcmVersion ] : i \in Active(ledger[r], p) }
    BY DEF ActiveEntries
  <2> QED BY <2>1 DEF EntryOf, IsActiveEntry
<1>2. ASSUME NEW k, NEW p, NEW e, IsActiveEntry(k, p, e)
      PROVE  e \in ActiveEntries(k, p)
  <2>1. PICK r \in Request : /\ KeyOf[r] = k
                             /\ \E i \in Active(ledger[r], p) : e = EntryOf(r, i)
    BY <1>2 DEF IsActiveEntry
  <2>2. e \in { [ id |-> << r, i >>, amount |-> Days[r],
                  hcmVersion |-> ledger[r][i].hcmVersion ] : i \in Active(ledger[r], p) }
    BY <2>1 DEF EntryOf
  <2>3. r \in { q \in Request : KeyOf[q] = k }
    BY <2>1
  <2> QED BY <2>2, <2>3 DEF ActiveEntries
<1> QED BY <1>1, <1>2 DEF EntriesDescribed

\* What a reconcile leaves ACTIVE of its key: every hold, and the commits that
\* the snapshot does not include.
LEMMA ReconcileLeaves ==
  ASSUME DatabaseTypeOK, HcmTypeOK, NEW k \in Key, NEW v \in DOMAIN hcm[k],
         ReconcileKey(k, RowAt(k, v))
  PROVE  LET in == ReconcileInput(k, RowAt(k, v))
         IN /\ ActiveEntries(k, "RESERVE")' = ActiveEntries(k, "RESERVE")
            /\ ActiveEntries(k, "COMMIT")' = ActiveEntries(k, "COMMIT") \ Matched(in)
            /\ events' = events \union Logged(k, Reconcile(in))
            /\ Reconcile(in).eventType = EventType(in)
            /\ Reconcile(in).newLastReconciledVersion = v
<1> DEFINE in == ReconcileInput(k, RowAt(k, v))
           ids == { e.id : e \in Matched(in) }
<1>0. ledger \in [Request -> Seq(LedgerEntry)]
  BY DEF DatabaseTypeOK
<1>1. /\ in.authoritativeVersion = v /\ in.committedEntries = ActiveEntries(k, "COMMIT")
      /\ Reconcile(in).applied /\ events' = events \union Logged(k, Reconcile(in))
      /\ ledger' = MarkReconciled(ledger, Reconcile(in).matchedCommitIds)
  BY DEF ReconcileKey, ReconcileInput, RowAt
<1> HIDE DEF in
<1>2. /\ Reconcile(in).matchedCommitIds = ids
      /\ Reconcile(in).eventType = EventType(in)
      /\ Reconcile(in).newLastReconciledVersion = v
  BY <1>1 DEF Reconcile
<1>3. \A r, i : << r, i >> \in ids <=>
        /\ r \in Request /\ KeyOf[r] = k /\ i \in Active(ledger[r], "COMMIT")
        /\ EntryOf(r, i) \in Matched(in)
  <2>1. ASSUME NEW r, NEW i, << r, i >> \in ids
        PROVE  /\ r \in Request /\ KeyOf[r] = k /\ i \in Active(ledger[r], "COMMIT")
               /\ EntryOf(r, i) \in Matched(in)
    <3>1. PICK e \in Matched(in) : e.id = << r, i >>
      BY <2>1
    <3>2. e \in ActiveEntries(k, "COMMIT")
      BY <1>1 DEF Matched
    <3>3. PICK q \in Request : /\ KeyOf[q] = k
                               /\ \E j \in Active(ledger[q], "COMMIT") : e = EntryOf(q, j)
      BY <3>2, EntriesAre DEF EntriesDescribed, IsActiveEntry
    <3>4. PICK j \in Active(ledger[q], "COMMIT") : e = EntryOf(q, j)
      BY <3>3
    <3>5. q = r /\ j = i
      BY <3>1, <3>4 DEF EntryOf
    <3> QED BY <3>1, <3>3, <3>4, <3>5
  <2>2. ASSUME NEW r, NEW i, EntryOf(r, i) \in Matched(in) PROVE << r, i >> \in ids
    <3>1. EntryOf(r, i).id = << r, i >>
      BY DEF EntryOf
    <3> QED BY <2>2, <3>1
  <2> QED BY <2>1, <2>2
<1> HIDE DEF ids
<1>4. \A r \in Request :
        /\ DOMAIN ledger'[r] = DOMAIN ledger[r]
        /\ \A i \in DOMAIN ledger[r] :
             IF << r, i >> \in ids
             THEN /\ ledger'[r][i].phase = ledger[r][i].phase
                  /\ ledger'[r][i].state = "RECONCILED"
             ELSE ledger'[r][i] = ledger[r][i]
  <2> SUFFICES ASSUME NEW r \in Request
               PROVE  /\ DOMAIN ledger'[r] = DOMAIN ledger[r]
                      /\ \A i \in DOMAIN ledger[r] :
                           IF << r, i >> \in ids
                           THEN /\ ledger'[r][i].phase = ledger[r][i].phase
                                /\ ledger'[r][i].state = "RECONCILED"
                           ELSE ledger'[r][i] = ledger[r][i]
    OBVIOUS
  <2>1. \A i \in DOMAIN ledger[r] : ledger[r][i] \in LedgerEntry
    BY <1>0
  <2>2. ledger'[r] = [ i \in DOMAIN ledger[r] |->
                         IF << r, i >> \in ids
                         THEN [ledger[r][i] EXCEPT !.state = "RECONCILED"]
                         ELSE ledger[r][i] ]
    BY <1>1, <1>2 DEF MarkReconciled
  <2> QED BY <2>1, <2>2 DEF LedgerEntry
<1>5. \A r \in Request :
        /\ Active(ledger[r], "RESERVE")' = Active(ledger[r], "RESERVE")
        /\ Active(ledger[r], "COMMIT")' =
             { i \in Active(ledger[r], "COMMIT") : << r, i >> \notin ids }
        /\ \A i \in Active(ledger[r], "COMMIT")' : EntryOf(r, i)' = EntryOf(r, i)
        /\ \A i \in Active(ledger[r], "RESERVE")' : EntryOf(r, i)' = EntryOf(r, i)
  <2> SUFFICES ASSUME NEW r \in Request
               PROVE  /\ Active(ledger'[r], "RESERVE") = Active(ledger[r], "RESERVE")
                      /\ Active(ledger'[r], "COMMIT") =
                           { i \in Active(ledger[r], "COMMIT") : << r, i >> \notin ids }
                      /\ \A i \in Active(ledger'[r], "COMMIT") : EntryOf(r, i)' = EntryOf(r, i)
                      /\ \A i \in Active(ledger'[r], "RESERVE") : EntryOf(r, i)' = EntryOf(r, i)
    OBVIOUS
  <2>1. \A i \in DOMAIN ledger[r] : << r, i >> \in ids => i \in Active(ledger[r], "COMMIT")
    BY <1>3
  <2>2. /\ Active(ledger'[r], "RESERVE") = Active(ledger[r], "RESERVE")
        /\ Active(ledger'[r], "COMMIT") =
             { i \in Active(ledger[r], "COMMIT") : << r, i >> \notin ids }
    BY <1>4, <2>1 DEF Active
  <2>3. \A p : \A i \in Active(ledger'[r], p) :
          i \in DOMAIN ledger[r] /\ (<< r, i >> \notin ids => EntryOf(r, i)' = EntryOf(r, i))
    BY <1>4 DEF Active, EntryOf
  <2>4. \A i \in Active(ledger'[r], "RESERVE") : << r, i >> \notin ids
    BY <2>1, <2>2 DEF Active
  <2> QED BY <2>2, <2>3, <2>4
<1>6. EntriesDescribed /\ EntriesDescribed'
  BY EntriesAre, PTL
<1>7. ActiveEntries(k, "RESERVE")' = ActiveEntries(k, "RESERVE")
  <2>1. \A e : IsActiveEntry(k, "RESERVE", e)' <=> IsActiveEntry(k, "RESERVE", e)
    BY <1>5 DEF IsActiveEntry
  <2> QED BY <1>6, <2>1 DEF EntriesDescribed
<1>8. ActiveEntries(k, "COMMIT")' = ActiveEntries(k, "COMMIT") \ Matched(in)
  <2>1. \A e : IsActiveEntry(k, "COMMIT", e)' <=>
          IsActiveEntry(k, "COMMIT", e) /\ e \notin Matched(in)
    <3>1. ASSUME NEW r \in Request, KeyOf[r] = k
          PROVE  \A e : (\E i \in Active(ledger[r], "COMMIT")' : e = EntryOf(r, i)') <=>
                   /\ e \notin Matched(in)
                   /\ \E i \in Active(ledger[r], "COMMIT") : e = EntryOf(r, i)
      <4>1. \A i \in Active(ledger[r], "COMMIT") :
              << r, i >> \in ids <=> EntryOf(r, i) \in Matched(in)
        BY <1>3, <3>1
      <4>2. /\ Active(ledger[r], "COMMIT")' =
                 { i \in Active(ledger[r], "COMMIT") : << r, i >> \notin ids }
            /\ \A i \in Active(ledger[r], "COMMIT")' : EntryOf(r, i)' = EntryOf(r, i)
        BY <1>5
      <4> QED BY <4>1, <4>2
    <3> QED BY <3>1 DEF IsActiveEntry
  <2> QED BY <1>6, <2>1 DEF EntriesDescribed
<1> QED BY <1>1, <1>2, <1>7, <1>8 DEF in

------------------------------------------------------------------------------
(* A negative balance has a reason *)

\* The reasons NegativeIsExplained admits.
Reason(k) ==
  \/ [ key |-> k, version |-> Watermark(k), type |-> "OVER_ALLOCATED" ] \in events
  \/ balance[k].hcmBalance < 0
  \/ \E r \in Cancelled(k) : IsCounted(r)

ExplainedOK(k) == Available(k) < 0 => Reason(k)

\* A snapshot that takes the balance below zero says so.
LEMMA SnapshotExplains ==
  ASSUME BooksOK, BooksOK', SupportOK, NEW k \in Key, SnapshotArrives(k)
  PROVE  ExplainedOK(k)'
<1>0. /\ DatabaseTypeOK /\ HcmTypeOK
      /\ balance \in [Key -> [hcmBalance : Int, lastReconciledVersion : Nat]]
  BY DEF BooksOK, SagaInv, TypeOK, DatabaseTypeOK
<1>1. PICK v \in DOMAIN hcm[k] :
        EnsureBalanceLoaded(k, RowAt(k, v)) \/ ReconcileKey(k, RowAt(k, v))
  BY DEF SnapshotArrives
<1>2. CASE EnsureBalanceLoaded(k, RowAt(k, v))
  <2>1. ~HasBalance(k) /\ UNCHANGED << status, ledger >>
    BY <1>2 DEF EnsureBalanceLoaded
  <2>2. Taken(k) = {}
    <3> SUFFICES ASSUME NEW r \in Taken(k) PROVE FALSE
      OBVIOUS
    <3>1. r \in Request /\ KeyOf[r] = k /\ (status[r] \in Holding \/ IsCounted(r))
      BY DEF Taken
    <3>2. IsCounted(r) => Sent(r, "DEBIT")
      BY <3>1 DEF BooksOK, CommitOK, IsCommit, IsCounted, Active
    <3> QED BY <2>1, <3>1, <3>2 DEF SupportOK, LoadedOK
  <2>3. Taken(k)' = {}
    BY <2>1, <2>2 DEF Taken, IsCounted
  <2>4. Available(k)' = balance'[k].hcmBalance - Cost(Taken(k)')
    BY AvailableNext
  <2>5. balance'[k].hcmBalance \in Int
    BY DEF BooksOK, SagaInv, TypeOK, DatabaseTypeOK
  <2>6. Available(k)' = balance'[k].hcmBalance
    BY <2>3, <2>4, <2>5, CostOfOne
  <2> QED BY <2>6 DEF ExplainedOK, Reason
<1>3. CASE ReconcileKey(k, RowAt(k, v))
  <2> DEFINE in == ReconcileInput(k, RowAt(k, v))
  <2>1. /\ ActiveEntries(k, "RESERVE")' = ActiveEntries(k, "RESERVE")
        /\ ActiveEntries(k, "COMMIT")' = ActiveEntries(k, "COMMIT") \ Matched(in)
        /\ events' = events \union Logged(k, Reconcile(in))
        /\ Reconcile(in).eventType = EventType(in)
        /\ Reconcile(in).newLastReconciledVersion = v
    BY <1>0, <1>3, ReconcileLeaves
  <2>2. balance' = [balance EXCEPT ![k] =
             [hcmBalance |-> hcm[k][v], lastReconciledVersion |-> v]]
    BY <1>0, <1>3, ReconcileEffect
  <2>3. balance'[k].hcmBalance = hcm[k][v] /\ balance'[k].lastReconciledVersion = v
    BY <1>0, <2>2
  <2>4. /\ in.reservedOpen = Total(ActiveEntries(k, "RESERVE"))
        /\ in.committedEntries = ActiveEntries(k, "COMMIT")
        /\ in.authoritativeBalance = hcm[k][v]
    BY DEF ReconcileInput, RowAt
  <2> HIDE DEF in
  <2>5. Available(k)' = NewAvailable(in)
    BY <2>1, <2>3, <2>4 DEF Available, ComputeComponents, ComputeAvailable, NewAvailable
  <2>6. SUFFICES ASSUME NewAvailable(in) < 0 PROVE Reason(k)'
    BY <2>5 DEF ExplainedOK
  <2>7. EventType(in) = "OVER_ALLOCATED"
    BY <2>6 DEF EventType
  <2>8. [ key |-> k, version |-> v, type |-> "OVER_ALLOCATED" ] \in events'
    BY <2>1, <2>7 DEF Logged
  <2> QED BY <2>3, <2>8 DEF Reason, Watermark
<1> QED BY <1>1, <1>2, <1>3

\* Nothing else changes the snapshot of a key, or takes an event off the record.
LEMMA WhoSnapshots ==
  ASSUME SagaInv, [Next]_vars, NEW k \in Key
  PROVE  SnapshotArrives(k) \/ (balance'[k] = balance[k] /\ events \subseteq events')
<1>0. balance \in [Key -> [hcmBalance : Int, lastReconciledVersion : Nat]]
  BY DEF SagaInv, TypeOK, DatabaseTypeOK
<1>1. UNCHANGED << balance, events >> \/ \E q \in Key : SnapshotArrives(q)
  BY DEF Next, vars, dbVars, Lifecycle, Create, Submit, Approve, Reject, Cancel, Deliver,
         HcmMoves, ClaimDue, CallHcm, CallRefused, CallTimesOut, LoseReply, HcmHandlesLate,
         DrainStops, ApplySuccess, ApplyRejection, ApplyTransientFailure
<1>2. ASSUME NEW q \in Key, q # k, SnapshotArrives(q)
      PROVE  balance'[k] = balance[k] /\ events \subseteq events'
  BY <1>0, <1>2 DEF SnapshotArrives, EnsureBalanceLoaded, ReconcileKey
<1> QED BY <1>1, <1>2

\* The days of a request come to be taken by its submission, or by a debit that
\* lands after its cancellation.
LEMMA WhoTakes ==
  ASSUME SagaInv, BatchInFlight, [Next]_vars, NEW q \in Request, OpenOK(q), NEW k,
         q \in Taken(k)', q \notin Taken(k)
  PROVE  \/ Becomes(q, "DRAFT", "PENDING_APPROVAL")
         \/ q \in Cancelled(k)' /\ IsCounted(q)'
<1>0. /\ KeyOf[q] = k /\ (status'[q] \in Holding \/ IsCounted(q)')
      /\ status[q] \notin Holding /\ ~IsCounted(q)
  BY DEF Taken
<1>1. status'[q] = status[q] \/ Moves(q)
  <2>1. CASE Next
    BY <2>1, NextEffect DEF StepOK, Effect
  <2>2. CASE UNCHANGED vars
    BY <2>2 DEF vars, dbVars
  <2> QED BY <2>1, <2>2
<1>2. CASE IsCounted(q)'
  <2>1. status[q] = "CANCELLED"
    BY <1>0, <1>2, WhoCounts DEF OpenOK, Holding
  <2>2. status'[q] = "CANCELLED"
    BY <1>1, <2>1 DEF Moves, Becomes, NoRequest
  <2> QED BY <1>0, <1>2, <2>2 DEF Cancelled
<1>3. CASE status'[q] \in Holding
  BY <1>0, <1>1, <1>3 DEF Moves, Becomes, Holding, NoRequest
<1> QED BY <1>0, <1>2, <1>3

\* A request takes no more days than are available when it is submitted.
LEMMA SubmitTakes ==
  ASSUME BooksOK, BooksOK', NEW k \in Key, NEW q \in Request, Submit(q), KeyOf[q] = k
  PROVE  Available(k)' >= 0
<1>0. /\ ledger \in [Request -> Seq(LedgerEntry)] /\ balance[k].hcmBalance \in Int
      /\ status \in [Request -> RequestStatus \union {NoRequest}]
  BY DEF BooksOK, SagaInv, TypeOK, DatabaseTypeOK
<1>1. PICK T : T = Taken(k)'
  OBVIOUS
<1>2. T \subseteq Taken(k) \union {q}
  <2> SUFFICES ASSUME NEW p \in T, p # q PROVE p \in Taken(k)
    OBVIOUS
  <2>1. p \in Request /\ KeyOf[p] = k /\ (status'[p] \in Holding \/ IsCounted(p)')
    BY <1>1 DEF Taken
  <2>2. status'[p] = status[p] /\ ledger'[p] = ledger[p]
    BY <1>0, <2>1 DEF Submit, AddReservation
  <2> QED BY <2>1, <2>2 DEF Taken, IsCounted
<1>3. Available(k)' = balance[k].hcmBalance - Cost(T)
  <2>1. Available(k)' = balance'[k].hcmBalance - Cost(Taken(k)')
    BY AvailableNext
  <2> QED BY <1>1, <2>1 DEF Submit
<1>4. /\ Available(k) = balance[k].hcmBalance - Cost(Taken(k))
      /\ FiniteDays(Taken(k)) /\ Cost(Taken(k)) \in Nat
  BY AvailableIs DEF SumsOK
<1>5. FiniteDays({q}) /\ Cost({q}) = Days[q] /\ Days[q] \in Nat
  BY CostOfOne
<1>6. /\ FiniteDays(Taken(k) \union {q}) /\ Cost(Taken(k) \union {q}) \in Nat
      /\ Cost(Taken(k) \intersect {q}) \in Nat
      /\ Cost(Taken(k) \union {q})
           = Cost(Taken(k)) + Cost({q}) - Cost(Taken(k) \intersect {q})
  BY <1>4, <1>5, CostAdds
<1>7. Cost(T) \in Nat /\ Cost(T) <= Cost(Taken(k) \union {q})
  BY <1>2, <1>6, CostGrows
<1>8. Days[q] <= Available(k)
  BY DEF Submit, CanReserve, Available
<1> QED BY <1>0, <1>3, <1>4, <1>5, <1>6, <1>7, <1>8

\* No step takes a balance below zero without a reason, or the reason away.
LEMMA ExplainedStays ==
  ASSUME BooksOK, BooksOK', SupportOK, BatchInFlight, [Next]_vars,
         NEW k \in Key, ExplainedOK(k)
  PROVE  ExplainedOK(k)'
<1>0. SagaInv /\ \A r \in Request : OpenOK(r)
  BY DEF BooksOK, SupportOK
<1>1. CASE SnapshotArrives(k)
  BY <1>1, SnapshotExplains
<1>2. CASE ~SnapshotArrives(k)
  <2>0. balance'[k] = balance[k] /\ events \subseteq events'
    BY <1>0, <1>2, WhoSnapshots
  <2>1. ASSUME NEW q \in Request, q \in Taken(k)', Becomes(q, "DRAFT", "PENDING_APPROVAL")
        PROVE  ExplainedOK(k)'
    <3>1. Available(k)' >= 0
      BY <1>0, <2>1, OnlySubmit, SubmitTakes DEF Taken
    <3>2. Available(k)' \in Int
      <4>1. /\ Available(k)' = balance'[k].hcmBalance - Cost(Taken(k)')
            /\ Cost(Taken(k)') \in Nat /\ balance'[k].hcmBalance \in Int
        BY AvailableNext
      <4> QED BY <4>1
    <3> QED BY <3>1, <3>2 DEF ExplainedOK
  <2>2. ASSUME NEW q \in Cancelled(k)', IsCounted(q)' PROVE ExplainedOK(k)'
    BY <2>2 DEF ExplainedOK, Reason
  <2>3. CASE Taken(k)' \subseteq Taken(k)
    <3>1. PICK T : T = Taken(k)'
      OBVIOUS
    <3>2. Available(k)' = balance[k].hcmBalance - Cost(T)
      <4>1. Available(k)' = balance'[k].hcmBalance - Cost(Taken(k)')
        BY AvailableNext
      <4> QED BY <2>0, <3>1, <4>1
    <3>3. /\ Available(k) = balance[k].hcmBalance - Cost(Taken(k))
          /\ FiniteDays(Taken(k)) /\ balance[k].hcmBalance \in Int
      BY AvailableIs DEF SumsOK, BooksOK, SagaInv, TypeOK, DatabaseTypeOK
    <3>4. Cost(T) \in Nat /\ Cost(Taken(k)) \in Nat /\ Cost(T) <= Cost(Taken(k))
      BY <2>3, <3>1, <3>3, CostGrows
    <3>5. Available(k)' < 0 => Reason(k)
      BY <3>2, <3>3, <3>4 DEF ExplainedOK
    <3>6. ASSUME NEW r \in Cancelled(k), IsCounted(r)
          PROVE  r \in Cancelled(k)' /\ IsCounted(r)'
      <4>1. r \in Request /\ KeyOf[r] = k /\ status[r] = "CANCELLED"
        BY DEF Cancelled
      <4>2. status'[r] = "CANCELLED"
        <5>1. CASE Next
          BY <1>0, <4>1, <5>1, NextEffect DEF StepOK, Effect, Moves, Becomes, NoRequest
        <5>2. CASE UNCHANGED vars
          BY <4>1, <5>2 DEF vars, dbVars
        <5> QED BY <5>1, <5>2
      <4>3. IsCounted(r)'
        BY <1>0, <2>0, <3>6, <4>1, WhoUncounts DEF OpenOK
      <4> QED BY <4>1, <4>2, <4>3 DEF Cancelled
    <3>7. Reason(k) => Reason(k)'
      BY <2>0, <3>6 DEF Reason, Watermark
    <3> QED BY <3>5, <3>7 DEF ExplainedOK
  <2>4. ASSUME NEW q \in Taken(k)', q \notin Taken(k)
        PROVE  \/ Becomes(q, "DRAFT", "PENDING_APPROVAL")
               \/ q \in Cancelled(k)' /\ IsCounted(q)'
    BY <1>0, <2>4, WhoTakes DEF Taken
  <2>5. \A q \in Taken(k)' : q \in Request
    BY DEF Taken
  <2> QED BY <2>1, <2>2, <2>3, <2>4, <2>5
<1> QED BY <1>1, <1>2

\* The available balance is below zero only for a reason on record: a reconcile
\* raised OVER_ALLOCATED, HCM's own figure is negative, or a debit landed after
\* its request was cancelled (submit, applySuccess, reconcile).  However many
\* requests compete for a key, their holds and commits alone never do it.
THEOREM NegativesAreExplained == Spec => []NegativeIsExplained
<1> DEFINE Inv == \A k \in Key : ExplainedOK(k)
<1>1. Init /\ BooksOK => Inv
  <2> SUFFICES ASSUME Init, BooksOK, NEW k \in Key PROVE ExplainedOK(k)
    OBVIOUS
  <2>1. Taken(k) = {} /\ balance[k].hcmBalance = 0
    BY DEF Init, DatabaseInit, Taken, IsCounted, Active, Holding, NoRequest, NoBalance
  <2>2. Available(k) = 0
    <3>1. Available(k) = balance[k].hcmBalance - Cost(Taken(k))
      BY AvailableIs DEF SumsOK
    <3>2. Available(k) = 0 - 0
      BY <2>1, <3>1, CostOfOne, Zenon
    <3> QED BY <3>2
  <2> QED BY <2>2 DEF ExplainedOK
<1>2. /\ BooksOK /\ BooksOK' /\ SupportOK /\ BatchInFlight /\ Inv /\ [Next]_vars
      => Inv'
  BY ExplainedStays
<1>3. Inv => NegativeIsExplained
  BY DEF ExplainedOK, Reason, IsCounted, NegativeIsExplained
<1> QED BY <1>1, <1>2, <1>3, SupportAlways, BatchStaysInFlight, PTL DEF Spec

------------------------------------------------------------------------------
(* Acknowledgements *)

\* A command is acknowledged by HCM's answer to it, and to no other step.
LEMMA AckedByDelta ==
  ASSUME TypeOK, [Next]_vars, NEW c \in Command, applied'[c] # applied[c]
  PROVE  /\ \/ \E i \in batch : IsCurrent(i) /\ CommandOf(i) = c
            \/ c \in late
         /\ \E outcome \in Outcome : ApplyDelta(c, outcome)
<1>0. /\ applied \in [Command -> [version : Nat, applied : BOOLEAN]]
      /\ \A i \in DOMAIN outbox : outbox[i] \in OutboxMessage
  BY DEF TypeOK, HcmTypeOK, DatabaseTypeOK
<1>1. \A i \in DOMAIN outbox : CommandOf(i) \in Command
  BY <1>0 DEF OutboxMessage, CommandOf, Command
<1>2. ASSUME NEW d \in Command, NEW outcome, ApplyDelta(d, outcome) PROVE c = d
  BY <1>0, <1>2 DEF ApplyDelta, Acknowledge, hcmVars
<1>3. \/ UNCHANGED applied
      \/ \E i \in DOMAIN outbox : CallHcm(i)
      \/ \E d \in Command : HcmHandlesLate(d)
  BY DEF Next, vars, dbVars, hcmVars, Lifecycle, HcmMoves, Seed, Adjust, GetBalance,
         SnapshotArrives, ClaimDue, Deliver, CallRefused, CallTimesOut, LoseReply,
         ApplySuccess, ApplyRejection, ApplyTransientFailure, Settle, DrainStops
<1>4. ASSUME NEW i \in DOMAIN outbox, CallHcm(i)
      PROVE  /\ i \in batch /\ IsCurrent(i) /\ CommandOf(i) = c
             /\ \E outcome \in Outcome : ApplyDelta(c, outcome)
  BY <1>1, <1>2, <1>4 DEF CallHcm, IsCurrent
<1>5. ASSUME NEW d \in Command, HcmHandlesLate(d)
      PROVE  c \in late /\ \E outcome \in Outcome : ApplyDelta(c, outcome)
  BY <1>2, <1>5 DEF HcmHandlesLate
<1> QED BY <1>3, <1>4, <1>5

\* A message that has been sent once stays sent.
LEMMA SentStays ==
  ASSUME SagaInv, [Next]_vars, NEW r \in Request, NEW t \in OutboxType, Sent(r, t)
  PROVE  Sent(r, t)'
<1>1. CASE Next
  <2>1. SentKept(r) \/ Moves(r)
    BY <1>1, NextEffect DEF StepOK, Effect
  <2>2. SentKept(r) \/ Sends(r, "DEBIT") \/ Sends(r, "CREDIT")
    BY <2>1 DEF Moves
  <2> QED BY <2>2 DEF SentKept, Sends
<1>2. CASE UNCHANGED vars
  BY <1>2 DEF vars, dbVars, Sent, Messages
<1> QED BY <1>1, <1>2

AckedWasSent == \A c \in Command : Acked(c) => Sent(c[1], c[2])

\* Whatever HCM has acknowledged some message asked for.
LEMMA AcksWereSent == Spec => []AckedWasSent
<1>1. Init => AckedWasSent
  BY DEF Init, HcmInit, Acked, AckedWasSent
<1>2. SagaInv /\ AckedWasSent /\ [Next]_vars => AckedWasSent'
  <2> SUFFICES ASSUME SagaInv, AckedWasSent, [Next]_vars, NEW c \in Command, Acked(c)'
               PROVE  Sent(c[1], c[2])'
    BY DEF AckedWasSent
  <2>0. c[1] \in Request /\ c[2] \in OutboxType /\ TypeOK
    BY DEF Command, SagaInv
  <2>1. Sent(c[1], c[2])
    <3>1. CASE applied'[c] = applied[c]
      BY <3>1 DEF Acked, AckedWasSent
    <3>2. CASE applied'[c] # applied[c]
      BY <2>0, <3>2, AckedByDelta, CurrentCommand DEF SagaInv, LateWasSent
    <3> QED BY <3>1, <3>2
  <2> QED BY <2>0, <2>1, SentStays
<1> QED BY <1>1, <1>2, SagaInvariant, PTL DEF Spec

------------------------------------------------------------------------------
(* A snapshot ends double counts *)

\* Every acknowledgement carries a version its key has had.
AcksDated ==
  \A c \in Command : Acked(c) => applied[c].version \in 1 .. Version(KeyOf[c[1]])

\* HCM stamps an acknowledgement with its version of the moment, whether it
\* applied the command or not, and versions only grow.
LEMMA AcksAreDated == Spec => []AcksDated
<1>1. Init => AcksDated
  BY DEF Init, HcmInit, Acked, AcksDated
<1>2. TypeOK /\ TypeOK' /\ AcksDated /\ [Next]_vars => AcksDated'
  <2> SUFFICES ASSUME TypeOK, TypeOK', AcksDated, [Next]_vars, NEW c \in Command, Acked(c)'
               PROVE  applied'[c].version \in 1 .. Len(hcm'[KeyOf[c[1]]])
    BY DEF AcksDated, Version
  <2>0. /\ applied \in [Command -> [version : Nat, applied : BOOLEAN]]
        /\ hcm \in [Key -> Seq(Int)] /\ KeyOf[c[1]] \in Key
    BY RequestAssumption DEF TypeOK, HcmTypeOK, Command
  <2>1. CASE applied'[c] = applied[c]
    <3>1. applied[c].version \in 1 .. Len(hcm[KeyOf[c[1]]])
      BY <2>1 DEF Acked, AcksDated, Version
    <3>2. \A v \in DOMAIN hcm[KeyOf[c[1]]] : v \in DOMAIN hcm'[KeyOf[c[1]]]
      BY <2>0, NextMovesSnapshotOrHistory DEF HistoryKept
    <3>3. hcm'[KeyOf[c[1]]] \in Seq(Int)
      BY <2>0 DEF TypeOK, HcmTypeOK
    <3>4. DOMAIN hcm[KeyOf[c[1]]] = 1 .. Len(hcm[KeyOf[c[1]]])
      BY <2>0
    <3>5. DOMAIN hcm'[KeyOf[c[1]]] = 1 .. Len(hcm'[KeyOf[c[1]]])
      BY <3>3
    <3> QED BY <2>1, <3>1, <3>2, <3>4, <3>5
  <2>2. CASE applied'[c] # applied[c]
    <3> DEFINE row == Referenced(KeyOf[c[1]])
               next == row[Len(row)] + Signed(c)
    <3>1. row \in Seq(Int) /\ Len(row) >= 1
      BY <2>0 DEF Referenced
    <3>2. \/ /\ applied'[c].version = Len(row)
             /\ hcm'[KeyOf[c[1]]] = row
          \/ /\ applied'[c].version = Len(Append(row, next))
             /\ hcm'[KeyOf[c[1]]] = Append(row, next)
      BY <2>0, <2>2, AckedByDelta DEF ApplyDelta, Acknowledge, hcmVars
    <3>3. Len(Append(row, next)) = Len(row) + 1
      BY <3>1
    <3> QED BY <3>1, <3>2, <3>3
  <2> QED BY <2>1, <2>2
<1> QED BY <1>1, <1>2, TypeCorrect, PTL DEF Spec

\* Of the commits of a key, a snapshot leaves those that are newer than it.
LEMMA SnapshotLeaves ==
  ASSUME BooksOK, BooksOK', SupportOK, AcksDated', NEW k \in Key, SnapshotArrives(k),
         NEW r \in Request, KeyOf[r] = k, NEW i \in Active(ledger'[r], "COMMIT")
  PROVE  ledger'[r][i].hcmVersion > balance'[k].lastReconciledVersion
<1>0. /\ DatabaseTypeOK /\ HcmTypeOK
      /\ balance \in [Key -> [hcmBalance : Int, lastReconciledVersion : Nat]]
  BY DEF BooksOK, SagaInv, TypeOK, DatabaseTypeOK
<1>1. PICK v \in DOMAIN hcm[k] :
        EnsureBalanceLoaded(k, RowAt(k, v)) \/ ReconcileKey(k, RowAt(k, v))
  BY DEF SnapshotArrives
<1>2. CASE EnsureBalanceLoaded(k, RowAt(k, v))
  <2>1. ~HasBalance(k) /\ IsCommit(r, i)
    <3>1. ~HasBalance(k) /\ ledger' = ledger
      BY <1>2 DEF EnsureBalanceLoaded
    <3>2. i \in Active(ledger[r], "COMMIT")
      BY <3>1
    <3> QED BY <3>1, <3>2 DEF Active, IsCommit
  <2>2. Sent(r, "DEBIT")
    BY <2>1 DEF BooksOK, CommitOK, IsCommit
  <2> QED BY <2>1, <2>2 DEF SupportOK, LoadedOK
<1>3. CASE ReconcileKey(k, RowAt(k, v))
  <2> DEFINE in == ReconcileInput(k, RowAt(k, v))
  <2>1. ActiveEntries(k, "COMMIT")' = ActiveEntries(k, "COMMIT") \ Matched(in)
    BY <1>0, <1>3, ReconcileLeaves
  <2>2. balance'[k].lastReconciledVersion = v /\ v \in Nat
    BY <1>0, <1>3, ReconcileEffect DEF HcmTypeOK
  <2>3. /\ in.committedEntries = ActiveEntries(k, "COMMIT")
        /\ in.authoritativeVersion = v
    BY DEF ReconcileInput, RowAt
  <2> HIDE DEF in
  <2>4. EntriesDescribed'
    BY EntriesAre, PTL
  <2>5. PICK e : e = EntryOf(r, i)'
    OBVIOUS
  <2>6. e \in ActiveEntries(k, "COMMIT")'
    BY <2>4, <2>5 DEF EntriesDescribed, IsActiveEntry
  <2>7. e \in in.committedEntries /\ e \notin Matched(in)
    BY <2>1, <2>3, <2>6
  <2>8. e.hcmVersion = ledger'[r][i].hcmVersion
    BY <2>5 DEF EntryOf
  <2>9. ledger'[r][i].hcmVersion \in Nat /\ ledger'[r][i].hcmVersion # NoVersion
    <3>1. Acked(Debit(r))' /\ ledger'[r][i].hcmVersion = applied'[Debit(r)].version
      BY DEF BooksOK, CommitOK, IsCommit, Active, Debit
    <3>2. Debit(r) \in Command
      BY DEF Debit, Command, OutboxType
    <3>3. applied'[Debit(r)].version \in Nat
      BY <3>2 DEF BooksOK, SagaInv, TypeOK, HcmTypeOK
    <3>4. applied'[Debit(r)].version >= 1
      BY <3>1, <3>2 DEF AcksDated, Debit
    <3> QED BY <3>1, <3>3, <3>4 DEF NoVersion
  <2>10. ~(ledger'[r][i].hcmVersion <= v)
    BY <2>3, <2>7, <2>8, <2>9 DEF Matched
  <2> QED BY <2>2, <2>9, <2>10
<1> QED BY <1>1, <1>2, <1>3

\* A double count lasts until the next snapshot: whatever order acks and
\* snapshots arrive in, reconcileKey leaves no commit ACTIVE that the row it
\* accepts includes, and a first load finds none.
THEOREM SnapshotsHeal == Spec => SnapshotHeals
<1>1. /\ BooksOK /\ BooksOK' /\ SupportOK /\ AcksDated' /\ [Next]_vars
      => [HealStep]_vars
  <2> SUFFICES ASSUME BooksOK, BooksOK', SupportOK, AcksDated', [Next]_vars,
                      NEW r \in Request, balance'[KeyOf[r]] # balance[KeyOf[r]],
                      NEW i \in Active(ledger'[r], "COMMIT")
               PROVE  ledger'[r][i].hcmVersion
                        > balance'[KeyOf[r]].lastReconciledVersion
    BY DEF HealStep
  <2>1. KeyOf[r] \in Key /\ SagaInv
    BY RequestAssumption DEF BooksOK
  <2>2. SnapshotArrives(KeyOf[r])
    BY <2>1, WhoSnapshots
  <2> QED BY <2>1, <2>2, SnapshotLeaves
<1> QED BY <1>1, SupportAlways, AcksAreDated, PTL DEF Spec, SnapshotHeals

\* What a snapshot of HCM's newest row leaves subtracted is held, not committed.
LEMMA NewestLeaves ==
  ASSUME BooksOK, BooksOK', SupportOK, AcksDated', NEW k \in Key, SnapshotArrives(k),
         balance'[k].lastReconciledVersion = Version(k)'
  PROVE  Taken(k)' = Waiting(k)'
<1>1. ASSUME NEW r \in Request, KeyOf[r] = k PROVE ~IsCounted(r)'
  <2> SUFFICES ASSUME NEW i \in Active(ledger'[r], "COMMIT") PROVE FALSE
    BY DEF IsCounted
  <2>1. ledger'[r][i].hcmVersion > Version(k)'
    BY <1>1, SnapshotLeaves
  <2>2. Acked(Debit(r))' /\ ledger'[r][i].hcmVersion = applied'[Debit(r)].version
    BY DEF BooksOK, CommitOK, IsCommit, Active, Debit
  <2>3. Debit(r) \in Command /\ Debit(r)[1] = r
    BY DEF Debit, Command, OutboxType
  <2>4. applied'[Debit(r)].version \in 1 .. Version(k)'
    <3>1. \A c \in Command : Acked(c)' =>
            applied'[c].version \in 1 .. Version(KeyOf[c[1]])'
      BY DEF AcksDated
    <3> QED BY <1>1, <2>2, <2>3, <3>1 DEF Debit, Version
  <2>5. Version(k)' \in Nat
    BY DEF BooksOK, SagaInv, TypeOK, HcmTypeOK, Version
  <2> QED BY <2>1, <2>2, <2>4, <2>5
<1> QED BY <1>1 DEF Taken, Waiting, Holding

\* Convergence: accepting HCM's newest row, by a webhook, a batch, a poll or the
\* first load, makes the available balance HCM's own less the days held, after
\* any faults, restarts and cancellations (reconcileKey, computeComponents).
THEOREM NewestRowsAgree == Spec => NewestRowAgrees
<1>1. /\ BooksOK /\ BooksOK' /\ SupportOK /\ AcksDated' /\ SnapshotIsHistoric'
      /\ [Next]_vars
      => [AgreeStep]_vars
  <2> SUFFICES ASSUME BooksOK, BooksOK', SupportOK, AcksDated', SnapshotIsHistoric',
                      [Next]_vars, NEW k \in Key, balance'[k] # balance[k],
                      balance'[k].lastReconciledVersion = Version(k)'
               PROVE  Available(k)' + Total(Asked(Waiting(k)))' = CurrentBalance(k)'
    BY DEF AgreeStep
  <2>1. SagaInv
    BY DEF BooksOK
  <2>2. SnapshotArrives(k)
    BY <2>1, WhoSnapshots
  <2>3. Taken(k)' = Waiting(k)'
    BY <2>2, NewestLeaves
  <2>4. balance'[k].hcmBalance = CurrentBalance(k)'
    <3>1. HasBalance(k)'
      BY <2>1, BalanceKept DEF HasBalance, SagaInv
    <3>2. balance'[k].hcmBalance = hcm'[k][Watermark(k)']
      BY <3>1 DEF SnapshotIsHistoric
    <3> QED BY <3>2 DEF CurrentBalance, Watermark, Version
  <2>5. /\ Cost(Taken(k)') \in Nat /\ balance'[k].hcmBalance \in Int
        /\ Available(k)' = balance'[k].hcmBalance - Cost(Taken(k)')
    BY AvailableNext
  <2>6. Total(Asked(Waiting(k)))' = Cost(Waiting(k)')
    BY DEF Cost, Total, Asked
  <2> QED BY <2>3, <2>4, <2>5, <2>6
<1> QED BY <1>1, SupportAlways, AcksAreDated, SnapshotsAreHistoric, PTL
        DEF Spec, NewestRowAgrees

\* HCM gives no days back that it never took, unless it acknowledges debits it
\* does not apply (applyDelta's ghost-success toggle).
THEOREM CreditsUndoDebits ==
  ASSUME "ghostSuccess" \notin Faults
  PROVE  Spec => []CreditUndoesADebit
<1> DEFINE Inv == \A c \in Command : Acked(c) => ReallyApplied(c)
<1>1. Init => Inv
  BY DEF Init, HcmInit, Acked
<1>2. TypeOK /\ Inv /\ [Next]_vars => Inv'
  <2> SUFFICES ASSUME TypeOK, Inv, [Next]_vars, NEW c \in Command, Acked(c)'
               PROVE  ReallyApplied(c)'
    OBVIOUS
  <2>0. applied \in [Command -> [version : Nat, applied : BOOLEAN]]
    BY DEF TypeOK, HcmTypeOK
  <2>1. CASE applied'[c] = applied[c]
    BY <2>1 DEF Acked, ReallyApplied
  <2>2. CASE applied'[c] # applied[c]
    <3>1. PICK h : applied' = [applied EXCEPT ![c] = [version |-> Len(h), applied |-> TRUE]]
      BY <2>2, AckedByDelta DEF ApplyDelta, Acknowledge, hcmVars
    <3> QED BY <2>0, <3>1 DEF ReallyApplied
  <2> QED BY <2>1, <2>2
<1>3. SagaInv /\ AckedWasSent /\ Inv => CreditUndoesADebit
  <2> SUFFICES ASSUME SagaInv, AckedWasSent, Inv,
                      NEW r \in Request, ReallyApplied(Credit(r))
               PROVE  ReallyApplied(Debit(r))
    BY DEF CreditUndoesADebit
  <2>1. Credit(r) \in Command /\ Debit(r) \in Command
    BY DEF Credit, Debit, Command, OutboxType
  <2>2. Acked(Credit(r))
    BY DEF Acked, ReallyApplied, NoAck
  <2>3. Sent(r, "CREDIT")
    BY <2>1, <2>2 DEF AckedWasSent, Credit
  <2> QED BY <2>1, <2>3 DEF SagaInv, RequestOK
<1> QED BY <1>1, <1>2, <1>3, SagaInvariant, TypeCorrect, AcksWereSent, PTL DEF Spec

------------------------------------------------------------------------------
(* Refusals *)

Refused == {"REJECTED", "FAILED"}

\* No debit of a refused request is on record or can be sent again.
RefusedOK(r) ==
  status[r] \in Refused =>
    /\ ~Acked(Debit(r))
    /\ \A m \in Messages(r, "DEBIT") : outbox[m].status = "DEAD"

\* A rejection is HCM's, of a command it has no acknowledgement for.
RejectionIsTrue ==
  reply = "rejected" => \A i \in batch : IsCurrent(i) => ~Acked(CommandOf(i))

RefusalInv == late = {} /\ RejectionIsTrue /\ \A r \in Request : RefusedOK(r)

\* No endpoint changes which command a message stands for.
LEMMA LifecycleCommands ==
  ASSUME TypeOK, NEW r \in Request, Lifecycle(r), NEW i \in DOMAIN outbox
  PROVE  CommandOf(i)' = CommandOf(i)
<1>0. outbox \in Seq(OutboxMessage)
  BY DEF TypeOK, DatabaseTypeOK
<1>1. ASSUME NEW t \in OutboxType, outbox' = Enqueue(outbox, r, t)
      PROVE  CommandOf(i)' = CommandOf(i)
  BY <1>0, <1>1, EnqueueType DEF CommandOf
<1>2. CASE outbox' = CancelPendingForRequest(outbox, r)
  BY <1>0, <1>2, CancelPendingType DEF CommandOf, SameCommands, Alike
<1>3. CASE UNCHANGED outbox
  BY <1>3 DEF CommandOf
<1> QED BY <1>1, <1>2, <1>3
        DEF Lifecycle, Create, Submit, Approve, Reject, Cancel, CancelCommitted,
            CancelBeforeCommit, OutboxType

\* With nothing late, no step comes between HCM's rejection and its transaction
\* that could acknowledge the command.
LEMMA RejectionStaysTrue ==
  ASSUME "late" \notin Faults, SagaInv, RefusalInv, [Next]_vars
  PROVE  late' = {} /\ RejectionIsTrue'
<1>0. TypeOK /\ late = {} /\ RejectionIsTrue /\ batch \subseteq DOMAIN outbox
  BY DEF SagaInv, TypeOK, ProcessorTypeOK, RefusalInv
<1>1. late' = {}
  BY <1>0
     DEF Next, vars, dbVars, processorVars, Lifecycle, HcmMoves, SnapshotArrives, ClaimDue,
         Deliver, CallHcm, CallRefused, CallTimesOut, LoseReply, ApplySuccess,
         ApplyRejection, ApplyTransientFailure, Settle, HcmHandlesLate, DrainStops
<1>2. ASSUME UNCHANGED << batch, reply, applied >>,
             \A i \in DOMAIN outbox : CommandOf(i)' = CommandOf(i)
      PROVE  RejectionIsTrue'
  BY <1>0, <1>2 DEF RejectionIsTrue, IsCurrent, Acked
<1>3. ASSUME reply' # "rejected" PROVE RejectionIsTrue'
  BY <1>3 DEF RejectionIsTrue
<1>4. ASSUME NEW r \in Request, Lifecycle(r) PROVE RejectionIsTrue'
  BY <1>0, <1>2, <1>4, LifecycleCommands DEF Lifecycle, hcmVars, processorVars
<1>5. ASSUME NEW k \in Key, HcmMoves(k) \/ SnapshotArrives(k) PROVE RejectionIsTrue'
  <2>1. UNCHANGED << batch, reply, applied, outbox >>
    BY <1>5 DEF HcmMoves, SnapshotArrives, Seed, Adjust, GetBalance, EnsureBalanceLoaded,
                ReconcileKey, dbVars, hcmVars, processorVars
  <2> QED BY <1>2, <2>1 DEF CommandOf
<1>6. ASSUME ClaimDue PROVE RejectionIsTrue'
  BY <1>3, <1>6 DEF ClaimDue, SagaInv, ReplyIsTrue
<1>7. ASSUME NEW i \in DOMAIN outbox, CallHcm(i) PROVE RejectionIsTrue'
  <2>1. PICK outcome \in Outcome : ApplyDelta(CommandOf(i), outcome) /\ reply' = outcome
    BY <1>7 DEF CallHcm
  <2>2. CASE outcome = "rejected"
    <3>1. ~Acked(CommandOf(i)) /\ UNCHANGED applied
      BY <2>1, <2>2 DEF ApplyDelta, Prior, Acked, hcmVars
    <3>2. UNCHANGED << batch, outbox >> /\ IsCurrent(i)
      BY <1>7 DEF CallHcm, dbVars
    <3>3. \A j \in batch : IsCurrent(j) => j = i
      BY <1>0, <3>2, OneCurrent
    <3> QED BY <3>1, <3>2, <3>3 DEF RejectionIsTrue, IsCurrent, CommandOf, Acked
  <2> QED BY <1>3, <2>1, <2>2
<1>8. ASSUME NEW i \in DOMAIN outbox,
             \/ CallRefused(i) \/ CallTimesOut(i) \/ LoseReply(i)
             \/ ApplySuccess(i) \/ ApplyRejection(i) \/ ApplyTransientFailure(i)
      PROVE  RejectionIsTrue'
  BY <1>3, <1>8 DEF CallRefused, CallTimesOut, LoseReply, ApplySuccess, ApplyRejection,
                    ApplyTransientFailure, Settle
<1>9. ASSUME DrainStops \/ UNCHANGED vars PROVE RejectionIsTrue'
  BY <1>0, <1>2, <1>3, <1>9
     DEF DrainStops, vars, dbVars, hcmVars, processorVars, CommandOf
<1>10. ASSUME NEW c \in Command, HcmHandlesLate(c) PROVE FALSE
  BY <1>0, <1>10 DEF HcmHandlesLate
<1>11. RejectionIsTrue'
  <2>1. ASSUME NEW i \in DOMAIN outbox, Deliver(i) PROVE RejectionIsTrue'
    BY <1>7, <1>8, <2>1 DEF Deliver
  <2> QED BY <1>4, <1>5, <1>6, <1>9, <1>10, <2>1 DEF Next
<1> QED BY <1>1, <1>11

\* Only a rejection by HCM makes a request FAILED.
LEMMA FailedByRejection ==
  ASSUME SagaInv, [Next]_vars, NEW r \in Request, status'[r] = "FAILED", status[r] # "FAILED"
  PROVE  \E i \in DOMAIN outbox : ApplyRejection(i) /\ CommandOf(i) = Debit(r)
<1>0. status \in [Request -> RequestStatus \union {NoRequest}]
  BY DEF SagaInv, TypeOK, DatabaseTypeOK
<1>1. \/ \E q \in Request : Lifecycle(q)
      \/ \E i \in DOMAIN outbox : ApplySuccess(i) \/ ApplyRejection(i)
  BY DEF Next, vars, dbVars, HcmMoves, SnapshotArrives, EnsureBalanceLoaded, ReconcileKey,
         ClaimDue, Deliver, CallHcm, CallRefused, CallTimesOut, LoseReply,
         ApplyTransientFailure, HcmHandlesLate, DrainStops
<1>2. ASSUME NEW q \in Request, Lifecycle(q) PROVE FALSE
  <2>1. PICK s : status' = [status EXCEPT ![q] = s] /\ s # "FAILED"
    BY <1>2, SubmitTransition, ApproveTransition, RejectTransition, CancelTransition
       DEF Lifecycle, Create, Submit, Approve, Reject, Cancel
  <2> QED BY <1>0, <2>1
<1>3. ASSUME NEW i \in DOMAIN outbox, ApplySuccess(i) PROVE FALSE
  BY <1>0, <1>3, OutcomeTransitions
     DEF ApplySuccess, ApplyDebitSuccess, ApplyCreditSuccess
<1>4. ASSUME NEW i \in DOMAIN outbox, ApplyRejection(i)
      PROVE  CommandOf(i) = Debit(r)
  BY <1>0, <1>4, OutcomeTransitions DEF ApplyRejection, CommandOf, Debit
<1> QED BY <1>1, <1>2, <1>3, <1>4

\* Once refused, the debits of a request stay unsendable.
LEMMA RefusedStays ==
  ASSUME "late" \notin Faults, SagaInv, SagaInv', BatchInFlight, OutboxForward, AckedWasSent,
         RefusalInv, [Next]_vars, NEW r \in Request
  PROVE  RefusedOK(r)'
<1>0. /\ TypeOK /\ NoDuplicates' /\ RequestOK(r) /\ RefusedOK(r) /\ late = {}
      /\ Debit(r) \in Command
      /\ outbox \in Seq(OutboxMessage)
  BY DEF SagaInv, RefusalInv, Debit, Command, OutboxType, TypeOK, DatabaseTypeOK
<1>1. \/ status'[r] = status[r] /\ Sent(r, "DEBIT")' = Sent(r, "DEBIT")
      \/ Moves(r)
      \/ status'[r] \notin Refused
  <2>1. CASE Next
    BY <2>1, NextEffect DEF StepOK, Effect, SentKept, OutboxType
  <2>2. CASE UNCHANGED vars
    BY <2>2 DEF vars, dbVars, Sent, Messages
  <2> QED BY <2>1, <2>2
<1>2. \/ status'[r] \notin Refused
      \/ /\ status[r] \in Refused /\ status'[r] = status[r]
         /\ Sent(r, "DEBIT")' = Sent(r, "DEBIT")
      \/ /\ status[r] = "PENDING_APPROVAL" /\ status'[r] = "REJECTED"
         /\ Sent(r, "DEBIT")' = Sent(r, "DEBIT")
      \/ status[r] = "APPROVED" /\ status'[r] = "FAILED"
  BY <1>1 DEF Moves, Becomes, SentKept, OutboxType, Refused, NoRequest
<1>3. ASSUME ~Acked(Debit(r)), Acked(Debit(r))'
      PROVE  \E i \in batch : IsCurrent(i) /\ i \in Messages(r, "DEBIT")
  <2>1. PICK i \in batch : IsCurrent(i) /\ CommandOf(i) = Debit(r)
    BY <1>0, <1>3, AckedByDelta DEF Acked
  <2> QED BY <1>0, <2>1, CurrentCommand DEF CommandOf, Debit, Messages
<1>4. CASE /\ status[r] \in Refused /\ status'[r] = status[r]
           /\ Sent(r, "DEBIT")' = Sent(r, "DEBIT")
  <2>1. ~Acked(Debit(r)) /\ \A m \in Messages(r, "DEBIT") : outbox[m].status = "DEAD"
    BY <1>0, <1>4 DEF RefusedOK
  <2>2. ~Acked(Debit(r))'
    BY <1>3, <2>1 DEF BatchInFlight
  <2>3. \A m \in Messages(r, "DEBIT")' : outbox'[m].status = "DEAD"
    <3>1. SUFFICES ASSUME NEW m \in Messages(r, "DEBIT")' PROVE outbox'[m].status = "DEAD"
      OBVIOUS
    <3>2. PICK n \in Messages(r, "DEBIT") : outbox[n].status = "DEAD"
      BY <1>4, <2>1, <3>1 DEF Sent
    <3>3. n \in DOMAIN outbox' /\ outbox'[n] = outbox[n]
      BY <3>2 DEF OutboxForward, SettledAt, Messages
    <3>4. m = n
      BY <1>0, <3>1, <3>2, <3>3 DEF NoDuplicates, Messages, Alike
    <3> QED BY <3>2, <3>3, <3>4
  <2> QED BY <2>2, <2>3 DEF RefusedOK, Acked, Debit
<1>5. CASE /\ status[r] = "PENDING_APPROVAL" /\ status'[r] = "REJECTED"
           /\ Sent(r, "DEBIT")' = Sent(r, "DEBIT")
  <2>1. ~Sent(r, "DEBIT") /\ ~Sent(r, "DEBIT")'
    BY <1>0, <1>5 DEF RequestOK
  <2>2. ~Acked(Debit(r))
    BY <1>0, <2>1 DEF AckedWasSent, Debit
  <2>3. ~Acked(Debit(r))'
    BY <1>3, <2>1, <2>2 DEF Sent
  <2> QED BY <2>1, <2>3 DEF RefusedOK, Sent, Acked, Debit
<1>6. CASE status[r] = "APPROVED" /\ status'[r] = "FAILED"
  <2>1. PICK i \in DOMAIN outbox : ApplyRejection(i) /\ CommandOf(i) = Debit(r)
    BY <1>6, FailedByRejection
  <2>2. ~Acked(Debit(r)) /\ UNCHANGED applied
    BY <2>1 DEF RefusalInv, RejectionIsTrue, ApplyRejection, IsCurrent, Settle, hcmVars
  <2>3. /\ i \in DOMAIN outbox' /\ outbox'[i].status = "DEAD"
        /\ outbox'[i].request = r /\ outbox'[i].type = "DEBIT"
    <3>1. outbox[i] \in OutboxMessage /\ outbox' = MarkRejected(outbox, i)
      BY <1>0, <2>1 DEF ApplyRejection
    <3> QED BY <1>0, <2>1, <3>1 DEF MarkRejected, OutboxMessage, CommandOf, Debit
  <2>4. \A m \in Messages(r, "DEBIT")' : m = i
    BY <1>0, <2>3 DEF NoDuplicates, Messages, Alike
  <2> QED BY <2>2, <2>3, <2>4 DEF RefusedOK, Acked, Debit
<1>7. CASE status'[r] \notin Refused
  BY <1>7 DEF RefusedOK
<1> QED BY <1>2, <1>4, <1>5, <1>6, <1>7

\* A refusal is final: a request that ends REJECTED or FAILED costs nothing in
\* HCM after any number of retries and lost replies, unless HCM handles a
\* command after the client has given up on it (the timeout of HttpHcmClient).
THEOREM RefusalsAreFinal ==
  ASSUME "late" \notin Faults
  PROVE  Spec => []RefusedNeverDebited
<1>1. Init => RefusalInv
  BY DEF Init, ProcessorInit, DatabaseInit, RefusalInv, RejectionIsTrue, RefusedOK, Refused,
         NoRequest
<1>2. /\ SagaInv /\ SagaInv' /\ BatchInFlight /\ AckedWasSent /\ RefusalInv /\ [Next]_vars
      => RefusalInv'
  <2> SUFFICES ASSUME SagaInv, SagaInv', BatchInFlight, AckedWasSent, RefusalInv, [Next]_vars
               PROVE  RefusalInv'
    OBVIOUS
  <2>1. TypeOK
    BY DEF SagaInv
  <2>2. OutboxForward
    BY <2>1, NextOutbox DEF vars, dbVars, processorVars, OutboxForward, BatchInFlight
  <2> QED BY <2>2, RejectionStaysTrue, RefusedStays DEF RefusalInv
<1>3. RefusalInv => RefusedNeverDebited
  BY DEF RefusalInv, RefusedOK, Refused, RefusedNeverDebited
<1> QED BY <1>1, <1>2, <1>3, SagaInvariant, BatchStaysInFlight, AcksWereSent, PTL DEF Spec

------------------------------------------------------------------------------
(* What HCM's history adds up to *)

\* Requests of a key whose command HCM acknowledged after version v.
After(k, t, v) ==
  { r \in Request : /\ KeyOf[r] = k /\ Acked(<< r, t >>)
                    /\ applied[<< r, t >>].version > v }

\* The acks on a key, and the balances that a row gives it, less the credits
\* and plus the debits acknowledged since: HCM never has fewer days than that.
AcksWithin(k, row) ==
  \A c \in Command : KeyOf[c[1]] = k /\ Acked(c) => applied[c].version \in 1 .. Len(row)

RowOK(k, row) ==
  \A v \in DOMAIN row :
    row[v] + Cost(After(k, "CREDIT", v)) <= row[Len(row)] + Cost(After(k, "DEBIT", v))

HistoryOK(k) == AcksWithin(k, hcm[k]) /\ RowOK(k, hcm[k])

\* HCM takes days before it gives them back.
OrderOK(r) ==
  Acked(Credit(r)) =>
    /\ Acked(Debit(r))
    /\ applied[Debit(r)].version < applied[Credit(r)].version

\* The commands acknowledged are those of existing requests.
LEMMA AfterIsFinite ==
  ASSUME SagaInv, AckedWasSent, FiniteDays(Existing), NEW k, NEW t \in OutboxType, NEW v
  PROVE  FiniteDays(After(k, t, v)) /\ Cost(After(k, t, v)) \in Nat
<1>1. After(k, t, v) \subseteq Existing
  <2> SUFFICES ASSUME NEW r \in After(k, t, v) PROVE status[r] # NoRequest
    BY DEF After, Existing
  <2>1. r \in Request /\ Acked(<< r, t >>) /\ << r, t >> \in Command
    BY DEF After, Command
  <2>2. Sent(r, t)
    BY <2>1 DEF AckedWasSent
  <2> QED BY <2>1, <2>2 DEF SagaInv, RequestOK, OutboxType, NoRequest
<1> QED BY <1>1, CostGrows

\* An unknown key has no acks, so a row of one zero adds up.
LEMMA ReferencedOK ==
  ASSUME TypeOK, NEW k \in Key, HistoryOK(k)
  PROVE  /\ Referenced(k) \in Seq(Int) /\ Len(Referenced(k)) >= 1
         /\ Len(hcm[k]) <= Len(Referenced(k))
         /\ AcksWithin(k, Referenced(k)) /\ RowOK(k, Referenced(k))
<1>0. hcm[k] \in Seq(Int)
  BY DEF TypeOK, HcmTypeOK
<1>1. CASE hcm[k] # << >>
  BY <1>0, <1>1 DEF Referenced, HistoryOK
<1>2. CASE hcm[k] = << >>
  <2>1. Referenced(k) = << 0 >>
    BY <1>2 DEF Referenced
  <2>2. \A c \in Command : KeyOf[c[1]] = k => ~Acked(c)
    BY <1>2 DEF HistoryOK, AcksWithin
  <2>3. After(k, "CREDIT", 1) = {} /\ After(k, "DEBIT", 1) = {}
    BY <2>2 DEF After, Command, OutboxType
  <2>4. \A v \in DOMAIN << 0 >> : v = 1 /\ << 0 >>[v] = 0
    OBVIOUS
  <2>5. RowOK(k, << 0 >>)
    <3>1. Cost(After(k, "CREDIT", 1)) = 0 /\ Cost(After(k, "DEBIT", 1)) = 0
      BY <2>3, CostOfOne
    <3>2. Len(<< 0 >>) = 1 /\ << 0 >>[1] = 0
      OBVIOUS
    <3> SUFFICES ASSUME NEW v \in DOMAIN << 0 >>
                 PROVE  << 0 >>[v] + Cost(After(k, "CREDIT", v))
                          <= << 0 >>[Len(<< 0 >>)] + Cost(After(k, "DEBIT", v))
      BY DEF RowOK
    <3>3. v = 1
      BY <2>4
    <3> QED BY <3>1, <3>2, <3>3
  <2>6. AcksWithin(k, << 0 >>)
    BY <2>2 DEF AcksWithin
  <2> QED BY <1>2, <2>1, <2>5, <2>6
<1> QED BY <1>1, <1>2

\* HCM raises a balance by itself.
RaisesTo(k, b) ==
  /\ hcm'[k] = Append(hcm[k], b) /\ b \in Int
  /\ hcm[k] # << >> => b >= CurrentBalance(k)

\* It applies a command it has not seen.
AppliesTo(k, c) ==
  /\ KeyOf[c[1]] = k /\ ~Acked(c)
  /\ hcm'[k] = Append(Referenced(k), Referenced(k)[Len(Referenced(k))] + Signed(c))
  /\ applied' = [applied EXCEPT ![c] = [version |-> Len(hcm'[k]), applied |-> TRUE]]

AcksKept(k) == \A c \in Command : KeyOf[c[1]] = k => applied'[c] = applied[c]

\* The ways a row of HCM changes.
RowStep(k) ==
  \/ hcm'[k] = hcm[k] /\ AcksKept(k)
  \/ (\E b : RaisesTo(k, b)) /\ AcksKept(k)
  \/ \E c \in Command : AppliesTo(k, c)

\* An honest HCM changes it in no other.
LEMMA WhoWrites ==
  ASSUME {"ghostSuccess", "decrease"} \intersect Faults = {},
         TypeOK, [Next]_vars, NEW k \in Key
  PROVE  RowStep(k)
<1>0. /\ hcm \in [Key -> Seq(Int)] /\ hcm[k] \in Seq(Int)
      /\ applied \in [Command -> [version : Nat, applied : BOOLEAN]]
      /\ \A i \in DOMAIN outbox : outbox[i] \in OutboxMessage
  BY DEF TypeOK, HcmTypeOK, DatabaseTypeOK
<1>1. CASE UNCHANGED hcmVars
  BY <1>1 DEF hcmVars, AcksKept, RowStep
<1>2. ASSUME NEW q \in Key, HcmMoves(q) PROVE RowStep(k)
  <2>1. UNCHANGED applied
    BY <1>2 DEF HcmMoves, Seed, Adjust, GetBalance
  <2>2. AcksKept(k)
    BY <2>1 DEF AcksKept
  <2>3. CASE q # k
    <3>1. hcm'[k] = hcm[k]
      BY <1>0, <1>2, <2>3 DEF HcmMoves, Seed, Adjust, GetBalance
    <3> QED BY <2>2, <3>1 DEF RowStep
  <2>4. CASE q = k /\ \E b \in SeedBalances : Seed(k, b)
    <3>1. PICK b \in SeedBalances : Seed(k, b)
      BY <2>4
    <3>2. b \in Int
      BY BoundsAssumption
    <3>3. RaisesTo(k, b)
      BY <1>0, <3>1, <3>2 DEF Seed, MayBecome, RaisesTo
    <3> QED BY <2>2, <3>3 DEF RowStep
  <2>5. CASE q = k /\ \E d \in Adjustments : Adjust(k, d)
    <3>1. PICK d \in Adjustments : Adjust(k, d)
      BY <2>5
    <3> DEFINE b == CurrentBalance(k) + d
    <3>2. b \in Int
      <4>1. CurrentBalance(k) \in Int
        BY <1>0, <3>1 DEF Adjust, CurrentBalance, Version
      <4> QED BY <4>1, BoundsAssumption
    <3>3. RaisesTo(k, b)
      BY <1>0, <3>1, <3>2 DEF Adjust, MayBecome, RaisesTo
    <3> QED BY <2>2, <3>3 DEF RowStep
  <2>6. CASE q = k /\ GetBalance(k)
    <3>1. hcm[k] = << >> /\ hcm'[k] = << 0 >>
      BY <1>0, <2>6 DEF GetBalance, Referenced
    <3>2. RaisesTo(k, 0)
      BY <3>1 DEF RaisesTo
    <3> QED BY <2>2, <3>2 DEF RowStep
  <2> QED BY <1>2, <2>3, <2>4, <2>5, <2>6 DEF HcmMoves
<1>3. ASSUME NEW c \in Command, NEW outcome, ApplyDelta(c, outcome) PROVE RowStep(k)
  <2> DEFINE l == KeyOf[c[1]]
             row == Referenced(l)
             next == row[Len(row)] + Signed(c)
  <2>1. \/ UNCHANGED hcmVars
        \/ hcm' = [hcm EXCEPT ![l] = row] /\ UNCHANGED applied
        \/ ~Prior(c) /\ Acknowledge(c, Append(row, next), TRUE)
    BY <1>3 DEF ApplyDelta
  <2>2. l \in Key
    BY RequestAssumption DEF Command
  <2>3. CASE hcm' = [hcm EXCEPT ![l] = row] /\ UNCHANGED applied
    <3>1. AcksKept(k)
      BY <2>3 DEF AcksKept
    <3>2. CASE l # k
      BY <1>0, <2>2, <2>3, <3>1, <3>2 DEF RowStep
    <3>3. CASE l = k /\ hcm[k] # << >>
      BY <1>0, <2>3, <3>1, <3>3 DEF Referenced, RowStep
    <3>4. CASE l = k /\ hcm[k] = << >>
      <4>1. hcm'[k] = << 0 >>
        BY <1>0, <2>3, <3>4 DEF Referenced
      <4>2. RaisesTo(k, 0)
        BY <3>4, <4>1 DEF RaisesTo
      <4> QED BY <3>1, <4>2 DEF RowStep
    <3> QED BY <3>2, <3>3, <3>4
  <2>4. CASE ~Prior(c) /\ Acknowledge(c, Append(row, next), TRUE)
    <3>1. /\ hcm' = [hcm EXCEPT ![l] = Append(row, next)]
          /\ applied' = [applied EXCEPT ![c] = [version |-> Len(Append(row, next)),
                                                applied |-> TRUE]]
      BY <2>4 DEF Acknowledge
    <3>2. CASE l # k
      <4>1. hcm'[k] = hcm[k] /\ AcksKept(k)
        BY <1>0, <2>2, <3>1, <3>2 DEF AcksKept
      <4> QED BY <4>1 DEF RowStep
    <3>3. CASE l = k
      <4>1. hcm'[k] = Append(row, next)
        BY <1>0, <2>2, <3>1, <3>3
      <4>2. AppliesTo(k, c)
        BY <2>4, <3>1, <3>3, <4>1 DEF AppliesTo, Acked, Prior
      <4> QED BY <4>2 DEF RowStep
    <3> QED BY <3>2, <3>3
  <2> QED BY <1>1, <2>1, <2>3, <2>4
<1>4. ASSUME NEW i \in DOMAIN outbox, CallHcm(i) PROVE RowStep(k)
  <2>1. CommandOf(i) \in Command
    BY <1>0 DEF OutboxMessage, CommandOf, Command
  <2> QED BY <1>3, <1>4, <2>1 DEF CallHcm
<1>5. \/ UNCHANGED hcmVars
      \/ \E q \in Key : HcmMoves(q)
      \/ \E i \in DOMAIN outbox : CallHcm(i)
      \/ \E c \in Command : \E outcome : ApplyDelta(c, outcome)
  BY DEF Next, vars, hcmVars, Lifecycle, SnapshotArrives, ClaimDue, Deliver, CallRefused,
         CallTimesOut, LoseReply, ApplySuccess, ApplyRejection, ApplyTransientFailure,
         Settle, HcmHandlesLate, DrainStops
<1> QED BY <1>1, <1>2, <1>3, <1>4, <1>5

\* Where HCM applies a command, the history goes on adding up.
LEMMA ApplyAddsUp ==
  ASSUME SagaInv, AckedWasSent, FiniteDays(Existing), NEW k \in Key, HistoryOK(k),
         NEW c \in Command, AppliesTo(k, c)
  PROVE  HistoryOK(k)'
<1> DEFINE row == Referenced(k)
           r == c[1]
<1> PICK n : n = Len(row)
  OBVIOUS
<1>0. /\ r \in Request /\ c[2] \in OutboxType /\ c = << r, c[2] >>
      /\ applied \in [Command -> [version : Nat, applied : BOOLEAN]]
      /\ KeyOf[r] = k /\ ~Acked(c)
  BY DEF Command, AppliesTo, SagaInv, TypeOK, HcmTypeOK
<1>1. /\ row \in Seq(Int) /\ n \in Nat /\ n >= 1
      /\ AcksWithin(k, row) /\ RowOK(k, row)
  BY ReferencedOK DEF SagaInv
<1>2. Days[r] \in Nat /\ Signed(c) \in Int
      /\ Signed(c) = IF c[2] = "DEBIT" THEN - Days[r] ELSE Days[r]
  BY <1>0, RequestAssumption DEF Signed
<1> DEFINE next == row[n] + Signed(c)
<1>3. row[n] \in Int /\ next \in Int
  BY <1>1, <1>2
<1>4. hcm'[k] = Append(row, next)
  BY DEF AppliesTo
<1> HIDE DEF next, row
<1>5. /\ Len(hcm'[k]) = n + 1 /\ DOMAIN hcm'[k] = 1 .. n + 1
      /\ hcm'[k][n + 1] = next
      /\ \A v \in 1 .. n : hcm'[k][v] = row[v] /\ row[v] \in Int
  BY <1>1, <1>3, <1>4
<1>6. /\ applied' = [applied EXCEPT ![c] = [version |-> n + 1, applied |-> TRUE]]
      /\ applied'[c].version = n + 1 /\ Acked(c)'
      /\ \A d \in Command : d # c => applied'[d] = applied[d]
  BY <1>0, <1>5 DEF AppliesTo, Acked, NoAck
<1>7. AcksWithin(k, hcm[k])'
  <2> SUFFICES ASSUME NEW d \in Command, KeyOf[d[1]] = k, Acked(d)'
               PROVE  applied'[d].version \in 1 .. n + 1
    BY <1>5 DEF AcksWithin
  <2>1. CASE d = c
    BY <1>1, <1>6, <2>1
  <2>2. CASE d # c
    <3>1. Acked(d) /\ applied'[d] = applied[d]
      BY <1>6, <2>2 DEF Acked
    <3>2. applied[d].version \in 1 .. n
      BY <1>1, <3>1 DEF AcksWithin
    <3> QED BY <1>1, <3>1, <3>2
  <2> QED BY <2>1, <2>2
<1>8. \A t \in OutboxType : \A v \in 1 .. n :
        /\ r \notin After(k, c[2], v)
        /\ After(k, t, v)' = IF t = c[2] THEN After(k, t, v) \union {r} ELSE After(k, t, v)
  <2> SUFFICES ASSUME NEW t \in OutboxType, NEW v \in 1 .. n
               PROVE  /\ r \notin After(k, c[2], v)
                      /\ After(k, t, v)' = IF t = c[2] THEN After(k, t, v) \union {r}
                                                       ELSE After(k, t, v)
    OBVIOUS
  <2>1. r \notin After(k, c[2], v)
    BY <1>0 DEF After
  <2>2. \A q \in Request : << q, t >> \in Command /\ (<< q, t >> = c <=> q = r /\ t = c[2])
    BY <1>0 DEF Command
  <2>3. \A q \in Request : << q, t >> # c =>
          (Acked(<< q, t >>)' <=> Acked(<< q, t >>))
          /\ applied'[<< q, t >>] = applied[<< q, t >>]
    BY <1>6, <2>2 DEF Acked
  <2>4. CASE t = c[2]
    <3>1. r \in After(k, t, v)'
      <4>1. << r, t >> = c /\ n + 1 > v
        BY <1>0, <1>1, <2>4
      <4> QED BY <1>0, <1>6, <4>1 DEF After
    <3>2. \A q \in Request \ {r} : q \in After(k, t, v)' <=> q \in After(k, t, v)
      BY <2>2, <2>3 DEF After
    <3> QED BY <1>0, <2>1, <2>4, <3>1, <3>2 DEF After
  <2>5. CASE t # c[2]
    <3>1. \A q \in Request : q \in After(k, t, v)' <=> q \in After(k, t, v)
      BY <2>2, <2>3, <2>5 DEF After
    <3> QED BY <2>1, <2>5, <3>1 DEF After
  <2> QED BY <2>1, <2>4, <2>5
<1>9. \A t : After(k, t, n + 1)' = {} \/ t \notin OutboxType
  <2> SUFFICES ASSUME NEW t \in OutboxType, NEW q \in After(k, t, n + 1)' PROVE FALSE
    OBVIOUS
  <2>1. /\ << q, t >> \in Command /\ KeyOf[q] = k /\ Acked(<< q, t >>)'
        /\ applied'[<< q, t >>].version > n + 1
    BY DEF After, Command
  <2>2. applied'[<< q, t >>].version \in 1 .. n + 1
    BY <1>5, <1>7, <2>1 DEF AcksWithin
  <2> QED BY <1>1, <2>1, <2>2
<1>10. \A v \in 1 .. n + 1 :
         hcm'[k][v] + Cost(After(k, "CREDIT", v)') <= next + Cost(After(k, "DEBIT", v)')
  <2> SUFFICES ASSUME NEW v \in 1 .. n + 1
               PROVE  hcm'[k][v] + Cost(After(k, "CREDIT", v)')
                        <= next + Cost(After(k, "DEBIT", v)')
    OBVIOUS
  <2>1. CASE v = n + 1
    <3>1. After(k, "CREDIT", v)' = {} /\ After(k, "DEBIT", v)' = {}
      BY <1>9, <2>1 DEF OutboxType
    <3>2. Cost(After(k, "CREDIT", v)') = 0 /\ Cost(After(k, "DEBIT", v)') = 0
      BY <3>1, CostOfOne
    <3> QED BY <1>3, <1>5, <2>1, <3>2
  <2>2. CASE v \in 1 .. n
    <3> DEFINE Cs == After(k, "CREDIT", v)
               Ds == After(k, "DEBIT", v)
    <3>1. FiniteDays(Cs) /\ Cost(Cs) \in Nat /\ FiniteDays(Ds) /\ Cost(Ds) \in Nat
      BY AfterIsFinite DEF OutboxType
    <3>2. row[v] + Cost(Cs) <= row[n] + Cost(Ds) /\ hcm'[k][v] = row[v] /\ row[v] \in Int
      BY <1>1, <1>5, <2>2 DEF RowOK
    <3>3. CASE c[2] = "DEBIT"
      <4>1. Cs' = Cs /\ Ds' = Ds \union {r} /\ r \notin Ds
        BY <1>8, <2>2, <3>3 DEF OutboxType
      <4> HIDE DEF Cs, Ds
      <4>2. Cost(Ds \union {r}) = Cost(Ds) + Days[r]
        BY <1>0, <3>1, <4>1, CostOfMore
      <4>3. next = row[n] - Days[r]
        BY <1>2, <1>3, <3>3 DEF next
      <4>4. hcm'[k][v] + Cost(Cs') <= next + Cost(Ds')
        BY <1>2, <1>3, <3>1, <3>2, <4>1, <4>2, <4>3
      <4> QED BY <4>4 DEF Cs, Ds
    <3>4. CASE c[2] = "CREDIT"
      <4>1. Ds' = Ds /\ Cs' = Cs \union {r} /\ r \notin Cs
        BY <1>8, <2>2, <3>4 DEF OutboxType
      <4> HIDE DEF Cs, Ds
      <4>2. Cost(Cs \union {r}) = Cost(Cs) + Days[r]
        BY <1>0, <3>1, <4>1, CostOfMore
      <4>3. next = row[n] + Days[r]
        BY <1>2, <1>3, <3>4 DEF next
      <4>4. row[v] + (Cost(Cs) + Days[r]) <= row[n] + Days[r] + Cost(Ds)
        BY <1>2, <1>3, <3>1, <3>2
      <4>5. hcm'[k][v] + Cost(Cs') <= next + Cost(Ds')
        BY <3>2, <4>1, <4>2, <4>3, <4>4
      <4> QED BY <4>5 DEF Cs, Ds
    <3> QED BY <1>0, <3>3, <3>4 DEF OutboxType
  <2> QED BY <1>1, <2>1, <2>2
<1>11. RowOK(k, hcm[k])'
  <2>1. \A t, v : Cost(After(k, t, v))' = Cost(After(k, t, v)')
    BY DEF Cost, Total, Asked
  <2>2. hcm'[k][Len(hcm'[k])] = next
    BY <1>5
  <2> QED BY <1>5, <1>10, <2>1, <2>2 DEF RowOK
<1> QED BY <1>7, <1>11 DEF HistoryOK

\* So it does where HCM raises a balance by itself.
LEMMA RaiseAddsUp ==
  ASSUME SagaInv, AckedWasSent, FiniteDays(Existing), NEW k \in Key, HistoryOK(k),
         NEW b, RaisesTo(k, b), AcksKept(k)
  PROVE  HistoryOK(k)'
<1> DEFINE row == hcm[k]
<1> PICK n : n = Len(row)
  OBVIOUS
<1>0. row \in Seq(Int) /\ n \in Nat /\ b \in Int
  BY DEF RaisesTo, SagaInv, TypeOK, HcmTypeOK
<1>1. /\ Len(hcm'[k]) = n + 1 /\ DOMAIN hcm'[k] = 1 .. n + 1
      /\ hcm'[k][n + 1] = b
      /\ \A v \in 1 .. n : hcm'[k][v] = row[v] /\ row[v] \in Int /\ row[n] \in Int
  BY <1>0 DEF RaisesTo
<1>2. \A v \in 1 .. n : row[n] <= b
  BY <1>0 DEF RaisesTo, CurrentBalance, Version
<1>3. \A t \in OutboxType : \A v : After(k, t, v)' = After(k, t, v)
  BY DEF After, AcksKept, Acked, Command
<1>4. \A t \in OutboxType : After(k, t, n + 1) = {}
  <2> SUFFICES ASSUME NEW t \in OutboxType, NEW q \in After(k, t, n + 1) PROVE FALSE
    OBVIOUS
  <2>1. /\ << q, t >> \in Command /\ KeyOf[q] = k /\ Acked(<< q, t >>)
        /\ applied[<< q, t >>].version > n + 1
    BY DEF After, Command
  <2>2. applied[<< q, t >>].version \in 1 .. n
    BY <2>1 DEF HistoryOK, AcksWithin
  <2> QED BY <1>0, <2>1, <2>2
<1>5. AcksWithin(k, hcm[k])'
  <2> SUFFICES ASSUME NEW d \in Command, KeyOf[d[1]] = k, Acked(d)'
               PROVE  applied'[d].version \in 1 .. n + 1
    BY <1>1 DEF AcksWithin
  <2>1. Acked(d) /\ applied'[d] = applied[d]
    BY DEF AcksKept, Acked
  <2>2. applied[d].version \in 1 .. n
    BY <2>1 DEF HistoryOK, AcksWithin
  <2> QED BY <1>0, <2>1, <2>2
<1>6. \A v \in 1 .. n + 1 :
        hcm'[k][v] + Cost(After(k, "CREDIT", v)) <= b + Cost(After(k, "DEBIT", v))
  <2> SUFFICES ASSUME NEW v \in 1 .. n + 1
               PROVE  hcm'[k][v] + Cost(After(k, "CREDIT", v))
                        <= b + Cost(After(k, "DEBIT", v))
    OBVIOUS
  <2>1. CASE v = n + 1
    <3>1. Cost(After(k, "CREDIT", v)) = 0 /\ Cost(After(k, "DEBIT", v)) = 0
      BY <1>4, <2>1, CostOfOne DEF OutboxType
    <3> QED BY <1>0, <1>1, <2>1, <3>1
  <2>2. CASE v \in 1 .. n
    <3>1. Cost(After(k, "CREDIT", v)) \in Nat /\ Cost(After(k, "DEBIT", v)) \in Nat
      BY AfterIsFinite DEF OutboxType
    <3>2. row[v] + Cost(After(k, "CREDIT", v)) <= row[n] + Cost(After(k, "DEBIT", v))
      BY <1>0, <2>2 DEF HistoryOK, RowOK
    <3>3. /\ hcm'[k][v] = row[v] /\ row[v] \in Int /\ row[n] \in Int /\ row[n] <= b
      BY <1>1, <1>2, <2>2
    <3> HIDE DEF row
    <3> QED BY <1>0, <3>1, <3>2, <3>3
  <2> QED BY <1>0, <2>1, <2>2
<1>7. RowOK(k, hcm[k])'
  <2>1. \A v : /\ Cost(After(k, "CREDIT", v))' = Cost(After(k, "CREDIT", v))
               /\ Cost(After(k, "DEBIT", v))' = Cost(After(k, "DEBIT", v))
    BY <1>3 DEF Cost, Total, Asked, OutboxType
  <2>2. hcm'[k][Len(hcm'[k])] = b
    BY <1>1
  <2> QED BY <1>1, <1>6, <2>1, <2>2 DEF RowOK
<1> QED BY <1>5, <1>7 DEF HistoryOK

\* Within an honest HCM every row adds up, and every credit follows its debit.
HcmAddsUp ==
  /\ \A k \in Key : HistoryOK(k)
  /\ \A r \in Request : OrderOK(r)

\* A credit is acknowledged after the debit that its message came from.
LEMMA OrderStays ==
  ASSUME SagaInv, SagaInv', AckedWasSent', [Next]_vars, NEW r \in Request, OrderOK(r),
         HistoryOK(KeyOf[r]), RowStep(KeyOf[r])
  PROVE  OrderOK(r)'
<1> DEFINE k == KeyOf[r]
<1>0. /\ TypeOK /\ k \in Key /\ Credit(r) \in Command /\ Debit(r) \in Command
      /\ Credit(r) # Debit(r)
      /\ applied \in [Command -> [version : Nat, applied : BOOLEAN]]
      /\ hcm[k] \in Seq(Int)
  BY RequestAssumption DEF SagaInv, Credit, Debit, Command, OutboxType, TypeOK, HcmTypeOK
<1>1. SUFFICES ASSUME Acked(Credit(r))'
               PROVE  /\ Acked(Debit(r))'
                      /\ applied'[Debit(r)].version < applied'[Credit(r)].version
  BY DEF OrderOK, Credit, Debit
<1>2. Acked(Debit(r))'
  <2>1. Sent(r, "CREDIT")'
    BY <1>0, <1>1 DEF AckedWasSent, Credit
  <2> QED BY <2>1 DEF SagaInv, RequestOK, Debit
<1>3. CASE Acked(Credit(r))
  <2>1. /\ Acked(Debit(r))
        /\ applied[Debit(r)].version < applied[Credit(r)].version
    BY <1>3 DEF OrderOK
  <2>2. applied'[Debit(r)] = applied[Debit(r)] /\ applied'[Credit(r)] = applied[Credit(r)]
    BY <1>0, <1>3, <2>1, AcksStay
  <2> QED BY <1>2, <2>1, <2>2
<1>4. CASE ~Acked(Credit(r))
  <2>1. KeyOf[Credit(r)[1]] = k /\ KeyOf[Debit(r)[1]] = k
    BY DEF Credit, Debit
  <2>2. applied'[Credit(r)] # applied[Credit(r)]
    BY <1>1, <1>4 DEF Acked
  <2>3. PICK c \in Command : AppliesTo(k, c)
    BY <1>0, <2>1, <2>2 DEF RowStep, AcksKept
  <2>4. c = Credit(r)
    BY <1>0, <2>2, <2>3 DEF AppliesTo
  <2>5. applied'[Debit(r)] = applied[Debit(r)] /\ applied'[Credit(r)].version = Len(hcm'[k])
    BY <1>0, <2>3, <2>4 DEF AppliesTo
  <2>6. applied[Debit(r)].version \in 1 .. Len(hcm[k])
    <3>1. Acked(Debit(r))
      BY <1>2, <2>5 DEF Acked, Debit
    <3> QED BY <1>0, <2>1, <3>1 DEF HistoryOK, AcksWithin
  <2>7. Len(hcm[k]) < Len(hcm'[k])
    <3>1. /\ Referenced(k) \in Seq(Int) /\ Len(hcm[k]) <= Len(Referenced(k))
      BY <1>0, ReferencedOK
    <3>2. PICK x : hcm'[k] = Append(Referenced(k), x)
      BY <2>3 DEF AppliesTo
    <3>3. Len(hcm'[k]) = Len(Referenced(k)) + 1
      BY <3>1, <3>2
    <3> QED BY <1>0, <3>1, <3>3
  <2> QED BY <1>0, <1>2, <2>5, <2>6, <2>7
<1> QED BY <1>3, <1>4

\* HCM that applies what it acknowledges, and lowers no balance, adds up.
LEMMA HcmAlwaysAddsUp ==
  ASSUME {"ghostSuccess", "decrease"} \intersect Faults = {}
  PROVE  Spec => []HcmAddsUp
<1>1. Init => HcmAddsUp
  <2> SUFFICES ASSUME Init PROVE HcmAddsUp
    OBVIOUS
  <2>1. /\ \A c \in Command : ~Acked(c)
        /\ \A k \in Key : hcm[k] = << >>
    BY DEF Init, HcmInit, Acked
  <2>2. \A r \in Request : ~Acked(Credit(r))
    BY <2>1 DEF Credit, Command, OutboxType
  <2>3. \A k \in Key : RowOK(k, hcm[k])
    BY <2>1 DEF RowOK
  <2> QED BY <2>1, <2>2, <2>3 DEF HcmAddsUp, HistoryOK, AcksWithin, OrderOK
<1>2. /\ SagaInv /\ SagaInv' /\ AckedWasSent /\ AckedWasSent' /\ BooksOK
      /\ HcmAddsUp /\ [Next]_vars
      => HcmAddsUp'
  <2> SUFFICES ASSUME SagaInv, SagaInv', AckedWasSent, AckedWasSent', BooksOK, HcmAddsUp,
                      [Next]_vars
               PROVE  HcmAddsUp'
    OBVIOUS
  <2>1. TypeOK /\ FiniteDays(Existing)
    BY DEF SagaInv, BooksOK
  <2>2. \A k \in Key : RowStep(k)
    BY <2>1, WhoWrites
  <2>3. ASSUME NEW k \in Key PROVE HistoryOK(k)'
    <3>1. HistoryOK(k) /\ RowStep(k)
      BY <2>2 DEF HcmAddsUp
    <3>2. CASE hcm'[k] = hcm[k] /\ AcksKept(k)
      <4>1. \A t \in OutboxType : \A v : After(k, t, v)' = After(k, t, v)
        BY <3>2 DEF After, AcksKept, Acked, Command
      <4>2. \A v : /\ Cost(After(k, "CREDIT", v))' = Cost(After(k, "CREDIT", v))
                   /\ Cost(After(k, "DEBIT", v))' = Cost(After(k, "DEBIT", v))
        BY <4>1 DEF Cost, Total, Asked, OutboxType
      <4>3. RowOK(k, hcm[k])'
        BY <3>1, <3>2, <4>2 DEF HistoryOK, RowOK
      <4>4. AcksWithin(k, hcm[k])'
        BY <3>1, <3>2 DEF HistoryOK, AcksWithin, AcksKept, Acked
      <4> QED BY <4>3, <4>4 DEF HistoryOK
    <3> QED BY <2>1, <3>1, <3>2, ApplyAddsUp, RaiseAddsUp DEF RowStep
  <2>4. ASSUME NEW r \in Request PROVE OrderOK(r)'
    BY <2>2, OrderStays, RequestAssumption DEF HcmAddsUp
  <2> QED BY <2>3, <2>4 DEF HcmAddsUp
<1> QED BY <1>1, <1>2, SagaInvariant, AcksWereSent, SupportAlways, PTL DEF Spec

------------------------------------------------------------------------------
(* The service's promises fit in HCM's balance *)

\* What the service owes and what HCM has debited since the snapshot, the
\* service subtracts, or HCM has credited since, or the request leaked.
LEMMA PromisesFit ==
  ASSUME BooksOK, AckedWasSent, HcmAddsUp, SnapshotIsHistoric, CommittedDaysCounted,
         RefusedNeverDebited, NEW k \in Key, HasBalance(k)
  PROVE  Available(k) + Cost(Owed(k)) <= CurrentBalance(k) + Cost(Leaked(k))
<1> PICK w : w = Watermark(k)
  OBVIOUS
<1> DEFINE Cred == After(k, "CREDIT", w)
           Deb == After(k, "DEBIT", w)
           T == Taken(k)
           L == Leaked(k)
           O == Owed(k)
<1>0. /\ SagaInv /\ FiniteDays(Existing) /\ HistoryOK(k)
      /\ hcm[k] \in Seq(Int) /\ applied \in [Command -> [version : Nat, applied : BOOLEAN]]
  BY DEF BooksOK, HcmAddsUp, SagaInv, TypeOK, HcmTypeOK
<1>1. w \in DOMAIN hcm[k] /\ balance[k].hcmBalance = hcm[k][w]
  BY DEF SnapshotIsHistoric
<1>2. /\ hcm[k][w] + Cost(Cred) <= CurrentBalance(k) + Cost(Deb)
      /\ hcm[k][w] \in Int /\ CurrentBalance(k) \in Int
  BY <1>0, <1>1 DEF HistoryOK, RowOK, CurrentBalance, Version
<1>3. Available(k) = hcm[k][w] - Cost(T) /\ FiniteDays(T) /\ Cost(T) \in Nat
  BY <1>1, AvailableIs DEF SumsOK
<1>4. FiniteDays(Deb) /\ Cost(Deb) \in Nat /\ FiniteDays(Cred) /\ Cost(Cred) \in Nat
  BY <1>0, AfterIsFinite DEF OutboxType
<1>5. FiniteDays(L) /\ Cost(L) \in Nat
  <2>1. L \subseteq Existing
    BY DEF Leaked, Cancelled, Existing, NoRequest
  <2> QED BY <1>0, <2>1, CostGrows
<1>6. O \subseteq T
  BY DEF Owed, Waiting, Taken, Holding
<1>7. FiniteDays(O) /\ Cost(O) \in Nat
  BY <1>3, <1>6, CostGrows
<1>8. O \intersect Deb = {}
  BY DEF Owed, Waiting, After, Debit
<1>9. Deb \subseteq (T \union L) \union Cred
  <2> SUFFICES ASSUME NEW r \in Deb, r \notin T, r \notin L PROVE r \in Cred
    OBVIOUS
  <2>1. /\ r \in Request /\ KeyOf[r] = k /\ Acked(Debit(r))
        /\ applied[Debit(r)].version > w
        /\ Debit(r) \in Command /\ Debit(r) = << r, "DEBIT" >>
    BY DEF After, Debit, Command, OutboxType
  <2>2. RequestOK(r) /\ Sent(r, "DEBIT")
    BY <1>0, <2>1 DEF AckedWasSent, SagaInv
  <2>3. status[r] \notin {NoRequest, "DRAFT", "PENDING_APPROVAL", "APPROVED"}
    BY <2>1, <2>2 DEF RequestOK, Taken, Holding
  <2>4. status[r] \notin {"REJECTED", "FAILED"}
    BY <2>1 DEF RefusedNeverDebited
  <2>5. status[r] \notin Committed
    <3>1. SUFFICES ASSUME status[r] \in Committed PROVE IsCounted(r)
      BY <2>1 DEF Taken
    <3>2. PICK i \in DOMAIN ledger[r] :
            /\ ledger[r][i].phase = "COMMIT"
            /\ ledger[r][i].hcmVersion = applied[Debit(r)].version
            /\ \/ ledger[r][i].state = "ACTIVE"
               \/ /\ ledger[r][i].state = "RECONCILED"
                  /\ ledger[r][i].hcmVersion <= Watermark(KeyOf[r])
      BY <2>1, <3>1 DEF CommittedDaysCounted
    <3>3. ~(applied[Debit(r)].version <= w)
      BY <1>0, <1>1, <2>1
    <3>4. ledger[r][i].state = "ACTIVE"
      BY <2>1, <3>2, <3>3
    <3> QED BY <3>2, <3>4 DEF IsCounted, Active
  <2>6. status[r] = "CANCELLED"
    <3>1. status[r] \in RequestStatus \union {NoRequest}
      BY <1>0, <2>1 DEF SagaInv, TypeOK, DatabaseTypeOK
    <3> QED BY <2>3, <2>4, <2>5, <3>1 DEF RequestStatus, Committed
  <2>7. Acked(Credit(r))
    BY <2>1, <2>6 DEF Leaked, Cancelled
  <2>8. applied[Debit(r)].version < applied[Credit(r)].version
    BY <2>1, <2>7 DEF HcmAddsUp, OrderOK
  <2>9. applied[Credit(r)].version \in Nat
    BY <1>0, <2>1 DEF Credit, Command, OutboxType
  <2>10. applied[Credit(r)].version > w
    BY <1>0, <1>1, <2>1, <2>8, <2>9
  <2> QED BY <2>1, <2>7, <2>10 DEF After, Credit
<1> HIDE DEF T, L, O, Cred, Deb
<1>10. FiniteDays((T \union L) \union Cred)
       /\ Cost((T \union L) \union Cred) <= Cost(T) + Cost(L) + Cost(Cred)
  <2>1. /\ FiniteDays(T \union L) /\ Cost(T \union L) \in Nat
        /\ Cost(T \intersect L) \in Nat
        /\ Cost(T \union L) = Cost(T) + Cost(L) - Cost(T \intersect L)
    BY <1>3, <1>5, CostAdds
  <2>2. /\ FiniteDays((T \union L) \union Cred)
        /\ Cost((T \union L) \intersect Cred) \in Nat
        /\ Cost((T \union L) \union Cred)
             = Cost(T \union L) + Cost(Cred) - Cost((T \union L) \intersect Cred)
    BY <1>4, <2>1, CostAdds
  <2> QED BY <1>3, <1>4, <1>5, <2>1, <2>2
<1>11. FiniteDays(O \union Deb) /\ Cost(O \union Deb) = Cost(O) + Cost(Deb)
  <2>1. /\ FiniteDays(O \union Deb)
        /\ Cost(O \union Deb) = Cost(O) + Cost(Deb) - Cost(O \intersect Deb)
    BY <1>4, <1>7, CostAdds
  <2>2. Cost(O \intersect Deb) = 0
    BY <1>8, CostOfOne
  <2> QED BY <1>4, <1>7, <2>1, <2>2
<1>12. /\ Cost(O \union Deb) <= Cost((T \union L) \union Cred)
       /\ Cost(O \union Deb) \in Nat /\ Cost((T \union L) \union Cred) \in Nat
  <2>1. O \union Deb \subseteq (T \union L) \union Cred
    BY <1>6, <1>9
  <2> QED BY <1>10, <2>1, CostGrows
<1>13. Cost(O) + Cost(Deb) <= Cost(T) + Cost(L) + Cost(Cred)
  BY <1>3, <1>4, <1>5, <1>7, <1>10, <1>11, <1>12
<1>14. Available(k) + Cost(O) <= CurrentBalance(k) + Cost(L)
  BY <1>2, <1>3, <1>4, <1>5, <1>7, <1>13
<1> QED BY <1>14 DEF O, L

\* The service never promises days HCM does not have, however stale its
\* snapshot: what it shows as available and what it has still to debit fit in
\* HCM's balance of this moment.  Three faults excuse it: an HCM that does not
\* apply what it acknowledges, one that lowers a balance by itself, and a debit
\* it handles after the client gave up (applyDelta, HttpHcmClient.request).
THEOREM PromisesAreKept ==
  ASSUME {"ghostSuccess", "decrease", "late"} \intersect Faults = {}
  PROVE  Spec => []NeverOverPromised
<1>1. {"ghostSuccess", "decrease"} \intersect Faults = {} /\ "late" \notin Faults
  OBVIOUS
<1>2. Spec => []HcmAddsUp
  BY <1>1, HcmAlwaysAddsUp
<1>3. Spec => []RefusedNeverDebited
  BY <1>1, RefusalsAreFinal
<1>4. /\ BooksOK /\ AckedWasSent /\ HcmAddsUp /\ SnapshotIsHistoric /\ CommittedDaysCounted
      /\ RefusedNeverDebited
      => NeverOverPromised
  BY PromisesFit DEF NeverOverPromised, Cost
<1> QED BY <1>2, <1>3, <1>4, SupportAlways, AcksWereSent, SnapshotsAreHistoric,
           CommittedDaysStay, PTL

==============================================================================

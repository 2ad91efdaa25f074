--------------------------- MODULE StatementProofs ---------------------------
(***************************************************************************)
(* The calls of Statements, for any number of them on any number of keys:  *)
(* the lock is used as KeyedMutex has it, no request is ever held twice,   *)
(* retried creates agree, and snapshots advance.  Only the statements of   *)
(* submit and reconcileKey run under the lock; all others come in between. *)
(***************************************************************************)
EXTENDS Statements, MutexProofs, TableProofs, FiniteSetTheorems

------------------------------------------------------------------------------
(* The lock *)

\* A step of a call is a step of its lock or leaves the lock alone.
LEMMA UsesMutex == [Next]_vars => [MutexNext]_mutexVars
<1> SUFFICES ASSUME [Next]_vars PROVE [MutexNext]_mutexVars
  OBVIOUS
<1>1. CASE UNCHANGED vars
  BY <1>1 DEF vars
<1>2. CASE HcmAdjusts
  BY <1>2 DEF HcmAdjusts
<1>3. ASSUME NEW c \in Call, Step(c) PROVE [MutexNext]_mutexVars
  <2>1. CASE CreateStatement(c)
    BY <2>1 DEF CreateStatement, FindByKey, Insert
  <2>2. CASE BeforeLock(c)
    BY <2>2 DEF BeforeLock, GetOrThrow, LookForBalance, PullBalance, LoadBalance,
                ReadsOnly, Elsewhere
  <2>3. CASE RunExclusive(c)
    BY <2>3 DEF RunExclusive, EnterMutex, StartTransaction, Unlock, MutexNext
  <2>4. CASE Endpoint(c)
    BY <2>4 DEF Endpoint, FindRequest, CheckBalance, Hold, ReleaseHold, CancelPending,
                SaveRequest, EnqueueMessage, ReadsOnly, Elsewhere
  <2>5. CASE ReconcileStatement(c)
    BY <2>5 DEF ReconcileStatement, ReadRow, ReadEntries, MarkMatched, StoreRow,
                ReadsOnly, Elsewhere
  <2>6. CASE DrainStatement(c)
    BY <2>6 DEF DrainStatement, SelectDue, ClaimMessage, CallHcm, FindOutcomesRequest,
                ReleaseForOutcome, InsertCommit, AdvanceRequest, SettleMessage,
                ReadsOnly, Elsewhere
  <2> QED BY <1>3, <2>1, <2>2, <2>3, <2>4, <2>5, <2>6 DEF Step
<1> QED BY <1>1, <1>2, <1>3 DEF Next

\* The calls use the mutex as KeyedMutex has it, so all that is proved of the
\* mutex holds here.
THEOREM CallsUseMutex == Spec => MutexSpec
<1>1. Init => MutexInit
  BY DEF Init
<1> QED BY <1>1, UsesMutex, PTL DEF Spec, MutexSpec

\* No two transactions of submit or reconcileKey of one key overlap.
THEOREM TransactionsExclude == Spec => []MutualExclusion
BY CallsUseMutex, OneAtATime, PTL

\* The map of tails holds the last call of each key in use and no other key.
THEOREM TailsStayLast == Spec => []TailIsLast
BY CallsUseMutex, TailsAreLast, PTL

\* The calls take the lock of a key in the order in which they came for it.
THEOREM CallsAreServedInOrder == Spec => ImplementsFifoLock
BY CallsUseMutex, MutexIsFifo, PTL

------------------------------------------------------------------------------
(* Where a call may stand, and what it then holds *)

\* The operations that come by a statement.
InProgram(c) ==
  /\ at[c] \in {"findKey", "insert"} => Is(c, "create")
  /\ at[c] \in {"getOrThrow", "look", "pull", "load", "check", "hold"} => Is(c, "submit")
  /\ at[c] \in {"lock", "wait"} => Is(c, "submit") \/ Is(c, "reconcile")
  /\ at[c] \in {"find", "save"} => job[c].op \in {"submit", "approve", "reject", "cancel"}
  /\ at[c] = "release" => job[c].op \in {"reject", "cancel"}
  /\ at[c] = "cancelPending" => Is(c, "cancel")
  /\ at[c] = "enqueue" => job[c].op \in {"approve", "cancel"}
  /\ at[c] \in {"row", "commits", "mark", "store"} => Is(c, "reconcile")

\* The statements of the two transactions that run under the lock.
UnderLock(c) ==
  \/ Is(c, "submit") /\ at[c] \in {"find", "check", "hold", "save"}
  \/ at[c] \in {"row", "commits", "mark", "store"}

Delivering(c) ==
  at[c] \in { "claim", "call", "request", "releaseHold", "commit", "advance", "settle" }

\* Where the status a transaction found is in use, it may be replaced.
FoundLegal(c) ==
  at[c] \in {"check", "hold", "release", "cancelPending", "save"} =>
    CanTransition(local[c].status, ActionOf[job[c].op])

CallOK(c) ==
  /\ InProgram(c)
  /\ FoundLegal(c)
  /\ UnderLock(c) => stage[c] = "inside"
  /\ Delivering(c) => local[c].message \in DOMAIN outbox
  /\ local[c].message \in {0} \union DOMAIN outbox

CallsTypeOK ==
  /\ job \in [Call -> Job] /\ \A c \in Call : KeyOf[Req(c)] = On[c]
  /\ at \in [Call -> Label]
  /\ local \in [Call -> Local]
  /\ answer \in [Call -> Request \union {NoRequest, Failed}]

\* So many statements have run, so many units there are.
UnitsFinite == \A k \in Key, p \in LedgerPhase : IsFiniteSet(UnitsOf(ledger, k, p))

Inv ==
  /\ DatabaseTypeOK /\ HcmTypeOK /\ MutexInv /\ CallsTypeOK /\ UnitsFinite
  /\ \A c \in Call : CallOK(c)

\* A record of locals takes a new value in any of its fields.
LEMMA LocalUpdate ==
  ASSUME NEW l \in Local
  PROVE  /\ \A v \in RequestStatus \union {NoRequest} : [l EXCEPT !.status = v] \in Local
         /\ \A v \in [ balance : Int, version : Nat ] : [l EXCEPT !.row = v] \in Local
         /\ \A v \in [ hcmBalance : Int, lastReconciledVersion : Nat ] :
              [l EXCEPT !.found = v] \in Local
         /\ \A v \in Nat : [l EXCEPT !.committed = v] \in Local
         /\ \A v \in Nat : [l EXCEPT !.message = v] \in Local
         /\ \A v \in { "ack", "rejected", "unavailable" } : [l EXCEPT !.outcome = v] \in Local
         /\ \A m \in SUBSET (Request \X Nat), g \in SUBSET ReconcileEvent :
              [l EXCEPT !.matched = m, !.logged = g] \in Local
BY DEF Local

\* What a call remembers, and that it forgets nothing else it still needs.
LEMMA Remembered ==
  ASSUME NEW c \in Call, local \in [Call -> Local], NEW v
  PROVE  /\ Remember(c, "status", v) =>
              /\ local' = [local EXCEPT ![c] = [local[c] EXCEPT !.status = v]]
              /\ local'[c].status = v /\ local'[c].message = local[c].message
              /\ local'[c].outcome = local[c].outcome
         /\ Remember(c, "row", v) =>
              /\ local' = [local EXCEPT ![c] = [local[c] EXCEPT !.row = v]]
              /\ local'[c].row = v /\ local'[c].message = local[c].message
         /\ Remember(c, "found", v) =>
              /\ local' = [local EXCEPT ![c] = [local[c] EXCEPT !.found = v]]
              /\ local'[c].found = v /\ local'[c].row = local[c].row
              /\ local'[c].message = local[c].message
         /\ Remember(c, "committed", v) =>
              /\ local' = [local EXCEPT ![c] = [local[c] EXCEPT !.committed = v]]
              /\ local'[c].committed = v /\ local'[c].status = local[c].status
              /\ local'[c].message = local[c].message
         /\ Remember(c, "message", v) =>
              /\ local' = [local EXCEPT ![c] = [local[c] EXCEPT !.message = v]]
              /\ local'[c].message = v
         /\ Remember(c, "outcome", v) =>
              /\ local' = [local EXCEPT ![c] = [local[c] EXCEPT !.outcome = v]]
              /\ local'[c].outcome = v /\ local'[c].message = local[c].message
BY DEF Remember, Local

\* Remembering a value of the right type keeps the locals typed.
LEMMA RememberType ==
  ASSUME NEW c \in Call, local \in [Call -> Local]
  PROVE  /\ \A v \in RequestStatus \union {NoRequest} :
              Remember(c, "status", v) => local' \in [Call -> Local]
         /\ \A v \in [ balance : Int, version : Nat ] :
              Remember(c, "row", v) => local' \in [Call -> Local]
         /\ \A v \in [ hcmBalance : Int, lastReconciledVersion : Nat ] :
              Remember(c, "found", v) => local' \in [Call -> Local]
         /\ \A v \in Nat : Remember(c, "committed", v) => local' \in [Call -> Local]
         /\ \A v \in Nat : Remember(c, "message", v) => local' \in [Call -> Local]
         /\ \A v \in { "ack", "rejected", "unavailable" } :
              Remember(c, "outcome", v) => local' \in [Call -> Local]
<1>1. \A l \in Local : [local EXCEPT ![c] = l] \in [Call -> Local]
  OBVIOUS
<1>2. local[c] \in Local
  OBVIOUS
<1> QED BY <1>1, <1>2, LocalUpdate DEF Remember

\* Forgetting everything leaves a record of locals, without a message.
LEMMA EmptyLocal == Empty \in Local /\ Empty.message = 0
BY DEF Empty, Local, NoBalance

\* A step of a call changes nothing of the others.
LEMMA Alone ==
  ASSUME Inv, NEW c \in Call, Step(c)
  PROVE  /\ UNCHANGED job
         /\ \A d \in Call : d # c =>
              /\ at'[d] = at[d] /\ local'[d] = local[d]
              /\ answer'[d] = answer[d] /\ stage'[d] = stage[d]
<1> USE DEF Inv, CallsTypeOK
<1>0. stage \in [Call -> {"idle", "waiting", "inside", "done"}]
  BY DEF MutexInv, MutexTypeOK
<1>1. CASE CreateStatement(c)
  BY <1>1 DEF CreateStatement, FindByKey, Insert, InsertRow, Answer, Goto, mutexVars
<1>2. CASE BeforeLock(c)
  BY <1>2 DEF BeforeLock, GetOrThrow, LookForBalance, PullBalance, LoadBalance,
              ReadsOnly, Elsewhere, Goto, Remember, mutexVars
<1>3. CASE RunExclusive(c)
  BY <1>0, <1>3 DEF RunExclusive, EnterMutex, StartTransaction, Unlock, Enter, Proceed, Leave,
              CarriedRow, Goto, Remember
<1>4. CASE Endpoint(c)
  BY <1>4 DEF Endpoint, FindRequest, CheckBalance, Hold, ReleaseHold, CancelPending,
              SaveRequest, EnqueueMessage, ReadsOnly, Elsewhere, Goto, Remember, Finish, mutexVars
<1>5. CASE ReconcileStatement(c)
  BY <1>5 DEF ReconcileStatement, ReadRow, ReadEntries, MarkMatched, StoreRow,
              ReadsOnly, Elsewhere, Goto, Remember, Finish, mutexVars
<1>6. CASE DrainStatement(c)
  BY <1>6 DEF DrainStatement, SelectDue, ClaimMessage, CallHcm, FindOutcomesRequest,
              ReleaseForOutcome, InsertCommit, AdvanceRequest, SettleMessage,
              ReadsOnly, Elsewhere, Goto, Remember, Finish, mutexVars
<1> QED BY <1>1, <1>2, <1>3, <1>4, <1>5, <1>6 DEF Step

------------------------------------------------------------------------------
(* Which statements write which table *)

\* Every table has its writers, and every other step leaves it alone.
LEMMA Writers ==
  ASSUME NEW c \in Call, Step(c)
  PROVE  /\ Insert(c) \/ SaveRequest(c) \/ AdvanceRequest(c) \/ UNCHANGED status
         /\ LoadBalance(c) \/ StoreRow(c) \/ UNCHANGED << balance, events >>
         /\ \/ Hold(c) \/ ReleaseHold(c) \/ MarkMatched(c)
            \/ ReleaseForOutcome(c) \/ InsertCommit(c) \/ UNCHANGED ledger
         /\ \/ CancelPending(c) \/ EnqueueMessage(c) \/ ClaimMessage(c)
            \/ SettleMessage(c) \/ UNCHANGED outbox
         /\ AdvanceRequest(c) \/ UNCHANGED drift
         /\ PullBalance(c) \/ CallHcm(c) \/ UNCHANGED hcmVars
         /\ FindByKey(c) \/ Insert(c) \/ UNCHANGED answer
<1> USE DEF dbVars
<1>1. CASE CreateStatement(c)
  BY <1>1 DEF CreateStatement, FindByKey, Insert
<1>2. CASE BeforeLock(c)
  BY <1>2 DEF BeforeLock, GetOrThrow, LookForBalance, PullBalance, LoadBalance,
              EnsureBalanceLoaded, ReadsOnly, Elsewhere
<1>3. CASE RunExclusive(c)
  BY <1>3 DEF RunExclusive, EnterMutex, StartTransaction, Unlock
<1>4. CASE Endpoint(c)
  BY <1>4 DEF Endpoint, FindRequest, CheckBalance, Hold, ReleaseHold, CancelPending,
              SaveRequest, EnqueueMessage, ReadsOnly, Elsewhere
<1>5. CASE ReconcileStatement(c)
  BY <1>5 DEF ReconcileStatement, ReadRow, ReadEntries, MarkMatched, StoreRow,
              ReadsOnly, Elsewhere
<1>6. CASE DrainStatement(c)
  BY <1>6 DEF DrainStatement, SelectDue, ClaimMessage, CallHcm, FindOutcomesRequest,
              ReleaseForOutcome, InsertCommit, AdvanceRequest, SettleMessage,
              ReadsOnly, Elsewhere
<1> QED BY <1>1, <1>2, <1>3, <1>4, <1>5, <1>6 DEF Step

\* What a call works on while it delivers: a message the outbox has.
LEMMA MessageType ==
  ASSUME Inv, NEW c \in Call, Delivering(c)
  PROVE  /\ local[c].message \in DOMAIN outbox
         /\ Message(c) \in OutboxMessage /\ Message(c).request \in Request
         /\ MessageCommand(c) \in Command
<1>1. local[c].message \in DOMAIN outbox /\ outbox \in Seq(OutboxMessage)
  BY DEF Inv, CallOK, DatabaseTypeOK
<1>2. Message(c) \in OutboxMessage
  BY <1>1 DEF Message
<1>3. Message(c).request \in Request /\ Message(c).type \in OutboxType
  BY <1>2 DEF OutboxMessage
<1> QED BY <1>1, <1>2, <1>3 DEF MessageCommand, Command

\* The request and the key of a call.
LEMMA CallType ==
  ASSUME Inv, NEW c \in Call
  PROVE  /\ Req(c) \in Request /\ On[c] \in Key /\ KeyOf[Req(c)] = On[c]
         /\ local[c] \in Local
BY CallAssumption, CallsAssumption DEF Inv, CallsTypeOK, Job, Req

\* The next status of a request that may go on is a status, and no longer DRAFT.
LEMMA NextStatus ==
  ASSUME NEW s, NEW action, CanTransition(s, action)
  PROVE  NextState(s, action) \in RequestStatus \ {"DRAFT"}
BY DEF CanTransition, NextState, TRANSITIONS, RequestStatus

------------------------------------------------------------------------------
(* The tables stay typed *)

\* m.save and the two inserts write statuses.
LEMMA StatusType ==
  ASSUME Inv, NEW c \in Call, Step(c)
  PROVE  status' \in [Request -> RequestStatus \union {NoRequest}]
<1>0. status \in [Request -> RequestStatus \union {NoRequest}]
  BY DEF Inv, DatabaseTypeOK
<1>1. CASE Insert(c)
  BY <1>0, <1>1, CallType DEF Insert, InsertRow, RequestStatus
<1>2. CASE SaveRequest(c)
  <2>1. CanTransition(local[c].status, ActionOf[job[c].op])
    BY <1>2 DEF Inv, CallOK, FoundLegal, SaveRequest
  <2> QED BY <1>0, <1>2, <2>1, CallType, NextStatus DEF SaveRequest
<1>3. CASE AdvanceRequest(c)
  <2>1. Message(c).request \in Request
    BY <1>3, MessageType DEF AdvanceRequest, Delivering
  <2> QED BY <1>0, <1>3, <2>1, NextStatus DEF AdvanceRequest
<1>4. CASE UNCHANGED status
  BY <1>0, <1>4
<1> QED BY <1>1, <1>2, <1>3, <1>4, Writers

\* The five writers of the ledger keep its entries typed.
LEMMA LedgerType ==
  ASSUME Inv, NEW c \in Call, Step(c)
  PROVE  ledger' \in [Request -> Seq(LedgerEntry)]
<1>0. ledger \in [Request -> Seq(LedgerEntry)] /\ DatabaseTypeOK
  BY DEF Inv, DatabaseTypeOK
<1>1. CASE Hold(c)
  <2>1. [ phase |-> "RESERVE", state |-> "ACTIVE", hcmVersion |-> NoVersion ] \in LedgerEntry
    BY DEF LedgerEntry, LedgerPhase, LedgerState, NoVersion
  <2> QED BY <1>0, <1>1, <2>1, CallType DEF Hold, AddReservation
<1>2. CASE ReleaseHold(c)
  BY <1>0, <1>2, CallType, ReleasedLedgerType DEF ReleaseHold
<1>3. CASE MarkMatched(c)
  BY <1>0, <1>3, ReconciledLedgerType DEF MarkMatched
<1>4. CASE ReleaseForOutcome(c)
  <2>1. Message(c).request \in Request
    BY <1>4, MessageType DEF ReleaseForOutcome, Delivering
  <2> QED BY <1>0, <1>4, <2>1, ReleasedLedgerType DEF ReleaseForOutcome
<1>5. CASE InsertCommit(c)
  <2>1. Message(c).request \in Request /\ MessageCommand(c) \in Command
    BY <1>5, MessageType DEF InsertCommit, Delivering
  <2>2. applied[MessageCommand(c)].version \in Nat
    BY <2>1 DEF Inv, HcmTypeOK
  <2>3. [ phase |-> "COMMIT", state |-> "ACTIVE",
          hcmVersion |-> applied[MessageCommand(c)].version ] \in LedgerEntry
    BY <2>2 DEF LedgerEntry, LedgerPhase, LedgerState
  <2> QED BY <1>0, <1>5, <2>1, <2>3 DEF InsertCommit
<1>6. CASE UNCHANGED ledger
  BY <1>0, <1>6
<1> QED BY <1>1, <1>2, <1>3, <1>4, <1>5, <1>6, Writers

\* Messages are added and updated, never removed, and stay about what they were.
LEMMA OutboxGrows ==
  ASSUME Inv, NEW c \in Call, Step(c)
  PROVE  /\ outbox' \in Seq(OutboxMessage)
         /\ DOMAIN outbox \subseteq DOMAIN outbox'
         /\ \A i \in DOMAIN outbox : Alike(outbox'[i], outbox[i])
         /\ \A i \in DOMAIN outbox' \ DOMAIN outbox :
              at[c] = "enqueue" /\ outbox'[i].request = Req(c)
<1>0. outbox \in Seq(OutboxMessage)
  BY DEF Inv, DatabaseTypeOK
<1>1. CASE CancelPending(c)
  BY <1>0, <1>1, CancelPendingType DEF CancelPending, SameCommands
<1>2. CASE EnqueueMessage(c)
  <2> DEFINE t == IF Is(c, "approve") THEN "DEBIT" ELSE "CREDIT"
  <2>1. outbox' = Enqueue(outbox, Req(c), t) /\ at[c] = "enqueue"
    BY <1>2 DEF EnqueueMessage
  <2>2. t \in OutboxType
    BY DEF OutboxType
  <2> HIDE DEF t
  <2>3. /\ outbox' \in Seq(OutboxMessage)
        /\ DOMAIN outbox \subseteq DOMAIN outbox'
        /\ Len(outbox') = Len(outbox) + 1
        /\ \A i \in DOMAIN outbox : outbox'[i] = outbox[i]
        /\ outbox'[Len(outbox) + 1].request = Req(c)
    BY <1>0, <2>1, <2>2, CallType, EnqueueType
  <2>4. DOMAIN outbox' \ DOMAIN outbox = {Len(outbox) + 1}
    BY <1>0, <2>3
  <2> QED BY <2>1, <2>3, <2>4 DEF Alike
<1>3. CASE ClaimMessage(c)
  BY <1>0, <1>3, MarkInflightType DEF ClaimMessage, SameCommands
<1>4. CASE SettleMessage(c)
  <2>1. local[c].message \in DOMAIN outbox
    BY <1>4, MessageType DEF SettleMessage, Delivering
  <2>2. local[c].outcome \in {"ack", "rejected", "unavailable"}
    BY CallType DEF Local
  <2>3. outbox' \in { MarkDone(outbox, local[c].message), MarkRejected(outbox, local[c].message),
                      MarkRetryOrDead(outbox, local[c].message) }
    BY <1>4, <2>2 DEF SettleMessage
  <2> QED BY <1>0, <2>1, <2>3, OutcomeType DEF SameCommands
<1>5. CASE UNCHANGED outbox
  BY <1>0, <1>5 DEF Alike
<1> QED BY <1>1, <1>2, <1>3, <1>4, <1>5, Writers

\* The two writers of snapshots store rows; events are what ReadEntries logged.
LEMMA BalanceType ==
  ASSUME Inv, NEW c \in Call, Step(c)
  PROVE  /\ balance' \in [Key -> [hcmBalance : Int, lastReconciledVersion : Nat]]
         /\ events' \subseteq ReconcileEvent
         /\ drift' \subseteq Request
<1>0. /\ balance \in [Key -> [hcmBalance : Int, lastReconciledVersion : Nat]]
      /\ events \subseteq ReconcileEvent /\ drift \subseteq Request
  BY DEF Inv, DatabaseTypeOK
<1>1. /\ local[c].row \in [ balance : Int, version : Nat ]
      /\ local[c].logged \subseteq ReconcileEvent
  BY CallType DEF Local
<1>2. /\ balance' \in [Key -> [hcmBalance : Int, lastReconciledVersion : Nat]]
      /\ events' \subseteq ReconcileEvent
  <2>1. CASE LoadBalance(c)
    BY <1>0, <1>1, <2>1, CallType DEF LoadBalance, EnsureBalanceLoaded, dbVars
  <2>2. CASE StoreRow(c)
    BY <1>0, <1>1, <2>2, CallType DEF StoreRow
  <2> QED BY <1>0, <2>1, <2>2, Writers
<1>3. drift' \subseteq Request
  <2>1. CASE AdvanceRequest(c)
    BY <1>0, <2>1, MessageType DEF AdvanceRequest, Delivering
  <2> QED BY <1>0, <2>1, Writers
<1> QED BY <1>2, <1>3

\* HCM's answers keep its rows typed.
LEMMA HcmType ==
  ASSUME Inv, NEW c \in Call, Step(c)
  PROVE  HcmTypeOK'
<1>0. HcmTypeOK
  BY DEF Inv
<1>1. CASE PullBalance(c)
  <2>1. UNCHANGED applied /\ (hcm' = [hcm EXCEPT ![On[c]] = Referenced(On[c])] \/ UNCHANGED hcm)
    BY <1>1 DEF PullBalance
  <2>2. Referenced(On[c]) \in Seq(Int)
    BY <1>0, CallType DEF HcmTypeOK, Referenced
  <2> QED BY <1>0, <2>1, <2>2 DEF HcmTypeOK
<1>2. CASE CallHcm(c)
  <2>1. MessageCommand(c) \in Command
    BY <1>2, MessageType DEF CallHcm, Delivering
  <2>2. PICK outcome \in { "ack", "rejected", "unavailable" } :
          ApplyDelta(MessageCommand(c), outcome)
    BY <1>2 DEF CallHcm
  <2> QED BY <1>0, <2>1, <2>2, ApplyDeltaType
<1>3. CASE UNCHANGED hcmVars
  BY <1>0, <1>3 DEF hcmVars, HcmTypeOK
<1> QED BY <1>1, <1>2, <1>3, Writers

------------------------------------------------------------------------------
(* The active entries and the days they hold *)

\* An update of entries makes no entry active; only an insert does.
LEMMA ActiveShrinks ==
  ASSUME Inv, NEW c \in Call, Step(c), NEW p \in LedgerPhase,
         p = "RESERVE" => ~Hold(c), p = "COMMIT" => ~InsertCommit(c), NEW r \in Request
  PROVE  Active(ledger'[r], p) \subseteq Active(ledger[r], p)
<1>0. ledger \in [Request -> Seq(LedgerEntry)]
  BY DEF Inv, DatabaseTypeOK
<1>1. ASSUME NEW e \in Seq(LedgerEntry), NEW q PROVE Active(Release(e, q), p) \subseteq Active(e, p)
  <2>1. \A i \in DOMAIN e : e[i] \in LedgerEntry
    OBVIOUS
  <2>2. /\ DOMAIN Release(e, q) = DOMAIN e
        /\ \A i \in DOMAIN e : \/ Release(e, q)[i] = e[i]
                               \/ Release(e, q)[i].state = "RELEASED"
    BY <2>1 DEF Release, LedgerEntry
  <2> QED BY <2>2 DEF Active
<1>2. CASE ReleaseHold(c)
  BY <1>0, <1>1, <1>2 DEF ReleaseHold, ReleaseReservation
<1>3. CASE ReleaseForOutcome(c)
  <2>1. \/ ledger' = ReleaseReservation(ledger, Message(c).request)
        \/ ledger' = ReleaseCommit(ledger, Message(c).request)
    BY <1>3 DEF ReleaseForOutcome
  <2> QED BY <1>0, <1>1, <2>1 DEF ReleaseReservation, ReleaseCommit
<1>4. CASE MarkMatched(c)
  <2> DEFINE t == ledger'[r]
  <2>1. t = [ i \in DOMAIN ledger[r] |->
                IF << r, i >> \in local[c].matched
                THEN [ledger[r][i] EXCEPT !.state = "RECONCILED"] ELSE ledger[r][i] ]
    BY <1>4 DEF MarkMatched, MarkReconciled
  <2>2. \A i \in DOMAIN ledger[r] : ledger[r][i] \in LedgerEntry
    BY <1>0
  <2> HIDE DEF t
  <2>3. /\ DOMAIN t = DOMAIN ledger[r]
        /\ \A i \in DOMAIN t : t[i] = ledger[r][i] \/ t[i].state = "RECONCILED"
    BY <2>1, <2>2 DEF LedgerEntry
  <2>4. Active(t, p) \subseteq Active(ledger[r], p)
    BY <2>3 DEF Active
  <2> QED BY <2>4 DEF t
<1>5. CASE Hold(c) \/ InsertCommit(c)
  <2>0. \/ /\ p # "RESERVE"
           /\ ledger' = AddReservation(ledger, Req(c))
        \/ /\ p # "COMMIT"
           /\ ledger' = [ledger EXCEPT ![Message(c).request] =
                           Append(@, [ phase      |-> "COMMIT",
                                       state      |-> "ACTIVE",
                                       hcmVersion |-> applied[MessageCommand(c)].version ])]
    BY <1>5 DEF Hold, InsertCommit
  <2>1. PICK q, x : /\ ledger' = [ledger EXCEPT ![q] = Append(@, x)]
                    /\ x.phase # p
    <3>1. CASE p # "RESERVE" /\ ledger' = AddReservation(ledger, Req(c))
      <4> DEFINE x == [ phase |-> "RESERVE", state |-> "ACTIVE", hcmVersion |-> NoVersion ]
      <4>1. x.phase # p
        BY <3>1
      <4> QED BY <3>1, <4>1 DEF AddReservation
    <3>2. CASE ~(p # "RESERVE" /\ ledger' = AddReservation(ledger, Req(c)))
      <4> DEFINE x == [ phase |-> "COMMIT", state |-> "ACTIVE",
                        hcmVersion |-> applied[MessageCommand(c)].version ]
      <4>1. x.phase # p
        BY <2>0, <3>2
      <4> QED BY <2>0, <3>2, <4>1
    <3> QED BY <3>1, <3>2
  <2>2. CASE q = r
    <3>1. ledger'[r] = Append(ledger[r], x)
      BY <1>0, <2>1, <2>2
    <3>2. /\ DOMAIN ledger'[r] = DOMAIN ledger[r] \union {Len(ledger[r]) + 1}
          /\ ledger'[r][Len(ledger[r]) + 1] = x
          /\ \A i \in DOMAIN ledger[r] : ledger'[r][i] = ledger[r][i]
      BY <1>0, <3>1
    <3> QED BY <2>1, <3>2 DEF Active
  <2>3. CASE q # r
    BY <1>0, <2>1, <2>3
  <2> QED BY <2>2, <2>3
<1>6. CASE UNCHANGED ledger
  BY <1>6
<1> QED BY <1>2, <1>3, <1>4, <1>5, <1>6, Writers

\* The two inserts add one active entry of their phase.
LEMMA InsertActive ==
  ASSUME Inv, NEW c \in Call, NEW p \in LedgerPhase, NEW q \in Request,
         NEW x \in LedgerEntry, x.phase = p, x.state = "ACTIVE",
         ledger' = [ledger EXCEPT ![q] = Append(@, x)]
  PROVE  /\ Active(ledger'[q], p) = Active(ledger[q], p) \union {Len(ledger[q]) + 1}
         /\ Len(ledger[q]) + 1 \notin Active(ledger[q], p)
         /\ \A r \in Request : r # q => ledger'[r] = ledger[r]
<1>0. ledger \in [Request -> Seq(LedgerEntry)]
  BY DEF Inv, DatabaseTypeOK
<1>1. ledger'[q] = Append(ledger[q], x)
  BY <1>0
<1>2. /\ DOMAIN ledger'[q] = DOMAIN ledger[q] \union {Len(ledger[q]) + 1}
      /\ Len(ledger[q]) + 1 \notin DOMAIN ledger[q]
      /\ ledger'[q][Len(ledger[q]) + 1] = x
      /\ \A i \in DOMAIN ledger[q] : ledger'[q][i] = ledger[q][i]
  BY <1>0, <1>1
<1> QED BY <1>0, <1>2 DEF Active

\* Without an insert the units of a phase only become fewer.
LEMMA UnitsShrink ==
  ASSUME Inv, NEW c \in Call, Step(c), NEW p \in LedgerPhase,
         p = "RESERVE" => ~Hold(c), p = "COMMIT" => ~InsertCommit(c), NEW k
  PROVE  UnitsOf(ledger', k, p) \subseteq UnitsOf(ledger, k, p)
BY ActiveShrinks DEF UnitsOf

\* An insert adds as many units as its request asks for days.
LEMMA UnitsGrow ==
  ASSUME Inv, NEW c \in Call, NEW p \in LedgerPhase, NEW q \in Request,
         NEW x \in LedgerEntry, x.phase = p, x.state = "ACTIVE", NEW k \in Key,
         ledger' = [ledger EXCEPT ![q] = Append(@, x)]
  PROVE  /\ IsFiniteSet(UnitsOf(ledger', k, p))
         /\ KeyOf[q] = k =>
              Cardinality(UnitsOf(ledger', k, p)) =
                Cardinality(UnitsOf(ledger, k, p)) + Days[q]
         /\ KeyOf[q] # k => UnitsOf(ledger', k, p) = UnitsOf(ledger, k, p)
<1> DEFINE n   == Len(ledger[q]) + 1
           new == {<< q, n >>} \X (1 .. Days[q])
           old == UnitsOf(ledger, k, p)
<1>1. /\ Active(ledger'[q], p) = Active(ledger[q], p) \union {n}
      /\ n \notin Active(ledger[q], p)
      /\ \A r \in Request : r # q => ledger'[r] = ledger[r]
  BY InsertActive
<1>2. n \in Nat
  BY DEF Inv, DatabaseTypeOK
<1> HIDE DEF n
<1>3. Days[q] \in Nat
  BY RequestAssumption
<1>4. /\ IsFiniteSet(new) /\ Cardinality(new) = Days[q]
  <2>1. IsFiniteSet(1 .. Days[q]) /\ Cardinality(1 .. Days[q]) = Days[q]
    BY <1>3, FS_Interval
  <2>2. IsFiniteSet({<< q, n >>}) /\ Cardinality({<< q, n >>}) = 1
    BY FS_Singleton
  <2>3. /\ IsFiniteSet(new)
        /\ Cardinality(new) = Cardinality({<< q, n >>}) * Cardinality(1 .. Days[q])
    BY <2>1, <2>2, FS_Product, Zenon
  <2> HIDE DEF new
  <2> QED BY <1>3, <2>1, <2>2, <2>3
<1>5. IsFiniteSet(old)
  BY DEF Inv, UnitsFinite
<1>6. CASE KeyOf[q] = k
  <2>1. new \subseteq (Request \X Nat) \X Nat
    BY <1>2, <1>3
  <2>2. \A u \in (Request \X Nat) \X Nat :
          u \in new <=> u[1][1] = q /\ u[1][2] = n /\ u[2] \in 1 .. Days[q]
    BY <1>2, <1>3
  <2>3. UnitsOf(ledger', k, p) = old \union new
    <3> HIDE DEF new
    <3>1. \A u \in (Request \X Nat) \X Nat :
            u \in UnitsOf(ledger', k, p) <=> u \in old \/ u \in new
      BY <1>1, <1>6, <2>2 DEF UnitsOf
    <3>2. /\ UnitsOf(ledger', k, p) \subseteq (Request \X Nat) \X Nat
          /\ old \subseteq (Request \X Nat) \X Nat
      BY DEF UnitsOf
    <3> QED BY <2>1, <3>1, <3>2
  <2>4. old \intersect new = {}
    BY <1>1, <2>1, <2>2 DEF UnitsOf
  <2> HIDE DEF old, new
  <2>5. /\ IsFiniteSet(old \union new)
        /\ Cardinality(old \union new) = Cardinality(old) + Cardinality(new) - 0
    BY <1>4, <1>5, <2>4, FS_Union, FS_EmptySet
  <2>6. Cardinality(old) \in Nat
    BY <1>5, FS_CardinalityType
  <2>7. Cardinality(old) + Days[q] - 0 = Cardinality(old) + Days[q]
    BY <1>3, <2>6
  <2>8. /\ IsFiniteSet(UnitsOf(ledger', k, p))
        /\ Cardinality(UnitsOf(ledger', k, p)) = Cardinality(old) + Days[q]
    BY <1>4, <2>3, <2>5, <2>7
  <2> QED BY <1>6, <2>8 DEF old
<1>7. CASE KeyOf[q] # k
  <2>1. UnitsOf(ledger', k, p) = old
    BY <1>1, <1>7 DEF UnitsOf
  <2> QED BY <1>5, <1>7, <2>1
<1> QED BY <1>6, <1>7

\* What the two inserts insert.
LEMMA Inserts ==
  ASSUME Inv, NEW c \in Call
  PROVE  /\ Hold(c) => \E x \in LedgerEntry :
              /\ x.phase = "RESERVE" /\ x.state = "ACTIVE"
              /\ ledger' = [ledger EXCEPT ![Req(c)] = Append(@, x)]
         /\ InsertCommit(c) => \E x \in LedgerEntry :
              /\ x.phase = "COMMIT" /\ x.state = "ACTIVE"
              /\ ledger' = [ledger EXCEPT ![Message(c).request] = Append(@, x)]
<1>1. ASSUME Hold(c)
      PROVE  \E x \in LedgerEntry :
               /\ x.phase = "RESERVE" /\ x.state = "ACTIVE"
               /\ ledger' = [ledger EXCEPT ![Req(c)] = Append(@, x)]
  <2> DEFINE x == [ phase |-> "RESERVE", state |-> "ACTIVE", hcmVersion |-> NoVersion ]
  <2>1. x \in LedgerEntry /\ x.phase = "RESERVE" /\ x.state = "ACTIVE"
    BY DEF LedgerEntry, LedgerPhase, LedgerState, NoVersion
  <2>2. ledger' = [ledger EXCEPT ![Req(c)] = Append(@, x)]
    BY <1>1 DEF Hold, AddReservation
  <2> HIDE DEF x
  <2> QED BY <2>1, <2>2
<1>2. ASSUME InsertCommit(c)
      PROVE  \E x \in LedgerEntry :
               /\ x.phase = "COMMIT" /\ x.state = "ACTIVE"
               /\ ledger' = [ledger EXCEPT ![Message(c).request] = Append(@, x)]
  <2> DEFINE x == [ phase |-> "COMMIT", state |-> "ACTIVE",
                    hcmVersion |-> applied[MessageCommand(c)].version ]
  <2>0. applied[MessageCommand(c)].version \in Nat
    BY <1>2, MessageType DEF InsertCommit, Delivering, Inv, HcmTypeOK
  <2>1. x \in LedgerEntry /\ x.phase = "COMMIT" /\ x.state = "ACTIVE"
    BY <2>0 DEF LedgerEntry, LedgerPhase, LedgerState
  <2>2. ledger' = [ledger EXCEPT ![Message(c).request] = Append(@, x)]
    BY <1>2 DEF InsertCommit
  <2> HIDE DEF x
  <2> QED BY <2>1, <2>2
<1> QED BY <1>1, <1>2

\* The units stay finitely many.
LEMMA UnitsStayFinite ==
  ASSUME Inv, NEW c \in Call, Step(c)
  PROVE  UnitsFinite'
<1> SUFFICES ASSUME NEW k \in Key, NEW p \in LedgerPhase
             PROVE  IsFiniteSet(UnitsOf(ledger', k, p))
  BY DEF UnitsFinite, UnitsOf, Active
<1>1. CASE p = "RESERVE" /\ Hold(c)
  BY <1>1, CallType, Inserts, UnitsGrow
<1>2. CASE p = "COMMIT" /\ InsertCommit(c)
  <2>1. Message(c).request \in Request
    BY <1>2, MessageType DEF InsertCommit, Delivering
  <2> QED BY <1>2, <2>1, Inserts, UnitsGrow
<1>3. CASE ~(p = "RESERVE" /\ Hold(c)) /\ ~(p = "COMMIT" /\ InsertCommit(c))
  <2>1. UnitsOf(ledger', k, p) \subseteq UnitsOf(ledger, k, p)
    BY <1>3, UnitsShrink
  <2>2. IsFiniteSet(UnitsOf(ledger, k, p))
    BY DEF Inv, UnitsFinite
  <2> QED BY <2>1, <2>2, FS_Subset
<1> QED BY <1>1, <1>2, <1>3

\* A sum of active entries is a number, the number of its units.
LEMMA SumType ==
  ASSUME Inv, NEW k \in Key, NEW p \in LedgerPhase
  PROVE  /\ Total(ActiveEntries(k, p)) = Cardinality(UnitsOf(ledger, k, p))
         /\ Total(ActiveEntries(k, p)) \in Nat
<1>1. Total(ActiveEntries(k, p)) = Cardinality(UnitsOf(ledger, k, p))
  BY UnitsAre DEF Total, Inv, DatabaseTypeOK
<1>2. IsFiniteSet(UnitsOf(ledger, k, p))
  BY DEF Inv, UnitsFinite
<1> QED BY <1>1, <1>2, FS_CardinalityType

------------------------------------------------------------------------------
(* The calls stay on their way *)

\* A step goes to a statement of the same operation.
LEMMA LabelType ==
  ASSUME Inv, NEW c \in Call, Step(c)
  PROVE  at' \in [Call -> Label] /\ InProgram(c)'
<1> USE DEF Label, InProgram, Is, Goto
<1>0. /\ at \in [Call -> Label] /\ InProgram(c) /\ UNCHANGED job
  BY Alone DEF Inv, CallsTypeOK, CallOK
<1>1. CASE CreateStatement(c)
  BY <1>0, <1>1 DEF CreateStatement, FindByKey, Insert, InsertRow, Answer
<1>2. CASE BeforeLock(c)
  BY <1>0, <1>2 DEF BeforeLock, GetOrThrow, LookForBalance, PullBalance, LoadBalance
<1>3. CASE RunExclusive(c)
  BY <1>0, <1>3 DEF RunExclusive, EnterMutex, StartTransaction, Unlock
<1>4. CASE Endpoint(c)
  <2>1. CASE FindRequest(c)
    BY <1>0, <2>1 DEF FindRequest, AfterFind, Finish
  <2>2. CASE CheckBalance(c) \/ Hold(c) \/ ReleaseHold(c) \/ CancelPending(c)
    BY <1>0, <2>2 DEF CheckBalance, Hold, ReleaseHold, CancelPending, Finish
  <2>3. CASE SaveRequest(c) \/ EnqueueMessage(c)
    <3>1. Enqueues(c) /\ at[c] = "save" => job[c].op \in {"approve", "cancel"}
      <4>1. at[c] = "save" /\ job[c].op \in {"submit", "reject"} =>
              CanTransition(local[c].status, "SUBMIT") \/ CanTransition(local[c].status, "REJECT")
        BY DEF Inv, CallOK, FoundLegal, ActionOf
      <4> QED BY <1>0, <4>1, SubmitTransition, RejectTransition DEF Enqueues
    <3> QED BY <1>0, <2>3, <3>1 DEF SaveRequest, EnqueueMessage, Finish
  <2> QED BY <1>4, <2>1, <2>2, <2>3 DEF Endpoint
<1>5. CASE ReconcileStatement(c)
  BY <1>0, <1>5 DEF ReconcileStatement, ReadRow, ReadEntries, MarkMatched, StoreRow, Finish
<1>6. CASE DrainStatement(c)
  BY <1>0, <1>6 DEF DrainStatement, SelectDue, ClaimMessage, CallHcm, FindOutcomesRequest,
              ReleaseForOutcome, InsertCommit, AdvanceRequest, SettleMessage, Finish
<1> QED BY <1>1, <1>2, <1>3, <1>4, <1>5, <1>6 DEF Step

\* What ReadEntries keeps: ids of entries and an event; and it goes on only
\* when the row is newer than the watermark it found.
LEMMA EntriesRead ==
  ASSUME Inv, NEW c \in Call, ReadEntries(c)
  PROVE  \/ Finish(c)
         \/ /\ at'[c] \in {"mark", "store"}
            /\ local[c].row.version > local[c].found.lastReconciledVersion
            /\ \E m \in SUBSET (Request \X Nat), g \in SUBSET ReconcileEvent :
                 local' = [local EXCEPT ![c] = [@ EXCEPT !.matched = m, !.logged = g]]
<1> DEFINE in == [ReconcileInput(On[c], local[c].row) EXCEPT
                    !.currentHcmBalance     = local[c].found.hcmBalance,
                    !.lastReconciledVersion = local[c].found.lastReconciledVersion]
           result == Reconcile(in)
<1>0. at \in [Call -> Label] /\ local \in [Call -> Local]
  BY DEF Inv, CallsTypeOK
<1>1. /\ local[c].row.version \in Nat
      /\ local[c].found.lastReconciledVersion \in Nat
  BY <1>0 DEF Local
<1>2. /\ in.lastReconciledVersion = local[c].found.lastReconciledVersion
      /\ in.authoritativeVersion = local[c].row.version
      /\ in.committedEntries = ActiveEntries(On[c], "COMMIT")
  BY DEF ReconcileInput
<1>3. \/ Finish(c)
      \/ /\ result.applied
         /\ at' = [at EXCEPT ![c] = IF result.matchedCommitIds = {} THEN "store" ELSE "mark"]
         /\ local' = [local EXCEPT ![c] =
              [@ EXCEPT !.matched = result.matchedCommitIds, !.logged = Logged(On[c], result)]]
  BY DEF ReadEntries, Goto
<1> HIDE DEF in
<1>4. CASE result.applied
  <2>1. ~IsStale(in)
    BY <1>4 DEF Reconcile
  <2>2. /\ result.newLastReconciledVersion = in.authoritativeVersion
        /\ result.matchedCommitIds = { e.id : e \in Matched(in) }
        /\ result.eventType = EventType(in)
    BY <2>1 DEF Reconcile
  <2> HIDE DEF result
  <2>3. local[c].row.version > local[c].found.lastReconciledVersion
    BY <1>1, <1>2, <2>1 DEF IsStale
  <2>4. Logged(On[c], result) \in SUBSET ReconcileEvent
    BY <1>1, <1>2, <2>2, CallType DEF Logged, EventType, ReconcileEvent
  <2>5. result.matchedCommitIds \in SUBSET (Request \X Nat)
    <3> SUFFICES ASSUME NEW e \in ActiveEntries(On[c], "COMMIT") PROVE e.id \in Request \X Nat
      BY <1>2, <2>2 DEF Matched
    <3>1. PICK r \in { q \in Request : KeyOf[q] = On[c] } :
            e \in { [ id |-> << r, i >>, amount |-> Days[r],
                      hcmVersion |-> ledger[r][i].hcmVersion ] : i \in Active(ledger[r], "COMMIT") }
      BY DEF ActiveEntries
    <3>2. PICK i \in Active(ledger[r], "COMMIT") : e.id = << r, i >>
      BY <3>1
    <3>3. i \in Nat
      BY DEF Active, Inv, DatabaseTypeOK
    <3> QED BY <3>2, <3>3
  <2>6. Finish(c) \/ at'[c] \in {"mark", "store"}
    BY <1>0, <1>3
  <2> QED BY <1>3, <2>3, <2>4, <2>5, <2>6
<1> QED BY <1>3, <1>4

\* Every local variable keeps its type.
LEMMA LocalType ==
  ASSUME Inv, NEW c \in Call, Step(c)
  PROVE  local' \in [Call -> Local]
<1>0. local \in [Call -> Local] /\ local[c] \in Local
  BY DEF Inv, CallsTypeOK
<1>1. CASE UNCHANGED local
  BY <1>0, <1>1
<1>2. CASE Finish(c) \/ LoadBalance(c)
  BY <1>0, <1>2, EmptyLocal DEF Finish, LoadBalance
<1>3. CASE PullBalance(c) /\ ~UNCHANGED local
  <2>0. hcm' = [hcm EXCEPT ![On[c]] = Referenced(On[c])]
    BY <1>3 DEF PullBalance
  <2>1. hcm'[On[c]] \in Seq(Int) /\ Len(hcm'[On[c]]) > 0
    BY <2>0, CallType DEF Inv, HcmTypeOK, Referenced
  <2>2. [ balance |-> hcm'[On[c]][Len(hcm'[On[c]])], version |-> Len(hcm'[On[c]]) ]
          \in [ balance : Int, version : Nat ]
    BY <2>1
  <2> QED BY <1>0, <1>3, <2>2, RememberType DEF PullBalance
<1>4. CASE EnterMutex(c) /\ ~UNCHANGED local
  <2>1. PICK v \in DOMAIN hcm[On[c]] : Remember(c, "row", RowAt(On[c], v))
    BY <1>4 DEF EnterMutex, CarriedRow
  <2>2. RowAt(On[c], v) \in [ balance : Int, version : Nat ]
    BY <2>1, CallType DEF RowAt, Inv, HcmTypeOK
  <2> QED BY <1>0, <2>1, <2>2, RememberType
<1>5. CASE FindRequest(c)
  <2>1. StatusFound(c) \in RequestStatus \union {NoRequest}
    BY CallType DEF StatusFound, Inv, DatabaseTypeOK
  <2> QED BY <1>0, <1>2, <1>5, <2>1, RememberType DEF FindRequest
<1>6. CASE CheckBalance(c)
  <2>1. ComputeComponents(On[c]).committedPending \in Nat
    BY CallType, SumType DEF ComputeComponents, LedgerPhase
  <2> QED BY <1>0, <1>2, <1>6, <2>1, RememberType DEF CheckBalance
<1>7. CASE ReadRow(c)
  <2>1. balance[On[c]] \in [ hcmBalance : Int, lastReconciledVersion : Nat ]
    BY CallType DEF Inv, DatabaseTypeOK
  <2> QED BY <1>0, <1>7, <2>1, RememberType DEF ReadRow
<1>8. CASE ReadEntries(c)
  <2>1. \A l \in Local : [local EXCEPT ![c] = l] \in [Call -> Local]
    BY <1>0
  <2>2. \A m \in SUBSET (Request \X Nat), g \in SUBSET ReconcileEvent :
          [local[c] EXCEPT !.matched = m, !.logged = g] \in Local
    BY <1>0, LocalUpdate
  <2> QED BY <1>2, <1>8, <2>1, <2>2, EntriesRead
<1>9. CASE SelectDue(c)
  <2>1. \A i \in Due(outbox, DOMAIN outbox) : i \in Nat
    BY DEF Due, Inv, DatabaseTypeOK
  <2> QED BY <1>0, <1>9, <2>1, RememberType DEF SelectDue
<1>10. CASE CallHcm(c)
  BY <1>0, <1>10, RememberType DEF CallHcm
<1>11. CASE FindOutcomesRequest(c)
  <2>1. status[Message(c).request] \in RequestStatus \union {NoRequest}
    BY <1>11, MessageType DEF FindOutcomesRequest, Delivering, Inv, DatabaseTypeOK
  <2> QED BY <1>0, <1>11, <2>1, RememberType DEF FindOutcomesRequest
<1>12. CASE CreateStatement(c) \/ RunExclusive(c)
  BY <1>1, <1>4, <1>12 DEF CreateStatement, FindByKey, Insert, RunExclusive, StartTransaction, Unlock
<1>13. CASE BeforeLock(c)
  BY <1>1, <1>2, <1>3, <1>13 DEF BeforeLock, GetOrThrow, LookForBalance
<1>14. CASE Endpoint(c)
  BY <1>1, <1>2, <1>5, <1>6, <1>14
  DEF Endpoint, Hold, ReleaseHold, CancelPending, SaveRequest, EnqueueMessage
<1>15. CASE ReconcileStatement(c)
  BY <1>1, <1>2, <1>7, <1>8, <1>15 DEF ReconcileStatement, MarkMatched, StoreRow
<1>16. CASE DrainStatement(c)
  BY <1>1, <1>2, <1>9, <1>10, <1>11, <1>16
  DEF DrainStatement, ClaimMessage, ReleaseForOutcome, InsertCommit, AdvanceRequest, SettleMessage
<1> QED BY <1>12, <1>13, <1>14, <1>15, <1>16 DEF Step

\* Each call stays on its way: it finds what it needs where it comes to.
LEMMA CallStaysOK ==
  ASSUME Inv, NEW c \in Call, Step(c)
  PROVE  \A d \in Call : CallOK(d)'
<1>0. /\ at \in [Call -> Label] /\ local \in [Call -> Local]
      /\ stage \in [Call -> {"idle", "waiting", "inside", "done"}]
  BY DEF Inv, CallsTypeOK, MutexInv, MutexTypeOK
<1>1. ASSUME NEW d \in Call, d # c PROVE CallOK(d)'
  <2>1. /\ UNCHANGED job /\ at'[d] = at[d] /\ local'[d] = local[d] /\ stage'[d] = stage[d]
        /\ DOMAIN outbox \subseteq DOMAIN outbox'
    BY <1>1, Alone, OutboxGrows
  <2>2. CallOK(d)
    BY DEF Inv
  <2> QED
    BY <2>1, <2>2 DEF CallOK, InProgram, FoundLegal, UnderLock, Delivering, Is
<1>2. /\ UNCHANGED job /\ CallOK(c) /\ InProgram(c) /\ DOMAIN outbox \subseteq DOMAIN outbox'
      /\ local[c] \in Local
  BY <1>0, Alone, OutboxGrows DEF Inv, CallOK
<1>3. InProgram(c)'
  BY LabelType
<1>4. FoundLegal(c)'
  <2> USE DEF FoundLegal, Goto
  <2>1. CASE FindRequest(c)
    <3>1. CASE MayGoOn(c) /\ Remember(c, "status", StatusFound(c))
      <4>1. local'[c].status = StatusFound(c)
        BY <1>0, <3>1, Remembered
      <4> QED BY <1>2, <3>1, <4>1 DEF MayGoOn
    <3>2. CASE Finish(c)
      BY <1>0, <3>2 DEF Finish
    <3> QED BY <2>1, <3>1, <3>2 DEF FindRequest
  <2>2. CASE CheckBalance(c)
    <3>1. CASE Finish(c)
      BY <1>0, <3>1 DEF Finish
    <3>2. CASE ~Finish(c)
      <4>1. local'[c].status = local[c].status
        BY <1>0, <2>2, <3>2, Remembered DEF CheckBalance
      <4> QED BY <1>2, <2>2, <4>1 DEF CallOK, CheckBalance
    <3> QED BY <3>1, <3>2
  <2>3. CASE Hold(c) \/ ReleaseHold(c) \/ CancelPending(c)
    BY <1>0, <1>2, <2>3 DEF CallOK, Hold, ReleaseHold, CancelPending
  <2>4. CASE SaveRequest(c) \/ EnqueueMessage(c)
    BY <1>0, <2>4 DEF SaveRequest, EnqueueMessage, Finish
  <2>5. CASE CreateStatement(c) \/ BeforeLock(c)
    BY <1>0, <2>5
    DEF CreateStatement, FindByKey, Insert, InsertRow, Answer,
        BeforeLock, GetOrThrow, LookForBalance, PullBalance, LoadBalance
  <2>6. CASE RunExclusive(c)
    BY <1>0, <2>6 DEF RunExclusive, EnterMutex, StartTransaction, Unlock
  <2>7. CASE ReconcileStatement(c)
    BY <1>0, <2>7 DEF ReconcileStatement, ReadRow, ReadEntries, MarkMatched, StoreRow, Finish
  <2>8. CASE DrainStatement(c)
    BY <1>0, <2>8
    DEF DrainStatement, SelectDue, ClaimMessage, CallHcm, FindOutcomesRequest,
        ReleaseForOutcome, InsertCommit, AdvanceRequest, SettleMessage, Finish
  <2> QED BY <2>1, <2>2, <2>3, <2>4, <2>5, <2>6, <2>7, <2>8 DEF Step, Endpoint
<1>5. UnderLock(c)' => stage'[c] = "inside"
  <2> USE DEF UnderLock, Goto, Is
  <2>1. CASE CreateStatement(c) \/ BeforeLock(c)
    BY <1>0, <1>2, <2>1
    DEF CreateStatement, FindByKey, Insert, InsertRow, Answer,
        BeforeLock, GetOrThrow, LookForBalance, PullBalance, LoadBalance
  <2>2. CASE RunExclusive(c)
    BY <1>0, <1>2, <2>2
    DEF RunExclusive, EnterMutex, StartTransaction, Unlock, Proceed
  <2>3. CASE Endpoint(c)
    BY <1>0, <1>2, <2>3
    DEF Endpoint, FindRequest, AfterFind, CheckBalance, Hold, ReleaseHold, CancelPending,
        SaveRequest, EnqueueMessage, ReadsOnly, Elsewhere, Finish, mutexVars, CallOK, InProgram
  <2>4. CASE ReconcileStatement(c)
    BY <1>0, <1>2, <2>4
    DEF ReconcileStatement, ReadRow, ReadEntries, MarkMatched, StoreRow,
        ReadsOnly, Elsewhere, Finish, mutexVars, CallOK
  <2>5. CASE DrainStatement(c)
    BY <1>0, <1>2, <2>5
    DEF DrainStatement, SelectDue, ClaimMessage, CallHcm, FindOutcomesRequest,
        ReleaseForOutcome, InsertCommit, AdvanceRequest, SettleMessage, Finish
  <2> QED BY <2>1, <2>2, <2>3, <2>4, <2>5 DEF Step
<1>6. /\ Delivering(c)' => local'[c].message \in DOMAIN outbox'
      /\ local'[c].message \in {0} \union DOMAIN outbox'
  <2> USE DEF Delivering, Goto
  <2>0. local[c].message \in {0} \union DOMAIN outbox
    BY <1>2 DEF CallOK
  <2>1. CASE Finish(c) \/ LoadBalance(c)
    BY <1>0, <2>1, EmptyLocal DEF Finish, LoadBalance
  <2>2. CASE SelectDue(c)
    <3>1. CASE \E i \in Due(outbox, DOMAIN outbox) : Remember(c, "message", i)
      <4>1. local'[c].message \in DOMAIN outbox
        BY <1>0, <3>1, Remembered DEF Due
      <4> QED BY <1>2, <4>1
    <3>2. CASE Goto(c, "done") /\ UNCHANGED local
      BY <1>0, <1>2, <2>0, <3>2
    <3> QED BY <2>2, <3>1, <3>2 DEF SelectDue
  <2>3. CASE CallHcm(c) \/ FindOutcomesRequest(c)
    <3>1. local'[c].message = local[c].message
      BY <1>0, <2>3, Remembered DEF CallHcm, FindOutcomesRequest
    <3> QED BY <1>0, <1>2, <2>3, <3>1 DEF CallOK, CallHcm, FindOutcomesRequest
  <2>4. CASE ClaimMessage(c) \/ ReleaseForOutcome(c) \/ InsertCommit(c) \/ AdvanceRequest(c)
    BY <1>0, <1>2, <2>4
    DEF CallOK, ClaimMessage, ReleaseForOutcome, InsertCommit, AdvanceRequest
  <2>5. CASE CreateStatement(c)
    BY <1>0, <1>2, <2>0, <2>5 DEF CreateStatement, FindByKey, Insert, InsertRow, Answer
  <2>6. CASE GetOrThrow(c) \/ LookForBalance(c) \/ PullBalance(c)
    <3>1. local'[c].message = local[c].message
      BY <1>0, <2>6, Remembered DEF GetOrThrow, LookForBalance, PullBalance
    <3> QED BY <1>0, <1>2, <2>0, <2>6, <3>1 DEF GetOrThrow, LookForBalance, PullBalance
  <2>7. CASE RunExclusive(c)
    <3>1. UNCHANGED local \/ \E v : Remember(c, "row", v)
      BY <2>7 DEF RunExclusive, EnterMutex, CarriedRow, StartTransaction, Unlock
    <3>2. local'[c].message = local[c].message
      BY <1>0, <3>1, Remembered
    <3> QED BY <1>0, <1>2, <2>0, <2>7, <3>2 DEF RunExclusive, EnterMutex, StartTransaction, Unlock
  <2>8. CASE (FindRequest(c) \/ CheckBalance(c)) /\ ~Finish(c)
    <3>1. local'[c].message = local[c].message
      BY <1>0, <2>8, Remembered DEF FindRequest, CheckBalance
    <3> QED BY <1>0, <1>2, <2>0, <2>8, <3>1 DEF FindRequest, AfterFind, CheckBalance, CallOK, InProgram, Is
  <2>9. CASE (Hold(c) \/ ReleaseHold(c) \/ CancelPending(c) \/ SaveRequest(c)) /\ ~Finish(c)
    BY <1>0, <1>2, <2>0, <2>9 DEF Hold, ReleaseHold, CancelPending, SaveRequest
  <2>10. CASE ReadRow(c)
    <3>1. local'[c].message = local[c].message
      BY <1>0, <2>10, Remembered DEF ReadRow
    <3> QED BY <1>0, <1>2, <2>0, <2>10, <3>1 DEF ReadRow
  <2>11. CASE ReadEntries(c) /\ ~Finish(c)
    <3>1. PICK m \in SUBSET (Request \X Nat), g \in SUBSET ReconcileEvent :
            local' = [local EXCEPT ![c] = [@ EXCEPT !.matched = m, !.logged = g]]
      BY <2>11, EntriesRead
    <3>2. local'[c].message = local[c].message
      BY <1>0, <1>2, <3>1 DEF Local
    <3> QED BY <1>2, <2>0, <2>11, <3>2, EntriesRead
  <2>12. CASE MarkMatched(c)
    BY <1>0, <1>2, <2>0, <2>12 DEF MarkMatched
  <2>13. CASE EnqueueMessage(c) \/ StoreRow(c) \/ SettleMessage(c)
    BY <2>1, <2>13 DEF EnqueueMessage, StoreRow, SettleMessage
  <2> QED
    BY <2>1, <2>2, <2>3, <2>4, <2>5, <2>6, <2>7, <2>8, <2>9, <2>10, <2>11, <2>12, <2>13
    DEF Step, BeforeLock, Endpoint, ReconcileStatement, DrainStatement
<1> QED BY <1>1, <1>3, <1>4, <1>5, <1>6 DEF CallOK

\* What may be stored about a request when the calls begin.
LEMMA PastType ==
  ASSUME NEW r \in Request, NEW b \in Int, NEW p \in Past(r, b)
  PROVE  /\ p.status \in RequestStatus
         /\ p.ledger \in Seq(LedgerEntry) /\ DOMAIN p.ledger \subseteq 1 .. 2
         /\ p.outbox \in Seq(OutboxMessage)
         /\ \A i \in DOMAIN p.outbox : p.outbox[i].request = r
         /\ p.hcm \in Seq(Int)
         /\ Active(p.ledger, "RESERVE") \subseteq {1}
         /\ p.status = "DRAFT" => Active(p.ledger, "RESERVE") = {}
<1>1. Held \in LedgerEntry /\ Held.phase = "RESERVE" /\ Held.state = "ACTIVE"
  BY DEF Held, LedgerEntry, LedgerPhase, LedgerState, NoVersion
<1>2. [Held EXCEPT !.state = "RELEASED"] \in LedgerEntry
  BY <1>1 DEF LedgerEntry, LedgerState
<1> DEFINE commit == [Held EXCEPT !.phase = "COMMIT", !.hcmVersion = 2]
<1>3. commit \in LedgerEntry /\ commit.phase = "COMMIT"
  BY <1>1 DEF LedgerEntry, LedgerPhase
<1>4. [Held EXCEPT !.state = "RELEASED"].state = "RELEASED"
  BY <1>1 DEF LedgerEntry
<1> DEFINE first == Enqueue(<< >>, r, "DEBIT")[1]
           queued(is) == << [first EXCEPT !.status = is] >>
<1>5. first \in OutboxMessage /\ first.request = r
  <2>1. first = [ request |-> r, type |-> "DEBIT", status |-> "PENDING",
                  attempts |-> 0, lastError |-> "none" ]
    BY DEF Enqueue
  <2> HIDE DEF first
  <2> QED BY <2>1 DEF OutboxMessage, OutboxType, OutboxStatus, LastError
<1> HIDE DEF first
<1>6. \A is \in OutboxStatus : /\ queued(is) \in Seq(OutboxMessage)
                               /\ \A i \in DOMAIN queued(is) : queued(is)[i].request = r
  BY <1>5 DEF OutboxMessage
<1>7. Days[r] \in Int
  BY RequestAssumption
<1>8. \/ /\ p.status = "DRAFT" /\ p.ledger = << >> /\ p.outbox = << >> /\ p.hcm = << b >>
      \/ /\ p.status = "PENDING_APPROVAL" /\ p.ledger = << Held >> /\ p.outbox = << >>
         /\ p.hcm = << b, b + 1, b >>
      \/ /\ p.status = "APPROVED" /\ p.ledger = << Held >> /\ p.outbox = queued("PENDING")
         /\ p.hcm = << b >>
      \/ /\ p.status = "COMMITTED" /\ p.outbox = queued("DONE") /\ p.hcm = << b, b - Days[r] >>
         /\ p.ledger = << [Held EXCEPT !.state = "RELEASED"], commit >>
  BY DEF Past, first
<1> HIDE DEF commit, queued
<1>9. "PENDING" \in OutboxStatus /\ "DONE" \in OutboxStatus
  BY DEF OutboxStatus
<1>10. /\ << >> \in Seq(OutboxMessage) /\ DOMAIN << >> = {}
       /\ << b >> \in Seq(Int) /\ << b, b + 1, b >> \in Seq(Int)
       /\ << b, b - Days[r] >> \in Seq(Int)
  BY <1>7
<1> DEFINE Typed(e) == e \in Seq(LedgerEntry) /\ DOMAIN e \subseteq 1 .. 2
           released == [Held EXCEPT !.state = "RELEASED"]
<1>11. released \in LedgerEntry /\ released.state = "RELEASED"
  BY <1>2, <1>4
<1> HIDE DEF released
<1>12. Typed(<< >>) /\ Typed(<< Held >>) /\ Typed(<< released, commit >>)
  BY <1>1, <1>3, <1>11
<1>13. /\ Active(<< >>, "RESERVE") = {} /\ Active(<< Held >>, "RESERVE") \subseteq {1}
       /\ Active(<< released, commit >>, "RESERVE") \subseteq {1}
  BY <1>3, <1>11 DEF Active
<1> HIDE DEF Typed
<1>14. p.status \in RequestStatus
  BY <1>8 DEF RequestStatus
<1>15. p.hcm \in Seq(Int)
  BY <1>8, <1>10
<1>16. p.outbox \in Seq(OutboxMessage) /\ \A i \in DOMAIN p.outbox : p.outbox[i].request = r
  BY <1>6, <1>8, <1>9, <1>10
<1>17. Typed(p.ledger)
  BY <1>8, <1>12 DEF released
<1>18. /\ Active(p.ledger, "RESERVE") \subseteq {1}
       /\ p.status = "DRAFT" => Active(p.ledger, "RESERVE") = {}
  BY <1>8, <1>13 DEF released
<1> QED BY <1>14, <1>15, <1>16, <1>17, <1>18 DEF Typed

\* The invariant holds when the calls begin.
LEMMA InitHasInv == Init => Inv
<1> SUFFICES ASSUME Init PROVE Inv
  OBVIOUS
<1>1. PICK r \in Stored, b \in SeedBalances : \E p \in Past(r, b) :
       /\ status = [ q \in Request |-> IF q = r THEN p.status
                                       ELSE IF q \in Stored THEN "DRAFT" ELSE NoRequest ]
       /\ ledger = [ q \in Request |-> IF q = r THEN p.ledger ELSE << >> ]
       /\ outbox = p.outbox
       /\ hcm = [ k \in Key |-> IF k = KeyOf[r] THEN p.hcm ELSE << b >> ]
       /\ balance = [ k \in Key |->
                        IF k = KeyOf[r] /\ p.status # "DRAFT"
                        THEN [ hcmBalance |-> b, lastReconciledVersion |-> 1 ]
                        ELSE NoBalance ]
       /\ applied = [ c \in Command |->
                        IF c = << r, "DEBIT" >> /\ p.status = "COMMITTED"
                        THEN [ version |-> 2, applied |-> TRUE ] ELSE NoAck ]
  BY DEF Init
<1>2. PICK p \in Past(r, b) :
       /\ status = [ q \in Request |-> IF q = r THEN p.status
                                       ELSE IF q \in Stored THEN "DRAFT" ELSE NoRequest ]
       /\ ledger = [ q \in Request |-> IF q = r THEN p.ledger ELSE << >> ]
       /\ outbox = p.outbox
       /\ hcm = [ k \in Key |-> IF k = KeyOf[r] THEN p.hcm ELSE << b >> ]
       /\ balance = [ k \in Key |->
                        IF k = KeyOf[r] /\ p.status # "DRAFT"
                        THEN [ hcmBalance |-> b, lastReconciledVersion |-> 1 ]
                        ELSE NoBalance ]
       /\ applied = [ c \in Command |->
                        IF c = << r, "DEBIT" >> /\ p.status = "COMMITTED"
                        THEN [ version |-> 2, applied |-> TRUE ] ELSE NoAck ]
  BY <1>1
<1>3. r \in Request /\ b \in Int
  BY CallsAssumption, BoundsAssumption
<1>4. /\ p.status \in RequestStatus
      /\ p.ledger \in Seq(LedgerEntry) /\ DOMAIN p.ledger \subseteq 1 .. 2
      /\ p.outbox \in Seq(OutboxMessage) /\ p.hcm \in Seq(Int)
  BY <1>3, PastType
<1>5. DatabaseTypeOK
  <2>1. status \in [Request -> RequestStatus \union {NoRequest}]
    BY <1>2, <1>4 DEF RequestStatus
  <2>2. balance \in [Key -> [hcmBalance : Int, lastReconciledVersion : Nat]]
    BY <1>2, <1>3 DEF NoBalance
  <2>3. ledger \in [Request -> Seq(LedgerEntry)] /\ outbox \in Seq(OutboxMessage)
    BY <1>2, <1>4
  <2> QED BY <2>1, <2>2, <2>3 DEF DatabaseTypeOK, Init
<1>6. HcmTypeOK
  <2>1. hcm \in [Key -> Seq(Int)]
    BY <1>2, <1>3, <1>4
  <2>2. applied \in [Command -> [version : Nat, applied : BOOLEAN]]
    BY <1>2 DEF NoAck
  <2> QED BY <2>1, <2>2 DEF HcmTypeOK
<1>7. MutexInv
  BY InitInv DEF Init
<1>8. /\ CallsTypeOK
      /\ \A c \in Call : at[c] = Entry[job[c].op] /\ local[c] = Empty /\ job[c].op \in Operation
  <2>1. job \in [Call -> Job] /\ \A c \in Call : KeyOf[Req(c)] = On[c]
    BY CallsAssumption DEF Init, Req
  <2>2. \A c \in Call : job[c].op \in Operation /\ at[c] = Entry[job[c].op] /\ local[c] = Empty
    BY <2>1 DEF Init, Job
  <2>3. \A op \in Operation : Entry[op] \in Label
    BY DEF Operation, Entry, Label
  <2> QED BY <2>1, <2>2, <2>3, EmptyLocal DEF Init, CallsTypeOK
<1>9. UnitsFinite
  <2> SUFFICES ASSUME NEW k \in Key, NEW ph \in LedgerPhase
               PROVE  IsFiniteSet(UnitsOf(ledger, k, ph))
    BY DEF UnitsFinite
  <2> DEFINE few == ({r} \X (1 .. 2)) \X (1 .. Days[r])
  <2>1. UnitsOf(ledger, k, ph) \subseteq few
    <3> SUFFICES ASSUME NEW u \in UnitsOf(ledger, k, ph) PROVE u \in few
      OBVIOUS
    <3>1. PICK q \in Request, i \in Nat, n \in Nat : u = << << q, i >>, n >>
      BY DEF UnitsOf
    <3>2. i \in DOMAIN ledger[q] /\ n \in 1 .. Days[q]
      BY <3>1 DEF UnitsOf, Active
    <3>3. q = r /\ i \in 1 .. 2
      BY <1>2, <1>4, <3>2
    <3> QED BY <3>1, <3>2, <3>3
  <2>2. IsFiniteSet(few)
    <3>1. Days[r] \in Int
      BY <1>3, RequestAssumption
    <3>2. \A n \in Int : IsFiniteSet(1 .. n)
      BY FS_Interval
    <3>3. 2 \in Int
      OBVIOUS
    <3>4. IsFiniteSet(1 .. 2)
      BY <3>2, <3>3, Zenon
    <3>5. IsFiniteSet(1 .. 2) /\ IsFiniteSet({r})
      BY <3>4, FS_Singleton, Zenon
    <3>6. IsFiniteSet(1 .. Days[r])
      BY <3>1, <3>2
    <3>7. IsFiniteSet({r} \X (1 .. 2))
      BY <3>5, FS_Product, Zenon
    <3> QED BY <3>6, <3>7, FS_Product, Zenon
  <2> QED BY <2>1, <2>2, FS_Subset
<1>10. ASSUME NEW c \in Call PROVE CallOK(c)
  <2>1. /\ Entry[job[c].op] \in {"findKey", "getOrThrow", "find", "lock", "due"}
        /\ Entry[job[c].op] = "findKey" => Is(c, "create")
        /\ Entry[job[c].op] = "getOrThrow" => Is(c, "submit")
        /\ Entry[job[c].op] = "find" => job[c].op \in {"approve", "reject", "cancel"}
        /\ Entry[job[c].op] = "lock" => Is(c, "reconcile")
    BY <1>8 DEF Entry, Operation, Is
  <2>2. at[c] = Entry[job[c].op] /\ local[c].message = 0
    BY <1>8, EmptyLocal
  <2> QED
    BY <2>1, <2>2 DEF CallOK, InProgram, FoundLegal, UnderLock, Delivering, Is
<1> QED BY <1>5, <1>6, <1>7, <1>8, <1>9, <1>10 DEF Inv

\* Every step keeps the invariant.
LEMMA NextKeepsInv == Inv /\ [Next]_vars => Inv'
<1> SUFFICES ASSUME Inv, [Next]_vars PROVE Inv'
  OBVIOUS
<1>1. MutexInv'
  BY UsesMutex, NextInv DEF Inv
<1>2. ASSUME UNCHANGED << dbVars, callVars, mutexVars >>, HcmTypeOK' PROVE Inv'
  <2>1. DatabaseTypeOK' /\ CallsTypeOK' /\ UnitsFinite' /\ \A c \in Call : CallOK(c)'
    BY <1>2 DEF Inv, DatabaseTypeOK, CallsTypeOK, UnitsFinite, UnitsOf, Active, CallOK, InProgram,
                FoundLegal, UnderLock, Delivering, Is, Req, dbVars, callVars, mutexVars
  <2> QED BY <1>1, <1>2, <2>1 DEF Inv
<1>3. ASSUME NEW c \in Call, Step(c) PROVE Inv'
  <2>1. DatabaseTypeOK'
    BY <1>3, StatusType, LedgerType, OutboxGrows, BalanceType DEF DatabaseTypeOK
  <2>2. CallsTypeOK'
    <3>1. answer' \in [Call -> Request \union {NoRequest, Failed}]
      <4>1. CASE FindByKey(c) \/ Insert(c)
        <5>1. \A q \in WithKeyOf(Req(c)) : q \in Request
          BY DEF WithKeyOf
        <5> QED BY <4>1, <5>1, CallType
            DEF FindByKey, Insert, InsertRow, Answer, Inv, CallsTypeOK
      <4>2. CASE UNCHANGED answer
        BY <4>2 DEF Inv, CallsTypeOK
      <4> QED BY <1>3, <4>1, <4>2, Writers
    <3>2. job' = job
      BY <1>3, Alone
    <3> QED BY <1>3, <3>1, <3>2, LabelType, LocalType DEF Inv, CallsTypeOK, Req
  <2> QED BY <1>1, <1>3, <2>1, <2>2, HcmType, UnitsStayFinite, CallStaysOK DEF Inv
<1>4. CASE UNCHANGED vars
  BY <1>2, <1>4 DEF vars, hcmVars, HcmTypeOK, Inv
<1>5. CASE HcmAdjusts
  <2>1. PICK k \in Key, d \in Adjustments : Adjust(k, d)
    BY <1>5 DEF HcmAdjusts
  <2>2. hcm \in [Key -> Seq(Int)] /\ d \in Int
    BY BoundsAssumption DEF Inv, HcmTypeOK
  <2>3. CurrentBalance(k) \in Int
    BY <2>1, <2>2 DEF Adjust, CurrentBalance, Version
  <2>4. Append(hcm[k], CurrentBalance(k) + d) \in Seq(Int)
    BY <2>2, <2>3
  <2>5. HcmTypeOK'
    BY <2>1, <2>2, <2>4 DEF Adjust, Inv, HcmTypeOK
  <2> QED BY <1>2, <1>5, <2>5 DEF HcmAdjusts
<1> QED BY <1>3, <1>4, <1>5 DEF Next

\* The invariant holds in every state the calls reach.
THEOREM CallsInvariant == Spec => []Inv
BY InitHasInv, NextKeepsInv, PTL DEF Spec

\* Every table, and every local variable of every call, keeps its type however
\* the statements interleave.
THEOREM StatementsTypeCorrect == Spec => []TypeOK
<1>1. Inv => TypeOK
  BY DEF Inv, TypeOK, MutexInv, CallsTypeOK, CallOK
<1> QED BY <1>1, CallsInvariant, PTL

------------------------------------------------------------------------------
(* One hold per request *)

Holds(r) == Active(ledger[r], "RESERVE")

\* While a submit goes from its check to its hold, its request has none; and a
\* request that could still be submitted has a hold only between the hold and
\* the save of the submit that moves it on.
HoldInv ==
  /\ \A r \in Request : \A i, j \in Holds(r) : i = j
  /\ \A c \in Call : at[c] \in {"check", "hold"} => Holds(Req(c)) = {}
  /\ \A r \in Request : status[r] \in {NoRequest, "DRAFT"} /\ Holds(r) # {} =>
       \E c \in Call : Is(c, "submit") /\ at[c] = "save" /\ Req(c) = r

\* Of the transactions of submit on one key only one is under way.
LEMMA OneUnderLock ==
  ASSUME Inv, NEW c \in Call, NEW d \in Call, UnderLock(c), UnderLock(d), On[c] = On[d]
  PROVE  c = d
BY InTurnExcludes DEF MutualExclusion, Inv, CallOK

\* No statement takes a request back to where it could be submitted.
LEMMA NeverDraftAgain ==
  ASSUME Inv, NEW c \in Call, Step(c), NEW r \in Request, status'[r] \in {NoRequest, "DRAFT"}
  PROVE  /\ status[r] \in {NoRequest, "DRAFT"}
         /\ SaveRequest(c) => r # Req(c)
<1>0. status \in [Request -> RequestStatus \union {NoRequest}]
  BY DEF Inv, DatabaseTypeOK
<1>1. CASE Insert(c)
  <2>1. \/ status' = status
        \/ WithKeyOf(Req(c)) = {} /\ status' = [status EXCEPT ![Req(c)] = "DRAFT"]
    BY <1>1 DEF Insert, InsertRow
  <2>2. WithKeyOf(Req(c)) = {} => status[Req(c)] = NoRequest
    BY CallType DEF WithKeyOf
  <2> QED BY <1>0, <1>1, <2>1, <2>2 DEF Insert, SaveRequest
<1>2. CASE SaveRequest(c)
  <2>1. CanTransition(local[c].status, ActionOf[job[c].op])
    BY <1>2 DEF Inv, CallOK, FoundLegal, SaveRequest
  <2>2. NextState(local[c].status, ActionOf[job[c].op]) \notin {NoRequest, "DRAFT"}
    BY <2>1, NextStatus DEF RequestStatus, NoRequest
  <2> QED BY <1>0, <1>2, <2>2 DEF SaveRequest
<1>3. CASE AdvanceRequest(c)
  <2>1. CanTransition(local[c].status, Outcome(c)) =>
          NextState(local[c].status, Outcome(c)) \notin {NoRequest, "DRAFT"}
    BY NextStatus DEF RequestStatus, NoRequest
  <2> QED BY <1>0, <1>3, <2>1 DEF AdvanceRequest, SaveRequest
<1>4. CASE UNCHANGED status /\ ~SaveRequest(c)
  BY <1>4
<1> QED BY <1>1, <1>2, <1>3, <1>4, Writers

\* Nothing is held twice when the calls begin.
LEMMA InitHoldInv == Init => HoldInv
<1> SUFFICES ASSUME Init PROVE HoldInv
  OBVIOUS
<1>1. PICK r \in Stored, b \in SeedBalances : \E p \in Past(r, b) :
       /\ status = [ q \in Request |-> IF q = r THEN p.status
                                       ELSE IF q \in Stored THEN "DRAFT" ELSE NoRequest ]
       /\ ledger = [ q \in Request |-> IF q = r THEN p.ledger ELSE << >> ]
  BY DEF Init
<1>2. PICK p \in Past(r, b) :
       /\ status = [ q \in Request |-> IF q = r THEN p.status
                                       ELSE IF q \in Stored THEN "DRAFT" ELSE NoRequest ]
       /\ ledger = [ q \in Request |-> IF q = r THEN p.ledger ELSE << >> ]
  BY <1>1
<1>3. r \in Request /\ b \in Int
  BY CallsAssumption, BoundsAssumption
<1>4. /\ Active(p.ledger, "RESERVE") \subseteq {1}
      /\ p.status \in {NoRequest, "DRAFT"} => Active(p.ledger, "RESERVE") = {}
  BY <1>3, PastType DEF RequestStatus, NoRequest
<1>5. \A q \in Request :
        /\ Holds(q) \subseteq {1}
        /\ status[q] \in {NoRequest, "DRAFT"} => Holds(q) = {}
  <2>1. Active(<< >>, "RESERVE") = {}
    BY DEF Active
  <2> QED BY <1>2, <1>4, <2>1 DEF Holds
<1>6. \A c \in Call : at[c] \notin {"check", "hold"}
  <2>1. \A c \in Call : at[c] = Entry[job[c].op] /\ job[c].op \in Operation
    BY CallsAssumption DEF Init, Job
  <2>2. \A op \in Operation : Entry[op] \notin {"check", "hold"}
    BY DEF Operation, Entry
  <2> QED BY <2>1, <2>2
<1> QED BY <1>5, <1>6 DEF HoldInv

\* Every step keeps it.
LEMMA NextHoldInv == Inv /\ HoldInv /\ [Next]_vars => HoldInv'
<1> SUFFICES ASSUME Inv, HoldInv, [Next]_vars PROVE HoldInv'
  OBVIOUS
<1>1. CASE UNCHANGED << status, ledger, job, at >>
  BY <1>1 DEF HoldInv, Holds, Active, Req, Is
<1>2. ASSUME NEW c \in Call, Step(c), Hold(c) PROVE HoldInv'
  <2>1. PICK x \in LedgerEntry : /\ x.phase = "RESERVE" /\ x.state = "ACTIVE"
                                 /\ ledger' = [ledger EXCEPT ![Req(c)] = Append(@, x)]
    BY <1>2, Inserts
  <2>2. /\ Active(ledger'[Req(c)], "RESERVE") = Holds(Req(c)) \union {Len(ledger[Req(c)]) + 1}
        /\ \A r \in Request : r # Req(c) => ledger'[r] = ledger[r]
    BY <2>1, CallType, InsertActive DEF Holds, LedgerPhase
  <2>3. /\ UNCHANGED << status, job >> /\ at[c] = "hold" /\ at'[c] = "save" /\ Is(c, "submit")
        /\ \A d \in Call : d # c => at'[d] = at[d]
    BY <1>2, Alone DEF Hold, Goto, Inv, CallsTypeOK, CallOK, InProgram
  <2>4. Holds(Req(c)) = {}
    BY <2>3 DEF HoldInv
  <2>5. \A r \in Request : Holds(r)' = IF r = Req(c) THEN {Len(ledger[r]) + 1} ELSE Holds(r)
    BY <2>2, <2>4 DEF Holds, Active
  <2>6. \A d \in Call : at'[d] \in {"check", "hold"} => Holds(Req(d))' = {}
    <3> SUFFICES ASSUME NEW d \in Call, at'[d] \in {"check", "hold"} PROVE Holds(Req(d))' = {}
      OBVIOUS
    <3>1. d # c /\ at[d] \in {"check", "hold"}
      BY <2>3
    <3>2. UnderLock(c) /\ UnderLock(d)
      BY <2>3, <3>1 DEF UnderLock, Inv, CallOK, InProgram
    <3>3. Req(d) # Req(c)
      BY <3>1, <3>2, CallType, OneUnderLock
    <3>4. Holds(Req(d)) = {} /\ Req(d)' = Req(d) /\ Req(d) \in Request
      BY <2>3, <3>1, CallType DEF HoldInv, Req
    <3> QED BY <2>5, <3>3, <3>4
  <2>7. \A r \in Request : status'[r] \in {NoRequest, "DRAFT"} /\ Holds(r)' # {} =>
          \E d \in Call : Is(d, "submit")' /\ at'[d] = "save" /\ Req(d)' = r
    BY <2>3, <2>5 DEF HoldInv, Is, Req
  <2> QED BY <2>5, <2>6, <2>7 DEF HoldInv
<1>3. ASSUME NEW c \in Call, Step(c), ~Hold(c) PROVE HoldInv'
  <2>1. /\ UNCHANGED job
        /\ \A d \in Call : d # c => at'[d] = at[d]
    BY <1>3, Alone
  <2>2. \A r \in Request : Holds(r)' \subseteq Holds(r)
    BY <1>3, ActiveShrinks DEF Holds, LedgerPhase, Active
  <2>3. at'[c] \in {"check", "hold"} => Holds(Req(c)) = {}
    <3>1. CASE FindRequest(c) /\ at'[c] = "check"
      <4>1. Is(c, "submit") /\ at[c] = "find"
        BY <3>1 DEF FindRequest, Goto, AfterFind, Finish, Inv, CallsTypeOK, CallOK, InProgram, Is
      <4>2. MayGoOn(c)
        BY <3>1 DEF FindRequest, Finish, Goto, Inv, CallsTypeOK
      <4>3. status[Req(c)] = "DRAFT"
        BY <4>1, <4>2, SubmitTransition DEF MayGoOn, StatusFound, ActionOf, Is
      <4>4. ~ \E d \in Call : Is(d, "submit") /\ at[d] = "save" /\ Req(d) = Req(c)
        BY <4>1, CallType, OneUnderLock DEF UnderLock
      <4> QED BY <4>3, <4>4, CallType DEF HoldInv
    <3>2. CASE at[c] = "check"
      BY <3>2 DEF HoldInv
    <3>3. at'[c] \in {"check", "hold"} =>
            at[c] = "check" \/ (FindRequest(c) /\ at'[c] = "check")
      <4> USE DEF Goto
      <4>0. at \in [Call -> Label]
        BY DEF Inv, CallsTypeOK
      <4>1. CASE CreateStatement(c) \/ BeforeLock(c) \/ RunExclusive(c)
        BY <4>0, <4>1
        DEF CreateStatement, FindByKey, Insert, InsertRow, Answer,
            BeforeLock, GetOrThrow, LookForBalance, PullBalance, LoadBalance,
            RunExclusive, EnterMutex, StartTransaction, Unlock
      <4>2. CASE Endpoint(c)
        <5>1. CASE FindRequest(c)
          <6>1. AfterFind(c) # "hold"
            BY <5>1 DEF AfterFind, FindRequest, Inv, CallOK, InProgram, Is
          <6> QED BY <4>0, <5>1, <6>1 DEF FindRequest, Finish
        <5>2. CASE CheckBalance(c)
          <6>1. at[c] = "check"
            BY <5>2 DEF CheckBalance
          <6> QED BY <6>1
        <5>3. CASE ReleaseHold(c) \/ CancelPending(c) \/ SaveRequest(c) \/ EnqueueMessage(c)
          BY <4>0, <5>3 DEF ReleaseHold, CancelPending, SaveRequest, EnqueueMessage, Finish
        <5> QED BY <1>3, <4>2, <5>1, <5>2, <5>3 DEF Endpoint
      <4>3. CASE ReconcileStatement(c) \/ DrainStatement(c)
        BY <4>0, <4>3
        DEF ReconcileStatement, ReadRow, ReadEntries, MarkMatched, StoreRow, Finish,
            DrainStatement, SelectDue, ClaimMessage, CallHcm, FindOutcomesRequest,
            ReleaseForOutcome, InsertCommit, AdvanceRequest, SettleMessage
      <4> QED BY <1>3, <4>1, <4>2, <4>3 DEF Step
    <3> QED BY <3>1, <3>2, <3>3
  <2>4. \A d \in Call : at'[d] \in {"check", "hold"} => Holds(Req(d))' = {}
    <3> SUFFICES ASSUME NEW d \in Call, at'[d] \in {"check", "hold"} PROVE Holds(Req(d))' = {}
      OBVIOUS
    <3>1. Req(d)' = Req(d) /\ Req(d) \in Request /\ Holds(Req(d)) = {}
      BY <2>1, <2>3, CallType DEF HoldInv, Req
    <3> QED BY <2>2, <3>1
  <2>5. ASSUME NEW r \in Request, status'[r] \in {NoRequest, "DRAFT"}, Holds(r)' # {}
        PROVE  \E d \in Call : Is(d, "submit")' /\ at'[d] = "save" /\ Req(d)' = r
    <3>1. status[r] \in {NoRequest, "DRAFT"} /\ Holds(r) # {}
      BY <1>3, <2>2, <2>5, NeverDraftAgain
    <3>2. PICK d \in Call : Is(d, "submit") /\ at[d] = "save" /\ Req(d) = r
      BY <3>1 DEF HoldInv
    <3>3. d # c
      <4> SUFFICES ASSUME d = c PROVE FALSE
        OBVIOUS
      <4>1. SaveRequest(c)
        BY <1>3, <3>2
        DEF Step, CreateStatement, FindByKey, Insert,
            BeforeLock, GetOrThrow, LookForBalance, PullBalance, LoadBalance,
            RunExclusive, EnterMutex, StartTransaction, Unlock,
            Endpoint, FindRequest, CheckBalance, Hold, ReleaseHold, CancelPending, EnqueueMessage,
            ReconcileStatement, ReadRow, ReadEntries, MarkMatched, StoreRow,
            DrainStatement, SelectDue, ClaimMessage, CallHcm, FindOutcomesRequest,
            ReleaseForOutcome, InsertCommit, AdvanceRequest, SettleMessage
      <4> QED BY <1>3, <2>5, <3>2, <4>1, NeverDraftAgain
    <3> QED BY <2>1, <3>2, <3>3 DEF Is, Req
  <2>6. \A r \in Request : \A i, j \in Holds(r)' : i = j
    BY <2>2 DEF HoldInv
  <2> QED BY <2>4, <2>5, <2>6 DEF HoldInv
<1> QED BY <1>1, <1>2, <1>3 DEF Next, HcmAdjusts, vars, dbVars, callVars

\* However many submits of one request run at once, one of them at most writes
\* a hold.
THEOREM SubmitsHoldOnce == Spec => []OneHoldPerRequest
<1>1. HoldInv => OneHoldPerRequest
  <2> SUFFICES ASSUME HoldInv, NEW r \in Request PROVE Cardinality(Holds(r)) <= 1
    BY DEF OneHoldPerRequest, Holds
  <2>1. CASE Holds(r) = {}
    <3>1. Cardinality(Holds(r)) = 0
      BY <2>1, FS_EmptySet
    <3> QED BY <3>1
  <2>2. CASE Holds(r) # {}
    <3>1. PICK i : Holds(r) = {i}
      BY <2>2 DEF HoldInv
    <3>2. Cardinality(Holds(r)) = 1
      BY <3>1, FS_Singleton, Zenon
    <3> QED BY <3>2
  <2> QED BY <2>1, <2>2
<1> QED BY <1>1, InitHoldInv, NextHoldInv, CallsInvariant, PTL DEF Spec

------------------------------------------------------------------------------
(* Retried creates *)

Exists(r) == status[r] # NoRequest

\* The unique index: one row per Idempotency-Key.  Answers, messages and the
\* transactions under way are about rows there are.
CreateInv ==
  /\ \A q, r \in Request :
       Exists(q) /\ Exists(r) /\ IdempotencyKeyOf[q] = IdempotencyKeyOf[r] => q = r
  /\ \A c \in Call :
       /\ answer[c] \in Request =>
            /\ Exists(answer[c])
            /\ IdempotencyKeyOf[answer[c]] = IdempotencyKeyOf[Req(c)]
       /\ answer[c] = Failed =>
            \E q \in Request : Exists(q) /\ IdempotencyKeyOf[q] = IdempotencyKeyOf[Req(c)]
       /\ at[c] \in {"check", "hold", "release", "cancelPending", "save", "enqueue"} =>
            Exists(Req(c))
  /\ \A i \in DOMAIN outbox : Exists(outbox[i].request)

\* Rows are never deleted, and one is added only where its key is free.
LEMMA RowsStay ==
  ASSUME Inv, CreateInv, NEW c \in Call, Step(c), NEW r \in Request
  PROVE  /\ Exists(r) => Exists(r)'
         /\ ~Exists(r) /\ Exists(r)' => Insert(c) /\ r = Req(c) /\ WithKeyOf(r) = {}
<1>0. status \in [Request -> RequestStatus \union {NoRequest}]
  BY DEF Inv, DatabaseTypeOK
<1>1. CASE Insert(c)
  <2>1. \/ status' = status
        \/ WithKeyOf(Req(c)) = {} /\ status' = [status EXCEPT ![Req(c)] = "DRAFT"]
    BY <1>1 DEF Insert, InsertRow
  <2> QED BY <1>0, <1>1, <2>1 DEF Exists, NoRequest
<1>2. CASE SaveRequest(c)
  <2>1. CanTransition(local[c].status, ActionOf[job[c].op]) /\ Exists(Req(c))
    BY <1>2 DEF Inv, CallOK, FoundLegal, SaveRequest, CreateInv
  <2>2. NextState(local[c].status, ActionOf[job[c].op]) # NoRequest
    BY <2>1, NextStatus DEF RequestStatus, NoRequest
  <2>3. r # Req(c) => status'[r] = status[r]
    BY <1>0, <1>2 DEF SaveRequest
  <2>4. status'[Req(c)] # NoRequest
    BY <1>0, <1>2, <2>2, CallType DEF SaveRequest
  <2> QED BY <2>1, <2>3, <2>4 DEF Exists
<1>3. CASE AdvanceRequest(c)
  <2>1. Message(c).request \in Request /\ Exists(Message(c).request)
    BY <1>3, MessageType DEF AdvanceRequest, Delivering, CreateInv, Message
  <2>2. CanTransition(local[c].status, Outcome(c)) =>
          NextState(local[c].status, Outcome(c)) # NoRequest
    BY NextStatus DEF RequestStatus, NoRequest
  <2>3. \/ status' = status
        \/ /\ CanTransition(local[c].status, Outcome(c))
           /\ status' = [status EXCEPT ![Message(c).request] =
                           NextState(local[c].status, Outcome(c))]
    BY <1>3 DEF AdvanceRequest
  <2> QED BY <1>0, <2>1, <2>2, <2>3 DEF Exists
<1>4. CASE UNCHANGED status
  BY <1>4 DEF Exists
<1> QED BY <1>1, <1>2, <1>3, <1>4, Writers

\* Nobody is answered yet and the stored requests have keys of their own.
LEMMA InitCreateInv == Init => CreateInv
<1> SUFFICES ASSUME Init PROVE CreateInv
  OBVIOUS
<1>1. PICK r \in Stored, b \in SeedBalances : \E p \in Past(r, b) :
       /\ status = [ q \in Request |-> IF q = r THEN p.status
                                       ELSE IF q \in Stored THEN "DRAFT" ELSE NoRequest ]
       /\ outbox = p.outbox
  BY DEF Init
<1>2. PICK p \in Past(r, b) :
       /\ status = [ q \in Request |-> IF q = r THEN p.status
                                       ELSE IF q \in Stored THEN "DRAFT" ELSE NoRequest ]
       /\ outbox = p.outbox
  BY <1>1
<1>3. r \in Request /\ b \in Int
  BY CallsAssumption, BoundsAssumption
<1>4. p.status # NoRequest /\ \A i \in DOMAIN p.outbox : p.outbox[i].request = r
  BY <1>3, PastType DEF RequestStatus, NoRequest
<1>5. Exists(r) /\ \A q \in Request : Exists(q) => q \in Stored
  BY <1>2, <1>3, <1>4 DEF Exists
<1>6. \A c \in Call : answer[c] = NoRequest /\ NoRequest \notin Request /\ NoRequest # Failed
  BY CallsAssumption DEF Init, NoRequest, Failed
<1>7. \A c \in Call :
        at[c] \notin {"check", "hold", "release", "cancelPending", "save", "enqueue"}
  <2>1. \A c \in Call : at[c] = Entry[job[c].op] /\ job[c].op \in Operation
    BY CallsAssumption DEF Init, Job
  <2>2. \A op \in Operation :
          Entry[op] \notin {"check", "hold", "release", "cancelPending", "save", "enqueue"}
    BY DEF Operation, Entry
  <2> QED BY <2>1, <2>2
<1>8. \A i \in DOMAIN outbox : Exists(outbox[i].request)
  BY <1>2, <1>4, <1>5
<1>9. \A q, t \in Request :
        Exists(q) /\ Exists(t) /\ IdempotencyKeyOf[q] = IdempotencyKeyOf[t] => q = t
  BY <1>5, CallsAssumption
<1> QED BY <1>6, <1>7, <1>8, <1>9 DEF CreateInv

\* Every step keeps it.
LEMMA NextCreateInv == Inv /\ CreateInv /\ [Next]_vars => CreateInv'
<1> SUFFICES ASSUME Inv, CreateInv, [Next]_vars PROVE CreateInv'
  OBVIOUS
<1>1. CASE UNCHANGED << status, outbox, job, at, answer >>
  BY <1>1 DEF CreateInv, Exists, Req
<1>2. ASSUME NEW c \in Call, Step(c) PROVE CreateInv'
  <2>0. at \in [Call -> Label] /\ answer \in [Call -> Request \union {NoRequest, Failed}]
    BY DEF Inv, CallsTypeOK
  <2>1. /\ UNCHANGED job /\ \A d \in Call : Req(d)' = Req(d) /\ Req(d) \in Request
        /\ \A d \in Call : d # c => at'[d] = at[d] /\ answer'[d] = answer[d]
    BY <1>2, Alone, CallType DEF Req
  <2>2. \A r \in Request : Exists(r) => Exists(r)'
    BY <1>2, RowsStay
  <2>3. \A q, r \in Request :
          Exists(q)' /\ Exists(r)' /\ IdempotencyKeyOf[q] = IdempotencyKeyOf[r] => q = r
    <3>1. \A q \in Request : Exists(q)' => Exists(q) \/ (q = Req(c) /\ WithKeyOf(q) = {})
      BY <1>2, RowsStay
    <3>2. \A q, r \in Request :
            Exists(q) /\ WithKeyOf(r) = {} => IdempotencyKeyOf[q] # IdempotencyKeyOf[r]
      BY DEF WithKeyOf, Exists
    <3> QED BY <3>1, <3>2 DEF CreateInv
  <2>4. ASSUME NEW d \in Call
        PROVE  /\ answer'[d] \in Request =>
                    /\ Exists(answer[d])'
                    /\ IdempotencyKeyOf[answer'[d]] = IdempotencyKeyOf[Req(d)]
               /\ answer'[d] = Failed =>
                    \E q \in Request :
                      Exists(q)' /\ IdempotencyKeyOf[q] = IdempotencyKeyOf[Req(d)]
    <3>1. CASE answer'[d] = answer[d]
      BY <2>2, <3>1 DEF CreateInv, Exists
    <3>2. CASE d = c /\ FindByKey(c) /\ answer'[d] # answer[d]
      <4>1. PICK q \in WithKeyOf(Req(c)) : Answer(c, q)
        BY <3>2 DEF FindByKey
      <4>2. answer'[c] = q /\ q \in Request /\ q # Failed
        BY <2>0, <4>1, CallsAssumption DEF Answer, WithKeyOf
      <4>3. Exists(q)' /\ IdempotencyKeyOf[q] = IdempotencyKeyOf[Req(c)]
        BY <2>2, <4>1, <4>2 DEF WithKeyOf, Exists
      <4> QED BY <3>2, <4>2, <4>3 DEF Exists
    <3>3. CASE d = c /\ Insert(c)
      <4>0. status \in [Request -> RequestStatus \union {NoRequest}]
        BY DEF Inv, DatabaseTypeOK
      <4>1. CASE WithKeyOf(Req(c)) = {}
        <5>1. answer'[c] = Req(c) /\ status'[Req(c)] = "DRAFT" /\ Req(c) # Failed
          BY <2>0, <2>1, <3>3, <4>0, <4>1, CallsAssumption DEF Insert, InsertRow, Answer
        <5> QED BY <3>3, <5>1 DEF Exists, NoRequest
      <4>2. CASE WithKeyOf(Req(c)) # {}
        <5>1. answer'[c] = Failed /\ Failed \notin Request
          BY <2>0, <3>3, <4>2, CallsAssumption DEF Insert, InsertRow, Answer
        <5>2. PICK q \in Request : Exists(q) /\ IdempotencyKeyOf[q] = IdempotencyKeyOf[Req(c)]
          BY <4>2 DEF WithKeyOf, Exists
        <5> QED BY <2>2, <3>3, <5>1, <5>2
      <4> QED BY <4>1, <4>2
    <3> QED BY <1>2, <2>1, <3>1, <3>2, <3>3, Writers
  <2>5. ASSUME NEW d \in Call,
               at'[d] \in {"check", "hold", "release", "cancelPending", "save", "enqueue"}
        PROVE  Exists(Req(d))'
    <3>1. CASE at[d] \in {"check", "hold", "release", "cancelPending", "save", "enqueue"}
      BY <2>1, <2>2, <3>1 DEF CreateInv, Exists
    <3>2. CASE d = c /\ FindRequest(c)
      <4>1. MayGoOn(c)
        BY <2>0, <2>5, <3>2 DEF FindRequest, Finish, Goto
      <4>2. Exists(Req(c))
        BY <4>1 DEF MayGoOn, StatusFound, CanTransition, Exists, RequestStatus, NoRequest
      <4> QED BY <2>1, <2>2, <3>2, <4>2 DEF Exists
    <3>3. d = c /\ ~FindRequest(c) =>
            at[d] \in {"check", "hold", "release", "cancelPending", "save", "enqueue"}
      <4> USE DEF Goto
      <4>1. CASE CreateStatement(c) \/ BeforeLock(c) \/ RunExclusive(c)
        BY <2>0, <2>5, <4>1
        DEF CreateStatement, FindByKey, Insert, InsertRow, Answer,
            BeforeLock, GetOrThrow, LookForBalance, PullBalance, LoadBalance,
            RunExclusive, EnterMutex, StartTransaction, Unlock
      <4>2. CASE Endpoint(c)
        BY <4>2
        DEF Endpoint, CheckBalance, Hold, ReleaseHold, CancelPending, SaveRequest, EnqueueMessage
      <4>3. CASE ReconcileStatement(c) \/ DrainStatement(c)
        BY <2>0, <2>5, <4>3
        DEF ReconcileStatement, ReadRow, ReadEntries, MarkMatched, StoreRow, Finish,
            DrainStatement, SelectDue, ClaimMessage, CallHcm, FindOutcomesRequest,
            ReleaseForOutcome, InsertCommit, AdvanceRequest, SettleMessage
      <4> QED BY <1>2, <4>1, <4>2, <4>3 DEF Step
    <3> QED BY <2>1, <2>5, <3>1, <3>2, <3>3
  <2>6. ASSUME NEW i \in DOMAIN outbox' PROVE Exists(outbox[i].request)'
    <3>0. outbox' \in Seq(OutboxMessage) /\ outbox \in Seq(OutboxMessage)
      BY <1>2, OutboxGrows DEF Inv, DatabaseTypeOK
    <3>3. outbox'[i] \in OutboxMessage
      BY <2>6, <3>0
    <3>1. outbox'[i].request \in Request
      BY <3>3 DEF OutboxMessage
    <3>2. Exists(outbox'[i].request)
      BY <1>2, OutboxGrows DEF CreateInv, Alike
    <3> QED BY <2>2, <3>1, <3>2 DEF Exists
  <2> QED BY <2>1, <2>3, <2>4, <2>5, <2>6 DEF CreateInv
<1> QED BY <1>1, <1>2 DEF Next, HcmAdjusts, vars, dbVars, callVars

\* However creates with one Idempotency-Key interleave, they return one request,
\* and a failed one leaves the row it lost to for the retry.
THEOREM RetriedCreatesAgree == Spec => []CreatesAgree
<1>1. Inv /\ CreateInv => CreatesAgree
  BY CallType DEF CreateInv, CreatesAgree, WithKeyOf, Exists
<1> QED BY <1>1, InitCreateInv, NextCreateInv, CallsInvariant, PTL DEF Spec

------------------------------------------------------------------------------
(* Checks and snapshots *)

Sum(k, p) == Total(ActiveEntries(k, p))

\* A reconcile under way still has the snapshot it found, or found none; a
\* submit past its load has a balance, and between its check and its hold the
\* days it asks for still fit.
CheckOK(c) ==
  /\ at[c] \in {"commits", "mark", "store"} => local[c].found \in {NoBalance, balance[On[c]]}
  /\ at[c] \in {"mark", "store"} => local[c].row.version > local[c].found.lastReconciledVersion
  /\ at[c] = "load" => local[c].row.version > 0
  /\ Is(c, "submit") /\ at[c] \in {"lock", "wait", "find", "check", "hold"} => HasBalance(On[c])
  /\ at[c] = "hold" =>
       Days[Req(c)] <= balance[On[c]].hcmBalance - Sum(On[c], "RESERVE") - local[c].committed

CheckInv == \A c \in Call : CheckOK(c)

\* The sums of a state are the numbers of its units.
LEMMA SumsAreUnits ==
  Inv => \A k \in Key, p \in LedgerPhase :
           Sum(k, p) = Cardinality(UnitsOf(ledger, k, p)) /\ Sum(k, p) \in Nat
BY SumType DEF Sum

\* So are those of the next state.
LEMMA NextSumsAreUnits ==
  Inv /\ [Next]_vars =>
    \A k \in Key, p \in LedgerPhase :
      Sum(k, p)' = Cardinality(UnitsOf(ledger', k, p)) /\ Sum(k, p)' \in Nat
<1>1. Inv' => (\A k \in Key, p \in LedgerPhase :
                 Sum(k, p) = Cardinality(UnitsOf(ledger, k, p)) /\ Sum(k, p) \in Nat)'
  BY SumsAreUnits, PTL
<1>2. \A k, p : UnitsOf(ledger, k, p)' = UnitsOf(ledger', k, p)
  BY DEF UnitsOf, Active
<1> QED BY <1>1, <1>2, NextKeepsInv

\* Only a submit's own hold, and on its key only that one, adds to the holds.
LEMMA HoldsOfKey ==
  ASSUME Inv, NEW c \in Call, Step(c), NEW k \in Key
  PROVE  /\ ~Hold(c) \/ On[c] # k => Sum(k, "RESERVE")' <= Sum(k, "RESERVE")
         /\ Hold(c) /\ On[c] = k => Sum(k, "RESERVE")' = Sum(k, "RESERVE") + Days[Req(c)]
         /\ Hold(c) => Sum(k, "COMMIT")' <= Sum(k, "COMMIT")
<1>0. [Next]_vars
  BY DEF Next
<1>1. \A p \in LedgerPhase :
        /\ Sum(k, p) = Cardinality(UnitsOf(ledger, k, p)) /\ Sum(k, p) \in Nat
        /\ Sum(k, p)' = Cardinality(UnitsOf(ledger', k, p)) /\ Sum(k, p)' \in Nat
        /\ IsFiniteSet(UnitsOf(ledger, k, p))
  BY <1>0, SumsAreUnits, NextSumsAreUnits DEF Inv, UnitsFinite
<1>2. ASSUME NEW p \in LedgerPhase, UnitsOf(ledger', k, p) \subseteq UnitsOf(ledger, k, p)
      PROVE  Sum(k, p)' <= Sum(k, p)
  BY <1>1, <1>2, FS_Subset
<1>3. CASE Hold(c)
  <2>1. PICK x \in LedgerEntry : /\ x.phase = "RESERVE" /\ x.state = "ACTIVE"
                                 /\ ledger' = [ledger EXCEPT ![Req(c)] = Append(@, x)]
    BY <1>3, Inserts
  <2>2. /\ On[c] = k => Cardinality(UnitsOf(ledger', k, "RESERVE")) =
                          Cardinality(UnitsOf(ledger, k, "RESERVE")) + Days[Req(c)]
        /\ On[c] # k => UnitsOf(ledger', k, "RESERVE") = UnitsOf(ledger, k, "RESERVE")
    BY <2>1, CallType, UnitsGrow DEF LedgerPhase
  <2>3. ~InsertCommit(c)
    BY <1>3 DEF Hold, InsertCommit
  <2>4. UnitsOf(ledger', k, "COMMIT") \subseteq UnitsOf(ledger, k, "COMMIT")
    BY <2>3, UnitsShrink DEF LedgerPhase
  <2> QED BY <1>1, <1>2, <1>3, <2>2, <2>4 DEF LedgerPhase
<1>4. CASE ~Hold(c)
  <2>1. UnitsOf(ledger', k, "RESERVE") \subseteq UnitsOf(ledger, k, "RESERVE")
    BY <1>4, UnitsShrink DEF LedgerPhase
  <2> QED BY <1>2, <1>4, <2>1 DEF LedgerPhase
<1> QED BY <1>3, <1>4

\* Nobody checks or reconciles when the calls begin.
LEMMA InitCheckInv == Init => CheckInv
<1> SUFFICES ASSUME Init, NEW c \in Call
             PROVE  /\ at[c] \notin {"commits", "mark", "store", "load", "wait", "check", "hold"}
                    /\ Is(c, "submit") => at[c] \notin {"lock", "find"}
  BY DEF CheckInv, CheckOK
<1>1. at[c] = Entry[job[c].op] /\ job[c].op \in Operation
  BY CallsAssumption DEF Init, Job
<1> QED BY <1>1 DEF Operation, Entry, Is

\* A snapshot changes by a first load, or by a reconcile that holds the lock.
LEMMA BalanceWrites ==
  ASSUME Inv, CheckInv, NEW c \in Call, Step(c), NEW k \in Key
  PROVE  \/ balance'[k] = balance[k]
         \/ /\ LoadBalance(c) /\ On[c] = k /\ ~HasBalance(k)
            /\ balance'[k].lastReconciledVersion = local[c].row.version
         \/ /\ StoreRow(c) /\ On[c] = k
            /\ balance'[k].lastReconciledVersion = local[c].row.version
<1>0. balance \in [Key -> [hcmBalance : Int, lastReconciledVersion : Nat]]
  BY DEF Inv, DatabaseTypeOK
<1>1. CASE LoadBalance(c)
  BY <1>0, <1>1 DEF LoadBalance, EnsureBalanceLoaded, dbVars
<1>2. CASE StoreRow(c)
  BY <1>0, <1>2 DEF StoreRow
<1>3. CASE UNCHANGED balance
  BY <1>3
<1> QED BY <1>1, <1>2, <1>3, Writers

\* A key that has a snapshot keeps one, and only reconciles replace it.
LEMMA BalanceStays ==
  ASSUME Inv, CheckInv, NEW c \in Call, Step(c), NEW k \in Key, HasBalance(k)
  PROVE  /\ HasBalance(k)'
         /\ balance'[k] = balance[k] \/ (StoreRow(c) /\ On[c] = k)
<1>1. CASE balance'[k] = balance[k]
  BY <1>1 DEF HasBalance
<1>2. CASE StoreRow(c) /\ On[c] = k /\ balance'[k].lastReconciledVersion = local[c].row.version
  <2>1. local[c].row.version > local[c].found.lastReconciledVersion
    BY <1>2 DEF CheckInv, CheckOK, StoreRow
  <2>2. local[c].row.version \in Nat /\ local[c].found.lastReconciledVersion \in Nat
    BY CallType DEF Local
  <2>3. balance'[k].lastReconciledVersion # NoBalance.lastReconciledVersion
    BY <1>2, <2>1, <2>2 DEF NoBalance
  <2> QED BY <1>2, <2>3 DEF HasBalance
<1> QED BY <1>1, <1>2, BalanceWrites

\* No statement of another call spoils what a call relies on.
LEMMA OthersKeepCheck ==
  ASSUME Inv, CheckInv, NEW c \in Call, NEW d \in Call, Step(d), c # d
  PROVE  CheckOK(c)'
<1>0. /\ at'[c] = at[c] /\ local'[c] = local[c] /\ UNCHANGED job
      /\ On[c] \in Key /\ CheckOK(c)
  BY Alone, CallType DEF CheckInv
<1>1. UnderLock(c) => ~(UnderLock(d) /\ On[d] = On[c])
  BY OneUnderLock
<1>2. StoreRow(d) => UnderLock(d)
  BY DEF StoreRow, UnderLock
<1>3. Hold(d) => UnderLock(d)
  BY DEF Hold, UnderLock, Inv, CallOK, InProgram
<1>4. at[c] \in {"commits", "mark", "store"} => local[c].found \in {NoBalance, balance'[On[c]]}
  <2> SUFFICES ASSUME at[c] \in {"commits", "mark", "store"}
               PROVE  local[c].found \in {NoBalance, balance'[On[c]]}
    OBVIOUS
  <2>1. UnderLock(c)
    BY DEF UnderLock
  <2>2. balance'[On[c]] = balance[On[c]] \/ ~HasBalance(On[c])
    BY <1>0, <1>1, <1>2, <2>1, BalanceStays
  <2> QED BY <1>0, <2>2 DEF CheckOK, HasBalance
<1>5. Is(c, "submit") /\ at[c] \in {"lock", "wait", "find", "check", "hold"} => HasBalance(On[c])'
  BY <1>0, BalanceStays DEF CheckOK
<1>6. ASSUME at[c] = "hold"
      PROVE  Days[Req(c)] <=
               balance'[On[c]].hcmBalance - Sum(On[c], "RESERVE")' - local[c].committed
  <2>1. Is(c, "submit") /\ UnderLock(c)
    BY <1>6 DEF Inv, CallOK, InProgram, UnderLock
  <2>2. balance'[On[c]] = balance[On[c]]
    BY <1>0, <1>1, <1>2, <1>6, <2>1, BalanceStays DEF CheckOK
  <2>3. Sum(On[c], "RESERVE")' <= Sum(On[c], "RESERVE")
    BY <1>0, <1>1, <1>3, <2>1, HoldsOfKey
  <2>4. /\ Sum(On[c], "RESERVE") \in Nat /\ Sum(On[c], "RESERVE")' \in Nat
        /\ local[c].committed \in Nat /\ balance[On[c]].hcmBalance \in Int
        /\ Days[Req(c)] \in Nat
    <3>1. [Next]_vars
      BY DEF Next
    <3>2. /\ Sum(On[c], "RESERVE") \in Nat /\ Sum(On[c], "RESERVE")' \in Nat
      BY <1>0, <3>1, SumsAreUnits, NextSumsAreUnits DEF LedgerPhase
    <3>3. balance[On[c]].hcmBalance \in Int
      BY <1>0 DEF Inv, DatabaseTypeOK
    <3>4. local[c].committed \in Nat /\ Days[Req(c)] \in Nat
      BY CallType, RequestAssumption DEF Local
    <3> QED BY <3>2, <3>3, <3>4
  <2>5. Days[Req(c)] <= balance[On[c]].hcmBalance - Sum(On[c], "RESERVE") - local[c].committed
    BY <1>0, <1>6 DEF CheckOK
  <2> QED BY <2>2, <2>3, <2>4, <2>5
<1> QED BY <1>0, <1>4, <1>5, <1>6 DEF CheckOK, Is, Req

\* The statements that lead to one that relies on the snapshot.
LEMMA WayToSnapshot ==
  ASSUME Inv, NEW c \in Call, Step(c),
         at'[c] \in {"commits", "mark", "store", "load", "lock", "wait", "find", "check", "hold"}
  PROVE  \/ LookForBalance(c) /\ at'[c] = "lock" /\ HasBalance(On[c])
         \/ PullBalance(c) /\ at'[c] = "load"
         \/ LoadBalance(c) /\ at'[c] = "lock"
         \/ EnterMutex(c) /\ at'[c] = "wait"
         \/ StartTransaction(c) /\ at'[c] = "find"
         \/ FindRequest(c) /\ at'[c] = "check" /\ Is(c, "submit")
         \/ CheckBalance(c) /\ at'[c] = "hold"
         \/ ReadRow(c) /\ at'[c] = "commits"
         \/ ReadEntries(c) /\ at'[c] \in {"mark", "store"}
         \/ MarkMatched(c) /\ at'[c] = "store"
<1> USE DEF Goto
<1>0. at \in [Call -> Label] /\ InProgram(c)
  BY DEF Inv, CallsTypeOK, CallOK
<1>1. CASE CreateStatement(c)
  BY <1>0, <1>1 DEF CreateStatement, FindByKey, Insert, InsertRow, Answer
<1>2. CASE BeforeLock(c)
  BY <1>0, <1>2 DEF BeforeLock, GetOrThrow, LookForBalance, PullBalance, LoadBalance
<1>3. CASE RunExclusive(c)
  BY <1>0, <1>3 DEF RunExclusive, EnterMutex, StartTransaction, Unlock
<1>4. CASE Endpoint(c)
  <2>1. CASE FindRequest(c)
    BY <1>0, <2>1 DEF FindRequest, AfterFind, Finish, InProgram, Is
  <2>2. CASE CheckBalance(c)
    BY <1>0, <2>2 DEF CheckBalance, Finish
  <2>3. CASE Hold(c) \/ ReleaseHold(c) \/ CancelPending(c) \/ SaveRequest(c) \/ EnqueueMessage(c)
    BY <1>0, <2>3 DEF Hold, ReleaseHold, CancelPending, SaveRequest, EnqueueMessage, Finish
  <2> QED BY <1>4, <2>1, <2>2, <2>3 DEF Endpoint
<1>5. CASE ReconcileStatement(c)
  BY <1>0, <1>5 DEF ReconcileStatement, ReadRow, ReadEntries, MarkMatched, StoreRow, Finish
<1>6. CASE DrainStatement(c)
  BY <1>0, <1>6 DEF DrainStatement, SelectDue, ClaimMessage, CallHcm, FindOutcomesRequest,
                    ReleaseForOutcome, InsertCommit, AdvanceRequest, SettleMessage, Finish
<1> QED BY <1>1, <1>2, <1>3, <1>4, <1>5, <1>6 DEF Step

\* A call takes up what it relies on from the tables as they are.
LEMMA OwnStepKeepsCheck ==
  ASSUME Inv, CheckInv, NEW c \in Call, Step(c)
  PROVE  CheckOK(c)'
<1>0. /\ local \in [Call -> Local] /\ UNCHANGED job /\ CheckOK(c)
      /\ On[c] \in Key /\ local[c] \in Local
  BY Alone, CallType DEF Inv, CallsTypeOK, CheckInv
<1>1. CASE at'[c] \notin {"commits", "mark", "store", "load", "lock", "wait", "find", "check", "hold"}
  BY <1>1 DEF CheckOK
<1>2. CASE LookForBalance(c) /\ at'[c] = "lock" /\ HasBalance(On[c])
  BY <1>2, BalanceStays, <1>0 DEF CheckOK
<1>3. CASE PullBalance(c) /\ at'[c] = "load"
  <2>0. /\ hcm' = [hcm EXCEPT ![On[c]] = Referenced(On[c])]
        /\ Remember(c, "row", [ balance |-> hcm'[On[c]][Len(hcm'[On[c]])],
                                version |-> Len(hcm'[On[c]]) ])
    BY <1>3 DEF PullBalance, Goto, Inv, CallsTypeOK
  <2>1. hcm'[On[c]] \in Seq(Int) /\ Len(hcm'[On[c]]) > 0
    BY <1>0, <2>0 DEF Inv, HcmTypeOK, Referenced
  <2>2. local'[c].row = [ balance |-> hcm'[On[c]][Len(hcm'[On[c]])], version |-> Len(hcm'[On[c]]) ]
    BY <1>0, <2>0, Remembered
  <2>3. local'[c].row.version > 0
    BY <2>1, <2>2
  <2> QED BY <1>3, <2>3 DEF CheckOK
<1>4. CASE LoadBalance(c) /\ at'[c] = "lock"
  <2>1. HasBalance(On[c]) => HasBalance(On[c])'
    BY <1>0, BalanceStays
  <2>2. ~HasBalance(On[c]) => HasBalance(On[c])'
    <3> SUFFICES ASSUME ~HasBalance(On[c]) PROVE HasBalance(On[c])'
      OBVIOUS
    <3>1. /\ local[c].row.version > 0 /\ local[c].row.version \in Nat
          /\ balance \in [Key -> [hcmBalance : Int, lastReconciledVersion : Nat]]
      BY <1>0, <1>4 DEF CheckOK, LoadBalance, Local, Inv, DatabaseTypeOK
    <3>2. balance'[On[c]] = [ hcmBalance            |-> local[c].row.balance,
                              lastReconciledVersion |-> local[c].row.version ]
      BY <1>0, <1>4, <3>1 DEF LoadBalance, EnsureBalanceLoaded
    <3>3. balance'[On[c]].lastReconciledVersion # NoBalance.lastReconciledVersion
      BY <3>1, <3>2 DEF NoBalance
    <3> QED BY <3>3 DEF HasBalance
  <2> QED BY <1>4, <2>1, <2>2 DEF CheckOK
<1>5. CASE \/ EnterMutex(c) /\ at'[c] = "wait"
           \/ StartTransaction(c) /\ at'[c] = "find"
           \/ FindRequest(c) /\ at'[c] = "check" /\ Is(c, "submit")
  <2>1. Is(c, "submit") => HasBalance(On[c])
    BY <1>0, <1>5 DEF CheckOK, EnterMutex, StartTransaction, FindRequest
  <2> QED BY <1>0, <1>5, <2>1, BalanceStays DEF CheckOK, Is
<1>6. CASE CheckBalance(c) /\ at'[c] = "hold"
  <2>1. Is(c, "submit") /\ HasBalance(On[c])
    BY <1>0, <1>6 DEF CheckOK, CheckBalance, Inv, CallOK, InProgram
  <2>2. /\ CanReserve(ComputeComponents(On[c]), Days[Req(c)])
        /\ Remember(c, "committed", ComputeComponents(On[c]).committedPending)
    BY <1>6 DEF CheckBalance, Finish, Goto, Inv, CallsTypeOK
  <2>3. local'[c].committed = Sum(On[c], "COMMIT")
    BY <1>0, <2>2, Remembered DEF ComputeComponents, Sum
  <2>4. Days[Req(c)] <= balance[On[c]].hcmBalance - Sum(On[c], "RESERVE") - Sum(On[c], "COMMIT")
    BY <2>2 DEF CanReserve, ComputeAvailable, ComputeComponents, Sum
  <2>5. UNCHANGED << balance, ledger >>
    BY <1>6 DEF CheckBalance, ReadsOnly, dbVars
  <2>6. Sum(On[c], "RESERVE")' = Sum(On[c], "RESERVE")
    BY <2>5 DEF Sum, ActiveEntries, Active
  <2>7. HasBalance(On[c])' /\ Req(c)' = Req(c)
    BY <1>0, <2>1, <2>5 DEF HasBalance, Req
  <2> QED BY <1>6, <2>3, <2>4, <2>5, <2>6, <2>7 DEF CheckOK
<1>7. CASE ReadRow(c) /\ at'[c] = "commits"
  <2>1. local'[c].found = balance[On[c]] /\ UNCHANGED balance
    BY <1>0, <1>7, Remembered DEF ReadRow, ReadsOnly, dbVars
  <2> QED BY <1>7, <2>1 DEF CheckOK
<1>8. CASE ReadEntries(c) /\ at'[c] \in {"mark", "store"}
  <2>1. at[c] = "commits" /\ UNCHANGED balance
    BY <1>8 DEF ReadEntries, ReadsOnly, dbVars
  <2>2. ~Finish(c)
    BY <1>8 DEF Finish, Goto, Inv, CallsTypeOK
  <2>3. /\ local[c].row.version > local[c].found.lastReconciledVersion
        /\ \E m \in SUBSET (Request \X Nat), g \in SUBSET ReconcileEvent :
             local' = [local EXCEPT ![c] = [@ EXCEPT !.matched = m, !.logged = g]]
    BY <1>8, <2>2, EntriesRead
  <2>4. local'[c].row = local[c].row /\ local'[c].found = local[c].found
    BY <1>0, <2>3 DEF Local
  <2> QED BY <1>0, <1>8, <2>1, <2>3, <2>4 DEF CheckOK
<1>9. CASE MarkMatched(c) /\ at'[c] = "store"
  BY <1>0, <1>9 DEF MarkMatched, CheckOK
<1> QED BY <1>1, <1>2, <1>3, <1>4, <1>5, <1>6, <1>7, <1>8, <1>9, WayToSnapshot

\* Every step keeps it.
LEMMA NextCheckInv == Inv /\ CheckInv /\ [Next]_vars => CheckInv'
<1> SUFFICES ASSUME Inv, CheckInv, [Next]_vars PROVE CheckInv'
  OBVIOUS
<1>1. CASE UNCHANGED << balance, ledger, job, at, local >>
  <2>1. \A k : Sum(k, "RESERVE")' = Sum(k, "RESERVE")
    BY <1>1 DEF Sum, ActiveEntries, Active
  <2> SUFFICES ASSUME NEW c \in Call PROVE CheckOK(c)'
    BY DEF CheckInv
  <2> QED BY <1>1, <2>1 DEF CheckInv, CheckOK, HasBalance, Is, Req
<1>2. ASSUME NEW d \in Call, Step(d) PROVE CheckInv'
  BY <1>2, OthersKeepCheck, OwnStepKeepsCheck DEF CheckInv
<1> QED BY <1>1, <1>2 DEF Next, HcmAdjusts, vars, dbVars, callVars

\* Between the check and the write it allows, what was checked keeps holding.
THEOREM ChecksKeepHolding == Spec => []CheckInv
BY InitCheckInv, NextCheckInv, CallsInvariant, PTL DEF Spec

\* Reconciles of one key apply in the order of HCM's versions, but for one that
\* found no row while a first load inserted a newer one.
THEOREM ReconcilesNeverGoBack == Spec => OnlyAFirstLoadIsOverwritten
<1>1. Inv /\ CheckInv /\ [Next]_vars => SnapshotStep
  <2> SUFFICES ASSUME Inv, CheckInv, [Next]_vars, NEW k \in Key,
                      balance'[k].lastReconciledVersion < balance[k].lastReconciledVersion
               PROVE  \E c \in Call : /\ On[c] = k /\ at[c] = "store" /\ at'[c] # "store"
                                      /\ local[c].found = NoBalance
    BY DEF SnapshotStep
  <2>0. balance[k].lastReconciledVersion \in Nat
    BY DEF Inv, DatabaseTypeOK
  <2>1. balance'[k] # balance[k]
    BY <2>0
  <2>2. PICK c \in Call : Step(c)
    BY <2>1 DEF Next, HcmAdjusts, vars, dbVars
  <2>3. local[c].row.version \in Nat /\ local[c].found.lastReconciledVersion \in Nat
    BY CallType DEF Local
  <2>4. ~(~HasBalance(k) /\ balance'[k].lastReconciledVersion = local[c].row.version)
    BY <2>3 DEF HasBalance, NoBalance
  <2>5. /\ StoreRow(c) /\ On[c] = k
        /\ balance'[k].lastReconciledVersion = local[c].row.version
    BY <2>1, <2>2, <2>4, BalanceWrites
  <2>6. /\ at[c] = "store" /\ at'[c] # "store"
        /\ local[c].found \in {NoBalance, balance[k]}
        /\ local[c].row.version > local[c].found.lastReconciledVersion
    BY <2>5 DEF StoreRow, Finish, Goto, CheckInv, CheckOK, Inv, CallsTypeOK
  <2>7. local[c].found # balance[k]
    BY <2>0, <2>3, <2>5, <2>6
  <2> QED BY <2>5, <2>6, <2>7
<1> QED BY <1>1, CallsInvariant, ChecksKeepHolding, PTL DEF Spec, OnlyAFirstLoadIsOverwritten

\* A hold still fits at the moment it is written, or a commit entry of its key
\* came in after its check.  What is inserted after the hold is not looked at.
THEOREM HoldsStillFit == Spec => OnlyACommitOvertakesTheCheck
<1>1. Inv /\ CheckInv /\ [Next]_vars => HoldStep
  <2> SUFFICES ASSUME Inv, CheckInv, [Next]_vars, NEW c \in Call,
                      at[c] = "hold", at'[c] = "save"
               PROVE  \/ Available(On[c])' >= 0
                      \/ Sum(On[c], "COMMIT") > local[c].committed
    BY DEF HoldStep, Sum
  <2>1. PICK d \in Call : Step(d)
    BY DEF Next, HcmAdjusts, vars, callVars
  <2>2. d = c
    BY <2>1, Alone
  <2>3. Hold(c)
    BY <2>1, <2>2
    DEF Step, CreateStatement, FindByKey, Insert,
        BeforeLock, GetOrThrow, LookForBalance, PullBalance, LoadBalance,
        RunExclusive, EnterMutex, StartTransaction, Unlock,
        Endpoint, FindRequest, CheckBalance, ReleaseHold, CancelPending, SaveRequest, EnqueueMessage,
        ReconcileStatement, ReadRow, ReadEntries, MarkMatched, StoreRow,
        DrainStatement, SelectDue, ClaimMessage, CallHcm, FindOutcomesRequest,
        ReleaseForOutcome, InsertCommit, AdvanceRequest, SettleMessage
  <2>4. /\ Sum(On[c], "RESERVE")' = Sum(On[c], "RESERVE") + Days[Req(c)]
        /\ Sum(On[c], "COMMIT")' <= Sum(On[c], "COMMIT")
    BY <2>1, <2>2, <2>3, CallType, HoldsOfKey
  <2>5. /\ Sum(On[c], "RESERVE") \in Nat /\ Sum(On[c], "COMMIT") \in Nat
        /\ Sum(On[c], "COMMIT")' \in Nat
    BY CallType, SumsAreUnits, NextSumsAreUnits DEF LedgerPhase
  <2>6. /\ local[c].committed \in Nat /\ Days[Req(c)] \in Nat
        /\ balance[On[c]].hcmBalance \in Int
    BY CallType, RequestAssumption DEF Local, Inv, DatabaseTypeOK
  <2>7. Available(On[c])' =
          balance[On[c]].hcmBalance - Sum(On[c], "RESERVE")' - Sum(On[c], "COMMIT")'
    <3>1. UNCHANGED balance
      BY <2>3 DEF Hold
    <3> QED BY <3>1 DEF Available, ComputeAvailable, ComputeComponents, Sum
  <2>8. Days[Req(c)] <= balance[On[c]].hcmBalance - Sum(On[c], "RESERVE") - local[c].committed
    BY DEF CheckInv, CheckOK
  <2> QED BY <2>4, <2>5, <2>6, <2>7, <2>8
<1> QED BY <1>1, CallsInvariant, ChecksKeepHolding, PTL DEF Spec, OnlyACommitOvertakesTheCheck

------------------------------------------------------------------------------
(* Updates by id *)

\* What the message a drain selected may have become by its claim.
Claimable(m) ==
  \/ m.status \in {"PENDING", "FAILED"}
  \/ m.status = "DEAD" /\ m.lastError = "cancelled"

\* A drain's message is its own from the claim on, until it is settled.
DrainOK(c) ==
  /\ at[c] = "due" \/ Delivering(c) => Is(c, "drain")
  /\ at[c] = "claim" => Claimable(Message(c))
  /\ Delivering(c) /\ at[c] # "claim" => Message(c).status = "INFLIGHT"

OneDrain == \A c, d \in Call : Delivering(c) /\ Delivering(d) => c = d

DrainInv == OneDrain /\ \A c \in Call : DrainOK(c)

\* A stored message changes by a cancel, which parks it, or by the drain that
\* delivers it.
LEMMA MessageWrites ==
  ASSUME Inv, NEW c \in Call, Step(c), NEW i \in DOMAIN outbox
  PROVE  \/ outbox'[i] = outbox[i]
         \/ /\ outbox[i].status \in {"PENDING", "FAILED"}
            /\ outbox'[i].status = "DEAD" /\ outbox'[i].lastError = "cancelled"
         \/ ClaimMessage(c) /\ i = local[c].message /\ outbox'[i].status = "INFLIGHT"
         \/ SettleMessage(c) /\ i = local[c].message
<1>0. outbox \in Seq(OutboxMessage) /\ outbox[i] \in OutboxMessage /\ i \in 1 .. Len(outbox)
  BY DEF Inv, DatabaseTypeOK
<1>1. CASE CancelPending(c)
  <2>1. outbox'[i] = IF outbox[i].request = Req(c) /\ outbox[i].status \in {"PENDING", "FAILED"}
                     THEN [outbox[i] EXCEPT !.status = "DEAD", !.lastError = "cancelled"]
                     ELSE outbox[i]
    BY <1>1 DEF CancelPending, CancelPendingForRequest
  <2> QED BY <1>0, <2>1 DEF OutboxMessage
<1>2. CASE EnqueueMessage(c)
  BY <1>0, <1>2 DEF EnqueueMessage, Enqueue
<1>3. CASE ClaimMessage(c)
  <2>1. outbox'[i] = IF i \in {local[c].message} THEN [outbox[i] EXCEPT !.status = "INFLIGHT"]
                                                 ELSE outbox[i]
    BY <1>3 DEF ClaimMessage, MarkInflight
  <2> QED BY <1>0, <1>3, <2>1 DEF OutboxMessage
<1>4. CASE SettleMessage(c)
  <2>1. local[c].outcome \in {"ack", "rejected", "unavailable"}
    BY CallType DEF Local
  <2>2. i # local[c].message => outbox'[i] = outbox[i]
    BY <1>0, <1>4, <2>1 DEF SettleMessage, MarkDone, MarkRejected, MarkRetryOrDead
  <2> QED BY <1>4, <2>2
<1>5. CASE UNCHANGED outbox
  BY <1>5
<1> QED BY <1>1, <1>2, <1>3, <1>4, <1>5, Writers

\* How a call comes to deliver, and that it keeps its message then.
LEMMA WayToDeliver ==
  ASSUME Inv, NEW c \in Call, Step(c)
  PROVE  /\ at'[c] # "due"
         /\ Delivering(c)' =>
              \/ SelectDue(c) /\ at'[c] = "claim"
              \/ ClaimMessage(c) /\ at'[c] # "claim"
              \/ /\ Delivering(c) /\ at[c] # "claim" /\ at'[c] # "claim"
                 /\ UNCHANGED outbox /\ local'[c].message = local[c].message
<1> USE DEF Goto, Delivering
<1>0. at \in [Call -> Label] /\ local \in [Call -> Local] /\ InProgram(c)
  BY DEF Inv, CallsTypeOK, CallOK
<1>1. CASE CreateStatement(c)
  BY <1>0, <1>1 DEF CreateStatement, FindByKey, Insert, InsertRow, Answer
<1>2. CASE BeforeLock(c)
  BY <1>0, <1>2 DEF BeforeLock, GetOrThrow, LookForBalance, PullBalance, LoadBalance
<1>3. CASE RunExclusive(c)
  BY <1>0, <1>3 DEF RunExclusive, EnterMutex, StartTransaction, Unlock
<1>4. CASE Endpoint(c)
  <2>1. CASE FindRequest(c)
    BY <1>0, <2>1 DEF FindRequest, AfterFind, Finish, InProgram, Is
  <2>2. CASE ~FindRequest(c)
    BY <1>0, <1>4, <2>2 DEF Endpoint, CheckBalance, Hold, ReleaseHold, CancelPending,
                            SaveRequest, EnqueueMessage, Finish
  <2> QED BY <2>1, <2>2
<1>5. CASE ReconcileStatement(c)
  BY <1>0, <1>5 DEF ReconcileStatement, ReadRow, ReadEntries, MarkMatched, StoreRow, Finish
<1>6. CASE SelectDue(c) \/ ClaimMessage(c) \/ SettleMessage(c)
  BY <1>0, <1>6 DEF SelectDue, ClaimMessage, SettleMessage, Finish
<1>7. CASE CallHcm(c) \/ FindOutcomesRequest(c)
  <2>1. local'[c].message = local[c].message
    BY <1>0, <1>7, Remembered DEF CallHcm, FindOutcomesRequest
  <2> QED BY <1>0, <1>7, <2>1 DEF CallHcm, FindOutcomesRequest, ReadsOnly, dbVars
<1>8. CASE ReleaseForOutcome(c) \/ InsertCommit(c) \/ AdvanceRequest(c)
  BY <1>0, <1>8 DEF ReleaseForOutcome, InsertCommit, AdvanceRequest
<1> QED BY <1>1, <1>2, <1>3, <1>4, <1>5, <1>6, <1>7, <1>8 DEF Step, DrainStatement

\* No call delivers when the calls begin.
LEMMA InitDrainInv == Init => DrainInv
<1> SUFFICES ASSUME Init, NEW c \in Call PROVE ~Delivering(c) /\ DrainOK(c)
  BY DEF DrainInv, OneDrain
<1>1. job[c].op \in Operation /\ at[c] = Entry[job[c].op]
  BY CallsAssumption DEF Init, Job
<1> QED BY <1>1 DEF Operation, Entry, Delivering, DrainOK, Is

\* The drain keeps its message to itself.
LEMMA NextDrainInv == Inv /\ DrainInv /\ [Next]_vars => DrainInv'
<1> SUFFICES ASSUME Inv, DrainInv, [Next]_vars PROVE DrainInv'
  OBVIOUS
<1>1. CASE UNCHANGED << at, local, job, outbox >>
  BY <1>1 DEF DrainInv, OneDrain, DrainOK, Delivering, Is, Message
<1>2. ASSUME NEW c \in Call, Step(c) PROVE DrainInv'
  <2>0. /\ UNCHANGED job
        /\ \A d \in Call : d # c => at'[d] = at[d] /\ local'[d] = local[d]
    BY <1>2, Alone
  <2>1. OneDrain'
    <3>1. ASSUME NEW d \in Call, d # c, Delivering(d) PROVE ~Delivering(c)'
      <4>1. Is(d, "drain") /\ ~Delivering(c)
        BY <3>1 DEF DrainInv, DrainOK, OneDrain
      <4>2. d \in Draining
        BY <3>1, <4>1 DEF Draining, Delivering
      <4>3. ~(SelectDue(c) /\ at'[c] = "claim")
        BY <4>2 DEF SelectDue, Goto, Inv, CallsTypeOK
      <4>4. ~ClaimMessage(c)
        BY <4>1 DEF ClaimMessage, Delivering
      <4> QED BY <1>2, <4>1, <4>3, <4>4, WayToDeliver
    <3> QED BY <2>0, <3>1 DEF DrainInv, OneDrain, Delivering
  <2>2. ASSUME NEW d \in Call, d # c PROVE DrainOK(d)'
    <3>1. DrainOK(d) /\ at'[d] = at[d] /\ local'[d] = local[d]
      BY <2>0, <2>2 DEF DrainInv
    <3>2. CASE Delivering(d)
      <4>1. local[d].message \in DOMAIN outbox
        BY <3>2, MessageType
      <4>2. ~Delivering(c)
        BY <2>2, <3>2 DEF DrainInv, OneDrain
      <4>3. ~ClaimMessage(c) /\ ~SettleMessage(c)
        BY <4>2 DEF ClaimMessage, SettleMessage, Delivering
      <4>4. \/ Message(d)' = Message(d)
            \/ /\ Message(d).status \in {"PENDING", "FAILED"}
               /\ Message(d)'.status = "DEAD" /\ Message(d)'.lastError = "cancelled"
        BY <1>2, <3>1, <4>1, <4>3, MessageWrites DEF Message
      <4> QED BY <2>0, <3>1, <4>4 DEF DrainOK, Delivering, Is, Claimable
    <3>3. CASE ~Delivering(d)
      BY <2>0, <3>1, <3>3 DEF DrainOK, Delivering, Is
    <3> QED BY <3>2, <3>3
  <2>3. DrainOK(c)'
    <3>0. DrainOK(c) /\ at'[c] # "due"
      BY <1>2, WayToDeliver DEF DrainInv
    <3>1. CASE ~Delivering(c)'
      BY <3>0, <3>1 DEF DrainOK, Delivering
    <3>2. CASE SelectDue(c) /\ at'[c] = "claim"
      <4>1. PICK i \in Due(outbox, DOMAIN outbox) : Remember(c, "message", i)
        BY <3>2 DEF SelectDue, Goto, Inv, CallsTypeOK
      <4>2. local'[c].message = i /\ outbox[i].status \in {"PENDING", "FAILED"}
        BY <4>1, Remembered DEF Due, Inv, CallsTypeOK
      <4>3. UNCHANGED outbox /\ Is(c, "drain")
        BY <3>0, <3>2 DEF SelectDue, ReadsOnly, dbVars, DrainOK
      <4> QED BY <2>0, <3>2, <4>2, <4>3 DEF DrainOK, Claimable, Message, Is
    <3>3. CASE ClaimMessage(c) /\ at'[c] # "claim"
      <4>1. local[c].message \in DOMAIN outbox /\ local' = local /\ Is(c, "drain")
        BY <3>0, <3>3, MessageType DEF ClaimMessage, Delivering, DrainOK
      <4>2. outbox \in Seq(OutboxMessage) /\ outbox[local[c].message] \in OutboxMessage
        BY <4>1 DEF Inv, DatabaseTypeOK
      <4>3. outbox'[local[c].message].status = "INFLIGHT"
        BY <3>3, <4>1, <4>2 DEF ClaimMessage, MarkInflight, OutboxMessage
      <4> QED BY <2>0, <3>0, <3>3, <4>1, <4>3 DEF DrainOK, Message, Is
    <3>4. CASE /\ Delivering(c) /\ at[c] # "claim" /\ at'[c] # "claim"
               /\ UNCHANGED outbox /\ local'[c].message = local[c].message
      BY <2>0, <3>0, <3>4 DEF DrainOK, Message, Is
    <3> QED BY <1>2, <3>1, <3>2, <3>3, <3>4, WayToDeliver
  <2> QED BY <2>1, <2>2, <2>3 DEF DrainInv
<1> QED BY <1>1, <1>2 DEF Next, HcmAdjusts, vars, dbVars, callVars

\* An entry that changes was active, or is among those a reconcile selected.
LEMMA EntryWrites ==
  ASSUME Inv, NEW c \in Call, Step(c), NEW r \in Request, NEW i \in DOMAIN ledger[r],
         ledger'[r][i] # ledger[r][i]
  PROVE  /\ ledger'[r][i].state # "ACTIVE"
         /\ \/ ledger[r][i].state = "ACTIVE"
            \/ at[c] = "mark" /\ at'[c] = "store" /\ << r, i >> \in local[c].matched
<1>0. /\ ledger \in [Request -> Seq(LedgerEntry)] /\ ledger[r][i] \in LedgerEntry
      /\ i \in 1 .. Len(ledger[r])
  BY DEF Inv, DatabaseTypeOK
<1>1. ASSUME NEW p, ledger'[r] = Release(ledger[r], p)
      PROVE  ledger'[r][i].state # "ACTIVE" /\ ledger[r][i].state = "ACTIVE"
  <2>1. ledger'[r][i] = [ledger[r][i] EXCEPT !.state = "RELEASED"] /\ i \in Active(ledger[r], p)
    BY <1>1 DEF Release
  <2> QED BY <1>0, <2>1 DEF Active, LedgerEntry
<1>2. CASE ReleaseHold(c)
  BY <1>0, <1>1, <1>2 DEF ReleaseHold, ReleaseReservation
<1>3. CASE ReleaseForOutcome(c)
  <2>1. \/ ledger' = ReleaseReservation(ledger, Message(c).request)
        \/ ledger' = ReleaseCommit(ledger, Message(c).request)
    BY <1>3 DEF ReleaseForOutcome
  <2> QED BY <1>0, <1>1, <2>1 DEF ReleaseReservation, ReleaseCommit
<1>4. CASE MarkMatched(c)
  <2>1. ledger'[r][i] = IF << r, i >> \in local[c].matched
                        THEN [ledger[r][i] EXCEPT !.state = "RECONCILED"] ELSE ledger[r][i]
    BY <1>4 DEF MarkMatched, MarkReconciled
  <2>2. at[c] = "mark" /\ at'[c] = "store"
    BY <1>4 DEF MarkMatched, Goto, Inv, CallsTypeOK
  <2> QED BY <1>0, <2>1, <2>2 DEF LedgerEntry
<1>5. CASE Hold(c) \/ InsertCommit(c)
  <2>1. PICK q, x : ledger' = [ledger EXCEPT ![q] = Append(@, x)]
    BY <1>5 DEF Hold, AddReservation, InsertCommit
  <2>2. ledger'[r] = ledger[r] \/ ledger'[r] = Append(ledger[r], x)
    BY <1>0, <2>1
  <2> QED BY <1>0, <2>2
<1>6. CASE UNCHANGED ledger
  BY <1>6
<1> QED BY <1>2, <1>3, <1>4, <1>5, <1>6, Writers

\* A drain's message is due or parked by a cancel at its claim, and in flight
\* until it is settled, however many drains are started.
THEOREM DrainsOwnTheirMessage == Spec => []DrainInv
<1>1. Init => DrainInv
  BY InitDrainInv
<1>2. Inv /\ DrainInv /\ [Next]_vars => DrainInv'
  BY NextDrainInv
<1> QED BY <1>1, <1>2, CallsInvariant, PTL DEF Spec

\* Entries that were released or reconciled and messages that were settled
\* stay so, but for the two updates by id and what was selected for them.
THEOREM SettledRowsStay == Spec => OnlyUpdatesByIdRewrite
<1>1. Inv /\ DrainInv /\ [Next]_vars => ByIdStep
  <2> SUFFICES ASSUME Inv, DrainInv, [Next]_vars PROVE ByIdStep
    OBVIOUS
  <2>1. CASE UNCHANGED << ledger, outbox >>
    BY <2>1 DEF ByIdStep
  <2>2. ASSUME NEW c \in Call, Step(c) PROVE ByIdStep
    <3>1. ASSUME NEW i \in DOMAIN outbox, outbox'[i] # outbox[i]
          PROVE  \/ outbox[i].status \notin {"DONE", "DEAD"}
                 \/ /\ outbox[i].lastError = "cancelled"
                    /\ at[c] = "claim" /\ at'[c] = "call" /\ local[c].message = i
      <4>1. CASE ClaimMessage(c) /\ i = local[c].message
        <5>1. at[c] = "claim" /\ at'[c] = "call" /\ Claimable(outbox[i])
          BY <4>1 DEF ClaimMessage, Goto, Inv, CallsTypeOK, DrainInv, DrainOK, Message
        <5> QED BY <4>1, <5>1 DEF Claimable
      <4>2. CASE SettleMessage(c) /\ i = local[c].message
        BY <4>2 DEF SettleMessage, DrainInv, DrainOK, Delivering, Message
      <4> QED BY <2>2, <3>1, <4>1, <4>2, MessageWrites
    <3> QED BY <2>2, <3>1, EntryWrites DEF ByIdStep
  <2> QED BY <2>1, <2>2 DEF Next, HcmAdjusts, vars, dbVars
<1> QED BY <1>1, CallsInvariant, DrainsOwnTheirMessage, PTL DEF Spec, OnlyUpdatesByIdRewrite

==============================================================================

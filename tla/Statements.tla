----------------------------- MODULE Statements -----------------------------
(***************************************************************************)
(* The same service at the grain of single statements: concurrent calls of *)
(* its endpoints, of reconcileKey and of the drain, where every await of a *)
(* transaction lets the others run.  Nothing is assumed of the database    *)
(* but that one statement is atomic: keyed-mutex.ts claims no double spend *)
(* whatever the driver makes of overlapping transactions, and the version  *)
(* column of a request claims no lost update.  A path that throws throws   *)
(* before its first write, so its rollback is taken to undo nothing.       *)
(*                                                                         *)
(* `job` fixes what each call is asked to do and never changes.  `at` is   *)
(* the statement a call runs next, `local` what its local variables hold   *)
(* while they are in use.                                                  *)
(***************************************************************************)
EXTENDS TimeOffService, SyncService, HcmCore, KeyedMutex

CONSTANTS
  Mixes,             \* what the calls may be asked to do, all together
  IdempotencyKeyOf,  \* the Idempotency-Key a request is created with
  Stored             \* requests the database may hold from the start

Operation ==
  { "create", "submit", "approve", "reject", "cancel", "reconcile", "drain" }

Job == [ op : Operation, request : Request ]

\* The answer of a create that failed.
Failed == "failed"

ASSUME CallsAssumption ==
  /\ {NoRequest, Failed} \intersect Request = {}
  /\ LockKey = Key
  /\ Stored \subseteq Request
  /\ \A q, r \in Stored : IdempotencyKeyOf[q] = IdempotencyKeyOf[r] => q = r
  /\ \A mix \in Mixes :
       mix \in [Call -> Job] /\ \A c \in Call : KeyOf[mix[c].request] = On[c]

VARIABLES job, at, local, answer

callVars == << job, at, local, answer >>

vars == << dbVars, hcmVars, mutexVars, callVars >>

\* The locals of a call that holds nothing it would use again.
Empty ==
  [ status |-> NoRequest, row |-> [ balance |-> 0, version |-> 0 ], found |-> NoBalance,
    committed |-> 0, matched |-> {}, logged |-> {},
    message |-> 0, outcome |-> "unavailable" ]

Entry == [ create |-> "findKey", submit |-> "getOrThrow", approve |-> "find",
           reject |-> "find", cancel |-> "find", reconcile |-> "lock",
           drain |-> "due" ]

\* The action an endpoint asks of the state machine.
ActionOf == [ submit |-> "SUBMIT", approve |-> "APPROVE",
              reject |-> "REJECT", cancel |-> "CANCEL" ]

Req(c) == job[c].request

Is(c, op) == job[c].op = op

Label ==
  { "findKey", "insert", "getOrThrow", "look", "pull", "load", "lock", "wait",
    "find", "check", "hold", "release", "cancelPending", "save", "enqueue",
    "row", "commits", "mark", "store", "unlock", "due", "claim", "call",
    "request", "releaseHold", "commit", "advance", "settle", "done" }

Local ==
  [ status : RequestStatus \union {NoRequest},
    row : [ balance : Int, version : Nat ],
    found : [ hcmBalance : Int, lastReconciledVersion : Nat ],
    committed : Nat, matched : SUBSET (Request \X Nat), logged : SUBSET ReconcileEvent,
    message : Nat, outcome : { "ack", "rejected", "unavailable" } ]

TypeOK ==
  /\ DatabaseTypeOK
  /\ HcmTypeOK
  /\ MutexTypeOK
  /\ at \in [Call -> Label]
  /\ local \in [Call -> Local]
  /\ answer \in [Call -> Request \union {NoRequest, Failed}]
  /\ \A c \in Call : local[c].message \in {0} \union DOMAIN outbox

------------------------------------------------------------------------------
(* How a call moves on *)

Goto(c, next) == at' = [at EXCEPT ![c] = next]

\* The transaction is over: a lock holder has its lock to give back.
Finish(c) ==
  /\ Goto(c, IF stage[c] = "inside" THEN "unlock" ELSE "done")
  /\ local' = [local EXCEPT ![c] = Empty]

Remember(c, field, value) ==
  local' = [local EXCEPT ![c] = [@ EXCEPT ![field] = value]]

\* A statement that reads and one that writes leave this alone.
ReadsOnly == UNCHANGED << dbVars, hcmVars, mutexVars, job, answer >>

Elsewhere == UNCHANGED << hcmVars, mutexVars, job, answer >>

------------------------------------------------------------------------------
(* Create: the search by Idempotency-Key, then the insert *)

WithKeyOf(r) ==
  { q \in Request : status[q] # NoRequest /\ IdempotencyKeyOf[q] = IdempotencyKeyOf[r] }

Answer(c, with) ==
  /\ answer' = [answer EXCEPT ![c] = with]
  /\ Goto(c, "done")

FindByKey(c) ==
  /\ at[c] = "findKey"
  /\ \/ \E q \in WithKeyOf(Req(c)) : Answer(c, q)
     \/ WithKeyOf(Req(c)) = {} /\ Goto(c, "insert") /\ UNCHANGED answer
  /\ UNCHANGED << dbVars, hcmVars, mutexVars, job, local >>

\* Mutant: the column is not unique.
InsertUnindexed(c) ==
  /\ status' = [status EXCEPT ![Req(c)] = "DRAFT"]
  /\ Answer(c, Req(c))

\* The unique index refuses a second row of the key: the call fails.
InsertRow(c) ==
  IF WithKeyOf(Req(c)) = {}
  THEN status' = [status EXCEPT ![Req(c)] = "DRAFT"] /\ Answer(c, Req(c))
  ELSE UNCHANGED status /\ Answer(c, Failed)

Insert(c) ==
  /\ at[c] = "insert"
  /\ InsertRow(c)
  /\ UNCHANGED << balance, ledger, outbox, events, drift >>
  /\ UNCHANGED << hcmVars, mutexVars, job, local >>

------------------------------------------------------------------------------
(* Submit up to the lock: the first look at the request, the lazy load *)

GetOrThrow(c) ==
  /\ at[c] = "getOrThrow"
  /\ Goto(c, IF CanTransition(status[Req(c)], "SUBMIT") THEN "look" ELSE "done")
  /\ UNCHANGED local
  /\ ReadsOnly

LookForBalance(c) ==
  /\ at[c] = "look"
  /\ Goto(c, IF HasBalance(On[c]) THEN "lock" ELSE "pull")
  /\ UNCHANGED local
  /\ ReadsOnly

\* HCM answers with the row it has at that moment, or getBalance throws: HCM
\* is out of reach or refuses the key, and the submit ends before its lock.
PullBalance(c) ==
  /\ at[c] = "pull"
  /\ \/ /\ hcm' = [hcm EXCEPT ![On[c]] = Referenced(On[c])]
        /\ Remember(c, "row", [ balance |-> hcm'[On[c]][Len(hcm'[On[c]])],
                                version |-> Len(hcm'[On[c]]) ])
        /\ Goto(c, "load")
     \/ /\ Faults \intersect {"unavailable", "invalidDimensions"} # {}
        /\ Goto(c, "done")
        /\ UNCHANGED << hcm, local >>
  /\ UNCHANGED << applied, dbVars, mutexVars, job, answer >>

LoadBalance(c) ==
  /\ at[c] = "load"
  /\ \/ EnsureBalanceLoaded(On[c], local[c].row)
     \/ HasBalance(On[c]) /\ UNCHANGED dbVars
  /\ Goto(c, "lock")
  /\ local' = [local EXCEPT ![c] = Empty]
  /\ Elsewhere

------------------------------------------------------------------------------
(* runExclusive around the transactions of submit and reconcileKey *)

\* A reconcile comes with a row HCM held at some version.
CarriedRow(c) ==
  IF Is(c, "reconcile")
  THEN \E v \in DOMAIN hcm[On[c]] : Remember(c, "row", RowAt(On[c], v))
  ELSE UNCHANGED local

EnterMutex(c) ==
  /\ at[c] = "lock"
  /\ Enter(c)
  /\ CarriedRow(c)
  /\ Goto(c, "wait")
  /\ UNCHANGED << dbVars, hcmVars, job, answer >>

\* Mutant: the critical section starts without waiting for its turn.
StartAtOnce(c) ==
  /\ at[c] = "wait"
  /\ stage' = [stage EXCEPT ![c] = "inside"]
  /\ Goto(c, IF Is(c, "reconcile") THEN "row" ELSE "find")
  /\ UNCHANGED << tails, previous, resolved, ticket, arrivals >>
  /\ UNCHANGED << dbVars, hcmVars, job, local, answer >>

StartTransaction(c) ==
  /\ at[c] = "wait"
  /\ Proceed(c)
  /\ Goto(c, IF Is(c, "reconcile") THEN "row" ELSE "find")
  /\ UNCHANGED << dbVars, hcmVars, job, local, answer >>

Unlock(c) ==
  /\ at[c] = "unlock"
  /\ Leave(c)
  /\ Goto(c, "done")
  /\ UNCHANGED << dbVars, hcmVars, job, local, answer >>

------------------------------------------------------------------------------
(* The transactions of the endpoints *)

\* Mutant: submit goes on with the row it read before the lock.
StatusAtFirstLook(c) == IF Is(c, "submit") THEN "DRAFT" ELSE status[Req(c)]

\* The row as findOne reads it, inside the transaction.
StatusFound(c) == status[Req(c)]

MayGoOn(c) == CanTransition(StatusFound(c), ActionOf[job[c].op])

AfterFind(c) ==
  CASE Is(c, "submit")  -> "check"
    [] Is(c, "approve") -> "save"
    [] Is(c, "reject")  -> "release"
    [] Is(c, "cancel")  -> IF StatusFound(c) = "COMMITTED" THEN "save" ELSE "release"

FindRequest(c) ==
  /\ at[c] = "find"
  /\ \/ /\ MayGoOn(c)
        /\ Remember(c, "status", StatusFound(c))
        /\ Goto(c, AfterFind(c))
     \/ /\ ~MayGoOn(c)
        /\ Finish(c)
  /\ ReadsOnly

\* computeComponents and canReserve.  Its two reads are one step: the row
\* exists and changes only under the lock.
CheckBalance(c) ==
  /\ at[c] = "check"
  /\ LET components == ComputeComponents(On[c])
     IN IF CanReserve(components, Days[Req(c)])
        THEN /\ Remember(c, "committed", components.committedPending)
             /\ Goto(c, "hold")
        ELSE Finish(c)
  /\ ReadsOnly

Hold(c) ==
  /\ at[c] = "hold"
  /\ ledger' = AddReservation(ledger, Req(c))
  /\ Goto(c, "save")
  /\ UNCHANGED << status, balance, outbox, events, drift, local >>
  /\ Elsewhere

ReleaseHold(c) ==
  /\ at[c] = "release"
  /\ ledger' = ReleaseReservation(ledger, Req(c))
  /\ Goto(c, IF Is(c, "cancel") /\ local[c].status = "APPROVED" THEN "cancelPending"
                                                              ELSE "save")
  /\ UNCHANGED << status, balance, outbox, events, drift, local >>
  /\ Elsewhere

CancelPending(c) ==
  /\ at[c] = "cancelPending"
  /\ outbox' = CancelPendingForRequest(outbox, Req(c))
  /\ Goto(c, "save")
  /\ UNCHANGED << status, balance, ledger, events, drift, local >>
  /\ Elsewhere

Enqueues(c) == Is(c, "approve") \/ local[c].status = "COMMITTED"

\* m.save(r): the row gets the status that follows the one found, whatever
\* it holds by now; the version column is incremented and never compared.
SaveRequest(c) ==
  /\ at[c] = "save"
  /\ status' = [status EXCEPT ![Req(c)] =
                  NextState(local[c].status, ActionOf[job[c].op])]
  /\ IF Enqueues(c) THEN Goto(c, "enqueue") /\ UNCHANGED local ELSE Finish(c)
  /\ UNCHANGED << balance, ledger, outbox, events, drift >>
  /\ Elsewhere

EnqueueMessage(c) ==
  /\ at[c] = "enqueue"
  /\ outbox' = Enqueue(outbox, Req(c), IF Is(c, "approve") THEN "DEBIT" ELSE "CREDIT")
  /\ Finish(c)
  /\ UNCHANGED << status, balance, ledger, events, drift >>
  /\ Elsewhere

------------------------------------------------------------------------------
(* The transaction of reconcileKey *)

ReadRow(c) ==
  /\ at[c] = "row"
  /\ Remember(c, "found", balance[On[c]])
  /\ Goto(c, "commits")
  /\ ReadsOnly

\* The entries as they are now, the row as it was found.  The two reads of
\* entries are one step: the holds only decide the type of the event.
ReadEntries(c) ==
  LET result ==
        Reconcile([ReconcileInput(On[c], local[c].row) EXCEPT
                     !.currentHcmBalance     = local[c].found.hcmBalance,
                     !.lastReconciledVersion = local[c].found.lastReconciledVersion])
  IN /\ at[c] = "commits"
     /\ IF result.applied
        THEN /\ local' = [local EXCEPT ![c] =
                            [@ EXCEPT !.matched = result.matchedCommitIds,
                                      !.logged  = Logged(On[c], result)]]
             /\ Goto(c, IF result.matchedCommitIds = {} THEN "store" ELSE "mark")
        ELSE Finish(c)
     /\ ReadsOnly

MarkMatched(c) ==
  /\ at[c] = "mark"
  /\ ledger' = MarkReconciled(ledger, local[c].matched)
  /\ Goto(c, "store")
  /\ UNCHANGED << status, balance, outbox, events, drift, local >>
  /\ Elsewhere

\* The balance, and the event, which no other statement reads.
StoreRow(c) ==
  /\ at[c] = "store"
  /\ balance' = [balance EXCEPT ![On[c]] =
                   [ hcmBalance            |-> local[c].row.balance,
                     lastReconciledVersion |-> local[c].row.version ]]
  /\ events' = events \union local[c].logged
  /\ Finish(c)
  /\ UNCHANGED << status, ledger, outbox, drift >>
  /\ Elsewhere

------------------------------------------------------------------------------
(* A drain of one message *)

Message(c) == outbox[local[c].message]

MessageCommand(c) == << Message(c).request, Message(c).type >>

\* Mutant: a timer's drain does not look at the flag.
DrainingIgnored == {}

\* The `draining` flag.
Draining == { d \in Call : Is(d, "drain") /\ at[d] \notin {"due", "done"} }

SelectDue(c) ==
  /\ at[c] = "due"
  /\ \/ /\ Draining = {}
        /\ \E i \in Due(outbox, DOMAIN outbox) :
             /\ \A j \in Due(outbox, DOMAIN outbox) : i <= j
             /\ Remember(c, "message", i)
        /\ Goto(c, "claim")
     \/ /\ Draining # {} \/ Due(outbox, DOMAIN outbox) = {}
        /\ Goto(c, "done")
        /\ UNCHANGED local
  /\ ReadsOnly

\* The update is by id alone: whatever the row has become since.
ClaimMessage(c) ==
  /\ at[c] = "claim"
  /\ outbox' = MarkInflight(outbox, {local[c].message})
  /\ Goto(c, "call")
  /\ UNCHANGED << status, balance, ledger, events, drift, local >>
  /\ Elsewhere

CallHcm(c) ==
  /\ at[c] = "call"
  /\ \E outcome \in { "ack", "rejected", "unavailable" } :
       /\ ApplyDelta(MessageCommand(c), outcome)
       /\ Remember(c, "outcome", outcome)
       /\ Goto(c, IF outcome = "unavailable" THEN "settle" ELSE "request")
  /\ UNCHANGED << dbVars, mutexVars, job, answer >>

FindOutcomesRequest(c) ==
  /\ at[c] = "request"
  /\ Remember(c, "status", status[Message(c).request])
  /\ Goto(c, IF local[c].outcome = "rejected" /\ Message(c).type = "CREDIT"
             THEN "settle" ELSE "releaseHold")
  /\ ReadsOnly

Outcome(c) ==
  IF local[c].outcome = "rejected" THEN "HCM_REJECTED"
  ELSE IF Message(c).type = "DEBIT" THEN "HCM_COMMITTED" ELSE "HCM_CREDIT_DONE"

\* commitReservation's first statement, releaseReservation or releaseCommit.
ReleaseForOutcome(c) ==
  /\ at[c] = "releaseHold"
  /\ ledger' = IF Message(c).type = "DEBIT"
               THEN ReleaseReservation(ledger, Message(c).request)
               ELSE ReleaseCommit(ledger, Message(c).request)
  /\ Goto(c, IF Outcome(c) = "HCM_COMMITTED" THEN "commit" ELSE "advance")
  /\ UNCHANGED << status, balance, outbox, events, drift, local >>
  /\ Elsewhere

InsertCommit(c) ==
  /\ at[c] = "commit"
  /\ ledger' = [ledger EXCEPT ![Message(c).request] =
                  Append(@, [ phase      |-> "COMMIT",
                              state      |-> "ACTIVE",
                              hcmVersion |-> applied[MessageCommand(c)].version ])]
  /\ Goto(c, "advance")
  /\ UNCHANGED << status, balance, outbox, events, drift, local >>
  /\ Elsewhere

\* Skipped when the request found had moved on; drift is inserted next.
AdvanceRequest(c) ==
  /\ at[c] = "advance"
  /\ status' = IF CanTransition(local[c].status, Outcome(c))
               THEN [status EXCEPT ![Message(c).request] =
                       NextState(local[c].status, Outcome(c))]
               ELSE status
  /\ drift' = IF Outcome(c) = "HCM_COMMITTED" /\ ~applied[MessageCommand(c)].applied
              THEN drift \union {Message(c).request} ELSE drift
  /\ Goto(c, "settle")
  /\ UNCHANGED << balance, ledger, outbox, events, local >>
  /\ Elsewhere

SettleMessage(c) ==
  /\ at[c] = "settle"
  /\ outbox' = CASE local[c].outcome = "ack"         -> MarkDone(outbox, local[c].message)
                 [] local[c].outcome = "rejected"    -> MarkRejected(outbox, local[c].message)
                 [] local[c].outcome = "unavailable" -> MarkRetryOrDead(outbox, local[c].message)
  /\ Finish(c)
  /\ UNCHANGED << status, balance, ledger, events, drift >>
  /\ Elsewhere

------------------------------------------------------------------------------

CreateStatement(c) == FindByKey(c) \/ Insert(c)

BeforeLock(c) == GetOrThrow(c) \/ LookForBalance(c) \/ PullBalance(c) \/ LoadBalance(c)

RunExclusive(c) == EnterMutex(c) \/ StartTransaction(c) \/ Unlock(c)

Endpoint(c) ==
  \/ FindRequest(c) \/ CheckBalance(c) \/ Hold(c) \/ ReleaseHold(c)
  \/ CancelPending(c) \/ SaveRequest(c) \/ EnqueueMessage(c)

ReconcileStatement(c) == ReadRow(c) \/ ReadEntries(c) \/ MarkMatched(c) \/ StoreRow(c)

DrainStatement(c) ==
  \/ SelectDue(c) \/ ClaimMessage(c) \/ CallHcm(c) \/ FindOutcomesRequest(c)
  \/ ReleaseForOutcome(c) \/ InsertCommit(c) \/ AdvanceRequest(c) \/ SettleMessage(c)

Step(c) ==
  \/ CreateStatement(c) \/ BeforeLock(c) \/ RunExclusive(c) \/ Endpoint(c)
  \/ ReconcileStatement(c) \/ DrainStatement(c)

HcmAdjusts ==
  /\ \E k \in Key, d \in Adjustments : Adjust(k, d)
  /\ UNCHANGED << dbVars, mutexVars, callVars >>

Next == HcmAdjusts \/ \E c \in Call : Step(c)

\* What may be stored about a request when the calls begin: its status, its
\* ledger entries, its messages, and HCM's history of its key.
Held == [ phase |-> "RESERVE", state |-> "ACTIVE", hcmVersion |-> NoVersion ]

Past(r, b) ==
  LET queued(is) == << [ Enqueue(<< >>, r, "DEBIT")[1] EXCEPT !.status = is ] >>
      taken(v)   == << [Held EXCEPT !.state = "RELEASED"],
                       [Held EXCEPT !.phase = "COMMIT", !.hcmVersion = v] >>
      past(is, entries, messages, history) ==
        [ status |-> is, ledger |-> entries, outbox |-> messages, hcm |-> history ]
  IN { past("DRAFT", << >>, << >>, << b >>),
       past("PENDING_APPROVAL", << Held >>, << >>, << b, b + 1, b >>),
       past("APPROVED", << Held >>, queued("PENDING"), << b >>),
       past("COMMITTED", taken(2), queued("DONE"), << b, b - Days[r] >>) }

\* One stored request may be beyond DRAFT; its key has been loaded then.
Init ==
  /\ \E r \in Stored, b \in SeedBalances : \E p \in Past(r, b) :
       /\ Days[r] <= b
       /\ status = [ q \in Request |-> IF q = r THEN p.status
                                       ELSE IF q \in Stored THEN "DRAFT" ELSE NoRequest ]
       /\ ledger = [ q \in Request |-> IF q = r THEN p.ledger ELSE << >> ]
       /\ outbox = p.outbox
       /\ hcm = [ k \in Key |-> IF k = KeyOf[r] THEN p.hcm ELSE << b >> ]
       /\ balance = [ k \in Key |->
                        IF k = KeyOf[r] /\ p.status # "DRAFT"
                        THEN [ hcmBalance |-> b, lastReconciledVersion |-> 1 ]
                        ELSE NoBalance ]
       /\ applied = [ c \in Command |->
                        IF c = << r, "DEBIT" >> /\ p.status = "COMMITTED"
                        THEN [ version |-> 2, applied |-> TRUE ] ELSE NoAck ]
  /\ events = {}
  /\ drift = {}
  /\ MutexInit
  /\ job \in Mixes
  /\ at = [ c \in Call |-> Entry[job[c].op] ]
  /\ local = [ c \in Call |-> Empty ]
  /\ answer = [ c \in Call |-> NoRequest ]

Spec == Init /\ [][Next]_vars

\* While some call can go on, some call does: statements end, a lock is passed
\* on, HCM is called with a timeout.  The event loop owes no single call more.
FairSpec == Spec /\ WF_vars(\E c \in Call : Step(c))

------------------------------------------------------------------------------
(* Properties *)

\* Every call ends, however the others interleave: nobody waits for a lock
\* that a throwing section kept, or for a message another drain holds.
EveryCallEnds == <>(\A c \in Call : at[c] = "done")

\* A double submit reserves once: of two calls that both saw a DRAFT, the one
\* that comes second into the lock sees what the first one made of it.
OneHoldPerRequest ==
  \A r \in Request : Cardinality(Active(ledger[r], "RESERVE")) <= 1

HoldStep ==
  \A c \in Call :
    at[c] = "hold" /\ at'[c] = "save" =>
      \/ Available(On[c])' >= 0
      \/ Total(ActiveEntries(On[c], "COMMIT")) > local[c].committed

\* Of the check and the hold of a submit (keyed-mutex.ts): at the moment a hold
\* is written it still fits, whatever ran since its check, unless the commit
\* entry of a delivery came in between.  Such an entry takes no mutex and comes
\* a statement after its hold was released.  This is less than "no double
\* spend": a commit entry inserted after the hold is not looked at, nor is a
\* hold that a cancel gave up while its debit was in flight (double_spend).
OnlyACommitOvertakesTheCheck == [][HoldStep]_vars

SnapshotStep ==
  \A k \in Key :
    balance'[k].lastReconciledVersion < balance[k].lastReconciledVersion =>
      \E c \in Call : /\ On[c] = k
                      /\ at[c] = "store" /\ at'[c] # "store"
                      /\ local[c].found = NoBalance

\* Reconciles never take the snapshot back (C8), with one exception: the
\* first load inserts outside the mutex, so a reconcile that found no row may
\* write over a newer one.
OnlyAFirstLoadIsOverwritten == [][SnapshotStep]_vars

ByIdStep ==
  /\ \A r \in Request : \A i \in DOMAIN ledger[r] :
       ledger'[r][i] # ledger[r][i] =>
         /\ ledger'[r][i].state # "ACTIVE"
         /\ \/ ledger[r][i].state = "ACTIVE"
            \/ \E c \in Call : /\ at[c] = "mark" /\ at'[c] = "store"
                             /\ << r, i >> \in local[c].matched
  /\ \A i \in DOMAIN outbox :
       outbox'[i] # outbox[i] =>
         \/ outbox[i].status \notin {"DONE", "DEAD"}
         \/ /\ outbox[i].lastError = "cancelled"
            /\ \E c \in Call : /\ at[c] = "claim" /\ at'[c] = "call"
                             /\ local[c].message = i

\* What is settled stays settled, with two exceptions, both updates by id of
\* rows an earlier statement selected.  A reconcile marks a commit that a
\* credit's outcome has released meanwhile, and a drain claims a message that
\* a cancel has parked meanwhile.  No released hold comes back, no message that
\* was delivered, refused or given up on is sent again.
OnlyUpdatesByIdRewrite == [][ByIdStep]_vars

\* Retried creates agree: two calls with one Idempotency-Key never return
\* different requests, and when one fails the row it lost to is there for the
\* next retry.
CreatesAgree ==
  \A c, d \in Call :
    /\ {answer[c], answer[d]} \subseteq Request
         /\ IdempotencyKeyOf[Req(c)] = IdempotencyKeyOf[Req(d)]
         => answer[c] = answer[d]
    /\ answer[c] = Failed => WithKeyOf(Req(c)) # {}

TransitionStep ==
  \A r \in Request :
    status'[r] # status[r] /\ status[r] # NoRequest =>
      \E action \in DOMAIN TRANSITIONS[status[r]] :
        status'[r] = NextState(status[r], action)

\* time-off-request.entity.ts: the version column guards concurrent
\* transitions against lost updates, so a status is only ever replaced by one
\* that may follow it.
NoLostUpdate == [][TransitionStep]_vars

==============================================================================

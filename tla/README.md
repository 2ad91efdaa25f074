# Verification of the time-off microservice

TLA+ modules that model the service in `src/src`, TLC runs that check them on
small instances, and theorems checked by TLAPS. The code is under `src/src/`, the
documents under `src/docs/`; short paths below are relative to `src/src/`.

## 1. The system

The service keeps leave requests and a cache of leave balances. The system of
record (HCM) owns the balances, changes them on its own, and is allowed to be
slow, down or wrong. Everything runs in one Node process on one SQLite
connection; concurrency comes from interleaving at every `await`.

| Component | State | Operations that change it | Talks to |
|---|---|---|---|
| Request lifecycle (`time-off/`, `common/state-machine.ts`) | `time_off_requests.status` | create, submit, approve, reject, cancel | ledger and outbox, in its transactions |
| Balances and ledger (`balances/`, `common/balance-math.ts`) | `balances` (cached snapshot and version watermark), `balance_ledger_entries` | addReservation, releaseReservation, commitReservation, releaseCommit, ensureBalanceLoaded | HCM reads |
| Outbox table (`outbox/outbox.service.ts`) | `outbox_messages` | enqueue, claimDue, markDone, markRetryOrDead, cancelPendingForRequest, markRejected | - |
| Outbox processor (`outbox/outbox.processor.ts`) | the `draining` flag and the list being delivered, in memory | drainOnce, deliver, applySuccess, applyRejection | HCM, request, ledger, outbox |
| Sync (`sync/`, `common/reconciliation-math.ts`) | `reconciliation_events` and the two balance tables | ingestRealtime, ingestBatch, reconcileAll, all through reconcileKey | HCM reads, webhook, batch |
| HCM (`hcm/hcm-core.ts`) | balances with versions, acks by idempotency key, fault toggles | seed, adjust, getBalance, applyDelta | - |
| HTTP client, circuit breaker (`hcm/http-hcm.client.ts`, `common/circuit-breaker.ts`) | breaker state, failure count, time of opening | guarded calls | HCM over HTTP |
| Keyed mutex (`common/keyed-mutex.ts`) | one promise tail per balance key | runExclusive | used by submit and reconcileKey |
| Database connection (`database/database.module.ts`) | the tables, one connection for everybody | transactions, statement by statement | every service |
| Controllers, DTOs, error filter, health, bootstrap | none | - | the services |

How they interact. `submit` loads the snapshot of a key it has never seen
(outside lock and transaction), then checks and reserves under the key's mutex.
`approve` changes the status and queues a DEBIT in one transaction. A timer
drains the outbox: a transaction claims due messages as INFLIGHT, each is sent to
HCM, and the outcome is applied in a transaction of its own. In between,
employees cancel, HCM changes balances, and snapshots arrive by webhook, batch or
poll, in any order.

What is hard:

- an outcome is applied to a request that moved on during the call;
- HCM's snapshot and HCM's acknowledgement of the same debit race each other;
- a lost reply is indistinguishable from a command HCM never saw;
- the first load of a key races a newer webhook;
- the process may stop between the claim of a message and its outcome;
- approve, reject, cancel and the drain take no mutex, and the statements of two
  of their transactions may interleave;
- sums over the ledger must count each day exactly once through all of this.

What makes each component correct: a request holds its days exactly while it
waits (lifecycle); days HCM took are counted once, in the ledger or in the
snapshot (ledger, sync); an approval is never lost and never debited twice
(outbox, processor); the snapshot is a real row of HCM and never goes back
(sync); and what the service shows as available is covered by HCM (all of them
together).

## 2. The modules

    Domain         enums, transition table, constants and their assumptions
      |   BalanceMath    pure arithmetic: available, canReserve, reconcile
      |    |
      Database           the tables
      |    |      |
      |  BalanceService  OutboxService      operations on ledger, snapshot, outbox
      |    |    \         /
      |  SyncService   TimeOffService       reconcileKey; the endpoints
      |    |              |
     HcmCore |         OutboxProcessor      HCM; the drain
           \ |            /
           TimeOffSystem                    Init, Next, Spec, FairSpec
                |
           TimeOffProperties                what is checked
             /        |        \
       MCTimeOff   LeaveSaga   TimeOffProofs   TLC instances; the abstract
                                    |          specification; TLAPS proofs
                       SagaProofs, LedgerProofs, AgreementProofs

      FifoLock  <-implements-  KeyedMutex           the lock per balance key
                                /      \
                        Statements    MutexProofs   the service by statements
                         /      \      /
                 MCStatements  StatementProofs

      CircuitBreaker  <-  HttpHcmClient             calls to HCM over HTTP
                           /         \
                   MCHttpClient    ClientProofs

`Statements` also extends `TimeOffService`, `SyncService` and `HcmCore`. Of the
modules of proofs each extends the one before it: `TableProofs` (lemmas about the
operators on tables and the days that sets of entries stand for), `TimeOffProofs`,
`SagaProofs`, `LedgerProofs`, `AgreementProofs`. `StatementProofs` extends
`TableProofs` and `MutexProofs`.

An operation that the code runs inside a caller's transaction (`addReservation`,
`enqueue`, ...) is an operator from the old table to the new one; the caller's
action composes the operators its transaction calls. An operation that is a
transaction of its own is an action.

Correspondence of state:

| Variable | Code |
|---|---|
| `status[r]` | `TimeOffRequest.status`; `"NONE"` before the row exists |
| `balance[k]` | `Balance.hcmBalance`, `lastReconciledVersion`; (0, 0) when there is no row, which is how `reconcileKey` reads a missing row |
| `ledger[r]` | the rows of `BalanceLedgerEntry` with `requestId = r`, oldest first: phase, state, hcmVersion. Their amount is `Days[r]`, their key `KeyOf[r]`: the code copies both from the request and never changes them |
| `outbox` | `OutboxMessage` rows in `createdAt` order; the position is the id. The idempotency key is `type:request`, so it is not stored |
| `events`, `drift` | the reconciliation events written by a reconcile, and the requests with a DRIFT_DETECTED event |
| `hcm[k]` | the history of a row of `HcmCore.balances`: its length is the version, its last element the balance. The history lets a snapshot be any row HCM ever held |
| `applied` | `HcmCore.applied`, the acks by idempotency key |
| `batch`, `reply`, `late` | the claimed list of a running `drainOnce`, the answer to the message it is at, and commands whose caller timed out before HCM handled them |

Correspondence of actions (`TimeOffSystem!Next`):

| Action | Code |
|---|---|
| `Create`, `Submit`, `Approve`, `Reject`, `Cancel` | the endpoints. Throwing paths roll back and are not steps |
| `EnsureBalanceLoaded` | the `orIgnore` insert of a row read earlier: any row HCM ever held |
| `ReconcileKey` | the webhook, a batch row or a polled row: any row HCM ever held, any number of times |
| `ClaimDue` | `drainOnce` up to the loop; any subset of FAILED messages may be past its backoff |
| `CallHcm`, `CallRefused`, `CallTimesOut`, `HcmHandlesLate` | the call, and the ways it goes wrong |
| `LoseReply` | the answer is unreadable or lost, or the transaction of `applySuccess` throws: `deliver` treats both as transient |
| `ApplySuccess`, `ApplyRejection`, `ApplyTransientFailure` | the three outcome transactions |
| `DrainStops` | the process ends, or an exception leaves `deliver`: the claims stay INFLIGHT, the memory is gone |
| `Seed`, `Adjust`, `GetBalance` | HCM's own changes and the row a read creates |

Abstractions. Day counts are naturals; a sum is the number of day units the
entries stand for (`BalanceMath!Total`), which needs no recursion. Time does not
appear: backoff and interval become "may happen". Audit columns, reasons,
references and event details are left out. Messages claimed together have
different `createdAt` (the code orders by it alone). The rows that arrive from
HCM are rows HCM held: a webhook that invents a balance is outside the model.
`DrainStops` keeps the endpoints available, as a restart does.

**The mutex.** `KeyedMutex` has the three stretches of `runExclusive` between
awaits as actions: `Enter` (read the tail of the key, become it), `Proceed` (the
promise read is resolved, `fn` starts), `Leave` (`fn` settled either way; resolve,
drop the tail if it is still one's own). A promise is named by its call.
`FifoLock` says what callers rely on: one at a time per key, in order of arrival.
The order of arrival is not in the code's state, so `ticket` and `arrivals` are
history variables, and the refinement maps them and `stage` to themselves. What
differs is the guard: the code looks at one promise, the lock at everyone ahead.
Holding this lock is what makes check and reserve one step in `TimeOffSystem`
against other submits and reconciles of the key; `Statements` checks that it
does.

**Statements.** `TimeOffSystem` takes each transaction as one step. `Statements`
takes them apart: a call of an endpoint, of `reconcileKey` or of the drain is a
sequence of statements, `at[c]` says which one it runs next, and `local[c]` holds
what it read and will use again. The operators on tables are those of
`BalanceService`, `OutboxService` and `SyncService`; only who runs between them
differs.

| Label of `at` | Code |
|---|---|
| `findKey`, `insert` | `create`: the search by Idempotency-Key, the insert under the unique index |
| `getOrThrow`, `look`, `pull`, `load` | `submit` before the lock: the first check, `ensureBalanceLoaded` in its three awaits, of which HCM's answer may be an exception that ends the call |
| `lock`, `wait`, `unlock` | `runExclusive`, by the actions of `KeyedMutex` |
| `find`, `check`, `hold`, `release`, `cancelPending`, `save`, `enqueue` | the transactions of submit, approve, reject and cancel |
| `row`, `commits`, `mark`, `store` | the transaction of `reconcileKey` |
| `due`, `claim`, `call`, `request`, `releaseHold`, `commit`, `advance`, `settle` | a drain that delivers one message |

Where two statements are one step (the sums of `computeComponents` with the row,
the two reads of entries, the balance with its event), a comment says why no other
call can tell. A path that throws does so before its first write, so its rollback
undoes nothing of its own.

Only the atomicity of one statement is assumed of the database, for
`keyed-mutex.ts:4-6` claims to prevent double spends "regardless of the SQLite
driver's transaction concurrency semantics". What the runs and proofs show at this
grain is less than that claim: the check of a submit is still good when its hold is
written, with the exception named in section 3. With `better-sqlite3` a statement is
synchronous and all calls share one connection, so calls interleave this way when
they are runnable at the same time, as `test/integration/concurrency.spec.ts` has
them with `Promise.allSettled`; a driver with real I/O would interleave them more
often. What the model leaves out is the other face of sharing a connection: TypeORM
turns a transaction that begins inside another into a savepoint, so the roll-back
of a call that throws, though it has written nothing itself, may take the writes
of an overlapping call along. That is the library's doing and its source is not in
the repository; it is listed as a hazard without a property.

**The saga.** `LeaveSaga` is the whole system as its two parties see it: the stage
of a request on the service's side (new, asked, promised, confirmed, returning,
ended, dropped) and whether HCM has taken its days and given them back. It has no
outbox, ledger, drain or replies. `TimeOffProperties!Saga` maps `TimeOffSystem` to
it: the stage is read off `status` and whether a debit was ever queued, the other
two off HCM's acks. `dropped` (ended before any approval) and `ended` differ
because HCM may still take the days of an ended request, from a message in
flight, and never of a dropped one.

**The client.** `CircuitBreaker` has one operator per method, `HttpHcmClient` the
stretches of a call: `Begin` (breaker, then `fetch`), `HeadersArrive` or
`FetchFails`, then `BodyEnds` or `BodyUnreadable`. Callers overlap, so a call may
settle under another state of the breaker than it began in. Its results (answer,
rejection, `HcmUnavailable`) are the outcomes of a call in `OutboxProcessor`; an
open breaker is one more way to be refused there (`CallRefused`).

## 3. The runs

`statements` and `lost_update` instantiate `MCStatements`, `breaker`
`MCHttpClient`, the others `MCTimeOff`. `CHECK_DEADLOCK FALSE` except in
`breaker`: requests end in terminal statuses, HCM stops at `MaxVersion` and the
calls of `Statements` are finitely many, so these systems may stop.

| Run | Instance | Question | Distinct states |
|---|---|---|---|
| `one_request` | 1 request, all eight faults, HCM moves up and down to version 3 | do ledger, messages, status and snapshot of a request agree in every state and step, does a snapshot end double counts, and is the whole the abstract saga? | 248 k |
| `contention` | 2 requests of 1 day on a key seeded with 2, HCM ghosts, overdraws, rejects, decreases; symmetric | is a negative available balance always explained, and does HCM's newest row end every difference? | 112 k |
| `honest_hcm` | requests of 1 and 2 days on a key seeded with 2, replies lost, drains stop, HCM overdraws, only increases | does the service ever promise days HCM lacks? | 818 k |
| `delivery` | 2 requests on 2 keys sharing a drain that claims one at a time, calls fail | does every approval and cancellation settle, and do the sums keep the keys apart? | 224 k |
| `delivery_faults` | 1 request, refused, lost, late and rejected calls, 3 attempts | same, across retries | 2.7 k |
| `statements` | any 3 of submit (of 2 requests), approve, reject, cancel, reconcile and drain on one key, from any stored past; or 2 creates and a submit | what survives when transactions interleave by statements? | 215 k |
| `breaker` | 3 overlapping callers, threshold 2 | does the breaker follow the outcomes, and does an outage end? | 3.5 k |
| `crash_strands`, `double_spend`, `double_count`, `cancelled_costs`, `lost_update` | smallest instance that shows it | expected counterexamples, section 6 | - |

Safety properties of `one_request`:

- `TypeOK`: also says that no status leaves the table and no message id dangles.
- `HoldMatchesStatus`: exactly one active hold while PENDING_APPROVAL or
  APPROVED, none otherwise (TRD table of section 3.3, invariant I1).
- `OneActiveEntry`: never a hold and a commit together, never two commits.
- `CommittedDaysCounted`: a committed request's days are in an active commit or
  in the snapshot accepted since.
- `ApprovalIsQueued`: the debit of an APPROVED request exists and is live or
  parked; a pending cancellation's credit is not done. INFLIGHT counts as live, so
  the message a stopped drain strands is not caught here but by `crash_strands`.
- `AckedBeforeCommitted`: one message per direction; COMMITTED, and any credit,
  only after HCM acknowledged the debit.
- `SnapshotIsHistoric`, `SnapshotNeverGoesBack`: the cached pair is a row HCM
  held, and only moves to higher versions (C8).
- `SnapshotHeals`: accepting a snapshot leaves no commit active that the snapshot
  includes. It bounds what `double_count` (section 6) shows: days may be
  subtracted twice, until the next accepted snapshot. A row of the watermark's own
  version is stale and is not accepted, so it ends nothing.
- `GhostCommitsAreDrift`: a commit HCM acknowledged without applying is on
  record as drift (C5), also after replays and cancellations.
- `LedgerForwardOnly`: the ledger grows and an entry is marked once (G7).
- `SettledMessagesStay`: DONE and DEAD messages never change.

  These two and `AckedBeforeCommitted` hold between transactions only. By
  statements, `reconcileKey` marks by id (`sync.service.ts:142-146`) and may mark a
  commit RECONCILED that a credit's outcome released since it was selected;
  `claimDue` claims by id (`outbox.service.ts:55`) and may send a message that a
  cancel parked since it was selected; and a lost update may queue two debits.
  `OnlyUpdatesByIdRewrite` shows that the first two are all there is. With
  `better-sqlite3` the statements of a transaction follow each other in a short
  chain of microtasks, so an overlap at just that place is rare in practice.
- `ImplementsSaga`: every behaviour is one of `LeaveSaga`. HCM takes the days of a
  request once and only after an approval, the service confirms nothing HCM has
  not taken and completes no cancellation HCM has not given back.

Across requests:

- `NegativeIsExplained`: a negative available balance has an OVER_ALLOCATED
  event at the watermark, a snapshot below zero, or the commit of a cancelled
  request (the race of `double_spend`) as its reason (C9).
- `NewestRowAgrees`: when the row accepted is HCM's newest, available plus the
  days held is HCM's balance, exactly; a stale row of the same version is refused and
  ends no difference. Until then late commits, ghost acks and
  debits that landed after a cancel may have moved it either way.
- `NeverOverPromised`: available plus what is still to be debited is at most
  HCM's balance of this moment, except for days HCM took for requests cancelled
  in flight. It is stated for an HCM that keeps its acks, lowers nothing by itself
  and handles no command late; TLC refutes it with any one of `ghostSuccess`,
  `decrease` and `late` added to the instance.
- `RefusedNeverDebited`: REJECTED and FAILED cost nothing in HCM. `late` breaks it,
  so the instance is without; `unavailable` and `invalidDimensions` are left out
  for size (the theorems of section 5 have them).
- `CreditUndoesADebit`: HCM gives back only what it took.

Liveness, under `FairSpec`: `ApprovalSettles`, `CancellationSettles`. They say that
retries end. A message parked after its last attempt, or a credit HCM rejected, is
such an end: the request then stays APPROVED with its days held, or
CANCELLATION_PENDING, until a person acts, and nothing here says otherwise.

Statements: `MutualExclusion`; `TailIsLast` (the map holds the keys in use, each
with its last arrival: no overtaking, no leak); `ImplementsFifoLock`;
`OneHoldPerRequest` (a double submit reserves once); `CreatesAgree` (retried
creates never return two requests); `OnlyACommitOvertakesTheCheck` (a hold still
fits when it is written, unless a delivery's commit entry came between);
`OnlyAFirstLoadIsOverwritten` (a reconcile takes the snapshot back only over the
insert of a first load); `OnlyUpdatesByIdRewrite` (released and reconciled entries
and settled messages change by the two updates by id only, and only if selected
before: no released hold comes back, and nothing that was delivered, refused or
given up on is sent again); `EveryCallEnds`. The exceptions are real, TLC reaches
each: the check can miss days whose hold was released and whose commit entry is one
statement away, a reconcile that found no row stores its own over a newer one, and
both updates by id meet rows that changed since. Between transactions none of them
happens (`SnapshotNeverGoesBack`, `LedgerForwardOnly`, `SettledMessagesStay`).

`OnlyACommitOvertakesTheCheck` is not "no double spend". It speaks of the moment
the hold is written: the commit entry of a hold that was just released may be
inserted a statement later and pass unseen, and `double_spend` shows the other way
to the same end, between transactions.

Client: `OpenIffFailing` (not CLOSED exactly while the last outcomes, as many as
the threshold, failed); `FailureShuts` (also a probe's failure or a late one
refuses the next call); `OutageEnds` (once HCM answers for good, so do calls,
whatever late failures still arrive).

Each property is also run against a variant of one operator with a bug the code
could plausibly have (marked `Mutant:` beside the operator it varies, listed in
`PROJECT.json`) and is violated there.

### Bounds, and why they suffice

- One or two requests: every hazard above concerns one request against time, or
  two requests against one key. A third adds no new pair.
- `MaxVersion` 1 to 3 bounds what HCM does by itself; debits and credits add
  versions beyond it. Three allow a snapshot before, between and after a debit
  and its ack.
- `MaxAttempts` 2 or 3 instead of 5: one retry and the last attempt both happen.
- `ClaimLimit` 1 makes the second message wait for another claim; `honest_hcm`
  uses 2, where a batch holds two and the second goes stale while the first is
  delivered.
- Three calls on a key: one leaves while another waits and a third arrives, which
  is what it takes to overtake; two that race and one that disturbs what they
  read. The pasts a request may be stored with (DRAFT, PENDING_APPROVAL, APPROVED
  with its debit queued, COMMITTED) stand for the calls that ended before, so
  three concurrent calls meet every status. A drain there delivers one message.
  Idle calls of one key show nothing more about another key, whose lock, row and
  entries are disjoint; `MutexProofs` covers any number of keys.
- `MaxFailures` 4 is twice the threshold: the breaker opens, a probe fails, and
  calls that began earlier fail after that.
- Seeds of 1 or 2 days against requests of 1 and 2 make every sum reach its
  limit.

## 4. Fairness

`FairSpec` adds weak fairness of `DrainStep`: the interval timer of
`onModuleInit` starts a drain again and again (with OUTBOX_AUTODRAIN not
`false`), the `draining` flag is freed in a `finally`, and within a drain a call
ends (it is answered, refused, or aborted by the client's timeout) and its
outcome is applied. Nothing is assumed of managers, employees, webhooks, HCM's
own changes, late commands, or retries succeeding. With the fault `crash` absent
this is what one running process does; `crash_strands` shows what is left of it
with a restart. One gap of this assumption is known: the client's timer is
cleared once headers arrive (`http-hcm.client.ts:80`), so a body that never ends
is a call that never ends; the drain then waits for ever and with it every message,
which the liveness properties do not catch. `HttpHcmClient` has that as it is: reading a body is a
step without fairness.

`Statements!FairSpec`: while some call can go on, some call does. The event loop
runs what is runnable, statements and calls of HCM end, and a released lock is
passed on. Nothing is assumed of a particular call, nor needed: calls are
finitely many, so a call that waited for ever would be a lock nobody gives back.
`HttpHcmClient!FairSpec`: the cooldown passes, nothing else.

## 5. What is proved

`TimeOffProofs`, for every value of the constants, from `RequestAssumption`
(requests belong to keys and ask for at least one day) and `BoundsAssumption`
(types of the other parameters):

| Theorem | Says |
|---|---|
| `TypeCorrect` | `Spec => []TypeOK` |
| `HoldsAreExact` | `Spec => []HoldMatchesStatus` |
| `SnapshotsAreHistoric` | `Spec => []SnapshotIsHistoric` |
| `SnapshotsAdvance` | `Spec => SnapshotNeverGoesBack` |

`SagaProofs`, `LedgerProofs`, `AgreementProofs`, from the same two assumptions:

| Theorem | Says |
|---|---|
| `SystemIsSaga` | `Spec => ImplementsSaga`: the service, its outbox and HCM implement the saga |
| `CommitsAreAcked` | `Spec => []AckedBeforeCommitted` |
| `ApprovalsAreQueued`, `SettledForGood` | `Spec => []ApprovalIsQueued`, `Spec => SettledMessagesStay` |
| `DaysCountOnce`, `CommittedDaysStay` | `Spec => []OneActiveEntry`, `Spec => []CommittedDaysCounted` |
| `LedgerIsForward`, `GhostsAreOnRecord` | `Spec => LedgerForwardOnly`, `Spec => []GhostCommitsAreDrift` |
| `NegativesAreExplained` | `Spec => []NegativeIsExplained`, under every fault |
| `SnapshotsHeal`, `NewestRowsAgree` | `Spec => SnapshotHeals`, `Spec => NewestRowAgrees`, under every fault |
| `CreditsUndoDebits` | `Spec => []CreditUndoesADebit`, if `Faults` has no `ghostSuccess` |
| `RefusalsAreFinal` | `Spec => []RefusedNeverDebited`, if `Faults` has no `late` |
| `PromisesAreKept` | `Spec => []NeverOverPromised`, if `Faults` has none of `ghostSuccess`, `decrease`, `late` |

The last three are theorems about an HCM that behaves, and each fault they exclude
breaks them: a ghost debit would be undone for real, and a ghost credit frees days
HCM keeps; a balance HCM lowers by itself is lower than any snapshot said; and a
command that arrives after its retry was rejected takes the days of a request the
service has written off. Lost replies, refusals,
rejections, overdrafts and drains that stop are all allowed.

`MutexProofs`, for any calls, keys and assignment of keys to calls
(`CallAssumption`), and `ClientProofs`, for any callers and any threshold of at
least 1 (`ThresholdAssumption`):

| Theorem | Says |
|---|---|
| `OneAtATime`, `TailsAreLast` | `MutexSpec => []MutualExclusion`, `MutexSpec => []TailIsLast` |
| `MutexIsFifo` | `MutexSpec => ImplementsFifoLock`: the chain of promises implements the lock |
| `ClientTypeCorrect` | `Spec => []TypeOK` of `HttpHcmClient` |
| `OpensOnFailures`, `FailuresShut` | `Spec => []OpenIffFailing`, `Spec => FailureShuts` |

`StatementProofs`, for any number of calls, keys and requests and any mix of jobs,
from `RequestAssumption`, `BoundsAssumption`, `CallAssumption` and
`CallsAssumption` (the lock's keys are the balance keys, a call locks the key of
its request, stored requests have different Idempotency-Keys):

| Theorem | Says of the service by statements |
|---|---|
| `StatementsTypeCorrect` | `Spec => []TypeOK` |
| `CallsUseMutex` | `Spec => MutexSpec`: the service uses the lock as `KeyedMutex` has it used, so what is proved of the lock holds here |
| `TransactionsExclude`, `TailsStayLast`, `CallsAreServedInOrder` | `Spec => []MutualExclusion`, `Spec => []TailIsLast`, `Spec => ImplementsFifoLock` |
| `SubmitsHoldOnce` | `Spec => []OneHoldPerRequest` |
| `HoldsStillFit` | `Spec => OnlyACommitOvertakesTheCheck` |
| `ReconcilesNeverGoBack` | `Spec => OnlyAFirstLoadIsOverwritten` |
| `SettledRowsStay` | `Spec => OnlyUpdatesByIdRewrite` |
| `RetriedCreatesAgree` | `Spec => []CreatesAgree` |

Arguments:

- *Types.* One lemma per table operation (`ReleaseType`, `EnqueueType`,
  `MarkInflightType`, `OutcomeType`, ...), one per action, then the disjuncts of
  `Next`. `ReconcileEffect` and `LoadEffect` state once what the two ways of
  writing a snapshot do.
- *Holds.* `HoldMatchesStatus` is not inductive: `ApplySuccess` and
  `ApplyRejection` release the hold of the request whose message they settle, and
  would leave a PENDING_APPROVAL request without its hold. `HoldInv` adds
  `MessageNeedsApproval`, that a message belongs to a request past its approval,
  and `TypeOK`. `LifecycleHold` and `DeliverHold` have a case per operation;
  `HoldStep` reduces each to the one request it touches.
- *Snapshot.* `NextMovesSnapshotOrHistory`: a step extends HCM's histories and
  leaves the cache alone, or gives one key a newer row of the history. Both
  snapshot theorems follow.
- *Saga.* `SagaInv` gives each status its evidence: one message per direction
  (`NoDuplicates`), a debit exactly from the approval on, a debit acknowledged
  before COMMITTED and before any credit (`RequestOK`), and an answer "ack" only
  while HCM holds that ack (`ReplyIsTrue`). `Effect` says that every step is to the
  saga nothing, a request moving to its next status, or an acknowledgement; the
  invariant and the refinement are both proved from it.
- *Outbox.* `SettledMessagesStay` needs to know why a drain holding an old list
  cannot overwrite a verdict: `BatchInFlight`, what is still to be delivered is
  INFLIGHT, and only a drain changes such a row. `ApprovalIsQueued` follows the
  same messages through their statuses (`QueuedOK`).
- *Ledger.* `EntriesStep` lists the ways a ledger may change (as it was, a hold
  added, marks, a commit added). `CommitOK` says that a commit entry belongs to an
  acknowledged debit and carries its version, so a commit marked RECONCILED was
  covered by the snapshot of then, and snapshots only advance (`SnapshotsAdvance`).
  `CountedOK` keeps the entry of a committed request from being released before
  its credit is acknowledged.
- *Refusals.* `RefusalInv`: without late commands a "rejected" still waiting to be
  applied is about a command HCM has no ack for (`RejectionIsTrue`), and once it is
  applied the debits of the request are DEAD and cannot be sent again
  (`RefusedOK`). For credits, `AckedWasSent` ties each ack to a message queued.
- *Sums.* `Available` is a difference of sums over ledger entries, and no invariant
  speaks of entries of several requests at once. `BooksOK` (types, exact holds, one
  active entry per request, commits with their acks, and that the requests that
  exist stand for finitely many days) turns it into one term: the snapshot less
  the cost of the requests taken (`AvailableIs`). `CostAdds`, `CostGrows` and
  `CostOfMore` then reckon with sets of requests.
- *Negative balances.* `NegativeIsExplained` is not inductive alone: a commit could be
  added to a request that held nothing. `OpenOK` says that a debit whose outcome is
  still to come belongs to a request that holds its days or was cancelled, and
  `LoadedOK` that whoever holds days has a snapshot (`SupportOK`). Then only a submit takes more,
  which `canReserve` checked; a snapshot that lowers the sum below zero logs it
  (`SnapshotExplains`, from `ReconcileLeaves`: the sum the pure function predicts
  is the sum the tables have afterwards); and a reason once there stays while the
  balance is negative (`ExplainedStays`).
- *Snapshots that mend.* `AcksDated`: an ack carries a version its key has had. With
  `CommitOK` a commit is dated by HCM, so what a reconcile leaves active is newer
  than the row (`SnapshotLeaves`), and nothing is newer than the newest row
  (`NewestLeaves`).
- *Promises.* HCM's history is a chain: its balance now is a past one, less the debits
  and plus the credits acknowledged since, or more (`HistoryOK`); and a credit
  is acknowledged after its debit (`OrderOK`). Both are `HcmAddsUp`, which needs
  the two faults away. In `PromisesFit` everything HCM debited after the
  snapshot's version is then subtracted by the service too
  (`CommittedDaysCounted`), or credited since, or leaked; the days still owed are
  subtracted and not debited. Which leaves the refused requests, and
  `RefusedNeverDebited`.
- *Mutex.* Mutual exclusion does not say why waiting for one promise is enough.
  `MutexInv` does: the tail of a key is its newest arrival (`TailIsNewest`), so
  the promise a call read is that of the call just before it (`PreviousIsNext`),
  and whoever ran had nobody ahead (`RunInTurn`). `ProceedInTurn` puts these
  together, and is both the heart of the invariant and the guard of the abstract
  `Acquire`.
- *Client.* Every step is one of five things to the breaker
  (`NextIsBreakerStep`); under those the counter is the length of the current
  run of failures (`CountIsRun`) and the state follows it (`StateFollowsCount`).

- *Statements.* `UsesMutex` shows that a step of the service is a step of the lock
  or leaves it alone, which carries the theorems of `MutexProofs` over. `Inv` adds
  to the types where a call may stand: the statements of a submit or a reconcile
  between `lock` and `unlock` are reached only `inside` (`UnderLock`), the status a
  transaction found is one its action may replace (`FoundLegal`), a delivering call
  has a message (`CallOK`). It also says that the day units of a key are finitely
  many (`UnitsFinite`), as is true of a ledger written entry by entry; without it a
  sum over an unbounded set of requests has no meaning. `Alone` (a step changes
  nothing of the other calls) and `Writers` (which statements write which table)
  reduce the rest to a few cases.
- *One hold.* `HoldInv`: a submit at its check or its hold has no hold yet, and a
  DRAFT with a hold belongs to a submit about to save. The check repeated inside
  the lock and `OneUnderLock` make it inductive.
- *Check and snapshot.* `CheckInv` is what a call may rely on between statements: a
  reconcile's `found` is the row as it still is, or no row; its version is newer; a
  submit past its load has a snapshot; and at `hold` its days still fit below the
  committed sum it saw. Its parts need each other: the snapshot under a submit can
  only be kept because a key once loaded is never taken for unloaded
  (`BalanceStays`), which in turn needs a reconcile to store a newer version.
  `UnitsGrow` and `UnitsShrink` count what each statement does to a sum.
- *Updates by id.* `DrainInv`: one drain delivers at a time; at its claim its message
  is due or was parked by a cancel since, and from then on it is INFLIGHT, which
  no cancel touches. `EntryWrites` and `MessageWrites` list who changes a stored
  row.

Only model-checked: the liveness properties `ApprovalSettles`,
`CancellationSettles`, `EveryCallEnds` and `OutageEnds`, which the prover cannot
reach. Every invariant and every action property of the passing runs is a theorem.

## 6. Where documents and code disagree

Each is a run that expects a counterexample.

| Run | What the documents say | What happens |
|---|---|---|
| `crash_strands` | a crash mid-delivery leaves the message reclaimable (`outbox.processor.ts:14-15`, TRD 5.2, C10) | `claimDue` never selects INFLIGHT: the approval is stuck |
| `double_spend` | concurrent requests never drive the local balance negative (TRD G3) | cancel with the debit in flight, another submit takes the headroom, the debit lands |
| `double_count` | double-count is structurally impossible (`README.md:16`) | snapshot first, acknowledgement second: subtracted twice until the next snapshot |
| `cancelled_costs` | a debit that lands after a cancel is reconciled away or compensated (`state-machine.ts:37-39`) | no credit is ever queued; HCM keeps the days |
| `lost_update` | the version column is an optimistic lock that guards concurrent transitions (`time-off-request.entity.ts:50`, TRD 9) | no read asks TypeORM to compare it: of two transitions that found the same status the second overwrites the first |

Seen while modelling and not run as counterexamples:

- `outbox.service.ts:99-104` cancels FAILED messages as not yet delivered; a
  FAILED debit whose reply was lost has been applied by HCM. `cancelled_costs`
  shows where that ends.
- TRD 9 asks for a unique `idempotency_key`; the outbox column has no such index
  (`outbox-message.entity.ts:22`), so two racing approvals queue two debits. HCM
  answers the second from its memory of the key.
- `create` retried with `submit: true` after its submit failed returns the DRAFT
  it finds and does not submit it (`time-off.service.ts:66-71`).
- An exhausted message is DEAD and its request stays APPROVED with its hold;
  `enums.ts:17` and `state-machine.ts:13` say such a request fails.
- `circuit-breaker.ts:5` gives the states as CLOSED, OPEN, HALF_OPEN, CLOSED. A
  call that began before the breaker opened and succeeds after it closes it
  without a probe; while half open every caller passes, not one; a probe that is
  rejected leaves it half open.

## 7. Not modelled

- Controllers, DTOs, error filter, health, bootstrap: no state.
- `toView`, `getView`, `list`, `listEvents`, `dumpCorpus`: reads. `isTerminal`
  and `isOverAllocated` are used by tests only.
- `HcmCore.reset` and the moment a toggle of `configureFaults` is flipped: an
  instance that has a fault may meet it at any call.
- A request with an unknown id in the outbox (`applySuccess`, first branch):
  requests are never deleted.
- Savepoints and roll-backs of overlapping transactions on the shared connection
  (section 2, Statements): what a roll-back undoes there is decided by TypeORM.
- Drains of several messages in `Statements`; `TimeOffSystem` has them.

## 8. Plan

What would come next, in this order:

1. `BalanceMath` against fold-based sums as reference definitions, over all
   small inputs.
2. A ghost credit releases a commit HCM still charges for: how long the difference
   lasts when HCM's balance does not change again (`NewestRowAgrees` needs a newer
   row, and `isStale` refuses the same one).
3. A refinement from `Statements`, with the mutex and no overlap of transactions, to
   `TimeOffSystem`.

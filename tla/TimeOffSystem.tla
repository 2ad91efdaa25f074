---------------------------- MODULE TimeOffSystem ----------------------------
(***************************************************************************)
(* The whole service: its endpoints, the outbox drain, the sync channels   *)
(* and HCM, interleaved transaction by transaction.                        *)
(***************************************************************************)
EXTENDS OutboxProcessor, SyncService

vars == << dbVars, hcmVars, processorVars >>

TypeOK == DatabaseTypeOK /\ HcmTypeOK /\ ProcessorTypeOK

Init == DatabaseInit /\ HcmInit /\ ProcessorInit

\* Employees and managers.
Lifecycle(r) ==
  /\ Create(r) \/ Submit(r) \/ Approve(r) \/ Reject(r) \/ Cancel(r)
  /\ UNCHANGED << hcmVars, processorVars >>

\* HCM on its own, and the row a balance read may create.
HcmMoves(k) ==
  /\ \/ \E b \in SeedBalances : Seed(k, b)
     \/ \E d \in Adjustments : Adjust(k, d)
     \/ GetBalance(k)
  /\ UNCHANGED << dbVars, processorVars >>

\* A first load, and a snapshot from any channel: HCM held the row at some
\* version, and it may arrive late, twice, out of order or never.
SnapshotArrives(k) ==
  /\ \E v \in DOMAIN hcm[k] :
       EnsureBalanceLoaded(k, RowAt(k, v)) \/ ReconcileKey(k, RowAt(k, v))
  /\ UNCHANGED << hcmVars, processorVars >>

Deliver(i) ==
  \/ CallHcm(i) \/ CallRefused(i) \/ CallTimesOut(i) \/ LoseReply(i)
  \/ ApplySuccess(i) \/ ApplyRejection(i) \/ ApplyTransientFailure(i)

Next ==
  \/ \E r \in Request : Lifecycle(r)
  \/ \E k \in Key : HcmMoves(k) \/ SnapshotArrives(k)
  \/ ClaimDue
  \/ \E i \in DOMAIN outbox : Deliver(i)
  \/ \E c \in Command : HcmHandlesLate(c)
  \/ DrainStops

Spec == Init /\ [][Next]_vars

\* The interval timer keeps draining, and a drain always goes on to its next
\* step: a call ends (answered, refused or timed out) and its outcome is
\* applied.  Nobody owes the service an approval, a webhook or a retry that
\* succeeds.
DrainStep == ClaimDue \/ \E i \in DOMAIN outbox : Deliver(i)

FairSpec == Spec /\ WF_vars(DrainStep)

==============================================================================

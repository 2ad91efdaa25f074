----------------------------- MODULE SyncService -----------------------------
(***************************************************************************)
(* sync.service.ts: reconcileKey, the single engine behind the webhook,    *)
(* the batch and reconcileAll.  All three hand it a row HCM held at some   *)
(* time; they differ in how old the row may be by then.                    *)
(***************************************************************************)
EXTENDS BalanceService

\* Input of the pure reconcile for a row of key k.
ReconcileInput(k, row) ==
  [ currentHcmBalance     |-> balance[k].hcmBalance,
    lastReconciledVersion |-> balance[k].lastReconciledVersion,
    reservedOpen          |-> Total(ActiveEntries(k, "RESERVE")),
    committedEntries      |-> ActiveEntries(k, "COMMIT"),
    authoritativeBalance  |-> row.balance,
    authoritativeVersion  |-> row.version ]

MarkReconciled(l, ids) ==
  [ r \in Request |->
      [ i \in DOMAIN l[r] |->
          IF << r, i >> \in ids THEN [l[r][i] EXCEPT !.state = "RECONCILED"]
                                ELSE l[r][i] ] ]

\* A plain RECONCILED is not logged.
Logged(k, result) ==
  IF result.eventType = "RECONCILED" THEN {}
  ELSE { [ key     |-> k,
           version |-> result.newLastReconciledVersion,
           type    |-> result.eventType ] }

\* A stale row is a no-op: the handler returns before it writes.
ReconcileKey(k, row) ==
  LET result == Reconcile(ReconcileInput(k, row))
  IN /\ result.applied
     /\ ledger' = MarkReconciled(ledger, result.matchedCommitIds)
     /\ balance' = [balance EXCEPT ![k] =
                      [ hcmBalance            |-> result.newHcmBalance,
                        lastReconciledVersion |-> result.newLastReconciledVersion ]]
     /\ events' = events \union Logged(k, result)
     /\ UNCHANGED << status, outbox, drift >>

==============================================================================

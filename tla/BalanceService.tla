--------------------------- MODULE BalanceService ---------------------------
(***************************************************************************)
(* balance.service.ts: the ledger mutations other services call inside     *)
(* their transactions, the derived balance, and the lazy first load of a   *)
(* snapshot.  The mutations are functions from the ledger to the ledger,   *)
(* so that the action of the caller composes them as its transaction does. *)
(***************************************************************************)
EXTENDS Database

\* The positions of the ACTIVE entries of one phase.
Active(entries, phase) ==
  { i \in DOMAIN entries :
      entries[i].phase = phase /\ entries[i].state = "ACTIVE" }

\* Mutant: the release forgets `state = 'ACTIVE'` in its WHERE.
ReleaseAnyState(entries, phase) ==
  [ i \in DOMAIN entries |->
      IF entries[i].phase = phase THEN [entries[i] EXCEPT !.state = "RELEASED"]
                                  ELSE entries[i] ]

\* The UPDATE ... WHERE phase = p AND state = 'ACTIVE' of both releases:
\* it changes every matching entry and may match none.
Release(entries, phase) ==
  [ i \in DOMAIN entries |->
      IF i \in Active(entries, phase) THEN [entries[i] EXCEPT !.state = "RELEASED"]
                                      ELSE entries[i] ]

AddReservation(l, r) ==
  [l EXCEPT ![r] = Append(@, [ phase      |-> "RESERVE",
                               state      |-> "ACTIVE",
                               hcmVersion |-> NoVersion ])]

ReleaseReservation(l, r) == [l EXCEPT ![r] = Release(@, "RESERVE")]

\* Mutant: the commit entry is added and the hold is kept.
CommitKeepingHold(l, r, hcmVersion) ==
  [l EXCEPT ![r] = Append(@, [ phase      |-> "COMMIT",
                               state      |-> "ACTIVE",
                               hcmVersion |-> hcmVersion ])]

CommitReservation(l, r, hcmVersion) ==
  [l EXCEPT ![r] = Append(Release(@, "RESERVE"),
                          [ phase      |-> "COMMIT",
                            state      |-> "ACTIVE",
                            hcmVersion |-> hcmVersion ])]

ReleaseCommit(l, r) == [l EXCEPT ![r] = Release(@, "COMMIT")]

------------------------------------------------------------------------------

\* The ACTIVE entries of one phase of all the requests on key k.  An entry's
\* amount is its request's days.
\* Mutant: the sums forget the employee and location.
ActiveEntriesOfAnyKey(k, phase) ==
  UNION { { [ id         |-> << r, i >>,
              amount     |-> Days[r],
              hcmVersion |-> ledger[r][i].hcmVersion ] :
            i \in Active(ledger[r], phase) } : r \in Request }

ActiveEntries(k, phase) ==
  UNION { { [ id         |-> << r, i >>,
              amount     |-> Days[r],
              hcmVersion |-> ledger[r][i].hcmVersion ] :
            i \in Active(ledger[r], phase) } :
          r \in { q \in Request : KeyOf[q] = k } }

ComputeComponents(k) ==
  [ hcmBalance       |-> balance[k].hcmBalance,
    reservedOpen     |-> Total(ActiveEntries(k, "RESERVE")),
    committedPending |-> Total(ActiveEntries(k, "COMMIT")) ]

Available(k) == ComputeAvailable(ComputeComponents(k))

\* Mutant: the insert overwrites a row inserted meanwhile.
EnsureBalanceOverwritten(k, row) ==
  /\ balance' = [balance EXCEPT ![k] =
                   [ hcmBalance            |-> row.balance,
                     lastReconciledVersion |-> row.version ]]
  /\ UNCHANGED << status, ledger, outbox, events, drift >>

\* Mutant: the first load starts the watermark at 1 whatever HCM answered.
EnsureBalanceUnversioned(k, row) ==
  /\ ~HasBalance(k)
  /\ balance' = [balance EXCEPT ![k] =
                   [ hcmBalance |-> row.balance, lastReconciledVersion |-> 1 ]]
  /\ UNCHANGED << status, ledger, outbox, events, drift >>

\* ensureBalanceLoaded: the insert, with the row HCM answered some time ago
\* (the read is outside lock and transaction, and a row inserted meanwhile
\* wins: orIgnore).
EnsureBalanceLoaded(k, row) ==
  /\ ~HasBalance(k)
  /\ balance' = [balance EXCEPT ![k] =
                   [ hcmBalance            |-> row.balance,
                     lastReconciledVersion |-> row.version ]]
  /\ UNCHANGED << status, ledger, outbox, events, drift >>

==============================================================================

----------------------------- MODULE BalanceMath -----------------------------
(***************************************************************************)
(* balance-math.ts and reconciliation-math.ts: pure arithmetic on the      *)
(* snapshot of a key and on the ledger entries held against it.            *)
(*                                                                         *)
(* An entry here is a record with an id that tells it from every other     *)
(* one and an amount; a sum of amounts counts the day units the entries    *)
(* stand for, <<id, 1>> .. <<id, amount>>, which needs no recursion and    *)
(* so keeps the sums within reach of the proofs.                           *)
(***************************************************************************)
EXTENDS Integers, FiniteSets

DayUnits(entries) == UNION { {e.id} \X (1 .. e.amount) : e \in entries }

Total(entries) == Cardinality(DayUnits(entries))

------------------------------------------------------------------------------
(* balance-math.ts *)

\* Mutant: committed days stop counting before HCM's snapshot has them.
AvailableIgnoringCommits(c) == c.hcmBalance - c.reservedOpen

\* Never clamped: a negative result is a real over-allocation.
ComputeAvailable(c) == c.hcmBalance - c.reservedOpen - c.committedPending

\* Mutant: the request is checked against HCM's balance alone.
CanReserveUnheld(c, days) == days > 0 /\ days <= c.hcmBalance

CanReserve(c, days) == days > 0 /\ days <= ComputeAvailable(c)

------------------------------------------------------------------------------
(* reconciliation-math.ts *)

\* hcmVersion is null when no acknowledgement stamped the entry; HCM's
\* versions start at 1.
NoVersion == 0

IsStale(in) == in.authoritativeVersion <= in.lastReconciledVersion

\* Mutant: every acknowledged commit is taken to be inside the snapshot.
MatchedWhateverVersion(in) ==
  { e \in in.committedEntries : e.hcmVersion # NoVersion }

\* Mutant: the commit at the snapshot's own version is left out.
MatchedBefore(in) ==
  { e \in in.committedEntries :
      e.hcmVersion # NoVersion /\ e.hcmVersion < in.authoritativeVersion }

\* Commits HCM acknowledged no later than the snapshot are inside it.
Matched(in) ==
  { e \in in.committedEntries :
      e.hcmVersion # NoVersion /\ e.hcmVersion <= in.authoritativeVersion }

\* What the employee sees now, and after the snapshot is accepted.
PreviousAvailable(in) ==
  ComputeAvailable([ hcmBalance       |-> in.currentHcmBalance,
                     reservedOpen     |-> in.reservedOpen,
                     committedPending |-> Total(in.committedEntries) ])

NewAvailable(in) ==
  ComputeAvailable([ hcmBalance       |-> in.authoritativeBalance,
                     reservedOpen     |-> in.reservedOpen,
                     committedPending |-> Total(in.committedEntries \ Matched(in)) ])

\* Classified by what the employee sees, not by the raw HCM movement.
EventType(in) ==
  IF NewAvailable(in) < 0 THEN "OVER_ALLOCATED"
  ELSE IF NewAvailable(in) > PreviousAvailable(in) THEN "BALANCE_INCREASED"
  ELSE IF NewAvailable(in) < PreviousAvailable(in) THEN "BALANCE_DECREASED"
  ELSE "RECONCILED"

Reconcile(in) ==
  IF IsStale(in)
  THEN [ applied                  |-> FALSE,
         matchedCommitIds         |-> {},
         newHcmBalance            |-> in.currentHcmBalance,
         newLastReconciledVersion |-> in.lastReconciledVersion,
         eventType                |-> "RECONCILED" ]
  ELSE [ applied                  |-> TRUE,
         matchedCommitIds         |-> { e.id : e \in Matched(in) },
         newHcmBalance            |-> in.authoritativeBalance,
         newLastReconciledVersion |-> in.authoritativeVersion,
         eventType                |-> EventType(in) ]

==============================================================================

------------------------------- MODULE HcmCore -------------------------------
(***************************************************************************)
(* hcm-core.ts: the external system of record.  Versions of a key count    *)
(* the changes made to it, so a key is modelled by the sequence of its     *)
(* balances: the version is the length, the row is absent while the        *)
(* sequence is empty, and a row that HCM sent at any time in the past is a *)
(* prefix of it.                                                           *)
(***************************************************************************)
EXTENDS Domain

VARIABLES
  hcm,      \* balances HCM has given each key, version 1 first
  applied   \* the ack recorded under each idempotency key `type:request`

hcmVars == << hcm, applied >>

Command == Request \X OutboxType

\* No ack is recorded under this idempotency key.
NoAck == [ version |-> 0, applied |-> FALSE ]

HcmTypeOK ==
  /\ hcm \in [Key -> Seq(Int)]
  /\ applied \in [Command -> [version : Nat, applied : BOOLEAN]]

HcmInit ==
  /\ hcm = [k \in Key |-> << >>]
  /\ applied = [c \in Command |-> NoAck]

Version(k) == Len(hcm[k])

CurrentBalance(k) == hcm[k][Version(k)]

\* The row HCM held at version v, as a webhook, a batch or a read carries it.
RowAt(k, v) == [ balance |-> hcm[k][v], version |-> v ]

\* An unknown key is created with balance 0 on first reference.
Referenced(k) == IF hcm[k] = << >> THEN << 0 >> ELSE hcm[k]

------------------------------------------------------------------------------
(* HCM's own changes *)

\* A balance HCM lowers by itself is a fault of the instance.
MayBecome(k, b) ==
  hcm[k] # << >> /\ "decrease" \notin Faults => b >= CurrentBalance(k)

Seed(k, b) ==
  /\ Version(k) < MaxVersion
  /\ MayBecome(k, b)
  /\ hcm' = [hcm EXCEPT ![k] = Append(@, b)]
  /\ UNCHANGED applied

Adjust(k, delta) ==
  /\ hcm[k] # << >>
  /\ Version(k) < MaxVersion
  /\ MayBecome(k, CurrentBalance(k) + delta)
  /\ hcm' = [hcm EXCEPT ![k] = Append(@, CurrentBalance(k) + delta)]
  /\ UNCHANGED applied

\* A read changes HCM only when it creates the row.
GetBalance(k) ==
  /\ hcm[k] = << >>
  /\ hcm' = [hcm EXCEPT ![k] = Referenced(k)]
  /\ UNCHANGED applied

------------------------------------------------------------------------------
(* applyDelta, one disjunct per way it can end; the faults are toggles an  *)
(* operator may flip between two calls                                     *)

\* Mutant: the command comes with a fresh idempotency key each time.
NeverPrior(c) == FALSE

\* An ack is recorded under the command's idempotency key.
Prior(c) == applied[c] # NoAck

Signed(c) == IF c[2] = "DEBIT" THEN - Days[c[1]] ELSE Days[c[1]]

\* Recording an ack at the present version, with what HCM really did.
Acknowledge(c, history, really) ==
  /\ hcm' = [hcm EXCEPT ![KeyOf[c[1]]] = history]
  /\ applied' = [applied EXCEPT ![c] =
                   [version |-> Len(history), applied |-> really]]

ApplyDelta(c, outcome) ==
  LET k    == KeyOf[c[1]]
      row  == Referenced(k)
      next == row[Len(row)] + Signed(c)
      insufficient == c[2] = "DEBIT" /\ next < 0
  IN \/ \* an idempotent replay returns the recorded ack
        /\ Prior(c)
        /\ outcome = "ack"
        /\ UNCHANGED hcmVars
     \/ \* a transient failure consumes nothing
        /\ ~Prior(c)
        /\ "unavailable" \in Faults
        /\ outcome = "unavailable"
        /\ UNCHANGED hcmVars
     \/ \* the key is rejected before its row is touched
        /\ ~Prior(c)
        /\ "invalidDimensions" \in Faults
        /\ outcome = "rejected"
        /\ UNCHANGED hcmVars
     \/ \* success claimed, balance and version left alone
        /\ ~Prior(c)
        /\ "ghostSuccess" \in Faults
        /\ outcome = "ack"
        /\ Acknowledge(c, row, FALSE)
     \/ \* an authoritative rejection
        /\ ~Prior(c)
        /\ insufficient
        /\ outcome = "rejected"
        /\ hcm' = [hcm EXCEPT ![k] = row]
        /\ UNCHANGED applied
     \/ \* the delta is applied
        /\ ~Prior(c)
        /\ insufficient => "silentOverdraw" \in Faults
        /\ outcome = "ack"
        /\ Acknowledge(c, Append(row, next), TRUE)

==============================================================================

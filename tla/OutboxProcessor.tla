--------------------------- MODULE OutboxProcessor ---------------------------
(***************************************************************************)
(* outbox.processor.ts: one drain at a time claims the due messages and    *)
(* delivers them in order; each delivery is a call to HCM, then one local  *)
(* transaction that applies the outcome.  Everything else may happen       *)
(* between the two, and between one message and the next.                  *)
(*                                                                         *)
(* `batch` is the drain's list of messages still to deliver and `reply`    *)
(* what HCM answered for the first of them; both live in the memory of the *)
(* process, the outbox rows they came from say INFLIGHT.                   *)
(***************************************************************************)
EXTENDS TimeOffService, HcmCore

VARIABLES
  batch,  \* ids claimed by the running drain and not yet settled
  reply,  \* outcome of the call for the current message, "idle" before it
  late    \* commands the client gave up on and HCM has yet to handle

processorVars == << batch, reply, late >>

Outcome == { "ack", "rejected", "unavailable" }

Reply == Outcome \union {"idle"}

ProcessorTypeOK ==
  /\ batch \subseteq DOMAIN outbox
  /\ reply \in Reply
  /\ late \subseteq Command

ProcessorInit ==
  /\ batch = {}
  /\ reply = "idle"
  /\ late = {}

\* The message the loop of drainOnce is at.
IsCurrent(i) == i \in batch /\ \A j \in batch : i <= j

CommandOf(i) == << outbox[i].request, outbox[i].type >>

\* The `draining` flag: a drain starts only when none is running.
ClaimDue ==
  /\ batch = {}
  /\ \E elapsed \in SUBSET DOMAIN outbox :
       /\ elapsed \subseteq { i \in DOMAIN outbox : outbox[i].status = "FAILED" }
       /\ Due(outbox, elapsed) # {}
       /\ batch' = Claimed(outbox, elapsed)
       /\ outbox' = MarkInflight(outbox, batch')
  /\ UNCHANGED << status, balance, ledger, events, drift, hcmVars, reply, late >>

------------------------------------------------------------------------------
(* The call to HCM *)

CallHcm(i) ==
  /\ IsCurrent(i)
  /\ reply = "idle"
  /\ \E outcome \in Outcome :
       ApplyDelta(CommandOf(i), outcome) /\ reply' = outcome
  /\ UNCHANGED << dbVars, batch, late >>

\* An open circuit or a connection refused: HCM never sees the command.
CallRefused(i) ==
  /\ IsCurrent(i)
  /\ reply = "idle"
  /\ "unavailable" \in Faults
  /\ reply' = "unavailable"
  /\ UNCHANGED << dbVars, hcmVars, batch, late >>

\* Mutant: a command that was sent is taken for delivered.
TimeoutIsSuccess(i) ==
  /\ IsCurrent(i)
  /\ reply = "idle"
  /\ "late" \in Faults
  /\ reply' = "ack"
  /\ late' = late \union { CommandOf(i) }
  /\ UNCHANGED << dbVars, hcmVars, batch >>

\* The client aborts at its timeout; the command is still on its way.
CallTimesOut(i) ==
  /\ IsCurrent(i)
  /\ reply = "idle"
  /\ "late" \in Faults
  /\ reply' = "unavailable"
  /\ late' = late \union { CommandOf(i) }
  /\ UNCHANGED << dbVars, hcmVars, batch >>

HcmHandlesLate(c) ==
  /\ c \in late
  /\ \E outcome \in Outcome : ApplyDelta(c, outcome)
  /\ late' = late \ {c}
  /\ UNCHANGED << dbVars, batch, reply >>

\* The answer is lost on the way, or the transaction of applySuccess fails:
\* deliver treats either as a transient failure.
LoseReply(i) ==
  /\ IsCurrent(i)
  /\ "loseReply" \in Faults
  /\ reply \in {"ack", "rejected"}
  /\ reply' = "unavailable"
  /\ UNCHANGED << dbVars, hcmVars, batch, late >>

------------------------------------------------------------------------------
(* The outcome, one transaction each *)

\* The loop moves on to the next message of the batch.
Settle(i) ==
  /\ batch' = batch \ {i}
  /\ reply' = "idle"
  /\ UNCHANGED << hcmVars, late >>

\* Mutant: the commit is written and the status is forgotten.
ApplyDebitUnannounced(i) ==
  LET r   == outbox[i].request
      ack == applied[CommandOf(i)]
  IN /\ outbox[i].type = "DEBIT"
     /\ ledger' = CommitReservation(ledger, r, ack.version)
     /\ drift' = IF ack.applied THEN drift ELSE drift \union {r}
     /\ UNCHANGED status

\* Mutant: drift is recorded only where the status advances.
ApplyDebitDriftIfLegal(i) ==
  LET r   == outbox[i].request
      ack == applied[CommandOf(i)]
  IN /\ outbox[i].type = "DEBIT"
     /\ ledger' = CommitReservation(ledger, r, ack.version)
     /\ status' = [status EXCEPT ![r] = AdvanceIfLegal(@, "HCM_COMMITTED")]
     /\ drift' = IF ack.applied \/ ~CanTransition(status[r], "HCM_COMMITTED")
                 THEN drift ELSE drift \union {r}

\* The commit entry is written whatever the request has become meanwhile;
\* only its status waits for a legal transition.
ApplyDebitSuccess(i) ==
  LET r   == outbox[i].request
      ack == applied[CommandOf(i)]
  IN /\ outbox[i].type = "DEBIT"
     /\ ledger' = CommitReservation(ledger, r, ack.version)
     /\ status' = [status EXCEPT ![r] = AdvanceIfLegal(@, "HCM_COMMITTED")]
     /\ drift' = IF ack.applied THEN drift ELSE drift \union {r}

\* Mutant: the credit is settled and the request is left waiting.
ApplyCreditUnannounced(i) ==
  /\ outbox[i].type = "CREDIT"
  /\ ledger' = ReleaseCommit(ledger, outbox[i].request)
  /\ UNCHANGED << status, drift >>

ApplyCreditSuccess(i) ==
  LET r == outbox[i].request
  IN /\ outbox[i].type = "CREDIT"
     /\ ledger' = ReleaseCommit(ledger, r)
     /\ status' = [status EXCEPT ![r] = AdvanceIfLegal(@, "HCM_CREDIT_DONE")]
     /\ UNCHANGED drift

ApplySuccess(i) ==
  /\ IsCurrent(i)
  /\ reply = "ack"
  /\ ApplyDebitSuccess(i) \/ ApplyCreditSuccess(i)
  /\ outbox' = MarkDone(outbox, i)
  /\ Settle(i)
  /\ UNCHANGED << balance, events >>

\* A rejected credit leaves its request CANCELLATION_PENDING.
ApplyRejection(i) ==
  LET r == outbox[i].request
  IN /\ IsCurrent(i)
     /\ reply = "rejected"
     /\ IF outbox[i].type = "DEBIT"
        THEN /\ ledger' = ReleaseReservation(ledger, r)
             /\ status' = [status EXCEPT ![r] = AdvanceIfLegal(@, "HCM_REJECTED")]
        ELSE UNCHANGED << ledger, status >>
     /\ outbox' = MarkRejected(outbox, i)
     /\ Settle(i)
     /\ UNCHANGED << balance, events, drift >>

ApplyTransientFailure(i) ==
  /\ IsCurrent(i)
  /\ reply = "unavailable"
  /\ outbox' = MarkRetryOrDead(outbox, i)
  /\ Settle(i)
  /\ UNCHANGED << status, balance, ledger, events, drift >>

\* The process dies, or an error leaves deliver (its catch block runs a
\* transaction too) and drainOnce drops the rest of its list.
DrainStops ==
  /\ "crash" \in Faults
  /\ batch # {}
  /\ batch' = {}
  /\ reply' = "idle"
  /\ UNCHANGED << dbVars, hcmVars, late >>

==============================================================================

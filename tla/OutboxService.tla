---------------------------- MODULE OutboxService ----------------------------
(***************************************************************************)
(* outbox.service.ts: the life of an outbox message, as functions from the *)
(* table to the table, composed by the callers' transactions.              *)
(***************************************************************************)
EXTENDS Database

Enqueue(o, r, type) ==
  Append(o, [ request |-> r, type |-> type, status |-> "PENDING",
              attempts |-> 0, lastError |-> "none" ])

\* Mutant: a failed message is never due again.
DueOnce(o, elapsed) == { i \in DOMAIN o : o[i].status = "PENDING" }

\* PENDING, or FAILED with its backoff elapsed.  Time is not modelled: any
\* set of the failed messages may be the due ones.
Due(o, elapsed) ==
  { i \in DOMAIN o : \/ o[i].status = "PENDING"
                     \/ o[i].status = "FAILED" /\ i \in elapsed }

\* The oldest ClaimLimit due messages, in creation order.
Claimed(o, elapsed) ==
  { i \in Due(o, elapsed) :
      Cardinality({ j \in Due(o, elapsed) : j < i }) < ClaimLimit }

MarkInflight(o, ids) ==
  [ i \in DOMAIN o |-> IF i \in ids THEN [o[i] EXCEPT !.status = "INFLIGHT"]
                                    ELSE o[i] ]

MarkDone(o, i) ==
  [o EXCEPT ![i] = [@ EXCEPT !.status = "DONE", !.lastError = "none"]]

\* Mutant: the failure is recorded and the status is left INFLIGHT.
MarkRetryInflight(o, i) ==
  [o EXCEPT ![i] = [@ EXCEPT !.attempts = @ + 1, !.lastError = "transient"]]

\* Mutant: the attempt is not counted.
MarkRetryForever(o, i) ==
  [o EXCEPT ![i] = [@ EXCEPT !.lastError = "transient", !.status = "FAILED"]]

\* One more attempt; the last one parks the message.
MarkRetryOrDead(o, i) ==
  LET attempts == o[i].attempts + 1
  IN [o EXCEPT ![i] =
        [@ EXCEPT !.attempts  = attempts,
                  !.lastError = "transient",
                  !.status    = IF attempts >= MaxAttempts THEN "DEAD"
                                                           ELSE "FAILED"]]

\* Mutant: the cancel also parks a message that is being delivered.
CancelInflightToo(o, r) ==
  [ i \in DOMAIN o |->
      IF o[i].request = r /\ o[i].status \in {"PENDING", "FAILED", "INFLIGHT"}
      THEN [o[i] EXCEPT !.status = "DEAD", !.lastError = "cancelled"]
      ELSE o[i] ]

CancelPendingForRequest(o, r) ==
  [ i \in DOMAIN o |->
      IF o[i].request = r /\ o[i].status \in {"PENDING", "FAILED"}
      THEN [o[i] EXCEPT !.status = "DEAD", !.lastError = "cancelled"]
      ELSE o[i] ]

MarkRejected(o, i) ==
  [o EXCEPT ![i] = [@ EXCEPT !.status = "DEAD", !.lastError = "rejected"]]

==============================================================================

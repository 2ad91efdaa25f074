------------------------------ MODULE SagaProofs ------------------------------
(***************************************************************************)
(* TimeOffSystem implements LeaveSaga, whatever is lost, late, repeated or *)
(* cancelled, and two invariants about messages and acknowledgements.      *)
(*                                                                         *)
(* Every step is, to the saga, one of three things (Effect): nothing, a    *)
(* request moving to its next status, or an acknowledgement by HCM.  The   *)
(* invariant and the refinement are both proved from that.                 *)
(***************************************************************************)
EXTENDS TimeOffProofs, FiniteSetTheorems

------------------------------------------------------------------------------
(* The invariant *)

Sent(r, t) == Messages(r, t) # {}

\* What the messages and the acknowledgements of a request say of its status.
RequestOK(r) ==
  /\ Sent(r, "DEBIT") =>
       status[r] \notin {NoRequest, "DRAFT", "PENDING_APPROVAL"}
  /\ status[r] \in {"APPROVED", "COMMITTED", "CANCELLATION_PENDING"} =>
       Sent(r, "DEBIT")
  /\ Sent(r, "CREDIT") =>
       /\ Acked(Debit(r))
       /\ \/ status[r] = "CANCELLATION_PENDING"
          \/ status[r] = "CANCELLED" /\ Acked(Credit(r))
  /\ status[r] \in Committed => Acked(Debit(r))

\* No two messages ask HCM for the same.
NoDuplicates ==
  \A i, j \in DOMAIN outbox : Alike(outbox[i], outbox[j]) => i = j

\* A command still on its way to HCM was sent by a message.
LateWasSent == \A c \in late : Sent(c[1], c[2])

\* An answer belongs to a delivery, and an acknowledgement is HCM's.
ReplyIsTrue ==
  /\ batch = {} => reply = "idle"
  /\ reply = "ack" => \A i \in batch : IsCurrent(i) => Acked(CommandOf(i))

SagaInv ==
  /\ TypeOK
  /\ NoDuplicates
  /\ LateWasSent
  /\ ReplyIsTrue
  /\ \A r \in Request : RequestOK(r)

------------------------------------------------------------------------------
(* What a step does *)

SentKept(r) == \A t \in OutboxType : Sent(r, t)' = Sent(r, t)

\* A message of one direction appears.
Sends(r, t) ==
  /\ Sent(r, t)'
  /\ \A u \in OutboxType \ {t} : Sent(r, u)' = Sent(r, u)

Becomes(r, from, to) == status[r] = from /\ status'[r] = to

\* The ways a status moves, with what it takes and what it sends.
Moves(r) ==
  \/ /\ SentKept(r)
     /\ \/ Becomes(r, NoRequest, "DRAFT")
        \/ Becomes(r, "DRAFT", "PENDING_APPROVAL")
        \/ Becomes(r, "DRAFT", "CANCELLED")
        \/ Becomes(r, "PENDING_APPROVAL", "REJECTED")
        \/ Becomes(r, "PENDING_APPROVAL", "CANCELLED")
        \/ Becomes(r, "APPROVED", "CANCELLED")
        \/ Becomes(r, "APPROVED", "FAILED")
        \/ Becomes(r, "APPROVED", "COMMITTED") /\ Acked(Debit(r))
        \/ Becomes(r, "CANCELLATION_PENDING", "CANCELLED") /\ Acked(Credit(r))
  \/ Becomes(r, "PENDING_APPROVAL", "APPROVED") /\ Sends(r, "DEBIT")
  \/ Becomes(r, "COMMITTED", "CANCELLATION_PENDING") /\ Sends(r, "CREDIT")

Acks(c) ==
  /\ Sent(c[1], c[2])
  /\ \E a : a # NoAck /\ applied' = [applied EXCEPT ![c] = a]

Effect ==
  \/ UNCHANGED << status, applied >> /\ \A r \in Request : SentKept(r)
  \/ /\ UNCHANGED applied
     /\ \E r \in Request :
          /\ Moves(r)
          /\ \A q \in Request \ {r} : status'[q] = status[q] /\ SentKept(q)
  \/ /\ UNCHANGED status
     /\ \A r \in Request : SentKept(r)
     /\ \E c \in Command : Acks(c)

\* What is left to show of a step once its effect is known.
StepOK == Effect /\ NoDuplicates' /\ LateWasSent' /\ ReplyIsTrue'

------------------------------------------------------------------------------
(* Lemmas about messages *)

\* An update that keeps what messages ask for keeps who has sent what.
LEMMA SameCommandsSent ==
  ASSUME TypeOK, SameCommands(outbox, outbox')
  PROVE  /\ \A r \in Request : SentKept(r)
         /\ \A r, t : Sent(r, t)' = Sent(r, t)
         /\ NoDuplicates => NoDuplicates'
         /\ DOMAIN outbox' = DOMAIN outbox
         /\ \A i \in DOMAIN outbox : CommandOf(i)' = CommandOf(i)
BY DEF SentKept, Sent, Messages, SameCommands, Alike, NoDuplicates, CommandOf

\* A message queued for a direction that has none.
LEMMA EnqueueSent ==
  ASSUME TypeOK, NEW r \in Request, NEW t \in OutboxType, ~Sent(r, t),
         outbox' = Enqueue(outbox, r, t)
  PROVE  /\ Sends(r, t)
         /\ \A q \in Request \ {r} : SentKept(q)
         /\ \A q, u : Sent(q, u) => Sent(q, u)'
         /\ NoDuplicates => NoDuplicates'
         /\ DOMAIN outbox \subseteq DOMAIN outbox'
         /\ \A i \in DOMAIN outbox : CommandOf(i)' = CommandOf(i)
<1> DEFINE n == Len(outbox) + 1
<1>1. /\ outbox \in Seq(OutboxMessage)
      /\ DOMAIN outbox' = DOMAIN outbox \union {n} /\ n \notin DOMAIN outbox
      /\ \A i \in DOMAIN outbox : outbox'[i] = outbox[i]
      /\ outbox'[n].request = r /\ outbox'[n].type = t
  BY EnqueueType DEF TypeOK, DatabaseTypeOK, Enqueue
<1> HIDE DEF n
<1>2. \A q, u : Messages(q, u)' = IF q = r /\ u = t THEN Messages(q, u) \union {n}
                                                   ELSE Messages(q, u)
  BY <1>1 DEF Messages
<1>3. NoDuplicates => NoDuplicates'
  <2> SUFFICES ASSUME NoDuplicates, NEW i \in DOMAIN outbox', NEW j \in DOMAIN outbox',
                      Alike(outbox'[i], outbox'[j])
               PROVE  i = j
    BY DEF NoDuplicates
  <2>1. \A m \in DOMAIN outbox : ~ (outbox[m].request = r /\ outbox[m].type = t)
    BY DEF Sent, Messages
  <2> QED BY <1>1, <2>1 DEF NoDuplicates, Alike
<1> QED BY <1>1, <1>2, <1>3 DEF Sends, SentKept, Sent, CommandOf

\* A message in the batch has been sent, and asks for a command.
LEMMA CurrentCommand ==
  ASSUME TypeOK, NEW i \in batch
  PROVE  /\ i \in DOMAIN outbox
         /\ CommandOf(i) \in Command
         /\ Sent(CommandOf(i)[1], CommandOf(i)[2])
<1>1. i \in DOMAIN outbox /\ outbox[i] \in OutboxMessage
  BY DEF TypeOK, ProcessorTypeOK, DatabaseTypeOK
<1> QED BY <1>1 DEF CommandOf, Command, Sent, Messages, OutboxMessage

\* The drain is at one message.
LEMMA OneCurrent ==
  ASSUME TypeOK, NEW i, NEW j, IsCurrent(i), IsCurrent(j)
  PROVE  i = j
<1>1. i \in Nat /\ j \in Nat /\ i <= j /\ j <= i
  BY DEF TypeOK, ProcessorTypeOK, DatabaseTypeOK, IsCurrent
<1> QED BY <1>1

\* HCM acknowledges nothing, or the command it was given.
LEMMA ApplyDeltaAcks ==
  ASSUME TypeOK, NEW c \in Command, NEW outcome, ApplyDelta(c, outcome)
  PROVE  \/ UNCHANGED applied /\ (outcome = "ack" => Acked(c))
         \/ \E a : a # NoAck /\ applied' = [applied EXCEPT ![c] = a]
<1> DEFINE k == KeyOf[c[1]]
           row == Referenced(k)
<1>1. k \in Key /\ c[1] \in Request
  BY RequestAssumption DEF Command
<1>2. row \in Seq(Int) /\ Len(row) > 0
  BY <1>1 DEF Referenced, TypeOK, HcmTypeOK
<1>3. \A h, really : Len(h) \in Nat /\ Len(h) > 0 =>
        [version |-> Len(h), applied |-> really] # NoAck
  BY DEF NoAck
<1>4. ASSUME NEW h, NEW really, Len(h) \in Nat, Len(h) > 0, Acknowledge(c, h, really)
      PROVE  \E a : a # NoAck /\ applied' = [applied EXCEPT ![c] = a]
  BY <1>3, <1>4 DEF Acknowledge
<1>5. CASE Acknowledge(c, row, FALSE)
  <2> HIDE DEF row
  <2>1. Len(row) \in Nat
    BY <1>2
  <2> QED BY <1>2, <1>4, <1>5, <2>1
<1>6. CASE Acknowledge(c, Append(row, row[Len(row)] + Signed(c)), TRUE)
  <2>1. row[Len(row)] + Signed(c) \in Int
    BY <1>1, <1>2, RequestAssumption DEF Signed
  <2> HIDE DEF row
  <2>2. LET h == Append(row, row[Len(row)] + Signed(c))
        IN  Len(h) \in Nat /\ Len(h) > 0
    BY <1>2, <2>1
  <2> QED BY <1>4, <1>6, <2>2
<1>7. CASE UNCHANGED applied /\ (outcome = "ack" => Acked(c))
  BY <1>7
<1> QED BY <1>5, <1>6, <1>7 DEF ApplyDelta, Prior, Acked, hcmVars

------------------------------------------------------------------------------
(* The effect of every step *)

\* A step that changes no message, no claim and no answer leaves what the
\* drain and the network know as it was.
LEMMA DrainUntouched ==
  ASSUME SagaInv, UNCHANGED processorVars,
         \A r, t : Sent(r, t) => Sent(r, t)',
         \A i \in DOMAIN outbox : CommandOf(i)' = CommandOf(i),
         UNCHANGED applied
  PROVE  LateWasSent' /\ ReplyIsTrue'
<1>1. LateWasSent'
  BY DEF SagaInv, LateWasSent, processorVars
<1>2. \A i : IsCurrent(i)' = IsCurrent(i)
  BY DEF IsCurrent, processorVars
<1>3. batch \subseteq DOMAIN outbox
  BY DEF SagaInv, TypeOK, ProcessorTypeOK
<1>4. ASSUME NEW i \in batch, reply = "ack", IsCurrent(i)
      PROVE  Acked(CommandOf(i))'
  <2>1. CommandOf(i)' = CommandOf(i) /\ Acked(CommandOf(i))
    BY <1>3, <1>4 DEF SagaInv, ReplyIsTrue
  <2> QED BY <2>1 DEF Acked
<1>5. ReplyIsTrue'
  BY <1>2, <1>4 DEF SagaInv, ReplyIsTrue, processorVars, Acked
<1> QED BY <1>1, <1>5

\* The endpoints.
LEMMA LifecycleEffect ==
  ASSUME SagaInv, NEW r \in Request, Lifecycle(r)
  PROVE  StepOK
<1>0. /\ UNCHANGED processorVars /\ UNCHANGED applied
      /\ TypeOK /\ NoDuplicates /\ RequestOK(r)
      /\ status \in [Request -> RequestStatus \union {NoRequest}]
      /\ outbox \in Seq(OutboxMessage)
  BY DEF Lifecycle, hcmVars, SagaInv, TypeOK, DatabaseTypeOK
<1>1. ASSUME SameCommands(outbox, outbox'), Moves(r),
             \A q \in Request \ {r} : status'[q] = status[q]
      PROVE  StepOK
  BY <1>0, <1>1, SameCommandsSent, DrainUntouched DEF StepOK, Effect
<1>2. ASSUME NEW t \in OutboxType, ~Sent(r, t), outbox' = Enqueue(outbox, r, t),
             Sends(r, t) => Moves(r),
             \A q \in Request \ {r} : status'[q] = status[q]
      PROVE  StepOK
  BY <1>0, <1>2, EnqueueSent, DrainUntouched DEF StepOK, Effect
<1>3. UNCHANGED outbox => SameCommands(outbox, outbox')
  BY DEF SameCommands, Alike
<1>4. SameCommands(outbox, outbox') => SentKept(r)
  BY <1>0, SameCommandsSent
<1>5. CASE Create(r)
  <2>1. Becomes(r, NoRequest, "DRAFT")
    BY <1>0, <1>5 DEF Create, Becomes
  <2> QED BY <1>0, <1>1, <1>3, <1>4, <1>5, <2>1 DEF Create, Moves
<1>6. CASE Submit(r)
  <2>1. Becomes(r, "DRAFT", "PENDING_APPROVAL")
    BY <1>0, <1>6, SubmitTransition DEF Submit, Becomes
  <2> QED BY <1>0, <1>1, <1>3, <1>4, <1>6, <2>1 DEF Submit, Moves
<1>7. CASE Approve(r)
  <2>1. Becomes(r, "PENDING_APPROVAL", "APPROVED")
    BY <1>0, <1>7, ApproveTransition DEF Approve, Becomes
  <2>2. ~Sent(r, "DEBIT") /\ "DEBIT" \in OutboxType
    BY <1>0, <2>1 DEF RequestOK, Becomes, OutboxType
  <2>3. \A q \in Request \ {r} : status'[q] = status[q]
    BY <1>0, <1>7 DEF Approve
  <2> QED BY <1>2, <1>7, <2>1, <2>2, <2>3 DEF Approve, Moves
<1>8. CASE Reject(r)
  <2>1. Becomes(r, "PENDING_APPROVAL", "REJECTED")
    BY <1>0, <1>8, RejectTransition DEF Reject, Becomes
  <2> QED BY <1>0, <1>1, <1>3, <1>4, <1>8, <2>1 DEF Reject, Moves
<1>9. CASE Cancel(r)
  <2>0. \A q \in Request \ {r} : status'[q] = status[q]
    BY <1>0, <1>9 DEF Cancel
  <2>1. CASE CancelCommitted(r)
    <3>1. Becomes(r, "COMMITTED", "CANCELLATION_PENDING")
      BY <1>0, <1>9, <2>1, CancelTransition DEF Cancel, CancelCommitted, Becomes
    <3>2. ~Sent(r, "CREDIT") /\ "CREDIT" \in OutboxType
      BY <1>0, <3>1 DEF RequestOK, Becomes, OutboxType
    <3> QED BY <1>2, <2>0, <2>1, <3>1, <3>2 DEF CancelCommitted, Moves
  <2>2. CASE CancelBeforeCommit(r)
    <3>1. \/ Becomes(r, "DRAFT", "CANCELLED")
          \/ Becomes(r, "PENDING_APPROVAL", "CANCELLED")
          \/ Becomes(r, "APPROVED", "CANCELLED")
      BY <1>0, <1>9, <2>2, CancelTransition DEF Cancel, CancelBeforeCommit, Becomes
    <3>2. SameCommands(outbox, outbox')
      BY <1>0, <1>3, <2>2, CancelPendingType DEF CancelBeforeCommit
    <3> QED BY <1>1, <1>4, <2>0, <3>1, <3>2 DEF Moves
  <2> QED BY <1>9, <2>1, <2>2 DEF Cancel
<1> QED BY <1>5, <1>6, <1>7, <1>8, <1>9 DEF Lifecycle

\* HCM's own changes, snapshots and a drain that stops: nothing to the saga.
LEMMA OtherEffect ==
  ASSUME SagaInv,
         \/ \E k \in Key : HcmMoves(k) \/ SnapshotArrives(k)
         \/ DrainStops
  PROVE  StepOK
<1>0. TypeOK
  BY DEF SagaInv
<1>1. UNCHANGED << status, outbox, applied >>
  BY DEF HcmMoves, SnapshotArrives, DrainStops, Seed, Adjust, GetBalance,
         EnsureBalanceLoaded, ReconcileKey, dbVars, hcmVars
<1>2. SameCommands(outbox, outbox')
  BY <1>1 DEF SameCommands, Alike
<1>3. Effect /\ NoDuplicates'
  BY <1>0, <1>1, <1>2, SameCommandsSent DEF Effect, SagaInv
<1>4. CASE UNCHANGED processorVars
  BY <1>0, <1>1, <1>2, <1>3, <1>4, SameCommandsSent, DrainUntouched DEF StepOK
<1>5. CASE DrainStops
  <2>1. LateWasSent' /\ ReplyIsTrue'
    BY <1>0, <1>2, <1>5, SameCommandsSent
       DEF DrainStops, SagaInv, LateWasSent, ReplyIsTrue
  <2> QED BY <1>3, <2>1 DEF StepOK
<1> QED BY <1>4, <1>5 DEF HcmMoves, SnapshotArrives

\* A claim starts a batch whose first message has no answer yet.
LEMMA ClaimEffect ==
  ASSUME SagaInv, ClaimDue
  PROVE  StepOK
<1>0. TypeOK /\ outbox \in Seq(OutboxMessage)
  BY DEF SagaInv, TypeOK, DatabaseTypeOK
<1>1. UNCHANGED << status, applied, reply, late >> /\ reply = "idle"
  BY DEF ClaimDue, hcmVars, SagaInv, ReplyIsTrue
<1>2. SameCommands(outbox, outbox')
  BY <1>0, MarkInflightType DEF ClaimDue
<1>3. Effect /\ NoDuplicates' /\ LateWasSent' /\ ReplyIsTrue'
  BY <1>0, <1>1, <1>2, SameCommandsSent
     DEF Effect, SagaInv, LateWasSent, ReplyIsTrue
<1> QED BY <1>3 DEF StepOK

\* A command reaches HCM, from a delivery or late.
LEMMA ApplyDeltaEffect ==
  ASSUME SagaInv, NEW c \in Command, NEW outcome, ApplyDelta(c, outcome),
         Sent(c[1], c[2]), UNCHANGED dbVars, UNCHANGED batch
  PROVE  /\ Effect
         /\ NoDuplicates'
         /\ outcome = "ack" => Acked(c)'
         /\ \A d \in Command : Acked(d) => Acked(d)'
         /\ \A i \in DOMAIN outbox : CommandOf(i)' = CommandOf(i)
         /\ \A r, t : Sent(r, t)' = Sent(r, t)
         /\ \A i : IsCurrent(i)' = IsCurrent(i)
<1>0. TypeOK /\ applied \in [Command -> [version : Nat, applied : BOOLEAN]]
  BY DEF SagaInv, TypeOK, HcmTypeOK
<1>1. SameCommands(outbox, outbox') /\ UNCHANGED status
  BY DEF SameCommands, Alike, dbVars
<1>2. \/ UNCHANGED applied /\ (outcome = "ack" => Acked(c))
      \/ \E a : a # NoAck /\ applied' = [applied EXCEPT ![c] = a]
  BY <1>0, ApplyDeltaAcks
<1>3. /\ outcome = "ack" => Acked(c)'
      /\ \A d \in Command : Acked(d) => Acked(d)'
  BY <1>0, <1>2 DEF Acked
<1>4. Effect
  BY <1>0, <1>1, <1>2, SameCommandsSent DEF Effect, Acks
<1>5. \A i : IsCurrent(i)' = IsCurrent(i)
  BY DEF IsCurrent
<1> QED BY <1>0, <1>1, <1>3, <1>4, <1>5, SameCommandsSent DEF SagaInv

\* The ways a call can end.
LEMMA CallEffect ==
  ASSUME SagaInv, NEW i \in DOMAIN outbox,
         \/ CallHcm(i) \/ CallRefused(i) \/ CallTimesOut(i) \/ LoseReply(i)
  PROVE  StepOK
<1>0. TypeOK /\ IsCurrent(i) /\ i \in batch
  BY DEF SagaInv, CallHcm, CallRefused, CallTimesOut, LoseReply, IsCurrent
<1>1. CommandOf(i) \in Command /\ Sent(CommandOf(i)[1], CommandOf(i)[2])
  BY <1>0, CurrentCommand
<1>2. UNCHANGED << dbVars, batch >>
  BY DEF CallHcm, CallRefused, CallTimesOut, LoseReply
<1>3. CASE CallHcm(i)
  <2>1. PICK outcome \in Outcome : ApplyDelta(CommandOf(i), outcome) /\ reply' = outcome
    BY <1>3 DEF CallHcm
  <2>2. /\ Effect /\ NoDuplicates'
        /\ outcome = "ack" => Acked(CommandOf(i))'
        /\ CommandOf(i)' = CommandOf(i)
        /\ \A r, t : Sent(r, t)' = Sent(r, t)
        /\ \A j : IsCurrent(j)' = IsCurrent(j)
    <3> HIDE DEF CommandOf
    <3>1. /\ Effect /\ NoDuplicates'
          /\ outcome = "ack" => Acked(CommandOf(i))'
      <4> DEFINE c == CommandOf(i)
      <4>1. CommandOf(i)' = CommandOf(i)
        BY <1>2 DEF CommandOf, dbVars
      <4>2. /\ Effect /\ NoDuplicates'
            /\ outcome = "ack" => applied'[c] # NoAck
        BY <1>1, <1>2, <2>1, ApplyDeltaEffect DEF Acked
      <4> QED BY <4>1, <4>2 DEF Acked
    <3> QED BY <1>1, <1>2, <2>1, <3>1, ApplyDeltaEffect
  <2>3. LateWasSent'
    BY <1>3, <2>2 DEF CallHcm, SagaInv, LateWasSent
  <2>4. ReplyIsTrue'
    BY <1>0, <1>2, <2>1, <2>2, OneCurrent DEF ReplyIsTrue
  <2> QED BY <2>2, <2>3, <2>4 DEF StepOK
<1>4. CASE CallRefused(i) \/ CallTimesOut(i) \/ LoseReply(i)
  <2>1. SameCommands(outbox, outbox')
    BY <1>2 DEF SameCommands, Alike, dbVars
  <2>2. UNCHANGED << status, applied >> /\ reply' = "unavailable"
        /\ late' \subseteq late \union {CommandOf(i)}
    BY <1>4 DEF CallRefused, CallTimesOut, LoseReply, dbVars, hcmVars
  <2>3. Effect /\ NoDuplicates' /\ (\A r, t : Sent(r, t)' = Sent(r, t))
    BY <1>0, <2>1, <2>2, SameCommandsSent DEF Effect, SagaInv
  <2>4. LateWasSent'
    BY <1>1, <2>2, <2>3 DEF SagaInv, LateWasSent
  <2>5. ReplyIsTrue'
    BY <1>0, <1>2, <2>2 DEF ReplyIsTrue
  <2> QED BY <2>3, <2>4, <2>5 DEF StepOK
<1> QED BY <1>3, <1>4

\* A command whose caller gave up reaches HCM.
LEMMA LateEffect ==
  ASSUME SagaInv, NEW c \in Command, HcmHandlesLate(c)
  PROVE  StepOK
<1>1. /\ UNCHANGED << dbVars, batch, reply >> /\ late' = late \ {c}
      /\ Sent(c[1], c[2])
  BY DEF HcmHandlesLate, SagaInv, LateWasSent
<1>2. PICK outcome \in Outcome : ApplyDelta(c, outcome)
  BY DEF HcmHandlesLate
<1>3. /\ Effect /\ NoDuplicates'
      /\ \A d \in Command : Acked(d) => Acked(d)'
      /\ \A i \in DOMAIN outbox : CommandOf(i)' = CommandOf(i)
      /\ \A r, t : Sent(r, t)' = Sent(r, t)
      /\ \A i : IsCurrent(i)' = IsCurrent(i)
  BY <1>1, <1>2, ApplyDeltaEffect
<1>4. LateWasSent'
  BY <1>1, <1>3 DEF SagaInv, LateWasSent
<1>5. ASSUME NEW i \in batch, reply = "ack", IsCurrent(i)
      PROVE  Acked(CommandOf(i))'
  <2> DEFINE d == CommandOf(i)
  <2>1. Acked(d) /\ d \in Command /\ i \in DOMAIN outbox
    BY <1>5, CurrentCommand DEF SagaInv, ReplyIsTrue
  <2>2. CommandOf(i)' = CommandOf(i)
    BY <1>3, <2>1
  <2>3. applied'[d] # NoAck
    <3> HIDE DEF d
    <3> QED BY <1>3, <2>1 DEF Acked
  <2> QED BY <2>2, <2>3 DEF Acked
<1>6. ReplyIsTrue'
  BY <1>1, <1>3, <1>5 DEF SagaInv, ReplyIsTrue
<1> QED BY <1>3, <1>4, <1>6 DEF StepOK

\* The outcome of a delivery.
LEMMA OutcomeEffect ==
  ASSUME SagaInv, NEW i \in DOMAIN outbox,
         \/ ApplySuccess(i) \/ ApplyRejection(i) \/ ApplyTransientFailure(i)
  PROVE  StepOK
<1> DEFINE r == outbox[i].request
<1>0. /\ TypeOK /\ IsCurrent(i) /\ i \in batch
      /\ outbox \in Seq(OutboxMessage) /\ r \in Request
      /\ status \in [Request -> RequestStatus \union {NoRequest}]
      /\ RequestOK(r)
  <2>1. IsCurrent(i)
    BY DEF ApplySuccess, ApplyRejection, ApplyTransientFailure
  <2>2. TypeOK /\ outbox \in Seq(OutboxMessage)
        /\ status \in [Request -> RequestStatus \union {NoRequest}]
    BY DEF SagaInv, TypeOK, DatabaseTypeOK
  <2>3. outbox[i] \in OutboxMessage
    BY <2>2
  <2>4. r \in Request
    BY <2>3 DEF OutboxMessage
  <2> QED BY <2>1, <2>2, <2>4 DEF SagaInv, IsCurrent
<1>1. /\ SameCommands(outbox, outbox')
      /\ reply' = "idle" /\ UNCHANGED << late, applied >>
  BY <1>0, OutcomeType
     DEF ApplySuccess, ApplyRejection, ApplyTransientFailure, Settle, hcmVars
<1>2. /\ NoDuplicates' /\ LateWasSent' /\ ReplyIsTrue'
      /\ \A q \in Request : SentKept(q)
  BY <1>0, <1>1, SameCommandsSent DEF SagaInv, LateWasSent, ReplyIsTrue
<1>3. outbox[i].type = "DEBIT" => Sent(r, "DEBIT") /\ CommandOf(i) = Debit(r)
  BY DEF Sent, Messages, CommandOf, Debit
<1>4. outbox[i].type = "CREDIT" => Sent(r, "CREDIT") /\ CommandOf(i) = Credit(r)
  BY DEF Sent, Messages, CommandOf, Credit
<1> HIDE DEF r
<1>5. ASSUME UNCHANGED status \/ (/\ Moves(r)
                                 /\ \A q \in Request \ {r} : status'[q] = status[q])
      PROVE  StepOK
  BY <1>0, <1>1, <1>2, <1>5 DEF StepOK, Effect
<1>6. CASE ApplySuccess(i)
  <2>1. Acked(CommandOf(i))
    BY <1>0, <1>6 DEF ApplySuccess, SagaInv, ReplyIsTrue
  <2>2. CASE ApplyDebitSuccess(i)
    <3>1. /\ status' = [status EXCEPT ![r] = IF status[r] = "APPROVED" THEN "COMMITTED"
                                             ELSE status[r]]
          /\ Acked(Debit(r))
      BY <1>3, <2>1, <2>2, OutcomeTransitions DEF ApplyDebitSuccess, r
    <3> QED BY <1>0, <1>2, <1>5, <3>1 DEF Moves, Becomes
  <2>3. CASE ApplyCreditSuccess(i)
    <3>1. /\ status' = [status EXCEPT ![r] = IF status[r] = "CANCELLATION_PENDING"
                                             THEN "CANCELLED" ELSE status[r]]
          /\ Acked(Credit(r))
      BY <1>4, <2>1, <2>3, OutcomeTransitions DEF ApplyCreditSuccess, r
    <3> QED BY <1>0, <1>2, <1>5, <3>1 DEF Moves, Becomes
  <2> QED BY <1>6, <2>2, <2>3 DEF ApplySuccess
<1>7. CASE ApplyRejection(i)
  <2>1. \/ UNCHANGED status
        \/ status' = [status EXCEPT ![r] = IF status[r] = "APPROVED" THEN "FAILED"
                                           ELSE status[r]]
    BY <1>7, OutcomeTransitions DEF ApplyRejection, r
  <2> QED BY <1>0, <1>2, <1>5, <2>1 DEF Moves, Becomes
<1>8. CASE ApplyTransientFailure(i)
  BY <1>5, <1>8 DEF ApplyTransientFailure
<1> QED BY <1>6, <1>7, <1>8

\* Every step of the system is one of the effects.
LEMMA NextEffect ==
  ASSUME SagaInv, Next
  PROVE  StepOK
BY LifecycleEffect, OtherEffect, ClaimEffect, CallEffect, LateEffect, OutcomeEffect
   DEF Next, Deliver

------------------------------------------------------------------------------
(* The invariant is kept *)

\* A request whose status, messages and acknowledgements stay is as it was.
LEMMA RequestFrame ==
  ASSUME NEW r \in Request, RequestOK(r), status'[r] = status[r], SentKept(r),
         \A t \in OutboxType : Acked(<< r, t >>) => Acked(<< r, t >>)'
  PROVE  RequestOK(r)'
BY DEF RequestOK, SentKept, OutboxType, Debit, Credit

\* A status that moves agrees with what was sent and acknowledged.
LEMMA RequestMoves ==
  ASSUME NEW r \in Request, RequestOK(r), Moves(r), UNCHANGED applied
  PROVE  RequestOK(r)'
<1>1. \A c : Acked(c)' = Acked(c)
  BY DEF Acked
<1>2. CASE SentKept(r) /\ ~Sent(r, "CREDIT")
  BY <1>1, <1>2
     DEF Moves, Becomes, Sends, RequestOK, SentKept, OutboxType, NoRequest, Committed
<1>3. CASE SentKept(r) /\ Sent(r, "CREDIT")
  BY <1>1, <1>3
     DEF Moves, Becomes, Sends, RequestOK, SentKept, OutboxType, NoRequest, Committed
<1>4. CASE Becomes(r, "PENDING_APPROVAL", "APPROVED") /\ Sends(r, "DEBIT")
  BY <1>1, <1>4 DEF Becomes, Sends, RequestOK, OutboxType, NoRequest, Committed
<1>5. CASE Becomes(r, "COMMITTED", "CANCELLATION_PENDING") /\ Sends(r, "CREDIT")
  BY <1>1, <1>5 DEF Becomes, Sends, RequestOK, OutboxType, NoRequest, Committed
<1> QED BY <1>2, <1>3, <1>4, <1>5 DEF Moves

\* An effect leaves every request with the evidence its status needs.
LEMMA EffectKeepsRequests ==
  ASSUME SagaInv, Effect, NEW r \in Request
  PROVE  RequestOK(r)'
<1>0. RequestOK(r) /\ applied \in [Command -> [version : Nat, applied : BOOLEAN]]
  BY DEF SagaInv, TypeOK, HcmTypeOK
<1>1. \A t \in OutboxType : << r, t >> \in Command
  BY DEF Command
<1>2. CASE UNCHANGED << status, applied >> /\ \A q \in Request : SentKept(q)
  BY <1>0, <1>2, RequestFrame DEF Acked
<1>3. ASSUME UNCHANGED applied, NEW q \in Request, Moves(q),
             \A p \in Request \ {q} : status'[p] = status[p] /\ SentKept(p)
      PROVE  RequestOK(r)'
  <2>1. CASE r = q
    BY <1>0, <1>3, <2>1, RequestMoves
  <2>2. CASE r # q
    BY <1>0, <1>3, <2>2, RequestFrame DEF Acked
  <2> QED BY <2>1, <2>2
<1>4. ASSUME UNCHANGED status, \A q \in Request : SentKept(q), NEW c \in Command, Acks(c)
      PROVE  RequestOK(r)'
  <2>1. \A t \in OutboxType : Acked(<< r, t >>) => Acked(<< r, t >>)'
    BY <1>0, <1>1, <1>4 DEF Acks, Acked
  <2> QED BY <1>0, <1>4, <2>1, RequestFrame
<1> QED BY <1>2, <1>3, <1>4 DEF Effect

\* The empty tables and an HCM without acknowledgements satisfy it.
LEMMA SagaInitInv ==
  ASSUME Init
  PROVE  SagaInv
<1>1. TypeOK
  BY InitType
<1>2. outbox = << >> /\ late = {} /\ batch = {} /\ reply = "idle"
      /\ \A r \in Request : status[r] = NoRequest
  BY DEF Init, DatabaseInit, ProcessorInit
<1>3. \A r, t : ~Sent(r, t)
  BY <1>2 DEF Sent, Messages
<1>4. \A r \in Request : RequestOK(r)
  BY <1>2, <1>3 DEF RequestOK, NoRequest, Committed
<1> QED BY <1>1, <1>2, <1>4 DEF SagaInv, NoDuplicates, LateWasSent, ReplyIsTrue

\* SagaInv is inductive.
LEMMA SagaInvariant == Spec => []SagaInv
<1>1. Init => SagaInv
  BY SagaInitInv
<1>2. SagaInv /\ TypeOK' /\ [Next]_vars => SagaInv'
  <2> SUFFICES ASSUME SagaInv, TypeOK', [Next]_vars
               PROVE  SagaInv'
    OBVIOUS
  <2>1. CASE Next
    BY <2>1, NextEffect, EffectKeepsRequests DEF SagaInv, StepOK
  <2>2. CASE UNCHANGED vars
    <3>1. UNCHANGED << status, outbox, applied, batch, reply, late >>
      BY <2>2 DEF vars, dbVars, hcmVars, processorVars
    <3>2. \A r \in Request : RequestOK(r)'
      BY <3>1 DEF SagaInv, RequestOK, Sent, Messages, Acked, Debit, Credit
    <3> QED BY <3>1, <3>2
            DEF SagaInv, NoDuplicates, LateWasSent, ReplyIsTrue, Sent, Messages,
                Acked, IsCurrent, CommandOf
  <2> QED BY <2>1, <2>2
<1> QED BY <1>1, <1>2, TypeCorrect, PTL DEF Spec

------------------------------------------------------------------------------
(* The refinement *)

\* The stage of a request nothing happened to.
LEMMA StageKept ==
  ASSUME NEW r \in Request, status'[r] = status[r], SentKept(r)
  PROVE  SagaStage'[r] = SagaStage[r]
BY DEF SagaStage, SentKept, Sent, OutboxType

\* Where the stage of a request goes when its status moves.
LEMMA StageMoves ==
  ASSUME NEW r \in Request, Moves(r), RequestOK(r)
  PROVE  \/ SagaStage'[r] = SagaStage[r]
         \/ SagaStage[r] = "new" /\ SagaStage'[r] \in {"asked", "dropped"}
         \/ SagaStage[r] = "asked" /\ SagaStage'[r] \in {"promised", "dropped"}
         \/ SagaStage[r] = "promised" /\ SagaStage'[r] = "ended"
         \/ SagaStage[r] = "promised" /\ SagaStage'[r] = "confirmed" /\ Acked(Debit(r))
         \/ SagaStage[r] = "confirmed" /\ SagaStage'[r] = "returning"
         \/ SagaStage[r] = "returning" /\ SagaStage'[r] = "ended" /\ Acked(Credit(r))
<1>1. /\ SagaStage[r] = StageOf(status[r], Sent(r, "DEBIT"))
      /\ SagaStage'[r] = StageOf(status'[r], Sent(r, "DEBIT")')
  BY DEF SagaStage, Sent
<1>2. CASE SentKept(r)
  <2>1. Sent(r, "DEBIT")' = Sent(r, "DEBIT")
    BY <1>2 DEF SentKept, OutboxType
  <2>2. CASE Sent(r, "DEBIT")
    BY <1>1, <2>1, <2>2 DEF Moves, Becomes, RequestOK, StageOf, NoRequest
  <2>3. CASE ~Sent(r, "DEBIT")
    BY <1>1, <2>1, <2>3 DEF Moves, Becomes, RequestOK, StageOf, NoRequest
  <2> QED BY <2>2, <2>3
<1>3. CASE Becomes(r, "PENDING_APPROVAL", "APPROVED")
  BY <1>1, <1>3 DEF Becomes, StageOf, NoRequest
<1>4. CASE Becomes(r, "COMMITTED", "CANCELLATION_PENDING")
  BY <1>1, <1>4 DEF Becomes, StageOf, NoRequest
<1> QED BY <1>2, <1>3, <1>4 DEF Moves

\* An effect is a step of the saga or none.
LEMMA EffectRefines ==
  ASSUME SagaInv, Effect
  PROVE  [Saga!Next]_(Saga!vars)
<1>0. /\ \A r \in Request : RequestOK(r)
      /\ applied \in [Command -> [version : Nat, applied : BOOLEAN]]
      /\ \A r \in Request : Debit(r) \in Command /\ Credit(r) \in Command
  BY DEF SagaInv, TypeOK, HcmTypeOK, Debit, Credit, Command, OutboxType
<1>1. SagaStage = [r \in Request |-> SagaStage[r]]
      /\ SagaStage' = [r \in Request |-> SagaStage'[r]]
  BY DEF SagaStage
<1>2. ASSUME UNCHANGED applied
      PROVE  UNCHANGED << SagaTaken, SagaReturned >>
  BY <1>2 DEF SagaTaken, SagaReturned, Acked
<1>3. CASE UNCHANGED << status, applied >> /\ \A r \in Request : SentKept(r)
  <2>1. SagaStage' = SagaStage
    BY <1>1, <1>3, StageKept
  <2> QED BY <1>2, <1>3, <2>1 DEF Saga!vars
<1>4. ASSUME UNCHANGED applied, NEW r \in Request, Moves(r),
             \A q \in Request \ {r} : status'[q] = status[q] /\ SentKept(q)
      PROVE  [Saga!Next]_(Saga!vars)
  <2>1. \A q \in Request \ {r} : SagaStage'[q] = SagaStage[q]
    BY <1>4, StageKept
  <2>2. \A to : SagaStage'[r] = to => SagaStage' = [SagaStage EXCEPT ![r] = to]
    BY <1>1, <2>1
  <2>3. UNCHANGED << SagaTaken, SagaReturned >>
    BY <1>2, <1>4
  <2>4. Acked(Debit(r)) => r \in SagaTaken
    BY DEF SagaTaken
  <2>5. Acked(Credit(r)) => r \in SagaReturned
    BY DEF SagaReturned
  <2>6. SagaStage'[r] = SagaStage[r] => SagaStage' = SagaStage
    BY <1>1, <2>1
  <2> QED BY <1>0, <1>4, <2>2, <2>3, <2>4, <2>5, <2>6, StageMoves
          DEF Saga!Next, Saga!vars, Saga!Move, Saga!Ask, Saga!Promise, Saga!Drop,
              Saga!Break, Saga!Confirm, Saga!AskBack, Saga!Complete
<1>5. ASSUME UNCHANGED status, \A r \in Request : SentKept(r),
             NEW c \in Command, Acks(c)
      PROVE  [Saga!Next]_(Saga!vars)
  <2>1. SagaStage' = SagaStage
    BY <1>1, <1>5, StageKept
  <2>2. PICK r \in Request, t \in OutboxType : c = << r, t >>
    BY DEF Command
  <2>3. Sent(r, t) /\ Acked(c)' /\ \A d \in Command \ {c} : Acked(d)' = Acked(d)
    BY <1>0, <1>5, <2>2 DEF Acks, Acked
  <2>4. CASE t = "DEBIT"
    <3>1. /\ SagaReturned' = SagaReturned
          /\ SagaTaken' = SagaTaken \union {r}
      BY <1>0, <2>2, <2>3, <2>4 DEF SagaReturned, SagaTaken, Debit, Credit
    <3>2. r \in SagaTaken \/ SagaStage[r] \in {"promised", "ended"}
      BY <1>0, <2>3, <2>4
         DEF RequestOK, SagaStage, SagaTaken, StageOf, Sent, NoRequest, Committed
    <3> QED BY <2>1, <3>1, <3>2 DEF Saga!Next, Saga!Take, Saga!vars
  <2>5. CASE t = "CREDIT"
    <3>1. /\ SagaTaken' = SagaTaken
          /\ SagaReturned' = SagaReturned \union {r}
      BY <1>0, <2>2, <2>3, <2>5 DEF SagaReturned, SagaTaken, Debit, Credit
    <3>2. r \in SagaReturned \/ SagaStage[r] = "returning"
      BY <1>0, <2>3, <2>5
         DEF RequestOK, SagaStage, SagaReturned, StageOf, NoRequest
    <3> QED BY <2>1, <3>1, <3>2 DEF Saga!Next, Saga!Return, Saga!vars
  <2> QED BY <2>4, <2>5 DEF OutboxType
<1> QED BY <1>3, <1>4, <1>5 DEF Effect

\* The service is the saga: HCM takes the days of a request once and only
\* after an approval, and the service confirms and completes nothing that HCM
\* has not acknowledged, for any number of requests and under every fault.
THEOREM SystemIsSaga == Spec => ImplementsSaga
<1>1. Init => Saga!Init
  <2> SUFFICES ASSUME Init PROVE Saga!Init
    OBVIOUS
  <2>1. /\ \A r \in Request : status[r] = NoRequest
        /\ applied = [c \in Command |-> NoAck]
        /\ \A r \in Request : Debit(r) \in Command /\ Credit(r) \in Command
    BY DEF Init, DatabaseInit, HcmInit, Debit, Credit, Command, OutboxType
  <2>2. SagaStage = [r \in Request |-> "new"]
    BY <2>1 DEF SagaStage, StageOf, NoRequest
  <2>3. SagaTaken = {} /\ SagaReturned = {}
    BY <2>1 DEF SagaTaken, SagaReturned, Acked
  <2> QED BY <2>2, <2>3 DEF Saga!Init
<1>2. SagaInv /\ [Next]_vars => [Saga!Next]_(Saga!vars)
  <2> SUFFICES ASSUME SagaInv, [Next]_vars
               PROVE  [Saga!Next]_(Saga!vars)
    OBVIOUS
  <2>1. CASE Next
    BY <2>1, NextEffect, EffectRefines DEF StepOK
  <2>2. CASE UNCHANGED vars
    <3>1. UNCHANGED << status, outbox, applied >>
      BY <2>2 DEF vars, dbVars, hcmVars
    <3> QED BY <3>1 DEF Saga!vars, SagaStage, SagaTaken, SagaReturned, Messages, Acked,
                        Debit, Credit
  <2> QED BY <2>1, <2>2
<1> QED BY <1>1, <1>2, SagaInvariant, PTL DEF Spec, ImplementsSaga, Saga!Spec

------------------------------------------------------------------------------
(* Messages and acknowledgements *)

\* One message per direction, and no COMMITTED status and no credit without
\* HCM's acknowledgement of the debit.
THEOREM CommitsAreAcked == Spec => []AckedBeforeCommitted
<1>1. SagaInv => AckedBeforeCommitted
  <2> SUFFICES ASSUME SagaInv, NEW r \in Request
               PROVE  /\ \A t \in OutboxType : Cardinality(Messages(r, t)) <= 1
                      /\ status[r] \in Committed \/ Messages(r, "CREDIT") # {}
                           => Acked(Debit(r))
    BY DEF AckedBeforeCommitted
  <2>1. \A t \in OutboxType : Cardinality(Messages(r, t)) <= 1
    <3> SUFFICES ASSUME NEW t \in OutboxType
                 PROVE  Cardinality(Messages(r, t)) <= 1
      OBVIOUS
    <3>1. \A i, j \in Messages(r, t) : i = j
      BY DEF SagaInv, NoDuplicates, Alike, Messages
    <3>2. CASE Messages(r, t) = {}
      BY <3>2, FS_EmptySet
    <3>3. CASE Messages(r, t) # {}
      <4>1. PICK i : Messages(r, t) = {i}
        BY <3>1, <3>3
      <4> QED BY <4>1, FS_Singleton
    <3> QED BY <3>2, <3>3
  <2>2. RequestOK(r)
    BY DEF SagaInv
  <2> QED BY <2>1, <2>2 DEF RequestOK, Sent
<1> QED BY <1>1, SagaInvariant, PTL

==============================================================================

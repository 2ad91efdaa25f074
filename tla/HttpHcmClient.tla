---------------------------- MODULE HttpHcmClient -----------------------------
(***************************************************************************)
(* Calls of getBalance and applyDelta over HTTP, behind one breaker. Any   *)
(* number of them overlap: the drain, the first loads of submit, and a     *)
(* reconcile. A call passes the breaker, waits for the response's headers  *)
(* under the timeout, then reads the body without it. Each stretch between *)
(* two awaits is an action; a call that settled may be followed by         *)
(* another of the same caller.                                             *)
(***************************************************************************)
EXTENDS CircuitBreaker

CONSTANTS
    Caller,         \* those who may have a call open
    MaxFailures     \* bounds consecutiveFailures: no call begins beyond it

VARIABLES
    phase,      \* idle, waiting for the headers, or reading the body
    response,   \* the class of the status line that came
    up          \* whether HCM answers well and in time

vars == <<state, consecutiveFailures, cooled, recent, phase, response, up>>

(* 2xx; 5xx and 429; any other 4xx. *)
Responses == {"ok", "unavailable", "rejected"}

TypeOK ==
    /\ BreakerTypeOK
    /\ phase \in [Caller -> {"idle", "headers", "body"}]
    /\ response \in [Caller -> Responses \cup {"none"}]
    /\ up \in BOOLEAN

Init ==
    /\ BreakerInit
    /\ phase = [c \in Caller |-> "idle"]
    /\ response = [c \in Caller |-> "none"]
    /\ up \in BOOLEAN

(* guarded and fetch, up to the await. A refused call throws and changes   *)
(* nothing: canAttempt writes only when it lets the call through.          *)
Begin(c) ==
    /\ phase[c] = "idle"
    /\ consecutiveFailures < MaxFailures
    /\ CanAttempt
    /\ state' = GetState
    /\ phase' = [phase EXCEPT ![c] = "headers"]
    /\ UNCHANGED <<consecutiveFailures, cooled, recent, response, up>>

(* The headers arrive: the finally block clears the timer. *)
HeadersArrive(c, r) ==
    /\ phase[c] = "headers"
    /\ r = "unavailable" => ~up
    /\ phase' = [phase EXCEPT ![c] = "body"]
    /\ response' = [response EXCEPT ![c] = r]
    /\ UNCHANGED <<breakerVars, up>>

Settle(c) ==
    /\ phase' = [phase EXCEPT ![c] = "idle"]
    /\ response' = [response EXCEPT ![c] = "none"]
    /\ UNCHANGED up

(* The timer aborts the fetch, or the connection fails before the headers. *)
FetchFails(c) ==
    /\ phase[c] = "headers" /\ ~up
    /\ RecordFailure
    /\ Settle(c)

(* parse: a readable body of a 2xx is the only success. *)
BodyEnds(c) ==
    /\ phase[c] = "body"
    /\ \/ response[c] = "ok" /\ RecordSuccess
       \/ response[c] = "unavailable" /\ RecordFailure
       \/ response[c] = "rejected" /\ UNCHANGED breakerVars
    /\ Settle(c)

(* The body is cut off or not JSON. Of an error status it does not matter. *)
BodyUnreadable(c) ==
    /\ phase[c] = "body" /\ ~up
    /\ \/ response[c] # "rejected" /\ RecordFailure
       \/ response[c] = "rejected" /\ UNCHANGED breakerVars
    /\ Settle(c)

HcmGoesUpOrDown ==
    /\ up' = ~up
    /\ UNCHANGED <<breakerVars, phase, response>>

TimePasses == CooldownElapses /\ UNCHANGED <<phase, response, up>>

Next ==
    \/ \E c \in Caller :
        \/ Begin(c) \/ FetchFails(c) \/ BodyEnds(c) \/ BodyUnreadable(c)
        \/ \E r \in Responses : HeadersArrive(c, r)
    \/ HcmGoesUpOrDown
    \/ TimePasses

Spec == Init /\ [][Next]_vars

(* Time passes. Nothing is assumed of HCM, of a body that is being read or *)
(* of a caller that might call again.                                      *)
FairSpec == Spec /\ WF_vars(TimePasses)

-------------------------------------------------------------------------------
(* Properties *)

(* The breaker is away from CLOSED exactly when the newest outcomes it was *)
(* told of, FailureThreshold of them, are failures: with overlapping calls *)
(* that finish in any order, and rejections that it is not told of.        *)
OpenIffFailing ==
    state # "CLOSED" <=> \A i \in 1..FailureThreshold : recent[i] = "failure"

(* A failure that makes the threshold or comes after it shuts the breaker: *)
(* the next call is refused, also when the failure is that of a probe or   *)
(* of a call begun before the breaker opened.                              *)
FailureShuts ==
    [][/\ consecutiveFailures' > consecutiveFailures
       /\ consecutiveFailures' >= FailureThreshold
       => ~CanAttempt']_vars

(* An outage ends: once HCM answers for good, calls are let through for    *)
(* good, whatever the calls left over from the outage still report.        *)
OutageEnds == <>[]up => <>[]CanAttempt
===============================================================================

---------------------------- MODULE CircuitBreaker ----------------------------
(***************************************************************************)
(* The breaker in front of HCM: it opens after FailureThreshold failures   *)
(* in a row, refuses calls until a cooldown has passed, and then lets      *)
(* calls through to see whether HCM is back.                               *)
(*                                                                         *)
(* Time is one bit: cooled says that cooldownMs, a positive time, have     *)
(* passed since openedAt. recent is history, which no guard reads: the     *)
(* last FailureThreshold outcomes the breaker was told of, newest first.   *)
(***************************************************************************)
EXTENDS Naturals

CONSTANT FailureThreshold

ASSUME ThresholdAssumption == FailureThreshold \in Nat \ {0}

VARIABLES state, consecutiveFailures, cooled, recent

breakerVars == <<state, consecutiveFailures, cooled, recent>>

CircuitState == {"CLOSED", "OPEN", "HALF_OPEN"}

BreakerTypeOK ==
    /\ state \in CircuitState
    /\ consecutiveFailures \in Nat
    /\ cooled \in BOOLEAN
    /\ recent \in [1..FailureThreshold -> {"none", "success", "failure"}]

BreakerInit ==
    /\ state = "CLOSED"
    /\ consecutiveFailures = 0
    /\ cooled = FALSE
    /\ recent = [i \in 1..FailureThreshold |-> "none"]

(* The history after an outcome x. *)
Recorded(x) == [i \in 1..FailureThreshold |-> IF i = 1 THEN x ELSE recent[i - 1]]

(* Mutant: the cooldown is not looked at. *)
StateIgnoringTime == state

(* getState: reading an open breaker after the cooldown half-opens it. *)
GetState == IF state = "OPEN" /\ cooled THEN "HALF_OPEN" ELSE state

CanAttempt == GetState # "OPEN"

(* Mutant: the run of failures goes on after a success. *)
SuccessKeepingCount ==
    /\ state' = "CLOSED"
    /\ recent' = Recorded("success")
    /\ UNCHANGED <<consecutiveFailures, cooled>>

(* Mutant: a success takes one failure back. *)
SuccessDecrementing ==
    /\ consecutiveFailures' = consecutiveFailures - 1
    /\ state' = "CLOSED"
    /\ recent' = Recorded("success")
    /\ UNCHANGED cooled

RecordSuccess ==
    /\ consecutiveFailures' = 0
    /\ state' = "CLOSED"
    /\ recent' = Recorded("success")
    /\ UNCHANGED cooled

(* Mutant: the cooldown starts when the breaker first opens only. *)
FailureKeepingTime ==
    /\ consecutiveFailures' = consecutiveFailures + 1
    /\ recent' = Recorded("failure")
    /\ state' = IF consecutiveFailures' >= FailureThreshold THEN "OPEN" ELSE state
    /\ cooled' = (cooled /\ state # "CLOSED")

(* openedAt = now(): the cooldown starts anew, also when already open. *)
RecordFailure ==
    /\ consecutiveFailures' = consecutiveFailures + 1
    /\ recent' = Recorded("failure")
    /\ IF consecutiveFailures' >= FailureThreshold
       THEN state' = "OPEN" /\ cooled' = FALSE
       ELSE UNCHANGED <<state, cooled>>

CooldownElapses ==
    /\ state = "OPEN" /\ ~cooled
    /\ cooled' = TRUE
    /\ UNCHANGED <<state, consecutiveFailures, recent>>
===============================================================================

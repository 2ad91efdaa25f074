----------------------------- MODULE ClientProofs -----------------------------
(***************************************************************************)
(* The breaker of HttpHcmClient follows the outcomes of the calls, for any *)
(* threshold and any number of overlapping callers.                        *)
(***************************************************************************)
EXTENDS HttpHcmClient, TLAPS

(* The counter is the length of the run of failures, up to the threshold.  *)
CountIsRun ==
    /\ \A i \in 1..FailureThreshold : i <= consecutiveFailures => recent[i] = "failure"
    /\ consecutiveFailures < FailureThreshold => recent[consecutiveFailures + 1] # "failure"

(* The state and the counter agree. *)
StateFollowsCount == state # "CLOSED" <=> consecutiveFailures >= FailureThreshold

BreakerInv == TypeOK /\ CountIsRun /\ StateFollowsCount

(* What an action does to the breaker, whichever call does it. *)
BreakerStep ==
    \/ RecordSuccess
    \/ RecordFailure
    \/ CooldownElapses
    \/ CanAttempt /\ state' = GetState /\ UNCHANGED <<consecutiveFailures, cooled, recent>>
    \/ UNCHANGED breakerVars

-------------------------------------------------------------------------------

(* Every step of the client is one of these for the breaker. *)
LEMMA NextIsBreakerStep == [Next]_vars => BreakerStep
<1> SUFFICES ASSUME [Next]_vars
             PROVE  BreakerStep
    OBVIOUS
<1> USE DEF BreakerStep
<1>1. CASE UNCHANGED vars
    BY <1>1 DEF vars, breakerVars
<1>2. ASSUME NEW c \in Caller, Begin(c)
      PROVE  BreakerStep
    BY <1>2 DEF Begin
<1>3. ASSUME NEW c \in Caller, FetchFails(c)
      PROVE  BreakerStep
    BY <1>3 DEF FetchFails
<1>4. ASSUME NEW c \in Caller, BodyEnds(c)
      PROVE  BreakerStep
    BY <1>4 DEF BodyEnds
<1>5. ASSUME NEW c \in Caller, BodyUnreadable(c)
      PROVE  BreakerStep
    BY <1>5 DEF BodyUnreadable
<1>6. ASSUME NEW c \in Caller, NEW r \in Responses, HeadersArrive(c, r)
      PROVE  BreakerStep
    BY <1>6 DEF HeadersArrive
<1>7. CASE HcmGoesUpOrDown \/ TimePasses
    BY <1>7 DEF HcmGoesUpOrDown, TimePasses
<1> QED
    BY <1>1, <1>2, <1>3, <1>4, <1>5, <1>6, <1>7 DEF Next

(* Types of the breaker and of the calls. *)
LEMMA TypeStep == TypeOK /\ [Next]_vars => TypeOK'
<1> SUFFICES ASSUME TypeOK, [Next]_vars
             PROVE  TypeOK'
    OBVIOUS
<1>1. BreakerTypeOK'
    <2>1. Recorded("success") \in [1..FailureThreshold -> {"none", "success", "failure"}]
          /\ Recorded("failure") \in [1..FailureThreshold -> {"none", "success", "failure"}]
        BY ThresholdAssumption DEF TypeOK, BreakerTypeOK, Recorded
    <2> USE DEF TypeOK, BreakerTypeOK, CircuitState
    <2>2. CASE RecordSuccess
        BY <2>1, <2>2 DEF RecordSuccess
    <2>3. CASE RecordFailure
        <3>1. consecutiveFailures' \in Nat /\ recent' = Recorded("failure")
            BY <2>3 DEF RecordFailure
        <3>2. state' \in CircuitState
            BY <2>3 DEF RecordFailure
        <3>3. cooled' \in BOOLEAN
            <4>1. CASE consecutiveFailures' >= FailureThreshold
                BY <2>3, <4>1 DEF RecordFailure
            <4>2. CASE ~(consecutiveFailures' >= FailureThreshold)
                BY <2>3, <4>2 DEF RecordFailure
            <4> QED
                BY <4>1, <4>2
        <3> QED
            BY <2>1, <3>1, <3>2, <3>3
    <2>4. CASE CooldownElapses
        BY <2>4 DEF CooldownElapses
    <2>5. CASE state' = GetState /\ UNCHANGED <<consecutiveFailures, cooled, recent>>
        BY <2>5 DEF GetState
    <2>6. CASE UNCHANGED breakerVars
        BY <2>6 DEF breakerVars
    <2> QED
        BY <2>2, <2>3, <2>4, <2>5, <2>6, NextIsBreakerStep DEF BreakerStep
<1>2. /\ phase' \in [Caller -> {"idle", "headers", "body"}]
      /\ response' \in [Caller -> Responses \cup {"none"}]
      /\ up' \in BOOLEAN
    BY DEF TypeOK, Next, vars, Begin, FetchFails, BodyEnds, BodyUnreadable, HeadersArrive,
           HcmGoesUpOrDown, TimePasses, Settle
<1> QED
    BY <1>1, <1>2 DEF TypeOK

(* A breaker that has seen no outcome is closed with nothing counted.      *)
LEMMA InitInv == Init => BreakerInv
<1> SUFFICES ASSUME Init
             PROVE  BreakerInv
    OBVIOUS
<1>1. BreakerTypeOK
    BY ThresholdAssumption DEF Init, BreakerInit, BreakerTypeOK, CircuitState
<1>2. TypeOK
    BY <1>1 DEF Init, TypeOK
<1>3. CountIsRun
    BY ThresholdAssumption DEF Init, BreakerInit, CountIsRun
<1>4. StateFollowsCount
    BY ThresholdAssumption DEF Init, BreakerInit, StateFollowsCount
<1> QED
    BY <1>2, <1>3, <1>4 DEF BreakerInv

(* A success ends the run, a failure makes it one longer. *)
LEMMA BreakerInvStep == BreakerInv /\ [Next]_vars => BreakerInv'
<1> SUFFICES ASSUME BreakerInv, [Next]_vars
             PROVE  BreakerInv'
    OBVIOUS
<1>1. TypeOK'
    BY TypeStep DEF BreakerInv
<1> USE ThresholdAssumption DEF BreakerInv, TypeOK, BreakerTypeOK, CountIsRun, StateFollowsCount
<1>2. CASE RecordSuccess
    BY <1>1, <1>2 DEF RecordSuccess, Recorded
<1>3. CASE RecordFailure
    <2>1. consecutiveFailures' = consecutiveFailures + 1 /\ recent'[1] = "failure"
        BY <1>3 DEF RecordFailure, Recorded
    <2>2. \A i \in 1..FailureThreshold : i # 1 => i - 1 \in 1..FailureThreshold
                                                   /\ recent'[i] = recent[i - 1]
        BY <1>3 DEF RecordFailure, Recorded
    <2>3. CountIsRun'
        <3>1. \A i \in 1..FailureThreshold :
                 i <= consecutiveFailures' => recent'[i] = "failure"
            BY <2>1, <2>2
        <3>2. consecutiveFailures' < FailureThreshold
                 => recent'[consecutiveFailures' + 1] # "failure"
            BY <2>1, <2>2
        <3> QED
            BY <3>1, <3>2
    <2>4. StateFollowsCount'
        BY <1>3, <2>1 DEF RecordFailure
    <2> QED
        BY <1>1, <2>3, <2>4
<1>4. CASE CooldownElapses
    BY <1>1, <1>4 DEF CooldownElapses
<1>5. CASE state' = GetState /\ UNCHANGED <<consecutiveFailures, cooled, recent>>
    BY <1>1, <1>5 DEF GetState
<1>6. CASE UNCHANGED breakerVars
    BY <1>1, <1>6 DEF breakerVars
<1> QED
    BY <1>2, <1>3, <1>4, <1>5, <1>6, NextIsBreakerStep DEF BreakerStep

(* The counter is the current run of failures, the state follows it.      *)
THEOREM BreakerInvariant == Spec => []BreakerInv
<1>1. QED
    BY InitInv, BreakerInvStep, PTL DEF Spec

(* Breaker and callers only take values they may have.                     *)
THEOREM ClientTypeCorrect == Spec => []TypeOK
<1>1. BreakerInv => TypeOK
    BY DEF BreakerInv
<1> QED
    BY <1>1, BreakerInvariant, PTL

-------------------------------------------------------------------------------

(* The breaker is away from CLOSED exactly while the newest outcomes, as   *)
(* many as the threshold, are failures.                                    *)
THEOREM OpensOnFailures == Spec => []OpenIffFailing
<1>1. BreakerInv => OpenIffFailing
    <2> SUFFICES ASSUME BreakerInv
                 PROVE  OpenIffFailing
        OBVIOUS
    <2> USE ThresholdAssumption
        DEF BreakerInv, TypeOK, BreakerTypeOK, CountIsRun, StateFollowsCount, OpenIffFailing
    <2>1. CASE consecutiveFailures >= FailureThreshold
        BY <2>1
    <2>2. CASE consecutiveFailures < FailureThreshold
        BY <2>2
    <2> QED
        BY <2>1, <2>2
<1> QED
    BY <1>1, BreakerInvariant, PTL

(* A failure at or beyond the threshold shuts the breaker for a cooldown.  *)
THEOREM FailuresShut == Spec => FailureShuts
<1>1. BreakerInv /\ [Next]_vars
         => [/\ consecutiveFailures' > consecutiveFailures
             /\ consecutiveFailures' >= FailureThreshold
             => ~CanAttempt']_vars
    <2> SUFFICES ASSUME BreakerInv, [Next]_vars,
                        consecutiveFailures' > consecutiveFailures,
                        consecutiveFailures' >= FailureThreshold
                 PROVE  ~CanAttempt'
        OBVIOUS
    <2>1. consecutiveFailures \in Nat
        BY DEF BreakerInv, TypeOK, BreakerTypeOK
    <2>2. RecordFailure
        BY <2>1, NextIsBreakerStep
        DEF BreakerStep, RecordSuccess, CooldownElapses, breakerVars
    <2> QED
        BY <2>2 DEF RecordFailure, CanAttempt, GetState
<1> QED
    BY <1>1, BreakerInvariant, PTL DEF Spec, FailureShuts
===============================================================================

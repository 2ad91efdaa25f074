----------------------------- MODULE MutexProofs ------------------------------
(***************************************************************************)
(* KeyedMutex is a lock per key, served first come first, for any number   *)
(* of calls and keys.                                                      *)
(***************************************************************************)
EXTENDS KeyedMutex, TLAPS

(* Everyone who came before c on its key has left. *)
NobodyAhead(c) ==
    \A d \in Call :
        On[d] = On[c] /\ stage[d] # "idle" /\ ticket[d] < ticket[c] => stage[d] = "done"

(* Tickets number the arrivals. *)
TicketsAreDistinct ==
    /\ \A c \in Call : stage[c] # "idle" => ticket[c] <= arrivals
    /\ \A c, d \in Call :
          c # d /\ stage[c] # "idle" /\ stage[d] # "idle" => ticket[c] # ticket[d]

(* A promise is resolved when its call has left, and not before. *)
ResolvedAreDone == resolved = {c \in Call : stage[c] = "done"}

(* The tail of k is its last arrival, also among the calls that left. *)
TailIsNewest(k) ==
    /\ tails[k] = NoPromise =>
          \A d \in Call : On[d] = k => stage[d] \in {"idle", "done"}
    /\ tails[k] # NoPromise =>
          /\ On[tails[k]] = k
          /\ stage[tails[k]] \in Queued
          /\ \A d \in Call :
                On[d] = k /\ stage[d] # "idle" => ticket[d] <= ticket[tails[k]]

(* What c awaits is the promise of the call just before it. *)
PreviousIsNext(c) ==
    /\ previous[c] = NoPromise => NobodyAhead(c)
    /\ previous[c] # NoPromise =>
          /\ On[previous[c]] = On[c]
          /\ stage[previous[c]] # "idle"
          /\ ticket[previous[c]] < ticket[c]
          /\ \A d \in Call :
                On[d] = On[c] /\ stage[d] # "idle" /\ ticket[d] < ticket[c]
                    => ticket[d] <= ticket[previous[c]]

(* Whoever ran its function had nobody ahead. *)
RunInTurn == \A c \in Call : stage[c] \in {"inside", "done"} => NobodyAhead(c)

MutexInv ==
    /\ MutexTypeOK
    /\ TicketsAreDistinct
    /\ ResolvedAreDone
    /\ \A k \in LockKey : TailIsNewest(k)
    /\ \A c \in Call : stage[c] # "idle" => PreviousIsNext(c)
    /\ RunInTurn

-------------------------------------------------------------------------------

(* A call that may proceed has nobody ahead: its predecessor left, and     *)
(* that one in its turn had nobody ahead.                                  *)
LEMMA ProceedInTurn ==
    ASSUME MutexInv, NEW c \in Call, Proceed(c)
    PROVE  NobodyAhead(c)
<1>1. CASE previous[c] = NoPromise
    BY <1>1 DEF MutexInv, PreviousIsNext, Proceed
<1>2. CASE previous[c] \in resolved
    <2>1. previous[c] \in Call /\ previous[c] # NoPromise /\ stage[previous[c]] = "done"
        BY <1>2, CallAssumption DEF MutexInv, ResolvedAreDone
    <2>2. NobodyAhead(previous[c])
        BY <2>1 DEF MutexInv, RunInTurn
    <2> SUFFICES ASSUME NEW d \in Call, On[d] = On[c], stage[d] # "idle", ticket[d] < ticket[c]
                 PROVE  stage[d] = "done"
        BY DEF NobodyAhead
    <2>3. stage[c] # "idle"
        BY DEF Proceed
    <2>4. On[previous[c]] = On[c] /\ ticket[d] <= ticket[previous[c]]
        BY <2>1, <2>3 DEF MutexInv, PreviousIsNext
    <2>5. CASE d = previous[c]
        BY <2>1, <2>5
    <2>6. CASE d # previous[c]
        <3>1. ticket[d] # ticket[previous[c]]
            BY <2>1, <2>6 DEF MutexInv, TicketsAreDistinct
        <3>2. ticket[d] \in Nat /\ ticket[previous[c]] \in Nat
            BY <2>1 DEF MutexInv, MutexTypeOK
        <3>3. ticket[d] < ticket[previous[c]]
            BY <2>4, <3>1, <3>2
        <3> QED
            BY <2>2, <2>4, <3>3 DEF NobodyAhead
    <2> QED
        BY <2>5, <2>6
<1> QED
    BY <1>1, <1>2 DEF Proceed

\* A mutex nobody has used is in order.
LEMMA InitInv == MutexInit => MutexInv
BY CallAssumption
   DEF MutexInit, MutexInv, MutexTypeOK, TicketsAreDistinct, ResolvedAreDone, TailIsNewest,
       PreviousIsNext, RunInTurn, Queued

(* Arriving: the newcomer draws the highest ticket and awaits the tail. *)
LEMMA EnterInv ==
    ASSUME MutexInv, NEW c \in Call, Enter(c)
    PROVE  MutexInv'
<1> USE CallAssumption DEF Enter, Queue
<1>0. MutexTypeOK /\ On[c] \in LockKey
    BY DEF MutexInv
<1>1. MutexTypeOK'
    BY <1>0 DEF MutexTypeOK
<1>2. ticket'[c] = arrivals + 1 /\ stage'[c] = "waiting" /\ previous'[c] = tails[On[c]]
    BY <1>0 DEF MutexTypeOK
<1>3. \A d \in Call : d # c => ticket'[d] = ticket[d] /\ stage'[d] = stage[d]
                               /\ previous'[d] = previous[d]
    BY <1>0 DEF MutexTypeOK
<1>4. TicketsAreDistinct'
    BY <1>0, <1>1, <1>2, <1>3 DEF MutexInv, TicketsAreDistinct, MutexTypeOK
<1>5. ResolvedAreDone'
    BY <1>0, <1>2, <1>3 DEF MutexInv, ResolvedAreDone
<1>6. \A d \in Call : stage[d] # "idle" => ticket[d] < arrivals + 1
    BY <1>0 DEF MutexInv, TicketsAreDistinct, MutexTypeOK
<1>7. ASSUME NEW k \in LockKey
      PROVE  TailIsNewest(k)'
    <2>1. CASE k = On[c]
        <3>1. tails'[k] = c /\ c # NoPromise
            BY <1>0, <2>1 DEF MutexTypeOK
        <3>2. \A d \in Call : stage'[d] # "idle" => ticket'[d] <= arrivals + 1
            BY <1>0, <1>2, <1>3, <1>6 DEF MutexTypeOK
        <3> QED
            BY <1>2, <2>1, <3>1, <3>2 DEF Queued, TailIsNewest
    <2>2. CASE k # On[c]
        <3>1. tails'[k] = tails[k] /\ tails[k] \in Call \cup {NoPromise}
            BY <1>0, <2>2 DEF MutexTypeOK
        <3>2. TailIsNewest(k)
            BY DEF MutexInv
        <3>3. \A d \in Call : On[d] = k => d # c
            BY <2>2
        <3> QED
            BY <1>3, <3>1, <3>2, <3>3 DEF TailIsNewest
    <2> QED
        BY <2>1, <2>2
<1>8. \A d \in Call : d # c /\ NobodyAhead(d) /\ stage[d] # "idle" => NobodyAhead(d)'
    <2> SUFFICES ASSUME NEW d \in Call, d # c, NobodyAhead(d), stage[d] # "idle",
                        NEW e \in Call, On[e] = On[d], stage'[e] # "idle",
                        ticket'[e] < ticket'[d]
                 PROVE  stage'[e] = "done"
        BY DEF NobodyAhead
    <2>1. ticket'[d] = ticket[d] /\ ticket[d] < arrivals + 1 /\ ticket[d] \in Nat
        BY <1>0, <1>3, <1>6 DEF MutexTypeOK
    <2>2. e # c
        BY <1>0, <1>2, <2>1 DEF MutexTypeOK
    <2> QED
        BY <1>3, <2>2 DEF NobodyAhead
<1>9. ASSUME NEW d \in Call, stage'[d] # "idle"
      PROVE  PreviousIsNext(d)'
    <2>1. CASE d = c
        <3>1. TailIsNewest(On[c])
            BY <1>0 DEF MutexInv
        <3>2. tails[On[c]] \in Call \cup {NoPromise}
            BY <1>0 DEF MutexTypeOK
        <3>3. CASE tails[On[c]] = NoPromise
            BY <1>2, <1>3, <2>1, <3>1, <3>3 DEF TailIsNewest, PreviousIsNext, NobodyAhead
        <3>4. CASE tails[On[c]] # NoPromise
            <4>1. tails[On[c]] \in Call /\ tails[On[c]] # c
                BY <3>1, <3>2, <3>4 DEF TailIsNewest, Queued
            <4> QED
                BY <1>2, <1>3, <1>6, <2>1, <3>1, <3>4, <4>1
                DEF TailIsNewest, PreviousIsNext, Queued
        <3> QED
            BY <3>3, <3>4
    <2>2. CASE d # c
        <3>1. PreviousIsNext(d) /\ stage[d] # "idle"
            BY <1>3, <1>9, <2>2 DEF MutexInv
        <3>2. previous[d] \in Call \cup {NoPromise}
            BY <1>0 DEF MutexTypeOK
        <3>3. CASE previous[d] = NoPromise
            BY <1>3, <1>8, <2>2, <3>1, <3>3 DEF PreviousIsNext
        <3>4. CASE previous[d] # NoPromise
            <4>1. previous[d] \in Call /\ previous[d] # c
                BY <3>1, <3>2, <3>4 DEF PreviousIsNext
            <4>2. ticket[d] < arrivals + 1 /\ ticket[d] \in Nat /\ arrivals \in Nat
                BY <1>0, <1>6, <3>1 DEF MutexTypeOK
            <4>3. ~ (ticket'[c] < ticket'[d])
                BY <1>2, <1>3, <2>2, <4>2
            <4> QED
                BY <1>3, <2>2, <3>1, <3>4, <4>1, <4>3 DEF PreviousIsNext
        <3> QED
            BY <3>3, <3>4
    <2> QED
        BY <2>1, <2>2
<1>10. RunInTurn'
    BY <1>2, <1>3, <1>8 DEF MutexInv, RunInTurn
<1> QED
    BY <1>1, <1>4, <1>5, <1>7, <1>9, <1>10 DEF MutexInv

(* Starting: the one thing that changes is that c runs, in its turn. *)
LEMMA ProceedInv ==
    ASSUME MutexInv, NEW c \in Call, Proceed(c)
    PROVE  MutexInv'
<1>0. MutexTypeOK
    BY DEF MutexInv
<1>1. MutexTypeOK' /\ stage[c] = "waiting" /\ stage'[c] = "inside"
    BY <1>0 DEF MutexTypeOK, Proceed
<1>2. \A d \in Call : d # c => stage'[d] = stage[d]
    BY <1>0 DEF MutexTypeOK, Proceed
<1>3. UNCHANGED <<tails, previous, resolved, ticket, arrivals>>
    BY DEF Proceed
<1>4. TicketsAreDistinct' /\ ResolvedAreDone'
    BY <1>1, <1>2, <1>3 DEF MutexInv, TicketsAreDistinct, ResolvedAreDone
<1>5. ASSUME NEW k \in LockKey
      PROVE  TailIsNewest(k)'
    <2>1. TailIsNewest(k) /\ tails[k] \in Call \cup {NoPromise}
        BY <1>0 DEF MutexInv, MutexTypeOK
    <2> QED
        BY <1>1, <1>2, <1>3, <2>1 DEF TailIsNewest, Queued
<1>6. \A d \in Call : NobodyAhead(d) => NobodyAhead(d)'
    BY <1>1, <1>2, <1>3 DEF NobodyAhead
<1>7. ASSUME NEW d \in Call, stage'[d] # "idle"
      PROVE  PreviousIsNext(d)'
    <2>1. PreviousIsNext(d) /\ previous[d] \in Call \cup {NoPromise}
        BY <1>0, <1>1, <1>2, <1>7 DEF MutexInv, MutexTypeOK
    <2> QED
        BY <1>1, <1>2, <1>3, <1>6, <2>1 DEF PreviousIsNext
<1>8. RunInTurn'
    BY <1>1, <1>2, <1>6, ProceedInTurn DEF MutexInv, RunInTurn
<1> QED
    BY <1>1, <1>4, <1>5, <1>7, <1>8 DEF MutexInv

(* Leaving: the tail goes only when it is c's own, and c came last then. *)
LEMMA LeaveInv ==
    ASSUME MutexInv, NEW c \in Call, Leave(c)
    PROVE  MutexInv'
<1>0. MutexTypeOK /\ On[c] \in LockKey /\ c # NoPromise
    BY CallAssumption DEF MutexInv
<1>1. MutexTypeOK' /\ stage[c] = "inside" /\ stage'[c] = "done" /\ resolved' = resolved \cup {c}
    BY <1>0 DEF MutexTypeOK, Leave, Resolve, DropTail
<1>2. \A d \in Call : d # c => stage'[d] = stage[d]
    BY <1>0 DEF MutexTypeOK, Leave
<1>3. UNCHANGED <<previous, ticket, arrivals>>
    BY DEF Leave
<1>4. TicketsAreDistinct' /\ ResolvedAreDone'
    BY <1>0, <1>1, <1>2, <1>3 DEF MutexInv, TicketsAreDistinct, ResolvedAreDone
<1>5. NobodyAhead(c)
    BY <1>1 DEF MutexInv, RunInTurn
<1>6. \A d \in Call : NobodyAhead(d) => NobodyAhead(d)'
    BY <1>1, <1>2, <1>3 DEF NobodyAhead
<1>7. ASSUME NEW k \in LockKey
      PROVE  TailIsNewest(k)'
    <2>1. TailIsNewest(k) /\ tails[k] \in Call \cup {NoPromise}
        BY <1>0 DEF MutexInv, MutexTypeOK
    <2>2. CASE tails[k] = c
        <3>1. k = On[c] /\ tails'[k] = NoPromise
            BY <1>0, <2>1, <2>2 DEF TailIsNewest, Leave, DropTail, MutexTypeOK
        <3> SUFFICES ASSUME NEW d \in Call, On[d] = k, d # c, stage[d] # "idle"
                     PROVE  stage[d] = "done"
            BY <1>1, <1>2, <3>1 DEF TailIsNewest
        <3>2. ticket[d] <= ticket[c]
            BY <1>0, <2>1, <2>2 DEF TailIsNewest
        <3>3. ticket[d] # ticket[c] /\ ticket[d] \in Nat /\ ticket[c] \in Nat
            BY <1>0, <1>1 DEF MutexInv, TicketsAreDistinct, MutexTypeOK
        <3>4. ticket[d] < ticket[c]
            BY <3>2, <3>3
        <3> QED
            BY <1>5, <3>1, <3>4 DEF NobodyAhead
    <2>3. CASE tails[k] # c
        <3>1. tails'[k] = tails[k]
            BY <1>0, <2>3 DEF Leave, DropTail, MutexTypeOK
        <3> QED
            BY <1>1, <1>2, <1>3, <2>1, <2>3, <3>1 DEF TailIsNewest, Queued
    <2> QED
        BY <2>2, <2>3
<1>8. ASSUME NEW d \in Call, stage'[d] # "idle"
      PROVE  PreviousIsNext(d)'
    <2>1. PreviousIsNext(d) /\ previous[d] \in Call \cup {NoPromise}
        BY <1>0, <1>1, <1>2, <1>8 DEF MutexInv, MutexTypeOK
    <2> QED
        BY <1>1, <1>2, <1>3, <1>6, <2>1 DEF PreviousIsNext
<1>9. RunInTurn'
    BY <1>1, <1>2, <1>5, <1>6 DEF MutexInv, RunInTurn
<1> QED
    BY <1>1, <1>4, <1>7, <1>8, <1>9 DEF MutexInv

\* Every stretch of a call leaves it in order.
LEMMA NextInv == MutexInv /\ [MutexNext]_mutexVars => MutexInv'
<1> SUFFICES ASSUME MutexInv, [MutexNext]_mutexVars
             PROVE  MutexInv'
    OBVIOUS
<1>1. CASE UNCHANGED mutexVars
    BY <1>1 DEF mutexVars, MutexInv, MutexTypeOK, TicketsAreDistinct, ResolvedAreDone,
                TailIsNewest, PreviousIsNext, RunInTurn, NobodyAhead
<1>2. CASE MutexNext
    BY <1>2, EnterInv, ProceedInv, LeaveInv DEF MutexNext
<1> QED
    BY <1>1, <1>2

(* All of it together holds in every state of the mutex.                  *)
THEOREM MutexInvariant == MutexSpec => []MutexInv
BY InitInv, NextInv, PTL DEF MutexSpec

-------------------------------------------------------------------------------

(* Of two calls that ran, the later one ran only once the earlier one had  *)
(* left.                                                                   *)
LEMMA InTurnExcludes == MutexInv => MutualExclusion
<1> SUFFICES ASSUME MutexInv, NEW c \in Call, NEW d \in Call, c # d, On[c] = On[d],
                    stage[c] = "inside", stage[d] = "inside"
             PROVE  FALSE
    BY DEF MutualExclusion
<1>1. NobodyAhead(c) /\ NobodyAhead(d)
    BY DEF MutexInv, RunInTurn
<1>2. ticket[c] # ticket[d] /\ ticket[c] \in Nat /\ ticket[d] \in Nat
    BY DEF MutexInv, TicketsAreDistinct, MutexTypeOK
<1>3. ticket[c] < ticket[d] \/ ticket[d] < ticket[c]
    BY <1>2
<1> QED
    BY <1>1, <1>3 DEF NobodyAhead

(* Two calls of one key never run at the same time.                        *)
THEOREM OneAtATime == MutexSpec => []MutualExclusion
BY InTurnExcludes, MutexInvariant, PTL

(* The map of tails holds, for every key, the last call that is still      *)
(* there, and nothing for a key without calls.                             *)
THEOREM TailsAreLast == MutexSpec => []TailIsLast
<1>1. MutexInv => TailIsLast
    <2> SUFFICES ASSUME MutexInv, NEW k \in LockKey
                 PROVE  LET active == {c \in Call : On[c] = k /\ stage[c] \in Queued}
                        IN  IF tails[k] = NoPromise
                            THEN active = {}
                            ELSE /\ tails[k] \in active
                                 /\ \A c \in active : ticket[c] <= ticket[tails[k]]
        BY DEF TailIsLast
    <2>1. TailIsNewest(k) /\ tails[k] \in Call \cup {NoPromise}
        BY DEF MutexInv, MutexTypeOK
    <2> QED
        BY <2>1 DEF TailIsNewest, Queued
<1> QED
    BY <1>1, MutexInvariant, PTL

(* The chain of promises implements the first-come-first-served lock.      *)
THEOREM MutexIsFifo == MutexSpec => ImplementsFifoLock
<1>1. MutexInit => Fifo!Init
    BY DEF MutexInit, Fifo!Init
<1>2. MutexInv /\ [MutexNext]_mutexVars => [Fifo!Next]_(Fifo!vars)
    <2> SUFFICES ASSUME MutexInv, [MutexNext]_mutexVars
                 PROVE  [Fifo!Next]_(Fifo!vars)
        OBVIOUS
    <2>1. CASE UNCHANGED mutexVars
        BY <2>1 DEF mutexVars, Fifo!vars
    <2>2. ASSUME NEW c \in Call, Enter(c)
          PROVE  Fifo!Arrive(c)
        BY <2>2 DEF Enter, Fifo!Arrive
    <2>3. ASSUME NEW c \in Call, Proceed(c)
          PROVE  Fifo!Acquire(c)
        BY <2>3, ProceedInTurn DEF Proceed, Fifo!Acquire, Fifo!Ahead, NobodyAhead
    <2>4. ASSUME NEW c \in Call, Leave(c)
          PROVE  Fifo!Leave(c)
        BY <2>4 DEF Leave, Fifo!Leave
    <2> QED
        BY <2>1, <2>2, <2>3, <2>4 DEF MutexNext, Fifo!Next
<1> QED
    BY <1>1, <1>2, MutexInvariant, PTL DEF MutexSpec, ImplementsFifoLock, Fifo!Spec
===============================================================================

------------------------------ MODULE KeyedMutex ------------------------------
(***************************************************************************)
(* KeyedMutex.runExclusive: a chain of promises per key. A call reads the  *)
(* tail of its key, makes its own promise the tail, awaits what it read,   *)
(* runs its function, resolves its promise, and drops the tail if it is    *)
(* still its own. Between two awaits a call runs alone: each stretch of    *)
(* code up to the next await is one action.                                *)
(*                                                                         *)
(* A promise is named by the call that made it. ticket and arrivals are    *)
(* history: the code does not keep them and no guard reads them. They say  *)
(* in which order the calls came, which FifoLock is about.                 *)
(***************************************************************************)
EXTENDS Naturals

CONSTANTS
    Call,       \* the calls of runExclusive made in a behaviour
    LockKey,    \* the keys of the map, one per balance
    On,         \* the key argument of each call
    NoPromise   \* a missing map entry, and the resolved promise used for it

ASSUME CallAssumption == On \in [Call -> LockKey] /\ NoPromise \notin Call

VARIABLES
    tails,      \* this.tails: the promise queued last on each key
    previous,   \* the local previous of each call
    resolved,   \* the promises whose release ran
    stage,      \* how far each call is
    ticket,
    arrivals

mutexVars == <<tails, previous, resolved, stage, ticket, arrivals>>

Queued == {"waiting", "inside"}

MutexTypeOK ==
    /\ tails \in [LockKey -> Call \cup {NoPromise}]
    /\ previous \in [Call -> Call \cup {NoPromise}]
    /\ resolved \subseteq Call
    /\ stage \in [Call -> {"idle", "waiting", "inside", "done"}]
    /\ ticket \in [Call -> Nat]
    /\ arrivals \in Nat

MutexInit ==
    /\ tails = [k \in LockKey |-> NoPromise]
    /\ previous = [c \in Call |-> NoPromise]
    /\ resolved = {}
    /\ stage = [c \in Call |-> "idle"]
    /\ ticket = [c \in Call |-> 0]
    /\ arrivals = 0

(* Mutant: only the first of a queue becomes the tail. *)
QueueIfFree(c) == IF tails[On[c]] = NoPromise THEN [tails EXCEPT ![On[c]] = c] ELSE tails

(* this.tails.set(key, mine). *)
Queue(c) == [tails EXCEPT ![On[c]] = c]

(* Up to the await: read the tail, become the tail. *)
Enter(c) ==
    /\ stage[c] = "idle"
    /\ previous' = [previous EXCEPT ![c] = tails[On[c]]]
    /\ tails' = Queue(c)
    /\ stage' = [stage EXCEPT ![c] = "waiting"]
    /\ arrivals' = arrivals + 1
    /\ ticket' = [ticket EXCEPT ![c] = arrivals + 1]
    /\ UNCHANGED resolved

(* The await of previous returns and fn starts. *)
Proceed(c) ==
    /\ stage[c] = "waiting"
    /\ previous[c] \in resolved \cup {NoPromise}
    /\ stage' = [stage EXCEPT ![c] = "inside"]
    /\ UNCHANGED <<tails, previous, resolved, ticket, arrivals>>

(* Mutant: the release moved into the condition below it. *)
ReleaseIfTail(c) == IF tails[On[c]] = c THEN resolved \cup {c} ELSE resolved

(* Mutant: the promise resolved is the one it waited for. *)
ReleasePrevious(c) == resolved \cup {previous[c]}

(* release(). *)
Resolve(c) == resolved \cup {c}

(* Mutant: the entry is dropped whoever's it is. *)
DropAnyTail(c) == [tails EXCEPT ![On[c]] = NoPromise]

(* Mutant: the entry is never dropped. *)
KeepTail(c) == tails

(* The tail entry is dropped when nobody queued behind c. *)
DropTail(c) ==
    IF tails[On[c]] = c THEN [tails EXCEPT ![On[c]] = NoPromise] ELSE tails

(* fn settles, by returning or by throwing; the finally block runs. *)
Leave(c) ==
    /\ stage[c] = "inside"
    /\ resolved' = Resolve(c)
    /\ tails' = DropTail(c)
    /\ stage' = [stage EXCEPT ![c] = "done"]
    /\ UNCHANGED <<previous, ticket, arrivals>>

MutexNext == \E c \in Call : Enter(c) \/ Proceed(c) \/ Leave(c)

MutexSpec == MutexInit /\ [][MutexNext]_mutexVars

-------------------------------------------------------------------------------
(* Properties *)

Fifo ==
    INSTANCE FifoLock WITH
        Call <- Call, Key <- LockKey, On <- On,
        stage <- stage, ticket <- ticket, arrivals <- arrivals

(* Two calls of one key never run their functions at the same time (the    *)
(* check of submit and its reservation, or a reconciliation): also when a  *)
(* call arrives while another leaves and drops the tail.                   *)
MutualExclusion ==
    \A c, d \in Call :
        c # d /\ On[c] = On[d] => ~(stage[c] = "inside" /\ stage[d] = "inside")

(* The map holds an entry for exactly the keys somebody waits for or runs  *)
(* on, and it is the call that came last: a newcomer waits for all that    *)
(* came before it, and no key is left behind in the map.                   *)
TailIsLast ==
    \A k \in LockKey :
        LET active == {c \in Call : On[c] = k /\ stage[c] \in Queued}
        IN  IF tails[k] = NoPromise
            THEN active = {}
            ELSE /\ tails[k] \in active
                 /\ \A c \in active : ticket[c] <= ticket[tails[k]]

(* The chain of promises is a first-come-first-served lock: a call that    *)
(* waits only for the promise it read has waited for everyone before it.   *)
ImplementsFifoLock == Fifo!Spec
===============================================================================

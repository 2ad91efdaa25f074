------------------------------- MODULE FifoLock -------------------------------
(***************************************************************************)
(* What a lock per key promises its callers: one call of a key runs at a   *)
(* time, and the calls of a key run in the order in which they arrived.    *)
(* It says nothing of how: KeyedMutex is shown to implement it.            *)
(***************************************************************************)
EXTENDS Naturals

CONSTANTS
    Call,   \* the calls made in a behaviour
    Key,    \* what is locked
    On      \* the key each call locks

VARIABLES
    stage,      \* how far each call is
    ticket,     \* the number each call drew on arrival, 0 before
    arrivals    \* how many numbers have been drawn

vars == <<stage, ticket, arrivals>>

Init ==
    /\ stage = [c \in Call |-> "idle"]
    /\ ticket = [c \in Call |-> 0]
    /\ arrivals = 0

Arrive(c) ==
    /\ stage[c] = "idle"
    /\ stage' = [stage EXCEPT ![c] = "waiting"]
    /\ arrivals' = arrivals + 1
    /\ ticket' = [ticket EXCEPT ![c] = arrivals + 1]

(* The calls of c's key that arrived before c. *)
Ahead(c) == {d \in Call : On[d] = On[c] /\ stage[d] # "idle" /\ ticket[d] < ticket[c]}

Acquire(c) ==
    /\ stage[c] = "waiting"
    /\ \A d \in Ahead(c) : stage[d] = "done"
    /\ stage' = [stage EXCEPT ![c] = "inside"]
    /\ UNCHANGED <<ticket, arrivals>>

Leave(c) ==
    /\ stage[c] = "inside"
    /\ stage' = [stage EXCEPT ![c] = "done"]
    /\ UNCHANGED <<ticket, arrivals>>

Next == \E c \in Call : Arrive(c) \/ Acquire(c) \/ Leave(c)

Spec == Init /\ [][Next]_vars
===============================================================================

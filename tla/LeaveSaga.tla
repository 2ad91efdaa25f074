------------------------------- MODULE LeaveSaga -------------------------------
(***************************************************************************)
(* What a time-off request means to the two parties that keep books on it. *)
(* The service promises leave and confirms it, HCM takes the days and may  *)
(* give them back, and neither can act for the other: every step changes   *)
(* one side only.  Outbox, retries, replays and ledger are not mentioned;  *)
(* TimeOffSystem is shown to implement this.                               *)
(***************************************************************************)
CONSTANT Request

VARIABLES
  stage,     \* what the service has promised for each request
  taken,     \* requests whose days HCM has taken, or says so
  returned   \* requests whose days HCM has given back, or says so

vars == << stage, taken, returned >>

\* A request that ends is "dropped" if it was never approved and "ended" if
\* it was: only of the latter can HCM have heard.
Stage == { "new", "asked", "promised", "confirmed", "returning", "dropped", "ended" }

Init ==
  /\ stage = [r \in Request |-> "new"]
  /\ taken = {}
  /\ returned = {}

Move(r, from, to) ==
  /\ stage[r] = from
  /\ stage' = [stage EXCEPT ![r] = to]
  /\ UNCHANGED << taken, returned >>

Ask(r) == Move(r, "new", "asked")

Promise(r) == Move(r, "asked", "promised")

Drop(r) == Move(r, "new", "dropped") \/ Move(r, "asked", "dropped")

\* Cancelled, or refused by HCM.  The days may be taken all the same: before
\* this step, or by a command still on its way.
Break(r) == Move(r, "promised", "ended")

\* HCM takes the days of a request once, and only of one that was promised.
Take(r) ==
  /\ stage[r] \in {"promised", "ended"}
  /\ r \notin taken
  /\ taken' = taken \union {r}
  /\ UNCHANGED << stage, returned >>

\* The service calls leave committed only when HCM has taken the days.
Confirm(r) ==
  /\ r \in taken
  /\ Move(r, "promised", "confirmed")

AskBack(r) == Move(r, "confirmed", "returning")

\* HCM gives days back once, and only while the service asks for them.
Return(r) ==
  /\ stage[r] = "returning"
  /\ r \notin returned
  /\ returned' = returned \union {r}
  /\ UNCHANGED << stage, taken >>

\* The cancellation is complete only when HCM has given the days back.
Complete(r) ==
  /\ r \in returned
  /\ Move(r, "returning", "ended")

Next ==
  \E r \in Request :
    \/ Ask(r) \/ Promise(r) \/ Drop(r) \/ Break(r) \/ Take(r)
    \/ Confirm(r) \/ AskBack(r) \/ Return(r) \/ Complete(r)

Spec == Init /\ [][Next]_vars

==============================================================================

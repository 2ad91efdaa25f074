---------------------------- MODULE MCStatements -----------------------------
(* Three calls on one key, each asked to do any of the jobs below.  The      *)
(* order of the calls does not matter, so the jobs are dealt in the order of *)
(* the list.  Creates share nothing with the others: they run beside one     *)
(* submit.  Two creates are two ids, for the service draws a new one each    *)
(* time.                                                                     *)
EXTENDS Statements

CONSTANTS r1, r2, r3, r4, k1, c1, c2, c3, i1, i2, i3

MCCall == {c1, c2, c3}
OneKey == [r \in Request |-> k1]
MCOn == [c \in MCCall |-> k1]
TwoForTheSecond == [r \in Request |-> IF r = r2 THEN 2 ELSE 1]
TwoRetries == [r \in Request |-> CASE r = r1 -> i1 [] r = r2 -> i2 [] OTHER -> i3]
Down == {-1}

Jobs ==
  << [op |-> "submit", request |-> r1], [op |-> "submit", request |-> r2],
     [op |-> "approve", request |-> r1], [op |-> "reject", request |-> r1],
     [op |-> "cancel", request |-> r1], [op |-> "reconcile", request |-> r1],
     [op |-> "drain", request |-> r1], [op |-> "create", request |-> r3],
     [op |-> "create", request |-> r4] >>

Deal(i, j, k) == [c \in MCCall |-> Jobs[CASE c = c1 -> i [] c = c2 -> j [] c = c3 -> k]]

AnyThree ==
  { Deal(t[1], t[2], t[3]) :
      t \in { u \in (1 .. 7) \X (1 .. 7) \X (1 .. 7) : u[1] <= u[2] /\ u[2] <= u[3] } }

AnyThreeOrCreates == AnyThree \union { Deal(2, 8, 9) }
==============================================================================

----------------------------- MODULE MCTimeOff ------------------------------
EXTENDS TimeOffProperties, TLC

CONSTANTS r1, r2, k1, k2

OneKey == [r \in Request |-> k1]
TwoKeys == (r1 :> k1) @@ (r2 :> k2)

OneDay == [r \in Request |-> 1]
OneAndTwoDays == (r1 :> 1) @@ (r2 :> 2)

Symmetry == Permutations(Request)

UpAndDown == {-2, 1}
UpOnly == {1}
OneDown == {-1}
Never == {}

==============================================================================

------------------------------- MODULE MCApi -------------------------------
(* Two requests of one principal beside a worker, on MemoryStorage.        *)
EXTENDS Api

CONSTANTS w1, shared, a1, a2, ann

SharedOwner == [w \in Workers |-> shared]

PrincipalOf == [r \in Requests |-> ann]

PerPrincipalLimits == [l \in Limiters |-> IF l = "stream" THEN 2 ELSE 1]
TotalLimits == [l \in Limiters |-> 2]
=============================================================================

----------------------------- MODULE MCMeshNode -----------------------------
(* Model values for checking MeshNode: three nodes, two owners per route.   *)
EXTENDS MeshNode

CONSTANTS h, p1, p2, r1, t1

MCNode == {h, p1, p2}
MCRoute == {r1}
MCPass == {t1}
MCWeight == [r \in MCRoute |-> [n \in MCNode |-> IF n = h THEN 3 ELSE IF n = p1 THEN 5 ELSE 4]]
MCOffset == [n \in MCNode |-> 0]
=============================================================================

--------------------------- MODULE MCReplication ---------------------------
(* Model values for checking Replication: three nodes, one route, which two *)
(* of them own; p1's clock is behind Home's, p2's ahead.                    *)
EXTENDS Replication

CONSTANTS h, p1, p2, r1, t1

MCNode == {h, p1, p2}
MCRoute == {r1}
MCPass == {t1}
MCWeight == [r \in MCRoute |-> [n \in Node |-> IF n = h THEN 3 ELSE IF n = p1 THEN 5 ELSE 4]]
MCOffset == [n \in Node |-> IF n = h THEN 0 ELSE IF n = p1 THEN -1 ELSE 1]

=============================================================================

------------------------------- MODULE MCTurn -------------------------------
(* Model values for checking Turn: three clients with room for two buckets, *)
(* three secrets that overlap by just enough.                               *)
EXTENDS Turn, TLC

CONSTANTS c1, c2, c3, k1, k2, k3

MCClient == {c1, c2, c3}
MCSecret == {k1, k2, k3}
MCActivates == [k \in MCSecret |-> IF k = k1 THEN 0 ELSE IF k = k2 THEN 1 ELSE 2]
MCExpires == [k \in MCSecret |-> IF k = k1 THEN 2 ELSE IF k = k2 THEN 3 ELSE 5]
MCSymmetry == Permutations(MCClient)
=============================================================================

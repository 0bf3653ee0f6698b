------------------------------ MODULE MCRelay ------------------------------
(* Model values for checking Relay.                                        *)
EXTENDS Relay

CONSTANTS m1, m2, n1, s1

MCContent == {m1, m2}
MCNodeMessage == {n1}
MCSession == {s1}
=============================================================================

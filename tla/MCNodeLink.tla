----------------------------- MODULE MCNodeLink -----------------------------
(* Model values for checking NodeLink: a half-open socket and two attempts, *)
(* with either clock ahead.                                                 *)
EXTENDS NodeLink

CONSTANTS k1, k2, k3

MCSocket == {k1, k2, k3}
MCSkew == {-2, 0, 2}
=============================================================================

---------------------------- MODULE MCMembership ----------------------------
(* Model values for checking Membership.                                    *)
EXTENDS Membership

CONSTANTS p1, p2

MCPeer == {p1, p2}
=============================================================================

-------------------------- MODULE MCRouteRegistry --------------------------
(* Model values for checking RouteRegistry: a session of the node itself    *)
(* and one that two peers may announce.                                     *)
EXTENDS RouteRegistry, TLC

CONSTANTS self, p1, p2, near, far, r1, r2, none

MCPeer == {p1, p2}
MCOnePeer == {p1}
MCSession == {near, far}
MCLocal == {near}
MCRoute == {r1, r2}
MCOneRoute == {r1}
MCSymmetry == Permutations(MCPeer) \cup Permutations(MCRoute)
=============================================================================

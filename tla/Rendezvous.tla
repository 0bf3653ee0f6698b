----------------------------- MODULE Rendezvous -----------------------------
(***************************************************************************)
(* Which nodes own a route (NodeMesh.owners_for in app/node_mesh.py): the  *)
(* members with the highest digest of route tag and node id.  A digest is  *)
(* a weight here; that SHA-256 digests differ is an assumption.            *)
(***************************************************************************)
EXTENDS Integers, FiniteSets

CONSTANTS
  Node,     \* the configured nodes
  Route,    \* route tags
  Weight,   \* Weight[r][n]: sha256(r, n) read as a number
  Replicas  \* config.node_mesh_replica_count

ASSUME RendezvousAssumption ==
  /\ IsFiniteSet(Node)
  /\ Replicas \in Nat \ {0}
  /\ Weight \in [Route -> [Node -> Nat]]
  /\ \A r \in Route, m, n \in Node : Weight[r][m] = Weight[r][n] => m = n

(* The members ranked before n.                                            *)
Ahead(r, n, members) == {m \in members : Weight[r][m] > Weight[r][n]}

(* ranked[:count], as a set: its order is never used.                      *)
Owners(r, members) == {n \in members : Cardinality(Ahead(r, n, members)) < Replicas}

=============================================================================

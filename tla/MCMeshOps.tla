----------------------------- MODULE MCMeshOps -----------------------------
(* Model values for checking MeshOps: signals and queries share the limit.  *)
EXTENDS MeshOps

CONSTANTS g1, g2, q1

MCSignal == {g1, g2}
MCQuery == {q1}
=============================================================================

---------------------------- MODULE MCOutbound -----------------------------
(* Model values for checking Outbound: one client, small and large frames.  *)
EXTENDS Outbound

CONSTANTS s1, f1, f2, f3, f4

MCSession == {s1}
MCFrame == {f1, f2, f3, f4}
MCSizeOf == [f \in MCFrame |-> IF f = f3 THEN 2 ELSE 1]
=============================================================================

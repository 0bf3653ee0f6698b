------------------------------ MODULE Delivery ------------------------------
(***************************************************************************)
(* What NodeMesh.forward_signal promises the handler that awaits it: every *)
(* signal it is asked to forward is answered once; the answer is yes only  *)
(* if the other node has queued the signal for its target; and it is       *)
(* queued at most once.  A signal answered no, or not answered because the *)
(* mesh stopped and an exception left forward_signal, may still be queued, *)
(* before or after.  (That the call ends is OperationEnds of MeshOps.)     *)
(***************************************************************************)
CONSTANT Signal

VARIABLES
  answer,  \* "new", "asked", what forward_signal returned, or "raised"
  queued   \* signals queued for their target by the other node

vars == <<answer, queued>>

Init ==
  /\ answer = [s \in Signal |-> "new"]
  /\ queued = {}

Ask(s) ==
  /\ answer[s] = "new"
  /\ answer' = [answer EXCEPT ![s] = "asked"]
  /\ UNCHANGED queued

Queue(s) ==
  /\ answer[s] \in {"asked", "no", "raised"}
  /\ s \notin queued
  /\ queued' = queued \cup {s}
  /\ UNCHANGED answer

Yes(s) ==
  /\ answer[s] = "asked"
  /\ s \in queued
  /\ answer' = [answer EXCEPT ![s] = "yes"]
  /\ UNCHANGED queued

No(s) ==
  /\ answer[s] \in {"new", "asked"}
  /\ answer' = [answer EXCEPT ![s] = "no"]
  /\ UNCHANGED queued

Raise(s) ==
  /\ answer[s] = "asked"
  /\ answer' = [answer EXCEPT ![s] = "raised"]
  /\ UNCHANGED queued

Next == \E s \in Signal : Ask(s) \/ Queue(s) \/ Yes(s) \/ No(s) \/ Raise(s)

Spec == Init /\ [][Next]_vars
=============================================================================

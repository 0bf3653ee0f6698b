------------------------------ MODULE MeshOps ------------------------------
(***************************************************************************)
(* Requests over a mesh link: forward_signal and discover / _query_owner   *)
(* with their tables _pending_acks and _pending_queries, _bounded_send     *)
(* with the link's send lock, the other node's handling of SIGNAL_FORWARD  *)
(* and ROUTE_QUERY, ACK and ROUTE_RESULT, and stop (app/node_mesh.py).     *)
(*                                                                         *)
(* One node asks another.  Each operation gets an id of its own (a uuid),  *)
(* so an operation stands for its table entry, its request and its answer. *)
(* The link may be lost and claimed again at any time; a frame is never    *)
(* duplicated by it, and what the other node had already read it handles   *)
(* even after this one has given the link up.                              *)
(***************************************************************************)
EXTENDS Integers, FiniteSets, Sequences

CONSTANTS
  Signal,     \* calls of forward_signal, their targets bound to the other node
  Query,      \* calls of _query_owner
  MaxPending  \* config.node_mesh_max_pending_operations

Op == Signal \cup Query

ASSUME MeshOpsAssumption ==
  /\ IsFiniteSet(Op) /\ Signal \cap Query = {}
  /\ MaxPending \in Nat \ {0}

VARIABLES
  up,       \* connections holds the link
  stopped,  \* stop has run
  stage,    \* where each operation's coroutine is
  dead,     \* operations whose link was given up
  line,     \* operations at the link's send lock, first its holder
  pending,  \* ids in _pending_acks and _pending_queries
  future,   \* each operation's future
  message,  \* where its request or answer is
  queued    \* signals the other node has queued for their target

vars == <<up, stopped, stage, dead, line, pending, future, message, queued>>

Stage == {"new",
          "chosen",   \* a query created by discover, which has the link in hand
          "send",     \* in _bounded_send
          "wait",     \* in wait_for
          "yes", "no",
          "raised"}   \* CancelledError went to forward_signal's caller
Done == {"yes", "no", "raised"}
Future == {"none", "open", "yes", "no", "cancelled"}
Message == {"none", "request", "agreed", "refused",  \* handled, not yet answered
            "yes", "no", "gone"}

-----------------------------------------------------------------------------

Init ==
  /\ up = FALSE
  /\ stopped = FALSE
  /\ stage = [o \in Op |-> "new"]
  /\ dead = {}
  /\ line = <<>>
  /\ pending = {}
  /\ future = [o \in Op |-> "none"]
  /\ message = [o \in Op |-> "none"]
  /\ queued = {}

(* Mutant: the limit is passed by one.                                     *)
AtLimitLate == Cardinality(pending) > MaxPending

AtLimit == Cardinality(pending) >= MaxPending

(* The operation gives up before it has an entry: no link, or no room.     *)
Refuse(o) ==
  /\ stage[o] = (IF o \in Query THEN "chosen" ELSE "new")
  /\ AtLimit \/ (o \in Signal /\ ~up)
  /\ stage' = [stage EXCEPT ![o] = "no"]
  /\ UNCHANGED <<up, stopped, dead, line, pending, future, message, queued>>

(* discover takes the owner's link and leaves the query to gather, which   *)
(* starts it in a later turn of the event loop.                            *)
Choose(o) ==
  /\ o \in Query /\ stage[o] = "new" /\ up
  /\ stage' = [stage EXCEPT ![o] = "chosen"]
  /\ UNCHANGED <<up, stopped, dead, line, pending, future, message, queued>>

(* The entry is made and _bounded_send gets in line for the lock, without  *)
(* an await between the limit and the entry.                               *)
Start(o) ==
  /\ IF o \in Query THEN stage[o] = "chosen" ELSE stage[o] = "new" /\ up
  /\ ~AtLimit
  /\ pending' = pending \cup {o}
  /\ future' = [future EXCEPT ![o] = "open"]
  /\ stage' = [stage EXCEPT ![o] = "send"]
  /\ line' = IF o \in dead THEN line ELSE Append(line, o)
  /\ UNCHANGED <<up, stopped, dead, message, queued>>

(* The holder of the lock has sent its request.                            *)
Sent(o) ==
  /\ stage[o] = "send" /\ line # <<>> /\ o = Head(line)
  /\ line' = Tail(line)
  /\ message' = [message EXCEPT ![o] = "request"]
  /\ stage' = [stage EXCEPT ![o] = "wait"]
  /\ UNCHANGED <<up, stopped, dead, pending, future, queued>>

(* Mutant: the entry stays when the request cannot be sent.                *)
AfterFailedSendKept(o) == pending

AfterFailedSend(o) == pending \ {o}

(* The send timed out or raised: no answer is waited for, although the     *)
(* request may have gone out.                                              *)
SendFails(o, out) ==
  /\ stage[o] = "send"
  /\ o \in dead \/ (line # <<>> /\ o = Head(line))
  /\ out => o \notin dead
  /\ line' = IF o \in dead THEN line ELSE Tail(line)
  /\ message' = IF out THEN [message EXCEPT ![o] = "request"] ELSE message
  /\ stage' = [stage EXCEPT ![o] = "no"]
  /\ pending' = AfterFailedSend(o)
  /\ UNCHANGED <<up, stopped, dead, future, queued>>

-----------------------------------------------------------------------------
(* The other node's receive loop.                                          *)

(* SIGNAL_FORWARD, found valid and its target's queue willing, or not;     *)
(* ROUTE_QUERY, which always has an answer.                                *)
Handle(o, accepts) ==
  /\ message[o] = "request"
  /\ o \in Query => accepts
  /\ message' = [message EXCEPT ![o] = IF accepts THEN "agreed" ELSE "refused"]
  /\ queued' = IF accepts /\ o \in Signal THEN queued \cup {o} ELSE queued
  /\ UNCHANGED <<up, stopped, stage, dead, line, pending, future>>

(* ACK or ROUTE_RESULT.                                                    *)
Answer(o) ==
  /\ message[o] \in {"agreed", "refused"}
  /\ message' = [message EXCEPT ![o] =
       IF o \in dead THEN "gone" ELSE IF @ = "agreed" THEN "yes" ELSE "no"]
  /\ UNCHANGED <<up, stopped, stage, dead, line, pending, future, queued>>

(* A request or an answer is lost: with its link, to a full seen cache, or *)
(* to an answer's send that times out.                                     *)
Lose(o) ==
  /\ message[o] \notin {"none", "gone"}
  /\ message' = [message EXCEPT ![o] = "gone"]
  /\ UNCHANGED <<up, stopped, stage, dead, line, pending, future, queued>>

-----------------------------------------------------------------------------

(* Mutant: an ACK is taken for a yes without looking at "delivered".       *)
ResultAnyAck(o) == "yes"

Result(o) == message[o]

(* This node's receive loop meets an answer: the entry may be gone, and    *)
(* the future may be done.                                                 *)
Receive(o) ==
  /\ message[o] \in {"yes", "no"} /\ o \notin dead
  /\ message' = [message EXCEPT ![o] = "gone"]
  /\ future' = IF o \in pending /\ future[o] = "open"
               THEN [future EXCEPT ![o] = Result(o)] ELSE future
  /\ UNCHANGED <<up, stopped, stage, dead, line, pending, queued>>

(* Mutant: only a forwarded signal has a deadline.                         *)
MayTimeOutSignals(o) == future[o] = "open" /\ o \in Signal

MayTimeOut(o) == future[o] = "open"

(* What the caller gets once the wait is over.  A query that is answered   *)
(* has a list, however short.  Only TimeoutError is caught: when stop has  *)
(* cancelled the future, CancelledError leaves forward_signal, while       *)
(* gather keeps it from the caller of discover.                            *)
Outcome(o) ==
  CASE future[o] = "yes" -> "yes"
    [] future[o] = "cancelled" /\ o \in Signal -> "raised"
    [] OTHER -> "no"

(* wait_for returns the result, or raises as its time is up or the future  *)
(* was cancelled, and the finally clause drops the entry.                  *)
Finish(o) ==
  /\ stage[o] = "wait"
  /\ future[o] # "open" \/ MayTimeOut(o)
  /\ stage' = [stage EXCEPT ![o] = Outcome(o)]
  /\ future' = [future EXCEPT ![o] = IF @ = "open" THEN "cancelled" ELSE @]
  /\ pending' = pending \ {o}
  /\ UNCHANGED <<up, stopped, dead, line, message, queued>>

(* The link is claimed; its lock is new.                                   *)
LinkUp ==
  /\ ~up /\ ~stopped
  /\ up' = TRUE
  /\ UNCHANGED <<stopped, stage, dead, line, pending, future, message, queued>>

(* Operations that hold the link, or have used it.                         *)
OnLink == {o \in Op : stage[o] # "new"}

(* The link is given up with its lock: whoever is in line finds a closed   *)
(* socket, and no answer comes over it any more.                           *)
LinkDown ==
  /\ up
  /\ up' = FALSE
  /\ dead' = dead \cup OnLink
  /\ line' = <<>>
  /\ UNCHANGED <<stopped, stage, pending, future, message, queued>>

(* stop: every link closed, open futures cancelled, both tables cleared.   *)
Stop ==
  /\ ~stopped
  /\ stopped' = TRUE
  /\ up' = FALSE
  /\ dead' = dead \cup OnLink
  /\ line' = <<>>
  /\ future' = [o \in Op |->
       IF o \in pending /\ future[o] = "open" THEN "cancelled" ELSE future[o]]
  /\ pending' = {}
  /\ UNCHANGED <<stage, message, queued>>

-----------------------------------------------------------------------------

Next ==
  \/ \E o \in Op :
       \/ Refuse(o)
       \/ Choose(o)
       \/ Start(o)
       \/ Sent(o)
       \/ \E out \in BOOLEAN : SendFails(o, out)
       \/ \E accepts \in BOOLEAN : Handle(o, accepts)
       \/ Answer(o)
       \/ Lose(o)
       \/ Receive(o)
       \/ Finish(o)
  \/ LinkUp
  \/ LinkDown
  \/ Stop

Spec == Init /\ [][Next]_vars

(* The event loop runs a coroutine that was created, the deadline of       *)
(* _bounded_send ends every send, and that of wait_for every wait.         *)
(* Nothing is assumed of the other node or of the link.                    *)
Fairness ==
  \A o \in Op :
    /\ WF_vars(stage[o] = "chosen" /\ (Start(o) \/ Refuse(o)))
    /\ WF_vars(Sent(o) \/ \E out \in BOOLEAN : SendFails(o, out))
    /\ WF_vars(Finish(o))

FairSpec == Spec /\ Fairness

-----------------------------------------------------------------------------
(* Properties.                                                             *)

(* Every variable stays in its domain.                                     *)
TypeOK ==
  /\ up \in BOOLEAN /\ stopped \in BOOLEAN
  /\ stage \in [Op -> Stage]
  /\ dead \subseteq Op
  /\ line \in Seq(Op)
  /\ pending \subseteq Op
  /\ future \in [Op -> Future]
  /\ message \in [Op -> Message]
  /\ queued \subseteq Signal

(* The two tables together never pass the configured limit, although it is *)
(* tested by coroutines that discover starts together.                     *)
PendingBound == Cardinality(pending) <= MaxPending

(* The tables hold no entry of an operation that has ended, however it     *)
(* ended: an entry that stayed would count against the limit for ever.     *)
(* Until stop, they hold every operation that has begun, so that its       *)
(* answer finds it.                                                        *)
PendingExact ==
  /\ \A o \in pending : stage[o] \in {"send", "wait"}
  /\ ~stopped => \A o \in Op : stage[o] \in {"send", "wait"} => o \in pending

(* Every operation that begins ends: an answer that is lost, late or never *)
(* sent, a link given up and stop itself leave no handler waiting.         *)
OperationEnds ==
  \A o \in Op : stage[o] \in {"chosen", "send", "wait"} ~> stage[o] \in Done

SignalAnswer ==
  [s \in Signal |-> IF stage[s] \in {"send", "wait"} THEN "asked" ELSE stage[s]]

D == INSTANCE Delivery WITH answer <- SignalAnswer

(* forward_signal keeps its promise: it implements Delivery.               *)
DeliverySpec == D!Spec
=============================================================================

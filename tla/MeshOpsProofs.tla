--------------------------- MODULE MeshOpsProofs ---------------------------
(***************************************************************************)
(* Proofs for MeshOps: the pending tables hold exactly the operations in   *)
(* flight and keep their limit, and forward_signal implements Delivery.    *)
(* And, in the second part, for NodeLink: how the link under them is       *)
(* claimed and given up.                                                   *)
(***************************************************************************)
EXTENDS MeshOps, NodeLink, FiniteSetTheorems, TLAPS

(* What is known of a request and its answer: nothing is out before the    *)
(* request was sent, and every yes on its way stands for a queued signal.  *)
AnswerTrue ==
  /\ \A o \in Op : stage[o] \in {"new", "chosen", "send"} => message[o] = "none"
  /\ \A s \in Signal : stage[s] # "chosen"
  /\ \A s \in Signal : message[s] \in {"none", "request"} => s \notin queued
  /\ \A s \in Signal : message[s] \in {"agreed", "yes"} => s \in queued
  /\ \A s \in Signal : future[s] = "yes" => s \in queued
  /\ \A s \in Signal : stage[s] = "yes" => s \in queued

OpsInv == TypeOK /\ PendingBound /\ PendingExact /\ AnswerTrue

LEMMA PendingFinite ==
  ASSUME NEW S \in SUBSET Op, NEW o \in Op
  PROVE  /\ Cardinality(S) \in Nat
         /\ Cardinality(S \cup {o}) <= Cardinality(S) + 1
         /\ Cardinality(S \ {o}) <= Cardinality(S)
         /\ Cardinality(S \ {o}) \in Nat /\ Cardinality(S \cup {o}) \in Nat
<1>1. IsFiniteSet(S) /\ IsFiniteSet(S \ {o}) /\ IsFiniteSet(S \cup {o})
  <2>1. IsFiniteSet(Op) /\ S \ {o} \in SUBSET Op /\ S \cup {o} \in SUBSET Op
    BY MeshOpsAssumption
  <2> QED
    BY <2>1, FS_Subset
<1>2. Cardinality(S) \in Nat /\ Cardinality(S \ {o}) \in Nat /\ Cardinality(S \cup {o}) \in Nat
  BY <1>1, FS_CardinalityType
<1>3. Cardinality(S \cup {o}) <= Cardinality(S) + 1
  BY <1>1, <1>2, FS_AddElement
<1>4. Cardinality(S \ {o}) <= Cardinality(S)
  BY <1>1, FS_Subset, S \ {o} \in SUBSET S
<1> QED
  BY <1>2, <1>3, <1>4

LEMMA LineTypes ==
  ASSUME NEW q \in Seq(Op), NEW o \in Op
  PROVE  /\ Append(q, o) \in Seq(Op)
         /\ q # <<>> => Tail(q) \in Seq(Op)
  OBVIOUS

LEMMA EmptyLine == <<>> \in Seq(Op)
  OBVIOUS

LEMMA OpsInit == Init => OpsInv
<1> SUFFICES ASSUME Init PROVE OpsInv
  OBVIOUS
<1>1. TypeOK /\ PendingExact
  BY EmptyLine DEF Init, TypeOK, PendingExact, Stage, Future, Message
<1>2. PendingBound
  BY FS_EmptySet, MeshOpsAssumption DEF Init, PendingBound
<1>3. AnswerTrue
  BY DEF Init, AnswerTrue, Op
<1> QED
  BY <1>1, <1>2, <1>3 DEF OpsInv

LEMMA OpsStep == OpsInv /\ [Next]_vars => OpsInv'
<1> SUFFICES ASSUME OpsInv, [Next]_vars PROVE OpsInv'
  OBVIOUS
<1> USE MeshOpsAssumption DEF Stage, Future, Message, OpsInv
<1>1. ASSUME NEW o \in Op, Refuse(o) PROVE OpsInv'
  BY <1>1 DEF Refuse, TypeOK, PendingBound, PendingExact, AnswerTrue, Op
<1>2. ASSUME NEW o \in Op, Choose(o) PROVE OpsInv'
  BY <1>2 DEF Choose, TypeOK, PendingBound, PendingExact, AnswerTrue, Op
<1>3. ASSUME NEW o \in Op, Start(o) PROVE OpsInv'
  <2>1. TypeOK'
    BY <1>3, LineTypes DEF Start, TypeOK
  <2>2. PendingBound'
    <3>1. pending \in SUBSET Op /\ pending' = pending \cup {o}
      BY <1>3 DEF Start, TypeOK
    <3>2. /\ Cardinality(pending) \in Nat /\ Cardinality(pending \cup {o}) \in Nat
          /\ Cardinality(pending \cup {o}) <= Cardinality(pending) + 1
      BY <3>1, PendingFinite
    <3> QED
      BY <1>3, <3>1, <3>2 DEF Start, AtLimit, PendingBound
  <2>3. PendingExact'
    BY <1>3 DEF Start, TypeOK, PendingExact
  <2>4. AnswerTrue'
    BY <1>3 DEF Op, Start, TypeOK, AnswerTrue
  <2> QED
    BY <2>1, <2>2, <2>3, <2>4
<1>4. ASSUME NEW o \in Op, Sent(o) PROVE OpsInv'
  <2>1. TypeOK'
    BY <1>4, LineTypes DEF Sent, TypeOK
  <2>2. PendingBound' /\ PendingExact'
    BY <1>4 DEF Sent, TypeOK, PendingBound, PendingExact
  <2>3. AnswerTrue'
    BY <1>4 DEF Op, Sent, TypeOK, AnswerTrue
  <2> QED
    BY <2>1, <2>2, <2>3
<1>5. ASSUME NEW o \in Op, NEW out \in BOOLEAN, SendFails(o, out) PROVE OpsInv'
  <2>1. TypeOK'
    <3>1. line' \in Seq(Op)
      BY <1>5, LineTypes DEF SendFails, TypeOK
    <3> QED
      BY <1>5, <3>1 DEF SendFails, AfterFailedSend, TypeOK
  <2>2. PendingBound'
    <3>1. pending \in SUBSET Op /\ pending' = pending \ {o}
      BY <1>5 DEF SendFails, AfterFailedSend, TypeOK
    <3>2. /\ Cardinality(pending) \in Nat /\ Cardinality(pending \ {o}) \in Nat
          /\ Cardinality(pending \ {o}) <= Cardinality(pending)
      BY <3>1, PendingFinite
    <3> QED
      BY <1>5, <3>1, <3>2 DEF PendingBound
  <2>3. PendingExact'
    BY <1>5 DEF SendFails, AfterFailedSend, TypeOK, PendingExact
  <2>4. AnswerTrue'
    BY <1>5 DEF Op, SendFails, TypeOK, AnswerTrue
  <2> QED
    BY <2>1, <2>2, <2>3, <2>4
<1>6. ASSUME NEW o \in Op, NEW accepts \in BOOLEAN, Handle(o, accepts) PROVE OpsInv'
  <2>1. TypeOK' /\ PendingBound' /\ PendingExact'
    BY <1>6 DEF Op, Handle, TypeOK, PendingBound, PendingExact
  <2>2. AnswerTrue'
    BY <1>6 DEF Op, Handle, TypeOK, AnswerTrue
  <2> QED
    BY <2>1, <2>2
<1>7. ASSUME NEW o \in Op, Answer(o) PROVE OpsInv'
  BY <1>7 DEF Answer, TypeOK, PendingBound, PendingExact, AnswerTrue, Op
<1>8. ASSUME NEW o \in Op, Lose(o) PROVE OpsInv'
  BY <1>8 DEF Lose, TypeOK, PendingBound, PendingExact, AnswerTrue, Op
<1>9. ASSUME NEW o \in Op, Receive(o) PROVE OpsInv'
  <2>1. TypeOK' /\ PendingBound' /\ PendingExact'
    BY <1>9 DEF Receive, Result, TypeOK, PendingBound, PendingExact
  <2>2. AnswerTrue'
    BY <1>9 DEF Op, Receive, Result, TypeOK, AnswerTrue
  <2> QED
    BY <2>1, <2>2
<1>10. ASSUME NEW o \in Op, Finish(o) PROVE OpsInv'
  <2>1. TypeOK' /\ PendingExact'
    BY <1>10 DEF Finish, Outcome, TypeOK, PendingExact
  <2>2. PendingBound'
    <3>1. pending \in SUBSET Op /\ pending' = pending \ {o}
      BY <1>10 DEF Finish, TypeOK
    <3>2. /\ Cardinality(pending) \in Nat /\ Cardinality(pending \ {o}) \in Nat
          /\ Cardinality(pending \ {o}) <= Cardinality(pending)
      BY <3>1, PendingFinite
    <3> QED
      BY <1>10, <3>1, <3>2 DEF PendingBound
  <2>3. AnswerTrue'
    BY <1>10 DEF Op, Finish, Outcome, TypeOK, AnswerTrue
  <2> QED
    BY <2>1, <2>2, <2>3
<1>11. ASSUME LinkUp \/ LinkDown PROVE OpsInv'
  <2>1. TypeOK'
    BY <1>11, EmptyLine DEF LinkUp, LinkDown, OnLink, TypeOK
  <2> QED
    BY <1>11, <2>1 DEF LinkUp, LinkDown, TypeOK, PendingBound, PendingExact, AnswerTrue, Op
<1>12. ASSUME Stop PROVE OpsInv'
  <2>1. TypeOK'
    BY <1>12, EmptyLine DEF Stop, OnLink, TypeOK
  <2>3. PendingExact' /\ AnswerTrue'
    BY <1>12 DEF Stop, TypeOK, PendingExact, AnswerTrue, Op
  <2>2. PendingBound'
    BY <1>12, FS_EmptySet DEF Stop, PendingBound
  <2> QED
    BY <2>1, <2>2, <2>3
<1>13. CASE UNCHANGED vars
  BY <1>13 DEF vars, TypeOK, PendingBound, PendingExact, AnswerTrue, Op
<1> QED
  BY <1>1, <1>2, <1>3, <1>4, <1>5, <1>6, <1>7, <1>8, <1>9, <1>10, <1>11, <1>12, <1>13
  DEF Next

LEMMA OpsAlways == Spec => []OpsInv
  BY OpsInit, OpsStep, PTL DEF Spec

(* Every field of the model keeps its type.                                *)
THEOREM OpsTypes == Spec => []TypeOK
<1>1. OpsInv => TypeOK
  BY DEF OpsInv
<1> QED
  BY <1>1, OpsAlways, PTL

(* _pending_acks and _pending_queries together never pass the limit.       *)
THEOREM OpsPendingBound == Spec => []PendingBound
<1>1. OpsInv => PendingBound
  BY DEF OpsInv
<1> QED
  BY <1>1, OpsAlways, PTL

(* The tables hold exactly the operations in flight: none is leaked by a   *)
(* failed send, a time-out, a lost link or stop.                           *)
THEOREM OpsPendingExact == Spec => []PendingExact
<1>1. OpsInv => PendingExact
  BY DEF OpsInv
<1> QED
  BY <1>1, OpsAlways, PTL

-----------------------------------------------------------------------------
(* The refinement.                                                         *)

LEMMA DeliveryInit == Init => D!Init
  BY DEF Init, D!Init, SignalAnswer, Op

LEMMA DeliveryStep == OpsInv /\ [Next]_vars => [D!Next]_(D!vars)
<1> SUFFICES ASSUME OpsInv, [Next]_vars PROVE [D!Next]_(D!vars)
  OBVIOUS
<1> USE DEF Op, OpsInv
<1> DEFINE Same == SignalAnswer' = SignalAnswer /\ queued' = queued
<1>1. Same => [D!Next]_(D!vars)
  BY DEF D!vars
<1>2. stage' = stage /\ queued' = queued => Same
  BY DEF SignalAnswer
<1>3. ASSUME NEW o \in Op, NEW b, stage' = [stage EXCEPT ![o] = b],
             o \in Signal => (IF stage[o] \in {"send", "wait"} THEN "asked" ELSE stage[o])
                             = (IF b \in {"send", "wait"} THEN "asked" ELSE b)
      PROVE  SignalAnswer' = SignalAnswer
  BY <1>3 DEF TypeOK, SignalAnswer
<1>4. ASSUME NEW o \in Signal, NEW b, stage' = [stage EXCEPT ![o] = b]
      PROVE  SignalAnswer' = [SignalAnswer EXCEPT ![o] =
                                IF b \in {"send", "wait"} THEN "asked" ELSE b]
  BY <1>4 DEF TypeOK, SignalAnswer
<1>5. \A s \in Signal : SignalAnswer[s] =
        (IF stage[s] \in {"send", "wait"} THEN "asked" ELSE stage[s])
  BY DEF SignalAnswer
<1>6. ASSUME NEW o \in Op, Refuse(o) \/ Choose(o) \/ Start(o) PROVE [D!Next]_(D!vars)
  <2>1. CASE o \in Query
    <3>1. o \notin Signal /\ queued' = queued
      BY <1>6, <2>1, MeshOpsAssumption DEF Refuse, Choose, Start
    <3>2. PICK b : stage' = [stage EXCEPT ![o] = b]
      BY <1>6 DEF Refuse, Choose, Start
    <3> QED
      BY <1>1, <1>3, <3>1, <3>2
  <2>2. CASE o \in Signal /\ Refuse(o)
    <3>1. SignalAnswer' = [SignalAnswer EXCEPT ![o] = "no"] /\ queued' = queued
      BY <1>4, <2>2 DEF Refuse
    <3>2. SignalAnswer[o] = "new"
      BY <1>5, <2>2, MeshOpsAssumption DEF Refuse
    <3> QED
      BY <2>2, <3>1, <3>2 DEF D!Next, D!No
  <2>3. CASE o \in Signal /\ Start(o)
    <3>1. SignalAnswer' = [SignalAnswer EXCEPT ![o] = "asked"] /\ queued' = queued
      BY <1>4, <2>3 DEF Start
    <3>2. SignalAnswer[o] = "new"
      BY <1>5, <2>3, MeshOpsAssumption DEF Start
    <3> QED
      BY <2>3, <3>1, <3>2 DEF D!Next, D!Ask
  <2> QED
    BY <1>6, <2>1, <2>2, <2>3, MeshOpsAssumption DEF Choose
<1>7. ASSUME NEW o \in Op, Sent(o) PROVE [D!Next]_(D!vars)
  BY <1>1, <1>3, <1>7 DEF Sent
<1>8. ASSUME NEW o \in Op, NEW out \in BOOLEAN, SendFails(o, out) PROVE [D!Next]_(D!vars)
  <2>1. CASE o \notin Signal
    BY <1>1, <1>3, <1>8, <2>1 DEF SendFails
  <2>2. CASE o \in Signal
    <3>1. SignalAnswer' = [SignalAnswer EXCEPT ![o] = "no"] /\ queued' = queued
      BY <1>4, <1>8, <2>2 DEF SendFails
    <3>2. SignalAnswer[o] = "asked"
      BY <1>5, <1>8, <2>2 DEF SendFails
    <3> QED
      BY <2>2, <3>1, <3>2 DEF D!Next, D!No
  <2> QED
    BY <2>1, <2>2
<1>9. ASSUME NEW o \in Op, NEW accepts \in BOOLEAN, Handle(o, accepts)
      PROVE  [D!Next]_(D!vars)
  <2>1. CASE ~(o \in Signal /\ accepts)
    BY <1>1, <1>2, <1>9, <2>1 DEF Handle
  <2>2. CASE o \in Signal /\ accepts
    <3>1. SignalAnswer' = SignalAnswer /\ queued' = queued \cup {o} /\ o \notin queued
      BY <1>9, <2>2 DEF Handle, SignalAnswer, AnswerTrue
    <3>2. stage[o] \in {"wait", "no", "raised"}
      BY <1>9, <2>2 DEF Handle, AnswerTrue, TypeOK, Stage
    <3>3. SignalAnswer[o] \in {"asked", "no", "raised"}
      BY <1>5, <2>2, <3>2
    <3> QED
      BY <2>2, <3>1, <3>3 DEF D!Next, D!Queue
  <2> QED
    BY <2>1, <2>2
<1>10. ASSUME NEW o \in Op, Answer(o) \/ Lose(o) \/ Receive(o) PROVE [D!Next]_(D!vars)
  BY <1>1, <1>2, <1>10 DEF Answer, Lose, Receive
<1>11. ASSUME NEW o \in Op, Finish(o) PROVE [D!Next]_(D!vars)
  <2>1. CASE o \notin Signal
    <3>1. PICK b : stage' = [stage EXCEPT ![o] = b]
      BY <1>11 DEF Finish
    <3>2. queued' = queued
      BY <1>11 DEF Finish
    <3> QED
      BY <1>1, <1>3, <2>1, <3>1, <3>2
  <2>2. CASE o \in Signal
    <3>1. SignalAnswer[o] = "asked" /\ queued' = queued
      BY <1>5, <1>11, <2>2 DEF Finish
    <3>2. CASE future[o] = "yes"
      <4>1. SignalAnswer' = [SignalAnswer EXCEPT ![o] = "yes"] /\ o \in queued
        BY <1>4, <1>11, <2>2, <3>2 DEF Finish, Outcome, AnswerTrue
      <4> QED
        BY <2>2, <3>1, <4>1 DEF D!Next, D!Yes
    <3>3. CASE future[o] = "cancelled"
      <4>1. SignalAnswer' = [SignalAnswer EXCEPT ![o] = "raised"]
        BY <1>4, <1>11, <2>2, <3>3 DEF Finish, Outcome
      <4> QED
        BY <2>2, <3>1, <4>1 DEF D!Next, D!Raise
    <3>4. CASE future[o] \notin {"yes", "cancelled"}
      <4>1. SignalAnswer' = [SignalAnswer EXCEPT ![o] = "no"]
        BY <1>4, <1>11, <2>2, <3>4 DEF Finish, Outcome
      <4> QED
        BY <2>2, <3>1, <4>1 DEF D!Next, D!No
    <3> QED
      BY <3>2, <3>3, <3>4
  <2> QED
    BY <2>1, <2>2
<1>12. ASSUME LinkUp \/ LinkDown \/ Stop PROVE [D!Next]_(D!vars)
  BY <1>1, <1>2, <1>12 DEF LinkUp, LinkDown, Stop
<1>13. CASE UNCHANGED vars
  BY <1>1, <1>2, <1>13 DEF vars
<1> QED
  BY <1>6, <1>7, <1>8, <1>9, <1>10, <1>11, <1>12, <1>13 DEF Next

(* forward_signal implements the safety part of Delivery: it says yes only *)
(* if the signal was queued, answers once, and queues at most once.        *)
THEOREM OpsDelivers == Spec => DeliverySpec
<1>1. Init => D!Init
  BY DeliveryInit
<1>2. OpsInv /\ [Next]_vars => [D!Next]_(D!vars)
  BY DeliveryStep
<1> QED
  BY <1>1, <1>2, OpsAlways, PTL DEF Spec, DeliverySpec, D!Spec

-----------------------------------------------------------------------------
(* NodeLink.                                                               *)

(* a has a socket exactly while it is not asleep.                          *)
OneSocket == (dialer = "sleep" => sock = None) /\ (dialer # "sleep" => sock \in Socket)

LinkInv == LinkTypeOK /\ OneSocket /\ ClaimedIsReceived

LEMMA LinkInitial == LinkInit => LinkInv
<1> SUFFICES ASSUME LinkInit PROVE LinkInv
  OBVIOUS
<1>1. TTL \in 0 .. TTL /\ 0 \in 0 .. MaxDelay /\ 1 \in 1 .. MaxDelay
  BY NodeLinkAssumption
<1>2. LinkTypeOK
  BY <1>1 DEF LinkInit, LinkTypeOK
<1>3. OneSocket /\ ClaimedIsReceived
  BY NodeLinkAssumption DEF LinkInit, OneSocket, ClaimedIsReceived
<1> QED
  BY <1>2, <1>3 DEF LinkInv

LEMMA ServedAge == ASSUME LinkTypeOK, NEW n \in {"a", "b"} PROVE Served(n) \in 0 .. TTL
  BY NodeLinkAssumption DEF LinkTypeOK, Served

LEMMA DoubledDelay == ASSUME LinkTypeOK PROVE Doubled \in 1 .. MaxDelay
  BY NodeLinkAssumption DEF LinkTypeOK, Doubled

LEMMA BackOffKeeps ==
  ASSUME LinkInv, dialer # "sleep", BackOff, claimA' = None,
         UNCHANGED <<offset, calm, age, handler, claimB>>
  PROVE  LinkInv'
<1> USE NodeLinkAssumption DEF LinkInv
<1>1. /\ wire' = [wire EXCEPT ![sock] = "down"] /\ dialer' = "sleep" /\ wait' = delay
      /\ delay' = Doubled /\ sock' = None /\ reply' = reply \ {sock}
  BY DEF BackOff
<1>2. LinkTypeOK'
  BY <1>1, DoubledDelay DEF LinkTypeOK, OneSocket
<1>3. OneSocket' /\ ClaimedIsReceived'
  BY <1>1 DEF OneSocket, ClaimedIsReceived
<1> QED
  BY <1>2, <1>3

LEMMA LinkStep == LinkInv /\ [LinkNext]_linkVars => LinkInv'
<1> SUFFICES ASSUME LinkInv, [LinkNext]_linkVars PROVE LinkInv'
  OBVIOUS
<1> USE NodeLinkAssumption DEF LinkInv
<1>1. ASSUME NEW k \in Socket, Dial(k) PROVE LinkInv'
  <2>1. LinkTypeOK'
    BY <1>1, ServedAge DEF Dial, LinkTypeOK
  <2>2. OneSocket' /\ ClaimedIsReceived'
    BY <1>1 DEF Dial, LinkTypeOK, OneSocket, ClaimedIsReceived
  <2> QED
    BY <2>1, <2>2
<1>2. ASSUME NEW k \in Socket, Authenticate(k) PROVE LinkInv'
  <2>1. LinkTypeOK'
    BY <1>2, ServedAge DEF Authenticate, TurnAway, LinkTypeOK
  <2>2. OneSocket' /\ ClaimedIsReceived'
    BY <1>2 DEF Authenticate, TurnAway, LinkTypeOK, OneSocket, ClaimedIsReceived
  <2> QED
    BY <2>1, <2>2
<1>3. ASSUME NEW k \in Socket, Claim(k) PROVE LinkInv'
  <2>1. LinkTypeOK'
    BY <1>3 DEF Claim, TurnAway, LinkTypeOK
  <2>2. OneSocket' /\ ClaimedIsReceived'
    BY <1>3 DEF Claim, TurnAway, MayClaim, LinkTypeOK, OneSocket, ClaimedIsReceived
  <2> QED
    BY <2>1, <2>2
<1>4. ASSUME NEW k \in Socket, AcceptorLoopEnds(k) PROVE LinkInv'
  <2>1. LinkTypeOK'
    BY <1>4 DEF AcceptorLoopEnds, LinkTypeOK
  <2>2. OneSocket' /\ ClaimedIsReceived'
    BY <1>4 DEF AcceptorLoopEnds, LinkTypeOK, OneSocket, ClaimedIsReceived
  <2> QED
    BY <2>1, <2>2
<1>12. ASSUME NEW k \in Socket, AcceptorEnters(k) PROVE LinkInv'
  <2>1. LinkTypeOK'
    BY <1>12 DEF AcceptorEnters, LinkTypeOK
  <2>2. OneSocket' /\ ClaimedIsReceived'
    BY <1>12 DEF AcceptorEnters, LinkTypeOK, OneSocket, ClaimedIsReceived
  <2> QED
    BY <2>1, <2>2
<1>5. ASSUME NEW k \in Socket, Cut(k) PROVE LinkInv'
  BY <1>5 DEF Cut, LinkTypeOK, OneSocket, ClaimedIsReceived
<1>6. ASSUME ReadHello PROVE LinkInv'
  <2>1. CASE Accepts("a", age["b"])
    <3>1. LinkTypeOK' /\ OneSocket'
      BY <1>6, <2>1 DEF ReadHello, LinkTypeOK, OneSocket
    <3>2. ClaimedIsReceived'
      BY <1>6, <2>1 DEF ReadHello, ClaimedIsReceived
    <3> QED
      BY <3>1, <3>2
  <2>2. CASE ~Accepts("a", age["b"])
    <3>1. BackOff /\ claimA' = None /\ dialer = "hello"
      BY <1>6, <2>2 DEF ReadHello, ClaimedIsReceived
    <3> QED
      BY <1>6, <3>1, BackOffKeeps DEF ReadHello
  <2> QED
    BY <2>1, <2>2
<1>7. ASSUME NoHello PROVE LinkInv'
  <2>1. BackOff /\ claimA' = None /\ dialer = "hello"
    BY <1>7 DEF NoHello, ClaimedIsReceived
  <2> QED
    BY <1>7, <2>1, BackOffKeeps DEF NoHello
<1>13. ASSUME DialerEnters PROVE LinkInv'
  BY <1>13 DEF DialerEnters, LinkTypeOK, OneSocket, ClaimedIsReceived
<1>8. ASSUME DialerLoopEnds PROVE LinkInv'
  BY <1>8, BackOffKeeps DEF DialerLoopEnds
<1>9. ASSUME Calm PROVE LinkInv'
  BY <1>9 DEF Calm, LinkTypeOK, OneSocket, ClaimedIsReceived
<1>10. ASSUME Tick PROVE LinkInv'
  <2>1. LinkTypeOK'
    BY <1>10 DEF Tick, LinkTypeOK
  <2>2. OneSocket' /\ ClaimedIsReceived'
    BY <1>10 DEF Tick, OneSocket, ClaimedIsReceived
  <2> QED
    BY <2>1, <2>2
<1>11. CASE UNCHANGED linkVars
  BY <1>11 DEF linkVars, LinkTypeOK, OneSocket, ClaimedIsReceived
<1> QED
  BY <1>1, <1>2, <1>3, <1>4, <1>5, <1>6, <1>7, <1>8, <1>9, <1>10, <1>11, <1>12, <1>13 DEF LinkNext

LEMMA LinkAlways == LinkSpec => []LinkInv
  BY LinkInitial, LinkStep, PTL DEF LinkSpec

(* Types of the two ends of a link; the back-off never exceeds its bound.  *)
THEOREM LinkTypes == LinkSpec => []LinkTypeOK
<1>1. LinkInv => LinkTypeOK
  BY DEF LinkInv
<1> QED
  BY <1>1, LinkAlways, PTL

(* The single-claim guard: at both ends the claimed socket is the one that *)
(* is received from or about to be, for any number of sockets and cuts.    *)
THEOREM LinkClaimedIsReceived == LinkSpec => []ClaimedIsReceived
<1>1. LinkInv => ClaimedIsReceived
  BY DEF LinkInv
<1> QED
  BY <1>1, LinkAlways, PTL

=============================================================================

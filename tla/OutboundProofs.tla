--------------------------- MODULE OutboundProofs ---------------------------
(***************************************************************************)
(* Theorems about Outbound, for every set of sessions and frames, every    *)
(* size of the frames and every value of the queue limits.                 *)
(***************************************************************************)
EXTENDS Outbound, FiniteSetTheorems, TLAPS

-----------------------------------------------------------------------------
(* Counting bytes.                                                         *)

(* The bytes of any set of frames are finitely many.                       *)
LEMMA BytesFinite ==
  ASSUME NEW fs \in SUBSET Frame
  PROVE  /\ Bytes(fs) \subseteq Frame \X (1 .. MaxBytes)
         /\ IsFiniteSet(Bytes(fs)) /\ Cardinality(Bytes(fs)) \in Nat
<1>1. IsFiniteSet(Frame \X (1 .. MaxBytes))
  <2>1. IsFiniteSet(1 .. MaxBytes)
    BY OutboundAssumption, FS_Interval
  <2> QED BY <2>1, OutboundAssumption, FS_Product
<1>2. Bytes(fs) \subseteq Frame \X (1 .. MaxBytes)
  BY OutboundAssumption DEF Bytes
<1>3. IsFiniteSet(Bytes(fs))
  BY <1>1, <1>2, FS_Subset
<1> QED BY <1>2, <1>3, FS_CardinalityType

(* A frame has SizeOf bytes.                                               *)
LEMMA BytesOfOne ==
  ASSUME NEW f \in Frame
  PROVE  Cardinality(Bytes({f})) = SizeOf[f]
<1>1. SizeOf[f] \in Nat
  BY OutboundAssumption
<1>2. Bytes({f}) = {f} \X (1 .. SizeOf[f])
  BY DEF Bytes
<1>3. IsFiniteSet({f}) /\ Cardinality({f}) = 1
  BY FS_Singleton
<1>4. IsFiniteSet(1 .. SizeOf[f]) /\ Cardinality(1 .. SizeOf[f]) = SizeOf[f]
  <2> DEFINE n == SizeOf[f]
  <2>1. 1 \in Int /\ n \in Int /\ n \in Nat
    BY <1>1
  <2> HIDE DEF n
  <2>2. IsFiniteSet(1 .. n) /\ Cardinality(1 .. n) = IF 1 > n THEN 0 ELSE n - 1 + 1
    BY <2>1, FS_Interval
  <2>3. Cardinality(1 .. n) = n
    BY <2>1, <2>2
  <2> QED BY <2>2, <2>3 DEF n
<1>5. Cardinality({f} \X (1 .. SizeOf[f])) = 1 * SizeOf[f]
  <2> DEFINE R == 1 .. SizeOf[f]
  <2>1. IsFiniteSet(R) /\ Cardinality(R) = SizeOf[f]
    BY <1>4
  <2> HIDE DEF R
  <2>2. Cardinality({f} \X R) = Cardinality({f}) * Cardinality(R)
    BY <1>3, <2>1, FS_Product
  <2> QED BY <1>3, <2>1, <2>2, Zenon DEF R
<1>6. Cardinality(Bytes({f})) = 1 * SizeOf[f]
  BY <1>2, <1>5, Zenon
<1> QED BY <1>1, <1>6

(* Adding bytes that are not there yet.                                    *)
LEMMA DisjointSizes ==
  ASSUME NEW A, NEW B, IsFiniteSet(A), IsFiniteSet(B), A \cap B = {}
  PROVE  /\ IsFiniteSet(A \cup B)
         /\ Cardinality(A \cup B) = Cardinality(A) + Cardinality(B)
         /\ Cardinality(A) \in Nat /\ Cardinality(B) \in Nat
<1>1. Cardinality({}) = 0
  BY FS_EmptySet
<1>2. Cardinality(A \cap B) = 0
  BY <1>1, Zenon
<1>3. IsFiniteSet(A \cup B)
      /\ Cardinality(A \cup B) = Cardinality(A) + Cardinality(B) - Cardinality(A \cap B)
  BY FS_Union
<1>4. Cardinality(A) \in Nat /\ Cardinality(B) \in Nat
  BY FS_CardinalityType
<1> QED BY <1>2, <1>3, <1>4

(* Frames that are distinct are counted separately.                        *)
LEMMA BytesSplit ==
  ASSUME NEW fs \in SUBSET Frame, NEW gs \in SUBSET Frame, fs \cap gs = {}
  PROVE  Cardinality(Bytes(fs \cup gs)) = Cardinality(Bytes(fs)) + Cardinality(Bytes(gs))
<1>1. Bytes(fs \cup gs) = Bytes(fs) \cup Bytes(gs)
  BY DEF Bytes
<1>2. Bytes(fs) \cap Bytes(gs) = {}
  BY DEF Bytes
<1>3. Cardinality(Bytes(fs) \cup Bytes(gs)) = Cardinality(Bytes(fs)) + Cardinality(Bytes(gs))
  BY <1>2, BytesFinite, DisjointSizes
<1> QED BY <1>1, <1>3, Zenon

(* Bytes of one session, tagged with it, are as many.                      *)
LEMMA TaggedSize ==
  ASSUME NEW s, NEW B, IsFiniteSet(B)
  PROVE  IsFiniteSet({s} \X B) /\ Cardinality({s} \X B) = Cardinality(B)
<1>1. IsFiniteSet({s}) /\ Cardinality({s}) = 1
  BY FS_Singleton
<1>2. IsFiniteSet({s} \X B) /\ Cardinality({s} \X B) = 1 * Cardinality(B)
  BY <1>1, FS_Product
<1> QED BY <1>2, FS_CardinalityType

-----------------------------------------------------------------------------
(* Queues.                                                                 *)

(* A frame at the tail of a queue is one more that waits.                  *)
LEMMA AppendedFrames ==
  ASSUME NEW q \in Seq(Frame), NEW f \in Frame
  PROVE  {Append(q, f)[i] : i \in 1 .. Len(Append(q, f))}
           = {q[i] : i \in 1 .. Len(q)} \cup {f}
<1>1. Len(Append(q, f)) = Len(q) + 1 /\ Len(q) \in Nat
  OBVIOUS
<1>2. \A i \in 1 .. Len(q) : Append(q, f)[i] = q[i]
  OBVIOUS
<1>3. Append(q, f)[Len(q) + 1] = f
  OBVIOUS
<1> QED BY <1>1, <1>2, <1>3

(* The frame at the head and those behind it are the queue.                *)
LEMMA HeadAndRest ==
  ASSUME NEW q \in Seq(Frame), q # <<>>
  PROVE  /\ {q[i] : i \in 1 .. Len(q)}
              = {Tail(q)[i] : i \in 1 .. Len(Tail(q))} \cup {Head(q)}
         /\ Head(q) \in Frame /\ Tail(q) \in Seq(Frame)
         /\ Len(Tail(q)) = Len(q) - 1
         /\ \A i \in 1 .. Len(Tail(q)) : Tail(q)[i] = q[i + 1] /\ i + 1 \in 2 .. Len(q)
<1>1. Len(q) \in Nat \ {0} /\ Len(Tail(q)) = Len(q) - 1
  OBVIOUS
<1>2. Head(q) = q[1] /\ Head(q) \in Frame /\ Tail(q) \in Seq(Frame)
  OBVIOUS
<1>3. \A i \in 1 .. Len(Tail(q)) : Tail(q)[i] = q[i + 1] /\ i + 1 \in 2 .. Len(q)
  BY <1>1
<1>4. \A i \in 2 .. Len(q) : i - 1 \in 1 .. Len(Tail(q)) /\ Tail(q)[i - 1] = q[i]
  BY <1>1, <1>3
<1>5. {q[i] : i \in 1 .. Len(q)} \subseteq {Tail(q)[i] : i \in 1 .. Len(Tail(q))} \cup {Head(q)}
  BY <1>1, <1>2, <1>4
<1>6. {Tail(q)[i] : i \in 1 .. Len(Tail(q))} \cup {Head(q)} \subseteq {q[i] : i \in 1 .. Len(q)}
  BY <1>1, <1>2, <1>3
<1>7. {q[i] : i \in 1 .. Len(q)} = {Tail(q)[i] : i \in 1 .. Len(Tail(q))} \cup {Head(q)}
  BY <1>5, <1>6
<1> QED BY <1>1, <1>2, <1>3, <1>7

(* What is queued and in flight is made of frames, finitely many bytes.    *)
LEMMA WaitingFinite ==
  ASSUME TypeOK, NEW s \in Session
  PROVE  /\ Queued(s) \in SUBSET Frame
         /\ Queued(s) \cup inflight[s] \in SUBSET Frame
         /\ IsFiniteSet(Waiting(s))
         /\ Cardinality(Waiting(s)) \in Nat
<1>1. Queued(s) \in SUBSET Frame
  BY DEF TypeOK, Queued
<1>2. Queued(s) \cup inflight[s] \in SUBSET Frame
  BY <1>1 DEF TypeOK
<1> QED BY <1>1, <1>2, BytesFinite DEF Waiting

LEMMA AllWaitingFinite == TypeOK => IsFiniteSet(AllWaiting)
<1> SUFFICES ASSUME TypeOK PROVE IsFiniteSet(AllWaiting)
  OBVIOUS
<1> DEFINE Bound == Session \X (Frame \X (1 .. MaxBytes))
<1>1. IsFiniteSet(Bound)
  <2>1. IsFiniteSet(1 .. MaxBytes)
    BY OutboundAssumption, FS_Interval
  <2>2. IsFiniteSet(Frame \X (1 .. MaxBytes))
    BY <2>1, OutboundAssumption, FS_Product
  <2> QED BY <2>2, OutboundAssumption, FS_Product
<1>2. \A s \in live : Waiting(s) \subseteq Frame \X (1 .. MaxBytes)
  BY WaitingFinite, BytesFinite DEF Waiting, TypeOK
<1>3. AllWaiting \subseteq Bound
  BY <1>2 DEF AllWaiting, TypeOK
<1> QED BY <1>1, <1>3, FS_Subset

-----------------------------------------------------------------------------
(* Types.                                                                  *)

LEMMA OutboundInitTypes == Init => TypeOK
BY OutboundAssumption DEF Init, TypeOK, WriterState, ControlState

(* A removal keeps types.                                                  *)
LEMMA RemovalTypes ==
  ASSUME TypeOK, NEW s \in Session, RemoveSession(s)
  PROVE  /\ live' \subseteq Session /\ total' \in Nat
         /\ bytes' \in [Session -> Nat] /\ queue' \in [Session -> Seq(Frame)]
         /\ UNCHANGED <<offered, writer, inflight, lock>>
<1>1. bytes[s] \in Nat /\ total \in Nat
  BY DEF TypeOK
<1>2. <<>> \in Seq(Frame)
  OBVIOUS
<1> QED BY <1>1, <1>2 DEF TypeOK, RemoveSession, Less

LEMMA SettleTypes ==
  ASSUME TypeOK, NEW s \in Session, Settle(s)
  PROVE  /\ total' \in Nat /\ bytes' \in [Session -> Nat]
         /\ inflight' \in [Session -> SUBSET Frame]
<1>1. Size(inflight[s]) \in Nat
  BY BytesFinite DEF TypeOK, Size
<1> QED BY <1>1 DEF TypeOK, Settle, Less

LEMMA OutboundNextTypes == TypeOK /\ [Next]_vars => TypeOK'
<1> SUFFICES ASSUME TypeOK, [Next]_vars PROVE TypeOK'
  OBVIOUS
<1> USE OutboundAssumption
<1>1. ASSUME NEW s \in Session, NEW f \in Frame, Accept(s, f) PROVE TypeOK'
  <2>1. Append(queue[s], f) \in Seq(Frame)
    BY DEF TypeOK
  <2>2. queue' \in [Session -> Seq(Frame)]
    BY <1>1, <2>1 DEF Accept, TypeOK
  <2>3. bytes' \in [Session -> Nat] /\ total' \in Nat
    BY <1>1 DEF Accept, TypeOK
  <2> QED BY <1>1, <2>2, <2>3 DEF Accept, TypeOK, WriterState
<1>2. ASSUME NEW s \in Session, NEW f \in Frame, Reject(s, f) PROVE TypeOK'
  BY <1>2 DEF Reject, TypeOK
<1>3. ASSUME NEW s \in Session, WriterGet(s) PROVE TypeOK'
  <2>1. Head(queue[s]) \in Frame /\ Tail(queue[s]) \in Seq(Frame)
    BY <1>3 DEF WriterGet, TypeOK
  <2>2. queue' \in [Session -> Seq(Frame)] /\ inflight' \in [Session -> SUBSET Frame]
    BY <1>3, <2>1 DEF WriterGet, TypeOK
  <2> QED BY <1>3, <2>2 DEF WriterGet, TypeOK, WriterState
<1>4. ASSUME NEW s \in Session, WriterLock(s) PROVE TypeOK'
  BY <1>4 DEF WriterLock, TypeOK, WriterState
<1>5. ASSUME NEW s \in Session, WriterSent(s) PROVE TypeOK'
  BY <1>5, SettleTypes DEF WriterSent, TypeOK, WriterState, AfterSend, ReleaseIf
<1>6. ASSUME NEW s \in Session, WriterFails(s) PROVE TypeOK'
  BY <1>6, SettleTypes DEF WriterFails, TypeOK, WriterState, ReleaseIf
<1>7. ASSUME NEW s \in Session, WriterCancelled(s) PROVE TypeOK'
  BY <1>7, SettleTypes DEF WriterCancelled, TypeOK, WriterState, ReleaseIf, CancelReleases
<1>8. ASSUME NEW s \in Session, ControlReply(s) PROVE TypeOK'
  BY <1>8 DEF ControlReply, TypeOK, ControlState
<1>9. ASSUME NEW s \in Session, ControlStep(s) \/ Prune(s) \/ Vanish(s) PROVE TypeOK'
  <2>1. CASE ControlLock(s)
    BY <2>1 DEF ControlLock, TypeOK, ControlState
  <2>2. CASE ControlSent(s)
    BY <2>2 DEF ControlSent, TypeOK, ControlState, ReleaseIf
  <2>3. CASE ControlFails(s)
    BY <2>3 DEF ControlFails, TypeOK, ControlState, ReleaseIf
  <2>4. CASE ControlDisconnect(s)
    BY <2>4 DEF ControlDisconnect, TypeOK, ControlState
  <2>5. CASE ControlExit(s)
    <3>1. CASE s \in live
      BY <2>5, <3>1, RemovalTypes DEF ControlExit, TypeOK, ControlState
    <3>2. CASE s \notin live
      BY <2>5, <3>2 DEF ControlExit, TypeOK, ControlState
    <3> QED BY <3>1, <3>2
  <2>6. CASE Prune(s)
    BY <2>6, RemovalTypes DEF Prune, TypeOK
  <2>7. CASE Vanish(s)
    BY <2>7 DEF Vanish, TypeOK
  <2> QED BY <1>9, <2>1, <2>2, <2>3, <2>4, <2>5, <2>6, <2>7 DEF ControlStep
<1>10. CASE UNCHANGED vars
  BY <1>10 DEF vars, TypeOK
<1> QED
  BY <1>1, <1>2, <1>3, <1>4, <1>5, <1>6, <1>7, <1>8, <1>9, <1>10 DEF Next, WriterStep

(* THEOREM: every variable of the outbound path stays in its domain; in    *)
(* particular neither account of waiting bytes goes below zero.            *)
THEOREM OutboundTypes == Spec => []TypeOK
BY OutboundInitTypes, OutboundNextTypes, PTL DEF Spec

-----------------------------------------------------------------------------
(* The send lock and the stranded frames.                                  *)

LEMMA LockInitial == Init => LockMatches
BY DEF Init, LockMatches

(* Every way out of a send gives the lock back, every way in takes it.     *)
LEMMA LockStep == TypeOK /\ LockMatches /\ [Next]_vars => LockMatches'
<1> SUFFICES ASSUME TypeOK, LockMatches, [Next]_vars PROVE LockMatches'
  OBVIOUS
<1> USE DEF TypeOK, LockMatches
<1>1. ASSUME NEW s \in Session, NEW f \in Frame, Accept(s, f) PROVE LockMatches'
  BY <1>1 DEF Accept, NoWriter
<1>2. ASSUME NEW s \in Session, NEW f \in Frame, Reject(s, f) PROVE LockMatches'
  BY <1>2 DEF Reject
<1>3. ASSUME NEW s \in Session, WriterGet(s) PROVE LockMatches'
  BY <1>3 DEF WriterGet
<1>4. ASSUME NEW s \in Session, WriterLock(s) PROVE LockMatches'
  BY <1>4 DEF WriterLock
<1>5. ASSUME NEW s \in Session, WriterSent(s) PROVE LockMatches'
  BY <1>5 DEF WriterSent, AfterSend, ReleaseIf
<1>6. ASSUME NEW s \in Session, WriterFails(s) PROVE LockMatches'
  BY <1>6 DEF WriterFails, ReleaseIf
<1>7. ASSUME NEW s \in Session, WriterCancelled(s) PROVE LockMatches'
  BY <1>7 DEF WriterCancelled, CancelReleases, ReleaseIf
<1>8. ASSUME NEW s \in Session, ControlReply(s) \/ ControlLock(s) PROVE LockMatches'
  BY <1>8 DEF ControlReply, ControlLock
<1>9. ASSUME NEW s \in Session, ControlSent(s) PROVE LockMatches'
  BY <1>9 DEF ControlSent, ReleaseIf
<1>10. ASSUME NEW s \in Session, ControlFails(s) PROVE LockMatches'
  BY <1>10 DEF ControlFails, ReleaseIf
<1>11. ASSUME NEW s \in Session, ControlDisconnect(s) PROVE LockMatches'
  BY <1>11 DEF ControlDisconnect
<1>12. ASSUME NEW s \in Session, ControlExit(s) PROVE LockMatches'
  BY <1>12 DEF ControlExit, RemoveSession
<1>13. ASSUME NEW s \in Session, Prune(s) \/ Vanish(s) PROVE LockMatches'
  BY <1>13 DEF Prune, Vanish, RemoveSession
<1>14. CASE UNCHANGED vars
  BY <1>14 DEF vars
<1> QED
  BY <1>1, <1>2, <1>3, <1>4, <1>5, <1>6, <1>7, <1>8, <1>9, <1>10, <1>11, <1>12, <1>13,
     <1>14 DEF Next, WriterStep, ControlStep

(* THEOREM: at any time the send lock of a socket is held by exactly the   *)
(* task that is writing to it, whatever sends fail, time out or are        *)
(* cancelled.                                                              *)
THEOREM OutboundLockMatches == Spec => []LockMatches
BY OutboundInitTypes, OutboundNextTypes, LockInitial, LockStep, PTL DEF Spec

LEMMA StrandedInitial == Init => StrandedOnlyIfBroken
BY DEF Init, StrandedOnlyIfBroken

(* A queue gets its writer with its first frame; a writer that ends leaves *)
(* a broken socket or a session that is no longer in the table.            *)
LEMMA StrandedStep ==
  TypeOK /\ StrandedOnlyIfBroken /\ [Next]_vars => StrandedOnlyIfBroken'
<1> SUFFICES ASSUME TypeOK, StrandedOnlyIfBroken, [Next]_vars PROVE StrandedOnlyIfBroken'
  OBVIOUS
<1> USE DEF TypeOK, StrandedOnlyIfBroken, NoWriter
<1>1. ASSUME NEW s \in Session, NEW f \in Frame, Accept(s, f) PROVE StrandedOnlyIfBroken'
  BY <1>1 DEF Accept
<1>2. ASSUME NEW s \in Session, NEW f \in Frame, Reject(s, f) PROVE StrandedOnlyIfBroken'
  BY <1>2 DEF Reject
<1>3. ASSUME NEW s \in Session, WriterGet(s) PROVE StrandedOnlyIfBroken'
  BY <1>3 DEF WriterGet
<1>4. ASSUME NEW s \in Session, WriterLock(s) PROVE StrandedOnlyIfBroken'
  BY <1>4 DEF WriterLock
<1>5. ASSUME NEW s \in Session, WriterSent(s) PROVE StrandedOnlyIfBroken'
  BY <1>5 DEF WriterSent, AfterSend
<1>6. ASSUME NEW s \in Session, WriterFails(s) PROVE StrandedOnlyIfBroken'
  BY <1>6 DEF WriterFails
<1>7. ASSUME NEW s \in Session, WriterCancelled(s) PROVE StrandedOnlyIfBroken'
  BY <1>7 DEF WriterCancelled
<1>8. ASSUME NEW s \in Session, ControlReply(s) \/ ControlStep(s)
      PROVE  StrandedOnlyIfBroken'
  <2>1. live' \subseteq live /\ UNCHANGED writer
    BY <1>8 DEF ControlReply, ControlStep, ControlLock, ControlSent, ControlFails,
                ControlDisconnect, ControlExit, RemoveSession
  <2>2. \A t \in live' : UNCHANGED queue[t] /\ (sock[t] = "broken" => sock'[t] = "broken")
    BY <1>8 DEF ControlReply, ControlStep, ControlLock, ControlSent, ControlFails,
                ControlDisconnect, ControlExit, RemoveSession
  <2> QED BY <2>1, <2>2
<1>9. ASSUME NEW s \in Session, Prune(s) \/ Vanish(s) PROVE StrandedOnlyIfBroken'
  BY <1>9 DEF Prune, Vanish, RemoveSession
<1>10. CASE UNCHANGED vars
  BY <1>10 DEF vars
<1> QED
  BY <1>1, <1>2, <1>3, <1>4, <1>5, <1>6, <1>7, <1>8, <1>9, <1>10 DEF Next, WriterStep

(* THEOREM: frames of a live session wait without a writer only behind a   *)
(* socket that is already broken.                                          *)
THEOREM OutboundStranded == Spec => []StrandedOnlyIfBroken
BY OutboundInitTypes, OutboundNextTypes, StrandedInitial, StrandedStep, PTL DEF Spec

-----------------------------------------------------------------------------
(* The accounts.  They are exact only because no frame is counted twice:   *)
(* the frames of a live session are queued once each, were all offered     *)
(* before, and one is in flight only between the get and the end of the    *)
(* send.                                                                   *)

QueuedOnce(s) ==
  /\ \A i, j \in 1 .. Len(queue[s]) : queue[s][i] = queue[s][j] => i = j
  /\ Queued(s) \cap inflight[s] = {}
  /\ Queued(s) \cup inflight[s] \subseteq offered[s]
  /\ inflight[s] # {} => writer[s] \in {"lock", "send"}

AccountExact(s) ==
  /\ QueuedOnce(s)
  /\ bytes[s] = Cardinality(Waiting(s))
  /\ Len(queue[s]) <= MaxFrames
  /\ Cardinality(Waiting(s)) <= MaxBytes

AccountsInv ==
  /\ TypeOK
  /\ \A s \in live : AccountExact(s)
  /\ total = Rest + Cardinality(AllWaiting)

LEMMA AccountsInitial == Init => AccountsInv
<1> SUFFICES ASSUME Init PROVE AccountsInv
  OBVIOUS
<1>1. Cardinality({}) = 0
  BY FS_EmptySet
<1>2. \A s \in Session : Queued(s) = {} /\ Waiting(s) = {}
  BY DEF Init, Queued, Waiting, Bytes
<1>3. AllWaiting = {}
  BY <1>2 DEF AllWaiting, Init
<1>4. \A s \in Session : Cardinality(Waiting(s)) = 0
  BY <1>1, <1>2, Zenon
<1>5. Cardinality(AllWaiting) = 0
  BY <1>1, <1>3, Zenon
<1>6. \A s \in Session : AccountExact(s)
  <2> SUFFICES ASSUME NEW s \in Session PROVE AccountExact(s)
    OBVIOUS
  <2>1. queue[s] = <<>> /\ inflight[s] = {} /\ bytes[s] = 0
    BY DEF Init
  <2>2. QueuedOnce(s)
    BY <1>2, <2>1 DEF QueuedOnce
  <2> QED BY <1>4, <2>1, <2>2, OutboundAssumption DEF AccountExact
<1> QED
  BY <1>5, <1>6, OutboundInitTypes, OutboundAssumption DEF AccountsInv, Init

(* A session whose queue and frame in flight stay has the same bytes       *)
(* waiting.                                                                *)
LEMMA WaitingKept ==
  ASSUME NEW s, UNCHANGED <<queue[s], inflight[s]>>
  PROVE  Queued(s)' = Queued(s) /\ Waiting(s)' = Waiting(s)
BY DEF Queued, Waiting

(* A session that keeps its frames and its account stays exact.            *)
LEMMA ExactKept ==
  ASSUME NEW s, AccountExact(s), UNCHANGED <<queue[s], inflight[s], bytes[s]>>,
         offered[s] \subseteq offered'[s],
         inflight[s] # {} => writer'[s] \in {"lock", "send"}
  PROVE  AccountExact(s)'
<1>1. Queued(s)' = Queued(s) /\ Waiting(s)' = Waiting(s)
  BY WaitingKept
<1>2. QueuedOnce(s)'
  BY <1>1 DEF AccountExact, QueuedOnce
<1>3. Cardinality(Waiting(s))' = Cardinality(Waiting(s))
  BY <1>1, Zenon
<1> QED BY <1>2, <1>3 DEF AccountExact

(* Bytes B more for the session s: the hub's total grows by as many.       *)
LEMMA TotalGrows ==
  ASSUME TypeOK, NEW s \in live, NEW B, IsFiniteSet(B), B \cap Waiting(s) = {},
         UNCHANGED live, Waiting(s)' = Waiting(s) \cup B,
         \A t \in live \ {s} : Waiting(t)' = Waiting(t)
  PROVE  Cardinality(AllWaiting)' = Cardinality(AllWaiting) + Cardinality(B)
<1>1. AllWaiting' = AllWaiting \cup ({s} \X B)
  BY DEF AllWaiting
<1>2. AllWaiting \cap ({s} \X B) = {}
  BY DEF AllWaiting
<1>3. IsFiniteSet({s} \X B) /\ Cardinality({s} \X B) = Cardinality(B)
  BY TaggedSize
<1>4. Cardinality(AllWaiting \cup ({s} \X B)) = Cardinality(AllWaiting) + Cardinality({s} \X B)
  BY <1>2, <1>3, AllWaitingFinite, DisjointSizes
<1> QED BY <1>1, <1>3, <1>4, Zenon

(* The session s has the bytes B of its bytes less, or is no longer in the *)
(* table and B is all it had: the hub's total shrinks by as many.          *)
LEMMA TotalShrinks ==
  ASSUME TypeOK, TypeOK', NEW s \in live, NEW B, IsFiniteSet(B),
         \/ live' = live /\ Waiting(s) = Waiting(s)' \cup B /\ B \cap Waiting(s)' = {}
         \/ live' = live \ {s} /\ Waiting(s) = B,
         \A t \in live \ {s} : Waiting(t)' = Waiting(t)
  PROVE  /\ Cardinality(AllWaiting) = Cardinality(AllWaiting)' + Cardinality(B)
         /\ Cardinality(AllWaiting)' \in Nat /\ Cardinality(B) \in Nat
<1>1. AllWaiting = AllWaiting' \cup ({s} \X B)
  BY DEF AllWaiting
<1>2. AllWaiting' \cap ({s} \X B) = {}
  BY DEF AllWaiting
<1>3. IsFiniteSet({s} \X B) /\ Cardinality({s} \X B) = Cardinality(B)
  BY TaggedSize
<1>4. IsFiniteSet(AllWaiting)'
  BY AllWaitingFinite, PTL
<1>5. /\ Cardinality(AllWaiting' \cup ({s} \X B)) = Cardinality(AllWaiting') + Cardinality({s} \X B)
      /\ Cardinality(AllWaiting') \in Nat /\ Cardinality({s} \X B) \in Nat
  BY <1>2, <1>3, <1>4, DisjointSizes
<1> QED BY <1>1, <1>3, <1>5, Zenon

(* Steps that leave queues, frames in flight and accounts of the live      *)
(* sessions alone.                                                         *)
LEMMA AccountsKept ==
  ASSUME AccountsInv, TypeOK', UNCHANGED <<live, total>>,
         \A s \in live : /\ UNCHANGED <<queue[s], inflight[s], bytes[s]>>
                         /\ offered[s] \subseteq offered'[s]
                         /\ inflight[s] # {} => writer'[s] \in {"lock", "send"}
  PROVE  AccountsInv'
<1>1. \A s \in live : AccountExact(s)'
  BY ExactKept DEF AccountsInv
<1>2. \A s \in live : Waiting(s)' = Waiting(s)
  BY WaitingKept
<1>3. AllWaiting' = AllWaiting
  BY <1>2 DEF AllWaiting
<1>4. Cardinality(AllWaiting)' = Cardinality(AllWaiting)
  BY <1>3, Zenon
<1> QED BY <1>1, <1>4 DEF AccountsInv

(* send_session accepts a frame that was not offered before.               *)
LEMMA AcceptAccounts ==
  ASSUME AccountsInv, TypeOK', NEW s \in Session, NEW f \in Frame, Accept(s, f)
  PROVE  AccountsInv'
<1> DEFINE Old == Queued(s) \cup inflight[s]
<1>1. /\ s \in live /\ UNCHANGED live /\ AccountExact(s) /\ QueuedOnce(s)
      /\ queue[s] \in Seq(Frame) /\ Len(queue[s]) \in Nat
      /\ bytes[s] \in Nat /\ total \in Nat /\ SizeOf[f] \in Nat
      /\ Old \in SUBSET Frame
  BY OutboundAssumption, WaitingFinite DEF Accept, AccountsInv, AccountExact, TypeOK
<1>2. /\ queue'[s] = Append(queue[s], f) /\ inflight'[s] = inflight[s]
      /\ bytes'[s] = bytes[s] + SizeOf[f] /\ total' = total + SizeOf[f]
      /\ offered'[s] = offered[s] \cup {f} /\ f \notin Old
  BY <1>1 DEF Accept, QueuedOnce, AccountsInv, TypeOK
<1>3. Queued(s)' = Queued(s) \cup {f}
  <2>1. Queued(s)' = {Append(queue[s], f)[i] : i \in 1 .. Len(Append(queue[s], f))}
    BY <1>2 DEF Queued
  <2>2. {Append(queue[s], f)[i] : i \in 1 .. Len(Append(queue[s], f))}
          = {queue[s][i] : i \in 1 .. Len(queue[s])} \cup {f}
    BY <1>1, AppendedFrames, Zenon
  <2> QED BY <2>1, <2>2, Zenon DEF Queued
<1>4. Waiting(s)' = Bytes(Old \cup {f})
  BY <1>2, <1>3 DEF Waiting
<1>5. /\ Cardinality(Bytes(Old \cup {f})) = Cardinality(Bytes(Old)) + Cardinality(Bytes({f}))
      /\ Cardinality(Bytes({f})) = SizeOf[f]
  <2>1. Old \in SUBSET Frame /\ {f} \in SUBSET Frame /\ Old \cap {f} = {}
    BY <1>1, <1>2
  <2> HIDE DEF Old
  <2> QED BY <2>1, BytesSplit, BytesOfOne, Zenon
<1>6. Cardinality(Waiting(s))' = Cardinality(Waiting(s)) + SizeOf[f]
  BY <1>4, <1>5, Zenon DEF Waiting
<1>7. \A t \in live \ {s} : /\ UNCHANGED <<queue[t], inflight[t], bytes[t], offered[t], writer[t]>>
                            /\ Waiting(t)' = Waiting(t)
  BY WaitingKept DEF Accept, AccountsInv, TypeOK
<1>8. ASSUME NEW t \in live \ {s} PROVE AccountExact(t)'
  <2>1. AccountExact(t) /\ (inflight[t] # {} => writer'[t] \in {"lock", "send"})
    BY <1>7, <1>8 DEF AccountsInv, AccountExact, QueuedOnce
  <2> QED BY <1>7, <1>8, <2>1, ExactKept
<1>9. AccountExact(s)'
  <2>1. Len(queue[s]) < MaxFrames /\ Cardinality(Waiting(s)) + SizeOf[f] <= MaxBytes
    BY <1>1, OutboundAssumption DEF Accept, Refused, AccountExact
  <2>2. Len(queue'[s]) = Len(queue[s]) + 1 /\ queue'[s][Len(queue[s]) + 1] = f
        /\ \A i \in 1 .. Len(queue[s]) : queue'[s][i] = queue[s][i]
    BY <1>1, <1>2
  <2>3. \A i \in 1 .. Len(queue[s]) : queue[s][i] # f
    BY <1>2 DEF Queued
  <2>4. \A i, j \in 1 .. Len(queue'[s]) : queue'[s][i] = queue'[s][j] => i = j
    <3> DEFINE n == Len(queue[s])
    <3>1. \A i, j \in 1 .. n : queue'[s][i] = queue'[s][j] => i = j
      BY <1>1, <2>2 DEF QueuedOnce
    <3>2. \A i \in 1 .. n : queue'[s][i] # queue'[s][n + 1]
      BY <2>2, <2>3
    <3>3. \A i \in 1 .. Len(queue'[s]) : i \in 1 .. n \/ i = n + 1
      BY <1>1, <2>2
    <3> HIDE DEF n
    <3> QED BY <3>1, <3>2, <3>3
  <2>5. inflight'[s] # {} => writer'[s] \in {"lock", "send"}
    BY <1>1, <1>2 DEF Accept, QueuedOnce, NoWriter, AccountsInv, TypeOK
  <2>6. /\ (Queued(s) \cap inflight[s] = {})'
        /\ (Queued(s) \cup inflight[s] \subseteq offered[s])'
    BY <1>1, <1>2, <1>3 DEF QueuedOnce
  <2>7. QueuedOnce(s)'
    BY <2>4, <2>5, <2>6 DEF QueuedOnce
  <2> QED BY <1>1, <1>2, <1>6, <2>1, <2>2, <2>7, OutboundAssumption DEF AccountExact
<1>10. Cardinality(AllWaiting)' = Cardinality(AllWaiting) + SizeOf[f]
  <2>1. Bytes({f}) \cap Waiting(s) = {} /\ Waiting(s)' = Waiting(s) \cup Bytes({f})
    BY <1>2, <1>4 DEF Waiting, Bytes
  <2>2. IsFiniteSet(Bytes({f}))
    BY BytesFinite
  <2>3. Cardinality(AllWaiting)' = Cardinality(AllWaiting) + Cardinality(Bytes({f}))
    BY <1>1, <1>7, <2>1, <2>2, TotalGrows DEF AccountsInv
  <2> QED BY <1>5, <2>3, Zenon
<1>11. Cardinality(AllWaiting) \in Nat
  BY AllWaitingFinite, FS_CardinalityType DEF AccountsInv
<1> QED
  BY <1>1, <1>2, <1>8, <1>9, <1>10, <1>11, OutboundAssumption DEF AccountsInv

(* queue.get(): the head of the queue is now the frame in flight.          *)
LEMMA GetAccounts ==
  ASSUME AccountsInv, TypeOK', NEW s \in Session, WriterGet(s)
  PROVE  AccountsInv'
<1> DEFINE h == Head(queue[s])
<1>1. /\ s \in live /\ UNCHANGED <<live, total>> /\ AccountExact(s) /\ QueuedOnce(s)
      /\ queue[s] \in Seq(Frame) /\ queue[s] # <<>> /\ Len(queue[s]) \in Nat
      /\ writer[s] = "get"
  BY DEF WriterGet, AccountsInv, AccountExact, TypeOK
<1>0. inflight[s] = {}
  BY <1>1 DEF QueuedOnce
<1>2. /\ queue'[s] = Tail(queue[s]) /\ inflight'[s] = {h} /\ UNCHANGED <<bytes[s], offered[s]>>
      /\ writer'[s] \in {"lock", "send"}
  BY <1>1 DEF WriterGet, AccountsInv, TypeOK
<1>3. Queued(s) = Queued(s)' \cup {h}
  <2>1. Queued(s)' = {Tail(queue[s])[i] : i \in 1 .. Len(Tail(queue[s]))}
    BY <1>2, Zenon DEF Queued
  <2>2. Queued(s) = {Tail(queue[s])[i] : i \in 1 .. Len(Tail(queue[s]))} \cup {h}
    BY <1>1, HeadAndRest, Zenon DEF Queued
  <2> QED BY <2>1, <2>2, Zenon
<1>4. Waiting(s)' = Waiting(s)
  BY <1>0, <1>2, <1>3 DEF Waiting
<1>5. Cardinality(Waiting(s))' = Cardinality(Waiting(s))
  BY <1>4, Zenon
<1>6. /\ Len(queue'[s]) = Len(queue[s]) - 1
      /\ \A i \in 1 .. Len(queue'[s]) : queue'[s][i] = queue[s][i + 1] /\ i + 1 \in 2 .. Len(queue[s])
  BY <1>1, <1>2, HeadAndRest
<1>7. h = queue[s][1]
  BY <1>1
<1>8. h \notin Queued(s)'
  BY <1>1, <1>6, <1>7 DEF Queued, QueuedOnce
<1>9. \A i, j \in 1 .. Len(queue'[s]) : queue'[s][i] = queue'[s][j] => i = j
  <2> SUFFICES ASSUME NEW i \in 1 .. Len(queue'[s]), NEW j \in 1 .. Len(queue'[s]),
                      queue'[s][i] = queue'[s][j]
               PROVE  i = j
    OBVIOUS
  <2>1. queue[s][i + 1] = queue[s][j + 1] /\ i + 1 \in 1 .. Len(queue[s]) /\ j + 1 \in 1 .. Len(queue[s])
    BY <1>1, <1>6
  <2>2. i + 1 = j + 1
    BY <1>1, <2>1 DEF QueuedOnce
  <2> QED BY <2>2
<1>10. QueuedOnce(s)'
  BY <1>1, <1>2, <1>3, <1>8, <1>9 DEF QueuedOnce
<1>11. AccountExact(s)'
  BY <1>1, <1>2, <1>5, <1>6, <1>10, OutboundAssumption DEF AccountExact
<1>12. ASSUME NEW t \in live \ {s} PROVE AccountExact(t)' /\ Waiting(t)' = Waiting(t)
  <2>1. /\ UNCHANGED <<queue[t], inflight[t], bytes[t], offered[t], writer[t]>>
        /\ AccountExact(t) /\ QueuedOnce(t)
    BY <1>12 DEF WriterGet, AccountsInv, AccountExact, TypeOK
  <2> QED BY <2>1, ExactKept, WaitingKept DEF QueuedOnce
<1>13. AllWaiting' = AllWaiting
  BY <1>1, <1>4, <1>12 DEF AllWaiting
<1>14. Cardinality(AllWaiting)' = Cardinality(AllWaiting)
  BY <1>13, Zenon
<1> QED BY <1>1, <1>11, <1>12, <1>14 DEF AccountsInv

(* The writer of a live session is done with its frame, sent or not.       *)
LEMMA SettleAccounts ==
  ASSUME AccountsInv, TypeOK', NEW s \in Session, s \in live, Settle(s),
         UNCHANGED <<live, queue, offered>>,
         \A t \in live \ {s} : UNCHANGED writer[t]
  PROVE  AccountsInv'
<1> DEFINE B == Bytes(inflight[s])
<1>1. /\ AccountExact(s) /\ QueuedOnce(s)
      /\ bytes[s] \in Nat /\ total \in Nat /\ Len(queue[s]) \in Nat
      /\ Queued(s) \in SUBSET Frame /\ inflight[s] \in SUBSET Frame
  BY WaitingFinite DEF AccountsInv, AccountExact, TypeOK
<1>2. /\ bytes'[s] = Less(bytes[s], Cardinality(B)) /\ total' = Less(total, Cardinality(B))
      /\ inflight'[s] = {}
  BY DEF Settle, Settles, Size, AccountsInv, TypeOK
<1>3. Queued(s)' = Queued(s)
  BY DEF Queued
<1>4. Waiting(s)' = Bytes(Queued(s))
  BY <1>2, <1>3 DEF Waiting
<1>5. /\ Waiting(s) = Bytes(Queued(s)) \cup B
      /\ B \cap Bytes(Queued(s)) = {}
  BY <1>1 DEF Waiting, Bytes, QueuedOnce
<1>6. /\ Cardinality(Waiting(s)) = Cardinality(Bytes(Queued(s))) + Cardinality(B)
      /\ Cardinality(Bytes(Queued(s))) \in Nat /\ Cardinality(B) \in Nat
      /\ IsFiniteSet(B)
  <2>1. Queued(s) \cap inflight[s] = {}
    BY <1>1 DEF QueuedOnce
  <2> QED BY <1>1, <2>1, BytesSplit, BytesFinite, Zenon DEF Waiting
<1>7. Cardinality(Waiting(s))' = Cardinality(Bytes(Queued(s)))
  BY <1>4, Zenon
<1>8. AccountExact(s)'
  <2>1. QueuedOnce(s)'
    BY <1>1, <1>2, <1>3 DEF QueuedOnce
  <2>2. bytes'[s] = Cardinality(Waiting(s))' /\ Cardinality(Waiting(s))' <= MaxBytes
    <3> HIDE DEF B
    <3> QED BY <1>1, <1>2, <1>6, <1>7, OutboundAssumption DEF AccountExact, Less
  <2> QED BY <1>1, <2>1, <2>2 DEF AccountExact
<1>9. ASSUME NEW t \in live \ {s} PROVE AccountExact(t)' /\ Waiting(t)' = Waiting(t)
  <2>1. /\ UNCHANGED <<queue[t], inflight[t], bytes[t], offered[t], writer[t]>>
        /\ AccountExact(t) /\ QueuedOnce(t)
    BY <1>9 DEF Settle, AccountsInv, AccountExact, TypeOK
  <2> QED BY <2>1, ExactKept, WaitingKept DEF QueuedOnce
<1>10. /\ Cardinality(AllWaiting) = Cardinality(AllWaiting)' + Cardinality(B)
       /\ Cardinality(AllWaiting)' \in Nat
  <2>1. Waiting(s) = Waiting(s)' \cup B /\ B \cap Waiting(s)' = {}
    BY <1>4, <1>5, Zenon
  <2> HIDE DEF B
  <2> QED BY <1>6, <1>9, <2>1, TotalShrinks DEF AccountsInv
<1>11. total' = Rest + Cardinality(AllWaiting)'
  <2> HIDE DEF B
  <2> QED BY <1>1, <1>2, <1>6, <1>10, OutboundAssumption DEF AccountsInv, Less
<1> QED BY <1>8, <1>9, <1>11 DEF AccountsInv

(* remove_session takes everything that waited for the session off the     *)
(* total, the frame its writer still holds included.                       *)
LEMMA RemoveAccounts ==
  ASSUME AccountsInv, TypeOK', NEW s \in Session, s \in live, RemoveSession(s)
  PROVE  AccountsInv'
<1>1. AccountExact(s) /\ total \in Nat /\ bytes[s] = Cardinality(Waiting(s)) /\ bytes[s] \in Nat
  BY DEF AccountsInv, AccountExact, TypeOK
<1>2. live' = live \ {s} /\ total' = Less(total, bytes[s])
  BY DEF RemoveSession
<1>3. ASSUME NEW t \in live \ {s} PROVE AccountExact(t)' /\ Waiting(t)' = Waiting(t)
  <2>1. /\ UNCHANGED <<queue[t], inflight[t], bytes[t], offered[t], writer[t]>>
        /\ AccountExact(t) /\ QueuedOnce(t)
    BY <1>3 DEF RemoveSession, AccountsInv, AccountExact, TypeOK
  <2> QED BY <2>1, ExactKept, WaitingKept DEF QueuedOnce
<1>4. /\ Cardinality(AllWaiting) = Cardinality(AllWaiting)' + Cardinality(Waiting(s))
      /\ Cardinality(AllWaiting)' \in Nat
  <2>1. IsFiniteSet(Waiting(s))
    BY WaitingFinite DEF AccountsInv
  <2> QED BY <1>2, <1>3, <2>1, TotalShrinks DEF AccountsInv
<1>5. total' = Rest + Cardinality(AllWaiting)'
  BY <1>1, <1>2, <1>4, OutboundAssumption DEF AccountsInv, Less
<1> QED BY <1>2, <1>3, <1>5 DEF AccountsInv

(* A writer that learns of its cancellation finds its session gone and     *)
(* leaves the accounts alone.                                              *)
LEMMA CancelAccounts ==
  ASSUME AccountsInv, TypeOK', NEW s \in Session, WriterCancelled(s)
  PROVE  AccountsInv'
<1>1. s \notin live /\ UNCHANGED <<live, queue, offered>>
  BY DEF WriterCancelled
<1>2. total' = total /\ bytes' = bytes
  <2>1. total' = Less(total, 0) /\ bytes' = [bytes EXCEPT ![s] = Less(@, 0)]
    BY <1>1 DEF WriterCancelled, Settle, Settles
  <2> QED BY <2>1 DEF Less, AccountsInv, TypeOK
<1>3. \A t \in live : UNCHANGED <<inflight[t], writer[t]>>
  BY <1>1 DEF WriterCancelled, Settle, AccountsInv, TypeOK
<1>4. \A t \in live : inflight[t] # {} => writer[t] \in {"lock", "send"}
  BY DEF AccountsInv, AccountExact, QueuedOnce
<1> QED BY <1>1, <1>2, <1>3, <1>4, AccountsKept

LEMMA AccountsStep == AccountsInv /\ [Next]_vars => AccountsInv'
<1> SUFFICES ASSUME AccountsInv, [Next]_vars PROVE AccountsInv'
  OBVIOUS
<1>1. TypeOK /\ TypeOK'
  BY OutboundNextTypes DEF AccountsInv
<1>2. \A t \in live : inflight[t] # {} => writer[t] \in {"lock", "send"}
  BY DEF AccountsInv, AccountExact, QueuedOnce
<1>3. ASSUME NEW s \in Session, NEW f \in Frame, Accept(s, f) PROVE AccountsInv'
  BY <1>1, <1>3, AcceptAccounts
<1>4. ASSUME NEW s \in Session, NEW f \in Frame, Reject(s, f) PROVE AccountsInv'
  <2>1. \A t \in live : offered[t] \subseteq offered'[t]
    BY <1>1, <1>4 DEF Reject, TypeOK
  <2> QED BY <1>1, <1>2, <1>4, <2>1, AccountsKept DEF Reject
<1>5. ASSUME NEW s \in Session, WriterGet(s) PROVE AccountsInv'
  BY <1>1, <1>5, GetAccounts
<1>6. ASSUME NEW s \in Session, WriterLock(s) PROVE AccountsInv'
  <2>1. \A t \in live : inflight[t] # {} => writer'[t] \in {"lock", "send"}
    BY <1>1, <1>2, <1>6 DEF WriterLock, TypeOK
  <2> QED BY <1>1, <1>6, <2>1, AccountsKept DEF WriterLock
<1>7. ASSUME NEW s \in Session, WriterSent(s) \/ WriterFails(s) PROVE AccountsInv'
  <2>1. \A t \in live \ {s} : UNCHANGED writer[t]
    BY <1>1, <1>7 DEF WriterSent, WriterFails, TypeOK
  <2> QED BY <1>1, <1>7, <2>1, SettleAccounts DEF WriterSent, WriterFails
<1>8. ASSUME NEW s \in Session, WriterCancelled(s) PROVE AccountsInv'
  BY <1>1, <1>8, CancelAccounts
<1>9. ASSUME NEW s \in Session, ControlExit(s) \/ Prune(s) PROVE AccountsInv'
  <2>1. CASE s \in live
    BY <1>1, <1>9, <2>1, RemoveAccounts DEF ControlExit, Prune
  <2>2. CASE s \notin live
    BY <1>1, <1>2, <1>9, <2>2, AccountsKept DEF ControlExit, Prune
  <2> QED BY <2>1, <2>2
<1>10. ASSUME NEW s \in Session,
              \/ ControlReply(s) \/ ControlLock(s) \/ ControlSent(s) \/ ControlFails(s)
              \/ ControlDisconnect(s) \/ Vanish(s)
       PROVE  AccountsInv'
  BY <1>1, <1>2, <1>10, AccountsKept
     DEF ControlReply, ControlLock, ControlSent, ControlFails, ControlDisconnect, Vanish
<1>11. CASE UNCHANGED vars
  BY <1>1, <1>2, <1>11, AccountsKept DEF vars
<1> QED
  BY <1>3, <1>4, <1>5, <1>6, <1>7, <1>8, <1>9, <1>10, <1>11 DEF Next, WriterStep, ControlStep

LEMMA AccountsAlways == Spec => []AccountsInv
BY AccountsInitial, AccountsStep, PTL DEF Spec

(* THEOREM: outbound_bytes of every live session and the hub's total are   *)
(* exactly the bytes that wait, after any interleaving of sends, failures, *)
(* cancellations and removals.                                             *)
THEOREM OutboundExactAccounts == Spec => []ExactAccounts
<1>1. AccountsInv => ExactAccounts
  BY DEF AccountsInv, AccountExact, ExactAccounts
<1> QED BY <1>1, AccountsAlways, PTL

(* THEOREM: no client makes the hub hold more frames or more bytes for it  *)
(* than its limits allow.                                                  *)
THEOREM OutboundQueueBounded == Spec => []QueueBounded
<1>1. AccountsInv => QueueBounded
  BY DEF AccountsInv, AccountExact, QueueBounded
<1> QED BY <1>1, AccountsAlways, PTL

=============================================================================

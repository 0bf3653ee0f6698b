-------------------------- MODULE MembershipProofs --------------------------
(***************************************************************************)
(* Proofs about Membership, for every number of nodes and every delay.     *)
(* Two facts have to be carried along: a suspicion is never older than the *)
(* last time a quorum saw the node, and a quorum that was claimed at the   *)
(* last reconciliation has aged by no more than the membership loop lets   *)
(* pass until the next one.                                                *)
(***************************************************************************)
EXTENDS Membership, FiniteSetTheorems, TLAPS

(* A suspicion began after a quorum last saw the node.                     *)
SuspicionYoung == \A c \in suspects : suspectAge[c] <= aliveAge[c]

(* The loop's timer is within the delay of the phase it is in.             *)
LoopTimer ==
  /\ loop = "send" => timer <= SendBound
  /\ loop = "sleep" => timer <= Interval

(* The longest time since the loop reconciled.                             *)
Elapsed == IF loop = "send" THEN SendBound - timer ELSE SendBound + Interval - timer

(* The reports a claimed quorum rests on were fresh that long ago.         *)
QuorumAged ==
  hasQuorum => Cardinality({p \in Peer : viewAge[p] <= StaleAfter + Elapsed}) + 1 >= Quorum

MembershipInv == TypeOK /\ SuspicionYoung /\ LoopTimer /\ QuorumAged

-----------------------------------------------------------------------------

(* Cardinalities of sets of peers are natural numbers and grow with them.  *)
LEMMA PeerSets ==
  /\ \A S \in SUBSET Peer : /\ IsFiniteSet(S) /\ Cardinality(S) \in Nat
                            /\ Cardinality(S \cup {Self}) = Cardinality(S) + 1
                            /\ \A T \in SUBSET S : Cardinality(T) <= Cardinality(S)
  /\ Quorum \in Nat
<1>1. \A S \in SUBSET Peer : IsFiniteSet(S) /\ Cardinality(S) \in Nat
  BY FS_Subset, FS_CardinalityType, MembershipAssumption
<1>2. \A S \in SUBSET Peer : Cardinality(S \cup {Self}) = Cardinality(S) + 1
  BY <1>1, FS_AddElement, MembershipAssumption
<1>3. \A S \in SUBSET Peer : \A T \in SUBSET S : Cardinality(T) <= Cardinality(S)
  BY <1>1, FS_Subset
<1>4. Quorum \in Nat
  <2>1. Cardinality(Universe) \in Nat
    BY <1>1, <1>2 DEF Universe
  <2> QED
    BY <2>1 DEF Quorum
<1> QED
  BY <1>1, <1>2, <1>3, <1>4

LEMMA CappedType ==
  ASSUME NEW b \in Nat, NEW n \in 0 .. b
  PROVE  Capped(n, b) \in 0 .. b /\ Capped(n, b) <= n + 1 /\ n <= Capped(n, b)
  BY DEF Capped

LEMMA MembershipInit == Init => MembershipInv
<1> SUFFICES ASSUME Init PROVE MembershipInv
  OBVIOUS
<1> USE MembershipAssumption
<1>1. TypeOK
  BY DEF Init, TypeOK, OldAge, Universe
<1>2. SuspicionYoung /\ LoopTimer
  BY DEF Init, SuspicionYoung, LoopTimer
<1>3. QuorumAged
  <2> SUFFICES ASSUME Peer = {}
               PROVE  Cardinality({p \in Peer : viewAge[p] <= StaleAfter + Elapsed}) + 1 >= Quorum
    BY DEF Init, QuorumAged
  <2>1. Cardinality(Universe) = 1
    BY FS_Singleton DEF Universe
  <2>2. {p \in Peer : viewAge[p] <= StaleAfter + Elapsed} = {}
    OBVIOUS
  <2> QED
    BY <2>1, <2>2, FS_EmptySet DEF Quorum
<1> QED
  BY <1>1, <1>2, <1>3 DEF MembershipInv

(* What a reconciliation keeps, given well-typed reports and suspicions    *)
(* that began after a quorum last saw the node.                            *)
LEMMA ReconcileKeeps ==
  ASSUME TypeOK,
         NEW up \in SUBSET Peer, NEW h \in SUBSET Peer,
         NEW v \in [Peer -> SUBSET Universe], NEW a \in [Peer -> 0 .. OldAge],
         NEW sk \in SUBSET Peer, NEW sa \in [Universe -> 0 .. Suspicion],
         \A c \in sk : sa[c] <= aliveAge[c],
         Reconcile(up, h, v, a, sk, sa)
  PROVE  /\ conns' \subseteq Peer /\ heard' \subseteq Peer
         /\ view' \in [Peer -> SUBSET Universe] /\ viewAge' = a
         /\ suspects' \subseteq Peer /\ suspectAge' \in [Universe -> 0 .. Suspicion]
         /\ members' \subseteq Universe /\ Self \in members'
         /\ hasQuorum' \in BOOLEAN
         /\ aliveAge' \in [Universe -> 0 .. Suspicion]
         /\ SuspicionYoung'
         /\ hasQuorum' => Cardinality({p \in Peer : a[p] <= StaleAfter}) + 1 >= Quorum
         /\ \A c \in members \ members' : aliveAge[c] >= Suspicion
<1> USE MembershipAssumption
<1> DEFINE confirmed == Confirmed(up, h, v, a)
           quorum == Cardinality(Reporters(h, a)) >= Quorum
           suspected == IF quorum THEN Suspected(sk, confirmed) ELSE sk
           age == [c \in Universe |-> IF c \in suspected THEN SuspicionAge(c, sk, sa) ELSE 0]
           expired == {c \in suspected : age[c] >= Suspicion} \ confirmed
<1>1. /\ conns' = up /\ heard' = Fresh(h, a) /\ viewAge' = a
      /\ view' = [p \in Peer |-> IF p \in Fresh(h, a) THEN v[p] ELSE {}]
      /\ hasQuorum' = quorum /\ suspects' = suspected /\ suspectAge' = age
      /\ members' = IF quorum THEN NextMembers(confirmed, expired) ELSE members
      /\ aliveAge' = [c \in Universe |-> IF quorum /\ c \in confirmed THEN 0 ELSE aliveAge[c]]
  BY DEF Reconcile
<1>2. /\ confirmed \subseteq Peer /\ suspected \subseteq Peer
      /\ quorum => suspected \cap confirmed = {}
      /\ Fresh(h, a) \subseteq Peer /\ Peer \subseteq Universe /\ Self \in Universe
  BY DEF Confirmed, Candidates, Universe, Suspected, Fresh
<1>3. /\ \A c \in Universe : age[c] \in 0 .. Suspicion
      /\ \A c \in suspected : age[c] <= aliveAge[c]
  BY <1>2 DEF SuspicionAge, TypeOK
<1>4. Self \notin expired /\ expired \subseteq suspected /\ expired \subseteq Universe
  BY <1>2
<1>5. \A c \in expired : aliveAge[c] >= Suspicion
  <2> SUFFICES ASSUME NEW c \in expired PROVE aliveAge[c] >= Suspicion
    OBVIOUS
  <2>1. c \in suspected /\ c \in Universe /\ age[c] >= Suspicion
    BY <1>4
  <2> HIDE DEF age, suspected, expired
  <2>2. age[c] <= aliveAge[c] /\ age[c] \in 0 .. Suspicion
    BY <1>3, <2>1
  <2>3. aliveAge[c] \in 0 .. Suspicion
    BY <2>1 DEF TypeOK
  <2> QED
    BY <2>1, <2>2, <2>3
<1>6. hasQuorum' => Cardinality({p \in Peer : a[p] <= StaleAfter}) + 1 >= Quorum
  <2> SUFFICES ASSUME quorum
               PROVE  Cardinality({p \in Peer : a[p] <= StaleAfter}) + 1 >= Quorum
    BY <1>1
  <2>1. Reporters(h, a) = Fresh(h, a) \cup {Self}
    BY DEF Reporters
  <2>2. Cardinality(Fresh(h, a)) + 1 >= Quorum
    BY <1>2, <2>1, PeerSets
  <2>3. /\ {p \in Peer : a[p] <= StaleAfter} \in SUBSET Peer
        /\ Fresh(h, a) \in SUBSET {p \in Peer : a[p] <= StaleAfter}
    BY DEF Fresh
  <2>4. /\ Cardinality(Fresh(h, a)) <= Cardinality({p \in Peer : a[p] <= StaleAfter})
        /\ Cardinality({p \in Peer : a[p] <= StaleAfter}) \in Nat
        /\ Cardinality(Fresh(h, a)) \in Nat /\ Quorum \in Nat
    BY <1>2, <2>3, PeerSets
  <2> QED
    BY <2>2, <2>4
<1>7. members' \subseteq Universe /\ Self \in members'
      /\ \A c \in members \ members' : aliveAge[c] >= Suspicion
  <2> HIDE DEF confirmed, expired, quorum
  <2> QED
    BY <1>1, <1>2, <1>4, <1>5 DEF NextMembers, TypeOK
<1>8. SuspicionYoung'
  <2> HIDE DEF confirmed, quorum, suspected, age
  <2>1. ASSUME NEW c \in suspected
        PROVE  aliveAge'[c] = aliveAge[c]
    BY <1>1, <1>2 DEF TypeOK
  <2> QED
    BY <1>1, <1>3, <2>1 DEF SuspicionYoung
<1>9. aliveAge' \in [Universe -> 0 .. Suspicion]
  <2> HIDE DEF confirmed, quorum
  <2> QED
    BY <1>1 DEF TypeOK
<1>10. view' \in [Peer -> SUBSET Universe] /\ hasQuorum' \in BOOLEAN
  BY <1>1
<1>11. suspectAge' \in [Universe -> 0 .. Suspicion]
  <2> HIDE DEF suspected
  <2> QED
    BY <1>1, <1>3
<1> QED
  BY <1>1, <1>2, <1>6, <1>7, <1>8, <1>9, <1>10, <1>11

-----------------------------------------------------------------------------

LEMMA ElapsedType == TypeOK /\ LoopTimer => Elapsed \in Nat
  BY MembershipAssumption DEF TypeOK, LoopTimer, Elapsed

(* A reconciliation starts the age of a quorum again, so it keeps the      *)
(* bound whatever the loop is doing.                                       *)
LEMMA FreshIsAged ==
  ASSUME MembershipInv, TypeOK', LoopTimer',
         hasQuorum' => Cardinality({p \in Peer : viewAge'[p] <= StaleAfter}) + 1 >= Quorum
  PROVE  QuorumAged'
<1> USE MembershipAssumption
<1> SUFFICES ASSUME hasQuorum'
             PROVE  Cardinality({p \in Peer : viewAge'[p] <= StaleAfter + Elapsed'}) + 1 >= Quorum
  BY DEF QuorumAged
<1>0. (Elapsed \in Nat)'
  BY ElapsedType, PTL
<1>1. Elapsed' \in Nat
  BY <1>0
<1>2. \A p \in Peer : viewAge'[p] <= StaleAfter => viewAge'[p] <= StaleAfter + Elapsed'
  BY <1>1 DEF TypeOK
<1> DEFINE S == {p \in Peer : viewAge'[p] <= StaleAfter + Elapsed'}
           T == {p \in Peer : viewAge'[p] <= StaleAfter}
<1>3. S \in SUBSET Peer /\ T \in SUBSET S /\ T \in SUBSET Peer
  BY <1>2
<1>4. Cardinality(T) <= Cardinality(S) /\ Cardinality(S) \in Nat /\ Cardinality(T) \in Nat
  BY <1>3, PeerSets
<1>5. Cardinality(T) + 1 >= Quorum
  OBVIOUS
<1> HIDE DEF S, T
<1>6. Cardinality(S) + 1 >= Quorum
  BY <1>4, <1>5, PeerSets
<1> QED
  BY <1>6 DEF S

(* One step of the invariant, and of the property about removals.          *)
LEMMA MembershipStep ==
  MembershipInv /\ [Next]_vars
    => MembershipInv' /\ \A c \in members \ members' : aliveAge[c] >= Suspicion
<1> SUFFICES ASSUME MembershipInv, [Next]_vars
             PROVE  MembershipInv' /\ \A c \in members \ members' : aliveAge[c] >= Suspicion
  OBVIOUS
<1> USE MembershipAssumption
<1>0. /\ TypeOK /\ SuspicionYoung /\ LoopTimer /\ QuorumAged
      /\ conns \in SUBSET Peer /\ heard \in SUBSET Peer /\ suspects \in SUBSET Peer
      /\ view \in [Peer -> SUBSET Universe] /\ viewAge \in [Peer -> 0 .. OldAge]
      /\ suspectAge \in [Universe -> 0 .. Suspicion]
      /\ aliveAge \in [Universe -> 0 .. Suspicion]
      /\ \A c \in suspects : suspectAge[c] <= aliveAge[c]
      /\ OldAge \in Nat /\ Peer \subseteq Universe
  BY DEF MembershipInv, TypeOK, SuspicionYoung, OldAge, Universe
<1>1. ASSUME NEW p \in Peer, LinkUp(p)
      PROVE  MembershipInv' /\ \A c \in members \ members' : aliveAge[c] >= Suspicion
  <2>1. /\ Reconcile(conns \cup {p}, heard, view, viewAge, suspects, suspectAge)
        /\ conns \cup {p} \in SUBSET Peer /\ loop' = loop /\ timer' = timer
    BY <1>0, <1>1 DEF LinkUp
  <2>2. TypeOK' /\ LoopTimer' /\ SuspicionYoung'
    BY <1>0, <2>1, ReconcileKeeps DEF TypeOK, LoopTimer
  <2>3. QuorumAged'
    BY <1>0, <2>1, <2>2, ReconcileKeeps, FreshIsAged
  <2> QED
    BY <1>0, <2>1, <2>2, <2>3, ReconcileKeeps DEF MembershipInv
<1>2. ASSUME NEW p \in Peer, LinkDown(p)
      PROVE  MembershipInv' /\ \A c \in members \ members' : aliveAge[c] >= Suspicion
  <2> DEFINE sk == suspects \cup {p}
             sa == [suspectAge EXCEPT ![p] = SuspicionAge(p, suspects, suspectAge)]
  <2>1. /\ Reconcile(conns \ {p}, heard, view, viewAge, sk, sa)
        /\ conns \ {p} \in SUBSET Peer /\ loop' = loop /\ timer' = timer
    BY <1>0, <1>2 DEF LinkDown
  <2>2. sk \in SUBSET Peer /\ sa \in [Universe -> 0 .. Suspicion]
    BY <1>0 DEF SuspicionAge
  <2>3. \A c \in sk : sa[c] <= aliveAge[c]
    BY <1>0 DEF SuspicionAge
  <2> HIDE DEF sk, sa
  <2>4. TypeOK' /\ LoopTimer' /\ SuspicionYoung'
    BY <1>0, <2>1, <2>2, <2>3, ReconcileKeeps DEF TypeOK, LoopTimer
  <2>5. QuorumAged'
    BY <1>0, <2>1, <2>2, <2>3, <2>4, ReconcileKeeps, FreshIsAged
  <2> QED
    BY <1>0, <2>1, <2>2, <2>3, <2>4, <2>5, ReconcileKeeps DEF MembershipInv
<1>3. ASSUME NEW p \in Peer, NEW reported \in SUBSET Universe, NodeState(p, reported)
      PROVE  MembershipInv' /\ \A c \in members \ members' : aliveAge[c] >= Suspicion
  <2> DEFINE h == heard \cup {p}
             v == [view EXCEPT ![p] = reported \cup {p}]
             a == [viewAge EXCEPT ![p] = 0]
  <2>1. /\ Reconcile(conns, h, v, a, suspects, suspectAge)
        /\ loop' = loop /\ timer' = timer
    BY <1>3 DEF NodeState
  <2>2. h \in SUBSET Peer /\ v \in [Peer -> SUBSET Universe] /\ a \in [Peer -> 0 .. OldAge]
    BY <1>0
  <2> HIDE DEF h, v, a
  <2>3. TypeOK' /\ LoopTimer' /\ SuspicionYoung'
    BY <1>0, <2>1, <2>2, ReconcileKeeps DEF TypeOK, LoopTimer
  <2>4. QuorumAged'
    BY <1>0, <2>1, <2>2, <2>3, ReconcileKeeps, FreshIsAged
  <2> QED
    BY <1>0, <2>1, <2>2, <2>3, <2>4, ReconcileKeeps DEF MembershipInv
<1>4. CASE LoopWakes
  <2>1. /\ Reconcile(conns, heard, view, viewAge, suspects, suspectAge)
        /\ loop' = "send" /\ timer' = SendBound
    BY <1>4 DEF LoopWakes
  <2>2. TypeOK' /\ LoopTimer' /\ SuspicionYoung'
    <3>1. LoopTimer' /\ timer' \in 0 .. Interval + SendBound /\ loop' \in {"sleep", "send"}
      BY <2>1 DEF LoopTimer
    <3> QED
      BY <1>0, <2>1, <3>1, ReconcileKeeps DEF TypeOK
  <2>3. QuorumAged'
    BY <1>0, <2>1, <2>2, ReconcileKeeps, FreshIsAged
  <2> QED
    BY <1>0, <2>1, <2>2, <2>3, ReconcileKeeps DEF MembershipInv
<1>5. CASE LoopSleeps
  <2>1. /\ loop = "send" /\ loop' = "sleep" /\ timer' = Interval
        /\ UNCHANGED <<conns, heard, view, viewAge, suspects, suspectAge,
                       members, hasQuorum, aliveAge>>
    BY <1>5 DEF LoopSleeps
  <2>2. TypeOK' /\ LoopTimer' /\ SuspicionYoung'
    <3>1. TypeOK'
      BY <1>0, <2>1 DEF TypeOK
    <3>2. LoopTimer'
      BY <2>1 DEF LoopTimer
    <3>3. SuspicionYoung'
      BY <1>0, <2>1 DEF SuspicionYoung
    <3> QED
      BY <3>1, <3>2, <3>3
  <2>3. Elapsed <= Elapsed' /\ Elapsed \in Int /\ Elapsed' \in Int
    BY <1>0, <2>1 DEF Elapsed, TypeOK, LoopTimer
  <2>4. QuorumAged'
    <3> SUFFICES ASSUME hasQuorum
                 PROVE  Cardinality({p \in Peer : viewAge'[p] <= StaleAfter + Elapsed'}) + 1 >= Quorum
      BY <2>1 DEF QuorumAged
    <3> DEFINE S == {p \in Peer : viewAge'[p] <= StaleAfter + Elapsed'}
               T == {p \in Peer : viewAge[p] <= StaleAfter + Elapsed}
    <3>1. S \in SUBSET Peer /\ T \in SUBSET S /\ T \in SUBSET Peer
      BY <1>0, <2>1, <2>3
    <3>2. Cardinality(T) <= Cardinality(S) /\ Cardinality(S) \in Nat /\ Cardinality(T) \in Nat
      BY <3>1, PeerSets
    <3>3. Cardinality(T) + 1 >= Quorum
      BY <1>0 DEF QuorumAged
    <3> HIDE DEF S, T
    <3>4. Cardinality(S) + 1 >= Quorum
      BY <3>2, <3>3, PeerSets
    <3> QED
      BY <3>4 DEF S
  <2> QED
    BY <2>1, <2>2, <2>4 DEF MembershipInv
<1>6. CASE Restart
  <2>1. Init'
    BY <1>6 DEF Restart, Init
  <2>2. MembershipInv'
    BY <2>1, MembershipInit, PTL
  <2>3. members' = Universe
    BY <1>6 DEF Restart
  <2> QED
    BY <1>0, <2>2, <2>3 DEF TypeOK
<1>7. CASE Tick
  <2>1. /\ timer > 0 /\ timer' = timer - 1 /\ loop' = loop
        /\ viewAge' = [p \in Peer |-> Capped(viewAge[p], OldAge)]
        /\ suspectAge' = [c \in Universe |->
             IF c \in suspects THEN Capped(suspectAge[c], Suspicion) ELSE 0]
        /\ aliveAge' = [c \in Universe |-> Capped(aliveAge[c], Suspicion)]
        /\ UNCHANGED <<conns, heard, view, suspects, members, hasQuorum>>
    BY <1>7 DEF Tick
  <2>2. /\ viewAge' \in [Peer -> 0 .. OldAge]
        /\ suspectAge' \in [Universe -> 0 .. Suspicion]
        /\ aliveAge' \in [Universe -> 0 .. Suspicion]
    BY <1>0, <2>1 DEF Capped
  <2>3. TypeOK' /\ LoopTimer'
    BY <1>0, <2>1, <2>2 DEF TypeOK, LoopTimer
  <2>4. SuspicionYoung'
    BY <1>0, <2>1 DEF SuspicionYoung, Capped
  <2>5. QuorumAged'
    <3> SUFFICES ASSUME hasQuorum
                 PROVE  Cardinality({p \in Peer : viewAge'[p] <= StaleAfter + Elapsed'}) + 1 >= Quorum
      BY <2>1 DEF QuorumAged
    <3> DEFINE S == {p \in Peer : viewAge'[p] <= StaleAfter + Elapsed'}
               T == {p \in Peer : viewAge[p] <= StaleAfter + Elapsed}
    <3>0. Elapsed' = Elapsed + 1 /\ Elapsed \in Int
      BY <1>0, <2>1 DEF Elapsed, TypeOK
    <3>1. S \in SUBSET Peer /\ T \in SUBSET S /\ T \in SUBSET Peer
      BY <1>0, <2>1, <3>0 DEF Capped
    <3>2. Cardinality(T) <= Cardinality(S) /\ Cardinality(S) \in Nat /\ Cardinality(T) \in Nat
      BY <3>1, PeerSets
    <3>3. Cardinality(T) + 1 >= Quorum
      BY <1>0 DEF QuorumAged
    <3> HIDE DEF S, T
    <3>4. Cardinality(S) + 1 >= Quorum
      BY <3>2, <3>3, PeerSets
    <3> QED
      BY <3>4 DEF S
  <2> QED
    BY <2>1, <2>3, <2>4, <2>5 DEF MembershipInv
<1>8. CASE UNCHANGED vars
  BY <1>0, <1>8 DEF vars, MembershipInv, TypeOK, SuspicionYoung, LoopTimer, QuorumAged, Elapsed
<1> QED
  BY <1>1, <1>2, <1>3, <1>4, <1>5, <1>6, <1>7, <1>8 DEF Next

LEMMA MembershipAlways == Spec => []MembershipInv
<1>1. MembershipInv /\ [Next]_vars => MembershipInv'
  BY MembershipStep
<1> QED
  BY <1>1, MembershipInit, PTL DEF Spec

(* Every field keeps its type; the node never suspects or removes itself.  *)
THEOREM MembershipTypes == Spec => []TypeOK
<1>1. MembershipInv => TypeOK
  BY DEF MembershipInv
<1> QED
  BY <1>1, MembershipAlways, PTL

(* _reconcile_membership removes a node no earlier than the suspicion      *)
(* delay after a quorum last saw it, or after the start.                   *)
THEOREM MembershipRemovalDelayed == Spec => RemovalDelayed
<1>1. MembershipInv /\ [Next]_vars => [\A c \in members \ members' : aliveAge[c] >= Suspicion]_vars
  BY MembershipStep
<1> QED
  BY <1>1, MembershipAlways, PTL DEF Spec, RemovalDelayed

(* has_quorum is true only if a majority has reported within the life of a *)
(* report and one round of _membership_loop.                               *)
THEOREM MembershipQuorumFresh == Spec => []QuorumFresh
<1>1. MembershipInv => QuorumFresh
  <2> SUFFICES ASSUME MembershipInv, hasQuorum
               PROVE  Cardinality({p \in Peer : viewAge[p] < OldAge}) + 1 >= Quorum
    BY DEF QuorumFresh
  <2> DEFINE S == {p \in Peer : viewAge[p] < OldAge}
             T == {p \in Peer : viewAge[p] <= StaleAfter + Elapsed}
  <2>1. Elapsed \in Int /\ StaleAfter + Elapsed < OldAge
    BY MembershipAssumption DEF MembershipInv, TypeOK, Elapsed, OldAge
  <2>2. S \in SUBSET Peer /\ T \in SUBSET S /\ T \in SUBSET Peer
    BY <2>1, MembershipAssumption DEF MembershipInv, TypeOK, OldAge
  <2>3. Cardinality(T) <= Cardinality(S) /\ Cardinality(S) \in Nat /\ Cardinality(T) \in Nat
    BY <2>2, PeerSets
  <2>4. Cardinality(T) + 1 >= Quorum
    BY DEF MembershipInv, QuorumAged
  <2> HIDE DEF S, T
  <2>5. Cardinality(S) + 1 >= Quorum
    BY <2>3, <2>4, PeerSets
  <2> QED
    BY <2>5 DEF S
<1> QED
  BY <1>1, MembershipAlways, PTL

=============================================================================

----------------------------- MODULE HubProofs -----------------------------
(***************************************************************************)
(* Theorems about Hub, for every set of sessions and routes and every      *)
(* value of the limits and durations.                                      *)
(***************************************************************************)
EXTENDS Hub, FiniteSetTheorems, TLAPS

-----------------------------------------------------------------------------
(* Types.                                                                  *)

(* remove_session, in whatever intermediate tables it finds, keeps types.  *)
LEMMA RemoveTypes ==
  ASSUME TypeOK,
         NEW gone \in SUBSET Session,
         NEW h \in [Route -> SUBSET Session],
         NEW a \in [Session -> SUBSET Route],
         NEW rs \in SUBSET Route,
         RemoveSessions(gone, h, a, rs)
  PROVE  /\ sessions' \subseteq Session
         /\ attached' \in [Session -> SUBSET Route]
         /\ holders' \in [Route -> SUBSET Session]
         /\ routes' \subseteq Route
         /\ left' \in [Route -> [Session -> {t \in Int : t <= RouteLease}]]
         /\ buckets' \subseteq Session
<1>1. sessions' \subseteq Session /\ buckets' \subseteq Session
  BY DEF RemoveSessions, TypeOK
<1>2. attached' \in [Session -> SUBSET Route]
  BY DEF RemoveSessions, AttachedWithout
<1>3. holders' \in [Route -> SUBSET Session]
  BY DEF RemoveSessions, HoldersWithout
<1>4. routes' \subseteq Route
  BY DEF RemoveSessions, KeptRoutes
<1>5. left' \in [Route -> [Session -> {t \in Int : t <= RouteLease}]]
  BY HubAssumption DEF RemoveSessions, LeftOf, TypeOK
<1> QED BY <1>1, <1>2, <1>3, <1>4, <1>5

LEMMA PruneTypes ==
  ASSUME TypeOK
  PROVE  /\ PrunedHolders \in [Route -> SUBSET Session]
         /\ PrunedAttached \in [Session -> SUBSET Route]
         /\ PrunedRoutes \in SUBSET Route
BY DEF TypeOK, PrunedHolders, PrunedAttached, PrunedRoutes

LEMMA InitTypes == Init => TypeOK
BY HubAssumption DEF Init, TypeOK, ConnState, Phase

LEMMA NextTypes == TypeOK /\ [Next]_vars => TypeOK'
<1> SUFFICES ASSUME TypeOK, [Next]_vars PROVE TypeOK'
  OBVIOUS
<1> USE HubAssumption DEF TypeOK, ConnState, Phase, tables
<1>1. ASSUME NEW s \in Session, Connect(s) PROVE TypeOK'
  BY <1>1 DEF Connect
<1>2. ASSUME NEW s \in Session, Oversize(s) PROVE TypeOK'
  BY <1>2 DEF Oversize, Receive
<1>3. ASSUME NEW s \in Session, Refuse(s) PROVE TypeOK'
  BY <1>3 DEF Refuse, Handle, Receive
<1>4. ASSUME NEW s \in Session, Overrate(s) PROVE TypeOK'
  BY <1>4 DEF Overrate
<1>5. ASSUME NEW s \in Session, Hello(s) PROVE TypeOK'
  BY <1>5 DEF Hello, Handle, Receive
<1>6. ASSUME NEW s \in Session, Prove(s) PROVE TypeOK'
  BY <1>6 DEF Prove, Handle, Receive
<1>7. ASSUME NEW s \in Session, Ping(s) PROVE TypeOK'
  BY <1>7 DEF Ping, Handle, Receive
<1>8. ASSUME NEW s \in Session, NEW r \in Route, Attach(s, r) PROVE TypeOK'
  BY <1>8 DEF Attach, Handle, Receive, RenewedLease
<1>9. ASSUME NEW s \in Session, NEW r \in Route, Detach(s, r) PROVE TypeOK'
  BY <1>9 DEF Detach, Handle, Receive, LeftOf, KeptRoutes
<1>10. ASSUME NEW s \in Session, Gone(s) PROVE TypeOK'
  BY <1>10 DEF Gone
<1>11. ASSUME NEW s \in Session, LoopTop(s) PROVE TypeOK'
  BY <1>11 DEF LoopTop
<1>12. ASSUME NEW s \in Session, ProofTimeout(s) PROVE TypeOK'
  BY <1>12 DEF ProofTimeout
<1>13. ASSUME NEW s \in Session, Break(s) PROVE TypeOK'
  BY <1>13 DEF Break
<1>14. ASSUME NEW s \in Session, Finish(s) PROVE TypeOK'
  <2>1. /\ sessions' \subseteq Session
        /\ attached' \in [Session -> SUBSET Route]
        /\ holders' \in [Route -> SUBSET Session]
        /\ routes' \subseteq Route
        /\ left' \in [Route -> [Session -> {t \in Int : t <= RouteLease}]]
        /\ buckets' \subseteq Session
    <3>1. CASE s \in sessions
      BY <1>14, <3>1, RemoveTypes DEF Finish
    <3>2. CASE s \notin sessions
      BY <1>14, <3>2 DEF Finish
    <3> QED BY <3>1, <3>2
  <2>2. /\ conn' \in [Session -> ConnState]
        /\ phase' \in [Session -> Phase]
        /\ hbAge' \in [Session -> Nat]
        /\ proofLeft' \in [Session -> -1 .. ProofDeadline]
        /\ cleanupIn' \in 0 .. CleanupInterval
    BY <1>14 DEF Finish
  <2> QED BY <2>1, <2>2
<1>15. ASSUME Cleanup PROVE TypeOK'
  <2> DEFINE stale == {s \in sessions : IsStale(s)}
  <2>1. RemoveSessions(stale, PrunedHolders, PrunedAttached, PrunedRoutes)
    BY <1>15 DEF Cleanup
  <2>2. stale \in SUBSET Session
    OBVIOUS
  <2>3. /\ sessions' \subseteq Session
        /\ attached' \in [Session -> SUBSET Route]
        /\ holders' \in [Route -> SUBSET Session]
        /\ routes' \subseteq Route
        /\ left' \in [Route -> [Session -> {t \in Int : t <= RouteLease}]]
        /\ buckets' \subseteq Session
    BY <2>1, <2>2, RemoveTypes, PruneTypes
  <2> QED BY <1>15, <2>3 DEF Cleanup
<1>16. ASSUME Tick PROVE TypeOK'
  BY <1>16 DEF Tick
<1>17. ASSUME UNCHANGED vars PROVE TypeOK'
  BY <1>17 DEF vars
<1> QED
  BY <1>1, <1>2, <1>3, <1>4, <1>5, <1>6, <1>7, <1>8, <1>9, <1>10, <1>11,
     <1>12, <1>13, <1>14, <1>15, <1>16, <1>17 DEF Next, Step

(* The tables and timers of the hub keep their types; in particular no     *)
(* sequence of ATTACH_ROUTE frames yields more than one full lease.        *)
THEOREM HubTypes == Spec => []TypeOK
BY InitTypes, NextTypes, PTL DEF Spec

-----------------------------------------------------------------------------
(* The two indexes of the attachment relation.                             *)

(* Agreement of attachments a and holders h on the sessions of live, with  *)
(* rs the non-empty entries.  IndexAgreement is the case of the hub's own  *)
(* tables; prune_routes leaves such tables to prune_stale_sessions.        *)
Agree(live, h, a, rs) ==
  /\ \A r \in Route : h[r] \subseteq live
  /\ \A s \in Session, r \in Route : r \in a[s] <=> s \in h[r]
  /\ \A r \in Route : r \in rs <=> h[r] # {}

(* remove_session takes a session out of both indexes.                     *)
LEMMA RemoveAgrees ==
  ASSUME NEW gone \in SUBSET Session,
         NEW h \in [Route -> SUBSET Session],
         NEW a \in [Session -> SUBSET Route],
         NEW rs \in SUBSET Route,
         Agree(sessions, h, a, rs),
         RemoveSessions(gone, h, a, rs)
  PROVE  IndexAgreement'
<1>1. holders' = [r \in Route |-> h[r] \ gone]
  BY DEF RemoveSessions, HoldersWithout, Agree
<1>2. \A r \in Route : holders'[r] \subseteq sessions'
  BY <1>1 DEF RemoveSessions, Agree
<1>3. \A s \in Session, r \in Route : r \in attached'[s] <=> s \in holders'[r]
  BY <1>1 DEF RemoveSessions, AttachedWithout, Agree
<1>4. \A r \in Route : r \in routes' <=> holders'[r] # {}
  <2> TAKE r \in Route
  <2>1. routes' = {q \in rs : q \notin UNION {a[s] : s \in gone} \/ holders'[q] # {}}
    BY DEF RemoveSessions, KeptRoutes
  <2>2. r \in rs <=> h[r] # {}
    BY DEF Agree
  <2>3. ASSUME r \notin UNION {a[s] : s \in gone} PROVE holders'[r] = h[r]
    BY <2>3, <1>1 DEF Agree
  <2> QED BY <1>1, <2>1, <2>2, <2>3
<1> QED BY <1>2, <1>3, <1>4 DEF IndexAgreement

LEMMA PruneAgrees ==
  ASSUME TypeOK, IndexAgreement
  PROVE  Agree(sessions, PrunedHolders, PrunedAttached, PrunedRoutes)
BY DEF TypeOK, IndexAgreement, Agree, PrunedHolders, PrunedAttached, PrunedRoutes

LEMMA NextAgrees == TypeOK /\ IndexAgreement /\ [Next]_vars => IndexAgreement'
<1> SUFFICES ASSUME TypeOK, IndexAgreement, [Next]_vars PROVE IndexAgreement'
  OBVIOUS
<1> USE DEF tables
<1>1. ASSUME NEW s \in Session, Connect(s) PROVE IndexAgreement'
  BY <1>1 DEF Connect, IndexAgreement
<1>2. ASSUME NEW s \in Session, NEW r \in Route, Attach(s, r) PROVE IndexAgreement'
  BY <1>2 DEF Attach, Handle, Receive, IndexAgreement, TypeOK
<1>3. ASSUME NEW s \in Session, NEW r \in Route, Detach(s, r) PROVE IndexAgreement'
  BY <1>3 DEF Detach, Handle, Receive, KeptRoutes, IndexAgreement, TypeOK
<1>4. ASSUME NEW s \in Session, Finish(s) PROVE IndexAgreement'
  <2>1. CASE s \in sessions
    <3>1. RemoveSessions({s}, holders, attached, routes)
      BY <1>4, <2>1 DEF Finish
    <3>2. Agree(sessions, holders, attached, routes)
      BY DEF IndexAgreement, Agree
    <3> QED BY <3>1, <3>2, RemoveAgrees DEF TypeOK
  <2>2. CASE s \notin sessions
    BY <1>4, <2>2 DEF Finish, IndexAgreement
  <2> QED BY <2>1, <2>2
<1>5. ASSUME Cleanup PROVE IndexAgreement'
  <2> DEFINE stale == {s \in sessions : IsStale(s)}
  <2>1. RemoveSessions(stale, PrunedHolders, PrunedAttached, PrunedRoutes)
    BY <1>5 DEF Cleanup
  <2>2. stale \in SUBSET Session
    BY DEF TypeOK
  <2> QED BY <2>1, <2>2, PruneTypes, PruneAgrees, RemoveAgrees
<1>6. ASSUME UNCHANGED <<sessions, attached, routes, holders>> PROVE IndexAgreement'
  BY <1>6 DEF IndexAgreement
<1>7. ASSUME NEW s \in Session,
             \/ Oversize(s) \/ Refuse(s) \/ Overrate(s) \/ Hello(s) \/ Prove(s)
             \/ Ping(s) \/ Gone(s) \/ LoopTop(s) \/ ProofTimeout(s) \/ Break(s)
      PROVE  UNCHANGED <<sessions, attached, routes, holders>>
  BY <1>7 DEF Oversize, Refuse, Overrate, Hello, Prove, Ping, Gone, LoopTop,
              ProofTimeout, Break, Handle, Receive
<1>8. ASSUME Tick \/ UNCHANGED vars PROVE UNCHANGED <<sessions, attached, routes, holders>>
  BY <1>8 DEF Tick, vars
<1> QED
  BY <1>1, <1>2, <1>3, <1>4, <1>5, <1>6, <1>7, <1>8 DEF Next, Step

(* sess["routes"] and hub.routes describe the same relation in every       *)
(* reachable state, for any number of sessions and routes.                 *)
THEOREM HubIndexAgreement == Spec => []IndexAgreement
<1>1. Init => IndexAgreement
  BY DEF Init, IndexAgreement
<1> QED BY <1>1, NextAgrees, HubTypes, PTL DEF Spec

-----------------------------------------------------------------------------
(* How far behind the cleanup loop can be.  The bounds alone are not       *)
(* inductive: what is inductive is that the lag never exceeds the time     *)
(* since the last pass, CleanupInterval - cleanupIn.                       *)

(* No lease has been over for as long as the last pass is ago, and no      *)
(* session has been stale for longer than that.                            *)
SweepProgress ==
  /\ \A r \in Route : \A s \in holders[r] : left[r][s] > cleanupIn - CleanupInterval
  /\ \A s \in sessions : hbAge[s] <= SessionStale + (CleanupInterval - cleanupIn)

LEMMA NextSweeps ==
  TypeOK /\ IndexAgreement /\ SweepProgress /\ [Next]_vars => SweepProgress'
<1> SUFFICES ASSUME TypeOK, IndexAgreement, SweepProgress, [Next]_vars
             PROVE  SweepProgress'
  OBVIOUS
<1> USE HubAssumption DEF TypeOK, SweepProgress, tables
<1>1. ASSUME NEW s \in Session, Connect(s) PROVE SweepProgress'
  BY <1>1 DEF Connect
<1>2. ASSUME NEW s \in Session, Prove(s) \/ Ping(s) PROVE SweepProgress'
  <2>1. /\ UNCHANGED <<sessions, holders, left, cleanupIn>>
        /\ hbAge' = [hbAge EXCEPT ![s] = 0]
    BY <1>2 DEF Prove, Ping, Handle, Receive
  <2>2. \A q \in sessions' : hbAge'[q] = hbAge[q] \/ hbAge'[q] = 0
    BY <2>1
  <2> QED BY <2>1, <2>2
<1>3. ASSUME NEW s \in Session, NEW r \in Route, Attach(s, r) PROVE SweepProgress'
  <2>1. /\ UNCHANGED <<sessions, hbAge, cleanupIn>>
        /\ holders' = [holders EXCEPT ![r] = @ \cup {s}]
        /\ left' = [left EXCEPT ![r][s] = RouteLease]
    BY <1>3 DEF Attach, Handle, Receive, RenewedLease
  <2>2. left'[r][s] > cleanupIn - CleanupInterval
    BY <2>1
  <2>3. \A p \in Route : \A q \in holders'[p] :
          (p = r /\ q = s) \/ (q \in holders[p] /\ left'[p][q] = left[p][q])
    BY <2>1
  <2> QED BY <2>1, <2>2, <2>3
<1>4. ASSUME NEW s \in Session, NEW r \in Route, Detach(s, r) PROVE SweepProgress'
  BY <1>4 DEF Detach, Handle, Receive, LeftOf
<1>5. ASSUME NEW s \in Session, Finish(s) PROVE SweepProgress'
  <2>1. CASE s \in sessions
    <3>1. RemoveSessions({s}, holders, attached, routes)
      BY <1>5, <2>1 DEF Finish
    <3>2. \A r \in Route : holders'[r] \subseteq holders[r]
      BY <3>1 DEF RemoveSessions, HoldersWithout
    <3>3. \A r \in Route : \A q \in holders'[r] : left'[r][q] = left[r][q]
      BY <3>1, <3>2 DEF RemoveSessions, LeftOf
    <3>4. /\ sessions' = sessions \ {s}
          /\ hbAge' = [hbAge EXCEPT ![s] = 0]
          /\ cleanupIn' = cleanupIn
      BY <1>5, <3>1 DEF Finish, RemoveSessions
    <3> QED BY <3>2, <3>3, <3>4
  <2>2. CASE s \notin sessions
    BY <1>5, <2>2 DEF Finish
  <2> QED BY <2>1, <2>2
<1>6. ASSUME Cleanup PROVE SweepProgress'
  <2> DEFINE stale == {s \in sessions : IsStale(s)}
  <2>1. RemoveSessions(stale, PrunedHolders, PrunedAttached, PrunedRoutes)
    BY <1>6 DEF Cleanup
  <2>2. \A r \in Route : holders'[r] \subseteq {s \in holders[r] : left[r][s] > 0}
    BY <2>1 DEF RemoveSessions, HoldersWithout, PrunedHolders, LeaseExpired
  <2>3. \A r \in Route : \A s \in holders'[r] : left'[r][s] = left[r][s]
    BY <2>1, <2>2 DEF RemoveSessions, LeftOf
  <2>4. /\ sessions' = sessions \ stale
        /\ hbAge' = [s \in Session |-> IF s \in stale THEN 0 ELSE hbAge[s]]
        /\ cleanupIn' = CleanupInterval
    BY <1>6, <2>1 DEF Cleanup, RemoveSessions
  <2>5. \A s \in sessions' : hbAge'[s] <= SessionStale
    BY <2>4 DEF IsStale
  <2>6. \A r \in Route : \A s \in holders'[r] : left'[r][s] > 0
    BY <2>2, <2>3
  <2>7. cleanupIn' = CleanupInterval /\ CleanupInterval - CleanupInterval = 0
    BY <2>4
  <2>8. TypeOK'
    BY NextTypes
  <2> HIDE DEF stale
  <2> QED BY <2>5, <2>6, <2>7, <2>8
<1>7. ASSUME Tick PROVE SweepProgress'
  BY <1>7, IndexAgreement DEF Tick, IndexAgreement
<1>8. ASSUME UNCHANGED <<sessions, holders, left, hbAge, cleanupIn>> PROVE SweepProgress'
  BY <1>8
<1>9. ASSUME NEW s \in Session,
             \/ Oversize(s) \/ Refuse(s) \/ Overrate(s) \/ Hello(s)
             \/ Gone(s) \/ LoopTop(s) \/ ProofTimeout(s) \/ Break(s)
      PROVE  UNCHANGED <<sessions, holders, left, hbAge, cleanupIn>>
  BY <1>9 DEF Oversize, Refuse, Overrate, Hello, Gone, LoopTop,
              ProofTimeout, Break, Handle, Receive
<1>10. ASSUME UNCHANGED vars PROVE UNCHANGED <<sessions, holders, left, hbAge, cleanupIn>>
  BY <1>10 DEF vars
<1> QED
  BY <1>1, <1>2, <1>3, <1>4, <1>5, <1>6, <1>7, <1>8, <1>9, <1>10 DEF Next, Step

LEMMA HubSweepProgress == Spec => []SweepProgress
<1>1. Init => SweepProgress
  BY HubAssumption DEF Init, SweepProgress
<1> QED BY <1>1, NextSweeps, HubTypes, HubIndexAgreement, PTL DEF Spec

(* An expired lease authorises for less than one cleanup interval.         *)
THEOREM HubLeaseLag == Spec => []LeaseLag
<1>1. TypeOK /\ SweepProgress => LeaseLag
  BY HubAssumption DEF TypeOK, SweepProgress, LeaseLag
<1> QED BY <1>1, HubTypes, HubSweepProgress, PTL

(* A silent session is reaped within SessionStale + CleanupInterval.       *)
THEOREM HubReapBound == Spec => []ReapBound
<1>1. TypeOK /\ SweepProgress => ReapBound
  BY HubAssumption DEF TypeOK, SweepProgress, ReapBound
<1> QED BY <1>1, HubTypes, HubSweepProgress, PTL

-----------------------------------------------------------------------------
(* Proofs of possession.                                                   *)

(* A task that waits for a frame of an unproven session waits inside its   *)
(* deadline: LoopTop checks it and the clock does not pass it.             *)
WaitsInTime ==
  \A s \in Session : conn[s] = "recv" /\ AwaitsProof(s) => proofLeft[s] >= 0

LEMMA NextWaits == TypeOK /\ WaitsInTime /\ [Next]_vars => WaitsInTime'
<1> SUFFICES ASSUME TypeOK, WaitsInTime, [Next]_vars PROVE WaitsInTime'
  OBVIOUS
<1> USE HubAssumption DEF TypeOK, WaitsInTime, AwaitsProof
<1>1. ASSUME NEW s \in Session, Connect(s) PROVE WaitsInTime'
  BY <1>1 DEF Connect
<1>2. ASSUME NEW s \in Session, Receive(s),
             phase' = phase \/ \E p \in Phase : phase' = [phase EXCEPT ![s] = p]
      PROVE  WaitsInTime'
  BY <1>2 DEF Receive
<1>3. ASSUME NEW s \in Session,
             Oversize(s) \/ Refuse(s) \/ Hello(s) \/ Prove(s) \/ Ping(s)
      PROVE  WaitsInTime'
  BY <1>2, <1>3 DEF Oversize, Refuse, Hello, Prove, Ping, Handle, Phase
<1>4. ASSUME NEW s \in Session, NEW r \in Route, Attach(s, r) \/ Detach(s, r)
      PROVE  WaitsInTime'
  BY <1>2, <1>4 DEF Attach, Detach, Handle
<1>5. ASSUME NEW s \in Session,
             Overrate(s) \/ Gone(s) \/ ProofTimeout(s) \/ Break(s)
      PROVE  WaitsInTime'
  BY <1>5 DEF Overrate, Gone, ProofTimeout, Break
<1>6. ASSUME NEW s \in Session, LoopTop(s) PROVE WaitsInTime'
  BY <1>6 DEF LoopTop, DeadlinePassed
<1>7. ASSUME NEW s \in Session, Finish(s) PROVE WaitsInTime'
  <2>1. /\ conn' = [conn EXCEPT ![s] = "closed"]
        /\ phase' = [phase EXCEPT ![s] = "fresh"]
        /\ proofLeft' = [proofLeft EXCEPT ![s] = 0]
    BY <1>7 DEF Finish
  <2> QED BY <2>1
<1>8. ASSUME Cleanup PROVE WaitsInTime'
  <2>1. UNCHANGED <<conn, phase, proofLeft>>
    BY <1>8 DEF Cleanup
  <2> QED BY <2>1
<1>9. ASSUME Tick PROVE WaitsInTime'
  BY <1>9 DEF Tick, DeadlinePassed
<1>10. ASSUME UNCHANGED vars PROVE WaitsInTime'
  BY <1>10 DEF vars
<1> QED
  BY <1>1, <1>3, <1>4, <1>5, <1>6, <1>7, <1>8, <1>9, <1>10 DEF Next, Step

(* No session is promoted to proven after its deadline.                    *)
THEOREM HubProofInTime == Spec => ProofInTime
<1>1. Init => WaitsInTime
  BY DEF Init, WaitsInTime
<1>2. ASSUME TypeOK, WaitsInTime, [Next]_vars
      PROVE  [\A s \in Session :
                phase[s] # "proven" /\ phase'[s] = "proven" => proofLeft[s] >= 0]_vars
  <2>1. SUFFICES ASSUME NEW s \in Session, phase[s] # "proven", phase'[s] = "proven"
                 PROVE  proofLeft[s] >= 0
    OBVIOUS
  <2>2. ASSUME phase' = phase PROVE FALSE
    BY <2>1, <2>2
  <2>3. ASSUME NEW q \in Session, Hello(q) \/ Finish(q) PROVE FALSE
    <3>1. \/ phase' = [phase EXCEPT ![q] = "challenged"]
          \/ phase' = [phase EXCEPT ![q] = "fresh"]
      BY <2>3 DEF Hello, Finish
    <3>2. phase'[s] \in {phase[s], "challenged", "fresh"}
      BY <1>2, <3>1 DEF TypeOK
    <3> QED BY <2>1, <3>2
  <2>4. ASSUME NEW q \in Session, Prove(q) PROVE proofLeft[s] >= 0
    BY <1>2, <2>1, <2>4 DEF Prove, Handle, Receive, WaitsInTime, AwaitsProof, TypeOK
  <2>5. ASSUME NEW q \in Session, Step(q), ~Hello(q), ~Finish(q), ~Prove(q)
        PROVE  phase' = phase
    BY <2>5 DEF Step, Connect, Oversize, Refuse, Overrate, Ping, Attach, Detach,
                Gone, LoopTop, ProofTimeout, Break
  <2>6. ASSUME Cleanup \/ Tick \/ UNCHANGED vars PROVE phase' = phase
    BY <2>6 DEF Cleanup, Tick, vars
  <2> QED BY <1>2, <2>2, <2>3, <2>4, <2>5, <2>6 DEF Next
<1> QED BY <1>1, <1>2, NextWaits, HubTypes, PTL DEF Spec, ProofInTime

LEMMA NextProven ==
  TypeOK /\ IndexAgreement /\ AttachedAreProven /\ [Next]_vars => AttachedAreProven'
<1> SUFFICES ASSUME TypeOK, IndexAgreement, AttachedAreProven, [Next]_vars
             PROVE  AttachedAreProven'
  OBVIOUS
<1> USE DEF AttachedAreProven, TypeOK, tables
<1>1. ASSUME NEW s \in Session, Hello(s) PROVE AttachedAreProven'
  BY <1>1 DEF Hello, MayHello, Handle, Receive
<1>2. ASSUME NEW s \in Session, Prove(s) PROVE AttachedAreProven'
  BY <1>2 DEF Prove, Handle, Receive
<1>3. ASSUME NEW s \in Session, NEW r \in Route, Attach(s, r) \/ Detach(s, r)
      PROVE  AttachedAreProven'
  BY <1>3 DEF Attach, Detach, MayUseRoutes, Handle, Receive
<1>4. ASSUME NEW s \in Session, Finish(s) PROVE AttachedAreProven'
  <2>1. attached'[s] = {} /\ \A q \in Session : attached'[q] \subseteq attached[q]
    <3>1. CASE s \in sessions
      BY <1>4, <3>1 DEF Finish, RemoveSessions, AttachedWithout
    <3>2. CASE s \notin sessions
      BY <1>4, <3>2 DEF Finish, IndexAgreement
    <3> QED BY <3>1, <3>2
  <2>2. phase' = [phase EXCEPT ![s] = "fresh"]
    BY <1>4 DEF Finish
  <2> QED BY <2>1, <2>2
<1>5. ASSUME Cleanup PROVE AttachedAreProven'
  <2>1. phase' = phase /\ \A q \in Session : attached'[q] \subseteq attached[q]
    BY <1>5 DEF Cleanup, RemoveSessions, AttachedWithout, PrunedAttached
  <2> QED BY <2>1
<1>6. ASSUME UNCHANGED <<phase, attached>> PROVE AttachedAreProven'
  BY <1>6
<1>7. ASSUME NEW s \in Session,
             \/ Connect(s) \/ Oversize(s) \/ Refuse(s) \/ Overrate(s) \/ Ping(s)
             \/ Gone(s) \/ LoopTop(s) \/ ProofTimeout(s) \/ Break(s)
      PROVE  UNCHANGED <<phase, attached>>
  BY <1>7 DEF Connect, Oversize, Refuse, Overrate, Ping, Gone, LoopTop,
              ProofTimeout, Break, Handle, Receive
<1>8. ASSUME Tick \/ UNCHANGED vars PROVE UNCHANGED <<phase, attached>>
  BY <1>8 DEF Tick, vars
<1> QED
  BY <1>1, <1>2, <1>3, <1>4, <1>5, <1>6, <1>7, <1>8 DEF Next, Step

(* Whoever holds a route has proven its key.                               *)
THEOREM HubAttachedAreProven == Spec => []AttachedAreProven
<1>1. Init => AttachedAreProven
  BY DEF Init, AttachedAreProven
<1> QED BY <1>1, NextProven, HubTypes, HubIndexAgreement, PTL DEF Spec

-----------------------------------------------------------------------------
(* Limits.                                                                 *)

LEMMA Grow ==
  ASSUME NEW S, IsFiniteSet(S), NEW x, NEW n \in Nat, x \in S \/ Cardinality(S) < n,
         Cardinality(S) <= n
  PROVE  Cardinality(S \cup {x}) <= n
<1>1. CASE x \in S
  <2>1. S \cup {x} = S
    BY <1>1
  <2> QED BY <2>1
<1>2. CASE x \notin S
  <2>1. Cardinality(S \cup {x}) = Cardinality(S) + 1
    BY <1>2, FS_AddElement
  <2>2. Cardinality(S) \in Nat
    BY FS_CardinalityType
  <2> QED BY <1>2, <2>1, <2>2
<1> QED BY <1>1, <1>2

LEMMA Shrink ==
  ASSUME NEW S, IsFiniteSet(S), NEW T, T \subseteq S, NEW n \in Nat, Cardinality(S) <= n
  PROVE  Cardinality(T) <= n
BY FS_Subset, FS_CardinalityType

LEMMA NextCaps == TypeOK /\ ResourceCaps /\ [Next]_vars => ResourceCaps'
<1> SUFFICES ASSUME TypeOK, ResourceCaps, [Next]_vars PROVE ResourceCaps'
  OBVIOUS
<1>1. /\ IsFiniteSet(sessions) /\ \A s \in Session : IsFiniteSet(attached[s])
      /\ MaxConcurrency \in Nat /\ \A s \in Session : RouteLimit(s) \in Nat
  <2>1. IsFiniteSet(Session)
    BY HubAssumption, FS_Union DEF Session
  <2> QED BY <2>1, HubAssumption, FS_Subset DEF TypeOK, RouteLimit
<1>2. ASSUME NEW s \in Session, Connect(s) PROVE ResourceCaps'
  <2>1. Cardinality(sessions') <= MaxConcurrency
    BY <1>1, <1>2, Grow DEF Connect, RoomForSession, ResourceCaps
  <2> QED BY <1>2, <2>1 DEF Connect, ResourceCaps, RouteLimit
<1>3. ASSUME NEW s \in Session, NEW r \in Route, Attach(s, r) PROVE ResourceCaps'
  <2>1. Cardinality(attached[s] \cup {r}) <= RouteLimit(s)
    BY <1>1, <1>3, Grow DEF Attach, RoomForRoute, ResourceCaps
  <2>2. sessions' = sessions /\ attached' = [attached EXCEPT ![s] = @ \cup {r}]
    BY <1>3 DEF Attach, Handle, Receive
  <2> QED BY <2>1, <2>2 DEF ResourceCaps, RouteLimit, TypeOK
<1>4. ASSUME sessions' \subseteq sessions,
             \A s \in Session : attached'[s] \subseteq attached[s]
      PROVE  ResourceCaps'
  <2>1. Cardinality(sessions') <= MaxConcurrency
    BY <1>1, <1>4, Shrink DEF ResourceCaps
  <2>2. \A s \in Session : Cardinality(attached'[s]) <= RouteLimit(s)
    BY <1>1, <1>4, Shrink DEF ResourceCaps
  <2> QED BY <2>1, <2>2 DEF ResourceCaps, RouteLimit
<1>5. ASSUME NEW s \in Session, NEW r \in Route, Detach(s, r) PROVE ResourceCaps'
  BY <1>4, <1>5 DEF Detach, Handle, Receive, TypeOK
<1>6. ASSUME NEW s \in Session, Finish(s) PROVE ResourceCaps'
  <2>1. CASE s \in sessions
    BY <1>4, <1>6, <2>1 DEF Finish, RemoveSessions, AttachedWithout
  <2>2. CASE s \notin sessions
    BY <1>4, <1>6, <2>2 DEF Finish, tables
  <2> QED BY <2>1, <2>2
<1>7. ASSUME Cleanup PROVE ResourceCaps'
  BY <1>4, <1>7 DEF Cleanup, RemoveSessions, AttachedWithout, PrunedAttached
<1>8. ASSUME NEW s \in Session,
             \/ Oversize(s) \/ Refuse(s) \/ Overrate(s) \/ Hello(s) \/ Prove(s)
             \/ Ping(s) \/ Gone(s) \/ LoopTop(s) \/ ProofTimeout(s) \/ Break(s)
      PROVE  UNCHANGED <<sessions, attached>>
  BY <1>8 DEF Oversize, Refuse, Overrate, Hello, Prove, Ping, Gone, LoopTop,
              ProofTimeout, Break, Handle, Receive, tables
<1>9. ASSUME Tick \/ UNCHANGED vars PROVE UNCHANGED <<sessions, attached>>
  BY <1>9 DEF Tick, vars
<1> QED
  BY <1>2, <1>3, <1>4, <1>5, <1>6, <1>7, <1>8, <1>9 DEF Next, Step

(* The session table and every session's routes stay within the limits of  *)
(* the configuration.                                                      *)
THEOREM HubResourceCaps == Spec => []ResourceCaps
<1>1. Init => ResourceCaps
  BY HubAssumption, FS_EmptySet DEF Init, ResourceCaps, RouteLimit
<1> QED BY <1>1, NextCaps, HubTypes, PTL DEF Spec
=============================================================================

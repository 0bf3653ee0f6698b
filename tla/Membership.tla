----------------------------- MODULE Membership -----------------------------
(***************************************************************************)
(* Which nodes one mesh node counts as members, that is, as candidates for *)
(* the ownership of routes (app/node_mesh.py): its connections, the        *)
(* NODE_STATE reports of its peers, the suspicions it holds, and           *)
(* _reconcile_membership, which runs at every report, at every connection  *)
(* claimed or lost and in _membership_loop.                                *)
(*                                                                         *)
(* _reconcile_membership does not await, so it is one step with what calls *)
(* it.  The peers are the environment: they report any set of nodes.  Ages *)
(* are counted in ticks and stop where the code no longer tells them apart. *)
(***************************************************************************)
EXTENDS Integers, FiniteSets

CONSTANTS
  Self,        \* config.node_id
  Peer,        \* the trusted nodes
  Suspicion,   \* config.node_mesh_suspicion_seconds
  StaleAfter,  \* max(3, 3 * suspicion): how long a report counts
  Interval,    \* sleep of _membership_loop
  SendBound    \* longest round of sends of the loop

Universe == Peer \cup {Self}

(* A majority of the configured nodes.                                     *)
Quorum == Cardinality(Universe) \div 2 + 1

ASSUME MembershipAssumption ==
  /\ IsFiniteSet(Peer) /\ Self \notin Peer
  /\ Suspicion \in Nat /\ StaleAfter \in Nat /\ 3 * Suspicion <= StaleAfter
  /\ Interval \in Nat \ {0} /\ SendBound \in Nat

VARIABLES
  conns,       \* keys of connections
  heard,       \* keys of _peer_views
  view,        \* what a peer reported last
  viewAge,     \* ticks since it did
  suspects,    \* keys of _suspected_since
  suspectAge,  \* ticks since the suspicion began, at most Suspicion
  members,     \* _membership_nodes
  hasQuorum,   \* _has_quorum
  loop,        \* _membership_loop is in "sleep" or "send"
  timer,       \* ticks until it wakes, or at most until its sends are done
  aliveAge     \* history: ticks since a quorum last saw a node, or the start

vars == <<conns, heard, view, viewAge, suspects, suspectAge, members, hasQuorum,
          loop, timer, aliveAge>>

(* Older reports than this are all alike.                                  *)
OldAge == StaleAfter + Interval + SendBound + 1

Capped(n, bound) == IF n < bound THEN n + 1 ELSE bound

-----------------------------------------------------------------------------
(* _reconcile_membership, as a function of the connections up, the reports *)
(* stored (keys h, sets v, ages a) and the suspicions (keys sk, ages sa).  *)

(* Mutant: reports do not become stale.                                    *)
FreshForever(h, a) == h

(* Reports that are too old are dropped.                                   *)
Fresh(h, a) == {p \in h : a[p] <= StaleAfter}

(* The nodes whose view counts: the node itself and the fresh reporters.   *)
Reporters(h, a) == Fresh(h, a) \cup {Self}

(* Whether reporter n sees node c.                                         *)
Sees(n, c, up, v) == IF n = Self THEN c \in up \cup {Self} ELSE c \in v[n]

AliveVotes(c, up, h, v, a) == Cardinality({n \in Reporters(h, a) : Sees(n, c, up, v)})

Candidates == Universe \ {Self}

Confirmed(up, h, v, a) == {c \in Candidates : AliveVotes(c, up, h, v, a) >= Quorum}

(* Mutant: a confirmed node stays suspected.                               *)
SuspectedKept(sk, confirmed) == sk \cup (Candidates \ confirmed)

(* Suspicion ends for the nodes confirmed and begins for the others.       *)
Suspected(sk, confirmed) == (sk \cup Candidates) \ confirmed

(* Mutant: every reconciliation starts the suspicion again.                *)
SuspicionAgeReset(c, sk, sa) == 0

(* setdefault: a suspicion that is held keeps its start.                   *)
SuspicionAge(c, sk, sa) == IF c \in sk THEN sa[c] ELSE 0

(* Mutant: a confirmed node is not taken back.                             *)
NextMembersNoReturn(confirmed, expired) == (members \cup {Self}) \ expired

NextMembers(confirmed, expired) == (members \cup {Self} \cup confirmed) \ expired

Reconcile(up, h, v, a, sk, sa) ==
  LET confirmed == Confirmed(up, h, v, a)
      quorum == Cardinality(Reporters(h, a)) >= Quorum
      suspected == IF quorum THEN Suspected(sk, confirmed) ELSE sk
      age == [c \in Universe |-> IF c \in suspected THEN SuspicionAge(c, sk, sa) ELSE 0]
      expired == {c \in suspected : age[c] >= Suspicion} \ confirmed
  IN  /\ conns' = up
      /\ heard' = Fresh(h, a)
      /\ view' = [p \in Peer |-> IF p \in Fresh(h, a) THEN v[p] ELSE {}]
      /\ viewAge' = a
      /\ hasQuorum' = quorum
      /\ suspects' = suspected
      /\ suspectAge' = age
      /\ members' = IF quorum THEN NextMembers(confirmed, expired) ELSE members
      /\ aliveAge' = [c \in Universe |-> IF quorum /\ c \in confirmed THEN 0 ELSE aliveAge[c]]

-----------------------------------------------------------------------------

Init ==
  /\ conns = {}
  /\ heard = {}
  /\ view = [p \in Peer |-> {}]
  /\ viewAge = [p \in Peer |-> OldAge]
  /\ suspects = {}
  /\ suspectAge = [c \in Universe |-> 0]
  /\ members = Universe
  /\ hasQuorum = (Peer = {})
  /\ loop = "sleep"
  /\ timer = Interval
  /\ aliveAge = [c \in Universe |-> 0]

(* A connection is claimed (_claim_connection refuses a second one) and    *)
(* _topology_changed reconciles.                                           *)
LinkUp(p) ==
  /\ p \notin conns
  /\ Reconcile(conns \cup {p}, heard, view, viewAge, suspects, suspectAge)
  /\ UNCHANGED <<loop, timer>>

(* _connection_loop ends: the peer is suspected from now on, if it was not *)
(* already, and _topology_changed reconciles.  Its last report stays.      *)
LinkDown(p) ==
  /\ p \in conns
  /\ Reconcile(conns \ {p}, heard, view, viewAge, suspects \cup {p},
               [suspectAge EXCEPT ![p] = SuspicionAge(p, suspects, suspectAge)])
  /\ UNCHANGED <<loop, timer>>

(* A NODE_STATE with the right epoch and an acceptable clock.  Any other   *)
(* changes nothing.                                                        *)
NodeState(p, reported) ==
  /\ p \in conns
  /\ Reconcile(conns, heard \cup {p}, [view EXCEPT ![p] = reported \cup {p}],
               [viewAge EXCEPT ![p] = 0], suspects, suspectAge)
  /\ UNCHANGED <<loop, timer>>

(* _membership_loop wakes, reconciles and sends its state to the peers.    *)
LoopWakes ==
  /\ loop = "sleep" /\ timer = 0
  /\ Reconcile(conns, heard, view, viewAge, suspects, suspectAge)
  /\ loop' = "send"
  /\ timer' = SendBound

(* The sends are done, or given up.                                        *)
LoopSleeps ==
  /\ loop = "send"
  /\ loop' = "sleep"
  /\ timer' = Interval
  /\ UNCHANGED <<conns, heard, view, viewAge, suspects, suspectAge, members, hasQuorum, aliveAge>>

(* stop() clears what is held; the process starts again.                   *)
Restart ==
  /\ conns' = {}
  /\ heard' = {}
  /\ view' = [p \in Peer |-> {}]
  /\ viewAge' = [p \in Peer |-> OldAge]
  /\ suspects' = {}
  /\ suspectAge' = [c \in Universe |-> 0]
  /\ members' = Universe
  /\ hasQuorum' = (Peer = {})
  /\ loop' = "sleep"
  /\ timer' = Interval
  /\ aliveAge' = [c \in Universe |-> 0]

Tick ==
  /\ timer > 0
  /\ timer' = timer - 1
  /\ viewAge' = [p \in Peer |-> Capped(viewAge[p], OldAge)]
  /\ suspectAge' = [c \in Universe |->
       IF c \in suspects THEN Capped(suspectAge[c], Suspicion) ELSE 0]
  /\ aliveAge' = [c \in Universe |-> Capped(aliveAge[c], Suspicion)]
  /\ UNCHANGED <<conns, heard, view, suspects, members, hasQuorum, loop>>

Next ==
  \/ \E p \in Peer : LinkUp(p)
  \/ \E p \in Peer : LinkDown(p)
  \/ \E p \in Peer, reported \in SUBSET Universe : NodeState(p, reported)
  \/ LoopWakes
  \/ LoopSleeps
  \/ Restart
  \/ Tick

Spec == Init /\ [][Next]_vars

(* The event loop runs the membership loop and time passes; nothing is     *)
(* assumed of the peers or the links.                                      *)
FairSpec == Spec /\ WF_vars(LoopWakes) /\ WF_vars(LoopSleeps) /\ WF_vars(Tick)

-----------------------------------------------------------------------------
(* Properties.                                                             *)

(* Every variable stays in its domain, and the node itself is always a     *)
(* member and never suspected.                                             *)
TypeOK ==
  /\ conns \subseteq Peer
  /\ heard \subseteq Peer
  /\ view \in [Peer -> SUBSET Universe] /\ viewAge \in [Peer -> 0 .. OldAge]
  /\ suspects \subseteq Peer /\ suspectAge \in [Universe -> 0 .. Suspicion]
  /\ members \subseteq Universe /\ Self \in members
  /\ hasQuorum \in BOOLEAN
  /\ loop \in {"sleep", "send"} /\ timer \in 0 .. Interval + SendBound
  /\ aliveAge \in [Universe -> 0 .. Suspicion]

(* No node loses its membership less than the suspicion delay after a      *)
(* quorum was last seen to see it, or after the start, whatever reports    *)
(* and disconnections come in between.                                     *)
RemovalDelayed ==
  [][\A c \in members \ members' : aliveAge[c] >= Suspicion]_vars

(* While the node claims a quorum (and is ready for clients, health.py), a *)
(* majority has reported within the life of a report and one round of the  *)
(* membership loop.                                                        *)
QuorumFresh ==
  hasQuorum => Cardinality({p \in Peer : viewAge[p] < OldAge}) + 1 >= Quorum

QuorumReports == Cardinality(Reporters(heard, viewAge)) >= Quorum

(* A node that fewer than a quorum see, while a quorum keeps reporting, is *)
(* removed in the end and stays removed.                                   *)
LostIsRemoved ==
  \A c \in Peer :
    <>[](QuorumReports /\ AliveVotes(c, conns, heard, view, viewAge) < Quorum)
      => <>[](c \notin members)

(* A node that a quorum keep seeing is taken back in the end.              *)
SeenIsMember ==
  \A c \in Peer :
    <>[](QuorumReports /\ AliveVotes(c, conns, heard, view, viewAge) >= Quorum)
      => <>[](c \in members)

=============================================================================

------------------------------ MODULE MeshNode ------------------------------
(***************************************************************************)
(* Membership and Replication together: the client's node with the links,  *)
(* reports and suspicions that decide its members, so that the members     *)
(* change only as _reconcile_membership changes them (app/node_mesh.py).   *)
(* stop and a new start are left out: they end the client's session too.   *)
(***************************************************************************)
EXTENDS Replication

CONSTANTS Suspicion, StaleAfter, Interval, SendBound

VARIABLES heard, view, viewAge, suspects, suspectAge, hasQuorum, loop, timer, aliveAge

opinions == <<heard, view, viewAge, suspects, suspectAge, hasQuorum, loop, timer, aliveAge>>

M == INSTANCE Membership WITH Self <- Home, conns <- links

NodeInit == Init /\ M!Init

(* A link is claimed or lost: _reconcile_membership, then the pass.        *)
NodeLinks(p, n) ==
  \/ M!LinkUp(n) /\ LinkUp(p, n, members')
  \/ M!LinkDown(n) /\ LinkDown(p, n, members')

(* _reconcile_membership in _membership_loop or at a NODE_STATE, which may *)
(* change the members.                                                     *)
NodeRehash ==
  /\ M!LoopWakes \/ \E n \in Peer, reported \in SUBSET Node : M!NodeState(n, reported)
  /\ Rehash(members') \/ UNCHANGED vars

(* The client, the topology passes and the owners go on as they do in      *)
(* Replication.                                                            *)
NodeClient ==
  /\ \/ \E r \in Route : Attach(r) \/ Detach(r) \/ CloseWithdraws(r) \/ Expire(r)
     \/ Close
     \/ Closed
     \/ Prune
     \/ \E p \in Pass : PassCopies(p) \/ PassEnds(p)
     \/ \E p \in Pass, r \in Route : PassRegisters(p, r)
     \/ \E n \in Peer : Handle(n) \/ Miss(n)
     \/ \E n \in Peer, rs \in SUBSET Route \ {{}} : PeerForgets(n, rs)
  /\ UNCHANGED opinions

NodeNext ==
  \/ \E p \in Pass, n \in Peer : NodeLinks(p, n)
  \/ NodeRehash
  \/ NodeClient
  \/ M!LoopSleeps /\ UNCHANGED vars
  \/ Tick /\ M!Tick

NodeSpec == NodeInit /\ [][NodeNext]_<<vars, opinions>>

=============================================================================

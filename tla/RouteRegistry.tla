---------------------------- MODULE RouteRegistry ----------------------------
(***************************************************************************)
(* The route descriptors one mesh node holds for the others                *)
(* (app/node_mesh.py): the registry of the routes it owns, the count that  *)
(* bounds it, the discovery cache, and the table that binds a session to   *)
(* the node its signals are forwarded to.                                  *)
(*                                                                         *)
(* The peers are the environment: any message a trusted peer may send is   *)
(* an input, and which routes the node owns (owners_for) changes with the  *)
(* membership.  Descriptors carry absolute expiry times; the module keeps  *)
(* the time left, which stops counting once it is no longer positive.      *)
(***************************************************************************)
EXTENDS Integers, FiniteSets

CONSTANTS
  Self,            \* config.node_id
  Peer,            \* the trusted nodes
  Session,         \* session ids that messages may name
  LocalSession,    \* the ones of clients connected to this node
  Route,           \* route tags
  MaxDescriptors,  \* config.node_mesh_max_route_descriptors
  Lease,           \* config.route_lease_seconds
  Skew,            \* config.node_mesh_max_clock_skew_seconds
  NoNode           \* no binding

Node == Peer \cup {Self}

(* NodeMesh.__init__ rejects a peer with the node's own id.                *)
ASSUME RegistryAssumption ==
  /\ Self \notin Peer
  /\ NoNode \notin Node
  /\ LocalSession \subseteq Session
  /\ IsFiniteSet(Node) /\ IsFiniteSet(Session) /\ IsFiniteSet(Route)
  /\ MaxDescriptors \in Nat \ {0}
  /\ Lease \in Nat \ {0}
  /\ Skew \in Nat

VARIABLES
  registry,     \* keys of _route_registry, as <<route, node, session>>
  left,         \* expiresAt - now of a registered descriptor
  count,        \* _route_descriptor_count
  sessionNode,  \* _session_nodes
  cache,        \* keys of _descriptor_cache
  cacheLeft,    \* expiresAt - now of a cached descriptor
  local,        \* sessions of this node that are in hub.sessions
  owned,        \* routes r with Self \in owners_for(r)
  conns,        \* keys of connections
  asked         \* some discover awaits the results of its queries

vars == <<registry, left, count, sessionNode, cache, cacheLeft, local, owned, conns, asked>>

Key == Route \X Node \X Session

(* Times left a message may carry: inside the window and just outside it.  *)
Offer == -Skew .. Lease + Skew + 1

-----------------------------------------------------------------------------

(* Mutant: the far end of the window is not checked.                       *)
CurrentUnbounded(t) == -Skew < t

(* _descriptor_is_current.                                                 *)
Current(t) == -Skew < t /\ t <= Lease + Skew

(* Mutant: a peer may name a session of this node.                         *)
CompatibleAnySession(n, s) == sessionNode[s] \in {NoNode, n}

(* A session of this node, or one bound to another node, cannot be         *)
(* claimed.                                                                *)
Compatible(n, s) ==
  /\ n = Self \/ s \notin local
  /\ sessionNode[s] \in {NoNode, n}

(* Mutant: a renewal is counted like a new descriptor.                     *)
IsNewAlways(k) == TRUE

IsNew(k) == k \notin registry

(* Mutant: one descriptor too many.                                        *)
HasRoomOffByOne == count <= MaxDescriptors

HasRoom == count < MaxDescriptors

(* _apply_route_message for ROUTE_REGISTER, once the identity checks pass: *)
(* a known key is renewed, a new one needs room.                           *)
ApplyRegister(r, n, s, t) ==
  LET k == <<r, n, s>>
  IN  /\ Current(t)
      /\ Compatible(n, s)
      /\ IsNew(k) => HasRoom
      /\ registry' = registry \cup {k}
      /\ left' = [left EXCEPT ![k] = t]
      /\ count' = IF IsNew(k) THEN count + 1 ELSE count
      /\ sessionNode' = [sessionNode EXCEPT ![s] = n]
      /\ UNCHANGED <<cache, cacheLeft, local, owned, conns, asked>>

(* Registered descriptors of gone leave, and the count with them.          *)
Drop(gone) ==
  /\ registry' = registry \ gone
  /\ left' = [k \in Key |-> IF k \in gone THEN 0 ELSE left[k]]
  /\ count' = count - Cardinality(registry \cap gone)

(* Cached descriptors of gone leave; the binding goes with them.           *)
Uncache(gone) ==
  /\ cache' = cache \ gone
  /\ cacheLeft' = [s \in Session |-> IF s \in gone THEN 0 ELSE cacheLeft[s]]

(* _apply_route_message for ROUTE_REMOVE.  The binding stays.              *)
ApplyRemove(r, n, s) ==
  /\ Drop({<<r, n, s>>})
  /\ UNCHANGED <<sessionNode, cache, cacheLeft, local, owned, conns, asked>>

(* _prune_routes: what expires in the cache also loses its binding; what   *)
(* expires in the registry does not.                                       *)
ExpiredKeys == {k \in registry : left[k] <= 0}

ExpiredCache == {s \in cache : cacheLeft[s] <= 0}

(* Mutant: the sessions of expired registry entries lose theirs too.       *)
UnboundByAnyExpiry == ExpiredCache \cup {k[3] : k \in ExpiredKeys}

UnboundByPrune == ExpiredCache

BindingsAfterPrune ==
  [s \in Session |-> IF s \in UnboundByPrune THEN NoNode ELSE sessionNode[s]]

-----------------------------------------------------------------------------

Init ==
  /\ registry = {}
  /\ left = [k \in Key |-> 0]
  /\ count = 0
  /\ sessionNode = [s \in Session |-> NoNode]
  /\ cache = {}
  /\ cacheLeft = [s \in Session |-> 0]
  /\ local = LocalSession
  /\ owned \in SUBSET Route
  /\ conns = {}
  /\ asked = FALSE

(* ROUTE_REGISTER from peer n: only for a route this node owns, and with   *)
(* the sender as the descriptor's node.                                    *)
PeerRegister(n, r, s, t) ==
  /\ n \in conns
  /\ r \in owned
  /\ ApplyRegister(r, n, s, t)

(* ROUTE_REMOVE from peer n.                                               *)
PeerRemove(n, r, s) ==
  /\ n \in conns
  /\ r \in owned
  /\ ApplyRemove(r, n, s)

(* register_local_route, on ATTACH_ROUTE and after a topology change, at a *)
(* node that is one of the owners.                                         *)
LocalRegister(r, s) ==
  /\ s \in local
  /\ r \in owned
  /\ ApplyRegister(r, Self, s, Lease)

(* remove_local_route, on DETACH_ROUTE and when a socket closes.           *)
LocalRemove(r, s) ==
  /\ s \in LocalSession
  /\ r \in owned
  /\ ApplyRemove(r, Self, s)

(* ROUTE_QUERY from a peer prunes before it answers.                       *)
PeerQuery ==
  /\ conns # {}
  /\ Drop(ExpiredKeys)
  /\ Uncache(ExpiredCache)
  /\ sessionNode' = BindingsAfterPrune
  /\ UNCHANGED <<local, owned, conns, asked>>

(* The registered descriptors of r that discover may cache after its prune. *)
Cacheable(r, n, s) ==
  /\ <<r, n, s>> \in registry \ ExpiredKeys
  /\ n = Self \/ s \notin local
  /\ BindingsAfterPrune[s] \in {NoNode, n}

Found(r) == {s \in Session : \E n \in Node : Cacheable(r, n, s)}

(* discover prunes, then caches the registered descriptors of the route in *)
(* whatever order they have, until the cache is full.  A session named by  *)
(* several nodes goes to the one that comes first.  Then the owners that   *)
(* have a link are asked.                                                  *)
Discover(r) ==
  \E first \in [Found(r) -> Node], taken \in SUBSET Found(r) :
    LET cached == cache \ ExpiredCache
    IN  /\ \A s \in Found(r) : Cacheable(r, first[s], s)
        /\ Found(r) \cap cached \subseteq taken
        /\ Cardinality(cached \cup taken) <= MaxDescriptors
        /\ taken = Found(r) \/ Cardinality(cached \cup taken) = MaxDescriptors
        /\ cache' = cached \cup taken
        /\ cacheLeft' = [s \in Session |->
             IF s \in taken THEN left[<<r, first[s], s>>]
             ELSE IF s \in cached THEN cacheLeft[s] ELSE 0]
        /\ sessionNode' = [s \in Session |->
             IF s \in taken THEN first[s] ELSE BindingsAfterPrune[s]]
        /\ Drop(ExpiredKeys)
        /\ asked' = (asked \/ conns # {})
        /\ UNCHANGED <<local, owned, conns>>

(* The second half of discover: a descriptor of a ROUTE_RESULT, which may  *)
(* name any node, is cached, whatever has become of the link and of the    *)
(* tables since.                                                           *)
CacheResult(n, s, t) ==
  /\ asked
  /\ Current(t)
  /\ Compatible(n, s)
  /\ s \in cache \/ Cardinality(cache) < MaxDescriptors
  /\ cache' = cache \cup {s}
  /\ cacheLeft' = [cacheLeft EXCEPT ![s] = t]
  /\ sessionNode' = [sessionNode EXCEPT ![s] = n]
  /\ UNCHANGED <<registry, left, count, local, owned, conns, asked>>

(* discover returns.                                                       *)
DiscoverEnds ==
  /\ asked
  /\ asked' = FALSE
  /\ UNCHANGED <<registry, left, count, sessionNode, cache, cacheLeft, local, owned, conns>>

(* remote_descriptor, for a SIGNAL to s, drops an expired cache entry.     *)
LookupExpired(s) ==
  /\ s \in ExpiredCache
  /\ Uncache({s})
  /\ sessionNode' = [sessionNode EXCEPT ![s] = NoNode]
  /\ UNCHANGED <<registry, left, count, local, owned, conns, asked>>

-----------------------------------------------------------------------------

(* _topology_changed at a node that owns the routes of own and has the     *)
(* connections up: what it does not own, or what a node without a          *)
(* connection announced, is dropped.                                       *)
DropUnowned(own, up) ==
  Drop({k \in registry : k[1] \notin own \/ k[2] \notin up \cup {Self}})

(* A link is claimed or lost, membership is reconciled, which may move     *)
(* ownership, and the registry is brought in line.  The local leases that  *)
(* are registered again are LocalRegister steps.                           *)
TopologyChanged(up, own) ==
  /\ up # conns
  /\ conns' = up
  /\ owned' = own
  /\ DropUnowned(own, up)
  /\ UNCHANGED <<sessionNode, cache, cacheLeft, local, asked>>

LinkUp(n, own) ==
  /\ n \notin conns
  /\ TopologyChanged(conns \cup {n}, own)

LinkDown(n, own) ==
  /\ n \in conns
  /\ TopologyChanged(conns \ {n}, own)

(* _membership_loop and NODE_STATE reconcile without _topology_changed:    *)
(* ownership moves and the registry is left as it is.                      *)
Rehash(own) ==
  /\ owned' = own
  /\ UNCHANGED <<registry, left, count, sessionNode, cache, cacheLeft, local, conns, asked>>

(* A client of this node leaves hub.sessions.                              *)
LocalLeave(s) ==
  /\ s \in local
  /\ local' = local \ {s}
  /\ UNCHANGED <<registry, left, count, sessionNode, cache, cacheLeft, owned, conns, asked>>

(* stop() clears everything the mesh holds; a discover goes on.            *)
Stop ==
  /\ registry' = {}
  /\ left' = [k \in Key |-> 0]
  /\ count' = 0
  /\ sessionNode' = [s \in Session |-> NoNode]
  /\ Uncache(cache)
  /\ conns' = {}
  /\ UNCHANGED <<local, owned, asked>>

(* A second passes.                                                        *)
Tick ==
  /\ left' = [k \in Key |-> IF left[k] > 0 THEN left[k] - 1 ELSE left[k]]
  /\ cacheLeft' = [s \in Session |->
                     IF cacheLeft[s] > 0 THEN cacheLeft[s] - 1 ELSE cacheLeft[s]]
  /\ UNCHANGED <<registry, count, sessionNode, cache, local, owned, conns, asked>>

Next ==
  \/ \E n \in Peer, r \in Route, s \in Session, t \in Offer : PeerRegister(n, r, s, t)
  \/ \E n \in Peer, r \in Route, s \in Session : PeerRemove(n, r, s)
  \/ \E r \in Route, s \in Session : LocalRegister(r, s)
  \/ \E r \in Route, s \in Session : LocalRemove(r, s)
  \/ PeerQuery
  \/ \E r \in Route : Discover(r)
  \/ \E n \in Node, s \in Session, t \in Offer : CacheResult(n, s, t)
  \/ DiscoverEnds
  \/ \E s \in Session : LookupExpired(s)
  \/ \E n \in Peer, own \in SUBSET Route : LinkUp(n, own)
  \/ \E n \in Peer, own \in SUBSET Route : LinkDown(n, own)
  \/ \E own \in SUBSET Route : Rehash(own)
  \/ \E s \in Session : LocalLeave(s)
  \/ Stop
  \/ Tick

Spec == Init /\ [][Next]_vars

-----------------------------------------------------------------------------
(* Properties.                                                             *)

(* Every variable stays in its domain; in particular nothing is stored for *)
(* longer than a lease and the tolerated clock skew.                       *)
TypeOK ==
  /\ registry \subseteq Key
  /\ left \in [Key -> {t \in Int : t <= Lease + Skew}]
  /\ count \in Nat
  /\ sessionNode \in [Session -> Node \cup {NoNode}]
  /\ cache \subseteq Session
  /\ cacheLeft \in [Session -> {t \in Int : t <= Lease + Skew}]
  /\ local \subseteq LocalSession
  /\ owned \subseteq Route
  /\ conns \subseteq Peer /\ asked \in BOOLEAN

(* _route_descriptor_count, kept by hand in six places, is the number of   *)
(* descriptors in the registry.                                            *)
CountExact == count = Cardinality(registry)

(* The hard cap for replicated descriptors and discovery cache.            *)
Capped ==
  /\ Cardinality(registry) <= MaxDescriptors
  /\ Cardinality(cache) <= MaxDescriptors

(* A cached descriptor can be used: forward_signal finds the node of every *)
(* session remote_descriptor takes from the cache.                         *)
CachedIsBound == \A s \in cache : sessionNode[s] # NoNode

(* While a client of this node is connected, neither the registry nor the  *)
(* cache says that it lives elsewhere.                                     *)
LocalStaysLocal ==
  /\ \A k \in registry : k[3] \in local => k[2] = Self
  /\ \A s \in local : sessionNode[s] \in {NoNode, Self}

(* README.md: remote leases "cannot reuse a local or differently owned     *)
(* session ID".                                                            *)
OneNodePerSession ==
  \A k1, k2 \in registry : k1[3] = k2[3] => k1[2] = k2[2]

=============================================================================

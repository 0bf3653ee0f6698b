------------------------ MODULE RouteRegistryProofs ------------------------
(***************************************************************************)
(* Theorems about RouteRegistry, for every mesh, every set of sessions and *)
(* routes and every cap.                                                   *)
(***************************************************************************)
EXTENDS RouteRegistry, FiniteSetTheorems, TLAPS

-----------------------------------------------------------------------------
(* Types.                                                                  *)

LEMMA ApplyTypes ==
  ASSUME TypeOK, NEW r \in Route, NEW n \in Node, NEW s \in Session, NEW t \in Int,
         ApplyRegister(r, n, s, t)
  PROVE  TypeOK'
<1> DEFINE k == <<r, n, s>>
<1>1. k \in Key
  BY DEF Key
<1>2. registry' \subseteq Key /\ count' \in Nat
  BY <1>1 DEF ApplyRegister, TypeOK
<1>3. left' \in [Key -> {u \in Int : u <= Lease + Skew}]
  BY <1>1 DEF ApplyRegister, TypeOK, Current
<1>4. sessionNode' \in [Session -> Node \cup {NoNode}]
  BY DEF ApplyRegister, TypeOK
<1> QED BY <1>2, <1>3, <1>4 DEF ApplyRegister, TypeOK

(* What Drop does to the registry, its leases and the count.               *)
LEMMA DropCounts ==
  ASSUME TypeOK, CountExact, IsFiniteSet(registry), NEW gone, Drop(gone)
  PROVE  /\ registry' \subseteq registry /\ IsFiniteSet(registry')
         /\ left' \in [Key -> {u \in Int : u <= Lease + Skew}]
         /\ count' = Cardinality(registry') /\ count' \in Nat
<1>1. registry' \subseteq registry /\ IsFiniteSet(registry')
  BY FS_Subset DEF Drop
<1>2. Cardinality(registry \ gone)
        = Cardinality(registry) - Cardinality(registry \cap gone)
  BY FS_Difference
<1>3. count' = Cardinality(registry')
  BY <1>2 DEF Drop, CountExact
<1>4. count' \in Nat
  BY <1>1, <1>3, FS_CardinalityType
<1>5. left' \in [Key -> {u \in Int : u <= Lease + Skew}]
  BY RegistryAssumption DEF Drop, TypeOK
<1> QED BY <1>1, <1>3, <1>4, <1>5

LEMMA UncacheTypes ==
  ASSUME TypeOK, NEW gone, Uncache(gone)
  PROVE  /\ cache' \subseteq cache
         /\ cacheLeft' \in [Session -> {u \in Int : u <= Lease + Skew}]
BY RegistryAssumption DEF Uncache, TypeOK

(* CountExact is needed for count to stay a natural number, and the        *)
(* finiteness of the registry for Cardinality to mean anything.            *)
Counted == TypeOK /\ CountExact /\ IsFiniteSet(registry)

LEMMA InitCounted == Init => Counted
<1> SUFFICES ASSUME Init PROVE Counted
  OBVIOUS
<1>1. asked \in BOOLEAN
  BY Zenon DEF Init
<1>2. conns \subseteq Peer /\ local \subseteq LocalSession /\ owned \subseteq Route
  BY DEF Init
<1> QED BY <1>1, <1>2, RegistryAssumption, FS_EmptySet
        DEF Init, Counted, TypeOK, CountExact

LEMMA ApplyCounted ==
  ASSUME Counted, NEW r \in Route, NEW n \in Node, NEW s \in Session, NEW t \in Int,
         ApplyRegister(r, n, s, t)
  PROVE  Counted'
<1> DEFINE k == <<r, n, s>>
<1>1. TypeOK'
  BY ApplyTypes DEF Counted
<1>2. /\ IsFiniteSet(registry \cup {k})
      /\ Cardinality(registry \cup {k})
           = IF k \in registry THEN Cardinality(registry) ELSE Cardinality(registry) + 1
  BY FS_AddElement DEF Counted
<1> QED BY <1>1, <1>2 DEF Counted, CountExact, ApplyRegister, IsNew

LEMMA NextCounted == Counted /\ [Next]_vars => Counted'
<1> SUFFICES ASSUME Counted, [Next]_vars PROVE Counted'
  OBVIOUS
<1>t. TypeOK /\ CountExact /\ IsFiniteSet(registry)
  BY DEF Counted
<1>o. Offer \subseteq Int /\ Peer \subseteq Node /\ Self \in Node /\ Lease \in Int
  BY RegistryAssumption DEF Offer, Node
<1>1. ASSUME NEW n \in Peer, NEW r \in Route, NEW s \in Session, NEW t \in Offer,
             PeerRegister(n, r, s, t)
      PROVE  Counted'
  BY <1>1, <1>o, ApplyCounted DEF PeerRegister
<1>2. ASSUME NEW r \in Route, NEW s \in Session, LocalRegister(r, s) PROVE Counted'
  BY <1>2, <1>o, ApplyCounted DEF LocalRegister
<1>3. ASSUME NEW gone, Drop(gone),
             UNCHANGED <<sessionNode, cache, cacheLeft, local, asked>>,
             owned' \subseteq Route, conns' \subseteq Peer
      PROVE  Counted'
  <2>1. /\ registry' \subseteq Key /\ IsFiniteSet(registry')
        /\ left' \in [Key -> {u \in Int : u <= Lease + Skew}]
        /\ CountExact' /\ count' \in Nat
    BY <1>t, <1>3, DropCounts DEF CountExact, TypeOK
  <2> QED BY <1>t, <1>3, <2>1 DEF Counted, TypeOK
<1>4. ASSUME NEW n \in Node, NEW r \in Route, NEW s \in Session, ApplyRemove(r, n, s)
      PROVE  Counted'
  BY <1>t, <1>3, <1>4 DEF ApplyRemove, TypeOK
<1>5. ASSUME NEW n \in Peer, NEW r \in Route, NEW s \in Session, PeerRemove(n, r, s)
      PROVE  Counted'
  BY <1>4, <1>5, <1>o DEF PeerRemove
<1>6. ASSUME NEW r \in Route, NEW s \in Session, LocalRemove(r, s) PROVE Counted'
  BY <1>4, <1>6, <1>o DEF LocalRemove
<1>7. ASSUME PeerQuery PROVE Counted'
  <2>1. /\ registry' \subseteq Key /\ IsFiniteSet(registry')
        /\ left' \in [Key -> {u \in Int : u <= Lease + Skew}]
        /\ CountExact' /\ count' \in Nat
    BY <1>t, <1>7, DropCounts DEF CountExact, TypeOK, PeerQuery
  <2>2. /\ cache' \subseteq cache
        /\ cacheLeft' \in [Session -> {u \in Int : u <= Lease + Skew}]
    BY <1>t, <1>7, UncacheTypes DEF PeerQuery
  <2>3. sessionNode' \in [Session -> Node \cup {NoNode}]
    BY <1>t, <1>7 DEF PeerQuery, BindingsAfterPrune, TypeOK
  <2> QED BY <1>t, <1>7, <2>1, <2>2, <2>3 DEF Counted, TypeOK, PeerQuery
<1>8. ASSUME NEW r \in Route, Discover(r) PROVE Counted'
  <2>1. /\ registry' \subseteq Key /\ IsFiniteSet(registry')
        /\ left' \in [Key -> {u \in Int : u <= Lease + Skew}]
        /\ CountExact' /\ count' \in Nat
    BY <1>t, <1>8, DropCounts DEF CountExact, TypeOK, Discover
  <2>2. PICK first \in [Found(r) -> Node], taken \in SUBSET Found(r) :
          /\ cache' = (cache \ ExpiredCache) \cup taken
          /\ cacheLeft' = [s \in Session |->
               IF s \in taken THEN left[<<r, first[s], s>>]
               ELSE IF s \in cache \ ExpiredCache THEN cacheLeft[s] ELSE 0]
          /\ sessionNode' = [s \in Session |->
               IF s \in taken THEN first[s] ELSE BindingsAfterPrune[s]]
    BY <1>8 DEF Discover
  <2>f. Found(r) \subseteq Session
    BY DEF Found
  <2>3. cache' \subseteq Session
    BY <1>t, <2>2, <2>f DEF TypeOK
  <2>4. cacheLeft' \in [Session -> {u \in Int : u <= Lease + Skew}]
    <3>1. \A s \in taken : left[<<r, first[s], s>>] \in {u \in Int : u <= Lease + Skew}
      BY <1>t, <2>2, <2>f DEF TypeOK, Key
    <3> QED BY <1>t, <2>2, <3>1, RegistryAssumption DEF TypeOK
  <2>5. sessionNode' \in [Session -> Node \cup {NoNode}]
    BY <1>t, <2>2 DEF BindingsAfterPrune, TypeOK
  <2>6. UNCHANGED <<local, owned, conns>>
    BY <1>8 DEF Discover
  <2>7. asked' \in BOOLEAN
    BY <1>t, <1>8, Zenon DEF Discover, TypeOK
  <2> QED BY <1>t, <2>1, <2>3, <2>4, <2>5, <2>6, <2>7 DEF Counted, TypeOK
<1>9. ASSUME NEW n \in Node, NEW s \in Session, NEW t \in Offer, CacheResult(n, s, t)
      PROVE  Counted'
  BY <1>t, <1>9, <1>o DEF CacheResult, Counted, TypeOK, CountExact, Current
<1>10. ASSUME NEW s \in Session, LookupExpired(s) PROVE Counted'
  <2>1. /\ cache' \subseteq cache
        /\ cacheLeft' \in [Session -> {u \in Int : u <= Lease + Skew}]
    BY <1>t, <1>10, UncacheTypes DEF LookupExpired
  <2> QED BY <1>t, <1>10, <2>1 DEF LookupExpired, Counted, TypeOK, CountExact
<1>11. ASSUME NEW n \in Peer, NEW own \in SUBSET Route, LinkUp(n, own) PROVE Counted'
  BY <1>t, <1>3, <1>11 DEF LinkUp, TopologyChanged, DropUnowned, TypeOK
<1>12. ASSUME NEW n \in Peer, NEW own \in SUBSET Route, LinkDown(n, own) PROVE Counted'
  BY <1>t, <1>3, <1>12 DEF LinkDown, TopologyChanged, DropUnowned, TypeOK
<1>13. ASSUME NEW own \in SUBSET Route, Rehash(own) PROVE Counted'
  BY <1>t, <1>13 DEF Rehash, Counted, TypeOK, CountExact
<1>14. ASSUME NEW s \in Session, LocalLeave(s) PROVE Counted'
  BY <1>t, <1>14 DEF LocalLeave, Counted, TypeOK, CountExact
<1>15. ASSUME Stop PROVE Counted'
  <2>1. /\ cache' \subseteq cache
        /\ cacheLeft' \in [Session -> {u \in Int : u <= Lease + Skew}]
    BY <1>t, <1>15, UncacheTypes DEF Stop
  <2>2. IsFiniteSet(registry') /\ Cardinality(registry') = 0
    BY <1>15, FS_EmptySet DEF Stop
  <2> QED BY <1>t, <1>15, <2>1, <2>2, RegistryAssumption
          DEF Stop, Counted, TypeOK, CountExact
<1>16. ASSUME Tick PROVE Counted'
  BY <1>t, <1>16, RegistryAssumption DEF Tick, Counted, TypeOK, CountExact
<1>17. ASSUME UNCHANGED vars PROVE Counted'
  BY <1>t, <1>17 DEF vars, Counted, TypeOK, CountExact
<1>18. ASSUME DiscoverEnds PROVE Counted'
  BY <1>t, <1>18 DEF DiscoverEnds, Counted, TypeOK, CountExact
<1> QED
  BY <1>1, <1>2, <1>5, <1>6, <1>7, <1>8, <1>9, <1>10, <1>11, <1>12, <1>13,
     <1>14, <1>15, <1>16, <1>17, <1>18 DEF Next

LEMMA RegistryCounted == Spec => []Counted
BY InitCounted, NextCounted, PTL DEF Spec

(* No descriptor is stored for longer than a lease and the clock skew.     *)
THEOREM RegistryTypes == Spec => []TypeOK
<1>1. Counted => TypeOK
  BY DEF Counted
<1> QED BY <1>1, RegistryCounted, PTL

(* The hand-kept count is the size of the registry in every reachable      *)
(* state, through renewals, prunes, failovers and shutdown.                *)
THEOREM RegistryCountExact == Spec => []CountExact
<1>1. Counted => CountExact
  BY DEF Counted
<1> QED BY <1>1, RegistryCounted, PTL

-----------------------------------------------------------------------------
(* The caps.                                                               *)

(* Whatever leaves the registry alone or only takes from it, and does the  *)
(* same to the cache, keeps both under the cap.                            *)
LEMMA ShrinkCapped ==
  ASSUME Counted, Capped, registry' \subseteq registry, cache' \subseteq cache
  PROVE  Capped'
<1>1. /\ IsFiniteSet(registry) /\ IsFiniteSet(cache)
      /\ MaxDescriptors \in Nat
  BY RegistryAssumption, FS_Subset DEF Counted, TypeOK
<1>2. /\ Cardinality(registry') <= Cardinality(registry)
      /\ Cardinality(cache') <= Cardinality(cache)
  BY <1>1, FS_Subset
<1>3. /\ IsFiniteSet(registry') /\ IsFiniteSet(cache')
  BY <1>1, FS_Subset
<1>4. /\ Cardinality(registry) \in Nat /\ Cardinality(cache) \in Nat
      /\ Cardinality(registry') \in Nat /\ Cardinality(cache') \in Nat
  BY <1>1, <1>3, FS_CardinalityType
<1> QED BY <1>1, <1>2, <1>4 DEF Capped

LEMMA ApplyCapped ==
  ASSUME Counted, Capped, NEW r \in Route, NEW n \in Node, NEW s \in Session,
         NEW t \in Int, ApplyRegister(r, n, s, t)
  PROVE  Capped'
<1> DEFINE k == <<r, n, s>>
<1>1. Counted'
  BY ApplyCounted
<1>2. count' <= MaxDescriptors
  BY RegistryAssumption DEF ApplyRegister, IsNew, HasRoom, Counted, TypeOK,
                            CountExact, Capped
<1>3. cache' = cache
  BY DEF ApplyRegister
<1> QED BY <1>1, <1>2, <1>3 DEF Counted, CountExact, Capped

LEMMA NextCapped == Counted /\ Capped /\ [Next]_vars => Capped'
<1> SUFFICES ASSUME Counted, Capped, [Next]_vars PROVE Capped'
  OBVIOUS
<1>o. Offer \subseteq Int /\ Peer \subseteq Node /\ Self \in Node /\ Lease \in Int
  BY RegistryAssumption DEF Offer, Node
<1>1. ASSUME NEW n \in Peer, NEW r \in Route, NEW s \in Session, NEW t \in Offer,
             PeerRegister(n, r, s, t)
      PROVE  Capped'
  BY <1>1, <1>o, ApplyCapped DEF PeerRegister
<1>2. ASSUME NEW r \in Route, NEW s \in Session, LocalRegister(r, s) PROVE Capped'
  BY <1>2, <1>o, ApplyCapped DEF LocalRegister
<1>3. ASSUME NEW r \in Route, Discover(r) PROVE Capped'
  <2>1. registry' \subseteq registry
    BY <1>3 DEF Discover, Drop
  <2>2. Cardinality(cache') <= MaxDescriptors
    BY <1>3 DEF Discover
  <2>3. IsFiniteSet(registry) /\ IsFiniteSet(registry')
    BY <2>1, FS_Subset DEF Counted
  <2>4. /\ Cardinality(registry') <= Cardinality(registry)
        /\ Cardinality(registry) \in Nat /\ Cardinality(registry') \in Nat
    BY <2>1, <2>3, FS_Subset, FS_CardinalityType
  <2> QED BY <2>2, <2>4, RegistryAssumption DEF Capped
<1>4. ASSUME NEW n \in Node, NEW s \in Session, NEW t \in Offer, CacheResult(n, s, t)
      PROVE  Capped'
  <2>1. IsFiniteSet(cache)
    BY RegistryAssumption, FS_Subset DEF Counted, TypeOK
  <2>2. Cardinality(cache) \in Nat
    BY <2>1, FS_CardinalityType
  <2>3. Cardinality(cache \cup {s})
          = IF s \in cache THEN Cardinality(cache) ELSE Cardinality(cache) + 1
    BY <2>1, FS_AddElement
  <2>4. Cardinality(cache') <= MaxDescriptors
    BY <1>4, <2>2, <2>3, RegistryAssumption DEF CacheResult, Capped
  <2> QED BY <1>4, <2>4 DEF CacheResult, Capped
<1>5. ASSUME \/ PeerQuery
             \/ \E n \in Peer, r \in Route, s \in Session : PeerRemove(n, r, s)
             \/ \E r \in Route, s \in Session : LocalRemove(r, s)
             \/ \E s \in Session : LookupExpired(s)
      PROVE  registry' \subseteq registry /\ cache' \subseteq cache
  BY <1>5 DEF PeerQuery, PeerRemove, LocalRemove, LookupExpired, ApplyRemove, Drop, Uncache
<1>6. ASSUME \/ \E n \in Peer, own \in SUBSET Route : LinkUp(n, own) \/ LinkDown(n, own)
             \/ \E own \in SUBSET Route : Rehash(own)
             \/ \E s \in Session : LocalLeave(s)
             \/ DiscoverEnds \/ Stop \/ Tick \/ UNCHANGED vars
      PROVE  registry' \subseteq registry /\ cache' \subseteq cache
  BY <1>6 DEF LinkUp, LinkDown, TopologyChanged, DropUnowned, Drop, Rehash,
              LocalLeave, DiscoverEnds, Stop, Uncache, Tick, vars
<1> QED
  BY <1>1, <1>2, <1>3, <1>4, <1>5, <1>6, ShrinkCapped DEF Next

(* Neither the registry nor the cache ever exceeds the cap: the count the  *)
(* registry is limited by is exact.                                        *)
THEOREM RegistryCapped == Spec => []Capped
<1>1. Init => Capped
  BY RegistryAssumption, FS_EmptySet DEF Init, Capped
<1> QED BY <1>1, NextCapped, RegistryCounted, PTL DEF Spec

-----------------------------------------------------------------------------
(* Bindings.                                                               *)

LEMMA NextBound == TypeOK /\ CachedIsBound /\ [Next]_vars => CachedIsBound'
<1> SUFFICES ASSUME TypeOK, CachedIsBound, [Next]_vars PROVE CachedIsBound'
  OBVIOUS
<1> USE DEF TypeOK, CachedIsBound
<1>n. NoNode \notin Node /\ Peer \subseteq Node /\ Self \in Node
  BY RegistryAssumption DEF Node
<1>1. ASSUME NEW n \in Node, NEW r \in Route, NEW s \in Session, NEW t,
             ApplyRegister(r, n, s, t)
      PROVE  CachedIsBound'
  BY <1>n, <1>1 DEF ApplyRegister
<1>2. ASSUME NEW n \in Peer, NEW r \in Route, NEW s \in Session, NEW t \in Offer,
             PeerRegister(n, r, s, t)
      PROVE  CachedIsBound'
  BY <1>n, <1>1, <1>2 DEF PeerRegister
<1>3. ASSUME NEW r \in Route, NEW s \in Session, LocalRegister(r, s) PROVE CachedIsBound'
  BY <1>n, <1>1, <1>3 DEF LocalRegister
<1>4. ASSUME PeerQuery PROVE CachedIsBound'
  BY <1>4 DEF PeerQuery, Uncache, BindingsAfterPrune, UnboundByPrune
<1>5. ASSUME NEW r \in Route, Discover(r) PROVE CachedIsBound'
  BY <1>n, <1>5 DEF Discover, Found, BindingsAfterPrune, UnboundByPrune
<1>6. ASSUME NEW n \in Node, NEW s \in Session, NEW t \in Offer, CacheResult(n, s, t)
      PROVE  CachedIsBound'
  BY <1>n, <1>6 DEF CacheResult
<1>7. ASSUME NEW s \in Session, LookupExpired(s) PROVE CachedIsBound'
  BY <1>7 DEF LookupExpired, Uncache
<1>8. ASSUME Stop PROVE CachedIsBound'
  BY <1>8 DEF Stop, Uncache
<1>9. ASSUME UNCHANGED <<cache, sessionNode>> PROVE CachedIsBound'
  BY <1>9
<1>10. ASSUME \/ \E n \in Peer, r \in Route, s \in Session : PeerRemove(n, r, s)
              \/ \E r \in Route, s \in Session : LocalRemove(r, s)
              \/ \E n \in Peer, own \in SUBSET Route : LinkUp(n, own) \/ LinkDown(n, own)
              \/ \E own \in SUBSET Route : Rehash(own)
              \/ \E s \in Session : LocalLeave(s)
              \/ DiscoverEnds \/ Tick \/ UNCHANGED vars
       PROVE  UNCHANGED <<cache, sessionNode>>
  BY <1>10 DEF PeerRemove, LocalRemove, ApplyRemove, LinkUp, LinkDown,
               TopologyChanged, Rehash, LocalLeave, DiscoverEnds, Tick, vars
<1> QED
  BY <1>2, <1>3, <1>4, <1>5, <1>6, <1>7, <1>8, <1>9, <1>10 DEF Next

(* forward_signal finds a node for every session the cache answers for.    *)
THEOREM RegistryCachedIsBound == Spec => []CachedIsBound
<1>1. Init => CachedIsBound
  BY DEF Init, CachedIsBound
<1> QED BY <1>1, NextBound, RegistryTypes, PTL DEF Spec

(* What discover does to the bindings.                                     *)
LEMMA DiscoverBinds ==
  ASSUME NEW r \in Route, Discover(r)
  PROVE  \E first \in [Found(r) -> Node], taken \in SUBSET Found(r) :
           /\ \A s \in Found(r) : Cacheable(r, first[s], s)
           /\ sessionNode' = [s \in Session |->
                IF s \in taken THEN first[s] ELSE BindingsAfterPrune[s]]
  BY DEF Discover

LEMMA NextLocal == TypeOK /\ LocalStaysLocal /\ [Next]_vars => LocalStaysLocal'
<1> SUFFICES ASSUME TypeOK, LocalStaysLocal, [Next]_vars PROVE LocalStaysLocal'
  OBVIOUS
<1> USE RegistryAssumption DEF TypeOK, LocalStaysLocal
<1>1. ASSUME NEW n \in Node, NEW r \in Route, NEW s \in Session, NEW t,
             ApplyRegister(r, n, s, t)
      PROVE  LocalStaysLocal'
  <2>1. /\ registry' = registry \cup {<<r, n, s>>}
        /\ sessionNode' = [sessionNode EXCEPT ![s] = n]
        /\ local' = local
        /\ s \in local => n = Self
    BY <1>1 DEF ApplyRegister, Compatible
  <2>2. \A k \in registry' : k[3] \in local' => k[2] = Self
    BY <2>1
  <2>3. \A q \in local' : sessionNode'[q] \in {NoNode, Self}
    BY <2>1
  <2> QED BY <2>2, <2>3
<1>2. ASSUME NEW n \in Peer, NEW r \in Route, NEW s \in Session, NEW t \in Offer,
             PeerRegister(n, r, s, t)
      PROVE  LocalStaysLocal'
  BY <1>1, <1>2 DEF PeerRegister, Node
<1>3. ASSUME NEW r \in Route, NEW s \in Session, LocalRegister(r, s) PROVE LocalStaysLocal'
  BY <1>1, <1>3 DEF LocalRegister, Node
<1>4. ASSUME registry' \subseteq registry, local' \subseteq local,
             \A s \in local : sessionNode'[s] \in {NoNode, Self}
      PROVE  LocalStaysLocal'
  BY <1>4
<1>5. ASSUME PeerQuery PROVE LocalStaysLocal'
  BY <1>4, <1>5 DEF PeerQuery, Drop, BindingsAfterPrune
<1>6. ASSUME NEW r \in Route, Discover(r) PROVE LocalStaysLocal'
  <2>1. registry' \subseteq registry /\ local' = local
    BY <1>6 DEF Discover, Drop
  <2>2. PICK first \in [Found(r) -> Node], taken \in SUBSET Found(r) :
          /\ \A s \in Found(r) : Cacheable(r, first[s], s)
          /\ sessionNode' = [s \in Session |->
               IF s \in taken THEN first[s] ELSE BindingsAfterPrune[s]]
    BY <1>6, DiscoverBinds
  <2>3. \A s \in local : s \in taken => first[s] = Self
    BY <2>2 DEF Cacheable
  <2>4. \A s \in local : sessionNode'[s] \in {NoNode, Self}
    BY <2>2, <2>3 DEF BindingsAfterPrune
  <2> QED BY <1>4, <2>1, <2>4
<1>7. ASSUME NEW n \in Node, NEW s \in Session, NEW t \in Offer, CacheResult(n, s, t)
      PROVE  LocalStaysLocal'
  <2>1. /\ registry' = registry /\ local' = local
        /\ sessionNode' = [sessionNode EXCEPT ![s] = n]
        /\ s \in local => n = Self
    BY <1>7 DEF CacheResult, Compatible
  <2> QED BY <1>4, <2>1
<1>8. ASSUME NEW s \in Session, LookupExpired(s) PROVE LocalStaysLocal'
  BY <1>4, <1>8 DEF LookupExpired
<1>9. ASSUME Stop PROVE LocalStaysLocal'
  BY <1>4, <1>9 DEF Stop
<1>10. ASSUME \/ \E n \in Peer, r \in Route, s \in Session : PeerRemove(n, r, s)
              \/ \E r \in Route, s \in Session : LocalRemove(r, s)
              \/ \E n \in Peer, own \in SUBSET Route : LinkUp(n, own) \/ LinkDown(n, own)
              \/ \E own \in SUBSET Route : Rehash(own)
              \/ \E s \in Session : LocalLeave(s)
              \/ DiscoverEnds \/ Tick \/ UNCHANGED vars
       PROVE  /\ registry' \subseteq registry /\ local' \subseteq local
              /\ sessionNode' = sessionNode
  BY <1>10 DEF PeerRemove, LocalRemove, ApplyRemove, LinkUp, LinkDown,
               TopologyChanged, DropUnowned, Drop, Rehash, LocalLeave, DiscoverEnds,
               Tick, vars
<1> QED
  BY <1>2, <1>3, <1>4, <1>5, <1>6, <1>7, <1>8, <1>9, <1>10 DEF Next

(* A peer cannot make this node believe that one of its own connected      *)
(* clients lives elsewhere.                                                *)
THEOREM RegistryLocalStaysLocal == Spec => []LocalStaysLocal
<1>1. Init => LocalStaysLocal
  BY RegistryAssumption DEF Init, LocalStaysLocal
<1> QED BY <1>1, NextLocal, RegistryTypes, PTL DEF Spec
=============================================================================

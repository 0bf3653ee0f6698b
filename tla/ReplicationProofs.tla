-------------------------- MODULE ReplicationProofs --------------------------
(***************************************************************************)
(* Proofs for Rendezvous and Replication: what the loss of a node does to  *)
(* the owners of a route, how long a descriptor outlives its attachment,   *)
(* and what a renewed lease repairs.                                       *)
(***************************************************************************)
EXTENDS MeshNode, FiniteSetTheorems, WellFoundedInduction, TLAPS

-----------------------------------------------------------------------------
(* Rendezvous.                                                             *)

LEMMA AheadSizes ==
  ASSUME NEW r \in Route, NEW n \in Node, NEW ms \in SUBSET Node, NEW S \in SUBSET Ahead(r, n, ms)
  PROVE  /\ Cardinality(S) \in Nat /\ Cardinality(Ahead(r, n, ms)) \in Nat
         /\ Cardinality(S) <= Cardinality(Ahead(r, n, ms))
<1>1. IsFiniteSet(Ahead(r, n, ms))
  <2>1. Ahead(r, n, ms) \in SUBSET Node
    BY DEF Ahead
  <2> QED
    BY <2>1, FS_Subset, RendezvousAssumption
<1>2. IsFiniteSet(S) /\ Cardinality(S) <= Cardinality(Ahead(r, n, ms))
  BY <1>1, FS_Subset
<1> QED
  BY <1>1, <1>2, FS_CardinalityType

(* Losing a node moves no route it did not own, and a route it owned keeps *)
(* its other owners: owners_for rehashes as little as possible.            *)
THEOREM RehashIsMinimal ==
  ASSUME NEW r \in Route, NEW ms \in SUBSET Node, NEW x \in ms
  PROVE  /\ Owners(r, ms) \ {x} \subseteq Owners(r, ms \ {x})
         /\ x \notin Owners(r, ms) => Owners(r, ms \ {x}) = Owners(r, ms)
<1> USE RendezvousAssumption
<1>1. ASSUME NEW n \in ms \ {x}
      PROVE  /\ Cardinality(Ahead(r, n, ms \ {x})) \in Nat
             /\ Cardinality(Ahead(r, n, ms)) \in Nat
             /\ Cardinality(Ahead(r, n, ms \ {x})) <= Cardinality(Ahead(r, n, ms))
  <2>1. Ahead(r, n, ms \ {x}) \in SUBSET Ahead(r, n, ms)
    BY DEF Ahead
  <2> QED
    BY <2>1, AheadSizes
<1>2. Owners(r, ms) \ {x} \subseteq Owners(r, ms \ {x})
  <2> SUFFICES ASSUME NEW n \in Owners(r, ms), n # x PROVE n \in Owners(r, ms \ {x})
    OBVIOUS
  <2>1. n \in ms \ {x} /\ Cardinality(Ahead(r, n, ms)) < Replicas
    BY DEF Owners
  <2>2. /\ Cardinality(Ahead(r, n, ms \ {x})) \in Nat /\ Cardinality(Ahead(r, n, ms)) \in Nat
        /\ Cardinality(Ahead(r, n, ms \ {x})) <= Cardinality(Ahead(r, n, ms))
    BY <1>1, <2>1
  <2>3. Cardinality(Ahead(r, n, ms \ {x})) < Replicas
    BY <2>1, <2>2
  <2> QED
    BY <2>1, <2>3 DEF Owners
<1>3. ASSUME x \notin Owners(r, ms), NEW n \in Owners(r, ms \ {x})
      PROVE  n \in Owners(r, ms)
  <2>1. n \in ms \ {x} /\ Cardinality(Ahead(r, n, ms \ {x})) < Replicas
    BY <1>3 DEF Owners
  <2>2. CASE Weight[r][x] > Weight[r][n]
    <3>1. Ahead(r, x, ms) \in SUBSET Ahead(r, n, ms \ {x})
      <4>1. \A m \in ms : Weight[r][m] \in Nat
        OBVIOUS
      <4> QED
        BY <2>1, <2>2, <4>1 DEF Ahead
    <3>2. /\ Cardinality(Ahead(r, x, ms)) \in Nat
          /\ Cardinality(Ahead(r, n, ms \ {x})) \in Nat
          /\ Cardinality(Ahead(r, x, ms)) <= Cardinality(Ahead(r, n, ms \ {x}))
      BY <2>1, <3>1, AheadSizes
    <3>3. ~(Cardinality(Ahead(r, x, ms)) < Replicas)
      BY <1>3 DEF Owners
    <3> QED
      BY <2>1, <3>2, <3>3
  <2>3. CASE ~(Weight[r][x] > Weight[r][n])
    <3>1. Ahead(r, n, ms) = Ahead(r, n, ms \ {x})
      BY <2>3 DEF Ahead
    <3> QED
      BY <2>1, <3>1 DEF Owners
  <2> QED
    BY <2>2, <2>3
<1>4. x \notin Owners(r, ms) => Owners(r, ms \ {x}) = Owners(r, ms)
  <2> SUFFICES ASSUME x \notin Owners(r, ms) PROVE Owners(r, ms \ {x}) = Owners(r, ms)
    OBVIOUS
  <2>1. Owners(r, ms \ {x}) \subseteq Owners(r, ms)
    BY <1>3
  <2> QED
    BY <1>2, <2>1
<1> QED
  BY <1>2, <1>4

(* A set of naturals has a least element.                                  *)
LEMMA Least ==
  ASSUME NEW T \in SUBSET Nat, T # {}
  PROVE  \E x \in T : \A y \in T : x <= y
<1> DEFINE Below == OpToRel(<, Nat)
<1>1. IsWellFoundedOn(Below, Nat)
  BY NatLessThanWellFounded
<1>2. PICK x \in T : \A y \in T : ~ (<<y, x>> \in Below)
  <2> HIDE DEF Below
  <2> QED BY <1>1, WFMin
<1>3. \A y \in T : ~ (y < x)
  BY <1>2 DEF OpToRel
<1> QED BY <1>3

(* Some member is ranked first.                                            *)
LEMMA FirstRanked ==
  ASSUME NEW r \in Route, NEW ms \in SUBSET Node, ms # {}
  PROVE  \E n \in ms : Ahead(r, n, ms) = {}
<1> DEFINE T == {Cardinality(Ahead(r, n, ms)) : n \in ms}
<1>1. \A n \in ms : IsFiniteSet(Ahead(r, n, ms)) /\ Cardinality(Ahead(r, n, ms)) \in Nat
  <2> SUFFICES ASSUME NEW n \in ms
               PROVE  IsFiniteSet(Ahead(r, n, ms)) /\ Cardinality(Ahead(r, n, ms)) \in Nat
    OBVIOUS
  <2>1. Ahead(r, n, ms) \in SUBSET Node
    BY DEF Ahead
  <2>2. IsFiniteSet(Ahead(r, n, ms))
    BY <2>1, FS_Subset, RendezvousAssumption
  <2> QED BY <2>2, FS_CardinalityType
<1>2. T \in SUBSET Nat /\ T # {}
  BY <1>1
<1>3. PICK k \in T : \A j \in T : k <= j
  <2> HIDE DEF T
  <2> QED BY <1>2, Least
<1>4. PICK n \in ms : Cardinality(Ahead(r, n, ms)) = k
  BY <1>3
<1>5. \A m \in ms : Cardinality(Ahead(r, n, ms)) <= Cardinality(Ahead(r, m, ms))
  BY <1>3, <1>4
<1>6. ASSUME NEW m \in Ahead(r, n, ms) PROVE FALSE
  <2>1. m \in ms /\ Weight[r][m] > Weight[r][n]
    BY <1>6 DEF Ahead
  <2>2. \A q \in ms : Weight[r][q] \in Nat
    BY RendezvousAssumption
  <2>3. Ahead(r, m, ms) \in SUBSET Ahead(r, n, ms)
    BY <2>1, <2>2 DEF Ahead
  <2>4. m \notin Ahead(r, m, ms)
    BY <2>1, <2>2 DEF Ahead
  <2>5. /\ Cardinality(Ahead(r, m, ms)) <= Cardinality(Ahead(r, n, ms))
        /\ Cardinality(Ahead(r, n, ms)) = Cardinality(Ahead(r, m, ms))
             => Ahead(r, n, ms) = Ahead(r, m, ms)
    BY <1>1, <2>3, FS_Subset
  <2>6. Cardinality(Ahead(r, n, ms)) # Cardinality(Ahead(r, m, ms))
    BY <1>6, <2>4, <2>5
  <2> QED BY <1>1, <1>5, <2>1, <2>5, <2>6
<1> QED BY <1>6

(* With more than one replica, two views of the members that differ in one *)
(* node agree on an owner of every route, so a node that is one membership *)
(* change behind asks a node that was told.                                *)
THEOREM NearViewsShareOwner ==
  ASSUME NEW r \in Route, NEW ms \in SUBSET Node, NEW ns \in SUBSET Node, NEW x,
         ms # {}, ms \subseteq ns, ns \subseteq ms \cup {x}, Replicas > 1
  PROVE  \E n \in Owners(r, ms) : n \in Owners(r, ns)
<1>1. PICK n \in ms : Ahead(r, n, ms) = {}
  BY FirstRanked
<1>2. Ahead(r, n, ns) \in SUBSET {x}
  BY <1>1 DEF Ahead
<1>3. Cardinality({}) = 0 /\ IsFiniteSet({x}) /\ Cardinality({x}) = 1
  BY FS_EmptySet, FS_Singleton
<1>4. Cardinality(Ahead(r, n, ns)) <= 1 /\ Cardinality(Ahead(r, n, ns)) \in Nat
  <2>1. IsFiniteSet(Ahead(r, n, ns)) /\ Cardinality(Ahead(r, n, ns)) <= Cardinality({x})
    BY <1>2, <1>3, FS_Subset
  <2> QED BY <1>3, <2>1, FS_CardinalityType
<1>5. Cardinality(Ahead(r, n, ms)) = 0
  BY <1>1, <1>3, Zenon
<1>6. n \in Owners(r, ms)
  BY <1>5, RendezvousAssumption DEF Owners
<1>7. n \in Owners(r, ns)
  BY <1>1, <1>4, RendezvousAssumption DEF Owners
<1> QED BY <1>6, <1>7

-----------------------------------------------------------------------------
(* Replication.                                                            *)

(* What an expiry e, by Home's clock and from now, may be for route r: a   *)
(* lease from now at most, and in any case the one that a topology pass    *)
(* gave a route which had just left, or a session that has left had then.  *)
AllowedIn(att, ago, here, off, r, e) ==
  /\ e <= Lease
  /\ r \notin att => e + ago[r] <= Lease + PassBound
  /\ ~here => e + off <= Lease

Allowed(r, e) == AllowedIn(attached, gone, inTable, away, r, e)

(* A message that n may still accept.                                      *)
Fresh(n, m) == m.type = "ROUTE_REGISTER" /\ m.left > Offset[n] - Skew

(* All that is registered or on its way expires in time.                   *)
Expiring ==
  /\ \A n \in Node, r \in Route : reg[n][r] > 0 => Allowed(r, reg[n][r] + Offset[n])
  /\ \A n \in Node : \A i \in 1 .. Len(flight[n]) :
       Fresh(n, flight[n][i]) => Allowed(flight[n][i].route, flight[n][i].left)

(* What a pass has still to announce left sess["routes"] after the pass    *)
(* took its copy, if at all.                                               *)
Passing ==
  \A p \in Pass : \A r \in todo[p] :
    pass[p] = "registering" /\ (r \notin attached => gone[r] <= passAge[p])

AwayCounts == inTable => away = 0

(* A lease renewed since the mesh was last disturbed is known everywhere.  *)
Covered ==
  \A r \in attached :
    client = "open" /\ left[r] > 0 /\ left[r] + calm > Lease
      => \A n \in Targets(r) : Lasts(n, r, left[r])

RepInv == TypeOK /\ Expiring /\ Passing /\ AwayCounts /\ Covered

LEMMA TargetsAreNodes == ASSUME TypeOK, NEW r PROVE Targets(r) \subseteq Node
  BY DEF Targets, Owners, TypeOK, Views

LEMMA Offsets ==
  /\ Lease \in Nat \ {0} /\ PassBound \in Nat /\ Skew \in Nat /\ Drift \in Nat
  /\ \A n \in Node : Offset[n] \in Int /\ -Drift <= Offset[n] /\ Offset[n] <= Drift
  /\ GhostLimit \in Nat /\ AwayLimit \in Nat
  BY ReplicationAssumption DEF GhostLimit, AwayLimit

LEMMA MessageParts ==
  ASSUME NEW m \in Message
  PROVE  m.type \in {"ROUTE_REGISTER", "ROUTE_REMOVE"} /\ m.route \in Route /\ m.left \in Int
         /\ -(Drift + Skew) <= m.left /\ m.left <= Lease
  BY Offsets DEF Message

LEMMA Made ==
  ASSUME NEW r \in Route
  PROVE  /\ Register(r) \in Message /\ Register(r).route = r /\ Register(r).left = Lease
         /\ Register(r).type = "ROUTE_REGISTER"
         /\ Remove(r) \in Message /\ Remove(r).route = r /\ Remove(r).type = "ROUTE_REMOVE"
<1>1. Lease \in -(Drift + Skew) .. Lease /\ 0 \in -(Drift + Skew) .. Lease
  BY Offsets
<1> QED BY <1>1 DEF Register, Remove, Message

(* Messages in line: one more, and one less.                               *)
LEMMA Appended ==
  ASSUME NEW q \in Seq(Message), NEW m \in Message
  PROVE  /\ Append(q, m) \in Seq(Message) /\ Len(q) \in Nat /\ Len(Append(q, m)) = Len(q) + 1
         /\ \A i \in 1 .. Len(q) : Append(q, m)[i] = q[i]
         /\ Append(q, m)[Len(q) + 1] = m
  OBVIOUS

LEMMA Shortened ==
  ASSUME NEW q \in Seq(Message), q # <<>>
  PROVE  /\ Len(q) \in Nat \ {0} /\ Head(q) = q[1] /\ Head(q) \in Message
         /\ Tail(q) \in Seq(Message) /\ Len(Tail(q)) = Len(q) - 1
         /\ \A i \in 1 .. Len(Tail(q)) : Tail(q)[i] = q[i + 1]
  OBVIOUS

-----------------------------------------------------------------------------
(* The last word about a route.                                            *)

LEMMA LastWordSaid ==
  ASSUME NEW q \in Seq(Message), NEW e, NEW o, NEW t, NEW m \in Message,
         m.type = "ROUTE_REGISTER", m.left >= t
  PROVE  LastWord(Append(q, m), e, o, m.route, t)
<1>1. /\ Len(q) \in Nat /\ Len(Append(q, m)) = Len(q) + 1 /\ Append(q, m)[Len(q) + 1] = m
  BY Appended
<1>2. Len(q) + 1 \in 1 .. Len(Append(q, m))
  BY <1>1
<1>3. (Len(q) + 1) + 1 .. Len(Append(q, m)) = {}
  BY <1>1
<1> QED BY <1>1, <1>2, <1>3 DEF LastWord

LEMMA LastWordKept ==
  ASSUME NEW q \in Seq(Message), NEW e, NEW o, NEW t, NEW r, NEW m \in Message,
         m.route # r, LastWord(q, e, o, r, t)
  PROVE  LastWord(Append(q, m), e, o, r, t)
<1> DEFINE a == Append(q, m)
<1>1. /\ Len(q) \in Nat /\ Len(a) = Len(q) + 1 /\ a[Len(q) + 1] = m
      /\ \A i \in 1 .. Len(q) : a[i] = q[i]
  BY Appended
<1> HIDE DEF a
<1>2. \A j \in 1 .. Len(a) : j \in 1 .. Len(q) \/ j = Len(q) + 1
  BY <1>1
<1>3. CASE (\A i \in 1 .. Len(q) : q[i].route # r) /\ e + o >= t
  <2>1. \A i \in 1 .. Len(a) : a[i].route # r
    BY <1>1, <1>2, <1>3
  <2> QED BY <1>3, <2>1 DEF LastWord, a
<1>4. ASSUME NEW i \in 1 .. Len(q), q[i].type = "ROUTE_REGISTER", q[i].route = r, q[i].left >= t,
             \A j \in i + 1 .. Len(q) : q[j].route # r
      PROVE  LastWord(a, e, o, r, t)
  <2>1. i \in 1 .. Len(a) /\ a[i] = q[i]
    BY <1>1, <1>4
  <2>2. ASSUME NEW j \in i + 1 .. Len(a) PROVE a[j].route # r
    <3>1. j \in i + 1 .. Len(q) \/ j = Len(q) + 1
      BY <1>1, <1>4, <2>2
    <3>2. j \in i + 1 .. Len(q) => a[j] = q[j]
      BY <1>1, <1>4
    <3> QED BY <1>1, <1>4, <3>1, <3>2
  <2> QED BY <1>4, <2>1, <2>2 DEF LastWord
<1> QED BY <1>3, <1>4 DEF LastWord, a

(* A word that was not about r, or is now what the entry says, is read.    *)
LEMMA LastWordRead ==
  ASSUME NEW q \in Seq(Message), q # <<>>, NEW e \in Int, NEW f \in Int, NEW o \in Int,
         NEW t \in Int, NEW r, LastWord(q, e, o, r, t),
         Head(q).route # r => f = e,
         Head(q).route = r /\ Head(q).type = "ROUTE_REGISTER" => f + o >= Head(q).left
  PROVE  LastWord(Tail(q), f, o, r, t)
<1> DEFINE b == Tail(q)
<1>1. /\ Len(q) \in Nat \ {0} /\ Head(q) = q[1] /\ Head(q) \in Message
      /\ Len(b) = Len(q) - 1 /\ \A i \in 1 .. Len(b) : b[i] = q[i + 1]
  BY Shortened
<1>2. Head(q).left \in Int
  BY <1>1, MessageParts
<1> HIDE DEF b
<1>3. \A j \in 1 .. Len(b) : j + 1 \in 2 .. Len(q)
  BY <1>1
<1>4. CASE (\A i \in 1 .. Len(q) : q[i].route # r) /\ e + o >= t
  <2>1. \A i \in 1 .. Len(b) : b[i].route # r
    BY <1>1, <1>3, <1>4
  <2>2. f = e
    BY <1>1, <1>4
  <2> QED BY <1>4, <2>1, <2>2 DEF LastWord, b
<1>5. ASSUME NEW i \in 1 .. Len(q), q[i].type = "ROUTE_REGISTER", q[i].route = r, q[i].left >= t,
             \A j \in i + 1 .. Len(q) : q[j].route # r
      PROVE  LastWord(b, f, o, r, t)
  <2>1. CASE i = 1
    <3>1. f + o >= t
      BY <1>1, <1>2, <1>5, <2>1
    <3>2. ASSUME NEW j \in 1 .. Len(b) PROVE b[j].route # r
      <4>1. j + 1 \in i + 1 .. Len(q)
        BY <1>1, <2>1, <3>2
      <4> QED BY <1>1, <1>5, <4>1
    <3> QED BY <3>1, <3>2 DEF LastWord
  <2>2. CASE i # 1
    <3>1. i - 1 \in 1 .. Len(b) /\ b[i - 1] = q[i]
      BY <1>1, <1>5, <2>2
    <3>2. ASSUME NEW j \in (i - 1) + 1 .. Len(b) PROVE b[j].route # r
      <4>1. j \in 1 .. Len(b) /\ j + 1 \in i + 1 .. Len(q)
        BY <1>1, <1>5, <3>2
      <4> QED BY <1>1, <1>5, <4>1
    <3> QED BY <1>5, <3>1, <3>2 DEF LastWord
  <2> QED BY <2>1, <2>2
<1> QED BY <1>4, <1>5 DEF LastWord, b

(* A tick passes over the messages and the entry.                          *)
LEMMA LastWordAges ==
  ASSUME NEW n \in Node, NEW q \in Seq(Message), NEW e \in Nat, NEW t \in Int, NEW r,
         t > 0, LastWord(q, e, Offset[n], r, t)
  PROVE  LastWord([i \in 1 .. Len(q) |-> Later(n, q[i])], Less1(e), Offset[n], r, t - 1)
<1> DEFINE b == [i \in 1 .. Len(q) |-> Later(n, q[i])]
<1>1. Len(q) \in Nat /\ \A i \in 1 .. Len(q) : q[i] \in Message
  OBVIOUS
<1>2. Len(b) = Len(q)
  BY <1>1
<1>3. ASSUME NEW i \in 1 .. Len(q)
      PROVE  b[i].route = q[i].route /\ b[i].type = q[i].type /\ b[i].left >= q[i].left - 1
  <2>1. q[i] \in Message /\ q[i].left \in Int /\ b[i] = Later(n, q[i])
    BY <1>1, MessageParts
  <2> QED BY <2>1 DEF Later, Message
<1>4. \A i \in 1 .. Len(q) : q[i].left \in Int /\ b[i].left \in Int
  <2> SUFFICES ASSUME NEW i \in 1 .. Len(q) PROVE q[i].left \in Int /\ b[i].left \in Int
    OBVIOUS
  <2>1. q[i] \in Message /\ q[i].left \in Int
    BY <1>1, MessageParts
  <2> QED BY <2>1 DEF Later, Message
<1> HIDE DEF b
<1>5. CASE (\A i \in 1 .. Len(q) : q[i].route # r) /\ e + Offset[n] >= t
  <2>1. Less1(e) + Offset[n] >= t - 1
    BY <1>5, Offsets DEF Less1
  <2> QED BY <1>2, <1>3, <1>5, <2>1 DEF LastWord, b
<1>6. ASSUME NEW i \in 1 .. Len(q), q[i].type = "ROUTE_REGISTER", q[i].route = r, q[i].left >= t,
             \A j \in i + 1 .. Len(q) : q[j].route # r
      PROVE  LastWord(b, Less1(e), Offset[n], r, t - 1)
  <2>1. b[i].left >= t - 1
    BY <1>3, <1>4, <1>6
  <2>2. \A j \in i + 1 .. Len(q) : b[j].route # r
    BY <1>1, <1>3, <1>6
  <2> QED BY <1>2, <1>3, <1>6, <2>1, <2>2 DEF LastWord
<1> QED BY <1>5, <1>6 DEF LastWord, b

-----------------------------------------------------------------------------
(* What a step does to the messages and the registries.                    *)

LEMMA OneEntry ==
  ASSUME NEW S, NEW f \in [Node -> [Route -> S]], NEW k \in Node, NEW q \in Route, NEW e \in S
  PROVE  /\ [f EXCEPT ![k][q] = e] \in [Node -> [Route -> S]]
         /\ \A n \in Node, r \in Route :
              [f EXCEPT ![k][q] = e][n][r] = IF n = k /\ r = q THEN e ELSE f[n][r]
<1>1. [f[k] EXCEPT ![q] = e] \in [Route -> S]
  OBVIOUS
<1>2. [f EXCEPT ![k][q] = e] = [f EXCEPT ![k] = [f[k] EXCEPT ![q] = e]]
  OBVIOUS
<1> QED BY <1>1, <1>2

LEMMA Replicated ==
  ASSUME NEW m \in Message, m.type = "ROUTE_REGISTER" => m.left = Lease, TypeOK, Replicate(m)
  PROVE  /\ flight' \in [Node -> Seq(Message)] /\ flight'[Home] = <<>>
         /\ reg' \in [Node -> [Route -> 0 .. Lease + Skew]] /\ calm' \in 0 .. Lease
         /\ \A n \in Node : flight'[n] = flight[n] \/ flight'[n] = Append(flight[n], m)
         /\ \A n \in Node, q \in Route :
              \/ reg'[n][q] = reg[n][q]
              \/ n = Home /\ q = m.route /\ reg'[n][q] = Entry(Home, m)
         /\ calm' = calm \/ calm' = 0
         /\ calm' # 0 => /\ Home \in Targets(m.route) => reg'[Home][m.route] = Entry(Home, m)
                         /\ \A n \in Targets(m.route) \ {Home} : flight'[n] = Append(flight[n], m)
         /\ Entry(Home, m) = IF m.type = "ROUTE_REGISTER" THEN Lease ELSE 0
<1> USE ReplicationAssumption
<1> DEFINE told == Targets(m.route) \ {Home}
<1>1. flight' = [n \in Node |-> IF n \in told THEN Append(flight[n], m) ELSE flight[n]]
  BY DEF Replicate
<1>2. \/ /\ reg' = IF Home \in Targets(m.route)
                   THEN [reg EXCEPT ![Home][m.route] = Entry(Home, m)] ELSE reg
         /\ calm' = calm
      \/ reg' = reg /\ calm' = 0
  BY DEF Replicate
<1>3. /\ m.type \in {"ROUTE_REGISTER", "ROUTE_REMOVE"} /\ m.route \in Route /\ m.left \in Int
      /\ told \subseteq Node
  BY MessageParts, TargetsAreNodes
<1>4. Entry(Home, m) = IF m.type = "ROUTE_REGISTER" THEN Lease ELSE 0
  BY <1>3 DEF Entry
<1>5. /\ flight \in [Node -> Seq(Message)] /\ flight[Home] = <<>> /\ calm \in 0 .. Lease
      /\ reg \in [Node -> [Route -> 0 .. Lease + Skew]]
  BY DEF TypeOK
<1> HIDE DEF told
<1>6. \A n \in Node : flight'[n] = IF n \in told THEN Append(flight[n], m) ELSE flight[n]
  BY <1>1
<1>7. \A n \in Node : flight'[n] \in Seq(Message)
  <2> SUFFICES ASSUME NEW n \in Node PROVE flight'[n] \in Seq(Message)
    OBVIOUS
  <2>1. flight[n] \in Seq(Message)
    BY <1>5
  <2> QED BY <1>6, <2>1, Appended
<1>8. flight' \in [Node -> Seq(Message)] /\ flight'[Home] = <<>>
  BY <1>1, <1>5, <1>6, <1>7 DEF told
<1>9. Entry(Home, m) \in 0 .. Lease + Skew
  BY <1>4
<1>10. /\ reg' \in [Node -> [Route -> 0 .. Lease + Skew]]
       /\ \A n \in Node, q \in Route :
            \/ reg'[n][q] = reg[n][q]
            \/ n = Home /\ q = m.route /\ reg'[n][q] = Entry(Home, m)
       /\ calm' # 0 /\ Home \in Targets(m.route) => reg'[Home][m.route] = Entry(Home, m)
  <2>1. CASE Home \in Targets(m.route) /\ reg' = [reg EXCEPT ![Home][m.route] = Entry(Home, m)]
    <3> DEFINE e == Entry(Home, m)
           S == 0 .. Lease + Skew
    <3> HIDE DEF e, S
    <3>1. /\ [reg EXCEPT ![Home][m.route] = e] \in [Node -> [Route -> S]]
          /\ \A n \in Node, r \in Route :
               [reg EXCEPT ![Home][m.route] = e][n][r] = IF n = Home /\ r = m.route THEN e ELSE reg[n][r]
      BY <1>3, <1>5, <1>9, OneEntry DEF e, S
    <3> QED BY <1>3, <2>1, <3>1 DEF e, S
  <2>2. CASE reg' = reg /\ (calm' = 0 \/ Home \notin Targets(m.route))
    BY <1>5, <2>2
  <2> QED BY <1>2, <2>1, <2>2
<1>11. \A n \in told : flight'[n] = Append(flight[n], m)
  BY <1>3, <1>6
<1>12. \A n \in Targets(m.route) \ {Home} : flight'[n] = Append(flight[n], m)
  BY <1>11 DEF told
<1> QED BY <1>2, <1>4, <1>5, <1>6, <1>8, <1>10, <1>12

LEMMA ReplicateExpires ==
  ASSUME TypeOK, Expiring, NEW m \in Message, m.type = "ROUTE_REGISTER" => m.left = Lease,
         Replicate(m),
         \A r \in Route, e \in Int : Allowed(r, e) => AllowedIn(attached', gone', inTable', away', r, e),
         m.type = "ROUTE_REGISTER" => AllowedIn(attached', gone', inTable', away', m.route, Lease)
  PROVE  Expiring'
<1> USE ReplicationAssumption
<1>1. m.route \in Route /\ m.type \in {"ROUTE_REGISTER", "ROUTE_REMOVE"}
  BY MessageParts
<1>2. ASSUME NEW n \in Node, NEW r \in Route, reg'[n][r] > 0
      PROVE  AllowedIn(attached', gone', inTable', away', r, reg'[n][r] + Offset[n])
  <2>1. CASE reg'[n][r] = reg[n][r]
    <3>1. reg[n][r] \in Int /\ Offset[n] \in Int
      BY Offsets DEF TypeOK
    <3>2. Allowed(r, reg[n][r] + Offset[n])
      BY <1>2, <2>1 DEF Expiring
    <3> QED BY <2>1, <3>1, <3>2
  <2>2. CASE n = Home /\ r = m.route /\ reg'[n][r] = Entry(Home, m)
    <3>1. m.type = "ROUTE_REGISTER" /\ reg'[n][r] = Lease
      BY <1>1, <1>2, <2>2, Replicated
    <3>2. Lease + Offset[n] = Lease
      BY <2>2
    <3> QED BY <2>2, <3>1, <3>2
  <2> QED BY <2>1, <2>2, Replicated
<1>3. ASSUME NEW n \in Node, NEW i \in 1 .. Len(flight'[n]), Fresh(n, flight'[n][i])
      PROVE  AllowedIn(attached', gone', inTable', away', flight'[n][i].route, flight'[n][i].left)
  <2>1. flight[n] \in Seq(Message)
    BY DEF TypeOK
  <2>2. \/ i \in 1 .. Len(flight[n]) /\ flight'[n][i] = flight[n][i]
        \/ flight'[n][i] = m
    <3>1. CASE flight'[n] = flight[n]
      BY <3>1
    <3>2. CASE flight'[n] = Append(flight[n], m)
      BY <2>1, <3>2, Appended
    <3> QED BY <3>1, <3>2, Replicated
  <2>3. CASE i \in 1 .. Len(flight[n]) /\ flight'[n][i] = flight[n][i]
    <3>1. Allowed(flight[n][i].route, flight[n][i].left)
      BY <1>3, <2>3 DEF Expiring
    <3>2. flight[n][i] \in Message
      BY <2>1, <2>3
    <3>3. flight[n][i].route \in Route /\ flight[n][i].left \in Int
      BY <3>2, MessageParts
    <3> QED BY <2>3, <3>1, <3>3
  <2>4. CASE flight'[n][i] = m
    BY <1>3, <2>4 DEF Fresh
  <2> QED BY <2>2, <2>3, <2>4
<1> QED BY <1>2, <1>3 DEF Expiring, Allowed, Fresh

(* A message is taken off the line to k, and its entry made or not.        *)
LEMMA ReadExpires ==
  ASSUME TypeOK, Expiring, NEW k \in Node, flight[k] # <<>>,
         flight' = [flight EXCEPT ![k] = Tail(@)],
         UNCHANGED <<attached, gone, inTable, away>>,
         \/ reg' = reg
         \/ /\ Head(flight[k]).type = "ROUTE_REGISTER" => Current(k, Head(flight[k]))
            /\ reg' = [reg EXCEPT ![k][Head(flight[k]).route] = Entry(k, Head(flight[k]))]
  PROVE  Expiring' /\ flight' \in [Node -> Seq(Message)]
         /\ reg' \in [Node -> [Route -> 0 .. Lease + Skew]]
<1> DEFINE m == Head(flight[k])
<1>1. /\ flight \in [Node -> Seq(Message)] /\ reg \in [Node -> [Route -> 0 .. Lease + Skew]]
      /\ flight[k] \in Seq(Message)
  BY DEF TypeOK
<1>2. /\ m \in Message /\ m = flight[k][1] /\ 1 \in 1 .. Len(flight[k])
      /\ Tail(flight[k]) \in Seq(Message)
  BY <1>1, Shortened
<1>3. m.type \in {"ROUTE_REGISTER", "ROUTE_REMOVE"} /\ m.route \in Route /\ m.left \in Int
  BY <1>2, MessageParts
<1>4. Offset[k] \in Int /\ Lease \in Nat /\ Skew \in Nat
  BY Offsets
<1>5. ASSUME reg' # reg
      PROVE  /\ reg' \in [Node -> [Route -> 0 .. Lease + Skew]]
             /\ \A n \in Node, r \in Route : reg'[n][r] > 0 => Allowed(r, reg'[n][r] + Offset[n])
  <2>1. /\ m.type = "ROUTE_REGISTER" => Current(k, m)
        /\ reg' = [reg EXCEPT ![k][m.route] = Entry(k, m)]
    BY <1>5
  <2>2. Entry(k, m) \in 0 .. Lease + Skew
    BY <1>3, <1>4, <2>1 DEF Entry, Current
  <2>3. Entry(k, m) > 0 => Fresh(k, m) /\ Entry(k, m) + Offset[k] = m.left
    BY <1>3, <1>4, <2>1 DEF Entry, Fresh, Current
  <2>4. Entry(k, m) > 0 => Allowed(m.route, Entry(k, m) + Offset[k])
    BY <1>2, <2>3 DEF Expiring
  <2>5. /\ reg' \in [Node -> [Route -> 0 .. Lease + Skew]]
        /\ \A n \in Node, r \in Route :
             reg'[n][r] = IF n = k /\ r = m.route THEN Entry(k, m) ELSE reg[n][r]
    <3> DEFINE e == Entry(k, m)
           S == 0 .. Lease + Skew
    <3> HIDE DEF e, S
    <3>1. /\ [reg EXCEPT ![k][m.route] = e] \in [Node -> [Route -> S]]
          /\ \A n \in Node, r \in Route :
               [reg EXCEPT ![k][m.route] = e][n][r] = IF n = k /\ r = m.route THEN e ELSE reg[n][r]
      BY <1>1, <1>3, <2>2, OneEntry DEF e, S
    <3> QED BY <2>1, <3>1 DEF e, S
  <2>6. ASSUME NEW n \in Node, NEW r \in Route, reg'[n][r] > 0
        PROVE  Allowed(r, reg'[n][r] + Offset[n])
    <3>1. reg'[n][r] = reg[n][r] \/ (n = k /\ r = m.route /\ reg'[n][r] = Entry(k, m))
      BY <2>5
    <3>2. CASE reg'[n][r] = reg[n][r]
      BY <2>6, <3>2 DEF Expiring
    <3>3. CASE n = k /\ r = m.route /\ reg'[n][r] = Entry(k, m)
      BY <2>4, <2>6, <3>3
    <3> QED BY <3>1, <3>2, <3>3
  <2> QED BY <2>5, <2>6
<1>6. /\ reg' \in [Node -> [Route -> 0 .. Lease + Skew]]
      /\ \A n \in Node, r \in Route : reg'[n][r] > 0 => Allowed(r, reg'[n][r] + Offset[n])
  BY <1>1, <1>5 DEF Expiring
<1>7. flight' \in [Node -> Seq(Message)]
  BY <1>1, <1>2
<1>8. ASSUME NEW n \in Node, NEW i \in 1 .. Len(flight'[n]), Fresh(n, flight'[n][i])
      PROVE  Allowed(flight'[n][i].route, flight'[n][i].left)
  <2>1. CASE n # k
    <3>1. flight'[n] = flight[n]
      BY <1>1, <2>1
    <3> QED BY <1>8, <3>1 DEF Expiring
  <2>2. CASE n = k
    <3>1. flight'[k] = Tail(flight[k])
      BY <1>1
    <3>2. i + 1 \in 1 .. Len(flight[k]) /\ flight'[n][i] = flight[k][i + 1]
      BY <1>1, <1>8, <2>2, <3>1, Shortened
    <3> QED BY <1>8, <2>2, <3>2 DEF Expiring
  <2> QED BY <2>1, <2>2
<1> QED BY <1>6, <1>7, <1>8 DEF Expiring, Allowed, Fresh

(* Nothing is sent, and entries are kept or dropped.                       *)
LEMMA DropExpires ==
  ASSUME TypeOK, Expiring, flight' = flight,
         \A n \in Node, r \in Route : reg'[n][r] \in {reg[n][r], 0},
         \A r \in Route, e \in Int : Allowed(r, e) => AllowedIn(attached', gone', inTable', away', r, e)
  PROVE  Expiring'
<1>1. ASSUME NEW n \in Node, NEW r \in Route, reg'[n][r] > 0
      PROVE  AllowedIn(attached', gone', inTable', away', r, reg'[n][r] + Offset[n])
  <2>1. reg'[n][r] = reg[n][r] /\ reg[n][r] \in Int /\ Offset[n] \in Int
    BY <1>1, Offsets DEF TypeOK
  <2>2. Allowed(r, reg[n][r] + Offset[n])
    BY <1>1, <2>1 DEF Expiring
  <2> QED BY <2>1, <2>2
<1>2. ASSUME NEW n \in Node, NEW i \in 1 .. Len(flight[n]), Fresh(n, flight[n][i])
      PROVE  AllowedIn(attached', gone', inTable', away', flight[n][i].route, flight[n][i].left)
  <2>1. flight[n][i] \in Message
    BY DEF TypeOK
  <2>2. flight[n][i].route \in Route /\ flight[n][i].left \in Int
    BY <2>1, MessageParts
  <2> QED BY <1>2, <2>2 DEF Expiring
<1> QED BY <1>1, <1>2 DEF Expiring, Allowed, Fresh

LEMMA ReplicateCovers ==
  ASSUME TypeOK, NEW m \in Message, m.type = "ROUTE_REGISTER" => m.left = Lease, Replicate(m),
         calm' # 0, NEW q \in Route, NEW n \in Targets(q), NEW t \in Int, t <= Lease,
         m.route = q => m.type = "ROUTE_REGISTER",
         m.route # q => Lasts(n, q, t)
  PROVE  LastWord(flight'[n], reg'[n][q], Offset[n], q, t)
<1> USE ReplicationAssumption
<1>1. n \in Node /\ flight[n] \in Seq(Message) /\ flight'[Home] = <<>>
  BY TargetsAreNodes, Replicated DEF TypeOK
<1>2. CASE m.route = q /\ n = Home
  <2>1. reg'[n][q] = Lease
    BY <1>2, Replicated
  <2> QED BY <1>1, <1>2, <2>1 DEF LastWord
<1>3. CASE m.route = q /\ n # Home
  <2>1. flight'[n] = Append(flight[n], m) /\ m.left >= t
    BY <1>3, Replicated
  <2> QED BY <1>1, <1>3, <2>1, LastWordSaid
<1>4. CASE m.route # q
  <2>1. reg'[n][q] = reg[n][q] /\ LastWord(flight[n], reg[n][q], Offset[n], q, t)
    BY <1>1, <1>4, Replicated DEF Lasts
  <2>2. CASE flight'[n] = flight[n]
    BY <2>1, <2>2
  <2>3. CASE flight'[n] = Append(flight[n], m)
    <3>1. LastWord(Append(flight[n], m), reg[n][q], Offset[n], q, t)
      BY <1>1, <1>4, <2>1, LastWordKept
    <3> QED BY <2>1, <2>3, <3>1
  <2> QED BY <1>1, <2>2, <2>3, Replicated
<1> QED BY <1>2, <1>3, <1>4


(* A route leaves sess["routes"] or the session leaves, if anything does.  *)
LEMMA AllowedKept ==
  ASSUME TypeOK, AwayCounts, away' = away,
         \A r \in Route : r \notin attached' =>
            gone'[r] = 0 \/ (r \notin attached /\ gone'[r] = gone[r])
  PROVE  \A r \in Route, e \in Int :
           Allowed(r, e) => AllowedIn(attached', gone', inTable', away', r, e)
<1> SUFFICES ASSUME NEW r \in Route, NEW e \in Int, Allowed(r, e)
             PROVE  AllowedIn(attached', gone', inTable', away', r, e)
  OBVIOUS
<1>1. away \in Nat /\ gone[r] \in Nat /\ Lease \in Nat /\ PassBound \in Nat
  BY Offsets DEF TypeOK
<1>2. r \notin attached' => e + gone'[r] <= Lease + PassBound
  BY <1>1 DEF Allowed, AllowedIn
<1>3. ~inTable' => e + away' <= Lease
  BY <1>1 DEF Allowed, AllowedIn, AwayCounts
<1> QED BY <1>2, <1>3 DEF Allowed, AllowedIn

LEMMA PassingKept ==
  ASSUME TypeOK, Passing, passAge' = passAge,
         \A p \in Pass : todo'[p] \subseteq todo[p],
         \A p \in Pass : pass[p] = "registering" => pass'[p] = "registering",
         \A r \in Route : r \notin attached' =>
            gone'[r] = 0 \/ (r \notin attached /\ gone'[r] = gone[r])
  PROVE  Passing'
<1> SUFFICES ASSUME NEW p \in Pass, NEW r \in todo'[p]
             PROVE  pass'[p] = "registering" /\ (r \notin attached' => gone'[r] <= passAge[p])
  BY DEF Passing
<1>1. r \in todo[p] /\ r \in Route /\ passAge[p] \in Nat
  BY Offsets DEF TypeOK
<1>2. pass[p] = "registering" /\ (r \notin attached => gone[r] <= passAge[p])
  BY <1>1 DEF Passing
<1> QED BY <1>1, <1>2

LEMMA CoveredDisturbed == ASSUME TypeOK', calm' = 0 PROVE Covered'
<1>1. \A r \in attached' : left'[r] \in Int /\ left'[r] <= Lease
  BY Offsets DEF TypeOK
<1> QED BY <1>1, Offsets DEF Covered

LEMMA CoveredStill ==
  ASSUME TypeOK, Covered, UNCHANGED <<mesh, members, links>>, client' = "open" => client = "open",
         \A q \in attached' : q \in attached /\ left'[q] = left[q]
  PROVE  Covered'
<1>1. \A q : Targets(q)' = Targets(q)
  BY DEF Targets
<1>2. \A n, q, t : LastWord(flight[n], reg[n][q], Offset[n], q, t)
        <=> LastWord(flight'[n], reg'[n][q], Offset[n], q, t)
  BY DEF mesh
<1> QED BY <1>1, <1>2 DEF Covered, Lasts, mesh

(* After a message was made, with all its targets told or the mesh upset.  *)
LEMMA CoveredAfter ==
  ASSUME TypeOK, TypeOK', Covered, NEW m \in Message, m.type = "ROUTE_REGISTER" => m.left = Lease,
         Replicate(m), UNCHANGED <<members, links>>,
         client' = "open" => client = "open",
         client' = "open" => \A q \in attached' :
            /\ m.route = q => m.type = "ROUTE_REGISTER"
            /\ m.route # q => q \in attached /\ left'[q] = left[q]
  PROVE  Covered'
<1> SUFFICES ASSUME NEW q \in attached', client' = "open", left'[q] > 0, left'[q] + calm' > Lease,
                    NEW n \in Targets(q)
             PROVE  LastWord(flight'[n], reg'[n][q], Offset[n], q, left'[q])
  BY DEF Covered, Targets, Lasts
<1>1. /\ q \in Route /\ left'[q] \in Int /\ left'[q] <= Lease /\ calm' \in Int
      /\ Lease \in Nat /\ Offset[n] \in Int
  <2>1. n \in Node
    BY TargetsAreNodes
  <2> QED BY <2>1, Offsets DEF TypeOK
<1>2. calm' # 0
  BY <1>1
<1>3. calm' = calm
  BY <1>2, Replicated
<1>4. m.route # q => Lasts(n, q, left'[q])
  BY <1>3 DEF Covered
<1> QED BY <1>1, <1>2, <1>4, ReplicateCovers

LEMMA RepInit == Init => RepInv
<1> SUFFICES ASSUME Init PROVE RepInv
  OBVIOUS
<1> USE ReplicationAssumption
<1>1. TypeOK
  <2>1. <<>> \in Seq(Message)
    OBVIOUS
  <2>2. flight \in [Node -> Seq(Message)] /\ flight[Home] = <<>>
    BY <2>1 DEF Init
  <2> QED BY <2>2 DEF Init, TypeOK, Views, GhostLimit, AwayLimit
<1>2. Expiring
  <2>1. \A n \in Node : 1 .. Len(flight[n]) = {}
    BY DEF Init
  <2> QED BY <2>1 DEF Init, Expiring
<1> QED
  BY <1>1, <1>2 DEF Init, RepInv, Passing, AwayCounts, Covered

-----------------------------------------------------------------------------
(* One lemma per kind of step.                                             *)

LEMMA AttachKeeps ==
  ASSUME RepInv, NEW r \in Route, Attach(r) PROVE RepInv'
<1> USE DEF RepInv
<1>1. /\ attached' = attached \cup {r} /\ left' = [left EXCEPT ![r] = Lease]
      /\ gone' = [gone EXCEPT ![r] = 0] /\ Replicate(Register(r)) /\ inTable
      /\ UNCHANGED <<members, links, client, inTable, toRemove, away, pass, todo, passAge>>
  BY DEF Attach, Announce, passes
<1>2. /\ Register(r) \in Message /\ Register(r).route = r /\ Register(r).left = Lease
      /\ Register(r).type = "ROUTE_REGISTER"
  BY Made
<1>3. \A q \in Route : q \notin attached' => q \notin attached /\ gone'[q] = gone[q]
  BY <1>1 DEF TypeOK
<1>4. TypeOK'
  <2>1. /\ flight' \in [Node -> Seq(Message)] /\ flight'[Home] = <<>>
        /\ reg' \in [Node -> [Route -> 0 .. Lease + Skew]] /\ calm' \in 0 .. Lease
    BY <1>1, <1>2, Replicated
  <2>2. left' \in [Route -> 0 .. Lease] /\ gone' \in [Route -> 0 .. GhostLimit]
    BY <1>1, Offsets DEF TypeOK
  <2> QED BY <1>1, <2>1, <2>2 DEF TypeOK, Views
<1>5. Expiring'
  <2>1. AllowedIn(attached', gone', inTable', away', r, Lease)
    BY <1>1, Offsets DEF AllowedIn
  <2>2. \A q \in Route, e \in Int :
          Allowed(q, e) => AllowedIn(attached', gone', inTable', away', q, e)
    BY <1>1, <1>3, AllowedKept
  <2> QED BY <1>1, <1>2, <2>1, <2>2, ReplicateExpires
<1>6. Passing' /\ AwayCounts'
  BY <1>1, <1>3, PassingKept DEF AwayCounts
<1>7. Covered'
  <2>1. \A q \in attached' : q # r => q \in attached /\ left'[q] = left[q]
    BY <1>1 DEF TypeOK
  <2> QED BY <1>1, <1>2, <1>4, <2>1, CoveredAfter
<1> QED BY <1>4, <1>5, <1>6, <1>7

(* The routes rs leave sess["routes"], and at most one is withdrawn.       *)
LEMMA LeavingKeeps ==
  ASSUME RepInv, NEW rs \in SUBSET Route, Unattach(rs),
         members' = members, links' = links, away' = away,
         client' \in {"open", "closing", "closed"}, client' = "open" => client = "open",
         inTable' \in BOOLEAN, inTable' => inTable, toRemove' = toRemove, UNCHANGED passes,
         UNCHANGED mesh \/ \E r \in rs : Replicate(Remove(r))
  PROVE  RepInv'
<1> USE DEF RepInv
<1>1. /\ attached' = attached \ rs
      /\ left' = [r \in Route |-> IF r \in rs THEN 0 ELSE left[r]]
      /\ gone' = [r \in Route |-> IF r \in rs \cap attached THEN 0 ELSE gone[r]]
      /\ pass' = pass /\ todo' = todo /\ passAge' = passAge
  BY DEF Unattach, passes
<1>2. \A q \in Route : q \notin attached' => gone'[q] = 0 \/ (q \notin attached /\ gone'[q] = gone[q])
  BY <1>1
<1>3. \A q \in Route, e \in Int :
        Allowed(q, e) => AllowedIn(attached', gone', inTable', away', q, e)
  BY <1>2, AllowedKept
<1>4. \A q \in attached' : q \in attached /\ q \notin rs /\ left'[q] = left[q]
  BY <1>1 DEF TypeOK
<1>5. left' \in [Route -> 0 .. Lease] /\ gone' \in [Route -> 0 .. GhostLimit]
  BY <1>1, Offsets DEF TypeOK
<1>6. Passing' /\ AwayCounts'
  BY <1>1, <1>2, PassingKept DEF AwayCounts
<1>7. CASE UNCHANGED mesh
  <2>1. flight' = flight /\ reg' = reg /\ calm' = calm
    BY <1>7 DEF mesh
  <2>2. TypeOK'
    BY <1>1, <1>5, <2>1 DEF TypeOK, Views
  <2>3. Expiring'
    BY <1>3, <2>1, DropExpires
  <2>4. Covered'
    BY <1>4, <1>7, CoveredStill
  <2> QED BY <1>6, <2>2, <2>3, <2>4
<1>8. ASSUME NEW r \in rs, Replicate(Remove(r)) PROVE RepInv'
  <2>1. Remove(r) \in Message /\ Remove(r).route = r /\ Remove(r).type # "ROUTE_REGISTER"
    BY Made
  <2>2. TypeOK'
    <3>1. /\ flight' \in [Node -> Seq(Message)] /\ flight'[Home] = <<>>
          /\ reg' \in [Node -> [Route -> 0 .. Lease + Skew]] /\ calm' \in 0 .. Lease
      BY <1>8, <2>1, Replicated
    <3> QED BY <1>1, <1>5, <3>1 DEF TypeOK, Views
  <2>3. Expiring'
    BY <1>3, <1>8, <2>1, ReplicateExpires
  <2>4. Covered'
    BY <1>4, <1>8, <2>1, <2>2, CoveredAfter
  <2> QED BY <1>6, <2>2, <2>3, <2>4
<1> QED BY <1>7, <1>8

LEMMA CloseWithdrawsKeeps ==
  ASSUME RepInv, NEW r \in Route, CloseWithdraws(r) PROVE RepInv'
<1> USE DEF RepInv
<1>1. /\ Replicate(Remove(r)) /\ client = "closing" /\ toRemove' = toRemove \ {r}
      /\ UNCHANGED <<members, links, client, inTable, attached, left, gone, away, pass, todo, passAge>>
  BY DEF CloseWithdraws, Withdraw, passes
<1>2. Remove(r) \in Message /\ Remove(r).route = r /\ Remove(r).type # "ROUTE_REGISTER"
  BY Made
<1>3. TypeOK'
  <2>1. /\ flight' \in [Node -> Seq(Message)] /\ flight'[Home] = <<>>
        /\ reg' \in [Node -> [Route -> 0 .. Lease + Skew]] /\ calm' \in 0 .. Lease
    BY <1>1, <1>2, Replicated
  <2> QED BY <1>1, <2>1 DEF TypeOK, Views
<1>4. Expiring'
  <2>1. \A q \in Route, e \in Int :
          Allowed(q, e) => AllowedIn(attached', gone', inTable', away', q, e)
    BY <1>1, AllowedKept
  <2> QED BY <1>1, <1>2, <2>1, ReplicateExpires
<1>5. Passing' /\ AwayCounts' /\ Covered'
  BY <1>1, PassingKept DEF AwayCounts, Covered
<1> QED BY <1>3, <1>4, <1>5

(* Links, members or passes change, or descriptors are dropped.            *)
LEMMA DisturbanceKeeps ==
  ASSUME RepInv, UNCHANGED <<local, todo, passAge, flight>>,
         members' \in Views, links' \subseteq Peer, calm' = 0,
         pass' \in [Pass -> {"idle", "begun", "registering"}],
         \A p \in Pass : pass[p] = "registering" => pass'[p] = "registering",
         reg' \in [Node -> [Route -> 0 .. Lease + Skew]],
         \A n \in Node, r \in Route : reg'[n][r] \in {reg[n][r], 0}
  PROVE  RepInv'
<1> USE DEF RepInv
<1>1. UNCHANGED <<client, inTable, attached, left, toRemove, gone, away, todo, passAge, flight>>
  BY DEF local
<1>2. TypeOK'
  BY <1>1, Offsets DEF TypeOK
<1>3. Expiring'
  BY <1>1, AllowedKept, DropExpires
<1>4. Passing' /\ AwayCounts'
  BY <1>1, PassingKept DEF AwayCounts
<1> QED BY <1>2, <1>3, <1>4, CoveredDisturbed

LEMMA PassRegistersKeeps ==
  ASSUME RepInv, NEW p \in Pass, NEW r \in Route, PassRegisters(p, r) PROVE RepInv'
<1> USE DEF RepInv
<1>1. /\ todo' = [todo EXCEPT ![p] = @ \ {r}] /\ r \in todo[p]
      /\ UNCHANGED <<members, links, client, inTable, attached, left, toRemove, gone, away, pass, passAge>>
  BY DEF PassRegisters, local
<1>2. Passing' /\ AwayCounts'
  <2>1. \A k \in Pass : todo'[k] \subseteq todo[k]
    BY <1>1 DEF TypeOK
  <2> QED BY <1>1, <2>1, PassingKept DEF AwayCounts
<1>3. \A q \in Route, e \in Int :
        Allowed(q, e) => AllowedIn(attached', gone', inTable', away', q, e)
  BY <1>1, AllowedKept
<1>4. todo' \in [Pass -> SUBSET Route]
  BY <1>1 DEF TypeOK
<1>5. CASE UNCHANGED mesh
  <2>1. flight' = flight /\ reg' = reg /\ calm' = calm
    BY <1>5 DEF mesh
  <2>2. TypeOK'
    BY <1>1, <1>4, <2>1 DEF TypeOK, Views
  <2>3. Expiring'
    BY <1>3, <2>1, DropExpires
  <2>4. Covered'
    BY <1>1, <1>5, CoveredStill
  <2> QED BY <1>2, <2>2, <2>3, <2>4
<1>6. CASE inTable /\ Replicate(Register(r))
  <2>1. /\ Register(r) \in Message /\ Register(r).route = r /\ Register(r).left = Lease
        /\ Register(r).type = "ROUTE_REGISTER"
    BY Made
  <2>2. TypeOK'
    <3>1. /\ flight' \in [Node -> Seq(Message)] /\ flight'[Home] = <<>>
          /\ reg' \in [Node -> [Route -> 0 .. Lease + Skew]] /\ calm' \in 0 .. Lease
      BY <1>6, <2>1, Replicated
    <3> QED BY <1>1, <1>4, <3>1 DEF TypeOK, Views
  <2>3. AllowedIn(attached', gone', inTable', away', r, Lease)
    <3>1. r \notin attached => gone[r] <= passAge[p]
      BY <1>1 DEF Passing
    <3>2. passAge[p] \in Int /\ passAge[p] <= PassBound /\ gone[r] \in Int
          /\ Lease \in Int /\ PassBound \in Int
      BY Offsets DEF TypeOK
    <3> QED BY <1>1, <1>6, <3>1, <3>2 DEF AllowedIn
  <2>4. Expiring'
    BY <1>3, <1>6, <2>1, <2>3, ReplicateExpires
  <2>5. Covered'
    BY <1>1, <1>6, <2>1, <2>2, CoveredAfter
  <2> QED BY <1>2, <2>2, <2>4, <2>5
<1> QED BY <1>5, <1>6 DEF PassRegisters, Announce, PassMayAnnounce

LEMMA HandleKeeps ==
  ASSUME RepInv, NEW k \in Peer, Handle(k) PROVE RepInv'
<1> USE DEF RepInv
<1> DEFINE m == Head(flight[k])
<1>1. /\ flight[k] # <<>> /\ flight' = [flight EXCEPT ![k] = Tail(@)]
      /\ m.type = "ROUTE_REGISTER" => Current(k, m)
      /\ reg' = [reg EXCEPT ![k][m.route] = Entry(k, m)] /\ calm' = calm
      /\ UNCHANGED <<members, links, client, inTable, attached, left, toRemove, gone, away,
                     pass, todo, passAge>>
  BY DEF Handle, local, passes
<1>2. k \in Node /\ k # Home
  BY DEF Peer
<1>3. /\ Expiring' /\ flight' \in [Node -> Seq(Message)]
      /\ reg' \in [Node -> [Route -> 0 .. Lease + Skew]]
  BY <1>1, <1>2, ReadExpires
<1>4. TypeOK'
  <2>1. flight'[Home] = <<>>
    BY <1>1, <1>2, ReplicationAssumption DEF TypeOK
  <2> QED BY <1>1, <1>3, <2>1 DEF TypeOK, Views
<1>5. Passing' /\ AwayCounts'
  BY <1>1, PassingKept DEF AwayCounts
<1>6. /\ m \in Message /\ m.route \in Route /\ m.left \in Int /\ Entry(k, m) \in Int
      /\ m.type = "ROUTE_REGISTER" => Entry(k, m) + Offset[k] >= m.left
  <2>1. m \in Message
    BY <1>1, <1>2, Shortened DEF TypeOK
  <2>2. m.route \in Route /\ m.left \in Int /\ Offset[k] \in Int
    BY <1>2, <2>1, MessageParts, Offsets
  <2> QED BY <2>1, <2>2 DEF Entry
<1>7. Covered'
  <2> SUFFICES ASSUME NEW q \in attached, client = "open", left[q] > 0, left[q] + calm > Lease,
                      NEW n \in Targets(q)
               PROVE  LastWord(flight'[n], reg'[n][q], Offset[n], q, left[q])
    BY <1>1 DEF Covered, Targets, Lasts
  <2>1. /\ n \in Node /\ q \in Route /\ left[q] \in Int /\ reg[n][q] \in Int /\ Offset[n] \in Int
        /\ reg'[n][q] \in Int /\ flight[n] \in Seq(Message)
    <3>1. n \in Node
      BY TargetsAreNodes
    <3> QED BY <1>3, <3>1, Offsets DEF TypeOK
  <2>2. LastWord(flight[n], reg[n][q], Offset[n], q, left[q])
    BY DEF Covered, Lasts
  <2>3. \A i \in Node, r \in Route :
          reg'[i][r] = IF i = k /\ r = m.route THEN Entry(k, m) ELSE reg[i][r]
    <3> DEFINE e == Entry(k, m)
           S == Int
    <3> HIDE DEF e, S
    <3>1. reg \in [Node -> [Route -> S]] /\ e \in S
      BY <1>6, Offsets DEF TypeOK, e, S
    <3>2. \A i \in Node, r \in Route :
            [reg EXCEPT ![k][m.route] = e][i][r] = IF i = k /\ r = m.route THEN e ELSE reg[i][r]
      BY <1>2, <1>6, <3>1, OneEntry
    <3> QED BY <1>1, <3>2 DEF e
  <2>4. CASE n # k
    <3>1. flight'[n] = flight[n] /\ reg'[n][q] = reg[n][q]
      BY <1>1, <2>1, <2>3, <2>4 DEF TypeOK
    <3> QED BY <2>2, <3>1
  <2>5. CASE n = k
    <3>1. flight'[n] = Tail(flight[n])
      BY <1>1, <1>2, <2>5 DEF TypeOK
    <3>2. m.route # q => reg'[n][q] = reg[n][q]
      BY <2>1, <2>3
    <3>3. m.route = q /\ m.type = "ROUTE_REGISTER" => reg'[n][q] + Offset[n] >= m.left
      BY <1>6, <2>1, <2>3, <2>5
    <3> HIDE DEF m
    <3>4. flight[n] # <<>> /\ m = Head(flight[n])
      BY <1>1, <2>5 DEF m
    <3> QED BY <2>1, <2>2, <3>1, <3>2, <3>3, <3>4, LastWordRead
  <2> QED BY <2>4, <2>5
<1> QED BY <1>3, <1>4, <1>5, <1>7

LEMMA MissKeeps ==
  ASSUME RepInv, NEW k \in Peer, Miss(k) PROVE RepInv'
<1> USE DEF RepInv
<1>1. /\ flight[k] # <<>> /\ flight' = [flight EXCEPT ![k] = Tail(@)] /\ reg' = reg /\ calm' = 0
      /\ UNCHANGED <<members, links, client, inTable, attached, left, toRemove, gone, away,
                     pass, todo, passAge>>
  BY DEF Miss, local, passes
<1>2. k \in Node /\ k # Home
  BY DEF Peer
<1>3. /\ Expiring' /\ flight' \in [Node -> Seq(Message)]
      /\ reg' \in [Node -> [Route -> 0 .. Lease + Skew]]
  BY <1>1, <1>2, ReadExpires
<1>4. TypeOK'
  <2>1. flight'[Home] = <<>>
    BY <1>1, <1>2, ReplicationAssumption DEF TypeOK
  <2> QED BY <1>1, <1>3, <2>1, Offsets DEF TypeOK, Views
<1>5. Passing' /\ AwayCounts'
  BY <1>1, PassingKept DEF AwayCounts
<1> QED BY <1>1, <1>3, <1>4, <1>5, CoveredDisturbed

LEMMA Aged ==
  ASSUME NEW q \in Seq(Message), NEW n
  PROVE  LET b == [i \in 1 .. Len(q) |-> Later(n, q[i])]
         IN  Len(b) = Len(q) /\ \A i \in 1 .. Len(q) : b[i] = Later(n, q[i])
  OBVIOUS

LEMMA TickKeeps == ASSUME RepInv, Tick PROVE RepInv'
<1> USE DEF RepInv
<1>1. /\ \A p \in Pass : pass[p] = "registering" => passAge[p] < PassBound
      /\ left' = [r \in Route |-> Less1(left[r])]
      /\ flight' = [n \in Node |-> [i \in 1 .. Len(flight[n]) |-> Later(n, flight[n][i])]]
      /\ reg' = [n \in Node |-> [r \in Route |-> Less1(reg[n][r])]]
      /\ gone' = [r \in Route |-> IF r \in attached THEN gone[r] ELSE More1(gone[r], GhostLimit)]
      /\ away' = IF inTable THEN 0 ELSE More1(away, AwayLimit)
      /\ passAge' = [p \in Pass |-> IF pass[p] = "registering" THEN passAge[p] + 1 ELSE 0]
      /\ calm' = More1(calm, Lease)
      /\ UNCHANGED <<members, links, client, inTable, attached, toRemove, pass, todo>>
  BY DEF Tick
<1>2. /\ \A n \in Node, r \in Route : reg[n][r] \in 0 .. Lease + Skew /\ reg'[n][r] = Less1(reg[n][r])
      /\ \A r \in Route : left[r] \in 0 .. Lease /\ left'[r] = Less1(left[r])
      /\ Lease \in Nat /\ Skew \in Nat /\ PassBound \in Nat /\ Drift \in Nat
      /\ GhostLimit \in Nat /\ AwayLimit \in Nat
  BY <1>1, Offsets DEF TypeOK
<1>3. \A r \in Route : /\ gone[r] \in 0 .. GhostLimit /\ gone'[r] \in 0 .. GhostLimit
                       /\ gone'[r] <= gone[r] + 1
  BY <1>1, <1>2 DEF TypeOK, More1
<1>4. /\ away \in 0 .. AwayLimit /\ away' \in 0 .. AwayLimit /\ away' <= away + 1
      /\ calm \in 0 .. Lease /\ calm' \in 0 .. Lease /\ calm' <= calm + 1
  BY <1>1, <1>2 DEF TypeOK, More1
<1>5. \A n \in Node : /\ flight[n] \in Seq(Message) /\ Len(flight[n]) \in Nat
                      /\ flight'[n] = [i \in 1 .. Len(flight[n]) |-> Later(n, flight[n][i])]
                      /\ \A i \in 1 .. Len(flight[n]) : flight[n][i] \in Message
                      /\ Len(flight'[n]) = Len(flight[n])
                      /\ \A i \in 1 .. Len(flight[n]) : flight'[n][i] = Later(n, flight[n][i])
  <2> SUFFICES ASSUME NEW n \in Node PROVE <1>5!(n)
    OBVIOUS
  <2>1. flight[n] \in Seq(Message)
    BY DEF TypeOK
  <2>2. flight'[n] = [i \in 1 .. Len(flight[n]) |-> Later(n, flight[n][i])]
    BY <1>1
  <2>3. Len(flight[n]) \in Nat /\ \A i \in 1 .. Len(flight[n]) : flight[n][i] \in Message
    BY <2>1
  <2> QED BY <2>1, <2>2, <2>3, Aged
<1>6. ASSUME NEW n \in Node, NEW m \in Message
      PROVE  /\ Later(n, m) \in Message /\ Later(n, m).route = m.route
             /\ Fresh(n, Later(n, m)) => Fresh(n, m) /\ Later(n, m).left = m.left - 1
  <2>1. /\ m.left \in Int /\ -(Drift + Skew) <= m.left /\ m.left <= Lease /\ m.route \in Route
        /\ m.type \in {"ROUTE_REGISTER", "ROUTE_REMOVE"}
        /\ Offset[n] \in Int /\ -Drift <= Offset[n]
    BY MessageParts, Offsets
  <2>2. CASE Fresh(n, m)
    <3>1. Later(n, m) = [type |-> m.type, route |-> m.route, left |-> m.left - 1]
      BY <2>2 DEF Later, Fresh
    <3>2. m.left - 1 \in -(Drift + Skew) .. Lease
      BY <1>2, <2>1, <2>2 DEF Fresh
    <3> QED BY <2>1, <2>2, <3>1, <3>2 DEF Message
  <2>3. CASE ~Fresh(n, m)
    BY <2>3 DEF Later, Fresh
  <2> QED BY <2>2, <2>3
<1>7. TypeOK'
  <2>1. left' \in [Route -> 0 .. Lease] /\ reg' \in [Node -> [Route -> 0 .. Lease + Skew]]
    BY <1>1, <1>2 DEF Less1
  <2>2. gone' \in [Route -> 0 .. GhostLimit]
    <3> DEFINE next(r) == IF r \in attached THEN gone[r] ELSE More1(gone[r], GhostLimit)
    <3>1. gone' = [r \in Route |-> next(r)]
      BY <1>1
    <3> HIDE DEF next
    <3> QED BY <1>3, <3>1
  <2>3. passAge' \in [Pass -> 0 .. PassBound]
    <3>1. \A p \in Pass : passAge[p] \in 0 .. PassBound
      BY DEF TypeOK
    <3> DEFINE next(p) == IF pass[p] = "registering" THEN passAge[p] + 1 ELSE 0
    <3>2. \A p \in Pass : next(p) \in 0 .. PassBound
      BY <1>1, <1>2, <3>1
    <3>3. passAge' = [p \in Pass |-> next(p)]
      BY <1>1
    <3> HIDE DEF next
    <3> QED BY <3>2, <3>3
  <2>4. flight' \in [Node -> Seq(Message)] /\ flight'[Home] = <<>>
    <3>1. ASSUME NEW n \in Node PROVE flight'[n] \in Seq(Message)
      <4> DEFINE f(i) == Later(n, flight[n][i])
      <4>1. \A i \in 1 .. Len(flight[n]) : f(i) \in Message
        BY <1>5, <1>6
      <4>2. flight'[n] = [i \in 1 .. Len(flight[n]) |-> f(i)]
        BY <1>5
      <4> HIDE DEF f
      <4> QED BY <1>5, <4>1, <4>2
    <3>2. flight' \in [Node -> Seq(Message)]
      BY <1>1, <3>1
    <3>3. Home \in Node /\ Len(flight[Home]) = 0
      BY ReplicationAssumption DEF TypeOK
    <3>4. flight'[Home] \in Seq(Message) /\ Len(flight'[Home]) = 0
      BY <1>5, <3>1, <3>3
    <3> QED BY <3>2, <3>4
  <2> QED BY <1>1, <1>4, <2>1, <2>2, <2>3, <2>4 DEF TypeOK, Views
<1>8. ASSUME NEW r \in Route, NEW e \in Int, Allowed(r, e)
      PROVE  AllowedIn(attached', gone', inTable', away', r, e - 1)
  BY <1>1, <1>2, <1>3, <1>4, <1>8 DEF Allowed, AllowedIn
<1>9. Expiring'
  <2>1. ASSUME NEW n \in Node, NEW r \in Route, reg'[n][r] > 0
        PROVE  AllowedIn(attached', gone', inTable', away', r, reg'[n][r] + Offset[n])
    <3>1. reg[n][r] > 0 /\ reg'[n][r] = reg[n][r] - 1 /\ reg[n][r] \in Int /\ Offset[n] \in Int
      BY <1>2, <2>1, Offsets DEF Less1
    <3>2. Allowed(r, reg[n][r] + Offset[n])
      BY <3>1 DEF Expiring
    <3>3. /\ reg[n][r] + Offset[n] \in Int
          /\ (reg[n][r] + Offset[n]) - 1 = reg'[n][r] + Offset[n]
      BY <3>1
    <3> HIDE <3>1
    <3>4. AllowedIn(attached', gone', inTable', away', r, (reg[n][r] + Offset[n]) - 1)
      BY <1>8, <3>2, <3>3
    <3> QED BY <3>3, <3>4
  <2>2. ASSUME NEW n \in Node, NEW i \in 1 .. Len(flight'[n]), Fresh(n, flight'[n][i])
        PROVE  AllowedIn(attached', gone', inTable', away', flight'[n][i].route, flight'[n][i].left)
    <3>1. i \in 1 .. Len(flight[n]) /\ flight'[n][i] = Later(n, flight[n][i])
      BY <1>5
    <3>2. flight[n][i] \in Message
      BY <1>5, <3>1
    <3>3. /\ Fresh(n, flight[n][i]) /\ flight'[n][i].left = flight[n][i].left - 1
          /\ flight'[n][i].route = flight[n][i].route
      BY <1>6, <2>2, <3>1, <3>2
    <3>4. Allowed(flight[n][i].route, flight[n][i].left)
      BY <3>1, <3>3 DEF Expiring
    <3>5. flight[n][i].route \in Route /\ flight[n][i].left \in Int
      BY <3>2, MessageParts
    <3>6. AllowedIn(attached', gone', inTable', away', flight[n][i].route, flight[n][i].left - 1)
      BY <1>8, <3>4, <3>5
    <3> QED BY <3>3, <3>6
  <2> QED BY <2>1, <2>2 DEF Expiring, Allowed, Fresh
<1>10. Passing'
  <2> SUFFICES ASSUME NEW p \in Pass, NEW r \in todo[p]
               PROVE  pass[p] = "registering" /\ (r \notin attached => gone'[r] <= passAge'[p])
    BY <1>1 DEF Passing
  <2>1. /\ r \in Route /\ pass[p] = "registering" /\ passAge[p] \in Int
        /\ r \notin attached => gone[r] <= passAge[p]
    BY DEF TypeOK, Passing
  <2>2. passAge'[p] = passAge[p] + 1
    BY <1>1, <2>1
  <2>3. gone[r] \in Int /\ gone'[r] \in Int /\ gone'[r] <= gone[r] + 1
    BY <1>3, <2>1
  <2> QED BY <2>1, <2>2, <2>3
<1>11. AwayCounts'
  BY <1>1 DEF AwayCounts
<1>12. Covered'
  <2> SUFFICES ASSUME NEW q \in attached, client = "open", left'[q] > 0, left'[q] + calm' > Lease,
                      NEW n \in Targets(q)
               PROVE  LastWord(flight'[n], reg'[n][q], Offset[n], q, left'[q])
    BY <1>1 DEF Covered, Targets, Lasts
  <2>1. n \in Node /\ q \in Route
    BY TargetsAreNodes DEF TypeOK
  <2>2. left[q] > 0 /\ left'[q] = left[q] - 1 /\ left[q] \in Int /\ left[q] + calm > Lease
    BY <1>2, <1>4, <2>1 DEF Less1
  <2>3. LastWord(flight[n], reg[n][q], Offset[n], q, left[q])
    BY <2>2 DEF Covered, Lasts
  <2>4. reg[n][q] \in Nat /\ flight[n] \in Seq(Message)
    BY <1>2, <2>1, Offsets DEF TypeOK
  <2>5. LastWord([i \in 1 .. Len(flight[n]) |-> Later(n, flight[n][i])], Less1(reg[n][q]),
                 Offset[n], q, left[q] - 1)
    BY <2>1, <2>2, <2>3, <2>4, LastWordAges
  <2>6. flight'[n] = [i \in 1 .. Len(flight[n]) |-> Later(n, flight[n][i])]
    BY <1>5, <2>1
  <2>7. reg'[n][q] = Less1(reg[n][q])
    BY <1>2, <2>1
  <2> QED BY <2>2, <2>5, <2>6, <2>7
<1> QED BY <1>7, <1>9, <1>10, <1>11, <1>12

LEMMA RepStep == RepInv /\ [Next]_vars => RepInv'
<1> SUFFICES ASSUME RepInv, [Next]_vars PROVE RepInv'
  OBVIOUS
<1> USE ReplicationAssumption
<1>1. ASSUME NEW r \in Route, Attach(r) PROVE RepInv'
  BY <1>1, AttachKeeps
<1>2. ASSUME NEW r \in Route, Detach(r) PROVE RepInv'
  <2>1. {r} \in SUBSET Route /\ r \in {r}
    OBVIOUS
  <2>2. /\ Unattach({r}) /\ Replicate(Remove(r)) /\ UNCHANGED passes
        /\ UNCHANGED <<members, links, client, inTable, toRemove, away>>
    BY <1>2 DEF Detach, Withdraw, passes
  <2>3. client' \in {"open", "closing", "closed"} /\ inTable' \in BOOLEAN
    BY <2>2 DEF RepInv, TypeOK
  <2> QED
    BY <2>1, <2>2, <2>3, LeavingKeeps
<1>3. ASSUME NEW r \in Route, CloseWithdraws(r) PROVE RepInv'
  BY <1>3, CloseWithdrawsKeeps
<1>4. ASSUME NEW r \in Route, Expire(r) PROVE RepInv'
  <2>1. {r} \in SUBSET Route
    OBVIOUS
  <2>2. /\ Unattach({r}) /\ UNCHANGED passes /\ UNCHANGED mesh
        /\ UNCHANGED <<members, links, client, inTable, toRemove, away>>
    BY <1>4 DEF Expire, passes, mesh
  <2>3. client' \in {"open", "closing", "closed"} /\ inTable' \in BOOLEAN
    BY <2>2 DEF RepInv, TypeOK
  <2> QED
    BY <2>1, <2>2, <2>3, LeavingKeeps
<1>5. CASE Close
  <2>1. /\ client' = "closing" /\ toRemove' = attached /\ flight' = flight /\ reg' = reg
        /\ UNCHANGED <<members, links, inTable, attached, left, gone, away, pass, todo, passAge, calm>>
    BY <1>5 DEF Close, passes, mesh
  <2>2. TypeOK'
    BY <2>1 DEF RepInv, TypeOK, Views
  <2>3. Expiring'
    BY <2>1, AllowedKept, DropExpires DEF RepInv
  <2> QED BY <2>1, <2>2, <2>3 DEF RepInv, Passing, AwayCounts, Covered
<1>6. CASE Closed \/ Prune
  <2>1. attached \in SUBSET Route
    BY DEF RepInv, TypeOK
  <2>2. /\ Unattach(attached) /\ UNCHANGED passes /\ UNCHANGED mesh
        /\ UNCHANGED <<members, links, toRemove, away>>
        /\ inTable' = FALSE /\ client' \in {client, "closed"}
    BY <1>6 DEF Closed, Prune, passes, mesh
  <2>3. client' \in {"open", "closing", "closed"} /\ inTable' \in BOOLEAN
        /\ (client' = "open" => client = "open")
    BY <2>2 DEF RepInv, TypeOK
  <2> QED
    BY <2>1, <2>2, <2>3, LeavingKeeps
<1>7. ASSUME NEW p \in Pass, NEW n \in Peer, NEW ms \in Views,
             LinkUp(p, n, ms) \/ LinkDown(p, n, ms)
      PROVE  RepInv'
  <2>1. PICK up \in SUBSET Peer : TopologyChanged(p, up, ms)
    <3>1. links \cup {n} \in SUBSET Peer /\ links \ {n} \in SUBSET Peer
      BY DEF RepInv, TypeOK
    <3> QED
      BY <1>7, <3>1 DEF LinkUp, LinkDown
  <2>2. /\ members' \in Views /\ links' \subseteq Peer /\ calm' = 0
        /\ UNCHANGED <<local, todo, passAge, flight>>
    BY <2>1 DEF TopologyChanged
  <2>3. /\ pass' \in [Pass -> {"idle", "begun", "registering"}]
        /\ \A k \in Pass : pass[k] = "registering" => pass'[k] = "registering"
    BY <2>1 DEF TopologyChanged, RepInv, TypeOK
  <2>4. reg' = [reg EXCEPT ![Home] =
                  [r \in Route |-> IF Home \in Owners(r, ms) THEN reg[Home][r] ELSE 0]]
    BY <2>1 DEF TopologyChanged
  <2>5. reg' \in [Node -> [Route -> 0 .. Lease + Skew]]
    BY <2>4 DEF RepInv, TypeOK
  <2>6. \A m \in Node, r \in Route : reg'[m][r] \in {reg[m][r], 0}
    BY <2>4 DEF RepInv, TypeOK
  <2> QED
    BY <2>2, <2>3, <2>5, <2>6, DisturbanceKeeps
<1>8. ASSUME NEW p \in Pass, PassCopies(p) \/ PassEnds(p) PROVE RepInv'
  <2>1. /\ pass' = [pass EXCEPT ![p] = IF pass[p] = "begun" THEN "registering" ELSE "idle"]
        /\ todo' = [todo EXCEPT ![p] = IF pass[p] = "begun" /\ inTable THEN attached ELSE {}]
        /\ passAge' = [passAge EXCEPT ![p] = 0]
        /\ UNCHANGED <<members, links, client, inTable, attached, left, toRemove, gone, away>>
        /\ UNCHANGED mesh
    <3>1. CASE PassCopies(p)
      BY <3>1 DEF PassCopies, local
    <3>2. CASE PassEnds(p)
      <4>1. todo = [todo EXCEPT ![p] = {}] /\ todo' = todo /\ pass[p] # "begun"
        BY <3>2 DEF PassEnds, RepInv, TypeOK
      <4> QED BY <3>2, <4>1 DEF PassEnds, local
    <3> QED BY <1>8, <3>1, <3>2
  <2>2. TypeOK'
    BY <2>1 DEF RepInv, TypeOK, Views, mesh
  <2>3. Passing'
    BY <2>1 DEF RepInv, TypeOK, Passing
  <2>4. Expiring'
    BY <2>1, AllowedKept, DropExpires DEF RepInv, mesh
  <2>5. Covered'
    BY <2>1, CoveredStill DEF RepInv
  <2> QED
    BY <2>1, <2>2, <2>3, <2>4, <2>5 DEF RepInv, AwayCounts
<1>10. ASSUME NEW p \in Pass, NEW r \in Route, PassRegisters(p, r) PROVE RepInv'
  BY <1>10, PassRegistersKeeps
<1>11. ASSUME NEW ms \in Views, Rehash(ms) PROVE RepInv'
  <2>1. /\ members' \in Views /\ calm' = 0 /\ links' = links /\ reg' = reg
        /\ UNCHANGED <<local, todo, passAge, flight>> /\ pass' = pass
    BY <1>11 DEF Rehash, passes
  <2>2. /\ links' \subseteq Peer /\ reg' \in [Node -> [Route -> 0 .. Lease + Skew]]
        /\ pass' \in [Pass -> {"idle", "begun", "registering"}]
        /\ \A n \in Node, r \in Route : reg'[n][r] \in {reg[n][r], 0}
    BY <2>1 DEF RepInv, TypeOK
  <2> QED
    BY <2>1, <2>2, DisturbanceKeeps
<1>12. ASSUME NEW n \in Peer, Handle(n) \/ Miss(n) PROVE RepInv'
  BY <1>12, HandleKeeps, MissKeeps
<1>13. ASSUME NEW n \in Peer, NEW rs \in SUBSET Route, PeerForgets(n, rs) PROVE RepInv'
  <2>1. /\ reg' = [reg EXCEPT ![n] = [r \in Route |-> IF r \in rs THEN 0 ELSE reg[n][r]]]
        /\ calm' = 0 /\ links' = links /\ members' = members
        /\ UNCHANGED <<local, todo, passAge, flight>> /\ pass' = pass
    BY <1>13 DEF PeerForgets, passes
  <2>2. /\ links' \subseteq Peer /\ reg' \in [Node -> [Route -> 0 .. Lease + Skew]]
        /\ members' \in Views /\ pass' \in [Pass -> {"idle", "begun", "registering"}]
    BY <2>1 DEF RepInv, TypeOK, Peer
  <2>3. \A m \in Node, r \in Route : reg'[m][r] \in {reg[m][r], 0}
    BY <2>1 DEF RepInv, TypeOK
  <2> QED
    BY <2>1, <2>2, <2>3, DisturbanceKeeps
<1>14. CASE Tick
  BY <1>14, TickKeeps
<1>15. CASE UNCHANGED vars
  <2>1. UNCHANGED mesh /\ UNCHANGED <<members, links, client, inTable, attached, left, toRemove,
                                      pass, todo, passAge, flight, reg, gone, away, calm>>
    BY <1>15 DEF vars, mesh
  <2>2. TypeOK'
    BY <2>1 DEF RepInv, TypeOK, Views
  <2>3. Expiring' /\ Covered'
    BY <2>1, AllowedKept, DropExpires, CoveredStill DEF RepInv
  <2> QED BY <2>1, <2>2, <2>3 DEF RepInv, Passing, AwayCounts
<1> QED
  BY <1>1, <1>2, <1>3, <1>4, <1>5, <1>6, <1>7, <1>8, <1>10, <1>11, <1>12, <1>13, <1>14, <1>15
  DEF Next

LEMMA RepAlways == Spec => []RepInv
  BY RepInit, RepStep, PTL DEF Spec

(* Every variable keeps its type, every message and every entry included:  *)
(* no descriptor is registered beyond a lease and the skew allowed for.    *)
THEOREM ReplicationTypes == Spec => []TypeOK
<1>1. RepInv => TypeOK
  BY DEF RepInv
<1> QED
  BY <1>1, RepAlways, PTL

(* No live descriptor outlives its attachment by more than a lease, the    *)
(* length of a topology pass and what the owner's clock is behind, however *)
(* long messages are under way and in whatever order tasks run.            *)
THEOREM ReplicationGhostBound == Spec => []GhostBound
<1>1. RepInv => GhostBound
  <2> SUFFICES ASSUME RepInv, NEW n \in Node, NEW r \in Route, r \notin attached, reg[n][r] > 0
               PROVE  gone[r] < Lease + PassBound - Offset[n]
    BY DEF GhostBound
  <2>1. reg[n][r] + Offset[n] + gone[r] <= Lease + PassBound
    BY DEF RepInv, Expiring, Allowed, AllowedIn
  <2>2. reg[n][r] \in Nat /\ gone[r] \in Nat /\ Lease \in Nat /\ PassBound \in Nat /\ Offset[n] \in Int
    BY Offsets DEF RepInv, TypeOK
  <2> QED
    BY <2>1, <2>2
<1> QED
  BY <1>1, RepAlways, PTL

(* No live descriptor outlives its session by more than a lease and what   *)
(* the owner's clock is behind: what was under way when the session left   *)
(* may arrive, but nothing is added to it.                                 *)
THEOREM ReplicationDepartedBound == Spec => []DepartedBound
<1>1. RepInv => DepartedBound
  <2> SUFFICES ASSUME RepInv, NEW n \in Node, NEW r \in Route, ~inTable, reg[n][r] > 0
               PROVE  away < Lease - Offset[n]
    BY DEF DepartedBound
  <2>1. reg[n][r] + Offset[n] + away <= Lease
    BY DEF RepInv, Expiring, Allowed, AllowedIn
  <2>2. reg[n][r] \in Nat /\ away \in Nat /\ Lease \in Nat /\ Offset[n] \in Int
    BY Offsets DEF RepInv, TypeOK
  <2> QED
    BY <2>1, <2>2
<1> QED
  BY <1>1, RepAlways, PTL

(* After a calm lease every running lease is registered at every owner     *)
(* that can be reached, or about to be, whatever was lost before.          *)
THEOREM ReplicationRenewalCovers == Spec => []RenewalCovers
<1>1. RepInv => RenewalCovers
  <2> SUFFICES ASSUME RepInv, client = "open", calm = Lease, NEW r \in attached, left[r] > 0,
                      NEW n \in Targets(r)
               PROVE  Lasts(n, r, left[r])
    BY DEF RenewalCovers
  <2>1. left[r] \in 0 .. Lease
    BY DEF RepInv, TypeOK
  <2>2. left[r] + calm > Lease
    BY <2>1, Offsets
  <2> QED
    BY <2>2 DEF RepInv, Covered
<1> QED
  BY <1>1, RepAlways, PTL

LEMMA LastWordShorter ==
  ASSUME NEW q \in Seq(Message), NEW e \in Int, NEW o \in Int, NEW r, NEW t \in Int, NEW u \in Int,
         u <= t, LastWord(q, e, o, r, t)
  PROVE  LastWord(q, e, o, r, u)
<1>1. \A i \in 1 .. Len(q) : q[i].left \in Int
  <2> SUFFICES ASSUME NEW i \in 1 .. Len(q) PROVE q[i].left \in Int
    OBVIOUS
  <2>1. q[i] \in Message
    OBVIOUS
  <2> QED BY <2>1, MessageParts
<1> QED BY <1>1 DEF LastWord

(* In a calm mesh with all its links, the node that knows the client is    *)
(* also an owner in every view that is one node behind or ahead of Home's. *)
LEMMA FoundNearby == RepInv => FoundFromNearViews
<1> SUFFICES ASSUME RepInv, client = "open", calm = Lease, links = Peer, Replicas > 1,
                    NEW r \in attached, left[r] > Drift, NEW ms \in NearViews
             PROVE  \E n \in Owners(r, ms) : Lasts(n, r, Offset[n] + 1)
  BY DEF FoundFromNearViews
<1>1. /\ r \in Route /\ left[r] \in Nat /\ members \in SUBSET Node /\ Home \in members
      /\ Lease \in Nat /\ ms \in SUBSET Node /\ ms # {} /\ Drift \in Nat /\ left[r] > 0
  BY ReplicationAssumption DEF RepInv, TypeOK, Views, NearViews
<1>2. Targets(r) = Owners(r, members)
  BY <1>1, ReplicationAssumption DEF Targets, Owners, Peer
<1>3. ASSUME NEW n \in Owners(r, members) PROVE Lasts(n, r, Offset[n] + 1)
  <2>1. LastWord(flight[n], reg[n][r], Offset[n], r, left[r])
    BY <1>1, <1>2 DEF RepInv, Covered, Lasts
  <2>2. n \in Node
    BY <1>1 DEF Owners
  <2>3. /\ flight[n] \in Seq(Message) /\ reg[n][r] \in Int /\ Offset[n] \in Int
        /\ Offset[n] + 1 <= left[r] /\ Offset[n] + 1 \in Int /\ left[r] \in Int
    BY <1>1, <2>2, Offsets DEF RepInv, TypeOK
  <2> QED BY <2>1, <2>3, LastWordShorter DEF Lasts
<1>4. PICK x : (members \ ms) \cup (ms \ members) = {x}
  <2> DEFINE D == (members \ ms) \cup (ms \ members)
  <2>1. D \in SUBSET Node /\ Cardinality(D) = 1
    BY <1>1 DEF NearViews
  <2>2. IsFiniteSet(D)
    BY <2>1, FS_Subset, RendezvousAssumption
  <2> HIDE DEF D
  <2>3. \E x : D = {x}
    BY <2>1, <2>2, FS_Singleton
  <2> QED BY <2>3 DEF D
<1>5. CASE x \in members
  <2>1. ms \subseteq members /\ members \subseteq ms \cup {x}
    BY <1>4, <1>5
  <2> QED BY <1>1, <1>3, <2>1, NearViewsShareOwner
<1>6. CASE x \notin members
  <2>1. members \subseteq ms /\ ms \subseteq members \cup {x} /\ members # {}
    BY <1>1, <1>4, <1>6
  <2> QED BY <1>1, <1>3, <2>1, NearViewsShareOwner
<1> QED BY <1>5, <1>6

(* THEOREM: with two replicas or more a calm mesh finds the client from    *)
(* every view of the members that differs from its node's by one node.     *)
THEOREM ReplicationFoundFromNearViews == Spec => []FoundFromNearViews
BY RepAlways, FoundNearby, PTL

-----------------------------------------------------------------------------
(* MeshNode: the client's node with its real membership.                   *)

(* Suspicion falls on peers only, so the node never leaves its own view.   *)
NodeInv == members \in Views /\ suspects \subseteq Peer

(* What _reconcile_membership may make of members and suspicions.          *)
LEMMA ReconcileKeepsHome ==
  ASSUME NodeInv, NEW up, NEW h, NEW v, NEW a, NEW sk \in SUBSET Peer, NEW sa,
         M!Reconcile(up, h, v, a, sk, sa)
  PROVE  NodeInv'
<1> DEFINE confirmed == M!Confirmed(up, h, v, a)
<1>1. confirmed \subseteq Peer
  BY DEF M!Confirmed, M!Candidates, M!Universe
<1>2. suspects' \subseteq Peer
  BY <1>1 DEF M!Reconcile, M!Suspected, M!Candidates, M!Universe
<1>3. \/ members' = members
      \/ \E expired \in SUBSET suspects' : members' = M!NextMembers(confirmed, expired)
  BY DEF M!Reconcile
<1> HIDE DEF confirmed
<1>4. members' \in Views
  BY <1>1, <1>2, <1>3, ReplicationAssumption DEF NodeInv, Views, M!NextMembers, Peer
<1> QED
  BY <1>2, <1>4 DEF NodeInv

LEMMA NodeInitial == NodeInit => NodeInv
BY ReplicationAssumption DEF NodeInit, Init, M!Init, NodeInv, Views

LEMMA NodeStep == NodeInv /\ [NodeNext]_<<vars, opinions>> => NodeInv'
<1> SUFFICES ASSUME NodeInv, [NodeNext]_<<vars, opinions>> PROVE NodeInv'
  OBVIOUS
<1>1. ASSUME NEW p \in Pass, NEW n \in Peer, NodeLinks(p, n) PROVE NodeInv'
  <2>1. CASE M!LinkUp(n)
    BY <2>1, ReconcileKeepsHome DEF M!LinkUp, NodeInv
  <2>2. CASE M!LinkDown(n)
    <3>1. suspects \cup {n} \in SUBSET Peer
      BY DEF NodeInv
    <3> QED BY <2>2, <3>1, ReconcileKeepsHome DEF M!LinkDown
  <2> QED BY <1>1, <2>1, <2>2 DEF NodeLinks
<1>2. CASE NodeRehash
  <2>1. CASE M!LoopWakes
    BY <2>1, ReconcileKeepsHome DEF M!LoopWakes, NodeInv
  <2>2. ASSUME NEW n \in Peer, NEW reported \in SUBSET Node, M!NodeState(n, reported)
        PROVE  NodeInv'
    BY <2>2, ReconcileKeepsHome DEF M!NodeState, NodeInv
  <2> QED BY <1>2, <2>1, <2>2 DEF NodeRehash
<1>3. CASE NodeClient
  BY <1>3 DEF NodeClient, Attach, Detach, CloseWithdraws, Expire, Close, Closed, Prune, PassCopies,
              PassEnds, PassRegisters, Handle, Miss, PeerForgets, opinions, NodeInv
<1>4. CASE M!LoopSleeps /\ UNCHANGED vars
  BY <1>4 DEF M!LoopSleeps, NodeInv
<1>5. CASE Tick /\ M!Tick
  BY <1>5 DEF M!Tick, NodeInv
<1>6. CASE UNCHANGED <<vars, opinions>>
  BY <1>6 DEF vars, opinions, NodeInv
<1> QED BY <1>1, <1>2, <1>3, <1>4, <1>5, <1>6 DEF NodeNext

LEMMA NodeAlways == NodeSpec => []NodeInv
BY NodeInitial, NodeStep, PTL DEF NodeSpec

(* A step of the composed node is a step of Replication.                   *)
LEMMA NodeReplicates == NodeInv' /\ [NodeNext]_<<vars, opinions>> => [Next]_vars
<1> SUFFICES ASSUME NodeInv', [NodeNext]_<<vars, opinions>> PROVE Next \/ UNCHANGED vars
  OBVIOUS
<1>0. members' \in Views
  BY DEF NodeInv
<1>1. ASSUME NEW p \in Pass, NEW n \in Peer, NodeLinks(p, n) PROVE Next
  <2>1. LinkUp(p, n, members') \/ LinkDown(p, n, members')
    BY <1>1 DEF NodeLinks
  <2> QED BY <1>0, <2>1 DEF Next
<1>2. CASE NodeRehash
  BY <1>0, <1>2 DEF NodeRehash, Next
<1>3. CASE NodeClient
  BY <1>3 DEF NodeClient, Next
<1>4. CASE M!LoopSleeps /\ UNCHANGED vars
  BY <1>4
<1>5. CASE Tick /\ M!Tick
  BY <1>5 DEF Next
<1>6. CASE UNCHANGED <<vars, opinions>>
  BY <1>6
<1> QED BY <1>1, <1>2, <1>3, <1>4, <1>5, <1>6 DEF NodeNext

(* THEOREM: the node whose members come from _reconcile_membership behaves *)
(* as Replication allows, which lets them change to any view with Home: so *)
(* everything proved of Replication is true of it.                         *)
THEOREM NodeImplementsReplication == NodeSpec => Spec
<1>1. NodeInit => Init
  BY DEF NodeInit
<1> QED BY <1>1, NodeAlways, NodeReplicates, PTL DEF NodeSpec, Spec

(* A step of the composed node is a step of Membership.                    *)
LEMMA NodeReconciles == [NodeNext]_<<vars, opinions>> => [M!Next]_(M!vars)
<1> SUFFICES ASSUME [NodeNext]_<<vars, opinions>> PROVE M!Next \/ UNCHANGED M!vars
  OBVIOUS
<1>0. M!Universe = Node
  BY ReplicationAssumption DEF M!Universe, Peer
<1>1. ASSUME NEW p \in Pass, NEW n \in Peer, NodeLinks(p, n) PROVE M!Next
  BY <1>1 DEF NodeLinks, M!Next
<1>2. CASE NodeRehash
  BY <1>0, <1>2 DEF NodeRehash, M!Next
<1>3. CASE NodeClient
  BY <1>3 DEF NodeClient, Attach, Detach, CloseWithdraws, Expire, Close, Closed, Prune, PassCopies,
              PassEnds, PassRegisters, Handle, Miss, PeerForgets, opinions, M!vars
<1>4. CASE M!LoopSleeps /\ UNCHANGED vars
  BY <1>4 DEF M!Next
<1>5. CASE Tick /\ M!Tick
  BY <1>5 DEF M!Next
<1>6. CASE UNCHANGED <<vars, opinions>>
  BY <1>6 DEF vars, opinions, M!vars
<1> QED BY <1>1, <1>2, <1>3, <1>4, <1>5, <1>6 DEF NodeNext

(* THEOREM: its members change exactly as Membership says, no matter what  *)
(* its client and its topology passes do.                                  *)
THEOREM NodeImplementsMembership == NodeSpec => M!Spec
<1>1. NodeInit => M!Init
  BY DEF NodeInit
<1> QED BY <1>1, NodeReconciles, PTL DEF NodeSpec, M!Spec

(* THEOREM: a client of a node with its real membership is found from      *)
(* near views, and however it leaves, closing and pruning included, its    *)
(* descriptors end in time, all the same.                                  *)
THEOREM NodeFinds ==
  NodeSpec => [](FoundFromNearViews /\ RenewalCovers /\ GhostBound /\ DepartedBound)
BY NodeImplementsReplication, ReplicationFoundFromNearViews, ReplicationRenewalCovers,
   ReplicationGhostBound, ReplicationDepartedBound, PTL

=============================================================================

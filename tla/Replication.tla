----------------------------- MODULE Replication -----------------------------
(***************************************************************************)
(* How the attachments of one client become descriptors at the nodes that  *)
(* own its routes: register_local_route, remove_local_route, _replicate    *)
(* and _topology_changed (app/node_mesh.py), driven by the v2 endpoint     *)
(* (app/v2.py) and the cleanup loop.  Home is the client's node.  Its      *)
(* membership and its links move as module Membership allows; the          *)
(* registries of the other nodes are reduced to the descriptors of this    *)
(* client.                                                                 *)
(*                                                                         *)
(* A message is made in one step and handled by the owner in a later one:  *)
(* in between it waits for the link's lock, is sent, crosses the network   *)
(* and waits to be read.  Messages to one node keep their order, also over *)
(* a lost link, since a node claims no new link before it is done with the *)
(* old one.  Any message may be lost or refused unless Lossy is FALSE.     *)
(*                                                                         *)
(* Every node has its own clock.  Time left is kept in place of expiresAt: *)
(* in a message by Home's clock, in a registry by that node's.  A          *)
(* descriptor that has expired in a registry is not told apart from none:  *)
(* discover and ROUTE_QUERY prune before they read.                        *)
(***************************************************************************)
EXTENDS Rendezvous, Sequences

CONSTANTS
  Home,       \* config.node_id of the client's node
  Pass,       \* topology passes that may be under way at a time
  Lease,      \* config.route_lease_seconds
  Skew,       \* config.node_mesh_max_clock_skew_seconds
  Offset,     \* each node's clock minus Home's
  Drift,      \* a bound on the offsets; no relation to Skew is assumed
  Room,       \* bound: messages under way to a node
  PassBound,  \* longest time from a pass's snapshot to its last registration
  Lossy       \* whether messages and remote descriptors may be lost

Peer == Node \ {Home}

ASSUME ReplicationAssumption ==
  /\ Home \in Node
  /\ Lease \in Nat \ {0} /\ PassBound \in Nat
  /\ Skew \in Nat /\ Drift \in Nat
  /\ Offset \in [Node -> -Drift .. Drift] /\ Offset[Home] = 0
  /\ Room \in Nat \ {0}
  /\ Lossy \in BOOLEAN

VARIABLES
  members,   \* _membership_nodes of Home
  links,     \* keys of connections at Home
  client,    \* the endpoint task: "open", "closing" or "closed"
  inTable,   \* the session is in hub.sessions
  attached,  \* sess["routes"]
  left,      \* time left of the local lease, not below 0
  toRemove,  \* routes the closing endpoint has yet to withdraw
  pass,      \* a _topology_changed call: "idle", "begun" or "registering"
  todo,      \* its copy of sess["routes"], less what it has registered
  passAge,   \* ticks since it took the copy
  flight,    \* messages under way from Home to a node, oldest first
  reg,       \* time left of the client's descriptor at a node, by the node's
             \* clock; 0 for one that has expired and for none
  gone,      \* history: ticks since a route was last attached
  away,      \* history: ticks since the session left hub.sessions
  calm       \* history: ticks since the mesh last changed or lost anything

vars == <<members, links, client, inTable, attached, left, toRemove,
          pass, todo, passAge, flight, reg, gone, away, calm>>

local == <<client, inTable, attached, left, toRemove, gone, away>>
passes == <<pass, todo, passAge>>
mesh == <<flight, reg, calm>>

(* Where the two history counters stop.                                    *)
GhostLimit == Lease + PassBound + Drift
AwayLimit == Lease + Drift

-----------------------------------------------------------------------------
(* Mutant: only the first choice of the ranking is told.                   *)
TargetsPrimary(r) ==
  {n \in Owners(r, members) \cap (links \cup {Home}) : Ahead(r, n, members) = {}}

(* _replicate: every owner that is Home itself or has a link.              *)
Targets(r) == Owners(r, members) \cap (links \cup {Home})

Message ==
  [type : {"ROUTE_REGISTER", "ROUTE_REMOVE"}, route : Route, left : -(Drift + Skew) .. Lease]

(* Mutant: the owner counts the lease from the arrival.                    *)
EntryFromArrival(n, m) == IF m.type = "ROUTE_REMOVE" THEN 0 ELSE Lease

(* What a message that n applies leaves in its registry.                   *)
Entry(n, m) ==
  IF m.type = "ROUTE_REMOVE" \/ m.left <= Offset[n] THEN 0 ELSE m.left - Offset[n]

(* _descriptor_is_current, by n's clock.                                   *)
Current(n, m) ==
  m.left - Offset[n] > -Skew /\ m.left - Offset[n] <= Lease + Skew

(* _replicate: Home applies the message at once, unless it is full or      *)
(* holds the session for another node's; the sends are left to gather.     *)
Replicate(m) ==
  LET told == Targets(m.route) \ {Home}
      own == Home \in Targets(m.route)
  IN  /\ \A n \in told : Len(flight[n]) < Room
      /\ flight' = [n \in Node |-> IF n \in told THEN Append(flight[n], m) ELSE flight[n]]
      /\ \/ /\ reg' = IF own THEN [reg EXCEPT ![Home][m.route] = Entry(Home, m)] ELSE reg
            /\ calm' = calm
         \/ /\ Lossy /\ own /\ m.type = "ROUTE_REGISTER"
            /\ reg' = reg
            /\ calm' = 0

Register(r) == [type |-> "ROUTE_REGISTER", route |-> r, left |-> Lease]
Remove(r) == [type |-> "ROUTE_REMOVE", route |-> r, left |-> 0]

(* Mutant: a route that is already attached is not announced again.        *)
AnnounceNew(r) ==
  IF r \in attached THEN UNCHANGED mesh ELSE Replicate(Register(r))

(* register_local_route for a session that has a descriptor.               *)
Announce(r) == Replicate(Register(r))

(* remove_local_route.                                                     *)
Withdraw(r) == Replicate(Remove(r))

(* Routes rs leave sess["routes"].                                         *)
Unattach(rs) ==
  /\ attached' = attached \ rs
  /\ left' = [r \in Route |-> IF r \in rs THEN 0 ELSE left[r]]
  /\ gone' = [r \in Route |-> IF r \in rs \cap attached THEN 0 ELSE gone[r]]

-----------------------------------------------------------------------------

Init ==
  /\ members = Node
  /\ links = {}
  /\ client = "open"
  /\ inTable = TRUE
  /\ attached = {}
  /\ left = [r \in Route |-> 0]
  /\ toRemove = {}
  /\ pass = [p \in Pass |-> "idle"]
  /\ todo = [p \in Pass |-> {}]
  /\ passAge = [p \in Pass |-> 0]
  /\ flight = [n \in Node |-> <<>>]
  /\ reg = [n \in Node |-> [r \in Route |-> 0]]
  /\ gone = [r \in Route |-> GhostLimit]
  /\ away = 0
  /\ calm = 0

(* ATTACH_ROUTE, for a new route or to renew its lease.                    *)
Attach(r) ==
  /\ client = "open" /\ inTable
  /\ attached' = attached \cup {r}
  /\ left' = [left EXCEPT ![r] = Lease]
  /\ gone' = [gone EXCEPT ![r] = 0]
  /\ Announce(r)
  /\ UNCHANGED <<members, links, client, inTable, toRemove, away, passes>>

(* DETACH_ROUTE.                                                           *)
Detach(r) ==
  /\ client = "open" /\ inTable
  /\ Unattach({r})
  /\ Withdraw(r)
  /\ UNCHANGED <<members, links, client, inTable, toRemove, away, passes>>

(* The endpoint's loop ends.  Its finally block withdraws what it finds    *)
(* attached, one route after the other; the session stays in the table.    *)
Close ==
  /\ client = "open"
  /\ client' = "closing"
  /\ toRemove' = attached
  /\ UNCHANGED <<members, links, inTable, attached, left, gone, away, passes, mesh>>

CloseWithdraws(r) ==
  /\ client = "closing" /\ r \in toRemove
  /\ toRemove' = toRemove \ {r}
  /\ Withdraw(r)
  /\ UNCHANGED <<members, links, client, inTable, attached, left, gone, away, passes>>

(* remove_session at the end of the finally block.                         *)
Closed ==
  /\ client = "closing" /\ toRemove = {}
  /\ client' = "closed"
  /\ inTable' = FALSE
  /\ Unattach(attached)
  /\ UNCHANGED <<members, links, toRemove, away, passes, mesh>>

(* prune_stale_sessions: the routes go and no owner is told.               *)
Prune ==
  /\ inTable
  /\ inTable' = FALSE
  /\ Unattach(attached)
  /\ UNCHANGED <<members, links, client, toRemove, away, passes, mesh>>

(* prune_routes: an expired lease goes and no owner is told.               *)
Expire(r) ==
  /\ r \in attached /\ left[r] = 0
  /\ Unattach({r})
  /\ UNCHANGED <<members, links, client, inTable, toRemove, away, passes, mesh>>

-----------------------------------------------------------------------------
(* Membership, links and topology passes at Home.                          *)

(* _topology_changed reconciles, which may change the members, and drops   *)
(* what Home no longer owns.                                               *)
TopologyChanged(p, up, ms) ==
  /\ pass[p] = "idle"
  /\ links' = up
  /\ members' = ms
  /\ pass' = [pass EXCEPT ![p] = "begun"]
  /\ reg' = [reg EXCEPT ![Home] =
               [r \in Route |-> IF Home \in Owners(r, ms) THEN @[r] ELSE 0]]
  /\ calm' = 0
  /\ UNCHANGED <<local, todo, passAge, flight>>

LinkUp(p, n, ms) == n \notin links /\ TopologyChanged(p, links \cup {n}, ms)

LinkDown(p, n, ms) == n \in links /\ TopologyChanged(p, links \ {n}, ms)

(* The pass reaches the client's session and copies its routes.            *)
PassCopies(p) ==
  /\ pass[p] = "begun"
  /\ pass' = [pass EXCEPT ![p] = "registering"]
  /\ todo' = [todo EXCEPT ![p] = IF inTable THEN attached ELSE {}]
  /\ passAge' = [passAge EXCEPT ![p] = 0]
  /\ UNCHANGED <<members, links, local, mesh>>

(* Mutant: a route is announced for a session that has left.               *)
PassMayAnnounceAlways == TRUE

(* peer_descriptor finds the session.                                      *)
PassMayAnnounce == inTable

PassRegisters(p, r) ==
  /\ pass[p] = "registering" /\ r \in todo[p]
  /\ todo' = [todo EXCEPT ![p] = @ \ {r}]
  /\ IF PassMayAnnounce THEN Announce(r) ELSE UNCHANGED mesh
  /\ UNCHANGED <<members, links, local, pass, passAge>>

PassEnds(p) ==
  /\ pass[p] = "registering" /\ todo[p] = {}
  /\ pass' = [pass EXCEPT ![p] = "idle"]
  /\ passAge' = [passAge EXCEPT ![p] = 0]
  /\ UNCHANGED <<members, links, local, todo, mesh>>

(* _membership_loop and NODE_STATE change the members and announce nothing. *)
Rehash(ms) ==
  /\ members' = ms /\ ms # members
  /\ calm' = 0
  /\ UNCHANGED <<links, local, passes, flight, reg>>

-----------------------------------------------------------------------------
(* The owners.                                                             *)

(* n reads a message and finds itself an owner and the descriptor current. *)
Handle(n) ==
  /\ flight[n] # <<>>
  /\ flight' = [flight EXCEPT ![n] = Tail(@)]
  /\ LET m == Head(flight[n])
     IN  /\ m.type = "ROUTE_REGISTER" => Current(n, m)
         /\ reg' = [reg EXCEPT ![n][m.route] = Entry(n, m)]
  /\ UNCHANGED <<members, links, local, passes, calm>>

(* A message comes to nothing: its send times out, its link is lost, or n  *)
(* is full, sees other owners or finds the descriptor not current.         *)
Miss(n) ==
  /\ flight[n] # <<>>
  /\ LET m == Head(flight[n])
     IN  Lossy \/ (m.type = "ROUTE_REGISTER" /\ ~Current(n, m))
  /\ flight' = [flight EXCEPT ![n] = Tail(@)]
  /\ calm' = 0
  /\ UNCHANGED <<members, links, local, passes, reg>>

(* Another node drops descriptors: its own topology changed, or it stopped. *)
PeerForgets(n, rs) ==
  /\ Lossy
  /\ reg' = [reg EXCEPT ![n] = [r \in Route |-> IF r \in rs THEN 0 ELSE @[r]]]
  /\ calm' = 0
  /\ UNCHANGED <<members, links, local, passes, flight>>

-----------------------------------------------------------------------------

Less1(t) == IF t > 0 THEN t - 1 ELSE 0

More1(t, limit) == IF t < limit THEN t + 1 ELSE limit

(* A message under way to n, a tick later; its expiry stops to matter when *)
(* n would refuse it.                                                      *)
Later(n, m) ==
  IF m.type = "ROUTE_REGISTER" /\ m.left > Offset[n] - Skew
  THEN [type |-> m.type, route |-> m.route, left |-> m.left - 1] ELSE m

Tick ==
  /\ \A p \in Pass : pass[p] = "registering" => passAge[p] < PassBound
  /\ left' = [r \in Route |-> Less1(left[r])]
  /\ flight' = [n \in Node |-> [i \in 1 .. Len(flight[n]) |-> Later(n, flight[n][i])]]
  /\ reg' = [n \in Node |-> [r \in Route |-> Less1(reg[n][r])]]
  /\ gone' = [r \in Route |-> IF r \in attached THEN gone[r] ELSE More1(gone[r], GhostLimit)]
  /\ away' = IF inTable THEN 0 ELSE More1(away, AwayLimit)
  /\ passAge' = [p \in Pass |-> IF pass[p] = "registering" THEN passAge[p] + 1 ELSE 0]
  /\ calm' = More1(calm, Lease)
  /\ UNCHANGED <<members, links, client, inTable, attached, toRemove, pass, todo>>

Views == {ms \in SUBSET Node : Home \in ms}

Next ==
  \/ \E r \in Route : Attach(r) \/ Detach(r) \/ CloseWithdraws(r) \/ Expire(r)
  \/ Close
  \/ Closed
  \/ Prune
  \/ \E p \in Pass, n \in Peer, ms \in Views : LinkUp(p, n, ms) \/ LinkDown(p, n, ms)
  \/ \E p \in Pass : PassCopies(p) \/ PassEnds(p)
  \/ \E p \in Pass, r \in Route : PassRegisters(p, r)
  \/ \E ms \in Views : Rehash(ms)
  \/ \E n \in Peer : Handle(n) \/ Miss(n)
  \/ \E n \in Peer, rs \in SUBSET Route \ {{}} : PeerForgets(n, rs)
  \/ Tick

Spec == Init /\ [][Next]_vars

-----------------------------------------------------------------------------
(* Properties.                                                             *)

(* Every variable stays in its domain.                                     *)
TypeOK ==
  /\ members \in Views /\ links \subseteq Peer
  /\ client \in {"open", "closing", "closed"} /\ inTable \in BOOLEAN
  /\ attached \subseteq Route /\ toRemove \subseteq Route
  /\ left \in [Route -> 0 .. Lease]
  /\ pass \in [Pass -> {"idle", "begun", "registering"}]
  /\ todo \in [Pass -> SUBSET Route] /\ passAge \in [Pass -> 0 .. PassBound]
  /\ flight \in [Node -> Seq(Message)] /\ flight[Home] = <<>>
  /\ reg \in [Node -> [Route -> 0 .. Lease + Skew]]
  /\ gone \in [Route -> 0 .. GhostLimit] /\ away \in 0 .. AwayLimit
  /\ calm \in 0 .. Lease

(* A descriptor of a route the client has left, whether it detached, was   *)
(* disconnected or pruned, or its lease ran out, and even if a topology    *)
(* pass with an old copy of the routes announced it once more, has expired *)
(* at every node after a lease, the length of such a pass and what the     *)
(* node's clock is behind, however long the message was under way.         *)
GhostBound ==
  \A n \in Node, r \in Route :
    r \notin attached /\ reg[n][r] > 0 => gone[r] < Lease + PassBound - Offset[n]

(* A session that has left hub.sessions is gone from the mesh sooner: only *)
(* what was under way may still arrive, and neither a topology pass with   *)
(* its routes nor its closing endpoint adds to it, so every descriptor has *)
(* expired a lease later, by the node's clock.                             *)
DepartedBound ==
  \A n \in Node, r \in Route :
    ~inTable /\ reg[n][r] > 0 => away < Lease - Offset[n]

(* With messages q under way and an entry, both of a node whose clock is   *)
(* off by o: the last word about r, or else the entry, lasts at least t by *)
(* Home's clock.                                                           *)
LastWord(q, entry, o, r, t) ==
  \/ /\ \A i \in 1 .. Len(q) : q[i].route # r
     /\ entry + o >= t
  \/ \E i \in 1 .. Len(q) :
       /\ q[i].type = "ROUTE_REGISTER" /\ q[i].route = r /\ q[i].left >= t
       /\ \A j \in i + 1 .. Len(q) : q[j].route # r

Lasts(n, r, t) == LastWord(flight[n], reg[n][r], Offset[n], r, t)

(* Whatever was missed before, renewing a lease repairs: once the mesh has *)
(* been calm for a lease, every route with a running lease is registered   *)
(* at every owner Home can reach for at least as long as the lease, or the *)
(* registration is on its way.                                             *)
RenewalCovers ==
  client = "open" /\ calm = Lease
    => \A r \in attached : left[r] > 0 => \A n \in Targets(r) : Lasts(n, r, left[r])

(* The views of the members that differ from Home's by one node.           *)
NearViews ==
  {ms \in SUBSET Node : Cardinality((members \ ms) \cup (ms \ members)) = 1} \ {{}}

(* README.md: "primary/replica route owners".  In a calm mesh a node whose *)
(* view of the members is one node behind or ahead of Home's still has an  *)
(* owner on its list that knows the client, or is about to, as long as the *)
(* lease lasts beyond what any clock is ahead of Home's.                  *)
FoundFromNearViews ==
  client = "open" /\ calm = Lease /\ links = Peer /\ Replicas > 1
    => \A r \in attached : left[r] > Drift =>
         \A ms \in NearViews : \E n \in Owners(r, ms) : Lasts(n, r, Offset[n] + 1)

(* _topology_changed: "re-register every local lease after failover".      *)
(* While no pass is under way and nothing is lost, every running lease is  *)
(* registered, or about to be, at every owner Home can reach.              *)
FailoverRegisters ==
  client = "open" /\ (\A p \in Pass : pass[p] = "idle")
    => \A r \in attached : left[r] > Drift => \A n \in Targets(r) : Lasts(n, r, Offset[n] + 1)

=============================================================================

--------------------------------- MODULE Hub ---------------------------------
(***************************************************************************)
(* The hub's session table and route table (app/hub.py), the endpoint task *)
(* of every client WebSocket (app/routes.py for /v1/ws, app/v2.py for      *)
(* /v2/ws) and the cleanup loop (app/main.py).                             *)
(*                                                                         *)
(* All of them run on one asyncio event loop, so a stretch of code between *)
(* two awaits is one step.  The tasks interleave at the awaits: a task     *)
(* that is receiving or sending may find its session pruned when it        *)
(* resumes.  The code compares absolute monotonic deadlines with "now";    *)
(* the module keeps the time left until each deadline, in ticks, so that   *)
(* the state space is finite without a bound on time.                      *)
(***************************************************************************)
EXTENDS Integers, FiniteSets

CONSTANTS
  V1,              \* session ids handed out by /v1/ws
  V2,              \* session ids handed out by /v2/ws
  Route,           \* opaque route ids
  MaxConcurrency,  \* config.max_concurrency
  MaxV1Routes,     \* config.max_v1_routes_per_session
  MaxV2Routes,     \* config.max_routes_per_session
  RouteLease,      \* config.route_lease_seconds
  SessionStale,    \* config.session_stale_seconds
  ProofDeadline,   \* config.proof_deadline_seconds
  CleanupInterval  \* config.cleanup_interval_seconds

Session == V1 \cup V2

(* Config.validate (app/config.py) rejects limits below one and            *)
(* non-positive durations.  A finite Session stands for the sessions of a  *)
(* run: uuid4 ids are never handed out twice.                              *)
ASSUME HubAssumption ==
  /\ V1 \cap V2 = {}
  /\ IsFiniteSet(V1) /\ IsFiniteSet(V2) /\ IsFiniteSet(Route)
  /\ MaxConcurrency \in Nat \ {0}
  /\ MaxV1Routes \in Nat \ {0}
  /\ MaxV2Routes \in Nat \ {0}
  /\ RouteLease \in Nat \ {0}
  /\ SessionStale \in Nat \ {0}
  /\ ProofDeadline \in Nat \ {0}
  /\ CleanupInterval \in Nat \ {0}

VARIABLES
  conn,       \* where the endpoint task of a session is
  sessions,   \* keys of hub.sessions
  phase,      \* sess["challenge"] and sess["proven"], read together
  hbAge,      \* now - sess["last_heartbeat"]
  proofLeft,  \* proof_deadline - now, -1 once it has passed
  attached,   \* sess["routes"]
  routes,     \* keys of hub.routes
  holders,    \* keys of hub.routes[route]
  left,       \* hub.routes[route][session] - now
  buckets,    \* sessions that own a bucket in hub.rate_limiter
  cleanupIn   \* time until the cleanup loop wakes up

vars == <<conn, sessions, phase, hbAge, proofLeft, attached,
          routes, holders, left, buckets, cleanupIn>>

tables == <<sessions, attached, routes, holders, left>>

ConnState == {"new",      \* not accepted yet
              "recv",     \* awaiting receive_text_frame
              "busy",     \* a handler awaits a reply or a mesh call
              "closing",  \* left the loop, on its way to remove_session
              "closed"}   \* the endpoint has returned
Phase == {"fresh", "challenged", "proven"}
Open == {"recv", "busy"}

-----------------------------------------------------------------------------
(* What the handlers test.                                                 *)

RouteLimit(s) == IF s \in V1 THEN MaxV1Routes ELSE MaxV2Routes

RoomForSession == Cardinality(sessions) < MaxConcurrency

(* Mutant: the limit is tested after the route was counted.                *)
RoomForRouteOffByOne(s, r) ==
  r \in attached[s] \/ Cardinality(attached[s]) <= RouteLimit(s)

RoomForRoute(s, r) == r \in attached[s] \/ Cardinality(attached[s]) < RouteLimit(s)

(* Mutant: the deadline only covers a session that has not said HELLO.     *)
AwaitsProofUntilHello(s) == phase[s] = "fresh"

AwaitsProof(s) == phase[s] # "proven"

DeadlinePassed(s) == AwaitsProof(s) /\ proofLeft[s] <= 0

MayHello(s) == phase[s] = "fresh"

MayProve(s) == phase[s] = "challenged"

MayUseRoutes(s) == phase[s] = "proven"

(* Mutant: a lease that ends now is kept.                                  *)
LeaseExpiredLate(r, s) == left[r][s] < 0

LeaseExpired(r, s) == left[r][s] <= 0

(* Mutant: a session that holds routes is never stale.                     *)
IsStaleUnattached(s) == hbAge[s] > SessionStale /\ attached[s] = {}

IsStale(s) == hbAge[s] > SessionStale

-----------------------------------------------------------------------------
(* The table updates of app/hub.py, as functions of the old tables.        *)

(* The expiry attach_route writes, for a first and for a repeated attach.  *)
RenewedLease(r, s) == RouteLease

(* The leases of h that survive, everything else at the default 0.         *)
LeftOf(h) == [r \in Route |-> [s \in Session |->
                IF s \in h[r] THEN left[r][s] ELSE 0]]

(* The keys of hub.routes after sessions were taken out of the entries of  *)
(* the routes in touched: an entry that became empty is popped.            *)
KeptRoutes(rs, h, touched) == {r \in rs : r \notin touched \/ h[r] # {}}

(* remove_session for every session of gone, given the holders h, the      *)
(* attachments a and the route keys rs it finds: each session is detached  *)
(* from the routes its own record names.                                   *)
HoldersWithout(gone, h, a) ==
  [r \in Route |-> h[r] \ {s \in gone : r \in a[s]}]

AttachedWithout(gone, a) ==
  [s \in Session |-> IF s \in gone THEN {} ELSE a[s]]

RemoveSessions(gone, h, a, rs) ==
  LET touched == UNION {a[s] : s \in gone}
  IN  /\ sessions' = sessions \ gone
      /\ attached' = AttachedWithout(gone, a)
      /\ holders' = HoldersWithout(gone, h, a)
      /\ routes' = KeptRoutes(rs, holders', touched)
      /\ left' = LeftOf(holders')
      /\ buckets' = buckets \ gone

(* prune_routes: the leases that survive, and what is left of sess["routes"]. *)
PrunedHolders ==
  [r \in Route |-> {s \in holders[r] : ~LeaseExpired(r, s)}]

(* Mutant: the expired route stays in sess["routes"].                      *)
PrunedAttachedForgotten == attached

PrunedAttached ==
  [s \in Session |->
     attached[s] \ {r \in routes : s \in holders[r] /\ LeaseExpired(r, s)}]

PrunedRoutes == {r \in routes : PrunedHolders[r] # {}}

-----------------------------------------------------------------------------
(* The endpoint task of session s.                                         *)

Init ==
  /\ conn = [s \in Session |-> "new"]
  /\ sessions = {}
  /\ phase = [s \in Session |-> "fresh"]
  /\ hbAge = [s \in Session |-> 0]
  /\ proofLeft = [s \in Session |-> 0]
  /\ attached = [s \in Session |-> {}]
  /\ routes = {}
  /\ holders = [r \in Route |-> {}]
  /\ left = [r \in Route |-> [s \in Session |-> 0]]
  /\ buckets = {}
  /\ cleanupIn = CleanupInterval

(* The socket is accepted, the capacity test passes and create_session     *)
(* runs: no await separates the test from the insertion.  A socket that    *)
(* finds the hub full is closed and leaves no trace.                       *)
Connect(s) ==
  /\ conn[s] = "new"
  /\ RoomForSession
  /\ sessions' = sessions \cup {s}
  /\ conn' = [conn EXCEPT ![s] = "recv"]
  /\ hbAge' = [hbAge EXCEPT ![s] = 0]
  /\ proofLeft' = [proofLeft EXCEPT ![s] = ProofDeadline]
  /\ UNCHANGED <<phase, attached, routes, holders, left, buckets, cleanupIn>>

(* A frame of a session that is still in the table.  Its reply is awaited, *)
(* so the task is busy until LoopTop or Break.                             *)
Receive(s) ==
  /\ conn[s] = "recv"
  /\ s \in sessions
  /\ conn' = [conn EXCEPT ![s] = "busy"]
  /\ UNCHANGED <<sessions, proofLeft, cleanupIn>>

(* A frame over max_frame_bytes is answered before any bucket is touched.  *)
Oversize(s) ==
  /\ Receive(s)
  /\ UNCHANGED <<phase, hbAge, attached, routes, holders, left, buckets>>

(* A frame that passes the MESSAGE check, which creates the session's      *)
(* bucket, and the global message check.                                   *)
Handle(s) ==
  /\ Receive(s)
  /\ buckets' = buckets \cup {s}

(* Every handled frame that is answered and changes nothing here: bad      *)
(* JSON, a type the session may not use, an operation over its own rate    *)
(* limit, a failed PROVE, DISCOVER, the relayed messages.                  *)
Refuse(s) ==
  /\ Handle(s)
  /\ UNCHANGED <<phase, hbAge, attached, routes, holders, left>>

(* The per-session or the global message limit: the socket is closed and   *)
(* the loop left.                                                          *)
Overrate(s) ==
  /\ conn[s] = "recv"
  /\ s \in sessions
  /\ conn' = [conn EXCEPT ![s] = "closing"]
  /\ buckets' = buckets \cup {s}
  /\ UNCHANGED <<tables, phase, hbAge, proofLeft, cleanupIn>>

Hello(s) ==
  /\ Handle(s)
  /\ MayHello(s)
  /\ phase' = [phase EXCEPT ![s] = "challenged"]
  /\ UNCHANGED <<hbAge, attached, routes, holders, left>>

(* A PROVE whose signature verifies.                                       *)
Prove(s) ==
  /\ Handle(s)
  /\ MayProve(s)
  /\ phase' = [phase EXCEPT ![s] = "proven"]
  /\ hbAge' = [hbAge EXCEPT ![s] = 0]
  /\ UNCHANGED <<attached, routes, holders, left>>

Ping(s) ==
  /\ Handle(s)
  /\ hbAge' = [hbAge EXCEPT ![s] = 0]
  /\ UNCHANGED <<phase, attached, routes, holders, left>>

(* ATTACH_ROUTE: attach_route refuses a new route over the limit before it *)
(* touches hub.routes; an attached route gets a full lease again.          *)
Attach(s, r) ==
  /\ Handle(s)
  /\ MayUseRoutes(s)
  /\ RoomForRoute(s, r)
  /\ routes' = routes \cup {r}
  /\ holders' = [holders EXCEPT ![r] = @ \cup {s}]
  /\ left' = [left EXCEPT ![r][s] = RenewedLease(r, s)]
  /\ attached' = [attached EXCEPT ![s] = @ \cup {r}]
  /\ UNCHANGED <<phase, hbAge>>

Detach(s, r) ==
  /\ Handle(s)
  /\ MayUseRoutes(s)
  /\ holders' = [holders EXCEPT ![r] = @ \ {s}]
  /\ routes' = KeptRoutes(routes, holders', {r})
  /\ left' = LeftOf(holders')
  /\ attached' = [attached EXCEPT ![s] = @ \ {r}]
  /\ UNCHANGED <<phase, hbAge>>

(* A frame was already on its way when the cleanup loop pruned the         *)
(* session.  The MESSAGE check builds a new bucket for the dead id; then   *)
(* /v1/ws breaks on the missing session, /v2/ws raises KeyError.  A frame  *)
(* that is too large is refused before the check.                          *)
Gone(s) ==
  /\ conn[s] = "recv"
  /\ s \notin sessions
  /\ conn' = [conn EXCEPT ![s] = "closing"]
  /\ buckets' \in {buckets, buckets \cup {s}}
  /\ UNCHANGED <<tables, phase, hbAge, proofLeft, cleanupIn>>

(* Mutant: the loop does not look at the deadline before it receives.      *)
LoopTopNoDeadline(s) ==
  /\ conn[s] = "busy"
  /\ conn' = [conn EXCEPT ![s] = IF s \notin sessions THEN "closing" ELSE "recv"]
  /\ UNCHANGED <<tables, phase, hbAge, proofLeft, buckets, cleanupIn>>

(* The handler returns and the loop starts over.                           *)
LoopTop(s) ==
  /\ conn[s] = "busy"
  /\ conn' = [conn EXCEPT ![s] =
                IF s \notin sessions \/ DeadlinePassed(s) THEN "closing" ELSE "recv"]
  /\ UNCHANGED <<tables, phase, hbAge, proofLeft, buckets, cleanupIn>>

(* wait_for(receive_text_frame, remaining) runs out.                       *)
ProofTimeout(s) ==
  /\ conn[s] = "recv"
  /\ DeadlinePassed(s)
  /\ conn' = [conn EXCEPT ![s] = "closing"]
  /\ UNCHANGED <<tables, phase, hbAge, proofLeft, buckets, cleanupIn>>

(* The peer disconnects, sends a binary frame, or a send fails or times    *)
(* out: the exception leaves the loop.                                     *)
Break(s) ==
  /\ conn[s] \in Open
  /\ conn' = [conn EXCEPT ![s] = "closing"]
  /\ UNCHANGED <<tables, phase, hbAge, proofLeft, buckets, cleanupIn>>

(* The finally block.  /v2/ws first withdraws the session's routes from    *)
(* the mesh, awaiting each one, so the session stays in the table for a    *)
(* while after the loop is left; remove_session is a no-op for a session   *)
(* that was pruned.                                                        *)
Finish(s) ==
  /\ conn[s] = "closing"
  /\ conn' = [conn EXCEPT ![s] = "closed"]
  /\ IF s \in sessions
     THEN RemoveSessions({s}, holders, attached, routes)
     ELSE UNCHANGED <<tables, buckets>>
  /\ phase' = [phase EXCEPT ![s] = "fresh"]
  /\ hbAge' = [hbAge EXCEPT ![s] = 0]
  /\ proofLeft' = [proofLeft EXCEPT ![s] = 0]
  /\ UNCHANGED cleanupIn

-----------------------------------------------------------------------------
(* The cleanup loop and the clock.                                         *)

(* One pass: prune_routes, then prune_stale_sessions on what it left.  The *)
(* dedupe cache it also prunes is in module Relay.                         *)
Cleanup ==
  /\ cleanupIn = 0
  /\ cleanupIn' = CleanupInterval
  /\ LET stale == {s \in sessions : IsStale(s)}
     IN  /\ RemoveSessions(stale, PrunedHolders, PrunedAttached, PrunedRoutes)
         /\ hbAge' = [s \in Session |-> IF s \in stale THEN 0 ELSE hbAge[s]]
  /\ UNCHANGED <<conn, phase, proofLeft>>

(* Time passes.  The event loop serves a due timer before the next tick:   *)
(* the cleanup loop, and the receive of a session whose deadline is due.   *)
Tick ==
  /\ cleanupIn > 0
  /\ \A s \in Session : ~(conn[s] = "recv" /\ DeadlinePassed(s))
  /\ cleanupIn' = cleanupIn - 1
  /\ hbAge' = [s \in Session |-> IF s \in sessions THEN hbAge[s] + 1 ELSE hbAge[s]]
  /\ proofLeft' = [s \in Session |->
                     IF conn[s] \in Open /\ AwaitsProof(s) /\ proofLeft[s] >= 0
                     THEN proofLeft[s] - 1 ELSE proofLeft[s]]
  /\ left' = [r \in Route |-> [s \in Session |->
                IF s \in holders[r] THEN left[r][s] - 1 ELSE left[r][s]]]
  /\ UNCHANGED <<conn, sessions, phase, attached, routes, holders, buckets>>

-----------------------------------------------------------------------------

Step(s) ==
  \/ Connect(s)
  \/ Oversize(s)
  \/ Refuse(s)
  \/ Overrate(s)
  \/ Hello(s)
  \/ Prove(s)
  \/ Ping(s)
  \/ \E r \in Route : Attach(s, r)
  \/ \E r \in Route : Detach(s, r)
  \/ Gone(s)
  \/ LoopTop(s)
  \/ ProofTimeout(s)
  \/ Break(s)
  \/ Finish(s)

Next ==
  \/ \E s \in Session : Step(s)
  \/ Cleanup
  \/ Tick

Spec == Init /\ [][Next]_vars

(* The event loop runs every ready task and every due timer.  Nothing is   *)
(* assumed of the client: it may stay silent, ping for ever or vanish.     *)
Fairness ==
  /\ WF_vars(Tick)
  /\ WF_vars(Cleanup)
  /\ \A s \in Session :
       /\ WF_vars(LoopTop(s))
       /\ WF_vars(ProofTimeout(s))
       /\ WF_vars(Finish(s))

FairSpec == Spec /\ Fairness

-----------------------------------------------------------------------------
(* Properties.                                                             *)

(* Every variable stays in its domain: a lease is never longer than        *)
(* RouteLease, however often its route is attached again.                  *)
TypeOK ==
  /\ conn \in [Session -> ConnState]
  /\ sessions \subseteq Session
  /\ phase \in [Session -> Phase]
  /\ hbAge \in [Session -> Nat]
  /\ proofLeft \in [Session -> -1 .. ProofDeadline]
  /\ attached \in [Session -> SUBSET Route]
  /\ routes \subseteq Route
  /\ holders \in [Route -> SUBSET Session]
  /\ left \in [Route -> [Session -> {t \in Int : t <= RouteLease}]]
  /\ buckets \subseteq Session
  /\ cleanupIn \in 0 .. CleanupInterval

(* The two indexes of one relation agree.  sess["routes"] of a live        *)
(* session names exactly the routes that hold a lease of it, no lease      *)
(* belongs to a session that is gone, and hub.routes has no empty entry:   *)
(* whatever the order in which attach, detach, the two prunes and          *)
(* remove_session touched them.                                            *)
IndexAgreement ==
  /\ \A r \in Route : holders[r] \subseteq sessions
  /\ \A s \in Session, r \in Route : r \in attached[s] <=> s \in holders[r]
  /\ \A r \in Route : r \in routes <=> holders[r] # {}

(* sess["routes"] authorises DISCOVER and SIGNAL without looking at the    *)
(* lease, so an expired lease authorises until the cleanup loop comes by:  *)
(* always less than one interval.                                          *)
LeaseLag ==
  \A r \in Route : \A s \in holders[r] : left[r][s] > -CleanupInterval

(* A session that stopped pinging is in the table for at most              *)
(* SessionStale + CleanupInterval after its last heartbeat.                *)
ReapBound ==
  \A s \in sessions : hbAge[s] <= SessionStale + CleanupInterval

(* A session never becomes proven after its proof deadline, however long   *)
(* its earlier frames kept the task busy.                                  *)
ProofInTime ==
  [][\A s \in Session :
       phase[s] # "proven" /\ phase'[s] = "proven" => proofLeft[s] >= 0]_vars

(* Only a session that is proven is attached to a route: no frame takes a  *)
(* session that holds routes back to an earlier phase.                     *)
AttachedAreProven ==
  \A s \in Session : attached[s] # {} => phase[s] = "proven"

(* The tables stay within the configured limits.                           *)
ResourceCaps ==
  /\ Cardinality(sessions) <= MaxConcurrency
  /\ \A s \in Session : Cardinality(attached[s]) <= RouteLimit(s)

(* A client that does not complete HELLO and PROVE cannot keep its socket  *)
(* open by pinging: the endpoint task ends.                                *)
ProofOrClose ==
  \A s \in Session :
    (conn[s] \in Open /\ phase[s] # "proven")
      ~> (phase[s] = "proven" \/ conn[s] = "closed")

(* The module header of hub.py: the hub keeps "per-session rate limiters". *)
(* A bucket of a session that has left the table and whose task has ended  *)
(* would never be dropped.                                                 *)
BucketsOwned ==
  \A s \in buckets : conn[s] # "closed"

=============================================================================

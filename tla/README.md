# TLA+ model of the Particle masterserver

The masterserver is a rendezvous and signalling relay: clients connect by
WebSocket, prove a key, attach to opaque routes, discover who else is attached
and relay messages to them. Several servers form a mesh that replicates route
descriptors and forwards signals. All state is in memory; one asyncio event loop
runs everything.

Because there is one event loop, code between two `await`s is atomic. An action
of these modules is such a stretch of code (or several that nothing can observe
apart), and the hard behaviour comes from what other tasks do at the awaits, from
time, and from links that fail.

## The system's parts

| Part | State | Operations | Hard because | Module |
|---|---|---|---|---|
| Session and route tables (`hub.py`), endpoints (`routes.py`, `v2.py`), cleanup loop (`main.py`) | `sessions`, `sess["routes"]`, `routes` with leases, proof phase, heartbeats, buckets | connect, HELLO, PROVE, PING, ATTACH, DETACH, loop exits, `remove_session`, the two prunes | the cleanup loop removes a session under a running handler; one relation in two dictionaries; deadlines tested between frames | `Hub` |
| Outbound delivery (`hub.py`, `ws_io.py`) | queue, byte accounts, writer task, send lock | `send_session`, writer steps, reply steps, removal, cancellation | two tasks on one socket, cancellation at any await, accounts settled in two places | `Outbound` |
| Seen cache and relay handlers | `_seen`, `last_signal_sequence` | v1 relay, v2 signal, node message, prune | shared limit, expiry against replay, a message is marked before anybody receives it | `Relay` |
| Token buckets, admission limiter (`rate_limits.py`, `v2.py`) | bucket table in LRU order, global bucket | `allow` | lazy refill, eviction resets a limit | `Limiter` |
| `/v2/admission`, `/v2/turn` (`v2.py`, `trust.py`, `turn.py`) | grants handed out, rotating secrets | admission, TURN request, refusal, issue | the body is awaited after the limiter, a grant and a secret may end meanwhile; rotation windows | `Turn` |
| Mesh route registry (`node_mesh.py`) | registry, count, bindings, cache | register, remove, query, discover, topology change, stop | hand-kept count, binding shared by two tables, ownership moves | `RouteRegistry` |
| Mesh membership (`node_mesh.py`) | links, views, suspicions, members, quorum | link up/down, NODE_STATE, membership loop | lost, late and contradictory reports; time | `Membership` |
| Rendezvous ownership and replication (`node_mesh.py`, `v2.py`) | members, links, leases, topology passes, descriptors at the owners | attach, detach, expiry, `_topology_changed`, the endpoint's finally block | a pass works on a copy of the routes across awaits; ownership moves without announcement; messages are late or lost; each owner has its own clock | `Rendezvous`, `Replication`, `MeshNode` |
| Mesh requests (`node_mesh.py`) | `_pending_acks`, `_pending_queries`, futures, send lock | `forward_signal`, `discover`, `_query_owner`, ACK, ROUTE_RESULT, `stop` | late, lost or refused answers, deadlines, a limit shared by two tables | `MeshOps`, `Delivery` |
| Mesh links (`node_mesh.py`, `trust.py`) | `connections`, back-off, cached manifests | `_connect_forever`, `accept`, hello, `_claim_connection`, receive loops | half-open links, clocks that differ, a cached manifest near its end | `NodeLink` |
| Signing, HPKE, canonical JSON, protocol checks, config, metrics, health, deployment | none that changes after start, or counters | pure functions | – | not modelled |

The endpoint tasks call the hub (tables, limiter, seen cache, `send_session`) and
the mesh (`register_local_route`, `remove_local_route`, `discover`,
`forward_signal`). The mesh calls back into the hub (`sessions`, `send_session`,
`check_and_mark_seen`). The cleanup loop calls the hub only. `health.py` reads
`has_quorum`.

What makes each part correct is stated as properties below; `PROJECT.json` lists
the hazards, line by line, with the properties that watch them.

## Modules

Every component module has its constants (with a named `ASSUME` taken from
`Config.validate`), one action per operation, and its properties at the end. Next
to a definition stands, where it is used for mutation, a `...Late`, `...Always`
etc. variant marked "Mutant": a plausible bug that a property must notice.
`X` holds the model, `XProofs` the theorems about it, `MCX` the values of a run.

### `Hub`

`conn` is the program counter of an endpoint task: `recv` (awaiting a frame),
`busy` (a handler awaits a reply or a mesh call), `closing` (left the loop, not yet
at `remove_session`: /v2/ws awaits the mesh in between), `closed`. `phase` joins
`challenge` and `proven`. A frame of a live session is `Hello`, `Prove`, `Ping`,
`Attach`, `Detach`, `Oversize`, `Overrate` or `Refuse` (answered, no change); `Gone`
is a frame that was already received when the session was pruned. `Cleanup` is one
pass of the loop: `prune_routes`, then `prune_stale_sessions` on what it left.

Instead of absolute deadlines the module keeps the time left (`left`,
`proofLeft`) or elapsed (`hbAge`), so that no bound on time is needed. `Tick` waits
until due timers have been served: the cleanup loop, and a receive whose proof
deadline is due. This is the assumption that the event loop is never late by a
whole tick; a handler may be (`busy` for any number of ticks).

A finite set of sessions stands for uuid4 ids, which are never reused: a session
goes through its life once. `heartbeat_route` has no caller and is left out.

### `Outbound`

Two program counters per session: `writer` (`_writer_loop`) and `control` (the
endpoint task, reduced to its sends on the same socket), and the `lock` that
`send_json_frame` takes. `WriterFails` covers an exception and the send timeout,
`WriterCancelled` the `CancelledError` after `remove_session` at any await.
`Reject` closes the slow client; the close may fail. When sessions are pruned is
left to `Hub`; here `Prune` may happen at any time. `Rest` is what sessions outside
the model take of the global byte budget. The bytes of a set of frames are a set too
(`Bytes`), so that what the accounts should say is a cardinality and not a sum.

### `Relay`

`check_and_mark_seen` is `Check`: duplicate, full (after a prune) or passed. The
three users are `RouteMessage`, `V2Signal` and `NodeTraffic`. `RouteMessage` ends
with the mark: the hop check and the sends to the other subscribers come after it and change
nothing in the cache (how a frame reaches a subscriber is `Outbound`). The message id is part
of the replay key in the code but is chosen by the sender together with the
sequence; a signal is identified here by session and sequence, which is what the
sequence test goes by. `age` and `outcome` are history variables.

### `Limiter` and `Turn`

`Refilled`, `Pays` are `TokenBucket`; `Popped`, `UsedLast`, `Trimmed` the dictionary
order and the eviction. `Observe` is not code: it starts a new observation window at any time,
so the rate properties speak of every window. Tokens are integers in a unit small
enough that cost and refill per tick are whole.

`Turn` extends `Limiter` with the endpoint behind it. `TurnRequest` asks the limiter;
the body is read afterwards, so `TurnIssued` and `TurnRefused` come at any later time,
when the grant and the secrets may be others. `Chosen` is `max(active)`, or the
fallback `Legacy`. `Admission` is `/v2/admission` reduced to the grant it hands out:
its own limiter is another instance of `Limiter`, and its crypto slot is held
only over code that does not await.

### `RouteRegistry`

One node. Descriptors are `<<route, node, session>>` keys with the time left. Peers
are the environment: any register, remove or result within and just outside the
accepted time window. Ownership is an arbitrary set of routes that may move when a
link comes or goes (`LinkUp`, `LinkDown`, which drop what is no longer owned) and in
`Rehash` (membership loop and NODE_STATE, which do not). `Discover` caches
descriptors in any order, as the order of a dictionary is an accident of history. It asks the
owners it has a link to (`asked`); what they return is cached by `CacheResult` after the
await, whatever has become of the links, the bindings or the node by then.

### `Membership`

One node. `Reconcile` is `_reconcile_membership`, taken as part of the step that
calls it. Peers report any set of nodes at any time. Ages stop counting where the
code no longer distinguishes them. `SendBound` is the longest round of sends of the
membership loop. `aliveAge` is history. `Restart` is `stop()` and a new start.

### `Rendezvous`, `Replication`, `MeshNode`

`Rendezvous` is `owners_for`: the first `Replicas` members in the order of `Weight`,
which stands for the SHA-256 digests and is any function that gives the nodes
distinct values for each route.

`Replication` follows the attachments of one client at its node `Home` to the
descriptors at the nodes that own the routes. `Attach` and `Detach` are the endpoint's
handlers with `register_local_route` and `remove_local_route`, `Expire` and `Prune` the
cleanup loop, `Close`, `CloseWithdraws` and `Closed` the finally block, which withdraws one
route after the other. A topology pass is `PassCopies` (the routes are copied),
`PassRegisters` (one registration each, with awaits in between) and `PassEnds`; several
passes may run at once. Members and links move freely, which includes everything
`Membership` allows.

`Replicate` makes the message: the session is looked up and the owners are chosen then, and
`Home`, if it is one, applies it at once (or refuses it, full or holding the session for
another node's). What goes to the others is put in `flight`, where it stays for any time: the
link's lock, the send and the network. `Handle` is the owner that reads it. `Miss` is a send that timed
out, a link lost with the message on it, or an owner that refuses; without `Lossy` only a
descriptor that is not current is refused. Messages to one node are handled in the order they
were made, also across a reconnection, because the other end claims no new link before its
old loop is done; `Room` bounds how many are under way. `PeerForgets` is an owner that
restarts or drops descriptors.

Each node has its own clock, `Offset` from `Home`'s. A message carries its time left by
`Home`'s clock, `Entry` and `Current` read it by the owner's, with the code's `Skew`. `reg` is
the time left at the owner, 0 once it has expired: `_prune_routes` is lazy but runs before
every read of `discover` and ROUTE_QUERY, so an expired descriptor that has not been pruned is
not told to anybody. `remote_descriptor` does read the registry unpruned
(`node_mesh.py:242-245`), so a node may go on forwarding signals by an expired descriptor; the
properties here are about descriptors that discovery can return. How far clocks are apart
(`Drift`) is not related to `Skew`: a node whose clock is further off refuses descriptors, and
`Miss` or an early expiry is what follows. `PassBound` bounds the time from a pass's copy to
its last registration: each send has a deadline and the number of routes is capped.

`MeshNode` composes the two: `M == INSTANCE Membership WITH Self <- Home, conns <- links`.
A link step is the step of both, a change of members in the loop or at a NODE_STATE is a
`Rehash` of the replication, and the client, the passes and the owners do all they do in
`Replication`. Left out is `Membership`'s `Restart`: `stop()` ends the client's session too.

### `MeshOps` and `Delivery`

One node asks another. An operation stands for its uuid: its table entry, its future,
its request and its answer. `line` is the queue at the link's send lock, its first
element the holder; `dead` are the operations whose link was given up. `Finish` joins
the ways `wait_for` ends: answer, timeout, and a future that `stop` cancelled, whose
`CancelledError` leaves `forward_signal` as an exception (`raised`) and is swallowed by the
`gather` of `discover`. What the other node had
read when this one gave the link up it still handles, so a signal may be queued after
its sender was told no.

`Delivery` is the promise of `forward_signal` without tables, locks or links: one answer
per signal, or an exception when the mesh stops, yes only for a signal that was queued, queued at most once. `MeshOps`
implements it under `D == INSTANCE Delivery WITH answer <- SignalAnswer`.

### `NodeLink`

Node "a" has the smaller id and dials, "b" accepts. `dialer` is a's
`_connect_forever` task (`wait` and `delay` its back-off), `handler` b's `accept` on each
socket. `Cut` takes a socket down; the two ends notice separately, so b may hold a claim
on a dead socket and refuse a's next one. `Served` is the manifest cache of `trust.py`,
`Accepts` the validity test by the receiver's clock, which differs by `offset`, a fixed
member of `Skew`. After a claim either end first awaits a topology pass and the send of its
state (`claimed`), and only then enters the receive loop that drops the claim
(`DialerEnters`, `AcceptorEnters`). `Calm` ends the network's interference and only serves as
the premise of `LinkHeals`.

Three definitions of the module name no code but assumptions about time. A handshake takes
less than a tick (`Shaking`). Once the network is calm, so do the way from a claim into the
loop (`Entering`), where no send has to time out any more, and noticing a dead socket
(`Unnoticed`). Before, both may take any time. `LinkHeals` fails without the latter two: slow
passes, or retries held up by a stale claim, can then stay in step with the renewal of the
faster node's manifest for ever.

## Runs

Each is started as `tlc -config X.cfg M`.

| Run | Bounds | Shows |
|---|---|---|
| `hub` | a v1 and a v2 client, 2 routes, at most 1 and 2 of them per session, lease/stale/interval 2, deadline 1; 437,976 states | `IndexAgreement`, `LeaseLag`, `ReapBound`, `ResourceCaps`, `ProofInTime`, and the liveness property `ProofOrClose`. Two sessions and two routes are the least for a route shared, emptied and kept; every timer passes its limit. Both sessions fit, so it is the route limit that binds; the session limit is proved for every value. |
| `outbound` | 1 session, 4 frames of two sizes, limits 2 frames and 3 bytes, 2 bytes taken by others; 2,188 states | `QueueBounded`, `LockMatches`, `ExactAccounts`, `StrandedOnlyIfBroken`, and the liveness properties `FramesDrain`, `LockReturns`, `BrokenAreRemoved`. Either limit can bind first. All sessions may end, so deadlock is not an error. |
| `relay` | 2 messages, 1 node message, 3 sequences, cache of 3, window 3; 25,696 states | `OncePerWindow`, `SignalsOnce`, `RefusalsJustified`; six keys for three places |
| `turn` | 3 clients, 2 buckets, cost 2, burst 3 and 7, 3 ticks; 3 secrets that overlap just enough, credential life 2, grant life 1, one body read at a time; 1,010,950 states | `GlobalRateHolds`, `ClientRateHolds`, `CredentialsCovered`, `EvictsLeastRecent`. Three clients on two buckets force evictions; a window, a grant and a secret each end within the three ticks. |
| `registry` | 2 peers, a local and a remote session, 2 routes, cap 2, lease 1, skew 1; 218,488 states | `TypeOK`, `CountExact`, `Capped`, `CachedIsBound`, `LocalStaysLocal` |
| `membership` | 3 nodes, suspicion 1, reports live 3, loop interval 1, sends 1; 21,104 states | `RemovalDelayed`, `QuorumFresh`, and the liveness properties `LostIsRemoved`, `SeenIsMember`; three nodes are the least with a quorum that is not everybody |
| `replication` | 3 nodes, clocks 1 behind and 1 ahead, 1 route, 2 owners, 1 message under way to a node, 1 pass, lease 2, pass 1, skew 1, lossy; 1,366,105 states | `GhostBound`: a descriptor of a route the client left has expired after a lease, a pass and what the clock is behind. `DepartedBound`: when the session itself is gone, after a lease. `RenewalCovers`: after a calm lease every reachable owner has every running lease, or has it under way. `FoundFromNearViews`: a node whose view of the members differs from the client's node by one member still asks an owner that knows the client. Three nodes are the least where ownership moves between others; a message may stay under way past the end of its lease. Several messages under way to one node and several passes at once are left to the theorems, which are for any number of each. |
| `meshops` | 2 signals, 1 query, room for 2; 155,227 states | `PendingBound`, `PendingExact`, `OperationEnds` (liveness), `DeliverySpec` (refinement). Three operations compete for two places and for the lock. After `stop` nothing need happen, so deadlock is not an error. |
| `links` | 3 sockets, clocks equal or 2 apart either way, manifests live 7 and are replaced 2 before their end, back-off up to 2; 39,068 states | `ClaimedIsReceived`, and the liveness properties `OneSidedEnds` (a socket claimed at one end only does not stay so, however the network behaves) and `LinkHeals`. Two stale sockets and a working one exist at a time. |

Three runs show a statement of the repository that the code does not keep:

- `hub_buckets`: `BucketsOwned`. A frame handled after its session was pruned
  creates a rate-limit bucket for the dead id, and `remove_session` returns early,
  so the bucket is never dropped.
- `registry_rebind`: `OneNodePerSession`. The expiry of a cached descriptor drops the
  session's binding though the registry still holds a renewed descriptor, and another
  node may then register the session; the README says it cannot.
- `replication_failover`: `FailoverRegisters`, on `MeshNode` without loss. A lost node
  leaves the members only after the suspicion delay, in the membership loop or at a
  NODE_STATE, and neither registers the running leases with the node that becomes an
  owner; the docstring of `_topology_changed` promises it "after failover". In the shortest
  trace the new owner is the client's own node, so not even a send is involved.

Also noticed, without a run:

- `routes.py:12` says HELLO is accepted "any time, resets proof"; the code accepts it once.
- A v1 message is marked as seen before the hop and subscriber checks, so a retry is
  dropped as "already forwarded" (`routes.py:276`) though nobody got it.
- When just a quorum of nodes reports, a single one that does not see a node is enough
  to have it suspected and removed (`node_mesh.py:650`).
- `LinkHeals` needs clocks that differ by less than the time a manifest stays cached
  (`|offset| < TTL - Margin`): the node with the slow clock refuses a manifest that its peer
  has just issued, until it has aged. With `manifest_ttl_seconds` at 60, where nothing is
  cached, any skew in that direction keeps two nodes apart.
- A credential signed with the last secret may outlive it; `CredentialsCovered` is about
  secrets that have a successor. The window of the signing key is tested at start only.

## Fairness

Weak fairness of the steps the event loop owes a ready task or a due timer, and
nothing of clients, peers or links:

- `Hub`: `Tick`, `Cleanup`, `LoopTop`, `ProofTimeout`, `Finish`. A handler ends because
  every send has a deadline.
- `Outbound`: weak for sends (deadline in `send_json_frame`), the queue, cancellation
  and exit. Strong for taking the lock, because `asyncio.Lock` is first come, first
  served, and for `ControlDisconnect`, because a broken socket has finitely many
  buffered frames before its disconnect.
- `Membership`: `Tick`, `LoopWakes`, `LoopSleeps`.
- `MeshOps`: a coroutine that was created runs, a send ends or meets its deadline, a wait
  ends or meets its own. The other node and the link owe nothing.
- `NodeLink`: the two event loops (a topology pass ends because each of its sends has a
  deadline), time, and each end's discovery of a dead socket, which
  the WebSocket pings ensure (README: `--ws-ping-timeout 20`). That the network stops
  cutting sockets is not assumed but the premise of the property.

`Relay`, `RouteRegistry`, `Replication` and `Turn` are checked for safety only.

## Proofs

`tlapm` proves, for every value of the constants allowed by the modules' `ASSUME`s:

- `HubProofs`: `TypeOK`, `IndexAgreement`, `LeaseLag`, `ReapBound`, `ProofInTime`,
  `AttachedAreProven`, `ResourceCaps`. `IndexAgreement` is inductive with `TypeOK`; the
  lemmas `RemoveAgrees` and `PruneAgrees` say it for `remove_session` and
  `prune_routes` alone, and the cleanup pass is their composition. The two time
  bounds are not inductive: `SweepProgress` relates each lease and each heartbeat to
  the time until the next cleanup pass (what is overdue is overdue by less than the
  part of the interval that has passed). `ProofInTime` rests on `WaitsInTime`: a task
  that awaits a frame without being proven still has time, or its timer is due now.
- `RouteRegistryProofs`: `TypeOK`, `CountExact`, `Capped`, `CachedIsBound`,
  `LocalStaysLocal`. Types and count are proved together (`Counted`), because the
  count only stays a natural number if it is exact; `DropCounts` is the lemma on
  removing a set of descriptors.
- `RelayProofs`: `TypeOK`, `OncePerWindow`, `SignalsOnce`, `RefusalsJustified`, all from
  `RelayInv`: an entry's time left and its age add up to the window (`AgeAgrees`), every
  accepted signal's sequence is at most the session's last (`SequenceCovers`), and the last
  verdict was justified (`Verdicts`).
- `OutboundProofs`: `TypeOK`, `LockMatches`, `StrandedOnlyIfBroken`, `ExactAccounts`,
  `QueueBounded`. The first three are inductive, the second and third with the types.
  The accounts are not: a frame that was in the queue twice, or queued and in flight,
  would be counted twice and waits once. `AccountsInv` adds `QueuedOnce`: a live session's
  queue repeats no frame, the frame in flight is not in it, all were offered, and one is
  in flight only from the get to the end of the send. Each action then moves a set of
  bytes: `TotalGrows` and `TotalShrinks` turn the move into the change of the hub's total,
  `AcceptAccounts`, `GetAccounts`, `SettleAccounts`, `RemoveAccounts` and `CancelAccounts`
  are the actions. `QueueBounded` follows because `send_session` tests the account, which
  is exact.
- `LimiterProofs`: `GlobalRateHolds`, `ClientRateHolds`, from a budget argument
  (`RateInv`): what was spent in the window plus what the bucket is worth now never
  exceeds the burst plus the refill of the window. `EvictsLeastRecent` from `OrderInv`:
  no client is in the dict twice, and whoever stands behind a client has asked since it
  did. A request leaves a part of the old order with the asking client behind it
  (`NextOrder`); only a client without a bucket evicts, and only from a full table
  (`EvictingWhenFull`), so the first bucket goes with `MaxClients` others behind it.
  `TurnIsLimited` shows that every behaviour of `Turn` is one of `Limiter`, so all this
  holds of the endpoint too (`TurnRates`, `TurnEvicts`). `CredentialsCovered` is inductive
  with the types; the lemma `ChosenLasts` is its core: if the chosen secret has a
  successor, the successor is not active yet, so the secret lasts for at least the life of
  a credential.
- `MembershipProofs`: `TypeOK`, `RemovalDelayed`, `QuorumFresh`. `SuspicionYoung`: a
  suspicion is never older than the last time a quorum saw the node. `LoopTimer` and
  `QuorumAged`: since the last reconciliation at most one round of the loop has passed,
  and the reports that made the quorum were fresh then.
- `ReplicationProofs`: `TypeOK`, `GhostBound`, `DepartedBound`, `RenewalCovers`,
  `FoundFromNearViews`, for any nodes, offsets, routes, passes and room, from `RepInv`. Its
  part `Expiring` extends the two bounds from the descriptors to the registrations under way:
  how long one lasts, by the clock of the node it goes to, is bounded by a lease and a pass
  less the time since the route was left, and by a lease less the time since the session left.
  `Passing` says the same of the copies that passes hold: what a pass may still register
  left the session's routes, if at all, after the copy was taken. `AwayCounts` keeps the second clock at zero while
  the session is in the table. `Covered` relates a lease to the last word about the route at
  each owner, in its registry or under way to it, and to the ticks the mesh has been calm.
  Two theorems are about `owners_for`
  alone: `RehashIsMinimal` (a member that leaves takes ownership from no other, and routes
  it did not own keep their owners) and `NearViewsShareOwner` (with two replicas or more,
  views that differ by one node share an owner: the first in the ranking of the smaller
  view is at most second in the larger), from which `FoundFromNearViews` follows.
  `NodeImplementsReplication` and `NodeImplementsMembership` show that `MeshNode` implements
  both of its parts; the invariant needed (`NodeInv`) is that suspicion falls on peers only, so
  `_reconcile_membership` never takes the node out of its own view. `NodeFinds` states what
  follows for a node with its real membership: both bounds and both ways of being found.
- `MeshOpsProofs`: `TypeOK`, `PendingBound`, `PendingExact`, and `OpsDelivers`, the refinement
  of `Delivery`. `OpsInv` adds `AnswerTrue`: a yes in a future, or on its way, belongs to a
  signal that was queued. The second half is about `NodeLink`: `LinkTypeOK`
  and `ClaimedIsReceived`, for any number of sockets and any clocks, proved together
  (`LinkInv`) with `OneSocket`: a's task has a socket exactly while it does not sleep.

Two refinements (`OpsDelivers`, `TurnIsLimited`) and the composition (`NodeImplements...`)
are proved step by step. Where a proof needs a least element (the first in a ranking), it
takes it from the well-foundedness of the natural numbers (`Least`), since an induction
scheme over a formula is beyond the provers used.

Only model-checked: liveness (`ProofOrClose`, `FramesDrain`, `LockReturns`,
`BrokenAreRemoved`, `LostIsRemoved`, `SeenIsMember`, `OperationEnds`, `OneSidedEnds`, `LinkHeals`), since the
provers do not treat fairness and `ENABLED`; and the three runs that end in a violation.
Every safety invariant and action property of a passing run is proved.

## Not modelled

Cryptography (`session_crypto`, `hpke`, `canonical`, the signatures of `trust`), strict
JSON and field validation (`strict_json`, `protocol`), configuration parsing, metrics, the
endpoints that only read (`/status`, `/v2/manifest`, `/metrics`, health) and deployment
files: no state that changes, or pure functions of bytes. Their outcomes (verifies or
not, parses or not) are choices in the actions, and what `Config.validate` guarantees is
the `ASSUME` of each module. The crypto-slot semaphore of `/v2/admission` is never
contended inside one event loop, as its holder does not await.

## What is left

1. An abstract lease table without indexes that `Hub` implements.
2. What `Membership` guarantees (`RemovalDelayed`, `QuorumFresh`) restated for `MeshNode`
   through `NodeImplementsMembership`.
3. `MeshOps` with several owners per query, so that `discover`'s merge of the answers and
   `RouteRegistry`'s cache meet in one model.

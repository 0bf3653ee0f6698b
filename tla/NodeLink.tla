------------------------------ MODULE NodeLink ------------------------------
(***************************************************************************)
(* How the link between two mesh nodes comes about and heals:              *)
(* _connect_forever of the node with the smaller id, accept of the other,  *)
(* _authenticate_hello, _claim_connection and the two ends of              *)
(* _connection_loop (app/node_mesh.py), with the manifest that each hello  *)
(* carries (NodeTrust.manifest and parse_signed_manifest, app/trust.py).   *)
(*                                                                         *)
(* "a" dials and "b" accepts.  The network may cut a socket at any time,   *)
(* and each end finds out on its own, later: meanwhile the link is half    *)
(* open, and b's claim on the dead socket refuses new ones.  The clocks    *)
(* differ by a fixed offset.                                               *)
(***************************************************************************)
EXTENDS Integers

CONSTANTS
  Socket,    \* sockets, used again once both ends are done with one
  None,      \* no socket
  Skew,      \* the differences of the two clocks that are considered
  TTL,       \* config.manifest_ttl_seconds
  Margin,    \* the 60 seconds before its end when a manifest is replaced
  MaxDelay   \* the back-off's 30 seconds

ASSUME NodeLinkAssumption ==
  /\ None \notin Socket
  /\ Skew \subseteq Int
  /\ TTL \in Nat /\ Margin \in 0 .. TTL
  /\ MaxDelay \in Nat \ {0}

VARIABLES
  offset,   \* a's clock minus b's
  calm,     \* the network cuts no more
  wire,     \* of each socket: "up", or "down" once cut or closed by one end
  age,      \* of each node's cached manifest, TTL when there is none
  dialer,   \* of a's task: "sleep", "hello", "claimed" or "loop"
  wait,     \* ticks a still sleeps
  delay,    \* a's back-off
  sock,     \* the socket a's task has open
  claimA,   \* a's connections[b]
  handler,  \* b's accept, of each socket: "none", "hello", "replied", "claimed"
            \* or "loop"
  claimB,   \* b's connections[a]
  reply     \* sockets with b's hello on them, not read yet

linkVars == <<offset, calm, wire, age, dialer, wait, delay, sock, claimA, handler, claimB, reply>>

-----------------------------------------------------------------------------
(* Manifests.                                                              *)

(* Mutant: every hello carries a manifest issued for it.                   *)
ServedFresh(n) == 0

(* NodeTrust.manifest: the cached one, replaced when its end is near.      *)
Served(n) == IF age[n] < TTL - Margin THEN age[n] ELSE 0

(* issuedAt <= now <= expiresAt by the receiver's clock.                   *)
Accepts(receiver, manifestAge) ==
  LET seen == IF receiver = "a" THEN manifestAge + offset ELSE manifestAge - offset
  IN  seen \in 0 .. TTL

-----------------------------------------------------------------------------

LinkInit ==
  /\ offset \in Skew
  /\ calm = FALSE
  /\ wire = [k \in Socket |-> "down"]
  /\ age = [n \in {"a", "b"} |-> TTL]
  /\ dialer = "sleep" /\ wait = 0 /\ delay = 1
  /\ sock = None
  /\ claimA = None
  /\ handler = [k \in Socket |-> "none"]
  /\ claimB = None
  /\ reply = {}

Doubled == IF 2 * delay < MaxDelay THEN 2 * delay ELSE MaxDelay

(* The end of an attempt: the socket is closed and a sleeps.               *)
BackOff ==
  /\ wire' = [wire EXCEPT ![sock] = "down"]
  /\ dialer' = "sleep"
  /\ wait' = delay
  /\ delay' = Doubled
  /\ sock' = None
  /\ reply' = reply \ {sock}

(* a connects and sends its hello.                                         *)
Dial(k) ==
  /\ dialer = "sleep" /\ wait = 0
  /\ handler[k] = "none"
  /\ wire' = [wire EXCEPT ![k] = "up"]
  /\ age' = [age EXCEPT !["a"] = Served("a")]
  /\ dialer' = "hello"
  /\ sock' = k
  /\ handler' = [handler EXCEPT ![k] = "hello"]
  /\ UNCHANGED <<offset, calm, wait, delay, claimA, claimB, reply>>

(* a reads b's hello and claims the socket, or raises.                     *)
ReadHello ==
  /\ dialer = "hello" /\ sock \in reply
  /\ IF Accepts("a", age["b"])
     THEN /\ claimA' = sock
          /\ dialer' = "claimed"
          /\ reply' = reply \ {sock}
          /\ UNCHANGED <<wire, wait, delay, sock>>
     ELSE BackOff /\ UNCHANGED claimA
  /\ UNCHANGED <<offset, calm, age, handler, claimB>>

(* The socket closes, or stays silent, before b's hello arrives.           *)
NoHello ==
  /\ dialer = "hello" /\ sock \notin reply
  /\ wire[sock] = "down" \/ handler[sock] = "none"
  /\ BackOff
  /\ UNCHANGED <<offset, calm, age, claimA, handler, claimB>>

(* The topology pass and the state message that follow the claim are done, *)
(* whatever became of the socket: a resets its back-off and receives.      *)
DialerEnters ==
  /\ dialer = "claimed"
  /\ dialer' = "loop"
  /\ delay' = 1
  /\ UNCHANGED <<offset, calm, wire, age, wait, sock, claimA, handler, claimB, reply>>

(* a's receive loop ends, and its claim with it.                           *)
DialerLoopEnds ==
  /\ dialer = "loop" /\ wire[sock] = "down"
  /\ claimA' = None
  /\ BackOff
  /\ UNCHANGED <<offset, calm, age, handler, claimB>>

(* Mutant: the refused socket is left open.                                *)
TurnAwayOpen(k) ==
  /\ handler' = [handler EXCEPT ![k] = "none"]
  /\ UNCHANGED wire

(* b closes the socket and its accept returns.                             *)
TurnAway(k) ==
  /\ handler' = [handler EXCEPT ![k] = "none"]
  /\ wire' = [wire EXCEPT ![k] = "down"]

(* b authenticates a's hello and sends its own, or closes.                 *)
Authenticate(k) ==
  /\ handler[k] = "hello"
  /\ IF Accepts("b", age["a"]) /\ wire[k] = "up"
     THEN /\ handler' = [handler EXCEPT ![k] = "replied"]
          /\ age' = [age EXCEPT !["b"] = Served("b")]
          /\ reply' = reply \cup {k}
          /\ UNCHANGED wire
     ELSE TurnAway(k) /\ UNCHANGED <<age, reply>>
  /\ UNCHANGED <<offset, calm, dialer, wait, delay, sock, claimA, claimB>>

(* Mutant: the newest socket takes the claim over.                         *)
MayClaimAlways(k) == TRUE

MayClaim(k) == claimB = None

(* _claim_connection at b, after its hello is out: a second socket is      *)
(* closed, and a may have taken it for a link by then.                     *)
Claim(k) ==
  /\ handler[k] = "replied"
  /\ IF MayClaim(k)
     THEN /\ claimB' = k
          /\ handler' = [handler EXCEPT ![k] = "claimed"]
          /\ UNCHANGED wire
     ELSE TurnAway(k) /\ UNCHANGED claimB
  /\ UNCHANGED <<offset, calm, age, dialer, wait, delay, sock, claimA, reply>>

(* b's topology pass and state message are done too.                       *)
AcceptorEnters(k) ==
  /\ handler[k] = "claimed"
  /\ handler' = [handler EXCEPT ![k] = "loop"]
  /\ UNCHANGED <<offset, calm, wire, age, dialer, wait, delay, sock, claimA, claimB, reply>>

(* b's receive loop ends; the claim is dropped if it is this socket's.     *)
AcceptorLoopEnds(k) ==
  /\ handler[k] = "loop" /\ wire[k] = "down"
  /\ handler' = [handler EXCEPT ![k] = "none"]
  /\ claimB' = IF claimB = k THEN None ELSE claimB
  /\ UNCHANGED <<offset, calm, wire, age, dialer, wait, delay, sock, claimA, reply>>

(* The network: external.                                                  *)
Cut(k) ==
  /\ ~calm /\ wire[k] = "up"
  /\ wire' = [wire EXCEPT ![k] = "down"]
  /\ UNCHANGED <<offset, calm, age, dialer, wait, delay, sock, claimA, handler, claimB, reply>>

Calm ==
  /\ ~calm
  /\ calm' = TRUE
  /\ UNCHANGED <<offset, wire, age, dialer, wait, delay, sock, claimA, handler, claimB, reply>>

(* The next three name no code but what time is assumed to wait for.       *)
Shaking == dialer = "hello" \/ \E k \in Socket : handler[k] \in {"hello", "replied"}

Entering == dialer = "claimed" \/ \E k \in Socket : handler[k] = "claimed"

(* An end that has not noticed yet that its socket is dead.                *)
Unnoticed ==
  \/ dialer = "loop" /\ wire[sock] = "down"
  \/ \E k \in Socket : handler[k] = "loop" /\ wire[k] = "down"

(* Time passes.  A handshake takes less than a tick.  So do, once the      *)
(* network is calm, noticing a dead socket and the way from a claim into   *)
(* the receive loop, where no send has to time out; before, both may take  *)
(* any time.                                                               *)
Tick ==
  /\ ~Shaking
  /\ calm => ~Entering /\ ~Unnoticed
  /\ dialer = "sleep" => wait > 0
  /\ age' = [n \in {"a", "b"} |-> IF age[n] < TTL THEN age[n] + 1 ELSE TTL]
  /\ wait' = IF wait > 0 THEN wait - 1 ELSE 0
  /\ UNCHANGED <<offset, calm, wire, dialer, delay, sock, claimA, handler, claimB, reply>>

-----------------------------------------------------------------------------

LinkNext ==
  \/ \E k \in Socket :
       Dial(k) \/ Authenticate(k) \/ Claim(k) \/ AcceptorEnters(k) \/ AcceptorLoopEnds(k) \/ Cut(k)
  \/ ReadHello
  \/ NoHello
  \/ DialerEnters
  \/ DialerLoopEnds
  \/ Calm
  \/ Tick

LinkSpec == LinkInit /\ [][LinkNext]_linkVars

(* The event loops run, connections are answered or refused, a topology    *)
(* pass ends since each of its sends has a time-out, and both ends         *)
(* of a dead socket find out: uvicorn and the websockets client ping the   *)
(* other side (README: --ws-ping-timeout 20).                              *)
LinkFairness ==
  /\ WF_linkVars(\E k \in Socket : Dial(k))
  /\ WF_linkVars(ReadHello)
  /\ WF_linkVars(NoHello)
  /\ WF_linkVars(DialerEnters)
  /\ WF_linkVars(DialerLoopEnds)
  /\ \A k \in Socket : /\ WF_linkVars(Authenticate(k))
                       /\ WF_linkVars(Claim(k))
                       /\ WF_linkVars(AcceptorEnters(k))
                       /\ WF_linkVars(AcceptorLoopEnds(k))
  /\ WF_linkVars(Tick)

LinkFairSpec == LinkSpec /\ LinkFairness

-----------------------------------------------------------------------------
(* Properties.                                                             *)

(* Every variable stays in its domain, and the back-off within its bound.  *)
LinkTypeOK ==
  /\ offset \in Skew
  /\ calm \in BOOLEAN
  /\ wire \in [Socket -> {"up", "down"}]
  /\ age \in [{"a", "b"} -> 0 .. TTL]
  /\ dialer \in {"sleep", "hello", "claimed", "loop"}
  /\ wait \in 0 .. MaxDelay /\ delay \in 1 .. MaxDelay
  /\ sock \in Socket \cup {None}
  /\ claimA \in Socket \cup {None}
  /\ handler \in [Socket -> {"none", "hello", "replied", "claimed", "loop"}]
  /\ claimB \in Socket \cup {None}
  /\ reply \subseteq Socket

(* README: the "single-claim guard" keeps a duplicate connection from      *)
(* orphaning an older receive loop.  A socket in its receive loop, or in   *)
(* the steps that lead to it, is the claimed one, and a claim always has a *)
(* task that will drop it, also if the socket dies during those steps.     *)
ClaimedIsReceived ==
  /\ \A k \in Socket : handler[k] \in {"claimed", "loop"} <=> claimB = k
  /\ claimA = (IF dialer \in {"claimed", "loop"} THEN sock ELSE None)

(* A socket that one end takes for the link and the other does not, since  *)
(* b refused it after its hello or one end has given it up, does not stay  *)
(* so, even while the network goes on failing: both come to claim it, or   *)
(* neither does, so no dead claim refuses the peer's sockets for ever.     *)
OneSidedEnds ==
  \A k \in Socket : (claimA = k) # (claimB = k) ~> (claimA = k) = (claimB = k)

(* Both ends have claimed one socket and it works.                         *)
Linked ==
  /\ claimA \in Socket
  /\ claimA = claimB
  /\ wire[claimA] = "up"

(* Once the network is calm the two nodes end up linked for good, from     *)
(* whatever half-open state they are in, and although a slow node refuses  *)
(* every manifest its peer's faster clock has just issued.                 *)
LinkHeals == [](calm => <>[]Linked)
=============================================================================

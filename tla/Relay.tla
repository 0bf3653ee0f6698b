-------------------------------- MODULE Relay --------------------------------
(***************************************************************************)
(* The hub's seen cache (check_and_mark_seen and prune_dedupe in           *)
(* app/hub.py) and the three handlers that ask it before they act:         *)
(* _handle_route_message (app/routes.py) with the hash of a v1 message,    *)
(* _handle_v2_signal (app/v2.py) with session, message id and sequence,    *)
(* and NodeMesh._connection_loop (app/node_mesh.py) with node and message  *)
(* id.  They share its entries, and so its limit.                          *)
(*                                                                         *)
(* No handler awaits between the question and the mark, so each is one     *)
(* step here.  Who is subscribed to a route is the business of module Hub; *)
(* a v1 message is marked whether or not it then reaches somebody.         *)
(***************************************************************************)
EXTENDS Integers, FiniteSets

CONSTANTS
  Content,     \* v1 messages: route, type and payload, as they are hashed
  NodeMessage, \* (node, message id) pairs of node traffic
  Session,     \* v2 sessions
  MaxSequence, \* bound: sequence numbers tried
  MaxEntries,  \* config.max_dedupe_entries
  Window       \* config.dedupe_window_seconds

Sequence == 0 .. MaxSequence
Signal == Session \X Sequence
Key == Content \cup NodeMessage \cup Signal

ASSUME RelayAssumption ==
  /\ IsFiniteSet(Key)
  /\ Content \cap NodeMessage = {} /\ Content \cap Signal = {}
  /\ NodeMessage \cap Signal = {}
  /\ MaxSequence \in Nat
  /\ MaxEntries \in Nat \ {0}
  /\ Window \in Nat \ {0}

VARIABLES
  seen,      \* keys of _seen
  left,      \* ticks until an entry expires, 0 once it has
  sequence,  \* last_signal_sequence of each session
  \* history, read by the properties only:
  age,       \* ticks since the cache let a key through, at most Window
  outcome    \* what the last check_and_mark_seen said

vars == <<seen, left, sequence, age, outcome>>

Never == -1
NoOutcome == [result |-> "none", gap |-> Never, signal |-> FALSE]

-----------------------------------------------------------------------------
(* check_and_mark_seen.                                                    *)

Live == {k \in seen : left[k] > 0}

(* Mutant: pruning at the limit also evicts what is about to expire.       *)
PrunedEarly == {k \in seen : left[k] > 1}

(* prune_dedupe: the entries it keeps.                                     *)
Pruned == {k \in seen : left[k] > 0}

Duplicate(k) == k \in seen /\ left[k] > 0

NeedsRoom(k) == k \notin seen /\ Cardinality(seen) >= MaxEntries

(* Mutant: the limit is checked without pruning first.                     *)
KeptUnpruned(k) == seen

(* The entries left once room has been looked for.                         *)
Kept(k) == IF NeedsRoom(k) THEN Pruned ELSE seen

Full(k) == NeedsRoom(k) /\ Cardinality(Kept(k)) >= MaxEntries

Passes(k) == ~Duplicate(k) /\ ~Full(k)

(* A check of key k, with its mark when it passes.                         *)
Check(k) ==
  /\ IF Duplicate(k)
     THEN seen' = seen /\ left' = left
     ELSE /\ seen' = IF Full(k) THEN Kept(k) ELSE Kept(k) \cup {k}
          /\ left' = [x \in Key |->
               IF x = k /\ ~Full(k) THEN Window ELSE IF x \in seen' THEN left[x] ELSE 0]
  /\ age' = IF Passes(k) THEN [age EXCEPT ![k] = 0] ELSE age
  /\ outcome' = [result |-> IF Duplicate(k) THEN "duplicate"
                            ELSE IF Full(k) THEN "full" ELSE "pass",
                 gap |-> age[k],
                 signal |-> k \in Signal]

-----------------------------------------------------------------------------

Init ==
  /\ seen = {}
  /\ left = [k \in Key |-> 0]
  /\ sequence = [s \in Session |-> -1]
  /\ age = [k \in Key |-> Never]
  /\ outcome = NoOutcome

(* _handle_route_message past its rate and route checks: a refused message *)
(* is dropped silently; one that passes goes, hops permitting, to the      *)
(* subscribers, if any.  Its entry stays either way.                       *)
RouteMessage(m) ==
  /\ Check(m)
  /\ UNCHANGED sequence

(* Mutant: the sequence is recorded only when a recipient is found.        *)
RecordedOnDelivery(s, q, known) == IF known THEN q ELSE sequence[s]

(* The session's last sequence once its signal q has passed; an unknown    *)
(* recipient is found out later.                                           *)
Recorded(s, q, known) == q

(* _handle_v2_signal past its checks of route, sender, expiry, rates and   *)
(* signature: an old sequence is refused before the cache is asked.        *)
V2Signal(s, q, known) ==
  /\ q > sequence[s]
  /\ Check(<<s, q>>)
  /\ sequence' = IF Passes(<<s, q>>) THEN [sequence EXCEPT ![s] = Recorded(s, q, known)]
                 ELSE sequence

(* _connection_loop asks before it handles a node's message.               *)
NodeTraffic(n) ==
  /\ Check(n)
  /\ UNCHANGED sequence

(* prune_dedupe from the cleanup loop.                                     *)
Prune ==
  /\ seen' = Pruned
  /\ left' = [k \in Key |-> IF k \in seen' THEN left[k] ELSE 0]
  /\ outcome' = NoOutcome
  /\ UNCHANGED <<sequence, age>>

Older(a) == IF a = Never \/ a = Window THEN a ELSE a + 1

Tick ==
  /\ left' = [k \in Key |-> IF left[k] > 0 THEN left[k] - 1 ELSE 0]
  /\ age' = [k \in Key |-> Older(age[k])]
  /\ outcome' = NoOutcome
  /\ UNCHANGED <<seen, sequence>>

Next ==
  \/ \E m \in Content : RouteMessage(m)
  \/ \E s \in Session, q \in Sequence, known \in BOOLEAN : V2Signal(s, q, known)
  \/ \E n \in NodeMessage : NodeTraffic(n)
  \/ Prune
  \/ Tick

Spec == Init /\ [][Next]_vars

-----------------------------------------------------------------------------
(* Properties.                                                             *)

(* Every variable stays in its domain and the cache within its limit.      *)
TypeOK ==
  /\ seen \subseteq Key /\ Cardinality(seen) <= MaxEntries
  /\ left \in [Key -> 0 .. Window]
  /\ sequence \in [Session -> -1 .. MaxSequence]
  /\ age \in [Key -> Never .. Window]
  /\ outcome \in [result : {"none", "pass", "duplicate", "full"}, gap : Never .. Window,
                 signal : BOOLEAN]

(* No key passes twice within a window, however full the cache is and      *)
(* whoever prunes it: a message is forwarded, a node message handled, at   *)
(* most once per window.                                                   *)
OncePerWindow ==
  outcome.result = "pass" => outcome.gap \in {Never, Window}

(* A v2 signal is accepted at most once in its session's life, though its  *)
(* entry in the cache may be long gone when it comes again: the session's  *)
(* last sequence takes over.                                               *)
SignalsOnce ==
  outcome.result = "pass" /\ outcome.signal => outcome.gap = Never

(* A key that is refused as new for lack of room finds the cache full of   *)
(* entries within their window: expired ones never take room.              *)
FullOfLive ==
  outcome.result = "full" => Cardinality(Live) = MaxEntries

(* A key that is refused as a duplicate did pass within the window.        *)
DuplicatePassed ==
  outcome.result = "duplicate" => outcome.gap \in 0 .. Window - 1

(* Whatever check_and_mark_seen refuses, it refuses for its reason.        *)
RefusalsJustified == FullOfLive /\ DuplicatePassed

=============================================================================

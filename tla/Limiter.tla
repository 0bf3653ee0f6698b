------------------------------- MODULE Limiter -------------------------------
(***************************************************************************)
(* AdmissionLimiter (app/v2.py), the guard of POST /v2/admission and       *)
(* POST /v2/turn, on top of TokenBucket (app/rate_limits.py): a bucket per *)
(* client address, least recently used first, and one global bucket.       *)
(*                                                                         *)
(* Tokens are counted in a unit small enough for the refill of one clock   *)
(* tick and the cost of a request to be whole numbers.  A bucket refills   *)
(* lazily, when it is asked, so its field alone says little: what it is    *)
(* worth at a given time is the operator Worth.                            *)
(***************************************************************************)
EXTENDS Integers, Sequences, FiniteSets

CONSTANTS
  Client,       \* client addresses
  Burst,        \* capacity of a client's bucket
  Rate,         \* its refill per tick
  GlobalBurst,  \* capacity of the global bucket
  GlobalRate,   \* its refill per tick
  Cost,         \* what a request consumes
  MaxClients,   \* buckets kept, 4096 in the code
  MaxTime       \* bound: the clock stops here

ASSUME LimiterAssumption ==
  /\ Burst \in Nat /\ Rate \in Nat
  /\ GlobalBurst \in Nat /\ GlobalRate \in Nat
  /\ Cost \in Nat \ {0}
  /\ MaxClients \in Nat \ {0}
  /\ MaxTime \in Nat

VARIABLES
  now,       \* time.monotonic()
  order,     \* keys of _buckets, in the order of the dict
  tokens,    \* bucket.tokens of a client
  last,      \* bucket.last_refill of a client
  gTokens,   \* _global_bucket.tokens
  gLast,     \* _global_bucket.last_refill
  \* history, read by the properties only:
  gSince,    \* start of the observed window
  gSpent,    \* cost of the requests admitted in it
  since,     \* start of a client's window, not before its bucket
  spent,     \* cost of the client's requests its bucket let through in it
  after      \* the other clients that asked since the client last did

vars == <<now, order, tokens, last, gTokens, gLast, gSince, gSpent, since, spent, after>>

-----------------------------------------------------------------------------

(* Mutant: the refill is not cut off at the capacity.                      *)
RefilledUncapped(tok, at, cap, rate) == tok + (now - at) * rate

(* TokenBucket._refill: the tokens after a refill at the current time.     *)
Refilled(tok, at, cap, rate) ==
  LET full == tok + (now - at) * rate
  IN  IF full <= cap THEN full ELSE cap

Known(c, seq) == \E i \in 1 .. Len(seq) : seq[i] = c

(* Mutant: the bucket popped from the dict is replaced by a new one.       *)
WorthNew(c) == Burst

(* The tokens a client's bucket can pay with: a new bucket is full.        *)
Worth(c) == IF Known(c, order) THEN Refilled(tokens[c], last[c], Burst, Rate) ELSE Burst

GlobalWorth == Refilled(gTokens, gLast, GlobalBurst, GlobalRate)

(* Mutant: a known client keeps its place in the dict.                     *)
UsedLastFIFO(c) == IF Known(c, order) THEN order ELSE Append(order, c)

(* The dict without the client's bucket.                                   *)
Popped(c) ==
  IF Known(c, order)
  THEN LET k == CHOOSE i \in 1 .. Len(order) : order[i] = c
       IN  [i \in 1 .. Len(order) - 1 |-> IF i < k THEN order[i] ELSE order[i + 1]]
  ELSE order

(* The client is popped and inserted again, so it comes last.              *)
UsedLast(c) == Append(Popped(c), c)

Evicting(c) == Len(UsedLast(c)) > MaxClients

(* Buckets beyond the limit are popped from the front.                     *)
Trimmed(c) == IF Evicting(c) THEN Tail(UsedLast(c)) ELSE UsedLast(c)

(* try_consume succeeds in a bucket that is worth tok.                     *)
Pays(tok) == tok >= Cost

(* Client c asks: its bucket is found or created, moved to the end, older  *)
(* ones are evicted, and it pays if it can.                                *)
Ask(c) ==
  LET pays == Pays(Worth(c))
      fresh == ~Known(c, order)
  IN  /\ order' = Trimmed(c)
      /\ tokens' = [x \in Client |->
           IF x = c THEN (IF pays THEN Worth(c) - Cost ELSE Worth(c))
           ELSE IF Known(x, order') THEN tokens[x] ELSE 0]
      /\ last' = [x \in Client |->
           IF x = c THEN now ELSE IF Known(x, order') THEN last[x] ELSE 0]
      /\ spent' = [x \in Client |->
           IF x = c THEN (IF fresh THEN 0 ELSE spent[c]) + (IF pays THEN Cost ELSE 0)
           ELSE IF Known(x, order') THEN spent[x] ELSE 0]
      /\ since' = [x \in Client |->
           IF x = c THEN (IF fresh THEN now ELSE since[c])
           ELSE IF Known(x, order') THEN since[x] ELSE 0]
      /\ after' = [x \in Client |->
           IF x = c \/ ~Known(x, order') THEN {} ELSE after[x] \cup {c}]

-----------------------------------------------------------------------------

Init ==
  /\ now = 0
  /\ order = <<>>
  /\ tokens = [c \in Client |-> 0]
  /\ last = [c \in Client |-> 0]
  /\ gTokens = GlobalBurst
  /\ gLast = 0
  /\ gSince = 0
  /\ gSpent = 0
  /\ since = [c \in Client |-> 0]
  /\ spent = [c \in Client |-> 0]
  /\ after = [c \in Client |-> {}]

(* The client's own bucket is empty: the global one is not asked.          *)
ClientRefuses(c) ==
  /\ ~Pays(Worth(c))
  /\ Ask(c)
  /\ UNCHANGED <<now, gTokens, gLast, gSince, gSpent>>

(* The client's bucket has paid and the global one is empty.               *)
GlobalRefuses(c) ==
  /\ Pays(Worth(c))
  /\ ~Pays(GlobalWorth)
  /\ Ask(c)
  /\ gTokens' = GlobalWorth
  /\ gLast' = now
  /\ UNCHANGED <<now, gSince, gSpent>>

Admit(c) ==
  /\ Pays(Worth(c))
  /\ Pays(GlobalWorth)
  /\ Ask(c)
  /\ gTokens' = GlobalWorth - Cost
  /\ gLast' = now
  /\ gSpent' = gSpent + Cost
  /\ UNCHANGED <<now, gSince>>

Tick ==
  /\ now < MaxTime
  /\ now' = now + 1
  /\ UNCHANGED <<order, tokens, last, gTokens, gLast, gSince, gSpent, since, spent, after>>

(* An observer starts to count: the properties hold for every window.      *)
Observe ==
  /\ gSince' = now
  /\ gSpent' = 0
  /\ since' = [c \in Client |-> now]
  /\ spent' = [c \in Client |-> 0]
  /\ UNCHANGED <<now, order, tokens, last, gTokens, gLast, after>>

Next ==
  \/ \E c \in Client : ClientRefuses(c)
  \/ \E c \in Client : GlobalRefuses(c)
  \/ \E c \in Client : Admit(c)
  \/ Tick
  \/ Observe

Spec == Init /\ [][Next]_vars

-----------------------------------------------------------------------------
(* Properties.                                                             *)

(* In every window, the requests admitted cost at most the global burst    *)
(* plus what the global rate adds in the window, however many clients ask  *)
(* and however long the bucket was left alone before.                      *)
GlobalRateHolds ==
  gSpent <= GlobalBurst + GlobalRate * (now - gSince)

(* The same for each client, as long as its bucket is not evicted: an      *)
(* evicted client starts with a full bucket again.                         *)
ClientRateHolds ==
  \A c \in Client : spent[c] <= Burst + Rate * (now - since[c])

(* A bucket is only forgotten when MaxClients other clients have asked     *)
(* since its client last did: a client cannot lose its bucket, and so its  *)
(* limit, while it keeps asking.                                           *)
EvictsLeastRecent ==
  [][\A c \in Client :
       Known(c, order) /\ ~Known(c, order')
         => Cardinality(after[c] \cup {order'[Len(order')]}) >= MaxClients]_vars

=============================================================================

---------------------------- MODULE LimiterProofs ----------------------------
(***************************************************************************)
(* Proofs about Limiter: the rates hold for every number of clients, every *)
(* burst, refill and cost, and every window.  What a bucket has let        *)
(* through and what it is still worth are bounded together; neither bound  *)
(* is inductive without the other.  The second part is about Turn, which   *)
(* puts the limiter in front of POST /v2/turn.                             *)
(***************************************************************************)
EXTENDS Turn, FiniteSetTheorems, TLAPS

(* The clock values and amounts the arithmetic below rests on; the dict's  *)
(* order is not part of it.                                                *)
Amounts ==
  /\ now \in Nat
  /\ tokens \in [Client -> Nat] /\ last \in [Client -> Nat]
  /\ since \in [Client -> Nat] /\ spent \in [Client -> Nat]
  /\ \A c \in Client : last[c] <= now /\ since[c] <= now
  /\ gTokens \in Nat /\ gLast \in Nat /\ gSince \in Nat /\ gSpent \in Nat
  /\ gLast <= now /\ gSince <= now

(* What a client's bucket let through in the window and is still worth.    *)
ClientBudget ==
  \A c \in Client :
    spent[c] + Refilled(tokens[c], last[c], Burst, Rate)
      <= Burst + Rate * (now - since[c])

(* The same for the global bucket.                                         *)
GlobalBudget ==
  gSpent + GlobalWorth <= GlobalBurst + GlobalRate * (now - gSince)

RateInv == Amounts /\ ClientBudget /\ GlobalBudget

-----------------------------------------------------------------------------

(* A product of natural numbers is a natural number.                       *)
LEMMA TimesNat == ASSUME NEW d \in Nat, NEW r \in Nat PROVE d * r \in Nat /\ r * d \in Nat
  OBVIOUS

(* One tick more adds one refill.                                          *)
LEMMA OneMore ==
  ASSUME NEW n \in Nat, NEW a \in Nat, NEW r \in Nat, a <= n
  PROVE  /\ (n + 1 - a) * r = (n - a) * r + r
         /\ r * (n + 1 - a) = r * (n - a) + r
  OBVIOUS

(* A refill lands between zero and the capacity.                           *)
LEMMA RefilledBounds ==
  ASSUME NEW tok \in Nat, NEW at \in Nat, NEW cap \in Nat, NEW rate \in Nat,
         now \in Nat, at <= now
  PROVE  /\ Refilled(tok, at, cap, rate) \in Nat
         /\ Refilled(tok, at, cap, rate) <= cap
<1>1. now - at \in Nat
  OBVIOUS
<1>2. (now - at) * rate \in Nat
  BY <1>1, TimesNat
<1> QED
  BY <1>2 DEF Refilled

(* A bucket refilled at the current time is worth what it holds.           *)
LEMMA RefilledNow ==
  ASSUME NEW tok \in Nat, NEW cap \in Nat, NEW rate \in Nat, now \in Nat, tok <= cap
  PROVE  Refilled(tok, now, cap, rate) = tok
<1>1. (now - now) * rate = 0
  OBVIOUS
<1> QED
  BY <1>1 DEF Refilled

(* A tick makes a bucket worth at most one refill more.                    *)
LEMMA RefilledTick ==
  ASSUME NEW tok \in Nat, NEW at \in Nat, NEW cap \in Nat, NEW rate \in Nat,
         now \in Nat, at <= now, now' = now + 1
  PROVE  /\ Refilled(tok, at, cap, rate)' <= Refilled(tok, at, cap, rate) + rate
         /\ Refilled(tok, at, cap, rate)' \in Nat
<1>0. now - at \in Nat
  OBVIOUS
<1>1. (now - at) * rate \in Nat
  BY <1>0, TimesNat
<1>2. (now + 1 - at) * rate = (now - at) * rate + rate
  BY OneMore
<1> QED
  BY <1>1, <1>2 DEF Refilled

-----------------------------------------------------------------------------

LEMMA RateInit == Init => RateInv
<1> SUFFICES ASSUME Init PROVE RateInv
  OBVIOUS
<1> USE LimiterAssumption
<1>1. Amounts
  BY DEF Init, Amounts
<1>2. Rate * (now - 0) = 0 /\ GlobalRate * (now - 0) = 0
  BY DEF Init
<1>3. ClientBudget
  BY <1>1, <1>2, RefilledBounds DEF Init, ClientBudget, Amounts
<1>4. GlobalBudget
  BY <1>1, <1>2, RefilledBounds DEF Init, GlobalBudget, GlobalWorth, Amounts
<1> QED
  BY <1>1, <1>3, <1>4 DEF RateInv

(* A client that asks spends what its bucket loses; the others' buckets    *)
(* stay as they are or are forgotten.                                      *)
LEMMA AskKeepsBudget ==
  ASSUME RateInv, NEW c \in Client, Ask(c), now' = now
  PROVE  /\ tokens' \in [Client -> Nat] /\ last' \in [Client -> Nat]
         /\ since' \in [Client -> Nat] /\ spent' \in [Client -> Nat]
         /\ \A x \in Client : last'[x] <= now' /\ since'[x] <= now'
         /\ ClientBudget'
<1> USE LimiterAssumption
<1>0. /\ Refilled(tokens[c], last[c], Burst, Rate) \in Nat
      /\ Refilled(tokens[c], last[c], Burst, Rate) <= Burst
  BY RefilledBounds DEF RateInv, Amounts
<1>1. Worth(c) \in Nat /\ Worth(c) <= Burst
  BY <1>0 DEF Worth
<1> DEFINE paid == IF Pays(Worth(c)) THEN Cost ELSE 0
           left == Worth(c) - paid
<1>2. paid \in Nat /\ left \in Nat /\ left + paid = Worth(c)
  BY <1>1 DEF Pays
<1>3. /\ tokens'[c] = left /\ last'[c] = now
      /\ Known(c, order) => spent'[c] = spent[c] + paid /\ since'[c] = since[c]
      /\ ~Known(c, order) => spent'[c] = paid /\ since'[c] = now
  BY <1>1 DEF Ask, RateInv, Amounts
<1> HIDE DEF paid, left
<1>4. ASSUME NEW x \in Client, x # c
      PROVE  \/ /\ tokens'[x] = tokens[x] /\ last'[x] = last[x]
                /\ spent'[x] = spent[x] /\ since'[x] = since[x]
             \/ tokens'[x] = 0 /\ last'[x] = 0 /\ spent'[x] = 0 /\ since'[x] = 0
  BY <1>4 DEF Ask
<1>5. Amounts
  BY DEF RateInv
<1>6. /\ \A x \in Client : /\ tokens'[x] \in Nat /\ last'[x] \in Nat
                           /\ since'[x] \in Nat /\ spent'[x] \in Nat
                           /\ last'[x] <= now' /\ since'[x] <= now'
  BY <1>2, <1>3, <1>4, <1>5 DEF Amounts
<1>7. /\ tokens' \in [Client -> Nat] /\ last' \in [Client -> Nat]
      /\ since' \in [Client -> Nat] /\ spent' \in [Client -> Nat]
  <2>1. /\ tokens' = [x \in Client |-> tokens'[x]] /\ last' = [x \in Client |-> last'[x]]
        /\ since' = [x \in Client |-> since'[x]] /\ spent' = [x \in Client |-> spent'[x]]
    BY Zenon DEF Ask
  <2> QED
    BY <1>6, <2>1
<1>8. ASSUME NEW x \in Client
      PROVE  spent'[x] + Refilled(tokens[x], last[x], Burst, Rate)'
               <= Burst + Rate * (now' - since'[x])
  <2>1. CASE x = c
    <3>1. Refilled(tokens[c], last[c], Burst, Rate)' = left
      BY <1>1, <1>2, <1>3, <1>5, RefilledNow DEF Amounts, Refilled
    <3>2. CASE Known(c, order)
      <4>1. spent[c] + Worth(c) <= Burst + Rate * (now - since[c])
        BY <3>2 DEF RateInv, ClientBudget, Worth
      <4>2. now - since[c] \in Nat
        BY <1>5 DEF Amounts
      <4>3. Rate * (now - since[c]) \in Nat
        BY <4>2, TimesNat
      <4> QED
        BY <2>1, <3>1, <3>2, <4>1, <4>3, <1>1, <1>2, <1>3, <1>5 DEF Amounts
    <3>3. CASE ~Known(c, order)
      <4>1. Rate * (now - now) = 0
        BY <1>5 DEF Amounts
      <4> QED
        BY <2>1, <3>1, <3>3, <4>1, <1>1, <1>2, <1>3
    <3> QED
      BY <3>2, <3>3
  <2>2. CASE /\ tokens'[x] = tokens[x] /\ last'[x] = last[x]
             /\ spent'[x] = spent[x] /\ since'[x] = since[x]
    BY <2>2 DEF RateInv, ClientBudget, Refilled
  <2>3. CASE tokens'[x] = 0 /\ last'[x] = 0 /\ spent'[x] = 0 /\ since'[x] = 0
    <3>1. Refilled(0, 0, Burst, Rate) \in Nat /\ Refilled(0, 0, Burst, Rate) <= Burst
      <4>1. now \in Nat /\ 0 \in Nat /\ 0 <= now
        BY <1>5 DEF Amounts
      <4> QED
        BY <4>1, RefilledBounds
    <3>2. Rate * (now - 0) \in Nat
      BY <1>5, TimesNat DEF Amounts
    <3> QED
      BY <2>3, <3>1, <3>2, <1>5 DEF Refilled, Amounts
  <2> QED
    BY <1>4, <2>1, <2>2, <2>3
<1> QED
  BY <1>6, <1>7, <1>8 DEF ClientBudget

LEMMA RateStep == RateInv /\ [Next]_vars => RateInv'
<1> SUFFICES ASSUME RateInv, [Next]_vars PROVE RateInv'
  OBVIOUS
<1> USE LimiterAssumption
<1>1. Amounts /\ GlobalWorth \in Nat /\ GlobalWorth <= GlobalBurst
  BY RefilledBounds DEF RateInv, Amounts, GlobalWorth
<1>2. ASSUME NEW c \in Client, ClientRefuses(c)
      PROVE  RateInv'
  <2>1. Amounts' /\ ClientBudget'
    BY <1>1, <1>2, AskKeepsBudget DEF ClientRefuses, Amounts
  <2>2. GlobalBudget'
    BY <1>2 DEF ClientRefuses, RateInv, GlobalBudget, GlobalWorth, Refilled
  <2> QED
    BY <2>1, <2>2 DEF RateInv
<1>3. ASSUME NEW c \in Client, GlobalRefuses(c)
      PROVE  RateInv'
  <2>1. Amounts' /\ ClientBudget'
    BY <1>1, <1>3, AskKeepsBudget DEF GlobalRefuses, Amounts
  <2>2. GlobalWorth' = GlobalWorth
    <3>1. Refilled(GlobalWorth, now, GlobalBurst, GlobalRate) = GlobalWorth
      BY <1>1, RefilledNow DEF Amounts
    <3> QED
      BY <1>3, <3>1 DEF GlobalRefuses, GlobalWorth, Refilled
  <2>3. GlobalBudget'
    BY <1>3, <2>2 DEF GlobalRefuses, RateInv, GlobalBudget
  <2> QED
    BY <2>1, <2>3 DEF RateInv
<1>4. ASSUME NEW c \in Client, Admit(c)
      PROVE  RateInv'
  <2>0. GlobalWorth - Cost \in Nat
    BY <1>1, <1>4 DEF Admit, Pays
  <2>1. Amounts' /\ ClientBudget'
    BY <1>1, <1>4, <2>0, AskKeepsBudget DEF Admit, Amounts
  <2>2. GlobalWorth' = GlobalWorth - Cost
    <3>1. Refilled(GlobalWorth - Cost, now, GlobalBurst, GlobalRate) = GlobalWorth - Cost
      BY <1>1, <2>0, RefilledNow DEF Amounts
    <3> QED
      BY <1>4, <3>1 DEF Admit, GlobalWorth, Refilled
  <2>3. GlobalBudget'
    <3>1. now - gSince \in Nat
      BY <1>1 DEF Amounts
    <3>2. GlobalRate * (now - gSince) \in Nat
      BY <3>1, TimesNat
    <3> QED
      BY <1>1, <1>4, <2>2, <3>2 DEF Admit, RateInv, GlobalBudget, Amounts
  <2> QED
    BY <2>1, <2>3 DEF RateInv
<1>5. CASE Tick
  <2>1. Amounts'
    BY <1>1, <1>5 DEF Tick, Amounts
  <2>2. ClientBudget'
    <3>0. spent' = spent /\ since' = since /\ now' = now + 1
      BY <1>5 DEF Tick
    <3> SUFFICES ASSUME NEW c \in Client
                 PROVE  spent[c] + Refilled(tokens[c], last[c], Burst, Rate)'
                          <= Burst + Rate * (now + 1 - since[c])
      <4>0. \A c \in Client : /\ now' - since'[c] = now + 1 - since[c]
                               /\ now + 1 - since[c] \in Nat
        BY <1>1, <3>0 DEF Amounts
      <4>1. \A c \in Client : Rate * (now' - since'[c]) = Rate * (now + 1 - since[c])
        BY <4>0
      <4> QED
        BY <3>0, <4>1 DEF ClientBudget
    <3>1. Refilled(tokens[c], last[c], Burst, Rate)'
            <= Refilled(tokens[c], last[c], Burst, Rate) + Rate
      BY <1>1, <1>5, RefilledTick DEF Tick, Amounts, Refilled
    <3>2. Rate * (now + 1 - since[c]) = Rate * (now - since[c]) + Rate
      BY <1>1, OneMore DEF Amounts
    <3>3. now - since[c] \in Nat
      BY <1>1 DEF Amounts
    <3>4. Rate * (now - since[c]) \in Nat
      BY <3>3, TimesNat
    <3>5. Refilled(tokens[c], last[c], Burst, Rate) \in Nat
      BY <1>1, RefilledBounds DEF Amounts
    <3>6. Refilled(tokens[c], last[c], Burst, Rate)' \in Nat
      BY <1>1, <1>5, RefilledTick DEF Tick, Amounts, Refilled
    <3> QED
      BY <1>1, <3>1, <3>2, <3>4, <3>5, <3>6 DEF RateInv, ClientBudget, Amounts
  <2>3. GlobalBudget'
    <3>1. GlobalWorth' <= GlobalWorth + GlobalRate
      BY <1>1, <1>5, RefilledTick DEF Tick, Amounts, GlobalWorth, Refilled
    <3>2. GlobalRate * (now + 1 - gSince) = GlobalRate * (now - gSince) + GlobalRate
      BY <1>1, OneMore DEF Amounts
    <3>3. now - gSince \in Nat
      BY <1>1 DEF Amounts
    <3>4. GlobalRate * (now - gSince) \in Nat
      BY <3>3, TimesNat
    <3>5. GlobalWorth' \in Nat
      BY <1>1, <1>5, RefilledTick DEF Tick, Amounts, GlobalWorth, Refilled
    <3>6. gSpent' = gSpent /\ gSince' = gSince /\ now' = now + 1
      BY <1>5 DEF Tick
    <3>7. gSpent + GlobalWorth <= GlobalBurst + GlobalRate * (now - gSince)
      BY DEF RateInv, GlobalBudget
    <3>8. gSpent \in Nat
      BY <1>1 DEF Amounts
    <3>9. gSpent + GlobalWorth' <= GlobalBurst + GlobalRate * (now + 1 - gSince)
      <4> DEFINE w == GlobalWorth
                 w2 == GlobalWorth'
                 p == GlobalRate * (now - gSince)
                 p2 == GlobalRate * (now + 1 - gSince)
      <4>1. /\ gSpent \in Nat /\ w \in Nat /\ w2 \in Nat /\ p \in Nat
            /\ p2 = p + GlobalRate /\ w2 <= w + GlobalRate /\ gSpent + w <= GlobalBurst + p
        BY <1>1, <3>1, <3>2, <3>4, <3>5, <3>7, <3>8
      <4> HIDE DEF w, w2, p, p2
      <4>2. gSpent + w2 <= GlobalBurst + p2
        BY <4>1
      <4> QED
        BY <4>2 DEF w2, p2
    <3>10. GlobalRate * (now' - gSince') = GlobalRate * (now + 1 - gSince)
      <4>1. now' - gSince' = now + 1 - gSince /\ now + 1 - gSince \in Nat
        BY <1>1, <3>6 DEF Amounts
      <4> QED
        BY <4>1
    <3> QED
      BY <3>6, <3>9, <3>10 DEF GlobalBudget
  <2> QED
    BY <2>1, <2>2, <2>3 DEF RateInv
<1>6. CASE Observe
  <2>1. Amounts'
    BY <1>1, <1>6 DEF Observe, Amounts
  <2>2. Rate * (now - now) = 0 /\ GlobalRate * (now - now) = 0
    BY <1>1 DEF Amounts
  <2>3. ClientBudget'
    <3> SUFFICES ASSUME NEW c \in Client
                 PROVE  Refilled(tokens[c], last[c], Burst, Rate) <= Burst
      BY <1>1, <1>6, <2>2, RefilledBounds DEF Observe, ClientBudget, Refilled, Amounts
    <3> QED
      BY <1>1, RefilledBounds DEF Amounts
  <2>4. GlobalBudget'
    BY <1>1, <1>6, <2>2 DEF Observe, GlobalBudget, GlobalWorth, Refilled
  <2> QED
    BY <2>1, <2>3, <2>4 DEF RateInv
<1>7. CASE UNCHANGED vars
  BY <1>7 DEF vars, RateInv, Amounts, ClientBudget, GlobalBudget, GlobalWorth, Refilled
<1> QED
  BY <1>2, <1>3, <1>4, <1>5, <1>6, <1>7 DEF Next

LEMMA RateAlways == Spec => []RateInv
  BY RateInit, RateStep, PTL DEF Spec

(* AdmissionLimiter's global bucket: in every window the requests admitted *)
(* cost at most one global burst plus the global rate times its length,    *)
(* whatever the clients do.                                                *)
THEOREM LimiterGlobalRate == Spec => []GlobalRateHolds
<1>1. RateInv => GlobalRateHolds
  <2> SUFFICES ASSUME RateInv PROVE GlobalRateHolds
    OBVIOUS
  <2>1. Amounts /\ GlobalWorth \in Nat
    BY LimiterAssumption, RefilledBounds DEF RateInv, Amounts, GlobalWorth
  <2>2. now - gSince \in Nat
    BY <2>1 DEF Amounts
  <2>3. GlobalRate * (now - gSince) \in Nat
    BY <2>2, TimesNat, LimiterAssumption
  <2> QED
    BY <2>1, <2>3, LimiterAssumption DEF RateInv, GlobalBudget, GlobalRateHolds, Amounts
<1> QED
  BY <1>1, RateAlways, PTL

(* AdmissionLimiter's per-client buckets: in every window no longer than   *)
(* its bucket is kept, a client gets at most one burst plus its rate times *)
(* the window's length past its bucket.                                    *)
THEOREM LimiterClientRate == Spec => []ClientRateHolds
<1>1. RateInv => ClientRateHolds
  <2> SUFFICES ASSUME RateInv, NEW c \in Client
               PROVE  spent[c] <= Burst + Rate * (now - since[c])
    BY DEF ClientRateHolds
  <2>1. Amounts /\ Refilled(tokens[c], last[c], Burst, Rate) \in Nat
    BY LimiterAssumption, RefilledBounds DEF RateInv, Amounts
  <2>2. now - since[c] \in Nat
    BY <2>1 DEF Amounts
  <2>3. Rate * (now - since[c]) \in Nat
    BY <2>2, TimesNat, LimiterAssumption
  <2> QED
    BY <2>1, <2>3, LimiterAssumption DEF RateInv, ClientBudget, Amounts
<1> QED
  BY <1>1, RateAlways, PTL

-----------------------------------------------------------------------------
(* The dict of buckets.  Who comes later in it has asked since.            *)

OrderInv ==
  /\ order \in Seq(Client) /\ Len(order) <= MaxClients
  /\ \A i, j \in 1 .. Len(order) : i < j => order[i] # order[j] /\ order[j] \in after[order[i]]
  /\ after \in [Client -> SUBSET Client]
  /\ \A c \in Client : IsFiniteSet(after[c])

LEMMA OrderInit == Init => OrderInv
<1> SUFFICES ASSUME Init PROVE OrderInv
  OBVIOUS
<1>1. IsFiniteSet({})
  BY FS_EmptySet
<1>2. order = <<>> /\ after = [c \in Client |-> {}]
  BY DEF Init
<1>3. order \in Seq(Client) /\ Len(order) = 0
  BY <1>2
<1> QED
  BY <1>1, <1>2, <1>3, LimiterAssumption DEF OrderInv

(* Only a client without a bucket evicts another's, and only when there    *)
(* are MaxClients.                                                         *)
LEMMA EvictingWhenFull ==
  ASSUME OrderInv, NEW a \in Client
  PROVE  /\ Popped(a) \in Seq(Client)
         /\ Known(a, order) => Len(Popped(a)) = Len(order) - 1 /\ ~Evicting(a)
         /\ Evicting(a) => ~Known(a, order) /\ Len(order) = MaxClients
<1>1. order \in Seq(Client) /\ Len(order) \in Nat /\ Len(order) <= MaxClients /\ MaxClients \in Nat
  BY LimiterAssumption DEF OrderInv
<1>2. CASE Known(a, order)
  <2>1. Len(order) - 1 \in Nat
    BY <1>1, <1>2 DEF Known
  <2> DEFINE n == Len(order) - 1
             k == CHOOSE i \in 1 .. Len(order) : order[i] = a
  <2>2. Popped(a) = [i \in 1 .. n |-> IF i < k THEN order[i] ELSE order[i + 1]]
    BY <1>2 DEF Popped
  <2>3. \A i \in 1 .. n : order[i] \in Client /\ order[i + 1] \in Client
    BY <1>1
  <2> HIDE DEF n, k
  <2>4. n \in Nat /\ n = Len(order) - 1
    BY <2>1 DEF n
  <2>5. Popped(a) \in Seq(Client) /\ Len(Popped(a)) = n
    BY <2>2, <2>3, <2>4
  <2>6. Len(UsedLast(a)) = n + 1
    BY <2>4, <2>5 DEF UsedLast
  <2>7. ~Evicting(a)
    BY <1>1, <2>4, <2>6 DEF Evicting
  <2> QED BY <1>2, <2>4, <2>5, <2>7
<1>3. CASE ~Known(a, order)
  <2>1. Popped(a) = order
    BY <1>3 DEF Popped
  <2>2. Len(UsedLast(a)) = Len(order) + 1
    BY <1>1, <2>1 DEF UsedLast
  <2>3. Evicting(a) => Len(order) = MaxClients
    BY <1>1, <2>2 DEF Evicting
  <2> QED BY <1>1, <1>3, <2>1, <2>3
<1> QED BY <1>2, <1>3

(* After a request the dict is a part of the old one, in the old order,    *)
(* and then the client that asked.                                         *)
LEMMA NextOrder ==
  ASSUME OrderInv, NEW a \in Client, order' = Trimmed(a)
  PROVE  \E m \in Nat : \E e \in [1 .. m -> 1 .. Len(order)] :
           /\ m < MaxClients
           /\ \A i, j \in 1 .. m : i < j => e[i] < e[j]
           /\ order' \in Seq(Client) /\ Len(order') = m + 1 /\ order'[m + 1] = a
           /\ \A i \in 1 .. m : order'[i] = order[e[i]] /\ order'[i] # a
<1>1. /\ order \in Seq(Client) /\ Len(order) \in Nat /\ Len(order) <= MaxClients
      /\ MaxClients \in Nat \ {0}
      /\ \A i, j \in 1 .. Len(order) : i < j => order[i] # order[j]
  BY LimiterAssumption DEF OrderInv
<1> DEFINE n == Len(order)
<1>2. CASE Known(a, order)
  <2> DEFINE k == CHOOSE i \in 1 .. n : order[i] = a
             m == n - 1
             e == [i \in 1 .. m |-> IF i < k THEN i ELSE i + 1]
  <2>1. k \in 1 .. n /\ order[k] = a
    BY <1>2 DEF Known
  <2>2. \A i \in 1 .. n : i # k => order[i] # a
    <3> HIDE DEF k
    <3> QED BY <1>1, <2>1
  <2>3. Popped(a) = [i \in 1 .. m |-> IF i < k THEN order[i] ELSE order[i + 1]]
    BY <1>2 DEF Popped
  <2> HIDE DEF k
  <2>4. m \in Nat /\ m < MaxClients /\ e \in [1 .. m -> 1 .. n]
    BY <1>1, <2>1
  <2>5. \A i, j \in 1 .. m : i < j => e[i] < e[j]
    BY <1>1, <2>1
  <2>6. Popped(a) \in Seq(Client) /\ Len(Popped(a)) = m /\ ~Evicting(a)
    BY <1>2, EvictingWhenFull
  <2>7. \A i \in 1 .. m : Popped(a)[i] = order[e[i]] /\ order[e[i]] # a
    BY <1>1, <2>1, <2>2, <2>3
  <2>8. order' = Append(Popped(a), a)
    BY <2>6 DEF Trimmed, UsedLast
  <2> HIDE DEF m, e
  <2>9. /\ order' \in Seq(Client) /\ Len(order') = m + 1 /\ order'[m + 1] = a
        /\ \A i \in 1 .. m : order'[i] = Popped(a)[i]
    BY <2>4, <2>6, <2>8
  <2>10. \A i \in 1 .. m : order'[i] = order[e[i]] /\ order'[i] # a
    BY <2>7, <2>9
  <2> HIDE DEF n
  <2> QED BY <2>4, <2>5, <2>9, <2>10 DEF n
<1>3. CASE ~Known(a, order) /\ ~Evicting(a)
  <2> DEFINE e == [i \in 1 .. n |-> i]
  <2>1. order' = Append(order, a) /\ n < MaxClients
    BY <1>1, <1>3 DEF Trimmed, UsedLast, Popped, Evicting
  <2>2. e \in [1 .. n -> 1 .. n] /\ \A i, j \in 1 .. n : i < j => e[i] < e[j]
    OBVIOUS
  <2>3. \A i \in 1 .. n : order'[i] = order[e[i]] /\ order'[i] # a
    BY <1>1, <1>3, <2>1 DEF Known
  <2>4. order' \in Seq(Client) /\ Len(order') = n + 1 /\ order'[n + 1] = a /\ n \in Nat
    BY <1>1, <2>1
  <2> HIDE DEF e, n
  <2> QED BY <2>1, <2>2, <2>3, <2>4 DEF n
<1>4. CASE ~Known(a, order) /\ Evicting(a)
  <2> DEFINE m == n - 1
             e == [i \in 1 .. m |-> i + 1]
             q == Append(order, a)
  <2>1. order' = Tail(q)
    BY <1>4 DEF Trimmed, UsedLast, Popped
  <2>2. n = MaxClients
    BY <1>4, EvictingWhenFull
  <2>3. m \in Nat /\ m < MaxClients /\ e \in [1 .. m -> 1 .. n]
    BY <1>1, <2>2
  <2>4. \A i, j \in 1 .. m : i < j => e[i] < e[j]
    OBVIOUS
  <2>5. /\ q \in Seq(Client) /\ Len(q) = n + 1 /\ q[n + 1] = a
        /\ \A i \in 1 .. n : q[i] = order[i] /\ order[i] # a
    BY <1>1, <1>4 DEF Known
  <2>6. order' \in Seq(Client) /\ Len(order') = n /\ \A i \in 1 .. n : order'[i] = q[i + 1]
    <3> HIDE DEF q
    <3> QED BY <1>1, <2>1, <2>2, <2>5
  <2>7. \A i \in 1 .. m : order'[i] = order[e[i]] /\ order'[i] # a
    BY <1>1, <2>5, <2>6
  <2>8. Len(order') = m + 1 /\ order'[m + 1] = a
    BY <1>1, <2>2, <2>5, <2>6
  <2> HIDE DEF m, e, q
  <2> QED BY <2>3, <2>4, <2>6, <2>7, <2>8
<1> QED BY <1>2, <1>3, <1>4

LEMMA AskKeepsOrder ==
  ASSUME OrderInv, NEW a \in Client, Ask(a)
  PROVE  OrderInv'
<1>0. PICK m \in Nat : \E e \in [1 .. m -> 1 .. Len(order)] :
        /\ m < MaxClients
        /\ \A i, j \in 1 .. m : i < j => e[i] < e[j]
        /\ order' \in Seq(Client) /\ Len(order') = m + 1 /\ order'[m + 1] = a
        /\ \A i \in 1 .. m : order'[i] = order[e[i]] /\ order'[i] # a
  BY NextOrder DEF Ask
<1>1. PICK e \in [1 .. m -> 1 .. Len(order)] :
        /\ m < MaxClients
        /\ \A i, j \in 1 .. m : i < j => e[i] < e[j]
        /\ order' \in Seq(Client) /\ Len(order') = m + 1 /\ order'[m + 1] = a
        /\ \A i \in 1 .. m : order'[i] = order[e[i]] /\ order'[i] # a
  BY <1>0
<1>2. after' = [x \in Client |-> IF x = a \/ ~Known(x, order') THEN {} ELSE after[x] \cup {a}]
  BY DEF Ask
<1>3. ASSUME NEW c \in Client PROVE IsFiniteSet(after'[c]) /\ after'[c] \in SUBSET Client
  <2>1. IsFiniteSet(after[c]) /\ IsFiniteSet({a}) /\ IsFiniteSet({})
    BY FS_EmptySet, FS_Singleton DEF OrderInv
  <2>2. IsFiniteSet(after[c] \cup {a})
    BY <2>1, FS_Union
  <2> QED BY <1>2, <2>1, <2>2 DEF OrderInv
<1>4. after' \in [Client -> SUBSET Client]
  BY <1>2, <1>3
<1>5. \A i \in 1 .. m : after'[order'[i]] = after[order'[i]] \cup {a}
  <2> SUFFICES ASSUME NEW i \in 1 .. m PROVE after'[order'[i]] = after[order'[i]] \cup {a}
    OBVIOUS
  <2>1. i \in 1 .. Len(order') /\ order'[i] \in Client /\ order'[i] # a
    BY <1>1
  <2>2. Known(order'[i], order')
    BY <2>1 DEF Known
  <2> QED BY <1>2, <2>1, <2>2
<1>6. ASSUME NEW i \in 1 .. Len(order'), NEW j \in 1 .. Len(order'), i < j
      PROVE  order'[i] # order'[j] /\ order'[j] \in after'[order'[i]]
  <2>1. i \in 1 .. m /\ (j \in 1 .. m \/ j = m + 1)
    BY <1>1, <1>6
  <2>2. CASE j = m + 1
    BY <1>1, <1>5, <2>1, <2>2
  <2>3. CASE j \in 1 .. m
    <3>1. e[i] < e[j] /\ e[i] \in 1 .. Len(order) /\ e[j] \in 1 .. Len(order)
      BY <1>1, <1>6, <2>1, <2>3
    <3>2. order[e[i]] # order[e[j]] /\ order[e[j]] \in after[order[e[i]]]
      BY <3>1 DEF OrderInv
    <3> QED BY <1>1, <1>5, <2>1, <2>3, <3>2
  <2> QED BY <2>1, <2>2, <2>3
<1>7. Len(order') <= MaxClients
  BY <1>1, LimiterAssumption
<1> QED BY <1>1, <1>3, <1>4, <1>6, <1>7 DEF OrderInv

LEMMA OrderStep == OrderInv /\ [Next]_vars => OrderInv'
<1> SUFFICES ASSUME OrderInv, [Next]_vars PROVE OrderInv'
  OBVIOUS
<1>1. ASSUME NEW c \in Client, ClientRefuses(c) \/ GlobalRefuses(c) \/ Admit(c) PROVE OrderInv'
  BY <1>1, AskKeepsOrder DEF ClientRefuses, GlobalRefuses, Admit
<1>2. CASE Tick \/ Observe \/ UNCHANGED vars
  BY <1>2 DEF Tick, Observe, vars, OrderInv
<1> QED BY <1>1, <1>2 DEF Next

(* The bucket that goes is the first one, and everybody behind it has      *)
(* asked since its client did.                                             *)
LEMMA EvictedStep ==
  ASSUME OrderInv, NEW a \in Client, order' = Trimmed(a),
         NEW c \in Client, Known(c, order), ~Known(c, order')
  PROVE  Cardinality(after[c] \cup {order'[Len(order')]}) >= MaxClients
<1>1. /\ order \in Seq(Client) /\ Len(order) \in Nat /\ MaxClients \in Nat \ {0}
      /\ \A i, j \in 1 .. Len(order) : i < j => order[i] # order[j] /\ order[j] \in after[order[i]]
  BY LimiterAssumption DEF OrderInv
<1>2. /\ order'[Len(order')] = a /\ Len(order') \in Nat \ {0}
      /\ Known(a, order')
  BY NextOrder DEF Known
<1>3. c # a
  BY <1>2
<1>4. PICK p \in 1 .. Len(order) : order[p] = c
  BY DEF Known
<1>5. Evicting(a)
  <2> SUFFICES ASSUME ~Evicting(a) PROVE FALSE
    OBVIOUS
  <2>1. order' = Append(Popped(a), a)
    BY DEF Trimmed, UsedLast
  <2>2. Known(c, Popped(a))
    <3>1. CASE ~Known(a, order)
      BY <1>1, <1>4, <3>1 DEF Popped, Known
    <3>2. CASE Known(a, order)
      <4> DEFINE k == CHOOSE i \in 1 .. Len(order) : order[i] = a
      <4>1. k \in 1 .. Len(order) /\ order[k] = a
        BY <3>2 DEF Known
      <4>2. Popped(a) = [i \in 1 .. Len(order) - 1 |-> IF i < k THEN order[i] ELSE order[i + 1]]
        BY <3>2 DEF Popped
      <4>3. Len(Popped(a)) = Len(order) - 1
        BY <3>2, EvictingWhenFull
      <4> HIDE DEF k
      <4>4. p # k
        BY <1>3, <1>4, <4>1
      <4>5. CASE p < k
        <5>1. p \in 1 .. Len(order) - 1 /\ Popped(a)[p] = c
          BY <1>1, <1>4, <4>1, <4>2, <4>5
        <5> QED BY <4>3, <5>1 DEF Known
      <4>6. CASE p > k
        <5>1. p - 1 \in 1 .. Len(order) - 1 /\ ~(p - 1 < k) /\ p - 1 + 1 = p
          BY <1>1, <1>4, <4>1, <4>6
        <5>2. Popped(a)[p - 1] = c
          BY <1>4, <4>2, <5>1
        <5> QED BY <4>3, <5>1, <5>2 DEF Known
      <4> QED BY <4>1, <4>4, <4>5, <4>6
    <3> QED BY <3>1, <3>2
  <2>3. Popped(a) \in Seq(Client)
    BY EvictingWhenFull
  <2>4. Known(c, order')
    BY <2>1, <2>2, <2>3 DEF Known
  <2> QED BY <2>4
<1>6. ~Known(a, order) /\ Len(order) = MaxClients
  BY <1>5, EvictingWhenFull
<1>7. order' = Tail(Append(order, a))
  BY <1>5, <1>6 DEF Trimmed, UsedLast, Popped
<1>8. p = 1
  <2> SUFFICES ASSUME p > 1 PROVE FALSE
    BY <1>4
  <2>1. Append(order, a) \in Seq(Client) /\ Len(Append(order, a)) = Len(order) + 1
        /\ Append(order, a)[p] = c
    BY <1>1, <1>4
  <2>2. p - 1 \in 1 .. Len(order') /\ order'[p - 1] = c
    BY <1>1, <1>4, <1>7, <2>1
  <2> QED BY <2>2 DEF Known
<1> DEFINE g == [i \in 1 .. MaxClients |-> IF i < MaxClients THEN order[i + 1] ELSE a]
           T == after[c] \cup {a}
<1>9. \A i \in 1 .. MaxClients : i < MaxClients => order[i + 1] \in after[c] /\ order[i + 1] # a
  BY <1>1, <1>4, <1>6, <1>8 DEF Known
<1>10. g \in [1 .. MaxClients -> T]
  BY <1>9
<1>11. \A i, j \in 1 .. MaxClients : i < j => g[i] # g[j]
  BY <1>1, <1>6, <1>9
<1>12. g \in Injection(1 .. MaxClients, T)
  BY <1>1, <1>10, <1>11 DEF Injection, IsInjective
<1>13. IsFiniteSet(T)
  <2>1. IsFiniteSet(after[c]) /\ IsFiniteSet({a})
    BY FS_Singleton DEF OrderInv
  <2> QED BY <2>1, FS_Union
<1>14. Cardinality(1 .. MaxClients) <= Cardinality(T)
  <2> HIDE DEF g, T
  <2> QED BY <1>12, <1>13, FS_Injection
<1>15. Cardinality(1 .. MaxClients) = MaxClients
  <2>1. 1 \in Int /\ MaxClients \in Int
    BY <1>1
  <2>2. Cardinality(1 .. MaxClients) = IF 1 > MaxClients THEN 0 ELSE MaxClients - 1 + 1
    BY <2>1, FS_Interval
  <2> QED BY <1>1, <2>2
<1>16. Cardinality(T) \in Nat
  BY <1>13, FS_CardinalityType
<1> HIDE DEF T
<1>17. Cardinality(T) >= MaxClients
  BY <1>1, <1>14, <1>15, <1>16
<1> QED BY <1>2, <1>17 DEF T

(* THEOREM: AdmissionLimiter.allow forgets a client's bucket only after as *)
(* many other clients as there are buckets have asked since the client     *)
(* last did.                                                               *)
THEOREM LimiterEvictsLeastRecent == Spec => EvictsLeastRecent
<1>1. OrderInv /\ [Next]_vars
        => [\A c \in Client : Known(c, order) /\ ~Known(c, order')
              => Cardinality(after[c] \cup {order'[Len(order')]}) >= MaxClients]_vars
  <2> SUFFICES ASSUME OrderInv, [Next]_vars,
                      NEW c \in Client, Known(c, order), ~Known(c, order')
               PROVE  Cardinality(after[c] \cup {order'[Len(order')]}) >= MaxClients
    OBVIOUS
  <2>1. order' # order
    OBVIOUS
  <2>2. PICK a \in Client : Ask(a)
    BY <2>1 DEF Next, ClientRefuses, GlobalRefuses, Admit, Tick, Observe, vars
  <2> QED BY <2>2, EvictedStep DEF Ask
<1> QED BY <1>1, OrderInit, OrderStep, PTL DEF Spec, EvictsLeastRecent

-----------------------------------------------------------------------------
(* Turn.                                                                   *)

(* A chosen secret that has a successor lasts as long as a credential: the  *)
(* successor would be active, and newer, otherwise.                         *)
LEMMA ChosenLasts ==
  ASSUME now \in Nat, NEW k \in Secret, Chosen(k), NEW j \in Secret, Succeeds(j, k)
  PROVE  now + TurnTTL <= Expires[k]
<1> USE TurnAssumption
<1>1. k \in Active /\ \A i \in Active : Activates[i] <= Activates[k]
  BY DEF Chosen
<1>2. /\ Activates[j] \in Int /\ Expires[j] \in Int
      /\ Activates[k] \in Int /\ Expires[k] \in Int
  OBVIOUS
<1>3. now <= Expires[k]
  BY <1>1 DEF Active
<1>4. j \notin Active
  BY <1>1, <1>2 DEF Succeeds
<1> QED
  BY <1>2, <1>3, <1>4 DEF Succeeds, Active

TurnInv == now \in Nat /\ CredentialsCovered

LEMMA TurnInitInv == TurnInit => TurnInv
  BY DEF TurnInit, TurnInv, Init, CredentialsCovered

LEMMA TurnStepInv == TurnInv /\ [TurnNext]_<<vars, turnVars>> => TurnInv'
<1> SUFFICES ASSUME TurnInv, [TurnNext]_<<vars, turnVars>> PROVE TurnInv'
  OBVIOUS
<1>1. ASSUME now' \in Nat, UNCHANGED issued PROVE TurnInv'
  BY <1>1 DEF TurnInv, CredentialsCovered, Succeeds
<1>2. ASSUME NEW c \in Client, Admission(c) PROVE TurnInv'
  BY <1>1, <1>2 DEF Admission, TurnInv, vars
<1>3. ASSUME NEW c \in Client, TurnRequest(c) PROVE TurnInv'
  BY <1>1, <1>3 DEF TurnRequest, TurnInv, ClientRefuses, GlobalRefuses, Admit
<1>4. ASSUME NEW c \in Client, TurnRefused(c) PROVE TurnInv'
  BY <1>1, <1>4 DEF TurnRefused, TurnInv, vars
<1>5. ASSUME NEW c \in Client, TurnIssued(c) PROVE TurnInv'
  <2>1. PICK k \in Secret \cup {Legacy} :
          Chosen(k) /\ issued' = {Credential(k)}
    BY <1>5 DEF TurnIssued
  <2>2. now' = now
    BY <1>5 DEF TurnIssued, vars
  <2>3. ASSUME NEW x \in issued', NEW j \in Secret, x.secret \in Secret, Succeeds(j, x.secret)
        PROVE  x.end <= Expires[x.secret]
    <3>1. x.secret = k /\ x.end = now + TurnTTL
      BY <2>1 DEF Credential
    <3> QED
      BY <2>1, <2>3, <3>1, ChosenLasts DEF TurnInv
  <2> QED
    BY <2>2, <2>3 DEF TurnInv, CredentialsCovered, Succeeds
<1>6. CASE TurnTick
  BY <1>1, <1>6, LimiterAssumption DEF TurnTick, Tick, TurnInv
<1>7. CASE Observe /\ UNCHANGED turnVars
  BY <1>1, <1>7 DEF Observe, turnVars, TurnInv
<1>8. CASE UNCHANGED <<vars, turnVars>>
  BY <1>1, <1>8 DEF vars, turnVars, TurnInv
<1> QED
  BY <1>2, <1>3, <1>4, <1>5, <1>6, <1>7, <1>8 DEF TurnNext

(* TurnCredentialIssuer.issue: with overlapping secrets no credential       *)
(* outlives the secret it is signed with.                                   *)
THEOREM TurnCredentialsCovered == TurnSpec => []CredentialsCovered
<1>1. TurnInv => CredentialsCovered
  BY DEF TurnInv
<1> QED
  BY <1>1, TurnInitInv, TurnStepInv, PTL DEF TurnSpec

(* POST /v2/turn with its limiter does what the limiter does, or nothing,   *)
(* so every theorem about Limiter holds of it.                              *)
THEOREM TurnIsLimited == TurnSpec => Spec
<1>1. TurnInit => Init
  BY DEF TurnInit
<1>2. [TurnNext]_<<vars, turnVars>> => [Next]_vars
  BY DEF TurnNext, Admission, TurnRequest, TurnRefused, TurnIssued, TurnTick, Next
<1> QED
  BY <1>1, <1>2, PTL DEF TurnSpec, Spec

(* AdmissionLimiter.allow in front of /v2/turn: the global and the          *)
(* per-client rate hold in every window.                                    *)
THEOREM TurnRates == TurnSpec => [](GlobalRateHolds /\ ClientRateHolds)
  BY TurnIsLimited, LimiterGlobalRate, LimiterClientRate, PTL

(* And POST /v2/turn forgets buckets only in the order of their last use.   *)
THEOREM TurnEvicts == TurnSpec => EvictsLeastRecent
  BY TurnIsLimited, LimiterEvictsLeastRecent, PTL

=============================================================================

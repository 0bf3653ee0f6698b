----------------------------- MODULE RelayProofs -----------------------------
(***************************************************************************)
(* Proofs about Relay, for every set of messages and sessions, every limit *)
(* and every window.  The invariant that carries them says that the cache  *)
(* holds an entry within its window for exactly the keys that passed in    *)
(* the last Window ticks, and that a session's last sequence covers every  *)
(* signal that ever passed.                                                *)
(***************************************************************************)
EXTENDS Relay, FiniteSetTheorems, TLAPS

(* The entry of a key that passed a ticks ago has Window - a ticks left.   *)
AgeAgrees ==
  \A k \in Key :
    /\ age[k] \in 0 .. Window - 1 => k \in seen /\ left[k] = Window - age[k]
    /\ left[k] > 0 => k \in seen /\ age[k] \in 0 .. Window - 1

(* No signal that passed is above its session's last sequence.             *)
SequenceCovers ==
  \A s \in Session, q \in Sequence : age[<<s, q>>] # Never => q <= sequence[s]

Verdicts == OncePerWindow /\ SignalsOnce /\ FullOfLive /\ DuplicatePassed

RelayInv == TypeOK /\ AgeAgrees /\ SequenceCovers /\ Verdicts

-----------------------------------------------------------------------------

LEMMA KeyFacts ==
  /\ Content \subseteq Key /\ NodeMessage \subseteq Key
  /\ \A s \in Session, q \in Sequence : <<s, q>> \in Key /\ <<s, q>> \in Signal
  /\ \A k \in Content \cup NodeMessage : k \notin Signal
  BY RelayAssumption DEF Key, Signal

(* Subsets of Key are finite, and adding an element adds at most one.      *)
LEMMA Sizes ==
  ASSUME NEW S \in SUBSET Key
  PROVE  /\ Cardinality(S) \in Nat
         /\ \A T \in SUBSET S : Cardinality(T) <= Cardinality(S)
         /\ \A k \in Key : Cardinality(S \cup {k}) <= Cardinality(S) + 1
         /\ \A k \in S : Cardinality(S \cup {k}) = Cardinality(S)
<1>1. IsFiniteSet(S)
  BY FS_Subset, RelayAssumption
<1>2. Cardinality(S) \in Nat
  BY <1>1, FS_CardinalityType
<1>3. \A T \in SUBSET S : Cardinality(T) <= Cardinality(S)
  BY <1>1, FS_Subset
<1>4. \A k \in Key : k \notin S => Cardinality(S \cup {k}) = Cardinality(S) + 1
  BY <1>1, FS_AddElement
<1>5. \A k \in S : S \cup {k} = S
  OBVIOUS
<1> QED
  BY <1>2, <1>3, <1>4, <1>5

LEMMA RelayInit == Init => RelayInv
<1> SUFFICES ASSUME Init PROVE RelayInv
  OBVIOUS
<1>1. Cardinality(seen) = 0
  BY FS_EmptySet DEF Init
<1>2. TypeOK
  BY <1>1, RelayAssumption DEF Init, TypeOK, NoOutcome, Never
<1>3. AgeAgrees
  BY RelayAssumption DEF Init, AgeAgrees, Never
<1>4. SequenceCovers
  BY KeyFacts DEF Init, SequenceCovers
<1>5. Verdicts
  BY DEF Init, Verdicts, NoOutcome, OncePerWindow, SignalsOnce, FullOfLive, DuplicatePassed
<1> QED
  BY <1>2, <1>3, <1>4, <1>5 DEF RelayInv

(* A check keeps the cache within its limit, gives the verdict its ages    *)
(* justify, and resets the age of no key but its own.                      *)
LEMMA CheckKeeps ==
  ASSUME RelayInv, NEW k \in Key, Check(k),
         k \in Signal => age[k] = Never
  PROVE  /\ seen' \subseteq Key /\ Cardinality(seen') <= MaxEntries
         /\ left' \in [Key -> 0 .. Window]
         /\ age' \in [Key -> Never .. Window]
         /\ outcome' \in [result : {"none", "pass", "duplicate", "full"},
                          gap : Never .. Window, signal : BOOLEAN]
         /\ AgeAgrees' /\ Verdicts'
         /\ age' = IF Passes(k) THEN [age EXCEPT ![k] = 0] ELSE age
<1> USE RelayAssumption
<1>0. /\ seen \subseteq Key /\ Cardinality(seen) \in Nat /\ Cardinality(seen) <= MaxEntries
      /\ left \in [Key -> 0 .. Window] /\ age \in [Key -> Never .. Window]
      /\ AgeAgrees
  BY Sizes DEF RelayInv, TypeOK
<1>1. age' = IF Passes(k) THEN [age EXCEPT ![k] = 0] ELSE age
  BY DEF Check
<1>2. age' \in [Key -> Never .. Window]
  BY <1>0, <1>1 DEF Never
<1>3. /\ outcome'.gap = age[k]
      /\ outcome'.result = IF Duplicate(k) THEN "duplicate"
                           ELSE IF Full(k) THEN "full" ELSE "pass"
      /\ outcome'.signal <=> k \in Signal
  BY DEF Check
<1>4. outcome' \in [result : {"none", "pass", "duplicate", "full"},
                    gap : Never .. Window, signal : BOOLEAN]
  <2>1. /\ age[k] \in Never .. Window
        /\ (k \in Signal) \in BOOLEAN
        /\ (IF Duplicate(k) THEN "duplicate" ELSE IF Full(k) THEN "full" ELSE "pass")
             \in {"none", "pass", "duplicate", "full"}
    BY <1>0
  <2> QED
    BY <2>1, Zenon DEF Check
<1>5. OncePerWindow' /\ SignalsOnce' /\ DuplicatePassed'
  <2>1. Duplicate(k) => age[k] \in 0 .. Window - 1
    BY <1>0 DEF Duplicate, AgeAgrees
  <2>2. ~Duplicate(k) => age[k] \in {Never, Window}
    BY <1>0 DEF Duplicate, AgeAgrees, Never
  <2> QED
    BY <1>3, <2>1, <2>2 DEF OncePerWindow, SignalsOnce, DuplicatePassed
<1>6. CASE Duplicate(k)
  <2>1. seen' = seen /\ left' = left /\ age' = age
    BY <1>1, <1>6 DEF Check, Passes
  <2>2. AgeAgrees'
    BY <1>0, <2>1 DEF AgeAgrees
  <2>3. FullOfLive'
    BY <1>3, <1>6 DEF FullOfLive
  <2> QED
    BY <1>0, <1>1, <1>2, <1>4, <1>5, <2>1, <2>2, <2>3 DEF Verdicts
<1>7. CASE ~Duplicate(k)
  <2>1. /\ Kept(k) \subseteq seen /\ Live \subseteq Kept(k)
        /\ NeedsRoom(k) => Kept(k) = Live
        /\ k \in seen => k \in Kept(k)
    BY DEF Kept, Pruned, Live, NeedsRoom
  <2>2. /\ Cardinality(Kept(k)) \in Nat /\ Cardinality(Kept(k)) <= Cardinality(seen)
        /\ Cardinality(Kept(k) \cup {k}) \in Nat
        /\ Cardinality(Kept(k) \cup {k}) <= Cardinality(Kept(k)) + 1
        /\ k \in Kept(k) => Cardinality(Kept(k) \cup {k}) = Cardinality(Kept(k))
    <3>1. Kept(k) \in SUBSET Key /\ seen \in SUBSET Key /\ Kept(k) \cup {k} \in SUBSET Key
      BY <1>0, <2>1
    <3> QED
      BY <3>1, <2>1, Sizes
  <2>3. CASE Full(k)
    <3>1. seen' = Live /\ NeedsRoom(k) /\ age' = age
      BY <1>1, <1>7, <2>1, <2>3 DEF Check, Full, Passes
    <3>2. /\ left' = [x \in Key |-> IF x \in Live THEN left[x] ELSE 0]
      BY <1>7, <2>3, <3>1 DEF Check
    <3>3. seen' \subseteq Key /\ left' \in [Key -> 0 .. Window]
      BY <1>0, <3>1, <3>2 DEF Live
    <3>4. AgeAgrees'
      BY <1>0, <3>1, <3>2 DEF AgeAgrees, Live
    <3>5. Live' = Live
      BY <1>0, <3>1, <3>2 DEF Live
    <3>6. Cardinality(Live) = MaxEntries
      BY <1>0, <2>1, <2>2, <2>3, <3>1 DEF Full
    <3> QED
      BY <1>1, <1>2, <1>4, <1>5, <3>1, <3>3, <3>4, <3>5, <3>6 DEF FullOfLive, Verdicts
  <2>4. CASE ~Full(k)
    <3>1. /\ seen' = Kept(k) \cup {k} /\ age' = [age EXCEPT ![k] = 0]
          /\ left' = [x \in Key |->
               IF x = k THEN Window ELSE IF x \in seen' THEN left[x] ELSE 0]
      BY <1>1, <1>7, <2>4 DEF Check, Passes
    <3>2. seen' \subseteq Key /\ left' \in [Key -> 0 .. Window]
      BY <1>0, <2>1, <3>1
    <3>3. Cardinality(seen') <= MaxEntries
      <4>1. CASE k \in seen
        BY <1>0, <2>1, <2>2, <3>1, <4>1
      <4>2. CASE k \notin seen /\ Cardinality(seen) < MaxEntries
        BY <1>0, <2>2, <3>1, <4>2
      <4>3. CASE k \notin seen /\ Cardinality(seen) >= MaxEntries
        <5>1. Cardinality(Kept(k)) < MaxEntries
          BY <2>2, <2>4, <4>3 DEF Full, NeedsRoom
        <5> QED
          BY <2>2, <3>1, <5>1
      <4> QED
        BY <1>0, <4>1, <4>2, <4>3
    <3>4. AgeAgrees'
      BY <1>0, <2>1, <3>1 DEF AgeAgrees, Live
    <3>5. FullOfLive'
      BY <1>3, <1>7, <2>4 DEF FullOfLive
    <3> QED
      BY <1>1, <1>2, <1>4, <1>5, <3>2, <3>3, <3>4, <3>5 DEF Verdicts
  <2> QED
    BY <2>3, <2>4
<1> QED
  BY <1>6, <1>7

LEMMA RelayStep == RelayInv /\ [Next]_vars => RelayInv'
<1> SUFFICES ASSUME RelayInv, [Next]_vars PROVE RelayInv'
  OBVIOUS
<1> USE RelayAssumption
<1>1. ASSUME NEW m \in Content, RouteMessage(m)
      PROVE  RelayInv'
  <2>1. m \in Key /\ m \notin Signal /\ Check(m)
    BY <1>1, KeyFacts DEF RouteMessage
  <2>2. sequence' = sequence
    BY <1>1 DEF RouteMessage
  <2>3. SequenceCovers'
    BY <2>1, <2>2, CheckKeeps, KeyFacts DEF SequenceCovers, RelayInv, TypeOK
  <2> QED
    BY <2>1, <2>2, <2>3, CheckKeeps DEF RelayInv, TypeOK
<1>2. ASSUME NEW s \in Session, NEW q \in Sequence, NEW known \in BOOLEAN,
             V2Signal(s, q, known)
      PROVE  RelayInv'
  <2>1. <<s, q>> \in Key /\ Check(<<s, q>>) /\ q > sequence[s]
    BY <1>2, KeyFacts DEF V2Signal
  <2>2. age[<<s, q>>] = Never
    BY <2>1 DEF RelayInv, TypeOK, SequenceCovers, Sequence
  <2>4. sequence' = IF Passes(<<s, q>>) THEN [sequence EXCEPT ![s] = q] ELSE sequence
    BY <1>2 DEF V2Signal, Recorded
  <2>5. sequence' \in [Session -> -1 .. MaxSequence]
    BY <2>4 DEF RelayInv, TypeOK, Sequence
  <2>6. SequenceCovers'
    <3> SUFFICES ASSUME NEW r \in Session, NEW p \in Sequence, age'[<<r, p>>] # Never
                 PROVE  p <= sequence'[r]
      BY DEF SequenceCovers
    <3>1. age' = IF Passes(<<s, q>>) THEN [age EXCEPT ![<<s, q>>] = 0] ELSE age
      BY <2>1, <2>2, CheckKeeps
    <3>2. CASE <<r, p>> = <<s, q>> /\ Passes(<<s, q>>)
      BY <2>4, <3>2 DEF RelayInv, TypeOK, Sequence
    <3>3. CASE ~(<<r, p>> = <<s, q>> /\ Passes(<<s, q>>))
      <4>1. age'[<<r, p>>] = age[<<r, p>>]
        BY <3>1, <3>3, KeyFacts DEF RelayInv, TypeOK
      <4>2. p <= sequence[r]
        BY <4>1 DEF RelayInv, SequenceCovers
      <4> QED
        BY <4>2, <2>1, <2>4 DEF RelayInv, TypeOK, Sequence
    <3> QED
      BY <3>2, <3>3
  <2> QED
    BY <2>1, <2>2, <2>5, <2>6, CheckKeeps DEF RelayInv, TypeOK
<1>3. ASSUME NEW n \in NodeMessage, NodeTraffic(n)
      PROVE  RelayInv'
  <2>1. n \in Key /\ n \notin Signal /\ Check(n)
    BY <1>3, KeyFacts DEF NodeTraffic
  <2>2. sequence' = sequence
    BY <1>3 DEF NodeTraffic
  <2>3. SequenceCovers'
    BY <2>1, <2>2, CheckKeeps, KeyFacts DEF SequenceCovers, RelayInv, TypeOK
  <2> QED
    BY <2>1, <2>2, <2>3, CheckKeeps DEF RelayInv, TypeOK
<1>4. CASE Prune
  <2>1. /\ seen' = Live /\ age' = age /\ sequence' = sequence
        /\ left' = [k \in Key |-> IF k \in Live THEN left[k] ELSE 0]
        /\ outcome' = NoOutcome
    BY <1>4 DEF Prune, Pruned, Live
  <2>2. Cardinality(Live) <= Cardinality(seen) /\ Cardinality(Live) \in Nat
        /\ Cardinality(seen) \in Nat
    <3>1. Live \in SUBSET seen /\ Live \in SUBSET Key /\ seen \in SUBSET Key
      BY DEF Live, RelayInv, TypeOK
    <3> QED
      BY <3>1, Sizes
  <2>3. TypeOK'
    BY <2>1, <2>2 DEF RelayInv, TypeOK, Live, NoOutcome, Never
  <2>4. AgeAgrees'
    BY <2>1 DEF RelayInv, TypeOK, AgeAgrees, Live
  <2>5. SequenceCovers'
    BY <2>1 DEF RelayInv, SequenceCovers
  <2>6. Verdicts'
    BY <2>1 DEF Verdicts, NoOutcome, OncePerWindow, SignalsOnce, FullOfLive, DuplicatePassed
  <2> QED
    BY <2>3, <2>4, <2>5, <2>6 DEF RelayInv
<1>5. CASE Tick
  <2>1. /\ seen' = seen /\ sequence' = sequence /\ outcome' = NoOutcome
        /\ left' = [k \in Key |-> IF left[k] > 0 THEN left[k] - 1 ELSE 0]
        /\ age' = [k \in Key |-> Older(age[k])]
    BY <1>5 DEF Tick
  <2>2. \A a \in Never .. Window : /\ Older(a) \in Never .. Window
                                  /\ Older(a) = Never <=> a = Never
    BY DEF Older, Never
  <2>3. TypeOK'
    <3>1. age' \in [Key -> Never .. Window]
      <4>1. \A k \in Key : age[k] \in Never .. Window
        BY DEF RelayInv, TypeOK
      <4>2. \A k \in Key : Older(age[k]) \in Never .. Window
        BY <4>1 DEF Older, Never
      <4> QED
        BY <2>1, <4>2, Zenon
    <3>2. left' \in [Key -> 0 .. Window]
      BY <2>1 DEF RelayInv, TypeOK
    <3>3. outcome' \in [result : {"none", "pass", "duplicate", "full"},
                        gap : Never .. Window, signal : BOOLEAN]
      BY <2>1 DEF NoOutcome, Never
    <3> QED
      BY <2>1, <3>1, <3>2, <3>3 DEF RelayInv, TypeOK
  <2>4. AgeAgrees'
    BY <2>1 DEF RelayInv, TypeOK, AgeAgrees, Older, Never
  <2>5. SequenceCovers'
    BY <2>1, <2>2, KeyFacts DEF RelayInv, TypeOK, SequenceCovers
  <2>6. Verdicts'
    BY <2>1 DEF Verdicts, NoOutcome, OncePerWindow, SignalsOnce, FullOfLive, DuplicatePassed
  <2> QED
    BY <2>3, <2>4, <2>5, <2>6 DEF RelayInv
<1>6. CASE UNCHANGED vars
  BY <1>6 DEF vars, RelayInv, TypeOK, AgeAgrees, SequenceCovers, Verdicts,
              OncePerWindow, SignalsOnce, FullOfLive, DuplicatePassed, Live
<1> QED
  BY <1>1, <1>2, <1>3, <1>4, <1>5, <1>6 DEF Next

LEMMA RelayAlways == Spec => []RelayInv
  BY RelayInit, RelayStep, PTL DEF Spec

(* The seen cache never holds more than config.max_dedupe_entries entries, *)
(* and every field of the model keeps its type.                            *)
THEOREM RelayTypes == Spec => []TypeOK
<1>1. RelayInv => TypeOK
  BY DEF RelayInv
<1> QED
  BY <1>1, RelayAlways, PTL

(* check_and_mark_seen lets no key pass twice within a window.             *)
THEOREM RelayOncePerWindow == Spec => []OncePerWindow
<1>1. RelayInv => OncePerWindow
  BY DEF RelayInv, Verdicts
<1> QED
  BY <1>1, RelayAlways, PTL

(* _handle_v2_signal accepts a signal at most once in a session's life.    *)
THEOREM RelaySignalsOnce == Spec => []SignalsOnce
<1>1. RelayInv => SignalsOnce
  BY DEF RelayInv, Verdicts
<1> QED
  BY <1>1, RelayAlways, PTL

(* check_and_mark_seen refuses a key as a duplicate only if it passed      *)
(* within the window, and for lack of room only if the cache is full of    *)
(* entries within theirs.                                                  *)
THEOREM RelayRefusalsJustified == Spec => []RefusalsJustified
<1>1. RelayInv => RefusalsJustified
  BY DEF RelayInv, Verdicts, RefusalsJustified
<1> QED
  BY <1>1, RelayAlways, PTL

=============================================================================

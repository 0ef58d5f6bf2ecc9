----------------------- MODULE LiteralDictionaryProof ------------------------
(***************************************************************************)
(* The hash table, for any keys, any hashes and any capacity: no search    *)
(* runs off it and its counters are right, whatever the hash function      *)
(* does; if equal keys hash alike, every key stays reachable and the       *)
(* table is a finite map.                                                  *)
(***************************************************************************)
EXTENDS LiteralDictionary, NaturalFacts

(***************************************************************************)
(* Searches.                                                               *)
(***************************************************************************)
Indices(cap) == 0 .. cap - 1

LEMMA ProbeRange ==
    ASSUME NEW hash \in Nat, NEW cap \in Nat \ {0},
           NEW d \in Indices(cap)
    PROVE  Probe(hash, cap, d) \in Indices(cap)
  BY DEF Probe, Indices

(* A turn of the table visits every slot, and none twice.                   *)
LEMMA ProbeCovers ==
    ASSUME NEW hash \in Nat, NEW cap \in Nat \ {0}, NEW i \in Indices(cap)
    PROVE  \E d \in Indices(cap) : Probe(hash, cap, d) = i
  <1> DEFINE home == hash % cap
             d == IF home <= i THEN i - home ELSE i - home + cap
  <1>1. home \in Indices(cap)
    BY DEF Indices
  <1>2. d \in Indices(cap) /\ (IF home + d < cap THEN home + d ELSE home + d - cap) = i
    BY <1>1 DEF Indices
  <1>3. d \in 0 .. cap - 1
    BY <1>2 DEF Indices
  <1>4. (hash + d) % cap = i
    <2> HIDE DEF d
    <2> QED
      BY <1>2, <1>3, ModAdd
  <1> QED
    BY <1>2, <1>4 DEF Probe

LEMMA ProbeInjective ==
    ASSUME NEW hash \in Nat, NEW cap \in Nat \ {0},
           NEW d \in Indices(cap), NEW e \in Indices(cap),
           Probe(hash, cap, d) = Probe(hash, cap, e)
    PROVE  d = e
  <1> DEFINE home == hash % cap
  <1>1. home \in Indices(cap)
    BY DEF Indices
  <1>2. \A x \in Indices(cap) :
           Probe(hash, cap, x) = IF home + x < cap THEN home + x ELSE home + x - cap
    BY ModAdd DEF Probe, Indices
  <1> HIDE DEF home
  <1> QED
    BY <1>1, <1>2 DEF Indices

(* A search goes on past the slots before d, and d stops it.                *)
FirstStop(array, cap, key, hash, mustExist, d) ==
    /\ d \in Indices(cap)
    /\ Stops(array[Probe(hash, cap, d)], key, mustExist)
    /\ \A e \in 0 .. d - 1 : ~Stops(array[Probe(hash, cap, e)], key, mustExist)

LEMMA SearchResult ==
    ASSUME NEW array, NEW cap \in Nat \ {0}, NEW key, NEW hash \in Nat, NEW mustExist
    PROVE  LET slot == getEntryArray(array, cap, key, hash, mustExist)
           IN  \/ /\ slot = NoEntry
                  /\ \A i \in Indices(cap) : ~Stops(array[i], key, mustExist)
               \/ \E d \in Indices(cap) :
                     /\ slot = Probe(hash, cap, d)
                     /\ FirstStop(array, cap, key, hash, mustExist, d)
  <1> DEFINE stops == {d \in 0 .. cap - 1 :
                          Stops(array[Probe(hash, cap, d)], key, mustExist)}
             slot == getEntryArray(array, cap, key, hash, mustExist)
  <1>1. CASE stops = {}
    <2>1. slot = NoEntry
      BY <1>1 DEF getEntryArray
    <2>2. \A i \in Indices(cap) : ~Stops(array[i], key, mustExist)
      <3> SUFFICES ASSUME NEW i \in Indices(cap)
                   PROVE  ~Stops(array[i], key, mustExist)
        OBVIOUS
      <3>1. PICK d \in Indices(cap) : Probe(hash, cap, d) = i
        BY ProbeCovers
      <3> QED
        BY <1>1, <3>1 DEF Indices
    <2> QED
      BY <2>1, <2>2
  <1>2. CASE stops # {}
    <2>1. PICK m \in stops : \A e \in stops : m <= e
      <3>1. stops \in SUBSET Nat
        OBVIOUS
      <3> HIDE DEF stops
      <3> QED
        BY <1>2, <3>1, LeastNatural
    <2>2. Min(stops) \in stops /\ \A e \in stops : Min(stops) <= e
      <3> HIDE DEF stops
      <3> QED
        BY <2>1 DEF Min
    <2> DEFINE d == Min(stops)
    <2>3. slot = Probe(hash, cap, d)
      BY <1>2 DEF getEntryArray
    <2>4. FirstStop(array, cap, key, hash, mustExist, d)
      <3> HIDE DEF d
      <3> QED
        BY <2>2 DEF FirstStop, Indices, d
    <2> QED
      BY <2>3, <2>4 DEF FirstStop
  <1> QED
    BY <1>1, <1>2

(***************************************************************************)
(* Slots and how many of them are live and used.                           *)
(***************************************************************************)
WellFormed(array, cap) ==
    /\ array \in [Indices(cap) -> Entry]
    /\ \A i \in Indices(cap) : array[i].key = Null => array[i] \in {Blank, Tombstone}

LiveIn(array, cap) == {i \in Indices(cap) : array[i].key # Null}
UsedIn(array, cap) == {i \in Indices(cap) : array[i] # Blank}

LEMMA SlotSetsAreFinite ==
    ASSUME NEW array, NEW cap \in Nat
    PROVE  /\ IsFiniteSet(LiveIn(array, cap)) /\ Cardinality(LiveIn(array, cap)) \in Nat
           /\ IsFiniteSet(UsedIn(array, cap)) /\ Cardinality(UsedIn(array, cap)) \in Nat
           /\ LiveIn(array, cap) \subseteq UsedIn(array, cap)
           /\ Cardinality(LiveIn(array, cap)) <= Cardinality(UsedIn(array, cap))
  <1>1. IsFiniteSet(Indices(cap))
    BY FS_Interval DEF Indices
  <1>2. /\ UsedIn(array, cap) \in SUBSET Indices(cap)
        /\ LiveIn(array, cap) \in SUBSET UsedIn(array, cap)
    BY DEF LiveIn, UsedIn, Blank
  <1>3. IsFiniteSet(UsedIn(array, cap))
    BY <1>1, <1>2, FS_Subset
  <1>4. /\ IsFiniteSet(LiveIn(array, cap))
        /\ Cardinality(LiveIn(array, cap)) <= Cardinality(UsedIn(array, cap))
    BY <1>2, <1>3, FS_Subset
  <1> QED
    BY <1>2, <1>3, <1>4, FS_CardinalityType

(* A slot a search returns is one that stops it.                            *)
LEMMA SearchStops ==
    ASSUME NEW array, NEW cap \in Nat \ {0}, NEW key, NEW hash \in Nat, NEW mustExist,
           getEntryArray(array, cap, key, hash, mustExist) # NoEntry
    PROVE  LET slot == getEntryArray(array, cap, key, hash, mustExist)
           IN  slot \in Indices(cap) /\ Stops(array[slot], key, mustExist)
  <1> DEFINE slot == getEntryArray(array, cap, key, hash, mustExist)
  <1>1. PICK d \in Indices(cap) :
           slot = Probe(hash, cap, d) /\ FirstStop(array, cap, key, hash, mustExist, d)
    BY SearchResult
  <1>2. Probe(hash, cap, d) \in Indices(cap)
    BY ProbeRange
  <1> HIDE DEF slot
  <1> QED
    BY <1>1, <1>2 DEF FirstStop, slot

(* A search fails only if no slot stops it.                                 *)
LEMMA SearchFails ==
    ASSUME NEW array, NEW cap \in Nat \ {0}, NEW key, NEW hash \in Nat, NEW mustExist,
           getEntryArray(array, cap, key, hash, mustExist) = NoEntry
    PROVE  \A i \in Indices(cap) : ~Stops(array[i], key, mustExist)
  <1>1. \A d \in Indices(cap) : Probe(hash, cap, d) \in Indices(cap)
    BY ProbeRange
  <1>2. NoEntry \notin Indices(cap)
    BY DEF NoEntry, Indices
  <1> QED
    BY <1>1, <1>2, SearchResult

(* A blank slot is left as long as fewer slots are used than there are, and *)
(* then a search that stops at blanks ends.                                 *)
LEMMA SearchEnds ==
    ASSUME NEW array, NEW cap \in Nat \ {0}, NEW key, NEW hash \in Nat,
           Cardinality(UsedIn(array, cap)) < cap
    PROVE  getEntryArray(array, cap, key, hash, FALSE) # NoEntry
  <1>1. \E i \in Indices(cap) : array[i] = Blank
    <2> SUFFICES ASSUME \A i \in Indices(cap) : array[i] # Blank PROVE FALSE
      OBVIOUS
    <2>1. UsedIn(array, cap) = 0 .. cap - 1
      BY DEF UsedIn, Indices
    <2>2. Cardinality(0 .. cap - 1) = cap
      BY FS_Interval
    <2> QED
      BY <2>1, <2>2
  <1>2. PICK i \in Indices(cap) : Stops(array[i], key, FALSE)
    BY <1>1 DEF Stops
  <1> QED
    BY <1>2, SearchFails

(* Storing a pair makes one more slot live and used if the slot was blank,  *)
(* and neither if it was live.                                              *)
LEMMA Store ==
    ASSUME NEW array, NEW cap \in Nat, WellFormed(array, cap),
           NEW slot \in Indices(cap), array[slot] # Tombstone,
           NEW e \in Entry, e.key # Null
    PROVE  LET new == [array EXCEPT ![slot] = e]
               more == IF array[slot].key = Null THEN 1 ELSE 0
           IN  /\ WellFormed(new, cap)
               /\ Cardinality(LiveIn(new, cap)) = Cardinality(LiveIn(array, cap)) + more
               /\ Cardinality(UsedIn(new, cap)) = Cardinality(UsedIn(array, cap)) + more
  <1> DEFINE new == [array EXCEPT ![slot] = e]
  <1>1. /\ array \in [Indices(cap) -> Entry]
        /\ \A i \in Indices(cap) : array[i].key = Null => array[i] \in {Blank, Tombstone}
    BY DEF WellFormed
  <1>2. /\ new \in [Indices(cap) -> Entry]
        /\ new[slot] = e
        /\ \A i \in Indices(cap) : i # slot => new[i] = array[i]
    BY <1>1
  <1>3. e # Blank
    BY DEF Blank
  <1> HIDE DEF new
  <1>4. WellFormed(new, cap)
    BY <1>1, <1>2 DEF WellFormed
  <1>5. /\ LiveIn(new, cap) = LiveIn(array, cap) \union {slot}
        /\ UsedIn(new, cap) = UsedIn(array, cap) \union {slot}
    BY <1>2, <1>3 DEF LiveIn, UsedIn
  <1>6. /\ slot \in LiveIn(array, cap) <=> array[slot].key # Null
        /\ slot \in UsedIn(array, cap) <=> array[slot].key # Null
    BY <1>1 DEF LiveIn, UsedIn, Blank
  <1>7. IsFiniteSet(LiveIn(array, cap)) /\ Cardinality(LiveIn(array, cap)) \in Nat
    BY SlotSetsAreFinite
  <1>8. IsFiniteSet(UsedIn(array, cap)) /\ Cardinality(UsedIn(array, cap)) \in Nat
    BY SlotSetsAreFinite
  <1>9. Cardinality(LiveIn(new, cap))
          = IF slot \in LiveIn(array, cap) THEN Cardinality(LiveIn(array, cap))
            ELSE Cardinality(LiveIn(array, cap)) + 1
    BY <1>5, <1>7, FS_AddElement
  <1>10. Cardinality(UsedIn(new, cap))
          = IF slot \in UsedIn(array, cap) THEN Cardinality(UsedIn(array, cap))
            ELSE Cardinality(UsedIn(array, cap)) + 1
    BY <1>5, <1>8, FS_AddElement
  <1> QED
    BY <1>4, <1>6, <1>7, <1>8, <1>9, <1>10 DEF new

(* A removal makes one slot less live and leaves it used.                   *)
LEMMA Bury ==
    ASSUME NEW array, NEW cap \in Nat, WellFormed(array, cap),
           NEW slot \in LiveIn(array, cap)
    PROVE  LET new == [array EXCEPT ![slot] = Tombstone]
           IN  /\ WellFormed(new, cap)
               /\ LiveIn(new, cap) = LiveIn(array, cap) \ {slot}
               /\ UsedIn(new, cap) = UsedIn(array, cap)
               /\ Cardinality(LiveIn(new, cap)) = Cardinality(LiveIn(array, cap)) - 1
  <1> DEFINE new == [array EXCEPT ![slot] = Tombstone]
  <1>0. slot \in Indices(cap) /\ array[slot].key # Null
    BY DEF LiveIn
  <1>1. /\ array \in [Indices(cap) -> Entry]
        /\ \A i \in Indices(cap) : array[i].key = Null => array[i] \in {Blank, Tombstone}
    BY DEF WellFormed
  <1>2. Tombstone \in Entry /\ Tombstone.key = Null /\ Tombstone # Blank
    BY KeyAssumption DEF Tombstone, Blank, Entry
  <1>3. /\ new \in [Indices(cap) -> Entry]
        /\ new[slot] = Tombstone
        /\ \A i \in Indices(cap) : i # slot => new[i] = array[i]
    BY <1>0, <1>1, <1>2
  <1>4. array[slot] # Blank
    BY <1>0 DEF Blank
  <1> HIDE DEF new
  <1>5. WellFormed(new, cap)
    BY <1>1, <1>3 DEF WellFormed
  <1>6. /\ LiveIn(new, cap) = LiveIn(array, cap) \ {slot}
        /\ UsedIn(new, cap) = UsedIn(array, cap)
    BY <1>0, <1>2, <1>3, <1>4 DEF LiveIn, UsedIn
  <1>7. Cardinality(LiveIn(new, cap)) = Cardinality(LiveIn(array, cap)) - 1
    BY <1>6, SlotSetsAreFinite, FS_RemoveElement
  <1> QED
    BY <1>5, <1>6, <1>7 DEF new

(***************************************************************************)
(* Rehashing, slot by slot.                                                *)
(***************************************************************************)

(* The recursive function exists, so it takes the steps it is defined by.   *)
RehashedTo(f, array, n, cap) ==
    f = [m \in 0 .. n |-> IF m = 0 THEN BlankTable(cap)
                          ELSE Reinsert(f[m - 1], cap, array[m - 1])]

LEMMA RehashedExists ==
    ASSUME NEW array, NEW oldCapacity \in Nat, NEW cap
    PROVE  \E f : RehashedTo(f, array, oldCapacity, cap)
  <1> DEFINE Reached == {n \in Nat : \E f : RehashedTo(f, array, n, cap)}
  <1>1. 0 \in Reached
    <2> DEFINE f == [m \in 0 .. 0 |-> BlankTable(cap)]
    <2>1. RehashedTo(f, array, 0, cap)
      BY DEF RehashedTo
    <2> QED
      BY <2>1
  <1>2. ASSUME NEW n \in 0 .. oldCapacity - 1, n \in Reached
        PROVE  n + 1 \in Reached
    <2>1. PICK f : RehashedTo(f, array, n, cap)
      BY <1>2
    <2> DEFINE g == [m \in 0 .. n + 1 |-> IF m = n + 1
                                          THEN Reinsert(f[n], cap, array[n])
                                          ELSE f[m]]
    <2>2. RehashedTo(g, array, n + 1, cap)
      <3>1. \A m \in 0 .. n : f[m] = IF m = 0 THEN BlankTable(cap)
                                      ELSE Reinsert(f[m - 1], cap, array[m - 1])
        BY <2>1 DEF RehashedTo
      <3>2. \A m \in 0 .. n + 1 : g[m] = IF m = 0 THEN BlankTable(cap)
                                          ELSE Reinsert(g[m - 1], cap, array[m - 1])
        <4> SUFFICES ASSUME NEW m \in 0 .. n + 1
                     PROVE  g[m] = IF m = 0 THEN BlankTable(cap)
                                   ELSE Reinsert(g[m - 1], cap, array[m - 1])
          OBVIOUS
        <4>1. CASE m = n + 1
          BY <4>1
        <4>2. CASE m \in 0 .. n
          BY <4>2, <3>1
        <4> QED
          BY <4>1, <4>2
      <3>3. g = [m \in 0 .. n + 1 |-> g[m]]
        OBVIOUS
      <3> HIDE DEF g
      <3> QED
        BY <3>2, <3>3 DEF RehashedTo
    <2> QED
      BY <2>2
  <1>3. 0 .. oldCapacity \subseteq Reached
    <2> HIDE DEF Reached
    <2> QED
      BY <1>1, <1>2, Countup
  <1> QED
    BY <1>3

LEMMA RehashedSteps ==
    ASSUME NEW array, NEW oldCapacity \in Nat, NEW cap
    PROVE  LET rehashed == Rehashed(array, oldCapacity, cap)
           IN  /\ rehashed[0] = BlankTable(cap)
               /\ \A n \in 0 .. oldCapacity - 1 :
                     rehashed[n + 1] = Reinsert(rehashed[n], cap, array[n])
  <1> DEFINE rehashed == Rehashed(array, oldCapacity, cap)
  <1>1. RehashedTo(rehashed, array, oldCapacity, cap)
    <2>1. rehashed = CHOOSE f : RehashedTo(f, array, oldCapacity, cap)
      BY DEF Rehashed, RehashedTo
    <2> HIDE DEF rehashed
    <2> QED
      BY <2>1, RehashedExists
  <1> HIDE DEF rehashed
  <1>2. \A m \in 0 .. oldCapacity :
           rehashed[m] = IF m = 0 THEN BlankTable(cap)
                         ELSE Reinsert(rehashed[m - 1], cap, array[m - 1])
    BY <1>1 DEF RehashedTo
  <1>3. \A n \in 0 .. oldCapacity - 1 :
           rehashed[n + 1] = Reinsert(rehashed[n], cap, array[n])
    <2> SUFFICES ASSUME NEW n \in 0 .. oldCapacity - 1
                 PROVE  rehashed[n + 1] = Reinsert(rehashed[n], cap, array[n])
      OBVIOUS
    <2>1. n + 1 \in 0 .. oldCapacity /\ n + 1 # 0 /\ (n + 1) - 1 = n
      OBVIOUS
    <2> QED
      BY <1>2, <2>1
  <1> QED
    BY <1>2, <1>3 DEF rehashed

(* A blank slot d steps from the home of hash that no blank slot precedes.  *)
FreeSlot(array, cap, hash, slot) ==
    /\ slot \in Indices(cap) /\ array[slot] = Blank
    /\ \E d \in Indices(cap) :
          /\ Probe(hash, cap, d) = slot
          /\ \A e \in 0 .. d - 1 : array[Probe(hash, cap, e)] # Blank

(* An entry moves into the first blank slot on its way.                     *)
LEMMA ReinsertIntoFreeSlot ==
    ASSUME NEW new, NEW cap \in Nat \ {0}, Cardinality(UsedIn(new, cap)) < cap,
           NEW e \in Entry, e.key # Null
    PROVE  \E slot : /\ FreeSlot(new, cap, KeyHash[e.key], slot)
                     /\ Reinsert(new, cap, e) = [new EXCEPT ![slot] = e]
  <1> DEFINE hash == KeyHash[e.key]
             slot == getEntryArray(new, cap, Null, hash, FALSE)
  <1>1. hash \in Nat
    BY KeyAssumption DEF Entry
  <1>2. slot # NoEntry
    BY <1>1, SearchEnds
  <1>3. \E d \in Indices(cap) :
           slot = Probe(hash, cap, d) /\ FirstStop(new, cap, Null, hash, FALSE, d)
    <2> HIDE DEF hash
    <2> QED
      BY <1>1, <1>2, SearchResult
  <1>4. PICK d \in Indices(cap) :
           slot = Probe(hash, cap, d) /\ FirstStop(new, cap, Null, hash, FALSE, d)
    BY <1>3
  <1>5. \A x : Stops(x, Null, FALSE) <=> x = Blank
    BY KeyAssumption DEF Stops, literalsAreEqual
  <1>6. slot \in Indices(cap)
    BY <1>1, <1>4, ProbeRange
  <1>7. FreeSlot(new, cap, hash, slot)
    <2> HIDE DEF hash, slot
    <2> QED
      BY <1>4, <1>5, <1>6 DEF FreeSlot, FirstStop
  <1>8. Reinsert(new, cap, e) = [new EXCEPT ![slot] = e]
    BY DEF Reinsert
  <1> QED
    BY <1>7, <1>8

(* The first n slots of the old table are copied.                           *)
CopiedUpTo(new, n, array, cap) ==
    /\ WellFormed(new, cap)
    /\ UsedIn(new, cap) = LiveIn(new, cap)
    /\ Cardinality(LiveIn(new, cap)) = Cardinality(LiveIn(array, n))

LEMMA LiveBelow ==
    ASSUME NEW array, NEW n \in Nat
    PROVE  /\ Cardinality(LiveIn(array, n)) \in 0 .. n
           /\ array[n].key = Null => LiveIn(array, n + 1) = LiveIn(array, n)
           /\ array[n].key # Null =>
                Cardinality(LiveIn(array, n + 1)) = Cardinality(LiveIn(array, n)) + 1
  <1>1. LiveIn(array, n) \subseteq 0 .. n - 1 /\ n \notin LiveIn(array, n)
    BY DEF LiveIn, Indices
  <1>2. IsFiniteSet(0 .. n - 1) /\ Cardinality(0 .. n - 1) = n
    BY FS_Interval
  <1>3. /\ IsFiniteSet(LiveIn(array, n)) /\ Cardinality(LiveIn(array, n)) \in Nat
        /\ Cardinality(LiveIn(array, n)) <= n
    BY <1>1, <1>2, FS_Subset, FS_CardinalityType
  <1>4. array[n].key = Null => LiveIn(array, n + 1) = LiveIn(array, n)
    BY DEF LiveIn, Indices
  <1>5. array[n].key # Null => LiveIn(array, n + 1) = LiveIn(array, n) \union {n}
    BY DEF LiveIn, Indices
  <1> QED
    BY <1>1, <1>3, <1>4, <1>5, FS_AddElement

LEMMA CopyOne ==
    ASSUME NEW array, NEW oldCapacity \in Nat, WellFormed(array, oldCapacity),
           NEW cap \in Nat \ {0}, oldCapacity <= cap,
           NEW n \in 0 .. oldCapacity - 1,
           NEW new, CopiedUpTo(new, n, array, cap)
    PROVE  CopiedUpTo(Reinsert(new, cap, array[n]), n + 1, array, cap)
  <1>1. array[n] \in Entry
    BY DEF WellFormed, Indices
  <1>2. CASE array[n].key = Null
    BY <1>2, LiveBelow DEF CopiedUpTo, Reinsert
  <1>3. CASE array[n].key # Null
    <2>1. Cardinality(UsedIn(new, cap)) \in 0 .. n
      BY LiveBelow DEF CopiedUpTo
    <2>2. PICK slot : /\ FreeSlot(new, cap, KeyHash[array[n].key], slot)
                      /\ Reinsert(new, cap, array[n]) = [new EXCEPT ![slot] = array[n]]
      BY <1>1, <1>3, <2>1, ReinsertIntoFreeSlot
    <2>3. slot \in Indices(cap) /\ new[slot] = Blank
      BY <2>2 DEF FreeSlot
    <2> DEFINE next == [new EXCEPT ![slot] = array[n]]
    <2>4. /\ WellFormed(next, cap)
          /\ Cardinality(LiveIn(next, cap)) = Cardinality(LiveIn(new, cap)) + 1
      <3>1. new[slot] # Tombstone /\ new[slot].key = Null
        BY <2>3, KeyAssumption DEF Blank, Tombstone
      <3>2. WellFormed(new, cap)
        BY DEF CopiedUpTo
      <3> QED
        BY <1>1, <1>3, <2>3, <3>1, <3>2, Store
    <2>5. UsedIn(next, cap) = LiveIn(next, cap)
      <3>1. new \in [Indices(cap) -> Entry]
        BY DEF CopiedUpTo, WellFormed
      <3>2. next[slot] = array[n] /\ \A i \in Indices(cap) : i # slot => next[i] = new[i]
        BY <2>3, <3>1
      <3>3. \A i \in Indices(cap) : new[i] # Blank <=> new[i].key # Null
        BY DEF CopiedUpTo, UsedIn, LiveIn
      <3>4. array[n] # Blank
        BY <1>3 DEF Blank
      <3> HIDE DEF next
      <3> QED
        BY <1>3, <3>2, <3>3, <3>4 DEF UsedIn, LiveIn
    <2>6. Cardinality(LiveIn(next, cap)) = Cardinality(LiveIn(array, n + 1))
      BY <1>3, <2>4, LiveBelow DEF CopiedUpTo
    <2> QED
      BY <2>2, <2>4, <2>5, <2>6 DEF CopiedUpTo
  <1> QED
    BY <1>2, <1>3

LEMMA BlankTableIsCopied ==
    ASSUME NEW array, NEW cap \in Nat
    PROVE  CopiedUpTo(BlankTable(cap), 0, array, cap)
  <1>1. Blank \in Entry /\ Blank.key = Null
    BY DEF Blank, Entry
  <1>2. BlankTable(cap) \in [Indices(cap) -> {Blank}]
    BY DEF BlankTable, Indices
  <1>3. WellFormed(BlankTable(cap), cap)
    BY <1>1, <1>2 DEF WellFormed
  <1>4. UsedIn(BlankTable(cap), cap) = {} /\ LiveIn(BlankTable(cap), cap) = {}
    BY <1>1, <1>2 DEF UsedIn, LiveIn
  <1>5. LiveIn(array, 0) = {}
    BY DEF LiveIn, Indices
  <1> QED
    BY <1>3, <1>4, <1>5 DEF CopiedUpTo

(* Rehashing into a table that is not smaller keeps every live entry and    *)
(* drops every tombstone.                                                   *)
LEMMA RehashCounts ==
    ASSUME NEW array, NEW oldCapacity \in Nat, WellFormed(array, oldCapacity),
           NEW cap \in Nat \ {0}, oldCapacity <= cap
    PROVE  CopiedUpTo(adjustEntryCapacity(array, oldCapacity, cap), oldCapacity, array, cap)
  <1> DEFINE rehashed == Rehashed(array, oldCapacity, cap)
             Done == {n \in Nat : CopiedUpTo(rehashed[n], n, array, cap)}
  <1>1. 0 \in Done
    BY RehashedSteps, BlankTableIsCopied
  <1>2. \A n \in 0 .. oldCapacity - 1 : n \in Done => n + 1 \in Done
    <2> SUFFICES ASSUME NEW n \in 0 .. oldCapacity - 1, n \in Done PROVE n + 1 \in Done
      OBVIOUS
    <2>1. rehashed[n + 1] = Reinsert(rehashed[n], cap, array[n])
      BY RehashedSteps
    <2> HIDE DEF rehashed
    <2>2. CopiedUpTo(rehashed[n + 1], n + 1, array, cap)
      BY <2>1, CopyOne
    <2> QED
      BY <2>2
  <1>3. oldCapacity \in Done
    <2> HIDE DEF Done
    <2> QED
      BY <1>1, <1>2, Countup
  <1> QED
    BY <1>3 DEF adjustEntryCapacity

(***************************************************************************)
(* The counters, whatever the hash function does.                          *)
(***************************************************************************)
Loaded ==
    /\ capacity >= GrowCapacity(0)
    /\ WellFormed(entries, capacity)
    /\ Cardinality(UsedIn(entries, capacity)) <= contains
    /\ 4 * contains <= 3 * capacity
    /\ count = Cardinality(LiveIn(entries, capacity))

Counted ==
    /\ capacity \in 0 .. MaxCapacity /\ contains \in Nat /\ count \in 0 .. MaxCapacity
    /\ table \in {"none", "live", "freed"} /\ fault = "none"
    /\ table = "live" => Loaded
    /\ table # "live" => entries = << >> /\ capacity = 0 /\ contains = 0

(* The array a call of set searches, grown or not: at least one more pair   *)
(* fits below the maximal load.                                             *)
LEMMA RoomForOneMore ==
    ASSUME Counted, table = "live"
    PROVE  LET grow == Overloaded(contains, capacity)
               cap == IF grow THEN GrowCapacity(capacity) ELSE capacity
               array == IF grow THEN adjustEntryCapacity(entries, capacity, cap)
                        ELSE entries
           IN  /\ cap \in Nat /\ cap >= GrowCapacity(0) /\ cap >= capacity
               /\ WellFormed(array, cap)
               /\ Cardinality(LiveIn(array, cap)) = count
               /\ Cardinality(UsedIn(array, cap)) <= contains
               /\ 4 * (contains + 1) <= 3 * cap
               /\ Cardinality(UsedIn(array, cap)) < cap
  <1> DEFINE grow == Overloaded(contains, capacity)
             cap == IF grow THEN GrowCapacity(capacity) ELSE capacity
             array == IF grow THEN adjustEntryCapacity(entries, capacity, cap)
                      ELSE entries
  <1>1. /\ capacity \in Nat /\ capacity >= 8 /\ contains \in Nat
        /\ WellFormed(entries, capacity)
        /\ Cardinality(UsedIn(entries, capacity)) <= contains
        /\ 4 * contains <= 3 * capacity
        /\ count = Cardinality(LiveIn(entries, capacity))
    BY KeyAssumption DEF Counted, Loaded, GrowCapacity
  <1>2. /\ cap \in Nat /\ cap >= 8 /\ cap >= capacity
        /\ 4 * (contains + 1) <= 3 * cap
    BY <1>1 DEF Overloaded, GrowCapacity
  <1>3. /\ WellFormed(array, cap)
        /\ Cardinality(LiveIn(array, cap)) = count
        /\ Cardinality(UsedIn(array, cap)) <= contains
    <2>1. CASE ~grow
      BY <1>1, <2>1
    <2>2. CASE grow
      <3> HIDE DEF cap
      <3>1. CopiedUpTo(adjustEntryCapacity(entries, capacity, cap), capacity, entries, cap)
        BY <1>1, <1>2, RehashCounts
      <3>2. Cardinality(LiveIn(entries, capacity)) <= Cardinality(UsedIn(entries, capacity))
        BY <1>1, SlotSetsAreFinite
      <3>3. /\ Cardinality(LiveIn(entries, capacity)) \in Nat
            /\ Cardinality(UsedIn(entries, capacity)) \in Nat
        BY <1>1, SlotSetsAreFinite
      <3> QED
        BY <1>1, <2>2, <3>1, <3>2, <3>3 DEF CopiedUpTo
    <2> QED
      BY <2>1, <2>2
  <1>4. Cardinality(UsedIn(array, cap)) \in Nat
    BY <1>2, SlotSetsAreFinite
  <1>5. Cardinality(UsedIn(array, cap)) < cap
    <2> HIDE DEF array, cap
    <2> QED
      BY <1>1, <1>2, <1>3, <1>4
  <1> QED
    BY <1>2, <1>3, <1>5 DEF GrowCapacity

LEMMA InitKeepsCounts ==
    ASSUME Counted, Xvr_initLiteralDictionary
    PROVE  Counted'
  <1> DEFINE cap == GrowCapacity(0)
  <1>1. cap = 8 /\ cap \in 0 .. MaxCapacity
    BY KeyAssumption DEF GrowCapacity
  <1>2. CopiedUpTo(BlankTable(cap), 0, entries, cap)
    BY <1>1, BlankTableIsCopied
  <1>3. Cardinality(LiveIn(entries, 0)) = 0
    BY FS_EmptySet DEF LiveIn, Indices
  <1>4. entries' = BlankTable(cap) /\ capacity' = cap /\ contains' = 0 /\ count' = 0
    BY DEF Xvr_initLiteralDictionary
  <1>5. Loaded'
    BY <1>1, <1>2, <1>3, <1>4 DEF CopiedUpTo, Loaded
  <1> QED
    BY <1>1, <1>4, <1>5 DEF Counted, Xvr_initLiteralDictionary

LEMMA SetKeepsCounts ==
    ASSUME Counted, NEW key \in Keys, NEW value \in Values,
           Xvr_setLiteralDictionary(key, value)
    PROVE  Counted'
  <1> DEFINE grow == Overloaded(contains, capacity)
             cap == IF grow THEN GrowCapacity(capacity) ELSE capacity
             array == IF grow THEN adjustEntryCapacity(entries, capacity, cap)
                      ELSE entries
             slot == getEntryArray(array, cap, key, KeyHash[key], FALSE)
             e == [key |-> key, value |-> value]
             more == IF array[slot].key = Null THEN 1 ELSE 0
  <1>1. table = "live" /\ setEntryArray(key, value)
    BY KeyAssumption DEF Xvr_setLiteralDictionary
  <1>2. /\ cap \in Nat \ {0} /\ cap >= GrowCapacity(0) /\ cap >= capacity
        /\ WellFormed(array, cap)
        /\ Cardinality(LiveIn(array, cap)) = count
        /\ Cardinality(UsedIn(array, cap)) <= contains
        /\ 4 * (contains + 1) <= 3 * cap
        /\ Cardinality(UsedIn(array, cap)) < cap
    BY <1>1, RoomForOneMore DEF GrowCapacity
  <1>3. KeyHash[key] \in Nat
    BY KeyAssumption
  <1>4. /\ slot # NoEntry
        /\ slot \in Indices(cap) /\ Stops(array[slot], key, FALSE)
    <2> HIDE DEF cap, array
    <2> QED
      BY <1>2, <1>3, SearchEnds, SearchStops
  <1>5. /\ cap <= MaxCapacity /\ capacity' = cap
        /\ entries' = [array EXCEPT ![slot] = e]
        /\ contains' = contains + more /\ count' = count + more
        /\ UNCHANGED <<table, fault>>
    BY <1>1, <1>4 DEF setEntryArray
  <1> HIDE DEF cap, array, slot
  <1>6. array[slot] # Tombstone
    BY <1>4, KeyAssumption DEF Stops, Blank, Tombstone, literalsAreEqual
  <1>7. e \in Entry /\ e.key # Null
    BY KeyAssumption DEF Entry
  <1>8. /\ WellFormed(entries', cap)
        /\ Cardinality(LiveIn(entries', cap)) = Cardinality(LiveIn(array, cap)) + more
        /\ Cardinality(UsedIn(entries', cap)) = Cardinality(UsedIn(array, cap)) + more
    <2> HIDE DEF e
    <2> QED
      BY <1>2, <1>4, <1>5, <1>6, <1>7, Store
  <1>9. more \in {0, 1}
    OBVIOUS
  <1> HIDE DEF e, more
  <1>10. contains \in Nat /\ count \in Nat /\ Cardinality(UsedIn(array, cap)) \in Nat
    BY <1>2, SlotSetsAreFinite DEF Counted
  <1>11. Loaded'
    BY <1>2, <1>5, <1>8, <1>9, <1>10 DEF Loaded
  <1>12. contains' \in Nat /\ count' \in 0 .. MaxCapacity /\ capacity' \in 0 .. MaxCapacity
    <2>1. Cardinality(LiveIn(entries', cap)) \in 0 .. cap
      BY <1>2, LiveBelow
    <2> QED
      BY <1>2, <1>5, <1>8, <1>9, <1>10, <2>1, KeyAssumption
  <1> QED
    BY <1>1, <1>5, <1>11, <1>12 DEF Counted

LEMMA RemoveKeepsCounts ==
    ASSUME Counted, NEW key \in Keys \union Unhashable,
           Xvr_removeLiteralDictionary(key)
    PROVE  Counted'
  <1>1. /\ table = "live" /\ Loaded
        /\ capacity \in Nat \ {0} /\ KeyHash[key] \in Nat
    BY KeyAssumption DEF Xvr_removeLiteralDictionary, Counted, Loaded, GrowCapacity
  <1>2. CASE key \in Unhashable \/ Found(key) = NoEntry
    BY <1>1, <1>2 DEF Xvr_removeLiteralDictionary, Counted, Loaded
  <1>3. CASE ~(key \in Unhashable \/ Found(key) = NoEntry)
    <2>1. /\ entries' = [entries EXCEPT ![Found(key)] = Tombstone]
          /\ count' = count - 1
          /\ UNCHANGED <<capacity, contains, table, fault>>
      BY <1>3 DEF Xvr_removeLiteralDictionary
    <2>2. Found(key) \in Indices(capacity) /\ Stops(entries[Found(key)], key, TRUE)
      BY <1>1, <1>3, SearchStops DEF Found
    <2>3. Found(key) \in LiveIn(entries, capacity)
      BY <2>2, KeyAssumption DEF Stops, literalsAreEqual, LiveIn
    <2>4. /\ WellFormed(entries', capacity)
          /\ UsedIn(entries', capacity) = UsedIn(entries, capacity)
          /\ Cardinality(LiveIn(entries', capacity)) = Cardinality(LiveIn(entries, capacity)) - 1
      BY <1>1, <2>1, <2>3, Bury DEF Loaded
    <2>5. Cardinality(LiveIn(entries', capacity)) \in Nat
      BY <1>1, SlotSetsAreFinite
    <2>6. Loaded'
      BY <1>1, <2>1, <2>4 DEF Loaded
    <2>7. count' \in 0 .. MaxCapacity
      BY <1>1, <2>1, <2>4, <2>5, KeyAssumption DEF Counted, Loaded
    <2> QED
      BY <1>1, <2>1, <2>6, <2>7 DEF Counted
  <1> QED
    BY <1>2, <1>3

(* Neither get nor exists changes the table, and exists does not crash.     *)
LEMMA LooksKeepCounts ==
    ASSUME Counted, NEW key \in Keys \union Unhashable,
           Xvr_getLiteralDictionary(key) \/ Xvr_existsLiteralDictionary(key)
    PROVE  /\ Counted'
           /\ UNCHANGED <<entries, capacity, contains, count, table, fault>>
  <1>1. UNCHANGED <<entries, capacity, contains, count, table, fault>>
    <2>1. CASE Xvr_getLiteralDictionary(key)
      BY <2>1 DEF Xvr_getLiteralDictionary
    <2>2. CASE Xvr_existsLiteralDictionary(key)
      <3>1. capacity \in Nat \ {0} /\ Cardinality(UsedIn(entries, capacity)) < capacity
        <4>1. /\ capacity \in Nat /\ capacity >= 8 /\ contains \in Nat
              /\ Cardinality(UsedIn(entries, capacity)) <= contains
              /\ 4 * contains <= 3 * capacity
          <5>1. table = "live"
            BY <2>2 DEF Xvr_existsLiteralDictionary
          <5> QED
            BY <5>1, KeyAssumption DEF Counted, Loaded, GrowCapacity
        <4>2. Cardinality(UsedIn(entries, capacity)) \in Nat
          BY <4>1, SlotSetsAreFinite
        <4> QED
          BY <4>1, <4>2
      <3>2. getEntryArray(entries, capacity, key, KeyHash[key], FALSE) # NoEntry
        BY <3>1, SearchEnds, KeyAssumption
      <3> QED
        BY <2>2, <3>2 DEF Xvr_existsLiteralDictionary
    <2> QED
      BY <2>1, <2>2
  <1> QED
    BY <1>1 DEF Counted, Loaded

LEMMA CountedInvariant == Spec => []Counted
  <1>1. Init => Counted
    BY KeyAssumption DEF Init, Counted
  <1>2. Counted /\ [Next]_vars => Counted'
    <2> SUFFICES ASSUME Counted, [Next]_vars PROVE Counted'
      OBVIOUS
    <2>1. CASE Xvr_initLiteralDictionary
      BY <2>1, InitKeepsCounts
    <2>2. CASE Xvr_freeLiteralDictionary
      BY <2>2, KeyAssumption DEF Xvr_freeLiteralDictionary, Counted
    <2>3. ASSUME NEW key \in Keys \union Unhashable, NEW value \in Values,
                 Xvr_setLiteralDictionary(key, value)
          PROVE  Counted'
      <3>1. CASE key \in Unhashable
        BY <2>3, <3>1 DEF Xvr_setLiteralDictionary, Counted, Loaded
      <3> QED
        BY <2>3, <3>1, SetKeepsCounts
    <2>4. ASSUME NEW key \in Keys \union Unhashable, Xvr_removeLiteralDictionary(key)
          PROVE  Counted'
      BY <2>4, RemoveKeepsCounts
    <2>5. ASSUME NEW key \in Keys \union Unhashable,
                 Xvr_getLiteralDictionary(key) \/ Xvr_existsLiteralDictionary(key)
          PROVE  Counted'
      BY <2>5, LooksKeepCounts
    <2>6. CASE UNCHANGED vars
      BY <2>6 DEF vars, Counted, Loaded
    <2> QED
      BY <2>1, <2>2, <2>3, <2>4, <2>5, <2>6 DEF Next
  <1> QED
    BY <1>1, <1>2, PTL DEF Spec

LEMMA CountedImplies == Counted => TypeOK /\ SearchAlwaysEnds /\ LoadIsBounded
  <1> SUFFICES ASSUME Counted PROVE TypeOK /\ SearchAlwaysEnds /\ LoadIsBounded
    OBVIOUS
  <1>1. SearchAlwaysEnds
    BY DEF Counted, SearchAlwaysEnds
  <1>2. CASE table = "live"
    <2>1. Loaded /\ capacity \in 0 .. MaxCapacity /\ capacity \in Nat
      BY <1>2, KeyAssumption DEF Counted
    <2>2. Slots = Indices(capacity) /\ WellFormed(entries, capacity)
      BY <2>1 DEF Slots, Loaded, WellFormed
    <2>3. UsedSlots = UsedIn(entries, capacity)
      BY <2>2 DEF UsedSlots, UsedIn
    <2>4. LoadIsBounded
      BY <2>1, <2>3 DEF LoadIsBounded, Loaded
    <2>5. contains \in 0 .. MaxCapacity
      BY <2>1, KeyAssumption DEF Counted, Loaded
    <2> QED
      BY <1>1, <2>1, <2>2, <2>4, <2>5 DEF TypeOK, Counted, WellFormed, Indices
  <1>3. CASE table # "live"
    <2>1. entries = << >> /\ capacity = 0 /\ contains = 0 /\ 0 \in 0 .. MaxCapacity
      BY <1>3, KeyAssumption DEF Counted
    <2>2. Slots = {} /\ 0 .. capacity - 1 = {}
      BY <2>1 DEF Slots
    <2> QED
      BY <1>1, <1>3, <2>1, <2>2 DEF TypeOK, Counted, LoadIsBounded
  <1> QED
    BY <1>2, <1>3

(* Slots and counters keep their types: count is never negative, and null   *)
(* keys are blanks and tombstones only.                                     *)
THEOREM TypeCorrect == Spec => []TypeOK
  BY CountedInvariant, CountedImplies, PTL

(* getEntryArray never returns NULL to a caller that dereferences it (exists *)
(* and set), for any keys and any hash function.                            *)
THEOREM SearchesEnd == Spec => []SearchAlwaysEnds
  BY CountedInvariant, CountedImplies, PTL

(* The growth test on contains, which no removal lowers, keeps the used     *)
(* slots, tombstones included, at three quarters of the table or less.      *)
THEOREM LoadStaysBounded == Spec => []LoadIsBounded
  BY CountedInvariant, CountedImplies, PTL

(***************************************************************************)
(* Chains and the map: if equal keys hash alike, no probe chain is ever    *)
(* broken, and the hash table implements the finite map of LiteralMap.     *)
(***************************************************************************)
(* The probe for the key in slot i meets no blank slot before i.            *)
Reachable(array, cap, i) ==
    \E d \in Indices(cap) :
       /\ Probe(KeyHash[array[i].key], cap, d) = i
       /\ \A e \in 0 .. d - 1 : array[Probe(KeyHash[array[i].key], cap, e)] # Blank

(* Every live slot is reachable, and no two hold equal keys.                *)
Chained(array, cap) ==
    /\ WellFormed(array, cap)
    /\ \A i \in LiveIn(array, cap) : Reachable(array, cap, i)
    /\ \A i, j \in LiveIn(array, cap) :
          KeyClass[array[i].key] = KeyClass[array[j].key] => i = j

LEMMA LiveKeys ==
    ASSUME NEW array, NEW cap \in Nat, WellFormed(array, cap),
           NEW i \in LiveIn(array, cap)
    PROVE  array[i].key \in Keys /\ KeyHash[array[i].key] \in Nat
  BY KeyAssumption DEF WellFormed, LiveIn, Entry

(* A search for a key that is there finds it, whether it stops at blanks    *)
(* or not.                                                                  *)
LEMMA SearchFinds ==
    ASSUME HashRespectsEquality,
           NEW array, NEW cap \in Nat \ {0}, Chained(array, cap),
           NEW i \in LiveIn(array, cap), NEW key \in Keys,
           KeyClass[array[i].key] = KeyClass[key], NEW mustExist \in BOOLEAN
    PROVE  getEntryArray(array, cap, key, KeyHash[key], mustExist) = i
  <1> DEFINE hash == KeyHash[key]
             slot == getEntryArray(array, cap, key, hash, mustExist)
  <1>1. array[i].key \in Keys /\ WellFormed(array, cap) /\ i \in Indices(cap)
    BY LiveKeys DEF Chained, LiveIn
  <1>2. KeyHash[array[i].key] = hash /\ hash \in Nat
    BY <1>1, KeyAssumption DEF HashRespectsEquality
  <1>3. PICK d \in Indices(cap) :
           /\ Probe(hash, cap, d) = i
           /\ \A e \in 0 .. d - 1 : array[Probe(hash, cap, e)] # Blank
    BY <1>2 DEF Chained, Reachable
  <1>4. Stops(array[i], key, mustExist)
    BY <1>1 DEF Stops, literalsAreEqual
  <1> HIDE DEF hash
  <1>5. \A j \in Indices(cap) :
           Stops(array[j], key, mustExist) => array[j] = Blank \/ j = i
    <2> SUFFICES ASSUME NEW j \in Indices(cap), Stops(array[j], key, mustExist),
                        array[j] # Blank
                 PROVE  j = i
      OBVIOUS
    <2>1. /\ array[j].key \in Keys /\ array[j].key # Null
          /\ KeyClass[array[j].key] = KeyClass[key]
      BY KeyAssumption DEF Stops, literalsAreEqual
    <2> QED
      BY <2>1 DEF Chained, LiveIn
  <1>6. \A e \in Indices(cap) : Probe(hash, cap, e) \in Indices(cap)
    BY <1>2, ProbeRange
  <1>7. CASE slot = NoEntry
    BY <1>1, <1>2, <1>4, <1>7, SearchFails
  <1>8. ASSUME NEW e \in Indices(cap), slot = Probe(hash, cap, e),
               FirstStop(array, cap, key, hash, mustExist, e)
        PROVE  slot = i
    <2>1. ~(d < e)
      BY <1>3, <1>4, <1>8 DEF FirstStop, Indices
    <2>2. CASE e = d
      BY <1>3, <1>8, <2>2
    <2>3. CASE e < d
      <3>1. e \in 0 .. d - 1 /\ array[Probe(hash, cap, e)] # Blank
        BY <1>3, <2>3 DEF Indices
      <3>2. Probe(hash, cap, e) = i
        BY <1>5, <1>6, <1>8, <3>1 DEF FirstStop
      <3> QED
        BY <1>8, <3>2
    <2> QED
      BY <2>1, <2>2, <2>3 DEF Indices
  <1> QED
    <2> HIDE DEF slot
    <2>1. slot = NoEntry \/ \E e \in Indices(cap) :
                               /\ slot = Probe(hash, cap, e)
                               /\ FirstStop(array, cap, key, hash, mustExist, e)
      BY <1>2, SearchResult DEF slot
    <2> QED
      BY <1>7, <1>8, <2>1 DEF slot, hash

(* A search for a key that is not there ends at a blank slot or not at all. *)
Holds(array, cap, key) ==
    key \in Keys /\ \E i \in LiveIn(array, cap) : KeyClass[array[i].key] = KeyClass[key]

LEMMA SearchMisses ==
    ASSUME NEW array, NEW cap \in Nat \ {0}, WellFormed(array, cap),
           NEW key, NEW hash \in Nat, NEW mustExist, ~Holds(array, cap, key)
    PROVE  LET slot == getEntryArray(array, cap, key, hash, mustExist)
           IN  \/ slot = NoEntry
               \/ ~mustExist /\ slot \in Indices(cap) /\ array[slot] = Blank
  <1> DEFINE slot == getEntryArray(array, cap, key, hash, mustExist)
  <1>1. CASE slot # NoEntry
    <2>1. slot \in Indices(cap) /\ Stops(array[slot], key, mustExist)
      BY <1>1, SearchStops
    <2> HIDE DEF slot
    <2>2. ~literalsAreEqual(key, array[slot].key)
      BY <2>1, KeyAssumption DEF literalsAreEqual, Holds, LiveIn
    <2> QED
      BY <2>1, <2>2 DEF Stops, slot
  <1>2. CASE slot = NoEntry
    BY <1>2
  <1> HIDE DEF slot
  <1> QED
    BY <1>1, <1>2 DEF slot

(***************************************************************************)
(* What the table is changed by keeps its chains.                          *)
(***************************************************************************)

Stored(new, array, slot, e) == new = [array EXCEPT ![slot] = e]

LEMMA StoredThere ==
    ASSUME NEW array, NEW cap \in Nat, WellFormed(array, cap),
           NEW slot \in Indices(cap), NEW new, NEW e, Stored(new, array, slot, e)
    PROVE  /\ new[slot] = e
           /\ \A i \in Indices(cap) : i # slot => new[i] = array[i]
  BY DEF Stored, WellFormed

(* A slot stays reachable while no used slot becomes blank.                 *)
LEMMA StaysReachable ==
    ASSUME NEW array, NEW new, NEW cap \in Nat \ {0}, NEW i \in Indices(cap),
           Reachable(array, cap, i),
           KeyHash[new[i].key] = KeyHash[array[i].key],
           KeyHash[array[i].key] \in Nat,
           \A j \in Indices(cap) : array[j] # Blank => new[j] # Blank
    PROVE  Reachable(new, cap, i)
  <1> DEFINE hash == KeyHash[array[i].key]
  <1>1. PICK d \in Indices(cap) :
           /\ Probe(hash, cap, d) = i
           /\ \A e \in 0 .. d - 1 : array[Probe(hash, cap, e)] # Blank
    BY DEF Reachable
  <1> HIDE DEF hash
  <1>2. \A e \in 0 .. d - 1 : Probe(hash, cap, e) \in Indices(cap)
    <2>1. \A e \in 0 .. d - 1 : e \in Indices(cap)
      BY DEF Indices
    <2> QED
      BY <2>1, ProbeRange DEF hash
  <1>3. KeyHash[new[i].key] = hash
    BY DEF hash
  <1> QED
    BY <1>1, <1>2, <1>3 DEF Reachable

(* A new key goes into the first blank slot on its way.                     *)
LEMMA StoreNew ==
    ASSUME NEW array, NEW cap \in Nat \ {0}, Chained(array, cap),
           NEW e \in Entry, e.key \in Keys, ~Holds(array, cap, e.key),
           NEW slot, FreeSlot(array, cap, KeyHash[e.key], slot),
           NEW new, Stored(new, array, slot, e)
    PROVE  /\ Chained(new, cap)
           /\ \A i : i \in LiveIn(new, cap) <=> i \in LiveIn(array, cap) \/ i = slot
           /\ \A i \in LiveIn(array, cap) : new[i] = array[i]
           /\ slot \notin LiveIn(array, cap)
  <1>1. slot \in Indices(cap) /\ array[slot] = Blank /\ WellFormed(array, cap)
    BY DEF FreeSlot, Chained
  <1>3. new[slot] = e /\ \A i \in Indices(cap) : i # slot => new[i] = array[i]
    BY <1>1, StoredThere
  <1>4. e # Blank /\ e.key # Null /\ array[slot].key = Null /\ array[slot] # Tombstone
    BY <1>1, KeyAssumption DEF Blank, Tombstone
  <1>5. WellFormed(new, cap)
    BY <1>1, <1>4, Store DEF Stored
  <1>6. /\ \A i : i \in LiveIn(new, cap) <=> i \in LiveIn(array, cap) \/ i = slot
        /\ slot \notin LiveIn(array, cap)
    BY <1>1, <1>3, <1>4 DEF LiveIn
  <1>7. \A i \in LiveIn(array, cap) : i \in Indices(cap) /\ new[i] = array[i]
    BY <1>3, <1>6 DEF LiveIn
  <1>8. \A j \in Indices(cap) : array[j] # Blank => new[j] # Blank
    BY <1>3, <1>4
  <1>9. Reachable(new, cap, slot)
    <2>1. PICK d \in Indices(cap) :
             /\ Probe(KeyHash[e.key], cap, d) = slot
             /\ \A x \in 0 .. d - 1 : array[Probe(KeyHash[e.key], cap, x)] # Blank
      BY DEF FreeSlot
    <2>2. \A x \in 0 .. d - 1 : Probe(KeyHash[e.key], cap, x) \in Indices(cap)
      <3>1. \A x \in 0 .. d - 1 : x \in Indices(cap)
        BY DEF Indices
      <3> QED
        BY <3>1, ProbeRange, KeyAssumption
    <2> QED
      BY <1>3, <1>8, <2>1, <2>2 DEF Reachable
  <1>10. \A i \in LiveIn(array, cap) : Reachable(new, cap, i)
    <2> SUFFICES ASSUME NEW i \in LiveIn(array, cap) PROVE Reachable(new, cap, i)
      OBVIOUS
    <2>1. Reachable(array, cap, i) /\ KeyHash[array[i].key] \in Nat
      BY <1>1, LiveKeys DEF Chained
    <2>2. i \in Indices(cap) /\ new[i] = array[i]
      BY <1>7
    <2> QED
      BY <1>8, <2>1, <2>2, StaysReachable
  <1>11. \A i, j \in LiveIn(new, cap) :
            KeyClass[new[i].key] = KeyClass[new[j].key] => i = j
    BY <1>3, <1>6, <1>7 DEF Chained, Holds
  <1>12. Chained(new, cap)
    BY <1>5, <1>6, <1>9, <1>10, <1>11 DEF Chained
  <1> QED
    BY <1>3, <1>6, <1>7, <1>12

(* An equal key takes the place of the one that is there.                   *)
LEMMA StoreAgain ==
    ASSUME HashRespectsEquality,
           NEW array, NEW cap \in Nat \ {0}, Chained(array, cap),
           NEW e \in Entry, e.key \in Keys, NEW slot \in LiveIn(array, cap),
           KeyClass[array[slot].key] = KeyClass[e.key],
           NEW new, Stored(new, array, slot, e)
    PROVE  /\ Chained(new, cap)
           /\ LiveIn(new, cap) = LiveIn(array, cap)
           /\ \A i \in LiveIn(array, cap) : i # slot => new[i] = array[i]
  <1>1. slot \in Indices(cap) /\ array[slot].key # Null /\ WellFormed(array, cap)
    BY DEF LiveIn, Chained
  <1>3. new[slot] = e /\ \A i \in Indices(cap) : i # slot => new[i] = array[i]
    BY <1>1, StoredThere
  <1>4. e # Blank /\ e.key # Null /\ array[slot] # Tombstone
    BY <1>1, KeyAssumption DEF Blank, Tombstone
  <1>5. WellFormed(new, cap)
    BY <1>1, <1>4, Store DEF Stored
  <1>6. LiveIn(new, cap) = LiveIn(array, cap)
    BY <1>1, <1>3, <1>4 DEF LiveIn
  <1>7. \A j \in Indices(cap) : array[j] # Blank => new[j] # Blank
    BY <1>3, <1>4
  <1>8. \A i \in LiveIn(array, cap) :
           /\ i \in Indices(cap)
           /\ array[i].key \in Keys /\ new[i].key \in Keys
           /\ KeyHash[array[i].key] \in Nat
           /\ KeyClass[new[i].key] = KeyClass[array[i].key]
    BY <1>1, <1>3, LiveKeys DEF LiveIn
  <1>9. \A i \in LiveIn(array, cap) : KeyHash[new[i].key] = KeyHash[array[i].key]
    BY <1>8 DEF HashRespectsEquality
  <1>10. \A i \in LiveIn(array, cap) : Reachable(new, cap, i)
    BY <1>7, <1>8, <1>9, StaysReachable DEF Chained
  <1>11. Chained(new, cap)
    BY <1>5, <1>6, <1>8, <1>10 DEF Chained
  <1> QED
    BY <1>3, <1>6, <1>8, <1>11

(* A removal leaves a tombstone, which no probe stops at.                   *)
LEMMA BuryKeepsChains ==
    ASSUME NEW array, NEW cap \in Nat \ {0}, Chained(array, cap),
           NEW slot \in LiveIn(array, cap),
           NEW new, Stored(new, array, slot, Tombstone)
    PROVE  /\ Chained(new, cap)
           /\ \A i : i \in LiveIn(new, cap) <=> i \in LiveIn(array, cap) /\ i # slot
           /\ \A i \in LiveIn(new, cap) : new[i] = array[i]
  <1>1. new = [array EXCEPT ![slot] = Tombstone]
    BY DEF Stored
  <1>2. WellFormed(array, cap) /\ cap \in Nat /\ slot \in LiveIn(array, cap)
    BY DEF Chained
  <1>3. WellFormed(new, cap) /\ UsedIn(new, cap) = UsedIn(array, cap)
    BY <1>1, <1>2, Bury
  <1>4. /\ slot \in Indices(cap) /\ new[slot] = Tombstone
        /\ \A i \in Indices(cap) : i # slot => new[i] = array[i]
    BY <1>1, <1>2 DEF WellFormed, LiveIn
  <1>5. \A i : i \in LiveIn(new, cap) <=> i \in LiveIn(array, cap) /\ i # slot
    BY <1>4 DEF LiveIn, Tombstone
  <1>6. \A i \in LiveIn(new, cap) :
           i \in Indices(cap) /\ new[i] = array[i]
    BY <1>4, <1>5 DEF LiveIn
  <1>7. \A j \in Indices(cap) : array[j] # Blank => new[j] # Blank
    BY <1>3 DEF UsedIn
  <1>8. \A i \in LiveIn(new, cap) : Reachable(new, cap, i)
    BY <1>2, <1>5, <1>6, <1>7, StaysReachable, LiveKeys DEF Chained
  <1>9. Chained(new, cap)
    BY <1>3, <1>5, <1>6, <1>8 DEF Chained
  <1> QED
    BY <1>5, <1>6, <1>9

(***************************************************************************)
(* Rehashing keeps the pairs.                                              *)
(***************************************************************************)
PairsUpTo(new, n, array, cap) ==
    /\ Chained(new, cap)
    /\ \A i \in LiveIn(array, n) : \E j \in LiveIn(new, cap) : new[j] = array[i]
    /\ \A j \in LiveIn(new, cap) : \E i \in LiveIn(array, n) : new[j] = array[i]

LEMMA LiveNext ==
    ASSUME NEW array, NEW n \in Nat
    PROVE  \A i : i \in LiveIn(array, n + 1) <=>
                     \/ i \in LiveIn(array, n)
                     \/ i = n /\ array[n].key # Null
  BY DEF LiveIn, Indices

LEMMA CopyKeepsPairs ==
    ASSUME NEW array, NEW oldCapacity \in Nat, Chained(array, oldCapacity),
           NEW cap \in Nat \ {0}, oldCapacity <= cap,
           NEW n \in 0 .. oldCapacity - 1,
           NEW new, CopiedUpTo(new, n, array, cap), PairsUpTo(new, n, array, cap)
    PROVE  PairsUpTo(Reinsert(new, cap, array[n]), n + 1, array, cap)
  <1> DEFINE e == array[n]
  <1>1. WellFormed(array, oldCapacity) /\ e \in Entry
    BY DEF Chained, WellFormed, Indices
  <1>2. CASE e.key = Null
    BY <1>2, LiveNext DEF PairsUpTo, Reinsert
  <1>3. CASE e.key # Null
    <2>1. Cardinality(UsedIn(new, cap)) \in 0 .. n
      BY LiveBelow DEF CopiedUpTo
    <2>2. PICK slot : /\ FreeSlot(new, cap, KeyHash[e.key], slot)
                      /\ Reinsert(new, cap, e) = [new EXCEPT ![slot] = e]
      BY <1>1, <1>3, <2>1, ReinsertIntoFreeSlot
    <2>3. e.key \in Keys
      BY <1>1, <1>3 DEF Entry
    <2>4. ~Holds(new, cap, e.key)
      <3> SUFFICES ASSUME NEW j \in LiveIn(new, cap),
                          KeyClass[new[j].key] = KeyClass[e.key]
                   PROVE  FALSE
        BY DEF Holds
      <3>1. PICK i \in LiveIn(array, n) : new[j] = array[i]
        BY DEF PairsUpTo
      <3>2. i \in LiveIn(array, oldCapacity) /\ n \in LiveIn(array, oldCapacity) /\ i # n
        BY <1>3 DEF LiveIn, Indices
      <3> QED
        BY <3>1, <3>2 DEF Chained
    <2>5. PICK next : Stored(next, new, slot, e)
      BY DEF Stored
    <2>6. Chained(new, cap)
      BY DEF PairsUpTo
    <2>7. /\ Chained(next, cap)
          /\ \A i : i \in LiveIn(next, cap) <=> i \in LiveIn(new, cap) \/ i = slot
          /\ \A i \in LiveIn(new, cap) : next[i] = new[i]
      <3>1. e \in Entry /\ FreeSlot(new, cap, KeyHash[e.key], slot)
        BY <1>1, <2>2
      <3> HIDE DEF e
      <3> QED
        BY ZenonT(30), <2>3, <2>4, <2>5, <2>6, <3>1, StoreNew
    <2>8. next[slot] = e
      BY <2>2, <2>5, <2>6, StoredThere DEF Chained, FreeSlot
    <2>9. \A i : i \in LiveIn(array, n + 1) <=> i \in LiveIn(array, n) \/ i = n
      BY <1>3, LiveNext
    <2>10. /\ \A i \in LiveIn(array, n) : \E j \in LiveIn(new, cap) : new[j] = array[i]
           /\ \A j \in LiveIn(new, cap) : \E i \in LiveIn(array, n) : new[j] = array[i]
      BY DEF PairsUpTo
    <2>11. PairsUpTo(next, n + 1, array, cap)
      <3>1. \A i \in LiveIn(array, n + 1) : \E j \in LiveIn(next, cap) : next[j] = array[i]
        BY <2>7, <2>8, <2>9, <2>10
      <3>2. \A j \in LiveIn(next, cap) : \E i \in LiveIn(array, n + 1) : next[j] = array[i]
        BY <2>7, <2>8, <2>9, <2>10
      <3> QED
        BY <2>7, <3>1, <3>2 DEF PairsUpTo
    <2> QED
      BY <2>2, <2>5, <2>11 DEF Stored
  <1> QED
    BY <1>2, <1>3

LEMMA RehashKeepsPairs ==
    ASSUME NEW array, NEW oldCapacity \in Nat, Chained(array, oldCapacity),
           NEW cap \in Nat \ {0}, oldCapacity <= cap
    PROVE  PairsUpTo(adjustEntryCapacity(array, oldCapacity, cap), oldCapacity, array, cap)
  <1> DEFINE rehashed == Rehashed(array, oldCapacity, cap)
             Done == {n \in Nat : /\ CopiedUpTo(rehashed[n], n, array, cap)
                                  /\ PairsUpTo(rehashed[n], n, array, cap)}
  <1>1. 0 \in Done
    <2>1. rehashed[0] = BlankTable(cap)
      BY RehashedSteps
    <2>2. CopiedUpTo(BlankTable(cap), 0, array, cap)
      BY BlankTableIsCopied
    <2>3. LiveIn(array, 0) = {}
      BY DEF LiveIn, Indices
    <2>4. LiveIn(BlankTable(cap), cap) = {}
      BY DEF LiveIn, Indices, BlankTable, Blank
    <2>5. PairsUpTo(BlankTable(cap), 0, array, cap)
      BY <2>2, <2>3, <2>4 DEF PairsUpTo, CopiedUpTo, Chained
    <2> QED
      BY <2>1, <2>2, <2>5
  <1>2. \A n \in 0 .. oldCapacity - 1 : n \in Done => n + 1 \in Done
    <2> SUFFICES ASSUME NEW n \in 0 .. oldCapacity - 1, n \in Done PROVE n + 1 \in Done
      OBVIOUS
    <2>1. rehashed[n + 1] = Reinsert(rehashed[n], cap, array[n])
      BY RehashedSteps
    <2> HIDE DEF rehashed
    <2>2. CopiedUpTo(rehashed[n + 1], n + 1, array, cap)
      BY <2>1, CopyOne DEF Chained
    <2>3. PairsUpTo(rehashed[n + 1], n + 1, array, cap)
      BY <2>1, CopyKeepsPairs
    <2> QED
      BY <2>2, <2>3
  <1>3. oldCapacity \in Done
    <2> HIDE DEF Done
    <2> QED
      BY <1>1, <1>2, Countup
  <1> QED
    BY <1>3 DEF adjustEntryCapacity

(***************************************************************************)
(* The map a table stands for.                                             *)
(***************************************************************************)
Classes(array, cap) == {KeyClass[array[i].key] : i \in LiveIn(array, cap)}

Contents(array, cap) ==
    [c \in Classes(array, cap) |->
       LET i == CHOOSE i \in LiveIn(array, cap) : KeyClass[array[i].key] = c
       IN  array[i].value]

LEMMA ContentsAt ==
    ASSUME NEW array, NEW cap \in Nat, Chained(array, cap)
    PROVE  /\ DOMAIN Contents(array, cap) = Classes(array, cap)
           /\ \A i \in LiveIn(array, cap) :
                 Contents(array, cap)[KeyClass[array[i].key]] = array[i].value
  <1>1. DOMAIN Contents(array, cap) = Classes(array, cap)
    BY DEF Contents
  <1>2. ASSUME NEW i \in LiveIn(array, cap)
        PROVE  Contents(array, cap)[KeyClass[array[i].key]] = array[i].value
    <2> DEFINE c == KeyClass[array[i].key]
               k == CHOOSE j \in LiveIn(array, cap) : KeyClass[array[j].key] = c
    <2>1. k \in LiveIn(array, cap) /\ KeyClass[array[k].key] = c
      OBVIOUS
    <2>2. k = i
      <3> HIDE DEF k
      <3> QED
        BY <2>1 DEF Chained
    <2>3. Contents(array, cap)[c] = array[k].value
      BY DEF Contents, Classes
    <2> QED
      BY <2>2, <2>3
  <1> QED
    BY <1>1, <1>2

(* Tables with the same pairs stand for the same map.                       *)
LEMMA SamePairs ==
    ASSUME NEW array, NEW n \in Nat, Chained(array, n),
           NEW cap \in Nat, NEW new, PairsUpTo(new, n, array, cap)
    PROVE  Contents(new, cap) = Contents(array, n)
  <1>1. Chained(new, cap)
    BY DEF PairsUpTo
  <1>2. Classes(new, cap) = Classes(array, n)
    BY DEF PairsUpTo, Classes
  <1>3. \A c \in Classes(array, n) : Contents(new, cap)[c] = Contents(array, n)[c]
    <2> SUFFICES ASSUME NEW i \in LiveIn(array, n)
                 PROVE  Contents(new, cap)[KeyClass[array[i].key]]
                          = Contents(array, n)[KeyClass[array[i].key]]
      BY DEF Classes
    <2>1. PICK j \in LiveIn(new, cap) : new[j] = array[i]
      BY DEF PairsUpTo
    <2> QED
      BY <1>1, <2>1, ContentsAt
  <1>4. /\ Contents(new, cap) = [c \in Classes(new, cap) |-> Contents(new, cap)[c]]
        /\ Contents(array, n) = [c \in Classes(array, n) |-> Contents(array, n)[c]]
    BY DEF Contents
  <1> QED
    BY <1>2, <1>3, <1>4

Updated(store, class, value) ==
    [c \in DOMAIN store \union {class} |-> IF c = class THEN value ELSE store[c]]

Changed(array, new, cap, slot) ==
    /\ Chained(array, cap) /\ Chained(new, cap)
    /\ \A i \in LiveIn(array, cap) \intersect LiveIn(new, cap) :
          i # slot => new[i] = array[i]

LEMMA ContentsPut ==
    ASSUME NEW array, NEW new, NEW cap \in Nat, NEW slot,
           Changed(array, new, cap, slot),
           \A i : i \in LiveIn(new, cap) <=> i \in LiveIn(array, cap) \/ i = slot,
           slot \in LiveIn(array, cap) =>
               KeyClass[array[slot].key] = KeyClass[new[slot].key]
    PROVE  Contents(new, cap) =
             Updated(Contents(array, cap), KeyClass[new[slot].key], new[slot].value)
  <1> DEFINE class == KeyClass[new[slot].key]
             store == Contents(array, cap)
             store2 == Contents(new, cap)
  <1>1. /\ Chained(array, cap) /\ Chained(new, cap)
        /\ \A i \in LiveIn(array, cap) : i # slot => new[i] = array[i]
    BY DEF Changed
  <1>2. DOMAIN store = Classes(array, cap) /\ DOMAIN store2 = Classes(new, cap)
    BY <1>1, ContentsAt
  <1>3. Classes(new, cap) = Classes(array, cap) \union {class}
    BY <1>1 DEF Classes
  <1>4. store2[class] = new[slot].value
    BY <1>1, ContentsAt
  <1>5. \A c \in Classes(array, cap) : c # class => store2[c] = store[c]
    <2> SUFFICES ASSUME NEW i \in LiveIn(array, cap), KeyClass[array[i].key] # class
                 PROVE  store2[KeyClass[array[i].key]] = store[KeyClass[array[i].key]]
      BY DEF Classes
    <2>1. i \in LiveIn(new, cap) /\ new[i] = array[i]
      BY <1>1
    <2> QED
      BY <1>1, <2>1, ContentsAt
  <1>6. store2 = [c \in Classes(new, cap) |-> store2[c]]
    BY DEF Contents
  <1> HIDE DEF store, store2, class
  <1>7. store2 = Updated(store, class, new[slot].value)
    BY <1>2, <1>3, <1>4, <1>5, <1>6 DEF Updated
  <1> QED
    BY <1>7 DEF store, store2, class

LEMMA ContentsDelete ==
    ASSUME NEW array, NEW new, NEW cap \in Nat, NEW slot \in LiveIn(array, cap),
           Changed(array, new, cap, slot),
           \A i : i \in LiveIn(new, cap) <=> i \in LiveIn(array, cap) /\ i # slot
    PROVE  Contents(new, cap) =
             Restrict(Contents(array, cap),
                      DOMAIN Contents(array, cap) \ {KeyClass[array[slot].key]})
  <1> DEFINE class == KeyClass[array[slot].key]
             store == Contents(array, cap)
             store2 == Contents(new, cap)
  <1>1. /\ Chained(array, cap) /\ Chained(new, cap)
        /\ \A i \in LiveIn(new, cap) : new[i] = array[i]
    BY DEF Changed
  <1>2. DOMAIN store = Classes(array, cap) /\ DOMAIN store2 = Classes(new, cap)
    BY <1>1, ContentsAt
  <1>3. Classes(new, cap) = Classes(array, cap) \ {class}
    <2>1. \A i \in LiveIn(array, cap) : KeyClass[array[i].key] = class => i = slot
      BY <1>1 DEF Chained
    <2> QED
      BY <1>1, <2>1 DEF Classes
  <1>4. \A c \in Classes(new, cap) : store2[c] = store[c]
    <2> SUFFICES ASSUME NEW i \in LiveIn(new, cap)
                 PROVE  store2[KeyClass[new[i].key]] = store[KeyClass[new[i].key]]
      BY DEF Classes
    <2>1. i \in LiveIn(array, cap) /\ new[i] = array[i]
      BY <1>1
    <2> QED
      BY <1>1, <2>1, ContentsAt
  <1>5. store2 = [c \in Classes(new, cap) |-> store2[c]]
    BY DEF Contents
  <1> HIDE DEF store, store2, class
  <1>6. store2 = Restrict(store, DOMAIN store \ {class})
    BY <1>2, <1>3, <1>4, <1>5 DEF Restrict
  <1> QED
    BY <1>6 DEF store, store2, class

(***************************************************************************)
(* The calls.                                                              *)
(***************************************************************************)
Chains == table = "live" => Chained(entries, capacity)

LEMMA LiveTable ==
    ASSUME Counted, table = "live"
    PROVE  capacity \in Nat \ {0} /\ Cardinality(UsedIn(entries, capacity)) < capacity
  <1>1. /\ capacity \in Nat /\ capacity >= 8 /\ contains \in Nat
        /\ Cardinality(UsedIn(entries, capacity)) <= contains
        /\ 4 * contains <= 3 * capacity
    BY KeyAssumption DEF Counted, Loaded, GrowCapacity
  <1>2. Cardinality(UsedIn(entries, capacity)) \in Nat
    BY <1>1, SlotSetsAreFinite
  <1> QED
    BY <1>1, <1>2

(* set stores the pair under the key's class.                               *)
LEMMA SetEffect ==
    ASSUME HashRespectsEquality, Counted, Chains,
           NEW key \in Keys, NEW value \in Values,
           Xvr_setLiteralDictionary(key, value)
    PROVE  /\ table = "live" /\ table' = "live" /\ ret' = <<"void">>
           /\ Chained(entries', capacity')
           /\ Contents(entries', capacity') =
                Updated(Contents(entries, capacity), KeyClass[key], value)
  <1> DEFINE grow == Overloaded(contains, capacity)
             cap == IF grow THEN GrowCapacity(capacity) ELSE capacity
             array == IF grow THEN adjustEntryCapacity(entries, capacity, cap)
                      ELSE entries
             slot == getEntryArray(array, cap, key, KeyHash[key], FALSE)
             e == [key |-> key, value |-> value]
  <1>1. table = "live" /\ setEntryArray(key, value)
    BY KeyAssumption DEF Xvr_setLiteralDictionary
  <1>2. /\ cap \in Nat \ {0} /\ cap >= capacity
        /\ Cardinality(UsedIn(array, cap)) < cap
    BY <1>1, RoomForOneMore DEF GrowCapacity
  <1>3. KeyHash[key] \in Nat
    BY KeyAssumption
  <1>4. slot # NoEntry
    <2> HIDE DEF cap, array
    <2> QED
      BY <1>2, <1>3, SearchEnds
  <1>5. /\ capacity' = cap /\ Stored(entries', array, slot, e)
        /\ ret' = <<"void">> /\ table' = "live"
    BY <1>1, <1>4 DEF setEntryArray, Stored
  <1>6. capacity \in Nat \ {0} /\ Chained(entries, capacity)
    BY <1>1, LiveTable DEF Chains
  <1>7. Chained(array, cap) /\ Contents(array, cap) = Contents(entries, capacity)
    <2>1. CASE ~grow
      BY <1>6, <2>1
    <2>2. CASE grow
      <3> HIDE DEF cap
      <3>1. PairsUpTo(adjustEntryCapacity(entries, capacity, cap), capacity, entries, cap)
        BY <1>2, <1>6, RehashKeepsPairs
      <3>2. array = adjustEntryCapacity(entries, capacity, cap)
        BY <2>2
      <3> QED
        BY <1>2, <1>6, <3>1, <3>2, SamePairs DEF PairsUpTo
    <2> QED
      BY <2>1, <2>2
  <1> HIDE DEF cap, array
  <1>8. e \in Entry /\ e.key = key /\ e.value = value
    BY DEF Entry
  <1>9. slot \in Indices(cap) /\ entries'[slot] = e
    <2>1. slot \in Indices(cap)
      BY <1>2, <1>3, <1>4, SearchStops
    <2> HIDE DEF e, slot
    <2>2. WellFormed(array, cap) /\ cap \in Nat
      BY <1>2, <1>7 DEF Chained
    <2> QED
      BY <1>5, <2>1, <2>2, StoredThere
  <1>10. /\ Chained(entries', cap)
         /\ \A i : i \in LiveIn(entries', cap) <=> i \in LiveIn(array, cap) \/ i = slot
         /\ \A i \in LiveIn(array, cap) : i # slot => entries'[i] = array[i]
         /\ slot \in LiveIn(array, cap) => KeyClass[array[slot].key] = KeyClass[key]
    <2>1. CASE Holds(array, cap, key)
      <3>1. PICK i \in LiveIn(array, cap) : KeyClass[array[i].key] = KeyClass[key]
        BY <2>1 DEF Holds
      <3>2. slot = i
        BY ZenonT(30), <1>2, <1>7, <3>1, SearchFinds
      <3> HIDE DEF e, slot
      <3> QED
        BY <1>2, <1>5, <1>7, <1>8, <3>1, <3>2, StoreAgain
    <2>2. CASE ~Holds(array, cap, key)
      <3>1. array[slot] = Blank
        BY <1>2, <1>3, <1>4, <1>7, <2>2, SearchMisses DEF Chained
      <3>2. FreeSlot(array, cap, KeyHash[key], slot)
        <4>1. PICK d \in Indices(cap) :
                 /\ slot = Probe(KeyHash[key], cap, d)
                 /\ FirstStop(array, cap, key, KeyHash[key], FALSE, d)
          BY <1>2, <1>3, <1>4, SearchResult
        <4> HIDE DEF slot
        <4>2. \A x \in 0 .. d - 1 : array[Probe(KeyHash[key], cap, x)] # Blank
          BY <4>1 DEF FirstStop, Stops
        <4>3. Probe(KeyHash[key], cap, d) = slot
          BY <4>1
        <4> QED
          BY <1>9, <3>1, <4>2, <4>3 DEF FreeSlot
      <3> HIDE DEF e, slot
      <3>3. slot \notin LiveIn(array, cap)
        BY <3>1 DEF LiveIn, Blank
      <3> QED
        BY <1>2, <1>5, <1>7, <1>8, <2>2, <3>2, <3>3, StoreNew
    <2> QED
      BY <2>1, <2>2
  <1> HIDE DEF slot
  <1>11. Changed(array, entries', cap, slot)
    BY <1>7, <1>10 DEF Changed
  <1>12. /\ KeyClass[entries'[slot].key] = KeyClass[key] /\ entries'[slot].value = value
    BY <1>8, <1>9
  <1>13. Contents(entries', cap) =
           Updated(Contents(array, cap), KeyClass[entries'[slot].key], entries'[slot].value)
    BY <1>2, <1>10, <1>11, <1>12, ContentsPut
  <1> HIDE DEF e
  <1> QED
    BY <1>1, <1>5, <1>7, <1>10, <1>12, <1>13

Pairs == Contents(entries, capacity)
Has(key) == key \notin Unhashable /\ KeyClass[key] \in DOMAIN Pairs

LEMMA FoundIffHas ==
    ASSUME HashRespectsEquality, Counted, Chains, table = "live", NEW key \in Keys
    PROVE  /\ Found(key) = NoEntry <=> ~Has(key)
           /\ Found(key) # NoEntry =>
                 /\ Found(key) \in LiveIn(entries, capacity)
                 /\ KeyClass[entries[Found(key)].key] = KeyClass[key]
                 /\ Pairs[KeyClass[key]] = entries[Found(key)].value
           /\ Has(key) <=> Holds(entries, capacity, key)
  <1>1. capacity \in Nat \ {0} /\ Chained(entries, capacity)
    BY LiveTable DEF Chains
  <1>2. Has(key) <=> Holds(entries, capacity, key)
    <2>1. DOMAIN Pairs = Classes(entries, capacity)
      BY <1>1, ContentsAt DEF Pairs
    <2> QED
      BY <2>1, KeyAssumption DEF Has, Holds, Classes
  <1>3. CASE Holds(entries, capacity, key)
    <2>1. PICK i \in LiveIn(entries, capacity) : KeyClass[entries[i].key] = KeyClass[key]
      BY <1>3 DEF Holds
    <2>2. Found(key) = i
      BY <1>1, <2>1, SearchFinds DEF Found
    <2>3. i # NoEntry
      BY DEF LiveIn, Indices, NoEntry
    <2>4. Pairs[KeyClass[entries[i].key]] = entries[i].value
      BY <1>1, ContentsAt DEF Pairs
    <2> QED
      BY <1>2, <1>3, <2>1, <2>2, <2>3, <2>4
  <1>4. CASE ~Holds(entries, capacity, key)
    <2>1. Found(key) = NoEntry
      BY <1>1, <1>4, SearchMisses, KeyAssumption DEF Found, Chained
    <2> QED
      BY <1>2, <1>4, <2>1
  <1> QED
    BY <1>3, <1>4

(* get returns what the map holds under the key's class, or null.           *)
LEMMA GetEffect ==
    ASSUME HashRespectsEquality, Counted, Chains,
           NEW key \in Keys \union Unhashable, Xvr_getLiteralDictionary(key)
    PROVE  ret' = <<"value", IF Has(key) THEN Pairs[KeyClass[key]] ELSE Null>>
  <1>1. CASE key \in Unhashable
    BY <1>1 DEF Xvr_getLiteralDictionary, Has
  <1>2. CASE key \in Keys
    BY <1>2, FoundIffHas, KeyAssumption DEF Xvr_getLiteralDictionary, Has
  <1> QED
    BY <1>1, <1>2

(* exists answers whether the map holds the key's class; a function or      *)
(* opaque key, which it does not reject, is never found.                    *)
LEMMA ExistsEffect ==
    ASSUME HashRespectsEquality, Counted, Chains,
           NEW key \in Keys \union Unhashable, Xvr_existsLiteralDictionary(key)
    PROVE  ret' = <<"bool", Has(key)>>
  <1> DEFINE slot == getEntryArray(entries, capacity, key, KeyHash[key], FALSE)
  <1>1. table = "live" /\ KeyHash[key] \in Nat
    BY KeyAssumption DEF Xvr_existsLiteralDictionary
  <1>2. /\ capacity \in Nat \ {0} /\ Chained(entries, capacity)
        /\ Cardinality(UsedIn(entries, capacity)) < capacity
    BY <1>1, LiveTable DEF Chains
  <1>3. slot # NoEntry
    BY <1>1, <1>2, SearchEnds
  <1>4. ret' = <<"bool", entries[slot] # Blank>>
    BY <1>3 DEF Xvr_existsLiteralDictionary
  <1>5. Has(key) <=> Holds(entries, capacity, key)
    <2>1. CASE key \in Keys
      BY <1>1, <2>1, FoundIffHas
    <2>2. CASE key \in Unhashable
      BY <2>2, KeyAssumption DEF Has, Holds
    <2> QED
      BY <2>1, <2>2
  <1>6. CASE Holds(entries, capacity, key)
    <2>1. PICK i \in LiveIn(entries, capacity) : KeyClass[entries[i].key] = KeyClass[key]
      BY <1>6 DEF Holds
    <2>2. slot = i /\ key \in Keys
      BY <1>2, <1>6, <2>1, SearchFinds DEF Holds
    <2>3. entries[i] # Blank
      BY DEF LiveIn, Blank
    <2> HIDE DEF slot
    <2>4. (entries[slot] # Blank) = TRUE /\ Has(key) = TRUE
      BY <1>5, <1>6, <2>2, <2>3 DEF Has
    <2> QED
      BY <1>4, <2>4
  <1>7. CASE ~Holds(entries, capacity, key)
    <2>1. entries[slot] = Blank
      BY <1>1, <1>2, <1>3, <1>7, SearchMisses DEF Chained
    <2> HIDE DEF slot
    <2>2. (entries[slot] # Blank) = FALSE /\ Has(key) = FALSE
      BY <1>5, <1>7, <2>1 DEF Has
    <2> QED
      BY <1>4, <2>2
  <1> QED
    BY <1>6, <1>7

(* remove drops the key's class.                                            *)
LEMMA RemoveEffect ==
    ASSUME HashRespectsEquality, Counted, Chains,
           NEW key \in Keys \union Unhashable, Xvr_removeLiteralDictionary(key)
    PROVE  /\ Chains' /\ ret' = <<"void">>
           /\ Pairs' = IF key \in Unhashable THEN Pairs
                       ELSE Restrict(Pairs, DOMAIN Pairs \ {KeyClass[key]})
  <1>1. /\ table = "live" /\ ret' = <<"void">> /\ UNCHANGED <<capacity, table>>
    BY DEF Xvr_removeLiteralDictionary
  <1>2. capacity \in Nat \ {0} /\ Chained(entries, capacity)
    BY <1>1, LiveTable DEF Chains
  <1>3. CASE key \in Unhashable
    BY <1>1, <1>3 DEF Xvr_removeLiteralDictionary, Chains, Pairs
  <1>4. CASE key \in Keys /\ Found(key) = NoEntry
    <2>1. UNCHANGED entries /\ key \notin Unhashable
      BY <1>4, KeyAssumption DEF Xvr_removeLiteralDictionary
    <2>2. KeyClass[key] \notin DOMAIN Pairs
      BY <1>1, <1>4, <2>1, FoundIffHas DEF Has
    <2>3. Restrict(Pairs, DOMAIN Pairs \ {KeyClass[key]}) = Pairs
      <3>1. Pairs = [c \in DOMAIN Pairs |-> Pairs[c]]
        BY DEF Pairs, Contents
      <3>2. DOMAIN Pairs \ {KeyClass[key]} = DOMAIN Pairs
        BY <2>2
      <3> QED
        BY <3>1, <3>2 DEF Restrict
    <2>4. Pairs' = Pairs /\ Chains'
      BY <1>1, <2>1 DEF Pairs, Chains
    <2> QED
      BY <1>1, <2>1, <2>3, <2>4
  <1>5. CASE key \in Keys /\ Found(key) # NoEntry
    <2> DEFINE slot == Found(key)
    <2>1. Stored(entries', entries, slot, Tombstone) /\ key \notin Unhashable
      BY <1>5, KeyAssumption DEF Xvr_removeLiteralDictionary, Stored
    <2>2. /\ slot \in LiveIn(entries, capacity)
          /\ KeyClass[entries[slot].key] = KeyClass[key]
      BY <1>1, <1>5, FoundIffHas
    <2> HIDE DEF slot
    <2>3. /\ Chained(entries', capacity)
          /\ \A i : i \in LiveIn(entries', capacity)
                       <=> i \in LiveIn(entries, capacity) /\ i # slot
          /\ \A i \in LiveIn(entries', capacity) : entries'[i] = entries[i]
      BY <1>2, <2>1, <2>2, BuryKeepsChains
    <2>4. Changed(entries, entries', capacity, slot)
      BY <1>2, <2>3 DEF Changed
    <2>5. Contents(entries', capacity) =
            Restrict(Pairs, DOMAIN Pairs \ {KeyClass[entries[slot].key]})
      BY <1>2, <2>2, <2>3, <2>4, ContentsDelete DEF Pairs
    <2> QED
      BY <1>1, <2>1, <2>2, <2>3, <2>5 DEF Pairs, Chains
  <1> QED
    BY <1>1, <1>3, <1>4, <1>5

(***************************************************************************)
(* The theorems.                                                           *)
(***************************************************************************)

(* A step of the table is a step of the map or leaves it alone.             *)
MapStep ==
    \/ \E key \in Keys \union Unhashable :
          \/ \E value \in Values :
                /\ ret' = <<"void">>
                /\ Pairs' = IF key \in Unhashable THEN Pairs
                            ELSE Updated(Pairs, KeyClass[key], value)
          \/ /\ ret' = <<"void">>
             /\ Pairs' = IF key \in Unhashable THEN Pairs
                         ELSE Restrict(Pairs, DOMAIN Pairs \ {KeyClass[key]})
          \/ /\ ret' = <<"value", IF Has(key) THEN Pairs[KeyClass[key]] ELSE Null>>
             /\ Pairs' = Pairs
          \/ ret' = <<"bool", Has(key)>> /\ Pairs' = Pairs
    \/ ret' = <<"void">> /\ Pairs' = << >>
    \/ ret' = ret /\ Pairs' = Pairs

LEMMA EmptyContents ==
    ASSUME NEW array, NEW cap \in Nat, LiveIn(array, cap) = {}
    PROVE  Contents(array, cap) = << >>
  <1>1. Classes(array, cap) = {}
    BY DEF Classes
  <1>2. DOMAIN Contents(array, cap) = {}
    BY <1>1 DEF Contents
  <1> QED
    BY <1>1 DEF Contents

LEMMA StepsAreMapSteps ==
    ASSUME HashRespectsEquality, Counted, Chains, [Next]_vars
    PROVE  Chains' /\ MapStep
  <1>1. CASE Xvr_initLiteralDictionary
    <2> DEFINE cap == GrowCapacity(0)
    <2>1. cap \in Nat /\ entries' = BlankTable(cap) /\ capacity' = cap /\ ret' = <<"void">>
      BY <1>1 DEF Xvr_initLiteralDictionary, GrowCapacity
    <2>2. CopiedUpTo(BlankTable(cap), 0, entries, cap)
      BY <2>1, BlankTableIsCopied
    <2>3. LiveIn(BlankTable(cap), cap) = {}
      BY DEF LiveIn, Indices, BlankTable, Blank
    <2>4. Chained(BlankTable(cap), cap)
      BY <2>2, <2>3 DEF Chained, CopiedUpTo
    <2>5. Pairs' = << >>
      BY <2>1, <2>3, EmptyContents DEF Pairs
    <2> QED
      BY <2>1, <2>4, <2>5 DEF MapStep, Chains
  <1>2. CASE Xvr_freeLiteralDictionary
    <2>1. entries' = << >> /\ capacity' = 0 /\ table' = "freed" /\ ret' = <<"void">>
      BY <1>2 DEF Xvr_freeLiteralDictionary
    <2>2. LiveIn(entries', 0) = {}
      BY DEF LiveIn, Indices
    <2>3. Pairs' = << >>
      BY <2>1, <2>2, EmptyContents DEF Pairs
    <2> QED
      BY <2>1, <2>3 DEF MapStep, Chains
  <1>3. ASSUME NEW key \in Keys \union Unhashable, NEW value \in Values,
               Xvr_setLiteralDictionary(key, value)
        PROVE  Chains' /\ MapStep
    <2>1. CASE key \in Unhashable
      <3>1. ret' = <<"void">> /\ UNCHANGED <<entries, capacity, table>>
        BY <1>3, <2>1 DEF Xvr_setLiteralDictionary
      <3>2. Pairs' = Pairs /\ Chains'
        BY <3>1 DEF Pairs, Chains
      <3> QED
        BY <2>1, <3>1, <3>2 DEF MapStep
    <2>2. CASE key \in Keys
      <3>1. /\ ret' = <<"void">> /\ Chains'
            /\ Pairs' = Updated(Pairs, KeyClass[key], value)
        BY <1>3, <2>2, SetEffect DEF Pairs, Chains
      <3>2. key \notin Unhashable
        BY <2>2, KeyAssumption
      <3> QED
        BY <3>1, <3>2 DEF MapStep
    <2> QED
      BY <2>1, <2>2
  <1>4. ASSUME NEW key \in Keys \union Unhashable, Xvr_getLiteralDictionary(key)
        PROVE  Chains' /\ MapStep
    <2>1. UNCHANGED <<entries, capacity, table>>
      BY <1>4, LooksKeepCounts
    <2>2. Pairs' = Pairs /\ Chains'
      BY <2>1 DEF Pairs, Chains
    <2> QED
      BY <1>4, <2>2, GetEffect DEF MapStep
  <1>5. ASSUME NEW key \in Keys \union Unhashable, Xvr_removeLiteralDictionary(key)
        PROVE  Chains' /\ MapStep
    BY <1>5, RemoveEffect DEF MapStep
  <1>6. ASSUME NEW key \in Keys \union Unhashable, Xvr_existsLiteralDictionary(key)
        PROVE  Chains' /\ MapStep
    <2>1. UNCHANGED <<entries, capacity, table>>
      BY <1>6, LooksKeepCounts
    <2>2. Pairs' = Pairs /\ Chains'
      BY <2>1 DEF Pairs, Chains
    <2> QED
      BY <1>6, <2>2, ExistsEffect DEF MapStep
  <1>7. CASE UNCHANGED vars
    <2>1. Pairs' = Pairs /\ Chains' /\ ret' = ret
      BY <1>7 DEF vars, Pairs, Chains
    <2> QED
      BY <2>1 DEF MapStep
  <1> QED
    BY <1>1, <1>2, <1>3, <1>4, <1>5, <1>6, <1>7 DEF Next

LEMMA ChainsInvariant ==
    ASSUME HashRespectsEquality
    PROVE  Spec => []Chains
  <1>1. Init => Chains
    BY DEF Init, Chains
  <1>2. Counted /\ Chains /\ [Next]_vars => Chains'
    BY StepsAreMapSteps
  <1> QED
    BY <1>1, <1>2, CountedInvariant, PTL DEF Spec

(* Removals, resizes and wrapped probes break no probe chain: the probe for *)
(* any live key, for any capacity and any hashes that respect equality,     *)
(* ends at its slot.                                                        *)
THEOREM KeysReachable ==
    ASSUME HashRespectsEquality
    PROVE  Spec => []KeysStayReachable
  <1>1. Counted /\ Chains => KeysStayReachable
    <2> SUFFICES ASSUME Counted, Chains, NEW i \in LiveSlots
                 PROVE  getEntryArray(entries, capacity, entries[i].key,
                                      KeyHash[entries[i].key], FALSE) = i
      BY DEF KeysStayReachable
    <2>1. table = "live"
      BY DEF LiveSlots, Slots, Counted
    <2>2. capacity \in Nat \ {0} /\ Chained(entries, capacity) /\ WellFormed(entries, capacity)
      BY <2>1, LiveTable DEF Chains, Chained
    <2>3. i \in LiveIn(entries, capacity)
      BY <2>2 DEF LiveSlots, Slots, LiveIn, WellFormed
    <2>4. entries[i].key \in Keys
      BY <2>2, <2>3, LiveKeys
    <2> QED
      BY ZenonT(30), <2>2, <2>3, <2>4, SearchFinds
  <1> QED
    BY <1>1, CountedInvariant, ChainsInvariant, PTL

(* What ImplementsMap puts for store is Pairs.                              *)
LEMMA StoreIsPairs ==
    ASSUME Counted
    PROVE  [c \in {KeyClass[entries[i].key] : i \in LiveSlots} |->
              LET i == CHOOSE i \in LiveSlots : KeyClass[entries[i].key] = c
              IN  entries[i].value] = Pairs
  <1>1. LiveSlots = LiveIn(entries, capacity)
    BY DEF LiveSlots, Slots, LiveIn, Counted, Loaded, WellFormed, Indices
  <1> QED
    BY <1>1 DEF Pairs, Contents, Classes

(* The hash table is the finite map it stands for, call by call and result  *)
(* by result, provided equal keys hash alike.                               *)
THEOREM TableImplementsMap ==
    ASSUME HashRespectsEquality
    PROVE  Spec => ImplementsMap
  <1> DEFINE store == [c \in {KeyClass[entries[i].key] : i \in LiveSlots} |->
                         LET i == CHOOSE i \in LiveSlots : KeyClass[entries[i].key] = c
                         IN  entries[i].value]
  <1>1. Init => Map!Init
    <2> SUFFICES ASSUME Init PROVE store = << >> /\ ret = <<"void">>
      BY DEF Map!Init
    <2>1. LiveSlots = {} /\ ret = <<"void">>
      BY DEF Init, LiveSlots, Slots
    <2> QED
      BY <2>1
  <1>2. Counted => store = Pairs
    BY StoreIsPairs
  <1>3. (Counted => store = Pairs)'
    BY <1>2, PTL
  <1>4. ASSUME NEW key, NEW value
        PROVE  Map!Put(key, value) <=>
                  /\ store' = IF key \in Unhashable THEN store
                              ELSE Updated(store, KeyClass[key], value)
                  /\ ret' = <<"void">>
    BY DEF Map!Put, Updated
  <1>5. ASSUME NEW key
        PROVE  Map!Delete(key) <=>
                  /\ store' = IF key \in Unhashable THEN store
                              ELSE Restrict(store, DOMAIN store \ {KeyClass[key]})
                  /\ ret' = <<"void">>
    BY DEF Map!Delete, Map!Restrict, Restrict
  <1>6. ASSUME NEW key
        PROVE  Map!Has(key) <=> key \notin Unhashable /\ KeyClass[key] \in DOMAIN store
    BY DEF Map!Has
  <1>7. ASSUME NEW key
        PROVE  Map!Lookup(key) <=>
                  /\ ret' = <<"value", IF Map!Has(key) THEN store[KeyClass[key]] ELSE Null>>
                  /\ store' = store
    BY DEF Map!Lookup
  <1>8. ASSUME NEW key
        PROVE  Map!Contains(key) <=> ret' = <<"bool", Map!Has(key)>> /\ store' = store
    BY DEF Map!Contains
  <1>9. Map!Clear <=> store' = << >> /\ ret' = <<"void">>
    BY DEF Map!Clear
  <1>10. Counted /\ Counted' /\ Chains /\ [Next]_vars => [Map!Next]_<<store, ret>>
    <2> SUFFICES ASSUME Counted, Counted', Chains, [Next]_vars
                 PROVE  [Map!Next]_<<store, ret>>
      OBVIOUS
    <2>1. MapStep
      BY StepsAreMapSteps
    <2>2. store = Pairs /\ store' = Pairs'
      BY <1>2, <1>3
    <2> HIDE DEF store
    <2> QED
      BY <1>4, <1>5, <1>6, <1>7, <1>8, <1>9, <2>1, <2>2 DEF MapStep, Has, Map!Next
  <1> QED
    BY <1>1, <1>10, CountedInvariant, ChainsInvariant, PTL DEF Spec, ImplementsMap, Map!Spec
=============================================================================

------------------------- MODULE LiteralDictionary --------------------------
(***************************************************************************)
(* The open-addressing hash table behind scopes and dictionary literals    *)
(* (src/xvr_literal_dictionary.cpp): linear probing, tombstones that are    *)
(* entries with a null key and the value true, a table that doubles        *)
(* when contains + 1 exceeds three quarters of the capacity.               *)
(*                                                                         *)
(* A key is an element of Keys.  KeyClass says which keys                  *)
(* Xvr_literalsAreEqual calls equal and KeyHash what Xvr_hashLiteral       *)
(* returns; the two are independent because they are in the code (an       *)
(* integer and a float that compare equal hash differently).               *)
(***************************************************************************)
EXTENDS Integers, FiniteSets, FiniteSetsExt

CONSTANTS
    Keys,          \* literals the table accepts as keys
    Unhashable,    \* literals set, get and remove reject
    KeyClass,      \* [Keys -> classes of equal literals]
    KeyHash,       \* [Keys \union Unhashable -> Nat]
    Values,        \* literals used as values
    Null,          \* the null literal
    True,          \* the boolean literal true, the mark of a tombstone
    MaxCapacity    \* bound: no call that would grow the table beyond it

ASSUME KeyAssumption ==
    /\ Null \notin Keys /\ Keys \intersect Unhashable = {}
    /\ DOMAIN KeyClass = Keys
    /\ KeyHash \in [Keys \union Unhashable -> Nat]
    /\ True # Null
    /\ MaxCapacity \in Nat /\ MaxCapacity >= 8    \* the first table has 8 slots

\* Equal literals hash alike: the contract between Xvr_literalsAreEqual and
\* Xvr_hashLiteral that linear probing needs.
HashRespectsEquality ==
    \A j, k \in Keys : KeyClass[j] = KeyClass[k] => KeyHash[j] = KeyHash[k]

VARIABLES
    entries,       \* the slots, a function from 0 .. capacity - 1
    capacity,
    contains,      \* insertions since the table was initialised
    count,         \* live pairs
    table,         \* the buffer entries points to: "none", "live", "freed"
    ret,           \* what the last call returned
    fault          \* undefined behaviour a call ran into, "none" so far

vars == <<entries, capacity, contains, count, table, ret, fault>>

Entry == [key : Keys \union {Null}, value : Values \union {Null, True}]
Blank == [key |-> Null, value |-> Null]
\* A removed pair leaves an empty slot.
TombstoneMutant == Blank
Tombstone == [key |-> Null, value |-> True]

BlankTable(cap) == [i \in 0 .. cap - 1 |-> Blank]

NoEntry == -1      \* the NULL getEntryArray returns after a whole turn

\* A null or unhashable key is equal to no key of the table.
literalsAreEqual(j, k) ==
    j \in Keys /\ k \in Keys /\ KeyClass[j] = KeyClass[k]

(* Operators whose name ends in Mutant are mistakes a change to this code   *)
(* could make.  The specification does not use them: put in the place of    *)
(* the operator they precede, they must break the properties.               *)

\* The slot d steps after the home of hash, around the end of the table.
Probe(hash, cap, d) == (hash + d) % cap

\* A search stops at a slot that holds the key and, unless mustExist, at a
\* blank one; it passes tombstones.
Stops(e, key, mustExist) ==
    \/ e = Blank /\ ~mustExist
    \/ literalsAreEqual(key, e.key)

\* The first slot, from the home of hash, at which the search stops.
getEntryArray(array, cap, key, hash, mustExist) ==
    LET stops == {d \in 0 .. cap - 1 :
                     Stops(array[Probe(hash, cap, d)], key, mustExist)}
    IN  IF stops = {} THEN NoEntry ELSE Probe(hash, cap, Min(stops))

\* Moves one entry of the old table into the new one, where its key is not:
\* the search is for the null key, which only a blank slot ends.
Reinsert(new, cap, e) ==
    IF e.key = Null THEN new
    ELSE [new EXCEPT
           ![getEntryArray(new, cap, Null, KeyHash[e.key], FALSE)] = e]

\* The new table once the first n slots of the old one are copied.
Rehashed(array, oldCapacity, cap) ==
    LET rehashed[n \in 0 .. oldCapacity] ==
            IF n = 0 THEN BlankTable(cap)
            ELSE Reinsert(rehashed[n - 1], cap, array[n - 1])
    IN  rehashed

\* Rehashes all slots but the last.
adjustEntryCapacityMutant(array, oldCapacity, cap) ==
    Rehashed(array, oldCapacity, cap)[oldCapacity - 1]

\* Copies the live entries, in slot order, into a fresh table: tombstones are
\* dropped.
adjustEntryCapacity(array, oldCapacity, cap) ==
    Rehashed(array, oldCapacity, cap)[oldCapacity]

GrowCapacity(cap) == IF cap < 8 THEN 8 ELSE cap * 2

\* Grows only a table that is full.
OverloadedMutant(used, cap) == used + 1 > cap

\* contains + 1 > capacity * XVR_DICTIONARY_MAX_LOAD (0.75)
Overloaded(used, cap) == 4 * (used + 1) > 3 * cap

-----------------------------------------------------------------------------
Init ==
    /\ entries = << >> /\ capacity = 0 /\ contains = 0 /\ count = 0
    /\ table = "none" /\ ret = <<"void">> /\ fault = "none"

Crash(kind) ==
    /\ fault' = kind
    /\ UNCHANGED <<entries, capacity, contains, count, table, ret>>

Xvr_initLiteralDictionary ==
    /\ table # "live"
    /\ capacity' = GrowCapacity(0)
    /\ entries' = BlankTable(GrowCapacity(0))
    /\ contains' = 0 /\ count' = 0
    /\ table' = "live" /\ ret' = <<"void">>
    /\ UNCHANGED fault

\* Frees the buffer but neither clears the pointer nor resets count, so a table
\* that is free must not be freed again.
Xvr_freeLiteralDictionary ==
    /\ table = "live"
    /\ entries' = << >> /\ table' = "freed"
    /\ capacity' = 0 /\ contains' = 0 /\ ret' = <<"void">>
    /\ UNCHANGED <<count, fault>>

setEntryArray(key, value) ==
    LET grow == Overloaded(contains, capacity)
        cap == IF grow THEN GrowCapacity(capacity) ELSE capacity
        array == IF grow THEN adjustEntryCapacity(entries, capacity, cap)
                 ELSE entries
        slot == getEntryArray(array, cap, key, KeyHash[key], FALSE)
    IN  IF slot = NoEntry THEN Crash("null dereference")
        ELSE /\ cap <= MaxCapacity
             /\ capacity' = cap
             /\ entries' = [array EXCEPT ![slot] = [key |-> key, value |-> value]]
             /\ LET increment == IF array[slot].key = Null THEN 1 ELSE 0
                IN  contains' = contains + increment /\ count' = count + increment
             /\ ret' = <<"void">>
             /\ UNCHANGED <<table, fault>>

Xvr_setLiteralDictionary(key, value) ==
    /\ table = "live"
    /\ IF key \in Unhashable
       THEN ret' = <<"void">> /\ UNCHANGED <<entries, capacity, contains, count, table, fault>>
       ELSE setEntryArray(key, value)

Found(key) == getEntryArray(entries, capacity, key, KeyHash[key], TRUE)

Xvr_getLiteralDictionary(key) ==
    /\ table = "live"
    /\ ret' = <<"value", IF key \in Unhashable \/ Found(key) = NoEntry THEN Null
                         ELSE entries[Found(key)].value>>
    /\ UNCHANGED <<entries, capacity, contains, count, table, fault>>

\* Counts a removal that finds nothing.
RemoveMutant(key) ==
    /\ table = "live"
    /\ ret' = <<"void">>
    /\ IF key \in Unhashable \/ Found(key) = NoEntry
       THEN UNCHANGED entries
       ELSE entries' = [entries EXCEPT ![Found(key)] = Tombstone]
    /\ count' = count - 1
    /\ UNCHANGED <<capacity, contains, table, fault>>

\* contains keeps counting the slot: it is a tombstone now.
Xvr_removeLiteralDictionary(key) ==
    /\ table = "live"
    /\ ret' = <<"void">>
    /\ IF key \in Unhashable \/ Found(key) = NoEntry
       THEN UNCHANGED <<entries, count>>
       ELSE /\ entries' = [entries EXCEPT ![Found(key)] = Tombstone]
            /\ count' = count - 1
    /\ UNCHANGED <<capacity, contains, table, fault>>

\* Dereferences the entry without a check, and checks no kind of key.
Xvr_existsLiteralDictionary(key) ==
    /\ table = "live"
    /\ LET slot == getEntryArray(entries, capacity, key, KeyHash[key], FALSE)
       IN  IF slot = NoEntry THEN Crash("null dereference")
           ELSE /\ ret' = <<"bool", entries[slot] # Blank>>
                /\ UNCHANGED <<entries, capacity, contains, count, table, fault>>

Next ==
    /\ fault = "none"
    /\ \/ Xvr_initLiteralDictionary
       \/ Xvr_freeLiteralDictionary
       \/ \E key \in Keys \union Unhashable :
             \/ \E value \in Values : Xvr_setLiteralDictionary(key, value)
             \/ Xvr_getLiteralDictionary(key)
             \/ Xvr_removeLiteralDictionary(key)
             \/ Xvr_existsLiteralDictionary(key)

Spec == Init /\ [][Next]_vars

-----------------------------------------------------------------------------
Slots == DOMAIN entries
LiveSlots == {i \in Slots : entries[i].key # Null}
UsedSlots == {i \in Slots : entries[i] # Blank}

\* The shape of the table: what every slot and counter may hold.
TypeOK ==
    /\ capacity \in 0 .. MaxCapacity /\ Slots = 0 .. capacity - 1
    /\ \A i \in Slots : entries[i] \in Entry
    /\ \A i \in Slots : entries[i].key = Null => entries[i] \in {Blank, Tombstone}
    /\ contains \in 0 .. MaxCapacity /\ count \in 0 .. MaxCapacity
    /\ table \in {"none", "live", "freed"}
    /\ fault \in {"none", "null dereference"}

\* No call dereferences the NULL that getEntryArray returns when a whole turn
\* of the table meets neither the key nor a blank slot.  exists and set both
\* dereference without a check; only the growth test on contains, which never
\* forgets a tombstone of the current table, keeps a blank slot available.
SearchAlwaysEnds == fault # "null dereference"

\* The reason: used slots, tombstones included, are never more than contains,
\* and contains never exceeds three quarters of a live table.
LoadIsBounded ==
    table = "live" => /\ Cardinality(UsedSlots) <= contains
                      /\ 4 * contains <= 3 * capacity

\* Every live key is still reached by the probe that stops at blanks (the one
\* exists and set use): removals and resizes never break a probe chain, and no
\* key equal to it is stored in a slot before it.
KeysStayReachable ==
    \A i \in LiveSlots :
        getEntryArray(entries, capacity, entries[i].key,
                      KeyHash[entries[i].key], FALSE) = i

\* The hash table implements the finite map of LiteralMap, call by call,
\* results included.
Map == INSTANCE LiteralMap WITH
          store <- [c \in {KeyClass[entries[i].key] : i \in LiveSlots} |->
                      LET i == CHOOSE i \in LiveSlots : KeyClass[entries[i].key] = c
                      IN  entries[i].value]
ImplementsMap == Map!Spec

=============================================================================

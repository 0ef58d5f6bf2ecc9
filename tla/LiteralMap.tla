----------------------------- MODULE LiteralMap -----------------------------
(***************************************************************************)
(* What a literal dictionary promises its callers (the scopes and the      *)
(* literal comparison code): a finite map from keys to values in which two *)
(* keys the language calls equal are the same key.  The hash table of      *)
(* module LiteralDictionary implements it.                                 *)
(***************************************************************************)
EXTENDS Functions

CONSTANTS
    Keys,          \* literals accepted as keys
    Unhashable,    \* null, function, native, hook and opaque literals
    KeyClass,      \* KeyClass[k]: what Xvr_literalsAreEqual compares
    Values,        \* literals stored as values
    Null           \* the null literal

VARIABLES
    store,         \* partial function from key classes to values
    ret            \* what the last call returned

Init == store = << >> /\ ret = <<"void">>

Put(key, value) ==
    /\ store' = IF key \in Unhashable THEN store
                ELSE [c \in DOMAIN store \union {KeyClass[key]} |->
                        IF c = KeyClass[key] THEN value ELSE store[c]]
    /\ ret' = <<"void">>

Delete(key) ==
    /\ store' = IF key \in Unhashable THEN store
                ELSE Restrict(store, DOMAIN store \ {KeyClass[key]})
    /\ ret' = <<"void">>

Has(key) == key \notin Unhashable /\ KeyClass[key] \in DOMAIN store

Lookup(key) ==
    /\ ret' = <<"value", IF Has(key) THEN store[KeyClass[key]] ELSE Null>>
    /\ UNCHANGED store

Contains(key) ==
    /\ ret' = <<"bool", Has(key)>>
    /\ UNCHANGED store

Clear == store' = << >> /\ ret' = <<"void">>

Next ==
    \/ \E k \in Keys \union Unhashable :
          \/ \E v \in Values : Put(k, v)
          \/ Delete(k)
          \/ Lookup(k)
          \/ Contains(k)
    \/ Clear

Spec == Init /\ [][Next]_<<store, ret>>
=============================================================================

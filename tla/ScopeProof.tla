------------------------------ MODULE ScopeProof ------------------------------
(***************************************************************************)
(* The properties of Scope, for any number of scopes, names and types: one *)
(* inductive invariant, which every action preserves.  Who owns a scope is *)
(* said with claims, pairs of an owner and a scope, so that a step which   *)
(* hands a scope on moves one claim; the counts are counts of what is      *)
(* owned, so they follow from it.                                          *)
(***************************************************************************)
EXTENDS Scope, FiniteSetTheorems, TLAPS

-----------------------------------------------------------------------------
(* The inductive invariant.                                                *)

\* Who owns which scope, and the values that the frames of a stack free.
HeldAt(i, f) == {<<"frame", i, s>> : s \in Holds(f)}
FrameClaims(stack) == UNION {HeldAt(i, stack[i]) : i \in DOMAIN stack}
SlotClaims == {<<"slot", a, SlotScope(a)>> : a \in Slots}
OpenClaims == {<<"open", 0, s>> : s \in open}
HandClaims == {<<"hand", 0, s>> : s \in hand}
Claims == OpenClaims \union HandClaims \union SlotClaims \union FrameClaims(calls)
Scopes(claims) == {p[3] : p \in claims}
OnePerScope(claims) == \A p, q \in claims : p[3] = q[3] => p = q

BusyBy(f) == IF f.op \in {"pop", "free", "replace"} THEN Slot(f) ELSE {}
BusyIn(stack) == UNION {BusyBy(stack[i]) : i \in DOMAIN stack}

SlotScopes == {SlotScope(a) : a \in Slots}
Frees == {"pop", "down", "up", "free"}
Copies == {"check", "assign", "get", "capture"}
Sets == {"check", "replace", "assign"}

\* A call copies or frees, and down is a frame that runs.
Shape ==
    /\ \/ calls = << >>
       \/ calls[1].op \in Copies /\ \A i \in 2..Len(calls) : calls[i].op = "copy"
       \/ calls[1].op \in Frees \union {"replace"} /\ \A i \in 2..Len(calls) : calls[i].op \in Frees
    /\ \A i \in 1..Len(calls) - 1 : calls[i].op # "down"
    /\ calls # << >> /\ Top.op \in {"pop", "free"} => Top.at = {}

\* A value that a client may pass.
Settable(value) ==
    /\ value.kind # "freed"
    /\ value.scope = NoScope \/ value.kind \in {"function", "array"}

\* The assignment in progress: its variable is one of an open scope's chain.
AssigningOn(stack) ==
    stack # << >> /\ stack[1].op \in Sets =>
        LET f == stack[1] IN
        /\ \E n \in Names : f.at = {n} /\ <<f.scope, n>> \in DOMAIN variables
        /\ \E o \in open : f.scope \in Chain(o)
        /\ f.value.scope \in hand \union {NoScope} /\ Settable(f.value)
        /\ f.op = "check" /\ Len(stack) > 1 => f.old.scope = NoScope
        /\ f.op \in {"replace", "assign"} =>
              \A slot \in Slot(f) : LET type == variables[slot].type IN
                  type.of = "any" \/ f.value.kind \in {"null", type.of}
        /\ f.op = "assign" => \A slot \in Slot(f) : variables[slot].value.scope = NoScope
Assigning == AssigningOn(calls)

\* The copies in progress: of a scope that stays, entry by entry.
CopiedOn(stack) ==
    \A i \in 2..Len(stack) : stack[i].op = "copy" =>
        LET f == stack[i]
            g == stack[i - 1]
            from == f.value.scope
        IN  /\ from \in SlotScopes \union (IF stack[1].op = "capture" THEN open ELSE hand)
            /\ f.value.kind # "freed"
            /\ f.at \subseteq NamesOf(from) \ NamesOf(f.scope)
            /\ g.op = "copy" => \A n \in g.at : f.value.kind = ValueOf(g.value.scope, n).kind
            /\ g.op = "assign" => f.value = g.value
            /\ i > 2 /\ ~hidden => f.value.kind = "function"
Copied == CopiedOn(calls)

\* The scopes on the way back of a freeAncestorChain.
Unwinding ==
    /\ \A i \in DOMAIN calls : calls[i].op \in {"down", "up", "free"} => calls[i].scope \in Allocated
    /\ \A i \in DOMAIN calls : calls[i].op = "free" => references[calls[i].scope] = 0
    /\ \A i, j \in DOMAIN calls : i < j /\ calls[i].op \in {"up", "free"} =>
          \/ references[calls[i].scope] = 0
          \/ /\ calls[i].op = "up" /\ calls[j].op \in {"up", "down"}
             /\ calls[j].scope \in Chain(ancestor[calls[i].scope])
    /\ \A i, j \in DOMAIN calls :
          calls[i].op \in {"up", "free"} /\ calls[j].op \in {"up", "free"}
             /\ calls[i].scope = calls[j].scope => i = j

Acyclic == \A s \in Allocated : s \notin Chain(ancestor[s])

Counted == \A s \in Allocated :
    references[s] = Cardinality({o \in Owned : s \in Chain(o)}) + ToCountDown(s)

Rooted == \A s \in Allocated :
    references[s] > 0 => ancestor[s] \in Allocated \union {NoScope}

\* Only what is just being freed has no owner.
Dying == \A s \in Allocated : references[s] = 0 =>
    \E i \in DOMAIN calls : calls[i].op \in {"up", "free"} /\ calls[i].scope = s

\* A scope that a function owns has no descendants.
LeafScopes ==
    Scopes(SlotClaims \union {p \in FrameClaims(calls) : p[2] = 1 => calls[1].op # "pop"})
Leaves == \A s \in Allocated : ancestor[s] \notin LeafScopes

\* No scope owns itself through the functions in its variables.
WellFounded == \A S \in SUBSET Allocated : S # {} =>
    \E s \in S : \A a \in Slots : SlotScope(a) = s => a[1] \notin S

Visible == ~hidden => \A a \in Slots : variables[a].value.kind = "function" /\ a[1] \in Owned

FreedOnlyWhenAssigned == \A slot \in DOMAIN variables :
    variables[slot].value.kind = "freed" =>
        calls # << >> /\ calls[1].op = "assign" /\ slot \in Slot(calls[1])

StackInv == Shape /\ Assigning /\ Copied /\ Unwinding
HeapInv == Acyclic /\ Counted /\ Rooted /\ Dying /\ Leaves /\ WellFounded /\ Visible
Inv == TypeOK /\ EveryScopeHasOneOwner /\ StackInv /\ HeapInv /\ FreedOnlyWhenAssigned

-----------------------------------------------------------------------------
(* A scope and what encloses it.                                           *)

(* A chain is among the scopes, and that of NoScope is empty.              *)
LEMMA EnclosingSubset ==
    ASSUME NEW parent, NEW s
    PROVE  Enclosing(parent, s) \subseteq DOMAIN parent
  BY DEF Enclosing

LEMMA EnclosingNone ==
    ASSUME NEW parent, NEW s, s \notin DOMAIN parent
    PROVE  Enclosing(parent, s) = {}
  BY DEF Enclosing

(* A chain begins with the scope itself and has the parents of its         *)
(* members.                                                                *)
LEMMA EnclosingSelf ==
    ASSUME NEW parent, NEW s \in DOMAIN parent
    PROVE  s \in Enclosing(parent, s)
  BY DEF Enclosing

LEMMA EnclosingClosed ==
    ASSUME NEW parent, NEW s, NEW t \in Enclosing(parent, s),
           parent[t] \in DOMAIN parent
    PROVE  parent[t] \in Enclosing(parent, s)
  BY DEF Enclosing

(* It is the least closed set.                                             *)
LEMMA EnclosingLeast ==
    ASSUME NEW parent, NEW s, NEW S \in SUBSET DOMAIN parent, s \in S,
           \A u \in S : parent[u] \in DOMAIN parent => parent[u] \in S
    PROVE  Enclosing(parent, s) \subseteq S
  BY DEF Enclosing

(* The chain of a member is part of the chain.                             *)
LEMMA EnclosingTransitive ==
    ASSUME NEW parent, NEW s, NEW t \in Enclosing(parent, s)
    PROVE  Enclosing(parent, t) \subseteq Enclosing(parent, s)
  <1> DEFINE S == Enclosing(parent, s)
  <1>1. S \in SUBSET DOMAIN parent /\ t \in S
    BY EnclosingSubset
  <1>2. \A u \in S : parent[u] \in DOMAIN parent => parent[u] \in S
    BY EnclosingClosed
  <1> HIDE DEF S
  <1>3. Enclosing(parent, t) \subseteq S
    BY <1>1, <1>2, EnclosingLeast
  <1> QED
    BY <1>3 DEF S

(* A scope, and the chain of its parent.                                   *)
LEMMA EnclosingUnfold ==
    ASSUME NEW parent, NEW s \in DOMAIN parent
    PROVE  Enclosing(parent, s) = {s} \union Enclosing(parent, parent[s])
  <1> DEFINE S == {s} \union Enclosing(parent, parent[s])
  <1>1. S \in SUBSET DOMAIN parent /\ s \in S
    BY EnclosingSubset
  <1>2. \A u \in S : parent[u] \in DOMAIN parent => parent[u] \in S
    BY EnclosingClosed, EnclosingSelf
  <1>3. Enclosing(parent, s) \subseteq S
    <2> HIDE DEF S
    <2> QED
      BY <1>1, <1>2, EnclosingLeast
  <1>4. Enclosing(parent, parent[s]) \subseteq Enclosing(parent, s)
    <2>1. CASE parent[s] \in DOMAIN parent
      BY <2>1, EnclosingSelf, EnclosingClosed, EnclosingTransitive
    <2>2. CASE parent[s] \notin DOMAIN parent
      BY <2>2, EnclosingNone
    <2> QED
      BY <2>1, <2>2
  <1> QED
    BY <1>3, <1>4, EnclosingSelf

(* What encloses s, besides s itself, is the parent of something.          *)
LEMMA EnclosingChild ==
    ASSUME NEW parent, NEW s, NEW t \in Enclosing(parent, s), t # s
    PROVE  \E u \in DOMAIN parent : parent[u] = t
  <1> DEFINE S == {s} \union {r \in DOMAIN parent : \E u \in DOMAIN parent : parent[u] = r}
  <1>0. s \in DOMAIN parent
    BY EnclosingNone
  <1>1. S \in SUBSET DOMAIN parent /\ s \in S
    BY <1>0
  <1>2. \A u \in S : parent[u] \in DOMAIN parent => parent[u] \in S
    BY <1>0
  <1>3. Enclosing(parent, s) \subseteq S
    <2> HIDE DEF S
    <2> QED
      BY <1>1, <1>2, EnclosingLeast
  <1> QED
    BY <1>3

(* A new scope changes no chain, if nothing has it for its parent.         *)
LEMMA EnclosingExtended ==
    ASSUME NEW parent, NEW new, new \notin DOMAIN parent, NEW above, above # new,
           \A u \in DOMAIN parent : parent[u] # new,
           NEW longer,
           longer = [t \in DOMAIN parent \union {new} |-> IF t = new THEN above ELSE parent[t]]
    PROVE  /\ \A s \in DOMAIN parent : Enclosing(longer, s) = Enclosing(parent, s)
           /\ Enclosing(longer, new) = {new} \union Enclosing(parent, above)
  <1>1. ASSUME NEW s \in DOMAIN parent
        PROVE  Enclosing(longer, s) = Enclosing(parent, s)
    <2> DEFINE S == Enclosing(parent, s)
               T == Enclosing(longer, s) \intersect DOMAIN parent
    <2>1. Enclosing(longer, s) \subseteq S
      <3>1. S \in SUBSET DOMAIN longer /\ s \in S
        BY EnclosingSubset, EnclosingSelf
      <3>2. \A u \in S : longer[u] \in DOMAIN longer => longer[u] \in S
        BY EnclosingSubset, EnclosingClosed
      <3> HIDE DEF S
      <3> QED
        BY <3>1, <3>2, EnclosingLeast
    <2>2. Enclosing(parent, s) \subseteq T
      <3>1. T \in SUBSET DOMAIN parent /\ s \in T
        BY EnclosingSelf
      <3>2. \A u \in T : parent[u] \in DOMAIN parent => parent[u] \in T
        <4> SUFFICES ASSUME NEW u \in T, parent[u] \in DOMAIN parent
                     PROVE  parent[u] \in T
          OBVIOUS
        <4>1. longer[u] = parent[u] /\ parent[u] \in DOMAIN longer
          OBVIOUS
        <4> QED
          BY <4>1, EnclosingClosed
      <3> HIDE DEF T
      <3> QED
        BY <3>1, <3>2, EnclosingLeast
    <2> QED
      BY <2>1, <2>2
  <1>2. Enclosing(longer, new) = {new} \union Enclosing(parent, above)
    <2>1. Enclosing(longer, new) = {new} \union Enclosing(longer, above)
      BY EnclosingUnfold
    <2>2. Enclosing(longer, above) = Enclosing(parent, above)
      <3>1. CASE above \in DOMAIN parent
        BY <3>1, <1>1
      <3>2. CASE above \notin DOMAIN parent
        BY <3>2, EnclosingNone
      <3> QED
        BY <3>1, <3>2
    <2> QED
      BY <2>1, <2>2
  <1> QED
    BY <1>1, <1>2

(* Without one scope the chains are shorter, those with it only.           *)
LEMMA EnclosingRestricted ==
    ASSUME NEW parent, NEW gone,
           NEW fewer, fewer = [t \in DOMAIN parent \ {gone} |-> parent[t]], NEW s
    PROVE  /\ Enclosing(fewer, s) \subseteq Enclosing(parent, s)
           /\ gone \notin Enclosing(parent, s) => Enclosing(fewer, s) = Enclosing(parent, s)
  <1>1. CASE s \notin DOMAIN fewer
    <2>1. Enclosing(fewer, s) = {}
      BY <1>1, EnclosingNone
    <2>2. s \notin DOMAIN parent \/ s = gone
      BY <1>1
    <2> QED
      BY <2>1, <2>2, EnclosingNone, EnclosingSelf
  <1>2. CASE s \in DOMAIN fewer
    <2> DEFINE S == Enclosing(parent, s) \ {gone}
               T == Enclosing(fewer, s)
    <2>1. T \subseteq S
      <3>1. S \in SUBSET DOMAIN fewer /\ s \in S
        BY <1>2, EnclosingSubset, EnclosingSelf
      <3>2. \A u \in S : fewer[u] \in DOMAIN fewer => fewer[u] \in S
        BY EnclosingSubset, EnclosingClosed
      <3> HIDE DEF S
      <3> QED
        BY <3>1, <3>2, EnclosingLeast DEF T
    <2>2. ASSUME gone \notin Enclosing(parent, s)
          PROVE  Enclosing(parent, s) \subseteq T
      <3>0. T \subseteq Enclosing(parent, s) /\ T \subseteq DOMAIN fewer
        BY <2>1, EnclosingSubset
      <3>1. T \in SUBSET DOMAIN parent /\ s \in T
        BY <1>2, EnclosingSubset, EnclosingSelf
      <3>2. \A u \in T : parent[u] \in DOMAIN parent => parent[u] \in T
        <4> SUFFICES ASSUME NEW u \in T, parent[u] \in DOMAIN parent
                     PROVE  parent[u] \in T
          OBVIOUS
        <4>1. parent[u] \in Enclosing(parent, s)
          BY <3>0, EnclosingClosed
        <4>2. parent[u] \in DOMAIN fewer /\ fewer[u] = parent[u]
          BY <4>1, <2>2, <3>0
        <4> QED
          BY <4>2, EnclosingClosed
      <3> HIDE DEF T
      <3> QED
        BY <3>1, <3>2, EnclosingLeast
    <2> QED
      BY <2>1, <2>2
  <1> QED
    BY <1>1, <1>2

-----------------------------------------------------------------------------
(* The stack, the owners, and what follows from the invariant.             *)

(* The last frame of a stack and those below it.                           *)
LEMMA StackFacts ==
    ASSUME NEW F, NEW seq \in Seq(F), seq # << >>
    PROVE  /\ Len(seq) \in Nat \ {0} /\ DOMAIN seq = 1..Len(seq)
           /\ Last(seq) = seq[Len(seq)] /\ Last(seq) \in F
           /\ Front(seq) \in Seq(F) /\ Len(Front(seq)) = Len(seq) - 1
           /\ \A i \in 1..Len(seq) - 1 : Front(seq)[i] = seq[i]
  <1>1. Len(seq) \in Nat \ {0} /\ DOMAIN seq = 1..Len(seq)
    OBVIOUS
  <1>2. Last(seq) = seq[Len(seq)] /\ Last(seq) \in F
    BY <1>1 DEF Last
  <1>3. Front(seq) = [i \in 1..Len(seq) - 1 |-> seq[i]]
    BY <1>1 DEF Front
  <1>4. /\ Front(seq) \in Seq(F) /\ Len(Front(seq)) = Len(seq) - 1
        /\ \A i \in 1..Len(seq) - 1 : Front(seq)[i] = seq[i]
    BY <1>1, <1>3
  <1> QED
    BY <1>1, <1>2, <1>4

(* A frame put on a stack.                                                 *)
LEMMA PushFacts ==
    ASSUME NEW F, NEW seq \in Seq(F), NEW f \in F
    PROVE  /\ Append(seq, f) \in Seq(F) /\ Append(seq, f) # << >>
           /\ Len(Append(seq, f)) = Len(seq) + 1 /\ Append(seq, f)[Len(seq) + 1] = f
           /\ \A i \in 1..Len(seq) : Append(seq, f)[i] = seq[i]
           /\ Last(Append(seq, f)) = f /\ Front(Append(seq, f)) = seq
  BY DEF Last, Front

LEMMA Rebuilt ==
    ASSUME NEW F, NEW seq \in Seq(F), seq # << >>
    PROVE  seq = Append(Front(seq), Last(seq))
  BY DEF Last, Front

(* The entries being freed, frame by frame.                                *)
LEMMA BusyIsIn == Busy = BusyIn(calls) /\ Busy' = BusyIn(calls')
  BY DEF Busy, BusyIn, BusyBy, ToSet

(* A claim names its owner and the scope: claims of different owners       *)
(* differ.                                                                 *)
LEMMA ClaimMembers ==
    \A p : p \in Claims <=>
        \/ p[3] \in open /\ p = <<"open", 0, p[3]>>
        \/ p[3] \in hand /\ p = <<"hand", 0, p[3]>>
        \/ \E a \in Slots : p = <<"slot", a, p[3]>> /\ p[3] = SlotScope(a)
        \/ \E i \in DOMAIN calls : p = <<"frame", i, p[3]>> /\ p[3] \in Holds(calls[i])
  <1>1. \A p : p \in OpenClaims <=> p[3] \in open /\ p = <<"open", 0, p[3]>>
    BY DEF OpenClaims
  <1>2. \A p : p \in HandClaims <=> p[3] \in hand /\ p = <<"hand", 0, p[3]>>
    BY DEF HandClaims
  <1>3. \A p : p \in SlotClaims <=> \E a \in Slots : p = <<"slot", a, p[3]>> /\ p[3] = SlotScope(a)
    BY DEF SlotClaims
  <1>4. \A i, f, p : p \in HeldAt(i, f) <=> p = <<"frame", i, p[3]>> /\ p[3] \in Holds(f)
    BY DEF HeldAt
  <1>5. \A p : p \in FrameClaims(calls) <=>
                  \E i \in DOMAIN calls : p = <<"frame", i, p[3]>> /\ p[3] \in Holds(calls[i])
    BY <1>4 DEF FrameClaims
  <1> QED
    BY <1>1, <1>2, <1>3, <1>5 DEF Claims

LEMMA ClaimTags ==
    /\ \A p \in OpenClaims : p[1] = "open"
    /\ \A p \in HandClaims : p[1] = "hand"
    /\ \A p \in SlotClaims : p[1] = "slot"
    /\ \A stack : \A p \in FrameClaims(stack) : p[1] = "frame"
  BY DEF OpenClaims, HandClaims, SlotClaims, FrameClaims, HeldAt

(* The owned scopes are those of the claims.                               *)
LEMMA OwnedIsScopes == Owned = Scopes(Claims)
  <1>1. ASSUME NEW s \in Owned PROVE s \in Scopes(Claims)
    <2>1. \/ <<"open", 0, s>> \in Claims \/ <<"hand", 0, s>> \in Claims
          \/ \E a \in Slots : <<"slot", a, s>> \in Claims
          \/ \E i \in DOMAIN calls : <<"frame", i, s>> \in Claims
      BY ClaimMembers DEF Owned, ToSet
    <2>2. \E p \in Claims : p[3] = s
      <3>1. \A w, o : <<w, o, s>>[3] = s
        OBVIOUS
      <3> QED
        BY <2>1, <3>1
    <2> QED
      BY <2>2 DEF Scopes
  <1>2. ASSUME NEW p \in Claims PROVE p[3] \in Owned
    BY ClaimMembers DEF Owned, ToSet
  <1> QED
    BY <1>1, <1>2 DEF Scopes

(* One owner each, said of the claims.                                     *)
LEMMA OneOwner ==
    EveryScopeHasOneOwner <=> Owned \subseteq Allocated /\ OnePerScope(Claims)
  <1>1. ASSUME EveryScopeHasOneOwner PROVE OnePerScope(Claims)
    <2> SUFFICES ASSUME NEW p \in Claims, NEW q \in Claims, p[3] = q[3] PROVE p = q
      BY DEF OnePerScope
    <2> DEFINE s == p[3]
    <2>0. s = q[3]
      OBVIOUS
    <2> HIDE DEF s
    <2>1. CASE s \in open /\ p = <<"open", 0, s>>
      BY <1>1, <2>0, <2>1, ClaimMembers DEF EveryScopeHasOneOwner
    <2>2. CASE s \in hand /\ p = <<"hand", 0, s>>
      BY <1>1, <2>0, <2>2, ClaimMembers DEF EveryScopeHasOneOwner
    <2>3. ASSUME NEW a \in Slots, p = <<"slot", a, s>>, s = SlotScope(a) PROVE p = q
      <3>1. /\ s \notin open /\ s \notin hand
            /\ \A b \in Slots : SlotScope(b) = s => b = a
            /\ \A i \in DOMAIN calls : s \notin Holds(calls[i])
        BY <1>1, <2>3 DEF EveryScopeHasOneOwner
      <3>2. \E b \in Slots : q = <<"slot", b, q[3]>> /\ q[3] = SlotScope(b)
        BY <2>0, <3>1, ClaimMembers
      <3> QED
        BY <2>0, <2>3, <3>1, <3>2
    <2>4. ASSUME NEW i \in DOMAIN calls, p = <<"frame", i, s>>, s \in Holds(calls[i]) PROVE p = q
      BY <1>1, <2>0, <2>4, ClaimMembers DEF EveryScopeHasOneOwner
    <2> QED
      BY <2>1, <2>2, <2>3, <2>4, ClaimMembers DEF s
  <1>2. ASSUME OnePerScope(Claims) 
        PROVE  /\ open \intersect hand = {}
               /\ \A a, b \in Slots : SlotScope(a) = SlotScope(b) => a = b
               /\ \A a \in Slots : SlotScope(a) \notin open \union hand
               /\ \A i \in DOMAIN calls : \A s \in Holds(calls[i]) :
                     /\ s \notin open \union hand \union {SlotScope(a) : a \in Slots}
                     /\ \A j \in DOMAIN calls : s \in Holds(calls[j]) => i = j
    <2>1. \A s \in open : <<"open", 0, s>> \in Claims
      BY ClaimMembers
    <2>2. \A s \in hand : <<"hand", 0, s>> \in Claims
      BY ClaimMembers
    <2>3. \A a \in Slots : <<"slot", a, SlotScope(a)>> \in Claims
      BY ClaimMembers
    <2>4. \A i \in DOMAIN calls : \A s \in Holds(calls[i]) : <<"frame", i, s>> \in Claims
      BY ClaimMembers
    <2>5. open \intersect hand = {}
      BY <1>2, <2>1, <2>2 DEF OnePerScope
    <2>6. \A a, b \in Slots : SlotScope(a) = SlotScope(b) => a = b
      BY <1>2, <2>3 DEF OnePerScope
    <2>7. \A a \in Slots : SlotScope(a) \notin open \union hand
      BY <1>2, <2>1, <2>2, <2>3 DEF OnePerScope
    <2>8. ASSUME NEW i \in DOMAIN calls, NEW s \in Holds(calls[i])
          PROVE  /\ s \notin open \union hand \union {SlotScope(a) : a \in Slots}
                 /\ \A j \in DOMAIN calls : s \in Holds(calls[j]) => i = j
      BY <1>2, <2>1, <2>2, <2>3, <2>4 DEF OnePerScope
    <2> QED
      BY <2>5, <2>6, <2>7, <2>8
  <1> QED
    BY <1>1, <1>2 DEF EveryScopeHasOneOwner

LEMMA OwnersNext ==
    /\ Owned' = Scopes(Claims')
    /\ EveryScopeHasOneOwner' <=> Owned' \subseteq Allocated' /\ OnePerScope(Claims')
  <1>1. (Owned = Scopes(Claims))'
    BY OwnedIsScopes, PTL
  <1>2. (EveryScopeHasOneOwner <=> Owned \subseteq Allocated /\ OnePerScope(Claims))'
    BY OneOwner, PTL
  <1> QED
    BY <1>1, <1>2 DEF Scopes, OnePerScope

(* The claims of a stack with one more frame.                              *)
LEMMA PushClaims ==
    ASSUME NEW F, NEW stack \in Seq(F), NEW f \in F
    PROVE  /\ FrameClaims(Append(stack, f)) = FrameClaims(stack) \union HeldAt(Len(stack) + 1, f)
           /\ BusyIn(Append(stack, f)) = BusyIn(stack) \union BusyBy(f)
  <1> DEFINE more == Append(stack, f)
  <1>1. /\ DOMAIN stack = 1..Len(stack) /\ Len(stack) \in Nat
        /\ DOMAIN more = DOMAIN stack \union {Len(stack) + 1} /\ more[Len(stack) + 1] = f
        /\ \A i \in DOMAIN stack : more[i] = stack[i]
    OBVIOUS
  <1> HIDE DEF more
  <1>2. FrameClaims(more) = FrameClaims(stack) \union HeldAt(Len(stack) + 1, f)
    BY <1>1 DEF FrameClaims
  <1>3. BusyIn(more) = BusyIn(stack) \union BusyBy(f)
    BY <1>1 DEF BusyIn
  <1> QED
    BY <1>2, <1>3 DEF more

LEMMA EmptyClaims == FrameClaims(<< >>) = {} /\ BusyIn(<< >>) = {}
  BY DEF FrameClaims, BusyIn

LEMMA CardinalityPositive ==
    ASSUME NEW S, IsFiniteSet(S)
    PROVE  Cardinality(S) \in Nat /\ (S # {} <=> Cardinality(S) > 0)
  BY FS_CardinalityType, FS_EmptySet

(* Finitely many scopes are owned, so they can be counted.                 *)
LEMMA OwnedFinite ==
    ASSUME TypeOK, EveryScopeHasOneOwner
    PROVE  /\ IsFiniteSet(Allocated) /\ IsFiniteSet(Owned)
           /\ \A s : IsFiniteSet({o \in Owned : s \in Chain(o)})
  <1>1. IsFiniteSet(Allocated)
    BY FS_Subset, ScopeAssumption DEF TypeOK
  <1>2. Owned \subseteq Allocated /\ \A s : {o \in Owned : s \in Chain(o)} \subseteq Allocated
    BY DEF EveryScopeHasOneOwner
  <1> QED
    BY <1>1, <1>2, FS_Subset

(* What encloses a scope that somebody owns is needed.                     *)
LEMMA OwnedPositive ==
    ASSUME Inv, NEW o \in Owned, NEW s \in Chain(o)
    PROVE  s \in Allocated /\ references[s] \in Nat /\ references[s] > 0
  <1>1. s \in Allocated /\ references[s] \in Nat
    BY EnclosingSubset DEF Chain, Allocated, Inv, TypeOK
  <1> DEFINE S == {p \in Owned : s \in Chain(p)}
  <1>2. IsFiniteSet(S) /\ S # {}
    BY OwnedFinite DEF Inv
  <1>3. Cardinality(S) \in Nat /\ Cardinality(S) > 0
    <2> HIDE DEF S
    <2> QED
      BY <1>2, CardinalityPositive
  <1>4. references[s] = Cardinality(S) + ToCountDown(s)
    BY <1>1 DEF Inv, HeapInv, Counted
  <1>5. ToCountDown(s) \in Nat
    BY DEF ToCountDown
  <1> QED
    BY <1>1, <1>3, <1>4, <1>5

(* A scope that somebody owns is allocated and needed.                     *)
LEMMA OwnedAllocated ==
    ASSUME Inv, NEW o \in Owned
    PROVE  o \in Allocated /\ o \in Chain(o) /\ references[o] > 0
  <1>1. o \in Allocated
    BY DEF Inv, EveryScopeHasOneOwner
  <1>2. o \in Chain(o)
    BY <1>1, EnclosingSelf DEF Chain, Allocated
  <1> QED
    BY <1>1, <1>2, OwnedPositive

(* In the chain of a scope of the client's, functions own nothing.         *)
LEMMA OpenNotLeaf ==
    ASSUME Inv, NEW o \in open \union hand, NEW t \in Chain(o)
    PROVE  t \notin LeafScopes
  <1>1. CASE t = o
    <2>1. \E p \in Claims : p[3] = o /\ p[1] \in {"open", "hand"}
      <3>1. <<"open", 0, o>> \in Claims \/ <<"hand", 0, o>> \in Claims
        BY ClaimMembers
      <3>2. \A w : <<w, 0, o>>[3] = o /\ <<w, 0, o>>[1] = w
        OBVIOUS
      <3> QED
        BY <3>1, <3>2
    <2>2. \A p \in SlotClaims \union FrameClaims(calls) : p \in Claims /\ p[1] \in {"slot", "frame"}
      BY DEF SlotClaims, FrameClaims, HeldAt, Claims
    <2> DEFINE L == SlotClaims \union {p \in FrameClaims(calls) : p[2] = 1 => calls[1].op # "pop"}
    <2>4. \A p \in L : p \in Claims /\ p[1] \in {"slot", "frame"}
      BY <2>2
    <2>3. OnePerScope(Claims)
      BY OneOwner DEF Inv
    <2> QED
      <3> HIDE DEF L
      <3>1. o \notin Scopes(L)
        BY <2>1, <2>4, <2>3 DEF OnePerScope, Scopes
      <3> QED
        BY <1>1, <3>1 DEF LeafScopes, L
  <1>2. CASE t # o
    <2>1. PICK u \in Allocated : ancestor[u] = t
      BY <1>2, EnclosingChild DEF Chain, Allocated
    <2> QED
      BY <2>1 DEF Inv, HeapInv, Leaves
  <1> QED
    BY <1>1, <1>2

-----------------------------------------------------------------------------
(* What a step does to the scopes, their owners and their counts.          *)

(* A step that changes no count, and no scope gains or loses its owner.    *)
LEMMA SteadyTree ==
    ASSUME Inv, ancestor' = ancestor, references' = references,
           Owned' = Owned, LeafScopes' \subseteq LeafScopes,
           ~Running("down"), ~Running("down")',
           \A i \in DOMAIN calls : calls[i].op \in {"up", "free"} /\ references[calls[i].scope] = 0 =>
               \E j \in DOMAIN calls' : calls'[j].op \in {"up", "free"} /\ calls'[j].scope = calls[i].scope
    PROVE  Acyclic' /\ Counted' /\ Rooted' /\ Dying' /\ Leaves'
  <1>0. Allocated' = Allocated /\ \A s : Chain(s)' = Chain(s)
    BY DEF Allocated, Chain
  <1>1. Acyclic'
    BY <1>0 DEF Inv, HeapInv, Acyclic, Chain
  <1>2. Counted'
    BY <1>0 DEF Inv, HeapInv, Counted, ToCountDown, Chain
  <1>3. Rooted'
    BY <1>0 DEF Inv, HeapInv, Rooted
  <1>4. Dying'
    BY <1>0 DEF Inv, HeapInv, Dying
  <1>5. Leaves'
    BY <1>0 DEF Inv, HeapInv, Leaves
  <1> QED
    BY <1>1, <1>2, <1>3, <1>4, <1>5

(* Fewer functions in variables cannot close a cycle.                      *)
LEMMA ShrinkingSlots ==
    ASSUME WellFounded, Slots' \subseteq Slots, Allocated' \subseteq Allocated,
           \A a \in Slots' : SlotScope(a)' = SlotScope(a)
    PROVE  WellFounded'
  <1> SUFFICES ASSUME NEW S \in SUBSET Allocated, S # {}
               PROVE  \E s \in S : \A a \in Slots' : SlotScope(a)' = s => a[1] \notin S
    BY DEF WellFounded
  <1>1. PICK s \in S : \A a \in Slots : SlotScope(a) = s => a[1] \notin S
    BY DEF WellFounded
  <1> QED
    BY <1>1

(* A step that keeps the owners and adds nothing to the variables.         *)
LEMMA QuietHeap ==
    ASSUME Inv, ancestor' = ancestor, references' = references,
           Owned' = Owned, LeafScopes' \subseteq LeafScopes,
           ~Running("down"), ~Running("down")',
           \A i \in DOMAIN calls : calls[i].op \in {"up", "free"} /\ references[calls[i].scope] = 0 =>
               \E j \in DOMAIN calls' : calls'[j].op \in {"up", "free"} /\ calls'[j].scope = calls[i].scope,
           Slots' \subseteq Slots,
           \A a \in Slots' : variables'[a].value = variables[a].value,
           hidden' = hidden
    PROVE  HeapInv'
  <1>1. Acyclic' /\ Counted' /\ Rooted' /\ Dying' /\ Leaves'
    BY SteadyTree
  <1>2. WellFounded'
    <2>1. \A a \in Slots' : SlotScope(a)' = SlotScope(a)
      BY DEF SlotScope
    <2>2. Allocated' = Allocated
      BY DEF Allocated
    <2> QED
      BY <2>1, <2>2, ShrinkingSlots DEF Inv, HeapInv
  <1>3. Visible'
    BY DEF Inv, HeapInv, Visible
  <1> QED
    BY <1>1, <1>2, <1>3 DEF HeapInv

(* A step that gives a scope to a variable, one of a scope that no         *)
(* function owns.                                                          *)
LEMMA GivingHeap ==
    ASSUME Inv, ancestor' = ancestor, references' = references,
           Owned' = Owned, LeafScopes' \subseteq LeafScopes,
           ~Running("down"), ~Running("down")',
           \A i \in DOMAIN calls : calls[i].op \notin {"up", "free"},
           NEW slot, Slots' \subseteq Slots \union {slot},
           \A a \in Slots' : a # slot => variables'[a].value = variables[a].value,
           slot[1] \notin SlotScopes',
           hidden => hidden',
           hidden' \/ (variables'[slot].value.kind = "function" /\ slot[1] \in Owned)
    PROVE  HeapInv'
  <1>1. Acyclic' /\ Counted' /\ Rooted' /\ Dying' /\ Leaves'
    BY SteadyTree
  <1>2. WellFounded'
    <2> SUFFICES ASSUME NEW S \in SUBSET Allocated, S # {}
                 PROVE  \E s \in S : \A a \in Slots' : SlotScope(a)' = s => a[1] \notin S
      BY DEF WellFounded, Allocated
    <2>1. PICK s \in S : \A a \in Slots : SlotScope(a) = s => a[1] \notin S
      BY DEF Inv, HeapInv, WellFounded
    <2>2. \A a \in Slots' : a # slot => a \in Slots /\ SlotScope(a)' = SlotScope(a)
      BY DEF SlotScope
    <2>3. \A a \in Slots' : SlotScope(a)' # slot[1]
      BY DEF SlotScopes
    <2> QED
      BY <2>1, <2>2, <2>3
  <1>3. Visible'
    BY DEF Inv, HeapInv, Visible
  <1> QED
    BY <1>1, <1>2, <1>3 DEF HeapInv

(* A scope is allocated.                                                   *)
LEMMA AllocChains ==
    ASSUME Inv, \A i \in DOMAIN calls : calls[i].op \notin {"up", "free"},
           NEW s, NEW above \in Allocated \union {NoScope}, Alloc(s, above)
    PROVE  /\ s \in Addresses /\ s \notin Allocated /\ s # above
           /\ Allocated' = Allocated \union {s}
           /\ \A u \in Allocated : ancestor'[u] = ancestor[u]
           /\ ancestor'[s] = above
           /\ \A u \in Allocated : references[u] > 0 /\ ancestor[u] # s
           /\ \A u \in Allocated : Chain(u)' = Chain(u)
           /\ Chain(s)' = {s} \union Chain(above)
  <1>1. /\ s \in Addresses /\ s \notin Allocated /\ s # above
        /\ Allocated' = Allocated \union {s}
        /\ ancestor' = [t \in Allocated \union {s} |-> IF t = s THEN above ELSE ancestor[t]]
    BY ScopeAssumption DEF Alloc, Allocated
  <1>2. \A u \in Allocated : references[u] > 0 /\ ancestor[u] # s
    <2> SUFFICES ASSUME NEW u \in Allocated
                 PROVE  references[u] > 0 /\ ancestor[u] # s
      OBVIOUS
    <2>1. references[u] \in Nat /\ references[u] # 0
      BY DEF Inv, TypeOK, HeapInv, Dying
    <2> QED
      BY <2>1, <1>1, ScopeAssumption DEF Inv, HeapInv, Rooted
  <1>3. /\ \A u \in Allocated : Enclosing(ancestor', u) = Enclosing(ancestor, u)
        /\ Enclosing(ancestor', s) = {s} \union Enclosing(ancestor, above)
    BY <1>1, <1>2, EnclosingExtended DEF Allocated
  <1> QED
    BY <1>1, <1>2, <1>3 DEF Chain

(* A new scope with an owner counts up what encloses it.                   *)
LEMMA AllocHeap ==
    ASSUME Inv, \A i \in DOMAIN calls : calls[i].op \notin {"up", "free"},
           NEW s, NEW above \in Allocated \union {NoScope}, Alloc(s, above),
           above \notin LeafScopes, EveryScopeHasOneOwner',
           ~Running("down"), ~Running("down")',
           Owned' = Owned \union {s}, LeafScopes' \subseteq LeafScopes \union {s},
           Slots' = Slots, variables' = variables, hidden' = hidden
    PROVE  HeapInv'
  <1>1. /\ s \in Addresses /\ s \notin Allocated /\ s # above
        /\ Allocated' = Allocated \union {s}
        /\ \A u \in Allocated : ancestor'[u] = ancestor[u]
        /\ ancestor'[s] = above
        /\ \A u \in Allocated : references[u] > 0 /\ ancestor[u] # s
        /\ \A u \in Allocated : Chain(u)' = Chain(u)
        /\ Chain(s)' = {s} \union Chain(above)
    BY AllocChains
  <1>2. s \notin Owned /\ Owned \subseteq Allocated
    BY <1>1 DEF Inv, EveryScopeHasOneOwner
  <1>3. \A t : Chain(t) \subseteq Allocated
    BY EnclosingSubset DEF Chain, Allocated
  <1>4. references' = [t \in Allocated \union {s} |->
                         IF t = s THEN 1
                         ELSE IF t \in Chain(above) THEN references[t] + 1
                         ELSE references[t]]
    BY DEF Alloc
  <1>5. Acyclic'
    <2> SUFFICES ASSUME NEW t \in Allocated' PROVE t \notin Enclosing(ancestor', ancestor'[t])
      BY DEF Acyclic, Chain
    <2>1. CASE t = s
      <3>1. CASE above \in Allocated
        BY <1>1, <1>3, <2>1, <3>1 DEF Chain
      <3>2. CASE above \notin Allocated
        BY <1>1, <2>1, <3>2, EnclosingNone DEF Allocated
      <3> QED
        BY <3>1, <3>2
    <2>2. CASE t # s
      <3>1. t \notin Enclosing(ancestor, ancestor[t]) /\ ancestor'[t] = ancestor[t] /\ ancestor[t] # s
        BY <1>1, <2>2 DEF Inv, HeapInv, Acyclic, Chain
      <3>2. CASE ancestor[t] \in Allocated
        BY <1>1, <3>1, <3>2 DEF Chain
      <3>3. CASE ancestor[t] \notin Allocated
        BY <1>1, <3>1, <3>3, EnclosingNone DEF Allocated
      <3> QED
        BY <3>2, <3>3
    <2> QED
      BY <2>1, <2>2
  <1>6. Counted'
    <2> SUFFICES ASSUME NEW t \in Allocated'
                 PROVE  /\ references'[t] \in Nat
                        /\ references'[t] = Cardinality({o \in Owned' : t \in Chain(o)'})
      BY DEF Counted, ToCountDown
    <2> DEFINE S == {o \in Owned : t \in Chain(o)}
               T == {o \in Owned' : t \in Chain(o)'}
    <2>1. CASE t = s
      <3>1. T = {s}
        BY <1>1, <1>2, <1>3, <2>1
      <3> QED
        BY <1>4, <2>1, <3>1, FS_Singleton
    <2>2. CASE t # s
      <3>0. Cardinality(S) \in Nat
        BY OwnedFinite, FS_CardinalityType DEF Inv
      <3>1. t \in Allocated /\ references[t] = Cardinality(S)
        BY <1>1, <2>2, <3>0 DEF Inv, HeapInv, Counted, ToCountDown
      <3>2. T = IF t \in Chain(above) THEN S \union {s} ELSE S
        BY <1>1, <1>2, <1>3, <2>2
      <3>3. IsFiniteSet(S) /\ s \notin S
        BY <1>2, OwnedFinite DEF Inv
      <3> HIDE DEF S, T
      <3>4. Cardinality(T) = IF t \in Chain(above) THEN Cardinality(S) + 1 ELSE Cardinality(S)
        BY <3>2, <3>3, FS_AddElement
      <3>5. references'[t] \in Nat /\ references'[t] = Cardinality(T)
        <4>1. references[t] \in Nat
          BY <3>1 DEF Inv, TypeOK
        <4>2. references'[t] = IF t \in Chain(above) THEN references[t] + 1 ELSE references[t]
          BY <1>4, <2>2, <3>1
        <4> QED
          BY <4>1, <4>2, <3>1, <3>4
      <3> QED
        BY <3>5 DEF T
    <2> QED
      BY <2>1, <2>2
  <1>7. Rooted'
    BY <1>1 DEF Inv, HeapInv, Rooted
  <1>8. Dying'
    <2>1. \A t \in Allocated' : references'[t] # 0
      <3> SUFFICES ASSUME NEW t \in Allocated' PROVE references'[t] # 0
        OBVIOUS
      <3>1. t # s => references[t] \in Nat /\ references[t] > 0
        BY <1>1 DEF Inv, TypeOK
      <3> QED
        BY <1>1, <1>4, <3>1
    <2> QED
      BY <2>1 DEF Dying
  <1>9. Leaves'
    BY <1>1 DEF Inv, HeapInv, Leaves
  <1>10. WellFounded'
    <2> SUFFICES ASSUME NEW S \in SUBSET (Allocated \union {s}), S # {}
                 PROVE  \E t \in S : \A a \in Slots' : SlotScope(a)' = t => a[1] \notin S
      BY <1>1 DEF WellFounded
    <2>0. \A a \in Slots' : a \in Slots /\ SlotScope(a)' = SlotScope(a)
      BY DEF SlotScope
    <2>1. CASE s \in S
      <3>1. \A a \in Slots : SlotScope(a) \in Owned
        BY DEF Owned
      <3> QED
        BY <2>0, <2>1, <3>1, <1>2
    <2>2. CASE s \notin S
      <3>1. PICK t \in S : \A a \in Slots : SlotScope(a) = t => a[1] \notin S
        BY <2>2 DEF Inv, HeapInv, WellFounded
      <3> QED
        BY <2>0, <3>1
    <2> QED
      BY <2>1, <2>2
  <1>11. Visible'
    BY DEF Inv, HeapInv, Visible
  <1> QED
    BY <1>5, <1>6, <1>7, <1>8, <1>9, <1>10, <1>11 DEF HeapInv

-----------------------------------------------------------------------------
(* What a step does to the stack.                                          *)

FrameOps == {"pop", "down", "up", "free", "copy", "check", "replace", "assign", "get", "capture"}

(* The fields of a new frame.                                              *)
LEMMA FrameType ==
    ASSUME NEW op \in FrameOps, NEW s \in Addresses \union {NoScope}
    PROVE  Frame(op, s) \in FrameTypes
  BY DEF Frame, FrameTypes, FrameOps, Null, Value, ValueTypes, Kinds

LEMMA FrameFields ==
    \A op, s : /\ Frame(op, s).op = op /\ Frame(op, s).scope = s /\ Frame(op, s).at = {}
               /\ Frame(op, s).old.scope = NoScope
  BY DEF Frame, Null, Value

(* The frame that runs and those below it.                                 *)
LEMMA TopFacts ==
    ASSUME TypeOK, calls # << >>
    PROVE  /\ Len(calls) \in Nat \ {0} /\ DOMAIN calls = 1..Len(calls)
           /\ Top = calls[Len(calls)] /\ Top \in FrameTypes
           /\ Below \in Seq(FrameTypes)
           /\ Len(Below) = Len(calls) - 1 /\ Len(Below) + 1 = Len(calls)
           /\ \A i \in 1..Len(calls) - 1 : Below[i] = calls[i]
           /\ \A i \in 1..Len(calls) : calls[i] \in FrameTypes
  <1>1. calls \in Seq(FrameTypes)
    BY DEF TypeOK
  <1>2. /\ Len(calls) \in Nat \ {0} /\ DOMAIN calls = 1..Len(calls)
        /\ Top = calls[Len(calls)] /\ Top \in FrameTypes
        /\ Below \in Seq(FrameTypes) /\ Len(Below) = Len(calls) - 1
        /\ \A i \in 1..Len(calls) - 1 : Below[i] = calls[i]
        /\ \A i \in 1..Len(calls) : calls[i] \in FrameTypes
    BY <1>1, StackFacts DEF Top, Below
  <1>3. \A a \in Nat \ {0} : \A b : b = a - 1 => b + 1 = a
    OBVIOUS
  <1> QED
    BY <1>2, <1>3

(* The ways a step changes the stack: the last frame is replaced, one is   *)
(* put on a changed one, dropped, or answered.                             *)
LEMMA ReplaceTop ==
    ASSUME TypeOK, calls # << >>, NEW g \in FrameTypes, calls' = Append(Below, g)
    PROVE  /\ calls' \in Seq(FrameTypes) /\ calls' # << >> /\ Top' = g
           /\ Len(calls') = Len(calls) /\ DOMAIN calls' = 1..Len(calls)
           /\ calls'[Len(calls)] = g
           /\ \A i \in 1..Len(calls) - 1 : calls'[i] = calls[i]
  <1>1. /\ Len(calls) \in Nat \ {0} /\ Below \in Seq(FrameTypes) /\ Len(Below) = Len(calls) - 1
        /\ \A i \in 1..Len(calls) - 1 : Below[i] = calls[i]
    BY TopFacts
  <1>2. /\ calls' \in Seq(FrameTypes) /\ calls' # << >>
        /\ Len(calls') = Len(Below) + 1 /\ calls'[Len(Below) + 1] = g
        /\ \A i \in 1..Len(Below) : calls'[i] = Below[i]
        /\ Last(calls') = g
    <2> HIDE DEF Below
    <2> QED
      BY <1>1, PushFacts
  <1>3. DOMAIN calls' = 1..Len(calls')
    BY <1>2
  <1> QED
    BY <1>1, <1>2, <1>3 DEF Top

LEMMA PushTop ==
    ASSUME TypeOK, calls # << >>, NEW g \in FrameTypes, NEW h \in FrameTypes,
           calls' = Append(Append(Below, g), h)
    PROVE  /\ calls' \in Seq(FrameTypes) /\ calls' # << >> /\ Top' = h
           /\ Len(calls') = Len(calls) + 1 /\ DOMAIN calls' = 1..Len(calls) + 1
           /\ calls'[Len(calls)] = g /\ calls'[Len(calls) + 1] = h
           /\ \A i \in 1..Len(calls) - 1 : calls'[i] = calls[i]
  <1> DEFINE mid == Append(Below, g)
  <1>1. /\ Len(calls) \in Nat \ {0} /\ Below \in Seq(FrameTypes) /\ Len(Below) = Len(calls) - 1
        /\ \A i \in 1..Len(calls) - 1 : Below[i] = calls[i]
    BY TopFacts
  <1>2. /\ mid \in Seq(FrameTypes) /\ Len(mid) = Len(Below) + 1 /\ mid[Len(Below) + 1] = g
        /\ \A i \in 1..Len(Below) : mid[i] = Below[i]
    <2> HIDE DEF Below
    <2> QED
      BY <1>1, PushFacts
  <1> HIDE DEF mid
  <1>3. /\ calls' \in Seq(FrameTypes) /\ calls' # << >>
        /\ Len(calls') = Len(mid) + 1 /\ calls'[Len(mid) + 1] = h
        /\ \A i \in 1..Len(mid) : calls'[i] = mid[i]
        /\ Last(calls') = h
    <2>1. calls' = Append(mid, h)
      BY DEF mid
    <2>2. mid \in Seq(FrameTypes)
      BY <1>2
    <2> QED
      BY ONLY <2>1, <2>2, h \in FrameTypes, PushFacts
  <1>4. DOMAIN calls' = 1..Len(calls')
    BY <1>3
  <1>5. Len(mid) = Len(calls) /\ mid[Len(calls)] = g
    BY <1>1, <1>2
  <1>6. \A i \in 1..Len(calls) - 1 : mid[i] = calls[i]
    BY <1>1, <1>2
  <1>7. \A i \in 1..Len(calls) : calls'[i] = mid[i]
    BY <1>3, <1>5
  <1>8. Top' = h
    BY <1>3 DEF Top
  <1> QED
    BY <1>1, <1>3, <1>4, <1>5, <1>6, <1>7, <1>8

LEMMA DropTop ==
    ASSUME TypeOK, calls # << >>, calls' = Below
    PROVE  /\ calls' \in Seq(FrameTypes) /\ (calls' = << >> <=> Len(calls) = 1)
           /\ Len(calls') = Len(calls) - 1 /\ DOMAIN calls' = 1..Len(calls) - 1
           /\ \A i \in 1..Len(calls) - 1 : calls'[i] = calls[i]
           /\ Len(calls) > 1 => Top' = calls[Len(calls) - 1]
  <1>1. /\ Len(calls) \in Nat \ {0} /\ calls' \in Seq(FrameTypes) /\ Len(calls') = Len(calls) - 1
        /\ \A i \in 1..Len(calls) - 1 : calls'[i] = calls[i]
    BY TopFacts
  <1>2. DOMAIN calls' = 1..Len(calls') /\ (calls' = << >> <=> Len(calls') = 0)
    BY <1>1
  <1>3. Top' = calls'[Len(calls')]
    BY DEF Top, Last
  <1>4. calls' = << >> <=> Len(calls) = 1
    BY <1>1, <1>2
  <1> QED
    BY <1>1, <1>2, <1>3, <1>4

LEMMA AnswerTop ==
    ASSUME TypeOK, calls # << >>, Len(calls) > 1, NEW g \in FrameTypes,
           calls' = Append(Front(Below), g)
    PROVE  /\ calls' \in Seq(FrameTypes) /\ calls' # << >> /\ Top' = g
           /\ Len(calls') = Len(calls) - 1 /\ DOMAIN calls' = 1..Len(calls) - 1
           /\ calls'[Len(calls) - 1] = g
           /\ \A i \in 1..Len(calls) - 2 : calls'[i] = calls[i]
  <1> DEFINE low == Front(Below)
  <1>1. /\ Len(calls) \in Nat \ {0} /\ Below \in Seq(FrameTypes) /\ Len(Below) = Len(calls) - 1
        /\ \A i \in 1..Len(calls) - 1 : Below[i] = calls[i]
    BY TopFacts
  <1>2. /\ low \in Seq(FrameTypes) /\ Len(low) = Len(Below) - 1
        /\ \A i \in 1..Len(Below) - 1 : low[i] = Below[i]
    <2> HIDE DEF Below
    <2>1. Below # << >>
      BY <1>1
    <2> QED
      BY <1>1, <2>1, StackFacts
  <1> HIDE DEF low
  <1>3. /\ calls' \in Seq(FrameTypes) /\ calls' # << >>
        /\ Len(calls') = Len(low) + 1 /\ calls'[Len(low) + 1] = g
        /\ \A i \in 1..Len(low) : calls'[i] = low[i]
        /\ Last(calls') = g
    BY <1>2, PushFacts DEF low
  <1>4. DOMAIN calls' = 1..Len(calls')
    BY <1>3
  <1> QED
    BY <1>1, <1>2, <1>3, <1>4 DEF Top

(* The frame that waits for the one that runs.                             *)
LEMMA BelowTop ==
    ASSUME TypeOK, calls # << >>, Len(calls) > 1
    PROVE  /\ Below # << >> /\ Last(Below) = calls[Len(calls) - 1]
           /\ Below = Append(Front(Below), Last(Below))
  <1>1. /\ Len(calls) \in Nat \ {0} /\ Below \in Seq(FrameTypes) /\ Len(Below) = Len(calls) - 1
        /\ \A i \in 1..Len(calls) - 1 : Below[i] = calls[i]
    BY TopFacts
  <1>2. Below # << >>
    BY <1>1
  <1>3. Last(Below) = Below[Len(Below)]
    BY DEF Last
  <1>4. Below = Append(Front(Below), Last(Below))
    <2> HIDE DEF Below
    <2> QED
      BY ONLY <1>1, <1>2, Rebuilt
  <1> QED
    BY <1>1, <1>2, <1>3, <1>4

LEMMA CallsArePushed ==
    ASSUME TypeOK, calls # << >>
    PROVE  calls = Append(Below, Top)
  <1>1. calls \in Seq(FrameTypes)
    BY DEF TypeOK
  <1>2. calls = Append(Front(calls), Last(calls))
    BY <1>1 DEF Front, Last
  <1> QED
    BY <1>2 DEF Below, Top

(* The claims of the frame that runs and of those below it.                *)
LEMMA TopClaims ==
    ASSUME TypeOK, calls # << >>
    PROVE  /\ FrameClaims(calls) = FrameClaims(Below) \union HeldAt(Len(calls), Top)
           /\ Busy = BusyIn(Below) \union BusyBy(Top)
           /\ \A p \in FrameClaims(Below) : p[2] \in 1..Len(calls) - 1
  <1>1. /\ calls = Append(Below, Top) /\ Below \in Seq(FrameTypes) /\ Top \in FrameTypes
        /\ Len(Below) + 1 = Len(calls) /\ Len(Below) = Len(calls) - 1
    BY TopFacts, CallsArePushed
  <1>0. DOMAIN Below = 1..Len(calls) - 1
    <2>1. DOMAIN Below = 1..Len(Below)
      BY <1>1
    <2> QED
      BY <1>1, <2>1
  <1>2. /\ FrameClaims(Append(Below, Top)) = FrameClaims(Below) \union HeldAt(Len(Below) + 1, Top)
        /\ BusyIn(Append(Below, Top)) = BusyIn(Below) \union BusyBy(Top)
    <2> HIDE DEF Below, Top
    <2> QED
      BY <1>1, PushClaims
  <1>3. \A p \in FrameClaims(Below) : p[2] \in DOMAIN Below
    BY DEF FrameClaims, HeldAt
  <1> QED
    BY <1>0, <1>1, <1>2, <1>3, BusyIsIn

(* A scope moves from one owner to another.                                *)
LEMMA MovedClaim ==
    ASSUME NEW C, OnePerScope(C), NEW p \in C, NEW q, q[3] = p[3], NEW D, D = (C \ {p}) \union {q}
    PROVE  OnePerScope(D) /\ Scopes(D) = Scopes(C)
  BY DEF OnePerScope, Scopes

LEMMA DroppedClaim ==
    ASSUME NEW C, OnePerScope(C), NEW p \in C, NEW D, D = C \ {p}
    PROVE  OnePerScope(D) /\ Scopes(D) = Scopes(C) \ {p[3]}
  BY DEF OnePerScope, Scopes

LEMMA NewClaim ==
    ASSUME NEW C, OnePerScope(C), NEW q, q[3] \notin Scopes(C), NEW D, D = C \union {q}
    PROVE  OnePerScope(D) /\ Scopes(D) = Scopes(C) \union {q[3]}
  BY DEF OnePerScope, Scopes

(* In a call that frees, and in one that copies, the shape of the stack is *)
(* kept.                                                                   *)
LEMMA FreeingShape ==
    ASSUME TypeOK, Shape, calls # << >>, Top.op \in Frees \union {"replace"}
    PROVE  \A i \in DOMAIN calls :
               calls[i].op \in Frees \union {"replace"} /\ (i > 1 => calls[i].op \in Frees)
  <1>1. /\ Len(calls) \in Nat \ {0} /\ DOMAIN calls = 1..Len(calls) /\ Top = calls[Len(calls)]
    BY TopFacts
  <1>2. CASE calls[1].op \in Copies /\ \A i \in 2..Len(calls) : calls[i].op = "copy"
    <2>1. CASE Len(calls) = 1
      BY <1>1, <1>2, <2>1 DEF Copies, Frees
    <2>2. CASE Len(calls) # 1
      BY <1>1, <1>2, <2>2 DEF Copies, Frees
    <2> QED
      BY <2>1, <2>2
  <1>3. CASE calls[1].op \in Frees \union {"replace"} /\ \A i \in 2..Len(calls) : calls[i].op \in Frees
    <2> SUFFICES ASSUME NEW i \in DOMAIN calls
                 PROVE  calls[i].op \in Frees \union {"replace"} /\ (i > 1 => calls[i].op \in Frees)
      OBVIOUS
    <2>1. i = 1 \/ i \in 2..Len(calls)
      BY <1>1
    <2> QED
      BY <1>3, <2>1, <1>1
  <1> QED
    BY <1>2, <1>3 DEF Shape

LEMMA CopyingShape ==
    ASSUME TypeOK, Shape, calls # << >>, Top.op \in Copies \union {"copy"}
    PROVE  /\ calls[1].op \in Copies
           /\ \A i \in DOMAIN calls : i > 1 => calls[i].op = "copy"
           /\ \A i \in DOMAIN calls : calls[i].op \in Copies \union {"copy"}
           /\ Busy = {}
  <1>1. /\ Len(calls) \in Nat \ {0} /\ DOMAIN calls = 1..Len(calls) /\ Top = calls[Len(calls)]
    BY TopFacts
  <1>2. CASE calls[1].op \in Frees \union {"replace"} /\ \A i \in 2..Len(calls) : calls[i].op \in Frees
    <2>1. CASE Len(calls) = 1
      BY <1>1, <1>2, <2>1 DEF Copies, Frees
    <2>2. CASE Len(calls) # 1
      BY <1>1, <1>2, <2>2 DEF Copies, Frees
    <2> QED
      BY <2>1, <2>2
  <1>3. CASE calls[1].op \in Copies /\ \A i \in 2..Len(calls) : calls[i].op = "copy"
    <2>1. \A i \in DOMAIN calls : i > 1 => calls[i].op = "copy"
      BY <1>1, <1>3
    <2>2. \A i \in DOMAIN calls : calls[i].op \in Copies \union {"copy"}
      <3> SUFFICES ASSUME NEW i \in DOMAIN calls
                   PROVE  calls[i].op \in Copies \union {"copy"}
        OBVIOUS
      <3>1. i = 1 \/ i > 1
        BY <1>1
      <3> QED
        BY <1>3, <2>1, <3>1
    <2>3. \A i \in DOMAIN calls : BusyBy(calls[i]) = {}
      BY <2>2 DEF Copies, BusyBy
    <2>4. Busy = {}
      BY <2>3, BusyIsIn DEF BusyIn
    <2> QED
      BY <1>3, <2>1, <2>2, <2>4
  <1> QED
    BY <1>2, <1>3 DEF Shape

-----------------------------------------------------------------------------
(* Xvr_popScope, when the functions of the scope are popped.               *)

(* While a stack frees, an assignment below waits as it was.               *)
LEMMA FreeingStack ==
    ASSUME Inv, TypeOK', calls # << >>, calls' # << >>,
           \/ calls'[1].op \in Frees
           \/ calls'[1] = calls[1] /\ calls[1].op = "replace",
           \A i \in 2..Len(calls') : calls'[i].op \in Frees,
           \A i \in 1..Len(calls') - 1 : calls'[i].op # "down",
           Top'.op \in {"pop", "free"} => Top'.at = {},
           open' = open, hand' = hand, \A o \in open : Chain(o)' = Chain(o),
           calls[1].op = "replace" =>
               \A slot \in Slot(calls[1]) :
                   slot \in DOMAIN variables' /\ variables'[slot].type = variables[slot].type
    PROVE  Shape' /\ Assigning' /\ Copied'
  <1>1. Shape'
    BY DEF Shape
  <1>2. Assigning'
    <2>1. CASE calls'[1].op \in Frees
      BY <2>1 DEF Assigning, AssigningOn, Frees, Sets
    <2>2. CASE calls'[1] = calls[1] /\ calls[1].op = "replace"
      <3> DEFINE f == calls[1]
      <3>1. /\ \E n \in Names : f.at = {n} /\ <<f.scope, n>> \in DOMAIN variables
            /\ \E o \in open : f.scope \in Chain(o)
            /\ f.value.scope \in hand \union {NoScope} /\ Settable(f.value)
            /\ \A slot \in Slot(f) : LET type == variables[slot].type IN
                  type.of = "any" \/ f.value.kind \in {"null", type.of}
        BY <2>2 DEF Inv, StackInv, Assigning, AssigningOn, Sets
      <3>2. \A n \in Names : f.at = {n} => Slot(f) = {<<f.scope, n>>}
        BY DEF Slot
      <3> HIDE DEF f
      <3>3. /\ \E n \in Names : f.at = {n} /\ <<f.scope, n>> \in DOMAIN variables'
            /\ \A slot \in Slot(f) : LET type == variables'[slot].type IN
                  type.of = "any" \/ f.value.kind \in {"null", type.of}
        BY <2>2, <3>1, <3>2 DEF f
      <3>4. f.op = "replace" /\ calls'[1] = f
        BY <2>2 DEF f
      <3> QED
        BY <3>1, <3>3, <3>4 DEF Assigning, AssigningOn, Slot
    <2> QED
      BY <2>1, <2>2
  <1>3. Copied'
    BY DEF Copied, CopiedOn, Frees
  <1> QED
    BY <1>1, <1>2, <1>3

(* The scope loses its owner, and is counted down from now on.             *)
LEMMA PoppedHeap ==
    ASSUME Inv, ancestor' = ancestor, references' = references,
           NEW s \in Owned, Owned' = Owned \ {s}, LeafScopes' \subseteq LeafScopes,
           ~Running("down"), Running("down")', Top'.scope = s,
           \A i \in DOMAIN calls : calls[i].op \in {"up", "free"} =>
               \E j \in DOMAIN calls' : calls'[j].op \in {"up", "free"} /\ calls'[j].scope = calls[i].scope,
           Slots' = Slots, variables' = variables, hidden' = hidden,
           hidden \/ \A a \in Slots : a[1] # s
    PROVE  HeapInv'
  <1>0. Allocated' = Allocated /\ \A t : Chain(t)' = Chain(t)
    BY DEF Allocated, Chain
  <1>1. Acyclic'
    BY <1>0 DEF Inv, HeapInv, Acyclic, Chain
  <1>2. Counted'
    <2> SUFFICES ASSUME NEW t \in Allocated
                 PROVE  references[t] = Cardinality({o \in Owned' : t \in Chain(o)'}) + ToCountDown(t)'
      BY <1>0 DEF Counted
    <2> DEFINE S == {o \in Owned : t \in Chain(o)}
               T == {o \in Owned' : t \in Chain(o)'}
    <2>1. references[t] = Cardinality(S) + ToCountDown(t)
      BY DEF Inv, HeapInv, Counted
    <2>2. ToCountDown(t) = 0 /\ ToCountDown(t)' = IF t \in Chain(s) THEN 1 ELSE 0
      BY <1>0 DEF ToCountDown
    <2>3. T = S \ {s} /\ (s \in S <=> t \in Chain(s))
      BY <1>0
    <2>4. IsFiniteSet(S)
      BY OwnedFinite DEF Inv
    <2> HIDE DEF S, T
    <2>5. /\ Cardinality(S) \in Nat
          /\ Cardinality(T) = IF s \in S THEN Cardinality(S) - 1 ELSE Cardinality(S)
      BY <2>3, <2>4, FS_RemoveElement, FS_CardinalityType
    <2>6. references[t] = Cardinality(T) + ToCountDown(t)'
      BY <2>1, <2>2, <2>3, <2>5
    <2> QED
      BY <2>6 DEF T
  <1>3. Rooted'
    BY <1>0 DEF Inv, HeapInv, Rooted
  <1>4. Dying'
    BY <1>0 DEF Inv, HeapInv, Dying
  <1>5. Leaves'
    BY <1>0 DEF Inv, HeapInv, Leaves
  <1>6. WellFounded'
    <2>1. \A a \in Slots' : SlotScope(a)' = SlotScope(a)
      BY DEF SlotScope
    <2> QED
      BY <1>0, <2>1, ShrinkingSlots DEF Inv, HeapInv
  <1>7. Visible'
    BY DEF Inv, HeapInv, Visible
  <1> QED
    BY <1>1, <1>2, <1>3, <1>4, <1>5, <1>6, <1>7 DEF HeapInv

(* A pop that found no function goes on to freeAncestorChain.              *)
LEMMA PopEnds ==
    ASSUME Inv, Running("pop"),
           \A n \in NamesOf(Top.scope) : ~(/\ ValueOf(Top.scope, n).kind = "function"
                                           /\ ValueOf(Top.scope, n).scope # NoScope),
           calls' = Append(Below, Frame("down", Top.scope)),
           UNCHANGED <<heap, client, hidden, fault>>
    PROVE  Inv'
  <1> DEFINE n == Len(calls)
             s == Top.scope
             g == Frame("down", s)
  <1>0. /\ TypeOK /\ calls # << >> /\ Top.op = "pop"
        /\ references' = references /\ ancestor' = ancestor /\ variables' = variables
        /\ open' = open /\ hand' = hand /\ hidden' = hidden /\ fault' = fault
        /\ \A t : Chain(t)' = Chain(t) /\ Allocated' = Allocated
    BY DEF Inv, Running, heap, client, Chain, Allocated
  <1>1. /\ n \in Nat \ {0} /\ DOMAIN calls = 1..n /\ Top = calls[n] /\ Top \in FrameTypes
        /\ Below \in Seq(FrameTypes) /\ Len(Below) + 1 = n
    BY <1>0, TopFacts
  <1>2. g \in FrameTypes /\ g.op = "down" /\ g.scope = s
    BY <1>1, FrameType, FrameFields DEF FrameTypes, FrameOps
  <1> HIDE DEF g
  <1>3. /\ calls' \in Seq(FrameTypes) /\ calls' # << >> /\ Top' = g /\ Len(calls') = n
        /\ DOMAIN calls' = 1..n /\ calls'[n] = g
        /\ \A i \in 1..n - 1 : calls'[i] = calls[i]
    BY <1>0, <1>2, ReplaceTop DEF g
  <1>4. \A i \in DOMAIN calls :
            calls[i].op \in Frees \union {"replace"} /\ (i > 1 => calls[i].op \in Frees)
    BY <1>0, FreeingShape DEF Inv, StackInv, Frees
  <1>5. /\ HeldAt(n, Top) = {<<"frame", n, s>>} /\ BusyBy(Top) = {}
        /\ HeldAt(n, g) = {} /\ BusyBy(g) = {}
    <2>1. Top.at = {}
      BY <1>0 DEF Inv, StackInv, Shape
    <2> QED
      BY <1>0, <1>1, <1>2, <2>1 DEF HeldAt, Holds, BusyBy, Slot
  <1>6. /\ FrameClaims(calls) = FrameClaims(Below) \union {<<"frame", n, s>>}
        /\ FrameClaims(calls') = FrameClaims(Below)
        /\ Busy' = Busy
        /\ \A p \in FrameClaims(Below) : p[2] \in 1..n - 1
    <2>1. /\ FrameClaims(calls) = FrameClaims(Below) \union HeldAt(n, Top)
          /\ Busy = BusyIn(Below) \union BusyBy(Top)
          /\ \A p \in FrameClaims(Below) : p[2] \in 1..n - 1
      BY <1>0, TopClaims
    <2>2. /\ FrameClaims(calls') = FrameClaims(Below) \union HeldAt(n, g)
          /\ BusyIn(calls') = BusyIn(Below) \union BusyBy(g)
      BY <1>1, <1>2, PushClaims DEF g
    <2>3. Busy' = BusyIn(calls')
      BY BusyIsIn
    <2> QED
      BY <1>5, <2>1, <2>2, <2>3
  <1>7. /\ Slots' = Slots /\ SlotClaims' = SlotClaims /\ OpenClaims' = OpenClaims
        /\ HandClaims' = HandClaims
    BY <1>0, <1>6 DEF Slots, SlotClaims, SlotScope, OpenClaims, HandClaims
  <1>8. /\ <<"frame", n, s>> \in Claims /\ Claims' = Claims \ {<<"frame", n, s>>}
    BY <1>1, <1>6, <1>7, ClaimTags DEF Claims
  <1>9. Owned' = Owned \ {s} /\ s \in Owned /\ OnePerScope(Claims')
    <2>1. /\ OnePerScope(Claims) /\ <<"frame", n, s>>[3] = s
      BY OneOwner DEF Inv
    <2>2. OnePerScope(Claims') /\ Scopes(Claims') = Scopes(Claims) \ {s}
      BY <1>8, <2>1, DroppedClaim
    <2>3. s \in Scopes(Claims)
      BY <1>8, <2>1 DEF Scopes
    <2> QED
      BY <2>2, <2>3, OwnedIsScopes, OwnersNext
  <1>10. LeafScopes' \subseteq LeafScopes
    <2>1. \A p \in FrameClaims(Below) : p[2] = 1 => calls'[1] = calls[1]
      BY <1>1, <1>3, <1>6
    <2> QED
      BY <1>6, <1>7, <2>1 DEF LeafScopes, Scopes
  <1>11. TypeOK'
    BY <1>0, <1>3 DEF Inv, TypeOK
  <1>12. EveryScopeHasOneOwner'
    <2>1. Owned' \subseteq Allocated'
      BY <1>0, <1>9 DEF Inv, EveryScopeHasOneOwner
    <2> QED
      BY <2>1, <1>9, OwnersNext
  <1> HIDE DEF n, s
  <1>13. \A i \in 1..n - 1 : i \in DOMAIN calls /\ i # n
    BY <1>1
  <1>14. Shape' /\ Assigning' /\ Copied'
    <2>1. \/ calls'[1].op \in Frees
          \/ calls'[1] = calls[1] /\ calls[1].op = "replace"
      BY <1>1, <1>2, <1>3, <1>4 DEF Frees
    <2>2. \A i \in 2..Len(calls') : calls'[i].op \in Frees
      BY <1>1, <1>2, <1>3, <1>4 DEF Frees
    <2>3. \A i \in 1..Len(calls') - 1 : calls'[i].op # "down"
      BY <1>0, <1>1, <1>3 DEF Inv, StackInv, Shape
    <2>4. Top'.op \notin {"pop", "free"}
      BY <1>2, <1>3
    <2>5. calls[1].op = "replace" => Slot(calls[1]) \subseteq DOMAIN variables
      BY <1>0 DEF Inv, StackInv, Assigning, AssigningOn, Sets, Slot
    <2> QED
      BY <1>0, <1>3, <1>11, <2>1, <2>2, <2>3, <2>4, <2>5, FreeingStack
  <1>15. Unwinding'
    <2>1. \A i \in 1..n - 1 : calls[i].op \in {"up", "free"} => references[calls[i].scope] = 0
      BY <1>0, <1>1, <1>13 DEF Inv, StackInv, Unwinding
    <2>2. s \in Allocated
      BY <1>9 DEF Inv, EveryScopeHasOneOwner
    <2>3. \A i \in DOMAIN calls' : calls'[i].op \in {"up", "free"} => i \in 1..n - 1
      BY <1>1, <1>2, <1>3
    <2>4. \A i \in DOMAIN calls' : calls'[i].op \in {"down", "up", "free"} => calls'[i].scope \in Allocated'
      BY <1>0, <1>1, <1>2, <1>3, <1>13, <2>2 DEF Inv, StackInv, Unwinding
    <2>5. \A i \in DOMAIN calls' : calls'[i].op \in {"up", "free"} => references'[calls'[i].scope] = 0
      BY <1>0, <1>3, <2>1, <2>3
    <2>6. \A i, j \in DOMAIN calls' :
              calls'[i].op \in {"up", "free"} /\ calls'[j].op \in {"up", "free"}
                 /\ calls'[i].scope = calls'[j].scope => i = j
      BY <1>3, <1>13, <2>3 DEF Inv, StackInv, Unwinding
    <2> QED
      BY <2>4, <2>5, <2>6 DEF Unwinding
  <1>16. HeapInv'
    <2>1. ~Running("down") /\ Running("down")' /\ Top'.scope = s
      BY <1>0, <1>2, <1>3 DEF Running
    <2>2. \A i \in DOMAIN calls : calls[i].op \in {"up", "free"} => i \in 1..n - 1
      BY <1>0, <1>1
    <2>3. \A i \in DOMAIN calls : calls[i].op \in {"up", "free"} =>
               \E j \in DOMAIN calls' : calls'[j].op \in {"up", "free"} /\ calls'[j].scope = calls[i].scope
      BY <1>3, <1>13, <1>1, <2>2
    <2>4. hidden \/ \A a \in Slots : a[1] # s
      <3> SUFFICES ASSUME ~hidden, NEW a \in Slots, a[1] = s PROVE FALSE
        OBVIOUS
      <3>1. variables[a].value.kind = "function" /\ variables[a].value.scope # NoScope
        BY DEF Inv, HeapInv, Visible, Slots
      <3>2. a = <<s, a[2]>> /\ a[2] \in Names /\ a \in DOMAIN variables
        <4>1. a \in DOMAIN variables /\ DOMAIN variables \subseteq Allocated \X Names
          BY DEF Slots, Inv, TypeOK
        <4>2. a \in Allocated \X Names
          BY <4>1
        <4> QED
          BY <4>1, <4>2
      <3> QED
        BY <3>1, <3>2 DEF NamesOf, ValueOf, s
    <2> QED
      BY <1>0, <1>7, <1>9, <1>10, <2>1, <2>3, <2>4, PoppedHeap
  <1>17. FreedOnlyWhenAssigned'
    <2>1. \A slot \in DOMAIN variables : variables[slot].value.kind # "freed"
      BY <1>1, <1>4 DEF Inv, FreedOnlyWhenAssigned, Frees
    <2> QED
      BY <1>0, <2>1 DEF FreedOnlyWhenAssigned
  <1> QED
    BY <1>11, <1>12, <1>14, <1>15, <1>16, <1>17 DEF Inv, StackInv

-----------------------------------------------------------------------------
(* The value of a variable is freed: from now on a pop owns its scope.     *)

(* The scope of the value goes from the variable to a pop.                 *)
LEMMA FreesValue ==
    ASSUME Inv, calls # << >>, Top.op \in {"pop", "free", "check"},
           NEW g \in FrameTypes, NEW a \in Slots,
           Holds(g) = Holds(Top), BusyBy(Top) = {}, BusyBy(g) = {a},
           g.op = (IF Top.op = "check" THEN "replace" ELSE Top.op), g.scope = Top.scope,
           calls' = Append(Append(Below, g), Frame("pop", SlotScope(a))),
           UNCHANGED <<heap, client, hidden, fault>>
    PROVE  TypeOK' /\ EveryScopeHasOneOwner' /\ HeapInv'
  <1> DEFINE n == Len(calls)
             c == SlotScope(a)
             h == Frame("pop", c)
             old == <<"slot", a, c>>
             new == <<"frame", n + 1, c>>
  <1>0. /\ TypeOK /\ references' = references /\ ancestor' = ancestor /\ variables' = variables
        /\ open' = open /\ hand' = hand /\ hidden' = hidden /\ fault' = fault
        /\ \A t : Chain(t)' = Chain(t) /\ Allocated' = Allocated
    BY DEF Inv, heap, client, Chain, Allocated
  <1>1. /\ n \in Nat \ {0} /\ DOMAIN calls = 1..n /\ Top = calls[n]
        /\ Below \in Seq(FrameTypes) /\ Len(Below) + 1 = n
    BY <1>0, TopFacts
  <1>2. c \in Owned /\ c \in Addresses
    <2>1. c \in Owned
      BY DEF Owned
    <2> QED
      BY <2>1, <1>0 DEF Inv, EveryScopeHasOneOwner, TypeOK
  <1>3. h \in FrameTypes /\ h.op = "pop" /\ h.scope = c /\ Holds(h) = {c} /\ BusyBy(h) = {}
    BY <1>2, FrameType, FrameFields DEF FrameOps, Holds, BusyBy, Slot
  <1> HIDE DEF h, c
  <1>4. /\ calls' \in Seq(FrameTypes) /\ calls' # << >> /\ Top' = h /\ Len(calls') = n + 1
        /\ DOMAIN calls' = 1..n + 1 /\ calls'[n] = g /\ calls'[n + 1] = h
        /\ \A i \in 1..n - 1 : calls'[i] = calls[i]
    BY <1>0, <1>3, PushTop DEF h, c
  <1>5. /\ FrameClaims(calls') = FrameClaims(calls) \union {new}
        /\ Busy' = Busy \union {a}
        /\ \A p \in FrameClaims(calls) : p[2] \in 1..n
    <2> DEFINE mid == Append(Below, g)
    <2>1. /\ FrameClaims(calls) = FrameClaims(Below) \union HeldAt(n, Top)
          /\ Busy = BusyIn(Below) \union BusyBy(Top)
          /\ \A p \in FrameClaims(Below) : p[2] \in 1..n - 1
      BY <1>0, TopClaims
    <2> HIDE DEF n
    <2>2. /\ FrameClaims(mid) = FrameClaims(Below) \union HeldAt(n, g)
          /\ BusyIn(mid) = BusyIn(Below) \union BusyBy(g)
          /\ mid \in Seq(FrameTypes) /\ Len(mid) = n
      <3>1. /\ FrameClaims(mid) = FrameClaims(Below) \union HeldAt(Len(Below) + 1, g)
            /\ BusyIn(mid) = BusyIn(Below) \union BusyBy(g)
        BY <1>1, PushClaims
      <3>2. mid \in Seq(FrameTypes) /\ Len(mid) = Len(Below) + 1
        BY <1>1, PushFacts
      <3> QED
        BY <1>1, <3>1, <3>2
    <2> HIDE DEF mid
    <2>3. /\ FrameClaims(calls') = FrameClaims(mid) \union HeldAt(n + 1, h)
          /\ BusyIn(calls') = BusyIn(mid) \union BusyBy(h)
      <3>1. calls' = Append(mid, h)
        BY DEF mid, h, c
      <3>2. /\ FrameClaims(Append(mid, h)) = FrameClaims(mid) \union HeldAt(Len(mid) + 1, h)
            /\ BusyIn(Append(mid, h)) = BusyIn(mid) \union BusyBy(h)
        BY <1>3, <2>2, PushClaims
      <3> QED
        BY <2>2, <3>1, <3>2
    <2>4. HeldAt(n, g) = HeldAt(n, Top) /\ HeldAt(n + 1, h) = {new}
      BY <1>3 DEF HeldAt
    <2>5. \A p \in HeldAt(n, Top) : p[2] = n
      BY DEF HeldAt
    <2>6. \A p \in FrameClaims(calls) : p[2] \in 1..n
      BY <1>1, <2>1, <2>5
    <2> QED
      BY <1>3, <2>1, <2>2, <2>3, <2>4, <2>6, BusyIsIn
  <1> HIDE DEF n
  <1>6. /\ Slots' = Slots \ {a} /\ SlotClaims' = SlotClaims \ {old}
        /\ old \in SlotClaims
        /\ OpenClaims' = OpenClaims /\ HandClaims' = HandClaims
    <2>1. Slots' = Slots \ {a}
      BY <1>0, <1>5 DEF Slots
    <2>2. \A b : SlotScope(b)' = SlotScope(b)
      BY <1>0 DEF SlotScope
    <2>3. SlotClaims' = {<<"slot", b, SlotScope(b)>> : b \in Slots \ {a}}
      BY <2>1, <2>2 DEF SlotClaims
    <2> QED
      BY <1>0, <2>1, <2>3 DEF SlotClaims, OpenClaims, HandClaims, c
  <1>7. old \in Claims /\ Claims' = (Claims \ {old}) \union {new}
    BY <1>5, <1>6, ClaimTags DEF Claims
  <1>8. Owned' = Owned /\ OnePerScope(Claims')
    <2>1. OnePerScope(Claims) /\ old[3] = new[3]
      BY OneOwner DEF Inv
    <2> HIDE DEF old, new
    <2>2. OnePerScope(Claims') /\ Scopes(Claims') = Scopes(Claims)
      BY <1>7, <2>1, MovedClaim
    <2> QED
      BY <2>2, OwnedIsScopes, OwnersNext
  <1>9. LeafScopes' \subseteq LeafScopes
    <2>1. calls'[1].op = "pop" <=> calls[1].op = "pop"
      BY <1>1, <1>4
    <2>2. new[3] = old[3]
      OBVIOUS
    <2> QED
      BY <1>5, <1>6, <2>1, <2>2 DEF LeafScopes, Scopes
  <1>10. TypeOK'
    BY <1>0, <1>4 DEF TypeOK
  <1>11. EveryScopeHasOneOwner'
    <2>1. Owned' \subseteq Allocated'
      BY <1>0, <1>8 DEF Inv, EveryScopeHasOneOwner
    <2> QED
      BY <2>1, <1>8, OwnersNext
  <1>12. HeapInv'
    <2>1. ~Running("down") /\ ~Running("down")'
      BY <1>3, <1>4 DEF Running
    <2>2. \A i \in DOMAIN calls :
              i \in DOMAIN calls' /\ (i < n => calls'[i] = calls[i]) /\ (i = n \/ i < n)
      BY <1>1, <1>4
    <2>3. \A i \in DOMAIN calls : calls[i].op \in {"up", "free"} =>
              i \in DOMAIN calls' /\ calls'[i].op \in {"up", "free"} /\ calls'[i].scope = calls[i].scope
      BY <1>1, <1>4, <2>2
    <2> QED
      BY <1>0, <1>6, <1>8, <1>9, <2>1, <2>3, QuietHeap
  <1> QED
    BY <1>10, <1>11, <1>12

(* The entry that a pop or a release frees next is not being freed yet.    *)
LEMMA NotBusy ==
    ASSUME Inv, calls # << >>, Top.op \in {"pop", "free"},
           NEW m \in NamesOf(Top.scope), ValueOf(Top.scope, m).scope # NoScope
    PROVE  <<Top.scope, m>> \in Slots
  <1> DEFINE n == Len(calls)
             s == Top.scope
             a == <<s, m>>
  <1>0. TypeOK /\ Shape /\ Unwinding /\ Assigning
    BY DEF Inv, StackInv
  <1>1. /\ n \in Nat \ {0} /\ DOMAIN calls = 1..n /\ Top = calls[n]
        /\ \A i \in DOMAIN calls : i = n \/ (i < n /\ i \in Nat)
    BY <1>0, TopFacts
  <1>2. a \in DOMAIN variables /\ variables[a].value.scope # NoScope
    BY DEF NamesOf, ValueOf
  <1>3. \A i \in DOMAIN calls : calls[i].op \in Frees \union {"replace"} /\ (i > 1 => calls[i].op \in Frees)
    BY <1>0, FreeingShape DEF Frees
  <1>4. \A o \in Owned : \A t \in Chain(o) : references[t] # 0
    BY OwnedPositive
  <1>5. \A o \in Owned : references[o] # 0
    BY <1>4, OwnedAllocated
  <1> HIDE DEF n, s
  <1>6. ASSUME NEW i \in DOMAIN calls, a \in BusyBy(calls[i]) PROVE FALSE
    <2> DEFINE f == calls[i]
    <2>1. f.op \in {"pop", "free", "replace"} /\ f.scope = s /\ f.at # {}
      BY <1>6 DEF BusyBy, Slot
    <2>2. i < n
      BY <1>0, <1>1, <2>1 DEF Shape
    <2>3. CASE f.op = "pop"
      <3>1. s \in Holds(f)
        BY <2>1, <2>3 DEF Holds
      <3>2. s \in Owned
        BY <3>1, OwnedIsScopes, ClaimMembers DEF Owned, ToSet
      <3>3. CASE Top.op = "pop"
        <4>1. s \in Holds(calls[n])
          BY <1>1, <3>3 DEF Holds, s
        <4> QED
          BY <1>1, <2>2, <3>1, <4>1 DEF Inv, EveryScopeHasOneOwner
      <3>4. CASE Top.op = "free"
        BY <1>0, <1>1, <1>5, <3>2, <3>4 DEF Unwinding, s
      <3> QED
        BY <3>3, <3>4
    <2>4. CASE f.op = "free"
      <3>1. references[s] = 0
        BY <1>0, <2>1, <2>4 DEF Unwinding
      <3>2. CASE Top.op = "pop"
        <4>1. s \in Holds(calls[n])
          BY <1>1, <3>2 DEF Holds, s
        <4>2. s \in Owned
          BY <1>1, <4>1 DEF Owned, ToSet
        <4> QED
          BY <1>5, <3>1, <4>2
      <3>3. CASE Top.op = "free"
        BY <1>0, <1>1, <2>1, <2>2, <2>4, <3>3 DEF Unwinding, s
      <3> QED
        BY <3>2, <3>3
    <2>5. CASE f.op = "replace"
      <3>1. i = 1
        BY <1>1, <1>3, <2>2, <2>5 DEF Frees
      <3>2. PICK o \in open : s \in Chain(o)
        BY <1>0, <2>1, <2>5, <3>1 DEF Assigning, AssigningOn, Sets
      <3>3. CASE Top.op = "pop"
        <4>1. <<"frame", n, s>> \in FrameClaims(calls)
          BY <1>1, <3>3 DEF FrameClaims, HeldAt, Holds, s
        <4>2. <<"frame", n, s>>[2] # 1 /\ <<"frame", n, s>>[3] = s
          BY <1>1, <2>2, <3>1
        <4>3. s \in LeafScopes
          BY <4>1, <4>2 DEF LeafScopes, Scopes
        <4> QED
          BY <3>2, <4>3, OpenNotLeaf
      <3>4. CASE Top.op = "free"
        <4>1. o \in Owned
          BY DEF Owned
        <4> QED
          BY <1>0, <1>1, <1>4, <3>2, <3>4, <4>1 DEF Unwinding, s
      <3> QED
        BY <3>3, <3>4
    <2> QED
      BY <2>1, <2>3, <2>4, <2>5
  <1> QED
    BY <1>2, <1>6, BusyIsIn DEF Slots, BusyIn, s

LEMMA PushIndex ==
    ASSUME NEW n \in Nat \ {0}, NEW old, NEW new, NEW g, NEW h,
           DOMAIN old = 1..n, DOMAIN new = 1..n + 1, NEW m, m = n + 1,
           new[n] = g, new[n + 1] = h, \A i \in 1..n - 1 : new[i] = old[i]
    PROVE  /\ \A i \in DOMAIN new :
                  \/ i = n + 1 /\ new[i] = h
                  \/ i = n /\ i \in DOMAIN old /\ new[i] = g
                  \/ i \in 1..n - 1 /\ i \in DOMAIN old /\ new[i] = old[i]
           /\ 1 \in DOMAIN old /\ (n = 1 \/ 1 \in 1..n - 1)
           /\ \A i \in 2..m : i \in DOMAIN new /\ i > 1
           /\ \A i \in 1..m - 1 : i \in DOMAIN new /\ i # n + 1
  <1>1. ASSUME NEW i \in DOMAIN new
        PROVE  \/ i = n + 1 /\ new[i] = h
               \/ i = n /\ i \in DOMAIN old /\ new[i] = g
               \/ i \in 1..n - 1 /\ i \in DOMAIN old /\ new[i] = old[i]
    <2>1. i = n + 1 \/ i = n \/ i \in 1..n - 1
      OBVIOUS
    <2>2. n \in 1..n /\ \A j \in 1..n - 1 : j \in 1..n
      OBVIOUS
    <2> QED
      BY <2>1, <2>2
  <1>2. 1 \in DOMAIN old /\ (n = 1 \/ 1 \in 1..n - 1)
    OBVIOUS
  <1>3. \A i \in 2..m : i \in DOMAIN new /\ i > 1
    OBVIOUS
  <1>4. \A i \in 1..m - 1 : i \in DOMAIN new /\ i # n + 1
    OBVIOUS
  <1>5. \A i \in DOMAIN new :
            \/ i = n + 1 /\ new[i] = h
            \/ i = n /\ i \in DOMAIN old /\ new[i] = g
            \/ i \in 1..n - 1 /\ i \in DOMAIN old /\ new[i] = old[i]
    BY <1>1
  <1> HIDE <1>1
  <1> QED
    BY <1>2, <1>3, <1>4, <1>5

(* A scope on its way back stays so.                                       *)
LEMMA UnwindingKept ==
    ASSUME Unwinding, references' = references, ancestor' = ancestor,
           \A i \in DOMAIN calls : calls[i].op \in {"up", "free"} => references[calls[i].scope] = 0,
           \A i \in DOMAIN calls' : calls'[i].op \in {"down", "up", "free"} =>
               i \in DOMAIN calls /\ calls'[i].op = calls[i].op /\ calls'[i].scope = calls[i].scope
    PROVE  Unwinding'
  BY DEF Unwinding, Allocated

(* A pop or a free that calls popScope for the function of an entry.       *)
LEMMA PushesPop ==
    ASSUME Inv, calls # << >>, Top.op \in {"pop", "free"},
           NEW m \in NamesOf(Top.scope), ValueOf(Top.scope, m).scope # NoScope,
           calls' = Freeing(Append(Below, [Top EXCEPT !.at = {m}]), ValueOf(Top.scope, m)),
           UNCHANGED <<heap, client, hidden, fault>>
    PROVE  Inv'
  <1> DEFINE n == Len(calls)
             g == [Top EXCEPT !.at = {m}]
             a == <<Top.scope, m>>
             h == Frame("pop", SlotScope(a))
  <1>0. /\ TypeOK /\ references' = references /\ ancestor' = ancestor /\ variables' = variables
        /\ open' = open /\ hand' = hand /\ hidden' = hidden /\ fault' = fault
        /\ \A t : Chain(t)' = Chain(t) /\ Allocated' = Allocated
    BY DEF Inv, heap, client, Chain, Allocated
  <1>1. /\ n \in Nat \ {0} /\ DOMAIN calls = 1..n /\ Top = calls[n] /\ Top \in FrameTypes
    BY <1>0, TopFacts
  <1>2. /\ g \in FrameTypes /\ g.op = Top.op /\ g.scope = Top.scope /\ g.at = {m} /\ g.old = Top.old
    BY <1>1 DEF FrameTypes, NamesOf
  <1>3. a \in Slots
    BY NotBusy
  <1>4. Holds(g) = Holds(Top) /\ BusyBy(Top) = {} /\ BusyBy(g) = {a}
    <2>1. Top.at = {}
      BY DEF Inv, StackInv, Shape
    <2>2. BusyBy(Top) = {}
      BY <2>1 DEF BusyBy, Slot
    <2> HIDE DEF g
    <2>3. Holds(g) = Holds(Top)
      BY <1>2 DEF Holds
    <2>4. BusyBy(g) = {a}
      BY <1>2 DEF BusyBy, Slot
    <2> QED
      BY <2>2, <2>3, <2>4
  <1>5. calls' = Append(Append(Below, g), h)
    BY DEF Freeing, ValueOf, SlotScope
  <1> HIDE DEF g
  <1>6. TypeOK' /\ EveryScopeHasOneOwner' /\ HeapInv'
    BY <1>2, <1>3, <1>4, <1>5, FreesValue
  <1>7. SlotScope(a) \in Addresses
    <2>1. SlotScope(a) \in Owned
      BY <1>3 DEF Owned
    <2> QED
      BY <2>1 DEF Inv, EveryScopeHasOneOwner, TypeOK
  <1>8. h \in FrameTypes /\ h.op = "pop" /\ h.at = {}
    BY <1>7, FrameType, FrameFields DEF FrameOps
  <1> HIDE DEF h
  <1>9. /\ calls' # << >> /\ Top' = h /\ Len(calls') = n + 1
        /\ DOMAIN calls' = 1..n + 1 /\ calls'[n] = g /\ calls'[n + 1] = h
        /\ \A i \in 1..n - 1 : calls'[i] = calls[i]
    BY <1>0, <1>2, <1>5, <1>8, PushTop
  <1> HIDE DEF n
  <1>10. \A i \in DOMAIN calls :
            calls[i].op \in Frees \union {"replace"} /\ (i > 1 => calls[i].op \in Frees)
    BY <1>0, FreeingShape DEF Inv, StackInv, Frees
  <1>14. /\ \A i \in DOMAIN calls' :
                \/ i = n + 1 /\ calls'[i] = h
                \/ i = n /\ i \in DOMAIN calls /\ calls'[i] = g
                \/ i \in 1..n - 1 /\ i \in DOMAIN calls /\ calls'[i] = calls[i]
         /\ 1 \in DOMAIN calls /\ (n = 1 \/ 1 \in 1..n - 1)
         /\ \A i \in 2..Len(calls') : i \in DOMAIN calls' /\ i > 1
         /\ \A i \in 1..Len(calls') - 1 : i \in DOMAIN calls' /\ i # n + 1
    <2> DEFINE k == Len(calls')
    <2>1. /\ n \in Nat \ {0} /\ DOMAIN calls = 1..n /\ DOMAIN calls' = 1..n + 1 /\ k = n + 1
          /\ calls'[n] = g /\ calls'[n + 1] = h /\ \A i \in 1..n - 1 : calls'[i] = calls[i]
      BY <1>1, <1>9
    <2> HIDE DEF k
    <2>2. /\ \A i \in DOMAIN calls' :
                 \/ i = n + 1 /\ calls'[i] = h
                 \/ i = n /\ i \in DOMAIN calls /\ calls'[i] = g
                 \/ i \in 1..n - 1 /\ i \in DOMAIN calls /\ calls'[i] = calls[i]
          /\ 1 \in DOMAIN calls /\ (n = 1 \/ 1 \in 1..n - 1)
          /\ \A i \in 2..k : i \in DOMAIN calls' /\ i > 1
          /\ \A i \in 1..k - 1 : i \in DOMAIN calls' /\ i # n + 1
      BY ONLY <2>1, PushIndex
    <2> QED
      BY <2>2 DEF k
  <1>15. Top.op \in Frees
    BY DEF Frees
  <1>11. Shape' /\ Assigning' /\ Copied'
    <2>1. \/ calls'[1].op \in Frees
          \/ calls'[1] = calls[1] /\ calls[1].op = "replace"
      BY <1>2, <1>9, <1>10, <1>14, <1>15
    <2>2. \A i \in 2..Len(calls') : calls'[i].op \in Frees
      BY <1>2, <1>8, <1>10, <1>14, <1>15 DEF Frees
    <2>3. \A i \in 1..Len(calls') - 1 : calls'[i].op # "down"
      <3>1. \A i \in 1..n - 1 : calls[i].op # "down"
        BY DEF Inv, StackInv, Shape, n
      <3> QED
        BY <1>2, <1>14, <1>15, <3>1
    <2>4. Top'.at = {}
      BY <1>8, <1>9
    <2>5. calls[1].op = "replace" => Slot(calls[1]) \subseteq DOMAIN variables
      BY <1>0 DEF Inv, StackInv, Assigning, AssigningOn, Sets, Slot
    <2> QED
      BY <1>0, <1>6, <1>9, <2>1, <2>2, <2>3, <2>4, <2>5, FreeingStack
  <1>12. Unwinding'
    <2>1. \A i \in DOMAIN calls : calls[i].op \in {"up", "free"} => references[calls[i].scope] = 0
      <3> SUFFICES ASSUME NEW i \in DOMAIN calls, calls[i].op \in {"up", "free"}
                   PROVE  references[calls[i].scope] = 0
        OBVIOUS
      <3>1. i < n \/ (i = n /\ calls[i].op = "free")
        BY <1>1
      <3> QED
        BY <1>1, <3>1 DEF Inv, StackInv, Unwinding
    <2>2. \A i \in DOMAIN calls' : calls'[i].op \in {"down", "up", "free"} =>
              i \in DOMAIN calls /\ calls'[i].op = calls[i].op /\ calls'[i].scope = calls[i].scope
      BY <1>1, <1>2, <1>8, <1>14
    <2> QED
      BY <1>0, <2>1, <2>2, UnwindingKept DEF Inv, StackInv
  <1>16. FreedOnlyWhenAssigned'
    <2>1. \A slot \in DOMAIN variables : variables[slot].value.kind # "freed"
      BY <1>1, <1>10 DEF Inv, FreedOnlyWhenAssigned, Frees
    <2> QED
      BY <1>0, <2>1 DEF FreedOnlyWhenAssigned
  <1> QED
    BY <1>6, <1>11, <1>12, <1>16 DEF Inv, StackInv

-----------------------------------------------------------------------------
(* freeAncestorChain: on its way to the outermost scope.                   *)

(* The count of one scope is right again, and that of its ancestor is      *)
(* next.                                                                   *)
LEMMA CountedDownHeap ==
    ASSUME Inv, ancestor' = ancestor, Owned' = Owned, LeafScopes' \subseteq LeafScopes,
           Slots' = Slots, variables' = variables, hidden' = hidden,
           Running("down"), NEW s \in Allocated, Top.scope = s,
           references' = [references EXCEPT ![s] = @ - 1],
           IF ancestor[s] = NoScope THEN ~Running("down")'
           ELSE Running("down")' /\ Top'.scope = ancestor[s],
           \A i \in DOMAIN calls : calls[i].op \in {"up", "free"} =>
               \E j \in DOMAIN calls' : calls'[j].op \in {"up", "free"} /\ calls'[j].scope = calls[i].scope,
           \E j \in DOMAIN calls' : calls'[j].op \in {"up", "free"} /\ calls'[j].scope = s
    PROVE  HeapInv' /\ references[s] \in Nat \ {0} /\ ancestor[s] \in Allocated \union {NoScope}
  <1>0. Allocated' = Allocated /\ \A t : Chain(t)' = Chain(t)
    BY DEF Allocated, Chain
  <1>1. Acyclic'
    BY <1>0 DEF Inv, HeapInv, Acyclic, Chain
  <1>2. Chain(s) = {s} \union Chain(ancestor[s]) /\ s \notin Chain(ancestor[s])
    BY EnclosingUnfold DEF Chain, Allocated, Inv, HeapInv, Acyclic
  <1>3. \A t \in Allocated : ToCountDown(t) = IF t \in Chain(s) THEN 1 ELSE 0
    BY DEF ToCountDown
  <1>4. \A t \in Allocated : ToCountDown(t)' = IF t \in Chain(ancestor[s]) THEN 1 ELSE 0
    <2>1. CASE ancestor[s] = NoScope
      <3>1. NoScope \notin Allocated
        BY ScopeAssumption DEF Inv, TypeOK
      <3>2. Chain(ancestor[s]) = {}
        BY <2>1, <3>1, EnclosingNone DEF Chain, Allocated
      <3> QED
        BY <2>1, <3>2 DEF ToCountDown
    <2>2. CASE ancestor[s] # NoScope
      BY <2>2, <1>0 DEF ToCountDown
    <2> QED
      BY <2>1, <2>2
  <1> DEFINE k(t) == Cardinality({o \in Owned : t \in Chain(o)})
  <1>15. \A t \in Allocated : references[t] = k(t) + ToCountDown(t)
    BY DEF Inv, HeapInv, Counted
  <1>16. \A t : k(t) \in Nat
    BY OwnedFinite, FS_CardinalityType DEF Inv
  <1> HIDE DEF k
  <1>17. \A t \in Allocated : references[t] \in Nat
    BY DEF Inv, TypeOK
  <1>5. \A t \in Allocated : /\ references[t] \in Nat /\ k(t) \in Nat
                            /\ references[t] = k(t) + ToCountDown(t)
    BY <1>15, <1>16, <1>17
  <1>6. references[s] \in Nat \ {0}
    BY <1>2, <1>3, <1>5
  <1>7. \A t \in Allocated : references'[t] = IF t = s THEN references[t] - 1 ELSE references[t]
    BY DEF Inv, TypeOK
  <1>8. Counted'
    <2> SUFFICES ASSUME NEW t \in Allocated
                 PROVE  references'[t] = Cardinality({o \in Owned : t \in Chain(o)}) + ToCountDown(t)'
      BY <1>0 DEF Counted
    <2>2. references'[t] = k(t) + ToCountDown(t)'
      BY <1>2, <1>3, <1>4, <1>5, <1>7
    <2> QED
      BY <2>2 DEF k
  <1>9. Rooted'
    <2>1. \A t \in Allocated : references'[t] > 0 => references[t] > 0
      BY <1>5, <1>6, <1>7
    <2> QED
      BY <1>0, <2>1 DEF Inv, HeapInv, Rooted
  <1>10. Dying'
    BY <1>0, <1>7 DEF Inv, HeapInv, Dying
  <1>11. Leaves'
    BY <1>0 DEF Inv, HeapInv, Leaves
  <1>12. WellFounded'
    <2>1. \A a \in Slots' : SlotScope(a)' = SlotScope(a)
      BY DEF SlotScope
    <2> QED
      BY <1>0, <2>1, ShrinkingSlots DEF Inv, HeapInv
  <1>13. Visible'
    BY DEF Inv, HeapInv, Visible
  <1>14. ancestor[s] \in Allocated \union {NoScope}
    BY <1>6 DEF Inv, HeapInv, Rooted
  <1> QED
    BY <1>1, <1>6, <1>8, <1>9, <1>10, <1>11, <1>12, <1>13, <1>14 DEF HeapInv

(* A frame that is not about a scope anybody owns: "up", "down" or "free". *)
LEMMA PlainFrame ==
    ASSUME NEW op \in {"up", "down", "free"}, NEW s \in Allocated, TypeOK
    PROVE  /\ Frame(op, s) \in FrameTypes /\ Frame(op, s).op = op /\ Frame(op, s).scope = s
           /\ Frame(op, s).at = {} /\ BusyBy(Frame(op, s)) = {}
           /\ \A i : HeldAt(i, Frame(op, s)) = {}
  <1>1. Frame(op, s) \in FrameTypes
    BY FrameType DEF FrameOps, TypeOK
  <1>2. Frame(op, s).op = op /\ Frame(op, s).scope = s /\ Frame(op, s).at = {}
    BY FrameFields
  <1>3. Holds(Frame(op, s)) = {}
    BY <1>2 DEF Holds
  <1>4. Slot(Frame(op, s)) = {}
    BY <1>2 DEF Slot
  <1> QED
    BY <1>1, <1>2, <1>3, <1>4 DEF BusyBy, HeldAt

(* The stack of the frames that count down.                                *)
LEMMA CountedDownStack ==
    ASSUME Inv, Running("down"), NEW s \in Allocated, Top.scope = s, NEW n, n = Len(calls),
           ancestor[s] \in Allocated \union {NoScope},
           NEW g, g = Frame("up", s), NEW h, h = Frame("down", ancestor[s]),
           calls' = IF ancestor[s] = NoScope THEN Append(Below, g) ELSE Append(Append(Below, g), h)
    PROVE  /\ calls' \in Seq(FrameTypes) /\ calls' # << >> /\ n \in DOMAIN calls' /\ calls'[n] = g
           /\ IF ancestor[s] = NoScope THEN Top' = g ELSE Top' = h
           /\ \A i \in DOMAIN calls' :
                  \/ i = n + 1 /\ i # n /\ ~(i < n) /\ calls'[i] = h /\ ancestor[s] \in Allocated
                  \/ i = n /\ calls'[i] = g
                  \/ i < n /\ i # n /\ i \in DOMAIN calls /\ calls'[i] = calls[i]
           /\ \A i \in DOMAIN calls : i # n => i \in DOMAIN calls' /\ calls'[i] = calls[i] /\ i < n
           /\ \A i \in 1..Len(calls') - 1 : i \in DOMAIN calls' /\ calls'[i].op # "down"
           /\ \A i \in 2..Len(calls') : i \in DOMAIN calls' /\ i > 1
           /\ 1 \in DOMAIN calls'
  <1>0. TypeOK /\ calls # << >> /\ Shape
    BY DEF Inv, StackInv, Running
  <1>1. /\ n \in Nat \ {0} /\ DOMAIN calls = 1..n
    BY <1>0, TopFacts
  <1>2. g \in FrameTypes /\ g.op = "up" /\ h.op = "down"
    BY <1>0, PlainFrame, FrameFields
  <1>3. \A i \in 1..n - 1 : calls[i].op # "down"
    BY <1>0 DEF Shape
  <1>4. CASE ancestor[s] = NoScope
    <2>1. /\ calls' \in Seq(FrameTypes) /\ calls' # << >> /\ Top' = g
          /\ Len(calls') = n /\ DOMAIN calls' = 1..n /\ calls'[n] = g
          /\ \A i \in 1..n - 1 : calls'[i] = calls[i]
      BY <1>0, <1>2, <1>4, ReplaceTop
    <2> QED
      BY ONLY <1>1, <1>2, <1>3, <1>4, <2>1
  <1>5. CASE ancestor[s] # NoScope
    <2>0. h \in FrameTypes /\ ancestor[s] \in Allocated
      BY <1>0, <1>5, PlainFrame
    <2>1. /\ calls' \in Seq(FrameTypes) /\ calls' # << >> /\ Top' = h
          /\ Len(calls') = n + 1 /\ DOMAIN calls' = 1..n + 1 /\ calls'[n] = g /\ calls'[n + 1] = h
          /\ \A i \in 1..n - 1 : calls'[i] = calls[i]
      BY <1>0, <1>2, <1>5, <2>0, PushTop
    <2>2. \A i \in DOMAIN calls' :
              \/ i = n + 1 /\ i # n /\ ~(i < n) /\ calls'[i] = h
              \/ i = n /\ calls'[i] = g
              \/ i < n /\ i # n /\ i \in DOMAIN calls /\ i \in 1..n - 1 /\ calls'[i] = calls[i]
      BY ONLY <1>1, <2>1
    <2>3. \A i \in DOMAIN calls : i # n => i \in DOMAIN calls' /\ calls'[i] = calls[i] /\ i < n
      BY ONLY <1>1, <2>1
    <2>4. /\ \A i \in 1..Len(calls') - 1 : i \in DOMAIN calls' /\ i # n + 1
          /\ \A i \in 2..Len(calls') : i \in DOMAIN calls' /\ i > 1
          /\ 1 \in DOMAIN calls' /\ n \in DOMAIN calls'
      BY ONLY <1>1, <2>1
    <2>5. \A i \in 1..Len(calls') - 1 : calls'[i].op # "down"
      BY <1>2, <1>3, <2>2, <2>4
    <2> QED
      BY <1>5, <2>0, <2>1, <2>2, <2>3, <2>4, <2>5
  <1> QED
    BY <1>4, <1>5

(* Counting down preserves the invariant, whether it goes on or has        *)
(* reached the outermost scope.                                            *)
LEMMA CountDownStep ==
    ASSUME Inv, CountDown
    PROVE  Inv'
  <1> DEFINE n == Len(calls)
             s == Top.scope
             g == Frame("up", s)
             h == Frame("down", ancestor[s])
  <1>0. /\ TypeOK /\ calls # << >> /\ Top.op = "down" /\ Running("down")
        /\ ancestor' = ancestor /\ variables' = variables
        /\ references' = [references EXCEPT ![s] = @ - 1]
        /\ calls' = IF ancestor[s] = NoScope THEN Append(Below, g) ELSE Append(Append(Below, g), h)
        /\ open' = open /\ hand' = hand /\ hidden' = hidden /\ fault' = fault
        /\ \A t : Chain(t)' = Chain(t) /\ Allocated' = Allocated
    BY DEF Inv, CountDown, Running, client, Chain, Allocated
  <1>1. /\ n \in Nat \ {0} /\ DOMAIN calls = 1..n /\ Top = calls[n] /\ n \in DOMAIN calls
    BY <1>0, TopFacts
  <1>2. s \in Allocated
    BY <1>0, <1>1 DEF Inv, StackInv, Unwinding
  <1>3. references[s] \in Nat \ {0} /\ ancestor[s] \in Allocated \union {NoScope}
    <2>1. references[s] \in Nat
      BY <1>2 DEF Inv, TypeOK
    <2>2. references[s] # 0
      <3> DEFINE k == Cardinality({o \in Owned : s \in Chain(o)})
      <3>1. references[s] = k + ToCountDown(s)
        BY <1>2 DEF Inv, HeapInv, Counted
      <3>2. k \in Nat
        BY OwnedFinite, FS_CardinalityType DEF Inv
      <3>3. ToCountDown(s) = 1
        BY <1>0, <1>2, EnclosingSelf DEF ToCountDown, Chain, Allocated
      <3> HIDE DEF k
      <3> QED
        BY <3>1, <3>2, <3>3
    <2>3. references[s] > 0
      BY <2>1, <2>2
    <2> QED
      BY <1>2, <2>1, <2>2, <2>3 DEF Inv, HeapInv, Rooted
  <1>4. /\ g.op = "up" /\ g.scope = s /\ BusyBy(g) = {} /\ \A i : HeldAt(i, g) = {}
        /\ h.op = "down" /\ h.scope = ancestor[s]
        /\ (ancestor[s] \in Allocated => BusyBy(h) = {} /\ \A i : HeldAt(i, h) = {})
    BY <1>0, <1>2, PlainFrame, FrameFields
  <1>5. /\ calls' \in Seq(FrameTypes) /\ calls' # << >> /\ n \in DOMAIN calls' /\ calls'[n] = g
        /\ IF ancestor[s] = NoScope THEN Top' = g ELSE Top' = h
        /\ \A i \in DOMAIN calls' :
               \/ i = n + 1 /\ i # n /\ ~(i < n) /\ calls'[i] = h /\ ancestor[s] \in Allocated
               \/ i = n /\ calls'[i] = g
               \/ i < n /\ i # n /\ i \in DOMAIN calls /\ calls'[i] = calls[i]
        /\ \A i \in DOMAIN calls : i # n => i \in DOMAIN calls' /\ calls'[i] = calls[i] /\ i < n
        /\ \A i \in 1..Len(calls') - 1 : i \in DOMAIN calls' /\ calls'[i].op # "down"
        /\ \A i \in 2..Len(calls') : i \in DOMAIN calls' /\ i > 1
        /\ 1 \in DOMAIN calls'
    BY <1>0, <1>2, <1>3, CountedDownStack
  <1>6. \A i \in DOMAIN calls :
            calls[i].op \in Frees \union {"replace"} /\ (i > 1 => calls[i].op \in Frees)
    BY <1>0, FreeingShape DEF Inv, StackInv, Frees
  <1>7. BusyBy(Top) = {} /\ \A i : HeldAt(i, Top) = {}
    BY <1>0 DEF BusyBy, HeldAt, Holds
  <1> HIDE DEF n, s, g, h
  <1>8. FrameClaims(calls') = FrameClaims(calls) /\ Busy' = Busy
    <2>1. FrameClaims(calls') = FrameClaims(calls)
      <3>1. \A i \in DOMAIN calls' : HeldAt(i, calls'[i]) # {} => i \in DOMAIN calls /\ calls[i] = calls'[i]
        BY <1>4, <1>5
      <3>2. \A i \in DOMAIN calls : HeldAt(i, calls[i]) # {} => i \in DOMAIN calls' /\ calls[i] = calls'[i]
        BY <1>1, <1>5, <1>7
      <3> QED
        BY <3>1, <3>2 DEF FrameClaims
    <2>2. BusyIn(calls') = BusyIn(calls)
      <3>1. \A i \in DOMAIN calls' : BusyBy(calls'[i]) # {} => i \in DOMAIN calls /\ calls[i] = calls'[i]
        BY <1>4, <1>5
      <3>2. \A i \in DOMAIN calls : BusyBy(calls[i]) # {} => i \in DOMAIN calls' /\ calls[i] = calls'[i]
        BY <1>1, <1>5, <1>7
      <3> QED
        BY <3>1, <3>2 DEF BusyIn
    <2> QED
      BY <2>1, <2>2, BusyIsIn
  <1>9. /\ Slots' = Slots /\ SlotClaims' = SlotClaims /\ Claims' = Claims
    BY <1>0, <1>8 DEF Slots, SlotClaims, SlotScope, OpenClaims, HandClaims, Claims
  <1>10. Owned' = Owned /\ EveryScopeHasOneOwner'
    <2>1. Owned' = Owned
      BY <1>9, OwnedIsScopes, OwnersNext
    <2> QED
      BY <1>0, <1>9, <2>1, OneOwner, OwnersNext DEF Inv, EveryScopeHasOneOwner
  <1>11. LeafScopes' \subseteq LeafScopes
    <2>1. calls'[1].op # "pop" => calls[1].op # "pop"
      BY <1>0, <1>1, <1>5
    <2>2. FrameClaims(calls)' = FrameClaims(calls)
      BY <1>8 DEF FrameClaims
    <2>3. calls[1].op = "pop" => calls'[1].op = "pop"
      <3>1. calls[1].op = "pop" => n # 1
        BY <1>0, <1>1
      <3>2. 1 \in DOMAIN calls
        BY <1>1
      <3> QED
        BY <1>5, <3>1, <3>2
    <2> QED
      BY <1>9, <2>1, <2>2, <2>3 DEF LeafScopes, Scopes
  <1>12. TypeOK'
    <2>1. references' \in [Allocated -> Nat]
      <3>1. references \in [Allocated -> Nat]
        BY <1>0 DEF TypeOK
      <3>2. references[s] - 1 \in Nat
        BY <1>3
      <3> QED
        BY <1>0, <3>1, <3>2
    <2> QED
      BY <1>0, <1>5, <2>1 DEF TypeOK
  <1>13. HeapInv'
    <2>1. IF ancestor[s] = NoScope THEN ~Running("down")'
          ELSE Running("down")' /\ Top'.scope = ancestor[s]
      BY <1>4, <1>5 DEF Running
    <2>2. \A i \in DOMAIN calls : calls[i].op \in {"up", "free"} => 
              i \in DOMAIN calls' /\ calls'[i] = calls[i]
      BY <1>0, <1>1, <1>5
    <2>3. \E j \in DOMAIN calls' : calls'[j].op \in {"up", "free"} /\ calls'[j].scope = s
      BY <1>4, <1>5
    <2>4. Top.scope = s
      BY DEF s
    <2> QED
      BY <1>0, <1>2, <1>9, <1>10, <1>11, <2>1, <2>2, <2>3, <2>4, CountedDownHeap
  <1>14. Shape' /\ Assigning' /\ Copied'
    <2>1. \/ calls'[1].op \in Frees
          \/ calls'[1] = calls[1] /\ calls[1].op = "replace"
      BY <1>4, <1>5, <1>6 DEF Frees
    <2>2. \A i \in 2..Len(calls') : calls'[i].op \in Frees
      BY <1>4, <1>5, <1>6 DEF Frees
    <2>4. Top'.op \notin {"pop", "free"}
      BY <1>4, <1>5
    <2>5. calls[1].op = "replace" => Slot(calls[1]) \subseteq DOMAIN variables
      BY <1>0 DEF Inv, StackInv, Assigning, AssigningOn, Sets, Slot
    <2> QED
      BY <1>0, <1>5, <1>12, <2>1, <2>2, <2>4, <2>5, FreeingStack
  <1>15. Unwinding'
    <2>0. \A t \in Allocated : references[t] = 0 => t # s /\ references'[t] = 0
      <3>1. \A t \in Allocated : t # s => references'[t] = references[t]
        BY <1>0 DEF TypeOK
      <3> QED
        BY <1>3, <3>1
    <2>1. \A i \in DOMAIN calls : calls[i].op \in {"up", "free"} => calls[i].scope \in Allocated /\ i # n
      BY <1>0, <1>1 DEF Inv, StackInv, Unwinding
    <2>2. \A i \in DOMAIN calls : calls[i].op \in {"up", "free"} => calls[i].scope # s
      <3> SUFFICES ASSUME NEW i \in DOMAIN calls, calls[i].op \in {"up", "free"}, calls[i].scope = s
                   PROVE  FALSE
        OBVIOUS
      <3>1. i < n
        BY <1>5, <2>1
      <3>3. references[s] # 0
        BY ONLY <1>3
      <3>2. s \in Chain(ancestor[s])
        BY <1>0, <1>1, <3>1, <3>3 DEF Inv, StackInv, Unwinding, s
      <3> QED
        BY <1>2, <3>2 DEF Inv, HeapInv, Acyclic
    <2>3. \A i \in DOMAIN calls' : calls'[i].op \in {"down", "up", "free"} => calls'[i].scope \in Allocated'
      <3>1. \A i \in DOMAIN calls : calls[i].op \in {"down", "up", "free"} => calls[i].scope \in Allocated
        BY DEF Inv, StackInv, Unwinding
      <3>2. \A i \in DOMAIN calls' : calls'[i].op \in {"down", "up", "free"} => calls'[i].scope \in Allocated
        BY ONLY <1>2, <1>4, <1>5, <3>1
      <3> QED
        BY <1>0, <3>2
    <2>4. \A i \in DOMAIN calls' : calls'[i].op = "free" => references'[calls'[i].scope] = 0
      <3>1. \A i \in DOMAIN calls : calls[i].op = "free" => references[calls[i].scope] = 0
        BY DEF Inv, StackInv, Unwinding
      <3>2. \A i \in DOMAIN calls' : calls'[i].op = "free" => i \in DOMAIN calls /\ calls'[i] = calls[i]
        BY ONLY <1>4, <1>5
      <3> QED
        BY <2>0, <2>1, <3>1, <3>2
    <2>5. \A i, j \in DOMAIN calls' : i < j /\ calls'[i].op \in {"up", "free"} =>
              \/ references'[calls'[i].scope] = 0
              \/ /\ calls'[i].op = "up" /\ calls'[j].op \in {"up", "down"}
                 /\ calls'[j].scope \in Chain(ancestor[calls'[i].scope])
      <3> SUFFICES ASSUME NEW i \in DOMAIN calls', NEW j \in DOMAIN calls', i < j,
                          calls'[i].op \in {"up", "free"}, references'[calls'[i].scope] # 0
                   PROVE  /\ calls'[i].op = "up" /\ calls'[j].op \in {"up", "down"}
                          /\ calls'[j].scope \in Chain(ancestor[calls'[i].scope])
        OBVIOUS
      <3>1. CASE i < n
        <4>1. i \in DOMAIN calls /\ calls'[i] = calls[i] /\ references[calls[i].scope] # 0
          BY <1>5, <2>0, <2>1, <3>1
        <4>2. calls[i].op = "up" /\ s \in Chain(ancestor[calls[i].scope])
          BY <1>0, <1>1, <3>1, <4>1 DEF Inv, StackInv, Unwinding, s
        <4>3. CASE j < n
          <5>1. j \in DOMAIN calls /\ calls'[j] = calls[j]
            BY <1>5, <4>3
          <5> QED
            BY <4>1, <5>1 DEF Inv, StackInv, Unwinding
        <4>4. CASE j = n
          BY <1>4, <1>5, <4>1, <4>2, <4>4
        <4>5. CASE calls'[j] = h /\ ancestor[s] \in Allocated
          <5>1. ancestor[s] \in Chain(ancestor[calls[i].scope])
            BY <4>2, <4>5, EnclosingClosed DEF Chain, Allocated
          <5> QED
            BY <1>4, <4>1, <4>2, <4>5, <5>1
        <4> QED
          BY <1>5, <4>3, <4>4, <4>5
      <3>2. CASE ~(i < n)
        <4>1. i = n /\ calls'[i] = g
          BY <1>4, <1>5, <3>2
        <4>2. calls'[j] = h /\ ancestor[s] \in Allocated
          BY <1>1, <1>5, <4>1
        <4>3. ancestor[s] \in Chain(ancestor[s])
          BY <4>2, EnclosingSelf DEF Chain, Allocated
        <4> QED
          BY <1>4, <4>1, <4>2, <4>3
      <3> QED
        BY <3>1, <3>2
    <2>6. \A i, j \in DOMAIN calls' :
              calls'[i].op \in {"up", "free"} /\ calls'[j].op \in {"up", "free"}
                 /\ calls'[i].scope = calls'[j].scope => i = j
      <3>1. \A i \in DOMAIN calls' : calls'[i].op \in {"up", "free"} =>
                \/ i = n /\ calls'[i].scope = s
                \/ i \in DOMAIN calls /\ calls'[i] = calls[i] /\ calls[i].scope # s
        BY <1>4, <1>5, <2>2
      <3> QED
        BY <3>1 DEF Inv, StackInv, Unwinding
    <2> QED
      BY <1>0, <2>3, <2>4, <2>5, <2>6 DEF Unwinding
  <1>16. FreedOnlyWhenAssigned'
    <2>1. \A slot \in DOMAIN variables : variables[slot].value.kind # "freed"
      BY <1>1, <1>6 DEF Inv, FreedOnlyWhenAssigned, Frees
    <2> QED
      BY <1>0, <2>1 DEF FreedOnlyWhenAssigned
  <1> QED
    BY <1>10, <1>12, <1>13, <1>14, <1>15, <1>16 DEF Inv, StackInv

-----------------------------------------------------------------------------
(* freeAncestorChain: on its way back.                                     *)

(* A scope that is needed has a descendant that somebody owns.             *)
LEMMA NeededIsOwned ==
    ASSUME Inv, ~Running("down"), NEW t \in Allocated, references[t] # 0
    PROVE  \E o \in Owned : t \in Chain(o)
  <1> DEFINE S == {o \in Owned : t \in Chain(o)}
  <1>1. references[t] = Cardinality(S) + 0
    BY DEF Inv, HeapInv, Counted, ToCountDown
  <1>2. IsFiniteSet(S)
    BY OwnedFinite DEF Inv
  <1>3. S # {}
    <2> HIDE DEF S
    <2>1. Cardinality(S) \in Nat
      BY <1>2, FS_CardinalityType
    <2> QED
      BY <1>1, <1>2, <2>1, CardinalityPositive
  <1> QED
    BY <1>3

(* If nobody needs a scope, nobody needs its descendants.                  *)
LEMMA UnneededBelow ==
    ASSUME Inv, ~Running("down"), NEW t \in Allocated, NEW s \in Chain(ancestor[t]), references[s] = 0
    PROVE  references[t] = 0
  <1> SUFFICES ASSUME references[t] # 0 PROVE FALSE
    OBVIOUS
  <1>1. PICK o \in Owned : t \in Chain(o)
    BY NeededIsOwned
  <1>2. ancestor[t] \in Allocated
    BY EnclosingNone DEF Chain, Allocated
  <1>3. ancestor[t] \in Chain(o)
    BY <1>1, <1>2, EnclosingClosed DEF Chain, Allocated
  <1>4. s \in Chain(o)
    BY <1>3, EnclosingTransitive DEF Chain
  <1> QED
    BY <1>4, OwnedPositive

(* A scope that nobody needs begins to free its values.                    *)
LEMMA ReleaseStarts ==
    ASSUME Inv, Running("up"), references[Top.scope] = 0,
           calls' = Append(Below, Frame("free", Top.scope)),
           UNCHANGED <<heap, client, hidden, fault>>
    PROVE  Inv'
  <1> DEFINE n == Len(calls)
             s == Top.scope
             g == Frame("free", s)
  <1>0. /\ TypeOK /\ calls # << >> /\ Top.op = "up" /\ ~Running("down")
        /\ references' = references /\ ancestor' = ancestor /\ variables' = variables
        /\ open' = open /\ hand' = hand /\ hidden' = hidden /\ fault' = fault
        /\ \A t : Chain(t)' = Chain(t) /\ Allocated' = Allocated
    BY DEF Inv, Running, heap, client, Chain, Allocated
  <1>1. /\ n \in Nat \ {0} /\ DOMAIN calls = 1..n /\ Top = calls[n] /\ n \in DOMAIN calls
    BY <1>0, TopFacts
  <1>2. s \in Allocated
    BY <1>0, <1>1 DEF Inv, StackInv, Unwinding
  <1>3. /\ g \in FrameTypes /\ g.op = "free" /\ g.scope = s /\ g.at = {}
        /\ BusyBy(g) = {} /\ \A i : HeldAt(i, g) = {}
    BY <1>0, <1>2, PlainFrame
  <1> HIDE DEF g
  <1>4. /\ calls' \in Seq(FrameTypes) /\ calls' # << >> /\ Top' = g /\ Len(calls') = n
        /\ DOMAIN calls' = 1..n /\ calls'[n] = g
        /\ \A i \in 1..n - 1 : calls'[i] = calls[i]
    BY <1>0, <1>3, ReplaceTop DEF g
  <1>5. \A i \in DOMAIN calls :
            calls[i].op \in Frees \union {"replace"} /\ (i > 1 => calls[i].op \in Frees)
    BY <1>0, FreeingShape DEF Inv, StackInv, Frees
  <1>6. BusyBy(Top) = {} /\ \A i : HeldAt(i, Top) = {}
    BY <1>0 DEF BusyBy, HeldAt, Holds
  <1> HIDE DEF n, s
  <1>17. \A i \in DOMAIN calls : i = n \/ (i < n /\ i # n /\ i \in 1..n - 1)
    BY <1>1
  <1>18. DOMAIN calls' = DOMAIN calls
    BY <1>1, <1>4
  <1>7. /\ FrameClaims(calls') = FrameClaims(calls) /\ Busy' = Busy
    <2>1. \A i \in DOMAIN calls : HeldAt(i, calls'[i]) = HeldAt(i, calls[i]) /\ BusyBy(calls'[i]) = BusyBy(calls[i])
      BY <1>1, <1>3, <1>4, <1>6, <1>17
    <2>2. DOMAIN calls' = DOMAIN calls
      BY <1>1, <1>4
    <2> QED
      BY <2>1, <2>2, BusyIsIn DEF FrameClaims, BusyIn
  <1>8. /\ Slots' = Slots /\ SlotClaims' = SlotClaims /\ Claims' = Claims
    BY <1>0, <1>7 DEF Slots, SlotClaims, SlotScope, OpenClaims, HandClaims, Claims
  <1>9. Owned' = Owned /\ EveryScopeHasOneOwner'
    <2>1. Owned' = Owned
      BY <1>8, OwnedIsScopes, OwnersNext
    <2> QED
      BY <1>0, <1>8, <2>1, OneOwner, OwnersNext DEF Inv, EveryScopeHasOneOwner
  <1>10. LeafScopes' \subseteq LeafScopes
    <2>1. calls'[1].op = "pop" <=> calls[1].op = "pop"
      <3>1. 1 \in DOMAIN calls
        BY <1>1
      <3> QED
        BY <1>0, <1>1, <1>3, <1>4, <1>17, <3>1
    <2>2. FrameClaims(calls)' = FrameClaims(calls)
      BY <1>7 DEF FrameClaims
    <2> QED
      BY <1>8, <2>1, <2>2 DEF LeafScopes, Scopes
  <1>11. TypeOK'
    BY <1>0, <1>4 DEF TypeOK
  <1>12. HeapInv'
    <2>1. ~Running("down")'
      BY <1>3, <1>4 DEF Running
    <2>2. \A i \in DOMAIN calls : calls[i].op \in {"up", "free"} =>
              i \in DOMAIN calls' /\ calls'[i].op \in {"up", "free"} /\ calls'[i].scope = calls[i].scope
      BY <1>1, <1>3, <1>4, <1>17, <1>18 DEF s
    <2> QED
      BY <1>0, <1>8, <1>9, <1>10, <2>1, <2>2, QuietHeap
  <1>13. Shape' /\ Assigning' /\ Copied'
    <2>1. \/ calls'[1].op \in Frees
          \/ calls'[1] = calls[1] /\ calls[1].op = "replace"
      <3>1. 1 \in DOMAIN calls
        BY <1>1
      <3> QED
        BY <1>3, <1>4, <1>5, <1>17, <3>1 DEF Frees
    <2>2. \A i \in 2..Len(calls') : calls'[i].op \in Frees
      <3>1. \A i \in 2..Len(calls') : i \in DOMAIN calls /\ i > 1
        BY <1>1, <1>4
      <3> QED
        BY <1>3, <1>4, <1>5, <1>17, <3>1 DEF Frees
    <2>3. \A i \in 1..Len(calls') - 1 : calls'[i].op # "down"
      BY <1>4 DEF Inv, StackInv, Shape, n
    <2>4. Top'.at = {}
      BY <1>3, <1>4
    <2>5. calls[1].op = "replace" => Slot(calls[1]) \subseteq DOMAIN variables
      BY <1>0 DEF Inv, StackInv, Assigning, AssigningOn, Sets, Slot
    <2> QED
      BY <1>0, <1>4, <1>11, <2>1, <2>2, <2>3, <2>4, <2>5, FreeingStack
  <1>14. Unwinding'
    <2>1. \A i \in DOMAIN calls : calls[i].op \in {"up", "free"} => references[calls[i].scope] = 0
      <3> SUFFICES ASSUME NEW i \in DOMAIN calls, calls[i].op \in {"up", "free"}, i < n
                   PROVE  references[calls[i].scope] = 0
        BY <1>1, <1>17 DEF s
      <3>1. \/ references[calls[i].scope] = 0
            \/ calls[n].scope \in Chain(ancestor[calls[i].scope])
        BY <1>1 DEF Inv, StackInv, Unwinding
      <3>2. calls[i].scope \in Allocated
        BY DEF Inv, StackInv, Unwinding
      <3> QED
        BY <1>0, <1>1, <3>1, <3>2, UnneededBelow
    <2>2. \A i \in DOMAIN calls' : calls'[i].op \in {"down", "up", "free"} =>
              /\ i \in DOMAIN calls /\ calls[i].op \in {"down", "up", "free"}
              /\ calls'[i].scope = calls[i].scope
              /\ (calls'[i].op \in {"up", "free"} <=> calls[i].op \in {"up", "free"})
      BY <1>0, <1>1, <1>3, <1>4, <1>17, <1>18 DEF s
    <2>3. \A i \in DOMAIN calls' : calls'[i].op \in {"down", "up", "free"} => calls'[i].scope \in Allocated'
      BY <1>0, <2>2 DEF Inv, StackInv, Unwinding
    <2>4. \A i \in DOMAIN calls' : calls'[i].op \in {"up", "free"} => references'[calls'[i].scope] = 0
      BY <1>0, <2>1, <2>2
    <2>5. \A i, j \in DOMAIN calls' :
              calls'[i].op \in {"up", "free"} /\ calls'[j].op \in {"up", "free"}
                 /\ calls'[i].scope = calls'[j].scope => i = j
      <3>1. \A i, j \in DOMAIN calls :
              calls[i].op \in {"up", "free"} /\ calls[j].op \in {"up", "free"}
                 /\ calls[i].scope = calls[j].scope => i = j
        BY DEF Inv, StackInv, Unwinding
      <3> QED
        BY <2>2, <3>1
    <2> QED
      BY <2>3, <2>4, <2>5 DEF Unwinding
  <1>15. FreedOnlyWhenAssigned'
    <2>1. \A slot \in DOMAIN variables : variables[slot].value.kind # "freed"
      BY <1>1, <1>5 DEF Inv, FreedOnlyWhenAssigned, Frees
    <2> QED
      BY <1>0, <2>1 DEF FreedOnlyWhenAssigned
  <1> QED
    BY <1>9, <1>11, <1>12, <1>13, <1>14, <1>15 DEF Inv, StackInv

(* What the frame that waited for the pop has freed.                       *)
Cleared == IF Len(calls) = 1 THEN {} ELSE BusyBy(calls[Len(calls) - 1])

(* The frames that remain when the one that runs is dropped.               *)
LEMMA BackIndex ==
    ASSUME NEW n \in Nat \ {0}, n # 1, NEW old, NEW new, NEW g,
           DOMAIN old = 1..n, DOMAIN new = 1..n - 1,
           new[n - 1] = g, \A i \in 1..n - 2 : new[i] = old[i]
    PROVE  /\ \A i \in DOMAIN new :
                  /\ i \in DOMAIN old /\ i # n /\ i < n
                  /\ (i = n - 1 /\ new[i] = g) \/ (i # n - 1 /\ new[i] = old[i])
           /\ \A i \in DOMAIN old : i # n => i \in DOMAIN new /\ i < n
           /\ n - 1 \in DOMAIN new /\ n - 1 \in DOMAIN old /\ 1 \in DOMAIN new
  OBVIOUS

(* What the frame that waited does when a pop is over.                     *)
LEMMA ReturnedStack ==
    ASSUME Inv, Running("up") \/ Running("free"), calls' = Returned(Below), NEW n, n = Len(calls)
    PROVE  /\ calls' \in Seq(FrameTypes) /\ (calls' = << >> <=> n = 1)
           /\ calls' # << >> => /\ n - 1 \in DOMAIN calls' /\ Top' = calls'[n - 1]
                                /\ 1 \in DOMAIN calls' /\ 1 # n
           /\ Len(calls') = n - 1
           /\ \A i \in DOMAIN calls' :
                  /\ i \in DOMAIN calls /\ i # n /\ i < n
                  /\ calls'[i].scope = calls[i].scope /\ calls'[i].value = calls[i].value
                  /\ calls'[i].old = calls[i].old
                  /\ calls'[i].op = IF i = n - 1 /\ calls[i].op = "replace" THEN "assign" ELSE calls[i].op
                  /\ calls'[i].at = IF i = n - 1 /\ calls[i].op \in {"pop", "free"} THEN {} ELSE calls[i].at
                  /\ i # n - 1 => calls'[i] = calls[i]
           /\ \A i \in DOMAIN calls : i # n => i \in DOMAIN calls' /\ i < n
  <1>0. TypeOK /\ calls # << >>
    BY DEF Inv, Running
  <1>1. /\ n \in Nat \ {0} /\ DOMAIN calls = 1..n /\ Below \in Seq(FrameTypes)
        /\ Len(Below) = n - 1 /\ \A i \in 1..n : calls[i] \in FrameTypes
    BY <1>0, TopFacts
  <1>2. CASE n = 1
    <2>1. Below = << >>
      BY <1>1, <1>2
    <2>2. calls' = << >>
      BY <2>1 DEF Returned
    <2>3. Len(calls') = n - 1 /\ DOMAIN calls' = {} /\ calls' \in Seq(FrameTypes)
      BY <1>2, <2>2
    <2>4. DOMAIN calls = {n}
      BY <1>1, <1>2
    <2> QED
      BY <1>2, <2>2, <2>3, <2>4
  <1>3. CASE n # 1
    <2> DEFINE f == calls[n - 1]
               g == IF f.op \in {"pop", "free"} THEN [f EXCEPT !.at = {}]
                    ELSE IF f.op = "replace" THEN [f EXCEPT !.op = "assign"]
                    ELSE f
    <2>1. Below # << >> /\ Last(Below) = f /\ Below = Append(Front(Below), Last(Below))
      BY <1>0, <1>1, <1>3, BelowTop
    <2>2. f \in FrameTypes
      BY <1>1, <1>3
    <2>3. /\ g \in FrameTypes
          /\ g.scope = f.scope /\ g.value = f.value /\ g.old = f.old
          /\ g.op = IF f.op = "replace" THEN "assign" ELSE f.op
          /\ g.at = IF f.op \in {"pop", "free"} THEN {} ELSE f.at
      <3> HIDE DEF f
      <3> QED
        BY <2>2 DEF FrameTypes
    <2>4. calls' = Append(Front(Below), g)
      <3>1. Returned(Below) =
                CASE f.op \in {"pop", "free"} -> Append(Front(Below), [f EXCEPT !.at = {}])
                  [] f.op = "replace" -> Append(Front(Below), [f EXCEPT !.op = "assign"])
                  [] OTHER -> Below
        BY <2>1 DEF Returned
      <3> QED
        BY <2>1, <3>1
    <2> HIDE DEF g
    <2>5. /\ calls' \in Seq(FrameTypes) /\ calls' # << >> /\ Top' = g
          /\ Len(calls') = n - 1 /\ DOMAIN calls' = 1..n - 1
          /\ calls'[n - 1] = g /\ \A i \in 1..n - 2 : calls'[i] = calls[i]
      BY <1>0, <1>1, <1>3, <2>3, <2>4, AnswerTop
    <2>6. /\ \A i \in DOMAIN calls' :
                 /\ i \in DOMAIN calls /\ i # n /\ i < n
                 /\ (i = n - 1 /\ calls'[i] = g) \/ (i # n - 1 /\ calls'[i] = calls[i])
          /\ \A i \in DOMAIN calls : i # n => i \in DOMAIN calls' /\ i < n
          /\ n - 1 \in DOMAIN calls' /\ n - 1 \in DOMAIN calls /\ 1 \in DOMAIN calls'
      BY ONLY <1>1, <1>3, <2>5, BackIndex
    <2>7. \A i \in DOMAIN calls' :
              /\ i \in DOMAIN calls /\ i # n /\ i < n
              /\ calls'[i].scope = calls[i].scope /\ calls'[i].value = calls[i].value
              /\ calls'[i].old = calls[i].old
              /\ calls'[i].op = IF i = n - 1 /\ calls[i].op = "replace" THEN "assign" ELSE calls[i].op
              /\ calls'[i].at = IF i = n - 1 /\ calls[i].op \in {"pop", "free"} THEN {} ELSE calls[i].at
              /\ i # n - 1 => calls'[i] = calls[i]
      <3> SUFFICES ASSUME NEW i \in DOMAIN calls'
                   PROVE  /\ i \in DOMAIN calls /\ i # n /\ i < n
                          /\ calls'[i].scope = calls[i].scope /\ calls'[i].value = calls[i].value
                          /\ calls'[i].old = calls[i].old
                          /\ calls'[i].op = IF i = n - 1 /\ calls[i].op = "replace" THEN "assign" ELSE calls[i].op
                          /\ calls'[i].at = IF i = n - 1 /\ calls[i].op \in {"pop", "free"} THEN {} ELSE calls[i].at
                          /\ i # n - 1 => calls'[i] = calls[i]
        OBVIOUS
      <3>1. CASE i = n - 1 /\ calls'[i] = g
        BY ONLY <2>3, <2>6, <3>1 DEF f
      <3>2. CASE i # n - 1 /\ calls'[i] = calls[i]
        BY ONLY <2>6, <3>2
      <3> QED
        BY <2>6, <3>1, <3>2
    <2> QED
      BY <1>3, <2>5, <2>6, <2>7
  <1> QED
    BY <1>2, <1>3

(* What becomes of the entry whose value was freed.                        *)
LEMMA SettledEntries ==
    ASSUME Inv, Running("up") \/ Running("free"), NEW entries, variables' = Settled(Below, entries),
           DOMAIN entries \subseteq DOMAIN variables,
           \A slot \in DOMAIN entries : entries[slot] = variables[slot]
    PROVE  /\ DOMAIN variables' = DOMAIN entries
           /\ \A slot \in DOMAIN entries :
                  /\ variables'[slot] \in [type : Types, value : ValueTypes]
                  /\ variables'[slot].type = variables[slot].type
                  /\ slot \notin Cleared => variables'[slot] = variables[slot]
                  /\ slot \in Cleared =>
                        /\ variables'[slot].value.scope = NoScope
                        /\ \/ variables'[slot].value.kind \in {variables[slot].value.kind, "null"}
                           \/ /\ variables'[slot].value.kind = "freed"
                              /\ calls[Len(calls) - 1].op = "replace"
  <1> DEFINE n == Len(calls)
  <1>0. TypeOK /\ calls # << >>
    BY DEF Inv, Running
  <1>1. /\ n \in Nat \ {0} /\ Below \in Seq(FrameTypes) /\ Len(Below) = n - 1
    BY <1>0, TopFacts
  <1>2. \A slot \in DOMAIN variables : variables[slot] \in [type : Types, value : ValueTypes]
    BY <1>0 DEF TypeOK
  <1>3. CASE n = 1
    <2>1. Below = << >>
      BY <1>1, <1>3
    <2>2. variables' = entries /\ Cleared = {}
      BY <1>3, <2>1 DEF Settled, Cleared
    <2> QED
      BY <1>2, <2>2
  <1>4. CASE n # 1
    <2> DEFINE f == calls[n - 1]
    <2>1. Below # << >> /\ Last(Below) = f
      BY <1>0, <1>1, <1>4, BelowTop
    <2>2. Cleared = BusyBy(f)
      BY <1>4 DEF Cleared
    <2>3. Settled(Below, entries) =
              IF f.op \notin {"pop", "free", "replace"} THEN entries
              ELSE [slot \in DOMAIN entries |->
                       IF slot \in Slot(f)
                       THEN [entries[slot] EXCEPT !.value = AfterPop(f, @)]
                       ELSE entries[slot]]
      BY <2>1 DEF Settled
    <2>4. calls[Len(calls) - 1] = f
      OBVIOUS
    <2> HIDE DEF f, n
    <2>5. CASE f.op \notin {"pop", "free", "replace"}
      BY <1>2, <2>2, <2>3, <2>5 DEF BusyBy
    <2>6. CASE f.op \in {"pop", "free", "replace"}
      <3>1. DOMAIN variables' = DOMAIN entries /\ Cleared = Slot(f)
        BY <2>2, <2>3, <2>6 DEF BusyBy
      <3>2. ASSUME NEW slot \in DOMAIN entries
            PROVE  /\ variables'[slot] \in [type : Types, value : ValueTypes]
                   /\ variables'[slot].type = variables[slot].type
                   /\ slot \notin Slot(f) => variables'[slot] = variables[slot]
                   /\ slot \in Slot(f) =>
                        /\ variables'[slot].value.scope = NoScope
                        /\ \/ variables'[slot].value.kind \in {variables[slot].value.kind, "null"}
                           \/ variables'[slot].value.kind = "freed" /\ f.op = "replace"
        <4>1. variables[slot] \in [type : Types, value : ValueTypes] /\ entries[slot] = variables[slot]
          BY <1>2
        <4>2. variables'[slot] = IF slot \in Slot(f)
                                 THEN [variables[slot] EXCEPT !.value = AfterPop(f, variables[slot].value)]
                                 ELSE variables[slot]
          BY <2>3, <2>6, <4>1
        <4> DEFINE v == variables[slot].value
        <4>3. v \in ValueTypes /\ variables[slot].type \in Types
          BY <4>1
        <4> HIDE DEF v
        <4>4. /\ AfterPop(f, v) \in ValueTypes /\ AfterPop(f, v).scope = NoScope
              /\ \/ AfterPop(f, v).kind \in {v.kind, "null"}
                 \/ AfterPop(f, v).kind = "freed" /\ f.op = "replace"
          <5>1. CASE f.op = "pop"
            <6>1. AfterPop(f, v) = [v EXCEPT !.scope = NoScope]
              BY <5>1 DEF AfterPop
            <6> QED
              BY <4>3, <6>1 DEF ValueTypes
          <5>2. CASE f.op = "free"
            <6>1. AfterPop(f, v) = Null
              BY <5>2 DEF AfterPop
            <6> QED
              BY <6>1 DEF ValueTypes, Null, Value, Kinds
          <5>3. CASE f.op = "replace"
            <6>1. AfterPop(f, v) = Freed
              BY <5>3 DEF AfterPop
            <6> QED
              BY <5>3, <6>1 DEF ValueTypes, Freed, Value, Kinds
          <5> QED
            BY <2>6, <5>1, <5>2, <5>3
        <4>5. CASE slot \notin Slot(f)
          BY <4>1, <4>2, <4>5
        <4>6. CASE slot \in Slot(f)
          <5>1. /\ variables'[slot] \in [type : Types, value : ValueTypes]
                /\ variables'[slot].type = variables[slot].type
                /\ variables'[slot].value = AfterPop(f, v)
            <6>1. variables'[slot] = [variables[slot] EXCEPT !.value = AfterPop(f, v)]
              BY <4>2, <4>6 DEF v
            <6> QED
              BY <4>1, <4>4, <6>1
          <5> QED
            BY <4>4, <4>6, <5>1 DEF v
        <4> QED
          BY <4>5, <4>6
      <3>3. /\ \A slot \in DOMAIN entries :
                   /\ variables'[slot] \in [type : Types, value : ValueTypes]
                   /\ variables'[slot].type = variables[slot].type
                   /\ slot \notin Slot(f) => variables'[slot] = variables[slot]
                   /\ slot \in Slot(f) =>
                        /\ variables'[slot].value.scope = NoScope
                        /\ \/ variables'[slot].value.kind \in {variables[slot].value.kind, "null"}
                           \/ variables'[slot].value.kind = "freed" /\ f.op = "replace"
        BY <3>2
      <3> QED
        BY <2>4, <3>1, <3>3
    <2> QED
      BY <2>5, <2>6
  <1> QED
    BY <1>3, <1>4

(* The frames own what they owned, and the entry whose value was freed is  *)
(* not being freed any more.                                               *)
LEMMA ReturnedClaims ==
    ASSUME Inv, Running("up") \/ Running("free"), calls' = Returned(Below)
    PROVE  /\ FrameClaims(calls') = FrameClaims(calls)
           /\ Busy = Busy' \union Cleared
  <1> DEFINE n == Len(calls)
  <1>0. TypeOK /\ calls # << >>
    BY DEF Inv, Running
  <1>1. /\ n \in Nat \ {0} /\ DOMAIN calls = 1..n /\ Top = calls[n]
    BY <1>0, TopFacts
  <1>2. /\ (calls' = << >> <=> n = 1)
        /\ calls' # << >> => n - 1 \in DOMAIN calls'
        /\ \A i \in DOMAIN calls' :
               /\ i \in DOMAIN calls /\ i # n
               /\ calls'[i].scope = calls[i].scope /\ calls'[i].old = calls[i].old
               /\ calls'[i].op = IF i = n - 1 /\ calls[i].op = "replace" THEN "assign" ELSE calls[i].op
               /\ calls'[i].at = IF i = n - 1 /\ calls[i].op \in {"pop", "free"} THEN {} ELSE calls[i].at
               /\ i # n - 1 => calls'[i] = calls[i]
        /\ \A i \in DOMAIN calls : i # n => i \in DOMAIN calls'
    BY ReturnedStack
  <1>3. BusyBy(Top) = {} /\ \A i : HeldAt(i, Top) = {}
    <2>1. Top.op = "up" \/ (Top.op = "free" /\ Top.at = {})
      BY DEF Inv, StackInv, Shape, Running
    <2> HIDE DEF Top
    <2>2. BusyBy(Top) = {}
      BY <2>1 DEF BusyBy, Slot
    <2>3. Holds(Top) = {}
      BY <2>1 DEF Holds
    <2> QED
      BY <2>2, <2>3 DEF HeldAt
  <1>4. Cleared = IF n = 1 THEN {} ELSE BusyBy(calls[n - 1])
    BY DEF Cleared
  <1> HIDE DEF n
  <1>5. \A i \in DOMAIN calls' : HeldAt(i, calls'[i]) = HeldAt(i, calls[i])
    <2> SUFFICES ASSUME NEW i \in DOMAIN calls' PROVE Holds(calls'[i]) = Holds(calls[i])
      BY DEF HeldAt
    <2> DEFINE f == calls[i]
               g == calls'[i]
    <2>1. /\ calls'[i].scope = calls[i].scope /\ calls'[i].old = calls[i].old
          /\ calls'[i].op = IF i = n - 1 /\ calls[i].op = "replace" THEN "assign" ELSE calls[i].op
      BY <1>2
    <2>3. g.scope = f.scope /\ g.old = f.old /\ (g.op = f.op \/ (f.op = "replace" /\ g.op = "assign"))
      BY ONLY <2>1 DEF f, g
    <2> HIDE DEF f, g
    <2>2. Holds(g) = Holds(f)
      BY <2>3 DEF Holds
    <2> QED
      BY <2>2 DEF f, g
  <1>6. \A i \in DOMAIN calls' : BusyBy(calls'[i]) = IF i = n - 1 THEN {} ELSE BusyBy(calls[i])
    <2> SUFFICES ASSUME NEW i \in DOMAIN calls', i = n - 1 PROVE BusyBy(calls'[i]) = {}
      BY <1>2
    <2> DEFINE f == calls[i]
               g == calls'[i]
    <2>1. \/ g.op = "assign" \/ g.at = {} \/ g.op \notin {"pop", "free", "replace"}
      BY <1>2
    <2> HIDE DEF f, g
    <2>2. BusyBy(g) = {}
      BY <2>1 DEF BusyBy, Slot
    <2> QED
      BY <2>2 DEF g
  <1>7. FrameClaims(calls') = FrameClaims(calls)
    <2>1. \A p : (\E i \in DOMAIN calls' : p \in HeldAt(i, calls'[i])) <=> (\E i \in DOMAIN calls : p \in HeldAt(i, calls[i]))
      BY <1>1, <1>2, <1>3, <1>5
    <2> QED
      BY <2>1 DEF FrameClaims
  <1>8. BusyIn(calls) = BusyIn(calls') \union Cleared
    <2> SUFFICES ASSUME NEW p
                 PROVE  (\E i \in DOMAIN calls : p \in BusyBy(calls[i])) <=>
                            (\E i \in DOMAIN calls' : p \in BusyBy(calls'[i])) \/ p \in Cleared
      BY DEF BusyIn
    <2>1. ASSUME NEW i \in DOMAIN calls, p \in BusyBy(calls[i])
          PROVE  (\E j \in DOMAIN calls' : p \in BusyBy(calls'[j])) \/ p \in Cleared
      <3>1. i # n /\ i \in DOMAIN calls' /\ n # 1
        BY <1>1, <1>2, <1>3, <2>1
      <3> QED
        BY <1>4, <1>6, <2>1, <3>1
    <2>2. ASSUME NEW i \in DOMAIN calls', p \in BusyBy(calls'[i])
          PROVE  \E j \in DOMAIN calls : p \in BusyBy(calls[j])
      BY <1>2, <1>6, <2>2
    <2>3. ASSUME p \in Cleared PROVE \E j \in DOMAIN calls : p \in BusyBy(calls[j])
      <3>1. n # 1 /\ p \in BusyBy(calls[n - 1])
        BY <1>4, <2>3
      <3>2. n - 1 \in DOMAIN calls
        BY <1>2, <3>1
      <3> QED
        BY <3>1, <3>2
    <2> QED
      BY <2>1, <2>2, <2>3
  <1> QED
    BY <1>7, <1>8, BusyIsIn

(* A freeAncestorChain ends; the entries it leaves are those of its scope  *)
(* at most.                                                                *)
LEMMA ReturnedState ==
    ASSUME Inv, Running("up") \/ Running("free"), calls' = Returned(Below),
           NEW entries, variables' = Settled(Below, entries),
           DOMAIN entries \subseteq DOMAIN variables,
           \A slot \in DOMAIN entries : entries[slot] = variables[slot],
           \A slot \in DOMAIN variables : slot \in DOMAIN entries \/ variables[slot].value.scope = NoScope,
           UNCHANGED <<client, hidden, fault>>
    PROVE  /\ Slots' = Slots /\ Claims' = Claims /\ Owned' = Owned
           /\ \A a \in Slots : variables'[a].value = variables[a].value
           /\ LeafScopes' \subseteq LeafScopes
  <1> DEFINE n == Len(calls)
  <1>1. /\ DOMAIN variables' = DOMAIN entries
        /\ \A slot \in DOMAIN entries :
               /\ slot \notin Cleared => variables'[slot] = variables[slot]
               /\ slot \in Cleared => variables'[slot].value.scope = NoScope
    BY SettledEntries
  <1>2. FrameClaims(calls') = FrameClaims(calls) /\ Busy = Busy' \union Cleared
    BY ReturnedClaims
  <1>3. Slots' = Slots
    <2>1. ASSUME NEW a \in Slots PROVE a \in Slots'
      BY <1>1, <1>2 DEF Slots
    <2>2. ASSUME NEW a \in Slots' PROVE a \in Slots
      BY <1>1, <1>2 DEF Slots
    <2> QED
      BY <2>1, <2>2
  <1>4. \A a \in Slots : variables'[a].value = variables[a].value
    BY <1>1, <1>2 DEF Slots
  <1>5. SlotClaims' = SlotClaims
    BY <1>3, <1>4 DEF SlotClaims, SlotScope
  <1>6. Claims' = Claims
    BY <1>2, <1>5 DEF Claims, OpenClaims, HandClaims, client
  <1>7. Owned' = Owned
    BY <1>6, OwnedIsScopes, OwnersNext
  <1>8. LeafScopes' \subseteq LeafScopes
    <2>1. FrameClaims(calls)' = FrameClaims(calls)
      BY <1>2 DEF FrameClaims
    <2>2. \A p \in FrameClaims(calls') : calls'[1].op = "pop" <=> calls[1].op = "pop"
      <3>1. CASE calls' = << >>
        BY <3>1, EmptyClaims
      <3>2. CASE calls' # << >>
        BY <3>2, ReturnedStack
      <3> QED
        BY <3>1, <3>2
    <2> QED
      BY <1>2, <1>5, <2>1, <2>2 DEF LeafScopes, Scopes
  <1> QED
    BY <1>3, <1>4, <1>6, <1>7, <1>8

(* The stack when a pop is over.                                           *)
LEMMA ReturnedCalls ==
    ASSUME Inv, Running("up") \/ Running("free"), calls' = Returned(Below),
           NEW entries, variables' = Settled(Below, entries),
           DOMAIN entries \subseteq DOMAIN variables,
           \A slot \in DOMAIN entries : entries[slot] = variables[slot],
           calls[1].op = "replace" => Slot(calls[1]) \subseteq DOMAIN entries,
           \A o \in open : Chain(o)' = Chain(o),
           UNCHANGED <<client, hidden, fault>>
    PROVE  /\ Shape' /\ Assigning' /\ Copied' /\ FreedOnlyWhenAssigned' /\ ~Running("down")'
           /\ calls' \in Seq(FrameTypes)
           /\ DOMAIN variables' = DOMAIN entries
           /\ \A slot \in DOMAIN variables' :
                 LET v == variables'[slot] IN
                 /\ v \in [type : Types, value : ValueTypes]
                 /\ v.type.of = "any" \/ v.value.kind \in {"null", "freed", v.type.of}
  <1> DEFINE n == Len(calls)
  <1>0. /\ TypeOK /\ calls # << >> /\ Top.op \in {"up", "free"}
        /\ open' = open /\ hand' = hand /\ hidden' = hidden /\ fault' = fault
    BY DEF Inv, Running, client
  <1>1. /\ n \in Nat \ {0} /\ DOMAIN calls = 1..n /\ Top = calls[n]
    BY <1>0, TopFacts
  <1>2. /\ calls' \in Seq(FrameTypes) /\ (calls' = << >> <=> n = 1)
        /\ calls' # << >> => /\ n - 1 \in DOMAIN calls' /\ Top' = calls'[n - 1]
                             /\ 1 \in DOMAIN calls' /\ 1 # n
        /\ Len(calls') = n - 1
        /\ \A i \in DOMAIN calls' :
               /\ i \in DOMAIN calls /\ i # n /\ i < n
               /\ calls'[i].scope = calls[i].scope /\ calls'[i].value = calls[i].value
               /\ calls'[i].old = calls[i].old
               /\ calls'[i].op = IF i = n - 1 /\ calls[i].op = "replace" THEN "assign" ELSE calls[i].op
               /\ calls'[i].at = IF i = n - 1 /\ calls[i].op \in {"pop", "free"} THEN {} ELSE calls[i].at
               /\ i # n - 1 => calls'[i] = calls[i]
        /\ \A i \in DOMAIN calls : i # n => i \in DOMAIN calls'
    BY ReturnedStack
  <1>3. /\ DOMAIN variables' = DOMAIN entries
        /\ \A slot \in DOMAIN entries :
               /\ variables'[slot] \in [type : Types, value : ValueTypes]
               /\ variables'[slot].type = variables[slot].type
               /\ slot \notin Cleared => variables'[slot] = variables[slot]
               /\ slot \in Cleared =>
                     /\ variables'[slot].value.scope = NoScope
                     /\ \/ variables'[slot].value.kind \in {variables[slot].value.kind, "null"}
                        \/ /\ variables'[slot].value.kind = "freed"
                           /\ calls[n - 1].op = "replace"
    BY SettledEntries
  <1>4. \A i \in DOMAIN calls :
            calls[i].op \in Frees \union {"replace"} /\ (i > 1 => calls[i].op \in Frees)
    BY <1>0, FreeingShape DEF Inv, StackInv, Frees
  <1>5. Cleared = IF n = 1 THEN {} ELSE BusyBy(calls[n - 1])
    BY DEF Cleared
  <1>6. /\ \A i \in DOMAIN calls' : i < n /\ i \in 1..n - 1
        /\ DOMAIN calls' = 1..n - 1
        /\ 1 \in DOMAIN calls
    <2>1. DOMAIN calls' = 1..Len(calls')
      BY <1>2
    <2> QED
      BY <1>1, <1>2, <2>1
  <1>7. \A i \in DOMAIN calls' : calls[i].op # "down"
    BY <1>6 DEF Inv, StackInv, Shape
  <1>8. calls' # << >> => n - 1 = 1 \/ n - 1 > 1
    BY <1>1, <1>2
  <1> HIDE DEF n
  <1>9. Shape'
    <2>1. CASE calls' = << >>
      <3>1. Len(calls') = 0
        BY <2>1
      <3> QED
        BY <2>1, <3>1 DEF Shape
    <2>2. CASE calls' # << >>
      <3>1. \A i \in 2..Len(calls') : i \in DOMAIN calls' /\ i > 1
        BY <1>2, <1>6
      <3>2. \A i \in 2..Len(calls') : calls'[i].op \in Frees
        BY <1>2, <1>4, <3>1 DEF Frees
      <3>3. \A i \in 1..Len(calls') - 1 : calls'[i].op # "down"
        <4>1. \A i \in 1..Len(calls') - 1 : i \in DOMAIN calls'
          BY <1>1, <1>2, <1>6
        <4> QED
          BY <1>2, <1>7, <4>1
      <3>4. Top'.op \in {"pop", "free"} => Top'.at = {}
        BY <1>2, <2>2
      <3>5. \/ calls'[1].op \in Copies /\ \A i \in 2..Len(calls') : calls'[i].op = "copy"
            \/ calls'[1].op \in Frees \union {"replace"} /\ \A i \in 2..Len(calls') : calls'[i].op \in Frees
        <4>1. CASE calls'[1].op \in Frees \union {"replace"}
          BY <3>2, <4>1
        <4>2. CASE calls'[1].op \notin Frees \union {"replace"}
          <5>1. calls'[1].op = "assign" /\ n - 1 = 1
            BY <1>2, <1>4, <2>2, <4>2
          <5>2. \A i \in 2..Len(calls') : FALSE
            BY <1>2, <5>1
          <5> QED
            BY <5>1, <5>2 DEF Copies
        <4> QED
          BY <4>1, <4>2
      <3> QED
        BY <2>2, <3>3, <3>4, <3>5 DEF Shape
    <2> QED
      BY <2>1, <2>2
  <1>10. calls' # << >> /\ calls'[1].op = "assign" =>
             n - 1 = 1 /\ calls[1].op = "replace" /\ Cleared = Slot(calls[1]) /\ Slot(calls'[1]) = Slot(calls[1])
    <2> SUFFICES ASSUME calls' # << >>, calls'[1].op = "assign"
                 PROVE  n - 1 = 1 /\ calls[1].op = "replace" /\ Cleared = Slot(calls[1]) /\ Slot(calls'[1]) = Slot(calls[1])
      OBVIOUS
    <2>1. n - 1 = 1 /\ calls[1].op = "replace"
      BY <1>2, <1>4, <1>6 DEF Frees
    <2>2. Cleared = Slot(calls[1])
      BY <1>2, <1>5, <2>1 DEF BusyBy
    <2>3. Slot(calls'[1]) = Slot(calls[1])
      BY <1>2, <2>1 DEF Slot
    <2> QED
      BY <2>1, <2>2, <2>3
  <1>11. Assigning'
    <2> SUFFICES ASSUME calls' # << >>, calls'[1].op \in Sets
                 PROVE  LET f == calls'[1] IN
                        /\ \E m \in Names : f.at = {m} /\ <<f.scope, m>> \in DOMAIN variables'
                        /\ \E o \in open' : f.scope \in Chain(o)'
                        /\ f.value.scope \in hand' \union {NoScope} /\ Settable(f.value)
                        /\ f.op = "check" /\ Len(calls') > 1 => f.old.scope = NoScope
                        /\ f.op \in {"replace", "assign"} =>
                              \A slot \in Slot(f) : LET type == variables'[slot].type IN
                                  type.of = "any" \/ f.value.kind \in {"null", type.of}
                        /\ f.op = "assign" => \A slot \in Slot(f) : variables'[slot].value.scope = NoScope
      BY DEF Assigning, AssigningOn, Slot
    <2> DEFINE f == calls[1]
               h == calls'[1]
    <2>1. f.op = "replace" /\ h.op \in {"replace", "assign"}
      BY <1>2, <1>4, <1>6 DEF Frees, Sets
    <2>2. h.scope = f.scope /\ h.value = f.value /\ h.at = f.at
      BY <1>2, <2>1
    <2>3. /\ \E m \in Names : f.at = {m} /\ <<f.scope, m>> \in DOMAIN variables
          /\ \E o \in open : f.scope \in Chain(o)
          /\ f.value.scope \in hand \union {NoScope} /\ Settable(f.value)
          /\ \A slot \in Slot(f) : LET type == variables[slot].type IN
                type.of = "any" \/ f.value.kind \in {"null", type.of}
      BY <1>0, <2>1 DEF Inv, StackInv, Assigning, AssigningOn, Sets
    <2>4. Slot(f) \subseteq DOMAIN entries /\ Slot(h) = Slot(f)
      BY <2>1, <2>2 DEF Slot
    <2>5. PICK m \in Names : f.at = {m}
      BY <2>3
    <2>6. h.at = {m} /\ <<h.scope, m>> \in DOMAIN variables'
      BY <1>3, <2>2, <2>4, <2>5 DEF Slot
    <2>7. \A slot \in Slot(h) : LET type == variables'[slot].type IN
              type.of = "any" \/ h.value.kind \in {"null", type.of}
      BY <1>3, <2>2, <2>3, <2>4
    <2>8. h.op = "assign" => \A slot \in Slot(h) : variables'[slot].value.scope = NoScope
      BY <1>3, <1>10, <2>4
    <2>9. \E o \in open' : h.scope \in Chain(o)'
      BY <1>0, <2>2, <2>3
    <2>10. h.value.scope \in hand' \union {NoScope} /\ Settable(h.value) /\ h.op # "check"
      BY <1>0, <2>1, <2>2, <2>3
    <2> QED
      BY <2>6, <2>7, <2>8, <2>9, <2>10 DEF h
  <1>12. Copied'
    <2>1. \A i \in DOMAIN calls' : calls'[i].op # "copy"
      BY <1>2, <1>4 DEF Frees
    <2>2. \A i \in 2..Len(calls') : i \in DOMAIN calls'
      BY <1>2, <1>6
    <2> QED
      BY <2>1, <2>2 DEF Copied, CopiedOn
  <1>13. \A slot \in DOMAIN variables : variables[slot].value.kind # "freed"
    BY <1>0, <1>4, <1>6 DEF Inv, FreedOnlyWhenAssigned, Frees
  <1>14. FreedOnlyWhenAssigned'
    <2> SUFFICES ASSUME NEW slot \in DOMAIN variables', variables'[slot].value.kind = "freed"
                 PROVE  calls' # << >> /\ calls'[1].op = "assign" /\ slot \in Slot(calls'[1])
      BY DEF FreedOnlyWhenAssigned, Slot
    <2>1. slot \in Cleared /\ calls[n - 1].op = "replace"
      BY <1>3, <1>13
    <2>2. n # 1 /\ n - 1 \in DOMAIN calls' /\ n - 1 \in DOMAIN calls
      BY <1>2, <1>5, <2>1
    <2>3. n - 1 = 1
      BY <1>2, <1>4, <1>8, <2>1, <2>2 DEF Frees
    <2>4. calls' # << >> /\ calls'[1].op = "assign"
      BY <1>2, <2>1, <2>2, <2>3
    <2> QED
      BY <1>10, <2>1, <2>4
  <1>15. ~Running("down")'
    BY <1>2, <1>7 DEF Running
  <1>16. ASSUME NEW slot \in DOMAIN variables'
         PROVE  LET v == variables'[slot] IN
                /\ v \in [type : Types, value : ValueTypes]
                /\ v.type.of = "any" \/ v.value.kind \in {"null", "freed", v.type.of}
    <2>1. LET v == variables[slot] IN v.type.of = "any" \/ v.value.kind \in {"null", "freed", v.type.of}
      BY <1>0, <1>3 DEF TypeOK
    <2> QED
      BY <1>3, <2>1
  <1> QED
    BY <1>2, <1>3, <1>9, <1>11, <1>12, <1>14, <1>15, <1>16

(* Leaving a scope that is needed preserves the invariant.                 *)
LEMMA KeepStep ==
    ASSUME Inv, Keep
    PROVE  Inv'
  <1> DEFINE n == Len(calls)
             s == Top.scope
  <1>0. /\ TypeOK /\ calls # << >> /\ Running("up") /\ ~Running("down") /\ Top.op = "up"
        /\ references' = references /\ ancestor' = ancestor
        /\ variables' = Settled(Below, variables) /\ calls' = Returned(Below)
        /\ open' = open /\ hand' = hand /\ hidden' = hidden /\ fault' = fault
        /\ UNCHANGED <<client, hidden, fault>>
        /\ \A t : Chain(t)' = Chain(t) /\ Allocated' = Allocated
    BY DEF Inv, Keep, Running, client, Chain, Allocated
  <1>1. /\ n \in Nat \ {0} /\ DOMAIN calls = 1..n /\ Top = calls[n] /\ n \in DOMAIN calls
    BY <1>0, TopFacts
  <1>2. references[s] # 0
    <2>1. references[s] > 0
      BY DEF Keep
    <2> QED
      BY <2>1
  <1>3. /\ Slots' = Slots /\ Claims' = Claims /\ Owned' = Owned
        /\ \A a \in Slots : variables'[a].value = variables[a].value
        /\ LeafScopes' \subseteq LeafScopes
    BY <1>0, ReturnedState
  <1>4. calls[1].op = "replace" => Slot(calls[1]) \subseteq DOMAIN variables
    BY <1>0 DEF Inv, StackInv, Assigning, AssigningOn, Sets, Slot
  <1>5. /\ Shape' /\ Assigning' /\ Copied' /\ FreedOnlyWhenAssigned' /\ ~Running("down")'
        /\ calls' \in Seq(FrameTypes)
        /\ DOMAIN variables' = DOMAIN variables
        /\ \A slot \in DOMAIN variables' :
              LET v == variables'[slot] IN
              /\ v \in [type : Types, value : ValueTypes]
              /\ v.type.of = "any" \/ v.value.kind \in {"null", "freed", v.type.of}
    BY <1>0, <1>4, ReturnedCalls
  <1>6. /\ calls' \in Seq(FrameTypes) /\ (calls' = << >> <=> n = 1)
        /\ calls' # << >> => /\ n - 1 \in DOMAIN calls' /\ Top' = calls'[n - 1]
                             /\ 1 \in DOMAIN calls' /\ 1 # n
        /\ Len(calls') = n - 1
        /\ \A i \in DOMAIN calls' :
               /\ i \in DOMAIN calls /\ i # n /\ i < n
               /\ calls'[i].scope = calls[i].scope /\ calls'[i].value = calls[i].value
               /\ calls'[i].old = calls[i].old
               /\ calls'[i].op = IF i = n - 1 /\ calls[i].op = "replace" THEN "assign" ELSE calls[i].op
               /\ calls'[i].at = IF i = n - 1 /\ calls[i].op \in {"pop", "free"} THEN {} ELSE calls[i].at
               /\ i # n - 1 => calls'[i] = calls[i]
        /\ \A i \in DOMAIN calls : i # n => i \in DOMAIN calls' /\ i < n
    BY <1>0, ReturnedStack
  <1> HIDE DEF n
  <1>7. TypeOK'
    BY <1>0, <1>5 DEF TypeOK
  <1>8. EveryScopeHasOneOwner'
    BY <1>0, <1>3, OneOwner, OwnersNext DEF Inv, EveryScopeHasOneOwner
  <1>9. \A i \in DOMAIN calls : calls[i].op \in {"down", "up", "free"} /\ i # n =>
            i \in DOMAIN calls' /\ calls'[i].op = calls[i].op /\ calls'[i].scope = calls[i].scope
    BY <1>6
  <1>10. \A i \in DOMAIN calls' : calls'[i].op \in {"down", "up", "free"} =>
            i \in DOMAIN calls /\ calls'[i].op = calls[i].op /\ calls'[i].scope = calls[i].scope
    BY <1>6
  <1>11. HeapInv'
    <2>1. \A i \in DOMAIN calls : calls[i].op \in {"up", "free"} /\ references[calls[i].scope] = 0 =>
               \E j \in DOMAIN calls' : calls'[j].op \in {"up", "free"} /\ calls'[j].scope = calls[i].scope
      BY <1>1, <1>2, <1>9
    <2> QED
      BY <1>0, <1>3, <1>5, <2>1, QuietHeap
  <1>12. Unwinding'
    <2>1. Unwinding
      BY DEF Inv, StackInv
    <2>2. \A i \in DOMAIN calls' : calls'[i].op \in {"down", "up", "free"} => calls'[i].scope \in Allocated'
      BY <1>0, <1>10, <2>1 DEF Unwinding
    <2>3. \A i \in DOMAIN calls' : calls'[i].op = "free" => references'[calls'[i].scope] = 0
      BY <1>0, <1>10, <2>1 DEF Unwinding
    <2>4. \A i, j \in DOMAIN calls' : i < j /\ calls'[i].op \in {"up", "free"} =>
              \/ references'[calls'[i].scope] = 0
              \/ /\ calls'[i].op = "up" /\ calls'[j].op \in {"up", "down"}
                 /\ calls'[j].scope \in Chain(ancestor[calls'[i].scope])
      <3> SUFFICES ASSUME NEW i \in DOMAIN calls', NEW j \in DOMAIN calls', i < j,
                          calls'[i].op \in {"up", "free"}, references'[calls'[i].scope] # 0
                   PROVE  /\ calls'[i].op = "up" /\ calls'[j].op \in {"up", "down"}
                          /\ calls'[j].scope \in Chain(ancestor[calls'[i].scope])
        OBVIOUS
      <3>1. i \in DOMAIN calls /\ calls'[i].op = calls[i].op /\ calls'[i].scope = calls[i].scope
        BY <1>10
      <3>2. /\ calls[i].op = "up" /\ calls[j].op \in {"up", "down"}
            /\ calls[j].scope \in Chain(ancestor[calls[i].scope])
        BY <1>0, <1>6, <2>1, <3>1 DEF Unwinding
      <3>3. calls'[j].op = calls[j].op /\ calls'[j].scope = calls[j].scope
        BY <1>6, <3>2
      <3> QED
        BY <3>1, <3>2, <3>3
    <2>5. \A i, j \in DOMAIN calls' :
              calls'[i].op \in {"up", "free"} /\ calls'[j].op \in {"up", "free"}
                 /\ calls'[i].scope = calls'[j].scope => i = j
      BY <1>10, <2>1 DEF Unwinding
    <2> QED
      BY <1>0, <2>2, <2>3, <2>4, <2>5 DEF Unwinding
  <1> QED
    BY <1>5, <1>7, <1>8, <1>11, <1>12 DEF Inv, StackInv

(* A scope that nobody needs is gone.                                      *)
LEMMA ReleasedHeap ==
    ASSUME Inv, NEW s \in Allocated, references[s] = 0, ~Running("down"), ~Running("down")',
           references' = [t \in Allocated \ {s} |-> references[t]],
           ancestor' = [t \in Allocated \ {s} |-> ancestor[t]],
           Owned' = Owned, LeafScopes' \subseteq LeafScopes, Slots' = Slots, hidden' = hidden,
           \A a \in Slots : variables'[a].value = variables[a].value,
           \A i \in DOMAIN calls : calls[i].op \in {"up", "free"} /\ calls[i].scope # s =>
               \E j \in DOMAIN calls' : calls'[j].op \in {"up", "free"} /\ calls'[j].scope = calls[i].scope
    PROVE  /\ HeapInv' /\ Allocated' = Allocated \ {s} /\ s \notin Owned
           /\ \A o \in Owned : Chain(o)' = Chain(o)
  <1>0. Allocated' = Allocated \ {s}
    BY DEF Allocated
  <1>1. \A o \in Owned : s \notin Chain(o)
    BY OwnedPositive
  <1>2. \A t : Chain(t)' \subseteq Chain(t) /\ (s \notin Chain(t) => Chain(t)' = Chain(t))
    BY EnclosingRestricted DEF Chain, Allocated
  <1>3. s \notin Owned
    BY <1>1, OwnedAllocated
  <1>4. \A o \in Owned : Chain(o)' = Chain(o)
    BY <1>1, <1>2
  <1>5. \A t \in Allocated \ {s} : ancestor'[t] = ancestor[t] /\ references'[t] = references[t]
    OBVIOUS
  <1>6. Acyclic'
    <2> SUFFICES ASSUME NEW t \in Allocated \ {s} PROVE t \notin Enclosing(ancestor', ancestor'[t])
      BY <1>0 DEF Acyclic, Chain
    <2> DEFINE u == ancestor[t]
    <2>1. ancestor'[t] = u /\ t \notin Chain(u)
      BY <1>5 DEF Inv, HeapInv, Acyclic
    <2>2. Enclosing(ancestor', u) \subseteq Chain(u)
      BY <1>2 DEF Chain
    <2> HIDE DEF u
    <2> QED
      BY <2>1, <2>2
  <1>7. Counted'
    <2> SUFFICES ASSUME NEW t \in Allocated \ {s}
                 PROVE  references'[t] = Cardinality({o \in Owned' : t \in Chain(o)'}) + 0
      BY <1>0 DEF Counted, ToCountDown
    <2>1. references[t] = Cardinality({o \in Owned : t \in Chain(o)}) + 0
      BY DEF Inv, HeapInv, Counted, ToCountDown
    <2>2. {o \in Owned' : t \in Chain(o)'} = {o \in Owned : t \in Chain(o)}
      BY <1>4
    <2> QED
      BY <1>5, <2>1, <2>2
  <1>8. Rooted'
    <2> SUFFICES ASSUME NEW t \in Allocated \ {s}, references[t] > 0
                 PROVE  ancestor[t] \in (Allocated \ {s}) \union {NoScope}
      BY <1>0, <1>5 DEF Rooted
    <2>1. ancestor[t] \in Allocated \union {NoScope}
      BY DEF Inv, HeapInv, Rooted
    <2>2. references[t] # 0
      OBVIOUS
    <2>3. PICK o \in Owned : t \in Chain(o)
      BY <2>2, NeededIsOwned
    <2>4. ancestor[t] = s => s \in Chain(o)
      BY <2>3, EnclosingClosed DEF Chain, Allocated
    <2> QED
      BY <1>1, <2>1, <2>4
  <1>9. Dying'
    <2> SUFFICES ASSUME NEW t \in Allocated \ {s}, references[t] = 0
                 PROVE  \E j \in DOMAIN calls' : calls'[j].op \in {"up", "free"} /\ calls'[j].scope = t
      BY <1>0, <1>5 DEF Dying
    <2>1. \E i \in DOMAIN calls : calls[i].op \in {"up", "free"} /\ calls[i].scope = t
      BY DEF Inv, HeapInv, Dying
    <2> QED
      BY <2>1
  <1>10. Leaves'
    BY <1>0, <1>5 DEF Inv, HeapInv, Leaves
  <1>11. WellFounded'
    <2>1. \A a \in Slots' : SlotScope(a)' = SlotScope(a)
      BY DEF SlotScope
    <2> QED
      BY <1>0, <2>1, ShrinkingSlots DEF Inv, HeapInv
  <1>12. Visible'
    BY DEF Inv, HeapInv, Visible
  <1> QED
    BY <1>0, <1>3, <1>4, <1>6, <1>7, <1>8, <1>9, <1>10, <1>11, <1>12 DEF HeapInv

(* The end of a release preserves the invariant.                           *)
LEMMA ReleaseEnds ==
    ASSUME Inv, Running("free"),
           \A m \in NamesOf(Top.scope) : ValueOf(Top.scope, m).scope = NoScope,
           NEW s, s = Top.scope,
           references' = [t \in Allocated \ {s} |-> references[t]],
           ancestor' = [t \in Allocated \ {s} |-> ancestor[t]],
           NEW entries, entries = [slot \in {p \in DOMAIN variables : p[1] # s} |-> variables[slot]],
           variables' = Settled(Below, entries),
           calls' = Returned(Below),
           UNCHANGED <<client, hidden, fault>>
    PROVE  Inv'
  <1> DEFINE n == Len(calls)
  <1>0. /\ TypeOK /\ calls # << >> /\ Top.op = "free" /\ ~Running("down")
        /\ open' = open /\ hand' = hand /\ hidden' = hidden /\ fault' = fault
    BY DEF Inv, Running, client
  <1>1. /\ n \in Nat \ {0} /\ DOMAIN calls = 1..n /\ Top = calls[n] /\ n \in DOMAIN calls
    BY <1>0, TopFacts
  <1>2. s \in Allocated /\ references[s] = 0
    BY <1>0, <1>1 DEF Inv, StackInv, Unwinding
  <1>3. \A o \in Owned : s \notin Chain(o)
    BY <1>2, OwnedPositive
  <1>4. /\ DOMAIN entries = {p \in DOMAIN variables : p[1] # s}
        /\ \A slot \in DOMAIN entries : entries[slot] = variables[slot]
    OBVIOUS
  <1>5. \A slot \in DOMAIN variables : slot \in DOMAIN entries \/ variables[slot].value.scope = NoScope
    <2> SUFFICES ASSUME NEW slot \in DOMAIN variables, slot[1] = s
                 PROVE  variables[slot].value.scope = NoScope
      BY <1>4
    <2>1. slot \in Allocated \X Names
      BY <1>0 DEF TypeOK
    <2>2. slot = <<s, slot[2]>> /\ slot[2] \in Names
      BY <2>1
    <2> QED
      BY <2>2 DEF NamesOf, ValueOf
  <1>6. /\ Slots' = Slots /\ Claims' = Claims /\ Owned' = Owned
        /\ \A a \in Slots : variables'[a].value = variables[a].value
        /\ LeafScopes' \subseteq LeafScopes
    BY <1>4, <1>5, ReturnedState
  <1>7. calls[1].op = "replace" => Slot(calls[1]) \subseteq DOMAIN entries
    <2> SUFFICES ASSUME calls[1].op = "replace" PROVE Slot(calls[1]) \subseteq DOMAIN entries
      OBVIOUS
    <2>1. /\ Slot(calls[1]) \subseteq DOMAIN variables
          /\ \E o \in open : calls[1].scope \in Chain(o)
      BY <1>0 DEF Inv, StackInv, Assigning, AssigningOn, Sets, Slot
    <2>2. calls[1].scope # s
      BY <1>3, <2>1 DEF Owned
    <2>3. \A a \in Slot(calls[1]) : a[1] = calls[1].scope
      BY DEF Slot
    <2> QED
      BY <1>4, <2>1, <2>2, <2>3
  <1>8. \A o \in Owned : Chain(o)' = Chain(o)
    <2>1. \A t : s \notin Chain(t) => Chain(t)' = Chain(t)
      BY EnclosingRestricted DEF Chain, Allocated
    <2> QED
      BY <1>3, <2>1
  <1>9. /\ Shape' /\ Assigning' /\ Copied' /\ FreedOnlyWhenAssigned' /\ ~Running("down")'
        /\ calls' \in Seq(FrameTypes)
        /\ DOMAIN variables' = DOMAIN entries
        /\ \A slot \in DOMAIN variables' :
              LET v == variables'[slot] IN
              /\ v \in [type : Types, value : ValueTypes]
              /\ v.type.of = "any" \/ v.value.kind \in {"null", "freed", v.type.of}
    <2>1. \A o \in open : Chain(o)' = Chain(o)
      BY <1>8 DEF Owned
    <2> QED
      BY <1>4, <1>7, <2>1, ReturnedCalls
  <1>10. /\ calls' \in Seq(FrameTypes) /\ (calls' = << >> <=> n = 1)
         /\ calls' # << >> => /\ n - 1 \in DOMAIN calls' /\ Top' = calls'[n - 1]
                              /\ 1 \in DOMAIN calls' /\ 1 # n
         /\ Len(calls') = n - 1
         /\ \A i \in DOMAIN calls' :
                /\ i \in DOMAIN calls /\ i # n /\ i < n
                /\ calls'[i].scope = calls[i].scope /\ calls'[i].value = calls[i].value
                /\ calls'[i].old = calls[i].old
                /\ calls'[i].op = IF i = n - 1 /\ calls[i].op = "replace" THEN "assign" ELSE calls[i].op
                /\ calls'[i].at = IF i = n - 1 /\ calls[i].op \in {"pop", "free"} THEN {} ELSE calls[i].at
                /\ i # n - 1 => calls'[i] = calls[i]
         /\ \A i \in DOMAIN calls : i # n => i \in DOMAIN calls' /\ i < n
    BY ReturnedStack
  <1> HIDE DEF n
  <1>11. \A i \in DOMAIN calls : calls[i].op \in {"up", "free"} /\ i # n =>
            /\ i \in DOMAIN calls' /\ calls'[i].op = calls[i].op /\ calls'[i].scope = calls[i].scope
            /\ references[calls[i].scope] = 0 /\ calls[i].scope # s /\ calls[i].scope \in Allocated
    <2> SUFFICES ASSUME NEW i \in DOMAIN calls, calls[i].op \in {"up", "free"}, i # n
                 PROVE  /\ i \in DOMAIN calls' /\ calls'[i].op = calls[i].op /\ calls'[i].scope = calls[i].scope
                        /\ references[calls[i].scope] = 0 /\ calls[i].scope # s
                        /\ calls[i].scope \in Allocated
      OBVIOUS
    <2>1. i \in DOMAIN calls' /\ calls'[i].op = calls[i].op /\ calls'[i].scope = calls[i].scope /\ i < n
      BY <1>10
    <2>2. references[calls[i].scope] = 0 /\ calls[i].scope \in Allocated
      BY <1>0, <1>1, <2>1 DEF Inv, StackInv, Unwinding
    <2>3. calls[i].scope # s
      BY <1>0, <1>1 DEF Inv, StackInv, Unwinding
    <2> QED
      BY <2>1, <2>2, <2>3
  <1>12. \A i \in DOMAIN calls' : calls'[i].op \in {"down", "up", "free"} =>
            /\ i \in DOMAIN calls /\ calls'[i].op = calls[i].op /\ calls'[i].scope = calls[i].scope
            /\ calls[i].op \in {"up", "free"} /\ i # n
    <2>1. \A i \in DOMAIN calls' : calls'[i].op # "down"
      <3>1. \A i \in DOMAIN calls' : i \in 1..Len(calls) - 1
        BY <1>1, <1>10 DEF n
      <3>2. \A i \in DOMAIN calls' : calls[i].op # "down"
        BY <3>1 DEF Inv, StackInv, Shape
      <3> QED
        BY <1>10, <3>2
    <2> QED
      BY <1>10, <2>1
  <1>13. /\ HeapInv' /\ Allocated' = Allocated \ {s} /\ s \notin Owned
    <2>1. \A i \in DOMAIN calls : calls[i].op \in {"up", "free"} /\ calls[i].scope # s =>
               \E j \in DOMAIN calls' : calls'[j].op \in {"up", "free"} /\ calls'[j].scope = calls[i].scope
      BY <1>1, <1>11
    <2> QED
      BY <1>0, <1>2, <1>6, <1>9, <2>1, ReleasedHeap
  <1>14. EveryScopeHasOneOwner'
    <2>1. Owned' \subseteq Allocated'
      BY <1>6, <1>13 DEF Inv, EveryScopeHasOneOwner
    <2> QED
      BY <1>6, <2>1, OneOwner, OwnersNext DEF Inv
  <1>15. TypeOK'
    <2>1. /\ references' \in [Allocated' -> Nat]
          /\ ancestor' \in [Allocated' -> Addresses \union {NoScope}]
          /\ Allocated' \subseteq Addresses
      BY <1>0, <1>13 DEF TypeOK
    <2>2. DOMAIN variables' \subseteq Allocated' \X Names
      <3> SUFFICES ASSUME NEW slot \in DOMAIN variables, slot[1] # s PROVE slot \in (Allocated \ {s}) \X Names
        BY <1>4, <1>9, <1>13
      <3>1. slot \in Allocated \X Names
        BY <1>0 DEF TypeOK
      <3> QED
        BY <3>1
    <2> QED
      BY <1>0, <1>9, <2>1, <2>2 DEF TypeOK
  <1>16. Unwinding'
    <2>1. \A i \in DOMAIN calls' : calls'[i].op \in {"down", "up", "free"} =>
              calls'[i].scope \in Allocated' /\ references'[calls'[i].scope] = 0
      <3> SUFFICES ASSUME NEW i \in DOMAIN calls', calls'[i].op \in {"down", "up", "free"}
                   PROVE  calls'[i].scope \in Allocated' /\ references'[calls'[i].scope] = 0
        OBVIOUS
      <3>1. /\ calls'[i].scope = calls[i].scope /\ references[calls[i].scope] = 0
            /\ calls[i].scope # s /\ calls[i].scope \in Allocated
        BY <1>11, <1>12
      <3> QED
        BY <1>13, <3>1
    <2>2. \A i, j \in DOMAIN calls' :
              calls'[i].op \in {"up", "free"} /\ calls'[j].op \in {"up", "free"}
                 /\ calls'[i].scope = calls'[j].scope => i = j
      BY <1>12 DEF Inv, StackInv, Unwinding
    <2> QED
      BY <2>1, <2>2 DEF Unwinding
  <1> QED
    BY <1>9, <1>13, <1>14, <1>15, <1>16 DEF Inv, StackInv

(* So does each step of a release.                                         *)
LEMMA ReleaseStep ==
    ASSUME Inv, Release
    PROVE  Inv'
  <1>1. CASE /\ Running("up") /\ references[Top.scope] = 0
             /\ calls' = Append(Below, Frame("free", Top.scope))
             /\ UNCHANGED <<heap, client, hidden, fault>>
    BY <1>1, ReleaseStarts
  <1>2. ASSUME Running("free"), NEW m \in NamesOf(Top.scope), ValueOf(Top.scope, m).scope # NoScope,
               calls' = Freeing(Append(Below, [Top EXCEPT !.at = {m}]), ValueOf(Top.scope, m)),
               UNCHANGED <<heap, client, hidden, fault>>
        PROVE  Inv'
    <2>1. calls # << >> /\ Top.op \in {"pop", "free"}
      BY <1>2 DEF Running
    <2> QED
      BY <1>2, <2>1, PushesPop
  <1>3. CASE /\ Running("free")
             /\ \A m \in NamesOf(Top.scope) : ValueOf(Top.scope, m).scope = NoScope
             /\ references' = [t \in Allocated \ {Top.scope} |-> references[t]]
             /\ ancestor' = [t \in Allocated \ {Top.scope} |-> ancestor[t]]
             /\ variables' = Settled(Below, [slot \in {p \in DOMAIN variables : p[1] # Top.scope}
                                                |-> variables[slot]])
             /\ calls' = Returned(Below)
             /\ UNCHANGED <<client, hidden, fault>>
    BY <1>3, ReleaseEnds
  <1> QED
    BY <1>1, <1>2, <1>3 DEF Release

(* So does each step of a pop.                                             *)
LEMMA PopScopeStep ==
    ASSUME Inv, PopScope
    PROVE  Inv'
  <1>1. ASSUME Running("pop"), NEW m \in NamesOf(Top.scope), ValueOf(Top.scope, m).scope # NoScope,
               calls' = Freeing(Append(Below, [Top EXCEPT !.at = {m}]), ValueOf(Top.scope, m)),
               UNCHANGED <<heap, client, hidden, fault>>
        PROVE  Inv'
    <2>1. calls # << >> /\ Top.op \in {"pop", "free"}
      BY <1>1 DEF Running
    <2> QED
      BY <1>1, <2>1, PushesPop
  <1>2. ASSUME Running("pop"), {m \in NamesOf(Top.scope) :
                                   /\ ValueOf(Top.scope, m).kind = "function"
                                   /\ ValueOf(Top.scope, m).scope # NoScope} = {},
               calls' = Append(Below, Frame("down", Top.scope)),
               UNCHANGED <<heap, client, hidden, fault>>
        PROVE  Inv'
    BY <1>2, PopEnds
  <1> QED
    BY <1>1, <1>2 DEF PopScope

-----------------------------------------------------------------------------
(* While nothing is popped.                                                *)

(* No call, or one that copies.                                            *)
Quiet == calls = << >> \/ Top.op \in Copies \union {"copy"}

LEMMA QuietFacts ==
    ASSUME Inv, Quiet
    PROVE  /\ Busy = {} /\ ~Running("down")
           /\ \A i \in DOMAIN calls : calls[i].op \in Copies \union {"copy"}
           /\ \A i \in DOMAIN calls : calls[i].op \notin {"up", "free"}
           /\ calls # << >> => /\ 1 \in DOMAIN calls /\ calls[1].op \in Copies
                               /\ \A i \in DOMAIN calls : i > 1 => calls[i].op = "copy"
           /\ Slots = {slot \in DOMAIN variables : variables[slot].value.scope # NoScope}
           /\ LeafScopes = Scopes(SlotClaims \union FrameClaims(calls))
           /\ \A slot \in DOMAIN variables : variables[slot].value.kind = "freed" =>
                  calls # << >> /\ calls[1].op = "assign" /\ slot \in Slot(calls[1])
  <1>0. TypeOK /\ Shape
    BY DEF Inv, StackInv
  <1>1. CASE calls = << >>
    <2>1. Busy = {} /\ FrameClaims(calls) = {}
      BY <1>1, EmptyClaims, BusyIsIn
    <2>2. LeafScopes = Scopes(SlotClaims \union FrameClaims(calls))
      BY <2>1 DEF LeafScopes
    <2>3. Slots = {slot \in DOMAIN variables : variables[slot].value.scope # NoScope}
      BY <2>1 DEF Slots
    <2>4. ~Running("down") /\ DOMAIN calls = {}
      BY <1>1 DEF Running
    <2> QED
      BY <1>1, <2>1, <2>2, <2>3, <2>4 DEF Inv, FreedOnlyWhenAssigned
  <1>2. CASE calls # << >>
    <2>1. /\ calls[1].op \in Copies /\ Busy = {}
          /\ \A i \in DOMAIN calls : i > 1 => calls[i].op = "copy"
          /\ \A i \in DOMAIN calls : calls[i].op \in Copies \union {"copy"}
      BY <1>0, <1>2, CopyingShape DEF Quiet
    <2>2. 1 \in DOMAIN calls
      BY <1>0, <1>2, TopFacts
    <2>3. calls[1].op # "pop"
      BY <2>1 DEF Copies
    <2>4. LeafScopes = Scopes(SlotClaims \union FrameClaims(calls))
      BY <2>3 DEF LeafScopes
    <2>5. Slots = {slot \in DOMAIN variables : variables[slot].value.scope # NoScope}
      BY <2>1 DEF Slots
    <2>6. ~Running("down")
      BY <1>2 DEF Running, Quiet, Copies
    <2>7. \A i \in DOMAIN calls : calls[i].op \notin {"up", "free"}
      BY <2>1 DEF Copies
    <2> QED
      BY <1>2, <2>1, <2>2, <2>4, <2>5, <2>6, <2>7 DEF Inv, FreedOnlyWhenAssigned
  <1> QED
    BY <1>1, <1>2

(* A stack of one frame.                                                   *)
LEMMA OneFrame ==
    ASSUME NEW f \in FrameTypes
    PROVE  /\ <<f>> \in Seq(FrameTypes) /\ <<f>> # << >> /\ Len(<<f>>) = 1 /\ DOMAIN <<f>> = {1}
           /\ <<f>>[1] = f /\ Last(<<f>>) = f /\ Front(<<f>>) = << >>
           /\ FrameClaims(<<f>>) = HeldAt(1, f) /\ BusyIn(<<f>>) = BusyBy(f)
  <1>1. /\ <<f>> \in Seq(FrameTypes) /\ <<f>> # << >> /\ Len(<<f>>) = 1 /\ DOMAIN <<f>> = {1}
        /\ <<f>>[1] = f
    OBVIOUS
  <1>2. Last(<<f>>) = f /\ Front(<<f>>) = << >>
    BY DEF Last, Front
  <1> DEFINE stack == <<f>>
  <1>3. DOMAIN stack = {1} /\ stack[1] = f
    BY <1>1
  <1> HIDE DEF stack
  <1>4. FrameClaims(stack) = HeldAt(1, f) /\ BusyIn(stack) = BusyBy(f)
    BY <1>3 DEF FrameClaims, BusyIn
  <1> QED
    BY <1>1, <1>2, <1>4 DEF stack

(* The call ends, or ends with a pop.                                      *)
LEMMA LastPop ==
    ASSUME NEW old \in ValueTypes, calls' = Freeing(<< >>, old)
    PROVE  /\ calls' \in Seq(FrameTypes) /\ ~Running("down")' /\ Busy' = {}
           /\ Shape' /\ Assigning' /\ Copied' /\ Unwinding'
           /\ FrameClaims(calls') = {<<"frame", 1, s>> : s \in {old.scope} \ {NoScope}}
           /\ LeafScopes' = Scopes(SlotClaims')
  <1>1. CASE old.scope = NoScope
    <2>1. calls' = << >>
      BY <1>1 DEF Freeing
    <2>2. /\ FrameClaims(calls') = {} /\ Busy' = {}
      BY <2>1, EmptyClaims, BusyIsIn
    <2>3. LeafScopes' = Scopes(SlotClaims')
      <3>1. FrameClaims(calls)' = {}
        BY <2>2 DEF FrameClaims
      <3> QED
        BY <3>1 DEF LeafScopes, Scopes
    <2>4. Len(calls') = 0 /\ DOMAIN calls' = {}
      BY <2>1
    <2>5. Shape'
      BY <2>1, <2>4 DEF Shape
    <2>6. Assigning'
      BY <2>1 DEF Assigning, AssigningOn
    <2>7. Copied'
      BY <2>4 DEF Copied, CopiedOn
    <2>8. Unwinding'
      BY <2>4 DEF Unwinding
    <2>9. calls' \in Seq(FrameTypes) /\ ~Running("down")'
      <3>0. << >> \in Seq(FrameTypes)
        OBVIOUS
      <3>1. calls' \in Seq(FrameTypes)
        BY ONLY <2>1, <3>0
      <3> QED
        BY <2>1, <3>1 DEF Running
    <2> QED
      BY <1>1, <2>2, <2>3, <2>5, <2>6, <2>7, <2>8, <2>9
  <1>2. CASE old.scope # NoScope
    <2> DEFINE s == old.scope
               h == Frame("pop", s)
    <2>1. s \in Addresses /\ s # NoScope
      BY <1>2 DEF ValueTypes
    <2>2. calls' = <<h>>
      BY <1>2 DEF Freeing
    <2>3. /\ h \in FrameTypes /\ h.op = "pop" /\ h.at = {} /\ Holds(h) = {s} /\ BusyBy(h) = {}
      BY <2>1, FrameType, FrameFields DEF FrameOps, Holds, BusyBy, Slot
    <2> HIDE DEF h, s
    <2>4. /\ calls' \in Seq(FrameTypes) /\ calls' # << >> /\ Len(calls') = 1 /\ DOMAIN calls' = {1}
          /\ calls'[1] = h /\ Last(calls') = h
          /\ FrameClaims(calls') = HeldAt(1, h) /\ BusyIn(calls') = BusyBy(h)
      BY <2>2, <2>3, OneFrame
    <2>5. HeldAt(1, h) = {<<"frame", 1, t>> : t \in {s}}
      BY <2>3 DEF HeldAt
    <2>6. LeafScopes' = Scopes(SlotClaims')
      <3>1. FrameClaims(calls)' = {<<"frame", 1, s>>}
        BY <2>4, <2>5 DEF FrameClaims
      <3>2. calls'[1].op = "pop" /\ <<"frame", 1, s>>[2] = 1
        BY <2>3, <2>4
      <3>3. {p \in FrameClaims(calls)' : p[2] = 1 => calls'[1].op # "pop"} = {}
        BY <3>1, <3>2
      <3> QED
        BY <3>3 DEF LeafScopes, Scopes
    <2>7. Top' = h
      BY <2>4 DEF Top
    <2>8. /\ \A i \in 2..Len(calls') : FALSE
          /\ \A i \in 1..Len(calls') - 1 : FALSE
      BY <2>4
    <2>9. Shape'
      BY <2>3, <2>4, <2>7, <2>8 DEF Shape, Frees
    <2>10. Assigning'
      BY <2>3, <2>4 DEF Assigning, AssigningOn, Sets
    <2>11. Copied'
      BY <2>8 DEF Copied, CopiedOn
    <2>12. Unwinding'
      BY <2>3, <2>4 DEF Unwinding
    <2>13. ~Running("down")' /\ Busy' = {}
      BY <2>3, <2>4, <2>7, BusyIsIn DEF Running
    <2>14. {s} = {old.scope} \ {NoScope}
      BY <2>1 DEF s
    <2> QED
      BY <2>4, <2>5, <2>6, <2>9, <2>10, <2>11, <2>12, <2>13, <2>14
  <1> QED
    BY <1>1, <1>2

(* Without frames of freeAncestorChain nothing is on its way back.         *)
LEMMA NothingUnwinds ==
    ASSUME \A i \in DOMAIN calls' : calls'[i].op \notin {"down", "up", "free"}
    PROVE  Unwinding'
  BY DEF Unwinding

(* Nothing is allocated or given: the owners of the scopes stay.           *)
LEMMA SameOwners ==
    ASSUME Inv, Quiet, variables' = variables, open' = open, hand' = hand, hidden' = hidden,
           references' = references, ancestor' = ancestor,
           FrameClaims(calls') = FrameClaims(calls), Busy' = {}, ~Running("down")',
           LeafScopes' \subseteq Scopes(SlotClaims' \union FrameClaims(calls'))
    PROVE  EveryScopeHasOneOwner' /\ HeapInv'
  <1>0. /\ Busy = {} /\ ~Running("down") /\ Allocated' = Allocated
        /\ \A i \in DOMAIN calls : calls[i].op \notin {"up", "free"}
        /\ LeafScopes = Scopes(SlotClaims \union FrameClaims(calls))
    BY QuietFacts DEF Allocated
  <1>1. /\ Slots' = Slots /\ SlotClaims' = SlotClaims /\ Claims' = Claims
    BY <1>0 DEF Slots, SlotClaims, SlotScope, OpenClaims, HandClaims, Claims
  <1>2. Owned' = Owned /\ EveryScopeHasOneOwner'
    <2>1. Owned' = Owned
      BY <1>1, OwnedIsScopes, OwnersNext
    <2> QED
      BY <1>0, <1>1, <2>1, OneOwner, OwnersNext DEF Inv
  <1>3. LeafScopes' \subseteq LeafScopes
    BY <1>0, <1>1
  <1>4. HeapInv'
    BY <1>0, <1>1, <1>2, <1>3, QuietHeap
  <1> QED
    BY <1>2, <1>4

-----------------------------------------------------------------------------
(* Xvr_setScopeVariable.                                                   *)

(* An assignment that has begun is about one variable.                     *)
LEMMA AssignedSlot ==
    ASSUME Inv, calls # << >>, Top.op \in {"check", "assign"}
    PROVE  /\ Len(calls) = 1 /\ Top = calls[1] /\ DOMAIN calls = {1} /\ Below = << >> /\ Top \in FrameTypes
           /\ \E m \in Names : /\ Top.at = {m} /\ <<Top.scope, m>> \in DOMAIN variables
                               /\ Slot(Top) = {<<Top.scope, m>>}
           /\ \E o \in open : Top.scope \in Chain(o)
           /\ Top.value.scope \in hand \union {NoScope} /\ Settable(Top.value)
           /\ FrameClaims(calls) = {<<"frame", 1, s>> : s \in {Top.old.scope} \ {NoScope}}
           /\ Top.scope \in Owned \/ Top.scope \in Allocated
           /\ Top.scope \notin LeafScopes
           /\ Top.op = "assign" =>
                 \A slot \in Slot(Top) :
                    /\ variables[slot].value.scope = NoScope
                    /\ LET type == variables[slot].type IN
                       type.of = "any" \/ Top.value.kind \in {"null", type.of}
  <1> DEFINE n == Len(calls)
  <1>0. TypeOK /\ Quiet
    BY DEF Inv, Quiet, Copies
  <1>0a. /\ n \in Nat \ {0} /\ DOMAIN calls = 1..n /\ Top = calls[n]
         /\ Below \in Seq(FrameTypes) /\ Len(Below) = n - 1 /\ Top \in FrameTypes
    BY <1>0, TopFacts
  <1>0b. n \in DOMAIN calls
    <2> HIDE DEF n
    <2> QED
      BY <1>0a
  <1>1. /\ n \in Nat \ {0} /\ DOMAIN calls = 1..n /\ Top = calls[n] /\ n \in DOMAIN calls
        /\ Below \in Seq(FrameTypes) /\ Len(Below) = n - 1 /\ Top \in FrameTypes
    BY <1>0a, <1>0b
  <1>2. n = 1
    <2>1. n > 1 => calls[n].op = "copy"
      BY <1>0, <1>1, QuietFacts
    <2>2. ~(n > 1)
      BY <1>1, <2>1
    <2> QED
      BY <1>1, <2>2
  <1>3. /\ Len(calls) = 1 /\ Top = calls[1] /\ DOMAIN calls = {1} /\ Below = << >>
    BY <1>1, <1>2
  <1>4. /\ \E m \in Names : Top.at = {m} /\ <<Top.scope, m>> \in DOMAIN variables
        /\ \E o \in open : Top.scope \in Chain(o)
        /\ Top.value.scope \in hand \union {NoScope} /\ Settable(Top.value)
        /\ Top.op = "assign" =>
              \A slot \in Slot(Top) :
                 /\ variables[slot].value.scope = NoScope
                 /\ LET type == variables[slot].type IN
                    type.of = "any" \/ Top.value.kind \in {"null", type.of}
    BY <1>3 DEF Inv, StackInv, Assigning, AssigningOn, Sets
  <1>5. \E m \in Names : /\ Top.at = {m} /\ <<Top.scope, m>> \in DOMAIN variables
                         /\ Slot(Top) = {<<Top.scope, m>>}
    BY <1>4 DEF Slot
  <1>6. FrameClaims(calls) = {<<"frame", 1, s>> : s \in {Top.old.scope} \ {NoScope}}
    <2>1. FrameClaims(calls) = HeldAt(1, Top)
      BY <1>3 DEF FrameClaims
    <2> QED
      BY <2>1 DEF HeldAt, Holds
  <1>7. Top.scope \notin LeafScopes
    BY <1>4, OpenNotLeaf
  <1>8. Top.scope \in Allocated
    BY <1>4, EnclosingSubset DEF Chain, Allocated
  <1> QED
    BY <1>1, <1>3, <1>4, <1>5, <1>6, <1>7, <1>8

(* The frame of an assignment goes on.                                     *)
LEMMA SetFrame ==
    ASSUME NEW f \in FrameTypes, NEW op \in {"replace", "assign"}, f.op = "check",
           NEW g, g = [f EXCEPT !.op = op]
    PROVE  /\ g \in FrameTypes /\ g.op = op /\ g.scope = f.scope /\ g.at = f.at
           /\ g.value = f.value /\ g.old = f.old
           /\ Holds(g) = Holds(f) /\ Slot(g) = Slot(f)
           /\ BusyBy(g) = (IF op = "replace" THEN Slot(f) ELSE {})
  <1>1. /\ g \in FrameTypes /\ g.op = op /\ g.scope = f.scope /\ g.at = f.at
        /\ g.value = f.value /\ g.old = f.old
    BY DEF FrameTypes
  <1>2. Holds(g) = Holds(f)
    BY <1>1 DEF Holds
  <1>3. Slot(g) = Slot(f)
    BY <1>1 DEF Slot
  <1>4. BusyBy(g) = (IF op = "replace" THEN Slot(f) ELSE {})
    BY <1>1, <1>3 DEF BusyBy
  <1> QED
    BY <1>1, <1>2, <1>3, <1>4

(* What an assignment keeps, once it has checked the value.                *)
LEMMA SetAccepted ==
    ASSUME Inv, calls # << >>, Top.op = "check", variables' = variables, open' = open, hand' = hand,
           ancestor' = ancestor,
           NEW slot \in Slot(Top), 
           LET type == variables[slot].type IN
               type.of = "any" \/ Top.value.kind \in {"null", type.of},
           NEW g, g.op = "replace" \/ (g.op = "assign" /\ variables[slot].value.scope = NoScope),
           g.scope = Top.scope, g.at = Top.at, g.value = Top.value,
           calls' # << >>, calls'[1] = g
    PROVE  Assigning'
  <1>1. PICK m \in Names : /\ Top.at = {m} /\ <<Top.scope, m>> \in DOMAIN variables
                           /\ Slot(Top) = {<<Top.scope, m>>}
    BY AssignedSlot
  <1>2. /\ \E o \in open : Top.scope \in Chain(o)
        /\ Top.value.scope \in hand \union {NoScope} /\ Settable(Top.value)
    BY AssignedSlot
  <1>3. Slot(g) = {slot} /\ slot = <<g.scope, m>> /\ g.at = {m} /\ slot \in DOMAIN variables'
    BY <1>1 DEF Slot
  <1>4. \E o \in open' : g.scope \in Chain(o)'
    BY <1>2 DEF Chain
  <1> QED
    BY <1>2, <1>3, <1>4 DEF Assigning, AssigningOn, Slot

(* The check preserves the invariant, whatever it says.                    *)
LEMMA SetCheckedStep ==
    ASSUME Inv, SetChecked
    PROVE  Inv'
  <1>0. /\ TypeOK /\ calls # << >> /\ Top.op = "check" /\ Quiet
        /\ references' = references /\ ancestor' = ancestor /\ variables' = variables
        /\ open' = open /\ hand' = hand /\ hidden' = hidden /\ fault' = fault
        /\ Allocated' = Allocated
        /\ UNCHANGED <<heap, client, hidden, fault>>
    BY DEF Inv, SetChecked, Running, heap, client, Quiet, Copies, Allocated
  <1>1. PICK slot \in Slot(Top) :
            calls' = IF CheckType(variables[slot].type, Top.old, Top.value, Top.constCheck)
                     THEN Freeing(Append(Below, [Top EXCEPT !.op =
                                      IF variables[slot].value.scope = NoScope THEN "assign" ELSE "replace"]),
                                  variables[slot].value)
                     ELSE Freeing(Below, Top.old)
    BY DEF SetChecked
  <1>2. /\ Len(calls) = 1 /\ Top = calls[1] /\ DOMAIN calls = {1} /\ Below = << >> /\ Top \in FrameTypes
        /\ Slot(Top) = {slot} /\ slot \in DOMAIN variables
        /\ FrameClaims(calls) = {<<"frame", 1, s>> : s \in {Top.old.scope} \ {NoScope}}
    <2>1. \E m \in Names : /\ <<Top.scope, m>> \in DOMAIN variables
                           /\ Slot(Top) = {<<Top.scope, m>>}
      BY <1>0, AssignedSlot
    <2>2. /\ Len(calls) = 1 /\ Top = calls[1] /\ DOMAIN calls = {1} /\ Below = << >> /\ Top \in FrameTypes
          /\ FrameClaims(calls) = {<<"frame", 1, s>> : s \in {Top.old.scope} \ {NoScope}}
      BY <1>0, AssignedSlot
    <2> QED
      BY <2>1, <2>2
  <1>3. /\ Busy = {} /\ Slots = {a \in DOMAIN variables : variables[a].value.scope # NoScope}
        /\ \A a \in DOMAIN variables : variables[a].value.kind # "freed"
    BY <1>0, <1>2, QuietFacts
  <1>4. FreedOnlyWhenAssigned'
    BY <1>0, <1>3 DEF FreedOnlyWhenAssigned
  <1>5. CASE ~CheckType(variables[slot].type, Top.old, Top.value, Top.constCheck)
    <2>1. calls' = Freeing(<< >>, Top.old) /\ Top.old \in ValueTypes
      BY <1>1, <1>2, <1>5 DEF FrameTypes
    <2>2. /\ calls' \in Seq(FrameTypes) /\ ~Running("down")' /\ Busy' = {}
          /\ Shape' /\ Assigning' /\ Copied' /\ Unwinding'
          /\ FrameClaims(calls') = {<<"frame", 1, s>> : s \in {Top.old.scope} \ {NoScope}}
          /\ LeafScopes' = Scopes(SlotClaims')
      BY <2>1, LastPop
    <2>3. TypeOK'
      BY <1>0, <2>2 DEF TypeOK
    <2>4. EveryScopeHasOneOwner' /\ HeapInv'
      <3>1. LeafScopes' \subseteq Scopes(SlotClaims' \union FrameClaims(calls'))
        BY <2>2 DEF Scopes
      <3> QED
        BY <1>0, <1>2, <2>2, <3>1, SameOwners
    <2> QED
      BY <1>4, <2>2, <2>3, <2>4 DEF Inv, StackInv
  <1>6. ASSUME CheckType(variables[slot].type, Top.old, Top.value, Top.constCheck),
               variables[slot].value.scope = NoScope
        PROVE  Inv'
    <2> DEFINE g == [Top EXCEPT !.op = "assign"]
    <2>1. calls' = <<g>>
      BY <1>1, <1>2, <1>6 DEF Freeing
    <2>2. /\ g \in FrameTypes /\ g.op = "assign" /\ g.scope = Top.scope /\ g.at = Top.at
          /\ g.value = Top.value /\ Holds(g) = Holds(Top) /\ BusyBy(g) = {}
      BY <1>0, <1>2, SetFrame
    <2> HIDE DEF g
    <2>3. /\ calls' \in Seq(FrameTypes) /\ calls' # << >> /\ Len(calls') = 1 /\ DOMAIN calls' = {1}
          /\ calls'[1] = g /\ Last(calls') = g
          /\ FrameClaims(calls') = HeldAt(1, g) /\ BusyIn(calls') = BusyBy(g)
      BY <2>1, <2>2, OneFrame
    <2>4. /\ FrameClaims(calls') = FrameClaims(calls) /\ Busy' = {} /\ ~Running("down")' /\ Top' = g
      <3>1. FrameClaims(calls) = HeldAt(1, Top)
        BY <1>2 DEF FrameClaims
      <3> QED
        BY <2>2, <2>3, <3>1, BusyIsIn DEF HeldAt, Running, Top
    <2>5. TypeOK'
      BY <1>0, <2>3 DEF TypeOK
    <2>6. EveryScopeHasOneOwner' /\ HeapInv'
      <3>1. LeafScopes' \subseteq Scopes(SlotClaims' \union FrameClaims(calls'))
        BY DEF Scopes, LeafScopes, FrameClaims
      <3> QED
        BY <1>0, <2>4, <3>1, SameOwners
    <2>7. Assigning'
      BY <1>0, <1>6, <2>2, <2>3, SetAccepted DEF CheckType
    <2>8. /\ \A i \in 2..Len(calls') : FALSE
          /\ \A i \in 1..Len(calls') - 1 : FALSE
      BY <2>3
    <2>9. Shape'
      BY <2>2, <2>3, <2>4, <2>8 DEF Shape, Copies
    <2>10. Copied'
      BY <2>8 DEF Copied, CopiedOn
    <2>11. Unwinding'
      BY <2>2, <2>3, NothingUnwinds
    <2> QED
      BY <1>4, <2>5, <2>6, <2>7, <2>9, <2>10, <2>11 DEF Inv, StackInv
  <1>7. ASSUME CheckType(variables[slot].type, Top.old, Top.value, Top.constCheck),
               variables[slot].value.scope # NoScope
        PROVE  Inv'
    <2> DEFINE g == [Top EXCEPT !.op = "replace"]
               h == Frame("pop", SlotScope(slot))
    <2>1. calls' = Append(Append(Below, g), h)
      BY <1>1, <1>7 DEF Freeing, SlotScope
    <2>2. /\ g \in FrameTypes /\ g.op = "replace" /\ g.scope = Top.scope /\ g.at = Top.at
          /\ g.value = Top.value /\ Holds(g) = Holds(Top) /\ BusyBy(g) = {slot}
      BY <1>0, <1>2, SetFrame
    <2>3. slot \in Slots /\ BusyBy(Top) = {}
      BY <1>0, <1>2, <1>3, <1>7 DEF BusyBy
    <2> HIDE DEF g
    <2>4. TypeOK' /\ EveryScopeHasOneOwner' /\ HeapInv'
      BY <1>0, <2>1, <2>2, <2>3, FreesValue
    <2>5. SlotScope(slot) \in Addresses
      <3>1. SlotScope(slot) \in Owned
        BY <2>3 DEF Owned
      <3> QED
        BY <1>0, <3>1 DEF Inv, EveryScopeHasOneOwner, TypeOK
    <2>6. h \in FrameTypes /\ h.op = "pop" /\ h.at = {}
      BY <2>5, FrameType, FrameFields DEF FrameOps
    <2> HIDE DEF h
    <2>7. /\ calls' # << >> /\ Top' = h /\ Len(calls') = 1 + 1
          /\ DOMAIN calls' = 1..1 + 1 /\ calls'[1] = g /\ calls'[1 + 1] = h
      BY <1>0, <1>2, <2>1, <2>2, <2>6, PushTop
    <2>8. /\ Len(calls') = 2 /\ DOMAIN calls' = {1, 2} /\ calls'[2] = h
          /\ \A i \in 2..Len(calls') : i = 2
          /\ \A i \in 1..Len(calls') - 1 : i = 1
      BY <2>7
    <2>9. Assigning'
      BY <1>0, <1>7, <2>2, <2>7, SetAccepted DEF CheckType
    <2>10. Shape'
      BY <2>2, <2>6, <2>7, <2>8 DEF Shape, Frees
    <2>11. Copied'
      BY <2>6, <2>8 DEF Copied, CopiedOn
    <2>12. Unwinding'
      BY <2>2, <2>6, <2>7, <2>8, NothingUnwinds
    <2> QED
      BY <1>4, <2>4, <2>9, <2>10, <2>11, <2>12 DEF Inv, StackInv
  <1> QED
    BY <1>5, <1>6, <1>7

-----------------------------------------------------------------------------
(* Xvr_copyScope.                                                          *)

(* The frame of a new copy.                                                *)
LEMMA NewCopy ==
    ASSUME NEW s \in Addresses, NEW value \in ValueTypes, NEW f, f = CopyFrame(s, value)
    PROVE  /\ f \in FrameTypes /\ f.op = "copy" /\ f.scope = s /\ f.value = value /\ f.at = {}
           /\ Holds(f) = {s} /\ BusyBy(f) = {}
  <1>1. Frame("copy", s) \in FrameTypes
    BY FrameType DEF FrameOps
  <1>2. /\ f \in FrameTypes /\ f.op = "copy" /\ f.scope = s /\ f.value = value /\ f.at = {}
    BY <1>1, FrameFields DEF CopyFrame, FrameTypes
  <1>3. Holds(f) = {s} /\ BusyBy(f) = {}
    BY <1>2 DEF Holds, BusyBy
  <1> QED
    BY <1>2, <1>3

(* A stack on which a copy may start, and the value it is of.              *)
MayCopy(stack, value) ==
    /\ stack \in Seq(FrameTypes) /\ stack # << >>
    /\ stack[1].op \in Copies /\ \A i \in DOMAIN stack : i > 1 => stack[i].op = "copy"
    /\ FrameClaims(stack) = FrameClaims(calls)
    /\ calls # << >> => stack[1] = calls[1]
    /\ AssigningOn(stack) /\ (stack[1].op = "check" => stack[1].old.scope = NoScope)
    /\ CopiedOn(stack)
    /\ value \in ValueTypes /\ value.kind # "freed"
    /\ value.scope \in SlotScopes \union (IF stack[1].op = "capture" THEN open ELSE hand)
    /\ LET g == stack[Len(stack)] IN
       /\ g.op = "copy" => \A m \in g.at : value.kind = ValueOf(g.value.scope, m).kind
       /\ g.op = "assign" => value = g.value
    /\ Len(stack) > 1 /\ ~hidden => value.kind = "function"

(* The copies in progress, with one more.                                  *)
LEMMA CopiedPushed ==
    ASSUME NEW stack \in Seq(FrameTypes), stack # << >>, CopiedOn(stack), variables' = variables,
           open' = open, hand' = hand, hidden' = hidden, SlotScopes' = SlotScopes,
           NEW f \in FrameTypes, f.op = "copy", f.at = {}, f.value.kind # "freed",
           f.value.scope \in SlotScopes \union (IF stack[1].op = "capture" THEN open ELSE hand),
           NEW g, g = stack[Len(stack)],
           g.op = "copy" => \A m \in g.at : f.value.kind = ValueOf(g.value.scope, m).kind,
           g.op = "assign" => f.value = g.value,
           Len(stack) > 1 /\ ~hidden => f.value.kind = "function",
           calls' = Append(stack, f)
    PROVE  Copied'
  <1> DEFINE n == Len(stack)
  <1>1. /\ n \in Nat \ {0} /\ Len(calls') = n + 1 /\ calls'[n + 1] = f /\ calls'[n] = g
        /\ \A i \in 1..n : calls'[i] = stack[i]
    BY PushFacts
  <1> HIDE DEF n
  <1>3. ASSUME NEW i \in 2..n, stack[i].op = "copy"
        PROVE  LET h == calls'[i]
                   k == calls'[i - 1]
                   from == h.value.scope
               IN  /\ from \in SlotScopes' \union (IF calls'[1].op = "capture" THEN open' ELSE hand')
                   /\ h.value.kind # "freed"
                   /\ h.at \subseteq NamesOf(from) \ NamesOf(h.scope)
                   /\ k.op = "copy" => \A m \in k.at : h.value.kind = ValueOf(k.value.scope, m).kind
                   /\ k.op = "assign" => h.value = k.value
                   /\ i > 2 /\ ~hidden' => h.value.kind = "function"
    <2>1. calls'[i] = stack[i] /\ calls'[i - 1] = stack[i - 1] /\ calls'[1] = stack[1]
      BY <1>1
    <2>2. i \in 2..Len(stack)
      BY DEF n
    <2>3. LET h == stack[i]
              k == stack[i - 1]
              from == h.value.scope
          IN  /\ from \in SlotScopes \union (IF stack[1].op = "capture" THEN open ELSE hand)
              /\ h.value.kind # "freed"
              /\ h.at \subseteq NamesOf(from) \ NamesOf(h.scope)
              /\ k.op = "copy" => \A m \in k.at : h.value.kind = ValueOf(k.value.scope, m).kind
              /\ k.op = "assign" => h.value = k.value
              /\ i > 2 /\ ~hidden => h.value.kind = "function"
      BY <1>3, <2>2 DEF CopiedOn
    <2> QED
      BY ONLY <2>1, <2>3, SlotScopes' = SlotScopes, open' = open, hand' = hand, hidden' = hidden
  <1>4. LET from == f.value.scope
        IN  /\ from \in SlotScopes' \union (IF calls'[1].op = "capture" THEN open' ELSE hand')
            /\ f.value.kind # "freed"
            /\ f.at \subseteq NamesOf(from) \ NamesOf(f.scope)
            /\ g.op = "copy" => \A m \in g.at : f.value.kind = ValueOf(g.value.scope, m).kind
            /\ g.op = "assign" => f.value = g.value
            /\ n + 1 > 2 /\ ~hidden' => f.value.kind = "function"
    <2>1. n + 1 > 2 => Len(stack) > 1
      BY <1>1 DEF n
    <2>2. calls'[1] = stack[1]
      BY <1>1
    <2> QED
      BY <2>1, <2>2
  <1>5. \A i \in 2..Len(calls') :
            \/ i \in 2..n /\ calls'[i] = stack[i]
            \/ i = n + 1 /\ calls'[i] = f /\ i - 1 = n /\ calls'[i - 1] = g
    BY <1>1
  <1>6. \A i \in 2..Len(calls') : calls'[i].op = "copy" =>
            LET h == calls'[i]
                k == calls'[i - 1]
                from == h.value.scope
            IN  /\ from \in SlotScopes' \union (IF calls'[1].op = "capture" THEN open' ELSE hand')
                /\ h.value.kind # "freed"
                /\ h.at \subseteq NamesOf(from) \ NamesOf(h.scope)
                /\ k.op = "copy" => \A m \in k.at : h.value.kind = ValueOf(k.value.scope, m).kind
                /\ k.op = "assign" => h.value = k.value
                /\ i > 2 /\ ~hidden' => h.value.kind = "function"
    <2> SUFFICES ASSUME NEW i \in 2..Len(calls'), calls'[i].op = "copy"
                 PROVE  LET h == calls'[i]
                            k == calls'[i - 1]
                            from == h.value.scope
                        IN  /\ from \in SlotScopes' \union (IF calls'[1].op = "capture" THEN open' ELSE hand')
                            /\ h.value.kind # "freed"
                            /\ h.at \subseteq NamesOf(from) \ NamesOf(h.scope)
                            /\ k.op = "copy" => \A m \in k.at : h.value.kind = ValueOf(k.value.scope, m).kind
                            /\ k.op = "assign" => h.value = k.value
                            /\ i > 2 /\ ~hidden' => h.value.kind = "function"
      OBVIOUS
    <2>1. CASE i \in 2..n /\ calls'[i] = stack[i]
      BY <1>3, <2>1
    <2>2. CASE i = n + 1 /\ calls'[i] = f /\ i - 1 = n /\ calls'[i - 1] = g
      BY <1>4, <2>2
    <2> QED
      BY <1>5, <2>1, <2>2
  <1>7. /\ \A u : NamesOf(u)' = NamesOf(u)
        /\ \A u, m : ValueOf(u, m)' = ValueOf(u, m)
    BY DEF NamesOf, ValueOf
  <1> QED
    BY ONLY <1>6, <1>7 DEF Copied, CopiedOn

(* A copy starts with an empty scope that the call owns.                   *)
LEMMA CopyStarts ==
    ASSUME Inv, Quiet, NEW stack, NEW value, MayCopy(stack, value), NEW s \in Addresses,
           Alloc(s, ancestor[value.scope]), NEW f, f = CopyFrame(s, value), calls' = Append(stack, f),
           UNCHANGED <<variables, client, hidden, fault>>
    PROVE  Inv'
  <1> DEFINE n == Len(stack)
             from == value.scope
             above == ancestor[from]
             q == <<"frame", n + 1, s>>
  <1>0. /\ TypeOK /\ variables' = variables
        /\ open' = open /\ hand' = hand /\ hidden' = hidden /\ fault' = fault
    BY DEF Inv, client
  <1>1. /\ stack \in Seq(FrameTypes) /\ stack # << >> /\ value \in ValueTypes
        /\ stack[1].op \in Copies /\ \A i \in DOMAIN stack : i > 1 => stack[i].op = "copy"
        /\ FrameClaims(stack) = FrameClaims(calls)
        /\ calls # << >> => stack[1] = calls[1]
        /\ from \in SlotScopes \union open \union hand
    BY DEF MayCopy
  <1>2. /\ f \in FrameTypes /\ f.op = "copy" /\ f.scope = s /\ f.value = value /\ f.at = {}
        /\ Holds(f) = {s} /\ BusyBy(f) = {}
    BY <1>1, NewCopy
  <1>3. /\ Busy = {} /\ ~Running("down")
        /\ \A i \in DOMAIN calls : calls[i].op \notin {"up", "free"}
        /\ LeafScopes = Scopes(SlotClaims \union FrameClaims(calls))
        /\ \A slot \in DOMAIN variables : variables[slot].value.kind = "freed" =>
               calls # << >> /\ calls[1].op = "assign" /\ slot \in Slot(calls[1])
    BY QuietFacts
  <1>4. from \in Owned
    BY <1>1 DEF Owned, SlotScopes
  <1>5. above \in Allocated \union {NoScope} /\ above \notin LeafScopes
    BY <1>4, OwnedAllocated DEF Inv, HeapInv, Rooted, Leaves
  <1> HIDE DEF above
  <1>6. Alloc(s, above)
    BY DEF above
  <1>7. /\ s \notin Allocated /\ Allocated' = Allocated \union {s}
        /\ \A u \in Allocated : Chain(u)' = Chain(u)
    BY <1>3, <1>5, <1>6, AllocChains
  <1>8. /\ calls' \in Seq(FrameTypes) /\ calls' # << >>
        /\ Len(calls') = n + 1 /\ calls'[n + 1] = f
        /\ \A i \in 1..n : calls'[i] = stack[i]
        /\ Last(calls') = f
        /\ FrameClaims(calls') = FrameClaims(stack) \union HeldAt(n + 1, f)
        /\ n \in Nat \ {0} /\ DOMAIN stack = 1..n
    BY <1>1, <1>2, PushFacts, PushClaims, StackFacts
  <1> HIDE DEF n
  <1>9. /\ DOMAIN calls' = 1..n + 1 /\ calls'[1] = stack[1] /\ Top' = f
        /\ \A i \in DOMAIN calls' : i > 1 => calls'[i].op = "copy"
        /\ \A i \in 2..Len(calls') : i \in DOMAIN calls' /\ i > 1
        /\ \A i \in 1..Len(calls') - 1 : i \in DOMAIN calls'
    <2>1. DOMAIN calls' = 1..n + 1
      BY <1>8
    <2>2. \A i \in DOMAIN calls' : (i = n + 1 /\ calls'[i] = f) \/ (i \in DOMAIN stack /\ calls'[i] = stack[i])
      BY <1>8, <2>1
    <2>3. \A i \in DOMAIN calls' : i > 1 => calls'[i].op = "copy"
      BY <1>1, <1>2, <2>2
    <2>4. calls'[1] = stack[1] /\ Top' = f
      BY <1>8 DEF Top
    <2>5. /\ \A i \in 2..Len(calls') : i \in DOMAIN calls' /\ i > 1
          /\ \A i \in 1..Len(calls') - 1 : i \in DOMAIN calls'
      BY <1>8, <2>1
    <2> QED
      BY <2>1, <2>3, <2>4, <2>5
  <1>10. \A i \in DOMAIN calls' : calls'[i].op \in Copies \union {"copy"}
    <2>1. \A i \in DOMAIN calls' : i = 1 \/ i > 1
      BY <1>9
    <2> QED
      BY <1>1, <1>9, <2>1
  <1>11. FrameClaims(calls') = FrameClaims(calls) \union {q} /\ Busy' = {}
    <2>1. HeldAt(n + 1, f) = {q}
      BY <1>2 DEF HeldAt
    <2>2. \A i \in DOMAIN calls' : BusyBy(calls'[i]) = {}
      BY <1>10 DEF BusyBy, Copies
    <2>3. BusyIn(calls') = {}
      BY ONLY <2>2 DEF BusyIn
    <2> QED
      BY <1>1, <1>8, <2>1, <2>3, BusyIsIn
  <1>12. Slots' = Slots /\ SlotClaims' = SlotClaims /\ SlotScopes' = SlotScopes
    BY <1>0, <1>3, <1>11 DEF Slots, SlotClaims, SlotScopes, SlotScope
  <1>13. Claims' = Claims \union {q}
    BY <1>0, <1>11, <1>12 DEF Claims, OpenClaims, HandClaims
  <1>14. Owned' = Owned \union {s} /\ OnePerScope(Claims')
    <2>1. OnePerScope(Claims) /\ q[3] = s
      BY OneOwner DEF Inv
    <2>2. s \notin Scopes(Claims)
      BY <1>7, OwnedIsScopes DEF Inv, EveryScopeHasOneOwner
    <2> HIDE DEF q
    <2>3. OnePerScope(Claims') /\ Scopes(Claims') = Scopes(Claims) \union {s}
      BY <1>13, <2>1, <2>2, NewClaim
    <2> QED
      BY <2>3, OwnedIsScopes, OwnersNext
  <1>15. EveryScopeHasOneOwner'
    <2>1. Owned' \subseteq Allocated'
      BY <1>7, <1>14 DEF Inv, EveryScopeHasOneOwner
    <2> QED
      BY <2>1, <1>14, OwnersNext
  <1>16. LeafScopes' \subseteq LeafScopes \union {s}
    <2>1. FrameClaims(calls)' = FrameClaims(calls) \union {q} /\ q[3] = s
      BY <1>11 DEF FrameClaims
    <2> QED
      BY <1>3, <1>12, <2>1 DEF LeafScopes, Scopes
  <1>17. ~Running("down")'
    BY <1>2, <1>9 DEF Running
  <1>18. HeapInv'
    BY <1>0, <1>3, <1>5, <1>6, <1>12, <1>14, <1>15, <1>16, <1>17, AllocHeap
  <1>19. TypeOK'
    <2>1. references' \in [Allocated' -> Nat] /\ ancestor' \in [Allocated' -> Addresses \union {NoScope}]
      <3>1. references \in [Allocated -> Nat] /\ ancestor \in [Allocated -> Addresses \union {NoScope}]
            /\ Allocated \subseteq Addresses
        BY <1>0 DEF TypeOK
      <3>2. above \in Addresses \union {NoScope}
        BY <1>5, <3>1
      <3>3. /\ ancestor' = [t \in Allocated \union {s} |-> IF t = s THEN above ELSE ancestor[t]]
            /\ references' = [t \in Allocated \union {s} |->
                                 IF t = s THEN 1
                                 ELSE IF t \in Chain(above) THEN references[t] + 1
                                 ELSE references[t]]
        BY <1>6 DEF Alloc
      <3>4. ancestor' \in [Allocated' -> Addresses \union {NoScope}]
        BY <1>7, <3>1, <3>2, <3>3
      <3>5. references' \in [Allocated' -> Nat]
        BY <1>7, <3>1, <3>3
      <3> QED
        BY <3>4, <3>5
    <2> QED
      <3>1. Allocated' \subseteq Addresses /\ DOMAIN variables \subseteq Allocated' \X Names
        BY <1>0, <1>7 DEF TypeOK
      <3> QED
        BY <1>0, <1>8, <2>1, <3>1 DEF TypeOK
  <1>20. Shape'
    BY <1>1, <1>2, <1>9, <1>10 DEF Shape, Copies
  <1>21. Assigning'
    <2>1. \A o \in open : Chain(o)' = Chain(o)
      BY <1>7, OwnedAllocated DEF Owned
    <2>2. AssigningOn(stack) /\ (stack[1].op = "check" => stack[1].old.scope = NoScope)
      BY DEF MayCopy
    <2>3. \A g : Slot(g)' = Slot(g)
      BY DEF Slot
    <2> QED
      BY <1>0, <1>1, <1>9, <2>1, <2>2, <2>3 DEF Assigning, AssigningOn
  <1>22. Copied'
    <2>1. /\ CopiedOn(stack) /\ value.kind # "freed"
          /\ from \in SlotScopes \union (IF stack[1].op = "capture" THEN open ELSE hand)
          /\ LET g == stack[Len(stack)] IN
             /\ g.op = "copy" => \A m \in g.at : value.kind = ValueOf(g.value.scope, m).kind
             /\ g.op = "assign" => value = g.value
          /\ Len(stack) > 1 /\ ~hidden => value.kind = "function"
      BY DEF MayCopy
    <2> QED
      BY <1>0, <1>1, <1>2, <1>12, <2>1, CopiedPushed DEF n
  <1>23. Unwinding'
    BY <1>10, NothingUnwinds DEF Copies
  <1>24. FreedOnlyWhenAssigned'
    BY <1>0, <1>1, <1>3, <1>8, <1>9 DEF FreedOnlyWhenAssigned, Slot
  <1> QED
    BY <1>15, <1>18, <1>19, <1>20, <1>21, <1>22, <1>23, <1>24 DEF Inv, StackInv

-----------------------------------------------------------------------------
(* A copy is given to the frame that called for it.                        *)

Labelled(w, x, S) == {<<w, x, s>> : s \in S}
Given(stack, value) == Labelled("frame", Len(stack) + 1, {value.scope} \ {NoScope})

(* A stack whose last frame may get a copy, and the copy.                  *)
MayGive(stack, value) ==
    /\ stack \in Seq(FrameTypes) /\ stack # << >>
    /\ stack[1].op \in Copies /\ \A i \in DOMAIN stack : i > 1 => stack[i].op = "copy"
    /\ FrameClaims(calls) = FrameClaims(stack) \union Given(stack, value)
    /\ calls # << >> => stack[1] = calls[1]
    /\ AssigningOn(stack) /\ (stack[1].op = "check" => stack[1].old.scope = NoScope)
    /\ CopiedOn(stack)
    /\ value \in ValueTypes /\ value.kind # "freed"
    /\ LET g == stack[Len(stack)] IN
       /\ g.op = "copy" => \A m \in g.at : value.kind = ValueOf(g.value.scope, m).kind
       /\ g.op = "assign" => value.kind = g.value.kind /\ Settable(value)
       /\ g.op = "capture" => value.scope # NoScope
    /\ Len(stack) > 1 /\ ~hidden /\ value.scope # NoScope => value.kind = "function"

(* A scope, if there is one, goes from one owner to another.               *)
LEMMA MovedSet ==
    ASSUME NEW C, OnePerScope(C), NEW P, P \subseteq C, NEW Q, OnePerScope(Q), Scopes(P) = Scopes(Q),
           NEW D, D = (C \ P) \union Q
    PROVE  OnePerScope(D) /\ Scopes(D) = Scopes(C)
  <1>1. /\ \A p \in P : \E q \in Q : q[3] = p[3]
        /\ \A q \in Q : \E p \in P : q[3] = p[3]
    <2>1. (\A p \in P : p[3] \in Scopes(P)) /\ (\A q \in Q : q[3] \in Scopes(Q))
      BY DEF Scopes
    <2>2. (\A p \in P : p[3] \in Scopes(Q)) /\ (\A q \in Q : q[3] \in Scopes(P))
      BY <2>1
    <2> QED
      BY <2>2 DEF Scopes
  <1>2. ASSUME NEW d \in C \ P, NEW q \in Q
        PROVE  d[3] # q[3]
    BY <1>1, <1>2 DEF OnePerScope
  <1>3. OnePerScope(D)
    <2> SUFFICES ASSUME NEW d \in D, NEW e \in D, d[3] = e[3] PROVE d = e
      BY DEF OnePerScope
    <2>1. CASE d \in Q /\ e \in Q
      BY <2>1 DEF OnePerScope
    <2>2. CASE d \in C \ P /\ e \in C \ P
      BY <2>2 DEF OnePerScope
    <2> QED
      BY <1>2, <2>1, <2>2
  <1>4. ASSUME NEW p \in C PROVE \E d \in D : d[3] = p[3]
    BY <1>1
  <1>5. ASSUME NEW d \in D PROVE \E p \in C : d[3] = p[3]
    BY <1>1
  <1> QED
    BY <1>3, <1>4, <1>5 DEF Scopes

LEMMA Relabelled ==
    ASSUME NEW w, NEW x, NEW S
    PROVE  OnePerScope(Labelled(w, x, S)) /\ Scopes(Labelled(w, x, S)) = S
  <1> DEFINE P == Labelled(w, x, S)
  <1>1. \A p \in P : p[3] \in S /\ p = <<w, x, p[3]>>
    BY DEF Labelled
  <1>2. \A s \in S : <<w, x, s>> \in P /\ <<w, x, s>>[3] = s
    BY DEF Labelled
  <1>3. \A s \in S : \E p \in P : p[3] = s
    BY ONLY <1>2
  <1>4. OnePerScope(P)
    BY ONLY <1>1 DEF OnePerScope
  <1> QED
    BY ONLY <1>1, <1>3, <1>4 DEF Scopes

(* The scope of the copy has another owner from now on.                    *)
LEMMA GivenOwner ==
    ASSUME Inv, ancestor' = ancestor, NEW P, P \subseteq Claims, NEW Q, OnePerScope(Q), Scopes(P) = Scopes(Q),
           Claims' = (Claims \ P) \union Q
    PROVE  Owned' = Owned /\ EveryScopeHasOneOwner'
  <1>1. OnePerScope(Claims) /\ Owned \subseteq Allocated
    BY OneOwner DEF Inv
  <1>2. OnePerScope(Claims') /\ Scopes(Claims') = Scopes(Claims)
    BY <1>1, MovedSet
  <1>3. Owned' = Owned
    BY <1>2, OwnedIsScopes, OwnersNext
  <1> QED
    BY <1>1, <1>2, <1>3, OwnersNext DEF Allocated

(* The stack and the claims when a copy is given.                          *)
LEMMA GiveFacts ==
    ASSUME Inv, Quiet, NEW stack, NEW value, MayGive(stack, value), NEW f, f = stack[Len(stack)]
    PROVE  /\ f \in FrameTypes /\ Last(stack) = f /\ Len(stack) \in Nat \ {0} /\ DOMAIN stack = 1..Len(stack)
           /\ value.scope \in Addresses \union {NoScope}
           /\ Given(stack, value) \subseteq FrameClaims(calls)
           /\ Given(stack, value) \intersect FrameClaims(stack) = {}
           /\ FrameClaims(stack) = FrameClaims(calls) \ Given(stack, value)
           /\ f.op \in Copies => /\ Len(stack) = 1 /\ stack[1] = f /\ Front(stack) = << >>
                                 /\ FrameClaims(stack) = HeldAt(1, f)
           /\ f.op \notin Copies => f.op = "copy" /\ Len(stack) > 1
  <1> DEFINE n == Len(stack)
  <1>1. /\ stack \in Seq(FrameTypes) /\ stack # << >>
        /\ stack[1].op \in Copies /\ \A i \in DOMAIN stack : i > 1 => stack[i].op = "copy"
        /\ FrameClaims(calls) = FrameClaims(stack) \union Given(stack, value)
        /\ value \in ValueTypes
    BY DEF MayGive
  <1>2. /\ n \in Nat \ {0} /\ DOMAIN stack = 1..n /\ Last(stack) = f /\ f \in FrameTypes
        /\ Front(stack) \in Seq(FrameTypes) /\ Len(Front(stack)) = n - 1
    BY <1>1, StackFacts
  <1>3. value.scope \in Addresses \union {NoScope}
    BY <1>1 DEF ValueTypes
  <1>4. \A p \in FrameClaims(stack) : p[2] \in 1..n
    BY <1>2 DEF FrameClaims, HeldAt
  <1>5. \A p \in Given(stack, value) : p[2] = n + 1
    BY DEF Given, Labelled
  <1>6. Given(stack, value) \intersect FrameClaims(stack) = {}
    <2> HIDE DEF n
    <2> QED
      BY <1>2, <1>4, <1>5
  <1>7. ASSUME f.op \in Copies
        PROVE  n = 1 /\ stack[1] = f /\ Front(stack) = << >> /\ FrameClaims(stack) = HeldAt(1, f)
    <2>1. n > 1 => f.op = "copy"
      <3>1. n \in DOMAIN stack
        <4> HIDE DEF n
        <4> QED
          BY <1>2
      <3> QED
        BY <1>1, <3>1
    <2>2. n = 1
      <3> HIDE DEF n
      <3> QED
        BY <1>2, <1>7, <2>1 DEF Copies
    <2>3. DOMAIN stack = {1} /\ stack[1] = f
      BY <1>2, <2>2
    <2>4. Front(stack) = << >>
      BY <1>2, <2>2
    <2> QED
      BY <2>2, <2>3, <2>4 DEF FrameClaims
  <1>8. ASSUME f.op \notin Copies
        PROVE  f.op = "copy" /\ n > 1
    <2>1. n # 1 /\ n \in DOMAIN stack
      <3>1. n # 1
        BY <1>1, <1>8
      <3> HIDE DEF n
      <3> QED
        BY <1>2, <3>1
    <2>2. n > 1
      <3> HIDE DEF n
      <3> QED
        BY <1>2, <2>1
    <2> QED
      BY <1>1, <2>1, <2>2
  <1> QED
    BY <1>1, <1>2, <1>3, <1>6, <1>7, <1>8

(* The client gets it.                                                     *)
LEMMA GivenToClient ==
    ASSUME Inv, Quiet, NEW stack, NEW value, MayGive(stack, value),
           NEW f, f = stack[Len(stack)], f.op \in {"get", "capture"},
           NEW S, S = {value.scope} \ {NoScope},
           \/ f.op = "capture" /\ open' = open \union S /\ hand' = hand
           \/ f.op = "get" /\ hand' = hand \union S /\ open' = open,
           calls' = << >>, UNCHANGED <<heap, hidden, fault>>
    PROVE  Inv'
  <1> DEFINE w == IF f.op = "capture" THEN "open" ELSE "hand"
             P == Labelled("frame", 2, S)
             Q == Labelled(w, 0, S)
  <1>0. /\ TypeOK /\ references' = references /\ ancestor' = ancestor /\ variables' = variables
        /\ hidden' = hidden /\ fault' = fault /\ Allocated' = Allocated
    BY DEF Inv, heap, Allocated
  <1>1. /\ Len(stack) = 1 /\ FrameClaims(stack) = HeldAt(1, f) /\ value.scope \in Addresses \union {NoScope}
        /\ Given(stack, value) \subseteq FrameClaims(calls)
        /\ FrameClaims(stack) = FrameClaims(calls) \ Given(stack, value)
    BY GiveFacts DEF Copies
  <1>2. P \subseteq FrameClaims(calls) /\ FrameClaims(calls) \ P = {}
    <2>1. HeldAt(1, f) = {}
      BY DEF HeldAt, Holds
    <2>2. Given(stack, value) = P
      BY <1>1 DEF Given
    <2> QED
      BY <1>1, <2>1, <2>2
  <1>3. /\ Busy = {} /\ ~Running("down")
        /\ \A i \in DOMAIN calls : calls[i].op \notin {"up", "free"}
        /\ LeafScopes = Scopes(SlotClaims \union FrameClaims(calls))
        /\ \A slot \in DOMAIN variables : variables[slot].value.kind = "freed" =>
               calls # << >> /\ calls[1].op = "assign" /\ slot \in Slot(calls[1])
    BY QuietFacts
  <1>4. /\ calls' \in Seq(FrameTypes) /\ ~Running("down")' /\ Busy' = {}
        /\ Shape' /\ Assigning' /\ Copied' /\ Unwinding'
        /\ FrameClaims(calls') = {<<"frame", 1, s>> : s \in {Null.scope} \ {NoScope}}
        /\ LeafScopes' = Scopes(SlotClaims')
    <2>1. Null \in ValueTypes /\ calls' = Freeing(<< >>, Null)
      BY DEF Null, Value, ValueTypes, Kinds, Freeing
    <2> QED
      BY <2>1, LastPop
  <1>5. FrameClaims(calls') = {} /\ Slots' = Slots /\ SlotClaims' = SlotClaims
    BY <1>0, <1>3, <1>4, EmptyClaims DEF Slots, SlotClaims, SlotScope
  <1>6. OpenClaims' \union HandClaims' = OpenClaims \union HandClaims \union Q
    BY DEF OpenClaims, HandClaims, Labelled
  <1>7. P \subseteq Claims /\ Claims' = (Claims \ P) \union Q
    BY <1>2, <1>5, <1>6, ClaimTags DEF Claims
  <1>8. Owned' = Owned /\ EveryScopeHasOneOwner'
    <2> HIDE DEF w
    <2>1. Scopes(P) = S
      BY ONLY Relabelled
    <2>2. Scopes(Q) = S /\ OnePerScope(Q)
      BY ONLY Relabelled
    <2> HIDE DEF P, Q
    <2> QED
      BY <1>0, <1>7, <2>1, <2>2, GivenOwner
  <1>9. LeafScopes' \subseteq LeafScopes
    BY <1>3, <1>4, <1>5 DEF Scopes
  <1>10. HeapInv'
    BY <1>0, <1>3, <1>4, <1>5, <1>8, <1>9, QuietHeap
  <1>11. TypeOK'
    <2>1. S \subseteq Addresses
      BY <1>1
    <2> QED
      BY <1>0, <1>4, <2>1 DEF TypeOK
  <1>12. FreedOnlyWhenAssigned'
    <2>1. calls # << >> => stack[1] = calls[1]
      BY DEF MayGive
    <2>2. \A slot \in DOMAIN variables : variables[slot].value.kind # "freed"
      BY <1>1, <1>3, <2>1
    <2> QED
      BY <1>0, <2>2 DEF FreedOnlyWhenAssigned
  <1> QED
    BY <1>4, <1>8, <1>10, <1>11, <1>12 DEF Inv, StackInv

(* The check of an assignment gets the copy of the old value.              *)
LEMMA GivenToCheck ==
    ASSUME Inv, Quiet, NEW stack, NEW value, MayGive(stack, value),
           NEW f, f = stack[Len(stack)], f.op = "check",
           NEW g, g = [f EXCEPT !.old = value], calls' = Append(Front(stack), g),
           UNCHANGED <<heap, client, hidden, fault>>
    PROVE  Inv'
  <1> DEFINE S == {value.scope} \ {NoScope}
             P == Labelled("frame", 2, S)
             Q == Labelled("frame", 1, S)
  <1>0. /\ TypeOK /\ references' = references /\ ancestor' = ancestor /\ variables' = variables
        /\ open' = open /\ hand' = hand
        /\ hidden' = hidden /\ fault' = fault /\ Allocated' = Allocated
    BY DEF Inv, heap, client, Allocated
  <1>1. /\ Len(stack) = 1 /\ stack[1] = f /\ Front(stack) = << >> /\ f \in FrameTypes
        /\ FrameClaims(stack) = HeldAt(1, f)
        /\ Given(stack, value) \subseteq FrameClaims(calls)
        /\ FrameClaims(stack) = FrameClaims(calls) \ Given(stack, value)
    BY GiveFacts DEF Copies
  <1>1a. /\ stack # << >> /\ f.old.scope = NoScope /\ value \in ValueTypes
         /\ AssigningOn(stack)
         /\ calls # << >> => stack[1] = calls[1]
    BY <1>1 DEF MayGive
  <1>2. /\ g \in FrameTypes /\ g.op = "check" /\ g.scope = f.scope /\ g.at = f.at /\ g.value = f.value
        /\ g.old = value
    BY <1>1, <1>1a DEF FrameTypes
  <1>3. Holds(g) = S /\ Holds(f) = {} /\ BusyBy(g) = {}
    BY <1>1a, <1>2 DEF Holds, BusyBy
  <1> HIDE DEF S
  <1>4. calls' = <<g>>
    BY <1>1
  <1>5. /\ calls' \in Seq(FrameTypes) /\ calls' # << >> /\ Len(calls') = 1 /\ DOMAIN calls' = {1}
        /\ calls'[1] = g /\ Last(calls') = g
        /\ FrameClaims(calls') = HeldAt(1, g) /\ BusyIn(calls') = BusyBy(g)
    BY <1>2, <1>4, OneFrame
  <1>6. FrameClaims(calls') = Q /\ Busy' = {} /\ Top' = g
    BY <1>3, <1>5, BusyIsIn DEF HeldAt, Labelled, Top
  <1>7. P \subseteq FrameClaims(calls) /\ FrameClaims(calls) \ P = {}
    <2>1. HeldAt(1, f) = {}
      BY <1>3 DEF HeldAt
    <2>2. Given(stack, value) = P
      BY <1>1 DEF Given, S
    <2> QED
      BY <1>1, <2>1, <2>2
  <1>8. /\ Busy = {} /\ ~Running("down")
        /\ \A i \in DOMAIN calls : calls[i].op \notin {"up", "free"}
        /\ LeafScopes = Scopes(SlotClaims \union FrameClaims(calls))
        /\ \A slot \in DOMAIN variables : variables[slot].value.kind = "freed" =>
               calls # << >> /\ calls[1].op = "assign" /\ slot \in Slot(calls[1])
    BY QuietFacts
  <1>9. /\ Slots' = Slots /\ SlotClaims' = SlotClaims /\ OpenClaims' = OpenClaims /\ HandClaims' = HandClaims
    BY <1>0, <1>6, <1>8 DEF Slots, SlotClaims, SlotScope, OpenClaims, HandClaims
  <1>10. P \subseteq Claims /\ Claims' = (Claims \ P) \union Q
    BY <1>6, <1>7, <1>9, ClaimTags DEF Claims
  <1>11. Scopes(P) = S /\ Scopes(Q) = S /\ OnePerScope(Q)
    BY Relabelled
  <1> HIDE DEF P, Q
  <1>12. Owned' = Owned /\ EveryScopeHasOneOwner'
    BY <1>0, <1>10, <1>11, GivenOwner
  <1>13. LeafScopes' \subseteq LeafScopes
    <2>1. FrameClaims(calls)' = Q
      BY <1>6 DEF FrameClaims
    <2>2. LeafScopes' \subseteq Scopes(SlotClaims \union Q)
      BY <1>9, <2>1 DEF LeafScopes, Scopes
    <2>3. Scopes(SlotClaims \union Q) = Scopes(SlotClaims \union P)
      <3>1. Scopes(SlotClaims \union Q) = Scopes(SlotClaims) \union Scopes(Q)
        BY DEF Scopes
      <3>2. Scopes(SlotClaims \union P) = Scopes(SlotClaims) \union Scopes(P)
        BY DEF Scopes
      <3> QED
        BY <1>11, <3>1, <3>2
    <2>4. FrameClaims(calls) = P
      BY <1>7
    <2> QED
      BY <1>8, <2>2, <2>3, <2>4
  <1>14. ~Running("down")'
    BY <1>2, <1>6 DEF Running
  <1>15. HeapInv'
    BY <1>0, <1>8, <1>9, <1>12, <1>13, <1>14, QuietHeap
  <1>16. TypeOK'
    BY <1>0, <1>5 DEF TypeOK
  <1>17. /\ \A i \in 2..Len(calls') : FALSE
         /\ \A i \in 1..Len(calls') - 1 : FALSE
    BY <1>5
  <1>18. Shape'
    BY <1>2, <1>5, <1>6, <1>17 DEF Shape, Copies
  <1>19. Assigning'
    <2>1. \A o : Chain(o)' = Chain(o)
      BY <1>0 DEF Chain
    <2>2. /\ \E n \in Names : f.at = {n} /\ <<f.scope, n>> \in DOMAIN variables
          /\ \E o \in open : f.scope \in Chain(o)
          /\ f.value.scope \in hand \union {NoScope} /\ Settable(f.value)
      BY <1>1, <1>1a DEF AssigningOn, Sets
    <2>3. /\ \E n \in Names : g.at = {n} /\ <<g.scope, n>> \in DOMAIN variables'
          /\ \E o \in open' : g.scope \in Chain(o)'
          /\ g.value.scope \in hand' \union {NoScope} /\ Settable(g.value)
      BY <1>0, <1>2, <2>1, <2>2
    <2> QED
      BY <1>2, <1>5, <2>3 DEF Assigning, AssigningOn
  <1>20. Copied'
    BY <1>17 DEF Copied, CopiedOn
  <1>21. Unwinding'
    BY <1>2, <1>5, NothingUnwinds
  <1>22. FreedOnlyWhenAssigned'
    <2>1. \A slot \in DOMAIN variables : variables[slot].value.kind # "freed"
      BY <1>1, <1>1a, <1>8
    <2> QED
      BY <1>0, <2>1 DEF FreedOnlyWhenAssigned
  <1> QED
    BY <1>12, <1>15, <1>16, <1>18, <1>19, <1>20, <1>21, <1>22 DEF Inv, StackInv

(* The variable of an assignment gets the copy.                            *)
LEMMA GivenToVariable ==
    ASSUME Inv, Quiet, NEW stack, NEW value, MayGive(stack, value),
           NEW f, f = stack[Len(stack)], f.op = "assign",
           Assign(f, value), calls' = Freeing(Front(stack), f.old),
           UNCHANGED <<references, ancestor, client, fault>>
    PROVE  Inv'
  <1> DEFINE S == {value.scope} \ {NoScope}
             R == {f.old.scope} \ {NoScope}
             P == Labelled("frame", 2, S)
  <1>0. /\ TypeOK /\ references' = references /\ ancestor' = ancestor
        /\ open' = open /\ hand' = hand /\ fault' = fault /\ Allocated' = Allocated
    BY DEF Inv, client, Allocated
  <1>1. /\ Len(stack) = 1 /\ stack[1] = f /\ Front(stack) = << >> /\ f \in FrameTypes
        /\ FrameClaims(stack) = HeldAt(1, f)
        /\ Given(stack, value) \subseteq FrameClaims(calls)
        /\ Given(stack, value) \intersect FrameClaims(stack) = {}
        /\ FrameClaims(stack) = FrameClaims(calls) \ Given(stack, value)
        /\ value.scope \in Addresses \union {NoScope}
    BY GiveFacts DEF Copies
  <1>1a. /\ stack # << >> /\ value \in ValueTypes /\ value.kind # "freed"
         /\ value.kind = f.value.kind /\ Settable(value)
         /\ AssigningOn(stack)
         /\ calls # << >> => stack[1] = calls[1]
    BY <1>1 DEF MayGive
  <1>2. PICK m \in Names : f.at = {m} /\ <<f.scope, m>> \in DOMAIN variables
    BY <1>1, <1>1a DEF AssigningOn, Sets
  <1> DEFINE slot == <<f.scope, m>>
             Q == Labelled("slot", slot, S)
  <1>3. Slot(f) = {slot} /\ slot \in DOMAIN variables /\ slot[1] = f.scope
    BY <1>2 DEF Slot
  <1>4. /\ \E o \in open : f.scope \in Chain(o)
        /\ variables[slot].value.scope = NoScope
        /\ LET type == variables[slot].type IN
           type.of = "any" \/ f.value.kind \in {"null", type.of}
    BY <1>1, <1>1a, <1>3 DEF AssigningOn, Sets
  <1>5. f.scope \notin LeafScopes
    BY <1>4, OpenNotLeaf
  <1>6. /\ DOMAIN variables' = DOMAIN variables
        /\ variables'[slot] = [variables[slot] EXCEPT !.value = value]
        /\ \A a \in DOMAIN variables : a # slot => variables'[a] = variables[a]
        /\ hidden' = (hidden \/ (value.scope # NoScope /\ (value.kind = "array" \/ f.scope \notin Owned)))
    <2> HIDE DEF slot
    <2> QED
      BY <1>3 DEF Assign
  <1> HIDE DEF slot
  <1>7. /\ Busy = {} /\ ~Running("down")
        /\ \A i \in DOMAIN calls : calls[i].op \notin {"up", "free"}
        /\ Slots = {a \in DOMAIN variables : variables[a].value.scope # NoScope}
        /\ LeafScopes = Scopes(SlotClaims \union FrameClaims(calls))
        /\ \A a \in DOMAIN variables : variables[a].value.kind = "freed" =>
               calls # << >> /\ calls[1].op = "assign" /\ a \in Slot(calls[1])
    BY QuietFacts
  <1>8. /\ calls' \in Seq(FrameTypes) /\ ~Running("down")' /\ Busy' = {}
        /\ Shape' /\ Assigning' /\ Copied' /\ Unwinding'
        /\ FrameClaims(calls') = {<<"frame", 1, s>> : s \in {f.old.scope} \ {NoScope}}
        /\ LeafScopes' = Scopes(SlotClaims')
    <2>1. f.old \in ValueTypes /\ calls' = Freeing(<< >>, f.old)
      BY <1>1 DEF FrameTypes
    <2> QED
      BY <2>1, LastPop
  <1>9. FrameClaims(calls') = FrameClaims(stack)
    BY <1>1, <1>8 DEF HeldAt, Holds
  <1>10. /\ \A a \in DOMAIN variables : a \in DOMAIN variables' /\ (a = slot \/ variables'[a] = variables[a])
         /\ variables[slot] \in [type : Types, value : ValueTypes]
         /\ variables'[slot].type = variables[slot].type /\ variables'[slot].value = value
    <2>1. variables[slot] \in [type : Types, value : ValueTypes]
      BY <1>0, <1>3 DEF TypeOK
    <2> QED
      BY <1>6, <2>1
  <1>11. TypeOK'
    <2>1. ASSUME NEW a \in DOMAIN variables'
          PROVE  LET v == variables'[a] IN
                 /\ v \in [type : Types, value : ValueTypes]
                 /\ v.type.of = "any" \/ v.value.kind \in {"null", "freed", v.type.of}
      <3>1. CASE a = slot
        <4>1. variables'[slot] \in [type : Types, value : ValueTypes]
          BY <1>1a, <1>6, <1>10
        <4> QED
          BY <1>1a, <1>4, <1>10, <3>1, <4>1
      <3>2. CASE a # slot
        BY <1>0, <1>6, <2>1, <3>2 DEF TypeOK
      <3> QED
        BY <3>1, <3>2
    <2>2. DOMAIN variables' \subseteq Allocated' \X Names /\ Allocated' \subseteq Addresses
      BY <1>0, <1>6 DEF TypeOK
    <2>3. hidden' \in BOOLEAN
      BY <1>6
    <2> QED
      BY <1>0, <1>8, <2>1, <2>2, <2>3 DEF TypeOK
  <1>12. Slots' = {a \in DOMAIN variables' : variables'[a].value.scope # NoScope}
    BY <1>8 DEF Slots
  <1>13. Slots' = Slots \union {a \in {slot} : S # {}} /\ slot \notin Slots
    BY <1>3, <1>4, <1>6, <1>7, <1>10, <1>12
  <1>14. SlotClaims' = SlotClaims \union Q
    <2>1. \A a \in Slots : SlotScope(a)' = SlotScope(a)
      BY <1>6, <1>7, <1>13 DEF SlotScope
    <2>2. SlotScope(slot)' = value.scope
      BY <1>10 DEF SlotScope
    <2>3. SlotClaims' = {<<"slot", a, SlotScope(a)'>> : a \in Slots'}
      BY DEF SlotClaims
    <2>4. CASE S = {}
      <3>1. Q = {} /\ Slots' = Slots
        BY <1>13, <2>4 DEF Labelled
      <3> QED
        BY <2>1, <2>3, <3>1 DEF SlotClaims
    <2>5. CASE S # {}
      <3>1. Q = {<<"slot", slot, value.scope>>} /\ Slots' = Slots \union {slot}
        BY <1>13, <2>5 DEF Labelled
      <3> QED
        BY <2>1, <2>2, <2>3, <3>1 DEF SlotClaims
    <2> QED
      BY <2>4, <2>5
  <1>15. Given(stack, value) = P
    BY <1>1 DEF Given
  <1>16. P \subseteq Claims /\ Claims' = (Claims \ P) \union Q
    <2>1. OpenClaims' = OpenClaims /\ HandClaims' = HandClaims
      BY <1>0 DEF OpenClaims, HandClaims
    <2>2. P \subseteq FrameClaims(calls) /\ FrameClaims(calls') = FrameClaims(calls) \ P
      BY <1>1, <1>9, <1>15
    <2> HIDE DEF P, Q
    <2> QED
      BY <1>14, <2>1, <2>2, ClaimTags DEF Claims
  <1>17. Scopes(P) = S /\ Scopes(Q) = S /\ OnePerScope(Q)
    BY Relabelled
  <1> HIDE DEF P, Q
  <1>18. Owned' = Owned /\ EveryScopeHasOneOwner'
    BY <1>0, <1>16, <1>17, GivenOwner
  <1>19. LeafScopes' \subseteq LeafScopes
    <2>1. LeafScopes' = Scopes(SlotClaims \union Q)
      BY <1>8, <1>14
    <2>2. Scopes(SlotClaims \union Q) = Scopes(SlotClaims) \union Scopes(Q)
      BY DEF Scopes
    <2>3. Scopes(SlotClaims) \union Scopes(P) \subseteq LeafScopes
      <3>1. P \subseteq FrameClaims(calls)
        BY <1>1, <1>15
      <3> QED
        BY <1>7, <3>1 DEF Scopes
    <2> QED
      BY <1>17, <2>1, <2>2, <2>3
  <1>20. HeapInv'
    <2>1. \A a \in Slots' : a # slot => variables'[a].value = variables[a].value
      BY <1>6, <1>12
    <2>2. CASE S = {}
      <3>1. Slots' = Slots /\ hidden' = hidden /\ slot \notin Slots
        BY <1>0, <1>6, <1>13, <2>2 DEF TypeOK
      <3> QED
        BY <1>0, <1>7, <1>8, <1>18, <1>19, <2>1, <3>1, QuietHeap
    <2>3. CASE S # {}
      <3>1. value.scope # NoScope
        BY <2>3
      <3>2. SlotScopes' \subseteq LeafScopes
        <4>1. SlotScopes' \subseteq Scopes(SlotClaims')
          <5>1. ASSUME NEW a \in Slots' PROVE SlotScope(a)' \in Scopes(SlotClaims')
            <6>1. <<"slot", a, SlotScope(a)'>> \in SlotClaims' /\ <<"slot", a, SlotScope(a)'>>[3] = SlotScope(a)'
              BY DEF SlotClaims
            <6> QED
              BY <6>1 DEF Scopes
          <5> QED
            BY <5>1 DEF SlotScopes
        <4> QED
          BY <1>8, <1>19, <4>1
      <3>3. slot[1] \notin SlotScopes'
        BY <1>3, <1>5, <3>2 DEF slot
      <3>4. hidden' \/ (variables'[slot].value.kind = "function" /\ slot[1] \in Owned)
        <4>1. slot[1] = f.scope
          BY <1>3
        <4> QED
          BY <1>1a, <1>6, <1>10, <3>1, <4>1 DEF Settable
      <3>5. hidden => hidden'
        BY <1>6
      <3>6. Slots' \subseteq Slots \union {slot}
        BY <1>13
      <3> QED
        BY <1>0, <1>7, <1>8, <1>18, <1>19, <2>1, <3>3, <3>4, <3>5, <3>6, GivingHeap
    <2> QED
      BY <2>2, <2>3
  <1>21. FreedOnlyWhenAssigned'
    <2>1. \A a \in DOMAIN variables' : variables'[a].value.kind # "freed"
      BY <1>1, <1>1a, <1>3, <1>6, <1>7, <1>10
    <2> QED
      BY <2>1 DEF FreedOnlyWhenAssigned
  <1> QED
    BY <1>8, <1>11, <1>18, <1>20, <1>21 DEF Inv, StackInv

(* The scope that is being copied to gets the entry.                       *)
LEMMA GivenToCopy ==
    ASSUME Inv, Quiet, NEW stack, NEW value, MayGive(stack, value),
           NEW f, f = stack[Len(stack)], f.op = "copy", NEW m \in f.at,
           variables' = [slot \in DOMAIN variables \union {<<f.scope, m>>} |->
                           IF slot = <<f.scope, m>>
                           THEN [type |-> variables[<<f.value.scope, m>>].type, value |-> value]
                           ELSE variables[slot]],
           NEW g, g = [f EXCEPT !.at = {}], calls' = Append(Front(stack), g),
           UNCHANGED <<references, ancestor, client, hidden, fault>>
    PROVE  Inv'
  <1> DEFINE n == Len(stack)
             S == {value.scope} \ {NoScope}
             from == f.value.scope
             slot == <<f.scope, m>>
             P == Labelled("frame", n + 1, S)
             Q == Labelled("slot", slot, S)
  <1>0. /\ TypeOK /\ references' = references /\ ancestor' = ancestor
        /\ open' = open /\ hand' = hand /\ hidden' = hidden /\ fault' = fault
        /\ Allocated' = Allocated /\ \A u : Chain(u)' = Chain(u)
    BY DEF Inv, client, Allocated, Chain
  <1>1. /\ f \in FrameTypes /\ n \in Nat \ {0} /\ DOMAIN stack = 1..n /\ n > 1
        /\ Given(stack, value) \subseteq FrameClaims(calls)
        /\ Given(stack, value) \intersect FrameClaims(stack) = {}
        /\ FrameClaims(stack) = FrameClaims(calls) \ Given(stack, value)
        /\ value.scope \in Addresses \union {NoScope}
    BY GiveFacts DEF Copies
  <1>2. /\ stack \in Seq(FrameTypes) /\ stack # << >> /\ value \in ValueTypes /\ value.kind # "freed"
        /\ stack[1].op \in Copies /\ \A i \in DOMAIN stack : i > 1 => stack[i].op = "copy"
        /\ value.kind = ValueOf(from, m).kind
        /\ AssigningOn(stack) /\ (stack[1].op = "check" => stack[1].old.scope = NoScope)
        /\ CopiedOn(stack)
        /\ calls # << >> => stack[1] = calls[1]
        /\ ~hidden /\ value.scope # NoScope => value.kind = "function"
    BY <1>1 DEF MayGive
  <1>3. /\ g \in FrameTypes /\ g.op = "copy" /\ g.scope = f.scope /\ g.at = {} /\ g.value = f.value
        /\ Holds(g) = Holds(f) /\ Holds(f) = {f.scope} /\ BusyBy(g) = {}
    <2>1. g \in FrameTypes /\ g.op = "copy" /\ g.scope = f.scope /\ g.at = {} /\ g.value = f.value
      BY <1>1 DEF FrameTypes
    <2> QED
      BY <2>1 DEF Holds, BusyBy
  <1>4. /\ calls' \in Seq(FrameTypes) /\ calls' # << >> /\ Len(calls') = n /\ DOMAIN calls' = 1..n
        /\ calls'[n] = g /\ Top' = g /\ n \in DOMAIN stack /\ stack[n] = f
        /\ \A i \in 1..n - 1 : calls'[i] = stack[i]
        /\ \A i \in DOMAIN calls' : i \in DOMAIN stack /\ ((i = n /\ calls'[i] = g) \/ (i < n /\ calls'[i] = stack[i]))
    <2> DEFINE low == Front(stack)
    <2>1. low \in Seq(FrameTypes) /\ Len(low) = n - 1 /\ \A i \in 1..n - 1 : low[i] = stack[i]
      BY <1>2, StackFacts
    <2>2. calls' = Append(low, g)
      OBVIOUS
    <2> HIDE DEF low
    <2>3. /\ Append(low, g) \in Seq(FrameTypes) /\ Append(low, g) # << >>
          /\ Len(Append(low, g)) = Len(low) + 1 /\ Append(low, g)[Len(low) + 1] = g
          /\ \A i \in 1..Len(low) : Append(low, g)[i] = low[i]
          /\ Last(Append(low, g)) = g
      BY <1>3, <2>1, PushFacts
    <2>4. stack[n] = f
      OBVIOUS
    <2>4a. n - 1 + 1 = n
      BY <1>1
    <2>5. /\ calls' \in Seq(FrameTypes) /\ calls' # << >> /\ Len(calls') = n
          /\ calls'[n] = g /\ Top' = g
          /\ \A i \in 1..n - 1 : calls'[i] = stack[i]
      <3> HIDE DEF n
      <3> QED
        BY ONLY <2>1, <2>2, <2>3, <2>4a DEF Top
    <2> HIDE DEF n
    <2>6. DOMAIN calls' = 1..n
      BY <2>5
    <2>7. n \in 1..n /\ \A i \in 1..n : i = n \/ (i < n /\ i \in 1..n - 1)
      BY <1>1
    <2> QED
      BY <1>1, <2>4, <2>5, <2>6, <2>7
  <1>4a. Len(stack) = n
    OBVIOUS
  <1>4b. calls'[1] = stack[1]
    <2> HIDE DEF n
    <2>1. 1 \in 1..n - 1
      BY <1>1
    <2> QED
      BY ONLY <2>1, <1>4
  <1> HIDE DEF n
  <1>5. FrameClaims(calls') = FrameClaims(stack) /\ Busy' = {}
    <2>1. \A i \in DOMAIN stack : HeldAt(i, calls'[i]) = HeldAt(i, stack[i])
      <3>1. HeldAt(n, g) = HeldAt(n, f)
        BY <1>3 DEF HeldAt
      <3>2. \A i \in DOMAIN stack : i \in DOMAIN calls'
        BY ONLY <1>1, <1>4
      <3> QED
        BY ONLY <1>4, <3>1, <3>2
    <2>2. DOMAIN calls' = DOMAIN stack
      BY <1>1, <1>4
    <2>3. \A i \in DOMAIN calls' : BusyBy(calls'[i]) = {}
      <3>1. \A i \in DOMAIN stack : i = 1 \/ i > 1
        BY <1>1
      <3>2. \A i \in DOMAIN stack : BusyBy(stack[i]) = {}
        BY <1>2, <3>1 DEF BusyBy, Copies
      <3> QED
        BY <1>3, <1>4, <3>2
    <2>4. BusyIn(calls') = {}
      BY ONLY <2>3 DEF BusyIn
    <2>5. FrameClaims(calls') = FrameClaims(stack)
      BY ONLY <2>1, <2>2 DEF FrameClaims
    <2> QED
      BY ONLY <2>4, <2>5, BusyIsIn
  <1>6. /\ Busy = {} /\ ~Running("down")
        /\ \A i \in DOMAIN calls : calls[i].op \notin {"up", "free"}
        /\ Slots = {a \in DOMAIN variables : variables[a].value.scope # NoScope}
        /\ LeafScopes = Scopes(SlotClaims \union FrameClaims(calls))
        /\ \A a \in DOMAIN variables : variables[a].value.kind = "freed" =>
               calls # << >> /\ calls[1].op = "assign" /\ a \in Slot(calls[1])
    BY QuietFacts
  <1>7. /\ from \in SlotScopes \union (IF stack[1].op = "capture" THEN open ELSE hand)
        /\ m \in NamesOf(from) /\ m \notin NamesOf(f.scope)
    <2>1. n \in 2..Len(stack) /\ stack[n].op = "copy"
      BY ONLY <1>1, <1>4, <1>4a, f.op = "copy"
    <2> QED
      BY <1>2, <1>4, <2>1 DEF CopiedOn
  <1>8. m \in Names /\ <<from, m>> \in DOMAIN variables /\ slot \notin DOMAIN variables
    BY <1>7 DEF NamesOf
  <1>9. /\ <<"frame", n, f.scope>> \in FrameClaims(stack) /\ f.scope \in Owned /\ f.scope \in Allocated
        /\ f.scope \notin SlotScopes /\ f.scope \notin S
        /\ \A i \in 1..n - 1 : stack[i].op = "copy" => stack[i].scope # f.scope
    <2>1. \A i \in DOMAIN stack : \A s \in Holds(stack[i]) : <<"frame", i, s>> \in FrameClaims(stack)
      BY DEF FrameClaims, HeldAt
    <2>2. <<"frame", n, f.scope>> \in FrameClaims(stack)
      BY <1>3, <1>4, <2>1
    <2>3. FrameClaims(stack) \subseteq FrameClaims(calls) /\ FrameClaims(calls) \subseteq Claims
      BY <1>1 DEF Claims
    <2>4. OnePerScope(Claims) /\ Owned \subseteq Allocated
      BY OneOwner DEF Inv
    <2>5. f.scope \in Owned
      <3>1. <<"frame", n, f.scope>>[3] = f.scope
        OBVIOUS
      <3>2. f.scope \in Scopes(Claims)
        BY <2>2, <2>3, <3>1 DEF Scopes
      <3> QED
        BY <3>2, OwnedIsScopes
    <2>6. f.scope \notin SlotScopes
      <3>1. \A a \in Slots : <<"slot", a, SlotScope(a)>> \in Claims
        BY ClaimMembers
      <3>2. \A a \in Slots : SlotScope(a) # f.scope
        BY <2>2, <2>3, <2>4, <3>1 DEF OnePerScope
      <3> QED
        BY <3>2 DEF SlotScopes
    <2>7. f.scope \notin S
      <3>1. \A s \in S : <<"frame", n + 1, s>> \in Given(stack, value)
        BY DEF Given, Labelled, n
      <3>2. \A s \in S : <<"frame", n + 1, s>> \in Claims
        BY <1>1, <2>3, <3>1
      <3> HIDE DEF S
      <3>3. n + 1 # n
        BY <1>1
      <3>4. f.scope \in S => <<"frame", n + 1, f.scope>> = <<"frame", n, f.scope>>
        <4>1. <<"frame", n + 1, f.scope>>[3] = f.scope /\ <<"frame", n, f.scope>>[3] = f.scope
          OBVIOUS
        <4> QED
          BY <2>2, <2>3, <2>4, <3>2, <4>1 DEF OnePerScope
      <3> QED
        BY <3>3, <3>4
    <2>8. ASSUME NEW i \in 1..n - 1, stack[i].op = "copy"
          PROVE  stack[i].scope # f.scope
      <3>1. i \in DOMAIN stack /\ i # n
        BY <1>1
      <3>2. Holds(stack[i]) = {stack[i].scope}
        BY <2>8 DEF Holds
      <3>3. <<"frame", i, stack[i].scope>> \in FrameClaims(stack)
        BY <2>1, <3>1, <3>2
      <3>4. /\ <<"frame", i, stack[i].scope>>[3] = stack[i].scope /\ <<"frame", n, f.scope>>[3] = f.scope
            /\ <<"frame", i, stack[i].scope>>[2] = i /\ <<"frame", n, f.scope>>[2] = n
        OBVIOUS
      <3> QED
        BY <2>2, <2>3, <2>4, <3>1, <3>3, <3>4 DEF OnePerScope
    <2> QED
      BY <2>2, <2>4, <2>5, <2>6, <2>7, <2>8
  <1>10. /\ DOMAIN variables' = DOMAIN variables \union {slot}
         /\ variables'[slot] = [type |-> variables[<<from, m>>].type, value |-> value]
         /\ \A a \in DOMAIN variables : a # slot /\ variables'[a] = variables[a]
    BY <1>8
  <1>11. slot[1] = f.scope /\ variables'[slot].value = value
    BY <1>10
  <1> HIDE DEF slot, from
  <1>12. TypeOK'
    <2>1. ASSUME NEW a \in DOMAIN variables'
          PROVE  LET v == variables'[a] IN
                 /\ v \in [type : Types, value : ValueTypes]
                 /\ v.type.of = "any" \/ v.value.kind \in {"null", "freed", v.type.of}
      <3>1. CASE a = slot
        <4>1. LET v == variables[<<from, m>>] IN
              /\ v \in [type : Types, value : ValueTypes]
              /\ v.type.of = "any" \/ v.value.kind \in {"null", "freed", v.type.of}
          BY <1>0, <1>8 DEF TypeOK
        <4>2. value.kind = variables[<<from, m>>].value.kind
          BY <1>2 DEF ValueOf
        <4>3. variables'[slot] \in [type : Types, value : ValueTypes]
          BY <1>2, <1>10, <4>1
        <4>4. variables'[slot].type = variables[<<from, m>>].type
          BY <1>10
        <4> QED
          BY <1>11, <3>1, <4>1, <4>2, <4>3, <4>4
      <3>2. CASE a # slot
        BY <1>0, <1>10, <2>1, <3>2 DEF TypeOK
      <3> QED
        BY <3>1, <3>2
    <2>2. DOMAIN variables' \subseteq Allocated' \X Names /\ Allocated' \subseteq Addresses
      <3>1. slot \in Allocated \X Names
        BY <1>8, <1>9 DEF slot
      <3> QED
        BY <1>0, <1>10, <3>1 DEF TypeOK
    <2> QED
      BY <1>0, <1>4, <2>1, <2>2 DEF TypeOK
  <1>13. Slots' = {a \in DOMAIN variables' : variables'[a].value.scope # NoScope}
    BY <1>5 DEF Slots
  <1>14. Slots' = Slots \union {a \in {slot} : S # {}} /\ slot \notin Slots
    BY <1>6, <1>8, <1>10, <1>11, <1>13
  <1>15. /\ \A a \in Slots : a \in Slots' /\ SlotScope(a)' = SlotScope(a)
         /\ SlotScope(slot)' = value.scope
    BY <1>6, <1>10, <1>11, <1>14 DEF SlotScope
  <1>16. SlotClaims' = SlotClaims \union Q
    <2>1. SlotClaims' = {<<"slot", a, SlotScope(a)'>> : a \in Slots'}
      BY DEF SlotClaims
    <2>2. CASE S = {}
      <3>1. Q = {} /\ Slots' = Slots
        BY <1>14, <2>2 DEF Labelled
      <3> QED
        BY <1>15, <2>1, <3>1 DEF SlotClaims
    <2>3. CASE S # {}
      <3>1. Q = {<<"slot", slot, value.scope>>} /\ Slots' = Slots \union {slot}
        BY <1>14, <2>3 DEF Labelled
      <3> QED
        BY <1>15, <2>1, <3>1 DEF SlotClaims
    <2> QED
      BY <2>2, <2>3
  <1>17. Given(stack, value) = P
    BY DEF Given, n
  <1>18. P \subseteq Claims /\ Claims' = (Claims \ P) \union Q
    <2>1. OpenClaims' = OpenClaims /\ HandClaims' = HandClaims
      BY <1>0 DEF OpenClaims, HandClaims
    <2>2. P \subseteq FrameClaims(calls) /\ FrameClaims(calls') = FrameClaims(calls) \ P
      BY <1>1, <1>5, <1>17
    <2> HIDE DEF P, Q
    <2> QED
      BY <1>16, <2>1, <2>2, ClaimTags DEF Claims
  <1>19. Scopes(P) = S /\ Scopes(Q) = S /\ OnePerScope(Q)
    BY Relabelled
  <1> HIDE DEF P, Q
  <1>20. Owned' = Owned /\ EveryScopeHasOneOwner'
    BY <1>0, <1>18, <1>19, GivenOwner
  <1>21. LeafScopes' \subseteq LeafScopes
    <2>1. LeafScopes' \subseteq Scopes(SlotClaims') \union Scopes(FrameClaims(calls)')
      BY DEF LeafScopes, Scopes
    <2>2. FrameClaims(calls)' = FrameClaims(stack)
      BY <1>5 DEF FrameClaims
    <2>3. Scopes(SlotClaims \union Q) = Scopes(SlotClaims) \union Scopes(Q)
      BY DEF Scopes
    <2>4. Scopes(SlotClaims) \union Scopes(P) \union Scopes(FrameClaims(stack)) \subseteq LeafScopes
      <3>1. P \subseteq FrameClaims(calls) /\ FrameClaims(stack) \subseteq FrameClaims(calls)
        BY <1>1, <1>17
      <3> QED
        BY <1>6, <3>1 DEF Scopes
    <2> QED
      BY <1>16, <1>19, <2>1, <2>2, <2>3, <2>4
  <1>22. ~Running("down")'
    BY <1>3, <1>4 DEF Running
  <1>23. SlotScopes' = SlotScopes \union S
    <2>1. SlotScopes' = {SlotScope(a)' : a \in Slots'}
      BY DEF SlotScopes
    <2>2. CASE S = {}
      <3>1. Slots' = Slots
        BY <1>14, <2>2
      <3> QED
        BY <1>15, <2>1, <2>2, <3>1 DEF SlotScopes
    <2>3. CASE S # {}
      <3>1. S = {value.scope} /\ Slots' = Slots \union {slot}
        BY <1>14, <2>3
      <3> QED
        BY ONLY <1>15, <2>1, <3>1 DEF SlotScopes
    <2> QED
      BY <2>2, <2>3
  <1>24. HeapInv'
    <2>1. \A a \in Slots' : a # slot => variables'[a].value = variables[a].value
      BY <1>6, <1>10, <1>14
    <2>2. CASE S = {}
      <3>1. Slots' = Slots /\ slot \notin Slots
        BY <1>14, <2>2
      <3> QED
        BY <1>0, <1>6, <1>20, <1>21, <1>22, <2>1, <3>1, QuietHeap
    <2>3. CASE S # {}
      <3>1. slot[1] \notin SlotScopes'
        BY <1>9, <1>11, <1>23
      <3>2. hidden' \/ (variables'[slot].value.kind = "function" /\ slot[1] \in Owned)
        <4>1. value.scope # NoScope
          BY <2>3
        <4>2. slot[1] \in Owned
          BY <1>9, <1>11
        <4>3. ~hidden => value.kind = "function"
          BY <1>2, <4>1
        <4>4. hidden' = hidden /\ variables'[slot].value = value
          BY <1>0, <1>11
        <4> QED
          BY ONLY <4>2, <4>3, <4>4
      <3>3. Slots' \subseteq Slots \union {slot}
        BY <1>14
      <3> QED
        BY ONLY Inv, <1>0, <1>6, <1>20, <1>21, <1>22, <2>1, <3>1, <3>2, <3>3, GivingHeap
    <2> QED
      BY <2>2, <2>3
  <1>25. Shape'
    <2>1. \A i \in DOMAIN calls' : i > 1 => calls'[i].op = "copy"
      BY <1>2, <1>3, <1>4
    <2>2. calls'[1] = stack[1]
      BY ONLY <1>4b
    <2>3. /\ \A i \in 2..Len(calls') : i \in DOMAIN calls' /\ i > 1
          /\ \A i \in 1..Len(calls') - 1 : i \in DOMAIN calls' /\ (i = 1 \/ i > 1)
      BY <1>4
    <2>4. calls'[1].op \in Copies
      BY ONLY <1>2, <2>2
    <2>5. \A i \in 2..Len(calls') : calls'[i].op = "copy"
      BY ONLY <2>1, <2>3
    <2>6. \A i \in 1..Len(calls') - 1 : calls'[i].op # "down"
      BY ONLY <2>1, <2>3, <2>4 DEF Copies
    <2>7. Top'.op = "copy"
      BY ONLY <1>3, <1>4
    <2> QED
      BY ONLY <2>4, <2>5, <2>6, <2>7 DEF Shape
  <1>26. Assigning'
    <2> DEFINE h == stack[1]
    <2>1. calls'[1] = h
      BY <1>4b
    <2> HIDE DEF h
    <2> SUFFICES ASSUME calls' # << >>, calls'[1].op \in Sets
                 PROVE  LET h1 == calls'[1] IN
                        /\ \E k \in Names : h1.at = {k} /\ <<h1.scope, k>> \in DOMAIN variables'
                        /\ \E o \in open' : h1.scope \in Chain(o)'
                        /\ h1.value.scope \in hand' \union {NoScope} /\ Settable(h1.value)
                        /\ h1.op = "check" /\ Len(calls') > 1 => h1.old.scope = NoScope
                        /\ h1.op \in {"replace", "assign"} =>
                              \A a \in Slot(h1) : LET type == variables'[a].type IN
                                  type.of = "any" \/ h1.value.kind \in {"null", type.of}
                        /\ h1.op = "assign" => \A a \in Slot(h1) : variables'[a].value.scope = NoScope
      BY DEF Assigning, AssigningOn, Slot
    <2>1a. h.op \in Sets
      BY ONLY <2>1, calls'[1].op \in Sets
    <2>2. /\ \E k \in Names : h.at = {k} /\ <<h.scope, k>> \in DOMAIN variables
          /\ \E o \in open : h.scope \in Chain(o)
          /\ h.value.scope \in hand \union {NoScope} /\ Settable(h.value)
          /\ h.op = "check" => h.old.scope = NoScope
          /\ h.op \in {"replace", "assign"} =>
                \A a \in Slot(h) : LET type == variables[a].type IN
                    type.of = "any" \/ h.value.kind \in {"null", type.of}
          /\ h.op = "assign" => \A a \in Slot(h) : variables[a].value.scope = NoScope
      BY <1>2, <2>1a DEF AssigningOn, h
    <2>3. \A a \in Slot(h) : a \in DOMAIN variables
      BY <2>2 DEF Slot
    <2>4. /\ \E k \in Names : h.at = {k} /\ <<h.scope, k>> \in DOMAIN variables'
          /\ \E o \in open' : h.scope \in Chain(o)'
          /\ h.value.scope \in hand' \union {NoScope}
          /\ h.op \in {"replace", "assign"} =>
                \A a \in Slot(h) : LET type == variables'[a].type IN
                    type.of = "any" \/ h.value.kind \in {"null", type.of}
          /\ h.op = "assign" => \A a \in Slot(h) : variables'[a].value.scope = NoScope
      BY ONLY <1>0, <1>10, <2>2, <2>3
    <2> QED
      BY ONLY <2>1, <2>2, <2>4
  <1>27. Copied'
    <2> DEFINE NextNames(u) == {e \in Names : <<u, e>> \in DOMAIN variables'}
               NextValue(u, e) == variables'[<<u, e>>].value
    <2>0. /\ \A u : NamesOf(u)' = NextNames(u)
          /\ \A u, e : ValueOf(u, e)' = NextValue(u, e)
      BY DEF NamesOf, ValueOf
    <2> HIDE DEF NextNames, NextValue
    <2> SUFFICES ASSUME NEW i \in 2..Len(calls'), calls'[i].op = "copy"
                 PROVE  LET h == calls'[i]
                            k == calls'[i - 1]
                        IN  /\ h.value.scope \in SlotScopes' \union (IF calls'[1].op = "capture" THEN open' ELSE hand')
                            /\ h.value.kind # "freed"
                            /\ h.at \subseteq NextNames(h.value.scope) \ NextNames(h.scope)
                            /\ k.op = "copy" =>
                                  \A e \in k.at : h.value.kind = NextValue(k.value.scope, e).kind
                            /\ k.op = "assign" => h.value = k.value
                            /\ i > 2 /\ ~hidden' => h.value.kind = "function"
      BY <2>0 DEF Copied, CopiedOn
    <2> DEFINE h == calls'[i]
               k == calls'[i - 1]
               h0 == stack[i]
               k0 == stack[i - 1]
    <2>3. /\ i \in 2..n /\ i \in 2..Len(stack) /\ i \in DOMAIN calls' /\ i - 1 \in 1..n - 1 /\ i > 1
          /\ i - 1 \in DOMAIN stack /\ (i = n \/ i \in 1..n - 1) /\ i \in DOMAIN stack
      BY ONLY <1>1, <1>4, <1>4a, i \in 2..Len(calls')
    <2>4. k = k0 /\ calls'[1] = stack[1]
      BY <1>1, <1>4, <1>4b, <2>3
    <2>5. /\ h.op = h0.op /\ h.scope = h0.scope /\ h.value = h0.value /\ h.at \subseteq h0.at
          /\ i = n => h.at = {}
          /\ i \in 1..n - 1 => h0.scope # f.scope
      BY <1>2, <1>3, <1>4, <1>9, <2>3
    <2>6. h0.op = "copy"
      BY <1>2, <2>3
    <2>7. /\ h0.value.scope \in SlotScopes \union (IF stack[1].op = "capture" THEN open ELSE hand)
          /\ h0.value.kind # "freed"
          /\ h0.at \subseteq NamesOf(h0.value.scope) \ NamesOf(h0.scope)
          /\ k0.op = "copy" => \A e \in k0.at : h0.value.kind = ValueOf(k0.value.scope, e).kind
          /\ k0.op = "assign" => h0.value = k0.value
          /\ i > 2 /\ ~hidden => h0.value.kind = "function"
      BY <1>2, <2>3, <2>6 DEF CopiedOn
    <2>8. k0.op = "copy" => k0.at \subseteq NamesOf(k0.value.scope)
      <3>1. ASSUME k0.op = "copy" PROVE i - 1 \in 2..Len(stack)
        <4>1. i - 1 # 1
          BY <1>2, <3>1 DEF Copies
        <4> QED
          BY <2>3, <4>1
      <3> QED
        BY <1>2, <3>1 DEF CopiedOn
    <2> HIDE DEF h, k, h0, k0
    <2>9. h.at \subseteq NextNames(h.value.scope)
      BY <1>10, <2>5, <2>7 DEF NamesOf, NextNames
    <2>10. ASSUME NEW e \in h.at PROVE e \notin NextNames(h.scope)
      <3>1. i # n
        BY <2>5, <2>10
      <3>2. <<h.scope, e>> # slot
        BY <2>3, <2>5, <3>1 DEF slot
      <3>3. <<h.scope, e>> \notin DOMAIN variables
        BY <2>5, <2>7, <2>10 DEF NamesOf
      <3> QED
        BY <1>10, <3>2, <3>3 DEF NextNames
    <2>11. k.op = "copy" => \A e \in k.at : h.value.kind = NextValue(k.value.scope, e).kind
      <3> SUFFICES ASSUME k.op = "copy", NEW e \in k.at
                   PROVE  h.value.kind = NextValue(k.value.scope, e).kind
        OBVIOUS
      <3>1. <<k.value.scope, e>> \in DOMAIN variables
        BY <2>4, <2>8 DEF NamesOf
      <3>2. NextValue(k.value.scope, e) = ValueOf(k.value.scope, e)
        BY <1>10, <3>1 DEF ValueOf, NextValue
      <3> QED
        BY <2>4, <2>5, <2>7, <3>2
    <2>12. /\ h.value.scope \in SlotScopes' \union (IF calls'[1].op = "capture" THEN open' ELSE hand')
           /\ h.value.kind # "freed"
           /\ k.op = "assign" => h.value = k.value
           /\ i > 2 /\ ~hidden' => h.value.kind = "function"
      BY <1>0, <1>23, <2>4, <2>5, <2>7
    <2> QED
      BY <2>9, <2>10, <2>11, <2>12 DEF h, k
  <1>28. Unwinding'
    <2>1. \A i \in DOMAIN stack : i = 1 \/ i > 1
      BY <1>1
    <2>2. \A i \in DOMAIN calls' : calls'[i].op \in Copies \union {"copy"}
      BY <1>2, <1>3, <1>4, <2>1
    <2> QED
      BY <2>2, NothingUnwinds DEF Copies
  <1>29. FreedOnlyWhenAssigned'
    <2>1. calls'[1] = stack[1]
      BY ONLY <1>4b
    <2>2. ASSUME NEW a \in DOMAIN variables', variables'[a].value.kind = "freed"
          PROVE  calls' # << >> /\ calls'[1].op = "assign" /\ a \in Slot(calls'[1])
      <3>1. a # slot
        BY <1>2, <1>11, <2>2
      <3>2. a \in DOMAIN variables /\ variables[a].value.kind = "freed"
        BY <1>10, <2>2, <3>1
      <3> QED
        BY <1>2, <1>4, <1>6, <2>1, <3>2
    <2> QED
      BY <2>2 DEF FreedOnlyWhenAssigned, Slot
  <1> QED
    BY <1>12, <1>20, <1>24, <1>25, <1>26, <1>27, <1>28, <1>29 DEF Inv, StackInv

(* Whoever gets the copy, the invariant is preserved.                      *)
LEMMA GiveStep ==
    ASSUME Inv, Quiet, NEW stack, NEW value, MayGive(stack, value), Give(stack, value),
           UNCHANGED <<references, ancestor, fault>>
    PROVE  Inv'
  <1> DEFINE f == stack[Len(stack)]
             S == {value.scope} \ {NoScope}
  <1>1. /\ f \in FrameTypes /\ Last(stack) = f
        /\ f.op \in Copies => Front(stack) = << >> /\ Len(stack) = 1 /\ stack[1] = f
    BY GiveFacts
  <1>2. f.op = "capture" => value.scope # NoScope
    BY DEF MayGive
  <1> HIDE DEF f
  <1>3. CASE /\ f.op = "capture"
             /\ open' = open \union {value.scope}
             /\ calls' = Front(stack)
             /\ UNCHANGED <<variables, hand, hidden>>
    <2>1. open' = open \union S /\ calls' = << >> /\ UNCHANGED <<heap, hidden, fault>> /\ hand' = hand
      BY <1>1, <1>2, <1>3 DEF Copies, heap
    <2> HIDE DEF S
    <2> QED
      BY <1>3, <2>1, GivenToClient DEF f, S
  <1>4. CASE /\ f.op = "get"
             /\ hand' = hand \union ({value.scope} \ {NoScope})
             /\ calls' = Front(stack)
             /\ UNCHANGED <<variables, open, hidden>>
    <2>1. hand' = hand \union S /\ calls' = << >> /\ UNCHANGED <<heap, hidden, fault>> /\ open' = open
      BY <1>1, <1>4 DEF Copies, heap
    <2> HIDE DEF S
    <2> QED
      BY <1>4, <2>1, GivenToClient DEF f, S
  <1>5. CASE /\ f.op = "check"
             /\ calls' = Append(Front(stack), [f EXCEPT !.old = value])
             /\ UNCHANGED <<variables, client, hidden>>
    <2>1. UNCHANGED <<heap, client, hidden, fault>>
      BY <1>5 DEF heap
    <2> QED
      BY <1>5, <2>1, GivenToCheck DEF f
  <1>6. CASE /\ f.op = "assign"
             /\ Assign(f, value)
             /\ calls' = Freeing(Front(stack), f.old)
             /\ UNCHANGED client
    BY <1>6, GivenToVariable DEF f
  <1>7. ASSUME f.op = "copy", NEW m \in f.at,
               variables' = [slot \in DOMAIN variables \union {<<f.scope, m>>} |->
                               IF slot = <<f.scope, m>>
                               THEN [type |-> variables[<<f.value.scope, m>>].type, value |-> value]
                               ELSE variables[slot]],
               calls' = Append(Front(stack), [f EXCEPT !.at = {}]),
               UNCHANGED <<client, hidden>>
        PROVE  Inv'
    <2>1. UNCHANGED <<references, ancestor, client, hidden, fault>>
      BY <1>7
    <2> QED
      BY <1>7, <2>1, GivenToCopy DEF f
  <1> QED
    BY <1>1, <1>3, <1>4, <1>5, <1>6, <1>7 DEF Give

(* Undefined behaviour ends the run.                                       *)
LEMMA FaultStep ==
    ASSUME Inv, UNCHANGED <<heap, client, calls, hidden>>,
           fault' \in {"none", "null scope", "freed value"}
    PROVE  Inv'
  <1>1. /\ references' = references /\ ancestor' = ancestor /\ variables' = variables
        /\ open' = open /\ hand' = hand /\ calls' = calls /\ hidden' = hidden
    BY DEF heap, client
  <1>2. TypeOK'
    BY <1>1 DEF Inv, TypeOK, Allocated
  <1>3. /\ Busy' = Busy /\ Allocated' = Allocated /\ Top' = Top
        /\ \A s : Chain(s)' = Chain(s)
        /\ \A slot : SlotScope(slot)' = SlotScope(slot)
    BY <1>1 DEF Busy, Allocated, Chain, SlotScope, Top
  <1>4. /\ Slots' = Slots /\ SlotClaims' = SlotClaims /\ OpenClaims' = OpenClaims
        /\ HandClaims' = HandClaims /\ FrameClaims(calls)' = FrameClaims(calls)
    BY <1>1, <1>3 DEF Slots, SlotClaims, OpenClaims, HandClaims, FrameClaims
  <1>5. Claims' = Claims
    BY <1>4 DEF Claims
  <1>6. Owned' = Owned /\ EveryScopeHasOneOwner'
    <2>1. Owned' = Owned
      BY <1>5, OwnedIsScopes, OwnersNext
    <2> QED
      BY <1>3, <1>5, <2>1, OneOwner, OwnersNext DEF Inv
  <1>7. \A s : ToCountDown(s)' = ToCountDown(s)
    BY <1>1, <1>3 DEF ToCountDown, Running
  <1>8. Acyclic' /\ Counted' /\ Rooted' /\ Dying'
    <2>1. Acyclic'
      BY <1>1, <1>3 DEF Inv, HeapInv, Acyclic, Chain
    <2>2. Counted'
      BY <1>1, <1>3, <1>6, <1>7 DEF Inv, HeapInv, Counted
    <2>3. Rooted' /\ Dying'
      BY <1>1, <1>3 DEF Inv, HeapInv, Rooted, Dying
    <2> QED
      BY <2>1, <2>2, <2>3
  <1>9. Leaves' /\ WellFounded' /\ Visible'
    <2>1. Leaves'
      BY <1>1, <1>3, <1>4 DEF Inv, HeapInv, Leaves, LeafScopes, Scopes
    <2>2. WellFounded'
      BY <1>3, <1>4 DEF Inv, HeapInv, WellFounded
    <2>3. Visible'
      <3> SUFFICES ASSUME ~hidden', NEW a \in Slots'
                   PROVE  variables'[a].value.kind = "function" /\ a[1] \in Owned'
        BY DEF Visible
      <3>0. a \in Slots
        BY <1>4
      <3>1. ~hidden /\ a \in Slots
        BY ONLY <1>1, <3>0, ~hidden'
      <3>2. variables[a].value.kind = "function" /\ a[1] \in Owned
        BY <3>1 DEF Inv, HeapInv, Visible
      <3> QED
        BY <1>1, <1>6, <3>2
    <2> QED
      BY <2>1, <2>2, <2>3
  <1>10. Shape' /\ Unwinding'
    BY <1>1, <1>3 DEF Inv, StackInv, Shape, Unwinding, Chain, Enclosing
  <1>11. Assigning'
    BY <1>1, <1>3 DEF Inv, StackInv, Assigning, AssigningOn, Slot
  <1>12. Copied'
    <2>1. SlotScopes' = SlotScopes
      BY <1>3, <1>4 DEF SlotScopes
    <2> QED
      <3>1. /\ \A u : NamesOf(u)' = NamesOf(u)
            /\ \A u, m : ValueOf(u, m)' = ValueOf(u, m)
        BY <1>1 DEF NamesOf, ValueOf
      <3> QED
        BY ONLY Inv, <1>1, <2>1, <3>1 DEF Inv, StackInv, Copied, CopiedOn
  <1>13. FreedOnlyWhenAssigned'
    BY <1>1 DEF Inv, FreedOnlyWhenAssigned, Slot
  <1> QED
    BY <1>2, <1>6, <1>8, <1>9, <1>10, <1>11, <1>12, <1>13 DEF Inv, StackInv, HeapInv

(* A stack whose last frame may call for the copy of a value.              *)
MayCall(stack, value) ==
    /\ stack \in Seq(FrameTypes) /\ stack # << >>
    /\ stack[1].op \in Copies /\ \A i \in DOMAIN stack : i > 1 => stack[i].op = "copy"
    /\ FrameClaims(stack) = FrameClaims(calls)
    /\ calls # << >> => stack[1] = calls[1]
    /\ AssigningOn(stack) /\ (stack[1].op = "check" => stack[1].old.scope = NoScope)
    /\ CopiedOn(stack)
    /\ value \in ValueTypes
    /\ value.scope # NoScope =>
          /\ value.kind # "freed"
          /\ value.scope \in SlotScopes \union (IF stack[1].op = "capture" THEN open ELSE hand)
    /\ LET g == stack[Len(stack)] IN
       /\ g.op = "copy" => \A m \in g.at : value.kind = ValueOf(g.value.scope, m).kind
       /\ g.op = "assign" => value = g.value
       /\ g.op = "capture" => value.scope # NoScope
    /\ Len(stack) > 1 /\ ~hidden /\ value.scope # NoScope => value.kind = "function"

(* A copy that begins, or is done at once, preserves the invariant.        *)
LEMMA CopyLiteralStep ==
    ASSUME Inv, Quiet, NEW stack, NEW value, MayCall(stack, value), CopyLiteral(stack, value)
    PROVE  Inv'
  <1>1. CASE \E kind \in {"freed value", "null scope"} : Fault(kind)
    BY <1>1, FaultStep DEF Fault
  <1>2. ASSUME value.scope # NoScope, NEW s \in Addresses, Alloc(s, ancestor[value.scope]),
               calls' = Append(stack, CopyFrame(s, value)), UNCHANGED <<variables, client, hidden, fault>>
        PROVE  Inv'
    <2>1. MayCopy(stack, value)
      BY <1>2 DEF MayCall, MayCopy
    <2> QED
      BY <1>2, <2>1, CopyStarts
  <1>3. ASSUME value.scope = NoScope, value.kind # "freed", Give(stack, value),
               UNCHANGED <<references, ancestor, fault>>
        PROVE  Inv'
    <2>1. Given(stack, value) = {}
      BY <1>3 DEF Given, Labelled
    <2>2. MayGive(stack, value)
      BY <1>3, <2>1 DEF MayCall, MayGive, Settable
    <2> QED
      BY <1>3, <2>2, GiveStep
  <1> QED
    BY <1>1, <1>2, <1>3 DEF CopyLiteral

(* What a scope's variable owns is not being freed while a call copies.    *)
LEMMA EntryMayBeCopied ==
    ASSUME Inv, Quiet, NEW slot \in DOMAIN variables, NEW value, value = variables[slot].value
    PROVE  /\ value \in ValueTypes
           /\ value.scope # NoScope => value.kind # "freed" /\ value.scope \in SlotScopes
           /\ value.scope # NoScope /\ ~hidden => value.kind = "function"
  <1>0. TypeOK
    BY DEF Inv
  <1>1. /\ Slots = {a \in DOMAIN variables : variables[a].value.scope # NoScope}
        /\ \A a \in DOMAIN variables : variables[a].value.kind = "freed" =>
               calls # << >> /\ calls[1].op = "assign" /\ a \in Slot(calls[1])
    BY QuietFacts
  <1>2. value \in ValueTypes
    BY <1>0 DEF TypeOK
  <1>3. value.kind = "freed" => value.scope = NoScope
    BY <1>1 DEF Inv, StackInv, Assigning, AssigningOn, Sets
  <1>4. value.scope # NoScope => slot \in Slots /\ SlotScope(slot) = value.scope
    BY <1>1 DEF SlotScope
  <1>5. value.scope # NoScope => value.scope \in SlotScopes
    BY <1>4 DEF SlotScopes
  <1>6. value.scope # NoScope /\ ~hidden => value.kind = "function"
    BY <1>4 DEF Inv, HeapInv, Visible
  <1> QED
    BY <1>2, <1>3, <1>5, <1>6

(* Each step of a copy preserves the invariant.                            *)
LEMMA CopyScopeStep ==
    ASSUME Inv, CopyScope
    PROVE  Inv'
  <1> DEFINE n == Len(calls)
             from == Top.value.scope
             left == NamesOf(from) \ NamesOf(Top.scope)
  <1>0. /\ TypeOK /\ Shape /\ calls # << >> /\ Top.op = "copy" /\ Quiet
    BY DEF Inv, StackInv, CopyScope, Running, Quiet
  <1>1. /\ n \in Nat \ {0} /\ DOMAIN calls = 1..n /\ Top = calls[n] /\ Top \in FrameTypes
        /\ Below \in Seq(FrameTypes) /\ Len(Below) = n - 1 /\ Len(Below) + 1 = n
        /\ \A i \in 1..n - 1 : Below[i] = calls[i]
    BY <1>0, TopFacts
  <1>2. /\ calls[1].op \in Copies
        /\ \A i \in DOMAIN calls : i > 1 => calls[i].op = "copy"
    BY <1>0, CopyingShape
  <1>3. /\ AssigningOn(calls) /\ CopiedOn(calls)
        /\ calls \in Seq(FrameTypes)
    BY DEF Inv, StackInv, Assigning, Copied, TypeOK
  <1>3a. Len(calls) = n
    OBVIOUS
  <1> HIDE DEF n
  <1>4. n > 1 /\ n \in DOMAIN calls
    <2>1. n # 1
      BY <1>0, <1>1, <1>2 DEF Copies
    <2> QED
      BY <1>1, <2>1
  <1>5. calls[1].op = "check" => calls[1].old.scope = NoScope
    BY <1>0, <1>3, <1>3a, <1>4 DEF AssigningOn, Sets
  <1>6. /\ from \in SlotScopes \union (IF calls[1].op = "capture" THEN open ELSE hand)
        /\ Top.value.kind # "freed"
        /\ LET k == calls[n - 1] IN
           /\ k.op = "copy" => \A m \in k.at : Top.value.kind = ValueOf(k.value.scope, m).kind
           /\ k.op = "assign" => Top.value = k.value
        /\ n > 2 /\ ~hidden => Top.value.kind = "function"
    <2>1. n \in 2..Len(calls)
      BY <1>1, <1>3a, <1>4
    <2> QED
      BY <1>0, <1>1, <1>3, <2>1 DEF CopiedOn
  <1>7. ASSUME NEW m \in left,
               CopyLiteral(Append(Below, [Top EXCEPT !.at = {m}]), ValueOf(from, m))
        PROVE  Inv'
    <2> DEFINE g == [Top EXCEPT !.at = {m}]
               stack == Append(Below, g)
               value == ValueOf(from, m)
    <2>1. m \in Names /\ <<from, m>> \in DOMAIN variables /\ value = variables[<<from, m>>].value
      BY <1>7 DEF NamesOf, ValueOf
    <2>2. /\ g \in FrameTypes /\ g.op = "copy" /\ g.scope = Top.scope /\ g.at = {m} /\ g.value = Top.value
      BY <1>0, <1>1, <2>1 DEF FrameTypes
    <2>3. CopyLiteral(stack, value)
      BY <1>7
    <2> HIDE DEF g
    <2>4. /\ stack \in Seq(FrameTypes) /\ stack # << >> /\ Len(stack) = n /\ DOMAIN stack = 1..n
          /\ stack[n] = g
          /\ \A i \in 1..n - 1 : stack[i] = calls[i]
      BY <1>1, <2>2, PushFacts
    <2>5. FrameClaims(stack) = FrameClaims(calls)
      <3>1. FrameClaims(stack) = FrameClaims(Below) \union HeldAt(n, g)
        BY <1>1, <2>2, PushClaims
      <3>2. FrameClaims(calls) = FrameClaims(Below) \union HeldAt(n, Top)
        BY <1>0, TopClaims DEF n
      <3>3. HeldAt(n, g) = HeldAt(n, Top)
        BY <1>0, <2>2 DEF HeldAt, Holds
      <3> QED
        BY <3>1, <3>2, <3>3
    <2> HIDE DEF stack, value
    <2>6. /\ stack[1] = calls[1]
          /\ \A i \in DOMAIN stack : i \in DOMAIN calls /\ (i = n \/ (i < n /\ stack[i] = calls[i]))
          /\ \A i \in DOMAIN stack : i > 1 => stack[i].op = "copy"
      <3>1. stack[1] = calls[1]
        BY ONLY <1>1, <1>4, <2>4
      <3>2. \A i \in DOMAIN stack : i \in DOMAIN calls /\ (i = n \/ (i < n /\ stack[i] = calls[i]))
        BY ONLY <1>1, <1>4, <2>4
      <3> QED
        BY ONLY <1>2, <2>2, <2>4, <3>1, <3>2
    <2>7. AssigningOn(stack)
      <3>1. AssigningOn(calls) /\ Len(calls) = Len(stack)
        BY <1>3, <1>3a, <2>4
      <3> QED
        BY ONLY <1>0, <2>4, <2>6, <3>1 DEF AssigningOn
    <2>8. CopiedOn(stack)
      <3> SUFFICES ASSUME NEW i \in 2..Len(stack), stack[i].op = "copy"
                   PROVE  LET h == stack[i]
                              k == stack[i - 1]
                          IN  /\ h.value.scope \in SlotScopes \union (IF stack[1].op = "capture" THEN open ELSE hand)
                              /\ h.value.kind # "freed"
                              /\ h.at \subseteq NamesOf(h.value.scope) \ NamesOf(h.scope)
                              /\ k.op = "copy" => \A e \in k.at : h.value.kind = ValueOf(k.value.scope, e).kind
                              /\ k.op = "assign" => h.value = k.value
                              /\ i > 2 /\ ~hidden => h.value.kind = "function"
        BY DEF CopiedOn
      <3>1. /\ i \in 2..Len(calls) /\ i - 1 \in 1..n - 1 /\ (i = n \/ i \in 1..n - 1)
        BY <1>1, <1>3a, <2>4
      <3>2. stack[i - 1] = calls[i - 1] /\ calls[i].op = "copy"
        BY <1>0, <1>1, <2>4, <3>1
      <3>3. LET h == calls[i]
                k == calls[i - 1]
            IN  /\ h.value.scope \in SlotScopes \union (IF calls[1].op = "capture" THEN open ELSE hand)
                /\ h.value.kind # "freed"
                /\ h.at \subseteq NamesOf(h.value.scope) \ NamesOf(h.scope)
                /\ k.op = "copy" => \A e \in k.at : h.value.kind = ValueOf(k.value.scope, e).kind
                /\ k.op = "assign" => h.value = k.value
                /\ i > 2 /\ ~hidden => h.value.kind = "function"
        BY <1>3, <3>1, <3>2 DEF CopiedOn
      <3>4. CASE i \in 1..n - 1
        BY <2>4, <2>6, <3>2, <3>3, <3>4
      <3>5. CASE i = n
        <4>1. {m} \subseteq NamesOf(g.value.scope) \ NamesOf(g.scope)
          BY <1>7, <2>2
        <4>2. stack[i] = g /\ calls[i] = Top
          BY <1>1, <2>4, <3>5
        <4> QED
          BY <2>2, <2>6, <3>2, <3>3, <4>1, <4>2
      <3> QED
        BY <3>1, <3>4, <3>5
    <2>9. /\ value \in ValueTypes
          /\ value.scope # NoScope => value.kind # "freed" /\ value.scope \in SlotScopes
          /\ value.scope # NoScope /\ ~hidden => value.kind = "function"
      BY <1>0, <2>1, EntryMayBeCopied
    <2>10. LET h == stack[Len(stack)] IN
           /\ h.op = "copy" => \A e \in h.at : value.kind = ValueOf(h.value.scope, e).kind
           /\ h.op = "assign" => value = h.value
           /\ h.op = "capture" => value.scope # NoScope
      BY <2>2, <2>4 DEF value
    <2>11. MayCall(stack, value)
      BY <1>2, <1>5, <2>4, <2>5, <2>6, <2>7, <2>8, <2>9, <2>10 DEF MayCall
    <2> QED
      BY <1>0, <2>3, <2>11, CopyLiteralStep
  <1>8. ASSUME Give(Below, Value(Top.value.kind, Top.scope)), UNCHANGED <<references, ancestor, fault>>
        PROVE  Inv'
    <2> DEFINE value == Value(Top.value.kind, Top.scope)
               low == Below
    <2>1. value.kind = Top.value.kind /\ value.scope = Top.scope
      BY DEF Value
    <2>2. Holds(Top) = {Top.scope}
      BY <1>0 DEF Holds
    <2>3. Top.scope \in Addresses /\ Top.scope # NoScope
      <3>1. Top.scope \in Owned
        <4>1. Top \in ToSet(calls)
          BY <1>1, <1>4 DEF ToSet
        <4> QED
          BY <2>2, <4>1 DEF Owned
      <3>2. Top.scope \in Addresses
        BY <1>0, <3>1 DEF Inv, EveryScopeHasOneOwner, TypeOK
      <3> QED
        BY <3>2, ScopeAssumption
    <2>4. value \in ValueTypes
      BY <1>1, <2>3 DEF Value, ValueTypes, FrameTypes
    <2>5. FrameClaims(calls) = FrameClaims(low) \union Given(low, value)
      <3>1. FrameClaims(calls) = FrameClaims(Below) \union HeldAt(n, Top)
        BY <1>0, TopClaims DEF n
      <3>2. HeldAt(n, Top) = Labelled("frame", n, {Top.scope})
        BY <2>2 DEF HeldAt, Labelled
      <3>3. {value.scope} \ {NoScope} = {Top.scope}
        BY <2>1, <2>3
      <3> QED
        BY <1>1, <3>1, <3>2, <3>3 DEF Given
    <2>6. Give(low, value)
      BY <1>8
    <2> HIDE DEF low, value
    <2>7. /\ low \in Seq(FrameTypes) /\ Len(low) = n - 1 /\ low # << >> /\ DOMAIN low = 1..n - 1
          /\ \A i \in 1..n - 1 : low[i] = calls[i]
      <3>1. low \in Seq(FrameTypes) /\ Len(low) = n - 1 /\ \A i \in 1..n - 1 : low[i] = calls[i]
        BY <1>1 DEF low
      <3> QED
        BY ONLY <1>1, <1>4, <3>1
    <2>8. /\ low[1] = calls[1]
          /\ \A i \in DOMAIN low : i \in DOMAIN calls /\ low[i] = calls[i]
      BY ONLY <1>1, <1>4, <2>7
    <2>9. AssigningOn(low)
      <3>1. Len(low) > 1 => Len(calls) > 1
        BY <1>3a, <1>4
      <3> QED
        BY ONLY <1>0, <1>3, <2>8, <3>1 DEF AssigningOn
    <2>10. CopiedOn(low)
      <3> SUFFICES ASSUME NEW i \in 2..Len(low), low[i].op = "copy"
                   PROVE  LET h == low[i]
                              k == low[i - 1]
                          IN  /\ h.value.scope \in SlotScopes \union (IF low[1].op = "capture" THEN open ELSE hand)
                              /\ h.value.kind # "freed"
                              /\ h.at \subseteq NamesOf(h.value.scope) \ NamesOf(h.scope)
                              /\ k.op = "copy" => \A e \in k.at : h.value.kind = ValueOf(k.value.scope, e).kind
                              /\ k.op = "assign" => h.value = k.value
                              /\ i > 2 /\ ~hidden => h.value.kind = "function"
        BY DEF CopiedOn
      <3>1. i \in 2..Len(calls) /\ i \in 1..n - 1 /\ i - 1 \in 1..n - 1
        BY <1>1, <1>3a, <2>7
      <3>2. low[i] = calls[i] /\ low[i - 1] = calls[i - 1]
        BY <2>7, <3>1
      <3> QED
        BY <1>3, <2>8, <3>1, <3>2 DEF CopiedOn
    <2>11. LET h == low[Len(low)] IN
           /\ h.op = "copy" => \A e \in h.at : value.kind = ValueOf(h.value.scope, e).kind
           /\ h.op = "assign" => value.kind = h.value.kind /\ Settable(value)
           /\ h.op = "capture" => value.scope # NoScope
      <3>1. low[Len(low)] = calls[n - 1]
        <4>1. n - 1 \in 1..n - 1
          BY <1>1, <1>4
        <4> QED
          BY <2>7, <4>1
      <3>2. ASSUME calls[n - 1].op = "assign"
            PROVE  Settable(value)
        <4>1. n - 1 \in DOMAIN calls /\ n - 1 = 1
          BY <1>1, <1>2, <1>4, <3>2
        <4>2. Settable(calls[1].value)
          BY <1>0, <1>3, <3>2, <4>1 DEF AssigningOn, Sets
        <4>3. Top.value.scope # NoScope
          <5>1. from \in Owned
            BY <1>6 DEF Owned, SlotScopes
          <5> QED
            BY <1>0, <5>1, ScopeAssumption DEF Inv, EveryScopeHasOneOwner, TypeOK
        <4> QED
          BY <1>6, <2>1, <3>2, <4>1, <4>2, <4>3 DEF Settable
      <3> QED
        BY <1>6, <2>1, <2>3, <3>1, <3>2
    <2>12. Len(low) > 1 /\ ~hidden => value.kind = "function"
      <3>1. Len(low) > 1 => n > 2
        BY <1>1, <2>7
      <3> QED
        BY <1>6, <2>1, <3>1
    <2>13. \A i \in DOMAIN low : i > 1 => low[i].op = "copy"
      BY <1>2, <2>8
    <2>14. MayGive(low, value)
      BY <1>2, <1>5, <1>6, <2>1, <2>4, <2>5, <2>7, <2>8, <2>9, <2>10, <2>11, <2>12, <2>13 DEF MayGive
    <2> QED
      BY <1>0, <1>8, <2>6, <2>14, GiveStep
  <1> QED
    BY <1>7, <1>8 DEF CopyScope

(* So does storing the new value.                                          *)
LEMMA SetReplacedStep ==
    ASSUME Inv, SetReplaced
    PROVE  Inv'
  <1>0. TypeOK /\ calls # << >> /\ Top.op = "assign" /\ Quiet /\ CopyLiteral(calls, Top.value)
    BY DEF Inv, SetReplaced, Running, Quiet, Copies
  <1>1. /\ Len(calls) = 1 /\ Top = calls[1] /\ DOMAIN calls = {1} /\ Top \in FrameTypes
        /\ Top.value.scope \in hand \union {NoScope} /\ Settable(Top.value)
    BY <1>0, AssignedSlot
  <1>2. AssigningOn(calls) /\ CopiedOn(calls) /\ calls \in Seq(FrameTypes)
    BY DEF Inv, StackInv, Assigning, Copied, TypeOK
  <1>3. MayCall(calls, Top.value)
    BY <1>0, <1>1, <1>2 DEF MayCall, Copies, Settable, FrameTypes
  <1> QED
    BY <1>0, <1>3, CopyLiteralStep

-----------------------------------------------------------------------------
(* What the client calls.                                                  *)

(* Between two calls nothing is being freed.                               *)
LEMMA NoCall ==
    ASSUME Inv, calls = << >>
    PROVE  /\ Quiet /\ Busy = {} /\ ~Running("down") /\ FrameClaims(calls) = {}
           /\ DOMAIN calls = {}
           /\ Slots = {a \in DOMAIN variables : variables[a].value.scope # NoScope}
           /\ LeafScopes = Scopes(SlotClaims)
           /\ \A a \in DOMAIN variables : variables[a].value.kind # "freed"
  <1>1. Quiet
    BY DEF Quiet
  <1>2. FrameClaims(calls) = {} /\ DOMAIN calls = {}
    BY EmptyClaims
  <1> QED
    BY <1>1, <1>2, QuietFacts

(* One frame may call for the copy of a value.                             *)
LEMMA FirstFrame ==
    ASSUME Inv, calls = << >>, NEW f \in FrameTypes, f.op \in {"check", "get", "capture"},
           f.old.scope = NoScope, AssigningOn(<<f>>), NEW value \in ValueTypes,
           value.scope # NoScope =>
               value.kind # "freed" /\ value.scope \in SlotScopes \union (IF f.op = "capture" THEN open ELSE hand),
           f.op = "capture" => value.scope # NoScope,
           CopyLiteral(<<f>>, value)
    PROVE  Inv'
  <1> DEFINE stack == <<f>>
  <1>1. /\ stack \in Seq(FrameTypes) /\ stack # << >> /\ Len(stack) = 1 /\ DOMAIN stack = {1}
        /\ stack[1] = f
        /\ FrameClaims(stack) = HeldAt(1, f)
    BY OneFrame
  <1>2. AssigningOn(stack) /\ CopyLiteral(stack, value)
    OBVIOUS
  <1> HIDE DEF stack
  <1>3. HeldAt(1, f) = {}
    BY DEF HeldAt, Holds
  <1>4. CopiedOn(stack)
    BY <1>1 DEF CopiedOn
  <1>5. MayCall(stack, value)
    <2>1. stack[Len(stack)] = f /\ ~(Len(stack) > 1) /\ \A i \in DOMAIN stack : ~(i > 1)
      BY <1>1
    <2>2. f.op \in Copies /\ f.op \notin {"copy", "assign"}
      BY DEF Copies
    <2>3. FrameClaims(stack) = FrameClaims(calls)
      BY <1>1, <1>3, NoCall
    <2> QED
      BY <1>1, <1>2, <1>4, <2>1, <2>2, <2>3 DEF MayCall
  <1> QED
    BY <1>2, <1>5, NoCall, CopyLiteralStep

(* Each call of the client preserves the invariant.                        *)
LEMMA CaptureStep ==
    ASSUME Inv, calls = << >>, NEW original \in open, CaptureScope(original)
    PROVE  Inv'
  <1> DEFINE f == Frame("capture", NoScope)
             value == Value("function", original)
  <1>1. /\ f \in FrameTypes /\ f.op = "capture" /\ f.old.scope = NoScope
    BY FrameType, FrameFields DEF FrameOps
  <1>2. original \in Addresses /\ original # NoScope
    BY ScopeAssumption DEF Inv, TypeOK
  <1>3. value \in ValueTypes /\ value.kind = "function" /\ value.scope = original
    BY <1>2 DEF Value, ValueTypes, Kinds
  <1>4. CopyLiteral(<<f>>, value)
    BY DEF CaptureScope
  <1> HIDE DEF f, value
  <1>5. AssigningOn(<<f>>)
    BY <1>1 DEF AssigningOn, Sets
  <1> QED
    BY <1>1, <1>2, <1>3, <1>4, <1>5, FirstFrame

LEMMA GetStep ==
    ASSUME Inv, calls = << >>, NEW s \in open, NEW name \in Names, GetScopeVariable(s, name)
    PROVE  Inv'
  <1> DEFINE f == Frame("get", NoScope)
  <1>1. PICK t \in Allocated : Declares(s, name, t) /\ CopyLiteral(<<Frame("get", NoScope)>>, ValueOf(t, name))
    BY DEF GetScopeVariable
  <1> DEFINE value == ValueOf(t, name)
  <1>2. /\ f \in FrameTypes /\ f.op = "get" /\ f.old.scope = NoScope
    BY FrameType, FrameFields DEF FrameOps
  <1>3. <<t, name>> \in DOMAIN variables /\ value = variables[<<t, name>>].value
    BY <1>1 DEF Declares, NamesOf, ValueOf
  <1>4. CopyLiteral(<<f>>, value)
    BY <1>1
  <1> HIDE DEF f, value
  <1>5. /\ value \in ValueTypes
        /\ value.scope # NoScope => value.kind # "freed" /\ value.scope \in SlotScopes
    BY <1>3, NoCall, EntryMayBeCopied
  <1>6. AssigningOn(<<f>>)
    BY <1>2 DEF AssigningOn, Sets
  <1> QED
    BY <1>2, <1>4, <1>5, <1>6, FirstFrame

LEMMA SetStep ==
    ASSUME Inv, calls = << >>, NEW s \in open, NEW name \in Names, NEW new \in Values,
           NEW constCheck \in BOOLEAN, SetScopeVariable(s, name, new, constCheck)
    PROVE  Inv'
  <1>1. PICK t \in Allocated :
            /\ Declares(s, name, t)
            /\ CopyLiteral(<<[Frame("check", t) EXCEPT !.at = {name}, !.value = new,
                                                       !.constCheck = constCheck]>>,
                           ValueOf(t, name))
    BY DEF SetScopeVariable
  <1> DEFINE h == Frame("check", t)
             f == [h EXCEPT !.at = {name}, !.value = new, !.constCheck = constCheck]
             value == ValueOf(t, name)
  <1>2. t \in Addresses /\ t \in Chain(s)
    BY <1>1 DEF Inv, TypeOK, Declares
  <1>3. /\ new \in ValueTypes /\ new.scope \in hand \union {NoScope} /\ Settable(new)
    <2>1. hand \subseteq Addresses
      BY DEF Inv, TypeOK
    <2>2. CASE new = Null
      BY <2>2 DEF Null, Value, ValueTypes, Kinds, Settable
    <2>3. ASSUME NEW k \in {"function", "array"}, NEW u \in hand, new = Value(k, u)
          PROVE  <1>3!1
      BY <2>1, <2>3 DEF Value, ValueTypes, Kinds, Settable
    <2> QED
      BY <2>2, <2>3 DEF Values
  <1>4. /\ h \in FrameTypes /\ h.op = "check" /\ h.scope = t /\ h.old.scope = NoScope
    BY <1>2, FrameType, FrameFields DEF FrameOps
  <1>5. CopyLiteral(<<f>>, value)
    BY <1>1
  <1> HIDE DEF h
  <1>6. /\ f \in FrameTypes /\ f.op = "check" /\ f.scope = t /\ f.old.scope = NoScope
        /\ f.at = {name} /\ f.value = new
    BY <1>3, <1>4 DEF FrameTypes
  <1>7. <<t, name>> \in DOMAIN variables /\ value = variables[<<t, name>>].value
    BY <1>1 DEF Declares, NamesOf, ValueOf
  <1> HIDE DEF f, value
  <1>8. /\ value \in ValueTypes
        /\ value.scope # NoScope => value.kind # "freed" /\ value.scope \in SlotScopes
    BY <1>7, NoCall, EntryMayBeCopied
  <1>9. AssigningOn(<<f>>)
    <2>1. <<f>>[1] = f /\ Len(<<f>>) = 1
      OBVIOUS
    <2> QED
      BY <1>2, <1>3, <1>6, <1>7, <2>1 DEF AssigningOn
  <1> QED
    BY <1>5, <1>6, <1>8, <1>9, FirstFrame

LEMMA PushStep ==
    ASSUME Inv, calls = << >>, NEW above \in open \union hand \union {NoScope}, PushScope(above)
    PROVE  Inv'
  <1>1. PICK s \in Addresses : Alloc(s, above) /\ open' = open \union {s}
    BY DEF PushScope
  <1> DEFINE q == <<"open", 0, s>>
  <1>0. /\ TypeOK /\ variables' = variables
        /\ hand' = hand /\ hidden' = hidden /\ fault' = fault /\ calls' = << >>
    BY DEF Inv, PushScope
  <1>2. /\ Quiet /\ Busy = {} /\ ~Running("down") /\ FrameClaims(calls) = {}
        /\ DOMAIN calls = {}
        /\ Slots = {a \in DOMAIN variables : variables[a].value.scope # NoScope}
        /\ LeafScopes = Scopes(SlotClaims)
        /\ \A a \in DOMAIN variables : variables[a].value.kind # "freed"
    BY NoCall
  <1>3. above \in Allocated \union {NoScope} /\ above \notin LeafScopes
    <2>1. CASE above = NoScope
      <3>1. LeafScopes \subseteq Owned
        BY <1>2, OwnedIsScopes DEF Scopes, Claims
      <3> QED
        BY <1>0, <2>1, <3>1, ScopeAssumption DEF Inv, EveryScopeHasOneOwner, TypeOK
    <2>2. CASE above \in open \union hand
      <3>1. above \in Owned
        BY <2>2 DEF Owned
      <3>2. above \in Allocated /\ above \in Chain(above)
        BY <3>1, OwnedAllocated
      <3> QED
        BY <2>2, <3>2, OpenNotLeaf
    <2> QED
      BY <2>1, <2>2
  <1>4. /\ s \in Addresses /\ s \notin Allocated /\ Allocated' = Allocated \union {s}
        /\ \A u \in Allocated : Chain(u)' = Chain(u)
    BY <1>1, <1>2, <1>3, AllocChains
  <1>5. /\ calls' \in Seq(FrameTypes) /\ ~Running("down")' /\ Busy' = {}
        /\ Shape' /\ Assigning' /\ Copied' /\ Unwinding'
        /\ FrameClaims(calls') = {<<"frame", 1, u>> : u \in {Null.scope} \ {NoScope}}
        /\ LeafScopes' = Scopes(SlotClaims')
    <2>1. Null \in ValueTypes /\ calls' = Freeing(<< >>, Null)
      BY <1>0 DEF Null, Value, ValueTypes, Kinds, Freeing
    <2> QED
      BY <2>1, LastPop
  <1>6. FrameClaims(calls') = {} /\ Slots' = Slots /\ SlotClaims' = SlotClaims
    BY <1>0, <1>2, <1>5, EmptyClaims DEF Slots, SlotClaims, SlotScope
  <1>7. Claims' = Claims \union {q}
    <2>1. OpenClaims' = OpenClaims \union {q}
      BY <1>1 DEF OpenClaims
    <2> QED
      BY <1>0, <1>2, <1>6, <2>1 DEF Claims, HandClaims
  <1>8. Owned' = Owned \union {s} /\ OnePerScope(Claims')
    <2>1. OnePerScope(Claims) /\ q[3] = s
      BY OneOwner DEF Inv
    <2>2. s \notin Scopes(Claims)
      BY <1>4, OwnedIsScopes DEF Inv, EveryScopeHasOneOwner
    <2> HIDE DEF q
    <2>3. OnePerScope(Claims') /\ Scopes(Claims') = Scopes(Claims) \union {s}
      BY <1>7, <2>1, <2>2, NewClaim
    <2> QED
      BY <2>3, OwnedIsScopes, OwnersNext
  <1>9. EveryScopeHasOneOwner'
    <2>1. Owned' \subseteq Allocated'
      BY <1>4, <1>8 DEF Inv, EveryScopeHasOneOwner
    <2> QED
      BY <2>1, <1>8, OwnersNext
  <1>10. LeafScopes' \subseteq LeafScopes \union {s}
    BY <1>2, <1>5, <1>6
  <1>11. HeapInv'
    BY <1>0, <1>1, <1>2, <1>3, <1>5, <1>6, <1>8, <1>9, <1>10, AllocHeap
  <1>12. TypeOK'
    <2>1. references \in [Allocated -> Nat] /\ ancestor \in [Allocated -> Addresses \union {NoScope}]
          /\ Allocated \subseteq Addresses
      BY <1>0 DEF TypeOK
    <2>2. above \in Addresses \union {NoScope}
      BY <1>3, <2>1
    <2>3. /\ ancestor' = [t \in Allocated \union {s} |-> IF t = s THEN above ELSE ancestor[t]]
          /\ references' = [t \in Allocated \union {s} |->
                               IF t = s THEN 1
                               ELSE IF t \in Chain(above) THEN references[t] + 1
                               ELSE references[t]]
      BY <1>1 DEF Alloc
    <2>4. ancestor' \in [Allocated' -> Addresses \union {NoScope}]
      BY <1>4, <2>1, <2>2, <2>3
    <2>5. references' \in [Allocated' -> Nat]
      BY <1>4, <2>1, <2>3
    <2>6. Allocated' \subseteq Addresses /\ DOMAIN variables \subseteq Allocated' \X Names
      BY <1>0, <1>4 DEF TypeOK
    <2> QED
      BY <1>0, <1>1, <1>5, <2>4, <2>5, <2>6 DEF TypeOK
  <1>13. FreedOnlyWhenAssigned'
    BY <1>0, <1>2 DEF FreedOnlyWhenAssigned
  <1> QED
    BY <1>5, <1>9, <1>11, <1>12, <1>13 DEF Inv, StackInv

(* The client gives a scope away, to a function or to a pop.               *)
LEMMA ClientGives ==
    ASSUME Inv, calls = << >>, NEW p \in OpenClaims \union HandClaims, NEW q, q[3] = p[3],
           NEW old \in ValueTypes, calls' = Freeing(<< >>, old),
           OpenClaims' \union HandClaims' \union FrameClaims(calls')
               = ((OpenClaims \union HandClaims) \ {p}) \union {q},
           open' \subseteq Addresses, hand' \subseteq Addresses, UNCHANGED <<heap, hidden, fault>>
    PROVE  Inv'
  <1>0. /\ TypeOK /\ references' = references /\ ancestor' = ancestor /\ variables' = variables
        /\ hidden' = hidden /\ fault' = fault /\ Allocated' = Allocated
    BY DEF Inv, heap, Allocated
  <1>1. /\ Quiet /\ Busy = {} /\ ~Running("down") /\ FrameClaims(calls) = {}
        /\ DOMAIN calls = {}
        /\ LeafScopes = Scopes(SlotClaims)
        /\ \A a \in DOMAIN variables : variables[a].value.kind # "freed"
    BY NoCall
  <1>2. /\ calls' \in Seq(FrameTypes) /\ ~Running("down")' /\ Busy' = {}
        /\ Shape' /\ Assigning' /\ Copied' /\ Unwinding'
        /\ LeafScopes' = Scopes(SlotClaims')
    BY LastPop
  <1>3. Slots' = Slots /\ SlotClaims' = SlotClaims
    BY <1>0, <1>1, <1>2 DEF Slots, SlotClaims, SlotScope
  <1>4. p \in Claims /\ Claims' = (Claims \ {p}) \union {q}
    BY <1>1, <1>3, ClaimTags DEF Claims
  <1>5. Owned' = Owned /\ EveryScopeHasOneOwner'
    <2>1. OnePerScope(Claims) /\ Owned \subseteq Allocated
      BY OneOwner DEF Inv
    <2>2. OnePerScope(Claims') /\ Scopes(Claims') = Scopes(Claims)
      BY <1>4, <2>1, MovedClaim
    <2>3. Owned' = Owned
      BY <2>2, OwnedIsScopes, OwnersNext
    <2> QED
      BY <1>0, <2>1, <2>2, <2>3, OwnersNext
  <1>6. LeafScopes' \subseteq LeafScopes
    BY <1>1, <1>2, <1>3
  <1>7. HeapInv'
    BY <1>0, <1>1, <1>2, <1>3, <1>5, <1>6, QuietHeap
  <1>8. TypeOK'
    BY <1>0, <1>2 DEF TypeOK
  <1>9. FreedOnlyWhenAssigned'
    BY <1>0, <1>1 DEF FreedOnlyWhenAssigned
  <1> QED
    BY <1>2, <1>5, <1>7, <1>8, <1>9 DEF Inv, StackInv

LEMMA MakeStep ==
    ASSUME Inv, calls = << >>, NEW s \in open, MakeFunction(s)
    PROVE  Inv'
  <1> DEFINE p == <<"open", 0, s>>
             q == <<"hand", 0, s>>
  <1>1. /\ open' = open \ {s} /\ hand' = hand \union {s} /\ calls' = << >>
        /\ UNCHANGED <<heap, hidden, fault>>
    BY DEF MakeFunction
  <1>2. open \subseteq Addresses /\ hand \subseteq Addresses
    BY DEF Inv, TypeOK
  <1>3. Null \in ValueTypes /\ calls' = Freeing(<< >>, Null) /\ FrameClaims(calls') = {}
    BY <1>1, EmptyClaims DEF Null, Value, ValueTypes, Kinds, Freeing
  <1>4. p \in OpenClaims /\ p \notin HandClaims /\ q[3] = p[3]
    BY ClaimTags DEF OpenClaims
  <1>5. OpenClaims' = OpenClaims \ {p} /\ HandClaims' = HandClaims \union {q}
    BY <1>1 DEF OpenClaims, HandClaims
  <1> HIDE DEF p, q
  <1>6. OpenClaims' \union HandClaims' \union FrameClaims(calls')
            = ((OpenClaims \union HandClaims) \ {p}) \union {q}
    BY <1>3, <1>4, <1>5
  <1> QED
    BY <1>1, <1>2, <1>3, <1>4, <1>6, ClientGives

(* The pop of a scope that the client has, or frees with its function.     *)
LEMMA PopStarts ==
    ASSUME Inv, calls = << >>, NEW s, 
           \/ s \in open /\ open' = open \ {s} /\ hand' = hand
           \/ s \in hand /\ hand' = hand \ {s} /\ open' = open,
           calls' = <<Frame("pop", s)>>, UNCHANGED <<heap, hidden, fault>>
    PROVE  Inv'
  <1> DEFINE p == <<IF s \in open THEN "open" ELSE "hand", 0, s>>
             q == <<"frame", 1, s>>
             old == Value("function", s)
  <1>1. open \subseteq Addresses /\ hand \subseteq Addresses
    BY DEF Inv, TypeOK
  <1>2. s \in Addresses /\ s # NoScope
    BY <1>1, ScopeAssumption
  <1>3. old \in ValueTypes /\ calls' = Freeing(<< >>, old) /\ old.scope = s
    BY <1>2 DEF Value, ValueTypes, Kinds, Freeing
  <1> HIDE DEF old
  <1>4. FrameClaims(calls') = {q}
    <2>1. FrameClaims(calls') = {<<"frame", 1, u>> : u \in {old.scope} \ {NoScope}}
      BY <1>3, LastPop
    <2> QED
      BY <1>2, <1>3, <2>1
  <1>5. p \in OpenClaims \union HandClaims /\ q[3] = p[3]
    BY DEF OpenClaims, HandClaims
  <1>6. OpenClaims' \union HandClaims' = (OpenClaims \union HandClaims) \ {p}
    <2>1. open \intersect hand = {}
      BY DEF Inv, EveryScopeHasOneOwner
    <2>2. CASE s \in open
      <3>1. p = <<"open", 0, s>> /\ p \notin HandClaims
        BY <2>2, ClaimTags
      <3>2. OpenClaims' = OpenClaims \ {<<"open", 0, s>>} /\ HandClaims' = HandClaims
        BY <2>1, <2>2 DEF OpenClaims, HandClaims
      <3> HIDE DEF p
      <3> QED
        BY <3>1, <3>2
    <2>3. CASE s \notin open
      <3>1. p = <<"hand", 0, s>> /\ p \notin OpenClaims
        BY <2>3, ClaimTags
      <3>2. HandClaims' = HandClaims \ {<<"hand", 0, s>>} /\ OpenClaims' = OpenClaims
        BY <2>1, <2>3 DEF OpenClaims, HandClaims
      <3> HIDE DEF p
      <3> QED
        BY <3>1, <3>2
    <2> QED
      BY <2>2, <2>3
  <1> HIDE DEF p, q
  <1>7. OpenClaims' \union HandClaims' \union FrameClaims(calls')
            = ((OpenClaims \union HandClaims) \ {p}) \union {q}
    BY <1>4, <1>6
  <1>8. open' \subseteq Addresses /\ hand' \subseteq Addresses
    BY <1>1
  <1> QED
    BY <1>3, <1>5, <1>7, <1>8, ClientGives

LEMMA DeclareStep ==
    ASSUME Inv, calls = << >>, NEW s \in open, NEW name \in Names, NEW type \in Types,
           DeclareScopeVariable(s, name, type)
    PROVE  Inv'
  <1> DEFINE slot == <<s, name>>
  <1>0. /\ TypeOK /\ references' = references /\ ancestor' = ancestor
        /\ open' = open /\ hand' = hand /\ calls' = << >>
        /\ hidden' = hidden /\ fault' = fault /\ Allocated' = Allocated
    BY DEF Inv, DeclareScopeVariable, client, Allocated
  <1>1. /\ Quiet /\ Busy = {} /\ ~Running("down") /\ FrameClaims(calls) = {}
        /\ DOMAIN calls = {}
        /\ Slots = {a \in DOMAIN variables : variables[a].value.scope # NoScope}
        /\ LeafScopes = Scopes(SlotClaims)
        /\ \A a \in DOMAIN variables : variables[a].value.kind # "freed"
    BY NoCall
  <1>2. slot \notin DOMAIN variables /\ slot \in Allocated \X Names
    <2>1. s \in Allocated
      BY OwnedAllocated DEF Owned
    <2> QED
      BY <2>1 DEF DeclareScopeVariable, NamesOf
  <1>3. /\ DOMAIN variables' = DOMAIN variables \union {slot}
        /\ variables'[slot] = [type |-> type, value |-> Null]
        /\ \A a \in DOMAIN variables : a # slot /\ variables'[a] = variables[a]
    BY <1>2 DEF DeclareScopeVariable
  <1> HIDE DEF slot
  <1>4. /\ Null \in ValueTypes /\ Null.scope = NoScope /\ Null.kind = "null"
        /\ variables'[slot].type = type /\ variables'[slot].value = Null
    BY <1>3 DEF Null, Value, ValueTypes, Kinds
  <1>5. /\ calls' \in Seq(FrameTypes) /\ ~Running("down")' /\ Busy' = {}
        /\ Shape' /\ Assigning' /\ Copied' /\ Unwinding'
        /\ FrameClaims(calls') = {<<"frame", 1, u>> : u \in {Null.scope} \ {NoScope}}
        /\ LeafScopes' = Scopes(SlotClaims')
    <2>1. calls' = Freeing(<< >>, Null)
      BY <1>0, <1>4 DEF Freeing
    <2> QED
      BY <1>4, <2>1, LastPop
  <1>6. Slots' = Slots /\ \A a \in Slots : SlotScope(a)' = SlotScope(a)
    <2>1. Slots' = {a \in DOMAIN variables' : variables'[a].value.scope # NoScope}
      BY <1>5 DEF Slots
    <2> QED
      BY <1>1, <1>3, <1>4, <2>1 DEF SlotScope
  <1>7. SlotClaims' = SlotClaims /\ FrameClaims(calls') = {}
    BY <1>0, <1>6, EmptyClaims DEF SlotClaims
  <1>8. Claims' = Claims
    BY <1>0, <1>1, <1>7 DEF Claims, OpenClaims, HandClaims
  <1>9. Owned' = Owned /\ EveryScopeHasOneOwner'
    <2>1. Owned' = Owned
      BY <1>8, OwnedIsScopes, OwnersNext
    <2> QED
      BY <1>0, <1>8, <2>1, OneOwner, OwnersNext DEF Inv
  <1>10. LeafScopes' \subseteq LeafScopes
    BY <1>1, <1>5, <1>7
  <1>11. HeapInv'
    <2>1. \A a \in Slots' : variables'[a].value = variables[a].value
      BY <1>1, <1>3, <1>6
    <2> QED
      BY <1>0, <1>1, <1>5, <1>6, <1>9, <1>10, <2>1, QuietHeap
  <1>12. TypeOK'
    <2>1. ASSUME NEW a \in DOMAIN variables'
          PROVE  LET v == variables'[a] IN
                 /\ v \in [type : Types, value : ValueTypes]
                 /\ v.type.of = "any" \/ v.value.kind \in {"null", "freed", v.type.of}
      <3>1. CASE a = slot
        <4>1. variables'[slot] \in [type : Types, value : ValueTypes]
          BY <1>3, <1>4
        <4> QED
          BY <1>4, <3>1, <4>1
      <3>2. CASE a # slot
        BY <1>0, <1>3, <2>1, <3>2 DEF TypeOK
      <3> QED
        BY <3>1, <3>2
    <2>2. DOMAIN variables' \subseteq Allocated' \X Names /\ Allocated' \subseteq Addresses
      BY <1>0, <1>2, <1>3 DEF TypeOK
    <2> QED
      BY <1>0, <1>5, <2>1, <2>2 DEF TypeOK
  <1>13. FreedOnlyWhenAssigned'
    BY <1>1, <1>3, <1>4 DEF FreedOnlyWhenAssigned
  <1> QED
    BY <1>5, <1>9, <1>11, <1>12, <1>13 DEF Inv, StackInv

-----------------------------------------------------------------------------
(* The invariant.                                                          *)

(* The invariant holds initially and is preserved by every step.           *)
LEMMA InvInit ==
    ASSUME Init
    PROVE  Inv
  <1>1. /\ references = << >> /\ ancestor = << >> /\ variables = << >>
        /\ open = {} /\ hand = {} /\ calls = << >> /\ hidden = FALSE /\ fault = "none"
    BY DEF Init
  <1>2. Allocated = {} /\ DOMAIN variables = {} /\ DOMAIN calls = {} /\ Len(calls) = 0
    BY <1>1 DEF Allocated
  <1>3. TypeOK
    <2>1. references \in [Allocated -> Nat] /\ ancestor \in [Allocated -> Addresses \union {NoScope}]
      BY <1>1, <1>2
    <2>2. calls \in Seq(FrameTypes)
      <3>1. << >> \in Seq(FrameTypes)
        OBVIOUS
      <3> QED
        BY ONLY <1>1, <3>1
    <2> QED
      BY <1>1, <1>2, <2>1, <2>2 DEF TypeOK
  <1>4. Slots = {} /\ Claims = {} /\ Owned = {}
    <2>1. Slots = {}
      BY <1>2 DEF Slots
    <2>2. FrameClaims(calls) = {}
      BY <1>1, EmptyClaims
    <2>3. Claims = {}
      BY <1>1, <2>1, <2>2 DEF Claims, OpenClaims, HandClaims, SlotClaims
    <2> QED
      BY <2>1, <2>3, OwnedIsScopes DEF Scopes
  <1>5. EveryScopeHasOneOwner
    BY <1>2, <1>4, OneOwner DEF OnePerScope
  <1>6. StackInv
    BY <1>1, <1>2 DEF StackInv, Shape, Assigning, AssigningOn, Copied, CopiedOn, Unwinding
  <1>7. HeapInv
    BY <1>2, <1>4 DEF HeapInv, Acyclic, Counted, Rooted, Dying, Leaves, WellFounded, Visible
  <1>8. FreedOnlyWhenAssigned
    BY <1>2 DEF FreedOnlyWhenAssigned
  <1> QED
    BY <1>3, <1>5, <1>6, <1>7, <1>8 DEF Inv

LEMMA InvNext ==
    ASSUME Inv, [Next]_vars
    PROVE  Inv'
  <1>1. CASE UNCHANGED vars
    <2>1. UNCHANGED <<heap, client, calls, hidden>> /\ fault' = fault
      BY <1>1 DEF vars
    <2>2. fault \in {"none", "null scope", "freed value"}
      BY DEF Inv, TypeOK
    <2> QED
      BY <2>1, <2>2, FaultStep
  <1>2. CASE calls = << >> /\ Call
    <2>1. ASSUME NEW s \in open \union hand \union {NoScope}, PushScope(s)
          PROVE  Inv'
      BY <1>2, <2>1, PushStep
    <2>2. ASSUME NEW s \in open, CaptureScope(s)
          PROVE  Inv'
      BY <1>2, <2>2, CaptureStep
    <2>3. ASSUME NEW s \in open, MakeFunction(s)
          PROVE  Inv'
      BY <1>2, <2>3, MakeStep
    <2>4. ASSUME NEW s \in open, Pop(s)
          PROVE  Inv'
      BY <1>2, <2>4, PopStarts DEF Pop
    <2>5. ASSUME NEW s \in open, NEW name \in Names, NEW type \in Types, DeclareScopeVariable(s, name, type)
          PROVE  Inv'
      BY <1>2, <2>5, DeclareStep
    <2>6. ASSUME NEW s \in open, NEW name \in Names, NEW value \in Values, NEW constCheck \in BOOLEAN,
                 SetScopeVariable(s, name, value, constCheck)
          PROVE  Inv'
      BY <1>2, <2>6, SetStep
    <2>7. ASSUME NEW s \in open, NEW name \in Names, GetScopeVariable(s, name)
          PROVE  Inv'
      BY <1>2, <2>7, GetStep
    <2>8. ASSUME NEW s \in hand, FreeFunction(s)
          PROVE  Inv'
      BY <1>2, <2>8, PopStarts DEF FreeFunction
    <2> QED
      BY <1>2, <2>1, <2>2, <2>3, <2>4, <2>5, <2>6, <2>7, <2>8 DEF Call
  <1>3. CASE Step
    BY <1>3, CopyScopeStep, PopScopeStep, CountDownStep, KeepStep, ReleaseStep, SetCheckedStep,
       SetReplacedStep DEF Step
  <1> QED
    BY <1>1, <1>2, <1>3 DEF Next

LEMMA Invariance == Spec => []Inv
  <1>1. Init => Inv
    BY InvInit
  <1>2. Inv /\ [Next]_vars => Inv'
    BY InvNext
  <1> QED
    BY <1>1, <1>2, PTL DEF Spec

-----------------------------------------------------------------------------
(* The theorems.                                                           *)

(* The state keeps its types, and a variable of the type function never    *)
(* holds an array: setScopeVariable checks the type before setEntryValues  *)
(* stores the copy.                                                        *)
THEOREM ScopeTypes == Spec => []TypeOK
  <1>1. Inv => TypeOK
    BY DEF Inv
  <1> QED
    BY <1>1, Invariance, PTL

(* Each scope that was not popped has one owner in the middle of every     *)
(* call: copyScope, popScope and freeAncestorChain, however deep they are  *)
(* in each other, never pop a scope twice, nor one a variable still has.   *)
THEOREM OneOwnerEach == Spec => []EveryScopeHasOneOwner
  <1>1. Inv => EveryScopeHasOneOwner
    BY DEF Inv
  <1> QED
    BY <1>1, Invariance, PTL

(* The reference count that pushScope and copyScope count up and           *)
(* freeAncestorChain counts down is the number of scopes, among a scope    *)
(* and its descendants, that were not popped.                              *)
THEOREM CountsAreRight == Spec => []ReferencesCountDescendants
  <1>1. ASSUME Inv PROVE ReferencesCountDescendants
    <2> SUFFICES ASSUME NEW s \in Allocated
                 PROVE  /\ references[s] = Cardinality({o \in Owned : s \in Chain(o)}) + ToCountDown(s)
                        /\ references[s] > 0 => ancestor[s] \in Allocated \union {NoScope}
                        /\ calls = << >> => references[s] > 0
      BY DEF ReferencesCountDescendants
    <2>1. references[s] = Cardinality({o \in Owned : s \in Chain(o)}) + ToCountDown(s)
      BY <1>1 DEF Inv, HeapInv, Counted
    <2>2. references[s] > 0 => ancestor[s] \in Allocated \union {NoScope}
      BY <1>1 DEF Inv, HeapInv, Rooted
    <2>3. ASSUME calls = << >> PROVE references[s] > 0
      <3>1. references[s] # 0
        BY <1>1, <2>3, NoCall DEF Inv, HeapInv, Dying
      <3>2. references[s] \in Nat
        BY <1>1 DEF Inv, TypeOK
      <3> QED
        BY <3>1, <3>2
    <2> QED
      BY <2>1, <2>2, <2>3
  <1> QED
    BY <1>1, Invariance, PTL

(* When the client has popped and freed everything, popScope and           *)
(* freeAncestorChain have freed every scope: functions that own each       *)
(* other's scopes through variables cannot keep themselves alive.          *)
THEOREM EverythingIsFreed == Spec => []NothingLeaks
  <1>1. ASSUME Inv, open = {}, hand = {}, calls = << >>, ~hidden, NEW s \in Allocated
        PROVE  FALSE
    <2>1. ~Running("down") /\ DOMAIN calls = {} /\ EveryScopeHasOneOwner
      BY <1>1, NoCall DEF Inv
    <2>2. references[s] \in Nat /\ references[s] # 0
      BY <1>1, <2>1 DEF Inv, TypeOK, HeapInv, Dying
    <2> DEFINE S == {o \in Owned : s \in Chain(o)}
    <2>3. references[s] = Cardinality(S)
      <3>1. references[s] = Cardinality(S) + ToCountDown(s) /\ ToCountDown(s) = 0
        BY <1>1, <2>1 DEF Inv, HeapInv, Counted, ToCountDown
      <3>2. IsFiniteSet(S)
        BY <1>1, OwnedFinite DEF Inv
      <3> HIDE DEF S
      <3>3. Cardinality(S) \in Nat
        BY <3>2, CardinalityPositive
      <3> QED
        BY <3>1, <3>3
    <2>4. S # {}
      <3>1. ASSUME S = {} PROVE FALSE
        <4>1. Cardinality(S) = 0
          <5> HIDE DEF S
          <5> QED
            BY <3>1, FS_EmptySet
        <4> QED
          BY <2>2, <2>3, <4>1
      <3> QED
        BY <3>1
    <2>5. Owned # {} /\ Owned \subseteq Allocated
      BY <2>1, <2>4 DEF EveryScopeHasOneOwner
    <2>6. ASSUME NEW o \in Owned PROVE \E a \in Slots : SlotScope(a) = o
      <3>1. ToSet(calls) = {}
        BY <2>1 DEF ToSet
      <3> QED
        BY <1>1, <3>1 DEF Owned
    <2>7. PICK o \in Owned : \A a \in Slots : SlotScope(a) = o => a[1] \notin Owned
      BY <1>1, <2>5 DEF Inv, HeapInv, WellFounded
    <2>8. \A a \in Slots : a[1] \in Owned
      BY <1>1 DEF Inv, HeapInv, Visible
    <2> QED
      BY <2>6, <2>7, <2>8
  <1>2. Inv => NothingLeaks
    BY <1>1 DEF NothingLeaks
  <1> QED
    BY <1>2, Invariance, PTL

(* A stack of more than one frame.                                         *)
LEMMA LastOfTwo == \A n \in Nat : n # 0 /\ n # 1 => n \in 2..n
  OBVIOUS

(* Only the copy of a value reads what was freed.                          *)
LEMMA CopyFaults ==
    ASSUME NEW stack, NEW value, CopyLiteral(stack, value), fault = "none", fault' = "freed value"
    PROVE  value.kind = "freed"
  BY DEF CopyLiteral, Fault

(* setEntryValues frees the old value before it copies the new one, and    *)
(* the copy reads the freed one only when a function that is running       *)
(* assigns itself to a variable of its own scope.                          *)
THEOREM FreedOnlyReadByItself == Spec => FreedValueReadOnlyBySelfAssignment
  <1>1. ASSUME Inv, [Next]_vars
        PROVE  [fault' = "freed value" => \E s \in hand, o \in open : s \in Chain(o)]_vars
    <2> SUFFICES ASSUME Next, fault' = "freed value"
                 PROVE  \E s \in hand, o \in open : s \in Chain(o)
      BY <1>1
    <2>0. fault = "none"
      BY DEF Next
    <2>1. ASSUME calls = << >> PROVE ~Call
      <3>1. \A a \in DOMAIN variables : variables[a].value.kind # "freed"
        BY <1>1, <2>1, NoCall
      <3>2. \A s, name, t : Declares(s, name, t) => ValueOf(t, name).kind # "freed"
        BY <3>1 DEF Declares, NamesOf, ValueOf
      <3>3. \A s : ~PushScope(s) /\ ~MakeFunction(s) /\ ~Pop(s) /\ ~FreeFunction(s)
        BY <2>0 DEF PushScope, MakeFunction, Pop, FreeFunction
      <3>4. \A s, name, type : ~DeclareScopeVariable(s, name, type)
        BY <2>0 DEF DeclareScopeVariable
      <3>5. ASSUME NEW s, CaptureScope(s) PROVE FALSE
        <4>1. Value("function", s).kind = "freed"
          BY <2>0, <3>5, CopyFaults DEF CaptureScope
        <4> QED
          BY <4>1 DEF Value
      <3>6. ASSUME NEW s, NEW name, NEW value, NEW constCheck, SetScopeVariable(s, name, value, constCheck)
            PROVE  FALSE
        <4> DEFINE stackOf(t) == <<[Frame("check", t) EXCEPT !.at = {name}, !.value = value,
                                                             !.constCheck = constCheck]>>
        <4>1. PICK t \in Allocated : Declares(s, name, t) /\ CopyLiteral(stackOf(t), ValueOf(t, name))
          BY <3>6 DEF SetScopeVariable
        <4> DEFINE stack == stackOf(t)
                   old == ValueOf(t, name)
        <4>2. CopyLiteral(stack, old) /\ old.kind # "freed"
          BY <3>2, <4>1
        <4> HIDE DEF stack, old
        <4> QED
          BY <2>0, <4>2, CopyFaults
      <3>7. ASSUME NEW s, NEW name, GetScopeVariable(s, name) PROVE FALSE
        <4> DEFINE stack == <<Frame("get", NoScope)>>
        <4>1. PICK t \in Allocated : Declares(s, name, t) /\ CopyLiteral(stack, ValueOf(t, name))
          BY <3>7 DEF GetScopeVariable
        <4> DEFINE old == ValueOf(t, name)
        <4>2. CopyLiteral(stack, old) /\ old.kind # "freed"
          BY <3>2, <4>1
        <4> HIDE DEF stack, old
        <4> QED
          BY <2>0, <4>2, CopyFaults
      <3> QED
        BY <3>3, <3>4, <3>5, <3>6, <3>7 DEF Call
    <2>2. /\ ~PopScope /\ ~CountDown /\ ~Keep /\ ~Release /\ ~SetChecked
      BY <2>0 DEF PopScope, CountDown, Keep, Release, SetChecked
    <2>3. ~SetReplaced
      <3> SUFFICES ASSUME SetReplaced PROVE FALSE
        OBVIOUS
      <3>1. calls # << >> /\ Top.op = "assign" /\ CopyLiteral(calls, Top.value)
        BY DEF SetReplaced, Running
      <3>2. Settable(Top.value)
        BY <1>1, <3>1, AssignedSlot
      <3> QED
        BY <2>0, <3>1, <3>2, CopyFaults DEF Settable
    <2>4. CopyScope
      BY <2>1, <2>2, <2>3 DEF Next, Step
    <2> DEFINE from == Top.value.scope
    <2>5. /\ TypeOK /\ Shape /\ calls # << >> /\ Top.op = "copy" /\ Quiet /\ CopiedOn(calls)
      BY <1>1, <2>4 DEF Inv, StackInv, CopyScope, Running, Quiet, Copied
    <2>6. PICK m \in NamesOf(from) \ NamesOf(Top.scope) : ValueOf(from, m).kind = "freed"
      <3>1. PICK m \in NamesOf(from) \ NamesOf(Top.scope) :
                CopyLiteral(Append(Below, [Top EXCEPT !.at = {m}]), ValueOf(from, m))
        BY <2>0, <2>4 DEF CopyScope
      <3> DEFINE stack == Append(Below, [Top EXCEPT !.at = {m}])
                 value == ValueOf(from, m)
      <3>2. CopyLiteral(stack, value)
        BY <3>1
      <3>3. value.kind = "freed"
        <4> HIDE DEF stack, value
        <4> QED
          BY <2>0, <3>2, CopyFaults
      <3> QED
        BY <3>1, <3>3
    <2>7. calls[1].op = "assign" /\ <<from, m>> \in Slot(calls[1])
      BY <1>1, <2>5, <2>6, QuietFacts DEF NamesOf, ValueOf
    <2>8. from = calls[1].scope
      BY <2>7 DEF Slot
    <2>9. PICK o \in open : from \in Chain(o)
      BY <1>1, <2>5, <2>7, <2>8 DEF Inv, StackInv, Assigning, AssigningOn, Sets
    <2>10. from \in SlotScopes \union hand
      <3>1. Len(calls) \in 2..Len(calls) /\ Top = calls[Len(calls)]
        <4>1. Len(calls) \in Nat \ {0} /\ Top = calls[Len(calls)]
          BY <2>5, TopFacts
        <4>2. Len(calls) # 1
          BY <2>5, <2>7, <4>1
        <4> QED
          BY <4>1, <4>2, LastOfTwo
      <3> QED
        BY <2>5, <2>7, <3>1 DEF CopiedOn
    <2>11. from \notin SlotScopes
      <3>1. from \notin LeafScopes
        BY <1>1, <2>9, OpenNotLeaf
      <3>2. LeafScopes = Scopes(SlotClaims \union FrameClaims(calls))
        BY <1>1, <2>5, QuietFacts
      <3>3. \A a \in Slots : <<"slot", a, SlotScope(a)>> \in SlotClaims /\ <<"slot", a, SlotScope(a)>>[3] = SlotScope(a)
        BY DEF SlotClaims
      <3>4. \A a \in Slots : SlotScope(a) \in LeafScopes
        BY <3>2, <3>3 DEF Scopes
      <3> QED
        BY <3>1, <3>4 DEF SlotScopes
    <2> QED
      BY <2>9, <2>10, <2>11
  <1> QED
    BY <1>1, Invariance, PTL DEF Spec, FreedValueReadOnlyBySelfAssignment
=============================================================================

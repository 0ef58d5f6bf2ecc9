-------------------------------- MODULE Scope --------------------------------
(***************************************************************************)
(* Scopes of the XVR library (src/xvr_scope.cpp): a tree of variables kept *)
(* by manual reference counts, in which function values own scopes of      *)
(* their own.                                                              *)
(*                                                                         *)
(* A function value holds a pointer to its scope; copying the value copies *)
(* the scope, and freeing it pops the scope (src/xvr_literal.cpp).  So     *)
(* every scope that was not popped should have one owner: the client, a    *)
(* function the client holds, a function in a variable, or the call that   *)
(* is copying or freeing one.  A popped scope stays while one that         *)
(* descends from it is not popped.                                         *)
(*                                                                         *)
(* The procedures call each other recursively while they change the scopes *)
(* they are walking over, so a call is run step by step, on a stack.       *)
(*                                                                         *)
(* The client is any program that pops what it pushed and frees the        *)
(* functions it got, as an interpreter with closures does.  Names stand    *)
(* for identifiers; of the values only null and those that own scopes are  *)
(* kept.  The two dictionaries of a scope are finite maps, which is what   *)
(* LiteralDictionary implements.                                           *)
(***************************************************************************)
EXTENDS Integers, FiniteSets, SequencesExt

CONSTANTS
    Names,
    Types,       \* a set of [of, constant]
    Addresses,   \* where a scope may be allocated
    NoScope,     \* NULL
    Nested,      \* whether a scope is left only after the scopes within it
    MaxHeld      \* bound: scopes the client has to pop or to free

TypeNames == {"any", "function"}
Kinds == {"null", "function", "array", "freed"}

ASSUME ScopeAssumption ==
    /\ Types \subseteq [of : TypeNames, constant : BOOLEAN]
    /\ NoScope \notin Addresses /\ IsFiniteSet(Addresses)
    /\ Nested \in BOOLEAN /\ MaxHeld \in Nat

VARIABLES
    references,   \* of the allocated scopes
    ancestor,     \* of the allocated scopes
    variables,    \* the entries: <<scope, name>> to [type, value]
    open,         \* scopes the client has to pop
    hand,         \* scopes of the functions the client has to free
    calls,        \* the stack of the call in progress
    hidden,       \* history: a function was put where popScope does not look
    fault         \* undefined behaviour a call ran into, "none" so far

heap == <<references, ancestor, variables>>
client == <<open, hand>>
vars == <<heap, client, calls, hidden, fault>>

\* An array is one with a function in it; the scope of other values is
\* NoScope.  A freed value is one whose memory is gone while its bits are
\* still in the entry.
Value(kind, scope) == [kind |-> kind, scope |-> scope]
Null == Value("null", NoScope)
Freed == Value("freed", NoScope)

Allocated == DOMAIN ancestor
NamesOf(s) == {n \in Names : <<s, n>> \in DOMAIN variables}
ValueOf(s, n) == variables[<<s, n>>].value

\* A scope and what encloses it, given the parent of each: the least set with
\* the parents of its members.
Enclosing(parent, s) ==
    LET scopes == DOMAIN parent
        closed == {S \in SUBSET scopes :
                      s \in S /\ \A u \in S : parent[u] \in scopes => parent[u] \in S}
    IN  {t \in scopes : s \in scopes /\ \A S \in closed : t \in S}

Chain(s) == Enclosing(ancestor, s)

\* The scope of the chain that declares a name, the nearest one.
Declares(s, name, t) ==
    /\ t \in Chain(s) /\ name \in NamesOf(t)
    /\ \A u \in Chain(s) : name \in NamesOf(u) => u \in Chain(t)

-----------------------------------------------------------------------------
(* The stack.  The last frame runs; at holds the name of the entry that it *)
(* is about, if any:                                                       *)
(*   pop      Xvr_popScope, about the function it takes the scope from     *)
(*   down     freeAncestorChain, before it counts down                     *)
(*   up       freeAncestorChain, back from the ancestor                    *)
(*   free     freeAncestorChain, freeing the entries of the scope          *)
(*   copy     Xvr_copyScope from the scope of value to scope               *)
(*   check, replace, assign    Xvr_setScopeVariable: before the check, the *)
(*            old value being freed, the new one (value) being copied; old *)
(*            is the copy of the old value that was checked                *)
(*   get, capture   the client's Xvr_getScopeVariable and Xvr_copyScope    *)
Frame(op, scope) ==
    [op |-> op, scope |-> scope, at |-> {}, value |-> Null, old |-> Null,
     constCheck |-> FALSE]
CopyFrame(to, value) == [Frame("copy", to) EXCEPT !.value = value]

Top == Last(calls)
Below == Front(calls)
Running(op) == calls # << >> /\ Top.op = op
Slot(f) == {<<f.scope, n>> : n \in f.at}

\* Entries whose value is just being freed.
Busy == UNION {Slot(f) : f \in {g \in ToSet(calls) : g.op \in {"pop", "free", "replace"}}}

\* Who owns a scope: the client, a value in a variable, or a call.
Slots == {slot \in DOMAIN variables : variables[slot].value.scope # NoScope} \ Busy
SlotScope(slot) == variables[slot].value.scope
Holds(f) == CASE f.op \in {"pop", "copy"} -> {f.scope}
              [] f.op \in {"check", "replace", "assign"} -> {f.old.scope} \ {NoScope}
              [] OTHER -> {}
Owned == open \union hand \union {SlotScope(slot) : slot \in Slots}
              \union UNION {Holds(f) : f \in ToSet(calls)}

\* The stack without the last frame, and a pop on it if the value has a scope.
Freeing(stack, value) ==
    IF value.scope = NoScope THEN stack ELSE Append(stack, Frame("pop", value.scope))

\* A pop is over: the frame that waited for it has freed the value of its
\* entry.
Returned(stack) ==
    IF stack = << >> THEN stack
    ELSE LET f == Last(stack) IN
         CASE f.op \in {"pop", "free"} -> Append(Front(stack), [f EXCEPT !.at = {}])
           [] f.op = "replace" -> Append(Front(stack), [f EXCEPT !.op = "assign"])
           [] OTHER -> stack

AfterPop(f, value) == CASE f.op = "pop" -> [value EXCEPT !.scope = NoScope]
                        [] f.op = "free" -> Null
                        [] f.op = "replace" -> Freed

Settled(stack, entries) ==
    IF stack = << >> THEN entries
    ELSE LET f == Last(stack) IN
         IF f.op \notin {"pop", "free", "replace"} THEN entries
         ELSE [slot \in DOMAIN entries |->
                  IF slot \in Slot(f)
                  THEN [entries[slot] EXCEPT !.value = AfterPop(f, @)]
                  ELSE entries[slot]]

-----------------------------------------------------------------------------
(* Xvr_pushScope and the start of Xvr_copyScope.                            *)

\* Counts up the new scope only.
AllocMutant(s, above) ==
    /\ s \in Addresses \ Allocated
    /\ ancestor' = [t \in Allocated \union {s} |-> IF t = s THEN above ELSE ancestor[t]]
    /\ references' = [t \in Allocated \union {s} |-> IF t = s THEN 1 ELSE references[t]]

\* A new scope without variables; it and its ancestors are counted up.
Alloc(s, above) ==
    /\ s \in Addresses \ Allocated
    /\ ancestor' = [t \in Allocated \union {s} |-> IF t = s THEN above ELSE ancestor[t]]
    /\ references' = [t \in Allocated \union {s} |->
                         IF t = s THEN 1
                         ELSE IF t \in Chain(above) THEN references[t] + 1
                         ELSE references[t]]

\* Stores a value, which is hidden from popScope in an array or in a scope
\* that was popped already.
Assign(f, value) ==
    /\ variables' = [slot \in DOMAIN variables |->
                        IF slot \in Slot(f) THEN [variables[slot] EXCEPT !.value = value]
                        ELSE variables[slot]]
    /\ hidden' = (hidden \/ /\ value.scope # NoScope
                            /\ (value.kind = "array" \/ f.scope \notin Owned))

\* The last frame of the stack gets the copy it has called for.
Give(stack, value) ==
    LET f == Last(stack)
        below == Front(stack)
    IN  \/ /\ f.op = "capture"
           /\ open' = open \union {value.scope}
           /\ calls' = below
           /\ UNCHANGED <<variables, hand, hidden>>
        \/ /\ f.op = "get"
           /\ hand' = hand \union ({value.scope} \ {NoScope})
           /\ calls' = below
           /\ UNCHANGED <<variables, open, hidden>>
        \/ /\ f.op = "check"
           /\ calls' = Append(below, [f EXCEPT !.old = value])
           /\ UNCHANGED <<variables, client, hidden>>
        \/ /\ f.op = "assign"
           /\ Assign(f, value)
           /\ calls' = Freeing(below, f.old)
           /\ UNCHANGED client
        \/ /\ f.op = "copy"
           /\ \E n \in f.at :
                 variables' = [slot \in DOMAIN variables \union {<<f.scope, n>>} |->
                                 IF slot = <<f.scope, n>>
                                 THEN [type |-> variables[<<f.value.scope, n>>].type,
                                       value |-> value]
                                 ELSE variables[slot]]
           /\ calls' = Append(below, [f EXCEPT !.at = {}])
           /\ UNCHANGED <<client, hidden>>

\* Reading the scope of a function that has none, or a value that was freed.
Fault(kind) == fault' = kind /\ UNCHANGED <<heap, client, calls, hidden>>

\* The pointer to the scope is copied, not the scope.
CopyLiteralMutant(stack, value) ==
    \/ value.kind = "freed" /\ Fault("freed value")
    \/ value.kind = "function" /\ value.scope = NoScope /\ Fault("null scope")
    \/ /\ value.kind # "freed" /\ (value.kind = "function" => value.scope # NoScope)
       /\ Give(stack, value)
       /\ UNCHANGED <<references, ancestor, fault>>

\* Xvr_copyLiteral, called by the last frame of the stack: it copies the
\* scope of a function, or of the one in an array.
CopyLiteral(stack, value) ==
    \/ value.kind = "freed" /\ Fault("freed value")
    \/ value.kind = "function" /\ value.scope = NoScope /\ Fault("null scope")
    \/ /\ value.scope # NoScope
       /\ \E s \in Addresses :
             /\ Alloc(s, ancestor[value.scope])
             /\ calls' = Append(stack, CopyFrame(s, value))
       /\ UNCHANGED <<variables, client, hidden, fault>>
    \/ /\ value.scope = NoScope /\ value.kind \notin {"freed", "function"}
       /\ Give(stack, value)
       /\ UNCHANGED <<references, ancestor, fault>>

\* The loops of Xvr_copyScope over the entries, in any order.
CopyScope ==
    /\ Running("copy")
    /\ LET from == Top.value.scope
           left == NamesOf(from) \ NamesOf(Top.scope)
       IN  \/ \E n \in left :
                 CopyLiteral(Append(Below, [Top EXCEPT !.at = {n}]), ValueOf(from, n))
           \/ /\ left = {}
              /\ Give(Below, Value(Top.value.kind, Top.scope))
              /\ UNCHANGED <<references, ancestor, fault>>

-----------------------------------------------------------------------------
(* Xvr_popScope and freeAncestorChain.                                      *)

\* The functions in the scope are left to the release.
PopScopeMutant ==
    /\ Running("pop")
    /\ calls' = Append(Below, Frame("down", Top.scope))
    /\ UNCHANGED <<heap, client, hidden, fault>>

\* The functions in the scope's own variables lose their scopes first,
\* whether or not the scope is going to be freed.
PopScope ==
    /\ Running("pop")
    /\ LET functions == {n \in NamesOf(Top.scope) :
                            /\ ValueOf(Top.scope, n).kind = "function"
                            /\ ValueOf(Top.scope, n).scope # NoScope}
       IN  \/ \E n \in functions :
                 calls' = Freeing(Append(Below, [Top EXCEPT !.at = {n}]), ValueOf(Top.scope, n))
           \/ functions = {} /\ calls' = Append(Below, Frame("down", Top.scope))
    /\ UNCHANGED <<heap, client, hidden, fault>>

\* freeAncestorChain counts down on its way to the outermost scope.
CountDown ==
    /\ Running("down")
    /\ LET s == Top.scope
           counted == Append(Below, Frame("up", s))
       IN  /\ references' = [references EXCEPT ![s] = @ - 1]
           /\ calls' = IF ancestor[s] = NoScope THEN counted
                       ELSE Append(counted, Frame("down", ancestor[s]))
    /\ UNCHANGED <<ancestor, variables, client, hidden, fault>>

\* On its way back it leaves the scopes that somebody needs.
Keep ==
    /\ Running("up") /\ references[Top.scope] > 0
    /\ calls' = Returned(Below) /\ variables' = Settled(Below, variables)
    /\ UNCHANGED <<references, ancestor, client, hidden, fault>>

\* Of a scope that nobody needs it frees the values, in any order, and then
\* the scope.
Release ==
    \/ /\ Running("up") /\ references[Top.scope] = 0
       /\ calls' = Append(Below, Frame("free", Top.scope))
       /\ UNCHANGED <<heap, client, hidden, fault>>
    \/ /\ Running("free")
       /\ \E n \in NamesOf(Top.scope) :
             /\ ValueOf(Top.scope, n).scope # NoScope
             /\ calls' = Freeing(Append(Below, [Top EXCEPT !.at = {n}]), ValueOf(Top.scope, n))
       /\ UNCHANGED <<heap, client, hidden, fault>>
    \/ /\ Running("free")
       /\ \A n \in NamesOf(Top.scope) : ValueOf(Top.scope, n).scope = NoScope
       /\ references' = [t \in Allocated \ {Top.scope} |-> references[t]]
       /\ ancestor' = [t \in Allocated \ {Top.scope} |-> ancestor[t]]
       /\ variables' = Settled(Below, [slot \in {p \in DOMAIN variables : p[1] # Top.scope}
                                          |-> variables[slot]])
       /\ calls' = Returned(Below)
       /\ UNCHANGED <<client, hidden, fault>>

-----------------------------------------------------------------------------
(* Xvr_setScopeVariable.                                                    *)

\* A function, or an array with one, is never equal to anything; a null is
\* allowed in any type.
\* Checks constants only.
CheckTypeMutant(type, original, value, constCheck) ==
    constCheck /\ type.constant => original = Null /\ value = Null

CheckType(type, original, value, constCheck) ==
    /\ constCheck /\ type.constant => original = Null /\ value = Null
    /\ type.of = "any" \/ value.kind \in {"null", type.of}

\* The old value is freed before the check that may refuse the new one.
SetCheckedMutant ==
    /\ Running("check")
    /\ \E slot \in Slot(Top) :
          IF CheckType(variables[slot].type, Top.old, Top.value, Top.constCheck)
          THEN /\ calls' = Append(Below, [Top EXCEPT !.op = "assign"])
               /\ UNCHANGED heap
          ELSE /\ calls' = Freeing(Below, Top.old)
               /\ variables' = [variables EXCEPT ![slot].value = Freed]
               /\ UNCHANGED <<references, ancestor>>
    /\ UNCHANGED <<client, hidden, fault>>

\* setEntryValues frees the old value before it copies the new one.
SetChecked ==
    /\ Running("check")
    /\ \E slot \in Slot(Top) :
          LET old == variables[slot].value
              next == IF old.scope = NoScope THEN "assign" ELSE "replace"
          IN  calls' = IF CheckType(variables[slot].type, Top.old, Top.value, Top.constCheck)
                       THEN Freeing(Append(Below, [Top EXCEPT !.op = next]), old)
                       ELSE Freeing(Below, Top.old)
    /\ UNCHANGED <<heap, client, hidden, fault>>

SetReplaced == Running("assign") /\ CopyLiteral(calls, Top.value)

-----------------------------------------------------------------------------
(* What the client calls.                                                   *)

\* A block, or a call of a function, that has not ended is in an open scope.
MayLeave(s) == Nested => \A o \in open \ {s} : s \notin Chain(o)

Room == Cardinality(open \union hand) < MaxHeld

Init ==
    /\ references = << >> /\ ancestor = << >> /\ variables = << >>
    /\ open = {} /\ hand = {} /\ calls = << >> /\ hidden = FALSE /\ fault = "none"

\* Xvr_pushScope under a scope of the client's, a function's, or none.
PushScope(above) ==
    /\ Room
    /\ \E s \in Addresses : Alloc(s, above) /\ open' = open \union {s}
    /\ UNCHANGED <<variables, hand, calls, hidden, fault>>

\* Xvr_copyScope, for a closure.
CaptureScope(original) ==
    /\ Room
    /\ CopyLiteral(<<Frame("capture", NoScope)>>, Value("function", original))

\* A function is made from a scope, which it owns from now on.
MakeFunction(s) ==
    /\ MayLeave(s)
    /\ open' = open \ {s} /\ hand' = hand \union {s}
    /\ UNCHANGED <<heap, calls, hidden, fault>>

Pop(s) ==
    /\ MayLeave(s)
    /\ open' = open \ {s}
    /\ calls' = <<Frame("pop", s)>>
    /\ UNCHANGED <<heap, hand, hidden, fault>>

FreeFunction(s) ==
    /\ MayLeave(s)
    /\ hand' = hand \ {s}
    /\ calls' = <<Frame("pop", s)>>
    /\ UNCHANGED <<heap, open, hidden, fault>>

DeclareScopeVariable(s, name, type) ==
    /\ name \notin NamesOf(s)
    /\ variables' = [slot \in DOMAIN variables \union {<<s, name>>} |->
                        IF slot = <<s, name>> THEN [type |-> type, value |-> Null]
                        ELSE variables[slot]]
    /\ UNCHANGED <<references, ancestor, client, calls, hidden, fault>>

\* Starts with a copy of the old value, to check the new one against.
SetScopeVariable(s, name, value, constCheck) ==
    \E t \in Allocated :
        /\ Declares(s, name, t)
        /\ CopyLiteral(<<[Frame("check", t) EXCEPT !.at = {name}, !.value = value,
                                                   !.constCheck = constCheck]>>,
                       ValueOf(t, name))

\* The caller gets a copy; of an array it keeps the function in it.
GetScopeVariable(s, name) ==
    /\ Room
    /\ \E t \in Allocated :
          /\ Declares(s, name, t)
          /\ CopyLiteral(<<Frame("get", NoScope)>>, ValueOf(t, name))

Values == {Null} \union {Value(k, s) : k \in {"function", "array"}, s \in hand}

Call ==
    \/ \E s \in open \union hand \union {NoScope} : PushScope(s)
    \/ \E s \in open :
          \/ CaptureScope(s) \/ MakeFunction(s) \/ Pop(s)
          \/ \E name \in Names :
                \/ \E type \in Types : DeclareScopeVariable(s, name, type)
                \/ \E value \in Values, constCheck \in BOOLEAN :
                       SetScopeVariable(s, name, value, constCheck)
                \/ GetScopeVariable(s, name)
    \/ \E s \in hand : FreeFunction(s)

Step == CopyScope \/ PopScope \/ CountDown \/ Keep \/ Release \/ SetChecked \/ SetReplaced

Next == /\ fault = "none"
        /\ \/ calls = << >> /\ Call
           \/ Step

Spec == Init /\ [][Next]_vars

-----------------------------------------------------------------------------
(* The properties.                                                         *)

ValueTypes == [kind : Kinds, scope : Addresses \union {NoScope}]
FrameTypes ==
    [op : {"pop", "down", "up", "free", "copy", "check", "replace", "assign", "get", "capture"},
     scope : Addresses \union {NoScope}, at : SUBSET Names,
     value : ValueTypes, old : ValueTypes, constCheck : BOOLEAN]

\* The state keeps its types, and a variable holds a value of its type.
TypeOK ==
    /\ Allocated \subseteq Addresses
    /\ references \in [Allocated -> Nat]
    /\ ancestor \in [Allocated -> Addresses \union {NoScope}]
    /\ DOMAIN variables \subseteq Allocated \X Names
    /\ \A slot \in DOMAIN variables :
          LET v == variables[slot] IN
          /\ v \in [type : Types, value : ValueTypes]
          /\ v.type.of = "any" \/ v.value.kind \in {"null", "freed", v.type.of}
    /\ open \subseteq Addresses /\ hand \subseteq Addresses
    /\ calls \in Seq(FrameTypes)
    /\ hidden \in BOOLEAN /\ fault \in {"none", "null scope", "freed value"}

\* A scope that was not popped has exactly one owner, which will pop it once,
\* and is allocated: however functions are copied, stored, overwritten and
\* freed, no scope is popped twice, nor while a call still has it.
EveryScopeHasOneOwner ==
    /\ Owned \subseteq Allocated
    /\ open \intersect hand = {}
    /\ \A a, b \in Slots : SlotScope(a) = SlotScope(b) => a = b
    /\ \A a \in Slots : SlotScope(a) \notin open \union hand
    /\ \A i \in DOMAIN calls : \A s \in Holds(calls[i]) :
          /\ s \notin open \union hand \union {SlotScope(a) : a \in Slots}
          /\ \A j \in DOMAIN calls : s \in Holds(calls[j]) => i = j

\* The scopes that a freeAncestorChain has still to count down.
ToCountDown(s) == IF Running("down") /\ s \in Chain(Top.scope) THEN 1 ELSE 0

\* The count of a scope is the number of scopes that were not popped among it
\* and its descendants, in the middle of every call; so it is freed by the last
\* of them, and neither before nor later.
ReferencesCountDescendants ==
    \A s \in Allocated :
        /\ references[s] = Cardinality({o \in Owned : s \in Chain(o)}) + ToCountDown(s)
        /\ references[s] > 0 => ancestor[s] \in Allocated \union {NoScope}
        /\ calls = << >> => references[s] > 0

\* A client that has popped and freed what it had leaves no scope behind,
\* closures that refer to each other through their scopes included, unless a
\* function was put into an array or into a scope that was popped already.
NothingLeaks ==
    open = {} /\ hand = {} /\ calls = << >> /\ ~hidden /\ fault = "none" => Allocated = {}

\* A freed value is read only while the client runs a function it holds, in a
\* scope below the function's own: setEntryValues frees the old value of a
\* variable before it copies the new one, and only a function that is assigned
\* to a variable of its own scope contains what was freed.
FreedValueReadOnlyBySelfAssignment ==
    [][fault' = "freed value" =>
          \E s \in hand, o \in open : s \in Chain(o)]_vars
=============================================================================

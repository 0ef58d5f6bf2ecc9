# A specification of the XVR compiler

XVR is an ahead-of-time compiler for a small language: a lexer and a parser
build a syntax tree, a checker looks for unused declarations, an optimizer
rewrites the tree, and a code generator lowers it to LLVM IR, which is written
as an object file and linked with a small runtime. These modules specify the
parts of it whose correctness depends on long histories of calls or on several
parties changing the same state, check them with TLC on small instances, and
prove the central invariants with TLAPS.

## 1. Inventory

Paths are relative to the repository. "Hard" says what a unit test would hardly
reach; "correct" what the component has to guarantee.

| component | state | operations | hard | correct |
|---|---|---|---|---|
| Literal dictionary `src/xvr_literal_dictionary.cpp` | slots, capacity, contains, count | init, set, get, remove, exists, free | tombstones inside probe chains, wrap-around, resize after churn, searches that never end | it is a finite map; every search ends; live keys stay reachable |
| Code generator driver `src/adapters/llvm/xvr_llvm_codegen.cpp` | main created, error flag | emit a top-level node, write | main is created late, left for procedures and returned to; errors of four emitters meet in one flag | nothing is written after an error; nothing emitted after one |
| Control-flow emitter `.../xvr_llvm_control_flow.cpp` | arrays of break and continue targets, depth, error flag, last result | if, while, for, break, continue | recursion that shares one builder; four exits of a loop; nesting limit | targets describe exactly the loops being emitted; phi nodes match predecessors; every block has one terminator |
| Function emitter `.../xvr_llvm_function_emitter.cpp` | current function, local variables, scope stack | emit a procedure, scopes, lookup | a procedure in the middle of main; full tables | lookup is lexical; the builder stands in the current function |
| Expression emitter `.../xvr_llvm_expression_emitter.cpp` | none of its own | one case per kind of node | the instruction depends on the LLVM types of values computed elsewhere; operands that must not be evaluated; results that are dropped | well-typed code that means what the program means |
| Compiler driver `compiler/main_compiler.c` | nodes, object file, child processes | parse, check, optimize, emit, write, link, run | a failing step in the middle; a fixed object path | a failure never reports success |
| Scope `src/xvr_scope.cpp` | chain of scopes, reference counts, two dictionaries each | push, pop, copy, declare, set, get | closures keep scopes alive that are popped | no use after free, no leak |
| Refstring `src/xvr_refstring.cpp`, literals `src/xvr_literal.cpp` | reference counts | create, copy, delete; copy, free, compare, hash | sharing through copies | freed exactly when the last reference goes |
| Unused checker `src/xvr_unused.cpp` | stack of declaration lists | push, pop, declare, mark, walk | redeclaration, shadowing, calls | reports exactly the declarations nobody reads |
| Lexer `src/xvr_lexer.cpp` | position, start of the token | scan a token | comments, escapes and ends of numbers that overlap; the end of the source inside any of them | tokens cover exactly the code; scanning ends |
| Parser `src/xvr_parser.cpp`, tree `src/core/ast/xvr_ast_node.cpp` | current and previous token, panic flag, the nodes allocated | one procedure per rule; build and free nodes | recovery, rules that fail halfway and what becomes of their nodes, folding while the tree is built | progress; trees are complete, lose no operand and no node, group operators by the levels of the table |
| AST optimizer `src/optimizer/xvr_ast_optimizer.cpp` | the tree | folding, dead code, passes | freed nodes, opcode numbers, branches with effects | meaning is preserved |
| Types, casts `src/core/types`, `.../xvr_llvm_type_mapper.cpp`, `src/xvr_cast_emit.cpp` | none | kind, size, LLVM type, choose a cast | signedness, booleans and half floats | conversions keep values |
| Format strings `src/xvr_format_string.cpp` | placeholder list, buffer | count, rewrite | doubled braces, the end of the string, the table of 64 | printf gets what its format asks for |
| Runtime `src/xvr_runtime.cpp` | arrays on the heap | concatenate; create, insert, length, get, set | growth, indexes at the bounds | stays within its buffers |

Interaction: the driver owns the node list and calls the code generator once
per top-level node; the code generator calls the function emitter or the
expression emitter; the expression emitter and the control-flow emitter call
each other recursively; all of them write through one IR builder, which holds
the insertion point, and report errors to the context or, the control-flow
emitter, to a flag of its own. Scopes and literal dictionaries form the
library's run-time data: a scope holds two dictionaries of literals, function
literals hold scopes. What the code generator emits calls the runtime and
printf, which trust the types and counts the emitter chose. The program is
sequential: its interleavings are those of calls and of the recursion, not of
threads.

## 2. Modules

| module | models | role |
|---|---|---|
| `LiteralMap` | what a dictionary promises | abstract specification |
| `LiteralDictionary` | `src/xvr_literal_dictionary.cpp` | component |
| `MCLiteralDictionary` | key classes and hashes for TLC | instance |
| `NaturalFacts` | least elements, induction over sets of numbers, `%` | lemmas |
| `LiteralDictionaryProof` | theorems about `LiteralDictionary`: searches and counters, reachability of keys, the refinement of `LiteralMap` | proofs |
| `Codegen` | driver, control-flow, function and expression emitters, builder | composition of five components |
| `CodegenProof` | theorems about `Codegen`: loops and branches, errors, phi nodes and terminators | proofs |
| `UnusedChecker` | `src/xvr_unused.cpp` | component |
| `SymbolTable` | variables and scopes of the function emitter | component |
| `NameResolution` | the walk over the tree that drives both, next to the lexical scopes | composition of the two |
| `NameResolutionProof` | theorems about the lexical scopes and the checker | proofs |
| `SymbolTableProof` | theorems about the table of variables | proofs |
| `Lexer` | `src/xvr_lexer.cpp` | component |
| `LexerProof` | theorems about `Lexer` | proofs |
| `ParseTree` | nodes of `src/core/ast/xvr_ast_node.cpp` | component |
| `Parser` | `src/xvr_parser.cpp` | component, uses `ParseTree` |
| `MCFrontEnd` | sources and token sequences for TLC | instance of both |
| `ValueTypes` | types, their LLVM types, casts | operators |
| `FormatString` | `src/xvr_format_string.cpp` | operators |
| `ExpressionEmitter` | `.../xvr_llvm_expression_emitter.cpp` | component, uses the two above |
| `EmittedCode` | execution of the instructions, `src/xvr_runtime.cpp`, printf | component and environment |
| `Meaning` | the types and the meaning of a program, after its documentation | abstract specification |
| `AstOptimizer` | `src/optimizer/xvr_ast_optimizer.cpp` | component |
| `Expressions` | a program from tree to output | composition of the six above |
| `MCExpressions` | families of programs for TLC | instance |
| `Scope` | `src/xvr_scope.cpp`, with the copying and freeing of function values | component |
| `MCScope` | types of variables for TLC | instance |
| `ScopeProof` | theorems about `Scope` | proofs |
| `CompilerDriver` | `compiler/main_compiler.c` as processes on one file system | component |
| `MCCompilerDriver` | modes and outputs of four compilations for TLC | instance |
| `CompilerDriverProof` | theorems about `CompilerDriver` | proofs |

### LiteralDictionary

The slots are a function from `0 .. capacity-1`; a slot holds a key and a value
as in the code, so a blank slot and a tombstone differ only in the value
(`Null` against `True`). One action per exported operation. `KeyClass` and
`KeyHash` replace `Xvr_literalsAreEqual` and `Xvr_hashLiteral`: the properties
depend on which keys are equal and which collide, not on characters. `fault`
records undefined behaviour the code would run into (dereferencing the NULL of
an unsuccessful search); nothing happens after it. Only live tables are freed.
`ret` is the last result, which the refinement compares.

`ImplementsMap` says that the table implements `LiteralMap` when the live slots
are read as a finite map.

### Codegen

LLVM's module is reduced to its control-flow graph: blocks are numbered in
order of creation, each has a function, a tail (`open`, `closed` by its only
terminator, or `broken` when something was appended behind a terminator), and
a set of branches. The C++ recursion over the tree is the sequence `frames`,
one frame for each construct being emitted, with the local variables of its
procedure that live across recursive calls. The tree is not given: at every
step the next node is chosen, so the behaviours of `Spec` are the emissions of
all programs within the bounds, erroneous ones included. `Features` says what
the programs may contain, so that a run can leave out what the property is
known not to survive.

Abstractions: an expression appends one instruction or none and may report an
error; types appear only as "the condition is boolean or not"; procedures have
no parameters; LLVM's automatic renaming of a second `main` is kept. An else
path of an if expression may go on after a nested else-if, which the parser
does not build: a harmless superset.

### UnusedChecker, SymbolTable, NameResolution

Two parts of the compiler resolve names, each with scopes of its own: the
checker for unused declarations before anything is emitted, and the function
emitter's table while it emits. They share nothing but the tree, so
`NameResolution` lets them walk it together, and keeps next to them the lexical
environment `env`: what a name means at this place, whatever either of them
does. Declarations are numbered; the number stands for the line in the checker
and for the alloca in the table. `misread` collects the uses that the table
resolved to something else than `env`. The program is chosen step by step, as
in `Codegen`, and `Features` says again what it may contain.

The table's two scopes-without-scope are explicit: a `for` adds its variable
and a branch of an if expression its variables without `EnterScope`, although
the checker has a scope for both. `while` and `if` statements are the blocks
they contain. A call marks its procedure in the checker, and is looked up in
the LLVM module rather than in the table, so procedures and variables have
different names. Left out: procedures inside procedures, which the emitter
drops; a use of a variable of main inside a procedure, which the checker counts
as a use and the emitter compiles as nothing; the growth of the checker's
arrays, which are not limited.

### Lexer, Parser, ParseTree

The lexer works on one-character strings, the parser on tokens of which those
it treats alike have one name; a behaviour of `MCFrontEnd` runs one of the two,
since the kinds of tokens are all they share. Every function of the parser is an
operator from a parser state to the state after it and the node it leaves in its
handle, errors and early returns included, so a step of the specification is
one call of `Xvr_scanParser`. The parser state counts the nodes allocated and
not freed (`live`) and remembers whether a handle that holds no node was
followed or freed (`wild`): trees that are returned are compared with what was
allocated and read. A pointer read from a node of the wrong kind is null or not
by a choice made once per run (`junk`).

`TokensAreTheCode` compares the lexer with a second reading of the source,
`Kind`, in which what a character belongs to follows from the one before it.
`GroupedByLevel` says exactly which grouping of unparenthesised operators a tree
has: for every binary and ternary operator that all the operators its left operand
ends in bind more tightly, and that its right operand binds no less; for `-`, `!`
and `typeof` the level their operand is read at. It is the grouping the code
gives, which is not that of arithmetic (see "What the runs refute").
`FoldingKeepsTheValue` compares the tree with the one the same tokens give
without folding, both evaluated by `Evaluate`, in sixteenths so that small
quotients are exact.

### Expressions

A behaviour takes one straight-line program from its tree to its output: the
optimizer's passes (`Run`), one step per top-level statement (`EmitStatement`),
LLVM's typing rules over all instructions (`Verify`), and one step per
instruction (`Execute`). `ExpressionEmitter` has an operator per function of the
code, from the emitter's state to the next and a value that may be `NoValue`
(NULL), with the same order of tests, the same early returns and the errors
where the code sets them. Values carry their LLVM type only, as in the code.
`EmittedCode` runs instructions on integers of their width, reals in sixteenths,
strings, and arrays with the capacity the runtime gives them; undefined
behaviour and the runtime's abort end the run (`stop`). Programs are chosen in
`MCExpressions`, a family for each part of the emitter.

`Meaning` is the reference: `Typing` tells a program of the language from one
that is none and tags the constructs whose code is known to be wrong,
`Meaning` runs the program on variables. It short-circuits `&&` and `||`, as
`src/xvr_opcodes.h:170-173` says, evaluates one branch of `?:`, has unsigned
numbers, and casts the integer given to a function on reals
(`docs/math_module.md:186`). What it prints is computed from the documentation and
not by the machine's `printf`: an argument for each pair of braces, an integer of
any width as its decimal value (`docs/stdlib.md:120`, `:152`), a boolean as text
(`docs/print_handler.md:40`), the elements of an array. The machine's `printf`
reads an argument as its conversion says: of 64 bits an int conversion has only
the low half, and a narrow integer has the bits it was passed with. The sets `NotCompiled`, `Miscompiled`
and `Misshown` name what the properties except, so that a construct that
starts to fail, and is not in them, breaks a property. A program of `Misshown`
still has to compile, and `MCExpressions` has the same operators under a cast to
INTEGER or a `?:`, where their results are compared.

Left out: calls of procedure values (`EmitFnCall`), the folding of constant
strings, and statements that branch, which are `Codegen`'s (a behaviour that
comes to one ends in `branches`).

### Scope

The heap maps allocated scopes to their ancestor, reference count and
variables; `open` are the scopes the client has to pop, `hand` those of the
functions it has to free. The procedures call each other while they change the
scopes they are walking over: copying a function copies the scope it owns, with
the functions in it; popping a scope first pops those of its functions, and
`freeAncestorChain` counts down all the way to the outermost scope before, on
its way back, it frees the scopes nobody needs and the functions in them. So
the recursion is the sequence `calls`, one frame for each activation, and a step
of the specification is one of the code's: an entry copied, a count taken down,
a value freed. The client calls only when the stack is empty. Of the arrays a
dictionary is, only the mapping is kept, so that a loop over the entries takes
them in any order (`CopyScope`, `PopScope`, `Release`).

`Owned` says who has a scope: the client, a value in a variable, or a frame of
the stack. While a value is being freed its entry still holds the pointer, but
the pop has the scope; `Busy` are the entries for which this is so. `Nested` says
whether the client leaves a scope only after those within it, as blocks and
calls do. Of an array only the function in it matters. `hidden` remembers that a
function was put where `Xvr_popScope` does not look, `fault` that a call read a
function without scope or a value already freed; nothing happens after that.

### CompilerDriver

One process per compilation, whose program counter runs through `main`; each
step may fail where the code tests a result. A path holds nothing, a file being
written, or the file of a compilation (an object or the executable linked from
it). `Start` is the user's step and bounded by `MaxRunning`; the linker and the
program are steps of the compilation, which waits for them. Output paths of
different compilations differ, so that what they share is the temporary object
only.

## 3. Runs

| run | bounds | shows |
|---|---|---|
| `dictionary` | two keys that collide in the last slot of a table of 8 and part in one of 16, one unhashable key, capacity at most 16 | all invariants and the refinement; the bounds let the table wrap, fill with tombstones and rehash once |
| `codegen_structure` | 7 blocks, nesting 3, 2 nested loops, 1 procedure, every feature | the structural invariants survive every error path, and an error of the context is lost in one case only; a loop needs 4 blocks, so loops nest and the loop limit is met |
| `codegen_wellformed` | 10 blocks, nesting 4, if expressions only | blocks are terminated exactly once |
| `codegen_jump` | 8 blocks, with break and continue | a block gets two terminators |
| `names_scopes` | two variable names, one procedure name, 4 declarations, 4 constructs open at a time, table of 5 variables and 3 scopes, no feature | the table agrees with the lexical scopes |
| `names_reports` | 3 declarations, table of 2 variables and 1 scope, so that both limits are passed | the checker reports exactly what is unread, the table stays in its arrays |
| `names_shadow` | as `names_scopes`, a loop may shadow a name | a use finds the loop's variable after the loop |
| `scope` | 4 scopes, two of them held by the client, one name, a variable of any type and a constant function, scopes left in any order; every frame of a call is a step (244 251 states) | one owner per scope and exact reference counts in the middle of every call, no leak, one case in which freed memory is read |
| `driver` | four compilations in sequence: two link, one of them with an inline source, one writes IR, one prints | each runs its own program and ends; objects are left only by failures |
| `front_end` | sources of up to 4 characters of three alphabets and up to 6 of a fourth; arithmetic of two operators on four operands, signed groups of three, `-`, `!` and `typeof` before either operand of two operators, ternaries among them, two dozen programs that use every rule, and their one-token edits | tokens are the code, trees are complete and faithful, every scan advances |
| `expressions` | 21 700 programs of up to 4 statements (12 with array insertions), numbers that overflow 8 bits, formats of up to 4 characters; `-O2` | what compiles is well typed and prints what the documentation says, with the exceptions named |
| `expressions_freed` | the same | an optimized program holds a freed node |

Two names are enough for shadowing and for a bystander, four declarations for a
procedure with a parameter followed by two nested variables of main; four open
constructs hold a block in a loop in a block. Small table limits are as good
as 64 and 32: the code compares with them only. Four scopes are a block, a
closure that descends from it, a call of the closure and a function stored in
the block, which is what the cycles and the lost scope need; they are also enough
for a copy within a copy and a release within a release.

The alphabets of `front_end` hold every character the lexer looks ahead for;
six of them are a comment or a string with content and text after it, and the
edits of programs put every token where each rule does not expect it. A program
of `expressions` needs a declaration, an update and two uses to show a stale
count or a shared array, nine insertions to grow an array three times, and two
characters before the last for a format that ends in a doubled brace.

There are two liveness properties. `LexingEnds` assumes weak fairness of the
lexer alone: the compiler calls it until it returns the end of the file.
`EveryCompilationEnds` assumes weak fairness of each compilation's own steps: a process that can go on is scheduled, and the
linker and the program, which `main` waits for without a limit, end. Nothing is
assumed about when the user starts a compilation. All other properties are
safety properties. Deadlock is not checked for `Codegen`, `NameResolution`,
`CompilerDriver`, `Scope`, the front end and `Expressions`: a program ends (`Finish`,
`EndProgram`, all compilations exited, a source scanned, an output printed), a
fault ends the client, and the bounds may cut one off before.

### What the runs refute

* `break` and `continue` leave the builder behind their branch, so the block
  gets a second terminator (`codegen_jump`).
* The variable of a `for` that shadows an outer one replaces it for the rest of
  the block (`names_shadow`).
* With `-O2` an `if` on a constant leaves a freed node in the program
  (`expressions_freed`).

The passing runs leave out what their property does not survive, by
`Features`. Each of these is a case of its own, found by adding the one feature
to the run named first:

* `codegen_wellformed`: bad conditions, valueless returns, and procedures that
  fail, follow top-level control flow or are named `main` give ill-formed
  functions.
* `names_scopes`, with `UsesResolveLexically`: a block nested deeper than the
  table's scopes makes it forget variables of the enclosing block, a variable
  more than the table holds is dropped, a procedure makes it forget main's, and
  a finished procedure or loop leaves its variables to be found by a name
  nobody declared. None is reported.
* `names_reports`: a variable declared again in its scope and then read is
  reported as unused.
* `dictionary`: with two keys that are equal but hashed apart, as the integer 1
  and the float 1.0 are, `exists` disagrees with `get`; `MCLiteralDictionary`
  assumes that equal keys hash alike.
* `codegen_structure`: of the errors `docs/LLVM.md:636-672` lists, a condition
  that is not boolean, a `break` or `continue` outside a loop and a loop too many
  are recorded by the control-flow emitter in a flag of its own that no one reads,
  so the module is written all the same: `status = "written" => ~cfError` fails.
  `ContextErrorsReported` is therefore about the other flag, the context's, and
  states the case in which that is lost too: an error in a procedure that is
  the last node of the program.
* `driver`, with `MaxRunning = 2`: two compilations that overlap share
  `/tmp/xvr_compile.o`, and `RunsItsOwnProgram` fails.
* `scope`: popping a block that a closure keeps alive takes the scopes of the
  block's functions away, and a later lookup through the closure dereferences
  the null (`fault = "null scope"`).
* `front_end`: a comment that is never closed hangs the lexer (`UnclosedComment`
  in `LexingEnds`); `#!` inside a source may be taken for a comment
  (`LateShebang`); a string that ends with the source counts as unterminated; an
  increment after two operands side by side loses the first (`IncrementedCast`);
  rules that fail leave a handle that is then followed or freed, although
  `src/xvr_parser.cpp:2026` asks for null (`parser.wild` after an error); the
  third part of an index is never freed. Operators of one level group to the right,
  `a - b - c` as `a - (b - c)`, although the loop's comment calls them left-recursive
  (`src/xvr_parser.cpp:2036`); a minus reads its operand at the level of a sum
  (`src/xvr_parser.cpp:496`), so `-a + b` is `-(a + b)` and `a * -b + c` is
  `a * (-(b + c))`, and `typeof a == b` is the type of a comparison.
  `GroupedByLevel` states this grouping and does not defend it.
* `expressions`, refused or ill-typed (`NotCompiled`): reals negated, compared,
  incremented or compound-assigned, operands of two types, `a[i] += v`, array
  literals of computed elements, `len` of a string, `std::max` of nine, an integer
  given to a function on reals, which `docs/math_module.md:186` says is cast.
* `expressions`, compiled to something else (`Miscompiled`): unsigned division,
  extension and conversion; `!`; a variable declared as another type than its
  initialiser's; copies of arrays and arrays printed; the operand or branch that
  must not be evaluated; casts of booleans to booleans; half floats; formats with
  doubled braces, specifiers or percent signs; an array that is neither a variable
  nor a literal, indexed; `len` after `insert`.
* `expressions`, computed but not shown (`Misshown`): every integer goes to `%d` as
  it is, so a boolean is printed as 0 or 1 (`docs/print_handler.md:40` has `%s`,
  "Boolean as text"), a 64-bit integer is read by a conversion of 32 bits, and a
  negative INT8 or INT16 loses its sign; an array literal's index is not checked,
  so one outside reads what lies next to it.
* The optimizer's constant folding compares opcodes with 1 to 5, which no
  operator has: it never folds (`ConstantFolding`).
* `scope`: a function in an array, or stored after the pop, can keep its own
  scope alive for ever (`NothingLeaks` excepts both by `hidden`); a running
  function that assigns itself to a variable of its own scope reads a freed
  value (`FreedValueReadOnlyBySelfAssignment` says that nothing else does).

## 4. Proofs

`CodegenProof` proves, for every nesting limit, number of blocks, procedures
and nesting depth and for every set of features:

* `TypeCorrect`, `LoopStackCorrect`, `InsertPointCorrect`, `BranchesCorrect`:
  the four structural invariants of `codegen_structure`;
* `JumpTargetsCorrect`: inside a loop, break and continue go to existing blocks
  of the current function.

The only assumption is `ConstantAssumption` (the bounds are natural numbers,
the nesting limit positive). The invariants are not inductive one by one: a
branch stays in its function only if the blocks the enclosing constructs will
still branch to are in it, which holds only if no construct is open when a
procedure begins, and so on. `IndInv` adds that blocks are created in order and
main's entry is in main (`ModuleShape`), that every open construct's blocks
exist in the current function and only the outermost frame is a node of the
program (`FramesShape`), and that the builder stands in the current function,
also between two nodes unless an error was recorded (`Position`). The proof
first reduces the thirty actions to six kinds of change of the recursion
(`FrameSteps`) and four of the module (`ModuleSteps`), then shows that each
kind keeps its half of the invariant.

On top of that it proves the other three:

* `PhisMatch`, for every set of features: the incoming blocks of a phi are
  exactly the predecessors of its block. `PhiInv` adds that a phi is complete
  once its if expression is, that the joins of open expressions await exactly
  the paths still to be emitted (`JoinsAwaitPaths`), and that no two open
  expressions share a join (`JoinsApart`).
* `BlocksTerminated`, for programs of if expressions (`Features \subseteq
  {"ifExpression"}`, as in `codegen_wellformed`; every other feature has a
  counterexample): every block of a finished program has exactly one
  terminator. Blocks are terminated at a time when nothing of the state says
  that they are not already; `FlowInv` therefore says which blocks are open,
  namely the builder's and those the open constructs will still enter, and no
  other (`OpenBlocks`), that these are all different (`PendingApart`), and which
  of them the builder is in at each phase of a construct (`Places`).
* `ContextErrorsKept`, for every set of features: a module is written after an
  error of the context only if the last node of the program, a procedure that
  failed, recorded it. `ErrorsFollowed` adds that the driver has taken the error
  over whenever no construct is open, unless another function than main is
  current or main was not created for a statement, and that a procedure being
  emitted is such a function.

`LiteralDictionaryProof` is for any set of keys and values, any hash function and
any `MaxCapacity >= 8` (`KeyAssumption`, which also says that a tombstone's value
is not that of a blank slot):

* `TypeCorrect`, `LoadStaysBounded` and `SearchesEnd` assume nothing of the
  hash. `Counted` is the inductive invariant: `contains` bounds the slots that
  are not blank and is at most three quarters of the capacity, so a table
  always keeps a blank slot and a probe sequence always meets it.
* `KeysReachable` and `TableImplementsMap` assume `HashRespectsEquality` (equal
  keys hash alike; integer 1 and float 1.0 do not, see above). `Chains` says that
  between the home slot of a live key and the slot it is in there is no blank,
  around the end of the table too. Inserting, removing (a tombstone is no
  blank) and rehashing keep it, and with it a search finds the key if and only if
  the map has it, which is every step of `LiteralMap`.

What a search returns, and what rehashing slot after slot leaves, are inductions
over a number of slots. They go over sets of numbers rather than over a
predicate (`LeastNatural`, `Countup` in `NaturalFacts`), since the provers cannot
instantiate the library's induction theorems.

`CompilerDriverProof` proves `IsolationCorrect`: for any finite set of
compilations of which at most one runs at a time (`MaxRunning = 1`), each runs
only its own program, whatever failed before and whatever object was left
behind. `RunsItsOwnProgram` alone is not inductive; `Isolated` adds that
compilations do not overlap, that the object is the running compilation's own
from the end of its write to the linker's end, and that its executable is its
own until it is run. The assumption is needed: with two running, TLC finds one
that runs the other's program. `TypeCorrect` and `ObjectsAreRemoved` (when no
compilation runs, an object that is left is one of a compilation that ended
without running its program) hold for any number of compilations at a time.

`NameResolutionProof` and `SymbolTableProof` are for any names, any number of
declarations and open constructs and any table sizes (`ProgramAssumption`,
`TableAssumption`: sizes are positive, a procedure and a variable differ in name).
Both rest on `EnvInv`, that the lexical environment is well formed: declarations
are numbered from the outermost scope inwards, so that the number alone tells
which of two is nearer (`IdsInOrder`), and a procedure's scopes are next to the
program's (`KindsInPlace`).

* `ReportsCorrect`: if no scope declares a name twice, the checker reports
  exactly the declarations that no use refers to. `Mirrors` says that its lists are
  the open scopes, entry by entry, with `used` set exactly for what was read:
  without it nothing ties what `popScope` finds unused to the uses made
  while the scope was open.
* `TypeCorrect`, for every program: table and stack stay within their arrays.
* `ScopeStackCorrect` and `OpenScopesCorrect`, if no more blocks are open than the
  stack has entries (`"deep" \notin Features`): leaving a block leaves exactly
  the variables of the blocks still open. `StackInv` assigns an open block to
  every saved count and adds that the count divides the table into what was declared
  before the block was entered and what was declared in it (`Divides`), which is
  why cutting the table back at the end of the block loses nothing else.
* `VisibleCorrect`: a variable that can be named is found, as the declaration the
  scopes give. The search takes the last entry of a name, so `FoundInv` says that
  behind the entry of a variable that can be named there is no entry of that name
  but another such variable's (`LaterAreOwn`); this needs that loops and
  branches, whose variables stay behind, shadow nothing (`LooseNew`), and that
  main has no variables yet when a procedure empties the table (`OuterAreProcs`).
* `UsesCorrect`: for those programs, if they name nothing that is not open, every
  use is compiled as the declaration it refers to. `names_shadow` is the same
  property without one of the hypotheses.

Each hypothesis on `Features` leaves out what TLC has a counterexample for; they
are listed above under "What the runs refute".

`LexerProof` is for any sources of one-character strings (`SourcesAssumption`) and
any keywords; the width of a number's suffix is an unbounded integer, so a suffix
that overflows the code's `int` is outside it.

* `TokensCorrect`: if a source is scanned without an error, and has no `#!` but at
  its start, a character is in a token exactly when the second reading `Kind` says
  that it is neither blank nor in a comment. `CoveredSoFar` says so of the
  characters before the cursor, and that no construct is open where a call ends
  (`Clean`: `Kind` starts afresh there); the second half is what every part of the
  lexer has to give to the next. A call keeps both since blanks and comments lead
  from one such place to another (`EatWhitespaceMoves`), and so does each of the
  tokens (`TokenAtPosition`, from a lemma for every kind of token). The loops of
  `eatWhitespace` and `makeString` are repeated steps (`ReachedStays`).
* `LexerAdvances` and `HangsOnlyInComment`: a call takes a character or returns the
  end of the file, and only a comment that is never closed keeps one from returning.
  With the fairness assumed this is why `LexingEnds` holds, which stays with TLC.

`ScopeProof` is for any finite set of addresses, any names and types, and both
values of `Nested` (`ScopeAssumption`). It proves all five properties of the run:

* `OneOwnerEach`: in the middle of every call a scope that was not popped is
  allocated and has one owner. Ownership is said with claims, an owner and a
  scope each (`Claims`), and a step that hands a scope on moves one claim. That
  a frame never hands on what it does not have follows from the form of the
  stack: a call either copies or frees (`Shape`); a copy is of a scope that
  somebody keeps while it lasts, and its entries are still those it has begun
  with (`Copied`); an assignment is about a variable in the chain of a scope
  the client has open (`Assigning`).
* `CountsAreRight`: the count of a scope is the number of owned scopes among it
  and its descendants, and one more while a `freeAncestorChain` has still to come
  to it (`Counted`). This needs that chains end (`Acyclic`), that the ancestor of a
  scope that is needed is allocated (`Rooted`), that only a scope on the stack
  has no count (`Dying`), that those on their way back lie on one chain or are
  dead (`Unwinding`), and that a scope a function owns has no descendants
  (`Leaves`): what a variable holds is a copy, `Xvr_copyScope` puts it next to the
  original, and nobody can push a scope under it. `Chain` is the least set with
  the ancestors of its members, so the induction over a chain is the choice of a
  smaller such set (`EnclosingLeast`).
* `EverythingIsFreed`: no scope owns itself through the functions in its variables,
  directly or through others (`WellFounded`: in every set of scopes there is one that
  no function in the set owns), since what is stored is a fresh copy. If
  everything visible is owned (`Visible`) and the client has nothing, nothing is.
* `FreedOnlyReadByItself`: a freed value is in one place only, the variable of an
  assignment that is copying the new value (`FreedOnlyWhenAssigned`). A copy that
  meets it copies the scope of that variable, which is a function's and in the
  chain of an open one.
* `ScopeTypes`: types, and `checkType`'s: the variable has the type the value was
  checked against until it is stored, although others are stored in between.

The five parts of `Inv` are proved together, an action at a time, from `InvInit` and
`InvNext`. The steps that give a copy to whoever called for it, and those that
drop a frame whose pop is over, are the cases that take each other's facts.

Model-checked only: the two liveness properties (`LexingEnds`,
`EveryCompilationEnds`), which TLAPS cannot prove; and everything about
`Parser`, `Expressions` and the modules these use, since their operators
recurse over trees and strings as the code does (`RECURSIVE`), and what such an
operator returns is an induction over data.

## 5. Not modelled, and what is left

In no run: a format of 64 placeholders or more (the table of `src/xvr_format_string.cpp`
is not compared with its limit; `ScanEndsInString` is about the end of the string).

Left for proofs: that a cast gives the type it is asked for (`ValueTypes`).

Not modelled, with the reason:

* `src/core/ir`: a second lowering of the tree, not called by the compiler; the
  same holds of `src/xvr_print_handler.cpp`.
* `src/xvr_refstring.cpp`: a counter per string, changed by one call at a time.
  Of `src/xvr_literal.cpp` the comparison and hashing of compound literals.
* `src/core/semantic`: accepts every program. `src/sema/xvr_builtin.cpp`: a table.
* `.../xvr_llvm_module_manager.cpp`, `xvr_llvm_target.cpp`,
  `xvr_llvm_optimizer.cpp`: wrappers of LLVM's library and of files.
* `src/xvr_builtin.cpp`: the interpreter's built-ins, compiled into no target.
* `src/xvr_memory.cpp`, `xvr_common.cpp`, `xvr_string_utils.cpp`: allocation,
  options and text, without state the other parts depend on.
* The wording and layout of messages, everywhere.

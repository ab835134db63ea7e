# A TLA+ model of the Arena compiler

Arena is a small language with region-based memory: pointers carry lifetimes,
`arena` blocks own what is allocated in them, and the compiler checks that no
pointer outlives what it points to. The compiler is organised as queries on an
incremental engine, so that the command line and a future language server share
one analysis.

This directory holds TLA+ modules that model the parts of the compiler where an
order of events, a stale value or an unusual graph can go wrong, the TLC
configurations that check them, and proofs for TLAPS.

## 1. Inventory

| component | state it keeps | operations | interacts with | what makes it correct |
|---|---|---|---|---|
| query engine (`query/engine.*`) | a revision counter; per query `changed`, `verified`, the list of queries it ran; the cache | public `execute`, inner `execute`, `is_query_out_of_date`, `run_query` | calls the query definitions, which call it back; throws what they throw | an answer is what a computation from nothing would give; nothing current is recomputed; references into the cache stay valid during a request; every request ends |
| query definitions (`query/queries.*`, the tables of `signatures/`, `resolve/symbols.*`) | the eighteen caches; the interned ids | `compute_query_result`, `import`, `operator==` | the engine asks `operator==` whether a result changed | every analysis sees all the declarations it may use; results that differ are told apart |
| driver (`arena-bin/src/main.cpp`) | the list of sources, references to results, the files `arena-bin.o` and `arena-bin` | `check` (with `--keep-alive`, a loop), `compile`, `run` | executes queries, hands results to the back end, calls `cc` and the program | the results it hands on belong together; what runs is what was checked |
| lexer and parser (`parse/`) | position in the text, the AST arena, errors | one pass of recursive descent with recovery | owns the tree all later phases point into | the tree is that of the text; no token is skipped without a report; it terminates |
| name resolution (`resolve/`) | scopes, registries of interned symbols | resolve identifiers, types, parameters, struct fields | symbols of the file and its imports | a name means the last declaration in front of it in the innermost scope; every unknown name is reported once |
| lifetime groups (`signatures/lifetimes.*`) | the lifetimes of a signature or a body | create, look up, import, substitute | types carry lifetime ids of a group | imported lifetimes are fresh; substitution maps every one |
| lifetime solver (`types/lifetimes.cpp`) | constraint graph, components, orders, conflicts | collect constraints, condense, order, report | gets constraints from the type checker | every unsatisfiable requirement is reported, no other is |
| type operations, inference (`types/operations.cpp`, `inference.cpp`, `substitute.cpp`) | inference contexts, inferred types of variables | assignability, constraints on an expression's type | writes inferred types into the resolved tree | no assignment weakens `const` or shortens a lifetime |
| type checker (`types/typecheck.cpp`) | safety context, lifetime of the current arena | one transformation per node | all of the above | unsafe operations only in `unsafe`; contexts restored after every block |
| errors (`errors/`) | line table | offset to line and column, rendering | asks the engine for text and line table per error | the place reported is the place of the error |
| back end (`llvm/`) | IR builder, current block and value, variables by their declaration | one visit per node, validation, output | reads typed trees through pointers, looks up signatures by id | the module is valid and does what the text means |
| arena allocator (`lib/c`, `util/arena.hpp`) | list of pages, bump pointer | init, grow, alloc, free; C++ move | owns every tree and table | allocations are aligned, in a page and disjoint; pages are freed once |

Hard behaviours: the engine's mutual recursion, interleaved with edits of the
files and cut short by exceptions, over state that survives both; early cut-off
by an `operator==` that may overlook something; results that point into other
results; a command made of several requests while its files change, whose object and
binary outlive it; recovery of a hand-written parser from any text; control flow in the
back end that depends on what a body ends with; the lifetime solver's graph algorithms;
boundary arithmetic in the allocator and the line table. The list with places is under `hazards` in
`PROJECT.json`.

## 2. Modules, and how they correspond to the code

```
QueryEngine <- QueryEngineInvariant <- QueryFreshness <- QueryRefinement : FreshEvaluator
     ^                                                  ^    ^
     |                                QueryEngineProofs-'    '- MCQueryEngine : Evaluation
     |                                        ^- ArenaQueryProofs
ArenaQueries <- InferredVariables <-----------------'
                        ^- MCArenaQueries : FreshEvaluator, Evaluation

LifetimeGroup <- LifetimeTable <- LifetimeCheck <- MCLifetimeCheck
     ^                                ' ^- LifetimeProofs <- LifetimeOrderProofs
     '- LifetimeSolver <--------------'
              : Loops

RenaArena <- RenaArenaProofs, MCRenaArena

Assignability <- Inference <- TypeCheck <- CheckedProgram <- MCCheckedProgram
                                                 ^- CheckedProgramProofs

Lexer <- Parser <- NameResolution <- NumberCheck <- CodeGen <- MachineCode <- SourceMeaning
  ^- SourcePositions                     : Inference                               ^
            ^                                                                      |
            '------------- CompilerReference --------------------------------------'
                                   ^
DriverProofs -> Driver <- CompilerSession <- MCCompilerSession
```

(`A <- B`: B extends A; `A : B`: A instantiates B.) The `map` of `PROJECT.json` names the lines of the source
behind each definition.

**QueryEngine** is `engine.hpp` and `engine.cpp`. The engine is one thread of mutually
recursive C++ functions, so its call stack is the variable `stack`: a frame holds the
function's place (`lookup`, `decide` and `compute` in `execute`; `check`, `scan`,
`verify` and `refresh` in `is_query_out_of_date`), its query, the parent id and the
position in the dependency list. There is one action for each path between two places.
`changed`, `verified`, `query_dependencies`, `query_cache` and `revision` are the
fields of the class. The user (`Edit`) may change, create or delete a file between any
two steps; a file that cannot be opened throws, which unwinds the whole stack and
leaves the tables as they stand. What a computation has read is not stored in its
frame, since `run_query` returns references into the cache. The queries are
constants: `Demand` says what a query runs next given what it has read, `Result` what
it returns, `Same` what `operator==` may find (a set, because some comparisons read
memory that was replaced). Ids and queries are identified, and
`QueryRefreshType::RefreshOnDemand`, which no query declares, is left out. `seen` is a
history variable: the files read for the present request.

**FreshEvaluator** is what the engine promises to its caller: an evaluator with no
cache. It opens a file when the evaluation first needs it, uses that snapshot for the
rest of the request, and fails exactly when a file it needs is missing. What becomes of
a query over the files opened so far (a value, waiting for a file, failed:
**Evaluations**) is its parameter `Evaluate`. **QueryRefinement** instantiates it on the
engine's variables, with `query_cache[target]` for the answer once a request is answered,
and states the equations of an evaluation from scratch (`EvaluatesAnew`), which is what the
proofs use. **Evaluation** has the same equations as recursive definitions, which is what
TLC uses.

**ArenaQueries** instantiates the engine with the eighteen queries of `queries.cpp`:
which queries each runs and in which order, which declarations its result carries over,
and `operator==` of every result type as the code has it, including the comparisons
that stop at the shorter side and those that read a text that may be gone. A text is
what the queries extract from it: layout, imports, functions, structs, calls, accesses
to struct members. **InferredVariables** adds what makes `TypecheckedFile` impure: each
call initializes a variable whose inferred type is written into the cached result of
`ResolvedCalls` and found there by the next run.

**LifetimeGroup** holds the lifetimes and constraints of one function, with the five
every group starts with. **LifetimeTable** is how they come about: one action for each
type written in a signature or body, for entering and leaving a block or an `arena`
statement (the scope guards), for a call (which imports the lifetimes of the callee),
for an assignment, and for each type of a cast: these are resolved while the body is
checked, with a new table for which no block is open (`BeginCheck`), so that `*stack` and
`*arena` in a cast mean the function's stack and the caller's arena, in whatever block it
stands. **LifetimeSolver** is `types/lifetimes.cpp`: the constraint
graph, the strongly connected components by Tarjan's algorithm with the extra case for
equalities, the orders, the check of each constraint against them and the
breadth-first search for the shortest path that an error names. **LifetimeCheck**
composes the two: collect, then solve. The solver's loops (over the constraints of a
lifetime, over the stack of outlived lifetimes, over what is popped, until the queue of
the search is empty) are instances of **Loops**: a fold of which its theorem says what
holds at the end. Its two functions that call themselves, `union_equal_successors` and
`process_node`, do so through the constants `InnerUnion` and `InnerProcess`, to which
`MCLifetimeCheck` gives the functions themselves.

**RenaArena** is the allocator `arena.c` and the C++ owner `util/arena.hpp`. Memory is
a range of addresses; `pages` says which page starts where, `arenas` holds each owner's
`head`, `tail`, `next` and limits, and the heap may fail at any request and return any
free place of the alignment it guarantees. Actions are construction, allocation (in
place, with growth, failing), move construction, move assignment and destruction.

**Assignability** is `require_assignable` and its helpers, **Inference** the inference
contexts, with the fields of the visitor (`inference_ctx`, `safety`) in one record that is
passed along, **TypeCheck** the transformation of each kind of expression. Where the code
recurs into the type inside a type, or the operand of an expression, the model uses a
constant (`InnerAssignable`, `InnerCheck`, ...) to which the configurations give the
operator itself: recursion that the provers can reason about.
**CheckedProgram** runs what they accept: variables are declared one after the other in
two scopes, and each statement that the checker accepts is executed on a memory that
says which variable each pointer points to. Its reachable states are those of all
accepted programs, and the properties compare the types with the memory.

**Driver** is `arena run` of one file. Its state is the file,
the driver's place (`stage`), the results of the front end and the text they are of, the
compilation unit and the module the driver hands on, the object and the binary on the
disk, and what has been run. Each query of the driver is an action of its own
(`CheckFile`, `FetchTypechecked`, `FetchTables`) and is answered for the text the file
has at that moment, so that the tree may be of one text and the tables of another; then
`EmitModule`, `WriteObject` (which keeps silent about a module that is not valid),
`Link` (whose result nobody reads) and `RunBinary`. The user may change the file between
any two steps and give the command again, which finds the old object and binary. The
engine itself is left to `QueryEngine`. What the queries find in a text, the module the
back end makes of it, and what LLVM, the linker and the program do are parameters of
`Driver`, which passes on what it gets.

**CompilerSession** is the driver with the compiler: it defines those parameters from the
phases, which are in the modules below it, each a set of functions, since each phase is
one, and states the properties that relate a text to its tree, its code and its program:

- **Lexer**: `TokenIterator`. A text is a sequence of symbols (characters, or a word of
  a few letters); `LexToken` tries the tokens in the order of the code, `TakenAs` is what
  `take` returns after comments have moved the head.
- **Parser**: one operator for each function of the recursive descent. Every result has
  the rest of the tokens, the errors and `how`: whether the function has returned, does
  not end, failed an assertion or read past the end, any of which the code can do on
  some text. A node is its kind, the text of its token and its children.
- **SourcePositions**: the line table and `offset_to_cursor`.
- **NameResolution**: the walk of `ResolvedExpressionBuilder` with the scopes, giving
  every name a variable, a function or an error, and every type a known name.
- **NumberCheck**: the transformation of `typecheck.cpp` for programs of `int`, `uint`
  and `bool`, with the inference contexts of `Inference`.
- **CodeGen**: one operator for each `visit` of the LLVM back end for these programs. A
  function under construction is its blocks, the current block, the current value and the
  slots of its variables.
- **MachineCode** is external: what LLVM's validation demands of a module, and what its
  instructions do, as far as the back end uses them.

Two modules model no code and are what the others are compared with. **SourceMeaning**
runs a program on its tree, by names and scopes. **CompilerReference** prints a tree as a
text with the parentheses that the grammar asks for and no others, says which declaration
a name stands for by the position of both in the tree, where an offset is, and, by
a look at the tree alone, whether a module can be made of it and is valid.

## 3. What the runs check

| run | question | size |
|---|---|---|
| `engine` | Is the cache consistent after every step, and does the engine answer as `FreshEvaluator` does? Does it compute nothing twice, keep what it handed out, and end? | 242 k states |
| `arena_queries` | With the compiler's own queries and `operator==`: are the errors shown for a file exactly its faults? | 118 k |
| `struct_grows` | *violated*: "a result that is different is stored" | |
| `lifetime_conflicts` | Do `*stack` and `*arena` mean what they should in blocks and casts, and are the constraints the compiler adds itself free of conflicts? Does the solver report exactly what cannot be met, with a cause that is a shortest cycle? Does it end without an exception where nothing must match? | 181 k |
| `lifetime_orders` | *violated*: violated non-strict constraints connect lifetimes of one order | |
| `arena_pages` | Do objects stay apart, aligned and in pages that are freed once, whatever is moved and whatever fails? | 103 k |
| `checked_programs` | Do types, lifetimes and const hold in the memory of every accepted program, until one of three named departures? Is assignability transitive? Is each unsafe operation reported once? | 28 k |
| `address_outlives` | *violated*: no accepted program has a pointer that outlives its target | |
| `const_lost` | *violated*: in no accepted program does a pointer to non-const point to a const variable | |
| `compiled_sessions` | From the text to the program that runs: is the tree that of the text, the place of an error the right one, every name bound to the right declaration, the module made and valid exactly where it can be, the program's behaviour what the text means, and what runs what was checked? | 14 k |
| `loop_returns` | *violated*: what is behind a loop whose body returns is compiled like anything else | |
| `comments` | *violated*: a program with comments has the tree of the program without them | |

Every property has a mutant of the code in the module it is about (`mutants`): a
definition as a plausible bug would have it, under which the property fails.

### Bounds, and why they are enough

- `engine`: seven queries over two files with the shapes that make incremental
  evaluation hard: an import that decides whether the other file is read, a child
  shared by two parents, an edit that leaves a result equal. Three requests and two
  edits: a first request, one that reuses, and one that finds what the second left
  behind, also after an exception.
- `arena_queries`: a client and a library with two texts each (the client's differ in
  layout only, the library's in everything that the client uses), and an edit at any
  step of three requests. A text of the one kind may stand in either file, so the edit
  may also exchange or remove all declarations. Series of edits are left to `engine`.
- `lifetime_conflicts`: scopes, calls and casts up to three blocks deep with eleven
  lifetimes (`FewIfAssigned`); with assignments, eight (the five of every group, the
  function's stack and two that are inferred or open a block), and up to three assignments
  at two places. Three are what a cycle needs that passes through both inferred lifetimes;
  the third is among these, after the others have related them to the function's own. In
  functions that open a block two assignments are made.
- `arena_pages`: in units of eight bytes, a header of four, pages of sixteen that double
  once to thirty-two, objects of zero, small and page-sized, aligned to one and to more
  than a page is, two arenas that are symmetric, three objects, and a heap that is full
  after two or three pages.
- `compiled_sessions`: numbers of three bits, so that each end of both ranges, the
  overflow of every operation and the undefined divisions are met. The texts are five
  families: two operators one behind the other, in either grouping, with unary operators,
  casts and arguments (`OperatorPrograms`: what precedence and associativity tell apart);
  one operation on two numbers (`CalculationPrograms`); any two of nineteen statements
  one behind the other, over two variables of either type (`StatementPrograms`: shadowing,
  returns out of branches and loops, an arena block, an `else`); functions that call each
  other, recursively, before their declaration and with the wrong arguments
  (`Functions`); and a text with a struct, a pointer, a generic type and a loop, with one
  word left out, put in or replaced, or cut off behind any word (`DamagedTexts`: every
  place of the grammar where recovery starts). Six texts may be changed into each other:
  one edit at any step and two commands are what it takes to mix two texts in one
  unit, and to run the binary of an earlier command. `Steps` is longer than any of these
  programs runs, unless its loop does not end, in which case it is not compared.
- `comments`: one statement that is commented out, with one comment or two in it, behind
  each word of a program.
- `checked_programs` (`MCDeclarable`): in the outer scope an int, const or not, and a
  pointer to int (of either lifetime, to const int, or const itself); in the inner one an
  int, a pointer to pointers, and one more variable that is a pointer to pointers or a
  pointer of the inner lifetime. What is at the end of a pointer to pointers may be const
  or not and the inner lifetime is either of the two; the outer one is the inner scope.
  For the last variable the pointer behind the first may be const too. These are the
  shapes in which a const, or a lifetime, at one depth meets a different one at another;
  all types for all variables are far more states. Every statement that the checker
  accepts is taken, and a program ends with the first departure (`MaxDepartures`): what
  comes after it is no longer covered by the properties, but for `ShapesKept`, which is
  proved for any number. Properties of types alone are evaluated where no pointer has a
  value yet.
- `address_outlives` and `const_lost` choose their declarations (`PlainDeclarable`,
  `FlatDeclarable`) such that only what they are about can be to blame: without const, and
  with lifetimes of scopes around the variable; or with one lifetime, nothing const but
  plain values, and addresses of exactly the type expected (`ExactAddresses`).
- `loop_returns`: a loop that returns at once, with and without braces, and a `return`
  behind it.

Runs without deadlock check stop for their bounds (`MaxEdits`, `MaxRevision`, a solved
function, a program with all variables declared and nothing left to assign) or, in the
sessions, because a command ends; not for the code.

### Fairness

Only `RequestsEnd` needs it: `WF_vars(EngineStep)`. The engine is called synchronously
and runs on one thread until `execute` returns or throws, so as long as it can take a
step it takes one. Nothing is assumed of the user.

## 4. What is proved

TLAPS checks the following for every value of the constants.

**The engine** (`QueryEngineProofs`), from `QueryAssumption`: the queries are acyclic by
a rank, and a source runs no query. `EngineInvariant` is `TypeOK`, `RevisionsOrdered`,
`VerifiedTogether` and `StackInvariant`. `VerifiedTogether` alone is not inductive: when
`is_query_out_of_date(q)` marks q verified, all of q's dependencies must still be
verified, although other queries were executed since the scan passed them. That is what
`StackInvariant` says of every frame: the ranks descend, so no query is scanned or
computed twice at once (`RanksDescend`), callers and callees fit (`CallsNested`), what a
scan has passed stays verified (`ScansOK`), what a computation has read is verified
except for the query it is running now (`ComputationsOK`), and a verdict holds when it is
used (`AnswerOK`). There is one lemma per action; the frames below the top are treated
once, by lemmas on what a push, a return and a step in place preserve. From the
invariant follow `RevisionsStayOrdered` (the engine's "Cache miss for up to date query"
is never thrown) and `ReferencesStayStable` (within one request nothing that was handed
out changes).

**Freshness** (`QueryFreshness`, `QueryEngineProofs`), from `QueryAssumption` and
`SameIsEquality`: two results that `operator==` may find equal are equal. The run
`engine` is such an instance; the result types of the compiler are not all so (section 5,
`struct_grows`). `StoringKeepsFreshness` and `StoringKeepsPromise` are the same two results
for them: from `DifferentResultsStored`, which says of a behaviour that no result that
differs from the cached one was taken for unchanged in it, and `SourcesCompared`, which says
that the texts of files are compared in full.
`VerifiedAreFresh` is not inductive either: it says nothing of a query that is not
verified, and that is what the engine decides about. `FreshnessInvariant` says of every
query that was ever verified and is not being computed that, as far as the first n
recorded dependencies have not changed since, a computation would now read what it read
then, run the n-th next and, when there are no more, return the cached result
(`ResultsKept`); that a running computation has recorded what it would run on the present
results (`ComputationsFollow`, `CallsRecorded`); what a scan has passed has not changed
(`ScansUnchanged`); that "out of date" is said only with a change among the
dependencies, after others that are verified (`AnswersGrounded`); and that a verified
source is what was read for this request (`SourcesSeen`).

The hard step is the exception. `execute` clears the dependencies of a query before it
computes it, and a `std::runtime_error` leaves the part recorded so far beside the old
result and the old `verified`. A shorter list could make a stale result look verified.
It cannot: a computation of a query that was verified before started because a dependency
changed, the ones before that are verified and cannot throw, so the list runs at least
to the change (`ChangeAhead`, lemma `CutShort`); and since `Lookup` records a dependency
before it asks for it, also when that very dependency throws. From the invariant follow
`VerifiedStayFresh` and `OnlyStaleAreRecomputed`. `FreshnessInvariant` quantifies over all
lists of queries; its parts were tried on the instance of the run `engine` with lists up
to the length it needs, and the theorems' conclusions are checked by that run.

**The refinement** (`QueryRefinement`, `QueryEngineProofs`), from `QueryAssumption`,
`SameIsEquality` and `EvaluatesAnew`. The last is no restriction on the queries: it says
that the parameter `Evaluate` is the evaluation from scratch, and some operator satisfies
its equations whatever `Demand` and `Result` are (a query whose evaluation would not end
may be given any result that is not a value). `EngineKeepsPromise` says that the cache is
transparent: each step of the engine is a step of `FreshEvaluator` or does not show there.
Three facts carry it.

- A verified query is worth what evaluation from scratch gives over the files read for
  this request (`VerifiedEvaluated`): a query of the smallest rank for which that failed
  would have run verified queries of smaller rank only, and have read from them what an
  evaluation reads (lemma `EvaluatedUpTo`).
- When a file is opened, the evaluation of the request is waiting for that very file
  (`RequestWaits`): what the innermost call waits for, each of its callers does. For a
  computation that follows from `ComputationsFollow`. A scan computes nothing, and may
  ask for a query that its own query would not run any more; it does not, because the
  dependencies in front are verified and unchanged, so that a computation would come to
  the same place (`ResultsKept`, lemma `ScanWaits`).
- The query of the request stays the outermost, and a file opened for it is verified and
  was there (`RequestServed`, which TLC checked on the instance of the run `engine`
  before it was proved).

A smallest counterexample (`LeastNumber`) takes the place of induction, which the provers
do not do.

**The report** (`ArenaQueryProofs`), from `QueryAssumption`; `ArenaEngine`, which says that
the constants of the engine are the compiler's queries, as `MCArenaQueries.cfg` makes them;
and `TextsAreLists`, which says that what is extracted from a text comes in lists.
`ReportsAreRight`: what is shown for a file is exactly the `Faults` of the texts read for
this request, on the lines they have now, in every behaviour that has
`DifferentResultsStored`. `Faults` knows no queries and merges no tables. The proof follows
the results of verified queries from the texts up: a verified query is the result of what it
ran, all of it verified (`VerifiedReads`, from the freshness invariant); a function or
struct table that is gathered from the imports has for each name the entry of the last table
that declares it (`TablesMerge`); so the ids, functions and types that the analyses look a
name up in are those of the texts; and the errors they collect are the faults, one kind
after the other. `InferenceIsInvisible`: the compiler with its inferred variables refines
the engine with pure queries as long as `ReanalysisIsComplete` holds, that is, an analysis
that finds types inferred earlier finds what a new one would. Hence
`InferringReportsAreRight` and `InferringAnswersAreFresh`: of the compiler as it is,
inferred variables included, the departure shown by `struct_grows` and a type that was
inferred before a signature changed (section 5) are the only ways in which a report can be
wrong. TLC finds both hypotheses to hold on the whole instance of the run `arena_queries`,
so they are not empty.

**Lifetime tables** (`LifetimeProofs`), from `TableAssumption` (signatures are made
by a table that never opens a scope) and `GroupAssumption`. `TableInvariant` adds to
the types of the variables that the group begins with its five lifetimes, that constraints refer to
lifetimes of the group, that the constraints the compiler adds lead from lifetimes
created earlier to later ones (or to `any`), which is why they never conflict, that the
saved ids of the scope guards are those of the enclosing scopes, and that every block ever
entered stands in another one, up to the function's own, which is why what `*stack` and
`*arena` mean in a cast surrounds the block the cast stands in (`TableScopesNest`).

**The solver** (`LifetimeProofs`, `LifetimeOrderProofs`, `Loops`), for every function, of
any number of lifetimes and constraints. The hypothesis `SolverUnfolds` says that
`InnerUnion` and `InnerProcess` are the functions themselves, on groups whose constraints
refer to their lifetimes and on solvers whose classes are a forest. Such operators exist:
the functions call themselves only for a lifetime that was not indexed, and index it, so
that `Left`, the number of those that are not, descends. The proofs use the same number:
what is claimed of all calls is claimed of one with the smallest `Left` for which it failed.
`CheckInvariant` is `TableInvariant`, which gives the solver a group whose constraints refer
to it, and that the result is what `Solve` makes of that group.

- `CheckEqualsKept`: lifetimes that must match have one order. A parent pointer is set only
  at a root, so that the classes stay a forest (`UnifyJoins`), only grow, and nothing is
  taken from below on Tarjan's stack (`Later`). After `union_equal_successors` whatever it
  has indexed is in the class of the lifetime it started from and has all its equals
  indexed (`United`, lemma `UnionUnites`). So the classes are `Closed` under `equals` between
  any two calls of `process_node`, although not within one: what is equal is indexed
  together and has one root, whose order `build` gives to both.
- `CheckVerdictIsRight`: the reported constraints are those that cannot be met. That a
  constraint that cannot be met is found follows from the comparison alone: as long as no
  constraint is violated but at one order, orders only fall along the constraints, equal
  ones included (`OrdersDescend`), so that a lifetime does not cover one of a higher order
  (`CoversStays`). That what is found cannot be met follows from the search:
  every path it follows is one of constraints that begin in the violated one and goes down
  from its lesser lifetime (`Candidates`), and where it ends in the greater one, the circle
  is closed (`CandidateClosesCircle`); without a path the solver throws. Neither needs that
  the orders are right, which they are not always (`lifetime_orders`), but the first does
  need `CheckEqualsKept`.
- `CheckConflictsHaveACause`: what is reported is such a circle (`Circles`), it stays one when
  it is told from another of its constraints (`RotatedRing`), it contains the violated
  constraint, and it is kept under the place of its first one (`Caused`).
- `CheckCausesAreShortest`: no circle through a violated constraint is shorter than the one
  that is found. `DistanceIsLeast` says that the reference, `Distance`, is the length of a
  shortest chain (`Within`), and `ShortestChain` picks one chain of that length, none of
  whose lifetimes can be reached earlier and all of which have one order, since orders only
  fall along it and end where they began. The search keeps some candidate on that chain
  (`Hunting`): candidates are met in the order of their lengths (`Frontier`, `NextHunted`),
  those on the path of a candidate are nearer than the next lifetime of the chain, and if
  that was reached before, another candidate of the same length has reached it and is still
  queued. One more thing is needed: a candidate that arrives at the target without a
  location would be dropped and block the chain there. There is none, as what the compiler
  requires by itself only leads down (`FixedConstraintsDescend`; `Sought`). So when
  the target is first reached it is by a path of the right length (`ExploreEdgeHunts`,
  `ContinuePathHunts`, `FoundShortest`), and telling the circle from its first location
  keeps its length.
- `CheckOrdersSuffice`: at every call of `process_node` and after it the solver has `Ordering`:
  - the stack holds roots, with rising numbers (`Stacked`), and a class is numbered as a whole
    (`Numbered`);
  - the members of a class reach each other without leaving it (`Connected`);
  - a lowlink is the number of some root further down that is reached without leaving the
    classes above that root (`Tracing`);
  - no two classes that are through have one order (`Sorted`);
  - where nothing must match, what lies below a lifetime that is through is through, too, and
    has no higher order (`Exact`).

  While a lifetime is explored, it reaches all that was put on the stack since, each of which
  has a lowlink below its own number (`Exploring`). When its own lowlink is its number, all
  above it therefore reaches it again, so that what is popped is one class
  (`PoppedOrders`), and where nothing must match nothing on the stack below is reached from
  it. `Finished` says how `process_node` may end, complete or not, and is proved of all calls
  by `Left`. `Exact` needs that nothing must match, and fails otherwise (`lifetime_orders`): a
  lowlink that is updated at the wrong node stays too high. `Connected` and `Tracing` do not
  need it, a lowlink that is too high being traced all the same, and from them alone it
  follows that lifetimes of one order reach each other within that order (`BuildOrders`).
  The search for a counterexample stays within one order. As long as it has found nothing,
  what it has met is queued, at hand, or has everything below it met (`Seeking`), and the
  turns suffice, as each of them takes one candidate off the queue and a lifetime enters it
  at most twice (`Counted`). Without a path, what has been met would be closed, and contain the
  target. This, too, needs that no candidate is dropped at the target for lack of a
  location, and that a violated constraint has two ends: what an expression requires is
  `<=` or `=`, so that a strict constraint is one of the compiler's own and leads down (`Placed`).

**The allocator** (`RenaArenaProofs`), from `ArenaAssumption`: sizes and alignments are
positive, and a first page has room for its header once rounded up. `ArenaInvariant` says
that pages are apart, that each arena's chain from `head` ends in its `tail`, that every
page is in exactly one chain, and that an arena's objects lie in its pages, behind the
header and, in the current page, before `next`; the last is what keeps a new object
apart from the old ones. It yields `ArenasTypeCorrect`, `ObjectsInPages`, `ObjectsDisjoint` and
`PagesOwnedOnce`, with or without aligned pages.

`GrowthInvariant` adds that objects are aligned and that each page is twice as large as the
one before, or has reached the limit. `ArenasAlign` needs nothing more: whatever the heap
returns, `rena_arena_alloc` rounds the address itself. `ArenasGrow` (the page that is added
for an object has room for it, so that the internal error of `rena_arena_alloc` that "should
never happen" does not) has the hypothesis `HeapSuitsHeader`: the header is no larger than
the alignment of a page, and the alignments asked for divide that or are multiples of it.
The code has that: from C11 on `arena.h` defines `RENA_ARENA_PAGE_ALIGN`, as 64 unless the
build says otherwise, the header has 32 bytes, and alignments are powers of two. It is
needed. The padding is computed for an object that follows the header of a page at address
0; were pages aligned to 16 only, as `malloc` alone would, one at 48 with its header of 32
would need 48 bytes of padding for an alignment of 64, and 32 would have been reckoned with.

**The driver** (`DriverProofs`), from `DriverAssumption`: what the queries find in a text is
of that text, they end as the stages say, and of a text without errors the back end never
makes the module `Garbage`, which stands for a module of which nothing is known. TLC
evaluates the assumption on every file of `compiled_sessions` with the compiler in place of the
parameters. `RunsWhatWasChecked` is about the state in which the program has run, and what it
relates was made in six steps before that. `DriverInvariant` says of each of them whose it is:
the results are those of their text, the text that was checked is clean, the unit is made
of the results of one text and the tables of one (`UnitIsOfItsTexts`), the module is the
unit's if these are the same, the object is the module's unless it was not valid, the binary
is the object's unless the linker failed. The exceptions are those of the property: each step
that keeps an older file silently is one. So the theorem `RunsChecked` says that there are no
others, whatever the compiler does; `RunsCompilation` that where there are none, the command
ends in the run of what the back end makes of the checked text, whatever earlier commands
have left behind.

**Assignability** (`CheckedProgramProofs`), for the types made of int and struct types by
`const` and pointers, of any depth; arrays and the type of an error are left out.
`TypesAreFinite` says that these are the types, each of finitely many layers, and that the
constants `Inner...` are the operators themselves. `Fits(l, r, c)` says that
`require_assignable` accepts a value of type r for an l in the context c, with every
relation of lifetimes that it records. What is claimed of all types is claimed of a
smallest counterexample, by depth. `FitsTransitive` says that assignability is transitive
in each of the four contexts: the context for the inner types depends on the type on the
left, so that the two steps of a chain may be compared in different ones, and
`WeakerAccepts` says which of them accept more. `FitsHaveShape` says that only
qualifiers and lifetimes can differ between the two sides.

**The checker** (in the same module): type soundness, for programs of any variables
and any types of this kind. The hypotheses beside `TypesAreFinite` are `ChecksUnfold`
(`InnerCheck` is `Check` for the operands there are) and `ProgramsAreTyped`, which says that
variables are declared with types of this kind and nothing else: programs are not
restricted in which addresses, const or pointers they use.
The proof follows a checker, the record that the visitor is here, through the check of an
expression: no operation takes a report back (`Keeps`), and `Becomes` gives the checker
afterwards with the condition under which nothing is wrong. Lvalues and values in any
context come to `Located` and `Valued`, and from these it follows which statements are
accepted (`LetOfKnown`, `LetOfUnknown`, `AssignmentAccepted`).

`ShapesKept`, `PointersLive` and `ConstKept` are not inductive, not even together: with
`q.* = p`, the checker has compared p with the type behind q and not with the type of the
variable that is written. `SoundInv` has two parts. That shapes agree holds of every accepted
program. That behind a pointer is exactly the type it promises, unless the pointer
is one to const, through which nothing is written and for which it suffices that the value
can be assigned (`PointsRight`), holds until a statement departs from it, which the variable
`departures` records: an address that is given another type than its own (`.&`), a pointer
through which const is assumed of what is not (int** to (const int)**), or an assignment
through a pointer to const. The checker accepts all three. `SoundInvariant` is that each
statement without a departure keeps it; so these three are the only ways in which the
checker loses a lifetime or const, and `address_outlives` and `const_lost` show what two of
them lead to. From `SoundInvariant` follow the three properties (`PointersAreTyped`, without
any condition; `PointersDoNotDangle` and `ConstIsKept`, while there is no departure).

`PointersLive` says of every pointer that can be read, also through another one, that its
target lives as long as the type says with which it is read. That is no promise about the
pointer itself: nothing ties the lifetime in the type of a variable to the scope of that
variable (section 5). Where the two do agree (`LabelsSurround`), nothing dangles, which is
the second half of the property. `AssignabilityIsTransitive` and `InferredTypesFit` need of
it only what is declared: the first is `FitsTransitive`, once the check of `x = y` is known
to be `Fits`; the second says that an inferred type, which outlives the check that inferred
it, is accepted by a second check.

`UnsafeIsReported` needs more than that: of expressions that the checker refuses, too, how many
reports of each kind there are. Its hypothesis `OperandsUnfold` says of `InnerCheck` and
`InnerUnmarked` what `ChecksUnfold` says, for the operands of two levels of operations.
`Counts(e, scope, type, n)` says that e has that type and reports n unsafe operations in whatever
context it is checked, as long as the type that is expected of it is a suggestion, as it
always is for operands of these operators; only a literal next to an erroneous operand
becomes erroneous too (`TypeGiven`), which makes no pointer of it. One lemma for each
operation says that `Counts` passes from operands to the operation (`DereferenceCounts`,
`IndexCounts`, `ArithmeticCounts`): its own `safety` is set after that of the last operand has been
reset, and is read by `verify_safety` before anything else sets it. The lemmas are for
operands of any depth, so that `ComputationsCounted` is the step of an induction over
expressions, which the theorem takes twice, as deep as the property goes.

**Only model-checked**: `RequestsEnd` (liveness), and the phases of the compiler, whose operators
are recursive. Every other property of a passing run is proved.

## 5. Where the code departs from what it says

- `struct_grows`: `CompleteStructInfo::operator==` compares only as many members as its
  left side has. A struct that gains a member is taken for unchanged, and its new member
  is reported as unknown. `FunctionTable::operator==` has gaps of the same kind
  (`is_variadic` is not compared; entries that only the right side has are not looked
  at), which the texts of the passing run avoid.
- `lifetime_orders`: a `lowlink` is updated at the wrong node, the component is closed
  too early, and the solver throws on lifetimes that can be met. It never overlooks a
  conflict (`VerdictIsRight`).
- `address_outlives`: the operand of `.&` is checked as if it were
  copied into what the context expects, and the address then has the expected type. By
  that the address of a pointer with a long lifetime is taken for one of a pointer with a short
  one, and the address of an inner variable is stored into the outer pointer. In
  `let p: int* = c.&;` const is lost in the same way.
- `const_lost`: anything may be assigned to a const type at any depth ("x const = x is
  always allowed", `types/operations.cpp:271`), so that an `int**` becomes a
  `(const int)**` and takes the address of a const int.
- `loop_returns`: a `while` whose body always returns leaves the block behind the loop
  outside the function, and the rest of the function is put behind the terminator of the body. The
  module is never valid, and the object is not written.
- `comments`: a comment behind a token takes the token's place, so that
  `let x /* c */ = 3;` declares a variable named `/* c */`. Nesting is lost track of:
  `/* /* *//* */ */` ends early, `/* a **/` never.

Met while modelling, and part of the models, where the properties name them as the
exceptions they are:

- The parser does not end on some texts with an error: a block or a list of parameters
  or arguments at the end of the file, a `fun` or a `)` inside a block. `NothingDropped`
  says that this happens on no text without an error. Two generic arguments are always an
  error. `a-1` is read as `a` and `-1`, with `-1` for the operator, on which the compiler
  terminates.
- An error at the first symbol of a line is reported behind the line in front
  (`CursorIsRight`); one at the first symbol of the file throws when it is rendered, and
  one at a name the parser made up (`let x = ;`) has no place at all (`Placeless`).
- The type checker never looks at an `else`, and the typed tree has nothing there, on
  which the back end dereferences null (`Emittable`). The operators `&`, `|`, `!`, shifts
  and assignments like `+=` are checked and then refused by the back end with an
  exception, as are `arena` blocks, functions used as values and functions declared later
  than their call; `&&` and `||` already throw in the check.
- `==` and `!=` have the type of their left operand but are one bit in the module; a
  condition may have any type, and `return` is not compared with the function's type
  (`Verifiable`). Numbers of type `uint` are compared as signed ones, and `true` is a
  signed number of one bit, that is, -1 (`odd` in `SourceMeaning`).
- The module of a function that has a result and can end without `return` is not valid.
- A module that is not valid is not written, and `run` neither sees that nor whether `cc`
  failed, so that it may run the program of an earlier command; and the tree and the
  tables may be of texts other than the one that was checked (the three exceptions of
  `RunsWhatWasChecked`).
- That an lvalue is const is no obstacle to an assignment, nor is it behind a pointer to
  const (the third departure of `CheckedProgram`).
- Where no lifetime is named, a pointer's type gets a free one, and the solver may find that
  of an inner scope for a variable of an outer one (`LabelsSurround` says when it has not):
  the only constraints of the checker are those of `require_assignable`
  (`types/operations.cpp:385`), which relate types, and none is between a type and the scope
  of its variable. So the outer pointer may be given the address of an inner variable.
- An inferred type outlives the signature it was inferred from: `constrain_context_type`
  (`types/inference.cpp:22`) writes it into the cached result of `ResolvedCalls`. When only the
  return type of an imported function changes, the next analysis finds it there, and
  reports a conflict with it that an engine started anew does not
  (`ReanalysisIsComplete`, the hypothesis of `InferenceIsInvisible`).
- `*stack` and `*arena` in a cast do not mean the innermost scopes, as the TODO at
  `signatures/types.cpp:197` says (`ScopesNest`, stage "check").
- Without `RENA_ARENA_PAGE_ALIGN` the padding computed for a new page of the allocator may
  be too small; `arena_pages` checks aligned pages.

## 6. What is not modelled

- Of the queries: lifetimes of C++ objects (a table that is kept may hold views of a
  text that was replaced; such comparisons are nondeterministic here, such uses are not
  modelled). The analyses are reduced to calls, members and inferred variables in
  `ArenaQueries`, which is about the order of requests; what the analyses find in one
  text is in `NameResolution` and `NumberCheck`.
- Of the driver: several files in one command, `compile` (which is `run` up to the
  object), `check --keep-alive` (a loop of requests, as in `QueryEngine`), the options,
  of which `--cache-dir` always ends in an error.
- Of the parser: numbers in other bases or with a fraction, what a string stands for,
  annotations on declarations.
- Of name resolution: the names of imported files, which `ArenaQueries` has.
- Of lifetimes: substitution into signatures (`substitute.cpp`), and `*stack` in a
  signature without a body, where no stack was pushed: it is resolved to the id -1, and used
  unchecked as an index later.
- Of the allocator: sizes near the limit of `size_t`, and use of an arena after it was
  moved from, other than assigning to it and destroying it.
- Of the type checker: structs and pointers together with control flow and calls (the
  first are in `TypeCheck`, the others in `NumberCheck`; a session whose text has both
  ends as "not followed"), strings, floating point numbers, and the warning about a
  needless `@unsafe` (`W_T_UNNSRY_UNSAFE`, `types/typecheck.cpp:89`). The address of a local
  variable that is returned is not checked by the code (`ResolvedReturnStatement`); a
  free lifetime has no bound from where it is used.
- Of the back end: pointers, members, arrays, strings and floating point numbers;
  LLVM's passes. `arena` blocks throw there, so there is no arena to free on any path.
- Whole components: the tests of the language (scripts that compare outputs) and the
  standard library headers.

## 7. Plan

Next, in this order:

1. Pointers and structs in `NumberCheck`, `CodeGen` and `MachineCode` (addresses, loads,
   members), with the layout of a struct in the type table and in LLVM.
2. Calls in `TypeCheck`: import and substitution of lifetimes, so that `LifetimeTable`,
   `LifetimeSolver` and `CheckedProgram` become one composition.
3. Several files in `CompilerSession`, with the engine of `QueryEngine` in place of `Load`.
4. Proofs: `ShapesKept` with arrays.

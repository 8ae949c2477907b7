# A TLA+ model of PKC, a projecting knowledge compiler

PKC reads a Boolean formula in conjunctive normal form (CNF) with a set of *data* variables, quantifies all
other (*projection*) variables away, and produces a *partitioned-operation graph* (POG) of the result: a
graph whose products have independent arguments and whose sums have mutually exclusive ones, so that models
can be counted in one pass. A slip anywhere does not crash the program, it gives a wrong count. This
directory models the algorithms that could slip and checks and proves what they must preserve.

Paths such as `compile.cpp` are under `src/src/`.

## 1. Inventory of the system

| Part | Code | State | Operations | Talks to |
|---|---|---|---|---|
| Clause database | `Cnf` in `compile.cpp` | clauses, active clauses, literal map, unit literals (asserted and propagated), quantified variables, conflict flag, action stack, stack of clause sets | `new_clause`, `add_literal`, `new_context`, `pop_context`, `assign_literal`, `uquantify_variable`, `push_active`, `deactivate_clause`, `is_satisfiable`, `write` | everything below |
| BCP and BVE | `Cnf::bcp`, `Cnf::bve`, `Cnf::resolve` | clause queue; degree buckets, eliminated variables | loops over the database | called by the driver and by the built-in compiler |
| Tseitin analysis | `Cnf::classify_variables`, `tseitin_variable_test`, `blocked_clause_expand` | queue of variables, Tseitin variables | SAT test in a context of its own, promotion | clause database, SAT solver |
| Driver | constructor of `Project` (`project.cpp`) | level, mode | import, bcp, bve, classify, bve, compile | all of the above |
| POG | `Pog` in `pog.cpp` | nodes, arguments, unique table | `start_node`, `add_argument`, `finish_node`, `simple_kc`, `get_subgraph`, `load_nnf`, `ring_evaluate`, `write` | compiler, traversal |
| Built-in compiler | `Compiler::clausify`, `Compiler::builtin_kc` | recursion, one shared `Cnf` | SAT test, split, BCP, BVE | `Cnf`, `Pog` |
| External compiler | `Compiler::compile`, D4 | CNF and NNF files | write, run, load | files, `Pog` |
| SAT solver | `Cnf::is_satisfiable`, Glucose (vendored source) | clauses, watch lists, trail, heap | add a clause, solve | called for every test |
| Projecting traversal | `Project::traverse*` | result cache | recursion over the graph | `Pog`, `Compiler` |
| Counting | `subgraph_count`, `ring_evaluate` | weights, logs of numbers to be freed | evaluation over the graph | `Pog`, numbers |
| Numbers | `q25.c` | numbers `d * 2^a * 5^b`, a static working area | arithmetic, comparison, text | `Cnf` (weights), counting |
| Input and output | `import_file`, `Nnf`, `write` | token streams | read, write | `Cnf`, `Pog` |
| Options, temporary files, statistics | `pkc.cpp`, `files.cpp`, `report.c`, `counters.c` | globals | | |

The program is sequential. What makes it hard is not interleaving of threads but **state that outlives the
reason it was computed for**: a queue whose clauses change while they wait, buckets sorted by degrees that
have changed since, a context that must be undone record by record through any mixture of changes, a
Tseitin property established from clauses that are later replaced, node numbers that mean something only in
a renumbered subgraph. The traversal order of hash sets is unspecified, so each loop has many executions of
which a test sees one.

For each part, what makes it correct:

* *clause database*: a popped context leaves no trace; units stay consistent; the literal map is exact;
* *BCP*: a fixpoint is reached although clauses are queued once; a conflict remains visible in the clauses;
* *BVE, promotion, driver*: the projection on the data variables never changes; eliminated variables are
  gone; the loops end;
* *Tseitin analysis*: a variable reported as Tseitin is a function of the data variables in the formula that
  is finally compiled;
* *POG*: normal form, no duplicate nodes, sums exclusive and products independent;
* *built-in compiler*: each activation returns exactly the conjunction it stands for, whatever the order of
  its steps; contexts match the recursion;
* *traversal*: the result represents the projection of its argument;
* *second compilation* (monolithic mode): sums that overlap after trimming are disjoint in the end;
* *SAT solver*: its answer is right, and it has one;
* *reading and writing*: what is compiled, and what is written, means what the input file says;
* *counting*: the number is the number, or the weight, of the projected models; no number is used after it has
  been freed;
* *numbers*: results are exact and have one representation each.

`PROJECT.json` lists the hazards at their lines, with the properties that cover them.

## 2. Modules

| Module | Models | Notes |
|---|---|---|
| `Literals` | variables, literals, clauses; the meaning of a formula | the second half (`Models`, `Projection`, `Determined`) is the reference the models are checked against and stands for no code |
| `Cnf` | the object `Cnf` as a record, its methods as operators | one operator per method; `pop_context` is also available record by record (`undo`, `pop_record`) |
| `Reduce` | `bcp` and `bve`, one step per loop iteration | the order in which hash sets are traversed is a choice where it decides what happens next |
| `Preprocess` | the constructor of `Project` with `classify_variables` | composes `Reduce` with the Tseitin tests for every `-P` level and `-T` mode |
| `CnfContext` | the methods of `Cnf` called in any order their callers could choose, nested contexts, `pop_context` step by step | written to be proved about |
| `Pog` | construction of nodes, unique table, `simple_kc`, `get_subgraph`; the functions a graph represents | operators only |
| `Compiler` | `clausify`, `check_simple_pkc` | operators only |
| `BuiltinKc` | the SAT test of `traverse_sum`, `builtin_kc` | composes `Reduce`, `Compiler` and `Pog`; the recursion is a stack of frames |
| `D4` | the external compiler as the code relies on it: a decision-DNNF of a function for an order of decisions | external; operators, one of them recursive |
| `Traverse` | `traverse`, `traverse_sum`, `traverse_product`, `equal_counts`, with the result cache | composes `Pog` and `D4`; the mutual recursion is a stack of frames |
| `Projector` | what the traversal promises, without graphs | abstract specification that `Traverse` implements |
| `CnfFile` | `import_file` with comments, declared variables and weights, as steps over tokens | operators on a record that holds what has been read and how far |
| `Nnf` | class `Nnf` and `load_nnf`: lines of a d-DNNF file to a graph | operators, one of them recursive |
| `D4File` | the file D4 writes for a set of clauses | external; operators |
| `Counting` | `ring_evaluate` over decimal numbers | operators only |
| `Monolithic` | the program in monolithic mode, from the input file to both counts: the constructor of `Project`, `projecting_compile`, `write`, `subgraph_count` | composes `CnfFile`, `Reduce`, `Compiler`, `D4File`, `Nnf`, `Pog` and `Counting` |
| `Q25` | the functions of `q25.c`, called in any order | |
| `Glucose` | one solver object, from its first clause to its answer | a caller adds the clauses and asks once, as `is_satisfiable` does |
| `MC_*` | constants for model checking | |
| `CnfContext_proofs` | theorems on `CnfContext` | |
| `Literals_proofs`, `Cnf_proofs`, `Reduce_proofs` | lemmas: enumerations of sets, what each method of `Cnf` and each step of `bcp` and `bve` does | |
| `Preprocess_proofs` | theorems on `Preprocess`, after lemmas on the detection and promotion of one variable | extends the three before it |
| `Pog_proofs` | theorems on the operators of `Pog` | |
| `Traverse_proofs` | theorems on `Traverse`, and that it implements `Projector` | extends `Pog_proofs` |
| `BuiltinKc_proofs` | theorems on `BuiltinKc` | extends `Reduce_proofs` and `Pog_proofs` |

Correspondence of state: the fields of the record `cnf` carry the names of the members of class `Cnf`
(`clause_offset` and `literal_sequence` together are `clauses`); `clause_queue` and `bve` are local variables
of the two loops; `pvar_queue` is the queue of `classify_variables`; `frames` holds `svar` and `child` of the
activations of `builtin_kc` that wait for a branch; in `Traverse` it holds the edge,
`dvar` and the results so far of the activations that wait for a call of `traverse`; `pc` and `phase` say which loop or call is running.
In `Monolithic`, `counter` holds the local variables of `subgraph_count` and `freed` the input weights that have
been given to `q25_free`; in `Q25`, `sign` is the one part of the static working area that is read before it is
written; in `Glucose`, `solver` carries the names of the members of class `Solver`.
Every action is one iteration of a loop or the code between two calls. `map` in `PROJECT.json` gives the lines
of each definition.

Definitions preceded by a comment `Faulty variant` stand for no code. Each is a plausible mistake in the
definition that follows it; exchanging the two must violate a property, which shows that the property looks at
that piece of code.

### Abstractions

* A clause is a sequence of literals with its duplicates (several loops count positions), an entry of the
  literal map a set of clause IDs, a missing entry the empty set.
* The SAT solver answers whether a model exists. `is_satisfiable` first runs `bcp(false)`; in `IsTseitin`
  this is part of the answer because the caller pops the context at once; in `BuiltinKc` it is stepped through.
* Within one iteration, the batch of clauses retired together and the numbers of the resolvents are in
  ascending order. Another order permutes neighbouring records of the action stack, or names of clauses.
* The literals `blocked_clause_expand` moves within a clause stay where they are: no later code depends on
  their position.
* A node under construction is a record of its own. The code builds it at the end of the node vector and
  takes it back; no caller starts a node before it has finished the last one.
* The unique table finds a node by a hash and compares contents; it is modelled by the comparison.
* A file is a sequence of tokens (`CnfFile`) or of lines with numbers (`Nnf`). The end of a line is a token, because
  comments are cut off there; the file D4 writes is well-formed.
* The weights in `Counting` are decimals in lowest terms with ordinary arithmetic. That the functions of `q25.c`
  compute with exactly these numbers is what the run `q25` shows. `q25_recip` is taken with the sign its only
  caller gets, that of the argument (see the finding).
* The words of `Q25` have two digits instead of nine, so that small numbers have one, two or three words. The code
  uses the number of digits only through the radix and the table of powers of ten.
* In `Glucose`, activities are not kept: any variable of the heap may be the next decision. The averages behind
  restarts are not kept: a restart is possible whenever the queue of LBDs has an entry, which is earlier than the
  code's 50 and so includes its behaviours; likewise `reduceDB` may be called once at any time, and takes any
  allowed set of clauses of the greatest LBD. A list loses the watchers of a removed clause at once, where the code
  marks the list dirty and cleans it before it is used. The literals behind the second of a learnt clause keep their
  order in the binary minimisation. Garbage collection renames clauses and is left out.
* Messages, statistics and timers are left out.

## 3. Runs

| Run | Question | Bounds, and why they are enough |
|---|---|---|
| `context` | does `pop_context` undo any mixture of changes? | 2 variables, 2 clauses (one with a duplicated literal), 5 records: nested contexts, a propagated literal promoted in an inner context, clauses retired before and after `push_active`, two conflicts |
| `preprocess` | is the invariant of the proof inductive where it can be checked, does it hold at every step, for every order of the hash sets, and does propagation miss nothing? | all formulas of up to 5 clauses from two pools of 12 over 2 data and 2 projection variables; level 4 with promotion runs every loop. The second pool has duplicated and complementary literals. `IInv` contains the preservation of the projection |
| `gates` | are detection and promotion right, and does everything end? | all combinations of up to 3 of 12 parts (gates, partial definitions, constraints) over 5 variables; every level 0 to 5 and all three modes |
| `builtin_kc` | does every activation return the conjunction it stands for? | all pairs of edges with a subgraph of at most 7 nodes in a graph of 17 nodes over 4 variables: three levels of recursion, splits on input and node variables, conflicts in either branch. Seven nodes are the fewest with which BVE finds a variable to eliminate in a branch: a definition keeps both phases of its variable until that is propagated, so only a propagation cut short by a conflict leaves a pure one |
| `traverse` | is every result a projection, can it be counted, and does the traversal with its cache implement `Projector`? | all combinations of up to 2 of 4 gates and 9 constraints over 3 data and 2 projection variables, and two gates with a constraint on both; 3 compilers (orders of decisions; two of them begin with a variable that makes no difference, if the formula or the edges have one), every set of known Tseitin variables, levels 0, 1, 2 and 4 (3 is the same as 2). What the proofs assume of a compiler is evaluated too: `FirstGraph` for all formulas, `LaterGraph` for one graph, all functions of two and of the three data variables (16 and 256), given over those variables, and the three compilers |
| `monolithic` | are graph, written file and both counts those of the input file? | 4 variables and at most 10 for nodes; 128 documents: all triples of 8 clauses with 2 or 3 data variables and complete, scaled or one-sided weights, and 16 others; declarations before, between and after the clauses, clauses over several lines, weights that are negative, zero, missing or without a reciprocal; all levels, two orders of decisions. Every action fires, the two failures included |
| `q25` | are the numbers exact and canonical, whatever was computed before? | numbers of up to 3 words of 2 digits, powers from -1 to 1 for the number held (operands and results go beyond), signs left by any earlier call, 99 texts |
| `glucose` | is the solver right, and does it finish? | 8 formulas over 4 variables of up to 11 clauses: a core without a model, the core without one of its clauses, both with binary, unit, repeated and complementary literals, and two that are refuted while they are added. Every order of decisions, restarts at every point the code could choose, one reduction |
| `recip` | finding, see below | as `q25` |
| `tautology` | finding, see below | the pools with two clauses containing a complementary pair of a projection variable |
| `untrimmed` | finding, see below | as `builtin_kc`, with `trim` false |
| `lost_conflict` | finding, see below | as `builtin_kc`, for one pair of edges over a parity that both use |

`MaxRecords` in `context` is the only bound on behaviours; where it is reached and no context is open, nothing
can be called, so that run does not check for deadlock. All others check it; a finished program stutters in
`Done`. In `q25` the bounds on the number held say which numbers a caller keeps; in `glucose`, `MaxReductions` bounds the
calls of `reduceDB`, which depend on a count of conflicts that small formulas do not reach. There is no other state
constraint and no symmetry: the programs run to their end.

What the properties say:

* `ProjectionPreserved` compares, in every state, the formula that `write` would produce with the input: a
  unit, resolvent, pure literal or blocked clause too many or too few shows at the step that makes it.
* `TseitinDetermined` looks at the formula after each step, not at the clauses a variable was recognised
  from; the second BVE may replace those clauses and must not destroy the property.
* `IInv` of `Preprocess` is the inductive invariant of section 4: the properties above and what links them.
* `QueueCoversUnsettled` is the loop invariant behind "BCP reaches a fixpoint".
* `ConflictWitness`: the driver never reads the conflict flag, so the empty clause has to stay.
* `LiteralMapExact`, `EliminatedGone`: the degrees BVE works with are real, and its variables are gone.
* `ContextRestored`: at a `START_CONTEXT` record the object is as it was at the call of `new_context`. Two
  differences are possible and stated in `Restores`: undoing a conflict clears the flag even if an enclosing
  context had set it, and while a pushed set of clauses is active its map may have grown. Both are harmless to
  the present callers (an inner context is opened after a conflict only by code that goes on as without it,
  with an empty clause still active; the pushed map is deleted by the same `pop_context`).
* `WellFormed`, `OutermostKept`, `PopReturns`: consistency at all times, also halfway through an undo.
* `ReturnsConjunction`: at every return, among the assignments that agree with the splits in progress, the
  edge represents exactly the common models of the two roots, with node variables projected away. It is
  stated relative to the splits because inside a branch that is all that is promised.
* `StaysCountable`, `StaysCanonical`: what counting and the comparison of edges rely on.
* `ContextPerFrame`: contexts and recursion match.
* `ConflictKept`: when `bve` has ended after a conflict, a clause that is false is still active. `builtin_kc` never asks
  for `has_conflict`, so this is all that keeps a branch without solutions from returning one. It is not true of every
  graph (`lost_conflict`); it is true of the graph of the run, and the condition under which the theorems on
  `builtin_kc` hold for all graphs.
* `ReturnsProjection`: at every return of `traverse`, by whichever of its eleven ways, the edge returned is the
  projection of the edge of that call and mentions data variables only. `StaysCountable` then says that the
  graph can still be counted: sums over Tseitin variables are built without a test, although their arguments
  no longer contain the variable. `CountsModels` is the number that is reported.
* `EdgesAsExpected`: `get_decision_variable` ends the program on a sum that decides on nothing and reads past a
  literal, the traversal ignores the sign of a node, and `clausify` takes constants for variables. None of them
  checks; they rely on which edges the traversal meets in a graph that grows meanwhile, which is what this says.
* `ImplementsProjector`: the pairs in the result cache (read as functions) are projections from the moment
  they are stored and for good, and the answer is given once and is right.
* `GraphExact`: after each compilation, at the early returns of `projecting_compile` and in the file that is written
  the graph is the projection of the document; only after the second compilation must its sums be disjoint, and then
  they are. This composes the reader, two rounds of preprocessing, D4's file, trimming and `clausify`.
* `CountsExact`: the unweighted count is the number of projected models and the weighted one the sum of the products of
  their weights as the document states them, in tenths, computed without the graph; the program gives up only where a
  sum of weights has no reciprocal. It is claimed for *proper* documents. Files that declare data variables before the
  header, have an empty comment in front of a declaration, or leave out the zero of a weight line are read as the
  code reads them (the declaration is lost), stay in the run, and are excluded from the claim.
* `NumbersAlive`: `subgraph_count` puts numbers that `input_weights` still holds among those it frees at the end. No
  weight is freed before the result is computed or read after it. It holds because `run` asks for the weighted count
  once, and last; a second call would read freed numbers.
* `Canonical`, `ResultsExact`, `OrderExact`, `TextExact` compare the word arithmetic with exact rationals: carries,
  borrows, division word by word, several powers at a time, stale signs, partial words.
* `AnswerRight`, `LearntsImplied`: the reference is the set of models of the clauses added.
* `PropagationComplete`: two watches suffice, although lists are untouched when assignments are undone.
* `ReasonsHold`: what conflict analysis takes for granted when it walks the trail back.

In `Traverse` a compilation is one step. Its result is not computed from clauses but chosen among graphs of the
right function (`CompiledTo`): decision graphs for several orders, and the disjunction that `simple_kc` builds for a
clause, a negated node. A decision graph may mention variables its function does not depend on. Such graphs occur:
`builtin_kc` splits on the largest node variable left, and for `ITE(1,2,3)` and `ITE(1,3,2)` it comes to
`SUM(PRODUCT(1,2,3), PRODUCT(-1,2,3))`, which is right for `2` and `3`. A compiler is therefore given the variables it may
use, those of the formula or those below the two edges, and `MCCompiled` makes use of the superfluous ones. That a compilation returns a graph of the right function, countable and in normal form, is
what `ReturnsConjunction`, `StaysCountable` and `StaysCanonical` say of the built-in compiler: proved for every graph
for which no conflict is lost (section 4), which some graphs do (`lost_conflict`). Of D4 it is assumed.
So what is said of `Traverse` is said of a program whose compilers are right. Below level 2 the built-in one is wrong
already for simple graphs (`untrimmed`), so at levels 0 and 1 `Traverse` starts only from formulas all of whose projection variables are known Tseitin variables: no sum is compiled
there. `Models`, SAT tests and intersections are taken on the functions of edges (`AllModels`).

### Fairness

The programs are sequential and run whenever they can. That is weak fairness of the next-state relation; in
`Preprocess`, `BuiltinKc`, `Traverse` and `Glucose` it is written out as `Running` (either the end is reached again and again, or
steps are taken for ever), because some step is enabled in every state before the end, which the runs confirm
by checking deadlock. `CnfContext` assumes fairness only of the loop of `pop_context`: nothing says that a
caller must call again. Termination of the loops is therefore a matter of their own progress. `Glucose` ends
without fairness of any particular action: restarts may happen as often as the queue allows, and still every loop
through the search has a conflict in it. `Monolithic` and `Q25` state safety only; the loops of the former are those of
`Preprocess`, and a caller of the latter never has to stop.

## 4. Proofs

Every theorem holds for all values of the constants that satisfy the assumptions named in the modules that declare
them: types, `SentinelAssumption` (there are fewer variables than `INT_MAX`, which is `TAUTOLOGY` in the code),
`DataAssumption` (data variables are variables) and `OptLevelAssumption`.

### Contexts (`CnfContext_proofs`)

| Theorem | Statement |
|---|---|
| `Invariance` | `Spec => []IInv` |
| `TypeCorrect` | `Spec => []TypeOK` |
| `ContextsAreRestored` | `Spec => []ContextRestored` |
| `StaysWellFormed` | `Spec => []WellFormed` |
| `OutermostIsKept` | `Spec => []OutermostKept` |

`ContextRestored` is not inductive, since it speaks only of states where a `START_CONTEXT` record is on top.
The history variable `hist` keeps the object as it was before every record on the stack, and `Aligned` says
of *every* record that undoing it gives back, up to `Restores`, the object before it. A call appends one
record and one object and has only to show that its own record is undone (`CallStep` and a lemma for each
method). Undoing a record moves the object to one that `Restores` the object below; that the record underneath
still undoes it needs `Restores` to be transitive (`RestoresTransitive`) and `undo` to be monotone in it
(`UndoMonotone`). The latter is where the two exceptions in `Restores` have to be the right ones: a conflict flag
that is already clear stays clear, and a literal map that has grown is discarded with its clause set.
`HistoryWellFormed` keeps the saved objects well formed, so that an undone object is.

### Preprocessing (`Preprocess_proofs`, on `Literals_proofs`, `Cnf_proofs` and `Reduce_proofs`)

| Theorem | Statement |
|---|---|
| `TypeCorrect` | `Spec => []TypeOK` |
| `LiteralMapStaysExact` | `Spec => []LiteralMapExact` |
| `EliminatedStaysGone` | `Spec => []EliminatedGone` |
| `QueueIsComplete` | `Spec => []QueueCoversUnsettled` |
| `ConflictIsWritten` | `Spec => []ConflictWitness` |
| `PreprocessInvariant` | `Spec => []IInv`, if `InputsPairFree` |
| `ProjectionIsPreserved` | `Spec => []ProjectionPreserved`, if `InputsPairFree` |
| `TseitinIsDetermined` | `Spec => []TseitinDetermined`, if `InputsPairFree` |

`InputsPairFree` says that no input clause holds a projection variable in both polarities. It cannot be dropped:
that is the finding `tautology`. A clause with a pair of a data variable is allowed, and so are duplicated literals.

The inductive invariant is `IInv == Structure /\ Semantics`. `Structure` needs no hypothesis: the literal map is exact,
unit literals occur in no waiting clause, every clause that is unit or empty is on the queue, eliminated variables are
gone, a conflict has an empty clause. It is proved first, and gives the first five theorems. `Semantics` says of the
clauses together with *all* unit literals (`FullClauses`) that no clause has a complementary pair of a projection
variable, that the projection is that of the input, and that each Tseitin variable that has not been eliminated is a
function of the data variables. The properties speak of what `write` produces, which leaves the units of projection
variables out; `WrittenMeaning` shows that this does not matter, because no clause mentions them. The argument by step:

* *`bcp`* keeps the solutions of `FullClauses`: a unit literal is implied, its clauses are satisfied, and a falsified
  literal may go.
* *`bve`* keeps the projection. A solution of the resolvents can be extended by a value of the variable: if one of its
  positive clauses needs it to be true, all resolvents with that clause force every negative clause to hold without it.
  This fails exactly when a clause contains both literals, hence `PairFree`, which resolution keeps (`ResolvedKeeps`).
* *detection*: two solutions that agree on the known variables and differ in the tested one satisfy the test's clauses
  without that variable; the SAT test finds none, so the known variables determine it, and these are determined by
  the data variables already.
* *promotion* adds the blocked clauses. Setting the literal to false wherever its clauses allow it gives a solution
  with the same projection, and the blocked clauses then say when it is true: so it is determined.
* *the second `bve`* changes the clauses, but a determined variable stays determined: solutions are only restricted to
  the remaining variables, and two of them extend to two solutions before.

### Graphs (`Pog_proofs`)

| Theorem | Statement |
|---|---|
| `MakeNodeIsRight` | for any arguments, `start_node`, `add_argument` and `finish_node` give an edge for their conjunction or disjunction, over no other variable, in a well-formed graph that keeps its nodes; a countable graph stays countable if the arguments are compatible |
| `MakeNodeIsCanonical` | the graph stays in normal form |
| `SimpleKcIsRight` | `simple_kc` gives an edge for the conjunction of its clauses; the graph stays in normal form, and countable if no variable occurs in two clauses |
| `CountIsExact` | `ring_evaluate` of an edge over data variables in a countable graph is the number of its models over them |

What an edge means and mentions is defined by recursive functions over the nodes, oldest first. Lemmas show that both
are unchanged when a graph grows and that the meaning depends on no variable that is not mentioned.
`MakeNodeIsRight` is by the arguments added so far, with its cases for the dominating constant, the neutral one, the
complementary pair of a sum and a product inside a product; sorting and sharing change nothing. The normal form needs
that spliced arguments come from a product that is itself in normal form, and that the arguments made so far are no
positive products (`Flat`). `SimpleKcIsRight` is by the clauses so far: a clause is a negated product, and one that
repeats a literal or has a complementary pair still becomes an edge for itself. `CountIsExact` is by
the nodes so far: a weight is the number of models over the data variables. It needs that no division in
the product loses anything: the models of independent arguments are combined by a bijection (lemmas on `Mix`), so the
product of the weights is the number of models of the product times the unit.

### Traversal (`Traverse_proofs`)

| Theorem | Statement, each if `CompilerContract` |
|---|---|
| `TraverseInvariant` | `Spec /\ []Fits(pog) => []IInv` |
| `EdgesStayTyped` | `Spec /\ []Fits(pog) => []TypeOK` |
| `EdgesAreExpected` | `Spec /\ []Fits(pog) => []EdgesAsExpected` |
| `TraverseProjects` | `Spec /\ []Fits(pog) => []ReturnsProjection` |
| `GraphStaysCountable` | `Spec /\ []Fits(pog) => []StaysCountable` |
| `ProjectedCount` | `Spec /\ []Fits(pog) => []CountsModels` |
| `ProjectorImplemented` | `Spec /\ []Fits(pog) => ImplementsProjector` |

Two hypotheses. `Fits(pog)` says that the IDs of nodes stay below `TAUTOLOGY`; the code has no test for it, and
an `int` holds no more. `CompilerContract` is what the traversal relies on from compilers, which `Traverse` takes as the
constant `Compiled`: the first graph is a decision-DNNF of the formula (`FirstGraph`, assumed of D4), and a compilation
of a satisfiable function of some data variables in any countable graph gives a grown countable graph with an edge for
that function that mentions only those variables (`LaterGraph`). They are the variables below the two edges whose
intersection is compiled; the edge may mention some of them without need. That suffices: the exclusive results a sum gets
mention only variables below its arguments, so products above it stay independent. TLC evaluates both
parts for the compilers of the run. For the built-in compiler `EndsWithConjunction` (below) proves the second part, from
level 2 on and as long as no conflict is lost; that one can be lost is the finding `lost_conflict`.

`ReturnsProjection` is not inductive: a return says nothing about the activations below. `IInv` has five parts.

* `GraphInv`: the graph is well-formed and countable, and every node up to the root is as D4 made it. Newer nodes, which
  the traversal and later compilations make, need not be decision nodes: they are entered only through `DataOnly`.
* `GivenInv`: Tseitin variables are determined *in models of the root*.
* `CacheInv`: every entry is a projection that mentions only variables below its key.
* `StackInv`: each waiting activation holds projections of its first arguments and waits for the next one; in a sum with
  two results the call is that of their intersection (`Overlap`).
* `ControlInv`: the edge called is an original one or is over data variables, the edge returned is its projection.

An original edge is called `InContext`: each of its models can be completed to a model of the root by the same values of
the other variables. Without it nothing known of the root could be used at a sum deep inside the graph.
It is passed down because arguments of a product are independent and have models, and arguments of a sum are contained
in it.

The results of a product's arguments mention disjoint variables, and their projections combine to that of the product.
Projection distributes over union, so a sum needs only exclusive results. If it decides on a data variable,
the decision literal is still in them. If it decides on a Tseitin variable, a common model of the two projections would
come from two models of the root that agree on the data variables and differ in that variable. Otherwise there is the
SAT test, or the intersection is taken out. Equal counts of a function and one that contains it make them
equal, by `CountIsExact`. For the refinement, a step maps to the step of `Projector` that learns a pair or gives the
answer, or to a stutter: the graph grows but meanings stay, and an entry that is overwritten has an equal meaning.

### Built-in compiler (`BuiltinKc_proofs`)

| Theorem | Statement |
|---|---|
| `TypeCorrect` | `Spec /\ []Fits(pog) => []TypeOK` |
| `ContextsBalanced` | `Spec /\ []Fits(pog) => []ContextPerFrame` |
| `StaysInNormalForm` | `Spec /\ []Fits(pog) => []StaysCanonical` |
| `ReturnsRight` | `Trims = {TRUE}`; `Spec /\ []Fits(pog) /\ []ConflictKept => []ReturnsConjunction` |
| `RemainsCountable` | `Trims = {TRUE}`; `Spec /\ []Fits(pog) /\ []ConflictKept => []StaysCountable` |
| `EndsWithConjunction` | `Trims = {TRUE}`; the same conditions imply that, when `Finished`, the graph has only grown and is well-formed and countable, and the edge represents the conjunction of the roots and mentions only variables below them |

`CallerAssumption` (module `BuiltinKc`) says what `traverse_sum` hands over: two edges, not constants, of a countable
graph in normal form, and an object with a variable for every node below them. TLC evaluates it for the runs.

The invariant `KcInv` speaks of a history that no variable holds: `z[i]` is the object from which the branch of frame
`i + 1` has been opened, and `z[Len(frames)]` the one that is worked on. Each of them is the object `clausify` made but
for what contexts undo (`Kept`), has as many open contexts as its level, and the next one lies `Within` a context
opened on it: every change since then has been logged in a record above the `START_CONTEXT`. Lemmas on each method of
`Cnf` and each iteration of `bcp` and `bve` show that it logs what it changes (`Proceeds`), so `pop_context` gives
`z[i]` back up to a conflict flag that is cleared (`PopContextFacts` in `Cnf_proofs`, `HistoryCloses`). Without the
history the invariant says nothing about the object a branch returns to. That the clauses, including those given to
`simple_kc`, are over edges of the graph follows from what `clausify` makes (`ClausifyFacts`): the renumbered nodes
are the variables behind the inputs, and there are no more of them than edges.

The last three theorems have two more conditions. `Trims = {TRUE}` is level 2 and above; below it the property is false
(`untrimmed`). `ConflictKept` cannot be proved, because it is false for some graphs (`lost_conflict`); the theorems say
that nothing else can go wrong. Their invariant `KcSem` adds `KcGoes` to the same history.

* An assignment of the inputs determines the value of every node, and so extends to the variables `clausify` has
  introduced (`Extension`). The extensions of the common models of the roots are all that satisfies the clauses
  (`ExtensionFulfils`, `FulfilledFacts`; by a least counterexample over the nodes). `Solutions(p, r, A)` are the common
  models whose extension satisfies the literals `A` of the splits in progress.
* An object is `Right` if its unit literals hold in the extension of every solution, if there is no solution after a
  conflict, and if clauses have been retired because they are satisfied, or else there is no solution and that can be
  seen. Each case of a clause `bcp` visits, opening a branch and closing one keep this (`BcpRight`, `BranchRight`,
  `CalmRight`). When `bcp` has ended without a conflict, each active clause has two literals without value
  (`Waits`, `Settled`), so the variable of a node occurs in both phases and `bve` has nothing to do (`BothPhases`,
  `ScanEmpty`, `IdleBve`): pure literals exist after a conflict only, which is why `ConflictKept` suffices.
* A leaf: unless a false clause is among them, the clauses are independent, and `check_simple_pkc` hands them to
  `simple_kc` without the literals of splits and without propagated node variables. The models of their product, taken
  with the literals of the splits, are the solutions: a model is completed by the values of the nodes, which the retired
  and the remaining clauses define (`LeafSound`, `LeafComplete`, `LeafReturned`).
* What a leaf or a split returns mentions only inputs that `clausify` met on its way down from the roots (`Scoped`): the
  clauses are over the variables of the object, and those that stand for inputs are below the roots (`LeafScope`,
  `ScopeIsBelow`).
* A split: the literal of an input is made part of the branch, that of a node is left out. Either way the branches
  exclude each other, because the edge of a branch mentions no variable asserted and its models are solutions
  (`ExclusiveBranches`, `SumReturned`). `Chain` says of every activation that waits which literal is open and what its
  first branch has returned.

### What is only model-checked

* Liveness (`PopReturns` and the four `Termination`s), which is out of the proof system's reach.
* `ConflictKept` of `BuiltinKc`: as the finding `lost_conflict` shows, it does not hold for every graph.
* `Monolithic`, `Q25` and `Glucose`.
* What RECURSIVE operators compute (`D4`, `Nnf`, `D4File`, and with them `Monolithic`): the provers cannot use them.
  Induction over numbers is available through recursive functions and least counterexamples, which is how nodes,
  arguments and enumerations are treated above.
## 5. Findings

* **A tautological clause is resolved with itself** (`tautology`, `compile.cpp:1226`). `bve` takes every clause
  of a literal and every clause of its complement; a clause such as `4 -4 1` is both. The resolvent, `1`, is
  added, and solutions are lost; `4 -4` even gives the empty clause. With the program: a formula with five
  projected models counts 3 at `-P 3` and above and 5 at `-P 0` to `-P 2`. A clause with a complementary pair of
  a *data* variable does no harm (second pool of `preprocess`).
* **Optimization levels below 2 change the result** (`untrimmed`, `project.cpp:344`). `traverse_sum` passes
  `optlevel >= 2` as `trim`. Without trimming, `builtin_kc` multiplies the literals it splits on into its result,
  also those of the variables that stand for nodes. Their numbers are those of the renumbered subgraph and
  denote other nodes in the graph. With the program, `-O 0` and `-O 1` give a wrong count or stop with an error
  where `-O 2` to `-O 4` are right. (The same line also shows that level 3, "Run builtin KC", is never asked for: the
  built-in compiler is used at every level.)
* **The reciprocal of a number has the sign of another** (`recip`, `q25.c:467`). `q25_recip` sets the working area to
  1 by `q25_set`, which does not touch the sign there, and never looks at the sign of its argument: after a negative
  number has been built, the reciprocal of 1 is -1, and after a positive one that of -1 is 1. `subgraph_count` builds the
  sum just before it takes the reciprocal, so the sign happens to be the right one.
* **A conflict is lost to the elimination of pure literals** (`lost_conflict`, `compile.cpp:1641`). `builtin_kc` calls
  `bve` in a branch also when `bcp` has stopped at a conflict. Propagation is then incomplete: clauses of the literal
  just asserted may not have been visited, and `bve`, which does not look at units, still counts them. When the pure
  literal it eliminates retires the last clause of the asserted literal, the variable of that literal looks pure in the
  other polarity, its clauses are retired as well, and with them goes the clause that showed the conflict. Nobody asks
  for `has_conflict`, so the branch returns the product of what is left. The intersection then has models that the two
  edges do not share, and the sum has overlapping arguments. This was found when `ReturnsConjunction` could not be
  proved: the step that fails is that a conflict keeps a false clause until the branch returns. The run shows it for
  two edges that share a node, the parity of two variables, on which the compiler splits first; the program's own
  `compile.cpp` and `pog.cpp`, given the same graph and edges, return an edge with the same wrong models.

## 6. Not modelled, and the plan

Not modelled, and why:

* *Options and `main`*: parameters are set once and are constants here. (The order of `-m` and `-b` decides whether
  the default of `bkc_limit` for the mode or the given value is used.)
* *Temporary files, messages, statistics, scripts*: nothing the program computes depends on them.
* *The other modes*: `-m t` and `-m d` trim like monolithic mode and skip the second compilation, `-m d` leaves the
  projection to D4, `-m c` compiles without projection and `-m p` stops after preprocessing. They are parts of the
  paths through `Monolithic` and `Preprocess`, except for `defer`. `Monolithic` has `-T n`, since detection is the subject of `gates`, and `bkc_limit` zero, its default, so
  a formula with a clause left goes to D4; the built-in compiler is the subject of `builtin_kc`.
* *In `q25.c`*: `get_int64` has no caller (it negates an unsigned word, which would be wrong for negative numbers);
  `q25_show` prints the representation; conversion of the least 64-bit integer is outside of what the program
  converts. Two invalid numbers compare as equal; the program never compares them.
* *In Glucose*: assumptions, incremental mode, certificates, `SimpSolver`, garbage collection, budgets and interrupts;
  `is_satisfiable` uses none of them (garbage collection moves clauses and renames references consistently).
* *The algorithm of D4*: a binary without source; its output is assumed to be a decision-DNNF of its input.
* *`RANDOM_BVE`*: compiled out.

Proofs planned, in this order: that the call of `builtin_kc` refines the one step `Traverse` takes for it, with
`EndsWithConjunction` as the second half of `CompilerContract` (the two modules have the graph in common, but `Traverse`
does not have the object that `clausify` makes); that learnt clauses are implied and reasons hold in `Glucose`; that the numbers
of `Q25` stay canonical.

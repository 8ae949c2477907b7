------------------------------ MODULE Traverse ------------------------------
(***************************************************************************)
(* The projecting traversal of incremental mode: Project::traverse,        *)
(* traverse_sum and traverse_product replace every edge of the graph that  *)
(* D4 made of the formula by an edge for its projection onto the data      *)
(* variables.                                                              *)
(*                                                                         *)
(* The three functions are mutually recursive; their activations that wait *)
(* for a result are the stack of frames.  One step is a call or a return   *)
(* of traverse.  The SAT tests and the compilation of an intersection are  *)
(* taken as what module BuiltinKc shows them to do at the optimization     *)
(* levels at which it does: the test depends only on the models of the two *)
(* edges, and the compiled edge represents exactly those over variables of *)
(* the two edges, needed or not.                                           *)
(***************************************************************************)
EXTENDS Pog

CONSTANTS Formulas,     \* the sets of clauses (sets of literals) to start with
          DataVariables,
          Orders,       \* the ways in which compilers decide on variables
          Compiled(_, _, _, _), \* the graph and the edge a compiler makes of a graph,
                        \* a function, the variables it is given over and a way
          OptLevels,
          NoAnswer      \* for module Projector

ASSUME DataAssumption == DataVariables \subseteq InputVariables

ASSUME OptLevelAssumption == OptLevels \subseteq Nat

VARIABLES pog,          \* the graph
          tseitin_variables,
          optlevel,
          root_literal, \* the edge D4's graph gave for the formula
          result_cache,
          frames,       \* the activations that wait for a call of traverse
          pc,           \* "call" or "return"
          call,         \* the edge traverse is or was called with
          edge          \* the value returned last

vars == << pog, tseitin_variables, optlevel, root_literal, result_cache,
           frames, pc, call, edge >>

given == << tseitin_variables, optlevel, root_literal >>

\* results are the values of the calls made so far: of the arguments, and in a
\* sum with two results the call that is waited for is that of the intersection.
Frame == [edge : Int, dvar : Int, results : Seq(Int)]

Top == frames[Len(frames)]

ArgsOf(e) == NodeOf(pog, e).args

is_sum(e) == is_node(e) /\ NodeOf(pog, e).type = "SUM"

-----------------------------------------------------------------------------
(* What the traversal relies on when a function f, given over variables V, has *)
(* been compiled in a graph p.                                               *)

\* The graph has grown and can still be counted; the edge stands for f and is
\* over variables of V, also such as f does not depend on.
Represents(p, f, V, made) ==
    LET q == made.pog
    IN  /\ WellFormed(q) /\ Countable(q)
        /\ q.data_variables = p.data_variables
        /\ Len(p.nodes) <= Len(q.nodes)
        /\ \A i \in DOMAIN p.nodes : q.nodes[i] = p.nodes[i]
        /\ IsEdge(q, made.edge)
        /\ EdgeModels(AllModels(q), made.edge) = f
        /\ IABS(made.edge) # TAUTOLOGY => EdgeSupport(AllSupports(q), made.edge) \subseteq V

\* A node as D4 makes it: only literals are negated, there is a model, and a
\* sum has two parts, products or a literal in the first place, that decide on
\* a variable.
DecisionNode(p, i) ==
    LET args == p.nodes[i].args
    IN  /\ AllModels(p)[i] # {}
        /\ Len(args) >= 2
        /\ \A e \in ToSet(args) : is_node(e) => e > 0
        /\ p.nodes[i].type = "SUM" =>
             /\ Len(args) = 2 /\ is_node(args[2])
             /\ \A e \in ToSet(args) : is_node(e) => NodeOf(p, e).type = "PRODUCT"
             /\ get_decision_variable(p, NInput + i) \in InputVariables

\* The variables that occur in a set of clauses.
VariablesOf(clauses) == { IABS(lit) : lit \in UNION clauses }

\* The graph of the formula, which is the first one, and any graph later on.
FirstGraph ==
    \A clauses \in Formulas, order \in Orders :
      LET p    == EmptyPog(DataVariables)
          f    == Models(InputVariables, clauses)
          made == Compiled(p, f, VariablesOf(clauses), order)
      IN  Fits(made.pog) =>
            /\ Represents(p, f, InputVariables, made)
            /\ \A i \in DOMAIN made.pog.nodes : DecisionNode(made.pog, i)
            /\ is_node(made.edge) => made.edge > 0

LaterGraph(p, f, V) ==
    \A order \in Orders :
      LET made == Compiled(p, f, V, order)
      IN  WellFormed(p) /\ Countable(p) /\ Fits(made.pog) => Represents(p, f, V, made)

-----------------------------------------------------------------------------
(* Calls of other parts *)

\* sums_to_tautology: no model of both negated edges.
sums_to_tautology(e1, e2) ==
    LET models == AllModels(pog)
    IN  EdgeModels(models, e1) \cup EdgeModels(models, e2) = Assignments

Intersection(e1, e2) ==
    LET models == AllModels(pog)
    IN  EdgeModels(models, e1) \cap EdgeModels(models, e2)

\* The clause with a given set of models, if there is one.
ClausesFor(f) ==
    { lits \in SUBSET { s * v : s \in {-1, 1}, v \in pog.data_variables } :
        /\ Cardinality(lits) >= 2
        /\ \A lit \in lits : -lit \notin lits
        /\ f = { a \in Assignments : HoldsClause(a, lits) } }

\* The variables below two edges.
VariablesBelow(e1, e2) ==
    LET supports == AllSupports(pog)
    IN  EdgeSupport(supports, e1) \cup EdgeSupport(supports, e2)

\* compile, by the built-in or the external compiler: a graph that decides on
\* variables below the two edges, or a disjunction, which is a negated product.
CompiledTo(e1, e2) ==
    LET f == Intersection(e1, e2)
    IN  { Compiled(pog, f, VariablesBelow(e1, e2), order) : order \in Orders }
          \cup { build_disjunction(pog, SortByVariable(lits)) : lits \in ClausesFor(f) }

equal_counts(e1, e2) == ring_evaluate(pog, e1) = ring_evaluate(pog, e2)

-----------------------------------------------------------------------------
(* Steps *)

\* The formula as preprocessing leaves it, with the variables it recognised as
\* Tseitin variables, compiled for the first time.
Init ==
    /\ \E clauses \in Formulas, order \in Orders :
         LET free == InputVariables \ DataVariables
             made == Compiled(EmptyPog(DataVariables), Models(InputVariables, clauses),
                              VariablesOf(clauses), order)
         IN  /\ pog = made.pog
             /\ root_literal = made.edge
             /\ tseitin_variables \in
                  SUBSET { v \in free : Determined(InputVariables, DataVariables, clauses, v) }
             /\ optlevel \in OptLevels
             /\ optlevel < 2 => tseitin_variables = free
    /\ result_cache = << >>
    /\ frames = << >>
    /\ pc = "call"
    /\ call = root_literal
    /\ edge = 0

Return(e) ==
    /\ pc' = "return"
    /\ edge' = e

\* Calls that return at once.
ReturnOnly(e) ==
    /\ Return(e)
    /\ UNCHANGED << pog, given, result_cache, frames, call >>

\* Constants and literals of data variables stay, other literals can be made true.
leaf_result(e) ==
    IF IABS(e) = TAUTOLOGY \/ IABS(e) \in pog.data_variables THEN e ELSE TAUTOLOGY

Leaf ==
    /\ pc = "call" /\ ~is_node(call)
    /\ ReturnOnly(leaf_result(call))

Cached == optlevel >= 1 /\ call \in DOMAIN result_cache

Reuse ==
    /\ pc = "call" /\ is_node(call) /\ Cached
    /\ ReturnOnly(result_cache[call])

\* Nodes over variables of one kind only are recognised.
DetectsPure == optlevel >= 2

DataOnly ==
    /\ pc = "call" /\ is_node(call) /\ ~Cached
    /\ DetectsPure /\ only_data_variables(pog, call)
    /\ ReturnOnly(call)

ProjectionOnly ==
    /\ pc = "call" /\ is_node(call) /\ ~Cached
    /\ DetectsPure /\ only_projection_variables(pog, call)
    /\ ~only_data_variables(pog, call)
    /\ ReturnOnly(TAUTOLOGY)

MustEnter ==
    /\ is_node(call) /\ ~Cached
    /\ DetectsPure =>
         ~only_data_variables(pog, call) /\ ~only_projection_variables(pog, call)

\* traverse_sum or traverse_product begins: its first argument is traversed.
Enter ==
    /\ pc = "call" /\ MustEnter
    /\ frames' = Append(frames,
         [edge |-> call, results |-> << >>,
          dvar |-> IF is_sum(call) THEN get_decision_variable(pog, call) ELSE 0])
    /\ call' = ArgsOf(call)[1]
    /\ UNCHANGED << pog, given, result_cache, pc, edge >>

\* An entry of a map is set.
Stored(cache, key, value) ==
    [x \in DOMAIN cache \cup {key} |-> IF x = key THEN value ELSE cache[x]]

\* Faulty variant: the result is stored for the last argument.
LeaveUnderArgument(e) ==
    /\ Return(e)
    /\ result_cache' = Stored(result_cache, call, e)
    /\ frames' = SubSeq(frames, 1, Len(frames) - 1)
    /\ call' = Top.edge
    /\ UNCHANGED given

\* An activation ends with edge e: traverse stores and returns it.
Leave(e) ==
    /\ Return(e)
    /\ result_cache' = Stored(result_cache, Top.edge, e)
    /\ frames' = SubSeq(frames, 1, Len(frames) - 1)
    /\ call' = Top.edge
    /\ UNCHANGED given

Returned == pc = "return" /\ frames # << >>

InSum     == Returned /\ is_sum(Top.edge)
InProduct == Returned /\ ~is_sum(Top.edge)

Degree == Len(ArgsOf(Top.edge))

\* Faulty variant: only the first argument is looked at.
DecidedByFirst(results, e) == results = << >> /\ e = TAUTOLOGY

\* One tautology among the arguments of a sum decides it.
Decided(results, e) == Len(results) < 2 /\ e = TAUTOLOGY

\* Faulty variant: the result is lost.
CallAgain(e) ==
    /\ call' = e
    /\ pc' = "call"
    /\ UNCHANGED << given, result_cache, edge, frames >>

\* The value returned is kept and traverse is called with edge e.
CallNext(e) ==
    /\ frames' = [frames EXCEPT ![Len(frames)].results = Append(@, edge)]
    /\ call' = e
    /\ pc' = "call"
    /\ UNCHANGED << given, result_cache, edge >>

NextArgument ==
    /\ Returned
    /\ IF is_sum(Top.edge)
         THEN Top.results = << >> /\ ~Decided(Top.results, edge)
         ELSE Len(Top.results) + 1 < Degree
    /\ CallNext(ArgsOf(Top.edge)[Len(Top.results) + 2])
    /\ UNCHANGED pog

FinishProduct ==
    /\ InProduct
    /\ Len(Top.results) + 1 = Degree
    /\ LET made == MakeNode(pog, "PRODUCT", Append(Top.results, edge))
       IN  pog' = made.pog /\ Leave(made.edge)

SumDecided ==
    /\ InSum /\ Decided(Top.results, edge)
    /\ Leave(TAUTOLOGY)
    /\ UNCHANGED pog

\* Both arguments have been traversed.
Both == InSum /\ Len(Top.results) = 1 /\ ~Decided(Top.results, edge)

SumIdentical ==
    /\ Both /\ Top.results[1] = edge
    /\ Leave(edge)
    /\ UNCHANGED pog

SumCovers ==
    /\ Both /\ Top.results[1] # edge
    /\ sums_to_tautology(Top.results[1], edge)
    /\ Leave(TAUTOLOGY)
    /\ UNCHANGED pog

Different ==
    /\ Both /\ Top.results[1] # edge
    /\ ~sums_to_tautology(Top.results[1], edge)

\* Faulty variant: every variable that is not a data variable counts as Tseitin.
ExclusiveUntested(dvar, e1, e2) == dvar \in InputVariables

\* The two results have no common model: the sum was over a data variable,
\* whose literals they still contain, or over a Tseitin variable, or a SAT test
\* finds it out.  (is_tseitin_variable compares what it has found with the end
\* of another set; the library's sets all have the same end.)
Exclusive(dvar, e1, e2) ==
    \/ dvar \in pog.data_variables
    \/ dvar \in tseitin_variables
    \/ Intersection(e1, e2) = {}

SumExclusive ==
    /\ Different
    /\ Exclusive(Top.dvar, Top.results[1], edge)
    /\ LET made == MakeNode(pog, "SUM", << Top.results[1], edge >>)
       IN  pog' = made.pog /\ Leave(made.edge)

\* The results overlap: the intersection is compiled, and traversed in turn.
SumCompile ==
    /\ Different
    /\ ~Exclusive(Top.dvar, Top.results[1], edge)
    /\ \E made \in CompiledTo(Top.results[1], edge) :
         pog' = made.pog /\ CallNext(made.edge)

\* The traversal of the intersection has returned.
Intersected == InSum /\ Len(Top.results) = 2

\* Faulty variant: the argument contained in the other one is returned.
AbsorbedSwapped(n1, n2, x) ==
    CASE x = n1 -> n1
      [] x = n2 /\ x # n1 -> n2
      [] OTHER -> 0

\* The argument that contains the other one, if the intersection is equal to
\* the other one; equal counts are as good, because one contains the other.
\* 0 if neither is contained.
Absorbed(n1, n2, x) ==
    CASE x = n1 -> n2
      [] x = n2 /\ x # n1 -> n1
      [] optlevel >= 4 /\ x \notin {n1, n2} /\ equal_counts(x, n1) -> n2
      [] optlevel >= 4 /\ x \notin {n1, n2} /\ equal_counts(x, n2)
           /\ ~equal_counts(x, n1) -> n1
      [] OTHER -> 0

SumAbsorbs ==
    /\ Intersected
    /\ LET e == Absorbed(Top.results[1], Top.results[2], edge)
       IN  e # 0 /\ Leave(e)
    /\ UNCHANGED pog

\* Faulty variant: the sums are built and taken back.
ExcludingRetracted(p, n1, n2, x) ==
    LET m == MakeNode(p, "SUM", << -n1, x >>)
    IN  [pog |-> p, edge |-> MakeNode(m.pog, "SUM", << -m.edge, n2 >>).edge]

\* The first argument without the intersection, plus the second.
Excluding(p, n1, n2, x) ==
    LET m == MakeNode(p, "SUM", << -n1, x >>)
    IN  MakeNode(m.pog, "SUM", << -m.edge, n2 >>)

SumExcluding ==
    /\ Intersected
    /\ Absorbed(Top.results[1], Top.results[2], edge) = 0
    /\ LET made == Excluding(pog, Top.results[1], Top.results[2], edge)
       IN  pog' = made.pog /\ Leave(made.edge)

Finished == pc = "return" /\ frames = << >>

Done == Finished /\ UNCHANGED vars

Next ==
    \/ Leaf \/ Reuse \/ DataOnly \/ ProjectionOnly \/ Enter
    \/ NextArgument \/ FinishProduct
    \/ SumDecided \/ SumIdentical \/ SumCovers
    \/ SumExclusive \/ SumCompile \/ SumAbsorbs \/ SumExcluding
    \/ Done

Spec == Init /\ [][Next]_vars

\* A sequential program runs until it has finished (see BuiltinKc).
Running == []<>Finished \/ []<><<Next>>_vars

FairSpec == Spec /\ Running

-----------------------------------------------------------------------------
(* What the traversal must do *)

\* Every edge that is kept is an edge of the graph.
TypeOK ==
    /\ pog.nodes \in Seq(Node)
    /\ optlevel \in OptLevels
    /\ IsEdge(pog, root_literal) /\ IsEdge(pog, call)
    /\ pc = "return" => IsEdge(pog, edge)
    /\ \A e \in DOMAIN result_cache : IsEdge(pog, e) /\ IsEdge(pog, result_cache[e])
    /\ frames \in Seq(Frame)
    /\ \A i \in DOMAIN frames :
         /\ IsEdge(pog, frames[i].edge)
         /\ \A e \in ToSet(frames[i].results) : IsEdge(pog, e)
    /\ pc \in {"call", "return"}

\* traverse is a projection: whatever rule it used, the edge it returns has the
\* models of the edge it was called with, with the projection variables
\* quantified, and mentions none of them.
ReturnsProjection ==
    pc = "return" =>
      LET models == AllModels(pog)
      IN  /\ EdgeModels(models, edge) = Shadow(EdgeModels(models, call), DataVariables)
          /\ IABS(edge) = TAUTOLOGY \/ only_data_variables(pog, edge)

\* The graph stays countable.  Sums over Tseitin variables become sums whose
\* arguments no longer contain the variable and are exclusive all the same,
\* and those over other variables have their common models taken out.
StaysCountable == pc = "return" => Countable(pog)

\* The count of the result is the number of projected models of the formula.
CountsModels ==
    Finished =>
      ring_evaluate(pog, edge) =
        Cardinality({ a \cap DataVariables : a \in EdgeModels(AllModels(pog), root_literal) })

\* What the traversal never checks about the edges it meets, although graphs
\* grow while it runs.  Nodes are taken apart as if they were positive; a sum
\* has two arguments of which the second is a node, and decides on a variable
\* (get_decision_variable ends the program otherwise, or reads past a literal);
\* clausify, which would take a constant for a variable, is given none.
EdgesAsExpected ==
    /\ pc = "call" /\ MustEnter => call > 0
    /\ pc = "call" /\ MustEnter /\ is_sum(call) =>
         /\ get_decision_variable(pog, call) \in InputVariables
         /\ Len(ArgsOf(call)) = 2
         /\ is_node(ArgsOf(call)[2])
    /\ Both => IABS(edge) # TAUTOLOGY /\ IABS(Top.results[1]) # TAUTOLOGY

\* The traversal ends.
Termination == <>Finished

\* The traversal implements the abstract projector: what is in the cache is
\* right from the moment it is stored and is never changed to anything else.
Abstract ==
    INSTANCE Projector WITH
      Vars   <- InputVariables,
      data   <- DataVariables,
      goal   <- EdgeModels(AllModels(pog), root_literal),
      known  <- UNION { { << EdgeModels(models, e), EdgeModels(models, result_cache[e]) >> :
                            e \in DOMAIN result_cache } : models \in {AllModels(pog)} },
      answer <- IF Finished THEN EdgeModels(AllModels(pog), edge) ELSE NoAnswer

ImplementsProjector == Abstract!Spec
=============================================================================

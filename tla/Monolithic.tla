----------------------------- MODULE Monolithic -----------------------------
(***************************************************************************)
(* The whole program in monolithic mode (-m m -T n), from the input file   *)
(* to the two counts: class Project and function run of pkc.cpp.           *)
(*                                                                         *)
(*   import       import_file                                              *)
(*   bcp, bve, bve2, compile    the constructor of Project                 *)
(*   project, rebcp, rebve, recompile    projecting_compile                *)
(*   write        Pog::write                                               *)
(*   ucount, wcount    the unweighted and the weighted count               *)
(*                                                                         *)
(* The first compilation makes projection literals true, so that sums may  *)
(* overlap; the graph is turned into clauses again, whose new variables    *)
(* are determined by the others, and a second compilation trims those.     *)
(* In this mode every formula with a clause left goes to D4.               *)
(***************************************************************************)
EXTENDS Reduce, Compiler, Counting, CnfFile, D4File

CONSTANTS Documents,    \* input files, with what they stand for
          Levels,       \* preprocessing levels (-P)
          Orders        \* orders in which D4 may decide on variables

ASSUME MonolithicAssumption ==
    /\ NInput <= NVar
    /\ Levels \subseteq Nat
    /\ \A order \in Orders : ToSet(order) = Variables

VARIABLES input, preprocess_level, phase,
          pog, root_literal, input_weights,
          reader,        \* import_file: what is read and how far
          counter,       \* subgraph_count: its local variables
          freed,         \* the input weights that have been given back
          ucount, wcount, pog_file

options  == << input, preprocess_level >>
counting == << counter, freed, ucount, wcount >>
graph    == << pog, root_literal, pog_file >>
vars     == << cnf, clause_queue, bve, options, reader, phase, graph, input_weights, counting >>

\* Counts that are not there, and the file before it is written.
NULL   == [num |-> 0, ten |-> -1]
NoFile == [root |-> 0, nodes |-> << >>]

NoCount == [weighted |-> FALSE, pending |-> {}, weights |-> << >>, lent |-> {},
            eqlog |-> {}, rescale |-> q25_from_32(1)]

Init ==
    /\ input \in Documents
    /\ preprocess_level \in Levels
    /\ phase = "import" /\ reader = Reading
    /\ cnf = EmptyCnf /\ clause_queue = NoQueue /\ bve = NoBve
    /\ pog = EmptyPog({}) /\ root_literal = 0 /\ pog_file = NoFile
    /\ input_weights = << >>
    /\ counter = NoCount /\ freed = {} /\ ucount = NULL /\ wcount = NULL

-----------------------------------------------------------------------------
(* The order of the calls *)

FirstCall == IF preprocess_level >= 1 THEN "bcp" ELSE "compile"
AfterBcp  == IF preprocess_level >= 2 THEN "bve" ELSE "compile"
AfterBve  == IF preprocess_level >= 4 THEN "bve2" ELSE "compile"

FirstRecall == IF preprocess_level >= 1 THEN "rebcp" ELSE "recompile"
AfterRebcp  == IF preprocess_level >= 2 THEN "rebve" ELSE "recompile"

\* Entering a call on the clauses of s.
Enter(next, s) ==
    /\ phase' = next
    /\ cnf' = s
    /\ clause_queue' = IF next \in {"bcp", "rebcp"} THEN QueueOf(s) ELSE NoQueue
    /\ bve' = CASE next = "bve" -> BveScan(s, IF preprocess_level >= 3 THEN 1 ELSE 0)
                [] next \in {"bve2", "rebve"} -> BveScan(s, preprocess_level - 2)
                [] OTHER -> NoBve

\* The reader's next comment, clause or other token.
Importing(part, reads(_, _)) ==
    /\ phase = "import" /\ reader.part = part
    /\ reader' = reads(input.file, reader)
    /\ UNCHANGED << cnf, clause_queue, bve, options, phase, graph, input_weights, counting >>

ImportHeader  == Importing("header", BeforeHeader)
ImportClauses == Importing("clauses", BeforeClause)
ImportRest    == Importing("rest", AfterClauses)

ImportFails ==
    /\ phase = "import" /\ reader.part = "failed"
    /\ phase' = "failed"
    /\ UNCHANGED << cnf, clause_queue, bve, options, reader, graph, input_weights, counting >>

\* The formula that has been read.
Loaded ==
    LET s == AddClauses(EmptyCnf, reader.clauses)
    IN  [s EXCEPT !.data_variables = reader.data_variables,
                  !.variable_type  = [v \in Variables |->
                      IF v \in reader.data_variables THEN "DATA" ELSE s.variable_type[v]]]

Import ==
    /\ phase = "import" /\ reader.part = "read"
    /\ Enter(FirstCall, Loaded)
    /\ input_weights' = reader.input_weights
    /\ reader' = Reading
    /\ UNCHANGED << options, graph, counting >>

Simplifying == UNCHANGED << options, reader, graph, input_weights, counting >>

Bcp == /\ phase \in {"bcp", "rebcp"}
       /\ BcpIteration(phase = "bcp")
       /\ UNCHANGED phase /\ Simplifying

Bve == /\ phase \in {"bve", "bve2", "rebve"}
       /\ BveIteration(phase # "rebve")
       /\ UNCHANGED phase /\ Simplifying

FinishBcp == /\ phase \in {"bcp", "rebcp"}
             /\ BcpDone
             /\ Enter(IF phase = "bcp" THEN AfterBcp ELSE AfterRebcp, cnf)
             /\ Simplifying

FinishBve == /\ phase \in {"bve", "bve2", "rebve"}
             /\ BveDone
             /\ Enter(CASE phase = "bve"   -> AfterBve
                        [] phase = "bve2"  -> "compile"
                        [] phase = "rebve" -> "recompile", cnf)
             /\ Simplifying

-----------------------------------------------------------------------------
(* Compilation *)

\* Compiler::compile with trim.  No clause may be left for the built-in
\* compiler (bkc_limit is zero), which then has unit literals only.
Compiled(p, s, order) ==
    IF s.active_clauses = {}
      THEN simple_kc(p, Chunks(s))
      ELSE load_nnf(p, D4Lines(WrittenClauses(s), order), s.data_variables)

\* The first compilation starts a graph, the second adds to it.
Compile ==
    /\ phase \in {"compile", "recompile"}
    /\ LET p == IF phase = "compile" THEN EmptyPog(cnf.data_variables) ELSE pog
       IN  \E order \in Orders :
             LET made == Compiled(p, cnf, order)
             IN  pog' = made.pog /\ root_literal' = made.edge
    /\ Enter(IF phase = "compile" THEN "project" ELSE "write", EmptyCnf)
    /\ UNCHANGED << options, reader, pog_file, input_weights, counting >>

sums_to_tautology == ~Satisfiable(clausify(pog, << -root_literal >>))

\* projecting_compile returns early on a constant, a literal or a tautology.
ProjectNothing ==
    /\ phase = "project"
    /\ ~is_node(root_literal)
    /\ phase' = "write"
    /\ UNCHANGED << cnf, clause_queue, bve, options, reader, graph, input_weights, counting >>

ProjectTautology ==
    /\ phase = "project"
    /\ is_node(root_literal) /\ sums_to_tautology
    /\ phase' = "write"
    /\ root_literal' = TAUTOLOGY
    /\ UNCHANGED << cnf, clause_queue, bve, options, reader, pog, pog_file, input_weights, counting >>

ProjectAgain ==
    /\ phase = "project"
    /\ is_node(root_literal) /\ ~sums_to_tautology
    /\ Enter(FirstRecall, clausify(pog, << root_literal >>))
    /\ UNCHANGED << options, reader, graph, input_weights, counting >>

-----------------------------------------------------------------------------
(* Pog::write *)

\* The reachable nodes under new numbers; a constant is a product without
\* arguments or its negation.
Written(p, root) ==
    LET remap == NodeRemap(p, {root})
        ids   == Ascending(DOMAIN remap)
        line(id) == [type |-> NodeOf(p, id).type,
                     args |-> [i \in DOMAIN NodeOf(p, id).args |->
                                  Remapped(remap, NodeOf(p, id).args[i])]]
    IN  IF IABS(root) = TAUTOLOGY
          THEN [root  |-> IF root > 0 THEN NInput + 1 ELSE -(NInput + 1),
                nodes |-> << [type |-> "PRODUCT", args |-> << >>] >>]
          ELSE [root  |-> Remapped(remap, root), nodes |-> [i \in DOMAIN ids |-> line(ids[i])]]

Write ==
    /\ phase = "write"
    /\ pog_file' = Written(pog, root_literal)
    /\ phase' = "ucount"
    /\ counter' = [NoCount EXCEPT !.pending = pog.data_variables]
    /\ UNCHANGED << cnf, clause_queue, bve, options, reader, pog, root_literal, input_weights,
                    freed, ucount, wcount >>

-----------------------------------------------------------------------------
(* subgraph_count *)

Counting == phase \in {"ucount", "wcount"}

\* The weights of a variable, their sum, and which are lent by input_weights.
Weighed(var) ==
    LET lent == IF counter.weighted THEN {var, -var} \cap DOMAIN input_weights ELSE {}
        one  == q25_from_32(1)
        p    == CASE var \in lent -> input_weights[var]
                  [] var \notin lent /\ -var \in lent -> q25_one_minus(input_weights[-var])
                  [] OTHER -> one
        n    == CASE -var \in lent -> input_weights[-var]
                  [] -var \notin lent /\ var \in lent -> q25_one_minus(input_weights[var])
                  [] OTHER -> one
    IN  [p |-> p, n |-> n, lent |-> lent,
         sum |-> IF Cardinality(lent) = 1 THEN one ELSE q25_add(p, n)]

WithWeights(var, p, n) ==
    [counter EXCEPT !.pending = @ \ {var}, !.weights = (var :> p) @@ (-var :> n) @@ @]

\* Faulty variant: all numbers are freed after each variable.
WeighKeepsBriefly(var) ==
    /\ Counting /\ var \in counter.pending
    /\ LET w == Weighed(var)
       IN  /\ q25_is_one(w.sum)
           /\ counter' = [WithWeights(var, w.p, w.n) EXCEPT !.lent = @ \cup w.lent]
           /\ freed' = freed \cup w.lent
    /\ UNCHANGED << cnf, clause_queue, bve, options, reader, phase, graph, input_weights, ucount, wcount >>

\* Weights that sum to one are used as they are, and freed with the results.
WeighKeeps(var) ==
    /\ Counting /\ var \in counter.pending
    /\ LET w == Weighed(var)
       IN  /\ q25_is_one(w.sum)
           /\ counter' = [WithWeights(var, w.p, w.n) EXCEPT !.lent  = @ \cup w.lent,
                                                            !.eqlog = @ \cup w.lent]
    /\ UNCHANGED << cnf, clause_queue, bve, options, reader, phase, graph, input_weights,
                    freed, ucount, wcount >>

\* Faulty variant: the result is not scaled back.
WeighForgetsScale(var) ==
    /\ Counting /\ var \in counter.pending
    /\ LET w == Weighed(var)
       IN  /\ ~q25_is_one(w.sum) /\ HasReciprocal(w.sum)
           /\ counter' = WithWeights(var, q25_mul(w.p, q25_recip(w.sum)),
                                          q25_mul(w.n, q25_recip(w.sum)))
    /\ UNCHANGED << cnf, clause_queue, bve, options, reader, phase, graph, input_weights,
                    freed, ucount, wcount >>

\* Others are divided by their sum, and the result multiplied by it.
WeighRescales(var) ==
    /\ Counting /\ var \in counter.pending
    /\ LET w == Weighed(var)
       IN  /\ ~q25_is_one(w.sum) /\ HasReciprocal(w.sum)
           /\ counter' = [WithWeights(var, q25_mul(w.p, q25_recip(w.sum)),
                                           q25_mul(w.n, q25_recip(w.sum)))
                            EXCEPT !.rescale = q25_mul(@, w.sum)]
    /\ UNCHANGED << cnf, clause_queue, bve, options, reader, phase, graph, input_weights,
                    freed, ucount, wcount >>

WeighFails(var) ==
    /\ Counting /\ var \in counter.pending
    /\ LET w == Weighed(var) IN ~q25_is_one(w.sum) /\ ~HasReciprocal(w.sum)
    /\ phase' = "failed"
    /\ UNCHANGED << cnf, clause_queue, bve, options, reader, graph, input_weights, counting >>

Evaluate ==
    /\ Counting /\ counter.pending = {} /\ (counter.weighted <=> phase = "wcount")
    /\ LET count == q25_mul(counter.rescale, weighted_evaluate(pog, root_literal, counter.weights))
       IN  IF phase = "ucount"
             THEN /\ phase' = "wcount"
                  /\ ucount' = count /\ UNCHANGED wcount
             ELSE /\ phase' = "finished"
                  /\ wcount' = count /\ UNCHANGED ucount
    /\ freed' = freed \cup counter.eqlog
    /\ counter' = NoCount
    /\ UNCHANGED << cnf, clause_queue, bve, options, reader, graph, input_weights >>

\* Without weights the second count is not made.
StartWeighted ==
    /\ phase = "wcount" /\ ~counter.weighted
    /\ IF input_weights = << >>
         THEN phase' = "finished" /\ UNCHANGED counter
         ELSE /\ counter' = [NoCount EXCEPT !.weighted = TRUE, !.pending = pog.data_variables]
              /\ UNCHANGED phase
    /\ UNCHANGED << cnf, clause_queue, bve, options, reader, graph, input_weights, freed, ucount, wcount >>

Done == phase \in {"finished", "failed"} /\ UNCHANGED vars

Next ==
    \/ ImportHeader \/ ImportClauses \/ ImportRest \/ ImportFails \/ Import
    \/ Bcp \/ Bve \/ FinishBcp \/ FinishBve
    \/ Compile \/ ProjectNothing \/ ProjectTautology \/ ProjectAgain
    \/ Write
    \/ StartWeighted \/ Evaluate
    \/ \E var \in Variables : WeighKeeps(var)
    \/ \E var \in Variables : WeighRescales(var)
    \/ \E var \in Variables : WeighFails(var)
    \/ Done

Spec == Init /\ [][Next]_vars

-----------------------------------------------------------------------------
(* What the document says *)

Projected == Projection(InputVariables, input.data, { ToSet(c) : c \in ToSet(input.clauses) })

\* The same as a function of all input variables.
ProjectedModels == { a \in SUBSET InputVariables : a \cap input.data \in Projected }

\* The weight of a literal in tenths; what is missing adds up to one.
Tenths(lit) ==
    CASE lit \in DOMAIN input.tenths -> input.tenths[lit]
      [] lit \notin DOMAIN input.tenths /\ -lit \in DOMAIN input.tenths -> 10 - input.tenths[-lit]
      [] OTHER -> 10

WeightOf(a) ==
    MapThenFoldSet(LAMBDA x, y : x * y, 1, LAMBDA v : Tenths(IF v \in a THEN v ELSE -v),
                   LAMBDA S : CHOOSE v \in S : TRUE, input.data)

WeightedCount ==
    MapThenFoldSet(LAMBDA x, y : x + y, 0, WeightOf, LAMBDA S : CHOOSE a \in S : TRUE, Projected)

\* Sums of weights that the numbers of the program can divide by.
Divisible ==
    \A v \in input.data : input.tenths # << >> =>
        HasReciprocal(reduced[Tenths(v) + Tenths(-v), 1])

\* Both counts are those of the document, and the program gives up only where
\* it cannot go on: subgraph_count, ring_evaluate and everything before them.
CountsExact ==
    input.proper =>
      /\ ucount # NULL => ucount = [num |-> Cardinality(Projected), ten |-> 0]
      /\ phase = "finished" =>
           IF input.tenths = << >> THEN wcount = NULL
           ELSE /\ wcount.ten <= Cardinality(input.data)
                /\ wcount.num * 10 ^ (Cardinality(input.data) - wcount.ten) = WeightedCount
      /\ phase = "failed" => ~Divisible

\* The graph is the projection of the document after each compilation and
\* after the early returns, over data variables only; in the end it can be
\* counted, and the file has the same meaning (compile, projecting_compile
\* and Pog::write).
Below == [pog EXCEPT !.nodes = Written(pog, root_literal).nodes]

GraphExact ==
    input.proper =>
      /\ phase \in {"project", "write"} =>
           /\ EdgeModels(AllModels(pog), root_literal) = ProjectedModels
           /\ IABS(root_literal) # TAUTOLOGY =>
                EdgeSupport(AllSupports(pog), root_literal) \subseteq input.data
      /\ phase = "ucount" =>
           /\ EdgeModels(AllModels(Below), pog_file.root) = ProjectedModels
           /\ Countable(Below)

\* No number is read after it has been freed, and none is freed twice:
\* subgraph_count gives numbers to its logs that input_weights still holds.
NumbersAlive ==
    /\ freed \cap counter.eqlog = {}
    /\ freed \cap counter.lent = {}
    /\ counter.weighted =>
         \A lit \in DOMAIN input_weights : IABS(lit) \in counter.pending => lit \notin freed
=============================================================================

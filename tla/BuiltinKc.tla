----------------------------- MODULE BuiltinKc -----------------------------
(***************************************************************************)
(* Compiler::builtin_kc, the internal knowledge compiler, as traverse_sum  *)
(* uses it: two edges of the graph that are not known to be disjoint are   *)
(* turned into clauses (clausify), a SAT test finds out whether they have  *)
(* a common model, and if they do their conjunction is compiled into a new *)
(* edge from which the variables standing for nodes are projected away.    *)
(*                                                                         *)
(* builtin_kc is recursive.  Its activations are the stack of frames; the  *)
(* Cnf object is shared by all of them and each branch works in a context  *)
(* of its own.  One step is one iteration of a loop (those of bcp and bve  *)
(* are in module Reduce), or the code between two loops or calls.          *)
(***************************************************************************)
EXTENDS Reduce, Compiler

CONSTANTS Library,      \* a graph built earlier: sequence of types and arguments
          RootPairs,    \* the two edges given to clausify
          Trims         \* values of the parameter trim (optlevel >= 2)

VARIABLES pog,          \* the graph
          frames,       \* the activations of builtin_kc that wait for a branch
          pc,           \* what runs: the SAT test, or a part of builtin_kc
          edge,         \* the value returned last
          roots,        \* root_literals of clausify
          trim

vars == << cnf, clause_queue, bve, pog, frames, pc, edge, roots, trim >>

kcUnchanged == UNCHANGED << pog, frames, edge, roots, trim >>

Frame == [svar : Variables, child : Seq(Int)]

-----------------------------------------------------------------------------
(* The variable to split on *)

\* Faulty variant: a literal instead of its variable.
SplitLiteral(s) ==
    LET lits == UNION { FreeLits(s, cid) : cid \in Unsatisfied(s) }
    IN  CHOOSE x \in lits : \A y \in lits : x <= y

\* The largest variable that occurs in both phases, else that of the smallest
\* literal.
find_split(s) ==
    LET lits    == UNION { FreeLits(s, cid) : cid \in Unsatisfied(s) }
        bipolar == { lit \in lits : lit < 0 /\ -lit \in lits }
        least(S) == CHOOSE x \in S : \A y \in S : x <= y
    IN  IABS(least(IF bipolar # {} THEN bipolar ELSE lits))

-----------------------------------------------------------------------------
(* Steps *)

BuildLibrary ==
    FoldLeft(LAMBDA p, spec : MakeNode(p, spec.type, spec.args).pog,
             EmptyPog(InputVariables), Library)

\* What traverse_sum hands over: two edges, not constants, of a graph that
\* MakeNode has built; clausify makes an object with a variable for each node
\* below them.
ASSUME CallerAssumption ==
    /\ Trims \subseteq BOOLEAN
    /\ WellFormed(BuildLibrary) /\ Canonical(BuildLibrary) /\ Countable(BuildLibrary)
    /\ \A r \in RootPairs :
         /\ r \in Int \X Int
         /\ \A e \in ToSet(r) : IsEdge(BuildLibrary, e) /\ IABS(e) # TAUTOLOGY
         /\ NInput + Cardinality(Reachable(BuildLibrary, ToSet(r))) <= NVar

Init ==
    /\ pog = BuildLibrary
    /\ roots \in RootPairs
    /\ trim \in Trims
    /\ cnf = clausify(pog, roots)
    /\ clause_queue = QueueOf(cnf)
    /\ bve = NoBve
    /\ frames = << >>
    /\ edge = 0
    /\ pc = "test"

\* bcp, called by is_satisfiable or in a new branch.
Bcp ==
    /\ pc \in {"test", "bcp"}
    /\ BcpIteration(FALSE)
    /\ kcUnchanged /\ UNCHANGED pc

\* No common model: the edges exclude each other.
TestUnsat ==
    /\ pc = "test" /\ BcpDone
    /\ ~Satisfiable(cnf)
    /\ edge' = CONFLICT
    /\ pc' = "return"
    /\ UNCHANGED << cnf, clause_queue, bve, pog, frames, roots, trim >>

TestSat ==
    /\ pc = "test" /\ BcpDone
    /\ Satisfiable(cnf)
    /\ pc' = "check"
    /\ UNCHANGED << cnf, clause_queue, bve, pog, frames, edge, roots, trim >>

\* The clauses are independent: their product is the result.
CheckSimple ==
    /\ pc = "check"
    /\ Simple(cnf)
    /\ LET made == simple_kc(pog, Chunks(cnf))
       IN  pog' = made.pog /\ edge' = made.edge
    /\ pc' = "return"
    /\ UNCHANGED << cnf, clause_queue, bve, frames, roots, trim >>

\* Entering a branch: a context in which the split literal is asserted.
StartBranch(s, slit) ==
    /\ cnf' = assign_literal(new_context(s), slit, FALSE)
    /\ clause_queue' = QueueOf(cnf')
    /\ bve' = NoBve
    /\ pc' = "bcp"

\* The negative branch comes first.
CheckSplit ==
    /\ pc = "check"
    /\ ~Simple(cnf)
    /\ LET svar == find_split(cnf)
       IN  /\ frames' = Append(frames, [svar |-> svar, child |-> << >>])
           /\ StartBranch(cnf, -svar)
    /\ UNCHANGED << pog, edge, roots, trim >>

FinishBcp ==
    /\ pc = "bcp" /\ BcpDone
    /\ bve' = BveScan(cnf, 0)
    /\ clause_queue' = NoQueue
    /\ pc' = "bve"
    /\ UNCHANGED cnf /\ kcUnchanged

\* Elimination at degree zero: pure literals.
Bve ==
    /\ pc = "bve"
    /\ BveIteration(FALSE)
    /\ kcUnchanged /\ UNCHANGED pc

FinishBve ==
    /\ pc = "bve" /\ BveDone
    /\ pc' = "check"
    /\ UNCHANGED << cnf, clause_queue, bve >> /\ kcUnchanged

\* Faulty variant: data variables are treated like projection variables.
BranchForgetsLiteral(p, slit, e) == [pog |-> p, edge |-> e]

\* A branch returns edge e: the split literal is made part of it, unless it is
\* to be projected away.
BranchEdge(p, slit, e) ==
    IF is_data_variable(cnf, IABS(slit)) \/ ~trim
      THEN MakeNode(p, "PRODUCT", << slit, e >>)
      ELSE [pog |-> p, edge |-> e]

Top == frames[Len(frames)]

\* Faulty variant: the negative branch is taken again.
ReturnRepeats ==
    /\ pc = "return" /\ frames # << >>
    /\ Top.child = << >>
    /\ LET made == BranchEdge(pog, -Top.svar, edge)
       IN  pog' = made.pog
    /\ StartBranch(pop_context(cnf), -Top.svar)
    /\ UNCHANGED << edge, frames, roots, trim >>

ReturnNegative ==
    /\ pc = "return" /\ frames # << >>
    /\ Top.child = << >>
    /\ LET made == BranchEdge(pog, -Top.svar, edge)
       IN  /\ pog' = made.pog
           /\ frames' = [frames EXCEPT ![Len(frames)].child = << made.edge >>]
    /\ StartBranch(pop_context(cnf), Top.svar)
    /\ UNCHANGED << edge, roots, trim >>

\* Faulty variant: the context of the positive branch stays open.
ReturnKeepsContext ==
    /\ pc = "return" /\ frames # << >>
    /\ Top.child # << >>
    /\ LET made == BranchEdge(pog, Top.svar, edge)
           sum  == MakeNode(made.pog, "SUM", Append(Top.child, made.edge))
       IN  pog' = sum.pog /\ edge' = sum.edge
    /\ frames' = SubSeq(frames, 1, Len(frames) - 1)
    /\ UNCHANGED << cnf, clause_queue, bve, pc, roots, trim >>

ReturnPositive ==
    /\ pc = "return" /\ frames # << >>
    /\ Top.child # << >>
    /\ LET made == BranchEdge(pog, Top.svar, edge)
           sum  == MakeNode(made.pog, "SUM", Append(Top.child, made.edge))
       IN  pog' = sum.pog /\ edge' = sum.edge
    /\ cnf' = pop_context(cnf)
    /\ frames' = SubSeq(frames, 1, Len(frames) - 1)
    /\ UNCHANGED << clause_queue, bve, pc, roots, trim >>

Finished == pc = "return" /\ frames = << >>

Done == Finished /\ UNCHANGED vars

Next ==
    \/ Bcp \/ TestUnsat \/ TestSat
    \/ CheckSimple \/ CheckSplit
    \/ FinishBcp \/ Bve \/ FinishBve
    \/ ReturnNegative \/ ReturnPositive
    \/ Done

Spec == Init /\ [][Next]_vars

\* A sequential program: it takes a step whenever it can.  This is weak
\* fairness, WF_vars(Next), with ENABLED <<Next>>_vars written out: some step
\* is possible until builtin_kc has returned (deadlock is checked), and every
\* step but Done changes the state.
Running == []<>Finished \/ []<><<Next>>_vars

FairSpec == Spec /\ Running

-----------------------------------------------------------------------------
(* What builtin_kc must do *)

TypeOK ==
    /\ ReduceTypeOK
    /\ pog.nodes \in Seq(Node)
    /\ frames \in Seq(Frame)
    /\ pc \in {"test", "check", "bcp", "bve", "return"}
    /\ edge \in Int
    /\ trim \in BOOLEAN

\* The literals asserted by the splits in progress.
Asserted == cnf.unit_literals \ cnf.bcp_unit_literals

\* The models over which a literal of the clauses is true, read in the graph:
\* input variables stand for themselves, the others for nodes.
LiteralModels(models, lit) ==
    LET remap == NodeRemap(pog, ToSet(roots))
        id    == IF is_node(lit)
                   THEN CHOOSE x \in DOMAIN remap : remap[x] = IABS(lit)
                   ELSE IABS(lit)
    IN  EdgeModels(models, IF lit < 0 THEN -id ELSE id)

\* Whatever an activation of builtin_kc returns represents, among the
\* assignments that agree with the splits made so far, exactly the common
\* models of the two roots: no order of propagation, elimination of pure
\* literals and splitting loses or adds a model, whether or not propagation
\* stopped at a conflict, and the variables of nodes are projected away.
ReturnsConjunction ==
    pc = "return" =>
      LET models == AllModels(pog)
          agree  == { a \in SUBSET InputVariables :
                        \A lit \in Asserted : a \in LiteralModels(models, lit) }
          common == EdgeModels(models, roots[1]) \cap EdgeModels(models, roots[2])
          given  == { a \in SUBSET InputVariables :
                        \A lit \in Asserted : ~is_node(lit) => Holds(a, lit) }
      IN  EdgeModels(models, edge) \cap given = common \cap agree

\* The graph stays countable: sums over a split, also over a split on a node
\* variable that does not appear in the result, exclude each other.
StaysCountable == pc = "return" => Countable(pog)

\* The graph stays in normal form, so that edges can be compared.
StaysCanonical == pc = "return" => Canonical(pog)

\* Contexts are opened and closed in step with the recursion, also when both
\* branches of a split have been cut short by a conflict.
ContextPerFrame ==
    Cardinality({ i \in DOMAIN cnf.action_stack :
                    cnf.action_stack[i].action = "START_CONTEXT" }) = 1 + Len(frames)

\* A conflict that bcp has met can still be seen when bve has ended: a clause
\* of which every literal is false is among the active ones.  builtin_kc does
\* not look at has_conflict again; it goes by the clauses.
ConflictKept ==
    pc = "check" /\ cnf.has_conflict =>
      \E cid \in cnf.active_clauses : \A lit \in Lits(cnf, cid) : -lit \in cnf.unit_literals

\* The compilation ends.
Termination == <>Finished
=============================================================================

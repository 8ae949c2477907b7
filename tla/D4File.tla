------------------------------- MODULE D4File -------------------------------
(***************************************************************************)
(* The files D4 writes, as the code expects them: a decision-DNNF of a set *)
(* of clauses.  D4 is a program of its own, and this module is not its     *)
(* algorithm but the shape of its output: clauses are split into parts     *)
(* without a common variable, decided on a variable, propagated, and looked *)
(* up in a cache; what is propagated stands on the edge.  The order in     *)
(* which D4 decides on variables is a parameter.                           *)
(*                                                                         *)
(* A clause is a set of literals here.  A file is a sequence of the lines  *)
(* of module Nnf; a node is declared before its parts and its edges.       *)
(***************************************************************************)
EXTENDS Nnf

Condition(clauses, lit) == { c \ {-lit} : c \in { d \in clauses : lit \notin d } }

\* The clauses after unit propagation and the literals it has found.
RECURSIVE Propagated(_, _)
Propagated(clauses, lits) ==
    LET units == UNION { c \in clauses : Cardinality(c) = 1 }
    IN  CASE {} \in clauses -> [clauses |-> {{}}, lits |-> lits]
          [] {} \notin clauses /\ units = {} -> [clauses |-> clauses, lits |-> lits]
          [] OTHER -> LET lit == CHOOSE l \in units : TRUE
                      IN  Propagated(Condition(clauses, lit), lits \cup {lit})

VariablesOf(clauses) == { IABS(lit) : lit \in UNION clauses }

\* The clauses connected to some of them by common variables.
RECURSIVE Connected(_, _)
Connected(clauses, some) ==
    LET more == { c \in clauses : VariablesOf({c}) \cap VariablesOf(some) # {} }
    IN  IF more \subseteq some THEN some ELSE Connected(clauses, some \cup more)

Parts(clauses) == { Connected(clauses, {c}) : c \in clauses }

\* The first variable of the order that occurs.
Decision(clauses, order) ==
    order[CHOOSE i \in DOMAIN order :
            /\ order[i] \in VariablesOf(clauses)
            /\ \A j \in 1 .. i - 1 : order[j] \notin VariablesOf(clauses)]

Letter(clauses) ==
    CASE clauses = {} -> "t"
      [] {} \in clauses -> "f"
      [] clauses # {} /\ {} \notin clauses /\ Cardinality(Parts(clauses)) > 1 -> "a"
      [] OTHER -> "o"

\* What the edges of a node lead to, and the literals on them.
Branches(clauses, order) ==
    LET v == Decision(clauses, order)
    IN  CASE Letter(clauses) = "a" ->
               [i \in 1 .. Cardinality(Parts(clauses)) |->
                   [clauses |-> SetToSeq(Parts(clauses))[i], lits |-> {}]]
          [] Letter(clauses) = "o" ->
               << Propagated(Condition(clauses, -v), {-v}), Propagated(Condition(clauses, v), {v}) >>
          [] OTHER -> << >>

Edge(id, child, lits) == Line("", << id, child >> \o SortByVariable(lits) \o << 0 >>)

\* The file with a node for some clauses, and the number of that node.
RECURSIVE WithNode(_, _, _)
WithNode(f, clauses, order) ==
    LET id       == f.count + 1
        declared == [lines  |-> Append(f.lines, Line(Letter(clauses), << id, 0 >>)),
                     count  |-> id,
                     cached |-> (clauses :> id) @@ f.cached]
        branches == Branches(clauses, order)
        after[k \in 0 .. Len(branches)] ==
          IF k = 0 THEN declared
          ELSE LET made == WithNode(after[k - 1], branches[k].clauses, order)
               IN  [made.file EXCEPT !.lines = Append(@, Edge(id, made.id, branches[k].lits))]
    IN  IF clauses \in DOMAIN f.cached
          THEN [file |-> f, id |-> f.cached[clauses]]
          ELSE [file |-> after[Len(branches)], id |-> id]

\* The whole file: its root is a disjunction with one argument.
D4Lines(clauses, order) ==
    LET proper == { c \in clauses : \A lit \in c : -lit \notin c }
        start  == [lines |-> << Line("o", << 1, 0 >>) >>, count |-> 1, cached |-> << >>]
        top    == Propagated(proper, {})
        made   == WithNode(start, top.clauses, order)
    IN  Append(made.file.lines, Edge(1, made.id, top.lits))
=============================================================================

--------------------------------- MODULE D4 ---------------------------------
(***************************************************************************)
(* The external knowledge compiler D4 and the import of its output, as the *)
(* code relies on them: from a formula a decision-DNNF is made, a graph in *)
(* which every sum decides on a variable and the arguments of a product    *)
(* have no variable in common.  The code cannot know the order in which D4 *)
(* decides, so it is a parameter.  A formula is given by its models.       *)
(***************************************************************************)
EXTENDS Pog

\* The models of f once a literal is known to hold; they no longer depend on
\* its variable.
Cofactor(f, lit) ==
    { a \in Assignments : (IF lit > 0 THEN a \cup {lit} ELSE a \ {-lit}) \in f }

Support(f) == { v \in InputVariables : Cofactor(f, v) # Cofactor(f, -v) }

\* The proper parts of the support that are independent of the rest: every
\* combination of their values with values of the rest is a model.
Components(f) ==
    LET S         == Support(f)
        values(V) == Cardinality({ b \cap V : b \in f })
    IN  { V \in SUBSET S \ {{}, S} : values(V) * values(S \ V) = values(S) }

\* The first variable of the order that f depends on.
Decide(f, order) ==
    LET here == { i \in DOMAIN order : order[i] \in Support(f) }
    IN  order[CHOOSE i \in here : \A j \in here : i <= j]

\* The graph with an edge for f: a constant, a product of two independent
\* parts, or a sum that decides on a variable.
RECURSIVE Compile(_, _, _)
Compile(p, f, order) ==
    CASE f = {} -> [pog |-> p, edge |-> CONFLICT]
      [] f = Assignments -> [pog |-> p, edge |-> TAUTOLOGY]
      [] f \notin {{}, Assignments} /\ Components(f) # {} ->
           LET V     == CHOOSE V \in Components(f) : TRUE
               left  == Compile(p, Shadow(f, V), order)
               right == Compile(left.pog, Shadow(f, Support(f) \ V), order)
           IN  MakeNode(right.pog, "PRODUCT", << left.edge, right.edge >>)
      [] OTHER ->
           LET v    == Decide(f, order)
               lo   == Compile(p, Cofactor(f, -v), order)
               neg  == MakeNode(lo.pog, "PRODUCT", << -v, lo.edge >>)
               hi   == Compile(neg.pog, Cofactor(f, v), order)
               pos  == MakeNode(hi.pog, "PRODUCT", << v, hi.edge >>)
           IN  MakeNode(pos.pog, "SUM", << neg.edge, pos.edge >>)
=============================================================================

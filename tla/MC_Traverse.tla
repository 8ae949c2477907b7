----------------------------- MODULE MC_Traverse -----------------------------
(* Data variables 1 to 3 and projection variables 4 and 5. *)
EXTENDS Traverse, D4

\* Gates that make a projection variable a Tseitin variable.
GatePool ==
    { {{-4, 1}, {-4, 2}, {4, -1, -2}},                            \* 4 = 1 and 2
      {{-4, 1, 3}, {-4, -1, -3}, {4, 1, -3}, {4, -1, 3}},         \* 4 = 1 xor 3
      {{-5, 4, 3}, {5, -4}, {5, -3}},                             \* 5 = 4 or 3
      {{-5, 1}, {5, -1}} }                                        \* 5 = 1

\* Constraints, some of which only relate projection variables to others.
ConstraintPool ==
    { {{4, 5}}, {{-4, 1}}, {{4, 2}}, {{-4, -5, 3}}, {{5, -2}}, {{-5, 1, 3}},
      {{4, -1, 5}}, {{1, 2, 3}}, {{-4, 5}} }

Parts == GatePool \cup ConstraintPool

UnionsOf(k) == { UNION S : S \in kSubset(k, Parts) }

\* All combinations of two parts, and two gates with a constraint on both.
MCFormulas ==
    UnionsOf(1) \cup UnionsOf(2)
      \cup { UNION S \cup {{-4, -5, 3}} : S \in kSubset(2, GatePool) }

MCOrders ==
    { [order |-> << 1, 2, 3, 4, 5 >>, blind |-> TRUE],
      [order |-> << 5, 4, 3, 2, 1 >>, blind |-> FALSE],
      [order |-> << 4, 1, 5, 2, 3 >>, blind |-> TRUE] }

\* A compiler decides on the first variable that the function depends on, or it
\* is blind and begins with one that makes no difference, if there is one.  (The
\* built-in compiler begins with variables that stand for nodes, so that both of
\* its branches may come to the same.)
MCCompiled(p, f, V, way) ==
    LET made  == Compile(p, f, way.order)
        spare == SelectSeq(way.order, LAMBDA v : v \in V \ Support(f))
    IN  IF way.blind /\ spare # << >> /\ IABS(made.edge) # TAUTOLOGY
          THEN LET neg == MakeNode(made.pog, "PRODUCT", << -spare[1], made.edge >>)
                   pos == MakeNode(neg.pog, "PRODUCT", << spare[1], made.edge >>)
               IN  MakeNode(pos.pog, "SUM", << neg.edge, pos.edge >>)
          ELSE made

\* What the traversal relies on holds of these graphs: for every formula above,
\* and for every function of some data variables compiled in a graph made before.
ASSUME FirstGraph

ASSUME
    \A V \in { {1, 2}, DataVariables } : \A values \in SUBSET SUBSET V :
      LET f == Models(InputVariables, {{-4, 1}, {4, -1, 5}, {-5, 4, 3}, {5, -4}})
          p == Compile(EmptyPog(DataVariables), f, << 4, 1, 5, 2, 3 >>).pog
      IN  LaterGraph(p, { a \in Assignments : a \cap V \in values }, V)
=============================================================================

------------------------------ MODULE Compiler ------------------------------
(***************************************************************************)
(* What class Compiler does between clauses and graphs without recursion:  *)
(* clausify, which turns edges of a graph into clauses, and the test for   *)
(* clauses that are independent of each other (Cnf::check_simple_pkc),     *)
(* which need no compilation.                                              *)
(***************************************************************************)
EXTENDS Cnf, Pog

-----------------------------------------------------------------------------
(* clausify *)

\* Faulty variant: a node is only required to imply what it stands for.
DefinitionsOneWay(p, remap, id) ==
    LET node   == NodeOf(p, id)
        nnid   == IF node.type = "SUM" THEN remap[id] ELSE -remap[id]
        lit(e) == LET v == IF is_node(e) THEN remap[IABS(e)] ELSE IABS(e)
                  IN  IF (e < 0) = (node.type = "SUM") THEN -v ELSE v
        nclits == [i \in DOMAIN node.args |-> lit(node.args[i])]
    IN  IF node.type = "SUM" THEN << << -nnid >> \o nclits >>
        ELSE [i \in DOMAIN nclits |-> << nnid, -nclits[i] >>]

\* The clauses that define node id, in the numbering of the subgraph.
DefiningClauses(p, remap, id) ==
    LET node   == NodeOf(p, id)
        nnid   == IF node.type = "SUM" THEN remap[id] ELSE -remap[id]
        lit(e) == LET v == IF is_node(e) THEN remap[IABS(e)] ELSE IABS(e)
                  IN  IF (e < 0) = (node.type = "SUM") THEN -v ELSE v
        nclits == [i \in DOMAIN node.args |-> lit(node.args[i])]
    IN  << << -nnid >> \o nclits >>
          \o [i \in DOMAIN nclits |-> << nnid, -nclits[i] >>]

Remapped(remap, e) ==
    IF ~is_node(e) THEN e
    ELSE IF e < 0 THEN -remap[IABS(e)] ELSE remap[IABS(e)]

clausify(p, root_literals) ==
    LET remap == NodeRemap(p, ToSet(root_literals))
        ids   == Ascending(DOMAIN remap)
        defs  == FlattenSeq([i \in DOMAIN ids |-> DefiningClauses(p, remap, ids[i])])
        units == [i \in DOMAIN root_literals |-> << Remapped(remap, root_literals[i]) >>]
        below == UNION { Children(p, id) : id \in DOMAIN remap }
    IN  [AddClauses(EmptyCnf, defs \o units) EXCEPT
           !.data_variables =
               { v \in below \cup { IABS(e) : e \in ToSet(root_literals) } : ~is_node(v) }]

-----------------------------------------------------------------------------
(* Clauses that are independent of each other *)

Unsatisfied(s) == { cid \in s.active_clauses : ~skip_clause(s, cid) }

\* The free literals of the unsatisfied clauses, clause by clause.
Residual(s) ==
    LET cids      == Ascending(Unsatisfied(s))
        free(cid) == LET places == Ascending(FreePositions(s, cid))
                     IN  [j \in DOMAIN places |-> s.clauses[cid][places[j]]]
    IN  [i \in DOMAIN cids |-> free(cids[i])]

\* A clause without literals, met before any variable is met a second time.
EmptyClauseFirst(s) ==
    LET r == Residual(s)
    IN  \E i \in DOMAIN r :
          /\ r[i] = << >>
          /\ LET lits == FlattenSeq(SubSeq(r, 1, i))
             IN  IsInjective([k \in DOMAIN lits |-> IABS(lits[k])])

\* check_simple_pkc: no variable occurs twice, or the clauses are seen to be
\* contradictory.
Simple(s) ==
    \/ EmptyClauseFirst(s)
    \/ LET lits == FlattenSeq(Residual(s))
       IN  IsInjective([k \in DOMAIN lits |-> IABS(lits[k])])

\* Faulty variant: units of projection variables are kept.
ChunksKeepUnits(s) ==
    IF EmptyClauseFirst(s) THEN << << >>, << >> >>
    ELSE LET units == Ascending(s.bcp_unit_literals)
         IN  Residual(s) \o [i \in DOMAIN units |-> << units[i] >>]

\* clause_chunks: the clauses and the unit literals of data variables.
Chunks(s) ==
    IF EmptyClauseFirst(s) THEN << << >>, << >> >>
    ELSE LET units == Ascending({ lit \in s.bcp_unit_literals : is_data_variable(s, IABS(lit)) })
         IN  Residual(s) \o [i \in DOMAIN units |-> << units[i] >>]
=============================================================================

-------------------------------- MODULE Nnf --------------------------------
(***************************************************************************)
(* Reading D4's output: the file of a decision-DNNF (class Nnf) and its    *)
(* integration into a graph (Pog::load_nnf).                               *)
(*                                                                         *)
(* A line is a letter and a sequence of numbers.  With a letter it creates *)
(* a node; without one, an edge from one node to another with literals on  *)
(* it.  Literals on an edge become a product of their own.  Counters and   *)
(* the error messages for malformed lines are left out: ok tells that no   *)
(* line was malformed and that there is a root.                            *)
(***************************************************************************)
EXTENDS Pog

NODE_START  == 500 * 1000 * 1000
XNODE_START == 1000 * 1000 * 1000 + 1

Line(letter, numbers) == [letter |-> letter, numbers |-> numbers]

nnf_type(letter) ==
    CASE letter = "t" -> "TRUE" [] letter = "f" -> "FALSE"
      [] letter = "a" -> "AND"  [] letter = "o" -> "OR"

EmptyNnf == [nodes |-> << >>, node_with_parent |-> {}, xcount |-> 0, ok |-> TRUE]

Terminated(line, n) == Len(line.numbers) >= n /\ line.numbers[Len(line.numbers)] = 0

AddNode(nnf, nid, type, args) ==
    [nnf EXCEPT !.nodes = (nid :> [type |-> type, args |-> args]) @@ @]

ReadNode(nnf, line) ==
    IF Terminated(line, 2) /\ Len(line.numbers) = 2
      THEN AddNode(nnf, NODE_START + line.numbers[1], nnf_type(line.letter), << >>)
      ELSE [nnf EXCEPT !.ok = FALSE]

AddEdge(nnf, pnid, cnid) ==
    [nnf EXCEPT !.nodes[pnid].args = Append(@, cnid), !.node_with_parent = @ \cup {cnid}]

\* Both nodes must have been created before.
ReadEdge(nnf, line) ==
    LET pnid == NODE_START + line.numbers[1]
        cnid == NODE_START + line.numbers[2]
        xid  == XNODE_START + nnf.xcount
        lits == SubSeq(line.numbers, 3, Len(line.numbers) - 1)
        held == [AddNode(nnf, xid, "AND", Append(lits, cnid)) EXCEPT !.xcount = @ + 1]
    IN  CASE ~Terminated(line, 3) \/ {pnid, cnid} \ DOMAIN nnf.nodes # {} ->
               [nnf EXCEPT !.ok = FALSE]
          [] OTHER -> IF lits = << >> THEN AddEdge(nnf, pnid, cnid) ELSE AddEdge(held, pnid, xid)

ReadLine(nnf, line) ==
    IF line.letter # "" THEN ReadNode(nnf, line) ELSE ReadEdge(nnf, line)

ReadNnf(lines) ==
    LET after[k \in 0 .. Len(lines)] ==
          IF k = 0 THEN EmptyNnf
          ELSE LET nnf == after[k - 1] IN IF nnf.ok THEN ReadLine(nnf, lines[k]) ELSE nnf
    IN  after[Len(lines)]

\* The root is the first disjunction with one argument that nobody refers to.
Roots(nnf) ==
    { nid \in DOMAIN nnf.nodes \ nnf.node_with_parent :
        nnf.nodes[nid].type = "OR" /\ Len(nnf.nodes[nid].args) = 1 }

root_id(nnf) == CHOOSE nid \in Roots(nnf) : \A other \in Roots(nnf) : nid <= other

\* topo_order: nodes below nid after their arguments, each once.
RECURSIVE Visit(_, _, _), VisitAll(_, _, _)
Visit(nnf, nid, ids) ==
    IF nid < NODE_START \/ nid \in ToSet(ids) THEN ids
    ELSE Append(VisitAll(nnf, nnf.nodes[nid].args, ids), nid)
VisitAll(nnf, args, ids) ==
    IF args = << >> THEN ids
    ELSE VisitAll(nnf, Tail(args), Visit(nnf, Head(args), ids))

-----------------------------------------------------------------------------
(* load_nnf *)

\* Literals of projection variables can be made true.
TrimLiteral(data_variables, lit) ==
    IF IABS(lit) \in data_variables THEN lit ELSE TAUTOLOGY

\* The edge for an argument of a node.
Argument(edges, data_variables, arg) ==
    IF arg >= NODE_START THEN edges[arg] ELSE TrimLiteral(data_variables, arg)

LoadNode(p, node, edges, data_variables) ==
    CASE node.type = "TRUE"  -> [pog |-> p, edge |-> TAUTOLOGY]
      [] node.type = "FALSE" -> [pog |-> p, edge |-> CONFLICT]
      [] OTHER ->
           MakeNode(p, IF node.type = "AND" THEN "PRODUCT" ELSE "SUM",
                    [i \in DOMAIN node.args |-> Argument(edges, data_variables, node.args[i])])

\* The graph with the nodes of a file added and the edge to its root, as far as
\* the file is well-formed.  Literals of variables that are not in
\* data_variables are trimmed.
load_nnf(p, lines, data_variables) ==
    LET nnf == ReadNnf(lines)
        ids == Visit(nnf, root_id(nnf), << >>)
        after[k \in 0 .. Len(ids)] ==
          IF k = 0 THEN [pog |-> p, edge |-> 0, edges |-> << >>]
          ELSE LET before == after[k - 1]
                   made   == LoadNode(before.pog, nnf.nodes[ids[k]], before.edges, data_variables)
               IN  [pog |-> made.pog, edge |-> made.edge,
                    edges |-> (ids[k] :> made.edge) @@ before.edges]
        loaded == after[Len(ids)]
    IN  IF nnf.ok /\ Roots(nnf) # {}
          THEN [ok |-> TRUE, pog |-> loaded.pog, edge |-> loaded.edge]
          ELSE [ok |-> FALSE, pog |-> p, edge |-> 0]
=============================================================================

-------------------------------- MODULE Pog --------------------------------
(***************************************************************************)
(* Class Pog: partitioned-operation graphs, which represent a Boolean      *)
(* function by products with independent arguments and sums with mutually  *)
(* exclusive ones, so that its models can be counted in one pass.          *)
(*                                                                         *)
(* An edge is an integer: TAUTOLOGY, CONFLICT, a literal of an input       *)
(* variable, or plus or minus the ID of a node; IDs follow the input       *)
(* variables in order of creation.  A graph is a record, methods are       *)
(* operators.  The code builds a node at the end of its node and argument  *)
(* vectors and takes it back when it is not needed; here the node under    *)
(* construction is a record of its own, which changes nothing because no   *)
(* caller starts a node before it has finished the last.  The unique table *)
(* holds every finished node under a hash of its contents, so looking a    *)
(* node up in it is looking for an equal node.                             *)
(***************************************************************************)
EXTENDS Literals

CONSTANT NInput         \* the number of input variables (Pog's nvar)

ASSUME NInputAssumption == NInput \in Nat

InputVariables == 1 .. NInput

PogType == {"PRODUCT", "SUM"}

Node == [type : PogType, args : Seq(Int), data_only : BOOLEAN, projection_only : BOOLEAN]

EmptyPog(data_variables) == [nodes |-> << >>, data_variables |-> data_variables]

is_node(edge) == IABS(edge) > NInput /\ IABS(edge) # TAUTOLOGY

NodeOf(p, edge) == p.nodes[IABS(edge) - NInput]

only_data_variables(p, edge) ==
    IF is_node(edge) THEN NodeOf(p, edge).data_only
    ELSE IABS(edge) \in p.data_variables

only_projection_variables(p, edge) ==
    IF is_node(edge) THEN NodeOf(p, edge).projection_only
    ELSE IABS(edge) \notin p.data_variables

-----------------------------------------------------------------------------
(* Building a node *)

start_node(type) ==
    [type |-> type, args |-> << >>, data_only |-> TRUE, projection_only |-> TRUE]

\* The constant that decides an operation, and the one that does not matter.
Dominating(type) == IF type = "PRODUCT" THEN CONFLICT ELSE TAUTOLOGY
Neutral(type)    == IF type = "PRODUCT" THEN TAUTOLOGY ELSE CONFLICT

\* A positive product inside a product is replaced by its arguments.
Spliced(p, node, edge) ==
    IF is_node(edge) /\ edge > 0 /\ node.type = "PRODUCT"
         /\ NodeOf(p, edge).type = "PRODUCT"
      THEN NodeOf(p, edge).args
      ELSE << edge >>

add_argument(p, node, edge) ==
    CASE node.args = << Dominating(node.type) >> -> node
      [] node.args # << Dominating(node.type) >> /\ node.type = "SUM"
           /\ node.args = << -edge >> -> [node EXCEPT !.args = << TAUTOLOGY >>]
      [] node.args # << Dominating(node.type) >> /\ edge = Neutral(node.type)
           /\ ~(node.type = "SUM" /\ node.args = << -edge >>) -> node
      [] node.args # << Dominating(node.type) >> /\ edge = Dominating(node.type)
           /\ ~(node.type = "SUM" /\ node.args = << -edge >>) ->
           [node EXCEPT !.args = << edge >>]
      [] OTHER ->
           [node EXCEPT
              !.args            = @ \o Spliced(p, node, edge),
              !.data_only       = @ /\ only_data_variables(p, edge),
              !.projection_only = @ /\ only_projection_variables(p, edge)]

\* std::sort with abs_less; equal variables stay in their order.
SortedArgs(args) ==
    LET places == Lexicographic({ << IABS(args[i]), i >> : i \in DOMAIN args })
    IN  [i \in DOMAIN args |-> args[places[i][2]]]

\* Faulty variant: the unique table is not consulted.
finish_without_lookup(p, node) ==
    LET sorted == [node EXCEPT !.args = SortedArgs(@)]
    IN  CASE Len(node.args) = 0 -> [pog |-> p, edge |-> Neutral(node.type)]
          [] Len(node.args) = 1 -> [pog |-> p, edge |-> node.args[1]]
          [] OTHER -> [pog  |-> [p EXCEPT !.nodes = Append(@, sorted)],
                       edge |-> NInput + Len(p.nodes) + 1]

\* The graph and the edge to the node: a constant, the only argument, an
\* equal node that exists, or a new one.
finish_node(p, node) ==
    LET sorted == [node EXCEPT !.args = SortedArgs(@)]
        equal  == { i \in DOMAIN p.nodes :
                      p.nodes[i].type = node.type /\ p.nodes[i].args = sorted.args }
    IN  CASE Len(node.args) = 0 -> [pog |-> p, edge |-> Neutral(node.type)]
          [] Len(node.args) = 1 -> [pog |-> p, edge |-> node.args[1]]
          [] Len(node.args) > 1 /\ equal # {} ->
               [pog |-> p, edge |-> NInput + CHOOSE i \in equal : TRUE]
          [] OTHER -> [pog  |-> [p EXCEPT !.nodes = Append(@, sorted)],
                       edge |-> NInput + Len(p.nodes) + 1]

\* A node with some arguments, added one after the other.
MakeNode(p, type, args) ==
    LET after[k \in 0 .. Len(args)] ==
          IF k = 0 THEN start_node(type) ELSE add_argument(p, after[k - 1], args[k])
    IN  finish_node(p, after[Len(args)])

\* De Morgan: a disjunction is a negated product.
build_disjunction(p, lits) ==
    CASE Len(lits) = 0 -> [pog |-> p, edge |-> CONFLICT]
      [] Len(lits) = 1 -> [pog |-> p, edge |-> lits[1]]
      [] OTHER ->
           LET made == MakeNode(p, "PRODUCT", [i \in DOMAIN lits |-> -lits[i]])
           IN  [pog |-> made.pog, edge |-> -made.edge]

\* The product of independent clauses, given as a sequence of sequences.
simple_kc(p, chunks) ==
    LET upto[k \in 0 .. Len(chunks)] ==
          IF k = 0 THEN [pog |-> p, edges |-> << >>]
          ELSE LET before == upto[k - 1]
                   d      == build_disjunction(before.pog, chunks[k])
               IN  [pog |-> d.pog, edges |-> Append(before.edges, d.edge)]
        all == upto[Len(chunks)]
    IN  CASE Len(all.edges) = 0 -> [pog |-> p, edge |-> TAUTOLOGY]
          [] Len(all.edges) = 1 -> [pog |-> all.pog, edge |-> all.edges[1]]
          [] OTHER -> MakeNode(all.pog, "PRODUCT", all.edges)

-----------------------------------------------------------------------------
(* The variable a sum decides on *)

ArgumentLits(p, edge) == IF is_node(edge) THEN NodeOf(p, edge).args ELSE << edge >>

\* The first literal of the first argument that the second has negated; 0
\* stands for the fatal error.  The code gives a second argument that is a
\* literal a length of two and reads past it: EdgesAsExpected in Traverse
\* says that there is none.
get_decision_variable(p, edge) ==
    LET lits(i) == ArgumentLits(p, NodeOf(p, edge).args[i])
        found   == { k \in DOMAIN lits(1) : -lits(1)[k] \in ToSet(lits(2)) }
    IN  IF found = {} THEN 0 ELSE IABS(lits(1)[CHOOSE k \in found : \A j \in found : k <= j])

-----------------------------------------------------------------------------
(* Parts of a graph *)

Children(p, id) == { IABS(e) : e \in ToSet(NodeOf(p, id).args) }

\* visit: the nodes reachable from some edges.  Arguments are older than
\* their node, so one pass from the newest node down finds them all.
Reachable(p, edges) ==
    LET n == Len(p.nodes)
        found[k \in 0 .. n] ==
          IF k = 0 THEN { IABS(e) : e \in { x \in edges : is_node(x) } }
          ELSE LET before == found[k - 1]
                   id     == NInput + n + 1 - k
               IN  IF id \in before
                     THEN before \cup { c \in Children(p, id) : is_node(c) }
                     ELSE before
    IN  found[n]

\* get_subgraph: the reachable nodes are renumbered in ascending order.
NodeRemap(p, edges) ==
    LET nodes == Reachable(p, edges)
    IN  [id \in nodes |-> NInput + Cardinality({ x \in nodes : x <= id })]

-----------------------------------------------------------------------------
(* Counting *)

\* Faulty variant: negation is forgotten.
WeightIgnoresSign(weights, unit, edge) ==
    LET v == IABS(edge)
    IN  CASE v = TAUTOLOGY -> unit
          [] is_node(edge) -> weights[v - NInput]
          [] OTHER -> unit \div 2

\* The weight of an edge, given those of the nodes: unit stands for 1.
edge_weight(weights, unit, edge) ==
    LET v   == IABS(edge)
        pos == CASE v = TAUTOLOGY -> unit
                 [] is_node(edge) -> weights[v - NInput]
                 [] OTHER -> unit \div 2
    IN  IF edge > 0 THEN pos ELSE unit - pos

\* The value of a node: the weights of its arguments, added or multiplied.
node_value(weights, unit, node) ==
    LET upto[k \in 0 .. Len(node.args)] ==
          IF k = 0 THEN (IF node.type = "SUM" THEN 0 ELSE unit)
          ELSE LET weight == edge_weight(weights, unit, node.args[k])
               IN  IF node.type = "SUM" THEN upto[k - 1] + weight
                   ELSE (upto[k - 1] * weight) \div unit
    IN  upto[Len(node.args)]

\* eweights, oldest node first.
node_weights(p, unit) ==
    LET upto[k \in 0 .. Len(p.nodes)] ==
          IF k = 0 THEN << >>
          ELSE LET older == upto[k - 1] IN Append(older, node_value(older, unit, p.nodes[k]))
    IN  upto[Len(p.nodes)]

\* ring_evaluate as an unweighted count uses it: every literal weighs one half,
\* sums are added, products multiplied, and the result is scaled by the number
\* of assignments to the data variables.  The unit is one assignment, so that
\* all weights are integers as long as the arguments of products share no
\* variable (Countable).
ring_evaluate(p, edge) ==
    LET unit == 2 ^ Cardinality(p.data_variables)
    IN  edge_weight(node_weights(p, unit), unit, edge)

-----------------------------------------------------------------------------
(* What a graph represents, and what makes it countable. *)

Assignments == SUBSET InputVariables

\* All variables outside V are quantified existentially.
Shadow(f, V) ==
    LET seen == { b \cap V : b \in f }
    IN  { a \in Assignments : a \cap V \in seen }

\* The models of an edge, given those of the nodes (a sequence).
EdgeModels(models, edge) ==
    LET all == Assignments
        v   == IABS(edge)
        pos == CASE v = TAUTOLOGY -> all
                 [] v > NInput /\ v # TAUTOLOGY -> models[v - NInput]
                 [] OTHER -> { a \in all : v \in a }
    IN  IF edge > 0 THEN pos ELSE all \ pos

NodeModels(models, node) ==
    IF node.type = "SUM"
      THEN { a \in Assignments :
               \E e \in ToSet(node.args) : a \in EdgeModels(models, e) }
      ELSE { a \in Assignments :
               \A e \in ToSet(node.args) : a \in EdgeModels(models, e) }

\* The models of every node, oldest first.
AllModels(p) ==
    LET upto[k \in 0 .. Len(p.nodes)] ==
          IF k = 0 THEN << >>
          ELSE LET older == upto[k - 1] IN Append(older, NodeModels(older, p.nodes[k]))
    IN  upto[Len(p.nodes)]

\* The input variables below every node, oldest first.
EdgeSupport(supports, edge) ==
    CASE is_node(edge) -> supports[IABS(edge) - NInput]
      [] OTHER -> {IABS(edge)}

NodeSupport(supports, node) ==
    { v \in InputVariables : \E e \in ToSet(node.args) : v \in EdgeSupport(supports, e) }

AllSupports(p) ==
    LET upto[k \in 0 .. Len(p.nodes)] ==
          IF k = 0 THEN << >>
          ELSE LET older == upto[k - 1] IN Append(older, NodeSupport(older, p.nodes[k]))
    IN  upto[Len(p.nodes)]

\* The two rules of the representation: the arguments of a sum have no common
\* model and those of a product no common variable.  Weighted counts are
\* computed by adding and multiplying, which is right only if both hold.
Countable(p) ==
    LET models   == AllModels(p)
        supports == AllSupports(p)
    IN  \A id \in DOMAIN p.nodes :
          \A i, j \in DOMAIN p.nodes[id].args : i < j =>
             IF p.nodes[id].type = "SUM"
               THEN EdgeModels(models, p.nodes[id].args[i])
                      \cap EdgeModels(models, p.nodes[id].args[j]) = {}
               ELSE EdgeSupport(supports, p.nodes[id].args[i])
                      \cap EdgeSupport(supports, p.nodes[id].args[j]) = {}

\* The constants, literals and nodes of a graph, and their negations.
IsEdge(p, e) ==
    /\ e \in Int
    /\ IABS(e) \in 1 .. (NInput + Len(p.nodes)) \cup {TAUTOLOGY}

\* Node IDs are ints of the program, and none of them is TAUTOLOGY.
Fits(p) == NInput + Len(p.nodes) < TAUTOLOGY

\* Arguments are literals or older nodes, and the flags tell what is below.
WellFormed(p) ==
    /\ p \in [nodes : Seq(Node), data_variables : SUBSET InputVariables]
    /\ Fits(p)
    /\ \A i \in DOMAIN p.nodes :
         LET node     == p.nodes[i]
             supports == AllSupports(p)
         IN  /\ \A e \in ToSet(node.args) : IABS(e) \in 1 .. NInput + i - 1
             /\ node.data_only = (supports[i] \subseteq p.data_variables)
             /\ node.projection_only = (supports[i] \cap p.data_variables = {})

\* Nodes are in normal form: older arguments, at least two of them, ordered by
\* variable, no constant, no product directly inside a product, flags that
\* tell what is below, and no node twice: equal edges are the same edge.
Canonical(p) ==
    LET supports == AllSupports(p) IN
    \A i \in DOMAIN p.nodes :
      LET node == p.nodes[i] IN
      /\ Len(node.args) >= 2
      /\ \A k \in DOMAIN node.args :
           /\ IABS(node.args[k]) < NInput + i
           /\ k > 1 => IABS(node.args[k - 1]) <= IABS(node.args[k])
           /\ node.type = "PRODUCT" /\ node.args[k] > 0 /\ is_node(node.args[k]) =>
                NodeOf(p, node.args[k]).type = "SUM"
      /\ node.data_only = (supports[i] \subseteq p.data_variables)
      /\ node.projection_only = (supports[i] \cap p.data_variables = {})
      /\ \A j \in DOMAIN p.nodes :
           p.nodes[j].type = node.type /\ p.nodes[j].args = node.args => i = j
=============================================================================

------------------------------ MODULE Counting ------------------------------
(***************************************************************************)
(* The weighted count of a graph: Pog::ring_evaluate over the rational     *)
(* numbers of q25.c, those of the form a * 2^b * 5^c.  They are exactly    *)
(* the finite decimals, and appear here as num / 10^ten in lowest terms;   *)
(* module Q25 shows that the functions of q25.c compute with them exactly. *)
(***************************************************************************)
EXTENDS Pog

CONSTANT MaxTen         \* bounds the decimal places of a reciprocal

\* num / 10^ten without zeros at the end.
reduced[n \in Int, t \in Nat] ==
    IF n = 0 THEN [num |-> 0, ten |-> 0]
    ELSE IF t > 0 /\ n % 10 = 0 THEN reduced[n \div 10, t - 1]
    ELSE [num |-> n, ten |-> t]

q25_from_32(n) == [num |-> n, ten |-> 0]

q25_add(x, y) ==
    LET t == IF x.ten > y.ten THEN x.ten ELSE y.ten
    IN  reduced[x.num * 10 ^ (t - x.ten) + y.num * 10 ^ (t - y.ten), t]

q25_mul(x, y) == reduced[x.num * y.num, x.ten + y.ten]

q25_negate(x) == [x EXCEPT !.num = -@]

q25_one_minus(x) == q25_add(q25_from_32(1), q25_negate(x))

q25_is_one(x) == x = q25_from_32(1)

\* The powers of ten that a number divides.
Multiples(x) == { k \in 0 .. MaxTen : x.num # 0 /\ 10 ^ k % IABS(x.num) = 0 }

\* A number without other prime factors than 2 and 5 has a reciprocal; it has
\* the sign of the number because that is the last one q25.c has built.
HasReciprocal(x) == Multiples(x) # {}

q25_recip(x) ==
    LET k == CHOOSE i \in Multiples(x) : TRUE
        s == IF x.num < 0 THEN -1 ELSE 1
    IN  reduced[s * (10 ^ k \div IABS(x.num)) * 10 ^ x.ten, k]

-----------------------------------------------------------------------------

\* The value of node id, given weights for its arguments.
NodeValue(p, eweights, id) ==
    LET args == NodeOf(p, id).args
    IN  IF NodeOf(p, id).type = "SUM"
          THEN FoldLeft(LAMBDA val, e : q25_add(val, eweights[e]), q25_from_32(0), args)
          ELSE FoldLeft(LAMBDA val, e : q25_mul(val, eweights[e]), q25_from_32(1), args)

\* eweights after the nodes below an edge have been visited in ascending order.
\* A node with an argument that has no weight ends the evaluation.
EdgeWeights(p, edge, weights) ==
    LET ids == Ascending(Reachable(p, {edge}))
        after[k \in 0 .. Len(ids)] ==
          IF k = 0 THEN weights
          ELSE LET w == after[k - 1]
               IN  IF ToSet(NodeOf(p, ids[k]).args) \subseteq DOMAIN w
                     THEN LET val == NodeValue(p, w, ids[k])
                          IN  (ids[k] :> val) @@ (-ids[k] :> q25_one_minus(val)) @@ w
                     ELSE w
    IN  after[Len(ids)]

\* ring_evaluate: weights give every literal of the data variables a weight, and
\* those of a variable sum to one.  Zero stands for an edge without a weight.
weighted_evaluate(p, edge, weights) ==
    LET eweights == EdgeWeights(p, edge, weights)
    IN  CASE edge = TAUTOLOGY -> q25_from_32(1)
          [] edge = CONFLICT  -> q25_from_32(0)
          [] IABS(edge) # TAUTOLOGY /\ edge \in DOMAIN eweights -> eweights[edge]
          [] OTHER -> q25_from_32(0)
=============================================================================

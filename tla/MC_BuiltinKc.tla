---------------------------- MODULE MC_BuiltinKc ----------------------------
(* Four input variables; a library of functions built from decisions. *)
EXTENDS BuiltinKc

P(args) == [type |-> "PRODUCT", args |-> args]
S(args) == [type |-> "SUM", args |-> args]

\* Nodes 5 to 21: if-then-else (7), equality (10), parity (13, 16), decisions
\* over shared and negated parts (16, 20), cubes and negated clauses.
Decisions ==
    << P(<<1, 2>>), P(<<-1, 3>>), S(<<5, 6>>),
       P(<<3, 4>>), P(<<-3, -4>>), S(<<8, 9>>),
       P(<<1, 10>>), P(<<-1, -10>>), S(<<11, 12>>),
       P(<<2, 13>>), P(<<-2, -13>>), S(<<14, 15>>),
       P(<<-2, -3, -4>>), P(<<1, -17>>), P(<<-1, 2, 10>>), S(<<18, 19>>),
       P(<<1, 4>>) >>

Edges == { s * v : s \in {-1, 1}, v \in 1 .. 21 }

\* The pairs traverse_sum would clausify: two different edges that do not sum
\* to a tautology, here over a subgraph of at most seven nodes.
Pairs ==
    LET p      == BuildLibrary
        models == AllModels(p)
    IN  { r \in Edges \X Edges :
            /\ IABS(r[1]) < IABS(r[2])
            /\ Cardinality(Reachable(p, {r[1], r[2]})) \in 1 .. 7
            /\ EdgeModels(models, r[1]) \cup EdgeModels(models, r[2])
                 # SUBSET InputVariables }

\* A larger library: nodes 13 and 14 are negated and clausified over node 8,
\* parity of 1 and 2, on which builtin_kc splits first.
LostLibrary ==
    << P(<<3, 4>>), P(<<1, -2>>), P(<<-1, 2>>), S(<<6, 7>>),
       P(<<8, -3>>), P(<<8, 3, -4>>), P(<<8, 3>>), P(<<-8, -5>>),
       S(<<11, 12>>), S(<<9, 10>>) >>

LostPairs == { <<-13, -14>> }
=============================================================================

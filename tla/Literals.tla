------------------------------ MODULE Literals ------------------------------
(***************************************************************************)
(* Variables, literals, clauses and what they mean.                        *)
(*                                                                         *)
(* A variable is a positive number, a literal a variable or its negation   *)
(* (the DIMACS convention the code uses throughout), a clause a sequence   *)
(* of literals: the code stores clauses as they are read, with duplicated  *)
(* and with complementary literals, and several of its loops depend on it. *)
(*                                                                         *)
(* The second half defines the meaning the algorithms must preserve: the   *)
(* projection of a set of clauses onto the data variables.  It is the      *)
(* reference the models are checked against and stands for no code.        *)
(***************************************************************************)
EXTENDS Integers, Sequences, FiniteSets, SequencesExt

CONSTANT NVar           \* the number of variables of a formula (nvar)

ASSUME NVarAssumption == NVar \in Nat

Variables == 1 .. NVar

Literal == Variables \cup { -v : v \in Variables }

\* TAUTOLOGY and CONFLICT are INT_MAX and -INT_MAX in the code: two edges and
\* propagation results that no literal and no node can be confused with.
TAUTOLOGY == 2147483647
CONFLICT  == -TAUTOLOGY

\* Literals are ints of the program, and neither of the two is one.
ASSUME SentinelAssumption == NVar < TAUTOLOGY

IABS(x) == IF x < 0 THEN -x ELSE x

\* The elements of a set in ascending order of a key that tells them apart.
SortBy(S, key(_)) ==
    [i \in 1 .. Cardinality(S) |->
        CHOOSE x \in S : Cardinality({ y \in S : key(y) < key(x) }) = i - 1]

\* std::sort with abs_less: literals in ascending order of their variables.
SortByVariable(lits) == SortBy(lits, IABS)

\* The order in which a std::set<int> is traversed.
Ascending(S) == SortBy(S, LAMBDA x : x)

\* Sequences of one length compared at the first place where they differ.
LexLess(p, q) ==
    \E i \in DOMAIN p : p[i] < q[i] /\ \A j \in 1 .. i - 1 : p[j] = q[j]

\* Sequences of one length, in the order in which nested loops over their
\* components meet them.
Lexicographic(S) ==
    [i \in 1 .. Cardinality(S) |->
        CHOOSE p \in S : Cardinality({ q \in S : LexLess(q, p) }) = i - 1]

-----------------------------------------------------------------------------
(* An assignment is the set of the variables it makes true. *)

Holds(a, lit) == IF lit > 0 THEN lit \in a ELSE -lit \notin a

\* lits is any set of literals, read as their disjunction.
HoldsClause(a, lits) == \E lit \in lits : Holds(a, lit)

\* The assignments to V that satisfy every disjunction of a set of sets.
Models(V, clauses) ==
    { a \in SUBSET V : \A lits \in clauses : HoldsClause(a, lits) }

\* Existential quantification of everything that is not a data variable.
Projection(V, data, clauses) == { a \cap data : a \in Models(V, clauses) }

\* The value of variable v is a function of the values of the data variables.
Determined(V, data, clauses, v) ==
    \A a, b \in Models(V, clauses) :
        a \cap data = b \cap data => (v \in a <=> v \in b)
=============================================================================

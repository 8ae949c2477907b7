--------------------------- MODULE MC_Preprocess ---------------------------
(* Small formulas for Preprocess.  Variables 1 and 2 are data variables, the *)
(* others are projected.                                                     *)
EXTENDS Preprocess

Data == {1, 2}

\* All formulas of up to k clauses of a pool, each in one order.
FormulasUpTo(pool, k) ==
    { SetToSeq(S) : S \in UNION { kSubset(i, pool) : i \in 1 .. k } }

\* Clauses over two data and two projection variables.
Pool == { <<3, 1>>, <<-3, 1>>, <<3, -2, 4>>, <<-3, 4>>, <<3, -4>>, <<-3, -1, 2>>,
          <<4, 2>>, <<-4, -2>>, <<-4, 1, 3>>, <<-1, 2>>, <<3>>, <<4, -1, -2>> }

\* The same with repeated literals, and with complementary literals of data
\* variables.
OddPool == { <<1, -1, 3>>, <<3, 3, 1>>, <<-3, 4, 4>>, <<1, 1>>, <<3, 3, 4, 4>>,
             <<-4, -1>>, <<-4, 2, -2, -3>>, <<-4, -4>>, <<-3, 4>>,
             <<-3, 2, 2, -3>>, <<4, 1, -3>>, <<-1, 4, 3>> }

Formulas == FormulasUpTo(Pool, 5) \cup FormulasUpTo(OddPool, 5)

\* Gates, partial definitions and constraints over the data variables and the
\* projection variables 3, 4 and 5.
Parts == { << <<-3, 1, 2>>, <<-3, -1, -2>>, <<3, -1, 2>>, <<3, 1, -2>> >>,
           << <<-4, 3, 1>>, <<-4, -3, -1>>, <<4, -3, 1>>, <<4, 3, -1>> >>,
           << <<-4, 1>>, <<-4, 2>>, <<4, -1, -2>> >>,
           << <<-5, 3>>, <<-5, 4>>, <<5, -3, -4>> >>,
           << <<3, 1>>, <<3, 2>>, <<-3, 4>>, <<-3, 5>> >>,
           << <<5, 3>>, <<5, -4>>, <<-5, -3, 4>> >>,
           << <<4, -1>>, <<4, -2>>, <<-4, 5, 1>>, <<-4, 5, 2>> >>,
           << <<3, 4, 5>>, <<-3, -4, -5>> >>,
           << <<5, 1>>, <<5, 2>>, <<-5, -1>>, <<-5, 3, 4>> >>,
           << <<1>> >>,
           << <<-3, -5>>, <<5>> >>,
           << <<-2, 3>>, <<-2, 5>> >> }

\* Formulas put together from up to three parts.
Gates == { FlattenSeq(SetToSeq(S)) : S \in UNION { kSubset(i, Parts) : i \in 1 .. 3 } }

\* A clause with both literals of a projection variable.
Tautologies == FormulasUpTo(OddPool \cup { <<3, -3, 1>>, <<4, -4>> }, 3)
=============================================================================

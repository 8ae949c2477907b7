----------------------------- MODULE MC_Glucose -----------------------------
(* Formulas over four variables that cannot be satisfied, or nearly.           *)
EXTENDS Glucose

\* Together these have no model; without one of them, a few.
Core == << <<1, 2, 3>>, <<1, 2, -3>>, <<1, -2, 4>>, <<1, -4, -2>>,
           <<3, -1, 4>>, <<-1, 3, -4>>, <<2, -1, -3>>, <<-1, -3, -2, 4>>, <<-1, -3, -2, -4>> >>

\* A long clause with a repeated literal and a binary clause.
Binary == << <<-4, -3, 2, 2>>, <<-4, 3>> >>

\* A unit and a clause with complementary literals.
Unit == << <<-3>>, <<4, 2, -4>> >>

Without(clauses, clause) == SelectSeq(clauses, LAMBDA c : c # clause)

\* Refuted while clauses are added: by propagating the last one, and by a clause
\* of which nothing is left.
Early == { << <<-1, 2, 3>>, <<-1, 2, -3>>, <<-2>>, <<1>>, <<3, 4>> >>,
           << <<-1, 2>>, <<1>>, <<-2, -1>>, <<3, 4>> >> }

MCFormulas ==
    Early \cup { Core, Without(Core, <<1, -2, 4>>), Without(Core, <<3, -1, 4>>), Binary \o Core,
                Binary \o Without(Core, <<1, 2, 3>>), Unit \o Without(Core, <<3, -1, 4>>) }
=============================================================================

------------------------------- MODULE MC_Q25 -------------------------------
(* Words of two digits: numbers of one, two and three words occur. *)
EXTENDS Q25

MCIntegers == {-1000, -101, -7, -1, 0, 2, 13, 99, 203}

MCScales == {-1, 0, 2}

MCOperands == {-101, 0, 99}

MCTexts ==
    { Text(negative, before, after, 0, broken) :
        negative \in BOOLEAN,
        before   \in { << >>, << 0 >>, << 3 >>, << 1, 0 >>, << 0, 0, 2 >>, << 1, 2, 8 >> },
        after    \in { << >>, << 5 >>, << 0, 0 >>, << 0, 6, 2 >> },
        broken   \in BOOLEAN }
    \cup { Text(FALSE, << 4 >>, << 2, 5 >>, e, FALSE) : e \in {-1, 0, 2} }
=============================================================================

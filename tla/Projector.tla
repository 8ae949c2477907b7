------------------------------ MODULE Projector ------------------------------
(***************************************************************************)
(* What the projecting traversal promises, without graphs: functions are   *)
(* sets of assignments (sets of the variables that are true), and the      *)
(* projection of a function onto the data variables is asked for.  On the  *)
(* way to the answer projections of other functions are found and kept;    *)
(* whatever is kept is right and is kept for good, and the answer is given *)
(* once.                                                                   *)
(***************************************************************************)

CONSTANTS Vars,         \* all variables
          NoAnswer      \* not a set of assignments

VARIABLES data,         \* the data variables
          goal,         \* the function whose projection is asked for
          known,        \* pairs of a function and its projection
          answer        \* the projection of goal, when it has been found

vars == << data, goal, known, answer >>

\* Existential quantification of the variables that are not in data.
Project(f) == { a \in SUBSET Vars : \E b \in f : a \cap data = b \cap data }

Init ==
    /\ known = {}
    /\ answer = NoAnswer

\* More is known.
Learn ==
    /\ answer = NoAnswer
    /\ known \subseteq known'
    /\ \A pair \in known' \ known : pair[2] = Project(pair[1])
    /\ UNCHANGED << data, goal, answer >>

\* The answer is given.  What has been found last may be kept as well.
Answer ==
    /\ answer = NoAnswer
    /\ answer' = Project(goal)
    /\ known \subseteq known'
    /\ \A pair \in known' \ known : pair[2] = Project(pair[1])
    /\ UNCHANGED << data, goal >>

Next == Learn \/ Answer

Spec == Init /\ [][Next]_vars
=============================================================================

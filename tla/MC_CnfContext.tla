--------------------------- MODULE MC_CnfContext ---------------------------
(* Two variables and two clauses, one with a duplicated literal. *)
EXTENDS CnfContext

TwoClauses == << <<1, -2>>, <<-1, -1, 2>> >>
=============================================================================

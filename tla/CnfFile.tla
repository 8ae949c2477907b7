------------------------------ MODULE CnfFile ------------------------------
(***************************************************************************)
(* Cnf::import_file: reading a formula, its data variables and its weights *)
(* from a file in the format of the model counting competitions.           *)
(*                                                                         *)
(* A file is a sequence of tokens, of which the end of a line is one.      *)
(* Tokens are words or numbers; a number is a decimal, num / 10^ten, and   *)
(* what a number of more digits than a machine word would do is left out.  *)
(* A position is an index into the file; one past the end is EOF.          *)
(***************************************************************************)
EXTENDS Integers, Sequences, SequencesExt, FiniteSetsExt, TLC

Token == [word : {"c", "p", "cnf", "show", "weight", "text", "newline", "number"},
          num : Int, ten : Nat]

Word(w)       == [word |-> w, num |-> 0, ten |-> 0]
Number(n)     == [word |-> "number", num |-> n, ten |-> 0]
Decimal(n, t) == [word |-> "number", num |-> n, ten |-> t]

EndOfFile(f) == Len(f) + 1

WordAt(f, i) == IF i > Len(f) THEN "eof" ELSE f[i].word

IsNumber(f, i) == WordAt(f, i) = "number"
IsZero(f, i)   == IsNumber(f, i) /\ f[i].num = 0

\* The first position from i on that has a property, or the end of the file.
First(f, i, test(_)) == Min({ j \in i .. Len(f) : test(j) } \cup {EndOfFile(f)})

\* skip_line: the position after the end of the line.
skip_line(f, i) ==
    LET j == First(f, i, LAMBDA k : WordAt(f, k) = "newline")
    IN  IF j = EndOfFile(f) THEN j ELSE j + 1

\* find_token: spaces are skipped, and ends of lines with them.
find_token(f, i) == First(f, i, LAMBDA k : WordAt(f, k) # "newline")

-----------------------------------------------------------------------------
(* Comments *)

\* The parts of a file: the lines up to the header, the clauses, what follows.
ReaderParts == {"header", "clauses", "rest", "read", "failed"}

\* What is read from a file, and how far.
Reading ==
    [at |-> 1, part |-> "header", nvar |-> 0, expectedNclause |-> 0,
     clauses |-> << >>, data_variables |-> {}, input_weights |-> << >>]

\* Numbers up to a zero: "c p show".
ShownVariables(f, r, i) ==
    LET stop == First(f, i, LAMBDA k : WordAt(f, k) # "newline" /\ (~IsNumber(f, k) \/ IsZero(f, k)))
        vars == { f[k].num : k \in { k \in i .. stop - 1 : IsNumber(f, k) } }
    IN  [r EXCEPT !.data_variables = @ \cup vars,
                  !.at             = skip_line(f, IF IsZero(f, stop) THEN stop + 1 ELSE stop)]

\* A literal and its weight: "c p weight".  The zero at the end is looked for
\* on the following lines, too, if it is missing.
DeclaredWeight(f, r, i) ==
    LET l == find_token(f, i)
        w == find_token(f, l + 1)
        z == find_token(f, w + 1)
    IN  CASE ~IsNumber(f, l) -> [r EXCEPT !.at = skip_line(f, l)]
          [] IsNumber(f, l) /\ ~IsNumber(f, w) -> [r EXCEPT !.at = skip_line(f, w)]
          [] OTHER ->
               [r EXCEPT !.input_weights = (f[l].num :> [num |-> f[w].num, ten |-> f[w].ten]) @@ @,
                         !.at            = skip_line(f, IF IsNumber(f, z) THEN z + 1 ELSE z)]

\* process_comment, from the position after the c: its words are looked for
\* beyond the end of the line, so a comment without text takes the next line
\* with it.
process_comment(f, r, i) ==
    LET j == find_token(f, i)
        k == find_token(f, j + 1)
    IN  CASE WordAt(f, j) = "p" /\ WordAt(f, k) = "show"   -> ShownVariables(f, r, k + 1)
          [] WordAt(f, j) = "p" /\ WordAt(f, k) = "weight" -> DeclaredWeight(f, r, k + 1)
          [] WordAt(f, j) = "p" /\ WordAt(f, k) \notin {"show", "weight"} ->
               [r EXCEPT !.at = skip_line(f, k + 1)]
          [] OTHER -> [r EXCEPT !.at = skip_line(f, j + 1)]

-----------------------------------------------------------------------------
(* import_file, one comment, clause or other token at a time *)

Failed(r) == [r EXCEPT !.part = "failed"]

\* initialize, called when the header is read, creates the sets anew: what
\* comments before it declare is lost.
ReadHeader(f, r) ==
    LET k == find_token(f, r.at + 1)
        n == find_token(f, k + 1)
        m == find_token(f, n + 1)
    IN  IF WordAt(f, k) = "cnf" /\ IsNumber(f, n) /\ IsNumber(f, m)
          THEN [Reading EXCEPT !.at = skip_line(f, m + 1), !.part = "clauses",
                               !.nvar = f[n].num, !.expectedNclause = f[m].num]
          ELSE Failed(r)

BeforeHeader(f, r) ==
    CASE WordAt(f, r.at) = "eof" -> Failed(r)
      [] WordAt(f, r.at) = "p"   -> ReadHeader(f, r)
      [] WordAt(f, r.at) = "c"   -> process_comment(f, r, r.at + 1)
      [] OTHER                   -> [r EXCEPT !.at = @ + 1]

\* The literals from j to a zero, on any number of lines.
ReadClause(f, r, j) ==
    LET stop == First(f, j, LAMBDA k : WordAt(f, k) # "newline" /\ (~IsNumber(f, k) \/ IsZero(f, k)))
        lits == SelectSeq(SubSeq(f, j, stop - 1), LAMBDA t : t.word = "number")
    IN  IF IsZero(f, stop)
          THEN [r EXCEPT !.clauses = Append(@, [k \in DOMAIN lits |-> lits[k].num]), !.at = stop + 1]
          ELSE Failed(r)

\* Between two clauses.
BeforeClause(f, r) ==
    LET j == find_token(f, r.at)
    IN  CASE Len(r.clauses) = r.expectedNclause -> [r EXCEPT !.part = "rest"]
          [] Len(r.clauses) # r.expectedNclause /\ WordAt(f, j) = "c" -> process_comment(f, r, j + 1)
          [] OTHER -> ReadClause(f, r, j)

\* All variables are data variables unless some are declared; literals and data
\* variables beyond nvar end the program.
Imported(r) ==
    LET inputs == 1 .. r.nvar
        data   == IF r.data_variables = {} THEN inputs ELSE r.data_variables
        lits   == UNION { ToSet(c) : c \in ToSet(r.clauses) }
    IN  IF data \cup { IF lit < 0 THEN -lit ELSE lit : lit \in lits } \subseteq inputs
          THEN [r EXCEPT !.part = "read", !.data_variables = data]
          ELSE Failed(r)

\* Only comments matter after the last clause.
AfterClauses(f, r) ==
    CASE WordAt(f, r.at) = "eof" -> Imported(r)
      [] WordAt(f, r.at) = "c"   -> process_comment(f, r, r.at + 1)
      [] OTHER                   -> [r EXCEPT !.at = @ + 1]
=============================================================================

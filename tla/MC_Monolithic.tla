--------------------------- MODULE MC_Monolithic ---------------------------
(* Small documents for Monolithic: formulas over four variables with data   *)
(* variables and weights, and the ways of writing them to a file.           *)
EXTENDS Monolithic

Newline == << Word("newline") >>
Numbers(s) == [i \in DOMAIN s |-> Number(s[i])]

HeaderLine(clauses)  == << Word("p"), Word("cnf"), Number(NInput), Number(Len(clauses)) >> \o Newline
ClauseLine(clause)   == Numbers(clause \o << 0 >>) \o Newline
ShowLine(data)       == << Word("c"), Word("p"), Word("show") >>
                          \o Numbers(Ascending(data) \o << 0 >>) \o Newline
WeightPart(lit, t)   == << Word("c"), Word("p"), Word("weight"), Number(lit),
                           IF t % 10 = 0 THEN Number(t \div 10) ELSE Decimal(t, 1) >>
WeightLine(lit, t)   == WeightPart(lit, t) \o << Number(0) >> \o Newline
TextLine             == << Word("c"), Word("text"), Number(7) >> \o Newline
EmptyComment         == << Word("c") >> \o Newline

WeightLines(tenths) ==
    LET lits == Ascending(DOMAIN tenths)
    IN  FlattenSeq([i \in DOMAIN lits |-> WeightLine(lits[i], tenths[lits[i]])])

ClauseLines(clauses) == FlattenSeq([i \in DOMAIN clauses |-> ClauseLine(clauses[i])])

\* The last line lacks its end.
Text(layout, clauses, data, tenths) ==
    LET h == HeaderLine(clauses)  s == ShowLine(data)  w == WeightLines(tenths)
        c == ClauseLines(clauses)
        c1 == ClauseLine(clauses[1])  cs == ClauseLines(Tail(clauses))
    IN  CASE layout = "first"   -> TextLine \o h \o s \o w \o c
          [] layout = "among"   -> h \o TextLine \o c1 \o s \o cs \o w
          [] layout = "last"    -> h \o Newline \o c \o w \o TextLine \o Front(s)
          [] layout = "before"  -> s \o h \o w \o c
          [] layout = "empty"   -> h \o w \o EmptyComment \o s \o c
          [] layout = "broken"  -> h \o c1 \o Newline \o s \o w
                                     \o FlattenSeq([i \in DOMAIN cs |-> IF i = 2 THEN Newline \o << cs[i] >> ELSE << cs[i] >>])
          [] layout = "nozero"  -> h \o WeightPart(1, 3) \o Newline \o s \o c
          [] layout = "cut"     -> h \o s \o c1
          [] layout = "noform"  -> << Word("p"), Word("text") >> \o Tail(Tail(h)) \o c

Document(layout, clauses, data, tenths) ==
    [file    |-> Text(layout, clauses, data, tenths),
     proper  |-> layout \in {"first", "among", "last", "broken"},
     clauses |-> clauses, data |-> data, tenths |-> tenths]

Plain    == << >>
Even     == (1 :> 5) @@ (-1 :> 5) @@ (2 :> 2) @@ (-2 :> 8)
Scaled   == (1 :> 20) @@ (-1 :> 30) @@ (2 :> 3)
OneSided == (-1 :> 4) @@ (3 :> 7)
Thirds   == (1 :> 10) @@ (-1 :> 20)
Negative == (1 :> -5) @@ (-1 :> 25) @@ (2 :> 0) @@ (-2 :> 1)

Pool == { <<3, 1>>, <<-3, 2>>, <<4, -1, -2>>, <<-4, 3, 1>>, <<-4, -3>>, <<2, 4>>, <<-1, 3, -4>>, <<-2, 1>> }

Drawn == { Document("first", SetToSeq(S), {1, 2}, Even) : S \in kSubset(3, Pool) }
           \cup { Document("among", SetToSeq(S), {1, 2, 3}, Scaled) : S \in kSubset(3, Pool) }

Handmade ==
    { Document("first", << <<3, 1>>, <<-3, 2>>, <<4, -1, -2>> >>, {1, 2}, Even),
      Document("among", << <<3, 1>>, <<-3, 2>>, <<-1, -2, 3>> >>, {1, 2}, Scaled),
      Document("last",  << <<-3, 1, 2>>, <<3, 4>>, <<-4, -1>>, <<-4, 2>> >>, {1, 2}, OneSided),
      Document("first", << <<1, 2>>, <<-2, 3>>, <<-4, -1, -3>>, <<4, 2, -3>> >>, {1, 2, 3}, OneSided),
      Document("among", << <<4, 1>>, <<4, 2>>, <<-4, 3>> >>, {1, 2, 3}, Plain),
      Document("last",  << <<4, 1>>, <<-4, -1>>, <<3>>, <<-3, 2, 4>> >>, {1, 2}, Negative),
      Document("first", << <<1>>, <<-1, 3>>, <<-3, -1>> >>, {1, 2}, Even),
      Document("first", << <<3, 4>>, <<-3, -4>> >>, {1, 2}, Thirds),
      Document("first", << <<3, 1>>, <<-1, 4>>, <<-2, -3, -4>> >>, {1, 2}, Scaled),
      Document("last",  << <<2>>, <<-2, 3>> >>, {1, 2}, Plain),
      Document("broken", << <<1, 4>>, <<-4, 2>>, <<-1, 3>> >>, {1, 2}, Scaled),
      Document("before", << <<3, 1>>, <<-3, 2>> >>, {1, 2}, Even),
      Document("empty",  << <<3, 1>>, <<-3, 2>> >>, {1, 2}, Even),
      Document("nozero", << <<3, 1>>, <<-3, 2>> >>, {1, 2}, Plain),
      Document("cut",    << <<3, 1>>, <<-3, 2>> >>, {1, 2}, Plain),
      Document("noform", << <<3, 1>>, <<-3, 2>> >>, {1, 2}, Plain) }

Files == Handmade \cup Drawn

UpAndDown == { [i \in 1 .. NVar |-> i], [i \in 1 .. NVar |-> NVar + 1 - i] }
=============================================================================

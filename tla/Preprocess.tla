----------------------------- MODULE Preprocess -----------------------------
(***************************************************************************)
(* Preprocessing of the input formula: the constructor of class Project,   *)
(* from the imported clauses to the formula given to the knowledge         *)
(* compiler.  Depending on the preprocessing level (option -P) and on the  *)
(* treatment of Tseitin variables (option -T) it runs                      *)
(*                                                                         *)
(*   bcp(true)             level >= 1                                      *)
(*   bve(true, 0 or 1)     level >= 2, maximum degree 1 from level 3       *)
(*   classify_variables    unless -T n                                     *)
(*   bve(true, level - 2)  level >= 4                                      *)
(*                                                                         *)
(* The loops of bcp and bve are those of module Reduce; classification,    *)
(* with the detection and the promotion of Tseitin variables, is here.     *)
(***************************************************************************)
EXTENDS Reduce

CONSTANTS DataVariables,    \* the variables of the "c p show" line
          Inputs,           \* the formulas: sequences of clauses
          Levels,           \* preprocessing levels (-P)
          TseitinModes      \* treatments of Tseitin variables (-T)

ASSUME PreprocessAssumption ==
    /\ DataVariables \subseteq Variables
    /\ Inputs \subseteq Seq(Seq(Literal))
    /\ Levels \subseteq Nat
    /\ TseitinModes \subseteq {"none", "detect", "promote"}

VARIABLES input,           \* the clauses of the input file
          preprocess_level,
          tseitin_mode,
          phase,           \* the call of the constructor that is running
          pvar_queue       \* classify_variables: the variables to test

vars == << cnf, clause_queue, bve, input, preprocess_level, tseitin_mode,
           phase, pvar_queue >>

options == << input, preprocess_level, tseitin_mode >>

Phases == {"bcp", "bve", "classify", "rebve", "compile"}

-----------------------------------------------------------------------------
(* The order of the calls *)

AfterClassify == IF preprocess_level >= 4 THEN "rebve" ELSE "compile"
AfterBve      == IF tseitin_mode # "none" THEN "classify" ELSE AfterClassify
AfterBcp      == IF preprocess_level >= 2 THEN "bve" ELSE AfterBve
AfterImport   == IF preprocess_level >= 1 THEN "bcp" ELSE AfterBve

\* The formula once imported: variables of the show line are data variables
\* whether or not they occur in a clause.
Import(clauses) ==
    LET s == AddClauses(EmptyCnf, clauses)
    IN  [s EXCEPT !.data_variables = DataVariables,
                  !.variable_type  = [v \in Variables |->
                      IF v \in DataVariables THEN "DATA" ELSE s.variable_type[v]]]

\* The projection variables in the order of their first occurrence, as the only
\* element of a set.
PvarQueues(s) ==
    LET waiting == { cid \in s.active_clauses : ~skip_clause(s, cid) }
        occurrences(var) ==
            UNION { { << cid, i >> : i \in { j \in FreePositions(s, cid) :
                                               IABS(s.clauses[cid][j]) = var } } :
                    cid \in waiting }
    IN  { q \in SetToSeqs(ProjectionVariables(s, waiting)) :
            \A i, j \in DOMAIN q : i < j =>
                \E first \in occurrences(q[i]) :
                    \A later \in occurrences(q[j]) : LexLess(first, later) }

\* Entering a call: its queue or its local variables are set up.
FirstMaxdegree == IF preprocess_level >= 3 THEN 1 ELSE 0

BveAtStart(s, next) ==
    CASE next = "bve"   -> BveScan(s, FirstMaxdegree)
      [] next = "rebve" -> BveScan(s, preprocess_level - 2)
      [] OTHER          -> NoBve

Begin(next) ==
    /\ phase' = next
    /\ cnf' = IF next = "classify" THEN [cnf EXCEPT !.tseitin_variables = {}] ELSE cnf
    /\ clause_queue' = NoQueue
    /\ bve' = BveAtStart(cnf, next)
    /\ pvar_queue' \in IF next = "classify" THEN PvarQueues(cnf) ELSE {NoQueue}
    /\ UNCHANGED options

Init ==
    /\ input \in Inputs
    /\ preprocess_level \in Levels
    /\ tseitin_mode \in TseitinModes
    /\ cnf = Import(input)
    /\ phase = AfterImport
    /\ clause_queue = IF AfterImport = "bcp" THEN QueueOf(cnf) ELSE NoQueue
    /\ bve = NoBve
    /\ pvar_queue \in IF AfterImport = "classify" THEN PvarQueues(cnf) ELSE {NoQueue}

-----------------------------------------------------------------------------
(* Detection and promotion of Tseitin variables *)

KnownVariables(s) == s.data_variables \cup s.tseitin_variables

\* Faulty variant: the other variables need not be known.
AnyClauses(s, lit) ==
    { cid \in s.literal_clauses[lit] : ~skip_clause(s, cid) }

\* The clauses of a literal that are otherwise over known variables.
DtClauses(s, lit) ==
    { cid \in s.literal_clauses[lit] :
        ~skip_clause(s, cid) /\ \A l \in FreeLits(s, cid) :
            IABS(l) = IABS(lit) \/ IABS(l) \in KnownVariables(s) }

OtherLits(s, lit) ==
    { l \in UNION { FreeLits(s, cid) : cid \in DtClauses(s, lit) } :
        IABS(l) # IABS(lit) }

\* Faulty variant: Tseitin variables are tested again.
FanoutKeepsTseitin(s, var) ==
    LET cids == { cid \in s.literal_clauses[var] \cup s.literal_clauses[-var] :
                    ~skip_clause(s, cid) }
    IN  { IABS(l) : l \in UNION { FreeLits(s, cid) : cid \in cids } }
          \ (s.data_variables \cup {var})

\* The unknown variables that share a clause with var.
FanoutVariables(s, var) ==
    LET cids == { cid \in s.literal_clauses[var] \cup s.literal_clauses[-var] :
                    ~skip_clause(s, cid) }
    IN  { IABS(l) : l \in UNION { FreeLits(s, cid) : cid \in cids } }
          \ (KnownVariables(s) \cup {var})

\* The SAT test of tseitin_variable_test, in a context of its own: no value
\* of the known variables leaves both values of var possible.
TestContext(s, var) ==
    uquantify_variable(
        push_active(new_context(s), DtClauses(s, -var) \cup DtClauses(s, var)), var)

IsTseitin(s, var) ==
    /\ DtClauses(s, -var) \cup DtClauses(s, var) # {}
    /\ ~Satisfiable(TestContext(s, var))

\* Faulty variant: clauses over unknown variables are overlooked.
PromoteOverlooks(s, lit) ==
    \A l \in OtherLits(s, lit) : -l \notin OtherLits(s, lit)

\* lit can be forced false whenever its clauses allow it: all of them are
\* over known variables, and no literal of theirs is another's complement.
CanPromote(s, lit) ==
    /\ DtClauses(s, lit) = s.literal_clauses[lit]
    /\ \A l \in OtherLits(s, lit) : -l \notin OtherLits(s, lit)

\* One blocked clause for every choice of one place from each clause of lit.
\* (The code also moves lit to the end of its clauses.)
BlockedClauses(s, lit) ==
    LET cids    == Ascending(DtClauses(s, lit))
        places(cid) == { i \in FreePositions(s, cid) : s.clauses[cid][i] # lit }
        choices == Lexicographic(
            { f \in [DOMAIN cids -> UNION { places(cid) : cid \in ToSet(cids) }] :
                \A i \in DOMAIN cids : f[i] \in places(cids[i]) })
    IN  [k \in DOMAIN choices |->
            << -lit >> \o [i \in DOMAIN cids |-> -s.clauses[cids[i]][choices[k][i]]]]

blocked_clause_expand(s, lit) ==
    set_variable_type(AddClauses(s, BlockedClauses(s, lit)), IABS(lit), "TSEITIN_PROMOTE")

\* The code tries the negative literal first.
PromotedLiteral(s, var) == IF CanPromote(s, -var) THEN -var ELSE var

\* A new Tseitin variable makes it worth testing its fanout again.
Accept(s, var) ==
    /\ cnf' = [s EXCEPT !.tseitin_variables = @ \cup {var}]
    /\ \E order \in SetToSeqs(FanoutVariables(cnf, var) \ ToSet(Tail(pvar_queue))) :
           pvar_queue' = Tail(pvar_queue) \o order

ClassifyPop ==
    /\ phase = "classify"
    /\ pvar_queue # << >>
    /\ UNCHANGED << clause_queue, bve, options, phase >>

ClassifyDetect ==
    /\ ClassifyPop
    /\ LET var == Head(pvar_queue)
           s   == IF cnf.variable_type[var] = "TSEITIN_PROMOTE" THEN cnf
                  ELSE set_variable_type(cnf, var, "TSEITIN_DETECT")
       IN  IsTseitin(cnf, var) /\ Accept(s, var)

ClassifyPromote ==
    /\ ClassifyPop
    /\ tseitin_mode = "promote"
    /\ LET var == Head(pvar_queue)
       IN  /\ ~IsTseitin(cnf, var)
           /\ CanPromote(cnf, -var) \/ CanPromote(cnf, var)
           /\ Accept(blocked_clause_expand(cnf, PromotedLiteral(cnf, var)), var)

ClassifyFail ==
    /\ ClassifyPop
    /\ LET var == Head(pvar_queue)
       IN  /\ ~IsTseitin(cnf, var)
           /\ tseitin_mode = "promote" =>
                ~CanPromote(cnf, -var) /\ ~CanPromote(cnf, var)
    /\ pvar_queue' = Tail(pvar_queue)
    /\ UNCHANGED cnf

-----------------------------------------------------------------------------
(* The constructor *)

Bcp ==
    /\ phase = "bcp"
    /\ BcpIteration(TRUE)
    /\ UNCHANGED << options, phase, pvar_queue >>

Bve ==
    /\ phase \in {"bve", "rebve"}
    /\ BveIteration(TRUE)
    /\ UNCHANGED << options, phase, pvar_queue >>

FinishBcp      == phase = "bcp"      /\ BcpDone              /\ Begin(AfterBcp)
FinishBve      == phase = "bve"      /\ BveDone              /\ Begin(AfterBve)
FinishClassify == phase = "classify" /\ pvar_queue = << >>   /\ Begin(AfterClassify)
FinishRebve    == phase = "rebve"    /\ BveDone              /\ Begin("compile")

\* The formula has been handed to the compiler.
Done == phase = "compile" /\ UNCHANGED vars

Next ==
    \/ Bcp \/ FinishBcp
    \/ Bve \/ FinishBve \/ FinishRebve
    \/ ClassifyDetect \/ ClassifyPromote \/ ClassifyFail \/ FinishClassify
    \/ Done

\* A sequential program: it takes a step whenever it can.  This is weak
\* fairness, WF_vars(Next), with ENABLED <<Next>>_vars written out: some step
\* is possible until the formula is compiled (deadlock is checked), and every
\* step but Done changes the state.
Running == []<>(phase = "compile") \/ []<><<Next>>_vars

Spec == Init /\ [][Next]_vars

FairSpec == Spec /\ Running

-----------------------------------------------------------------------------
(* What preprocessing must do *)

\* Type correctness of the object and of the loops' local variables.
TypeOK ==
    /\ ReduceTypeOK
    /\ input \in Seq(Seq(Literal))
    /\ preprocess_level \in Levels
    /\ tseitin_mode \in TseitinModes
    /\ phase \in Phases
    /\ pvar_queue \in Seq(Variables)

\* Whenever the formula could be written for the compiler, its projection on
\* the data variables is the input's: propagated units, pure literals,
\* resolvents and blocked clauses together lose and add no solution, and no
\* unit literal that write() leaves out still matters.
ProjectionPreserved ==
    Projection(Variables, DataVariables, WrittenClauses(cnf))
      = Projection(Variables, DataVariables, { ToSet(input[i]) : i \in DOMAIN input })

\* A variable reported as a Tseitin variable (original or promoted) and still
\* present in the formula is a function of the data variables, also after the
\* second elimination has replaced the clauses it was recognised from: sums
\* over it will be taken for mutually exclusive without a test.
TseitinDetermined ==
    \A v \in cnf.tseitin_variables \cap { IABS(lit) : lit \in UNION WrittenClauses(cnf) } :
        Determined(Variables, DataVariables, WrittenClauses(cnf), v)

\* The index by literals is exact for the active clauses: the degrees bve
\* works with, and the clauses bcp retires, are the real ones.
LiteralMapExact ==
    \A lit \in Literal :
        cnf.literal_clauses[lit] = { cid \in cnf.active_clauses : lit \in Lits(cnf, cid) }

\* The loop invariant of bcp: a clause that is satisfied, empty or unit is on
\* the queue, although a clause is queued at most once, is dropped if it is
\* inactive when its turn comes, and may change while it waits.  So when the
\* queue runs empty nothing is left to propagate.
QueueCoversUnsettled ==
    phase = "bcp" /\ ~cnf.has_conflict =>
        \A cid \in cnf.active_clauses :
            propagate_clause(cnf, cid) # 0 => cid \in ToSet(clause_queue)

\* A conflict stays visible in the clauses, which is all that write() shows of
\* it: some active clause has lost every literal.
ConflictWitness ==
    cnf.has_conflict => {} \in WrittenClauses(cnf)

\* No variable bve has eliminated, and none that bcp has set, occurs in the
\* formula that is written, except as the unit literal of a data variable.
EliminatedGone ==
    \A lit \in UNION { FreeLits(cnf, cid) : cid \in cnf.active_clauses } :
        cnf.variable_type[IABS(lit)] # "ELIM"

\* Preprocessing ends: bve although it puts variables back into its buckets,
\* classification although every success puts variables back on the queue.
Termination == <>(phase = "compile")

-----------------------------------------------------------------------------
(* The inductive invariant.  The structural part holds for every input; the *)
(* semantic part for inputs without a clause that holds a projection        *)
(* variable in both polarities (see the run on tautologies).                *)

Eliminated(s, var) == s.variable_type[var] = "ELIM"

\* Every unit literal has been propagated into the clauses that contain it,
\* whatever the phase: its variable is classified as eliminated at once.
UnitsSettled ==
    /\ cnf.uquantified_variables = {}
    /\ cnf.bcp_unit_literals = cnf.unit_literals
    /\ \A lit \in cnf.unit_literals :
           -lit \notin cnf.unit_literals /\ Eliminated(cnf, IABS(lit))

\* The variables that wait in the buckets of bve or for classification are
\* projection variables that can still be eliminated, or classified.
WaitingVariables ==
    /\ \A d \in DOMAIN bve.degree_variables :
           /\ bve.degree_variables[d] \cap DataVariables = {}
           /\ \A v \in bve.degree_variables[d] \ bve.eliminated_variables : ~Eliminated(cnf, v)
    /\ \A v \in ToSet(pvar_queue) : v \notin DataVariables /\ ~Eliminated(cnf, v)

\* What each phase leaves alone.
PhaseOK ==
    /\ phase \notin {"bve", "rebve"} => bve = NoBve
    /\ phase # "classify" => pvar_queue = NoQueue
    /\ phase = "rebve" => preprocess_level >= 4
    /\ cnf.data_variables = DataVariables
    /\ cnf.active_clauses \subseteq DOMAIN cnf.clauses
    /\ cnf.tseitin_variables \cap DataVariables = {}
    /\ phase = "classify" => \A v \in cnf.tseitin_variables : ~Eliminated(cnf, v)

\* A conflict leaves an active clause without literals.
EmptyClauseWitness ==
    cnf.has_conflict => \E cid \in cnf.active_clauses : FreeLits(cnf, cid) = {}

Structure ==
    /\ TypeOK
    /\ PhaseOK
    /\ LiteralMapExact
    /\ UnitsSettled
    /\ WaitingVariables
    /\ EliminatedGone
    /\ QueueCoversUnsettled
    /\ EmptyClauseWitness

\* The formula with all its unit literals, those of projection variables too.
FullClauses(s) ==
    BcpUnits(s) \cup { FreeLits(s, cid) : cid \in s.active_clauses }

\* No clause holds a projection variable in both polarities.
ProjectionPairFree(clause) ==
    \A lit \in ToSet(clause) : IABS(lit) \notin DataVariables => -lit \notin ToSet(clause)

PairFree == \A cid \in cnf.active_clauses : ProjectionPairFree(cnf.clauses[cid])

FullProjection ==
    Projection(Variables, DataVariables, FullClauses(cnf))
      = Projection(Variables, DataVariables, { ToSet(input[i]) : i \in DOMAIN input })

\* The clauses a variable was recognised from may be gone: that it is determined
\* is a property of the formula that has replaced them.
FullDetermined ==
    \A v \in cnf.tseitin_variables :
        ~Eliminated(cnf, v) => Determined(Variables, DataVariables, FullClauses(cnf), v)

Semantics == PairFree /\ FullProjection /\ FullDetermined

IInv == Structure /\ Semantics
=============================================================================

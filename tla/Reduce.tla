------------------------------- MODULE Reduce -------------------------------
(***************************************************************************)
(* The two loops of class Cnf that simplify the clauses: Boolean           *)
(* constraint propagation, bcp(), and bounded variable elimination, bve(). *)
(* One step is one iteration of a loop.  The modules that call the loops   *)
(* (Preprocess, BuiltinKc) extend this one, start them and continue when   *)
(* they end.                                                               *)
(*                                                                         *)
(* The loops run over unordered sets; where the order decides what happens *)
(* next (the clauses pushed on the queue, the variable taken from a        *)
(* bucket) it is a choice.  The order in which one iteration retires a     *)
(* batch of clauses, or numbers its resolvents, is fixed to ascending:     *)
(* it only permutes neighbouring records of the action stack, or names.    *)
(***************************************************************************)
EXTENDS Cnf

VARIABLES cnf,             \* the Cnf object the loops work on
          clause_queue,    \* bcp: unique_queue of clause IDs
          bve              \* bve: its local variables

ReduceTypeOK ==
    /\ cnf \in CnfType
    /\ clause_queue \in Seq(ClauseId)
    /\ bve \in [maxdegree            : Nat,
               degree_variables     : [0 .. bve.maxdegree -> SUBSET Variables],
               eliminated_variables : SUBSET Variables]

NoQueue == << >>
NoBve == [maxdegree |-> 0, degree_variables |-> [d \in {0} |-> {}],
          eliminated_variables |-> {}]

set_variable_type(s, var, type) == [s EXCEPT !.variable_type[var] = type]

-----------------------------------------------------------------------------
(* Boolean constraint propagation *)

\* unique_queue(active_clauses): the constructor pushes a set's elements.
QueueOf(s) == Ascending(s.active_clauses)

BcpDone == cnf.has_conflict \/ clause_queue = << >>

\* The next clause and what propagate_clause finds in it; a clause that was
\* deactivated while it waited is passed over like one that yields nothing.
NextValue ==
    LET cid == Head(clause_queue)
    IN  IF cid \in cnf.active_clauses THEN propagate_clause(cnf, cid) ELSE 0

BcpPop == ~BcpDone /\ UNCHANGED bve

BcpPass ==
    /\ BcpPop
    /\ NextValue = 0
    /\ clause_queue' = Tail(clause_queue)
    /\ UNCHANGED cnf

\* Faulty variant: the empty clause is retired like a satisfied one.
ConflictRetires ==
    /\ BcpPop
    /\ NextValue = CONFLICT
    /\ clause_queue' = Tail(clause_queue)
    /\ cnf' = deactivate_clause(trigger_conflict(cnf), Head(clause_queue))

BcpConflict ==
    /\ BcpPop
    /\ NextValue = CONFLICT
    /\ clause_queue' = Tail(clause_queue)
    /\ cnf' = trigger_conflict(cnf)

BcpSatisfied ==
    /\ BcpPop
    /\ NextValue = TAUTOLOGY
    /\ clause_queue' = Tail(clause_queue)
    /\ cnf' = deactivate_clause(cnf, Head(clause_queue))

\* A unit literal: its clauses retire, those of its complement are queued.
PropagateUnit(s, cid, lit, preprocess) ==
    LET typed    == IF preprocess THEN set_variable_type(s, IABS(lit), "ELIM") ELSE s
        assigned == deactivate_clause(assign_literal(typed, lit, TRUE), cid)
    IN  deactivate_clauses(assigned,
            Ascending(assigned.literal_clauses[lit] \cap assigned.active_clauses))

\* Faulty variant: the clauses of the literal itself are queued.
UnitQueuesSatisfied(preprocess) ==
    /\ BcpPop
    /\ NextValue \notin {0, CONFLICT, TAUTOLOGY}
    /\ cnf' = PropagateUnit(cnf, Head(clause_queue), NextValue, preprocess)
    /\ LET waiting == Tail(clause_queue)
           pushed  == (cnf.literal_clauses[NextValue] \cap cnf.active_clauses)
                        \ ToSet(waiting)
       IN  \E order \in SetToSeqs(pushed) : clause_queue' = waiting \o order

BcpUnit(preprocess) ==
    /\ BcpPop
    /\ NextValue \notin {0, CONFLICT, TAUTOLOGY}
    /\ cnf' = PropagateUnit(cnf, Head(clause_queue), NextValue, preprocess)
    /\ LET waiting == Tail(clause_queue)
           pushed  == (cnf'.literal_clauses[-NextValue] \cap cnf'.active_clauses)
                        \ ToSet(waiting)
       IN  \E order \in SetToSeqs(pushed) : clause_queue' = waiting \o order

BcpIteration(preprocess) ==
    BcpPass \/ BcpConflict \/ BcpSatisfied \/ BcpUnit(preprocess)

-----------------------------------------------------------------------------
(* Bounded variable elimination *)

Occurrences(s, lit) == Cardinality(s.literal_clauses[lit])

Degree(s, var) ==
    IF Occurrences(s, var) < Occurrences(s, -var)
      THEN Occurrences(s, var) ELSE Occurrences(s, -var)

\* The phase of var with fewer clauses.
RarerLiteral(s, var) ==
    IF Occurrences(s, var) <= Occurrences(s, -var) THEN var ELSE -var

\* Faulty variant: literals instead of variables.
ProjectionLiterals(s, cids) ==
    { lit \in UNION { FreeLits(s, cid) : cid \in cids } : IABS(lit) \notin s.data_variables }

\* The projection variables of the unassigned literals of some clauses.
ProjectionVariables(s, cids) ==
    { IABS(lit) : lit \in UNION { FreeLits(s, cid) : cid \in cids } }
      \ s.data_variables

\* Local variables of bve() once every projection variable is classified.
BveScan(s, maxdegree) ==
    [maxdegree            |-> maxdegree,
     degree_variables     |-> [d \in 0 .. maxdegree |->
         { v \in ProjectionVariables(s, s.active_clauses) : Degree(s, v) = d }],
     eliminated_variables |-> {}]

MaxAdded == bve.maxdegree * bve.maxdegree - 2 * bve.maxdegree

\* A variable may wait in several buckets, and in one its degree has left.
Eligible(d) ==
    { v \in bve.degree_variables[d] \ bve.eliminated_variables :
        Occurrences(cnf, v) = d \/ Occurrences(cnf, -v) = d }

EligibleDegrees == { d \in 0 .. bve.maxdegree : Eligible(d) # {} }

BveDone == EligibleDegrees = {}

\* Searching the buckets upward for var: buckets below d are emptied, and
\* bucket d loses var and the misclassified variables met before it.
TakeVariable(var, d, met) ==
    [e \in 0 .. bve.maxdegree |->
        IF e < d THEN {}
        ELSE bve.degree_variables[e] \ (IF e = d THEN met \cup {var} ELSE {})]

TooManyClauses(var) ==
    LET dpos == Occurrences(cnf, var)
        dneg == Occurrences(cnf, -var)
    IN  dpos * dneg - (dpos + dneg) > MaxAdded

\* The literals of the two clauses without var; they are sorted and lose their
\* duplicates, and no clause is made from a tautology.
Resolvent(s, var, cid1, cid2) ==
    { lit \in FreeLits(s, cid1) \cup FreeLits(s, cid2) : IABS(lit) # var }

\* Faulty variant: a literal of both clauses is taken for a tautology.
ResolvesUnlessShared(s, var, cid1, cid2) ==
    /\ \A lit \in Resolvent(s, var, cid1, cid2) : -lit \notin Resolvent(s, var, cid1, cid2)
    /\ FreeLits(s, cid1) \cap FreeLits(s, cid2) = {}

Resolves(s, var, cid1, cid2) ==
    \A lit \in Resolvent(s, var, cid1, cid2) : -lit \notin Resolvent(s, var, cid1, cid2)

\* resolve() for every clause of lit with every clause of -lit.
ResolveAll(s, var, lit) ==
    LET pairs == Lexicographic(
            { p \in s.literal_clauses[lit] \X s.literal_clauses[-lit] :
                Resolves(s, var, p[1], p[2]) })
    IN  AddClauses(s, [i \in DOMAIN pairs |->
            SortByVariable(Resolvent(s, var, pairs[i][1], pairs[i][2]))])

\* Faulty variant: the clauses of the other phase stay.
EliminateOnePhase(s, var, lit, degree, preprocess) ==
    LET typed == IF preprocess THEN set_variable_type(s, var, "ELIM") ELSE s
    IN  deactivate_clauses(ResolveAll(typed, var, lit), Ascending(s.literal_clauses[lit]))

\* Resolvents replace the clauses of var; a variable that had no clause in
\* one phase is set to the other.
Eliminate(s, var, lit, degree, preprocess) ==
    LET typed   == IF preprocess THEN set_variable_type(s, var, "ELIM") ELSE s
        retired == deactivate_clauses(ResolveAll(typed, var, lit),
                       Ascending(s.literal_clauses[lit])
                         \o Ascending(s.literal_clauses[-lit]))
    IN  IF degree = 0 /\ -lit \notin s.bcp_unit_literals
          THEN assign_literal(retired, -lit, TRUE)
          ELSE retired

\* The projection variables whose degree the elimination may have changed.
ChangeVariables(s, lit) ==
    ProjectionVariables(s, s.literal_clauses[lit] \cup s.literal_clauses[-lit])
      \ {IABS(lit)}

BveTake(var, d, met) ==
    /\ EligibleDegrees # {}
    /\ d \in EligibleDegrees /\ \A e \in EligibleDegrees : d <= e
    /\ var \in Eligible(d)
    /\ met \subseteq bve.degree_variables[d] \ Eligible(d)
    /\ UNCHANGED clause_queue

BveSkip ==
    \E d \in 0 .. bve.maxdegree : \E var \in Eligible(d) :
    \E met \in SUBSET bve.degree_variables[d] :
        /\ BveTake(var, d, met)
        /\ TooManyClauses(var)
        /\ bve' = [bve EXCEPT !.degree_variables = TakeVariable(var, d, met)]
        /\ UNCHANGED cnf

BveEliminate(preprocess) ==
    \E d \in 0 .. bve.maxdegree : \E var \in Eligible(d) :
    \E met \in SUBSET bve.degree_variables[d] :
        /\ BveTake(var, d, met)
        /\ ~TooManyClauses(var)
        /\ cnf' = Eliminate(cnf, var, RarerLiteral(cnf, var), d, preprocess)
        /\ bve' = [bve EXCEPT
               !.degree_variables = [e \in 0 .. bve.maxdegree |->
                   TakeVariable(var, d, met)[e]
                     \cup { v \in ChangeVariables(cnf, RarerLiteral(cnf, var)) :
                             Degree(cnf', v) = e }],
               !.eliminated_variables = @ \cup {var}]

BveIteration(preprocess) == BveSkip \/ BveEliminate(preprocess)
=============================================================================

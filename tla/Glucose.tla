------------------------------ MODULE Glucose ------------------------------
(***************************************************************************)
(* The SAT solver behind Cnf::is_satisfiable: core/Solver.cc of Glucose 3, *)
(* as a fresh solver object that is given the clauses of a formula, one    *)
(* after the other, and is then asked once, without assumptions, in the    *)
(* default (not incremental) mode.                                         *)
(*                                                                         *)
(* Literals are those of the caller; mkLit(v, true) is the positive one.   *)
(* A clause reference is an index into ca; 0 is CRef_Undef.  The trail     *)
(* holds each literal with its reason, and an entry's position gives its   *)
(* level.  Watch lists are kept in the order of the code, but a list loses *)
(* the watchers of a removed clause at once and not at the next            *)
(* propagation.  Activities are not kept: any variable of the heap may     *)
(* come out first.  Averages are not kept: a restart is possible whenever  *)
(* the queue of LBDs is valid, and that queue is as short as can be.       *)
(***************************************************************************)
EXTENDS Literals

CONSTANTS Formulas,      \* sequences of clauses
          MaxReductions  \* bounds the calls of reduceDB

CRef_Undef == 0

lbLBDFrozenClause     == 30
lbSizeMinimizingClause == 30
lbLBDMinimizingClause == 6

VARIABLES formula,      \* the formula given to the solver
          added,        \* how many of its clauses have been added
          solver,       \* the solver object
          status,       \* "adding", "searching", "sat" or "unsat"
          model,        \* the literals of the model
          reductions    \* calls of reduceDB

vars == << formula, added, solver, status, model, reductions >>

Watcher(cref, blocker) == [cref |-> cref, blocker |-> blocker]

-----------------------------------------------------------------------------
(* Assignments.  s is a solver object. *)

Assigned(s) == { s.trail[i].lit : i \in 1 .. Len(s.trail) }

IsTrue(s, lit)  == lit \in Assigned(s)
IsFalse(s, lit) == -lit \in Assigned(s)
IsUndef(s, lit) == ~IsTrue(s, lit) /\ ~IsFalse(s, lit)

decisionLevel(s) == Len(s.trail_lim)

Position(s, lit) == CHOOSE i \in 1 .. Len(s.trail) : s.trail[i].lit \in {lit, -lit}

level(s, lit) == Cardinality({ k \in 1 .. decisionLevel(s) : s.trail_lim[k] < Position(s, lit) })

reason(s, lit) == s.trail[Position(s, lit)].reason

uncheckedEnqueue(s, lit, from) ==
    [s EXCEPT !.trail = Append(@, [lit |-> lit, reason |-> from])]

newDecisionLevel(s) == [s EXCEPT !.trail_lim = Append(@, Len(s.trail))]

\* Faulty variant: a variable that has been taken from the heap stays away.
InsertNothing(heap, vs) == heap

insertVarOrder(heap, vs) == heap \cup vs

\* Keeps what is assigned at level, saves the phases of the rest and puts their
\* variables back on the heap.
cancelUntil(s, lvl) ==
    IF decisionLevel(s) <= lvl THEN s
    ELSE LET keep  == s.trail_lim[lvl + 1]
             gone  == { s.trail[i].lit : i \in keep + 1 .. Len(s.trail) }
         IN  [s EXCEPT !.polarity   = [v \in Variables |-> IF v \in gone THEN v
                                                           ELSE IF -v \in gone THEN -v ELSE @[v]],
                       !.order_heap = insertVarOrder(@, { IABS(lit) : lit \in gone }),
                       !.qhead      = keep,
                       !.confl      = CRef_Undef,
                       !.trail      = SubSeq(@, 1, keep),
                       !.trail_lim  = SubSeq(@, 1, lvl)]

-----------------------------------------------------------------------------
(* The clause database *)

Live(s) == { cr \in 1 .. Len(s.ca) : ~s.ca[cr].mark }

Learnts(s) == { cr \in Live(s) : s.ca[cr].learnt }

attachClause(s, cr) ==
    LET lits == s.ca[cr].lits
        watch(lists) ==
          [lists EXCEPT ![-lits[1]] = Append(@, Watcher(cr, lits[2])),
                        ![-lits[2]] = Append(@, Watcher(cr, lits[1]))]
    IN  IF Len(lits) = 2 THEN [s EXCEPT !.watchesBin = watch(@)]
        ELSE [s EXCEPT !.watches = watch(@)]

\* ca.alloc and attachClause
NewClause(s, lits, learnt, lbd) ==
    attachClause([s EXCEPT !.ca = Append(@, [lits |-> lits, learnt |-> learnt, lbd |-> lbd,
                                             canbedel |-> TRUE, mark |-> FALSE])],
                 Len(s.ca) + 1)

\* Faulty variant: long clauses are never locked.
LockedBinary(s, cr) ==
    LET lits == s.ca[cr].lits
    IN  Len(lits) = 2 /\ \E i \in 1 .. 2 : IsTrue(s, lits[i]) /\ reason(s, lits[i]) = cr

\* Both literals of a binary clause may be the implied one.
locked(s, cr) ==
    LET lits == s.ca[cr].lits
    IN  \E i \in 1 .. IF Len(lits) = 2 THEN 2 ELSE 1 :
          IsTrue(s, lits[i]) /\ reason(s, lits[i]) = cr

detachClause(s, cr) ==
    LET without(list) == SelectSeq(list, LAMBDA w : w.cref # cr)
    IN  [s EXCEPT !.watches    = [lit \in Literal |-> without(@[lit])],
                  !.watchesBin = [lit \in Literal |-> without(@[lit])]]

\* The reason of the first literal's variable is forgotten, whichever literal
\* of a binary clause was implied.
removeClause(s, cr) ==
    LET first  == s.ca[cr].lits[1]
        forget == { i \in 1 .. Len(s.trail) : locked(s, cr) /\ s.trail[i].lit \in {first, -first} }
    IN  [detachClause(s, cr) EXCEPT
           !.trail = [i \in DOMAIN @ |-> IF i \in forget THEN [@[i] EXCEPT !.reason = CRef_Undef]
                                         ELSE @[i]],
           !.ca[cr].mark = TRUE]

removeClauses(s, crs) == FoldLeft(removeClause, s, Ascending(crs))

\* addClause_: the order of the literals, what is left of a clause, and what
\* happens to it.  A unit is propagated by the steps that follow.
LitOrder(lit) == 2 * IABS(lit) + (IF lit > 0 THEN 1 ELSE 0)

addClause_(s, clause) ==
    LET lits == ToSet(clause)
        ps   == SortBy({ lit \in lits : ~IsFalse(s, lit) }, LitOrder)
    IN  CASE \E lit \in lits : IsTrue(s, lit) \/ -lit \in lits -> s
          [] OTHER ->
               CASE Len(ps) = 0 -> [s EXCEPT !.ok = FALSE]
                 [] Len(ps) = 1 -> uncheckedEnqueue(s, ps[1], CRef_Undef)
                 [] Len(ps) > 1 -> NewClause(s, ps, FALSE, 0)

-----------------------------------------------------------------------------
(* Propagation of one literal *)

\* Binary clauses: the first conflict ends the call.
PropagateBinary(s, p) ==
    LET wbin == s.watchesBin[p]
        after[k \in 0 .. Len(wbin)] ==
          IF k = 0 THEN s
          ELSE LET t == after[k - 1]
                   w == wbin[k]
               IN  CASE t.confl # CRef_Undef \/ IsTrue(t, w.blocker) -> t
                     [] t.confl = CRef_Undef /\ IsFalse(t, w.blocker) -> [t EXCEPT !.confl = w.cref]
                     [] OTHER -> uncheckedEnqueue(t, w.blocker, w.cref)
    IN  after[Len(wbin)]

\* The clause with the false literal in second place.
FalseSecond(lits, false_lit) ==
    IF lits[1] = false_lit THEN [lits EXCEPT ![1] = lits[2], ![2] = false_lit] ELSE lits

\* Faulty variant: any other literal will do.
NewWatchesAny(s, lits) == 3 .. Len(lits)

\* Where a clause may be watched instead.
NewWatches(s, lits) == { k \in 3 .. Len(lits) : ~IsFalse(s, lits[k]) }

\* One watcher of p: it is kept, with a new blocker perhaps, or goes over to
\* another literal of its clause; a conflict empties the queue.
Visit(s, p, w) ==
    LET lits  == FalseSecond(s.ca[w.cref].lits, -p)
        first == lits[1]
        new   == Watcher(w.cref, first)
        free  == NewWatches(s, lits)
        k     == CHOOSE i \in free : \A j \in free : i <= j
        t     == [s EXCEPT !.ca[w.cref].lits = lits, !.watches[p] = Append(@, new)]
    IN  CASE s.confl # CRef_Undef \/ IsTrue(s, w.blocker) ->
               [s EXCEPT !.watches[p] = Append(@, w)]
          [] OTHER ->
               CASE IsTrue(s, first) -> t
                 [] ~IsTrue(s, first) /\ free # {} ->
                      [s EXCEPT !.ca[w.cref].lits = [lits EXCEPT ![2] = lits[k], ![k] = -p],
                                !.watches[-lits[k]] = Append(@, new)]
                 [] IsFalse(s, first) /\ free = {} ->
                      [t EXCEPT !.confl = w.cref, !.qhead = Len(s.trail)]
                 [] OTHER -> uncheckedEnqueue(t, first, w.cref)

PropagateLong(s, p) ==
    LET ws == s.watches[p]
        after[k \in 0 .. Len(ws)] ==
          IF k = 0 THEN [s EXCEPT !.watches[p] = << >>] ELSE Visit(after[k - 1], p, ws[k])
    IN  after[Len(ws)]

PropagateNext(s) ==
    LET p == s.trail[s.qhead + 1].lit
        t == PropagateBinary([s EXCEPT !.qhead = @ + 1], p)
    IN  IF t.confl # CRef_Undef THEN t ELSE PropagateLong(t, p)

-----------------------------------------------------------------------------
(* Conflict analysis *)

\* The literals of a clause beside the one it implies (if any).
Others(s, cr, lit) == SelectSeq(s.ca[cr].lits, LAMBDA q : q # lit)

\* The number of levels among literals.
computeLBD(s, lits) == Cardinality({ level(s, lit) : lit \in ToSet(lits) })

Analysis == [seen : SUBSET Variables, learnt : Seq(Literal), pathC : Int, index : Int,
             p : Int, confl : Nat, used : SUBSET Nat]

\* Resolution from the conflict backwards along the trail, up to the first
\* literal of the level through which all paths lead.
Resolved(s) ==
    LET Step(a) ==
          LET new  == SelectSeq(Others(s, a.confl, a.p),
                        LAMBDA q : IABS(q) \notin a.seen /\ level(s, q) > 0)
              low  == SelectSeq(new, LAMBDA q : level(s, q) < decisionLevel(s))
              seen == a.seen \cup { IABS(q) : q \in ToSet(new) }
              index == CHOOSE i \in 1 .. a.index :
                         /\ IABS(s.trail[i].lit) \in seen
                         /\ \A j \in i + 1 .. a.index : IABS(s.trail[j].lit) \notin seen
              p    == s.trail[index].lit
          IN  [seen   |-> seen \ {IABS(p)},
               learnt |-> a.learnt \o low,
               pathC  |-> a.pathC + Len(new) - Len(low) - 1,
               index  |-> index - 1,
               p      |-> p,
               confl  |-> s.trail[index].reason,
               used   |-> a.used \cup {a.confl}]
        loop[a \in Analysis] == IF a.pathC = 0 THEN a ELSE loop[Step(a)]
    IN  loop[Step([seen |-> {}, learnt |-> << >>, pathC |-> 0, index |-> Len(s.trail),
                   p |-> 0, confl |-> s.confl, used |-> {}])]

\* The variables not seen that lit follows from, through any number of reasons.
Ancestors(s, lit, seen) ==
    LET parents(v) ==
          IF reason(s, v) = CRef_Undef THEN {}
          ELSE { u \in { IABS(q) : q \in ToSet(s.ca[reason(s, v)].lits) } :
                   u # v /\ u \notin seen /\ level(s, u) > 0 }
        reach[S \in SUBSET Variables] ==
          LET T == S \cup UNION { parents(v) : v \in S }
          IN  IF T = S THEN S ELSE reach[T]
    IN  reach[parents(IABS(lit))]

\* abstractLevel: levels are told apart modulo 32.
abstractLevel(s, lit) == level(s, lit) % 32

\* Faulty variant: decisions are taken for redundant, too.
RedundantDecisions(s, lit, seen, levels) ==
    \A v \in Ancestors(s, lit, seen) : abstractLevel(s, v) \in levels

\* litRedundant: everything lit follows from has a reason and is of a level that
\* occurs in the clause.  What was looked at is seen from then on if it succeeds.
litRedundant(s, lit, seen, levels) ==
    \A v \in Ancestors(s, lit, seen) : reason(s, v) # CRef_Undef /\ abstractLevel(s, v) \in levels

\* ccmin_mode 2: the literals of the rest of a clause that are not redundant.
Minimised(s, rest, seen) ==
    LET levels == { abstractLevel(s, q) : q \in ToSet(rest) }
        after[k \in 0 .. Len(rest)] ==
          IF k = 0 THEN [kept |-> << >>, seen |-> seen]
          ELSE LET b == after[k - 1]
                   q == rest[k]
               IN  IF reason(s, q) # CRef_Undef /\ litRedundant(s, q, b.seen, levels)
                     THEN [b EXCEPT !.seen = @ \cup Ancestors(s, q, b.seen)]
                     ELSE [b EXCEPT !.kept = Append(@, q)]
    IN  after[Len(rest)].kept

\* Literals that a binary clause of the asserting literal resolves away; the
\* order of the others, which the code changes, is kept.
minimisationWithBinaryResolution(s, learnt) ==
    LET implied == { w.blocker : w \in ToSet(s.watchesBin[-learnt[1]]) }
    IN  IF computeLBD(s, learnt) > lbLBDMinimizingClause THEN learnt
        ELSE << learnt[1] >> \o SelectSeq(Tail(learnt), LAMBDA q :
               ~(-q \in implied /\ IsTrue(s, -q)))

\* A literal of the highest level of the rest comes second.
HighestSecond(s, learnt) ==
    LET rest  == 2 .. Len(learnt)
        max_i == CHOOSE i \in rest :
                   /\ \A j \in rest : level(s, learnt[j]) <= level(s, learnt[i])
                   /\ \A j \in 2 .. i - 1 : level(s, learnt[j]) < level(s, learnt[i])
    IN  IF Len(learnt) = 1 THEN learnt
        ELSE [learnt EXCEPT ![2] = learnt[max_i], ![max_i] = learnt[2]]

\* The learnt clause.
analyze(s) ==
    LET a      == Resolved(s)
        learnt == << -a.p >> \o Minimised(s, a.learnt, a.seen)
    IN  HighestSecond(s, IF Len(learnt) <= lbSizeMinimizingClause
                           THEN minimisationWithBinaryResolution(s, learnt) ELSE learnt)

out_btlevel(s, learnt) == IF Len(learnt) = 1 THEN 0 ELSE level(s, learnt[2])

\* Learnt clauses that took part and have improved get a smaller LBD, and are
\* protected for one reduction.
LbdsUpdated(s) ==
    LET better(cr) ==
          /\ s.ca[cr].learnt /\ s.ca[cr].lbd > 2
          /\ computeLBD(s, s.ca[cr].lits) + 1 < s.ca[cr].lbd
        improved(c) == [c EXCEPT !.lbd = computeLBD(s, c.lits),
                                 !.canbedel = @ /\ c.lbd > lbLBDFrozenClause]
    IN  [s EXCEPT !.ca = [cr \in DOMAIN @ |->
           IF cr \in Resolved(s).used /\ better(cr) THEN improved(@[cr]) ELSE @[cr]]]

-----------------------------------------------------------------------------
(* Reducing the database *)

\* The outcomes of reduceDB: of the learnt clauses that may go, some of those
\* with the greatest LBD, at most half as many as there are clauses.
reduceDB(s) ==
    LET removable == { cr \in Learnts(s) : /\ s.ca[cr].lbd > 2 /\ Len(s.ca[cr].lits) > 2
                                           /\ s.ca[cr].canbedel /\ ~locked(s, cr) }
        goes(R) == /\ 2 * Cardinality(R) <= Cardinality(Learnts(s))
                   /\ \A c \in R, d \in removable \ R : s.ca[d].lbd <= s.ca[c].lbd
        unprotected(t) == [t EXCEPT !.ca = [cr \in DOMAIN @ |-> [@[cr] EXCEPT !.canbedel = TRUE]]]
    IN  { unprotected(removeClauses(s, R)) : R \in { R \in SUBSET removable : goes(R) } }

satisfied(s, cr) == \E lit \in ToSet(s.ca[cr].lits) : IsTrue(s, lit)

\* simplify at level 0, after propagation: all satisfied clauses go.
simplify(s) ==
    [removeClauses(removeClauses(s, { cr \in Learnts(s) : satisfied(s, cr) }),
                   { cr \in Live(s) \ Learnts(s) : satisfied(s, cr) })
       EXCEPT !.order_heap = { v \in Variables : IsUndef(s, v) }]

-----------------------------------------------------------------------------
(* The machine *)

EmptySolver ==
    [ok |-> TRUE, ca |-> << >>,
     watches |-> [lit \in Literal |-> << >>], watchesBin |-> [lit \in Literal |-> << >>],
     trail |-> << >>, trail_lim |-> << >>, qhead |-> 0, confl |-> CRef_Undef,
     order_heap |-> Variables, polarity |-> [v \in Variables |-> v], lbdQueue |-> FALSE]

Init ==
    /\ formula \in Formulas
    /\ added = 0
    /\ solver = EmptySolver
    /\ status = "adding"
    /\ model = {}
    /\ reductions = 0

\* propagate has returned without a conflict.
Propagated == solver.confl = CRef_Undef /\ solver.qhead = Len(solver.trail)

Active == status \in {"adding", "searching"}

\* One literal of propagate's loop.
Propagate ==
    /\ Active /\ solver.ok
    /\ solver.confl = CRef_Undef /\ solver.qhead < Len(solver.trail)
    /\ solver' = PropagateNext(solver)
    /\ UNCHANGED << formula, added, status, model, reductions >>

AddClause ==
    /\ status = "adding" /\ solver.ok /\ Propagated
    /\ added < Len(formula)
    /\ added' = added + 1
    /\ solver' = addClause_(solver, formula[added + 1])
    /\ UNCHANGED << formula, status, model, reductions >>

\* A conflict while clauses are added.
AddFails ==
    /\ status = "adding" /\ solver.ok /\ solver.confl # CRef_Undef
    /\ solver' = [solver EXCEPT !.ok = FALSE]
    /\ UNCHANGED << formula, added, status, model, reductions >>

\* solve_ is called; clauses are not added any more once ok is false.
Solve ==
    /\ status = "adding"
    /\ ~solver.ok \/ (Propagated /\ added = Len(formula))
    /\ status' = IF solver.ok THEN "searching" ELSE "unsat"
    /\ UNCHANGED << formula, added, solver, model, reductions >>

\* A conflict at level 0 ends the search.
Refute ==
    /\ status = "searching" /\ solver.confl # CRef_Undef /\ decisionLevel(solver) = 0
    /\ status' = "unsat"
    /\ solver' = [solver EXCEPT !.ok = FALSE]
    /\ UNCHANGED << formula, added, model, reductions >>

Learn ==
    /\ status = "searching" /\ solver.confl # CRef_Undef /\ decisionLevel(solver) > 0
    /\ LET learnt == analyze(solver)
           s      == [cancelUntil(LbdsUpdated(solver), out_btlevel(solver, learnt))
                        EXCEPT !.lbdQueue = TRUE]
       IN  solver' = IF Len(learnt) = 1
                       THEN uncheckedEnqueue(s, learnt[1], CRef_Undef)
                       ELSE uncheckedEnqueue(NewClause(s, learnt, TRUE, computeLBD(solver, learnt)),
                                             learnt[1], Len(s.ca) + 1)
    /\ UNCHANGED << formula, added, status, model, reductions >>

\* Faulty variant: the queue of LBDs is not cleared.
RestartKeepsQueue ==
    /\ status = "searching" /\ Propagated /\ solver.lbdQueue
    /\ solver' = cancelUntil(solver, 0)
    /\ UNCHANGED << formula, added, status, model, reductions >>

\* search returns l_Undef, and solve_ calls it again.
Restart ==
    /\ status = "searching" /\ Propagated /\ solver.lbdQueue
    /\ solver' = [cancelUntil(solver, 0) EXCEPT !.lbdQueue = FALSE]
    /\ UNCHANGED << formula, added, status, model, reductions >>

\* What the database may be made of before a decision.  simplify skips its work
\* when nothing new is assigned, or little has been propagated since.
Tidied(s) == IF decisionLevel(s) = 0 THEN {s, simplify(s)} ELSE {s}

Reduce ==
    /\ reductions < MaxReductions /\ Learnts(solver) # {}
    /\ reductions' = reductions + 1

\* pickBranchLit takes variables from the heap up to the first that is not
\* assigned; the order is that of their activities.
pickBranchLit(s) ==
    { << next, popped >> \in s.order_heap \X SUBSET s.order_heap :
        /\ IsUndef(s, next) /\ next \in popped
        /\ \A v \in popped \ {next} : ~IsUndef(s, v) }

\* Simplification, reduction, and a decision in its saved phase, in one round of
\* search's loop.
Decide ==
    /\ status = "searching" /\ Propagated
    /\ \E s \in Tidied(solver) :
         \/ /\ UNCHANGED reductions
            /\ \E pick \in pickBranchLit(s) :
                 solver' = uncheckedEnqueue(
                   newDecisionLevel([s EXCEPT !.order_heap = @ \ pick[2]]),
                   s.polarity[pick[1]], CRef_Undef)
         \/ /\ Reduce
            /\ \E r \in reduceDB(s) : \E pick \in pickBranchLit(r) :
                 solver' = uncheckedEnqueue(
                   newDecisionLevel([r EXCEPT !.order_heap = @ \ pick[2]]),
                   r.polarity[pick[1]], CRef_Undef)
    /\ UNCHANGED << formula, added, status, model >>

\* No variable is left on the heap that is not assigned.
FindModel ==
    /\ status = "searching" /\ Propagated
    /\ \A v \in solver.order_heap : ~IsUndef(solver, v)
    /\ status' = "sat"
    /\ model' = Assigned(solver)
    /\ solver' = cancelUntil(solver, 0)
    /\ UNCHANGED << formula, added, reductions >>

Finished == ~Active

Done == Finished /\ UNCHANGED vars

Next ==
    \/ Propagate \/ AddClause \/ AddFails \/ Solve \/ Refute \/ Learn
    \/ Restart \/ Decide \/ FindModel \/ Done

Spec == Init /\ [][Next]_vars

\* A sequential program runs until it has finished: weak fairness of Next, with
\* ENABLED <<Next>>_vars written out, since some step is possible until then
\* (deadlock is checked) and every step but Done changes the state.
Running == []<>Finished \/ []<><<Next>>_vars

FairSpec == Spec /\ Running

-----------------------------------------------------------------------------
(* Properties *)

InputClauses == { ToSet(formula[i]) : i \in 1 .. added }

Implied(lits) == \A a \in Models(Variables, InputClauses) : HoldsClause(a, lits)

\* The answer of the solver: "sat" comes with a model of all clauses and "unsat"
\* means that there is none, also when it was found before all of them were
\* added, or by learnt clauses some of which are gone.
AnswerRight ==
    /\ status = "sat" => /\ Cardinality(model) = NVar
                         /\ \A i \in 1 .. Len(formula) : ToSet(formula[i]) \cap model # {}
    /\ status = "unsat" \/ ~solver.ok => Models(Variables, InputClauses) = {}

\* What is learnt, and what is assigned at level 0, follows from the input:
\* resolution, minimisation by redundancy and minimisation by binary clauses
\* leave out no literal that matters, and simplification removes no clause whose
\* effect is not kept.
LearntsImplied ==
    /\ \A cr \in Learnts(solver) : Implied(ToSet(solver.ca[cr].lits))
    /\ \A lit \in Assigned(solver) : level(solver, lit) = 0 => Implied({lit})

\* Two watches are enough: when propagate returns without a conflict no clause
\* is false or has a single literal left, whatever assignments have been undone
\* and clauses removed before, and each clause is watched by its first two
\* literals.
PropagationComplete ==
    /\ Active /\ solver.ok /\ Propagated =>
         \A cr \in Live(solver) :
           \/ satisfied(solver, cr)
           \/ Cardinality({ lit \in ToSet(solver.ca[cr].lits) : IsUndef(solver, lit) }) > 1
    /\ \A cr \in Live(solver) :
         { lit \in Literal : \E w \in ToSet(solver.watches[lit] \o solver.watchesBin[lit]) :
             w.cref = cr } = { -solver.ca[cr].lits[1], -solver.ca[cr].lits[2] }

\* What conflict analysis relies on: above level 0 a reason is a clause that has
\* not been removed, all of whose other literals were false before, and a long
\* one has the implied literal first; the conflict has at least one literal of
\* the current level.
ReasonsHold ==
    /\ \A i \in 1 .. Len(solver.trail) :
         LET lit == solver.trail[i].lit
             cr  == solver.trail[i].reason
             earlier == { -solver.trail[j].lit : j \in 1 .. i - 1 }
         IN  level(solver, lit) > 0 /\ cr # CRef_Undef =>
               /\ cr \in Live(solver) /\ lit \in ToSet(solver.ca[cr].lits)
               /\ ToSet(solver.ca[cr].lits) \ {lit} \subseteq earlier
               /\ Len(solver.ca[cr].lits) > 2 => solver.ca[cr].lits[1] = lit
    /\ solver.confl # CRef_Undef =>
         /\ solver.confl \in Live(solver)
         /\ \A lit \in ToSet(solver.ca[solver.confl].lits) : IsFalse(solver, lit)
         /\ \E lit \in ToSet(solver.ca[solver.confl].lits) :
              level(solver, lit) = decisionLevel(solver)

\* The search ends: restarts come after conflicts only, and every conflict adds
\* a clause that is new.
Termination == <>Finished
=============================================================================

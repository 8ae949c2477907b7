----------------------------- MODULE CnfContext -----------------------------
(***************************************************************************)
(* Contexts of class Cnf.  builtin_kc and tseitin_variable_test change the *)
(* clauses tentatively: they open a context, call methods that change the  *)
(* object, and rely on pop_context to bring back what they started from.   *)
(* Every change is recorded on the action stack and undone in reverse.     *)
(*                                                                         *)
(* Here the methods are called in any order their callers could choose.    *)
(* An action is one call; pop_context, which is a loop, takes one step for *)
(* each record it removes.  What the callers guarantee is in the guards:   *)
(*  - a clause is deactivated only while it is active (bcp looks it up,    *)
(*    bve takes it from the literal map);                                  *)
(*  - bcp reports a conflict only if there is none yet, but the conflict   *)
(*    assign_literal finds is recorded whatever came before;               *)
(*  - a variable is quantified once;                                       *)
(*  - inside a context with a set of active clauses of its own             *)
(*    (push_active) no further context is opened;                          *)
(*  - the outermost context, opened by initialize, is never popped;        *)
(*  - no clause is added inside a context: bve makes no resolvents at      *)
(*    degree 0, and only the outermost context sees another degree.        *)
(***************************************************************************)
EXTENDS Cnf

CONSTANTS Clauses,       \* the clauses of the object
          MaxRecords     \* bound on the length of the action stack

ASSUME ContextAssumption ==
    /\ Clauses \in Seq(Seq(Literal))
    /\ MaxRecords \in Nat

VARIABLES cnf,       \* the Cnf object
          popping,   \* pop_context is running
          hist       \* history: the object as it was before each record

vars == << cnf, popping, hist >>

\* The object once its clauses have been read.
Loaded ==
    [EmptyCnf EXCEPT
        !.clauses         = Clauses,
        !.active_clauses  = DOMAIN Clauses,
        !.literal_clauses = [lit \in Literal |->
            { cid \in DOMAIN Clauses : lit \in ToSet(Clauses[cid]) }]]

\* All of the object but the stack that records its changes.
Saved(s) == [s EXCEPT !.action_stack = << >>]

Init ==
    /\ cnf = Loaded
    /\ popping = FALSE
    /\ hist = << Saved(Loaded) >>

-----------------------------------------------------------------------------
(* A call that leaves the object s; it records one change, or none. *)
Call(s) ==
    /\ ~popping
    /\ Len(cnf.action_stack) < MaxRecords
    /\ cnf' = s
    /\ hist' = IF s.action_stack = cnf.action_stack THEN hist
               ELSE Append(hist, Saved(cnf))
    /\ UNCHANGED popping

NewContext == cnf.active_stack = << >> /\ Call(new_context(cnf))

AssignLiteral ==
    \E lit \in Literal, bcp \in BOOLEAN : Call(assign_literal(cnf, lit, bcp))

TriggerConflict == ~cnf.has_conflict /\ Call(trigger_conflict(cnf))

DeactivateClause ==
    \E cid \in cnf.active_clauses : Call(deactivate_clause(cnf, cid))

UquantifyVariable ==
    \E var \in Variables \ cnf.uquantified_variables :
        Call(uquantify_variable(cnf, var))

PushActive ==
    \E nactive_clauses \in SUBSET cnf.active_clauses :
        Call(push_active(cnf, nactive_clauses))

PopContext ==
    /\ ~popping
    /\ \E i \in 2 .. Len(cnf.action_stack) :
           cnf.action_stack[i].action = "START_CONTEXT"
    /\ popping' = TRUE
    /\ UNCHANGED << cnf, hist >>

\* Faulty variant: the loop tests the record below the one it removes.
PopTooFar ==
    /\ popping
    /\ cnf' = pop_record(cnf)
    /\ hist' = Front(hist)
    /\ popping' = (Last(cnf'.action_stack).action # "START_CONTEXT")

\* Faulty variant: the record of a conflict is undone but never removed.
PopStuck ==
    /\ popping
    /\ IF Last(cnf.action_stack).action = "CONFLICT"
         THEN cnf' = undo(cnf, Last(cnf.action_stack)) /\ UNCHANGED << hist, popping >>
         ELSE /\ cnf' = pop_record(cnf)
              /\ hist' = Front(hist)
              /\ popping' = (Last(cnf.action_stack).action # "START_CONTEXT")

PopRecord ==
    /\ popping
    /\ cnf' = pop_record(cnf)
    /\ hist' = Front(hist)
    /\ popping' = (Last(cnf.action_stack).action # "START_CONTEXT")

Next ==
    \/ NewContext \/ AssignLiteral \/ TriggerConflict \/ DeactivateClause
    \/ UquantifyVariable \/ PushActive \/ PopContext \/ PopRecord

Spec == Init /\ [][Next]_vars

\* The loop of pop_context runs until it returns.
FairSpec == Spec /\ WF_vars(PopRecord)

-----------------------------------------------------------------------------
TypeOK ==
    /\ cnf \in CnfType
    /\ popping \in BOOLEAN
    /\ hist \in Seq(CnfType)

\* The object s is as t was.  Two things may differ.  A conflict that was
\* there before may be forgotten: undoing a conflict clears the flag even if
\* an enclosing context had set it.  And while a pushed set of clauses is
\* active its literal map may have grown: activate_clause enters a clause
\* under all its literals, push_active only under those that are not false.
Restores(s, t) ==
    /\ s.clauses               = t.clauses
    /\ s.active_clauses        = t.active_clauses
    /\ s.unit_literals         = t.unit_literals
    /\ s.bcp_unit_literals     = t.bcp_unit_literals
    /\ s.uquantified_variables = t.uquantified_variables
    /\ s.active_stack          = t.active_stack
    /\ s.variable_type         = t.variable_type
    /\ s.data_variables        = t.data_variables
    /\ s.tseitin_variables     = t.tseitin_variables
    /\ s.has_conflict => t.has_conflict
    /\ s.active_stack = << >> => s.literal_clauses = t.literal_clauses

Top == Len(cnf.action_stack)

\* When pop_context meets the record that opened a context, everything done in
\* the context has been undone: both branches of a split start from the same
\* clauses, and a test for a Tseitin variable leaves no trace.
ContextRestored ==
    cnf.action_stack[Top].action = "START_CONTEXT" => Restores(cnf, hist[Top])

\* The unit literals contradict neither each other nor their origin, however
\* assertions, propagations, promotions of one to the other and undos mix.
UnitsConsistent(s) ==
    /\ s.bcp_unit_literals \subseteq s.unit_literals
    /\ \A lit \in s.unit_literals : -lit \notin s.unit_literals

\* The literal map holds exactly the active clauses under their literals.
MapExact(s) ==
    /\ s.clauses = Clauses
    /\ s.active_clauses \subseteq DOMAIN Clauses
    /\ s.active_stack = << >> =>
         \A lit \in Literal :
             s.literal_clauses[lit] = { cid \in s.active_clauses : lit \in ToSet(Clauses[cid]) }

\* Both facts hold of the object at all times, inside contexts, while one is
\* being popped, and afterwards.
WellFormed == UnitsConsistent(cnf) /\ MapExact(cnf)

\* pop_context never runs past the outermost context.
OutermostKept ==
    /\ cnf.action_stack # << >>
    /\ popping => \E i \in 2 .. Top : cnf.action_stack[i].action = "START_CONTEXT"

\* pop_context returns.
PopReturns == popping ~> ~popping

-----------------------------------------------------------------------------
(* The inductive invariant: undoing a record gives back, up to Restores,   *)
(* the object as it was before the record.                                 *)

\* `record' is what the stack says of the step from `before' to `after'.
Undoes(record, after, before) ==
    /\ Restores(undo(after, record), before)
    /\ record.action = "ACTIVE_CLAUSES" => after.active_stack # << >>
    /\ record.action = "DEACTIVATE_CLAUSE" => record.ele \in DOMAIN Clauses
    /\ record.action = "ASSERT_FROM_BCP" => record.ele \in Literal

Aligned ==
    /\ Len(hist) = Top
    /\ Top > 0
    /\ \A i \in 1 .. Top - 1 : Undoes(cnf.action_stack[i], hist[i + 1], hist[i])
    /\ Undoes(cnf.action_stack[Top], cnf, hist[Top])

HistoryWellFormed ==
    \A i \in 1 .. Len(hist) : UnitsConsistent(hist[i]) /\ MapExact(hist[i])

IInv == TypeOK /\ Aligned /\ WellFormed /\ HistoryWellFormed /\ OutermostKept
=============================================================================

-------------------------------- MODULE Cnf --------------------------------
(***************************************************************************)
(* Class Cnf of compile.cpp: a clause database with unit literals, a set   *)
(* of active clauses indexed by literal, and an action stack that makes    *)
(* every change made inside a context undoable.                            *)
(*                                                                         *)
(* A Cnf object is a record and a method is an operator from records to    *)
(* records; the modules that run the methods' loops keep such a record in  *)
(* a variable.  Clause IDs count from 1.  Fields are named for the         *)
(* members; clause_offset and literal_sequence together are the sequence   *)
(* `clauses'.  A literal without an entry in *literal_clauses (operator[]  *)
(* creates entries on demand) is mapped to the empty set.                  *)
(***************************************************************************)
EXTENDS Literals

ActionType == {"START_CONTEXT", "CONFLICT", "DEACTIVATE_CLAUSE", "BCP",
               "ASSERT", "ASSERT_FROM_BCP", "UQUANTIFY", "ACTIVE_CLAUSES"}

VariableType == {"UNUSED", "DATA", "NONTSEITIN", "TSEITIN_DETECT",
                 "TSEITIN_PROMOTE", "ELIM"}

ClauseId == Nat \ {0}

ActionRecord == [action : ActionType, ele : Int]

ActiveRecord == [active_clauses  : SUBSET ClauseId,
                 literal_clauses : [Literal -> SUBSET ClauseId]]

CnfType == [clauses              : Seq(Seq(Literal)),
            active_clauses       : SUBSET ClauseId,
            literal_clauses      : [Literal -> SUBSET ClauseId],
            unit_literals        : SUBSET Literal,
            bcp_unit_literals    : SUBSET Literal,
            uquantified_variables : SUBSET Variables,
            has_conflict         : BOOLEAN,
            action_stack         : Seq(ActionRecord),
            active_stack         : Seq(ActiveRecord),
            variable_type        : [Variables -> VariableType],
            data_variables       : SUBSET Variables,
            tseitin_variables    : SUBSET Variables]

Lits(s, cid) == ToSet(s.clauses[cid])

Log(s, action, ele) ==
    [s EXCEPT !.action_stack = Append(@, [action |-> action, ele |-> ele])]

-----------------------------------------------------------------------------
(* Building the clauses. *)

\* initialize, which opens the outermost context; data_variables are filled
\* in later by the importer or by clausify.
EmptyCnf ==
    [clauses               |-> << >>,
     active_clauses        |-> {},
     literal_clauses       |-> [lit \in Literal |-> {}],
     unit_literals         |-> {},
     bcp_unit_literals     |-> {},
     uquantified_variables |-> {},
     has_conflict          |-> FALSE,
     action_stack          |-> << [action |-> "START_CONTEXT", ele |-> 0] >>,
     active_stack          |-> << >>,
     variable_type         |-> [v \in Variables |-> "UNUSED"],
     data_variables        |-> {},
     tseitin_variables     |-> {}]

\* new_clause followed by add_literal for each literal, as every caller does,
\* for one clause after the other.
AddClauses(s, clauses) ==
    LET n            == Len(s.clauses)
        holding(lit) == { i \in DOMAIN clauses : lit \in ToSet(clauses[i]) }
    IN  [s EXCEPT
           !.clauses         = @ \o clauses,
           !.active_clauses  = @ \cup { n + i : i \in DOMAIN clauses },
           !.literal_clauses = [lit \in Literal |->
               s.literal_clauses[lit] \cup { n + i : i \in holding(lit) }],
           !.variable_type   = [v \in Variables |->
               IF s.variable_type[v] = "UNUSED" /\ holding(v) \cup holding(-v) # {}
                 THEN "NONTSEITIN" ELSE s.variable_type[v]]]

-----------------------------------------------------------------------------
(* Contexts, and the changes they undo. *)

new_context(s) == Log(s, "START_CONTEXT", 0)

trigger_conflict(s) == Log([s EXCEPT !.has_conflict = TRUE], "CONFLICT", 0)

\* Faulty variant: asserting a propagated literal is logged as a new assertion.
AssignForgetsOrigin(s, lit, bcp) ==
    CASE -lit \in s.unit_literals -> trigger_conflict(s)
      [] -lit \notin s.unit_literals /\ bcp /\ lit \notin s.unit_literals ->
           Log([s EXCEPT !.unit_literals     = @ \cup {lit},
                         !.bcp_unit_literals = @ \cup {lit}], "BCP", lit)
      [] -lit \notin s.unit_literals /\ ~bcp ->
           Log([s EXCEPT !.unit_literals     = @ \cup {lit},
                         !.bcp_unit_literals = @ \ {lit}], "ASSERT", lit)
      [] OTHER -> s

assign_literal(s, lit, bcp) ==
    CASE -lit \in s.unit_literals -> trigger_conflict(s)
      [] -lit \notin s.unit_literals /\ bcp /\ lit \notin s.unit_literals ->
           Log([s EXCEPT !.unit_literals     = @ \cup {lit},
                         !.bcp_unit_literals = @ \cup {lit}], "BCP", lit)
      [] -lit \notin s.unit_literals /\ ~bcp /\ lit \in s.bcp_unit_literals ->
           Log([s EXCEPT !.bcp_unit_literals = @ \ {lit}],
               "ASSERT_FROM_BCP", lit)
      [] -lit \notin s.unit_literals /\ ~bcp /\ lit \notin s.unit_literals
           /\ lit \notin s.bcp_unit_literals ->
           Log([s EXCEPT !.unit_literals = @ \cup {lit}], "ASSERT", lit)
      [] OTHER -> s            \* err(false, ...): a message, and no change

uquantify_variable(s, var) ==
    Log([s EXCEPT !.uquantified_variables = @ \cup {var}], "UQUANTIFY", var)

\* Faulty variant: the clause stays in the literal map.
DeactivateKeepsMap(s, cid) ==
    Log([s EXCEPT !.active_clauses = @ \ {cid}], "DEACTIVATE_CLAUSE", cid)

deactivate_clause(s, cid) ==
    Log([s EXCEPT
           !.literal_clauses = [lit \in Literal |->
               s.literal_clauses[lit] \ (IF lit \in Lits(s, cid) THEN {cid} ELSE {})],
           !.active_clauses  = @ \ {cid}],
        "DEACTIVATE_CLAUSE", cid)

\* deactivate_clause for each element of the vector, whose order is the order
\* of the records it leaves on the stack.
deactivate_clauses(s, remove) ==
    [s EXCEPT
       !.literal_clauses = [lit \in Literal |->
           s.literal_clauses[lit] \ { cid \in ToSet(remove) : lit \in Lits(s, cid) }],
       !.active_clauses  = @ \ ToSet(remove),
       !.action_stack    = @ \o [i \in DOMAIN remove |->
           [action |-> "DEACTIVATE_CLAUSE", ele |-> remove[i]]]]

\* Faulty variant: the clause does not return to the literal map.
ActivateForgetsMap(s, cid) == [s EXCEPT !.active_clauses = @ \cup {cid}]

activate_clause(s, cid) ==
    [s EXCEPT
       !.literal_clauses = [lit \in Literal |->
           s.literal_clauses[lit] \cup (IF lit \in Lits(s, cid) THEN {cid} ELSE {})],
       !.active_clauses  = @ \cup {cid}]

skip_literal(s, lit) ==
    \/ -lit \in s.unit_literals
    \/ IABS(lit) \in s.uquantified_variables

skip_clause(s, cid) == Lits(s, cid) \cap s.unit_literals # {}

push_active(s, nactive_clauses) ==
    LET saved == [active_clauses  |-> s.active_clauses,
                  literal_clauses |-> s.literal_clauses]
    IN  Log([s EXCEPT
               !.active_stack    = Append(@, saved),
               !.active_clauses  = nactive_clauses,
               !.literal_clauses = [lit \in Literal |->
                   { cid \in nactive_clauses :
                       lit \in Lits(s, cid) /\ ~skip_literal(s, lit) }]],
            "ACTIVE_CLAUSES", 0)

-----------------------------------------------------------------------------
(* pop_context: one record at a time, until a START_CONTEXT is removed. *)

\* Faulty variant: a propagated literal is only half retracted.
UndoForgetsBcp(s, record) ==
    LET ele == record.ele IN
    CASE record.action = "CONFLICT" -> [s EXCEPT !.has_conflict = FALSE]
      [] record.action = "DEACTIVATE_CLAUSE" -> activate_clause(s, ele)
      [] record.action \in {"BCP", "ASSERT"} ->
           [s EXCEPT !.unit_literals = @ \ {ele}]
      [] record.action = "ASSERT_FROM_BCP" ->
           [s EXCEPT !.bcp_unit_literals = @ \cup {ele}]
      [] record.action = "UQUANTIFY" ->
           [s EXCEPT !.uquantified_variables = @ \ {ele}]
      [] record.action = "ACTIVE_CLAUSES" ->
           [s EXCEPT !.active_clauses  = Last(s.active_stack).active_clauses,
                     !.literal_clauses = Last(s.active_stack).literal_clauses,
                     !.active_stack    = Front(@)]
      [] OTHER -> s

undo(s, record) ==
    LET ele == record.ele IN
    CASE record.action = "START_CONTEXT" -> s
      [] record.action = "CONFLICT" -> [s EXCEPT !.has_conflict = FALSE]
      [] record.action = "DEACTIVATE_CLAUSE" -> activate_clause(s, ele)
      [] record.action = "BCP" ->
           [s EXCEPT !.bcp_unit_literals = @ \ {ele},
                     !.unit_literals     = @ \ {ele}]
      [] record.action = "ASSERT" -> [s EXCEPT !.unit_literals = @ \ {ele}]
      [] record.action = "ASSERT_FROM_BCP" ->
           [s EXCEPT !.bcp_unit_literals = @ \cup {ele}]
      [] record.action = "UQUANTIFY" ->
           [s EXCEPT !.uquantified_variables = @ \ {ele}]
      [] record.action = "ACTIVE_CLAUSES" ->
           [s EXCEPT !.active_clauses  = Last(s.active_stack).active_clauses,
                     !.literal_clauses = Last(s.active_stack).literal_clauses,
                     !.active_stack    = Front(@)]

pop_record(s) ==
    undo([s EXCEPT !.action_stack = Front(@)], Last(s.action_stack))

pop_context(s) ==
    LET n      == Len(s.action_stack)
        starts == { i \in 1 .. n : s.action_stack[i].action = "START_CONTEXT" }
        first  == CHOOSE i \in starts : \A j \in starts : j <= i
        popped[k \in 0 .. n - first + 1] == IF k = 0 THEN s ELSE pop_record(popped[k - 1])
    IN  popped[n - first + 1]

-----------------------------------------------------------------------------
(* Reading the clauses. *)

is_data_variable(s, var) == var \in s.data_variables

\* The literals of a clause that neither a unit literal nor a quantified
\* variable removes, by position: a duplicated literal counts twice.
FreePositions(s, cid) ==
    { i \in DOMAIN s.clauses[cid] : ~skip_literal(s, s.clauses[cid][i]) }

FreeLits(s, cid) == { lit \in Lits(s, cid) : ~skip_literal(s, lit) }

\* TAUTOLOGY, CONFLICT, the propagated unit literal, or zero.
propagate_clause(s, cid) ==
    LET free == FreePositions(s, cid) IN
    IF skip_clause(s, cid) THEN TAUTOLOGY
    ELSE IF free = {} THEN CONFLICT
    ELSE IF Cardinality(free) = 1
      THEN s.clauses[cid][CHOOSE i \in free : TRUE]
    ELSE 0

\* The clauses is_satisfiable gives to the SAT solver, and its answer.
ResidualClauses(s) ==
    { FreeLits(s, cid) :
        cid \in { c \in s.active_clauses : ~skip_clause(s, c) } }

BcpUnits(s) == { {lit} : lit \in s.bcp_unit_literals }

\* is_satisfiable also runs bcp(false) first: it changes the answer only by
\* reporting a conflict, and what it does to the clauses is undone by the
\* pop_context of the caller.
Satisfiable(s) ==
    ~s.has_conflict /\ Models(Variables, ResidualClauses(s) \cup BcpUnits(s)) # {}

\* The formula written to the file given to the external compiler: the unit
\* literals of data variables and the clauses that remain.  (A satisfied
\* clause is written too, with the literals that are not false.)
WrittenClauses(s) ==
    { {lit} : lit \in { l \in s.bcp_unit_literals : is_data_variable(s, IABS(l)) } }
      \cup { FreeLits(s, cid) : cid \in s.active_clauses }
=============================================================================

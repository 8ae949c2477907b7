----------------------------- MODULE Cnf_proofs -----------------------------
(***************************************************************************)
(* What the methods of class Cnf do to the fields of the object, for every *)
(* object of the right type: the facts the proofs about preprocessing use  *)
(* instead of the definitions.                                             *)
(***************************************************************************)
EXTENDS Cnf, Literals_proofs

\* The index by literals is that of the active clauses, which exist.
IndexExact(s) ==
    /\ s.active_clauses \subseteq DOMAIN s.clauses
    /\ \A lit \in Literal :
           s.literal_clauses[lit] = { cid \in s.active_clauses : lit \in Lits(s, cid) }

\* The IDs that clauses added to s receive.
AddedIds(s, clauses) == { Len(s.clauses) + i : i \in DOMAIN clauses }

\* What methods that change clauses leave alone, and the other way around.
SameAssignment(s, t) ==
    /\ t.unit_literals = s.unit_literals
    /\ t.bcp_unit_literals = s.bcp_unit_literals
    /\ t.uquantified_variables = s.uquantified_variables
    /\ t.has_conflict = s.has_conflict
    /\ t.data_variables = s.data_variables
    /\ t.tseitin_variables = s.tseitin_variables

SameClauses(s, t) ==
    /\ t.clauses = s.clauses
    /\ t.active_clauses = s.active_clauses
    /\ t.literal_clauses = s.literal_clauses

\* Old clauses are as they were.
OldClausesKept(s, t) ==
    /\ DOMAIN s.clauses \subseteq DOMAIN t.clauses
    /\ \A cid \in DOMAIN s.clauses : t.clauses[cid] = s.clauses[cid]

\* From s to t some clauses are added, and no variable is eliminated.
Adds(s, t, clauses) ==
    /\ OldClausesKept(s, t)
    /\ \A i \in DOMAIN clauses : t.clauses[Len(s.clauses) + i] = clauses[i]
    /\ t.active_clauses = s.active_clauses \cup AddedIds(s, clauses)
    /\ \A v \in Variables : t.variable_type[v] = "ELIM" <=> s.variable_type[v] = "ELIM"
    /\ SameAssignment(s, t)

\* From s to t some clauses are retired and nothing else is changed.
Retires(s, t, cids) ==
    /\ t.clauses = s.clauses
    /\ t.active_clauses = s.active_clauses \ cids
    /\ t.variable_type = s.variable_type
    /\ SameAssignment(s, t)

\* A literal is set as a propagated one.
Propagates(s, t, lit) ==
    /\ SameClauses(s, t)
    /\ t.variable_type = s.variable_type
    /\ t.unit_literals = s.unit_literals \cup {lit}
    /\ t.bcp_unit_literals = s.bcp_unit_literals \cup {lit}
    /\ t.uquantified_variables = s.uquantified_variables
    /\ t.has_conflict = s.has_conflict
    /\ t.data_variables = s.data_variables
    /\ t.tseitin_variables = s.tseitin_variables

-----------------------------------------------------------------------------
(* Clauses and their literals *)

\* The places of a sequence are finitely many.
LEMMA PlacesFinite == \A n \in Nat : IsFiniteSet(1 .. n)
  BY FS_Interval

\* Clause IDs count from one, and a clause is made of literals.
LEMMA ClauseFacts ==
  ASSUME NEW s \in CnfType, NEW cid \in DOMAIN s.clauses
  PROVE  /\ cid \in ClauseId /\ cid \in 1 .. Len(s.clauses)
         /\ s.clauses[cid] \in Seq(Literal)
         /\ DOMAIN s.clauses[cid] = 1 .. Len(s.clauses[cid])
         /\ Len(s.clauses[cid]) \in Nat
         /\ Lits(s, cid) \subseteq Literal
         /\ FreeLits(s, cid) \subseteq Lits(s, cid)
<1>1. s.clauses \in Seq(Seq(Literal))
   BY DEF CnfType
<1>2. /\ Len(s.clauses) \in Nat /\ cid \in 1 .. Len(s.clauses)
      /\ s.clauses[cid] \in Seq(Literal)
   BY <1>1, LenProperties, ElementOfSeq
<1>3. cid \in ClauseId
   BY <1>2 DEF ClauseId
<1>4. DOMAIN s.clauses[cid] = 1 .. Len(s.clauses[cid]) /\ Len(s.clauses[cid]) \in Nat
   BY <1>2, LenProperties
<1>5. Lits(s, cid) \subseteq Literal
   BY <1>2, ToSetSeq DEF Lits
<1> QED BY <1>2, <1>3, <1>4, <1>5 DEF FreeLits

\* A set of existing clauses is finite.
LEMMA ClausesFinite ==
  ASSUME NEW s \in CnfType, NEW cids \in SUBSET DOMAIN s.clauses
  PROVE  IsFiniteSet(cids) /\ cids \subseteq ClauseId /\ cids \subseteq Int
<1>1. DOMAIN s.clauses = 1 .. Len(s.clauses) /\ Len(s.clauses) \in Nat
   BY LenProperties DEF CnfType
<1>2. IsFiniteSet(1 .. Len(s.clauses))
   BY <1>1, PlacesFinite
<1>3. IsFiniteSet(cids)
   BY <1>1, <1>2, FS_Subset
<1> QED BY <1>1, <1>3 DEF ClauseId

\* A set of clauses is traversed completely.
LEMMA ClausesInOrder ==
  ASSUME NEW s \in CnfType, NEW cids \in SUBSET DOMAIN s.clauses
  PROVE  Ascending(cids) \in Seq(ClauseId) /\ ToSet(Ascending(cids)) = cids
<1>1. IsFiniteSet(cids) /\ cids \subseteq ClauseId /\ cids \subseteq Int
   BY ClausesFinite
<1>2. Ascending(cids) \in Seq(cids) /\ ToSet(Ascending(cids)) = cids
   BY <1>1, AscendingEnumerates
<1> QED BY <1>1, <1>2

\* Without quantified variables a literal is skipped only if it is false.
LEMMA FreeLitsFacts ==
  ASSUME NEW s, s.uquantified_variables = {}
  PROVE  /\ \A lit : skip_literal(s, lit) <=> -lit \in s.unit_literals
         /\ \A cid : FreeLits(s, cid) = { lit \in Lits(s, cid) : -lit \notin s.unit_literals }
  BY DEF FreeLits, skip_literal

\* What the free literals of a clause depend on.
LEMMA FreeLitsDepend ==
  ASSUME NEW s, NEW t, NEW cid, t.clauses[cid] = s.clauses[cid],
         t.unit_literals = s.unit_literals,
         t.uquantified_variables = s.uquantified_variables
  PROVE  Lits(t, cid) = Lits(s, cid) /\ FreeLits(t, cid) = FreeLits(s, cid)
  BY DEF Lits, FreeLits, skip_literal

\* The literals at the free positions are the free literals.
LEMMA FreePositionsFacts ==
  ASSUME NEW s \in CnfType, NEW cid \in DOMAIN s.clauses
  PROVE  /\ FreePositions(s, cid) \subseteq DOMAIN s.clauses[cid]
         /\ IsFiniteSet(FreePositions(s, cid))
         /\ FreePositions(s, cid) \subseteq Nat
         /\ \A i \in FreePositions(s, cid) : s.clauses[cid][i] \in FreeLits(s, cid)
         /\ \A lit \in FreeLits(s, cid) : \E i \in FreePositions(s, cid) : s.clauses[cid][i] = lit
<1>1. DOMAIN s.clauses[cid] = 1 .. Len(s.clauses[cid]) /\ Len(s.clauses[cid]) \in Nat
   BY ClauseFacts
<1>2. FreePositions(s, cid) \in SUBSET (1 .. Len(s.clauses[cid]))
   BY <1>1 DEF FreePositions
<1>3. IsFiniteSet(FreePositions(s, cid))
   BY <1>1, <1>2, PlacesFinite, FS_Subset
<1> QED BY <1>1, <1>2, <1>3 DEF FreePositions, FreeLits, Lits, ToSet

-----------------------------------------------------------------------------
(* The methods *)

\* Adding clauses keeps the old ones, and indexes the new ones.
LEMMA AddClausesFacts ==
  ASSUME NEW s \in CnfType, NEW clauses \in Seq(Seq(Literal)), IndexExact(s),
         NEW t, t = AddClauses(s, clauses)
  PROVE  /\ t \in CnfType
         /\ IndexExact(t)
         /\ Adds(s, t, clauses)
         /\ AddedIds(s, clauses) \subseteq DOMAIN t.clauses
         /\ AddedIds(s, clauses) \cap DOMAIN s.clauses = {}
<1> DEFINE n == Len(s.clauses)
           ids == AddedIds(s, clauses)
           holding(lit) == { i \in DOMAIN clauses : lit \in ToSet(clauses[i]) }
           map == [lit \in Literal |-> s.literal_clauses[lit] \cup { n + i : i \in holding(lit) }]
           type == [v \in Variables |->
               IF s.variable_type[v] = "UNUSED" /\ holding(v) \cup holding(-v) # {}
                 THEN "NONTSEITIN" ELSE s.variable_type[v]]
           all == s.clauses \o clauses
<1>1. t = [s EXCEPT !.clauses = all, !.active_clauses = s.active_clauses \cup ids,
                    !.literal_clauses = map, !.variable_type = type]
   BY DEF AddClauses, AddedIds
<1>2. /\ s.clauses \in Seq(Seq(Literal)) /\ s.active_clauses \in SUBSET ClauseId
      /\ s.literal_clauses \in [Literal -> SUBSET ClauseId]
      /\ s.variable_type \in [Variables -> VariableType]
   BY DEF CnfType
<1>3. /\ n \in Nat /\ DOMAIN s.clauses = 1 .. n
      /\ Len(clauses) \in Nat /\ DOMAIN clauses = 1 .. Len(clauses)
   BY <1>2, LenProperties
<1>4. /\ all \in Seq(Seq(Literal)) /\ Len(all) = n + Len(clauses)
      /\ \A i \in 1 .. n + Len(clauses) :
             all[i] = IF i <= n THEN s.clauses[i] ELSE clauses[i - n]
   BY <1>2, ConcatProperties
<1>5. DOMAIN all = 1 .. n + Len(clauses)
   BY <1>4, LenProperties
<1>6. ids \subseteq ClauseId /\ ids \subseteq DOMAIN all /\ ids \cap DOMAIN s.clauses = {}
      /\ \A lit : { n + i : i \in holding(lit) } \subseteq ids
   BY <1>3, <1>5 DEF AddedIds, ClauseId
<1>7. \A cid \in DOMAIN s.clauses : all[cid] = s.clauses[cid] /\ cid \in DOMAIN all
   BY <1>3, <1>4, <1>5
<1>8. \A i \in DOMAIN clauses : all[n + i] = clauses[i]
   <2>1. TAKE i \in DOMAIN clauses
   <2>2. n + i \in 1 .. n + Len(clauses) /\ ~(n + i <= n) /\ (n + i) - n = i
      BY <1>3, SMTT(30)
   <2> QED BY <1>4, <2>2
<1>9. type \in [Variables -> VariableType]
   BY <1>2 DEF VariableType
<1>10. map \in [Literal -> SUBSET ClauseId]
   BY <1>2, <1>6
<1> DEFINE active == s.active_clauses \cup ids
<1>16. active \in SUBSET ClauseId
   BY <1>2, <1>6
<1> HIDE DEF n, ids, map, type, all, active
<1>11. t \in CnfType
   <2>1. [s EXCEPT !.clauses = all, !.active_clauses = active,
                   !.literal_clauses = map, !.variable_type = type] \in CnfType
      BY <1>4, <1>9, <1>10, <1>16 DEF CnfType
   <2> QED BY <1>1, <2>1 DEF active
<1>12. /\ t.clauses = all /\ t.active_clauses = s.active_clauses \cup ids
       /\ t.literal_clauses = map /\ t.variable_type = type
   BY <1>1 DEF CnfType
<1>13. IndexExact(t)
   <2>1. t.active_clauses \subseteq DOMAIN t.clauses
      BY <1>6, <1>7, <1>12 DEF IndexExact
   <2>2. ASSUME NEW lit \in Literal
         PROVE  t.literal_clauses[lit] = { cid \in t.active_clauses : lit \in Lits(t, cid) }
      <3>1. map[lit] = s.literal_clauses[lit] \cup { n + i : i \in holding(lit) }
         BY DEF map
      <3>2. \A cid \in s.active_clauses : Lits(t, cid) = Lits(s, cid)
         BY <1>7, <1>12 DEF Lits, IndexExact
      <3>3. \A i \in DOMAIN clauses : Lits(t, n + i) = ToSet(clauses[i])
         BY <1>8, <1>12 DEF Lits
      <3>4. { n + i : i \in holding(lit) } = { cid \in ids : lit \in Lits(t, cid) }
         BY <3>3 DEF ids, AddedIds, n
      <3>5. s.literal_clauses[lit] = { cid \in s.active_clauses : lit \in Lits(t, cid) }
         BY <3>2 DEF IndexExact
      <3> HIDE DEF holding
      <3> QED BY <1>12, <3>1, <3>4, <3>5
   <2> QED BY <2>1, <2>2 DEF IndexExact
<1>14. \A v \in Variables : t.variable_type[v] = "ELIM" <=> s.variable_type[v] = "ELIM"
   BY <1>12 DEF type
<1>15. SameAssignment(s, t)
   BY <1>1 DEF SameAssignment
<1> QED BY <1>6, <1>7, <1>8, <1>11, <1>12, <1>13, <1>14, <1>15 DEF n, ids, Adds, OldClausesKept

\* Logging a record keeps the object well typed.
LEMMA LogType ==
  ASSUME NEW s \in CnfType, NEW a \in ActionType, NEW ele \in Int
  PROVE  Log(s, a, ele) \in CnfType
<1> DEFINE r == [action |-> a, ele |-> ele]
<1>1. r \in ActionRecord BY DEF ActionRecord
<1>2. s.action_stack \in Seq(ActionRecord) BY DEF CnfType
<1>3. Append(s.action_stack, r) \in Seq(ActionRecord)
   BY <1>1, <1>2, AppendProperties
<1> HIDE DEF r
<1>4. [s EXCEPT !.action_stack = Append(@, r)] \in CnfType
   BY <1>3 DEF CnfType
<1> QED BY <1>4 DEF Log, r

\* Retiring clauses takes them out of the set and out of the index.
LEMMA DeactivateClausesFacts ==
  ASSUME NEW s \in CnfType, NEW remove \in Seq(ClauseId), IndexExact(s),
         NEW t, t = deactivate_clauses(s, remove)
  PROVE  /\ t \in CnfType
         /\ IndexExact(t)
         /\ Retires(s, t, ToSet(remove))
<1> DEFINE removed == ToSet(remove)
           active == s.active_clauses \ removed
           map == [lit \in Literal |->
                      s.literal_clauses[lit] \ { cid \in removed : lit \in Lits(s, cid) }]
           records == [i \in DOMAIN remove |->
                          [action |-> "DEACTIVATE_CLAUSE", ele |-> remove[i]]]
           stack == s.action_stack \o records
<1>1. t = [s EXCEPT !.literal_clauses = map, !.active_clauses = active, !.action_stack = stack]
   BY DEF deactivate_clauses
<1>2. active \in SUBSET ClauseId
   BY DEF CnfType
<1>3. map \in [Literal -> SUBSET ClauseId]
   BY DEF CnfType
<1>4. stack \in Seq(ActionRecord)
   <2>1. \A i \in 1 .. Len(remove) : remove[i] \in Int
      BY ElementOfSeq DEF ClauseId
   <2>2. records \in [1 .. Len(remove) -> ActionRecord] /\ Len(remove) \in Nat
      BY <2>1, LenProperties DEF ActionRecord, ActionType
   <2> HIDE DEF records
   <2>3. records \in Seq(ActionRecord)
      BY <2>2, FunctionIsSeq
   <2> QED BY <2>3, ConcatProperties DEF CnfType
<1> HIDE DEF map, stack, active
<1>5. t \in CnfType
   <2>1. [s EXCEPT !.literal_clauses = map, !.active_clauses = active,
                   !.action_stack = stack] \in CnfType
      BY <1>2, <1>3, <1>4 DEF CnfType
   <2> QED BY <1>1, <2>1
<1>6. /\ t.clauses = s.clauses /\ t.active_clauses = active /\ t.literal_clauses = map
      /\ t.variable_type = s.variable_type /\ SameAssignment(s, t)
   BY <1>1 DEF CnfType, SameAssignment
<1>7. IndexExact(t)
   <2>1. ASSUME NEW lit \in Literal
         PROVE  t.literal_clauses[lit] = { cid \in t.active_clauses : lit \in Lits(t, cid) }
      <3>1. s.literal_clauses[lit] = { cid \in s.active_clauses : lit \in Lits(s, cid) }
         BY DEF IndexExact
      <3>2. map[lit] = s.literal_clauses[lit] \ { cid \in removed : lit \in Lits(s, cid) }
         BY DEF map
      <3> QED BY <1>6, <3>1, <3>2 DEF active, Lits
   <2> QED BY <1>6, <2>1 DEF IndexExact, active
<1> QED BY <1>5, <1>6, <1>7 DEF active, Retires

\* The same for one clause.
LEMMA DeactivateClauseFacts ==
  ASSUME NEW s \in CnfType, NEW cid \in ClauseId, IndexExact(s),
         NEW t, t = deactivate_clause(s, cid)
  PROVE  /\ t \in CnfType
         /\ IndexExact(t)
         /\ Retires(s, t, {cid})
<1> DEFINE active == s.active_clauses \ {cid}
           map == [lit \in Literal |->
                      s.literal_clauses[lit] \ (IF lit \in Lits(s, cid) THEN {cid} ELSE {})]
           u == [s EXCEPT !.literal_clauses = map, !.active_clauses = active]
<1>1. active \in SUBSET ClauseId
   BY DEF CnfType
<1>2. map \in [Literal -> SUBSET ClauseId]
   BY DEF CnfType
<1>3. t = Log(u, "DEACTIVATE_CLAUSE", cid)
   BY DEF deactivate_clause
<1> HIDE DEF map, active
<1>4. u \in CnfType
   BY <1>1, <1>2 DEF CnfType
<1>5. t \in CnfType
   BY <1>3, <1>4, LogType DEF ActionType, ClauseId
<1>6. /\ t.clauses = s.clauses /\ t.active_clauses = active /\ t.literal_clauses = map
      /\ t.variable_type = s.variable_type /\ SameAssignment(s, t)
   BY <1>3, <1>4 DEF CnfType, SameAssignment, Log
<1>7. IndexExact(t)
   <2>1. ASSUME NEW lit \in Literal
         PROVE  t.literal_clauses[lit] = { c \in t.active_clauses : lit \in Lits(t, c) }
      <3>1. s.literal_clauses[lit] = { c \in s.active_clauses : lit \in Lits(s, c) }
         BY DEF IndexExact
      <3>2. map[lit] = s.literal_clauses[lit] \ (IF lit \in Lits(s, cid) THEN {cid} ELSE {})
         BY DEF map
      <3> QED BY <1>6, <3>1, <3>2 DEF active, Lits
   <2> QED BY <1>6, <2>1 DEF IndexExact, active
<1> QED BY <1>5, <1>6, <1>7 DEF active, Retires

\* Propagating a literal whose variable has no value yet.
LEMMA AssignFacts ==
  ASSUME NEW s \in CnfType, NEW lit \in Literal,
         lit \notin s.unit_literals, -lit \notin s.unit_literals,
         NEW t, t = assign_literal(s, lit, TRUE)
  PROVE  /\ t \in CnfType
         /\ Propagates(s, t, lit)
<1> DEFINE u == [s EXCEPT !.unit_literals = @ \cup {lit}, !.bcp_unit_literals = @ \cup {lit}]
<1>1. t = Log(u, "BCP", lit)
   BY DEF assign_literal
<1>2. u \in CnfType
   BY DEF CnfType
<1>3. t \in CnfType
   BY <1>1, <1>2, LiteralFacts, LogType DEF ActionType
<1> QED BY <1>1, <1>3 DEF Log, CnfType, SameClauses, Propagates

\* A conflict changes the flag.
LEMMA ConflictFacts ==
  ASSUME NEW s \in CnfType, NEW t, t = trigger_conflict(s)
  PROVE  /\ t \in CnfType
         /\ SameClauses(s, t)
         /\ t.variable_type = s.variable_type
         /\ t.has_conflict
         /\ t.unit_literals = s.unit_literals
         /\ t.bcp_unit_literals = s.bcp_unit_literals
         /\ t.uquantified_variables = s.uquantified_variables
         /\ t.data_variables = s.data_variables
         /\ t.tseitin_variables = s.tseitin_variables
<1> DEFINE u == [s EXCEPT !.has_conflict = TRUE]
<1>1. t = Log(u, "CONFLICT", 0)
   BY DEF trigger_conflict
<1>2. u \in CnfType
   BY DEF CnfType
<1>3. t \in CnfType
   BY <1>1, <1>2, LogType DEF ActionType
<1> QED BY <1>1, <1>3 DEF Log, CnfType, SameClauses
\* push_active leaves the formula alone but for the set of active clauses.
LEMMA PushActiveFacts ==
  ASSUME NEW s \in CnfType, NEW nactive \in SUBSET ClauseId,
         NEW t, t = push_active(s, nactive)
  PROVE  /\ t \in CnfType
         /\ t.clauses = s.clauses /\ t.active_clauses = nactive
         /\ SameAssignment(s, t)
<1> DEFINE saved == [active_clauses |-> s.active_clauses, literal_clauses |-> s.literal_clauses]
           map   == [lit \in Literal |->
               { cid \in nactive : lit \in Lits(s, cid) /\ ~skip_literal(s, lit) }]
           stack == Append(s.active_stack, saved)
           u     == [s EXCEPT !.active_stack = stack, !.active_clauses = nactive,
                              !.literal_clauses = map]
<1>1. saved \in ActiveRecord /\ s.active_stack \in Seq(ActiveRecord)
   BY DEF ActiveRecord, CnfType
<1>2. stack \in Seq(ActiveRecord)
   BY <1>1, AppendProperties
<1>3. map \in [Literal -> SUBSET ClauseId]
   OBVIOUS
<1>4. t = Log(u, "ACTIVE_CLAUSES", 0)
   BY DEF push_active
<1> HIDE DEF stack, map
<1>5. u \in CnfType
   BY <1>2, <1>3 DEF CnfType
<1>6. t \in CnfType
   BY <1>4, <1>5, LogType DEF ActionType
<1> QED BY <1>4, <1>6 DEF Log, CnfType, SameAssignment
-----------------------------------------------------------------------------
(* Contexts *)

\* s without its conflict.  Undoing a conflict clears the flag, also when it was
\* set before: pop_context may return to s in this form only.
Calm(s) == [s EXCEPT !.has_conflict = FALSE]

\* t is s after a change that has been logged and can be taken back.
Logged(s, t) ==
    /\ pop_record(t) \in {s, Calm(s)}
    /\ \E r \in ActionRecord : /\ r.action # "START_CONTEXT"
                               /\ t.action_stack = Append(s.action_stack, r)

\* t has been reached from s in one context: taking back what has been logged
\* since gives s.
Depth(s, t) == Len(t.action_stack) - Len(s.action_stack)

Unwound(s, t, g) ==
    /\ g[0] = t /\ g[Depth(s, t)] \in {s, Calm(s)}
    /\ \A k \in 1 .. Depth(s, t) :
          /\ g[k] = pop_record(g[k - 1])
          /\ g[k - 1] \in CnfType /\ Last(g[k - 1].action_stack) \in ActionRecord

Within(s, t) ==
    /\ Depth(s, t) \in Nat
    /\ \A i \in 1 .. Len(s.action_stack) : t.action_stack[i] = s.action_stack[i]
    /\ \A i \in Len(s.action_stack) + 1 .. Len(t.action_stack) :
           t.action_stack[i].action # "START_CONTEXT"
    /\ \E g : Unwound(s, t, g)

\* The places where contexts have been opened.
Starts(s) ==
    { i \in 1 .. Len(s.action_stack) : s.action_stack[i].action = "START_CONTEXT" }

\* Taking back a change does not read the flag.
LEMMA UndoCalm ==
  ASSUME NEW x \in CnfType, NEW a, NEW r, r.action \in ActionType
  PROVE  undo([Calm(x) EXCEPT !.action_stack = a], r) = Calm(undo([x EXCEPT !.action_stack = a], r))
<1> DEFINE u == [x EXCEPT !.action_stack = a]
           v == [Calm(x) EXCEPT !.action_stack = a]
<1>1. CASE r.action = "START_CONTEXT"
   <2>1. undo(u, r) = u /\ undo(v, r) = v
      BY <1>1 DEF undo
   <2>2. v = Calm(u)
      BY DEF Calm, CnfType
   <2> QED BY <2>1, <2>2
<1>2. CASE r.action = "CONFLICT"
   <2>1. undo(u, r) = [u EXCEPT !.has_conflict = FALSE] /\ undo(v, r) = [v EXCEPT !.has_conflict = FALSE]
      BY <1>2 DEF undo
   <2>2. [v EXCEPT !.has_conflict = FALSE] = Calm([u EXCEPT !.has_conflict = FALSE])
      BY DEF Calm, CnfType
   <2> QED BY <2>1, <2>2
<1>3. CASE r.action = "DEACTIVATE_CLAUSE"
   <2>1. undo(u, r) = activate_clause(u, r.ele) /\ undo(v, r) = activate_clause(v, r.ele)
      BY <1>3 DEF undo
   <2>3. \A c : Lits(u, c) = Lits(x, c) /\ Lits(v, c) = Lits(x, c)
      BY DEF Lits, Calm, CnfType
   <2>4. u.literal_clauses = x.literal_clauses /\ v.literal_clauses = x.literal_clauses
         /\ u.active_clauses = x.active_clauses /\ v.active_clauses = x.active_clauses
      BY DEF Calm, CnfType
   <2>5. v = Calm(u) /\ u = [x EXCEPT !.action_stack = a]
      BY DEF Calm, CnfType
   <2> DEFINE map == [lit \in Literal |-> x.literal_clauses[lit] \cup (IF lit \in Lits(x, r.ele) THEN {r.ele} ELSE {})]
              act == x.active_clauses \cup {r.ele}
   <2> HIDE DEF u, v
   <2>6. activate_clause(u, r.ele) = [u EXCEPT !.literal_clauses = map, !.active_clauses = act]
      BY <2>3, <2>4 DEF activate_clause
   <2>7. activate_clause(v, r.ele) = [v EXCEPT !.literal_clauses = map, !.active_clauses = act]
      BY <2>3, <2>4 DEF activate_clause
   <2> HIDE DEF map, act
   <2>8. [v EXCEPT !.literal_clauses = map, !.active_clauses = act] = Calm([u EXCEPT !.literal_clauses = map, !.active_clauses = act])
      BY <2>5 DEF Calm, CnfType
   <2> QED BY <2>1, <2>6, <2>7, <2>8 DEF u, v
<1>4. CASE r.action = "BCP"
   <2> DEFINE b == x.bcp_unit_literals \ {r.ele}
              t == x.unit_literals \ {r.ele}
   <2>1. undo(u, r) = [u EXCEPT !.bcp_unit_literals = b, !.unit_literals = t]
         /\ undo(v, r) = [v EXCEPT !.bcp_unit_literals = b, !.unit_literals = t]
      BY <1>4 DEF undo, Calm, CnfType
   <2> HIDE DEF b, t
   <2>2. [v EXCEPT !.bcp_unit_literals = b, !.unit_literals = t] = Calm([u EXCEPT !.bcp_unit_literals = b, !.unit_literals = t])
      BY DEF Calm, CnfType
   <2> QED BY <2>1, <2>2
<1>5. CASE r.action = "ASSERT"
   <2> DEFINE t == x.unit_literals \ {r.ele}
   <2>1. undo(u, r) = [u EXCEPT !.unit_literals = t] /\ undo(v, r) = [v EXCEPT !.unit_literals = t]
      BY <1>5 DEF undo, Calm, CnfType
   <2> HIDE DEF t
   <2>2. [v EXCEPT !.unit_literals = t] = Calm([u EXCEPT !.unit_literals = t])
      BY DEF Calm, CnfType
   <2> QED BY <2>1, <2>2
<1>6. CASE r.action = "ASSERT_FROM_BCP"
   <2> DEFINE t == x.bcp_unit_literals \cup {r.ele}
   <2>1. undo(u, r) = [u EXCEPT !.bcp_unit_literals = t] /\ undo(v, r) = [v EXCEPT !.bcp_unit_literals = t]
      BY <1>6 DEF undo, Calm, CnfType
   <2> HIDE DEF t
   <2>2. [v EXCEPT !.bcp_unit_literals = t] = Calm([u EXCEPT !.bcp_unit_literals = t])
      BY DEF Calm, CnfType
   <2> QED BY <2>1, <2>2
<1>7. CASE r.action = "UQUANTIFY"
   <2> DEFINE t == x.uquantified_variables \ {r.ele}
   <2>1. undo(u, r) = [u EXCEPT !.uquantified_variables = t] /\ undo(v, r) = [v EXCEPT !.uquantified_variables = t]
      BY <1>7 DEF undo, Calm, CnfType
   <2> HIDE DEF t
   <2>2. [v EXCEPT !.uquantified_variables = t] = Calm([u EXCEPT !.uquantified_variables = t])
      BY DEF Calm, CnfType
   <2> QED BY <2>1, <2>2
<1>8. CASE r.action = "ACTIVE_CLAUSES"
   <2> DEFINE b == Last(x.active_stack).active_clauses
              t == Last(x.active_stack).literal_clauses
              f == Front(x.active_stack)
   <2>1. undo(u, r) = [u EXCEPT !.active_clauses = b, !.literal_clauses = t, !.active_stack = f]
      BY <1>8 DEF undo, CnfType
   <2>2. undo(v, r) = [v EXCEPT !.active_clauses = b, !.literal_clauses = t, !.active_stack = f]
      BY <1>8 DEF undo, CnfType, Calm
   <2> HIDE DEF b, t, f
   <2>3. [v EXCEPT !.active_clauses = b, !.literal_clauses = t, !.active_stack = f]
          = Calm([u EXCEPT !.active_clauses = b, !.literal_clauses = t, !.active_stack = f])
      BY DEF Calm, CnfType
   <2> QED BY <2>1, <2>2, <2>3
<1> QED BY <1>1, <1>2, <1>3, <1>4, <1>5, <1>6, <1>7, <1>8 DEF ActionType

LEMMA PopCalm ==
  ASSUME NEW x \in CnfType, Last(x.action_stack) \in ActionRecord
  PROVE  pop_record(Calm(x)) = Calm(pop_record(x))
<1> DEFINE a == Front(x.action_stack)
           r == Last(x.action_stack)
<1>1. Calm(x).action_stack = x.action_stack
   BY DEF Calm, CnfType
<1>2. pop_record(x) = undo([x EXCEPT !.action_stack = a], r)
   BY DEF pop_record
<1>3. pop_record(Calm(x)) = undo([Calm(x) EXCEPT !.action_stack = a], r)
   BY <1>1 DEF pop_record
<1>4. r.action \in ActionType
   BY DEF ActionRecord
<1> HIDE DEF a, r
<1> QED BY <1>2, <1>3, <1>4, UndoCalm

LEMMA CalmFacts ==
  ASSUME NEW s \in CnfType
  PROVE  /\ Calm(s) \in CnfType /\ Calm(Calm(s)) = Calm(s)
         /\ SameClauses(s, Calm(s))
         /\ Calm(s).unit_literals = s.unit_literals
         /\ Calm(s).bcp_unit_literals = s.bcp_unit_literals
         /\ Calm(s).uquantified_variables = s.uquantified_variables
         /\ Calm(s).data_variables = s.data_variables
         /\ Calm(s).variable_type = s.variable_type
         /\ Calm(s).action_stack = s.action_stack
         /\ ~Calm(s).has_conflict
         /\ (~s.has_conflict => Calm(s) = s)
<1>1. Calm(s) \in CnfType /\ Calm(Calm(s)) = Calm(s) /\ (~s.has_conflict => Calm(s) = s)
   BY DEF Calm, CnfType
<1> QED BY <1>1 DEF Calm, CnfType, SameClauses

LEMMA StackFacts ==
  ASSUME NEW s \in CnfType
  PROVE  /\ s.action_stack \in Seq(ActionRecord) /\ Len(s.action_stack) \in Nat
         /\ DOMAIN s.action_stack = 1 .. Len(s.action_stack)
<1>1. s.action_stack \in Seq(ActionRecord)
   BY DEF CnfType
<1> QED BY <1>1, LenProperties

LEMMA WithinReflexive ==
  ASSUME NEW s \in CnfType
  PROVE  Within(s, s)
<1> DEFINE n == Len(s.action_stack)
<1>1. n \in Nat
   BY StackFacts
<1> HIDE DEF n
<1>2. n - n = 0 /\ n + 1 .. n = {} /\ 1 .. 0 = {}
   BY <1>1
<1>3. Depth(s, s) = 0
   BY <1>2 DEF Depth, n
<1> DEFINE g == [k \in {0} |-> s]
<1>4. g[0] = s
   OBVIOUS
<1> HIDE DEF g
<1>5. Unwound(s, s, g)
   BY <1>2, <1>3, <1>4 DEF Unwound
<1> QED BY <1>2, <1>3, <1>5 DEF Within, n

\* One more record.
LEMMA WithinLogged ==
  ASSUME NEW s \in CnfType, NEW t \in CnfType, NEW u \in CnfType, Within(s, t), Logged(t, u)
  PROVE  Within(s, u)
<1> DEFINE a == s.action_stack
           b == t.action_stack
           c == u.action_stack
           d == Depth(s, t)
<1>1. Len(a) \in Nat /\ b \in Seq(ActionRecord) /\ Len(b) \in Nat
   BY StackFacts
<1>2. PICK r \in ActionRecord : r.action # "START_CONTEXT" /\ c = Append(b, r)
   BY DEF Logged
<1>3. /\ Len(c) = Len(b) + 1 /\ c[Len(b) + 1] = r
      /\ \A i \in 1 .. Len(b) : c[i] = b[i]
   BY <1>1, <1>2, AppendProperties
<1>4. d = Len(b) - Len(a) /\ d \in Nat
   BY DEF Within, Depth
<1>5. Depth(s, u) = d + 1 /\ d + 1 \in Nat /\ Len(a) <= Len(b)
   BY <1>1, <1>3, <1>4 DEF Depth
<1>6. \A i \in 1 .. Len(a) : c[i] = a[i]
   <2>1. \A i \in 1 .. Len(a) : i \in 1 .. Len(b)
      BY <1>1, <1>5
   <2> QED BY <1>3, <2>1 DEF Within
<1>7. \A i \in Len(a) + 1 .. Len(c) : c[i].action # "START_CONTEXT"
   <2>1. TAKE i \in Len(a) + 1 .. Len(c)
   <2>2. CASE i = Len(b) + 1
      BY <1>2, <1>3, <2>2
   <2>3. CASE i # Len(b) + 1
      <3>1. i \in Len(a) + 1 .. Len(b) /\ i \in 1 .. Len(b)
         BY <1>1, <1>3, <2>3
      <3> QED BY <1>3, <3>1 DEF Within
   <2> QED BY <2>2, <2>3
<1>8. PICK g : Unwound(s, t, g)
   BY DEF Within
<1> HIDE DEF d
<1>9. /\ g[0] = t /\ g[d] \in {s, Calm(s)}
      /\ \A k \in 1 .. d : /\ g[k] = pop_record(g[k - 1])
                           /\ g[k - 1] \in CnfType /\ Last(g[k - 1].action_stack) \in ActionRecord
   BY <1>8 DEF Unwound, d
<1>10. Last(c) \in ActionRecord
   BY <1>1, <1>2, FrontLastAppend
<1>11. \E h : Unwound(s, u, h)
   <2>1. CASE pop_record(u) = t
      <3> DEFINE h == [k \in 0 .. d + 1 |-> IF k = 0 THEN u ELSE g[k - 1]]
      <3>1. h[0] = u
         BY <1>4
      <3>2. h[d + 1] \in {s, Calm(s)}
         <4>1. d + 1 \in 0 .. d + 1 /\ d + 1 # 0 /\ d + 1 - 1 = d
            BY <1>4
         <4>2. d \in Nat
            BY <1>4
         <4>3. h[d + 1] = g[d]
            BY <4>1, <4>2
         <4> QED BY <1>9, <4>3
      <3>3. ASSUME NEW k \in 1 .. d + 1
            PROVE  /\ h[k] = pop_record(h[k - 1])
                   /\ h[k - 1] \in CnfType /\ Last(h[k - 1].action_stack) \in ActionRecord
         <4>1. k \in 0 .. d + 1 /\ k # 0 /\ k - 1 \in 0 .. d + 1 /\ k - 1 \in Nat
            BY <1>4
         <4>2. CASE k = 1
            <5>1. h[k] = g[0] /\ h[k - 1] = u
               BY <4>1, <4>2
            <5> QED BY <1>9, <1>10, <2>1, <5>1
         <4>3. CASE k # 1
            <5>1. k - 1 # 0 /\ k - 1 \in 1 .. d
               BY <1>4, <4>3
            <5>2. h[k] = g[k - 1] /\ h[k - 1] = g[k - 1 - 1]
               BY <4>1, <5>1
            <5> QED BY <1>9, <5>1, <5>2
         <4> QED BY <4>2, <4>3
      <3> HIDE DEF h
      <3> QED BY <1>5, <3>1, <3>2, <3>3 DEF Unwound
   <2>2. CASE pop_record(u) = Calm(t)
      <3> DEFINE h == [k \in 0 .. d + 1 |-> IF k = 0 THEN u ELSE Calm(g[k - 1])]
      <3>1. h[0] = u
         BY <1>4
      <3>2. h[d + 1] \in {s, Calm(s)}
         <4>1. d + 1 \in 0 .. d + 1 /\ d + 1 # 0 /\ d + 1 - 1 = d
            BY <1>4
         <4>2. d \in Nat
            BY <1>4
         <4>3. h[d + 1] = Calm(g[d])
            BY <4>1, <4>2
         <4> HIDE DEF h
         <4> QED BY <1>9, <4>3, CalmFacts
      <3>3. ASSUME NEW k \in 1 .. d + 1
            PROVE  /\ h[k] = pop_record(h[k - 1])
                   /\ h[k - 1] \in CnfType /\ Last(h[k - 1].action_stack) \in ActionRecord
         <4>1. k \in 0 .. d + 1 /\ k # 0 /\ k - 1 \in 0 .. d + 1 /\ k - 1 \in Nat
            BY <1>4
         <4>2. CASE k = 1
            <5>1. h[k] = Calm(g[0]) /\ h[k - 1] = u
               BY <4>1, <4>2
            <5> QED BY <1>9, <1>10, <2>2, <5>1
         <4>3. CASE k # 1
            <5>1. k - 1 # 0 /\ k - 1 \in 1 .. d
               BY <1>4, <4>3
            <5>2. h[k] = Calm(g[k - 1]) /\ h[k - 1] = Calm(g[k - 1 - 1])
               BY <4>1, <5>1
            <5> HIDE DEF h
            <5>3. pop_record(Calm(g[k - 1 - 1])) = Calm(g[k - 1])
               BY <1>9, <5>1, PopCalm
            <5>4. /\ Calm(g[k - 1 - 1]) \in CnfType
                  /\ Calm(g[k - 1 - 1]).action_stack = g[k - 1 - 1].action_stack
               BY <1>9, <5>1, CalmFacts
            <5> QED BY <1>9, <5>1, <5>2, <5>3, <5>4
         <4> QED BY <4>2, <4>3
      <3> HIDE DEF h
      <3> QED BY <1>5, <3>1, <3>2, <3>3 DEF Unwound
   <2> QED BY <2>1, <2>2 DEF Logged
<1> QED BY <1>5, <1>6, <1>7, <1>11 DEF Within

\* What has been reached in a context stays so when the conflict is cleared:
\* an inner pop_context may do that.
LEMMA WithinCalm ==
  ASSUME NEW s \in CnfType, NEW t \in CnfType, Within(s, t)
  PROVE  Within(s, Calm(t))
<1> DEFINE d == Depth(s, t)
           u == Calm(t)
<1>1. u \in CnfType /\ u.action_stack = t.action_stack
   BY CalmFacts
<1> HIDE DEF u
<1>2. Depth(s, u) = d /\ d \in Nat
   BY <1>1 DEF Depth, Within
<1>3. PICK g : Unwound(s, t, g)
   BY DEF Within
<1> HIDE DEF d
<1>4. /\ g[0] = t /\ g[d] \in {s, Calm(s)}
      /\ \A k \in 1 .. d : /\ g[k] = pop_record(g[k - 1])
                           /\ g[k - 1] \in CnfType /\ Last(g[k - 1].action_stack) \in ActionRecord
   BY <1>3 DEF Unwound, d
<1> DEFINE h == [k \in 0 .. d |-> Calm(g[k])]
<1>5. h[0] = u /\ h[d] = Calm(g[d])
   <2>1. 0 \in 0 .. d /\ d \in 0 .. d
      BY <1>2
   <2> QED BY <1>4, <2>1 DEF u
<1>6. h[d] \in {s, Calm(s)}
   <2> HIDE DEF h
   <2> QED BY <1>4, <1>5, CalmFacts
<1>7. ASSUME NEW k \in 1 .. d
      PROVE  /\ h[k] = pop_record(h[k - 1])
             /\ h[k - 1] \in CnfType /\ Last(h[k - 1].action_stack) \in ActionRecord
   <2>1. k \in 0 .. d /\ k - 1 \in 0 .. d
      BY <1>2
   <2>2. h[k] = Calm(g[k]) /\ h[k - 1] = Calm(g[k - 1])
      BY <2>1
   <2> HIDE DEF h
   <2>3. pop_record(Calm(g[k - 1])) = Calm(g[k])
      BY <1>4, PopCalm
   <2>4. Calm(g[k - 1]) \in CnfType /\ Calm(g[k - 1]).action_stack = g[k - 1].action_stack
      BY <1>4, CalmFacts
   <2> QED BY <1>4, <2>2, <2>3, <2>4
<1> HIDE DEF h
<1>8. Unwound(s, u, h)
   BY <1>2, <1>5, <1>6, <1>7 DEF Unwound
<1>9. Within(s, u)
   BY <1>1, <1>2, <1>8 DEF Within
<1> QED BY <1>9 DEF u

\* Opening a context logs a START_CONTEXT.
LEMMA NewContextFacts ==
  ASSUME NEW s \in CnfType, NEW t, t = new_context(s)
  PROVE  /\ t \in CnfType /\ SameClauses(s, t) /\ SameAssignment(s, t)
         /\ t.variable_type = s.variable_type
         /\ pop_record(t) = s
         /\ Len(t.action_stack) = Len(s.action_stack) + 1
         /\ Starts(t) = Starts(s) \cup {Len(s.action_stack) + 1}
<1> DEFINE r == [action |-> "START_CONTEXT", ele |-> 0]
           a == s.action_stack
<1>1. r \in ActionRecord /\ r.action = "START_CONTEXT"
   BY DEF ActionRecord, ActionType
<1>2. t = [s EXCEPT !.action_stack = Append(a, r)]
   BY DEF new_context, Log
<1>3. t \in CnfType
   BY LogType DEF new_context, ActionType
<1>4. a \in Seq(ActionRecord) /\ Len(a) \in Nat
   BY StackFacts
<1> HIDE DEF r
<1>5. /\ SameClauses(s, t) /\ SameAssignment(s, t) /\ t.variable_type = s.variable_type
      /\ t.action_stack = Append(a, r)
   BY <1>2 DEF CnfType, SameClauses, SameAssignment
<1>6. Front(Append(a, r)) = a /\ Last(Append(a, r)) = r
   BY <1>1, <1>4, FrontLastAppend
<1>7. [t EXCEPT !.action_stack = a] = s
   BY <1>2 DEF CnfType
<1>8. pop_record(t) = undo([t EXCEPT !.action_stack = a], r)
   BY <1>5, <1>6 DEF pop_record
<1>9. undo(s, r) = s
   BY <1>1 DEF undo
<1>10. /\ Len(t.action_stack) = Len(a) + 1 /\ t.action_stack[Len(a) + 1] = r
       /\ \A i \in 1 .. Len(a) : t.action_stack[i] = a[i]
   BY <1>1, <1>4, <1>5, AppendProperties
<1>11. Starts(t) = Starts(s) \cup {Len(a) + 1}
   <2>1. 1 .. Len(t.action_stack) = (1 .. Len(a)) \cup {Len(a) + 1}
      BY <1>4, <1>10
   <2> HIDE DEF a
   <2> QED BY <1>1, <1>10, <2>1 DEF Starts, a
<1> QED BY <1>3, <1>5, <1>7, <1>8, <1>9, <1>10, <1>11

\* Changes inside a context open no other.
LEMMA WithinStarts ==
  ASSUME NEW s \in CnfType, NEW t \in CnfType, Within(s, t)
  PROVE  Starts(t) = Starts(s)
<1>1. /\ Len(s.action_stack) \in Nat /\ Len(t.action_stack) \in Nat
      /\ Len(s.action_stack) <= Len(t.action_stack)
   BY StackFacts DEF Within, Depth
<1>2. \A i \in 1 .. Len(t.action_stack) :
         i \in 1 .. Len(s.action_stack) \/ i \in Len(s.action_stack) + 1 .. Len(t.action_stack)
   BY <1>1
<1>3. \A i \in 1 .. Len(s.action_stack) : i \in 1 .. Len(t.action_stack)
   BY <1>1
<1> QED BY <1>2, <1>3 DEF Starts, Within

\* The last context is closed, and the object is what it was before.
LEMMA PopContextFacts ==
  ASSUME NEW s \in CnfType, NEW t \in CnfType, Within(new_context(s), t)
  PROVE  pop_context(t) \in {s, Calm(s)}
<1> DEFINE o == new_context(s)
           n == Len(t.action_stack)
           starts == { i \in 1 .. n : t.action_stack[i].action = "START_CONTEXT" }
           first == CHOOSE i \in starts : \A j \in starts : j <= i
           d == Depth(o, t)
           m == n - first + 1
           popped[k \in 0 .. m] == IF k = 0 THEN t ELSE pop_record(popped[k - 1])
<1>1. pop_context(t) = popped[m]
   BY DEF pop_context
<1>2. /\ o \in CnfType /\ pop_record(o) = s
      /\ Len(o.action_stack) = Len(s.action_stack) + 1
      /\ Starts(o) = Starts(s) \cup {Len(o.action_stack)}
   BY NewContextFacts
<1>3. Len(s.action_stack) \in Nat /\ Len(o.action_stack) \in Nat /\ n \in Nat
   BY <1>2, StackFacts
<1>4. starts = Starts(o)
   BY <1>2, WithinStarts DEF Starts
<1>5. first = Len(o.action_stack)
   <2> DEFINE l == Len(o.action_stack)
   <2>1. l \in Starts(o) /\ \A j \in Starts(o) : j <= l
      BY <1>2, <1>3 DEF Starts
   <2> HIDE DEF starts, l
   <2>2. l \in starts /\ (\A j \in starts : j <= l) /\ l \in Int /\ \A j \in starts : j \in Int
      BY <1>3, <1>4, <2>1 DEF l, Starts
   <2>3. first \in starts /\ \A j \in starts : j <= first
      BY <2>2
   <2> HIDE DEF first
   <2>4. first = l
      BY <2>2, <2>3
   <2> QED BY <2>4 DEF l
<1>6. d \in Nat /\ m = d + 1
   BY <1>3, <1>5 DEF Within, Depth
<1> HIDE DEF first, m, o
<1>7. PICK g : Unwound(o, t, g)
   BY DEF Within, o
<1> HIDE DEF d
<1>8. g[0] = t /\ g[d] \in {o, Calm(o)} /\ \A k \in 1 .. d : g[k] = pop_record(g[k - 1])
   BY <1>7 DEF Unwound, d
<1> DEFINE z == IF g[d] = o THEN s ELSE Calm(s)
<1>13. z \in {s, Calm(s)} /\ pop_record(g[d]) = z
   <2>1. Last(o.action_stack) \in ActionRecord
      <3> DEFINE r == [action |-> "START_CONTEXT", ele |-> 0]
      <3>1. o.action_stack = Append(s.action_stack, r) /\ r \in ActionRecord
         BY DEF o, new_context, Log, CnfType, ActionRecord, ActionType
      <3>2. s.action_stack \in Seq(ActionRecord)
         BY StackFacts
      <3> HIDE DEF r
      <3> QED BY <3>1, <3>2, FrontLastAppend
   <2>2. pop_record(Calm(o)) = Calm(s)
      BY <1>2, <2>1, PopCalm
   <2> QED BY <1>2, <1>8, <2>2
<1> HIDE DEF z
<1> DEFINE h == [k \in 0 .. m |-> IF k = m THEN z ELSE g[k]]
<1>9. h = [k \in 0 .. m |-> IF k = 0 THEN t ELSE pop_record(h[k - 1])]
   <2>1. ASSUME NEW k \in 0 .. m
         PROVE  h[k] = IF k = 0 THEN t ELSE pop_record(h[k - 1])
      <3>1. CASE k = 0
         BY <1>6, <1>8, <3>1
      <3>2. CASE k = m
         <4>1. k # 0 /\ k - 1 = d /\ d \in 0 .. m /\ d # m
            BY <1>6, <3>2
         <4> QED BY <1>13, <3>2, <4>1
      <3>3. CASE k # 0 /\ k # m
         <4>1. k \in 1 .. d /\ k - 1 \in 0 .. m /\ k - 1 # m
            BY <1>6, <3>3
         <4> QED BY <1>8, <3>3, <4>1
      <3> QED BY <3>1, <3>2, <3>3
   <2> QED BY <2>1
<1>10. popped = [k \in 0 .. m |-> IF k = 0 THEN t ELSE pop_record(popped[k - 1])]
   BY <1>9
<1> HIDE DEF popped
<1> DEFINE same == { k \in 0 .. m : popped[k] = h[k] }
<1>11. 0 .. m \subseteq same
   <2>1. 0 \in same
      <3>1. 0 \in 0 .. m
         BY <1>6
      <3> QED BY <1>9, <1>10, <3>1
   <2>2. ASSUME NEW k \in 1 .. m, k - 1 \in same
         PROVE  k \in same
      <3>1. k \in 0 .. m /\ k # 0
         BY <1>6
      <3> HIDE DEF h
      <3> QED BY <1>9, <1>10, <2>2, <3>1
   <2>3. m \in Nat
      BY <1>6
   <2> HIDE DEF same
   <2> QED BY <2>1, <2>2, <2>3, Induction
<1>12. popped[m] = z
   <2>1. m \in 0 .. m
      BY <1>6
   <2> QED BY <1>11, <2>1
<1> QED BY <1>1, <1>12, <1>13

\* A change that has been logged under a record which undoes it.
LEMMA LogUndone ==
  ASSUME NEW s \in CnfType, NEW u \in CnfType, u.action_stack = s.action_stack,
         NEW action \in ActionType, action # "START_CONTEXT", NEW ele \in Int,
         undo(u, [action |-> action, ele |-> ele]) \in {s, Calm(s)}
  PROVE  Logged(s, Log(u, action, ele))
<1> DEFINE r == [action |-> action, ele |-> ele]
           a == u.action_stack
           t == Log(u, action, ele)
<1>1. r \in ActionRecord /\ r.action = action
   BY DEF ActionRecord
<1>2. t = [u EXCEPT !.action_stack = Append(a, r)]
   BY DEF Log
<1>3. a \in Seq(ActionRecord)
   BY StackFacts
<1>4. undo(u, r) \in {s, Calm(s)}
   OBVIOUS
<1> HIDE DEF r, t
<1>5. Front(Append(a, r)) = a /\ Last(Append(a, r)) = r
   BY <1>1, <1>3, FrontLastAppend
<1>6. t.action_stack = Append(a, r) /\ [t EXCEPT !.action_stack = a] = u
   BY <1>2 DEF CnfType
<1>7. pop_record(t) \in {s, Calm(s)}
   BY <1>4, <1>5, <1>6 DEF pop_record
<1> QED BY <1>1, <1>6, <1>7 DEF Logged, t

LEMMA ConflictLogged ==
  ASSUME NEW s \in CnfType
  PROVE  Logged(s, trigger_conflict(s))
<1> DEFINE u == [s EXCEPT !.has_conflict = TRUE]
           r == [action |-> "CONFLICT", ele |-> 0]
<1>1. u \in CnfType /\ u.action_stack = s.action_stack
   BY DEF CnfType
<1>2. undo(u, r) = [u EXCEPT !.has_conflict = FALSE]
   BY DEF undo
<1>3. [u EXCEPT !.has_conflict = FALSE] = Calm(s)
   BY DEF CnfType, Calm
<1>4. undo(u, r) = Calm(s)
   BY <1>2, <1>3
<1>5. "CONFLICT" \in ActionType /\ 0 \in Int
   BY DEF ActionType
<1> HIDE DEF u
<1>6. Logged(s, Log(u, "CONFLICT", 0))
   BY <1>1, <1>4, <1>5, LogUndone
<1> QED BY <1>6 DEF trigger_conflict, u

\* A literal without a value is set, by propagation or by a split.
LEMMA AssignLogged ==
  ASSUME NEW s \in CnfType, s.bcp_unit_literals \subseteq s.unit_literals, NEW lit \in Literal,
         lit \notin s.unit_literals, -lit \notin s.unit_literals
  PROVE  Logged(s, assign_literal(s, lit, TRUE)) /\ Logged(s, assign_literal(s, lit, FALSE))
<1>1. lit \in Int /\ lit \notin s.bcp_unit_literals
   BY LiteralFacts
<1>2. Logged(s, assign_literal(s, lit, TRUE))
   <2> DEFINE u == [s EXCEPT !.unit_literals = @ \cup {lit}, !.bcp_unit_literals = @ \cup {lit}]
              r == [action |-> "BCP", ele |-> lit]
   <2>1. u \in CnfType /\ u.action_stack = s.action_stack
      BY DEF CnfType
   <2>2. undo(u, r) = [u EXCEPT !.bcp_unit_literals = @ \ {lit}, !.unit_literals = @ \ {lit}]
      BY DEF undo
   <2>3. (s.bcp_unit_literals \cup {lit}) \ {lit} = s.bcp_unit_literals
         /\ (s.unit_literals \cup {lit}) \ {lit} = s.unit_literals
      BY <1>1
   <2>4. [u EXCEPT !.bcp_unit_literals = @ \ {lit}, !.unit_literals = @ \ {lit}] = s
      BY <2>3 DEF CnfType
   <2>5. Logged(s, Log(u, "BCP", lit))
      BY <1>1, <2>1, <2>2, <2>4, LogUndone DEF ActionType
   <2> QED BY <2>5 DEF assign_literal
<1>3. Logged(s, assign_literal(s, lit, FALSE))
   <2> DEFINE u == [s EXCEPT !.unit_literals = @ \cup {lit}]
              r == [action |-> "ASSERT", ele |-> lit]
   <2>1. u \in CnfType /\ u.action_stack = s.action_stack
      BY DEF CnfType
   <2>2. undo(u, r) = [u EXCEPT !.unit_literals = @ \ {lit}]
      BY DEF undo
   <2>3. (s.unit_literals \cup {lit}) \ {lit} = s.unit_literals
      OBVIOUS
   <2>4. [u EXCEPT !.unit_literals = @ \ {lit}] = s
      BY <2>3 DEF CnfType
   <2>5. Logged(s, Log(u, "ASSERT", lit))
      BY <1>1, <2>1, <2>2, <2>4, LogUndone DEF ActionType
   <2>6. assign_literal(s, lit, FALSE) = Log(u, "ASSERT", lit)
      BY <1>1 DEF assign_literal
   <2> QED BY <2>5, <2>6
<1> QED BY <1>2, <1>3

\* What asserting a literal changes.
Asserts(s, t, lit) ==
    /\ t \in CnfType /\ SameClauses(s, t)
    /\ t.variable_type = s.variable_type
    /\ t.unit_literals = s.unit_literals \cup {lit}
    /\ t.bcp_unit_literals = s.bcp_unit_literals
    /\ t.uquantified_variables = s.uquantified_variables
    /\ t.has_conflict = s.has_conflict
    /\ t.data_variables = s.data_variables
    /\ t.tseitin_variables = s.tseitin_variables

LEMMA AssertFacts ==
  ASSUME NEW s \in CnfType, s.bcp_unit_literals \subseteq s.unit_literals, NEW lit \in Literal,
         lit \notin s.unit_literals, -lit \notin s.unit_literals,
         NEW t, t = assign_literal(s, lit, FALSE)
  PROVE  Asserts(s, t, lit)
<1> DEFINE u == [s EXCEPT !.unit_literals = @ \cup {lit}]
<1>1. t = Log(u, "ASSERT", lit)
   BY DEF assign_literal
<1>2. u \in CnfType
   BY DEF CnfType
<1>3. t \in CnfType
   BY <1>1, <1>2, LiteralFacts, LogType DEF ActionType
<1> QED BY <1>1, <1>3 DEF Log, CnfType, SameClauses, Asserts

LEMMA DeactivateLogged ==
  ASSUME NEW s \in CnfType, IndexExact(s), NEW cid \in s.active_clauses
  PROVE  Logged(s, deactivate_clause(s, cid))
<1> DEFINE active == s.active_clauses \ {cid}
           map == [lit \in Literal |->
                      s.literal_clauses[lit] \ (IF lit \in Lits(s, cid) THEN {cid} ELSE {})]
           back == [lit \in Literal |->
                      map[lit] \cup (IF lit \in Lits(s, cid) THEN {cid} ELSE {})]
           u == [s EXCEPT !.literal_clauses = map, !.active_clauses = active]
           r == [action |-> "DEACTIVATE_CLAUSE", ele |-> cid]
<1>1. active \in SUBSET ClauseId /\ active \cup {cid} = s.active_clauses
   BY DEF CnfType
<1>2. map \in [Literal -> SUBSET ClauseId] /\ s.literal_clauses \in [Literal -> SUBSET ClauseId]
   BY DEF CnfType
<1>3. back = s.literal_clauses
   <2>1. ASSUME NEW lit \in Literal
         PROVE  back[lit] = s.literal_clauses[lit]
      <3>1. s.literal_clauses[lit] = { c \in s.active_clauses : lit \in Lits(s, c) }
         BY DEF IndexExact
      <3> QED BY <3>1
   <2> HIDE DEF map
   <2>2. back = [lit \in Literal |-> s.literal_clauses[lit]]
      BY <2>1
   <2> QED BY <1>2, <2>2
<1> HIDE DEF map, active, back
<1>4. u \in CnfType /\ u.action_stack = s.action_stack
   BY <1>1, <1>2 DEF CnfType
<1>5. /\ u.literal_clauses = map /\ u.active_clauses = active /\ \A c : Lits(u, c) = Lits(s, c)
   BY DEF CnfType, Lits
<1>6. undo(u, r) = activate_clause(u, cid)
   BY DEF undo
<1>7. activate_clause(u, cid) = [u EXCEPT !.literal_clauses = back, !.active_clauses = active \cup {cid}]
   <2> HIDE DEF u
   <2>1. [lit \in Literal |-> u.literal_clauses[lit] \cup (IF lit \in Lits(u, cid) THEN {cid} ELSE {})]
            = back
      BY <1>5 DEF back
   <2> QED BY <1>5, <2>1 DEF activate_clause
<1>8. [u EXCEPT !.literal_clauses = back, !.active_clauses = active \cup {cid}] = s
   BY <1>1, <1>3 DEF CnfType
<1>9. cid \in Int
   BY DEF CnfType, ClauseId
<1>10. Logged(s, Log(u, "DEACTIVATE_CLAUSE", cid))
   BY <1>4, <1>6, <1>7, <1>8, <1>9, LogUndone DEF ActionType
<1> QED BY <1>10 DEF deactivate_clause, active, map
=============================================================================

-------------------------- MODULE CnfContext_proofs --------------------------
(***************************************************************************)
(* Proofs about module CnfContext: contexts restore the object, for every  *)
(* formula and every length of the action stack.                           *)
(*                                                                         *)
(* The invariant IInv ties each record to the object as it was before:     *)
(* undoing the record gives that object back, up to Restores.  A call      *)
(* extends this chain by one record (CallStep, to which the step of every  *)
(* method reduces), pop_context shortens it by one (PopRecordStep).  Undo  *)
(* respects Restores (UndoMonotone), which is why undoing record after     *)
(* record still ends in the right object although an undone object is not  *)
(* exactly the one that was saved.                                         *)
(***************************************************************************)
EXTENDS CnfContext, Cnf_proofs

-----------------------------------------------------------------------------
(* Literals *)

\* Negation is an involution without fixed points on the literals.
LEMMA NegatedLiteral ==
  \A lit \in Literal : lit \in Int /\ -lit \in Literal /\ lit # -lit /\ -(-lit) = lit
  BY NVarAssumption DEF Literal, Variables

-----------------------------------------------------------------------------
(* Undoing and restoring *)

\* Restores is transitive: errors do not add up over several undos.
LEMMA RestoresTransitive ==
  ASSUME NEW s, NEW t, NEW u, Restores(s, t), Restores(t, u)
  PROVE  Restores(s, u)
  BY DEF Restores

\* What the history keeps of an object is the object, as far as Restores sees.
LEMMA SavedRestores ==
  ASSUME NEW s \in CnfType
  PROVE  /\ Saved(s) \in CnfType
         /\ Restores(Saved(s), s)
         /\ Restores(s, Saved(s))
<1>1. << >> \in Seq(ActionRecord) BY EmptySeq
<1> QED BY <1>1 DEF Saved, CnfType, Restores

\* A record that undoes t undoes every object that restores t.
LEMMA UndoMonotone ==
  ASSUME NEW s \in CnfType, NEW t \in CnfType, NEW u, NEW r \in ActionRecord,
         Restores(s, t), Undoes(r, t, u)
  PROVE  Undoes(r, s, u)
<1>1. Restores(undo(s, r), undo(t, r))
   <2>1. CASE r.action = "START_CONTEXT" BY <2>1 DEF undo
   <2>2. CASE r.action = "CONFLICT" BY <2>2 DEF undo, Restores, CnfType
   <2>3. CASE r.action = "DEACTIVATE_CLAUSE" 
     BY <2>3 DEF undo, Restores, CnfType, activate_clause, Lits
   <2>4. CASE r.action = "BCP" BY <2>4 DEF undo, Restores, CnfType
   <2>5. CASE r.action = "ASSERT" BY <2>5 DEF undo, Restores, CnfType
   <2>6. CASE r.action = "ASSERT_FROM_BCP" BY <2>6 DEF undo, Restores, CnfType
   <2>7. CASE r.action = "UQUANTIFY" BY <2>7 DEF undo, Restores, CnfType
   <2>8. CASE r.action = "ACTIVE_CLAUSES" BY <2>8 DEF undo, Restores, CnfType
   <2> QED BY <2>1, <2>2, <2>3, <2>4, <2>5, <2>6, <2>7, <2>8 DEF ActionRecord, ActionType
<1>2. Restores(undo(s, r), u)
   BY <1>1, RestoresTransitive DEF Undoes
<1> QED BY <1>2 DEF Undoes, Restores

\* Logging changes nothing but the action stack.
LEMMA LogKeeps ==
  ASSUME NEW s \in CnfType, NEW a \in ActionType, NEW ele \in Int
  PROVE  /\ Restores(Log(s, a, ele), s)
         /\ UnitsConsistent(s) => UnitsConsistent(Log(s, a, ele))
         /\ MapExact(s) => MapExact(Log(s, a, ele))
         /\ Log(s, a, ele).action_stack = Append(s.action_stack, [action |-> a, ele |-> ele])
  BY DEF Restores, Log, CnfType, UnitsConsistent, MapExact

\* The saved object is as well formed as the object.
LEMMA SavedKeeps ==
  ASSUME NEW s \in CnfType
  PROVE  /\ UnitsConsistent(s) => UnitsConsistent(Saved(s))
         /\ MapExact(s) => MapExact(Saved(s))
  BY DEF Saved, CnfType, UnitsConsistent, MapExact

\* Whatever restores a well-formed object is well formed.
LEMMA RestoredWellFormed ==
  ASSUME NEW s, NEW t, Restores(s, t), UnitsConsistent(t), MapExact(t)
  PROVE  UnitsConsistent(s) /\ MapExact(s)
  BY DEF Restores, UnitsConsistent, MapExact

\* Undoing a record keeps the object well typed and leaves its stack alone.
LEMMA UndoType ==
  ASSUME NEW s \in CnfType, NEW u, NEW r \in ActionRecord, Undoes(r, s, u)
  PROVE  /\ undo(s, r) \in CnfType
         /\ undo(s, r).action_stack = s.action_stack
<1>1. CASE r.action = "START_CONTEXT" BY <1>1 DEF undo
<1>2. CASE r.action = "CONFLICT" BY <1>2 DEF undo, CnfType
<1>3. CASE r.action = "DEACTIVATE_CLAUSE"
   <2>1. r.ele \in ClauseId
      <3>1. r.ele \in 1 .. Len(Clauses)
         BY <1>3, ContextAssumption, LenProperties DEF Undoes
      <3> QED BY <3>1, ContextAssumption, LenProperties DEF ClauseId
   <2> QED BY <1>3, <2>1 DEF undo, activate_clause, CnfType
<1>4. CASE r.action = "BCP" BY <1>4 DEF undo, CnfType
<1>5. CASE r.action = "ASSERT" BY <1>5 DEF undo, CnfType
<1>6. CASE r.action = "ASSERT_FROM_BCP" BY <1>6 DEF undo, CnfType, Undoes
<1>7. CASE r.action = "UQUANTIFY" BY <1>7 DEF undo, CnfType
<1>8. CASE r.action = "ACTIVE_CLAUSES"
   <2>1. s.active_stack \in Seq(ActiveRecord) /\ s.active_stack # << >>
      BY <1>8 DEF CnfType, Undoes
   <2> DEFINE saved == Last(s.active_stack)
              below == Front(s.active_stack)
   <2>2. saved \in ActiveRecord /\ below \in Seq(ActiveRecord)
      BY <2>1, FrontLast
   <2>3. undo(s, r) = [s EXCEPT !.active_clauses  = saved.active_clauses,
                                !.literal_clauses = saved.literal_clauses,
                                !.active_stack    = below]
      BY <1>8 DEF undo
   <2> HIDE DEF saved, below
   <2> QED BY <2>2, <2>3 DEF CnfType, ActiveRecord
<1> QED BY <1>1, <1>2, <1>3, <1>4, <1>5, <1>6, <1>7, <1>8 DEF ActionRecord, ActionType

-----------------------------------------------------------------------------
(* The steps *)

\* A method that changes the object to t and logs how to undo that change
\* preserves the invariant.
LEMMA CallStep ==
  ASSUME IInv,
         NEW t \in CnfType, NEW a \in ActionType, NEW ele \in Int,
         t.action_stack = cnf.action_stack,
         Undoes([action |-> a, ele |-> ele], t, cnf),
         UnitsConsistent(t), MapExact(t),
         Call(Log(t, a, ele))
  PROVE  IInv'
<1> DEFINE r == [action |-> a, ele |-> ele]
           s == Log(t, a, ele)
           q == cnf.action_stack
<1>1. cnf \in CnfType /\ hist \in Seq(CnfType) /\ q \in Seq(ActionRecord)
   BY DEF IInv, TypeOK, CnfType
<1>2. r \in ActionRecord
   BY DEF ActionRecord
<1>3. s \in CnfType /\ Restores(s, t) /\ UnitsConsistent(s) /\ MapExact(s)
      /\ s.action_stack = Append(q, r)
   BY LogType, LogKeeps
<1>4. /\ Len(q) \in Nat /\ Len(q) > 0 /\ Len(hist) = Len(q)
      /\ \A i \in 1 .. Len(q) - 1 : Undoes(q[i], hist[i + 1], hist[i])
      /\ Undoes(q[Len(q)], cnf, hist[Len(q)])
   BY <1>1, LenProperties DEF IInv, Aligned, Top
<1>5. /\ Len(Append(q, r)) = Len(q) + 1
      /\ \A i \in 1 .. Len(q) : Append(q, r)[i] = q[i]
      /\ Append(q, r)[Len(q) + 1] = r
      /\ Append(q, r) # << >>
   BY <1>1, <1>2, AppendProperties, SMTT(30)
<1>6. cnf' = s /\ hist' = Append(hist, Saved(cnf)) /\ popping' = FALSE /\ popping = FALSE
   <2>1. Append(q, r) # q BY <1>4, <1>5
   <2>2. popping \in BOOLEAN BY DEF IInv, TypeOK
   <2> QED BY <1>3, <2>1, <2>2 DEF Call
<1>7. Saved(cnf) \in CnfType /\ Restores(Saved(cnf), cnf) /\ Restores(cnf, Saved(cnf))
   BY <1>1, SavedRestores
<1>8. /\ hist' \in Seq(CnfType)
      /\ Len(hist') = Len(q) + 1
      /\ \A i \in 1 .. Len(q) : hist'[i] = hist[i]
      /\ hist'[Len(q) + 1] = Saved(cnf)
   BY <1>1, <1>4, <1>6, <1>7, AppendProperties
<1>9. Undoes(r, s, Saved(cnf))
   <2>1. Undoes(r, s, cnf)
      BY <1>2, <1>3, UndoMonotone
   <2> QED BY <2>1, <1>7, RestoresTransitive DEF Undoes
<1>10. Undoes(q[Len(q)], Saved(cnf), hist[Len(q)])
   <2>1. q[Len(q)] \in ActionRecord BY <1>1, <1>4, ElementOfSeq
   <2> QED BY <2>1, <1>1, <1>4, <1>7, UndoMonotone
<1> DEFINE q2 == Append(q, r)
<1>11. cnf'.action_stack = q2
   BY <1>3, <1>6
<1> HIDE DEF q, q2, r, s
<1>12. TypeOK'
   BY <1>3, <1>6, <1>8 DEF TypeOK
<1>13. Aligned'
   <2>1. Len(q2) = Len(q) + 1 /\ Len(hist') = Len(q2) /\ Len(q2) > 0
      BY <1>4, <1>5, <1>8 DEF q2
   <2>2. ASSUME NEW i \in 1 .. Len(q2) - 1
         PROVE  Undoes(q2[i], hist'[i + 1], hist'[i])
      <3>1. i \in 1 .. Len(q) /\ q2[i] = q[i] /\ hist'[i] = hist[i]
         BY <1>4, <1>5, <1>8, <2>1 DEF q2
      <3>2. CASE i = Len(q)
         BY <3>1, <3>2, <1>8, <1>10
      <3>3. CASE i # Len(q)
         <4>1. i \in 1 .. Len(q) - 1 /\ i + 1 \in 1 .. Len(q)
            BY <3>1, <3>3, <1>4
         <4> QED BY <3>1, <4>1, <1>4, <1>8
      <3> QED BY <3>2, <3>3
   <2>3. Undoes(q2[Len(q2)], cnf', hist'[Len(q2)])
      BY <2>1, <1>5, <1>6, <1>8, <1>9 DEF q2
   <2> QED BY <2>1, <2>2, <2>3, <1>11 DEF Aligned, Top
<1>14. WellFormed'
   BY <1>3, <1>6 DEF WellFormed
<1>15. HistoryWellFormed'
   <2>1. UnitsConsistent(Saved(cnf)) /\ MapExact(Saved(cnf))
      BY <1>1, SavedKeeps DEF IInv, WellFormed
   <2>2. ASSUME NEW i \in 1 .. Len(hist')
         PROVE  UnitsConsistent(hist'[i]) /\ MapExact(hist'[i])
      <3>1. CASE i = Len(q) + 1
         BY <3>1, <2>1, <1>8
      <3>2. CASE i # Len(q) + 1
         <4>1. i \in 1 .. Len(hist) /\ hist'[i] = hist[i]
            BY <3>2, <1>4, <1>8
         <4> QED BY <4>1 DEF IInv, HistoryWellFormed
      <3> QED BY <3>1, <3>2
   <2> QED BY <2>2 DEF HistoryWellFormed
<1>16. OutermostKept'
   BY <1>5, <1>6, <1>11 DEF OutermostKept, q2
<1> QED BY <1>12, <1>13, <1>14, <1>15, <1>16 DEF IInv

\* One iteration of pop_context preserves the invariant.
LEMMA PopRecordStep == IInv /\ PopRecord => IInv'
<1> SUFFICES ASSUME IInv, PopRecord PROVE IInv'
   OBVIOUS
<1> DEFINE q == cnf.action_stack
           r == Last(q)
           c == [cnf EXCEPT !.action_stack = Front(@)]
<1>1. cnf \in CnfType /\ hist \in Seq(CnfType) /\ q \in Seq(ActionRecord) /\ q # << >>
   BY DEF IInv, TypeOK, CnfType, OutermostKept
<1>2. /\ Len(q) \in Nat /\ Len(q) > 0
      /\ Front(q) \in Seq(ActionRecord)
      /\ Len(Front(q)) = Len(q) - 1
      /\ \A i \in 1 .. Len(q) - 1 : Front(q)[i] = q[i]
      /\ r = q[Len(q)]
      /\ r \in ActionRecord
   BY <1>1, FrontLast
<1>3. /\ Len(hist) = Len(q)
      /\ \A i \in 1 .. Len(q) - 1 : Undoes(q[i], hist[i + 1], hist[i])
      /\ Undoes(r, cnf, hist[Len(q)])
   BY <1>2 DEF IInv, Aligned, Top
<1>4. \A i \in 1 .. Len(q) : hist[i] \in CnfType /\ UnitsConsistent(hist[i]) /\ MapExact(hist[i])
   BY <1>1, <1>3, ElementOfSeq DEF IInv, HistoryWellFormed
<1>5. c \in CnfType /\ Restores(c, cnf) /\ c.action_stack = Front(q)
   BY <1>1, <1>2 DEF CnfType, Restores
<1>6. cnf' = undo(c, r) /\ hist' = Front(hist)
      /\ popping = TRUE /\ popping' = (r.action # "START_CONTEXT")
   <2>1. popping \in BOOLEAN BY DEF IInv, TypeOK
   <2> QED BY <2>1 DEF PopRecord, pop_record
<1> HIDE DEF c, r, q
<1>7. Undoes(r, c, hist[Len(q)])
   BY <1>1, <1>2, <1>3, <1>5, UndoMonotone
<1>8. cnf' \in CnfType /\ cnf'.action_stack = Front(q) /\ Restores(cnf', hist[Len(q)])
   BY <1>2, <1>5, <1>6, <1>7, UndoType DEF Undoes
<1>9. hist # << >>
   BY <1>2, <1>3, EmptySeq
<1>10. /\ hist' \in Seq(CnfType)
       /\ Len(hist') = Len(q) - 1
       /\ \A i \in 1 .. Len(q) - 1 : hist'[i] = hist[i]
   BY <1>1, <1>3, <1>6, <1>9, FrontLast
<1>11. \E i \in 2 .. Len(q) : q[i].action = "START_CONTEXT"
   BY <1>6 DEF IInv, OutermostKept, Top, q
<1>12. TypeOK'
   BY <1>6, <1>8, <1>10 DEF TypeOK
<1>13. Aligned'
   <2>1. Len(q) - 1 > 0
      BY <1>2, <1>11
   <2>2. ASSUME NEW i \in 1 .. Len(q) - 1 - 1
         PROVE  Undoes(Front(q)[i], hist'[i + 1], hist'[i])
      <3>1. i \in 1 .. Len(q) - 1 /\ i + 1 \in 1 .. Len(q) - 1
         BY <1>2
      <3> QED BY <3>1, <1>2, <1>3, <1>10
   <2> DEFINE n == Len(q) - 1
   <2>3. n \in 1 .. Len(q) - 1 /\ n \in 1 .. Len(q) /\ Len(q) \in 1 .. Len(q) /\ n + 1 = Len(q)
      BY <2>1, <1>2
   <2>4. Undoes(Front(q)[n], cnf', hist'[n])
      <3>1. Undoes(q[n], hist[Len(q)], hist[n])
         BY <2>3, <1>3
      <3>2. q[n] \in ActionRecord
         BY <2>3, <1>1, ElementOfSeq DEF q
      <3>3. Undoes(q[n], cnf', hist[n])
         BY <3>1, <3>2, <2>3, <1>4, <1>8, UndoMonotone
      <3> QED BY <3>3, <2>3, <1>2, <1>10
   <2> QED BY <2>1, <2>2, <2>4, <1>2, <1>8, <1>10 DEF Aligned, Top
<1>14. WellFormed'
   <2>1. Len(q) \in 1 .. Len(q) BY <1>2
   <2> QED BY <2>1, <1>4, <1>8, RestoredWellFormed DEF WellFormed
<1>15. HistoryWellFormed'
   <2>1. ASSUME NEW i \in 1 .. Len(hist')
         PROVE  UnitsConsistent(hist'[i]) /\ MapExact(hist'[i])
      <3>1. i \in 1 .. Len(q) - 1 /\ i \in 1 .. Len(q)
         BY <1>2, <1>10
      <3> QED BY <3>1, <1>4, <1>10
   <2> QED BY <2>1 DEF HistoryWellFormed
<1>16. OutermostKept'
   <2>1. Front(q) # << >>
      BY <1>2, <1>11, EmptySeq
   <2>2. ASSUME popping'
         PROVE  \E i \in 2 .. Len(Front(q)) : Front(q)[i].action = "START_CONTEXT"
      <3>1. PICK i \in 2 .. Len(q) : q[i].action = "START_CONTEXT"
         BY <1>11
      <3>2. i # Len(q)
         BY <2>2, <3>1, <1>2, <1>6
      <3>3. i \in 2 .. Len(q) - 1 /\ i \in 1 .. Len(q) - 1
         BY <3>1, <3>2, <1>2
      <3> QED BY <3>1, <3>3, <1>2
   <2> QED BY <2>1, <2>2, <1>8 DEF OutermostKept, Top
<1> QED BY <1>12, <1>13, <1>14, <1>15, <1>16 DEF IInv

\* new_context records a change that changes nothing.
LEMMA NewContextStep == IInv /\ NewContext => IInv'
<1> SUFFICES ASSUME IInv, NewContext PROVE IInv'
   OBVIOUS
<1>1. cnf \in CnfType /\ UnitsConsistent(cnf) /\ MapExact(cnf)
   BY DEF IInv, TypeOK, WellFormed
<1>2. Undoes([action |-> "START_CONTEXT", ele |-> 0], cnf, cnf)
   BY DEF Undoes, undo, Restores
<1>3. Call(Log(cnf, "START_CONTEXT", 0))
   BY DEF NewContext, new_context
<1> QED BY <1>1, <1>2, <1>3, CallStep DEF ActionType

\* trigger_conflict, called by bcp or by assign_literal: undoing it may clear
\* a conflict that was there before, never set one.
LEMMA ConflictStep == IInv /\ Call(trigger_conflict(cnf)) => IInv'
<1> SUFFICES ASSUME IInv, Call(trigger_conflict(cnf)) PROVE IInv'
   OBVIOUS
<1> DEFINE t == [cnf EXCEPT !.has_conflict = TRUE]
<1>1. cnf \in CnfType /\ UnitsConsistent(cnf) /\ MapExact(cnf)
   BY DEF IInv, TypeOK, WellFormed
<1>2. t \in CnfType /\ t.action_stack = cnf.action_stack
      /\ UnitsConsistent(t) /\ MapExact(t)
   BY <1>1 DEF CnfType, UnitsConsistent, MapExact
<1>3. Undoes([action |-> "CONFLICT", ele |-> 0], t, cnf)
   BY <1>1 DEF Undoes, undo, Restores, CnfType
<1>4. Call(Log(t, "CONFLICT", 0))
   BY DEF trigger_conflict
<1> HIDE DEF t
<1> QED BY <1>2, <1>3, <1>4, CallStep DEF ActionType

\* A call that only reports an error.
LEMMA UnchangedStep == IInv /\ Call(cnf) => IInv'
<1> SUFFICES ASSUME IInv, Call(cnf) PROVE IInv'
   OBVIOUS
<1>1. UNCHANGED vars
   BY DEF Call, vars
<1> QED BY <1>1 DEF vars, IInv, TypeOK, Aligned, WellFormed, HistoryWellFormed,
                    OutermostKept, Top

\* assign_literal: a contradiction, a propagated literal, an asserted literal
\* that was propagated before, a new asserted literal, or an error message.
LEMMA AssignLiteralStep ==
  ASSUME IInv, NEW lit \in Literal, NEW bcp \in BOOLEAN, Call(assign_literal(cnf, lit, bcp))
  PROVE  IInv'
<1>1. cnf \in CnfType /\ UnitsConsistent(cnf) /\ MapExact(cnf)
   BY DEF IInv, TypeOK, WellFormed
<1>2. /\ lit \in Int /\ -lit \in Literal /\ lit # -lit /\ -(-lit) = lit
      /\ \A l \in Literal : -l = lit => l = -lit
   BY NegatedLiteral
<1>3. cnf.bcp_unit_literals \subseteq cnf.unit_literals /\ cnf.unit_literals \subseteq Literal
   BY <1>1 DEF UnitsConsistent, CnfType
<1>4. CASE -lit \in cnf.unit_literals
   BY <1>4, ConflictStep DEF assign_literal
<1>5. CASE -lit \notin cnf.unit_literals /\ bcp /\ lit \notin cnf.unit_literals
   <2> DEFINE t == [cnf EXCEPT !.unit_literals     = @ \cup {lit},
                               !.bcp_unit_literals = @ \cup {lit}]
   <2>1. t \in CnfType /\ t.action_stack = cnf.action_stack /\ MapExact(t)
      BY <1>1 DEF CnfType, MapExact
   <2>2. UnitsConsistent(t)
      BY <1>1, <1>2, <1>3, <1>5 DEF UnitsConsistent, CnfType
   <2>3. Undoes([action |-> "BCP", ele |-> lit], t, cnf)
      <3> DEFINE b == [t EXCEPT !.bcp_unit_literals = @ \ {lit}, !.unit_literals = @ \ {lit}]
      <3>1. undo(t, [action |-> "BCP", ele |-> lit]) = b
         BY DEF undo
      <3>2. /\ (cnf.unit_literals \cup {lit}) \ {lit} = cnf.unit_literals
            /\ (cnf.bcp_unit_literals \cup {lit}) \ {lit} = cnf.bcp_unit_literals
         BY <1>3, <1>5
      <3>3. Restores(b, cnf)
         BY <3>2, <1>1 DEF Restores, CnfType
      <3> QED BY <3>1, <3>3 DEF Undoes
   <2>4. Call(Log(t, "BCP", lit))
      BY <1>5 DEF assign_literal
   <2> HIDE DEF t
   <2> QED BY <1>2, <2>1, <2>2, <2>3, <2>4, CallStep DEF ActionType
<1>6. CASE -lit \notin cnf.unit_literals /\ ~bcp /\ lit \in cnf.bcp_unit_literals
   <2> DEFINE t == [cnf EXCEPT !.bcp_unit_literals = @ \ {lit}]
   <2>1. t \in CnfType /\ t.action_stack = cnf.action_stack /\ MapExact(t)
         /\ UnitsConsistent(t)
      BY <1>1 DEF CnfType, MapExact, UnitsConsistent
   <2>2. Undoes([action |-> "ASSERT_FROM_BCP", ele |-> lit], t, cnf)
      BY <1>1, <1>6, ZenonT(60) DEF Undoes, undo, Restores, CnfType
   <2>3. Call(Log(t, "ASSERT_FROM_BCP", lit))
      BY <1>6, <1>3 DEF assign_literal
   <2> HIDE DEF t
   <2> QED BY <1>2, <2>1, <2>2, <2>3, CallStep DEF ActionType
<1>7. CASE -lit \notin cnf.unit_literals /\ ~bcp /\ lit \notin cnf.unit_literals
   <2> DEFINE t == [cnf EXCEPT !.unit_literals = @ \cup {lit}]
   <2>1. t \in CnfType /\ t.action_stack = cnf.action_stack /\ MapExact(t)
      BY <1>1 DEF CnfType, MapExact
   <2>2. UnitsConsistent(t)
      BY <1>1, <1>2, <1>3, <1>7 DEF UnitsConsistent, CnfType
   <2>3. Undoes([action |-> "ASSERT", ele |-> lit], t, cnf)
      BY <1>1, <1>7 DEF Undoes, undo, Restores, CnfType
   <2>4. Call(Log(t, "ASSERT", lit))
      BY <1>7, <1>3 DEF assign_literal
   <2> HIDE DEF t
   <2> QED BY <1>2, <2>1, <2>2, <2>3, <2>4, CallStep DEF ActionType
<1>8. CASE -lit \notin cnf.unit_literals /\ lit \in cnf.unit_literals
           /\ (bcp \/ lit \notin cnf.bcp_unit_literals)
   <2>1. assign_literal(cnf, lit, bcp) = cnf
      BY <1>8 DEF assign_literal
   <2> QED BY <2>1, UnchangedStep
<1> QED BY <1>3, <1>4, <1>5, <1>6, <1>7, <1>8

\* deactivate_clause: the clause returns to exactly the lists it was taken
\* from, because the literal map was exact.
LEMMA DeactivateClauseStep == IInv /\ DeactivateClause => IInv'
<1> SUFFICES ASSUME IInv, NEW cid \in cnf.active_clauses,
                    Call(deactivate_clause(cnf, cid))
             PROVE  IInv'
   BY DEF DeactivateClause
<1>1. cnf \in CnfType /\ UnitsConsistent(cnf) /\ MapExact(cnf)
   BY DEF IInv, TypeOK, WellFormed
<1> DEFINE gone(lit) == IF lit \in Lits(cnf, cid) THEN {cid} ELSE {}
           t == [cnf EXCEPT
                   !.literal_clauses = [lit \in Literal |-> cnf.literal_clauses[lit] \ gone(lit)],
                   !.active_clauses  = @ \ {cid}]
<1>2. cid \in DOMAIN Clauses /\ cid \in Int /\ cnf.clauses = Clauses
   BY <1>1 DEF MapExact, CnfType, ClauseId
<1>3. Lits(cnf, cid) = ToSet(Clauses[cid])
   BY <1>2 DEF Lits
<1>4. t \in CnfType /\ t.action_stack = cnf.action_stack /\ UnitsConsistent(t)
   BY <1>1 DEF CnfType, UnitsConsistent
<1>5. MapExact(t)
   BY <1>1, <1>2, <1>3 DEF CnfType, MapExact
<1>6. Undoes([action |-> "DEACTIVATE_CLAUSE", ele |-> cid], t, cnf)
   <2> DEFINE b == activate_clause(t, cid)
   <2>1. undo(t, [action |-> "DEACTIVATE_CLAUSE", ele |-> cid]) = b
      BY DEF undo
   <2>2. Lits(t, cid) = ToSet(Clauses[cid])
      BY <1>1, <1>2 DEF Lits, CnfType
   <2>3. /\ b.active_clauses = t.active_clauses \cup {cid}
         /\ b.literal_clauses = [lit \in Literal |->
               t.literal_clauses[lit] \cup (IF lit \in ToSet(Clauses[cid]) THEN {cid} ELSE {})]
      BY <2>2, <1>4 DEF activate_clause, CnfType
   <2>4. b.active_clauses = cnf.active_clauses
      <3>1. t.active_clauses = cnf.active_clauses \ {cid}
         BY <1>1 DEF CnfType
      <3> QED BY <2>3, <3>1
   <2>5. ASSUME cnf.active_stack = << >>
         PROVE  b.literal_clauses = cnf.literal_clauses
      <3>1. \A lit \in Literal : lit \in ToSet(Clauses[cid]) => cid \in cnf.literal_clauses[lit]
         BY <2>5, <1>1, <1>2 DEF MapExact
      <3>2. t.literal_clauses = [lit \in Literal |-> cnf.literal_clauses[lit] \ gone(lit)]
         BY <1>1 DEF CnfType
      <3>3. \A lit \in Literal : b.literal_clauses[lit] = cnf.literal_clauses[lit]
         <4> SUFFICES ASSUME NEW lit \in Literal
                      PROVE  b.literal_clauses[lit] = cnf.literal_clauses[lit]
            OBVIOUS
         <4> DEFINE x == IF lit \in ToSet(Clauses[cid]) THEN {cid} ELSE {}
         <4>1. b.literal_clauses[lit] = (cnf.literal_clauses[lit] \ x) \cup x
            <5>1. t.literal_clauses[lit] = cnf.literal_clauses[lit] \ x
               BY <3>2, <1>3
            <5>2. b.literal_clauses[lit] = t.literal_clauses[lit] \cup x
               <6> HIDE DEF b, t
               <6> QED BY <2>3
            <5> QED BY <5>1, <5>2
         <4>2. x \subseteq cnf.literal_clauses[lit]
            BY <3>1
         <4> QED BY <4>1, <4>2
      <3>4. cnf.literal_clauses \in [Literal -> SUBSET ClauseId]
         BY <1>1 DEF CnfType
      <3> QED BY <2>3, <3>3, <3>4
   <2>6. Restores(b, cnf)
      <3>1. /\ b.clauses = cnf.clauses
            /\ b.unit_literals = cnf.unit_literals
            /\ b.bcp_unit_literals = cnf.bcp_unit_literals
            /\ b.uquantified_variables = cnf.uquantified_variables
            /\ b.active_stack = cnf.active_stack
            /\ b.variable_type = cnf.variable_type
            /\ b.data_variables = cnf.data_variables
            /\ b.tseitin_variables = cnf.tseitin_variables
            /\ b.has_conflict = cnf.has_conflict
         BY <1>1 DEF activate_clause, CnfType
      <3> QED BY <3>1, <2>4, <2>5 DEF Restores
   <2> QED BY <2>1, <2>6, <1>2 DEF Undoes
<1>7. Call(Log(t, "DEACTIVATE_CLAUSE", cid))
   BY DEF deactivate_clause
<1> HIDE DEF t
<1> QED BY <1>2, <1>4, <1>5, <1>6, <1>7, CallStep DEF ActionType

\* uquantify_variable removes what was not there before.
LEMMA UquantifyVariableStep == IInv /\ UquantifyVariable => IInv'
<1> SUFFICES ASSUME IInv, NEW var \in Variables \ cnf.uquantified_variables,
                    Call(uquantify_variable(cnf, var))
             PROVE  IInv'
   BY DEF UquantifyVariable
<1> DEFINE t == [cnf EXCEPT !.uquantified_variables = @ \cup {var}]
<1>1. cnf \in CnfType /\ UnitsConsistent(cnf) /\ MapExact(cnf)
   BY DEF IInv, TypeOK, WellFormed
<1>2. t \in CnfType /\ t.action_stack = cnf.action_stack
      /\ UnitsConsistent(t) /\ MapExact(t)
   BY <1>1 DEF CnfType, UnitsConsistent, MapExact
<1>3. Undoes([action |-> "UQUANTIFY", ele |-> var], t, cnf)
   BY <1>1 DEF Undoes, undo, Restores, CnfType
<1>4. Call(Log(t, "UQUANTIFY", var)) /\ var \in Int
   BY NVarAssumption DEF uquantify_variable, Variables
<1> HIDE DEF t
<1> QED BY <1>2, <1>3, <1>4, CallStep DEF ActionType

\* push_active saves the active clauses and their map, and returns to them.
LEMMA PushActiveStep == IInv /\ PushActive => IInv'
<1> SUFFICES ASSUME IInv, NEW nactive \in SUBSET cnf.active_clauses,
                    Call(push_active(cnf, nactive))
             PROVE  IInv'
   BY DEF PushActive
<1> DEFINE saved == [active_clauses |-> cnf.active_clauses, literal_clauses |-> cnf.literal_clauses]
           map   == [lit \in Literal |->
               { cid \in nactive : lit \in Lits(cnf, cid) /\ ~skip_literal(cnf, lit) }]
           stack == Append(cnf.active_stack, saved)
           t     == [cnf EXCEPT !.active_stack = stack, !.active_clauses = nactive,
                                !.literal_clauses = map]
<1>1. cnf \in CnfType /\ UnitsConsistent(cnf) /\ MapExact(cnf)
   BY DEF IInv, TypeOK, WellFormed
<1>2. saved \in ActiveRecord /\ cnf.active_stack \in Seq(ActiveRecord)
   BY <1>1 DEF ActiveRecord, CnfType
<1>3. stack \in Seq(ActiveRecord) /\ stack # << >>
      /\ Front(stack) = cnf.active_stack /\ Last(stack) = saved
   BY <1>2, AppendProperties, FrontLastAppend
<1>4. nactive \in SUBSET ClauseId /\ map \in [Literal -> SUBSET ClauseId]
   BY <1>1 DEF CnfType
<1>5. Call(Log(t, "ACTIVE_CLAUSES", 0))
   BY DEF push_active
<1> HIDE DEF stack, map
<1>6. t \in CnfType /\ t.action_stack = cnf.action_stack /\ UnitsConsistent(t)
   BY <1>1, <1>3, <1>4 DEF CnfType, UnitsConsistent
<1>7. MapExact(t)
   BY <1>1, <1>3 DEF CnfType, MapExact
<1>8. Undoes([action |-> "ACTIVE_CLAUSES", ele |-> 0], t, cnf)
   <2> DEFINE r == [action |-> "ACTIVE_CLAUSES", ele |-> 0]
              b == [t EXCEPT !.active_clauses  = cnf.active_clauses,
                             !.literal_clauses = cnf.literal_clauses,
                             !.active_stack    = cnf.active_stack]
   <2>1. t.active_stack = stack
      BY <1>1 DEF CnfType
   <2>2. undo(t, r) = b
      <3>1. undo(t, r) = [t EXCEPT !.active_clauses  = Last(t.active_stack).active_clauses,
                                   !.literal_clauses = Last(t.active_stack).literal_clauses,
                                   !.active_stack    = Front(t.active_stack)]
         BY DEF undo
      <3>2. /\ Last(t.active_stack).active_clauses = cnf.active_clauses
            /\ Last(t.active_stack).literal_clauses = cnf.literal_clauses
            /\ Front(t.active_stack) = cnf.active_stack
         BY <2>1, <1>3
      <3> QED BY <3>1, <3>2
   <2>3. Restores(b, cnf)
      BY <1>1 DEF Restores, CnfType
   <2> QED BY <2>1, <2>2, <2>3, <1>3 DEF Undoes
<1> HIDE DEF t
<1> QED BY <1>5, <1>6, <1>7, <1>8, CallStep DEF ActionType

-----------------------------------------------------------------------------
(* The invariants *)

\* A formula just read has one record, the opening of the outermost context.
LEMMA InitEstablishes == Init => IInv
<1> SUFFICES ASSUME Init PROVE IInv
   OBVIOUS
<1> DEFINE start == [action |-> "START_CONTEXT", ele |-> 0]
<1>1. start \in ActionRecord /\ << >> \in Seq(ActiveRecord)
   BY EmptySeq DEF ActionRecord, ActionType
<1>2. DOMAIN Clauses = 1 .. Len(Clauses) /\ Clauses \in Seq(Seq(Literal)) /\ Len(Clauses) \in Nat
   BY ContextAssumption, LenProperties
<1>3. DOMAIN Clauses \subseteq ClauseId
   BY <1>2 DEF ClauseId
<1>4. /\ cnf.clauses = Clauses
      /\ cnf.active_clauses = DOMAIN Clauses
      /\ cnf.literal_clauses = [lit \in Literal |->
            { cid \in DOMAIN Clauses : lit \in ToSet(Clauses[cid]) }]
      /\ cnf.unit_literals = {} /\ cnf.bcp_unit_literals = {}
      /\ cnf.action_stack = << start >> /\ cnf.active_stack = << >>
   BY DEF Init, Loaded, EmptyCnf
<1>5. cnf \in CnfType
   <2>1. << start >> \in Seq(ActionRecord) BY <1>1
   <2> HIDE DEF start
   <2> QED BY <2>1, <1>1, <1>2, <1>3 DEF Init, Loaded, EmptyCnf, CnfType, VariableType, start
<1>6. Saved(cnf) \in CnfType /\ Restores(cnf, Saved(cnf)) /\ hist = << Saved(cnf) >>
   BY <1>5, SavedRestores DEF Init
<1>7. UnitsConsistent(cnf) /\ MapExact(cnf)
   BY <1>4 DEF UnitsConsistent, MapExact
<1>8. UnitsConsistent(Saved(cnf)) /\ MapExact(Saved(cnf))
   BY <1>5, <1>7, SavedKeeps
<1>9. TypeOK
   <2>1. hist \in Seq(CnfType)
      BY <1>6
   <2> QED BY <2>1, <1>5 DEF TypeOK, Init
<1>10. Aligned
   <2>1. Len(<< start >>) = 1 /\ << start >>[1] = start /\ Len(hist) = 1 /\ hist[1] = Saved(cnf)
      BY <1>6
   <2>2. Undoes(start, cnf, Saved(cnf))
      BY <1>6 DEF Undoes, undo
   <2> QED BY <2>1, <2>2, <1>4 DEF Aligned, Top
<1>11. WellFormed /\ HistoryWellFormed
   BY <1>6, <1>7, <1>8 DEF WellFormed, HistoryWellFormed
<1>12. OutermostKept
   BY <1>4 DEF OutermostKept, Init
<1> QED BY <1>9, <1>10, <1>11, <1>12 DEF IInv

\* The call of pop_context itself changes nothing yet.
LEMMA PopContextStep == IInv /\ PopContext => IInv'
  BY DEF IInv, PopContext, TypeOK, Aligned, WellFormed, HistoryWellFormed,
         OutermostKept, Top

\* The invariant is inductive.
LEMMA NextPreserves == IInv /\ [Next]_vars => IInv'
<1> SUFFICES ASSUME IInv, [Next]_vars PROVE IInv'
   OBVIOUS
<1>1. CASE NewContext        BY <1>1, NewContextStep
<1>2. CASE AssignLiteral     BY <1>2, AssignLiteralStep DEF AssignLiteral
<1>3. CASE TriggerConflict   BY <1>3, ConflictStep DEF TriggerConflict
<1>4. CASE DeactivateClause  BY <1>4, DeactivateClauseStep
<1>5. CASE UquantifyVariable BY <1>5, UquantifyVariableStep
<1>6. CASE PushActive        BY <1>6, PushActiveStep
<1>7. CASE PopContext        BY <1>7, PopContextStep
<1>8. CASE PopRecord         BY <1>8, PopRecordStep
<1>9. CASE UNCHANGED vars
   BY <1>9 DEF vars, IInv, TypeOK, Aligned, WellFormed, HistoryWellFormed,
               OutermostKept, Top
<1> QED BY <1>1, <1>2, <1>3, <1>4, <1>5, <1>6, <1>7, <1>8, <1>9 DEF Next

\* IInv always holds: each record on the action stack undoes, up to Restores,
\* the step it was written for.
THEOREM Invariance == Spec => []IInv
  BY InitEstablishes, NextPreserves, PTL DEF Spec

\* The object, its stacks and the recorded history keep their types.
THEOREM TypeCorrect == Spec => []TypeOK
  BY Invariance, PTL DEF IInv

\* When pop_context reaches the record that opened a context, the object is
\* again what it was when the context was opened (pop_context, assign_literal,
\* deactivate_clause, push_active and uquantify_variable of class Cnf).
THEOREM ContextsAreRestored == Spec => []ContextRestored
<1>1. IInv => ContextRestored
   BY DEF IInv, Aligned, ContextRestored, Undoes, undo
<1> QED BY <1>1, Invariance, PTL

\* Unit literals never contradict each other, propagated literals are unit
\* literals, and outside pushed sets the literal map is exact, at all times.
THEOREM StaysWellFormed == Spec => []WellFormed
  BY Invariance, PTL DEF IInv

\* pop_context never removes the outermost context, so it never reads an
\* empty stack.
THEOREM OutermostIsKept == Spec => []OutermostKept
  BY Invariance, PTL DEF IInv
=============================================================================

-------------------------- MODULE BuiltinKc_proofs --------------------------
(***************************************************************************)
(* Proofs about builtin_kc.  First: the object that all activations share  *)
(* is kept in order, contexts are opened and closed in step with the       *)
(* recursion, and the graph that is extended stays in normal form.  Then:  *)
(* whatever an activation returns represents the conjunction it was asked  *)
(* for, provided that no conflict gets out of sight (ConflictKept).        *)
(*                                                                         *)
(* The contexts are followed by a history z that no variable holds: z[i]   *)
(* is the object that the branch of frame i + 1 has been opened from.      *)
(* pop_context gives it back up to the conflict flag, because everything   *)
(* done inside a context has been logged (Within, module Cnf_proofs).      *)
(*                                                                         *)
(* An assignment of the inputs extends to one of the nodes of the subgraph *)
(* (Extension), and the extensions of the common models of the roots are   *)
(* what satisfies the clauses of clausify.  An object is Right when what   *)
(* it has derived and retired is true in all of those that agree with the  *)
(* splits in progress.                                                     *)
(***************************************************************************)
EXTENDS BuiltinKc, Reduce_proofs, Pog_proofs

-----------------------------------------------------------------------------
(* Changes of the object in a context *)

\* The traversal of a set of clauses meets each of them once.
LEMMA AscendingOnce ==
  ASSUME NEW S, S \subseteq Int, IsFiniteSet(S)
  PROVE  \A i, j \in 1 .. Len(Ascending(S)) : Ascending(S)[i] = Ascending(S)[j] => i = j
<1> DEFINE q == Ascending(S)
<1>1. q \in Seq(S) /\ ToSet(q) = S /\ Len(q) = Cardinality(S)
   BY AscendingEnumerates
<1> HIDE DEF q
<1>2. \A i, j \in 1 .. Len(q) : q[i] = q[j] => i = j
   BY <1>1, NoRepetition
<1> QED BY <1>2 DEF q

LEMMA AppendToConcat ==
  ASSUME NEW S, NEW a \in Seq(S), NEW b \in Seq(S), NEW e \in S
  PROVE  a \o Append(b, e) = Append(a \o b, e)
OBVIOUS

FirstClauses(remove, k) == [i \in 1 .. k |-> remove[i]]

\* Retiring one more clause.
LEMMA DeactivateOneMore ==
  ASSUME NEW s \in CnfType, NEW n \in Nat, NEW remove \in [1 .. n -> ClauseId],
         NEW k \in 1 .. n,
         NEW before, before = deactivate_clauses(s, FirstClauses(remove, k - 1))
  PROVE  deactivate_clauses(s, FirstClauses(remove, k)) = deactivate_clause(before, remove[k])
<1> USE DEF FirstClauses
<1> DEFINE q == [i \in 1 .. k |-> remove[i]]
           p == [i \in 1 .. k - 1 |-> remove[i]]
           rec(e) == [action |-> "DEACTIVATE_CLAUSE", ele |-> e]
           mapP == [lit \in Literal |-> s.literal_clauses[lit] \ { cid \in ToSet(p) : lit \in Lits(s, cid) }]
           mapQ == [lit \in Literal |-> s.literal_clauses[lit] \ { cid \in ToSet(q) : lit \in Lits(s, cid) }]
           actP == s.active_clauses \ ToSet(p)
           actQ == s.active_clauses \ ToSet(q)
           recP == [i \in DOMAIN p |-> rec(p[i])]
           recQ == [i \in DOMAIN q |-> rec(q[i])]
           c == remove[k]
<1>1. p \in [1 .. k - 1 -> ClauseId] /\ k - 1 \in Nat /\ q \in [1 .. k -> ClauseId] /\ k \in Nat
   OBVIOUS
<1>2. ToSet(q) = ToSet(p) \cup {c}
   <2>1. DOMAIN q = 1 .. k /\ DOMAIN p = 1 .. k - 1 /\ 1 .. k = (1 .. k - 1) \cup {k}
      OBVIOUS
   <2>2. q[k] = c /\ \A i \in 1 .. k - 1 : q[i] = p[i]
      OBVIOUS
   <2> HIDE DEF p, q
   <2> QED BY <2>1, <2>2 DEF ToSet
<1>3. s.action_stack \o recQ = Append(s.action_stack \o recP, rec(c))
   <2>1. s.action_stack \in Seq(ActionRecord)
      BY StackFacts
   <2>2. recP \in [1 .. k - 1 -> ActionRecord] /\ recQ \in [1 .. k -> ActionRecord]
      BY DEF ActionRecord, ActionType, ClauseId
   <2>3. rec(c) \in ActionRecord
      BY DEF ActionRecord, ActionType, ClauseId
   <2>4. recQ[k] = rec(c) /\ \A i \in 1 .. k - 1 : recQ[i] = recP[i]
      OBVIOUS
   <2> DEFINE r == rec(c)
   <2> HIDE DEF recP, recQ, r
   <2>5. recP \in Seq(ActionRecord) /\ Len(recP) = k - 1 /\ recQ \in Seq(ActionRecord) /\ Len(recQ) = k
      BY <1>1, <2>2, FunctionIsSeq
   <2>6. recQ = Append(recP, r)
      <3>1. /\ Append(recP, r) \in Seq(ActionRecord) /\ Len(Append(recP, r)) = k
            /\ \A i \in 1 .. k - 1 : Append(recP, r)[i] = recP[i]
            /\ Append(recP, r)[k] = r
         BY <2>3, <2>5, AppendProperties DEF r
      <3>2. \A i \in 1 .. k : recQ[i] = Append(recP, r)[i]
         <4>1. \A i \in 1 .. k : i = k \/ i \in 1 .. k - 1
            OBVIOUS
         <4> QED BY <2>4, <3>1, <4>1 DEF r
      <3> QED BY <2>5, <3>1, <3>2, SeqEqual
   <2>7. s.action_stack \o Append(recP, r) = Append(s.action_stack \o recP, r)
      <3>1. \A a \in Seq(ActionRecord), b \in Seq(ActionRecord), e \in ActionRecord :
               a \o Append(b, e) = Append(a \o b, e)
         BY AppendToConcat
      <3> QED BY <2>1, <2>3, <2>5, <3>1, Zenon DEF r
   <2> QED BY <2>6, <2>7 DEF r
<1>4. before = [s EXCEPT !.literal_clauses = mapP, !.active_clauses = actP,
                         !.action_stack = s.action_stack \o recP]
   BY DEF deactivate_clauses
<1>5. deactivate_clauses(s, q) = [s EXCEPT !.literal_clauses = mapQ, !.active_clauses = actQ,
                         !.action_stack = s.action_stack \o recQ]
   BY DEF deactivate_clauses
<1> HIDE DEF q, p
<1>6. actP \ {c} = actQ
   BY <1>2
<1>7. [lit \in Literal |-> mapP[lit] \ (IF lit \in Lits(s, c) THEN {c} ELSE {})] = mapQ
   <2>1. ASSUME NEW lit \in Literal
         PROVE  mapP[lit] \ (IF lit \in Lits(s, c) THEN {c} ELSE {}) = mapQ[lit]
      BY <1>2
   <2> QED BY <2>1
<1> DEFINE st == s.action_stack \o recP
<1> HIDE DEF mapP, mapQ, actP, actQ, recP, recQ, c, st
<1>8. /\ before.literal_clauses = mapP /\ before.active_clauses = actP /\ before.action_stack = st
      /\ Lits(before, c) = Lits(s, c)
   BY <1>4 DEF CnfType, Lits, st
<1> DEFINE map == [lit \in Literal |->
               before.literal_clauses[lit] \ (IF lit \in Lits(before, c) THEN {c} ELSE {})]
<1>9. map = mapQ
   BY <1>7, <1>8
<1>10. deactivate_clause(before, c) = Log([before EXCEPT !.literal_clauses = map, !.active_clauses = before.active_clauses \ {c}],
        "DEACTIVATE_CLAUSE", c)
   BY DEF deactivate_clause
<1> HIDE DEF map
<1>11. deactivate_clause(before, c) = Log([before EXCEPT !.literal_clauses = mapQ, !.active_clauses = actQ],
        "DEACTIVATE_CLAUSE", c)
   BY <1>6, <1>8, <1>9, <1>10
<1>12. deactivate_clause(before, c) = [s EXCEPT !.literal_clauses = mapQ, !.active_clauses = actQ,
                         !.action_stack = Append(st, rec(c))]
   BY <1>4, <1>11 DEF Log, CnfType, st
<1> QED BY <1>3, <1>5, <1>12 DEF st, q, c

\* A batch of clauses is retired in the context.
LEMMA RetireWithin ==
  ASSUME NEW s \in CnfType, NEW t \in CnfType, IndexExact(t), Within(s, t),
         NEW remove \in Seq(ClauseId), ToSet(remove) \subseteq t.active_clauses,
         \A i, j \in 1 .. Len(remove) : remove[i] = remove[j] => i = j
  PROVE  Within(s, deactivate_clauses(t, remove))
<1> DEFINE n == Len(remove)
           sofar(k) == FirstClauses(remove, k)
           after(k) == deactivate_clauses(t, sofar(k))
           S == { k \in 0 .. n : Within(s, after(k)) }
<1> USE DEF FirstClauses
<1>1. n \in Nat /\ remove \in [1 .. n -> ClauseId] /\ remove = sofar(n)
   BY LenProperties
<1> HIDE DEF n
<1>2. ASSUME NEW k \in 0 .. n
      PROVE  /\ sofar(k) \in Seq(ClauseId) /\ ToSet(sofar(k)) = { remove[i] : i \in 1 .. k }
             /\ after(k) \in CnfType /\ IndexExact(after(k)) /\ Retires(t, after(k), ToSet(sofar(k)))
   <2>1. sofar(k) \in [1 .. k -> ClauseId] /\ k \in Nat
      BY <1>1
   <2>2. sofar(k) \in Seq(ClauseId)
      BY <2>1, FunctionIsSeq
   <2>3. ToSet(sofar(k)) = { remove[i] : i \in 1 .. k }
      BY DEF ToSet
   <2> DEFINE x == after(k)
              q == sofar(k)
   <2>4. x = deactivate_clauses(t, q) /\ q \in Seq(ClauseId)
      BY <2>2
   <2> HIDE DEF x, q
   <2>5. x \in CnfType /\ IndexExact(x) /\ Retires(t, x, ToSet(q))
      BY <2>4, DeactivateClausesFacts
   <2> QED BY <2>2, <2>3, <2>5 DEF x, q
<1>3. 0 \in S
   <2>1. after(0) = t
      <3>1. sofar(0) = << >>
         OBVIOUS
      <3>2. t.action_stack \o [i \in DOMAIN << >> |-> [action |-> "DEACTIVATE_CLAUSE", ele |-> << >>[i]]] = t.action_stack
         <4>1. [i \in DOMAIN << >> |-> [action |-> "DEACTIVATE_CLAUSE", ele |-> << >>[i]]] = << >>
            OBVIOUS
         <4>2. t.action_stack \in Seq(ActionRecord)
            BY StackFacts
         <4> QED BY <4>1, <4>2, ConcatEmptySeq
      <3>3. ToSet(<< >>) = {}
         BY DEF ToSet
      <3>4. [lit \in Literal |-> t.literal_clauses[lit] \ { cid \in ToSet(<< >>) : lit \in Lits(t, cid) }]
              = t.literal_clauses
         <4>1. \A lit \in Literal : t.literal_clauses[lit] \ { cid \in ToSet(<< >>) : lit \in Lits(t, cid) } = t.literal_clauses[lit]
            BY <3>3
         <4>2. t.literal_clauses = [lit \in Literal |-> t.literal_clauses[lit]]
            BY DEF CnfType
         <4> QED BY <4>1, <4>2
      <3>5. t.active_clauses \ ToSet(<< >>) = t.active_clauses
         BY <3>3
      <3>6. deactivate_clauses(t, << >>) =
              [t EXCEPT !.literal_clauses = t.literal_clauses, !.active_clauses = t.active_clauses,
                        !.action_stack = t.action_stack]
         BY <3>2, <3>4, <3>5 DEF deactivate_clauses
      <3>7. deactivate_clauses(t, << >>) = t
         BY <3>6 DEF CnfType
      <3> QED BY <3>1, <3>7
   <2> QED BY <1>1, <2>1
<1>4. ASSUME NEW k \in 1 .. n, k - 1 \in S
      PROVE  k \in S
   <2> DEFINE u == after(k - 1)
              v == after(k)
              c == remove[k]
   <2>1. k - 1 \in 0 .. n /\ k \in 0 .. n
      BY <1>1
   <2>2. v = deactivate_clause(u, c)
      <3> HIDE DEF FirstClauses
      <3>1. u = deactivate_clauses(t, FirstClauses(remove, k - 1)) /\ v = deactivate_clauses(t, FirstClauses(remove, k))
         OBVIOUS
      <3>2. n \in Nat /\ remove \in [1 .. n -> ClauseId]
         BY <1>1
      <3> HIDE DEF u, v
      <3> QED BY <3>1, <3>2, DeactivateOneMore
   <2>3. u \in CnfType /\ IndexExact(u) /\ u.active_clauses = t.active_clauses \ { remove[i] : i \in 1 .. k - 1 }
      BY <1>2, <2>1 DEF Retires
   <2>4. c \in u.active_clauses
      <3>1. k \in 1 .. Len(remove) /\ \A i \in 1 .. k - 1 : i \in 1 .. Len(remove) /\ i # k
         BY <1>1 DEF n
      <3>2. c \in t.active_clauses
         BY <3>1, ToSetSeq
      <3> QED BY <2>3, <3>1, <3>2
   <2>5. v \in CnfType /\ Within(s, u)
      BY <1>2, <1>4, <2>1
   <2> HIDE DEF u, v, c
   <2>6. Logged(u, v)
      BY <2>2, <2>3, <2>4, DeactivateLogged
   <2>7. Within(s, v)
      BY <2>3, <2>5, <2>6, WithinLogged
   <2> QED BY <2>1, <2>7 DEF v
<1> HIDE DEF S
<1>5. 0 .. n \subseteq S
   BY <1>1, <1>3, <1>4, Induction
<1>6. n \in S
   BY <1>1, <1>5
<1> QED BY <1>1, <1>6 DEF S

-----------------------------------------------------------------------------
(* What the steps of bcp and bve do to the object in a branch *)

\* The object is still that of clausify, but for what contexts undo.
Kept(o, s) ==
    /\ s \in CnfType /\ IndexExact(s)
    /\ s.clauses = o.clauses /\ s.data_variables = o.data_variables
    /\ s.uquantified_variables = {}
    /\ s.bcp_unit_literals \subseteq s.unit_literals
    /\ \A lit \in s.unit_literals : -lit \notin s.unit_literals

\* The change from s to t belongs to the context that is open.
Proceeds(s, t) == \A x \in CnfType : Within(x, s) => Within(x, t)

LEMMA LoggedProceeds ==
  ASSUME NEW s \in CnfType, NEW t \in CnfType, Logged(s, t)
  PROVE  Proceeds(s, t)
BY WithinLogged DEF Proceeds

LEMMA ProceedsTransitive ==
  ASSUME NEW s, NEW t, NEW u, Proceeds(s, t), Proceeds(t, u)
  PROVE  Proceeds(s, u)
BY DEF Proceeds

LEMMA ConflictMoves ==
  ASSUME NEW o, NEW s, Kept(o, s), NEW t, t = trigger_conflict(s)
  PROVE  /\ Kept(o, t) /\ Proceeds(s, t) /\ SameClauses(s, t) /\ t.has_conflict
         /\ t.unit_literals = s.unit_literals /\ t.bcp_unit_literals = s.bcp_unit_literals
<1>1. s \in CnfType
   BY DEF Kept
<1>2. /\ t \in CnfType /\ SameClauses(s, t) /\ t.has_conflict
      /\ t.unit_literals = s.unit_literals /\ t.bcp_unit_literals = s.bcp_unit_literals
      /\ t.uquantified_variables = s.uquantified_variables /\ t.data_variables = s.data_variables
   BY <1>1, ConflictFacts
<1>3. Logged(s, t)
   BY <1>1, ConflictLogged
<1>4. Proceeds(s, t)
   BY <1>1, <1>2, <1>3, LoggedProceeds
<1>5. IndexExact(t)
   BY <1>2, SameClausesFacts DEF Kept
<1>6. Kept(o, t)
   BY <1>2, <1>5 DEF Kept, SameClauses
<1> QED BY <1>2, <1>4, <1>6

\* Clauses are retired.
LEMMA RetiresKept ==
  ASSUME NEW o, NEW s, Kept(o, s), NEW t \in CnfType, IndexExact(t), NEW cids, Retires(s, t, cids)
  PROVE  Kept(o, t)
BY DEF Kept, Retires, SameAssignment

LEMMA SatisfiedMoves ==
  ASSUME NEW o, NEW s, Kept(o, s), NEW cid \in s.active_clauses, NEW t, t = deactivate_clause(s, cid)
  PROVE  Kept(o, t) /\ Proceeds(s, t) /\ Retires(s, t, {cid})
<1>1. s \in CnfType /\ IndexExact(s) /\ cid \in ClauseId
   BY DEF Kept, CnfType
<1>2. t \in CnfType /\ IndexExact(t) /\ Retires(s, t, {cid})
   BY <1>1, DeactivateClauseFacts
<1>3. Logged(s, t)
   BY <1>1, DeactivateLogged
<1>4. Proceeds(s, t)
   BY <1>1, <1>2, <1>3, LoggedProceeds
<1> QED BY <1>2, <1>4, RetiresKept

\* A batch of active clauses, each once.
LEMMA BatchMoves ==
  ASSUME NEW o, NEW s, Kept(o, s), NEW C \in SUBSET s.active_clauses,
         NEW remove \in Seq(ClauseId), ToSet(remove) = C,
         \A i, j \in 1 .. Len(remove) : remove[i] = remove[j] => i = j,
         NEW t, t = deactivate_clauses(s, remove)
  PROVE  Kept(o, t) /\ Proceeds(s, t) /\ Retires(s, t, C)
<1>1. s \in CnfType /\ IndexExact(s)
   BY DEF Kept
<1>2. t \in CnfType /\ IndexExact(t) /\ Retires(s, t, C)
   BY <1>1, DeactivateClausesFacts
<1>3. \A x \in CnfType : Within(x, s) => Within(x, t)
   BY <1>1, RetireWithin
<1> QED BY <1>2, <1>3, RetiresKept DEF Proceeds

\* What the traversal of a set of active clauses is.
LEMMA ActiveInOrder ==
  ASSUME NEW o, NEW s, Kept(o, s), NEW C \in SUBSET s.active_clauses
  PROVE  /\ Ascending(C) \in Seq(ClauseId) /\ ToSet(Ascending(C)) = C
         /\ \A i, j \in 1 .. Len(Ascending(C)) : Ascending(C)[i] = Ascending(C)[j] => i = j
<1>1. s \in CnfType /\ C \in SUBSET DOMAIN s.clauses
   BY DEF Kept, IndexExact
<1>2. IsFiniteSet(C) /\ C \subseteq Int
   BY <1>1, ClausesFinite
<1> QED BY <1>1, <1>2, ClausesInOrder, AscendingOnce

\* A literal becomes a unit literal, and its clauses are retired.
UnitMove(s, t, lit) ==
    /\ t.clauses = s.clauses
    /\ t.active_clauses = s.active_clauses \ Containing(s, lit)
    /\ t.unit_literals = s.unit_literals \cup {lit}
    /\ t.bcp_unit_literals = s.bcp_unit_literals \cup {lit}
    /\ t.has_conflict = s.has_conflict

LEMMA AssignMoves ==
  ASSUME NEW o, NEW s, Kept(o, s), NEW lit \in Literal,
         lit \notin s.unit_literals, -lit \notin s.unit_literals,
         NEW t, t = assign_literal(s, lit, TRUE)
  PROVE  Kept(o, t) /\ Proceeds(s, t) /\ Propagates(s, t, lit)
<1>1. s \in CnfType /\ IndexExact(s) /\ s.bcp_unit_literals \subseteq s.unit_literals
   BY DEF Kept
<1>2. t \in CnfType /\ Propagates(s, t, lit)
   BY <1>1, AssignFacts
<1>3. Logged(s, t)
   BY <1>1, AssignLogged
<1>4. Proceeds(s, t)
   BY <1>1, <1>2, <1>3, LoggedProceeds
<1>5. IndexExact(t)
   BY <1>1, <1>2, SameClausesFacts DEF Propagates
<1>6. \A l \in t.unit_literals : -l \notin t.unit_literals
   <2> SUFFICES ASSUME NEW l \in t.unit_literals, -l \in t.unit_literals
                PROVE  FALSE
      OBVIOUS
   <2>1. s.unit_literals \subseteq Literal /\ t.unit_literals = s.unit_literals \cup {lit}
      BY <1>1, <1>2 DEF CnfType, Propagates
   <2>2. l \in Literal /\ lit # -lit /\ -(-l) = l
      BY <2>1, LiteralFacts
   <2>3. CASE l \in s.unit_literals
      BY <2>1, <2>2, <2>3 DEF Kept
   <2>4. CASE l = lit
      BY <2>1, <2>2, <2>4 DEF Kept
   <2> QED BY <2>1, <2>3, <2>4
<1>7. Kept(o, t)
   BY <1>2, <1>5, <1>6 DEF Kept, Propagates, SameClauses
<1> QED BY <1>2, <1>4, <1>7

LEMMA UnitMoves ==
  ASSUME NEW o, NEW s, Kept(o, s), NEW cid \in s.active_clauses, NEW lit \in Lits(s, cid),
         lit \notin s.unit_literals, -lit \notin s.unit_literals,
         NEW t, t = PropagateUnit(s, cid, lit, FALSE)
  PROVE  Kept(o, t) /\ Proceeds(s, t) /\ UnitMove(s, t, lit)
<1> DEFINE a == assign_literal(s, lit, TRUE)
           b == deactivate_clause(a, cid)
           C == b.literal_clauses[lit] \cap b.active_clauses
<1>1. t = deactivate_clauses(b, Ascending(C))
   BY DEF PropagateUnit
<1>2. lit \in Literal
   BY ClauseFacts DEF Kept, IndexExact
<1>3. a = assign_literal(s, lit, TRUE)
   OBVIOUS
<1> HIDE DEF a
<1>4. Kept(o, a) /\ Proceeds(s, a) /\ Propagates(s, a, lit)
   BY <1>2, <1>3, AssignMoves
<1>5. b = deactivate_clause(a, cid) /\ cid \in a.active_clauses
   BY <1>4 DEF Propagates, SameClauses
<1> HIDE DEF b
<1>6. Kept(o, b) /\ Proceeds(a, b) /\ Retires(a, b, {cid})
   BY <1>4, <1>5, SatisfiedMoves
<1>7. C = Containing(b, lit) /\ C \in SUBSET b.active_clauses
   BY <1>2, <1>6, ContainingFacts DEF Kept
<1> HIDE DEF C
<1>8. Kept(o, t) /\ Proceeds(b, t) /\ Retires(b, t, C)
   <2> DEFINE q == Ascending(C)
   <2>1. q \in Seq(ClauseId) /\ ToSet(q) = C /\ \A i, j \in 1 .. Len(q) : q[i] = q[j] => i = j
      BY <1>6, <1>7, ActiveInOrder
   <2>2. t = deactivate_clauses(b, q)
      BY <1>1
   <2> HIDE DEF q
   <2> QED BY <1>6, <1>7, <2>1, <2>2, BatchMoves
<1>9. Proceeds(s, t)
   BY <1>4, <1>6, <1>8, ProceedsTransitive
<1>10. UnitMove(s, t, lit)
   <2>1. \A c : Lits(b, c) = Lits(s, c) /\ Lits(a, c) = Lits(s, c)
      BY <1>4, <1>6 DEF Propagates, SameClauses, Retires, Lits
   <2>2. t.active_clauses = s.active_clauses \ Containing(s, lit)
      BY <1>4, <1>6, <1>7, <1>8, <2>1 DEF Propagates, SameClauses, Retires, Containing
   <2> QED BY <1>4, <1>6, <1>8, <2>2 DEF Propagates, SameClauses, Retires, SameAssignment, UnitMove
<1> QED BY <1>8, <1>9, <1>10

\* A pure literal is made true; a variable that has been assigned is not pure,
\* but bve does not look at that.
PureMove(s, t, lit) ==
    /\ t.clauses = s.clauses
    /\ t.active_clauses = s.active_clauses \ Containing(s, lit)
    /\ t.has_conflict = (s.has_conflict \/ -lit \in s.unit_literals)
    /\ \/ /\ lit \in s.unit_literals \/ -lit \in s.unit_literals
          /\ t.unit_literals = s.unit_literals /\ t.bcp_unit_literals = s.bcp_unit_literals
       \/ /\ lit \notin s.unit_literals /\ -lit \notin s.unit_literals
          /\ t.unit_literals = s.unit_literals \cup {lit}
          /\ t.bcp_unit_literals = s.bcp_unit_literals \cup {lit}

\* No clause, no resolvent.
LEMMA ResolveNothing ==
  ASSUME NEW s \in CnfType, NEW var, NEW lit \in Literal, s.literal_clauses[lit] = {}
  PROVE  ResolveAll(s, var, lit) = s
<1> DEFINE S == { p \in s.literal_clauses[lit] \X s.literal_clauses[-lit] : Resolves(s, var, p[1], p[2]) }
           pairs == Lexicographic(S)
           new == [i \in DOMAIN pairs |-> SortByVariable(Resolvent(s, var, pairs[i][1], pairs[i][2]))]
<1>1. S = {}
   OBVIOUS
<1>2. pairs \in Seq({}) /\ Len(pairs) = 0
   <2>1. IsFiniteSet({}) /\ Cardinality({}) = 0
      BY FS_EmptySet
   <2>2. {} \subseteq [1 .. 2 -> Int]
      OBVIOUS
   <2>3. Lexicographic({}) \in Seq({}) /\ Len(Lexicographic({})) = Cardinality({})
      BY <2>1, <2>2, LexicographicEnumerates
   <2> QED BY <1>1, <2>1, <2>3
<1>3. ResolveAll(s, var, lit) = AddClauses(s, new)
   BY DEF ResolveAll
<1>4. DOMAIN pairs = {}
   <2>1. DOMAIN pairs = 1 .. Len(pairs)
      BY <1>2, LenProperties
   <2> QED BY <1>2, <2>1
<1> HIDE DEF pairs
<1>5. new = << >>
   BY <1>4
<1> HIDE DEF new
<1>6. AddClauses(s, << >>) = s
   <2>1. s.clauses \o << >> = s.clauses
      <3>1. s.clauses \in Seq(Seq(Literal))
         BY DEF CnfType
      <3> QED BY <3>1, ConcatEmptySeq
   <2>2. DOMAIN << >> = {}
      OBVIOUS
   <2> DEFINE n == Len(s.clauses)
              holding(l) == { i \in DOMAIN << >> : l \in ToSet(<< >>[i]) }
              map == [l \in Literal |-> s.literal_clauses[l] \cup { n + i : i \in holding(l) }]
              typ == [v \in Variables |->
               IF s.variable_type[v] = "UNUSED" /\ holding(v) \cup holding(-v) # {}
                 THEN "NONTSEITIN" ELSE s.variable_type[v]]
              act == s.active_clauses \cup { n + i : i \in DOMAIN << >> }
   <2>3. \A l : holding(l) = {}
      BY <2>2
   <2> HIDE DEF holding
   <2>4. map = s.literal_clauses
      <3>1. \A l \in Literal : s.literal_clauses[l] \cup { n + i : i \in holding(l) } = s.literal_clauses[l]
         BY <2>3
      <3>2. s.literal_clauses = [l \in Literal |-> s.literal_clauses[l]]
         BY DEF CnfType
      <3> QED BY <3>1, <3>2
   <2>5. typ = s.variable_type
      <3>1. \A v : ~(s.variable_type[v] = "UNUSED" /\ holding(v) \cup holding(-v) # {})
         BY <2>3
      <3>2. s.variable_type = [v \in Variables |-> s.variable_type[v]]
         BY DEF CnfType
      <3> QED BY <3>1, <3>2
   <2>6. act = s.active_clauses
      BY <2>2
   <2>7. AddClauses(s, << >>) = [s EXCEPT !.clauses = s.clauses \o << >>, !.active_clauses = act,
                                         !.literal_clauses = map, !.variable_type = typ]
      BY DEF AddClauses, holding
   <2> HIDE DEF act, map, typ
   <2>8. AddClauses(s, << >>) = [s EXCEPT !.clauses = s.clauses, !.active_clauses = s.active_clauses,
                                         !.literal_clauses = s.literal_clauses, !.variable_type = s.variable_type]
      BY <2>1, <2>4, <2>5, <2>6, <2>7
   <2> QED BY <2>8 DEF CnfType
<1> QED BY <1>3, <1>5, <1>6

\* The case in which assign_literal does nothing.
LEMMA AssignAgain ==
  ASSUME NEW s, NEW lit, -lit \notin s.unit_literals, lit \in s.unit_literals
  PROVE  assign_literal(s, lit, TRUE) = s
BY SMT DEF assign_literal

LEMMA AssignConflict ==
  ASSUME NEW s, NEW lit, -lit \in s.unit_literals
  PROVE  assign_literal(s, lit, TRUE) = trigger_conflict(s)
BY SMT DEF assign_literal

LEMMA PureMoves ==
  ASSUME NEW o, NEW s, Kept(o, s), NEW var, NEW lit \in Literal, Containing(s, -lit) = {},
         NEW t, t = Eliminate(s, var, -lit, 0, FALSE)
  PROVE  Kept(o, t) /\ Proceeds(s, t) /\ PureMove(s, t, lit)
<1> DEFINE C == Containing(s, lit)
           q == Ascending(s.literal_clauses[-lit]) \o Ascending(s.literal_clauses[-(-lit)])
           r == deactivate_clauses(ResolveAll(s, var, -lit), q)
<1>1. s \in CnfType /\ IndexExact(s) /\ -lit \in Literal /\ -(-lit) = lit
   BY LiteralFacts DEF Kept
<1>2. /\ s.literal_clauses[-lit] = {} /\ s.literal_clauses[lit] = C
      /\ C \in SUBSET s.active_clauses /\ {} \in SUBSET s.active_clauses
   BY <1>1, ContainingFacts
<1>3. ResolveAll(s, var, -lit) = s
   BY <1>1, <1>2, ResolveNothing
<1> HIDE DEF C
<1>4. q = Ascending(C)
   <2>1. Ascending({}) \in Seq(ClauseId) /\ ToSet(Ascending({})) = {}
      BY <1>2, ActiveInOrder
   <2>2. Ascending(C) \in Seq(ClauseId)
      BY <1>2, ActiveInOrder
   <2>3. Ascending({}) = << >>
      BY <2>1, ToSetSeq, EmptySeq
   <2>4. << >> \o Ascending(C) = Ascending(C)
      BY <2>2, ConcatEmptySeq
   <2> QED BY <1>1, <1>2, <2>3, <2>4
<1>5. Kept(o, r) /\ Proceeds(s, r) /\ Retires(s, r, C)
   <2>1. r = deactivate_clauses(s, q)
      BY <1>3
   <2> HIDE DEF r, q
   <2>2. q \in Seq(ClauseId) /\ ToSet(q) = C /\ \A i, j \in 1 .. Len(q) : q[i] = q[j] => i = j
      BY <1>2, <1>4, ActiveInOrder
   <2> QED BY <1>2, <2>1, <2>2, BatchMoves
<1>6. t = IF lit \notin s.bcp_unit_literals THEN assign_literal(r, lit, TRUE) ELSE r
   BY <1>1 DEF Eliminate
<1> HIDE DEF r
<1>7. r.unit_literals = s.unit_literals /\ r.bcp_unit_literals = s.bcp_unit_literals /\ r.has_conflict = s.has_conflict
   BY <1>5 DEF Retires, SameAssignment
<1>8. s.has_conflict \in BOOLEAN
   BY <1>1 DEF CnfType
<1>9. CASE lit \in s.bcp_unit_literals
   <2>1. lit \in s.unit_literals /\ -lit \notin s.unit_literals
      BY <1>9 DEF Kept
   <2> QED BY <1>5, <1>6, <1>7, <1>8, <1>9, <2>1 DEF PureMove, Retires, C
<1>10. CASE lit \notin s.bcp_unit_literals /\ -lit \in s.unit_literals
   <2>1. t = trigger_conflict(r)
      BY <1>6, <1>7, <1>10, AssignConflict
   <2>2. /\ Kept(o, t) /\ Proceeds(r, t) /\ SameClauses(r, t) /\ t.has_conflict
         /\ t.unit_literals = r.unit_literals /\ t.bcp_unit_literals = r.bcp_unit_literals
      BY <1>5, <2>1, ConflictMoves
   <2>3. t.has_conflict \in BOOLEAN
      BY <2>2 DEF Kept, CnfType
   <2>4. Proceeds(s, t)
      BY <1>5, <2>2, ProceedsTransitive
   <2> QED BY <1>5, <1>7, <1>10, <2>2, <2>3, <2>4 DEF PureMove, Retires, SameClauses, C
<1>11. CASE lit \notin s.bcp_unit_literals /\ -lit \notin s.unit_literals /\ lit \in s.unit_literals
   <2>1. t = r
      BY <1>6, <1>7, <1>11, AssignAgain
   <2> QED BY <1>5, <1>7, <1>8, <1>11, <2>1 DEF PureMove, Retires, C
<1>12. CASE -lit \notin s.unit_literals /\ lit \notin s.unit_literals
   <2>1. t = assign_literal(r, lit, TRUE)
      BY <1>6, <1>12 DEF Kept
   <2>2. Kept(o, t) /\ Proceeds(r, t) /\ Propagates(r, t, lit)
      BY <1>5, <1>7, <1>12, <2>1, AssignMoves
   <2>3. Proceeds(s, t)
      BY <1>5, <2>2, ProceedsTransitive
   <2> QED BY <1>5, <1>7, <1>8, <1>12, <2>2, <2>3 DEF PureMove, Retires, Propagates, SameClauses, C
<1> QED BY <1>9, <1>10, <1>11, <1>12

-----------------------------------------------------------------------------
(* Sequences of clauses, one after the other *)

Flattening(S, seqs, g) ==
    /\ g[0] = << >>
    /\ \A k \in 0 .. Len(seqs) : g[k] \in Seq(S)
    /\ \A k \in 1 .. Len(seqs) : g[k] = g[k - 1] \o seqs[k]
    /\ FlattenSeq(seqs) = g[Len(seqs)]

LEMMA FlattenDefined ==
  ASSUME NEW S, NEW seqs \in Seq(Seq(S))
  PROVE  \E g : Flattening(S, seqs, g)
<1> DEFINE n == Len(seqs)
           T == [k \in 0 .. n |-> Seq(S)]
           step == [x \in (1 .. n) \X Seq(S) |-> x[2] \o seqs[x[1]]]
           flatten[i \in 1 .. n] == IF i = 1 THEN seqs[i] ELSE flatten[i - 1] \o seqs[i]
<1>1. n \in Nat /\ (n = 0 => seqs = << >>) /\ \A k \in 1 .. n : seqs[k] \in Seq(S)
   BY LenProperties, EmptySeq
<1>2. << >> \in T[0] /\ \A k \in 0 .. n : T[k] = Seq(S)
   BY <1>1
<1>3. FlattenSeq(seqs) = IF n = 0 THEN seqs ELSE flatten[n]
   BY DEF FlattenSeq
<1>4. \A k \in 1 .. n, x \in Seq(S) : step[<< k, x >>] = x \o seqs[k]
   OBVIOUS
<1>5. StepTyped(n, T, step)
   <2>1. ASSUME NEW k \in 1 .. n, NEW x \in T[k - 1]
         PROVE  step[<< k, x >>] \in T[k]
      <3>1. k - 1 \in 0 .. n /\ k \in 0 .. n
         BY <1>1
      <3>2. x \in Seq(S) /\ T[k] = Seq(S)
         BY <1>2, <3>1
      <3>3. x \o seqs[k] \in Seq(S)
         BY <1>1, <3>2, ConcatProperties
      <3> QED BY <1>4, <3>2, <3>3
   <2> QED BY <2>1 DEF StepTyped
<1> HIDE DEF n, T, step
<1>6. PICK g : Recursive(g, n, T, << >>, step)
   BY <1>1, <1>2, <1>5, Recursion
<1>7. \A k \in 0 .. n : g[k] \in Seq(S)
   BY <1>2, <1>6 DEF Recursive
<1>8. \A k \in 1 .. n : g[k] = g[k - 1] \o seqs[k]
   <2>1. ASSUME NEW k \in 1 .. n
         PROVE  g[k] = g[k - 1] \o seqs[k]
      <3>1. k - 1 \in 0 .. n
         BY <1>1
      <3> QED BY <1>4, <1>6, <1>7, <3>1 DEF Recursive
   <2> QED BY <2>1
<1>9. n # 0 => flatten[n] = g[n]
   <2> DEFINE f == [k \in 1 .. n |-> g[k]]
   <2>1. f = [i \in 1 .. n |-> IF i = 1 THEN seqs[i] ELSE f[i - 1] \o seqs[i]]
      <3>1. ASSUME NEW k \in 1 .. n
            PROVE  f[k] = IF k = 1 THEN seqs[k] ELSE f[k - 1] \o seqs[k]
         <4>1. f[k] = g[k - 1] \o seqs[k]
            BY <1>8
         <4>2. CASE k = 1
            <5>1. g[k - 1] = << >>
               BY <1>6, <4>2 DEF Recursive
            <5>2. seqs[k] \in Seq(S)
               BY <1>1
            <5>3. << >> \o seqs[k] = seqs[k]
               BY <5>2, ConcatEmptySeq
            <5> QED BY <4>1, <4>2, <5>1, <5>3
         <4>3. CASE k # 1
            <5>1. k - 1 \in 1 .. n
               BY <1>1, <4>3
            <5> QED BY <4>1, <4>3, <5>1
         <4> QED BY <4>2, <4>3
      <3> QED BY <3>1
   <2> HIDE DEF f
   <2>2. flatten = [i \in 1 .. n |-> IF i = 1 THEN seqs[i] ELSE flatten[i - 1] \o seqs[i]]
      BY <2>1
   <2> HIDE DEF flatten
   <2> DEFINE same == { k \in 0 .. n : k # 0 => flatten[k] = g[k] }
   <2>3. 0 \in same
      BY <1>1
   <2>4. ASSUME NEW k \in 1 .. n, k - 1 \in same
         PROVE  k \in same
      <3>1. flatten[k] = IF k = 1 THEN seqs[k] ELSE flatten[k - 1] \o seqs[k]
         BY <2>2
      <3>2. CASE k = 1
         <4>1. g[k - 1] = << >> /\ seqs[k] \in Seq(S)
            BY <1>1, <1>6, <3>2 DEF Recursive
         <4>2. << >> \o seqs[k] = seqs[k]
            BY <4>1, ConcatEmptySeq
         <4>3. g[k] = seqs[k]
            BY <1>8, <4>1, <4>2
         <4> QED BY <1>1, <3>1, <3>2, <4>3
      <3>3. CASE k # 1
         <4>1. k - 1 # 0 /\ k \in 0 .. n
            BY <1>1, <3>3
         <4> QED BY <1>8, <2>4, <3>1, <3>3, <4>1
      <3> QED BY <3>2, <3>3
   <2> HIDE DEF same
   <2>5. 0 .. n \subseteq same
      BY <1>1, <2>3, <2>4, Induction
   <2>6. n \in same
      BY <1>1, <2>5
   <2> QED BY <2>6 DEF same
<1>10. FlattenSeq(seqs) = g[n]
   BY <1>1, <1>3, <1>6, <1>9 DEF Recursive, n
<1>11. Flattening(S, seqs, g)
   BY <1>6, <1>7, <1>8, <1>10 DEF Flattening, Recursive, n
<1> QED BY <1>11

\* The elements are those of the parts.
LEMMA FlattenElements ==
  ASSUME NEW S, NEW seqs \in Seq(Seq(S))
  PROVE  /\ FlattenSeq(seqs) \in Seq(S)
         /\ ToSet(FlattenSeq(seqs)) = UNION { ToSet(seqs[i]) : i \in 1 .. Len(seqs) }
<1> DEFINE n == Len(seqs)
<1>1. PICK g : Flattening(S, seqs, g)
   BY FlattenDefined
<1>2. n \in Nat /\ \A k \in 1 .. n : seqs[k] \in Seq(S)
   BY LenProperties
<1> DEFINE G == { k \in 0 .. n : ToSet(g[k]) = UNION { ToSet(seqs[i]) : i \in 1 .. k } }
<1>3. 0 \in G
   <2>1. ToSet(g[0]) = {}
      BY <1>1 DEF Flattening, ToSet
   <2>2. UNION { ToSet(seqs[i]) : i \in 1 .. 0 } = {}
      OBVIOUS
   <2> QED BY <1>2, <2>1, <2>2
<1>4. ASSUME NEW k \in 1 .. n, k - 1 \in G
      PROVE  k \in G
   <2>1. k - 1 \in 0 .. n /\ k \in 0 .. n
      BY <1>2
   <2>2. g[k] = g[k - 1] \o seqs[k] /\ g[k - 1] \in Seq(S) /\ seqs[k] \in Seq(S)
      BY <1>1, <1>2, <2>1 DEF Flattening
   <2>3. ToSet(g[k]) = ToSet(g[k - 1]) \cup ToSet(seqs[k])
      BY <2>2, ToSetConcat
   <2>4. 1 .. k = (1 .. k - 1) \cup {k}
      BY <2>1
   <2>5. UNION { ToSet(seqs[i]) : i \in 1 .. k } = (UNION { ToSet(seqs[i]) : i \in 1 .. k - 1 }) \cup ToSet(seqs[k])
      BY <2>4
   <2>6. ToSet(g[k - 1]) = UNION { ToSet(seqs[i]) : i \in 1 .. k - 1 }
      BY <1>4
   <2> HIDE DEF n
   <2> QED BY <2>1, <2>3, <2>5, <2>6
<1> HIDE DEF G
<1>5. 0 .. n \subseteq G
   BY <1>2, <1>3, <1>4, Induction
<1>6. n \in G
   BY <1>2, <1>5
<1>7. FlattenSeq(seqs) = g[n] /\ g[n] \in Seq(S)
   BY <1>1, <1>2 DEF Flattening
<1> QED BY <1>6, <1>7 DEF G

\* No variable occurs twice.
Varied(q) == \A i, j \in 1 .. Len(q) : IABS(q[i]) = IABS(q[j]) => i = j

VariablesOf(q) == { IABS(x) : x \in ToSet(q) }

LEMMA VariedInjective ==
  ASSUME NEW q \in Seq(Int)
  PROVE  IsInjective([k \in DOMAIN q |-> IABS(q[k])]) <=> Varied(q)
<1>1. DOMAIN q = 1 .. Len(q)
   BY LenProperties
<1> DEFINE f == [k \in DOMAIN q |-> IABS(q[k])]
<1>2. DOMAIN f = 1 .. Len(q) /\ \A k \in 1 .. Len(q) : f[k] = IABS(q[k])
   BY <1>1
<1> HIDE DEF f
<1> QED BY <1>2 DEF IsInjective, Varied, f

LEMMA VariedConcat ==
  ASSUME NEW p \in Seq(Int), NEW q \in Seq(Int)
  PROVE  Varied(p \o q) <=> /\ Varied(p) /\ Varied(q)
                            /\ VariablesOf(p) \cap VariablesOf(q) = {}
<1> DEFINE r == p \o q
           m == Len(p)
           n == Len(q)
<1>1. /\ r \in Seq(Int) /\ Len(r) = m + n /\ m \in Nat /\ n \in Nat
      /\ \A i \in 1 .. m : r[i] = p[i]
      /\ \A i \in m + 1 .. m + n : r[i] = q[i - m]
   BY ConcatProperties, LenProperties
<1>2. /\ VariablesOf(p) = { IABS(p[i]) : i \in 1 .. m }
      /\ VariablesOf(q) = { IABS(q[i]) : i \in 1 .. n }
   <2>1. ToSet(p) = { p[i] : i \in 1 .. m } /\ ToSet(q) = { q[i] : i \in 1 .. n }
      BY LenProperties DEF ToSet
   <2> HIDE DEF m, n
   <2> QED BY <2>1 DEF VariablesOf
<1> HIDE DEF r, m, n
<1>3. \A i \in 1 .. n : m + i \in 1 .. m + n /\ r[m + i] = q[i] /\ ~(m + i \in 1 .. m)
   <2>1. ASSUME NEW i \in 1 .. n
         PROVE  m + i \in m + 1 .. m + n /\ (m + i) - m = i
      BY <1>1
   <2> QED BY <1>1, <2>1
<1>4. ASSUME Varied(r)
      PROVE  Varied(p) /\ Varied(q) /\ VariablesOf(p) \cap VariablesOf(q) = {}
   <2>1. \A i, j \in 1 .. m + n : IABS(r[i]) = IABS(r[j]) => i = j
      BY <1>1, <1>4 DEF Varied
   <2>2. Varied(p)
      <3>1. \A i \in 1 .. m : i \in 1 .. m + n
         BY <1>1
      <3> QED BY <1>1, <2>1, <3>1 DEF Varied, m
   <2>3. Varied(q)
      <3>1. ASSUME NEW i \in 1 .. n, NEW j \in 1 .. n, IABS(q[i]) = IABS(q[j])
            PROVE  i = j
         <4>1. m + i = m + j
            BY <1>3, <2>1, <3>1
         <4> QED BY <1>1, <4>1
      <3> QED BY <3>1 DEF Varied, n
   <2>4. ASSUME NEW i \in 1 .. m, NEW j \in 1 .. n, IABS(p[i]) = IABS(q[j])
         PROVE  FALSE
      <3>1. i \in 1 .. m + n
         BY <1>1
      <3>2. i = m + j
         BY <1>1, <1>3, <2>1, <2>4, <3>1
      <3> QED BY <1>3, <3>2
   <2> QED BY <1>2, <2>2, <2>3, <2>4
<1>5. ASSUME Varied(p), Varied(q), VariablesOf(p) \cap VariablesOf(q) = {}
      PROVE  Varied(r)
   <2>1. ASSUME NEW i \in 1 .. m + n, NEW j \in 1 .. m + n, IABS(r[i]) = IABS(r[j])
         PROVE  i = j
      <3>1. \A k \in 1 .. m + n : k \in 1 .. m \/ (k \in m + 1 .. m + n /\ k - m \in 1 .. n)
         BY <1>1
      <3>2. CASE i \in 1 .. m /\ j \in 1 .. m
         BY <1>1, <1>5, <2>1, <3>2 DEF Varied, m
      <3>3. CASE i \in 1 .. m /\ j \in m + 1 .. m + n /\ j - m \in 1 .. n
         BY <1>1, <1>2, <1>5, <2>1, <3>3
      <3>4. CASE j \in 1 .. m /\ i \in m + 1 .. m + n /\ i - m \in 1 .. n
         BY <1>1, <1>2, <1>5, <2>1, <3>4
      <3>5. CASE i \in m + 1 .. m + n /\ i - m \in 1 .. n /\ j \in m + 1 .. m + n /\ j - m \in 1 .. n
         <4>1. r[i] = q[i - m] /\ r[j] = q[j - m]
            BY <1>1, <3>5
         <4>2. i - m = j - m
            BY <1>5, <2>1, <3>5, <4>1 DEF Varied, n
         <4> QED BY <1>1, <4>2
      <3> QED BY <3>1, <3>2, <3>3, <3>4, <3>5
   <2> QED BY <1>1, <2>1 DEF Varied
<1> QED BY <1>4, <1>5 DEF r

\* What no repeated variable in the whole means for the parts.
LEMMA VariedParts ==
  ASSUME NEW seqs \in Seq(Seq(Int))
  PROVE  Varied(FlattenSeq(seqs)) <=>
           /\ \A i \in 1 .. Len(seqs) : Varied(seqs[i])
           /\ \A i, j \in 1 .. Len(seqs) : i < j => VariablesOf(seqs[i]) \cap VariablesOf(seqs[j]) = {}
<1> DEFINE n == Len(seqs)
           Apart(k) == /\ \A i \in 1 .. k : Varied(seqs[i])
                       /\ \A i, j \in 1 .. k : i < j => VariablesOf(seqs[i]) \cap VariablesOf(seqs[j]) = {}
<1>1. PICK g : Flattening(Int, seqs, g)
   BY FlattenDefined
<1>2. n \in Nat /\ \A k \in 1 .. n : seqs[k] \in Seq(Int)
   BY LenProperties
<1> DEFINE G == { k \in 0 .. n : /\ VariablesOf(g[k]) = UNION { VariablesOf(seqs[i]) : i \in 1 .. k }
                                 /\ Varied(g[k]) <=> Apart(k) }
<1>3. 0 \in G
   <2>1. g[0] = << >> /\ 1 .. 0 = {} /\ Len(<< >>) = 0 /\ DOMAIN << >> = {}
      BY <1>1 DEF Flattening
   <2>2. VariablesOf(g[0]) = {}
      BY <2>1 DEF VariablesOf, ToSet
   <2>3. Varied(g[0]) /\ Apart(0)
      BY <2>1 DEF Varied
   <2> QED BY <1>2, <2>1, <2>2, <2>3
<1>4. ASSUME NEW k \in 1 .. n, k - 1 \in G
      PROVE  k \in G
   <2>1. k - 1 \in 0 .. n /\ k \in 0 .. n /\ 1 .. k = (1 .. k - 1) \cup {k}
      BY <1>2
   <2>2. g[k] = g[k - 1] \o seqs[k] /\ g[k - 1] \in Seq(Int) /\ seqs[k] \in Seq(Int)
      BY <1>1, <1>2, <2>1 DEF Flattening
   <2>3. VariablesOf(g[k]) = VariablesOf(g[k - 1]) \cup VariablesOf(seqs[k])
      BY <2>2, ToSetConcat DEF VariablesOf
   <2>4. UNION { VariablesOf(seqs[i]) : i \in 1 .. k }
           = (UNION { VariablesOf(seqs[i]) : i \in 1 .. k - 1 }) \cup VariablesOf(seqs[k])
      BY <2>1
   <2>5. /\ VariablesOf(g[k - 1]) = UNION { VariablesOf(seqs[i]) : i \in 1 .. k - 1 }
         /\ Varied(g[k - 1]) <=> Apart(k - 1)
      BY <1>4
   <2>6. Apart(k) <=> /\ Apart(k - 1) /\ Varied(seqs[k])
                      /\ \A i \in 1 .. k - 1 : VariablesOf(seqs[i]) \cap VariablesOf(seqs[k]) = {}
      <3>1. \A i \in 1 .. k - 1 : i < k /\ i \in 1 .. k
         BY <2>1
      <3>2. k \in 1 .. k /\ ~(k < k) /\ \A i \in 1 .. k : i \in 1 .. k - 1 \/ i = k
         BY <2>1
      <3>3. \A i \in 1 .. k - 1 : ~(k < i)
         BY <2>1
      <3> QED BY <3>1, <3>2, <3>3
   <2>7. Varied(g[k]) <=> /\ Varied(g[k - 1]) /\ Varied(seqs[k])
                          /\ VariablesOf(g[k - 1]) \cap VariablesOf(seqs[k]) = {}
      BY <2>2, VariedConcat
   <2>8. VariablesOf(g[k]) = UNION { VariablesOf(seqs[i]) : i \in 1 .. k }
      BY <2>3, <2>4, <2>5
   <2>9. VariablesOf(g[k - 1]) \cap VariablesOf(seqs[k]) = {}
           <=> \A i \in 1 .. k - 1 : VariablesOf(seqs[i]) \cap VariablesOf(seqs[k]) = {}
      BY <2>5
   <2> HIDE DEF n, Apart
   <2> QED BY <2>1, <2>5, <2>6, <2>7, <2>8, <2>9
<1> HIDE DEF G
<1>5. 0 .. n \subseteq G
   BY <1>2, <1>3, <1>4, Induction
<1>6. n \in G
   BY <1>2, <1>5
<1>7. FlattenSeq(seqs) = g[n]
   BY <1>1 DEF Flattening
<1> QED BY <1>6, <1>7 DEF G

-----------------------------------------------------------------------------
(* The subgraph below two edges *)

\* Edges that clausify can be given.
ProperRoots(p, R) == \A e \in R : IsEdge(p, e) /\ IABS(e) # TAUTOLOGY

\* A set that holds the nodes among some edges, and the children of its nodes.
Closed(p, R, S) ==
    /\ \A e \in R : is_node(e) => IABS(e) \in S
    /\ \A id \in S : \A c \in Children(p, id) : is_node(c) => c \in S

NodeIds(p) == NInput + 1 .. NInput + Len(p.nodes)

LEMMA ChildrenFacts ==
  ASSUME NEW p, WellFormed(p)
  PROVE  /\ \A e : IsEdge(p, e) /\ is_node(e) => IABS(e) \in NodeIds(p)
         /\ \A id \in NodeIds(p) :
              /\ IsEdge(p, id) /\ is_node(id) /\ IABS(id) = id /\ id \in Nat
              /\ Children(p, id) \subseteq 1 .. id - 1
              /\ IsNode(p, id, NodeOf(p, id))
              /\ \A c \in Children(p, id) : c \in Nat /\ (is_node(c) <=> c \in NodeIds(p))
<1>1. /\ NInput \in Nat /\ Len(p.nodes) \in Nat /\ TAUTOLOGY \in Nat
      /\ NInput + Len(p.nodes) < TAUTOLOGY
   BY Sizes
<1>2. ASSUME NEW e, IsEdge(p, e), is_node(e)
      PROVE  IABS(e) \in NodeIds(p)
   BY <1>1, <1>2 DEF IsEdge, is_node, NodeIds
<1>3. ASSUME NEW id \in NodeIds(p)
      PROVE  /\ IsEdge(p, id) /\ is_node(id) /\ IABS(id) = id /\ id \in Nat
             /\ Children(p, id) \subseteq 1 .. id - 1
             /\ IsNode(p, id, NodeOf(p, id))
             /\ \A c \in Children(p, id) : c \in Nat /\ (is_node(c) <=> c \in NodeIds(p))
   <2>1. IsEdge(p, id) /\ is_node(id) /\ IABS(id) = id /\ id \in Nat
      BY <1>1 DEF IsEdge, is_node, NodeIds, IABS
   <2>2. IsNode(p, id, NodeOf(p, id))
      BY <2>1, NodeMeaning
   <2>3. Children(p, id) \subseteq 1 .. id - 1
      BY <2>1, <2>2 DEF IsNode, Children
   <2>4. ASSUME NEW c \in Children(p, id)
         PROVE  c \in Nat /\ (is_node(c) <=> c \in NodeIds(p))
      <3>1. c \in Nat /\ c < id /\ id <= NInput + Len(p.nodes)
         BY <1>1, <2>1, <2>3 DEF NodeIds
      <3>2. IABS(c) = c /\ c # TAUTOLOGY
         BY <1>1, <2>1, <3>1 DEF IABS
      <3> QED BY <1>1, <2>1, <3>1, <3>2 DEF is_node, NodeIds
   <2> QED BY <2>1, <2>2, <2>3, <2>4
<1> QED BY <1>2, <1>3

\* The definition by recursion.
Searches(p, R, g) ==
    LET n     == Len(p.nodes)
        id(k) == NInput + n + 1 - k
    IN  /\ g[0] = { IABS(e) : e \in { x \in R : is_node(x) } }
        /\ \A k \in 1 .. n : g[k] = IF id(k) \in g[k - 1]
                                      THEN g[k - 1] \cup { c \in Children(p, id(k)) : is_node(c) }
                                      ELSE g[k - 1]
        /\ Reachable(p, R) = g[n]

LEMMA SearchDefined ==
  ASSUME NEW p, WellFormed(p), NEW R
  PROVE  \E g : Searches(p, R, g)
<1> DEFINE n == Len(p.nodes)
           id(k) == NInput + n + 1 - k
           base == { IABS(e) : e \in { x \in R : is_node(x) } }
           next(k, x) == IF id(k) \in x THEN x \cup { c \in Children(p, id(k)) : is_node(c) } ELSE x
           All == base \cup UNION { Children(p, id(k)) : k \in 1 .. n }
           T == [k \in 0 .. n |-> SUBSET All]
           step == [x \in (1 .. n) \X SUBSET All |-> next(x[1], x[2])]
           found[k \in 0 .. n] == IF k = 0 THEN base ELSE next(k, found[k - 1])
<1>1. n \in Nat
   BY Sizes
<1>2. \A k \in 0 .. n : T[k] = SUBSET All
   OBVIOUS
<1>3. Reachable(p, R) = found[n]
   BY DEF Reachable
<1>4. \A k \in 1 .. n : \A x \in SUBSET All : step[<< k, x >>] = next(k, x) /\ next(k, x) \in SUBSET All
   OBVIOUS
<1>5. base \in SUBSET All
   OBVIOUS
<1> HIDE DEF n, base, next, All, T, step
<1>6. base \in T[0]
   BY <1>1, <1>2, <1>5
<1>7. StepTyped(n, T, step)
   <2>1. ASSUME NEW k \in 1 .. n, NEW x \in T[k - 1]
         PROVE  step[<< k, x >>] \in T[k]
      <3>1. k - 1 \in 0 .. n /\ k \in 0 .. n
         BY <1>1
      <3> QED BY <1>2, <1>4, <3>1
   <2> QED BY <2>1 DEF StepTyped
<1>8. PICK g : Recursive(g, n, T, base, step)
   BY <1>1, <1>6, <1>7, Recursion
<1>9. \A k \in 1 .. n : g[k] = next(k, g[k - 1])
   <2>1. ASSUME NEW k \in 1 .. n
         PROVE  g[k] = next(k, g[k - 1])
      <3>1. k - 1 \in 0 .. n
         BY <1>1
      <3>2. g[k - 1] \in SUBSET All
         BY <1>2, <1>8, <3>1 DEF Recursive
      <3> QED BY <1>4, <1>8, <3>2 DEF Recursive
   <2> QED BY <2>1
<1>10. g[0] = base /\ g = [k \in 0 .. n |-> g[k]]
   BY <1>8 DEF Recursive
<1>11. g = [k \in 0 .. n |-> IF k = 0 THEN base ELSE next(k, g[k - 1])]
   <2>1. ASSUME NEW k \in 0 .. n
         PROVE  g[k] = IF k = 0 THEN base ELSE next(k, g[k - 1])
      <3>1. k = 0 \/ k \in 1 .. n
         BY <1>1
      <3>2. CASE k = 0
         BY <1>10, <3>2
      <3>3. CASE k \in 1 .. n
         <4>1. k # 0
            BY <1>1, <3>3
         <4> QED BY <1>9, <3>3, <4>1
      <3> QED BY <3>1, <3>2, <3>3
   <2> QED BY <1>10, <2>1
<1>12. found = [k \in 0 .. n |-> IF k = 0 THEN base ELSE next(k, found[k - 1])]
   BY <1>11
<1> HIDE DEF found
<1>13. found[0] = base /\ \A k \in 1 .. n : found[k] = next(k, found[k - 1])
   <2>1. 0 \in 0 .. n /\ \A k \in 1 .. n : k \in 0 .. n /\ k # 0
      BY <1>1
   <2> QED BY <1>12, <2>1
<1>14. Searches(p, R, found)
   BY <1>3, <1>13 DEF Searches, base, next, n
<1> QED BY <1>14

LEMMA ReachableFacts ==
  ASSUME NEW p, WellFormed(p), NEW R, ProperRoots(p, R)
  PROVE  /\ Reachable(p, R) \subseteq NodeIds(p)
         /\ Closed(p, R, Reachable(p, R))
         /\ \A S : Closed(p, R, S) => Reachable(p, R) \subseteq S
<1> DEFINE n == Len(p.nodes)
           id(k) == NInput + n + 1 - k
           roots0 == { IABS(e) : e \in { x \in R : is_node(x) } }
<1>1. n \in Nat /\ NInput \in Nat
   BY Sizes
<1>2. PICK g : Searches(p, R, g)
   BY SearchDefined
<1>3. /\ g[0] = roots0 /\ Reachable(p, R) = g[n]
      /\ \A k \in 1 .. n : g[k] = IF id(k) \in g[k - 1]
                                   THEN g[k - 1] \cup { c \in Children(p, id(k)) : is_node(c) }
                                   ELSE g[k - 1]
   BY <1>2 DEF Searches
<1>4. \A k \in 1 .. n : id(k) \in NodeIds(p)
   BY <1>1 DEF NodeIds
<1>5. roots0 \subseteq NodeIds(p)
   BY ChildrenFacts DEF ProperRoots
<1> DEFINE G == { k \in 0 .. n :
                    /\ roots0 \subseteq g[k] /\ g[k] \subseteq NodeIds(p)
                    /\ \A i \in g[k] : i > NInput + n - k => \A c \in Children(p, i) : is_node(c) => c \in g[k]
                    /\ \A S : Closed(p, R, S) => g[k] \subseteq S }
<1>6. 0 \in G
   <2>1. \A i \in g[0] : ~(i > NInput + n - 0)
      <3>1. ASSUME NEW i \in NodeIds(p)
            PROVE  ~(i > NInput + n - 0)
         BY <1>1 DEF NodeIds
      <3> QED BY <1>3, <1>5, <3>1
   <2>2. \A S : Closed(p, R, S) => g[0] \subseteq S
      BY <1>3 DEF Closed
   <2> QED BY <1>1, <1>3, <1>5, <2>1, <2>2
<1>7. ASSUME NEW k \in 1 .. n, k - 1 \in G
      PROVE  k \in G
   <2> DEFINE x == g[k - 1]
              d == id(k)
              new == { c \in Children(p, d) : is_node(c) }
   <2>1. /\ roots0 \subseteq x /\ x \subseteq NodeIds(p)
         /\ \A i \in x : i > NInput + n - (k - 1) => \A c \in Children(p, i) : is_node(c) => c \in x
         /\ \A S : Closed(p, R, S) => x \subseteq S
      BY <1>7
   <2>2. g[k] = IF d \in x THEN x \cup new ELSE x
      BY <1>3
   <2>3. d \in NodeIds(p) /\ d \in Int /\ d = NInput + n - (k - 1)
      BY <1>1, <1>4 DEF NodeIds
   <2>4. new \subseteq NodeIds(p) /\ \A c \in new : c \in Nat /\ c < d
      BY <2>3, ChildrenFacts
   <2>5. NInput + n - k = d - 1 /\ NInput + n - (k - 1) = d
      BY <1>1
   <2> HIDE DEF x, d, new
   <2>6. \A i \in g[k] : i > d - 1 => \A c \in Children(p, i) : is_node(c) => c \in g[k]
      <3> SUFFICES ASSUME NEW i \in g[k], i > d - 1, NEW c \in Children(p, i), is_node(c)
                   PROVE  c \in g[k]
         OBVIOUS
      <3>1. i \in x
         <4>1. \A j \in new : ~(j > d - 1)
            BY <2>3, <2>4
         <4> QED BY <2>2, <4>1
      <3>2. i \in Int
         BY <2>1, <3>1 DEF NodeIds
      <3>3. CASE i = d
         <4>1. c \in new
            BY <3>3 DEF new
         <4> QED BY <2>2, <3>1, <3>3, <4>1
      <3>4. CASE i # d
         <4>1. i > d
            BY <2>3, <3>2, <3>4
         <4>2. c \in x
            BY <2>1, <2>5, <3>1, <4>1
         <4> QED BY <2>2, <4>2
      <3> QED BY <3>3, <3>4
   <2>7. \A S : Closed(p, R, S) => g[k] \subseteq S
      BY <2>1, <2>2 DEF Closed, new
   <2>8. roots0 \subseteq g[k] /\ g[k] \subseteq NodeIds(p)
      BY <2>1, <2>2, <2>4
   <2>9. k \in 0 .. n
      BY <1>1
   <2> QED BY <2>5, <2>6, <2>7, <2>8, <2>9
<1> HIDE DEF G
<1>8. 0 .. n \subseteq G
   BY <1>1, <1>6, <1>7, Induction
<1>9. n \in G
   BY <1>1, <1>8
<1>10. /\ roots0 \subseteq g[n] /\ g[n] \subseteq NodeIds(p)
       /\ \A i \in g[n] : i > NInput + n - n => \A c \in Children(p, i) : is_node(c) => c \in g[n]
       /\ \A S : Closed(p, R, S) => g[n] \subseteq S
   BY <1>9 DEF G
<1>11. \A i \in g[n] : i > NInput + n - n
   BY <1>1, <1>10 DEF NodeIds
<1>12. Closed(p, R, g[n])
   BY <1>10, <1>11 DEF Closed
<1> QED BY <1>3, <1>10, <1>12

\* The subgraph is the same in a graph that has grown.
LEMMA ReachableKept ==
  ASSUME NEW p, WellFormed(p), NEW q, WellFormed(q), Grown(p, q), NEW R, ProperRoots(p, R)
  PROVE  Reachable(q, R) = Reachable(p, R) /\ ProperRoots(q, R) /\ NodeRemap(q, R) = NodeRemap(p, R)
<1> DEFINE P == Reachable(p, R)
           Q == Reachable(q, R)
<1>1. KeepsEdges(p, q)
   BY GrownEdges, Sizes
<1>2. ProperRoots(q, R)
   BY <1>1 DEF ProperRoots, KeepsEdges
<1>3. \A id \in NodeIds(p) : Children(q, id) = Children(p, id)
   BY <1>1, ChildrenFacts DEF KeepsEdges, Children
<1>4. P \subseteq NodeIds(p) /\ Closed(p, R, P) /\ \A S : Closed(p, R, S) => P \subseteq S
   BY ReachableFacts
<1>5. Closed(q, R, Q) /\ \A S : Closed(q, R, S) => Q \subseteq S
   BY <1>2, ReachableFacts
<1> HIDE DEF P, Q
<1>6. Closed(q, R, P)
   BY <1>3, <1>4 DEF Closed
<1>7. Q \subseteq P
   BY <1>5, <1>6
<1>8. Closed(p, R, Q)
   BY <1>3, <1>4, <1>5, <1>7 DEF Closed
<1>9. P \subseteq Q
   BY <1>4, <1>8
<1>10. Q = P
   BY <1>7, <1>9
<1> QED BY <1>2, <1>10 DEF NodeRemap, P, Q

\* The nodes get different numbers, which follow the input variables.
RemapRange(R, p) == NInput + 1 .. NInput + Cardinality(Reachable(p, R))

LEMMA RemapFacts ==
  ASSUME NEW p, WellFormed(p), NEW R, ProperRoots(p, R)
  PROVE  /\ DOMAIN NodeRemap(p, R) = Reachable(p, R)
         /\ IsFiniteSet(Reachable(p, R)) /\ Reachable(p, R) \subseteq Int
         /\ Cardinality(Reachable(p, R)) \in Nat /\ Cardinality(Reachable(p, R)) <= Len(p.nodes)
         /\ \A id \in Reachable(p, R) : NodeRemap(p, R)[id] \in RemapRange(R, p)
         /\ \A x, y \in Reachable(p, R) : NodeRemap(p, R)[x] = NodeRemap(p, R)[y] => x = y
<1> DEFINE N == Reachable(p, R)
           upto(id) == { x \in N : x <= id }
<1>1. N \subseteq NodeIds(p) /\ NInput \in Nat /\ Len(p.nodes) \in Nat
   BY ReachableFacts, Sizes
<1>2. IsFiniteSet(NodeIds(p)) /\ Cardinality(NodeIds(p)) = Len(p.nodes)
   <2>1. NInput + 1 \in Int /\ NInput + Len(p.nodes) \in Int
      BY <1>1
   <2>2. /\ IsFiniteSet(NodeIds(p))
         /\ Cardinality(NodeIds(p)) = IF NInput + 1 > NInput + Len(p.nodes) THEN 0 ELSE (NInput + Len(p.nodes)) - (NInput + 1) + 1
      BY <2>1, FS_Interval DEF NodeIds
   <2> QED BY <1>1, <2>2
<1>3. IsFiniteSet(N) /\ Cardinality(N) <= Len(p.nodes)
   BY <1>1, <1>2, FS_Subset
<1>4. N \subseteq Int
   BY <1>1 DEF NodeIds
<1>5. NodeRemap(p, R) = [id \in N |-> NInput + Cardinality(upto(id))]
   BY DEF NodeRemap
<1> HIDE DEF N
<1>6. Cardinality(N) \in Nat
   BY <1>3, FS_CardinalityType
<1>7. ASSUME NEW x \in N
      PROVE  Cardinality(upto(x)) \in 1 .. Cardinality(N) /\ IsFiniteSet(upto(x))
   <2>1. upto(x) \subseteq N /\ x \in upto(x)
      BY <1>4
   <2>2. IsFiniteSet(upto(x)) /\ Cardinality(upto(x)) <= Cardinality(N) /\ Cardinality(upto(x)) \in Nat
      BY <1>3, <2>1, FS_Subset, FS_CardinalityType
   <2>3. Cardinality(upto(x)) # 0
      BY <2>1, <2>2, FS_EmptySet
   <2> QED BY <1>6, <2>2, <2>3
<1>8. ASSUME NEW x \in N, NEW y \in N, x < y
      PROVE  Cardinality(upto(x)) < Cardinality(upto(y))
   <2>1. upto(x) \subseteq upto(y) /\ y \in upto(y) /\ y \notin upto(x)
      <3>1. x \in Int /\ y \in Int
         BY <1>4
      <3>2. ASSUME NEW u \in N, u <= x
            PROVE  u <= y
         BY <1>4, <1>8, <3>1, <3>2
      <3>3. y <= y /\ ~(y <= x)
         BY <1>8, <3>1
      <3> QED BY <3>2, <3>3
   <2>2. upto(x) # upto(y)
      BY <2>1
   <2>3. Cardinality(upto(x)) <= Cardinality(upto(y)) /\ (Cardinality(upto(x)) = Cardinality(upto(y)) => upto(x) = upto(y))
      BY <1>7, <2>1, FS_Subset
   <2>4. Cardinality(upto(x)) \in Nat /\ Cardinality(upto(y)) \in Nat
      BY <1>7, FS_CardinalityType
   <2> QED BY <2>2, <2>3, <2>4
<1>9. \A id \in N : NInput + Cardinality(upto(id)) \in NInput + 1 .. NInput + Cardinality(N)
   BY <1>1, <1>6, <1>7
<1>10. \A x, y \in N : NInput + Cardinality(upto(x)) = NInput + Cardinality(upto(y)) => x = y
   <2>1. ASSUME NEW x \in N, NEW y \in N, NInput + Cardinality(upto(x)) = NInput + Cardinality(upto(y))
         PROVE  x = y
      <3>1. Cardinality(upto(x)) = Cardinality(upto(y))
         BY <1>1, <1>7, <2>1
      <3>2. ~(x < y) /\ ~(y < x)
         BY <1>7, <1>8, <3>1
      <3> QED BY <1>4, <3>2
   <2> QED BY <2>1
<1> HIDE DEF upto
<1> QED BY <1>3, <1>4, <1>5, <1>6, <1>9, <1>10 DEF N, RemapRange

-----------------------------------------------------------------------------
(* The clauses made by clausify *)

\* A literal of a node's clauses: those of a product are the negations of what
\* those of a sum are.
Signed(node, x) == IF node.type = "SUM" THEN x ELSE -x

LongClause(p, remap, id) ==
    LET node == NodeOf(p, id)
    IN  {-Signed(node, remap[id])} \cup { Signed(node, Remapped(remap, e)) : e \in ToSet(node.args) }

ShortClause(p, remap, id, e) ==
    LET node == NodeOf(p, id)
    IN  {Signed(node, remap[id]), -Signed(node, Remapped(remap, e))}

\* What clausify may be called with.
Compilable(p, r) ==
    /\ WellFormed(p)
    /\ r \in Int \X Int
    /\ ProperRoots(p, ToSet(r))
    /\ NInput + Cardinality(Reachable(p, ToSet(r))) <= NVar

\* The edges that occur in the subgraph.
Inside(p, r, e) == IsEdge(p, e) /\ IABS(e) # TAUTOLOGY /\ (is_node(e) => IABS(e) \in Reachable(p, ToSet(r)))

\* The numbers of the variables of the clauses.
LastNumber(p, r) == NInput + Cardinality(Reachable(p, ToSet(r)))

LEMMA RootPair ==
  ASSUME NEW r \in Int \X Int
  PROVE  ToSet(r) = {r[1], r[2]} /\ DOMAIN r = 1 .. 2 /\ r[1] \in Int /\ r[2] \in Int
BY DEF ToSet

LEMMA LastNumberFacts ==
  ASSUME NEW p, NEW r, Compilable(p, r)
  PROVE  /\ LastNumber(p, r) \in Nat /\ LastNumber(p, r) <= NVar /\ NInput <= LastNumber(p, r)
         /\ LastNumber(p, r) <= NInput + Len(p.nodes) /\ NVar \in Nat /\ NVar < TAUTOLOGY
         /\ NInput \in Nat /\ TAUTOLOGY \in Nat /\ Len(p.nodes) \in Nat
BY RemapFacts, Sizes, NVarAssumption, SentinelAssumption DEF Compilable, LastNumber

\* What an edge becomes.
LEMMA RemappedFacts ==
  ASSUME NEW p, NEW r, Compilable(p, r), NEW e, Inside(p, r, e),
         NEW remap, remap = NodeRemap(p, ToSet(r))
  PROVE  /\ Remapped(remap, e) \in Literal
         /\ IABS(Remapped(remap, e)) \in 1 .. LastNumber(p, r)
         /\ Remapped(remap, -e) = -Remapped(remap, e)
         /\ is_node(e) => /\ IABS(Remapped(remap, e)) = remap[IABS(e)] /\ remap[IABS(e)] > NInput
                          /\ remap[IABS(e)] \in Variables
         /\ ~is_node(e) => IABS(e) \in InputVariables /\ Remapped(remap, e) = e
<1>1. /\ LastNumber(p, r) \in Nat /\ LastNumber(p, r) <= NVar /\ NInput <= LastNumber(p, r) /\ NVar \in Nat
      /\ NInput \in Nat /\ WellFormed(p)
   BY LastNumberFacts DEF Compilable
<1>2. e \in Int /\ e # 0 /\ -(-e) = e /\ IABS(-e) = IABS(e) /\ IABS(e) \in Nat
   BY <1>1, Negation, Sizes DEF Negates, Inside, IsEdge, IABS
<1>3. is_node(-e) <=> is_node(e)
   BY <1>2 DEF is_node
<1>4. CASE is_node(e)
   <2> DEFINE w == remap[IABS(e)]
   <2>1. w \in NInput + 1 .. LastNumber(p, r)
      BY <1>4, RemapFacts DEF Inside, Compilable, RemapRange, LastNumber
   <2>2. w \in Variables /\ w \in 1 .. LastNumber(p, r) /\ w > NInput
      BY <1>1, <2>1 DEF Variables
   <2>3. w \in Literal /\ -w \in Literal /\ IABS(w) = w /\ IABS(-w) = w /\ -(-w) = w
      BY <2>2, VariableFacts
   <2> HIDE DEF w
   <2>4. Remapped(remap, e) = (IF e < 0 THEN -w ELSE w) /\ Remapped(remap, -e) = (IF -e < 0 THEN -w ELSE w)
      BY <1>2, <1>3, <1>4 DEF Remapped, w
   <2>5. -e < 0 <=> ~(e < 0)
      BY <1>2
   <2>6. Remapped(remap, -e) = -Remapped(remap, e)
      BY <2>3, <2>4, <2>5
   <2> QED BY <1>4, <2>2, <2>3, <2>4, <2>6 DEF w
<1>5. CASE ~is_node(e)
   <2>1. IABS(e) \in InputVariables
      BY <1>1, <1>5, LiteralMeaning DEF Inside
   <2>2. Remapped(remap, e) = e /\ Remapped(remap, -e) = -e
      BY <1>3, <1>5 DEF Remapped
   <2>3. IABS(e) \in 1 .. LastNumber(p, r) /\ IABS(e) \in Variables
      BY <1>1, <2>1 DEF InputVariables, Variables
   <2>4. e \in Literal
      BY <1>2, <2>3 DEF Literal, IABS
   <2> QED BY <1>5, <2>1, <2>2, <2>3, <2>4
<1> QED BY <1>4, <1>5

\* The arguments of the nodes are inside.
LEMMA ArgumentsInside ==
  ASSUME NEW p, NEW r, Compilable(p, r), NEW id \in Reachable(p, ToSet(r))
  PROVE  /\ IsNode(p, id, NodeOf(p, id)) /\ id \in NodeIds(p) /\ Inside(p, r, id) /\ is_node(id) /\ IABS(id) = id
         /\ \A e \in ToSet(NodeOf(p, id).args) : Inside(p, r, e) /\ IABS(e) \in Children(p, id) /\ e \in Int
<1>1. WellFormed(p) /\ ProperRoots(p, ToSet(r))
   BY DEF Compilable
<1>2. id \in NodeIds(p) /\ Closed(p, ToSet(r), Reachable(p, ToSet(r)))
   BY <1>1, ReachableFacts
<1>3. IsNode(p, id, NodeOf(p, id)) /\ IsEdge(p, id) /\ is_node(id) /\ IABS(id) = id
   BY <1>1, <1>2, ChildrenFacts
<1>4. id # TAUTOLOGY
   BY <1>1, <1>2, Sizes DEF NodeIds
<1>5. ASSUME NEW e \in ToSet(NodeOf(p, id).args)
      PROVE  Inside(p, r, e) /\ IABS(e) \in Children(p, id) /\ e \in Int
   <2>1. IABS(e) \in Children(p, id)
      BY DEF Children
   <2>2. IsEdge(p, e) /\ IABS(e) # TAUTOLOGY
      BY <1>3 DEF IsNode
   <2>3. is_node(IABS(e)) <=> is_node(e)
      BY <2>2 DEF is_node, IABS, IsEdge
   <2>4. is_node(e) => IABS(e) \in Reachable(p, ToSet(r))
      BY <1>2, <2>1, <2>3 DEF Closed
   <2> QED BY <2>1, <2>2, <2>4 DEF Inside, IsEdge
<1> QED BY <1>2, <1>3, <1>4, <1>5 DEF Inside

\* The sets of literals of some clauses.
Contents(clauses) == { ToSet(c) : c \in ToSet(clauses) }

NodeContents(p, remap, id) ==
    {LongClause(p, remap, id)} \cup { ShortClause(p, remap, id, e) : e \in ToSet(NodeOf(p, id).args) }

\* A literal has at most one place in a clause.
Once(q, x) == \A i, j \in 1 .. Len(q) : q[i] = x /\ q[j] = x => i = j

LEMMA OnceInFront ==
  ASSUME NEW a \in Literal, NEW q \in Seq(Literal), \A i \in 1 .. Len(q) : IABS(q[i]) # IABS(a),
         NEW x, IABS(x) = IABS(a)
  PROVE  Once(<< a >> \o q, x)
<1>1. Len(q) \in Nat /\ Len(<< a >>) = 1 /\ << a >> \in Seq(Literal) /\ << a >>[1] = a
   BY LenProperties
<1>2. Len(<< a >> \o q) = 1 + Len(q)
      /\ \A i \in 1 .. 1 + Len(q) : (<< a >> \o q)[i] = IF i <= 1 THEN << a >>[i] ELSE q[i - 1]
   BY <1>1, ConcatProperties
<1>3. ASSUME NEW i \in 1 .. 1 + Len(q), (<< a >> \o q)[i] = x
      PROVE  i = 1
   <2>1. CASE i # 1
      <3>1. i - 1 \in 1 .. Len(q) /\ ~(i <= 1)
         BY <1>1, <2>1
      <3>2. q[i - 1] = x
         BY <1>2, <1>3, <3>1
      <3> QED BY <3>1, <3>2
   <2> QED BY <2>1
<1> QED BY <1>2, <1>3 DEF Once
LEMMA OnceInPair ==
  ASSUME NEW a \in Literal, NEW b, IABS(b) # IABS(a), NEW x, IABS(x) = IABS(a)
  PROVE  Once(<< a, b >>, x)
<1>1. Len(<< a, b >>) = 2 /\ << a, b >>[1] = a /\ << a, b >>[2] = b
   OBVIOUS
<1>2. \A i \in 1 .. 2 : i = 1 \/ i = 2
   OBVIOUS
<1> HIDE DEF IABS
<1> QED BY <1>1, <1>2 DEF Once
\* The variable of a node occurs once in each of its clauses.
OwnOnce(clauses, v) == \A c \in ToSet(clauses) : \A x : IABS(x) = v => Once(c, x)

LEMMA DefiningFacts ==
  ASSUME NEW p, NEW r, Compilable(p, r), NEW id \in Reachable(p, ToSet(r)),
         NEW remap, remap = NodeRemap(p, ToSet(r))
  PROVE  /\ DefiningClauses(p, remap, id) \in Seq(Seq(Literal))
         /\ Contents(DefiningClauses(p, remap, id)) = NodeContents(p, remap, id)
         /\ OwnOnce(DefiningClauses(p, remap, id), remap[id])
<1> DEFINE node == NodeOf(p, id)
           args == node.args
           nn == IF node.type = "SUM" THEN remap[id] ELSE -remap[id]
           lit(e) == LET v == IF is_node(e) THEN remap[IABS(e)] ELSE IABS(e)
                     IN  IF (e < 0) = (node.type = "SUM") THEN -v ELSE v
           lits == [i \in DOMAIN args |-> lit(args[i])]
           head == << -nn >>
           long == head \o lits
           one == << long >>
           shorts == [i \in DOMAIN lits |-> << nn, -lits[i] >>]
<1>1. DefiningClauses(p, remap, id) = one \o shorts
   BY DEF DefiningClauses
<1>2. args \in Seq(Int) /\ \A e \in ToSet(args) : Inside(p, r, e) /\ e \in Int
   BY ArgumentsInside DEF IsNode
<1>3. nn = Signed(node, remap[id])
   BY DEF Signed
<1>4. remap[id] \in Variables
   <2>1. Inside(p, r, id) /\ is_node(id) /\ IABS(id) = id
      BY ArgumentsInside
   <2> QED BY <2>1, RemappedFacts
<1>5. ASSUME NEW e \in ToSet(args)
      PROVE  lit(e) = Signed(node, Remapped(remap, e)) /\ lit(e) \in Literal
   <2>1. Remapped(remap, e) \in Literal /\ e \in Int
      BY <1>2, RemappedFacts
   <2>2. lit(e) = Signed(node, Remapped(remap, e))
      <3> DEFINE w == remap[IABS(e)]
      <3>1. CASE is_node(e)
         <4>1. w \in Int
            <5>1. w \in Variables
               BY <1>2, <3>1, RemappedFacts
            <5> QED BY <5>1 DEF Variables
         <4> HIDE DEF w
         <4>2. lit(e) = IF (e < 0) = (node.type = "SUM") THEN -w ELSE w
            BY <3>1 DEF w
         <4>3. Remapped(remap, e) = IF e < 0 THEN -w ELSE w
            BY <3>1 DEF Remapped, w
         <4> HIDE DEF lit, node
         <4> QED BY <4>1, <4>2, <4>3 DEF Signed
      <3>2. CASE ~is_node(e)
         <4>1. lit(e) = IF (e < 0) = (node.type = "SUM") THEN -IABS(e) ELSE IABS(e)
            BY <3>2
         <4>2. Remapped(remap, e) = e
            BY <3>2 DEF Remapped
         <4> HIDE DEF lit, node
         <4> QED BY <2>1, <4>1, <4>2 DEF Signed, IABS
      <3> QED BY <3>1, <3>2
   <2>3. Signed(node, Remapped(remap, e)) \in Literal
      BY <2>1, LiteralFacts DEF Signed
   <2> QED BY <2>2, <2>3
<1>6. DOMAIN args = 1 .. Len(args) /\ Len(args) \in Nat /\ ToSet(args) = { args[i] : i \in 1 .. Len(args) }
   BY <1>2, LenProperties DEF ToSet
<1>7. nn \in Literal /\ -nn \in Literal
   BY <1>4, VariableFacts
<1> HIDE DEF lit, node, nn
<1>8. lits \in [1 .. Len(args) -> Literal] /\ \A i \in 1 .. Len(args) : lits[i] = lit(args[i])
   BY <1>5, <1>6
<1> HIDE DEF lits
<1>9. lits \in Seq(Literal) /\ Len(lits) = Len(args) /\ DOMAIN lits = 1 .. Len(args)
   BY <1>6, <1>8, FunctionIsSeq
<1>10. ToSet(lits) = { Signed(node, Remapped(remap, e)) : e \in ToSet(args) }
   <2>1. ToSet(lits) = { lits[i] : i \in 1 .. Len(args) }
      BY <1>9 DEF ToSet
   <2>2. \A i \in 1 .. Len(args) : args[i] \in ToSet(args) /\ lits[i] = Signed(node, Remapped(remap, args[i]))
      BY <1>5, <1>6, <1>8
   <2>3. \A e \in ToSet(args) : \E i \in 1 .. Len(args) : args[i] = e
      BY <1>6
   <2> QED BY <2>1, <2>2, <2>3
<1>11. head \in Seq(Literal) /\ ToSet(head) = {-nn}
   BY <1>7 DEF ToSet
<1> HIDE DEF head
<1>12. long \in Seq(Literal) /\ ToSet(long) = {-nn} \cup ToSet(lits)
   BY <1>9, <1>11, ToSetConcat
<1>13. ToSet(long) = LongClause(p, remap, id)
   BY <1>3, <1>10, <1>12 DEF LongClause, node
<1> HIDE DEF long
<1>14. \A i \in 1 .. Len(args) : << nn, -lits[i] >> \in Seq(Literal) /\ ToSet(<< nn, -lits[i] >>) = {nn, -lits[i]}
   <2>1. ASSUME NEW i \in 1 .. Len(args)
         PROVE  << nn, -lits[i] >> \in Seq(Literal) /\ ToSet(<< nn, -lits[i] >>) = {nn, -lits[i]}
      <3>1. -lits[i] \in Literal
         BY <1>8, LiteralFacts
      <3> QED BY <1>7, <3>1 DEF ToSet
   <2> QED BY <2>1
<1>15. shorts \in [1 .. Len(args) -> Seq(Literal)] /\ \A i \in 1 .. Len(args) : shorts[i] = << nn, -lits[i] >>
   BY <1>9, <1>14
<1> HIDE DEF shorts
<1>16. shorts \in Seq(Seq(Literal)) /\ Len(shorts) = Len(args) /\ DOMAIN shorts = 1 .. Len(args)
   BY <1>6, <1>15, FunctionIsSeq
<1>17. Contents(shorts) = { ShortClause(p, remap, id, e) : e \in ToSet(args) }
   <2>1. ToSet(shorts) = { shorts[i] : i \in 1 .. Len(args) }
      BY <1>16 DEF ToSet
   <2>2. \A i \in 1 .. Len(args) : args[i] \in ToSet(args) /\ ToSet(shorts[i]) = ShortClause(p, remap, id, args[i])
      BY <1>3, <1>5, <1>6, <1>8, <1>14, <1>15 DEF ShortClause, node
   <2>3. \A e \in ToSet(args) : \E i \in 1 .. Len(args) : args[i] = e
      BY <1>6
   <2> QED BY <2>1, <2>2, <2>3 DEF Contents
<1>18. one \in Seq(Seq(Literal)) /\ ToSet(one) = {long}
   BY <1>12 DEF ToSet
<1> HIDE DEF one
<1>19. one \o shorts \in Seq(Seq(Literal)) /\ ToSet(one \o shorts) = {long} \cup ToSet(shorts)
   BY <1>16, <1>18, ToSetConcat
<1>20. Contents(one \o shorts) = {ToSet(long)} \cup Contents(shorts)
   BY <1>19 DEF Contents
<1>21. IABS(nn) = remap[id] /\ IABS(-nn) = remap[id]
   BY <1>3, <1>4, VariableFacts DEF Signed
<1>22. \A i \in 1 .. Len(args) : IABS(lits[i]) # remap[id]
   <2>1. ASSUME NEW i \in 1 .. Len(args)
         PROVE  IABS(lits[i]) # remap[id]
      <3> DEFINE e == args[i]
                 x == Remapped(remap, e)
      <3>1. e \in ToSet(args) /\ Inside(p, r, e) /\ e \in Int
         BY <1>2, <1>6
      <3>2. x \in Literal
         BY <3>1, RemappedFacts
      <3>3. IABS(lits[i]) = IABS(x)
         <4>1. lits[i] = x \/ lits[i] = -x
            BY <1>5, <1>8, <3>1 DEF Signed
         <4> QED BY <3>2, <4>1, LiteralFacts
      <3>4. remap[id] > NInput /\ NInput \in Nat /\ remap[id] \in Int
         <4>1. Inside(p, r, id) /\ is_node(id) /\ IABS(id) = id
            BY ArgumentsInside
         <4> QED BY <1>4, <4>1, RemappedFacts, NInputAssumption DEF Variables
      <3>5. CASE is_node(e)
         <4>1. IABS(x) = remap[IABS(e)] /\ IABS(e) \in Reachable(p, ToSet(r))
            BY <3>1, <3>5, RemappedFacts DEF Inside
         <4>2. IABS(e) # id
            <5>1. IABS(e) \in 1 .. IABS(id) - 1 /\ IABS(id) = id /\ id \in Int
               <6>1. IsNode(p, id, NodeOf(p, id)) /\ IABS(id) = id /\ id \in NodeIds(p)
                  BY ArgumentsInside
               <6>2. id \in Int
                  <7>1. Len(p.nodes) \in Nat
                     BY LastNumberFacts
                  <7> QED BY <6>1, <7>1, NInputAssumption DEF NodeIds
               <6> QED BY <3>1, <6>1, <6>2 DEF IsNode, node
            <5> QED BY <5>1
         <4> HIDE DEF x, e
         <4>3. \A y, z \in Reachable(p, ToSet(r)) : remap[y] = remap[z] => y = z
            BY RemapFacts DEF Compilable
         <4> QED BY <3>3, <4>1, <4>2, <4>3
      <3>6. CASE ~is_node(e)
         <4>1. x = e /\ IABS(e) \in InputVariables
            BY <3>1, <3>6, RemappedFacts
         <4> HIDE DEF x, e
         <4> QED BY <3>3, <3>4, <4>1 DEF InputVariables
      <3> QED BY <3>5, <3>6
   <2> QED BY <2>1
<1>23. OwnOnce(DefiningClauses(p, remap, id), remap[id])
   <2> SUFFICES ASSUME NEW c \in {long} \cup ToSet(shorts), NEW x, IABS(x) = remap[id]
                PROVE  Once(c, x)
      BY <1>1, <1>19 DEF OwnOnce
   <2>1. CASE c = long
      BY <1>7, <1>9, <1>21, <1>22, <2>1, OnceInFront DEF long, head
   <2>2. CASE c \in ToSet(shorts)
      <3>1. PICK i \in 1 .. Len(args) : c = << nn, -lits[i] >>
         BY <1>15, <1>16, <2>2 DEF ToSet
      <3>2. IABS(-lits[i]) = IABS(lits[i])
         BY <1>8, LiteralFacts
      <3> QED BY <1>7, <1>21, <1>22, <3>1, <3>2, OnceInPair
   <2> QED BY <2>1, <2>2
<1> QED BY <1>1, <1>13, <1>17, <1>19, <1>20, <1>23 DEF NodeContents, node

\* The clauses of the object that clausify makes, each as a set of literals.
AllContents(p, r) ==
    LET remap == NodeRemap(p, ToSet(r))
    IN  (UNION { NodeContents(p, remap, id) : id \in Reachable(p, ToSet(r)) })
          \cup { {Remapped(remap, e)} : e \in ToSet(r) }

\* The clauses of every node are there.
DefinesNodes(p, r, clauses) ==
    LET remap == NodeRemap(p, ToSet(r))
    IN  \A id \in Reachable(p, ToSet(r)) : ToSet(DefiningClauses(p, remap, id)) \subseteq ToSet(clauses)

\* The input variables of the edges of the subgraph.
InputsBelow(p, r) ==
    LET below == UNION { Children(p, id) : id \in Reachable(p, ToSet(r)) }
    IN  { v \in below \cup { IABS(e) : e \in ToSet(r) } : ~is_node(v) }

\* The object that clausify makes.
FromClausify(p, r, o) ==
    /\ o \in CnfType /\ IndexExact(o)
    /\ o.active_clauses = DOMAIN o.clauses
    /\ o.unit_literals = {} /\ o.bcp_unit_literals = {} /\ o.uquantified_variables = {}
    /\ ~o.has_conflict
    /\ Starts(o) = {1}
    /\ o.data_variables \subseteq InputVariables /\ o.data_variables = InputsBelow(p, r)
    /\ { Lits(o, cid) : cid \in DOMAIN o.clauses } = AllContents(p, r)
    /\ o.clauses \in Seq(Seq(Literal)) /\ DefinesNodes(p, r, o.clauses)
    /\ \A lits \in AllContents(p, r) : \A x \in lits :
         IABS(x) \in 1 .. LastNumber(p, r) /\ (IABS(x) <= NInput => IABS(x) \in o.data_variables)

\* The edges in the subgraph.
Edge(p, r, e) == Inside(p, r, e) /\ (~is_node(e) => IABS(e) \in InputsBelow(p, r))

LEMMA SubgraphEdges ==
  ASSUME NEW p, NEW r, Compilable(p, r)
  PROVE  /\ \A e \in ToSet(r) : Edge(p, r, e)
         /\ \A id \in Reachable(p, ToSet(r)) : \A e \in ToSet(NodeOf(p, id).args) : Edge(p, r, e)
         /\ \A id \in Reachable(p, ToSet(r)) : Edge(p, r, id)
         /\ InputsBelow(p, r) \subseteq InputVariables
<1>1. WellFormed(p) /\ ProperRoots(p, ToSet(r))
   BY DEF Compilable
<1>2. \A e : Inside(p, r, e) => (is_node(IABS(e)) <=> is_node(e))
   BY DEF Inside, is_node, IABS, IsEdge
<1>3. \A e \in ToSet(r) : Inside(p, r, e)
   BY <1>1, ReachableFacts DEF Inside, ProperRoots, Closed
<1>4. \A id \in Reachable(p, ToSet(r)) : \A e \in ToSet(NodeOf(p, id).args) : Inside(p, r, e)
   BY ArgumentsInside
<1>5. \A e \in ToSet(r) : Edge(p, r, e)
   BY <1>2, <1>3 DEF Edge, InputsBelow
<1>6. ASSUME NEW id \in Reachable(p, ToSet(r)), NEW e \in ToSet(NodeOf(p, id).args)
      PROVE  Edge(p, r, e)
   <2>1. Inside(p, r, e) /\ IABS(e) \in Children(p, id)
      BY <1>4 DEF Children
   <2> QED BY <1>2, <2>1 DEF Edge, InputsBelow
<1>7. ASSUME NEW id \in Reachable(p, ToSet(r))
      PROVE  Edge(p, r, id)
   BY ArgumentsInside DEF Edge
<1>8. ASSUME NEW v \in InputsBelow(p, r)
      PROVE  v \in InputVariables
   <2>1. \E e : Inside(p, r, e) /\ IABS(e) = v
      <3>1. CASE \E id \in Reachable(p, ToSet(r)) : v \in Children(p, id)
         BY <1>4, <3>1 DEF Children
      <3>2. CASE \E e \in ToSet(r) : v = IABS(e)
         BY <1>3, <3>2
      <3> QED BY <3>1, <3>2 DEF InputsBelow
   <2>2. ~is_node(v)
      BY DEF InputsBelow
   <2> QED BY <1>1, <1>2, <2>1, <2>2, LiteralMeaning DEF Inside
<1> QED BY <1>5, <1>6, <1>7, <1>8

\* What an edge becomes, once more, and negations.
LEMMA EdgeLiteral ==
  ASSUME NEW p, NEW r, Compilable(p, r), NEW e, Edge(p, r, e),
         NEW remap, remap = NodeRemap(p, ToSet(r)), NEW x,
         x \in {Remapped(remap, e), -Remapped(remap, e)}
  PROVE  x \in Literal /\ IABS(x) \in 1 .. LastNumber(p, r) /\ (IABS(x) <= NInput => IABS(x) \in InputsBelow(p, r))
<1> DEFINE y == Remapped(remap, e)
<1>1. Inside(p, r, e)
   BY DEF Edge
<1>2. /\ y \in Literal /\ IABS(y) \in 1 .. LastNumber(p, r)
      /\ is_node(e) => IABS(y) > NInput
      /\ ~is_node(e) => y = e
   BY <1>1, RemappedFacts
<1> HIDE DEF y
<1>3. x \in {y, -y}
   BY DEF y
<1>4. x \in Literal /\ IABS(x) = IABS(y)
   BY <1>2, <1>3, LiteralFacts
<1>5. IABS(y) <= NInput => ~is_node(e)
   BY <1>2, LastNumberFacts
<1>6. IABS(y) <= NInput => IABS(y) \in InputsBelow(p, r)
   BY <1>2, <1>5 DEF Edge
<1> QED BY <1>2, <1>4, <1>6

LEMMA ContentsFacts ==
  ASSUME NEW p, NEW r, Compilable(p, r), NEW lits \in AllContents(p, r), NEW x \in lits
  PROVE  x \in Literal /\ IABS(x) \in 1 .. LastNumber(p, r) /\ (IABS(x) <= NInput => IABS(x) \in InputsBelow(p, r))
<1> DEFINE remap == NodeRemap(p, ToSet(r))
           goal(y) == y \in Literal /\ IABS(y) \in 1 .. LastNumber(p, r) /\ (IABS(y) <= NInput => IABS(y) \in InputsBelow(p, r))
<1>1. remap = NodeRemap(p, ToSet(r))
   OBVIOUS
<1>2. \/ \E e \in ToSet(r) : lits = {Remapped(remap, e)}
      \/ \E id \in Reachable(p, ToSet(r)) : lits \in NodeContents(p, remap, id)
   BY DEF AllContents
<1> HIDE DEF remap
<1>3. \A e : Edge(p, r, e) => goal(Remapped(remap, e)) /\ goal(-Remapped(remap, e))
   BY <1>1, EdgeLiteral
<1> HIDE DEF goal
<1>4. goal(x)
   <2>1. CASE \E e \in ToSet(r) : lits = {Remapped(remap, e)}
      BY <1>3, <2>1, SubgraphEdges
   <2>2. CASE \E id \in Reachable(p, ToSet(r)) : lits \in NodeContents(p, remap, id)
      <3>1. PICK id \in Reachable(p, ToSet(r)) : lits \in NodeContents(p, remap, id)
         BY <2>2
      <3> DEFINE node == NodeOf(p, id)
      <3>2. Remapped(remap, id) = remap[id] /\ id \in Nat
         BY ChildrenFacts, ReachableFacts, ArgumentsInside DEF Remapped, Compilable
      <3>3. \E e : /\ e = id \/ e \in ToSet(node.args)
                   /\ x \in {Remapped(remap, e), -Remapped(remap, e), -(-Remapped(remap, e))}
         BY <3>1, <3>2 DEF NodeContents, LongClause, ShortClause, Signed
      <3>4. PICK e : /\ e = id \/ e \in ToSet(node.args)
                     /\ x \in {Remapped(remap, e), -Remapped(remap, e), -(-Remapped(remap, e))}
         BY <3>3
      <3>5. Edge(p, r, e)
         BY <3>4, SubgraphEdges
      <3>6. -(-Remapped(remap, e)) = Remapped(remap, e)
         BY <1>3, <3>5, LiteralFacts DEF goal
      <3> QED BY <1>3, <3>4, <3>5, <3>6
   <2> QED BY <1>2, <2>1, <2>2
<1> QED BY <1>4 DEF goal
\* What clausify makes.
LEMMA ClausifyFacts ==
  ASSUME NEW p, NEW r, Compilable(p, r), NEW o, o = clausify(p, r)
  PROVE  FromClausify(p, r, o)
<1> DEFINE remap == NodeRemap(p, ToSet(r))
           R == Reachable(p, ToSet(r))
           ids == Ascending(DOMAIN remap)
           parts == [i \in DOMAIN ids |-> DefiningClauses(p, remap, ids[i])]
           defs == FlattenSeq(parts)
           units == [i \in DOMAIN r |-> << Remapped(remap, r[i]) >>]
           clauses == defs \o units
           t == AddClauses(EmptyCnf, clauses)
<1>1. o = [t EXCEPT !.data_variables = InputsBelow(p, r)]
   <2>1. DOMAIN remap = R
      BY RemapFacts DEF Compilable
   <2> QED BY <2>1 DEF clausify, InputsBelow
<1>2. DOMAIN remap = R /\ IsFiniteSet(R) /\ R \subseteq Int
   BY RemapFacts DEF Compilable
<1>3. remap = NodeRemap(p, ToSet(r))
   OBVIOUS
<1> HIDE DEF t, remap
<1>4. /\ ids \in Seq(R) /\ ToSet(ids) = R /\ DOMAIN ids = 1 .. Len(ids) /\ Len(ids) \in Nat
      /\ \A i \in 1 .. Len(ids) : ids[i] \in R
   <2>1. ids \in Seq(R) /\ ToSet(ids) = R
      BY <1>2, AscendingEnumerates
   <2> HIDE DEF ids
   <2> QED BY <2>1, LenProperties
<1> HIDE DEF ids
<1>5. \A id \in R : /\ DefiningClauses(p, remap, id) \in Seq(Seq(Literal))
                    /\ Contents(DefiningClauses(p, remap, id)) = NodeContents(p, remap, id)
   BY <1>3, DefiningFacts
<1> HIDE DEF R
<1>6. parts \in [1 .. Len(ids) -> Seq(Seq(Literal))] /\ \A i \in 1 .. Len(ids) : parts[i] = DefiningClauses(p, remap, ids[i])
   BY <1>4, <1>5
<1> HIDE DEF parts
<1>7. parts \in Seq(Seq(Seq(Literal))) /\ Len(parts) = Len(ids)
   BY <1>4, <1>6, FunctionIsSeq
<1>8. defs \in Seq(Seq(Literal)) /\ ToSet(defs) = UNION { ToSet(parts[i]) : i \in 1 .. Len(ids) }
   BY <1>7, FlattenElements
<1> HIDE DEF defs
<1>9. Contents(defs) = UNION { NodeContents(p, remap, id) : id \in R }
   <2>1. \A i \in 1 .. Len(ids) : Contents(parts[i]) = NodeContents(p, remap, ids[i])
      BY <1>4, <1>5, <1>6
   <2>2. \A id \in R : \E i \in 1 .. Len(ids) : ids[i] = id
      BY <1>4, ToSetSeq
   <2>3. Contents(defs) = UNION { Contents(parts[i]) : i \in 1 .. Len(ids) }
      BY <1>8 DEF Contents
   <2>4. UNION { Contents(parts[i]) : i \in 1 .. Len(ids) } = UNION { NodeContents(p, remap, id) : id \in R }
      BY <1>4, <2>1, <2>2
   <2> QED BY <2>3, <2>4
<1>10. DOMAIN r = 1 .. 2 /\ ToSet(r) = {r[1], r[2]} /\ r[1] \in ToSet(r) /\ r[2] \in ToSet(r)
   BY RootPair DEF Compilable
<1>11. \A e \in ToSet(r) : Remapped(remap, e) \in Literal
   BY <1>3, SubgraphEdges, EdgeLiteral
<1>12. \A i \in 1 .. 2 : << Remapped(remap, r[i]) >> \in Seq(Literal) /\ ToSet(<< Remapped(remap, r[i]) >>) = {Remapped(remap, r[i])}
   <2>1. ASSUME NEW i \in 1 .. 2
         PROVE  << Remapped(remap, r[i]) >> \in Seq(Literal) /\ ToSet(<< Remapped(remap, r[i]) >>) = {Remapped(remap, r[i])}
      <3>1. Remapped(remap, r[i]) \in Literal
         <4>1. i = 1 \/ i = 2
            OBVIOUS
         <4> QED BY <1>10, <1>11, <4>1
      <3> HIDE DEF remap
      <3> QED BY <3>1 DEF ToSet
   <2> QED BY <2>1
<1>13. units \in [1 .. 2 -> Seq(Literal)] /\ \A i \in 1 .. 2 : units[i] = << Remapped(remap, r[i]) >>
   BY <1>10, <1>12
<1> HIDE DEF units
<1>14. units \in Seq(Seq(Literal)) /\ Len(units) = 2 /\ DOMAIN units = 1 .. 2
   BY <1>13, FunctionIsSeq
<1>15. Contents(units) = { {Remapped(remap, e)} : e \in ToSet(r) }
   <2>1. ToSet(units) = {units[1], units[2]}
      BY <1>14 DEF ToSet
   <2>2. ToSet(units[1]) = {Remapped(remap, r[1])} /\ ToSet(units[2]) = {Remapped(remap, r[2])}
      BY <1>12, <1>13
   <2> QED BY <1>10, <2>1, <2>2 DEF Contents
<1>16. clauses \in Seq(Seq(Literal)) /\ ToSet(clauses) = ToSet(defs) \cup ToSet(units)
   BY <1>8, <1>14, ToSetConcat
<1>17. Contents(clauses) = AllContents(p, r)
   BY <1>9, <1>15, <1>16 DEF Contents, AllContents, R, remap
<1> HIDE DEF clauses
<1>18. /\ EmptyCnf \in CnfType /\ IndexExact(EmptyCnf) /\ Len(EmptyCnf.clauses) = 0
       /\ EmptyCnf.clauses = << >> /\ EmptyCnf.active_clauses = {} /\ EmptyCnf.unit_literals = {}
       /\ EmptyCnf.bcp_unit_literals = {} /\ EmptyCnf.uquantified_variables = {}
       /\ ~EmptyCnf.has_conflict
       /\ EmptyCnf.action_stack = << [action |-> "START_CONTEXT", ele |-> 0] >>
   BY DEF EmptyCnf, CnfType, IndexExact, ActionRecord, ActionType, VariableType
<1>19. /\ t \in CnfType /\ IndexExact(t) /\ Adds(EmptyCnf, t, clauses)
       /\ AddedIds(EmptyCnf, clauses) \subseteq DOMAIN t.clauses
   <2>1. t = AddClauses(EmptyCnf, clauses)
      BY DEF t
   <2> QED BY <1>16, <1>18, <2>1, AddClausesFacts
<1>20. t.clauses = clauses /\ t.action_stack = EmptyCnf.action_stack
   <2>1. << >> \o clauses = clauses
      BY <1>16
   <2> QED BY <1>18, <2>1 DEF t, AddClauses
<1>21. /\ DOMAIN clauses = 1 .. Len(clauses) /\ Len(clauses) \in Nat
       /\ t.active_clauses = DOMAIN clauses
   <2>1. DOMAIN clauses = 1 .. Len(clauses) /\ Len(clauses) \in Nat
      BY <1>16, LenProperties
   <2>2. AddedIds(EmptyCnf, clauses) = DOMAIN clauses
      BY <1>18, <2>1 DEF AddedIds
   <2> QED BY <1>18, <1>19, <2>1, <2>2 DEF Adds
<1>22. InputsBelow(p, r) \subseteq InputVariables /\ InputsBelow(p, r) \subseteq Variables
   BY SubgraphEdges, LastNumberFacts DEF InputVariables, Variables
<1>23. /\ o \in CnfType /\ o.clauses = clauses /\ o.active_clauses = DOMAIN clauses
       /\ o.unit_literals = {} /\ o.bcp_unit_literals = {} /\ o.uquantified_variables = {}
       /\ ~o.has_conflict /\ o.data_variables = InputsBelow(p, r)
       /\ o.action_stack = << [action |-> "START_CONTEXT", ele |-> 0] >>
       /\ o.literal_clauses = t.literal_clauses
   BY <1>1, <1>18, <1>19, <1>20, <1>21, <1>22 DEF CnfType, Adds, SameAssignment
<1>24. IndexExact(o)
   BY <1>19, <1>20, <1>21, <1>23 DEF IndexExact, Lits
<1>25. Starts(o) = {1}
   <2>1. Len(o.action_stack) = 1 /\ o.action_stack[1].action = "START_CONTEXT"
      BY <1>23
   <2> QED BY <2>1 DEF Starts
<1>26. { Lits(o, cid) : cid \in DOMAIN o.clauses } = AllContents(p, r)
   BY <1>17, <1>23 DEF Lits, Contents, ToSet
<1>27. DefinesNodes(p, r, clauses)
   <2>1. ASSUME NEW id \in R
         PROVE  ToSet(DefiningClauses(p, remap, id)) \subseteq ToSet(clauses)
      <3>1. PICK i \in 1 .. Len(ids) : ids[i] = id
         BY <1>4, <2>1, ToSetSeq
      <3>2. parts[i] = DefiningClauses(p, remap, id)
         BY <1>6, <3>1
      <3>3. ToSet(parts[i]) \subseteq ToSet(clauses)
         BY <1>8, <1>16
      <3> QED BY <3>2, <3>3
   <2> QED BY <1>3, <2>1 DEF DefinesNodes, R
<1> QED BY <1>16, <1>22, <1>23, <1>24, <1>25, <1>26, <1>27, ContentsFacts DEF FromClausify

-----------------------------------------------------------------------------
(* The objects at the levels of the recursion *)

\* z[i] is the object that the branch of frame i + 1 has been opened from, and
\* z[Len(fr)] the one that is worked on, s.
Opened(o, before, after, frame) ==
    /\ frame.svar \in Variables
    /\ frame.svar \notin before.unit_literals /\ -frame.svar \notin before.unit_literals
    /\ Within(new_context(before), after)

Histories(o, z, fr, s) ==
    /\ z[Len(fr)] = s
    /\ \A i \in 0 .. Len(fr) : Kept(o, z[i]) /\ Cardinality(Starts(z[i])) = i + 1
    /\ \A i \in 1 .. Len(fr) : Opened(o, z[i - 1], z[i], fr[i])

\* The history when the object at level m is x.
Put(z, m, x) == [i \in 0 .. m |-> IF i = m THEN x ELSE z[i]]

LEMMA StartsFinite ==
  ASSUME NEW s \in CnfType
  PROVE  IsFiniteSet(Starts(s)) /\ Cardinality(Starts(s)) \in Nat /\ Starts(s) \subseteq 1 .. Len(s.action_stack)
<1>1. Len(s.action_stack) \in Nat
   BY StackFacts
<1>2. IsFiniteSet(1 .. Len(s.action_stack)) /\ Starts(s) \subseteq 1 .. Len(s.action_stack)
   BY <1>1, FS_Interval DEF Starts
<1> QED BY <1>2, FS_Subset, FS_CardinalityType

LEMMA ProceedsStarts ==
  ASSUME NEW s \in CnfType, NEW t \in CnfType, Proceeds(s, t)
  PROVE  Starts(t) = Starts(s)
<1>1. Within(s, t)
   BY WithinReflexive DEF Proceeds
<1> QED BY <1>1, WithinStarts

\* A step in the innermost context.
LEMMA HistoryMoves ==
  ASSUME NEW o, NEW z, NEW fr, Len(fr) \in Nat, NEW s, Histories(o, z, fr, s),
         NEW t, Kept(o, t), Proceeds(s, t)
  PROVE  Histories(o, Put(z, Len(fr), t), fr, t)
<1> DEFINE n == Len(fr)
           y == Put(z, n, t)
<1>1. y[n] = t /\ \A i \in 0 .. n - 1 : y[i] = z[i]
   BY DEF Put
<1>2. s \in CnfType /\ t \in CnfType /\ Starts(t) = Starts(s) /\ Kept(o, s) /\ z[n] = s
   BY ProceedsStarts DEF Histories, Kept
<1>3. ASSUME NEW i \in 0 .. n
      PROVE  Kept(o, y[i]) /\ Cardinality(Starts(y[i])) = i + 1
   <2>1. CASE i = n
      BY <1>1, <1>2, <2>1 DEF Histories
   <2>2. CASE i # n
      <3>1. i \in 0 .. n - 1
         BY <2>2
      <3> QED BY <1>1, <3>1 DEF Histories
   <2> QED BY <2>1, <2>2
<1>4. ASSUME NEW i \in 1 .. n
      PROVE  Opened(o, y[i - 1], y[i], fr[i])
   <2>1. Opened(o, z[i - 1], z[i], fr[i]) /\ Kept(o, z[i - 1])
      BY DEF Histories
   <2>2. y[i - 1] = z[i - 1]
      <3>1. i - 1 \in 0 .. n - 1
         OBVIOUS
      <3> QED BY <1>1, <3>1
   <2>3. CASE i = n
      <3>1. new_context(z[i - 1]) \in CnfType
         BY <2>1, NewContextFacts DEF Kept
      <3>2. Within(new_context(z[i - 1]), s)
         BY <1>2, <2>1, <2>3 DEF Opened
      <3>3. Within(new_context(z[i - 1]), t)
         BY <3>1, <3>2 DEF Proceeds
      <3> QED BY <1>1, <2>1, <2>2, <2>3, <3>3 DEF Opened
   <2>4. CASE i # n
      <3>1. i \in 0 .. n - 1
         BY <2>4
      <3> QED BY <1>1, <2>1, <2>2, <3>1
   <2> QED BY <2>3, <2>4
<1> HIDE DEF y
<1>5. Histories(o, y, fr, t)
   BY <1>1, <1>3, <1>4 DEF Histories
<1> QED BY <1>5 DEF y

\* Entering a branch: what the object is, and what has been changed.
BranchObject(s, slit) == assign_literal(new_context(s), slit, FALSE)

Enters(s, t, slit) ==
    /\ SameClauses(s, t)
    /\ t.unit_literals = s.unit_literals \cup {slit}
    /\ t.bcp_unit_literals = s.bcp_unit_literals
    /\ t.has_conflict = s.has_conflict
    /\ t.data_variables = s.data_variables
    /\ Within(new_context(s), t)
    /\ Cardinality(Starts(t)) = Cardinality(Starts(s)) + 1

LEMMA Entering ==
  ASSUME NEW o, NEW s, Kept(o, s), NEW slit \in Literal,
         slit \notin s.unit_literals, -slit \notin s.unit_literals,
         NEW t, t = BranchObject(s, slit)
  PROVE  Kept(o, t) /\ Enters(s, t, slit)
<1> DEFINE u == new_context(s)
<1>1. s \in CnfType /\ s.bcp_unit_literals \subseteq s.unit_literals /\ IndexExact(s)
   BY DEF Kept
<1>2. /\ u \in CnfType /\ SameClauses(s, u) /\ SameAssignment(s, u)
      /\ Starts(u) = Starts(s) \cup {Len(s.action_stack) + 1}
   BY <1>1, NewContextFacts
<1>3. t = assign_literal(u, slit, FALSE)
   BY DEF BranchObject
<1> HIDE DEF u
<1>4. /\ u.bcp_unit_literals \subseteq u.unit_literals
      /\ slit \notin u.unit_literals /\ -slit \notin u.unit_literals
   BY <1>1, <1>2 DEF SameAssignment
<1>5. Asserts(u, t, slit)
   BY <1>2, <1>3, <1>4, AssertFacts
<1>6. Within(u, t) /\ Starts(t) = Starts(u)
   <2>1. Within(u, u)
      BY <1>2, WithinReflexive
   <2>2. Logged(u, t)
      BY <1>2, <1>3, <1>4, AssignLogged
   <2>3. Within(u, t)
      BY <1>2, <1>5, <2>1, <2>2, WithinLogged DEF Asserts
   <2> QED BY <1>2, <1>5, <2>3, WithinStarts DEF Asserts
<1>7. Cardinality(Starts(t)) = Cardinality(Starts(s)) + 1
   <2>1. IsFiniteSet(Starts(s)) /\ Len(s.action_stack) + 1 \notin Starts(s)
      BY <1>1, StartsFinite, StackFacts
   <2>2. Starts(t) = Starts(s) \cup {Len(s.action_stack) + 1}
      BY <1>2, <1>6
   <2> QED BY <2>1, <2>2, FS_AddElement
<1>8. SameClauses(s, t)
   BY <1>2, <1>5 DEF SameClauses, Asserts
<1>9. t.unit_literals = s.unit_literals \cup {slit} /\ t.bcp_unit_literals = s.bcp_unit_literals
      /\ t.uquantified_variables = s.uquantified_variables
      /\ t.has_conflict = s.has_conflict /\ t.data_variables = s.data_variables
   BY <1>2, <1>5 DEF SameAssignment, Asserts
<1>10. Enters(s, t, slit)
   BY <1>6, <1>7, <1>8, <1>9 DEF Enters, u
<1>11. \A lit \in t.unit_literals : -lit \notin t.unit_literals
   <2>1. \A lit \in s.unit_literals : lit \in Literal /\ -lit \notin s.unit_literals
      BY <1>1 DEF Kept, CnfType
   <2>2. ASSUME NEW lit \in t.unit_literals, -lit \in t.unit_literals
         PROVE  FALSE
      <3>1. lit \in Literal /\ -(-lit) = lit /\ lit # -lit /\ -(-slit) = slit
         BY <1>9, <2>1, LiteralFacts
      <3> QED BY <1>9, <2>1, <2>2, <3>1
   <2> QED BY <2>2
<1>12. IndexExact(t)
   BY <1>1, <1>8, SameClausesFacts
<1>13. Kept(o, t)
   BY <1>5, <1>8, <1>9, <1>11, <1>12 DEF Kept, SameClauses, Asserts
<1> QED BY <1>10, <1>13

\* The history when a branch is opened for a new frame.
LEMMA HistoryOpens ==
  ASSUME NEW o, NEW z, NEW fr, Len(fr) \in Nat, NEW s, Histories(o, z, fr, s),
         NEW gr, Len(gr) = Len(fr) + 1, \A i \in 1 .. Len(fr) : gr[i].svar = fr[i].svar,
         gr[Len(fr) + 1].svar \in Variables,
         gr[Len(fr) + 1].svar \notin s.unit_literals, -gr[Len(fr) + 1].svar \notin s.unit_literals,
         NEW t, Kept(o, t), NEW slit, Enters(s, t, slit)
  PROVE  Histories(o, Put(z, Len(fr) + 1, t), gr, t)
<1> DEFINE n == Len(fr)
           y == Put(z, n + 1, t)
<1>1. y[n + 1] = t /\ \A i \in 0 .. n : y[i] = z[i]
   <2>1. \A i \in 0 .. n : i # n + 1 /\ i \in 0 .. n + 1
      OBVIOUS
   <2> QED BY <2>1 DEF Put
<1>2. z[n] = s
   BY DEF Histories
<1>3. ASSUME NEW i \in 0 .. n + 1
      PROVE  Kept(o, y[i]) /\ Cardinality(Starts(y[i])) = i + 1
   <2>1. CASE i = n + 1
      <3>1. Cardinality(Starts(s)) = n + 1
         BY <1>2 DEF Histories
      <3> QED BY <1>1, <2>1, <3>1 DEF Enters
   <2>2. CASE i # n + 1
      <3>1. i \in 0 .. n
         BY <2>2
      <3> QED BY <1>1, <3>1 DEF Histories
   <2> QED BY <2>1, <2>2
<1>4. ASSUME NEW i \in 1 .. n + 1
      PROVE  Opened(o, y[i - 1], y[i], gr[i])
   <2>1. i - 1 \in 0 .. n
      OBVIOUS
   <2>2. CASE i = n + 1
      <3>1. y[i - 1] = s /\ y[i] = t
         BY <1>1, <1>2, <2>2
      <3> QED BY <2>2, <3>1 DEF Opened, Enters
   <2>3. CASE i # n + 1
      <3>1. i \in 0 .. n /\ i \in 1 .. n
         BY <2>3
      <3>2. Opened(o, z[i - 1], z[i], fr[i]) /\ gr[i].svar = fr[i].svar
         BY <3>1 DEF Histories
      <3> QED BY <1>1, <2>1, <3>1, <3>2 DEF Opened
   <2> QED BY <2>2, <2>3
<1> HIDE DEF y
<1>5. Histories(o, y, gr, t)
   BY <1>1, <1>3, <1>4 DEF Histories
<1> QED BY <1>5 DEF y

\* The history when the innermost context is closed.
LEMMA HistoryCloses ==
  ASSUME NEW o, NEW z, NEW fr, Len(fr) \in Nat, Len(fr) > 0, NEW s, Histories(o, z, fr, s),
         NEW gr, Len(gr) = Len(fr) - 1, \A i \in 1 .. Len(fr) - 1 : gr[i].svar = fr[i].svar,
         NEW t, t = pop_context(s)
  PROVE  /\ t \in {z[Len(fr) - 1], Calm(z[Len(fr) - 1])}
         /\ Histories(o, Put(z, Len(fr) - 1, t), gr, t)
<1> DEFINE m == Len(fr) - 1
           x == z[m]
           y == Put(z, m, t)
<1>1. m \in Nat /\ m \in 0 .. Len(fr) /\ Len(fr) \in 1 .. Len(fr)
   OBVIOUS
<1>2. Kept(o, x) /\ Cardinality(Starts(x)) = m + 1
   BY <1>1 DEF Histories
<1>3. Opened(o, x, s, fr[Len(fr)]) /\ Kept(o, s)
   BY <1>1 DEF Histories
<1>4. x \in CnfType /\ s \in CnfType /\ Within(new_context(x), s)
   BY <1>2, <1>3 DEF Kept, Opened
<1>5. t \in {x, Calm(x)}
   BY <1>4, PopContextFacts
<1>6. /\ Calm(x) \in CnfType /\ SameClauses(x, Calm(x)) /\ Calm(x).unit_literals = x.unit_literals
      /\ Calm(x).bcp_unit_literals = x.bcp_unit_literals
      /\ Calm(x).uquantified_variables = x.uquantified_variables
      /\ Calm(x).data_variables = x.data_variables
      /\ Calm(x).action_stack = x.action_stack
   BY <1>4, CalmFacts
<1>7. Kept(o, Calm(x)) /\ Starts(Calm(x)) = Starts(x)
   <2>1. IndexExact(Calm(x))
      BY <1>2, <1>6, SameClausesFacts DEF Kept
   <2>2. Starts(Calm(x)) = Starts(x)
      BY <1>6 DEF Starts
   <2> QED BY <1>2, <1>6, <2>1, <2>2 DEF Kept, SameClauses
<1>8. Kept(o, t) /\ Starts(t) = Starts(x)
   BY <1>2, <1>5, <1>7
<1>9. y[m] = t /\ \A i \in 0 .. m - 1 : y[i] = z[i]
   <2>1. \A i \in 0 .. m - 1 : i # m /\ i \in 0 .. m
      OBVIOUS
   <2> HIDE DEF m, x
   <2> QED BY <1>1, <2>1 DEF Put
<1>10. ASSUME NEW i \in 0 .. m
       PROVE  Kept(o, y[i]) /\ Cardinality(Starts(y[i])) = i + 1
   <2>1. CASE i = m
      BY <1>2, <1>8, <1>9, <2>1
   <2>2. CASE i # m
      <3>1. i \in 0 .. m - 1 /\ i \in 0 .. Len(fr)
         BY <2>2
      <3> QED BY <1>9, <3>1 DEF Histories
   <2> QED BY <2>1, <2>2
<1>11. ASSUME NEW i \in 1 .. m
       PROVE  Opened(o, y[i - 1], y[i], gr[i])
   <2>1. i - 1 \in 0 .. m - 1 /\ i \in 1 .. Len(fr) /\ i - 1 \in 0 .. Len(fr) /\ i \in 1 .. Len(fr) - 1
      OBVIOUS
   <2>2. Opened(o, z[i - 1], z[i], fr[i]) /\ gr[i].svar = fr[i].svar /\ Kept(o, z[i - 1])
      BY <2>1 DEF Histories
   <2>3. y[i - 1] = z[i - 1]
      BY <1>9, <2>1
   <2>4. CASE i = m
      <3>1. y[i] = t /\ z[i] = x
         BY <1>9, <2>4
      <3>2. new_context(z[i - 1]) \in CnfType
         BY <2>2, NewContextFacts DEF Kept
      <3>3. Within(new_context(z[i - 1]), x)
         BY <2>2, <3>1 DEF Opened
      <3>4. Within(new_context(z[i - 1]), Calm(x))
         BY <1>4, <3>2, <3>3, WithinCalm
      <3> HIDE DEF m, x, y
      <3> QED BY <1>5, <2>2, <2>3, <3>1, <3>3, <3>4 DEF Opened
   <2>5. CASE i # m
      <3>1. i \in 0 .. m - 1
         BY <2>5
      <3> QED BY <1>9, <2>2, <2>3, <3>1 DEF Opened
   <2> QED BY <2>4, <2>5
<1> HIDE DEF y
<1>12. Histories(o, y, gr, t)
   BY <1>9, <1>10, <1>11 DEF Histories
<1> QED BY <1>5, <1>12 DEF y

-----------------------------------------------------------------------------
(* The iterations of bcp and of bve, without their queues *)

\* What propagate_clause finds.
ClauseValue(s, cid, val) ==
    /\ val = TAUTOLOGY => Lits(s, cid) \cap s.unit_literals # {}
    /\ val = CONFLICT => Lits(s, cid) \cap s.unit_literals = {} /\ FreeLits(s, cid) = {}
    /\ val \notin {0, CONFLICT, TAUTOLOGY} =>
         /\ val \in Literal /\ val \in Lits(s, cid) /\ FreeLits(s, cid) = {val}
         /\ val \notin s.unit_literals /\ -val \notin s.unit_literals
         /\ Lits(s, cid) \cap s.unit_literals = {}
    /\ val = 0 => /\ Lits(s, cid) \cap s.unit_literals = {} /\ FreeLits(s, cid) # {}
                  /\ Cardinality(FreePositions(s, cid)) # 1

LEMMA KeptClauses ==
  ASSUME NEW o, NEW s, Kept(o, s), NEW cid \in s.active_clauses
  PROVE  /\ cid \in DOMAIN s.clauses /\ cid \in ClauseId /\ Lits(s, cid) \subseteq Literal
         /\ FreeLits(s, cid) = { lit \in Lits(s, cid) : -lit \notin s.unit_literals }
BY ClauseFacts, FreeLitsFacts DEF Kept, IndexExact

LEMMA ValueOfClause ==
  ASSUME NEW o, NEW s, Kept(o, s), NEW cid \in s.active_clauses
  PROVE  ClauseValue(s, cid, propagate_clause(s, cid))
<1> DEFINE free == FreePositions(s, cid)
           val == propagate_clause(s, cid)
           one == CHOOSE i \in free : TRUE
           lit == s.clauses[cid][one]
<1>1. 0 # TAUTOLOGY /\ 0 # CONFLICT /\ TAUTOLOGY # CONFLICT
   BY DEF TAUTOLOGY, CONFLICT
<1>2. /\ s \in CnfType /\ cid \in DOMAIN s.clauses /\ Lits(s, cid) \subseteq Literal
      /\ FreeLits(s, cid) = { l \in Lits(s, cid) : -l \notin s.unit_literals }
   BY KeptClauses DEF Kept
<1>3. /\ IsFiniteSet(free)
      /\ \A i \in free : s.clauses[cid][i] \in FreeLits(s, cid)
      /\ \A l \in FreeLits(s, cid) : \E i \in free : s.clauses[cid][i] = l
   BY <1>2, FreePositionsFacts
<1>4. CASE skip_clause(s, cid)
   <2>1. val = TAUTOLOGY
      BY <1>4 DEF propagate_clause
   <2> HIDE DEF val
   <2>2. ClauseValue(s, cid, val)
      BY <1>1, <1>4, <2>1 DEF ClauseValue, skip_clause
   <2> QED BY <2>2 DEF val
<1>5. CASE ~skip_clause(s, cid)
   <2>1. val = IF free = {} THEN CONFLICT ELSE IF Cardinality(free) = 1 THEN lit ELSE 0
      BY <1>5 DEF propagate_clause
   <2>2. Lits(s, cid) \cap s.unit_literals = {}
      BY <1>5 DEF skip_clause
   <2> HIDE DEF val
   <2>3. ASSUME free # {}
         PROVE  lit \in FreeLits(s, cid) /\ lit \in Literal
      <3>1. one \in free
         BY <2>3
      <3> HIDE DEF one, free
      <3> QED BY <1>2, <1>3, <3>1
   <2>4. ASSUME free # {}, Cardinality(free) = 1
         PROVE  FreeLits(s, cid) = {lit}
      <3>1. PICK i : free = {i}
         BY <1>3, <2>4, FS_Singleton
      <3>2. one = i
         BY <3>1
      <3> HIDE DEF one, free
      <3> QED BY <1>3, <3>1, <3>2
   <2> HIDE DEF free, lit
   <2>5. \A l \in Literal : l # 0 /\ l # TAUTOLOGY /\ l # CONFLICT
      BY LiteralFacts
   <2>6. ClauseValue(s, cid, val)
      <3>1. CASE free = {}
         <4>1. FreeLits(s, cid) = {} /\ val = CONFLICT
            BY <1>3, <2>1, <3>1
         <4> QED BY <1>1, <2>2, <4>1 DEF ClauseValue
      <3>2. CASE free # {} /\ Cardinality(free) = 1
         <4>1. val = lit /\ FreeLits(s, cid) = {lit} /\ lit \in Literal
            BY <2>1, <2>3, <2>4, <3>2
         <4>2. val \in Lits(s, cid) /\ -val \notin s.unit_literals /\ val \notin s.unit_literals
            BY <1>2, <2>2, <4>1
         <4> QED BY <2>2, <2>5, <4>1, <4>2 DEF ClauseValue
      <3>3. CASE free # {} /\ Cardinality(free) # 1
         <4>1. val = 0 /\ FreeLits(s, cid) # {}
            BY <2>1, <2>3, <3>3
         <4> QED BY <1>1, <2>2, <3>3, <4>1 DEF ClauseValue, free
      <3> QED BY <3>1, <3>2, <3>3
   <2> QED BY <2>6 DEF val
<1> QED BY <1>4, <1>5

\* One iteration of bcp, for the clause cid at the head of the queue.
Passes(s, t, cid) == t = s /\ (cid \in s.active_clauses => ClauseValue(s, cid, 0))

Conflicts(s, t, cid) ==
    /\ cid \in s.active_clauses
    /\ Lits(s, cid) \cap s.unit_literals = {} /\ FreeLits(s, cid) = {}
    /\ SameClauses(s, t) /\ t.has_conflict
    /\ t.unit_literals = s.unit_literals /\ t.bcp_unit_literals = s.bcp_unit_literals

RetiresOne(s, t, cid) ==
    /\ cid \in s.active_clauses
    /\ Lits(s, cid) \cap s.unit_literals # {}
    /\ Retires(s, t, {cid})

PropagatesOne(s, t, cid, lit) ==
    /\ cid \in s.active_clauses
    /\ ClauseValue(s, cid, lit) /\ lit \notin {0, CONFLICT, TAUTOLOGY}
    /\ UnitMove(s, t, lit)

\* The clauses that are queued when a literal becomes a unit literal.
Waking(t, lit) == { cid \in t.active_clauses : -lit \in Lits(t, cid) }

BcpMove(s, q, t, r) ==
    LET cid == Head(q)
    IN  /\ ~s.has_conflict /\ q # << >>
        /\ \/ (Passes(s, t, cid) \/ Conflicts(s, t, cid) \/ RetiresOne(s, t, cid)) /\ r = Tail(q)
           \/ \E lit \in Literal : /\ PropagatesOne(s, t, cid, lit)
                                   /\ ToSet(r) = ToSet(Tail(q)) \cup Waking(t, lit)

LEMMA BcpMoves ==
  ASSUME NEW o, Kept(o, cnf), clause_queue \in Seq(ClauseId), BcpIteration(FALSE)
  PROVE  /\ Kept(o, cnf') /\ Proceeds(cnf, cnf') /\ clause_queue' \in Seq(ClauseId) /\ bve' = bve
         /\ BcpMove(cnf, clause_queue, cnf', clause_queue')
<1> DEFINE cid == Head(clause_queue)
           val == NextValue
<1>1. ~cnf.has_conflict /\ clause_queue # << >> /\ bve' = bve
   BY DEF BcpIteration, BcpPop, BcpDone, BcpPass, BcpConflict, BcpSatisfied, BcpUnit
<1>2. /\ cid \in ClauseId /\ Tail(clause_queue) \in Seq(ClauseId)
   BY <1>1, ToSetHeadTail
<1>3. cid \in cnf.active_clauses => ClauseValue(cnf, cid, val)
   BY ValueOfClause DEF NextValue
<1>4. cid \notin cnf.active_clauses => val = 0
   BY DEF NextValue
<1>5. 0 # TAUTOLOGY /\ 0 # CONFLICT /\ TAUTOLOGY # CONFLICT
   BY DEF TAUTOLOGY, CONFLICT
<1> HIDE DEF cid, val
<1>6. CASE BcpPass
   <2>1. val = 0 /\ clause_queue' = Tail(clause_queue) /\ cnf' = cnf
      BY <1>6 DEF BcpPass, val
   <2>2. Passes(cnf, cnf', cid)
      BY <1>3, <2>1 DEF Passes
   <2>3. Proceeds(cnf, cnf')
      BY <2>1 DEF Proceeds
   <2>4. BcpMove(cnf, clause_queue, cnf', clause_queue')
      BY <1>1, <2>1, <2>2 DEF BcpMove, cid
   <2> QED BY <1>1, <1>2, <2>1, <2>3, <2>4
<1>7. CASE BcpConflict
   <2>1. val = CONFLICT /\ clause_queue' = Tail(clause_queue) /\ cnf' = trigger_conflict(cnf)
      BY <1>7 DEF BcpConflict, val
   <2>2. /\ Kept(o, cnf') /\ Proceeds(cnf, cnf') /\ SameClauses(cnf, cnf') /\ cnf'.has_conflict
         /\ cnf'.unit_literals = cnf.unit_literals /\ cnf'.bcp_unit_literals = cnf.bcp_unit_literals
      BY <2>1, ConflictMoves
   <2>3. Conflicts(cnf, cnf', cid)
      BY <1>3, <1>4, <1>5, <2>1, <2>2 DEF Conflicts, ClauseValue
   <2>4. BcpMove(cnf, clause_queue, cnf', clause_queue')
      BY <1>1, <2>1, <2>3 DEF BcpMove, cid
   <2> QED BY <1>1, <1>2, <2>1, <2>2, <2>4
<1>8. CASE BcpSatisfied
   <2>1. val = TAUTOLOGY /\ clause_queue' = Tail(clause_queue) /\ cnf' = deactivate_clause(cnf, cid)
      BY <1>8 DEF BcpSatisfied, val, cid
   <2>2. cid \in cnf.active_clauses
      BY <1>4, <1>5, <2>1
   <2>3. Kept(o, cnf') /\ Proceeds(cnf, cnf') /\ Retires(cnf, cnf', {cid})
      BY <2>1, <2>2, SatisfiedMoves
   <2>4. RetiresOne(cnf, cnf', cid)
      BY <1>3, <2>1, <2>2, <2>3 DEF RetiresOne, ClauseValue
   <2>5. BcpMove(cnf, clause_queue, cnf', clause_queue')
      BY <1>1, <2>1, <2>4 DEF BcpMove, cid
   <2> QED BY <1>1, <1>2, <2>1, <2>3, <2>5
<1>9. CASE BcpUnit(FALSE)
   <2> DEFINE pushed == (cnf'.literal_clauses[-val] \cap cnf'.active_clauses) \ ToSet(Tail(clause_queue))
   <2>1. /\ val \notin {0, CONFLICT, TAUTOLOGY}
         /\ cnf' = PropagateUnit(cnf, cid, val, FALSE)
         /\ \E order \in SetToSeqs(pushed) : clause_queue' = Tail(clause_queue) \o order
      BY <1>9 DEF BcpUnit, val, cid
   <2>2. cid \in cnf.active_clauses /\ ClauseValue(cnf, cid, val)
      BY <1>3, <1>4, <2>1
   <2>3. /\ val \in Literal /\ val \in Lits(cnf, cid)
         /\ val \notin cnf.unit_literals /\ -val \notin cnf.unit_literals
      BY <2>1, <2>2 DEF ClauseValue
   <2>4. Kept(o, cnf') /\ Proceeds(cnf, cnf') /\ UnitMove(cnf, cnf', val)
      BY <2>1, <2>2, <2>3, UnitMoves
   <2>5. cnf'.literal_clauses[-val] = Waking(cnf', val)
      <3>1. -val \in Literal
         BY <2>3, LiteralFacts
      <3> QED BY <2>4, <3>1 DEF Waking, Kept, IndexExact
   <2>6. pushed \subseteq cnf'.active_clauses /\ IsFiniteSet(pushed) /\ pushed \subseteq ClauseId
      <3>1. pushed \subseteq cnf'.active_clauses
         OBVIOUS
      <3>2. cnf' \in CnfType /\ cnf'.active_clauses \subseteq DOMAIN cnf'.clauses
         BY <2>4 DEF Kept, IndexExact
      <3> HIDE DEF pushed
      <3>3. pushed \in SUBSET DOMAIN cnf'.clauses
         BY <3>1, <3>2
      <3> QED BY <3>1, <3>2, <3>3, ClausesFinite
   <2>7. PICK order \in SetToSeqs(pushed) : clause_queue' = Tail(clause_queue) \o order
      BY <2>1
   <2>8. Waking(cnf', val) \subseteq cnf'.active_clauses
      BY DEF Waking
   <2>9. pushed \cup ToSet(Tail(clause_queue)) = Waking(cnf', val) \cup ToSet(Tail(clause_queue))
      BY <2>5, <2>8
   <2> HIDE DEF pushed
   <2>10. order \in Seq(ClauseId) /\ ToSet(order) = pushed
      <3>1. order \in Seq(pushed) /\ ToSet(order) = pushed
         BY <2>6, SetToSeqsEnumerates
      <3> QED BY <2>6, <3>1
   <2>11. /\ clause_queue' \in Seq(ClauseId)
          /\ ToSet(clause_queue') = ToSet(Tail(clause_queue)) \cup ToSet(order)
      <3> DEFINE rest == Tail(clause_queue)
      <3>1. rest \in Seq(ClauseId) /\ clause_queue' = rest \o order
         BY <1>2, <2>7
      <3>2. order \in Seq(ClauseId)
         BY <2>10
      <3> HIDE DEF rest
      <3>3. clause_queue' \in Seq(ClauseId) /\ ToSet(clause_queue') = ToSet(rest) \cup ToSet(order)
         BY <3>1, <3>2, ToSetConcat
      <3> QED BY <3>3 DEF rest
   <2>12. PropagatesOne(cnf, cnf', cid, val)
      BY <2>1, <2>2, <2>4 DEF PropagatesOne
   <2>13. ToSet(clause_queue') = ToSet(Tail(clause_queue)) \cup Waking(cnf', val)
      BY <2>9, <2>10, <2>11
   <2>14. BcpMove(cnf, clause_queue, cnf', clause_queue')
      BY <1>1, <2>3, <2>12, <2>13 DEF BcpMove, cid
   <2> QED BY <1>1, <2>4, <2>11, <2>14
<1> QED BY <1>6, <1>7, <1>8, <1>9 DEF BcpIteration

\* The local variables of bve at degree zero.
BveTyped(b) ==
    b \in [maxdegree : {0}, degree_variables : [{0} -> SUBSET Variables],
           eliminated_variables : SUBSET Variables]

\* One iteration of bve: a variable that has no clause in one phase is set to
\* the other.
BveMove(s, b, t) ==
    \/ t = s
    \/ \E lit \in Literal : /\ IABS(lit) \in b.degree_variables[0]
                            /\ Containing(s, -lit) = {}
                            /\ PureMove(s, t, lit)

LEMMA ProjectionTyped ==
  ASSUME NEW o, NEW s, Kept(o, s), NEW cids
  PROVE  /\ ProjectionVariables(s, cids \cap s.active_clauses) \subseteq Variables
         /\ cids \subseteq s.active_clauses => ProjectionVariables(s, cids) \subseteq Variables
<1>1. \A c \in s.active_clauses : FreeLits(s, c) \subseteq Literal
   BY KeptClauses
<1>2. \A lit \in Literal : IABS(lit) \in Variables
   BY LiteralFacts
<1> QED BY <1>1, <1>2 DEF ProjectionVariables

LEMMA ScanTyped ==
  ASSUME NEW o, NEW s, Kept(o, s)
  PROVE  BveTyped(BveScan(s, 0)) /\ BveTyped(NoBve)
<1>1. ProjectionVariables(s, s.active_clauses) \subseteq Variables
   BY ProjectionTyped
<1>2. 0 .. 0 = {0}
   OBVIOUS
<1> QED BY <1>1, <1>2 DEF BveTyped, BveScan, NoBve

LEMMA OccurrenceFacts ==
  ASSUME NEW o, NEW s, Kept(o, s), NEW lit \in Literal
  PROVE  /\ Occurrences(s, lit) \in Nat
         /\ s.literal_clauses[lit] = Containing(s, lit)
         /\ Occurrences(s, lit) = 0 <=> Containing(s, lit) = {}
<1>1. s.literal_clauses[lit] = Containing(s, lit)
   BY DEF Kept, IndexExact, Containing
<1>2. Containing(s, lit) \in SUBSET DOMAIN s.clauses /\ s \in CnfType
   BY DEF Containing, Kept, IndexExact
<1>3. IsFiniteSet(Containing(s, lit))
   BY <1>2, ClausesFinite
<1> QED BY <1>1, <1>3, FS_CardinalityType, FS_EmptySet DEF Occurrences

\* The variable that is taken, and its rarer phase.
LEMMA RarerFacts ==
  ASSUME NEW o, NEW s, Kept(o, s), NEW var \in Variables,
         Occurrences(s, var) = 0 \/ Occurrences(s, -var) = 0
  PROVE  \E lit \in Literal : /\ RarerLiteral(s, var) = -lit /\ Containing(s, -lit) = {}
                              /\ IABS(lit) = var
<1>1. var \in Literal /\ -var \in Literal /\ IABS(var) = var /\ IABS(-var) = var /\ -(-var) = var
   BY VariableFacts
<1>2. Occurrences(s, var) \in Nat /\ Occurrences(s, -var) \in Nat
   BY <1>1, OccurrenceFacts
<1>3. CASE Occurrences(s, var) <= Occurrences(s, -var)
   <2>1. RarerLiteral(s, var) = var /\ Occurrences(s, var) = 0
      BY <1>2, <1>3 DEF RarerLiteral
   <2>2. Containing(s, var) = {}
      BY <1>1, <2>1, OccurrenceFacts
   <2>3. /\ RarerLiteral(s, var) = -(-var) /\ Containing(s, -(-var)) = {} /\ IABS(-var) = var
      BY <1>1, <2>1, <2>2
   <2> QED BY <1>1, <2>3
<1>4. CASE ~(Occurrences(s, var) <= Occurrences(s, -var))
   <2>1. RarerLiteral(s, var) = -var /\ Occurrences(s, -var) = 0
      BY <1>2, <1>4 DEF RarerLiteral
   <2>2. Containing(s, -var) = {}
      BY <1>1, <2>1, OccurrenceFacts
   <2> QED BY <1>1, <2>1, <2>2
<1> QED BY <1>3, <1>4

LEMMA BveMoves ==
  ASSUME NEW o, Kept(o, cnf), BveTyped(bve), BveIteration(FALSE)
  PROVE  /\ Kept(o, cnf') /\ Proceeds(cnf, cnf') /\ BveTyped(bve') /\ clause_queue' = clause_queue
         /\ BveMove(cnf, bve, cnf')
<1>1. bve.maxdegree = 0 /\ 0 .. bve.maxdegree = {0} /\ bve.degree_variables \in [{0} -> SUBSET Variables]
      /\ bve.degree_variables[0] \in SUBSET Variables /\ bve.eliminated_variables \in SUBSET Variables
   BY DEF BveTyped
<1>2. ASSUME NEW var \in Eligible(0), NEW met
      PROVE  /\ TakeVariable(var, 0, met) \in [{0} -> SUBSET Variables] /\ var \in Variables
             /\ var \in bve.degree_variables[0]
             /\ Occurrences(cnf, var) = 0 \/ Occurrences(cnf, -var) = 0
   BY <1>1 DEF TakeVariable, Eligible
<1>3. CASE BveSkip
   <2>1. PICK d \in 0 .. bve.maxdegree : \E var \in Eligible(d) : \E met \in SUBSET bve.degree_variables[d] :
            /\ BveTake(var, d, met)
            /\ bve' = [bve EXCEPT !.degree_variables = TakeVariable(var, d, met)]
            /\ UNCHANGED cnf
      BY <1>3 DEF BveSkip
   <2>2. PICK var \in Eligible(d) : \E met \in SUBSET bve.degree_variables[d] :
            /\ BveTake(var, d, met)
            /\ bve' = [bve EXCEPT !.degree_variables = TakeVariable(var, d, met)]
            /\ UNCHANGED cnf
      BY <2>1
   <2>3. PICK met \in SUBSET bve.degree_variables[d] :
            /\ BveTake(var, d, met)
            /\ bve' = [bve EXCEPT !.degree_variables = TakeVariable(var, d, met)]
            /\ UNCHANGED cnf
      BY <2>2
   <2>4. d = 0 /\ cnf' = cnf /\ clause_queue' = clause_queue
      BY <1>1, <2>1, <2>3 DEF BveTake
   <2>5. TakeVariable(var, d, met) \in [{0} -> SUBSET Variables]
      BY <1>2, <2>2, <2>4
   <2>6. BveTyped(bve')
      BY <2>3, <2>5 DEF BveTyped
   <2> QED BY <2>4, <2>6 DEF Proceeds, BveMove
<1>4. CASE BveEliminate(FALSE)
   <2> DEFINE Step(var, d, met) ==
                 /\ BveTake(var, d, met)
                 /\ cnf' = Eliminate(cnf, var, RarerLiteral(cnf, var), d, FALSE)
                 /\ bve' = [bve EXCEPT
                        !.degree_variables = [e \in 0 .. bve.maxdegree |->
                            TakeVariable(var, d, met)[e]
                              \cup { v \in ChangeVariables(cnf, RarerLiteral(cnf, var)) :
                                      Degree(cnf', v) = e }],
                        !.eliminated_variables = @ \cup {var}]
   <2>1. PICK d \in 0 .. bve.maxdegree : \E var \in Eligible(d) : \E met \in SUBSET bve.degree_variables[d] : Step(var, d, met)
      BY <1>4 DEF BveEliminate
   <2>2. PICK var \in Eligible(d) : \E met \in SUBSET bve.degree_variables[d] : Step(var, d, met)
      BY <2>1
   <2>3. PICK met \in SUBSET bve.degree_variables[d] : Step(var, d, met)
      BY <2>2
   <2>4. d = 0 /\ clause_queue' = clause_queue
      BY <1>1, <2>1, <2>3 DEF BveTake
   <2>5. /\ TakeVariable(var, 0, met) \in [{0} -> SUBSET Variables] /\ var \in Variables
         /\ var \in bve.degree_variables[0]
         /\ Occurrences(cnf, var) = 0 \/ Occurrences(cnf, -var) = 0
      BY <1>2, <2>2, <2>4
   <2>6. PICK lit \in Literal : /\ RarerLiteral(cnf, var) = -lit /\ Containing(cnf, -lit) = {}
                                /\ IABS(lit) = var
      BY <2>5, RarerFacts
   <2>7. cnf' = Eliminate(cnf, var, -lit, 0, FALSE)
      BY <2>3, <2>4, <2>6
   <2>8. Kept(o, cnf') /\ Proceeds(cnf, cnf') /\ PureMove(cnf, cnf', lit)
      BY <2>6, <2>7, PureMoves
   <2>9. BveMove(cnf, bve, cnf')
      BY <2>5, <2>6, <2>8 DEF BveMove
   <2>10. ChangeVariables(cnf, RarerLiteral(cnf, var)) \subseteq Variables
      <3>1. lit \in Literal /\ -lit \in Literal /\ -(-lit) = lit
         BY <2>6, LiteralFacts
      <3>2. cnf.literal_clauses[-lit] \cup cnf.literal_clauses[-(-lit)] \subseteq cnf.active_clauses
         BY <3>1, OccurrenceFacts DEF Containing
      <3>3. ProjectionVariables(cnf, cnf.literal_clauses[-lit] \cup cnf.literal_clauses[-(-lit)]) \subseteq Variables
         BY <3>2, ProjectionTyped
      <3> QED BY <2>6, <3>3 DEF ChangeVariables
   <2>11. BveTyped(bve')
      <3> DEFINE vars0 == [e \in {0} |-> TakeVariable(var, d, met)[e]
                              \cup { v \in ChangeVariables(cnf, RarerLiteral(cnf, var)) : Degree(cnf', v) = e }]
      <3>1. vars0 \in [{0} -> SUBSET Variables]
         <4>1. TakeVariable(var, d, met)[0] \in SUBSET Variables
            BY <2>4, <2>5
         <4> QED BY <2>10, <4>1
      <3>2. bve' = [bve EXCEPT !.degree_variables = vars0, !.eliminated_variables = @ \cup {var}]
         BY <1>1, <2>3
      <3> HIDE DEF vars0
      <3> QED BY <1>1, <2>5, <3>1, <3>2 DEF BveTyped
   <2> QED BY <2>4, <2>8, <2>9, <2>11
<1> QED BY <1>3, <1>4 DEF BveIteration

-----------------------------------------------------------------------------
(* What is left of the clauses *)

\* The sequence r holds the free literals of the clauses cids.
Residue(s, cids, r) ==
    /\ cids \in Seq(ClauseId) /\ ToSet(cids) = Unsatisfied(s)
    /\ \A i, j \in 1 .. Len(cids) : cids[i] = cids[j] => i = j
    /\ r \in Seq(Seq(Literal)) /\ Len(r) = Len(cids)
    /\ \A i \in 1 .. Len(cids) : ToSet(r[i]) = FreeLits(s, cids[i])

LEMMA ResidualFacts ==
  ASSUME NEW o, NEW s, Kept(o, s)
  PROVE  \E cids : Residue(s, cids, Residual(s))
<1> DEFINE cids == Ascending(Unsatisfied(s))
           places(c) == Ascending(FreePositions(s, c))
           free(c) == [j \in DOMAIN places(c) |-> s.clauses[c][places(c)[j]]]
           r == Residual(s)
<1>1. Unsatisfied(s) \in SUBSET s.active_clauses
   BY DEF Unsatisfied
<1>2. /\ cids \in Seq(ClauseId) /\ ToSet(cids) = Unsatisfied(s)
      /\ \A i, j \in 1 .. Len(cids) : cids[i] = cids[j] => i = j
   BY <1>1, ActiveInOrder
<1>3. r = [i \in DOMAIN cids |-> free(cids[i])]
   BY DEF Residual
<1>4. ASSUME NEW c \in Unsatisfied(s)
      PROVE  free(c) \in Seq(Literal) /\ ToSet(free(c)) = FreeLits(s, c)
   <2>1. s \in CnfType /\ c \in DOMAIN s.clauses /\ Lits(s, c) \subseteq Literal
      BY <1>1, KeptClauses DEF Kept
   <2>2. /\ FreePositions(s, c) \subseteq Int /\ IsFiniteSet(FreePositions(s, c))
         /\ \A i \in FreePositions(s, c) : s.clauses[c][i] \in FreeLits(s, c)
         /\ \A l \in FreeLits(s, c) : \E i \in FreePositions(s, c) : s.clauses[c][i] = l
      BY <2>1, FreePositionsFacts
   <2> DEFINE P == places(c)
   <2>3. P \in Seq(FreePositions(s, c)) /\ ToSet(P) = FreePositions(s, c)
      BY <2>2, AscendingEnumerates
   <2> HIDE DEF P
   <2>4. /\ DOMAIN P = 1 .. Len(P) /\ Len(P) \in Nat /\ \A j \in 1 .. Len(P) : P[j] \in FreePositions(s, c)
         /\ \A i \in FreePositions(s, c) : \E j \in 1 .. Len(P) : P[j] = i
      BY <2>3, LenProperties, ToSetSeq
   <2> DEFINE f == [j \in DOMAIN P |-> s.clauses[c][P[j]]]
   <2>5. free(c) = f
      BY DEF P
   <2>6. f \in [1 .. Len(P) -> FreeLits(s, c)]
      BY <2>2, <2>4
   <2>7. f \in Seq(FreeLits(s, c)) /\ Len(f) = Len(P)
      BY <2>4, <2>6, FunctionIsSeq
   <2>8. FreeLits(s, c) \subseteq Literal
      BY <2>1 DEF FreeLits
   <2>9. \A l \in FreeLits(s, c) : \E j \in 1 .. Len(P) : f[j] = l
      BY <2>2, <2>4
   <2> HIDE DEF f, free
   <2>10. f \in Seq(Literal)
      BY <2>7, <2>8
   <2>11. ToSet(f) = FreeLits(s, c)
      <3> DEFINE L == FreeLits(s, c)
      <3>1. f \in Seq(L) /\ Len(f) = Len(P) /\ \A l \in L : \E j \in 1 .. Len(P) : f[j] = l
         BY <2>7, <2>9
      <3> HIDE DEF L
      <3>2. ToSet(f) \subseteq L /\ \A j \in 1 .. Len(f) : f[j] \in ToSet(f)
         BY <3>1, ToSetSeq
      <3>3. ToSet(f) = L
         BY <3>1, <3>2
      <3> QED BY <3>3 DEF L
   <2> QED BY <2>5, <2>10, <2>11
<1> HIDE DEF cids, free, r
<1>5. DOMAIN cids = 1 .. Len(cids) /\ Len(cids) \in Nat /\ \A i \in 1 .. Len(cids) : cids[i] \in Unsatisfied(s)
   BY <1>2, ToSetSeq, LenProperties
<1>6. r \in [1 .. Len(cids) -> Seq(Literal)] /\ \A i \in 1 .. Len(cids) : r[i] = free(cids[i])
   BY <1>3, <1>4, <1>5
<1>7. r \in Seq(Seq(Literal)) /\ Len(r) = Len(cids)
   BY <1>5, <1>6, FunctionIsSeq
<1>8. Residue(s, cids, r)
   BY <1>2, <1>4, <1>5, <1>6, <1>7 DEF Residue
<1> QED BY <1>8 DEF r

\* Literals are integers between two bounds: some are the least.
LEMMA LeastLiteral ==
  ASSUME NEW S \in SUBSET Literal, S # {}
  PROVE  \E x \in S : \A y \in S : x <= y
<1> DEFINE T == { x + NVar : x \in S }
<1>1. NVar \in Nat /\ \A x \in Literal : x \in Int /\ x + NVar \in Nat
   BY NVarAssumption DEF Literal, Variables
<1>2. T \in SUBSET Nat /\ T # {}
   BY <1>1
<1>3. PICK m \in T : \A k \in T : m <= k
   BY <1>2, LeastNatural
<1>4. PICK x \in S : m = x + NVar
   BY <1>3
<1>5. \A y \in S : x <= y
   BY <1>1, <1>3, <1>4
<1> QED BY <1>5

\* The free literals of the clauses that are not satisfied.
Open(s) == UNION { FreeLits(s, cid) : cid \in Unsatisfied(s) }

LEMMA OpenFacts ==
  ASSUME NEW o, NEW s, Kept(o, s)
  PROVE  /\ Open(s) \subseteq Literal
         /\ \A lit \in Open(s) : lit \notin s.unit_literals /\ -lit \notin s.unit_literals
<1>1. ASSUME NEW cid \in Unsatisfied(s), NEW lit \in FreeLits(s, cid)
      PROVE  lit \in Literal /\ lit \notin s.unit_literals /\ -lit \notin s.unit_literals
   <2>1. cid \in s.active_clauses /\ Lits(s, cid) \cap s.unit_literals = {}
      BY DEF Unsatisfied, skip_clause
   <2> QED BY <2>1, KeptClauses
<1> QED BY <1>1 DEF Open

\* The variable to split on has no value.
LEMMA SplitFacts ==
  ASSUME NEW o, NEW s, Kept(o, s), Open(s) # {}
  PROVE  \E lit \in Open(s) : find_split(s) = IABS(lit) /\ IABS(lit) \in Variables
<1> DEFINE lits == Open(s)
           bipolar == { lit \in lits : lit < 0 /\ -lit \in lits }
           S == IF bipolar # {} THEN bipolar ELSE lits
           x == CHOOSE x \in S : \A y \in S : x <= y
<1>1. find_split(s) = IABS(x)
   BY DEF find_split, Open
<1>2. S \in SUBSET Literal /\ S # {} /\ S \subseteq Open(s)
   BY OpenFacts
<1> HIDE DEF S
<1>3. x \in S
   BY <1>2, LeastLiteral
<1> HIDE DEF x
<1>4. x \in Open(s) /\ x \in Literal
   BY <1>2, <1>3
<1>5. IABS(x) \in Variables
   BY <1>4, LiteralFacts
<1> QED BY <1>1, <1>4, <1>5

LEMMA SplitUnassigned ==
  ASSUME NEW o, NEW s, Kept(o, s), Open(s) # {}
  PROVE  /\ find_split(s) \in Variables
         /\ find_split(s) \notin s.unit_literals /\ -find_split(s) \notin s.unit_literals
<1>1. PICK lit \in Open(s) : find_split(s) = IABS(lit) /\ IABS(lit) \in Variables
   BY SplitFacts
<1>2. lit \in Literal /\ lit \notin s.unit_literals /\ -lit \notin s.unit_literals
   BY OpenFacts
<1>3. lit = IABS(lit) \/ lit = -IABS(lit)
   BY <1>2, LiteralFacts
<1>4. -(-IABS(lit)) = IABS(lit)
   BY <1>1, VariableFacts
<1> QED BY <1>1, <1>2, <1>3, <1>4

\* Clauses that are not simple have literals.
LEMMA NotSimple ==
  ASSUME NEW o, NEW s, Kept(o, s), ~Simple(s)
  PROVE  Open(s) # {}
<1> SUFFICES ASSUME Open(s) = {}
             PROVE  FALSE
   OBVIOUS
<1>1. PICK cids : Residue(s, cids, Residual(s))
   BY ResidualFacts
<1> DEFINE r == Residual(s)
           flat == FlattenSeq(r)
<1>2. ~IsInjective([k \in DOMAIN flat |-> IABS(flat[k])])
   BY DEF Simple
<1> HIDE DEF r
<1>3. r \in Seq(Seq(Literal)) /\ Len(r) = Len(cids) /\ Len(cids) \in Nat
   BY <1>1, LenProperties DEF Residue, r
<1>4. \A i \in 1 .. Len(r) : ToSet(r[i]) = {}
   <2>1. ASSUME NEW i \in 1 .. Len(r)
         PROVE  ToSet(r[i]) = {}
      <3>1. cids[i] \in Unsatisfied(s) /\ ToSet(r[i]) = FreeLits(s, cids[i])
         BY <1>1, <1>3, ToSetSeq DEF Residue, r
      <3> QED BY <3>1 DEF Open
   <2> QED BY <2>1
<1>5. flat \in Seq(Literal) /\ ToSet(flat) = {}
   <2>1. flat \in Seq(Literal) /\ ToSet(flat) = UNION { ToSet(r[i]) : i \in 1 .. Len(r) }
      BY <1>3, FlattenElements
   <2> HIDE DEF flat
   <2>2. UNION { ToSet(r[i]) : i \in 1 .. Len(r) } = {}
      BY <1>4
   <2> QED BY <2>1, <2>2
<1> HIDE DEF flat
<1>6. DOMAIN flat = {}
   BY <1>5, ToSetSeq
<1>7. IsInjective([k \in DOMAIN flat |-> IABS(flat[k])])
   BY <1>6 DEF IsInjective
<1> QED BY <1>2, <1>7

\* The clauses given to simple_kc.
KeptUnits(s) == { lit \in s.bcp_unit_literals : is_data_variable(s, IABS(lit)) }

LEMMA ChunksFacts ==
  ASSUME NEW o, NEW s, Kept(o, s), ~EmptyClauseFirst(s)
  PROVE  \E cids : /\ Residue(s, cids, Residual(s))
                   /\ Chunks(s) \in Seq(Seq(Literal))
                   /\ ToSet(Chunks(s)) = ToSet(Residual(s)) \cup { << lit >> : lit \in KeptUnits(s) }
                   /\ \A lit \in KeptUnits(s) : ToSet(<< lit >>) = {lit}
<1>1. PICK cids : Residue(s, cids, Residual(s))
   BY ResidualFacts
<1> DEFINE units == Ascending(KeptUnits(s))
           single == [i \in DOMAIN units |-> << units[i] >>]
           r == Residual(s)
<1>2. Chunks(s) = r \o single
   BY DEF Chunks, KeptUnits
<1>3. KeptUnits(s) \subseteq Literal
   BY DEF KeptUnits, Kept, CnfType
<1>4. KeptUnits(s) \subseteq Int /\ IsFiniteSet(KeptUnits(s))
   BY <1>3, LiteralFacts, LiteralsFinite, FS_Subset
<1>5. units \in Seq(KeptUnits(s)) /\ ToSet(units) = KeptUnits(s)
   BY <1>4, AscendingEnumerates
<1> HIDE DEF units, r
<1>6. /\ DOMAIN units = 1 .. Len(units) /\ Len(units) \in Nat
      /\ \A i \in 1 .. Len(units) : units[i] \in KeptUnits(s)
      /\ \A lit \in KeptUnits(s) : \E i \in 1 .. Len(units) : units[i] = lit
   BY <1>5, LenProperties, ToSetSeq
<1>7. \A lit \in KeptUnits(s) : << lit >> \in Seq(Literal) /\ ToSet(<< lit >>) = {lit}
   <2>1. ASSUME NEW lit \in KeptUnits(s)
         PROVE  << lit >> \in Seq(Literal) /\ ToSet(<< lit >>) = {lit}
      BY <1>3 DEF ToSet
   <2> QED BY <2>1
<1>8. single \in [1 .. Len(units) -> Seq(Literal)] /\ \A i \in 1 .. Len(units) : single[i] = << units[i] >>
   BY <1>6, <1>7
<1> HIDE DEF single
<1>9. single \in Seq(Seq(Literal)) /\ Len(single) = Len(units) /\ DOMAIN single = 1 .. Len(units)
   BY <1>6, <1>8, FunctionIsSeq
<1>10. ToSet(single) = { << lit >> : lit \in KeptUnits(s) }
   <2>1. ToSet(single) = { single[i] : i \in 1 .. Len(units) }
      BY <1>9 DEF ToSet
   <2>2. \A i \in 1 .. Len(units) : single[i] \in { << lit >> : lit \in KeptUnits(s) }
      BY <1>6, <1>8
   <2>3. ASSUME NEW lit \in KeptUnits(s)
         PROVE  \E i \in 1 .. Len(units) : single[i] = << lit >>
      <3>1. PICK i \in 1 .. Len(units) : units[i] = lit
         BY <1>6
      <3>2. single[i] = << units[i] >>
         BY <1>8
      <3> QED BY <3>1, <3>2
   <2> QED BY <2>1, <2>2, <2>3
<1>11. r \in Seq(Seq(Literal))
   BY <1>1 DEF Residue, r
<1>12. Chunks(s) \in Seq(Seq(Literal)) /\ ToSet(Chunks(s)) = ToSet(r) \cup ToSet(single)
   BY <1>2, <1>9, <1>11, ToSetConcat
<1> QED BY <1>1, <1>7, <1>10, <1>12 DEF r

LEMMA EmptyChunks ==
  ASSUME NEW s, EmptyClauseFirst(s)
  PROVE  Chunks(s) = << << >>, << >> >> /\ Chunks(s) \in Seq(Seq(Literal)) /\ Len(Chunks(s)) = 2
         /\ Chunks(s)[1] = << >>
BY DEF Chunks

-----------------------------------------------------------------------------
(* The invariant of the recursion *)

Origin == clausify(BuildLibrary, roots)

\* A branch has been taken at most once in each phase.
FrameOf(p, frame) ==
    /\ frame \in Frame /\ IsEdge(p, frame.svar)
    /\ frame.child = << >> \/ \E e \in Int : frame.child = << e >> /\ IsEdge(p, e)

FramesOf(p, fr) == fr \in Seq(Frame) /\ \A i \in 1 .. Len(fr) : FrameOf(p, fr[i])

GraphOf(p) == WellFormed(p) /\ Canonical(p) /\ Grown(BuildLibrary, p)

KcTyped ==
    /\ roots \in RootPairs /\ trim \in BOOLEAN
    /\ GraphOf(pog)
    /\ FramesOf(pog, frames)
    /\ clause_queue \in Seq(ClauseId) /\ BveTyped(bve)
    /\ pc \in {"test", "check", "bcp", "bve", "return"}
    /\ edge \in Int /\ (pc = "return" => IsEdge(pog, edge))

KcInv == KcTyped /\ \E z : Histories(Origin, z, frames, cnf)

\* What the invariant says of the object.
LEMMA Originates ==
  ASSUME roots \in RootPairs
  PROVE  Compilable(BuildLibrary, roots) /\ FromClausify(BuildLibrary, roots, Origin)
<1>1. Compilable(BuildLibrary, roots)
   BY CallerAssumption DEF Compilable, ProperRoots
<1> QED BY <1>1, ClausifyFacts DEF Origin

\* Variables of the object are numbers that edges of the graph have.
LEMMA NumbersOfEdges ==
  ASSUME roots \in RootPairs, NEW p, GraphOf(p), NEW lit \in Literal,
         IABS(lit) \in 1 .. LastNumber(BuildLibrary, roots)
  PROVE  IsEdge(p, lit) /\ IsEdge(p, IABS(lit))
<1> DEFINE lib == BuildLibrary
<1>1. Compilable(lib, roots) /\ WellFormed(lib)
   BY Originates DEF Compilable
<1>2. /\ LastNumber(lib, roots) \in Nat /\ LastNumber(lib, roots) <= NInput + Len(lib.nodes)
      /\ NInput \in Nat /\ Len(lib.nodes) \in Nat
   BY <1>1, LastNumberFacts
<1>3. Len(lib.nodes) <= Len(p.nodes) /\ Len(p.nodes) \in Nat
   BY Sizes DEF GraphOf, Grown
<1>4. lit \in Int /\ IABS(lit) \in Variables
   BY LiteralFacts
<1>5. IABS(lit) \in 1 .. NInput + Len(p.nodes) /\ IABS(lit) \in Nat /\ IABS(IABS(lit)) = IABS(lit)
   <2> DEFINE v == IABS(lit)
              last == LastNumber(lib, roots)
              m == Len(lib.nodes)
              n == Len(p.nodes)
   <2>1. v \in 1 .. last /\ last \in Nat /\ last <= NInput + m /\ m \in Nat /\ m <= n /\ n \in Nat /\ NInput \in Nat
      BY <1>2, <1>3
   <2>2. IABS(v) = v
      BY <1>4, VariableFacts
   <2> HIDE DEF v, last, m, n
   <2>3. v \in 1 .. NInput + n /\ v \in Nat
      BY <2>1
   <2> QED BY <2>2, <2>3 DEF v, n
<1> QED BY <1>4, <1>5 DEF IsEdge

LEMMA NumbersInRange ==
  ASSUME roots \in RootPairs, NEW s, Kept(Origin, s)
  PROVE  /\ \A cid \in s.active_clauses : \A lit \in Lits(s, cid) :
              /\ lit \in Literal
              /\ IABS(lit) \in 1 .. LastNumber(BuildLibrary, roots)
              /\ IABS(lit) <= NInput => IABS(lit) \in s.data_variables
         /\ \A lit \in Open(s) : lit \in Literal /\ IABS(lit) \in 1 .. LastNumber(BuildLibrary, roots)
         /\ \A lit \in KeptUnits(s) : lit \in Literal /\ IABS(lit) \in 1 .. LastNumber(BuildLibrary, roots)
         /\ s.data_variables \subseteq InputVariables
<1>1. FromClausify(BuildLibrary, roots, Origin) /\ Compilable(BuildLibrary, roots)
   BY Originates
<1>2. ASSUME NEW cid \in s.active_clauses, NEW lit \in Lits(s, cid)
      PROVE  /\ lit \in Literal
             /\ IABS(lit) \in 1 .. LastNumber(BuildLibrary, roots)
             /\ IABS(lit) <= NInput => IABS(lit) \in s.data_variables
   <2>1. cid \in DOMAIN s.clauses /\ Lits(s, cid) \subseteq Literal /\ s.clauses = Origin.clauses
         /\ s.data_variables = Origin.data_variables
      BY KeptClauses DEF Kept
   <2>2. Lits(s, cid) = Lits(Origin, cid) /\ cid \in DOMAIN Origin.clauses
      BY <2>1 DEF Lits
   <2>3. Lits(s, cid) \in AllContents(BuildLibrary, roots)
      BY <1>1, <2>2 DEF FromClausify
   <2> QED BY <1>1, <2>1, <2>3 DEF FromClausify
<1>3. ASSUME NEW lit \in Open(s)
      PROVE  lit \in Literal /\ IABS(lit) \in 1 .. LastNumber(BuildLibrary, roots)
   BY <1>2 DEF Open, Unsatisfied, FreeLits
<1>4. s.data_variables \subseteq InputVariables
   BY <1>1 DEF FromClausify, Kept
<1>5. ASSUME NEW lit \in KeptUnits(s)
      PROVE  lit \in Literal /\ IABS(lit) \in 1 .. LastNumber(BuildLibrary, roots)
   <2>1. lit \in Literal /\ IABS(lit) \in InputVariables
      BY <1>4 DEF KeptUnits, is_data_variable, Kept, CnfType
   <2>2. NInput <= LastNumber(BuildLibrary, roots) /\ LastNumber(BuildLibrary, roots) \in Nat /\ NInput \in Nat
      BY <1>1, LastNumberFacts
   <2> QED BY <2>1, <2>2 DEF InputVariables
<1> QED BY <1>2, <1>3, <1>4, <1>5

\* So the chunks are clauses over edges of the graph.
LEMMA ChunksAreClauses ==
  ASSUME roots \in RootPairs, NEW p, GraphOf(p), NEW s, Kept(Origin, s)
  PROVE  AreClauses(p, Chunks(s))
<1> DEFINE ch == Chunks(s)
           E == { x \in Literal : IsEdge(p, x) }
<1>1. ch \in Seq(Seq(Literal)) /\ \A i \in 1 .. Len(ch) : ToSet(ch[i]) \subseteq E
   <2>1. CASE EmptyClauseFirst(s)
      <3>1. ch = << << >>, << >> >> /\ ch \in Seq(Seq(Literal)) /\ Len(ch) = 2
         BY <2>1, EmptyChunks
      <3> HIDE DEF ch
      <3>2. \A i \in 1 .. Len(ch) : ToSet(ch[i]) = {}
         BY <3>1 DEF ToSet
      <3> QED BY <3>1, <3>2
   <2>2. CASE ~EmptyClauseFirst(s)
      <3>1. PICK cids : /\ Residue(s, cids, Residual(s))
                        /\ Chunks(s) \in Seq(Seq(Literal))
                        /\ ToSet(Chunks(s)) = ToSet(Residual(s)) \cup { << lit >> : lit \in KeptUnits(s) }
                        /\ \A lit \in KeptUnits(s) : ToSet(<< lit >>) = {lit}
         BY <2>2, ChunksFacts
      <3> DEFINE r == Residual(s)
      <3>2. \A i \in 1 .. Len(ch) : ch[i] \in ToSet(r) \/ \E lit \in KeptUnits(s) : ch[i] = << lit >>
         BY <3>1, ToSetSeq
      <3> HIDE DEF ch, r
      <3>3. \A lit \in Open(s) : lit \in E
         BY NumbersInRange, NumbersOfEdges
      <3>4. \A lit \in KeptUnits(s) : lit \in E
         BY NumbersInRange, NumbersOfEdges
      <3>5. ASSUME NEW c \in ToSet(r)
            PROVE  ToSet(c) \subseteq E
         <4>1. PICK j \in 1 .. Len(cids) : c = r[j]
            BY <3>1, ToSetSeq DEF Residue, r
         <4>2. ToSet(c) = FreeLits(s, cids[j]) /\ cids[j] \in Unsatisfied(s)
            BY <3>1, <4>1, ToSetSeq DEF Residue, r
         <4> QED BY <3>3, <4>2 DEF Open
      <3>6. ASSUME NEW i \in 1 .. Len(ch)
            PROVE  ToSet(ch[i]) \subseteq E
         <4> HIDE DEF E
         <4>1. CASE ch[i] \in ToSet(r)
            BY <3>5, <4>1
         <4>2. CASE \E lit \in KeptUnits(s) : ch[i] = << lit >>
            BY <3>1, <3>4, <4>2
         <4> QED BY <3>2, <4>1, <4>2
      <3> QED BY <3>1, <3>6 DEF ch
   <2> QED BY <2>1, <2>2
<1> HIDE DEF ch
<1>2. Len(ch) \in Nat
   BY <1>1, LenProperties
<1>3. ASSUME NEW i \in 1 .. Len(ch)
      PROVE  Edges(p, ch[i])
   <2>1. ch[i] \in Seq(Literal) /\ ToSet(ch[i]) \subseteq E
      BY <1>1
   <2>2. \A j \in 1 .. Len(ch[i]) : ch[i][j] \in E
      BY <2>1, ToSetSeq
   <2>3. ch[i] \in Seq(Int)
      BY <2>1, LiteralFacts
   <2> QED BY <2>2, <2>3 DEF Edges
<1> QED BY <1>2, <1>3 DEF AreClauses, ch

-----------------------------------------------------------------------------
(* Steps of the recursion *)

\* Edges and frames are still right when the graph has grown.
LEMMA FramesGrow ==
  ASSUME NEW p, GraphOf(p), NEW q, GraphOf(q), Grown(p, q), NEW fr, FramesOf(p, fr)
  PROVE  FramesOf(q, fr)
<1>1. KeepsEdges(p, q)
   BY GrownEdges, Sizes DEF GraphOf
<1> QED BY <1>1 DEF FramesOf, FrameOf, KeepsEdges

GrownGraph(p, made) ==
    GraphOf(made.pog) /\ Grown(p, made.pog) /\ IsEdge(made.pog, made.edge) /\ made.edge \in Int

\* One more node.
LEMMA NodeGrows ==
  ASSUME NEW p, GraphOf(p), NEW type \in PogType, NEW args, Edges(p, args),
         NEW made, made = MakeNode(p, type, args), Fits(made.pog)
  PROVE  GrownGraph(p, made)
<1>1. WellFormed(p) /\ Canonical(p) /\ Grown(BuildLibrary, p) /\ WellFormed(BuildLibrary)
   BY CallerAssumption DEF GraphOf
<1>2. WellFormed(made.pog) /\ Grown(p, made.pog) /\ IsEdge(made.pog, made.edge)
   BY <1>1, MakeNodeIsRight DEF Made
<1>3. Canonical(made.pog)
   BY <1>1, MakeNodeIsCanonical
<1>4. Grown(BuildLibrary, made.pog)
   BY <1>1, <1>2, GrownTransitive
<1> QED BY <1>2, <1>3, <1>4 DEF GrownGraph, GraphOf, IsEdge

LEMMA PairOfEdges ==
  ASSUME NEW p, NEW x, IsEdge(p, x), NEW y, IsEdge(p, y)
  PROVE  Edges(p, << x, y >>) /\ ToSet(<< x, y >>) = {x, y}
<1>1. x \in Int /\ y \in Int
   BY DEF IsEdge
<1> QED BY <1>1 DEF Edges, ToSet

\* The edge of a branch.
LEMMA BranchGrows ==
  ASSUME NEW p, GraphOf(p), NEW slit, IsEdge(p, slit), NEW e, IsEdge(p, e),
         NEW made, made = BranchEdge(p, slit, e)
  PROVE  /\ Fits(made.pog) => GrownGraph(p, made)
         /\ made.pog.nodes \in Seq(Node)
<1>1. CASE is_data_variable(cnf, IABS(slit)) \/ ~trim
   <2>1. made = MakeNode(p, "PRODUCT", << slit, e >>)
      BY <1>1 DEF BranchEdge
   <2>2. Edges(p, << slit, e >>)
      BY PairOfEdges
   <2>3. made.pog.nodes \in Seq(Node)
      BY <2>1, <2>2, MakeNodeTyped DEF PogType, GraphOf
   <2>4. Fits(made.pog) => GrownGraph(p, made)
      BY <2>1, <2>2, NodeGrows DEF PogType
   <2> QED BY <2>3, <2>4
<1>2. CASE ~(is_data_variable(cnf, IABS(slit)) \/ ~trim)
   <2>1. made = [pog |-> p, edge |-> e]
      BY <1>2 DEF BranchEdge
   <2>2. Grown(p, p) /\ p.nodes \in Seq(Node)
      BY GrownReflexive, Sizes DEF GraphOf
   <2> QED BY <2>1, <2>2 DEF GrownGraph, IsEdge
<1> QED BY <1>1, <1>2

\* The edge of the sum of both branches.
LEMMA SumGrows ==
  ASSUME NEW p, GraphOf(p), NEW slit, IsEdge(p, slit), NEW e, IsEdge(p, e), NEW c, IsEdge(p, c),
         NEW made, made = BranchEdge(p, slit, e),
         NEW sum, sum = MakeNode(made.pog, "SUM", << c, made.edge >>), Fits(sum.pog)
  PROVE  GrownGraph(p, made) /\ GrownGraph(made.pog, sum) /\ GrownGraph(p, sum) /\ Edges(made.pog, << c, made.edge >>)
<1>1. made.pog.nodes \in Seq(Node)
   BY BranchGrows
<1>2. Fits(made.pog)
   BY <1>1, MakeNodeFits
<1>3. GrownGraph(p, made)
   BY <1>2, BranchGrows
<1>4. IsEdge(made.pog, c)
   BY <1>3, GrownEdges, Sizes DEF GrownGraph, GraphOf, KeepsEdges
<1>5. Edges(made.pog, << c, made.edge >>)
   BY <1>3, <1>4, PairOfEdges DEF GrownGraph
<1>6. GrownGraph(made.pog, sum)
   BY <1>3, <1>5, NodeGrows DEF GrownGraph, PogType
<1>7. Grown(p, sum.pog)
   BY <1>3, <1>6, GrownTransitive DEF GrownGraph, GraphOf
<1> QED BY <1>3, <1>5, <1>6, <1>7 DEF GrownGraph

\* The steps that change neither the graph nor the frames, and those of the
\* activation on top.
LEMMA InitTyped ==
  ASSUME Init
  PROVE  KcTyped /\ Histories(Origin, [i \in 0 .. 0 |-> cnf], frames, cnf)
<1>1. roots \in RootPairs /\ trim \in BOOLEAN /\ cnf = Origin /\ pog = BuildLibrary
   BY CallerAssumption DEF Init, Origin
<1>2. FromClausify(BuildLibrary, roots, Origin)
   BY <1>1, Originates
<1>3. GraphOf(pog)
   BY <1>1, CallerAssumption, GrownReflexive DEF GraphOf
<1>4. Kept(Origin, cnf) /\ Starts(cnf) = {1}
   BY <1>1, <1>2 DEF Kept, FromClausify
<1>5. clause_queue \in Seq(ClauseId) /\ BveTyped(bve)
   <2>1. Ascending(cnf.active_clauses) \in Seq(ClauseId)
      BY <1>4, ActiveInOrder
   <2> QED BY <1>4, <2>1, ScanTyped DEF Init, QueueOf
<1>6. FramesOf(pog, frames) /\ Len(frames) = 0 /\ edge = 0 /\ pc = "test"
   BY DEF Init, FramesOf
<1>7. Histories(Origin, [i \in 0 .. 0 |-> cnf], frames, cnf)
   <2>1. Cardinality(Starts(cnf)) = 1
      BY <1>4, FS_Singleton
   <2> DEFINE y == [i \in 0 .. 0 |-> cnf]
   <2>2. \A i \in 0 .. 0 : i = 0 /\ y[i] = cnf
      OBVIOUS
   <2>3. y[0] = cnf /\ Len(frames) = 0 /\ 1 .. 0 = {}
      BY <1>6
   <2> HIDE DEF y
   <2>4. Histories(Origin, y, frames, cnf)
      <3>1. ASSUME NEW i \in 0 .. Len(frames)
            PROVE  Kept(Origin, y[i]) /\ Cardinality(Starts(y[i])) = i + 1
         <4>1. i = 0 /\ y[i] = cnf
            BY <2>2, <2>3
         <4>2. i + 1 = 1
            BY <4>1
         <4> QED BY <1>4, <2>1, <4>1, <4>2
      <3>2. 1 .. Len(frames) = {}
         BY <2>3
      <3> QED BY <2>3, <3>1, <3>2 DEF Histories
   <2> QED BY <2>4 DEF y
<1> QED BY <1>1, <1>3, <1>5, <1>6, <1>7 DEF KcTyped

LEMMA TopObject ==
  ASSUME NEW o, NEW z, NEW fr, Len(fr) \in Nat, NEW s, Histories(o, z, fr, s)
  PROVE  Kept(o, s) /\ z[Len(fr)] = s
BY DEF Histories

LEMMA FramesLength ==
  ASSUME NEW p, NEW fr, FramesOf(p, fr)
  PROVE  Len(fr) \in Nat
BY LenProperties DEF FramesOf

\* bcp and bve.
LEMMA ReduceTyped ==
  ASSUME KcTyped, NEW z, Histories(Origin, z, frames, cnf), Bcp \/ Bve
  PROVE  KcTyped' /\ Histories(Origin, Put(z, Len(frames), cnf'), frames, cnf')
<1>1. Kept(Origin, cnf) /\ Len(frames) \in Nat
   BY FramesLength, TopObject DEF KcTyped
<1>2. CASE Bcp
   <2>1. BcpIteration(FALSE) /\ UNCHANGED << pog, frames, edge, roots, trim, pc >>
      BY <1>2 DEF Bcp, kcUnchanged
   <2>2. Kept(Origin, cnf') /\ Proceeds(cnf, cnf') /\ clause_queue' \in Seq(ClauseId) /\ bve' = bve
      BY <1>1, <2>1, BcpMoves DEF KcTyped
   <2>3. Histories(Origin, Put(z, Len(frames), cnf'), frames, cnf')
      BY <1>1, <2>2, HistoryMoves
   <2> QED BY <2>1, <2>2, <2>3 DEF KcTyped
<1>3. CASE Bve
   <2>1. BveIteration(FALSE) /\ UNCHANGED << pog, frames, edge, roots, trim, pc >>
      BY <1>3 DEF Bve, kcUnchanged
   <2>2. Kept(Origin, cnf') /\ Proceeds(cnf, cnf') /\ BveTyped(bve') /\ clause_queue' = clause_queue
      BY <1>1, <2>1, BveMoves DEF KcTyped
   <2>3. Histories(Origin, Put(z, Len(frames), cnf'), frames, cnf')
      BY <1>1, <2>2, HistoryMoves
   <2> QED BY <2>1, <2>2, <2>3 DEF KcTyped
<1> QED BY <1>2, <1>3

\* The steps that leave the object, the graph and the frames alone.
LEMMA TestTyped ==
  ASSUME KcTyped, NEW z, Histories(Origin, z, frames, cnf),
         TestUnsat \/ TestSat \/ FinishBcp \/ FinishBve \/ UNCHANGED vars
  PROVE  KcTyped' /\ cnf' = cnf /\ frames' = frames /\ pog' = pog /\ roots' = roots
<1>1. Kept(Origin, cnf) /\ WellFormed(pog)
   BY FramesLength, TopObject DEF KcTyped, GraphOf
<1>2. CASE TestUnsat
   <2>1. IsEdge(pog, CONFLICT) /\ CONFLICT \in Int
      BY Constants
   <2> QED BY <1>2, <2>1 DEF TestUnsat, KcTyped
<1>3. CASE TestSat
   BY <1>3 DEF TestSat, KcTyped
<1>4. CASE FinishBcp
   <2>1. BveTyped(BveScan(cnf, 0)) /\ NoQueue \in Seq(ClauseId)
      BY <1>1, ScanTyped DEF NoQueue
   <2> QED BY <1>4, <2>1 DEF FinishBcp, kcUnchanged, KcTyped
<1>5. CASE FinishBve
   BY <1>5 DEF FinishBve, kcUnchanged, KcTyped
<1>6. CASE UNCHANGED vars
   BY <1>6 DEF vars, KcTyped
<1> QED BY <1>2, <1>3, <1>4, <1>5, <1>6

LEMMA SimpleTyped ==
  ASSUME KcTyped, NEW z, Histories(Origin, z, frames, cnf), CheckSimple, Fits(pog')
  PROVE  KcTyped' /\ cnf' = cnf /\ frames' = frames /\ Grown(pog, pog') /\ roots' = roots
<1> DEFINE made == simple_kc(pog, Chunks(cnf))
<1>1. Kept(Origin, cnf) /\ GraphOf(pog) /\ roots \in RootPairs
   BY FramesLength, TopObject DEF KcTyped
<1>2. /\ pog' = made.pog /\ edge' = made.edge /\ pc' = "return"
      /\ UNCHANGED << cnf, clause_queue, bve, frames, roots, trim >>
   BY DEF CheckSimple
<1>3. AreClauses(pog, Chunks(cnf)) /\ WellFormed(pog) /\ Canonical(pog)
   BY <1>1, ChunksAreClauses DEF GraphOf
<1>4. /\ WellFormed(made.pog) /\ Grown(pog, made.pog) /\ IsEdge(made.pog, made.edge)
      /\ Canonical(made.pog)
   BY <1>2, <1>3, SimpleKcIsRight DEF Made
<1> HIDE DEF made
<1>5. GraphOf(made.pog)
   BY <1>1, <1>4, GrownTransitive, CallerAssumption DEF GraphOf
<1>6. FramesOf(made.pog, frames)
   BY <1>1, <1>4, <1>5, FramesGrow DEF KcTyped
<1> QED BY <1>2, <1>4, <1>5, <1>6 DEF KcTyped, IsEdge

\* A branch is opened.
LEMMA StartTyped ==
  ASSUME NEW s, Kept(Origin, s), NEW slit \in Literal,
         slit \notin s.unit_literals, -slit \notin s.unit_literals,
         StartBranch(s, slit), roots' = roots
  PROVE  /\ Kept(Origin, cnf') /\ Enters(s, cnf', slit) /\ cnf' = BranchObject(s, slit)
         /\ clause_queue' \in Seq(ClauseId) /\ BveTyped(bve') /\ pc' = "bcp"
<1>1. cnf' = BranchObject(s, slit) /\ clause_queue' = QueueOf(cnf') /\ bve' = NoBve /\ pc' = "bcp"
   BY DEF StartBranch, BranchObject
<1>2. Kept(Origin, cnf') /\ Enters(s, cnf', slit)
   BY <1>1, Entering
<1>3. Ascending(cnf'.active_clauses) \in Seq(ClauseId)
   BY <1>2, ActiveInOrder
<1> QED BY <1>1, <1>2, <1>3, ScanTyped DEF QueueOf

LEMMA SplitTyped ==
  ASSUME KcTyped, NEW z, Histories(Origin, z, frames, cnf), CheckSplit
  PROVE  /\ KcTyped' /\ Histories(Origin, Put(z, Len(frames) + 1, cnf'), frames', cnf')
         /\ roots' = roots /\ pog' = pog
         /\ frames' = Append(frames, [svar |-> find_split(cnf), child |-> << >>])
         /\ find_split(cnf) \in Variables
         /\ Enters(cnf, cnf', -find_split(cnf))
<1> DEFINE svar == find_split(cnf)
<1>1. Kept(Origin, cnf) /\ GraphOf(pog) /\ roots \in RootPairs /\ frames \in Seq(Frame) /\ Len(frames) \in Nat
   BY FramesLength, TopObject DEF KcTyped, FramesOf
<1>2. /\ ~Simple(cnf) /\ frames' = Append(frames, [svar |-> svar, child |-> << >>])
      /\ StartBranch(cnf, -svar) /\ UNCHANGED << pog, edge, roots, trim >>
   BY DEF CheckSplit
<1>3. Open(cnf) # {}
   BY <1>1, <1>2, NotSimple
<1>4. svar \in Variables /\ svar \notin cnf.unit_literals /\ -svar \notin cnf.unit_literals
   BY <1>1, <1>3, SplitUnassigned
<1>5. IsEdge(pog, svar)
   BY <1>1, <1>3, SplitFacts, NumbersInRange, NumbersOfEdges
<1> HIDE DEF svar
<1>6. -svar \in Literal /\ -(-svar) = svar
   BY <1>4, VariableFacts
<1>7. /\ Kept(Origin, cnf') /\ Enters(cnf, cnf', -svar)
      /\ clause_queue' \in Seq(ClauseId) /\ BveTyped(bve') /\ pc' = "bcp"
   BY <1>1, <1>2, <1>4, <1>6, StartTyped
<1> DEFINE f == [svar |-> svar, child |-> << >>]
<1>8. f \in Frame /\ FrameOf(pog, f) /\ f.svar = svar
   BY <1>4, <1>5 DEF Frame, FrameOf
<1> HIDE DEF f
<1>9. /\ frames' \in Seq(Frame) /\ Len(frames') = Len(frames) + 1
      /\ \A i \in 1 .. Len(frames) : frames'[i] = frames[i]
      /\ frames'[Len(frames) + 1] = f
   BY <1>1, <1>2, <1>8 DEF f
<1>10. FramesOf(pog, frames')
   <2>1. ASSUME NEW i \in 1 .. Len(frames')
         PROVE  FrameOf(pog, frames'[i])
      <3>1. CASE i = Len(frames) + 1
         BY <1>8, <1>9, <3>1
      <3>2. CASE i # Len(frames) + 1
         <4>1. i \in 1 .. Len(frames)
            BY <1>1, <1>9, <3>2
         <4> QED BY <1>9, <4>1 DEF KcTyped, FramesOf
      <3> QED BY <3>1, <3>2
   <2> QED BY <1>9, <2>1 DEF FramesOf
<1>11. Histories(Origin, Put(z, Len(frames) + 1, cnf'), frames', cnf')
   BY <1>1, <1>4, <1>7, <1>8, <1>9, HistoryOpens
<1>12. KcTyped'
   BY <1>2, <1>7, <1>10 DEF KcTyped
<1> QED BY <1>2, <1>4, <1>7, <1>11, <1>12 DEF svar

\* What a context that is closed leaves behind.
Closes(o, z, fr, gr, t, top) ==
    /\ Len(fr) \in Nat /\ Len(fr) > 0 /\ gr \in Seq(Frame) /\ Len(gr) = Len(fr) - 1
    /\ \A i \in 1 .. Len(gr) : gr[i] = fr[i]
    /\ t \in {z[Len(gr)], Calm(z[Len(gr)])}
    /\ Kept(o, z[Len(gr)]) /\ Kept(o, t)
    /\ Histories(o, Put(z, Len(gr), t), gr, t)
    /\ top.svar \in Variables
    /\ top.svar \notin t.unit_literals /\ -top.svar \notin t.unit_literals

LEMMA Closing ==
  ASSUME NEW o, NEW z, NEW fr, fr \in Seq(Frame), fr # << >>, NEW s, Histories(o, z, fr, s),
         NEW t, t = pop_context(s), NEW gr, gr = SubSeq(fr, 1, Len(fr) - 1),
         NEW top, top = fr[Len(fr)]
  PROVE  Closes(o, z, fr, gr, t, top)
<1>1. Len(fr) \in Nat /\ Len(fr) > 0 /\ Len(fr) \in 1 .. Len(fr) /\ Len(fr) - 1 \in 0 .. Len(fr)
   BY LenProperties
<1>2. gr \in Seq(Frame) /\ Len(gr) = Len(fr) - 1 /\ \A i \in 1 .. Len(fr) - 1 : gr[i] = fr[i]
   <2> DEFINE m == Len(fr) - 1
   <2>1. m \in Nat /\ m <= Len(fr)
      BY <1>1
   <2>2. SubSeq(fr, 1, m) \in Seq(Frame) /\ Len(SubSeq(fr, 1, m)) = m
         /\ \A i \in 1 .. m : SubSeq(fr, 1, m)[i] = fr[i]
      <3> HIDE DEF m
      <3> QED BY <2>1
   <2> QED BY <2>2
<1> DEFINE m == Len(fr) - 1
<1>3. t \in {z[m], Calm(z[m])} /\ Histories(o, Put(z, m, t), gr, t)
   <2>1. \A i \in 1 .. Len(fr) - 1 : gr[i].svar = fr[i].svar
      BY <1>2
   <2>2. Len(gr) = Len(fr) - 1 /\ Len(fr) \in Nat /\ Len(fr) > 0
      BY <1>1, <1>2
   <2> QED BY <2>1, <2>2, HistoryCloses
<1>4. Kept(o, z[m]) /\ Opened(o, z[m], s, top)
   BY <1>1 DEF Histories
<1>5. Kept(o, t)
   BY <1>1, <1>2, <1>3, TopObject
<1>6. t.unit_literals = z[m].unit_literals
   BY <1>3, <1>4, CalmFacts DEF Kept
<1> QED BY <1>1, <1>2, <1>3, <1>4, <1>5, <1>6 DEF Opened, Closes

LEMMA NegativeTyped ==
  ASSUME KcTyped, NEW z, Histories(Origin, z, frames, cnf), ReturnNegative, Fits(pog'),
         NEW t, t = pop_context(cnf), NEW n, n = Len(frames), NEW made, made = BranchEdge(pog, -Top.svar, edge)
  PROVE  /\ n \in Nat /\ n > 0
         /\ t \in {z[n - 1], Calm(z[n - 1])} /\ Kept(Origin, z[n - 1]) /\ Kept(Origin, t)
         /\ FrameOf(pog, Top) /\ Top.child = << >> /\ Top = frames[n]
         /\ GrownGraph(pog, made) /\ pog' = made.pog /\ roots' = roots
         /\ frames' = [frames EXCEPT ![n].child = << made.edge >>] /\ frames \in Seq(Frame)
         /\ Enters(t, cnf', Top.svar) /\ Top.svar \in Variables
         /\ Histories(Origin, Put(Put(z, n - 1, t), n, cnf'), frames', cnf')
         /\ KcTyped'
<1>1. /\ pc = "return" /\ frames # << >> /\ Top.child = << >>
      /\ pog' = made.pog
      /\ frames' = [frames EXCEPT ![n].child = << made.edge >>]
      /\ StartBranch(t, Top.svar)
      /\ UNCHANGED << edge, roots, trim >>
   BY DEF ReturnNegative
<1>2. frames \in Seq(Frame) /\ roots \in RootPairs /\ GraphOf(pog) /\ IsEdge(pog, edge) /\ edge \in Int
   BY <1>1 DEF KcTyped, FramesOf
<1> DEFINE gr == SubSeq(frames, 1, Len(frames) - 1)
           top == frames[Len(frames)]
<1>3. gr = SubSeq(frames, 1, Len(frames) - 1) /\ top = frames[Len(frames)] /\ top = Top
   BY DEF Top
<1> HIDE DEF gr, top
<1>4. /\ n \in Nat /\ n > 0 /\ gr \in Seq(Frame) /\ Len(gr) = n - 1
      /\ \A i \in 1 .. Len(gr) : gr[i] = frames[i]
      /\ t \in {z[Len(gr)], Calm(z[Len(gr)])}
      /\ Kept(Origin, z[Len(gr)]) /\ Kept(Origin, t)
      /\ Histories(Origin, Put(z, Len(gr), t), gr, t)
      /\ top.svar \in Variables
      /\ top.svar \notin t.unit_literals /\ -top.svar \notin t.unit_literals
   <2>1. Closes(Origin, z, frames, gr, t, top)
      BY <1>1, <1>2, <1>3, Closing
   <2>2. Len(gr) = n - 1
      BY <2>1 DEF Closes
   <2> QED BY <2>1, <2>2 DEF Closes
<1>5. FrameOf(pog, top)
   <2>1. n \in 1 .. n
      BY <1>4
   <2> QED BY <1>3, <2>1 DEF KcTyped, FramesOf
<1>6. IsEdge(pog, top.svar) /\ IsEdge(pog, -top.svar)
   BY <1>2, <1>5, Negation DEF FrameOf, GraphOf, Negates
<1>7. GrownGraph(pog, made)
   BY <1>1, <1>2, <1>3, <1>6, BranchGrows
<1>8. top.svar \in Literal
   BY <1>4, VariableFacts
<1>9. /\ Kept(Origin, cnf') /\ Enters(t, cnf', top.svar)
      /\ clause_queue' \in Seq(ClauseId) /\ BveTyped(bve') /\ pc' = "bcp"
   BY <1>1, <1>3, <1>4, <1>8, StartTyped
<1>10. /\ frames' \in Seq(Frame) /\ Len(frames') = n /\ DOMAIN frames' = 1 .. n
       /\ \A i \in 1 .. n - 1 : frames'[i] = frames[i]
       /\ frames'[n].svar = top.svar /\ frames'[n].child = << made.edge >> /\ frames'[n] \in Frame
   <2> DEFINE e == made.edge
              x == [top EXCEPT !.child = << e >>]
   <2>1. e \in Int
      BY <1>7 DEF GrownGraph
   <2>2. top \in Frame
      BY <1>5 DEF FrameOf
   <2> HIDE DEF e
   <2>3. x \in Frame /\ x.svar = top.svar /\ x.child = << e >>
      <3>1. << e >> \in Seq(Int)
         BY <2>1
      <3> QED BY <2>2, <3>1 DEF Frame
   <2>4. frames' = [frames EXCEPT ![n] = x]
      BY <1>1, <1>3 DEF e
   <2> HIDE DEF x
   <2>5. frames' \in Seq(Frame) /\ Len(frames') = n /\ DOMAIN frames' = 1 .. n
         /\ (\A i \in 1 .. n - 1 : frames'[i] = frames[i]) /\ frames'[n] = x
      BY <1>2, <1>4, <2>3, <2>4
   <2> QED BY <2>3, <2>5 DEF e
<1>11. FramesOf(made.pog, frames')
   <2>1. FramesOf(made.pog, frames) /\ IsEdge(made.pog, made.edge) /\ made.edge \in Int
      BY <1>2, <1>7, FramesGrow DEF GrownGraph, KcTyped
   <2>2. ASSUME NEW i \in 1 .. Len(frames')
         PROVE  FrameOf(made.pog, frames'[i])
      <3>1. CASE i = n
         <4>1. IsEdge(made.pog, top.svar)
            <5>1. n \in 1 .. n
               BY <1>4
            <5> QED BY <1>3, <2>1, <5>1 DEF FramesOf, FrameOf
         <4> QED BY <1>10, <2>1, <3>1, <4>1 DEF FrameOf
      <3>2. CASE i # n
         <4>1. i \in 1 .. n - 1 /\ i \in 1 .. n
            BY <1>4, <1>10, <3>2
         <4> QED BY <1>10, <2>1, <4>1 DEF FramesOf
      <3> QED BY <3>1, <3>2
   <2> QED BY <1>10, <2>2 DEF FramesOf
<1>12. Histories(Origin, Put(Put(z, n - 1, t), n, cnf'), frames', cnf')
   <2> DEFINE y == Put(z, Len(gr), t)
              m == Len(gr)
   <2>1. Histories(Origin, y, gr, t) /\ m \in Nat /\ Len(frames') = m + 1 /\ n = m + 1
      BY <1>4, <1>10
   <2>2. \A i \in 1 .. m : frames'[i].svar = gr[i].svar
      BY <1>4, <1>10
   <2>3. frames'[m + 1].svar = top.svar
      BY <1>10, <2>1
   <2> HIDE DEF y
   <2>4. Histories(Origin, Put(y, m + 1, cnf'), frames', cnf')
      BY <1>4, <1>9, <2>1, <2>2, <2>3, HistoryOpens
   <2>5. y = Put(z, n - 1, t)
      BY <1>4 DEF y
   <2> QED BY <2>1, <2>4, <2>5
<1>13. KcTyped'
   BY <1>1, <1>2, <1>7, <1>9, <1>11 DEF KcTyped, GrownGraph
<1> QED BY <1>1, <1>2, <1>3, <1>4, <1>5, <1>7, <1>9, <1>12, <1>13

LEMMA AppendOne == \A a, b : Append(<< a >>, b) = << a, b >>
<1> SUFFICES ASSUME NEW a, NEW b
             PROVE  Append(<< a >>, b) = << a, b >>
   OBVIOUS
<1> DEFINE S == {a, b}
<1>1. << a >> \in Seq(S) /\ << a, b >> \in Seq(S) /\ b \in S
   OBVIOUS
<1>2. Len(<< a >>) = 1 /\ << a >>[1] = a /\ Len(<< a, b >>) = 2 /\ << a, b >>[1] = a /\ << a, b >>[2] = b
   OBVIOUS
<1> DEFINE x == << a >>
           y == << a, b >>
<1>3. /\ x \in Seq(S) /\ y \in Seq(S) /\ b \in S
      /\ Len(x) = 1 /\ x[1] = a /\ Len(y) = 2 /\ y[1] = a /\ y[2] = b
   BY <1>1, <1>2
<1> HIDE DEF S, x, y
<1>4. Append(x, b) \in Seq(S) /\ Len(Append(x, b)) = Len(x) + 1
   BY <1>3, AppendProperties
<1>5. Append(x, b)[1] = x[1] /\ Append(x, b)[Len(x) + 1] = b
   <2>1. 1 \in 1 .. Len(x)
      BY <1>3
   <2> QED BY <1>3, <2>1, AppendProperties
<1>6. Len(x) + 1 = 2
   BY <1>3
<1>7. \A i \in 1 .. 2 : i = 1 \/ i = 2
   OBVIOUS
<1>8. Append(x, b) = y
   <2>1. \A i \in 1 .. Len(y) : Append(x, b)[i] = y[i]
      BY <1>3, <1>5, <1>6, <1>7
   <2>2. Len(Append(x, b)) = Len(y)
      BY <1>3, <1>4, <1>6
   <2> QED BY <1>3, <1>4, <2>1, <2>2, SeqEqual
<1> QED BY <1>8 DEF x, y

LEMMA PositiveTyped ==
  ASSUME KcTyped, NEW z, Histories(Origin, z, frames, cnf), ReturnPositive, Fits(pog'),
         NEW n, n = Len(frames), NEW made, made = BranchEdge(pog, Top.svar, edge),
         NEW c, c = Top.child[1], NEW sum, sum = MakeNode(made.pog, "SUM", << c, made.edge >>)
  PROVE  /\ n \in Nat /\ n > 0
         /\ cnf' \in {z[n - 1], Calm(z[n - 1])} /\ Kept(Origin, z[n - 1]) /\ Kept(Origin, cnf')
         /\ FrameOf(pog, Top) /\ Top.child = << c >> /\ IsEdge(pog, c) /\ Top = frames[n]
         /\ GrownGraph(pog, made) /\ GrownGraph(made.pog, sum) /\ GrownGraph(pog, sum)
         /\ Edges(made.pog, << c, made.edge >>)
         /\ pog' = sum.pog /\ edge' = sum.edge /\ roots' = roots /\ pc' = "return"
         /\ frames' = SubSeq(frames, 1, n - 1) /\ frames \in Seq(Frame) /\ Len(frames') = n - 1
         /\ \A i \in 1 .. n - 1 : frames'[i] = frames[i]
         /\ Histories(Origin, Put(z, n - 1, cnf'), frames', cnf')
         /\ KcTyped'
<1>1. /\ pc = "return" /\ frames # << >> /\ Top.child # << >>
      /\ LET s == MakeNode(made.pog, "SUM", Append(Top.child, made.edge))
         IN  pog' = s.pog /\ edge' = s.edge
      /\ cnf' = pop_context(cnf)
      /\ frames' = SubSeq(frames, 1, Len(frames) - 1)
      /\ UNCHANGED << clause_queue, bve, pc, roots, trim >>
   BY DEF ReturnPositive
<1>2. frames \in Seq(Frame) /\ roots \in RootPairs /\ GraphOf(pog) /\ IsEdge(pog, edge) /\ edge \in Int
   BY <1>1 DEF KcTyped, FramesOf
<1> DEFINE top == frames[Len(frames)]
<1>3. top = frames[Len(frames)] /\ top = Top
   BY DEF Top
<1> HIDE DEF top
<1>4. /\ n \in Nat /\ n > 0 /\ frames' \in Seq(Frame) /\ Len(frames') = n - 1
      /\ \A i \in 1 .. Len(frames') : frames'[i] = frames[i]
      /\ cnf' \in {z[Len(frames')], Calm(z[Len(frames')])}
      /\ Kept(Origin, z[Len(frames')]) /\ Kept(Origin, cnf')
      /\ Histories(Origin, Put(z, Len(frames'), cnf'), frames', cnf')
      /\ top.svar \in Variables
   <2> DEFINE gr == frames'
              t == cnf'
   <2>1. gr = SubSeq(frames, 1, Len(frames) - 1) /\ t = pop_context(cnf) /\ frames # << >>
      BY <1>1
   <2> HIDE DEF gr, t
   <2>2. Closes(Origin, z, frames, gr, t, top)
      BY <1>2, <1>3, <2>1, Closing
   <2>3. Len(gr) = n - 1
      BY <2>2 DEF Closes
   <2> QED BY <2>2, <2>3 DEF Closes, gr, t
<1>5. FrameOf(pog, top)
   <2>1. n \in 1 .. n
      BY <1>4
   <2> QED BY <1>3, <2>1 DEF KcTyped, FramesOf
<1>6. Top.child = << c >> /\ IsEdge(pog, c) /\ c \in Int
   <2>1. PICK e \in Int : top.child = << e >> /\ IsEdge(pog, e)
      BY <1>1, <1>3, <1>5 DEF FrameOf
   <2>2. c = e
      BY <1>3, <2>1
   <2> QED BY <1>3, <2>1, <2>2
<1>7. Append(Top.child, made.edge) = << c, made.edge >>
   <2> DEFINE e == made.edge
   <2>1. Append(<< c >>, e) = << c, e >>
      BY AppendOne
   <2> QED BY <1>6, <2>1
<1>8. pog' = sum.pog /\ edge' = sum.edge
   BY <1>1, <1>7
<1>9. IsEdge(pog, Top.svar)
   BY <1>3, <1>5 DEF FrameOf
<1>10. GrownGraph(pog, made) /\ GrownGraph(made.pog, sum) /\ GrownGraph(pog, sum) /\ Edges(made.pog, << c, made.edge >>)
   BY <1>2, <1>6, <1>8, <1>9, SumGrows
<1>11. FramesOf(sum.pog, frames')
   <2>1. FramesOf(sum.pog, frames)
      BY <1>2, <1>10, FramesGrow DEF GrownGraph, KcTyped
   <2>2. \A i \in 1 .. Len(frames') : i \in 1 .. n
      BY <1>4
   <2> QED BY <1>4, <2>1, <2>2 DEF FramesOf
<1>12. KcTyped'
   BY <1>1, <1>2, <1>8, <1>10, <1>11 DEF KcTyped, GrownGraph
<1> QED BY <1>1, <1>2, <1>3, <1>4, <1>5, <1>6, <1>8, <1>10, <1>12

-----------------------------------------------------------------------------
(* The theorems *)

\* The invariant holds in the beginning, and every step keeps it.
LEMMA KcInit == Init => KcInv
BY InitTyped DEF KcInv

LEMMA KcStep ==
  ASSUME KcInv, [Next]_vars, Fits(pog')
  PROVE  KcInv'
<1>1. KcTyped
   BY DEF KcInv
<1>2. PICK z : Histories(Origin, z, frames, cnf)
   BY DEF KcInv
<1>3. roots' = roots => Origin' = Origin
   BY DEF Origin
<1>4. CASE Bcp \/ Bve
   <2>1. roots' = roots /\ frames' = frames
      BY <1>4 DEF Bcp, Bve, kcUnchanged
   <2>2. KcTyped' /\ Histories(Origin, Put(z, Len(frames), cnf'), frames, cnf')
      BY <1>1, <1>2, <1>4, ReduceTyped
   <2> QED BY <1>3, <2>1, <2>2 DEF KcInv
<1>5. CASE TestUnsat \/ TestSat \/ FinishBcp \/ FinishBve \/ UNCHANGED vars
   <2>1. KcTyped' /\ cnf' = cnf /\ frames' = frames /\ roots' = roots
      BY <1>1, <1>2, <1>5, TestTyped
   <2> QED BY <1>2, <1>3, <2>1 DEF KcInv
<1>6. CASE CheckSimple
   <2>1. KcTyped' /\ cnf' = cnf /\ frames' = frames /\ roots' = roots
      BY <1>1, <1>2, <1>6, SimpleTyped
   <2> QED BY <1>2, <1>3, <2>1 DEF KcInv
<1>7. CASE CheckSplit
   <2>1. /\ KcTyped' /\ Histories(Origin, Put(z, Len(frames) + 1, cnf'), frames', cnf')
         /\ roots' = roots
      BY <1>1, <1>2, <1>7, SplitTyped
   <2> QED BY <1>3, <2>1 DEF KcInv
<1>8. CASE ReturnNegative
   <2>1. /\ KcTyped' /\ roots' = roots
         /\ Histories(Origin, Put(Put(z, Len(frames) - 1, pop_context(cnf)), Len(frames), cnf'), frames', cnf')
      BY <1>1, <1>2, <1>8, NegativeTyped
   <2> QED BY <1>3, <2>1 DEF KcInv
<1>9. CASE ReturnPositive
   <2>1. /\ KcTyped' /\ roots' = roots
         /\ Histories(Origin, Put(z, Len(frames) - 1, cnf'), frames', cnf')
      BY <1>1, <1>2, <1>9, PositiveTyped
   <2> QED BY <1>3, <2>1 DEF KcInv
<1> QED BY <1>4, <1>5, <1>6, <1>7, <1>8, <1>9 DEF Next, Done

LEMMA KcInvariant == Spec /\ []Fits(pog) => []KcInv
<1>1. KcInv /\ [Next]_vars /\ Fits(pog)' => KcInv'
   <2>1. ASSUME KcInv, [Next]_vars, Fits(pog')
         PROVE  KcInv'
      BY <2>1, KcStep
   <2>2. Fits(pog)' => Fits(pog')
      BY DEF Fits
   <2> QED BY <2>1, <2>2
<1> QED BY <1>1, KcInit, PTL DEF Spec

\* While the graph has room, values keep their types.
THEOREM TypeCorrect == Spec /\ []Fits(pog) => []TypeOK
<1>1. KcInv => TypeOK
   <2> SUFFICES ASSUME KcInv
                PROVE  TypeOK
      OBVIOUS
   <2>1. KcTyped
      BY DEF KcInv
   <2>2. PICK z : Histories(Origin, z, frames, cnf)
      BY DEF KcInv
   <2>3. cnf \in CnfType
      BY <2>1, <2>2, FramesLength, TopObject DEF KcTyped, Kept
   <2>4. pog.nodes \in Seq(Node)
      BY <2>1, Sizes DEF KcTyped, GraphOf
   <2>5. bve \in [maxdegree : Nat, degree_variables : [0 .. bve.maxdegree -> SUBSET Variables],
                  eliminated_variables : SUBSET Variables]
      <3>1. bve.maxdegree = 0 /\ 0 .. bve.maxdegree = {0}
         BY <2>1 DEF KcTyped, BveTyped
      <3> QED BY <2>1, <3>1 DEF KcTyped, BveTyped
   <2> QED BY <2>1, <2>3, <2>4, <2>5 DEF KcTyped, TypeOK, ReduceTypeOK, FramesOf
<1> QED BY <1>1, KcInvariant, PTL

\* Contexts are opened and closed in step with the recursion.
THEOREM ContextsBalanced == Spec /\ []Fits(pog) => []ContextPerFrame
<1>1. KcInv => ContextPerFrame
   <2> SUFFICES ASSUME KcInv
                PROVE  ContextPerFrame
      OBVIOUS
   <2>1. PICK z : Histories(Origin, z, frames, cnf)
      BY DEF KcInv
   <2>2. Len(frames) \in Nat /\ z[Len(frames)] = cnf
      BY <2>1, FramesLength, TopObject DEF KcTyped, KcInv
   <2>3. Cardinality(Starts(cnf)) = Len(frames) + 1 /\ cnf \in CnfType
      BY <2>1, <2>2 DEF Histories, Kept
   <2>4. DOMAIN cnf.action_stack = 1 .. Len(cnf.action_stack)
      BY <2>3, StackFacts
   <2>5. Starts(cnf) = { i \in DOMAIN cnf.action_stack : cnf.action_stack[i].action = "START_CONTEXT" }
      BY <2>4 DEF Starts
   <2> QED BY <2>2, <2>3, <2>5 DEF ContextPerFrame
<1> QED BY <1>1, KcInvariant, PTL

\* The graph that builtin_kc extends stays in normal form.
THEOREM StaysInNormalForm == Spec /\ []Fits(pog) => []StaysCanonical
<1>1. KcInv => StaysCanonical
   BY DEF KcInv, KcTyped, GraphOf, StaysCanonical
<1> QED BY <1>1, KcInvariant, PTL

-----------------------------------------------------------------------------
(* What the clauses of clausify say *)

\* An assignment of the inputs makes some nodes true; their variables are added.
Extension(p, r, a) ==
    a \cup { NodeRemap(p, ToSet(r))[id] : id \in { x \in Reachable(p, ToSet(r)) : a \in Meaning(p, x) } }

\* The variables of the nodes.
Numbered(p, r) == { NodeRemap(p, ToSet(r))[id] : id \in Reachable(p, ToSet(r)) }

\* The common models of the two edges.
Common(p, r) == Meaning(p, r[1]) \cap Meaning(p, r[2])

\* In b every edge of the subgraph has the value it has in a.
Reads(p, r, b, a) ==
    \A e : Inside(p, r, e) => (Holds(b, Remapped(NodeRemap(p, ToSet(r)), e)) <=> a \in Meaning(p, e))

Fulfils(b, contents) == \A lits \in contents : HoldsClause(b, lits)

\* An edge that is a node, or its negation.
LEMMA NodeEdge ==
  ASSUME NEW p, NEW r, Compilable(p, r), NEW e, Inside(p, r, e), is_node(e),
         NEW remap, remap = NodeRemap(p, ToSet(r)), NEW id, id = IABS(e), NEW w, w = remap[id]
  PROVE  /\ id \in Reachable(p, ToSet(r)) /\ id \in NodeIds(p) /\ IsEdge(p, id) /\ Inside(p, r, id)
         /\ w \in Variables /\ w > NInput /\ w \in Literal /\ Remapped(remap, id) = w
         /\ Meaning(p, id) \in SUBSET Assignments
         /\ \/ e = id /\ Remapped(remap, e) = w
            \/ e = -id /\ Remapped(remap, e) = -w /\ Meaning(p, e) = Assignments \ Meaning(p, id)
<1>1. id \in Reachable(p, ToSet(r)) /\ WellFormed(p) /\ ProperRoots(p, ToSet(r)) /\ IsEdge(p, e)
   BY DEF Inside, Compilable
<1>2. id \in NodeIds(p) /\ Inside(p, r, id) /\ is_node(id) /\ IABS(id) = id /\ IsEdge(p, id)
   BY <1>1, ArgumentsInside, ReachableFacts DEF Inside
<1>3. w \in Variables /\ w > NInput
   BY <1>1, <1>2, RemappedFacts
<1>4. w \in Literal
   BY <1>3, VariableFacts
<1>5. Negates(p, id)
   BY <1>1, <1>2, Negation
<1>6. e \in Int /\ id \in Int /\ id > 0
   BY <1>1, <1>2, Sizes DEF IsEdge, NodeIds
<1>7. e = id \/ e = -id
   BY <1>6 DEF IABS
<1>8. Remapped(remap, id) = w
   BY <1>2, <1>6 DEF Remapped
<1>9. Remapped(remap, -id) = -w
   BY <1>2, <1>8, RemappedFacts
<1> QED BY <1>1, <1>2, <1>3, <1>4, <1>5, <1>7, <1>8, <1>9 DEF Negates

\* An edge that is a literal.
LEMMA InputEdge ==
  ASSUME NEW p, NEW r, Compilable(p, r), NEW e, Inside(p, r, e), ~is_node(e)
  PROVE  /\ IABS(e) \in InputVariables /\ e \in Literal
         /\ Remapped(NodeRemap(p, ToSet(r)), e) = e
         /\ Meaning(p, e) = { a \in Assignments : Holds(a, e) }
<1>1. WellFormed(p) /\ IsEdge(p, e) /\ IABS(e) # TAUTOLOGY
   BY DEF Inside, Compilable
<1>2. e \in Literal /\ Remapped(NodeRemap(p, ToSet(r)), e) = e
   BY RemappedFacts
<1> QED BY <1>1, <1>2, LiteralMeaning

\* The number of a node tells whether it is true.
LEMMA ExtensionNodes ==
  ASSUME NEW p, NEW r, Compilable(p, r), NEW a \in Assignments
  PROVE  /\ \A id \in Reachable(p, ToSet(r)) :
               NodeRemap(p, ToSet(r))[id] \in Extension(p, r, a) <=> a \in Meaning(p, id)
         /\ \A v \in InputVariables : v \in Extension(p, r, a) <=> v \in a
         /\ Extension(p, r, a) \in SUBSET Variables
         /\ Extension(p, r, a) \cap InputVariables = a
<1> DEFINE remap == NodeRemap(p, ToSet(r))
           R == Reachable(p, ToSet(r))
           T == { x \in R : a \in Meaning(p, x) }
           N == { remap[id] : id \in T }
<1>1. \A x, y \in R : remap[x] = remap[y] => x = y
   BY RemapFacts DEF Compilable
<1>2. \A id \in R : remap[id] \in Variables /\ remap[id] > NInput
   <2>1. \A id \in R : Inside(p, r, id) /\ is_node(id) /\ IABS(id) = id
      BY ArgumentsInside
   <2> QED BY <2>1, RemappedFacts
<1>3. InputVariables \subseteq Variables /\ \A v \in InputVariables : ~(v > NInput)
   BY LastNumberFacts DEF InputVariables, Variables
<1>4. Extension(p, r, a) = a \cup N
   BY DEF Extension
<1> HIDE DEF remap, R
<1>5. a \subseteq InputVariables
   BY DEF Assignments
<1>6. \A v \in N : v \in Variables /\ v \notin InputVariables
   BY <1>2, <1>3
<1>7. \A id \in R : remap[id] \in N <=> a \in Meaning(p, id)
   BY <1>1
<1>8. \A id \in R : remap[id] \notin a
   BY <1>2, <1>3, <1>5
<1> HIDE DEF N
<1>9. \A id \in R : remap[id] \in Extension(p, r, a) <=> a \in Meaning(p, id)
   BY <1>4, <1>7, <1>8
<1>10. \A v \in InputVariables : v \in Extension(p, r, a) <=> v \in a
   BY <1>4, <1>6
<1> QED BY <1>3, <1>4, <1>5, <1>6, <1>9, <1>10 DEF remap, R

LEMMA ExtensionReads ==
  ASSUME NEW p, NEW r, Compilable(p, r), NEW a \in Assignments
  PROVE  Reads(p, r, Extension(p, r, a), a)
<1> DEFINE b == Extension(p, r, a)
           remap == NodeRemap(p, ToSet(r))
<1>1. /\ \A id \in Reachable(p, ToSet(r)) : remap[id] \in b <=> a \in Meaning(p, id)
      /\ \A v \in InputVariables : v \in b <=> v \in a
   BY ExtensionNodes
<1>2. remap = NodeRemap(p, ToSet(r))
   OBVIOUS
<1> HIDE DEF b, remap
<1>3. ASSUME NEW e, Inside(p, r, e)
      PROVE  Holds(b, Remapped(remap, e)) <=> a \in Meaning(p, e)
   <2>1. CASE is_node(e)
      <3> DEFINE id == IABS(e)
                 w == remap[id]
      <3>1. /\ id \in Reachable(p, ToSet(r)) /\ w \in Variables /\ w \in Literal
            /\ \/ e = id /\ Remapped(remap, e) = w
               \/ e = -id /\ Remapped(remap, e) = -w /\ Meaning(p, e) = Assignments \ Meaning(p, id)
         BY <1>2, <1>3, <2>1, NodeEdge
      <3>2. w \in b <=> a \in Meaning(p, id)
         BY <1>1, <3>1
      <3> HIDE DEF id, w
      <3>3. Holds(b, w) <=> w \in b
         BY <3>1 DEF Holds, Variables
      <3>4. Holds(b, -w) <=> ~Holds(b, w)
         BY <3>1, HoldsNegation
      <3> QED BY <3>1, <3>2, <3>3, <3>4
   <2>2. CASE ~is_node(e)
      <3>1. /\ IABS(e) \in InputVariables /\ e \in Literal /\ Remapped(remap, e) = e
            /\ Meaning(p, e) = { x \in Assignments : Holds(x, e) }
         BY <1>2, <1>3, <2>2, InputEdge
      <3>2. Holds(b, e) <=> Holds(a, e)
         BY <1>1, <3>1, HoldsAgree
      <3> QED BY <3>1, <3>2
   <2> QED BY <2>1, <2>2
<1> QED BY <1>3 DEF Reads, b, remap

\* The clauses of a node say that its variable has the value of the node.
LEMMA NodeClauses ==
  ASSUME NEW p, NEW r, Compilable(p, r), NEW id \in Reachable(p, ToSet(r)),
         NEW remap, remap = NodeRemap(p, ToSet(r)), NEW node, node = NodeOf(p, id), NEW b
  PROVE  Fulfils(b, NodeContents(p, remap, id)) <=>
           (Holds(b, remap[id]) <=>
              IF node.type = "SUM" THEN \E e \in ToSet(node.args) : Holds(b, Remapped(remap, e))
              ELSE \A e \in ToSet(node.args) : Holds(b, Remapped(remap, e)))
<1> DEFINE w == remap[id]
           A == ToSet(node.args)
           m(e) == Remapped(remap, e)
<1>1. w \in Literal /\ -w \in Literal /\ -(-w) = w
   <2>1. Inside(p, r, id) /\ is_node(id) /\ IABS(id) = id
      BY ArgumentsInside
   <2>2. w \in Variables
      BY <2>1, RemappedFacts
   <2> QED BY <2>2, VariableFacts
<1>2. \A e \in A : m(e) \in Literal
   BY ArgumentsInside, RemappedFacts
<1>3. \A e \in A : -m(e) \in Literal /\ -(-m(e)) = m(e)
   BY <1>2, LiteralFacts
<1>4. /\ NodeContents(p, remap, id) = {LongClause(p, remap, id)} \cup { ShortClause(p, remap, id, e) : e \in A }
      /\ LongClause(p, remap, id) = {-Signed(node, w)} \cup { Signed(node, m(e)) : e \in A }
      /\ \A e \in A : ShortClause(p, remap, id, e) = {Signed(node, w), -Signed(node, m(e))}
   BY DEF NodeContents, LongClause, ShortClause
<1>5. Holds(b, -w) <=> ~Holds(b, w)
   BY <1>1, HoldsNegation
<1>6. \A e \in A : Holds(b, -m(e)) <=> ~Holds(b, m(e))
   BY <1>2, HoldsNegation
<1> HIDE DEF w, A, m
<1>7. Fulfils(b, NodeContents(p, remap, id)) <=>
        /\ Holds(b, -Signed(node, w)) \/ \E e \in A : Holds(b, Signed(node, m(e)))
        /\ \A e \in A : Holds(b, Signed(node, w)) \/ Holds(b, -Signed(node, m(e)))
   <2>1. HoldsClause(b, LongClause(p, remap, id)) <=>
           Holds(b, -Signed(node, w)) \/ \E e \in A : Holds(b, Signed(node, m(e)))
      BY <1>4 DEF HoldsClause
   <2>2. \A e \in A : HoldsClause(b, ShortClause(p, remap, id, e)) <=>
                        Holds(b, Signed(node, w)) \/ Holds(b, -Signed(node, m(e)))
      BY <1>4 DEF HoldsClause
   <2> QED BY <1>4, <2>1, <2>2 DEF Fulfils
<1>8. CASE node.type = "SUM"
   <2>1. Signed(node, w) = w /\ \A e \in A : Signed(node, m(e)) = m(e)
      BY <1>8 DEF Signed
   <2> QED BY <1>5, <1>6, <1>7, <1>8, <2>1 DEF w, A, m
<1>9. CASE node.type # "SUM"
   <2>1. Signed(node, w) = -w /\ \A e \in A : Signed(node, m(e)) = -m(e)
      BY <1>9 DEF Signed
   <2> QED BY <1>1, <1>3, <1>5, <1>6, <1>7, <1>9, <2>1 DEF w, A, m
<1> QED BY <1>8, <1>9

\* What a node means, read in the clauses.
Joins(p, r, b, node) ==
    LET remap == NodeRemap(p, ToSet(r))
    IN  IF node.type = "SUM" THEN \E e \in ToSet(node.args) : Holds(b, Remapped(remap, e))
        ELSE \A e \in ToSet(node.args) : Holds(b, Remapped(remap, e))

LEMMA NodeJoins ==
  ASSUME NEW p, NEW r, Compilable(p, r), NEW id \in Reachable(p, ToSet(r)), NEW a \in Assignments, NEW b,
         \A e \in ToSet(NodeOf(p, id).args) :
             Holds(b, Remapped(NodeRemap(p, ToSet(r)), e)) <=> a \in Meaning(p, e)
  PROVE  Joins(p, r, b, NodeOf(p, id)) <=> a \in Meaning(p, id)
<1> DEFINE node == NodeOf(p, id)
<1>1. IsNode(p, id, node) /\ id \in NodeIds(p) /\ WellFormed(p)
   BY ArgumentsInside DEF Compilable
<1>2. id > 0
   BY <1>1, Sizes DEF NodeIds
<1>3. Meaning(p, id) = Joined(p, node.type, ToSet(node.args))
   BY <1>1, <1>2 DEF IsNode
<1> QED BY <1>3 DEF Joins, Joined

\* The extension of an assignment fulfils the clauses of the nodes, and those
\* of the roots if it is a model of both.
LEMMA ExtensionFulfils ==
  ASSUME NEW p, NEW r, Compilable(p, r), NEW a \in Assignments
  PROVE  Fulfils(Extension(p, r, a), AllContents(p, r)) <=> a \in Common(p, r)
<1> DEFINE b == Extension(p, r, a)
           remap == NodeRemap(p, ToSet(r))
<1>1. Reads(p, r, b, a) /\ remap = NodeRemap(p, ToSet(r))
   BY ExtensionReads
<1> HIDE DEF b, remap
<1>2. ASSUME NEW id \in Reachable(p, ToSet(r))
      PROVE  Fulfils(b, NodeContents(p, remap, id))
   <2>1. Inside(p, r, id) /\ \A e \in ToSet(NodeOf(p, id).args) : Inside(p, r, e)
      BY ArgumentsInside
   <2>2. Joins(p, r, b, NodeOf(p, id)) <=> a \in Meaning(p, id)
      BY <1>1, <2>1, NodeJoins DEF Reads
   <2>3. Holds(b, remap[id]) <=> a \in Meaning(p, id)
      <3>1. Remapped(remap, id) = remap[id]
         BY <1>1, <2>1, ArgumentsInside, NodeEdge
      <3> QED BY <1>1, <2>1, <3>1 DEF Reads
   <2> QED BY <1>1, <2>2, <2>3, NodeClauses DEF Joins
<1>3. \A e \in ToSet(r) : HoldsClause(b, {Remapped(remap, e)}) <=> a \in Meaning(p, e)
   <2>1. \A e \in ToSet(r) : Inside(p, r, e)
      BY SubgraphEdges DEF Edge
   <2> QED BY <1>1, <2>1 DEF Reads, HoldsClause
<1>4. AllContents(p, r) = (UNION { NodeContents(p, remap, id) : id \in Reachable(p, ToSet(r)) })
                            \cup { {Remapped(remap, e)} : e \in ToSet(r) }
   BY <1>1 DEF AllContents
<1>5. Fulfils(b, AllContents(p, r)) <=> \A e \in ToSet(r) : a \in Meaning(p, e)
   BY <1>2, <1>3, <1>4 DEF Fulfils
<1>6. ToSet(r) = {r[1], r[2]}
   BY RootPair DEF Compilable
<1> QED BY <1>5, <1>6 DEF Common, b

\* And nothing else does: the inputs determine the variables of the nodes.
LEMMA FulfilledReads ==
  ASSUME NEW p, NEW r, Compilable(p, r), NEW b \in SUBSET Variables, Fulfils(b, AllContents(p, r)),
         NEW a, a = b \cap InputVariables
  PROVE  a \in Assignments /\ Reads(p, r, b, a)
<1> DEFINE remap == NodeRemap(p, ToSet(r))
           m == NInput + Len(p.nodes)
           G == { k \in 1 .. m : k \in Reachable(p, ToSet(r)) => (Holds(b, remap[k]) <=> a \in Meaning(p, k)) }
<1>1. a \in Assignments
   BY DEF Assignments
<1>2. WellFormed(p) /\ ProperRoots(p, ToSet(r)) /\ NInput \in Nat /\ m \in Nat /\ Len(p.nodes) \in Nat
   BY Sizes DEF Compilable
<1>3. Reachable(p, ToSet(r)) \subseteq NodeIds(p) /\ NodeIds(p) \subseteq 1 .. m
   BY <1>2, ReachableFacts DEF NodeIds
<1>4. remap = NodeRemap(p, ToSet(r))
   OBVIOUS
<1> HIDE DEF remap
\* An edge whose node, if it is one, is right.
<1>5. ASSUME NEW e, Inside(p, r, e), is_node(e) => IABS(e) \in G
      PROVE  Holds(b, Remapped(remap, e)) <=> a \in Meaning(p, e)
   <2>1. CASE is_node(e)
      <3> DEFINE id == IABS(e)
                 w == remap[id]
      <3>1. /\ id \in Reachable(p, ToSet(r)) /\ w \in Variables /\ w \in Literal
            /\ \/ e = id /\ Remapped(remap, e) = w
               \/ e = -id /\ Remapped(remap, e) = -w /\ Meaning(p, e) = Assignments \ Meaning(p, id)
         BY <1>4, <1>5, <2>1, NodeEdge
      <3>2. Holds(b, w) <=> a \in Meaning(p, id)
         BY <1>5, <2>1, <3>1
      <3> HIDE DEF id, w
      <3>3. Holds(b, -w) <=> ~Holds(b, w)
         BY <3>1, HoldsNegation
      <3> QED BY <1>1, <3>1, <3>2, <3>3
   <2>2. CASE ~is_node(e)
      <3>1. /\ IABS(e) \in InputVariables /\ e \in Literal /\ Remapped(remap, e) = e
            /\ Meaning(p, e) = { x \in Assignments : Holds(x, e) }
         BY <1>4, <1>5, <2>2, InputEdge
      <3>2. Holds(b, e) <=> Holds(a, e)
         BY <3>1, HoldsAgree
      <3> QED BY <1>1, <3>1, <3>2
   <2> QED BY <2>1, <2>2
<1>6. ASSUME NEW k \in 1 .. m, \A j \in 1 .. k - 1 : j \in G
      PROVE  k \in G
   <2>1. ASSUME k \in Reachable(p, ToSet(r))
         PROVE  Holds(b, remap[k]) <=> a \in Meaning(p, k)
      <3> DEFINE node == NodeOf(p, k)
      <3>1. /\ IsNode(p, k, node) /\ is_node(k) /\ IABS(k) = k
            /\ \A e \in ToSet(node.args) : Inside(p, r, e)
         BY <2>1, ArgumentsInside
      <3> HIDE DEF G
      <3>2. ASSUME NEW e \in ToSet(node.args)
            PROVE  Holds(b, Remapped(remap, e)) <=> a \in Meaning(p, e)
         <4>1. IABS(e) \in 1 .. k - 1
            BY <3>1 DEF IsNode
         <4> QED BY <1>5, <1>6, <3>1, <4>1
      <3>3. Joins(p, r, b, node) <=> a \in Meaning(p, k)
         BY <1>1, <1>4, <2>1, <3>2, NodeJoins
      <3>4. Fulfils(b, NodeContents(p, remap, k))
         BY <1>4, <2>1 DEF Fulfils, AllContents
      <3> QED BY <1>4, <2>1, <3>3, <3>4, NodeClauses DEF Joins
   <2> QED BY <2>1
<1> HIDE DEF G
<1>7. 1 .. m \subseteq G
   <2> HIDE DEF m
   <2> QED BY <1>2, <1>6, StrongInduction
<1>8. \A e : Inside(p, r, e) /\ is_node(e) => IABS(e) \in G
   BY <1>3, <1>7 DEF Inside
<1> QED BY <1>1, <1>5, <1>8 DEF Reads, remap

LEMMA FulfilledFacts ==
  ASSUME NEW p, NEW r, Compilable(p, r), NEW b \in SUBSET Variables, Fulfils(b, AllContents(p, r)),
         NEW a, a = b \cap InputVariables
  PROVE  a \in Common(p, r) /\ Reads(p, r, b, a)
<1>1. a \in Assignments /\ Reads(p, r, b, a)
   BY FulfilledReads
<1>2. ASSUME NEW e \in ToSet(r)
      PROVE  a \in Meaning(p, e)
   <2>1. Inside(p, r, e)
      BY SubgraphEdges DEF Edge
   <2>2. HoldsClause(b, {Remapped(NodeRemap(p, ToSet(r)), e)})
      BY DEF Fulfils, AllContents
   <2> QED BY <1>1, <2>1, <2>2 DEF Reads, HoldsClause
<1>3. ToSet(r) = {r[1], r[2]}
   BY RootPair DEF Compilable
<1> QED BY <1>1, <1>2, <1>3 DEF Common

\* The edge a literal stands for.
LEMMA LiteralEdge ==
  ASSUME NEW p, NEW r, Compilable(p, r), NEW lit \in Literal, IABS(lit) \in InputVariables \cup Numbered(p, r),
         NEW remap, remap = NodeRemap(p, ToSet(r)),
         NEW id, id = IF is_node(lit) THEN CHOOSE x \in DOMAIN remap : remap[x] = IABS(lit) ELSE IABS(lit),
         NEW e, e = IF lit < 0 THEN -id ELSE id
  PROVE  Inside(p, r, e) /\ Remapped(remap, e) = lit
<1>1. /\ lit \in Int /\ lit # 0 /\ IABS(lit) \in Variables /\ NInput \in Nat
      /\ WellFormed(p) /\ ProperRoots(p, ToSet(r)) /\ IABS(lit) # TAUTOLOGY
   BY LiteralFacts, Sizes, SentinelAssumption, NVarAssumption DEF Compilable, Variables
<1>2. CASE IABS(lit) \in InputVariables
   <2>1. ~is_node(lit) /\ IABS(lit) \in 1 .. NInput
      BY <1>1, <1>2 DEF is_node, InputVariables
   <2>2. e = lit
      BY <1>1, <2>1 DEF IABS
   <2>3. Inside(p, r, lit)
      BY <1>1, <2>1, Sizes DEF Inside, IsEdge
   <2> QED BY <2>1, <2>2, <2>3 DEF Remapped
<1>3. CASE IABS(lit) \notin InputVariables
   <2>1. PICK x \in Reachable(p, ToSet(r)) : remap[x] = IABS(lit)
      BY <1>3 DEF Numbered
   <2>2. Inside(p, r, x) /\ is_node(x) /\ IABS(x) = x
      BY ArgumentsInside
   <2>3. remap[x] > NInput
      BY <2>2, RemappedFacts
   <2>4. is_node(lit)
      BY <1>1, <2>1, <2>3 DEF is_node
   <2>5. DOMAIN remap = Reachable(p, ToSet(r)) /\ \A y, z \in Reachable(p, ToSet(r)) : remap[y] = remap[z] => y = z
      BY <1>1, RemapFacts
   <2>6. id = x
      BY <2>1, <2>4, <2>5
   <2>7. Inside(p, r, -x) /\ Remapped(remap, -x) = -remap[x] /\ Remapped(remap, x) = remap[x]
      <3>1. Negates(p, x)
         BY <1>1, <2>2, Negation DEF Inside
      <3>2. Inside(p, r, -x)
         BY <2>2, <3>1 DEF Inside, Negates
      <3> QED BY <2>2, <3>2, NodeEdge, RemappedFacts
   <2>8. lit = IF lit < 0 THEN -IABS(lit) ELSE IABS(lit)
      BY <1>1 DEF IABS
   <2> QED BY <2>1, <2>2, <2>6, <2>7, <2>8
<1> QED BY <1>2, <1>3

\* So an extension gives a literal the value of its edge.
LEMMA LiteralReads ==
  ASSUME NEW p, NEW r, Compilable(p, r), NEW lit \in Literal, IABS(lit) \in InputVariables \cup Numbered(p, r)
  PROVE  \E e : Inside(p, r, e) /\ Remapped(NodeRemap(p, ToSet(r)), e) = lit
BY LiteralEdge

\* The literals of the clauses.
LEMMA ContentsVariables ==
  ASSUME NEW p, NEW r, Compilable(p, r), NEW lits \in AllContents(p, r), NEW x \in lits
  PROVE  IABS(x) \in InputVariables \cup Numbered(p, r)
<1> DEFINE remap == NodeRemap(p, ToSet(r))
<1>1. remap = NodeRemap(p, ToSet(r))
   OBVIOUS
<1>2. \/ \E e \in ToSet(r) : lits = {Remapped(remap, e)}
      \/ \E id \in Reachable(p, ToSet(r)) : lits \in NodeContents(p, remap, id)
   BY DEF AllContents
<1> HIDE DEF remap
<1>3. ASSUME NEW e, Inside(p, r, e), x \in {Remapped(remap, e), -Remapped(remap, e), -(-Remapped(remap, e))}
      PROVE  IABS(x) \in InputVariables \cup Numbered(p, r)
   <2> DEFINE y == Remapped(remap, e)
   <2>1. /\ y \in Literal
         /\ is_node(e) => IABS(y) = remap[IABS(e)]
         /\ ~is_node(e) => IABS(e) \in InputVariables /\ y = e
      BY <1>1, <1>3, RemappedFacts
   <2>2. is_node(e) => IABS(e) \in Reachable(p, ToSet(r))
      BY <1>3 DEF Inside
   <2> HIDE DEF y
   <2>3. IABS(x) = IABS(y)
      BY <1>3, <2>1, LiteralFacts DEF y
   <2> QED BY <1>1, <2>1, <2>2, <2>3 DEF Numbered
<1>4. CASE \E e \in ToSet(r) : lits = {Remapped(remap, e)}
   BY <1>3, <1>4, SubgraphEdges DEF Edge
<1>5. CASE \E id \in Reachable(p, ToSet(r)) : lits \in NodeContents(p, remap, id)
   <2>1. PICK id \in Reachable(p, ToSet(r)) : lits \in NodeContents(p, remap, id)
      BY <1>5
   <2> DEFINE node == NodeOf(p, id)
   <2>2. Remapped(remap, id) = remap[id] /\ id \in Nat
      BY ChildrenFacts, ReachableFacts, ArgumentsInside DEF Remapped, Compilable
   <2>3. \E e : /\ e = id \/ e \in ToSet(node.args)
                /\ x \in {Remapped(remap, e), -Remapped(remap, e), -(-Remapped(remap, e))}
      BY <2>1, <2>2 DEF NodeContents, LongClause, ShortClause, Signed
   <2> QED BY <1>3, <2>3, SubgraphEdges DEF Edge
<1> QED BY <1>2, <1>4, <1>5

-----------------------------------------------------------------------------
(* Clauses that bcp has finished with *)

RetiredSatisfied(s) ==
    \A cid \in DOMAIN s.clauses \ s.active_clauses : Lits(s, cid) \cap s.unit_literals # {}

Settled(s) == \A cid \in s.active_clauses : ClauseValue(s, cid, 0)

\* The two kinds of clauses of a node.
NodeClausesIn(p, r, s, id) ==
    LET remap == NodeRemap(p, ToSet(r))
        node  == NodeOf(p, id)
        y     == Signed(node, remap[id])
    IN  /\ \E c \in DOMAIN s.clauses : Lits(s, c) = LongClause(p, remap, id) /\ Once(s.clauses[c], -y)
        /\ \A e \in ToSet(node.args) :
             \E c \in DOMAIN s.clauses : Lits(s, c) = ShortClause(p, remap, id, e) /\ Once(s.clauses[c], y)

LEMMA NodeClausesThere ==
  ASSUME NEW p, NEW r, Compilable(p, r), NEW o, FromClausify(p, r, o), NEW s, Kept(o, s),
         NEW id \in Reachable(p, ToSet(r))
  PROVE  NodeClausesIn(p, r, s, id)
<1> DEFINE remap == NodeRemap(p, ToSet(r))
           node == NodeOf(p, id)
           y == Signed(node, remap[id])
           defs == DefiningClauses(p, remap, id)
<1>1. Contents(defs) = NodeContents(p, remap, id) /\ OwnOnce(defs, remap[id])
   BY DefiningFacts
<1>2. ToSet(defs) \subseteq ToSet(s.clauses)
   BY DEF FromClausify, DefinesNodes, Kept
<1>3. remap[id] \in Variables
   <2>1. Inside(p, r, id) /\ is_node(id) /\ IABS(id) = id
      BY ArgumentsInside
   <2> QED BY <2>1, RemappedFacts
<1>4. IABS(y) = remap[id] /\ IABS(-y) = remap[id]
   BY <1>3, VariableFacts DEF Signed
<1> HIDE DEF defs, y
<1>5. ASSUME NEW lits \in NodeContents(p, remap, id), NEW x, IABS(x) = remap[id]
      PROVE  \E c \in DOMAIN s.clauses : Lits(s, c) = lits /\ Once(s.clauses[c], x)
   <2>1. PICK q \in ToSet(defs) : ToSet(q) = lits
      BY <1>1 DEF Contents
   <2>2. Once(q, x)
      BY <1>1, <1>5 DEF OwnOnce
   <2>3. PICK c \in DOMAIN s.clauses : s.clauses[c] = q
      BY <1>2, <2>1 DEF ToSet
   <2> QED BY <2>1, <2>2, <2>3 DEF Lits
<1>6. \E c \in DOMAIN s.clauses : Lits(s, c) = LongClause(p, remap, id) /\ Once(s.clauses[c], -y)
   BY <1>4, <1>5 DEF NodeContents
<1>7. ASSUME NEW e \in ToSet(node.args)
      PROVE  \E c \in DOMAIN s.clauses : Lits(s, c) = ShortClause(p, remap, id, e) /\ Once(s.clauses[c], y)
   BY <1>4, <1>5, <1>7 DEF NodeContents
<1> QED BY <1>6, <1>7 DEF NodeClausesIn, y
\* In a clause that bcp has finished with a literal without value is not the
\* last one.
LEMMA Another ==
  ASSUME NEW o, NEW s, Kept(o, s), Settled(s), RetiredSatisfied(s), NEW cid \in DOMAIN s.clauses,
         NEW x \in Lits(s, cid), x \notin s.unit_literals, -x \notin s.unit_literals, Once(s.clauses[cid], x)
  PROVE  \E l \in Lits(s, cid) : l # x /\ -l \notin s.unit_literals
<1> SUFFICES ASSUME \A l \in Lits(s, cid) : l # x => -l \in s.unit_literals
             PROVE  FALSE
   OBVIOUS
<1> DEFINE q == s.clauses[cid]
<1>1. s \in CnfType /\ q \in Seq(Literal) /\ s.uquantified_variables = {} /\ \A lit \in s.unit_literals : -lit \notin s.unit_literals
   <2>1. s \in CnfType /\ s.uquantified_variables = {} /\ \A lit \in s.unit_literals : -lit \notin s.unit_literals
      BY DEF Kept
   <2>2. s.clauses \in Seq(Seq(Literal))
      BY <2>1 DEF CnfType
   <2>3. q \in Seq(Literal)
      BY <2>2
   <2> QED BY <2>1, <2>3
<1>2. Lits(s, cid) \cap s.unit_literals = {}
   BY <1>1
<1>3. cid \in s.active_clauses
   BY <1>2 DEF RetiredSatisfied
<1>4. FreePositions(s, cid) = { i \in 1 .. Len(q) : -q[i] \notin s.unit_literals }
   <2>1. DOMAIN q = 1 .. Len(q)
      BY <1>1, LenProperties
   <2> QED BY <1>1, <2>1 DEF FreePositions, skip_literal
<1>5. PICK i \in 1 .. Len(q) : q[i] = x
   BY <1>1, ToSetSeq DEF Lits
<1>6. FreePositions(s, cid) = {i}
   <2>1. ASSUME NEW j \in 1 .. Len(q)
         PROVE  -q[j] \notin s.unit_literals <=> j = i
      <3>1. q[j] \in Lits(s, cid)
         BY <1>1, ToSetSeq DEF Lits
      <3>2. CASE q[j] = x
         BY <1>5, <3>2 DEF Once
      <3>3. CASE q[j] # x
         BY <1>5, <3>1, <3>3
      <3> QED BY <3>2, <3>3
   <2> QED BY <1>4, <1>5, <2>1
<1>7. Cardinality(FreePositions(s, cid)) = 1
   BY <1>6, FS_Singleton
<1> QED BY <1>3, <1>7 DEF Settled, ClauseValue
\* So a node whose variable has no value occurs in both phases.
InBothPhases(s, v) ==
    \A x \in {v, -v} : \E c \in s.active_clauses : x \in FreeLits(s, c) /\ Lits(s, c) \cap s.unit_literals = {}

LEMMA BothPhases ==
  ASSUME NEW p, NEW r, Compilable(p, r), NEW o, FromClausify(p, r, o), NEW s, Kept(o, s),
         Settled(s), RetiredSatisfied(s),
         NEW id \in Reachable(p, ToSet(r)), NEW v, v = NodeRemap(p, ToSet(r))[id],
         v \notin s.unit_literals, -v \notin s.unit_literals
  PROVE  InBothPhases(s, v)
<1> DEFINE remap == NodeRemap(p, ToSet(r))
           node == NodeOf(p, id)
           y == Signed(node, v)
           short(e) == ShortClause(p, remap, id, e)
           arg(e) == Signed(node, Remapped(remap, e))
<1>1. v \in Variables
   <2>1. Inside(p, r, id) /\ is_node(id) /\ IABS(id) = id
      BY ArgumentsInside
   <2> QED BY <2>1, RemappedFacts
<1>2. y \in {v, -v} /\ -y \in {v, -v} /\ y \in Literal /\ -(-y) = y /\ {y, -y} = {v, -v}
   BY <1>1, VariableFacts, LiteralFacts DEF Signed
<1>3. \A e \in ToSet(node.args) : arg(e) \in Literal /\ -arg(e) \in Literal /\ -(-arg(e)) = arg(e)
   <2>1. ASSUME NEW e \in ToSet(node.args)
         PROVE  Remapped(remap, e) \in Literal
      BY ArgumentsInside, RemappedFacts
   <2> QED BY <2>1, LiteralFacts DEF Signed
<1>4. NodeClausesIn(p, r, s, id)
   BY NodeClausesThere
<1>5. LongClause(p, remap, id) = {-y} \cup { arg(e) : e \in ToSet(node.args) }
   BY DEF LongClause
<1>6. \A e \in ToSet(node.args) : short(e) = {y, -arg(e)}
   BY DEF ShortClause
<1>7. /\ \E c \in DOMAIN s.clauses : Lits(s, c) = LongClause(p, remap, id) /\ Once(s.clauses[c], -y)
      /\ \A e \in ToSet(node.args) :
           \E c \in DOMAIN s.clauses : Lits(s, c) = short(e) /\ Once(s.clauses[c], y)
   BY <1>4 DEF NodeClausesIn
<1> HIDE DEF y, short, arg, node, remap
<1>8. y \notin s.unit_literals /\ -y \notin s.unit_literals
   BY <1>2
<1>9. ASSUME NEW e \in ToSet(node.args)
      PROVE  arg(e) \notin s.unit_literals
   <2>1. PICK c \in DOMAIN s.clauses : Lits(s, c) = short(e) /\ Once(s.clauses[c], y)
      BY <1>7
   <2>2. y \in Lits(s, c)
      BY <1>6, <2>1
   <2>3. PICK l \in Lits(s, c) : l # y /\ -l \notin s.unit_literals
      BY <1>8, <2>1, <2>2, Another
   <2>4. l = -arg(e)
      BY <1>6, <2>1, <2>3
   <2> QED BY <1>3, <2>3, <2>4
<1>10. PICK c \in DOMAIN s.clauses : Lits(s, c) = LongClause(p, remap, id) /\ Once(s.clauses[c], -y)
   BY <1>7
<1>11. Lits(s, c) \cap s.unit_literals = {}
   BY <1>5, <1>8, <1>9, <1>10
<1>12. c \in s.active_clauses
   BY <1>11 DEF RetiredSatisfied
<1>13. -y \in Lits(s, c)
   BY <1>5, <1>10
<1>14. PICK l \in Lits(s, c) : l # -y /\ -l \notin s.unit_literals
   BY <1>2, <1>8, <1>10, <1>13, Another
<1>15. PICK e \in ToSet(node.args) : l = arg(e)
   BY <1>5, <1>10, <1>14
<1>16. PICK d \in DOMAIN s.clauses : Lits(s, d) = short(e) /\ Once(s.clauses[d], y)
   BY <1>7
<1>17. Lits(s, d) \cap s.unit_literals = {}
   BY <1>6, <1>8, <1>14, <1>15, <1>16
<1>18. d \in s.active_clauses
   BY <1>17 DEF RetiredSatisfied
<1>19. \A k \in s.active_clauses : FreeLits(s, k) = { lit \in Lits(s, k) : -lit \notin s.unit_literals }
   BY KeptClauses
<1>20. -y \in FreeLits(s, c) /\ y \in FreeLits(s, d)
   BY <1>2, <1>6, <1>8, <1>12, <1>13, <1>16, <1>18, <1>19
<1>21. \A x \in {y, -y} : \E k \in s.active_clauses : x \in FreeLits(s, k) /\ Lits(s, k) \cap s.unit_literals = {}
   BY <1>11, <1>12, <1>17, <1>18, <1>20
<1> QED BY <1>2, <1>21 DEF InBothPhases

-----------------------------------------------------------------------------
(* What an object still says *)

\* The literals of the splits in progress.
Assertion(s) == s.unit_literals \ s.bcp_unit_literals

\* The common models of the roots at which some literals have the value of
\* their edges, and all assignments that agree with those of input variables.
Solutions(p, r, A) == { a \in Common(p, r) : \A lit \in A : Holds(Extension(p, r, a), lit) }

Given(A) == { a \in Assignments : \A lit \in A : ~is_node(lit) => Holds(a, lit) }

\* A clause that is not satisfied can be seen to be false.
Visible(s) == \E cid \in s.active_clauses : \A lit \in Lits(s, cid) : -lit \in s.unit_literals

NoSolution(p, r, s) == Solutions(p, r, Assertion(s)) = {}

Implied(p, r, s) ==
    \A a \in Solutions(p, r, Assertion(s)) : \A lit \in s.unit_literals : Holds(Extension(p, r, a), lit)

\* Unit literals follow from the splits, conflicts are right, and clauses have
\* been retired because they are satisfied, unless all has been decided.
Right(p, r, s) ==
    /\ \A lit \in Assertion(s) : IABS(lit) \in InputVariables \cup Numbered(p, r)
    /\ Implied(p, r, s)
    /\ s.has_conflict => NoSolution(p, r, s)
    /\ RetiredSatisfied(s) \/ (NoSolution(p, r, s) /\ (Visible(s) \/ s.has_conflict))

\* The roots, and the object, of one compilation.
Compiles(p, r, o, s) == Compilable(p, r) /\ FromClausify(p, r, o) /\ Kept(o, s)

LEMMA SolutionFacts ==
  ASSUME NEW p, NEW r, NEW o, NEW s, Compiles(p, r, o, s), Implied(p, r, s),
         NEW a \in Solutions(p, r, Assertion(s))
  PROVE  /\ a \in Assignments
         /\ \A cid \in DOMAIN s.clauses : \E lit \in Lits(s, cid) : Holds(Extension(p, r, a), lit)
         /\ \A lit \in s.unit_literals : lit \in Literal /\ Holds(Extension(p, r, a), lit) /\ ~Holds(Extension(p, r, a), -lit)
<1>1. a \in Common(p, r)
   BY DEF Solutions
<1>2. a \in Assignments
   <2>1. Meaning(p, r[1]) \in SUBSET Assignments
      <3>1. IsEdge(p, r[1]) /\ WellFormed(p)
         BY RootPair DEF Compiles, Compilable, ProperRoots
      <3> QED BY <3>1, Negation DEF Negates
   <2> QED BY <1>1, <2>1 DEF Common
<1>3. Fulfils(Extension(p, r, a), AllContents(p, r))
   BY <1>1, <1>2, ExtensionFulfils DEF Compiles
<1>4. ASSUME NEW cid \in DOMAIN s.clauses
      PROVE  \E lit \in Lits(s, cid) : Holds(Extension(p, r, a), lit)
   <2>1. Lits(s, cid) \in AllContents(p, r)
      BY <1>4 DEF Compiles, FromClausify, Kept, Lits
   <2> QED BY <1>3, <2>1 DEF Fulfils, HoldsClause
<1>5. ASSUME NEW lit \in s.unit_literals
      PROVE  lit \in Literal /\ Holds(Extension(p, r, a), lit) /\ ~Holds(Extension(p, r, a), -lit)
   <2>1. lit \in Literal
      BY DEF Compiles, Kept, CnfType
   <2>2. Holds(Extension(p, r, a), lit)
      BY DEF Implied
   <2> QED BY <2>1, <2>2, HoldsNegation
<1> QED BY <1>2, <1>4, <1>5
\* A clause whose literals are all false leaves no solution.
LEMMA FalsifiedClause ==
  ASSUME NEW p, NEW r, NEW o, NEW s, Compiles(p, r, o, s), Implied(p, r, s),
         NEW cid \in DOMAIN s.clauses, \A lit \in Lits(s, cid) : -lit \in s.unit_literals
  PROVE  NoSolution(p, r, s)
<1> SUFFICES ASSUME NEW a \in Solutions(p, r, Assertion(s))
             PROVE  FALSE
   BY DEF NoSolution
<1>1. PICK lit \in Lits(s, cid) : Holds(Extension(p, r, a), lit)
   BY SolutionFacts
<1>2. -lit \in s.unit_literals /\ lit \in Literal
   <2>1. s.clauses \in Seq(Seq(Literal))
      BY DEF Compiles, Kept, CnfType
   <2>2. s.clauses[cid] \in Seq(Literal)
      BY <2>1
   <2>3. Lits(s, cid) \subseteq Literal
      BY <2>2, ToSetSeq DEF Lits
   <2> QED BY <2>3
<1>3. ~Holds(Extension(p, r, a), -(-lit))
   BY <1>2, SolutionFacts
<1> QED BY <1>1, <1>2, <1>3, LiteralFacts
LEMMA ActiveFacts ==
  ASSUME NEW p, NEW r, NEW o, NEW s, Compiles(p, r, o, s)
  PROVE  /\ s.active_clauses \subseteq DOMAIN s.clauses
         /\ s.bcp_unit_literals \subseteq s.unit_literals
         /\ \A lit \in s.unit_literals : -lit \notin s.unit_literals
         /\ \A cid \in s.active_clauses :
              /\ Lits(s, cid) \subseteq Literal
              /\ FreeLits(s, cid) = { lit \in Lits(s, cid) : -lit \notin s.unit_literals }
<1>1. Kept(o, s)
   BY DEF Compiles
<1> QED BY <1>1, KeptClauses DEF Kept
LEMMA VisibleNoSolution ==
  ASSUME NEW p, NEW r, NEW o, NEW s, Compiles(p, r, o, s), Implied(p, r, s), Visible(s)
  PROVE  NoSolution(p, r, s)
BY FalsifiedClause, ActiveFacts DEF Visible
\* What two objects have in common that makes the one as right as the other.
LEMMA SameRight ==
  ASSUME NEW p, NEW r, NEW s, NEW t, Right(p, r, s), t.clauses = s.clauses, t.active_clauses = s.active_clauses,
         t.unit_literals = s.unit_literals, t.bcp_unit_literals = s.bcp_unit_literals
  PROVE  /\ Assertion(t) = Assertion(s) /\ (Visible(t) <=> Visible(s))
         /\ (RetiredSatisfied(t) <=> RetiredSatisfied(s))
         /\ (Implied(p, r, t) <=> Implied(p, r, s)) /\ (NoSolution(p, r, t) <=> NoSolution(p, r, s))
<1>1. Assertion(t) = Assertion(s) /\ \A cid : Lits(t, cid) = Lits(s, cid)
   BY DEF Assertion, Lits
<1>2. Visible(t) <=> Visible(s)
   BY <1>1 DEF Visible
<1>3. RetiredSatisfied(t) <=> RetiredSatisfied(s)
   BY <1>1 DEF RetiredSatisfied
<1>4. (Implied(p, r, t) <=> Implied(p, r, s)) /\ (NoSolution(p, r, t) <=> NoSolution(p, r, s))
   BY <1>1 DEF Implied, NoSolution
<1> QED BY <1>1, <1>2, <1>3, <1>4
-----------------------------------------------------------------------------
(* bcp keeps objects right *)

\* The visible conflicts stay visible.
Keeping(p, r, s, t) ==
    Right(p, r, t) /\ Assertion(t) = Assertion(s) /\ (Visible(s) => Visible(t))

LEMMA ConflictRight ==
  ASSUME NEW p, NEW r, NEW o, NEW s, Compiles(p, r, o, s), Right(p, r, s),
         NEW t, NEW cid, Conflicts(s, t, cid)
  PROVE  Keeping(p, r, s, t) /\ Visible(t)
<1>1. cid \in s.active_clauses /\ FreeLits(s, cid) = {}
      /\ t.clauses = s.clauses /\ t.active_clauses = s.active_clauses /\ t.has_conflict
      /\ t.unit_literals = s.unit_literals /\ t.bcp_unit_literals = s.bcp_unit_literals
   BY DEF Conflicts, SameClauses
<1>2. \A lit \in Lits(s, cid) : -lit \in s.unit_literals
   BY <1>1, ActiveFacts
<1>3. Visible(s)
   BY <1>1, <1>2 DEF Visible
<1>4. NoSolution(p, r, s)
   BY <1>3, VisibleNoSolution DEF Right
<1>5. /\ Assertion(t) = Assertion(s) /\ (Visible(t) <=> Visible(s))
      /\ (Implied(p, r, t) <=> Implied(p, r, s)) /\ (NoSolution(p, r, t) <=> NoSolution(p, r, s))
   BY <1>1, SameRight
<1> QED BY <1>1, <1>3, <1>4, <1>5 DEF Right, Keeping
LEMMA RetireRight ==
  ASSUME NEW p, NEW r, NEW o, NEW s, Compiles(p, r, o, s), Right(p, r, s),
         NEW t, NEW cid, RetiresOne(s, t, cid)
  PROVE  Keeping(p, r, s, t)
<1>1. /\ cid \in s.active_clauses /\ Lits(s, cid) \cap s.unit_literals # {}
      /\ t.clauses = s.clauses /\ t.active_clauses = s.active_clauses \ {cid}
      /\ t.unit_literals = s.unit_literals /\ t.bcp_unit_literals = s.bcp_unit_literals
      /\ t.has_conflict = s.has_conflict
   BY DEF RetiresOne, Retires, SameAssignment
<1>2. Assertion(t) = Assertion(s) /\ \A c : Lits(t, c) = Lits(s, c)
   BY <1>1 DEF Assertion, Lits
<1>3. (Implied(p, r, t) <=> Implied(p, r, s)) /\ (NoSolution(p, r, t) <=> NoSolution(p, r, s))
   BY <1>1, <1>2 DEF Implied, NoSolution
<1>4. Visible(s) => Visible(t)
   <2>1. ASSUME NEW c \in s.active_clauses, \A lit \in Lits(s, c) : -lit \in s.unit_literals
         PROVE  c # cid
      <3>1. \A lit \in s.unit_literals : -lit \notin s.unit_literals
         BY ActiveFacts
      <3> QED BY <1>1, <2>1, <3>1
   <2> QED BY <1>1, <1>2, <2>1 DEF Visible
<1>5. RetiredSatisfied(s) => RetiredSatisfied(t)
   BY <1>1, <1>2 DEF RetiredSatisfied
<1> QED BY <1>1, <1>2, <1>3, <1>4, <1>5 DEF Right, Keeping
LEMMA UnitRight ==
  ASSUME NEW p, NEW r, NEW o, NEW s, Compiles(p, r, o, s), Right(p, r, s),
         NEW t, NEW cid, NEW lit, PropagatesOne(s, t, cid, lit)
  PROVE  Keeping(p, r, s, t)
<1>1. /\ cid \in s.active_clauses /\ lit \in Literal /\ FreeLits(s, cid) = {lit}
      /\ lit \notin s.unit_literals /\ -lit \notin s.unit_literals
      /\ t.clauses = s.clauses /\ t.active_clauses = s.active_clauses \ Containing(s, lit)
      /\ t.unit_literals = s.unit_literals \cup {lit}
      /\ t.bcp_unit_literals = s.bcp_unit_literals \cup {lit}
      /\ t.has_conflict = s.has_conflict
   BY DEF PropagatesOne, ClauseValue, UnitMove
<1>2. Assertion(t) = Assertion(s) /\ \A c : Lits(t, c) = Lits(s, c)
   BY <1>1 DEF Assertion, Lits
<1>3. NoSolution(p, r, t) <=> NoSolution(p, r, s)
   BY <1>2 DEF NoSolution
<1>4. Implied(p, r, t)
   <2> SUFFICES ASSUME NEW a \in Solutions(p, r, Assertion(s))
                PROVE  Holds(Extension(p, r, a), lit)
      BY <1>1, <1>2 DEF Implied, Right
   <2>1. PICK l \in Lits(s, cid) : Holds(Extension(p, r, a), l)
      BY <1>1, ActiveFacts, SolutionFacts DEF Right
   <2>2. -l \notin s.unit_literals
      <3>1. \A u \in s.unit_literals : ~Holds(Extension(p, r, a), -u)
         BY SolutionFacts DEF Right
      <3>2. l \in Literal
         BY <1>1, ActiveFacts
      <3> QED BY <2>1, <3>1, <3>2, LiteralFacts
   <2>3. l \in FreeLits(s, cid)
      BY <1>1, <2>2, ActiveFacts
   <2> QED BY <1>1, <2>1, <2>3
<1>5. Visible(s) => Visible(t)
   <2>1. ASSUME NEW c \in s.active_clauses, \A l \in Lits(s, c) : -l \in s.unit_literals
         PROVE  c \notin Containing(s, lit)
      BY <1>1, <2>1 DEF Containing
   <2> QED BY <1>1, <1>2, <2>1 DEF Visible
<1>6. RetiredSatisfied(s) => RetiredSatisfied(t)
   BY <1>1, <1>2 DEF RetiredSatisfied, Containing
<1> QED BY <1>1, <1>2, <1>3, <1>4, <1>5, <1>6 DEF Right, Keeping
\* Together.
LEMMA BcpRight ==
  ASSUME NEW p, NEW r, NEW o, NEW s, Compiles(p, r, o, s), Right(p, r, s),
         NEW q, NEW t, NEW w, BcpMove(s, q, t, w), s.has_conflict => Visible(s)
  PROVE  Keeping(p, r, s, t) /\ (t.has_conflict => Visible(t))
<1> DEFINE cid == Head(q)
<1>1. CASE Passes(s, t, cid)
   BY <1>1 DEF Passes, Keeping
<1>2. CASE Conflicts(s, t, cid)
   BY <1>2, ConflictRight
<1>3. CASE RetiresOne(s, t, cid)
   <2>1. Keeping(p, r, s, t)
      BY <1>3, RetireRight
   <2>2. t.has_conflict = s.has_conflict
      BY <1>3 DEF RetiresOne, Retires, SameAssignment
   <2> QED BY <2>1, <2>2 DEF Keeping
<1>4. CASE \E lit \in Literal : PropagatesOne(s, t, cid, lit)
   <2>1. PICK lit \in Literal : PropagatesOne(s, t, cid, lit)
      BY <1>4
   <2>2. Keeping(p, r, s, t)
      BY <2>1, UnitRight
   <2>3. t.has_conflict = s.has_conflict
      BY <2>1 DEF PropagatesOne, UnitMove
   <2> QED BY <2>2, <2>3 DEF Keeping
<1> QED BY <1>1, <1>2, <1>3, <1>4 DEF BcpMove
-----------------------------------------------------------------------------
(* The other steps *)

\* bve has something to do only after a conflict.
LEMMA PureRight ==
  ASSUME NEW p, NEW r, NEW o, NEW s, Compiles(p, r, o, s), Right(p, r, s), s.has_conflict,
         NEW t, NEW lit, PureMove(s, t, lit)
  PROVE  Right(p, r, t) /\ Assertion(t) = Assertion(s) /\ t.has_conflict
<1>1. t.has_conflict
   BY DEF PureMove
<1>2. Assertion(t) = Assertion(s)
   BY ActiveFacts DEF PureMove, Assertion
<1>3. NoSolution(p, r, s)
   BY DEF Right
<1> QED BY <1>1, <1>2, <1>3 DEF Right, NoSolution, Implied
\* A branch.
LEMMA BranchRight ==
  ASSUME NEW p, NEW r, NEW o, NEW s, Compiles(p, r, o, s), Right(p, r, s),
         NEW t, NEW slit, Enters(s, t, slit), slit \notin s.unit_literals,
         IABS(slit) \in InputVariables \cup Numbered(p, r)
  PROVE  /\ Right(p, r, t) /\ Assertion(t) = Assertion(s) \cup {slit}
         /\ Visible(s) => Visible(t)
<1>1. /\ t.clauses = s.clauses /\ t.active_clauses = s.active_clauses
      /\ t.unit_literals = s.unit_literals \cup {slit}
      /\ t.bcp_unit_literals = s.bcp_unit_literals
      /\ t.has_conflict = s.has_conflict
   BY DEF Enters, SameClauses
<1>2. Assertion(t) = Assertion(s) \cup {slit} /\ \A c : Lits(t, c) = Lits(s, c)
   BY <1>1, ActiveFacts DEF Assertion, Lits
<1>3. Solutions(p, r, Assertion(t)) \subseteq Solutions(p, r, Assertion(s))
      /\ \A a \in Solutions(p, r, Assertion(t)) : Holds(Extension(p, r, a), slit)
   BY <1>2 DEF Solutions
<1>4. NoSolution(p, r, s) => NoSolution(p, r, t)
   BY <1>3 DEF NoSolution
<1>5. Implied(p, r, t)
   BY <1>1, <1>3 DEF Implied, Right
<1>6. Visible(s) => Visible(t)
   BY <1>1, <1>2 DEF Visible
<1>7. RetiredSatisfied(s) => RetiredSatisfied(t)
   BY <1>1, <1>2 DEF RetiredSatisfied
<1> QED BY <1>1, <1>2, <1>4, <1>5, <1>6, <1>7 DEF Right
\* A conflict that has been forgotten can still be seen.
LEMMA CalmRight ==
  ASSUME NEW p, NEW r, NEW o, NEW s, Compiles(p, r, o, s), Right(p, r, s), s.has_conflict => Visible(s),
         NEW t \in {s, Calm(s)}
  PROVE  /\ Keeping(p, r, s, t)
         /\ t.has_conflict => Visible(t)
         /\ t.data_variables = s.data_variables /\ t.unit_literals = s.unit_literals
<1>1. CASE t = s
   BY <1>1 DEF Keeping
<1>2. CASE t = Calm(s)
   <2>1. /\ t.clauses = s.clauses /\ t.active_clauses = s.active_clauses
         /\ t.unit_literals = s.unit_literals /\ t.bcp_unit_literals = s.bcp_unit_literals
         /\ ~t.has_conflict /\ t.data_variables = s.data_variables
      BY <1>2 DEF Calm, Compiles, Kept, CnfType
   <2>2. /\ Assertion(t) = Assertion(s) /\ (Visible(t) <=> Visible(s))
         /\ (RetiredSatisfied(t) <=> RetiredSatisfied(s))
         /\ (Implied(p, r, t) <=> Implied(p, r, s)) /\ (NoSolution(p, r, t) <=> NoSolution(p, r, s))
      BY <2>1, SameRight
   <2> QED BY <2>1, <2>2 DEF Right, Keeping
<1> QED BY <1>1, <1>2
\* The object clausify makes.
LEMMA OriginRight ==
  ASSUME NEW p, NEW r, NEW o, FromClausify(p, r, o)
  PROVE  Right(p, r, o) /\ Assertion(o) = {}
<1>1. o.unit_literals = {} /\ ~o.has_conflict /\ o.active_clauses = DOMAIN o.clauses
   BY DEF FromClausify
<1> QED BY <1>1 DEF Right, Assertion, Implied, RetiredSatisfied
\* Once bcp has ended without a conflict nothing has been lost.
LEMMA SettledRight ==
  ASSUME NEW p, NEW r, NEW o, NEW s, Compiles(p, r, o, s), Right(p, r, s), ~s.has_conflict, Settled(s)
  PROVE  RetiredSatisfied(s) /\ ~Visible(s)
<1>1. ASSUME Visible(s)
      PROVE  FALSE
   <2>1. PICK cid \in s.active_clauses : \A lit \in Lits(s, cid) : -lit \in s.unit_literals
      BY <1>1 DEF Visible
   <2>2. FreeLits(s, cid) = {}
      BY <2>1, ActiveFacts
   <2> QED BY <2>1, <2>2 DEF Settled, ClauseValue
<1> QED BY <1>1 DEF Right

-----------------------------------------------------------------------------
(* The queue of bcp *)

\* Clauses that are not on the queue have been dealt with.
Waits(s, q) == \A cid \in s.active_clauses : cid \in ToSet(q) \/ ClauseValue(s, cid, 0)

\* The value of a clause depends on the values of its literals.
LEMMA ValueKept ==
  ASSUME NEW s, NEW t, t.clauses = s.clauses, s.uquantified_variables = {}, t.uquantified_variables = {},
         NEW cid,
         \A l \in Lits(s, cid) : /\ l \in t.unit_literals <=> l \in s.unit_literals
                                 /\ -l \in t.unit_literals <=> -l \in s.unit_literals,
         ClauseValue(s, cid, 0)
  PROVE  ClauseValue(t, cid, 0)
<1>1. Lits(t, cid) = Lits(s, cid) /\ \A i \in DOMAIN s.clauses[cid] : s.clauses[cid][i] \in Lits(s, cid)
   BY DEF Lits, ToSet
<1>2. \A l \in Lits(s, cid) : skip_literal(t, l) <=> skip_literal(s, l)
   BY DEF skip_literal
<1>3. FreeLits(t, cid) = FreeLits(s, cid)
   BY <1>1, <1>2 DEF FreeLits
<1>4. FreePositions(t, cid) = FreePositions(s, cid)
   BY <1>1, <1>2 DEF FreePositions
<1>5. Lits(t, cid) \cap t.unit_literals = Lits(s, cid) \cap s.unit_literals
   BY <1>1
<1>6. 0 # CONFLICT /\ 0 # TAUTOLOGY
   BY DEF CONFLICT, TAUTOLOGY
<1> QED BY <1>3, <1>4, <1>5, <1>6 DEF ClauseValue
LEMMA QueueMoves ==
  ASSUME NEW o, NEW s, Kept(o, s), NEW q \in Seq(ClauseId), Waits(s, q),
         NEW t, Kept(o, t), NEW w, BcpMove(s, q, t, w), ~t.has_conflict
  PROVE  Waits(t, w)
<1> DEFINE cid == Head(q)
<1>1. q # << >> /\ ToSet(q) = {cid} \cup ToSet(Tail(q))
   BY ToSetHeadTail DEF BcpMove
<1>2. /\ s.uquantified_variables = {} /\ t.uquantified_variables = {}
      /\ \A c \in s.active_clauses : Lits(s, c) \subseteq Literal
      /\ \A lit \in s.unit_literals : -lit \notin s.unit_literals
   BY KeptClauses DEF Kept
<1>3. CASE Passes(s, t, cid) /\ w = Tail(q)
   BY <1>1, <1>3 DEF Waits, Passes
<1>4. CASE Conflicts(s, t, cid)
   BY <1>4 DEF Conflicts
<1>5. CASE RetiresOne(s, t, cid) /\ w = Tail(q)
   <2>1. t.clauses = s.clauses /\ t.active_clauses = s.active_clauses \ {cid} /\ t.unit_literals = s.unit_literals
      BY <1>5 DEF RetiresOne, Retires, SameAssignment
   <2>2. ASSUME NEW c \in t.active_clauses, c \notin ToSet(w)
         PROVE  ClauseValue(t, c, 0)
      <3>1. ClauseValue(s, c, 0)
         BY <1>1, <1>5, <2>1, <2>2 DEF Waits
      <3> QED BY <1>2, <2>1, <3>1, ValueKept
   <2> QED BY <2>2 DEF Waits
<1>6. CASE \E lit \in Literal : PropagatesOne(s, t, cid, lit) /\ ToSet(w) = ToSet(Tail(q)) \cup Waking(t, lit)
   <2>1. PICK lit \in Literal : PropagatesOne(s, t, cid, lit) /\ ToSet(w) = ToSet(Tail(q)) \cup Waking(t, lit)
      BY <1>6
   <2>2. /\ t.clauses = s.clauses /\ t.active_clauses = s.active_clauses \ Containing(s, lit)
         /\ t.unit_literals = s.unit_literals \cup {lit}
         /\ cid \in s.active_clauses /\ lit \in Lits(s, cid)
      BY <2>1 DEF PropagatesOne, UnitMove, ClauseValue
   <2>3. ASSUME NEW c \in t.active_clauses, c \notin ToSet(w)
         PROVE  ClauseValue(t, c, 0)
      <3>1. Lits(t, c) = Lits(s, c) /\ lit \notin Lits(s, c) /\ c # cid /\ c \in s.active_clauses
         BY <2>2, <2>3 DEF Lits, Containing
      <3>2. -lit \notin Lits(s, c)
         BY <2>1, <2>3, <3>1 DEF Waking
      <3>3. ClauseValue(s, c, 0)
         BY <1>1, <2>1, <2>3, <3>1 DEF Waits
      <3>4. ASSUME NEW l \in Lits(s, c)
            PROVE  l # lit /\ -l # lit
         <4>1. l \in Literal
            BY <1>2, <3>1, <3>4
         <4> QED BY <3>1, <3>2, <3>4, <4>1, LiteralFacts
      <3> QED BY <1>2, <2>2, <3>3, <3>4, ValueKept
   <2> QED BY <2>3 DEF Waits
<1> QED BY <1>3, <1>4, <1>5, <1>6 DEF BcpMove
LEMMA QueueStarts ==
  ASSUME NEW o, NEW s, Kept(o, s)
  PROVE  Waits(s, QueueOf(s))
BY ActiveInOrder DEF Waits, QueueOf
LEMMA QueueEnds ==
  ASSUME NEW s, Waits(s, << >>)
  PROVE  Settled(s)
<1>1. ToSet(<< >>) = {}
   BY DEF ToSet
<1> QED BY <1>1 DEF Waits, Settled
-----------------------------------------------------------------------------
(* bve *)

\* A free literal of an active clause is one of an input variable that is data,
\* or of a node.
LEMMA FreeVariables ==
  ASSUME NEW p, NEW r, NEW o, NEW s, Compiles(p, r, o, s), NEW cid \in s.active_clauses, NEW lit \in Lits(s, cid)
  PROVE  /\ lit \in Literal
         /\ IABS(lit) \in InputVariables => IABS(lit) \in s.data_variables
         /\ IABS(lit) \in s.data_variables \cup Numbered(p, r)
         /\ IABS(lit) \in InputVariables \cup Numbered(p, r)
<1>1. Lits(s, cid) \in AllContents(p, r)
   <2>1. cid \in DOMAIN o.clauses /\ Lits(s, cid) = Lits(o, cid)
      BY ActiveFacts DEF Compiles, Kept, Lits
   <2> QED BY <2>1 DEF Compiles, FromClausify
<1>2. IABS(lit) \in InputVariables \cup Numbered(p, r)
   BY <1>1, ContentsVariables DEF Compiles
<1>3. IABS(lit) <= NInput => IABS(lit) \in s.data_variables
   BY <1>1 DEF Compiles, FromClausify, Kept
<1>4. lit \in Literal
   BY ActiveFacts
<1> QED BY <1>2, <1>3, <1>4 DEF InputVariables
LEMMA ScanEmpty ==
  ASSUME NEW p, NEW r, NEW o, NEW s, Compiles(p, r, o, s), Right(p, r, s), ~s.has_conflict, Settled(s)
  PROVE  BveScan(s, 0).degree_variables[0] = {}
<1>1. BveScan(s, 0).degree_variables[0] = { v \in ProjectionVariables(s, s.active_clauses) : Degree(s, v) = 0 }
   BY DEF BveScan
<1> SUFFICES ASSUME NEW v \in ProjectionVariables(s, s.active_clauses), Degree(s, v) = 0
             PROVE  FALSE
   BY <1>1
<1>2. PICK cid \in s.active_clauses : \E lit \in FreeLits(s, cid) : v = IABS(lit)
   BY DEF ProjectionVariables
<1>3. PICK lit \in FreeLits(s, cid) : v = IABS(lit)
   BY <1>2
<1>4. lit \in Lits(s, cid) /\ -lit \notin s.unit_literals /\ lit \in Literal
   BY ActiveFacts, FreeVariables
<1>5. lit \notin s.unit_literals
   BY <1>4 DEF Settled, ClauseValue
<1>6. v \notin s.data_variables
   BY DEF ProjectionVariables
<1>7. v \in Numbered(p, r)
   BY <1>3, <1>4, <1>6, FreeVariables
<1>8. PICK id \in Reachable(p, ToSet(r)) : v = NodeRemap(p, ToSet(r))[id]
   BY <1>7 DEF Numbered
<1>9. v \notin s.unit_literals /\ -v \notin s.unit_literals /\ v \in Variables
   BY <1>3, <1>4, <1>5, LiteralFacts
<1>10. RetiredSatisfied(s)
   BY SettledRight
<1>11. InBothPhases(s, v)
   BY <1>8, <1>9, <1>10, BothPhases DEF Compiles
<1>12. \A x \in {v, -v} : Containing(s, x) # {}
   BY <1>11, ActiveFacts DEF InBothPhases, Containing
<1>13. v \in Literal /\ -v \in Literal
   BY <1>9, VariableFacts
<1>14. Kept(o, s)
   BY DEF Compiles
<1>15. Occurrences(s, v) # 0 /\ Occurrences(s, -v) # 0
   BY <1>12, <1>13, <1>14, OccurrenceFacts
<1> QED BY <1>15 DEF Degree
\* So bve ends at once.
LEMMA IdleBve ==
  ASSUME BveTyped(bve), bve.degree_variables[0] = {}, BveIteration(FALSE)
  PROVE  FALSE
<1>1. bve.maxdegree = 0
   BY DEF BveTyped
<1>2. PICK d \in 0 .. 0 : Eligible(d) # {}
   BY <1>1 DEF BveIteration, BveSkip, BveEliminate
<1>3. d = 0
   BY <1>2
<1> QED BY <1>2, <1>3 DEF Eligible
LEMMA BveRight ==
  ASSUME NEW p, NEW r, NEW o, NEW s, Compiles(p, r, o, s), Right(p, r, s), s.has_conflict,
         NEW b, NEW t, BveMove(s, b, t)
  PROVE  Right(p, r, t) /\ Assertion(t) = Assertion(s) /\ t.has_conflict
BY PureRight DEF BveMove
-----------------------------------------------------------------------------
(* The SAT test *)

LEMMA UnsatRight ==
  ASSUME NEW p, NEW r, NEW o, NEW s, Compiles(p, r, o, s), Right(p, r, s), ~Satisfiable(s)
  PROVE  NoSolution(p, r, s)
<1> SUFFICES ASSUME NEW a \in Solutions(p, r, Assertion(s))
             PROVE  FALSE
   BY DEF NoSolution
<1>1. ~s.has_conflict
   BY DEF Right, NoSolution
<1> DEFINE b == Extension(p, r, a)
           clauses == ResidualClauses(s) \cup BcpUnits(s)
<1>2. /\ a \in Assignments
      /\ \A cid \in DOMAIN s.clauses : \E lit \in Lits(s, cid) : Holds(b, lit)
      /\ \A lit \in s.unit_literals : lit \in Literal /\ Holds(b, lit) /\ ~Holds(b, -lit)
   BY SolutionFacts DEF Right
<1>3. b \in SUBSET Variables
   BY <1>2, ExtensionNodes DEF Compiles
<1> HIDE DEF b
<1>4. ASSUME NEW lits \in clauses
      PROVE  HoldsClause(b, lits)
   <2>1. CASE lits \in ResidualClauses(s)
      <3>1. PICK cid \in s.active_clauses : lits = FreeLits(s, cid)
         BY <2>1 DEF ResidualClauses
      <3>2. PICK lit \in Lits(s, cid) : Holds(b, lit)
         BY <1>2, <3>1, ActiveFacts
      <3>3. lit \in Literal /\ -lit \notin s.unit_literals
         <4>1. lit \in Literal
            BY <3>1, <3>2, ActiveFacts
         <4>2. -(-lit) = lit
            BY <4>1, LiteralFacts
         <4>3. -lit \in s.unit_literals => ~Holds(b, -(-lit))
            BY <1>2
         <4> QED BY <3>2, <4>1, <4>2, <4>3
      <3>4. lit \in FreeLits(s, cid)
         BY <3>1, <3>2, <3>3, ActiveFacts
      <3> QED BY <3>1, <3>2, <3>4 DEF HoldsClause
   <2>2. CASE lits \in BcpUnits(s)
      <3>1. PICK lit \in s.bcp_unit_literals : lits = {lit}
         BY <2>2 DEF BcpUnits
      <3>2. lit \in s.unit_literals
         BY <3>1, ActiveFacts
      <3> QED BY <1>2, <3>1, <3>2 DEF HoldsClause
   <2> QED BY <2>1, <2>2
<1>5. b \in Models(Variables, clauses)
   BY <1>3, <1>4 DEF Models
<1> QED BY <1>1, <1>5 DEF Satisfiable

-----------------------------------------------------------------------------
(* Independent clauses over input variables *)

SeparateClauses(chunks) ==
    /\ \A i \in 1 .. Len(chunks) : /\ chunks[i] \in Seq(Int) /\ Varied(chunks[i])
                                   /\ VariablesOf(chunks[i]) \subseteq InputVariables
    /\ \A i, j \in 1 .. Len(chunks) : i < j => VariablesOf(chunks[i]) \cap VariablesOf(chunks[j]) = {}

\* What such clauses are in a graph.
LEMMA InputClauses ==
  ASSUME NEW q, WellFormed(q), NEW chunks, AreClauses(q, chunks), SeparateClauses(chunks)
  PROVE  /\ IndependentChunks(q, chunks)
         /\ AllClauses(q, chunks) =
              { a \in Assignments : \A i \in 1 .. Len(chunks) : HoldsClause(a, ToSet(chunks[i])) }
         /\ ClauseVariables(q, chunks) = UNION { VariablesOf(chunks[i]) : i \in 1 .. Len(chunks) }
<1>1. ASSUME NEW i \in 1 .. Len(chunks), NEW x \in ToSet(chunks[i])
      PROVE  /\ IABS(x) \in VariablesOf(chunks[i])
             /\ Meaning(q, x) = { a \in Assignments : Holds(a, x) } /\ Mentions(q, x) = {IABS(x)}
   <2>1. IABS(x) \in VariablesOf(chunks[i])
      BY DEF VariablesOf
   <2>2. IABS(x) \in InputVariables
      BY <2>1 DEF SeparateClauses
   <2>3. IABS(x) # TAUTOLOGY /\ ~is_node(x)
      <3>1. NInput \in Nat /\ NInput < TAUTOLOGY /\ TAUTOLOGY \in Nat
         BY Sizes
      <3> QED BY <2>2, <3>1 DEF InputVariables, is_node
   <2>4. IsEdge(q, x)
      <3>1. chunks[i] \in Seq(Int) /\ Edges(q, chunks[i])
         BY DEF AreClauses, Edges
      <3>2. PICK k \in 1 .. Len(chunks[i]) : chunks[i][k] = x
         BY <3>1, ToSetSeq
      <3> QED BY <3>1, <3>2 DEF Edges
   <2> QED BY <2>1, <2>3, <2>4, LiteralMeaning
<1>2. \A i \in 1 .. Len(chunks) : AllMentioned(q, ToSet(chunks[i])) = VariablesOf(chunks[i])
   BY <1>1 DEF AllMentioned, VariablesOf
<1>3. \A i, j \in 1 .. Len(chunks) : i < j =>
           AllMentioned(q, ToSet(chunks[i])) \cap AllMentioned(q, ToSet(chunks[j])) = {}
   BY <1>2 DEF SeparateClauses
<1>4. ASSUME NEW i \in 1 .. Len(chunks)
      PROVE  AllCompatible(q, "PRODUCT", chunks[i])
   <2> DEFINE c == chunks[i]
   <2>1. c \in Seq(Int) /\ Varied(c)
      BY DEF SeparateClauses
   <2>2. \A k \in 1 .. Len(c) : c[k] \in ToSet(c) /\ Mentions(q, c[k]) = {IABS(c[k])}
      BY <1>1, <2>1, ToSetSeq
   <2>3. Len(c) \in Nat
      BY <2>1, LenProperties
   <2> HIDE DEF c
   <2>4. ASSUME NEW k \in 1 .. Len(c), NEW l \in 1 .. Len(c), k < l
         PROVE  Mentions(q, c[k]) \cap Mentions(q, c[l]) = {}
      <3>1. k # l
         BY <2>3, <2>4
      <3>2. IABS(c[k]) # IABS(c[l])
         BY <2>1, <3>1 DEF Varied
      <3> QED BY <2>2, <3>2
   <2>5. AllCompatible(q, "PRODUCT", c)
      BY <2>4 DEF AllCompatible, Compatible
   <2> QED BY <2>5 DEF c
<1>5. \A i \in 1 .. Len(chunks) :
           Joined(q, "SUM", ToSet(chunks[i])) = { a \in Assignments : HoldsClause(a, ToSet(chunks[i])) }
   BY <1>1 DEF Joined, HoldsClause
<1>6. AllClauses(q, chunks) =
              { a \in Assignments : \A i \in 1 .. Len(chunks) : HoldsClause(a, ToSet(chunks[i])) }
   BY <1>5 DEF AllClauses
<1>7. ClauseVariables(q, chunks) = UNION { VariablesOf(chunks[i]) : i \in 1 .. Len(chunks) }
   BY <1>2 DEF ClauseVariables
<1> QED BY <1>3, <1>4, <1>6, <1>7 DEF IndependentChunks
-----------------------------------------------------------------------------
(* The clauses given to simple_kc, place by place *)

ChunkList(s, cids, units) ==
    /\ Residue(s, cids, Residual(s)) /\ Len(cids) \in Nat
    /\ units \in Seq(Literal) /\ ToSet(units) = KeptUnits(s) /\ Len(units) \in Nat
    /\ \A i, j \in 1 .. Len(units) : units[i] = units[j] => i = j
    /\ Chunks(s) \in Seq(Seq(Literal)) /\ Len(Chunks(s)) = Len(cids) + Len(units)
    /\ \A i \in 1 .. Len(cids) : Chunks(s)[i] = Residual(s)[i]
    /\ \A k \in 1 .. Len(units) : Chunks(s)[Len(cids) + k] = << units[k] >>

LEMMA ChunkPlaces ==
  ASSUME NEW o, NEW s, Kept(o, s), ~EmptyClauseFirst(s)
  PROVE  \E cids, units : ChunkList(s, cids, units)
<1>1. PICK cids : Residue(s, cids, Residual(s))
   BY ResidualFacts
<1> DEFINE units == Ascending(KeptUnits(s))
           single == [i \in DOMAIN units |-> << units[i] >>]
           r == Residual(s)
<1>2. Chunks(s) = r \o single
   BY DEF Chunks, KeptUnits
<1>3. KeptUnits(s) \subseteq Literal
   BY DEF KeptUnits, Kept, CnfType
<1>4. KeptUnits(s) \subseteq Int /\ IsFiniteSet(KeptUnits(s))
   BY <1>3, LiteralFacts, LiteralsFinite, FS_Subset
<1>5. /\ units \in Seq(KeptUnits(s)) /\ ToSet(units) = KeptUnits(s)
      /\ \A i, j \in 1 .. Len(units) : units[i] = units[j] => i = j
   BY <1>4, AscendingEnumerates, AscendingOnce
<1> HIDE DEF units, r
<1>6. /\ DOMAIN units = 1 .. Len(units) /\ Len(units) \in Nat
      /\ \A i \in 1 .. Len(units) : units[i] \in Literal
   BY <1>3, <1>5, LenProperties, ToSetSeq
<1>7. units \in Seq(Literal)
   <2>1. units \in [1 .. Len(units) -> Literal]
      BY <1>5, <1>6
   <2> QED BY <1>6, <2>1, FunctionIsSeq
<1>8. single \in [1 .. Len(units) -> Seq(Literal)] /\ \A i \in 1 .. Len(units) : single[i] = << units[i] >>
   BY <1>6
<1> HIDE DEF single
<1>9. single \in Seq(Seq(Literal)) /\ Len(single) = Len(units)
   BY <1>6, <1>8, FunctionIsSeq
<1>10. r \in Seq(Seq(Literal)) /\ Len(r) = Len(cids) /\ cids \in Seq(ClauseId)
   BY <1>1 DEF Residue, r
<1>11. Len(cids) \in Nat
   BY <1>10, LenProperties
<1>12. /\ r \o single \in Seq(Seq(Literal)) /\ Len(r \o single) = Len(r) + Len(single)
       /\ \A i \in 1 .. Len(r) + Len(single) : (r \o single)[i] = IF i <= Len(r) THEN r[i] ELSE single[i - Len(r)]
   BY <1>9, <1>10, ConcatProperties
<1>13. ASSUME NEW i \in 1 .. Len(cids)
       PROVE  (r \o single)[i] = r[i]
   <2>1. i \in 1 .. Len(r) + Len(single) /\ i <= Len(r)
      BY <1>6, <1>9, <1>10, <1>11
   <2> QED BY <1>12, <2>1
<1>14. ASSUME NEW k \in 1 .. Len(units)
       PROVE  (r \o single)[Len(cids) + k] = << units[k] >>
   <2> DEFINE m == Len(cids) + k
   <2>1. m \in 1 .. Len(r) + Len(single) /\ ~(m <= Len(r)) /\ m - Len(r) = k
      BY <1>6, <1>9, <1>10, <1>11
   <2> HIDE DEF m
   <2>2. (r \o single)[m] = single[k]
      BY <1>12, <2>1
   <2>3. single[k] = << units[k] >>
      BY <1>8
   <2>4. (r \o single)[m] = << units[k] >>
      BY <2>2, <2>3
   <2> QED BY <2>4 DEF m
<1>15. ChunkList(s, cids, units)
   BY <1>1, <1>2, <1>5, <1>6, <1>7, <1>9, <1>10, <1>11, <1>12, <1>13, <1>14 DEF ChunkList, r
<1> QED BY <1>15
-----------------------------------------------------------------------------
(* Conflicts that can be seen *)

\* The unsatisfied clauses, and the literals that are left of them.
LEMMA ResidueFacts ==
  ASSUME NEW o, NEW s, Kept(o, s), NEW cids, Residue(s, cids, Residual(s))
  PROVE  /\ Len(cids) \in Nat /\ Len(Residual(s)) = Len(cids) /\ Residual(s) \in Seq(Seq(Literal))
         /\ \A i \in 1 .. Len(cids) :
              /\ cids[i] \in s.active_clauses /\ Lits(s, cids[i]) \cap s.unit_literals = {}
              /\ ToSet(Residual(s)[i]) = FreeLits(s, cids[i]) /\ Residual(s)[i] \in Seq(Literal)
         /\ \A c \in s.active_clauses : Lits(s, c) \cap s.unit_literals = {} =>
              \E i \in 1 .. Len(cids) : cids[i] = c
<1>1. cids \in Seq(ClauseId) /\ ToSet(cids) = Unsatisfied(s)
   BY DEF Residue
<1>2. \A c : c \in Unsatisfied(s) <=> c \in s.active_clauses /\ Lits(s, c) \cap s.unit_literals = {}
   BY DEF Unsatisfied, skip_clause
<1>3. Len(cids) \in Nat /\ \A i \in 1 .. Len(cids) : cids[i] \in Unsatisfied(s)
   BY <1>1, LenProperties, ToSetSeq
<1>4. \A c \in Unsatisfied(s) : \E i \in 1 .. Len(cids) : cids[i] = c
   BY <1>1, ToSetSeq
<1>5. /\ Residual(s) \in Seq(Seq(Literal)) /\ Len(Residual(s)) = Len(cids)
      /\ \A i \in 1 .. Len(cids) : ToSet(Residual(s)[i]) = FreeLits(s, cids[i])
   BY DEF Residue
<1>6. \A i \in 1 .. Len(cids) : Residual(s)[i] \in Seq(Literal)
   BY <1>5
<1> QED BY <1>2, <1>3, <1>4, <1>5, <1>6
LEMMA EmptyVisible ==
  ASSUME NEW p, NEW r, NEW o, NEW s, Compiles(p, r, o, s), EmptyClauseFirst(s)
  PROVE  Visible(s)
<1>1. Kept(o, s)
   BY DEF Compiles
<1>2. PICK cids : Residue(s, cids, Residual(s))
   BY <1>1, ResidualFacts
<1>3. PICK i \in DOMAIN Residual(s) : Residual(s)[i] = << >>
   BY DEF EmptyClauseFirst
<1>4. i \in 1 .. Len(cids)
   BY <1>1, <1>2, <1>3, ResidueFacts
<1>5. cids[i] \in s.active_clauses /\ FreeLits(s, cids[i]) = {}
   <2>1. ToSet(<< >>) = {}
      BY DEF ToSet
   <2>2. cids[i] \in s.active_clauses /\ ToSet(Residual(s)[i]) = FreeLits(s, cids[i])
      BY <1>1, <1>2, <1>4, ResidueFacts
   <2> QED BY <1>3, <2>1, <2>2
<1> QED BY <1>5, ActiveFacts DEF Visible
\* Clauses that are simple, none of them empty.
LEMMA SimpleVaried ==
  ASSUME NEW o, NEW s, Kept(o, s), Simple(s), ~EmptyClauseFirst(s)
  PROVE  /\ \A i \in 1 .. Len(Residual(s)) : Varied(Residual(s)[i])
         /\ \A i, j \in 1 .. Len(Residual(s)) : i < j =>
              VariablesOf(Residual(s)[i]) \cap VariablesOf(Residual(s)[j]) = {}
<1> DEFINE r == Residual(s)
           flat == FlattenSeq(r)
<1>1. IsInjective([k \in DOMAIN flat |-> IABS(flat[k])])
   BY DEF Simple
<1>2. r \in Seq(Seq(Literal))
   BY ResidualFacts DEF Residue
<1>3. flat \in Seq(Literal) /\ Literal \subseteq Int
   BY <1>2, FlattenElements, LiteralFacts
<1> HIDE DEF flat, r
<1>4. flat \in Seq(Int) /\ r \in Seq(Seq(Int))
   <2>1. Seq(Literal) \subseteq Seq(Int)
      BY <1>3, SeqMonotonic
   <2> QED BY <1>2, <1>3, <2>1, SeqMonotonic
<1>5. Varied(flat)
   BY <1>1, <1>4, VariedInjective
<1>6. Varied(FlattenSeq(r))
   BY <1>5 DEF flat
<1> QED BY <1>4, <1>6, VariedParts DEF r
LEMMA VisibleEmpty ==
  ASSUME NEW p, NEW r, NEW o, NEW s, Compiles(p, r, o, s), Simple(s), Visible(s)
  PROVE  EmptyClauseFirst(s)
<1> SUFFICES ASSUME ~EmptyClauseFirst(s)
             PROVE  FALSE
   OBVIOUS
<1> DEFINE q == Residual(s)
<1>1. Kept(o, s)
   BY DEF Compiles
<1>2. PICK cids : Residue(s, cids, q)
   BY <1>1, ResidualFacts
<1>3. PICK cid \in s.active_clauses : \A lit \in Lits(s, cid) : -lit \in s.unit_literals
   BY DEF Visible
<1>4. FreeLits(s, cid) = {} /\ Lits(s, cid) \cap s.unit_literals = {}
   BY <1>3, ActiveFacts
<1>5. PICK i \in 1 .. Len(cids) : cids[i] = cid
   BY <1>1, <1>2, <1>4, ResidueFacts
<1>6. /\ Len(cids) \in Nat /\ Len(q) = Len(cids) /\ q \in Seq(Seq(Literal))
      /\ ToSet(q[i]) = FreeLits(s, cids[i]) /\ q[i] \in Seq(Literal)
   BY <1>1, <1>2, <1>5, ResidueFacts
<1>7. \A k \in 1 .. Len(q) : Varied(q[k])
   BY <1>1, SimpleVaried
<1>8. \A k, j \in 1 .. Len(q) : k < j => VariablesOf(q[k]) \cap VariablesOf(q[j]) = {}
   BY <1>1, SimpleVaried
<1> HIDE DEF q
<1>9. q[i] = << >>
   <2>1. ToSet(q[i]) = {}
      BY <1>4, <1>5, <1>6
   <2>2. Len(q[i]) = 0
      <3>1. \A k \in 1 .. Len(q[i]) : q[i][k] \in ToSet(q[i])
         BY <1>6, ToSetSeq
      <3>2. Len(q[i]) \in Nat
         BY <1>6, LenProperties
      <3>3. 1 \notin 1 .. Len(q[i])
         BY <2>1, <3>1
      <3> QED BY <3>2, <3>3
   <2> QED BY <1>6, <2>2, EmptySeq
<1> DEFINE part == SubSeq(q, 1, i)
           flat == FlattenSeq(part)
<1>10. i \in 1 .. Len(q)
   BY <1>6
<1>11. part \in Seq(Seq(Literal)) /\ Len(part) = i /\ \A k \in 1 .. i : part[k] = q[k]
   <2>1. \A k \in 1 .. i : q[k] \in Seq(Literal) /\ k = 1 + k - 1
      BY <1>6, <1>10
   <2>2. 1 \in Int /\ i \in Int /\ 1 <= i /\ i - 1 + 1 = i
      BY <1>10
   <2> QED BY <2>1, <2>2, SubSeqProperties
<1> HIDE DEF part
<1>12. part \in Seq(Seq(Int)) /\ flat \in Seq(Int)
   <2>1. Literal \subseteq Int
      BY LiteralFacts
   <2>2. Seq(Literal) \subseteq Seq(Int)
      BY <2>1, SeqMonotonic
   <2>3. part \in Seq(Seq(Int))
      BY <1>11, <2>2, SeqMonotonic
   <2> HIDE DEF flat
   <2>4. FlattenSeq(part) \in Seq(Int)
      BY <2>3, FlattenElements
   <2> QED BY <2>3, <2>4 DEF flat
<1>13. Varied(FlattenSeq(part))
   <2>1. \A k \in 1 .. i : k \in 1 .. Len(q)
      BY <1>6, <1>10
   <2>2. /\ \A k \in 1 .. Len(part) : Varied(part[k])
         /\ \A k, j \in 1 .. Len(part) : k < j => VariablesOf(part[k]) \cap VariablesOf(part[j]) = {}
      BY <1>7, <1>8, <1>11, <2>1
   <2> QED BY <1>12, <2>2, VariedParts
<1>14. IsInjective([k \in DOMAIN flat |-> IABS(flat[k])])
   BY <1>12, <1>13, VariedInjective
<1>15. i \in DOMAIN q
   BY <1>6, <1>10, LenProperties
<1> QED BY <1>9, <1>14, <1>15 DEF EmptyClauseFirst, q, part

-----------------------------------------------------------------------------
(* At the leaves of the recursion *)

\* The numbers of nodes are not those of input variables.
LEMMA NumberedFacts ==
  ASSUME NEW p, NEW r, Compilable(p, r)
  PROVE  /\ \A v \in Numbered(p, r) : v \in Variables /\ v \notin InputVariables
         /\ \A lit \in Literal : IABS(lit) \in Numbered(p, r) => is_node(lit)
         /\ \A lit \in Literal : IABS(lit) \in InputVariables => ~is_node(lit)
<1>1. /\ LastNumber(p, r) \in Nat /\ LastNumber(p, r) <= NVar /\ NInput <= LastNumber(p, r)
      /\ NVar \in Nat /\ NVar < TAUTOLOGY /\ NInput \in Nat /\ TAUTOLOGY \in Nat
   BY LastNumberFacts
<1>2. ASSUME NEW v \in Numbered(p, r)
      PROVE  v \in NInput + 1 .. NVar
   <2>1. PICK id \in Reachable(p, ToSet(r)) : v = NodeRemap(p, ToSet(r))[id]
      BY DEF Numbered
   <2>2. v \in RemapRange(ToSet(r), p)
      BY <2>1, RemapFacts DEF Compilable
   <2> QED BY <1>1, <2>2 DEF RemapRange, LastNumber
<1>3. \A v \in Numbered(p, r) : v \in Variables /\ v \notin InputVariables
   BY <1>1, <1>2 DEF Variables, InputVariables
<1>4. \A lit \in Literal : IABS(lit) \in Numbered(p, r) => is_node(lit)
   BY <1>1, <1>2 DEF is_node
<1>5. \A lit \in Literal : IABS(lit) \in InputVariables => ~is_node(lit)
   BY <1>1 DEF is_node, InputVariables
<1> QED BY <1>3, <1>4, <1>5

\* Every clause of the object is one of clausify's.
LEMMA ClauseContents ==
  ASSUME NEW p, NEW r, NEW o, NEW s, Compiles(p, r, o, s)
  PROVE  /\ AllContents(p, r) = { Lits(s, cid) : cid \in DOMAIN s.clauses }
         /\ \A cid \in DOMAIN s.clauses : \A lit \in Lits(s, cid) :
              /\ lit \in Literal
              /\ IABS(lit) \in InputVariables \cup Numbered(p, r)
              /\ IABS(lit) \in InputVariables => IABS(lit) \in s.data_variables
<1>1. s.clauses = o.clauses /\ s.data_variables = o.data_variables
   BY DEF Compiles, Kept
<1>2. /\ { Lits(o, cid) : cid \in DOMAIN o.clauses } = AllContents(p, r)
      /\ \A lits \in AllContents(p, r) : \A x \in lits : IABS(x) <= NInput => IABS(x) \in o.data_variables
   BY DEF Compiles, FromClausify
<1>3. AllContents(p, r) = { Lits(s, cid) : cid \in DOMAIN s.clauses }
   BY <1>1, <1>2 DEF Lits
<1>4. ASSUME NEW cid \in DOMAIN s.clauses, NEW lit \in Lits(s, cid)
      PROVE  /\ lit \in Literal
             /\ IABS(lit) \in InputVariables \cup Numbered(p, r)
             /\ IABS(lit) \in InputVariables => IABS(lit) \in s.data_variables
   <2>1. Lits(s, cid) \in AllContents(p, r)
      BY <1>3
   <2>2. lit \in Literal /\ IABS(lit) \in InputVariables \cup Numbered(p, r)
      BY <2>1, ContentsFacts, ContentsVariables DEF Compiles
   <2>3. IABS(lit) \in InputVariables => IABS(lit) <= NInput
      BY LastNumberFacts DEF InputVariables, Compiles
   <2> QED BY <1>1, <1>2, <2>1, <2>2, <2>3
<1> QED BY <1>3, <1>4

\* All that has to be known of an object whose clauses are simple.
LeafObject(p, r, o, s) ==
    /\ Compiles(p, r, o, s) /\ Right(p, r, s)
    /\ Simple(s) /\ ~EmptyClauseFirst(s)
    /\ Settled(s) /\ RetiredSatisfied(s)

\* The variables of all nodes have values.
LEMMA DecidedNodes ==
  ASSUME NEW p, NEW r, NEW o, NEW s, LeafObject(p, r, o, s), NEW v \in Numbered(p, r)
  PROVE  v \in s.unit_literals \/ -v \in s.unit_literals
<1> SUFFICES ASSUME v \notin s.unit_literals, -v \notin s.unit_literals
             PROVE  FALSE
   OBVIOUS
<1> DEFINE q == Residual(s)
<1>1. /\ Compilable(p, r) /\ FromClausify(p, r, o) /\ Kept(o, s)
      /\ Simple(s) /\ ~EmptyClauseFirst(s) /\ Settled(s) /\ RetiredSatisfied(s)
   BY DEF LeafObject, Compiles
<1>2. PICK id \in Reachable(p, ToSet(r)) : v = NodeRemap(p, ToSet(r))[id]
   BY DEF Numbered
<1>3. InBothPhases(s, v)
   BY <1>1, <1>2, BothPhases
<1>4. v \in Variables /\ v # -v /\ IABS(v) = v /\ IABS(-v) = v
   BY <1>1, NumberedFacts, VariableFacts
<1>5. PICK cids : Residue(s, cids, q)
   BY <1>1, ResidualFacts
<1>6. /\ Len(cids) \in Nat /\ Len(q) = Len(cids)
      /\ \A i \in 1 .. Len(cids) : ToSet(q[i]) = FreeLits(s, cids[i]) /\ q[i] \in Seq(Literal)
      /\ \A c \in s.active_clauses : Lits(s, c) \cap s.unit_literals = {} =>
           \E i \in 1 .. Len(cids) : cids[i] = c
   BY <1>1, <1>5, ResidueFacts
<1>7. /\ \A i \in 1 .. Len(q) : Varied(q[i])
      /\ \A i, j \in 1 .. Len(q) : i < j => VariablesOf(q[i]) \cap VariablesOf(q[j]) = {}
   BY <1>1, SimpleVaried
<1> HIDE DEF q
<1>8. ASSUME NEW x \in {v, -v}
      PROVE  \E i \in 1 .. Len(cids) : x \in ToSet(q[i])
   <2>1. PICK c \in s.active_clauses : x \in FreeLits(s, c) /\ Lits(s, c) \cap s.unit_literals = {}
      BY <1>3 DEF InBothPhases
   <2>2. PICK i \in 1 .. Len(cids) : cids[i] = c
      BY <1>6, <2>1
   <2> QED BY <1>6, <2>1, <2>2
<1>9. PICK i \in 1 .. Len(cids) : v \in ToSet(q[i])
   BY <1>8
<1>10. PICK j \in 1 .. Len(cids) : -v \in ToSet(q[j])
   BY <1>8
<1>11. v \in VariablesOf(q[i]) /\ v \in VariablesOf(q[j])
   BY <1>4, <1>9, <1>10 DEF VariablesOf
<1>12. i = j
   <2>1. ~(i < j) /\ ~(j < i)
      BY <1>6, <1>7, <1>11
   <2> QED BY <1>6, <2>1
<1>13. PICK k \in 1 .. Len(q[i]) : q[i][k] = v
   BY <1>6, <1>9, ToSetSeq
<1>14. PICK l \in 1 .. Len(q[i]) : q[i][l] = -v
   BY <1>6, <1>10, <1>12, ToSetSeq
<1>15. k = l
   BY <1>4, <1>6, <1>7, <1>13, <1>14 DEF Varied
<1> QED BY <1>4, <1>13, <1>14, <1>15

\* So the clauses that are left are over input variables without values.
LEMMA LeafClauses ==
  ASSUME NEW p, NEW r, NEW o, NEW s, LeafObject(p, r, o, s), NEW cid \in s.active_clauses,
         Lits(s, cid) \cap s.unit_literals = {}, NEW x \in FreeLits(s, cid)
  PROVE  /\ x \in Literal /\ x \in Lits(s, cid) /\ IABS(x) \in InputVariables
         /\ x \notin s.unit_literals /\ -x \notin s.unit_literals
<1>1. Compiles(p, r, o, s)
   BY DEF LeafObject
<1>2. x \in Lits(s, cid) /\ -x \notin s.unit_literals /\ x \notin s.unit_literals
   BY <1>1, ActiveFacts
<1>3. cid \in DOMAIN s.clauses
   BY <1>1, ActiveFacts
<1>4. x \in Literal /\ IABS(x) \in InputVariables \cup Numbered(p, r)
   BY <1>1, <1>2, <1>3, ClauseContents
<1>5. IABS(x) \notin Numbered(p, r)
   <2>1. x = IABS(x) \/ (x = -IABS(x) /\ -x = IABS(x))
      BY <1>4, LiteralFacts
   <2>2. IABS(x) \notin s.unit_literals
      BY <1>2, <2>1
   <2>3. -IABS(x) \notin s.unit_literals
      BY <1>2, <1>4, <2>1, LiteralFacts
   <2> QED BY <2>2, <2>3, DecidedNodes
<1> QED BY <1>2, <1>4, <1>5

\* The clauses, and the unit literals, given to simple_kc.
LEMMA PlaceCases ==
  ASSUME NEW s, NEW cids, NEW units, ChunkList(s, cids, units), NEW m \in 1 .. Len(Chunks(s))
  PROVE  \/ m \in 1 .. Len(cids) /\ Chunks(s)[m] = Residual(s)[m]
         \/ \E k \in 1 .. Len(units) : m = Len(cids) + k /\ Chunks(s)[m] = << units[k] >>
<1>1. /\ Len(cids) \in Nat /\ Len(units) \in Nat /\ Len(Chunks(s)) = Len(cids) + Len(units)
      /\ \A i \in 1 .. Len(cids) : Chunks(s)[i] = Residual(s)[i]
      /\ \A k \in 1 .. Len(units) : Chunks(s)[Len(cids) + k] = << units[k] >>
   BY DEF ChunkList
<1> DEFINE c == Chunks(s)
           n == Len(cids)
           l == Len(units)
<1>2. m \in 1 .. n + l /\ n \in Nat /\ l \in Nat
   BY <1>1
<1>3. \A k \in 1 .. l : c[n + k] = << units[k] >>
   BY <1>1
<1> HIDE DEF c, n, l
<1>4. CASE m \in 1 .. n
   BY <1>1, <1>4 DEF n
<1>5. CASE m \notin 1 .. n
   <2> DEFINE k == m - n
   <2>1. k \in 1 .. l /\ m = n + k
      BY <1>2, <1>5
   <2> HIDE DEF k
   <2>2. c[n + k] = << units[k] >>
      BY <1>3, <2>1
   <2>3. k \in 1 .. Len(units) /\ m = Len(cids) + k /\ Chunks(s)[m] = << units[k] >>
      BY <2>1, <2>2 DEF c, n, l
   <2> QED BY <2>3
<1> QED BY <1>4, <1>5

LEMMA SingleFacts ==
  ASSUME NEW u \in Literal
  PROVE  << u >> \in Seq(Literal) /\ ToSet(<< u >>) = {u} /\ Varied(<< u >>) /\ VariablesOf(<< u >>) = {IABS(u)}
<1>1. u \in Int
   BY LiteralFacts
<1>2. ToSet(<< u >>) = {u}
   BY <1>1, ToSetOne
<1>3. Varied(<< u >>)
   BY DEF Varied
<1> QED BY <1>2, <1>3 DEF VariablesOf

\* What is said of the clause at one place.
LeafPlace(s, cids, units, c) ==
    \/ \E i \in 1 .. Len(cids) :
         /\ c = Residual(s)[i] /\ cids[i] \in s.active_clauses /\ Lits(s, cids[i]) \cap s.unit_literals = {}
         /\ ToSet(c) = FreeLits(s, cids[i])
         /\ \A x \in ToSet(c) : /\ x \in Literal /\ x \in Lits(s, cids[i]) /\ IABS(x) \in InputVariables
                                /\ x \notin s.unit_literals /\ -x \notin s.unit_literals
    \/ \E u \in KeptUnits(s) : /\ c = << u >> /\ ToSet(c) = {u} /\ u \in Literal /\ IABS(u) \in InputVariables
                               /\ u \in s.unit_literals /\ u \in s.bcp_unit_literals

LEMMA KeptUnitFacts ==
  ASSUME NEW p, NEW r, NEW o, NEW s, Compiles(p, r, o, s), NEW u \in KeptUnits(s)
  PROVE  u \in Literal /\ IABS(u) \in InputVariables /\ u \in s.unit_literals /\ u \in s.bcp_unit_literals
<1>1. u \in s.bcp_unit_literals /\ IABS(u) \in s.data_variables
   BY DEF KeptUnits, is_data_variable
<1>2. s.bcp_unit_literals \subseteq s.unit_literals /\ s.data_variables \subseteq InputVariables
      /\ s.bcp_unit_literals \subseteq Literal
   BY DEF Compiles, Kept, FromClausify, CnfType
<1> QED BY <1>1, <1>2

LEMMA LeafPlaces ==
  ASSUME NEW p, NEW r, NEW o, NEW s, LeafObject(p, r, o, s), NEW cids, NEW units, ChunkList(s, cids, units),
         NEW m \in 1 .. Len(Chunks(s))
  PROVE  LeafPlace(s, cids, units, Chunks(s)[m])
<1>1. Compiles(p, r, o, s) /\ Kept(o, s)
   BY DEF LeafObject, Compiles
<1>2. Residue(s, cids, Residual(s)) /\ ToSet(units) = KeptUnits(s) /\ units \in Seq(Literal)
   BY DEF ChunkList
<1> DEFINE c == Chunks(s)[m]
<1>3. CASE m \in 1 .. Len(cids) /\ c = Residual(s)[m]
   <2>1. /\ cids[m] \in s.active_clauses /\ Lits(s, cids[m]) \cap s.unit_literals = {}
         /\ ToSet(c) = FreeLits(s, cids[m])
      BY <1>1, <1>2, <1>3, ResidueFacts
   <2>2. \A x \in ToSet(c) : /\ x \in Literal /\ x \in Lits(s, cids[m]) /\ IABS(x) \in InputVariables
                             /\ x \notin s.unit_literals /\ -x \notin s.unit_literals
      BY <2>1, LeafClauses
   <2> QED BY <1>3, <2>1, <2>2 DEF LeafPlace
<1>4. ASSUME NEW k \in 1 .. Len(units), c = << units[k] >>
      PROVE  LeafPlace(s, cids, units, c)
   <2>1. units[k] \in KeptUnits(s)
      BY <1>2, ToSetSeq
   <2>2. /\ units[k] \in Literal /\ IABS(units[k]) \in InputVariables /\ units[k] \in s.unit_literals
         /\ units[k] \in s.bcp_unit_literals
      BY <1>1, <2>1, KeptUnitFacts
   <2>3. ToSet(c) = {units[k]}
      BY <1>4, <2>2, SingleFacts
   <2> QED BY <1>4, <2>1, <2>2, <2>3 DEF LeafPlace
<1> QED BY <1>3, <1>4, PlaceCases

\* Clauses at two places have no variable in common.
LEMMA LeafDisjoint ==
  ASSUME NEW p, NEW r, NEW o, NEW s, LeafObject(p, r, o, s), NEW cids, NEW units, ChunkList(s, cids, units),
         NEW m \in 1 .. Len(Chunks(s)), NEW n \in 1 .. Len(Chunks(s)), m < n
  PROVE  VariablesOf(Chunks(s)[m]) \cap VariablesOf(Chunks(s)[n]) = {}
<1>1. Compiles(p, r, o, s) /\ Kept(o, s) /\ Simple(s) /\ ~EmptyClauseFirst(s)
   BY DEF LeafObject, Compiles
<1>2. /\ Residue(s, cids, Residual(s)) /\ ToSet(units) = KeptUnits(s) /\ units \in Seq(Literal)
      /\ Len(cids) \in Nat /\ Len(units) \in Nat /\ Len(Chunks(s)) = Len(cids) + Len(units)
      /\ \A i, j \in 1 .. Len(units) : units[i] = units[j] => i = j
   BY DEF ChunkList
<1>3. \A lit \in s.unit_literals : -lit \notin s.unit_literals
   BY <1>1, ActiveFacts
<1>4. \A k \in 1 .. Len(units) : units[k] \in KeptUnits(s)
   BY <1>2, ToSetSeq
<1>5. \A k \in 1 .. Len(units) : /\ units[k] \in Literal /\ units[k] \in s.unit_literals
                                 /\ VariablesOf(<< units[k] >>) = {IABS(units[k])}
   BY <1>1, <1>4, KeptUnitFacts, SingleFacts
<1>6. /\ \A i, j \in 1 .. Len(Residual(s)) : i < j => VariablesOf(Residual(s)[i]) \cap VariablesOf(Residual(s)[j]) = {}
      /\ Len(Residual(s)) = Len(cids)
   BY <1>1, <1>2, SimpleVaried, ResidueFacts
<1>7. CASE m \in 1 .. Len(cids) /\ n \in 1 .. Len(cids)
   <2>1. Chunks(s)[m] = Residual(s)[m] /\ Chunks(s)[n] = Residual(s)[n]
      BY <1>7 DEF ChunkList
   <2> QED BY <1>6, <1>7, <2>1
<1>8. ASSUME m \in 1 .. Len(cids), NEW k \in 1 .. Len(units), Chunks(s)[n] = << units[k] >>
      PROVE  VariablesOf(Chunks(s)[m]) \cap VariablesOf(Chunks(s)[n]) = {}
   <2>1. Chunks(s)[m] = Residual(s)[m]
      BY <1>8 DEF ChunkList
   <2>2. /\ cids[m] \in s.active_clauses /\ Lits(s, cids[m]) \cap s.unit_literals = {}
         /\ ToSet(Residual(s)[m]) = FreeLits(s, cids[m])
      BY <1>1, <1>2, <1>8, ResidueFacts
   <2>3. \A x \in ToSet(Chunks(s)[m]) : x \in Literal /\ x \notin s.unit_literals /\ -x \notin s.unit_literals
      BY <2>1, <2>2, LeafClauses
   <2>4. \A x \in ToSet(Chunks(s)[m]) : IABS(x) # IABS(units[k])
      BY <1>5, <2>3, SameVariable
   <2> QED BY <1>5, <1>8, <2>4 DEF VariablesOf
<1>9. ASSUME NEW i \in 1 .. Len(units), m = Len(cids) + i, Chunks(s)[m] = << units[i] >>,
             NEW k \in 1 .. Len(units), n = Len(cids) + k, Chunks(s)[n] = << units[k] >>
      PROVE  VariablesOf(Chunks(s)[m]) \cap VariablesOf(Chunks(s)[n]) = {}
   <2>1. i # k
      BY <1>2, <1>9
   <2>2. units[i] # units[k] /\ units[i] # -units[k]
      BY <1>2, <1>3, <1>5, <2>1
   <2>3. IABS(units[i]) # IABS(units[k])
      BY <1>5, <2>2, SameVariable
   <2> QED BY <1>5, <1>9, <2>3
<1>10. \/ m \in 1 .. Len(cids)
       \/ \E i \in 1 .. Len(units) : m = Len(cids) + i /\ Chunks(s)[m] = << units[i] >>
   <2>1. \/ m \in 1 .. Len(cids) /\ Chunks(s)[m] = Residual(s)[m]
         \/ \E i \in 1 .. Len(units) : m = Len(cids) + i /\ Chunks(s)[m] = << units[i] >>
      BY PlaceCases
   <2> QED BY <2>1
<1>11. \/ n \in 1 .. Len(cids)
       \/ \E k \in 1 .. Len(units) : n = Len(cids) + k /\ Chunks(s)[n] = << units[k] >>
   <2>1. \/ n \in 1 .. Len(cids) /\ Chunks(s)[n] = Residual(s)[n]
         \/ \E k \in 1 .. Len(units) : n = Len(cids) + k /\ Chunks(s)[n] = << units[k] >>
      BY PlaceCases
   <2> QED BY <2>1
<1>12. n \in 1 .. Len(cids) => m \in 1 .. Len(cids)
   BY <1>2
<1> QED BY <1>7, <1>8, <1>9, <1>10, <1>11, <1>12

LEMMA LeafSeparate ==
  ASSUME NEW p, NEW r, NEW o, NEW s, LeafObject(p, r, o, s), NEW cids, NEW units, ChunkList(s, cids, units)
  PROVE  SeparateClauses(Chunks(s))
<1>1. Kept(o, s) /\ Simple(s) /\ ~EmptyClauseFirst(s)
   BY DEF LeafObject, Compiles
<1>2. Residue(s, cids, Residual(s)) /\ Chunks(s) \in Seq(Seq(Literal))
   BY DEF ChunkList
<1>3. /\ \A i \in 1 .. Len(Residual(s)) : Varied(Residual(s)[i])
      /\ Len(Residual(s)) = Len(cids)
   BY <1>1, <1>2, SimpleVaried, ResidueFacts
<1>4. Seq(Literal) \subseteq Seq(Int)
   <2>1. Literal \subseteq Int
      BY LiteralFacts
   <2> QED BY <2>1, SeqMonotonic
<1>5. ASSUME NEW m \in 1 .. Len(Chunks(s))
      PROVE  /\ Chunks(s)[m] \in Seq(Int) /\ Varied(Chunks(s)[m])
             /\ VariablesOf(Chunks(s)[m]) \subseteq InputVariables
   <2> DEFINE c == Chunks(s)[m]
   <2>1. c \in Seq(Int)
      <3>1. c \in Seq(Literal)
         BY <1>2
      <3> QED BY <1>4, <3>1
   <2>2. LeafPlace(s, cids, units, c)
      BY LeafPlaces
   <2> HIDE DEF c
   <2>3. VariablesOf(c) \subseteq InputVariables
      BY <2>2 DEF LeafPlace, VariablesOf
   <2>4. Varied(c)
      <3>1. ASSUME NEW i \in 1 .. Len(cids), c = Residual(s)[i]
            PROVE  Varied(c)
         BY <1>3, <3>1
      <3>2. ASSUME NEW u \in Literal, c = << u >>
            PROVE  Varied(c)
         BY <3>2, SingleFacts
      <3> QED BY <2>2, <3>1, <3>2 DEF LeafPlace
   <2> QED BY <2>1, <2>3, <2>4 DEF c
<1> QED BY <1>5, LeafDisjoint DEF SeparateClauses

\* An extension does not change the inputs.
LEMMA ExtensionInputs ==
  ASSUME NEW p, NEW r, Compilable(p, r), NEW a \in Assignments,
         NEW lit \in Literal, IABS(lit) \in InputVariables
  PROVE  Holds(Extension(p, r, a), lit) <=> Holds(a, lit)
<1>1. IABS(lit) \in Extension(p, r, a) <=> IABS(lit) \in a
   BY ExtensionNodes
<1> QED BY <1>1, HoldsAgree

\* A solution agrees with the inputs that have been asserted.
LEMMA SolutionGiven ==
  ASSUME NEW p, NEW r, Compilable(p, r), NEW A, A \subseteq Literal,
         \A lit \in A : IABS(lit) \in InputVariables \cup Numbered(p, r)
  PROVE  Solutions(p, r, A) \subseteq Given(A)
<1> SUFFICES ASSUME NEW a \in Solutions(p, r, A)
             PROVE  a \in Given(A)
   OBVIOUS
<1>1. a \in Assignments
   <2>1. \A e : IsEdge(p, e) => Meaning(p, e) \in SUBSET Assignments
      BY Negation DEF Compilable, Negates
   <2>2. IsEdge(p, r[1])
      BY RootPair DEF Compilable, ProperRoots
   <2> QED BY <2>1, <2>2 DEF Solutions, Common
<1>2. ASSUME NEW lit \in A, ~is_node(lit)
      PROVE  Holds(a, lit)
   <2>1. IABS(lit) \in InputVariables
      BY <1>2, NumberedFacts
   <2>2. Holds(Extension(p, r, a), lit)
      BY DEF Solutions
   <2> QED BY <1>1, <2>1, <2>2, ExtensionInputs
<1> QED BY <1>1, <1>2 DEF Given

LEMMA AssertionFacts ==
  ASSUME NEW p, NEW r, NEW o, NEW s, Compiles(p, r, o, s), Right(p, r, s)
  PROVE  /\ Assertion(s) \subseteq Literal /\ Assertion(s) \subseteq s.unit_literals
         /\ \A lit \in Assertion(s) : /\ IABS(lit) \in InputVariables \cup Numbered(p, r)
                                      /\ -lit \notin Assertion(s) /\ -lit \notin s.unit_literals
                                      /\ lit \notin s.bcp_unit_literals
<1>1. s.unit_literals \subseteq Literal /\ \A lit \in s.unit_literals : -lit \notin s.unit_literals
   BY DEF Compiles, Kept, CnfType
<1> QED BY <1>1 DEF Assertion, Right

-----------------------------------------------------------------------------
(* The clauses that are left have the right models *)

LeafModels(s) ==
    { a \in Assignments : \A i \in 1 .. Len(Chunks(s)) : HoldsClause(a, ToSet(Chunks(s)[i])) }

LEMMA LeafSound ==
  ASSUME NEW p, NEW r, NEW o, NEW s, LeafObject(p, r, o, s), NEW cids, NEW units, ChunkList(s, cids, units)
  PROVE  Solutions(p, r, Assertion(s)) \subseteq LeafModels(s)
<1> SUFFICES ASSUME NEW a \in Solutions(p, r, Assertion(s))
             PROVE  a \in LeafModels(s)
   OBVIOUS
<1>1. Compiles(p, r, o, s) /\ Implied(p, r, s) /\ Compilable(p, r)
   BY DEF LeafObject, Right, Compiles
<1>2. /\ a \in Assignments
      /\ \A cid \in DOMAIN s.clauses : \E lit \in Lits(s, cid) : Holds(Extension(p, r, a), lit)
      /\ \A lit \in s.unit_literals : lit \in Literal /\ Holds(Extension(p, r, a), lit) /\ ~Holds(Extension(p, r, a), -lit)
   BY <1>1, SolutionFacts
<1>3. ASSUME NEW i \in 1 .. Len(Chunks(s))
      PROVE  HoldsClause(a, ToSet(Chunks(s)[i]))
   <2> DEFINE c == Chunks(s)[i]
   <2>1. LeafPlace(s, cids, units, c)
      BY LeafPlaces
   <2> HIDE DEF c
   <2>2. CASE \E k \in 1 .. Len(cids) :
                /\ c = Residual(s)[k] /\ cids[k] \in s.active_clauses /\ Lits(s, cids[k]) \cap s.unit_literals = {}
                /\ ToSet(c) = FreeLits(s, cids[k])
                /\ \A x \in ToSet(c) : /\ x \in Literal /\ x \in Lits(s, cids[k]) /\ IABS(x) \in InputVariables
                                       /\ x \notin s.unit_literals /\ -x \notin s.unit_literals
      <3>1. PICK k \in 1 .. Len(cids) :
                /\ cids[k] \in s.active_clauses
                /\ ToSet(c) = FreeLits(s, cids[k])
                /\ \A x \in ToSet(c) : x \in Literal /\ IABS(x) \in InputVariables
         BY <2>2
      <3>2. /\ cids[k] \in DOMAIN s.clauses /\ Lits(s, cids[k]) \subseteq Literal
            /\ FreeLits(s, cids[k]) = { lit \in Lits(s, cids[k]) : -lit \notin s.unit_literals }
         BY <1>1, <3>1, ActiveFacts
      <3>3. PICK l \in Lits(s, cids[k]) : Holds(Extension(p, r, a), l)
         BY <1>2, <3>2
      <3>4. -l \notin s.unit_literals
         <4>1. l \in Literal /\ -(-l) = l
            BY <3>2, LiteralFacts
         <4>2. -l \in s.unit_literals => ~Holds(Extension(p, r, a), -(-l))
            BY <1>2
         <4> QED BY <3>3, <4>1, <4>2
      <3>5. l \in ToSet(c)
         BY <3>1, <3>2, <3>4
      <3>6. Holds(a, l)
         BY <1>1, <1>2, <3>1, <3>3, <3>5, ExtensionInputs
      <3> QED BY <3>5, <3>6 DEF HoldsClause, c
   <2>3. CASE \E u \in KeptUnits(s) : /\ c = << u >> /\ ToSet(c) = {u} /\ u \in Literal /\ IABS(u) \in InputVariables
                                      /\ u \in s.unit_literals /\ u \in s.bcp_unit_literals
      <3>1. PICK u \in KeptUnits(s) : /\ ToSet(c) = {u} /\ u \in Literal /\ IABS(u) \in InputVariables
                                      /\ u \in s.unit_literals
         BY <2>3
      <3>2. Holds(a, u)
         BY <1>1, <1>2, <3>1, ExtensionInputs
      <3> QED BY <3>1, <3>2 DEF HoldsClause, c
   <2> QED BY <2>1, <2>2, <2>3 DEF LeafPlace
<1> QED BY <1>2, <1>3 DEF LeafModels

\* An assignment of the inputs, with the node variables that are unit literals.
Completed(p, r, s, a) == a \cup { v \in Numbered(p, r) : v \in s.unit_literals }

LEMMA CompletedFacts ==
  ASSUME NEW p, NEW r, NEW o, NEW s, LeafObject(p, r, o, s), NEW a \in Assignments,
         NEW b, b = Completed(p, r, s, a)
  PROVE  /\ b \in SUBSET Variables /\ b \cap InputVariables = a
         /\ \A lit \in Literal : IABS(lit) \in InputVariables => (Holds(b, lit) <=> Holds(a, lit))
         /\ \A lit \in s.unit_literals : IABS(lit) \in Numbered(p, r) => Holds(b, lit)
<1>1. Compilable(p, r) /\ Compiles(p, r, o, s)
   BY DEF LeafObject, Compiles
<1>2. \A v \in Numbered(p, r) : v \in Variables /\ v \notin InputVariables
   BY <1>1, NumberedFacts
<1>3. InputVariables \subseteq Variables
   <2>1. LastNumber(p, r) \in Nat /\ LastNumber(p, r) <= NVar /\ NInput <= LastNumber(p, r) /\ NVar \in Nat /\ NInput \in Nat
      BY <1>1, LastNumberFacts
   <2> QED BY <2>1 DEF InputVariables, Variables
<1>4. a \subseteq InputVariables
   BY DEF Assignments
<1>5. b \in SUBSET Variables /\ b \cap InputVariables = a
   BY <1>2, <1>3, <1>4 DEF Completed
<1>6. ASSUME NEW lit \in Literal, IABS(lit) \in InputVariables
      PROVE  Holds(b, lit) <=> Holds(a, lit)
   <2>1. IABS(lit) \in b <=> IABS(lit) \in a
      BY <1>5, <1>6
   <2> QED BY <2>1, HoldsAgree
<1>7. ASSUME NEW lit \in s.unit_literals, IABS(lit) \in Numbered(p, r)
      PROVE  Holds(b, lit)
   <2>1. lit \in Literal /\ -lit \notin s.unit_literals
      BY <1>1 DEF Compiles, Kept, CnfType
   <2>2. IABS(lit) \notin a
      BY <1>2, <1>4, <1>7
   <2>3. CASE lit = IABS(lit)
      <3>1. lit \in b /\ lit \in Variables
         BY <1>2, <1>7, <2>3 DEF Completed
      <3> QED BY <3>1 DEF Holds, Variables
   <2>4. CASE lit = -IABS(lit)
      <3>1. IABS(lit) \in Variables /\ -lit = IABS(lit)
         BY <1>2, <1>7, <2>4, VariableFacts
      <3>2. -lit \notin b
         BY <2>1, <2>2, <3>1 DEF Completed
      <3>3. ~(lit > 0)
         BY <2>4, <3>1 DEF Variables
      <3> QED BY <3>2, <3>3 DEF Holds
   <2> QED BY <2>1, <2>3, <2>4, LiteralFacts
<1> QED BY <1>5, <1>6, <1>7

LEMMA CompletedFulfils ==
  ASSUME NEW p, NEW r, NEW o, NEW s, LeafObject(p, r, o, s), NEW cids, NEW units, ChunkList(s, cids, units),
         NEW a \in LeafModels(s), a \in Given(Assertion(s)),
         NEW b, b = Completed(p, r, s, a)
  PROVE  Fulfils(b, AllContents(p, r))
<1>1. /\ Compilable(p, r) /\ Compiles(p, r, o, s) /\ Right(p, r, s) /\ Kept(o, s)
      /\ RetiredSatisfied(s)
   BY DEF LeafObject, Compiles
<1>2. a \in Assignments /\ \A i \in 1 .. Len(Chunks(s)) : HoldsClause(a, ToSet(Chunks(s)[i]))
   BY DEF LeafModels
<1>3. /\ \A lit \in Literal : IABS(lit) \in InputVariables => (Holds(b, lit) <=> Holds(a, lit))
      /\ \A lit \in s.unit_literals : IABS(lit) \in Numbered(p, r) => Holds(b, lit)
   BY <1>2, CompletedFacts
<1>4. /\ Residue(s, cids, Residual(s)) /\ ToSet(units) = KeptUnits(s) /\ units \in Seq(Literal)
      /\ Len(cids) \in Nat /\ Len(units) \in Nat /\ Len(Chunks(s)) = Len(cids) + Len(units)
      /\ \A i \in 1 .. Len(cids) : Chunks(s)[i] = Residual(s)[i]
      /\ \A k \in 1 .. Len(units) : Chunks(s)[Len(cids) + k] = << units[k] >>
   BY DEF ChunkList
\* A unit literal that occurs in a clause is true.
<1>5. ASSUME NEW cid \in DOMAIN s.clauses, NEW lit \in Lits(s, cid), lit \in s.unit_literals
      PROVE  Holds(b, lit)
   <2>1. /\ lit \in Literal
         /\ IABS(lit) \in InputVariables \cup Numbered(p, r)
         /\ IABS(lit) \in InputVariables => IABS(lit) \in s.data_variables
      BY <1>1, ClauseContents
   <2>2. CASE IABS(lit) \in Numbered(p, r)
      BY <1>3, <1>5, <2>2
   <2>3. CASE IABS(lit) \in InputVariables /\ lit \in Assertion(s)
      <3>1. ~is_node(lit)
         BY <1>1, <2>1, <2>3, NumberedFacts
      <3>2. Holds(a, lit)
         BY <2>3, <3>1 DEF Given
      <3> QED BY <1>3, <2>1, <2>3, <3>2
   <2>4. CASE IABS(lit) \in InputVariables /\ lit \notin Assertion(s)
      <3>1. lit \in KeptUnits(s)
         BY <1>5, <2>1, <2>4 DEF KeptUnits, Assertion, is_data_variable
      <3>2. PICK k \in 1 .. Len(units) : units[k] = lit
         BY <1>4, <3>1, ToSetSeq
      <3> DEFINE m == Len(cids) + k
      <3>3. m \in 1 .. Len(Chunks(s)) /\ Chunks(s)[m] = << lit >>
         BY <1>4, <3>2
      <3> HIDE DEF m
      <3>4. ToSet(Chunks(s)[m]) = {lit}
         BY <2>1, <3>3, SingleFacts
      <3>5. Holds(a, lit)
         BY <1>2, <3>3, <3>4 DEF HoldsClause
      <3> QED BY <1>3, <2>1, <2>4, <3>5
   <2> QED BY <2>1, <2>2, <2>3, <2>4
<1>6. ASSUME NEW cid \in DOMAIN s.clauses
      PROVE  HoldsClause(b, Lits(s, cid))
   <2>1. CASE Lits(s, cid) \cap s.unit_literals # {}
      <3>1. PICK lit \in Lits(s, cid) : lit \in s.unit_literals
         BY <2>1
      <3>2. Holds(b, lit)
         BY <1>5, <3>1
      <3> QED BY <3>2 DEF HoldsClause
   <2>2. CASE Lits(s, cid) \cap s.unit_literals = {}
      <3>1. cid \in s.active_clauses
         BY <1>1, <2>2 DEF RetiredSatisfied
      <3>2. PICK i \in 1 .. Len(cids) : cids[i] = cid
         <4>1. Residue(s, cids, Residual(s)) /\ Kept(o, s)
            BY <1>1, <1>4
         <4>2. \A c \in s.active_clauses : Lits(s, c) \cap s.unit_literals = {} => \E i \in 1 .. Len(cids) : cids[i] = c
            BY <4>1, ResidueFacts
         <4> QED BY <2>2, <3>1, <4>2
      <3>3. ToSet(Residual(s)[i]) = FreeLits(s, cid)
         BY <1>1, <1>4, <3>2, ResidueFacts
      <3>4. i \in 1 .. Len(Chunks(s)) /\ Chunks(s)[i] = Residual(s)[i]
         BY <1>4
      <3>5. PICK x \in FreeLits(s, cid) : Holds(a, x)
         BY <1>2, <3>3, <3>4 DEF HoldsClause
      <3>6. x \in Literal /\ x \in Lits(s, cid) /\ IABS(x) \in InputVariables
         BY <2>2, <3>1, LeafClauses
      <3>7. Holds(b, x)
         BY <1>3, <3>5, <3>6
      <3> QED BY <3>6, <3>7 DEF HoldsClause
   <2> QED BY <2>1, <2>2
<1>7. AllContents(p, r) = { Lits(s, cid) : cid \in DOMAIN s.clauses }
   BY <1>1, ClauseContents
<1> QED BY <1>6, <1>7 DEF Fulfils

LEMMA LeafComplete ==
  ASSUME NEW p, NEW r, NEW o, NEW s, LeafObject(p, r, o, s), NEW cids, NEW units, ChunkList(s, cids, units),
         NEW a \in LeafModels(s), a \in Given(Assertion(s))
  PROVE  a \in Solutions(p, r, Assertion(s))
<1> DEFINE b == Completed(p, r, s, a)
           remap == NodeRemap(p, ToSet(r))
<1>1. Compilable(p, r) /\ Compiles(p, r, o, s) /\ Right(p, r, s)
   BY DEF LeafObject, Compiles
<1>2. a \in Assignments
   BY DEF LeafModels
<1>3. /\ b \in SUBSET Variables /\ b \cap InputVariables = a
      /\ \A lit \in Literal : IABS(lit) \in InputVariables => (Holds(b, lit) <=> Holds(a, lit))
      /\ \A lit \in s.unit_literals : IABS(lit) \in Numbered(p, r) => Holds(b, lit)
   BY <1>2, CompletedFacts
<1>4. Fulfils(b, AllContents(p, r))
   BY CompletedFulfils
<1> HIDE DEF b
<1>5. a \in Common(p, r) /\ Reads(p, r, b, a)
   BY <1>1, <1>3, <1>4, FulfilledFacts
<1>6. Reads(p, r, Extension(p, r, a), a)
   BY <1>1, <1>2, ExtensionReads
<1>7. ASSUME NEW lit \in Assertion(s)
      PROVE  Holds(Extension(p, r, a), lit)
   <2>1. lit \in Literal /\ lit \in s.unit_literals /\ IABS(lit) \in InputVariables \cup Numbered(p, r)
      BY <1>1, AssertionFacts
   <2>2. Holds(b, lit)
      <3>1. CASE IABS(lit) \in Numbered(p, r)
         BY <1>3, <2>1, <3>1
      <3>2. CASE IABS(lit) \in InputVariables
         <4>1. ~is_node(lit)
            BY <1>1, <2>1, <3>2, NumberedFacts
         <4>2. Holds(a, lit)
            BY <4>1 DEF Given
         <4> QED BY <1>3, <2>1, <3>2, <4>2
      <3> QED BY <2>1, <3>1, <3>2
   <2>3. PICK e : Inside(p, r, e) /\ Remapped(remap, e) = lit
      BY <1>1, <2>1, LiteralReads
   <2>4. Holds(b, Remapped(remap, e)) <=> a \in Meaning(p, e)
      BY <1>5, <2>3 DEF Reads
   <2>5. Holds(Extension(p, r, a), Remapped(remap, e)) <=> a \in Meaning(p, e)
      BY <1>6, <2>3 DEF Reads
   <2> QED BY <2>2, <2>3, <2>4, <2>5
<1> QED BY <1>5, <1>7 DEF Solutions

-----------------------------------------------------------------------------
(* What an activation returns *)

\* The edge e of the graph q mentions only variables below the roots.
Scoped(p, r, q, e) == Mentions(q, e) \cap InputVariables \subseteq InputsBelow(p, r)

\* The edge e of the graph q represents the solutions of A among the
\* assignments that agree with A, and mentions no variable of A.
Returned(p, r, q, A, e) ==
    /\ IsEdge(q, e)
    /\ Meaning(q, e) \cap Given(A) = Solutions(p, r, A)
    /\ \A lit \in A : IABS(lit) \notin Mentions(q, e)
    /\ Scoped(p, r, q, e)

LEMMA ConstantScoped ==
  ASSUME NEW p, NEW r, Compilable(p, r), NEW q, NEW e, IABS(e) = TAUTOLOGY
  PROVE  Scoped(p, r, q, e)
<1>1. ~is_node(e)
   BY DEF is_node
<1>2. Mentions(q, e) = {TAUTOLOGY}
   BY <1>1, EdgeCases DEF Mentions
<1>3. TAUTOLOGY \notin InputVariables
   BY LastNumberFacts DEF InputVariables
<1> QED BY <1>2, <1>3 DEF Scoped

LEMMA MadeScoped ==
  ASSUME NEW p, NEW r, Compilable(p, r), NEW q, NEW f, NEW V, NEW made, Made(q, f, V, made),
         V \cap InputVariables \subseteq InputsBelow(p, r)
  PROVE  Scoped(p, r, made.pog, made.edge)
<1>1. CASE IABS(made.edge) = TAUTOLOGY
   BY <1>1, ConstantScoped
<1>2. CASE Mentions(made.pog, made.edge) \subseteq V
   BY <1>2 DEF Scoped
<1> QED BY <1>1, <1>2 DEF Made

\* Constants mention no variable.
LEMMA MadeMentions ==
  ASSUME NEW q, NEW f, NEW V, NEW made, Made(q, f, V, made), NEW A, A \subseteq Literal,
         \A lit \in A : IABS(lit) \notin V
  PROVE  \A lit \in A : IABS(lit) \notin Mentions(made.pog, made.edge)
<1> DEFINE e == made.edge
<1>1. IABS(e) = TAUTOLOGY \/ Mentions(made.pog, e) \subseteq V
   BY DEF Made
<1>2. CASE IABS(e) = TAUTOLOGY
   <2>1. ~is_node(e)
      BY <1>2 DEF is_node
   <2>2. Mentions(made.pog, e) = {TAUTOLOGY}
      BY <1>2, <2>1, EdgeCases DEF Mentions
   <2>3. \A lit \in A : IABS(lit) # TAUTOLOGY
      BY LiteralFacts, VariableFacts
   <2> QED BY <2>2, <2>3
<1> QED BY <1>1, <1>2

LEMMA EmptyLeaf ==
  ASSUME NEW p, NEW r, NEW o, NEW s, Compiles(p, r, o, s), Right(p, r, s), EmptyClauseFirst(s),
         NEW q, WellFormed(q), AreClauses(q, Chunks(s)),
         NEW made, made = simple_kc(q, Chunks(s)), Fits(made.pog)
  PROVE  /\ Returned(p, r, made.pog, Assertion(s), made.edge)
         /\ Countable(q) => Countable(made.pog)
<1> DEFINE c == Chunks(s)
<1>1. Solutions(p, r, Assertion(s)) = {}
   BY EmptyVisible, VisibleNoSolution DEF Right, NoSolution
<1>2. c = << << >>, << >> >> /\ Len(c) = 2
   BY EmptyChunks
<1>3. \A i \in 1 .. Len(c) : c[i] = << >> /\ ToSet(c[i]) = {}
   <2>1. ToSet(<< >>) = {}
      BY DEF ToSet
   <2>2. 1 .. 2 = {1, 2}
      OBVIOUS
   <2> QED BY <1>2, <2>1, <2>2
<1>4. 1 \in 1 .. Len(c)
   BY <1>2
<1>5. /\ Made(q, AllClauses(q, c), ClauseVariables(q, c), made)
      /\ Countable(q) /\ IndependentChunks(q, c) => Countable(made.pog)
   BY SimpleKcIsRight
<1> HIDE DEF c
<1>6. AllClauses(q, c) = {}
   BY <1>3, <1>4 DEF AllClauses, Joined
<1>7. ClauseVariables(q, c) = {}
   BY <1>3 DEF ClauseVariables, AllMentioned
<1>8. IndependentChunks(q, c)
   <2>1. \A i \in 1 .. Len(c) : Len(c[i]) = 0
      BY <1>3
   <2>2. \A i \in 1 .. Len(c) : AllCompatible(q, "PRODUCT", c[i])
      BY <2>1 DEF AllCompatible
   <2>3. \A i \in 1 .. Len(c) : AllMentioned(q, ToSet(c[i])) = {}
      BY <1>3 DEF AllMentioned
   <2> QED BY <2>2, <2>3 DEF IndependentChunks
<1>9. Assertion(s) \subseteq Literal
   BY AssertionFacts
<1>10. \A lit \in Assertion(s) : IABS(lit) \notin Mentions(made.pog, made.edge)
   BY <1>5, <1>7, <1>9, MadeMentions
<1>11. IsEdge(made.pog, made.edge) /\ Meaning(made.pog, made.edge) = {}
   BY <1>5, <1>6 DEF Made
<1>12. Scoped(p, r, made.pog, made.edge)
   BY <1>5, <1>7, MadeScoped DEF Compiles
<1> QED BY <1>1, <1>5, <1>8, <1>10, <1>11, <1>12 DEF Returned

\* The clauses of a leaf are over input variables of the subgraph.
LEMMA LeafScope ==
  ASSUME NEW p, NEW r, NEW o, NEW s, Compiles(p, r, o, s), NEW cids, NEW units,
         NEW c, LeafPlace(s, cids, units, c), NEW x \in ToSet(c)
  PROVE  IABS(x) \in InputsBelow(p, r)
<1>1. s.data_variables = InputsBelow(p, r)
   BY DEF Compiles, Kept, FromClausify
<1>2. CASE \E i \in 1 .. Len(cids) : /\ cids[i] \in s.active_clauses /\ x \in Lits(s, cids[i])
                                     /\ IABS(x) \in InputVariables
   BY <1>1, <1>2, FreeVariables
<1>3. CASE \E u \in KeptUnits(s) : ToSet(c) = {u}
   BY <1>1, <1>3 DEF KeptUnits, is_data_variable
<1> QED BY <1>2, <1>3 DEF LeafPlace

LEMMA SimpleLeaf ==
  ASSUME NEW p, NEW r, NEW o, NEW s, LeafObject(p, r, o, s),
         NEW q, WellFormed(q), AreClauses(q, Chunks(s)),
         NEW made, made = simple_kc(q, Chunks(s)), Fits(made.pog)
  PROVE  /\ Returned(p, r, made.pog, Assertion(s), made.edge)
         /\ Countable(q) => Countable(made.pog)
<1>1. Compiles(p, r, o, s) /\ Right(p, r, s) /\ ~EmptyClauseFirst(s) /\ Kept(o, s) /\ Compilable(p, r)
   BY DEF LeafObject, Compiles
<1>2. PICK cids, units : ChunkList(s, cids, units)
   BY <1>1, ChunkPlaces
<1>3. SeparateClauses(Chunks(s))
   BY <1>2, LeafSeparate
<1>4. /\ IndependentChunks(q, Chunks(s))
      /\ AllClauses(q, Chunks(s)) = LeafModels(s)
      /\ ClauseVariables(q, Chunks(s)) = UNION { VariablesOf(Chunks(s)[i]) : i \in 1 .. Len(Chunks(s)) }
   BY <1>3, InputClauses DEF LeafModels
<1>5. /\ Made(q, AllClauses(q, Chunks(s)), ClauseVariables(q, Chunks(s)), made)
      /\ Countable(q) /\ IndependentChunks(q, Chunks(s)) => Countable(made.pog)
   BY SimpleKcIsRight
<1>6. LeafModels(s) \cap Given(Assertion(s)) = Solutions(p, r, Assertion(s))
   <2>1. Solutions(p, r, Assertion(s)) \subseteq LeafModels(s)
      BY <1>2, LeafSound
   <2>2. Solutions(p, r, Assertion(s)) \subseteq Given(Assertion(s))
      BY <1>1, SolutionGiven, AssertionFacts
   <2>3. \A a \in LeafModels(s) : a \in Given(Assertion(s)) => a \in Solutions(p, r, Assertion(s))
      BY <1>2, LeafComplete
   <2> QED BY <2>1, <2>2, <2>3
<1>7. /\ Assertion(s) \subseteq Literal
      /\ \A lit \in Assertion(s) : /\ lit \in s.unit_literals /\ lit \notin s.bcp_unit_literals
                                   /\ -lit \notin s.unit_literals
   BY <1>1, AssertionFacts
<1>8. ASSUME NEW lit \in Assertion(s), NEW i \in 1 .. Len(Chunks(s)), NEW x \in ToSet(Chunks(s)[i])
      PROVE  IABS(lit) # IABS(x)
   <2> DEFINE c == Chunks(s)[i]
   <2>1. LeafPlace(s, cids, units, c)
      BY <1>2, LeafPlaces
   <2> HIDE DEF c
   <2>2. x \in ToSet(c)
      BY DEF c
   <2>3. /\ x \in Literal
         /\ \/ x \notin s.unit_literals /\ -x \notin s.unit_literals
            \/ x \in s.unit_literals /\ x \in s.bcp_unit_literals
      BY <2>1, <2>2 DEF LeafPlace
   <2>4. /\ lit \in Literal /\ lit \in s.unit_literals /\ lit \notin s.bcp_unit_literals
         /\ -lit \notin s.unit_literals
      BY <1>7
   <2>5. lit # x
      BY <2>3, <2>4
   <2>6. lit # -x
      <3>1. lit = -x => -lit = x
         BY <2>3, LiteralFacts
      <3> QED BY <2>3, <2>4, <3>1
   <2> QED BY <2>3, <2>4, <2>5, <2>6, SameVariable
<1>9. \A lit \in Assertion(s) : IABS(lit) \notin ClauseVariables(q, Chunks(s))
   BY <1>4, <1>8 DEF VariablesOf
<1>10. \A lit \in Assertion(s) : IABS(lit) \notin Mentions(made.pog, made.edge)
   BY <1>5, <1>7, <1>9, MadeMentions
<1>11. IsEdge(made.pog, made.edge) /\ Meaning(made.pog, made.edge) = LeafModels(s)
   BY <1>4, <1>5 DEF Made
<1>12. Scoped(p, r, made.pog, made.edge)
   <2>1. \A i \in 1 .. Len(Chunks(s)) : \A x \in ToSet(Chunks(s)[i]) : IABS(x) \in InputsBelow(p, r)
      BY <1>1, <1>2, LeafPlaces, LeafScope
   <2>2. ClauseVariables(q, Chunks(s)) \subseteq InputsBelow(p, r)
      BY <1>4, <2>1 DEF VariablesOf
   <2> QED BY <1>1, <1>5, <2>2, MadeScoped
<1> QED BY <1>4, <1>5, <1>6, <1>10, <1>11, <1>12 DEF Returned

\* What is known of the object before simple_kc.
Checked(s) == (s.has_conflict => Visible(s)) /\ (~s.has_conflict => Settled(s))

LEMMA LeafReturned ==
  ASSUME NEW p, NEW r, NEW o, NEW s, Compiles(p, r, o, s), Right(p, r, s), Simple(s), Checked(s),
         NEW q, WellFormed(q), AreClauses(q, Chunks(s)),
         NEW made, made = simple_kc(q, Chunks(s)), Fits(made.pog)
  PROVE  /\ Returned(p, r, made.pog, Assertion(s), made.edge)
         /\ Countable(q) => Countable(made.pog)
<1>1. CASE EmptyClauseFirst(s)
   BY <1>1, EmptyLeaf
<1>2. CASE ~EmptyClauseFirst(s)
   <2>1. ~Visible(s)
      BY <1>2, VisibleEmpty
   <2>2. ~s.has_conflict /\ Settled(s)
      BY <2>1 DEF Checked
   <2>3. RetiredSatisfied(s)
      BY <2>2, SettledRight
   <2>4. LeafObject(p, r, o, s)
      BY <1>2, <2>2, <2>3 DEF LeafObject
   <2> QED BY <2>4, SimpleLeaf
<1> QED BY <1>1, <1>2

\* The SAT test: no common model.
LEMMA UnsatReturned ==
  ASSUME NEW p, NEW r, NEW o, NEW s, Compiles(p, r, o, s), Right(p, r, s), ~Satisfiable(s),
         NEW q, Assertion(s) \subseteq Literal
  PROVE  Returned(p, r, q, Assertion(s), CONFLICT)
<1>1. Solutions(p, r, Assertion(s)) = {}
   BY UnsatRight DEF NoSolution
<1>2. /\ IsEdge(q, CONFLICT) /\ Meaning(q, CONFLICT) = {} /\ IABS(CONFLICT) = TAUTOLOGY /\ ~is_node(CONFLICT)
   BY Constants
<1>3. Mentions(q, CONFLICT) = {TAUTOLOGY}
   BY <1>2, EdgeCases DEF Mentions
<1>4. \A lit \in Assertion(s) : IABS(lit) # TAUTOLOGY
   BY LiteralFacts, VariableFacts
<1>5. Scoped(p, r, q, CONFLICT)
   BY <1>2, ConstantScoped DEF Compiles
<1> QED BY <1>1, <1>2, <1>3, <1>4, <1>5 DEF Returned

-----------------------------------------------------------------------------
(* The two branches of a split *)

\* The edge e represents the solutions in the branch of slit, among the
\* assignments that agree with the splits before it.
SplitDone(p, r, q, A, slit, e) ==
    /\ IsEdge(q, e)
    /\ Meaning(q, e) \cap Given(A) = Solutions(p, r, A \cup {slit})
    /\ \A lit \in A : IABS(lit) \notin Mentions(q, e)
    /\ ~is_node(slit) => Meaning(q, e) \subseteq { a \in Assignments : Holds(a, slit) }
    /\ Scoped(p, r, q, e)

\* Edges keep what they represent.
LEMMA ReturnedKept ==
  ASSUME NEW p, NEW r, NEW q, WellFormed(q), NEW x, WellFormed(x), Grown(q, x), NEW A, NEW e
  PROVE  /\ Returned(p, r, q, A, e) => Returned(p, r, x, A, e)
         /\ \A slit : SplitDone(p, r, q, A, slit, e) => SplitDone(p, r, x, A, slit, e)
<1>1. KeepsEdges(q, x)
   BY Sizes, GrownEdges
<1>2. IsEdge(q, e) => IsEdge(x, e) /\ Meaning(x, e) = Meaning(q, e) /\ Mentions(x, e) = Mentions(q, e)
   BY <1>1 DEF KeepsEdges
<1>3. Returned(p, r, q, A, e) => Returned(p, r, x, A, e)
   BY <1>2 DEF Returned, Scoped
<1>4. ASSUME NEW slit, SplitDone(p, r, q, A, slit, e)
      PROVE  SplitDone(p, r, x, A, slit, e)
   BY <1>2, <1>4 DEF SplitDone, Scoped
<1> QED BY <1>3, <1>4

\* A literal, and literals of other variables.
NewLiteral(p, r, A, slit) ==
    /\ A \subseteq Literal
    /\ \A lit \in A : IABS(lit) \in InputVariables \cup Numbered(p, r)
    /\ \A lit \in A : -lit \notin A
    /\ slit \in Literal /\ IABS(slit) \in InputVariables \cup Numbered(p, r)
    /\ \A lit \in A : IABS(lit) # IABS(slit)

\* A split on an input variable: its literal is made part of the edge.
LEMMA DataBranch ==
  ASSUME NEW p, NEW r, Compilable(p, r), NEW A, NEW slit, NewLiteral(p, r, A, slit), ~is_node(slit),
         IABS(slit) \in InputsBelow(p, r),
         NEW q, WellFormed(q), IsEdge(q, slit), NEW e, Returned(p, r, q, A \cup {slit}, e),
         NEW made, made = MakeNode(q, "PRODUCT", << slit, e >>), Fits(made.pog)
  PROVE  /\ SplitDone(p, r, made.pog, A, slit, made.edge)
         /\ Countable(q) => Countable(made.pog)
<1>1. IsEdge(q, e) /\ Edges(q, << slit, e >>) /\ ToSet(<< slit, e >>) = {slit, e}
   BY PairOfEdges DEF Returned
<1>2. slit \in Literal /\ A \subseteq Literal
   BY DEF NewLiteral
<1>3. IABS(slit) # TAUTOLOGY
   BY <1>2, LiteralFacts, VariableFacts
<1>4. Meaning(q, slit) = { a \in Assignments : Holds(a, slit) } /\ Mentions(q, slit) = {IABS(slit)}
   BY <1>3, LiteralMeaning
<1>5. "PRODUCT" \in PogType /\ "PRODUCT" # "SUM"
   BY DEF PogType
<1>6. /\ Made(q, Joined(q, "PRODUCT", {slit, e}), AllMentioned(q, {slit, e}), made)
      /\ Countable(q) /\ AllCompatible(q, "PRODUCT", << slit, e >>) => Countable(made.pog)
   BY <1>1, <1>5, MakeNodeIsRight
<1>7. \A lit \in A \cup {slit} : IABS(lit) \notin Mentions(q, e)
   BY DEF Returned
<1>8. Mentions(q, slit) \cap Mentions(q, e) = {}
   BY <1>4, <1>7
<1>9. AllCompatible(q, "PRODUCT", << slit, e >>)
   <2>1. Len(<< slit, e >>) = 2 /\ << slit, e >>[1] = slit /\ << slit, e >>[2] = e
      OBVIOUS
   <2>2. \A i, j \in 1 .. 2 : i < j => i = 1 /\ j = 2
      OBVIOUS
   <2>3. Compatible(q, "PRODUCT", slit, e)
      BY <1>5, <1>8 DEF Compatible
   <2> DEFINE pair == << slit, e >>
   <2>4. Len(pair) = 2 /\ pair[1] = slit /\ pair[2] = e
      BY <2>1
   <2> HIDE DEF pair
   <2>5. AllCompatible(q, "PRODUCT", pair)
      BY <2>2, <2>3, <2>4 DEF AllCompatible
   <2> QED BY <2>5 DEF pair
<1>10. \A lit \in A : IABS(lit) \notin AllMentioned(q, {slit, e})
   BY <1>4, <1>7 DEF AllMentioned, NewLiteral
<1>11. \A lit \in A : IABS(lit) \notin Mentions(made.pog, made.edge)
   BY <1>2, <1>6, <1>10, MadeMentions
<1>12. Meaning(q, e) \in SUBSET Assignments
   BY <1>1, Negation DEF Negates
<1>13. Joined(q, "PRODUCT", {slit, e}) = { a \in Meaning(q, e) : Holds(a, slit) }
   BY <1>4, <1>5, <1>12 DEF Joined
<1>14. IsEdge(made.pog, made.edge) /\ Meaning(made.pog, made.edge) = { a \in Meaning(q, e) : Holds(a, slit) }
   BY <1>6, <1>13 DEF Made
<1>15. Meaning(made.pog, made.edge) \cap Given(A) = Meaning(q, e) \cap Given(A \cup {slit})
   BY <1>12, <1>14 DEF Given
<1>16. Meaning(made.pog, made.edge) \subseteq { a \in Assignments : Holds(a, slit) }
   BY <1>12, <1>14
<1>17. Scoped(p, r, made.pog, made.edge)
   <2>1. AllMentioned(q, {slit, e}) \cap InputVariables \subseteq InputsBelow(p, r)
      BY <1>4 DEF AllMentioned, Returned, Scoped
   <2> QED BY <1>6, <2>1, MadeScoped
<1> QED BY <1>6, <1>9, <1>11, <1>14, <1>15, <1>16, <1>17 DEF SplitDone, Returned

\* A split on the variable of a node leaves nothing to be added.
LEMMA NodeBranch ==
  ASSUME NEW p, NEW r, NEW A, NEW slit, is_node(slit),
         NEW q, NEW e, Returned(p, r, q, A \cup {slit}, e)
  PROVE  SplitDone(p, r, q, A, slit, e)
<1>1. Given(A \cup {slit}) = Given(A)
   BY DEF Given
<1> QED BY <1>1 DEF SplitDone, Returned

-----------------------------------------------------------------------------
(* Their sum *)

\* An assignment agrees with the inputs asserted when they are set.
LEMMA Agreeing ==
  ASSUME NEW p, NEW r, Compilable(p, r), NEW A, NEW slit, NewLiteral(p, r, A, slit), NEW a \in Assignments
  PROVE  \E b \in Given(A) :
            \A V : (\A lit \in A : IABS(lit) \notin V) => b \cap V = a \cap V
<1> DEFINE c == Assigning(a, A)
           b == c \cap InputVariables
<1>1. A \subseteq Literal /\ \A lit \in A : -lit \notin A /\ IABS(lit) \in InputVariables \cup Numbered(p, r)
   BY DEF NewLiteral
<1>2. InputVariables \subseteq Variables
   <2>1. LastNumber(p, r) \in Nat /\ LastNumber(p, r) <= NVar /\ NInput <= LastNumber(p, r) /\ NVar \in Nat /\ NInput \in Nat
      BY LastNumberFacts
   <2> QED BY <2>1 DEF InputVariables, Variables
<1>3. a \in SUBSET Variables /\ a \subseteq InputVariables
   BY <1>2 DEF Assignments
<1>4. /\ \A u \in A : Holds(c, u)
      /\ \A D : (\A u \in A : IABS(u) \notin D) => c \cap D = a \cap D
   BY <1>1, <1>3, AssigningFacts
<1> HIDE DEF c
<1>5. b \in Assignments
   BY DEF Assignments
<1>6. ASSUME NEW lit \in A, ~is_node(lit)
      PROVE  Holds(b, lit)
   <2>1. IABS(lit) \in InputVariables /\ lit \in Literal
      BY <1>1, <1>6, NumberedFacts
   <2>2. IABS(lit) \in b <=> IABS(lit) \in c
      BY <2>1
   <2> QED BY <1>4, <2>1, <2>2, HoldsAgree
<1>7. b \in Given(A)
   BY <1>5, <1>6 DEF Given
<1>8. ASSUME NEW V, \A lit \in A : IABS(lit) \notin V
      PROVE  b \cap V = a \cap V
   <2>1. \A lit \in A : IABS(lit) \notin V \cap InputVariables
      BY <1>8
   <2>2. c \cap (V \cap InputVariables) = a \cap (V \cap InputVariables)
      BY <1>4, <2>1
   <2> QED BY <1>3, <2>2
<1> QED BY <1>7, <1>8

\* Every solution is in one of the branches, and none in both.
LEMMA SplitSolutions ==
  ASSUME NEW p, NEW r, NEW A, NEW v \in Variables
  PROVE  /\ Solutions(p, r, A) = Solutions(p, r, A \cup {-v}) \cup Solutions(p, r, A \cup {v})
         /\ Solutions(p, r, A \cup {-v}) \cap Solutions(p, r, A \cup {v}) = {}
<1>1. \A b : Holds(b, -v) <=> ~Holds(b, v)
   BY VariableFacts, HoldsNegation
<1> QED BY <1>1 DEF Solutions

LEMMA ExclusiveBranches ==
  ASSUME NEW p, NEW r, Compilable(p, r), NEW A, NEW v \in Variables, NewLiteral(p, r, A, v),
         NEW q, WellFormed(q), NEW c, SplitDone(p, r, q, A, -v, c), NEW m, SplitDone(p, r, q, A, v, m)
  PROVE  Meaning(q, c) \cap Meaning(q, m) = {}
<1> SUFFICES ASSUME NEW a \in Meaning(q, c), a \in Meaning(q, m)
             PROVE  FALSE
   OBVIOUS
<1>1. IsEdge(q, c) /\ IsEdge(q, m)
   BY DEF SplitDone
<1>2. a \in Assignments
   BY <1>1, Negation DEF Negates
<1>3. PICK b \in Given(A) : \A V : (\A lit \in A : IABS(lit) \notin V) => b \cap V = a \cap V
   BY <1>2, Agreeing
<1>4. b \in Assignments
   BY DEF Given
<1>5. b \cap Mentions(q, c) = a \cap Mentions(q, c) /\ b \cap Mentions(q, m) = a \cap Mentions(q, m)
   BY <1>3 DEF SplitDone
<1>6. Agree(q, c) /\ Agree(q, m)
   BY <1>1, Dependence
<1>7. b \in Meaning(q, c) /\ b \in Meaning(q, m)
   BY <1>2, <1>4, <1>5, <1>6 DEF Agree
<1>8. b \in Solutions(p, r, A \cup {-v}) /\ b \in Solutions(p, r, A \cup {v})
   BY <1>7 DEF SplitDone
<1> QED BY <1>8, SplitSolutions

LEMMA SumReturned ==
  ASSUME NEW p, NEW r, Compilable(p, r), NEW A, NEW v \in Variables, NewLiteral(p, r, A, v),
         NEW q, WellFormed(q), NEW c, SplitDone(p, r, q, A, -v, c), NEW m, SplitDone(p, r, q, A, v, m),
         NEW sum, sum = MakeNode(q, "SUM", << c, m >>), Fits(sum.pog)
  PROVE  /\ Returned(p, r, sum.pog, A, sum.edge)
         /\ Countable(q) => Countable(sum.pog)
<1>1. IsEdge(q, c) /\ IsEdge(q, m)
   BY DEF SplitDone
<1>2. Edges(q, << c, m >>) /\ ToSet(<< c, m >>) = {c, m}
   BY <1>1, PairOfEdges
<1>3. "SUM" \in PogType
   BY DEF PogType
<1>4. /\ Made(q, Joined(q, "SUM", {c, m}), AllMentioned(q, {c, m}), sum)
      /\ Countable(q) /\ AllCompatible(q, "SUM", << c, m >>) => Countable(sum.pog)
   BY <1>2, <1>3, MakeNodeIsRight
<1>5. AllCompatible(q, "SUM", << c, m >>)
   <2>1. Compatible(q, "SUM", c, m)
      BY ExclusiveBranches DEF Compatible
   <2> DEFINE pair == << c, m >>
   <2>2. Len(pair) = 2 /\ pair[1] = c /\ pair[2] = m
      OBVIOUS
   <2> HIDE DEF pair
   <2>3. \A i, j \in 1 .. 2 : i < j => i = 1 /\ j = 2
      OBVIOUS
   <2>4. AllCompatible(q, "SUM", pair)
      BY <2>1, <2>2, <2>3 DEF AllCompatible
   <2> QED BY <2>4 DEF pair
<1>6. Meaning(q, c) \in SUBSET Assignments /\ Meaning(q, m) \in SUBSET Assignments
   BY <1>1, Negation DEF Negates
<1>7. Joined(q, "SUM", {c, m}) = Meaning(q, c) \cup Meaning(q, m)
   BY <1>6 DEF Joined
<1>8. IsEdge(sum.pog, sum.edge) /\ Meaning(sum.pog, sum.edge) = Meaning(q, c) \cup Meaning(q, m)
   BY <1>4, <1>7 DEF Made
<1>9. Meaning(sum.pog, sum.edge) \cap Given(A) = Solutions(p, r, A)
   <2>1. /\ Meaning(q, c) \cap Given(A) = Solutions(p, r, A \cup {-v})
         /\ Meaning(q, m) \cap Given(A) = Solutions(p, r, A \cup {v})
      BY DEF SplitDone
   <2>2. Solutions(p, r, A) = Solutions(p, r, A \cup {-v}) \cup Solutions(p, r, A \cup {v})
      BY SplitSolutions
   <2> QED BY <1>8, <2>1, <2>2
<1>10. \A lit \in A : IABS(lit) \notin AllMentioned(q, {c, m})
   BY DEF SplitDone, AllMentioned
<1>11. \A lit \in A : IABS(lit) \notin Mentions(sum.pog, sum.edge)
   <2>1. A \subseteq Literal
      BY DEF NewLiteral
   <2> QED BY <1>4, <1>10, <2>1, MadeMentions
<1>12. Scoped(p, r, sum.pog, sum.edge)
   <2>1. AllMentioned(q, {c, m}) \cap InputVariables \subseteq InputsBelow(p, r)
      BY DEF AllMentioned, SplitDone, Scoped
   <2> QED BY <1>4, <2>1, MadeScoped
<1> QED BY <1>4, <1>5, <1>8, <1>9, <1>11, <1>12 DEF Returned

-----------------------------------------------------------------------------
(* The objects at the levels of the recursion, once more *)

\* The branch that is open: the literal asserted, and the edge that the first
\* branch has returned.
FrameRight(r, g, before, after, frame) ==
    /\ frame.svar \in Variables
    /\ NewLiteral(BuildLibrary, r, Assertion(before), frame.svar)
    /\ frame.svar \in InputVariables => frame.svar \in before.data_variables
    /\ \/ /\ frame.child = << >>
          /\ Assertion(after) = Assertion(before) \cup {-frame.svar}
       \/ \E c \in Int :
            /\ frame.child = << c >>
            /\ Assertion(after) = Assertion(before) \cup {frame.svar}
            /\ SplitDone(BuildLibrary, r, g, Assertion(before), -frame.svar, c)

Chain(r, g, z, fr) ==
    /\ \A i \in 0 .. Len(fr) : Right(BuildLibrary, r, z[i])
    /\ \A i \in 0 .. Len(fr) - 1 : z[i].has_conflict => Visible(z[i])
    /\ \A i \in 1 .. Len(fr) : FrameRight(r, g, z[i - 1], z[i], fr[i])
    /\ Assertion(z[0]) = {}

\* Frames depend on what is asserted only.
LEMMA FrameAgrees ==
  ASSUME NEW r, NEW g, NEW s, NEW t, NEW frame, FrameRight(r, g, s, t, frame),
         NEW x, Assertion(x) = Assertion(s), x.data_variables = s.data_variables,
         NEW y, Assertion(y) = Assertion(t)
  PROVE  FrameRight(r, g, x, y, frame)
BY DEF FrameRight

LEMMA FrameGrows ==
  ASSUME NEW r, NEW g, WellFormed(g), NEW x, WellFormed(x), Grown(g, x),
         NEW s, NEW t, NEW frame, FrameRight(r, g, s, t, frame)
  PROVE  FrameRight(r, x, s, t, frame)
<1>1. \A c, A, slit : SplitDone(BuildLibrary, r, g, A, slit, c) => SplitDone(BuildLibrary, r, x, A, slit, c)
   BY ReturnedKept
<1> QED BY <1>1 DEF FrameRight

LEMMA ChainGrows ==
  ASSUME NEW r, NEW g, WellFormed(g), NEW x, WellFormed(x), Grown(g, x),
         NEW z, NEW fr, Chain(r, g, z, fr)
  PROVE  Chain(r, x, z, fr)
BY FrameGrows DEF Chain

\* A step of the innermost activation.
LEMMA ChainMoves ==
  ASSUME NEW r, NEW g, NEW z, NEW fr, Len(fr) \in Nat, Chain(r, g, z, fr),
         NEW t, Right(BuildLibrary, r, t), Assertion(t) = Assertion(z[Len(fr)])
  PROVE  Chain(r, g, Put(z, Len(fr), t), fr)
<1> DEFINE n == Len(fr)
           y == Put(z, n, t)
<1>1. y[n] = t /\ \A i \in 0 .. n : i # n => y[i] = z[i]
   BY DEF Put
<1>2. n \in Nat
   OBVIOUS
<1>3. /\ \A i \in 0 .. n : Right(BuildLibrary, r, z[i])
      /\ \A i \in 0 .. n - 1 : z[i].has_conflict => Visible(z[i])
      /\ \A i \in 1 .. n : FrameRight(r, g, z[i - 1], z[i], fr[i])
      /\ Assertion(z[0]) = {} /\ Assertion(t) = Assertion(z[n])
   BY DEF Chain
<1> HIDE DEF n, y
<1>4. \A i \in 0 .. n : Assertion(y[i]) = Assertion(z[i])
   BY <1>1, <1>3
<1>5. \A i \in 0 .. n : Right(BuildLibrary, r, y[i])
   BY <1>1, <1>3
<1>6. \A i \in 0 .. n - 1 : y[i] = z[i]
   BY <1>1, <1>2
<1>7. ASSUME NEW i \in 1 .. n
      PROVE  FrameRight(r, g, y[i - 1], y[i], fr[i])
   <2>1. i - 1 \in 0 .. n - 1 /\ i \in 0 .. n
      BY <1>2
   <2>2. y[i - 1] = z[i - 1] /\ Assertion(y[i]) = Assertion(z[i])
      BY <1>4, <1>6, <2>1
   <2>3. FrameRight(r, g, z[i - 1], z[i], fr[i])
      BY <1>3
   <2> QED BY <2>2, <2>3, FrameAgrees
<1>8. 0 \in 0 .. n
   BY <1>2
<1>9. Assertion(y[0]) = {}
   BY <1>3, <1>4, <1>8
<1>10. \A i \in 0 .. n - 1 : y[i].has_conflict => Visible(y[i])
   BY <1>3, <1>6
<1>11. Chain(r, g, y, fr)
   BY <1>5, <1>7, <1>9, <1>10 DEF Chain, n
<1> QED BY <1>11 DEF y, n

\* A branch is opened.
LEMMA ChainOpens ==
  ASSUME NEW r, NEW g, NEW z, NEW fr, NEW n \in Nat, n = Len(fr), Chain(r, g, z, fr),
         NEW s, s = z[n], s.has_conflict => Visible(s),
         NEW gr, Len(gr) = n + 1, \A i \in 1 .. n : gr[i] = fr[i],
         NEW t, Right(BuildLibrary, r, t), FrameRight(r, g, s, t, gr[n + 1])
  PROVE  Chain(r, g, Put(z, n + 1, t), gr)
<1> DEFINE m == n + 1
           y == Put(z, m, t)
<1>1. y[m] = t /\ (\A i \in 0 .. m : i # m => y[i] = z[i]) /\ m = n + 1 /\ m \in Nat
   BY DEF Put
<1>2. /\ \A i \in 0 .. n : Right(BuildLibrary, r, z[i])
      /\ \A i \in 0 .. n - 1 : z[i].has_conflict => Visible(z[i])
      /\ \A i \in 1 .. n : FrameRight(r, g, z[i - 1], z[i], fr[i])
      /\ Assertion(z[0]) = {}
   BY DEF Chain
<1>3. Len(gr) = m /\ FrameRight(r, g, s, t, gr[m])
   OBVIOUS
<1> HIDE DEF m, y
<1>4. \A i \in 0 .. n : y[i] = z[i] /\ i \in 0 .. m
   BY <1>1
<1>5. ASSUME NEW i \in 0 .. m
      PROVE  Right(BuildLibrary, r, y[i])
   <2>1. CASE i = m
      BY <1>1, <2>1
   <2>2. CASE i # m
      <3>1. i \in 0 .. n
         BY <1>1, <2>2
      <3> QED BY <1>2, <1>4, <3>1
   <2> QED BY <2>1, <2>2
<1>6. ASSUME NEW i \in 0 .. m - 1
      PROVE  y[i].has_conflict => Visible(y[i])
   <2>1. i \in 0 .. n
      BY <1>1
   <2>2. y[i] = z[i]
      BY <1>4, <2>1
   <2>3. CASE i = n
      BY <2>2, <2>3
   <2>4. CASE i # n
      <3>1. i \in 0 .. n - 1
         BY <2>1, <2>4
      <3> QED BY <1>2, <2>2, <3>1
   <2> QED BY <2>3, <2>4
<1>7. ASSUME NEW i \in 1 .. m
      PROVE  FrameRight(r, g, y[i - 1], y[i], gr[i])
   <2>1. i - 1 \in 0 .. n
      BY <1>1
   <2>2. y[i - 1] = z[i - 1]
      BY <1>4, <2>1
   <2>3. CASE i = m
      <3>1. i - 1 = n
         BY <1>1, <2>3
      <3>2. y[i - 1] = s /\ y[i] = t
         BY <1>1, <2>2, <2>3, <3>1
      <3> QED BY <1>3, <2>3, <3>2
   <2>4. CASE i # m
      <3>1. i \in 1 .. n /\ i \in 0 .. n
         BY <1>1, <2>4
      <3>2. y[i] = z[i] /\ gr[i] = fr[i]
         BY <1>4, <3>1
      <3>3. FrameRight(r, g, z[i - 1], z[i], fr[i])
         BY <1>2, <3>1
      <3> QED BY <2>2, <3>2, <3>3
   <2> QED BY <2>3, <2>4
<1>8. 0 \in 0 .. n
   OBVIOUS
<1>9. Assertion(y[0]) = {}
   BY <1>2, <1>4, <1>8
<1>10. Chain(r, g, y, gr)
   BY <1>3, <1>5, <1>6, <1>7, <1>9 DEF Chain
<1> QED BY <1>10 DEF y, m

\* The innermost branch is closed: what is known of the object before it, t.
Reopened(r, s, t) ==
    /\ Right(BuildLibrary, r, t)
    /\ Assertion(t) = Assertion(s) /\ t.data_variables = s.data_variables /\ t.unit_literals = s.unit_literals
    /\ t.has_conflict => Visible(t)

LEMMA Reopens ==
  ASSUME NEW r, NEW o, NEW s, Compiles(BuildLibrary, r, o, s), NEW t, t \in {s, Calm(s)},
         Right(BuildLibrary, r, s), s.has_conflict => Visible(s)
  PROVE  Reopened(r, s, t)
<1>1. Keeping(BuildLibrary, r, s, t) /\ (t.has_conflict => Visible(t))
      /\ t.data_variables = s.data_variables /\ t.unit_literals = s.unit_literals
   BY CalmRight
<1> QED BY <1>1 DEF Keeping, Reopened

LEMMA ChainCloses ==
  ASSUME NEW r, NEW g, NEW z, NEW fr, NEW n \in Nat, n = Len(fr), n > 0, Chain(r, g, z, fr),
         NEW s, s = z[n - 1], NEW t, Reopened(r, s, t),
         NEW gr, Len(gr) = n - 1, \A i \in 1 .. n - 1 : gr[i] = fr[i]
  PROVE  Chain(r, g, Put(z, n - 1, t), gr)
<1> DEFINE m == n - 1
<1>1. m \in Nat /\ m \in 0 .. n - 1 /\ m \in 0 .. n /\ m = n - 1
   OBVIOUS
<1>2. /\ \A i \in 0 .. n : Right(BuildLibrary, r, z[i])
      /\ \A i \in 0 .. n - 1 : z[i].has_conflict => Visible(z[i])
      /\ \A i \in 1 .. n : FrameRight(r, g, z[i - 1], z[i], fr[i])
      /\ Assertion(z[0]) = {}
   BY DEF Chain
<1>3. s = z[m] /\ Len(gr) = m
   OBVIOUS
<1> HIDE DEF m
<1>4. Chain(r, g, z, gr)
   <2>1. /\ \A i \in 0 .. m : i \in 0 .. n
         /\ \A i \in 0 .. m - 1 : i \in 0 .. n - 1
         /\ \A i \in 1 .. m : i \in 1 .. n /\ i \in 1 .. n - 1
      BY <1>1
   <2>2. \A i \in 1 .. m : gr[i] = fr[i]
      BY <2>1
   <2> QED BY <1>2, <1>3, <2>1, <2>2 DEF Chain
<1>5. Chain(r, g, Put(z, Len(gr), t), gr)
   BY <1>1, <1>3, <1>4, ChainMoves DEF Reopened
<1> QED BY <1>1, <1>3, <1>5

-----------------------------------------------------------------------------
(* What is right at each part of builtin_kc *)

PartRight(part, r, g, s, q, b, e) ==
    /\ part \in {"test", "bcp", "check"} /\ s.has_conflict => Visible(s)
    /\ part \in {"test", "bcp"} /\ ~s.has_conflict => Waits(s, q)
    /\ part = "bve" /\ ~s.has_conflict => Settled(s) /\ b.degree_variables[0] = {}
    /\ part = "check" /\ ~s.has_conflict => Settled(s)
    /\ part = "return" => Returned(BuildLibrary, r, g, Assertion(s), e)

Goes(r, g, z, fr, part, s, q, b, e) ==
    /\ Countable(g)
    /\ Chain(r, g, z, fr)
    /\ PartRight(part, r, g, s, q, b, e)

KcGoes(z) == Goes(roots, pog, z, frames, pc, cnf, clause_queue, bve, edge)

\* What the invariants say of the object that is worked on.
Working(z) ==
    /\ Compiles(BuildLibrary, roots, Origin, cnf) /\ Right(BuildLibrary, roots, cnf) /\ Kept(Origin, cnf)
    /\ Compilable(BuildLibrary, roots)
    /\ z[Len(frames)] = cnf /\ Len(frames) \in Nat
    /\ roots \in RootPairs /\ GraphOf(pog) /\ WellFormed(pog)

LEMMA WorkingFacts ==
  ASSUME KcTyped, NEW z, Histories(Origin, z, frames, cnf), KcGoes(z)
  PROVE  Working(z)
<1>1. roots \in RootPairs /\ GraphOf(pog) /\ FramesOf(pog, frames)
   BY DEF KcTyped
<1>2. Len(frames) \in Nat
   BY <1>1, FramesLength
<1>3. Compilable(BuildLibrary, roots) /\ FromClausify(BuildLibrary, roots, Origin)
   BY <1>1, Originates
<1>4. Kept(Origin, cnf) /\ z[Len(frames)] = cnf
   BY <1>2, TopObject
<1>5. Right(BuildLibrary, roots, cnf)
   <2>1. Len(frames) \in 0 .. Len(frames)
      BY <1>2
   <2>2. Chain(roots, pog, z, frames)
      BY DEF KcGoes, Goes
   <2>3. Right(BuildLibrary, roots, z[Len(frames)])
      BY <2>1, <2>2 DEF Chain
   <2> QED BY <1>4, <2>3
<1>6. WellFormed(pog)
   BY <1>1 DEF GraphOf
<1> QED BY <1>1, <1>2, <1>3, <1>4, <1>5, <1>6 DEF Working, Compiles

LEMMA InitGoes ==
  ASSUME Init
  PROVE  KcGoes([i \in 0 .. 0 |-> cnf])
<1> DEFINE z == [i \in 0 .. 0 |-> cnf]
<1>1. /\ pog = BuildLibrary /\ roots \in RootPairs /\ cnf = Origin /\ clause_queue = QueueOf(cnf)
      /\ frames = << >> /\ pc = "test" /\ Len(frames) = 0
   BY DEF Init, Origin
<1>2. FromClausify(BuildLibrary, roots, Origin) /\ Compilable(BuildLibrary, roots)
   BY <1>1, Originates
<1>3. Right(BuildLibrary, roots, cnf) /\ Assertion(cnf) = {}
   BY <1>1, <1>2, OriginRight
<1>4. Kept(Origin, cnf) /\ ~cnf.has_conflict
   BY <1>1, <1>2 DEF Kept, FromClausify
<1>5. Waits(cnf, clause_queue)
   BY <1>1, <1>4, QueueStarts
<1>6. Chain(roots, pog, z, frames)
   <2>1. /\ \A i \in 0 .. 0 : z[i] = cnf
         /\ \A i \in 0 .. 0 - 1 : FALSE
         /\ \A i \in 1 .. 0 : FALSE
         /\ 0 \in 0 .. 0
      OBVIOUS
   <2> HIDE DEF z
   <2> QED BY <1>1, <1>3, <2>1 DEF Chain
<1>7. Countable(pog)
   BY <1>1, CallerAssumption
<1>8. PartRight(pc, roots, pog, cnf, clause_queue, bve, edge)
   BY <1>1, <1>4, <1>5 DEF PartRight
<1> QED BY <1>6, <1>7, <1>8 DEF KcGoes, Goes

\* A step that leaves the graph and the frames alone.
LEMMA MovesOn ==
  ASSUME NEW r, NEW g, NEW z, NEW fr, NEW part, NEW s, NEW q, NEW b, NEW e, Goes(r, g, z, fr, part, s, q, b, e),
         Len(fr) \in Nat, z[Len(fr)] = s,
         NEW part2, NEW t, NEW q2, NEW b2, NEW e2,
         Right(BuildLibrary, r, t), Assertion(t) = Assertion(s), PartRight(part2, r, g, t, q2, b2, e2)
  PROVE  Goes(r, g, Put(z, Len(fr), t), fr, part2, t, q2, b2, e2)
<1>1. Chain(r, g, Put(z, Len(fr), t), fr)
   BY ChainMoves DEF Goes
<1> QED BY <1>1 DEF Goes

LEMMA BcpGoes ==
  ASSUME KcTyped, NEW z, Histories(Origin, z, frames, cnf), KcGoes(z), Bcp
  PROVE  Goes(roots, pog, Put(z, Len(frames), cnf'), frames, pc', cnf', clause_queue', bve', edge')
<1>1. Working(z)
   BY WorkingFacts
<1>2. pc \in {"test", "bcp"} /\ BcpIteration(FALSE) /\ pc' = pc /\ clause_queue \in Seq(ClauseId)
   BY DEF Bcp, KcTyped
<1>3. Kept(Origin, cnf') /\ BcpMove(cnf, clause_queue, cnf', clause_queue')
   BY <1>1, <1>2, BcpMoves DEF Working
<1>4. PartRight(pc, roots, pog, cnf, clause_queue, bve, edge)
   BY DEF KcGoes, Goes
<1>5. ~cnf.has_conflict /\ Waits(cnf, clause_queue)
   BY <1>2, <1>3, <1>4 DEF PartRight, BcpMove
<1>6. Keeping(BuildLibrary, roots, cnf, cnf') /\ (cnf'.has_conflict => Visible(cnf'))
   BY <1>1, <1>3, <1>5, BcpRight DEF Working
<1>7. ~cnf'.has_conflict => Waits(cnf', clause_queue')
   BY <1>1, <1>2, <1>3, <1>5, QueueMoves DEF Working
<1>8. PartRight(pc', roots, pog, cnf', clause_queue', bve', edge')
   BY <1>2, <1>6, <1>7 DEF PartRight
<1> QED BY <1>1, <1>6, <1>8, MovesOn DEF Working, Keeping, KcGoes

LEMMA BveGoes ==
  ASSUME KcTyped, NEW z, Histories(Origin, z, frames, cnf), KcGoes(z), Bve
  PROVE  Goes(roots, pog, Put(z, Len(frames), cnf'), frames, pc', cnf', clause_queue', bve', edge')
<1>1. Working(z)
   BY WorkingFacts
<1>2. pc = "bve" /\ BveIteration(FALSE) /\ pc' = pc /\ BveTyped(bve)
   BY DEF Bve, KcTyped
<1>3. PartRight(pc, roots, pog, cnf, clause_queue, bve, edge)
   BY DEF KcGoes, Goes
<1>4. cnf.has_conflict
   <2>1. ~cnf.has_conflict => bve.degree_variables[0] = {}
      BY <1>2, <1>3 DEF PartRight
   <2> QED BY <1>2, <2>1, IdleBve
<1>5. BveMove(cnf, bve, cnf')
   BY <1>1, <1>2, BveMoves DEF Working
<1>6. Right(BuildLibrary, roots, cnf') /\ Assertion(cnf') = Assertion(cnf) /\ cnf'.has_conflict
   BY <1>1, <1>4, <1>5, BveRight DEF Working
<1>7. PartRight(pc', roots, pog, cnf', clause_queue', bve', edge')
   BY <1>2, <1>6 DEF PartRight
<1> QED BY <1>1, <1>6, <1>7, MovesOn DEF Working, KcGoes

\* The code between the loops.
LEMMA TestGoes ==
  ASSUME KcTyped, NEW z, Histories(Origin, z, frames, cnf), KcGoes(z),
         TestUnsat \/ TestSat \/ FinishBcp \/ FinishBve, ConflictKept'
  PROVE  Goes(roots, pog, Put(z, Len(frames), cnf), frames, pc', cnf, clause_queue', bve', edge')
<1>1. Working(z)
   BY WorkingFacts
<1>2. PartRight(pc, roots, pog, cnf, clause_queue, bve, edge)
   BY DEF KcGoes, Goes
<1>3. clause_queue = << >> /\ Waits(cnf, clause_queue) => Settled(cnf)
   BY QueueEnds
<1>4. PartRight(pc', roots, pog, cnf, clause_queue', bve', edge')
   <2>1. CASE TestUnsat
      <3>1. ~Satisfiable(cnf) /\ edge' = CONFLICT /\ pc' = "return"
         BY <2>1 DEF TestUnsat
      <3>2. Assertion(cnf) \subseteq Literal
         BY <1>1, AssertionFacts DEF Working
      <3>3. Returned(BuildLibrary, roots, pog, Assertion(cnf), CONFLICT)
         BY <1>1, <3>1, <3>2, UnsatReturned DEF Working
      <3> QED BY <3>1, <3>3 DEF PartRight
   <2>2. CASE TestSat
      <3>1. pc = "test" /\ BcpDone /\ pc' = "check"
         BY <2>2 DEF TestSat
      <3>2. cnf.has_conflict => Visible(cnf)
         BY <1>2, <3>1 DEF PartRight
      <3>3. ~cnf.has_conflict => Settled(cnf)
         BY <1>2, <1>3, <3>1 DEF PartRight, BcpDone
      <3> QED BY <3>1, <3>2, <3>3 DEF PartRight
   <2>3. CASE FinishBcp
      <3>1. pc = "bcp" /\ BcpDone /\ pc' = "bve" /\ bve' = BveScan(cnf, 0)
         BY <2>3 DEF FinishBcp
      <3>2. ~cnf.has_conflict => Settled(cnf)
         BY <1>2, <1>3, <3>1 DEF PartRight, BcpDone
      <3>3. ~cnf.has_conflict => bve'.degree_variables[0] = {}
         BY <1>1, <3>1, <3>2, ScanEmpty DEF Working
      <3> QED BY <3>1, <3>2, <3>3 DEF PartRight
   <2>4. CASE FinishBve
      <3>1. pc = "bve" /\ pc' = "check" /\ cnf' = cnf
         BY <2>4 DEF FinishBve
      <3>2. ~cnf.has_conflict => Settled(cnf)
         BY <1>2, <3>1 DEF PartRight
      <3>3. cnf.has_conflict => Visible(cnf)
         BY <3>1 DEF ConflictKept, Visible
      <3> QED BY <3>1, <3>2, <3>3 DEF PartRight
   <2> QED BY <2>1, <2>2, <2>3, <2>4
<1> QED BY <1>1, <1>4, MovesOn DEF Working, KcGoes

\* The leaves.
LEMMA SimpleGoes ==
  ASSUME KcTyped, NEW z, Histories(Origin, z, frames, cnf), KcGoes(z), CheckSimple, Fits(pog')
  PROVE  Goes(roots, pog', Put(z, Len(frames), cnf), frames, pc', cnf, clause_queue', bve', edge')
<1> DEFINE made == simple_kc(pog, Chunks(cnf))
<1>1. Working(z)
   BY WorkingFacts
<1>2. pc = "check" /\ Simple(cnf) /\ pog' = made.pog /\ edge' = made.edge /\ pc' = "return"
   BY DEF CheckSimple
<1>3. PartRight(pc, roots, pog, cnf, clause_queue, bve, edge) /\ Countable(pog) /\ Chain(roots, pog, z, frames)
   BY DEF KcGoes, Goes
<1>4. AreClauses(pog, Chunks(cnf))
   BY <1>1, ChunksAreClauses DEF Working
<1>5. KcTyped' /\ Grown(pog, pog')
   BY SimpleTyped
<1>6. WellFormed(made.pog) /\ Grown(pog, made.pog) /\ Fits(made.pog)
   BY <1>2, <1>5 DEF KcTyped, GraphOf
<1>7. made = simple_kc(pog, Chunks(cnf))
   OBVIOUS
<1> HIDE DEF made
<1>8. Checked(cnf)
   BY <1>2, <1>3 DEF PartRight, Checked
<1>9. Returned(BuildLibrary, roots, made.pog, Assertion(cnf), made.edge) /\ Countable(made.pog)
   BY <1>1, <1>2, <1>3, <1>4, <1>6, <1>7, <1>8, LeafReturned DEF Working
<1>10. Chain(roots, made.pog, z, frames)
   BY <1>1, <1>3, <1>6, ChainGrows DEF Working
<1>11. PartRight("return", roots, made.pog, cnf, clause_queue', bve', made.edge)
   BY <1>9 DEF PartRight
<1>12. Chain(roots, made.pog, Put(z, Len(frames), cnf), frames)
   BY <1>1, <1>10, ChainMoves DEF Working
<1>13. Goes(roots, made.pog, Put(z, Len(frames), cnf), frames, "return", cnf, clause_queue', bve', made.edge)
   BY <1>9, <1>11, <1>12 DEF Goes
<1> QED BY <1>2, <1>13

\* A literal that may be asserted, and its negation.
LEMMA NewNegation ==
  ASSUME NEW p, NEW r, NEW A, NEW v \in Variables, NewLiteral(p, r, A, v)
  PROVE  NewLiteral(p, r, A, -v) /\ IABS(v) = v /\ IABS(-v) = v /\ (is_node(-v) <=> is_node(v))
<1>1. -v \in Literal /\ IABS(v) = v /\ IABS(-v) = v
   BY VariableFacts
<1>2. is_node(-v) <=> is_node(v)
   BY <1>1 DEF is_node
<1>3. NewLiteral(p, r, A, -v)
   BY <1>1 DEF NewLiteral
<1> QED BY <1>1, <1>2, <1>3

\* The variable to split on.
LEMMA SplitRight ==
  ASSUME NEW z, Working(z), ~Simple(cnf), NEW v, v = find_split(cnf)
  PROVE  /\ v \in Variables /\ NewLiteral(BuildLibrary, roots, Assertion(cnf), v)
         /\ v \in InputVariables => v \in cnf.data_variables
         /\ -v \notin cnf.unit_literals /\ -v \in Literal
<1>1. Compiles(BuildLibrary, roots, Origin, cnf) /\ Right(BuildLibrary, roots, cnf) /\ Kept(Origin, cnf)
   BY DEF Working
<1>2. Open(cnf) # {}
   BY <1>1, NotSimple
<1>3. PICK lit \in Open(cnf) : v = IABS(lit) /\ IABS(lit) \in Variables
   BY <1>1, <1>2, SplitFacts
<1>4. v \in Variables /\ v \notin cnf.unit_literals /\ -v \notin cnf.unit_literals
   BY <1>1, <1>2, SplitUnassigned
<1>5. PICK cid \in Unsatisfied(cnf) : lit \in FreeLits(cnf, cid)
   BY DEF Open
<1>6. cid \in cnf.active_clauses /\ lit \in Lits(cnf, cid)
   BY <1>5 DEF Unsatisfied, FreeLits
<1>7. v \in InputVariables \cup Numbered(BuildLibrary, roots) /\ (v \in InputVariables => v \in cnf.data_variables)
   BY <1>1, <1>3, <1>6, FreeVariables
<1>8. v \in Literal /\ -v \in Literal /\ IABS(v) = v
   BY <1>4, VariableFacts
<1>9. /\ Assertion(cnf) \subseteq Literal
      /\ \A l \in Assertion(cnf) : /\ IABS(l) \in InputVariables \cup Numbered(BuildLibrary, roots)
                                   /\ -l \notin Assertion(cnf) /\ l \in cnf.unit_literals
   BY <1>1, AssertionFacts
<1>10. ASSUME NEW l \in Assertion(cnf)
       PROVE  IABS(l) # IABS(v)
   <2>1. l \in Literal /\ l \in cnf.unit_literals
      BY <1>9
   <2>2. l # v /\ l # -v
      BY <1>4, <2>1
   <2> QED BY <1>8, <2>1, <2>2, SameVariable
<1>11. NewLiteral(BuildLibrary, roots, Assertion(cnf), v)
   BY <1>7, <1>8, <1>9, <1>10 DEF NewLiteral
<1> QED BY <1>4, <1>7, <1>8, <1>11

LEMMA SplitGoes ==
  ASSUME KcTyped, NEW z, Histories(Origin, z, frames, cnf), KcGoes(z), CheckSplit
  PROVE  Goes(roots, pog, Put(z, Len(frames) + 1, cnf'), frames', pc', cnf', clause_queue', bve', edge')
<1> DEFINE v == find_split(cnf)
           n == Len(frames)
           f == [svar |-> v, child |-> << >>]
<1>1. Working(z)
   BY WorkingFacts
<1>2. pc = "check" /\ ~Simple(cnf) /\ pc' = "bcp" /\ clause_queue' = QueueOf(cnf')
   BY DEF CheckSplit, StartBranch
<1>3. PartRight(pc, roots, pog, cnf, clause_queue, bve, edge) /\ Countable(pog) /\ Chain(roots, pog, z, frames)
   BY DEF KcGoes, Goes
<1>4. v = find_split(cnf) /\ n = Len(frames) /\ f = [svar |-> v, child |-> << >>]
   OBVIOUS
<1>5. /\ Histories(Origin, Put(z, n + 1, cnf'), frames', cnf')
      /\ frames' = Append(frames, f) /\ Enters(cnf, cnf', -v)
   BY SplitTyped
<1> HIDE DEF v, n, f
<1>6. /\ v \in Variables /\ NewLiteral(BuildLibrary, roots, Assertion(cnf), v)
      /\ v \in InputVariables => v \in cnf.data_variables
      /\ -v \notin cnf.unit_literals /\ -v \in Literal
   BY <1>1, <1>2, <1>4, SplitRight
<1>7. n \in Nat /\ z[n] = cnf /\ frames \in Seq(Frame)
   BY <1>1, <1>4 DEF Working, KcTyped, FramesOf
<1>8. Len(frames') = n + 1 /\ (\A i \in 1 .. n : frames'[i] = frames[i]) /\ frames'[n + 1] = f
   BY <1>4, <1>5, <1>7
<1>9. Kept(Origin, cnf')
   <2>1. Kept(Origin, Put(z, n + 1, cnf')[n + 1]) /\ n + 1 \in 0 .. n + 1
      BY <1>5, <1>7, <1>8 DEF Histories
   <2> QED BY <2>1 DEF Put
<1>10. /\ Right(BuildLibrary, roots, cnf') /\ Assertion(cnf') = Assertion(cnf) \cup {-v}
       /\ Visible(cnf) => Visible(cnf')
   <2>1. IABS(-v) \in InputVariables \cup Numbered(BuildLibrary, roots)
      BY <1>6, NewNegation DEF NewLiteral
   <2> QED BY <1>1, <1>5, <1>6, <2>1, BranchRight DEF Working
<1>11. f.svar = v /\ f.child = << >>
   BY <1>4
<1>12. FrameRight(roots, pog, cnf, cnf', f)
   BY <1>6, <1>10, <1>11 DEF FrameRight
<1>13. cnf.has_conflict => Visible(cnf)
   BY <1>2, <1>3 DEF PartRight
<1>14. Chain(roots, pog, Put(z, n + 1, cnf'), frames')
   BY <1>3, <1>4, <1>7, <1>8, <1>10, <1>12, <1>13, ChainOpens
<1>15. cnf'.has_conflict => Visible(cnf')
   BY <1>5, <1>10, <1>13 DEF Enters
<1>16. Waits(cnf', clause_queue')
   BY <1>2, <1>9, QueueStarts
<1>17. PartRight(pc', roots, pog, cnf', clause_queue', bve', edge')
   BY <1>2, <1>15, <1>16 DEF PartRight
<1> QED BY <1>3, <1>14, <1>17 DEF Goes, n

-----------------------------------------------------------------------------
(* The returns *)

\* The edge of a branch.
LEMMA BranchEdgeRight ==
  ASSUME roots \in RootPairs, Compilable(BuildLibrary, roots), Kept(Origin, cnf), trim = TRUE,
         NEW A, NEW slit, NewLiteral(BuildLibrary, roots, A, slit),
         IABS(slit) \in InputVariables => IABS(slit) \in cnf.data_variables,
         NEW q, WellFormed(q), Countable(q), IsEdge(q, slit),
         NEW e, Returned(BuildLibrary, roots, q, A \cup {slit}, e),
         NEW made, made = BranchEdge(q, slit, e), Fits(made.pog)
  PROVE  SplitDone(BuildLibrary, roots, made.pog, A, slit, made.edge) /\ Countable(made.pog)
<1>1. cnf.data_variables \subseteq InputVariables
   BY NumbersInRange
<1>2. slit \in Literal /\ IABS(slit) \in InputVariables \cup Numbered(BuildLibrary, roots)
   BY DEF NewLiteral
<1>3. CASE IABS(slit) \in InputVariables
   <2>1. ~is_node(slit)
      BY <1>2, <1>3, NumberedFacts
   <2>2. made = MakeNode(q, "PRODUCT", << slit, e >>)
      BY <1>3 DEF BranchEdge, is_data_variable
   <2>3. IABS(slit) \in InputsBelow(BuildLibrary, roots)
      BY <1>3, Originates DEF Kept, FromClausify
   <2> QED BY <2>1, <2>2, <2>3, DataBranch
<1>4. CASE IABS(slit) \notin InputVariables
   <2>1. is_node(slit)
      BY <1>2, <1>4, NumberedFacts
   <2>2. ~is_data_variable(cnf, IABS(slit))
      BY <1>1, <1>4 DEF is_data_variable
   <2>3. made = [pog |-> q, edge |-> e]
      BY <2>2 DEF BranchEdge
   <2>4. made.pog = q /\ made.edge = e
      BY <2>3
   <2> QED BY <2>1, <2>4, NodeBranch
<1> QED BY <1>3, <1>4

\* The frame on top, and what the activation below it knows.
TopRight(z, n, v, A) ==
    /\ n \in Nat /\ n > 0 /\ n = Len(frames) /\ frames \in Seq(Frame)
    /\ v = Top.svar /\ v \in Variables /\ Top = frames[n] /\ A = Assertion(z[n - 1])
    /\ IsEdge(pog, v) /\ IsEdge(pog, -v)
    /\ NewLiteral(BuildLibrary, roots, A, v) /\ NewLiteral(BuildLibrary, roots, A, -v)
    /\ v \in InputVariables => v \in cnf.data_variables /\ v \in z[n - 1].data_variables
    /\ v \notin z[n - 1].unit_literals
    /\ Compiles(BuildLibrary, roots, Origin, z[n - 1])
    /\ FrameRight(roots, pog, z[n - 1], cnf, Top)
    /\ Returned(BuildLibrary, roots, pog, Assertion(cnf), edge)
    /\ Chain(roots, pog, z, frames) /\ Countable(pog)

LEMMA TopFacts ==
  ASSUME KcTyped, NEW z, Histories(Origin, z, frames, cnf), KcGoes(z), pc = "return", frames # << >>,
         NEW n, n = Len(frames), NEW v, v = Top.svar, NEW A, A = Assertion(z[n - 1])
  PROVE  TopRight(z, n, v, A)
<1>1. Working(z)
   BY WorkingFacts
<1>2. /\ PartRight(pc, roots, pog, cnf, clause_queue, bve, edge) /\ Countable(pog)
      /\ Chain(roots, pog, z, frames)
   BY DEF KcGoes, Goes
<1>3. /\ frames \in Seq(Frame) /\ roots \in RootPairs /\ WellFormed(pog)
      /\ \A i \in 1 .. Len(frames) : FrameOf(pog, frames[i])
   BY <1>1 DEF KcTyped, FramesOf, Working
<1>4. n \in Nat /\ n > 0 /\ n \in 1 .. Len(frames) /\ n - 1 \in 0 .. Len(frames)
   <2>1. Len(frames) \in Nat /\ Len(frames) # 0
      BY <1>3, EmptySeq, LenProperties
   <2> QED BY <2>1
<1>5. Top = frames[n]
   BY DEF Top
<1>6. Opened(Origin, z[n - 1], z[n], frames[n]) /\ Kept(Origin, z[n - 1]) /\ z[n] = cnf
   BY <1>4 DEF Histories
<1>7. v \in Variables /\ v \notin z[n - 1].unit_literals
   BY <1>5, <1>6 DEF Opened
<1>8. FrameRight(roots, pog, z[n - 1], cnf, Top)
   BY <1>2, <1>4, <1>5, <1>6 DEF Chain
<1>9. NewLiteral(BuildLibrary, roots, A, v) /\ (v \in InputVariables => v \in z[n - 1].data_variables)
   BY <1>8 DEF FrameRight
<1>10. NewLiteral(BuildLibrary, roots, A, -v)
   BY <1>7, <1>9, NewNegation
<1>11. IsEdge(pog, v) /\ IsEdge(pog, -v)
   BY <1>3, <1>4, <1>5, Negation DEF FrameOf, Negates
<1>12. cnf.data_variables = z[n - 1].data_variables
   BY <1>1, <1>6 DEF Kept, Working
<1>13. Compiles(BuildLibrary, roots, Origin, z[n - 1])
   BY <1>1, <1>6 DEF Compiles, Working
<1>14. Returned(BuildLibrary, roots, pog, Assertion(cnf), edge)
   BY <1>2 DEF PartRight
<1> QED BY <1>2, <1>3, <1>4, <1>5, <1>7, <1>8, <1>9, <1>10, <1>11, <1>12, <1>13, <1>14 DEF TopRight

\* The negative branch returns.
LEMMA NegativeEdge ==
  ASSUME NEW z, Working(z), trim = TRUE, NEW n, NEW v, NEW A, TopRight(z, n, v, A), Top.child = << >>,
         NEW made, made = BranchEdge(pog, -v, edge), Fits(made.pog)
  PROVE  SplitDone(BuildLibrary, roots, made.pog, A, -v, made.edge) /\ Countable(made.pog)
<1>1. v \in Variables /\ NewLiteral(BuildLibrary, roots, A, v) /\ NewLiteral(BuildLibrary, roots, A, -v)
   BY DEF TopRight
<1>2. IABS(-v) = v
   BY <1>1, NewNegation
<1>3. Assertion(cnf) = A \cup {-v}
   <2>1. \A c \in Int : Top.child # << c >>
      OBVIOUS
   <2> QED BY <2>1 DEF TopRight, FrameRight
<1>4. IABS(-v) \in InputVariables => IABS(-v) \in cnf.data_variables
   BY <1>2 DEF TopRight
<1>5. Returned(BuildLibrary, roots, pog, A \cup {-v}, edge) /\ Countable(pog) /\ IsEdge(pog, -v)
   BY <1>3 DEF TopRight
<1> QED BY <1>1, <1>4, <1>5, BranchEdgeRight DEF Working

LEMMA NegativeGoes ==
  ASSUME KcTyped, NEW z, Histories(Origin, z, frames, cnf), KcGoes(z), ReturnNegative, Fits(pog'), trim = TRUE,
         NEW t, t = pop_context(cnf), NEW n, n = Len(frames)
  PROVE  Goes(roots, pog', Put(Put(z, n - 1, t), n, cnf'), frames', pc', cnf', clause_queue', bve', edge')
<1> DEFINE v == Top.svar
           A == Assertion(z[n - 1])
           made == BranchEdge(pog, -v, edge)
           gr == SubSeq(frames, 1, n - 1)
           y == Put(z, n - 1, t)
           m == n - 1
<1>1. Working(z)
   BY WorkingFacts
<1>2. pc = "return" /\ frames # << >> /\ Top.child = << >> /\ pc' = "bcp" /\ clause_queue' = QueueOf(cnf')
   BY DEF ReturnNegative, StartBranch
<1>3. TopRight(z, n, v, A)
   BY <1>2, TopFacts
<1>4. /\ n \in Nat /\ n > 0
      /\ t \in {z[n - 1], Calm(z[n - 1])} /\ Kept(Origin, t)
      /\ GrownGraph(pog, made) /\ pog' = made.pog
      /\ frames' = [frames EXCEPT ![n].child = << made.edge >>] /\ frames \in Seq(Frame)
      /\ Enters(t, cnf', v)
      /\ Histories(Origin, Put(y, n, cnf'), frames', cnf')
   <2>1. /\ n \in Nat /\ n > 0
         /\ t \in {z[n - 1], Calm(z[n - 1])} /\ Kept(Origin, t)
         /\ Enters(t, cnf', Top.svar)
         /\ Histories(Origin, Put(Put(z, n - 1, t), n, cnf'), frames', cnf')
         /\ frames \in Seq(Frame)
      BY NegativeTyped
   <2>2. GrownGraph(pog, made) /\ pog' = made.pog /\ frames' = [frames EXCEPT ![n].child = << made.edge >>]
      BY NegativeTyped
   <2> QED BY <2>1, <2>2
<1>5. made = BranchEdge(pog, -v, edge) /\ v = Top.svar
   OBVIOUS
<1>6. gr = SubSeq(frames, 1, n - 1) /\ y = Put(z, n - 1, t) /\ m = n - 1 /\ m \in Nat /\ n = m + 1
   BY <1>4
<1>7. /\ Len(gr) = m /\ \A i \in 1 .. m : gr[i] = frames[i]
   BY <1>3, <1>4 DEF TopRight
<1> HIDE DEF v, A, made, gr, y, m
<1>8. /\ GraphOf(made.pog) /\ Grown(pog, made.pog) /\ made.edge \in Int /\ WellFormed(made.pog) /\ Fits(made.pog)
   BY <1>4 DEF GrownGraph, GraphOf, WellFormed
<1>9. SplitDone(BuildLibrary, roots, made.pog, A, -v, made.edge) /\ Countable(made.pog)
   BY <1>1, <1>2, <1>3, <1>5, <1>8, NegativeEdge
<1>10. Reopened(roots, z[m], t) /\ Chain(roots, pog, y, gr)
   <2>1. Compiles(BuildLibrary, roots, Origin, z[n - 1]) /\ Chain(roots, pog, z, frames)
      BY <1>3 DEF TopRight
   <2>2. Len(gr) = n - 1 /\ \A i \in 1 .. n - 1 : gr[i] = frames[i]
      BY <1>6, <1>7
   <2>3. n = Len(frames) /\ n \in Nat /\ n > 0
      BY <1>4
   <2> DEFINE s == z[n - 1]
   <2>4. s = z[n - 1] /\ Compiles(BuildLibrary, roots, Origin, s) /\ t \in {s, Calm(s)}
      BY <1>4, <2>1
   <2> HIDE DEF s
   <2>5. Chain(roots, pog, z, frames)
      BY <2>1
   <2>6. Right(BuildLibrary, roots, s) /\ (s.has_conflict => Visible(s))
      <3>1. n - 1 \in 0 .. n /\ n - 1 \in 0 .. n - 1
         BY <2>3
      <3> QED BY <2>3, <2>4, <2>5, <3>1 DEF Chain
   <2>7. Reopened(roots, s, t)
      BY ONLY <2>4, <2>6, Reopens
   <2>8. Chain(roots, pog, Put(z, n - 1, t), gr)
      BY ONLY <2>2, <2>3, <2>4, <2>5, <2>7, ChainCloses
   <2> QED BY <1>6, <2>4, <2>7, <2>8
<1>11. Chain(roots, made.pog, y, gr)
   BY <1>1, <1>8, <1>10, ChainGrows DEF Working
<1>12. A = Assertion(z[m]) /\ Assertion(t) = A /\ t.data_variables = z[m].data_variables
       /\ v \notin t.unit_literals /\ Right(BuildLibrary, roots, t) /\ (t.has_conflict => Visible(t))
   BY <1>3, <1>6, <1>10 DEF TopRight, Reopened
<1>13. v \in Variables /\ NewLiteral(BuildLibrary, roots, A, v) /\ (v \in InputVariables => v \in t.data_variables)
   BY <1>3, <1>6, <1>12 DEF TopRight
<1>14. /\ Right(BuildLibrary, roots, cnf') /\ Assertion(cnf') = A \cup {v}
       /\ Visible(t) => Visible(cnf')
   <2>1. IABS(v) \in InputVariables \cup Numbered(BuildLibrary, roots)
      BY <1>13 DEF NewLiteral
   <2>2. Compiles(BuildLibrary, roots, Origin, t)
      BY <1>1, <1>4 DEF Compiles, Working
   <2> QED BY <1>4, <1>12, <2>1, <2>2, BranchRight
<1>15. /\ Len(frames') = m + 1 /\ \A i \in 1 .. m : frames'[i] = gr[i]
       /\ frames'[m + 1].svar = v /\ frames'[m + 1].child = << made.edge >>
   <2> DEFINE e == made.edge
              x == [Top EXCEPT !.child = << e >>]
   <2>1. e \in Int /\ Top \in Frame /\ Top = frames[n] /\ n \in 1 .. Len(frames) /\ n = Len(frames)
      <3>1. n \in 1 .. Len(frames) /\ n = Len(frames) /\ Top = frames[n]
         BY <1>3, <1>4 DEF TopRight
      <3>2. frames[n] \in Frame
         BY <1>4, <3>1
      <3> QED BY <1>8, <3>1, <3>2
   <2> HIDE DEF e
   <2>2. x \in Frame /\ x.svar = v /\ x.child = << e >>
      <3>1. << e >> \in Seq(Int)
         BY <2>1
      <3> QED BY <1>5, <2>1, <3>1 DEF Frame
   <2>3. frames' = [frames EXCEPT ![n] = x]
      BY <1>4, <2>1 DEF e
   <2> HIDE DEF x
   <2>4. Len(frames') = n /\ (\A i \in 1 .. m : frames'[i] = frames[i]) /\ frames'[n] = x
      BY <1>4, <1>6, <2>1, <2>2, <2>3
   <2> QED BY <1>6, <1>7, <2>2, <2>4 DEF e
<1>16. FrameRight(roots, made.pog, t, cnf', frames'[m + 1])
   BY <1>8, <1>9, <1>12, <1>13, <1>14, <1>15 DEF FrameRight
<1>17. y[m] = t
   BY <1>6 DEF Put
<1>18. Chain(roots, made.pog, Put(y, m + 1, cnf'), frames')
   <2> DEFINE g == made.pog
              s == y[m]
              hr == frames'
              x == cnf'
   <2>1. m \in Nat /\ m = Len(gr) /\ Chain(roots, g, y, gr)
      BY <1>6, <1>7, <1>11
   <2>2. s = y[m] /\ (s.has_conflict => Visible(s)) /\ s = t
      BY <1>12, <1>17
   <2>3. Len(hr) = m + 1 /\ \A i \in 1 .. m : hr[i] = gr[i]
      BY <1>15
   <2>4. Right(BuildLibrary, roots, x) /\ FrameRight(roots, g, s, x, hr[m + 1])
      BY <1>14, <1>16, <2>2
   <2> HIDE DEF g, s, hr, x
   <2>5. Chain(roots, g, Put(y, m + 1, x), hr)
      BY ONLY <2>1, <2>2, <2>3, <2>4, ChainOpens
   <2> QED BY <2>5 DEF g, hr, x
<1>19. Kept(Origin, cnf')
   <2>1. n \in 0 .. Len(frames')
      BY <1>4, <1>6, <1>15
   <2>2. Put(y, n, cnf')[n] = cnf'
      BY <1>4 DEF Put
   <2> QED BY <1>4, <2>1, <2>2 DEF Histories
<1>20. (cnf'.has_conflict => Visible(cnf')) /\ Waits(cnf', clause_queue')
   BY <1>2, <1>4, <1>12, <1>14, <1>19, QueueStarts DEF Enters
<1>21. PartRight(pc', roots, made.pog, cnf', clause_queue', bve', edge')
   BY <1>2, <1>20 DEF PartRight
<1>22. Goes(roots, made.pog, Put(y, m + 1, cnf'), frames', pc', cnf', clause_queue', bve', edge')
   BY <1>9, <1>18, <1>21 DEF Goes
<1> QED BY <1>4, <1>6, <1>22

\* The positive branch returns.
LEMMA PositiveEdge ==
  ASSUME NEW z, Working(z), trim = TRUE, NEW n, NEW v, NEW A, TopRight(z, n, v, A),
         NEW c \in Int, Top.child = << c >>,
         NEW made, made = BranchEdge(pog, v, edge), Fits(made.pog), WellFormed(made.pog), Grown(pog, made.pog),
         NEW sum, sum = MakeNode(made.pog, "SUM", << c, made.edge >>), Fits(sum.pog)
  PROVE  Returned(BuildLibrary, roots, sum.pog, A, sum.edge) /\ Countable(sum.pog)
<1>1. v \in Variables /\ NewLiteral(BuildLibrary, roots, A, v)
   BY DEF TopRight
<1>2. IABS(v) = v
   BY <1>1, NewNegation
<1>3. Assertion(cnf) = A \cup {v} /\ SplitDone(BuildLibrary, roots, pog, A, -v, c)
   <2>1. Top.child # << >> /\ \A d \in Int : Top.child = << d >> => d = c
      OBVIOUS
   <2> QED BY <2>1 DEF TopRight, FrameRight
<1>4. IABS(v) \in InputVariables => IABS(v) \in cnf.data_variables
   BY <1>2 DEF TopRight
<1>5. Returned(BuildLibrary, roots, pog, A \cup {v}, edge) /\ Countable(pog) /\ IsEdge(pog, v)
   BY <1>3 DEF TopRight
<1>6. SplitDone(BuildLibrary, roots, made.pog, A, v, made.edge) /\ Countable(made.pog)
   BY <1>1, <1>4, <1>5, BranchEdgeRight DEF Working
<1>7. WellFormed(pog) /\ Compilable(BuildLibrary, roots)
   BY DEF Working
<1> DEFINE g == made.pog
           m == made.edge
<1>8. /\ WellFormed(g) /\ Grown(pog, g) /\ Countable(g) /\ SplitDone(BuildLibrary, roots, g, A, v, m)
      /\ sum = MakeNode(g, "SUM", << c, m >>)
   BY <1>6
<1> HIDE DEF g, m
<1>9. SplitDone(BuildLibrary, roots, g, A, -v, c)
   BY <1>3, <1>7, <1>8, ReturnedKept
<1> QED BY <1>1, <1>7, <1>8, <1>9, SumReturned

LEMMA PositiveGoes ==
  ASSUME KcTyped, NEW z, Histories(Origin, z, frames, cnf), KcGoes(z), ReturnPositive, Fits(pog'), trim = TRUE,
         NEW n, n = Len(frames)
  PROVE  Goes(roots, pog', Put(z, n - 1, cnf'), frames', pc', cnf', clause_queue', bve', edge')
<1> DEFINE v == Top.svar
           A == Assertion(z[n - 1])
           made == BranchEdge(pog, v, edge)
           c == Top.child[1]
           sum == MakeNode(made.pog, "SUM", << c, made.edge >>)
           gr == frames'
           t == cnf'
           s == z[n - 1]
           g == sum.pog
<1>1. Working(z)
   BY WorkingFacts
<1>2. pc = "return" /\ frames # << >>
   BY DEF ReturnPositive
<1>3. TopRight(z, n, v, A)
   BY <1>2, TopFacts
<1>4. /\ n \in Nat /\ n > 0 /\ n = Len(frames)
      /\ t \in {s, Calm(s)}
      /\ FrameOf(pog, Top) /\ Top.child = << c >> /\ IsEdge(pog, c)
      /\ GrownGraph(pog, made) /\ GrownGraph(made.pog, sum) /\ GrownGraph(pog, sum)
      /\ pog' = g /\ edge' = sum.edge /\ pc' = "return"
      /\ Len(gr) = n - 1 /\ \A i \in 1 .. n - 1 : gr[i] = frames[i]
   BY PositiveTyped
<1>5. made = BranchEdge(pog, v, edge) /\ v = Top.svar /\ sum = MakeNode(made.pog, "SUM", << c, made.edge >>)
   OBVIOUS
<1>6. A = Assertion(s) /\ s = z[n - 1] /\ g = sum.pog /\ t = cnf' /\ gr = frames'
   OBVIOUS
<1> HIDE DEF v, A, made, c, sum, gr, t, s, g
<1>7. c \in Int
   BY <1>4 DEF IsEdge, IABS
<1>8. /\ Fits(made.pog) /\ WellFormed(made.pog) /\ Grown(pog, made.pog)
      /\ Fits(sum.pog) /\ WellFormed(g) /\ Grown(pog, g)
   BY <1>4, <1>6 DEF GrownGraph, GraphOf, WellFormed
<1>9. Returned(BuildLibrary, roots, sum.pog, A, sum.edge) /\ Countable(sum.pog)
   BY <1>1, <1>3, <1>4, <1>5, <1>7, <1>8, PositiveEdge
<1>10. Compiles(BuildLibrary, roots, Origin, s) /\ Chain(roots, pog, z, frames)
   BY <1>3, <1>6 DEF TopRight
<1>11. Right(BuildLibrary, roots, s) /\ (s.has_conflict => Visible(s))
   <2>1. n - 1 \in 0 .. n /\ n - 1 \in 0 .. n - 1
      BY <1>4
   <2> QED BY <1>4, <1>6, <1>10, <2>1 DEF Chain
<1>12. Reopened(roots, s, t)
   BY <1>4, <1>10, <1>11, Reopens
<1>13. Chain(roots, pog, Put(z, n - 1, t), gr)
   BY ONLY <1>4, <1>6, <1>10, <1>12, ChainCloses
<1>14. Chain(roots, g, Put(z, n - 1, t), gr)
   <2> DEFINE y == Put(z, n - 1, t)
   <2>1. Chain(roots, pog, y, gr)
      BY <1>13
   <2> HIDE DEF y
   <2>2. Chain(roots, g, y, gr)
      BY <1>1, <1>8, <2>1, ChainGrows DEF Working
   <2> QED BY <2>2 DEF y
<1>15. PartRight(pc', roots, g, t, clause_queue', bve', edge')
   <2>1. Returned(BuildLibrary, roots, g, Assertion(t), edge')
      BY <1>4, <1>6, <1>9, <1>12 DEF Reopened
   <2>2. pc' = "return"
      BY <1>4
   <2> QED BY <2>1, <2>2 DEF PartRight
<1> QED BY <1>4, <1>6, <1>9, <1>14, <1>15 DEF Goes

-----------------------------------------------------------------------------
(* What has been returned, read in the graph *)

\* The subgraph and what its edges represent stay the same.
LEMMA LibraryKept ==
  ASSUME KcTyped
  PROVE  /\ Compilable(BuildLibrary, roots)
         /\ NodeRemap(pog, ToSet(roots)) = NodeRemap(BuildLibrary, ToSet(roots))
         /\ \A e : IsEdge(BuildLibrary, e) => Meaning(pog, e) = Meaning(BuildLibrary, e)
<1>1. roots \in RootPairs /\ WellFormed(pog) /\ Grown(BuildLibrary, pog)
   BY DEF KcTyped, GraphOf
<1>2. Compilable(BuildLibrary, roots)
   BY <1>1, Originates
<1>3. WellFormed(BuildLibrary) /\ ProperRoots(BuildLibrary, ToSet(roots))
   BY <1>2 DEF Compilable
<1>4. NodeRemap(pog, ToSet(roots)) = NodeRemap(BuildLibrary, ToSet(roots))
   BY <1>1, <1>3, ReachableKept
<1>5. KeepsEdges(BuildLibrary, pog)
   BY <1>1, <1>3, GrownEdges, Sizes
<1> QED BY <1>2, <1>4, <1>5 DEF KeepsEdges

\* A literal of a split has the value of its edge.
LEMMA SplitMeaning ==
  ASSUME KcTyped, NEW lit \in Literal, IABS(lit) \in InputVariables \cup Numbered(BuildLibrary, roots),
         NEW a \in Assignments
  PROVE  a \in LiteralModels(AllModels(pog), lit) <=> Holds(Extension(BuildLibrary, roots, a), lit)
<1> DEFINE remap == NodeRemap(BuildLibrary, ToSet(roots))
           id == IF is_node(lit) THEN CHOOSE x \in DOMAIN remap : remap[x] = IABS(lit) ELSE IABS(lit)
           e == IF lit < 0 THEN -id ELSE id
<1>1. Compilable(BuildLibrary, roots) /\ NodeRemap(pog, ToSet(roots)) = remap
   BY LibraryKept
<1>2. LiteralModels(AllModels(pog), lit) = Meaning(pog, e)
   BY <1>1 DEF LiteralModels, Meaning
<1>3. /\ remap = NodeRemap(BuildLibrary, ToSet(roots))
      /\ id = IF is_node(lit) THEN CHOOSE x \in DOMAIN remap : remap[x] = IABS(lit) ELSE IABS(lit)
      /\ e = IF lit < 0 THEN -id ELSE id
   OBVIOUS
<1> HIDE DEF remap, id, e
<1>4. Inside(BuildLibrary, roots, e) /\ Remapped(remap, e) = lit
   BY <1>1, <1>3, LiteralEdge
<1>5. Meaning(pog, e) = Meaning(BuildLibrary, e)
   BY <1>4, LibraryKept DEF Inside
<1>6. Reads(BuildLibrary, roots, Extension(BuildLibrary, roots, a), a)
   BY <1>1, ExtensionReads
<1>7. Holds(Extension(BuildLibrary, roots, a), lit) <=> a \in Meaning(BuildLibrary, e)
   BY <1>3, <1>4, <1>6 DEF Reads
<1> QED BY <1>2, <1>5, <1>7

\* So ReturnsConjunction says what Returned says.
LEMMA ReturnedMeans ==
  ASSUME KcTyped, NEW z, Histories(Origin, z, frames, cnf), KcGoes(z)
  PROVE  ReturnsConjunction
<1> SUFFICES ASSUME pc = "return"
             PROVE  ReturnsConjunction
   BY DEF ReturnsConjunction
<1> DEFINE A == Assertion(cnf)
           models == AllModels(pog)
           agree == { a \in SUBSET InputVariables : \A lit \in Asserted : a \in LiteralModels(models, lit) }
           common == EdgeModels(models, roots[1]) \cap EdgeModels(models, roots[2])
           given == { a \in SUBSET InputVariables : \A lit \in Asserted : ~is_node(lit) => Holds(a, lit) }
<1>1. Working(z) /\ Asserted = A
   BY WorkingFacts DEF Asserted, Assertion
<1>2. Returned(BuildLibrary, roots, pog, A, edge)
   BY DEF KcGoes, Goes, PartRight
<1>3. \A lit \in A : lit \in Literal /\ IABS(lit) \in InputVariables \cup Numbered(BuildLibrary, roots)
   <2>1. \A lit \in A : IABS(lit) \in InputVariables \cup Numbered(BuildLibrary, roots)
      BY <1>1 DEF Working, Right
   <2>2. cnf \in CnfType
      BY <1>1 DEF Working, Kept
   <2>3. cnf.unit_literals \subseteq Literal
      BY <2>2 DEF CnfType
   <2> QED BY <2>1, <2>3 DEF Assertion
<1>4. common = Common(BuildLibrary, roots)
   <2>1. roots \in Int \X Int /\ ProperRoots(BuildLibrary, ToSet(roots))
      BY <1>1 DEF Working, Compilable
   <2>2. roots[1] \in ToSet(roots) /\ roots[2] \in ToSet(roots)
      BY <2>1 DEF ToSet
   <2>3. IsEdge(BuildLibrary, roots[1]) /\ IsEdge(BuildLibrary, roots[2])
      BY <2>1, <2>2 DEF ProperRoots
   <2> QED BY <2>3, LibraryKept DEF Common, Meaning
<1>5. given = Given(A)
   BY <1>1 DEF Given, Assignments
<1>6. Common(BuildLibrary, roots) \cap agree = Solutions(BuildLibrary, roots, A)
   <2>1. Common(BuildLibrary, roots) \subseteq Assignments
      <3>1. Compilable(BuildLibrary, roots)
         BY LibraryKept
      <3>2. Meaning(BuildLibrary, roots[1]) \in SUBSET Assignments
         <4>1. roots \in Int \X Int /\ ProperRoots(BuildLibrary, ToSet(roots)) /\ WellFormed(BuildLibrary)
            BY <3>1 DEF Compilable
         <4>2. roots[1] \in ToSet(roots)
            BY <4>1 DEF ToSet
         <4>3. IsEdge(BuildLibrary, roots[1])
            BY <4>1, <4>2 DEF ProperRoots
         <4> QED BY <4>1, <4>3, Negation DEF Negates
      <3> QED BY <3>2 DEF Common
   <2>2. ASSUME NEW lit \in A, NEW a \in Assignments
         PROVE  a \in LiteralModels(models, lit) <=> Holds(Extension(BuildLibrary, roots, a), lit)
      BY <1>3, SplitMeaning
   <2> QED BY <1>1, <2>1, <2>2 DEF Solutions, Assignments
<1>7. EdgeModels(models, edge) \cap given = common \cap agree
   BY <1>2, <1>4, <1>5, <1>6 DEF Returned, Meaning
<1> QED BY <1>7 DEF ReturnsConjunction

-----------------------------------------------------------------------------
(* The invariant of what is returned *)

KcSem == KcTyped /\ trim = TRUE /\ \E z : Histories(Origin, z, frames, cnf) /\ KcGoes(z)

LEMMA SemInit ==
  ASSUME Init, trim = TRUE
  PROVE  KcSem
BY InitTyped, InitGoes DEF KcSem

\* The object is as it was.
LEMMA HistoryStays ==
  ASSUME KcTyped, NEW z, Histories(Origin, z, frames, cnf)
  PROVE  Histories(Origin, Put(z, Len(frames), cnf), frames, cnf)
<1>1. Kept(Origin, cnf) /\ Len(frames) \in Nat
   BY FramesLength, TopObject DEF KcTyped
<1>2. Proceeds(cnf, cnf)
   BY DEF Proceeds
<1> QED BY <1>1, <1>2, HistoryMoves

\* What a step must establish.
LEMMA SemStep ==
  ASSUME roots' = roots, trim' = trim, trim = TRUE, KcTyped', NEW y, Histories(Origin, y, frames', cnf'),
         Goes(roots, pog', y, frames', pc', cnf', clause_queue', bve', edge')
  PROVE  KcSem'
<1>1. Origin' = Origin
   BY DEF Origin
<1>2. Histories(Origin, y, frames, cnf)'
   BY <1>1
<1>3. KcGoes(y)'
   BY DEF KcGoes
<1> QED BY <1>2, <1>3 DEF KcSem

LEMMA SemKept ==
  ASSUME KcSem, [Next]_vars, Fits(pog'), ConflictKept'
  PROVE  KcSem'
<1>1. KcTyped /\ trim = TRUE
   BY DEF KcSem
<1>2. PICK z : Histories(Origin, z, frames, cnf) /\ KcGoes(z)
   BY DEF KcSem
<1> DEFINE n == Len(frames)
<1>3. CASE Bcp \/ Bve
   <2>1. roots' = roots /\ frames' = frames /\ trim' = trim /\ pog' = pog
      BY <1>3 DEF Bcp, Bve, kcUnchanged
   <2>2. KcTyped' /\ Histories(Origin, Put(z, n, cnf'), frames, cnf')
      BY <1>1, <1>2, <1>3, ReduceTyped
   <2>3. Goes(roots, pog, Put(z, n, cnf'), frames, pc', cnf', clause_queue', bve', edge')
      BY <1>1, <1>2, <1>3, BcpGoes, BveGoes
   <2> QED BY <1>1, <2>1, <2>2, <2>3, SemStep
<1>4. CASE TestUnsat \/ TestSat \/ FinishBcp \/ FinishBve
   <2>1. KcTyped' /\ cnf' = cnf /\ frames' = frames /\ roots' = roots /\ pog' = pog
      BY <1>1, <1>2, <1>4, TestTyped
   <2>2. trim' = trim
      BY <1>4 DEF TestUnsat, TestSat, FinishBcp, FinishBve, kcUnchanged
   <2>3. Goes(roots, pog, Put(z, n, cnf), frames, pc', cnf, clause_queue', bve', edge')
      BY <1>1, <1>2, <1>4, TestGoes
   <2>4. Histories(Origin, Put(z, n, cnf), frames, cnf)
      BY <1>1, <1>2, HistoryStays
   <2> QED BY <1>1, <2>1, <2>2, <2>3, <2>4, SemStep
<1>5. CASE UNCHANGED vars
   <2>1. /\ cnf' = cnf /\ frames' = frames /\ roots' = roots /\ pog' = pog /\ trim' = trim
         /\ pc' = pc /\ clause_queue' = clause_queue /\ bve' = bve /\ edge' = edge
      BY <1>5 DEF vars
   <2>2. KcTyped'
      BY <1>1, <1>2, <1>5, TestTyped
   <2>3. Goes(roots, pog, z, frames, pc, cnf, clause_queue, bve, edge)
      BY <1>2 DEF KcGoes
   <2> QED BY <1>1, <1>2, <2>1, <2>2, <2>3, SemStep
<1>6. CASE CheckSimple
   <2>1. KcTyped' /\ cnf' = cnf /\ frames' = frames /\ roots' = roots
      BY <1>1, <1>2, <1>6, SimpleTyped
   <2>2. trim' = trim
      BY <1>6 DEF CheckSimple
   <2>3. Goes(roots, pog', Put(z, n, cnf), frames, pc', cnf, clause_queue', bve', edge')
      BY <1>1, <1>2, <1>6, SimpleGoes
   <2>4. Histories(Origin, Put(z, n, cnf), frames, cnf)
      BY <1>1, <1>2, HistoryStays
   <2> QED BY <1>1, <2>1, <2>2, <2>3, <2>4, SemStep
<1>7. CASE CheckSplit
   <2>1. /\ KcTyped' /\ Histories(Origin, Put(z, n + 1, cnf'), frames', cnf')
         /\ roots' = roots /\ pog' = pog
      BY <1>1, <1>2, <1>7, SplitTyped
   <2>2. trim' = trim
      BY <1>7 DEF CheckSplit
   <2>3. Goes(roots, pog, Put(z, n + 1, cnf'), frames', pc', cnf', clause_queue', bve', edge')
      BY <1>1, <1>2, <1>7, SplitGoes
   <2> QED BY <1>1, <2>1, <2>2, <2>3, SemStep
<1>8. CASE ReturnNegative
   <2>1. /\ KcTyped' /\ roots' = roots
         /\ Histories(Origin, Put(Put(z, n - 1, pop_context(cnf)), n, cnf'), frames', cnf')
      BY <1>1, <1>2, <1>8, NegativeTyped
   <2>2. trim' = trim
      BY <1>8 DEF ReturnNegative
   <2>3. Goes(roots, pog', Put(Put(z, n - 1, pop_context(cnf)), n, cnf'), frames', pc', cnf',
              clause_queue', bve', edge')
      BY <1>1, <1>2, <1>8, NegativeGoes
   <2> QED BY <1>1, <2>1, <2>2, <2>3, SemStep
<1>9. CASE ReturnPositive
   <2>1. KcTyped' /\ roots' = roots /\ Histories(Origin, Put(z, n - 1, cnf'), frames', cnf')
      BY <1>1, <1>2, <1>9, PositiveTyped
   <2>2. trim' = trim
      BY <1>9 DEF ReturnPositive
   <2>3. Goes(roots, pog', Put(z, n - 1, cnf'), frames', pc', cnf', clause_queue', bve', edge')
      BY <1>1, <1>2, <1>9, PositiveGoes
   <2> QED BY <1>1, <2>1, <2>2, <2>3, SemStep
<1> QED BY <1>3, <1>4, <1>5, <1>6, <1>7, <1>8, <1>9 DEF Next, Done

LEMMA SemInvariant ==
  ASSUME Trims = {TRUE}
  PROVE  Spec /\ []Fits(pog) /\ []ConflictKept => []KcSem
<1>1. Init => KcSem
   <2> SUFFICES ASSUME Init
                PROVE  KcSem
      OBVIOUS
   <2>1. trim = TRUE
      BY DEF Init
   <2> QED BY <2>1, SemInit
<1>2. KcSem /\ [Next]_vars /\ Fits(pog)' /\ ConflictKept' => KcSem'
   <2>1. ASSUME KcSem, [Next]_vars, Fits(pog'), ConflictKept'
         PROVE  KcSem'
      BY <2>1, SemKept
   <2>2. Fits(pog)' => Fits(pog')
      BY DEF Fits
   <2> QED BY <2>1, <2>2
<1> QED BY <1>1, <1>2, PTL DEF Spec

\* Whatever an activation of builtin_kc returns represents the common models of
\* the roots, provided that no conflict gets out of sight.
THEOREM ReturnsRight ==
  ASSUME Trims = {TRUE}
  PROVE  Spec /\ []Fits(pog) /\ []ConflictKept => []ReturnsConjunction
<1>1. KcSem => ReturnsConjunction
   <2> SUFFICES ASSUME KcSem
                PROVE  ReturnsConjunction
      OBVIOUS
   <2>1. KcTyped
      BY DEF KcSem
   <2>2. PICK z : Histories(Origin, z, frames, cnf) /\ KcGoes(z)
      BY DEF KcSem
   <2> QED BY <2>1, <2>2, ReturnedMeans
<1> QED BY <1>1, SemInvariant, PTL

\* The graph that it extends stays countable.
THEOREM RemainsCountable ==
  ASSUME Trims = {TRUE}
  PROVE  Spec /\ []Fits(pog) /\ []ConflictKept => []StaysCountable
<1>1. KcSem => StaysCountable
   BY DEF KcSem, KcGoes, Goes, StaysCountable
<1> QED BY <1>1, SemInvariant, PTL

\* The variables below the roots.
LEMMA ScopeIsBelow ==
  ASSUME NEW p, NEW r, Compilable(p, r)
  PROVE  InputsBelow(p, r) \subseteq Mentions(p, r[1]) \cup Mentions(p, r[2])
<1> DEFINE W == Mentions(p, r[1]) \cup Mentions(p, r[2])
           S == { id \in NodeIds(p) : Mentions(p, id) \subseteq W }
<1>1. WellFormed(p) /\ ProperRoots(p, ToSet(r)) /\ ToSet(r) = {r[1], r[2]}
   BY RootPair DEF Compilable
\* Arguments of a node mention what the node does.
<1>2. ASSUME NEW id \in S, NEW x \in ToSet(NodeOf(p, id).args)
      PROVE  IsEdge(p, x) /\ IABS(x) # TAUTOLOGY /\ Mentions(p, x) \subseteq W
   <2>1. IsNode(p, id, NodeOf(p, id)) /\ Mentions(p, id) \subseteq W
      BY <1>1, ChildrenFacts
   <2>2. IsEdge(p, x) /\ IABS(x) # TAUTOLOGY
      BY <2>1 DEF IsNode
   <2>3. Mentions(p, x) \subseteq InputVariables
      BY <1>1, <2>2, Flags
   <2> QED BY <2>1, <2>2, <2>3 DEF IsNode, MentionedBy
<1>3. ASSUME NEW x, IsEdge(p, x), IABS(x) # TAUTOLOGY, Mentions(p, x) \subseteq W
      PROVE  IF is_node(x) THEN IABS(x) \in S ELSE IABS(x) \in W
   <2>1. CASE is_node(x)
      <3>1. IABS(x) \in NodeIds(p)
         BY <1>1, <1>3, <2>1, ChildrenFacts
      <3>2. is_node(IABS(x)) /\ IABS(IABS(x)) = IABS(x)
         BY <1>1, <3>1, ChildrenFacts
      <3>3. Mentions(p, IABS(x)) = Mentions(p, x)
         BY <2>1, <3>2, EdgeCases DEF Mentions
      <3> QED BY <1>3, <2>1, <3>1, <3>3
   <2>2. CASE ~is_node(x)
      BY <1>3, <2>2, EdgeCases DEF Mentions
   <2> QED BY <2>1, <2>2
<1>4. \A e \in ToSet(r) : IsEdge(p, e) /\ IABS(e) # TAUTOLOGY /\ Mentions(p, e) \subseteq W
   BY <1>1 DEF ProperRoots
<1>5. \A e : IsEdge(p, e) => (is_node(IABS(e)) <=> is_node(e))
   BY DEF is_node, IABS, IsEdge
<1> HIDE DEF W, S
<1>6. Closed(p, ToSet(r), S)
   <2>1. ASSUME NEW id \in S, NEW c \in Children(p, id), is_node(c)
         PROVE  c \in S
      <3>1. PICK x \in ToSet(NodeOf(p, id).args) : c = IABS(x)
         BY DEF Children
      <3> QED BY <1>2, <1>3, <1>5, <2>1, <3>1
   <2> QED BY <1>3, <1>4, <2>1 DEF Closed
<1>7. Reachable(p, ToSet(r)) \subseteq S
   BY <1>1, <1>6, ReachableFacts
<1>8. ASSUME NEW v \in InputsBelow(p, r)
      PROVE  v \in W
   <2>1. \E e : /\ IsEdge(p, e) /\ IABS(e) # TAUTOLOGY /\ Mentions(p, e) \subseteq W /\ v = IABS(e)
      <3>1. CASE \E id \in Reachable(p, ToSet(r)) : v \in Children(p, id)
         BY <1>2, <1>7, <3>1 DEF Children
      <3>2. CASE \E e \in ToSet(r) : v = IABS(e)
         BY <1>4, <3>2
      <3> QED BY <3>1, <3>2 DEF InputsBelow
   <2>2. ~is_node(v)
      BY DEF InputsBelow
   <2> QED BY <1>3, <1>5, <2>1, <2>2
<1> QED BY <1>8 DEF W

\* What the traversal needs of a compilation (CompilerContract of module
\* Traverse_proofs).  In the end nothing is asserted any more: the edge stands
\* for the conjunction, in a graph in which the older edges are what they were,
\* and mentions only variables below the roots.
THEOREM EndsWithConjunction ==
  ASSUME Trims = {TRUE}
  PROVE  Spec /\ []Fits(pog) /\ []ConflictKept
           => [](Finished =>
                   /\ WellFormed(pog) /\ Countable(pog) /\ Grown(BuildLibrary, pog) /\ IsEdge(pog, edge)
                   /\ Meaning(pog, edge) = Meaning(BuildLibrary, roots[1]) \cap Meaning(BuildLibrary, roots[2])
                   /\ IABS(edge) # TAUTOLOGY =>
                        Mentions(pog, edge) \subseteq
                          Mentions(BuildLibrary, roots[1]) \cup Mentions(BuildLibrary, roots[2]))
<1> DEFINE Compiled ==
             /\ WellFormed(pog) /\ Countable(pog) /\ Grown(BuildLibrary, pog) /\ IsEdge(pog, edge)
             /\ Meaning(pog, edge) = Meaning(BuildLibrary, roots[1]) \cap Meaning(BuildLibrary, roots[2])
             /\ IABS(edge) # TAUTOLOGY =>
                  Mentions(pog, edge) \subseteq
                    Mentions(BuildLibrary, roots[1]) \cup Mentions(BuildLibrary, roots[2])
<1>1. KcSem => (Finished => Compiled)
   <2> SUFFICES ASSUME KcSem, Finished
                PROVE  Compiled
      OBVIOUS
   <2>1. KcTyped
      BY DEF KcSem
   <2>2. PICK z : Histories(Origin, z, frames, cnf) /\ KcGoes(z)
      BY DEF KcSem
   <2>3. pc = "return" /\ Len(frames) = 0
      BY DEF Finished
   <2>4. Working(z) /\ WellFormed(pog) /\ Grown(BuildLibrary, pog)
      BY <2>1, <2>2, WorkingFacts DEF KcTyped, GraphOf
   <2>5. Assertion(cnf) = {}
      BY <2>2, <2>3, <2>4 DEF KcGoes, Goes, Chain, Working
   <2>6. Returned(BuildLibrary, roots, pog, {}, edge) /\ Countable(pog)
      BY <2>2, <2>3, <2>5 DEF KcGoes, Goes, PartRight
   <2>7. Meaning(pog, edge) \in SUBSET Assignments /\ IsEdge(pog, edge)
      BY <2>4, <2>6, Negation DEF Returned, Negates, Working
   <2>8. Meaning(pog, edge) = Common(BuildLibrary, roots)
      BY <2>6, <2>7 DEF Returned, Solutions, Given
   <2>9. ASSUME IABS(edge) # TAUTOLOGY
         PROVE  Mentions(pog, edge) \subseteq
                  Mentions(BuildLibrary, roots[1]) \cup Mentions(BuildLibrary, roots[2])
      <3>1. Mentions(pog, edge) \subseteq InputVariables
         BY <2>4, <2>7, <2>9, Flags
      <3>2. Mentions(pog, edge) \subseteq InputsBelow(BuildLibrary, roots)
         BY <2>6, <3>1 DEF Returned, Scoped
      <3> QED BY <2>4, <3>2, ScopeIsBelow DEF Working
   <2> QED BY <2>4, <2>6, <2>7, <2>8, <2>9 DEF Common
<1> HIDE DEF Compiled
<1>2. Spec /\ []Fits(pog) /\ []ConflictKept => [](Finished => Compiled)
   BY <1>1, SemInvariant, PTL
<1> QED BY <1>2 DEF Compiled
=============================================================================

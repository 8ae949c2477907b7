---------------------------- MODULE Reduce_proofs ----------------------------
(***************************************************************************)
(* What one step of bcp() and of bve() does to an object, whatever it      *)
(* holds: sound objects stay sound, and the formula keeps its solutions.   *)
(*                                                                         *)
(* A sound object has an exact index, has propagated its unit literals,    *)
(* and no longer mentions the variables classified as eliminated.  Its     *)
(* formula is read with all unit literals (Satisfies); Keeps relates the   *)
(* solutions before and after a step.                                      *)
(***************************************************************************)
EXTENDS Reduce, Cnf_proofs

\* The part of the invariant of preprocessing that is about the object.
Sound(s) ==
    /\ s \in CnfType
    /\ IndexExact(s)
    /\ s.uquantified_variables = {}
    /\ s.bcp_unit_literals = s.unit_literals
    /\ \A lit \in s.unit_literals :
           -lit \notin s.unit_literals /\ s.variable_type[IABS(lit)] = "ELIM"
    /\ \A cid \in s.active_clauses : \A lit \in FreeLits(s, cid) :
           s.variable_type[IABS(lit)] # "ELIM"
    /\ s.has_conflict => \E cid \in s.active_clauses : FreeLits(s, cid) = {}

\* a satisfies the clauses and the unit literals of s.
Satisfies(s, a) ==
    /\ a \in SUBSET Variables
    /\ \A lit \in s.unit_literals : Holds(a, lit)
    /\ \A cid \in s.active_clauses : HoldsClause(a, FreeLits(s, cid))

\* From s to t solutions are neither lost nor added, on the variables D and on
\* those that can still occur; what is eliminated stays eliminated.
Keeps(s, t, D) ==
    /\ \A a : Satisfies(s, a) => \E b : Satisfies(t, b) /\ a \cap D = b \cap D
    /\ \A b : Satisfies(t, b) => \E a :
           /\ Satisfies(s, a)
           /\ a \cap D = b \cap D
           /\ \A v \in Variables : t.variable_type[v] # "ELIM" => (v \in a <=> v \in b)
    /\ \A v \in Variables : s.variable_type[v] = "ELIM" => t.variable_type[v] = "ELIM"

-----------------------------------------------------------------------------
(* Sound objects *)

\* In a sound object no unit literal occurs in an active clause, so the free
\* literals are those that are not false, and only eliminated variables are
\* assigned.
LEMMA SoundFacts ==
  ASSUME NEW s, Sound(s)
  PROVE  /\ \A lit \in Literal : s.variable_type[IABS(lit)] # "ELIM" =>
                lit \notin s.unit_literals /\ -lit \notin s.unit_literals
         /\ \A cid \in s.active_clauses :
                /\ cid \in DOMAIN s.clauses /\ cid \in ClauseId
                /\ FreeLits(s, cid) = { lit \in Lits(s, cid) : -lit \notin s.unit_literals }
                /\ Lits(s, cid) \subseteq Literal
                /\ FreeLits(s, cid) \subseteq Literal
                /\ Lits(s, cid) \cap s.unit_literals = {}
                /\ \A lit \in Lits(s, cid) :
                       s.variable_type[IABS(lit)] # "ELIM" => lit \in FreeLits(s, cid)
<1>1. s \in CnfType /\ IndexExact(s) /\ s.unit_literals \subseteq Literal
      /\ s.uquantified_variables = {}
   BY DEF Sound, CnfType
<1>2. ASSUME NEW lit \in Literal, s.variable_type[IABS(lit)] # "ELIM"
      PROVE  lit \notin s.unit_literals /\ -lit \notin s.unit_literals
   BY <1>2, LiteralFacts DEF Sound
<1>3. ASSUME NEW cid \in s.active_clauses
      PROVE  /\ cid \in DOMAIN s.clauses /\ cid \in ClauseId
             /\ FreeLits(s, cid) = { lit \in Lits(s, cid) : -lit \notin s.unit_literals }
             /\ Lits(s, cid) \subseteq Literal
             /\ FreeLits(s, cid) \subseteq Literal
             /\ Lits(s, cid) \cap s.unit_literals = {}
             /\ \A lit \in Lits(s, cid) :
                    s.variable_type[IABS(lit)] # "ELIM" => lit \in FreeLits(s, cid)
   <2>1. cid \in DOMAIN s.clauses
      BY <1>1 DEF IndexExact
   <2>2. /\ cid \in ClauseId /\ Lits(s, cid) \subseteq Literal
         /\ FreeLits(s, cid) \subseteq Lits(s, cid)
      BY <1>1, <2>1, ClauseFacts
   <2>3. FreeLits(s, cid) = { lit \in Lits(s, cid) : -lit \notin s.unit_literals }
      BY <1>1, FreeLitsFacts
   <2>4. ASSUME NEW lit \in Lits(s, cid), lit \in s.unit_literals
         PROVE  FALSE
      <3>1. s.variable_type[IABS(lit)] = "ELIM" /\ -lit \notin s.unit_literals
         BY <2>4 DEF Sound
      <3>2. lit \in FreeLits(s, cid)
         BY <2>3, <3>1
      <3> QED BY <3>1, <3>2 DEF Sound
   <2>5. \A lit \in Lits(s, cid) :
            s.variable_type[IABS(lit)] # "ELIM" => lit \in FreeLits(s, cid)
      BY <1>2, <2>2, <2>3
   <2> QED BY <2>1, <2>2, <2>3, <2>4, <2>5
<1> QED BY <1>2, <1>3

\* So propagate_clause finds no satisfied clause, and its answers are told
\* apart although they are all integers.
LEMMA PropagateFacts ==
  ASSUME NEW s, Sound(s), NEW cid \in s.active_clauses,
         NEW val, val = propagate_clause(s, cid)
  PROVE  /\ val # TAUTOLOGY
         /\ val = CONFLICT => FreeLits(s, cid) = {}
         /\ val \notin {0, CONFLICT, TAUTOLOGY} =>
                val \in Literal /\ FreeLits(s, cid) = {val}
         /\ val = 0 <=> FreePositions(s, cid) # {} /\ Cardinality(FreePositions(s, cid)) # 1
<1> DEFINE free == FreePositions(s, cid)
<1>1. ~skip_clause(s, cid)
   BY SoundFacts DEF skip_clause
<1>2. s \in CnfType /\ cid \in DOMAIN s.clauses /\ FreeLits(s, cid) \subseteq Literal
   BY SoundFacts DEF Sound
<1>3. /\ IsFiniteSet(free)
      /\ \A i \in free : s.clauses[cid][i] \in FreeLits(s, cid)
      /\ \A lit \in FreeLits(s, cid) : \E i \in free : s.clauses[cid][i] = lit
   BY <1>2, FreePositionsFacts
<1> DEFINE one == CHOOSE i \in free : TRUE
           lit == s.clauses[cid][one]
<1>4. val = IF free = {} THEN CONFLICT ELSE IF Cardinality(free) = 1 THEN lit ELSE 0
   BY <1>1 DEF propagate_clause
<1>5. ASSUME free # {}
      PROVE  lit \in FreeLits(s, cid) /\ lit \in Literal
   <2>1. one \in free
      BY <1>5
   <2> HIDE DEF one, free
   <2> QED BY <1>2, <1>3, <2>1
<1>6. ASSUME free # {}, Cardinality(free) = 1
      PROVE  FreeLits(s, cid) = {lit}
   <2>1. PICK i : free = {i}
      BY <1>3, <1>6, FS_Singleton
   <2>2. one = i
      BY <2>1
   <2> HIDE DEF one, free
   <2> QED BY <1>3, <2>1, <2>2
<1> HIDE DEF free, lit
<1>7. \A l \in Literal : l # 0 /\ l # TAUTOLOGY /\ l # CONFLICT
   BY LiteralFacts
<1>8. 0 # TAUTOLOGY /\ 0 # CONFLICT /\ TAUTOLOGY # CONFLICT
   BY DEF TAUTOLOGY, CONFLICT
<1>9. CASE free = {}
   <2>1. FreeLits(s, cid) = {}
      BY <1>3, <1>9
   <2> QED BY <1>4, <1>8, <1>9, <2>1 DEF free
<1>10. CASE free # {} /\ Cardinality(free) = 1
   BY <1>4, <1>5, <1>6, <1>7, <1>10 DEF free
<1>11. CASE free # {} /\ Cardinality(free) # 1
   BY <1>4, <1>8, <1>11 DEF free
<1> QED BY <1>9, <1>10, <1>11

\* A clause that keeps its literals, and loses no free one, keeps its value.
LEMMA SameValue ==
  ASSUME NEW s, Sound(s), NEW t, Sound(t),
         NEW cid \in s.active_clauses, cid \in t.active_clauses,
         t.clauses[cid] = s.clauses[cid], FreeLits(t, cid) = FreeLits(s, cid)
  PROVE  propagate_clause(t, cid) = 0 <=> propagate_clause(s, cid) = 0
<1>1. /\ s \in CnfType /\ t \in CnfType
      /\ cid \in DOMAIN s.clauses /\ cid \in DOMAIN t.clauses
   BY SoundFacts DEF Sound
<1>2. FreePositions(t, cid) = FreePositions(s, cid)
   <2>1. \A i \in FreePositions(s, cid) : s.clauses[cid][i] \in FreeLits(s, cid)
      BY <1>1, FreePositionsFacts
   <2>2. \A i \in FreePositions(t, cid) : t.clauses[cid][i] \in FreeLits(t, cid)
      BY <1>1, FreePositionsFacts
   <2> QED BY <2>1, <2>2 DEF FreePositions, FreeLits
<1> QED BY <1>2, PropagateFacts

\* The solutions are the models of the clauses and of the unit literals.
LEMMA SatisfiesModels ==
  ASSUME NEW s, Sound(s),
         NEW clauses, clauses = BcpUnits(s) \cup { FreeLits(s, cid) : cid \in s.active_clauses }
  PROVE  \A a : a \in Models(Variables, clauses) <=> Satisfies(s, a)
<1>1. BcpUnits(s) = { {lit} : lit \in s.unit_literals }
   BY DEF BcpUnits, Sound
<1>2. \A a, lit : HoldsClause(a, {lit}) <=> Holds(a, lit)
   BY DEF HoldsClause
<1>3. ASSUME NEW a
      PROVE  (\A lits \in clauses : HoldsClause(a, lits))
                <=> /\ \A lit \in s.unit_literals : Holds(a, lit)
                    /\ \A cid \in s.active_clauses : HoldsClause(a, FreeLits(s, cid))
   <2>1. clauses = { {lit} : lit \in s.unit_literals }
                     \cup { FreeLits(s, cid) : cid \in s.active_clauses }
      BY <1>1
   <2>2. (\A lits \in { {lit} : lit \in s.unit_literals } : HoldsClause(a, lits))
            <=> \A lit \in s.unit_literals : Holds(a, lit)
      BY <1>2
   <2>3. (\A lits \in { FreeLits(s, cid) : cid \in s.active_clauses } : HoldsClause(a, lits))
            <=> \A cid \in s.active_clauses : HoldsClause(a, FreeLits(s, cid))
      OBVIOUS
   <2> QED BY <2>1, <2>2, <2>3
<1> QED BY <1>3 DEF Models, Satisfies

-----------------------------------------------------------------------------
(* Boolean constraint propagation *)

\* From s to t a variable is classified and nothing else is changed.
SetsType(s, t, var, type) ==
    /\ SameClauses(s, t)
    /\ SameAssignment(s, t)
    /\ t.variable_type = [s.variable_type EXCEPT ![var] = type]

\* Classifying a variable changes its type.
LEMMA SetTypeFacts ==
  ASSUME NEW s \in CnfType, NEW var \in Variables, NEW type \in VariableType,
         NEW t, t = set_variable_type(s, var, type)
  PROVE  t \in CnfType /\ SetsType(s, t, var, type)
<1>1. [s.variable_type EXCEPT ![var] = type] \in [Variables -> VariableType]
   BY DEF CnfType
<1> DEFINE types == [s.variable_type EXCEPT ![var] = type]
<1>2. t = [s EXCEPT !.variable_type = types]
   BY DEF set_variable_type
<1> HIDE DEF types
<1>3. types \in [Variables -> VariableType]
   BY <1>1 DEF types
<1>4. [s EXCEPT !.variable_type = types] \in CnfType
   BY <1>3 DEF CnfType
<1>5. SameClauses(s, t) /\ SameAssignment(s, t) /\ t.variable_type = types
   BY <1>2 DEF CnfType, SameClauses, SameAssignment
<1> QED BY <1>2, <1>4, <1>5 DEF types, SetsType

\* What reads only the clauses and the index.
LEMMA SameClausesFacts ==
  ASSUME NEW s, NEW t, SameClauses(s, t)
  PROVE  /\ IndexExact(s) <=> IndexExact(t)
         /\ \A cid : Lits(t, cid) = Lits(s, cid)
  BY DEF SameClauses, IndexExact, Lits

\* From s to t a literal is set: its clauses are gone, and its complement is
\* gone from the others.
UnitPropagated(s, t, lit) ==
    /\ t.clauses = s.clauses
    /\ t.active_clauses = { c \in s.active_clauses : lit \notin Lits(s, c) }
    /\ t.unit_literals = s.unit_literals \cup {lit}
    /\ \A c \in t.active_clauses : FreeLits(t, c) = FreeLits(s, c) \ {-lit}
    /\ t.variable_type = [s.variable_type EXCEPT ![IABS(lit)] = "ELIM"]
    /\ t.has_conflict = s.has_conflict
    /\ t.data_variables = s.data_variables
    /\ t.tseitin_variables = s.tseitin_variables
    /\ \A a : Satisfies(t, a) <=> Satisfies(s, a)

\* Propagating a unit literal: its clauses are gone, its complement is gone
\* from the others, and the formula has the same solutions.
LEMMA PropagateUnitFacts ==
  ASSUME NEW s, Sound(s), NEW cid \in s.active_clauses,
         NEW lit \in Literal, FreeLits(s, cid) = {lit},
         NEW t, t = PropagateUnit(s, cid, lit, TRUE)
  PROVE  /\ Sound(t)
         /\ UnitPropagated(s, t, lit)
<1> DEFINE typed == set_variable_type(s, IABS(lit), "ELIM")
           assigned == assign_literal(typed, lit, TRUE)
           single == deactivate_clause(assigned, cid)
           rest == single.literal_clauses[lit] \cap single.active_clauses
           order == Ascending(rest)
<1>1. t = deactivate_clauses(single, order)
   BY DEF PropagateUnit
<1> DEFINE var == IABS(lit)
<1>2. /\ s \in CnfType /\ IndexExact(s) /\ s.variable_type \in [Variables -> VariableType]
      /\ s.unit_literals \subseteq Literal
      /\ var \in Variables /\ cid \in ClauseId /\ -lit \in Literal /\ lit # -lit /\ -(-lit) = lit
   BY SoundFacts, LiteralFacts DEF Sound, CnfType
<1>3. s.variable_type[var] # "ELIM" /\ lit \in Lits(s, cid)
   BY DEF Sound, FreeLits
<1>4. lit \notin s.unit_literals /\ -lit \notin s.unit_literals
   BY <1>3, SoundFacts
<1>5. /\ typed \in CnfType /\ SameClauses(s, typed) /\ SameAssignment(s, typed)
      /\ typed.variable_type = [s.variable_type EXCEPT ![var] = "ELIM"]
   BY <1>2, SetTypeFacts DEF VariableType, SetsType
<1> HIDE DEF typed, var
<1>6. lit \notin typed.unit_literals /\ -lit \notin typed.unit_literals
   BY <1>4, <1>5 DEF SameAssignment
<1>22. assigned = assign_literal(typed, lit, TRUE)
   OBVIOUS
<1>23. single = deactivate_clause(assigned, cid)
   OBVIOUS
<1> HIDE DEF assigned, single
<1>7. assigned \in CnfType /\ Propagates(typed, assigned, lit)
   BY <1>5, <1>6, <1>22, AssignFacts
<1>8. SameClauses(s, assigned) /\ IndexExact(assigned)
   BY <1>2, <1>5, <1>7, SameClausesFacts DEF SameClauses, Propagates
<1>9. single \in CnfType /\ IndexExact(single) /\ Retires(assigned, single, {cid})
   BY <1>2, <1>7, <1>8, <1>23, DeactivateClauseFacts
<1>10. /\ rest = { c \in single.active_clauses : lit \in Lits(single, c) }
       /\ order \in Seq(ClauseId) /\ ToSet(order) = rest
   <2>1. rest = { c \in single.active_clauses : lit \in Lits(single, c) }
      BY <1>9 DEF IndexExact
   <2>2. rest \in SUBSET DOMAIN single.clauses
      BY <1>9 DEF IndexExact
   <2> HIDE DEF rest
   <2>3. IsFiniteSet(rest) /\ rest \subseteq ClauseId /\ rest \subseteq Int
      BY <1>9, <2>2, ClausesFinite
   <2>4. Ascending(rest) \in Seq(rest) /\ ToSet(Ascending(rest)) = rest
      BY <2>3, AscendingEnumerates
   <2> QED BY <2>1, <2>3, <2>4
<1> HIDE DEF rest, order
<1>11. t \in CnfType /\ IndexExact(t) /\ Retires(single, t, rest)
   BY <1>1, <1>9, <1>10, DeactivateClausesFacts
<1>12. /\ t.clauses = s.clauses
       /\ t.active_clauses = { c \in s.active_clauses : lit \notin Lits(s, c) }
   <2>1. t.clauses = s.clauses /\ single.clauses = s.clauses
      BY <1>8, <1>9, <1>11 DEF SameClauses, Retires
   <2>2. \A c : Lits(single, c) = Lits(s, c)
      BY <2>1 DEF Lits
   <2> QED BY <1>3, <1>8, <1>9, <1>10, <1>11, <2>1, <2>2 DEF SameClauses, Retires
<1>13. /\ t.unit_literals = s.unit_literals \cup {lit}
       /\ t.bcp_unit_literals = s.bcp_unit_literals \cup {lit}
       /\ t.uquantified_variables = s.uquantified_variables
       /\ t.has_conflict = s.has_conflict
       /\ t.data_variables = s.data_variables
       /\ t.tseitin_variables = s.tseitin_variables
       /\ t.variable_type = [s.variable_type EXCEPT ![var] = "ELIM"]
   BY <1>5, <1>7, <1>9, <1>11 DEF SameAssignment, Retires, Propagates
<1>14. ASSUME NEW c \in t.active_clauses
       PROVE  /\ FreeLits(t, c) = FreeLits(s, c) \ {-lit}
              /\ lit \notin FreeLits(s, c)
              /\ FreeLits(s, c) \subseteq Literal
   <2>1. c \in s.active_clauses /\ Lits(t, c) = Lits(s, c) /\ lit \notin Lits(s, c)
      BY <1>12 DEF Lits
   <2>2. /\ FreeLits(s, c) = { l \in Lits(s, c) : -l \notin s.unit_literals }
         /\ Lits(s, c) \subseteq Literal
      BY <2>1, SoundFacts
   <2>3. FreeLits(t, c) = { l \in Lits(t, c) : -l \notin t.unit_literals }
      <3>1. t.uquantified_variables = {}
         BY <1>13 DEF Sound
      <3> QED BY <3>1, FreeLitsFacts
   <2>4. \A l \in Literal : -l = lit <=> l = -lit
      BY <1>2, LiteralFacts
   <2> QED BY <1>13, <2>1, <2>2, <2>3, <2>4
<1>15. \A l \in Literal : IABS(l) = var <=> l = lit \/ l = -lit
   BY <1>2, SameVariable, LiteralFacts DEF var
<1>16. \A l \in Literal : t.variable_type[IABS(l)] =
          IF l = lit \/ l = -lit THEN "ELIM" ELSE s.variable_type[IABS(l)]
   BY <1>2, <1>13, <1>15, LiteralFacts
<1>17. \A l \in t.unit_literals : -l \notin t.unit_literals /\ t.variable_type[IABS(l)] = "ELIM"
   <2>1. TAKE l \in t.unit_literals
   <2>2. CASE l = lit
      BY <1>2, <1>4, <1>13, <1>16, <2>2
   <2>3. CASE l # lit
      <3>1. l \in s.unit_literals /\ l \in Literal /\ -l \in Literal /\ -(-l) = l
         BY <1>2, <1>13, <2>3, LiteralFacts
      <3>2. -l \notin s.unit_literals /\ -l # lit /\ s.variable_type[IABS(l)] = "ELIM"
         BY <1>4, <3>1 DEF Sound
      <3> QED BY <1>13, <1>16, <3>1, <3>2
   <2> QED BY <2>2, <2>3
<1>18. \A c \in t.active_clauses : \A l \in FreeLits(t, c) : t.variable_type[IABS(l)] # "ELIM"
   <2>1. TAKE c \in t.active_clauses
   <2>2. TAKE l \in FreeLits(t, c)
   <2>3. l \in FreeLits(s, c) /\ l # -lit /\ l # lit /\ l \in Literal /\ c \in s.active_clauses
      BY <1>12, <1>14, ZenonT(60)
   <2> QED BY <1>16, <2>3 DEF Sound
<1>19. t.has_conflict => \E c \in t.active_clauses : FreeLits(t, c) = {}
   <2>1. SUFFICES ASSUME t.has_conflict
                  PROVE  \E c \in t.active_clauses : FreeLits(t, c) = {}
      OBVIOUS
   <2>2. PICK c \in s.active_clauses : FreeLits(s, c) = {}
      BY <1>13, <2>1 DEF Sound
   <2>3. lit \notin Lits(s, c)
      BY <1>3, <2>2, SoundFacts DEF var
   <2> QED BY <1>12, <1>14, <2>2, <2>3
<1>20. Sound(t)
   BY <1>11, <1>13, <1>17, <1>18, <1>19 DEF Sound
<1>21. \A a : Satisfies(t, a) <=> Satisfies(s, a)
   <2>1. TAKE a
   <2>2. ASSUME Satisfies(s, a) PROVE Satisfies(t, a)
      <3>1. Holds(a, lit)
         BY <2>2 DEF Satisfies, HoldsClause
      <3>2. ~Holds(a, -lit)
         BY <3>1, HoldsNegation
      <3>3. ASSUME NEW c \in t.active_clauses PROVE HoldsClause(a, FreeLits(t, c))
         <4>1. PICK l \in FreeLits(s, c) : Holds(a, l)
            BY <1>12, <2>2 DEF Satisfies, HoldsClause
         <4> QED BY <1>14, <3>2, <4>1 DEF HoldsClause
      <3> QED BY <1>13, <2>2, <3>1, <3>3 DEF Satisfies
   <2>3. ASSUME Satisfies(t, a) PROVE Satisfies(s, a)
      <3>1. Holds(a, lit) /\ \A l \in s.unit_literals : Holds(a, l)
         BY <1>13, <2>3 DEF Satisfies
      <3>2. ASSUME NEW c \in s.active_clauses PROVE HoldsClause(a, FreeLits(s, c))
         <4>1. CASE lit \in Lits(s, c)
            <5>1. lit \in FreeLits(s, c)
               BY <1>3, <4>1, SoundFacts DEF var
            <5> QED BY <3>1, <5>1 DEF HoldsClause
         <4>2. CASE lit \notin Lits(s, c)
            <5>1. c \in t.active_clauses
               BY <1>12, <4>2
            <5>2. PICK l \in FreeLits(t, c) : Holds(a, l)
               BY <2>3, <5>1 DEF Satisfies, HoldsClause
            <5> QED BY <1>14, <5>1, <5>2 DEF HoldsClause
         <4> QED BY <4>1, <4>2
      <3> QED BY <2>3, <3>1, <3>2 DEF Satisfies
   <2> QED BY <2>2, <2>3
<1> QED BY <1>12, <1>13, <1>14, <1>20, <1>21 DEF var, UnitPropagated

-----------------------------------------------------------------------------
(* Bounded variable elimination *)

\* The active clauses that contain a literal, which the index holds.
Containing(s, lit) == { cid \in s.active_clauses : lit \in Lits(s, cid) }

\* clauses are the resolvents on var of the clauses with lit and with -lit.
Resolvents(s, var, lit, clauses) ==
    /\ \A i \in DOMAIN clauses : \E p \in Containing(s, lit), n \in Containing(s, -lit) :
           Resolves(s, var, p, n) /\ ToSet(clauses[i]) = Resolvent(s, var, p, n)
    /\ \A p \in Containing(s, lit), n \in Containing(s, -lit) : Resolves(s, var, p, n) =>
           \E i \in DOMAIN clauses : ToSet(clauses[i]) = Resolvent(s, var, p, n)

\* The clauses new of t are those resolvents.
ResolventsIn(s, t, var, lit, new) ==
    /\ \A cid \in new : \E p \in Containing(s, lit), n \in Containing(s, -lit) :
           Resolves(s, var, p, n) /\ Lits(t, cid) = Resolvent(s, var, p, n)
    /\ \A p \in Containing(s, lit), n \in Containing(s, -lit) : Resolves(s, var, p, n) =>
           \E cid \in new : Lits(t, cid) = Resolvent(s, var, p, n)

\* From s to t the clauses of a variable have been replaced by resolvents, and
\* the variable is set if it had no clause in one phase.
Resolved(s, t, var, lit, new) ==
    /\ t \in CnfType /\ IndexExact(t)
    /\ OldClausesKept(s, t)
    /\ new \cap DOMAIN s.clauses = {}
    /\ t.active_clauses =
           (s.active_clauses \ (Containing(s, lit) \cup Containing(s, -lit))) \cup new
    /\ ResolventsIn(s, t, var, lit, new)
    /\ \A v \in Variables :
           t.variable_type[v] = "ELIM" <=> v = var \/ s.variable_type[v] = "ELIM"
    /\ \/ t.unit_literals = s.unit_literals
       \/ Containing(s, lit) = {} /\ t.unit_literals = s.unit_literals \cup {-lit}
    /\ t.bcp_unit_literals = t.unit_literals
    /\ t.uquantified_variables = s.uquantified_variables
    /\ t.has_conflict = s.has_conflict
    /\ t.data_variables = s.data_variables
    /\ t.tseitin_variables = s.tseitin_variables

\* The index holds the clauses of a literal, which exist.
LEMMA ContainingFacts ==
  ASSUME NEW s \in CnfType, IndexExact(s), NEW lit \in Literal
  PROVE  /\ s.literal_clauses[lit] = Containing(s, lit)
         /\ Containing(s, lit) \in SUBSET DOMAIN s.clauses
         /\ Containing(s, lit) \subseteq s.active_clauses
  BY DEF IndexExact, Containing

\* The clauses an iteration of bve adds are the resolvents.
LEMMA ResolveAllFacts ==
  ASSUME NEW s \in CnfType, IndexExact(s),
         NEW var, NEW lit \in Literal, -lit \in Literal,
         NEW t, t = ResolveAll(s, var, lit)
  PROVE  \E clauses \in Seq(Seq(Literal)) :
             t = AddClauses(s, clauses) /\ Resolvents(s, var, lit, clauses)
<1> DEFINE pos == Containing(s, lit)
           neg == Containing(s, -lit)
           S == { p \in pos \X neg : Resolves(s, var, p[1], p[2]) }
           pairs == Lexicographic(S)
           clause(p) == SortByVariable(Resolvent(s, var, p[1], p[2]))
           clauses == [i \in DOMAIN pairs |-> clause(pairs[i])]
<1>1. /\ s.literal_clauses[lit] = pos /\ pos \in SUBSET DOMAIN s.clauses
      /\ s.literal_clauses[-lit] = neg /\ neg \in SUBSET DOMAIN s.clauses
   BY ContainingFacts
<1>2. t = AddClauses(s, clauses)
   BY <1>1 DEF ResolveAll
<1> HIDE DEF pos, neg
<1>3. pairs \in Seq(S) /\ ToSet(pairs) = S
   <2>2. /\ IsFiniteSet(pos) /\ IsFiniteSet(neg)
         /\ pos \subseteq Int /\ neg \subseteq Int
      BY <1>1, ClausesFinite
   <2>3. IsFiniteSet(pos \X neg)
      BY <2>2, FS_Product
   <2>4. IsFiniteSet(S)
      BY <2>3, FS_Subset
   <2>5. Int \X Int \subseteq [1 .. 2 -> Int]
      OBVIOUS
   <2>6. S \subseteq [1 .. 2 -> Int]
      BY <2>2, <2>5
   <2> HIDE DEF S
   <2> QED BY <2>4, <2>6, LexicographicEnumerates
<1>4. ASSUME NEW p \in S
      PROVE  clause(p) \in Seq(Literal) /\ ToSet(clause(p)) = Resolvent(s, var, p[1], p[2])
   <2> DEFINE r == Resolvent(s, var, p[1], p[2])
   <2>1. /\ p[1] \in DOMAIN s.clauses /\ p[2] \in DOMAIN s.clauses
         /\ Resolves(s, var, p[1], p[2])
      BY <1>1
   <2>2. FreeLits(s, p[1]) \subseteq Literal /\ FreeLits(s, p[2]) \subseteq Literal
      BY <2>1, ClauseFacts
   <2>3. r \in SUBSET Literal
      BY <2>2 DEF Resolvent
   <2>4. \A l \in r : -l \notin r
      BY <2>1 DEF Resolves
   <2> HIDE DEF r
   <2>5. \A x, y \in r : IABS(x) = IABS(y) => x = y
      <3>1. TAKE x, y \in r
      <3>2. x \in Literal /\ y \in Literal /\ -y \notin r
         BY <2>3, <2>4
      <3> QED BY <3>2, SameVariable
   <2>6. IsFiniteSet(r) /\ r \subseteq Int
      BY <2>3, LiteralsFinite, FS_Subset, LiteralFacts
   <2>7. SortByVariable(r) \in Seq(r) /\ ToSet(SortByVariable(r)) = r
      BY <2>5, <2>6, SortByVariableEnumerates
   <2> QED BY <2>3, <2>7 DEF r
<1> HIDE DEF S, clause, pairs
<1>5. /\ Len(pairs) \in Nat /\ DOMAIN pairs = 1 .. Len(pairs)
      /\ \A i \in DOMAIN pairs : pairs[i] \in S
      /\ \A p \in S : \E i \in DOMAIN pairs : pairs[i] = p
   <2>1. /\ Len(pairs) \in Nat /\ DOMAIN pairs = 1 .. Len(pairs)
         /\ \A i \in DOMAIN pairs : pairs[i] \in S
      BY <1>3, LenProperties, ElementOfSeq
   <2>2. \A p \in S : \E i \in DOMAIN pairs : pairs[i] = p
      BY <1>3, <2>1, ToSetSeq
   <2> QED BY <2>1, <2>2
<1>6. clauses \in Seq(Seq(Literal))
   <2>1. clauses \in [1 .. Len(pairs) -> Seq(Literal)]
      BY <1>4, <1>5
   <2> HIDE DEF clauses
   <2> QED BY <1>5, <2>1, FunctionIsSeq
<1>7. \A i \in DOMAIN clauses : \E p \in pos, n \in neg :
         Resolves(s, var, p, n) /\ ToSet(clauses[i]) = Resolvent(s, var, p, n)
   <2>1. TAKE i \in DOMAIN clauses
   <2>2. pairs[i] \in S /\ clauses[i] = clause(pairs[i])
      BY <1>5
   <2>3. pairs[i][1] \in pos /\ pairs[i][2] \in neg
         /\ Resolves(s, var, pairs[i][1], pairs[i][2])
      BY <2>2 DEF S
   <2> QED BY <1>4, <2>2, <2>3
<1>8. \A p \in pos, n \in neg : Resolves(s, var, p, n) =>
         \E i \in DOMAIN clauses : ToSet(clauses[i]) = Resolvent(s, var, p, n)
   <2>1. SUFFICES ASSUME NEW p \in pos, NEW n \in neg, Resolves(s, var, p, n)
                  PROVE  \E i \in DOMAIN clauses : ToSet(clauses[i]) = Resolvent(s, var, p, n)
      OBVIOUS
   <2>2. << p, n >> \in S
      BY <2>1 DEF S
   <2>3. PICK i \in DOMAIN pairs : pairs[i] = << p, n >>
      BY <1>5, <2>2
   <2>4. ToSet(clauses[i]) = Resolvent(s, var, << p, n >>[1], << p, n >>[2])
      BY <1>4, <2>2, <2>3
   <2> QED BY <2>3, <2>4
<1> HIDE DEF clauses
<1> QED BY <1>2, <1>6, <1>7, <1>8 DEF Resolvents, pos, neg

\* An iteration of bve that eliminates a variable resolves its clauses.
LEMMA EliminateFacts ==
  ASSUME NEW s, Sound(s), NEW var \in Variables, s.variable_type[var] # "ELIM",
         NEW lit \in {var, -var}, NEW degree,
         degree = 0 => s.literal_clauses[lit] = {},
         NEW t, t = Eliminate(s, var, lit, degree, TRUE)
  PROVE  \E new : Resolved(s, t, var, lit, new)
<1> DEFINE typed == set_variable_type(s, var, "ELIM")
           resolved == ResolveAll(typed, var, lit)
           order == Ascending(s.literal_clauses[lit]) \o Ascending(s.literal_clauses[-lit])
           retired == deactivate_clauses(resolved, order)
           pos == Containing(s, lit)
           neg == Containing(s, -lit)
           pure == degree = 0 /\ -lit \notin s.bcp_unit_literals
<1>1. t = IF pure THEN assign_literal(retired, -lit, TRUE) ELSE retired
   BY DEF Eliminate
<1>2. typed = set_variable_type(s, var, "ELIM")
   OBVIOUS
<1>3. resolved = ResolveAll(typed, var, lit)
   OBVIOUS
<1>4. retired = deactivate_clauses(resolved, order)
   OBVIOUS
<1>5. order = Ascending(s.literal_clauses[lit]) \o Ascending(s.literal_clauses[-lit])
   OBVIOUS
<1> HIDE DEF typed, resolved, retired, order
<1>6. /\ s \in CnfType /\ IndexExact(s) /\ s.uquantified_variables = {}
      /\ s.unit_literals = s.bcp_unit_literals
      /\ s.variable_type \in [Variables -> VariableType]
   BY DEF Sound, CnfType
<1>7. lit \in Literal /\ -lit \in Literal /\ -(-lit) = lit /\ IABS(lit) = var
   BY VariableFacts
<1>8. lit \notin s.unit_literals /\ -lit \notin s.unit_literals
   BY <1>7, SoundFacts
<1>9. /\ s.literal_clauses[lit] = pos /\ pos \in SUBSET DOMAIN s.clauses
      /\ s.literal_clauses[-lit] = neg /\ neg \in SUBSET DOMAIN s.clauses
      /\ pure => pos = {}
   BY <1>6, <1>7, ContainingFacts
<1>10. typed \in CnfType /\ SetsType(s, typed, var, "ELIM")
   <2>1. "ELIM" \in VariableType
      BY DEF VariableType
   <2> QED BY <1>2, <1>6, <2>1, SetTypeFacts
<1>11. /\ typed.clauses = s.clauses /\ typed.active_clauses = s.active_clauses
       /\ typed.unit_literals = s.unit_literals
       /\ typed.uquantified_variables = s.uquantified_variables
       /\ IndexExact(typed)
   BY <1>6, <1>10, SameClausesFacts DEF SetsType, SameClauses, SameAssignment
<1>12. \A cid : Lits(typed, cid) = Lits(s, cid) /\ FreeLits(typed, cid) = FreeLits(s, cid)
   BY <1>11, FreeLitsDepend
<1>13. Containing(typed, lit) = pos /\ Containing(typed, -lit) = neg
   BY <1>11, <1>12 DEF Containing
<1>14. \A p, n : /\ Resolvent(typed, var, p, n) = Resolvent(s, var, p, n)
                 /\ Resolves(typed, var, p, n) <=> Resolves(s, var, p, n)
   BY <1>12 DEF Resolvent, Resolves
<1> HIDE DEF pos, neg, pure
<1>15. PICK clauses \in Seq(Seq(Literal)) :
          resolved = AddClauses(typed, clauses) /\ Resolvents(typed, var, lit, clauses)
   BY <1>3, <1>7, <1>10, <1>11, ResolveAllFacts
<1> DEFINE new == AddedIds(typed, clauses)
<1>16. /\ resolved \in CnfType /\ IndexExact(resolved) /\ Adds(typed, resolved, clauses)
       /\ new \subseteq DOMAIN resolved.clauses /\ new \cap DOMAIN typed.clauses = {}
   BY <1>10, <1>11, <1>15, AddClausesFacts
<1>17. order \in Seq(ClauseId) /\ ToSet(order) = pos \cup neg
   <2> DEFINE p == Ascending(pos)
              n == Ascending(neg)
   <2>1. p \in Seq(ClauseId) /\ ToSet(p) = pos /\ n \in Seq(ClauseId) /\ ToSet(n) = neg
      BY <1>6, <1>9, ClausesInOrder
   <2>2. order = p \o n
      BY <1>5, <1>9
   <2> HIDE DEF p, n
   <2>3. p \o n \in Seq(ClauseId) /\ ToSet(p \o n) = ToSet(p) \cup ToSet(n)
      BY <2>1, ToSetConcat
   <2> QED BY <2>1, <2>2, <2>3
<1>18. retired \in CnfType /\ IndexExact(retired) /\ Retires(resolved, retired, pos \cup neg)
   BY <1>4, <1>16, <1>17, DeactivateClausesFacts
<1>19. /\ retired.unit_literals = s.unit_literals
       /\ retired.bcp_unit_literals = s.bcp_unit_literals
       /\ retired.uquantified_variables = s.uquantified_variables
       /\ retired.has_conflict = s.has_conflict
       /\ retired.data_variables = s.data_variables
       /\ retired.tseitin_variables = s.tseitin_variables
   BY <1>10, <1>16, <1>18 DEF SameAssignment, SetsType, Retires, Adds
<1>20. /\ OldClausesKept(s, retired)
       /\ new \cap DOMAIN s.clauses = {}
       /\ retired.active_clauses = (s.active_clauses \ (pos \cup neg)) \cup new
   <2>1. /\ retired.clauses = resolved.clauses
         /\ retired.active_clauses = resolved.active_clauses \ (pos \cup neg)
      BY <1>18 DEF Retires
   <2>2. resolved.active_clauses = s.active_clauses \cup new
      BY <1>11, <1>16 DEF Adds
   <2>3. OldClausesKept(s, retired)
      BY <1>11, <1>16, <2>1 DEF Adds, OldClausesKept
   <2> HIDE DEF new
   <2> QED BY <1>9, <1>11, <1>16, <2>1, <2>2, <2>3
<1>21. /\ \A cid \in new : \E i \in DOMAIN clauses : Lits(retired, cid) = ToSet(clauses[i])
       /\ \A i \in DOMAIN clauses : \E cid \in new : Lits(retired, cid) = ToSet(clauses[i])
   <2>1. \A i \in DOMAIN clauses : resolved.clauses[Len(typed.clauses) + i] = clauses[i]
      BY <1>16 DEF Adds
   <2>2. retired.clauses = resolved.clauses
      BY <1>18 DEF Retires
   <2>3. \A i \in DOMAIN clauses : Lits(retired, Len(typed.clauses) + i) = ToSet(clauses[i])
      BY <2>1, <2>2 DEF Lits
   <2> QED BY <2>3 DEF AddedIds
<1> HIDE DEF new
<1>22. ResolventsIn(s, retired, var, lit, new)
   BY <1>13, <1>14, <1>15, <1>21 DEF Resolvents, ResolventsIn, pos, neg
<1>23. \A v \in Variables :
          retired.variable_type[v] = "ELIM" <=> v = var \/ s.variable_type[v] = "ELIM"
   <2>1. \A v \in Variables : typed.variable_type[v] =
             IF v = var THEN "ELIM" ELSE s.variable_type[v]
      BY <1>6, <1>10 DEF SetsType
   <2>2. \A v \in Variables : retired.variable_type[v] = "ELIM" <=> typed.variable_type[v] = "ELIM"
      BY <1>16, <1>18 DEF Adds, Retires
   <2> QED BY <2>1, <2>2
<1>24. CASE pure
   <2>1. t = assign_literal(retired, -lit, TRUE)
      BY <1>1, <1>24 DEF pure
   <2>2. -lit \notin retired.unit_literals /\ -(-lit) \notin retired.unit_literals
      BY <1>7, <1>8, <1>19
   <2>3. t \in CnfType /\ Propagates(retired, t, -lit)
      BY <1>7, <1>18, <2>1, <2>2, AssignFacts
   <2>4. IndexExact(t) /\ \A cid : Lits(t, cid) = Lits(retired, cid)
      BY <1>18, <2>3, SameClausesFacts DEF Propagates
   <2>5. /\ t.clauses = retired.clauses /\ t.active_clauses = retired.active_clauses
         /\ t.variable_type = retired.variable_type
         /\ t.unit_literals = s.unit_literals \cup {-lit}
         /\ t.bcp_unit_literals = t.unit_literals
         /\ t.uquantified_variables = s.uquantified_variables
         /\ t.has_conflict = s.has_conflict
         /\ t.data_variables = s.data_variables
         /\ t.tseitin_variables = s.tseitin_variables
      BY <1>6, <1>19, <2>3 DEF Propagates, SameClauses
   <2>6. OldClausesKept(s, t) /\ ResolventsIn(s, t, var, lit, new)
      BY <1>20, <1>22, <2>4, <2>5, ZenonT(60) DEF OldClausesKept, ResolventsIn
   <2>7. pos = {}
      BY <1>9, <1>24
   <2>8. Resolved(s, t, var, lit, new)
      BY <1>20, <1>23, <2>3, <2>4, <2>5, <2>6, <2>7 DEF Resolved, pos, neg
   <2> QED BY <2>8
<1>25. CASE ~pure
   <2>1. t = retired
      BY <1>1, <1>25 DEF pure
   <2>2. Resolved(s, t, var, lit, new)
      BY <1>6, <1>18, <1>19, <1>20, <1>22, <1>23, <2>1 DEF Resolved, pos, neg
   <2> QED BY <2>2
<1> QED BY <1>24, <1>25

\* The literals of the clauses after the elimination: the other clauses have
\* theirs, without the variable, and the resolvents are free.
LEMMA ResolvedLiterals ==
  ASSUME NEW s, Sound(s), NEW var \in Variables, s.variable_type[var] # "ELIM",
         NEW lit \in {var, -var}, NEW t, NEW new, Resolved(s, t, var, lit, new)
  PROVE  /\ \A cid \in t.active_clauses \ new :
                /\ cid \in s.active_clauses
                /\ lit \notin Lits(s, cid) /\ -lit \notin Lits(s, cid)
                /\ FreeLits(t, cid) = FreeLits(s, cid)
         /\ \A cid \in new : \E p \in Containing(s, lit), n \in Containing(s, -lit) :
                Resolves(s, var, p, n) /\ FreeLits(t, cid) = Resolvent(s, var, p, n)
         /\ \A p \in Containing(s, lit), n \in Containing(s, -lit) : Resolves(s, var, p, n) =>
                \E cid \in new : FreeLits(t, cid) = Resolvent(s, var, p, n)
<1>1. /\ lit \in Literal /\ -lit \in Literal /\ -(-lit) = lit
      /\ IABS(lit) = var /\ IABS(-lit) = var
   BY VariableFacts
<1>2. /\ t.unit_literals \subseteq s.unit_literals \cup {-lit}
      /\ s.unit_literals \subseteq t.unit_literals
   BY DEF Resolved
<1>3. \A cid : FreeLits(t, cid) = { l \in Lits(t, cid) : -l \notin t.unit_literals }
   <2>1. t.uquantified_variables = {}
      BY DEF Resolved, Sound
   <2> QED BY <2>1, FreeLitsFacts
<1>4. ASSUME NEW cid \in t.active_clauses \ new
      PROVE  /\ cid \in s.active_clauses
             /\ lit \notin Lits(s, cid) /\ -lit \notin Lits(s, cid)
             /\ FreeLits(t, cid) = FreeLits(s, cid)
   <2>1. /\ cid \in s.active_clauses
         /\ lit \notin Lits(s, cid) /\ -lit \notin Lits(s, cid)
      BY DEF Resolved, Containing
   <2>2. /\ cid \in DOMAIN s.clauses /\ Lits(s, cid) \subseteq Literal
         /\ FreeLits(s, cid) = { l \in Lits(s, cid) : -l \notin s.unit_literals }
      BY <2>1, SoundFacts
   <2>3. Lits(t, cid) = Lits(s, cid)
      BY <2>2 DEF Resolved, OldClausesKept, Lits
   <2>4. \A l \in Lits(s, cid) : -l # -lit
      BY <1>1, <2>1, <2>2, LiteralFacts
   <2> QED BY <1>2, <1>3, <2>1, <2>2, <2>3, <2>4
<1>5. ASSUME NEW p \in Containing(s, lit), NEW n \in Containing(s, -lit), NEW cid,
             Lits(t, cid) = Resolvent(s, var, p, n)
      PROVE  FreeLits(t, cid) = Resolvent(s, var, p, n)
   <2>1. p \in s.active_clauses /\ n \in s.active_clauses
      BY DEF Containing
   <2>2. ASSUME NEW l \in Resolvent(s, var, p, n)
         PROVE  -l \notin t.unit_literals
      <3>1. l \in Literal /\ -l \notin s.unit_literals /\ IABS(l) # var
         BY <2>1, SoundFacts DEF Resolvent
      <3>2. -l # -lit
         BY <1>1, <3>1, LiteralFacts
      <3> QED BY <1>2, <3>1, <3>2
   <2> QED BY <1>3, <1>5, <2>2
<1>6. /\ \A cid \in new : \E p \in Containing(s, lit), n \in Containing(s, -lit) :
             Resolves(s, var, p, n) /\ Lits(t, cid) = Resolvent(s, var, p, n)
      /\ \A p \in Containing(s, lit), n \in Containing(s, -lit) : Resolves(s, var, p, n) =>
             \E cid \in new : Lits(t, cid) = Resolvent(s, var, p, n)
   BY DEF Resolved, ResolventsIn
<1> QED BY <1>4, <1>5, <1>6

\* After the elimination the object is sound, and the resolvents hold no
\* literal and its complement.
LEMMA ResolvedSound ==
  ASSUME NEW s, Sound(s), NEW var \in Variables, s.variable_type[var] # "ELIM",
         NEW lit \in {var, -var}, NEW t, NEW new, Resolved(s, t, var, lit, new)
  PROVE  /\ Sound(t)
         /\ \A cid \in t.active_clauses \ s.active_clauses :
                \A l \in Lits(t, cid) : -l \notin Lits(t, cid)
<1>1. lit \in Literal /\ -lit \in Literal /\ -(-lit) = lit /\ lit # -lit
      /\ IABS(lit) = var /\ IABS(-lit) = var
   BY VariableFacts
<1>2. lit \notin s.unit_literals /\ -lit \notin s.unit_literals
   BY <1>1, SoundFacts
<1>3. /\ \A cid \in t.active_clauses \ new :
             cid \in s.active_clauses /\ FreeLits(t, cid) = FreeLits(s, cid)
                /\ lit \notin Lits(s, cid) /\ -lit \notin Lits(s, cid)
      /\ \A cid \in new : \E p \in Containing(s, lit), n \in Containing(s, -lit) :
             FreeLits(t, cid) = Resolvent(s, var, p, n)
   BY ResolvedLiterals
<1>4. \A v \in Variables : t.variable_type[v] = "ELIM" <=> v = var \/ s.variable_type[v] = "ELIM"
   BY DEF Resolved
<1>5. ASSUME NEW l \in t.unit_literals
      PROVE  -l \notin t.unit_literals /\ t.variable_type[IABS(l)] = "ELIM"
   <2>1. t.unit_literals \subseteq s.unit_literals \cup {-lit}
      BY DEF Resolved
   <2>2. s.unit_literals \subseteq Literal
      BY DEF Sound, CnfType
   <2>3. CASE l = -lit
      BY <1>1, <1>2, <1>4, <2>1, <2>3
   <2>4. CASE l # -lit
      <3>1. l \in s.unit_literals /\ l \in Literal /\ IABS(l) \in Variables /\ -(-l) = l
         BY <2>1, <2>2, <2>4, LiteralFacts
      <3>2. -l \notin s.unit_literals /\ s.variable_type[IABS(l)] = "ELIM"
         BY <3>1 DEF Sound
      <3>3. -l # -lit
         BY <1>1, <1>2, <3>1
      <3> QED BY <1>4, <2>1, <3>1, <3>2, <3>3
   <2> QED BY <2>3, <2>4
<1>6. ASSUME NEW cid \in t.active_clauses, NEW l \in FreeLits(t, cid)
      PROVE  t.variable_type[IABS(l)] # "ELIM"
   <2>1. CASE cid \notin new
      <3>1. /\ cid \in s.active_clauses /\ l \in FreeLits(s, cid)
            /\ l \in Literal /\ l # lit /\ l # -lit
         BY <1>3, <2>1, SoundFacts DEF FreeLits
      <3>2. s.variable_type[IABS(l)] # "ELIM" /\ IABS(l) \in Variables
         BY <3>1, LiteralFacts DEF Sound
      <3>3. IABS(l) # var
         BY <1>1, <3>1, SameVariable
      <3> QED BY <1>4, <3>2, <3>3
   <2>2. CASE cid \in new
      <3>1. PICK p \in Containing(s, lit), n \in Containing(s, -lit) :
                FreeLits(t, cid) = Resolvent(s, var, p, n)
         BY <1>3, <2>2
      <3>2. PICK c \in s.active_clauses : l \in FreeLits(s, c) /\ IABS(l) # var
         BY <3>1 DEF Resolvent, Containing
      <3>3. s.variable_type[IABS(l)] # "ELIM" /\ IABS(l) \in Variables
         BY <3>2, SoundFacts, LiteralFacts DEF Sound
      <3> QED BY <1>4, <3>2, <3>3
   <2> QED BY <2>1, <2>2
<1>7. ASSUME t.has_conflict
      PROVE  \E cid \in t.active_clauses : FreeLits(t, cid) = {}
   <2>1. PICK cid \in s.active_clauses : FreeLits(s, cid) = {}
      BY <1>7 DEF Sound, Resolved
   <2>2. lit \notin Lits(s, cid) /\ -lit \notin Lits(s, cid) /\ cid \in DOMAIN s.clauses
      BY <1>1, <2>1, SoundFacts
   <2>3. cid \in t.active_clauses \ new
      BY <2>2 DEF Resolved, Containing
   <2> QED BY <1>3, <2>1, <2>3
<1>8. Sound(t)
   BY <1>5, <1>6, <1>7 DEF Sound, Resolved
<1>9. ASSUME NEW cid \in t.active_clauses \ s.active_clauses
      PROVE  \A l \in Lits(t, cid) : -l \notin Lits(t, cid)
   <2>1. cid \in new
      BY <1>3
   <2>2. PICK p \in Containing(s, lit), n \in Containing(s, -lit) :
             Resolves(s, var, p, n) /\ Lits(t, cid) = Resolvent(s, var, p, n)
      BY <2>1 DEF Resolved, ResolventsIn
   <2> QED BY <2>2 DEF Resolves
<1> QED BY <1>8, <1>9

\* Resolution keeps the solutions, if no clause holds both phases of the
\* variable: a solution of the old clauses satisfies the resolvents, and a
\* solution of the new ones can be completed for the variable.
LEMMA ResolvedKeeps ==
  ASSUME NEW s, Sound(s), NEW var \in Variables, s.variable_type[var] # "ELIM",
         NEW lit \in {var, -var}, NEW t, NEW new, Resolved(s, t, var, lit, new),
         \A cid \in s.active_clauses : ~(lit \in Lits(s, cid) /\ -lit \in Lits(s, cid)),
         NEW D, var \notin D
  PROVE  Keeps(s, t, D)
<1>1. lit \in Literal /\ -lit \in Literal /\ -(-lit) = lit /\ lit # -lit
      /\ IABS(lit) = var /\ IABS(-lit) = var
   BY VariableFacts
<1>2. \A l \in Literal : IABS(l) = var <=> l = lit \/ l = -lit
   BY <1>1, SameVariable
<1>3. lit \notin s.unit_literals /\ -lit \notin s.unit_literals
      /\ s.unit_literals \subseteq Literal
   BY <1>1, SoundFacts DEF Sound, CnfType
<1>4. \A cid \in s.active_clauses :
         /\ FreeLits(s, cid) \subseteq Literal
         /\ lit \in FreeLits(s, cid) <=> lit \in Lits(s, cid)
         /\ -lit \in FreeLits(s, cid) <=> -lit \in Lits(s, cid)
   BY <1>1, SoundFacts DEF FreeLits
<1>5. /\ \A cid \in t.active_clauses \ new :
             cid \in s.active_clauses /\ FreeLits(t, cid) = FreeLits(s, cid)
                /\ lit \notin Lits(s, cid) /\ -lit \notin Lits(s, cid)
      /\ \A cid \in new : \E p \in Containing(s, lit), n \in Containing(s, -lit) :
             FreeLits(t, cid) = Resolvent(s, var, p, n)
      /\ \A p \in Containing(s, lit), n \in Containing(s, -lit) : Resolves(s, var, p, n) =>
             \E cid \in new : FreeLits(t, cid) = Resolvent(s, var, p, n)
   BY ResolvedLiterals
<1>6. \A v \in Variables : t.variable_type[v] = "ELIM" <=> v = var \/ s.variable_type[v] = "ELIM"
   BY DEF Resolved
<1>7. \A a \in SUBSET Variables, u \in {lit, -lit} :
         \E b : SetsLiteral(a, b, u, D)
   BY <1>1, SetLiteral
<1>8. ASSUME NEW a, Satisfies(s, a)
      PROVE  \E b : Satisfies(t, b) /\ a \cap D = b \cap D
   <2>1. a \in SUBSET Variables /\ \A l \in s.unit_literals : Holds(a, l)
      BY <1>8 DEF Satisfies
   <2>2. ASSUME NEW cid \in t.active_clauses
         PROVE  \E l \in FreeLits(t, cid) : l \in Literal /\ l # lit /\ l # -lit /\ Holds(a, l)
      <3>1. CASE cid \notin new
         <4>1. /\ cid \in s.active_clauses /\ FreeLits(t, cid) = FreeLits(s, cid)
               /\ lit \notin FreeLits(s, cid) /\ -lit \notin FreeLits(s, cid)
            BY <1>4, <1>5, <3>1
         <4>2. PICK l \in FreeLits(s, cid) : Holds(a, l)
            BY <1>8, <4>1 DEF Satisfies, HoldsClause
         <4> QED BY <1>4, <4>1, <4>2
      <3>2. CASE cid \in new
         <4>1. PICK p \in Containing(s, lit), n \in Containing(s, -lit) :
                   FreeLits(t, cid) = Resolvent(s, var, p, n)
            BY <1>5, <3>2
         <4>2. /\ p \in s.active_clauses /\ -lit \notin FreeLits(s, p)
               /\ n \in s.active_clauses /\ lit \notin FreeLits(s, n)
            BY <1>4 DEF Containing
         <4>3. PICK x \in FreeLits(s, p) : Holds(a, x)
            BY <1>8, <4>2 DEF Satisfies, HoldsClause
         <4>4. PICK y \in FreeLits(s, n) : Holds(a, y)
            BY <1>8, <4>2 DEF Satisfies, HoldsClause
         <4>5. x \in Literal /\ y \in Literal /\ x # -lit /\ y # lit
            BY <1>4, <4>2
         <4>6. ~(x = lit /\ y = -lit)
            BY <1>1, <4>3, <4>4, HoldsNegation
         <4>7. CASE x # lit
            <5>1. IABS(x) # var
               BY <1>2, <4>5, <4>7
            <5> QED BY <4>1, <4>3, <4>5, <4>7, <5>1 DEF Resolvent
         <4>8. CASE y # -lit
            <5>1. IABS(y) # var
               BY <1>2, <4>5, <4>8
            <5> QED BY <4>1, <4>4, <4>5, <4>8, <5>1 DEF Resolvent
         <4> QED BY <4>6, <4>7, <4>8
      <3> QED BY <3>1, <3>2
   <2>3. CASE t.unit_literals = s.unit_literals
      <3>1. Satisfies(t, a)
         BY <2>1, <2>2, <2>3 DEF Satisfies, HoldsClause
      <3> QED BY <3>1
   <2>4. CASE t.unit_literals = s.unit_literals \cup {-lit}
      <3>5. PICK b : SetsLiteral(a, b, -lit, D)
         BY <1>7, <2>1
      <3>1. /\ b \in SUBSET Variables /\ Holds(b, -lit) /\ b \cap D = a \cap D
            /\ \A l \in Literal : l # lit /\ l # -lit => (Holds(b, l) <=> Holds(a, l))
         BY <1>1, <3>5 DEF SetsLiteral
      <3>2. \A l \in t.unit_literals : Holds(b, l)
         BY <1>3, <2>1, <2>4, <3>1
      <3>3. \A cid \in t.active_clauses : HoldsClause(b, FreeLits(t, cid))
         BY <2>2, <3>1 DEF HoldsClause
      <3>4. Satisfies(t, b)
         BY <3>1, <3>2, <3>3 DEF Satisfies
      <3> QED BY <3>1, <3>4
   <2> QED BY <2>3, <2>4 DEF Resolved
<1>9. ASSUME NEW b, Satisfies(t, b)
      PROVE  \E a : /\ Satisfies(s, a)
                    /\ a \cap D = b \cap D
                    /\ \A v \in Variables : t.variable_type[v] # "ELIM" => (v \in a <=> v \in b)
   <2>1. b \in SUBSET Variables /\ \A l \in s.unit_literals : Holds(b, l)
      BY <1>9 DEF Satisfies, Resolved
   <2> DEFINE without(cid) == \E l \in FreeLits(s, cid) : l # lit /\ l # -lit /\ Holds(b, l)
   <2>2. ASSUME NEW u \in {lit, -lit},
                \A cid \in s.active_clauses : u \notin FreeLits(s, cid) => without(cid)
         PROVE  \E a : /\ Satisfies(s, a)
                       /\ a \cap D = b \cap D
                       /\ \A v \in Variables : t.variable_type[v] # "ELIM" => (v \in a <=> v \in b)
      <3> HIDE DEF without
      <3>5. PICK a : SetsLiteral(b, a, u, D)
         BY <1>7, <2>1
      <3>1. /\ a \in SUBSET Variables /\ Holds(a, u) /\ a \cap D = b \cap D
            /\ \A l \in Literal : l # lit /\ l # -lit => (Holds(a, l) <=> Holds(b, l))
            /\ \A v \in Variables : v # var => (v \in a <=> v \in b)
         BY <1>1, <3>5 DEF SetsLiteral
      <3>2. \A l \in s.unit_literals : Holds(a, l)
         BY <1>3, <2>1, <3>1
      <3>3. ASSUME NEW cid \in s.active_clauses
            PROVE  HoldsClause(a, FreeLits(s, cid))
         <4>1. CASE u \in FreeLits(s, cid)
            BY <3>1, <4>1 DEF HoldsClause
         <4>2. CASE u \notin FreeLits(s, cid)
            <5>1. PICK l \in FreeLits(s, cid) : l # lit /\ l # -lit /\ Holds(b, l)
               BY <2>2, <4>2 DEF without
            <5> QED BY <1>4, <3>1, <5>1 DEF HoldsClause
         <4> QED BY <4>1, <4>2
      <3>4. Satisfies(s, a)
         BY <3>1, <3>2, <3>3 DEF Satisfies
      <3> QED BY <1>6, <3>1, <3>4
   <2>3. ASSUME NEW cid \in s.active_clauses, lit \notin FreeLits(s, cid), -lit \notin FreeLits(s, cid)
         PROVE  without(cid)
      <3>1. cid \in t.active_clauses \ new
         <4>1. cid \in DOMAIN s.clauses
            BY SoundFacts
         <4> QED BY <1>4, <2>3, <4>1 DEF Resolved, Containing
      <3>2. PICK l \in FreeLits(t, cid) : Holds(b, l)
         BY <1>9, <3>1 DEF Satisfies, HoldsClause
      <3> QED BY <1>5, <2>3, <3>1, <3>2
   <2>4. CASE \A p \in Containing(s, lit) : without(p)
      <3>1. ASSUME NEW cid \in s.active_clauses, -lit \notin FreeLits(s, cid)
            PROVE  without(cid)
         <4>1. lit \in FreeLits(s, cid) => cid \in Containing(s, lit)
            BY <1>4 DEF Containing
         <4> HIDE DEF without
         <4> QED BY <2>3, <2>4, <3>1, <4>1
      <3> QED BY <2>2, <3>1
   <2>5. CASE \E p \in Containing(s, lit) : ~without(p)
      <3>1. PICK p \in Containing(s, lit) : ~without(p)
         BY <2>5
      <3>2. ASSUME NEW n \in Containing(s, -lit)
            PROVE  without(n)
         <4>1. p \in s.active_clauses /\ n \in s.active_clauses
            BY DEF Containing
         <4>2. CASE Resolves(s, var, p, n)
            <5>1. PICK cid \in new : FreeLits(t, cid) = Resolvent(s, var, p, n)
               BY <1>5, <4>2
            <5>2. cid \in t.active_clauses
               BY DEF Resolved
            <5>3. PICK l \in Resolvent(s, var, p, n) : Holds(b, l)
               BY <1>9, <5>1, <5>2 DEF Satisfies, HoldsClause
            <5>4. IABS(l) # var /\ l # lit /\ l # -lit
               BY <1>1, <5>3 DEF Resolvent
            <5> QED BY <3>1, <5>3, <5>4 DEF Resolvent
         <4>3. CASE ~Resolves(s, var, p, n)
            <5>1. PICK l \in Resolvent(s, var, p, n) : -l \in Resolvent(s, var, p, n)
               BY <4>3 DEF Resolves
            <5>2. l \in Literal /\ (Holds(b, -l) <=> ~Holds(b, l))
               BY <1>4, <4>1, HoldsNegation DEF Resolvent
            <5>3. PICK k \in {l, -l} : Holds(b, k)
               BY <5>2
            <5>4. k \in Resolvent(s, var, p, n) /\ IABS(k) # var /\ k # lit /\ k # -lit
               BY <1>1, <5>1, <5>3 DEF Resolvent
            <5> QED BY <3>1, <5>3, <5>4 DEF Resolvent
         <4> QED BY <4>2, <4>3
      <3>3. ASSUME NEW cid \in s.active_clauses, lit \notin FreeLits(s, cid)
            PROVE  without(cid)
         <4>1. -lit \in FreeLits(s, cid) => cid \in Containing(s, -lit)
            BY <1>4 DEF Containing
         <4> HIDE DEF without
         <4> QED BY <2>3, <3>2, <3>3, <4>1
      <3> QED BY <2>2, <3>3
   <2> QED BY <2>4, <2>5
<1>10. \A v \in Variables : s.variable_type[v] = "ELIM" => t.variable_type[v] = "ELIM"
   BY <1>6
<1> QED BY <1>8, <1>9, <1>10 DEF Keeps

-----------------------------------------------------------------------------
(* Candidates for elimination *)

\* The projection variables of active clauses have not been eliminated, and
\* there are finitely many of them.
LEMMA ProjectionVariablesFacts ==
  ASSUME NEW s, Sound(s), NEW cids \in SUBSET s.active_clauses,
         NEW vars, vars = ProjectionVariables(s, cids)
  PROVE  /\ vars \in SUBSET Variables /\ IsFiniteSet(vars)
         /\ vars \cap s.data_variables = {}
         /\ \A v \in vars : s.variable_type[v] # "ELIM"
<1>1. \A v \in vars : \E cid \in cids : \E lit \in FreeLits(s, cid) : v = IABS(lit)
   BY DEF ProjectionVariables
<1>2. \A cid \in cids : \A lit \in FreeLits(s, cid) :
         IABS(lit) \in Variables /\ s.variable_type[IABS(lit)] # "ELIM"
   BY SoundFacts, LiteralFacts DEF Sound
<1>3. vars \in SUBSET Variables /\ \A v \in vars : s.variable_type[v] # "ELIM"
   BY <1>1, <1>2
<1>4. IsFiniteSet(vars)
   BY <1>3, LiteralsFinite, FS_Subset
<1>5. vars \cap s.data_variables = {}
   BY DEF ProjectionVariables
<1> QED BY <1>3, <1>4, <1>5
=============================================================================

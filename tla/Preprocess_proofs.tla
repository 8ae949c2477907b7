-------------------------- MODULE Preprocess_proofs --------------------------
(***************************************************************************)
(* Proofs about module Preprocess, for every formula, every set of data    *)
(* variables, every level and every treatment of Tseitin variables.        *)
(*                                                                         *)
(* Structure is an invariant without any hypothesis.  Semantics, and with  *)
(* it the preservation of the projection, needs inputs in which no clause  *)
(* holds a projection variable in both polarities: TLC shows that without  *)
(* this the projection changes (the run on tautologies).                   *)
(***************************************************************************)
EXTENDS Preprocess, Reduce_proofs

-----------------------------------------------------------------------------
(* Classification of one variable, for every object: what the detection of a *)
(* variable proves of it, and what its promotion adds.  Detection is right   *)
(* because two solutions that agree on the known variables and differ in the *)
(* tested one would satisfy its clauses without it; promotion because the    *)
(* blocked clauses say that the literal is true only if one of its clauses   *)
(* needs it.                                                                 *)

\* From s to t nothing changes that the formula depends on.
SameFormula(s, t) ==
    /\ t \in CnfType
    /\ SameClauses(s, t)
    /\ t.unit_literals = s.unit_literals
    /\ t.bcp_unit_literals = s.bcp_unit_literals
    /\ t.uquantified_variables = s.uquantified_variables
    /\ t.has_conflict = s.has_conflict
    /\ t.data_variables = s.data_variables
    /\ \A v \in Variables : t.variable_type[v] = "ELIM" <=> s.variable_type[v] = "ELIM"

\* The known variables decide var in the solutions of t.
Decides(s, t, var) ==
    \A a, b : /\ Satisfies(t, a) /\ Satisfies(t, b)
              /\ \A v \in KnownVariables(s) : v \in a <=> v \in b
              => (var \in a <=> var \in b)

\* No active clause holds both phases of var.
OnePhase(s, var) ==
    \A cid \in s.active_clauses : ~(var \in Lits(s, cid) /\ -var \in Lits(s, cid))

-----------------------------------------------------------------------------
(* The object *)

\* The same formula is as sound, and has the same solutions.
LEMMA SameFormulaFacts ==
  ASSUME NEW s, Sound(s), NEW t, SameFormula(s, t)
  PROVE  /\ Sound(t)
         /\ \A cid : FreeLits(t, cid) = FreeLits(s, cid) /\ Lits(t, cid) = Lits(s, cid)
         /\ \A a : Satisfies(t, a) <=> Satisfies(s, a)
<1>1. \A cid : FreeLits(t, cid) = FreeLits(s, cid) /\ Lits(t, cid) = Lits(s, cid)
   BY FreeLitsDepend DEF SameFormula, SameClauses
<1>2. IndexExact(t)
   BY SameClausesFacts DEF SameFormula, Sound
<1>3. \A lit \in Literal : t.variable_type[IABS(lit)] = "ELIM" <=> s.variable_type[IABS(lit)] = "ELIM"
   BY LiteralFacts DEF SameFormula
<1>4. t.unit_literals \subseteq Literal
   BY DEF SameFormula, CnfType
<1>5. \A cid \in s.active_clauses : FreeLits(s, cid) \subseteq Literal
   BY SoundFacts
<1>6. Sound(t)
   BY <1>1, <1>2, <1>3, <1>4, <1>5 DEF Sound, SameFormula, SameClauses
<1>7. \A a : Satisfies(t, a) <=> Satisfies(s, a)
   BY <1>1 DEF Satisfies, SameFormula, SameClauses
<1> QED BY <1>1, <1>6, <1>7

\* Recording Tseitin variables does not change the formula.
Records(s, t, T) == t = [s EXCEPT !.tseitin_variables = T]

LEMMA RecordFacts ==
  ASSUME NEW s \in CnfType, NEW T \in SUBSET Variables, NEW t, Records(s, t, T)
  PROVE  SameFormula(s, t) /\ t.tseitin_variables = T
<1>1. t \in CnfType /\ t.tseitin_variables = T
   BY DEF CnfType, Records
<1>2. SameFormula(s, t)
   BY <1>1 DEF SameFormula, SameClauses, Records
<1> QED BY <1>1, <1>2

\* Nor does giving a variable that is not eliminated another such type.
LEMMA RetypeFacts ==
  ASSUME NEW s \in CnfType, NEW var \in Variables, s.variable_type[var] # "ELIM",
         NEW type \in VariableType, type # "ELIM",
         NEW t, t = set_variable_type(s, var, type)
  PROVE  SameFormula(s, t) /\ t.tseitin_variables = s.tseitin_variables
<1>1. t \in CnfType /\ SetsType(s, t, var, type)
   BY SetTypeFacts
<1>2. s.variable_type \in [Variables -> VariableType]
   BY DEF CnfType
<1>3. \A v \in Variables : t.variable_type[v] = "ELIM" <=> s.variable_type[v] = "ELIM"
   BY <1>1, <1>2 DEF SetsType
<1> QED BY <1>1, <1>3 DEF SameFormula, SetsType, SameAssignment

\* The variables that are put back on the queue can still be classified.
LEMMA FanoutFacts ==
  ASSUME NEW s, Sound(s), NEW var \in Variables,
         NEW fanout, fanout = FanoutVariables(s, var)
  PROVE  /\ fanout \in SUBSET Variables /\ IsFiniteSet(fanout)
         /\ fanout \cap s.data_variables = {}
         /\ \A v \in fanout : s.variable_type[v] # "ELIM"
<1>1. /\ s \in CnfType /\ IndexExact(s) /\ var \in Literal /\ -var \in Literal
   BY VariableFacts DEF Sound
<1>2. s.literal_clauses[var] \subseteq s.active_clauses
      /\ s.literal_clauses[-var] \subseteq s.active_clauses
   BY <1>1, ContainingFacts
<1>3. \A v \in fanout : \E cid \in s.active_clauses : \E lit \in FreeLits(s, cid) : v = IABS(lit)
   BY <1>2 DEF FanoutVariables
<1>4. \A cid \in s.active_clauses : \A lit \in FreeLits(s, cid) :
         IABS(lit) \in Variables /\ s.variable_type[IABS(lit)] # "ELIM"
   BY SoundFacts, LiteralFacts DEF Sound
<1>5. fanout \in SUBSET Variables /\ \A v \in fanout : s.variable_type[v] # "ELIM"
   BY <1>3, <1>4
<1>6. IsFiniteSet(fanout)
   BY <1>5, LiteralsFinite, FS_Subset
<1>7. fanout \cap s.data_variables = {}
   BY DEF FanoutVariables, KnownVariables
<1> QED BY <1>5, <1>6, <1>7

\* The clauses that are otherwise over known variables.
LEMMA DtClausesFacts ==
  ASSUME NEW s, Sound(s), NEW lit \in Literal
  PROVE  /\ DtClauses(s, lit) \in SUBSET Containing(s, lit)
         /\ DtClauses(s, lit) \in SUBSET DOMAIN s.clauses
         /\ \A cid \in DtClauses(s, lit) : \A l \in FreeLits(s, cid) :
                IABS(l) = IABS(lit) \/ IABS(l) \in KnownVariables(s)
<1>1. s \in CnfType /\ IndexExact(s)
   BY DEF Sound
<1>2. s.literal_clauses[lit] = Containing(s, lit)
      /\ Containing(s, lit) \in SUBSET DOMAIN s.clauses
   BY <1>1, ContainingFacts
<1> QED BY <1>2 DEF DtClauses

-----------------------------------------------------------------------------
(* Detection *)

\* What the test sees: the clauses of the variable, without the variable.
LEMMA TestContextFacts ==
  ASSUME NEW s, Sound(s), NEW var \in Variables,
         NEW dt, dt = DtClauses(s, -var) \cup DtClauses(s, var),
         NEW u, u = TestContext(s, var)
  PROVE  /\ u.has_conflict = s.has_conflict
         /\ u.bcp_unit_literals = s.unit_literals
         /\ ResidualClauses(u) = { { l \in FreeLits(s, cid) : IABS(l) # var } : cid \in dt }
<1> DEFINE opened == new_context(s)
           pushed == push_active(opened, dt)
<1>1. u = uquantify_variable(pushed, var)
   BY DEF TestContext
<1>2. s \in CnfType /\ s.uquantified_variables = {} /\ s.bcp_unit_literals = s.unit_literals
   BY DEF Sound
<1>3. opened \in CnfType /\ opened.clauses = s.clauses /\ SameAssignment(s, opened)
   <2>1. opened = Log(s, "START_CONTEXT", 0)
      BY DEF new_context
   <2>2. opened \in CnfType
      BY <1>2, <2>1, LogType DEF ActionType
   <2> QED BY <1>2, <2>1, <2>2 DEF Log, CnfType, SameAssignment
<1>6. dt \subseteq s.active_clauses /\ dt \in SUBSET ClauseId
   <2>1. dt \subseteq s.active_clauses
      BY VariableFacts, DtClausesFacts DEF Containing
   <2> QED BY <1>2, <2>1 DEF CnfType
<1>9. pushed = push_active(opened, dt)
   OBVIOUS
<1> HIDE DEF opened, pushed
<1>4. /\ pushed \in CnfType
      /\ pushed.clauses = s.clauses /\ pushed.active_clauses = dt
      /\ SameAssignment(s, pushed)
   BY <1>3, <1>6, <1>9, PushActiveFacts DEF SameAssignment
<1>5. /\ u.clauses = s.clauses /\ u.active_clauses = dt
      /\ u.unit_literals = s.unit_literals
      /\ u.bcp_unit_literals = s.bcp_unit_literals
      /\ u.uquantified_variables = {var}
      /\ u.has_conflict = s.has_conflict
   BY <1>1, <1>2, <1>4 DEF uquantify_variable, Log, CnfType, SameAssignment
<1>7. ASSUME NEW cid \in dt
      PROVE  ~skip_clause(u, cid) /\ FreeLits(u, cid) = { l \in FreeLits(s, cid) : IABS(l) # var }
   <2>1. Lits(u, cid) = Lits(s, cid)
      BY <1>5 DEF Lits
   <2>2. ~skip_clause(u, cid)
      BY <1>5, <1>6, <2>1, SoundFacts DEF skip_clause
   <2>3. FreeLits(u, cid) = { l \in FreeLits(s, cid) : IABS(l) # var }
      BY <1>2, <1>5, <2>1 DEF FreeLits, skip_literal
   <2> QED BY <2>2, <2>3
<1>8. ResidualClauses(u) = { { l \in FreeLits(s, cid) : IABS(l) # var } : cid \in dt }
   BY <1>5, <1>7 DEF ResidualClauses
<1> QED BY <1>2, <1>5, <1>8

\* A variable that passes the test is decided by the known variables.
LEMMA DetectDecides ==
  ASSUME NEW s, Sound(s), NEW var \in Variables, OnePhase(s, var), IsTseitin(s, var)
  PROVE  Decides(s, s, var)
<1> DEFINE dt == DtClauses(s, -var) \cup DtClauses(s, var)
           u == TestContext(s, var)
<1>1. /\ u.has_conflict = s.has_conflict
      /\ u.bcp_unit_literals = s.unit_literals
      /\ ResidualClauses(u) = { { l \in FreeLits(s, cid) : IABS(l) # var } : cid \in dt }
   BY TestContextFacts
<1>2. u.has_conflict \/ Models(Variables, ResidualClauses(u) \cup BcpUnits(u)) = {}
   BY DEF IsTseitin, Satisfiable
<1>3. var \in Literal /\ -var \in Literal /\ IABS(var) = var /\ IABS(-var) = var /\ -(-var) = var
   BY VariableFacts
<1>4. \A cid \in dt : \A l \in FreeLits(s, cid) : IABS(l) = var \/ IABS(l) \in KnownVariables(s)
   BY <1>3, DtClausesFacts
<1>5. dt \subseteq s.active_clauses
   BY <1>3, DtClausesFacts DEF Containing
<1> HIDE DEF u, dt
<1> SUFFICES ASSUME NEW a, NEW b, Satisfies(s, a), Satisfies(s, b),
                    \A v \in KnownVariables(s) : v \in a <=> v \in b,
                    ~(var \in a <=> var \in b)
             PROVE  FALSE
   BY DEF Decides
<1>6. ~s.has_conflict
   <2>1. SUFFICES ASSUME s.has_conflict PROVE FALSE
      OBVIOUS
   <2>2. PICK cid \in s.active_clauses : FreeLits(s, cid) = {}
      BY <2>1 DEF Sound
   <2> QED BY <2>2 DEF Satisfies, HoldsClause
<1>7. ASSUME NEW cid \in dt
      PROVE  HoldsClause(a, { l \in FreeLits(s, cid) : IABS(l) # var })
   <2>1. cid \in s.active_clauses /\ FreeLits(s, cid) \subseteq Literal
      BY <1>5, SoundFacts
   <2>2. PICK l \in FreeLits(s, cid) : Holds(a, l)
      BY <2>1 DEF Satisfies, HoldsClause
   <2>3. PICK k \in FreeLits(s, cid) : Holds(b, k)
      BY <2>1 DEF Satisfies, HoldsClause
   <2>4. CASE IABS(l) # var
      BY <2>2, <2>4 DEF HoldsClause
   <2>5. CASE IABS(k) # var
      <3>1. Holds(a, k)
         BY <1>4, <2>1, <2>3, <2>5, HoldsAgree
      <3> QED BY <2>5, <3>1 DEF HoldsClause
   <2>6. CASE IABS(l) = var /\ IABS(k) = var
      <3>1. l \in {var, -var} /\ k \in {var, -var}
         BY <1>3, <2>1, <2>6, SameVariable
      <3>2. \A x : (Holds(x, var) <=> var \in x) /\ (Holds(x, -var) <=> var \notin x)
         BY <1>3, HoldsNegation DEF Holds, Variables
      <3>3. l # k
         BY <2>2, <2>3, <3>1, <3>2
      <3>4. var \in Lits(s, cid) /\ -var \in Lits(s, cid)
         BY <3>1, <3>3 DEF FreeLits
      <3> QED BY <2>1, <3>4 DEF OnePhase
   <2> QED BY <2>4, <2>5, <2>6
<1>8. \A clause \in BcpUnits(u) : HoldsClause(a, clause)
   BY <1>1 DEF BcpUnits, HoldsClause, Satisfies
<1>9. a \in Models(Variables, ResidualClauses(u) \cup BcpUnits(u))
   <2>1. \A clause \in ResidualClauses(u) : HoldsClause(a, clause)
      BY <1>1, <1>7
   <2> QED BY <1>8, <2>1 DEF Models, Satisfies
<1> QED BY <1>1, <1>2, <1>6, <1>9

-----------------------------------------------------------------------------
(* Promotion *)

\* The blocked clauses of lit: each says that lit is false unless, of every
\* clause C of lit, one other literal is false; together they make lit false
\* unless some clause of C has no other true literal.
Blocks(s, lit, C, clauses) ==
    /\ \A k \in DOMAIN clauses :
           /\ -lit \in ToSet(clauses[k])
           /\ \A x \in ToSet(clauses[k]) : x = -lit
                \/ \E cid \in C : -x \in FreeLits(s, cid) /\ -x # lit
           /\ \A cid \in C : \E l \in FreeLits(s, cid) : l # lit /\ -l \in ToSet(clauses[k])
    /\ \A g \in [C -> Literal] :
           (\A cid \in C : g[cid] \in FreeLits(s, cid) /\ g[cid] # lit) =>
             \E k \in DOMAIN clauses : ToSet(clauses[k]) \subseteq {-lit} \cup { -g[cid] : cid \in C }

\* A literal followed by others.
LEMMA LiteralThen ==
  ASSUME NEW n \in Nat, NEW lit \in Literal, NEW rest \in [1 .. n -> Literal]
  PROVE  /\ << lit >> \o rest \in Seq(Literal)
         /\ ToSet(<< lit >> \o rest) = {lit} \cup { rest[i] : i \in 1 .. n }
<1>1. rest \in Seq(Literal) /\ Len(rest) = n
   BY FunctionIsSeq
<1>2. DOMAIN rest = 1 .. n
   OBVIOUS
<1>3. ToSet(rest) = { rest[i] : i \in 1 .. n }
   BY <1>2 DEF ToSet
<1> DEFINE one == << lit >>
<1>4. one \in Seq(Literal) /\ ToSet(one) = {lit}
   BY DEF ToSet
<1> HIDE DEF one
<1>5. one \o rest \in Seq(Literal) /\ ToSet(one \o rest) = ToSet(one) \cup ToSet(rest)
   BY <1>1, <1>4, ToSetConcat
<1> QED BY <1>3, <1>4, <1>5 DEF one

\* What BlockedClauses computes.
LEMMA BlockedClausesFacts ==
  ASSUME NEW s, Sound(s), NEW lit \in Literal, NEW C, C = DtClauses(s, lit),
         NEW clauses, clauses = BlockedClauses(s, lit)
  PROVE  clauses \in Seq(Seq(Literal)) /\ Blocks(s, lit, C, clauses)
<1> DEFINE cids == Ascending(C)
           places(cid) == { i \in FreePositions(s, cid) : s.clauses[cid][i] # lit }
           all == UNION { places(cid) : cid \in ToSet(cids) }
           F == { f \in [DOMAIN cids -> all] : \A i \in DOMAIN cids : f[i] \in places(cids[i]) }
           choices == Lexicographic(F)
           rest(f) == [i \in DOMAIN cids |-> -s.clauses[cids[i]][f[i]]]
           clause(f) == << -lit >> \o rest(f)
<1>1. clauses = [k \in DOMAIN choices |-> clause(choices[k])]
   BY DEF BlockedClauses
<1>2. /\ s \in CnfType /\ C \in SUBSET DOMAIN s.clauses /\ C \in SUBSET s.active_clauses
      /\ -lit \in Literal
   BY DtClausesFacts, LiteralFacts DEF Sound, Containing
<1>3. /\ IsFiniteSet(C) /\ cids \in Seq(C) /\ ToSet(cids) = C
   <2>1. IsFiniteSet(C) /\ C \subseteq Int
      BY <1>2, ClausesFinite
   <2> QED BY <2>1, AscendingEnumerates
<1>4. PICK n \in Nat : /\ DOMAIN cids = 1 .. n
                       /\ \A i \in 1 .. n : cids[i] \in C
                       /\ \A cid \in C : \E i \in 1 .. n : cids[i] = cid
   <2>1. Len(cids) \in Nat /\ DOMAIN cids = 1 .. Len(cids)
         /\ \A i \in 1 .. Len(cids) : cids[i] \in C
      BY <1>3, LenProperties, ElementOfSeq
   <2>2. \A cid \in C : \E i \in 1 .. Len(cids) : cids[i] = cid
      BY <1>3, ToSetSeq
   <2> QED BY <2>1, <2>2
<1> HIDE DEF cids
<1>5. \A cid \in C :
         /\ places(cid) \subseteq Nat /\ IsFiniteSet(places(cid))
         /\ \A i \in places(cid) : s.clauses[cid][i] \in FreeLits(s, cid)
                                   /\ s.clauses[cid][i] # lit
         /\ \A l \in FreeLits(s, cid) : l # lit => \E i \in places(cid) : s.clauses[cid][i] = l
   <2>1. TAKE cid \in C
   <2>2. /\ FreePositions(s, cid) \subseteq Nat /\ IsFiniteSet(FreePositions(s, cid))
         /\ \A i \in FreePositions(s, cid) : s.clauses[cid][i] \in FreeLits(s, cid)
         /\ \A l \in FreeLits(s, cid) : \E i \in FreePositions(s, cid) : s.clauses[cid][i] = l
      BY <1>2, FreePositionsFacts
   <2>3. places(cid) \in SUBSET FreePositions(s, cid)
      OBVIOUS
   <2>4. IsFiniteSet(places(cid))
      BY <2>2, <2>3, FS_Subset
   <2> QED BY <2>2, <2>4
<1>6. \A cid \in C : FreeLits(s, cid) \subseteq Literal
   BY <1>2, SoundFacts
<1>7. all \subseteq Nat /\ IsFiniteSet(all) /\ \A cid \in C : places(cid) \subseteq all
   <2> DEFINE P == { places(cid) : cid \in C }
              h == [cid \in C |-> places(cid)]
   <2>1. all = UNION P
      BY <1>3
   <2>2. IsFiniteSet(P)
      <3>1. h \in Surjection(C, P)
         BY DEF Surjection
      <3> HIDE DEF P, h
      <3> QED BY <1>3, <3>1, FS_Surjection
   <2>3. \A T \in P : IsFiniteSet(T)
      BY <1>5
   <2>4. IsFiniteSet(UNION P)
      <3> HIDE DEF P
      <3> QED BY <2>2, <2>3, FS_UNION
   <2>5. UNION P \subseteq Nat /\ \A cid \in C : places(cid) \subseteq UNION P
      <3>1. \A T \in P : T \subseteq Nat
         BY <1>5
      <3>2. \A cid \in C : places(cid) \in P
         OBVIOUS
      <3> HIDE DEF P, places
      <3> QED BY <3>1, <3>2
   <2> HIDE DEF all, P
   <2> QED BY <2>1, <2>4, <2>5
<1> HIDE DEF all, places
<1>8. F = { f \in [1 .. n -> all] : \A i \in 1 .. n : f[i] \in places(cids[i]) }
   BY <1>4
<1>9. choices \in Seq(F) /\ ToSet(choices) = F
   <2>1. IsFiniteSet([1 .. n -> all])
      BY <1>4, <1>7, PlacesFinite, FiniteFunctions
   <2>2. F \in SUBSET [1 .. n -> all]
      BY <1>8
   <2> HIDE DEF F
   <2>3. IsFiniteSet(F)
      BY <2>1, <2>2, FS_Subset
   <2>4. F \subseteq [1 .. n -> Int]
      <3>1. all \subseteq Int
         BY <1>7
      <3> QED BY <2>2, <3>1
   <2> QED BY <1>4, <2>3, <2>4, LexicographicEnumerates
<1> HIDE DEF F, choices
<1>10. PICK m \in Nat : /\ DOMAIN choices = 1 .. m
                        /\ \A k \in 1 .. m : choices[k] \in F
                        /\ \A f \in F : \E k \in 1 .. m : choices[k] = f
   <2>1. Len(choices) \in Nat /\ DOMAIN choices = 1 .. Len(choices)
         /\ \A k \in 1 .. Len(choices) : choices[k] \in F
      BY <1>9, LenProperties, ElementOfSeq
   <2>2. \A f \in F : \E k \in 1 .. Len(choices) : choices[k] = f
      BY <1>9, ToSetSeq
   <2> QED BY <2>1, <2>2
<1>11. ASSUME NEW f \in F
       PROVE  /\ clause(f) \in Seq(Literal)
              /\ ToSet(clause(f)) = {-lit} \cup { -s.clauses[cids[i]][f[i]] : i \in 1 .. n }
              /\ \A i \in 1 .. n : /\ f[i] \in places(cids[i])
                                   /\ s.clauses[cids[i]][f[i]] \in FreeLits(s, cids[i])
                                   /\ s.clauses[cids[i]][f[i]] # lit
                                   /\ s.clauses[cids[i]][f[i]] \in Literal
   <2>1. \A i \in 1 .. n : /\ f[i] \in places(cids[i])
                           /\ s.clauses[cids[i]][f[i]] \in FreeLits(s, cids[i])
                           /\ s.clauses[cids[i]][f[i]] # lit
                           /\ s.clauses[cids[i]][f[i]] \in Literal
      BY <1>4, <1>5, <1>6, <1>8
   <2>2. /\ rest(f) \in [1 .. n -> Literal]
         /\ \A i \in 1 .. n : rest(f)[i] = -s.clauses[cids[i]][f[i]]
      BY <1>4, <2>1, LiteralFacts
   <2> DEFINE r == rest(f)
   <2>3. clause(f) = << -lit >> \o r /\ r \in [1 .. n -> Literal]
      BY <2>2
   <2> DEFINE q == clause(f)
              first == -lit
   <2>6. q = << first >> \o r /\ first \in Literal
      BY <1>2, <2>3
   <2> HIDE DEF r, clause, q, first
   <2>4. q \in Seq(Literal) /\ ToSet(q) = {first} \cup { r[i] : i \in 1 .. n }
      BY <1>4, <2>3, <2>6, LiteralThen
   <2>5. { r[i] : i \in 1 .. n } = { -s.clauses[cids[i]][f[i]] : i \in 1 .. n }
      BY <2>2 DEF r
   <2> QED BY <2>1, <2>4, <2>5 DEF q, first
<1> HIDE DEF clause
<1>12. clauses \in Seq(Seq(Literal))
   <2>1. clauses \in [1 .. m -> Seq(Literal)]
      BY <1>1, <1>10, <1>11
   <2> QED BY <2>1, FunctionIsSeq
<1>13. ASSUME NEW k \in DOMAIN clauses
       PROVE  /\ -lit \in ToSet(clauses[k])
              /\ \A x \in ToSet(clauses[k]) : x = -lit
                    \/ \E cid \in C : -x \in FreeLits(s, cid) /\ -x # lit
              /\ \A cid \in C : \E l \in FreeLits(s, cid) : l # lit /\ -l \in ToSet(clauses[k])
   <2> DEFINE f == choices[k]
   <2>1. f \in F /\ clauses[k] = clause(f)
      BY <1>1, <1>10
   <2> HIDE DEF f
   <2>2. /\ ToSet(clauses[k]) = {-lit} \cup { -s.clauses[cids[i]][f[i]] : i \in 1 .. n }
         /\ \A i \in 1 .. n : /\ s.clauses[cids[i]][f[i]] \in FreeLits(s, cids[i])
                              /\ s.clauses[cids[i]][f[i]] # lit
                              /\ s.clauses[cids[i]][f[i]] \in Literal
      BY <1>11, <2>1
   <2>3. ASSUME NEW x \in ToSet(clauses[k]), x # -lit
         PROVE  \E cid \in C : -x \in FreeLits(s, cid) /\ -x # lit
      <3>1. PICK i \in 1 .. n : x = -s.clauses[cids[i]][f[i]]
         BY <2>2, <2>3
      <3>2. -x = s.clauses[cids[i]][f[i]]
         BY <2>2, <3>1, LiteralFacts
      <3> QED BY <1>4, <2>2, <3>2
   <2>4. ASSUME NEW cid \in C
         PROVE  \E l \in FreeLits(s, cid) : l # lit /\ -l \in ToSet(clauses[k])
      <3>1. PICK i \in 1 .. n : cids[i] = cid
         BY <1>4
      <3> QED BY <2>2, <3>1
   <2> QED BY <2>2, <2>3, <2>4
<1>14. ASSUME NEW g \in [C -> Literal],
              \A cid \in C : g[cid] \in FreeLits(s, cid) /\ g[cid] # lit
       PROVE  \E k \in DOMAIN clauses :
                  ToSet(clauses[k]) \subseteq {-lit} \cup { -g[cid] : cid \in C }
   <2> DEFINE f == [i \in 1 .. n |-> CHOOSE j \in places(cids[i]) :
                                         s.clauses[cids[i]][j] = g[cids[i]]]
   <2>1. ASSUME NEW i \in 1 .. n
         PROVE  f[i] \in places(cids[i]) /\ s.clauses[cids[i]][f[i]] = g[cids[i]]
      <3>1. \E j \in places(cids[i]) : s.clauses[cids[i]][j] = g[cids[i]]
         BY <1>4, <1>5, <1>14
      <3> QED BY <3>1
   <2>2. f \in [1 .. n -> all]
      <3>1. \A i \in 1 .. n : f[i] \in all
         BY <1>4, <1>7, <2>1
      <3> QED BY <3>1
   <2> HIDE DEF f
   <2>3. f \in F
      BY <1>8, <2>1, <2>2
   <2>4. PICK k \in 1 .. m : choices[k] = f
      BY <1>10, <2>3
   <2>5. k \in DOMAIN clauses /\ clauses[k] = clause(f)
      BY <1>1, <1>10, <2>4
   <2>6. ToSet(clause(f)) = {-lit} \cup { -s.clauses[cids[i]][f[i]] : i \in 1 .. n }
      BY <1>11, <2>3
   <2>7. { -s.clauses[cids[i]][f[i]] : i \in 1 .. n } \subseteq { -g[cid] : cid \in C }
      BY <1>4, <2>1
   <2> QED BY <2>5, <2>6, <2>7
<1> QED BY <1>12, <1>13, <1>14 DEF Blocks

\* The clauses new of t are the blocked clauses of lit.
BlocksIn(s, t, lit, new) ==
    /\ \A cid \in new :
           /\ -lit \in Lits(t, cid)
           /\ \A x \in Lits(t, cid) : x = -lit
                \/ \E c \in Containing(s, lit) : -x \in FreeLits(s, c) /\ -x # lit
           /\ \A c \in Containing(s, lit) : \E l \in FreeLits(s, c) : l # lit /\ -l \in Lits(t, cid)
    /\ \A g \in [Containing(s, lit) -> Literal] :
           (\A c \in Containing(s, lit) : g[c] \in FreeLits(s, c) /\ g[c] # lit) =>
             \E cid \in new :
                 Lits(t, cid) \subseteq {-lit} \cup { -g[c] : c \in Containing(s, lit) }

\* From s to t they have been added, and nothing else has changed.
Promoted(s, t, lit, new) ==
    /\ t \in CnfType /\ IndexExact(t)
    /\ OldClausesKept(s, t)
    /\ new \subseteq DOMAIN t.clauses /\ new \cap DOMAIN s.clauses = {}
    /\ t.active_clauses = s.active_clauses \cup new
    /\ \A v \in Variables : t.variable_type[v] = "ELIM" <=> s.variable_type[v] = "ELIM"
    /\ SameAssignment(s, t)
    /\ BlocksIn(s, t, lit, new)
    /\ \A c \in Containing(s, lit) : \A l \in FreeLits(s, c) :
           IABS(l) = IABS(lit) \/ IABS(l) \in KnownVariables(s)

\* What blocked_clause_expand does to the object.
LEMMA PromoteFacts ==
  ASSUME NEW s, Sound(s), NEW lit \in Literal, s.variable_type[IABS(lit)] # "ELIM",
         CanPromote(s, lit), NEW t, t = blocked_clause_expand(s, lit)
  PROVE  \E new : Promoted(s, t, lit, new)
<1> DEFINE clauses == BlockedClauses(s, lit)
           added == AddClauses(s, clauses)
           new == AddedIds(s, clauses)
           C == Containing(s, lit)
<1>1. s \in CnfType /\ IndexExact(s) /\ IABS(lit) \in Variables
   BY LiteralFacts DEF Sound
<1>2. DtClauses(s, lit) = C
   BY <1>1, ContainingFacts DEF CanPromote
<1>3. t = set_variable_type(added, IABS(lit), "TSEITIN_PROMOTE")
   BY DEF blocked_clause_expand
<1>4. added = AddClauses(s, clauses)
   OBVIOUS
<1>5. clauses = BlockedClauses(s, lit)
   OBVIOUS
<1> HIDE DEF clauses, added
<1>6. clauses \in Seq(Seq(Literal)) /\ Blocks(s, lit, C, clauses)
   BY <1>2, <1>5, BlockedClausesFacts
<1>7. /\ added \in CnfType /\ IndexExact(added) /\ Adds(s, added, clauses)
      /\ new \subseteq DOMAIN added.clauses /\ new \cap DOMAIN s.clauses = {}
   BY <1>1, <1>4, <1>6, AddClausesFacts
<1>8. added.variable_type[IABS(lit)] # "ELIM"
   BY <1>1, <1>7 DEF Adds
<1>9. SameFormula(added, t) /\ t.tseitin_variables = added.tseitin_variables
   BY <1>1, <1>3, <1>7, <1>8, RetypeFacts DEF VariableType
<1>10. IndexExact(t) /\ t \in CnfType /\ t.clauses = added.clauses
       /\ t.active_clauses = s.active_clauses \cup new
   BY <1>7, <1>9, SameClausesFacts DEF SameFormula, SameClauses, Adds
<1>11. /\ \A cid \in new : \E k \in DOMAIN clauses : Lits(t, cid) = ToSet(clauses[k])
       /\ \A k \in DOMAIN clauses : \E cid \in new : Lits(t, cid) = ToSet(clauses[k])
   <2>1. \A k \in DOMAIN clauses : Lits(t, Len(s.clauses) + k) = ToSet(clauses[k])
      BY <1>7, <1>10 DEF Adds, Lits
   <2> QED BY <2>1 DEF AddedIds
<1>12. BlocksIn(s, t, lit, new)
   <2>1. ASSUME NEW cid \in new
         PROVE  /\ -lit \in Lits(t, cid)
                /\ \A x \in Lits(t, cid) : x = -lit
                      \/ \E c \in C : -x \in FreeLits(s, c) /\ -x # lit
                /\ \A c \in C : \E l \in FreeLits(s, c) : l # lit /\ -l \in Lits(t, cid)
      <3>1. PICK k \in DOMAIN clauses : Lits(t, cid) = ToSet(clauses[k])
         BY <1>11
      <3> HIDE DEF new, C
      <3> QED BY <1>6, <3>1 DEF Blocks
   <2>2. ASSUME NEW g \in [C -> Literal],
                \A c \in C : g[c] \in FreeLits(s, c) /\ g[c] # lit
         PROVE  \E cid \in new : Lits(t, cid) \subseteq {-lit} \cup { -g[c] : c \in C }
      <3>1. PICK k \in DOMAIN clauses : ToSet(clauses[k]) \subseteq {-lit} \cup { -g[c] : c \in C }
         BY <1>6, <2>2 DEF Blocks
      <3>2. PICK cid \in new : Lits(t, cid) = ToSet(clauses[k])
         BY <1>11
      <3> HIDE DEF new, C
      <3> QED BY <3>1, <3>2
   <2> HIDE DEF new
   <2> QED BY <2>1, <2>2 DEF BlocksIn
<1>13. SameAssignment(s, t)
   BY <1>7, <1>9 DEF SameFormula, Adds, SameAssignment
<1>14. /\ OldClausesKept(s, t)
       /\ new \subseteq DOMAIN t.clauses /\ new \cap DOMAIN s.clauses = {}
       /\ \A v \in Variables : t.variable_type[v] = "ELIM" <=> s.variable_type[v] = "ELIM"
   BY <1>7, <1>9, <1>10 DEF SameFormula, Adds, OldClausesKept
<1>15. \A c \in C : \A l \in FreeLits(s, c) : IABS(l) = IABS(lit) \/ IABS(l) \in KnownVariables(s)
   BY <1>2, DtClausesFacts
<1> HIDE DEF new
<1>16. Promoted(s, t, lit, new)
   BY <1>10, <1>12, <1>13, <1>14, <1>15 DEF Promoted
<1> QED BY <1>16

\* The literals of the clauses after a promotion: old clauses have theirs, and
\* those of the new ones are free.
LEMMA PromotedLiterals ==
  ASSUME NEW s, Sound(s), NEW lit \in Literal, s.variable_type[IABS(lit)] # "ELIM",
         NEW t, NEW new, Promoted(s, t, lit, new)
  PROVE  /\ \A cid \in s.active_clauses :
                Lits(t, cid) = Lits(s, cid) /\ FreeLits(t, cid) = FreeLits(s, cid)
         /\ \A cid \in new :
                /\ FreeLits(t, cid) = Lits(t, cid)
                /\ \A x \in Lits(t, cid) : x \in Literal /\ s.variable_type[IABS(x)] # "ELIM"
<1>1. /\ t.unit_literals = s.unit_literals
      /\ t.uquantified_variables = {} /\ s.uquantified_variables = {}
   BY DEF Promoted, SameAssignment, Sound
<1>2. ASSUME NEW cid \in s.active_clauses
      PROVE  Lits(t, cid) = Lits(s, cid) /\ FreeLits(t, cid) = FreeLits(s, cid)
   <2>1. t.clauses[cid] = s.clauses[cid]
      BY SoundFacts DEF Promoted, OldClausesKept
   <2> QED BY <1>1, <2>1, FreeLitsDepend
<1>3. ASSUME NEW cid \in new, NEW x \in Lits(t, cid)
      PROVE  x \in Literal /\ s.variable_type[IABS(x)] # "ELIM" /\ -x \notin t.unit_literals
   <2>1. x \in Literal /\ -x \in Literal /\ IABS(-x) = IABS(x)
      <3>1. x \in Literal
         BY ClauseFacts DEF Promoted
      <3> QED BY <3>1, LiteralFacts
   <2>2. s.variable_type[IABS(x)] # "ELIM"
      <3>1. CASE x = -lit
         BY <3>1, LiteralFacts
      <3>2. CASE \E c \in Containing(s, lit) : -x \in FreeLits(s, c)
         <4>1. PICK c \in s.active_clauses : -x \in FreeLits(s, c)
            BY <3>2 DEF Containing
         <4>2. s.variable_type[IABS(-x)] # "ELIM"
            BY <4>1 DEF Sound
         <4> QED BY <2>1, <4>2
      <3> QED BY <3>1, <3>2 DEF Promoted, BlocksIn
   <2>3. -x \notin t.unit_literals
      BY <1>1, <2>1, <2>2, SoundFacts
   <2> QED BY <2>1, <2>2, <2>3
<1>4. \A cid : FreeLits(t, cid) = { x \in Lits(t, cid) : -x \notin t.unit_literals }
   BY <1>1, FreeLitsFacts
<1> QED BY <1>2, <1>3, <1>4

\* A promotion keeps the object sound.
LEMMA PromotedSound ==
  ASSUME NEW s, Sound(s), NEW lit \in Literal, s.variable_type[IABS(lit)] # "ELIM",
         NEW t, NEW new, Promoted(s, t, lit, new)
  PROVE  Sound(t)
<1>1. /\ \A cid \in s.active_clauses : FreeLits(t, cid) = FreeLits(s, cid)
      /\ \A cid \in new : /\ FreeLits(t, cid) = Lits(t, cid)
                          /\ \A x \in Lits(t, cid) : x \in Literal
                                 /\ s.variable_type[IABS(x)] # "ELIM"
   BY PromotedLiterals
<1>2. \A x \in Literal : t.variable_type[IABS(x)] = "ELIM" <=> s.variable_type[IABS(x)] = "ELIM"
   BY LiteralFacts DEF Promoted
<1>3. ASSUME NEW cid \in t.active_clauses, NEW x \in FreeLits(t, cid)
      PROVE  t.variable_type[IABS(x)] # "ELIM"
   <2>1. CASE cid \in s.active_clauses
      <3>1. x \in FreeLits(s, cid) /\ x \in Literal
         BY <1>1, <2>1, SoundFacts
      <3> QED BY <1>2, <2>1, <3>1 DEF Sound
   <2>2. CASE cid \in new
      BY <1>1, <1>2, <2>2
   <2> QED BY <2>1, <2>2 DEF Promoted
<1>4. t.has_conflict => \E cid \in t.active_clauses : FreeLits(t, cid) = {}
   BY <1>1 DEF Promoted, SameAssignment, Sound
<1>5. s.unit_literals \subseteq Literal
   BY DEF Sound, CnfType
<1>6. \A x \in t.unit_literals : -x \notin t.unit_literals /\ t.variable_type[IABS(x)] = "ELIM"
   BY <1>2, <1>5 DEF Promoted, SameAssignment, Sound
<1> QED BY <1>3, <1>4, <1>6 DEF Sound, Promoted, SameAssignment

\* The blocked clauses hold no literal and its complement: no literal of the
\* clauses of lit was another's complement.
LEMMA PromotedPairs ==
  ASSUME NEW s, Sound(s), NEW lit \in Literal, s.variable_type[IABS(lit)] # "ELIM",
         CanPromote(s, lit), OnePhase(s, IABS(lit)),
         NEW t, NEW new, Promoted(s, t, lit, new)
  PROVE  \A cid \in new : \A x \in Lits(t, cid) : -x \notin Lits(t, cid)
<1>1. -lit \in Literal /\ lit # -lit /\ -(-lit) = lit
   BY LiteralFacts
<1>2. ASSUME NEW c \in Containing(s, lit), NEW l \in FreeLits(s, c), l # lit
      PROVE  l \in Literal /\ l \in OtherLits(s, lit) /\ IABS(l) # IABS(lit)
   <2>1. c \in s.active_clauses /\ lit \in Lits(s, c) /\ l \in Lits(s, c) /\ l \in Literal
      BY SoundFacts DEF Containing, FreeLits
   <2>2. l # -lit
      <3>1. \A x \in Literal : x = IABS(x) \/ x = -IABS(x)
         BY LiteralFacts
      <3>2. ~(lit \in Lits(s, c) /\ -lit \in Lits(s, c))
         <4>1. CASE lit = IABS(lit)
            BY <2>1, <4>1 DEF OnePhase
         <4>2. CASE lit = -IABS(lit)
            <5>1. -lit = IABS(lit)
               BY <4>2, LiteralFacts
            <5> QED BY <2>1, <4>2, <5>1 DEF OnePhase
         <4> QED BY <3>1, <4>1, <4>2
      <3> QED BY <2>1, <3>2
   <2>3. IABS(l) # IABS(lit)
      BY <1>2, <2>1, <2>2, SameVariable
   <2>4. DtClauses(s, lit) = Containing(s, lit)
      BY ContainingFacts DEF CanPromote, Sound
   <2> QED BY <2>1, <2>3, <2>4 DEF OtherLits
<1>3. ASSUME NEW cid \in new, NEW x \in Lits(t, cid), x # -lit
      PROVE  /\ x \in Literal /\ -x \in OtherLits(s, lit) /\ x # lit
   <2>1. PICK c \in Containing(s, lit) : -x \in FreeLits(s, c) /\ -x # lit
      BY <1>3 DEF Promoted, BlocksIn
   <2>2. x \in Literal
      BY PromotedLiterals
   <2>3. -x \in OtherLits(s, lit) /\ IABS(-x) # IABS(lit)
      BY <1>2, <2>1
   <2> QED BY <2>2, <2>3, LiteralFacts
<1> SUFFICES ASSUME NEW cid \in new, NEW x \in Lits(t, cid), -x \in Lits(t, cid)
             PROVE  FALSE
   OBVIOUS
<1>4. x \in Literal /\ -(-x) = x
   BY PromotedLiterals, LiteralFacts
<1>5. CASE x = -lit \/ -x = -lit
   BY <1>1, <1>3, <1>4, <1>5
<1>6. CASE x # -lit /\ -x # -lit
   <2>1. -x \in OtherLits(s, lit) /\ -(-x) \in OtherLits(s, lit)
      BY <1>3, <1>6
   <2> QED BY <2>1 DEF CanPromote
<1> QED BY <1>5, <1>6

\* A promotion keeps the solutions: those that satisfy the clauses of lit
\* without it are kept with lit false.
LEMMA PromotedKeeps ==
  ASSUME NEW s, Sound(s), NEW lit \in Literal, s.variable_type[IABS(lit)] # "ELIM",
         \A cid \in s.active_clauses : ~(lit \in Lits(s, cid) /\ -lit \in Lits(s, cid)),
         NEW t, NEW new, Promoted(s, t, lit, new),
         NEW D, IABS(lit) \notin D
  PROVE  /\ Keeps(s, t, D)
         /\ \A b : Satisfies(t, b) => Satisfies(s, b)
<1> DEFINE C == Containing(s, lit)
<1>1. -lit \in Literal /\ lit # -lit /\ -(-lit) = lit /\ IABS(-lit) = IABS(lit)
   BY LiteralFacts
<1>2. /\ \A cid \in s.active_clauses : FreeLits(t, cid) = FreeLits(s, cid)
      /\ \A cid \in new : FreeLits(t, cid) = Lits(t, cid)
      /\ t.unit_literals = s.unit_literals
      /\ t.active_clauses = s.active_clauses \cup new
   BY PromotedLiterals DEF Promoted, SameAssignment
<1>3. \A b : Satisfies(t, b) => Satisfies(s, b)
   BY <1>2 DEF Satisfies
<1>4. ASSUME NEW a, Satisfies(s, a)
      PROVE  \E b : Satisfies(t, b) /\ a \cap D = b \cap D
   <2>1. a \in SUBSET Variables
      BY <1>4 DEF Satisfies
   <2>2. CASE \A c \in C : \E l \in FreeLits(s, c) : l # lit /\ Holds(a, l)
      <3>1. PICK b : SetsLiteral(a, b, -lit, D)
         BY <1>1, <2>1, SetLiteral
      <3>2. /\ b \in SUBSET Variables /\ Holds(b, -lit) /\ b \cap D = a \cap D
            /\ \A l \in Literal : l # lit /\ l # -lit => (Holds(b, l) <=> Holds(a, l))
         BY <1>1, <3>1 DEF SetsLiteral
      <3>3. \A l \in Literal : l # lit /\ Holds(a, l) => Holds(b, l)
         BY <3>2
      <3>4. \A l \in s.unit_literals : Holds(b, l)
         <4>1. \A l \in s.unit_literals : l \in Literal /\ l # lit /\ Holds(a, l)
            BY <1>4, SoundFacts DEF Sound, CnfType, Satisfies
         <4> QED BY <3>3, <4>1
      <3>5. ASSUME NEW c \in s.active_clauses
            PROVE  HoldsClause(b, FreeLits(s, c))
         <4>1. FreeLits(s, c) \subseteq Literal
            BY SoundFacts
         <4>2. PICK l \in FreeLits(s, c) : l # lit /\ Holds(a, l)
            <5>1. CASE c \in C
               BY <2>2, <5>1
            <5>2. CASE c \notin C
               <6>1. lit \notin FreeLits(s, c)
                  BY <5>2 DEF FreeLits, Containing
               <6> QED BY <1>4, <6>1 DEF Satisfies, HoldsClause
            <5> QED BY <5>1, <5>2
         <4> QED BY <3>3, <4>1, <4>2 DEF HoldsClause
      <3>6. \A cid \in new : HoldsClause(b, FreeLits(t, cid))
         BY <1>2, <3>2 DEF HoldsClause, Promoted, BlocksIn
      <3>7. Satisfies(t, b)
         BY <1>2, <3>2, <3>4, <3>5, <3>6 DEF Satisfies
      <3> QED BY <3>2, <3>7
   <2>3. CASE \E c \in C : \A l \in FreeLits(s, c) : l # lit => ~Holds(a, l)
      <3>1. PICK c \in C : \A l \in FreeLits(s, c) : l # lit => ~Holds(a, l)
         BY <2>3
      <3>2. FreeLits(s, c) \subseteq Literal
         BY SoundFacts DEF Containing
      <3>3. ASSUME NEW cid \in new
            PROVE  HoldsClause(a, FreeLits(t, cid))
         <4>1. PICK l \in FreeLits(s, c) : l # lit /\ -l \in Lits(t, cid)
            BY <3>1 DEF Promoted, BlocksIn
         <4>2. Holds(a, -l)
            BY <3>1, <3>2, <4>1, HoldsNegation
         <4> QED BY <1>2, <4>1, <4>2 DEF HoldsClause
      <3>4. Satisfies(t, a)
         BY <1>2, <1>4, <3>3 DEF Satisfies
      <3> QED BY <3>4
   <2> QED BY <2>2, <2>3
<1>5. \A v \in Variables : s.variable_type[v] = "ELIM" => t.variable_type[v] = "ELIM"
   BY DEF Promoted
<1> QED BY <1>3, <1>4, <1>5 DEF Keeps

\* And the known variables now decide the variable: a solution with lit true
\* has a clause of lit whose other literals, all known, are false, and in a
\* solution with lit false and the same known variables that clause fails.
LEMMA PromotedDecides ==
  ASSUME NEW s, Sound(s), NEW lit \in Literal, s.variable_type[IABS(lit)] # "ELIM",
         \A cid \in s.active_clauses : ~(lit \in Lits(s, cid) /\ -lit \in Lits(s, cid)),
         NEW t, NEW new, Promoted(s, t, lit, new)
  PROVE  Decides(s, t, IABS(lit))
<1> DEFINE C == Containing(s, lit)
<1>1. -lit \in Literal /\ lit # -lit /\ -(-lit) = lit /\ IABS(-lit) = IABS(lit)
   BY LiteralFacts
<1>2. /\ \A cid \in s.active_clauses : FreeLits(t, cid) = FreeLits(s, cid)
      /\ \A cid \in new : FreeLits(t, cid) = Lits(t, cid)
      /\ t.active_clauses = s.active_clauses \cup new
   BY PromotedLiterals DEF Promoted
<1>3. ASSUME NEW c \in C, NEW l \in FreeLits(s, c), l # lit
      PROVE  l \in Literal /\ IABS(l) \in KnownVariables(s)
   <2>1. c \in s.active_clauses /\ lit \in Lits(s, c) /\ l \in Lits(s, c) /\ l \in Literal
      BY SoundFacts DEF Containing, FreeLits
   <2>2. IABS(l) # IABS(lit)
      BY <1>3, <2>1, SameVariable
   <2> QED BY <2>1, <2>2 DEF Promoted
<1>4. ASSUME NEW a, NEW b, Satisfies(t, a), Satisfies(t, b), Holds(a, lit), ~Holds(b, lit),
             \A v \in KnownVariables(s) : v \in a <=> v \in b
      PROVE  FALSE
   <2>1. ASSUME \A c \in C : \E l \in FreeLits(s, c) : l # lit /\ Holds(a, l)
         PROVE  FALSE
      <3> DEFINE g == [c \in C |-> CHOOSE l \in FreeLits(s, c) : l # lit /\ Holds(a, l)]
      <3>1. \A c \in C : g[c] \in FreeLits(s, c) /\ g[c] # lit /\ Holds(a, g[c])
         BY <2>1
      <3>2. g \in [C -> Literal]
         <4>1. \A c \in C : g[c] \in Literal
            BY <1>3, <3>1
         <4> QED BY <4>1
      <3> HIDE DEF g
      <3>3. PICK cid \in new : Lits(t, cid) \subseteq {-lit} \cup { -g[c] : c \in C }
         BY <3>1, <3>2 DEF Promoted, BlocksIn
      <3>4. PICK x \in Lits(t, cid) : Holds(a, x)
         BY <1>2, <1>4, <3>3 DEF Satisfies, HoldsClause
      <3>5. x # -lit
         BY <1>4, <3>4, HoldsNegation
      <3>6. PICK c \in C : x = -g[c]
         BY <3>3, <3>4, <3>5
      <3>7. g[c] \in Literal /\ Holds(a, g[c])
         BY <3>1, <3>2
      <3> QED BY <3>4, <3>6, <3>7, HoldsNegation
   <2>2. PICK c \in C : \A l \in FreeLits(s, c) : l # lit => ~Holds(a, l)
      BY <2>1
   <2>3. PICK l \in FreeLits(s, c) : Holds(b, l)
      <3>1. c \in s.active_clauses
         BY DEF Containing
      <3> QED BY <1>2, <1>4, <3>1 DEF Satisfies, HoldsClause
   <2>4. l # lit
      BY <1>4, <2>3
   <2>5. Holds(a, l)
      BY <1>3, <1>4, <2>3, <2>4, HoldsAgree
   <2> QED BY <2>2, <2>4, <2>5
<1>5. \A x : lit = IABS(lit) => (Holds(x, lit) <=> IABS(lit) \in x)
   BY LiteralFacts DEF Holds, Variables
<1>6. \A x : lit # IABS(lit) => (Holds(x, lit) <=> IABS(lit) \notin x)
   BY LiteralFacts DEF Holds, IABS
<1>7. ASSUME NEW a, NEW b, Satisfies(t, a), Satisfies(t, b),
             \A v \in KnownVariables(s) : v \in a <=> v \in b
      PROVE  IABS(lit) \in a <=> IABS(lit) \in b
   <2>1. Holds(a, lit) <=> Holds(b, lit)
      BY <1>4, <1>7
   <2> QED BY <1>5, <1>6, <2>1
<1> QED BY <1>7 DEF Decides

-----------------------------------------------------------------------------
(* The invariant *)

\* Structure, split into what is about the object and what is about the loops.
ObjectOK ==
    /\ Sound(cnf)
    /\ cnf.data_variables = DataVariables
    /\ cnf.tseitin_variables \cap DataVariables = {}
    /\ phase = "classify" => \A v \in cnf.tseitin_variables : ~Eliminated(cnf, v)

BveType == [maxdegree            : Nat,
            degree_variables     : [0 .. bve.maxdegree -> SUBSET Variables],
            eliminated_variables : SUBSET Variables]

LoopsOK ==
    /\ clause_queue \in Seq(ClauseId)
    /\ bve \in BveType
    /\ pvar_queue \in Seq(Variables)
    /\ phase \in Phases
    /\ phase \notin {"bve", "rebve"} => bve = NoBve
    /\ phase # "classify" => pvar_queue = NoQueue
    /\ phase = "rebve" => preprocess_level >= 4

OptionsOK ==
    /\ input \in Seq(Seq(Literal))
    /\ preprocess_level \in Levels
    /\ tseitin_mode \in TseitinModes

LEMMA StructureParts ==
  Structure <=> ObjectOK /\ LoopsOK /\ OptionsOK /\ WaitingVariables /\ QueueCoversUnsettled
<1>1. EliminatedGone <=> \A cid \in cnf.active_clauses : \A lit \in FreeLits(cnf, cid) :
                            cnf.variable_type[IABS(lit)] # "ELIM"
   BY DEF EliminatedGone
<1>2. TypeOK <=> cnf \in CnfType /\ clause_queue \in Seq(ClauseId) /\ bve \in BveType
                    /\ OptionsOK /\ phase \in Phases /\ pvar_queue \in Seq(Variables)
   BY DEF TypeOK, ReduceTypeOK, OptionsOK, BveType
<1> QED BY <1>1, <1>2 DEF Structure, ObjectOK, LoopsOK, PhaseOK, LiteralMapExact, IndexExact,
           UnitsSettled, EmptyClauseWitness, Sound, Eliminated

\* Nothing waits outside the loops.
LEMMA NothingWaits ==
  /\ NoBve \in [maxdegree : Nat, degree_variables : [0 .. NoBve.maxdegree -> SUBSET Variables],
                eliminated_variables : SUBSET Variables]
  /\ \A d \in DOMAIN NoBve.degree_variables : NoBve.degree_variables[d] = {}
  /\ NoQueue \in Seq(Variables) /\ NoQueue \in Seq(ClauseId) /\ ToSet(NoQueue) = {}
<1>1. NoBve.maxdegree = 0 /\ NoBve.degree_variables = [d \in {0} |-> {}]
      /\ NoBve.eliminated_variables = {}
   BY DEF NoBve
<1>2. 0 .. 0 = {0}
   OBVIOUS
<1>3. NoBve \in [maxdegree : Nat, degree_variables : [0 .. NoBve.maxdegree -> SUBSET Variables],
                 eliminated_variables : SUBSET Variables]
   BY <1>1, <1>2 DEF NoBve
<1>4. NoQueue \in Seq(Variables) /\ NoQueue \in Seq(ClauseId) /\ ToSet(NoQueue) = {}
   BY EmptySeq DEF NoQueue, ToSet
<1> QED BY <1>1, <1>3, <1>4

-----------------------------------------------------------------------------
(* Boolean constraint propagation *)

\* What a step of bcp leaves of the object.
BcpKeeps ==
    /\ cnf'.clauses = cnf.clauses
    /\ cnf'.active_clauses \subseteq cnf.active_clauses
    /\ cnf'.data_variables = cnf.data_variables
    /\ cnf'.tseitin_variables = cnf.tseitin_variables
    /\ \A v \in Variables : Eliminated(cnf, v) => Eliminated(cnf', v)
    /\ \A a : Satisfies(cnf', a) <=> Satisfies(cnf, a)

\* A step of bcp keeps the object sound, its solutions, and its queue complete.
LEMMA BcpIterationStep ==
  ASSUME Structure, phase = "bcp", phase' = phase, BcpIteration(TRUE)
  PROVE  /\ Sound(cnf') /\ BcpKeeps
         /\ clause_queue' \in Seq(ClauseId)
         /\ QueueCoversUnsettled'
<1>1. /\ Sound(cnf) /\ clause_queue \in Seq(ClauseId) /\ clause_queue # << >>
      /\ ~cnf.has_conflict
      /\ \A cid \in cnf.active_clauses :
             propagate_clause(cnf, cid) # 0 => cid \in ToSet(clause_queue)
   BY StructureParts DEF ObjectOK, LoopsOK, BcpIteration, BcpPass, BcpConflict, BcpSatisfied,
      BcpUnit, BcpPop, BcpDone, QueueCoversUnsettled
<1> DEFINE cid == Head(clause_queue)
           waiting == Tail(clause_queue)
<1>2. /\ cid \in ClauseId /\ waiting \in Seq(ClauseId)
      /\ ToSet(clause_queue) = {cid} \cup ToSet(waiting)
   BY <1>1, ToSetHeadTail
<1>3. NextValue = IF cid \in cnf.active_clauses THEN propagate_clause(cnf, cid) ELSE 0
   BY DEF NextValue
<1>4. 0 # TAUTOLOGY /\ 0 # CONFLICT /\ TAUTOLOGY # CONFLICT
   BY DEF TAUTOLOGY, CONFLICT
<1> HIDE DEF cid, waiting
<1>5. CASE BcpPass
   <2>1. cnf' = cnf /\ clause_queue' = waiting /\ NextValue = 0
      BY <1>5 DEF BcpPass, waiting
   <2>2. \A c \in cnf.active_clauses : propagate_clause(cnf, c) # 0 => c \in ToSet(waiting)
      BY <1>1, <1>2, <1>3, <2>1
   <2> QED BY <1>1, <1>2, <2>1, <2>2 DEF BcpKeeps, QueueCoversUnsettled
<1>6. CASE BcpConflict
   <2>1. cnf' = trigger_conflict(cnf) /\ clause_queue' = waiting /\ NextValue = CONFLICT
      BY <1>6 DEF BcpConflict, waiting
   <2>2. cid \in cnf.active_clauses /\ FreeLits(cnf, cid) = {}
      BY <1>1, <1>3, <1>4, <2>1, PropagateFacts
   <2>3. /\ cnf' \in CnfType /\ SameClauses(cnf, cnf')
         /\ cnf'.variable_type = cnf.variable_type
         /\ cnf'.has_conflict
         /\ cnf'.unit_literals = cnf.unit_literals
         /\ cnf'.bcp_unit_literals = cnf.bcp_unit_literals
         /\ cnf'.uquantified_variables = cnf.uquantified_variables
         /\ cnf'.data_variables = cnf.data_variables
         /\ cnf'.tseitin_variables = cnf.tseitin_variables
      BY <1>1, <2>1, ConflictFacts DEF Sound
   <2>4. \A c : FreeLits(cnf', c) = FreeLits(cnf, c)
      BY <2>3, FreeLitsDepend DEF SameClauses
   <2>5. IndexExact(cnf')
      BY <1>1, <2>3, SameClausesFacts DEF Sound
   <2>6. Sound(cnf')
      BY <1>1, <2>2, <2>3, <2>4, <2>5 DEF Sound, SameClauses
   <2>7. BcpKeeps
      BY <2>3, <2>4 DEF BcpKeeps, Satisfies, SameClauses, Eliminated
   <2> QED BY <1>2, <2>1, <2>3, <2>6, <2>7 DEF QueueCoversUnsettled
<1>7. CASE BcpSatisfied
   <2>1. NextValue = TAUTOLOGY
      BY <1>7 DEF BcpSatisfied
   <2> QED BY <1>1, <1>3, <1>4, <2>1, PropagateFacts
<1>8. CASE BcpUnit(TRUE)
   <2> DEFINE lit == NextValue
              pushed == (cnf'.literal_clauses[-lit] \cap cnf'.active_clauses) \ ToSet(waiting)
   <2>1. /\ lit \notin {0, CONFLICT, TAUTOLOGY}
         /\ cnf' = PropagateUnit(cnf, cid, lit, TRUE)
         /\ \E order \in SetToSeqs(pushed) : clause_queue' = waiting \o order
      BY <1>8 DEF BcpUnit, cid, waiting
   <2> HIDE DEF lit
   <2>2. cid \in cnf.active_clauses /\ lit \in Literal /\ FreeLits(cnf, cid) = {lit}
      BY <1>1, <1>3, <2>1, PropagateFacts DEF lit
   <2>11. Sound(cnf') /\ UnitPropagated(cnf, cnf', lit)
      BY <1>1, <2>1, <2>2, PropagateUnitFacts
   <2>3. /\ Sound(cnf')
         /\ cnf'.clauses = cnf.clauses
         /\ cnf'.active_clauses = { c \in cnf.active_clauses : lit \notin Lits(cnf, c) }
         /\ \A c \in cnf'.active_clauses : FreeLits(cnf', c) = FreeLits(cnf, c) \ {-lit}
         /\ cnf'.variable_type = [cnf.variable_type EXCEPT ![IABS(lit)] = "ELIM"]
         /\ cnf'.has_conflict = cnf.has_conflict
         /\ cnf'.data_variables = cnf.data_variables
         /\ cnf'.tseitin_variables = cnf.tseitin_variables
         /\ \A a : Satisfies(cnf', a) <=> Satisfies(cnf, a)
      BY <2>11 DEF UnitPropagated
   <2>4. BcpKeeps
      <3>1. cnf.variable_type \in [Variables -> VariableType]
         BY <1>1 DEF Sound, CnfType
      <3>2. \A v \in Variables : Eliminated(cnf, v) => Eliminated(cnf', v)
         BY <2>3, <3>1 DEF Eliminated
      <3> QED BY <2>3, <3>2 DEF BcpKeeps
   <2>5. pushed = { c \in cnf'.active_clauses : -lit \in Lits(cnf', c) } \ ToSet(waiting)
      <3>1. -lit \in Literal
         BY <2>2, LiteralFacts
      <3> QED BY <2>3, <3>1 DEF Sound, IndexExact
   <2>6. pushed \in SUBSET DOMAIN cnf'.clauses /\ cnf' \in CnfType
      BY <2>3, <2>5 DEF Sound, IndexExact
   <2> HIDE DEF pushed
   <2>7. PICK order \in SetToSeqs(pushed) : clause_queue' = waiting \o order
      BY <2>1
   <2>8. order \in Seq(ClauseId) /\ ToSet(order) = pushed
      <3>1. IsFiniteSet(pushed) /\ pushed \subseteq ClauseId
         BY <2>6, ClausesFinite
      <3>2. order \in Seq(pushed) /\ ToSet(order) = pushed
         BY <3>1, SetToSeqsEnumerates
      <3> QED BY <3>1, <3>2
   <2>9. clause_queue' \in Seq(ClauseId) /\ ToSet(clause_queue') = ToSet(waiting) \cup pushed
      BY <1>2, <2>7, <2>8, ToSetConcat
   <2>10. ASSUME NEW c \in cnf'.active_clauses, propagate_clause(cnf', c) # 0
          PROVE  c \in ToSet(clause_queue')
      <3>1. CASE -lit \in Lits(cnf', c)
         BY <2>5, <2>9, <3>1
      <3>2. CASE -lit \notin Lits(cnf', c)
         <4>1. c \in cnf.active_clauses /\ lit \notin Lits(cnf, c)
            BY <2>3
         <4>2. FreeLits(cnf', c) = FreeLits(cnf, c)
            BY <2>3, <3>2 DEF FreeLits, Lits
         <4>3. propagate_clause(cnf, c) # 0
            BY <1>1, <2>3, <2>10, <4>1, <4>2, SameValue
         <4>4. c # cid
            BY <2>2, <4>1 DEF FreeLits
         <4> QED BY <1>1, <1>2, <2>9, <4>1, <4>3, <4>4
      <3> QED BY <3>1, <3>2
   <2> QED BY <2>3, <2>4, <2>9, <2>10 DEF QueueCoversUnsettled
<1> QED BY <1>5, <1>6, <1>7, <1>8 DEF BcpIteration

\* In the loop bcp only the queue is waiting.
LEMMA BcpStep ==
  ASSUME Structure, Bcp
  PROVE  Structure' /\ BcpKeeps
<1>1. /\ phase = "bcp" /\ BcpIteration(TRUE) /\ bve' = bve
      /\ phase' = phase /\ pvar_queue' = pvar_queue
      /\ input' = input /\ preprocess_level' = preprocess_level /\ tseitin_mode' = tseitin_mode
   BY DEF Bcp, BcpIteration, BcpPass, BcpConflict, BcpSatisfied, BcpUnit, BcpPop, options
<1>2. /\ Sound(cnf') /\ BcpKeeps
      /\ clause_queue' \in Seq(ClauseId)
      /\ QueueCoversUnsettled'
   BY <1>1, BcpIterationStep
<1>3. ObjectOK' /\ LoopsOK' /\ OptionsOK'
   BY <1>1, <1>2, StructureParts DEF ObjectOK, LoopsOK, OptionsOK, BcpKeeps, BveType
<1>4. WaitingVariables'
   <2>1. bve' = NoBve /\ pvar_queue' = NoQueue
      BY <1>1, StructureParts DEF LoopsOK
   <2>2. ToSet(pvar_queue') = {} /\ \A d \in DOMAIN bve'.degree_variables : bve'.degree_variables[d] = {}
      BY <2>1, NothingWaits
   <2> QED BY <2>2 DEF WaitingVariables
<1>5. Structure' <=> ObjectOK' /\ LoopsOK' /\ OptionsOK' /\ WaitingVariables' /\ QueueCoversUnsettled'
   BY StructureParts, PTL
<1> QED BY <1>2, <1>3, <1>4, <1>5

-----------------------------------------------------------------------------
(* Bounded variable elimination *)

\* Which variable bve takes.
LEMMA EligibleFacts ==
  ASSUME Structure, NEW d \in 0 .. bve.maxdegree, NEW var \in Eligible(d),
         NEW lit, lit = RarerLiteral(cnf, var)
  PROVE  /\ var \in Variables /\ var \notin DataVariables /\ ~Eliminated(cnf, var)
         /\ lit \in {var, -var} /\ IABS(lit) = var
         /\ d = 0 => cnf.literal_clauses[lit] = {}
<1>1. /\ Sound(cnf) /\ cnf \in CnfType /\ IndexExact(cnf)
      /\ bve \in BveType /\ WaitingVariables
   BY StructureParts DEF ObjectOK, LoopsOK, Sound
<1>2. /\ bve.degree_variables \in [0 .. bve.maxdegree -> SUBSET Variables]
      /\ var \in bve.degree_variables[d] \ bve.eliminated_variables
      /\ Occurrences(cnf, var) = d \/ Occurrences(cnf, -var) = d
   BY <1>1 DEF BveType, Eligible
<1>3. var \in Variables /\ var \notin DataVariables /\ ~Eliminated(cnf, var)
   BY <1>1, <1>2 DEF WaitingVariables
<1>4. lit \in {var, -var} /\ IABS(lit) = var
   BY <1>3, VariableFacts DEF RarerLiteral
<1>5. ASSUME NEW l \in {var, -var}
      PROVE  /\ Occurrences(cnf, l) \in Nat
             /\ Occurrences(cnf, l) = 0 <=> cnf.literal_clauses[l] = {}
   <2>1. l \in Literal
      BY <1>3, VariableFacts
   <2>2. cnf.literal_clauses[l] \in SUBSET DOMAIN cnf.clauses
      BY <1>1, <2>1, ContainingFacts
   <2>3. IsFiniteSet(cnf.literal_clauses[l])
      BY <1>1, <2>2, ClausesFinite
   <2> QED BY <2>3, FS_CardinalityType, FS_EmptySet DEF Occurrences
<1>6. d = 0 => cnf.literal_clauses[lit] = {}
   BY <1>2, <1>4, <1>5 DEF RarerLiteral
<1> QED BY <1>3, <1>4, <1>6

\* A variable that has waited too long is dropped from its bucket.
LEMMA BveSkipStep ==
  ASSUME Structure, phase \in {"bve", "rebve"}, BveSkip,
         UNCHANGED << options, phase, pvar_queue >>
  PROVE  Structure' /\ cnf' = cnf
<1>a. PICK d \in 0 .. bve.maxdegree :
         \E var \in Eligible(d), met \in SUBSET bve.degree_variables[d] :
             /\ cnf' = cnf /\ clause_queue' = clause_queue
             /\ bve' = [bve EXCEPT !.degree_variables = TakeVariable(var, d, met)]
   BY DEF BveSkip, BveTake
<1>1. PICK var \in Eligible(d), met \in SUBSET bve.degree_variables[d] :
         /\ cnf' = cnf /\ clause_queue' = clause_queue
         /\ bve' = [bve EXCEPT !.degree_variables = TakeVariable(var, d, met)]
   BY <1>a
<1>2. /\ phase' = phase /\ pvar_queue' = pvar_queue
      /\ input' = input /\ preprocess_level' = preprocess_level /\ tseitin_mode' = tseitin_mode
   BY DEF options
<1>3. ObjectOK /\ LoopsOK /\ OptionsOK /\ WaitingVariables
   BY StructureParts
<1>4. /\ bve.degree_variables \in [0 .. bve.maxdegree -> SUBSET Variables]
      /\ bve \in BveType
   BY <1>3 DEF LoopsOK, BveType
<1>5. /\ TakeVariable(var, d, met) \in [0 .. bve.maxdegree -> SUBSET Variables]
      /\ \A e \in 0 .. bve.maxdegree : TakeVariable(var, d, met)[e] \subseteq bve.degree_variables[e]
   BY <1>4 DEF TakeVariable
<1> DEFINE taken == TakeVariable(var, d, met)
<1> HIDE DEF taken
<1>6. /\ bve'.maxdegree = bve.maxdegree /\ bve'.degree_variables = taken
      /\ bve'.eliminated_variables = bve.eliminated_variables
      /\ bve' \in BveType'
   BY <1>1, <1>4, <1>5 DEF taken, BveType
<1>7. WaitingVariables'
   <2>1. \A e \in DOMAIN bve'.degree_variables :
             e \in DOMAIN bve.degree_variables
                /\ bve'.degree_variables[e] \subseteq bve.degree_variables[e]
      BY <1>4, <1>5, <1>6 DEF taken
   <2> QED BY <1>1, <1>2, <1>3, <1>6, <2>1 DEF WaitingVariables
<1>8. ObjectOK' /\ LoopsOK' /\ OptionsOK' /\ QueueCoversUnsettled'
   BY <1>1, <1>2, <1>3, <1>6 DEF ObjectOK, LoopsOK, OptionsOK, QueueCoversUnsettled
<1>9. Structure' <=> ObjectOK' /\ LoopsOK' /\ OptionsOK' /\ WaitingVariables' /\ QueueCoversUnsettled'
   BY StructureParts, PTL
<1> QED BY <1>1, <1>7, <1>8, <1>9

\* What an elimination does to the object.
BveKeeps ==
    \E new : \E var \in Variables : \E lit \in {var, -var} :
        /\ var \notin DataVariables
        /\ ~Eliminated(cnf, var)
        /\ Resolved(cnf, cnf', var, lit, new)

\* An elimination keeps the object sound and what waits in the buckets.
LEMMA BveEliminateStep ==
  ASSUME Structure, phase \in {"bve", "rebve"}, BveEliminate(TRUE),
         UNCHANGED << options, phase, pvar_queue >>
  PROVE  Structure' /\ BveKeeps
<1> DEFINE added(var, e) ==
               { v \in ChangeVariables(cnf, RarerLiteral(cnf, var)) : Degree(cnf', v) = e }
           buckets(d, var, met) ==
               [e \in 0 .. bve.maxdegree |-> TakeVariable(var, d, met)[e] \cup added(var, e)]
           taken(d, var, met) ==
               /\ cnf' = Eliminate(cnf, var, RarerLiteral(cnf, var), d, TRUE)
               /\ clause_queue' = clause_queue
               /\ bve' = [bve EXCEPT !.degree_variables = buckets(d, var, met),
                                     !.eliminated_variables = @ \cup {var}]
<1>a. PICK d \in 0 .. bve.maxdegree :
         \E var \in Eligible(d), met \in SUBSET bve.degree_variables[d] : taken(d, var, met)
   BY DEF BveEliminate, BveTake
<1>1. PICK var \in Eligible(d), met \in SUBSET bve.degree_variables[d] : taken(d, var, met)
   BY <1>a
<1> DEFINE lit == RarerLiteral(cnf, var)
           next == buckets(d, var, met)
<1>2. /\ phase' = phase /\ pvar_queue' = pvar_queue
      /\ input' = input /\ preprocess_level' = preprocess_level /\ tseitin_mode' = tseitin_mode
   BY DEF options
<1>3. ObjectOK /\ LoopsOK /\ OptionsOK /\ WaitingVariables /\ Sound(cnf)
      /\ cnf.data_variables = DataVariables
   BY StructureParts DEF ObjectOK
<1>4. /\ var \in Variables /\ var \notin DataVariables /\ ~Eliminated(cnf, var)
      /\ lit \in {var, -var} /\ IABS(lit) = var
      /\ d = 0 => cnf.literal_clauses[lit] = {}
   BY EligibleFacts
<1>5. next = [e \in 0 .. bve.maxdegree |-> TakeVariable(var, d, met)[e] \cup added(var, e)]
   OBVIOUS
<1>b. /\ cnf' = Eliminate(cnf, var, lit, d, TRUE)
      /\ clause_queue' = clause_queue
      /\ bve' = [bve EXCEPT !.degree_variables = next, !.eliminated_variables = @ \cup {var}]
   BY <1>1
<1> HIDE DEF taken, next, buckets, lit
<1>6. PICK new : Resolved(cnf, cnf', var, lit, new)
   BY <1>b, <1>3, <1>4, EliminateFacts DEF Eliminated
<1>7. /\ cnf'.data_variables = cnf.data_variables
      /\ cnf'.tseitin_variables = cnf.tseitin_variables
      /\ Sound(cnf')
      /\ \A v \in Variables : Eliminated(cnf', v) <=> v = var \/ Eliminated(cnf, v)
   BY <1>3, <1>4, <1>6, ResolvedSound DEF Resolved, Eliminated
<1>8. /\ bve.degree_variables \in [0 .. bve.maxdegree -> SUBSET Variables]
      /\ bve \in BveType
   BY <1>3 DEF LoopsOK, BveType
<1>9. \A v \in ChangeVariables(cnf, lit) :
          v \in Variables /\ v \notin DataVariables /\ ~Eliminated(cnf, v) /\ v # var
   <2> DEFINE cids == cnf.literal_clauses[lit] \cup cnf.literal_clauses[-lit]
              found == ProjectionVariables(cnf, cids)
   <2>1. cids \in SUBSET cnf.active_clauses
      <3>1. lit \in Literal /\ -lit \in Literal /\ cnf \in CnfType /\ IndexExact(cnf)
         BY <1>3, <1>4, VariableFacts DEF Sound
      <3> QED BY <3>1, ContainingFacts
   <2> HIDE DEF cids
   <2>2. found \in SUBSET Variables /\ found \cap cnf.data_variables = {}
         /\ \A v \in found : cnf.variable_type[v] # "ELIM"
      BY <1>3, <2>1, ProjectionVariablesFacts
   <2>3. ChangeVariables(cnf, lit) = found \ {var}
      BY <1>4 DEF ChangeVariables, cids
   <2> HIDE DEF found
   <2> QED BY <1>3, <2>2, <2>3 DEF Eliminated
<1>10. /\ next \in [0 .. bve.maxdegree -> SUBSET Variables]
       /\ \A e \in 0 .. bve.maxdegree : next[e] \subseteq bve.degree_variables[e] \cup added(var, e)
   <2>1. \A e \in 0 .. bve.maxdegree : TakeVariable(var, d, met)[e] \subseteq bve.degree_variables[e]
      BY <1>8 DEF TakeVariable
   <2>2. \A e : added(var, e) \subseteq Variables
      BY <1>9 DEF lit
   <2> HIDE DEF added
   <2> QED BY <1>5, <1>8, <2>1, <2>2
<1>11. /\ bve'.maxdegree = bve.maxdegree /\ bve'.degree_variables = next
       /\ bve'.eliminated_variables = bve.eliminated_variables \cup {var}
       /\ bve' \in BveType'
   BY <1>b, <1>4, <1>8, <1>10, ZenonT(60) DEF BveType
<1>12. WaitingVariables'
   <2>1. \A e : \A v \in added(var, e) :
             v \in Variables /\ v \notin DataVariables /\ ~Eliminated(cnf, v) /\ v # var
      BY <1>9 DEF lit
   <2> HIDE DEF added
   <2>2. ASSUME NEW e \in DOMAIN bve'.degree_variables
         PROVE  /\ bve'.degree_variables[e] \cap DataVariables = {}
                /\ \A v \in bve'.degree_variables[e] \ bve'.eliminated_variables :
                       ~Eliminated(cnf', v)
      <3>1. /\ e \in DOMAIN bve.degree_variables
            /\ bve'.degree_variables[e] \subseteq bve.degree_variables[e] \cup added(var, e)
            /\ bve'.degree_variables[e] \subseteq Variables
         BY <1>8, <1>10, <1>11
      <3>2. /\ bve.degree_variables[e] \cap DataVariables = {}
            /\ \A v \in bve.degree_variables[e] \ bve.eliminated_variables : ~Eliminated(cnf, v)
         BY <1>3, <3>1 DEF WaitingVariables
      <3> QED BY <1>7, <1>11, <2>1, <3>1, <3>2
   <2>3. ToSet(pvar_queue') = {}
      <3>1. pvar_queue' = NoQueue
         BY <1>2, <1>3 DEF LoopsOK
      <3> QED BY <3>1, NothingWaits
   <2> QED BY <2>2, <2>3 DEF WaitingVariables
<1>13. ObjectOK' /\ LoopsOK' /\ OptionsOK' /\ QueueCoversUnsettled'
   BY <1>b, <1>2, <1>3, <1>7, <1>11 DEF ObjectOK, LoopsOK, OptionsOK, QueueCoversUnsettled
<1>14. Structure' <=> ObjectOK' /\ LoopsOK' /\ OptionsOK' /\ WaitingVariables' /\ QueueCoversUnsettled'
   BY StructureParts, PTL
<1>15. BveKeeps
   BY <1>4, <1>6 DEF BveKeeps
<1> QED BY <1>12, <1>13, <1>14, <1>15

-----------------------------------------------------------------------------
(* From one call of the constructor to the next *)

\* The scan that opens bve finds variables that can be eliminated.
LEMMA BveScanFacts ==
  ASSUME Sound(cnf), NEW m \in Nat, NEW scan, scan = BveScan(cnf, m)
  PROVE  /\ scan \in [maxdegree            : Nat,
                      degree_variables     : [0 .. scan.maxdegree -> SUBSET Variables],
                      eliminated_variables : SUBSET Variables]
         /\ \A d \in DOMAIN scan.degree_variables : \A v \in scan.degree_variables[d] :
                v \notin cnf.data_variables /\ ~Eliminated(cnf, v)
<1> DEFINE found == ProjectionVariables(cnf, cnf.active_clauses)
           buckets == [d \in 0 .. m |-> { v \in found : Degree(cnf, v) = d }]
<1>1. found \in SUBSET Variables /\ found \cap cnf.data_variables = {}
      /\ \A v \in found : cnf.variable_type[v] # "ELIM"
   BY ProjectionVariablesFacts
<1>2. scan = [maxdegree |-> m, degree_variables |-> buckets, eliminated_variables |-> {}]
   BY DEF BveScan
<1> HIDE DEF found
<1>3. buckets \in [0 .. m -> SUBSET Variables]
      /\ \A d \in 0 .. m : buckets[d] \subseteq found
   BY <1>1
<1> HIDE DEF buckets
<1>4. scan.maxdegree = m /\ scan.degree_variables = buckets
   BY <1>2
<1>5. scan \in [maxdegree            : Nat,
                degree_variables     : [0 .. scan.maxdegree -> SUBSET Variables],
                eliminated_variables : SUBSET Variables]
   BY <1>2, <1>3, <1>4
<1>6. DOMAIN scan.degree_variables = 0 .. m
   BY <1>3, <1>4
<1> QED BY <1>1, <1>3, <1>4, <1>5, <1>6 DEF Eliminated

\* So does the scan that opens classification.
LEMMA PvarQueuesFacts ==
  ASSUME NEW s, Sound(s), NEW q \in PvarQueues(s)
  PROVE  /\ q \in Seq(Variables)
         /\ \A v \in ToSet(q) : v \notin s.data_variables /\ ~Eliminated(s, v)
<1> DEFINE waiting == { cid \in s.active_clauses : ~skip_clause(s, cid) }
           found == ProjectionVariables(s, waiting)
<1>1. waiting \in SUBSET s.active_clauses
   OBVIOUS
<1>2. q \in SetToSeqs(found)
   BY DEF PvarQueues
<1> HIDE DEF waiting
<1>3. /\ found \in SUBSET Variables /\ IsFiniteSet(found)
      /\ found \cap s.data_variables = {}
      /\ \A v \in found : s.variable_type[v] # "ELIM"
   BY <1>1, ProjectionVariablesFacts
<1> HIDE DEF found
<1>4. q \in Seq(found) /\ ToSet(q) = found
   BY <1>2, <1>3, SetToSeqsEnumerates
<1> QED BY <1>3, <1>4 DEF Eliminated

\* The next call finds the formula as the last one left it.
BeginKeeps ==
    /\ SameFormula(cnf, cnf')
    /\ cnf'.tseitin_variables \subseteq cnf.tseitin_variables

\* Entering a call other than the first.
LEMMA BeginStep ==
  ASSUME Structure, NEW next \in {"bve", "classify", "rebve", "compile"},
         next = "rebve" => preprocess_level >= 4,
         Begin(next)
  PROVE  Structure' /\ BeginKeeps
<1>1. /\ Sound(cnf) /\ cnf \in CnfType /\ cnf.data_variables = DataVariables
      /\ cnf.tseitin_variables \cap DataVariables = {}
      /\ OptionsOK /\ preprocess_level \in Nat
   BY StructureParts, PreprocessAssumption DEF ObjectOK, OptionsOK, Sound
<1>2. /\ phase' = next /\ clause_queue' = NoQueue /\ bve' = BveAtStart(cnf, next)
      /\ pvar_queue' \in IF next = "classify" THEN PvarQueues(cnf) ELSE {NoQueue}
      /\ input' = input /\ preprocess_level' = preprocess_level /\ tseitin_mode' = tseitin_mode
      /\ cnf' = IF next = "classify" THEN [cnf EXCEPT !.tseitin_variables = {}] ELSE cnf
   BY DEF Begin, options
<1>3. SameFormula(cnf, cnf') /\ cnf'.tseitin_variables \subseteq cnf.tseitin_variables
      /\ (next = "classify" => cnf'.tseitin_variables = {})
   <2>1. CASE next = "classify"
      <3>1. Records(cnf, cnf', {})
         BY <1>2, <2>1 DEF Records
      <3> QED BY <1>1, <3>1, RecordFacts
   <2>2. CASE next # "classify"
      <3>1. cnf' = cnf
         BY <1>2, <2>2
      <3> QED BY <1>1, <2>2, <3>1 DEF SameFormula, SameClauses
   <2> QED BY <2>1, <2>2
<1>4. Sound(cnf') /\ cnf'.data_variables = DataVariables
   BY <1>1, <1>3, SameFormulaFacts DEF SameFormula
<1>5. ObjectOK'
   BY <1>1, <1>2, <1>3, <1>4 DEF ObjectOK
<1>6. \A v \in Variables : Eliminated(cnf', v) <=> Eliminated(cnf, v)
   BY <1>3 DEF SameFormula, Eliminated
<1>7. /\ bve' \in BveType'
      /\ next \notin {"bve", "rebve"} => bve' = NoBve
      /\ \A d \in DOMAIN bve'.degree_variables : bve'.degree_variables[d] \subseteq Variables
             /\ \A v \in bve'.degree_variables[d] : v \notin DataVariables /\ ~Eliminated(cnf, v)
   <2>1. CASE next \in {"bve", "rebve"}
      <3>1. PICK m \in Nat : bve' = BveScan(cnf, m)
         <4>1. CASE next = "bve"
            <5>1. bve' = BveScan(cnf, FirstMaxdegree) /\ FirstMaxdegree \in Nat
               BY <1>2, <4>1 DEF BveAtStart, FirstMaxdegree
            <5> QED BY <5>1
         <4>2. CASE next = "rebve"
            <5>1. bve' = BveScan(cnf, preprocess_level - 2) /\ preprocess_level - 2 \in Nat
               BY <1>1, <1>2, <4>2 DEF BveAtStart
            <5> QED BY <5>1
         <4> QED BY <2>1, <4>1, <4>2
      <3>2. /\ bve' \in [maxdegree            : Nat,
                         degree_variables     : [0 .. bve'.maxdegree -> SUBSET Variables],
                         eliminated_variables : SUBSET Variables]
            /\ \A d \in DOMAIN bve'.degree_variables : \A v \in bve'.degree_variables[d] :
                   v \notin cnf.data_variables /\ ~Eliminated(cnf, v)
         BY <1>1, <3>1, BveScanFacts
      <3>3. bve'.degree_variables \in [0 .. bve'.maxdegree -> SUBSET Variables]
         BY <3>2
      <3> QED BY <1>1, <2>1, <3>2, <3>3 DEF BveType
   <2>2. CASE next \notin {"bve", "rebve"}
      <3>1. bve' = NoBve
         BY <1>2, <2>2 DEF BveAtStart
      <3> QED BY <3>1, NothingWaits DEF BveType
   <2> QED BY <2>1, <2>2
<1>8. /\ pvar_queue' \in Seq(Variables)
      /\ next # "classify" => pvar_queue' = NoQueue
      /\ \A v \in ToSet(pvar_queue') : v \notin DataVariables /\ ~Eliminated(cnf, v)
   <2>1. CASE next = "classify"
      <3>1. pvar_queue' \in PvarQueues(cnf)
         BY <1>2, <2>1
      <3> QED BY <1>1, <2>1, <3>1, PvarQueuesFacts
   <2>2. CASE next # "classify"
      <3>1. pvar_queue' = NoQueue
         BY <1>2, <2>2
      <3> QED BY <3>1, NothingWaits
   <2> QED BY <2>1, <2>2
<1>9. LoopsOK'
   BY <1>2, <1>7, <1>8, NothingWaits DEF LoopsOK, Phases
<1>10. OptionsOK'
   BY <1>1, <1>2 DEF OptionsOK
<1>11. WaitingVariables'
   <2>1. \A v \in ToSet(pvar_queue') : v \in Variables
      BY <1>8, ToSetSeq
   <2> QED BY <1>6, <1>7, <1>8, <2>1 DEF WaitingVariables
<1>12. QueueCoversUnsettled'
   BY <1>2 DEF QueueCoversUnsettled
<1>13. Structure' <=> ObjectOK' /\ LoopsOK' /\ OptionsOK' /\ WaitingVariables' /\ QueueCoversUnsettled'
   BY StructureParts, PTL
<1> QED BY <1>3, <1>5, <1>9, <1>10, <1>11, <1>12, <1>13 DEF BeginKeeps

\* The constructor never returns to a call it has left, and enters the second
\* elimination only on the levels that ask for it.
LEMMA FinishStep ==
  ASSUME Structure, FinishBcp \/ FinishBve \/ FinishClassify \/ FinishRebve
  PROVE  Structure' /\ BeginKeeps
<1>1. /\ AfterClassify \in {"rebve", "compile"}
      /\ AfterClassify = "rebve" => preprocess_level >= 4
   BY DEF AfterClassify
<1>2. /\ AfterBve \in {"classify", "rebve", "compile"}
      /\ AfterBve = "rebve" => preprocess_level >= 4
   BY <1>1 DEF AfterBve
<1>3. /\ AfterBcp \in {"bve", "classify", "rebve", "compile"}
      /\ AfterBcp = "rebve" => preprocess_level >= 4
   BY <1>2 DEF AfterBcp
<1>4. PICK next \in {"bve", "classify", "rebve", "compile"} :
         (next = "rebve" => preprocess_level >= 4) /\ Begin(next)
   BY <1>1, <1>2, <1>3 DEF FinishBcp, FinishBve, FinishClassify, FinishRebve
<1> QED BY <1>4, BeginStep

-----------------------------------------------------------------------------
(* Classification *)

\* The variable at the head of the queue.
LEMMA HeadFacts ==
  ASSUME Structure, ClassifyPop, NEW var, var = Head(pvar_queue)
  PROVE  /\ var \in Variables /\ var \notin DataVariables /\ ~Eliminated(cnf, var)
         /\ Tail(pvar_queue) \in Seq(Variables)
         /\ \A v \in ToSet(Tail(pvar_queue)) :
                v \in Variables /\ v \notin DataVariables /\ ~Eliminated(cnf, v)
<1>1. pvar_queue \in Seq(Variables) /\ pvar_queue # << >> /\ WaitingVariables
   BY StructureParts DEF LoopsOK, ClassifyPop
<1>2. /\ var \in Variables /\ var \in ToSet(pvar_queue)
      /\ Tail(pvar_queue) \in Seq(Variables)
      /\ ToSet(pvar_queue) = {var} \cup ToSet(Tail(pvar_queue))
   BY <1>1, ToSetHeadTail
<1>3. ToSet(Tail(pvar_queue)) \subseteq Variables
   BY <1>2, ToSetSeq
<1> QED BY <1>1, <1>2, <1>3 DEF WaitingVariables

\* A step of classification that leaves the loops of bcp and bve alone.
LEMMA ClassifyStructure ==
  ASSUME Structure, ClassifyPop,
         Sound(cnf'), cnf'.data_variables = DataVariables,
         cnf'.tseitin_variables \cap DataVariables = {},
         \A v \in cnf'.tseitin_variables : ~Eliminated(cnf', v),
         \A v \in Variables : Eliminated(cnf', v) <=> Eliminated(cnf, v),
         pvar_queue' \in Seq(Variables),
         \A v \in ToSet(pvar_queue') : v \in Variables /\ v \notin DataVariables /\ ~Eliminated(cnf, v)
  PROVE  Structure'
<1>1. /\ phase = "classify" /\ phase' = phase
      /\ clause_queue' = clause_queue /\ bve' = bve
      /\ input' = input /\ preprocess_level' = preprocess_level /\ tseitin_mode' = tseitin_mode
   BY DEF ClassifyPop, options
<1>2. LoopsOK /\ OptionsOK /\ bve = NoBve
   BY <1>1, StructureParts DEF LoopsOK
<1>3. ObjectOK'
   BY <1>1 DEF ObjectOK
<1>4. LoopsOK' /\ OptionsOK'
   BY <1>1, <1>2 DEF LoopsOK, OptionsOK, BveType
<1>5. WaitingVariables'
   <2>1. \A d \in DOMAIN bve'.degree_variables : bve'.degree_variables[d] = {}
      BY <1>1, <1>2, NothingWaits
   <2> QED BY <2>1 DEF WaitingVariables
<1>6. QueueCoversUnsettled'
   BY <1>1 DEF QueueCoversUnsettled
<1>7. Structure' <=> ObjectOK' /\ LoopsOK' /\ OptionsOK' /\ WaitingVariables' /\ QueueCoversUnsettled'
   BY StructureParts, PTL
<1> QED BY <1>3, <1>4, <1>5, <1>6, <1>7

\* Recording a new Tseitin variable.
LEMMA AcceptStep ==
  ASSUME Structure, ClassifyPop, NEW var, var = Head(pvar_queue),
         NEW s, Sound(s), s.data_variables = DataVariables,
         s.tseitin_variables = cnf.tseitin_variables,
         \A v \in Variables : s.variable_type[v] = "ELIM" <=> cnf.variable_type[v] = "ELIM",
         Accept(s, var)
  PROVE  /\ Structure'
         /\ SameFormula(s, cnf')
         /\ cnf'.tseitin_variables = cnf.tseitin_variables \cup {var}
<1>1. /\ var \in Variables /\ var \notin DataVariables /\ ~Eliminated(cnf, var)
      /\ Tail(pvar_queue) \in Seq(Variables)
      /\ \A v \in ToSet(Tail(pvar_queue)) :
             v \in Variables /\ v \notin DataVariables /\ ~Eliminated(cnf, v)
   BY HeadFacts
<1>2. /\ Sound(cnf) /\ cnf.data_variables = DataVariables
      /\ cnf.tseitin_variables \in SUBSET Variables
      /\ cnf.tseitin_variables \cap DataVariables = {}
      /\ \A v \in cnf.tseitin_variables : ~Eliminated(cnf, v)
   BY StructureParts DEF ObjectOK, ClassifyPop, Sound, CnfType
<1>3. cnf' = [s EXCEPT !.tseitin_variables = cnf.tseitin_variables \cup {var}]
   BY DEF Accept
<1>4. /\ SameFormula(s, cnf')
      /\ cnf'.tseitin_variables = cnf.tseitin_variables \cup {var}
   <2> DEFINE T == cnf.tseitin_variables \cup {var}
   <2>1. s \in CnfType /\ T \in SUBSET Variables /\ Records(s, cnf', T)
      BY <1>1, <1>2, <1>3 DEF Sound, Records
   <2> HIDE DEF T
   <2>2. SameFormula(s, cnf') /\ cnf'.tseitin_variables = T
      BY <2>1, RecordFacts
   <2> QED BY <2>2 DEF T
<1>5. Sound(cnf') /\ cnf'.data_variables = DataVariables
   BY <1>4, SameFormulaFacts DEF SameFormula
<1>6. \A v \in Variables : Eliminated(cnf', v) <=> Eliminated(cnf, v)
   BY <1>4 DEF SameFormula, Eliminated
<1> DEFINE fanout == FanoutVariables(cnf, var)
           back == fanout \ ToSet(Tail(pvar_queue))
<1>7. PICK order \in SetToSeqs(back) : pvar_queue' = Tail(pvar_queue) \o order
   BY DEF Accept
<1>8. /\ fanout \in SUBSET Variables /\ IsFiniteSet(fanout)
      /\ fanout \cap DataVariables = {}
      /\ \A v \in fanout : ~Eliminated(cnf, v)
   BY <1>1, <1>2, FanoutFacts DEF Eliminated
<1> HIDE DEF fanout
<1>9. back \in SUBSET fanout /\ IsFiniteSet(back)
   BY <1>8, FS_Subset
<1> HIDE DEF back
<1>10. order \in Seq(Variables) /\ ToSet(order) = back
   <2>1. order \in Seq(back) /\ ToSet(order) = back
      BY <1>7, <1>9, SetToSeqsEnumerates
   <2> QED BY <1>8, <1>9, <2>1
<1>11. pvar_queue' \in Seq(Variables) /\ ToSet(pvar_queue') = ToSet(Tail(pvar_queue)) \cup back
   BY <1>1, <1>7, <1>10, ToSetConcat, ZenonT(60)
<1>12. Structure'
   <2>1. \A v \in ToSet(pvar_queue') : v \in Variables /\ v \notin DataVariables /\ ~Eliminated(cnf, v)
      BY <1>1, <1>8, <1>9, <1>11
   <2>2. \A v \in cnf'.tseitin_variables : ~Eliminated(cnf', v)
      BY <1>1, <1>2, <1>4, <1>6
   <2>3. cnf'.tseitin_variables \cap DataVariables = {}
      BY <1>1, <1>2, <1>4
   <2> QED BY <1>5, <1>6, <1>11, <2>1, <2>2, <2>3, ClassifyStructure
<1> QED BY <1>4, <1>12

\* What a step of classification does to the object: it records a variable that
\* passed the test, or one whose blocked clauses it has added.
Detects ==
    \E var \in Variables :
        /\ var \notin DataVariables /\ ~Eliminated(cnf, var)
        /\ IsTseitin(cnf, var)
        /\ SameFormula(cnf, cnf')
        /\ cnf'.tseitin_variables = cnf.tseitin_variables \cup {var}

Promotes ==
    \E s, new : \E lit \in Literal :
        /\ IABS(lit) \notin DataVariables /\ ~Eliminated(cnf, IABS(lit))
        /\ CanPromote(cnf, lit)
        /\ Promoted(cnf, s, lit, new)
        /\ SameFormula(s, cnf')
        /\ cnf'.tseitin_variables = cnf.tseitin_variables \cup {IABS(lit)}

LEMMA DetectStep ==
  ASSUME Structure, ClassifyDetect
  PROVE  Structure' /\ Detects
<1> DEFINE var == Head(pvar_queue)
           s == IF cnf.variable_type[var] = "TSEITIN_PROMOTE" THEN cnf
                ELSE set_variable_type(cnf, var, "TSEITIN_DETECT")
<1>1. ClassifyPop /\ IsTseitin(cnf, var) /\ Accept(s, var)
   BY DEF ClassifyDetect
<1>2. var \in Variables /\ var \notin DataVariables /\ ~Eliminated(cnf, var)
   BY <1>1, HeadFacts
<1>3. Sound(cnf) /\ cnf \in CnfType /\ cnf.data_variables = DataVariables
   BY StructureParts DEF ObjectOK, Sound
<1>4. SameFormula(cnf, s) /\ s.tseitin_variables = cnf.tseitin_variables
   <2>1. CASE cnf.variable_type[var] = "TSEITIN_PROMOTE"
      BY <1>3, <2>1 DEF SameFormula, SameClauses
   <2>2. CASE cnf.variable_type[var] # "TSEITIN_PROMOTE"
      <3>1. s = set_variable_type(cnf, var, "TSEITIN_DETECT")
         BY <2>2
      <3> HIDE DEF s, var
      <3> QED BY <1>2, <1>3, <3>1, RetypeFacts DEF Eliminated, VariableType
   <2> QED BY <2>1, <2>2
<1>5. var = Head(pvar_queue)
   OBVIOUS
<1> HIDE DEF s, var
<1>6. Sound(s)
   BY <1>3, <1>4, SameFormulaFacts
<1>7. /\ Structure' /\ SameFormula(s, cnf')
      /\ cnf'.tseitin_variables = cnf.tseitin_variables \cup {var}
   <2>1. s.data_variables = DataVariables
         /\ \A v \in Variables : s.variable_type[v] = "ELIM" <=> cnf.variable_type[v] = "ELIM"
      BY <1>3, <1>4 DEF SameFormula
   <2> QED BY <1>1, <1>4, <1>5, <1>6, <2>1, AcceptStep
<1>8. SameFormula(cnf, cnf')
   BY <1>4, <1>7 DEF SameFormula, SameClauses
<1> QED BY <1>1, <1>2, <1>7, <1>8 DEF Detects

LEMMA PromoteStep ==
  ASSUME Structure, ClassifyPromote
  PROVE  Structure' /\ Promotes
<1> DEFINE var == Head(pvar_queue)
           lit == PromotedLiteral(cnf, var)
           s == blocked_clause_expand(cnf, lit)
<1>1. /\ ClassifyPop /\ Accept(s, var)
      /\ CanPromote(cnf, -var) \/ CanPromote(cnf, var)
   BY DEF ClassifyPromote
<1>2. var \in Variables /\ var \notin DataVariables /\ ~Eliminated(cnf, var)
   BY <1>1, HeadFacts
<1>3. lit \in {var, -var} /\ CanPromote(cnf, lit)
   BY <1>1 DEF PromotedLiteral
<1>4. var = Head(pvar_queue) /\ s = blocked_clause_expand(cnf, lit)
   OBVIOUS
<1> HIDE DEF s, var, lit
<1>5. lit \in Literal /\ IABS(lit) = var
   BY <1>2, <1>3, VariableFacts
<1>6. Sound(cnf) /\ cnf.data_variables = DataVariables
   BY StructureParts DEF ObjectOK
<1>7. PICK new : Promoted(cnf, s, lit, new)
   BY <1>2, <1>3, <1>4, <1>5, <1>6, PromoteFacts DEF Eliminated
<1>8. /\ Sound(s) /\ s.data_variables = DataVariables
      /\ s.tseitin_variables = cnf.tseitin_variables
      /\ \A v \in Variables : s.variable_type[v] = "ELIM" <=> cnf.variable_type[v] = "ELIM"
   <2>1. Sound(s)
      BY <1>2, <1>5, <1>6, <1>7, PromotedSound DEF Eliminated
   <2> QED BY <1>6, <1>7, <2>1 DEF Promoted, SameAssignment
<1>9. /\ Structure' /\ SameFormula(s, cnf')
      /\ cnf'.tseitin_variables = cnf.tseitin_variables \cup {var}
   BY <1>1, <1>4, <1>8, AcceptStep
<1>10. Promotes
   BY <1>2, <1>3, <1>5, <1>7, <1>9 DEF Promotes
<1> QED BY <1>9, <1>10

\* A variable that is neither is dropped.
LEMMA FailStep ==
  ASSUME Structure, ClassifyFail
  PROVE  Structure' /\ cnf' = cnf
<1>1. ClassifyPop /\ pvar_queue' = Tail(pvar_queue) /\ cnf' = cnf
   BY DEF ClassifyFail
<1>2. /\ Tail(pvar_queue) \in Seq(Variables)
      /\ \A v \in ToSet(Tail(pvar_queue)) :
             v \in Variables /\ v \notin DataVariables /\ ~Eliminated(cnf, v)
   BY <1>1, HeadFacts
<1>3. /\ Sound(cnf) /\ cnf.data_variables = DataVariables
      /\ cnf.tseitin_variables \cap DataVariables = {}
      /\ \A v \in cnf.tseitin_variables : ~Eliminated(cnf, v)
   BY <1>1, StructureParts DEF ObjectOK, ClassifyPop
<1>4. Structure'
   BY <1>1, <1>2, <1>3, ClassifyStructure
<1> QED BY <1>1, <1>4

-----------------------------------------------------------------------------
(* The imported formula, and the structural invariant *)

\* The object after the import: every clause of the file is active and none of
\* its variables is eliminated.
Imported(t, clauses) ==
    /\ Sound(t)
    /\ t.data_variables = DataVariables
    /\ t.tseitin_variables = {}
    /\ t.unit_literals = {}
    /\ ~t.has_conflict
    /\ t.active_clauses = DOMAIN clauses
    /\ \A cid \in DOMAIN clauses : t.clauses[cid] = clauses[cid]

LEMMA EmptyFacts ==
  /\ EmptyCnf \in CnfType /\ IndexExact(EmptyCnf)
  /\ EmptyCnf.active_clauses = {} /\ Len(EmptyCnf.clauses) = 0
  /\ EmptyCnf.unit_literals = {} /\ EmptyCnf.bcp_unit_literals = {}
  /\ EmptyCnf.uquantified_variables = {} /\ ~EmptyCnf.has_conflict
  /\ EmptyCnf.tseitin_variables = {}
  /\ \A v \in Variables : EmptyCnf.variable_type[v] # "ELIM"
<1> DEFINE stack == << [action |-> "START_CONTEXT", ele |-> 0] >>
           none == [lit \in Literal |-> {}]
           unused == [v \in Variables |-> "UNUSED"]
<1>1. stack \in Seq(ActionRecord)
   <2>1. [action |-> "START_CONTEXT", ele |-> 0] \in ActionRecord
      BY DEF ActionRecord, ActionType
   <2> QED BY <2>1
<1>2. none \in [Literal -> SUBSET ClauseId] /\ \A lit \in Literal : none[lit] = {}
   OBVIOUS
<1>3. unused \in [Variables -> VariableType] /\ \A v \in Variables : unused[v] # "ELIM"
   BY DEF VariableType
<1>4. << >> \in Seq(Seq(Literal)) /\ << >> \in Seq(ActiveRecord) /\ Len(<< >>) = 0
   OBVIOUS
<1> DEFINE nothing == << >>
<1>5. EmptyCnf = [clauses |-> nothing, active_clauses |-> {}, literal_clauses |-> none,
                  unit_literals |-> {}, bcp_unit_literals |-> {},
                  uquantified_variables |-> {}, has_conflict |-> FALSE,
                  action_stack |-> stack, active_stack |-> nothing,
                  variable_type |-> unused, data_variables |-> {}, tseitin_variables |-> {}]
   BY DEF EmptyCnf
<1>6. nothing \in Seq(Seq(Literal)) /\ nothing \in Seq(ActiveRecord) /\ Len(nothing) = 0
   BY <1>4
<1> HIDE DEF stack, none, unused, nothing
<1>7. EmptyCnf \in CnfType
   BY <1>1, <1>2, <1>3, <1>5, <1>6 DEF CnfType
<1> QED BY <1>2, <1>3, <1>5, <1>6, <1>7 DEF IndexExact

LEMMA ImportFacts ==
  ASSUME NEW clauses \in Seq(Seq(Literal)), NEW t, t = Import(clauses)
  PROVE  Imported(t, clauses)
<1> DEFINE s == AddClauses(EmptyCnf, clauses)
           type == [v \in Variables |->
                       IF v \in DataVariables THEN "DATA" ELSE s.variable_type[v]]
<1>1. t = [s EXCEPT !.data_variables = DataVariables, !.variable_type = type]
   BY DEF Import
<1>2. s = AddClauses(EmptyCnf, clauses)
   OBVIOUS
<1> HIDE DEF s
<1>3. s \in CnfType /\ IndexExact(s) /\ Adds(EmptyCnf, s, clauses)
   BY <1>2, EmptyFacts, AddClausesFacts
<1>4. DOMAIN clauses = 1 .. Len(clauses) /\ Len(clauses) \in Nat
   BY LenProperties
<1>5. /\ s.active_clauses = DOMAIN clauses
      /\ \A cid \in DOMAIN clauses : s.clauses[cid] = clauses[cid]
   <2>1. AddedIds(EmptyCnf, clauses) = DOMAIN clauses
      BY <1>4, EmptyFacts DEF AddedIds
   <2>2. \A cid \in DOMAIN clauses : Len(EmptyCnf.clauses) + cid = cid
      BY <1>4, EmptyFacts
   <2> QED BY <1>3, <2>1, <2>2, EmptyFacts DEF Adds
<1>6. /\ s.unit_literals = {} /\ s.bcp_unit_literals = {} /\ s.uquantified_variables = {}
      /\ ~s.has_conflict /\ s.tseitin_variables = {}
      /\ \A v \in Variables : s.variable_type[v] # "ELIM"
   BY <1>3, EmptyFacts DEF Adds, SameAssignment
<1>7. type \in [Variables -> VariableType] /\ \A v \in Variables : type[v] # "ELIM"
   BY <1>3, <1>6 DEF CnfType, VariableType
<1> HIDE DEF type
<1>8. t \in CnfType /\ t.variable_type = type /\ t.data_variables = DataVariables
      /\ SameClauses(s, t)
      /\ t.unit_literals = {} /\ t.bcp_unit_literals = {} /\ t.uquantified_variables = {}
      /\ ~t.has_conflict /\ t.tseitin_variables = {}
   <2>1. [s EXCEPT !.data_variables = DataVariables, !.variable_type = type] \in CnfType
      BY <1>3, <1>7, PreprocessAssumption DEF CnfType
   <2> QED BY <1>1, <1>3, <1>6, <2>1 DEF CnfType, SameClauses
<1>9. IndexExact(t)
   BY <1>3, <1>8, SameClausesFacts
<1>10. \A cid \in t.active_clauses : \A lit \in FreeLits(t, cid) : t.variable_type[IABS(lit)] # "ELIM"
   <2>1. \A cid \in t.active_clauses : FreeLits(t, cid) \subseteq Literal
      BY <1>8, <1>9, ClauseFacts DEF IndexExact
   <2> QED BY <1>7, <1>8, <2>1, LiteralFacts
<1>11. Sound(t)
   BY <1>8, <1>9, <1>10 DEF Sound
<1> QED BY <1>5, <1>8, <1>11 DEF Imported, SameClauses

LEMMA InitStructure == Init => Structure
<1> SUFFICES ASSUME Init PROVE Structure
   OBVIOUS
<1>1. /\ input \in Seq(Seq(Literal)) /\ preprocess_level \in Levels
      /\ tseitin_mode \in TseitinModes /\ preprocess_level \in Nat
   BY PreprocessAssumption DEF Init
<1>2. Imported(cnf, input)
   BY <1>1, ImportFacts DEF Init
<1>3. Sound(cnf) /\ cnf \in CnfType /\ cnf.data_variables = DataVariables
      /\ cnf.tseitin_variables = {}
   BY <1>2 DEF Imported, Sound
<1>4. /\ bve = NoBve /\ phase = AfterImport
      /\ clause_queue = IF phase = "bcp" THEN QueueOf(cnf) ELSE NoQueue
      /\ pvar_queue \in IF phase = "classify" THEN PvarQueues(cnf) ELSE {NoQueue}
   BY DEF Init
<1>5. /\ phase \in Phases /\ phase \notin {"bve", "rebve"}
   <2>1. CASE preprocess_level >= 1
      BY <1>4, <2>1 DEF AfterImport, Phases
   <2>2. CASE ~(preprocess_level >= 1)
      BY <1>1, <1>4, <2>2 DEF AfterImport, AfterBve, AfterClassify, Phases
   <2> QED BY <2>1, <2>2
<1>6. /\ clause_queue \in Seq(ClauseId)
      /\ phase = "bcp" => ToSet(clause_queue) = cnf.active_clauses
   <2>1. CASE phase = "bcp"
      <3>1. cnf.active_clauses \in SUBSET DOMAIN cnf.clauses
         BY <1>3 DEF Sound, IndexExact
      <3>2. clause_queue = Ascending(cnf.active_clauses)
         BY <1>4, <2>1 DEF QueueOf
      <3> QED BY <1>3, <3>1, <3>2, ClausesInOrder
   <2>2. CASE phase # "bcp"
      BY <1>4, <2>2, NothingWaits
   <2> QED BY <2>1, <2>2
<1>7. /\ pvar_queue \in Seq(Variables)
      /\ phase # "classify" => pvar_queue = NoQueue
      /\ \A v \in ToSet(pvar_queue) : v \notin DataVariables /\ ~Eliminated(cnf, v)
   <2>1. CASE phase = "classify"
      <3>1. pvar_queue \in PvarQueues(cnf)
         BY <1>4, <2>1
      <3> QED BY <1>3, <2>1, <3>1, PvarQueuesFacts
   <2>2. CASE phase # "classify"
      <3>1. pvar_queue = NoQueue
         BY <1>4, <2>2
      <3> QED BY <3>1, NothingWaits
   <2> QED BY <2>1, <2>2
<1>8. ObjectOK /\ OptionsOK
   BY <1>1, <1>3 DEF ObjectOK, OptionsOK
<1>9. LoopsOK
   BY <1>4, <1>5, <1>6, <1>7, NothingWaits DEF LoopsOK, BveType
<1>10. WaitingVariables
   BY <1>4, <1>7, NothingWaits DEF WaitingVariables
<1>11. QueueCoversUnsettled
   BY <1>6 DEF QueueCoversUnsettled
<1> QED BY <1>8, <1>9, <1>10, <1>11, StructureParts

\* One step per action.
LEMMA NextStructure == Structure /\ [Next]_vars => Structure'
<1> SUFFICES ASSUME Structure, [Next]_vars PROVE Structure'
   OBVIOUS
<1>1. CASE Bcp
   BY <1>1, BcpStep
<1>2. CASE Bve
   <2>1. phase \in {"bve", "rebve"} /\ UNCHANGED << options, phase, pvar_queue >>
      BY <1>2 DEF Bve
   <2>2. BveSkip \/ BveEliminate(TRUE)
      BY <1>2 DEF Bve, BveIteration
   <2> QED BY <2>1, <2>2, BveSkipStep, BveEliminateStep
<1>3. CASE FinishBcp \/ FinishBve \/ FinishClassify \/ FinishRebve
   BY <1>3, FinishStep
<1>4. CASE ClassifyDetect
   BY <1>4, DetectStep
<1>5. CASE ClassifyPromote
   BY <1>5, PromoteStep
<1>6. CASE ClassifyFail
   BY <1>6, FailStep
<1>7. CASE UNCHANGED vars
   BY <1>7 DEF vars, Structure, TypeOK, ReduceTypeOK, PhaseOK, LiteralMapExact, UnitsSettled,
      WaitingVariables, EliminatedGone, QueueCoversUnsettled, EmptyClauseWitness, Eliminated
<1> QED BY <1>1, <1>2, <1>3, <1>4, <1>5, <1>6, <1>7 DEF Next, Done

\* The structural invariant of preprocessing holds for every formula, whatever
\* clauses it holds, every preprocessing level and every treatment of Tseitin
\* variables (the constructor of class Project with bcp, bve and
\* classify_variables of class Cnf).
THEOREM StructureInvariant == Spec => []Structure
  BY InitStructure, NextStructure, PTL DEF Spec

\* Type correctness.
THEOREM TypeCorrect == Spec => []TypeOK
  BY StructureInvariant, PTL DEF Structure

\* The index by literals is always that of the active clauses: add_literal,
\* deactivate_clause and deactivate_clauses keep it exact.
THEOREM LiteralMapStaysExact == Spec => []LiteralMapExact
  BY StructureInvariant, PTL DEF Structure

\* No clause mentions a variable that bcp has set or bve has eliminated: the
\* resolvents and the blocked clauses are made of other variables.
THEOREM EliminatedStaysGone == Spec => []EliminatedGone
  BY StructureInvariant, PTL DEF Structure

\* bcp ends with nothing left to propagate: a clause that becomes unit while it
\* waits, or after it was passed over, is on the queue.
THEOREM QueueIsComplete == Spec => []QueueCoversUnsettled
  BY StructureInvariant, PTL DEF Structure

\* The conflict bcp reports is still there in the file that is written.
THEOREM ConflictIsWritten == Spec => []ConflictWitness
<1>1. Structure => ConflictWitness
   <2>1. EmptyClauseWitness => ConflictWitness
      BY DEF EmptyClauseWitness, ConflictWitness, WrittenClauses
   <2> QED BY <2>1 DEF Structure
<1> QED BY <1>1, StructureInvariant, PTL

-----------------------------------------------------------------------------
(* What the formula means *)

\* No input clause holds a projection variable in both polarities.
InputsPairFree ==
    \A clauses \in Inputs : \A i \in DOMAIN clauses : ProjectionPairFree(clauses[i])

\* The variable v is determined in the formula of t.
DataDecide(t, v) ==
    \A a, b : Satisfies(t, a) /\ Satisfies(t, b) /\ a \cap DataVariables = b \cap DataVariables
                => (v \in a <=> v \in b)

\* Models of the formula with its units, and what is determined in it.
LEMMA FullModels ==
  ASSUME NEW t, Sound(t)
  PROVE  /\ \A a : a \in Models(Variables, FullClauses(t)) <=> Satisfies(t, a)
         /\ \A v : Determined(Variables, DataVariables, FullClauses(t), v) <=> DataDecide(t, v)
<1>1. \A a : a \in Models(Variables, FullClauses(t)) <=> Satisfies(t, a)
   <2> DEFINE clauses == FullClauses(t)
   <2>1. clauses = BcpUnits(t) \cup { FreeLits(t, cid) : cid \in t.active_clauses }
      BY DEF FullClauses
   <2> HIDE DEF clauses
   <2>2. \A a : a \in Models(Variables, clauses) <=> Satisfies(t, a)
      BY <2>1, SatisfiesModels
   <2> QED BY <2>2 DEF clauses
<1> QED BY <1>1 DEF Determined, DataDecide

\* A step that keeps the solutions keeps what the formula means.
LEMMA SemanticsStep ==
  ASSUME Structure, Structure', Semantics, input' = input, PairFree',
         Keeps(cnf, cnf', DataVariables),
         \A v \in cnf'.tseitin_variables \ cnf.tseitin_variables : DataDecide(cnf', v)
  PROVE  Semantics'
<1>1. Sound(cnf)
   BY StructureParts DEF ObjectOK
<1>2. Sound(cnf')
   <2>1. Structure' => ObjectOK'
      BY StructureParts, PTL
   <2> QED BY <2>1 DEF ObjectOK
<1>3. /\ \A a : a \in Models(Variables, FullClauses(cnf)) <=> Satisfies(cnf, a)
      /\ \A a : a \in Models(Variables, FullClauses(cnf')) <=> Satisfies(cnf', a)
   BY <1>1, <1>2, FullModels
<1> DEFINE A == FullClauses(cnf)
           B == FullClauses(cnf')
<1> HIDE DEF A, B
<1>4. \A a \in Models(Variables, A) : \E b \in Models(Variables, B) :
         a \cap DataVariables = b \cap DataVariables
   BY <1>3 DEF A, B, Keeps
<1>5. \A b \in Models(Variables, B) : \E a \in Models(Variables, A) :
         /\ a \cap DataVariables = b \cap DataVariables
         /\ \A v \in Variables : cnf'.variable_type[v] # "ELIM" => (v \in a <=> v \in b)
   BY <1>3 DEF A, B, Keeps
<1>6. Projection(Variables, DataVariables, A) = Projection(Variables, DataVariables, B)
   BY <1>4, <1>5, SameProjection
<1>7. FullProjection'
   BY <1>6 DEF Semantics, FullProjection, A, B
<1>8. FullDetermined'
   <2>1. SUFFICES ASSUME NEW v \in cnf'.tseitin_variables, ~Eliminated(cnf', v)
                  PROVE  Determined(Variables, DataVariables, B, v)
      BY DEF FullDetermined, B
   <2>2. CASE v \in cnf.tseitin_variables
      <3>1. v \in Variables
         BY <1>1, <2>2 DEF Sound, CnfType
      <3>2. ~Eliminated(cnf, v)
         BY <2>1, <3>1 DEF Keeps, Eliminated
      <3>3. Determined(Variables, DataVariables, A, v)
         BY <2>2, <3>2 DEF Semantics, FullDetermined, A
      <3>4. \A b \in Models(Variables, B) : \E a \in Models(Variables, A) :
               a \cap DataVariables = b \cap DataVariables /\ (v \in a <=> v \in b)
         BY <1>5, <2>1, <3>1 DEF Eliminated
      <3> QED BY <3>3, <3>4, StaysDetermined
   <2>3. CASE v \notin cnf.tseitin_variables
      BY <1>2, <2>3, FullModels DEF B
   <2> QED BY <2>2, <2>3
<1> QED BY <1>7, <1>8 DEF Semantics

\* Clauses that are added hold no literal and its complement.
LEMMA PairFreeStep ==
  ASSUME Structure, PairFree, OldClausesKept(cnf, cnf'),
         \A cid \in cnf'.active_clauses \ cnf.active_clauses :
             \A x \in Lits(cnf', cid) : -x \notin Lits(cnf', cid)
  PROVE  PairFree'
<1>1. cnf.active_clauses \subseteq DOMAIN cnf.clauses
   BY StructureParts DEF ObjectOK, Sound, IndexExact
<1>2. ASSUME NEW cid \in cnf'.active_clauses
      PROVE  ProjectionPairFree(cnf'.clauses[cid])
   <2>1. CASE cid \in cnf.active_clauses
      <3>1. cnf'.clauses[cid] = cnf.clauses[cid]
         BY <1>1, <2>1 DEF OldClausesKept
      <3> QED BY <2>1, <3>1 DEF PairFree
   <2>2. CASE cid \notin cnf.active_clauses
      BY <2>2 DEF ProjectionPairFree, Lits
   <2> QED BY <2>1, <2>2
<1> QED BY <1>2 DEF PairFree

\* The same solutions are kept.
LEMMA EqualKeeps ==
  ASSUME NEW s, NEW t, \A a : Satisfies(t, a) <=> Satisfies(s, a),
         \A v \in Variables : s.variable_type[v] = "ELIM" => t.variable_type[v] = "ELIM"
  PROVE  Keeps(s, t, DataVariables)
  BY DEF Keeps

\* Pair-free clauses hold one phase of a projection variable.
LEMMA PairFreeOnePhase ==
  ASSUME PairFree, NEW lit \in Literal, IABS(lit) \notin DataVariables
  PROVE  /\ \A cid \in cnf.active_clauses : ~(lit \in Lits(cnf, cid) /\ -lit \in Lits(cnf, cid))
         /\ OnePhase(cnf, IABS(lit))
<1>1. \A x \in Literal : IABS(x) = IABS(lit) =>
         \A cid \in cnf.active_clauses : ~(x \in Lits(cnf, cid) /\ -x \in Lits(cnf, cid))
   BY DEF PairFree, ProjectionPairFree, Lits
<1>2. IABS(lit) \in Literal /\ IABS(IABS(lit)) = IABS(lit)
   BY LiteralFacts, VariableFacts
<1> QED BY <1>1, <1>2 DEF OnePhase

LEMMA FullDecides ==
  ASSUME Structure, Semantics, phase = "classify"
  PROVE  \A a, b : /\ Satisfies(cnf, a) /\ Satisfies(cnf, b)
                   /\ a \cap DataVariables = b \cap DataVariables
                   => \A v \in KnownVariables(cnf) : v \in a <=> v \in b
<1>1. /\ Sound(cnf) /\ cnf.data_variables = DataVariables
      /\ \A v \in cnf.tseitin_variables : ~Eliminated(cnf, v)
   BY StructureParts DEF ObjectOK
<1>2. \A v \in cnf.tseitin_variables : DataDecide(cnf, v)
   BY <1>1, FullModels DEF Semantics, FullDetermined
<1>3. KnownVariables(cnf) = DataVariables \cup cnf.tseitin_variables
   BY <1>1 DEF KnownVariables
<1> QED BY <1>2, <1>3 DEF DataDecide

\* A recognised variable is determined by the data variables: by the known
\* ones, which are determined themselves.
LEMMA DecidedByData ==
  ASSUME Structure, Semantics, phase = "classify", NEW var, Decides(cnf, cnf', var),
         \A a : Satisfies(cnf', a) => Satisfies(cnf, a)
  PROVE  DataDecide(cnf', var)
  BY FullDecides DEF Decides, DataDecide

\* The steps that add no clause and change no solution: bcp, passing a variable
\* over, and going on to the next call.
LEMMA QuietStep ==
  ASSUME Structure, Structure', Semantics, input' = input,
         cnf'.clauses = cnf.clauses, cnf'.active_clauses \subseteq cnf.active_clauses,
         cnf'.tseitin_variables \subseteq cnf.tseitin_variables,
         \A v \in Variables : Eliminated(cnf, v) => Eliminated(cnf', v),
         \A a : Satisfies(cnf', a) <=> Satisfies(cnf, a)
  PROVE  Semantics'
<1>1. PairFree'
   BY DEF Semantics, PairFree
<1>2. Keeps(cnf, cnf', DataVariables)
   BY EqualKeeps DEF Eliminated
<1> QED BY <1>1, <1>2, SemanticsStep

\* Eliminating a projection variable.
LEMMA EliminateSemantics ==
  ASSUME Structure, Structure', Semantics, input' = input, BveKeeps
  PROVE  Semantics'
<1>1. PICK new : \E var \in Variables : \E lit \in {var, -var} :
         /\ var \notin DataVariables /\ ~Eliminated(cnf, var)
         /\ Resolved(cnf, cnf', var, lit, new)
   BY DEF BveKeeps
<1>2. PICK var \in Variables : \E lit \in {var, -var} :
         /\ var \notin DataVariables /\ ~Eliminated(cnf, var)
         /\ Resolved(cnf, cnf', var, lit, new)
   BY <1>1
<1>3. PICK lit \in {var, -var} :
         /\ var \notin DataVariables /\ cnf.variable_type[var] # "ELIM"
         /\ Resolved(cnf, cnf', var, lit, new)
   BY <1>2 DEF Eliminated
<1>4. Sound(cnf)
   BY StructureParts DEF ObjectOK
<1>5. lit \in Literal /\ IABS(lit) = var
   BY VariableFacts
<1>6. \A cid \in cnf.active_clauses : ~(lit \in Lits(cnf, cid) /\ -lit \in Lits(cnf, cid))
   BY <1>3, <1>5, PairFreeOnePhase DEF Semantics
<1>7. Keeps(cnf, cnf', DataVariables)
   BY <1>3, <1>4, <1>6, ResolvedKeeps
<1>8. PairFree'
   <2>1. \A cid \in cnf'.active_clauses \ cnf.active_clauses :
            \A l \in Lits(cnf', cid) : -l \notin Lits(cnf', cid)
      BY <1>3, <1>4, ResolvedSound
   <2>2. OldClausesKept(cnf, cnf')
      BY <1>3 DEF Resolved
   <2> QED BY <2>1, <2>2, PairFreeStep DEF Semantics
<1>9. cnf'.tseitin_variables = cnf.tseitin_variables
   BY <1>3 DEF Resolved
<1> QED BY <1>7, <1>8, <1>9, SemanticsStep

\* Recognising a Tseitin variable.
LEMMA DetectSemantics ==
  ASSUME Structure, Structure', Semantics, input' = input, phase = "classify", Detects
  PROVE  Semantics'
<1>1. PICK var \in Variables :
         /\ var \notin DataVariables
         /\ IsTseitin(cnf, var)
         /\ SameFormula(cnf, cnf')
         /\ cnf'.tseitin_variables = cnf.tseitin_variables \cup {var}
   BY DEF Detects
<1>2. Sound(cnf)
   BY StructureParts DEF ObjectOK
<1>3. \A a : Satisfies(cnf', a) <=> Satisfies(cnf, a)
   BY <1>1, <1>2, SameFormulaFacts
<1>4. DataDecide(cnf', var)
   <2>1. OnePhase(cnf, var)
      BY <1>1, VariableFacts, PairFreeOnePhase DEF Semantics
   <2>2. Decides(cnf, cnf, var)
      BY <1>1, <1>2, <2>1, DetectDecides
   <2>3. Decides(cnf, cnf', var)
      BY <1>3, <2>2 DEF Decides
   <2> QED BY <1>3, <2>3, DecidedByData
<1>5. PairFree'
   BY <1>1 DEF Semantics, PairFree, SameFormula, SameClauses
<1>6. Keeps(cnf, cnf', DataVariables)
   BY <1>1, <1>3, EqualKeeps DEF SameFormula
<1> QED BY <1>1, <1>4, <1>5, <1>6, SemanticsStep

\* Promoting a variable.
LEMMA PromoteSemantics ==
  ASSUME Structure, Structure', Semantics, input' = input, phase = "classify", Promotes
  PROVE  Semantics'
<1>1. PICK s, new : \E lit \in Literal :
         /\ IABS(lit) \notin DataVariables /\ cnf.variable_type[IABS(lit)] # "ELIM"
         /\ CanPromote(cnf, lit)
         /\ Promoted(cnf, s, lit, new)
         /\ SameFormula(s, cnf')
         /\ cnf'.tseitin_variables = cnf.tseitin_variables \cup {IABS(lit)}
   BY DEF Promotes, Eliminated
<1>2. PICK lit \in Literal :
         /\ IABS(lit) \notin DataVariables /\ cnf.variable_type[IABS(lit)] # "ELIM"
         /\ CanPromote(cnf, lit)
         /\ Promoted(cnf, s, lit, new)
         /\ SameFormula(s, cnf')
         /\ cnf'.tseitin_variables = cnf.tseitin_variables \cup {IABS(lit)}
   BY <1>1
<1>3. Sound(cnf)
   BY StructureParts DEF ObjectOK
<1>4. Sound(s)
   BY <1>2, <1>3, PromotedSound
<1>5. /\ \A a : Satisfies(cnf', a) <=> Satisfies(s, a)
      /\ \A cid : Lits(cnf', cid) = Lits(s, cid)
   BY <1>2, <1>4, SameFormulaFacts
<1>6. /\ \A cid \in cnf.active_clauses : ~(lit \in Lits(cnf, cid) /\ -lit \in Lits(cnf, cid))
      /\ OnePhase(cnf, IABS(lit))
   BY <1>2, PairFreeOnePhase DEF Semantics
<1>7. /\ Keeps(cnf, s, DataVariables)
      /\ \A b : Satisfies(s, b) => Satisfies(cnf, b)
   BY <1>2, <1>3, <1>6, PromotedKeeps
<1>8. \A v \in Variables : cnf'.variable_type[v] = "ELIM" <=> s.variable_type[v] = "ELIM"
   BY <1>2 DEF SameFormula
<1>9. Keeps(cnf, cnf', DataVariables)
   BY <1>5, <1>7, <1>8 DEF Keeps
<1>10. DataDecide(cnf', IABS(lit))
   <2>1. Decides(cnf, s, IABS(lit))
      BY <1>2, <1>3, <1>6, PromotedDecides
   <2>2. Decides(cnf, cnf', IABS(lit))
      BY <1>5, <2>1 DEF Decides
   <2> QED BY <1>5, <1>7, <2>2, DecidedByData
<1>11. PairFree'
   <2>1. cnf'.active_clauses \ cnf.active_clauses \subseteq new
      BY <1>2 DEF SameFormula, SameClauses, Promoted
   <2>2. \A cid \in new : \A x \in Lits(cnf', cid) : -x \notin Lits(cnf', cid)
      BY <1>2, <1>3, <1>5, <1>6, PromotedPairs
   <2>3. OldClausesKept(cnf, cnf')
      BY <1>2 DEF SameFormula, SameClauses, Promoted, OldClausesKept
   <2> QED BY <2>1, <2>2, <2>3, PairFreeStep DEF Semantics
<1> QED BY <1>2, <1>9, <1>10, <1>11, SemanticsStep

\* One step per action.
LEMMA NextSemantics == IInv /\ [Next]_vars => IInv'
<1> SUFFICES ASSUME Structure, Semantics, [Next]_vars PROVE Structure' /\ Semantics'
   BY DEF IInv
<1>1. Structure'
   BY NextStructure
<1>2. input' = input
   BY DEF Next, Bcp, Bve, FinishBcp, FinishBve, FinishClassify, FinishRebve, Begin, ClassifyDetect,
      ClassifyPromote, ClassifyFail, ClassifyPop, Done, options, vars
<1>3. CASE Bcp
   <2>1. BcpKeeps
      BY <1>3, BcpStep
   <2> QED BY <1>1, <1>2, <2>1, QuietStep DEF BcpKeeps
<1>4. CASE Bve
   <2>1. phase \in {"bve", "rebve"} /\ UNCHANGED << options, phase, pvar_queue >>
      BY <1>4 DEF Bve
   <2>2. CASE BveSkip
      <3>1. cnf' = cnf
         BY <2>1, <2>2, BveSkipStep
      <3> QED BY <1>1, <1>2, <3>1, QuietStep
   <2>3. CASE BveEliminate(TRUE)
      <3>1. BveKeeps
         BY <2>1, <2>3, BveEliminateStep
      <3> QED BY <1>1, <1>2, <3>1, EliminateSemantics
   <2> QED BY <1>4, <2>2, <2>3 DEF Bve, BveIteration
<1>5. CASE FinishBcp \/ FinishBve \/ FinishClassify \/ FinishRebve
   <2>1. SameFormula(cnf, cnf') /\ cnf'.tseitin_variables \subseteq cnf.tseitin_variables
      BY <1>5, FinishStep DEF BeginKeeps
   <2>2. \A a : Satisfies(cnf', a) <=> Satisfies(cnf, a)
      <3>1. Sound(cnf)
         BY StructureParts DEF ObjectOK
      <3> QED BY <2>1, <3>1, SameFormulaFacts
   <2> QED BY <1>1, <1>2, <2>1, <2>2, QuietStep DEF SameFormula, SameClauses, Eliminated
<1>6. CASE ClassifyDetect
   <2>1. Detects /\ phase = "classify"
      BY <1>6, DetectStep DEF ClassifyDetect, ClassifyPop
   <2> QED BY <1>1, <1>2, <2>1, DetectSemantics
<1>7. CASE ClassifyPromote
   <2>1. Promotes /\ phase = "classify"
      BY <1>7, PromoteStep DEF ClassifyPromote, ClassifyPop
   <2> QED BY <1>1, <1>2, <2>1, PromoteSemantics
<1>8. CASE ClassifyFail
   <2>1. cnf' = cnf
      BY <1>8, FailStep
   <2> QED BY <1>1, <1>2, <2>1, QuietStep
<1>9. CASE UNCHANGED vars
   <2>1. cnf' = cnf
      BY <1>9 DEF vars
   <2> QED BY <1>1, <1>2, <2>1, QuietStep
<1> QED BY <1>1, <1>3, <1>4, <1>5, <1>6, <1>7, <1>8, <1>9 DEF Next, Done

LEMMA InitSemantics ==
  ASSUME InputsPairFree
  PROVE  Init => IInv
<1> SUFFICES ASSUME Init PROVE Semantics
   BY InitStructure DEF IInv
<1>1. input \in Inputs /\ input \in Seq(Seq(Literal))
   BY PreprocessAssumption DEF Init
<1>2. Imported(cnf, input)
   BY <1>1, ImportFacts DEF Init
<1>3. /\ cnf.active_clauses = DOMAIN input
      /\ \A cid \in DOMAIN input : cnf.clauses[cid] = input[cid]
      /\ cnf.bcp_unit_literals = {} /\ cnf.unit_literals = {} /\ cnf.tseitin_variables = {}
      /\ cnf.uquantified_variables = {}
   BY <1>2 DEF Imported, Sound
<1>4. PairFree
   BY <1>1, <1>3 DEF InputsPairFree, PairFree
<1>5. FullClauses(cnf) = { ToSet(input[i]) : i \in DOMAIN input }
   <2>1. \A cid \in DOMAIN input : FreeLits(cnf, cid) = ToSet(input[cid])
      BY <1>3, FreeLitsFacts DEF Lits
   <2>2. BcpUnits(cnf) = {}
      BY <1>3 DEF BcpUnits
   <2> QED BY <1>3, <2>1, <2>2 DEF FullClauses
<1> QED BY <1>3, <1>4, <1>5 DEF Semantics, FullProjection, FullDetermined

\* The invariant of preprocessing, structure and meaning, for all formulas
\* whose clauses hold no projection variable in both polarities.
THEOREM PreprocessInvariant ==
  ASSUME InputsPairFree
  PROVE  Spec => []IInv
<1>1. Init => IInv
   BY InitSemantics
<1> QED BY <1>1, NextSemantics, PTL DEF Spec

\* What write() leaves out, the unit literals of projection variables, matters
\* to no data variable and to no variable that is still in the clauses.
LEMMA WrittenFull ==
  ASSUME Structure, NEW a \in Models(Variables, WrittenClauses(cnf))
  PROVE  \E b \in Models(Variables, FullClauses(cnf)) :
             /\ a \cap DataVariables = b \cap DataVariables
             /\ \A v \in Variables : ~Eliminated(cnf, v) => (v \in a <=> v \in b)
<1> DEFINE U == { u \in cnf.unit_literals : IABS(u) \notin DataVariables }
           b == Assigning(a, U)
<1>1. /\ Sound(cnf) /\ cnf.data_variables = DataVariables
      /\ cnf.unit_literals \subseteq Literal /\ cnf.bcp_unit_literals = cnf.unit_literals
      /\ \A u \in cnf.unit_literals : -u \notin cnf.unit_literals /\ Eliminated(cnf, IABS(u))
   BY StructureParts DEF ObjectOK, Sound, CnfType, Eliminated
<1>2. /\ a \in SUBSET Variables
      /\ \A u \in cnf.unit_literals : IABS(u) \in DataVariables => Holds(a, u)
      /\ \A cid \in cnf.active_clauses : HoldsClause(a, FreeLits(cnf, cid))
   <2>1. a \in SUBSET Variables /\ \A lits \in WrittenClauses(cnf) : HoldsClause(a, lits)
      BY DEF Models
   <2>2. \A cid \in cnf.active_clauses : FreeLits(cnf, cid) \in WrittenClauses(cnf)
      BY DEF WrittenClauses
   <2>3. \A u \in cnf.unit_literals : IABS(u) \in DataVariables => {u} \in WrittenClauses(cnf)
      BY <1>1 DEF WrittenClauses, is_data_variable
   <2>4. \A u : HoldsClause(a, {u}) => Holds(a, u)
      BY DEF HoldsClause
   <2> QED BY <2>1, <2>2, <2>3, <2>4
<1>3. U \in SUBSET Literal /\ \A u \in U : -u \notin U
   BY <1>1
<1>4. \A u \in U : IABS(u) \notin DataVariables /\ Eliminated(cnf, IABS(u))
   BY <1>1
<1>5. b = Assigning(a, U) /\ U \subseteq cnf.unit_literals
      /\ \A u \in cnf.unit_literals : IABS(u) \notin DataVariables => u \in U
   OBVIOUS
<1> HIDE DEF U, b
<1>6. /\ b \in SUBSET Variables
      /\ \A u \in U : Holds(b, u)
      /\ \A l \in Literal : l \notin U /\ -l \notin U => (Holds(b, l) <=> Holds(a, l))
      /\ \A v \in Variables : v \notin U /\ -v \notin U => (v \in b <=> v \in a)
      /\ b \cap DataVariables = a \cap DataVariables
   BY <1>2, <1>3, <1>4, <1>5, AssigningFacts
<1>7. \A l \in Literal : l \in U \/ -l \in U =>
         IABS(l) \notin DataVariables /\ Eliminated(cnf, IABS(l))
   BY <1>4, LiteralFacts
<1>8. \A u \in cnf.unit_literals : Holds(b, u)
   <2>1. TAKE u \in cnf.unit_literals
   <2>2. CASE u \in U
      BY <1>6, <2>2
   <2>3. CASE u \notin U
      <3>1. IABS(u) \in DataVariables /\ u \in Literal
         BY <1>1, <1>5, <2>3
      <3> QED BY <1>2, <1>6, <1>7, <3>1
   <2> QED BY <2>2, <2>3
<1>9. \A cid \in cnf.active_clauses : HoldsClause(b, FreeLits(cnf, cid))
   <2>1. TAKE cid \in cnf.active_clauses
   <2>2. PICK l \in FreeLits(cnf, cid) : Holds(a, l)
      BY <1>2 DEF HoldsClause
   <2>3. l \in Literal /\ ~Eliminated(cnf, IABS(l))
      BY <1>1, SoundFacts DEF Sound, Eliminated
   <2>4. Holds(b, l)
      BY <1>6, <1>7, <2>2, <2>3
   <2> QED BY <2>4 DEF HoldsClause
<1>10. Satisfies(cnf, b)
   BY <1>6, <1>8, <1>9 DEF Satisfies
<1>11. b \in Models(Variables, FullClauses(cnf))
   BY <1>1, <1>10, FullModels
<1>12. \A v \in Variables : ~Eliminated(cnf, v) => (v \in a <=> v \in b)
   BY <1>6, <1>7, VariableFacts
<1> QED BY <1>6, <1>11, <1>12

\* So the written formula means what the invariant says of the full one.
LEMMA WrittenMeaning == IInv => ProjectionPreserved /\ TseitinDetermined
<1> SUFFICES ASSUME Structure, Semantics PROVE ProjectionPreserved /\ TseitinDetermined
   BY DEF IInv
<1> DEFINE A == FullClauses(cnf)
           B == WrittenClauses(cnf)
<1>1. /\ Sound(cnf) /\ cnf.bcp_unit_literals = cnf.unit_literals
      /\ cnf.data_variables = DataVariables
      /\ cnf.tseitin_variables \in SUBSET Variables
      /\ cnf.tseitin_variables \cap DataVariables = {}
   BY StructureParts DEF ObjectOK, Sound, CnfType
<1>2. \A a \in Models(Variables, A) : a \in Models(Variables, B)
   <2>1. B \subseteq A
      BY DEF WrittenClauses, FullClauses, BcpUnits
   <2> HIDE DEF A, B
   <2> QED BY <2>1 DEF Models
<1>3. \A a \in Models(Variables, B) : \E b \in Models(Variables, A) :
         /\ a \cap DataVariables = b \cap DataVariables
         /\ \A v \in Variables : ~Eliminated(cnf, v) => (v \in a <=> v \in b)
   BY WrittenFull
<1> HIDE DEF A, B
<1>4. Projection(Variables, DataVariables, A) = Projection(Variables, DataVariables, B)
   BY <1>2, <1>3, SameProjection
<1>5. ProjectionPreserved
   BY <1>4 DEF ProjectionPreserved, Semantics, FullProjection, A, B
<1>6. ASSUME NEW v \in cnf.tseitin_variables, NEW l \in UNION B, v = IABS(l)
      PROVE  Determined(Variables, DataVariables, B, v)
   <2>1. v \in Variables /\ v \notin DataVariables
      BY <1>1
   <2>2. ~Eliminated(cnf, v)
      <3>1. PICK clause \in B : l \in clause
         OBVIOUS
      <3>2. CASE clause \in { FreeLits(cnf, cid) : cid \in cnf.active_clauses }
         BY <1>1, <1>6, <3>1, <3>2 DEF Sound, Eliminated
      <3>3. CASE clause \in { {lit} : lit \in
                    { u \in cnf.bcp_unit_literals : is_data_variable(cnf, IABS(u)) } }
         BY <1>1, <1>6, <2>1, <3>1, <3>3 DEF is_data_variable
      <3> QED BY <3>1, <3>2, <3>3 DEF B, WrittenClauses
   <2>3. Determined(Variables, DataVariables, A, v)
      BY <2>2 DEF Semantics, FullDetermined, A
   <2>4. \A a \in Models(Variables, B) : \E b \in Models(Variables, A) :
            b \cap DataVariables = a \cap DataVariables /\ (v \in b <=> v \in a)
      BY <1>3, <2>1, <2>2
   <2> QED BY <2>3, <2>4, StaysDetermined
<1>7. TseitinDetermined
   BY <1>6 DEF TseitinDetermined, B
<1> QED BY <1>5, <1>7

\* Preprocessing keeps the projection on the data variables: the formula given
\* to the knowledge compiler has the counts of the input, whatever the level
\* and the treatment of Tseitin variables, if no input clause holds a
\* projection variable in both polarities.
THEOREM ProjectionIsPreserved ==
  ASSUME InputsPairFree
  PROVE  Spec => []ProjectionPreserved
  BY PreprocessInvariant, WrittenMeaning, PTL

\* A variable reported as a Tseitin variable is a function of the data
\* variables in the formula that is written, also after the second elimination.
THEOREM TseitinIsDetermined ==
  ASSUME InputsPairFree
  PROVE  Spec => []TseitinDetermined
  BY PreprocessInvariant, WrittenMeaning, PTL
=============================================================================

----------------------------- MODULE Pog_proofs -----------------------------
(***************************************************************************)
(* Facts about graphs: what an edge represents does not change while the   *)
(* graph grows, it depends on no variable that is not below the edge, and  *)
(* MakeNode makes an edge for the conjunction or disjunction of its        *)
(* arguments and keeps the graph countable, and ring_evaluate counts the   *)
(* models of an edge over data variables.                                  *)
(***************************************************************************)
EXTENDS Pog, Literals_proofs

-----------------------------------------------------------------------------
(* Recursion *)

\* Values up to g[n], each of which is made from the one before.
Recursive(g, n, T, base, step) ==
    /\ g = [k \in 0 .. n |-> g[k]]
    /\ g[0] = base
    /\ \A k \in 0 .. n : g[k] \in T[k]
    /\ \A k \in 1 .. n : g[k] = step[<< k, g[k - 1] >>]

StepTyped(n, T, step) ==
    \A k \in 1 .. n : \A x \in T[k - 1] : step[<< k, x >>] \in T[k]

\* They exist.
LEMMA Recursion ==
  ASSUME NEW n \in Nat, NEW T, NEW base, base \in T[0], NEW step, StepTyped(n, T, step)
  PROVE  \E g : Recursive(g, n, T, base, step)
<1> USE DEF StepTyped
<1> DEFINE Good(g, m) == /\ g = [k \in 0 .. m |-> g[k]]
                         /\ g[0] = base
                         /\ \A k \in 0 .. m : g[k] \in T[k]
                         /\ \A k \in 1 .. m : g[k] = step[<< k, g[k - 1] >>]
           bad == { m \in 0 .. n : ~ \E g : Good(g, m) }
<1>1. SUFFICES ASSUME bad # {}
               PROVE  FALSE
   BY n \in 0 .. n DEF Recursive
<1>2. PICK m \in bad : \A k \in bad : m <= k
   BY <1>1, LeastNatural, bad \in SUBSET Nat
<1>3. m \in 0 .. n /\ m \in Nat
   OBVIOUS
<1>4. CASE m = 0
   <2> DEFINE g == [k \in 0 .. 0 |-> base]
   <2>1. g[0] = base
      OBVIOUS
   <2>2. g = [k \in 0 .. 0 |-> g[k]]
      OBVIOUS
   <2>3. \A k \in 0 .. 0 : g[k] \in T[k]
      BY <2>1
   <2> HIDE DEF g
   <2>4. Good(g, 0)
      BY <2>1, <2>2, <2>3
   <2> QED BY <1>4, <2>4
<1>5. CASE m # 0
   <2>1. m - 1 \in 0 .. n /\ ~(m <= m - 1) /\ m \in 1 .. n
      BY <1>3, <1>5
   <2>2. PICK h : Good(h, m - 1)
      BY <1>2, <2>1
   <2> DEFINE g == [k \in 0 .. m |-> IF k = m THEN step[<< m, h[m - 1] >>] ELSE h[k]]
   <2>3. \A k \in 0 .. m - 1 : g[k] = h[k]
      BY <1>3
   <2>4. g[m] = step[<< m, h[m - 1] >>] /\ g = [k \in 0 .. m |-> g[k]]
      BY <1>3
   <2> HIDE DEF g
   <2>5. g[0] = base
      BY <1>3, <1>5, <2>2, <2>3, 0 \in 0 .. m - 1
   <2>6. m - 1 \in 0 .. m - 1 /\ h[m - 1] \in T[m - 1] /\ g[m - 1] = h[m - 1]
      BY <1>3, <1>5, <2>2, <2>3
   <2>7. ASSUME NEW k \in 0 .. m
         PROVE  g[k] \in T[k]
      <3>1. CASE k = m
         BY <2>1, <2>4, <2>6, <3>1
      <3>2. CASE k # m
         BY <1>3, <2>2, <2>3, <3>2, k \in 0 .. m - 1
      <3> QED BY <3>1, <3>2
   <2>8. ASSUME NEW k \in 1 .. m
         PROVE  g[k] = step[<< k, g[k - 1] >>]
      <3>1. CASE k = m
         BY <2>4, <2>6, <3>1
      <3>2. CASE k # m
         <4>1. k \in 1 .. m - 1 /\ k \in 0 .. m - 1 /\ k - 1 \in 0 .. m - 1
            BY <1>3, <3>2
         <4>2. g[k] = h[k] /\ g[k - 1] = h[k - 1]
            BY <2>3, <4>1
         <4>3. h[k] = step[<< k, h[k - 1] >>]
            BY <2>2, <4>1
         <4> QED BY <4>2, <4>3
      <3> QED BY <3>1, <3>2
   <2>9. Good(g, m)
      BY <2>4, <2>5, <2>7, <2>8
   <2> QED BY <2>9
<1> QED BY <1>4, <1>5

\* A sequence to which one value after the other is appended.
Appended(g, n, S, val) ==
    /\ g[0] = << >>
    /\ \A k \in 1 .. n : val[k] \in S
    /\ \A k \in 1 .. n : g[k] = Append(g[k - 1], val[k])

LEMMA Appending ==
  ASSUME NEW n \in Nat, NEW S, NEW g, NEW val, Appended(g, n, S, val)
  PROVE  \A k \in 0 .. n :
           /\ g[k] \in Seq(S) /\ Len(g[k]) = k
           /\ \A j \in 1 .. k : g[k][j] = val[j]
<1> USE DEF Appended
<1> DEFINE good == { k \in 0 .. n : /\ g[k] \in Seq(S) /\ Len(g[k]) = k
                                    /\ \A j \in 1 .. k : g[k][j] = val[j] }
<1>1. 0 \in good
   <2>1. g[0] \in Seq(S) /\ Len(g[0]) = 0
      BY EmptySeq
   <2>2. \A j \in 1 .. 0 : g[0][j] = val[j]
      OBVIOUS
   <2>3. 0 \in 0 .. n
      OBVIOUS
   <2> QED BY <2>1, <2>2, <2>3, Zenon
<1>2. ASSUME NEW k \in 1 .. n, k - 1 \in good
      PROVE  k \in good
   <2>1. /\ g[k - 1] \in Seq(S) /\ Len(g[k - 1]) = k - 1
         /\ \A j \in 1 .. k - 1 : g[k - 1][j] = val[j]
      BY <1>2
   <2>2. val[k] \in S /\ g[k] = Append(g[k - 1], val[k])
      BY <2>1
   <2>3. g[k] \in Seq(S) /\ Len(g[k]) = k
      BY <2>1, <2>2, AppendProperties
   <2>4. ASSUME NEW j \in 1 .. k
         PROVE  g[k][j] = val[j]
      <3>1. CASE j = k
         <4>1. Append(g[k - 1], val[k])[Len(g[k - 1]) + 1] = val[k]
            BY <2>1, <2>2, AppendProperties, Zenon
         <4>2. Len(g[k - 1]) + 1 = j
            BY <2>1, <3>1
         <4> QED BY <2>2, <3>1, <4>1, <4>2, Zenon
      <3>2. CASE j # k
         <4>1. j \in 1 .. k - 1
            BY <3>2
         <4>2. g[k][j] = g[k - 1][j]
            BY <2>1, <2>2, <4>1, AppendProperties
         <4> QED BY <2>1, <4>1, <4>2
      <3> QED BY <3>1, <3>2
   <2> QED BY <2>3, <2>4
<1> HIDE DEF good
<1>3. 0 .. n \subseteq good
   BY <1>1, <1>2, Induction
<1> QED BY <1>3 DEF good

-----------------------------------------------------------------------------
(* The models and the variables of the nodes *)

\* The definitions by recursion have a solution.
LEMMA ModelsDefined ==
  ASSUME NEW p, p.nodes \in Seq(Node)
  PROVE  \E g : /\ AllModels(p) = g[Len(p.nodes)]
                /\ g[0] = << >>
                /\ \A k \in 1 .. Len(p.nodes) :
                     g[k] = Append(g[k - 1], NodeModels(g[k - 1], p.nodes[k]))
<1> DEFINE n == Len(p.nodes)
           upto[k \in 0 .. n] ==
             IF k = 0 THEN << >>
             ELSE LET older == upto[k - 1] IN Append(older, NodeModels(older, p.nodes[k]))
           S == SUBSET Assignments
           T == [k \in 0 .. n |-> Seq(S)]
           step == [q \in (1 .. n) \X Seq(S) |-> Append(q[2], NodeModels(q[2], p.nodes[q[1]]))]
<1>1. n \in Nat
   BY LenProperties
<1>2. AllModels(p) = upto[n]
   BY DEF AllModels
<1>3. \A k \in 1 .. n : \A x \in Seq(S) : NodeModels(x, p.nodes[k]) \in S
   BY DEF NodeModels
<1> HIDE DEF n, S
<1>t. \A k \in 0 .. n : T[k] = Seq(S)
   OBVIOUS
<1>4. << >> \in T[0]
   BY <1>1, <1>t, EmptySeq, 0 \in 0 .. n
<1>5. ASSUME NEW k \in 1 .. n, NEW x \in T[k - 1]
      PROVE  step[<< k, x >>] \in T[k] /\ step[<< k, x >>] = Append(x, NodeModels(x, p.nodes[k]))
   <2>0. k - 1 \in 0 .. n /\ k \in 0 .. n
      BY <1>1
   <2>1. x \in Seq(S) /\ NodeModels(x, p.nodes[k]) \in S
      BY <2>0, <1>t, <1>3
   <2>2. step[<< k, x >>] = Append(x, NodeModels(x, p.nodes[k]))
      BY <2>1
   <2>3. Append(x, NodeModels(x, p.nodes[k])) \in Seq(S)
      BY <2>1, AppendProperties
   <2>4. step[<< k, x >>] \in T[k]
      BY <1>t, <2>0, <2>2, <2>3
   <2> QED BY <2>2, <2>4
<1> HIDE DEF T, step
<1>6. StepTyped(n, T, step)
   BY <1>5 DEF StepTyped
<1>a. PICK g : Recursive(g, n, T, << >>, step)
   BY <1>1, <1>4, <1>6, Recursion
<1>7. g = [k \in 0 .. n |->
             IF k = 0 THEN << >>
             ELSE LET older == g[k - 1] IN Append(older, NodeModels(older, p.nodes[k]))]
   <2>1. ASSUME NEW k \in 1 .. n
         PROVE  g[k] = Append(g[k - 1], NodeModels(g[k - 1], p.nodes[k]))
      BY <1>1, <1>5, <1>a, SMTT(30) DEF Recursive
   <2> QED BY <1>1, <1>a, <2>1, SMTT(30) DEF Recursive
<1>8. upto = [k \in 0 .. n |->
             IF k = 0 THEN << >>
             ELSE LET older == upto[k - 1] IN Append(older, NodeModels(older, p.nodes[k]))]
   BY <1>7
<1> HIDE DEF upto
<1>9. /\ upto[0] = << >>
      /\ \A k \in 1 .. n : upto[k] = Append(upto[k - 1], NodeModels(upto[k - 1], p.nodes[k]))
   <2>1. upto[0] = << >>
      BY <1>1, <1>8, 0 \in 0 .. n
   <2>2. ASSUME NEW k \in 1 .. n
         PROVE  upto[k] = Append(upto[k - 1], NodeModels(upto[k - 1], p.nodes[k]))
      <3>1. k \in 0 .. n /\ k # 0
         BY <1>1
      <3> QED BY <1>8, <3>1
   <2> QED BY <2>1, <2>2
<1> QED BY <1>1, <1>2, <1>9 DEF n


LEMMA SupportsDefined ==
  ASSUME NEW p, p.nodes \in Seq(Node)
  PROVE  \E g : /\ AllSupports(p) = g[Len(p.nodes)]
                /\ g[0] = << >>
                /\ \A k \in 1 .. Len(p.nodes) :
                     g[k] = Append(g[k - 1], NodeSupport(g[k - 1], p.nodes[k]))
<1> DEFINE n == Len(p.nodes)
           upto[k \in 0 .. n] ==
             IF k = 0 THEN << >>
             ELSE LET older == upto[k - 1] IN Append(older, NodeSupport(older, p.nodes[k]))
           S == SUBSET InputVariables
           T == [k \in 0 .. n |-> Seq(S)]
           step == [q \in (1 .. n) \X Seq(S) |-> Append(q[2], NodeSupport(q[2], p.nodes[q[1]]))]
<1>1. n \in Nat
   BY LenProperties
<1>2. AllSupports(p) = upto[n]
   BY DEF AllSupports
<1>3. \A k \in 1 .. n : \A x \in Seq(S) : NodeSupport(x, p.nodes[k]) \in S
   BY DEF NodeSupport
<1> HIDE DEF n, S
<1>t. \A k \in 0 .. n : T[k] = Seq(S)
   OBVIOUS
<1>4. << >> \in T[0]
   BY <1>1, <1>t, EmptySeq, 0 \in 0 .. n
<1>5. ASSUME NEW k \in 1 .. n, NEW x \in T[k - 1]
      PROVE  step[<< k, x >>] \in T[k] /\ step[<< k, x >>] = Append(x, NodeSupport(x, p.nodes[k]))
   <2>0. k - 1 \in 0 .. n /\ k \in 0 .. n
      BY <1>1
   <2>1. x \in Seq(S) /\ NodeSupport(x, p.nodes[k]) \in S
      BY <2>0, <1>t, <1>3
   <2>2. step[<< k, x >>] = Append(x, NodeSupport(x, p.nodes[k]))
      BY <2>1
   <2>3. Append(x, NodeSupport(x, p.nodes[k])) \in Seq(S)
      BY <2>1, AppendProperties
   <2>4. step[<< k, x >>] \in T[k]
      BY <1>t, <2>0, <2>2, <2>3
   <2> QED BY <2>2, <2>4
<1> HIDE DEF T, step
<1>6. StepTyped(n, T, step)
   BY <1>5 DEF StepTyped
<1>a. PICK g : Recursive(g, n, T, << >>, step)
   BY <1>1, <1>4, <1>6, Recursion
<1>7. g = [k \in 0 .. n |->
             IF k = 0 THEN << >>
             ELSE LET older == g[k - 1] IN Append(older, NodeSupport(older, p.nodes[k]))]
   <2>1. ASSUME NEW k \in 1 .. n
         PROVE  g[k] = Append(g[k - 1], NodeSupport(g[k - 1], p.nodes[k]))
      BY <1>1, <1>5, <1>a, SMTT(30) DEF Recursive
   <2> QED BY <1>1, <1>a, <2>1, SMTT(30) DEF Recursive
<1>8. upto = [k \in 0 .. n |->
             IF k = 0 THEN << >>
             ELSE LET older == upto[k - 1] IN Append(older, NodeSupport(older, p.nodes[k]))]
   BY <1>7
<1> HIDE DEF upto
<1>9. /\ upto[0] = << >>
      /\ \A k \in 1 .. n : upto[k] = Append(upto[k - 1], NodeSupport(upto[k - 1], p.nodes[k]))
   <2>1. upto[0] = << >>
      BY <1>1, <1>8, 0 \in 0 .. n
   <2>2. ASSUME NEW k \in 1 .. n
         PROVE  upto[k] = Append(upto[k - 1], NodeSupport(upto[k - 1], p.nodes[k]))
      <3>1. k \in 0 .. n /\ k # 0
         BY <1>1
      <3> QED BY <1>8, <3>1
   <2> QED BY <2>1, <2>2
<1> QED BY <1>1, <1>2, <1>9 DEF n

\* A graph whose nodes have literals and older nodes as arguments.
Layered(p) ==
    /\ p.nodes \in Seq(Node)
    /\ Fits(p)
    /\ \A i \in 1 .. Len(p.nodes) : \A e \in ToSet(p.nodes[i].args) :
           e \in Int /\ IABS(e) \in 1 .. NInput + i - 1

\* Lists of models, or of supports, that agree on what an edge refers to.
LEMMA EdgeModelsAgree ==
  ASSUME NEW k \in Nat, NInput + k < TAUTOLOGY, NEW e \in Int, IABS(e) \in 1 .. NInput + k,
         NEW m, NEW n, \A j \in 1 .. k : m[j] = n[j]
  PROVE  EdgeModels(m, e) = EdgeModels(n, e) /\ EdgeSupport(m, e) = EdgeSupport(n, e)
<1>1. CASE IABS(e) <= NInput
   BY <1>1, NInputAssumption DEF EdgeModels, EdgeSupport, is_node, IABS
<1>2. CASE IABS(e) > NInput
   <2>1. IABS(e) - NInput \in 1 .. k
      BY <1>2, NInputAssumption DEF IABS
   <2>2. m[IABS(e) - NInput] = n[IABS(e) - NInput]
      BY <2>1
   <2> QED BY <2>2, <1>2 DEF EdgeModels, EdgeSupport, is_node
<1> QED BY <1>1, <1>2, NInputAssumption DEF IABS

\* What the definition by recursion says of the finished list.
ModelsOf(p, M) ==
    /\ M \in Seq(SUBSET Assignments) /\ Len(M) = Len(p.nodes)
    /\ \A i \in 1 .. Len(p.nodes) : M[i] = NodeModels(M, p.nodes[i])

SupportsOf(p, M) ==
    /\ M \in Seq(SUBSET InputVariables) /\ Len(M) = Len(p.nodes)
    /\ \A i \in 1 .. Len(p.nodes) : M[i] = NodeSupport(M, p.nodes[i])

LEMMA ModelsFacts ==
  ASSUME NEW p, Layered(p)
  PROVE  ModelsOf(p, AllModels(p))
<1> DEFINE n == Len(p.nodes)
           M == AllModels(p)
           S == SUBSET Assignments
<1>1. n \in Nat /\ p.nodes \in Seq(Node) /\ NInput + n < TAUTOLOGY /\ TAUTOLOGY \in Int
   BY LenProperties DEF Layered, Fits, TAUTOLOGY
<1>2. PICK g : /\ M = g[n]
               /\ g[0] = << >>
               /\ \A k \in 1 .. n : g[k] = Append(g[k - 1], NodeModels(g[k - 1], p.nodes[k]))
   BY <1>1, ModelsDefined
<1> DEFINE val == [k \in 1 .. n |-> NodeModels(g[k - 1], p.nodes[k])]
<1>x. \A k \in 1 .. n : val[k] \in S
   BY DEF NodeModels
<1> HIDE DEF n, M, S
<1>4. \A k \in 1 .. n : val[k] = NodeModels(g[k - 1], p.nodes[k])
   OBVIOUS
<1> HIDE DEF val
<1>y. \A k \in 1 .. n : g[k] = Append(g[k - 1], val[k])
   BY <1>2, <1>4
<1>3. Appended(g, n, S, val)
   BY <1>2, <1>x, <1>y DEF Appended
<1>5. \A k \in 0 .. n : /\ g[k] \in Seq(S) /\ Len(g[k]) = k
                        /\ \A j \in 1 .. k : g[k][j] = val[j]
   BY <1>1, <1>3, Appending
<1>6. ASSUME NEW i \in 1 .. n
      PROVE  M[i] = NodeModels(M, p.nodes[i])
   <2>1. i - 1 \in 0 .. n /\ n \in 0 .. n /\ i - 1 \in Nat
      BY <1>1
   <2>a. NInput + (i - 1) < TAUTOLOGY
      BY <1>1, NInputAssumption
   <2>2. \A j \in 1 .. i - 1 : g[i - 1][j] = M[j]
      BY <1>2, <1>5, <2>1
   <2>3. \A e \in ToSet(p.nodes[i].args) : e \in Int /\ IABS(e) \in 1 .. NInput + (i - 1)
      BY <1>1, NInputAssumption DEF Layered, n
   <2>4. \A e \in ToSet(p.nodes[i].args) : EdgeModels(g[i - 1], e) = EdgeModels(M, e)
      BY <2>1, <2>a, <2>2, <2>3, EdgeModelsAgree
   <2>5. NodeModels(g[i - 1], p.nodes[i]) = NodeModels(M, p.nodes[i])
      BY <2>4 DEF NodeModels
   <2> QED BY <1>1, <1>2, <1>4, <1>5, <2>1, <2>5
<1>7. n \in 0 .. n
   BY <1>1
<1> QED BY <1>2, <1>5, <1>6, <1>7 DEF n, M, S, ModelsOf

LEMMA SupportsFacts ==
  ASSUME NEW p, Layered(p)
  PROVE  SupportsOf(p, AllSupports(p))
<1> DEFINE n == Len(p.nodes)
           M == AllSupports(p)
           S == SUBSET InputVariables
<1>1. n \in Nat /\ p.nodes \in Seq(Node) /\ NInput + n < TAUTOLOGY /\ TAUTOLOGY \in Int
   BY LenProperties DEF Layered, Fits, TAUTOLOGY
<1>2. PICK g : /\ M = g[n]
               /\ g[0] = << >>
               /\ \A k \in 1 .. n : g[k] = Append(g[k - 1], NodeSupport(g[k - 1], p.nodes[k]))
   BY <1>1, SupportsDefined
<1> DEFINE val == [k \in 1 .. n |-> NodeSupport(g[k - 1], p.nodes[k])]
<1>x. \A k \in 1 .. n : val[k] \in S
   BY DEF NodeSupport
<1> HIDE DEF n, M, S
<1>4. \A k \in 1 .. n : val[k] = NodeSupport(g[k - 1], p.nodes[k])
   OBVIOUS
<1> HIDE DEF val
<1>y. \A k \in 1 .. n : g[k] = Append(g[k - 1], val[k])
   BY <1>2, <1>4
<1>3. Appended(g, n, S, val)
   BY <1>2, <1>x, <1>y DEF Appended
<1>5. \A k \in 0 .. n : /\ g[k] \in Seq(S) /\ Len(g[k]) = k
                        /\ \A j \in 1 .. k : g[k][j] = val[j]
   BY <1>1, <1>3, Appending
<1>6. ASSUME NEW i \in 1 .. n
      PROVE  M[i] = NodeSupport(M, p.nodes[i])
   <2>1. i - 1 \in 0 .. n /\ n \in 0 .. n /\ i - 1 \in Nat
      BY <1>1
   <2>a. NInput + (i - 1) < TAUTOLOGY
      BY <1>1, NInputAssumption
   <2>2. \A j \in 1 .. i - 1 : g[i - 1][j] = M[j]
      BY <1>2, <1>5, <2>1
   <2>3. \A e \in ToSet(p.nodes[i].args) : e \in Int /\ IABS(e) \in 1 .. NInput + (i - 1)
      BY <1>1, NInputAssumption DEF Layered, n
   <2>4. \A e \in ToSet(p.nodes[i].args) : EdgeSupport(g[i - 1], e) = EdgeSupport(M, e)
      BY <2>1, <2>a, <2>2, <2>3, EdgeModelsAgree
   <2>5. NodeSupport(g[i - 1], p.nodes[i]) = NodeSupport(M, p.nodes[i])
      BY <2>4 DEF NodeSupport
   <2> QED BY <1>1, <1>2, <1>4, <1>5, <2>1, <2>5
<1>7. n \in 0 .. n
   BY <1>1
<1> QED BY <1>2, <1>5, <1>6, <1>7 DEF n, M, S, SupportsOf

-----------------------------------------------------------------------------
(* What an edge means, and the variables it mentions *)

Meaning(p, e) == EdgeModels(AllModels(p), e)

Mentions(p, e) == EdgeSupport(AllSupports(p), e)

\* The numbers that tell edges apart.
LEMMA Sizes ==
  ASSUME NEW p, WellFormed(p)
  PROVE  /\ Layered(p)
         /\ NInput \in Nat /\ Len(p.nodes) \in Nat /\ TAUTOLOGY \in Nat
         /\ NInput + Len(p.nodes) < TAUTOLOGY
         /\ DOMAIN p.nodes = 1 .. Len(p.nodes)
         /\ p.nodes \in Seq(Node)
<1>1. p.nodes \in Seq(Node)
   BY DEF WellFormed
<1>2. Len(p.nodes) \in Nat /\ DOMAIN p.nodes = 1 .. Len(p.nodes)
   BY <1>1, LenProperties
<1>3. ASSUME NEW i \in 1 .. Len(p.nodes), NEW e \in ToSet(p.nodes[i].args)
      PROVE  e \in Int /\ IABS(e) \in 1 .. NInput + i - 1
   <2>1. p.nodes[i] \in Node
      BY <1>1, <1>2
   <2>2. p.nodes[i].args \in Seq(Int)
      BY <2>1 DEF Node
   <2>3. e \in Int
      BY <2>2, ToSetSeq
   <2> QED BY <1>2, <2>3 DEF WellFormed
<1>4. Layered(p)
   BY <1>1, <1>3 DEF Layered, WellFormed
<1> QED BY <1>1, <1>2, <1>4, NInputAssumption DEF TAUTOLOGY, WellFormed, Fits

\* The definitions by cases, case by case.
LEMMA EdgeCases ==
  ASSUME NEW M, NEW e
  PROVE  /\ IABS(e) = TAUTOLOGY =>
              EdgeModels(M, e) = IF e > 0 THEN Assignments ELSE {}
         /\ is_node(e) =>
              /\ EdgeModels(M, e) = IF e > 0 THEN M[IABS(e) - NInput]
                                    ELSE Assignments \ M[IABS(e) - NInput]
              /\ EdgeSupport(M, e) = M[IABS(e) - NInput]
         /\ IABS(e) # TAUTOLOGY /\ ~is_node(e) =>
              /\ EdgeModels(M, e) = IF e > 0 THEN { a \in Assignments : IABS(e) \in a }
                                    ELSE { a \in Assignments : IABS(e) \notin a }
         /\ ~is_node(e) => EdgeSupport(M, e) = {IABS(e)}
<1>1. IABS(e) = TAUTOLOGY => EdgeModels(M, e) = IF e > 0 THEN Assignments ELSE {}
   BY SMT DEF EdgeModels
<1>2. is_node(e) => EdgeModels(M, e) = IF e > 0 THEN M[IABS(e) - NInput]
                                       ELSE Assignments \ M[IABS(e) - NInput]
   BY SMT DEF EdgeModels, is_node
<1>3. IABS(e) # TAUTOLOGY /\ ~is_node(e) =>
          EdgeModels(M, e) = IF e > 0 THEN { a \in Assignments : IABS(e) \in a }
                             ELSE { a \in Assignments : IABS(e) \notin a }
   BY SMT DEF EdgeModels, is_node
<1>4. /\ is_node(e) => EdgeSupport(M, e) = M[IABS(e) - NInput]
      /\ ~is_node(e) => EdgeSupport(M, e) = {IABS(e)}
   BY SMT DEF EdgeSupport
<1> QED BY <1>1, <1>2, <1>3, <1>4

\* Negation.
Negates(p, e) ==
    /\ e \in Int /\ -e \in Int /\ -(-e) = e /\ e # 0 /\ (-e > 0 <=> ~(e > 0))
    /\ IsEdge(p, -e) /\ IABS(-e) = IABS(e) /\ (is_node(-e) <=> is_node(e))
    /\ Meaning(p, e) \in SUBSET Assignments
    /\ Meaning(p, -e) = Assignments \ Meaning(p, e)
    /\ Mentions(p, -e) = Mentions(p, e)

LEMMA Negation ==
  ASSUME NEW p, WellFormed(p), NEW e, IsEdge(p, e)
  PROVE  Negates(p, e)
<1>1. /\ e \in Int /\ -e \in Int /\ -(-e) = e /\ e # 0 /\ (-e > 0 <=> ~(e > 0))
      /\ IABS(-e) = IABS(e)
   BY Sizes DEF IsEdge, IABS
<1>2. IsEdge(p, -e) /\ (is_node(-e) <=> is_node(e))
   BY <1>1 DEF IsEdge, is_node
<1>3. CASE IABS(e) = TAUTOLOGY
   <2>1. ~is_node(e)
      BY <1>3 DEF is_node
   <2>2. /\ Meaning(p, e) = IF e > 0 THEN Assignments ELSE {}
         /\ Meaning(p, -e) = IF -e > 0 THEN Assignments ELSE {}
         /\ Mentions(p, e) = {IABS(e)} /\ Mentions(p, -e) = {IABS(-e)}
      BY <1>1, <1>2, <1>3, <2>1, EdgeCases DEF Meaning, Mentions
   <2> QED BY <1>1, <1>2, <2>2 DEF Negates
<1>4. CASE is_node(e)
   <2>1. IABS(e) - NInput \in 1 .. Len(p.nodes)
      BY <1>1, <1>4, Sizes DEF IsEdge, is_node, IABS
   <2>2. ModelsOf(p, AllModels(p))
      BY Sizes, ModelsFacts
   <2> DEFINE m == AllModels(p)[IABS(e) - NInput]
   <2>3. m \in SUBSET Assignments
      BY <2>1, <2>2, LenProperties DEF ModelsOf
   <2>4. /\ Meaning(p, e) = IF e > 0 THEN m ELSE Assignments \ m
         /\ Meaning(p, -e) = IF -e > 0 THEN m ELSE Assignments \ m
         /\ Mentions(p, e) = Mentions(p, -e)
      BY <1>1, <1>2, <1>4, EdgeCases DEF Meaning, Mentions
   <2> HIDE DEF m
   <2> QED BY <1>1, <1>2, <2>3, <2>4 DEF Negates
<1>5. CASE IABS(e) # TAUTOLOGY /\ ~is_node(e)
   <2>1. /\ Meaning(p, e) = IF e > 0 THEN { a \in Assignments : IABS(e) \in a }
                            ELSE { a \in Assignments : IABS(e) \notin a }
         /\ Meaning(p, -e) = IF -e > 0 THEN { a \in Assignments : IABS(e) \in a }
                             ELSE { a \in Assignments : IABS(e) \notin a }
         /\ Mentions(p, e) = {IABS(e)} /\ Mentions(p, -e) = {IABS(e)}
      BY <1>1, <1>2, <1>5, EdgeCases DEF Meaning, Mentions
   <2>2. CASE e > 0
      BY <1>1, <1>2, <2>1, <2>2 DEF Negates
   <2>3. CASE ~(e > 0)
      BY <1>1, <1>2, <2>1, <2>3 DEF Negates
   <2> QED BY <2>2, <2>3
<1> QED BY <1>3, <1>4, <1>5

\* The constants.
LEMMA Constants ==
  ASSUME NEW p
  PROVE  /\ Meaning(p, TAUTOLOGY) = Assignments /\ Meaning(p, CONFLICT) = {}
         /\ IsEdge(p, TAUTOLOGY) /\ IsEdge(p, CONFLICT)
         /\ IABS(TAUTOLOGY) = TAUTOLOGY /\ IABS(CONFLICT) = TAUTOLOGY
         /\ TAUTOLOGY \in Int /\ CONFLICT \in Int /\ TAUTOLOGY > 0 /\ ~(CONFLICT > 0)
         /\ -TAUTOLOGY = CONFLICT /\ -CONFLICT = TAUTOLOGY /\ TAUTOLOGY # CONFLICT
         /\ ~is_node(TAUTOLOGY) /\ ~is_node(CONFLICT)
         /\ \A e \in Int : IABS(e) = TAUTOLOGY <=> e \in {TAUTOLOGY, CONFLICT}
<1>1. /\ TAUTOLOGY \in Int /\ CONFLICT \in Int /\ TAUTOLOGY > 0 /\ ~(CONFLICT > 0)
      /\ -TAUTOLOGY = CONFLICT /\ -CONFLICT = TAUTOLOGY /\ TAUTOLOGY # CONFLICT
   <2>1. TAUTOLOGY \in Int /\ TAUTOLOGY > 0
      BY SMT DEF TAUTOLOGY
   <2> QED BY <2>1, SMT DEF CONFLICT
<1>2. IABS(TAUTOLOGY) = TAUTOLOGY /\ IABS(CONFLICT) = TAUTOLOGY
   BY <1>1 DEF IABS
<1>3. IsEdge(p, TAUTOLOGY) /\ IsEdge(p, CONFLICT) /\ ~is_node(TAUTOLOGY) /\ ~is_node(CONFLICT)
   BY <1>1, <1>2 DEF IsEdge, is_node
<1>4. ASSUME NEW e \in Int
      PROVE  IABS(e) = TAUTOLOGY <=> e \in {TAUTOLOGY, CONFLICT}
   BY <1>1 DEF IABS
<1>5. Meaning(p, TAUTOLOGY) = Assignments /\ Meaning(p, CONFLICT) = {}
   BY <1>1, <1>2, EdgeCases DEF Meaning
<1> QED BY <1>1, <1>2, <1>3, <1>4, <1>5

\* The edges that are neither constants nor nodes.
LEMMA LiteralMeaning ==
  ASSUME NEW p, WellFormed(p), NEW e, IsEdge(p, e), ~is_node(e), IABS(e) # TAUTOLOGY
  PROVE  /\ IABS(e) \in InputVariables
         /\ Meaning(p, e) = { a \in Assignments : Holds(a, e) }
         /\ Mentions(p, e) = {IABS(e)}
<1>1. e \in Int /\ e # 0 /\ IABS(e) \in InputVariables
   BY Sizes DEF IsEdge, IABS, is_node, InputVariables
<1>2. Mentions(p, e) = {IABS(e)}
   BY EdgeCases DEF Mentions
<1>3. CASE e > 0
   <2>1. IABS(e) = e /\ Meaning(p, e) = { a \in Assignments : e \in a }
      BY <1>1, <1>3, EdgeCases DEF Meaning, IABS
   <2> QED BY <1>1, <1>2, <1>3, <2>1 DEF Holds
<1>4. CASE ~(e > 0)
   <2>1. IABS(e) = -e /\ Meaning(p, e) = { a \in Assignments : -e \notin a }
      BY <1>1, <1>4, EdgeCases DEF Meaning, IABS
   <2> QED BY <1>1, <1>2, <1>4, <2>1 DEF Holds
<1> QED BY <1>1, <1>2, <1>3, <1>4

\* A conjunction or a disjunction of edges.
Joined(p, type, edges) ==
    IF type = "SUM" THEN { a \in Assignments : \E x \in edges : a \in Meaning(p, x) }
    ELSE { a \in Assignments : \A x \in edges : a \in Meaning(p, x) }

MentionedBy(p, edges) ==
    { v \in InputVariables : \E x \in edges : v \in Mentions(p, x) }

LEMMA NodeModelsJoined ==
  ASSUME NEW p, NEW node
  PROVE  /\ NodeModels(AllModels(p), node) = Joined(p, node.type, ToSet(node.args))
         /\ NodeSupport(AllSupports(p), node) = MentionedBy(p, ToSet(node.args))
  BY DEF NodeModels, NodeSupport, Joined, MentionedBy, Meaning, Mentions

\* A node stands for its arguments, which are older.
IsNode(p, e, node) ==
    /\ IABS(e) - NInput \in 1 .. Len(p.nodes)
    /\ node = p.nodes[IABS(e) - NInput]
    /\ node \in Node /\ node.args \in Seq(Int) /\ node.type \in PogType
    /\ \A x \in ToSet(node.args) : IsEdge(p, x) /\ IABS(x) \in 1 .. IABS(e) - 1
                                     /\ IABS(x) # TAUTOLOGY
    /\ e > 0 => Meaning(p, e) = Joined(p, node.type, ToSet(node.args))
    /\ Mentions(p, e) = MentionedBy(p, ToSet(node.args))
    /\ node.data_only = (Mentions(p, e) \subseteq p.data_variables)
    /\ node.projection_only = (Mentions(p, e) \cap p.data_variables = {})

LEMMA NodeMeaning ==
  ASSUME NEW p, WellFormed(p), NEW e, IsEdge(p, e), is_node(e)
  PROVE  IsNode(p, e, NodeOf(p, e))
<1> DEFINE i == IABS(e) - NInput
           node == NodeOf(p, e)
<1>1. e \in Int /\ IABS(e) \in Nat /\ i \in 1 .. Len(p.nodes)
   BY Sizes DEF IsEdge, is_node, IABS
<1>2. node = p.nodes[i]
   BY DEF NodeOf
<1>3. node \in Node
   BY <1>1, <1>2, Sizes
<1>4. node.args \in Seq(Int) /\ node.type \in PogType
   BY <1>3 DEF Node
<1>5. ModelsOf(p, AllModels(p)) /\ SupportsOf(p, AllSupports(p))
   BY Sizes, ModelsFacts, SupportsFacts
<1>6. ASSUME e > 0
      PROVE  Meaning(p, e) = Joined(p, node.type, ToSet(node.args))
   <2>1. Meaning(p, e) = AllModels(p)[i]
      BY <1>6, EdgeCases DEF Meaning
   <2>2. AllModels(p)[i] = NodeModels(AllModels(p), node)
      BY <1>1, <1>2, <1>5 DEF ModelsOf
   <2> HIDE DEF node, i
   <2> QED BY <2>1, <2>2, NodeModelsJoined
<1>7. Mentions(p, e) = AllSupports(p)[i]
   BY EdgeCases DEF Mentions
<1>8. AllSupports(p)[i] = NodeSupport(AllSupports(p), node)
   BY <1>1, <1>2, <1>5 DEF SupportsOf
<1>9. Mentions(p, e) = MentionedBy(p, ToSet(node.args))
   <2> HIDE DEF node, i
   <2> QED BY <1>7, <1>8, NodeModelsJoined
<1>10. ASSUME NEW x \in ToSet(node.args)
       PROVE  IsEdge(p, x) /\ IABS(x) \in 1 .. IABS(e) - 1 /\ IABS(x) # TAUTOLOGY
   <2>1. x \in Int /\ IABS(x) \in 1 .. NInput + i - 1
      BY <1>1, <1>2, Sizes DEF Layered
   <2>2. IABS(x) \in 1 .. IABS(e) - 1 /\ IABS(x) \in 1 .. NInput + Len(p.nodes)
      BY <1>1, <2>1, Sizes, SMTT(30)
   <2> QED BY <2>1, <2>2, Sizes DEF IsEdge
<1>11. /\ node.data_only = (AllSupports(p)[i] \subseteq p.data_variables)
       /\ node.projection_only = (AllSupports(p)[i] \cap p.data_variables = {})
   BY <1>1, <1>2, Sizes DEF WellFormed
<1>12. /\ node.data_only = (Mentions(p, e) \subseteq p.data_variables)
       /\ node.projection_only = (Mentions(p, e) \cap p.data_variables = {})
   BY <1>7, <1>11
<1>13. node = p.nodes[IABS(e) - NInput] /\ IABS(e) - NInput \in 1 .. Len(p.nodes)
   BY <1>1, <1>2
<1> HIDE DEF node, i
<1>14. IsNode(p, e, node)
   BY <1>13, <1>3, <1>4, <1>6, <1>9, <1>10, <1>12, Zenon DEF IsNode
<1> QED BY <1>14 DEF node

-----------------------------------------------------------------------------
(* Graphs that grow *)

Grown(p, q) ==
    /\ q.data_variables = p.data_variables
    /\ Len(p.nodes) <= Len(q.nodes)
    /\ \A i \in 1 .. Len(p.nodes) : q.nodes[i] = p.nodes[i]

LEMMA GrownTransitive ==
  ASSUME NEW p, WellFormed(p), NEW q, WellFormed(q), NEW r, WellFormed(r),
         Grown(p, q), Grown(q, r)
  PROVE  Grown(p, r)
<1>1. /\ Len(p.nodes) \in Nat /\ Len(q.nodes) \in Nat /\ Len(r.nodes) \in Nat
   BY Sizes
<1> QED BY <1>1 DEF Grown

\* The nodes there were keep their models and variables.
LEMMA GrownLists ==
  ASSUME NEW p, Layered(p), NEW q, Layered(q), Grown(p, q)
  PROVE  \A i \in 1 .. Len(p.nodes) :
             /\ AllModels(p)[i] = AllModels(q)[i]
             /\ AllSupports(p)[i] = AllSupports(q)[i]
<1> DEFINE n == Len(p.nodes)
           S == { i \in 1 .. n : /\ AllModels(p)[i] = AllModels(q)[i]
                                 /\ AllSupports(p)[i] = AllSupports(q)[i] }
<1>1. /\ n \in Nat /\ Len(q.nodes) \in Nat /\ n <= Len(q.nodes)
      /\ NInput + n < TAUTOLOGY /\ TAUTOLOGY \in Int
   BY LenProperties DEF Layered, Grown, Fits, TAUTOLOGY
<1>2. ASSUME NEW i \in 1 .. n, \A j \in 1 .. i - 1 : j \in S
      PROVE  i \in S
   <2>1. i \in 1 .. Len(q.nodes) /\ q.nodes[i] = p.nodes[i]
      BY <1>1 DEF Grown
   <2>2. /\ ModelsOf(p, AllModels(p)) /\ ModelsOf(q, AllModels(q))
         /\ SupportsOf(p, AllSupports(p)) /\ SupportsOf(q, AllSupports(q))
      BY ModelsFacts, SupportsFacts
   <2>3. /\ AllModels(p)[i] = NodeModels(AllModels(p), p.nodes[i])
         /\ AllModels(q)[i] = NodeModels(AllModels(q), p.nodes[i])
         /\ AllSupports(p)[i] = NodeSupport(AllSupports(p), p.nodes[i])
         /\ AllSupports(q)[i] = NodeSupport(AllSupports(q), p.nodes[i])
      BY <2>1, <2>2 DEF ModelsOf, SupportsOf
   <2>4. i - 1 \in Nat /\ NInput + (i - 1) < TAUTOLOGY
      BY <1>1, NInputAssumption
   <2>5. \A j \in 1 .. i - 1 : /\ AllModels(p)[j] = AllModels(q)[j]
                               /\ AllSupports(p)[j] = AllSupports(q)[j]
      BY <1>2
   <2>6. \A e \in ToSet(p.nodes[i].args) : e \in Int /\ IABS(e) \in 1 .. NInput + (i - 1)
      BY <1>1, NInputAssumption DEF Layered
   <2>7. \A e \in ToSet(p.nodes[i].args) :
            /\ EdgeModels(AllModels(p), e) = EdgeModels(AllModels(q), e)
            /\ EdgeSupport(AllSupports(p), e) = EdgeSupport(AllSupports(q), e)
      BY <2>4, <2>5, <2>6, EdgeModelsAgree
   <2>8. /\ NodeModels(AllModels(p), p.nodes[i]) = NodeModels(AllModels(q), p.nodes[i])
         /\ NodeSupport(AllSupports(p), p.nodes[i]) = NodeSupport(AllSupports(q), p.nodes[i])
      BY <2>7 DEF NodeModels, NodeSupport
   <2> QED BY <2>3, <2>8
<1> HIDE DEF S, n
<1>3. 1 .. n \subseteq S
   BY <1>1, <1>2, StrongInduction
<1> QED BY <1>3 DEF S, n

\* Edges keep what they mean.
KeepsEdges(p, q) ==
    \A e : IsEdge(p, e) =>
        /\ IsEdge(q, e)
        /\ Meaning(q, e) = Meaning(p, e)
        /\ Mentions(q, e) = Mentions(p, e)
        /\ is_node(e) => NodeOf(q, e) = NodeOf(p, e)

LEMMA GrownEdges ==
  ASSUME NEW p, Layered(p), NEW q, Layered(q), Grown(p, q)
  PROVE  KeepsEdges(p, q)
<1>1. /\ Len(p.nodes) \in Nat /\ Len(q.nodes) \in Nat /\ Len(p.nodes) <= Len(q.nodes)
      /\ NInput + Len(p.nodes) < TAUTOLOGY /\ TAUTOLOGY \in Int
   BY LenProperties DEF Layered, Grown, Fits, TAUTOLOGY
<1> SUFFICES ASSUME NEW e, IsEdge(p, e)
             PROVE  /\ IsEdge(q, e)
                    /\ Meaning(q, e) = Meaning(p, e)
                    /\ Mentions(q, e) = Mentions(p, e)
                    /\ is_node(e) => NodeOf(q, e) = NodeOf(p, e)
   BY DEF KeepsEdges
<1>2. e \in Int /\ IsEdge(q, e)
   BY <1>1, NInputAssumption DEF IsEdge
<1>3. CASE IABS(e) = TAUTOLOGY
   BY <1>2, <1>3, EdgeCases DEF Meaning, Mentions, is_node
<1>4. CASE IABS(e) # TAUTOLOGY
   <2>1. IABS(e) \in 1 .. NInput + Len(p.nodes)
      BY <1>4 DEF IsEdge
   <2>2. \A i \in 1 .. Len(p.nodes) : AllModels(p)[i] = AllModels(q)[i]
      BY GrownLists
   <2>3. \A i \in 1 .. Len(p.nodes) : AllSupports(p)[i] = AllSupports(q)[i]
      BY GrownLists
   <2> DEFINE k == Len(p.nodes)
   <2>a. k \in Nat /\ NInput + k < TAUTOLOGY /\ e \in Int /\ IABS(e) \in 1 .. NInput + k
      BY <1>1, <1>2, <2>1
   <2>b. /\ \A i \in 1 .. k : AllModels(p)[i] = AllModels(q)[i]
         /\ \A i \in 1 .. k : AllSupports(p)[i] = AllSupports(q)[i]
      BY <2>2, <2>3
   <2> HIDE DEF k
   <2>c. EdgeModels(AllModels(p), e) = EdgeModels(AllModels(q), e)
      BY <2>a, <2>b, EdgeModelsAgree
   <2>d. EdgeSupport(AllSupports(p), e) = EdgeSupport(AllSupports(q), e)
      BY <2>a, <2>b, EdgeModelsAgree
   <2>4. Meaning(q, e) = Meaning(p, e)
      BY <2>c DEF Meaning
   <2>5. Mentions(q, e) = Mentions(p, e)
      BY <2>d DEF Mentions
   <2>6. is_node(e) => IABS(e) - NInput \in 1 .. Len(p.nodes)
      BY <2>1, NInputAssumption, <1>1 DEF is_node
   <2> QED BY <1>2, <2>4, <2>5, <2>6 DEF NodeOf, Grown
<1> QED BY <1>3, <1>4

-----------------------------------------------------------------------------
(* The models of an edge do not depend on variables it does not mention. *)

Agree(p, e) ==
    \A a, b \in Assignments :
        a \cap Mentions(p, e) = b \cap Mentions(p, e) => (a \in Meaning(p, e) <=> b \in Meaning(p, e))

LEMMA Dependence ==
  ASSUME NEW p, WellFormed(p), NEW e, IsEdge(p, e)
  PROVE  Agree(p, e)
<1> DEFINE n == NInput + Len(p.nodes)
           S == { k \in 1 .. n : \A x \in Int : IABS(x) = k => Agree(p, x) }
<1>1. n \in Nat /\ n < TAUTOLOGY /\ TAUTOLOGY \in Nat
   BY Sizes
<1>2. ASSUME NEW k \in 1 .. n, \A j \in 1 .. k - 1 : j \in S
      PROVE  k \in S
   <2>1. ASSUME NEW x \in Int, IABS(x) = k, x > 0
         PROVE  Agree(p, x)
      <3>1. IsEdge(p, x) /\ IABS(x) # TAUTOLOGY
         BY <1>1, <2>1 DEF IsEdge
      <3>2. CASE ~is_node(x)
         BY <2>1, <3>1, <3>2, LiteralMeaning DEF Agree, Holds, IABS
      <3>3. CASE is_node(x)
         <4>1. IsNode(p, x, NodeOf(p, x))
            BY <3>1, <3>3, NodeMeaning
         <4> DEFINE args == ToSet(NodeOf(p, x).args)
         <4>2. \A y \in args : y \in Int /\ IABS(y) \in 1 .. k - 1
            BY <2>1, <4>1 DEF IsNode, IsEdge
         <4>3. \A y \in args : Agree(p, y)
            BY <1>2, <4>2
         <4>4. Mentions(p, x) = MentionedBy(p, args)
            BY <4>1 DEF IsNode
         <4>5. Meaning(p, x) = Joined(p, NodeOf(p, x).type, args)
            BY <2>1, <4>1 DEF IsNode
         <4> HIDE DEF args
         <4>6. ASSUME NEW a \in Assignments, NEW b \in Assignments, NEW y \in args,
                      a \cap Mentions(p, x) = b \cap Mentions(p, x)
               PROVE  a \in Meaning(p, y) <=> b \in Meaning(p, y)
            <5>1. \A v \in InputVariables : v \in Mentions(p, y) => v \in Mentions(p, x)
               BY <4>4 DEF MentionedBy
            <5>2. a \cap Mentions(p, y) = b \cap Mentions(p, y)
               BY <4>6, <5>1 DEF Assignments
            <5> QED BY <4>3, <5>2 DEF Agree
         <4> QED BY <4>5, <4>6 DEF Agree, Joined
      <3> QED BY <3>2, <3>3
   <2>2. ASSUME NEW x \in Int, IABS(x) = k
         PROVE  Agree(p, x)
      <3>1. CASE x > 0
         BY <2>1, <2>2, <3>1
      <3>2. CASE ~(x > 0)
         <4>1. -x \in Int /\ IABS(-x) = k /\ -x > 0
            BY <2>2, <3>2 DEF IABS
         <4>2. IsEdge(p, -x)
            BY <1>1, <4>1 DEF IsEdge
         <4>3. Agree(p, -x) /\ Negates(p, -x)
            BY <2>1, <4>1, <4>2, Negation
         <4>4. -(-x) = x
            OBVIOUS
         <4>5. Meaning(p, x) = Assignments \ Meaning(p, -x) /\ Mentions(p, x) = Mentions(p, -x)
            BY <4>3, <4>4 DEF Negates
         <4> QED BY <4>3, <4>5 DEF Agree
      <3> QED BY <3>1, <3>2
   <2> QED BY <2>2
<1>3. 1 .. n \subseteq S
   <2> HIDE DEF S, n
   <2> QED BY <1>1, <1>2, StrongInduction
<1>4. CASE IABS(e) = TAUTOLOGY
   <2>1. e \in {TAUTOLOGY, CONFLICT}
      BY <1>4, Constants DEF IsEdge
   <2> QED BY <2>1, Constants DEF Agree
<1>5. CASE IABS(e) # TAUTOLOGY
   BY <1>3, <1>5 DEF IsEdge
<1> QED BY <1>4, <1>5

-----------------------------------------------------------------------------
(* Flags, and the arguments of a countable graph *)

\* The variables an edge mentions, and what the flags say of them.
LEMMA Flags ==
  ASSUME NEW p, WellFormed(p), NEW e, IsEdge(p, e), IABS(e) # TAUTOLOGY
  PROVE  /\ Mentions(p, e) \subseteq InputVariables
         /\ only_data_variables(p, e) = (Mentions(p, e) \subseteq p.data_variables)
         /\ only_projection_variables(p, e) = (Mentions(p, e) \cap p.data_variables = {})
<1>1. CASE is_node(e)
   <2>1. IsNode(p, e, NodeOf(p, e))
      BY <1>1, NodeMeaning
   <2>2. Mentions(p, e) \subseteq InputVariables
      BY <2>1 DEF IsNode, MentionedBy
   <2>3. /\ NodeOf(p, e).data_only = (Mentions(p, e) \subseteq p.data_variables)
         /\ NodeOf(p, e).projection_only = (Mentions(p, e) \cap p.data_variables = {})
      BY <2>1 DEF IsNode
   <2> QED BY <1>1, <2>2, <2>3 DEF only_data_variables, only_projection_variables
<1>2. CASE ~is_node(e)
   <2>1. Mentions(p, e) = {IABS(e)} /\ IABS(e) \in InputVariables
      BY <1>2, LiteralMeaning
   <2> QED BY <1>2, <2>1 DEF only_data_variables, only_projection_variables
<1> QED BY <1>1, <1>2

\* The rules of the representation for one node.
Separate(p, type, x, y) ==
    IF type = "SUM" THEN Meaning(p, x) \cap Meaning(p, y) = {}
    ELSE Mentions(p, x) \cap Mentions(p, y) = {}

Independent(p, node) ==
    \A i, j \in DOMAIN node.args :
        i < j => Separate(p, node.type, node.args[i], node.args[j])

LEMMA CountableNodes ==
  ASSUME NEW p
  PROVE  Countable(p) <=> \A id \in DOMAIN p.nodes : Independent(p, p.nodes[id])
  BY DEF Countable, Independent, Separate, Meaning, Mentions

-----------------------------------------------------------------------------
(* The node under construction *)

\* The function a node stands for when one more argument is added.
Extended(type, f, g) == IF type = "SUM" THEN f \cup g ELSE f \cap g

LEMMA JoinedUnion ==
  ASSUME NEW p, NEW type, NEW X, NEW Y
  PROVE  Joined(p, type, X \cup Y) = Extended(type, Joined(p, type, X), Joined(p, type, Y))
  BY DEF Joined, Extended

LEMMA JoinedFacts ==
  ASSUME NEW p, WellFormed(p), NEW type
  PROVE  /\ Joined(p, type, {}) = IF type = "SUM" THEN {} ELSE Assignments
         /\ \A e : IsEdge(p, e) => Joined(p, type, {e}) = Meaning(p, e)
         /\ \A x, y : Joined(p, type, x \cup y) =
                        Extended(type, Joined(p, type, x), Joined(p, type, y))
         /\ \A x, y : MentionedBy(p, x \cup y) = MentionedBy(p, x) \cup MentionedBy(p, y)
         /\ \A e : IsEdge(p, e) /\ IABS(e) # TAUTOLOGY => MentionedBy(p, {e}) = Mentions(p, e)
<1>1. ASSUME NEW e, IsEdge(p, e)
      PROVE  Joined(p, type, {e}) = Meaning(p, e)
   BY <1>1, Negation DEF Joined, Negates
<1>2. ASSUME NEW e, IsEdge(p, e), IABS(e) # TAUTOLOGY
      PROVE  MentionedBy(p, {e}) = Mentions(p, e)
   BY <1>2, Flags DEF MentionedBy
<1>3. \A x, y : Joined(p, type, x \cup y) =
                  Extended(type, Joined(p, type, x), Joined(p, type, y))
   BY DEF Joined, Extended
<1>4. \A x, y : MentionedBy(p, x \cup y) = MentionedBy(p, x) \cup MentionedBy(p, y)
   BY DEF MentionedBy
<1>5. Joined(p, type, {}) = IF type = "SUM" THEN {} ELSE Assignments
   BY DEF Joined
<1> QED BY <1>1, <1>2, <1>3, <1>4, <1>5

\* Edges that can stand for another one among the arguments of a node.
StandsFor(p, type, s, e) ==
    /\ s \in Seq(Int)
    /\ \A x \in ToSet(s) : IsEdge(p, x) /\ IABS(x) # TAUTOLOGY
    /\ Joined(p, type, ToSet(s)) = Meaning(p, e)
    /\ MentionedBy(p, ToSet(s)) = Mentions(p, e)
    /\ Countable(p) /\ type = "PRODUCT" =>
         \A i, j \in 1 .. Len(s) : i < j => Mentions(p, s[i]) \cap Mentions(p, s[j]) = {}
    /\ type = "SUM" => s = << e >>

LEMMA Splicing ==
  ASSUME NEW p, WellFormed(p), NEW node, NEW e, IsEdge(p, e), IABS(e) # TAUTOLOGY
  PROVE  StandsFor(p, node.type, Spliced(p, node, e), e)
<1> DEFINE s == Spliced(p, node, e)
<1>1. e \in Int
   BY DEF IsEdge
<1>2. CASE is_node(e) /\ e > 0 /\ node.type = "PRODUCT" /\ NodeOf(p, e).type = "PRODUCT"
   <2>1. IsNode(p, e, NodeOf(p, e))
      BY <1>2, NodeMeaning
   <2>2. s = NodeOf(p, e).args
      BY <1>2 DEF Spliced
   <2>3. ASSUME Countable(p), NEW i \in 1 .. Len(s), NEW j \in 1 .. Len(s), i < j
         PROVE  Mentions(p, s[i]) \cap Mentions(p, s[j]) = {}
      <3>1. IABS(e) - NInput \in DOMAIN p.nodes /\ NodeOf(p, e) = p.nodes[IABS(e) - NInput]
         BY <2>1, Sizes DEF IsNode
      <3>2. Independent(p, NodeOf(p, e))
         BY <2>3, <3>1, CountableNodes
      <3>3. i \in DOMAIN s /\ j \in DOMAIN s
         BY <2>1, <2>2, LenProperties DEF IsNode
      <3>4. Separate(p, NodeOf(p, e).type, s[i], s[j])
         BY <2>2, <2>3, <3>2, <3>3 DEF Independent
      <3> QED BY <1>2, <3>4 DEF Separate
   <2> QED BY <1>2, <2>1, <2>2, <2>3 DEF StandsFor, IsNode
<1>3. CASE ~(is_node(e) /\ e > 0 /\ node.type = "PRODUCT" /\ NodeOf(p, e).type = "PRODUCT")
   <2>1. s = << e >>
      BY <1>3 DEF Spliced
   <2>2. s \in Seq(Int) /\ ToSet(s) = {e} /\ Len(s) = 1
      BY <1>1, <2>1 DEF ToSet
   <2>3. Joined(p, node.type, {e}) = Meaning(p, e) /\ MentionedBy(p, {e}) = Mentions(p, e)
      BY JoinedFacts
   <2> QED BY <2>1, <2>2, <2>3 DEF StandsFor
<1> QED BY <1>2, <1>3

\* A node of which some arguments have been added: it stands for f, and unless
\* it is decided its arguments mention variables of V, as its flags tell.
Building(p, type, node, f, V) ==
    /\ node \in Node /\ node.type = type
    /\ \A x \in ToSet(node.args) : IsEdge(p, x)
    /\ Joined(p, type, ToSet(node.args)) = f
    /\ \/ node.args = << Dominating(type) >>
       \/ /\ \A x \in ToSet(node.args) : IABS(x) # TAUTOLOGY
          /\ MentionedBy(p, ToSet(node.args)) \subseteq V
          /\ node.data_only = (MentionedBy(p, ToSet(node.args)) \subseteq p.data_variables)
          /\ node.projection_only = (MentionedBy(p, ToSet(node.args)) \cap p.data_variables = {})

LEMMA Starting ==
  ASSUME NEW p, WellFormed(p), NEW type \in PogType
  PROVE  /\ Building(p, type, start_node(type), Joined(p, type, {}), {})
         /\ Independent(p, start_node(type))
<1> DEFINE node == start_node(type)
<1>1. /\ node \in Node /\ node.type = type /\ node.args = << >>
      /\ node.data_only = TRUE /\ node.projection_only = TRUE
   BY EmptySeq DEF start_node, Node
<1>2. ToSet(node.args) = {} /\ DOMAIN node.args = {}
   BY <1>1 DEF ToSet
<1>3. MentionedBy(p, {}) = {}
   BY DEF MentionedBy
<1> HIDE DEF node
<1> QED BY <1>1, <1>2, <1>3 DEF Building, Independent, node

\* The cases of add_argument.
Decides(node)      == node.args = << Dominating(node.type) >>
Complements(node, e) == ~Decides(node) /\ node.type = "SUM" /\ node.args = << -e >>
Attaches(node, e)      == ~Decides(node) /\ ~Complements(node, e)

WithArgument(p, node, e) ==
    [node EXCEPT !.args            = @ \o Spliced(p, node, e),
                 !.data_only       = @ /\ only_data_variables(p, e),
                 !.projection_only = @ /\ only_projection_variables(p, e)]

LEMMA AddDecided ==
  ASSUME NEW p, NEW node, NEW e, Decides(node)
  PROVE  add_argument(p, node, e) = node
  BY SMT DEF add_argument, Decides

LEMMA AddComplement ==
  ASSUME NEW p, NEW node, NEW e, Complements(node, e)
  PROVE  add_argument(p, node, e) = [node EXCEPT !.args = << TAUTOLOGY >>]
  BY SMT DEF add_argument, Complements, Decides

LEMMA AddNeutral ==
  ASSUME NEW p, NEW node, NEW e, Attaches(node, e), e = Neutral(node.type)
  PROVE  add_argument(p, node, e) = node
<1>1. e # Dominating(node.type)
   BY Constants DEF Dominating, Neutral
<1> QED BY <1>1, SMT DEF add_argument, Attaches, Complements, Decides

LEMMA AddDominating ==
  ASSUME NEW p, NEW node, Attaches(node, Dominating(node.type)),
         Dominating(node.type) # Neutral(node.type)
  PROVE  add_argument(p, node, Dominating(node.type)) =
           [node EXCEPT !.args = << Dominating(node.type) >>]
  BY SMT DEF add_argument, Attaches, Complements, Decides

LEMMA AddOther ==
  ASSUME NEW p, NEW node, NEW e, Attaches(node, e), e # Neutral(node.type), e # Dominating(node.type)
  PROVE  add_argument(p, node, e) = WithArgument(p, node, e)
  BY SMT DEF add_argument, Attaches, Complements, Decides, WithArgument

\* What a node with one argument, a constant, stands for.
LEMMA Sentinels ==
  ASSUME NEW p, WellFormed(p), NEW type \in PogType
  PROVE  /\ {Dominating(type), Neutral(type)} = {TAUTOLOGY, CONFLICT}
         /\ Dominating(type) \in Int /\ Neutral(type) \in Int
         /\ IsEdge(p, Dominating(type)) /\ IsEdge(p, Neutral(type))
         /\ Meaning(p, Neutral(type)) = Joined(p, type, {})
         /\ \A g \in SUBSET Assignments :
              /\ Extended(type, g, Meaning(p, Neutral(type))) = g
              /\ Extended(type, g, Meaning(p, Dominating(type))) = Meaning(p, Dominating(type))
              /\ Extended(type, Meaning(p, Dominating(type)), g) = Meaning(p, Dominating(type))
<1>1. CASE type = "SUM"
   BY <1>1, Constants, JoinedFacts DEF Dominating, Neutral, Extended
<1>2. CASE type = "PRODUCT"
   BY <1>2, Constants, JoinedFacts DEF Dominating, Neutral, Extended
<1> QED BY <1>1, <1>2 DEF PogType

LEMMA ToSetOne ==
  ASSUME NEW e \in Int
  PROVE  << e >> \in Seq(Int) /\ ToSet(<< e >>) = {e} /\ DOMAIN << e >> = {1}
  BY DEF ToSet

\* Adding an argument extends what the node stands for.
LEMMA Adding ==
  ASSUME NEW p, WellFormed(p), NEW type \in PogType, NEW node, NEW f, NEW V,
         Building(p, type, node, f, V), NEW e, IsEdge(p, e)
  PROVE  Building(p, type, add_argument(p, node, e),
                  Extended(type, f, Meaning(p, e)), V \cup Mentions(p, e))
<1> DEFINE new == add_argument(p, node, e)
           g   == Meaning(p, e)
           W   == V \cup Mentions(p, e)
           edges == ToSet(node.args)
<1> SUFFICES Building(p, type, new, Extended(type, f, g), W)
   OBVIOUS
<1>1. /\ node \in Node /\ node.type = type /\ node.args \in Seq(Int)
      /\ node.data_only \in BOOLEAN /\ node.projection_only \in BOOLEAN
      /\ e \in Int /\ -e \in Int
   BY DEF Building, Node, IsEdge
<1>2. g \in SUBSET Assignments /\ Negates(p, e)
   BY Negation DEF Negates
<1>3. f = Joined(p, type, edges) /\ f \in SUBSET Assignments
   BY DEF Building, Joined
<1>4. CASE Decides(node)
   <2>1. new = node
      BY <1>4, AddDecided
   <2>2. edges = {Dominating(type)} /\ node.args = << Dominating(type) >>
      BY <1>1, <1>4, Sentinels, ToSetOne DEF Decides
   <2>3. f = Meaning(p, Dominating(type))
      BY <1>3, <2>2, Sentinels, JoinedFacts
   <2>4. Extended(type, f, g) = f
      BY <1>2, <2>3, Sentinels
   <2> QED BY <2>1, <2>2, <2>4 DEF Building
<1>5. CASE Complements(node, e)
   <2>1. new = [node EXCEPT !.args = << TAUTOLOGY >>]
      BY <1>5, AddComplement
   <2>2. edges = {-e}
      BY <1>1, <1>5, ToSetOne DEF Complements
   <2>3. f = Meaning(p, -e)
      BY <1>2, <1>3, <2>2, JoinedFacts DEF Negates
   <2>4. Extended(type, f, g) = Assignments
      BY <1>1, <1>2, <1>5, <2>3 DEF Extended, Negates, Complements
   <2>5. << TAUTOLOGY >> \in Seq(Int) /\ ToSet(<< TAUTOLOGY >>) = {TAUTOLOGY}
      BY Constants, ToSetOne
   <2>6. new \in Node /\ new.type = type /\ new.args = << TAUTOLOGY >>
      BY <1>1, <2>1, <2>5 DEF Node
   <2>7. Joined(p, type, {TAUTOLOGY}) = Assignments
      BY Constants, JoinedFacts
   <2>8. Dominating(type) = TAUTOLOGY
      BY <1>1, <1>5 DEF Dominating, Complements
   <2> HIDE DEF new
   <2> QED BY <2>4, <2>5, <2>6, <2>7, <2>8, Constants DEF Building
<1>6. CASE Attaches(node, e)
   <2>a. node.args # << Dominating(type) >>
      BY <1>1, <1>6 DEF Attaches, Decides
   <2>1. CASE e = Neutral(type)
      <3>1. new = node
         BY <1>1, <1>6, <2>1, AddNeutral
      <3>2. Extended(type, f, g) = f
         BY <1>3, <2>1, Sentinels
      <3>3. \A U : U \subseteq V => U \subseteq W
         OBVIOUS
      <3> QED BY <2>a, <3>1, <3>2, <3>3 DEF Building
   <2>2. CASE e # Neutral(type) /\ e = Dominating(type)
      <3>0. e # Neutral(node.type) /\ e = Dominating(node.type) /\ Attaches(node, e)
         BY <1>1, <1>6, <2>2
      <3>1. new = [node EXCEPT !.args = << e >>]
         BY <3>0, AddDominating
      <3>2. Extended(type, f, g) = g
         BY <1>3, <2>2, Sentinels
      <3>3. << e >> \in Seq(Int) /\ ToSet(<< e >>) = {e}
         BY <1>1, ToSetOne
      <3>4. new \in Node /\ new.type = type /\ new.args = << e >>
         BY <1>1, <3>1, <3>3 DEF Node
      <3>5. Joined(p, type, {e}) = g
         BY JoinedFacts
      <3> HIDE DEF new, g
      <3> QED BY <2>2, <3>2, <3>3, <3>4, <3>5 DEF Building
   <2>3. CASE e # Neutral(type) /\ e # Dominating(type)
      <3> DEFINE s == Spliced(p, node, e)
      <3>1. IABS(e) # TAUTOLOGY
         BY <1>1, <2>3, Sentinels, Constants
      <3>2. new = WithArgument(p, node, e)
         BY <1>1, <1>6, <2>3, AddOther
      <3>3. StandsFor(p, type, s, e)
         BY <1>1, <3>1, Splicing
      <3>4. node.args \o s \in Seq(Int) /\ ToSet(node.args \o s) = edges \cup ToSet(s)
         BY <1>1, <3>3, ToSetConcat DEF StandsFor
      <3>5. /\ only_data_variables(p, e) = (Mentions(p, e) \subseteq p.data_variables)
            /\ only_projection_variables(p, e) = (Mentions(p, e) \cap p.data_variables = {})
         BY <3>1, Flags
      <3>6. /\ new.data_only = (node.data_only /\ Mentions(p, e) \subseteq p.data_variables)
            /\ new.projection_only =
                  (node.projection_only /\ Mentions(p, e) \cap p.data_variables = {})
            /\ new.args = node.args \o s /\ new.type = type
            /\ new = [type |-> new.type, args |-> new.args, data_only |-> new.data_only,
                      projection_only |-> new.projection_only]
         BY <1>1, <3>2, <3>5 DEF Node, WithArgument
      <3> HIDE DEF new
      <3>7. new \in Node
         BY <1>1, <3>4, <3>6 DEF Node
      <3>16. ToSet(new.args) = edges \cup ToSet(s)
         BY <3>4, <3>6
      <3>17. Joined(p, type, ToSet(s)) = g /\ MentionedBy(p, ToSet(s)) = Mentions(p, e)
         BY <3>3 DEF StandsFor
      <3> DEFINE added == ToSet(s)
      <3> HIDE DEF edges, added
      <3>18. /\ Joined(p, type, edges \cup added) =
                   Extended(type, Joined(p, type, edges), Joined(p, type, added))
             /\ MentionedBy(p, edges \cup added) = MentionedBy(p, edges) \cup MentionedBy(p, added)
         BY JoinedFacts
      <3>8. Joined(p, type, ToSet(new.args)) = Extended(type, f, g)
         BY <1>3, <3>16, <3>17, <3>18 DEF added
      <3>9. MentionedBy(p, ToSet(new.args)) = MentionedBy(p, edges) \cup Mentions(p, e)
         BY <3>16, <3>17, <3>18 DEF added
      <3>10. \A x \in ToSet(new.args) : IsEdge(p, x) /\ IABS(x) # TAUTOLOGY
         BY <2>a, <3>3, <3>16 DEF Building, StandsFor, edges
      <3>11. /\ MentionedBy(p, edges) \subseteq V
             /\ node.data_only = (MentionedBy(p, edges) \subseteq p.data_variables)
             /\ node.projection_only = (MentionedBy(p, edges) \cap p.data_variables = {})
         BY <2>a DEF Building, edges
      <3>12. new.data_only = (MentionedBy(p, ToSet(new.args)) \subseteq p.data_variables)
         BY <3>6, <3>9, <3>11
      <3>13. new.projection_only = (MentionedBy(p, ToSet(new.args)) \cap p.data_variables = {})
         BY <3>6, <3>9, <3>11
      <3>14. MentionedBy(p, ToSet(new.args)) \subseteq W
         BY <3>9, <3>11
      <3> HIDE DEF g, W
      <3>15. new.type = type
         BY <3>6
      <3> QED BY <3>7, <3>8, <3>10, <3>12, <3>13, <3>14, <3>15 DEF Building
   <2> QED BY <2>1, <2>2, <2>3
<1> QED BY <1>4, <1>5, <1>6 DEF Attaches

-----------------------------------------------------------------------------
(* The order of the arguments *)

\* The arguments in another order.
Rearranged(s, t, place) ==
    /\ s \in Seq(Int) /\ t \in Seq(Int) /\ Len(t) = Len(s)
    /\ place \in [1 .. Len(s) -> 1 .. Len(s)]
    /\ \A i, j \in 1 .. Len(s) : place[i] = place[j] => i = j
    /\ \A j \in 1 .. Len(s) : \E i \in 1 .. Len(s) : place[i] = j
    /\ \A i \in 1 .. Len(s) : t[i] = s[place[i]]

LEMMA PairIsSequence ==
  ASSUME NEW a \in Int, NEW b \in Int
  PROVE  << a, b >> \in [1 .. 2 -> Int] /\ << a, b >>[2] = b
<1>1. << a, b >> \in Seq(Int) /\ Len(<< a, b >>) = 2
   OBVIOUS
<1>2. << a, b >> \in [1 .. Len(<< a, b >>) -> Int]
   BY <1>1, LenProperties
<1> QED BY <1>1, <1>2

\* std::sort rearranges them.
LEMMA SortedArgsRearranged ==
  ASSUME NEW s \in Seq(Int)
  PROVE  \E place : Rearranged(s, SortedArgs(s), place)
<1> DEFINE n == Len(s)
           S == { << IABS(s[i]), i >> : i \in 1 .. n }
           q == Lexicographic(S)
           pair == [i \in 1 .. n |-> << IABS(s[i]), i >>]
<1>1. n \in Nat /\ DOMAIN s = 1 .. n /\ \A i \in 1 .. n : s[i] \in Int
   BY LenProperties
<1>2. \A i \in 1 .. n : IABS(s[i]) \in Int /\ i \in Int
   BY <1>1 DEF IABS
<1>3. SortedArgs(s) = [i \in 1 .. n |-> s[q[i][2]]]
   BY <1>1 DEF SortedArgs
<1>4. \A i \in 1 .. n : pair[i] = << IABS(s[i]), i >>
   OBVIOUS
<1>5. IsFiniteSet(1 .. n) /\ Cardinality(1 .. n) = n
   <2> HIDE DEF n
   <2>1. IsFiniteSet(1 .. n) /\ Cardinality(1 .. n) = IF 1 > n THEN 0 ELSE n - 1 + 1
      BY <1>1, FS_Interval
   <2> QED BY <1>1, <2>1
<1>6. pair \in [1 .. n -> S] /\ \A x \in S : \E i \in 1 .. n : pair[i] = x
   OBVIOUS
<1>7. \A i, j \in 1 .. n : pair[i] = pair[j] => i = j
   OBVIOUS
<1>8. S \subseteq [1 .. 2 -> Int] /\ \A i \in 1 .. n : pair[i][2] = i
   BY <1>2, PairIsSequence
<1> HIDE DEF n, S, pair, q
<1>9. pair \in Surjection(1 .. n, S) /\ pair \in Injection(1 .. n, S)
   BY <1>6, <1>7, Fun_IsSurj, Fun_IsInj
<1>10. IsFiniteSet(S) /\ Cardinality(S) = n
   BY <1>5, <1>9, FS_Surjection
<1>11. q \in Seq(S) /\ ToSet(q) = S /\ Len(q) = n
   BY <1>8, <1>10, LexicographicEnumerates, 2 \in Nat DEF q
<1>12. q \in [1 .. n -> S] /\ \A x \in S : \E i \in 1 .. n : q[i] = x
   BY <1>11, ToSetSeq, LenProperties
<1>13. q \in Surjection(1 .. n, S)
   BY <1>12, Fun_IsSurj
<1>14. q \in Injection(1 .. n, S)
   BY <1>5, <1>10, <1>13, FS_Surjection
<1>15. \A i, j \in 1 .. n : q[i] = q[j] => i = j
   BY <1>12, <1>14 DEF Injection, IsInjective
<1> DEFINE place == [i \in 1 .. n |-> q[i][2]]
<1>16. \A i \in 1 .. n : \E j \in 1 .. n : q[i] = pair[j] /\ q[i][2] = j
   BY <1>6, <1>8, <1>12
<1>17. place \in [1 .. n -> 1 .. n]
   BY <1>16
<1>18. \A i \in 1 .. n : q[i] = pair[place[i]]
   BY <1>16
<1>19. \A j \in 1 .. n : \E i \in 1 .. n : place[i] = j
   <2>1. TAKE j \in 1 .. n
   <2>2. pair[j] \in S
      BY <1>6
   <2>3. PICK i \in 1 .. n : q[i] = pair[j]
      BY <1>12, <2>2
   <2>4. place[i] = j
      BY <1>8, <2>3
   <2> QED BY <2>4
<1>20. \A i \in 1 .. n : SortedArgs(s)[i] = s[place[i]]
   BY <1>3
<1> HIDE DEF place
<1>21. \A i, j \in 1 .. n : place[i] = place[j] => i = j
   BY <1>15, <1>18
<1>22. SortedArgs(s) \in Seq(Int) /\ Len(SortedArgs(s)) = n
   <2>1. SortedArgs(s) = [i \in 1 .. n |-> SortedArgs(s)[i]]
      BY <1>3
   <2>2. \A i \in 1 .. n : SortedArgs(s)[i] \in Int
      BY <1>1, <1>17, <1>20
   <2>3. SortedArgs(s) \in [1 .. n -> Int]
      BY <2>1, <2>2
   <2> QED BY <1>1, <2>3, FunctionIsSeq
<1> QED BY <1>17, <1>19, <1>20, <1>21, <1>22 DEF Rearranged, n

\* What does not depend on the order.
LEMMA RearrangedFacts ==
  ASSUME NEW p, NEW node \in Node, NEW t, NEW place, Rearranged(node.args, t, place)
  PROVE  /\ ToSet(t) = ToSet(node.args)
         /\ Independent(p, node) => Independent(p, [node EXCEPT !.args = t])
<1> DEFINE n == Len(node.args)
           s == node.args
           new == [node EXCEPT !.args = t]
<1>1. /\ s \in Seq(Int) /\ t \in Seq(Int) /\ Len(t) = n /\ n \in Nat
      /\ DOMAIN s = 1 .. n /\ DOMAIN t = 1 .. n
      /\ place \in [1 .. n -> 1 .. n]
      /\ \A i, j \in 1 .. n : place[i] = place[j] => i = j
      /\ \A j \in 1 .. n : \E i \in 1 .. n : place[i] = j
      /\ \A i \in 1 .. n : t[i] = s[place[i]]
   BY LenProperties DEF Rearranged
<1>3. new.args = t /\ new.type = node.type /\ node.args = s
   BY DEF Node
<1> HIDE DEF new, n, s
<1>2. ToSet(t) = ToSet(s)
   <2>1. \A x \in ToSet(t) : x \in ToSet(s)
      <3>1. TAKE x \in ToSet(t)
      <3>2. PICK i \in 1 .. n : t[i] = x
         BY <1>1, ToSetSeq
      <3>3. place[i] \in 1 .. n /\ s[place[i]] = x
         BY <1>1, <3>2
      <3> QED BY <1>1, <3>3, ToSetSeq
   <2>2. \A x \in ToSet(s) : x \in ToSet(t)
      <3>1. TAKE x \in ToSet(s)
      <3>2. PICK j \in 1 .. n : s[j] = x
         BY <1>1, ToSetSeq, SMTT(30)
      <3>3. PICK i \in 1 .. n : place[i] = j
         BY <1>1
      <3>4. t[i] = x
         BY <1>1, <3>2, <3>3
      <3> QED BY <1>1, <3>4, ToSetSeq
   <2> QED BY <2>1, <2>2
<1>4. ASSUME Independent(p, node), NEW i \in 1 .. n, NEW j \in 1 .. n, i < j
      PROVE  Separate(p, node.type, t[i], t[j])
   <2>1. t[i] = s[place[i]] /\ t[j] = s[place[j]]
      BY <1>1
   <2>2. place[i] \in 1 .. n /\ place[j] \in 1 .. n
      BY <1>1
   <2>3. place[i] # place[j]
      BY <1>1, <1>4
   <2>4. place[i] < place[j] \/ place[j] < place[i]
      BY <1>1, <2>2, <2>3
   <2> DEFINE k == place[i]
              l == place[j]
   <2> HIDE DEF k, l
   <2>5. \A x, y \in 1 .. n : x < y => Separate(p, node.type, s[x], s[y])
      BY <1>1, <1>3, <1>4 DEF Independent
   <2>6. Separate(p, node.type, s[k], s[l]) \/ Separate(p, node.type, s[l], s[k])
      BY <2>2, <2>4, <2>5 DEF k, l
   <2> QED BY <2>1, <2>6 DEF Separate, k, l
<1>5. Independent(p, node) => Independent(p, new)
   BY <1>1, <1>3, <1>4 DEF Independent
<1> QED BY <1>2, <1>3, <1>5 DEF new

-----------------------------------------------------------------------------
(* Exclusive and independent arguments *)

\* An argument may be added to a node that stands for f and is over V: it has
\* no model in common with f, or no variable in common with V.
Excludes(p, type, f, V, e) ==
    IF type = "SUM" THEN f \cap Meaning(p, e) = {}
    ELSE IABS(e) = TAUTOLOGY \/ V \cap Mentions(p, e) = {}

LEMMA OneArgument ==
  ASSUME NEW p, NEW node, NEW x \in Int, node.args = << x >>
  PROVE  Independent(p, node)
<1>1. DOMAIN node.args = {1}
   BY ToSetOne
<1> QED BY <1>1 DEF Independent

LEMMA AddingIndependent ==
  ASSUME NEW p, WellFormed(p), Countable(p), NEW type \in PogType, NEW node, NEW f, NEW V,
         Building(p, type, node, f, V), Independent(p, node),
         NEW e, IsEdge(p, e), Excludes(p, type, f, V, e)
  PROVE  Independent(p, add_argument(p, node, e))
<1> DEFINE new == add_argument(p, node, e)
           args == node.args
<1> SUFFICES Independent(p, new)
   OBVIOUS
<1>1. /\ node \in Node /\ node.type = type /\ args \in Seq(Int)
      /\ e \in Int /\ -e \in Int
   BY DEF Building, Node, IsEdge
<1>2. CASE Decides(node)
   BY <1>2, AddDecided
<1>3. CASE Complements(node, e)
   <2>1. new = [node EXCEPT !.args = << TAUTOLOGY >>]
      BY <1>3, AddComplement
   <2>2. new.args = << TAUTOLOGY >>
      BY <1>1, <2>1 DEF Node
   <2> QED BY <2>2, Constants, OneArgument
<1>4. CASE Attaches(node, e) /\ e = Neutral(type)
   <2>1. new = node
      BY <1>1, <1>4, AddNeutral
   <2> QED BY <2>1
<1>5. CASE Attaches(node, e) /\ e # Neutral(type) /\ e = Dominating(type)
   <2>0. e # Neutral(node.type) /\ e = Dominating(node.type) /\ Attaches(node, e)
      BY <1>1, <1>5
   <2>1. new = [node EXCEPT !.args = << e >>]
      BY <2>0, AddDominating
   <2>2. new.args = << e >>
      BY <1>1, <2>1 DEF Node
   <2> QED BY <1>1, <2>2, OneArgument
<1>6. CASE Attaches(node, e) /\ e # Neutral(type) /\ e # Dominating(type)
   <2> DEFINE s == Spliced(p, node, e)
              n == Len(args)
              m == Len(s)
   <2>1. IABS(e) # TAUTOLOGY
      BY <1>1, <1>6, Sentinels, Constants
   <2>2. new = WithArgument(p, node, e)
      BY <1>1, <1>6, AddOther
   <2>3. StandsFor(p, type, s, e)
      BY <1>1, <2>1, Splicing
   <2>4. new.args = args \o s /\ new.type = type
      BY <1>1, <2>2 DEF Node, WithArgument
   <2>5. /\ Len(args \o s) = n + m /\ args \o s \in Seq(Int)
         /\ \A i \in 1 .. n + m : (args \o s)[i] = IF i <= n THEN args[i] ELSE s[i - n]
         /\ n \in Nat /\ m \in Nat /\ s \in Seq(Int)
         /\ DOMAIN (args \o s) = 1 .. n + m /\ DOMAIN args = 1 .. n /\ DOMAIN s = 1 .. m
      BY <1>1, <2>3, ConcatProperties, LenProperties DEF StandsFor
   <2>6. \A x \in ToSet(args) : IsEdge(p, x) /\ IABS(x) # TAUTOLOGY
      BY <1>1, <1>6 DEF Building, Attaches, Decides
   <2>7. \A i \in 1 .. n : args[i] \in ToSet(args)
      BY <1>1, ToSetSeq
   <2>8. \A i \in 1 .. m : s[i] \in ToSet(s)
      BY <2>5, ToSetSeq
   \* An argument that was there and a new one.
   <2>9. ASSUME NEW x \in ToSet(args), NEW y \in ToSet(s)
         PROVE  Separate(p, type, x, y)
      <3>1. CASE type = "SUM"
         <4>1. s = << e >>
            BY <2>3, <3>1 DEF StandsFor
         <4>2. y = e
            BY <1>1, <4>1, ToSetOne
         <4>3. f = Joined(p, type, ToSet(args)) /\ Meaning(p, x) \in SUBSET Assignments
            BY <2>6, Negation DEF Building, Negates
         <4>4. Meaning(p, x) \subseteq f
            BY <3>1, <4>3 DEF Joined
         <4> QED BY <3>1, <4>2, <4>4 DEF Separate, Excludes
      <3>2. CASE type # "SUM"
         <4>1. MentionedBy(p, ToSet(args)) \subseteq V
            BY <1>1, <1>6 DEF Building, Attaches, Decides
         <4>2. Mentions(p, x) \subseteq InputVariables /\ Mentions(p, y) \subseteq InputVariables
            BY <2>3, <2>6, Flags DEF StandsFor
         <4>3. Mentions(p, x) \subseteq V
            BY <4>1, <4>2 DEF MentionedBy
         <4>4. Mentions(p, y) \subseteq Mentions(p, e)
            BY <2>3, <4>2 DEF StandsFor, MentionedBy
         <4>5. V \cap Mentions(p, e) = {}
            BY <2>1, <3>2 DEF Excludes
         <4> QED BY <3>2, <4>3, <4>4, <4>5 DEF Separate
      <3> QED BY <3>1, <3>2
   \* Two new ones.
   <2>10. ASSUME NEW i \in 1 .. m, NEW j \in 1 .. m, i < j
          PROVE  Separate(p, type, s[i], s[j])
      <3>1. CASE type = "SUM"
         <4>1. m = 1
            BY <2>3, <3>1 DEF StandsFor
         <4> QED BY <2>10, <4>1
      <3>2. CASE type = "PRODUCT"
         <4>1. Mentions(p, s[i]) \cap Mentions(p, s[j]) = {}
            BY <2>3, <2>10, <3>2 DEF StandsFor
         <4> QED BY <3>2, <4>1 DEF Separate
      <3> QED BY <3>1, <3>2 DEF PogType
   <2>11. \A i, j \in 1 .. n : i < j => Separate(p, type, args[i], args[j])
      BY <1>1, <2>5 DEF Independent
   <2> DEFINE t == args \o s
   <2> HIDE DEF new, s, t, n, m
   <2>12. ASSUME NEW i \in 1 .. n + m, NEW j \in 1 .. n + m, i < j
          PROVE  Separate(p, type, t[i], t[j])
      <3>0. /\ t[i] = IF i <= n THEN args[i] ELSE s[i - n]
            /\ t[j] = IF j <= n THEN args[j] ELSE s[j - n]
         BY <2>5 DEF t
      <3>1. CASE j <= n
         <4>1. t[i] = args[i] /\ t[j] = args[j] /\ i \in 1 .. n /\ j \in 1 .. n
            BY <2>5, <2>12, <3>0, <3>1
         <4> QED BY <2>11, <2>12, <4>1
      <3>2. CASE i <= n /\ ~(j <= n)
         <4>1. t[i] = args[i] /\ t[j] = s[j - n] /\ i \in 1 .. n /\ j - n \in 1 .. m
            BY <2>5, <2>12, <3>0, <3>2
         <4>2. args[i] \in ToSet(args) /\ s[j - n] \in ToSet(s)
            BY <2>7, <2>8, <4>1
         <4> QED BY <2>9, <4>1, <4>2
      <3>3. CASE ~(i <= n)
         <4>1. /\ t[i] = s[i - n] /\ t[j] = s[j - n]
               /\ i - n \in 1 .. m /\ j - n \in 1 .. m /\ i - n < j - n
            BY <2>5, <2>12, <3>0, <3>3
         <4> QED BY <2>10, <4>1
      <3> QED BY <3>1, <3>2, <3>3, <2>5
   <2>13. DOMAIN t = 1 .. n + m
      BY <2>5 DEF t
   <2>14. new.args = t /\ new.type = type
      BY <2>4 DEF t
   <2> HIDE DEF args
   <2> QED BY <2>12, <2>13, <2>14 DEF Independent
<1> QED BY <1>1, <1>2, <1>3, <1>4, <1>5, <1>6 DEF Attaches

-----------------------------------------------------------------------------
(* The finished node *)

\* The node with its arguments in order, and the nodes equal to it.
Sorted(node) == [node EXCEPT !.args = SortedArgs(@)]

EqualNodes(p, node) ==
    { i \in DOMAIN p.nodes : p.nodes[i].type = node.type /\ p.nodes[i].args = Sorted(node).args }

WithNode(p, node) == [p EXCEPT !.nodes = Append(@, Sorted(node))]

\* The cases of finish_node.
LEMMA FinishNone ==
  ASSUME NEW p, NEW node, Len(node.args) = 0
  PROVE  finish_node(p, node) = [pog |-> p, edge |-> Neutral(node.type)]
  BY SMT DEF finish_node

LEMMA FinishOne ==
  ASSUME NEW p, NEW node, Len(node.args) = 1
  PROVE  finish_node(p, node) = [pog |-> p, edge |-> node.args[1]]
  BY SMT DEF finish_node

LEMMA FinishEqual ==
  ASSUME NEW p, NEW node, Len(node.args) \in Nat, Len(node.args) > 1, EqualNodes(p, node) # {}
  PROVE  finish_node(p, node) =
           [pog |-> p, edge |-> NInput + CHOOSE i \in EqualNodes(p, node) : TRUE]
<1> DEFINE equal == { i \in DOMAIN p.nodes :
                        p.nodes[i].type = node.type
                          /\ p.nodes[i].args = [node EXCEPT !.args = SortedArgs(@)].args }
<1>1. EqualNodes(p, node) = equal
   BY DEF EqualNodes, Sorted
<1>2. finish_node(p, node) =
        CASE Len(node.args) = 0 -> [pog |-> p, edge |-> Neutral(node.type)]
          [] Len(node.args) = 1 -> [pog |-> p, edge |-> node.args[1]]
          [] Len(node.args) > 1 /\ equal # {} ->
               [pog |-> p, edge |-> NInput + CHOOSE i \in equal : TRUE]
          [] OTHER -> [pog  |-> WithNode(p, node), edge |-> NInput + Len(p.nodes) + 1]
   BY DEF finish_node, WithNode, Sorted
<1> HIDE DEF equal
<1> QED BY <1>1, <1>2, SMT

LEMMA FinishNew ==
  ASSUME NEW p, NEW node, Len(node.args) \notin {0, 1}, EqualNodes(p, node) = {}
  PROVE  finish_node(p, node) = [pog |-> WithNode(p, node), edge |-> NInput + Len(p.nodes) + 1]
<1> DEFINE equal == { i \in DOMAIN p.nodes :
                        p.nodes[i].type = node.type
                          /\ p.nodes[i].args = [node EXCEPT !.args = SortedArgs(@)].args }
<1>1. EqualNodes(p, node) = equal
   BY DEF EqualNodes, Sorted
<1>2. finish_node(p, node) =
        CASE Len(node.args) = 0 -> [pog |-> p, edge |-> Neutral(node.type)]
          [] Len(node.args) = 1 -> [pog |-> p, edge |-> node.args[1]]
          [] Len(node.args) > 1 /\ equal # {} ->
               [pog |-> p, edge |-> NInput + CHOOSE i \in equal : TRUE]
          [] OTHER -> [pog  |-> WithNode(p, node), edge |-> NInput + Len(p.nodes) + 1]
   BY DEF finish_node, WithNode, Sorted
<1> HIDE DEF equal
<1>4. equal = {}
   BY <1>1, Zenon
<1>5. ~(Len(node.args) = 0) /\ ~(Len(node.args) = 1)
   OBVIOUS
<1>3. ~(Len(node.args) = 0) /\ ~(Len(node.args) = 1) /\ ~(Len(node.args) > 1 /\ equal # {})
   BY <1>4, <1>5
<1> QED BY <1>2, <1>3, SMT

\* What sorting leaves alone.
LEMMA SortedFacts ==
  ASSUME NEW p, NEW node \in Node
  PROVE  /\ Sorted(node) \in Node /\ Sorted(node).type = node.type
         /\ Len(Sorted(node).args) = Len(node.args)
         /\ ToSet(Sorted(node).args) = ToSet(node.args)
         /\ Sorted(node).data_only = node.data_only
         /\ Sorted(node).projection_only = node.projection_only
         /\ Independent(p, node) => Independent(p, Sorted(node))
<1>1. node.args \in Seq(Int)
   BY DEF Node
<1>2. PICK place : Rearranged(node.args, SortedArgs(node.args), place)
   BY <1>1, SortedArgsRearranged
<1>3. SortedArgs(node.args) \in Seq(Int) /\ Len(SortedArgs(node.args)) = Len(node.args)
   BY <1>2 DEF Rearranged
<1> DEFINE t == SortedArgs(node.args)
<1>4. /\ ToSet(t) = ToSet(node.args)
      /\ Independent(p, node) => Independent(p, [node EXCEPT !.args = t])
   BY <1>2, RearrangedFacts
<1>5. Sorted(node) = [node EXCEPT !.args = t]
   BY DEF Sorted
<1> HIDE DEF t
<1>6. /\ Sorted(node) \in Node /\ Sorted(node).type = node.type /\ Sorted(node).args = t
      /\ Sorted(node).data_only = node.data_only
      /\ Sorted(node).projection_only = node.projection_only
   BY <1>3, <1>5 DEF Node, t
<1> QED BY <1>3, <1>4, <1>5, <1>6 DEF t

\* A graph with one more node.
LEMMA OneMoreNode ==
  ASSUME NEW p, WellFormed(p), NEW type \in PogType, NEW node, NEW f, NEW V,
         Building(p, type, node, f, V), node.args # << Dominating(type) >>,
         Fits(WithNode(p, node))
  PROVE  LET q == WithNode(p, node)
             e == NInput + Len(p.nodes) + 1
         IN  /\ WellFormed(q) /\ Grown(p, q) /\ Len(q.nodes) = Len(p.nodes) + 1
             /\ q.nodes[Len(p.nodes) + 1] = Sorted(node)
             /\ IsEdge(q, e) /\ Meaning(q, e) = f /\ Mentions(q, e) \subseteq V
<1> DEFINE q == WithNode(p, node)
           n == Len(p.nodes)
           e == NInput + n + 1
           new == Sorted(node)
<1>1. node \in Node /\ node.type = type
   BY DEF Building
<1>2. /\ new \in Node /\ new.type = type /\ ToSet(new.args) = ToSet(node.args)
      /\ new.data_only = node.data_only /\ new.projection_only = node.projection_only
   BY <1>1, SortedFacts
<1>3. /\ NInput \in Nat /\ n \in Nat /\ TAUTOLOGY \in Nat /\ p.nodes \in Seq(Node)
      /\ Layered(p) /\ DOMAIN p.nodes = 1 .. n
   BY Sizes
<1>4. /\ p = [nodes |-> p.nodes, data_variables |-> p.data_variables]
      /\ p.data_variables \in SUBSET InputVariables
   BY DEF WellFormed
<1>5. q = [nodes |-> Append(p.nodes, new), data_variables |-> p.data_variables]
   BY <1>4, SMTT(30) DEF WithNode
<1>6. q.nodes = Append(p.nodes, new) /\ q.data_variables = p.data_variables
   BY <1>5
<1>7. /\ q.nodes \in Seq(Node) /\ Len(q.nodes) = n + 1
      /\ \A i \in 1 .. n : q.nodes[i] = p.nodes[i]
      /\ q.nodes[n + 1] = new
   BY <1>2, <1>3, <1>6, AppendProperties
<1>8. Fits(q)
   OBVIOUS
<1>x. IABS(e) = e /\ e > 0 /\ e - NInput = n + 1 /\ e > NInput
   BY <1>3 DEF IABS
<1> HIDE DEF q, n, new, e
<1>9. Grown(p, q)
   BY <1>3, <1>6, <1>7 DEF Grown, n
<1>10. \A x \in ToSet(node.args) : IsEdge(p, x) /\ IABS(x) # TAUTOLOGY
   BY DEF Building
<1>11. \A x \in ToSet(node.args) : x \in Int /\ IABS(x) \in 1 .. NInput + n
   BY <1>10 DEF IsEdge, n
<1>12. Layered(q)
   <2> SUFFICES ASSUME NEW i \in 1 .. n + 1, NEW x \in ToSet(q.nodes[i].args)
                PROVE  x \in Int /\ IABS(x) \in 1 .. NInput + i - 1
      BY <1>7, <1>8 DEF Layered
   <2>1. CASE i \in 1 .. n
      BY <1>3, <1>7, <2>1 DEF Layered, n
   <2>2. CASE i = n + 1
      BY <1>2, <1>3, <1>7, <1>11, <2>2
   <2> QED BY <1>3, <2>1, <2>2
<1>13. KeepsEdges(p, q)
   BY <1>3, <1>9, <1>12, GrownEdges
<1>14. /\ \A x \in ToSet(node.args) : Meaning(q, x) = Meaning(p, x)
       /\ \A x \in ToSet(node.args) : Mentions(q, x) = Mentions(p, x)
   BY <1>10, <1>13 DEF KeepsEdges
<1>15. /\ Joined(q, type, ToSet(node.args)) = f
       /\ MentionedBy(q, ToSet(node.args)) = MentionedBy(p, ToSet(node.args))
   <2>1. Joined(q, type, ToSet(node.args)) = Joined(p, type, ToSet(node.args))
      BY <1>14 DEF Joined
   <2>2. Joined(p, type, ToSet(node.args)) = f
      BY DEF Building
   <2> QED BY <1>14, <2>1, <2>2 DEF MentionedBy
<1>16. /\ AllModels(q)[n + 1] = Joined(q, type, ToSet(node.args))
       /\ AllSupports(q)[n + 1] = MentionedBy(q, ToSet(node.args))
   <2>1. ModelsOf(q, AllModels(q)) /\ SupportsOf(q, AllSupports(q))
      BY <1>12, ModelsFacts, SupportsFacts
   <2>2. n + 1 \in 1 .. Len(q.nodes)
      BY <1>3, <1>7
   <2>3. /\ AllModels(q)[n + 1] = NodeModels(AllModels(q), new)
         /\ AllSupports(q)[n + 1] = NodeSupport(AllSupports(q), new)
      BY <1>7, <2>1, <2>2 DEF ModelsOf, SupportsOf
   <2> QED BY <1>2, <2>3, NodeModelsJoined
<1>17. /\ MentionedBy(p, ToSet(node.args)) \subseteq V
       /\ node.data_only = (MentionedBy(p, ToSet(node.args)) \subseteq p.data_variables)
       /\ node.projection_only = (MentionedBy(p, ToSet(node.args)) \cap p.data_variables = {})
   BY DEF Building
<1>18. is_node(e)
   BY <1>3, <1>7, <1>8, <1>x DEF is_node, Fits
<1>19. IsEdge(q, e) /\ Meaning(q, e) = f /\ Mentions(q, e) \subseteq V
   <2>1. IsEdge(q, e)
      BY <1>3, <1>7, <1>x DEF IsEdge, e
   <2>2. Meaning(q, e) = AllModels(q)[n + 1] /\ Mentions(q, e) = AllSupports(q)[n + 1]
      BY <1>18, <1>x, EdgeCases DEF Meaning, Mentions
   <2> QED BY <1>15, <1>16, <1>17, <2>1, <2>2
<1>20. ASSUME NEW i \in 1 .. n + 1
       PROVE  /\ \A x \in ToSet(q.nodes[i].args) : IABS(x) \in 1 .. NInput + i - 1
              /\ q.nodes[i].data_only = (AllSupports(q)[i] \subseteq q.data_variables)
              /\ q.nodes[i].projection_only = (AllSupports(q)[i] \cap q.data_variables = {})
   <2>1. \A x \in ToSet(q.nodes[i].args) : IABS(x) \in 1 .. NInput + i - 1
      BY <1>7, <1>12 DEF Layered
   <2>2. CASE i \in 1 .. n
      <3>1. q.nodes[i] = p.nodes[i] /\ AllSupports(q)[i] = AllSupports(p)[i]
         BY <1>3, <1>7, <1>9, <1>12, <2>2, GrownLists DEF n
      <3>2. /\ p.nodes[i].data_only = (AllSupports(p)[i] \subseteq p.data_variables)
            /\ p.nodes[i].projection_only = (AllSupports(p)[i] \cap p.data_variables = {})
         BY <1>3, <2>2 DEF WellFormed
      <3> QED BY <1>6, <2>1, <3>1, <3>2
   <2>3. CASE i = n + 1
      <3>1. /\ new.data_only = (AllSupports(q)[i] \subseteq p.data_variables)
            /\ new.projection_only = (AllSupports(q)[i] \cap p.data_variables = {})
         BY <1>2, <1>15, <1>16, <1>17, <2>3
      <3> QED BY <1>6, <1>7, <2>1, <2>3, <3>1
   <2> QED BY <1>3, <2>2, <2>3
<1>21. WellFormed(q)
   <2>1. q \in [nodes : Seq(Node), data_variables : SUBSET InputVariables]
      BY <1>4, <1>5, <1>6, <1>7
   <2>2. DOMAIN q.nodes = 1 .. n + 1
      BY <1>7, LenProperties
   <2> QED BY <1>8, <1>20, <2>1, <2>2 DEF WellFormed
<1> QED BY <1>7, <1>9, <1>19, <1>21 DEF q, n, e, new

\* A graph, grown from p, with an edge for f that mentions variables of V only.
Made(p, f, V, made) ==
    /\ WellFormed(made.pog) /\ Grown(p, made.pog)
    /\ IsEdge(made.pog, made.edge)
    /\ Meaning(made.pog, made.edge) = f
    /\ IABS(made.edge) = TAUTOLOGY \/ Mentions(made.pog, made.edge) \subseteq V

LEMMA GrownReflexive ==
  ASSUME NEW p, WellFormed(p)
  PROVE  Grown(p, p)
  BY Sizes DEF Grown

\* The rules still hold of a node when the graph has grown.
LEMMA IndependentKept ==
  ASSUME NEW p, NEW q, KeepsEdges(p, q), NEW node \in Node,
         \A x \in ToSet(node.args) : IsEdge(p, x), Independent(p, node)
  PROVE  Independent(q, node)
<1>1. node.args \in Seq(Int)
   BY DEF Node
<1> DEFINE s == node.args
<1>2. \A i \in DOMAIN s : s[i] \in ToSet(s)
   BY <1>1, ToSetSeq
<1> SUFFICES ASSUME NEW i \in DOMAIN s, NEW j \in DOMAIN s, i < j
             PROVE  Separate(q, node.type, s[i], s[j])
   BY DEF Independent
<1>3. IsEdge(p, s[i]) /\ IsEdge(p, s[j])
   BY <1>2
<1>4. Separate(p, node.type, s[i], s[j])
   BY DEF Independent
<1>5. /\ Meaning(q, s[i]) = Meaning(p, s[i]) /\ Meaning(q, s[j]) = Meaning(p, s[j])
      /\ Mentions(q, s[i]) = Mentions(p, s[i]) /\ Mentions(q, s[j]) = Mentions(p, s[j])
   BY <1>3 DEF KeepsEdges
<1> QED BY <1>4, <1>5 DEF Separate

LEMMA Finishing ==
  ASSUME NEW p, WellFormed(p), NEW type \in PogType, NEW node, NEW f, NEW V,
         Building(p, type, node, f, V), Fits(finish_node(p, node).pog)
  PROVE  /\ Made(p, f, V, finish_node(p, node))
         /\ Countable(p) /\ Independent(p, node) => Countable(finish_node(p, node).pog)
<1> DEFINE made == finish_node(p, node)
           args == node.args
<1>1. /\ node \in Node /\ node.type = type /\ args \in Seq(Int)
      /\ f = Joined(p, type, ToSet(args)) /\ \A x \in ToSet(args) : IsEdge(p, x)
   BY DEF Building, Node
<1>2. Len(args) \in Nat /\ DOMAIN args = 1 .. Len(args)
   BY <1>1, LenProperties
<1>3. Grown(p, p)
   BY GrownReflexive
<1>4. CASE Len(args) = 0
   <2>1. made = [pog |-> p, edge |-> Neutral(type)]
      BY <1>1, <1>4, FinishNone
   <2>2. ToSet(args) = {}
      BY <1>1, <1>2, <1>4, ToSetSeq
   <2>3. f = Meaning(p, Neutral(type)) /\ IsEdge(p, Neutral(type)) /\ IABS(Neutral(type)) = TAUTOLOGY
      BY <1>1, <2>2, Sentinels, Constants
   <2> HIDE DEF made
   <2>4. made.pog = p /\ made.edge = Neutral(type)
      BY <2>1
   <2> QED BY <1>3, <2>3, <2>4 DEF Made, made
<1>5. CASE Len(args) = 1
   <2>1. made = [pog |-> p, edge |-> args[1]]
      BY <1>5, FinishOne
   <2>2. ToSet(args) = {args[1]}
      BY <1>1, <1>2, <1>5 DEF ToSet
   <2>3. f = Meaning(p, args[1]) /\ IsEdge(p, args[1])
      BY <1>1, <2>2, JoinedFacts
   <2>4. IABS(args[1]) = TAUTOLOGY \/ Mentions(p, args[1]) \subseteq V
      <3>1. CASE args = << Dominating(type) >>
         <4>1. args[1] = Dominating(type)
            BY <3>1
         <4> QED BY <4>1, Sentinels, Constants
      <3>2. CASE args # << Dominating(type) >>
         <4>1. MentionedBy(p, {args[1]}) \subseteq V /\ IABS(args[1]) # TAUTOLOGY
            BY <2>2, <3>2 DEF Building
         <4> QED BY <2>3, <4>1, JoinedFacts
      <3> QED BY <3>1, <3>2
   <2> DEFINE e == args[1]
   <2> HIDE DEF made, e
   <2>5. made.pog = p /\ made.edge = e
      BY <2>1 DEF e
   <2> QED BY <1>3, <2>3, <2>4, <2>5 DEF Made, made, e
<1>6. CASE Len(args) \notin {0, 1}
   <2>1. Len(args) > 1 /\ args # << Dominating(type) >>
      <3>1. Len(<< Dominating(type) >>) = 1
         OBVIOUS
      <3>2. \A k \in Nat : k \notin {0, 1} => k > 1
         OBVIOUS
      <3>3. Len(args) > 1
         BY <1>2, <1>6, <3>2, Zenon
      <3>4. args # << Dominating(type) >>
         BY <1>6, <3>1
      <3> QED BY <3>3, <3>4
   <2>2. CASE EqualNodes(p, node) # {}
      <3> DEFINE i == CHOOSE i \in EqualNodes(p, node) : TRUE
                 e == NInput + i
      <3>1. made = [pog |-> p, edge |-> e]
         BY <1>2, <2>1, <2>2, FinishEqual
      <3>2. i \in EqualNodes(p, node)
         BY <2>2
      <3> HIDE DEF i, made
      <3>3. i \in 1 .. Len(p.nodes) /\ p.nodes[i].type = type /\ p.nodes[i].args = Sorted(node).args
         BY <1>1, <3>2, Sizes DEF EqualNodes
      <3>4. e \in Int /\ e > 0 /\ IABS(e) = e /\ is_node(e) /\ IsEdge(p, e) /\ e - NInput = i
         BY <3>3, Sizes DEF IABS, is_node, IsEdge
      <3>5. NodeOf(p, e) = p.nodes[i]
         BY <3>4 DEF NodeOf
      <3> HIDE DEF e
      <3>6. IsNode(p, e, NodeOf(p, e))
         BY <3>4, NodeMeaning
      <3>7. ToSet(p.nodes[i].args) = ToSet(args)
         BY <1>1, <3>3, SortedFacts
      <3>8. Meaning(p, e) = f /\ Mentions(p, e) = MentionedBy(p, ToSet(args))
         BY <1>1, <3>3, <3>4, <3>5, <3>6, <3>7 DEF IsNode
      <3>9. MentionedBy(p, ToSet(args)) \subseteq V
         BY <2>1 DEF Building
      <3>10. made.pog = p /\ made.edge = e
         BY <3>1
      <3> QED BY <1>3, <3>4, <3>8, <3>9, <3>10 DEF Made, made
   <2>3. CASE EqualNodes(p, node) = {}
      <3> DEFINE q == WithNode(p, node)
                 n == Len(p.nodes)
                 e == NInput + n + 1
      <3>1. made = [pog |-> q, edge |-> e]
         BY <1>6, <2>3, FinishNew
      <3>2. made.pog = q /\ made.edge = e
         BY <3>1
      <3>3. Fits(q)
         BY <3>2
      <3>4. /\ WellFormed(q) /\ Grown(p, q) /\ Len(q.nodes) = n + 1
            /\ q.nodes[n + 1] = Sorted(node)
            /\ IsEdge(q, e) /\ Meaning(q, e) = f /\ Mentions(q, e) \subseteq V
         BY <2>1, <3>3, OneMoreNode
      <3> HIDE DEF q, e, made
      <3>5. Made(p, f, V, made)
         BY <3>2, <3>4 DEF Made
      <3>6. ASSUME Countable(p), Independent(p, node)
            PROVE  Countable(q)
         <4>1. n \in Nat /\ DOMAIN p.nodes = 1 .. n /\ DOMAIN q.nodes = 1 .. n + 1
               /\ Layered(p) /\ Layered(q) /\ p.nodes \in Seq(Node)
            BY <3>4, Sizes
         <4>2. KeepsEdges(p, q)
            BY <3>4, <4>1, GrownEdges
         <4>3. ASSUME NEW i \in 1 .. n
               PROVE  Independent(q, q.nodes[i])
            <5>1. q.nodes[i] = p.nodes[i] /\ p.nodes[i] \in Node
               BY <3>4, <4>1 DEF Grown
            <5>2. \A x \in ToSet(p.nodes[i].args) : x \in Int /\ IABS(x) \in 1 .. NInput + i - 1
               BY <4>1 DEF Layered
            <5>3. \A x \in ToSet(p.nodes[i].args) : IsEdge(p, x)
               BY <4>1, <5>2, NInputAssumption DEF IsEdge
            <5>4. Independent(p, p.nodes[i])
               BY <3>6, <4>1, CountableNodes
            <5> QED BY <4>2, <5>1, <5>3, <5>4, IndependentKept
         <4>4. Independent(q, q.nodes[n + 1])
            <5>1. Independent(p, Sorted(node)) /\ Sorted(node) \in Node
               BY <1>1, <3>6, SortedFacts
            <5>2. \A x \in ToSet(Sorted(node).args) : IsEdge(p, x)
               BY <1>1, SortedFacts
            <5> QED BY <3>4, <4>2, <5>1, <5>2, IndependentKept
         <4>5. \A i \in 1 .. n + 1 : i \in 1 .. n \/ i = n + 1
            BY <4>1
         <4> QED BY <4>1, <4>3, <4>4, <4>5, CountableNodes
      <3> QED BY <3>2, <3>5, <3>6 DEF made
   <2> QED BY <2>2, <2>3
<1> QED BY <1>4, <1>5, <1>6

-----------------------------------------------------------------------------
(* Normal form *)

\* Arguments come in the order of their variables.
Ordered(s) == \A k \in 2 .. Len(s) : IABS(s[k - 1]) <= IABS(s[k])

LEMMA SortedArgsOrdered ==
  ASSUME NEW s \in Seq(Int)
  PROVE  Ordered(SortedArgs(s))
<1> DEFINE n == Len(s)
           S == { << IABS(s[i]), i >> : i \in 1 .. n }
           q == Lexicographic(S)
           pair == [i \in 1 .. n |-> << IABS(s[i]), i >>]
<1>1. n \in Nat /\ DOMAIN s = 1 .. n /\ \A i \in 1 .. n : s[i] \in Int
   BY LenProperties
<1>2. \A i \in 1 .. n : IABS(s[i]) \in Int /\ i \in Int
   BY <1>1 DEF IABS
<1>3. SortedArgs(s) = [i \in 1 .. n |-> s[q[i][2]]]
   BY <1>1 DEF SortedArgs
<1>4. IsFiniteSet(1 .. n) /\ Cardinality(1 .. n) = n
   <2> HIDE DEF n
   <2>1. IsFiniteSet(1 .. n) /\ Cardinality(1 .. n) = IF 1 > n THEN 0 ELSE n - 1 + 1
      BY <1>1, FS_Interval
   <2> QED BY <1>1, <2>1
<1>5. pair \in [1 .. n -> S] /\ \A x \in S : \E i \in 1 .. n : pair[i] = x
   OBVIOUS
<1>6. \A i, j \in 1 .. n : pair[i] = pair[j] => i = j
   OBVIOUS
<1>7. S \subseteq [1 .. 2 -> Int]
   BY <1>2, PairIsSequence
<1>8. \A x \in S : x[1] = IABS(s[x[2]])
   OBVIOUS
<1> HIDE DEF n, S, pair, q
<1>9. pair \in Surjection(1 .. n, S) /\ pair \in Injection(1 .. n, S)
   BY <1>5, <1>6, Fun_IsSurj, Fun_IsInj
<1>10. IsFiniteSet(S) /\ Cardinality(S) = n
   BY <1>4, <1>9, FS_Surjection
<1>11. q \in Seq(S) /\ Len(q) = n
   BY <1>7, <1>10, LexicographicEnumerates, 2 \in Nat DEF q
<1>12. \A i \in 1 .. n : q[i] \in S
   BY <1>11, LenProperties
<1>13. \A i, j \in 1 .. n : i < j => q[i][1] <= q[j][1]
   BY <1>7, <1>10, LexicographicOrdered DEF q
<1>14. Len(SortedArgs(s)) = n
   <2>1. PICK place : Rearranged(s, SortedArgs(s), place)
      BY SortedArgsRearranged
   <2> QED BY <2>1 DEF Rearranged, n
<1>15. \A i \in 1 .. n : SortedArgs(s)[i] = s[q[i][2]]
   BY <1>3
<1> SUFFICES ASSUME NEW k \in 2 .. n
             PROVE  IABS(SortedArgs(s)[k - 1]) <= IABS(SortedArgs(s)[k])
   BY <1>14 DEF Ordered
<1>16. k - 1 \in 1 .. n /\ k \in 1 .. n /\ k - 1 < k
   BY <1>1
<1>17. q[k - 1][1] <= q[k][1]
   BY <1>13, <1>16
<1> QED BY <1>8, <1>12, <1>15, <1>16, <1>17

\* No positive product is an argument of a product.
Flat(p, node) ==
    node.type = "PRODUCT" =>
      \A x \in ToSet(node.args) : x > 0 /\ is_node(x) => NodeOf(p, x).type = "SUM"

\* A node in normal form.
Normal(p, i) ==
    /\ Len(p.nodes[i].args) >= 2
    /\ Ordered(p.nodes[i].args)
    /\ Flat(p, p.nodes[i])
    /\ \A j \in 1 .. Len(p.nodes) :
         p.nodes[j].type = p.nodes[i].type /\ p.nodes[j].args = p.nodes[i].args => i = j

\* The rest of Canonical holds of every well-formed graph.
LEMMA CanonicalNodes ==
  ASSUME NEW p, WellFormed(p)
  PROVE  Canonical(p) <=> \A i \in 1 .. Len(p.nodes) : Normal(p, i)
<1>1. /\ DOMAIN p.nodes = 1 .. Len(p.nodes) /\ Len(p.nodes) \in Nat /\ NInput \in Nat
      /\ p.nodes \in Seq(Node) /\ Layered(p)
   BY Sizes
<1>2. ASSUME NEW i \in 1 .. Len(p.nodes)
      PROVE  /\ p.nodes[i].args \in Seq(Int)
             /\ DOMAIN p.nodes[i].args = 1 .. Len(p.nodes[i].args)
             /\ Len(p.nodes[i].args) \in Nat
             /\ \A k \in 1 .. Len(p.nodes[i].args) :
                  p.nodes[i].args[k] \in ToSet(p.nodes[i].args) /\ IABS(p.nodes[i].args[k]) < NInput + i
             /\ p.nodes[i].data_only = (AllSupports(p)[i] \subseteq p.data_variables)
             /\ p.nodes[i].projection_only = (AllSupports(p)[i] \cap p.data_variables = {})
   <2>1. p.nodes[i].args \in Seq(Int)
      <3>1. p.nodes[i] \in Node
         BY <1>1
      <3> QED BY <3>1 DEF Node
   <2>2. \A k \in 1 .. Len(p.nodes[i].args) : p.nodes[i].args[k] \in ToSet(p.nodes[i].args)
      BY <2>1, ToSetSeq
   <2>3. \A e \in ToSet(p.nodes[i].args) : IABS(e) \in 1 .. NInput + i - 1
      BY <1>1 DEF Layered
   <2>4. \A k \in 1 .. Len(p.nodes[i].args) : IABS(p.nodes[i].args[k]) < NInput + i
      BY <1>1, <2>2, <2>3
   <2>5. /\ p.nodes[i].data_only = (AllSupports(p)[i] \subseteq p.data_variables)
         /\ p.nodes[i].projection_only = (AllSupports(p)[i] \cap p.data_variables = {})
      BY <1>1 DEF WellFormed
   <2> QED BY <2>1, <2>2, <2>4, <2>5, LenProperties
<1>3. ASSUME NEW i \in 1 .. Len(p.nodes)
      PROVE  Normal(p, i) <=>
               LET node == p.nodes[i] IN
               /\ Len(node.args) >= 2
               /\ \A k \in DOMAIN node.args :
                    /\ k > 1 => IABS(node.args[k - 1]) <= IABS(node.args[k])
                    /\ node.type = "PRODUCT" /\ node.args[k] > 0 /\ is_node(node.args[k]) =>
                         NodeOf(p, node.args[k]).type = "SUM"
               /\ \A j \in DOMAIN p.nodes :
                    p.nodes[j].type = node.type /\ p.nodes[j].args = node.args => i = j
   <2> DEFINE s == p.nodes[i].args
              n == Len(s)
   <2>1. DOMAIN s = 1 .. n /\ n \in Nat /\ s \in Seq(Int)
      BY <1>2
   <2>2. Ordered(s) <=> \A k \in DOMAIN s : k > 1 => IABS(s[k - 1]) <= IABS(s[k])
      <3>1. \A k \in 2 .. n : k \in DOMAIN s /\ k > 1
         BY <2>1
      <3>2. \A k \in DOMAIN s : k > 1 => k \in 2 .. n
         BY <2>1
      <3> QED BY <3>1, <3>2 DEF Ordered
   <2>3. Flat(p, p.nodes[i]) <=>
           \A k \in DOMAIN s :
             p.nodes[i].type = "PRODUCT" /\ s[k] > 0 /\ is_node(s[k]) => NodeOf(p, s[k]).type = "SUM"
      <3>1. \A x : x \in ToSet(s) <=> \E k \in DOMAIN s : x = s[k]
         BY DEF ToSet
      <3> QED BY <3>1 DEF Flat
   <2> QED BY <1>1, <2>2, <2>3 DEF Normal
<1>4. ASSUME NEW i \in 1 .. Len(p.nodes)
      PROVE  Normal(p, i) <=>
               LET node == p.nodes[i] IN
               /\ Len(node.args) >= 2
               /\ \A k \in DOMAIN node.args :
                    /\ IABS(node.args[k]) < NInput + i
                    /\ k > 1 => IABS(node.args[k - 1]) <= IABS(node.args[k])
                    /\ node.type = "PRODUCT" /\ node.args[k] > 0 /\ is_node(node.args[k]) =>
                         NodeOf(p, node.args[k]).type = "SUM"
               /\ node.data_only = (AllSupports(p)[i] \subseteq p.data_variables)
               /\ node.projection_only = (AllSupports(p)[i] \cap p.data_variables = {})
               /\ \A j \in DOMAIN p.nodes :
                    p.nodes[j].type = node.type /\ p.nodes[j].args = node.args => i = j
   <2>1. \A k \in DOMAIN p.nodes[i].args : IABS(p.nodes[i].args[k]) < NInput + i
      BY <1>2
   <2> QED BY <1>2, <1>3, <2>1
<1> QED BY <1>1, <1>4 DEF Canonical

\* Splicing keeps products flat.
LEMMA AddingFlat ==
  ASSUME NEW p, WellFormed(p), Canonical(p), NEW type \in PogType, NEW node, NEW f, NEW V,
         Building(p, type, node, f, V), Flat(p, node), NEW e, IsEdge(p, e)
  PROVE  Flat(p, add_argument(p, node, e))
<1> DEFINE new == add_argument(p, node, e)
<1>1. /\ node \in Node /\ node.type = type /\ node.args \in Seq(Int) /\ e \in Int
   BY DEF Building, Node, IsEdge
<1>2. CASE Decides(node)
   BY <1>2, AddDecided
<1>3. CASE Complements(node, e)
   <2>1. new = [node EXCEPT !.args = << TAUTOLOGY >>]
      BY <1>3, AddComplement
   <2>2. new.type = "SUM"
      BY <1>1, <1>3, <2>1 DEF Node, Complements
   <2> QED BY <2>2 DEF Flat
<1>4. CASE Attaches(node, e) /\ e = Neutral(node.type)
   BY <1>4, AddNeutral
<1>5. CASE Attaches(node, e) /\ e # Neutral(node.type) /\ e = Dominating(node.type)
   <2>1. new = [node EXCEPT !.args = << e >>]
      BY <1>5, AddDominating
   <2>2. new.args = << e >> /\ ToSet(<< e >>) = {e}
      BY <1>1, <2>1, ToSetOne DEF Node
   <2>3. IABS(e) = TAUTOLOGY
      BY <1>5, Constants DEF Dominating
   <2>4. ~is_node(e)
      BY <2>3 DEF is_node
   <2> HIDE DEF new
   <2>5. Flat(p, new)
      BY <2>2, <2>4 DEF Flat
   <2> QED BY <2>5 DEF new
<1>6. CASE Attaches(node, e) /\ e # Neutral(node.type) /\ e # Dominating(node.type)
   <2>1. new = WithArgument(p, node, e)
      BY <1>6, AddOther
   <2>2. IABS(e) # TAUTOLOGY
      BY <1>1, <1>6, Constants DEF Dominating, Neutral, PogType, IABS, CONFLICT, IsEdge
   <2>3. StandsFor(p, node.type, Spliced(p, node, e), e)
      BY <2>2, Splicing
   <2> DEFINE s == Spliced(p, node, e)
   <2>4. new.args = node.args \o s /\ new.type = node.type
      BY <1>1, <2>1 DEF WithArgument, Node
   <2>5. ToSet(node.args \o s) = ToSet(node.args) \cup ToSet(s)
      BY <1>1, <2>3, ToSetConcat DEF StandsFor
   <2>6. ASSUME node.type = "PRODUCT", NEW x \in ToSet(s), x > 0, is_node(x)
         PROVE  NodeOf(p, x).type = "SUM"
      <3>1. CASE is_node(e) /\ e > 0 /\ NodeOf(p, e).type = "PRODUCT"
         <4>1. s = NodeOf(p, e).args
            BY <2>6, <3>1 DEF Spliced
         <4>2. /\ IABS(e) - NInput \in 1 .. Len(p.nodes)
               /\ NodeOf(p, e) = p.nodes[IABS(e) - NInput]
            BY <3>1, NodeMeaning DEF IsNode
         <4>3. Flat(p, NodeOf(p, e))
            BY <4>2, CanonicalNodes DEF Normal
         <4> QED BY <2>6, <3>1, <4>1, <4>3 DEF Flat
      <3>2. CASE ~(is_node(e) /\ e > 0 /\ NodeOf(p, e).type = "PRODUCT")
         <4>1. s = << e >>
            BY <3>2 DEF Spliced
         <4>2. x = e
            BY <1>1, <2>6, <4>1, ToSetOne
         <4>3. NodeOf(p, e).type \in PogType
            BY <2>6, <4>2, NodeMeaning DEF IsNode
         <4> QED BY <2>6, <3>2, <4>2, <4>3 DEF PogType
      <3> QED BY <3>1, <3>2
   <2> HIDE DEF new, s
   <2>7. Flat(p, new)
      BY <2>4, <2>5, <2>6 DEF Flat
   <2> QED BY <2>7 DEF new
<1>7. Decides(node) \/ Complements(node, e) \/ Attaches(node, e)
   BY DEF Attaches
<1> QED BY <1>2, <1>3, <1>4, <1>5, <1>6, <1>7

\* A node that is finished is in normal form.
LEMMA FinishingCanonical ==
  ASSUME NEW p, WellFormed(p), Canonical(p), NEW type \in PogType, NEW node, NEW f, NEW V,
         Building(p, type, node, f, V), Flat(p, node), Fits(finish_node(p, node).pog)
  PROVE  Canonical(finish_node(p, node).pog)
<1> DEFINE made == finish_node(p, node)
           args == node.args
<1>1. /\ node \in Node /\ node.type = type /\ args \in Seq(Int)
      /\ \A x \in ToSet(args) : IsEdge(p, x)
   BY DEF Building, Node
<1>2. Len(args) \in Nat
   BY <1>1, LenProperties
<1>3. CASE Len(args) = 0
   BY <1>3, FinishNone
<1>4. CASE Len(args) = 1
   BY <1>4, FinishOne
<1>5. CASE Len(args) \notin {0, 1} /\ EqualNodes(p, node) # {}
   <2>1. Len(args) > 1
      <3>1. \A k \in Nat : k \notin {0, 1} => k > 1
         OBVIOUS
      <3> QED BY <1>2, <1>5, <3>1, Zenon
   <2> QED BY <1>2, <1>5, <2>1, FinishEqual
<1>6. CASE Len(args) \notin {0, 1} /\ EqualNodes(p, node) = {}
   <2> DEFINE q == WithNode(p, node)
              n == Len(p.nodes)
              new == Sorted(node)
   <2>1. made.pog = q
      BY <1>6, FinishNew
   <2>2. args # << Dominating(type) >> /\ Len(args) >= 2
      <3>1. Len(<< Dominating(type) >>) = 1
         OBVIOUS
      <3>2. \A k \in Nat : k \notin {0, 1} => k >= 2
         OBVIOUS
      <3>3. Len(args) >= 2
         BY <1>2, <1>6, <3>2, Zenon
      <3>4. args # << Dominating(type) >>
         BY <1>6, <3>1
      <3> QED BY <3>3, <3>4
   <2>3. /\ WellFormed(q) /\ Grown(p, q) /\ Len(q.nodes) = n + 1 /\ q.nodes[n + 1] = new
      BY <2>1, <2>2, OneMoreNode
   <2>4. /\ n \in Nat /\ DOMAIN p.nodes = 1 .. n /\ Layered(p) /\ Layered(q)
         /\ p.nodes \in Seq(Node) /\ NInput \in Nat
      BY <2>3, Sizes
   <2>5. KeepsEdges(p, q)
      BY <2>3, <2>4, GrownEdges
   <2>6. /\ new \in Node /\ new.type = type /\ ToSet(new.args) = ToSet(args)
         /\ Len(new.args) = Len(args) /\ new.args = SortedArgs(args)
      BY <1>1, SortedFacts DEF Sorted, Node
   <2>7. \A i \in 1 .. n : p.nodes[i].type = type => p.nodes[i].args # new.args
      BY <1>1, <1>6, <2>4 DEF EqualNodes
   <2> HIDE DEF q, new, made
   <2>8. ASSUME NEW m \in Node, Flat(p, m), \A x \in ToSet(m.args) : IsEdge(p, x)
         PROVE  Flat(q, m)
      BY <2>5, <2>8 DEF Flat, KeepsEdges
   <2>9. ASSUME NEW i \in 1 .. n
         PROVE  Normal(q, i)
      <3>1. q.nodes[i] = p.nodes[i] /\ p.nodes[i] \in Node
         BY <2>3, <2>4 DEF Grown
      <3>2. Normal(p, i)
         BY CanonicalNodes
      <3>3. \A x \in ToSet(p.nodes[i].args) : IsEdge(p, x)
         <4>1. \A x \in ToSet(p.nodes[i].args) : x \in Int /\ IABS(x) \in 1 .. NInput + i - 1
            BY <2>4 DEF Layered
         <4> QED BY <2>4, <4>1 DEF IsEdge
      <3>4. Flat(q, q.nodes[i])
         BY <2>8, <3>1, <3>2, <3>3 DEF Normal
      <3>5. ASSUME NEW j \in 1 .. n + 1, q.nodes[j].type = q.nodes[i].type,
                   q.nodes[j].args = q.nodes[i].args
            PROVE  i = j
         <4>1. CASE j \in 1 .. n
            <5>1. q.nodes[j] = p.nodes[j]
               BY <2>3, <4>1 DEF Grown
            <5> QED BY <3>1, <3>2, <3>5, <4>1, <5>1 DEF Normal
         <4>2. CASE j = n + 1
            BY <2>3, <2>6, <2>7, <3>1, <3>5, <4>2
         <4> QED BY <2>4, <4>1, <4>2
      <3> QED BY <2>3, <3>1, <3>2, <3>4, <3>5 DEF Normal
   <2>10. Normal(q, n + 1)
      <3>1. Len(new.args) >= 2 /\ Ordered(new.args)
         BY <1>1, <2>2, <2>6, SortedArgsOrdered
      <3>2. Flat(p, new)
         BY <1>1, <2>6 DEF Flat
      <3>3. Flat(q, new)
         BY <1>1, <2>6, <2>8, <3>2
      <3>4. ASSUME NEW j \in 1 .. n + 1, q.nodes[j].type = new.type, q.nodes[j].args = new.args
            PROVE  n + 1 = j
         <4>1. CASE j \in 1 .. n
            <5>1. q.nodes[j] = p.nodes[j]
               BY <2>3, <4>1 DEF Grown
            <5> QED BY <2>6, <2>7, <3>4, <4>1, <5>1
         <4> QED BY <2>4, <4>1
      <3> QED BY <2>3, <3>1, <3>3, <3>4 DEF Normal
   <2>11. \A i \in 1 .. n + 1 : i \in 1 .. n \/ i = n + 1
      BY <2>4
   <2>12. Canonical(q)
      BY <2>3, <2>9, <2>10, <2>11, CanonicalNodes
   <2> QED BY <2>1, <2>12 DEF made
<1> QED BY <1>3, <1>4, <1>5, <1>6

-----------------------------------------------------------------------------
(* MakeNode *)

First(args, k) == { args[i] : i \in 1 .. k }

AllMentioned(p, edges) == UNION { Mentions(p, x) : x \in edges }

\* Two edges may be arguments of one node.
Compatible(p, type, x, y) ==
    IF type = "SUM" THEN Meaning(p, x) \cap Meaning(p, y) = {}
    ELSE \/ IABS(x) = TAUTOLOGY \/ IABS(y) = TAUTOLOGY
         \/ Mentions(p, x) \cap Mentions(p, y) = {}

AllCompatible(p, type, args) ==
    \A i, j \in 1 .. Len(args) : i < j => Compatible(p, type, args[i], args[j])

\* The node after k arguments.
Stage(p, type, args, k, node) ==
    /\ Building(p, type, node, Joined(p, type, First(args, k)), AllMentioned(p, First(args, k)))
    /\ Countable(p) /\ AllCompatible(p, type, args) => Independent(p, node)
    /\ Canonical(p) => Flat(p, node)

\* A sequence of edges.
Edges(p, args) == args \in Seq(Int) /\ \A i \in 1 .. Len(args) : IsEdge(p, args[i])

LEMMA NextStage ==
  ASSUME NEW p, WellFormed(p), NEW type \in PogType, NEW args, Edges(p, args),
         NEW k \in 1 .. Len(args), NEW node, Stage(p, type, args, k - 1, node)
  PROVE  Stage(p, type, args, k, add_argument(p, node, args[k]))
<1> DEFINE A == First(args, k - 1)
           e == args[k]
           f == Joined(p, type, A)
           V == AllMentioned(p, A)
           new == add_argument(p, node, e)
<1>1. args \in Seq(Int) /\ Len(args) \in Nat /\ IsEdge(p, e)
   BY LenProperties DEF Edges
<1>2. First(args, k) = A \cup {e}
   <2>1. \A i \in 1 .. k : i \in 1 .. k - 1 \/ i = k
      BY <1>1
   <2>2. \A i \in 1 .. k - 1 : i \in 1 .. k
      BY <1>1
   <2>3. k \in 1 .. k
      BY <1>1
   <2> QED BY <2>1, <2>2, <2>3 DEF First
<1>3. Joined(p, type, A \cup {e}) = Extended(type, f, Meaning(p, e))
   <2> DEFINE E == {e}
   <2>1. Joined(p, type, E) = Meaning(p, e)
      BY <1>1, JoinedFacts
   <2> HIDE DEF A, E
   <2>2. Joined(p, type, A \cup E) = Extended(type, Joined(p, type, A), Joined(p, type, E))
      BY JoinedUnion
   <2> QED BY <2>1, <2>2 DEF E
<1>4. AllMentioned(p, A \cup {e}) = V \cup Mentions(p, e)
   <2> HIDE DEF A, e
   <2> QED BY DEF AllMentioned
<1>5. Building(p, type, node, f, V)
   BY DEF Stage
<1>6. Building(p, type, new, Extended(type, f, Meaning(p, e)), V \cup Mentions(p, e))
   BY <1>1, <1>5, Adding
<1>7. ASSUME Countable(p), AllCompatible(p, type, args)
      PROVE  Independent(p, new)
   <2>1. Independent(p, node)
      BY <1>7 DEF Stage
   <2>2. ASSUME NEW x \in A
         PROVE  Compatible(p, type, x, e)
      <3>1. PICK i \in 1 .. k - 1 : x = args[i]
         BY DEF First
      <3>2. i \in 1 .. Len(args) /\ i < k
         BY <1>1
      <3> QED BY <1>7, <3>1, <3>2 DEF AllCompatible
   <2>3. \A x \in A : IsEdge(p, x)
      <3>1. \A i \in 1 .. k - 1 : i \in 1 .. Len(args)
         BY <1>1
      <3> QED BY <3>1 DEF First, Edges
   <2> HIDE DEF A, e, new
   <2>4. CASE type = "SUM"
      <3>1. \A x \in A : Meaning(p, x) \cap Meaning(p, e) = {}
         BY <2>2, <2>4 DEF Compatible
      <3>2. f \cap Meaning(p, e) = {}
         BY <2>4, <3>1 DEF Joined
      <3>3. Excludes(p, type, f, V, e)
         BY <2>4, <3>2 DEF Excludes
      <3> HIDE DEF f, V
      <3> QED BY <1>1, <1>5, <1>7, <2>1, <3>3, AddingIndependent DEF new
   <2>5. CASE type # "SUM"
      <3>1. ASSUME IABS(e) # TAUTOLOGY, NEW x \in A
            PROVE  Mentions(p, x) \cap Mentions(p, e) = {}
         <4>1. Mentions(p, e) \subseteq InputVariables
            BY <1>1, <3>1, Flags
         <4>2. CASE IABS(x) = TAUTOLOGY
            <5>1. Mentions(p, x) = {TAUTOLOGY}
               BY <4>2, EdgeCases DEF Mentions, is_node
            <5>2. TAUTOLOGY \notin InputVariables
               BY Sizes DEF InputVariables
            <5> QED BY <4>1, <5>1, <5>2
         <4>3. CASE IABS(x) # TAUTOLOGY
            BY <2>2, <2>5, <3>1, <4>3 DEF Compatible
         <4> QED BY <4>2, <4>3
      <3>2. IABS(e) = TAUTOLOGY \/ V \cap Mentions(p, e) = {}
         BY <3>1 DEF AllMentioned
      <3>3. Excludes(p, type, f, V, e)
         BY <2>5, <3>2 DEF Excludes
      <3> HIDE DEF f, V
      <3> QED BY <1>1, <1>5, <1>7, <2>1, <3>3, AddingIndependent DEF new
   <2> QED BY <2>4, <2>5
<1> HIDE DEF A, e, f, V, new
<1>8. Building(p, type, new, Joined(p, type, First(args, k)), AllMentioned(p, First(args, k)))
   BY <1>2, <1>3, <1>4, <1>6
<1>9. Canonical(p) => Flat(p, new)
   <2>1. Canonical(p) => Flat(p, node)
      BY DEF Stage
   <2> QED BY <1>1, <1>5, <2>1, AddingFlat DEF new
<1> QED BY <1>7, <1>8, <1>9 DEF Stage, new, e

LEMMA MakeNodeStages ==
  ASSUME NEW p, WellFormed(p), NEW type \in PogType, NEW args, Edges(p, args)
  PROVE  \E node : /\ Stage(p, type, args, Len(args), node)
                   /\ MakeNode(p, type, args) = finish_node(p, node)
<1> DEFINE n == Len(args)
           after[k \in 0 .. n] ==
             IF k = 0 THEN start_node(type) ELSE add_argument(p, after[k - 1], args[k])
           T == [k \in 0 .. n |-> { node \in Node : Stage(p, type, args, k, node) }]
           step == [q \in (1 .. n) \X Node |-> add_argument(p, q[2], args[q[1]])]
<1>1. n \in Nat
   BY LenProperties DEF Edges
<1>2. MakeNode(p, type, args) = finish_node(p, after[n])
   BY DEF MakeNode
<1> HIDE DEF n
<1>3. \A k \in 0 .. n : T[k] = { node \in Node : Stage(p, type, args, k, node) }
   OBVIOUS
<1>4. \A k \in 1 .. n, x \in Node : step[<< k, x >>] = add_argument(p, x, args[k])
   OBVIOUS
<1>5. start_node(type) \in T[0]
   <2>1. First(args, 0) = {}
      BY DEF First
   <2>2. AllMentioned(p, {}) = {}
      BY DEF AllMentioned
   <2>3. Stage(p, type, args, 0, start_node(type)) /\ start_node(type) \in Node
      <3>1. Building(p, type, start_node(type), Joined(p, type, {}), {})
         BY Starting
      <3>2. Independent(p, start_node(type))
         BY Starting
      <3>3. start_node(type) \in Node
         BY <3>1 DEF Building
      <3>4. Flat(p, start_node(type))
         <4>1. ToSet(start_node(type).args) = {}
            BY DEF start_node, ToSet
         <4> QED BY <4>1 DEF Flat
      <3>5. Stage(p, type, args, 0, start_node(type))
         BY <2>1, <2>2, <3>1, <3>2, <3>4 DEF Stage
      <3> QED BY <3>3, <3>5
   <2>4. 0 \in 0 .. n
      BY <1>1
   <2>5. T[0] = { node \in Node : Stage(p, type, args, 0, node) }
      BY <1>3, <2>4
   <2> QED BY <2>3, <2>5, Zenon
<1>6. ASSUME NEW k \in 1 .. n, NEW x \in T[k - 1]
      PROVE  step[<< k, x >>] \in T[k] /\ step[<< k, x >>] = add_argument(p, x, args[k])
   <2>1. k - 1 \in 0 .. n /\ k \in 0 .. n /\ k \in 1 .. Len(args)
      BY <1>1 DEF n
   <2>2. x \in Node /\ Stage(p, type, args, k - 1, x)
      BY <1>3, <2>1
   <2>3. step[<< k, x >>] = add_argument(p, x, args[k])
      BY <1>4, <2>2
   <2> DEFINE new == add_argument(p, x, args[k])
   <2>4. Stage(p, type, args, k, new)
      BY <2>1, <2>2, NextStage
   <2> HIDE DEF new
   <2>5. new \in Node
      <3>1. Building(p, type, new, Joined(p, type, First(args, k)), AllMentioned(p, First(args, k)))
         BY <2>4 DEF Stage
      <3> QED BY <3>1 DEF Building
   <2>6. new \in T[k]
      BY <1>3, <2>1, <2>4, <2>5
   <2> QED BY <2>3, <2>6 DEF new
<1> HIDE DEF T, step
<1>7. StepTyped(n, T, step)
   BY <1>6 DEF StepTyped
<1>8. PICK g : Recursive(g, n, T, start_node(type), step)
   BY <1>1, <1>5, <1>7, Recursion
<1>9. ASSUME NEW k \in 1 .. n
      PROVE  g[k] = add_argument(p, g[k - 1], args[k])
   <2>1. k - 1 \in 0 .. n
      BY <1>1
   <2> QED BY <1>6, <1>8, <2>1 DEF Recursive
<1>10. g = [k \in 0 .. n |->
              IF k = 0 THEN start_node(type) ELSE add_argument(p, g[k - 1], args[k])]
   <2>1. g[0] = start_node(type) /\ g = [k \in 0 .. n |-> g[k]]
      BY <1>8 DEF Recursive
   <2>2. ASSUME NEW k \in 0 .. n
         PROVE  g[k] = IF k = 0 THEN start_node(type) ELSE add_argument(p, g[k - 1], args[k])
      <3>1. CASE k = 0
         BY <2>1, <3>1
      <3>2. CASE k # 0
         <4>1. k \in 1 .. n
            BY <1>1, <3>2
         <4> QED BY <1>9, <3>2, <4>1
      <3> QED BY <3>1, <3>2
   <2> QED BY <2>1, <2>2
<1>11. after = [k \in 0 .. n |->
              IF k = 0 THEN start_node(type) ELSE add_argument(p, after[k - 1], args[k])]
   BY <1>10
<1> HIDE DEF after
<1> DEFINE S == { k \in 0 .. n : Stage(p, type, args, k, after[k]) }
<1>12. 0 \in S
   <2>1. 0 \in 0 .. n /\ after[0] = start_node(type)
      BY <1>1, <1>11
   <2>2. start_node(type) \in { node \in Node : Stage(p, type, args, 0, node) }
      BY <1>3, <1>5, <2>1
   <2> QED BY <2>1, <2>2
<1>13. ASSUME NEW k \in 1 .. n, k - 1 \in S
       PROVE  k \in S
   <2>1. k \in 0 .. n /\ k # 0 /\ k \in 1 .. Len(args)
      BY <1>1 DEF n
   <2>2. after[k] = add_argument(p, after[k - 1], args[k])
      BY <1>11, <2>1
   <2>3. Stage(p, type, args, k - 1, after[k - 1])
      BY <1>13
   <2>4. Stage(p, type, args, k, after[k])
      BY <2>1, <2>2, <2>3, NextStage
   <2> QED BY <2>1, <2>4
<1> HIDE DEF S
<1>14. 0 .. n \subseteq S
   BY <1>1, <1>12, <1>13, Induction
<1>15. Stage(p, type, args, n, after[n])
   BY <1>1, <1>14, n \in 0 .. n DEF S
<1> QED BY <1>2, <1>15 DEF n

\* A node stands for the conjunction or the disjunction of its arguments; it
\* keeps the graph countable if no two of them have a variable in common, or no
\* two a model.
THEOREM MakeNodeIsRight ==
  ASSUME NEW p, WellFormed(p), NEW type \in PogType, NEW args, Edges(p, args),
         Fits(MakeNode(p, type, args).pog)
  PROVE  /\ Made(p, Joined(p, type, ToSet(args)), AllMentioned(p, ToSet(args)),
                 MakeNode(p, type, args))
         /\ Countable(p) /\ AllCompatible(p, type, args) =>
                Countable(MakeNode(p, type, args).pog)
<1>1. PICK node : /\ Stage(p, type, args, Len(args), node)
                  /\ MakeNode(p, type, args) = finish_node(p, node)
   BY MakeNodeStages
<1>2. First(args, Len(args)) = ToSet(args)
   BY LenProperties DEF Edges, First, ToSet
<1>3. Building(p, type, node, Joined(p, type, ToSet(args)), AllMentioned(p, ToSet(args)))
   BY <1>1, <1>2 DEF Stage
<1>4. Countable(p) /\ AllCompatible(p, type, args) => Independent(p, node)
   BY <1>1 DEF Stage
<1> DEFINE f == Joined(p, type, ToSet(args))
           V == AllMentioned(p, ToSet(args))
           made == finish_node(p, node)
<1> HIDE DEF f, V
<1>5. Building(p, type, node, f, V) /\ Fits(made.pog)
   BY <1>1, <1>3 DEF f, V
<1>6. /\ Made(p, f, V, made)
      /\ Countable(p) /\ Independent(p, node) => Countable(made.pog)
   BY <1>5, Finishing
<1> QED BY <1>1, <1>4, <1>6 DEF f, V

\* The graph stays in normal form, so that equal nodes are the same node.
THEOREM MakeNodeIsCanonical ==
  ASSUME NEW p, WellFormed(p), Canonical(p), NEW type \in PogType, NEW args, Edges(p, args),
         Fits(MakeNode(p, type, args).pog)
  PROVE  Canonical(MakeNode(p, type, args).pog)
<1>1. PICK node : /\ Stage(p, type, args, Len(args), node)
                  /\ MakeNode(p, type, args) = finish_node(p, node)
   BY MakeNodeStages
<1> DEFINE f == Joined(p, type, First(args, Len(args)))
           V == AllMentioned(p, First(args, Len(args)))
<1>2. Building(p, type, node, f, V) /\ Flat(p, node)
   BY <1>1 DEF Stage
<1> HIDE DEF f, V
<1> QED BY <1>1, <1>2, FinishingCanonical

-----------------------------------------------------------------------------
(* Counting *)

\* The points of the data space.
LEMMA SpaceSize ==
  ASSUME NEW D, D \subseteq InputVariables
  PROVE  /\ IsFiniteSet(D) /\ IsFiniteSet(SUBSET D)
         /\ Cardinality(SUBSET D) = 2 ^ Cardinality(D)
         /\ Cardinality(SUBSET D) \in Nat /\ Cardinality(SUBSET D) > 0
<1>1. IsFiniteSet(InputVariables)
   BY NInputAssumption, FS_Interval DEF InputVariables
<1>2. IsFiniteSet(D)
   BY <1>1, FS_Subset
<1>3. IsFiniteSet(SUBSET D) /\ Cardinality(SUBSET D) = 2 ^ Cardinality(D)
   BY <1>2, FS_SUBSET
<1>4. SUBSET D # {}
   BY {} \in SUBSET D
<1>5. Cardinality(SUBSET D) \in Nat /\ Cardinality(SUBSET D) # 0
   BY <1>3, <1>4, FS_CardinalityType, FS_EmptySet
<1> QED BY <1>2, <1>3, <1>5

\* The parts of a finite set.
LEMMA SplitCount ==
  ASSUME NEW U, IsFiniteSet(U), NEW A, A \subseteq U
  PROVE  /\ IsFiniteSet(A) /\ Cardinality(A) \in Nat /\ Cardinality(A) <= Cardinality(U)
         /\ Cardinality(U \ A) = Cardinality(U) - Cardinality(A)
<1>1. IsFiniteSet(A) /\ Cardinality(A) <= Cardinality(U)
   BY FS_Subset
<1>2. U \cap A = A
   OBVIOUS
<1> QED BY <1>1, <1>2, FS_Difference, FS_CardinalityType

LEMMA DisjointCount ==
  ASSUME NEW U, IsFiniteSet(U), NEW A, A \subseteq U, NEW B, B \subseteq U, A \cap B = {}
  PROVE  Cardinality(A \cup B) = Cardinality(A) + Cardinality(B)
<1>1. IsFiniteSet(A) /\ IsFiniteSet(B) /\ Cardinality(A) \in Nat /\ Cardinality(B) \in Nat
   BY SplitCount
<1>2. Cardinality(A \cup B) = Cardinality(A) + Cardinality(B) - Cardinality({})
   BY <1>1, FS_Union
<1>3. Cardinality({}) = 0
   BY FS_EmptySet
<1> QED BY <1>1, <1>2, <1>3

\* A variable is true in half of the points.
LEMMA HalfCount ==
  ASSUME NEW D, D \subseteq InputVariables, NEW v \in D
  PROVE  Cardinality({ a \in SUBSET D : v \in a }) = Cardinality(SUBSET D) \div 2
<1> DEFINE U == SUBSET D
           A == { a \in U : v \in a }
           B == { a \in U : v \notin a }
           g == [a \in B |-> a \cup {v}]
<1>1. g \in [B -> A]
   OBVIOUS
<1>2. ASSUME NEW a \in B, NEW b \in B, g[a] = g[b]
      PROVE  a = b
   <2>1. a \cup {v} = b \cup {v} /\ v \notin a /\ v \notin b
      BY <1>2
   <2> QED BY <2>1
<1>3. ASSUME NEW a \in A
      PROVE  \E b \in B : g[b] = a
   <2>1. a \ {v} \in B /\ g[a \ {v}] = a
      OBVIOUS
   <2> QED BY <2>1
<1> HIDE DEF g
<1>4. g \in Bijection(B, A)
   BY <1>1, <1>2, <1>3, Fun_IsBij
<1>5. ExistsBijection(B, A)
   BY <1>4 DEF ExistsBijection
<1>6. IsFiniteSet(U)
   BY SpaceSize
<1>7. IsFiniteSet(B) /\ Cardinality(B) \in Nat
   BY <1>6, SplitCount, B \subseteq U
<1>8. Cardinality(A) = Cardinality(B)
   BY <1>5, <1>7, FS_Bijection
<1>9. A \cap B = {} /\ A \cup B = U
   OBVIOUS
<1>10. Cardinality(U) = Cardinality(A) + Cardinality(B)
   BY <1>6, <1>9, DisjointCount, A \subseteq U, B \subseteq U
<1> QED BY <1>7, <1>8, <1>10

\* Two sets of points that depend on different variables.
DependsOn(D, A, V) ==
    \A a, b \in SUBSET D : a \cap V = b \cap V => (a \in A <=> b \in A)

\* The point that agrees with a on V, and with b elsewhere.
Mix(V, a, b) == (a \cap V) \cup (b \ V)

LEMMA Mixing ==
  ASSUME NEW D, NEW V, NEW W, V \cap W = {}, NEW a \in SUBSET D, NEW b \in SUBSET D
  PROVE  /\ Mix(V, a, b) \in SUBSET D
         /\ Mix(V, a, b) \cap V = a \cap V /\ Mix(V, a, b) \cap W = b \cap W
         /\ Mix(V, Mix(V, a, b), Mix(V, b, a)) = a
BY DEF Mix

LEMMA ProductCount ==
  ASSUME NEW D, D \subseteq InputVariables, NEW A, A \subseteq SUBSET D, NEW B, B \subseteq SUBSET D,
         NEW V, NEW W, DependsOn(D, A, V), DependsOn(D, B, W), V \cap W = {}
  PROVE  Cardinality(A \cap B) * Cardinality(SUBSET D) = Cardinality(A) * Cardinality(B)
<1> DEFINE U == SUBSET D
           S == A \X B
           T == (A \cap B) \X U
           g == [s \in S |-> << Mix(V, s[1], s[2]), Mix(V, s[2], s[1]) >>]
<1>1. ASSUME NEW a \in A, NEW b \in B
      PROVE  Mix(V, a, b) \in A \cap B /\ Mix(V, b, a) \in U
   <2>1. a \in U /\ b \in U
      OBVIOUS
   <2>2. /\ Mix(V, a, b) \in U /\ Mix(V, b, a) \in U
         /\ Mix(V, a, b) \cap V = a \cap V /\ Mix(V, a, b) \cap W = b \cap W
      BY <2>1, Mixing
   <2>3. Mix(V, a, b) \in A
      BY <2>1, <2>2 DEF DependsOn
   <2>4. Mix(V, a, b) \in B
      BY <2>1, <2>2 DEF DependsOn
   <2> QED BY <2>2, <2>3, <2>4
<1>2. ASSUME NEW a \in A \cap B, NEW b \in U
      PROVE  Mix(V, a, b) \in A /\ Mix(V, b, a) \in B
   <2>1. a \in U /\ a \in A /\ a \in B
      OBVIOUS
   <2>2. /\ Mix(V, a, b) \in U /\ Mix(V, b, a) \in U
         /\ Mix(V, a, b) \cap V = a \cap V /\ Mix(V, b, a) \cap W = a \cap W
      BY <2>1, Mixing
   <2>3. Mix(V, a, b) \in A
      BY <2>1, <2>2 DEF DependsOn
   <2>4. Mix(V, b, a) \in B
      BY <2>1, <2>2 DEF DependsOn
   <2> QED BY <2>3, <2>4
<1>3. g \in [S -> T]
   BY <1>1
<1>4. ASSUME NEW s \in S, NEW t \in S, g[s] = g[t]
      PROVE  s = t
   <2>1. /\ s = << s[1], s[2] >> /\ t = << t[1], t[2] >>
         /\ s[1] \in U /\ s[2] \in U /\ t[1] \in U /\ t[2] \in U
      OBVIOUS
   <2>2. Mix(V, s[1], s[2]) = Mix(V, t[1], t[2]) /\ Mix(V, s[2], s[1]) = Mix(V, t[2], t[1])
      BY <1>4
   <2>3. s[1] = t[1] /\ s[2] = t[2]
      BY <2>1, <2>2, Mixing, SMTT(30)
   <2> QED BY <2>1, <2>3
<1>5. ASSUME NEW t \in T
      PROVE  \E s \in S : g[s] = t
   <2>1. t = << t[1], t[2] >> /\ t[1] \in A \cap B /\ t[2] \in U /\ t[1] \in U
      OBVIOUS
   <2> DEFINE s == << Mix(V, t[1], t[2]), Mix(V, t[2], t[1]) >>
   <2>2. s \in S
      BY <1>2, <2>1
   <2>3. g[s] = << t[1], t[2] >>
      BY Mixing, <2>1, <2>2
   <2> QED BY <2>1, <2>2, <2>3
<1>6. ExistsBijection(S, T)
   <2> HIDE DEF S, T, g
   <2>1. g \in Bijection(S, T)
      BY <1>3, <1>4, <1>5, Fun_IsBij
   <2> QED BY <2>1 DEF ExistsBijection
<1>7. IsFiniteSet(U)
   BY SpaceSize
<1>8. IsFiniteSet(A) /\ IsFiniteSet(B) /\ IsFiniteSet(A \cap B)
   BY <1>7, FS_Subset, A \cap B \subseteq U
<1>9. IsFiniteSet(S) /\ Cardinality(S) = Cardinality(A) * Cardinality(B)
   BY <1>8, FS_Product
<1>10. Cardinality(T) = Cardinality(A \cap B) * Cardinality(U)
   BY <1>7, <1>8, FS_Product
<1>11. Cardinality(T) = Cardinality(S)
   BY <1>6, <1>9, FS_Bijection
<1> QED BY <1>9, <1>10, <1>11

\* Division without a remainder.
LEMMA DivideUnit ==
  ASSUME NEW x \in Nat, NEW y \in Nat, NEW z \in Nat, NEW u \in Nat, u > 0, x * y = z * u
  PROVE  (x * y) \div u = z
OBVIOUS

-----------------------------------------------------------------------------
(* Weights *)

\* The points of the data space at which an edge is true.
Points(p, f) == f \cap SUBSET p.data_variables

Count(p, e) == Cardinality(Points(p, Meaning(p, e)))

Unit(p) == 2 ^ Cardinality(p.data_variables)

DataEdge(p, e) == IABS(e) = TAUTOLOGY \/ Mentions(p, e) \subseteq p.data_variables

LEMMA UnitFacts ==
  ASSUME NEW p, WellFormed(p)
  PROVE  /\ p.data_variables \subseteq InputVariables
         /\ Unit(p) = Cardinality(SUBSET p.data_variables) /\ Unit(p) \in Nat /\ Unit(p) > 0
         /\ IsFiniteSet(SUBSET p.data_variables)
         /\ Points(p, Assignments) = SUBSET p.data_variables
         /\ \A f : /\ Points(p, f) \subseteq SUBSET p.data_variables
                   /\ IsFiniteSet(Points(p, f)) /\ Cardinality(Points(p, f)) \in Nat
<1>1. p.data_variables \subseteq InputVariables
   BY DEF WellFormed
<1>2. /\ IsFiniteSet(SUBSET p.data_variables)
      /\ Unit(p) = Cardinality(SUBSET p.data_variables) /\ Unit(p) \in Nat /\ Unit(p) > 0
   BY <1>1, SpaceSize DEF Unit
<1>3. Points(p, Assignments) = SUBSET p.data_variables
   BY <1>1 DEF Points, Assignments
<1>4. \A f : Points(p, f) \subseteq SUBSET p.data_variables
   BY DEF Points
<1>5. \A f : IsFiniteSet(Points(p, f)) /\ Cardinality(Points(p, f)) \in Nat
   BY <1>2, <1>4, SplitCount
<1> QED BY <1>1, <1>2, <1>3, <1>4, <1>5

\* The count of a negated edge.
LEMMA ComplementCount ==
  ASSUME NEW p, WellFormed(p), NEW e, IsEdge(p, e)
  PROVE  Count(p, -e) = Unit(p) - Count(p, e) /\ Count(p, e) \in Nat
<1> DEFINE U == SUBSET p.data_variables
           A == Points(p, Meaning(p, e))
<1>1. Meaning(p, -e) = Assignments \ Meaning(p, e)
   BY Negation DEF Negates
<1>2. Points(p, Meaning(p, -e)) = U \ A
   BY <1>1, UnitFacts DEF Points
<1>3. IsFiniteSet(U) /\ A \subseteq U /\ Unit(p) = Cardinality(U)
   BY UnitFacts
<1> HIDE DEF U, A
<1>4. Cardinality(U \ A) = Cardinality(U) - Cardinality(A) /\ Cardinality(A) \in Nat
   BY <1>3, SplitCount
<1> QED BY <1>2, <1>3, <1>4 DEF Count, A

\* The weights of the first k nodes: those over data variables are counts.
GoodWeights(p, w, k) ==
    /\ w \in Seq(Int) /\ Len(w) = k
    /\ \A i \in 1 .. k :
         Mentions(p, NInput + i) \subseteq p.data_variables => w[i] = Count(p, NInput + i)

\* The cases of edge_weight.
LEMMA WeightCases ==
  ASSUME NEW w, NEW u \in Nat, NEW e \in Int, e > 0
  PROVE  /\ IABS(e) = TAUTOLOGY => edge_weight(w, u, e) = u
         /\ is_node(e) => edge_weight(w, u, e) = w[IABS(e) - NInput]
         /\ ~is_node(e) /\ IABS(e) # TAUTOLOGY => edge_weight(w, u, e) = u \div 2
<1>1. CASE IABS(e) = TAUTOLOGY
   BY <1>1, SMT DEF edge_weight, is_node
<1>2. CASE is_node(e)
   BY <1>2, SMT DEF edge_weight, is_node
<1>3. CASE ~is_node(e) /\ IABS(e) # TAUTOLOGY
   BY <1>3, SMT DEF edge_weight
<1> QED BY <1>1, <1>2, <1>3 DEF is_node

LEMMA WeightNegated ==
  ASSUME NEW w, NEW u \in Nat, NEW e \in Int, e > 0
  PROVE  edge_weight(w, u, -e) = u - edge_weight(w, u, e)
<1>1. IABS(-e) = IABS(e) /\ ~(-e > 0) /\ (is_node(-e) <=> is_node(e))
   BY DEF IABS, is_node
<1>2. CASE IABS(e) = TAUTOLOGY
   BY <1>1, <1>2, SMT DEF edge_weight, is_node
<1>3. CASE is_node(e)
   BY <1>1, <1>3, SMT DEF edge_weight, is_node
<1>4. CASE ~is_node(e) /\ IABS(e) # TAUTOLOGY
   BY <1>1, <1>4, SMT DEF edge_weight
<1> QED BY <1>2, <1>3, <1>4 DEF is_node

WeightRight(p, w, e) ==
    /\ edge_weight(w, Unit(p), e) \in Int
    /\ DataEdge(p, e) => edge_weight(w, Unit(p), e) = Count(p, e)

LEMMA PositiveWeight ==
  ASSUME NEW p, WellFormed(p), NEW k \in 0 .. Len(p.nodes), NEW w, GoodWeights(p, w, k),
         NEW e, IsEdge(p, e), e > 0, IABS(e) <= NInput + k \/ IABS(e) = TAUTOLOGY
  PROVE  WeightRight(p, w, e)
<1>1. /\ e \in Int /\ Unit(p) \in Nat /\ Unit(p) > 0 /\ NInput \in Nat
      /\ k \in Nat /\ k <= Len(p.nodes) /\ Len(p.nodes) \in Nat
      /\ NInput + Len(p.nodes) < TAUTOLOGY /\ TAUTOLOGY \in Nat
   <2>1. /\ NInput \in Nat /\ Len(p.nodes) \in Nat /\ TAUTOLOGY \in Nat
         /\ NInput + Len(p.nodes) < TAUTOLOGY
      BY Sizes
   <2>2. k \in Nat /\ k <= Len(p.nodes)
      BY <2>1
   <2>3. e \in Int /\ Unit(p) \in Nat /\ Unit(p) > 0
      BY UnitFacts DEF IsEdge
   <2> QED BY <2>1, <2>2, <2>3
<1>2. CASE IABS(e) = TAUTOLOGY
   <2>1. e = TAUTOLOGY
      BY <1>1, <1>2 DEF IABS
   <2>2. Meaning(p, e) = Assignments
      BY <2>1, Constants
   <2>3. Count(p, e) = Unit(p)
      BY <2>2, UnitFacts DEF Count
   <2>4. edge_weight(w, Unit(p), e) = Unit(p)
      BY <1>1, <1>2, WeightCases
   <2> QED BY <1>1, <2>3, <2>4 DEF WeightRight
<1>3. CASE is_node(e)
   <2>1. IABS(e) - NInput \in 1 .. k /\ e = NInput + (IABS(e) - NInput)
      BY <1>1, <1>3 DEF is_node, IABS
   <2> DEFINE i == IABS(e) - NInput
   <2>2. edge_weight(w, Unit(p), e) = w[i]
      BY <1>1, <1>3, WeightCases
   <2>5. i \in 1 .. k /\ e = NInput + i
      BY <2>1
   <2>6. IABS(e) # TAUTOLOGY
      BY <1>3 DEF is_node
   <2> HIDE DEF i
   <2>3. w[i] \in Int
      BY <2>5 DEF GoodWeights
   <2>4. Mentions(p, e) \subseteq p.data_variables => w[i] = Count(p, e)
      BY <2>5 DEF GoodWeights
   <2> QED BY <2>2, <2>3, <2>4, <2>6 DEF WeightRight, DataEdge
<1>4. CASE ~is_node(e) /\ IABS(e) # TAUTOLOGY
   <2>1. edge_weight(w, Unit(p), e) = Unit(p) \div 2
      BY <1>1, <1>4, WeightCases
   <2>2. /\ IABS(e) \in InputVariables /\ Meaning(p, e) = { a \in Assignments : Holds(a, e) }
         /\ Mentions(p, e) = {IABS(e)}
      BY <1>4, LiteralMeaning
   <2>3. IABS(e) = e
      BY <1>1 DEF IABS
   <2>4. ASSUME Mentions(p, e) \subseteq p.data_variables
         PROVE  Unit(p) \div 2 = Count(p, e)
      <3>1. e \in p.data_variables
         BY <2>2, <2>3, <2>4
      <3>2. Points(p, Meaning(p, e)) = { a \in SUBSET p.data_variables : e \in a }
         BY <1>1, <2>2, UnitFacts DEF Points, Holds, Assignments
      <3>3. Cardinality({ a \in SUBSET p.data_variables : e \in a }) =
              Cardinality(SUBSET p.data_variables) \div 2
         BY <3>1, UnitFacts, HalfCount
      <3> QED BY <3>2, <3>3, UnitFacts DEF Count
   <2>5. Unit(p) \div 2 \in Int
      BY <1>1
   <2> QED BY <1>4, <2>1, <2>4, <2>5 DEF WeightRight, DataEdge
<1> QED BY <1>2, <1>3, <1>4

LEMMA EdgeWeightRight ==
  ASSUME NEW p, WellFormed(p), NEW k \in 0 .. Len(p.nodes), NEW w, GoodWeights(p, w, k),
         NEW e, IsEdge(p, e), IABS(e) <= NInput + k \/ IABS(e) = TAUTOLOGY
  PROVE  WeightRight(p, w, e)
<1>1. CASE e > 0
   BY <1>1, PositiveWeight
<1>2. CASE ~(e > 0)
   <2> DEFINE n == -e
   <2>1. /\ n \in Int /\ e = -n /\ n > 0 /\ IsEdge(p, n) /\ IABS(n) = IABS(e)
         /\ Mentions(p, n) = Mentions(p, e)
      BY <1>2, Negation DEF Negates
   <2> HIDE DEF n
   <2>2. WeightRight(p, w, n)
      BY <2>1, PositiveWeight
   <2>3. Unit(p) \in Nat
      BY UnitFacts
   <2>4. edge_weight(w, Unit(p), e) = Unit(p) - edge_weight(w, Unit(p), n)
      BY <2>1, <2>3, WeightNegated
   <2>5. Count(p, e) = Unit(p) - Count(p, n) /\ Count(p, n) \in Nat
      BY <2>1, ComplementCount
   <2>6. DataEdge(p, n) <=> DataEdge(p, e)
      BY <2>1 DEF DataEdge
   <2> QED BY <2>2, <2>3, <2>4, <2>5, <2>6 DEF WeightRight
<1> QED BY <1>1, <1>2

-----------------------------------------------------------------------------
(* The value of a node *)

\* A definition by recursion on the arguments has a solution.
NextSum(w, u, node, k, x) ==
    IF node.type = "SUM" THEN x + edge_weight(w, u, node.args[k])
    ELSE (x * edge_weight(w, u, node.args[k])) \div u

FirstValue(u, node) == IF node.type = "SUM" THEN 0 ELSE u

ValueSteps(w, u, node, g) ==
    /\ node_value(w, u, node) = g[Len(node.args)]
    /\ g[0] = FirstValue(u, node)
    /\ \A k \in 1 .. Len(node.args) : g[k] = NextSum(w, u, node, k, g[k - 1])

LEMMA ValueDefined ==
  ASSUME NEW w, NEW u \in Nat, u > 0, NEW node \in Node,
         \A k \in 1 .. Len(node.args) : edge_weight(w, u, node.args[k]) \in Int
  PROVE  \E g : ValueSteps(w, u, node, g)
<1> DEFINE n == Len(node.args)
           upto[k \in 0 .. n] ==
             IF k = 0 THEN (IF node.type = "SUM" THEN 0 ELSE u)
             ELSE LET weight == edge_weight(w, u, node.args[k])
                  IN  IF node.type = "SUM" THEN upto[k - 1] + weight
                      ELSE (upto[k - 1] * weight) \div u
           T == [k \in 0 .. n |-> Int]
           step == [q \in (1 .. n) \X Int |-> NextSum(w, u, node, q[1], q[2])]
<1>1. n \in Nat
   BY LenProperties DEF Node
<1>2. node_value(w, u, node) = upto[n]
   BY DEF node_value
<1>3. \A k \in 1 .. n : \A x \in Int : NextSum(w, u, node, k, x) \in Int
   BY DEF NextSum
<1> HIDE DEF n
<1>t. \A k \in 0 .. n : T[k] = Int
   OBVIOUS
<1>4. FirstValue(u, node) \in T[0]
   BY <1>1, <1>t, 0 \in 0 .. n DEF FirstValue
<1>5. ASSUME NEW k \in 1 .. n, NEW x \in T[k - 1]
      PROVE  step[<< k, x >>] \in T[k] /\ step[<< k, x >>] = NextSum(w, u, node, k, x)
   <2>0. k - 1 \in 0 .. n /\ k \in 0 .. n
      BY <1>1
   <2>1. x \in Int /\ NextSum(w, u, node, k, x) \in Int
      BY <2>0, <1>t, <1>3
   <2>2. step[<< k, x >>] = NextSum(w, u, node, k, x)
      BY <2>1
   <2> QED BY <1>t, <2>0, <2>1, <2>2
<1> HIDE DEF T, step
<1>6. StepTyped(n, T, step)
   BY <1>5 DEF StepTyped
<1>a. PICK g : Recursive(g, n, T, FirstValue(u, node), step)
   BY <1>1, <1>4, <1>6, Recursion
<1>b. ASSUME NEW k \in 1 .. n
      PROVE  g[k] = NextSum(w, u, node, k, g[k - 1])
   <2>1. k - 1 \in 0 .. n
      BY <1>1
   <2>2. g[k - 1] \in T[k - 1] /\ g[k] = step[<< k, g[k - 1] >>]
      BY <1>a, <2>1 DEF Recursive
   <2> QED BY <1>5, <2>2
<1>c. g = [k \in 0 .. n |-> g[k]] /\ g[0] = FirstValue(u, node)
   BY <1>a DEF Recursive
<1>7. g = [k \in 0 .. n |->
             IF k = 0 THEN (IF node.type = "SUM" THEN 0 ELSE u)
             ELSE LET weight == edge_weight(w, u, node.args[k])
                  IN  IF node.type = "SUM" THEN g[k - 1] + weight
                      ELSE (g[k - 1] * weight) \div u]
   <2>1. ASSUME NEW k \in 0 .. n
         PROVE  g[k] = IF k = 0 THEN FirstValue(u, node) ELSE NextSum(w, u, node, k, g[k - 1])
      <3>1. CASE k = 0
         BY <1>c, <3>1
      <3>2. CASE k # 0
         BY <1>1, <1>b, <3>2, k \in 1 .. n
      <3> QED BY <3>1, <3>2
   <2>2. g = [k \in 0 .. n |->
                IF k = 0 THEN FirstValue(u, node) ELSE NextSum(w, u, node, k, g[k - 1])]
      BY <1>c, <2>1
   <2> QED BY <2>2, Zenon DEF FirstValue, NextSum
<1>8. upto = [k \in 0 .. n |->
             IF k = 0 THEN (IF node.type = "SUM" THEN 0 ELSE u)
             ELSE LET weight == edge_weight(w, u, node.args[k])
                  IN  IF node.type = "SUM" THEN upto[k - 1] + weight
                      ELSE (upto[k - 1] * weight) \div u]
   BY <1>7
<1> HIDE DEF upto
<1>9. upto[0] = FirstValue(u, node)
   BY <1>1, <1>8, 0 \in 0 .. n DEF FirstValue
<1>d. ASSUME NEW k \in 1 .. n
      PROVE  upto[k] = NextSum(w, u, node, k, upto[k - 1])
   <2>1. k \in 0 .. n /\ k # 0
      BY <1>1
   <2> QED BY <1>8, <2>1 DEF NextSum
<1>e. ValueSteps(w, u, node, upto)
   BY <1>2, <1>9, <1>d DEF ValueSteps, n
<1> QED BY <1>e

LEMMA FirstFacts ==
  ASSUME NEW n \in Nat, NEW args, args \in Seq(Int), n = Len(args)
  PROVE  /\ First(args, 0) = {} /\ First(args, n) = ToSet(args)
         /\ \A k \in 1 .. n : First(args, k) = First(args, k - 1) \cup {args[k]}
         /\ \A k \in 0 .. n : First(args, k) \subseteq ToSet(args)
<1>1. First(args, 0) = {}
   BY DEF First
<1>2. DOMAIN args = 1 .. n
   BY ToSetSeq
<1>3. First(args, n) = ToSet(args)
   BY <1>2 DEF First, ToSet
<1>4. ASSUME NEW k \in 1 .. n
      PROVE  First(args, k) = First(args, k - 1) \cup {args[k]}
   <2>1. 1 .. k = (1 .. k - 1) \cup {k}
      OBVIOUS
   <2> QED BY <2>1 DEF First
<1>5. \A k \in 0 .. n : 1 .. k \subseteq 1 .. n
   OBVIOUS
<1>6. \A k \in 0 .. n : First(args, k) \subseteq First(args, n)
   BY <1>5 DEF First
<1> QED BY <1>1, <1>3, <1>4, <1>6

\* The value after the first arguments, by one more argument.
LEMMA SumStep ==
  ASSUME NEW p, WellFormed(p), NEW f, NEW e, IsEdge(p, e), f \cap Meaning(p, e) = {}
  PROVE  Cardinality(Points(p, f \cup Meaning(p, e))) = Cardinality(Points(p, f)) + Count(p, e)
<1> DEFINE U == SUBSET p.data_variables
           A == Points(p, f)
           B == Points(p, Meaning(p, e))
<1>1. A \cap B = {} /\ Points(p, f \cup Meaning(p, e)) = A \cup B
   BY DEF Points
<1>2. IsFiniteSet(U) /\ A \subseteq U /\ B \subseteq U
   BY UnitFacts
<1> HIDE DEF A, B, U
<1>3. Cardinality(A \cup B) = Cardinality(A) + Cardinality(B)
   BY <1>1, <1>2, DisjointCount
<1> QED BY <1>1, <1>3 DEF A, B, Count

\* A function that depends on the variables V only.
Over(f, V) == \A a, b \in Assignments : a \cap V = b \cap V => (a \in f <=> b \in f)

LEMMA ProductStep ==
  ASSUME NEW p, WellFormed(p), NEW f, NEW V, Over(f, V), NEW e, IsEdge(p, e),
         V \cap Mentions(p, e) = {}
  PROVE  (Cardinality(Points(p, f)) * Count(p, e)) \div Unit(p) =
            Cardinality(Points(p, f \cap Meaning(p, e)))
<1> DEFINE D == p.data_variables
           A == Points(p, f)
           B == Points(p, Meaning(p, e))
           W == Mentions(p, e)
<1>1. A \cap B = Points(p, f \cap Meaning(p, e))
   BY DEF Points
<1>2. /\ D \subseteq InputVariables /\ A \subseteq SUBSET D /\ B \subseteq SUBSET D
      /\ Cardinality(A) \in Nat /\ Cardinality(B) \in Nat /\ Cardinality(A \cap B) \in Nat
      /\ Unit(p) = Cardinality(SUBSET D) /\ Unit(p) \in Nat /\ Unit(p) > 0
   BY <1>1, UnitFacts
<1>3. DependsOn(D, A, V)
   BY <1>2 DEF DependsOn, Over, Points, Assignments
<1>4. Agree(p, e)
   BY Dependence
<1>5. DependsOn(D, B, W)
   BY <1>2, <1>4 DEF DependsOn, Agree, Points, Assignments
<1> HIDE DEF A, B, D, W
<1>6. Cardinality(A \cap B) * Cardinality(SUBSET D) = Cardinality(A) * Cardinality(B)
   <2>1. V \cap W = {}
      BY DEF W
   <2> QED BY <1>2, <1>3, <1>5, <2>1, ProductCount
<1>7. (Cardinality(A) * Cardinality(B)) \div Unit(p) = Cardinality(A \cap B)
   <2> DEFINE x == Cardinality(A)
              y == Cardinality(B)
              z == Cardinality(A \cap B)
              u == Unit(p)
   <2>1. x \in Nat /\ y \in Nat /\ z \in Nat /\ u \in Nat /\ u > 0 /\ x * y = z * u
      BY <1>2, <1>6
   <2> HIDE DEF x, y, z, u
   <2>2. (x * y) \div u = z
      BY <2>1, DivideUnit
   <2> QED BY <2>2 DEF x, y, z, u
<1> QED BY <1>1, <1>7 DEF A, B, Count

\* What the arguments of a node i are.
ArgumentsOf(p, i) ==
    LET node == p.nodes[i]
        e    == NInput + i
    IN  /\ node \in Node /\ node.args \in Seq(Int) /\ node.type \in PogType
        /\ IsEdge(p, e) /\ IABS(e) = e /\ e > 0
        /\ \A x \in ToSet(node.args) :
             /\ IsEdge(p, x) /\ IABS(x) <= NInput + i - 1 /\ IABS(x) # TAUTOLOGY
             /\ Mentions(p, x) \subseteq Mentions(p, e)
        /\ Meaning(p, e) = Joined(p, node.type, ToSet(node.args))

LEMMA NodeArguments ==
  ASSUME NEW p, WellFormed(p), NEW i \in 1 .. Len(p.nodes)
  PROVE  ArgumentsOf(p, i)
<1> DEFINE e == NInput + i
           node == p.nodes[i]
<1>1. /\ NInput \in Nat /\ Len(p.nodes) \in Nat /\ TAUTOLOGY \in Nat
      /\ NInput + Len(p.nodes) < TAUTOLOGY
   BY Sizes
<1>2. i \in Nat /\ i > 0 /\ i <= Len(p.nodes)
   BY <1>1
<1>3. /\ e \in Int /\ IABS(e) = e /\ e > 0 /\ IABS(e) - NInput = i
      /\ IsEdge(p, e) /\ is_node(e)
   BY <1>1, <1>2 DEF IABS, IsEdge, is_node
<1>4. NodeOf(p, e) = node
   BY <1>3 DEF NodeOf
<1> HIDE DEF e, node
<1>5. IsNode(p, e, node)
   BY <1>3, <1>4, NodeMeaning
<1>6. ASSUME NEW x \in ToSet(node.args)
      PROVE  /\ IsEdge(p, x) /\ IABS(x) <= NInput + i - 1 /\ IABS(x) # TAUTOLOGY
             /\ Mentions(p, x) \subseteq Mentions(p, e)
   <2>1. IsEdge(p, x) /\ IABS(x) \in 1 .. IABS(e) - 1 /\ IABS(x) # TAUTOLOGY
      BY <1>5 DEF IsNode
   <2>2. Mentions(p, x) \subseteq InputVariables
      BY <2>1, Flags
   <2>3. Mentions(p, x) \subseteq Mentions(p, e)
      BY <1>5, <2>2 DEF IsNode, MentionedBy
   <2>4. IABS(x) <= NInput + i - 1
      BY <1>1, <1>2, <1>3, <2>1
   <2> QED BY <2>1, <2>3, <2>4
<1> QED BY <1>3, <1>5, <1>6 DEF ArgumentsOf, IsNode, e, node

LEMMA NodeValueRight ==
  ASSUME NEW p, WellFormed(p), Countable(p), NEW i \in 1 .. Len(p.nodes), NEW w,
         GoodWeights(p, w, i - 1)
  PROVE  /\ node_value(w, Unit(p), p.nodes[i]) \in Int
         /\ Mentions(p, NInput + i) \subseteq p.data_variables =>
              node_value(w, Unit(p), p.nodes[i]) = Count(p, NInput + i)
<1> DEFINE node == p.nodes[i]
           args == node.args
           n == Len(args)
           u == Unit(p)
           e == NInput + i
<1>1. /\ node \in Node /\ args \in Seq(Int) /\ node.type \in PogType /\ IsEdge(p, e)
      /\ \A x \in ToSet(args) :
           /\ IsEdge(p, x) /\ IABS(x) <= NInput + i - 1 /\ IABS(x) # TAUTOLOGY
           /\ Mentions(p, x) \subseteq Mentions(p, e)
      /\ Meaning(p, e) = Joined(p, node.type, ToSet(args))
   BY NodeArguments, Zenon DEF ArgumentsOf
<1>2. n \in Nat /\ u \in Nat /\ u > 0
   BY <1>1, LenProperties, UnitFacts
<1>3. Independent(p, node)
   BY CountableNodes, Sizes
<1>4. \A k \in 1 .. n : args[k] \in ToSet(args)
   BY <1>1, ToSetSeq
<1>5. i - 1 \in 0 .. Len(p.nodes) /\ NInput + (i - 1) = NInput + i - 1
   BY Sizes
<1>6. DOMAIN args = 1 .. n
   BY <1>1, ToSetSeq
<1> HIDE DEF node, e
<1>7. ASSUME NEW k \in 1 .. n
      PROVE  /\ edge_weight(w, u, args[k]) \in Int
             /\ Mentions(p, e) \subseteq p.data_variables =>
                   edge_weight(w, u, args[k]) = Count(p, args[k])
   <2>1. /\ IsEdge(p, args[k]) /\ IABS(args[k]) <= NInput + (i - 1)
         /\ Mentions(p, args[k]) \subseteq Mentions(p, e)
      BY <1>1, <1>4, <1>5
   <2>2. WeightRight(p, w, args[k])
      BY <1>5, <2>1, EdgeWeightRight
   <2> QED BY <2>1, <2>2 DEF WeightRight, DataEdge
<1>8. PICK g : ValueSteps(w, u, node, g)
   <2> HIDE DEF u
   <2> QED BY <1>1, <1>2, <1>7, ValueDefined
<1>9. /\ node_value(w, u, node) = g[n] /\ g[0] = FirstValue(u, node)
      /\ \A k \in 1 .. n : g[k] = NextSum(w, u, node, k, g[k - 1])
   BY <1>8 DEF ValueSteps
<1>10. g[n] \in Int
   <2> DEFINE S == { k \in 0 .. n : g[k] \in Int }
   <2>1. 0 \in S
      BY <1>2, <1>9, 0 \in 0 .. n DEF FirstValue
   <2>2. ASSUME NEW k \in 1 .. n, k - 1 \in S
         PROVE  k \in S
      <3>1. g[k - 1] \in Int /\ edge_weight(w, u, args[k]) \in Int
         BY <1>7, <2>2
      <3>2. g[k] \in Int
         BY <1>2, <1>9, <3>1 DEF NextSum
      <3> QED BY <1>2, <3>2
   <2> HIDE DEF S
   <2>3. 0 .. n \subseteq S
      BY <1>2, <2>1, <2>2, Induction
   <2> QED BY <1>2, <2>3, n \in 0 .. n DEF S
<1>11. ASSUME Mentions(p, e) \subseteq p.data_variables
       PROVE  g[n] = Count(p, e)
   <2> DEFINE F(k) == Joined(p, node.type, First(args, k))
              S == { k \in 0 .. n : g[k] = Cardinality(Points(p, F(k))) }
   <2>f. /\ First(args, 0) = {} /\ First(args, n) = ToSet(args)
         /\ \A k \in 1 .. n : First(args, k) = First(args, k - 1) \cup {args[k]}
         /\ \A k \in 0 .. n : First(args, k) \subseteq ToSet(args)
      <3> HIDE DEF n, args
      <3> QED BY <1>1, <1>2, FirstFacts DEF n
   <2>1. 0 \in S
      <3>1. F(0) = IF node.type = "SUM" THEN {} ELSE Assignments
         <4>1. Joined(p, node.type, {}) = IF node.type = "SUM" THEN {} ELSE Assignments
            BY JoinedFacts, Zenon
         <4> QED BY <2>f, <4>1
      <3>2. Points(p, {}) = {} /\ Cardinality({}) = 0
         BY FS_EmptySet DEF Points
      <3>3. Cardinality(Points(p, Assignments)) = u
         BY UnitFacts
      <3>4. g[0] = Cardinality(Points(p, F(0)))
         BY <1>9, <3>1, <3>2, <3>3 DEF FirstValue
      <3> QED BY <1>2, <3>4
   <2>2. ASSUME NEW k \in 1 .. n, k - 1 \in S
         PROVE  k \in S
      <3> DEFINE x == args[k]
                 f == F(k - 1)
      <3>1. x \in ToSet(args) /\ IsEdge(p, x) /\ IABS(x) # TAUTOLOGY
         BY <1>1, <1>4
      <3>2. F(k) = Extended(node.type, f, Meaning(p, x))
         <4>1. Joined(p, node.type, {x}) = Meaning(p, x)
            BY <3>1, JoinedFacts
         <4>2. F(k) = Joined(p, node.type, First(args, k - 1) \cup {x})
            BY <2>f
         <4>3. Joined(p, node.type, First(args, k - 1) \cup {x}) =
                 Extended(node.type, f, Joined(p, node.type, {x}))
            BY JoinedUnion
         <4> QED BY <4>1, <4>2, <4>3
      <3>3. g[k - 1] = Cardinality(Points(p, f))
         BY <2>2
      <3>4. edge_weight(w, u, x) = Count(p, x)
         BY <1>7, <1>11
      <3>5. \A j \in 1 .. k - 1 : Separate(p, node.type, args[j], x)
         BY <1>2, <1>3, <1>6 DEF Independent
      <3>6. \A y \in First(args, k - 1) : /\ \E j \in 1 .. k - 1 : y = args[j]
                                          /\ y \in ToSet(args) /\ IsEdge(p, y)
         <4>1. k - 1 \in 0 .. n
            BY <1>2
         <4> QED BY <1>1, <2>f, <4>1 DEF First
      <3>7. g[k] = Cardinality(Points(p, F(k)))
         <4>1. CASE node.type = "SUM"
            <5>1. f \cap Meaning(p, x) = {}
               BY <3>5, <3>6, <4>1 DEF Joined, Separate
            <5>2. F(k) = f \cup Meaning(p, x)
               BY <3>2, <4>1 DEF Extended
            <5>3. g[k] = g[k - 1] + Count(p, x)
               BY <1>9, <3>4, <4>1 DEF NextSum
            <5> HIDE DEF F, x
            <5> QED BY <3>1, <3>3, <5>1, <5>2, <5>3, SumStep
         <4>2. CASE node.type # "SUM"
            <5> DEFINE V == AllMentioned(p, First(args, k - 1))
            <5>1. Over(f, V)
               <6> SUFFICES ASSUME NEW a \in Assignments, NEW b \in Assignments,
                                   a \cap V = b \cap V
                            PROVE  a \in f <=> b \in f
                  BY DEF Over
               <6>1. ASSUME NEW y \in First(args, k - 1)
                     PROVE  a \in Meaning(p, y) <=> b \in Meaning(p, y)
                  <7>1. Mentions(p, y) \subseteq V
                     BY DEF AllMentioned
                  <7>2. a \cap Mentions(p, y) = b \cap Mentions(p, y)
                     BY <7>1
                  <7>3. Agree(p, y)
                     BY <3>6, Dependence
                  <7> QED BY <7>2, <7>3 DEF Agree
               <6> QED BY <4>2, <6>1 DEF Joined
            <5>2. V \cap Mentions(p, x) = {}
               BY <3>5, <3>6, <4>2 DEF AllMentioned, Separate
            <5>3. F(k) = f \cap Meaning(p, x)
               BY <3>2, <4>2 DEF Extended
            <5>4. g[k] = (g[k - 1] * Count(p, x)) \div u
               BY <1>9, <3>4, <4>2 DEF NextSum
            <5> HIDE DEF F, x, V
            <5> QED BY <3>1, <3>3, <5>1, <5>2, <5>3, <5>4, ProductStep
         <4> QED BY <4>1, <4>2
      <3> QED BY <1>2, <3>7
   <2> HIDE DEF S
   <2>3. 0 .. n \subseteq S
      BY <1>2, <2>1, <2>2, Induction
   <2>4. g[n] = Cardinality(Points(p, F(n)))
      BY <1>2, <2>3, n \in 0 .. n DEF S
   <2> QED BY <1>1, <2>4, <2>f DEF Count
<1> QED BY <1>9, <1>10, <1>11 DEF node, e

\* The weights of all nodes.
LEMMA WeightsRight ==
  ASSUME NEW p, WellFormed(p), Countable(p)
  PROVE  GoodWeights(p, node_weights(p, Unit(p)), Len(p.nodes))
<1> DEFINE n == Len(p.nodes)
           u == Unit(p)
           upto[k \in 0 .. n] ==
             IF k = 0 THEN << >>
             ELSE LET older == upto[k - 1] IN Append(older, node_value(older, u, p.nodes[k]))
           T == [k \in 0 .. n |-> { w \in Seq(Int) : GoodWeights(p, w, k) }]
           step == [q \in (1 .. n) \X Seq(Int) |-> Append(q[2], node_value(q[2], u, p.nodes[q[1]]))]
<1>1. n \in Nat /\ NInput \in Nat
   BY Sizes
<1>2. node_weights(p, u) = upto[n]
   BY DEF node_weights
<1> HIDE DEF n
<1>t. \A k \in 0 .. n : \A w : w \in T[k] <=> GoodWeights(p, w, k)
   BY DEF GoodWeights
<1>4. << >> \in T[0]
   <2>1. GoodWeights(p, << >>, 0)
      BY EmptySeq DEF GoodWeights
   <2> QED BY <1>1, <1>t, <2>1, 0 \in 0 .. n
<1>5. ASSUME NEW k \in 1 .. n, NEW x \in T[k - 1]
      PROVE  step[<< k, x >>] \in T[k] /\ step[<< k, x >>] = Append(x, node_value(x, u, p.nodes[k]))
   <2>0. k - 1 \in 0 .. n /\ k \in 0 .. n /\ k \in 1 .. Len(p.nodes)
      BY <1>1 DEF n
   <2>1. x \in Seq(Int) /\ Len(x) = k - 1 /\ GoodWeights(p, x, k - 1)
      BY <1>t, <2>0 DEF GoodWeights
   <2> DEFINE v == node_value(x, u, p.nodes[k])
   <2>2. v \in Int /\ (Mentions(p, NInput + k) \subseteq p.data_variables => v = Count(p, NInput + k))
      BY <2>0, <2>1, NodeValueRight
   <2>3. step[<< k, x >>] = Append(x, v)
      BY <2>1
   <2> HIDE DEF v
   <2>4. /\ Append(x, v) \in Seq(Int) /\ Len(Append(x, v)) = k
         /\ \A i \in 1 .. k - 1 : Append(x, v)[i] = x[i]
         /\ Append(x, v)[k] = v
      BY <1>1, <2>1, <2>2, AppendProperties
   <2>5. ASSUME NEW i \in 1 .. k, Mentions(p, NInput + i) \subseteq p.data_variables
         PROVE  Append(x, v)[i] = Count(p, NInput + i)
      <3>1. CASE i = k
         BY <2>2, <2>4, <2>5, <3>1
      <3>2. CASE i # k
         BY <1>1, <2>1, <2>4, <2>5, <3>2, i \in 1 .. k - 1 DEF GoodWeights
      <3> QED BY <3>1, <3>2
   <2>6. GoodWeights(p, Append(x, v), k)
      BY <2>4, <2>5 DEF GoodWeights
   <2> QED BY <1>t, <2>0, <2>3, <2>6 DEF v
<1> HIDE DEF T, step, u
<1>6. StepTyped(n, T, step)
   BY <1>5 DEF StepTyped
<1>a. PICK g : Recursive(g, n, T, << >>, step)
   BY <1>1, <1>4, <1>6, Recursion
<1>7. g = [k \in 0 .. n |->
             IF k = 0 THEN << >>
             ELSE LET older == g[k - 1] IN Append(older, node_value(older, u, p.nodes[k]))]
   <2>1. ASSUME NEW k \in 1 .. n
         PROVE  g[k] = Append(g[k - 1], node_value(g[k - 1], u, p.nodes[k]))
      BY <1>1, <1>5, <1>a, SMTT(30) DEF Recursive
   <2>2. g = [k \in 0 .. n |-> g[k]] /\ g[0] = << >>
      BY <1>a DEF Recursive
   <2>3. ASSUME NEW k \in 0 .. n
         PROVE  g[k] = IF k = 0 THEN << >>
                       ELSE Append(g[k - 1], node_value(g[k - 1], u, p.nodes[k]))
      BY <1>1, <2>1, <2>2, k = 0 \/ k \in 1 .. n
   <2> QED BY <2>2, <2>3, Zenon
<1>8. upto = [k \in 0 .. n |->
             IF k = 0 THEN << >>
             ELSE LET older == upto[k - 1] IN Append(older, node_value(older, u, p.nodes[k]))]
   BY <1>7
<1> HIDE DEF upto
<1> DEFINE S == { k \in 0 .. n : upto[k] \in T[k] }
<1>9. 0 \in S
   <2>1. upto[0] = << >>
      BY <1>1, <1>8, 0 \in 0 .. n
   <2> QED BY <1>1, <1>4, <2>1, 0 \in 0 .. n, Zenon
<1>10. ASSUME NEW k \in 1 .. n, k - 1 \in S
       PROVE  k \in S
   <2>1. k \in 0 .. n /\ k # 0
      BY <1>1
   <2>2. upto[k] = Append(upto[k - 1], node_value(upto[k - 1], u, p.nodes[k]))
      BY <1>8, <2>1
   <2>3. upto[k] \in T[k]
      BY <1>5, <1>10, <2>2
   <2> QED BY <2>1, <2>3
<1> HIDE DEF S
<1>11. 0 .. n \subseteq S
   BY <1>1, <1>9, <1>10, Induction
<1>12. upto[n] \in T[n] /\ n \in 0 .. n
   BY <1>1, <1>11, n \in 0 .. n DEF S
<1>13. GoodWeights(p, upto[n], n)
   BY <1>t, <1>12
<1> QED BY <1>2, <1>13 DEF n, u

\* ring_evaluate counts the points at which an edge over data variables is
\* true, if the graph is countable.
THEOREM CountIsExact ==
  ASSUME NEW p, WellFormed(p), Countable(p), NEW e, IsEdge(p, e), DataEdge(p, e)
  PROVE  ring_evaluate(p, e) = Cardinality({ a \cap p.data_variables : a \in Meaning(p, e) })
<1> DEFINE D == p.data_variables
<1>1. ring_evaluate(p, e) = edge_weight(node_weights(p, Unit(p)), Unit(p), e)
   BY DEF ring_evaluate, Unit
<1>2. GoodWeights(p, node_weights(p, Unit(p)), Len(p.nodes))
   BY WeightsRight
<1>3. Len(p.nodes) \in 0 .. Len(p.nodes) /\ (IABS(e) <= NInput + Len(p.nodes) \/ IABS(e) = TAUTOLOGY)
   BY Sizes DEF IsEdge
<1>4. ring_evaluate(p, e) = Count(p, e)
   BY <1>1, <1>2, <1>3, EdgeWeightRight DEF WeightRight
<1>5. ASSUME NEW a \in Meaning(p, e)
      PROVE  a \cap D \in Meaning(p, e) /\ a \cap D \in SUBSET D
   <2>1. Meaning(p, e) \in SUBSET Assignments /\ D \subseteq InputVariables
      BY Negation, UnitFacts DEF Negates
   <2>2. a \in Assignments /\ a \cap D \in Assignments
      BY <2>1 DEF Assignments
   <2>3. CASE IABS(e) = TAUTOLOGY
      <3>1. e \in {TAUTOLOGY, CONFLICT}
         BY <2>3, Constants DEF IsEdge
      <3>2. Meaning(p, e) = Assignments
         BY <3>1, Constants
      <3> QED BY <2>2, <3>2
   <2>4. CASE Mentions(p, e) \subseteq D
      <3>1. a \cap Mentions(p, e) = (a \cap D) \cap Mentions(p, e)
         BY <2>4
      <3>2. Agree(p, e)
         BY Dependence
      <3> QED BY <2>2, <3>1, <3>2 DEF Agree
   <2> QED BY <2>3, <2>4 DEF DataEdge
<1>6. { a \cap D : a \in Meaning(p, e) } = Points(p, Meaning(p, e))
   <2>1. ASSUME NEW b \in Points(p, Meaning(p, e))
         PROVE  b \in Meaning(p, e) /\ b \cap D = b
      BY DEF Points
   <2>2. \A b \in { a \cap D : a \in Meaning(p, e) } : b \in Points(p, Meaning(p, e))
      BY <1>5 DEF Points
   <2>3. \A b \in Points(p, Meaning(p, e)) : b \in { a \cap D : a \in Meaning(p, e) }
      BY <2>1
   <2> QED BY <2>2, <2>3
<1> QED BY <1>4, <1>6 DEF Count

-----------------------------------------------------------------------------
(* Disjunctions *)

\* An arrangement of as many places as elements holds each element once.
LEMMA NoRepetition ==
  ASSUME NEW S, IsFiniteSet(S), NEW q \in Seq(S), ToSet(q) = S, Len(q) = Cardinality(S)
  PROVE  \A i, j \in 1 .. Len(q) : q[i] = q[j] => i = j
<1> DEFINE n == Cardinality(S)
<1>1. n \in Nat /\ q \in [1 .. n -> S]
   BY LenProperties, FS_CardinalityType
<1>2. \A x \in S : \E i \in 1 .. n : q[i] = x
   BY ToSetSeq
<1>3. q \in Surjection(1 .. n, S)
   BY <1>1, <1>2, Fun_IsSurj
<1>4. IsFiniteSet(1 .. n) /\ Cardinality(1 .. n) = n
   BY <1>1, FS_Interval
<1>5. q \in Injection(1 .. n, S)
   BY <1>3, <1>4, FS_SurjSameCardinalityImpliesInj
<1> QED BY <1>5, Fun_InjectionProperties

\* A clause: literals of different variables of the graph.
ProperClause(p, lits) ==
    /\ lits \in SUBSET { s * v : s \in {-1, 1}, v \in p.data_variables }
    /\ Cardinality(lits) >= 2
    /\ \A lit \in lits : -lit \notin lits

ClauseLiterals(p, lits) ==
    /\ IsFiniteSet(lits) /\ lits \subseteq Int
    /\ \A lit \in lits : /\ IABS(lit) \in InputVariables
                         /\ IsEdge(p, lit) /\ ~is_node(lit) /\ IABS(lit) # TAUTOLOGY
    /\ \A x, y \in lits : IABS(x) = IABS(y) => x = y

LEMMA ClauseIsProper ==
  ASSUME NEW p, WellFormed(p), NEW lits, ProperClause(p, lits)
  PROVE  ClauseLiterals(p, lits)
<1>1. NInput \in Nat /\ p.data_variables \subseteq 1 .. NInput /\ Len(p.nodes) \in Nat
      /\ NInput + Len(p.nodes) < TAUTOLOGY /\ TAUTOLOGY \in Nat
   BY Sizes, UnitFacts DEF InputVariables
<1>2. ASSUME NEW lit \in lits
      PROVE  lit \in (-NInput) .. NInput /\ lit # 0 /\ IABS(lit) \in 1 .. NInput
   <2>1. PICK s \in {-1, 1}, v \in p.data_variables : lit = s * v
      BY DEF ProperClause
   <2>2. v \in 1 .. NInput
      BY <1>1
   <2>3. lit = v \/ lit = -v
      BY <2>1, <2>2
   <2> QED BY <1>1, <2>2, <2>3 DEF IABS
<1>3. IsFiniteSet(lits)
   <2>1. lits \in SUBSET ((-NInput) .. NInput)
      BY <1>2
   <2>2. IsFiniteSet((-NInput) .. NInput)
      BY <1>1, FS_Interval
   <2> QED BY <2>1, <2>2, FS_Subset
<1>4. \A lit \in lits : /\ lit \in Int /\ IABS(lit) \in InputVariables
                        /\ IsEdge(p, lit) /\ ~is_node(lit) /\ IABS(lit) # TAUTOLOGY
   BY <1>1, <1>2 DEF InputVariables, IsEdge, is_node
<1>5. ASSUME NEW x \in lits, NEW y \in lits, IABS(x) = IABS(y)
      PROVE  x = y
   <2>1. x = y \/ x = -y
      BY <1>2, <1>5 DEF IABS
   <2> QED BY <2>1 DEF ProperClause
<1> QED BY <1>3, <1>4, <1>5 DEF ClauseLiterals

\* The code of build_disjunction for two or more literals.
Opposites(s) == [i \in DOMAIN s |-> -s[i]]

LEMMA DisjunctionDefined ==
  ASSUME NEW p, NEW s, Len(s) \in Nat, Len(s) >= 2
  PROVE  build_disjunction(p, s) =
           [pog  |-> MakeNode(p, "PRODUCT", Opposites(s)).pog,
            edge |-> -MakeNode(p, "PRODUCT", Opposites(s)).edge]
<1>1. \A k \in Nat : k >= 2 => k # 0 /\ k # 1
   OBVIOUS
<1>2. Len(s) # 0 /\ Len(s) # 1
   BY <1>1, Zenon
<1> QED BY <1>2, SMT DEF build_disjunction, Opposites

\* The disjunction of literals of different variables represents their clause.
LEMMA DisjunctionIsRight ==
  ASSUME NEW p, WellFormed(p), NEW lits, ProperClause(p, lits),
         Fits(build_disjunction(p, SortByVariable(lits)).pog)
  PROVE  /\ Made(p, { a \in Assignments : HoldsClause(a, lits) }, { IABS(lit) : lit \in lits },
                 build_disjunction(p, SortByVariable(lits)))
         /\ Countable(p) => Countable(build_disjunction(p, SortByVariable(lits)).pog)
<1> DEFINE s == SortByVariable(lits)
           o == Opposites(s)
           made == MakeNode(p, "PRODUCT", o)
           built == build_disjunction(p, s)
<1>1. ClauseLiterals(p, lits)
   BY ClauseIsProper
<1>2. s \in Seq(lits) /\ ToSet(s) = lits /\ Len(s) = Cardinality(lits) /\ Len(s) \in Nat
   <2>1. s \in Seq(lits) /\ ToSet(s) = lits /\ Len(s) = Cardinality(lits)
      BY <1>1, SortByVariableEnumerates DEF ClauseLiterals
   <2> QED BY <2>1, LenProperties
<1>3. \A i, j \in 1 .. Len(s) : s[i] = s[j] => i = j
   BY <1>1, <1>2, NoRepetition DEF ClauseLiterals
<1>4. DOMAIN s = 1 .. Len(s) /\ \A i \in 1 .. Len(s) : s[i] \in lits
   BY <1>2, ToSetSeq
<1>5. Len(s) >= 2
   BY <1>2 DEF ProperClause
<1>6. built = [pog |-> made.pog, edge |-> -made.edge]
   <2> HIDE DEF s
   <2> QED BY <1>2, <1>5, DisjunctionDefined
<1> HIDE DEF s
<1>7. o \in Seq(Int) /\ Len(o) = Len(s) /\ \A i \in 1 .. Len(s) : o[i] = -s[i]
   <2>0. \A i \in DOMAIN s : s[i] \in Int
      BY <1>1, <1>4 DEF ClauseLiterals
   <2>1. o \in [1 .. Len(s) -> Int] /\ \A i \in 1 .. Len(s) : o[i] = -s[i]
      BY <1>4, <2>0 DEF Opposites
   <2> HIDE DEF o
   <2> QED BY <1>2, <2>1, FunctionIsSeq
<1> HIDE DEF o
<1>8. \A lit \in lits : Negates(p, lit)
   BY <1>1, Negation DEF ClauseLiterals
<1>9. ToSet(o) = { -lit : lit \in lits }
   <2>1. ToSet(o) = { o[i] : i \in 1 .. Len(s) }
      BY <1>7, ToSetSeq DEF ToSet
   <2>2. lits = { s[i] : i \in 1 .. Len(s) }
      BY <1>2, <1>4 DEF ToSet
   <2> QED BY <1>7, <2>1, <2>2
<1>10. Edges(p, o)
   BY <1>4, <1>7, <1>8 DEF Edges, Negates
<1>11. AllCompatible(p, "PRODUCT", o)
   <2> SUFFICES ASSUME NEW i \in 1 .. Len(s), NEW j \in 1 .. Len(s), i < j
                PROVE  Mentions(p, o[i]) \cap Mentions(p, o[j]) = {}
      BY <1>7 DEF AllCompatible, Compatible
   <2>1. s[i] \in lits /\ s[j] \in lits /\ s[i] # s[j]
      BY <1>2, <1>3, <1>4
   <2>2. Mentions(p, o[i]) = Mentions(p, s[i]) /\ Mentions(p, o[j]) = Mentions(p, s[j])
      BY <1>7, <1>8, <2>1 DEF Negates
   <2>3. Mentions(p, s[i]) = {IABS(s[i])} /\ Mentions(p, s[j]) = {IABS(s[j])}
      BY <1>1, <2>1, LiteralMeaning DEF ClauseLiterals
   <2>4. IABS(s[i]) # IABS(s[j])
      BY <1>1, <2>1 DEF ClauseLiterals
   <2> QED BY <2>2, <2>3, <2>4
<1> DEFINE f == Joined(p, "PRODUCT", ToSet(o))
           V == AllMentioned(p, ToSet(o))
           W == { IABS(lit) : lit \in lits }
<1>12. Fits(made.pog) /\ "PRODUCT" \in PogType
   BY <1>6 DEF s, PogType
<1>13. /\ Made(p, f, V, made)
       /\ Countable(p) => Countable(made.pog)
   <2> HIDE DEF made, f, V
   <2> QED BY <1>10, <1>11, <1>12, MakeNodeIsRight DEF made, f, V
<1>14. V \subseteq W
   <2>1. ASSUME NEW lit \in lits
         PROVE  Mentions(p, -lit) = {IABS(lit)}
      BY <1>1, <1>8, LiteralMeaning DEF Negates, ClauseLiterals
   <2> QED BY <1>9, <2>1 DEF AllMentioned
<1>15. Assignments \ f = { a \in Assignments : HoldsClause(a, lits) }
   <2>1. ASSUME NEW a \in Assignments, NEW lit \in lits
         PROVE  a \in Meaning(p, -lit) <=> ~Holds(a, lit)
      <3>1. Meaning(p, lit) = { b \in Assignments : Holds(b, lit) }
         BY <1>1, LiteralMeaning DEF ClauseLiterals
      <3>2. Meaning(p, -lit) = Assignments \ Meaning(p, lit)
         BY <1>8 DEF Negates
      <3> QED BY <3>1, <3>2
   <2>2. f = { a \in Assignments : \A lit \in lits : a \in Meaning(p, -lit) }
      BY <1>9 DEF Joined
   <2> HIDE DEF f
   <2> QED BY <2>1, <2>2 DEF HoldsClause
<1>16. /\ WellFormed(made.pog) /\ Grown(p, made.pog) /\ IsEdge(made.pog, made.edge)
       /\ Meaning(made.pog, made.edge) = f
       /\ IABS(made.edge) = TAUTOLOGY \/ Mentions(made.pog, made.edge) \subseteq V
   BY <1>13 DEF Made
<1> HIDE DEF made, f, V, W
<1>17. Negates(made.pog, made.edge)
   BY <1>16, Negation
<1>18. built.pog = made.pog /\ built.edge = -made.edge
   BY <1>6
<1> HIDE DEF built
<1>19. Made(p, Assignments \ f, W, built)
   BY <1>14, <1>16, <1>17, <1>18 DEF Made, Negates
<1> QED BY <1>13, <1>15, <1>18, <1>19 DEF built, s, W

-----------------------------------------------------------------------------
(* Graphs that fit *)

\* A graph only grows: if it fits in the end it did before.
LEMMA FinishGrows ==
  ASSUME NEW p, NEW S, p.nodes \in Seq(S), NEW node
  PROVE  /\ \E T : finish_node(p, node).pog.nodes \in Seq(T)
         /\ Fits(finish_node(p, node).pog) => Fits(p)
<1>1. finish_node(p, node).pog = p \/ finish_node(p, node).pog = WithNode(p, node)
   <2>1. CASE Len(node.args) = 0
      BY <2>1, FinishNone
   <2>2. CASE Len(node.args) = 1
      BY <2>2, FinishOne
   <2>3. CASE Len(node.args) \notin {0, 1} /\ EqualNodes(p, node) = {}
      BY <2>3, FinishNew
   <2>4. CASE Len(node.args) \notin {0, 1} /\ EqualNodes(p, node) # {}
      BY <2>4, SMT DEF finish_node, WithNode, Sorted, EqualNodes
   <2> QED BY <2>1, <2>2, <2>3, <2>4
<1>2. CASE finish_node(p, node).pog = p
   BY <1>2
<1>3. CASE finish_node(p, node).pog.nodes = Append(p.nodes, Sorted(node))
   <2> DEFINE s == p.nodes
              x == Sorted(node)
              T == S \cup {x}
   <2>1. s \in Seq(T) /\ x \in T
      <3>1. s \in [1 .. Len(s) -> S] /\ Len(s) \in Nat
         BY LenProperties
      <3>2. s \in [1 .. Len(s) -> T]
         BY <3>1
      <3> QED BY <3>1, <3>2, FunctionIsSeq
   <2> HIDE DEF s, x, T
   <2>2. Len(Append(s, x)) = Len(s) + 1 /\ Len(s) \in Nat /\ Append(s, x) \in Seq(T)
      BY <2>1, AppendProperties, LenProperties
   <2>3. ASSUME Fits(finish_node(p, node).pog)
         PROVE  Fits(p)
      <3>1. NInput + Len(Append(s, x)) < TAUTOLOGY
         BY <1>3, <2>3 DEF Fits, s, x
      <3>2. NInput + Len(s) < TAUTOLOGY
         BY <2>2, <3>1, NInputAssumption DEF TAUTOLOGY
      <3> QED BY <3>2 DEF Fits, s
   <2> QED BY <1>3, <2>2, <2>3 DEF s, x
<1>4. p.nodes \in Seq(S) => WithNode(p, node).nodes = Append(p.nodes, Sorted(node))
   BY DEF WithNode
<1> QED BY <1>1, <1>2, <1>3, <1>4

\* The graph MakeNode makes, whether it fits or not.
LEMMA MakeNodeFinishes ==
  ASSUME NEW p, NEW type, NEW args
  PROVE  \E node : MakeNode(p, type, args) = finish_node(p, node)
BY Zenon DEF MakeNode

LEMMA MakeNodeFits ==
  ASSUME NEW p, p.nodes \in Seq(Node), NEW type, NEW args, Fits(MakeNode(p, type, args).pog)
  PROVE  Fits(p)
<1>1. PICK node : MakeNode(p, type, args) = finish_node(p, node)
   BY MakeNodeFinishes
<1> QED BY <1>1, FinishGrows

LEMMA MakeNodeTyped ==
  ASSUME NEW p, WellFormed(p), NEW type \in PogType, NEW args, Edges(p, args)
  PROVE  MakeNode(p, type, args).pog.nodes \in Seq(Node)
<1>1. PICK node : /\ Stage(p, type, args, Len(args), node)
                  /\ MakeNode(p, type, args) = finish_node(p, node)
   BY MakeNodeStages
<1>2. node \in Node /\ Sorted(node) \in Node
   BY <1>1, SortedFacts DEF Stage, Building
<1>3. p.nodes \in Seq(Node)
   BY Sizes
<1>4. CASE Len(node.args) = 0
   BY <1>1, <1>3, <1>4, FinishNone
<1>5. CASE Len(node.args) = 1
   BY <1>1, <1>3, <1>5, FinishOne
<1>6. CASE Len(node.args) \notin {0, 1} /\ EqualNodes(p, node) = {}
   <2>1. MakeNode(p, type, args).pog = WithNode(p, node)
      BY <1>1, <1>6, FinishNew
   <2>2. WithNode(p, node).nodes = Append(p.nodes, Sorted(node))
      BY DEF WithNode, WellFormed
   <2> QED BY <1>2, <1>3, <2>1, <2>2, AppendProperties
<1>7. CASE Len(node.args) \notin {0, 1} /\ EqualNodes(p, node) # {}
   <2>1. Len(node.args) \in Nat /\ Len(node.args) > 1
      <3>1. node.args \in Seq(Int)
         BY <1>2 DEF Node
      <3>2. Len(node.args) \in Nat
         BY <3>1, LenProperties
      <3>3. \A k \in Nat : k \notin {0, 1} => k > 1
         OBVIOUS
      <3> QED BY <1>7, <3>2, <3>3, Zenon
   <2>2. MakeNode(p, type, args).pog = p
      BY <1>1, <1>7, <2>1, FinishEqual
   <2> QED BY <1>3, <2>2
<1> QED BY <1>4, <1>5, <1>6, <1>7


-----------------------------------------------------------------------------
(* Independent clauses *)

\* The code of build_disjunction for fewer literals.
LEMMA DisjunctionOfNone ==
  ASSUME NEW p, NEW s, Len(s) = 0
  PROVE  build_disjunction(p, s) = [pog |-> p, edge |-> CONFLICT]
  BY SMT DEF build_disjunction

LEMMA DisjunctionOfOne ==
  ASSUME NEW p, NEW s, Len(s) = 1
  PROVE  build_disjunction(p, s) = [pog |-> p, edge |-> s[1]]
  BY SMT DEF build_disjunction

LEMMA OppositesFacts ==
  ASSUME NEW p, WellFormed(p), NEW s, Edges(p, s)
  PROVE  /\ Edges(p, Opposites(s)) /\ Len(Opposites(s)) = Len(s)
         /\ ToSet(Opposites(s)) = { -x : x \in ToSet(s) }
         /\ AllCompatible(p, "PRODUCT", s) => AllCompatible(p, "PRODUCT", Opposites(s))
<1> DEFINE o == Opposites(s)
           n == Len(s)
<1>1. s \in Seq(Int) /\ n \in Nat /\ DOMAIN s = 1 .. n
      /\ \A i \in 1 .. n : s[i] \in Int /\ IsEdge(p, s[i])
   BY LenProperties DEF Edges
<1>2. o \in [1 .. n -> Int] /\ \A i \in 1 .. n : o[i] = -s[i]
   BY <1>1 DEF Opposites
<1> HIDE DEF o
<1>3. o \in Seq(Int) /\ Len(o) = n /\ DOMAIN o = 1 .. n
   BY <1>1, <1>2, FunctionIsSeq
<1>4. \A i \in 1 .. n : Negates(p, s[i])
   BY <1>1, Negation
<1>5. Edges(p, o)
   BY <1>2, <1>3, <1>4 DEF Edges, Negates
<1>6. ToSet(o) = { -x : x \in ToSet(s) }
   <2>1. ToSet(o) = { o[i] : i \in 1 .. n } /\ ToSet(s) = { s[i] : i \in 1 .. n }
      BY <1>1, <1>3 DEF ToSet
   <2> QED BY <1>2, <2>1
<1>7. ASSUME AllCompatible(p, "PRODUCT", s)
      PROVE  AllCompatible(p, "PRODUCT", o)
   <2> SUFFICES ASSUME NEW i \in 1 .. n, NEW j \in 1 .. n, i < j
                PROVE  Compatible(p, "PRODUCT", o[i], o[j])
      BY <1>3 DEF AllCompatible
   <2>1. Compatible(p, "PRODUCT", s[i], s[j])
      BY <1>7 DEF AllCompatible
   <2>2. /\ IABS(o[i]) = IABS(s[i]) /\ Mentions(p, o[i]) = Mentions(p, s[i])
         /\ IABS(o[j]) = IABS(s[j]) /\ Mentions(p, o[j]) = Mentions(p, s[j])
      BY <1>2, <1>4 DEF Negates
   <2> QED BY <2>1, <2>2 DEF Compatible
<1> QED BY <1>3, <1>5, <1>6, <1>7 DEF o

\* build_disjunction makes the disjunction of any edges.
LEMMA DisjunctionMade ==
  ASSUME NEW p, WellFormed(p), NEW s, Edges(p, s), Fits(build_disjunction(p, s).pog)
  PROVE  /\ Made(p, Joined(p, "SUM", ToSet(s)), AllMentioned(p, ToSet(s)), build_disjunction(p, s))
         /\ Canonical(p) => Canonical(build_disjunction(p, s).pog)
         /\ Countable(p) /\ AllCompatible(p, "PRODUCT", s) => Countable(build_disjunction(p, s).pog)
<1> DEFINE made == build_disjunction(p, s)
           f == Joined(p, "SUM", ToSet(s))
           V == AllMentioned(p, ToSet(s))
<1>1. s \in Seq(Int) /\ Len(s) \in Nat /\ DOMAIN s = 1 .. Len(s)
      /\ \A i \in 1 .. Len(s) : s[i] \in Int /\ IsEdge(p, s[i])
   BY LenProperties DEF Edges
<1>2. Grown(p, p)
   BY GrownReflexive
<1>3. CASE Len(s) = 0
   <2>1. made = [pog |-> p, edge |-> CONFLICT]
      BY <1>3, DisjunctionOfNone
   <2>2. ToSet(s) = {}
      BY <1>1, <1>3 DEF ToSet
   <2>3. /\ IsEdge(p, CONFLICT) /\ IABS(CONFLICT) = TAUTOLOGY /\ Meaning(p, CONFLICT) = f
      <3>1. Neutral("SUM") = CONFLICT /\ "SUM" \in PogType
         BY DEF Neutral, PogType
      <3> QED BY <2>2, <3>1, Sentinels, Constants
   <2> HIDE DEF made, f
   <2>4. made.pog = p /\ made.edge = CONFLICT
      BY <2>1
   <2> QED BY <1>2, <2>3, <2>4 DEF Made, made, f
<1>4. CASE Len(s) = 1
   <2>1. made = [pog |-> p, edge |-> s[1]]
      BY <1>4, DisjunctionOfOne
   <2> DEFINE e == s[1]
   <2>2. ToSet(s) = {e} /\ IsEdge(p, e)
      BY <1>1, <1>4 DEF ToSet
   <2>3. f = Meaning(p, e) /\ Mentions(p, e) \subseteq V
      BY <2>2, JoinedFacts DEF AllMentioned
   <2> HIDE DEF made, f, V, e
   <2>4. made.pog = p /\ made.edge = e
      BY <2>1 DEF e
   <2> QED BY <1>2, <2>2, <2>3, <2>4 DEF Made, made, f, V
<1>5. CASE Len(s) >= 2
   <2> DEFINE o == Opposites(s)
              m == MakeNode(p, "PRODUCT", o)
              g == Joined(p, "PRODUCT", ToSet(o))
              W == AllMentioned(p, ToSet(o))
   <2>1. made = [pog |-> m.pog, edge |-> -m.edge]
      BY <1>1, <1>5, DisjunctionDefined
   <2>2. made.pog = m.pog /\ made.edge = -m.edge
      BY <2>1
   <2>3. /\ Edges(p, o) /\ ToSet(o) = { -x : x \in ToSet(s) }
         /\ AllCompatible(p, "PRODUCT", s) => AllCompatible(p, "PRODUCT", o)
      BY OppositesFacts
   <2>4. Fits(m.pog) /\ "PRODUCT" \in PogType
      BY <2>2 DEF PogType
   <2>5. \A x \in ToSet(s) : Negates(p, x) /\ Meaning(p, x) \in SUBSET Assignments
      <3>1. \A x \in ToSet(s) : IsEdge(p, x)
         BY <1>1, ToSetSeq
      <3> QED BY <3>1, Negation DEF Negates
   <2> HIDE DEF o, m
   <2>6. /\ Made(p, g, W, m)
         /\ Countable(p) /\ AllCompatible(p, "PRODUCT", o) => Countable(m.pog)
      <3> HIDE DEF g, W
      <3> QED BY <2>3, <2>4, MakeNodeIsRight DEF m, g, W
   <2>7. Canonical(p) => Canonical(m.pog)
      BY <2>3, <2>4, MakeNodeIsCanonical DEF m
   <2>8. Assignments \ g = f
      BY <2>3, <2>5 DEF Joined, Negates
   <2>9. W = V
      BY <2>3, <2>5 DEF AllMentioned, Negates
   <2> HIDE DEF g, W, f, V, made
   <2>10. /\ WellFormed(m.pog) /\ Grown(p, m.pog) /\ IsEdge(m.pog, m.edge)
          /\ Meaning(m.pog, m.edge) = g
          /\ IABS(m.edge) = TAUTOLOGY \/ Mentions(m.pog, m.edge) \subseteq W
      BY <2>6 DEF Made
   <2>11. Negates(m.pog, m.edge)
      BY <2>10, Negation
   <2>12. Made(p, f, V, made)
      BY <2>2, <2>8, <2>9, <2>10, <2>11 DEF Made, Negates
   <2> QED BY <2>2, <2>3, <2>6, <2>7, <2>12 DEF made, f, V
<1>6. \A k \in Nat : k = 0 \/ k = 1 \/ k >= 2
   OBVIOUS
<1>7. Len(s) = 0 \/ Len(s) = 1 \/ Len(s) >= 2
   BY <1>1, <1>6, Zenon
<1> QED BY <1>3, <1>4, <1>5, <1>7

LEMMA DisjunctionGrows ==
  ASSUME NEW p, NEW S, p.nodes \in Seq(S), NEW s, Len(s) \in Nat
  PROVE  /\ \E T : build_disjunction(p, s).pog.nodes \in Seq(T)
         /\ Fits(build_disjunction(p, s).pog) => Fits(p)
<1>1. CASE Len(s) = 0
   BY <1>1, DisjunctionOfNone
<1>2. CASE Len(s) = 1
   BY <1>2, DisjunctionOfOne
<1>3. CASE Len(s) >= 2
   <2>1. build_disjunction(p, s).pog = MakeNode(p, "PRODUCT", Opposites(s)).pog
      BY <1>3, DisjunctionDefined
   <2>2. PICK node : MakeNode(p, "PRODUCT", Opposites(s)) = finish_node(p, node)
      BY MakeNodeFinishes
   <2> QED BY <2>1, <2>2, FinishGrows
<1>4. \A k \in Nat : k = 0 \/ k = 1 \/ k >= 2
   OBVIOUS
<1>5. Len(s) = 0 \/ Len(s) = 1 \/ Len(s) >= 2
   BY <1>4, Zenon
<1> QED BY <1>1, <1>2, <1>3, <1>5

\* One round of simple_kc.
NextChunk(before, chunk) ==
    [pog   |-> build_disjunction(before.pog, chunk).pog,
     edges |-> Append(before.edges, build_disjunction(before.pog, chunk).edge)]

Rounds(p, chunks, g) ==
    /\ g[0] = [pog |-> p, edges |-> << >>]
    /\ \A k \in 1 .. Len(chunks) : g[k] = NextChunk(g[k - 1], chunks[k])
    /\ simple_kc(p, chunks) =
         CASE Len(g[Len(chunks)].edges) = 0 -> [pog |-> p, edge |-> TAUTOLOGY]
           [] Len(g[Len(chunks)].edges) = 1 ->
                [pog |-> g[Len(chunks)].pog, edge |-> g[Len(chunks)].edges[1]]
           [] OTHER -> MakeNode(g[Len(chunks)].pog, "PRODUCT", g[Len(chunks)].edges)

LEMMA RoundsDefined ==
  ASSUME NEW p, NEW chunks, Len(chunks) \in Nat
  PROVE  \E g : Rounds(p, chunks, g)
<1> DEFINE n == Len(chunks)
           base == [pog |-> p, edges |-> << >>]
           Good(g, m) == /\ g = [k \in 0 .. m |-> g[k]]
                         /\ g[0] = base
                         /\ \A k \in 1 .. m : g[k] = NextChunk(g[k - 1], chunks[k])
           S == { m \in 0 .. n : \E g : Good(g, m) }
           upto[k \in 0 .. n] ==
             IF k = 0 THEN base ELSE NextChunk(upto[k - 1], chunks[k])
           all == upto[n]
<1> HIDE DEF n, base
<1>1. n \in Nat
   BY DEF n
<1>2. 0 \in S
   <2> DEFINE g == [k \in 0 .. 0 |-> base]
   <2>1. 0 \in 0 .. n /\ 0 \in 0 .. 0 /\ 1 .. 0 = {}
      BY <1>1
   <2>2. Good(g, 0)
      BY <2>1
   <2> QED BY <2>1, <2>2
<1>3. ASSUME NEW m \in 1 .. n, m - 1 \in S
      PROVE  m \in S
   <2>1. PICK g : Good(g, m - 1)
      BY <1>3
   <2> DEFINE h == [k \in 0 .. m |-> IF k = m THEN NextChunk(g[m - 1], chunks[m]) ELSE g[k]]
   <2>2. m \in 0 .. n /\ 0 \in 0 .. m /\ m \in 0 .. m /\ 0 # m /\ m - 1 \in 0 .. m /\ m - 1 # m
      BY <1>1
   <2>3. h[0] = base
      BY <2>1, <2>2
   <2>4. ASSUME NEW k \in 1 .. m
         PROVE  h[k] = NextChunk(h[k - 1], chunks[k])
      <3>1. k \in 0 .. m /\ k - 1 \in 0 .. m /\ k - 1 # m
         BY <1>1
      <3>2. CASE k = m
         BY <2>2, <3>1, <3>2
      <3>3. CASE k # m
         <4>1. k \in 1 .. m - 1
            BY <1>1, <3>3
         <4>2. h[k] = g[k] /\ h[k - 1] = g[k - 1]
            BY <3>1, <3>3
         <4> QED BY <2>1, <4>1, <4>2
      <3> QED BY <3>2, <3>3
   <2>5. Good(h, m)
      BY <2>3, <2>4
   <2> QED BY <2>2, <2>5
<1> HIDE DEF S
<1>4. 0 .. n \subseteq S
   BY <1>1, <1>2, <1>3, Induction
<1>5. n \in S
   BY <1>1, <1>4
<1>6. PICK g : Good(g, n)
   BY <1>5 DEF S
<1>7. g = [k \in 0 .. n |-> IF k = 0 THEN base ELSE NextChunk(g[k - 1], chunks[k])]
   <2>1. ASSUME NEW k \in 0 .. n
         PROVE  g[k] = IF k = 0 THEN base ELSE NextChunk(g[k - 1], chunks[k])
      <3>1. CASE k = 0
         BY <1>6, <3>1
      <3>2. CASE k # 0
         <4>1. k \in 1 .. n
            BY <1>1, <3>2
         <4> QED BY <1>6, <3>2, <4>1
      <3> QED BY <3>1, <3>2
   <2> QED BY <1>6, <2>1
<1>8. upto = [k \in 0 .. n |-> IF k = 0 THEN base ELSE NextChunk(upto[k - 1], chunks[k])]
   BY <1>7
<1>9. simple_kc(p, chunks) =
        CASE Len(all.edges) = 0 -> [pog |-> p, edge |-> TAUTOLOGY]
          [] Len(all.edges) = 1 -> [pog |-> all.pog, edge |-> all.edges[1]]
          [] OTHER -> MakeNode(all.pog, "PRODUCT", all.edges)
   BY DEF simple_kc, NextChunk, base, n
<1> HIDE DEF upto
<1>10. upto[0] = base /\ \A k \in 1 .. n : upto[k] = NextChunk(upto[k - 1], chunks[k])
   <2>1. 0 \in 0 .. n /\ \A k \in 1 .. n : k \in 0 .. n /\ k # 0
      BY <1>1
   <2> QED BY <1>8, <2>1
<1>11. Rounds(p, chunks, upto)
   BY <1>9, <1>10 DEF Rounds, base, n
<1> QED BY <1>11

\* What is known of a sequence of edges once the graph has grown.
LEMMA EdgesKept ==
  ASSUME NEW p, WellFormed(p), NEW q, WellFormed(q), Grown(p, q),
         NEW type, NEW s, Edges(p, s)
  PROVE  /\ Edges(q, s)
         /\ Joined(q, type, ToSet(s)) = Joined(p, type, ToSet(s))
         /\ AllMentioned(q, ToSet(s)) = AllMentioned(p, ToSet(s))
         /\ AllCompatible(p, type, s) => AllCompatible(q, type, s)
<1>1. KeepsEdges(p, q)
   BY Sizes, GrownEdges
<1>2. s \in Seq(Int) /\ DOMAIN s = 1 .. Len(s) /\ \A i \in 1 .. Len(s) : IsEdge(p, s[i])
   BY LenProperties DEF Edges
<1>3. \A x \in ToSet(s) : IsEdge(p, x)
   BY <1>2, ToSetSeq
<1>4. \A x : IsEdge(p, x) => IsEdge(q, x) /\ Meaning(q, x) = Meaning(p, x)
                             /\ Mentions(q, x) = Mentions(p, x)
   BY <1>1 DEF KeepsEdges
<1>5. Edges(q, s)
   BY <1>2, <1>4 DEF Edges
<1>6. Joined(q, type, ToSet(s)) = Joined(p, type, ToSet(s))
   <2> DEFINE S == ToSet(s)
   <2>1. \A x \in S : Meaning(q, x) = Meaning(p, x)
      BY <1>3, <1>4
   <2> HIDE DEF S
   <2>2. /\ { a \in Assignments : \E x \in S : a \in Meaning(q, x) }
              = { a \in Assignments : \E x \in S : a \in Meaning(p, x) }
         /\ { a \in Assignments : \A x \in S : a \in Meaning(q, x) }
              = { a \in Assignments : \A x \in S : a \in Meaning(p, x) }
      BY <2>1
   <2>3. Joined(q, type, S) = Joined(p, type, S)
      BY <2>2 DEF Joined
   <2> QED BY <2>3 DEF S
<1>7. AllMentioned(q, ToSet(s)) = AllMentioned(p, ToSet(s))
   BY <1>3, <1>4 DEF AllMentioned
<1>8. AllCompatible(p, type, s) => AllCompatible(q, type, s)
   BY <1>2, <1>4 DEF AllCompatible, Compatible
<1> QED BY <1>5, <1>6, <1>7, <1>8

\* No variable occurs twice.
IndependentChunks(p, chunks) ==
    /\ \A i \in 1 .. Len(chunks) : AllCompatible(p, "PRODUCT", chunks[i])
    /\ \A i, j \in 1 .. Len(chunks) : i < j =>
           AllMentioned(p, ToSet(chunks[i])) \cap AllMentioned(p, ToSet(chunks[j])) = {}

\* An edge for each of the first k clauses.
EdgeFor(p, q, clause, e) ==
    /\ IsEdge(q, e)
    /\ Meaning(q, e) = Joined(p, "SUM", ToSet(clause))
    /\ IABS(e) = TAUTOLOGY \/ Mentions(q, e) \subseteq AllMentioned(p, ToSet(clause))

ChunksMade(p, chunks, k, x) ==
    /\ WellFormed(x.pog) /\ Grown(p, x.pog)
    /\ x.edges \in Seq(Int) /\ Len(x.edges) = k
    /\ \A i \in 1 .. k : EdgeFor(p, x.pog, chunks[i], x.edges[i])
    /\ Canonical(p) => Canonical(x.pog)
    /\ Countable(p) /\ IndependentChunks(p, chunks) => Countable(x.pog)

ChunkStage(p, chunks, k, x) ==
    /\ \E S : x.pog.nodes \in Seq(S)
    /\ Len(x.edges) = k /\ \E S : x.edges \in Seq(S)
    /\ Fits(x.pog) => ChunksMade(p, chunks, k, x)

AreClauses(p, chunks) == Len(chunks) \in Nat /\ \A i \in 1 .. Len(chunks) : Edges(p, chunks[i])

LEMMA NextChunkStage ==
  ASSUME NEW p, WellFormed(p), NEW chunks, AreClauses(p, chunks),
         NEW k \in 1 .. Len(chunks), NEW x, ChunkStage(p, chunks, k - 1, x)
  PROVE  ChunkStage(p, chunks, k, NextChunk(x, chunks[k]))
<1> DEFINE c == chunks[k]
           q == x.pog
           b == build_disjunction(q, c)
           y == NextChunk(x, c)
<1>1. y.pog = b.pog /\ y.edges = Append(x.edges, b.edge)
   BY DEF NextChunk
<1>2. k \in Nat /\ Edges(p, c) /\ Len(c) \in Nat
   BY LenProperties DEF AreClauses, Edges
<1>3. PICK S : q.nodes \in Seq(S)
   BY DEF ChunkStage
<1>4. /\ \E T : b.pog.nodes \in Seq(T)
      /\ Fits(b.pog) => Fits(q)
   BY <1>2, <1>3, DisjunctionGrows
<1> HIDE DEF y
<1>5. ASSUME Fits(y.pog)
      PROVE  ChunksMade(p, chunks, k, y)
   <2>1. Fits(b.pog) /\ ChunksMade(p, chunks, k - 1, x)
      BY <1>1, <1>4, <1>5 DEF ChunkStage
   <2>2. WellFormed(q) /\ Grown(p, q) /\ x.edges \in Seq(Int) /\ Len(x.edges) = k - 1
      BY <2>1 DEF ChunksMade
   <2> HIDE DEF q, c
   <2>3. /\ Edges(q, c)
         /\ Joined(q, "SUM", ToSet(c)) = Joined(p, "SUM", ToSet(c))
         /\ AllMentioned(q, ToSet(c)) = AllMentioned(p, ToSet(c))
         /\ AllCompatible(p, "PRODUCT", c) => AllCompatible(q, "PRODUCT", c)
      <3>1. "SUM" \in PogType /\ "PRODUCT" \in PogType
         BY DEF PogType
      <3> QED BY <1>2, <2>2, EdgesKept
   <2> DEFINE f == Joined(q, "SUM", ToSet(c))
              V == AllMentioned(q, ToSet(c))
   <2>4. /\ Made(q, f, V, b)
         /\ Canonical(q) => Canonical(b.pog)
         /\ Countable(q) /\ AllCompatible(q, "PRODUCT", c) => Countable(b.pog)
      BY <2>1, <2>2, <2>3, DisjunctionMade
   <2> HIDE DEF b, f, V
   <2>5. /\ WellFormed(b.pog) /\ Grown(q, b.pog) /\ Grown(p, b.pog) /\ KeepsEdges(q, b.pog)
         /\ IsEdge(b.pog, b.edge) /\ Meaning(b.pog, b.edge) = f
         /\ IABS(b.edge) = TAUTOLOGY \/ Mentions(b.pog, b.edge) \subseteq V
      <3>1. WellFormed(b.pog) /\ Grown(q, b.pog)
         BY <2>4 DEF Made
      <3>2. Grown(p, b.pog)
         BY <2>2, <3>1, GrownTransitive
      <3>3. KeepsEdges(q, b.pog)
         BY <2>2, <3>1, Sizes, GrownEdges
      <3> QED BY <2>4, <3>2, <3>3 DEF Made
   <2>6. /\ y.edges \in Seq(Int) /\ Len(y.edges) = k
         /\ y.edges[k] = b.edge /\ \A i \in 1 .. k - 1 : y.edges[i] = x.edges[i]
      <3>1. b.edge \in Int
         BY <2>5 DEF IsEdge
      <3>2. k - 1 + 1 = k
         BY <1>2
      <3> QED BY <1>1, <2>2, <3>1, <3>2, AppendProperties
   <2>7. ASSUME NEW i \in 1 .. k
         PROVE  EdgeFor(p, y.pog, chunks[i], y.edges[i])
      <3>1. CASE i = k
         BY <1>1, <2>3, <2>5, <2>6, <3>1 DEF EdgeFor, c, f, V
      <3>2. CASE i # k
         <4>1. i \in 1 .. k - 1
            BY <1>2, <3>2
         <4>2. EdgeFor(p, q, chunks[i], y.edges[i])
            BY <2>1, <2>6, <4>1 DEF ChunksMade, q
         <4> QED BY <1>1, <2>5, <4>2 DEF EdgeFor, KeepsEdges
      <3> QED BY <3>1, <3>2
   <2>8. Canonical(p) => Canonical(b.pog)
      BY <2>1, <2>4 DEF ChunksMade, q
   <2>9. Countable(p) /\ IndependentChunks(p, chunks) => Countable(b.pog)
      BY <2>1, <2>3, <2>4 DEF ChunksMade, IndependentChunks, q, c
   <2> QED BY <1>1, <2>5, <2>6, <2>7, <2>8, <2>9 DEF ChunksMade
<1>6. Len(y.edges) = k /\ \E T : y.edges \in Seq(T)
   <2>1. PICK T : x.edges \in Seq(T)
      BY DEF ChunkStage
   <2> DEFINE s == x.edges
              e == b.edge
              U == T \cup {e}
   <2>2. Len(s) = k - 1 /\ s \in Seq(T)
      BY <2>1 DEF ChunkStage
   <2> HIDE DEF s, e, b
   <2>3. s \in [1 .. Len(s) -> T]
      BY <2>2, LenProperties
   <2>4. s \in [1 .. Len(s) -> U] /\ Len(s) \in Nat
      BY <2>2, <2>3, LenProperties
   <2>5. s \in Seq(U) /\ e \in U
      BY <2>4, FunctionIsSeq
   <2> HIDE DEF U
   <2>6. Append(s, e) \in Seq(U) /\ Len(Append(s, e)) = k - 1 + 1
      BY <2>2, <2>5, AppendProperties
   <2>7. y.edges = Append(s, e) /\ k - 1 + 1 = k
      BY <1>1, <1>2 DEF s, e
   <2> QED BY <2>6, <2>7
<1> QED BY <1>1, <1>4, <1>5, <1>6 DEF ChunkStage, y

LEMMA RoundsMade ==
  ASSUME NEW p, WellFormed(p), NEW chunks, AreClauses(p, chunks), NEW g, Rounds(p, chunks, g)
  PROVE  ChunkStage(p, chunks, Len(chunks), g[Len(chunks)])
<1> DEFINE n == Len(chunks)
           S == { k \in 0 .. n : ChunkStage(p, chunks, k, g[k]) }
<1>1. n \in Nat
   BY DEF AreClauses
<1>2. 0 \in S
   <2> DEFINE x == g[0]
   <2>1. x.pog = p /\ x.edges = << >>
      BY DEF Rounds
   <2>2. << >> \in Seq(Int) /\ Len(<< >>) = 0 /\ 1 .. 0 = {}
      OBVIOUS
   <2>3. p.nodes \in Seq(Node) /\ Grown(p, p)
      BY Sizes, GrownReflexive
   <2> HIDE DEF x
   <2>4. ChunksMade(p, chunks, 0, x)
      <3>1. Countable(p) /\ IndependentChunks(p, chunks) => Countable(p)
         OBVIOUS
      <3> QED BY <2>1, <2>2, <2>3, <3>1 DEF ChunksMade
   <2>5. ChunkStage(p, chunks, 0, x)
      BY <2>1, <2>2, <2>3, <2>4 DEF ChunkStage
   <2> QED BY <1>1, <2>5 DEF x
<1>3. ASSUME NEW k \in 1 .. n, k - 1 \in S
      PROVE  k \in S
   <2>1. ChunkStage(p, chunks, k - 1, g[k - 1])
      BY <1>3
   <2>2. g[k] = NextChunk(g[k - 1], chunks[k])
      BY DEF Rounds
   <2>3. ChunkStage(p, chunks, k, g[k])
      BY <2>1, <2>2, NextChunkStage
   <2>4. k \in 0 .. n
      BY <1>1
   <2> QED BY <2>3, <2>4
<1> HIDE DEF S
<1>4. 0 .. n \subseteq S
   BY <1>1, <1>2, <1>3, Induction
<1>5. n \in S
   BY <1>1, <1>4
<1> QED BY <1>5 DEF S

\* What the clauses say together, and what they mention.
AllClauses(p, chunks) ==
    { a \in Assignments : \A i \in 1 .. Len(chunks) : a \in Joined(p, "SUM", ToSet(chunks[i])) }

ClauseVariables(p, chunks) ==
    UNION { AllMentioned(p, ToSet(chunks[i])) : i \in 1 .. Len(chunks) }

\* The last step of simple_kc: the product of the edges of all clauses.
LEMMA ProductOfChunks ==
  ASSUME NEW p, WellFormed(p), NEW chunks, AreClauses(p, chunks),
         NEW x, ChunksMade(p, chunks, Len(chunks), x),
         NEW made, made = MakeNode(x.pog, "PRODUCT", x.edges), Fits(made.pog)
  PROVE  /\ Made(p, AllClauses(p, chunks), ClauseVariables(p, chunks), made)
         /\ Canonical(p) => Canonical(made.pog)
         /\ Countable(p) /\ IndependentChunks(p, chunks) => Countable(made.pog)
<1> DEFINE q == x.pog
           s == x.edges
           n == Len(chunks)
           f == Joined(q, "PRODUCT", ToSet(s))
           V == AllMentioned(q, ToSet(s))
<1>1. /\ WellFormed(q) /\ Grown(p, q) /\ s \in Seq(Int) /\ Len(s) = n /\ n \in Nat
      /\ \A i \in 1 .. n : EdgeFor(p, q, chunks[i], s[i])
   BY DEF ChunksMade, AreClauses
<1>2. DOMAIN s = 1 .. n /\ Edges(q, s)
   BY <1>1, LenProperties DEF Edges, EdgeFor
<1>3. "PRODUCT" \in PogType /\ "PRODUCT" # "SUM"
   BY DEF PogType
<1>4. ToSet(s) = { s[i] : i \in 1 .. n }
   BY <1>2 DEF ToSet
<1>5. f = AllClauses(p, chunks)
   <2> HIDE DEF q, s
   <2>1. f = { a \in Assignments : \A i \in 1 .. n : a \in Meaning(q, s[i]) }
      BY <1>3, <1>4 DEF Joined
   <2>2. \A i \in 1 .. n : Meaning(q, s[i]) = Joined(p, "SUM", ToSet(chunks[i]))
      BY <1>1 DEF EdgeFor
   <2> QED BY <2>1, <2>2 DEF AllClauses
<1> HIDE DEF q, s
<1>6. \A i \in 1 .. n : IABS(s[i]) # TAUTOLOGY =>
         Mentions(q, s[i]) \subseteq AllMentioned(p, ToSet(chunks[i]))
   BY <1>1 DEF EdgeFor
<1>7. made.pog = MakeNode(q, "PRODUCT", s).pog /\ made.edge = MakeNode(q, "PRODUCT", s).edge
      /\ Fits(MakeNode(q, "PRODUCT", s).pog) /\ made = MakeNode(q, "PRODUCT", s)
   BY DEF q, s
<1>8. /\ Made(q, f, V, made)
      /\ Countable(q) /\ AllCompatible(q, "PRODUCT", s) => Countable(made.pog)
   BY <1>1, <1>2, <1>3, <1>7, MakeNodeIsRight
<1>9. Canonical(q) => Canonical(made.pog)
   BY <1>1, <1>2, <1>3, <1>7, MakeNodeIsCanonical
<1>10. Made(p, AllClauses(p, chunks), ClauseVariables(p, chunks), made)
   <2>1. /\ WellFormed(made.pog) /\ Grown(q, made.pog) /\ IsEdge(made.pog, made.edge)
         /\ Meaning(made.pog, made.edge) = f
         /\ IABS(made.edge) = TAUTOLOGY \/ Mentions(made.pog, made.edge) \subseteq V
      BY <1>8 DEF Made
   <2>2. Grown(p, made.pog)
      BY <1>1, <2>1, GrownTransitive
   <2>3. ASSUME IABS(made.edge) # TAUTOLOGY
         PROVE  Mentions(made.pog, made.edge) \subseteq ClauseVariables(p, chunks)
      <3> SUFFICES ASSUME NEW v \in Mentions(made.pog, made.edge)
                   PROVE  v \in ClauseVariables(p, chunks)
         OBVIOUS
      <3>1. v \in InputVariables
         BY <2>1, <2>3, Flags
      <3>2. v \in V
         BY <2>1, <2>3
      <3>3. PICK i \in 1 .. n : v \in Mentions(q, s[i])
         <4>1. V = UNION { Mentions(q, e) : e \in ToSet(s) }
            BY DEF AllMentioned
         <4> HIDE DEF V
         <4>2. PICK e \in ToSet(s) : v \in Mentions(q, e)
            BY <3>2, <4>1
         <4> QED BY <1>4, <4>2
      <3>4. IABS(s[i]) # TAUTOLOGY
         <4>1. SUFFICES ASSUME IABS(s[i]) = TAUTOLOGY
                        PROVE  FALSE
            OBVIOUS
         <4>2. IsEdge(q, s[i])
            BY <1>1 DEF EdgeFor
         <4>3. Mentions(q, s[i]) = {TAUTOLOGY}
            BY <1>1, <4>1, <4>2, EdgeCases DEF Mentions, is_node
         <4>4. TAUTOLOGY \notin InputVariables
            BY <1>1, Sizes DEF InputVariables
         <4> QED BY <3>1, <3>3, <4>3, <4>4
      <3>5. v \in AllMentioned(p, ToSet(chunks[i]))
         BY <1>6, <3>3, <3>4
      <3> QED BY <3>5 DEF ClauseVariables
   <2> QED BY <1>5, <2>1, <2>2, <2>3 DEF Made
<1>11. ASSUME IndependentChunks(p, chunks)
       PROVE  AllCompatible(q, "PRODUCT", s)
   <2> SUFFICES ASSUME NEW i \in 1 .. n, NEW j \in 1 .. n, i < j
                PROVE  Compatible(q, "PRODUCT", s[i], s[j])
      BY <1>1 DEF AllCompatible
   <2>1. AllMentioned(p, ToSet(chunks[i])) \cap AllMentioned(p, ToSet(chunks[j])) = {}
      BY <1>11 DEF IndependentChunks
   <2>2. \/ IABS(s[i]) = TAUTOLOGY \/ IABS(s[j]) = TAUTOLOGY
         \/ Mentions(q, s[i]) \cap Mentions(q, s[j]) = {}
      BY <1>6, <2>1
   <2> QED BY <1>3, <2>2 DEF Compatible
<1> HIDE DEF f, V
<1>12. /\ Canonical(p) => Canonical(q)
       /\ Countable(p) /\ IndependentChunks(p, chunks) => Countable(q)
   BY DEF ChunksMade, q
<1> QED BY <1>8, <1>9, <1>10, <1>11, <1>12

\* The code after the rounds.
LEMMA RoundsEnd ==
  ASSUME NEW p, NEW chunks, Len(chunks) \in Nat, NEW g, Rounds(p, chunks, g),
         NEW x, x = g[Len(chunks)]
  PROVE  /\ Len(x.edges) = 0 => simple_kc(p, chunks) = [pog |-> p, edge |-> TAUTOLOGY]
         /\ Len(x.edges) = 1 => simple_kc(p, chunks) = [pog |-> x.pog, edge |-> x.edges[1]]
         /\ Len(x.edges) \notin {0, 1} =>
                simple_kc(p, chunks) = MakeNode(x.pog, "PRODUCT", x.edges)
<1> DEFINE v == simple_kc(p, chunks)
           a == [pog |-> p, edge |-> TAUTOLOGY]
           b == [pog |-> x.pog, edge |-> x.edges[1]]
           c == MakeNode(x.pog, "PRODUCT", x.edges)
           n == Len(x.edges)
<1>1. v = CASE n = 0 -> a [] n = 1 -> b [] OTHER -> c
   BY DEF Rounds
<1> HIDE DEF v, a, b, c, n
<1>2. /\ n = 0 => v = a
      /\ n = 1 => v = b
      /\ n \notin {0, 1} => v = c
   BY <1>1, SMT
<1> QED BY <1>2 DEF v, a, b, c, n

\* simple_kc makes an edge for the conjunction of the clauses.  The graph stays
\* in normal form, and countable if no variable occurs twice.
THEOREM SimpleKcIsRight ==
  ASSUME NEW p, WellFormed(p), NEW chunks, AreClauses(p, chunks),
         Fits(simple_kc(p, chunks).pog)
  PROVE  /\ Made(p, AllClauses(p, chunks), ClauseVariables(p, chunks), simple_kc(p, chunks))
         /\ Canonical(p) => Canonical(simple_kc(p, chunks).pog)
         /\ Countable(p) /\ IndependentChunks(p, chunks) => Countable(simple_kc(p, chunks).pog)
<1> DEFINE made == simple_kc(p, chunks)
           n == Len(chunks)
           f == AllClauses(p, chunks)
           V == ClauseVariables(p, chunks)
<1>1. n \in Nat
   BY DEF AreClauses
<1>2. PICK g : Rounds(p, chunks, g)
   BY <1>1, RoundsDefined
<1> DEFINE x == g[n]
<1>3. ChunkStage(p, chunks, n, x)
   BY <1>2, RoundsMade
<1>4. /\ Len(x.edges) = 0 => made = [pog |-> p, edge |-> TAUTOLOGY]
      /\ Len(x.edges) = 1 => made = [pog |-> x.pog, edge |-> x.edges[1]]
      /\ Len(x.edges) \notin {0, 1} => made = MakeNode(x.pog, "PRODUCT", x.edges)
   BY <1>1, <1>2, RoundsEnd
<1>5. Fits(made.pog)
   OBVIOUS
<1> HIDE DEF made, f, V, x
<1>6. Len(x.edges) = n /\ \E S : x.pog.nodes \in Seq(S)
   BY <1>3 DEF ChunkStage
<1>7. CASE n = 0
   <2>1. made.pog = p /\ made.edge = TAUTOLOGY
      BY <1>4, <1>6, <1>7
   <2>2. IsEdge(p, TAUTOLOGY) /\ IABS(TAUTOLOGY) = TAUTOLOGY /\ Meaning(p, TAUTOLOGY) = Assignments
      BY Sentinels, Constants
   <2>3. f = Assignments
      <3>1. 1 .. Len(chunks) = {}
         BY <1>7
      <3> QED BY <3>1 DEF f, AllClauses
   <2>4. Made(p, f, V, made)
      BY <2>1, <2>2, <2>3, GrownReflexive DEF Made
   <2> QED BY <2>1, <2>4 DEF made, f, V
<1>8. CASE n = 1
   <2>1. made.pog = x.pog /\ made.edge = x.edges[1]
      BY <1>4, <1>6, <1>8
   <2>2. ChunksMade(p, chunks, n, x) /\ 1 \in 1 .. n
      BY <1>3, <1>5, <1>8, <2>1 DEF ChunkStage
   <2>3. EdgeFor(p, made.pog, chunks[1], made.edge)
      BY <2>1, <2>2 DEF ChunksMade
   <2>4. f = Joined(p, "SUM", ToSet(chunks[1]))
      <3>1. Joined(p, "SUM", ToSet(chunks[1])) \subseteq Assignments
         BY DEF Joined
      <3>2. \A i \in 1 .. Len(chunks) : i = 1
         BY <1>8
      <3>3. 1 \in 1 .. Len(chunks)
         BY <2>2
      <3> HIDE DEF n
      <3> QED BY <3>1, <3>2, <3>3 DEF f, AllClauses
   <2>5. AllMentioned(p, ToSet(chunks[1])) \subseteq V
      BY <2>2 DEF V, ClauseVariables
   <2>6. Made(p, f, V, made)
      BY <2>1, <2>2, <2>3, <2>4, <2>5 DEF Made, EdgeFor, ChunksMade
   <2> QED BY <2>1, <2>2, <2>6 DEF ChunksMade, made, f, V
<1>9. CASE n \notin {0, 1}
   <2>1. made = MakeNode(x.pog, "PRODUCT", x.edges)
      BY <1>4, <1>6, <1>9
   <2>2. PICK node : MakeNode(x.pog, "PRODUCT", x.edges) = finish_node(x.pog, node)
      BY MakeNodeFinishes
   <2>3. Fits(x.pog)
      BY <1>5, <1>6, <2>1, <2>2, FinishGrows
   <2>4. ChunksMade(p, chunks, Len(chunks), x)
      BY <1>3, <2>3 DEF ChunkStage
   <2>5. /\ Made(p, f, V, made)
         /\ Canonical(p) => Canonical(made.pog)
         /\ Countable(p) /\ IndependentChunks(p, chunks) => Countable(made.pog)
      BY <1>5, <2>1, <2>4, ProductOfChunks DEF f, V
   <2> QED BY <2>5 DEF made, f, V
<1> QED BY <1>7, <1>8, <1>9
=============================================================================

--------------------------- MODULE Literals_proofs ---------------------------
(***************************************************************************)
(* Facts about the operators of module Literals that the proofs about the  *)
(* clause database rest on: a finite set in the order of a strict total    *)
(* order is a sequence of all its elements (the enumerations Ascending,    *)
(* SortByVariable and Lexicographic), negation of literals, assignments.   *)
(***************************************************************************)
EXTENDS Literals, FiniteSetTheorems, FunctionTheorems, SequenceTheorems, TLAPS

-----------------------------------------------------------------------------
(* Sequences *)

\* A function on 1 .. n is a sequence of length n.
LEMMA FunctionIsSeq ==
  ASSUME NEW S, NEW n \in Nat, NEW q \in [1 .. n -> S]
  PROVE  q \in Seq(S) /\ Len(q) = n
<1>1. q \in Seq(S)
   BY SeqDef
<1>2. 1 .. Len(q) = 1 .. n /\ Len(q) \in Nat
   BY <1>1, LenProperties
<1>3. Len(q) = n
   <2>1. CASE Len(q) < n
      BY <2>1, <1>2, n \in 1 .. n, n \notin 1 .. Len(q)
   <2>2. CASE n < Len(q)
      BY <2>2, <1>2, Len(q) \in 1 .. Len(q), Len(q) \notin 1 .. n
   <2> QED BY <1>2, <2>1, <2>2
<1> QED BY <1>1, <1>3

\* What is left, and what is removed, when a nonempty stack is popped.
LEMMA FrontLast ==
  ASSUME NEW S, NEW q \in Seq(S), q # << >>
  PROVE  /\ Len(q) \in Nat /\ Len(q) > 0
         /\ Front(q) \in Seq(S)
         /\ Len(Front(q)) = Len(q) - 1
         /\ \A i \in 1 .. Len(q) - 1 : Front(q)[i] = q[i]
         /\ Last(q) = q[Len(q)]
         /\ Last(q) \in S
<1>1. Len(q) \in Nat /\ Len(q) > 0
   BY EmptySeq
<1>2. \A i \in 1 .. Len(q) : q[i] \in S
   BY ElementOfSeq
<1> DEFINE f == SubSeq(q, 1, Len(q) - 1)
<1>3. /\ f \in Seq(S)
      /\ Len(f) = IF 1 <= Len(q) - 1 THEN Len(q) - 1 - 1 + 1 ELSE 0
      /\ \A i \in 1 .. Len(q) - 1 - 1 + 1 : f[i] = q[1 + i - 1]
   <2>1. \A i \in 1 .. Len(q) - 1 : q[i] \in S
      BY <1>1, <1>2
   <2> QED BY <2>1, <1>1, SubSeqProperties
<1>4. Front(q) = f
   BY DEF Front
<1> HIDE DEF f
<1> DEFINE n == Len(q)
<1>5. Len(f) = Len(q) - 1 /\ \A i \in 1 .. Len(q) - 1 : f[i] = q[i]
   <2>1. n \in Nat /\ n > 0 /\ Len(f) = IF 1 <= n - 1 THEN n - 1 - 1 + 1 ELSE 0
      BY <1>1, <1>3
   <2>2. \A i \in 1 .. n - 1 - 1 + 1 : f[i] = q[1 + i - 1]
      BY <1>3
   <2> HIDE DEF n
   <2>3. Len(f) = n - 1
      BY <2>1
   <2>4. \A i \in 1 .. n - 1 : i \in 1 .. n - 1 - 1 + 1 /\ 1 + i - 1 = i
      BY <2>1
   <2>5. \A i \in 1 .. n - 1 : f[i] = q[i]
      BY <2>2, <2>4
   <2> QED BY <2>3, <2>5 DEF n
<1>6. Last(q) = q[Len(q)] /\ Last(q) \in S
   BY <1>1, <1>2 DEF Last
<1>7. Front(q) \in Seq(S) /\ Len(Front(q)) = Len(q) - 1
   BY <1>3, <1>4, <1>5
<1>8. \A i \in 1 .. Len(q) - 1 : Front(q)[i] = q[i]
   BY <1>4, <1>5
<1> HIDE DEF f
<1> QED BY <1>1, <1>6, <1>7, <1>8

\* Popping what was pushed.
LEMMA FrontLastAppend ==
  ASSUME NEW S, NEW q \in Seq(S), NEW e \in S
  PROVE  /\ Front(Append(q, e)) = q
         /\ Last(Append(q, e)) = e
<1> DEFINE a == Append(q, e)
<1>1. /\ a \in Seq(S) /\ a # << >> /\ Len(a) = Len(q) + 1
      /\ \A i \in 1 .. Len(q) : a[i] = q[i]
      /\ a[Len(q) + 1] = e
   BY AppendProperties
<1>2. Len(q) \in Nat
   BY LenProperties
<1> HIDE DEF a
<1>3. Front(a) \in Seq(S) /\ Len(Front(a)) = Len(q) /\ Last(a) = e
      /\ \A i \in 1 .. Len(q) : Front(a)[i] = a[i]
   BY <1>1, <1>2, FrontLast, SMTT(30)
<1>4. Front(a) = q
   BY <1>1, <1>3, SeqEqual
<1> QED BY <1>3, <1>4 DEF a

\* The elements of a sequence are the values at its places.
LEMMA ToSetSeq ==
  ASSUME NEW S, NEW q \in Seq(S)
  PROVE  /\ ToSet(q) \subseteq S
         /\ \A i \in 1 .. Len(q) : q[i] \in ToSet(q)
         /\ \A x \in ToSet(q) : \E i \in 1 .. Len(q) : q[i] = x
         /\ DOMAIN q = 1 .. Len(q)
  BY LenProperties DEF ToSet

\* The elements of a concatenation.
LEMMA ToSetConcat ==
  ASSUME NEW S, NEW p \in Seq(S), NEW q \in Seq(S)
  PROVE  p \o q \in Seq(S) /\ ToSet(p \o q) = ToSet(p) \cup ToSet(q)
<1>1. /\ p \o q \in Seq(S) /\ Len(p \o q) = Len(p) + Len(q)
      /\ \A i \in 1 .. Len(p) + Len(q) :
             (p \o q)[i] = IF i <= Len(p) THEN p[i] ELSE q[i - Len(p)]
   BY ConcatProperties
<1>2. Len(p) \in Nat /\ Len(q) \in Nat
   BY LenProperties
<1> DEFINE r == p \o q
<1> HIDE DEF r
<1>3. ASSUME NEW x \in ToSet(r)
      PROVE  x \in ToSet(p) \cup ToSet(q)
   <2>1. PICK i \in 1 .. Len(p) + Len(q) : r[i] = x
      BY <1>1, ToSetSeq DEF r
   <2>2. CASE i <= Len(p)
      <3>1. i \in 1 .. Len(p) /\ r[i] = p[i]
         BY <1>1, <1>2, <2>2 DEF r
      <3> QED BY <2>1, <3>1, ToSetSeq
   <2>3. CASE ~(i <= Len(p))
      <3>1. i - Len(p) \in 1 .. Len(q) /\ r[i] = q[i - Len(p)]
         BY <1>1, <1>2, <2>3 DEF r
      <3> QED BY <2>1, <3>1, ToSetSeq
   <2> QED BY <2>2, <2>3
<1>4. ASSUME NEW x \in ToSet(p)
      PROVE  x \in ToSet(r)
   <2>1. PICK i \in 1 .. Len(p) : p[i] = x
      BY ToSetSeq
   <2>2. i \in 1 .. Len(p) + Len(q) /\ r[i] = x
      BY <1>1, <1>2, <2>1 DEF r
   <2> QED BY <1>1, <2>2, ToSetSeq DEF r
<1>5. ASSUME NEW x \in ToSet(q)
      PROVE  x \in ToSet(r)
   <2>1. PICK i \in 1 .. Len(q) : q[i] = x
      BY ToSetSeq
   <2>2. /\ i + Len(p) \in 1 .. Len(p) + Len(q)
         /\ ~(i + Len(p) <= Len(p)) /\ i + Len(p) - Len(p) = i
      BY <1>2
   <2>3. r[i + Len(p)] = x
      BY <1>1, <2>1, <2>2 DEF r
   <2> QED BY <1>1, <2>2, <2>3, ToSetSeq DEF r
<1> QED BY <1>1, <1>3, <1>4, <1>5 DEF r

\* What is first, and what is left.
LEMMA ToSetHeadTail ==
  ASSUME NEW S, NEW q \in Seq(S), q # << >>
  PROVE  /\ Head(q) \in S /\ Head(q) \in ToSet(q)
         /\ Tail(q) \in Seq(S)
         /\ ToSet(q) = {Head(q)} \cup ToSet(Tail(q))
<1>1. /\ Head(q) \in S /\ Tail(q) \in Seq(S) /\ Len(Tail(q)) = Len(q) - 1
      /\ \A i \in 1 .. Len(Tail(q)) : Tail(q)[i] = q[i + 1]
   BY HeadTailProperties
<1>2. Len(q) \in Nat \ {0} /\ Head(q) = q[1]
   BY EmptySeq
<1> DEFINE t == Tail(q)
<1> HIDE DEF t
<1>3. ASSUME NEW x \in ToSet(q)
      PROVE  x = Head(q) \/ x \in ToSet(t)
   <2>1. PICK i \in 1 .. Len(q) : q[i] = x
      BY ToSetSeq
   <2>2. CASE i # 1
      <3>1. i - 1 \in 1 .. Len(t) /\ (i - 1) + 1 = i
         BY <1>1, <1>2, <2>2 DEF t
      <3>2. t[i - 1] = x
         BY <1>1, <2>1, <3>1 DEF t
      <3> QED BY <1>1, <3>1, <3>2, ToSetSeq DEF t
   <2> QED BY <1>2, <2>1, <2>2
<1>4. ASSUME NEW x \in ToSet(t)
      PROVE  x \in ToSet(q)
   <2>1. PICK i \in 1 .. Len(t) : t[i] = x
      BY <1>1, ToSetSeq DEF t
   <2>2. i + 1 \in 1 .. Len(q) /\ q[i + 1] = x
      BY <1>1, <1>2, <2>1 DEF t
   <2> QED BY <2>2, ToSetSeq
<1>5. Head(q) \in ToSet(q)
   BY <1>2, 1 \in 1 .. Len(q), ToSetSeq
<1> QED BY <1>1, <1>3, <1>4, <1>5 DEF t

-----------------------------------------------------------------------------
(* Enumerations *)

\* A strict total order, as a set of pairs.
StrictOrder(R, S) ==
    /\ \A x \in S : << x, x >> \notin R
    /\ \A x, y, z \in S : << x, y >> \in R /\ << y, z >> \in R => << x, z >> \in R
    /\ \A x, y \in S : x = y \/ << x, y >> \in R \/ << y, x >> \in R

Below(x, R, S) == { y \in S : << y, x >> \in R }

\* In a finite ordered set each element has a rank of its own, and every
\* number below the cardinality is the rank of an element.
LEMMA RankBijective ==
  ASSUME NEW S, IsFiniteSet(S), NEW R, StrictOrder(R, S)
  PROVE  /\ Cardinality(S) \in Nat
         /\ \A x \in S : Cardinality(Below(x, R, S)) \in 0 .. Cardinality(S) - 1
         /\ \A x, y \in S : Cardinality(Below(x, R, S)) = Cardinality(Below(y, R, S)) => x = y
         /\ \A k \in 0 .. Cardinality(S) - 1 :
                \E x \in S : Cardinality(Below(x, R, S)) = k
<1> DEFINE n == Cardinality(S)
<1>1. n \in Nat
   BY FS_CardinalityType
<1>2. ASSUME NEW x \in S
      PROVE  /\ IsFiniteSet(Below(x, R, S))
             /\ Cardinality(Below(x, R, S)) \in 0 .. n - 1
   <2>1. Below(x, R, S) \in SUBSET (S \ {x})
      BY DEF Below, StrictOrder
   <2>2. IsFiniteSet(S \ {x}) /\ Cardinality(S \ {x}) = n - 1
      BY FS_RemoveElement
   <2>3. /\ IsFiniteSet(Below(x, R, S))
         /\ Cardinality(Below(x, R, S)) <= n - 1
      BY <2>1, <2>2, FS_Subset
   <2>4. Cardinality(Below(x, R, S)) \in Nat
      BY <2>3, FS_CardinalityType
   <2> HIDE DEF n
   <2> QED BY <1>1, <2>3, <2>4
<1>3. ASSUME NEW x \in S, NEW y \in S, << x, y >> \in R
      PROVE  Cardinality(Below(x, R, S)) # Cardinality(Below(y, R, S))
   <2>1. Below(x, R, S) \in SUBSET Below(y, R, S)
      BY <1>3 DEF Below, StrictOrder
   <2>2. x \in Below(y, R, S) /\ x \notin Below(x, R, S)
      BY <1>3 DEF Below, StrictOrder
   <2> QED BY <2>1, <2>2, <1>2, FS_Subset
<1>4. \A x, y \in S : Cardinality(Below(x, R, S)) = Cardinality(Below(y, R, S)) => x = y
   BY <1>3 DEF StrictOrder
<1> DEFINE rank == [x \in S |-> Cardinality(Below(x, R, S))]
<1>5. rank \in Injection(S, 0 .. n - 1)
   <2>1. rank \in [S -> 0 .. n - 1]
      BY <1>2
   <2>2. \A x, y \in S : rank[x] = rank[y] => x = y
      BY <1>4
   <2> QED BY <2>1, <2>2, Fun_IsInj
<1>6. IsFiniteSet(0 .. n - 1) /\ Cardinality(0 .. n - 1) = n
   <2> HIDE DEF n
   <2>1. n - 1 \in Int BY <1>1
   <2>2. /\ IsFiniteSet(0 .. n - 1)
         /\ Cardinality(0 .. n - 1) = IF 0 > n - 1 THEN 0 ELSE n - 1 - 0 + 1
      BY <2>1, FS_Interval
   <2> QED BY <1>1, <2>2
<1>7. rank \in Surjection(S, 0 .. n - 1)
   BY <1>5, <1>6, FS_Injection
<1>8. \A k \in 0 .. n - 1 : \E x \in S : rank[x] = k
   <2> HIDE DEF rank, n
   <2> QED BY <1>7, Fun_SurjectionProperties
<1> QED BY <1>1, <1>2, <1>4, <1>8

\* So choosing the element of each rank in turn enumerates the set.
LEMMA Enumeration ==
  ASSUME NEW S, IsFiniteSet(S), NEW R, StrictOrder(R, S), NEW q,
         q = [i \in 1 .. Cardinality(S) |-> q[i]],
         \A i \in 1 .. Cardinality(S) :
             (\E x \in S : Cardinality(Below(x, R, S)) = i - 1)
               => q[i] \in S /\ Cardinality(Below(q[i], R, S)) = i - 1
  PROVE  q \in Seq(S) /\ ToSet(q) = S /\ Len(q) = Cardinality(S)
<1> DEFINE n == Cardinality(S)
<1>1. n \in Nat
   BY RankBijective
<1>2. \A i \in 1 .. n : q[i] \in S /\ Cardinality(Below(q[i], R, S)) = i - 1
   <2>1. TAKE i \in 1 .. n
   <2>2. i - 1 \in 0 .. n - 1
      BY <1>1
   <2>3. \E x \in S : Cardinality(Below(x, R, S)) = i - 1
      BY <2>2, RankBijective
   <2> QED BY <2>3
<1>3. q \in [1 .. n -> S]
   BY <1>2
<1>4. q \in Seq(S) /\ Len(q) = n
   BY <1>1, <1>3, FunctionIsSeq
<1>5. ASSUME NEW x \in S
      PROVE  \E i \in 1 .. n : q[i] = x
   <2>1. Cardinality(Below(x, R, S)) \in 0 .. n - 1
      BY RankBijective
   <2> DEFINE i == Cardinality(Below(x, R, S)) + 1
   <2>2. i \in 1 .. n /\ i - 1 = Cardinality(Below(x, R, S))
      BY <2>1, <1>1
   <2>3. q[i] \in S /\ Cardinality(Below(q[i], R, S)) = Cardinality(Below(x, R, S))
      BY <1>2, <2>2
   <2>4. q[i] = x
      BY <2>3, RankBijective
   <2> QED BY <2>2, <2>4
<1>6. ToSet(q) = S
   BY <1>2, <1>3, <1>5 DEF ToSet
<1> QED BY <1>4, <1>6

\* The traversal of a std::set meets each element.
LEMMA AscendingEnumerates ==
  ASSUME NEW S, S \subseteq Int, IsFiniteSet(S)
  PROVE  /\ Ascending(S) \in Seq(S) /\ ToSet(Ascending(S)) = S
         /\ Len(Ascending(S)) = Cardinality(S)
<1> DEFINE R == { p \in S \X S : p[1] < p[2] }
           q == Ascending(S)
<1>1. \A x, y \in S : << x, y >> \in R <=> x < y
   OBVIOUS
<1> HIDE DEF R
<1>2. StrictOrder(R, S)
   BY <1>1 DEF StrictOrder
<1>3. \A x \in S : { y \in S : y < x } = Below(x, R, S)
   BY <1>1 DEF Below
<1>4. q = [i \in 1 .. Cardinality(S) |->
             CHOOSE x \in S : Cardinality({ y \in S : y < x }) = i - 1]
   BY DEF Ascending, SortBy
<1>5. q = [i \in 1 .. Cardinality(S) |-> q[i]]
   BY <1>4
<1>6. ASSUME NEW i \in 1 .. Cardinality(S), NEW x \in S,
             Cardinality(Below(x, R, S)) = i - 1
      PROVE  q[i] \in S /\ Cardinality(Below(q[i], R, S)) = i - 1
   <2>1. Cardinality({ y \in S : y < x }) = i - 1
      BY <1>3, <1>6
   <2>2. q[i] = CHOOSE z \in S : Cardinality({ y \in S : y < z }) = i - 1
      BY <1>4
   <2>3. q[i] \in S /\ Cardinality({ y \in S : y < q[i] }) = i - 1
      BY <2>1, <2>2
   <2> QED BY <2>3, <1>3
<1> HIDE DEF q
<1>7. \A i \in 1 .. Cardinality(S) :
         (\E x \in S : Cardinality(Below(x, R, S)) = i - 1)
           => q[i] \in S /\ Cardinality(Below(q[i], R, S)) = i - 1
   BY <1>6
<1>8. q \in Seq(S) /\ ToSet(q) = S /\ Len(q) = Cardinality(S)
   BY <1>2, <1>5, <1>7, Enumeration
<1> QED BY <1>8 DEF q

\* std::sort by variables keeps each literal, if no two have one variable.
LEMMA SortByVariableEnumerates ==
  ASSUME NEW S, S \subseteq Int, IsFiniteSet(S),
         \A x, y \in S : IABS(x) = IABS(y) => x = y
  PROVE  /\ SortByVariable(S) \in Seq(S) /\ ToSet(SortByVariable(S)) = S
         /\ Len(SortByVariable(S)) = Cardinality(S)
<1> DEFINE R == { p \in S \X S : IABS(p[1]) < IABS(p[2]) }
           q == SortByVariable(S)
<1>1. \A x, y \in S : << x, y >> \in R <=> IABS(x) < IABS(y)
   OBVIOUS
<1> HIDE DEF R
<1>2. StrictOrder(R, S)
   <2>1. \A x \in S : IABS(x) \in Int
      BY DEF IABS
   <2> QED BY <1>1, <2>1 DEF StrictOrder
<1>3. \A x \in S : { y \in S : IABS(y) < IABS(x) } = Below(x, R, S)
   BY <1>1 DEF Below
<1>4. q = [i \in 1 .. Cardinality(S) |->
             CHOOSE x \in S : Cardinality({ y \in S : IABS(y) < IABS(x) }) = i - 1]
   BY DEF SortByVariable, SortBy
<1>5. q = [i \in 1 .. Cardinality(S) |-> q[i]]
   BY <1>4
<1>6. ASSUME NEW i \in 1 .. Cardinality(S), NEW x \in S,
             Cardinality(Below(x, R, S)) = i - 1
      PROVE  q[i] \in S /\ Cardinality(Below(q[i], R, S)) = i - 1
   <2>1. Cardinality({ y \in S : IABS(y) < IABS(x) }) = i - 1
      BY <1>3, <1>6
   <2>2. q[i] = CHOOSE z \in S : Cardinality({ y \in S : IABS(y) < IABS(z) }) = i - 1
      BY <1>4
   <2>3. q[i] \in S /\ Cardinality({ y \in S : IABS(y) < IABS(q[i]) }) = i - 1
      BY <2>1, <2>2
   <2> QED BY <2>3, <1>3
<1> HIDE DEF q
<1>7. \A i \in 1 .. Cardinality(S) :
         (\E x \in S : Cardinality(Below(x, R, S)) = i - 1)
           => q[i] \in S /\ Cardinality(Below(q[i], R, S)) = i - 1
   BY <1>6
<1>8. q \in Seq(S) /\ ToSet(q) = S /\ Len(q) = Cardinality(S)
   BY <1>2, <1>5, <1>7, Enumeration
<1> QED BY <1>8 DEF q

\* An arrangement of a finite set in any order holds each element.
LEMMA SetToSeqsEnumerates ==
  ASSUME NEW S, IsFiniteSet(S), NEW q \in SetToSeqs(S)
  PROVE  q \in Seq(S) /\ ToSet(q) = S
<1> DEFINE n == Cardinality(S)
<1>1. n \in Nat
   BY FS_CardinalityType
<1>2. q \in [1 .. n -> S] /\ \A i, j \in 1 .. n : i # j => q[i] # q[j]
   BY DEF SetToSeqs
<1>3. q \in Injection(1 .. n, S)
   BY <1>2, Fun_IsInj
<1>4. Cardinality(1 .. n) = n
   <2> HIDE DEF n
   <2>1. Cardinality(1 .. n) = IF 1 > n THEN 0 ELSE n - 1 + 1
      BY <1>1, FS_Interval
   <2> QED BY <1>1, <2>1
<1>5. q \in Surjection(1 .. n, S)
   BY <1>3, <1>4, FS_Injection
<1>6. \A x \in S : \E i \in 1 .. n : q[i] = x
   <2> DEFINE places == 1 .. n
   <2>1. q \in Surjection(places, S)
      BY <1>5
   <2> HIDE DEF places
   <2>2. \A x \in S : \E i \in places : q[i] = x
      BY <2>1, Fun_SurjectionProperties
   <2> QED BY <2>2 DEF places
<1> QED BY <1>1, <1>2, <1>6, FunctionIsSeq DEF ToSet

\* There are finitely many functions between finite sets: a function is known
\* by its graph.
LEMMA FiniteFunctions ==
  ASSUME NEW S, NEW T, IsFiniteSet(S), IsFiniteSet(T)
  PROVE  IsFiniteSet([S -> T])
<1> DEFINE graph == [f \in [S -> T] |-> { << x, f[x] >> : x \in S }]
<1>1. graph \in [[S -> T] -> SUBSET (S \X T)]
   OBVIOUS
<1>2. ASSUME NEW f \in [S -> T], NEW g \in [S -> T], graph[f] = graph[g]
      PROVE  f = g
   <2>1. ASSUME NEW x \in S PROVE f[x] = g[x]
      <3>1. << x, f[x] >> \in graph[g]
         BY <1>2
      <3>2. PICK y \in S : << x, f[x] >> = << y, g[y] >>
         BY <3>1
      <3> QED BY <3>2
   <2> QED BY <2>1
<1>3. IsFiniteSet(SUBSET (S \X T))
   BY FS_Product, FS_SUBSET
<1> HIDE DEF graph
<1>4. graph \in Injection([S -> T], SUBSET (S \X T))
   BY <1>1, <1>2, Fun_IsInj
<1> QED BY <1>3, <1>4, FS_Injection

\* A nonempty set of natural numbers has a least element.
LEMMA LeastNatural ==
  ASSUME NEW N \in SUBSET Nat, N # {}
  PROVE  \E m \in N : \A k \in N : m <= k
<1> DEFINE R == { p \in Nat \X Nat : p[1] < p[2] }
<1>1. IsWellFoundedOn(R, Nat)
   BY NatLessThanWellFounded DEF OpToRel
<1>2. \A x, y \in Nat : << x, y >> \notin R => y <= x
   OBVIOUS
<1> HIDE DEF R
<1>3. PICK m \in N : \A k \in N : << k, m >> \notin R
   BY <1>1, WFMin
<1> QED BY <1>2, <1>3

\* Induction, for a set of numbers.
LEMMA Induction ==
  ASSUME NEW n \in Nat, NEW S, 0 \in S, \A k \in 1 .. n : k - 1 \in S => k \in S
  PROVE  0 .. n \subseteq S
<1> DEFINE bad == (0 .. n) \ S
<1>1. SUFFICES ASSUME bad # {}
               PROVE  FALSE
   OBVIOUS
<1>2. PICK m \in bad : \A k \in bad : m <= k
   BY <1>1, LeastNatural, bad \in SUBSET Nat
<1>3. m \in 1 .. n /\ m - 1 \in 0 .. n /\ ~(m <= m - 1)
   OBVIOUS
<1> QED BY <1>2, <1>3

LEMMA StrongInduction ==
  ASSUME NEW n \in Nat, NEW S, \A k \in 1 .. n : (\A j \in 1 .. k - 1 : j \in S) => k \in S
  PROVE  1 .. n \subseteq S
<1> DEFINE bad == (1 .. n) \ S
<1>1. SUFFICES ASSUME bad # {}
               PROVE  FALSE
   OBVIOUS
<1>2. PICK m \in bad : \A k \in bad : m <= k
   BY <1>1, LeastNatural, bad \in SUBSET Nat
<1>3. \A j \in 1 .. m - 1 : j \in 1 .. n /\ ~(m <= j)
   OBVIOUS
<1> QED BY <1>2, <1>3

\* Nested loops meet every sequence of the set.
LEMMA LexicographicEnumerates ==
  ASSUME NEW n \in Nat, NEW S, IsFiniteSet(S), S \subseteq [1 .. n -> Int]
  PROVE  /\ Lexicographic(S) \in Seq(S) /\ ToSet(Lexicographic(S)) = S
         /\ Len(Lexicographic(S)) = Cardinality(S)
<1> DEFINE R == { p \in S \X S : LexLess(p[1], p[2]) }
           q == Lexicographic(S)
<1>1. \A x, y \in S : << x, y >> \in R <=>
          \E i \in 1 .. n : x[i] < y[i] /\ \A j \in 1 .. i - 1 : x[j] = y[j]
   BY DEF LexLess
<1>2. \A x \in S : { y \in S : LexLess(y, x) } = Below(x, R, S)
   BY DEF Below
<1> HIDE DEF R
<1>3. StrictOrder(R, S)
   <2>1. \A x \in S, i \in 1 .. n : x[i] \in Int
      OBVIOUS
   <2>2. ASSUME NEW x \in S, NEW y \in S, NEW z \in S, << x, y >> \in R, << y, z >> \in R
         PROVE  << x, z >> \in R
      <3>1. PICK i \in 1 .. n : x[i] < y[i] /\ \A j \in 1 .. i - 1 : x[j] = y[j]
         BY <1>1, <2>2
      <3>2. PICK k \in 1 .. n : y[k] < z[k] /\ \A j \in 1 .. k - 1 : y[j] = z[j]
         BY <1>1, <2>2
      <3>3. CASE i < k
         <4>1. y[i] = z[i] /\ \A j \in 1 .. i - 1 : j \in 1 .. k - 1
            BY <3>2, <3>3
         <4> QED BY <1>1, <2>1, <3>1, <3>2, <4>1, ZenonT(60)
      <3>4. CASE k <= i
         <4>1. x[k] <= y[k] /\ \A j \in 1 .. k - 1 : j \in 1 .. i - 1
            BY <2>1, <3>1, <3>4, SMTT(30)
         <4>2. x[k] < z[k]
            BY <2>1, <3>2, <4>1
         <4> QED BY <1>1, <3>1, <3>2, <4>1, <4>2, ZenonT(60)
      <3> QED BY <3>3, <3>4
   <2>3. ASSUME NEW x \in S, NEW y \in S, x # y
         PROVE  << x, y >> \in R \/ << y, x >> \in R
      <3> DEFINE D == { i \in 1 .. n : x[i] # y[i] }
      <3>1. D # {} /\ D \in SUBSET Nat
         BY <2>3, SMTT(30)
      <3> HIDE DEF D
      <3>2. PICK i \in D : \A k \in D : i <= k
         BY <3>1, LeastNatural
      <3>3. i \in 1 .. n /\ x[i] # y[i]
         BY <3>2 DEF D
      <3>4. \A j \in 1 .. i - 1 : x[j] = y[j]
         BY <3>2, <3>3 DEF D
      <3>5. x[i] < y[i] \/ y[i] < x[i]
         BY <2>1, <3>3
      <3> QED BY <1>1, <3>3, <3>4, <3>5
   <2>4. \A x \in S : << x, x >> \notin R
      BY <1>1, <2>1
   <2> QED BY <2>2, <2>3, <2>4 DEF StrictOrder
<1>4. q = [i \in 1 .. Cardinality(S) |->
             CHOOSE x \in S : Cardinality({ y \in S : LexLess(y, x) }) = i - 1]
   BY DEF Lexicographic
<1>5. q = [i \in 1 .. Cardinality(S) |-> q[i]]
   BY <1>4
<1>6. ASSUME NEW i \in 1 .. Cardinality(S), NEW x \in S,
             Cardinality(Below(x, R, S)) = i - 1
      PROVE  q[i] \in S /\ Cardinality(Below(q[i], R, S)) = i - 1
   <2>1. Cardinality({ y \in S : LexLess(y, x) }) = i - 1
      BY <1>2, <1>6
   <2>2. q[i] = CHOOSE z \in S : Cardinality({ y \in S : LexLess(y, z) }) = i - 1
      BY <1>4
   <2>3. q[i] \in S /\ Cardinality({ y \in S : LexLess(y, q[i]) }) = i - 1
      BY <2>1, <2>2
   <2> QED BY <2>3, <1>2
<1> HIDE DEF q
<1>7. \A i \in 1 .. Cardinality(S) :
         (\E x \in S : Cardinality(Below(x, R, S)) = i - 1)
           => q[i] \in S /\ Cardinality(Below(q[i], R, S)) = i - 1
   BY <1>6
<1>8. q \in Seq(S) /\ ToSet(q) = S /\ Len(q) = Cardinality(S)
   BY <1>3, <1>5, <1>7, Enumeration, ZenonT(60)
<1> QED BY <1>8 DEF q

\* What comes earlier in an order is not above what comes later.
LEMMA LowerRank ==
  ASSUME NEW S, IsFiniteSet(S), NEW R, StrictOrder(R, S), NEW x \in S, NEW y \in S,
         Cardinality(Below(x, R, S)) < Cardinality(Below(y, R, S))
  PROVE  << y, x >> \notin R
<1> SUFFICES ASSUME << y, x >> \in R
             PROVE  FALSE
   OBVIOUS
<1>1. Below(y, R, S) \subseteq Below(x, R, S) /\ Below(x, R, S) \subseteq S
   BY DEF Below, StrictOrder
<1>2. IsFiniteSet(Below(x, R, S))
   BY <1>1, FS_Subset
<1>3. /\ Cardinality(Below(y, R, S)) <= Cardinality(Below(x, R, S))
   BY <1>1, <1>2, FS_Subset
<1>4. Cardinality(Below(x, R, S)) \in Int /\ Cardinality(Below(y, R, S)) \in Int
   BY RankBijective
<1> QED BY <1>3, <1>4

\* Nested loops meet pairs in the order of their first components.
LEMMA LexicographicOrdered ==
  ASSUME NEW S, IsFiniteSet(S), S \subseteq [1 .. 2 -> Int],
         NEW i \in 1 .. Cardinality(S), NEW j \in 1 .. Cardinality(S), i < j
  PROVE  Lexicographic(S)[i][1] <= Lexicographic(S)[j][1]
<1> DEFINE R == { p \in S \X S : LexLess(p[1], p[2]) }
           q == Lexicographic(S)
<1>1. \A x, y \in S : << x, y >> \in R <=>
          x[1] < y[1] \/ (x[1] = y[1] /\ x[2] < y[2])
   <2>1. ASSUME NEW x \in S, NEW y \in S
         PROVE  LexLess(x, y) <=> x[1] < y[1] \/ (x[1] = y[1] /\ x[2] < y[2])
      <3>1. DOMAIN x = {1, 2}
         OBVIOUS
      <3>2. 1 .. 0 = {} /\ 1 .. 1 = {1} /\ 1 - 1 = 0 /\ 2 - 1 = 1
         OBVIOUS
      <3> QED BY <3>1, <3>2 DEF LexLess
   <2> QED BY <2>1
<1>2. \A x \in S : { y \in S : LexLess(y, x) } = Below(x, R, S)
   BY DEF Below
<1> HIDE DEF R
<1>3. \A x \in S : x[1] \in Int /\ x[2] \in Int
   OBVIOUS
<1>4. StrictOrder(R, S)
   <2>1. \A x, y \in S : x[1] = y[1] /\ x[2] = y[2] => x = y
      OBVIOUS
   <2> QED BY <1>1, <1>3, <2>1, SMTT(30) DEF StrictOrder
<1>5. q = [k \in 1 .. Cardinality(S) |->
             CHOOSE x \in S : Cardinality({ y \in S : LexLess(y, x) }) = k - 1]
   BY DEF Lexicographic
<1>6. Cardinality(S) \in Nat
   BY FS_CardinalityType
<1>7. ASSUME NEW k \in 1 .. Cardinality(S)
      PROVE  q[k] \in S /\ Cardinality(Below(q[k], R, S)) = k - 1
   <2>1. k - 1 \in 0 .. Cardinality(S) - 1
      BY <1>6
   <2>2. PICK x \in S : Cardinality(Below(x, R, S)) = k - 1
      BY <1>4, <2>1, RankBijective
   <2>3. Cardinality({ y \in S : LexLess(y, x) }) = k - 1
      BY <1>2, <2>2
   <2>4. q[k] = CHOOSE z \in S : Cardinality({ y \in S : LexLess(y, z) }) = k - 1
      BY <1>5
   <2> HIDE DEF q
   <2>5. q[k] \in S /\ Cardinality({ y \in S : LexLess(y, q[k]) }) = k - 1
      BY <2>3, <2>4
   <2> QED BY <1>2, <2>5
<1> HIDE DEF q
<1>8. << q[j], q[i] >> \notin R
   <2>1. i - 1 < j - 1
      BY <1>6
   <2>2. Cardinality(Below(q[i], R, S)) < Cardinality(Below(q[j], R, S))
      BY <1>7, <2>1
   <2> QED BY <1>4, <1>7, <2>2, LowerRank
<1> QED BY <1>1, <1>3, <1>7, <1>8 DEF q

-----------------------------------------------------------------------------
(* Literals *)

\* Negation, and the variable of a literal.
LEMMA LiteralFacts ==
  \A lit \in Literal :
      /\ lit \in Int /\ lit # 0 /\ lit # TAUTOLOGY /\ lit # CONFLICT
      /\ -lit \in Literal /\ lit # -lit /\ -(-lit) = lit
      /\ IABS(lit) \in Variables /\ IABS(-lit) = IABS(lit)
      /\ lit = IABS(lit) \/ lit = -IABS(lit)
  BY NVarAssumption, SentinelAssumption DEF Literal, Variables, IABS, TAUTOLOGY, CONFLICT

\* A variable and its complement are literals, of that variable.
LEMMA VariableFacts ==
  \A v \in Variables :
      /\ v \in Literal /\ -v \in Literal /\ v # -v /\ -(-v) = v
      /\ IABS(v) = v /\ IABS(-v) = v
  BY NVarAssumption DEF Literal, Variables, IABS

\* Literals of one variable are equal or complementary.
LEMMA SameVariable ==
  \A x, y \in Literal : IABS(x) = IABS(y) => x = y \/ x = -y
  BY NVarAssumption DEF Literal, Variables, IABS

\* There are finitely many of them.
LEMMA LiteralsFinite == IsFiniteSet(Variables) /\ IsFiniteSet(Literal)
<1>1. IsFiniteSet(Variables)
   BY NVarAssumption, FS_Interval DEF Variables
<1>2. IsFiniteSet((-NVar) .. NVar)
   BY NVarAssumption, FS_Interval, -NVar \in Int
<1>3. Literal \in SUBSET ((-NVar) .. NVar)
   BY NVarAssumption DEF Literal, Variables
<1> QED BY <1>1, <1>2, <1>3, FS_Subset

-----------------------------------------------------------------------------
(* Assignments *)

\* A literal holds if its complement does not.
LEMMA HoldsNegation ==
  \A a, lit : lit \in Literal => (Holds(a, -lit) <=> ~Holds(a, lit))
  BY LiteralFacts DEF Holds

\* Only the value of its variable matters for a literal.
LEMMA HoldsAgree ==
  ASSUME NEW a, NEW b, NEW lit \in Literal, IABS(lit) \in a <=> IABS(lit) \in b
  PROVE  Holds(a, lit) <=> Holds(b, lit)
  BY LiteralFacts DEF Holds, IABS

\* The assignment that agrees with a but makes the literals U true.
Assigning(a, U) ==
    { v \in Variables : v \in U \/ (v \in a /\ -v \notin U) }

\* What it makes true, and what it leaves alone.
LEMMA AssigningFacts ==
  ASSUME NEW a \in SUBSET Variables, NEW U \in SUBSET Literal, \A u \in U : -u \notin U
  PROVE  /\ Assigning(a, U) \in SUBSET Variables
         /\ \A u \in U : Holds(Assigning(a, U), u)
         /\ \A lit \in Literal : lit \notin U /\ -lit \notin U =>
                (Holds(Assigning(a, U), lit) <=> Holds(a, lit))
         /\ \A v \in Variables : v \notin U /\ -v \notin U =>
                (v \in Assigning(a, U) <=> v \in a)
         /\ \A D : (\A u \in U : IABS(u) \notin D) => Assigning(a, U) \cap D = a \cap D
<1>1. \A v \in Variables : v \notin U /\ -v \notin U => (v \in Assigning(a, U) <=> v \in a)
   BY DEF Assigning
<1>2. ASSUME NEW u \in U
      PROVE  Holds(Assigning(a, U), u)
   <2>1. u \in Literal /\ u \in Int /\ -(-u) = u
      BY LiteralFacts
   <2>2. CASE u > 0
      <3>1. u \in Variables
         BY <2>1, <2>2, NVarAssumption DEF Literal, Variables
      <3> QED BY <2>2, <3>1 DEF Holds, Assigning
   <2>3. CASE ~(u > 0)
      <3>1. -u \notin U
         OBVIOUS
      <3> QED BY <2>1, <2>3, <3>1 DEF Holds, Assigning
   <2> QED BY <2>2, <2>3
<1>3. ASSUME NEW lit \in Literal, lit \notin U, -lit \notin U
      PROVE  Holds(Assigning(a, U), lit) <=> Holds(a, lit)
   <2>1. IABS(lit) \in Variables /\ IABS(lit) \notin U /\ -IABS(lit) \notin U
      BY <1>3, LiteralFacts
   <2> QED BY <2>1, <1>1, HoldsAgree
<1>4. ASSUME NEW D, \A u \in U : IABS(u) \notin D
      PROVE  Assigning(a, U) \cap D = a \cap D
   <2>1. \A v \in Variables : v \in D => v \notin U /\ -v \notin U
      BY <1>4, VariableFacts
   <2> QED BY <1>1, <2>1 DEF Assigning
<1>5. Assigning(a, U) \in SUBSET Variables
   BY DEF Assigning
<1> QED BY <1>1, <1>2, <1>3, <1>4, <1>5

\* b makes one literal true, whose variable is not in D, and agrees with a on
\* the others.
SetsLiteral(a, b, u, D) ==
    /\ b \in SUBSET Variables
    /\ Holds(b, u)
    /\ b \cap D = a \cap D
    /\ \A l \in Literal : l # u /\ l # -u => (Holds(b, l) <=> Holds(a, l))
    /\ \A v \in Variables : v # IABS(u) => (v \in b <=> v \in a)

\* There is such an assignment.
LEMMA SetLiteral ==
  ASSUME NEW a \in SUBSET Variables, NEW u \in Literal, NEW D, IABS(u) \notin D
  PROVE  \E b : SetsLiteral(a, b, u, D)
<1> DEFINE b == Assigning(a, {u})
<1>1. {u} \in SUBSET Literal /\ \A x \in {u} : -x \notin {u}
   BY LiteralFacts
<1>2. /\ b \in SUBSET Variables
      /\ \A x \in {u} : Holds(b, x)
      /\ \A l \in Literal : l \notin {u} /\ -l \notin {u} => (Holds(b, l) <=> Holds(a, l))
      /\ \A v \in Variables : v \notin {u} /\ -v \notin {u} => (v \in b <=> v \in a)
      /\ \A E : (\A x \in {u} : IABS(x) \notin E) => b \cap E = a \cap E
   BY <1>1, AssigningFacts
<1> HIDE DEF b
<1>3. \A l \in Literal : l # u /\ l # -u => (Holds(b, l) <=> Holds(a, l))
   BY <1>2, LiteralFacts
<1>4. \A v \in Variables : v # IABS(u) => (v \in b <=> v \in a)
   BY <1>2, VariableFacts
<1>5. b \cap D = a \cap D
   BY <1>2
<1> QED BY <1>2, <1>3, <1>4, <1>5 DEF SetsLiteral

-----------------------------------------------------------------------------
(* Models and projections *)

\* Formulas project to the same set if each model of one has a counterpart.
LEMMA SameProjection ==
  ASSUME NEW V, NEW D, NEW A, NEW B,
         \A a \in Models(V, A) : \E b \in Models(V, B) : a \cap D = b \cap D,
         \A b \in Models(V, B) : \E a \in Models(V, A) : a \cap D = b \cap D
  PROVE  Projection(V, D, A) = Projection(V, D, B)
  BY DEF Projection

\* Conversely, a model has a counterpart in a formula with the same projection.
LEMMA Counterpart ==
  ASSUME NEW V, NEW D, NEW A, NEW B, Projection(V, D, A) = Projection(V, D, B)
  PROVE  \A a \in Models(V, A) : \E b \in Models(V, B) : a \cap D = b \cap D
<1>1. \A a \in Models(V, A) : a \cap D \in Projection(V, D, B)
   BY DEF Projection
<1> QED BY <1>1 DEF Projection

\* A variable stays determined if each model of the new formula has a
\* counterpart in the old one that agrees on the data and on the variable.
LEMMA StaysDetermined ==
  ASSUME NEW V, NEW D, NEW A, NEW B, NEW v, Determined(V, D, A, v),
         \A b \in Models(V, B) :
             \E a \in Models(V, A) : a \cap D = b \cap D /\ (v \in a <=> v \in b)
  PROVE  Determined(V, D, B, v)
<1> SUFFICES ASSUME NEW b1 \in Models(V, B), NEW b2 \in Models(V, B), b1 \cap D = b2 \cap D
             PROVE  v \in b1 <=> v \in b2
   BY DEF Determined
<1>1. PICK a1 \in Models(V, A) : a1 \cap D = b1 \cap D /\ (v \in a1 <=> v \in b1)
   OBVIOUS
<1>2. PICK a2 \in Models(V, A) : a2 \cap D = b2 \cap D /\ (v \in a2 <=> v \in b2)
   OBVIOUS
<1> QED BY <1>1, <1>2 DEF Determined
=============================================================================

--------------------------- MODULE Traverse_proofs ---------------------------
(***************************************************************************)
(* The projecting traversal computes projections, keeps the graph          *)
(* countable and meets the edges it expects, for every graph that a        *)
(* compiler may make, at every optimization level; and it implements the   *)
(* abstract projector.                                                     *)
(***************************************************************************)
EXTENDS Traverse, Pog_proofs

-----------------------------------------------------------------------------
(* What compilers promise *)

\* The graph of the formula is a decision-DNNF that represents it, and later
\* every satisfiable function of data variables V, some of which may make no
\* difference, is represented over V in a graph that grows.
CompilerContract ==
    /\ FirstGraph
    /\ \A p \in [nodes : Seq(Node), data_variables : {DataVariables}] :
         \A V \in SUBSET DataVariables, f \in SUBSET Assignments :
           f # {} /\ Shadow(f, V) = f => LaterGraph(p, f, V)

-----------------------------------------------------------------------------
(* Projections *)

LEMMA ShadowFacts ==
  ASSUME NEW V
  PROVE  /\ \A f : Shadow(f, V) \subseteq Assignments
         /\ \A f, a : a \in Shadow(f, V) <=> a \in Assignments /\ \E b \in f : a \cap V = b \cap V
<1>1. \A f : Shadow(f, V) \subseteq Assignments
   BY DEF Shadow
<1>2. ASSUME NEW f, NEW a
      PROVE  a \in Shadow(f, V) <=> a \in Assignments /\ \E b \in f : a \cap V = b \cap V
   BY DEF Shadow
<1> QED BY <1>1, <1>2

LEMMA ShadowUnion ==
  ASSUME NEW V, NEW f, NEW g
  PROVE  Shadow(f \cup g, V) = Shadow(f, V) \cup Shadow(g, V)
<1>1. ASSUME NEW a
      PROVE  a \in Shadow(f \cup g, V) <=> a \in Shadow(f, V) \cup Shadow(g, V)
   BY ShadowFacts
<1> QED BY <1>1

\* A function over V is its own projection onto V, and onto more than V.
LEMMA ShadowOver ==
  ASSUME NEW V, NEW f, f \subseteq Assignments, NEW W, Over(f, W), W \subseteq V
  PROVE  Shadow(f, V) = f
<1>1. ASSUME NEW a \in f
      PROVE  a \in Shadow(f, V)
   BY ShadowFacts
<1>2. ASSUME NEW a \in Shadow(f, V)
      PROVE  a \in f
   <2>1. a \in Assignments /\ \E b \in f : a \cap V = b \cap V
      BY ShadowFacts
   <2>2. PICK b \in f : a \cap V = b \cap V
      BY <2>1
   <2>3. a \cap W = b \cap W
      BY <2>2
   <2> QED BY <2>1, <2>3 DEF Over
<1> QED BY <1>1, <1>2

\* An edge over data variables.
OnData(p, e) == IsEdge(p, e) /\ (IABS(e) # TAUTOLOGY => Mentions(p, e) \subseteq DataVariables)

LEMMA EdgeOver ==
  ASSUME NEW p, WellFormed(p), NEW e, IsEdge(p, e)
  PROVE  /\ Meaning(p, e) \subseteq Assignments
         /\ Over(Meaning(p, e), Mentions(p, e))
         /\ OnData(p, e) => Over(Meaning(p, e), DataVariables)
         /\ OnData(p, e) => Shadow(Meaning(p, e), DataVariables) = Meaning(p, e)
<1>1. Meaning(p, e) \subseteq Assignments
   BY Negation DEF Negates
<1>2. Over(Meaning(p, e), Mentions(p, e))
   BY Dependence DEF Agree, Over
<1>3. ASSUME OnData(p, e)
      PROVE  Over(Meaning(p, e), DataVariables)
   <2>1. CASE IABS(e) # TAUTOLOGY
      <3>1. Mentions(p, e) \subseteq DataVariables
         BY <1>3, <2>1 DEF OnData
      <3> QED BY <1>2, <3>1 DEF Over
   <2>2. CASE IABS(e) = TAUTOLOGY
      <3>1. e \in {TAUTOLOGY, CONFLICT}
         BY <2>2, Constants DEF IsEdge
      <3>2. Meaning(p, e) \in {{}, Assignments}
         BY <3>1, Constants
      <3> QED BY <3>2 DEF Over
   <2> QED BY <2>1, <2>2
<1>4. ASSUME OnData(p, e)
      PROVE  Shadow(Meaning(p, e), DataVariables) = Meaning(p, e)
   BY <1>1, <1>3, <1>4, ShadowOver
<1> QED BY <1>1, <1>2, <1>3, <1>4

\* Edge r is the projection of edge e, and mentions no other variable.
Projects(p, e, r) ==
    /\ IsEdge(p, e) /\ IsEdge(p, r)
    /\ Meaning(p, r) = Shadow(Meaning(p, e), DataVariables)
    /\ IABS(r) # TAUTOLOGY => Mentions(p, r) \subseteq DataVariables \cap Mentions(p, e)

-----------------------------------------------------------------------------
(* The graph, and the part of it that D4 made *)

\* The nodes up to the root are those of the first graph.
GraphOK(p, root) ==
    /\ WellFormed(p) /\ Countable(p) /\ p.data_variables = DataVariables
    /\ IsEdge(p, root)
    /\ is_node(root) => root > 0 /\ \A i \in 1 .. root - NInput : DecisionNode(p, i)

Original(p, root, e) ==
    /\ IsEdge(p, e)
    /\ is_node(e) => is_node(root) /\ e > 0 /\ e <= root

\* Models of e can be completed to models of the root.
InContext(p, root, e) ==
    \E c \in Assignments : \A b \in Meaning(p, e) :
        b \ Mentions(p, e) = c \ Mentions(p, e) => b \in Meaning(p, root)

\* The edges traverse may be called with.
Callable(p, root, level, e) ==
    \/ Original(p, root, e) /\ (is_node(e) => InContext(p, root, e))
    \/ level >= 2 /\ OnData(p, e)

\* What the Tseitin variables are known to be.
TseitinOK(p, root, level, tseitin) ==
    /\ level < 2 => InputVariables \ DataVariables \subseteq tseitin
    /\ \A v \in tseitin : \A a, b \in Meaning(p, root) :
         a \cap DataVariables = b \cap DataVariables => (v \in a <=> v \in b)

CacheOK(p, cache) == \A e \in DOMAIN cache : Projects(p, e, cache[e])

\* An activation: its results are the projections of its first arguments.
IsSum(p, e) == is_node(e) /\ NodeOf(p, e).type = "SUM"

FrameOK(p, root, level, frame) ==
    /\ frame \in Frame
    /\ Original(p, root, frame.edge) /\ is_node(frame.edge) /\ InContext(p, root, frame.edge)
    /\ IsSum(p, frame.edge) =>
         /\ frame.dvar = get_decision_variable(p, frame.edge)
         /\ Len(frame.results) <= 2
         /\ Len(frame.results) = 2 => level >= 2
         /\ \A k \in 1 .. Len(frame.results) : frame.results[k] # TAUTOLOGY
    /\ ~IsSum(p, frame.edge) => Len(frame.results) < Len(NodeOf(p, frame.edge).args)
    /\ \A k \in 1 .. Len(frame.results) :
         Projects(p, NodeOf(p, frame.edge).args[k], frame.results[k])

\* The intersection of two results.
Overlap(p, r1, r2, x) ==
    /\ OnData(p, x)
    /\ Meaning(p, x) = Meaning(p, r1) \cap Meaning(p, r2)
    /\ IABS(x) # TAUTOLOGY => Mentions(p, x) \subseteq Mentions(p, r1) \cup Mentions(p, r2)

\* The edge an activation waits for.
Awaits(p, frame, x) ==
    IF IsSum(p, frame.edge) /\ Len(frame.results) = 2
      THEN Overlap(p, frame.results[1], frame.results[2], x)
      ELSE x = NodeOf(p, frame.edge).args[Len(frame.results) + 1]

\* Each activation waits for the next, and the last one for the call.
Awaited(fs, x, i) == IF i = Len(fs) THEN x ELSE fs[i + 1].edge

StackOK(p, root, level, fs, x) ==
    /\ fs \in Seq(Frame)
    /\ \A i \in 1 .. Len(fs) : FrameOK(p, root, level, fs[i]) /\ Awaits(p, fs[i], Awaited(fs, x, i))
    /\ root = IF fs = << >> THEN x ELSE fs[1].edge

\* The inductive invariant.
GraphInv   == GraphOK(pog, root_literal)
GivenInv   == optlevel \in OptLevels /\ TseitinOK(pog, root_literal, optlevel, tseitin_variables)
CacheInv   == CacheOK(pog, result_cache)
StackInv   == StackOK(pog, root_literal, optlevel, frames, call)
ControlInv ==
    /\ pc \in {"call", "return"}
    /\ IsEdge(pog, call)
    /\ pc = "call" => Callable(pog, root_literal, optlevel, call)
    /\ pc = "return" => Projects(pog, call, edge)

IInv == GraphInv /\ GivenInv /\ CacheInv /\ StackInv /\ ControlInv

-----------------------------------------------------------------------------
(* All of it stays when the graph grows. *)

\* The lists the decision variable is looked for in.
SameLits(p, q, e) ==
    \A i \in {1, 2} : ArgumentLits(q, NodeOf(q, e).args[i]) = ArgumentLits(p, NodeOf(p, e).args[i])

DecisionOf(lits1, lits2) ==
    LET found == { k \in DOMAIN lits1 : -lits1[k] \in ToSet(lits2) }
    IN  IF found = {} THEN 0 ELSE IABS(lits1[CHOOSE k \in found : \A j \in found : k <= j])

LEMMA DecisionDefined ==
  ASSUME NEW p, NEW e
  PROVE  get_decision_variable(p, e) =
           DecisionOf(ArgumentLits(p, NodeOf(p, e).args[1]), ArgumentLits(p, NodeOf(p, e).args[2]))
BY DEF get_decision_variable, DecisionOf

LEMMA SameDecision ==
  ASSUME NEW p, NEW q, NEW e, SameLits(p, q, e)
  PROVE  get_decision_variable(q, e) = get_decision_variable(p, e)
<1>1. /\ ArgumentLits(q, NodeOf(q, e).args[1]) = ArgumentLits(p, NodeOf(p, e).args[1])
      /\ ArgumentLits(q, NodeOf(q, e).args[2]) = ArgumentLits(p, NodeOf(p, e).args[2])
   BY DEF SameLits
<1> QED BY <1>1, DecisionDefined

LEMMA DecisionGrown ==
  ASSUME NEW p, WellFormed(p), NEW q, WellFormed(q), Grown(p, q),
         NEW i \in 1 .. Len(p.nodes), DecisionNode(p, i)
  PROVE  /\ DecisionNode(q, i)
         /\ p.nodes[i].type = "SUM" =>
              get_decision_variable(q, NInput + i) = get_decision_variable(p, NInput + i)
<1> DEFINE e == NInput + i
           args == p.nodes[i].args
<1>1. KeepsEdges(p, q)
   BY GrownEdges, Sizes
<1>2. q.nodes[i] = p.nodes[i]
   BY DEF Grown
<1>3. ArgumentsOf(p, i)
   BY NodeArguments
<1>4. /\ args \in Seq(Int) /\ \A x \in ToSet(args) : IsEdge(p, x)
   BY <1>3, Zenon DEF ArgumentsOf
<1>5. \A x \in ToSet(args) : is_node(x) => NodeOf(q, x) = NodeOf(p, x)
   BY <1>1, <1>4 DEF KeepsEdges
<1>6. NodeOf(p, e).args = args /\ NodeOf(q, e).args = args
   <2>1. IABS(e) - NInput = i
      BY <1>3, NInputAssumption, Sizes DEF ArgumentsOf
   <2> QED BY <1>2, <2>1 DEF NodeOf
<1>7. AllModels(q)[i] = AllModels(p)[i]
   BY GrownLists, Sizes
<1>8. ASSUME NEW x \in ToSet(args)
      PROVE  ArgumentLits(q, x) = ArgumentLits(p, x)
   BY <1>5 DEF ArgumentLits
<1>9. ASSUME p.nodes[i].type = "SUM"
      PROVE  get_decision_variable(q, e) = get_decision_variable(p, e)
   <2>1. Len(args) = 2
      BY <1>9 DEF DecisionNode
   <2>2. args[1] \in ToSet(args) /\ args[2] \in ToSet(args)
      BY <1>4, <2>1, ToSetSeq
   <2>3. SameLits(p, q, e)
      BY <1>6, <1>8, <2>2 DEF SameLits
   <2> QED BY <2>3, SameDecision
<1>10. DecisionNode(q, i)
   <2> HIDE DEF e, args
   <2>1. /\ AllModels(p)[i] # {} /\ Len(args) >= 2 /\ \A x \in ToSet(args) : is_node(x) => x > 0
         /\ p.nodes[i].type = "SUM" =>
              /\ Len(args) = 2 /\ is_node(args[2])
              /\ \A x \in ToSet(args) : is_node(x) => NodeOf(p, x).type = "PRODUCT"
              /\ get_decision_variable(p, e) \in InputVariables
      BY DEF DecisionNode, e, args
   <2>2. \A x \in ToSet(args) : is_node(x) => NodeOf(q, x).type = NodeOf(p, x).type
      BY <1>5
   <2> QED BY <1>2, <1>7, <1>9, <2>1, <2>2 DEF DecisionNode, e, args
<1> QED BY <1>9, <1>10

Later(p, q, root) ==
    /\ GraphOK(p, root) /\ GraphOK(q, root)
    /\ KeepsEdges(p, q)
    /\ \A i \in 1 .. root - NInput : is_node(root) /\ p.nodes[i].type = "SUM" =>
         get_decision_variable(q, NInput + i) = get_decision_variable(p, NInput + i)

LEMMA Growing ==
  ASSUME NEW p, NEW root, GraphOK(p, root), NEW q, WellFormed(q), Countable(q), Grown(p, q)
  PROVE  Later(p, q, root)
<1>1. WellFormed(p)
   BY DEF GraphOK
<1>2. KeepsEdges(p, q)
   BY <1>1, GrownEdges, Sizes
<1>3. IsEdge(q, root) /\ q.data_variables = DataVariables
   BY <1>2 DEF GraphOK, KeepsEdges, Grown
<1>4. ASSUME is_node(root), NEW i \in 1 .. root - NInput
      PROVE  /\ DecisionNode(q, i)
             /\ p.nodes[i].type = "SUM" =>
                  get_decision_variable(q, NInput + i) = get_decision_variable(p, NInput + i)
   <2>1. root > 0 /\ DecisionNode(p, i)
      BY <1>4 DEF GraphOK
   <2>2. i \in 1 .. Len(p.nodes)
      <3>1. IABS(root) = root /\ root \in Int /\ root \in 1 .. (NInput + Len(p.nodes)) \cup {TAUTOLOGY}
         BY <2>1 DEF GraphOK, IsEdge, IABS
      <3>2. root <= NInput + Len(p.nodes)
         BY <1>1, <1>4, <3>1, Sizes DEF is_node
      <3> QED BY <1>1, <3>1, <3>2, Sizes
   <2> QED BY <1>1, <2>1, <2>2, DecisionGrown
<1>5. is_node(root) => root > 0
   BY DEF GraphOK
<1>6. GraphOK(q, root)
   BY <1>3, <1>4, <1>5 DEF GraphOK
<1> QED BY <1>2, <1>4, <1>6 DEF Later

LEMMA ProjectsLater ==
  ASSUME NEW p, NEW root, NEW q, Later(p, q, root), NEW e, NEW r, Projects(p, e, r)
  PROVE  Projects(q, e, r)
BY DEF Later, KeepsEdges, Projects

LEMMA OriginalLater ==
  ASSUME NEW p, NEW root, NEW q, Later(p, q, root), NEW e, Original(p, root, e)
  PROVE  Original(q, root, e) /\ (InContext(p, root, e) => InContext(q, root, e))
<1>1. IsEdge(p, e) /\ IsEdge(p, root)
   BY DEF Later, GraphOK, Original
<1>2. /\ IsEdge(q, e) /\ Meaning(q, e) = Meaning(p, e) /\ Mentions(q, e) = Mentions(p, e)
      /\ Meaning(q, root) = Meaning(p, root)
   BY <1>1 DEF Later, KeepsEdges
<1> QED BY <1>2 DEF Original, InContext

LEMMA CallableLater ==
  ASSUME NEW p, NEW root, NEW q, Later(p, q, root), NEW level, NEW e, Callable(p, root, level, e)
  PROVE  Callable(q, root, level, e)
<1>1. OnData(p, e) => OnData(q, e)
   BY DEF OnData, Later, KeepsEdges
<1> QED BY <1>1, OriginalLater DEF Callable

LEMMA TseitinLater ==
  ASSUME NEW p, NEW root, NEW q, Later(p, q, root), NEW level, NEW tseitin,
         TseitinOK(p, root, level, tseitin)
  PROVE  TseitinOK(q, root, level, tseitin)
BY DEF TseitinOK, Later, GraphOK, KeepsEdges

LEMMA CacheLater ==
  ASSUME NEW p, NEW root, NEW q, Later(p, q, root), NEW cache, CacheOK(p, cache)
  PROVE  CacheOK(q, cache)
BY ProjectsLater DEF CacheOK

\* An original node, and its arguments.
LEMMA OriginalNode ==
  ASSUME NEW p, NEW root, GraphOK(p, root), NEW e, Original(p, root, e), is_node(e)
  PROVE  /\ e - NInput \in 1 .. Len(p.nodes) /\ e - NInput \in 1 .. root - NInput
         /\ NInput + (e - NInput) = e /\ NodeOf(p, e) = p.nodes[e - NInput]
         /\ DecisionNode(p, e - NInput) /\ is_node(root) /\ e \in Int
<1>1. /\ NInput \in Nat /\ Len(p.nodes) \in Nat
   BY Sizes DEF GraphOK
<1>2. /\ e \in Int /\ root \in Int /\ e > 0 /\ e <= root /\ is_node(root)
      /\ IABS(e) \in 1 .. (NInput + Len(p.nodes)) \cup {TAUTOLOGY}
   BY DEF Original, GraphOK, IsEdge
<1>3. IABS(e) = e
   BY <1>2 DEF IABS
<1>4. e > NInput /\ e # TAUTOLOGY
   BY <1>3 DEF is_node
<1>5. e - NInput \in 1 .. Len(p.nodes) /\ e - NInput \in 1 .. root - NInput
   BY <1>1, <1>2, <1>3, <1>4
<1>6. DecisionNode(p, e - NInput)
   BY <1>2, <1>5 DEF GraphOK
<1> QED BY <1>1, <1>2, <1>3, <1>5, <1>6 DEF NodeOf

LEMMA FrameLater ==
  ASSUME NEW p, NEW root, NEW q, Later(p, q, root), NEW level, NEW frame,
         FrameOK(p, root, level, frame)
  PROVE  /\ FrameOK(q, root, level, frame)
         /\ \A x : Awaits(p, frame, x) => Awaits(q, frame, x)
<1> DEFINE e == frame.edge
<1>1. Original(p, root, e) /\ is_node(e) /\ InContext(p, root, e) /\ frame \in Frame
   BY DEF FrameOK
<1>2. Original(q, root, e) /\ InContext(q, root, e)
   BY <1>1, OriginalLater
<1>3. NodeOf(q, e) = NodeOf(p, e) /\ (IsSum(q, e) <=> IsSum(p, e))
   BY <1>1 DEF Later, KeepsEdges, Original, IsSum
<1>4. ASSUME IsSum(p, e)
      PROVE  get_decision_variable(q, e) = get_decision_variable(p, e)
   <2>1. /\ e - NInput \in 1 .. root - NInput /\ is_node(root) /\ NInput + (e - NInput) = e
         /\ p.nodes[e - NInput].type = "SUM"
      BY <1>1, <1>4, OriginalNode DEF Later, IsSum
   <2> DEFINE i == e - NInput
   <2> HIDE DEF i, e
   <2>2. i \in 1 .. root - NInput /\ p.nodes[i].type = "SUM" /\ NInput + i = e
      BY <2>1 DEF i
   <2> QED BY <2>1, <2>2 DEF Later
<1>5. FrameOK(q, root, level, frame)
   BY <1>1, <1>2, <1>3, <1>4, ProjectsLater DEF FrameOK
<1>6. ASSUME NEW x, Awaits(p, frame, x)
      PROVE  Awaits(q, frame, x)
   <2>1. CASE IsSum(p, e) /\ Len(frame.results) = 2
      <3>1. \A k \in {1, 2} : IsEdge(p, frame.results[k])
         <4>1. 1 \in 1 .. Len(frame.results) /\ 2 \in 1 .. Len(frame.results)
            BY <2>1
         <4> QED BY <4>1 DEF FrameOK, Projects
      <3>2. Overlap(p, frame.results[1], frame.results[2], x)
         BY <1>6, <2>1 DEF Awaits
      <3>3. Overlap(q, frame.results[1], frame.results[2], x)
         BY <3>1, <3>2 DEF Overlap, OnData, Later, KeepsEdges
      <3> QED BY <1>3, <2>1, <3>3 DEF Awaits
   <2>2. CASE ~(IsSum(p, e) /\ Len(frame.results) = 2)
      BY <1>3, <1>6, <2>2 DEF Awaits
   <2> QED BY <2>1, <2>2
<1> QED BY <1>5, <1>6

LEMMA StackLater ==
  ASSUME NEW p, NEW root, NEW q, Later(p, q, root), NEW level, NEW fs, NEW x,
         StackOK(p, root, level, fs, x)
  PROVE  StackOK(q, root, level, fs, x)
BY FrameLater DEF StackOK

-----------------------------------------------------------------------------
(* The stack *)

LEMMA Pushing ==
  ASSUME NEW p, NEW root, NEW level, NEW fs, NEW x, StackOK(p, root, level, fs, x),
         NEW frame, FrameOK(p, root, level, frame), frame.edge = x,
         NEW y, Awaits(p, frame, y)
  PROVE  StackOK(p, root, level, Append(fs, frame), y)
<1> DEFINE gs == Append(fs, frame)
           n == Len(fs)
<1>1. fs \in Seq(Frame) /\ n \in Nat /\ frame \in Frame
   BY LenProperties DEF StackOK, FrameOK
<1>2. /\ gs \in Seq(Frame) /\ Len(gs) = n + 1 /\ gs[n + 1] = frame
      /\ \A i \in 1 .. n : gs[i] = fs[i]
   BY <1>1, AppendProperties
<1> HIDE DEF gs
<1>3. ASSUME NEW i \in 1 .. Len(gs)
      PROVE  FrameOK(p, root, level, gs[i]) /\ Awaits(p, gs[i], Awaited(gs, y, i))
   <2>1. CASE i = n + 1
      BY <1>2, <2>1 DEF Awaited
   <2>2. CASE i \in 1 .. n
      <3>1. gs[i] = fs[i] /\ FrameOK(p, root, level, fs[i]) /\ Awaits(p, fs[i], Awaited(fs, x, i))
         BY <1>2, <2>2 DEF StackOK
      <3>2. Awaited(gs, y, i) = gs[i + 1].edge
         BY <1>1, <1>2, <2>2 DEF Awaited
      <3>3. gs[i + 1].edge = Awaited(fs, x, i)
         <4>1. CASE i = n
            BY <1>2, <4>1 DEF Awaited
         <4>2. CASE i # n
            <5>1. i + 1 \in 1 .. n
               BY <1>1, <2>2, <4>2
            <5> QED BY <1>2, <4>2, <5>1 DEF Awaited
         <4> QED BY <4>1, <4>2
      <3> QED BY <3>1, <3>2, <3>3
   <2> QED BY <1>1, <1>2, <2>1, <2>2
<1>4. root = gs[1].edge /\ gs # << >>
   <2>1. gs # << >>
      BY <1>1, <1>2, EmptySeq
   <2>2. CASE fs = << >>
      <3>1. n = 0 /\ root = x
         BY <2>2, EmptySeq DEF StackOK
      <3> QED BY <1>2, <2>1, <3>1
   <2>3. CASE fs # << >>
      <3>1. 1 \in 1 .. n /\ root = fs[1].edge
         BY <1>1, <2>3, EmptySeq DEF StackOK
      <3> QED BY <1>2, <2>1, <3>1
   <2> QED BY <2>2, <2>3
<1> QED BY <1>2, <1>3, <1>4 DEF StackOK, gs

LEMMA TopFrame ==
  ASSUME NEW p, NEW root, NEW level, NEW fs, NEW x, StackOK(p, root, level, fs, x), fs # << >>
  PROVE  /\ Len(fs) \in 1 .. Len(fs) /\ Len(fs) \in Nat
         /\ FrameOK(p, root, level, fs[Len(fs)]) /\ Awaits(p, fs[Len(fs)], x)
<1>1. fs \in Seq(Frame)
   BY DEF StackOK
<1>2. Len(fs) \in Nat /\ Len(fs) # 0
   BY <1>1, LenProperties, EmptySeq
<1>3. Len(fs) \in 1 .. Len(fs)
   BY <1>2
<1> QED BY <1>2, <1>3 DEF StackOK, Awaited

LEMMA Popping ==
  ASSUME NEW p, NEW root, NEW level, NEW fs, NEW x, StackOK(p, root, level, fs, x), fs # << >>
  PROVE  StackOK(p, root, level, SubSeq(fs, 1, Len(fs) - 1), fs[Len(fs)].edge)
<1> DEFINE n == Len(fs) - 1
           gs == SubSeq(fs, 1, n)
           y == fs[Len(fs)].edge
<1>1. fs \in Seq(Frame) /\ n \in Nat /\ Len(fs) = n + 1
   BY TopFrame DEF StackOK
<1>2. gs \in Seq(Frame) /\ Len(gs) = n /\ \A i \in 1 .. n : gs[i] = fs[i]
   BY <1>1, SubSeqProperties
<1> HIDE DEF gs, n
<1>3. ASSUME NEW i \in 1 .. Len(gs)
      PROVE  FrameOK(p, root, level, gs[i]) /\ Awaits(p, gs[i], Awaited(gs, y, i))
   <2>1. i \in 1 .. Len(fs) /\ i # Len(fs) /\ gs[i] = fs[i]
      BY <1>1, <1>2
   <2>2. FrameOK(p, root, level, fs[i]) /\ Awaits(p, fs[i], fs[i + 1].edge)
      BY <2>1 DEF StackOK, Awaited
   <2>3. Awaited(gs, y, i) = fs[i + 1].edge
      <3>1. CASE i = n
         BY <1>1, <1>2, <3>1 DEF Awaited
      <3>2. CASE i # n
         <4>1. i + 1 \in 1 .. n
            BY <1>1, <1>2, <3>2
         <4> QED BY <1>2, <3>2, <4>1 DEF Awaited
      <3> QED BY <3>1, <3>2
   <2> QED BY <2>1, <2>2, <2>3
<1>4. root = IF gs = << >> THEN y ELSE gs[1].edge
   <2>1. root = fs[1].edge
      BY DEF StackOK
   <2>2. CASE gs = << >>
      <3>1. Len(fs) = 1
         BY <1>1, <1>2, <2>2, EmptySeq
      <3> QED BY <2>1, <2>2, <3>1
   <2>3. CASE gs # << >>
      <3>1. 1 \in 1 .. n
         BY <1>1, <1>2, <2>3, EmptySeq
      <3> QED BY <1>2, <2>1, <2>3, <3>1
   <2> QED BY <2>2, <2>3
<1> QED BY <1>2, <1>3, <1>4 DEF StackOK, gs, n

LEMMA Replacing ==
  ASSUME NEW p, NEW root, NEW level, NEW fs, NEW x, StackOK(p, root, level, fs, x), fs # << >>,
         NEW frame, FrameOK(p, root, level, frame), frame.edge = fs[Len(fs)].edge,
         NEW y, Awaits(p, frame, y)
  PROVE  StackOK(p, root, level, [fs EXCEPT ![Len(fs)] = frame], y)
<1> DEFINE n == Len(fs)
           gs == [fs EXCEPT ![n] = frame]
<1>1. fs \in Seq(Frame) /\ n \in Nat /\ n \in 1 .. n /\ frame \in Frame
   BY TopFrame DEF StackOK, FrameOK
<1>2. fs \in [1 .. n -> Frame]
   BY <1>1, LenProperties
<1>3. gs \in [1 .. n -> Frame] /\ gs[n] = frame /\ \A i \in 1 .. n : i # n => gs[i] = fs[i]
   BY <1>1, <1>2
<1> HIDE DEF gs
<1>4. gs \in Seq(Frame) /\ Len(gs) = n
   BY <1>1, <1>3, FunctionIsSeq
<1>5. \A i \in 1 .. n : gs[i].edge = fs[i].edge
   BY <1>3
<1> HIDE DEF n
<1>6. ASSUME NEW i \in 1 .. Len(gs)
      PROVE  FrameOK(p, root, level, gs[i]) /\ Awaits(p, gs[i], Awaited(gs, y, i))
   <2>1. CASE i = n
      BY <1>3, <1>4, <2>1 DEF Awaited
   <2>2. CASE i # n
      <3>1. i \in 1 .. n /\ i + 1 \in 1 .. n
         BY <1>1, <1>4, <2>2
      <3>2. FrameOK(p, root, level, fs[i]) /\ Awaits(p, fs[i], fs[i + 1].edge)
         BY <2>2, <3>1 DEF StackOK, Awaited, n
      <3>3. gs[i] = fs[i] /\ Awaited(gs, y, i) = fs[i + 1].edge
         BY <1>3, <1>4, <1>5, <2>2, <3>1 DEF Awaited
      <3> QED BY <3>2, <3>3
   <2> QED BY <2>1, <2>2
<1>7. gs # << >> /\ root = gs[1].edge
   <2>1. gs # << >> /\ 1 \in 1 .. n
      BY <1>1, <1>4, EmptySeq
   <2>2. root = fs[1].edge
      BY DEF StackOK
   <2> QED BY <1>5, <2>1, <2>2
<1> QED BY <1>4, <1>6, <1>7 DEF StackOK, gs, n

-----------------------------------------------------------------------------
(* The arguments of the nodes that are traversed *)

Traversed(p, root, e) == GraphOK(p, root) /\ Original(p, root, e) /\ is_node(e)

ArgumentFacts(p, root, e, x) ==
    /\ Original(p, root, x) /\ IsEdge(p, x) /\ IABS(x) # TAUTOLOGY
    /\ Mentions(p, x) \subseteq Mentions(p, e)
    /\ Meaning(p, x) # {}

NodeFacts(p, root, e) ==
    /\ WellFormed(p) /\ IsEdge(p, e)
    /\ NodeOf(p, e).args \in Seq(Int) /\ NodeOf(p, e).type \in PogType
    /\ Len(NodeOf(p, e).args) \in Nat /\ Len(NodeOf(p, e).args) >= 2
    /\ Meaning(p, e) = Joined(p, NodeOf(p, e).type, ToSet(NodeOf(p, e).args))
    /\ Meaning(p, e) # {}
    /\ Independent(p, NodeOf(p, e))
    /\ \A k \in 1 .. Len(NodeOf(p, e).args) : ArgumentFacts(p, root, e, NodeOf(p, e).args[k])
    /\ \A x \in ToSet(NodeOf(p, e).args) : ArgumentFacts(p, root, e, x)

\* A node D4 made has a model.
LEMMA NodeHasModel ==
  ASSUME NEW p, NEW root, NEW e, Traversed(p, root, e)
  PROVE  Meaning(p, e) # {}
<1>1. DecisionNode(p, e - NInput) /\ e \in Int /\ e > 0
   BY OriginalNode DEF Traversed, Original
<1>2. AllModels(p)[e - NInput] # {} /\ IABS(e) = e
   BY <1>1 DEF DecisionNode, IABS
<1>3. Meaning(p, e) = AllModels(p)[e - NInput]
   BY <1>1, <1>2, EdgeCases DEF Meaning, Traversed
<1> QED BY <1>2, <1>3

LEMMA LiteralHasModel ==
  ASSUME NEW p, WellFormed(p), NEW e, IsEdge(p, e), ~is_node(e), IABS(e) # TAUTOLOGY
  PROVE  Meaning(p, e) # {}
<1>1. /\ IABS(e) \in InputVariables /\ e \in Int
      /\ Meaning(p, e) = { a \in Assignments : Holds(a, e) }
   BY LiteralMeaning DEF IsEdge
<1>2. CASE e > 0
   <2>1. {e} \in Assignments /\ Holds({e}, e)
      BY <1>1, <1>2 DEF Assignments, Holds, IABS
   <2> QED BY <1>1, <2>1
<1>3. CASE ~(e > 0)
   <2>1. {} \in Assignments /\ Holds({}, e)
      BY <1>3 DEF Assignments, Holds
   <2> QED BY <1>1, <2>1
<1> QED BY <1>2, <1>3

LEMMA TraversedNode ==
  ASSUME NEW p, NEW root, NEW e, Traversed(p, root, e)
  PROVE  NodeFacts(p, root, e)
<1> DEFINE i == e - NInput
           node == NodeOf(p, e)
<1>1. WellFormed(p) /\ Countable(p) /\ IsEdge(p, e) /\ e > 0
   BY DEF Traversed, GraphOK, Original
<1>2. /\ i \in 1 .. Len(p.nodes) /\ NInput + i = e /\ node = p.nodes[i]
      /\ DecisionNode(p, i) /\ e \in Int /\ is_node(root)
   BY OriginalNode DEF Traversed
<1> HIDE DEF i, node
<1>3. ArgumentsOf(p, i)
   BY <1>1, <1>2, NodeArguments
<1>4. /\ node \in Node /\ node.args \in Seq(Int) /\ node.type \in PogType
      /\ \A x \in ToSet(node.args) :
           /\ IsEdge(p, x) /\ IABS(x) <= NInput + i - 1 /\ IABS(x) # TAUTOLOGY
           /\ Mentions(p, x) \subseteq Mentions(p, e)
      /\ Meaning(p, e) = Joined(p, node.type, ToSet(node.args))
   BY <1>2, <1>3, Zenon DEF ArgumentsOf
<1>5. Len(node.args) \in Nat
   BY <1>4, LenProperties
<1>6. Len(node.args) >= 2 /\ \A x \in ToSet(node.args) : is_node(x) => x > 0
   BY <1>2 DEF DecisionNode
<1>7. Independent(p, node)
   BY <1>1, <1>2, CountableNodes, Sizes
<1>8. ASSUME NEW x \in ToSet(node.args)
      PROVE  ArgumentFacts(p, root, e, x)
   <2>1. /\ IsEdge(p, x) /\ IABS(x) # TAUTOLOGY /\ Mentions(p, x) \subseteq Mentions(p, e)
         /\ x \in Int /\ IABS(x) <= NInput + i - 1
      BY <1>4 DEF IsEdge
   <2>2. is_node(x) => x > 0 /\ x <= root
      <3>1. e <= root /\ root \in Int /\ i \in Int /\ NInput \in Nat
         BY <1>2, NInputAssumption DEF Traversed, Original, GraphOK, IsEdge
      <3> QED BY <1>2, <1>6, <2>1, <3>1 DEF IABS
   <2>3. Original(p, root, x)
      BY <1>2, <2>1, <2>2 DEF Original
   <2>4. Meaning(p, x) # {}
      BY <1>1, <2>1, <2>3, NodeHasModel, LiteralHasModel DEF Traversed
   <2> QED BY <2>1, <2>3, <2>4 DEF ArgumentFacts
<1>9. \A k \in 1 .. Len(node.args) : node.args[k] \in ToSet(node.args)
   BY <1>4, ToSetSeq
<1>10. Meaning(p, e) # {}
   BY NodeHasModel
<1> QED BY <1>1, <1>4, <1>5, <1>6, <1>7, <1>8, <1>9, <1>10 DEF NodeFacts, node

\* The arguments can be completed to models of the root as well.
LEMMA SumContext ==
  ASSUME NEW p, NEW root, NEW e, Traversed(p, root, e), NodeOf(p, e).type = "SUM",
         InContext(p, root, e), NEW x \in ToSet(NodeOf(p, e).args)
  PROVE  InContext(p, root, x)
<1>1. /\ Mentions(p, x) \subseteq Mentions(p, e)
      /\ Meaning(p, e) = Joined(p, "SUM", ToSet(NodeOf(p, e).args))
      /\ Meaning(p, x) \subseteq Assignments
   BY TraversedNode, EdgeOver DEF NodeFacts, ArgumentFacts
<1>2. Meaning(p, x) \subseteq Meaning(p, e)
   BY <1>1 DEF Joined
<1>3. PICK c \in Assignments : \A b \in Meaning(p, e) :
         b \ Mentions(p, e) = c \ Mentions(p, e) => b \in Meaning(p, root)
   BY DEF InContext
<1>4. ASSUME NEW b \in Meaning(p, x), b \ Mentions(p, x) = c \ Mentions(p, x)
      PROVE  b \in Meaning(p, root)
   <2>1. b \ Mentions(p, e) = c \ Mentions(p, e)
      BY <1>1, <1>4
   <2> QED BY <1>2, <1>3, <2>1
<1> QED BY <1>4 DEF InContext

LEMMA ProductContext ==
  ASSUME NEW p, NEW root, NEW e, Traversed(p, root, e), NodeOf(p, e).type # "SUM",
         InContext(p, root, e), NEW k \in 1 .. Len(NodeOf(p, e).args)
  PROVE  InContext(p, root, NodeOf(p, e).args[k])
<1> DEFINE args == NodeOf(p, e).args
           x == args[k]
           M == Mentions(p, e)
<1>1. NodeFacts(p, root, e)
   BY TraversedNode
<1>2. /\ WellFormed(p) /\ IsEdge(p, e) /\ args \in Seq(Int) /\ Len(args) \in Nat
      /\ Meaning(p, e) = Joined(p, NodeOf(p, e).type, ToSet(args)) /\ Meaning(p, e) # {}
      /\ Independent(p, NodeOf(p, e))
      /\ \A j \in 1 .. Len(args) : ArgumentFacts(p, root, e, args[j])
   BY <1>1 DEF NodeFacts
<1>3. ToSet(args) = { args[j] : j \in 1 .. Len(args) } /\ DOMAIN args = 1 .. Len(args)
   BY <1>2, ToSetSeq DEF ToSet
<1>4. PICK c \in Assignments : \A b \in Meaning(p, e) : b \ M = c \ M => b \in Meaning(p, root)
   BY DEF InContext
<1>5. PICK m : m \in Meaning(p, e)
   BY <1>2
<1> DEFINE d == Mix(M, m, c)
<1>6. d \in Assignments /\ d \cap M = m \cap M /\ d \ M = c \ M /\ m \in Assignments
   <2>1. m \in Assignments
      BY <1>2, <1>5, EdgeOver
   <2> QED BY <2>1 DEF Mix, Assignments
<1> HIDE DEF d
<1>7. d \in Meaning(p, e)
   BY <1>2, <1>5, <1>6, Dependence DEF Agree
<1>8. \A j \in 1 .. Len(args) : d \in Meaning(p, args[j])
   BY <1>2, <1>3, <1>7 DEF Joined
<1>9. \A j \in 1 .. Len(args) : j # k => Mentions(p, args[j]) \cap Mentions(p, x) = {}
   <2>1. ASSUME NEW j \in 1 .. Len(args), j # k
         PROVE  Mentions(p, args[j]) \cap Mentions(p, x) = {}
      <3>1. CASE j < k
         BY <1>2, <1>3, <3>1 DEF Independent, Separate
      <3>2. CASE k < j
         <4>1. Separate(p, NodeOf(p, e).type, x, args[j])
            BY <1>2, <1>3, <3>2 DEF Independent
         <4> QED BY <4>1 DEF Separate
      <3> QED BY <1>2, <2>1, <3>1, <3>2
   <2> QED BY <2>1
<1>10. ASSUME NEW b \in Meaning(p, x), b \ Mentions(p, x) = d \ Mentions(p, x)
       PROVE  b \in Meaning(p, root)
   <2>1. IsEdge(p, x) /\ Mentions(p, x) \subseteq M
      BY <1>2 DEF ArgumentFacts
   <2>2. b \in Assignments
      BY <1>2, <2>1, EdgeOver
   <2>3. ASSUME NEW j \in 1 .. Len(args)
         PROVE  b \in Meaning(p, args[j])
      <3>1. CASE j = k
         BY <3>1
      <3>2. CASE j # k
         <4>1. b \cap Mentions(p, args[j]) = d \cap Mentions(p, args[j])
            BY <1>9, <1>10, <3>2
         <4>2. Agree(p, args[j])
            BY <1>2, Dependence DEF ArgumentFacts
         <4> QED BY <1>6, <1>8, <2>2, <4>1, <4>2 DEF Agree
      <3> QED BY <3>1, <3>2
   <2>4. b \in Meaning(p, e)
      BY <1>2, <1>3, <2>2, <2>3 DEF Joined
   <2>5. b \ M = c \ M
      BY <1>6, <1>10, <2>1
   <2> QED BY <1>4, <2>4, <2>5
<1> QED BY <1>6, <1>10 DEF InContext

-----------------------------------------------------------------------------
(* Edges that are recognised *)

\* Input variables are no constant.
LEMMA NoConstant ==
  ASSUME NEW p, WellFormed(p), NEW e, IsEdge(p, e), NEW v \in InputVariables, v \in Mentions(p, e)
  PROVE  IABS(e) # TAUTOLOGY
<1> SUFFICES ASSUME IABS(e) = TAUTOLOGY
             PROVE  FALSE
   OBVIOUS
<1>1. ~is_node(e)
   BY DEF is_node
<1>2. v = TAUTOLOGY
   BY <1>1, EdgeCases DEF Mentions
<1>3. v \in 1 .. NInput /\ NInput \in Nat /\ NInput + Len(p.nodes) < TAUTOLOGY /\ Len(p.nodes) \in Nat
   BY Sizes DEF InputVariables
<1> QED BY <1>2, <1>3, Sizes

\* What an edge that is not constant mentions.
LEMMA MentionsInputs ==
  ASSUME NEW p, WellFormed(p), NEW e, IsEdge(p, e), IABS(e) # TAUTOLOGY
  PROVE  Mentions(p, e) \subseteq InputVariables
BY Flags

LEMMA DataProjects ==
  ASSUME NEW p, WellFormed(p), NEW e, OnData(p, e)
  PROVE  Projects(p, e, e)
<1>1. IsEdge(p, e)
   BY DEF OnData
<1> QED BY <1>1, EdgeOver DEF Projects, OnData

\* A function with a model that says nothing of the data variables.
LEMMA FreeProjects ==
  ASSUME NEW p, WellFormed(p), NEW e, IsEdge(p, e), Meaning(p, e) # {},
         Mentions(p, e) \cap DataVariables = {}
  PROVE  Projects(p, e, TAUTOLOGY)
<1> DEFINE M == Mentions(p, e)
<1>1. PICK m : m \in Meaning(p, e)
   OBVIOUS
<1>2. m \in Assignments
   BY <1>1, EdgeOver
<1>3. ASSUME NEW a \in Assignments
      PROVE  a \in Shadow(Meaning(p, e), DataVariables)
   <2> DEFINE b == Mix(M, m, a)
   <2>1. b \in Assignments /\ b \cap M = m \cap M
      BY <1>2 DEF Mix, Assignments
   <2>2. b \cap DataVariables = a \cap DataVariables
      BY DEF Mix
   <2> HIDE DEF b
   <2>3. b \in Meaning(p, e)
      BY <1>1, <1>2, <2>1, Dependence DEF Agree
   <2> QED BY <2>2, <2>3, ShadowFacts
<1>4. Shadow(Meaning(p, e), DataVariables) = Assignments
   BY <1>3, ShadowFacts
<1> QED BY <1>4, Constants DEF Projects

LEMMA LeafProjects ==
  ASSUME GraphInv, NEW e, IsEdge(pog, e), ~is_node(e)
  PROVE  Projects(pog, e, leaf_result(e))
<1>1. WellFormed(pog) /\ pog.data_variables = DataVariables
   BY DEF GraphInv, GraphOK
<1>2. CASE IABS(e) = TAUTOLOGY
   <2>1. OnData(pog, e) /\ leaf_result(e) = e
      BY <1>2 DEF OnData, leaf_result
   <2> QED BY <1>1, <2>1, DataProjects
<1>3. CASE IABS(e) # TAUTOLOGY
   <2>1. Mentions(pog, e) = {IABS(e)}
      BY <1>1, <1>3, LiteralMeaning
   <2>2. CASE IABS(e) \in DataVariables
      <3>1. OnData(pog, e) /\ leaf_result(e) = e
         BY <1>1, <2>1, <2>2 DEF OnData, leaf_result
      <3> QED BY <1>1, <3>1, DataProjects
   <2>3. CASE IABS(e) \notin DataVariables
      <3>1. leaf_result(e) = TAUTOLOGY /\ Mentions(pog, e) \cap DataVariables = {}
         BY <1>1, <1>3, <2>1, <2>3 DEF leaf_result
      <3>2. Meaning(pog, e) # {}
         BY <1>1, <1>3, LiteralHasModel
      <3> QED BY <1>1, <3>1, <3>2, FreeProjects
   <2> QED BY <2>2, <2>3
<1> QED BY <1>2, <1>3

\* What is known of the projection of an edge.
LEMMA ResultFacts ==
  ASSUME NEW p, WellFormed(p), NEW e, NEW r, Projects(p, e, r)
  PROVE  /\ OnData(p, r)
         /\ Meaning(p, e) # {} => r # CONFLICT /\ Meaning(p, r) # {}
         /\ \A v \in InputVariables \cap Mentions(p, r) : v \in DataVariables /\ v \in Mentions(p, e)
<1>1. IsEdge(p, e) /\ IsEdge(p, r) /\ Meaning(p, r) = Shadow(Meaning(p, e), DataVariables)
   BY DEF Projects
<1>2. OnData(p, r)
   BY DEF Projects, OnData
<1>3. ASSUME Meaning(p, e) # {}
      PROVE  r # CONFLICT /\ Meaning(p, r) # {}
   <2>1. PICK m : m \in Meaning(p, e)
      BY <1>3
   <2>2. m \in Assignments
      BY <1>1, <2>1, EdgeOver
   <2>3. m \in Meaning(p, r)
      BY <1>1, <2>1, <2>2, ShadowFacts
   <2> QED BY <2>3, Constants
<1>4. ASSUME NEW v \in InputVariables \cap Mentions(p, r)
      PROVE  v \in DataVariables /\ v \in Mentions(p, e)
   <2>1. IABS(r) # TAUTOLOGY
      BY <1>1, NoConstant
   <2> QED BY <2>1 DEF Projects
<1> QED BY <1>2, <1>3, <1>4

-----------------------------------------------------------------------------
(* Products *)

\* The arguments of a product share no variable.
LEMMA ProductSeparate ==
  ASSUME NEW p, NEW root, NEW e, Traversed(p, root, e), NodeOf(p, e).type # "SUM"
  PROVE  \A j, k \in 1 .. Len(NodeOf(p, e).args) : j # k =>
            Mentions(p, NodeOf(p, e).args[j]) \cap Mentions(p, NodeOf(p, e).args[k]) = {}
<1> DEFINE args == NodeOf(p, e).args
<1>1. args \in Seq(Int) /\ Independent(p, NodeOf(p, e)) /\ Len(args) \in Nat
   BY TraversedNode DEF NodeFacts
<1>2. DOMAIN args = 1 .. Len(args)
   BY <1>1
<1>3. \A j, k \in 1 .. Len(args) : j < k => Separate(p, NodeOf(p, e).type, args[j], args[k])
   BY <1>2, <1>1 DEF Independent
<1>4. \A j, k \in 1 .. Len(args) : j < k => Mentions(p, args[j]) \cap Mentions(p, args[k]) = {}
   BY <1>3 DEF Separate
<1>5. ASSUME NEW j \in 1 .. Len(args), NEW k \in 1 .. Len(args), j # k
      PROVE  Mentions(p, args[j]) \cap Mentions(p, args[k]) = {}
   <2>1. j < k \/ k < j
      BY <1>1, <1>5
   <2> QED BY <1>4, <2>1
<1> QED BY <1>5

\* Models of all arguments that agree on the data variables make one model.
LEMMA Gluing ==
  ASSUME NEW p, NEW root, NEW e, Traversed(p, root, e), NodeOf(p, e).type # "SUM",
         NEW a \in Assignments,
         \A k \in 1 .. Len(NodeOf(p, e).args) :
            a \in Shadow(Meaning(p, NodeOf(p, e).args[k]), DataVariables)
  PROVE  a \in Shadow(Meaning(p, e), DataVariables)
<1> DEFINE args == NodeOf(p, e).args
           n == Len(args)
           Good(k, b) == b \in Meaning(p, args[k]) /\ a \cap DataVariables = b \cap DataVariables
           part == [k \in 1 .. n |-> CHOOSE b : Good(k, b)]
           all == UNION { Mentions(p, args[k]) : k \in 1 .. n }
           glued == UNION { part[k] \cap Mentions(p, args[k]) : k \in 1 .. n }
           whole == (a \ all) \cup glued
<1>1. /\ args \in Seq(Int) /\ WellFormed(p) /\ n \in Nat
      /\ Meaning(p, e) = Joined(p, NodeOf(p, e).type, ToSet(args))
      /\ \A k \in 1 .. n : IsEdge(p, args[k])
   BY TraversedNode DEF NodeFacts, ArgumentFacts
<1>2. ToSet(args) = { args[k] : k \in 1 .. n }
   BY <1>1 DEF ToSet
<1>3. \A k \in 1 .. n : \E b : Good(k, b)
   BY ShadowFacts, SMTT(30)
<1>4. \A k \in 1 .. n : Good(k, part[k])
   BY <1>3
<1> HIDE DEF part
<1>5. \A k \in 1 .. n : part[k] \in Assignments
   BY <1>1, <1>4, EdgeOver
<1>6. \A j, k \in 1 .. n : j # k => Mentions(p, args[j]) \cap Mentions(p, args[k]) = {}
   BY ProductSeparate
<1>7. whole \in Assignments
   BY <1>5 DEF Assignments
<1>8. ASSUME NEW k \in 1 .. n
      PROVE  whole \in Meaning(p, args[k])
   <2>1. \A v : v \in whole \cap Mentions(p, args[k]) => v \in part[k]
      <3> SUFFICES ASSUME NEW v, v \in whole, v \in Mentions(p, args[k])
                   PROVE  v \in part[k]
         OBVIOUS
      <3>1. v \in all
         OBVIOUS
      <3>2. PICK j \in 1 .. n : v \in part[j] \cap Mentions(p, args[j])
         BY <3>1
      <3> QED BY <1>6, <3>2
   <2>2. whole \cap Mentions(p, args[k]) = part[k] \cap Mentions(p, args[k])
      BY <2>1
   <2> HIDE DEF whole
   <2>3. Agree(p, args[k])
      BY <1>1, Dependence
   <2> QED BY <1>4, <1>5, <1>7, <2>2, <2>3 DEF Agree
<1>9. whole \cap DataVariables = a \cap DataVariables
   <2>1. \A k \in 1 .. n : part[k] \cap DataVariables = a \cap DataVariables
      BY <1>4
   <2>2. ASSUME NEW v \in whole \cap DataVariables
         PROVE  v \in a
      <3>1. CASE v \in a \ all
         BY <3>1
      <3>2. CASE v \in glued
         <4>1. PICK j \in 1 .. n : v \in part[j]
            BY <3>2
         <4> QED BY <2>1, <4>1
      <3> QED BY <3>1, <3>2
   <2>3. ASSUME NEW v \in a \cap DataVariables
         PROVE  v \in whole
      <3>1. CASE v \in all
         <4>1. PICK j \in 1 .. n : v \in Mentions(p, args[j])
            BY <3>1
         <4>2. v \in part[j]
            BY <2>1
         <4> QED BY <4>1, <4>2
      <3> QED BY <3>1
   <2> QED BY <2>2, <2>3
<1> HIDE DEF whole
<1>10. whole \in Meaning(p, e)
   BY <1>1, <1>2, <1>7, <1>8 DEF Joined
<1> QED BY <1>9, <1>10, ShadowFacts

\* An activation ends: the graph has grown, and the result is the projection.
Outcome(p, e, q, r) ==
    /\ WellFormed(q) /\ Countable(q) /\ Grown(p, q)
    /\ Projects(q, e, r)

\* The results of the arguments of a product.
ResultsOf(p, e, rs) ==
    /\ rs \in Seq(Int) /\ Len(rs) = Len(NodeOf(p, e).args)
    /\ \A k \in 1 .. Len(rs) : Projects(p, NodeOf(p, e).args[k], rs[k])

LEMMA ProductProjects ==
  ASSUME NEW p, NEW root, NEW e, Traversed(p, root, e), NodeOf(p, e).type # "SUM",
         NEW rs, ResultsOf(p, e, rs), Fits(MakeNode(p, "PRODUCT", rs).pog)
  PROVE  Outcome(p, e, MakeNode(p, "PRODUCT", rs).pog, MakeNode(p, "PRODUCT", rs).edge)
<1> DEFINE args == NodeOf(p, e).args
           n == Len(args)
           made == MakeNode(p, "PRODUCT", rs)
           q == made.pog
           r == made.edge
<1>1. /\ args \in Seq(Int) /\ WellFormed(p) /\ Countable(p) /\ IsEdge(p, e) /\ n \in Nat
      /\ Meaning(p, e) = Joined(p, NodeOf(p, e).type, ToSet(args))
      /\ \A k \in 1 .. n : IsEdge(p, args[k]) /\ Mentions(p, args[k]) \subseteq Mentions(p, e)
   BY TraversedNode DEF NodeFacts, ArgumentFacts, Traversed, GraphOK
<1>2. /\ rs \in Seq(Int) /\ Len(rs) = n
      /\ \A k \in 1 .. n : Projects(p, args[k], rs[k])
   BY DEF ResultsOf
<1>3. Edges(p, rs)
   BY <1>2 DEF Edges, Projects
<1>4. AllCompatible(p, "PRODUCT", rs)
   <2>1. ASSUME NEW i \in 1 .. n, NEW j \in 1 .. n, i < j
         PROVE  Compatible(p, "PRODUCT", rs[i], rs[j])
      <3>0. i # j
         BY <1>1, <2>1
      <3>1. Mentions(p, args[i]) \cap Mentions(p, args[j]) = {}
         BY <3>0, ProductSeparate
      <3>2. /\ IABS(rs[i]) # TAUTOLOGY => Mentions(p, rs[i]) \subseteq Mentions(p, args[i])
            /\ IABS(rs[j]) # TAUTOLOGY => Mentions(p, rs[j]) \subseteq Mentions(p, args[j])
         BY <1>2 DEF Projects
      <3>3. \/ IABS(rs[i]) = TAUTOLOGY \/ IABS(rs[j]) = TAUTOLOGY
            \/ Mentions(p, rs[i]) \cap Mentions(p, rs[j]) = {}
         BY <3>1, <3>2
      <3>4. "PRODUCT" # "SUM"
         OBVIOUS
      <3> QED BY <3>3, <3>4, Zenon DEF Compatible
   <2> QED BY <1>2, <2>1 DEF AllCompatible
<1> HIDE DEF made
<1>5. /\ Made(p, Joined(p, "PRODUCT", ToSet(rs)), AllMentioned(p, ToSet(rs)), made)
      /\ Countable(q)
   BY <1>1, <1>3, <1>4, MakeNodeIsRight DEF PogType, made
<1>6. ToSet(rs) = { rs[k] : k \in 1 .. n } /\ ToSet(args) = { args[k] : k \in 1 .. n }
   <2>1. DOMAIN rs = 1 .. n /\ DOMAIN args = 1 .. n
      BY <1>1, <1>2
   <2> HIDE DEF args, n
   <2> QED BY <2>1 DEF ToSet
<1>7. Joined(p, "PRODUCT", ToSet(rs)) = Shadow(Meaning(p, e), DataVariables)
   <2>1. \A k \in 1 .. n : Meaning(p, rs[k]) = Shadow(Meaning(p, args[k]), DataVariables)
      BY <1>2 DEF Projects
   <2>2. \A a : a \in Joined(p, "PRODUCT", ToSet(rs)) <=>
                  a \in Assignments /\ \A k \in 1 .. n : a \in Meaning(p, rs[k])
      BY <1>6 DEF Joined
   <2>3. ASSUME NEW a \in Joined(p, "PRODUCT", ToSet(rs))
         PROVE  a \in Shadow(Meaning(p, e), DataVariables)
      BY <2>1, <2>2, Gluing
   <2>4. ASSUME NEW a \in Shadow(Meaning(p, e), DataVariables)
         PROVE  a \in Joined(p, "PRODUCT", ToSet(rs))
      <3>1. a \in Assignments /\ \E b \in Meaning(p, e) : a \cap DataVariables = b \cap DataVariables
         BY ShadowFacts
      <3>2. PICK b \in Meaning(p, e) : a \cap DataVariables = b \cap DataVariables
         BY <3>1
      <3>3. \A k \in 1 .. n : b \in Meaning(p, args[k])
         BY <1>1, <1>6 DEF Joined
      <3>4. \A k \in 1 .. n : a \in Shadow(Meaning(p, args[k]), DataVariables)
         BY <3>1, <3>2, <3>3, ShadowFacts
      <3> QED BY <2>1, <2>2, <3>1, <3>4
   <2> QED BY <2>3, <2>4
<1>8. /\ WellFormed(q) /\ Grown(p, q) /\ IsEdge(q, r)
      /\ Meaning(q, r) = Shadow(Meaning(p, e), DataVariables)
      /\ IABS(r) = TAUTOLOGY \/ Mentions(q, r) \subseteq AllMentioned(p, ToSet(rs))
   BY <1>5, <1>7 DEF Made
<1>9. ASSUME IABS(r) # TAUTOLOGY, NEW v \in Mentions(q, r)
      PROVE  v \in DataVariables /\ v \in Mentions(p, e)
   <2>1. v \in InputVariables
      BY <1>8, <1>9, MentionsInputs
   <2>2. PICK k \in 1 .. n : v \in Mentions(p, rs[k])
      BY <1>6, <1>8, <1>9 DEF AllMentioned
   <2>3. Projects(p, args[k], rs[k])
      BY <1>2
   <2> QED BY <1>1, <2>1, <2>2, <2>3, ResultFacts
<1>10. KeepsEdges(p, q)
   BY <1>1, <1>8, GrownEdges, Sizes
<1>11. Projects(q, e, r)
   BY <1>1, <1>8, <1>9, <1>10 DEF Projects, KeepsEdges
<1> QED BY <1>5, <1>8, <1>11 DEF Outcome, made

-----------------------------------------------------------------------------
(* Sums decide on a variable *)

ArgumentLitsFacts(p, x) ==
    /\ ArgumentLits(p, x) \in Seq(Int)
    /\ \A l \in ToSet(ArgumentLits(p, x)) :
         /\ IsEdge(p, l) /\ IABS(l) # TAUTOLOGY
         /\ Meaning(p, x) \subseteq Meaning(p, l)
         /\ Mentions(p, l) \subseteq Mentions(p, x)

\* The literals of a product are implied by it.
LEMMA LiteralsOfArgument ==
  ASSUME NEW p, NEW root, GraphOK(p, root), NEW x, Original(p, root, x), IABS(x) # TAUTOLOGY,
         is_node(x) => NodeOf(p, x).type = "PRODUCT"
  PROVE  ArgumentLitsFacts(p, x)
<1>1. WellFormed(p) /\ IsEdge(p, x) /\ x \in Int
   BY DEF GraphOK, Original, IsEdge
<1>2. CASE ~is_node(x)
   <2>1. ArgumentLits(p, x) = << x >> /\ << x >> \in Seq(Int) /\ ToSet(<< x >>) = {x}
      BY <1>1, <1>2, ToSetOne DEF ArgumentLits
   <2> QED BY <1>1, <2>1 DEF ArgumentLitsFacts
<1>3. CASE is_node(x)
   <2> DEFINE args == NodeOf(p, x).args
   <2>1. NodeFacts(p, root, x) /\ ArgumentLits(p, x) = args
      BY <1>3, TraversedNode DEF Traversed, ArgumentLits
   <2>2. /\ args \in Seq(Int)
         /\ Meaning(p, x) = Joined(p, "PRODUCT", ToSet(args))
         /\ \A l \in ToSet(args) : ArgumentFacts(p, root, x, l)
      BY <1>3, <2>1 DEF NodeFacts
   <2>3. ASSUME NEW l \in ToSet(args)
         PROVE  /\ IsEdge(p, l) /\ IABS(l) # TAUTOLOGY
                /\ Meaning(p, x) \subseteq Meaning(p, l)
                /\ Mentions(p, l) \subseteq Mentions(p, x)
      <3>1. ArgumentFacts(p, root, x, l)
         BY <2>2
      <3>2. Meaning(p, x) \subseteq Meaning(p, l)
         BY <2>2 DEF Joined
      <3> QED BY <3>1, <3>2 DEF ArgumentFacts
   <2> QED BY <2>1, <2>2, <2>3 DEF ArgumentLitsFacts
<1> QED BY <1>2, <1>3

\* The literal by which the two arguments of a sum differ.
Differ(p, x, y, v, lit) ==
    /\ lit \in Int /\ IABS(lit) = v
    /\ \A a \in Meaning(p, x) : Holds(a, lit)
    /\ \A a \in Meaning(p, y) : ~Holds(a, lit)
    /\ v \in Mentions(p, x)

LEMMA DecisionFound ==
  ASSUME NEW s \in Seq(Int), NEW t \in Seq(Int), DecisionOf(s, t) # 0
  PROVE  \E lit \in ToSet(s) : -lit \in ToSet(t) /\ DecisionOf(s, t) = IABS(lit)
<1> DEFINE found == { k \in DOMAIN s : -s[k] \in ToSet(t) }
           first == CHOOSE k \in found : \A j \in found : k <= j
<1>1. found # {} /\ DecisionOf(s, t) = IABS(s[first])
   BY DEF DecisionOf
<1>2. found \in SUBSET Nat
   BY LenProperties
<1>3. \E k \in found : \A j \in found : k <= j
   BY <1>1, <1>2, LeastNatural
<1>4. first \in found
   BY <1>3
<1> HIDE DEF first
<1>5. s[first] \in ToSet(s) /\ -s[first] \in ToSet(t)
   BY <1>4 DEF ToSet
<1> QED BY <1>1, <1>5

LEMMA Deciding ==
  ASSUME NEW p, NEW root, NEW e, Traversed(p, root, e), NodeOf(p, e).type = "SUM"
  PROVE  /\ get_decision_variable(p, e) \in InputVariables
         /\ Len(NodeOf(p, e).args) = 2 /\ is_node(NodeOf(p, e).args[2])
         /\ \E lit : Differ(p, NodeOf(p, e).args[1], NodeOf(p, e).args[2],
                            get_decision_variable(p, e), lit)
<1> DEFINE x == NodeOf(p, e).args[1]
           y == NodeOf(p, e).args[2]
           v == get_decision_variable(p, e)
           i == e - NInput
<1>1. /\ DecisionNode(p, i) /\ NInput + i = e /\ NodeOf(p, e) = p.nodes[i]
      /\ GraphOK(p, root) /\ WellFormed(p)
   BY OriginalNode DEF Traversed, GraphOK
<1>2. /\ Len(NodeOf(p, e).args) = 2 /\ is_node(y) /\ v \in InputVariables
      /\ \A z \in ToSet(NodeOf(p, e).args) : is_node(z) => NodeOf(p, z).type = "PRODUCT"
   BY <1>1 DEF DecisionNode
<1>3. /\ NodeOf(p, e).args \in Seq(Int)
      /\ \A k \in 1 .. Len(NodeOf(p, e).args) : ArgumentFacts(p, root, e, NodeOf(p, e).args[k])
   BY TraversedNode DEF NodeFacts
<1>4. ArgumentFacts(p, root, e, x) /\ ArgumentFacts(p, root, e, y)
   BY <1>2, <1>3
<1>5. x \in ToSet(NodeOf(p, e).args) /\ y \in ToSet(NodeOf(p, e).args)
   BY <1>2, <1>3, ToSetSeq
<1>6. ArgumentLitsFacts(p, x) /\ ArgumentLitsFacts(p, y)
   BY <1>1, <1>2, <1>4, <1>5, LiteralsOfArgument DEF ArgumentFacts
<1>7. v = DecisionOf(ArgumentLits(p, x), ArgumentLits(p, y))
   BY DecisionDefined
<1>8. v \in 1 .. NInput /\ v # 0
   BY <1>2 DEF InputVariables
<1> HIDE DEF x, y, v
<1>9. PICK lit \in ToSet(ArgumentLits(p, x)) : -lit \in ToSet(ArgumentLits(p, y)) /\ v = IABS(lit)
   BY <1>6, <1>7, <1>8, DecisionFound DEF ArgumentLitsFacts
<1>10. /\ IsEdge(p, lit) /\ Meaning(p, x) \subseteq Meaning(p, lit)
       /\ Mentions(p, lit) \subseteq Mentions(p, x) /\ IABS(lit) # TAUTOLOGY
       /\ Meaning(p, y) \subseteq Meaning(p, -lit)
   BY <1>6, <1>9 DEF ArgumentLitsFacts
<1>11. ~is_node(lit) /\ lit \in Int
   BY <1>8, <1>9, <1>10, NInputAssumption DEF is_node, IsEdge
<1>12. /\ Meaning(p, lit) = { a \in Assignments : Holds(a, lit) } /\ Mentions(p, lit) = {v}
       /\ Meaning(p, -lit) = Assignments \ Meaning(p, lit)
   BY <1>1, <1>9, <1>10, <1>11, LiteralMeaning, Negation DEF Negates
<1>13. Differ(p, x, y, v, lit)
   BY <1>9, <1>10, <1>11, <1>12 DEF Differ
<1> QED BY <1>2, <1>13 DEF x, y, v

-----------------------------------------------------------------------------
(* Sums *)

\* The results of both arguments of a sum.
SumResults(p, root, e, r1, r2) ==
    /\ Traversed(p, root, e) /\ NodeOf(p, e).type = "SUM"
    /\ Projects(p, NodeOf(p, e).args[1], r1) /\ Projects(p, NodeOf(p, e).args[2], r2)

SumFacts(p, root, e) ==
    /\ WellFormed(p) /\ Countable(p) /\ IsEdge(p, e)
    /\ Meaning(p, e) = Meaning(p, NodeOf(p, e).args[1]) \cup Meaning(p, NodeOf(p, e).args[2])
    /\ \A k \in {1, 2} : ArgumentFacts(p, root, e, NodeOf(p, e).args[k])

LEMMA SumNode ==
  ASSUME NEW p, NEW root, NEW e, Traversed(p, root, e), NodeOf(p, e).type = "SUM"
  PROVE  SumFacts(p, root, e)
<1> DEFINE args == NodeOf(p, e).args
<1>1. /\ args \in Seq(Int) /\ WellFormed(p) /\ IsEdge(p, e)
      /\ Meaning(p, e) = Joined(p, "SUM", ToSet(args))
      /\ \A k \in 1 .. Len(args) : ArgumentFacts(p, root, e, args[k])
   BY TraversedNode DEF NodeFacts
<1>2. Len(args) = 2
   BY Deciding
<1> HIDE DEF args
<1>3. ToSet(args) = {args[1], args[2]}
   <2>1. DOMAIN args = {1, 2}
      BY <1>1, <1>2
   <2> QED BY <2>1 DEF ToSet
<1>4. \A k \in {1, 2} : ArgumentFacts(p, root, e, args[k])
   BY <1>1, <1>2
<1>5. Meaning(p, args[1]) \subseteq Assignments /\ Meaning(p, args[2]) \subseteq Assignments
   BY <1>1, <1>4, EdgeOver DEF ArgumentFacts
<1>6. Meaning(p, e) = Meaning(p, args[1]) \cup Meaning(p, args[2])
   BY <1>1, <1>3, <1>5 DEF Joined
<1>7. Countable(p)
   BY DEF Traversed, GraphOK
<1> QED BY <1>1, <1>4, <1>6, <1>7 DEF SumFacts, args

\* An edge for the disjunction of the results, in a graph that has grown.
SumEdge(p, r1, r2, q, r) ==
    /\ WellFormed(q) /\ Countable(q) /\ Grown(p, q) /\ IsEdge(q, r)
    /\ Meaning(q, r) = Meaning(p, r1) \cup Meaning(p, r2)
    /\ \A v \in InputVariables \cap Mentions(q, r) : v \in Mentions(p, r1) \/ v \in Mentions(p, r2)

LEMMA SumProjects ==
  ASSUME NEW p, NEW root, NEW e, NEW r1, NEW r2, SumResults(p, root, e, r1, r2),
         NEW q, NEW r, SumEdge(p, r1, r2, q, r)
  PROVE  Outcome(p, e, q, r)
<1> DEFINE x == NodeOf(p, e).args[1]
           y == NodeOf(p, e).args[2]
<1>1. SumFacts(p, root, e)
   BY SumNode DEF SumResults
<1>2. /\ WellFormed(p) /\ IsEdge(p, e)
      /\ Meaning(p, e) = Meaning(p, x) \cup Meaning(p, y)
      /\ Mentions(p, x) \subseteq Mentions(p, e) /\ Mentions(p, y) \subseteq Mentions(p, e)
   BY <1>1 DEF SumFacts, ArgumentFacts
<1>3. Projects(p, x, r1) /\ Projects(p, y, r2)
   BY DEF SumResults
<1> HIDE DEF x, y
<1>4. Meaning(q, r) = Shadow(Meaning(p, e), DataVariables)
   BY <1>2, <1>3, ShadowUnion DEF SumEdge, Projects
<1>5. KeepsEdges(p, q)
   BY <1>2, GrownEdges, Sizes DEF SumEdge
<1>6. ASSUME IABS(r) # TAUTOLOGY, NEW v \in Mentions(q, r)
      PROVE  v \in DataVariables /\ v \in Mentions(p, e)
   <2>1. v \in InputVariables
      BY <1>6, MentionsInputs DEF SumEdge
   <2>2. v \in Mentions(p, r1) \/ v \in Mentions(p, r2)
      BY <2>1 DEF SumEdge
   <2> QED BY <1>2, <1>3, <2>1, <2>2, ResultFacts
<1>7. Projects(q, e, r)
   BY <1>2, <1>4, <1>5, <1>6 DEF Projects, KeepsEdges, SumEdge
<1> QED BY <1>7 DEF Outcome, SumEdge

\* One part is always true.
LEMMA DecidedProjects ==
  ASSUME NEW p, NEW root, NEW e, Traversed(p, root, e), NodeOf(p, e).type = "SUM",
         NEW k \in {1, 2}, Projects(p, NodeOf(p, e).args[k], TAUTOLOGY)
  PROVE  Outcome(p, e, p, TAUTOLOGY)
<1> DEFINE args == NodeOf(p, e).args
<1>1. SumFacts(p, root, e)
   BY SumNode
<1>2. /\ WellFormed(p) /\ Countable(p) /\ IsEdge(p, e)
      /\ Meaning(p, e) = Meaning(p, args[1]) \cup Meaning(p, args[2])
   BY <1>1 DEF SumFacts
<1>3. Shadow(Meaning(p, args[k]), DataVariables) = Assignments
   BY Constants DEF Projects
<1> HIDE DEF args
<1>4. Shadow(Meaning(p, e), DataVariables) = Assignments
   <2>1. Shadow(Meaning(p, e), DataVariables) =
            Shadow(Meaning(p, args[1]), DataVariables) \cup Shadow(Meaning(p, args[2]), DataVariables)
      BY <1>2, ShadowUnion
   <2>2. \A f : Shadow(f, DataVariables) \subseteq Assignments
      BY ShadowFacts
   <2>3. k = 1 \/ k = 2
      OBVIOUS
   <2> QED BY <1>3, <2>1, <2>2, <2>3
<1>5. Projects(p, e, TAUTOLOGY)
   BY <1>2, <1>4, Constants DEF Projects
<1> QED BY <1>2, <1>5, GrownReflexive DEF Outcome

\* One result covers the other.
LEMMA CoveredProjects ==
  ASSUME NEW p, NEW root, NEW e, NEW r1, NEW r2, SumResults(p, root, e, r1, r2),
         NEW r \in {r1, r2}, Meaning(p, r1) \cup Meaning(p, r2) = Meaning(p, r)
  PROVE  Outcome(p, e, p, r)
<1>1. WellFormed(p) /\ Countable(p) /\ IsEdge(p, r1) /\ IsEdge(p, r2)
   BY DEF SumResults, Traversed, GraphOK, Projects
<1>2. SumEdge(p, r1, r2, p, r)
   BY <1>1, GrownReflexive DEF SumEdge
<1> QED BY <1>2, SumProjects

\* The results cover everything.
LEMMA WholeProjects ==
  ASSUME NEW p, NEW root, NEW e, NEW r1, NEW r2, SumResults(p, root, e, r1, r2),
         Meaning(p, r1) \cup Meaning(p, r2) = Assignments
  PROVE  Outcome(p, e, p, TAUTOLOGY)
<1>1. WellFormed(p) /\ Countable(p)
   BY DEF SumResults, Traversed, GraphOK
<1>2. SumEdge(p, r1, r2, p, TAUTOLOGY)
   BY <1>1, GrownReflexive, Constants, NoConstant DEF SumEdge
<1> QED BY <1>2, SumProjects

\* A sum of two edges without a common model.
DisjointSum(p, x, y, made) ==
    /\ WellFormed(made.pog) /\ Countable(made.pog) /\ Grown(p, made.pog)
    /\ IsEdge(made.pog, made.edge)
    /\ Meaning(made.pog, made.edge) = Meaning(p, x) \cup Meaning(p, y)
    /\ \A v \in InputVariables \cap Mentions(made.pog, made.edge) :
         v \in Mentions(p, x) \/ v \in Mentions(p, y)

LEMMA PairFacts ==
  ASSUME NEW x \in Int, NEW y \in Int
  PROVE  /\ << x, y >> \in Seq(Int) /\ Len(<< x, y >>) = 2 /\ ToSet(<< x, y >>) = {x, y}
         /\ << x, y >>[1] = x /\ << x, y >>[2] = y
<1>1. << x, y >> \in Seq(Int) /\ Len(<< x, y >>) = 2 /\ << x, y >>[1] = x /\ << x, y >>[2] = y
   OBVIOUS
<1>2. DOMAIN << x, y >> = {1, 2}
   OBVIOUS
<1> DEFINE s == << x, y >>
<1>3. ToSet(s) = {s[1], s[2]}
   <2>1. DOMAIN s = {1, 2}
      BY <1>2
   <2> HIDE DEF s
   <2> QED BY <2>1 DEF ToSet
<1> QED BY <1>1, <1>3

LEMMA PairSum ==
  ASSUME NEW p, WellFormed(p), Countable(p), NEW x, NEW y, IsEdge(p, x), IsEdge(p, y),
         Meaning(p, x) \cap Meaning(p, y) = {}, Fits(MakeNode(p, "SUM", << x, y >>).pog)
  PROVE  DisjointSum(p, x, y, MakeNode(p, "SUM", << x, y >>))
<1> DEFINE s == << x, y >>
           made == MakeNode(p, "SUM", s)
<1>1. s \in Seq(Int) /\ Len(s) = 2 /\ ToSet(s) = {x, y} /\ s[1] = x /\ s[2] = y
   BY PairFacts DEF IsEdge
<1> HIDE DEF s
<1>2. Edges(p, s)
   BY <1>1 DEF Edges
<1>3. AllCompatible(p, "SUM", s)
   <2>1. ASSUME NEW i \in 1 .. Len(s), NEW j \in 1 .. Len(s), i < j
         PROVE  Compatible(p, "SUM", s[i], s[j])
      <3>1. i = 1 /\ j = 2
         BY <1>1, <2>1
      <3> QED BY <1>1, <3>1 DEF Compatible
   <2> QED BY <2>1 DEF AllCompatible
<1>4. Fits(made.pog)
   BY DEF s
<1> HIDE DEF made
<1>5. Made(p, Joined(p, "SUM", ToSet(s)), AllMentioned(p, ToSet(s)), made) /\ Countable(made.pog)
   BY <1>2, <1>3, <1>4, MakeNodeIsRight DEF PogType, made
<1>6. Joined(p, "SUM", ToSet(s)) = Meaning(p, x) \cup Meaning(p, y)
   <2>1. Meaning(p, x) \subseteq Assignments /\ Meaning(p, y) \subseteq Assignments
      BY EdgeOver
   <2> QED BY <1>1, <2>1 DEF Joined
<1>7. AllMentioned(p, ToSet(s)) = Mentions(p, x) \cup Mentions(p, y)
   BY <1>1 DEF AllMentioned
<1>8. \A v \in InputVariables \cap Mentions(made.pog, made.edge) :
         v \in Mentions(p, x) \/ v \in Mentions(p, y)
   BY <1>5, <1>7, NoConstant DEF Made
<1> QED BY <1>5, <1>6, <1>8 DEF Made, DisjointSum, made, s

LEMMA ExclusiveProjects ==
  ASSUME NEW p, NEW root, NEW e, NEW r1, NEW r2, SumResults(p, root, e, r1, r2),
         Meaning(p, r1) \cap Meaning(p, r2) = {}, Fits(MakeNode(p, "SUM", << r1, r2 >>).pog)
  PROVE  Outcome(p, e, MakeNode(p, "SUM", << r1, r2 >>).pog, MakeNode(p, "SUM", << r1, r2 >>).edge)
<1>1. WellFormed(p) /\ Countable(p) /\ IsEdge(p, r1) /\ IsEdge(p, r2)
   BY DEF SumResults, Traversed, GraphOK, Projects
<1>2. SumEdge(p, r1, r2, MakeNode(p, "SUM", << r1, r2 >>).pog, MakeNode(p, "SUM", << r1, r2 >>).edge)
   BY <1>1, PairSum DEF SumEdge, DisjointSum
<1> QED BY <1>2, SumProjects

\* The results overlap: common models are taken out of the first.
LEMMA ExcludingProjects ==
  ASSUME NEW p, NEW root, NEW e, NEW r1, NEW r2, SumResults(p, root, e, r1, r2),
         NEW x, Overlap(p, r1, r2, x), Fits(Excluding(p, r1, r2, x).pog)
  PROVE  Outcome(p, e, Excluding(p, r1, r2, x).pog, Excluding(p, r1, r2, x).edge)
<1> DEFINE m == MakeNode(p, "SUM", << -r1, x >>)
           q == m.pog
           made == MakeNode(q, "SUM", << -m.edge, r2 >>)
<1>1. /\ WellFormed(p) /\ Countable(p) /\ IsEdge(p, r1) /\ IsEdge(p, r2)
      /\ IsEdge(p, x) /\ Meaning(p, x) = Meaning(p, r1) \cap Meaning(p, r2)
   BY DEF SumResults, Traversed, GraphOK, Projects, Overlap, OnData
<1>2. /\ IsEdge(p, -r1) /\ Meaning(p, -r1) = Assignments \ Meaning(p, r1)
      /\ Mentions(p, -r1) = Mentions(p, r1)
   BY <1>1, Negation DEF Negates
<1>3. Excluding(p, r1, r2, x) = made
   BY DEF Excluding
<1>4. -r1 \in Int /\ x \in Int
   BY <1>1, <1>2 DEF IsEdge
<1>5. Fits(q)
   <2>1. Edges(p, << -r1, x >>)
      <3> DEFINE s == << -r1, x >>
      <3>1. s \in Seq(Int) /\ Len(s) = 2 /\ s[1] = -r1 /\ s[2] = x
         BY <1>4, PairFacts
      <3> HIDE DEF s
      <3>2. IsEdge(p, s[1]) /\ IsEdge(p, s[2])
         BY <1>1, <1>2, <3>1
      <3>3. \A i \in 1 .. Len(s) : IsEdge(p, s[i])
         BY <3>1, <3>2
      <3>4. Edges(p, s)
         BY <3>1, <3>3 DEF Edges
      <3> QED BY <3>4 DEF s
   <2>2. q.nodes \in Seq(Node)
      BY <1>1, <2>1, MakeNodeTyped DEF PogType
   <2> QED BY <1>3, <2>2, MakeNodeFits
<1>6. DisjointSum(p, -r1, x, m)
   BY <1>1, <1>2, <1>5, PairSum
<1> HIDE DEF m
<1>7. /\ WellFormed(q) /\ Countable(q) /\ Grown(p, q) /\ IsEdge(q, m.edge)
      /\ Meaning(q, m.edge) = Meaning(p, -r1) \cup Meaning(p, x)
      /\ \A v \in InputVariables \cap Mentions(q, m.edge) :
           v \in Mentions(p, r1) \/ v \in Mentions(p, x)
   BY <1>2, <1>6 DEF DisjointSum
<1>8. /\ IsEdge(q, -m.edge) /\ Meaning(q, -m.edge) = Assignments \ Meaning(q, m.edge)
      /\ Mentions(q, -m.edge) = Mentions(q, m.edge)
   BY <1>7, Negation DEF Negates
<1>9. KeepsEdges(p, q)
   BY <1>1, <1>7, GrownEdges, Sizes
<1>10. /\ IsEdge(q, r2) /\ Meaning(q, r2) = Meaning(p, r2) /\ Mentions(q, r2) = Mentions(p, r2)
   BY <1>1, <1>9 DEF KeepsEdges
<1>11. Meaning(p, r1) \subseteq Assignments /\ Meaning(p, r2) \subseteq Assignments
   BY <1>1, EdgeOver
<1>12. Meaning(q, -m.edge) \cap Meaning(q, r2) = {}
   BY <1>1, <1>2, <1>7, <1>8, <1>10
<1>13. Fits(made.pog)
   BY <1>3
<1>14. DisjointSum(q, -m.edge, r2, made)
   BY <1>7, <1>8, <1>10, <1>12, <1>13, PairSum
<1> HIDE DEF made
<1>15. /\ WellFormed(made.pog) /\ Countable(made.pog) /\ Grown(q, made.pog)
       /\ IsEdge(made.pog, made.edge)
       /\ Meaning(made.pog, made.edge) = Meaning(q, -m.edge) \cup Meaning(q, r2)
       /\ \A v \in InputVariables \cap Mentions(made.pog, made.edge) :
            v \in Mentions(q, -m.edge) \/ v \in Mentions(q, r2)
   BY <1>14 DEF DisjointSum
<1>16. Grown(p, made.pog)
   BY <1>1, <1>7, <1>15, GrownTransitive
<1>17. Meaning(made.pog, made.edge) = Meaning(p, r1) \cup Meaning(p, r2)
   BY <1>1, <1>2, <1>7, <1>8, <1>10, <1>11, <1>15
<1>18. \A v \in InputVariables \cap Mentions(p, x) : v \in Mentions(p, r1) \/ v \in Mentions(p, r2)
   BY <1>1, NoConstant DEF Overlap
<1>19. \A v \in InputVariables \cap Mentions(made.pog, made.edge) :
          v \in Mentions(p, r1) \/ v \in Mentions(p, r2)
   BY <1>7, <1>8, <1>10, <1>15, <1>18
<1>20. SumEdge(p, r1, r2, made.pog, made.edge)
   BY <1>15, <1>16, <1>17, <1>19 DEF SumEdge
<1> QED BY <1>3, <1>20, SumProjects

\* Equal counts of which one is contained in the other.
LEMMA EqualCounts ==
  ASSUME NEW p, WellFormed(p), Countable(p), p.data_variables = DataVariables,
         NEW x, OnData(p, x), NEW n, OnData(p, n), Meaning(p, x) \subseteq Meaning(p, n),
         ring_evaluate(p, x) = ring_evaluate(p, n)
  PROVE  Meaning(p, x) = Meaning(p, n)
<1> DEFINE A == { a \cap DataVariables : a \in Meaning(p, x) }
           B == { a \cap DataVariables : a \in Meaning(p, n) }
<1>1. IsEdge(p, x) /\ IsEdge(p, n) /\ DataEdge(p, x) /\ DataEdge(p, n)
   BY DEF OnData, DataEdge
<1>2. Cardinality(A) = Cardinality(B)
   BY <1>1, CountIsExact
<1>3. A \subseteq B
   OBVIOUS
<1>4. IsFiniteSet(B)
   <2>1. B \in SUBSET SUBSET DataVariables
      OBVIOUS
   <2>2. IsFiniteSet(SUBSET DataVariables)
      BY UnitFacts
   <2> QED BY <2>1, <2>2, FS_Subset
<1> HIDE DEF A, B
<1>5. A = B
   BY <1>2, <1>3, <1>4, FS_Subset
<1>6. ASSUME NEW a \in Meaning(p, n)
      PROVE  a \in Meaning(p, x)
   <2>1. a \cap DataVariables \in A
      BY <1>5 DEF B
   <2>2. PICK b \in Meaning(p, x) : a \cap DataVariables = b \cap DataVariables
      BY <2>1 DEF A
   <2>3. a \in Assignments /\ b \in Assignments /\ Over(Meaning(p, x), DataVariables)
      BY <1>1, EdgeOver
   <2> QED BY <2>2, <2>3 DEF Over
<1> QED BY <1>6

LEMMA AbsorbedCases ==
  ASSUME NEW n1, NEW n2, NEW x, Absorbed(n1, n2, x) # 0
  PROVE  \/ x = n1 /\ Absorbed(n1, n2, x) = n2
         \/ x = n2 /\ Absorbed(n1, n2, x) = n1
         \/ equal_counts(x, n1) /\ Absorbed(n1, n2, x) = n2
         \/ equal_counts(x, n2) /\ Absorbed(n1, n2, x) = n1
BY SMT DEF Absorbed

LEMMA AbsorbedProjects ==
  ASSUME GraphInv, NEW e, NEW r1, NEW r2, SumResults(pog, root_literal, e, r1, r2),
         NEW x, Overlap(pog, r1, r2, x), Absorbed(r1, r2, x) # 0
  PROVE  Outcome(pog, e, pog, Absorbed(r1, r2, x))
<1>1. /\ WellFormed(pog) /\ Countable(pog) /\ pog.data_variables = DataVariables
      /\ OnData(pog, x) /\ Meaning(pog, x) = Meaning(pog, r1) \cap Meaning(pog, r2)
   BY DEF GraphInv, GraphOK, Overlap
<1>2. OnData(pog, r1) /\ OnData(pog, r2)
   BY <1>1, ResultFacts DEF SumResults
<1>3. CASE (x = r1 \/ equal_counts(x, r1)) /\ Absorbed(r1, r2, x) = r2
   <2>1. Meaning(pog, x) = Meaning(pog, r1)
      BY <1>1, <1>2, <1>3, EqualCounts DEF equal_counts
   <2>2. Meaning(pog, r1) \cup Meaning(pog, r2) = Meaning(pog, r2)
      BY <1>1, <2>1
   <2> QED BY <1>3, <2>2, CoveredProjects
<1>4. CASE (x = r2 \/ equal_counts(x, r2)) /\ Absorbed(r1, r2, x) = r1
   <2>1. Meaning(pog, x) = Meaning(pog, r2)
      BY <1>1, <1>2, <1>4, EqualCounts DEF equal_counts
   <2>2. Meaning(pog, r1) \cup Meaning(pog, r2) = Meaning(pog, r1)
      BY <1>1, <2>1
   <2> QED BY <1>4, <2>2, CoveredProjects
<1> QED BY <1>3, <1>4, AbsorbedCases

-----------------------------------------------------------------------------
(* The results of the two parts of a sum have no common model if the variable *)
(* it decides on is a data variable, or a function of the data variables.     *)

LEMMA Opposed ==
  ASSUME NEW lit \in Int, NEW a, NEW b, IABS(lit) \in a <=> IABS(lit) \in b
  PROVE  Holds(a, lit) <=> Holds(b, lit)
BY DEF Holds, IABS

LEMMA DataDecision ==
  ASSUME NEW p, NEW root, NEW e, NEW r1, NEW r2, SumResults(p, root, e, r1, r2),
         get_decision_variable(p, e) \in DataVariables
  PROVE  Meaning(p, r1) \cap Meaning(p, r2) = {}
<1> DEFINE x == NodeOf(p, e).args[1]
           y == NodeOf(p, e).args[2]
           v == get_decision_variable(p, e)
<1>1. PICK lit : Differ(p, x, y, v, lit)
   BY Deciding DEF SumResults
<1>2. Projects(p, x, r1) /\ Projects(p, y, r2)
   BY DEF SumResults
<1> HIDE DEF x, y, v
<1>3. ASSUME NEW a \in Meaning(p, r1) \cap Meaning(p, r2)
      PROVE  FALSE
   <2>1. /\ \E b \in Meaning(p, x) : a \cap DataVariables = b \cap DataVariables
         /\ \E b \in Meaning(p, y) : a \cap DataVariables = b \cap DataVariables
      BY <1>2, ShadowFacts DEF Projects
   <2>2. PICK b \in Meaning(p, x) : a \cap DataVariables = b \cap DataVariables
      BY <2>1
   <2>3. PICK c \in Meaning(p, y) : a \cap DataVariables = c \cap DataVariables
      BY <2>1
   <2>4. Holds(b, lit) /\ ~Holds(c, lit) /\ lit \in Int /\ IABS(lit) = v
      BY <1>1, <2>2, <2>3 DEF Differ
   <2>5. v \in b <=> v \in c
      BY <2>2, <2>3 DEF v
   <2> QED BY <2>4, <2>5, Opposed
<1> QED BY <1>3

LEMMA TseitinDecision ==
  ASSUME NEW p, NEW root, NEW e, NEW r1, NEW r2, SumResults(p, root, e, r1, r2),
         InContext(p, root, e), NEW level, NEW tseitin, TseitinOK(p, root, level, tseitin),
         get_decision_variable(p, e) \in tseitin
  PROVE  Meaning(p, r1) \cap Meaning(p, r2) = {}
<1> DEFINE x == NodeOf(p, e).args[1]
           y == NodeOf(p, e).args[2]
           v == get_decision_variable(p, e)
           M == Mentions(p, e)
<1>1. PICK lit : Differ(p, x, y, v, lit)
   BY Deciding DEF SumResults
<1>2. Projects(p, x, r1) /\ Projects(p, y, r2)
   BY DEF SumResults
<1>3. SumFacts(p, root, e)
   BY SumNode DEF SumResults
<1>4. /\ WellFormed(p) /\ IsEdge(p, x) /\ IsEdge(p, y) /\ IsEdge(p, e)
      /\ Mentions(p, x) \subseteq M /\ Mentions(p, y) \subseteq M
      /\ Meaning(p, x) \subseteq Meaning(p, e) /\ Meaning(p, y) \subseteq Meaning(p, e)
   BY <1>3 DEF SumFacts, ArgumentFacts
<1>5. PICK d \in Assignments : \A b \in Meaning(p, e) : b \ M = d \ M => b \in Meaning(p, root)
   BY DEF InContext
<1>6. v \in M
   BY <1>1, <1>4 DEF Differ
<1> HIDE DEF x, y, v, M
\* A model of an argument, completed.
<1>7. ASSUME NEW z \in {x, y}, NEW b \in Meaning(p, z)
      PROVE  /\ Mix(M, b, d) \in Meaning(p, root)
             /\ v \in Mix(M, b, d) <=> v \in b
             /\ Mix(M, b, d) \cap DataVariables
                  = Mix(M, b \cap DataVariables, d) \cap DataVariables
   <2> DEFINE m == Mix(M, b, d)
   <2>1. b \in Assignments /\ Mentions(p, z) \subseteq M /\ Meaning(p, z) \subseteq Meaning(p, e)
      BY <1>4, EdgeOver
   <2>2. m \in Assignments /\ m \cap M = b \cap M /\ m \ M = d \ M
      BY <2>1 DEF Mix, Assignments
   <2>3. m \cap DataVariables = Mix(M, b \cap DataVariables, d) \cap DataVariables
      BY DEF Mix
   <2> HIDE DEF m
   <2>4. m \cap Mentions(p, z) = b \cap Mentions(p, z)
      BY <2>1, <2>2
   <2>5. m \in Meaning(p, z)
      BY <1>4, <2>1, <2>2, <2>4, Dependence DEF Agree
   <2>6. m \in Meaning(p, root)
      BY <1>5, <2>1, <2>2, <2>5
   <2>7. v \in m <=> v \in b
      BY <1>6, <2>2
   <2> QED BY <2>3, <2>6, <2>7 DEF m
<1>8. ASSUME NEW a \in Meaning(p, r1) \cap Meaning(p, r2)
      PROVE  FALSE
   <2>1. /\ \E b \in Meaning(p, x) : a \cap DataVariables = b \cap DataVariables
         /\ \E b \in Meaning(p, y) : a \cap DataVariables = b \cap DataVariables
      BY <1>2, ShadowFacts DEF Projects
   <2>2. PICK b \in Meaning(p, x) : a \cap DataVariables = b \cap DataVariables
      BY <2>1
   <2>3. PICK c \in Meaning(p, y) : a \cap DataVariables = c \cap DataVariables
      BY <2>1
   <2>4. Holds(b, lit) /\ ~Holds(c, lit) /\ lit \in Int /\ IABS(lit) = v
      BY <1>1, <2>2, <2>3 DEF Differ
   <2> DEFINE bb == Mix(M, b, d)
              cc == Mix(M, c, d)
   <2>5. /\ bb \in Meaning(p, root) /\ cc \in Meaning(p, root)
         /\ v \in bb <=> v \in b
         /\ v \in cc <=> v \in c
         /\ bb \cap DataVariables = cc \cap DataVariables
      <3>1. b \cap DataVariables = c \cap DataVariables
         BY <2>2, <2>3
      <3>2. /\ bb \in Meaning(p, root) /\ (v \in bb <=> v \in b)
            /\ bb \cap DataVariables = Mix(M, b \cap DataVariables, d) \cap DataVariables
         BY <1>7
      <3>3. /\ cc \in Meaning(p, root) /\ (v \in cc <=> v \in c)
            /\ cc \cap DataVariables = Mix(M, c \cap DataVariables, d) \cap DataVariables
         BY <1>7
      <3> QED BY <3>1, <3>2, <3>3
   <2> HIDE DEF bb, cc
   <2>6. v \in bb <=> v \in cc
      BY <2>5 DEF TseitinOK, v
   <2> QED BY <2>4, <2>5, <2>6, Opposed
<1> QED BY <1>8

-----------------------------------------------------------------------------
(* The intersection of two results *)

\* The variables of a clause are the ones it depends on.
LEMMA ClauseDepends ==
  ASSUME NEW p, WellFormed(p), NEW lits, ProperClause(p, lits), NEW V,
         Over({ a \in Assignments : HoldsClause(a, lits) }, V), NEW lit \in lits
  PROVE  IABS(lit) \in V
<1> SUFFICES ASSUME IABS(lit) \notin V
             PROVE  FALSE
   OBVIOUS
<1> DEFINE v == IABS(lit)
           a == { w \in InputVariables : -w \in lits }
           b == IF lit > 0 THEN a \cup {v} ELSE a \ {v}
<1>1. /\ lits \subseteq Int
      /\ \A l \in lits : IABS(l) \in InputVariables /\ -l \notin lits
   BY ClauseIsProper DEF ClauseLiterals, ProperClause
<1>2. a \in Assignments /\ b \in Assignments
   BY <1>1 DEF Assignments
<1>3. a \cap V = b \cap V
   OBVIOUS
<1>4. ASSUME NEW l \in lits
      PROVE  ~Holds(a, l)
   <2>1. l \in Int /\ IABS(l) \in InputVariables /\ -l \notin lits /\ -(-l) = l
      BY <1>1
   <2>2. CASE l > 0
      BY <2>1, <2>2 DEF Holds
   <2>3. CASE ~(l > 0)
      <3>1. -l = IABS(l)
         BY <2>1, <2>3 DEF IABS
      <3>2. -l \in a
         BY <2>1, <3>1
      <3> QED BY <2>3, <3>2 DEF Holds
   <2> QED BY <2>2, <2>3
<1>5. Holds(b, lit)
   <2>1. lit \in Int
      BY <1>1
   <2> QED BY <2>1 DEF Holds, IABS
<1> HIDE DEF a, b
<1>6. ~HoldsClause(a, lits) /\ HoldsClause(b, lits)
   BY <1>4, <1>5 DEF HoldsClause
<1> QED BY <1>2, <1>3, <1>6 DEF Over

LEMMA CompiledOverlaps ==
  ASSUME CompilerContract, GraphInv, NEW e, NEW r1, NEW r2,
         SumResults(pog, root_literal, e, r1, r2),
         IABS(r1) # TAUTOLOGY, IABS(r2) # TAUTOLOGY, Intersection(r1, r2) # {},
         NEW made \in CompiledTo(r1, r2), Fits(made.pog)
  PROVE  /\ WellFormed(made.pog) /\ Countable(made.pog) /\ Grown(pog, made.pog)
         /\ Overlap(made.pog, r1, r2, made.edge)
<1> DEFINE f == Meaning(pog, r1) \cap Meaning(pog, r2)
           V == Mentions(pog, r1) \cup Mentions(pog, r2)
           q == made.pog
<1>1. /\ WellFormed(pog) /\ Countable(pog) /\ pog.data_variables = DataVariables
      /\ pog \in [nodes : Seq(Node), data_variables : {DataVariables}]
   BY DEF GraphInv, GraphOK, WellFormed
<1>2. OnData(pog, r1) /\ OnData(pog, r2) /\ IsEdge(pog, r1) /\ IsEdge(pog, r2)
   BY <1>1, ResultFacts DEF SumResults, Projects
<1>3. /\ Intersection(r1, r2) = f /\ f # {}
      /\ VariablesBelow(r1, r2) = V
   BY DEF Intersection, VariablesBelow, Meaning, Mentions
<1>4. V \subseteq DataVariables /\ V \subseteq InputVariables
   BY <1>2, DataAssumption DEF OnData
<1>5. /\ Over(Meaning(pog, r1), Mentions(pog, r1)) /\ Over(Meaning(pog, r2), Mentions(pog, r2))
      /\ Meaning(pog, r1) \subseteq Assignments /\ Meaning(pog, r2) \subseteq Assignments
   BY <1>1, <1>2, EdgeOver
<1>6. Over(f, V)
   <2>1. ASSUME NEW a \in Assignments, NEW b \in Assignments, a \cap V = b \cap V
         PROVE  a \in f <=> b \in f
      <3>1. /\ a \cap Mentions(pog, r1) = b \cap Mentions(pog, r1)
            /\ a \cap Mentions(pog, r2) = b \cap Mentions(pog, r2)
         BY <2>1 DEF Assignments
      <3> QED BY <1>5, <3>1 DEF Over
   <2> QED BY <2>1 DEF Over
<1>7. f \in SUBSET Assignments
   BY <1>5
<1> HIDE DEF f, V
<1>8. Shadow(f, V) = f /\ Shadow(f, DataVariables) = f
   BY <1>4, <1>6, <1>7, ShadowOver
\* An edge for the function in a graph that has grown.
<1>9. ASSUME WellFormed(q), Countable(q), Grown(pog, q), IsEdge(q, made.edge),
             Meaning(q, made.edge) = f,
             IABS(made.edge) # TAUTOLOGY => Mentions(q, made.edge) \subseteq V
      PROVE  Overlap(q, r1, r2, made.edge)
   <2>1. KeepsEdges(pog, q)
      BY <1>1, <1>9, GrownEdges, Sizes
   <2>2. /\ Meaning(q, r1) = Meaning(pog, r1) /\ Meaning(q, r2) = Meaning(pog, r2)
         /\ Mentions(q, r1) = Mentions(pog, r1) /\ Mentions(q, r2) = Mentions(pog, r2)
      BY <1>2, <2>1 DEF KeepsEdges
   <2>3. Meaning(q, made.edge) = Meaning(q, r1) \cap Meaning(q, r2)
      BY <1>9, <2>2 DEF f
   <2>4. V \subseteq Mentions(q, r1) \cup Mentions(q, r2)
      BY <2>2 DEF V
   <2> QED BY <1>4, <1>9, <2>3, <2>4 DEF Overlap, OnData
<1>10. CASE \E order \in Orders : made = Compiled(pog, f, V, order)
   <2>1. PICK order \in Orders : made = Compiled(pog, f, V, order)
      BY <1>10
   <2>2. LaterGraph(pog, f, V)
      BY <1>1, <1>3, <1>4, <1>7, <1>8, Zenon DEF CompilerContract
   <2>3. Represents(pog, f, V, made)
      BY <1>1, <2>1, <2>2 DEF LaterGraph
   <2>4. /\ WellFormed(q) /\ Countable(q) /\ q.data_variables = pog.data_variables
         /\ Len(pog.nodes) <= Len(q.nodes)
         /\ \A i \in DOMAIN pog.nodes : q.nodes[i] = pog.nodes[i]
         /\ IsEdge(q, made.edge) /\ Meaning(q, made.edge) = f
         /\ IABS(made.edge) # TAUTOLOGY => Mentions(q, made.edge) \subseteq V
      BY <2>3 DEF Represents, Meaning, Mentions
   <2>5. Grown(pog, q)
      BY <1>1, <2>4, Sizes DEF Grown
   <2> QED BY <1>9, <2>4, <2>5
<1>11. CASE \E lits \in ClausesFor(f) : made = build_disjunction(pog, SortByVariable(lits))
   <2>1. PICK lits \in ClausesFor(f) : made = build_disjunction(pog, SortByVariable(lits))
      BY <1>11
   <2>2. ProperClause(pog, lits) /\ f = { a \in Assignments : HoldsClause(a, lits) }
      BY DEF ClausesFor, ProperClause
   <2>3. Fits(build_disjunction(pog, SortByVariable(lits)).pog)
      BY <2>1
   <2>4. Made(pog, f, { IABS(lit) : lit \in lits }, made) /\ Countable(q)
      BY <1>1, <2>1, <2>2, <2>3, DisjunctionIsRight
   <2>5. { IABS(lit) : lit \in lits } \subseteq V
      BY <1>1, <1>6, <2>2, ClauseDepends
   <2> QED BY <1>9, <2>4, <2>5 DEF Made
<1> QED BY <1>3, <1>10, <1>11 DEF CompiledTo

-----------------------------------------------------------------------------
(* What is known when a call returns *)

LEMMA CachePut ==
  ASSUME NEW p, NEW cache, CacheOK(p, cache), NEW x, NEW r, Projects(p, x, r)
  PROVE  CacheOK(p, Stored(cache, x, r))
BY DEF CacheOK, Stored

\* What is known of the activation on top when a call has returned.
TopOK ==
    /\ Traversed(pog, root_literal, Top.edge) /\ InContext(pog, root_literal, Top.edge)
    /\ FrameOK(pog, root_literal, optlevel, Top) /\ Awaits(pog, Top, call)
    /\ Projects(pog, call, edge)
    /\ Top \in Frame /\ Top.results \in Seq(Int) /\ Len(Top.results) \in Nat
    /\ ArgsOf(Top.edge) = NodeOf(pog, Top.edge).args
    /\ NodeFacts(pog, root_literal, Top.edge)

LEMMA TopFacts ==
  ASSUME IInv, Returned
  PROVE  TopOK
<1>1. /\ GraphOK(pog, root_literal) /\ StackOK(pog, root_literal, optlevel, frames, call)
      /\ Projects(pog, call, edge) /\ frames # << >>
   BY DEF IInv, GraphInv, StackInv, ControlInv, Returned
<1>2. FrameOK(pog, root_literal, optlevel, Top) /\ Awaits(pog, Top, call)
   BY <1>1, TopFrame DEF Top
<1>3. Traversed(pog, root_literal, Top.edge) /\ InContext(pog, root_literal, Top.edge) /\ Top \in Frame
   BY <1>1, <1>2 DEF FrameOK, Traversed
<1>4. Top.results \in Seq(Int) /\ Len(Top.results) \in Nat
   BY <1>3 DEF Frame
<1>5. NodeFacts(pog, root_literal, Top.edge)
   BY <1>3, TraversedNode
<1> QED BY <1>1, <1>2, <1>3, <1>4, <1>5 DEF TopOK, ArgsOf

\* The result is that of the next argument unless an intersection is awaited.
LEMMA NextResult ==
  ASSUME TopOK, ~(IsSum(pog, Top.edge) /\ Len(Top.results) = 2)
  PROVE  /\ Projects(pog, NodeOf(pog, Top.edge).args[Len(Top.results) + 1], edge)
         /\ \A k \in 1 .. Len(Top.results) :
              Projects(pog, NodeOf(pog, Top.edge).args[k], Top.results[k])
<1>1. call = NodeOf(pog, Top.edge).args[Len(Top.results) + 1]
   BY DEF TopOK, Awaits
<1> QED BY <1>1 DEF TopOK, FrameOK

LEMMA SumFlag ==
  ASSUME TopOK
  PROVE  /\ is_sum(Top.edge) <=> IsSum(pog, Top.edge)
         /\ IsSum(pog, Top.edge) <=> NodeOf(pog, Top.edge).type = "SUM"
BY DEF is_sum, IsSum, TopOK, Traversed

LEMMA BothFacts ==
  ASSUME IInv, Both
  PROVE  /\ TopOK /\ SumResults(pog, root_literal, Top.edge, Top.results[1], edge)
         /\ IABS(edge) # TAUTOLOGY /\ IABS(Top.results[1]) # TAUTOLOGY
         /\ edge # TAUTOLOGY /\ Top.results[1] # TAUTOLOGY
<1>1. TopOK /\ IsSum(pog, Top.edge) /\ NodeOf(pog, Top.edge).type = "SUM"
   BY TopFacts, SumFlag DEF Both, InSum
<1>2. Len(Top.results) = 1 /\ edge # TAUTOLOGY
   BY DEF Both, Decided
<1> DEFINE x == NodeOf(pog, Top.edge).args[1]
           y == NodeOf(pog, Top.edge).args[2]
           r1 == Top.results[1]
<1>3. Projects(pog, x, r1) /\ Projects(pog, y, edge)
   <2>1. ~(Len(Top.results) = 2) /\ 1 \in 1 .. Len(Top.results) /\ Len(Top.results) + 1 = 2
      BY <1>2
   <2> QED BY <1>1, <2>1, NextResult
<1>4. r1 # TAUTOLOGY
   <2>1. 1 \in 1 .. Len(Top.results)
      BY <1>2
   <2> QED BY <1>1, <2>1 DEF TopOK, FrameOK
<1>5. SumResults(pog, root_literal, Top.edge, r1, edge)
   BY <1>1, <1>3 DEF SumResults, TopOK
<1>6. SumFacts(pog, root_literal, Top.edge)
   BY <1>1, SumNode DEF TopOK
<1>7. Meaning(pog, x) # {} /\ Meaning(pog, y) # {} /\ WellFormed(pog)
   BY <1>6 DEF SumFacts, ArgumentFacts
<1> HIDE DEF x, y, r1
<1>8. r1 # CONFLICT /\ edge # CONFLICT
   BY <1>3, <1>7, ResultFacts
<1>9. r1 \in Int /\ edge \in Int
   BY <1>3 DEF Projects, IsEdge
<1>10. IABS(edge) # TAUTOLOGY /\ IABS(r1) # TAUTOLOGY
   BY <1>2, <1>4, <1>8, <1>9, Constants
<1> QED BY <1>1, <1>2, <1>4, <1>5, <1>10 DEF r1

LEMMA IntersectedFacts ==
  ASSUME IInv, Intersected
  PROVE  /\ TopOK /\ SumResults(pog, root_literal, Top.edge, Top.results[1], Top.results[2])
         /\ Overlap(pog, Top.results[1], Top.results[2], edge)
<1>1. TopOK /\ IsSum(pog, Top.edge) /\ NodeOf(pog, Top.edge).type = "SUM"
   BY TopFacts, SumFlag DEF Intersected, InSum
<1>2. Len(Top.results) = 2 /\ 1 \in 1 .. Len(Top.results) /\ 2 \in 1 .. Len(Top.results)
   BY DEF Intersected
<1> DEFINE r1 == Top.results[1]
           r2 == Top.results[2]
<1>3. Projects(pog, NodeOf(pog, Top.edge).args[1], r1) /\ Projects(pog, NodeOf(pog, Top.edge).args[2], r2)
   BY <1>1, <1>2 DEF TopOK, FrameOK
<1>4. SumResults(pog, root_literal, Top.edge, r1, r2)
   BY <1>1, <1>3 DEF SumResults, TopOK
<1>5. Overlap(pog, r1, r2, call) /\ Projects(pog, call, edge)
   BY <1>1, <1>2 DEF TopOK, Awaits
<1>6. WellFormed(pog)
   BY <1>1 DEF TopOK, NodeFacts
<1> HIDE DEF r1, r2
<1>7. OnData(pog, edge)
   BY <1>5, <1>6, ResultFacts
<1>8. Meaning(pog, edge) = Meaning(pog, call)
   BY <1>5, <1>6, EdgeOver DEF Overlap, Projects
<1>9. ASSUME IABS(edge) # TAUTOLOGY, NEW v \in Mentions(pog, edge)
      PROVE  v \in Mentions(pog, r1) \cup Mentions(pog, r2)
   <2>1. IsEdge(pog, edge) /\ IsEdge(pog, call)
      BY <1>5 DEF Projects
   <2>2. v \in InputVariables
      BY <1>6, <1>9, <2>1, MentionsInputs
   <2>3. v \in Mentions(pog, call)
      BY <1>5, <1>9 DEF Projects
   <2>4. IABS(call) # TAUTOLOGY
      BY <1>6, <2>1, <2>2, <2>3, NoConstant
   <2> QED BY <1>5, <2>3, <2>4 DEF Overlap
<1>10. Overlap(pog, r1, r2, edge)
   BY <1>5, <1>7, <1>8, <1>9 DEF Overlap
<1> QED BY <1>1, <1>4, <1>10 DEF r1, r2

-----------------------------------------------------------------------------
(* Each kind of step keeps the invariant. *)

\* The graph only grows, and so does the cache.
Kept ==
    /\ IInv'
    /\ Later(pog, pog', root_literal)
    /\ root_literal' = root_literal
    /\ DOMAIN result_cache \subseteq DOMAIN result_cache'

LEMMA SameGraph ==
  ASSUME IInv
  PROVE  Later(pog, pog, root_literal)
BY Growing, GrownReflexive DEF IInv, GraphInv, GraphOK

LEMMA ReturnKeeps ==
  ASSUME IInv, NEW e, ReturnOnly(e), Projects(pog, call, e)
  PROVE  Kept
<1>1. /\ pog' = pog /\ root_literal' = root_literal /\ optlevel' = optlevel
      /\ tseitin_variables' = tseitin_variables /\ result_cache' = result_cache
      /\ frames' = frames /\ call' = call /\ pc' = "return" /\ edge' = e
   BY DEF ReturnOnly, Return, given
<1>2. GraphInv' /\ GivenInv' /\ CacheInv' /\ StackInv'
   BY <1>1 DEF IInv, GraphInv, GivenInv, CacheInv, StackInv
<1>3. ControlInv'
   BY <1>1 DEF IInv, ControlInv
<1> QED BY <1>1, <1>2, <1>3, SameGraph DEF IInv, Kept

LEMMA LeaveKeeps ==
  ASSUME IInv, Returned, NEW e, Leave(e), Outcome(pog, Top.edge, pog', e)
  PROVE  Kept
<1>1. /\ root_literal' = root_literal /\ optlevel' = optlevel
      /\ tseitin_variables' = tseitin_variables
      /\ result_cache' = Stored(result_cache, Top.edge, e)
      /\ frames' = SubSeq(frames, 1, Len(frames) - 1)
      /\ call' = Top.edge /\ pc' = "return" /\ edge' = e
   BY DEF Leave, Return, given
<1>2. Later(pog, pog', root_literal) /\ Projects(pog', Top.edge, e)
   BY Growing DEF Outcome, IInv, GraphInv
<1>3. GraphInv'
   BY <1>1, <1>2 DEF Later, GraphInv
<1>4. GivenInv'
   BY <1>1, <1>2, TseitinLater DEF IInv, GivenInv
<1>5. CacheInv'
   BY <1>1, <1>2, CacheLater, CachePut DEF IInv, CacheInv
<1>6. StackInv'
   <2>1. StackOK(pog', root_literal, optlevel, frames, call) /\ frames # << >>
      BY <1>2, StackLater DEF IInv, StackInv, Returned
   <2>2. StackOK(pog', root_literal, optlevel, SubSeq(frames, 1, Len(frames) - 1), Top.edge)
      BY <2>1, Popping DEF Top
   <2> QED BY <1>1, <2>2 DEF StackInv
<1>7. ControlInv'
   BY <1>1, <1>2 DEF ControlInv, Projects
<1>8. DOMAIN result_cache \subseteq DOMAIN result_cache'
   BY <1>1 DEF Stored
<1> QED BY <1>1, <1>2, <1>3, <1>4, <1>5, <1>6, <1>7, <1>8 DEF IInv, Kept

\* The frame with one more result.
WithResult(frame, r) == [frame EXCEPT !.results = Append(@, r)]

LEMMA CallKeeps ==
  ASSUME IInv, Returned, NEW y, CallNext(y), Later(pog, pog', root_literal),
         FrameOK(pog', root_literal, optlevel, WithResult(Top, edge)),
         Awaits(pog', WithResult(Top, edge), y), Callable(pog', root_literal, optlevel, y),
         IsEdge(pog', y)
  PROVE  Kept
<1>1. /\ root_literal' = root_literal /\ optlevel' = optlevel
      /\ tseitin_variables' = tseitin_variables
      /\ result_cache' = result_cache
      /\ frames' = [frames EXCEPT ![Len(frames)].results = Append(@, edge)]
      /\ call' = y /\ pc' = "call"
   BY DEF CallNext, given
<1>2. frames' = [frames EXCEPT ![Len(frames)] = WithResult(Top, edge)]
   BY <1>1 DEF WithResult, Top
<1>3. GraphInv'
   BY <1>1 DEF Later, GraphInv
<1>4. GivenInv'
   BY <1>1, TseitinLater DEF IInv, GivenInv
<1>5. CacheInv'
   BY <1>1, CacheLater DEF IInv, CacheInv
<1>6. StackInv'
   <2>1. StackOK(pog', root_literal, optlevel, frames, call) /\ frames # << >>
      BY StackLater DEF IInv, StackInv, Returned
   <2>2. WithResult(Top, edge).edge = frames[Len(frames)].edge
      <3>1. Top \in Frame
         BY TopFacts DEF TopOK
      <3> QED BY <3>1 DEF WithResult, Frame, Top
   <2>3. StackOK(pog', root_literal, optlevel,
                 [frames EXCEPT ![Len(frames)] = WithResult(Top, edge)], y)
      BY <2>1, <2>2, Replacing
   <2> QED BY <1>1, <1>2, <2>3 DEF StackInv
<1>7. ControlInv'
   BY <1>1 DEF ControlInv
<1> QED BY <1>1, <1>3, <1>4, <1>5, <1>6, <1>7 DEF IInv, Kept

CallState ==
    /\ GraphInv /\ WellFormed(pog) /\ pog.data_variables = DataVariables
    /\ IsEdge(pog, call) /\ Callable(pog, root_literal, optlevel, call)

LEMMA CallFacts ==
  ASSUME IInv, pc = "call"
  PROVE  CallState
BY DEF IInv, ControlInv, GraphInv, GraphOK, CallState

LEMMA LeafKeeps ==
  ASSUME IInv, Leaf
  PROVE  Kept
<1>1. ReturnOnly(leaf_result(call)) /\ pc = "call" /\ ~is_node(call)
   BY DEF Leaf
<1>2. Projects(pog, call, leaf_result(call))
   BY <1>1, CallFacts, LeafProjects DEF CallState
<1> QED BY <1>1, <1>2, ReturnKeeps

LEMMA ReuseKeeps ==
  ASSUME IInv, Reuse
  PROVE  Kept
<1>1. ReturnOnly(result_cache[call]) /\ call \in DOMAIN result_cache
   BY DEF Reuse, Cached
<1>2. Projects(pog, call, result_cache[call])
   BY <1>1 DEF IInv, CacheInv, CacheOK
<1> QED BY <1>1, <1>2, ReturnKeeps

\* The flags of a node are those of the edge.
LEMMA NodeFlags ==
  ASSUME CallState, is_node(call)
  PROVE  /\ only_data_variables(pog, call) = (Mentions(pog, call) \subseteq DataVariables)
         /\ only_projection_variables(pog, call) = (Mentions(pog, call) \cap DataVariables = {})
         /\ IABS(call) # TAUTOLOGY
<1>1. IABS(call) # TAUTOLOGY
   BY DEF is_node
<1> QED BY <1>1, Flags DEF CallState

LEMMA DataOnlyKeeps ==
  ASSUME IInv, DataOnly
  PROVE  Kept
<1>1. ReturnOnly(call) /\ pc = "call" /\ is_node(call) /\ only_data_variables(pog, call)
   BY DEF DataOnly
<1>2. OnData(pog, call)
   BY <1>1, CallFacts, NodeFlags DEF OnData, CallState
<1>3. Projects(pog, call, call)
   BY <1>1, <1>2, CallFacts, DataProjects DEF CallState
<1> QED BY <1>1, <1>3, ReturnKeeps

\* A node that is entered is an original one.
LEMMA EntersOriginal ==
  ASSUME CallState, is_node(call), DetectsPure => ~only_data_variables(pog, call)
  PROVE  Traversed(pog, root_literal, call) /\ InContext(pog, root_literal, call)
<1>1. ~(optlevel >= 2 /\ OnData(pog, call))
   BY NodeFlags DEF OnData, DetectsPure
<1>2. Original(pog, root_literal, call) /\ InContext(pog, root_literal, call)
   BY <1>1 DEF CallState, Callable
<1> QED BY <1>2 DEF Traversed, CallState, GraphInv

LEMMA ProjectionOnlyKeeps ==
  ASSUME IInv, ProjectionOnly
  PROVE  Kept
<1>1. /\ ReturnOnly(TAUTOLOGY) /\ pc = "call" /\ is_node(call) /\ ~only_data_variables(pog, call)
      /\ only_projection_variables(pog, call)
   BY DEF ProjectionOnly
<1>2. CallState
   BY <1>1, CallFacts
<1>3. Meaning(pog, call) # {}
   BY <1>1, <1>2, EntersOriginal, NodeHasModel
<1>4. Mentions(pog, call) \cap DataVariables = {}
   BY <1>1, <1>2, NodeFlags
<1>5. Projects(pog, call, TAUTOLOGY)
   BY <1>2, <1>3, <1>4, FreeProjects DEF CallState
<1> QED BY <1>1, <1>5, ReturnKeeps

LEMMA ArgumentCallable ==
  ASSUME NEW p, NEW root, NEW level, NEW e, Traversed(p, root, e), InContext(p, root, e),
         NEW k \in 1 .. Len(NodeOf(p, e).args)
  PROVE  /\ Callable(p, root, level, NodeOf(p, e).args[k]) /\ IsEdge(p, NodeOf(p, e).args[k])
<1> DEFINE x == NodeOf(p, e).args[k]
<1>1. NodeFacts(p, root, e)
   BY TraversedNode
<1>2. ArgumentFacts(p, root, e, x) /\ x \in ToSet(NodeOf(p, e).args)
   BY <1>1, ToSetSeq DEF NodeFacts
<1>3. InContext(p, root, x)
   BY <1>2, SumContext, ProductContext
<1> QED BY <1>2, <1>3 DEF ArgumentFacts, Callable

LEMMA EnterKeeps ==
  ASSUME IInv, Enter
  PROVE  Kept
<1> DEFINE args == NodeOf(pog, call).args
           y == args[1]
           frame == [edge |-> call, results |-> << >>,
                     dvar |-> IF is_sum(call) THEN get_decision_variable(pog, call) ELSE 0]
<1>1. /\ pc = "call" /\ MustEnter /\ frames' = Append(frames, frame) /\ call' = y
      /\ pog' = pog /\ root_literal' = root_literal /\ optlevel' = optlevel
      /\ tseitin_variables' = tseitin_variables /\ result_cache' = result_cache
      /\ pc' = pc /\ edge' = edge
   BY DEF Enter, given, ArgsOf
<1>2. CallState /\ is_node(call)
   BY <1>1, CallFacts DEF MustEnter
<1>3. Traversed(pog, root_literal, call) /\ InContext(pog, root_literal, call)
   BY <1>1, <1>2, EntersOriginal DEF MustEnter
<1>4. NodeFacts(pog, root_literal, call)
   BY <1>3, TraversedNode
<1>5. 1 \in 1 .. Len(args) /\ 0 < Len(args)
   BY <1>4 DEF NodeFacts
<1>6. Callable(pog, root_literal, optlevel, y) /\ IsEdge(pog, y)
   BY <1>3, <1>5, ArgumentCallable
<1>7. is_sum(call) <=> IsSum(pog, call)
   BY DEF is_sum, IsSum
<1>8. frame \in Frame
   <2>1. call \in Int
      BY <1>2 DEF CallState, IsEdge
   <2>2. frame.dvar \in Int
      <3>1. CASE is_sum(call)
         <4>1. get_decision_variable(pog, call) \in InputVariables
            BY <1>3, <3>1, Deciding DEF is_sum
         <4> QED BY <3>1, <4>1 DEF InputVariables
      <3>2. CASE ~is_sum(call)
         BY <3>2
      <3> QED BY <3>1, <3>2
   <2> QED BY <2>1, <2>2 DEF Frame
<1>9. frame.edge = call /\ frame.results = << >> /\ Len(frame.results) = 0
      /\ (is_sum(call) => frame.dvar = get_decision_variable(pog, call))
   OBVIOUS
<1> HIDE DEF frame
<1>10. FrameOK(pog, root_literal, optlevel, frame)
   BY <1>2, <1>3, <1>5, <1>7, <1>8, <1>9 DEF FrameOK, Traversed
<1>11. Awaits(pog, frame, y)
   BY <1>9 DEF Awaits
<1> HIDE DEF y
<1>12. StackOK(pog, root_literal, optlevel, Append(frames, frame), y)
   BY <1>9, <1>10, <1>11, Pushing DEF IInv, StackInv
<1>13. GraphInv' /\ GivenInv' /\ CacheInv' /\ StackInv'
   BY <1>1, <1>12 DEF IInv, GraphInv, GivenInv, CacheInv, StackInv
<1>14. ControlInv'
   BY <1>1, <1>6 DEF ControlInv
<1> QED BY <1>1, <1>13, <1>14, SameGraph DEF IInv, Kept

\* One more result.
LEMMA OneMoreResult ==
  ASSUME NEW frame \in Frame, NEW r \in Int
  PROVE  /\ WithResult(frame, r) \in Frame
         /\ WithResult(frame, r).edge = frame.edge /\ WithResult(frame, r).dvar = frame.dvar
         /\ Len(frame.results) \in Nat /\ frame.results \in Seq(Int)
         /\ Len(WithResult(frame, r).results) = Len(frame.results) + 1
         /\ WithResult(frame, r).results[Len(frame.results) + 1] = r
         /\ \A k \in 1 .. Len(frame.results) : WithResult(frame, r).results[k] = frame.results[k]
<1> DEFINE rs == frame.results
           new == WithResult(frame, r)
<1>1. rs \in Seq(Int) /\ Len(rs) \in Nat
   BY DEF Frame
<1>2. new.edge = frame.edge /\ new.dvar = frame.dvar /\ new.results = Append(rs, r)
   BY DEF WithResult, Frame
<1>3. Append(rs, r) \in Seq(Int) /\ Len(Append(rs, r)) = Len(rs) + 1
      /\ Append(rs, r)[Len(rs) + 1] = r
      /\ \A k \in 1 .. Len(rs) : Append(rs, r)[k] = rs[k]
   BY <1>1
<1>4. new \in Frame
   BY <1>3 DEF Frame, WithResult
<1> QED BY <1>1, <1>2, <1>3, <1>4

LEMMA NextArgumentKeeps ==
  ASSUME IInv, NextArgument
  PROVE  Kept
<1> DEFINE args == NodeOf(pog, Top.edge).args
           n == Len(Top.results)
           y == args[n + 2]
           frame == WithResult(Top, edge)
<1>1. Returned /\ TopOK
   BY TopFacts DEF NextArgument
<1>2. CallNext(y) /\ pog' = pog
   BY <1>1 DEF NextArgument, TopOK
<1>3. IF IsSum(pog, Top.edge) THEN Top.results = << >> /\ ~Decided(Top.results, edge)
      ELSE n + 1 < Len(args)
   BY <1>1, SumFlag DEF NextArgument, Degree, TopOK
<1>4. n \in Nat /\ Top \in Frame /\ edge \in Int /\ Len(args) \in Nat /\ Len(args) >= 2
   BY <1>1 DEF TopOK, Projects, IsEdge, NodeFacts
<1>5. IsSum(pog, Top.edge) => n = 0 /\ edge # TAUTOLOGY
   BY <1>3 DEF Decided
<1>6. n + 2 \in 1 .. Len(args)
   BY <1>3, <1>4, <1>5
<1>7. Callable(pog, root_literal, optlevel, y) /\ IsEdge(pog, y)
   BY <1>1, <1>6, ArgumentCallable DEF TopOK
<1>8. /\ frame \in Frame /\ frame.edge = Top.edge /\ frame.dvar = Top.dvar
      /\ Len(frame.results) = n + 1 /\ frame.results[n + 1] = edge
      /\ \A k \in 1 .. n : frame.results[k] = Top.results[k]
   BY <1>4, OneMoreResult
<1> HIDE DEF frame
<1>9. /\ Projects(pog, args[n + 1], edge)
      /\ \A k \in 1 .. n : Projects(pog, args[k], Top.results[k])
   BY <1>1, <1>5, NextResult
<1>10. \A k \in 1 .. Len(frame.results) : Projects(pog, args[k], frame.results[k])
   <2>1. \A k \in 1 .. n + 1 : k \in 1 .. n \/ k = n + 1
      BY <1>4
   <2> QED BY <1>8, <1>9, <2>1
<1>11. FrameOK(pog, root_literal, optlevel, frame)
   <2>1. ASSUME IsSum(pog, Top.edge)
         PROVE  /\ frame.dvar = get_decision_variable(pog, Top.edge)
                /\ Len(frame.results) = 1
                /\ \A k \in 1 .. Len(frame.results) : frame.results[k] # TAUTOLOGY
      <3>1. n = 0 /\ edge # TAUTOLOGY /\ Len(frame.results) = 1 /\ frame.results[1] = edge
         BY <1>5, <1>8, <2>1
      <3>2. frame.dvar = get_decision_variable(pog, Top.edge)
         BY <1>1, <1>8, <2>1 DEF TopOK, FrameOK
      <3> QED BY <3>1, <3>2
   <2>2. ~IsSum(pog, Top.edge) => Len(frame.results) < Len(args)
      BY <1>3, <1>8
   <2> QED BY <1>1, <1>8, <1>10, <2>1, <2>2 DEF FrameOK, TopOK
<1>12. Awaits(pog, frame, y)
   <2>1. y = args[Len(frame.results) + 1]
      <3>1. Len(frame.results) + 1 = n + 2
         BY <1>4, <1>8
      <3> QED BY <3>1
   <2>2. ~(IsSum(pog, Top.edge) /\ Len(frame.results) = 2)
      BY <1>5, <1>8
   <2> QED BY <1>8, <2>1, <2>2 DEF Awaits
<1> HIDE DEF y
<1> QED BY <1>1, <1>2, <1>7, <1>11, <1>12, CallKeeps, SameGraph DEF frame

LEMMA FinishProductKeeps ==
  ASSUME IInv, FinishProduct, Fits(pog')
  PROVE  Kept
<1> DEFINE args == NodeOf(pog, Top.edge).args
           n == Len(Top.results)
           rs == Append(Top.results, edge)
           made == MakeNode(pog, "PRODUCT", rs)
<1>1. Returned /\ TopOK /\ ~is_sum(Top.edge) /\ n + 1 = Len(args) /\ pog' = made.pog /\ Leave(made.edge)
   BY TopFacts DEF FinishProduct, InProduct, Degree, TopOK
<1>2. NodeOf(pog, Top.edge).type # "SUM" /\ ~IsSum(pog, Top.edge)
   BY <1>1, SumFlag
<1>3. /\ Projects(pog, args[n + 1], edge)
      /\ \A k \in 1 .. n : Projects(pog, args[k], Top.results[k])
   BY <1>1, <1>2, NextResult
<1>4. Top.results \in Seq(Int) /\ n \in Nat /\ edge \in Int
   BY <1>1 DEF TopOK, Projects, IsEdge
<1>5. /\ rs \in Seq(Int) /\ Len(rs) = n + 1 /\ rs[n + 1] = edge
      /\ \A k \in 1 .. n : rs[k] = Top.results[k]
   BY <1>4, AppendProperties
<1> HIDE DEF rs
<1>6. ResultsOf(pog, Top.edge, rs)
   <2>1. \A k \in 1 .. n + 1 : k \in 1 .. n \/ k = n + 1
      BY <1>4
   <2>2. \A k \in 1 .. Len(rs) : Projects(pog, args[k], rs[k])
      BY <1>3, <1>5, <2>1
   <2> QED BY <1>1, <1>5, <2>2 DEF ResultsOf
<1>7. Fits(made.pog)
   BY <1>1
<1>8. Outcome(pog, Top.edge, made.pog, made.edge)
   BY <1>1, <1>2, <1>6, <1>7, ProductProjects DEF TopOK
<1> HIDE DEF made
<1> QED BY <1>1, <1>8, LeaveKeeps

LEMMA SumDecidedKeeps ==
  ASSUME IInv, SumDecided
  PROVE  Kept
<1> DEFINE args == NodeOf(pog, Top.edge).args
           n == Len(Top.results)
<1>1. /\ Returned /\ TopOK /\ NodeOf(pog, Top.edge).type = "SUM" /\ n < 2 /\ edge = TAUTOLOGY
      /\ Leave(TAUTOLOGY) /\ pog' = pog
   BY TopFacts, SumFlag DEF SumDecided, InSum, Decided
<1>2. n \in Nat
   BY <1>1 DEF TopOK
<1>3. n + 1 \in {1, 2} /\ ~(n = 2)
   BY <1>1, <1>2, SMTT(30)
<1>4. Projects(pog, args[n + 1], TAUTOLOGY)
   BY <1>1, <1>3, NextResult
<1>5. Outcome(pog, Top.edge, pog, TAUTOLOGY)
   BY <1>1, <1>3, <1>4, DecidedProjects DEF TopOK
<1> QED BY <1>1, <1>5, LeaveKeeps

LEMMA SumIdenticalKeeps ==
  ASSUME IInv, SumIdentical
  PROVE  Kept
<1>1. Both /\ Top.results[1] = edge /\ Leave(edge) /\ pog' = pog /\ Returned
   BY DEF SumIdentical, Both, InSum
<1>2. SumResults(pog, root_literal, Top.edge, edge, edge)
   BY <1>1, BothFacts
<1>3. Outcome(pog, Top.edge, pog, edge)
   BY <1>2, CoveredProjects
<1> QED BY <1>1, <1>3, LeaveKeeps

LEMMA SumCoversKeeps ==
  ASSUME IInv, SumCovers
  PROVE  Kept
<1>1. Both /\ Leave(TAUTOLOGY) /\ pog' = pog /\ Returned /\ sums_to_tautology(Top.results[1], edge)
   BY DEF SumCovers, Both, InSum
<1>2. Meaning(pog, Top.results[1]) \cup Meaning(pog, edge) = Assignments
   BY <1>1 DEF sums_to_tautology, Meaning
<1>3. Outcome(pog, Top.edge, pog, TAUTOLOGY)
   BY <1>1, <1>2, BothFacts, WholeProjects
<1> QED BY <1>1, <1>3, LeaveKeeps

\* The results have no common model when the code takes it for granted.
LEMMA ExclusiveResults ==
  ASSUME IInv, Both, Exclusive(Top.dvar, Top.results[1], edge)
  PROVE  Meaning(pog, Top.results[1]) \cap Meaning(pog, edge) = {}
<1> DEFINE r1 == Top.results[1]
<1>1. TopOK /\ SumResults(pog, root_literal, Top.edge, r1, edge)
   BY BothFacts
<1>2. pog.data_variables = DataVariables /\ TseitinOK(pog, root_literal, optlevel, tseitin_variables)
   BY DEF IInv, GraphInv, GraphOK, GivenInv
<1>3. Top.dvar = get_decision_variable(pog, Top.edge) /\ InContext(pog, root_literal, Top.edge)
   <2>1. IsSum(pog, Top.edge)
      BY <1>1, SumFlag DEF Both, InSum
   <2> QED BY <1>1, <2>1 DEF TopOK, FrameOK
<1>4. CASE Top.dvar \in pog.data_variables
   BY <1>1, <1>2, <1>3, <1>4, DataDecision
<1>5. CASE Top.dvar \in tseitin_variables
   BY <1>1, <1>2, <1>3, <1>5, TseitinDecision
<1>6. CASE Intersection(r1, edge) = {}
   BY <1>6 DEF Intersection, Meaning
<1> QED BY <1>4, <1>5, <1>6 DEF Exclusive

LEMMA SumExclusiveKeeps ==
  ASSUME IInv, SumExclusive, Fits(pog')
  PROVE  Kept
<1> DEFINE r1 == Top.results[1]
           made == MakeNode(pog, "SUM", << r1, edge >>)
<1>1. /\ Both /\ Returned /\ Exclusive(Top.dvar, r1, edge)
      /\ pog' = made.pog /\ Leave(made.edge)
   BY DEF SumExclusive, Different, Both, InSum
<1>2. SumResults(pog, root_literal, Top.edge, r1, edge)
   BY <1>1, BothFacts
<1>3. Meaning(pog, r1) \cap Meaning(pog, edge) = {}
   BY <1>1, ExclusiveResults
<1>4. Fits(made.pog)
   BY <1>1
<1>5. Outcome(pog, Top.edge, made.pog, made.edge)
   BY <1>2, <1>3, <1>4, ExclusiveProjects
<1> HIDE DEF made
<1> QED BY <1>1, <1>5, LeaveKeeps

LEMMA SumAbsorbsKeeps ==
  ASSUME IInv, SumAbsorbs
  PROVE  Kept
<1> DEFINE e == Absorbed(Top.results[1], Top.results[2], edge)
<1>1. Intersected /\ Returned /\ e # 0 /\ Leave(e) /\ pog' = pog
   BY DEF SumAbsorbs, Intersected, InSum
<1>2. Outcome(pog, Top.edge, pog, e)
   BY <1>1, IntersectedFacts, AbsorbedProjects DEF IInv
<1> HIDE DEF e
<1> QED BY <1>1, <1>2, LeaveKeeps

LEMMA SumExcludingKeeps ==
  ASSUME IInv, SumExcluding, Fits(pog')
  PROVE  Kept
<1> DEFINE made == Excluding(pog, Top.results[1], Top.results[2], edge)
<1>1. Intersected /\ Returned /\ pog' = made.pog /\ Leave(made.edge)
   BY DEF SumExcluding, Intersected, InSum
<1>2. Fits(made.pog)
   BY <1>1
<1>3. Outcome(pog, Top.edge, made.pog, made.edge)
   BY <1>1, <1>2, IntersectedFacts, ExcludingProjects
<1> HIDE DEF made
<1> QED BY <1>1, <1>3, LeaveKeeps

LEMMA SumCompileKeeps ==
  ASSUME IInv, SumCompile, Fits(pog'), CompilerContract
  PROVE  Kept
<1> DEFINE r1 == Top.results[1]
           args == NodeOf(pog, Top.edge).args
           frame == WithResult(Top, edge)
<1>1. /\ Both /\ Returned /\ ~Exclusive(Top.dvar, r1, edge)
      /\ \E made \in CompiledTo(r1, edge) : pog' = made.pog /\ CallNext(made.edge)
   BY DEF SumCompile, Different, Both, InSum
<1>2. PICK made \in CompiledTo(r1, edge) : pog' = made.pog /\ CallNext(made.edge)
   BY <1>1
<1>3. TopOK /\ SumResults(pog, root_literal, Top.edge, r1, edge) /\ edge # TAUTOLOGY
   BY <1>1, BothFacts
<1>4. Fits(made.pog) /\ GraphInv
   BY <1>2 DEF IInv
<1>5. /\ WellFormed(made.pog) /\ Countable(made.pog) /\ Grown(pog, made.pog)
      /\ Overlap(made.pog, r1, edge, made.edge)
   <2>1. IABS(r1) # TAUTOLOGY /\ IABS(edge) # TAUTOLOGY
      BY <1>1, BothFacts
   <2>2. Intersection(r1, edge) # {}
      BY <1>1 DEF Exclusive
   <2> QED BY <1>2, <1>3, <1>4, <2>1, <2>2, CompiledOverlaps
<1>6. Later(pog, pog', root_literal)
   BY <1>2, <1>4, <1>5, Growing DEF GraphInv
<1>7. IsSum(pog, Top.edge) /\ Len(Top.results) = 1 /\ NodeOf(pog, Top.edge).type = "SUM"
   BY <1>1, <1>3, SumFlag DEF Both, InSum
<1>8. optlevel >= 2
   <2>1. Top.dvar \notin DataVariables /\ Top.dvar \notin tseitin_variables
      BY <1>1, <1>4 DEF Exclusive, GraphInv, GraphOK
   <2>2. Top.dvar \in InputVariables
      BY <1>3, <1>7, Deciding DEF TopOK, FrameOK
   <2>3. ~(optlevel < 2) /\ optlevel \in Nat
      BY <2>1, <2>2, OptLevelAssumption DEF IInv, GivenInv, TseitinOK
   <2> QED BY <2>3
<1>9. Top \in Frame /\ edge \in Int
   BY <1>3 DEF TopOK, Projects, IsEdge
<1>10. /\ frame \in Frame /\ frame.edge = Top.edge /\ frame.dvar = Top.dvar
       /\ Len(frame.results) = 2 /\ frame.results[1] = r1 /\ frame.results[2] = edge
   <2>1. /\ frame \in Frame /\ frame.edge = Top.edge /\ frame.dvar = Top.dvar
         /\ Len(frame.results) = Len(Top.results) + 1
         /\ frame.results[Len(Top.results) + 1] = edge
         /\ \A k \in 1 .. Len(Top.results) : frame.results[k] = Top.results[k]
      BY <1>9, OneMoreResult
   <2>2. Len(Top.results) + 1 = 2 /\ 1 \in 1 .. Len(Top.results)
      BY <1>7
   <2> QED BY <2>1, <2>2
<1> HIDE DEF frame
\* The frame before the graph grows.
<1>11. FrameOK(pog, root_literal, optlevel, frame)
   <2>1. /\ Original(pog, root_literal, frame.edge) /\ is_node(frame.edge)
         /\ InContext(pog, root_literal, frame.edge)
         /\ frame.dvar = get_decision_variable(pog, frame.edge)
      BY <1>3, <1>7, <1>10 DEF TopOK, FrameOK
   <2>2. Projects(pog, args[1], r1) /\ Projects(pog, args[2], edge)
      BY <1>3 DEF SumResults
   <2>3. r1 # TAUTOLOGY
      BY <1>1, BothFacts
   <2>4. \A k \in 1 .. Len(frame.results) :
            frame.results[k] # TAUTOLOGY /\ Projects(pog, args[k], frame.results[k])
      <3>1. \A k \in 1 .. Len(frame.results) : k = 1 \/ k = 2
         BY <1>10
      <3> QED BY <1>3, <1>10, <2>2, <2>3, <3>1
   <2> QED BY <1>7, <1>8, <1>10, <2>1, <2>4 DEF FrameOK
<1>12. FrameOK(pog', root_literal, optlevel, frame)
   BY <1>6, <1>11, FrameLater
<1>13. Awaits(pog', frame, made.edge)
   <2>1. IsSum(pog', Top.edge)
      <3>1. IsEdge(pog, Top.edge)
         BY <1>3 DEF TopOK, NodeFacts
      <3> QED BY <1>6, <1>7, <3>1 DEF IsSum, Later, KeepsEdges
   <2> QED BY <1>2, <1>5, <1>10, <2>1 DEF Awaits
<1>14. Callable(pog', root_literal, optlevel, made.edge) /\ IsEdge(pog', made.edge)
   BY <1>2, <1>5, <1>8 DEF Overlap, OnData, Callable
<1> QED BY <1>1, <1>2, <1>6, <1>12, <1>13, <1>14, CallKeeps DEF frame

LEMMA StutterKeeps ==
  ASSUME IInv, UNCHANGED vars
  PROVE  Kept
BY SameGraph DEF IInv, GraphInv, GivenInv, CacheInv, StackInv, ControlInv, vars, Kept

\* Every step keeps the invariant.
LEMMA StepKeeps ==
  ASSUME IInv, [Next]_vars, Fits(pog'), CompilerContract
  PROVE  Kept
<1>1. CASE Leaf
   BY <1>1, LeafKeeps
<1>2. CASE Reuse
   BY <1>2, ReuseKeeps
<1>3. CASE DataOnly
   BY <1>3, DataOnlyKeeps
<1>4. CASE ProjectionOnly
   BY <1>4, ProjectionOnlyKeeps
<1>5. CASE Enter
   BY <1>5, EnterKeeps
<1>6. CASE NextArgument
   BY <1>6, NextArgumentKeeps
<1>7. CASE FinishProduct
   BY <1>7, FinishProductKeeps
<1>8. CASE SumDecided
   BY <1>8, SumDecidedKeeps
<1>9. CASE SumIdentical
   BY <1>9, SumIdenticalKeeps
<1>10. CASE SumCovers
   BY <1>10, SumCoversKeeps
<1>11. CASE SumExclusive
   BY <1>11, SumExclusiveKeeps
<1>12. CASE SumCompile
   BY <1>12, SumCompileKeeps
<1>13. CASE SumAbsorbs
   BY <1>13, SumAbsorbsKeeps
<1>14. CASE SumExcluding
   BY <1>14, SumExcludingKeeps
<1>15. CASE Done \/ UNCHANGED vars
   BY <1>15, StutterKeeps DEF Done
<1> QED BY <1>1, <1>2, <1>3, <1>4, <1>5, <1>6, <1>7, <1>8, <1>9, <1>10, <1>11, <1>12,
           <1>13, <1>14, <1>15 DEF Next

LEMMA InitKeeps ==
  ASSUME Init, Fits(pog), CompilerContract
  PROVE  IInv
<1>1. PICK clauses \in Formulas, order \in Orders :
         /\ pog = Compiled(EmptyPog(DataVariables), Models(InputVariables, clauses), VariablesOf(clauses), order).pog
         /\ root_literal = Compiled(EmptyPog(DataVariables), Models(InputVariables, clauses), VariablesOf(clauses), order).edge
         /\ tseitin_variables \in
              SUBSET { v \in InputVariables \ DataVariables :
                         Determined(InputVariables, DataVariables, clauses, v) }
         /\ optlevel \in OptLevels
         /\ optlevel < 2 => tseitin_variables = InputVariables \ DataVariables
   BY DEF Init
<1>2. /\ result_cache = << >> /\ frames = << >> /\ pc = "call" /\ call = root_literal
   BY DEF Init
<1> DEFINE p == EmptyPog(DataVariables)
           f == Models(InputVariables, clauses)
           made == Compiled(p, f, VariablesOf(clauses), order)
<1>3. pog = made.pog /\ root_literal = made.edge /\ Fits(made.pog)
   BY <1>1
<1>4. /\ Represents(p, f, InputVariables, made)
      /\ \A i \in DOMAIN made.pog.nodes : DecisionNode(made.pog, i)
      /\ is_node(made.edge) => made.edge > 0
   BY <1>3 DEF CompilerContract, FirstGraph
<1>5. p.data_variables = DataVariables
   BY DEF EmptyPog
<1> HIDE DEF made, p, f
<1>6. /\ WellFormed(pog) /\ Countable(pog) /\ pog.data_variables = DataVariables
      /\ IsEdge(pog, root_literal) /\ Meaning(pog, root_literal) = f
   BY <1>3, <1>4, <1>5 DEF Represents, Meaning
<1>7. GraphInv
   <2>1. ASSUME is_node(root_literal), NEW i \in 1 .. root_literal - NInput
         PROVE  DecisionNode(pog, i)
      <3>1. root_literal > 0 /\ root_literal \in Int /\ root_literal # TAUTOLOGY
            /\ root_literal \in 1 .. (NInput + Len(pog.nodes)) \cup {TAUTOLOGY}
         BY <1>3, <1>4, <1>6, <2>1 DEF IsEdge, IABS, is_node
      <3>2. DOMAIN pog.nodes = 1 .. Len(pog.nodes) /\ NInput \in Nat /\ Len(pog.nodes) \in Nat
         BY <1>6, Sizes
      <3>3. i \in DOMAIN pog.nodes
         BY <3>1, <3>2
      <3> QED BY <1>3, <1>4, <3>3
   <2> QED BY <1>3, <1>4, <1>6, <2>1 DEF GraphInv, GraphOK
<1>8. GivenInv
   <2>1. \A v \in tseitin_variables : \A a, b \in f :
            a \cap DataVariables = b \cap DataVariables => (v \in a <=> v \in b)
      BY <1>1 DEF Determined, f
   <2> QED BY <1>1, <1>6, <2>1 DEF GivenInv, TseitinOK
<1>9. CacheInv
   BY <1>2 DEF CacheInv, CacheOK
<1>10. StackInv
   <2>1. << >> \in Seq(Frame) /\ Len(<< >>) = 0
      OBVIOUS
   <2> QED BY <1>2, <2>1 DEF StackInv, StackOK
<1>11. ControlInv
   <2>1. Original(pog, root_literal, root_literal)
      <3>1. root_literal \in Int
         BY <1>6 DEF IsEdge
      <3> QED BY <1>3, <1>4, <1>6, <3>1 DEF Original
   <2>2. InContext(pog, root_literal, root_literal)
      <3>1. {} \in Assignments
         BY DEF Assignments
      <3> QED BY <3>1 DEF InContext
   <2> QED BY <1>2, <1>6, <2>1, <2>2 DEF ControlInv, Callable
<1> QED BY <1>7, <1>8, <1>9, <1>10, <1>11 DEF IInv

-----------------------------------------------------------------------------
(* What the invariant says of the properties *)

LEMMA InvTypeOK ==
  ASSUME IInv
  PROVE  TypeOK
<1>1. WellFormed(pog) /\ IsEdge(pog, root_literal) /\ StackOK(pog, root_literal, optlevel, frames, call)
   BY DEF IInv, GraphInv, GraphOK, StackInv
<1>2. pog.nodes \in Seq(Node)
   BY <1>1 DEF WellFormed
<1>3. \A e \in DOMAIN result_cache : IsEdge(pog, e) /\ IsEdge(pog, result_cache[e])
   BY DEF IInv, CacheInv, CacheOK, Projects
<1>4. frames \in Seq(Frame) /\ DOMAIN frames = 1 .. Len(frames)
   BY <1>1 DEF StackOK
<1>5. ASSUME NEW i \in DOMAIN frames
      PROVE  /\ IsEdge(pog, frames[i].edge)
             /\ \A e \in ToSet(frames[i].results) : IsEdge(pog, e)
   <2>1. FrameOK(pog, root_literal, optlevel, frames[i])
      BY <1>1, <1>4 DEF StackOK
   <2>2. frames[i].results \in Seq(Int)
      BY <2>1 DEF FrameOK, Frame
   <2>3. \A k \in 1 .. Len(frames[i].results) : IsEdge(pog, frames[i].results[k])
      BY <2>1 DEF FrameOK, Projects
   <2>4. DOMAIN frames[i].results = 1 .. Len(frames[i].results)
      BY <2>2
   <2> QED BY <2>1, <2>3, <2>4 DEF FrameOK, Original, ToSet
<1> QED BY <1>1, <1>2, <1>3, <1>4, <1>5 DEF TypeOK, IInv, GivenInv, ControlInv, Projects

LEMMA InvEdgesAsExpected ==
  ASSUME IInv
  PROVE  EdgesAsExpected
<1>1. ASSUME pc = "call", MustEnter
      PROVE  /\ call > 0
             /\ is_sum(call) => /\ get_decision_variable(pog, call) \in InputVariables
                                /\ Len(ArgsOf(call)) = 2
                                /\ is_node(ArgsOf(call)[2])
   <2>1. Traversed(pog, root_literal, call)
      BY <1>1, CallFacts, EntersOriginal DEF MustEnter
   <2>2. call > 0
      BY <2>1 DEF Traversed, Original
   <2> QED BY <2>1, <2>2, Deciding DEF is_sum, ArgsOf
<1>2. Both => IABS(edge) # TAUTOLOGY /\ IABS(Top.results[1]) # TAUTOLOGY
   BY BothFacts
<1> QED BY <1>1, <1>2 DEF EdgesAsExpected

LEMMA InvReturnsProjection ==
  ASSUME IInv
  PROVE  ReturnsProjection
<1> SUFFICES ASSUME pc = "return"
             PROVE  /\ Meaning(pog, edge) = Shadow(Meaning(pog, call), DataVariables)
                    /\ IABS(edge) = TAUTOLOGY \/ only_data_variables(pog, edge)
   BY DEF ReturnsProjection, Meaning
<1>1. Projects(pog, call, edge) /\ WellFormed(pog) /\ pog.data_variables = DataVariables
   BY DEF IInv, ControlInv, GraphInv, GraphOK
<1>2. IABS(edge) # TAUTOLOGY => only_data_variables(pog, edge)
   BY <1>1, Flags DEF Projects
<1> QED BY <1>1, <1>2 DEF Projects

\* The last result is the projection of the root.
LEMMA FinalResult ==
  ASSUME IInv, Finished
  PROVE  Projects(pog, root_literal, edge)
BY DEF IInv, Finished, ControlInv, StackInv, StackOK

LEMMA InvCountsModels ==
  ASSUME IInv
  PROVE  CountsModels
<1> SUFFICES ASSUME Finished
             PROVE  ring_evaluate(pog, edge) =
                      Cardinality({ a \cap DataVariables : a \in Meaning(pog, root_literal) })
   BY DEF CountsModels, Meaning
<1>1. /\ WellFormed(pog) /\ Countable(pog) /\ pog.data_variables = DataVariables
      /\ Projects(pog, root_literal, edge)
   BY FinalResult DEF IInv, GraphInv, GraphOK
<1>2. IsEdge(pog, edge) /\ DataEdge(pog, edge)
   BY <1>1 DEF Projects, DataEdge
<1>3. ring_evaluate(pog, edge) = Cardinality({ a \cap DataVariables : a \in Meaning(pog, edge) })
   BY <1>1, <1>2, CountIsExact
<1>4. { a \cap DataVariables : a \in Meaning(pog, edge) } =
         { a \cap DataVariables : a \in Meaning(pog, root_literal) }
   <2> DEFINE f == Meaning(pog, root_literal)
              g == Meaning(pog, edge)
   <2>1. g = Shadow(f, DataVariables) /\ f \subseteq Assignments
      BY <1>1, EdgeOver DEF Projects
   <2> HIDE DEF f, g
   <2>2. \A a \in g : \E b \in f : a \cap DataVariables = b \cap DataVariables
      BY <2>1, ShadowFacts
   <2>3. \A b \in f : b \in g
      BY <2>1, ShadowFacts
   <2>4. { a \cap DataVariables : a \in g } = { a \cap DataVariables : a \in f }
      BY <2>2, <2>3
   <2> QED BY <2>4 DEF f, g
<1> QED BY <1>3, <1>4

-----------------------------------------------------------------------------
(* The theorems: with compilers that keep their promise, and node IDs below   *)
(* TAUTOLOGY.                                                                *)

\* The inductive invariant.
THEOREM TraverseInvariant ==
  ASSUME CompilerContract
  PROVE  Spec /\ []Fits(pog) => []IInv
<1>1. Init /\ Fits(pog) => IInv
   BY InitKeeps
<1>2. IInv /\ [Next]_vars /\ Fits(pog)' => IInv'
   BY StepKeeps DEF Kept
<1> QED BY <1>1, <1>2, PTL DEF Spec

\* traverse, traverse_sum, traverse_product: every edge that is kept, cached or
\* returned is an edge of the graph.
THEOREM EdgesStayTyped ==
  ASSUME CompilerContract
  PROVE  Spec /\ []Fits(pog) => []TypeOK
<1>1. IInv => TypeOK
   BY InvTypeOK
<1> QED BY <1>1, TraverseInvariant, PTL

\* traverse_sum and get_decision_variable meet only sums of two parts that
\* decide on a variable, nodes that are not negated, and clausify no constants.
THEOREM EdgesAreExpected ==
  ASSUME CompilerContract
  PROVE  Spec /\ []Fits(pog) => []EdgesAsExpected
<1>1. IInv => EdgesAsExpected
   BY InvEdgesAsExpected
<1> QED BY <1>1, TraverseInvariant, PTL

\* traverse: whatever rule it uses, the result is the projection of the edge,
\* and it mentions data variables only.
THEOREM TraverseProjects ==
  ASSUME CompilerContract
  PROVE  Spec /\ []Fits(pog) => []ReturnsProjection
<1>1. IInv => ReturnsProjection
   BY InvReturnsProjection
<1> QED BY <1>1, TraverseInvariant, PTL

\* traverse_sum and traverse_product: the arguments of sums stay exclusive, and
\* those of products independent.
THEOREM GraphStaysCountable ==
  ASSUME CompilerContract
  PROVE  Spec /\ []Fits(pog) => []StaysCountable
<1>1. IInv => StaysCountable
   BY DEF IInv, GraphInv, GraphOK, StaysCountable
<1> QED BY <1>1, TraverseInvariant, PTL

\* ring_evaluate of the result counts the projected models of the formula.
THEOREM ProjectedCount ==
  ASSUME CompilerContract
  PROVE  Spec /\ []Fits(pog) => []CountsModels
<1>1. IInv => CountsModels
   BY InvCountsModels
<1> QED BY <1>1, TraverseInvariant, PTL

-----------------------------------------------------------------------------
(* The traversal implements the abstract projector. *)

\* The state of the projector.
Goal == EdgeModels(AllModels(pog), root_literal)

Known == UNION { { << EdgeModels(models, e), EdgeModels(models, result_cache[e]) >> :
                     e \in DOMAIN result_cache } : models \in {AllModels(pog)} }

TheAnswer == IF Finished THEN EdgeModels(AllModels(pog), edge) ELSE NoAnswer

LEMMA KnownPairs ==
  Known = { << Meaning(pog, e), Meaning(pog, result_cache[e]) >> : e \in DOMAIN result_cache }
BY DEF Known, Meaning

LEMMA ProjectIsShadow ==
  ASSUME NEW f
  PROVE  Abstract!Project(f) = Shadow(f, DataVariables)
<1>1. \A a : a \in Shadow(f, DataVariables) <=>
               a \in Assignments /\ \E b \in f : a \cap DataVariables = b \cap DataVariables
   BY ShadowFacts
<1> QED BY <1>1 DEF Abstract!Project, Assignments

\* What is in the cache is a projection.
LEMMA KnownRight ==
  CacheInv => \A pair \in Known : pair[2] = Abstract!Project(pair[1])
<1> SUFFICES ASSUME CacheInv, NEW pair \in Known
             PROVE  pair[2] = Abstract!Project(pair[1])
   OBVIOUS
<1>1. PICK e \in DOMAIN result_cache :
         pair = << Meaning(pog, e), Meaning(pog, result_cache[e]) >>
   BY KnownPairs
<1>2. Projects(pog, e, result_cache[e])
   BY DEF CacheInv, CacheOK
<1> QED BY <1>1, <1>2, ProjectIsShadow DEF Projects

LEMMA KnownRightNext ==
  (CacheInv => \A pair \in Known : pair[2] = Abstract!Project(pair[1]))'
BY KnownRight, PTL

\* Nothing is forgotten: an entry that is set again gets an equal meaning.
LEMMA KnownGrows ==
  ASSUME IInv, Kept
  PROVE  Known \subseteq Known' /\ Goal' = Goal
<1>1. /\ CacheInv /\ CacheInv' /\ KeepsEdges(pog, pog') /\ root_literal' = root_literal
      /\ DOMAIN result_cache \subseteq DOMAIN result_cache'
   BY DEF IInv, Kept, Later
<1>2. ASSUME NEW e \in DOMAIN result_cache
      PROVE  << Meaning(pog, e), Meaning(pog, result_cache[e]) >> \in Known'
   <2>1. e \in DOMAIN result_cache'
      BY <1>1
   <2>2. Projects(pog, e, result_cache[e]) /\ Projects(pog', e, result_cache'[e])
      BY <1>1, <2>1 DEF CacheInv, CacheOK
   <2>3. Meaning(pog', e) = Meaning(pog, e)
      BY <1>1, <2>2 DEF Projects, KeepsEdges
   <2>4. Meaning(pog', result_cache'[e]) = Meaning(pog, result_cache[e])
      BY <2>2, <2>3 DEF Projects
   <2>5. Known' = { << Meaning(pog', x), Meaning(pog', result_cache'[x]) >> :
                      x \in DOMAIN result_cache' }
      BY DEF Known, Meaning
   <2> QED BY <2>1, <2>3, <2>4, <2>5
<1>3. Goal' = Goal
   <2>1. IsEdge(pog, root_literal)
      BY DEF IInv, GraphInv, GraphOK
   <2> QED BY <1>1, <2>1 DEF Goal, KeepsEdges, Meaning
<1> QED BY <1>2, <1>3, KnownPairs

\* The result that is returned last answers the question.
LEMMA AnswerRight ==
  IInv /\ Finished => TheAnswer = Abstract!Project(Goal)
BY FinalResult, ProjectIsShadow DEF Projects, TheAnswer, Goal, Meaning

LEMMA AnswerRightNext ==
  (IInv /\ Finished => TheAnswer = Abstract!Project(Goal))'
BY AnswerRight, PTL

LEMMA FinishedStays ==
  ASSUME Finished, [Next]_vars
  PROVE  UNCHANGED vars
<1>1. pc = "return" /\ frames = << >> /\ ~Returned /\ pc # "call"
   BY DEF Finished, Returned
<1> QED BY <1>1 DEF Next, Leaf, Reuse, DataOnly, ProjectionOnly, Enter, NextArgument, FinishProduct,
           SumDecided, SumIdentical, SumCovers, SumExclusive, SumCompile, SumAbsorbs, SumExcluding,
           Done, InProduct, InSum, Both, Different, Intersected

LEMMA AbstractStep ==
  ASSUME IInv, Kept, [Next]_vars
  PROVE  [Abstract!Next]_(Abstract!vars)
<1>1. Known \subseteq Known' /\ Goal' = Goal
   BY KnownGrows
<1>2. CASE Finished
   <2>1. UNCHANGED vars
      BY <1>2, FinishedStays
   <2>2. Known' = Known /\ TheAnswer' = TheAnswer
      BY <2>1 DEF vars, Known, TheAnswer, Finished
   <2> QED BY <1>1, <2>2 DEF Abstract!vars, Known, Goal, TheAnswer
<1>3. CASE ~Finished
   <2>1. \A pair \in Known' : pair[2] = Abstract!Project(pair[1])
      BY KnownRightNext DEF Kept, IInv
   <2>2. TheAnswer = NoAnswer
      BY <1>3 DEF TheAnswer
   <2>3. CASE ~Finished'
      <3>1. TheAnswer' = NoAnswer
         BY <2>3 DEF TheAnswer
      <3>2. Abstract!Learn
         BY <1>1, <2>1, <2>2, <3>1 DEF Abstract!Learn, Known, Goal, TheAnswer
      <3> QED BY <3>2 DEF Abstract!Next
   <2>4. CASE Finished'
      <3>1. TheAnswer' = Abstract!Project(Goal)
         BY <1>1, <2>4, AnswerRightNext DEF Kept
      <3>2. Abstract!Answer
         BY <1>1, <2>1, <2>2, <3>1 DEF Abstract!Answer, Known, Goal, TheAnswer
      <3> QED BY <3>2 DEF Abstract!Next
   <2> QED BY <2>3, <2>4
<1> QED BY <1>2, <1>3

\* The cache only gains projections, and the answer is the projection of the
\* formula: every behaviour of the traversal is one of the projector.
THEOREM ProjectorImplemented ==
  ASSUME CompilerContract
  PROVE  Spec /\ []Fits(pog) => ImplementsProjector
<1>1. Init => Abstract!Init
   BY DEF Init, Abstract!Init, Finished
<1>2. IInv /\ Fits(pog)' /\ [Next]_vars => [Abstract!Next]_(Abstract!vars)
   BY StepKeeps, AbstractStep
<1> QED BY <1>1, <1>2, TraverseInvariant, PTL DEF Spec, ImplementsProjector, Abstract!Spec
=============================================================================

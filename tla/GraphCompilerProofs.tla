------------------------- MODULE GraphCompilerProofs -------------------------
(***************************************************************************)
(* Planning is right for every set of well-formed graphs, every alignment  *)
(* and every number of rows: an MLP keeps its meaning in normal form, the  *)
(* dispatches hide nothing that is used outside, and temporaries that are  *)
(* alive together do not share bytes.                                      *)
(***************************************************************************)
EXTENDS GraphCompiler, RowPartitionProofs, SequenceTheorems, FiniteSetTheorems, WellFoundedInduction,
        TLAPS

(* A set of natural numbers that has an element has a least one, ...       *)
LEMMA MinOfIsLeast ==
  ASSUME NEW S \in SUBSET Nat, S # {}
  PROVE  MinOf(S) \in S /\ \A y \in S : MinOf(S) <= y
<1>1. PICK m \in S : \A y \in S : ~(<<y, m>> \in OpToRel(<, Nat))
  BY NatLessThanWellFounded, WFMin
<1>2. ASSUME NEW y \in S PROVE m <= y
  <2>1. m \in Nat /\ y \in Nat /\ ~(y < m)
    BY <1>1 DEF OpToRel
  <2> QED
    BY <2>1
<1> QED
  BY <1>2 DEF MinOf

(* ... and one that is bounded has a greatest.                             *)
LEMMA MaxOfIsGreatest ==
  ASSUME NEW n \in Nat, NEW S \in SUBSET (0 .. n), S # {}
  PROVE  MaxOf(S) \in S /\ \A y \in S : y <= MaxOf(S)
<1> DEFINE Above == {x \in 0 .. n : \A y \in S : y <= x}
<1>1. n \in Above /\ Above \in SUBSET Nat
  OBVIOUS
<1>2. PICK m \in Above : \A x \in Above : m <= x
  BY <1>1, MinOfIsLeast
<1>3. m \in S
  <2> SUFFICES ASSUME m \notin S PROVE FALSE
    OBVIOUS
  <2>1. \A y \in S : y <= m /\ y # m /\ y \in Nat
    BY <1>2
  <2>2. m - 1 \in 0 .. n /\ \A y \in S : y <= m - 1
    <3>1. PICK y \in S : TRUE
      OBVIOUS
    <3>2. m \in 0 .. n /\ y \in Nat /\ y <= m /\ y # m
      BY <1>2, <2>1
    <3>3. \A z \in S : z \in Nat /\ z <= m - 1
      BY <2>1, <3>2
    <3> QED
      BY <3>2, <3>3
  <2>3. m - 1 \in Above
    BY <2>2
  <2> QED
    BY <1>2, <2>3
<1> QED
  BY <1>2, <1>3 DEF MaxOf

(* What a well-formed graph says of the operands of a node.                *)
LEMMA NodeFacts ==
  ASSUME NEW g, WellFormed(g), NEW v \in DOMAIN g.nodes
  PROVE  /\ DOMAIN g.nodes = 1 .. Len(g.nodes) /\ Len(g.nodes) \in Nat /\ v \in Nat
         /\ g.nodes[v].inputs \in Seq(1 .. v - 1)
         /\ g.nodes[v].type \in Types
         /\ \A i \in DOMAIN g.nodes[v].inputs : g.nodes[v].inputs[i] \in 1 .. v - 1
         /\ g.nodes[v].kind \notin Leaves => 1 \in DOMAIN g.nodes[v].inputs
         /\ g.nodes[v].kind \in {"MatMul", "Add", "Multiply", "Maximum"} =>
              DOMAIN g.nodes[v].inputs = {1, 2}
<1>1. /\ DOMAIN g.nodes = 1 .. Len(g.nodes) /\ Len(g.nodes) \in Nat /\ v \in Nat
      /\ g.nodes[v].inputs \in Seq(1 .. v - 1) /\ g.nodes[v].type \in Types
  BY DEF WellFormed
<1>2. \A i \in DOMAIN g.nodes[v].inputs : g.nodes[v].inputs[i] \in 1 .. v - 1
  BY <1>1
<1>3. ASSUME g.nodes[v].kind \notin Leaves PROVE 1 \in DOMAIN g.nodes[v].inputs
  <2>1. g.nodes[v].inputs # <<>>
    BY <1>3 DEF WellFormed
  <2> QED
    BY <1>1, <2>1
<1>4. ASSUME g.nodes[v].kind \in {"MatMul", "Add", "Multiply", "Maximum"}
      PROVE  DOMAIN g.nodes[v].inputs = {1, 2}
  <2>1. Len(g.nodes[v].inputs) = 2
    BY <1>4 DEF WellFormed
  <2> QED
    BY <1>1, <2>1
<1> QED
  BY <1>1, <1>2, <1>3, <1>4

-----------------------------------------------------------------------------
(* Shape inference.  The type of a value depends on values before it only, *)
(* so that the recursive definition defines a function.                    *)
LEMMA TypeAtLocal ==
  ASSUME NEW g, WellFormed(g), NEW v \in DOMAIN g.nodes, NEW f, NEW h,
         \A u \in 1 .. v - 1 : f[u] = h[u]
  PROVE  TypeAt(g, f, v) = TypeAt(g, h, v)
<1> DEFINE node == g.nodes[v]
<1>1. \A i \in DOMAIN node.inputs : f[node.inputs[i]] = h[node.inputs[i]]
  BY NodeFacts
<1>2. node.kind \notin Leaves => 1 \in DOMAIN node.inputs
  BY NodeFacts
<1>3. node.kind \in {"MatMul", "Add", "Multiply", "Maximum"} =>
        1 \in DOMAIN node.inputs /\ 2 \in DOMAIN node.inputs
  BY NodeFacts
<1>4. /\ node.kind \notin Leaves => f[node.inputs[1]] = h[node.inputs[1]]
      /\ node.kind \in {"MatMul", "Add", "Multiply", "Maximum"} =>
           f[node.inputs[1]] = h[node.inputs[1]] /\ f[node.inputs[2]] = h[node.inputs[2]]
  BY <1>1, <1>2, <1>3
<1> QED
  BY <1>4 DEF TypeAt, Leaves

LEMMA TypesOfIs ==
  ASSUME NEW g, WellFormed(g)
  PROVE  TypesOf(g) = [v \in DOMAIN g.nodes |-> TypeAt(g, TypesOf(g), v)]
<1> DEFINE n == Len(g.nodes)
           Solves(h, k) == h = [v \in 1 .. k |-> TypeAt(g, h, v)]
           Unsolved == {k \in 0 .. n : ~ \E h : Solves(h, k)}
<1>1. n \in Nat /\ DOMAIN g.nodes = 1 .. n
  BY DEF WellFormed
<1>2. \E h : Solves(h, 0)
  <2>1. Solves([v \in 1 .. 0 |-> 0], 0)
    OBVIOUS
  <2> QED
    BY <2>1
<1>3. ASSUME NEW k \in 0 .. n - 1, NEW h, Solves(h, k) PROVE \E e : Solves(e, k + 1)
  <2> DEFINE e == [v \in 1 .. k + 1 |-> TypeAt(g, h, v)]
  <2>1. \A v \in 1 .. k : e[v] = h[v]
    BY <1>3
  <2>2. ASSUME NEW v \in 1 .. k + 1 PROVE TypeAt(g, h, v) = TypeAt(g, e, v)
    <3>1. v \in DOMAIN g.nodes /\ \A u \in 1 .. v - 1 : h[u] = e[u]
      BY <1>1, <2>1
    <3> QED
      BY <3>1, TypeAtLocal
  <2>3. Solves(e, k + 1)
    BY <2>2
  <2> QED
    BY <2>3
<1>4. Unsolved = {}
  <2> SUFFICES ASSUME Unsolved # {} PROVE FALSE
    OBVIOUS
  <2>0. Unsolved \in SUBSET Nat
    OBVIOUS
  <2> HIDE DEF Unsolved
  <2>1. PICK k \in Unsolved : \A j \in Unsolved : k <= j
    BY <2>0, MinOfIsLeast
  <2> USE DEF Unsolved
  <2>2. k # 0
    BY <1>2, <2>1
  <2>3. k - 1 \in 0 .. n - 1 /\ k - 1 \notin Unsolved
    BY <1>1, <2>1, <2>2
  <2> QED
    BY <1>1, <1>3, <2>1, <2>3
<1>5. PICK f : Solves(f, n)
  BY <1>1, <1>4
<1> DEFINE Defines(h) == h = [v \in DOMAIN g.nodes |-> TypeAt(g, h, v)]
<1>6. Defines(f)
  BY <1>1, <1>5
<1>7. TypesOf(g) = CHOOSE h : Defines(h)
  BY Zenon DEF TypesOf
<1> HIDE DEF Defines
<1>8. Defines(TypesOf(g))
  BY <1>6, <1>7, Zenon
<1> QED
  BY <1>8 DEF Defines

LEMMA TypesOfType ==
  ASSUME NEW g, WellFormed(g)
  PROVE  TypesOf(g) \in [DOMAIN g.nodes -> Types]
<1> DEFINE t == TypesOf(g)
           Wrong == {v \in DOMAIN g.nodes : t[v] \notin Types}
<1>1. t = [v \in DOMAIN g.nodes |-> TypeAt(g, t, v)]
  BY TypesOfIs
<1> HIDE DEF t
<1>2. Wrong = {}
  <2> SUFFICES ASSUME Wrong # {} PROVE FALSE
    OBVIOUS
  <2>1. Wrong \in SUBSET Nat
    BY NodeFacts
  <2>2. PICK v \in Wrong : \A u \in Wrong : v <= u
    BY <2>1, MinOfIsLeast
  <2>3. \A u \in 1 .. v - 1 : t[u] \in Types
    <3>1. DOMAIN g.nodes = 1 .. Len(g.nodes) /\ Len(g.nodes) \in Nat /\ v \in 1 .. Len(g.nodes)
      BY <2>2, NodeFacts
    <3>2. \A u \in 1 .. v - 1 : u \in DOMAIN g.nodes /\ ~(v <= u)
      BY <3>1
    <3> QED
      BY <2>2, <3>2
  <2>4. \A i \in DOMAIN g.nodes[v].inputs : t[g.nodes[v].inputs[i]] \in Types
    BY <2>3, NodeFacts
  <2>5. t[v] = TypeAt(g, t, v)
    BY <1>1
  <2>6. g.nodes[v].type \in Types
    BY NodeFacts
  <2>7. /\ g.nodes[v].kind \notin Leaves => t[g.nodes[v].inputs[1]] \in Types
        /\ g.nodes[v].kind \in {"MatMul", "Add", "Multiply", "Maximum"} =>
             t[g.nodes[v].inputs[1]] \in Types /\ t[g.nodes[v].inputs[2]] \in Types
    BY <2>4, NodeFacts
  <2>8. TypeAt(g, t, v) \in Types
    BY <2>6, <2>7 DEF TypeAt, Leaves, Types
  <2> QED
    BY <2>5, <2>8
<1> QED
  BY <1>1, <1>2 DEF t

-----------------------------------------------------------------------------
(* The normal form.  What an MLP consists of when one is recognised.       *)
MlpParts(g, first, bias1, gelu, second, bias2) ==
  LET kind(v) == g.nodes[v].kind
      inputs(v) == g.nodes[v].inputs
  IN /\ {first, bias1, gelu, second, bias2, g.return} \subseteq DOMAIN g.nodes
     /\ kind(first) = "MatMul" /\ kind(second) = "MatMul"
     /\ kind(bias1) = "Add" /\ first \in ToSet(inputs(bias1))
     /\ kind(gelu) = "Gelu" /\ inputs(gelu) = <<bias1>> /\ inputs(second)[1] = gelu
     /\ kind(bias2) = "Add" /\ second \in ToSet(inputs(bias2))
     /\ kind(g.return) = "Add" /\ bias2 \in ToSet(inputs(g.return))
     /\ MlpOf(g) = [leaves |-> <<inputs(first)[1], inputs(first)[2], Other(inputs(bias1), first),
                                 inputs(second)[2], Other(inputs(bias2), second)>>,
                    residual |-> Other(inputs(g.return), bias2)]

LEMMA MlpIs ==
  ASSUME NEW g, WellFormed(g), MlpOf(g) # NoMlp
  PROVE  \E first, bias1, gelu, second, bias2 : MlpParts(g, first, bias1, gelu, second, bias2)
<1> DEFINE n == Len(g.nodes)
           matmuls == {v \in DOMAIN g.nodes : g.nodes[v].kind = "MatMul"}
           first == MinOf(matmuls)
           second == MaxOf(matmuls)
           bias1 == BiasAddition(g, first)
           bias2 == BiasAddition(g, second)
           gelu == ActivationOf(g, bias1)
<1>1. n \in Nat /\ DOMAIN g.nodes = 1 .. n
  BY DEF WellFormed
<1>2. /\ Cardinality(matmuls) = 2 /\ bias1 # 0 /\ bias2 # 0 /\ gelu # 0
      /\ g.nodes[g.return].kind = "Add" /\ bias2 \in ToSet(g.nodes[g.return].inputs)
      /\ Follows(g, gelu, second)
      /\ MlpOf(g) = [leaves |-> <<g.nodes[first].inputs[1], g.nodes[first].inputs[2],
                                  Other(g.nodes[bias1].inputs, first), g.nodes[second].inputs[2],
                                  Other(g.nodes[bias2].inputs, second)>>,
                     residual |-> Other(g.nodes[g.return].inputs, bias2)]
  BY DEF MlpOf
<1>3. first \in matmuls /\ second \in matmuls
  <2>1. matmuls # {}
    <3> SUFFICES ASSUME matmuls = {} PROVE FALSE
      OBVIOUS
    <3>1. Cardinality(matmuls) = 2
      BY <1>2
    <3> HIDE DEF matmuls
    <3> QED
      BY <3>1, FS_EmptySet
  <2>2. matmuls \in SUBSET Nat /\ matmuls \in SUBSET (0 .. n)
    BY <1>1
  <2> HIDE DEF matmuls
  <2> QED
    BY <1>1, <2>1, <2>2, MinOfIsLeast, MaxOfIsGreatest
<1>4. ASSUME NEW v, BiasAddition(g, v) # 0
      PROVE  LET a == BiasAddition(g, v)
             IN a \in DOMAIN g.nodes /\ g.nodes[a].kind = "Add" /\ v \in ToSet(g.nodes[a].inputs)
  <2> DEFINE adds == {a \in DOMAIN g.nodes : g.nodes[a].kind = "Add" /\ v \in ToSet(g.nodes[a].inputs)}
  <2>1. adds # {} /\ BiasAddition(g, v) = MaxOf(adds)
    BY <1>4 DEF BiasAddition
  <2>2. adds \in SUBSET (0 .. n)
    BY <1>1
  <2>3. MaxOf(adds) \in adds
    <3> HIDE DEF adds
    <3> QED
      BY <1>1, <2>1, <2>2, MaxOfIsGreatest
  <2> QED
    BY <2>1, <2>3
<1>5. gelu \in DOMAIN g.nodes /\ g.nodes[gelu].kind = "Gelu" /\ g.nodes[gelu].inputs = <<bias1>>
  <2> DEFINE gelus == {a \in DOMAIN g.nodes : g.nodes[a].kind = "Gelu" /\ g.nodes[a].inputs = <<bias1>>}
  <2>1. gelus # {} /\ gelu = MinOf(gelus)
    BY <1>2 DEF ActivationOf
  <2>2. gelus \in SUBSET Nat
    BY <1>1
  <2>3. MinOf(gelus) \in gelus
    <3> HIDE DEF gelus
    <3> QED
      BY <2>1, <2>2, MinOfIsLeast
  <2> QED
    BY <2>1, <2>3
<1>6. g.return \in DOMAIN g.nodes
  BY DEF WellFormed
<1>7. MlpParts(g, first, bias1, gelu, second, bias2)
  <2>1. bias1 \in DOMAIN g.nodes /\ g.nodes[bias1].kind = "Add" /\ first \in ToSet(g.nodes[bias1].inputs)
    BY <1>2, <1>4
  <2>2. bias2 \in DOMAIN g.nodes /\ g.nodes[bias2].kind = "Add" /\ second \in ToSet(g.nodes[bias2].inputs)
    BY <1>2, <1>4
  <2>3. /\ first \in DOMAIN g.nodes /\ g.nodes[first].kind = "MatMul"
        /\ second \in DOMAIN g.nodes /\ g.nodes[second].kind = "MatMul"
    BY <1>3
  <2>4. g.nodes[second].inputs[1] = gelu
    BY <1>2 DEF Follows
  <2> HIDE DEF first, second, bias1, bias2, gelu
  <2> QED
    BY <1>2, <1>5, <1>6, <2>1, <2>2, <2>3, <2>4 DEF MlpParts
<1> QED
  BY <1>7

(* The other operand of an addition is an operand.                         *)
LEMMA OtherIsOperand ==
  ASSUME NEW g, WellFormed(g), NEW v \in DOMAIN g.nodes, g.nodes[v].kind = "Add",
         NEW x \in ToSet(g.nodes[v].inputs)
  PROVE  /\ Other(g.nodes[v].inputs, x) \in DOMAIN g.nodes
         /\ {g.nodes[v].inputs[1], g.nodes[v].inputs[2]} = {x, Other(g.nodes[v].inputs, x)}
<1> DEFINE inputs == g.nodes[v].inputs
<1>1. DOMAIN inputs = {1, 2}
  BY NodeFacts
<1>2. x = inputs[1] \/ x = inputs[2]
  BY <1>1 DEF ToSet
<1>3. inputs[1] \in DOMAIN g.nodes /\ inputs[2] \in DOMAIN g.nodes
  BY <1>1, NodeFacts
<1> QED
  BY <1>2, <1>3 DEF Other

(* Copying keeps what was copied and adds a value.                         *)
LEMMA CopyWorks ==
  ASSUME NEW D, NEW s \in Seq(D), NEW v \in D
  PROVE  Copy(s, v) \in Seq(D) /\ ToSet(Copy(s, v)) = ToSet(s) \cup {v}
<1>1. CASE v \in ToSet(s)
  BY <1>1 DEF Copy
<1>2. CASE v \notin ToSet(s)
  <2>1. Copy(s, v) = Append(s, v)
    BY <1>2 DEF Copy
  <2>2. /\ Append(s, v) \in Seq(D) /\ DOMAIN Append(s, v) = 1 .. Len(s) + 1
        /\ Append(s, v)[Len(s) + 1] = v
        /\ \A i \in 1 .. Len(s) : Append(s, v)[i] = s[i]
        /\ DOMAIN s = 1 .. Len(s) /\ Len(s) \in Nat
    BY AppendProperties
  <2>3. \A x : x \in ToSet(Append(s, v)) <=> x \in ToSet(s) \cup {v}
    BY <2>2 DEF ToSet
  <2> QED
    BY <2>1, <2>2, <2>3
<1> QED
  BY <1>1, <1>2

LEMMA OriginalsAre ==
  ASSUME NEW D, NEW a \in D, NEW b \in D, NEW c \in D, NEW d \in D, NEW e \in D
  PROVE  LET s == Originals(<<a, b, c, d, e>>)
         IN s \in Seq(D) /\ ToSet(s) = {a, b, c, d, e}
<1> DEFINE s0 == <<>>
           s1 == Copy(s0, a)
           s2 == Copy(s1, b)
           s3 == Copy(s2, c)
           s4 == Copy(s3, d)
           s5 == Copy(s4, e)
<1>1. Originals(<<a, b, c, d, e>>) = s5
  BY DEF Originals
<1>2. s0 \in Seq(D) /\ ToSet(s0) = {}
  BY DEF ToSet
<1> HIDE DEF s0
<1>3. s1 \in Seq(D) /\ ToSet(s1) = ToSet(s0) \cup {a}
  <2>1. s0 \in Seq(D)
    BY <1>2
  <2> QED
    BY <2>1, CopyWorks
<1> HIDE DEF s1
<1>4. s2 \in Seq(D) /\ ToSet(s2) = ToSet(s1) \cup {b}
  <2>1. s1 \in Seq(D)
    BY <1>3
  <2> QED
    BY <2>1, CopyWorks
<1> HIDE DEF s2
<1>5. s3 \in Seq(D) /\ ToSet(s3) = ToSet(s2) \cup {c}
  <2>1. s2 \in Seq(D)
    BY <1>4
  <2> QED
    BY <2>1, CopyWorks
<1> HIDE DEF s3
<1>6. s4 \in Seq(D) /\ ToSet(s4) = ToSet(s3) \cup {d}
  <2>1. s3 \in Seq(D)
    BY <1>5
  <2> QED
    BY <2>1, CopyWorks
<1> HIDE DEF s4
<1>7. s5 \in Seq(D) /\ ToSet(s5) = ToSet(s4) \cup {e}
  <2>1. s4 \in Seq(D)
    BY <1>6
  <2> QED
    BY <2>1, CopyWorks
<1> HIDE DEF s5
<1> QED
  BY <1>1, <1>2, <1>3, <1>4, <1>5, <1>6, <1>7

(* The normal form: the leaves, each once, and six operations.             *)
NewNode(kind, name, inputs) == [kind |-> kind, name |-> name, inputs |-> inputs, type |-> NoType]

NormalForm(g, originals, at, residual) ==
  LET c == Canonical(g)
      n == Len(originals)
      mlp == MlpOf(g)
  IN /\ originals \in Seq(DOMAIN g.nodes) /\ ToSet(originals) = ToSet(mlp.leaves)
     /\ at \in [1 .. 5 -> 1 .. n] /\ residual \in 1 .. n
     /\ \A i \in 1 .. 5 : originals[at[i]] = mlp.leaves[i]
     /\ originals[residual] = IF mlp.residual \in ToSet(originals) THEN mlp.residual ELSE mlp.leaves[1]
     /\ n \in Nat /\ DOMAIN c.nodes = 1 .. n + 6 /\ Len(c.nodes) = n + 6 /\ c.return = n + 6
     /\ \A i \in 1 .. n : /\ c.nodes[i].kind \in Leaves /\ c.nodes[i].inputs = <<>>
                          /\ c.nodes[i].name = g.nodes[originals[i]].name
                          /\ c.nodes[i].type \in Types
     /\ c.nodes[n + 1] = NewNode("MatMul", "linear1", <<at[1], at[2]>>)
     /\ c.nodes[n + 2] = NewNode("Add", "bias1", <<n + 1, at[3]>>)
     /\ c.nodes[n + 3] = NewNode("Gelu", "gelu", <<n + 2>>)
     /\ c.nodes[n + 4] = NewNode("MatMul", "linear2", <<n + 3, at[4]>>)
     /\ c.nodes[n + 5] = NewNode("Add", "bias2", <<n + 4, at[5]>>)
     /\ c.nodes[n + 6] = NewNode("Add", "residual", <<n + 5, residual>>)

LEMMA CanonicalIs ==
  ASSUME NEW g, WellFormed(g), MlpOf(g) # NoMlp
  PROVE  \E originals, at, residual : NormalForm(g, originals, at, residual)
<1>1. PICK first, bias1, gelu, second, bias2 : MlpParts(g, first, bias1, gelu, second, bias2)
  BY MlpIs
<1> DEFINE D == DOMAIN g.nodes
<1>2. PICK l1 \in D, l2 \in D, l3 \in D, l4 \in D, l5 \in D, skip \in D :
        MlpOf(g) = [leaves |-> <<l1, l2, l3, l4, l5>>, residual |-> skip]
  <2>1. ASSUME NEW v \in D, g.nodes[v].kind = "MatMul"
        PROVE  g.nodes[v].inputs[1] \in D /\ g.nodes[v].inputs[2] \in D
    <3>1. 1 \in DOMAIN g.nodes[v].inputs /\ 2 \in DOMAIN g.nodes[v].inputs
      BY <2>1, NodeFacts
    <3>2. g.nodes[v].inputs[1] \in 1 .. v - 1 /\ g.nodes[v].inputs[2] \in 1 .. v - 1
      BY <3>1, NodeFacts
    <3> QED
      BY <3>2, NodeFacts
  <2>2. /\ Other(g.nodes[bias1].inputs, first) \in D
        /\ Other(g.nodes[bias2].inputs, second) \in D
        /\ Other(g.nodes[g.return].inputs, bias2) \in D
    BY <1>1, OtherIsOperand DEF MlpParts
  <2>3. /\ g.nodes[first].inputs[1] \in D /\ g.nodes[first].inputs[2] \in D
        /\ g.nodes[second].inputs[2] \in D
    BY <1>1, <2>1 DEF MlpParts
  <2>4. MlpOf(g) = [leaves |-> <<g.nodes[first].inputs[1], g.nodes[first].inputs[2],
                                 Other(g.nodes[bias1].inputs, first), g.nodes[second].inputs[2],
                                 Other(g.nodes[bias2].inputs, second)>>,
                    residual |-> Other(g.nodes[g.return].inputs, bias2)]
    BY <1>1 DEF MlpParts
  <2> QED
    BY <2>2, <2>3, <2>4
<1> DEFINE leaves == <<l1, l2, l3, l4, l5>>
           originals == Originals(leaves)
           n == Len(originals)
           remap(v) == CHOOSE i \in 1 .. n : originals[i] = v
           skipped == IF skip \in ToSet(originals) THEN skip ELSE l1
           leaf(v) == [kind |-> IF g.nodes[v].kind = "Constant" THEN "Constant" ELSE "Input",
                       name |-> g.nodes[v].name, inputs |-> <<>>, type |-> TypesOf(g)[v]]
<1>3. originals \in Seq(D) /\ ToSet(originals) = {l1, l2, l3, l4, l5}
  BY <1>2, OriginalsAre
<1>4. n \in Nat /\ DOMAIN originals = 1 .. n
  <2> HIDE DEF originals
  <2> QED
    BY <1>3
<1>5. ASSUME NEW v \in ToSet(originals) PROVE remap(v) \in 1 .. n /\ originals[remap(v)] = v
  <2>1. \E i \in 1 .. n : originals[i] = v
    BY <1>4 DEF ToSet
  <2> HIDE DEF originals, n
  <2> QED
    BY <2>1
<1>6. skipped \in ToSet(originals)
  BY <1>3
<1>7. PICK a1 \in 1 .. n, a2 \in 1 .. n, a3 \in 1 .. n, a4 \in 1 .. n, a5 \in 1 .. n, r \in 1 .. n :
        /\ a1 = remap(l1) /\ a2 = remap(l2) /\ a3 = remap(l3) /\ a4 = remap(l4) /\ a5 = remap(l5)
        /\ r = remap(skipped)
        /\ originals[a1] = l1 /\ originals[a2] = l2 /\ originals[a3] = l3
        /\ originals[a4] = l4 /\ originals[a5] = l5 /\ originals[r] = skipped
  <2> HIDE DEF originals, n, remap, skipped
  <2> QED
    BY <1>3, <1>5, <1>6
<1> DEFINE front == [i \in 1 .. n |-> leaf(originals[i])]
           back == <<NewNode("MatMul", "linear1", <<a1, a2>>),
                     NewNode("Add", "bias1", <<n + 1, a3>>),
                     NewNode("Gelu", "gelu", <<n + 2>>),
                     NewNode("MatMul", "linear2", <<n + 3, a4>>),
                     NewNode("Add", "bias2", <<n + 4, a5>>),
                     NewNode("Add", "residual", <<n + 5, r>>)>>
<1>8. Canonical(g) = [nodes |-> front \o back, return |-> n + 6]
  <2>1. MlpOf(g).leaves = leaves /\ MlpOf(g).residual = skip /\ leaves[1] = l1 /\ leaves[2] = l2
        /\ leaves[3] = l3 /\ leaves[4] = l4 /\ leaves[5] = l5
    BY <1>2
  <2>2. Originals(MlpOf(g).leaves) = originals
    BY <2>1
  <2> QED
    BY <1>7, <2>1, <2>2 DEF Canonical, NewNode
<1> DEFINE nodes == front \o back
<1>9. DOMAIN front = 1 .. n /\ Len(front) = n /\ \A i \in 1 .. n : front[i] = leaf(originals[i])
  BY <1>4
<1>10. DOMAIN back = 1 .. 6 /\ Len(back) = 6
  OBVIOUS
<1>11. /\ DOMAIN nodes = 1 .. n + 6 /\ Len(nodes) = n + 6
       /\ \A i \in 1 .. n + 6 : nodes[i] = IF i <= n THEN front[i] ELSE back[i - n]
  <2> DEFINE S == {front[i] : i \in 1 .. n} \cup {back[i] : i \in 1 .. 6}
  <2>1. front = [i \in 1 .. n |-> front[i]] /\ back = [i \in 1 .. 6 |-> back[i]]
    OBVIOUS
  <2> HIDE DEF front, back, originals, n
  <2>2. front \in [1 .. n -> S] /\ back \in [1 .. 6 -> S]
    BY <2>1
  <2>3. front \in Seq(S) /\ back \in Seq(S)
    <3>1. \A k \in Nat : \A f \in [1 .. k -> S] : f \in Seq(S)
      OBVIOUS
    <3> QED
      BY <1>4, <2>2, <3>1
  <2> HIDE DEF S
  <2>4. /\ nodes \in Seq(S) /\ Len(nodes) = Len(front) + Len(back)
        /\ \A i \in 1 .. Len(front) + Len(back) :
             nodes[i] = IF i <= Len(front) THEN front[i] ELSE back[i - Len(front)]
    BY <2>3, ConcatProperties
  <2> HIDE DEF nodes
  <2>5. DOMAIN nodes = 1 .. Len(nodes)
    BY <2>4
  <2> QED
    BY <1>9, <1>10, <2>4, <2>5
<1>12. \A i \in 1 .. n : nodes[i] = leaf(originals[i])
  <2> SUFFICES ASSUME NEW i \in 1 .. n PROVE nodes[i] = leaf(originals[i])
    OBVIOUS
  <2>1. front[i] = leaf(originals[i])
    BY <1>9
  <2> HIDE DEF front, back, originals, n, leaf, nodes
  <2>2. i \in 1 .. n + 6 /\ i <= n
    BY <1>4
  <2> QED
    BY <1>11, <2>1, <2>2
<1>13. \A i \in 1 .. 6 : nodes[n + i] = back[i]
  <2> HIDE DEF front, back, originals, n, leaf, nodes
  <2> QED
    BY <1>4, <1>11
<1> DEFINE at == <<a1, a2, a3, a4, a5>>
<1>14. NormalForm(g, originals, at, r)
  <2>1. MlpOf(g).leaves = leaves /\ MlpOf(g).residual = skip /\ ToSet(leaves) = {l1, l2, l3, l4, l5}
    BY <1>2 DEF ToSet
  <2>2. at \in [1 .. 5 -> 1 .. n] /\ \A i \in 1 .. 5 : originals[at[i]] = leaves[i]
    <3> HIDE DEF originals, n
    <3> QED
      BY <1>7
  <2>3. Canonical(g).nodes = nodes /\ Canonical(g).return = n + 6
    <3> HIDE DEF front, back, n
    <3> QED
      BY <1>8
  <2>4. \A i \in 1 .. n : /\ nodes[i].kind \in Leaves /\ nodes[i].inputs = <<>>
                          /\ nodes[i].name = g.nodes[originals[i]].name
                          /\ nodes[i].type \in Types
    <3>1. \A i \in 1 .. n : originals[i] \in D
      BY <1>3, <1>4
    <3>2. \A v \in D : TypesOf(g)[v] \in Types
      BY TypesOfType
    <3>3. \A v \in D : /\ leaf(v).inputs = <<>> /\ leaf(v).name = g.nodes[v].name
                       /\ leaf(v).kind \in Leaves /\ leaf(v).type \in Types
      BY <3>2 DEF Leaves
    <3> HIDE DEF originals, n, nodes, leaf
    <3> QED
      BY <1>12, <3>1, <3>3
  <2>6. n = Len(originals) /\ leaves[1] = l1
    OBVIOUS
  <2> HIDE DEF originals, n, nodes
  <2>5. /\ nodes[n + 1] = NewNode("MatMul", "linear1", <<at[1], at[2]>>)
        /\ nodes[n + 2] = NewNode("Add", "bias1", <<n + 1, at[3]>>)
        /\ nodes[n + 3] = NewNode("Gelu", "gelu", <<n + 2>>)
        /\ nodes[n + 4] = NewNode("MatMul", "linear2", <<n + 3, at[4]>>)
        /\ nodes[n + 5] = NewNode("Add", "bias2", <<n + 4, at[5]>>)
        /\ nodes[n + 6] = NewNode("Add", "residual", <<n + 5, r>>)
    BY <1>13
  <2> HIDE DEF at, leaves
  <2>7. originals[r] = IF MlpOf(g).residual \in ToSet(originals) THEN MlpOf(g).residual
                       ELSE MlpOf(g).leaves[1]
    BY <1>7, <2>1, <2>6
  <2>8. ToSet(originals) = ToSet(MlpOf(g).leaves)
    BY <1>3, <2>1
  <2>9. \A i \in 1 .. 5 : originals[at[i]] = MlpOf(g).leaves[i]
    BY <2>1, <2>2
  <2>10. originals \in Seq(D) /\ r \in 1 .. n /\ n \in Nat
    BY <1>3, <1>4, <1>7
  <2>11. /\ DOMAIN Canonical(g).nodes = 1 .. n + 6 /\ Len(Canonical(g).nodes) = n + 6
         /\ Canonical(g).return = n + 6
    BY <1>11, <2>3
  <2> QED
    BY <2>2, <2>3, <2>4, <2>5, <2>6, <2>7, <2>8, <2>9, <2>10, <2>11, Zenon DEF NormalForm
<1> QED
  BY <1>14

LEMMA CanonicalWellFormed ==
  ASSUME NEW g, WellFormed(g)
  PROVE  WellFormed(Canonical(g))
<1>1. CASE MlpOf(g) = NoMlp
  BY <1>1, Zenon DEF Canonical
<1>2. CASE MlpOf(g) # NoMlp
  <2>1. PICK originals, at, residual : NormalForm(g, originals, at, residual)
    BY <1>2, CanonicalIs
  <2>2. PICK c : c = Canonical(g)
    OBVIOUS
  <2>3. PICK n \in Nat : n = Len(originals)
    BY <2>1 DEF NormalForm
  <2>4. /\ DOMAIN c.nodes = 1 .. n + 6 /\ Len(c.nodes) = n + 6 /\ c.return = n + 6
        /\ at \in [1 .. 5 -> 1 .. n] /\ residual \in 1 .. n
        /\ \A i \in 1 .. n : /\ c.nodes[i].kind \in Leaves /\ c.nodes[i].inputs = <<>>
                             /\ c.nodes[i].type \in Types
    BY <2>1, <2>2, <2>3 DEF NormalForm
  <2>5. /\ c.nodes[n + 1] = NewNode("MatMul", "linear1", <<at[1], at[2]>>)
        /\ c.nodes[n + 2] = NewNode("Add", "bias1", <<n + 1, at[3]>>)
        /\ c.nodes[n + 3] = NewNode("Gelu", "gelu", <<n + 2>>)
        /\ c.nodes[n + 4] = NewNode("MatMul", "linear2", <<n + 3, at[4]>>)
        /\ c.nodes[n + 5] = NewNode("Add", "bias2", <<n + 4, at[5]>>)
        /\ c.nodes[n + 6] = NewNode("Add", "residual", <<n + 5, residual>>)
    BY <2>1, <2>2, <2>3 DEF NormalForm
  <2> DEFINE Good(v) == /\ c.nodes[v].inputs \in Seq(1 .. v - 1)
                        /\ c.nodes[v].kind \in Leaves <=> c.nodes[v].inputs = <<>>
                        /\ c.nodes[v].kind \in {"MatMul", "Add", "Multiply", "Maximum"} =>
                             Len(c.nodes[v].inputs) = 2
                        /\ c.nodes[v].type \in Types
  <2>6. ASSUME NEW v \in 1 .. n PROVE Good(v)
    <3>1. c.nodes[v].inputs = <<>> /\ c.nodes[v].kind \in Leaves /\ c.nodes[v].type \in Types
      BY <2>4
    <3>2. <<>> \in Seq(1 .. v - 1)
      OBVIOUS
    <3> QED
      BY <3>1, <3>2 DEF Leaves
  <2>7. ASSUME NEW v \in Nat, NEW kind \in {"MatMul", "Add"}, NEW name, NEW a \in 1 .. v - 1,
               NEW b \in 1 .. v - 1, c.nodes[v] = NewNode(kind, name, <<a, b>>)
        PROVE  Good(v)
    <3>1. <<a, b>> \in Seq(1 .. v - 1) /\ <<a, b>> # <<>> /\ Len(<<a, b>>) = 2
      OBVIOUS
    <3>2. c.nodes[v].inputs = <<a, b>> /\ c.nodes[v].kind = kind /\ c.nodes[v].type = NoType
      BY <2>7 DEF NewNode
    <3>3. NoType \in Types /\ kind \notin Leaves
      BY DEF NoType, Types, Leaves
    <3> QED
      BY <3>1, <3>2, <3>3
  <2>8. Good(n + 3)
    <3>1. <<n + 2>> \in Seq(1 .. n + 3 - 1) /\ <<n + 2>> # <<>>
      OBVIOUS
    <3>2. c.nodes[n + 3].inputs = <<n + 2>> /\ c.nodes[n + 3].kind = "Gelu" /\ c.nodes[n + 3].type = NoType
      BY <2>5 DEF NewNode
    <3>3. NoType \in Types
      BY DEF NoType, Types
    <3> QED
      BY <3>1, <3>2, <3>3 DEF Leaves
  <2>9. \A i \in 1 .. 5 : at[i] \in 1 .. n
    BY <2>4
  <2>10. Good(n + 1)
    <3>1. n + 1 \in Nat /\ at[1] \in 1 .. n + 1 - 1 /\ at[2] \in 1 .. n + 1 - 1
      BY <2>4, <2>9
    <3> HIDE DEF Good
    <3> QED
      BY <2>5, <2>7, <3>1
  <2>11. Good(n + 2)
    <3>1. n + 2 \in Nat /\ n + 1 \in 1 .. n + 2 - 1 /\ at[3] \in 1 .. n + 2 - 1
      BY <2>4, <2>9
    <3> HIDE DEF Good
    <3> QED
      BY <2>5, <2>7, <3>1
  <2>12. Good(n + 4)
    <3>1. n + 4 \in Nat /\ n + 3 \in 1 .. n + 4 - 1 /\ at[4] \in 1 .. n + 4 - 1
      BY <2>4, <2>9
    <3> HIDE DEF Good
    <3> QED
      BY <2>5, <2>7, <3>1
  <2>13. Good(n + 5)
    <3>1. n + 5 \in Nat /\ n + 4 \in 1 .. n + 5 - 1 /\ at[5] \in 1 .. n + 5 - 1
      BY <2>4, <2>9
    <3> HIDE DEF Good
    <3> QED
      BY <2>5, <2>7, <3>1
  <2>14. Good(n + 6)
    <3>1. n + 6 \in Nat /\ n + 5 \in 1 .. n + 6 - 1 /\ residual \in 1 .. n + 6 - 1
      BY <2>4, <2>9
    <3> HIDE DEF Good
    <3> QED
      BY <2>5, <2>7, <3>1
  <2>15. \A v \in 1 .. n + 6 : \/ v \in 1 .. n \/ v = n + 1 \/ v = n + 2 \/ v = n + 3
                               \/ v = n + 4 \/ v = n + 5 \/ v = n + 6
    OBVIOUS
  <2> HIDE DEF Good
  <2>16. \A v \in 1 .. n + 6 : Good(v)
    BY <2>6, <2>8, <2>10, <2>11, <2>12, <2>13, <2>14, <2>15
  <2>17. c.return \in DOMAIN c.nodes /\ Len(c.nodes) \in Nat /\ DOMAIN c.nodes = 1 .. Len(c.nodes)
    BY <2>4
  <2>18. \A v \in DOMAIN c.nodes : Good(v)
    BY <2>4, <2>16
  <2>19. WellFormed(c)
    BY <2>17, <2>18, Zenon DEF WellFormed, Good
  <2> QED
    BY <2>2, <2>19
<1> QED
  BY <1>1, <1>2

-----------------------------------------------------------------------------
(* What a graph means.  The recursion is that of the types.                *)
LEMMA MeaningAtLocal ==
  ASSUME NEW g, WellFormed(g), NEW v \in DOMAIN g.nodes, NEW f, NEW h,
         \A u \in 1 .. v - 1 : f[u] = h[u]
  PROVE  MeaningAt(g, f, v) = MeaningAt(g, h, v)
<1> DEFINE inputs == g.nodes[v].inputs
<1>1. \A i \in DOMAIN inputs : f[inputs[i]] = h[inputs[i]]
  BY NodeFacts
<1>2. [i \in DOMAIN inputs |-> f[inputs[i]]] = [i \in DOMAIN inputs |-> h[inputs[i]]]
  BY <1>1
<1> QED
  BY <1>2, Zenon DEF MeaningAt

LEMMA MeaningsAre ==
  ASSUME NEW g, WellFormed(g)
  PROVE  Meanings(g) = [v \in DOMAIN g.nodes |-> MeaningAt(g, Meanings(g), v)]
<1> DEFINE n == Len(g.nodes)
           Solves(h, k) == h = [v \in 1 .. k |-> MeaningAt(g, h, v)]
           Unsolved == {k \in 0 .. n : ~ \E h : Solves(h, k)}
<1>1. n \in Nat /\ DOMAIN g.nodes = 1 .. n
  BY DEF WellFormed
<1>2. \E h : Solves(h, 0)
  <2>1. Solves([v \in 1 .. 0 |-> 0], 0)
    OBVIOUS
  <2> QED
    BY <2>1
<1>3. ASSUME NEW k \in 0 .. n - 1, NEW h, Solves(h, k) PROVE \E e : Solves(e, k + 1)
  <2> DEFINE e == [v \in 1 .. k + 1 |-> MeaningAt(g, h, v)]
  <2>1. \A v \in 1 .. k : e[v] = h[v]
    BY <1>3
  <2>2. ASSUME NEW v \in 1 .. k + 1 PROVE MeaningAt(g, h, v) = MeaningAt(g, e, v)
    <3>1. v \in DOMAIN g.nodes /\ \A u \in 1 .. v - 1 : h[u] = e[u]
      BY <1>1, <2>1
    <3> QED
      BY <3>1, MeaningAtLocal
  <2>3. Solves(e, k + 1)
    BY <2>2
  <2> QED
    BY <2>3
<1>4. Unsolved = {}
  <2> SUFFICES ASSUME Unsolved # {} PROVE FALSE
    OBVIOUS
  <2>0. Unsolved \in SUBSET Nat
    OBVIOUS
  <2> HIDE DEF Unsolved
  <2>1. PICK k \in Unsolved : \A j \in Unsolved : k <= j
    BY <2>0, MinOfIsLeast
  <2> USE DEF Unsolved
  <2>2. k # 0
    BY <1>2, <2>1
  <2>3. k - 1 \in 0 .. n - 1 /\ k - 1 \notin Unsolved
    BY <1>1, <2>1, <2>2
  <2> QED
    BY <1>1, <1>3, <2>1, <2>3
<1>5. PICK f : Solves(f, n)
  BY <1>1, <1>4
<1> DEFINE Defines(h) == h = [v \in DOMAIN g.nodes |-> MeaningAt(g, h, v)]
<1>6. Defines(f)
  BY <1>1, <1>5
<1>7. Meanings(g) = CHOOSE h : Defines(h)
  BY Zenon DEF Meanings
<1> HIDE DEF Defines
<1>8. Defines(Meanings(g))
  BY <1>6, <1>7, Zenon
<1> QED
  BY <1>8 DEF Defines

(* The operands of a product or an activation, in order.                   *)
Pair(x, y) == [i \in {1, 2} |-> IF i = 1 THEN x ELSE y]
Single(x) == [i \in {1} |-> x]

LEMMA MeaningOfNode ==
  ASSUME NEW g, WellFormed(g), NEW v \in DOMAIN g.nodes
  PROVE  LET M == Meanings(g)
             inputs == g.nodes[v].inputs
             kind == g.nodes[v].kind
         IN /\ kind \in Leaves => M[v] = <<"leaf", g.nodes[v].name>>
            /\ kind = "Add" => M[v] = <<"Add", {M[inputs[1]], M[inputs[2]]}>>
            /\ kind = "MatMul" => M[v] = <<"MatMul", Pair(M[inputs[1]], M[inputs[2]])>>
            /\ \A x : kind = "Gelu" /\ inputs = <<x>> => M[v] = <<"Gelu", Single(M[x])>>
<1> DEFINE M == Meanings(g)
           inputs == g.nodes[v].inputs
           kind == g.nodes[v].kind
           operands == [i \in DOMAIN inputs |-> M[inputs[i]]]
<1>1. M[v] = MeaningAt(g, M, v)
  <2>1. M = [u \in DOMAIN g.nodes |-> MeaningAt(g, M, u)]
    BY MeaningsAre
  <2> HIDE DEF M
  <2> QED
    BY <2>1
<1>2. kind \in Leaves => M[v] = <<"leaf", g.nodes[v].name>>
  BY <1>1 DEF MeaningAt, Leaves
<1>3. kind = "Add" => M[v] = <<"Add", {operands[1], operands[2]}>>
  BY <1>1 DEF MeaningAt, Leaves
<1>4. kind = "Add" => operands[1] = M[inputs[1]] /\ operands[2] = M[inputs[2]]
  BY NodeFacts
<1>5. kind \in {"MatMul", "Gelu"} => M[v] = <<kind, operands>>
  BY <1>1 DEF MeaningAt, Leaves
<1>6. kind = "MatMul" => operands = Pair(M[inputs[1]], M[inputs[2]])
  <2>1. kind = "MatMul" => DOMAIN inputs = {1, 2}
    BY NodeFacts
  <2> QED
    BY <2>1 DEF Pair
<1>7. \A x : inputs = <<x>> => operands = Single(M[x])
  <2> SUFFICES ASSUME NEW x, inputs = <<x>> PROVE operands = Single(M[x])
    OBVIOUS
  <2>1. DOMAIN inputs = {1} /\ inputs[1] = x
    OBVIOUS
  <2> QED
    BY <2>1 DEF Single
<1> HIDE DEF M, operands, inputs, kind
<1>8. /\ kind \in Leaves => M[v] = <<"leaf", g.nodes[v].name>>
      /\ kind = "Add" => M[v] = <<"Add", {M[inputs[1]], M[inputs[2]]}>>
      /\ kind = "MatMul" => M[v] = <<"MatMul", Pair(M[inputs[1]], M[inputs[2]])>>
      /\ \A x : kind = "Gelu" /\ inputs = <<x>> => M[v] = <<"Gelu", Single(M[x])>>
  BY <1>2, <1>3, <1>4, <1>5, <1>6, <1>7
<1> QED
  BY <1>8 DEF M, inputs, kind

(* An addition adds a given operand and the other one.                     *)
LEMMA MeaningOfAdd ==
  ASSUME NEW g, WellFormed(g), NEW v \in DOMAIN g.nodes, g.nodes[v].kind = "Add",
         NEW x \in ToSet(g.nodes[v].inputs)
  PROVE  Meanings(g)[v] = <<"Add", {Meanings(g)[x], Meanings(g)[Other(g.nodes[v].inputs, x)]}>>
<1> DEFINE M == Meanings(g)
           inputs == g.nodes[v].inputs
           y == Other(inputs, x)
<1>1. M[v] = <<"Add", {M[inputs[1]], M[inputs[2]]}>>
  BY MeaningOfNode
<1>2. (inputs[1] = x /\ inputs[2] = y) \/ (inputs[1] = y /\ inputs[2] = x)
  <2>1. DOMAIN inputs = {1, 2}
    BY NodeFacts
  <2>2. x = inputs[1] \/ x = inputs[2]
    BY <2>1 DEF ToSet
  <2> QED
    BY <2>2 DEF Other
<1> HIDE DEF M, inputs, y
<1>3. {M[inputs[1]], M[inputs[2]]} = {M[x], M[y]}
  BY <1>2
<1>4. M[v] = <<"Add", {M[x], M[y]}>>
  BY <1>1, <1>3
<1> QED
  BY <1>4 DEF M, inputs, y

LEMMA CanonicalMeans ==
  ASSUME NEW g, WellFormed(g), MlpOf(g) # NoMlp,
         \A v \in ToSet(MlpOf(g).leaves) : v \in DOMAIN g.nodes /\ g.nodes[v].kind \in Leaves,
         MlpOf(g).residual \in ToSet(MlpOf(g).leaves)
  PROVE  Meaning(Canonical(g)) = Meaning(g)
<1>1. PICK first, bias1, gelu, second, bias2 : MlpParts(g, first, bias1, gelu, second, bias2)
  BY MlpIs
<1>2. PICK originals, at, residual : NormalForm(g, originals, at, residual)
  BY CanonicalIs
<1>3. PICK c : c = Canonical(g)
  OBVIOUS
<1>4. PICK n \in Nat : n = Len(originals)
  BY <1>2 DEF NormalForm
<1>5. PICK C, M : C = Meanings(c) /\ M = Meanings(g)
  OBVIOUS
<1>6. PICK leaf, skip : leaf = MlpOf(g).leaves /\ skip = MlpOf(g).residual
  OBVIOUS
<1>7. WellFormed(c)
  BY <1>3, CanonicalWellFormed
<1>8. /\ DOMAIN c.nodes = 1 .. n + 6 /\ c.return = n + 6
      /\ at \in [1 .. 5 -> 1 .. n] /\ residual \in 1 .. n
      /\ \A i \in 1 .. 5 : originals[at[i]] = leaf[i]
      /\ originals[residual] = skip
      /\ \A i \in 1 .. n : c.nodes[i].kind \in Leaves /\ c.nodes[i].name = g.nodes[originals[i]].name
  BY <1>2, <1>3, <1>4, <1>6 DEF NormalForm
<1>9. /\ c.nodes[n + 1] = NewNode("MatMul", "linear1", <<at[1], at[2]>>)
      /\ c.nodes[n + 2] = NewNode("Add", "bias1", <<n + 1, at[3]>>)
      /\ c.nodes[n + 3] = NewNode("Gelu", "gelu", <<n + 2>>)
      /\ c.nodes[n + 4] = NewNode("MatMul", "linear2", <<n + 3, at[4]>>)
      /\ c.nodes[n + 5] = NewNode("Add", "bias2", <<n + 4, at[5]>>)
      /\ c.nodes[n + 6] = NewNode("Add", "residual", <<n + 5, residual>>)
  BY <1>2, <1>3, <1>4 DEF NormalForm
<1>10. ASSUME NEW i \in 1 .. n, originals[i] \in ToSet(leaf)
       PROVE  C[i] = M[originals[i]]
  <2>1. originals[i] \in DOMAIN g.nodes /\ g.nodes[originals[i]].kind \in Leaves
    BY <1>6, <1>10
  <2>2. M[originals[i]] = <<"leaf", g.nodes[originals[i]].name>>
    BY <1>5, <2>1, MeaningOfNode
  <2>3. i \in DOMAIN c.nodes /\ c.nodes[i].kind \in Leaves
    BY <1>8
  <2>4. C[i] = <<"leaf", c.nodes[i].name>>
    BY <1>5, <1>7, <2>3, MeaningOfNode
  <2> QED
    BY <1>8, <2>2, <2>4
<1>11. leaf = <<g.nodes[first].inputs[1], g.nodes[first].inputs[2], Other(g.nodes[bias1].inputs, first),
                g.nodes[second].inputs[2], Other(g.nodes[bias2].inputs, second)>>
       /\ skip = Other(g.nodes[g.return].inputs, bias2)
  BY <1>1, <1>6 DEF MlpParts
<1>12. \A i \in 1 .. 5 : leaf[i] \in ToSet(leaf)
  BY <1>11 DEF ToSet
<1>13. \A i \in 1 .. 5 : at[i] \in 1 .. n /\ C[at[i]] = M[leaf[i]]
  BY <1>8, <1>10, <1>12
<1>14. C[residual] = M[skip]
  BY <1>6, <1>8, <1>10
<1>15. ASSUME NEW v \in 1 .. n + 6, NEW kind, NEW name, NEW a, NEW b,
              c.nodes[v] = NewNode(kind, name, <<a, b>>)
       PROVE  /\ kind = "Add" => C[v] = <<"Add", {C[a], C[b]}>>
              /\ kind = "MatMul" => C[v] = <<"MatMul", Pair(C[a], C[b])>>
  <2>1. c.nodes[v].kind = kind /\ c.nodes[v].inputs[1] = a /\ c.nodes[v].inputs[2] = b
    BY <1>15 DEF NewNode
  <2>2. v \in DOMAIN c.nodes
    BY <1>8
  <2> QED
    BY <1>5, <1>7, <2>1, <2>2, MeaningOfNode
<1>16. g.return \in DOMAIN g.nodes /\ {first, bias1, gelu, second, bias2} \subseteq DOMAIN g.nodes
  BY <1>1 DEF MlpParts
<1>17. C[n + 1] = M[first]
  <2>1. M[first] = <<"MatMul", Pair(M[leaf[1]], M[leaf[2]])>>
    BY <1>1, <1>5, <1>11, <1>16, MeaningOfNode DEF MlpParts
  <2>2. C[n + 1] = <<"MatMul", Pair(C[at[1]], C[at[2]])>>
    BY <1>9, <1>15
  <2> QED
    BY <1>13, <2>1, <2>2
<1>18. C[n + 2] = M[bias1]
  <2>1. M[bias1] = <<"Add", {M[first], M[leaf[3]]}>>
    <3>1. /\ bias1 \in DOMAIN g.nodes /\ g.nodes[bias1].kind = "Add"
          /\ first \in ToSet(g.nodes[bias1].inputs)
      BY <1>1, <1>16 DEF MlpParts
    <3>2. leaf[3] = Other(g.nodes[bias1].inputs, first)
      BY <1>11
    <3> QED
      BY <1>5, <3>1, <3>2, MeaningOfAdd
  <2>2. C[n + 2] = <<"Add", {C[n + 1], C[at[3]]}>>
    BY <1>9, <1>15
  <2> QED
    BY <1>13, <1>17, <2>1, <2>2
<1>19. C[n + 3] = M[gelu]
  <2>1. M[gelu] = <<"Gelu", Single(M[bias1])>>
    <3>1. g.nodes[gelu].kind = "Gelu" /\ g.nodes[gelu].inputs = <<bias1>> /\ gelu \in DOMAIN g.nodes
      BY <1>1, <1>16 DEF MlpParts
    <3> QED
      BY <1>5, <3>1, MeaningOfNode
  <2>2. c.nodes[n + 3].kind = "Gelu" /\ c.nodes[n + 3].inputs = <<n + 2>> /\ n + 3 \in DOMAIN c.nodes
    BY <1>8, <1>9 DEF NewNode
  <2>3. C[n + 3] = <<"Gelu", Single(C[n + 2])>>
    BY <1>5, <1>7, <2>2, MeaningOfNode
  <2> QED
    BY <1>18, <2>1, <2>3
<1>20. C[n + 4] = M[second]
  <2>1. M[second] = <<"MatMul", Pair(M[gelu], M[leaf[4]])>>
    BY <1>1, <1>5, <1>11, <1>16, MeaningOfNode DEF MlpParts
  <2>2. C[n + 4] = <<"MatMul", Pair(C[n + 3], C[at[4]])>>
    BY <1>9, <1>15
  <2> QED
    BY <1>13, <1>19, <2>1, <2>2
<1>21. C[n + 5] = M[bias2]
  <2>1. M[bias2] = <<"Add", {M[second], M[leaf[5]]}>>
    <3>1. /\ bias2 \in DOMAIN g.nodes /\ g.nodes[bias2].kind = "Add"
          /\ second \in ToSet(g.nodes[bias2].inputs)
      BY <1>1, <1>16 DEF MlpParts
    <3>2. leaf[5] = Other(g.nodes[bias2].inputs, second)
      BY <1>11
    <3> QED
      BY <1>5, <3>1, <3>2, MeaningOfAdd
  <2>2. C[n + 5] = <<"Add", {C[n + 4], C[at[5]]}>>
    BY <1>9, <1>15
  <2> QED
    BY <1>13, <1>20, <2>1, <2>2
<1>22. C[n + 6] = M[g.return]
  <2>1. M[g.return] = <<"Add", {M[bias2], M[skip]}>>
    BY <1>1, <1>5, <1>11, <1>16, MeaningOfAdd DEF MlpParts
  <2>2. C[n + 6] = <<"Add", {C[n + 5], C[residual]}>>
    <3>1. n + 6 \in 1 .. n + 6 /\ c.nodes[n + 6] = NewNode("Add", "residual", <<n + 5, residual>>)
      BY <1>9
    <3>2. \A name, a, b : c.nodes[n + 6] = NewNode("Add", name, <<a, b>>) =>
            C[n + 6] = <<"Add", {C[a], C[b]}>>
      BY <1>15, <3>1
    <3> QED
      BY <3>1, <3>2
  <2> QED
    BY <1>14, <1>21, <2>1, <2>2
<1> QED
  BY <1>3, <1>5, <1>8, <1>22 DEF Meaning

-----------------------------------------------------------------------------
(* The inductive invariant.  The graph is the imported one, or its normal  *)
(* form from the first pass on.                                            *)
GraphInv ==
  /\ imported \in Graphs
  /\ graph = IF phase = "canonicalize" THEN imported ELSE Canonical(imported)
  /\ phase \in {"canonicalize", "fuse", "bufferize", "place", "done"}
  /\ specialized \in BOOLEAN

(* A dispatch is an interval of operations, each the only user of the one  *)
(* before it.  The intervals lie in the order in which they are formed.    *)
RootOf(d) == dispatches[d].operations[1]
Inside(d) == RootOf(d) .. dispatches[d].output

Products == {v \in DOMAIN graph.nodes : graph.nodes[v].kind = "MatMul"}

Dispatches == [operations : Seq(Nat), inputs : SUBSET Nat, output : Nat]

DispatchInv ==
  /\ dispatches \in Seq(Dispatches) /\ index \in Nat
  /\ phase = "canonicalize" => dispatches = <<>> /\ index = 1
  /\ \A d \in DOMAIN dispatches :
       /\ RootOf(d) \in DOMAIN graph.nodes /\ dispatches[d].output \in DOMAIN graph.nodes
       /\ RootOf(d) <= dispatches[d].output /\ RootOf(d) < index
       /\ dispatches[d].operations =
            [i \in 1 .. dispatches[d].output - RootOf(d) + 1 |-> RootOf(d) + i - 1]
       /\ \A v \in RootOf(d) .. dispatches[d].output - 1 : Legal(v)
       /\ dispatches[d].inputs = (UNION {ToSet(Operands(v)) : v \in Inside(d)}) \ Inside(d)
  /\ \A d, e \in DOMAIN dispatches : d < e => dispatches[d].output < RootOf(e)
  /\ \A v \in Products : v < index => v \in Consumed
  /\ phase \notin {"canonicalize", "fuse"} => Products \subseteq Consumed

(* Slots do not overlap, buffers lie in slots, and buffers in one slot     *)
(* have lifetimes one after the other.                                     *)
Planned == {v \in DOMAIN graph.nodes : Bytes(v) # 0 /\ (Computed(v) => Materialized(v))}
Placed == {v \in InWorkspace : v <= placed}

BuffersInv ==
  /\ DOMAIN buffers = Planned
  /\ \A v \in Planned :
       buffers[v] = [bytes |-> Bytes(v), offset |-> buffers[v].offset, first |-> BufferFor(v).first,
                     last |-> BufferFor(v).last, external |-> BufferFor(v).external]
  /\ placed \in Nat

SlotsInv ==
  /\ slots \in Seq([offset : Nat, bytes : Nat \ {0}, last : Nat]) /\ workspace \in Nat
  /\ \A s \in DOMAIN slots : slots[s].offset + slots[s].bytes <= workspace
  /\ \A s, t \in DOMAIN slots : s < t => slots[s].offset + slots[s].bytes <= slots[t].offset

PlacesInv ==
  /\ \A a \in Placed : \E s \in DOMAIN slots :
       /\ buffers[a].offset = slots[s].offset /\ buffers[a].bytes <= slots[s].bytes
       /\ buffers[a].last <= slots[s].last
  /\ \A a, b \in Placed : a # b /\ buffers[a].offset = buffers[b].offset =>
       buffers[a].last < buffers[b].first \/ buffers[b].last < buffers[a].first

MemoryInv ==
  /\ phase \in {"place", "done"} => BuffersInv /\ SlotsInv /\ PlacesInv
  /\ phase = "done" => Placed = InWorkspace

IInv == GraphInv /\ DispatchInv /\ MemoryInv

-----------------------------------------------------------------------------
LEMMA GraphWellFormed == GraphInv => WellFormed(graph) /\ WellFormed(imported)
  BY GraphsAssumption, CanonicalWellFormed DEF GraphInv

(* The operands of an operation come before it.                            *)
LEMMA OperandBefore ==
  ASSUME GraphInv, NEW o \in DOMAIN graph.nodes, NEW v \in ToSet(Operands(o))
  PROVE  v \in DOMAIN graph.nodes /\ v < o
<1>1. PICK n \in Nat : DOMAIN graph.nodes = 1 .. n /\ o \in 1 .. n
  BY GraphWellFormed, NodeFacts
<1>2. v \in 1 .. o - 1
  BY GraphWellFormed, NodeFacts DEF ToSet, Operands
<1> QED
  BY <1>1, <1>2

(* Only the next operation uses a value that may be fused.                 *)
LEMMA LegalUser ==
  ASSUME NEW v, Legal(v), NEW o \in DOMAIN graph.nodes, v \in ToSet(Operands(o))
  PROVE  o = v + 1 /\ v # graph.return
<1>1. PICK i \in DOMAIN Operands(o) : Operands(o)[i] = v
  BY DEF ToSet
<1>2. <<o, i>> \in Users(v)
  BY <1>1 DEF Users
<1>3. PICK j : Users(v) = {<<v + 1, j>>} /\ v # graph.return
  BY DEF Legal
<1> QED
  BY <1>2, <1>3

LEMMA InsideIs ==
  ASSUME GraphInv, DispatchInv, NEW d \in DOMAIN dispatches
  PROVE  /\ ToSet(dispatches[d].operations) = Inside(d)
         /\ Head(dispatches[d].operations) = RootOf(d)
         /\ Inside(d) \subseteq DOMAIN graph.nodes /\ RootOf(d) \in Inside(d)
         /\ dispatches[d].output \in Inside(d)
         /\ RootOf(d) \in Nat /\ dispatches[d].output \in Nat
<1>1. PICK n \in Nat : DOMAIN graph.nodes = 1 .. n
  BY GraphWellFormed DEF WellFormed
<1> DEFINE p == RootOf(d)
           o == dispatches[d].output
<1>2. /\ p \in 1 .. n /\ o \in 1 .. n /\ p <= o
      /\ dispatches[d].operations = [i \in 1 .. o - p + 1 |-> p + i - 1]
  BY <1>1 DEF DispatchInv
<1> HIDE DEF p, o
<1>3. \A x : x \in ToSet(dispatches[d].operations) <=> x \in p .. o
  <2>1. \A i \in 1 .. o - p + 1 : p + i - 1 \in p .. o
    BY <1>2
  <2>2. \A x \in p .. o : x - p + 1 \in 1 .. o - p + 1 /\ p + (x - p + 1) - 1 = x
    BY <1>2
  <2>3. /\ DOMAIN dispatches[d].operations = 1 .. o - p + 1
        /\ \A i \in 1 .. o - p + 1 : dispatches[d].operations[i] = p + i - 1
    BY <1>2
  <2>4. ASSUME NEW i \in DOMAIN dispatches[d].operations PROVE dispatches[d].operations[i] \in p .. o
    BY <2>1, <2>3
  <2>5. ASSUME NEW x \in p .. o
        PROVE  \E i \in DOMAIN dispatches[d].operations : dispatches[d].operations[i] = x
    BY <2>2, <2>3
  <2> QED
    BY <2>4, <2>5 DEF ToSet
<1>4. Head(dispatches[d].operations) = dispatches[d].operations[1]
  OBVIOUS
<1>5. /\ ToSet(dispatches[d].operations) = p .. o
      /\ p .. o \subseteq DOMAIN graph.nodes /\ p \in p .. o /\ o \in p .. o
      /\ p \in Nat /\ o \in Nat
  <2>1. ToSet(dispatches[d].operations) = p .. o
    BY <1>3
  <2> QED
    BY <1>1, <1>2, <2>1
<1>6. Inside(d) = p .. o /\ p = RootOf(d) /\ o = dispatches[d].output
  BY DEF Inside, p, o
<1> QED
  BY <1>4, <1>5, <1>6 DEF RootOf

LEMMA ConsumedIs ==
  ASSUME GraphInv, DispatchInv
  PROVE  Consumed = UNION {Inside(d) : d \in DOMAIN dispatches}
  BY InsideIs DEF Consumed

LEMMA InsidesApart ==
  ASSUME GraphInv, DispatchInv, NEW d \in DOMAIN dispatches, NEW e \in DOMAIN dispatches, d # e
  PROVE  Inside(d) \cap Inside(e) = {}
<1>1. d < e \/ e < d
  BY DEF DispatchInv
<1>2. RootOf(d) \in Nat /\ RootOf(e) \in Nat /\ dispatches[d].output \in Nat /\ dispatches[e].output \in Nat
  BY InsideIs
<1>3. dispatches[d].output < RootOf(e) \/ dispatches[e].output < RootOf(d)
  BY <1>1 DEF DispatchInv
<1> QED
  BY <1>2, <1>3 DEF Inside

-----------------------------------------------------------------------------
(* The passes.  Nothing is in a dispatch at first, ...                     *)
LEMMA InitInv == Init => IInv
<1> SUFFICES ASSUME Init PROVE IInv
  OBVIOUS
<1>1. GraphInv
  BY DEF Init, GraphInv
<1>2. \A v \in Products : v \in Nat /\ v >= 1
  BY <1>1, GraphWellFormed, NodeFacts DEF Products
<1>3. DispatchInv
  BY <1>2 DEF Init, DispatchInv
<1> QED
  BY <1>1, <1>3 DEF Init, IInv, MemoryInv

LEMMA CanonicalizeStep ==
  ASSUME IInv, Canonicalize
  PROVE  IInv'
<1>1. graph = imported /\ graph' = Canonical(imported) /\ imported' = imported /\ imported \in Graphs
  BY DEF IInv, GraphInv, Canonicalize
<1>2. GraphInv'
  BY <1>1 DEF IInv, GraphInv, Canonicalize
<1>3. \A v \in Products' : v \in Nat /\ v >= 1
  <2>1. WellFormed(graph')
    BY <1>1, GraphsAssumption, CanonicalWellFormed
  <2> QED
    BY <2>1, NodeFacts DEF Products
<1>4. dispatches' = <<>> /\ index' = 1 /\ phase' = "fuse"
  BY DEF IInv, DispatchInv, Canonicalize
<1>5. DispatchInv'
  BY <1>3, <1>4 DEF DispatchInv
<1> QED
  BY <1>2, <1>4, <1>5 DEF IInv, MemoryInv

(* ... a dispatch is formed behind the ones there are, ...                 *)
LEMMA FormDispatchStep ==
  ASSUME IInv, FormDispatch
  PROVE  IInv'
<1> DEFINE root == MinOf(Roots)
           Run == {l \in root .. Len(graph.nodes) : \A v \in root .. l - 1 : Legal(v)}
           last == MaxOf(Run)
           used == UNION {ToSet(Operands(v)) : v \in root .. last}
           new == [operations |-> [i \in 1 .. last - root + 1 |-> root + i - 1],
                   inputs |-> used \ (root .. last), output |-> last]
<1>1. GraphInv /\ DispatchInv /\ phase = "fuse" /\ phase' = "fuse" /\ graph' = graph /\ Roots # {}
  BY DEF IInv, FormDispatch
<1>2. dispatches' = Append(dispatches, new) /\ index' = root + 1
  BY DEF FormDispatch
<1>3. PICK n \in Nat : DOMAIN graph.nodes = 1 .. n /\ n = Len(graph.nodes)
  BY <1>1, GraphWellFormed DEF WellFormed
<1>4. /\ root \in 1 .. n /\ root >= index /\ root \notin Consumed
      /\ graph.nodes[root].kind = "MatMul" /\ \A v \in Roots : root <= v
  <2>1. Roots \in SUBSET Nat
    BY <1>3 DEF Roots
  <2>2. root \in Roots /\ \A v \in Roots : root <= v
    BY <1>1, <2>1, MinOfIsLeast
  <2> QED
    BY <1>3, <2>2 DEF Roots
<1> HIDE DEF root
<1>5. last \in root .. n /\ \A v \in root .. last - 1 : Legal(v)
  <2>1. Run \in SUBSET (0 .. n) /\ root \in Run
    BY <1>3, <1>4
  <2>2. last \in Run
    <3> HIDE DEF Run
    <3> QED
      BY <1>3, <2>1, MaxOfIsGreatest
  <2> QED
    BY <1>3, <2>2
<1> HIDE DEF last
<1>6. \A v \in root .. last : Operands(v) \in Seq(Nat) /\ ToSet(Operands(v)) \subseteq Nat
  <2>1. ASSUME NEW v \in root .. last PROVE ToSet(Operands(v)) \subseteq Nat
    <3>1. v \in DOMAIN graph.nodes
      BY <1>3, <1>4, <1>5
    <3>2. DOMAIN graph.nodes \subseteq Nat
      BY <1>3
    <3> QED
      BY <1>1, <3>1, <3>2, OperandBefore
  <2>2. ASSUME NEW v \in root .. last PROVE Operands(v) \in Seq(Nat)
    <3>1. v \in DOMAIN graph.nodes
      BY <1>3, <1>4, <1>5
    <3>2. Operands(v) \in Seq(1 .. v - 1)
      BY <1>1, <3>1, GraphWellFormed, NodeFacts DEF Operands
    <3> QED
      BY <3>2
  <2> QED
    BY <2>1, <2>2
<1>7. new \in Dispatches
  <2>1. [i \in 1 .. last - root + 1 |-> root + i - 1] \in Seq(Nat)
    BY <1>4, <1>5
  <2>2. used \subseteq Nat
    BY <1>6
  <2> HIDE DEF used
  <2> QED
    BY <1>4, <1>5, <2>1, <2>2 DEF Dispatches
<1>8. new.operations = [i \in 1 .. last - root + 1 |-> root + i - 1]
      /\ new.operations[1] = root /\ new.output = last /\ new.inputs = used \ (root .. last)
      /\ root \in ToSet(new.operations)
  <2>1. new.operations = [i \in 1 .. last - root + 1 |-> root + i - 1]
    OBVIOUS
  <2>2. 1 \in 1 .. last - root + 1 /\ root + 1 - 1 = root
    BY <1>4, <1>5
  <2> QED
    BY <2>1, <2>2 DEF ToSet
<1>9. PICK k, m : k = new /\ m = Len(dispatches)
  OBVIOUS
<1>10. /\ m \in Nat /\ DOMAIN dispatches = 1 .. m
       /\ dispatches' \in Seq(Dispatches) /\ DOMAIN dispatches' = 1 .. m + 1
       /\ \A d \in 1 .. m : dispatches'[d] = dispatches[d]
       /\ dispatches'[m + 1] = k
  <2>1. dispatches \in Seq(Dispatches)
    BY <1>1 DEF DispatchInv
  <2> HIDE DEF new
  <2> QED
    BY <1>2, <1>7, <1>9, <2>1, AppendProperties
<1>11. /\ k.operations = [i \in 1 .. last - root + 1 |-> root + i - 1]
       /\ k.operations[1] = root /\ k.output = last /\ k.inputs = used \ (root .. last)
       /\ root \in ToSet(k.operations)
  <2> HIDE DEF new
  <2> QED
    BY <1>8, <1>9
<1> HIDE DEF new, used
<1>12. \A v : Legal(v)' = Legal(v) /\ Operands(v)' = Operands(v)
  BY <1>1 DEF Legal, Users, Operands
<1>13. /\ \A d \in 1 .. m : RootOf(d)' = RootOf(d) /\ Inside(d)' = Inside(d)
       /\ RootOf(m + 1)' = root /\ Inside(m + 1)' = root .. last
  BY <1>10, <1>11 DEF RootOf, Inside
<1>14. \A d \in 1 .. m : dispatches[d].output < root
  <2> SUFFICES ASSUME NEW d \in 1 .. m PROVE dispatches[d].output < root
    OBVIOUS
  <2>1. RootOf(d) \in Nat /\ dispatches[d].output \in Nat /\ RootOf(d) < index /\ index \in Nat
    BY <1>1, <1>10, InsideIs DEF DispatchInv
  <2>2. root \notin Inside(d)
    BY <1>1, <1>4, <1>10, ConsumedIs
  <2> QED
    BY <1>4, <2>1, <2>2 DEF Inside
<1>15. \A d \in 1 .. m + 1 : d \in 1 .. m \/ d = m + 1
  BY <1>10
<1>16. ASSUME NEW d \in DOMAIN dispatches'
       PROVE  /\ RootOf(d)' \in DOMAIN graph'.nodes /\ dispatches'[d].output \in DOMAIN graph'.nodes
              /\ RootOf(d)' <= dispatches'[d].output /\ RootOf(d)' < index'
              /\ dispatches'[d].operations =
                   [i \in 1 .. dispatches'[d].output - RootOf(d)' + 1 |-> RootOf(d)' + i - 1]
              /\ \A v \in RootOf(d)' .. dispatches'[d].output - 1 : Legal(v)'
              /\ dispatches'[d].inputs = (UNION {ToSet(Operands(v)') : v \in Inside(d)'}) \ Inside(d)'
  <2>1. CASE d \in 1 .. m
    <3>1. RootOf(d)' = RootOf(d) /\ Inside(d)' = Inside(d) /\ dispatches'[d] = dispatches[d]
      BY <1>10, <1>13, <2>1
    <3>2. /\ RootOf(d) \in DOMAIN graph.nodes /\ dispatches[d].output \in DOMAIN graph.nodes
          /\ RootOf(d) <= dispatches[d].output /\ RootOf(d) < index
          /\ dispatches[d].operations =
               [i \in 1 .. dispatches[d].output - RootOf(d) + 1 |-> RootOf(d) + i - 1]
          /\ \A v \in RootOf(d) .. dispatches[d].output - 1 : Legal(v)
          /\ dispatches[d].inputs = (UNION {ToSet(Operands(v)) : v \in Inside(d)}) \ Inside(d)
      BY <1>1, <1>10, <2>1 DEF DispatchInv
    <3>3. RootOf(d) < index'
      <4>1. index \in Nat /\ RootOf(d) \in Nat
        BY <1>1, <1>3, <3>2 DEF DispatchInv
      <4> QED
        BY <1>2, <1>4, <3>2, <4>1
    <3> QED
      BY <1>1, <1>12, <3>1, <3>2, <3>3
  <2>2. CASE d = m + 1
    <3>1. RootOf(d)' = root /\ Inside(d)' = root .. last /\ dispatches'[d] = k
      BY <1>10, <1>13, <2>2
    <3>2. used = UNION {ToSet(Operands(v)) : v \in root .. last}
      BY DEF used
    <3>3. root < index'
      BY <1>2, <1>4
    <3>4. root \in DOMAIN graph'.nodes /\ last \in DOMAIN graph'.nodes /\ root <= last
      BY <1>1, <1>3, <1>4, <1>5
    <3>5. \A v \in root .. last - 1 : Legal(v)'
      BY <1>5, <1>12
    <3>6. (UNION {ToSet(Operands(v)') : v \in Inside(d)'}) \ Inside(d)' = k.inputs
      BY <1>11, <1>12, <3>1, <3>2
    <3>7. /\ k.output = last
          /\ k.operations = [i \in 1 .. last - root + 1 |-> root + i - 1]
      BY <1>11
    <3> QED
      BY <3>1, <3>3, <3>4, <3>5, <3>6, <3>7
  <2> QED
    BY <1>10, <1>15, <2>1, <2>2
<1>17. ASSUME NEW d \in DOMAIN dispatches', NEW e \in DOMAIN dispatches', d < e
       PROVE  dispatches'[d].output < RootOf(e)'
  <2>1. d \in 1 .. m
    BY <1>10, <1>17
  <2>2. CASE e \in 1 .. m
    BY <1>1, <1>10, <1>13, <1>17, <2>1, <2>2 DEF DispatchInv
  <2>3. CASE e = m + 1
    BY <1>10, <1>13, <1>14, <2>1, <2>3
  <2> QED
    BY <1>10, <1>15, <2>2, <2>3
<1>18. Consumed \subseteq Consumed' /\ root \in Consumed'
  <2>1. m + 1 \in DOMAIN dispatches' /\ \A d \in DOMAIN dispatches : d \in DOMAIN dispatches'
    BY <1>10
  <2> QED
    BY <1>10, <1>11, <2>1 DEF Consumed
<1>19. ASSUME NEW v \in Products', v < index' PROVE v \in Consumed'
  <2>1. v \in Products /\ v \in 1 .. n /\ index \in Nat
    BY <1>1, <1>3 DEF Products, DispatchInv
  <2>2. v \in Consumed \/ v \in Roots
    BY <1>1, <2>1 DEF DispatchInv, Products, Roots
  <2>3. v \in Roots => v = root
    BY <1>2, <1>3, <1>4, <1>19, <2>1
  <2> QED
    BY <1>18, <2>2, <2>3
<1>20. index' \in Nat
  BY <1>2, <1>4
<1>21. DispatchInv'
  BY <1>1, <1>10, <1>16, <1>17, <1>19, <1>20 DEF DispatchInv
<1>22. GraphInv'
  BY <1>1 DEF FormDispatch, GraphInv
<1> QED
  BY <1>1, <1>21, <1>22 DEF IInv, MemoryInv

(* ... and stays as it is from then on.                                    *)
LEMMA DispatchKept ==
  ASSUME DispatchInv, graph' = graph, dispatches' = dispatches, index' = index,
         phase # "canonicalize", phase' # "canonicalize",
         phase' # "fuse" => Products \subseteq Consumed
  PROVE  DispatchInv'
<1>1. \A v : Legal(v)' = Legal(v) /\ Operands(v)' = Operands(v)
  BY DEF Legal, Users, Operands
<1>2. \A d : RootOf(d)' = RootOf(d) /\ Inside(d)' = Inside(d)
  BY DEF RootOf, Inside
<1>3. Products' = Products /\ Consumed' = Consumed
  BY DEF Products, Consumed
<1>4. dispatches' \in Seq(Dispatches) /\ index' \in Nat
  BY DEF DispatchInv
<1>5. ASSUME NEW d \in DOMAIN dispatches'
      PROVE  /\ RootOf(d)' \in DOMAIN graph'.nodes /\ dispatches'[d].output \in DOMAIN graph'.nodes
             /\ RootOf(d)' <= dispatches'[d].output /\ RootOf(d)' < index'
             /\ dispatches'[d].operations =
                  [i \in 1 .. dispatches'[d].output - RootOf(d)' + 1 |-> RootOf(d)' + i - 1]
             /\ \A v \in RootOf(d)' .. dispatches'[d].output - 1 : Legal(v)'
             /\ dispatches'[d].inputs = (UNION {ToSet(Operands(v)') : v \in Inside(d)'}) \ Inside(d)'
  BY <1>1, <1>2 DEF DispatchInv
<1>6. \A d, e \in DOMAIN dispatches' : d < e => dispatches'[d].output < RootOf(e)'
  BY <1>2 DEF DispatchInv
<1>7. \A v \in Products' : v < index' => v \in Consumed'
  BY <1>3 DEF DispatchInv
<1> QED
  BY <1>3, <1>4, <1>5, <1>6, <1>7 DEF DispatchInv

LEMMA EndFusionStep ==
  ASSUME IInv, EndFusion
  PROVE  IInv'
<1>1. GraphInv /\ DispatchInv /\ phase = "fuse" /\ phase' = "bufferize" /\ Roots = {}
      /\ graph' = graph /\ dispatches' = dispatches /\ index' = index
  BY DEF IInv, EndFusion
<1>2. Products \subseteq Consumed
  <2> SUFFICES ASSUME NEW v \in Products, v \notin Consumed PROVE FALSE
    OBVIOUS
  <2>1. v \in DOMAIN graph.nodes /\ v \in Nat /\ graph.nodes[v].kind = "MatMul"
    BY <1>1, GraphWellFormed, NodeFacts DEF Products
  <2>2. index \in Nat /\ ~(v < index)
    BY <1>1 DEF DispatchInv
  <2> QED
    BY <1>1, <2>1, <2>2 DEF Roots
<1>3. DispatchInv'
  BY <1>1, <1>2, DispatchKept
<1>4. GraphInv'
  BY <1>1 DEF EndFusion, GraphInv
<1> QED
  BY <1>1, <1>3, <1>4 DEF IInv, MemoryInv

-----------------------------------------------------------------------------
(* Bufferization.  The size of a value is a number, ...                    *)
LEMMA BytesNat ==
  ASSUME GraphInv, NEW v \in DOMAIN graph.nodes
  PROVE  Bytes(v) \in Nat
<1> DEFINE type == TypesOf(graph)[v]
<1>1. type \in Types
  BY GraphWellFormed, TypesOfType
<1>2. type.height \in Nat /\ type.cols \in Nat /\ Rows \in Nat
  BY <1>1, AlignmentAssumption DEF Types
<1>3. Bytes(v) \in {type.height * type.cols, Rows * type.cols, 0}
  BY DEF Bytes
<1> HIDE DEF type
<1>4. type.height * type.cols \in Nat /\ Rows * type.cols \in Nat
  BY <1>2
<1> QED
  BY <1>3, <1>4

(* ... and it is alive between the first and the last of its dispatches.   *)
LEMMA TouchingBounds ==
  ASSUME DispatchInv, NEW v
  PROVE  /\ Touching(v) \subseteq DOMAIN dispatches
         /\ BufferFor(v).first \in Nat /\ BufferFor(v).last \in Nat
         /\ \A d \in Touching(v) : /\ d \in Nat
                                   /\ BufferFor(v).first <= d - 1
                                   /\ d - 1 <= BufferFor(v).last
         /\ Touching(v) # {} =>
              \E d \in Touching(v) : BufferFor(v).last = d - 1
<1> DEFINE m == Len(dispatches)
           T == Touching(v)
<1>1. m \in Nat /\ DOMAIN dispatches = 1 .. m
  BY DEF DispatchInv
<1>2. T \subseteq 1 .. m
  BY <1>1 DEF Touching
<1>3. /\ BufferFor(v).first = IF T = {} THEN m ELSE MinOf(T) - 1
      /\ BufferFor(v).last = IF T = {} THEN 0 ELSE MaxOf(T) - 1
  BY DEF BufferFor
<1> HIDE DEF T, m
<1>4. CASE T = {}
  BY <1>1, <1>2, <1>3, <1>4 DEF T
<1>5. CASE T # {}
  <2>1. MinOf(T) \in T /\ \A y \in T : MinOf(T) <= y
    BY <1>2, <1>5, MinOfIsLeast
  <2>2. MaxOf(T) \in T /\ \A y \in T : y <= MaxOf(T)
    <3>1. T \in SUBSET (0 .. m)
      BY <1>1, <1>2
    <3> QED
      BY <1>1, <1>5, <3>1, MaxOfIsGreatest
  <2>3. BufferFor(v).first = MinOf(T) - 1 /\ BufferFor(v).last = MaxOf(T) - 1
    BY <1>3, <1>5
  <2>4. \A y \in T : y \in 1 .. m
    BY <1>2
  <2>5. \A d \in T : d \in Nat /\ BufferFor(v).first <= d - 1 /\ d - 1 <= BufferFor(v).last
    BY <1>1, <2>1, <2>2, <2>3, <2>4
  <2>6. BufferFor(v).first \in Nat /\ BufferFor(v).last \in Nat
    BY <1>1, <2>1, <2>2, <2>3, <2>4
  <2> QED
    BY <1>1, <1>2, <2>2, <2>3, <2>5, <2>6 DEF T
<1> QED
  BY <1>4, <1>5

LEMMA PlanKept ==
  ASSUME graph' = graph, specialized' = specialized, dispatches' = dispatches
  PROVE  /\ \A v : Bytes(v)' = Bytes(v) /\ BufferFor(v)' = BufferFor(v)
         /\ Planned' = Planned
<1>1. \A v : Bytes(v)' = Bytes(v)
  BY DEF Bytes
<1>2. \A v : Touching(v)' = Touching(v) /\ Computed(v)' = Computed(v)
  BY DEF Touching, Computed
<1>3. \A v : Materialized(v)' = Materialized(v)
  BY <1>2 DEF Materialized
<1>4. \A v : BufferFor(v)' = BufferFor(v)
  BY <1>1, <1>2 DEF BufferFor
<1> QED
  BY <1>1, <1>2, <1>3, <1>4 DEF Planned

LEMMA PlanBuffersStep ==
  ASSUME IInv, PlanBuffers
  PROVE  IInv'
<1>1. /\ GraphInv /\ DispatchInv /\ phase = "bufferize" /\ phase' = "place"
      /\ graph' = graph /\ dispatches' = dispatches /\ index' = index /\ specialized' = specialized
      /\ imported' = imported
  BY DEF IInv, PlanBuffers
<1>2. GraphInv'
  BY <1>1 DEF GraphInv
<1>3. DispatchInv'
  BY <1>1, DispatchKept DEF DispatchInv
<1>4. buffers' = [v \in Planned |-> BufferFor(v)] /\ placed' = 0 /\ slots' = <<>> /\ workspace' = 0
  BY DEF PlanBuffers, Planned
<1>5. BuffersInv'
  <2>1. \A v : BufferFor(v) = [bytes |-> Bytes(v), offset |-> BufferFor(v).offset,
                               first |-> BufferFor(v).first, last |-> BufferFor(v).last,
                               external |-> BufferFor(v).external]
    BY DEF BufferFor
  <2>2. DOMAIN buffers' = Planned' /\ \A v \in Planned' : buffers'[v] = BufferFor(v)
    BY <1>1, <1>4, PlanKept
  <2>3. \A v : Bytes(v)' = Bytes(v) /\ BufferFor(v)' = BufferFor(v)
    BY <1>1, PlanKept
  <2> HIDE DEF Planned
  <2>4. \A v \in Planned' :
          buffers'[v] = [bytes |-> Bytes(v)', offset |-> buffers'[v].offset, first |-> BufferFor(v)'.first,
                         last |-> BufferFor(v)'.last, external |-> BufferFor(v)'.external]
    BY <2>1, <2>2, <2>3
  <2> QED
    BY <1>4, <2>2, <2>4 DEF BuffersInv
<1>6. SlotsInv'
  BY <1>4 DEF SlotsInv
<1>7. Placed' = {}
  <2>1. \A v \in Planned : v \in Nat /\ v >= 1
    BY <1>1, GraphWellFormed, NodeFacts DEF Planned
  <2> QED
    BY <1>4, <2>1 DEF Placed, InWorkspace
<1>8. PlacesInv'
  BY <1>7 DEF PlacesInv
<1> QED
  BY <1>1, <1>2, <1>3, <1>5, <1>6, <1>8 DEF IInv, MemoryInv

(* What is placed: a buffer of some bytes, with a lifetime.                *)
LEMMA TemporaryIs ==
  ASSUME GraphInv, DispatchInv, BuffersInv, NEW v \in InWorkspace
  PROVE  /\ v \in Planned /\ v \in Nat /\ Computed(v) /\ v # graph.return /\ Touching(v) # {}
         /\ buffers[v].bytes = Bytes(v) /\ buffers[v].bytes \in Nat \ {0}
         /\ buffers[v].first = BufferFor(v).first /\ buffers[v].last = BufferFor(v).last
         /\ buffers[v].first \in Nat /\ buffers[v].last \in Nat
         /\ buffers[v].first <= buffers[v].last
         /\ DOMAIN buffers[v] = {"bytes", "offset", "first", "last", "external"}
<1>1. v \in Planned /\ ~buffers[v].external
  BY DEF InWorkspace, BuffersInv
<1>2. /\ buffers[v].bytes = Bytes(v) /\ buffers[v].first = BufferFor(v).first
      /\ buffers[v].last = BufferFor(v).last /\ buffers[v].external = BufferFor(v).external
      /\ DOMAIN buffers[v] = {"bytes", "offset", "first", "last", "external"}
  <2>1. \E x : buffers[v] = [bytes |-> Bytes(v), offset |-> x, first |-> BufferFor(v).first,
                             last |-> BufferFor(v).last, external |-> BufferFor(v).external]
    BY <1>1 DEF BuffersInv
  <2> QED
    BY <2>1
<1>3. Computed(v) /\ v # graph.return
  BY <1>1, <1>2 DEF BufferFor
<1>4. v \in DOMAIN graph.nodes /\ Bytes(v) # 0 /\ Touching(v) # {}
  BY <1>1, <1>3 DEF Planned, Materialized
<1>5. v \in Nat /\ Bytes(v) \in Nat \ {0}
  BY <1>4, BytesNat, GraphWellFormed, NodeFacts
<1>6. PICK d \in Touching(v) : TRUE
  BY <1>4
<1>7. /\ BufferFor(v).first \in Nat /\ BufferFor(v).last \in Nat /\ d \in Nat
      /\ BufferFor(v).first <= d - 1 /\ d - 1 <= BufferFor(v).last
  BY <1>6, TouchingBounds
<1>8. BufferFor(v).first <= BufferFor(v).last
  BY <1>7
<1> QED
  BY <1>1, <1>2, <1>3, <1>4, <1>5, <1>7, <1>8

LEMMA AlignToIs ==
  ASSUME NEW w \in Nat
  PROVE  AlignTo(w) \in Nat /\ AlignTo(w) >= w
<1> DEFINE q == (w + Alignment - 1) \div Alignment
<1>1. Alignment \in Nat \ {0} /\ w + Alignment - 1 \in Nat
  BY AlignmentAssumption
<1>2. /\ q \in Nat /\ Alignment * q \in Nat
      /\ w + Alignment - 1 < Alignment * q + Alignment
  <2>1. q \in Nat
    BY <1>1, DivNat
  <2>2. w + Alignment - 1 < Alignment * q + Alignment
    BY <1>1, DivBounds
  <2> HIDE DEF q
  <2> QED
    BY <1>1, <2>1, <2>2
<1>3. AlignTo(w) = Alignment * q
  <2> HIDE DEF q
  <2>1. q * Alignment = Alignment * q
    BY <1>1, <1>2
  <2> QED
    BY <2>1 DEF AlignTo, q
<1> HIDE DEF q
<1> QED
  BY <1>1, <1>2, <1>3

(* Slots with one offset are one slot.                                     *)
LEMMA SlotOfOffset ==
  ASSUME SlotsInv, NEW s \in DOMAIN slots, NEW t \in DOMAIN slots, slots[s].offset = slots[t].offset
  PROVE  s = t
<1> DEFINE Slot == [offset : Nat, bytes : Nat \ {0}, last : Nat]
<1>1. /\ slots[s].offset \in Nat /\ slots[s].bytes \in Nat \ {0} /\ s \in Nat
      /\ slots[t].offset \in Nat /\ slots[t].bytes \in Nat \ {0} /\ t \in Nat
  <2>1. slots \in Seq(Slot)
    BY DEF SlotsInv
  <2> HIDE DEF Slot
  <2>2. slots[s] \in Slot /\ slots[t] \in Slot /\ s \in Nat /\ t \in Nat
    BY <2>1
  <2> QED
    BY <2>2 DEF Slot
<1>2. /\ s < t => slots[s].offset + slots[s].bytes <= slots[t].offset
      /\ t < s => slots[t].offset + slots[t].bytes <= slots[s].offset
  BY DEF SlotsInv
<1> QED
  BY <1>1, <1>2

LEMMA PlaceBufferStep ==
  ASSUME IInv, PlaceBuffer
  PROVE  IInv'
<1> DEFINE waiting == {u \in DOMAIN buffers : u > placed /\ ~buffers[u].external}
           least == MinOf(waiting)
           free(u) == {s \in DOMAIN slots : Reusable(slots[s], buffers[u])}
           new(u) == NewSlot(buffers[u])
           Slot == [offset : Nat, bytes : Nat \ {0}, last : Nat]
<1>1. /\ GraphInv /\ DispatchInv /\ phase = "place" /\ phase' = "place"
      /\ graph' = graph /\ dispatches' = dispatches /\ index' = index /\ specialized' = specialized
      /\ imported' = imported
  BY DEF IInv, PlaceBuffer
<1>2. BuffersInv /\ SlotsInv /\ PlacesInv
  BY <1>1 DEF IInv, MemoryInv
<1>3. GraphInv'
  BY <1>1 DEF GraphInv
<1>4. DispatchInv'
  BY <1>1, DispatchKept DEF DispatchInv
<1>5. least \in waiting /\ \A u \in waiting : least <= u
  <2>1. waiting # {}
    BY DEF PlaceBuffer
  <2>2. waiting \in SUBSET Nat
    BY <1>1, <1>2, GraphWellFormed, NodeFacts DEF BuffersInv, Planned
  <2> HIDE DEF waiting
  <2> QED
    BY <2>1, <2>2, MinOfIsLeast
<1>6. PICK v : v = least
  OBVIOUS
<1>7. /\ placed' = v /\ v \in InWorkspace /\ v > placed /\ v \in DOMAIN buffers
      /\ \A u \in InWorkspace : u > placed => v <= u
  BY <1>5, <1>6 DEF PlaceBuffer, InWorkspace
<1>8. \/ /\ free(v) # {}
         /\ slots' = [slots EXCEPT ![MinOf(free(v))].last = buffers[v].last]
         /\ buffers' = [buffers EXCEPT ![v].offset = slots[MinOf(free(v))].offset]
         /\ workspace' = workspace
      \/ /\ slots' = Append(slots, new(v))
         /\ buffers' = [buffers EXCEPT ![v].offset = new(v).offset]
         /\ workspace' = new(v).offset + new(v).bytes
  BY <1>6 DEF PlaceBuffer
<1>9. PICK x : buffers' = [buffers EXCEPT ![v].offset = x]
  BY <1>8
<1>10. /\ buffers[v].bytes \in Nat \ {0} /\ buffers[v].first \in Nat /\ buffers[v].last \in Nat
       /\ buffers[v].first <= buffers[v].last /\ v \in Nat
       /\ DOMAIN buffers[v] = {"bytes", "offset", "first", "last", "external"}
  BY <1>1, <1>2, <1>7, TemporaryIs
<1>11. /\ DOMAIN buffers' = DOMAIN buffers
       /\ \A u \in DOMAIN buffers : u # v => buffers'[u] = buffers[u]
       /\ buffers'[v] = [buffers[v] EXCEPT !.offset = x]
  BY <1>7, <1>9
<1>12. /\ buffers'[v].offset = x /\ buffers'[v].bytes = buffers[v].bytes
       /\ buffers'[v].first = buffers[v].first /\ buffers'[v].last = buffers[v].last
       /\ buffers'[v].external = buffers[v].external
  BY <1>10, <1>11
<1> HIDE DEF least, waiting
<1>13. BuffersInv'
  <2>1. Planned' = Planned /\ \A u : Bytes(u)' = Bytes(u) /\ BufferFor(u)' = BufferFor(u)
    BY <1>1, PlanKept
  <2>2. \A u \in Planned :
          buffers[u] = [bytes |-> Bytes(u), offset |-> buffers[u].offset, first |-> BufferFor(u).first,
                        last |-> BufferFor(u).last, external |-> BufferFor(u).external]
    BY <1>2 DEF BuffersInv
  <2>3. DOMAIN buffers = Planned
    BY <1>2 DEF BuffersInv
  <2> HIDE DEF Planned
  <2>4. ASSUME NEW u \in Planned
        PROVE  buffers'[u] = [bytes |-> Bytes(u), offset |-> buffers'[u].offset, first |-> BufferFor(u).first,
                              last |-> BufferFor(u).last, external |-> BufferFor(u).external]
    <3>1. CASE u # v
      BY <1>11, <2>2, <2>3, <3>1
    <3>2. CASE u = v
      <4>1. /\ buffers[v].bytes = Bytes(v) /\ buffers[v].first = BufferFor(v).first
            /\ buffers[v].last = BufferFor(v).last /\ buffers[v].external = BufferFor(v).external
        <5>1. \E y : buffers[u] = [bytes |-> Bytes(u), offset |-> y, first |-> BufferFor(u).first,
                                   last |-> BufferFor(u).last, external |-> BufferFor(u).external]
          BY <2>2
        <5> QED
          BY <3>2, <5>1
      <4>2. buffers'[v] = [bytes |-> buffers[v].bytes, offset |-> x, first |-> buffers[v].first,
                           last |-> buffers[v].last, external |-> buffers[v].external]
        BY <1>10, <1>11
      <4> QED
        BY <1>12, <3>2, <4>1, <4>2
    <3> QED
      BY <3>1, <3>2
  <2>5. placed' \in Nat
    BY <1>7, <1>10
  <2> QED
    BY <1>11, <2>1, <2>3, <2>4, <2>5 DEF BuffersInv
<1>14. InWorkspace' = InWorkspace /\ Placed' = Placed \cup {v} /\ v \notin Placed
  <2>1. InWorkspace' = InWorkspace
    BY <1>11, <1>12 DEF InWorkspace
  <2>2. \A u \in InWorkspace : u \in Nat
    BY <1>1, <1>2, TemporaryIs
  <2>3. placed \in Nat
    BY <1>2 DEF BuffersInv
  <2>4. \A u \in InWorkspace : u <= v <=> u <= placed \/ u = v
    BY <1>7, <1>10, <2>2, <2>3
  <2> QED
    BY <1>7, <1>10, <2>1, <2>3, <2>4 DEF Placed
<1>15. \A a \in Placed : a \in DOMAIN buffers /\ a # v /\ buffers'[a] = buffers[a]
                         /\ buffers[a].last \in Nat /\ buffers[a].bytes \in Nat
  <2>1. \A a \in Placed : a \in InWorkspace /\ a # v
    BY <1>14 DEF Placed
  <2> QED
    BY <1>1, <1>2, <1>11, <2>1, TemporaryIs DEF InWorkspace
<1>16. /\ slots \in Seq(Slot) /\ workspace \in Nat
       /\ \A s \in DOMAIN slots : slots[s].offset + slots[s].bytes <= workspace
       /\ \A s, t \in DOMAIN slots : s < t => slots[s].offset + slots[s].bytes <= slots[t].offset
  BY <1>2 DEF SlotsInv
<1> HIDE DEF Slot
<1>17. ASSUME free(v) # {},
              slots' = [slots EXCEPT ![MinOf(free(v))].last = buffers[v].last],
              x = slots[MinOf(free(v))].offset,
              workspace' = workspace
       PROVE  SlotsInv' /\ PlacesInv'
  <2>1. PICK r : r = MinOf(free(v))
    OBVIOUS
  <2>2. r \in DOMAIN slots /\ Reusable(slots[r], buffers[v])
    <3>1. free(v) \in SUBSET Nat
      BY <1>16
    <3>2. r \in free(v)
      <4> HIDE DEF free
      <4> QED
        BY <1>17, <2>1, <3>1, MinOfIsLeast
    <3> QED
      BY <3>2
  <2>3. /\ slots' = [slots EXCEPT ![r].last = buffers[v].last] /\ x = slots[r].offset
        /\ slots[r].last < buffers[v].first /\ slots[r].bytes >= buffers[v].bytes
    BY <1>17, <2>1, <2>2 DEF Reusable
  <2>4. \A s \in DOMAIN slots : slots[s] \in Slot
    BY <1>16
  <2>5. slots[r] \in Slot /\ [slots[r] EXCEPT !.last = buffers[v].last] \in Slot
    BY <1>10, <2>2, <2>4 DEF Slot
  <2>6. /\ slots' \in Seq(Slot) /\ DOMAIN slots' = DOMAIN slots
        /\ \A s \in DOMAIN slots : s # r => slots'[s] = slots[s]
        /\ slots'[r] = [slots[r] EXCEPT !.last = buffers[v].last]
    BY <1>16, <2>2, <2>3, <2>5
  <2>7. /\ slots'[r].last = buffers[v].last /\ slots'[r].offset = slots[r].offset
        /\ slots'[r].bytes = slots[r].bytes
    BY <2>5, <2>6 DEF Slot
  <2>8. \A s \in DOMAIN slots : slots'[s].offset = slots[s].offset /\ slots'[s].bytes = slots[s].bytes
    BY <2>6, <2>7
  <2>9. SlotsInv'
    <3>1. slots' \in Seq([offset : Nat, bytes : Nat \ {0}, last : Nat])
      BY <2>6 DEF Slot
    <3>2. \A s \in DOMAIN slots' : slots'[s].offset + slots'[s].bytes <= workspace'
      BY <1>16, <1>17, <2>6, <2>8
    <3>3. \A s, t \in DOMAIN slots' : s < t => slots'[s].offset + slots'[s].bytes <= slots'[t].offset
      BY <1>16, <2>6, <2>8
    <3> QED
      BY <1>16, <1>17, <3>1, <3>2, <3>3 DEF SlotsInv
  <2>10. \A s \in DOMAIN slots : slots[s].last <= slots'[s].last
    <3>1. \A s \in DOMAIN slots : slots[s].last \in Nat
      BY <2>4 DEF Slot
    <3> QED
      BY <1>10, <2>2, <2>3, <2>6, <2>7, <3>1
  <2>11. ASSUME NEW a \in Placed'
         PROVE  \E s \in DOMAIN slots' :
                  /\ buffers'[a].offset = slots'[s].offset /\ buffers'[a].bytes <= slots'[s].bytes
                  /\ buffers'[a].last <= slots'[s].last
    <3>1. CASE a = v
      <4>1. buffers'[v].offset = slots'[r].offset /\ buffers'[v].bytes <= slots'[r].bytes
        BY <1>10, <1>12, <2>3, <2>5, <2>7 DEF Slot
      <4>2. buffers'[v].last <= slots'[r].last
        BY <1>10, <1>12, <2>7
      <4> QED
        BY <2>2, <2>6, <3>1, <4>1, <4>2
    <3>2. CASE a \in Placed
      <4>1. PICK s \in DOMAIN slots :
              /\ buffers[a].offset = slots[s].offset /\ buffers[a].bytes <= slots[s].bytes
              /\ buffers[a].last <= slots[s].last
        BY <1>2, <3>2 DEF PlacesInv
      <4>2. slots[s].last \in Nat /\ slots'[s].last \in Nat /\ buffers[a].last \in Nat
        <5>1. slots[s] \in Slot /\ slots'[s] \in Slot
          BY <1>16, <2>6
        <5> QED
          BY <1>15, <3>2, <5>1 DEF Slot
      <4>3. buffers[a].last <= slots'[s].last
        BY <2>10, <4>1, <4>2
      <4> QED
        BY <1>15, <2>6, <2>8, <3>2, <4>1, <4>3
    <3> QED
      BY <1>14, <3>1, <3>2
  <2>12. ASSUME NEW a \in Placed, buffers[a].offset = x PROVE buffers[a].last < buffers[v].first
    <3>1. PICK s \in DOMAIN slots :
            buffers[a].offset = slots[s].offset /\ buffers[a].last <= slots[s].last
      BY <1>2 DEF PlacesInv
    <3>2. s = r
      BY <1>2, <2>2, <2>3, <2>12, <3>1, SlotOfOffset
    <3>3. slots[r].last \in Nat /\ buffers[a].last \in Nat
      BY <1>15, <2>5 DEF Slot
    <3> QED
      BY <1>10, <2>3, <3>1, <3>2, <3>3
  <2>13. ASSUME NEW a \in Placed', NEW b \in Placed', a # b, buffers'[a].offset = buffers'[b].offset
         PROVE  buffers'[a].last < buffers'[b].first \/ buffers'[b].last < buffers'[a].first
    <3>1. CASE a \in Placed /\ b \in Placed
      BY <1>2, <1>15, <2>13, <3>1 DEF PlacesInv
    <3>2. CASE a = v /\ b \in Placed
      BY <1>12, <1>15, <2>12, <2>13, <3>2
    <3>3. CASE b = v /\ a \in Placed
      BY <1>12, <1>15, <2>12, <2>13, <3>3
    <3> QED
      BY <1>14, <2>13, <3>1, <3>2, <3>3
  <2> QED
    BY <2>9, <2>11, <2>13 DEF PlacesInv
<1>18. ASSUME slots' = Append(slots, new(v)),
              x = new(v).offset,
              workspace' = new(v).offset + new(v).bytes
       PROVE  SlotsInv' /\ PlacesInv'
  <2>1. PICK r, n : r = new(v) /\ n = Len(slots)
    OBVIOUS
  <2>2. /\ r.offset = AlignTo(workspace) /\ r.bytes = buffers[v].bytes /\ r.last = buffers[v].last
        /\ r.offset \in Nat /\ workspace <= r.offset /\ r \in Slot
    <3>1. AlignTo(workspace) \in Nat /\ AlignTo(workspace) >= workspace
      BY <1>16, AlignToIs
    <3> QED
      BY <1>10, <1>16, <2>1, <3>1 DEF NewSlot, Slot
  <2>3. slots' = Append(slots, r) /\ x = r.offset /\ workspace' = r.offset + r.bytes
    BY <1>18, <2>1
  <2> HIDE DEF new
  <2>4. /\ n \in Nat /\ DOMAIN slots = 1 .. n /\ DOMAIN slots' = 1 .. n + 1 /\ slots' \in Seq(Slot)
        /\ \A s \in 1 .. n : slots'[s] = slots[s]
        /\ slots'[n + 1] = r
    BY <1>16, <2>1, <2>2, <2>3, AppendProperties
  <2>5. \A s \in 1 .. n : slots[s].offset \in Nat /\ slots[s].bytes \in Nat \ {0} /\ slots[s].last \in Nat
    <3>1. \A s \in 1 .. n : slots[s] \in Slot
      BY <1>16, <2>4
    <3> QED
      BY <3>1 DEF Slot
  <2>6. workspace' \in Nat /\ workspace <= workspace'
    BY <1>10, <1>16, <2>2, <2>3
  <2>7. \A s \in DOMAIN slots' : s \in 1 .. n \/ s = n + 1
    BY <2>4
  <2>8. \A s \in 1 .. n : slots[s].offset + slots[s].bytes <= workspace
    BY <1>16, <2>4
  <2>9. \A s \in DOMAIN slots' : slots'[s].offset + slots'[s].bytes <= workspace'
    <3>1. \A s \in 1 .. n : slots[s].offset + slots[s].bytes <= workspace'
      BY <1>16, <2>5, <2>6, <2>8
    <3> QED
      BY <2>2, <2>3, <2>4, <2>6, <2>7, <3>1
  <2>10. ASSUME NEW s \in DOMAIN slots', NEW t \in DOMAIN slots', s < t
         PROVE  slots'[s].offset + slots'[s].bytes <= slots'[t].offset
    <3>1. s \in 1 .. n
      BY <2>4, <2>10
    <3>2. CASE t \in 1 .. n
      BY <1>16, <2>4, <2>10, <3>1, <3>2
    <3>3. CASE t = n + 1
      <4>1. slots[s].offset + slots[s].bytes <= r.offset
        BY <1>16, <2>2, <2>5, <2>8, <3>1
      <4> QED
        BY <2>4, <3>1, <3>3, <4>1
    <3> QED
      BY <2>7, <3>2, <3>3
  <2>11. SlotsInv'
    BY <2>4, <2>6, <2>9, <2>10 DEF SlotsInv, Slot
  <2>12. ASSUME NEW a \in Placed'
         PROVE  \E s \in DOMAIN slots' :
                  /\ buffers'[a].offset = slots'[s].offset /\ buffers'[a].bytes <= slots'[s].bytes
                  /\ buffers'[a].last <= slots'[s].last
    <3>1. CASE a = v
      BY <1>10, <1>12, <2>2, <2>3, <2>4, <3>1
    <3>2. CASE a \in Placed
      <4>1. PICK s \in DOMAIN slots :
              /\ buffers[a].offset = slots[s].offset /\ buffers[a].bytes <= slots[s].bytes
              /\ buffers[a].last <= slots[s].last
        BY <1>2, <3>2 DEF PlacesInv
      <4>2. s \in 1 .. n /\ s \in DOMAIN slots' /\ slots'[s] = slots[s] /\ buffers'[a] = buffers[a]
        BY <1>15, <2>4, <3>2, <4>1
      <4> QED
        BY <4>1, <4>2
    <3> QED
      BY <1>14, <3>1, <3>2
  <2>13. ASSUME NEW a \in Placed PROVE buffers[a].offset # x
    <3>1. PICK s \in DOMAIN slots : buffers[a].offset = slots[s].offset
      BY <1>2 DEF PlacesInv
    <3>2. slots[s].offset + slots[s].bytes <= r.offset
      BY <1>16, <2>2, <2>4, <2>5, <2>8, <3>1
    <3> QED
      BY <2>2, <2>3, <2>4, <2>5, <3>1, <3>2
  <2>14. ASSUME NEW a \in Placed', NEW b \in Placed', a # b, buffers'[a].offset = buffers'[b].offset
         PROVE  buffers'[a].last < buffers'[b].first \/ buffers'[b].last < buffers'[a].first
    <3>1. CASE a \in Placed /\ b \in Placed
      BY <1>2, <1>15, <2>14, <3>1 DEF PlacesInv
    <3>2. CASE a = v \/ b = v
      BY <1>12, <1>14, <1>15, <2>13, <2>14, <3>2
    <3> QED
      BY <1>14, <2>14, <3>1, <3>2
  <2> QED
    BY <2>11, <2>12, <2>14 DEF PlacesInv
<1>19. SlotsInv' /\ PlacesInv'
  <2>1. ASSUME NEW y, buffers' = [buffers EXCEPT ![v].offset = y] PROVE x = y
    <3>1. buffers'[v] = [buffers[v] EXCEPT !.offset = y]
      BY <1>7, <2>1
    <3>2. buffers'[v].offset = y
      BY <1>10, <3>1
    <3> QED
      BY <1>12, <3>2
  <2> HIDE DEF free, new
  <2>2. CASE /\ free(v) # {}
             /\ slots' = [slots EXCEPT ![MinOf(free(v))].last = buffers[v].last]
             /\ buffers' = [buffers EXCEPT ![v].offset = slots[MinOf(free(v))].offset]
             /\ workspace' = workspace
    <3>1. x = slots[MinOf(free(v))].offset
      BY <2>1, <2>2
    <3> QED
      BY <1>17, <2>2, <3>1
  <2>3. CASE /\ slots' = Append(slots, new(v))
             /\ buffers' = [buffers EXCEPT ![v].offset = new(v).offset]
             /\ workspace' = new(v).offset + new(v).bytes
    <3>1. x = new(v).offset
      BY <2>1, <2>3
    <3> QED
      BY <1>18, <2>3, <3>1
  <2> QED
    BY <1>8, <2>2, <2>3
<1> QED
  BY <1>1, <1>3, <1>4, <1>13, <1>19 DEF IInv, MemoryInv

LEMMA MemoryKept ==
  ASSUME BuffersInv, SlotsInv, PlacesInv,
         graph' = graph, specialized' = specialized, dispatches' = dispatches,
         memoryVars' = memoryVars
  PROVE  /\ BuffersInv' /\ SlotsInv' /\ PlacesInv'
         /\ InWorkspace' = InWorkspace /\ Placed' = Placed
<1>1. buffers' = buffers /\ placed' = placed /\ slots' = slots /\ workspace' = workspace
  BY DEF memoryVars
<1>2. Planned' = Planned /\ \A v : Bytes(v)' = Bytes(v) /\ BufferFor(v)' = BufferFor(v)
  BY PlanKept
<1>3. BuffersInv'
  BY <1>1, <1>2 DEF BuffersInv
<1>4. SlotsInv'
  BY <1>1 DEF SlotsInv
<1>5. InWorkspace' = InWorkspace /\ Placed' = Placed
  BY <1>1 DEF InWorkspace, Placed
<1>6. PlacesInv'
  BY <1>1, <1>5 DEF PlacesInv
<1> QED
  BY <1>3, <1>4, <1>5, <1>6

LEMMA EndPlacementStep ==
  ASSUME IInv, EndPlacement
  PROVE  IInv'
<1>1. /\ GraphInv /\ DispatchInv /\ phase = "place" /\ phase' = "done"
      /\ graph' = graph /\ dispatches' = dispatches /\ index' = index /\ specialized' = specialized
      /\ imported' = imported /\ memoryVars' = memoryVars
      /\ \A v \in DOMAIN buffers : v > placed => buffers[v].external
  BY DEF IInv, EndPlacement, memoryVars
<1>2. BuffersInv /\ SlotsInv /\ PlacesInv
  BY <1>1 DEF IInv, MemoryInv
<1>3. GraphInv'
  BY <1>1 DEF GraphInv
<1>4. DispatchInv'
  BY <1>1, DispatchKept DEF DispatchInv
<1>5. /\ BuffersInv' /\ SlotsInv' /\ PlacesInv'
      /\ InWorkspace' = InWorkspace /\ Placed' = Placed
  BY <1>1, <1>2, MemoryKept
<1>6. Placed = InWorkspace
  <2> SUFFICES ASSUME NEW v \in InWorkspace PROVE v <= placed
    BY DEF Placed
  <2>1. v \in Nat /\ placed \in Nat
    BY <1>1, <1>2, TemporaryIs DEF BuffersInv
  <2> QED
    BY <1>1, <2>1 DEF InWorkspace
<1> QED
  BY <1>3, <1>4, <1>5, <1>6 DEF IInv, MemoryInv

LEMMA SpecializeStep ==
  ASSUME IInv, Specialize
  PROVE  IInv'
<1>1. /\ GraphInv /\ DispatchInv /\ phase = "done" /\ phase' = "bufferize"
      /\ graph' = graph /\ dispatches' = dispatches /\ index' = index /\ specialized' = TRUE
      /\ imported' = imported
  BY DEF IInv, Specialize
<1>2. GraphInv'
  BY <1>1 DEF GraphInv
<1>3. DispatchInv'
  BY <1>1, DispatchKept DEF DispatchInv
<1> QED
  BY <1>1, <1>2, <1>3 DEF IInv, MemoryInv

LEMMA StutterStep ==
  ASSUME IInv, UNCHANGED vars
  PROVE  IInv'
<1>1. /\ imported' = imported /\ graph' = graph /\ specialized' = specialized /\ phase' = phase
      /\ index' = index /\ dispatches' = dispatches /\ memoryVars' = memoryVars
  BY DEF vars, memoryVars
<1>2. GraphInv /\ DispatchInv
  BY DEF IInv
<1>3. GraphInv'
  BY <1>1, <1>2 DEF GraphInv
<1>4. DispatchInv'
  <2>1. CASE phase = "canonicalize"
    <3>1. dispatches' = <<>> /\ index' = 1 /\ phase' = "canonicalize"
      BY <1>1, <1>2, <2>1 DEF DispatchInv
    <3>2. \A v \in Products' : v \in Nat /\ v >= 1
      BY <1>1, <1>2, GraphWellFormed, NodeFacts DEF Products
    <3> QED
      BY <3>1, <3>2 DEF DispatchInv
  <2>2. CASE phase # "canonicalize"
    BY <1>1, <1>2, <2>2, DispatchKept DEF DispatchInv
  <2> QED
    BY <2>1, <2>2
<1>5. MemoryInv'
  <2>1. CASE phase \in {"place", "done"}
    <3>1. /\ BuffersInv' /\ SlotsInv' /\ PlacesInv'
          /\ InWorkspace' = InWorkspace /\ Placed' = Placed
      BY <1>1, <2>1, MemoryKept DEF IInv, MemoryInv
    <3> QED
      BY <1>1, <3>1 DEF IInv, MemoryInv
  <2>2. CASE phase \notin {"place", "done"}
    BY <1>1, <2>2 DEF MemoryInv
  <2> QED
    BY <2>1, <2>2
<1> QED
  BY <1>3, <1>4, <1>5 DEF IInv

LEMMA NextInv == IInv /\ [Next]_vars => IInv'
<1> SUFFICES ASSUME IInv, [Next]_vars PROVE IInv'
  OBVIOUS
<1>1. CASE Canonicalize
  BY <1>1, CanonicalizeStep
<1>2. CASE FormDispatch
  BY <1>2, FormDispatchStep
<1>3. CASE EndFusion
  BY <1>3, EndFusionStep
<1>4. CASE PlanBuffers
  BY <1>4, PlanBuffersStep
<1>5. CASE PlaceBuffer
  BY <1>5, PlaceBufferStep
<1>6. CASE EndPlacement
  BY <1>6, EndPlacementStep
<1>7. CASE Specialize
  BY <1>7, SpecializeStep
<1>8. CASE Terminated \/ UNCHANGED vars
  BY <1>8, StutterStep DEF Terminated
<1> QED
  BY <1>1, <1>2, <1>3, <1>4, <1>5, <1>6, <1>7, <1>8 DEF Next

(* Whatever the graphs, the alignment and the rows: the graph is the       *)
(* imported one or its normal form, dispatches are intervals of operations *)
(* that only feed the next one, and buffers lie in slots, apart in time or *)
(* in space.                                                               *)
THEOREM Invariance == Spec => []IInv
  BY InitInv, NextInv, PTL DEF Spec

-----------------------------------------------------------------------------
(* An MLP means the same in its normal form (GraphCanonicalizationPass).   *)
THEOREM MlpKept == Spec => []CanonicalKeepsMlp
<1>1. ASSUME GraphInv PROVE CanonicalKeepsMlp
  <2> DEFINE g == imported
             mlp == MlpOf(g)
             leaves == {v \in DOMAIN g.nodes : g.nodes[v].kind \in Leaves}
  <2>1. WellFormed(g)
    BY <1>1, GraphWellFormed
  <2>2. graph = g \/ graph = Canonical(g)
    BY <1>1 DEF GraphInv
  <2>3. mlp = NoMlp => Canonical(g) = g
    BY DEF Canonical
  <2>4. ASSUME mlp # NoMlp, ToSet(mlp.leaves) \subseteq leaves, mlp.residual \in ToSet(mlp.leaves)
        PROVE  Meaning(Canonical(g)) = Meaning(g)
    BY <2>1, <2>4, CanonicalMeans
  <2> QED
    BY <2>2, <2>3, <2>4 DEF CanonicalKeepsMlp
<1>2. IInv => CanonicalKeepsMlp
  BY <1>1 DEF IInv
<1> QED
  BY <1>2, Invariance, PTL

(* A dispatch hides nothing that is used outside, and the dispatches fit   *)
(* together in the order they are in (FusionPlanner).                      *)
THEOREM DispatchesClosed == Spec => []DispatchesAreClosed
<1>1. ASSUME GraphInv, DispatchInv, phase \notin {"canonicalize", "fuse"},
             NEW d \in DOMAIN dispatches
      PROVE  LET inside == ToSet(dispatches[d].operations) IN
             /\ \A v \in inside \ {dispatches[d].output} :
                  /\ v # graph.return
                  /\ \A o \in (DOMAIN graph.nodes) \ inside : v \notin ToSet(Operands(o))
             /\ \A o \in inside : ToSet(Operands(o)) \subseteq inside \cup dispatches[d].inputs
             /\ \A e \in (DOMAIN dispatches) \ {d} :
                  LET others == ToSet(dispatches[e].operations) IN
                  /\ inside \cap others = {}
                  /\ dispatches[d].inputs \cap others \subseteq
                       (IF e < d THEN {dispatches[e].output} ELSE {})
  <2>1. ToSet(dispatches[d].operations) = Inside(d)
    BY <1>1, InsideIs
  <2>2. RootOf(d) \in Nat /\ dispatches[d].output \in Nat /\ Inside(d) \subseteq DOMAIN graph.nodes
    BY <1>1, InsideIs
  <2>3. \A v \in Inside(d) \ {dispatches[d].output} : Legal(v) /\ v + 1 \in Inside(d)
    <3>1. \A v \in Inside(d) \ {dispatches[d].output} :
            v \in RootOf(d) .. dispatches[d].output - 1 /\ v + 1 \in Inside(d)
      BY <2>2 DEF Inside
    <3>2. \A v \in RootOf(d) .. dispatches[d].output - 1 : Legal(v)
      BY <1>1 DEF DispatchInv
    <3> QED
      BY <3>1, <3>2
  <2>4. ASSUME NEW v \in Inside(d) \ {dispatches[d].output}
        PROVE  /\ v # graph.return
               /\ \A o \in (DOMAIN graph.nodes) \ Inside(d) : v \notin ToSet(Operands(o))
    BY <2>3, LegalUser DEF Legal
  <2>5. dispatches[d].inputs = (UNION {ToSet(Operands(v)) : v \in Inside(d)}) \ Inside(d)
    BY <1>1 DEF DispatchInv
  <2>6. \A o \in Inside(d) : ToSet(Operands(o)) \subseteq Inside(d) \cup dispatches[d].inputs
    BY <2>5
  <2>7. ASSUME NEW e \in (DOMAIN dispatches) \ {d}
        PROVE  /\ Inside(d) \cap Inside(e) = {}
               /\ dispatches[d].inputs \cap Inside(e) \subseteq
                    (IF e < d THEN {dispatches[e].output} ELSE {})
    <3>1. Inside(d) \cap Inside(e) = {}
      BY <1>1, InsidesApart
    <3>2. ASSUME NEW v \in dispatches[d].inputs \cap Inside(e) PROVE v = dispatches[e].output /\ e < d
      <4>1. PICK o \in Inside(d) : v \in ToSet(Operands(o))
        BY <2>5, <3>2
      <4>2. o \in DOMAIN graph.nodes /\ o \notin Inside(e)
        BY <2>2, <3>1, <4>1
      <4>3. v = dispatches[e].output
        <5> SUFFICES ASSUME v # dispatches[e].output PROVE FALSE
          OBVIOUS
        <5>1. RootOf(e) \in Nat /\ dispatches[e].output \in Nat
          BY <1>1, InsideIs
        <5>2. v \in RootOf(e) .. dispatches[e].output - 1 /\ v + 1 \in Inside(e)
          BY <3>2, <5>1 DEF Inside
        <5>3. Legal(v)
          BY <1>1, <5>2 DEF DispatchInv
        <5> QED
          BY <4>1, <4>2, <5>2, <5>3, LegalUser
      <4>4. v < o /\ v \in Nat /\ o \in Nat
        <5>1. v < o /\ v \in DOMAIN graph.nodes
          BY <1>1, <4>1, <4>2, OperandBefore
        <5>2. DOMAIN graph.nodes \subseteq Nat
          BY <1>1, GraphWellFormed DEF WellFormed
        <5> QED
          BY <4>2, <5>1, <5>2
      <4>5. d \in Nat /\ e \in Nat /\ d # e
        BY <1>1 DEF DispatchInv
      <4>6. ~(d < e)
        <5> SUFFICES ASSUME d < e PROVE FALSE
          OBVIOUS
        <5>1. dispatches[d].output < RootOf(e)
          BY <1>1 DEF DispatchInv
        <5>2. RootOf(e) \in Nat /\ dispatches[e].output \in Nat /\ RootOf(e) <= v /\ o <= dispatches[d].output
          BY <1>1, <2>2, <3>2, <4>1, InsideIs DEF Inside
        <5> QED
          BY <2>2, <4>4, <5>1, <5>2
      <4> QED
        BY <4>3, <4>5, <4>6
    <3>3. d \in Nat /\ e \in Nat
      BY <1>1 DEF DispatchInv
    <3> QED
      BY <3>1, <3>2, <3>3
  <2>8. \A e \in (DOMAIN dispatches) \ {d} : ToSet(dispatches[e].operations) = Inside(e)
    BY <1>1, InsideIs
  <2> QED
    BY <2>1, <2>4, <2>6, <2>7, <2>8
<1>2. ASSUME IInv PROVE DispatchesAreClosed
  <2> SUFFICES ASSUME phase \notin {"canonicalize", "fuse"} PROVE DispatchesAreClosed
    BY DEF DispatchesAreClosed
  <2>1. GraphInv /\ DispatchInv
    BY <1>2 DEF IInv
  <2>2. {v \in DOMAIN graph.nodes : graph.nodes[v].kind = "MatMul"} \subseteq Consumed
    BY <2>1 DEF DispatchInv, Products
  <2> QED
    BY <1>1, <2>1, <2>2 DEF DispatchesAreClosed
<1> QED
  BY <1>2, Invariance, PTL

-----------------------------------------------------------------------------
(* Lifetimes.  The operations of a dispatch run together, ...              *)
LEMMA TimeIs ==
  ASSUME GraphInv, DispatchInv, NEW d \in DOMAIN dispatches, NEW v \in Inside(d)
  PROVE  TimeOf(v) = RootOf(d) /\ v \in Consumed
<1> DEFINE Runs(r) == \E e \in DOMAIN dispatches : /\ v \in ToSet(dispatches[e].operations)
                                                   /\ r = Head(dispatches[e].operations)
<1>1. v \in Consumed
  BY ConsumedIs
<1>2. \A e \in DOMAIN dispatches :
        ToSet(dispatches[e].operations) = Inside(e) /\ Head(dispatches[e].operations) = RootOf(e)
  BY InsideIs
<1>3. RootOf(d) \in DOMAIN graph.nodes /\ Runs(RootOf(d))
  BY <1>2, InsideIs
<1>4. ASSUME NEW r, Runs(r) PROVE r = RootOf(d)
  <2>1. PICK e \in DOMAIN dispatches : v \in Inside(e) /\ r = RootOf(e)
    BY <1>2, <1>4
  <2> QED
    BY <2>1, InsidesApart
<1>5. TimeOf(v) = CHOOSE r \in DOMAIN graph.nodes : Runs(r)
  BY <1>1 DEF TimeOf
<1> HIDE DEF Runs
<1> QED
  BY <1>1, <1>3, <1>4, <1>5

(* ... and one dispatch before the next.                                   *)
LEMMA RootsIncrease ==
  ASSUME GraphInv, DispatchInv, NEW d \in DOMAIN dispatches, NEW e \in DOMAIN dispatches, d < e
  PROVE  RootOf(d) < RootOf(e)
<1>1. RootOf(d) <= dispatches[d].output /\ dispatches[d].output < RootOf(e)
  BY DEF DispatchInv
<1>2. RootOf(d) \in Nat /\ RootOf(e) \in Nat /\ dispatches[d].output \in Nat
  BY InsideIs
<1> QED
  BY <1>1, <1>2

(* A temporary is computed and used in dispatches that it is a boundary of.*)
LEMMA TouchedInTime ==
  ASSUME GraphInv, DispatchInv, BuffersInv, NEW a \in InWorkspace,
         UsersOf(a) \cup {a} \subseteq Consumed, NEW x \in UsersOf(a) \cup {a}
  PROVE  \E d \in Touching(a) : TimeOf(x) = RootOf(d)
<1>1. PICK d \in DOMAIN dispatches : a \in Inside(d)
  BY ConsumedIs
<1>2. a = dispatches[d].output
  <2> SUFFICES ASSUME a # dispatches[d].output PROVE FALSE
    OBVIOUS
  <2>1. RootOf(d) \in Nat /\ dispatches[d].output \in Nat
    BY InsideIs
  <2>2. a \in RootOf(d) .. dispatches[d].output - 1 /\ a + 1 \in Inside(d)
    BY <1>1, <2>1 DEF Inside
  <2>3. Legal(a)
    BY <2>2 DEF DispatchInv
  <2>4. PICK e \in DOMAIN dispatches : a \in dispatches[e].inputs \cup {dispatches[e].output}
    BY TemporaryIs DEF Touching
  <2>5. CASE a = dispatches[e].output
    BY <1>1, <2>5, InsideIs, InsidesApart
  <2>6. CASE a \in dispatches[e].inputs
    <3>1. a \in (UNION {ToSet(Operands(v)) : v \in Inside(e)}) \ Inside(e)
      BY <2>6 DEF DispatchInv
    <3>2. PICK o \in Inside(e) : a \in ToSet(Operands(o)) /\ a \notin Inside(e)
      BY <3>1
    <3>3. o = a + 1
      BY <2>3, <3>2, InsideIs, LegalUser
    <3> QED
      BY <1>1, <2>2, <3>2, <3>3, InsidesApart
  <2> QED
    BY <2>4, <2>5, <2>6
<1>3. d \in Touching(a)
  BY <1>2 DEF Touching
<1>4. CASE x = a
  BY <1>1, <1>3, <1>4, TimeIs
<1>5. CASE x \in UsersOf(a)
  <2>1. PICK e \in DOMAIN dispatches : x \in Inside(e)
    BY <1>5, ConsumedIs
  <2>2. TimeOf(x) = RootOf(e)
    BY <2>1, TimeIs
  <2>3. CASE e = d
    BY <1>3, <2>2, <2>3
  <2>4. CASE e # d
    <3>1. a \notin Inside(e)
      BY <1>1, <2>4, InsidesApart
    <3>2. a \in ToSet(Operands(x))
      BY <1>5 DEF UsersOf
    <3>3. a \in dispatches[e].inputs
      <4>1. dispatches[e].inputs = (UNION {ToSet(Operands(v)) : v \in Inside(e)}) \ Inside(e)
        BY DEF DispatchInv
      <4> QED
        BY <2>1, <3>1, <3>2, <4>1
    <3>4. e \in Touching(a)
      BY <3>3 DEF Touching
    <3> QED
      BY <2>2, <3>4
  <2> QED
    BY <2>3, <2>4
<1> QED
  BY <1>4, <1>5

(* One whose dispatches are all before those of another is dead by then.   *)
LEMMA DeadBefore ==
  ASSUME GraphInv, DispatchInv, BuffersInv, NEW a \in InWorkspace, NEW b \in InWorkspace,
         UsersOf(a) \cup UsersOf(b) \cup {a, b} \subseteq Consumed,
         buffers[a].last < buffers[b].first
  PROVE  LiveAt(a) \cap LiveAt(b) = {}
<1> DEFINE S == {TimeOf(o) : o \in UsersOf(a) \cup {a}}
<1>1. \A d \in DOMAIN dispatches : RootOf(d) \in Nat /\ RootOf(d) \in DOMAIN graph.nodes
  BY InsideIs
<1>2. \A y \in S : \E d \in Touching(a) : y = RootOf(d)
  BY TouchedInTime
<1>3. PICK e \in Touching(b) : TimeOf(b) = RootOf(e)
  BY TouchedInTime
<1>4. PICK n \in Nat : DOMAIN graph.nodes = 1 .. n
  BY GraphWellFormed DEF WellFormed
<1>5. Touching(a) \subseteq DOMAIN dispatches /\ e \in DOMAIN dispatches
  BY <1>3 DEF Touching
<1>6. S \in SUBSET (0 .. n) /\ TimeOf(a) \in S
  BY <1>1, <1>2, <1>4, <1>5
<1>7. MaxOf(S) \in S
  <2> HIDE DEF S
  <2> QED
    BY <1>6, MaxOfIsGreatest
<1>8. PICK d \in Touching(a) : MaxOf(S) = RootOf(d)
  BY <1>2, <1>7
<1>9. /\ d \in Nat /\ d - 1 <= buffers[a].last /\ buffers[a].last \in Nat
      /\ e \in Nat /\ buffers[b].first <= e - 1 /\ buffers[b].first \in Nat
  BY <1>3, <1>8, TemporaryIs, TouchingBounds
<1>10. d < e
  BY <1>9
<1>11. RootOf(d) < RootOf(e) /\ RootOf(d) \in Nat /\ RootOf(e) \in Nat
  BY <1>1, <1>5, <1>8, <1>10, RootsIncrease
<1>12. LiveAt(a) = TimeOf(a) .. RootOf(d) /\ \A y \in LiveAt(b) : y \in Int /\ RootOf(e) <= y
  BY <1>3, <1>8 DEF LiveAt
<1> QED
  BY <1>11, <1>12

(* Each value that one dispatch leaves for another has a buffer of its     *)
(* size, and the bytes of a temporary belong to no other value as long as  *)
(* an operation may still read it (GraphBufferizer).                       *)
THEOREM BytesKept == Spec => []LiveValuesKeepTheirBytes
<1>1. ASSUME IInv, phase = "done", NEW d \in DOMAIN dispatches, NEW e \in DOMAIN dispatches,
             dispatches[d].output \in dispatches[e].inputs, Bytes(dispatches[d].output) > 0
      PROVE  /\ dispatches[d].output \in DOMAIN buffers
             /\ buffers[dispatches[d].output].bytes = Bytes(dispatches[d].output)
  <2> DEFINE v == dispatches[d].output
  <2>1. GraphInv /\ DispatchInv /\ BuffersInv
    BY <1>1 DEF IInv, MemoryInv
  <2>2. v \in DOMAIN graph.nodes
    BY <2>1, InsideIs
  <2>3. Touching(v) # {}
    BY <1>1 DEF Touching
  <2>4. Bytes(v) \in Nat /\ Bytes(v) # 0
    BY <1>1, <2>1, <2>2, BytesNat
  <2>5. v \in Planned
    BY <2>2, <2>3, <2>4 DEF Planned, Materialized
  <2>6. v \in DOMAIN buffers
    BY <2>1, <2>5 DEF BuffersInv
  <2>7. \E x : buffers[v] = [bytes |-> Bytes(v), offset |-> x, first |-> BufferFor(v).first,
                             last |-> BufferFor(v).last, external |-> BufferFor(v).external]
    BY <2>1, <2>5 DEF BuffersInv
  <2> QED
    BY <2>6, <2>7
<1>2. ASSUME IInv, phase = "done", NEW a \in InWorkspace, NEW b \in InWorkspace, a # b,
             UsersOf(a) \cup UsersOf(b) \cup {a, b} \subseteq Consumed,
             ShareBytes(buffers[a], buffers[b])
      PROVE  LiveAt(a) \cap LiveAt(b) = {}
  <2>1. GraphInv /\ DispatchInv /\ BuffersInv /\ SlotsInv /\ PlacesInv /\ a \in Placed /\ b \in Placed
    BY <1>2 DEF IInv, MemoryInv
  <2>2. PICK s \in DOMAIN slots :
          buffers[a].offset = slots[s].offset /\ buffers[a].bytes <= slots[s].bytes
    BY <2>1 DEF PlacesInv
  <2>3. PICK t \in DOMAIN slots :
          buffers[b].offset = slots[t].offset /\ buffers[b].bytes <= slots[t].bytes
    BY <2>1 DEF PlacesInv
  <2> DEFINE Slot == [offset : Nat, bytes : Nat \ {0}, last : Nat]
  <2>4. /\ slots[s].offset \in Nat /\ slots[s].bytes \in Nat /\ s \in Nat
        /\ slots[t].offset \in Nat /\ slots[t].bytes \in Nat /\ t \in Nat
    <3>1. slots \in Seq(Slot)
      BY <2>1 DEF SlotsInv
    <3> HIDE DEF Slot
    <3>2. slots[s] \in Slot /\ slots[t] \in Slot /\ s \in Nat /\ t \in Nat
      BY <3>1
    <3> QED
      BY <3>2 DEF Slot
  <2>5. buffers[a].bytes \in Nat /\ buffers[b].bytes \in Nat
    BY <2>1, TemporaryIs
  <2>6. s = t
    <3>1. /\ s < t => slots[s].offset + slots[s].bytes <= slots[t].offset
          /\ t < s => slots[t].offset + slots[t].bytes <= slots[s].offset
      BY <2>1 DEF SlotsInv
    <3>2. /\ slots[s].offset < slots[t].offset + buffers[b].bytes
          /\ slots[t].offset < slots[s].offset + buffers[a].bytes
      BY <1>2, <2>2, <2>3 DEF ShareBytes
    <3>3. ~(s < t) /\ ~(t < s)
      BY <2>2, <2>3, <2>4, <2>5, <3>1, <3>2
    <3> QED
      BY <2>4, <3>3
  <2>7. buffers[a].last < buffers[b].first \/ buffers[b].last < buffers[a].first
    BY <1>2, <2>1, <2>2, <2>3, <2>6 DEF PlacesInv
  <2>8. CASE buffers[a].last < buffers[b].first
    BY <1>2, <2>1, <2>8, DeadBefore
  <2>9. CASE buffers[b].last < buffers[a].first
    BY <1>2, <2>1, <2>9, DeadBefore
  <2> QED
    BY <2>7, <2>8, <2>9
<1>3. ASSUME IInv PROVE LiveValuesKeepTheirBytes
  BY <1>1, <1>2, <1>3 DEF LiveValuesKeepTheirBytes
<1> QED
  BY <1>3, Invariance, PTL

=============================================================================

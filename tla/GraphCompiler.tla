---------------------------- MODULE GraphCompiler ----------------------------
(***************************************************************************)
(* The planning half of src/graph_compiler.cpp: an imported tensor graph   *)
(* is canonicalised, its operations are fused into dispatches, and the     *)
(* values between dispatches get buffers whose bytes are shared by         *)
(* lifetime.  A plan of a graph with symbolic rows is planned once more    *)
(* when specializeMLP has fixed them.                                      *)
(*                                                                         *)
(* Each operation but the return has one output, so a value has the index  *)
(* of its operation (addInput and addOperation append to both lists).      *)
(* Indices begin at 1 where the code's begin at 0.  An element is one byte *)
(* long.  Layouts, schedules and guards are left out: no decision here     *)
(* depends on them.                                                        *)
(***************************************************************************)
EXTENDS Integers, FiniteSets, SequencesExt

CONSTANTS
  Graphs,     \* imported graphs: [nodes, return]; see WellFormed
  Alignment,  \* of a buffer in the workspace
  Rows        \* what "B*S" is specialised to

ASSUME AlignmentAssumption == Alignment \in Nat \ {0} /\ Rows \in Nat \ {0}

Leaves == {"Input", "Constant"}
Epilogues == {"Add", "Gelu", "Maximum"}
NoType == [rank |-> 0, rows |-> "fixed", height |-> 1, cols |-> 1]

(* A row extent is fixed, or a symbol.                                     *)
Types == [rank : Nat, rows : {"fixed", "B*S", "S"}, height : Nat, cols : Nat]

(* A node has a kind, a name, its operands and, where the importer reads   *)
(* or the builder gives one, a type.  addOperation takes operands that the *)
(* graph has; the kinds with a shape rule have the operands it reads.      *)
WellFormed(g) ==
  /\ Len(g.nodes) \in Nat /\ DOMAIN g.nodes = 1 .. Len(g.nodes)
  /\ \A v \in DOMAIN g.nodes :
       /\ g.nodes[v].inputs \in Seq(1 .. v - 1)
       /\ g.nodes[v].kind \in Leaves <=> g.nodes[v].inputs = <<>>
       /\ g.nodes[v].kind \in {"MatMul", "Add", "Multiply", "Maximum"} => Len(g.nodes[v].inputs) = 2
       /\ g.nodes[v].type \in Types
  /\ g.return \in DOMAIN g.nodes

ASSUME GraphsAssumption == \A g \in Graphs : WellFormed(g)

VARIABLES
  imported,     \* the graph as it was imported
  graph,        \* the graph of the plan
  specialized,  \* specializeMLP has fixed the rows
  phase,        \* the next pass
  index,        \* where FusionPlanner is
  dispatches,   \* [operations, inputs, output] in the order they were formed
  buffers,      \* by value: [bytes, offset, first, last, external]
  placed,       \* the value whose buffer was placed last, or 0
  slots,        \* [offset, bytes, last] of the workspace
  workspace     \* workspace_bytes

memoryVars == <<buffers, placed, slots, workspace>>
vars == <<imported, graph, specialized, phase, index, dispatches, memoryVars>>

MinOf(S) == CHOOSE x \in S : \A y \in S : x <= y
MaxOf(S) == CHOOSE x \in S : \A y \in S : y <= x

Init ==
  /\ imported \in Graphs
  /\ graph = imported
  /\ specialized = FALSE
  /\ phase = "canonicalize"
  /\ index = 1
  /\ dispatches = <<>>
  /\ buffers = [v \in {} |-> v]
  /\ placed = 0
  /\ slots = <<>>
  /\ workspace = 0

-----------------------------------------------------------------------------
(* ShapeInferencePass: the type of a value from those of its operands ...  *)
TypeAt(g, type, v) ==
  LET node == g.nodes[v]
      operand(i) == type[node.inputs[i]]
  IN CASE node.kind = "MatMul" ->
            [rank |-> 2, rows |-> operand(1).rows, height |-> operand(1).height,
             cols |-> operand(2).cols]
       [] node.kind \in {"Add", "Multiply", "Maximum"} ->
            IF operand(1).rank >= operand(2).rank THEN operand(1) ELSE operand(2)
       [] \/ node.kind = "RmsNorm"
          \/ node.kind \in {"Gelu", "Exp", "Rsqrt"} /\ node.type.rank = 0 -> operand(1)
       [] OTHER -> node.type

(* ... and so the types of all values. *)
TypesOf(g) ==
  LET type[v \in DOMAIN g.nodes] == TypeAt(g, type, v) IN type

(* staticBytes, 0 when a dimension is not static.  specializeMLP replaces  *)
(* the symbol B*S only.                                                    *)
Bytes(v) ==
  LET type == TypesOf(graph)[v]
  IN CASE type.rows = "fixed" -> type.height * type.cols
       [] type.rows = "B*S" /\ specialized -> Rows * type.cols
       [] OTHER -> 0

-----------------------------------------------------------------------------
(* GraphCanonicalizationPass: recognise the MLP and build it anew.         *)

Other(inputs, v) == IF inputs[1] = v THEN inputs[2] ELSE inputs[1]

(* The last addition that uses v, or 0. *)
BiasAddition(g, v) ==
  LET adds == {a \in DOMAIN g.nodes : g.nodes[a].kind = "Add" /\ v \in ToSet(g.nodes[a].inputs)}
  IN IF adds = {} THEN 0 ELSE MaxOf(adds)

(* The activation of a value: the first Gelu that uses it, or 0. *)
ActivationOf(g, v) ==
  LET gelus == {a \in DOMAIN g.nodes : g.nodes[a].kind = "Gelu" /\ g.nodes[a].inputs = <<v>>}
  IN IF gelus = {} THEN 0 ELSE MinOf(gelus)

(* Mutant: the second product only has to come after the activation. *)
FollowsAnywhere(g, activation, product) == activation < product

(* The activation is the first operand of the second product. *)
Follows(g, activation, product) == g.nodes[product].inputs[1] = activation

(* The parts of an MLP: its five leaves in the order they are copied, and  *)
(* what is added to its result; nothing when the graph is no MLP.          *)
NoMlp == [leaves |-> <<>>, residual |-> 0]
MlpOf(g) ==
  LET matmuls == {v \in DOMAIN g.nodes : g.nodes[v].kind = "MatMul"}
      first == MinOf(matmuls)
      second == MaxOf(matmuls)
      bias1 == BiasAddition(g, first)
      bias2 == BiasAddition(g, second)
      end == g.nodes[g.return]
  IN IF \/ Cardinality(matmuls) # 2 \/ Len(g.nodes) < 5
        \/ bias1 = 0 \/ bias2 = 0
        \/ ActivationOf(g, bias1) = 0
        \/ end.kind # "Add" \/ bias2 \notin ToSet(end.inputs)
        \/ ~Follows(g, ActivationOf(g, bias1), second)
     THEN NoMlp
     ELSE [leaves |-> <<g.nodes[first].inputs[1], g.nodes[first].inputs[2],
                        Other(g.nodes[bias1].inputs, first), g.nodes[second].inputs[2],
                        Other(g.nodes[bias2].inputs, second)>>,
           residual |-> Other(end.inputs, bias2)]

(* A leaf that was copied before is not copied again. *)
Copy(originals, v) == IF v \in ToSet(originals) THEN originals ELSE Append(originals, v)

Originals(leaves) ==
  Copy(Copy(Copy(Copy(Copy(<<>>, leaves[1]), leaves[2]), leaves[3]), leaves[4]), leaves[5])

(* A residual that is no leaf becomes the input of the first product.      *)
Canonical(g) ==
  LET mlp == MlpOf(g)
      leaves == mlp.leaves
      originals == Originals(leaves)
      n == Len(originals)
      remap(v) == CHOOSE i \in 1 .. n : originals[i] = v
      leaf(v) == [kind |-> IF g.nodes[v].kind = "Constant" THEN "Constant" ELSE "Input",
                  name |-> g.nodes[v].name, inputs |-> <<>>, type |-> TypesOf(g)[v]]
      operation(kind, name, inputs) ==
        [kind |-> kind, name |-> name, inputs |-> inputs, type |-> NoType]
      at(i) == remap(leaves[i])
      residual == remap(IF mlp.residual \in ToSet(originals) THEN mlp.residual ELSE leaves[1])
  IN IF mlp = NoMlp THEN g
     ELSE [nodes |-> [i \in 1 .. n |-> leaf(originals[i])] \o
             <<operation("MatMul", "linear1", <<at(1), at(2)>>),
               operation("Add", "bias1", <<n + 1, at(3)>>),
               operation("Gelu", "gelu", <<n + 2>>),
               operation("MatMul", "linear2", <<n + 3, at(4)>>),
               operation("Add", "bias2", <<n + 4, at(5)>>),
               operation("Add", "residual", <<n + 5, residual>>)>>,
           return |-> n + 6]

Canonicalize ==
  /\ phase = "canonicalize"
  /\ phase' = "fuse"
  /\ graph' = Canonical(graph)
  /\ UNCHANGED <<imported, specialized, index, dispatches, memoryVars>>

-----------------------------------------------------------------------------
(* FusionPlanner.                                                          *)

Operands(v) == graph.nodes[v].inputs

(* The users of a value, but the return: an operation and the place of the *)
(* operand, so that an operation which reads a value twice is there twice. *)
Users(v) ==
  UNION {{o} \X {i \in DOMAIN Operands(o) : Operands(o)[i] = v} : o \in DOMAIN graph.nodes}

(* Mutant: a producer with other users is fused. *)
LegalShared(producer) ==
  /\ producer + 1 \in DOMAIN graph.nodes
  /\ producer \in ToSet(Operands(producer + 1))
  /\ graph.nodes[producer + 1].kind \in Epilogues

(* legal(): the operation after the producer is its only user. *)
Legal(producer) ==
  /\ producer + 1 \in DOMAIN graph.nodes
  /\ producer # graph.return
  /\ \E i \in DOMAIN Operands(producer + 1) : Users(producer) = {<<producer + 1, i>>}
  /\ graph.nodes[producer + 1].kind \in Epilogues

Consumed == UNION {ToSet(dispatches[d].operations) : d \in DOMAIN dispatches}
Roots == {v \in DOMAIN graph.nodes :
            v >= index /\ v \notin Consumed /\ graph.nodes[v].kind = "MatMul"}

FormDispatch ==
  /\ phase = "fuse" /\ Roots # {}
  /\ LET root == MinOf(Roots)
         last == MaxOf({l \in root .. Len(graph.nodes) : \A v \in root .. l - 1 : Legal(v)})
         used == UNION {ToSet(Operands(v)) : v \in root .. last}
     IN /\ dispatches' = Append(dispatches,
             [operations |-> [i \in 1 .. last - root + 1 |-> root + i - 1],
              inputs |-> used \ (root .. last), output |-> last])
        /\ index' = root + 1
  /\ UNCHANGED <<imported, graph, specialized, phase, memoryVars>>

EndFusion ==
  /\ phase = "fuse" /\ Roots = {}
  /\ phase' = "bufferize"
  /\ UNCHANGED <<imported, graph, specialized, index, dispatches, memoryVars>>

-----------------------------------------------------------------------------
(* GraphBufferizer.                                                        *)

(* The dispatches a value is a boundary of. *)
Touching(v) == {d \in DOMAIN dispatches : v \in dispatches[d].inputs \cup {dispatches[d].output}}

Computed(v) == graph.nodes[v].kind \notin Leaves
Materialized(v) == Touching(v) # {} \/ v = graph.return

(* A value without a dispatch gets the interval of the first one. *)
BufferFor(v) ==
  [bytes |-> Bytes(v), offset |-> 0,
   first |-> IF Touching(v) = {} THEN Len(dispatches) ELSE MinOf(Touching(v)) - 1,
   last |-> IF Touching(v) = {} THEN 0 ELSE MaxOf(Touching(v)) - 1,
   external |-> ~Computed(v) \/ v = graph.return]

PlanBuffers ==
  /\ phase = "bufferize"
  /\ phase' = "place"
  /\ LET planned == {v \in DOMAIN graph.nodes :
                       Bytes(v) # 0 /\ (Computed(v) => Materialized(v))}
     IN buffers' = [v \in planned |-> BufferFor(v)]
  /\ placed' = 0 /\ slots' = <<>> /\ workspace' = 0
  /\ UNCHANGED <<imported, graph, specialized, index, dispatches>>

AlignTo(n) == ((n + Alignment - 1) \div Alignment) * Alignment

(* Mutant: a slot is taken again in the dispatch that last uses it. *)
ReusableAtOnce(slot, buffer) == slot.last <= buffer.first /\ slot.bytes >= buffer.bytes

Reusable(slot, buffer) == slot.last < buffer.first /\ slot.bytes >= buffer.bytes

NewSlot(buffer) == [offset |-> AlignTo(workspace), bytes |-> buffer.bytes, last |-> buffer.last]

(* One temporary takes the first slot that is free for it, or a new one.   *)
PlaceBuffer ==
  LET waiting == {v \in DOMAIN buffers : v > placed /\ ~buffers[v].external}
      v == MinOf(waiting)
      free == {s \in DOMAIN slots : Reusable(slots[s], buffers[v])}
      s == MinOf(free)
      new == NewSlot(buffers[v])
  IN /\ phase = "place" /\ waiting # {}
     /\ placed' = v
     /\ IF free # {}
          THEN /\ slots' = [slots EXCEPT ![s].last = buffers[v].last]
               /\ buffers' = [buffers EXCEPT ![v].offset = slots[s].offset]
               /\ UNCHANGED workspace
          ELSE /\ slots' = Append(slots, new)
               /\ buffers' = [buffers EXCEPT ![v].offset = new.offset]
               /\ workspace' = new.offset + new.bytes
     /\ UNCHANGED <<imported, graph, specialized, phase, index, dispatches>>

EndPlacement ==
  /\ phase = "place"
  /\ \A v \in DOMAIN buffers : v > placed => buffers[v].external
  /\ phase' = "done"
  /\ UNCHANGED <<imported, graph, specialized, index, dispatches, memoryVars>>

(* specializeMLP: the rows are fixed and the buffers planned again, for    *)
(* the dispatches of the symbolic plan.                                    *)
Specialize ==
  /\ phase = "done" /\ ~specialized
  /\ specialized' = TRUE
  /\ phase' = "bufferize"
  /\ UNCHANGED <<imported, graph, index, dispatches, memoryVars>>

Terminated == phase = "done" /\ specialized /\ UNCHANGED vars

Next ==
  \/ Canonicalize \/ FormDispatch \/ EndFusion
  \/ PlanBuffers \/ PlaceBuffer \/ EndPlacement
  \/ Specialize \/ Terminated

Spec == Init /\ [][Next]_vars

-----------------------------------------------------------------------------
(* "Internal values inside a fused dispatch remain virtual tensors"        *)
(* (docs/GRAPH_COMPILER.md), and may: nothing outside uses them.  The      *)
(* dispatches are disjoint, contain every product, name all their inputs,  *)
(* and read of each other only the outputs of earlier ones.                *)
DispatchesAreClosed ==
  phase \notin {"canonicalize", "fuse"} =>
    /\ {v \in DOMAIN graph.nodes : graph.nodes[v].kind = "MatMul"} \subseteq Consumed
    /\ \A d \in DOMAIN dispatches :
         LET inside == ToSet(dispatches[d].operations) IN
         /\ \A v \in inside \ {dispatches[d].output} :
              /\ v # graph.return
              /\ \A o \in (DOMAIN graph.nodes) \ inside : v \notin ToSet(Operands(o))
         /\ \A o \in inside : ToSet(Operands(o)) \subseteq inside \cup dispatches[d].inputs
         /\ \A e \in (DOMAIN dispatches) \ {d} :
              LET others == ToSet(dispatches[e].operations) IN
              /\ inside \cap others = {}
              /\ dispatches[d].inputs \cap others \subseteq
                   (IF e < d THEN {dispatches[e].output} ELSE {})

(* When an operation runs: with the others of its dispatch, or by itself.  *)
TimeOf(v) ==
  IF v \in Consumed
    THEN CHOOSE r \in DOMAIN graph.nodes :
           \E d \in DOMAIN dispatches : /\ v \in ToSet(dispatches[d].operations)
                                        /\ r = Head(dispatches[d].operations)
    ELSE v
UsersOf(v) == {o \in DOMAIN graph.nodes : v \in ToSet(Operands(o))}
LiveAt(v) == TimeOf(v) .. MaxOf({TimeOf(o) : o \in UsersOf(v) \cup {v}})

ShareBytes(a, b) ==
  a.offset < b.offset + b.bytes /\ b.offset < a.offset + a.bytes

InWorkspace == {v \in DOMAIN buffers : ~buffers[v].external}

(* A plan in which dispatches compute and use the values: each value that  *)
(* one dispatch leaves for another has a buffer of its size, and no other  *)
(* value that is alive at the same time has bytes of it.                   *)
LiveValuesKeepTheirBytes ==
  phase = "done" =>
    /\ \A d, e \in DOMAIN dispatches :
         LET v == dispatches[d].output IN
         v \in dispatches[e].inputs /\ Bytes(v) > 0 =>
           v \in DOMAIN buffers /\ buffers[v].bytes = Bytes(v)
    /\ \A a, b \in InWorkspace :
         /\ a # b
         /\ UsersOf(a) \cup UsersOf(b) \cup {a, b} \subseteq Consumed
         /\ LiveAt(a) \cap LiveAt(b) # {}
         => ~ShareBytes(buffers[a], buffers[b])

(* "reuses an aligned workspace according to lifetime intervals"           *)
(* (docs/ARCHITECTURE.md), whatever computes and uses the values.          *)
BuffersFollowLifetimes ==
  phase = "done" => \A a, b \in InWorkspace :
    a # b /\ LiveAt(a) \cap LiveAt(b) # {} => ~ShareBytes(buffers[a], buffers[b])

(* What a graph computes: addition is commutative. *)
MeaningAt(g, meaning, v) ==
  LET node == g.nodes[v]
      operands == [i \in DOMAIN node.inputs |-> meaning[node.inputs[i]]]
  IN CASE node.kind \in Leaves -> <<"leaf", node.name>>
       [] node.kind = "Add" -> <<"Add", {operands[1], operands[2]}>>
       [] OTHER -> <<node.kind, operands>>

Meanings(g) ==
  LET meaning[v \in DOMAIN g.nodes] == MeaningAt(g, meaning, v) IN meaning

Meaning(g) == Meanings(g)[g.return]

(* An MLP on five inputs, with one of them for its residual, means the     *)
(* same after it has been canonicalised; every other graph is kept.        *)
CanonicalKeepsMlp ==
  LET mlp == MlpOf(imported)
      leaves == {v \in DOMAIN imported.nodes : imported.nodes[v].kind \in Leaves}
  IN ToSet(mlp.leaves) \subseteq leaves /\ (mlp = NoMlp \/ mlp.residual \in ToSet(mlp.leaves))
       => Meaning(graph) = Meaning(imported)

(* "normalizes framework-level patterns such as the Transformer MLP"       *)
(* (docs/ARCHITECTURE.md): a graph means the same in normal form.          *)
CanonicalKeepsMeaning == Meaning(graph) = Meaning(imported)

=============================================================================

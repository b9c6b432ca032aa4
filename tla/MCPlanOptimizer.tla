--------------------------- MODULE MCPlanOptimizer ---------------------------
(* Instances of PlanOptimizer: small layers that are executed, grouped     *)
(* queries, an odd head dimension, cached keys and two batches among them, *)
(* and longer ones, with tiles of every kind, that are only planned.       *)
EXTENDS PlanOptimizer

Layer(b, s, h, k, d, i, context, ffn, causal) ==
  [batch |-> b, sequence |-> s, heads |-> h, kvHeads |-> k, dim |-> d, intermediate |-> i,
   context |-> context, ffn |-> ffn, causal |-> causal, experts |-> 2, topK |-> 1]

Small ==
  {Layer(1, 2, 2, 1, 2, 2, 0, "dense", TRUE), Layer(2, 2, 2, 2, 1, 3, 0, "moe", FALSE),
   Layer(2, 1, 4, 2, 1, 2, 3, "dense", TRUE), Layer(1, 1, 1, 1, 3, 1, 2, "dense", TRUE)}
Long ==
  {Layer(1, 40, 2, 1, 2, 2, 0, "dense", TRUE), Layer(2, 33, 2, 2, 2, 2, 70, "moe", TRUE),
   Layer(1, 17, 2, 1, 2, 2, 40, "dense", FALSE), Layer(1, 2, 2, 1, 2, 2, 130, "dense", TRUE)}
Tuned == {Layer(1, 40, 2, 1, 2, 2, 64, "dense", TRUE)}

(* examples/decoder_layer.mlir and decoder_layer_moe.mlir, one whose gate  *)
(* and up projections have different inputs, and one without RoPE.         *)
Imported(up) ==
  <<Op("RmsNorm", <<"x", "rms1">>, "n1"), Op("MatMul", <<"n1", "wq">>, "q"),
    Op("MatMul", <<"n1", "wk">>, "k"), Op("MatMul", <<"n1", "wv">>, "v"),
    Op("RoPE", <<"q">>, "rq"), Op("RoPE", <<"k">>, "rk"), Op("MatMul", <<"rq", "wo">>, "o"),
    Op("Add", <<"o", "x">>, "r1"), Op("RmsNorm", <<"r1", "rms2">>, "n2"),
    Op("MatMul", <<"n2", "wg">>, "g"), Op("MatMul", <<up, "wu">>, "u"),
    Op("SwiGLU", <<"g", "u">>, "s"), Op("MatMul", <<"s", "wd">>, "d"), Op("Add", <<"d", "r1">>, "out")>>
ImportedMoe ==
  SubSeq(Imported("n2"), 1, 9)
    \o <<Op("MatMul", <<"n2", "router">>, "logits"), Op("MoeFFN", <<"n2", "logits">>, "moe"),
         Op("Add", <<"moe", "r1">>, "out")>>
NoRope == SelectSeq(Imported("n2"), LAMBDA op : op.kind # "RoPE")
Graphs == {Imported("n2"), Imported("r1"), ImportedMoe, NoRope}

Target(cpus) == [cpus |-> cpus, vectorWidth |-> 8, l2 |-> 16384, l3 |-> 1048576]

Call(c, g, cpus, maxThreads, budget, feasible, mode) ==
  [config |-> c, graph |-> g, target |-> Target(cpus), maxThreads |-> maxThreads,
   budget |-> budget, feasible |-> feasible, mode |-> mode]
Fitting(c) == IF c.ffn = "dense" THEN Imported("n2") ELSE ImportedMoe

MCCalls ==
  {Call(c, g, 2, 4, 1, TRUE, "plain") : c \in Small, g \in Graphs}
  \cup {Call(c, Fitting(c), 2, 4, 1, TRUE, "int8") : c \in Small}
  \cup {Call(c, Fitting(c), n, 4, 1, FALSE, "plain") : c \in Long, n \in 1 .. 4}
  \cup {Call(c, Fitting(c), 2, n, 1, TRUE, "tune") : c \in Tuned \cup Long, n \in 1 .. 2}
  \cup {Call(c, Fitting(c), n, 2, 3, TRUE, "optimize") : c \in Small, n \in 1 .. 2}
=============================================================================

---------------------------- MODULE PlanOptimizer ----------------------------
(***************************************************************************)
(* From an imported graph to an executed decoder layer                     *)
(* (src/decoder_compiler.cpp): benchmark_decoder_profile, the pattern      *)
(* check of DecoderCompiler::compile, the candidate policies of            *)
(* ExecutablePlanOptimizer::optimize with their analytical cost and their  *)
(* measurements, tune_attention_plan, and the INT8 layer.                  *)
(*                                                                         *)
(* A measured latency is any member of Latencies, anew at every            *)
(* measurement: the same plan may be measured twice with two results.      *)
(***************************************************************************)
EXTENDS DecoderLayer, AttentionPlans, StableOrder, SequencesExt

CONSTANTS Calls,        \* [config, graph, target, maxThreads, budget, feasible, mode]
          Latencies     \* the outcomes of a measurement, positive

VARIABLES call, phase, plan, baseline, rows, winner, samples, measurements, output

planVars == <<call, phase, plan, baseline, rows, winner, samples, measurements, output>>

None == <<>>

-----------------------------------------------------------------------------
(* Graphs: a sequence of operations [kind, inputs, out] and the patterns   *)
(* that DecoderFusionPass looks for.  An operation that only has "rope" in *)
(* its name is written as one of the kind RoPE.                            *)

Op(kind, inputs, out) == [kind |-> kind, inputs |-> inputs, out |-> out]

MatMulsOn(graph, value) ==
  {i \in DOMAIN graph : graph[i].kind = "MatMul" /\ graph[i].inputs # <<>> /\ graph[i].inputs[1] = value}

(* Mutant: a projection that is already fused is not recognised. *)
HasQkvSeparate(graph) ==
  \E i \in DOMAIN graph : graph[i].inputs # <<>> /\ Cardinality(MatMulsOn(graph, graph[i].inputs[1])) >= 3

HasQkv(graph) ==
  \/ \E i \in DOMAIN graph :
       graph[i].inputs # <<>> /\ Cardinality(MatMulsOn(graph, graph[i].inputs[1])) >= 3
  \/ \E i \in DOMAIN graph : graph[i].kind = "FusedQKVProjection"

HasRope(graph) == \E i \in DOMAIN graph : graph[i].kind = "RoPE"

(* The gate and up inputs that an operation computes; the last SwiGLU that *)
(* has two of them decides.                                                *)
Produced(graph, value) == {i \in DOMAIN graph : graph[i].out = value}
GatedPairs(graph) ==
  {i \in DOMAIN graph : /\ graph[i].kind = "SwiGLU"
                        /\ Len(graph[i].inputs) >= 2
                        /\ \A n \in 1 .. 2 : Produced(graph, graph[i].inputs[n]) # {}}

HasGateUp(graph) ==
  \/ /\ GatedPairs(graph) # {}
     /\ LET last == graph[Max(GatedPairs(graph))]
        IN \E gate \in Produced(graph, last.inputs[1]), up \in Produced(graph, last.inputs[2]) :
             /\ graph[gate].kind = "MatMul" /\ graph[up].kind = "MatMul"
             /\ graph[gate].inputs[1] = graph[up].inputs[1]
  \/ \E i \in DOMAIN graph : graph[i].kind = "FusedGateUpProjection"

Accepted(graph, ffn) == HasQkv(graph) /\ HasRope(graph) /\ (ffn = "dense" => HasGateUp(graph))

(* build_decoder_layer_graph. *)
CanonicalGraph(c) ==
  <<Op("RmsNorm", <<"x", "rms1_weight">>, "n1"),
    Op("FusedQKVProjection", <<"n1", "packed_qkv_weight">>, "qkv"),
    Op("Split", <<"qkv">>, "q"), Op("Split", <<"qkv">>, "k"), Op("Split", <<"qkv">>, "v"),
    Op("RoPE", <<"q">>, "rq"), Op("RoPE", <<"k">>, "rk"),
    Op("AttentionSdpa", <<"rq", "rk", "v">>, "attention"),
    Op("Concat", <<"attention">>, "merged"),
    Op("MatMul", <<"merged", "output_weight">>, "projected"),
    Op("Add", <<"projected", "x">>, "h"),
    Op("RmsNorm", <<"h", "rms2_weight">>, "n2")>>
  \o (IF c.ffn = "dense"
      THEN <<Op("FusedGateUpProjection", <<"n2", "packed_gate_up_weight">>, "gate_up"),
             Op("SwiGLU", <<"gate_up">>, "activated"),
             Op("MatMul", <<"activated", "down_weight">>, "ffn")>>
      ELSE <<Op("MatMul", <<"n2", "router_weight">>, "router"), Op("TopK", <<"router">>, "topk"),
             Op("MoeDispatch", <<"n2", "topk">>, "dispatch"),
             Op("MoeGroupedMatMul", <<"dispatch">>, "expert"),
             Op("MoeCombine", <<"expert", "topk">>, "ffn")>>)
  \o <<Op("Add", <<"ffn", "h">>, "out")>>

-----------------------------------------------------------------------------
(* Policies and plans.                                                     *)

Shape(c) ==
  [batch |-> c.batch, heads |-> c.heads, kvHeads |-> c.kvHeads, sq |-> c.sequence,
   sk |-> KeyLength(c), dim |-> c.dim, dimValue |-> c.dim, causal |-> c.causal]

(* What validate and validate_config accept, and the types of the rest.    *)
CallsAreSupported ==
  /\ \A k \in Calls :
       /\ Supported(k.config) /\ ValidShape(Shape(k.config))
       /\ \A f \in {"batch", "sequence", "heads", "kvHeads", "dim", "intermediate", "context",
                    "topK", "experts"} : k.config[f] \in Nat
       /\ k.config.causal \in BOOLEAN
       /\ \A f \in {"cpus", "vectorWidth", "l2", "l3"} : k.target[f] \in Nat \ {0}
       /\ k.maxThreads \in Nat /\ k.budget \in Int
  /\ Latencies \subseteq Nat \ {0}

ASSUME CallsAssumption == CallsAreSupported

Policy(layout, family, materialize, reuse, threads, strategy) ==
  [layout |-> layout, family |-> family,
   placement |-> IF family = "latency" THEN "compact" ELSE "spread",
   materialize |-> materialize, reuse |-> reuse, threads |-> threads, attention |-> strategy]

ThreadChoices(maxThreads) ==
  LET UpTo(n) == IF n <= maxThreads THEN <<n>> ELSE <<>>
  IN <<1>> \o UpTo(2) \o UpTo(4) \o UpTo(8)
     \o (IF maxThreads \in {1, 2, 4, 8} THEN <<>> ELSE <<maxThreads>>)

(* The policies of optimize, in its order. *)
Policies(c, target, maxThreads) ==
  LET Bools(first) == <<first, ~first>>
      strategies == IF c.context > 0 THEN <<"split-kv">> ELSE <<"io-aware", "tiled-materialized">>
      threads == ThreadChoices(maxThreads)
      Each(f(_), s) == FlattenSeq([n \in DOMAIN s |-> f(s[n])])
  IN Each(LAMBDA layout : Each(LAMBDA family : Each(LAMBDA mat : Each(LAMBDA reuse :
       Each(LAMBDA strategy : Each(LAMBDA n :
         <<Policy(layout, family, mat, reuse, Clamp(n, 1, target.cpus), strategy)>>,
         threads), strategies), Bools(TRUE)), Bools(FALSE)),
         <<"latency", "throughput">>), <<"head-major", "token-major">>)

(* What a default DecoderCompileOptions asks for. *)
DefaultPolicy(c, target, maxThreads) ==
  LET n == Clamp(maxThreads, 1, target.cpus)
  IN Policy("head-major", "latency", TRUE, TRUE, n, SelectPlan(Shape(c), target, n).strategy)

MoeBytes(c) ==
  LET assignments == TokenRows(c) * c.topK
  IN 4 * (3 * assignments + c.experts + 1 + 2 * assignments * Hidden(c) + TokenRows(c) * Hidden(c))

(* The memory of a plan: compile's estimate. *)
Workspace(c, policy, temporary) ==
  LET hidden == 4 * TokenRows(c) * Hidden(c)
      qkv == 4 * TokenRows(c) * QkvWidth(c)
      activation == IF c.ffn = "dense" THEN 4 * TokenRows(c) * c.intermediate ELSE 0
      Moe(copies) == IF c.ffn = "dense" THEN 0
                     ELSE MoeBytes(c) + copies * 4 * TokenRows(c) * c.topK * c.intermediate
      Largest == Greatest(qkv, Greatest(3 * hidden,
                   Greatest(3 * activation, Greatest(temporary, Moe(2)))))
  IN (IF policy.reuse THEN Largest
      ELSE 6 * hidden + qkv + 3 * activation + temporary + Moe(3))
     + (IF policy.materialize THEN hidden ELSE 0)

(* DecoderCompiler::compile with a policy and the attention plan it takes. *)
Compile(c, target, policy, attention) ==
  LET taken == CompiledPlan(Shape(c), target, attention)
  IN [policy |-> policy, attention |-> taken, graph |-> CanonicalGraph(c),
      workspace |-> Workspace(c, policy, TemporaryBytes(Shape(c), taken))]

CompileDefault(c, target, maxThreads) ==
  LET policy == DefaultPolicy(c, target, maxThreads)
  IN Compile(c, target, policy, SelectPlan(Shape(c), target, policy.threads))

CompilePolicy(c, target, policy) ==
  Compile(c, target, policy,
          [SelectPlan(Shape(c), target, policy.threads) EXCEPT !.strategy = policy.attention])

(* evaluate, in units of 1 / (20 * 2^20), the L2 term rounded down. *)
Score(c, p) ==
  LET elements == TokenRows(c) * Hidden(c)
      traffic == L2Traffic(Shape(c), p.attention)
  IN (IF p.policy.layout = "head-major" THEN 0 ELSE 5120 * elements)
     + (IF p.policy.materialize THEN 320 * 4 * elements ELSE 0)
     + 20 * p.workspace
     + (IF p.policy.family = "latency" /\ TokenRows(c) > 32 THEN 167772160 ELSE 0)
     + (IF p.policy.placement = "spread" /\ p.policy.threads <= 2 THEN 41943040 ELSE 0)
     + (IF TokenRows(c) >= 32 THEN 83886080 \div Greatest(1, p.policy.threads)
        ELSE 1048576 * Greatest(0, p.policy.threads - 2))
     + 2 * traffic + (traffic * 12144) \div 125000

Candidates(c, target, maxThreads) ==
  LET policies == Policies(c, target, maxThreads)
      scores == [n \in DOMAIN policies |-> Score(c, CompilePolicy(c, target, policies[n]))]
  IN StableSort([n \in DOMAIN policies |->
                   [policy |-> policies[n], ms |-> 0, score |-> scores[n]]], scores)

(* The attention plans that tune_attention_plan screens. *)
TileCandidates(s, target, seed) ==
  LET Tile(t) == [seed EXCEPT !.strategy = "auto-io-aware", !.queryTile = t[1], !.kvTile = t[2]]
      Fits(t) == t[1] <= s.sq /\ t[2] <= s.sk /\ TemporaryBytes(s, Tile(t)) <= target.l2
      Sizes(n) == <<<<16, 32, 64>>[(n + 2) \div 3], <<32, 64, 128>>[((n - 1) % 3) + 1]>>
  IN FlattenSeq([n \in 1 .. 9 |->
       IF Fits(Sizes(n)) THEN <<[attention |-> Tile(Sizes(n)), ms |-> 0]>> ELSE <<>>])

-----------------------------------------------------------------------------

Config == call.config
Default == CompileDefault(Config, call.target, call.maxThreads)
Unmeasured(r) == {n \in DOMAIN r : r[n].ms = 0}

PlanInit ==
  /\ call \in Calls
  /\ phase = "start" /\ plan = None /\ baseline = None /\ rows = <<>> /\ winner = None
  /\ samples = [baseline |-> <<>>, winner |-> <<>>] /\ measurements = 0 /\ output = None

(* compile throws: the graph lacks a pattern. *)
RejectGraph ==
  /\ phase = "start" /\ call.mode # "int8" /\ ~Accepted(call.graph, Config.ffn)
  /\ phase' = "rejected"
  /\ UNCHANGED <<call, plan, baseline, rows, winner, samples, measurements, output>>

Begins(mode) == phase = "start" /\ call.mode = mode /\ Accepted(call.graph, Config.ffn)

(* A profile beyond the budget is compiled and costed, never run. *)
CompileOnly ==
  /\ \E mode \in {"plain", "optimize"} : Begins(mode)
  /\ ~call.feasible
  /\ plan' = Default /\ phase' = "compiled"
  /\ UNCHANGED <<call, baseline, rows, winner, samples, measurements, output>>

CompilePlain ==
  /\ Begins("plain") /\ call.feasible
  /\ plan' = Default /\ phase' = "ready"
  /\ UNCHANGED <<call, baseline, rows, winner, samples, measurements, output>>

(* tune_attention: nothing to screen leaves the plan that was selected. *)
BeginTuning ==
  /\ Begins("tune")
  /\ plan' = Default
  /\ rows' = IF Default.attention.strategy # "auto-io-aware" THEN <<>>
             ELSE TileCandidates(Shape(Config), call.target,
                                 SelectPlan(Shape(Config), call.target, Default.policy.threads))
  /\ phase' = IF rows' = <<>> THEN "compiled" ELSE "screen"
  /\ UNCHANGED <<call, baseline, winner, samples, measurements, output>>

(* Measures the next candidate; after the last one the three fastest, in   *)
(* stable order, are the finalists.                                        *)
Screen(ms) ==
  /\ phase = "screen"
  /\ LET n == Min(Unmeasured(rows))
         measured == [rows EXCEPT ![n].ms = ms]
         sorted == StableSort(measured, [i \in DOMAIN rows |-> measured[i].ms])
     IN IF n < Len(rows) THEN rows' = measured /\ phase' = "screen"
        ELSE /\ rows' = [i \in 1 .. Least(3, Len(rows)) |-> [sorted[i] EXCEPT !.ms = 0]]
             /\ phase' = "finals"
  /\ measurements' = measurements + 1
  /\ UNCHANGED <<call, plan, baseline, winner, samples, output>>

Final(ms) ==
  /\ phase = "finals"
  /\ LET n == Min(Unmeasured(rows))
         policy == DefaultPolicy(Config, call.target, call.maxThreads)
     IN /\ rows' = [rows EXCEPT ![n].ms = ms]
        /\ IF winner = None \/ ms < winner.ms
           THEN /\ winner' = rows'[n]
                /\ plan' = Compile(Config, call.target, policy, rows[n].attention)
           ELSE UNCHANGED <<winner, plan>>
        /\ phase' = IF n < Len(rows) THEN "finals" ELSE "compiled"
  /\ measurements' = measurements + 1
  /\ UNCHANGED <<call, baseline, samples, output>>

-----------------------------------------------------------------------------
(* optimize.                                                               *)

MeasureBaseline(ms) ==
  /\ Begins("optimize") /\ call.feasible
  /\ baseline' = [policy |-> Default.policy, ms |-> ms, score |-> Score(Config, Default)]
  /\ measurements' = 1
  /\ phase' = "rank"
  /\ UNCHANGED <<call, plan, rows, winner, samples, output>>

Rank ==
  /\ phase = "rank"
  /\ rows' = Candidates(Config, call.target, call.maxThreads)
  /\ phase' = "measure"
  /\ UNCHANGED <<call, plan, baseline, winner, samples, measurements, output>>

Budget == Clamp(call.budget, 1, Len(rows))

(* The candidates in the order of their score; the first of the fastest    *)
(* wins.                                                                   *)
MeasureCandidate(ms) ==
  /\ phase = "measure"
  /\ LET n == measurements
     IN /\ rows' = [rows EXCEPT ![n].ms = ms]
        /\ IF winner = None \/ ms < winner.ms
           THEN /\ winner' = rows'[n]
                /\ plan' = CompilePolicy(Config, call.target, rows[n].policy)
           ELSE UNCHANGED <<winner, plan>>
        /\ phase' = IF n < Budget THEN "measure" ELSE "compare"
  /\ measurements' = measurements + 1
  /\ UNCHANGED <<call, baseline, samples, output>>

(* One confirmation: the baseline, then the winner, again.  The medians    *)
(* are taken of sorted samples.                                            *)
Insert(s, ms) ==
  LET n == Cardinality({i \in DOMAIN s : s[i] <= ms})
  IN SubSeq(s, 1, n) \o <<ms>> \o SubSeq(s, n + 1, Len(s))

Confirm(ms1, ms2) ==
  /\ phase = "compare" /\ baseline.ms > winner.ms /\ Len(samples.winner) < 3
  /\ samples' = [baseline |-> Insert(samples.baseline, ms1), winner |-> Insert(samples.winner, ms2)]
  /\ measurements' = measurements + 2
  /\ UNCHANGED <<call, phase, plan, baseline, rows, winner, output>>

(* The medians replace both results, and the row of every candidate that   *)
(* has the winner's policy.                                                *)
Confirmed == Len(samples.winner) = 3

ApplyMedians(row) ==
  IF Confirmed /\ row.policy = plan.policy THEN [row EXCEPT !.ms = samples.winner[2]] ELSE row

(* Mutant: the baseline is kept only when its first measurement was as     *)
(* good, whatever the confirmation says.                                   *)
KeepsFirstBaseline(base, best) == baseline.ms <= winner.ms

(* The baseline is kept unless something beat it. *)
KeepsBaseline(base, best) == base <= best

Conclude ==
  /\ phase = "compare" /\ (Confirmed \/ baseline.ms <= winner.ms)
  /\ LET base == IF Confirmed THEN [baseline EXCEPT !.ms = samples.baseline[2]] ELSE baseline
         best == IF Confirmed THEN [winner EXCEPT !.ms = samples.winner[2]] ELSE winner
         kept == KeepsBaseline(base.ms, best.ms)
     IN /\ baseline' = base
        /\ winner' = IF kept THEN base ELSE best
        /\ plan' = IF kept THEN Default ELSE plan
        /\ rows' = <<base>> \o [n \in DOMAIN rows |-> ApplyMedians(rows[n])]
  /\ samples' = [baseline |-> <<>>, winner |-> <<>>]
  /\ phase' = "optimized"
  /\ UNCHANGED <<call, measurements, output>>

-----------------------------------------------------------------------------
(* Executions.                                                             *)

(* What a plan computes: its policy moves no element.  Evaluated once for  *)
(* each configuration.                                                     *)
Executed ==
  [c \in {k.config : k \in {k \in Calls : k.feasible /\ k.mode \in {"plain", "optimize"}}} |->
     ExecuteOnce(c, Loops(c), [qkv |-> PackedQkv(c, Data(c)), gateUp |-> PackedGateUp(c, Data(c))],
                 Data(c))]

Execute ==
  /\ phase \in {"ready", "optimized"}
  /\ output' = Executed[Config]
  /\ phase' = "executed"
  /\ UNCHANGED <<call, plan, baseline, rows, winner, samples, measurements>>

(* execute_quantized_decoder_layer, which has no plan and no graph. *)
ExecuteQuantized ==
  /\ phase = "start" /\ call.mode = "int8" /\ Config.ffn = "dense"
  /\ output' = ExecuteInt8(Config, Data(Config))
  /\ phase' = "executed"
  /\ UNCHANGED <<call, plan, baseline, rows, winner, samples, measurements>>

RejectQuantized ==
  /\ phase = "start" /\ call.mode = "int8" /\ Config.ffn # "dense"
  /\ phase' = "rejected"
  /\ UNCHANGED <<call, plan, baseline, rows, winner, samples, measurements, output>>

PlanNext ==
  \/ RejectGraph \/ CompileOnly \/ CompilePlain \/ BeginTuning \/ Rank \/ Conclude
  \/ Execute \/ ExecuteQuantized \/ RejectQuantized
  \/ \E ms \in Latencies : Screen(ms) \/ Final(ms) \/ MeasureBaseline(ms) \/ MeasureCandidate(ms)
  \/ \E ms1, ms2 \in Latencies : Confirm(ms1, ms2)

PlanSpec == PlanInit /\ [][PlanNext]_planVars

-----------------------------------------------------------------------------
(* Properties.                                                             *)

Meaning ==
  [c \in {k.config : k \in {k \in Calls : k.mode = "int8" \/ (k.feasible /\ k.mode # "tune")}} |->
     [int8 \in {b \in BOOLEAN : b => c.ffn = "dense"} |-> LayerMeaning(c, int8)]]

(* A compiled, an optimised and an INT8 layer, with their packed, split,   *)
(* transposed and merged tensors, compute what a decoder layer is: for     *)
(* every batch, token, head and dimension the same products in the same    *)
(* order, the same rotations and the same visible keys.                    *)
LayerKeepsMeaning ==
  phase = "executed" => output = Meaning[Config][call.mode = "int8"]

(* What optimize reports: the chosen plan has the policy and the latency   *)
(* of the winner, some row shows both, the first row is the baseline, and  *)
(* the winner is not slower than the baseline, by the latest measurements  *)
(* of both (a speedup is never below one).                                 *)
WinnerIsReported ==
  phase = "optimized" =>
    /\ plan.policy = winner.policy
    /\ rows[1] = baseline
    /\ winner.ms <= rows[1].ms
    /\ \E n \in DOMAIN rows : rows[n].policy = plan.policy /\ rows[n].ms = winner.ms

(* The canonical graph a plan saves has every pattern the compiler asks    *)
(* of a graph: it can be compiled again.                                   *)
CanonicalCompilesAgain == plan # None => Accepted(plan.graph, Config.ffn)

(* simulate_attention counts exactly the tiles in which some query sees a  *)
(* key, and exactly the pairs a causal mask leaves, for every plan that    *)
(* was selected, tuned or compiled.                                        *)
SimulatedTilesAreVisible ==
  plan # None =>
    LET s == Shape(Config)
    IN /\ QkTiles(s, plan.attention) = VisibleTiles(s, plan.attention)
       /\ ScoreCount(s) = s.batch * s.heads * Cardinality(VisiblePairs(s))
=============================================================================

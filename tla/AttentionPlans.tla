--------------------------- MODULE AttentionPlans ---------------------------
(***************************************************************************)
(* How src/attention_compiler.cpp plans an attention call and estimates    *)
(* its cost: select_attention_plan, the clamps of AttentionCompiler and    *)
(* simulate_attention.  A shape is [batch, heads, kvHeads, sq, sk, dim,    *)
(* dimValue, causal]; a target is [cpus, vectorWidth, l2, l3].  Estimates  *)
(* are exact here: the code keeps them as doubles far below 2^53.          *)
(***************************************************************************)
EXTENDS RowPartition, FiniteSets

SizeofFloat == 4

(* validate_config. *)
ValidShape(s) ==
  /\ \A f \in {"batch", "heads", "kvHeads", "sq", "sk", "dim", "dimValue"} : s[f] > 0
  /\ s.heads % s.kvHeads = 0
  /\ s.causal => s.sq <= s.sk

IsMaterialized(strategy) == strategy \in {"materialized", "tiled-materialized"}

SelectPlan(s, target, maxThreads) ==
  LET threads == Clamp(maxThreads, 1, target.cpus)
      pairBytes == (2 * s.dim + s.dimValue + 1) * SizeofFloat
      tile == IF s.dim >= 128 THEN 16 ELSE 32
      fitting == Clamp(target.l2 \div (pairBytes * tile), 16, 128)
  IN IF s.sq <= 2
     THEN [strategy |-> "split-kv", threads |-> threads, queryTile |-> 1,
           kvTile |-> IF s.sk >= 1024 THEN 128 ELSE 64,
           splits |-> IF threads > 1 THEN Clamp(Greatest(2, s.sk \div 128), 2, threads) ELSE 1]
     ELSE IF s.sq <= 16 /\ s.sk <= 64
     THEN [strategy |-> "materialized", threads |-> threads, queryTile |-> s.sq,
           kvTile |-> s.sk, splits |-> 1]
     ELSE [strategy |-> "auto-io-aware", threads |-> threads, queryTile |-> tile,
           kvTile |-> Greatest(16, (fitting \div 16) * 16), splits |-> 1]

(* AttentionCompiler::compile clamps what it is given. *)
CompiledPlan(s, target, plan) ==
  [plan EXCEPT !.threads = Clamp(@, 1, target.cpus), !.queryTile = Clamp(@, 1, s.sq),
               !.kvTile = Clamp(@, 1, s.sk)]

-----------------------------------------------------------------------------
(* simulate_attention.                                                     *)

(* How many keys a query of a causal mask may see. *)
KeysSeen(s, q) == Clamp(s.sk - s.sq + q + 1, 0, s.sk)

(* scores_per_head: a causal mask is summed query by query. *)
ScoresPerHead(s) ==
  IF ~s.causal THEN s.sq * s.sk
  ELSE LET scores[n \in 0 .. s.sq] == IF n = 0 THEN 0 ELSE scores[n - 1] + KeysSeen(s, n - 1)
       IN scores[s.sq]

ScoreCount(s) == s.batch * s.heads * ScoresPerHead(s)

QueryTiles(s, plan) == CeilDiv(s.sq, plan.queryTile)
KeyTiles(s, plan) == CeilDiv(s.sk, plan.kvTile)

(* Mutant: the first query of a block is asked instead of its last. *)
LastQueryOfFirst(s, plan, block) == s.sk - s.sq + block * plan.queryTile

(* The last key that a block of queries may see. *)
LastQuery(s, plan, block) == s.sk - s.sq + Least((block + 1) * plan.queryTile, s.sq) - 1

SkippedTiles(s, plan) ==
  IF ~s.causal THEN 0
  ELSE s.batch * s.heads * Cardinality(
         {t \in (0 .. QueryTiles(s, plan) - 1) \X (0 .. KeyTiles(s, plan) - 1) :
            t[2] * plan.kvTile > LastQuery(s, plan, t[1])})

QkTiles(s, plan) ==
  LET all == s.batch * s.heads * QueryTiles(s, plan) * KeyTiles(s, plan)
  IN all - Least(all, SkippedTiles(s, plan))

ScoreBytes(s) == s.batch * s.heads * s.sq * s.sk * SizeofFloat
QueryBytes(s) == s.batch * s.heads * s.sq * s.dim * SizeofFloat
KvBytes(s) == s.batch * s.kvHeads * s.sk * (s.dim + s.dimValue) * SizeofFloat
OutputBytes(s) == s.batch * s.heads * s.sq * s.dimValue * SizeofFloat

TemporaryBytes(s, plan) ==
  IF IsMaterialized(plan.strategy) THEN 2 * ScoreBytes(s)
  ELSE IF plan.strategy = "split-kv"
  THEN s.batch * s.heads * s.sq * Greatest(1, plan.splits) * (s.dimValue + 2) * SizeofFloat
  ELSE Clamp(plan.threads, 1, Greatest(1, s.batch * s.heads * QueryTiles(s, plan)))
         * plan.queryTile * (plan.kvTile + s.dimValue + 2) * SizeofFloat

L2Traffic(s, plan) ==
  IF IsMaterialized(plan.strategy)
  THEN QueryBytes(s) + KvBytes(s) + OutputBytes(s) + 6 * ScoreBytes(s)
  ELSE QueryBytes(s) + OutputBytes(s) + KvBytes(s) * QueryTiles(s, plan)

Simulation(s, plan) ==
  [scores |-> ScoreCount(s), qkTiles |-> QkTiles(s, plan),
   temporary |-> TemporaryBytes(s, plan), l2Traffic |-> L2Traffic(s, plan)]

(* A query and a key that it may see. *)
VisiblePairs(s) ==
  {p \in (0 .. s.sq - 1) \X (0 .. s.sk - 1) : s.causal => p[2] <= s.sk - s.sq + p[1]}

(* The tiles in which some query of some head sees a key. *)
VisibleTiles(s, plan) ==
  s.batch * s.heads * Cardinality(
    {<<p[1] \div plan.queryTile, p[2] \div plan.kvTile>> : p \in VisiblePairs(s)})
=============================================================================

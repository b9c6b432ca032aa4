------------------------- MODULE MCAttentionRuntime -------------------------
(* Shared and separate heads, one and two batches, blocks and splits with  *)
(* remainders, splits without keys, and more threads than tasks.           *)
EXTENDS AttentionRuntime

Config(batch, heads, kvHeads, sq, sk, causal) ==
  [batch |-> batch, heads |-> heads, kvHeads |-> kvHeads, sq |-> sq, sk |-> sk,
   causal |-> causal]
Plan(strategy, queryTile, kvTile, threads, splits) ==
  [strategy |-> strategy, queryTile |-> queryTile, kvTile |-> kvTile,
   threads |-> threads, splits |-> splits]

MCConfigs == {Config(1, 2, 1, 3, 5, TRUE), Config(2, 2, 2, 2, 4, TRUE),
              Config(1, 4, 2, 1, 5, FALSE)}
MCPlans == {Plan("materialized", 2, 2, 1, 1), Plan("io-aware", 2, 2, 3, 1),
            Plan("io-aware", 4, 3, 1, 1), Plan("split-kv", 1, 2, 2, 3),
            Plan("split-kv", 2, 1, 3, 0)}

=============================================================================

-------------------------- MODULE MCCompilerDriver --------------------------
(* Three calls of two processes that share a cache, for two graphs that    *)
(* differ in the epilogue only, so that their keys are the same, and for a *)
(* dispatched problem of another k.  The space has two candidates for two  *)
(* threads: other tile sizes of k, unrolls and row tiles are pruned.  The  *)
(* first schedule of compile() has the key of a search with two threads    *)
(* and two finalists.                                                      *)
EXTENDS CompilerDriver

MCOptions == {[threads |-> 2, topK |-> 1], [threads |-> 2, topK |-> 2]}

MCSchedules ==
  {[DefaultSchedule EXCEPT !.threads = 2, !.bm = 2],
   [DefaultSchedule EXCEPT !.fused = FALSE, !.packA = TRUE, !.packB = TRUE,
                           !.mc = 4, !.nc = 5, !.kc = 6]}

MCEpilogues == {[bias |-> TRUE, relu |-> TRUE], [bias |-> TRUE, relu |-> FALSE]}

MCShapes == {<<6, 6, 4>>}

MCTiles == <<16>>
MCKTiles == <<16, 32>>
MCRowTiles == <<4, 16>>
MCWidths == <<8>>
MCPackingModes == <<0>>
MCPrefetches == <<0>>
MCUnrolls == <<1, 4>>
MCTeamSizes == <<2, 3>>
MCBuckets == <<3, 6>>

Symmetry == Permutations(Processes)

=============================================================================

--------------------------- MODULE Autoscheduler ----------------------------
(***************************************************************************)
(* The search of src/autoscheduler.cpp: the space of schedules, static     *)
(* pruning, and the choice of a schedule from measured times.              *)
(***************************************************************************)
EXTENDS Interpreter, StableOrder

CONSTANTS
  Tiles, KTiles, RowTiles, Widths, PackingModes, Prefetches, Unrolls,
                    \* the values that search_space enumerates, as sequences
  TeamSizes,        \* the numbers of threads beyond 1 that it tries
  VectorRegisters,  \* 16 for AVX2
  WorkingSet        \* 128 KiB in the code: the bytes the tiles may have

(* The arrays of search_space; a packing mode packs nothing, B, or A and B. *)
ASSUME SpaceAssumption ==
  /\ {Tiles, KTiles, RowTiles, Widths, Unrolls, TeamSizes} \subseteq Seq(Nat \ {0})
  /\ PackingModes \in Seq(0 .. 2) /\ Prefetches \in Seq(Nat)

ThreadCounts(maxThreads) ==
  <<1>> \o ForEach(TeamSizes, LAMBDA t : IF t <= maxThreads THEN <<t>> ELSE <<>>)

(* search_space, in the order of its loops.                                *)
SearchSpace(maxThreads) ==
  ForEach(Tiles, LAMBDA bm : ForEach(Tiles, LAMBDA bn : ForEach(KTiles, LAMBDA bk :
  ForEach(RowTiles, LAMBDA mr : ForEach(Widths, LAMBDA width :
  ForEach(ThreadCounts(maxThreads), LAMBDA threads :
  ForEach(PackingModes, LAMBDA mode : ForEach(Prefetches, LAMBDA distance :
  ForEach(Unrolls, LAMBDA unroll :
    << [DefaultSchedule EXCEPT
          !.bm = bm, !.bn = bn, !.bk = bk,
          !.mc = Greatest(64, bm * 2), !.nc = Greatest(64, bn * 2), !.kc = Greatest(32, bk),
          !.mr = mr,
          !.nr = IF width >= Lanes /\ mode = 0 /\ mr <= WideRows THEN 2 * Lanes ELSE width,
          !.width = width, !.threads = threads, !.unroll = unroll,
          !.packA = mode = 2, !.packB = mode >= 1,
          !.distance = distance, !.pinned = threads > 1] >> )))))))))

(* estimate_register_pressure: accumulators, a broadcast, temporaries.     *)
Spills(s) ==
  LET width == Greatest(1, s.width)
      accumulators == s.mr * Greatest(1, CeilDiv(s.nr, width))
  IN accumulators + (IF s.width > 1 THEN 1 ELSE 0) + 2 + (IF s.distance > 0 THEN 1 ELSE 0)
       > VectorRegisters - 1

(* Whether execute() runs the schedule with the register-blocked kernel.   *)
InRegisters(s) == s.order = "ikj" /\ ~s.packA /\ ~s.packB /\ s.width >= Lanes

Valid(s) ==
  /\ s.bn % s.width = 0
  /\ s.bm % s.mr = 0 \/ (InRegisters(s) /\ s.mr <= MicroRows)
  /\ ~Spills(s)
  /\ s.packB => s.width > 1
  /\ s.packA => s.packB
  /\ s.distance > 0 => s.packB
  /\ s.unroll > 1 => s.width > 1
  /\ 4 * (s.bm * s.bk + s.bk * s.bn + s.bm * s.bn) <= WorkingSet

-----------------------------------------------------------------------------
(* ScheduleDSL::print: the commands of the text.  "tiled" has none.        *)
PrintSchedule(s) ==
  << [key |-> "order", value |-> s.order],
     [key |-> "outer", values |-> <<s.mc, s.nc, s.kc>>],
     [key |-> "tile", values |-> <<s.bm, s.bn, s.bk>>],
     [key |-> "micro", values |-> <<s.mr, s.nr>>],
     [key |-> "vector", value |-> s.width],
     [key |-> "unroll", value |-> s.unroll],
     [key |-> "threads", value |-> s.threads],
     [key |-> "pack", value |-> <<s.packA, s.packB>>],
     [key |-> "prefetch", value |-> s.distance],
     [key |-> "fuse", value |-> s.fused],
     [key |-> "pin", value |-> s.pinned] >>

(* One command of ScheduleDSL::parse.                                      *)
ParseOne(s, command) ==
  CASE command.key = "order" -> [s EXCEPT !.order = command.value]
    [] command.key = "outer" ->
         [s EXCEPT !.mc = command.values[1], !.nc = command.values[2], !.kc = command.values[3]]
    [] command.key = "tile" ->
         [s EXCEPT !.bm = command.values[1], !.bn = command.values[2], !.bk = command.values[3]]
    [] command.key = "micro" ->
         [s EXCEPT !.mr = command.values[1], !.nr = command.values[2]]
    [] command.key = "vector" -> [s EXCEPT !.width = command.value]
    [] command.key = "unroll" -> [s EXCEPT !.unroll = command.value]
    [] command.key = "threads" -> [s EXCEPT !.threads = command.value]
    [] command.key = "prefetch" -> [s EXCEPT !.distance = command.value]
    [] command.key = "pack" ->
         [s EXCEPT !.packA = command.value[1], !.packB = command.value[2]]
    [] command.key = "fuse" -> [s EXCEPT !.fused = command.value]
    [] command.key = "pin" -> [s EXCEPT !.pinned = command.value]

(* ScheduleDSL::parse: what the text does not set keeps its default; the   *)
(* empty text is the default schedule.                                     *)
ParseSchedule(text) ==
  LET schedule[n \in 0 .. Len(text)] ==
        IF n = 0 THEN DefaultSchedule ELSE ParseOne(schedule[n - 1], text[n])
  IN schedule[Len(text)]

-----------------------------------------------------------------------------
(* Mutant: the key of a register kernel leaves out its threads.            *)
ExecutionKeyOfOneThread(s) ==
  IF InRegisters(s)
    THEN << [key |-> "register", values |-> <<s.bm, s.bn, Least(s.mr, MicroRows)>>],
            [key |-> "fuse", value |-> s.fused] >>
    ELSE PrintSchedule(s)

(* execution_key: for the register kernel, the fields that matter to it.   *)
ExecutionKey(s) ==
  IF InRegisters(s)
    THEN << [key |-> "register",
             values |-> <<s.bm, s.bn, Least(s.mr, MicroRows), s.threads>>],
            [key |-> "fuse", value |-> s.fused], [key |-> "pin", value |-> s.pinned] >>
    ELSE PrintSchedule(s)

(* The candidates of autoschedule: of the valid schedules, the first of    *)
(* each execution key.                                                     *)
Candidates(maxThreads) ==
  LET space == SearchSpace(Greatest(1, maxThreads))
      Keep(kept, s) ==
        IF Valid(s) /\ \A i \in DOMAIN kept : ExecutionKey(kept[i]) # ExecutionKey(s)
          THEN Append(kept, s) ELSE kept
      candidates[n \in 0 .. Len(space)] ==
        IF n = 0 THEN <<>> ELSE Keep(candidates[n - 1], space[n])
  IN candidates[Len(space)]

-----------------------------------------------------------------------------
(* A time is a positive number; Wrong stands for a wrong result.           *)
Wrong == 0

(* Mutant: the slowest candidates come first.                              *)
RankedBackwards(screening, ranking) ==
  /\ ToSet(ranking) = {c \in DOMAIN screening : screening[c] # Wrong}
  /\ IsInjective(ranking)
  /\ \A i, j \in DOMAIN ranking : i < j => screening[ranking[i]] >= screening[ranking[j]]

(* The candidates after the sort by time and the removal of the wrong      *)
(* ones; candidates of one time come in any order.                         *)
Ranked(screening, ranking) ==
  /\ ToSet(ranking) = {c \in DOMAIN screening : screening[c] # Wrong}
  /\ IsInjective(ranking)
  /\ \A i, j \in DOMAIN ranking : i < j => screening[ranking[i]] <= screening[ranking[j]]

Finalists(ranking, topK) == Least(Greatest(1, topK), Len(ranking))

(* The upper median of the samples.                                        *)
Median(samples) == StableSort(samples, samples)[Len(samples) \div 2 + 1]

(* The slot of the first finalist that is right and faster than all before *)
(* it; 0 if none is right.                                                 *)
Best(medians) ==
  LET Better(best, slot) ==
        IF medians[slot] # Wrong /\ (best = 0 \/ medians[slot] < medians[best])
          THEN slot ELSE best
      best[n \in 0 .. Len(medians)] == IF n = 0 THEN 0 ELSE Better(best[n - 1], n)
  IN best[Len(medians)]

=============================================================================

------------------------------- MODULE LoopIr -------------------------------
(***************************************************************************)
(* LoopIR of src/ir.cpp, its passes, and the transform programs of         *)
(* src/graph_compiler.cpp that build it.                                   *)
(*                                                                         *)
(* A loop is kept as what its tree says, not as a tree: the order of its   *)
(* induction variables, the step of each, the operations of its body that  *)
(* analyze_loop_ir looks for, the epilogue operations in front of its      *)
(* store (inner) and behind the nest (top), and the cached plan.           *)
(***************************************************************************)
EXTENDS RowPartition, SequencesExt

(* Schedule{}.                                                             *)
DefaultSchedule ==
  [order |-> "ikj", bm |-> 32, bn |-> 64, bk |-> 32, mr |-> 4, nr |-> 8, width |-> 8,
   threads |-> 1, mc |-> 64, nc |-> 128, kc |-> 64, unroll |-> 1, distance |-> 0,
   tiled |-> TRUE, fused |-> TRUE, packA |-> FALSE, packB |-> FALSE, pinned |-> FALSE]

(* The values a Schedule may have.                                         *)
AnySchedule ==
  [order : {"ijk", "ikj"}, bm : Int, bn : Int, bk : Int, mr : Int, nr : Int, width : Int,
   threads : Int, mc : Int, nc : Int, kc : Int, unroll : Int, distance : Int,
   tiled : BOOLEAN, fused : BOOLEAN, packA : BOOLEAN, packB : BOOLEAN, pinned : BOOLEAN]

-----------------------------------------------------------------------------
(* analyze_loop_ir: the plan is read back from the tree, once.             *)
Position(loop, induction) == CHOOSE x \in DOMAIN loop.nest : loop.nest[x] = induction

PlanOfTree(loop) ==
  [bm       |-> loop.step.ii,
   bn       |-> loop.step.jj,
   bk       |-> loop.step.kk,
   mr       |-> loop.step.i,
   nr       |-> loop.step.j,
   unroll   |-> loop.step.k,
   tiled    |-> \/ loop.step.ii < loop.problem.m
                \/ loop.step.jj < loop.problem.n
                \/ loop.step.kk < loop.problem.k,
   width    |-> loop.width,
   order    |-> IF Position(loop, "kk") < Position(loop, "jj") THEN "ikj" ELSE "ijk",
   packA    |-> loop.packA,
   packB    |-> loop.packB,
   distance |-> loop.distance,
   threads  |-> IF loop.parallel THEN loop.threads ELSE 1,
   pinned   |-> loop.pinned,
   fused    |-> loop.top = <<>>,
   gelu     |-> Contains(loop.inner, "gelu"),
   residual |-> Contains(loop.inner, "residual")]

(* The plan, cached or not.  The optional execution_plan_ is a sequence of *)
(* at most one plan.                                                       *)
Analyze(loop) == IF loop.cached # <<>> THEN loop.cached[1] ELSE PlanOfTree(loop)
Analyzed(loop) == [loop EXCEPT !.cached = <<Analyze(loop)>>]

-----------------------------------------------------------------------------
(* apply_schedule.                                                         *)
EpilogueOps(p) ==
  (IF p.bias THEN <<"bias">> ELSE <<>>) \o (IF p.relu THEN <<"relu">> ELSE <<>>)

(* The AddBias and Relu behind the nest: a nest that stores inside its     *)
(* reduction cannot have them in front of the store.                       *)
TopLevelEpilogue(p, s) ==
  IF ~s.fused \/ (s.order = "ikj" /\ s.width <= 1) THEN EpilogueOps(p) ELSE <<>>

(* A scalar IKJ nest without packing stores in the innermost loop; every   *)
(* other nest sums in an accumulator around its k loops.                   *)
ApplySchedule(p, s) ==
  LET width == Greatest(1, s.width)
      update == s.order = "ikj" /\ width = 1 /\ ~s.packA /\ ~s.packB
      Tile(size, extent) == IF s.tiled THEN Greatest(1, size) ELSE extent
  IN Analyzed(
       [problem  |-> p,
        nest     |-> IF update THEN <<"ii", "kk", "jj", "i", "k", "j">>
                               ELSE <<"ii", "jj", "i", "j", "kk", "k">>,
        step     |-> [ii |-> Tile(s.bm, p.m), jj |-> Tile(s.bn, p.n), kk |-> Tile(s.bk, p.k),
                      i |-> IF width > 1 THEN Greatest(1, s.mr) ELSE 1,
                      j |-> IF width > 1 THEN Greatest(width, s.nr) ELSE 1,
                      k |-> Greatest(1, s.unroll)],
        width    |-> width,
        packA    |-> s.packA,
        packB    |-> s.packB,
        distance |-> Greatest(0, s.distance),
        parallel |-> s.threads > 1,
        threads  |-> Greatest(1, s.threads),
        pinned   |-> s.pinned,
        inner    |-> IF s.fused /\ ~update THEN EpilogueOps(p) ELSE <<>>,
        top      |-> TopLevelEpilogue(p, s),
        cached   |-> <<>>])

-----------------------------------------------------------------------------
(* Methods of LoopIR.                                                      *)

(* insertEpilogueBeforeStores: every nest has one store.                   *)
InsertEpilogueBeforeStores(loop, kind) ==
  [loop EXCEPT !.inner = Append(@, kind), !.cached = <<>>]

(* specialize: the tree of one problem with the extents of another.        *)
Specialize(loop, p) == [loop EXCEPT !.problem = p, !.cached = <<>>]

-----------------------------------------------------------------------------
(* The passes.  Each builds a new tree from the plan of the old one.       *)

LowerToLoops(p) ==
  ApplySchedule(p, [DefaultSchedule EXCEPT !.order = "ijk", !.tiled = FALSE, !.width = 1,
                                           !.mr = 1, !.nr = 1, !.fused = FALSE])

(* What every pass copies from the plan into the schedule of the new tree. *)
Rescheduled(plan) ==
  [DefaultSchedule EXCEPT
     !.order = plan.order, !.tiled = plan.tiled,
     !.bm = plan.bm, !.bn = plan.bn, !.bk = plan.bk,
     !.mr = plan.mr, !.nr = plan.nr, !.width = plan.width,
     !.threads = plan.threads, !.unroll = plan.unroll,
     !.packA = plan.packA, !.packB = plan.packB,
     !.distance = plan.distance, !.fused = plan.fused, !.pinned = plan.pinned]

Interchange(loop) ==
  ApplySchedule(loop.problem, [Rescheduled(Analyze(loop)) EXCEPT !.order = "ikj"])

Tiling(loop, bm, bn, bk) ==
  ApplySchedule(loop.problem,
    [Rescheduled(Analyze(loop)) EXCEPT
       !.tiled = TRUE,
       !.bm = Greatest(1, bm), !.bn = Greatest(1, bn), !.bk = Greatest(1, bk)])

Vectorize(loop, width) ==
  ApplySchedule(loop.problem,
    [Rescheduled(Analyze(loop)) EXCEPT !.nr = Greatest(1, width), !.width = Greatest(1, width)])

Fusion(loop) ==
  ApplySchedule(loop.problem, [Rescheduled(Analyze(loop)) EXCEPT !.fused = TRUE])

(* The last step of --dump-ir: the nest is rebuilt for display, unpinned   *)
(* and with the threads of the command line.                               *)
Display(loop, threads) ==
  ApplySchedule(loop.problem,
    [Rescheduled(Analyze(loop)) EXCEPT !.threads = threads, !.pinned = FALSE])

-----------------------------------------------------------------------------
(* Transform programs.                                                     *)

(* TransformProgram::fromSchedule: the operations that make the schedule   *)
(* out of a seed.  It tiles always, and interchanges for IKJ only.         *)
FromSchedule(s) ==
  <<[kind |-> "match"], [kind |-> "tile", args |-> <<s.bm, s.bn, s.bk>>]>>
  \o (IF s.order = "ikj" THEN <<[kind |-> "interchange"]>> ELSE <<>>)
  \o <<[kind |-> "register_tile", args |-> <<s.mr, s.nr>>],
       [kind |-> "vectorize", args |-> <<s.width>>],
       [kind |-> "unroll", args |-> <<s.unroll>>]>>
  \o (IF s.packA \/ s.packB
        THEN <<[kind |-> "pack", a |-> s.packA, b |-> s.packB]>> ELSE <<>>)
  \o (IF s.distance > 0
        THEN <<[kind |-> "prefetch", args |-> <<s.distance>>]>> ELSE <<>>)
  \o <<[kind |-> "parallelize", args |-> <<s.threads>>], [kind |-> "tensorize"]>>

(* One operation of TransformProgram::replay.                              *)
ReplayOne(s, op) ==
  CASE op.kind = "match" -> s
    [] op.kind = "tile" ->
         [s EXCEPT !.bm = op.args[1], !.bn = op.args[2], !.bk = op.args[3], !.tiled = TRUE]
    [] op.kind = "interchange" -> [s EXCEPT !.order = "ikj"]
    [] op.kind = "register_tile" -> [s EXCEPT !.mr = op.args[1], !.nr = op.args[2]]
    [] op.kind = "vectorize" -> [s EXCEPT !.width = op.args[1]]
    [] op.kind = "unroll" -> [s EXCEPT !.unroll = op.args[1]]
    [] op.kind = "pack" -> [s EXCEPT !.packA = op.a, !.packB = op.b]
    [] op.kind = "prefetch" -> [s EXCEPT !.distance = op.args[1]]
    [] op.kind = "parallelize" ->
         [s EXCEPT !.threads = op.args[1], !.pinned = op.args[1] > 1]
    [] op.kind = "tensorize" -> [s EXCEPT !.fused = TRUE]

Replay(program, seed) ==
  LET schedule[n \in 0 .. Len(program)] ==
        IF n = 0 THEN seed ELSE ReplayOne(schedule[n - 1], program[n])
  IN schedule[Len(program)]

(* TransformProgram::apply.                                                *)
ApplyProgram(p, program, seed) == ApplySchedule(p, Replay(program, seed))

=============================================================================

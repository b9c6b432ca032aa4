-------------------------- MODULE ScheduledMatmul ---------------------------
(***************************************************************************)
(* A scheduled matrix product: a loop is built, from a schedule, by the    *)
(* passes or by a transform program; graph epilogues are inserted; and it  *)
(* is run by execute() of src/runtime.cpp, which has four kernels, or by   *)
(* LLVMJITBackend::benchmark of src/llvm_backend.cpp.  Both give each      *)
(* worker a range of rows of the output, and take no lock.                 *)
(***************************************************************************)
EXTENDS JitCodegen, Interpreter

CONSTANTS
  Problems,   \* records [m, n, k, bias, relu] with positive extents
  Schedules,  \* records of the fields of Schedule
  PassTiles,  \* arguments <<bm, bn, bk>> of the tiling pass
  PassWidths, \* arguments of the vectorising pass
  MaxPasses   \* bound: passes over one loop

ASSUME MatmulAssumption ==
  /\ Problems \subseteq [m : Nat \ {0}, n : Nat \ {0}, k : Nat \ {0}, bias : BOOLEAN, relu : BOOLEAN]
  /\ Schedules \subseteq AnySchedule
  /\ PassTiles \subseteq Int \X Int \X Int /\ PassWidths \subseteq Int

VARIABLES
  loop,       \* the LoopIR
  passes,     \* how many passes have run on it, until it is run
  asked,      \* history: the graph epilogues that were inserted, in order
  backend,    \* what runs the loop: "interpreter", "jit", or "none" yet
  output,     \* the terms of each element of the output
  pending,    \* the operations of its kernel each worker still has to do
  returned    \* the run is over

matmulVars == <<loop, passes, asked, backend, output, pending, returned>>

problem == loop.problem
plan == Analyze(loop)

-----------------------------------------------------------------------------
(* Building the loop.                                                      *)

(* LoopIR(p, s), and what the passes of --dump-ir start from.              *)
MatmulInit ==
  /\ \E p \in Problems :
       \/ \E s \in Schedules :
            \/ loop = ApplySchedule(p, s)
            \/ \E seed \in {DefaultSchedule, s} : loop = ApplyProgram(p, FromSchedule(s), seed)
       \/ loop = LowerToLoops(p)
  /\ passes = 0
  /\ asked = <<>>
  /\ backend = "none"
  /\ output = <<>>
  /\ pending = <<>>
  /\ returned = FALSE

(* A pass rebuilds the loop.  The code inserts graph epilogues only after  *)
(* the passes: a later pass would drop them with the old tree.             *)
RunPass ==
  /\ backend = "none" /\ asked = <<>> /\ passes < MaxPasses
  /\ passes' = passes + 1
  /\ \/ loop' = Interchange(loop)
     \/ \E tile \in PassTiles : loop' = Tiling(loop, tile[1], tile[2], tile[3])
     \/ \E width \in PassWidths : loop' = Vectorize(loop, width)
     \/ loop' = Fusion(loop)
     \/ loop' = Display(loop, 2)
  /\ UNCHANGED <<asked, backend, output, pending, returned>>

(* GraphCompiler::compile and specializeMLP: GELU, then the residual, and  *)
(* the loop is analysed again (verify_loop_ir accepts every such loop).    *)
InsertEpilogue ==
  /\ backend = "none"
  /\ \E kind \in {"gelu", "residual"} :
       /\ asked \in (IF kind = "gelu" THEN {<<>>} ELSE {<<>>, <<"gelu">>})
       /\ loop' = Analyzed(InsertEpilogueBeforeStores(loop, kind))
       /\ asked' = Append(asked, kind)
  /\ UNCHANGED <<passes, backend, output, pending, returned>>

-----------------------------------------------------------------------------
(* Running it.                                                             *)

Workers == IF backend = "jit" THEN 0 .. JitThreads(problem, plan) - 1 ELSE Team(problem, plan)

Start ==
  /\ backend = "none"
  /\ backend' \in {"interpreter", "jit"}
  /\ passes' = 0
  /\ UNCHANGED <<loop, asked, returned>>
  /\ output' = [e \in Elements(problem) |-> Stale]
  /\ pending' = [w \in Workers' |->
                IF backend' = "jit" THEN JitWork(loop, w) ELSE Work(problem, plan, w)]

(* A worker does its next operation.                                       *)
WorkerStep(w) ==
  /\ pending[w] # <<>>
  /\ pending' = [pending EXCEPT ![w] = Tail(@)]
  /\ LET op == Head(pending[w])
     IN output' = [e \in Elements(problem) |->
                     IF e[1] \in op.rows /\ e[2] \in op.cols
                       THEN Applied(op, problem, e[1], e[2], output[e]) ELSE output[e]]
  /\ UNCHANGED <<loop, passes, asked, backend, returned>>

(* The workers have been joined.  execute() applies the graph epilogues    *)
(* now (apply_explicit_graph_epilogues); generated kernels have done it.   *)
Return ==
  /\ backend # "none" /\ ~returned
  /\ \A w \in Workers : pending[w] = <<>>
  /\ returned' = TRUE
  /\ output' = [e \in Elements(problem) |->
                  output[e] \o IF backend = "jit" THEN <<>> ELSE GraphTerms(plan)]
  /\ UNCHANGED <<loop, passes, asked, backend, pending>>

Terminated == returned /\ UNCHANGED matmulVars

MatmulNext ==
  \/ RunPass \/ InsertEpilogue \/ Start
  \/ backend # "none" /\ \E w \in Workers : WorkerStep(w)
  \/ Return \/ Terminated

MatmulSpec == MatmulInit /\ [][MatmulNext]_matmulVars

-----------------------------------------------------------------------------
(* Whatever schedule, passes or program built the loop, and whichever      *)
(* backend runs it, the result is the reference result with the inserted   *)
(* graph epilogues last: every product once, with the right operands and   *)
(* in the order of reference(), no epilogue before the last product, none  *)
(* left out or applied twice, no row, column or tail forgotten, nothing    *)
(* left of an earlier result (ir.cpp, execute, build_module).              *)
ReturnsReference ==
  returned => \A e \in Elements(problem) :
                output[e] = Reference(problem, e[1], e[2]) \o asked

(* The operations that workers do at the same time write different         *)
(* elements, all inside the output: rows are divided without overlap and   *)
(* without running over the last row or column (execute and benchmark,     *)
(* which take no lock, and generated kernels, which do not read M).        *)
NoRace ==
  backend # "none" =>
    LET busy == {w \in Workers : pending[w] # <<>>}
        written(w) == Head(pending[w]).rows \X Head(pending[w]).cols
    IN \A w \in busy : /\ written(w) \subseteq Elements(problem)
                       /\ \A v \in busy \ {w} : written(w) \cap written(v) = {}

=============================================================================

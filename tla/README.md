# TLA+ models of SchedForge

SchedForge is a C++20 compiler and runtime for CPU kernels of neural networks:
a schedule DSL and a loop IR, an interpreter, an LLVM JIT, ahead-of-time
packages, graph, MoE, attention and decoder compilers, a paged key/value cache
and an autoscheduler. This directory holds TLA+ models of the parts of it where
concurrency, failure, ordering or boundary arithmetic decide whether a result is
right, the TLC configurations that check them, and proofs for TLAPS.

    tlc -config ThreadTeam.cfg ThreadTeam     # a run: module and cfg as PROJECT.json lists them
    tlapm ThreadTeamProofs.tla                # the proofs of a module

Every module names in its header the source it is translated from.
`PROJECT.json` maps each definition to the lines it models, lists the runs, the
theorems and the hazards of the code, and gives for every property a *mutant*: a
plausible bug in one definition that makes TLC find that property violated.
Definitions whose comment begins with "Mutant:" are those bugs; nothing else uses
them. Paths below are relative to the repository's `src/` directory.

## 1. Inventory

| Component | Source | State | Operations | Status |
|---|---|---|---|---|
| Thread teams | `runtime.cpp` 35-113 | `job_`, `generation_`, `completed_`, `stopping_`, three mutexes, two condition variables; the static team map | `thread_team`, constructor, `run`, `worker_loop`, destructor | modelled, proved |
| Interpreter | `runtime.cpp` 120-716 | the output matrix, packed panels | `execute` and four kernels, epilogues | modelled but for bf16/int8 and affinity; proved |
| Loop IR | `ir.cpp`, `generic_ir.cpp` | loop nest, cached execution plan | `apply_schedule`, passes, epilogue insertion, `specialize`, `analyze_loop_ir`, verifier | modelled but for the verifier and the SSA layer; loops, plans and their execution proved |
| LLVM JIT | `llvm_backend.cpp` | generated kernels, row ranges, mutex-protected kernel cache | three builders, `compile_kernel`, `benchmark` | modelled, proved |
| AOT packages | `aot_runtime.cpp` | a directory of files, a temporary directory, the loaded library | `create_aot_package`, `benchmark_aot_package`, `inspect_aot_package` | modelled, proved |
| Paged KV cache | `next_milestones.cpp` 470-609 | `length`, `page_table`, `free_pages`, page storage | make, append, truncate, release, gather, paged attention | modelled, proved |
| MoE | `moe_compiler.cpp` | routing trace, segmented tensor, tasks, shared arenas, atomic counter | route, dispatch, plan, execute, combine | runtime modelled, proved |
| Attention | `attention_compiler.cpp` | flat KV cache, partial states, output, atomic counter; plans | append, prefill, decode in three strategies; select, simulate, tune | modelled but for graph rewriting; runtime proved |
| Graph compiler | `graph_compiler.cpp` | tensor graph, dispatches, buffers with lifetimes, transform program, database | import, canonicalise, fuse, bufferise, specialise, replay, record | planning and transform programs modelled; planning proved |
| Decoder, plan optimiser | `decoder_compiler.cpp`; INT8 layer in `next_milestones.cpp` | packed weights, plan, candidates with latencies | compile, execute, reference, INT8 execution, optimise | modelled but for LLVM, paging and reports; proved |
| Compiler driver | `compiler.cpp` | schedule DSL, disk kernel cache, bucket dispatcher, memory plan | `compile`, `compileAndTune`, look up, store, dispatch, plan buffers | modelled but for estimates and malformed text; proved |
| Autoscheduler | `autoscheduler.cpp`, `target.cpp` | candidates, measured times | enumerate, prune, screen, measure, choose | modelled but for strategy comparison; proved |
| Cache simulator | `simulator.cpp` | a trace-driven estimate | estimate | not modelled |
| Tools | `main.cpp`, `tools/` | none | parse arguments, print | not modelled, but for the passes of `--dump-ir` |

**How they interact.** A tool builds a problem and a schedule; `apply_schedule`
makes a loop nest; the nest is either read back by `analyze_loop_ir` and run by
`execute` on the process-wide thread team of the wanted size, or compiled by the
LLVM backend, whose `benchmark` starts a thread per row range, or written to a
package by one process and loaded by another, the two meeting only in the file
system. MoE and attention do not use the teams: each run starts its own threads,
which share arenas or outputs and claim tasks from an atomic counter; MoE
experts run loops that `apply_schedule` built for a token bucket. Decode reads a flat
or a paged cache that earlier calls have filled. A decoder layer runs the loops of its
projections, an attention plan and a dense or an MoE FFN one after the other. The
compiler driver and the autoscheduler sit above the interpreter: they run candidate
loops and keep the schedules they chose in a directory that other processes share.

**What is hard, and what makes each part correct.**

* *Thread teams*: condition variables with spurious wakeups, notification after
  unlock, one job slot for all callers, a counter that wraps, destruction at
  exit. `run` must return exactly when every worker has run this call's job;
  no wakeup may be lost; calls and the destructor must end.
* *Interpreter, loop IR*: rows are divided without a lock, and tiles, panels and
  vector blocks leave tails of every kind. Whatever the schedule, the output is
  the reference's, each product once, the epilogue last and once.
* *LLVM run*: each thread has a kernel compiled for the height of its range and
  ignores the height at run time, so ranges and kernels must correspond, through a
  cache whose mutex is released while a kernel is compiled.
* *AOT packages*: crash between any two file-system calls, concurrent writers
  and readers, names that are resolved again after they were checked, calls that fail
  half way. A kernel is only called for the shape its caller validated; a published
  package stays unless a writer is stopped just while it replaces it.
* *Paged cache*: pages are recycled with the data of earlier tokens in them,
  lengths end inside pages, and `append` takes pages without a test of its own.
  The cache must be a plain sequence of tokens.
* *MoE*: a counting sort, chunks cut at segment ends, three ways to place tasks,
  unlocked arenas. The result must be that of `reference_moe`.
* *Attention*: splits and tiles with remainders or without keys, shared heads,
  two cache layouts. A row must see the keys of `reference_attention`, once.
* *Graph compiler*: patterns recognised by what uses a value, operands in either
  order, workspace slots shared by values. The graph must keep its meaning, no
  fused value may have an outside user, and values that are alive at once must
  not share bytes.
* *Decoder*: packed projections of three widths, grouped heads, four
  implementations of one layer. All must compute the same expression. The
  optimiser measures, ranks, confirms and may return to its baseline: what it
  reports must be the plan it returns.
* *Driver, autoscheduler*: files that are empty between their truncation and their
  write, processes that stop there, two uses of one name space of keys, which do not
  tell the epilogue. A hit must be a whole schedule that was kept for its extents;
  pruning must lose no distinct execution; the winner must be right and fastest;
  buffers in use together must be disjoint.

PROJECT.json lists under "hazards" the line at which each of these bites.

## 2. Modules

| Module | Models | Composes |
|---|---|---|
| `ForkJoin` | abstract: what a caller of `run` is promised | |
| `ThreadTeam` | `class ThreadTeam`, `thread_team` | implements `ForkJoin` |
| `ThreadTeamProofs` | its invariants and the refinement | |
| `KVSequence` | abstract: a cache is a sequence of tokens | |
| `PagedKV`, `PagedKVProofs` | the paged cache and paged decode | implements `KVSequence` |
| `RowPartition`, `RowPartitionProofs` | how `execute` divides rows; small helpers, and the lemmas that the other proofs cite: division, concatenation, recursion on `0 .. n`, the stable sort | used by most modules below |
| `StableOrder` | `std::stable_sort` by keys | |
| `LoopIr` | loops, passes, transform programs, `analyze_loop_ir` | `RowPartition` |
| `KernelOps` | element operations of kernels, epilogues, the reference | `LoopIr` |
| `Interpreter` | the four kernels of `execute` and its team | `KernelOps` |
| `JitCodegen` | the three kernels `build_module` generates, and their rows | `KernelOps` |
| `ScheduledMatmul`, `MCScheduledMatmul` | a loop that is built, transformed and run by either backend | `Interpreter`, `JitCodegen` |
| `OrcRows` | abstract parallel run of `LLVMJITBackend::benchmark`: ranges, kernels of their heights, stores | |
| `JitKernels` | the same run with the kernel cache and other threads | implements `OrcRows` |
| `AotPackage`, `AotPackageProofs`, `MCAotPackage` | package writer and reader | |
| `MoeRuntime`, `MoeRuntimeProofs`, `MCMoeRuntime` | one run of an MoE layer | `RowPartition` |
| `AttentionRuntime`, `AttentionRuntimeProofs`, `MCAttentionRuntime` | flat cache, prefill, decode | `RowPartition` |
| `GraphCompiler`, `GraphCompilerProofs`, `MCGraphCompiler` | import form to buffer plan of a tensor graph | |
| `DecoderLayer` | one layer: plan, reference, INT8, and its meaning | `RowPartition` |
| `AttentionPlans` | selection and simulation of attention plans | `RowPartition` |
| `PlanOptimizer`, `MCPlanOptimizer` | compiling, tuning, optimising and executing a layer; the proofs are in the second half of `PagedKVProofs` | `DecoderLayer`, `AttentionPlans`, `StableOrder` |
| `Autoscheduler` | the search and its choice; the schedule DSL | `Interpreter`, `StableOrder` |
| `CompilerDriver`, `MCCompilerDriver` | `compile`, `compileAndTune` and the disk cache | `Autoscheduler` |
| `CompilerProofs` | the proofs of `OrcRows`, `JitKernels`, `ScheduledMatmul`, `Autoscheduler` and `CompilerDriver` | |

No module uses a RECURSIVE operator, so that all of them can be proved about: what
the code computes by recursion over a list is a recursive function, the flattening of
a list of lists, a step per element, or stated by what it returns (a stable sort by the
place of each element). A decoder layer and the paged cache share a module of proofs
only because both belong to decoding.

### ThreadTeam

Each caller, each worker and the destructor has a program counter. A region that
is locked by `mutex_` is one action, because every access to its variables is
under that mutex; `dispatch_mutex_` and `teams_mutex` are held across several
steps and are variables. A wait on a condition variable is: test the predicate,
sleep, be woken by a notification or spuriously (`SpuriousStart`,
`SpuriousFinished`), test again. `Publish` is lines 59-64, `NotifyStart` line 65
(after the unlock), `TakeJob` 76-84, `Report` 86-90, `Finish` 67-68. `DropCopy` is
the end of the worker's scope at line 91: its copy of the job lives on after the
report, so `run` may return, and the next job be published, before it is destroyed.
`JoinIsComplete` therefore speaks of workers that have yet to execute or to report,
not of copies.
`generation_` counts modulo `MaxGeneration + 1`. `shares` is a history variable:
how often each worker ran the current job of each caller. The abstract
`ForkJoin` has one `phase` per caller and the `shares`; a caller is *served*
from the publication of its job to its return, and the refinement mapping reads
the phase off the program counter.

### PagedKV

`length`, `pageTable` and `freePages` are the members of the C++ structure, the
free list with its top at the end as in `pop_back`; `store` is the paged storage, one value
per token slot. Every operation either does all it does or throws;
`RejectAppend` and `RejectTruncate` are the throwing calls with arguments that
the code refuses. `status` and `view` are what the call returned. The refinement
reads the tokens through the page table.

### LoopIr, KernelOps, Interpreter, JitCodegen, ScheduledMatmul

A loop is kept as what its tree says: the order of the induction variables, their
steps, what `analyze_loop_ir` looks for in the body, the epilogue operations, and
the cached plan. `ApplySchedule`, the passes, `Replay` and
`InsertEpilogueBeforeStores` build and change it; `Analyze` reads the plan back.

A value of an output element is the *sequence of terms* that were added to it,
so a product that is left out, taken twice, taken in another order, or an
epilogue in the wrong place is visible. A kernel is the list of element operations
it performs on its rows: `Kernel` picks one of the four of `execute`,
`GeneratedKernel` one of the three that `build_module` generates, whose rows are
those it was compiled for, not those it is called with. `WorkerStep` does the next
operation of one worker. The packed panels hold indices. Init makes a loop from a
schedule, from a transform program replayed onto the default or onto the schedule
itself, or by lowering; `RunPass` and `InsertEpilogue` change it; `Start` picks
the backend. The vector constants of the code (8 lanes, 6 wide rows, micro rows
of 8, 12 accumulators, 256 micro-kernels) are CONSTANTS.

### OrcRows, JitKernels

`AddRange` is one turn of the loop that divides the blocks (726-734),
`CompileKernel` one turn of 735-745, `Invoke` and `RunKernel` a repetition of
`invoke`. `written` counts the stores to each row in the current repetition.
OrcRows is the specification: a range gets a kernel of its height, at once.
JitKernels replaces that step by `compile_kernel`: `LookUp` under the mutex,
a compilation that only `building` records, and `Emplace` under the mutex again,
with other threads that do the same for loops of their own, or fail.

### AotPackage

The file system maps names to directories and directories to files; a directory
keeps its contents when its name is taken away, as POSIX has it. Each file-system
call of `create_aot_package` is one action: open, write, link, rename, each
removal inside `remove_all`. A file is what it was made from, or `Torn`.
`remove_all` lists a directory (`OpenForRemoval`), unlinks what it has listed, and
removes the directory by name, which fails when another thread has put a file there
since. Any call may fail by itself, too: `Fail` for the files, the linker and the
checksums, `RemovalFails` for each of the three calls of `remove_all`, wherever it
has got to, `RenameFails`, and `CreateFails`. Inside the try block a failure is
`Throw` and leads to the catch clause; outside it, and in the catch clause itself, it
ends the call. `WriteShort` is the loss of the last buffer
that the code does not notice, `Crash` the death of a process. A reader resolves
the path by name at every step, as the code does. `CreateTemporary` takes a
directory that no name and no open handle uses; there is always one
(`FreshExists` in the proofs). A reader calls the kernel it loaded only if the
image is whole, was compiled for this machine and has the shape of the manifest.

### MoeRuntime

Routing picks any `TopK` different experts per token. `AddOffset`,
`BeginDispatch`, `DispatchRoute` are the three loops of `dispatch_tokens`;
`PlanExpert` is one turn of `plan_moe_tasks`, and `StartWorkers` its stable sort and
the start of the threads: `Sorted` puts a task behind those that are larger, or as
large and before it. `StealTask` is the atomic counter, `NextOwnTask`
the fixed placement. A task is two actions, `Widen` and `Narrow`, since other
workers run between them. An activation records its expert and token and a
result its expert and activation, so weights of the wrong expert or rows of
another token show in the output. After `Join`, `CombineRow` adds one row of the
arenas to its token and `Return` ends the run. `traced` distinguishes the overloads of
`execute_moe`: only the one that is given a trace compares it with the guard.

### AttentionRuntime

An online softmax state is the sequence of the keys it has seen: rescaling
changes a state's representation but loses no term, and a state's maximum is
finite exactly when it has seen a key, which is what `merge_online` tests.
`AppendKV`, `Prefill` and `Decode` are calls; `Claim` is the counter,
`StorePartial` and `StoreRows` are the two kinds of task, `MergePart` is one turn of
the loop that merges the parts of the rows, and `Return`, when the result is to be
validated, throws if `reference_attention` refuses the runtime shape. `Rejected` are calls that the guards refuse.

### GraphCompiler

The passes run in the order of `GraphCompiler::compile`. `Canonicalize` is one
step, since nothing happens between its parts; `FormDispatch` is one turn of the
loop of `FusionPlanner`, `PlanBuffers` the first loop of `GraphBufferizer` and
`PlaceBuffer` one turn of its second. `Specialize` is `specializeMLP`: it fixes
the symbolic rows and plans the buffers again, over the old dispatches. Each
operation but the return has one output, so values and operations share an
index, and a buffer is kept under its value. `TypeAt` and `MeaningAt` say what a node
makes of its operands, `TypesOf` and `Meanings` are the recursive functions they define.
`Users` are the uses of a value but the return, one for each operand.
`Meaning` is the expression a graph computes, with addition commutative.
Each graph of the run is one initial state, and its passes are deterministic.

### DecoderLayer, AttentionPlans, PlanOptimizer

A tensor is a function from flat indices to expressions. `ExecuteOnce` and
`ExecuteInt8` follow the index arithmetic of the two implementations;
`LayerMeaning` says what a layer is without flat arrays. `reference_decoder_layer`
packs, splits and merges with the helpers of `execute_once`, so a comparison with it
could not show a wrong offset; both are judged by `LayerMeaning` instead. An MoE
FFN is the function of the normalised rows that MoeRuntime models. AttentionPlans
has `select_attention_plan` and the integer counts of `simulate_attention`.
PlanOptimizer is one call: a plan is compiled, tuned or optimised, with every
outcome of the measurements, and executed. `Score` is `evaluate` in integers, its
L2 term rounded down.

### Autoscheduler, CompilerDriver

A schedule text is the sequence of its commands. `files` is the directory;
`Open` truncates the next file of a call and `Close` writes it, so other processes
and `Crash` come in between. `Compile` stores a schedule and two artifacts, which
nothing in the library reads back. Callers have graphs of any epilogue (`Graphs`);
the dispatcher makes problems of the buckets with both operations; `Key`, as the
code's, has the extents and the text of the schedule only, so that graphs with
different epilogues meet in one file. `Tune` is a hit or begins a search, which is
`Screen`, `Measure` and `Keep`. These three touch nothing another process sees, so
`Alone` lets them follow each other at once. `WorkOf` is the work of `execute` from
`Interpreter`: pruning is judged by what the workers would do, not by the fields
of schedules.

## 3. Runs

| Run | Bounds | Distinct states | Shows |
|---|---|---|---|
| ThreadTeam | 2 callers, 3 workers, generations 0..2 | 56 390 | safety, refinement of `ForkJoin`, calls and teardown end |
| PagedKV | pages of 2 tokens, capacity 5, guard 4, queries up to 3 | 1 620 | page invariants, refinement of `KVSequence` |
| ScheduledMatmul | 3 problems with rows 1, 3, 5, columns 1, 4, 7, depth 1..3; 50 schedules, up to 4 passes, programs, 2 epilogues; both backends, 1 to 4 threads | 100 448 | result of every loop, rows apart |
| JitKernels | rows 1, 2, 3, 5, 7, 8, grains 1..4, 1, 2, 3, 4 or 8 threads, 2 other threads | 47 284 | one kernel per loop, refinement of `OrcRows` |
| AotPackage | 2 writers in one process, 1 in another, 1 reader, 2 calls, 1 fault | 1 866 392 | package safety |
| MoeRuntime | 0, 2, 3 tokens on a plan for 2; top 2 of 3 experts; 6 schedules | 2 038 080 | dispatch, tasks, arenas, result |
| AttentionRuntime | 3 shapes, 5 plans, up to 3 queries and 5 keys, appends of 1..3 tokens | 629 663 | cache layout, rows, exclusive stores |
| GraphCompiler | 32 MLPs, 14 336 programs of 5 operations, the mini attention graph | 221 425 | fusion, buffers, normal form |
| DecoderPlans | 4 layers that run, 4 long ones that are planned, 4 imported graphs, 3 latencies, up to 4 processors | 57 778 | meaning of a layer, optimiser, simulator |
| CompilerDriver | 3 calls of 2 processes, 2 graphs and a dispatched problem, 2 options, 2 schedules, 2 candidates, 2 times | 1 753 010 | disk cache, search, pruning, memory plan |
| GraphMeaning | the MLPs, and two with a computed input or another residual | stops at the violation | finding 1 |
| GraphLifetimes | the MLPs and the mini attention graph | stops at the violation | finding 2 |

**Why these bounds are enough.** Two callers are the fewest that contend for a
team; with three workers one can be first, one last and one between; three generation values
are the fewest at which the counter wraps while a worker could still be one
behind. A capacity of five with pages of two leaves a last page partly usable
and three pages to recycle. Extents are chosen coprime to the tiles, so every
loop has full blocks and tails, and thread counts exceed blocks and tasks; the
limits of the register kernels are scaled down with the extents, so that loops
fall on both sides of each. Two other threads are enough to hit, to miss and to lose
the race for one key with this run.
Three tokens make segments that thresholds 0, 1 and 2 split in every way, and
exceed the compiled two. Five keys in three parts leave a remainder, one or two keys in
three parts leave an empty one; lengths run from one to the capacity. In
AotPackage the path may hold an imported package at the start, so that two calls
replace a package twice while a reader is between two of its steps; they may be
calls of one writer, of two threads of a process or of two processes. The one fault
is a death, a short write, or an error of a removal or the rename; `Fail`, which only
leads to the catch clause, is not bounded. Five
operations on three leaves allow two dispatches with every kind of operation
between and after them and a third that follows; a slot is reused when three
values are handed over. The decoder layers have grouped heads, an odd head
dimension, cached keys and two batches, each dimension different from its
neighbours in at least one of them; three latencies order three plans in every way.
Three calls are two writers of one file and a reader, or a writer that dies,
its successor and a reader; two graphs of the same extents and another epilogue share
their keys, and the dispatched problem differs from them in `k` only. The space that
is searched has schedules that `valid` refuses and several of each execution key.

CompilerDriver uses the symmetry of its processes, and AotPackage that of the two
threads of one process together with what they package; that is sound as these runs
check invariants only. Deadlock is checked in all runs but AotPackage and DecoderPlans,
which stop because the number of calls is bounded. Elsewhere the end of a program
is an explicit stutter, so a deadlock is a real one.

**Fairness.** Only ThreadTeam has liveness properties. `FairSpec` assumes weak
fairness of each caller inside the library, each worker and the destructor: the
operating system runs every runnable thread, and jobs return. It does not assume
that a caller ever calls or that the program ever exits, nor that a mutex is
handed out fairly, nor anything of spurious wakeups. That is why
`CallsMakeProgress` promises a return to calls whose job is published but only
overall progress to those that wait for the lock.

## 4. Proofs

| Module | Theorems |
|---|---|
| `ThreadTeamProofs` | `TypeCorrect`, `JoinCorrect`, `CopyCorrect`, `WakeupCorrect`, `RefinesForkJoin` |
| `PagedKVProofs` | of `PagedKV`: `TypeCorrect`, `AllocatorCorrect`, `TableCorrect`, `PartitionCorrect`, `RowsCorrect`, `RefinesKVSequence`; of `PlanOptimizer`: `PlansAreCompiled`, `TheWinnerIsReported`, `CanonicalGraphsCompileAgain`, `SimulationCountsVisibleTiles`, `ExecutionsKeepMeaning` |
| `RowPartitionProofs` | `RowsDisjoint`, `RowsCover` |
| `CompilerProofs` | of `OrcRows`: `TypeCorrect`, `RangesCorrect`, `RunsCorrect`; of `JitKernels`: `JitRefinesOrcRows`, `KernelsAreShared`, `JitRowsCorrect`; of `ScheduledMatmul`: `WorkersKeepToTheirRows`, `WorkersDoNotRace`, `KernelsReturnReference`; of `CompilerDriver`: `DriverIsConsistent`, `HitsGiveBackWhatWasKept`, `TheBestIsTuned`, `PruningLosesNothing`, `LiveBuffersNeverOverlap` |
| `AotPackageProofs` | `Invariance`, `CallsWhatItValidated`, `NeverMixed`, `StaysPublished`, `LeavesNoTemporary` |
| `MoeRuntimeProofs` | `Invariance`, `SegmentsHold`, `TasksPartition`, `SlicesExclusive`, `ReturnsTheReference` |
| `AttentionRuntimeProofs` | `Invariance`, `LayoutKept`, `RowsAreTheReferences`, `StoresApart` |
| `GraphCompilerProofs` | `Invariance`, `MlpKept`, `DispatchesClosed`, `BytesKept` |

They hold for every value of the constants that meets the named assumptions in
the modules. These say that counts are positive, that placeholder values (`Nothing`,
`Torn`, `Absent`, `Zero`) are not among the real ones, and what the code checks
itself: `validate_config` for attention (`ConfigsAssumption`), at most as many choices
as experts (`ExpertsAssumption`), the kinds of plans and schedules. AotPackage assumes
finitely many writers and that a temporary name is not the path. `CallsAssumption` is
what the decoder's `validate` and `validate_config` accept. `RegistersAssumption` says
that a vector register holds more than one element, and `SpaceAssumption` that the
arrays of `search_space` hold positive numbers (packing modes and prefetch distances may
be zero). `RequestAssumption`: what `compile` is asked for is tiled and has no negative
outer tile, for which the sizes of the packed buffers would wrap. Its callers are
`tools/schedforge-opt.cpp:18`, with a schedule from `ScheduleDSL::parse`,
`graph_compiler.cpp:1318`, with the schedule of a dispatch, and
`tests/test_schedforge.cpp:159`; none of them clears `tiled`. `MatmulAssumption`
and `DriverAssumption` say that extents, times and repetitions are positive; widths, tiles
and thread counts of schedules and passes are any integers. `WellFormed` says of an
imported graph what `addOperation` guarantees: operands come before their node, and the
kinds with a shape rule have the operands it reads. No bound of a run is assumed.

*ThreadTeam.* `JoinIsComplete` is not inductive: that all shares are taken
follows from `completed_`, so the invariant must say what `completed_` counts.
`IInv` adds: only one caller is between lock and return, and it holds
`dispatch_mutex_`; the job slot holds that caller or nothing; each worker is one
of *behind* (its observed generation differs and its share is open), *working*,
or *reported*, the last whether or not it still has its copy of the job; and `completed_` is the number of workers that have reported
(`CompletedCounts`, by cardinality). A worker cannot be a whole cycle behind,
because the next publication waits for its report; that is why the wrap of
`generation_` is harmless, down to a counter of two values.
The refinement uses that a step moves the phase of at most one caller and that a
`Finish` finds all shares taken.

*PagedKV.* `PagesPartitioned` alone is not inductive under truncate and append,
because nothing relates the number of pages in the table to the length.
`StackDiscipline` strengthens it: append pops and truncate pushes at the same end
of the free list, so the table and the list are at all times the two parts of
one fixed order of the pages, divided at `PagesFor(length)`. Append and truncate
move the boundary and nothing else, so pages are never lost, duplicated or
short; and `release_page` never finds a page it could release.
The refinement of `KVSequence` rests on the same order: the table for fewer tokens
is a prefix of the table for more, and different tokens have different slots. So an
append leaves every older token in its slot and puts each new one in a slot of its
own, and truncate keeps the tokens it does not cut.

*OrcRows.* The loop's cursor has a closed form: after `i` ranges it has passed
`i` quotas and `min(i, extra)` extra blocks (`RangeEnd`). With it the ranges are
consecutive and end at the last row, and the heights for which kernels are
compiled are the heights of the ranges. The division facts are in
`RowPartitionProofs`.

*JitKernels.* `CacheInv` says that the cache holds at most one kernel of a loop and
every kernel that was handed out, which is one of the loop that was asked for:
entries are never removed, so a second caller gets the first one's kernel.
`BuildInv` says that what this run compiles is the loop of its next range, with its
height. So `LookUp` and `Emplace` of this run are `CompileKernel` of OrcRows and
every step of another thread is a stutter; `RowsWrittenOnce` then carries over from
OrcRows.

*RowPartition.* The rows of two workers are disjoint and every row has a worker,
for all extents and thread counts.

*AotPackage.* None of the four properties is inductive, because file-system calls of
several writers come between. `NamesInv` says that no two names share a directory, not
even one that a writer is still emptying; it needs that `CreateTemporary` takes a fresh
one, which exists because there are 2·|Writers| + 1 directories and each writer keeps
at most two in use besides the published one. `OwnerInv` gives each temporary directory
a writer that is *responsible* for it, one that is between creating and renaming it, or
that is in the catch clause and has listed all that is in it: so none is left when all
calls of a process have ended, unless it was *abandoned* by a death or by an error in
the catch clause. It needs that a file somebody writes is there (`OpenInv`), so that
nothing appears in a directory that is being removed but by a responsible thread. When
no two writers share a process, the directory of a writer is its own (`DirectoryInv`)
and `ProgressInv` says which files it has finished; so what is renamed is whole.
`StayInv` names the witness for a moment without a package: a writer between
`remove_all` and `rename`. A writer that leaves these two steps otherwise than by the
rename takes `published` back if the old package was going or gone (`Replacing`).
`ReadInv` is about what a reader has *read*, not about the
files, which may be others by then; that is enough for `CalledForItsShape`.

*MoeRuntime.* The invariant follows the phases. Counts are cardinalities of sets of
routes (`Assigned`), so offsets are the numbers of routes to lower experts, and the
counting sort has filled of each segment a prefix, in the order of the routes
(`Placed`); a sort that has placed every route has filled every segment, since the
counts are the same. The tasks cut so far partition the segments of the experts
planned so far (`Partitioned`), and the stable sort permutes them. `TakenOnce` and
`TakesTurns` hold for the counter and for fixed placement alike: two busy workers have
different tasks, hence disjoint slices. A task that is *finished* has its results in the
arena (`Narrowed`), and joined workers have finished all. `CombineInv` says that the
sum of a token has the terms of exactly the rows combined so far; at the end these are,
by the bijection, its slots.

*AttentionRuntime.* A state of the online softmax is the sequence of the keys seen, so
the claim is that it is a prefix of the lane's keys, up to the causal limit of the row
(`Prefix`). `CacheInv` keeps the layout under append with a stride other than the
length; `ShapeInv` says that `keys` has the runtime stride. A claimed task is held by
one worker or stored (`StoredInv`), each with `PartOf` its own split. The splits of a
row are consecutive, also where `splits` does not divide the keys or exceeds them, so
merging in order extends the prefix (`MergeInv`), an empty part included, and ends at
the last key.

*GraphCompiler.* `GraphInv`: the graph is the imported one or its normal form.
`DispatchInv`: a dispatch is an interval of operations, each but the last with the next
for its only user, and intervals lie in the order they were formed; behind `index` every
product is in one. Closure follows, since an outside user would be a second user.
`SlotsInv` and `PlacesInv`: slots do not overlap, a buffer fits its slot, and the buffers
in one slot have lifetimes one after the other. Lifetimes are indices of dispatches while
`LiveAt` is in terms of operations; the two agree for values computed and used in
dispatches, because roots increase with the index (`TouchedInTime`, `DeadBefore`). Where an
operation outside all dispatches uses a value they do not, which is finding 2. For
`MlpKept`, `MlpIs` lists what the recogniser has found and `CanonicalIs` what the builder
made of it; `CanonicalMeans` compares the two node by node. Types and meanings are
recursive functions; that they satisfy their equations (`TypesOfIs`, `MeaningsAre`) is
proved by a least counterexample.

*ScheduledMatmul.* Arithmetic is symbolic here too: an element is the sequence of terms that
went into it. `Makes` follows one element through a list of operations, and `Fills` says
of a list that it writes rows of R and columns of C only, and what it makes of the
elements there. Loops are shown once: over ranges that divide the rows or the columns
(`FillsRows`, `FillsColumns`; each element is in one range, and the other iterations leave
it alone) and over ranges of the reduction (`FillsChain`; each iteration continues where
the one before stopped). With these each of the seven kernels is followed through its
tiles, packed panels, micro-kernels, vector blocks and tails (`KernelFills`,
`GeneratedFills`): whatever was in its rows, they end as all products in the order of `k`
with the epilogue behind them.

Then the loops. `LoopOk` says what every schedule, pass, replay and lowering preserves:
the steps of a loop and the sizes of its cached plan are positive, whatever integers the
schedule has, and the cached plan is the one its tree gives. `Told` says that the graph
epilogues in the tree are those that were inserted. `MatmulInv` adds that what a worker
still has to do is in its rows, which are apart (`RowsDisjoint` for `execute`, the closed
form of `OrcRows` for the JIT): hence `NoRace`. `ResultInv` adds that what is left for a
worker makes of each of its elements what the kernel promises: true at the start by
`Fills`, kept by a step of the worker (`RestMakes`) and, since rows are apart, by a step
of any other. At the end nothing is left, every row is some worker's, and the graph
epilogues come last: hence `ReturnsReference`.

*Autoscheduler.* A tiled schedule comes back from its text (`TextKeepsSchedule`), field by
field in the order of the commands. For pruning, schedules with one key give the same work
on every problem; the flag *tiled* may differ between them, but then the tiles have all rows
and columns, and one such tile is the untiled loop. The key of each valid schedule of the
space is that of a candidate, since `autoschedule` keeps the first of each key, so no distinct
execution is lost. `Best` is a recursion over the finalists: up to each place it is a right
one, unless there is none, and no right one has a smaller median.

*CompilerDriver.* `DriverInv` says of each schedule file that it is empty or the whole text
of a schedule that was kept under its key, and the same of what a process has still to
write: so any interleaving of truncations, writes and deaths leaves files that a hit may
replay. A key tells the extents of its problem (`SameExtents`) and nothing of the
epilogue, so that is what a hit is promised. A process that has ranked or measured holds
an order and medians of its own candidates for its own request. The memory planner adds
buffers one by one: `ArenaInv` says that each is behind all earlier ones, or in the place
of one that is over before it is used, which only the packed A can be.

*PlanOptimizer.* `PlanInv`: every plan in hand is what `compile` makes of a policy and an
attention plan; the tuner has measured its rows up to its next one; the winner is a row
that was measured, whose policy the plan has. So what the comparison reports is what the
winner's row shows: the median after a confirmation, the measurement without one. For the
simulator, the visible tiles of the model are counted as those that are not hidden, and
scores query by query.

*The decoder layer.* `ExecutionInv` is `LayerKeepsMeaning` and which calls reach an
execution; its step for `Execute` follows an element through both implementations.
An index of a head-major tensor has unique coordinates (`HasCoordinates`), and a column of a
packed weight is the column of exactly one of its parts (`OnlyColumnOf`), so splitting the
projection gives the heads. Rows are then followed through normalisation, projection,
rotation, the cached keys, causal attention, merging of heads, the first residual and
either FFN. Grouped heads need that `kvHeads` divides `heads` (`GroupIs`), which the code validates.

**Only model-checked.** Liveness of the teams, which is outside the prover's reach. Every
other property that a passing run checks is a theorem.

## 5. Findings

1. `docs/ARCHITECTURE.md:71` says that `GraphCanonicalizationPass` "normalizes
   framework-level patterns such as the Transformer MLP". The MLP is rebuilt from
   five leaves (`graph_compiler.cpp` 352-371). When the input of the first product is
   computed, as in a pre-norm block, its computation is dropped and it becomes an
   input of the graph; when the residual is none of the leaves, the input of the
   first product is added in its place. Run GraphMeaning shows it;
   `CanonicalKeepsMlp` says for which graphs the pass is right.
2. `docs/ARCHITECTURE.md:76` says that `GraphBufferizer` "reuses an aligned
   workspace according to lifetime intervals". An interval counts uses by
   dispatches only (723-731), and a transposition or a softmax is in no
   dispatch. Run GraphLifetimes: in `build_mini_attention_graph` the values take the bytes
   of the keys before the transposition has read them.
   `LiveValuesKeepTheirBytes` holds for values that only dispatches use. No
   executed code reads the offsets of such a plan today.

Observations made while modelling, which no run states as a property:

* `docs/MOE_COMPILER.md:86` promises a token count "guarded by a compiled
  maximum". The overload of `execute_moe` that routes its own input
  (`moe_compiler.cpp` 725-758) does not compare. The result is right all the same:
  `ReturnsReference` covers three tokens on a plan for two.
* `docs/ATTENTION_COMPILER.md:114`: decode "accepts any cache length within the
  compiled `Sk` guard", but a causal plan with more queries than cached tokens
  (`attention_compiler.cpp` 973) divides by zero and throws after the run if it
  validates.
* An error of `remove_all(path)` or of `rename` (`aot_runtime.cpp` 301-302) leads to the
  catch clause, which removes the new package when the old one is already partly or
  wholly gone: the package is lost without a crash. No document promises otherwise;
  `PublishedStays` excepts it.
* A schedule file that a process leaves empty parses to the default schedule, and
  every later `compileAndTune` with the same options is a hit: it is never tuned
  again. That is the second case of `HitsReplaySchedules`. For the same reason a
  schedule given to `compile` that equals the stand-in for the options of a search
  is replayed by that search as if it had been tuned. The key tells neither the
  epilogue of a problem nor a tiled from an untiled schedule: a graph without ReLU gets
  the schedule that was tuned for the graph with it, or the other way round, and
  `compile` overwrites the `.ll` of the other. The result is that of the graph's own
  epilogue all the same, since the loop of a hit is built for the graph at hand.
* `execution_key` drops `bk` and `unroll_k` for register kernels; `PruningIsLossless`
  shows that nothing is lost. Schedules with `mr = 16` always exceed the 16 registers.
* `GraphCompiler::compile` replays a transform program onto a default schedule:
  it becomes tiled and fused, pinned if it has threads, and `ijk` becomes `ikj`.
  `specializeMLP` replays onto the schedule of the dispatch. Both give the reference result.
* A pass that rebuilds a loop drops epilogues inserted before it and clips tiles at
  the extents; nothing in the repository runs one after the insertion.
* `docs/LOOP_IR.md:39` says of epilogue operations that "their position in the operation tree
  matches their execution semantics". In the scalar fused `ikj` nest the tree has
  them twice, and in unfused nests behind the loops; `execute` applies them once.
* The optimiser lists the baseline policy twice, and the row of a duplicate that was
  not measured gets the confirmed latency.
* A decoder layer with cached context computes its own keys and values but attends
  only to the cached ones; the reference does the same. An imported graph is
  only checked for its patterns; what is compiled is the canonical layer.

## 6. Abstractions and what is not modelled

* Values are provenance, not floating point: sums are compared term by term, and
  for MoE and split-KV up to the regrouping the code does. Rounding is outside
  the models; so are NaN logits, which would make the comparison of the router's
  `partial_sort` (`moe_compiler.cpp` 444) no strict weak order.
* Sizes are unbounded integers. The `int` additions in guards would wrap only
  near 2^31, `generation_` after 2^64 calls.
* `analyze_loop_ir` writes the cached plan through a const reference (`ir.cpp` 358).
  Two threads that run one loop whose plan is not yet computed would race; no code
  of the repository does: every builder analyses the loop before it is shared.
* The JIT's kernels are modelled as what their builders emit; the LLVM passes,
  prefetch, unrolling and affinity change no value that the models tell apart, if
  they are right. Checking them needs the semantics of LLVM IR.
* Failure to start a thread (`std::system_error`) is not modelled, nor a job that
  calls `run` on its own team, which nothing in the repository does.
* Cost models, the cache simulator and benchmarks produce floating-point
  estimates or measured times. Where one decides (tuner, optimiser, autoscheduler) the
  model takes every outcome; the others decide nothing.
* `compare_search_strategy` and `write_experiment_csv` only report throughput.
* The quantised GEMM and Conv2D kernels, tuning transfers and the fuzzers are
  numeric loops whose threads are joined at once; the bf16 and int8 loops of
  `runtime.cpp` have the structure of the modelled ones.
* The text of IR dumps, malformed schedule text, MLIR import beyond the operations of
  the modelled graphs, rank-4 graphs and the SDPA rewriting are not modelled.
* The hash in a key is taken to be what is hashed: collisions are not modelled.
* The `fuse_*` flags of the MoE schedule and the preferred worker of a task are
  written but not read by the executed code.

## 7. Plan

Done, in order of importance: thread teams, paged cache, interpreter, LLVM rows,
packages, MoE runtime, attention runtime, graph planning, each with its proofs;
then loops, passes and transform programs, the JIT's kernels and cache, the
decoder with its optimiser, the compiler driver and autoscheduler. What is left:

1. The other half of the graph compiler: structured lowering, rank-4 graphs with
   attention fusion and the measurement database (`graph_compiler.cpp` 390-428,
   959-1045).
2. Composition: the attention strategies over the paged cache instead of the
   flat one; `execute` as the job of a `ForkJoin`.

------------------------------ MODULE OrcRows -------------------------------
(***************************************************************************)
(* The parallel run of an LLVM kernel: LLVMJITBackend::benchmark of        *)
(* src/llvm_backend.cpp.  A kernel is compiled for a fixed number of rows  *)
(* (the register-tiled one ignores its argument M), so the rows of the     *)
(* output are cut into ranges that start at a multiple of the micro-kernel *)
(* height, a kernel is compiled for the height of each range, and each     *)
(* repetition runs every kernel in a thread of its own, without a lock.    *)
(***************************************************************************)
EXTENDS RowPartition, Sequences

CONSTANTS
  Extents,     \* values of loop.problem.m
  Grains,      \* values of row_grain: mr of a vector kernel, 1 otherwise
  Requests     \* values of execution.threads

ASSUME ExtentsAssumption == Extents \subseteq Nat \ {0}
ASSUME GrainsAssumption == Grains \subseteq Nat \ {0}
ASSUME RequestsAssumption == Requests \subseteq Nat \ {0}

VARIABLES
  m,           \* loop.problem.m
  grain,       \* row_grain
  threads,     \* thread_count
  ranges,      \* row_ranges
  kernels,     \* kernels: how many rows each thread's kernel computes
  todo,        \* the threads that still run in this repetition (from 1)
  written      \* history: how often this repetition has stored each row

vars == <<m, grain, threads, ranges, kernels, todo, written>>

Threads == 1 .. threads
AllRows == 0 .. m - 1

FullBlocks == m \div grain
TailRows == m % grain

Init ==
  /\ m \in Extents
  /\ grain \in Grains
  /\ \E request \in Requests : threads = Clamp(request, 1, CeilDiv(m, grain))
  /\ ranges = <<>>
  /\ kernels = <<>>
  /\ todo = {}
  /\ written = [r \in AllRows |-> 0]

(* row_cursor: where the next range begins. *)
Cursor == IF ranges = <<>> THEN 0 ELSE ranges[Len(ranges)].end

(* How many rows thread i gets: whole blocks, one more for the first few   *)
(* threads, and the tail for the last.                                     *)
Height(i) ==
  (FullBlocks \div threads + (IF i - 1 < FullBlocks % threads THEN 1 ELSE 0)) * grain
  + (IF i = threads THEN TailRows ELSE 0)

AddRange ==
  /\ Len(ranges) < threads
  /\ ranges' = Append(ranges, [begin |-> Cursor, end |-> Cursor + Height(Len(ranges) + 1)])
  /\ UNCHANGED <<m, grain, threads, kernels, todo, written>>

(* compile_kernel(loop.specialize(problem)) with problem.m = end - begin.  *)
CompileKernel ==
  /\ Len(ranges) = threads
  /\ Len(kernels) < threads
  /\ LET range == ranges[Len(kernels) + 1]
     IN kernels' = Append(kernels, range.end - range.begin)
  /\ UNCHANGED <<m, grain, threads, ranges, todo, written>>

(* invoke(): the next repetition starts when the threads of the last one   *)
(* have been joined.  A thread without rows is not started.                *)
Invoke ==
  /\ Len(kernels) = threads
  /\ todo = {}
  /\ todo' = {i \in Threads : ranges[i].begin < ranges[i].end}
  /\ written' = [r \in AllRows |-> 0]
  /\ UNCHANGED <<m, grain, threads, ranges, kernels>>

(* The rows the kernel of thread i stores. *)
RowsStored(i) == ranges[i].begin .. ranges[i].begin + kernels[i] - 1

RunKernel(i) ==
  /\ i \in todo
  /\ todo' = todo \ {i}
  /\ written' = [r \in AllRows |-> written[r] + IF r \in RowsStored(i) THEN 1 ELSE 0]
  /\ UNCHANGED <<m, grain, threads, ranges, kernels>>

Next == AddRange \/ CompileKernel \/ Invoke \/ (\E i \in Threads : RunKernel(i))

Spec == Init /\ [][Next]_vars

-----------------------------------------------------------------------------
TypeOK ==
  /\ m \in Extents /\ grain \in Grains /\ threads \in Nat \ {0}
  /\ ranges \in Seq([begin : 0 .. m, end : 0 .. m]) /\ Len(ranges) <= threads
  /\ kernels \in Seq(Nat \ {0})
  /\ todo \subseteq Threads
  /\ written \in [AllRows -> {0, 1}]

(* The ranges are consecutive, none is empty (so every thread has a kernel *)
(* and kernels.front() exists), each starts at a whole micro-kernel, and   *)
(* together they end at the last row: "MR-aligned disjoint row partitions" *)
(* of docs/ARCHITECTURE.md, with the tail in the last one.                 *)
RangesDivideRows ==
  /\ \A i \in DOMAIN ranges :
       /\ ranges[i].begin = IF i = 1 THEN 0 ELSE ranges[i - 1].end
       /\ ranges[i].begin < ranges[i].end
       /\ ranges[i].begin % grain = 0
  /\ Len(ranges) = threads => ranges[threads].end = m

(* The kernels of a repetition stay within the output and never store a    *)
(* row twice; when all have run, every row has been stored once.           *)
RowsWrittenOnce ==
  /\ \A i \in todo : RowsStored(i) \subseteq {r \in AllRows : written[r] = 0}
  /\ \A i, j \in todo : i # j => RowsStored(i) \cap RowsStored(j) = {}
  /\ todo = {} => (\A r, s \in AllRows : written[r] = written[s])

=============================================================================

--------------------------- MODULE CompilerProofs ---------------------------
(***************************************************************************)
(* The compiler and the code it runs.                                      *)
(*                                                                         *)
(*   - The parallel run of LLVMJITBackend::benchmark, for every extent,    *)
(*     micro-kernel height and thread count (OrcRows), and the kernel      *)
(*     cache under it, for every set of other threads and every loop they  *)
(*     compile (JitKernels): the row ranges divide the output, the run     *)
(*     with the cache refines the one without, and callers share one       *)
(*     kernel for each loop.                                               *)
(*   - Schedules and their text, and the search over them                 *)
(*     (Autoscheduler): a schedule survives printing and parsing, and      *)
(*     pruning keeps every distinct execution.                             *)
(*   - A scheduled product (ScheduledMatmul), for every problem, schedule  *)
(*     and order of passes: every worker keeps to its own rows, and the    *)
(*     result is the reference result, products and epilogues in order.    *)
(*   - The driver (CompilerDriver), for every set of processes, shapes,    *)
(*     search options and measured times: the buffers it plans do not      *)
(*     overlap, a schedule read back is one that was kept, and what is     *)
(*     kept is the best of what was measured.                              *)
(***************************************************************************)
EXTENDS JitKernels, CompilerDriver, ScheduledMatmul, RowPartitionProofs,
        WellFoundedInduction

(***************************************************************************)
(* OrcRows.  The loop that makes the ranges carries a cursor; the          *)
(* inductive invariant gives its value in closed form.                     *)
(***************************************************************************)
Quota == FullBlocks \div threads
Extra == FullBlocks % threads

(* How many whole blocks the first t threads get, and where they end. *)
BlocksBefore(t) == t * Quota + Least(t, Extra)
RangeEnd(t) == IF t = threads THEN m ELSE BlocksBefore(t) * grain

Sizes ==
  /\ m \in Extents /\ grain \in Grains
  /\ threads \in Nat \ {0} /\ threads <= CeilDiv(m, grain)

RangesInv ==
  /\ Len(ranges) <= threads
  /\ ranges = [i \in 1 .. Len(ranges) |-> [begin |-> RangeEnd(i - 1), end |-> RangeEnd(i)]]
  /\ Len(ranges) \in Nat

KernelsInv ==
  /\ Len(kernels) \in Nat /\ Len(kernels) <= threads
  /\ kernels = [i \in 1 .. Len(kernels) |-> RangeEnd(i) - RangeEnd(i - 1)]
  /\ Len(kernels) > 0 => Len(ranges) = threads

(* A row has been stored when the thread it belongs to has run. *)
RunsInv ==
  /\ todo \subseteq Threads
  /\ todo # {} => Len(kernels) = threads
  /\ written \in [AllRows -> {0, 1}]
  /\ \/ todo = {} /\ (\A r, s \in AllRows : written[r] = written[s])
     \/ \A i \in Threads, r \in AllRows :
          r \in RangeEnd(i - 1) .. RangeEnd(i) - 1 => written[r] = IF i \in todo THEN 0 ELSE 1

IInv == Sizes /\ RangesInv /\ KernelsInv /\ RunsInv

-----------------------------------------------------------------------------
(* Arithmetic of the ranges. *)
LEMMA SizesTypes ==
  ASSUME Sizes
  PROVE  /\ m \in Nat \ {0} /\ grain \in Nat \ {0} /\ threads \in Nat \ {0}
         /\ FullBlocks \in Nat /\ TailRows \in 0 .. grain - 1
         /\ m = grain * FullBlocks + TailRows
         /\ Quota \in Nat /\ Extra \in 0 .. threads - 1
         /\ FullBlocks = threads * Quota + Extra
<1>1. m \in Nat \ {0} /\ grain \in Nat \ {0} /\ threads \in Nat \ {0}
  BY ExtentsAssumption, GrainsAssumption DEF Sizes
<1>2. /\ FullBlocks \in Nat /\ TailRows \in 0 .. grain - 1
      /\ m = grain * FullBlocks + TailRows
  <2>1. m \in Nat /\ m \in Int
    BY <1>1
  <2>2. m \div grain \in Nat
    BY <1>1, <2>1, DivNat
  <2>3. m % grain \in 0 .. grain - 1 /\ m = grain * (m \div grain) + (m % grain)
    BY <1>1, <2>1, DivMod
  <2> QED
    BY <2>2, <2>3 DEF FullBlocks, TailRows
<1>3. /\ Quota \in Nat /\ Extra \in 0 .. threads - 1
      /\ FullBlocks = threads * Quota + Extra
  <2>1. FullBlocks \in Nat /\ FullBlocks \in Int
    BY <1>2
  <2>2. FullBlocks \div threads \in Nat
    BY <1>1, <2>1, DivNat
  <2>3. /\ FullBlocks % threads \in 0 .. threads - 1
        /\ FullBlocks = threads * (FullBlocks \div threads) + (FullBlocks % threads)
    BY <1>1, <2>1, DivMod
  <2> QED
    BY <2>2, <2>3 DEF Quota, Extra
<1> QED
  BY <1>1, <1>2, <1>3

(* Every thread but the last has a block; the last has a block or the tail. *)
LEMMA EnoughBlocks ==
  ASSUME Sizes
  PROVE  threads <= FullBlocks + (IF TailRows = 0 THEN 0 ELSE 1)
<1>1. /\ m \in Nat \ {0} /\ grain \in Nat \ {0} /\ threads \in Nat \ {0}
      /\ FullBlocks \in Nat /\ TailRows \in 0 .. grain - 1
      /\ m = grain * FullBlocks + TailRows
  BY SizesTypes
<1>2. CASE TailRows = 0
  <2>1. /\ grain * FullBlocks <= m + grain - 1
        /\ m + grain - 1 < grain * FullBlocks + grain
    BY <1>1, <1>2
  <2>2. CeilDiv(m, grain) = FullBlocks
    BY <1>1, <2>1, DivUnique DEF CeilDiv
  <2> QED
    BY <1>1, <1>2, <2>2 DEF Sizes
<1>3. CASE TailRows # 0
  <2>1. grain * (FullBlocks + 1) = grain * FullBlocks + grain
    BY <1>1
  <2>2. /\ grain * (FullBlocks + 1) <= m + grain - 1
        /\ m + grain - 1 < grain * (FullBlocks + 1) + grain
    BY <1>1, <1>3, <2>1
  <2>3. CeilDiv(m, grain) = FullBlocks + 1
    BY <1>1, <2>2, DivUnique DEF CeilDiv
  <2> QED
    BY <1>3, <2>3 DEF Sizes
<1> QED
  BY <1>1, <1>2, <1>3

LEMMA BlocksStep ==
  ASSUME Sizes, NEW t \in 0 .. threads - 1
  PROVE  /\ BlocksBefore(t) \in Nat
         /\ BlocksBefore(t + 1) = BlocksBefore(t) + (Quota + (IF t < Extra THEN 1 ELSE 0))
         /\ BlocksBefore(t + 1) \in Nat
<1>1. threads \in Nat \ {0} /\ Quota \in Nat /\ Extra \in 0 .. threads - 1
  BY SizesTypes
<1>2. (t + 1) * Quota = t * Quota + Quota /\ t * Quota \in Nat
  BY <1>1
<1>3. Least(t + 1, Extra) = Least(t, Extra) + (IF t < Extra THEN 1 ELSE 0)
  BY <1>1 DEF Least
<1>4. Least(t, Extra) \in Nat /\ Least(t + 1, Extra) \in Nat
  BY <1>1 DEF Least
<1> QED
  BY <1>1, <1>2, <1>3, <1>4 DEF BlocksBefore

(* All blocks are given away, so the last range ends at m.                 *)
LEMMA BlocksAll ==
  ASSUME Sizes
  PROVE  BlocksBefore(threads) = FullBlocks /\ BlocksBefore(0) = 0
<1>1. threads \in Nat \ {0} /\ Quota \in Nat /\ Extra \in 0 .. threads - 1
  BY SizesTypes
<1>2. Least(threads, Extra) = Extra /\ Least(0, Extra) = 0 /\ 0 * Quota = 0
  BY <1>1 DEF Least
<1> QED
  BY <1>1, <1>2, SizesTypes DEF BlocksBefore

LEMMA RangeEndType ==
  ASSUME Sizes, NEW t \in 0 .. threads
  PROVE  RangeEnd(t) \in Nat /\ RangeEnd(0) = 0
<1>1. m \in Nat /\ grain \in Nat \ {0} /\ threads \in Nat \ {0}
  BY SizesTypes
<1>2. t # threads => BlocksBefore(t) \in Nat
  BY <1>1, BlocksStep
<1>3. RangeEnd(t) \in Nat
  BY <1>1, <1>2 DEF RangeEnd
<1>4. RangeEnd(0) = 0
  BY <1>1, BlocksAll DEF RangeEnd
<1> QED
  BY <1>3, <1>4

(* What the loop adds to the cursor takes it to the next range end, and it *)
(* is never nothing.                                                       *)
LEMMA RangeStep ==
  ASSUME Sizes, NEW i \in 1 .. threads
  PROVE  /\ RangeEnd(i) = RangeEnd(i - 1) + Height(i)
         /\ RangeEnd(i - 1) < RangeEnd(i)
         /\ RangeEnd(i - 1) = BlocksBefore(i - 1) * grain
<1>1. /\ m \in Nat \ {0} /\ grain \in Nat \ {0} /\ threads \in Nat \ {0}
      /\ FullBlocks \in Nat /\ TailRows \in 0 .. grain - 1
      /\ m = grain * FullBlocks + TailRows
      /\ Quota \in Nat /\ Extra \in 0 .. threads - 1
      /\ FullBlocks = threads * Quota + Extra
  BY SizesTypes
<1> DEFINE before == BlocksBefore(i - 1)
           more == Quota + (IF i - 1 < Extra THEN 1 ELSE 0)
<1>2. before \in Nat /\ BlocksBefore(i) = before + more /\ more \in Nat
  BY <1>1, BlocksStep
<1>3. Height(i) = more * grain + (IF i = threads THEN TailRows ELSE 0)
  BY DEF Height, Quota, Extra
<1>4. RangeEnd(i - 1) = before * grain
  BY <1>1 DEF RangeEnd
<1> HIDE DEF before, more
<1>5. (before + more) * grain = before * grain + more * grain
  BY <1>1, <1>2
<1>6. RangeEnd(i) = (before + more) * grain + (IF i = threads THEN TailRows ELSE 0)
  <2>1. CASE i = threads
    <3>1. before + more = FullBlocks
      BY <1>2, <2>1, BlocksAll
    <3> QED
      BY <1>1, <2>1, <3>1 DEF RangeEnd
  <2>2. CASE i # threads
    <3>1. BlocksBefore(i) * grain \in Nat
      BY <1>1, <1>2
    <3> QED
      BY <1>1, <1>2, <2>2, <3>1 DEF RangeEnd
  <2> QED
    BY <2>1, <2>2
<1>7. before * grain \in Nat /\ more * grain \in Nat /\ (more > 0 => more * grain > 0)
  BY <1>1, <1>2
<1>8. more > 0 \/ (i = threads /\ TailRows > 0)
  <2>1. threads <= FullBlocks + (IF TailRows = 0 THEN 0 ELSE 1)
    BY EnoughBlocks
  <2>2. CASE Quota > 0
    BY <1>1, <2>2 DEF more
  <2>3. CASE Quota = 0
    <3>1. FullBlocks = Extra
      BY <1>1, <2>3
    <3> QED
      BY <1>1, <2>1, <2>3, <3>1 DEF more
  <2> QED
    BY <1>1, <2>2, <2>3
<1> QED
  BY <1>1, <1>3, <1>4, <1>5, <1>6, <1>7, <1>8 DEF before

(* The ends are in order, so every range lies between 0 and m.             *)
LEMMA RangeWithin ==
  ASSUME Sizes, NEW i \in 1 .. threads
  PROVE  RangeEnd(i) <= m
<1>1. /\ m \in Nat /\ grain \in Nat \ {0} /\ threads \in Nat \ {0}
      /\ FullBlocks \in Nat /\ TailRows \in 0 .. grain - 1
      /\ m = grain * FullBlocks + TailRows
      /\ Quota \in Nat /\ Extra \in 0 .. threads - 1
      /\ FullBlocks = threads * Quota + Extra
  BY SizesTypes
<1>2. BlocksBefore(i) <= FullBlocks /\ BlocksBefore(i) \in Nat
  <2>1. i * Quota <= threads * Quota /\ i * Quota \in Nat
    BY <1>1
  <2>2. Least(i, Extra) <= Extra /\ Least(i, Extra) \in Nat
    BY <1>1 DEF Least
  <2> QED
    BY <1>1, <2>1, <2>2 DEF BlocksBefore
<1>3. BlocksBefore(i) * grain <= grain * FullBlocks
  BY <1>1, <1>2
<1> QED
  BY <1>1, <1>2, <1>3 DEF RangeEnd

LEMMA RangeOrder ==
  ASSUME Sizes, NEW i \in 1 .. threads, NEW j \in 1 .. threads, i < j
  PROVE  RangeEnd(i) <= RangeEnd(j - 1)
<1>1. /\ m \in Nat /\ grain \in Nat \ {0} /\ threads \in Nat \ {0}
      /\ Quota \in Nat /\ Extra \in 0 .. threads - 1
  BY SizesTypes
<1>2. RangeEnd(i) = BlocksBefore(i) * grain /\ RangeEnd(j - 1) = BlocksBefore(j - 1) * grain
  BY <1>1 DEF RangeEnd
<1>3. i * Quota <= (j - 1) * Quota /\ i * Quota \in Nat /\ (j - 1) * Quota \in Nat
  BY <1>1
<1>4. Least(i, Extra) <= Least(j - 1, Extra) /\ Least(i, Extra) \in Nat
      /\ Least(j - 1, Extra) \in Nat
  BY <1>1 DEF Least
<1>5. BlocksBefore(i) <= BlocksBefore(j - 1) /\ BlocksBefore(i) \in Nat
      /\ BlocksBefore(j - 1) \in Nat
  BY <1>3, <1>4 DEF BlocksBefore
<1> QED
  BY <1>1, <1>2, <1>5

LEMMA RangesDisjoint ==
  ASSUME Sizes, NEW i \in 1 .. threads, NEW j \in 1 .. threads, i # j
  PROVE  (RangeEnd(i - 1) .. RangeEnd(i) - 1) \cap (RangeEnd(j - 1) .. RangeEnd(j) - 1) = {}
<1>1. /\ RangeEnd(i) \in Nat /\ RangeEnd(i - 1) \in Nat
      /\ RangeEnd(j) \in Nat /\ RangeEnd(j - 1) \in Nat
  BY RangeEndType, SizesTypes
<1>2. RangeEnd(i) <= RangeEnd(j - 1) \/ RangeEnd(j) <= RangeEnd(i - 1)
  BY RangeOrder, SizesTypes
<1> QED
  BY <1>1, <1>2

(* Every row lies in some range: the first whose end is behind it.         *)
LEMMA RowHasRange ==
  ASSUME Sizes, NEW r \in AllRows
  PROVE  \E i \in Threads : r \in RangeEnd(i - 1) .. RangeEnd(i) - 1
<1>1. threads \in Nat \ {0} /\ m \in Nat \ {0} /\ r \in Nat /\ r < m
  BY SizesTypes DEF AllRows
<1> DEFINE T == {i \in Nat : i \in 1 .. threads /\ r < RangeEnd(i)}
<1>2. T \subseteq Nat /\ threads \in T
  BY <1>1 DEF RangeEnd
<1>3. PICK i \in T : \A j \in T : ~(<<j, i>> \in OpToRel(<, Nat))
  BY <1>2, NatLessThanWellFounded, WFMin
<1>4. i \in 1 .. threads /\ r < RangeEnd(i)
  BY <1>3
<1>5. RangeEnd(i - 1) <= r
  <2>1. CASE i = 1
    BY <1>1, <2>1, RangeEndType
  <2>2. CASE i # 1
    <3>1. i - 1 \in Nat /\ i - 1 \in 1 .. threads /\ i \in Nat /\ i - 1 < i
      BY <1>1, <1>4, <2>2
    <3>2. i - 1 \notin T
      BY <1>3, <3>1 DEF OpToRel
    <3> QED
      BY <1>1, <3>1, <3>2, RangeEndType
  <2> QED
    BY <2>1, <2>2
<1>6. RangeEnd(i) \in Nat /\ RangeEnd(i - 1) \in Nat
  BY <1>1, <1>4, RangeEndType
<1> QED
  BY <1>1, <1>4, <1>5, <1>6 DEF Threads

-----------------------------------------------------------------------------
LEMMA InitIInv == Init => IInv
<1> SUFFICES ASSUME Init PROVE IInv
  OBVIOUS
<1>1. m \in Nat \ {0} /\ grain \in Nat \ {0}
  BY ExtentsAssumption, GrainsAssumption DEF Init
<1>2. CeilDiv(m, grain) \in Nat \ {0}
  <2>1. m + grain - 1 \in Nat /\ grain * 1 <= m + grain - 1
    BY <1>1
  <2>2. /\ (m + grain - 1) \div grain \in Nat
        /\ m + grain - 1 < grain * ((m + grain - 1) \div grain) + grain
    BY <1>1, <2>1, DivNat, DivBounds
  <2>3. CASE (m + grain - 1) \div grain = 0
    BY <1>1, <2>1, <2>2, <2>3
  <2> QED
    BY <2>2, <2>3 DEF CeilDiv
<1>3. Sizes
  BY <1>2, RequestsAssumption DEF Init, Sizes, Clamp
<1>4. RangesInv /\ KernelsInv
  BY <1>3 DEF Init, RangesInv, KernelsInv, Sizes
<1>5. RunsInv
  BY DEF Init, RunsInv
<1> QED
  BY <1>3, <1>4, <1>5 DEF IInv

LEMMA StepIInv == IInv /\ [Next]_vars => IInv'
<1> SUFFICES ASSUME IInv, [Next]_vars PROVE IInv'
  OBVIOUS
<1>0. /\ Sizes /\ RangesInv /\ KernelsInv /\ RunsInv
      /\ threads \in Nat \ {0} /\ m \in Nat \ {0}
  BY SizesTypes DEF IInv
<1>1. CASE AddRange
  <2>1. Sizes' /\ UNCHANGED <<m, grain, threads, kernels, todo, written>>
    BY <1>0, <1>1 DEF AddRange, Sizes
  <2> DEFINE n == Len(ranges) + 1
  <2>2. n \in 1 .. threads
    BY <1>0, <1>1 DEF AddRange, RangesInv
  <2>3. Cursor = RangeEnd(n - 1)
    BY <1>0, <2>2, RangeEndType DEF Cursor, RangesInv
  <2>4. ranges' = Append(ranges, [begin |-> RangeEnd(n - 1), end |-> RangeEnd(n)])
    BY <1>0, <1>1, <2>2, <2>3, RangeStep DEF AddRange
  <2>5. \A t : RangeEnd(t)' = RangeEnd(t)
    BY <2>1 DEF RangeEnd, BlocksBefore, Quota, Extra, FullBlocks
  <2>6. RangesInv'
    BY <1>0, <2>1, <2>2, <2>4, <2>5 DEF RangesInv
  <2>7. Len(ranges') # threads => Len(kernels) = 0
    BY <1>0, <1>1 DEF AddRange, KernelsInv
  <2>8. Len(kernels) = 0
    BY <1>0, <1>1 DEF AddRange, KernelsInv
  <2>9. KernelsInv'
    BY <1>0, <2>1, <2>5, <2>8 DEF KernelsInv
  <2>10. RunsInv'
    BY <1>0, <2>1, <2>5 DEF RunsInv, AllRows, Threads
  <2> QED
    BY <2>1, <2>6, <2>9, <2>10 DEF IInv
<1>2. CASE CompileKernel
  <2>1. Sizes' /\ UNCHANGED <<m, grain, threads, ranges, todo, written>>
    BY <1>0, <1>2 DEF CompileKernel, Sizes
  <2> DEFINE n == Len(kernels) + 1
  <2>2. n \in 1 .. threads /\ Len(ranges) = threads
    BY <1>0, <1>2 DEF CompileKernel, KernelsInv
  <2>3. ranges[n] = [begin |-> RangeEnd(n - 1), end |-> RangeEnd(n)]
    BY <1>0, <2>2 DEF RangesInv
  <2>4. kernels' = Append(kernels, RangeEnd(n) - RangeEnd(n - 1))
    BY <1>2, <2>3 DEF CompileKernel
  <2>5. \A t : RangeEnd(t)' = RangeEnd(t)
    BY <2>1 DEF RangeEnd, BlocksBefore, Quota, Extra, FullBlocks
  <2>6. RangesInv'
    BY <1>0, <2>1, <2>5 DEF RangesInv
  <2>7. KernelsInv'
    BY <1>0, <2>1, <2>2, <2>4, <2>5 DEF KernelsInv
  <2>8. todo = {}
    BY <1>0, <1>2 DEF CompileKernel, RunsInv
  <2>9. RunsInv'
    BY <1>0, <2>1, <2>5, <2>8 DEF RunsInv, AllRows, Threads
  <2> QED
    BY <2>1, <2>6, <2>7, <2>9 DEF IInv
<1>3. CASE Invoke
  <2>1. Sizes' /\ UNCHANGED <<m, grain, threads, ranges, kernels>>
    BY <1>0, <1>3 DEF Invoke, Sizes
  <2>2. \A t : RangeEnd(t)' = RangeEnd(t)
    BY <2>1 DEF RangeEnd, BlocksBefore, Quota, Extra, FullBlocks
  <2>3. RangesInv' /\ KernelsInv'
    BY <1>0, <2>1, <2>2 DEF RangesInv, KernelsInv
  <2>4. Len(ranges) = threads /\ Len(kernels) = threads
    BY <1>0, <1>3 DEF Invoke, KernelsInv
  <2>5. \A i \in Threads : ranges[i].begin < ranges[i].end
    BY <1>0, <2>4, RangeStep DEF RangesInv, Threads
  <2>6. todo' = Threads /\ written' = [r \in AllRows |-> 0]
    BY <1>3, <2>5 DEF Invoke
  <2>7. RunsInv'
    BY <2>1, <2>4, <2>6 DEF RunsInv, AllRows, Threads
  <2> QED
    BY <2>1, <2>3, <2>7 DEF IInv
<1>4. ASSUME NEW i \in Threads, RunKernel(i) PROVE IInv'
  <2>1. Sizes' /\ UNCHANGED <<m, grain, threads, ranges, kernels>> /\ i \in todo
    BY <1>0, <1>4 DEF RunKernel, Sizes
  <2>2. \A t : RangeEnd(t)' = RangeEnd(t)
    BY <2>1 DEF RangeEnd, BlocksBefore, Quota, Extra, FullBlocks
  <2>3. RangesInv' /\ KernelsInv'
    BY <1>0, <2>1, <2>2 DEF RangesInv, KernelsInv
  <2> DEFINE Span(j) == RangeEnd(j - 1) .. RangeEnd(j) - 1
  <2>4. Len(ranges) = threads /\ Len(kernels) = threads /\ i \in 1 .. threads
    <3>1. Len(kernels) = threads /\ i \in 1 .. threads
      BY <1>0, <2>1 DEF RunsInv, Threads
    <3> QED
      BY <1>0, <3>1 DEF KernelsInv
  <2>5. RowsStored(i) = Span(i)
    <3>1. /\ ranges[i].begin = RangeEnd(i - 1)
          /\ kernels[i] = RangeEnd(i) - RangeEnd(i - 1)
      BY <1>0, <2>4 DEF RangesInv, KernelsInv
    <3>2. RangeEnd(i) \in Nat /\ RangeEnd(i - 1) \in Nat
      BY <1>0, <2>4, RangeEndType
    <3> QED
      BY <3>1, <3>2 DEF RowsStored
  <2>6. \A j \in Threads, r \in AllRows :
          r \in Span(j) => written[r] = IF j \in todo THEN 0 ELSE 1
    BY <1>0, <2>1 DEF RunsInv
  <2>7. \A j \in Threads : j # i => Span(i) \cap Span(j) = {}
    BY <1>0, <2>4, RangesDisjoint DEF Threads
  <2> HIDE DEF Span
  <2>8. written' = [r \in AllRows |-> written[r] + IF r \in Span(i) THEN 1 ELSE 0]
    BY <1>4, <2>5 DEF RunKernel
  <2>9. written \in [AllRows -> {0, 1}]
    BY <1>0 DEF RunsInv
  <2>10. written' \in [AllRows -> {0, 1}]
    BY <2>1, <2>4, <2>6, <2>8, <2>9 DEF Threads
  <2>11. \A j \in Threads, r \in AllRows :
           r \in Span(j) => written'[r] = IF j \in todo' THEN 0 ELSE 1
    <3> SUFFICES ASSUME NEW j \in Threads, NEW r \in AllRows, r \in Span(j)
                 PROVE  written'[r] = IF j \in todo' THEN 0 ELSE 1
      OBVIOUS
    <3>1. todo' = todo \ {i} /\ written[r] \in {0, 1}
      BY <1>4, <2>9 DEF RunKernel
    <3>2. CASE j = i
      BY <2>1, <2>6, <2>8, <3>1, <3>2
    <3>3. CASE j # i
      BY <2>6, <2>7, <2>8, <3>1, <3>3
    <3> QED
      BY <3>2, <3>3
  <2>12. todo' \subseteq Threads
    BY <1>0, <1>4 DEF RunKernel, RunsInv
  <2>13. UNCHANGED <<Threads, AllRows>>
    BY <2>1 DEF Threads, AllRows
  <2>14. RunsInv'
    BY <2>1, <2>2, <2>4, <2>10, <2>11, <2>12, <2>13 DEF RunsInv, Span
  <2> QED
    BY <2>1, <2>3, <2>14 DEF IInv
<1>5. CASE UNCHANGED vars
  BY <1>5, ZenonT(40) DEF vars, IInv, Sizes, RangesInv, KernelsInv, RunsInv, RangeEnd, BlocksBefore,
              Quota, Extra, FullBlocks, Threads, AllRows
<1> QED
  BY <1>1, <1>2, <1>3, <1>4, <1>5 DEF Next

LEMMA Invariance == Spec => []IInv
BY InitIInv, StepIInv, PTL DEF Spec

-----------------------------------------------------------------------------
(* The ranges are what the cursor formula says, so they are consecutive,   *)
(* non-empty, aligned to the micro-kernel, and end at m.                   *)
THEOREM RangesCorrect == Spec => []RangesDivideRows
<1>1. IInv => RangesDivideRows
  <2> SUFFICES ASSUME IInv PROVE RangesDivideRows
    OBVIOUS
  <2>0. Sizes /\ RangesInv /\ threads \in Nat \ {0} /\ grain \in Nat \ {0}
    BY SizesTypes DEF IInv
  <2>1. ASSUME NEW i \in DOMAIN ranges
        PROVE  /\ ranges[i].begin = IF i = 1 THEN 0 ELSE ranges[i - 1].end
               /\ ranges[i].begin < ranges[i].end
               /\ ranges[i].begin % grain = 0
    <3>1. i \in 1 .. threads /\ i \in 1 .. Len(ranges)
      BY <2>0 DEF RangesInv
    <3>2. ranges[i].begin = RangeEnd(i - 1) /\ ranges[i].end = RangeEnd(i)
      BY <2>0, <3>1 DEF RangesInv
    <3>3. ranges[i].begin = IF i = 1 THEN 0 ELSE ranges[i - 1].end
      BY <2>0, <3>1, <3>2, RangeEndType DEF RangesInv
    <3>4. RangeEnd(i - 1) % grain = 0
      <4>1. RangeEnd(i - 1) = BlocksBefore(i - 1) * grain /\ BlocksBefore(i - 1) \in Nat
        <5>1. Sizes /\ i \in 1 .. threads
          BY <2>0, <3>1
        <5>2. RangeEnd(i - 1) = BlocksBefore(i - 1) * grain
          BY <5>1, RangeStep
        <5>3. BlocksBefore(i - 1) \in Nat
          <6>1. i - 1 \in 0 .. threads - 1
            BY <2>0, <3>1
          <6> QED
            BY <5>1, <6>1, BlocksStep
        <5> QED
          BY <5>2, <5>3
      <4>2. (BlocksBefore(i - 1) * grain) % grain = 0
        BY <2>0, <4>1, MultipleMod
      <4> QED
        BY <4>1, <4>2
    <3> QED
      BY <2>0, <3>1, <3>2, <3>3, <3>4, RangeStep
  <2>2. Len(ranges) = threads => ranges[threads].end = m
    BY <2>0 DEF RangesInv, RangeEnd
  <2> QED
    BY <2>1, <2>2 DEF RangesDivideRows
<1> QED
  BY <1>1, Invariance, PTL

(* No two kernels store the same row, and a repetition stores every row.   *)
THEOREM RunsCorrect == Spec => []RowsWrittenOnce
<1>1. IInv => RowsWrittenOnce
  <2> SUFFICES ASSUME IInv PROVE RowsWrittenOnce
    OBVIOUS
  <2>0. Sizes /\ RangesInv /\ KernelsInv /\ RunsInv /\ threads \in Nat \ {0} /\ m \in Nat \ {0}
    BY SizesTypes DEF IInv
  <2>1. ASSUME NEW i \in todo
        PROVE  /\ i \in 1 .. threads
               /\ RowsStored(i) = RangeEnd(i - 1) .. RangeEnd(i) - 1
    <3>1. Len(ranges) = threads /\ Len(kernels) = threads /\ i \in 1 .. threads
      <4>1. Len(kernels) = threads /\ i \in 1 .. threads
        BY <2>0 DEF RunsInv, Threads
      <4> QED
        BY <2>0, <4>1 DEF KernelsInv
    <3>2. /\ ranges[i].begin = RangeEnd(i - 1)
          /\ kernels[i] = RangeEnd(i) - RangeEnd(i - 1)
      BY <2>0, <3>1 DEF RangesInv, KernelsInv
    <3>3. RangeEnd(i) \in Nat /\ RangeEnd(i - 1) \in Nat
      BY <2>0, <3>1, RangeEndType
    <3> QED
      BY <3>1, <3>2, <3>3 DEF RowsStored
  <2>2. ASSUME NEW i \in todo PROVE RowsStored(i) \subseteq {r \in AllRows : written[r] = 0}
    <3>1. RangeEnd(i) <= m /\ RangeEnd(i) \in Nat /\ RangeEnd(i - 1) \in Nat
      BY <2>0, <2>1, RangeWithin, RangeEndType
    <3>2. RowsStored(i) \subseteq AllRows
      BY <2>0, <2>1, <3>1 DEF AllRows
    <3>3. \A r \in RowsStored(i) : written[r] = 0
      BY <2>0, <2>1, <3>2 DEF RunsInv, Threads
    <3> QED
      BY <3>2, <3>3
  <2>3. ASSUME NEW i \in todo, NEW j \in todo, i # j
        PROVE  RowsStored(i) \cap RowsStored(j) = {}
    BY <2>0, <2>1, <2>3, RangesDisjoint
  <2>4. ASSUME todo = {}, NEW r \in AllRows, NEW s \in AllRows PROVE written[r] = written[s]
    <3>1. CASE \A x, y \in AllRows : written[x] = written[y]
      BY <3>1
    <3>2. CASE \A i \in Threads, x \in AllRows :
                 x \in RangeEnd(i - 1) .. RangeEnd(i) - 1 =>
                   written[x] = IF i \in todo THEN 0 ELSE 1
      <4>1. \A x \in AllRows : written[x] = 1
        BY <2>0, <2>4, <3>2, RowHasRange
      <4> QED
        BY <4>1
    <3> QED
      BY <2>0, <3>1, <3>2 DEF RunsInv
  <2> QED
    BY <2>2, <2>3, <2>4 DEF RowsWrittenOnce
<1> QED
  BY <1>1, Invariance, PTL

(* Types, with the bound on how often a row is stored. *)
THEOREM TypeCorrect == Spec => []TypeOK
<1>1. IInv => TypeOK
  <2> SUFFICES ASSUME IInv PROVE TypeOK
    OBVIOUS
  <2>0. Sizes /\ RangesInv /\ KernelsInv /\ RunsInv /\ threads \in Nat \ {0} /\ m \in Nat
    BY SizesTypes DEF IInv
  <2>1. \A i \in 0 .. threads : RangeEnd(i) \in 0 .. m
    BY <2>0, RangeEndType, RangeWithin
  <2> DEFINE Ranges == [begin : 0 .. m, end : 0 .. m]
  <2>2. ranges \in Seq(Ranges)
    <3>1. ranges \in [1 .. Len(ranges) -> Ranges]
      BY <2>0, <2>1 DEF RangesInv
    <3>2. Len(ranges) \in Nat
      BY <2>0 DEF RangesInv
    <3> HIDE DEF Ranges
    <3> QED
      BY <3>1, <3>2
  <2>3. kernels \in Seq(Nat \ {0})
    <3>1. \A i \in 1 .. threads : RangeEnd(i) - RangeEnd(i - 1) \in Nat \ {0}
      BY <2>0, <2>1, RangeStep
    <3>2. kernels \in [1 .. Len(kernels) -> Nat \ {0}]
      BY <2>0, <3>1 DEF KernelsInv
    <3> QED
      BY <2>0, <3>2 DEF KernelsInv
  <2> QED
    BY <2>0, <2>2, <2>3 DEF TypeOK, Sizes, RangesInv, RunsInv
<1> QED
  BY <1>1, Invariance, PTL

-----------------------------------------------------------------------------
(***************************************************************************)
(* JitKernels.  What the cache keeps for the run above it.                 *)
(***************************************************************************)
IsLoop(ir) == ir = LoopOf(ir.rows, ir.dump)

(* The cache has one kernel for a loop; what was handed out is in it.      *)
CacheInv ==
  /\ \A k \in kernel_cache : IsLoop(k.loop)
  /\ \A k, l \in kernel_cache : k.loop = l.loop => k = l
  /\ \A h \in handed : h.kernel \in kernel_cache /\ h.kernel.loop = h.loop

(* What is being compiled; this run compiles for its next range.           *)
BuildInv ==
  /\ building = [c \in Callers |-> building[c]]
  /\ \A c \in Callers : building[c] # NoKey => IsLoop(building[c])
  /\ building[This] # NoKey =>
       /\ Len(ranges) = threads /\ Len(kernels) < threads
       /\ building[This].rows = ranges[Len(kernels) + 1].end - ranges[Len(kernels) + 1].begin

JInv == CacheInv /\ BuildInv

-----------------------------------------------------------------------------
(* Two loops with one key are one loop: kernel_key leaves nothing out.     *)
LEMMA KeyIsInjective ==
  ASSUME NEW x, NEW y, IsLoop(x), IsLoop(y), KernelKey(x) = KernelKey(y)
  PROVE  x = y
<1>1. x.rows = y.rows /\ x.dump = y.dump
  <2>1. KernelKey(x).rows = KernelKey(y).rows /\ KernelKey(x).dump = KernelKey(y).dump
    OBVIOUS
  <2> QED
    BY <2>1 DEF KernelKey
<1> QED
  BY <1>1 DEF IsLoop

LEMMA LoopOfIsLoop == ASSUME NEW rows, NEW dump PROVE IsLoop(LoopOf(rows, dump))
  BY DEF IsLoop, LoopOf

LEMMA InitJInv == JitInit => JInv
<1> SUFFICES ASSUME JitInit PROVE JInv
  OBVIOUS
<1>1. CacheInv
  BY DEF JitInit, CacheInv
<1>2. BuildInv
  BY DEF JitInit, BuildInv, Callers, NoKey
<1> QED
  BY <1>1, <1>2 DEF JInv

-----------------------------------------------------------------------------
(* A kernel that is in the cache, or joins it, may be handed out.          *)
LEMMA HandOverKeepsCache ==
  ASSUME NEW c \in Callers, NEW ir, NEW kernel, IsLoop(ir), CacheInv,
         kernel_cache \subseteq kernel_cache',
         \A k \in kernel_cache' : IsLoop(k.loop),
         \A k, l \in kernel_cache' : k.loop = l.loop => k = l,
         kernel \in kernel_cache', kernel.loop = ir,
         HandOver(c, ir, kernel)
  PROVE  CacheInv'
<1>1. handed' = handed \cup {[loop |-> ir, kernel |-> kernel]}
  BY DEF HandOver
<1>2. ASSUME NEW h \in handed' PROVE h.kernel \in kernel_cache' /\ h.kernel.loop = h.loop
  <2>1. CASE h \in handed
    BY <2>1 DEF CacheInv
  <2>2. CASE h = [loop |-> ir, kernel |-> kernel]
    BY <2>2
  <2> QED
    BY <1>1, <1>2, <2>1, <2>2
<1> QED
  BY <1>2 DEF CacheInv

(* A kernel of the right height handed to this run is its next kernel.     *)
LEMMA HandOverIsCompile ==
  ASSUME NEW c \in Callers, NEW ir, NEW kernel, HandOver(c, ir, kernel),
         kernel.loop = ir,
         c = This =>
           /\ Len(ranges) = threads /\ Len(kernels) < threads
           /\ ir.rows = ranges[Len(kernels) + 1].end - ranges[Len(kernels) + 1].begin
  PROVE  [Next]_vars
<1>1. CASE c = This
  <2>1. /\ kernels' = Append(kernels, kernel.loop.rows)
        /\ UNCHANGED <<m, grain, threads, ranges, todo, written>>
    BY <1>1 DEF HandOver
  <2>2. CompileKernel
    BY <1>1, <2>1 DEF CompileKernel
  <2> QED
    BY <2>2 DEF Next
<1>2. CASE c # This
  BY <1>2 DEF HandOver
<1> QED
  BY <1>1, <1>2

(* After compile_kernel has returned, this run builds nothing.             *)
LEMMA BuildInvAfterReturn ==
  ASSUME NEW c \in Callers, NEW ir, NEW kernel, BuildInv, HandOver(c, ir, kernel),
         \/ building' = [building EXCEPT ![c] = NoKey]
         \/ building' = building /\ building[c] = NoKey
  PROVE  BuildInv'
<1>1. building' = [d \in Callers |-> building'[d]]
  BY DEF BuildInv
<1>2. \A d \in Callers : building'[d] = NoKey \/ building'[d] = building[d]
  BY DEF BuildInv
<1>3. building'[c] = NoKey
  BY DEF BuildInv
<1>4. \A d \in Callers : building'[d] # NoKey => IsLoop(building'[d])
  BY <1>2 DEF BuildInv
<1>5. building'[This] # NoKey => c # This /\ building'[This] = building[This]
  BY <1>2, <1>3 DEF Callers
<1>6. c # This => UNCHANGED vars
  BY DEF HandOver
<1> QED
  BY <1>1, <1>4, <1>5, <1>6 DEF BuildInv, vars

-----------------------------------------------------------------------------
(* A call of compile_kernel begins.  For this run it is one for its next   *)
(* range.                                                                  *)
LEMMA LookUpStep ==
  ASSUME JInv, NEW c \in Callers, NEW rows, NEW dump, LookUp(c, LoopOf(rows, dump)),
         c = This =>
           /\ Len(ranges) = threads /\ Len(kernels) < threads
           /\ rows = ranges[Len(kernels) + 1].end - ranges[Len(kernels) + 1].begin
  PROVE  JInv' /\ [Next]_vars
<1> DEFINE ir == LoopOf(rows, dump)
<1>1. IsLoop(ir) /\ ir.rows = rows
  BY LoopOfIsLoop DEF LoopOf
<1>2. ASSUME NEW kernel \in Cached(ir), HandOver(c, ir, kernel), UNCHANGED building
      PROVE  JInv' /\ [Next]_vars
  <2>1. kernel \in kernel_cache /\ kernel.loop = ir
    BY <1>1, KeyIsInjective DEF Cached, JInv, CacheInv
  <2>2. kernel_cache' = kernel_cache /\ building[c] = NoKey
    BY DEF LookUp
  <2>3. CacheInv'
    BY <1>1, <1>2, <2>1, <2>2, HandOverKeepsCache DEF JInv, CacheInv
  <2>4. BuildInv'
    BY <1>2, <2>2, BuildInvAfterReturn DEF JInv
  <2>5. [Next]_vars
    BY <1>1, <1>2, <2>1, HandOverIsCompile
  <2> QED
    BY <2>3, <2>4, <2>5 DEF JInv
<1>3. ASSUME building' = [building EXCEPT ![c] = ir], UNCHANGED <<vars, handed>>
      PROVE  JInv' /\ [Next]_vars
  <2>1. kernel_cache' = kernel_cache /\ handed' = handed
    BY <1>3 DEF LookUp
  <2>2. CacheInv'
    BY <2>1 DEF JInv, CacheInv
  <2>3. /\ building' = [d \in Callers |-> building'[d]]
        /\ building'[c] = ir
        /\ \A d \in Callers \ {c} : building'[d] = building[d]
    BY <1>3 DEF JInv, BuildInv
  <2>4. \A d \in Callers : building'[d] # NoKey => IsLoop(building'[d])
    BY <1>1, <2>3 DEF JInv, BuildInv
  <2>5. This \in Callers
    BY DEF Callers
  <2>6. building'[This] # NoKey =>
          /\ Len(ranges) = threads /\ Len(kernels) < threads
          /\ building'[This].rows = ranges[Len(kernels) + 1].end - ranges[Len(kernels) + 1].begin
    <3>1. CASE c = This
      BY <1>1, <2>3, <3>1
    <3>2. CASE c # This
      BY <2>3, <2>5, <3>2 DEF JInv, BuildInv
    <3> QED
      BY <3>1, <3>2
  <2>7. BuildInv'
    BY <1>3, <2>3, <2>4, <2>6 DEF BuildInv, vars
  <2> QED
    BY <1>3, <2>2, <2>7 DEF JInv
<1> QED
  BY <1>2, <1>3 DEF LookUp

(* A compilation ends: the kernel joins the cache, or the older one wins.  *)
LEMMA EmplaceStep ==
  ASSUME JInv, NEW c \in Callers, Emplace(c)
  PROVE  JInv' /\ [Next]_vars
<1> DEFINE ir == building[c]
<1> DEFINE own == KernelObject(c, ir)
<1> DEFINE held == Cached(ir)
<1>1. IsLoop(ir) /\ own.loop = ir
  BY DEF Emplace, JInv, BuildInv, KernelObject
<1>2. /\ kernel_cache' = IF held = {} THEN kernel_cache \cup {own} ELSE kernel_cache
      /\ building' = [building EXCEPT ![c] = NoKey]
  BY DEF Emplace
<1>3. PICK kernel \in (IF held = {} THEN {own} ELSE held) : HandOver(c, ir, kernel)
  BY DEF Emplace
<1>4. kernel \in kernel_cache' /\ kernel.loop = ir
  <2>1. CASE held = {}
    BY <1>1, <1>2, <1>3, <2>1
  <2>2. CASE held # {}
    <3>1. kernel \in kernel_cache /\ KernelKey(kernel.loop) = KernelKey(ir)
      BY <1>3, <2>2 DEF Cached
    <3> QED
      BY <1>1, <1>2, <2>2, <3>1, KeyIsInjective DEF JInv, CacheInv
  <2> QED
    BY <2>1, <2>2
<1>5. held = {} => \A k \in kernel_cache : k.loop # ir
  BY DEF Cached
<1>6. \A k \in kernel_cache' : IsLoop(k.loop)
  BY <1>1, <1>2 DEF JInv, CacheInv
<1>7. \A k, l \in kernel_cache' : k.loop = l.loop => k = l
  BY <1>1, <1>2, <1>5 DEF JInv, CacheInv
<1>8. CacheInv'
  BY <1>1, <1>2, <1>3, <1>4, <1>6, <1>7, HandOverKeepsCache DEF JInv
<1>9. BuildInv'
  BY <1>2, <1>3, BuildInvAfterReturn DEF JInv
<1>10. [Next]_vars
  BY <1>3, <1>4, HandOverIsCompile DEF Emplace, JInv, BuildInv
<1> QED
  BY <1>8, <1>9, <1>10 DEF JInv

(* A step of the run itself, while it compiles nothing.                    *)
LEMMA RunStep ==
  ASSUME JInv, AddRange \/ Invoke \/ \E i \in Threads : RunKernel(i),
         UNCHANGED <<kernel_cache, building, handed>>
  PROVE  JInv' /\ [Next]_vars
<1>1. CacheInv'
  BY DEF JInv, CacheInv
<1>2. BuildInv'
  <2>1. CASE AddRange
    BY <2>1 DEF AddRange, JInv, BuildInv
  <2>2. CASE Invoke
    BY <2>2 DEF Invoke, JInv, BuildInv
  <2>3. CASE \E i \in Threads : RunKernel(i)
    BY <2>3 DEF RunKernel, JInv, BuildInv
  <2> QED
    BY <2>1, <2>2, <2>3
<1>3. Next
  BY DEF Next
<1> QED
  BY <1>1, <1>2, <1>3 DEF JInv

LEMMA StepJInv == JInv /\ [JitNext]_jitVars => JInv' /\ [Next]_vars
<1> SUFFICES ASSUME JInv, [JitNext]_jitVars PROVE JInv' /\ [Next]_vars
  OBVIOUS
<1>1. CASE (AddRange \/ Invoke \/ \E i \in Threads : RunKernel(i))
           /\ UNCHANGED <<kernel_cache, building, handed>>
  BY <1>1, RunStep
<1>2. CASE CompileNext
  <2>1. /\ Len(ranges) = threads /\ Len(kernels) < threads
        /\ LookUp(This, LoopOf(ranges[Len(kernels) + 1].end - ranges[Len(kernels) + 1].begin,
                               ThisDump))
    BY <1>2 DEF CompileNext
  <2> QED
    BY <2>1, LookUpStep DEF Callers
<1>3. CASE \E c \in Others : OtherCompiles(c)
  <2>1. PICK c \in Others : OtherCompiles(c)
    BY <1>3
  <2>2. PICK rows \in OtherHeights, dump \in Dumps : LookUp(c, LoopOf(rows, dump))
    BY <2>1 DEF OtherCompiles
  <2>3. c \in Callers /\ c # This
    BY OthersAssumption DEF Callers, This
  <2> QED
    BY <2>2, <2>3, LookUpStep
<1>4. CASE \E c \in Callers : Emplace(c)
  BY <1>4, EmplaceStep
<1>5. CASE \E c \in Callers : BuildThrows(c)
  <2>1. PICK c \in Callers : BuildThrows(c)
    BY <1>5
  <2>2. /\ c # This /\ building' = [building EXCEPT ![c] = NoKey]
        /\ UNCHANGED <<vars, kernel_cache, handed>>
    BY <2>1 DEF BuildThrows
  <2>3. CacheInv'
    BY <2>2 DEF JInv, CacheInv
  <2>4. /\ building' = [d \in Callers |-> building'[d]]
        /\ \A d \in Callers : building'[d] = NoKey \/ building'[d] = building[d]
        /\ building'[This] = building[This]
    BY <2>2 DEF JInv, BuildInv, Callers
  <2>5. BuildInv'
    BY <2>2, <2>4 DEF JInv, BuildInv, vars
  <2> QED
    BY <2>2, <2>3, <2>5 DEF JInv
<1>6. CASE UNCHANGED jitVars
  BY <1>6 DEF jitVars, vars, JInv, CacheInv, BuildInv
<1> QED
  BY <1>1, <1>2, <1>3, <1>4, <1>5, <1>6 DEF JitNext

-----------------------------------------------------------------------------
(* With the kernel cache and any other threads of the process that compile *)
(* kernels, the parallel run of a kernel is a run of OrcRows: each range   *)
(* gets a kernel compiled for its height (ImplementsOrcRows).              *)
THEOREM JitRefinesOrcRows == JitSpec => ImplementsOrcRows
<1>1. JitInit => JInv /\ Init
  BY InitJInv DEF JitInit
<1> QED
  BY <1>1, StepJInv, PTL DEF JitSpec, Spec, ImplementsOrcRows

(* All callers of compile_kernel share one kernel for each loop            *)
(* (OneKernelPerLoop).                                                     *)
THEOREM KernelsAreShared == JitSpec => []OneKernelPerLoop
<1>1. JInv => OneKernelPerLoop
  BY DEF JInv, CacheInv, OneKernelPerLoop
<1> QED
  BY <1>1, InitJInv, StepJInv, PTL DEF JitSpec

(* So a run with the cache keeps the ranges of OrcRows, and each of its    *)
(* repetitions stores every row once (RangesDivideRows, RowsWrittenOnce).  *)
THEOREM JitRowsCorrect == JitSpec => []RangesDivideRows /\ []RowsWrittenOnce
  BY JitRefinesOrcRows, RangesCorrect, RunsCorrect, PTL DEF ImplementsOrcRows

(***************************************************************************)
(* Schedules.  What is written to a schedule file is read back, with one   *)
(* thread and no pinning, and the search space holds schedules only.       *)
(***************************************************************************)

(* Schedules in the cache.                                                 *)
TiledSchedules == {s \in AnySchedule : s.tiled}

ScheduleFields ==
  {"order", "bm", "bn", "bk", "mr", "nr", "width", "threads", "mc", "nc", "kc", "unroll",
   "distance", "tiled", "fused", "packA", "packB", "pinned"}

(* The command of the text of a schedule that sets a field.                *)
CommandOf(x) ==
  CASE x = "order" -> 1
    [] x \in {"mc", "nc", "kc"} -> 2
    [] x \in {"bm", "bn", "bk"} -> 3
    [] x \in {"mr", "nr"} -> 4
    [] x = "width" -> 5
    [] x = "unroll" -> 6
    [] x = "threads" -> 7
    [] x \in {"packA", "packB"} -> 8
    [] x = "distance" -> 9
    [] x = "fused" -> 10
    [] x = "pinned" -> 11
    [] OTHER -> 12

(* What the first n commands leave.                                        *)
AfterCommands(s, n) ==
  [x \in ScheduleFields |-> IF CommandOf(x) <= n THEN s[x] ELSE DefaultSchedule[x]]

(* A schedule is the record of its fields.                                 *)
LEMMA ScheduleIsItsFields ==
  ASSUME NEW s \in AnySchedule
  PROVE  s = [x \in ScheduleFields |-> s[x]]
BY DEF AnySchedule, ScheduleFields

LEMMA DefaultIsASchedule == DefaultSchedule \in TiledSchedules
BY DEF DefaultSchedule, TiledSchedules, AnySchedule

(* A recursive definition has the value of any function that solves it.    *)
ParseSolves(f, text) ==
  f = [n \in 0 .. Len(text) |->
         IF n = 0 THEN DefaultSchedule ELSE ParseOne(f[n - 1], text[n])]

LEMMA ParseIs ==
  ASSUME NEW text
  PROVE  ParseSchedule(text) = (CHOOSE f : ParseSolves(f, text))[Len(text)]
BY ZenonT(60) DEF ParseSchedule, ParseSolves

(* A file that was opened and never written reads as the default schedule. *)
LEMMA EmptyTextIsDefault == ParseSchedule(<<>>) = DefaultSchedule
<1>1. Len(<<>>) = 0
  OBVIOUS
<1> DEFINE g == [n \in 0 .. 0 |-> DefaultSchedule]
<1>2. g = [n \in 0 .. 0 |-> IF n = 0 THEN DefaultSchedule ELSE ParseOne(g[n - 1], <<>>[n])]
  <2>1. \A n \in 0 .. 0 : n = 0
    OBVIOUS
  <2> QED
    BY <2>1
<1> HIDE DEF g
<1>3. ParseSolves(g, <<>>)
  BY <1>1, <1>2 DEF ParseSolves
<1>4. PICK f : f = CHOOSE h : ParseSolves(h, <<>>)
  OBVIOUS
<1>5. ParseSolves(f, <<>>)
  BY <1>3, <1>4
<1>6. f[0] = DefaultSchedule
  BY <1>1, <1>5 DEF ParseSolves
<1> QED
  BY <1>1, <1>4, <1>6, ParseIs

(* What a command sets.                                                    *)
LEMMA CommandSets ==
  ASSUME NEW s, NEW i \in 1 .. 11, NEW r, NEW t, r = AfterCommands(s, i - 1), t = AfterCommands(s, i)
  PROVE  /\ r = [x \in ScheduleFields |-> r[x]] /\ t = [x \in ScheduleFields |-> t[x]]
         /\ \A x \in ScheduleFields : IF CommandOf(x) = i THEN t[x] = s[x] ELSE t[x] = r[x]
<1>1. \A x \in ScheduleFields : CommandOf(x) \in 1 .. 12
  BY DEF CommandOf
<1>2. \A n \in 1 .. 12 : n # i => (n <= i - 1 <=> n <= i)
  OBVIOUS
<1> QED
  BY <1>1, <1>2 DEF AfterCommands

(* Reading the commands of a text one by one.                              *)
LEMMA CommandsAreParsed ==
  ASSUME NEW s \in AnySchedule, NEW n \in 1 .. 11
  PROVE  ParseOne(AfterCommands(s, n - 1), PrintSchedule(s)[n]) = AfterCommands(s, n)
<1>1. ASSUME n = 1 PROVE ParseOne(AfterCommands(s, n - 1), PrintSchedule(s)[n]) = AfterCommands(s, n)
  <2>1. PrintSchedule(s)[1] = [key |-> "order", value |-> s.order]
    BY DEF PrintSchedule
  <2>2. \A r : ParseOne(r, [key |-> "order", value |-> s.order]) = [r EXCEPT !.order = s.order]
    BY DEF ParseOne
  <2>3. [AfterCommands(s, 0) EXCEPT !.order = s.order] = AfterCommands(s, 1)
    <3>1. PICK r, t : r = AfterCommands(s, 0) /\ t = AfterCommands(s, 1)
      OBVIOUS
    <3>2. /\ r = [x \in ScheduleFields |-> r[x]] /\ t = [x \in ScheduleFields |-> t[x]]
          /\ \A x \in ScheduleFields : IF CommandOf(x) = 1 THEN t[x] = s[x] ELSE t[x] = r[x]
      BY <3>1, CommandSets, 1 - 1 = 0, 1 \in 1 .. 11
    <3>3. \A x \in ScheduleFields : CommandOf(x) = 1 <=> x \in {"order"}
      BY DEF CommandOf, ScheduleFields
    <3>4. t.order = s.order
      <4>1. {"order"} \subseteq ScheduleFields
        BY DEF ScheduleFields
      <4> QED
        BY <3>2, <3>3, <4>1
    <3>5. \A x \in ScheduleFields : x \notin {"order"} => t[x] = r[x]
      BY <3>2, <3>3
    <3>6. [r EXCEPT !.order = s.order] = t
      BY <3>2, <3>4, <3>5
    <3> QED
      BY <3>1, <3>6
  <2>4. n - 1 = 0
    BY <1>1
  <2> QED
    BY <1>1, <2>1, <2>2, <2>3, <2>4
<1>2. ASSUME n = 2 PROVE ParseOne(AfterCommands(s, n - 1), PrintSchedule(s)[n]) = AfterCommands(s, n)
  <2>1. PrintSchedule(s)[2] = [key |-> "outer", values |-> <<s.mc, s.nc, s.kc>>]
    BY DEF PrintSchedule
  <2>2. \A r : ParseOne(r, [key |-> "outer", values |-> <<s.mc, s.nc, s.kc>>]) = [r EXCEPT !.mc = s.mc, !.nc = s.nc, !.kc = s.kc]
    BY DEF ParseOne
  <2>3. [AfterCommands(s, 1) EXCEPT !.mc = s.mc, !.nc = s.nc, !.kc = s.kc] = AfterCommands(s, 2)
    <3>1. PICK r, t : r = AfterCommands(s, 1) /\ t = AfterCommands(s, 2)
      OBVIOUS
    <3>2. /\ r = [x \in ScheduleFields |-> r[x]] /\ t = [x \in ScheduleFields |-> t[x]]
          /\ \A x \in ScheduleFields : IF CommandOf(x) = 2 THEN t[x] = s[x] ELSE t[x] = r[x]
      BY <3>1, CommandSets, 2 - 1 = 1, 2 \in 1 .. 11
    <3>3. \A x \in ScheduleFields : CommandOf(x) = 2 <=> x \in {"mc", "nc", "kc"}
      BY DEF CommandOf, ScheduleFields
    <3>4. t.mc = s.mc /\ t.nc = s.nc /\ t.kc = s.kc
      <4>1. {"mc", "nc", "kc"} \subseteq ScheduleFields
        BY DEF ScheduleFields
      <4> QED
        BY <3>2, <3>3, <4>1
    <3>5. \A x \in ScheduleFields : x \notin {"mc", "nc", "kc"} => t[x] = r[x]
      BY <3>2, <3>3
    <3>6. [r EXCEPT !.mc = s.mc, !.nc = s.nc, !.kc = s.kc] = t
      BY <3>2, <3>4, <3>5
    <3> QED
      BY <3>1, <3>6
  <2>4. n - 1 = 1
    BY <1>2
  <2> QED
    BY <1>2, <2>1, <2>2, <2>3, <2>4
<1>3. ASSUME n = 3 PROVE ParseOne(AfterCommands(s, n - 1), PrintSchedule(s)[n]) = AfterCommands(s, n)
  <2>1. PrintSchedule(s)[3] = [key |-> "tile", values |-> <<s.bm, s.bn, s.bk>>]
    BY DEF PrintSchedule
  <2>2. \A r : ParseOne(r, [key |-> "tile", values |-> <<s.bm, s.bn, s.bk>>]) = [r EXCEPT !.bm = s.bm, !.bn = s.bn, !.bk = s.bk]
    BY DEF ParseOne
  <2>3. [AfterCommands(s, 2) EXCEPT !.bm = s.bm, !.bn = s.bn, !.bk = s.bk] = AfterCommands(s, 3)
    <3>1. PICK r, t : r = AfterCommands(s, 2) /\ t = AfterCommands(s, 3)
      OBVIOUS
    <3>2. /\ r = [x \in ScheduleFields |-> r[x]] /\ t = [x \in ScheduleFields |-> t[x]]
          /\ \A x \in ScheduleFields : IF CommandOf(x) = 3 THEN t[x] = s[x] ELSE t[x] = r[x]
      BY <3>1, CommandSets, 3 - 1 = 2, 3 \in 1 .. 11
    <3>3. \A x \in ScheduleFields : CommandOf(x) = 3 <=> x \in {"bm", "bn", "bk"}
      BY DEF CommandOf, ScheduleFields
    <3>4. t.bm = s.bm /\ t.bn = s.bn /\ t.bk = s.bk
      <4>1. {"bm", "bn", "bk"} \subseteq ScheduleFields
        BY DEF ScheduleFields
      <4> QED
        BY <3>2, <3>3, <4>1
    <3>5. \A x \in ScheduleFields : x \notin {"bm", "bn", "bk"} => t[x] = r[x]
      BY <3>2, <3>3
    <3>6. [r EXCEPT !.bm = s.bm, !.bn = s.bn, !.bk = s.bk] = t
      BY <3>2, <3>4, <3>5
    <3> QED
      BY <3>1, <3>6
  <2>4. n - 1 = 2
    BY <1>3
  <2> QED
    BY <1>3, <2>1, <2>2, <2>3, <2>4
<1>4. ASSUME n = 4 PROVE ParseOne(AfterCommands(s, n - 1), PrintSchedule(s)[n]) = AfterCommands(s, n)
  <2>1. PrintSchedule(s)[4] = [key |-> "micro", values |-> <<s.mr, s.nr>>]
    BY DEF PrintSchedule
  <2>2. \A r : ParseOne(r, [key |-> "micro", values |-> <<s.mr, s.nr>>]) = [r EXCEPT !.mr = s.mr, !.nr = s.nr]
    BY DEF ParseOne
  <2>3. [AfterCommands(s, 3) EXCEPT !.mr = s.mr, !.nr = s.nr] = AfterCommands(s, 4)
    <3>1. PICK r, t : r = AfterCommands(s, 3) /\ t = AfterCommands(s, 4)
      OBVIOUS
    <3>2. /\ r = [x \in ScheduleFields |-> r[x]] /\ t = [x \in ScheduleFields |-> t[x]]
          /\ \A x \in ScheduleFields : IF CommandOf(x) = 4 THEN t[x] = s[x] ELSE t[x] = r[x]
      BY <3>1, CommandSets, 4 - 1 = 3, 4 \in 1 .. 11
    <3>3. \A x \in ScheduleFields : CommandOf(x) = 4 <=> x \in {"mr", "nr"}
      BY DEF CommandOf, ScheduleFields
    <3>4. t.mr = s.mr /\ t.nr = s.nr
      <4>1. {"mr", "nr"} \subseteq ScheduleFields
        BY DEF ScheduleFields
      <4> QED
        BY <3>2, <3>3, <4>1
    <3>5. \A x \in ScheduleFields : x \notin {"mr", "nr"} => t[x] = r[x]
      BY <3>2, <3>3
    <3>6. [r EXCEPT !.mr = s.mr, !.nr = s.nr] = t
      BY <3>2, <3>4, <3>5
    <3> QED
      BY <3>1, <3>6
  <2>4. n - 1 = 3
    BY <1>4
  <2> QED
    BY <1>4, <2>1, <2>2, <2>3, <2>4
<1>5. ASSUME n = 5 PROVE ParseOne(AfterCommands(s, n - 1), PrintSchedule(s)[n]) = AfterCommands(s, n)
  <2>1. PrintSchedule(s)[5] = [key |-> "vector", value |-> s.width]
    BY DEF PrintSchedule
  <2>2. \A r : ParseOne(r, [key |-> "vector", value |-> s.width]) = [r EXCEPT !.width = s.width]
    BY DEF ParseOne
  <2>3. [AfterCommands(s, 4) EXCEPT !.width = s.width] = AfterCommands(s, 5)
    <3>1. PICK r, t : r = AfterCommands(s, 4) /\ t = AfterCommands(s, 5)
      OBVIOUS
    <3>2. /\ r = [x \in ScheduleFields |-> r[x]] /\ t = [x \in ScheduleFields |-> t[x]]
          /\ \A x \in ScheduleFields : IF CommandOf(x) = 5 THEN t[x] = s[x] ELSE t[x] = r[x]
      BY <3>1, CommandSets, 5 - 1 = 4, 5 \in 1 .. 11
    <3>3. \A x \in ScheduleFields : CommandOf(x) = 5 <=> x \in {"width"}
      BY DEF CommandOf, ScheduleFields
    <3>4. t.width = s.width
      <4>1. {"width"} \subseteq ScheduleFields
        BY DEF ScheduleFields
      <4> QED
        BY <3>2, <3>3, <4>1
    <3>5. \A x \in ScheduleFields : x \notin {"width"} => t[x] = r[x]
      BY <3>2, <3>3
    <3>6. [r EXCEPT !.width = s.width] = t
      BY <3>2, <3>4, <3>5
    <3> QED
      BY <3>1, <3>6
  <2>4. n - 1 = 4
    BY <1>5
  <2> QED
    BY <1>5, <2>1, <2>2, <2>3, <2>4
<1>6. ASSUME n = 6 PROVE ParseOne(AfterCommands(s, n - 1), PrintSchedule(s)[n]) = AfterCommands(s, n)
  <2>1. PrintSchedule(s)[6] = [key |-> "unroll", value |-> s.unroll]
    BY DEF PrintSchedule
  <2>2. \A r : ParseOne(r, [key |-> "unroll", value |-> s.unroll]) = [r EXCEPT !.unroll = s.unroll]
    BY DEF ParseOne
  <2>3. [AfterCommands(s, 5) EXCEPT !.unroll = s.unroll] = AfterCommands(s, 6)
    <3>1. PICK r, t : r = AfterCommands(s, 5) /\ t = AfterCommands(s, 6)
      OBVIOUS
    <3>2. /\ r = [x \in ScheduleFields |-> r[x]] /\ t = [x \in ScheduleFields |-> t[x]]
          /\ \A x \in ScheduleFields : IF CommandOf(x) = 6 THEN t[x] = s[x] ELSE t[x] = r[x]
      BY <3>1, CommandSets, 6 - 1 = 5, 6 \in 1 .. 11
    <3>3. \A x \in ScheduleFields : CommandOf(x) = 6 <=> x \in {"unroll"}
      BY DEF CommandOf, ScheduleFields
    <3>4. t.unroll = s.unroll
      <4>1. {"unroll"} \subseteq ScheduleFields
        BY DEF ScheduleFields
      <4> QED
        BY <3>2, <3>3, <4>1
    <3>5. \A x \in ScheduleFields : x \notin {"unroll"} => t[x] = r[x]
      BY <3>2, <3>3
    <3>6. [r EXCEPT !.unroll = s.unroll] = t
      BY <3>2, <3>4, <3>5
    <3> QED
      BY <3>1, <3>6
  <2>4. n - 1 = 5
    BY <1>6
  <2> QED
    BY <1>6, <2>1, <2>2, <2>3, <2>4
<1>7. ASSUME n = 7 PROVE ParseOne(AfterCommands(s, n - 1), PrintSchedule(s)[n]) = AfterCommands(s, n)
  <2>1. PrintSchedule(s)[7] = [key |-> "threads", value |-> s.threads]
    BY DEF PrintSchedule
  <2>2. \A r : ParseOne(r, [key |-> "threads", value |-> s.threads]) = [r EXCEPT !.threads = s.threads]
    BY DEF ParseOne
  <2>3. [AfterCommands(s, 6) EXCEPT !.threads = s.threads] = AfterCommands(s, 7)
    <3>1. PICK r, t : r = AfterCommands(s, 6) /\ t = AfterCommands(s, 7)
      OBVIOUS
    <3>2. /\ r = [x \in ScheduleFields |-> r[x]] /\ t = [x \in ScheduleFields |-> t[x]]
          /\ \A x \in ScheduleFields : IF CommandOf(x) = 7 THEN t[x] = s[x] ELSE t[x] = r[x]
      BY <3>1, CommandSets, 7 - 1 = 6, 7 \in 1 .. 11
    <3>3. \A x \in ScheduleFields : CommandOf(x) = 7 <=> x \in {"threads"}
      BY DEF CommandOf, ScheduleFields
    <3>4. t.threads = s.threads
      <4>1. {"threads"} \subseteq ScheduleFields
        BY DEF ScheduleFields
      <4> QED
        BY <3>2, <3>3, <4>1
    <3>5. \A x \in ScheduleFields : x \notin {"threads"} => t[x] = r[x]
      BY <3>2, <3>3
    <3>6. [r EXCEPT !.threads = s.threads] = t
      BY <3>2, <3>4, <3>5
    <3> QED
      BY <3>1, <3>6
  <2>4. n - 1 = 6
    BY <1>7
  <2> QED
    BY <1>7, <2>1, <2>2, <2>3, <2>4
<1>8. ASSUME n = 8 PROVE ParseOne(AfterCommands(s, n - 1), PrintSchedule(s)[n]) = AfterCommands(s, n)
  <2>1. PrintSchedule(s)[8] = [key |-> "pack", value |-> <<s.packA, s.packB>>]
    BY DEF PrintSchedule
  <2>2. \A r : ParseOne(r, [key |-> "pack", value |-> <<s.packA, s.packB>>]) = [r EXCEPT !.packA = s.packA, !.packB = s.packB]
    BY DEF ParseOne
  <2>3. [AfterCommands(s, 7) EXCEPT !.packA = s.packA, !.packB = s.packB] = AfterCommands(s, 8)
    <3>1. PICK r, t : r = AfterCommands(s, 7) /\ t = AfterCommands(s, 8)
      OBVIOUS
    <3>2. /\ r = [x \in ScheduleFields |-> r[x]] /\ t = [x \in ScheduleFields |-> t[x]]
          /\ \A x \in ScheduleFields : IF CommandOf(x) = 8 THEN t[x] = s[x] ELSE t[x] = r[x]
      BY <3>1, CommandSets, 8 - 1 = 7, 8 \in 1 .. 11
    <3>3. \A x \in ScheduleFields : CommandOf(x) = 8 <=> x \in {"packA", "packB"}
      BY DEF CommandOf, ScheduleFields
    <3>4. t.packA = s.packA /\ t.packB = s.packB
      <4>1. {"packA", "packB"} \subseteq ScheduleFields
        BY DEF ScheduleFields
      <4> QED
        BY <3>2, <3>3, <4>1
    <3>5. \A x \in ScheduleFields : x \notin {"packA", "packB"} => t[x] = r[x]
      BY <3>2, <3>3
    <3>6. [r EXCEPT !.packA = s.packA, !.packB = s.packB] = t
      BY <3>2, <3>4, <3>5
    <3> QED
      BY <3>1, <3>6
  <2>4. n - 1 = 7
    BY <1>8
  <2> QED
    BY <1>8, <2>1, <2>2, <2>3, <2>4
<1>9. ASSUME n = 9 PROVE ParseOne(AfterCommands(s, n - 1), PrintSchedule(s)[n]) = AfterCommands(s, n)
  <2>1. PrintSchedule(s)[9] = [key |-> "prefetch", value |-> s.distance]
    BY DEF PrintSchedule
  <2>2. \A r : ParseOne(r, [key |-> "prefetch", value |-> s.distance]) = [r EXCEPT !.distance = s.distance]
    BY DEF ParseOne
  <2>3. [AfterCommands(s, 8) EXCEPT !.distance = s.distance] = AfterCommands(s, 9)
    <3>1. PICK r, t : r = AfterCommands(s, 8) /\ t = AfterCommands(s, 9)
      OBVIOUS
    <3>2. /\ r = [x \in ScheduleFields |-> r[x]] /\ t = [x \in ScheduleFields |-> t[x]]
          /\ \A x \in ScheduleFields : IF CommandOf(x) = 9 THEN t[x] = s[x] ELSE t[x] = r[x]
      BY <3>1, CommandSets, 9 - 1 = 8, 9 \in 1 .. 11
    <3>3. \A x \in ScheduleFields : CommandOf(x) = 9 <=> x \in {"distance"}
      BY DEF CommandOf, ScheduleFields
    <3>4. t.distance = s.distance
      <4>1. {"distance"} \subseteq ScheduleFields
        BY DEF ScheduleFields
      <4> QED
        BY <3>2, <3>3, <4>1
    <3>5. \A x \in ScheduleFields : x \notin {"distance"} => t[x] = r[x]
      BY <3>2, <3>3
    <3>6. [r EXCEPT !.distance = s.distance] = t
      BY <3>2, <3>4, <3>5
    <3> QED
      BY <3>1, <3>6
  <2>4. n - 1 = 8
    BY <1>9
  <2> QED
    BY <1>9, <2>1, <2>2, <2>3, <2>4
<1>10. ASSUME n = 10 PROVE ParseOne(AfterCommands(s, n - 1), PrintSchedule(s)[n]) = AfterCommands(s, n)
  <2>1. PrintSchedule(s)[10] = [key |-> "fuse", value |-> s.fused]
    BY DEF PrintSchedule
  <2>2. \A r : ParseOne(r, [key |-> "fuse", value |-> s.fused]) = [r EXCEPT !.fused = s.fused]
    BY DEF ParseOne
  <2>3. [AfterCommands(s, 9) EXCEPT !.fused = s.fused] = AfterCommands(s, 10)
    <3>1. PICK r, t : r = AfterCommands(s, 9) /\ t = AfterCommands(s, 10)
      OBVIOUS
    <3>2. /\ r = [x \in ScheduleFields |-> r[x]] /\ t = [x \in ScheduleFields |-> t[x]]
          /\ \A x \in ScheduleFields : IF CommandOf(x) = 10 THEN t[x] = s[x] ELSE t[x] = r[x]
      BY <3>1, CommandSets, 10 - 1 = 9, 10 \in 1 .. 11
    <3>3. \A x \in ScheduleFields : CommandOf(x) = 10 <=> x \in {"fused"}
      BY DEF CommandOf, ScheduleFields
    <3>4. t.fused = s.fused
      <4>1. {"fused"} \subseteq ScheduleFields
        BY DEF ScheduleFields
      <4> QED
        BY <3>2, <3>3, <4>1
    <3>5. \A x \in ScheduleFields : x \notin {"fused"} => t[x] = r[x]
      BY <3>2, <3>3
    <3>6. [r EXCEPT !.fused = s.fused] = t
      BY <3>2, <3>4, <3>5
    <3> QED
      BY <3>1, <3>6
  <2>4. n - 1 = 9
    BY <1>10
  <2> QED
    BY <1>10, <2>1, <2>2, <2>3, <2>4
<1>11. ASSUME n = 11 PROVE ParseOne(AfterCommands(s, n - 1), PrintSchedule(s)[n]) = AfterCommands(s, n)
  <2>1. PrintSchedule(s)[11] = [key |-> "pin", value |-> s.pinned]
    BY DEF PrintSchedule
  <2>2. \A r : ParseOne(r, [key |-> "pin", value |-> s.pinned]) = [r EXCEPT !.pinned = s.pinned]
    BY DEF ParseOne
  <2>3. [AfterCommands(s, 10) EXCEPT !.pinned = s.pinned] = AfterCommands(s, 11)
    <3>1. PICK r, t : r = AfterCommands(s, 10) /\ t = AfterCommands(s, 11)
      OBVIOUS
    <3>2. /\ r = [x \in ScheduleFields |-> r[x]] /\ t = [x \in ScheduleFields |-> t[x]]
          /\ \A x \in ScheduleFields : IF CommandOf(x) = 11 THEN t[x] = s[x] ELSE t[x] = r[x]
      BY <3>1, CommandSets, 11 - 1 = 10, 11 \in 1 .. 11
    <3>3. \A x \in ScheduleFields : CommandOf(x) = 11 <=> x \in {"pinned"}
      BY DEF CommandOf, ScheduleFields
    <3>4. t.pinned = s.pinned
      <4>1. {"pinned"} \subseteq ScheduleFields
        BY DEF ScheduleFields
      <4> QED
        BY <3>2, <3>3, <4>1
    <3>5. \A x \in ScheduleFields : x \notin {"pinned"} => t[x] = r[x]
      BY <3>2, <3>3
    <3>6. [r EXCEPT !.pinned = s.pinned] = t
      BY <3>2, <3>4, <3>5
    <3> QED
      BY <3>1, <3>6
  <2>4. n - 1 = 10
    BY <1>11
  <2> QED
    BY <1>11, <2>1, <2>2, <2>3, <2>4
<1> QED
  BY <1>1, <1>2, <1>3, <1>4, <1>5, <1>6, <1>7, <1>8, <1>9, <1>10, <1>11

(* ScheduleDSL: a tiled schedule comes back from its text.                 *)
LEMMA TextKeepsSchedule ==
  ASSUME NEW s \in TiledSchedules
  PROVE  ParseSchedule(PrintSchedule(s)) = s
<1>1. PICK text : text = PrintSchedule(s)
  OBVIOUS
<1>2. Len(text) = 11 /\ s \in AnySchedule /\ s.tiled = TRUE
  BY <1>1 DEF PrintSchedule, TiledSchedules, AnySchedule
<1>3. AfterCommands(s, 0) = DefaultSchedule
  <2>1. DefaultSchedule = [x \in ScheduleFields |-> DefaultSchedule[x]]
    BY DefaultIsASchedule, ScheduleIsItsFields DEF TiledSchedules
  <2>2. \A x \in ScheduleFields : ~ (CommandOf(x) <= 0)
    BY DEF CommandOf
  <2> QED
    BY <2>1, <2>2 DEF AfterCommands
<1>4. AfterCommands(s, 11) = s
  <2>1. s = [x \in ScheduleFields |-> s[x]]
    BY <1>2, ScheduleIsItsFields
  <2>2. \A x \in ScheduleFields : x = "tiled" \/ CommandOf(x) <= 11
    BY DEF CommandOf, ScheduleFields
  <2>3. s["tiled"] = DefaultSchedule["tiled"]
    BY <1>2 DEF DefaultSchedule
  <2> QED
    BY <2>1, <2>2, <2>3 DEF AfterCommands
<1>5. \A n \in 1 .. 11 : ParseOne(AfterCommands(s, n - 1), text[n]) = AfterCommands(s, n)
  BY <1>1, <1>2, CommandsAreParsed
<1>6. \E f : ParseSolves(f, text)
  <2> DEFINE g == [n \in 0 .. 11 |-> AfterCommands(s, n)]
  <2>1. ASSUME NEW n \in 0 .. 11
        PROVE  g[n] = IF n = 0 THEN DefaultSchedule ELSE ParseOne(g[n - 1], text[n])
    <3>1. n # 0 => n - 1 \in 0 .. 11 /\ n \in 1 .. 11
      OBVIOUS
    <3>2. g[n] = AfterCommands(s, n) /\ (n # 0 => g[n - 1] = AfterCommands(s, n - 1))
      BY <3>1
    <3> HIDE DEF g
    <3> QED
      BY <1>3, <1>5, <3>1, <3>2
  <2>2. g = [n \in 0 .. 11 |-> g[n]]
    OBVIOUS
  <2> HIDE DEF g
  <2>3. g = [n \in 0 .. 11 |-> IF n = 0 THEN DefaultSchedule ELSE ParseOne(g[n - 1], text[n])]
    BY <2>1, <2>2
  <2> QED
    BY <1>2, <2>3 DEF ParseSolves
<1>7. PICK f : f = CHOOSE g : ParseSolves(g, text)
  OBVIOUS
<1>8. f = [n \in 0 .. 11 |-> IF n = 0 THEN DefaultSchedule ELSE ParseOne(f[n - 1], text[n])]
  <2>1. ParseSolves(f, text)
    BY <1>6, <1>7
  <2> QED
    BY <1>2, <2>1 DEF ParseSolves
<1> DEFINE S == [n \in 0 .. 11 |-> {AfterCommands(s, n)}]
<1>9. f[0] \in S[0]
  BY <1>3, <1>8
<1>10. \A i \in 1 .. 11 : f[i - 1] \in S[i - 1] => f[i] \in S[i]
  <2> TAKE i \in 1 .. 11
  <2>1. i - 1 \in 0 .. 11 /\ i \in 0 .. 11 /\ i # 0
    OBVIOUS
  <2>2. f[i] = ParseOne(f[i - 1], text[i])
    BY <1>8, <2>1
  <2>3. S[i - 1] = {AfterCommands(s, i - 1)} /\ S[i] = {AfterCommands(s, i)}
    BY <2>1
  <2> HIDE DEF S
  <2> QED
    BY <1>5, <2>2, <2>3
<1>11. f[11] \in S[11]
  <2> HIDE DEF S
  <2>1. 11 \in Nat /\ 11 \in 0 .. 11
    OBVIOUS
  <2> QED
    BY <1>9, <1>10, <2>1, IterationStays
<1>12. f[11] = AfterCommands(s, 11)
  BY <1>11
<1> QED
  BY <1>1, <1>2, <1>4, <1>7, <1>12, ParseIs

(* The search space.                                                       *)
(* A schedule of the search space.                                         *)
Tried(bm, bn, bk, mr, width, workers, mode, distance, unroll) ==
  [DefaultSchedule EXCEPT
     !.bm = bm, !.bn = bn, !.bk = bk,
     !.mc = Greatest(64, bm * 2), !.nc = Greatest(64, bn * 2), !.kc = Greatest(32, bk),
     !.mr = mr,
     !.nr = IF width >= Lanes /\ mode = 0 /\ mr <= WideRows THEN 2 * Lanes ELSE width,
     !.width = width, !.threads = workers, !.unroll = unroll,
     !.packA = mode = 2, !.packB = mode >= 1,
     !.distance = distance, !.pinned = workers > 1]

(* It is a tiled schedule, whatever it is made of.                         *)
LEMMA TriedType ==
  ASSUME NEW bm \in Nat \ {0}, NEW bn \in Nat \ {0}, NEW bk \in Nat \ {0}, NEW mr \in Nat \ {0},
         NEW width \in Nat \ {0}, NEW workers \in Nat \ {0}, NEW mode \in 0 .. 2,
         NEW distance \in Nat, NEW unroll \in Nat \ {0}
  PROVE  Tried(bm, bn, bk, mr, width, workers, mode, distance, unroll) \in TiledSchedules
<1>1. PICK mc, nc, kc, nr \in Int :
        /\ mc = Greatest(64, bm * 2) /\ nc = Greatest(64, bn * 2) /\ kc = Greatest(32, bk)
        /\ nr = IF width >= Lanes /\ mode = 0 /\ mr <= WideRows THEN 2 * Lanes ELSE width
  <2>1. Greatest(64, bm * 2) \in Int /\ Greatest(64, bn * 2) \in Int /\ Greatest(32, bk) \in Int
    BY DEF Greatest
  <2>2. Lanes \in Nat
    BY RegistersAssumption
  <2>3. (IF width >= Lanes /\ mode = 0 /\ mr <= WideRows THEN 2 * Lanes ELSE width) \in Int
    BY <2>2
  <2> QED
    BY <2>1, <2>3
<1>2. PICK packA, packB, pinned \in BOOLEAN :
        packA = (mode = 2) /\ packB = (mode >= 1) /\ pinned = (workers > 1)
  <2>1. (mode = 2) \in BOOLEAN /\ (mode >= 1) \in BOOLEAN /\ (workers > 1) \in BOOLEAN
    OBVIOUS
  <2> QED
    BY <2>1, Zenon
<1> DEFINE s == [DefaultSchedule EXCEPT
                   !.bm = bm, !.bn = bn, !.bk = bk, !.mc = mc, !.nc = nc, !.kc = kc,
                   !.mr = mr, !.nr = nr, !.width = width, !.threads = workers, !.unroll = unroll,
                   !.packA = packA, !.packB = packB, !.distance = distance, !.pinned = pinned]
<1>3. Tried(bm, bn, bk, mr, width, workers, mode, distance, unroll) = s
  BY <1>1, <1>2, ZenonT(60) DEF Tried
<1>4. \A r \in TiledSchedules : \A v \in Int :
        /\ [r EXCEPT !.bm = v] \in TiledSchedules /\ [r EXCEPT !.bn = v] \in TiledSchedules
        /\ [r EXCEPT !.bk = v] \in TiledSchedules /\ [r EXCEPT !.mc = v] \in TiledSchedules
        /\ [r EXCEPT !.nc = v] \in TiledSchedules /\ [r EXCEPT !.kc = v] \in TiledSchedules
        /\ [r EXCEPT !.mr = v] \in TiledSchedules /\ [r EXCEPT !.nr = v] \in TiledSchedules
        /\ [r EXCEPT !.width = v] \in TiledSchedules /\ [r EXCEPT !.threads = v] \in TiledSchedules
        /\ [r EXCEPT !.unroll = v] \in TiledSchedules /\ [r EXCEPT !.distance = v] \in TiledSchedules
  BY DEF TiledSchedules, AnySchedule
<1>5. \A r \in TiledSchedules : \A v \in BOOLEAN :
        /\ [r EXCEPT !.packA = v] \in TiledSchedules /\ [r EXCEPT !.packB = v] \in TiledSchedules
        /\ [r EXCEPT !.pinned = v] \in TiledSchedules
  BY DEF TiledSchedules, AnySchedule
<1>6. s \in TiledSchedules
  <2> /\ bm \in Int /\ bn \in Int /\ bk \in Int /\ mr \in Int /\ width \in Int /\ workers \in Int
      /\ distance \in Int /\ unroll \in Int
    OBVIOUS
  <2>1. PICK d \in TiledSchedules : d = DefaultSchedule
    BY DefaultIsASchedule
  <2>2. PICK r2 \in TiledSchedules : r2 = [d EXCEPT !.bm = bm]
    BY <1>4
  <2>3. PICK r3 \in TiledSchedules : r3 = [r2 EXCEPT !.bn = bn]
    BY <1>4
  <2>4. PICK r4 \in TiledSchedules : r4 = [r3 EXCEPT !.bk = bk]
    BY <1>4
  <2>5. PICK r5 \in TiledSchedules : r5 = [r4 EXCEPT !.mc = mc]
    BY <1>4
  <2>6. PICK r6 \in TiledSchedules : r6 = [r5 EXCEPT !.nc = nc]
    BY <1>4
  <2>7. PICK r7 \in TiledSchedules : r7 = [r6 EXCEPT !.kc = kc]
    BY <1>4
  <2>8. PICK r8 \in TiledSchedules : r8 = [r7 EXCEPT !.mr = mr]
    BY <1>4
  <2>9. PICK r9 \in TiledSchedules : r9 = [r8 EXCEPT !.nr = nr]
    BY <1>4
  <2>10. PICK r10 \in TiledSchedules : r10 = [r9 EXCEPT !.width = width]
    BY <1>4
  <2>11. PICK r11 \in TiledSchedules : r11 = [r10 EXCEPT !.threads = workers]
    BY <1>4
  <2>12. PICK r12 \in TiledSchedules : r12 = [r11 EXCEPT !.unroll = unroll]
    BY <1>4
  <2>13. PICK r13 \in TiledSchedules : r13 = [r12 EXCEPT !.packA = packA]
    BY <1>5
  <2>14. PICK r14 \in TiledSchedules : r14 = [r13 EXCEPT !.packB = packB]
    BY <1>5
  <2>15. PICK r15 \in TiledSchedules : r15 = [r14 EXCEPT !.distance = distance]
    BY <1>4
  <2>16. PICK r16 \in TiledSchedules : r16 = [r15 EXCEPT !.pinned = pinned]
    BY <1>5
  <2>17. s = r16
    BY ONLY <2>1, <2>2, <2>3, <2>4, <2>5, <2>6, <2>7, <2>8, <2>9, <2>10, <2>11, <2>12, <2>13, <2>14, <2>15, <2>16, Zenon
  <2> QED
    BY <2>17
<1> QED
  BY <1>3, <1>6

(* The thread counts that are tried are positive.                          *)
LEMMA ThreadCountsType ==
  ASSUME NEW n
  PROVE  ThreadCounts(n) \in Seq(Nat \ {0})
<1> DEFINE g == [i \in DOMAIN TeamSizes |-> IF TeamSizes[i] <= n THEN <<TeamSizes[i]>> ELSE <<>>]
<1>1. ThreadCounts(n) = <<1>> \o FlattenSeq(g)
  BY ZenonT(60) DEF ThreadCounts, ForEach
<1>2. PICK k \in Nat : DOMAIN TeamSizes = 1 .. k /\ \A i \in 1 .. k : TeamSizes[i] \in Nat \ {0}
  <2>1. TeamSizes \in Seq(Nat \ {0})
    BY SpaceAssumption
  <2> QED
    BY <2>1, DomainIs
<1>3. g \in [1 .. k -> Seq(Nat \ {0})]
  <2>1. \A x \in Nat \ {0} : (IF x <= n THEN <<x>> ELSE <<>>) \in Seq(Nat \ {0})
    <3> TAKE x \in Nat \ {0}
    <3>1. <<x>> \in Seq(Nat \ {0}) /\ <<>> \in Seq(Nat \ {0})
      OBVIOUS
    <3> QED
      BY <3>1
  <2> QED
    BY <1>2, <2>1
<1> HIDE DEF g
<1>4. FlattenSeq(g) \in Seq(Nat \ {0})
  BY <1>3, FlattenTyped
<1>5. <<1>> \in Seq(Nat \ {0})
  OBVIOUS
<1> QED
  BY <1>1, <1>4, <1>5, Concatenation

(* Every schedule of the search space is a tiled one.                      *)
LEMMA SearchSpaceType ==
  ASSUME NEW n
  PROVE  SearchSpace(n) \in Seq(TiledSchedules)
<1> DEFINE team == ThreadCounts(n)
           L9(a, b, c, d, e, f, g, h) == [i \in DOMAIN Unrolls |-> <<Tried(a, b, c, d, e, f, g, h, Unrolls[i])>>]
           L8(a, b, c, d, e, f, g) == [i \in DOMAIN Prefetches |-> FlattenSeq(L9(a, b, c, d, e, f, g, Prefetches[i]))]
           L7(a, b, c, d, e, f) == [i \in DOMAIN PackingModes |-> FlattenSeq(L8(a, b, c, d, e, f, PackingModes[i]))]
           L6(a, b, c, d, e) == [i \in DOMAIN team |-> FlattenSeq(L7(a, b, c, d, e, team[i]))]
           L5(a, b, c, d) == [i \in DOMAIN Widths |-> FlattenSeq(L6(a, b, c, d, Widths[i]))]
           L4(a, b, c) == [i \in DOMAIN RowTiles |-> FlattenSeq(L5(a, b, c, RowTiles[i]))]
           L3(a, b) == [i \in DOMAIN KTiles |-> FlattenSeq(L4(a, b, KTiles[i]))]
           L2(a) == [i \in DOMAIN Tiles |-> FlattenSeq(L3(a, Tiles[i]))]
           L1 == [i \in DOMAIN Tiles |-> FlattenSeq(L2(Tiles[i]))]
<1>1. SearchSpace(n) = FlattenSeq(L1)
  BY ZenonT(60) DEF SearchSpace, ForEach, Tried
<1>2. team \in Seq(Nat \ {0})
  BY ThreadCountsType
<1>3. /\ Tiles \in Seq(Nat \ {0}) /\ KTiles \in Seq(Nat \ {0}) /\ RowTiles \in Seq(Nat \ {0})
      /\ Widths \in Seq(Nat \ {0}) /\ Unrolls \in Seq(Nat \ {0})
      /\ PackingModes \in Seq(0 .. 2) /\ Prefetches \in Seq(Nat)
  BY SpaceAssumption
<1> HIDE DEF team
<1>4. PICK nTiles \in Nat : DOMAIN Tiles = 1 .. nTiles /\ \A i \in 1 .. nTiles : Tiles[i] \in Nat \ {0}
  BY <1>2, <1>3, DomainIs
<1>5. PICK nKTiles \in Nat : DOMAIN KTiles = 1 .. nKTiles /\ \A i \in 1 .. nKTiles : KTiles[i] \in Nat \ {0}
  BY <1>2, <1>3, DomainIs
<1>6. PICK nRowTiles \in Nat : DOMAIN RowTiles = 1 .. nRowTiles /\ \A i \in 1 .. nRowTiles : RowTiles[i] \in Nat \ {0}
  BY <1>2, <1>3, DomainIs
<1>7. PICK nWidths \in Nat : DOMAIN Widths = 1 .. nWidths /\ \A i \in 1 .. nWidths : Widths[i] \in Nat \ {0}
  BY <1>2, <1>3, DomainIs
<1>8. PICK nteam \in Nat : DOMAIN team = 1 .. nteam /\ \A i \in 1 .. nteam : team[i] \in Nat \ {0}
  BY <1>2, <1>3, DomainIs
<1>9. PICK nPackingModes \in Nat : DOMAIN PackingModes = 1 .. nPackingModes /\ \A i \in 1 .. nPackingModes : PackingModes[i] \in 0 .. 2
  BY <1>2, <1>3, DomainIs
<1>10. PICK nPrefetches \in Nat : DOMAIN Prefetches = 1 .. nPrefetches /\ \A i \in 1 .. nPrefetches : Prefetches[i] \in Nat
  BY <1>2, <1>3, DomainIs
<1>11. PICK nUnrolls \in Nat : DOMAIN Unrolls = 1 .. nUnrolls /\ \A i \in 1 .. nUnrolls : Unrolls[i] \in Nat \ {0}
  BY <1>2, <1>3, DomainIs
<1>12. ASSUME NEW a \in Nat \ {0}, NEW b \in Nat \ {0}, NEW c \in Nat \ {0}, NEW d \in Nat \ {0}, NEW e \in Nat \ {0}, NEW f \in Nat \ {0}, NEW g \in 0 .. 2, NEW h \in Nat
      PROVE  FlattenSeq(L9(a, b, c, d, e, f, g, h)) \in Seq(TiledSchedules)
  <2>1. L9(a, b, c, d, e, f, g, h) \in [1 .. nUnrolls -> Seq(TiledSchedules)]
    <3>1. \A x \in Nat \ {0} : <<Tried(a, b, c, d, e, f, g, h, x)>> \in Seq(TiledSchedules)
      <4> TAKE x \in Nat \ {0}
      <4>1. Tried(a, b, c, d, e, f, g, h, x) \in TiledSchedules
        BY TriedType
      <4> QED
        BY <4>1
    <3> QED
      BY <1>11, <3>1
  <2> HIDE DEF L9
  <2> QED
    BY <2>1, FlattenTyped
<1>13. ASSUME NEW a \in Nat \ {0}, NEW b \in Nat \ {0}, NEW c \in Nat \ {0}, NEW d \in Nat \ {0}, NEW e \in Nat \ {0}, NEW f \in Nat \ {0}, NEW g \in 0 .. 2
      PROVE  FlattenSeq(L8(a, b, c, d, e, f, g)) \in Seq(TiledSchedules)
  <2>1. L8(a, b, c, d, e, f, g) \in [1 .. nPrefetches -> Seq(TiledSchedules)]
    <3> HIDE DEF L9
    <3> QED
      BY <1>10, <1>12
  <2> HIDE DEF L8
  <2> QED
    BY <2>1, FlattenTyped
<1>14. ASSUME NEW a \in Nat \ {0}, NEW b \in Nat \ {0}, NEW c \in Nat \ {0}, NEW d \in Nat \ {0}, NEW e \in Nat \ {0}, NEW f \in Nat \ {0}
      PROVE  FlattenSeq(L7(a, b, c, d, e, f)) \in Seq(TiledSchedules)
  <2>1. L7(a, b, c, d, e, f) \in [1 .. nPackingModes -> Seq(TiledSchedules)]
    <3> HIDE DEF L8
    <3> QED
      BY <1>9, <1>13
  <2> HIDE DEF L7
  <2> QED
    BY <2>1, FlattenTyped
<1>15. ASSUME NEW a \in Nat \ {0}, NEW b \in Nat \ {0}, NEW c \in Nat \ {0}, NEW d \in Nat \ {0}, NEW e \in Nat \ {0}
      PROVE  FlattenSeq(L6(a, b, c, d, e)) \in Seq(TiledSchedules)
  <2>1. L6(a, b, c, d, e) \in [1 .. nteam -> Seq(TiledSchedules)]
    <3> HIDE DEF L7
    <3> QED
      BY <1>8, <1>14
  <2> HIDE DEF L6
  <2> QED
    BY <2>1, FlattenTyped
<1>16. ASSUME NEW a \in Nat \ {0}, NEW b \in Nat \ {0}, NEW c \in Nat \ {0}, NEW d \in Nat \ {0}
      PROVE  FlattenSeq(L5(a, b, c, d)) \in Seq(TiledSchedules)
  <2>1. L5(a, b, c, d) \in [1 .. nWidths -> Seq(TiledSchedules)]
    <3> HIDE DEF L6
    <3> QED
      BY <1>7, <1>15
  <2> HIDE DEF L5
  <2> QED
    BY <2>1, FlattenTyped
<1>17. ASSUME NEW a \in Nat \ {0}, NEW b \in Nat \ {0}, NEW c \in Nat \ {0}
      PROVE  FlattenSeq(L4(a, b, c)) \in Seq(TiledSchedules)
  <2>1. L4(a, b, c) \in [1 .. nRowTiles -> Seq(TiledSchedules)]
    <3> HIDE DEF L5
    <3> QED
      BY <1>6, <1>16
  <2> HIDE DEF L4
  <2> QED
    BY <2>1, FlattenTyped
<1>18. ASSUME NEW a \in Nat \ {0}, NEW b \in Nat \ {0}
      PROVE  FlattenSeq(L3(a, b)) \in Seq(TiledSchedules)
  <2>1. L3(a, b) \in [1 .. nKTiles -> Seq(TiledSchedules)]
    <3> HIDE DEF L4
    <3> QED
      BY <1>5, <1>17
  <2> HIDE DEF L3
  <2> QED
    BY <2>1, FlattenTyped
<1>19. ASSUME NEW a \in Nat \ {0}
      PROVE  FlattenSeq(L2(a)) \in Seq(TiledSchedules)
  <2>1. L2(a) \in [1 .. nTiles -> Seq(TiledSchedules)]
    <3> HIDE DEF L3
    <3> QED
      BY <1>4, <1>18
  <2> HIDE DEF L2
  <2> QED
    BY <2>1, FlattenTyped
<1>20. FlattenSeq(L1) \in Seq(TiledSchedules)
  <2>1. L1 \in [1 .. nTiles -> Seq(TiledSchedules)]
    <3> HIDE DEF L2
    <3> QED
      BY <1>4, <1>19
  <2> HIDE DEF L1
  <2> QED
    BY <2>1, FlattenTyped
<1> HIDE DEF L1
<1> QED
  BY <1>1, <1>20

(* The candidates of a search.                                             *)
KeepIfNew(kept, s) ==
  IF Valid(s) /\ \A i \in DOMAIN kept : ExecutionKey(kept[i]) # ExecutionKey(s)
    THEN Append(kept, s) ELSE kept

CandidatesSolves(f, space) ==
  f = [n \in 0 .. Len(space) |-> IF n = 0 THEN <<>> ELSE KeepIfNew(f[n - 1], space[n])]

LEMMA CandidatesIs ==
  ASSUME NEW workers
  PROVE  LET space == SearchSpace(Greatest(1, workers))
         IN Candidates(workers) = (CHOOSE f : CandidatesSolves(f, space))[Len(space)]
BY ZenonT(60) DEF Candidates, CandidatesSolves, KeepIfNew

(* Keeping a candidate keeps the list of candidates typed.                 *)
LEMMA KeepIfNewType ==
  ASSUME NEW T, NEW kept \in Seq(T), NEW s \in T
  PROVE  KeepIfNew(kept, s) \in Seq(T)
BY DEF KeepIfNew

(* The candidates are the default schedule and schedules of the space.     *)
(* They come step by step from the schedules of the space.                 *)
CandidatesStepwise(f, space) ==
  /\ f[0] = <<>>
  /\ \A i \in 1 .. Len(space) : f[i] = KeepIfNew(f[i - 1], space[i])
  /\ \A i \in 0 .. Len(space) : f[i] \in Seq(TiledSchedules)

LEMMA CandidatesGrow ==
  ASSUME NEW workers
  PROVE  LET space == SearchSpace(Greatest(1, workers))
         IN \E f : CandidatesStepwise(f, space) /\ Candidates(workers) = f[Len(space)]
<1>1. PICK space : space = SearchSpace(Greatest(1, workers))
  OBVIOUS
<1>2. space \in Seq(TiledSchedules)
  BY <1>1, SearchSpaceType
<1>3. PICK n \in Nat : n = Len(space)
  BY <1>2
<1>4. \A i \in 1 .. n : space[i] \in TiledSchedules
  BY <1>2, <1>3
<1> DEFINE S == [i \in 0 .. n |-> Seq(TiledSchedules)]
<1>5. \E f : CandidatesSolves(f, space)
  <2> DEFINE step == [i \in 1 .. n |-> [x \in Seq(TiledSchedules) |-> KeepIfNew(x, space[i])]]
             base == <<>>
  <2>1. base \in S[0]
    OBVIOUS
  <2>2. \A i \in 1 .. n : S[i - 1] = Seq(TiledSchedules) /\ S[i] = Seq(TiledSchedules)
    OBVIOUS
  <2>3. \A i \in 1 .. n : \A x \in Seq(TiledSchedules) : step[i][x] = KeepIfNew(x, space[i]) /\ step[i][x] \in Seq(TiledSchedules)
    BY <1>4, KeepIfNewType
  <2>4. \A i \in 1 .. n : \A x \in S[i - 1] : step[i][x] \in S[i]
    BY <2>2, <2>3
  <2> HIDE DEF S, step, base
  <2>5. PICK f : Iterates(f, base, step, n) /\ \A i \in 0 .. n : f[i] \in S[i]
    BY <2>1, <2>4, IterationExists
  <2>6. ASSUME NEW i \in 0 .. n
        PROVE  (IF i = 0 THEN base ELSE step[i][f[i - 1]]) = (IF i = 0 THEN base ELSE KeepIfNew(f[i - 1], space[i]))
    <3>1. i # 0 => i - 1 \in 0 .. n /\ i \in 1 .. n
      OBVIOUS
    <3> QED
      BY <2>2, <2>3, <2>5, <3>1
  <2>7. f = [i \in 0 .. n |-> IF i = 0 THEN base ELSE KeepIfNew(f[i - 1], space[i])]
    BY <2>5, <2>6 DEF Iterates
  <2> QED
    BY <1>3, <2>7 DEF CandidatesSolves, base
<1>6. PICK f : f = CHOOSE g : CandidatesSolves(g, space)
  OBVIOUS
<1>7. f = [i \in 0 .. n |-> IF i = 0 THEN <<>> ELSE KeepIfNew(f[i - 1], space[i])]
  <2>1. CandidatesSolves(f, space)
    BY <1>5, <1>6
  <2> QED
    BY <1>3, <2>1 DEF CandidatesSolves
<1>8. f[0] \in S[0]
  <2>1. f[0] = <<>>
    BY <1>7
  <2> QED
    BY <2>1
<1>9. \A i \in 1 .. n : f[i - 1] \in S[i - 1] => f[i] \in S[i]
  <2> TAKE i \in 1 .. n
  <2>1. i - 1 \in 0 .. n /\ i \in 0 .. n /\ i # 0
    OBVIOUS
  <2>2. f[i] = KeepIfNew(f[i - 1], space[i])
    BY <1>7, <2>1
  <2>3. S[i - 1] = Seq(TiledSchedules) /\ S[i] = Seq(TiledSchedules)
    BY <2>1
  <2> HIDE DEF S
  <2> QED
    BY <1>4, <2>2, <2>3, KeepIfNewType
<1>10. \A i \in 0 .. n : f[i] \in S[i]
  <2> HIDE DEF S
  <2>1. ASSUME NEW i \in 0 .. n PROVE f[i] \in S[i]
    <3>1. i \in Nat /\ \A j \in 1 .. i : j \in 1 .. n
      OBVIOUS
    <3>2. \A j \in 1 .. i : f[j - 1] \in S[j - 1] => f[j] \in S[j]
      BY <1>9, <3>1
    <3>3. i \in 0 .. i
      BY <3>1
    <3> QED
      BY <1>8, <3>1, <3>2, <3>3, IterationStays
  <2> QED
    BY <2>1
<1>11. \A i \in 0 .. n : f[i] \in Seq(TiledSchedules)
  BY <1>10
<1>12. Candidates(workers) = f[n]
  BY <1>1, <1>3, <1>6, CandidatesIs
<1>13. f[0] = <<>> /\ \A i \in 1 .. n : f[i] = KeepIfNew(f[i - 1], space[i])
  BY <1>7
<1> HIDE DEF S
<1>14. CandidatesStepwise(f, space)
  BY <1>3, <1>11, <1>13 DEF CandidatesStepwise
<1> QED
  BY <1>1, <1>3, <1>12, <1>14

LEMMA CandidatesType ==
  ASSUME NEW workers
  PROVE  Candidates(workers) \in Seq(TiledSchedules)
<1>1. PICK space : space = SearchSpace(Greatest(1, workers))
  OBVIOUS
<1>2. PICK f : CandidatesStepwise(f, space) /\ Candidates(workers) = f[Len(space)]
  BY <1>1, CandidatesGrow
<1>3. Len(space) \in Nat
  BY <1>1, SearchSpaceType
<1> QED
  BY <1>2, <1>3 DEF CandidatesStepwise

-----------------------------------------------------------------------------
(***************************************************************************)
(* Static pruning: schedules of one execution key make the workers do the  *)
(* same, and every valid schedule of the space has its key kept.           *)
(***************************************************************************)
(* What RegisterKernel reads of a plan: the tiles it uses, *)
(* the rows of a micro-kernel, and whether the epilogue is fused.           *)
RegisterTile(p, mr, fused, ii, iEnd, jj, jEnd) ==
  ForEach(Steps(ii, iEnd, mr), LAMBDA i0 :
     LET i1 == Least(i0 + mr, iEnd)
     IN ForEach(ColumnBlocks(jj, jEnd, i1 - i0), LAMBDA block :
          Store(i0, i1, block[1], block[2], IF fused THEN EpilogueOf(p) ELSE <<>>)))
  \o IF fused THEN <<>> ELSE Epilogue(ii, iEnd, jj, jEnd, EpilogueOf(p))

RegisterTiles(p, bm, bn, mr, fused, lo, hi) ==
  ForEach(Steps(lo, hi, bm), LAMBDA ii : ForEach(Steps(0, p.n, bn), LAMBDA jj :
    RegisterTile(p, mr, fused, ii, Least(ii + bm, hi), jj, Least(jj + bn, p.n))))

LEMMA RegisterReads ==
  ASSUME NEW p, NEW pl, NEW lo, NEW hi
  PROVE  RegisterKernel(p, pl, lo, hi) =
           RegisterTiles(p, IF pl.tiled THEN Greatest(1, pl.bm) ELSE hi - lo,
                         IF pl.tiled THEN Greatest(Lanes, pl.bn) ELSE p.n,
                         Clamp(pl.mr, 1, MicroRows), pl.fused, lo, hi)
BY ZenonT(60) DEF RegisterKernel, RegisterTiles, RegisterTile, Fused

(* A loop with a step that reaches its end has one iteration.              *)
LEMMA OneStep ==
  ASSUME NEW lo \in Int, NEW hi \in Int, lo < hi, NEW step \in Int, step >= hi - lo
  PROVE  Steps(lo, hi, step) = <<lo>>
<1>1. CeilDiv(hi - lo, step) = 1
  <2>1. PICK d \in Nat \ {0} : d = hi - lo
    OBVIOUS
  <2>2. step \in Nat \ {0} /\ step * 1 <= d + step - 1 /\ d + step - 1 < step * 1 + step /\ d + step - 1 \in Int
    BY <2>1
  <2>3. (d + step - 1) \div step = 1
    BY <2>2, DivUnique
  <2> QED
    BY <2>1, <2>3 DEF CeilDiv
<1>2. Steps(lo, hi, step) = [i \in 1 .. 1 |-> lo + (i - 1) * step]
  BY <1>1 DEF Steps
<1>3. \A i \in 1 .. 1 : lo + (i - 1) * step = lo
  <2> TAKE i \in 1 .. 1
  <2>1. i - 1 = 0 /\ 0 * step = 0
    OBVIOUS
  <2> QED
    BY <2>1
<1>4. Steps(lo, hi, step) = [i \in 1 .. 1 |-> lo]
  BY <1>2, <1>3
<1> QED
  BY <1>4

(* Larger tiles than the rows and columns are all alike.                   *)
LEMMA WholeTilesAreAlike ==
  ASSUME NEW p, p.n \in Nat \ {0}, NEW lo \in Nat, NEW hi \in Nat, lo < hi,
         NEW bm \in Int, bm >= hi - lo, NEW bn \in Int, bn >= p.n,
         NEW cm \in Int, cm >= hi - lo, NEW cn \in Int, cn >= p.n,
         NEW mr, NEW fused
  PROVE  RegisterTiles(p, bm, bn, mr, fused, lo, hi) = RegisterTiles(p, cm, cn, mr, fused, lo, hi)
<1> DEFINE B(ii, jj) == RegisterTile(p, mr, fused, ii, Least(ii + bm, hi), jj, Least(jj + bn, p.n))
           C(ii, jj) == RegisterTile(p, mr, fused, ii, Least(ii + cm, hi), jj, Least(jj + cn, p.n))
           rowB(ii) == ForEach(Steps(0, p.n, bn), LAMBDA jj : B(ii, jj))
           rowC(ii) == ForEach(Steps(0, p.n, cn), LAMBDA jj : C(ii, jj))
<1>1. /\ Steps(lo, hi, bm) = <<lo>> /\ Steps(0, p.n, bn) = <<0>>
      /\ Steps(lo, hi, cm) = <<lo>> /\ Steps(0, p.n, cn) = <<0>>
  BY OneStep
<1>2. /\ Least(lo + bm, hi) = hi /\ Least(lo + cm, hi) = hi
      /\ Least(0 + bn, p.n) = p.n /\ Least(0 + cn, p.n) = p.n
  BY DEF Least
<1>3. B(lo, 0) = C(lo, 0)
  BY <1>2
<1>4. RegisterTiles(p, bm, bn, mr, fused, lo, hi) = ForEach(<<lo>>, rowB)
  <2>1. RegisterTiles(p, bm, bn, mr, fused, lo, hi) = ForEach(Steps(lo, hi, bm), rowB)
    BY Zenon DEF RegisterTiles
  <2> HIDE DEF rowB
  <2> QED
    BY <1>1, <2>1
<1>5. RegisterTiles(p, cm, cn, mr, fused, lo, hi) = ForEach(<<lo>>, rowC)
  <2>1. RegisterTiles(p, cm, cn, mr, fused, lo, hi) = ForEach(Steps(lo, hi, cm), rowC)
    BY Zenon DEF RegisterTiles
  <2> HIDE DEF rowC
  <2> QED
    BY <1>1, <2>1
<1>6. rowB(lo) = FlattenSeq([j \in DOMAIN <<0>> |-> B(lo, <<0>>[j])]) /\ rowC(lo) = FlattenSeq([j \in DOMAIN <<0>> |-> C(lo, <<0>>[j])])
  <2>1. rowB(lo) = FlattenSeq([j \in DOMAIN Steps(0, p.n, bn) |-> B(lo, Steps(0, p.n, bn)[j])])
    BY Zenon DEF ForEach
  <2>2. rowC(lo) = FlattenSeq([j \in DOMAIN Steps(0, p.n, cn) |-> C(lo, Steps(0, p.n, cn)[j])])
    BY Zenon DEF ForEach
  <2> HIDE DEF B, C, rowB, rowC
  <2> QED
    BY <1>1, <2>1, <2>2
<1> HIDE DEF B, C
<1>7. [j \in DOMAIN <<0>> |-> B(lo, <<0>>[j])] = [j \in DOMAIN <<0>> |-> C(lo, <<0>>[j])]
  BY <1>3
<1>8. rowB(lo) = rowC(lo)
  BY <1>6, <1>7
<1> HIDE DEF rowB, rowC
<1>9. [i \in DOMAIN <<lo>> |-> rowB(<<lo>>[i])] = [i \in DOMAIN <<lo>> |-> rowC(<<lo>>[i])]
  BY <1>8
<1>10. ForEach(<<lo>>, rowB) = ForEach(<<lo>>, rowC)
  BY <1>9, Zenon DEF ForEach
<1> QED
  BY <1>4, <1>5, <1>10

(* The plan of a schedule that a register kernel runs.                     *)
RegisterPlan(p, s, pl) ==
  /\ pl.bm = Greatest(1, s.bm) /\ pl.bn = Greatest(1, s.bn) /\ pl.mr = Greatest(1, s.mr)
  /\ pl.tiled = (\/ Greatest(1, s.bm) < p.m \/ Greatest(1, s.bn) < p.n
                 \/ Greatest(1, s.bk) < p.k)
  /\ pl.width >= Lanes /\ ~ pl.packA /\ ~ pl.packB
  /\ pl.threads = (IF s.threads > 1 THEN Greatest(1, s.threads) ELSE 1)
  /\ pl.fused = ((IF s.fused THEN <<>> ELSE EpilogueOps(p)) = <<>>)

LEMMA PlanOfRegisters ==
  ASSUME NEW p, NEW s \in TiledSchedules, InRegisters(s), NEW pl, pl = Analyze(ApplySchedule(p, s))
  PROVE  RegisterPlan(p, s, pl)
<1> DEFINE width == Greatest(1, s.width)
           update == s.order = "ikj" /\ width = 1 /\ ~s.packA /\ ~s.packB
           Tile(size, extent) == IF s.tiled THEN Greatest(1, size) ELSE extent
           tree ==
             [problem  |-> p,
              nest     |-> IF update THEN <<"ii", "kk", "jj", "i", "k", "j">>
                                     ELSE <<"ii", "jj", "i", "j", "kk", "k">>,
              step     |-> [ii |-> Tile(s.bm, p.m), jj |-> Tile(s.bn, p.n), kk |-> Tile(s.bk, p.k),
                            i |-> IF width > 1 THEN Greatest(1, s.mr) ELSE 1,
                            j |-> IF width > 1 THEN Greatest(width, s.nr) ELSE 1,
                            k |-> Greatest(1, s.unroll)],
              width    |-> width,
              packA    |-> s.packA,
              packB    |-> s.packB,
              distance |-> Greatest(0, s.distance),
              parallel |-> s.threads > 1,
              threads  |-> Greatest(1, s.threads),
              pinned   |-> s.pinned,
              inner    |-> IF s.fused /\ ~update THEN EpilogueOps(p) ELSE <<>>,
              top      |-> TopLevelEpilogue(p, s),
              cached   |-> <<>>]
<1>1. ApplySchedule(p, s) = Analyzed(tree)
  BY Zenon DEF ApplySchedule
<1>2. PICK l : l = tree
  OBVIOUS
<1>3. /\ s.width \in Int /\ s.width >= Lanes /\ Lanes \in Nat /\ Lanes > 1 /\ s.tiled = TRUE
      /\ ~ s.packA /\ ~ s.packB
  BY RegistersAssumption DEF TiledSchedules, AnySchedule, InRegisters
<1>4. width = s.width /\ width > 1 /\ ~ (s.width <= 1)
  BY <1>3 DEF Greatest
<1>5. \A size, extent : Tile(size, extent) = Greatest(1, size)
  BY <1>3
<1>6. TopLevelEpilogue(p, s) = IF s.fused THEN <<>> ELSE EpilogueOps(p)
  BY <1>4 DEF TopLevelEpilogue
<1> HIDE DEF width, update, Tile
<1>7. /\ l.problem = p /\ l.width = width /\ l.packA = s.packA /\ l.packB = s.packB
      /\ l.parallel = (s.threads > 1) /\ l.threads = Greatest(1, s.threads)
      /\ l.cached = <<>> /\ l.top = TopLevelEpilogue(p, s)
      /\ l.step.ii = Tile(s.bm, p.m) /\ l.step.jj = Tile(s.bn, p.n) /\ l.step.kk = Tile(s.bk, p.k)
      /\ l.step.i = (IF width > 1 THEN Greatest(1, s.mr) ELSE 1)
  BY <1>2, Zenon
<1>8. PICK q : q = PlanOfTree(l)
  OBVIOUS
<1>9. pl = q
  <2>1. Analyze(l) = q
    BY <1>7, <1>8 DEF Analyze
  <2>2. PICK new : new = Analyzed(l)
    OBVIOUS
  <2>3. new.cached = <<q>>
    <3>1. l = [f \in DOMAIN l |-> l[f]] /\ "cached" \in DOMAIN l
      BY <1>2
    <3> HIDE DEF tree
    <3> QED
      BY <2>1, <2>2, <3>1 DEF Analyzed
  <2>4. Analyze(new) = q
    BY <2>3 DEF Analyze
  <2> HIDE DEF tree
  <2> QED
    BY <1>1, <1>2, <2>2, <2>4
<1> HIDE DEF tree
<1>10. /\ q.bm = l.step.ii /\ q.bn = l.step.jj /\ q.mr = l.step.i
       /\ q.width = l.width /\ q.packA = l.packA /\ q.packB = l.packB
       /\ q.threads = (IF l.parallel THEN l.threads ELSE 1)
  BY <1>8, Zenon DEF PlanOfTree
<1>11. q.tiled = (\/ l.step.ii < l.problem.m \/ l.step.jj < l.problem.n \/ l.step.kk < l.problem.k)
  BY <1>8, Zenon DEF PlanOfTree
<1>12. q.fused = (l.top = <<>>)
  BY <1>8, Zenon DEF PlanOfTree
<1>13. q.bm = Greatest(1, s.bm) /\ q.bn = Greatest(1, s.bn) /\ q.mr = Greatest(1, s.mr)
  BY <1>4, <1>5, <1>7, <1>10
<1>14. q.tiled = (\/ Greatest(1, s.bm) < p.m \/ Greatest(1, s.bn) < p.n \/ Greatest(1, s.bk) < p.k)
  BY <1>5, <1>7, <1>11, Zenon
<1>15. q.width >= Lanes /\ ~ q.packA /\ ~ q.packB
  BY <1>3, <1>4, <1>7, <1>10
<1>16. q.threads = (IF s.threads > 1 THEN Greatest(1, s.threads) ELSE 1)
  BY <1>7, <1>10, Zenon
<1>17. q.fused = ((IF s.fused THEN <<>> ELSE EpilogueOps(p)) = <<>>)
  BY <1>6, <1>7, <1>12, Zenon
<1> QED
  BY <1>9, <1>13, <1>14, <1>15, <1>16, <1>17, Zenon DEF RegisterPlan

(* A register kernel of two plans that agree in what it reads: a tile that *)
(* has all the rows and columns may be called tiled or not.                *)
LEMMA SameRegisterKernel ==
  ASSUME NEW p, p.m \in Nat \ {0}, p.n \in Nat \ {0}, NEW lo \in Nat, NEW hi \in Nat,
         lo < hi, hi <= p.m,
         NEW a, NEW b, a.bm \in Nat \ {0}, a.bn \in Nat \ {0}, b.bm = a.bm, b.bn = a.bn,
         Clamp(a.mr, 1, MicroRows) = Clamp(b.mr, 1, MicroRows), a.fused = b.fused,
         a.tiled \in BOOLEAN, b.tiled \in BOOLEAN,
         a.tiled # b.tiled => a.bm >= p.m /\ a.bn >= p.n
  PROVE  RegisterKernel(p, a, lo, hi) = RegisterKernel(p, b, lo, hi)
<1> DEFINE tiles(bm, bn) == RegisterTiles(p, bm, bn, Clamp(a.mr, 1, MicroRows), a.fused, lo, hi)
           bmOf(r) == IF r.tiled THEN Greatest(1, r.bm) ELSE hi - lo
           bnOf(r) == IF r.tiled THEN Greatest(Lanes, r.bn) ELSE p.n
<1>1. RegisterKernel(p, a, lo, hi) = tiles(bmOf(a), bnOf(a))
  BY RegisterReads, Zenon
<1>2. RegisterKernel(p, b, lo, hi) = tiles(bmOf(b), bnOf(b))
  BY RegisterReads, Zenon
<1>3. CASE a.tiled = b.tiled
  <2>1. bmOf(a) = bmOf(b) /\ bnOf(a) = bnOf(b)
    BY <1>3
  <2> HIDE DEF tiles, bmOf, bnOf
  <2> QED
    BY <1>1, <1>2, <2>1
<1>4. CASE a.tiled # b.tiled
  <2>1. Lanes \in Nat
    BY RegistersAssumption
  <2>2. /\ bmOf(a) \in Int /\ bmOf(a) >= hi - lo /\ bnOf(a) \in Int /\ bnOf(a) >= p.n
        /\ bmOf(b) \in Int /\ bmOf(b) >= hi - lo /\ bnOf(b) \in Int /\ bnOf(b) >= p.n
    BY <1>4, <2>1 DEF Greatest
  <2> HIDE DEF bmOf, bnOf
  <2>3. tiles(bmOf(a), bnOf(a)) = tiles(bmOf(b), bnOf(b))
    BY <2>2, WholeTilesAreAlike
  <2> HIDE DEF tiles
  <2> QED
    BY <1>1, <1>2, <2>3
<1> QED
  BY <1>3, <1>4

(* Schedules of one execution key make the workers do the same.            *)
LEMMA SameKeySameFields ==
  ASSUME NEW s \in TiledSchedules, NEW t \in TiledSchedules, ExecutionKey(s) = ExecutionKey(t)
  PROVE  \/ s = t
         \/ /\ InRegisters(s) /\ InRegisters(t)
            /\ s.bm = t.bm /\ s.bn = t.bn /\ s.threads = t.threads /\ s.fused = t.fused
            /\ Least(s.mr, MicroRows) = Least(t.mr, MicroRows)
<1> DEFINE short(r) == << [key |-> "register",
                           values |-> <<r.bm, r.bn, Least(r.mr, MicroRows), r.threads>>],
                          [key |-> "fuse", value |-> r.fused], [key |-> "pin", value |-> r.pinned] >>
<1>1. \A r : ExecutionKey(r) = IF InRegisters(r) THEN short(r) ELSE PrintSchedule(r)
  BY Zenon DEF ExecutionKey
<1>2. \A r : Len(short(r)) = 3
  OBVIOUS
<1>3. \A r : Len(PrintSchedule(r)) = 11
  BY DEF PrintSchedule
<1>4. ASSUME short(s) = short(t)
      PROVE  /\ s.bm = t.bm /\ s.bn = t.bn /\ s.threads = t.threads /\ s.fused = t.fused
             /\ Least(s.mr, MicroRows) = Least(t.mr, MicroRows)
  <2>1. PICK x, y : x = Least(s.mr, MicroRows) /\ y = Least(t.mr, MicroRows)
    OBVIOUS
  <2>2. /\ short(s)[1] = [key |-> "register", values |-> <<s.bm, s.bn, x, s.threads>>]
        /\ short(t)[1] = [key |-> "register", values |-> <<t.bm, t.bn, y, t.threads>>]
        /\ short(s)[2].value = s.fused /\ short(t)[2].value = t.fused
    BY <2>1
  <2>3. <<s.bm, s.bn, x, s.threads>> = <<t.bm, t.bn, y, t.threads>>
    BY <1>4, <2>2
  <2>4. s.bm = t.bm /\ s.bn = t.bn /\ s.threads = t.threads /\ x = y
    BY <2>3
  <2> QED
    BY <1>4, <2>1, <2>2, <2>4
<1> HIDE DEF short
<1>5. CASE InRegisters(s) /\ InRegisters(t)
  BY <1>1, <1>4, <1>5
<1>6. CASE ~ InRegisters(s) /\ ~ InRegisters(t)
  <2>1. PrintSchedule(s) = PrintSchedule(t)
    BY <1>1, <1>6
  <2>2. ParseSchedule(PrintSchedule(s)) = s /\ ParseSchedule(PrintSchedule(t)) = t
    BY TextKeepsSchedule
  <2> QED
    BY <2>1, <2>2
<1>7. InRegisters(s) <=> InRegisters(t)
  BY <1>1, <1>2, <1>3
<1> QED
  BY <1>5, <1>6, <1>7

LEMMA SameKeySameWork ==
  ASSUME NEW p, p.m \in Nat \ {0}, p.n \in Nat \ {0}, p.k \in Nat \ {0},
         NEW s \in TiledSchedules, NEW t \in TiledSchedules, ExecutionKey(s) = ExecutionKey(t)
  PROVE  WorkOf(p, s) = WorkOf(p, t)
<1>1. SUFFICES ASSUME /\ InRegisters(s) /\ InRegisters(t)
                      /\ s.bm = t.bm /\ s.bn = t.bn /\ s.threads = t.threads /\ s.fused = t.fused
                      /\ Least(s.mr, MicroRows) = Least(t.mr, MicroRows)
               PROVE  WorkOf(p, s) = WorkOf(p, t)
  BY SameKeySameFields
<1>2. PICK a : a = Analyze(ApplySchedule(p, s))
  OBVIOUS
<1>3. PICK b : b = Analyze(ApplySchedule(p, t))
  OBVIOUS
<1>4. /\ s.bm \in Int /\ s.bn \in Int /\ s.bk \in Int /\ s.mr \in Int /\ s.threads \in Int
      /\ t.bk \in Int /\ t.mr \in Int /\ MicroRows \in Nat \ {0}
  BY RegistersAssumption DEF TiledSchedules, AnySchedule
<1>5. /\ a.bm = Greatest(1, s.bm) /\ a.bn = Greatest(1, s.bn) /\ a.mr = Greatest(1, s.mr)
      /\ a.tiled = (\/ Greatest(1, s.bm) < p.m \/ Greatest(1, s.bn) < p.n \/ Greatest(1, s.bk) < p.k)
      /\ a.width >= Lanes /\ ~ a.packA /\ ~ a.packB
      /\ a.threads = (IF s.threads > 1 THEN Greatest(1, s.threads) ELSE 1)
      /\ a.fused = ((IF s.fused THEN <<>> ELSE EpilogueOps(p)) = <<>>)
  <2>1. RegisterPlan(p, s, a)
    BY <1>1, <1>2, PlanOfRegisters
  <2> QED
    BY <2>1 DEF RegisterPlan
<1>6. /\ b.bm = Greatest(1, t.bm) /\ b.bn = Greatest(1, t.bn) /\ b.mr = Greatest(1, t.mr)
      /\ b.tiled = (\/ Greatest(1, t.bm) < p.m \/ Greatest(1, t.bn) < p.n \/ Greatest(1, t.bk) < p.k)
      /\ b.width >= Lanes /\ ~ b.packA /\ ~ b.packB
      /\ b.threads = (IF t.threads > 1 THEN Greatest(1, t.threads) ELSE 1)
      /\ b.fused = ((IF t.fused THEN <<>> ELSE EpilogueOps(p)) = <<>>)
  <2>1. RegisterPlan(p, t, b)
    BY <1>1, <1>3, PlanOfRegisters
  <2> QED
    BY <2>1 DEF RegisterPlan
<1>7. \A x \in Int : Greatest(1, x) \in Nat \ {0}
  BY DEF Greatest
<1>8. a.threads = b.threads /\ a.threads \in Int
  <2>1. Greatest(1, s.threads) \in Int
    BY <1>4, <1>7
  <2> QED
    BY <1>1, <1>4, <1>5, <1>6, <2>1
<1>9. a.fused = b.fused
  BY <1>1, <1>5, <1>6, Zenon
<1>10. Clamp(a.mr, 1, MicroRows) = Clamp(b.mr, 1, MicroRows)
  BY <1>1, <1>4, <1>5, <1>6 DEF Clamp, Greatest, Least
<1>11. /\ a.bm \in Nat \ {0} /\ a.bn \in Nat \ {0} /\ b.bm = a.bm /\ b.bn = a.bn
       /\ a.tiled \in BOOLEAN /\ b.tiled \in BOOLEAN
  BY <1>1, <1>4, <1>5, <1>6, <1>7
<1>12. a.tiled # b.tiled => a.bm >= p.m /\ a.bn >= p.n
  <2>1. PICK x, y \in Nat \ {0} : x = Greatest(1, s.bk) /\ y = Greatest(1, t.bk)
    BY <1>4, <1>7
  <2>2. a.tiled = (a.bm < p.m \/ a.bn < p.n \/ x < p.k)
    BY <1>5, <2>1, Zenon
  <2>3. b.tiled = (b.bm < p.m \/ b.bn < p.n \/ y < p.k)
    BY <1>6, <2>1, Zenon
  <2>4. ASSUME a.bm < p.m \/ a.bn < p.n PROVE a.tiled = b.tiled
    BY <1>11, <2>2, <2>3, <2>4
  <2> QED
    BY <1>11, <2>4
<1>13. ASSUME NEW w \in Nat PROVE Work(p, a, w) = Work(p, b, w)
  <2>1. PICK lo, hi : lo = RowBegin(p.m, a.threads, w) /\ hi = RowEnd(p.m, a.threads, w)
    OBVIOUS
  <2>2. /\ Work(p, a, w) = IF lo < hi THEN Kernel(p, a, lo, hi) ELSE <<>>
        /\ Work(p, b, w) = IF lo < hi THEN Kernel(p, b, lo, hi) ELSE <<>>
    BY <1>8, <2>1 DEF Work
  <2>3. lo \in Nat /\ hi \in Nat /\ hi <= p.m
    <3>1. PICK c \in Nat : c = RowsPerThread(p.m, a.threads)
      BY <1>8, ChunkType
    <3> QED
      BY <2>1, <3>1 DEF RowBegin, RowEnd, Least
  <2>4. Kernel(p, a, lo, hi) = RegisterKernel(p, a, lo, hi) /\ Kernel(p, b, lo, hi) = RegisterKernel(p, b, lo, hi)
    BY <1>5, <1>6 DEF Kernel
  <2>5. CASE lo < hi
    BY <1>9, <1>10, <1>11, <1>12, <2>2, <2>3, <2>4, <2>5, SameRegisterKernel
  <2> QED
    BY <2>2, <2>5
<1>14. Team(p, a) = Team(p, b) /\ Team(p, a) \subseteq Nat
  BY <1>8 DEF Team
<1>15. WorkOf(p, s) = [w \in Team(p, a) |-> Work(p, a, w)] /\ WorkOf(p, t) = [w \in Team(p, b) |-> Work(p, b, w)]
  BY <1>2, <1>3 DEF WorkOf
<1> QED
  BY <1>13, <1>14, <1>15

(* What is kept has the keys of all the valid schedules before.            *)
LEMMA KeepIfNewCovers ==
  ASSUME NEW kept \in Seq(TiledSchedules), NEW s
  PROVE  /\ Valid(s) => \E j \in DOMAIN KeepIfNew(kept, s) : ExecutionKey(KeepIfNew(kept, s)[j]) = ExecutionKey(s)
         /\ \A j \in DOMAIN kept : j \in DOMAIN KeepIfNew(kept, s) /\ KeepIfNew(kept, s)[j] = kept[j]
<1>1. CASE Valid(s) /\ \A i \in DOMAIN kept : ExecutionKey(kept[i]) # ExecutionKey(s)
  <2>1. KeepIfNew(kept, s) = Append(kept, s)
    BY <1>1 DEF KeepIfNew
  <2>2. PICK longer : longer = Append(kept, s)
    OBVIOUS
  <2>3. /\ DOMAIN longer = 1 .. Len(kept) + 1 /\ longer[Len(kept) + 1] = s
        /\ \A j \in 1 .. Len(kept) : longer[j] = kept[j]
        /\ DOMAIN kept = 1 .. Len(kept) /\ Len(kept) \in Nat
    BY <2>2
  <2>4. Len(kept) + 1 \in DOMAIN longer /\ \A j \in DOMAIN kept : j \in DOMAIN longer
    BY <2>3
  <2> QED
    BY <2>1, <2>2, <2>3, <2>4
<1>2. CASE ~ (Valid(s) /\ \A i \in DOMAIN kept : ExecutionKey(kept[i]) # ExecutionKey(s))
  <2>1. KeepIfNew(kept, s) = kept
    BY <1>2 DEF KeepIfNew
  <2> QED
    BY <1>2, <2>1
<1> QED
  BY <1>1, <1>2

(* Whether the schedules before a place of the space have their keys kept. *)
KeysKept(kept, space, n) ==
  \A i \in 1 .. n : Valid(space[i]) => \E j \in DOMAIN kept : ExecutionKey(kept[j]) = ExecutionKey(space[i])

LEMMA CandidatesCover ==
  ASSUME NEW workers, NEW s \in ToSet(SearchSpace(Greatest(1, workers))), Valid(s)
  PROVE  \E c \in ToSet(Candidates(workers)) : ExecutionKey(c) = ExecutionKey(s)
<1>1. PICK space : space = SearchSpace(Greatest(1, workers))
  OBVIOUS
<1>2. PICK f : CandidatesStepwise(f, space) /\ Candidates(workers) = f[Len(space)]
  BY <1>1, CandidatesGrow
<1>3. space \in Seq(TiledSchedules)
  BY <1>1, SearchSpaceType
<1>4. PICK n \in Nat : n = Len(space)
  BY <1>3
<1> DEFINE S == [i \in 0 .. n |-> {x \in Seq(TiledSchedules) : KeysKept(x, space, i)}]
<1>5. f[0] \in S[0]
  BY <1>2, <1>4 DEF CandidatesStepwise, KeysKept
<1>6. \A i \in 1 .. n : f[i - 1] \in S[i - 1] => f[i] \in S[i]
  <2> TAKE i \in 1 .. n
  <2>1. i - 1 \in 0 .. n /\ i \in 0 .. n
    OBVIOUS
  <2>2. PICK before \in Seq(TiledSchedules) : before = f[i - 1]
    BY <1>2, <1>4, <2>1 DEF CandidatesStepwise
  <2>3. PICK after \in Seq(TiledSchedules) : after = f[i]
    BY <1>2, <1>4, <2>1 DEF CandidatesStepwise
  <2>4. after = KeepIfNew(before, space[i])
    BY <1>2, <1>4, <2>2, <2>3 DEF CandidatesStepwise
  <2>5. ASSUME KeysKept(before, space, i - 1), NEW k \in 1 .. i, Valid(space[k])
        PROVE  \E j \in DOMAIN after : ExecutionKey(after[j]) = ExecutionKey(space[k])
    <3>1. CASE k = i
      BY <2>4, <2>5, <3>1, KeepIfNewCovers
    <3>2. CASE k \in 1 .. i - 1
      <4>1. PICK j \in DOMAIN before : ExecutionKey(before[j]) = ExecutionKey(space[k])
        BY <2>5, <3>2 DEF KeysKept
      <4>2. j \in DOMAIN after /\ after[j] = before[j]
        BY <2>4, KeepIfNewCovers
      <4> QED
        BY <4>1, <4>2
    <3> QED
      BY <3>1, <3>2
  <2>6. KeysKept(before, space, i - 1) => KeysKept(after, space, i)
    BY <2>5 DEF KeysKept
  <2> QED
    BY <2>1, <2>2, <2>3, <2>6
<1>7. f[n] \in S[n]
  <2> HIDE DEF S
  <2>1. n \in 0 .. n
    OBVIOUS
  <2> QED
    BY <1>5, <1>6, <2>1, IterationStays
<1>8. KeysKept(Candidates(workers), space, n) /\ Candidates(workers) = f[n]
  BY <1>2, <1>4, <1>7
<1>9. PICK i \in 1 .. n : s = space[i]
  BY <1>1, <1>3, <1>4 DEF ToSet
<1>10. PICK j \in DOMAIN Candidates(workers) : ExecutionKey(Candidates(workers)[j]) = ExecutionKey(s)
  BY <1>8, <1>9 DEF KeysKept
<1> QED
  BY <1>10 DEF ToSet

-----------------------------------------------------------------------------
(* The best of the finalists, and the median of its times.                 *)
BetterOf(times, best, slot) ==
  IF times[slot] # Wrong /\ (best = 0 \/ times[slot] < times[best]) THEN slot ELSE best

BestSolves(f, times) ==
  f = [n \in 0 .. Len(times) |-> IF n = 0 THEN 0 ELSE BetterOf(times, f[n - 1], n)]

LEMMA BestIs ==
  ASSUME NEW times
  PROVE  Best(times) = (CHOOSE f : BestSolves(f, times))[Len(times)]
BY ZenonT(60) DEF Best, BestSolves, BetterOf

BestOfFirst(times, n, b) ==
  /\ b \in 0 .. n
  /\ IF b = 0 THEN \A i \in 1 .. n : times[i] = Wrong
              ELSE times[b] # Wrong /\ \A i \in 1 .. n : times[i] # Wrong => times[b] <= times[i]

(* One slot more leaves a slot of the finalists, or none.                  *)
LEMMA BetterOfType ==
  ASSUME NEW k \in Nat, NEW times \in [1 .. k -> Int], NEW n \in 1 .. k, NEW b,
         BestOfFirst(times, n - 1, b)
  PROVE  BestOfFirst(times, n, BetterOf(times, b, n))
<1>1. b \in 0 .. n - 1 /\ times[n] \in Int /\ n # 0 /\ (b # 0 => times[b] \in Int)
  BY DEF BestOfFirst
<1>2. \A i \in 1 .. n : i = n \/ i \in 1 .. n - 1
  OBVIOUS
<1>3. \A i \in 1 .. n : times[i] \in Int
  OBVIOUS
<1>4. CASE times[n] # Wrong /\ (b = 0 \/ times[n] < times[b])
  <2>1. BetterOf(times, b, n) = n
    BY <1>4 DEF BetterOf
  <2>2. \A i \in 1 .. n : times[i] # Wrong => times[n] <= times[i]
    BY <1>1, <1>2, <1>3, <1>4 DEF BestOfFirst
  <2> QED
    BY <1>1, <1>4, <2>1, <2>2 DEF BestOfFirst
<1>5. CASE ~ (times[n] # Wrong /\ (b = 0 \/ times[n] < times[b]))
  <2>1. BetterOf(times, b, n) = b
    BY <1>5 DEF BetterOf
  <2> QED
    BY <1>1, <1>2, <1>3, <1>5, <2>1 DEF BestOfFirst
<1> QED
  BY <1>4, <1>5

(* No finalist with the right result has a better median than the best.    *)
LEMMA BestIsBest ==
  ASSUME NEW k \in Nat, NEW times \in [1 .. k -> Int]
  PROVE  BestOfFirst(times, k, Best(times))
<1>1. Len(times) = k
  OBVIOUS
<1> DEFINE S == [i \in 0 .. k |-> {b \in 0 .. i : BestOfFirst(times, i, b)}]
<1>2. 0 \in S[0]
  BY DEF BestOfFirst
<1>3. \A i \in 1 .. k : \A x \in S[i - 1] : BetterOf(times, x, i) \in S[i]
  <2> TAKE i \in 1 .. k
  <2>1. i - 1 \in 0 .. k /\ i \in 0 .. k
    OBVIOUS
  <2> TAKE x \in S[i - 1]
  <2>2. BestOfFirst(times, i - 1, x)
    BY <2>1
  <2>3. BestOfFirst(times, i, BetterOf(times, x, i))
    BY <2>2, BetterOfType
  <2>4. BetterOf(times, x, i) \in 0 .. i
    BY <2>3 DEF BestOfFirst
  <2> QED
    BY <2>1, <2>3, <2>4
<1>4. \A i \in 0 .. k : \A b \in S[i] : BestOfFirst(times, i, b)
  OBVIOUS
<1> HIDE DEF S
<1>5. \E f : BestSolves(f, times)
  <2> DEFINE step == [i \in 1 .. k |-> [x \in S[i - 1] |-> BetterOf(times, x, i)]]
  <2>1. \A i \in 1 .. k : \A x \in S[i - 1] : step[i][x] = BetterOf(times, x, i) /\ step[i][x] \in S[i]
    BY <1>3
  <2> HIDE DEF step
  <2>2. PICK f : Iterates(f, 0, step, k) /\ \A i \in 0 .. k : f[i] \in S[i]
    BY <1>2, <2>1, IterationExists
  <2>3. ASSUME NEW i \in 0 .. k
        PROVE  (IF i = 0 THEN 0 ELSE step[i][f[i - 1]]) = (IF i = 0 THEN 0 ELSE BetterOf(times, f[i - 1], i))
    <3>1. i # 0 => i - 1 \in 0 .. k /\ i \in 1 .. k
      OBVIOUS
    <3> QED
      BY <2>1, <2>2, <3>1
  <2>4. f = [i \in 0 .. k |-> IF i = 0 THEN 0 ELSE BetterOf(times, f[i - 1], i)]
    BY <2>2, <2>3 DEF Iterates
  <2> QED
    BY <1>1, <2>4 DEF BestSolves
<1>6. PICK f : f = CHOOSE g : BestSolves(g, times)
  OBVIOUS
<1>7. f = [i \in 0 .. k |-> IF i = 0 THEN 0 ELSE BetterOf(times, f[i - 1], i)]
  <2>1. BestSolves(f, times)
    BY <1>5, <1>6
  <2> QED
    BY <1>1, <2>1 DEF BestSolves
<1>8. \A i \in 1 .. k : f[i - 1] \in S[i - 1] => f[i] \in S[i]
  <2> TAKE i \in 1 .. k
  <2>1. i \in 0 .. k /\ i # 0
    OBVIOUS
  <2>2. f[i] = BetterOf(times, f[i - 1], i)
    BY <1>7, <2>1
  <2> QED
    BY <1>3, <2>2
<1>9. f[0] \in S[0]
  <2>1. f[0] = 0
    BY <1>7
  <2> QED
    BY <1>2, <2>1
<1>10. f[k] \in S[k] /\ k \in 0 .. k
  <2>1. k \in 0 .. k
    OBVIOUS
  <2> QED
    BY <1>8, <1>9, <2>1, IterationStays
<1>11. Best(times) = f[k]
  BY <1>1, <1>6, BestIs
<1> QED
  BY <1>4, <1>10, <1>11

(* A median is a time or Wrong.                                            *)
LEMMA MedianType ==
  ASSUME NEW n \in Nat \ {0}, NEW T, T \subseteq Nat, NEW samples \in [1 .. n -> T]
  PROVE  Median(samples) \in T
<1>1. samples \in [1 .. n -> Int] /\ Len(samples) = n
  <2>1. \A x \in T : x \in Int
    OBVIOUS
  <2>2. samples \in [1 .. n -> Int]
    BY <2>1
  <2>3. Len(samples) = n
    BY <2>2
  <2> QED
    BY <2>2, <2>3
<1>2. StableSort(samples, samples) \in [1 .. n -> T]
  BY <1>1, StableSortKeeps
<1>3. n \div 2 + 1 \in 1 .. n
  OBVIOUS
<1> QED
  BY <1>1, <1>2, <1>3 DEF Median

(***************************************************************************)
(* ScheduledMatmul.  The kernels, from the inside out: what a list of      *)
(* operations makes of one element (Makes), what it makes of a block of    *)
(* the output (Fills), how loops over ranges of rows, columns and products *)
(* fill a block, and so what each kernel of the interpreter and of the JIT *)
(* fills its range of rows with.  Then the loops: whatever schedule,       *)
(* passes, transform program and graph epilogues made one, its plan has    *)
(* positive steps and names the epilogues that were asked for.  Last, the  *)
(* inductive invariants of a run.                                          *)
(***************************************************************************)

(* FlattenSeq, list by list.                                               *)
LEMMA FlattenNothing ==
  ASSUME NEW g, DOMAIN g = 1 .. 0, NEW T, g \in [1 .. 0 -> T]
  PROVE  g = <<>> /\ FlattenSeq(g) = <<>>
<1>1. g = <<>>
  OBVIOUS
<1>2. Len(g) = 0
  BY <1>1
<1>3. FlattenSeq(g) = IF Len(g) = 0 THEN g ELSE
        (CHOOSE f : f = [i \in 1 .. Len(g) |-> IF i = 1 THEN g[i] ELSE f[i - 1] \o g[i]])[Len(g)]
  BY ZenonT(60) DEF FlattenSeq
<1> QED
  BY ONLY <1>1, <1>2, <1>3

Flattens(f, S, n, g) ==
  /\ FlattenSeq(g) = f[n] /\ f[1] = g[1]
  /\ \A x \in 1 .. n : f[x] \in Seq(S)
  /\ \A x \in 2 .. n : f[x] = f[x - 1] \o g[x]

LEMMA FlattenSteps ==
  ASSUME NEW S, NEW n \in Nat \ {0}, NEW g, g \in [1 .. n -> Seq(S)]
  PROVE  \E f : Flattens(f, S, n, g)
<1>1. n = Len(g) /\ Len(g) # 0
  OBVIOUS
<1> DEFINE f == CHOOSE f : f = [i \in 1 .. Len(g) |-> IF i = 1 THEN g[i] ELSE f[i - 1] \o g[i]]
<1>2. FlattenSeq(g) = f[Len(g)]
  BY ONLY <1>1, FlattenIs, Zenon
<1>3. Concatenates(f, g, Len(g))
  <2>1. \E h : h = [i \in 1 .. Len(g) |-> IF i = 1 THEN g[i] ELSE h[i - 1] \o g[i]]
    BY <1>1, SolutionsExist DEF Concatenates
  <2> QED
    BY ONLY <2>1, Zenon DEF Concatenates
<1> HIDE DEF f
<1>4. PICK h : h = f
  OBVIOUS
<1>5. FlattenSeq(g) = h[n] /\ Concatenates(h, g, n)
  BY <1>1, <1>2, <1>3, <1>4
<1>6. h[1] = g[1] /\ \A x \in 2 .. n : h[x] = h[x - 1] \o g[x]
  <2>1. ASSUME NEW x \in 1 .. n PROVE h[x] = IF x = 1 THEN g[x] ELSE h[x - 1] \o g[x]
    <3>1. h = [i \in 1 .. n |-> IF i = 1 THEN g[i] ELSE h[i - 1] \o g[i]]
      BY <1>5 DEF Concatenates
    <3> QED
      BY <3>1
  <2>2. 1 \in 1 .. n /\ \A x \in 2 .. n : x \in 1 .. n /\ x # 1
    OBVIOUS
  <2> QED
    BY <2>1, <2>2
<1>7. ASSUME NEW x \in 1 .. n PROVE h[x] \in Seq(S)
  <2>1. x \in Nat \ {0} /\ \A i \in 1 .. x : g[i] \in Seq(S)
    OBVIOUS
  <2>2. PICK k : k = [i \in 1 .. x |-> h[i]]
    OBVIOUS
  <2>3. Concatenates(k, g, x)
    <3>1. ASSUME NEW i \in 1 .. x PROVE k[i] = IF i = 1 THEN g[i] ELSE k[i - 1] \o g[i]
      <4>1. i \in 1 .. n /\ (i # 1 => i - 1 \in 1 .. x /\ i \in 2 .. n)
        OBVIOUS
      <4>2. k[i] = h[i] /\ (i # 1 => k[i - 1] = h[i - 1])
        BY <2>2, <4>1
      <4> QED
        BY <1>6, <4>1, <4>2
    <3>2. k = [i \in 1 .. x |-> k[i]]
      BY <2>2
    <3> QED
      BY <3>1, <3>2 DEF Concatenates
  <2>4. \A d \in Nat \ {0} : \A s : (\A i \in 1 .. d : s[i] \in Seq(S)) =>
          \A v : Concatenates(v, s, d) => v[d] \in Seq(S)
    BY SolutionIsFlat, Zenon
  <2>5. k[x] \in Seq(S)
    BY ONLY <2>1, <2>3, <2>4, Zenon
  <2>6. x \in 1 .. x
    OBVIOUS
  <2> QED
    BY <2>2, <2>5, <2>6
<1>8. Flattens(h, S, n, g)
  BY <1>5, <1>6, <1>7 DEF Flattens
<1> QED
  BY <1>8

(* The operations of a kernel write rows of R and columns of C only.       *)
Within(ops, R, C) ==
  \E S : ops \in Seq(S) /\ \A op \in S : op.rows \subseteq R /\ op.cols \subseteq C

(* How operations are shown to stay in R and C.                            *)
LEMMA WithinBy ==
  ASSUME NEW R, NEW C, NEW S, NEW ops \in Seq(S),
         \A op \in S : op.rows \subseteq R /\ op.cols \subseteq C
  PROVE  Within(ops, R, C)
BY DEF Within

LEMMA NothingWithin == ASSUME NEW R, NEW C PROVE Within(<<>>, R, C)
<1>1. PICK S : S = {}
  OBVIOUS
<1>2. <<>> \in Seq(S) /\ \A op \in S : op.rows \subseteq R /\ op.cols \subseteq C
  BY <1>1
<1> QED
  BY <1>2, WithinBy

(* One operation, one list after another, and a list of lists.             *)
LEMMA OneWithin ==
  ASSUME NEW R, NEW C, NEW op, op.rows \subseteq R, op.cols \subseteq C
  PROVE  Within(<<op>>, R, C)
<1>1. PICK S, ops : S = {op} /\ ops = <<op>>
  OBVIOUS
<1>2. ops \in Seq(S) /\ \A x \in S : x.rows \subseteq R /\ x.cols \subseteq C
  BY <1>1
<1>3. Within(ops, R, C)
  BY <1>2, WithinBy
<1> QED
  BY <1>1, <1>3

LEMMA BothWithin ==
  ASSUME NEW R, NEW C, NEW a, NEW b, Within(a, R, C), Within(b, R, C)
  PROVE  Within(a \o b, R, C)
<1>1. PICK S : a \in Seq(S) /\ \A op \in S : op.rows \subseteq R /\ op.cols \subseteq C
  BY DEF Within
<1>2. PICK T : b \in Seq(T) /\ \A op \in T : op.rows \subseteq R /\ op.cols \subseteq C
  BY DEF Within
<1>3. a \in Seq(S \cup T) /\ b \in Seq(S \cup T)
  BY <1>1, <1>2
<1>4. a \o b \in Seq(S \cup T)
  BY <1>3, Concatenation
<1> QED
  BY <1>1, <1>2, <1>4 DEF Within

LEMMA AllWithin ==
  ASSUME NEW R, NEW C, NEW n \in Nat, NEW g, g = [i \in 1 .. n |-> g[i]],
         \A i \in 1 .. n : Within(g[i], R, C)
  PROVE  Within(FlattenSeq(g), R, C)
<1> DEFINE parts == {{g[i][j] : j \in DOMAIN g[i]} : i \in 1 .. n}
           T == UNION parts
<1>1. ASSUME NEW i \in 1 .. n
      PROVE  /\ g[i] \in Seq(T)
             /\ \A j \in DOMAIN g[i] : g[i][j].rows \subseteq R /\ g[i][j].cols \subseteq C
  <2>1. PICK S : g[i] \in Seq(S) /\ \A op \in S : op.rows \subseteq R /\ op.cols \subseteq C
    BY DEF Within
  <2>2. PICK s \in Seq(S) : s = g[i]
    BY <2>1
  <2>3. \A j \in DOMAIN s : s[j] \in S
    OBVIOUS
  <2>4. {s[j] : j \in DOMAIN s} \in parts
    BY <2>2
  <2>5. \A j \in DOMAIN s : s[j] \in T
    BY <2>4
  <2> HIDE DEF T
  <2>6. s \in Seq(T)
    BY <2>5, SequenceOf
  <2> QED
    BY <2>1, <2>2, <2>3, <2>6
<1>2. ASSUME NEW op \in T PROVE op.rows \subseteq R /\ op.cols \subseteq C
  <2>1. PICK i \in 1 .. n : op \in {g[i][j] : j \in DOMAIN g[i]}
    OBVIOUS
  <2>2. PICK j \in DOMAIN g[i] : op = g[i][j]
    BY <2>1
  <2> QED
    BY <1>1, <2>2
<1> HIDE DEF T
<1>3. g \in [1 .. n -> Seq(T)]
  BY <1>1
<1>4. FlattenSeq(g) \in Seq(T)
  BY <1>3, FlattenTyped
<1> QED
  BY <1>2, <1>4 DEF Within

(* The values of a loop variable.                                          *)
LEMMA StepsInside ==
  ASSUME NEW lo \in Int, NEW hi \in Int, lo <= hi, NEW step \in Nat \ {0}
  PROVE  \E n \in Nat : /\ n = CeilDiv(hi - lo, step) /\ DOMAIN Steps(lo, hi, step) = 1 .. n
                        /\ \A x \in 1 .. n : /\ Steps(lo, hi, step)[x] = lo + (x - 1) * step
                                             /\ Steps(lo, hi, step)[x] \in lo .. hi - 1
<1>1. hi - lo \in Nat /\ step \in Int
  OBVIOUS
<1>2. PICK n : n = CeilDiv(hi - lo, step)
  OBVIOUS
<1>3. n \in Nat
  BY <1>1, <1>2, CeilDivType
<1>4. step * n <= hi - lo + step - 1
  <2>1. hi - lo + step - 1 \in Int
    BY <1>1
  <2> QED
    BY <1>2, <2>1, DivBounds DEF CeilDiv
<1>5. Steps(lo, hi, step) = [i \in 1 .. n |-> lo + (i - 1) * step]
  BY <1>2 DEF Steps
<1>6. ASSUME NEW x \in 1 .. n PROVE lo + (x - 1) * step \in lo .. hi - 1
  <2>1. (x - 1) * step \in Nat /\ (x - 1) * step + step = x * step
    BY <1>1, <1>3
  <2>2. x * step <= n * step /\ n * step = step * n /\ n * step \in Int /\ x * step \in Int
    BY <1>1, <1>3
  <2>3. (x - 1) * step + step <= hi - lo + step - 1
    BY <1>1, <1>4, <2>1, <2>2
  <2> QED
    BY <1>1, <2>1, <2>3
<1> QED
  BY <1>2, <1>3, <1>5, <1>6

(* What a list of operations makes of one element: the contents it goes    *)
(* through, from the first to the last.                                    *)
Touched(op, p, i, j, old) ==
  IF i \in op.rows /\ j \in op.cols THEN Applied(op, p, i, j, old) ELSE old

Contents(ops, p, i, j, n, f) == \A x \in 1 .. n : f[x] = Touched(ops[x], p, i, j, f[x - 1])

Makes(ops, p, i, j, a, b) ==
  \E n \in Nat : \E f : /\ DOMAIN ops = 1 .. n /\ f[0] = a /\ f[n] = b
                        /\ Contents(ops, p, i, j, n, f)

LEMMA MakesBy ==
  ASSUME NEW ops, NEW p, NEW i, NEW j, NEW n \in Nat, DOMAIN ops = 1 .. n, NEW f,
         Contents(ops, p, i, j, n, f)
  PROVE  Makes(ops, p, i, j, f[0], f[n])
BY DEF Makes

(* Operations elsewhere leave an element what it is.                       *)
LEMMA ElsewhereMakes ==
  ASSUME NEW ops, NEW R, NEW C, Within(ops, R, C), NEW i, NEW j, i \notin R \/ j \notin C,
         NEW p, NEW a
  PROVE  Makes(ops, p, i, j, a, a)
<1>1. PICK S : ops \in Seq(S) /\ \A op \in S : op.rows \subseteq R /\ op.cols \subseteq C
  BY DEF Within
<1>2. PICK n \in Nat : DOMAIN ops = 1 .. n /\ \A x \in 1 .. n : ops[x] \in S
  BY <1>1, DomainIs
<1>3. PICK f : f = [x \in 0 .. n |-> a]
  OBVIOUS
<1>4. ASSUME NEW x \in 1 .. n PROVE f[x] = Touched(ops[x], p, i, j, f[x - 1])
  <2>1. f[x] = a /\ f[x - 1] = a
    BY <1>3
  <2>2. ~ (i \in ops[x].rows /\ j \in ops[x].cols)
    BY <1>1, <1>2
  <2> QED
    BY <2>1, <2>2 DEF Touched
<1>5. Contents(ops, p, i, j, n, f)
  BY <1>4 DEF Contents
<1>6. f[0] = a /\ f[n] = a
  BY <1>3
<1> QED
  BY <1>2, <1>5, <1>6, MakesBy

LEMMA NothingMakes ==
  ASSUME NEW p, NEW i, NEW j, NEW a PROVE Makes(<<>>, p, i, j, a, a)
<1>1. PICK f : f = [x \in 0 .. 0 |-> a]
  OBVIOUS
<1>2. DOMAIN <<>> = 1 .. 0 /\ f[0] = a /\ Contents(<<>>, p, i, j, 0, f)
  BY <1>1 DEF Contents
<1> QED
  BY <1>2, MakesBy

LEMMA OneMakes ==
  ASSUME NEW op, NEW p, NEW i, NEW j, i \in op.rows, j \in op.cols, NEW a
  PROVE  Makes(<<op>>, p, i, j, a, Applied(op, p, i, j, a))
<1>1. PICK b : b = Applied(op, p, i, j, a)
  OBVIOUS
<1>2. PICK f : f = [x \in 0 .. 1 |-> IF x = 0 THEN a ELSE b]
  OBVIOUS
<1>3. f[0] = a /\ f[1] = b /\ DOMAIN <<op>> = 1 .. 1 /\ <<op>>[1] = op
  BY <1>2
<1>4. Touched(op, p, i, j, a) = b
  BY <1>1 DEF Touched
<1>5. \A x \in 1 .. 1 : x = 1 /\ x - 1 = 0
  OBVIOUS
<1>6. Contents(<<op>>, p, i, j, 1, f)
  BY <1>3, <1>4, <1>5 DEF Contents
<1>7. Makes(<<op>>, p, i, j, f[0], f[1])
  BY <1>3, <1>6, MakesBy
<1> QED
  BY <1>1, <1>3, <1>7

LEMMA BothMake ==
  ASSUME NEW S, NEW s \in Seq(S), NEW t \in Seq(S), NEW p, NEW i, NEW j, NEW a, NEW b, NEW c,
         Makes(s, p, i, j, a, b), Makes(t, p, i, j, b, c)
  PROVE  Makes(s \o t, p, i, j, a, c)
<1>1. PICK n, f : n \in Nat /\ DOMAIN s = 1 .. n /\ f[0] = a /\ f[n] = b /\ Contents(s, p, i, j, n, f)
  BY DEF Makes
<1>2. PICK d, g : d \in Nat /\ DOMAIN t = 1 .. d /\ g[0] = b /\ g[d] = c /\ Contents(t, p, i, j, d, g)
  BY DEF Makes
<1>n. n \in Nat /\ d \in Nat
  BY <1>1, <1>2
<1> USE <1>n
<1>3. PICK h : h = [x \in 0 .. n + d |-> IF x <= n THEN f[x] ELSE g[x - n]]
  OBVIOUS
<1>4. Len(s) = n /\ Len(t) = d
  BY <1>1, <1>2
<1>5. PICK u : u = s \o t
  OBVIOUS
<1>6. /\ DOMAIN u = 1 .. n + d
      /\ \A x \in 1 .. n : u[x] = s[x]
      /\ \A x \in 1 .. d : u[n + x] = t[x]
  <2>1. /\ u \in Seq(S) /\ Len(u) = Len(s) + Len(t)
        /\ \A x \in 1 .. Len(s) : u[x] = s[x]
        /\ \A x \in 1 .. Len(t) : u[Len(s) + x] = t[x]
    BY <1>5, Concatenation
  <2> QED
    BY <1>4, <2>1
<1>7. ASSUME NEW x \in 1 .. n + d PROVE h[x] = Touched(u[x], p, i, j, h[x - 1])
  <2>1. CASE x <= n
    <3>1. x \in 1 .. n /\ h[x] = f[x] /\ h[x - 1] = f[x - 1]
      BY <1>3, <2>1
    <3> QED
      BY <1>1, <1>6, <3>1 DEF Contents
  <2>2. CASE x > n
    <3>1. PICK y \in 1 .. d : y = x - n
      BY <2>2
    <3>2. h[x] = g[y]
      BY <1>3, <2>2, <3>1
    <3>3. h[x - 1] = g[y - 1]
      <4>1. CASE y = 1
        <5>1. x - 1 = n /\ h[n] = f[n]
          BY <1>3, <3>1, <4>1
        <5> QED
          BY <1>1, <1>2, <4>1, <5>1
      <4>2. CASE y # 1
        <5>1. x - 1 \in 0 .. n + d /\ ~ (x - 1 <= n) /\ x - 1 - n = y - 1
          BY <3>1, <4>2
        <5> QED
          BY <1>3, <5>1
      <4> QED
        BY <4>1, <4>2
    <3>4. u[x] = t[y]
      <4>1. x = n + y
        BY <3>1
      <4> QED
        BY <1>6, <4>1
    <3> QED
      BY <1>2, <3>2, <3>3, <3>4 DEF Contents
  <2> QED
    BY <2>1, <2>2
<1>8. Contents(u, p, i, j, n + d, h)
  BY <1>7 DEF Contents
<1>9. h[0] = a /\ h[n + d] = c
  <2>1. h[0] = f[0]
    BY <1>3
  <2>2. CASE d = 0
    <3>1. h[n + d] = f[n]
      BY <1>3, <2>2
    <3> QED
      BY <1>1, <1>2, <2>1, <2>2, <3>1
  <2>3. CASE d # 0
    <3>1. n + d \in 0 .. n + d /\ ~ (n + d <= n) /\ n + d - n = d
      BY <2>3
    <3>2. h[n + d] = g[d]
      BY <1>3, <3>1
    <3> QED
      BY <1>1, <1>2, <2>1, <3>2
  <2> QED
    BY <2>2, <2>3
<1>10. Makes(u, p, i, j, h[0], h[n + d])
  <2>1. n + d \in Nat
    OBVIOUS
  <2> QED
    BY <1>6, <1>8, <2>1, MakesBy
<1> QED
  BY <1>5, <1>9, <1>10

(* What is left of a list after its first operation.                       *)
LEMMA RestMakes ==
  ASSUME NEW S, NEW ops \in Seq(S), ops # <<>>, NEW p, NEW i, NEW j, NEW a, NEW b,
         Makes(ops, p, i, j, a, b)
  PROVE  Makes(Tail(ops), p, i, j, Touched(Head(ops), p, i, j, a), b)
<1>1. PICK n, f : n \in Nat /\ DOMAIN ops = 1 .. n /\ f[0] = a /\ f[n] = b /\ Contents(ops, p, i, j, n, f)
  BY DEF Makes
<1>n. n \in Nat
  BY <1>1
<1> USE <1>n
<1>2. n # 0 /\ Len(ops) = n
  BY <1>1
<1>3. PICK t : t = Tail(ops)
  OBVIOUS
<1>4. DOMAIN t = 1 .. n - 1 /\ \A x \in 1 .. n - 1 : t[x] = ops[x + 1]
  BY <1>2, <1>3
<1>5. PICK g : g = [x \in 0 .. n - 1 |-> f[x + 1]]
  OBVIOUS
<1>6. ASSUME NEW x \in 1 .. n - 1 PROVE g[x] = Touched(t[x], p, i, j, g[x - 1])
  <2>1. g[x] = f[x + 1] /\ g[x - 1] = f[x]
    BY <1>5
  <2>2. f[x + 1] = Touched(ops[x + 1], p, i, j, f[x + 1 - 1]) /\ x + 1 - 1 = x
    <3>1. x + 1 \in 1 .. n /\ x + 1 - 1 = x
      OBVIOUS
    <3> QED
      BY <1>1, <3>1 DEF Contents
  <2> QED
    BY <1>4, <2>1, <2>2
<1>7. Contents(t, p, i, j, n - 1, g)
  BY <1>6 DEF Contents
<1>8. g[0] = f[1] /\ g[n - 1] = f[n]
  BY <1>2, <1>5
<1>9. f[1] = Touched(Head(ops), p, i, j, a)
  <2>1. f[1] = Touched(ops[1], p, i, j, f[1 - 1]) /\ 1 - 1 = 0
    <3>1. 1 \in 1 .. n
      BY <1>2
    <3> QED
      BY <1>1, <3>1 DEF Contents
  <2>2. Head(ops) = ops[1]
    BY <1>2
  <2> QED
    BY <1>1, <2>1, <2>2
<1>10. Makes(t, p, i, j, g[0], g[n - 1])
  <2>1. n - 1 \in Nat
    BY <1>2
  <2> QED
    BY <1>4, <1>7, <2>1, MakesBy
<1> QED
  BY <1>1, <1>3, <1>8, <1>9, <1>10

LEMMA DoneMakes ==
  ASSUME NEW p, NEW i, NEW j, NEW a, NEW b, Makes(<<>>, p, i, j, a, b)
  PROVE  a = b
<1>1. PICK n, f : n \in Nat /\ DOMAIN <<>> = 1 .. n /\ f[0] = a /\ f[n] = b
  BY DEF Makes
<1>2. n = 0
  BY <1>1
<1> QED
  BY <1>1, <1>2

(* An operation reads no extent of the problem but its depth.              *)
LEMMA DepthMakes ==
  ASSUME NEW ops, NEW p, NEW q, p.k = q.k, NEW i, NEW j, NEW a, NEW b, Makes(ops, p, i, j, a, b)
  PROVE  Makes(ops, q, i, j, a, b)
<1>1. PICK n, f : n \in Nat /\ DOMAIN ops = 1 .. n /\ f[0] = a /\ f[n] = b /\ Contents(ops, p, i, j, n, f)
  BY DEF Makes
<1>2. \A op, old : Touched(op, p, i, j, old) = Touched(op, q, i, j, old)
  BY DEF Touched, Applied, Products
<1>3. Contents(ops, q, i, j, n, f)
  BY <1>1, <1>2 DEF Contents
<1> QED
  BY <1>1, <1>3, MakesBy

(* A list of lists: the content of an element between them.                *)
LEMMA ChainMakes ==
  ASSUME NEW S, NEW n \in Nat, NEW g \in [1 .. n -> Seq(S)], NEW p, NEW i, NEW j, NEW c,
         \A x \in 1 .. n : Makes(g[x], p, i, j, c[x - 1], c[x])
  PROVE  Makes(FlattenSeq(g), p, i, j, c[0], c[n])
<1>1. CASE n = 0
  <2>1. g = <<>> /\ FlattenSeq(g) = <<>>
    BY <1>1, FlattenNothing
  <2> QED
    BY <1>1, <2>1, NothingMakes
<1>2. CASE n # 0
  <2>n. n \in Nat \ {0}
    BY <1>2
  <2>f. PICK f : Flattens(f, S, n, g)
    BY <2>n, FlattenSteps
  <2>1. /\ FlattenSeq(g) = f[n] /\ f[1] = g[1]
        /\ \A x \in 1 .. n : f[x] \in Seq(S)
        /\ \A x \in 2 .. n : f[x] = f[x - 1] \o g[x]
    BY <2>f DEF Flattens
  <2> DEFINE A == {x \in Nat : x \in 1 .. n => Makes(f[x], p, i, j, c[0], c[x])}
  <2>2. ASSUME n \notin A PROVE FALSE
    <3>1. PICK x \in 0 .. n : x \notin A /\ \A y \in 0 .. x - 1 : y \in A
      <4>1. \E y \in 0 .. n : y \notin A
        BY <2>2
      <4> HIDE DEF A
      <4> QED
        BY <4>1, NatInduct
    <3>2. x \in 1 .. n /\ ~ Makes(f[x], p, i, j, c[0], c[x])
      BY <3>1
    <3>3. CASE x = 1
      BY <2>1, <3>2, <3>3
    <3>4. CASE x # 1
      <4>1. x - 1 \in 0 .. x - 1 /\ x - 1 \in 1 .. n /\ x \in 2 .. n
        BY <3>2, <3>4
      <4>2. Makes(f[x - 1], p, i, j, c[0], c[x - 1])
        BY <3>1, <4>1
      <4>3. Makes(g[x], p, i, j, c[x - 1], c[x]) /\ f[x] = f[x - 1] \o g[x]
        BY <2>1, <3>2, <4>1
      <4>4. f[x - 1] \in Seq(S) /\ g[x] \in Seq(S)
        BY <2>1, <3>2, <4>1
      <4>5. Makes(f[x - 1] \o g[x], p, i, j, c[0], c[x])
        BY ONLY <4>2, <4>3, <4>4, BothMake
      <4> QED
        BY <3>2, <4>3, <4>5
    <3> QED
      BY <3>3, <3>4
  <2>3. n \in 1 .. n
    BY <1>2
  <2> QED
    BY <2>1, <2>2, <2>3
<1> QED
  BY <1>1, <1>2

(* Only one of the lists touches the element.                              *)
LEMMA OneOfThemMakes ==
  ASSUME NEW S, NEW n \in Nat, NEW g \in [1 .. n -> Seq(S)], NEW p, NEW i, NEW j, NEW a, NEW b,
         NEW y \in 1 .. n, Makes(g[y], p, i, j, a, b),
         \A x \in 1 .. n : x # y => \A c : Makes(g[x], p, i, j, c, c)
  PROVE  Makes(FlattenSeq(g), p, i, j, a, b)
<1>1. PICK c : c = [x \in 0 .. n |-> IF x < y THEN a ELSE b]
  OBVIOUS
<1>2. ASSUME NEW x \in 1 .. n PROVE Makes(g[x], p, i, j, c[x - 1], c[x])
  <2>1. CASE x = y
    <3>1. c[x - 1] = a /\ c[x] = b
      BY <1>1, <2>1
    <3> QED
      BY <2>1, <3>1
  <2>2. CASE x # y
    <3>1. c[x - 1] = c[x]
      BY <1>1, <2>2
    <3> QED
      BY <2>2, <3>1
  <2> QED
    BY <2>1, <2>2
<1>3. c[0] = a /\ c[n] = b
  BY <1>1
<1>4. Makes(FlattenSeq(g), p, i, j, c[0], c[n])
  BY <1>2, ChainMakes
<1> QED
  BY <1>3, <1>4

(* The lists of a loop, over one set of operations.                        *)
LEMMA CommonSet ==
  ASSUME NEW n \in Nat, NEW g, g = [x \in 1 .. n |-> g[x]],
         \A x \in 1 .. n : \E S : g[x] \in Seq(S)
  PROVE  \E T : g \in [1 .. n -> Seq(T)]
<1> DEFINE parts == {{g[x][y] : y \in DOMAIN g[x]} : x \in 1 .. n}
           T == UNION parts
<1>1. ASSUME NEW x \in 1 .. n PROVE g[x] \in Seq(T)
  <2>1. PICK S : g[x] \in Seq(S)
    OBVIOUS
  <2>2. PICK s \in Seq(S) : s = g[x]
    BY <2>1
  <2>3. {s[y] : y \in DOMAIN s} \in parts
    BY <2>2
  <2>4. \A y \in DOMAIN s : s[y] \in T
    BY <2>3
  <2> HIDE DEF T
  <2>5. s \in Seq(T)
    BY <2>4, SequenceOf
  <2> QED
    BY <2>2, <2>5
<1> HIDE DEF T
<1>2. g \in [1 .. n -> Seq(T)]
  BY <1>1
<1> QED
  BY <1>2

(* The operations fill a block of the output: they write rows of R and     *)
(* columns of C only, and the elements there become, from those of F,      *)
(* those of G.                                                             *)
Fills(ops, p, R, C, F, G) ==
  /\ Within(ops, R, C)
  /\ \A i \in R, j \in C : Makes(ops, p, i, j, F[i][j], G[i][j])

LEMMA WithinIsSeq ==
  ASSUME NEW ops, NEW R, NEW C, Within(ops, R, C)
  PROVE  \E S : ops \in Seq(S)
BY DEF Within

LEMMA WithinMore ==
  ASSUME NEW ops, NEW R, NEW C, Within(ops, R, C), NEW Q, NEW D, R \subseteq Q, C \subseteq D
  PROVE  Within(ops, Q, D)
<1>1. PICK S : ops \in Seq(S) /\ \A op \in S : op.rows \subseteq R /\ op.cols \subseteq C
  BY DEF Within
<1>2. \A op \in S : op.rows \subseteq Q /\ op.cols \subseteq D
  BY <1>1
<1> QED
  BY <1>1, <1>2, WithinBy

LEMMA FillsNothing ==
  ASSUME NEW p, NEW R, NEW C, NEW F
  PROVE  Fills(<<>>, p, R, C, F, F)
BY NothingWithin, NothingMakes DEF Fills

(* One list after another.                                                 *)
LEMMA FillsBoth ==
  ASSUME NEW a, NEW b, NEW p, NEW R, NEW C, NEW F, NEW G, NEW H,
         Fills(a, p, R, C, F, G), Fills(b, p, R, C, G, H)
  PROVE  Fills(a \o b, p, R, C, F, H)
<1>1. Within(a, R, C) /\ Within(b, R, C)
  BY DEF Fills
<1>2. Within(a \o b, R, C)
  BY <1>1, BothWithin
<1>3. PICK S, T : a \in Seq(S) /\ b \in Seq(T)
  BY <1>1, WithinIsSeq
<1>4. PICK U : U = S \cup T
  OBVIOUS
<1>5. a \in Seq(U) /\ b \in Seq(U)
  BY <1>3, <1>4
<1>6. ASSUME NEW i \in R, NEW j \in C PROVE Makes(a \o b, p, i, j, F[i][j], H[i][j])
  <2>1. Makes(a, p, i, j, F[i][j], G[i][j]) /\ Makes(b, p, i, j, G[i][j], H[i][j])
    BY DEF Fills
  <2> QED
    BY <1>5, <2>1, BothMake
<1> QED
  BY <1>2, <1>6 DEF Fills

(* A loop whose iterations fill different parts of the block.              *)
LEMMA FillsParts ==
  ASSUME NEW n \in Nat, NEW g, g = [x \in 1 .. n |-> g[x]], NEW p, NEW R, NEW C, NEW F, NEW G,
         NEW Rs, NEW Cs,
         \A x \in 1 .. n : Fills(g[x], p, Rs[x], Cs[x], F, G),
         \A x \in 1 .. n : Rs[x] \subseteq R /\ Cs[x] \subseteq C,
         \A i \in R, j \in C : \E y \in 1 .. n :
           /\ i \in Rs[y] /\ j \in Cs[y]
           /\ \A x \in 1 .. n : x # y => i \notin Rs[x] \/ j \notin Cs[x]
  PROVE  Fills(FlattenSeq(g), p, R, C, F, G)
<1>1. \A x \in 1 .. n : Within(g[x], Rs[x], Cs[x])
  BY DEF Fills
<1>2. \A x \in 1 .. n : Within(g[x], R, C)
  BY <1>1, WithinMore
<1>3. Within(FlattenSeq(g), R, C)
  BY <1>2, AllWithin
<1>4. PICK T : g \in [1 .. n -> Seq(T)]
  <2>1. \A x \in 1 .. n : \E S : g[x] \in Seq(S)
    BY <1>1, WithinIsSeq
  <2> QED
    BY <2>1, CommonSet
<1>5. ASSUME NEW i \in R, NEW j \in C PROVE Makes(FlattenSeq(g), p, i, j, F[i][j], G[i][j])
  <2>1. PICK y \in 1 .. n : /\ i \in Rs[y] /\ j \in Cs[y]
                            /\ \A x \in 1 .. n : x # y => i \notin Rs[x] \/ j \notin Cs[x]
    OBVIOUS
  <2>2. Makes(g[y], p, i, j, F[i][j], G[i][j])
    BY <2>1 DEF Fills
  <2>3. \A x \in 1 .. n : x # y => \A c : Makes(g[x], p, i, j, c, c)
    BY <1>1, <2>1, ElsewhereMakes
  <2> QED
    BY ONLY n \in Nat, <1>4, <2>2, <2>3, OneOfThemMakes
<1> QED
  BY <1>3, <1>5 DEF Fills

(* Two lists that fill different columns.                                  *)
LEMMA FillsBeside ==
  ASSUME NEW a, NEW b, NEW p, NEW R, NEW A, NEW B, NEW F, NEW G,
         Fills(a, p, R, A, F, G), Fills(b, p, R, B, F, G), A \cap B = {}
  PROVE  Fills(a \o b, p, R, A \cup B, F, G)
<1>1. Within(a, R, A) /\ Within(b, R, B)
  BY DEF Fills
<1>2. Within(a, R, A \cup B) /\ Within(b, R, A \cup B)
  BY <1>1, WithinMore
<1>3. Within(a \o b, R, A \cup B)
  BY <1>2, BothWithin
<1>4. PICK S, T : a \in Seq(S) /\ b \in Seq(T)
  BY <1>1, WithinIsSeq
<1>5. PICK U : U = S \cup T
  OBVIOUS
<1>6. a \in Seq(U) /\ b \in Seq(U)
  BY <1>4, <1>5
<1>7. ASSUME NEW i \in R, NEW j \in A \cup B PROVE Makes(a \o b, p, i, j, F[i][j], G[i][j])
  <2>1. CASE j \in A
    <3>1. Makes(a, p, i, j, F[i][j], G[i][j]) /\ j \notin B
      BY <2>1 DEF Fills
    <3>2. Makes(b, p, i, j, G[i][j], G[i][j])
      BY <1>1, <3>1, ElsewhereMakes
    <3> QED
      BY <1>6, <3>1, <3>2, BothMake
  <2>2. CASE j \in B
    <3>1. Makes(b, p, i, j, F[i][j], G[i][j]) /\ j \notin A
      BY <2>2 DEF Fills
    <3>2. Makes(a, p, i, j, F[i][j], F[i][j])
      BY <1>1, <3>1, ElsewhereMakes
    <3> QED
      BY <1>6, <3>1, <3>2, BothMake
  <2> QED
    BY <2>1, <2>2
<1> QED
  BY <1>3, <1>7 DEF Fills

(* A loop whose iterations go over the whole block, one after the other.   *)
LEMMA FillsChain ==
  ASSUME NEW n \in Nat, NEW g, g = [x \in 1 .. n |-> g[x]], NEW p, NEW R, NEW C, NEW c,
         \A x \in 1 .. n : Fills(g[x], p, R, C, c[x - 1], c[x])
  PROVE  Fills(FlattenSeq(g), p, R, C, c[0], c[n])
<1>1. \A x \in 1 .. n : Within(g[x], R, C)
  BY DEF Fills
<1>2. Within(FlattenSeq(g), R, C)
  BY <1>1, AllWithin
<1>3. PICK T : g \in [1 .. n -> Seq(T)]
  <2>1. \A x \in 1 .. n : \E S : g[x] \in Seq(S)
    BY <1>1, WithinIsSeq
  <2> QED
    BY <2>1, CommonSet
<1>4. ASSUME NEW i \in R, NEW j \in C PROVE Makes(FlattenSeq(g), p, i, j, c[0][i][j], c[n][i][j])
  <2>1. PICK e : e = [x \in 0 .. n |-> c[x][i][j]]
    OBVIOUS
  <2>2. ASSUME NEW x \in 1 .. n PROVE Makes(g[x], p, i, j, e[x - 1], e[x])
    <3>1. e[x - 1] = c[x - 1][i][j] /\ e[x] = c[x][i][j]
      BY <2>1
    <3>2. Makes(g[x], p, i, j, c[x - 1][i][j], c[x][i][j])
      BY DEF Fills
    <3> QED
      BY <3>1, <3>2
  <2>3. Makes(FlattenSeq(g), p, i, j, e[0], e[n])
    BY ONLY n \in Nat, <1>3, <2>2, ChainMakes
  <2>4. e[0] = c[0][i][j] /\ e[n] = c[n][i][j]
    BY <2>1
  <2> QED
    BY <2>3, <2>4
<1> QED
  BY <1>2, <1>4 DEF Fills

(* Ranges lo .. hi-1 that divide a range: each place is in one of them.    *)
Between(b) == b[1] .. b[2] - 1

Splits(bs, n, lo, hi) ==
  /\ bs = [x \in 1 .. n |-> bs[x]]
  /\ \A x \in 1 .. n : Between(bs[x]) \subseteq lo .. hi - 1
  /\ \A i \in lo .. hi - 1 : \E y \in 1 .. n :
       i \in Between(bs[y]) /\ \A x \in 1 .. n : x # y => i \notin Between(bs[x])

(* Consecutive ranges of one size, the last one cut at the end.            *)
Cut(lo, hi, step, x) == <<lo + (x - 1) * step, Least(lo + (x - 1) * step + step, hi)>>

LEMMA CutsSplit ==
  ASSUME NEW lo \in Int, NEW hi \in Int, lo <= hi, NEW step \in Nat \ {0},
         NEW n \in Nat, hi - lo <= n * step, NEW bs, bs = [x \in 1 .. n |-> Cut(lo, hi, step, x)]
  PROVE  Splits(bs, n, lo, hi)
<1>1. \A x \in 1 .. n : (x - 1) * step \in Nat
  OBVIOUS
<1>2. ASSUME NEW x \in 1 .. n, NEW i \in Int
      PROVE  i \in Between(bs[x]) <=> lo + (x - 1) * step <= i /\ i < lo + (x - 1) * step + step /\ i < hi
  <2>1. PICK a \in Int : a = lo + (x - 1) * step
    BY <1>1
  <2>2. bs[x] = <<a, Least(a + step, hi)>>
    BY <2>1 DEF Cut
  <2>3. Between(bs[x]) = a .. Least(a + step, hi) - 1
    BY <2>2 DEF Between
  <2>4. i \in a .. Least(a + step, hi) - 1 <=> a <= i /\ i < a + step /\ i < hi
    BY DEF Least
  <2> QED
    BY <2>1, <2>3, <2>4
<1>3. ASSUME NEW x \in 1 .. n PROVE Between(bs[x]) \subseteq lo .. hi - 1
  <2>1. ASSUME NEW i \in Between(bs[x]) PROVE i \in lo .. hi - 1
    <3>1. i \in Int
      BY DEF Between
    <3>2. lo + (x - 1) * step <= i /\ i < hi
      BY <1>2, <3>1
    <3> QED
      BY <1>1, <3>1, <3>2
  <2> QED
    BY <2>1
<1>4. ASSUME NEW i \in lo .. hi - 1
      PROVE  \E y \in 1 .. n : /\ i \in Between(bs[y])
                               /\ \A x \in 1 .. n : x # y => i \notin Between(bs[x])
  <2>1. PICK d \in Nat : d = i - lo
    OBVIOUS
  <2>2. PICK q \in Nat : step * q <= d /\ d < step * q + step
    <3>1. d \div step \in Nat /\ step * (d \div step) <= d /\ d < step * (d \div step) + step
      BY DivNat, DivBounds
    <3> QED
      BY <3>1
  <2>3. q < n
    <3>1. step * q = q * step /\ q * step \in Nat /\ n * step \in Nat
      OBVIOUS
    <3>2. q >= n => n * step <= q * step
      OBVIOUS
    <3> QED
      BY <2>1, <2>2, <3>1, <3>2
  <2>4. PICK y \in 1 .. n : y = q + 1
    BY <2>3
  <2>5. i \in Between(bs[y])
    <3>1. (y - 1) * step = step * q /\ i \in Int /\ step * q \in Nat
      BY <2>4
    <3> QED
      BY <1>2, <2>1, <2>2, <3>1
  <2>6. ASSUME NEW x \in 1 .. n, x # y PROVE i \notin Between(bs[x])
    <3>1. PICK z \in Nat : z = x - 1 /\ z # q
      BY <2>4, <2>6
    <3>2. z * step \in Nat /\ step * q \in Nat
      OBVIOUS
    <3>3. z < q => z * step + step <= step * q
      <4>1. z < q => (z + 1) * step <= q * step
        OBVIOUS
      <4>2. (z + 1) * step = z * step + step /\ q * step = step * q
        OBVIOUS
      <4> QED
        BY <4>1, <4>2
    <3>4. z > q => step * q + step <= z * step
      <4>1. z > q => (q + 1) * step <= z * step
        OBVIOUS
      <4>2. (q + 1) * step = step * q + step
        OBVIOUS
      <4> QED
        BY <4>1, <4>2
    <3>5. i \in Int
      OBVIOUS
    <3>6. ~ (lo + z * step <= i /\ i < lo + z * step + step)
      BY <2>1, <2>2, <3>1, <3>2, <3>3, <3>4
    <3> QED
      BY <1>2, <3>1, <3>5, <3>6
  <2> QED
    BY <2>5, <2>6
<1>5. bs = [x \in 1 .. n |-> bs[x]]
  OBVIOUS
<1> QED
  BY <1>3, <1>4, <1>5 DEF Splits

(* The ranges that the iterations of a loop go over.                       *)
LEMMA StepsSplit ==
  ASSUME NEW lo \in Int, NEW hi \in Int, lo <= hi, NEW step \in Nat \ {0}
  PROVE  \E n, bs :         /\ n \in Nat
                            /\ DOMAIN Steps(lo, hi, step) = 1 .. n /\ Splits(bs, n, lo, hi)
                            /\ \A x \in 1 .. n :
                                 /\ Steps(lo, hi, step)[x] \in lo .. hi - 1
                                 /\ bs[x] = <<Steps(lo, hi, step)[x], Least(Steps(lo, hi, step)[x] + step, hi)>>
<1>1. PICK n \in Nat : /\ n = CeilDiv(hi - lo, step) /\ DOMAIN Steps(lo, hi, step) = 1 .. n
                       /\ \A x \in 1 .. n : /\ Steps(lo, hi, step)[x] = lo + (x - 1) * step
                                            /\ Steps(lo, hi, step)[x] \in lo .. hi - 1
  BY StepsInside
<1>2. hi - lo <= n * step
  <2>1. hi - lo \in Nat
    OBVIOUS
  <2>2. hi - lo <= step * n
    BY <1>1, <2>1, CeilDivEnough
  <2>3. step * n = n * step
    OBVIOUS
  <2> QED
    BY <2>2, <2>3
<1>3. PICK bs : bs = [x \in 1 .. n |-> Cut(lo, hi, step, x)]
  OBVIOUS
<1>4. Splits(bs, n, lo, hi)
  BY <1>2, <1>3, CutsSplit
<1>5. \A x \in 1 .. n : bs[x] = <<Steps(lo, hi, step)[x], Least(Steps(lo, hi, step)[x] + step, hi)>>
  BY <1>1, <1>3 DEF Cut
<1> QED
  BY <1>1, <1>4, <1>5

(* Loops over ranges of rows, and over ranges of columns.                  *)
LEMMA FillsRowRanges ==
  ASSUME NEW n \in Nat, NEW bs, NEW lo, NEW hi, Splits(bs, n, lo, hi),
         NEW g, g = [x \in 1 .. n |-> g[x]], NEW p, NEW C, NEW F, NEW G,
         \A x \in 1 .. n : Fills(g[x], p, Between(bs[x]), C, F, G)
  PROVE  Fills(FlattenSeq(g), p, lo .. hi - 1, C, F, G)
<1>1. PICK Rs : Rs = [x \in 1 .. n |-> Between(bs[x])]
  OBVIOUS
<1>2. PICK Cs : Cs = [x \in 1 .. n |-> C]
  OBVIOUS
<1>3. PICK R : R = lo .. hi - 1
  OBVIOUS
<1>4. \A x \in 1 .. n : Fills(g[x], p, Rs[x], Cs[x], F, G)
  BY <1>1, <1>2
<1>5. \A x \in 1 .. n : Rs[x] \subseteq R /\ Cs[x] \subseteq C
  BY <1>1, <1>2, <1>3 DEF Splits
<1>6. ASSUME NEW i \in R, NEW j \in C
      PROVE  \E y \in 1 .. n : /\ i \in Rs[y] /\ j \in Cs[y]
                               /\ \A x \in 1 .. n : x # y => i \notin Rs[x] \/ j \notin Cs[x]
  <2>1. PICK y \in 1 .. n : i \in Between(bs[y]) /\ \A x \in 1 .. n : x # y => i \notin Between(bs[x])
    BY <1>3 DEF Splits
  <2>2. i \in Rs[y] /\ j \in Cs[y] /\ \A x \in 1 .. n : x # y => i \notin Rs[x]
    BY <1>1, <1>2, <2>1
  <2> QED
    BY <2>2
<1>7. Fills(FlattenSeq(g), p, R, C, F, G)
  BY ONLY n \in Nat, g = [x \in 1 .. n |-> g[x]], <1>4, <1>5, <1>6, FillsParts
<1> QED
  BY <1>3, <1>7

LEMMA FillsColumnRanges ==
  ASSUME NEW n \in Nat, NEW bs, NEW lo, NEW hi, Splits(bs, n, lo, hi),
         NEW g, g = [x \in 1 .. n |-> g[x]], NEW p, NEW R, NEW F, NEW G,
         \A x \in 1 .. n : Fills(g[x], p, R, Between(bs[x]), F, G)
  PROVE  Fills(FlattenSeq(g), p, R, lo .. hi - 1, F, G)
<1>1. PICK Cs : Cs = [x \in 1 .. n |-> Between(bs[x])]
  OBVIOUS
<1>2. PICK Rs : Rs = [x \in 1 .. n |-> R]
  OBVIOUS
<1>3. PICK C : C = lo .. hi - 1
  OBVIOUS
<1>4. \A x \in 1 .. n : Fills(g[x], p, Rs[x], Cs[x], F, G)
  BY <1>1, <1>2
<1>5. \A x \in 1 .. n : Rs[x] \subseteq R /\ Cs[x] \subseteq C
  BY <1>1, <1>2, <1>3 DEF Splits
<1>6. ASSUME NEW i \in R, NEW j \in C
      PROVE  \E y \in 1 .. n : /\ i \in Rs[y] /\ j \in Cs[y]
                               /\ \A x \in 1 .. n : x # y => i \notin Rs[x] \/ j \notin Cs[x]
  <2>1. PICK y \in 1 .. n : j \in Between(bs[y]) /\ \A x \in 1 .. n : x # y => j \notin Between(bs[x])
    BY <1>3 DEF Splits
  <2>2. i \in Rs[y] /\ j \in Cs[y] /\ \A x \in 1 .. n : x # y => j \notin Cs[x]
    BY <1>1, <1>2, <2>1
  <2> QED
    BY <2>2
<1>7. Fills(FlattenSeq(g), p, R, C, F, G)
  BY ONLY n \in Nat, g = [x \in 1 .. n |-> g[x]], <1>4, <1>5, <1>6, FillsParts
<1> QED
  BY <1>3, <1>7

(* The loops  for (x = lo; x < hi; x += step)  of the kernels.             *)
LEMMA FillsRows ==
  ASSUME NEW lo \in Int, NEW hi \in Int, lo <= hi, NEW step \in Nat \ {0},
         NEW g, g = [x \in DOMAIN Steps(lo, hi, step) |-> g[x]], NEW p, NEW C, NEW F, NEW G,
         \A x \in DOMAIN Steps(lo, hi, step) :
           Steps(lo, hi, step)[x] \in lo .. hi - 1 =>
             Fills(g[x], p, Steps(lo, hi, step)[x] .. Least(Steps(lo, hi, step)[x] + step, hi) - 1, C, F, G)
  PROVE  Fills(FlattenSeq(g), p, lo .. hi - 1, C, F, G)
<1>1. PICK n, bs :
        /\ n \in Nat
        /\ DOMAIN Steps(lo, hi, step) = 1 .. n /\ Splits(bs, n, lo, hi)
        /\ \A x \in 1 .. n : /\ Steps(lo, hi, step)[x] \in lo .. hi - 1
                             /\ bs[x] = <<Steps(lo, hi, step)[x], Least(Steps(lo, hi, step)[x] + step, hi)>>
  BY StepsSplit
<1>2. ASSUME NEW x \in 1 .. n PROVE Fills(g[x], p, Between(bs[x]), C, F, G)
  <2>1. Between(bs[x]) = Steps(lo, hi, step)[x] .. Least(Steps(lo, hi, step)[x] + step, hi) - 1
    BY <1>1 DEF Between
  <2> QED
    BY <1>1, <2>1
<1>3. g = [x \in 1 .. n |-> g[x]]
  BY <1>1
<1> QED
  BY ONLY <1>1, <1>2, <1>3, FillsRowRanges

LEMMA FillsColumns ==
  ASSUME NEW lo \in Int, NEW hi \in Int, lo <= hi, NEW step \in Nat \ {0},
         NEW g, g = [x \in DOMAIN Steps(lo, hi, step) |-> g[x]], NEW p, NEW R, NEW F, NEW G,
         \A x \in DOMAIN Steps(lo, hi, step) :
           Steps(lo, hi, step)[x] \in lo .. hi - 1 =>
             Fills(g[x], p, R, Steps(lo, hi, step)[x] .. Least(Steps(lo, hi, step)[x] + step, hi) - 1, F, G)
  PROVE  Fills(FlattenSeq(g), p, R, lo .. hi - 1, F, G)
<1>1. PICK n, bs :
        /\ n \in Nat
        /\ DOMAIN Steps(lo, hi, step) = 1 .. n /\ Splits(bs, n, lo, hi)
        /\ \A x \in 1 .. n : /\ Steps(lo, hi, step)[x] \in lo .. hi - 1
                             /\ bs[x] = <<Steps(lo, hi, step)[x], Least(Steps(lo, hi, step)[x] + step, hi)>>
  BY StepsSplit
<1>2. ASSUME NEW x \in 1 .. n PROVE Fills(g[x], p, R, Between(bs[x]), F, G)
  <2>1. Between(bs[x]) = Steps(lo, hi, step)[x] .. Least(Steps(lo, hi, step)[x] + step, hi) - 1
    BY <1>1 DEF Between
  <2> QED
    BY <1>1, <2>1
<1>3. g = [x \in 1 .. n |-> g[x]]
  BY <1>1
<1> QED
  BY ONLY <1>1, <1>2, <1>3, FillsColumnRanges

(* What is in the elements of a block: the first k products, or all the    *)
(* products and what comes after them.                                     *)
Partial(i, j, k) == [x \in 1 .. k |-> Product(<<i, x - 1>>, <<x - 1, j>>)]
Summed(k) == [i \in Int |-> [j \in Int |-> Partial(i, j, k)]]
Completed(p, last) == [i \in Int |-> [j \in Int |-> Products(p, i, j) \o last]]

LEMMA PartialIsSeq ==
  ASSUME NEW i, NEW j, NEW k \in Nat
  PROVE  \E S : Partial(i, j, k) \in Seq(S)
<1>1. PICK s : s = Partial(i, j, k)
  OBVIOUS
<1>2. PICK S : S = {s[x] : x \in 1 .. k}
  OBVIOUS
<1>3. s = [x \in 1 .. k |-> s[x]]
  BY <1>1 DEF Partial
<1>4. s \in [1 .. k -> S]
  BY <1>2, <1>3
<1>5. s \in Seq(S)
  BY <1>4
<1> QED
  BY <1>1, <1>5

(* Nothing more than the products.                                         *)
LEMMA CompletedIsSummed ==
  ASSUME NEW p, p.k \in Nat
  PROVE  Completed(p, <<>>) = Summed(p.k)
<1>1. ASSUME NEW i, NEW j PROVE Products(p, i, j) \o <<>> = Partial(i, j, p.k)
  <2>1. Products(p, i, j) = Partial(i, j, p.k)
    BY DEF Products, Partial
  <2>2. PICK S, s : s = Partial(i, j, p.k) /\ s \in Seq(S)
    BY PartialIsSeq
  <2>3. s \o <<>> = s
    BY <2>2
  <2> QED
    BY <2>1, <2>2, <2>3
<1> QED
  BY <1>1 DEF Completed, Summed

(* One operation on a block.                                               *)
LEMMA FillsOne ==
  ASSUME NEW op, NEW p, NEW R, NEW C, op.rows = R, op.cols = C, NEW F, NEW G,
         \A i \in R, j \in C : Applied(op, p, i, j, F[i][j]) = G[i][j]
  PROVE  Fills(<<op>>, p, R, C, F, G)
<1>1. Within(<<op>>, R, C)
  BY OneWithin
<1>2. ASSUME NEW i \in R, NEW j \in C PROVE Makes(<<op>>, p, i, j, F[i][j], G[i][j])
  <2>1. i \in op.rows /\ j \in op.cols
    OBVIOUS
  <2>2. Makes(<<op>>, p, i, j, F[i][j], Applied(op, p, i, j, F[i][j]))
    BY <2>1, OneMakes
  <2> QED
    BY <2>2
<1> QED
  BY <1>1, <1>2 DEF Fills

LEMMA ZeroFills ==
  ASSUME NEW i0 \in Int, NEW i1 \in Int, NEW j0 \in Int, NEW j1 \in Int, NEW p, NEW F
  PROVE  Fills(Zero(i0, i1, j0, j1), p, i0 .. i1 - 1, j0 .. j1 - 1, F, Summed(0))
<1>1. PICK R, C : R = i0 .. i1 - 1 /\ C = j0 .. j1 - 1 /\ R \subseteq Int /\ C \subseteq Int
  OBVIOUS
<1>2. PICK op : op = [kind |-> "zero", rows |-> R, cols |-> C]
  OBVIOUS
<1>3. op.rows = R /\ op.cols = C
  BY <1>2
<1>4. ASSUME NEW i \in R, NEW j \in C PROVE Applied(op, p, i, j, F[i][j]) = Summed(0)[i][j]
  <2>1. Applied(op, p, i, j, F[i][j]) = <<>>
    BY <1>2 DEF Applied
  <2>2. Summed(0)[i][j] = Partial(i, j, 0)
    BY <1>1 DEF Summed
  <2>3. Partial(i, j, 0) = <<>>
    BY DEF Partial
  <2> QED
    BY <2>1, <2>2, <2>3
<1>5. Fills(<<op>>, p, R, C, F, Summed(0))
  BY <1>3, <1>4, FillsOne
<1> QED
  BY <1>1, <1>2, <1>5 DEF Zero

LEMMA StoreFills ==
  ASSUME NEW i0 \in Int, NEW i1 \in Int, NEW j0 \in Int, NEW j1 \in Int, NEW last, NEW p, NEW F
  PROVE  Fills(Store(i0, i1, j0, j1, last), p, i0 .. i1 - 1, j0 .. j1 - 1, F, Completed(p, last))
<1>1. PICK R, C : R = i0 .. i1 - 1 /\ C = j0 .. j1 - 1 /\ R \subseteq Int /\ C \subseteq Int
  OBVIOUS
<1>2. PICK op : op = [kind |-> "store", rows |-> R, cols |-> C, last |-> last]
  OBVIOUS
<1>3. op.rows = R /\ op.cols = C
  BY <1>2
<1>4. ASSUME NEW i \in R, NEW j \in C PROVE Applied(op, p, i, j, F[i][j]) = Completed(p, last)[i][j]
  <2>1. Applied(op, p, i, j, F[i][j]) = Products(p, i, j) \o last
    BY <1>2 DEF Applied
  <2>2. Completed(p, last)[i][j] = Products(p, i, j) \o last
    BY <1>1 DEF Completed
  <2> QED
    BY <2>1, <2>2
<1>5. Fills(<<op>>, p, R, C, F, Completed(p, last))
  BY <1>3, <1>4, FillsOne
<1> QED
  BY <1>1, <1>2, <1>5 DEF Store

LEMMA EpilogueFills ==
  ASSUME NEW i0 \in Int, NEW i1 \in Int, NEW j0 \in Int, NEW j1 \in Int, NEW last, NEW p
  PROVE  Fills(Epilogue(i0, i1, j0, j1, last), p, i0 .. i1 - 1, j0 .. j1 - 1,
               Summed(p.k), Completed(p, last))
<1>1. PICK R, C : R = i0 .. i1 - 1 /\ C = j0 .. j1 - 1 /\ R \subseteq Int /\ C \subseteq Int
  OBVIOUS
<1>2. PICK op : op = [kind |-> "epilogue", rows |-> R, cols |-> C, last |-> last]
  OBVIOUS
<1>3. op.rows = R /\ op.cols = C
  BY <1>2
<1>4. ASSUME NEW i \in R, NEW j \in C
      PROVE  Applied(op, p, i, j, Summed(p.k)[i][j]) = Completed(p, last)[i][j]
  <2>1. Applied(op, p, i, j, Partial(i, j, p.k)) = Partial(i, j, p.k) \o last
    BY <1>2 DEF Applied
  <2>2. Completed(p, last)[i][j] = Products(p, i, j) \o last /\ Summed(p.k)[i][j] = Partial(i, j, p.k)
    BY <1>1 DEF Completed, Summed
  <2>3. Products(p, i, j) = Partial(i, j, p.k)
    BY DEF Products, Partial
  <2> QED
    BY <2>1, <2>2, <2>3
<1>5. Fills(<<op>>, p, R, C, Summed(p.k), Completed(p, last))
  BY <1>3, <1>4, FillsOne
<1> QED
  BY <1>1, <1>2, <1>5 DEF Epilogue

(* The next products of a block.                                           *)
LEMMA MoreProducts ==
  ASSUME NEW i, NEW j, NEW k0 \in Nat, NEW k1 \in Nat, k0 <= k1
  PROVE  Partial(i, j, k0) \o [x \in 1 .. k1 - k0 |-> Product(<<i, k0 + x - 1>>, <<k0 + x - 1, j>>)]
           = Partial(i, j, k1)
<1>1. PICK a, b, c : /\ a = Partial(i, j, k0) /\ c = Partial(i, j, k1)
                     /\ b = [x \in 1 .. k1 - k0 |-> Product(<<i, k0 + x - 1>>, <<k0 + x - 1, j>>)]
  OBVIOUS
<1>2. PICK n \in Nat : n = k1 - k0
  OBVIOUS
<1>3. PICK S : S = {c[x] : x \in 1 .. k1}
  OBVIOUS
<1>4. \A x \in 1 .. k1 : c[x] = Product(<<i, x - 1>>, <<x - 1, j>>)
  BY <1>1 DEF Partial
<1>5. \A x \in 1 .. k0 : a[x] = c[x]
  BY <1>1 DEF Partial
<1>6. \A x \in 1 .. n : b[x] = c[k0 + x]
  <2>1. ASSUME NEW x \in 1 .. n PROVE b[x] = c[k0 + x]
    <3>1. k0 + x \in 1 .. k1
      BY <1>2
    <3>2. b[x] = Product(<<i, k0 + x - 1>>, <<k0 + x - 1, j>>)
      BY <1>1, <1>2
    <3> QED
      BY <1>4, <3>1, <3>2
  <2> QED
    BY <2>1
<1>7. a \in Seq(S) /\ Len(a) = k0
  <2>1. a = [x \in 1 .. k0 |-> a[x]]
    BY <1>1 DEF Partial
  <2>2. \A x \in 1 .. k0 : a[x] \in S
    BY <1>3, <1>5
  <2>3. a \in [1 .. k0 -> S]
    BY <2>1, <2>2
  <2> QED
    BY <2>3
<1>8. b \in Seq(S) /\ Len(b) = n
  <2>1. b = [x \in 1 .. n |-> b[x]]
    BY <1>1, <1>2
  <2>2. \A x \in 1 .. n : b[x] \in S
    <3>1. \A x \in 1 .. n : k0 + x \in 1 .. k1
      BY <1>2
    <3> QED
      BY <1>3, <1>6, <3>1
  <2>3. b \in [1 .. n -> S]
    BY <2>1, <2>2
  <2> QED
    BY <2>3
<1>9. PICK d : d = a \o b
  OBVIOUS
<1>10. /\ d \in Seq(S) /\ Len(d) = k0 + n
       /\ \A x \in 1 .. k0 : d[x] = a[x]
       /\ \A x \in 1 .. n : d[k0 + x] = b[x]
  <2>1. /\ d \in Seq(S) /\ Len(d) = Len(a) + Len(b)
        /\ \A x \in 1 .. Len(a) : d[x] = a[x]
        /\ \A x \in 1 .. Len(b) : d[Len(a) + x] = b[x]
    <3>1. a \in Seq(S) /\ b \in Seq(S)
      BY <1>7, <1>8
    <3> QED
      BY ONLY <1>9, <3>1, Concatenation
  <2> QED
    BY <1>7, <1>8, <2>1
<1>11. k0 + n = k1
  BY <1>2
<1>12. d = [x \in 1 .. k1 |-> d[x]]
  BY <1>10, <1>11
<1>13. ASSUME NEW x \in 1 .. k1 PROVE d[x] = c[x]
  <2>1. CASE x <= k0
    BY <1>5, <1>10, <2>1
  <2>2. CASE x > k0
    <3>1. PICK y \in 1 .. n : y = x - k0
      BY <1>2, <2>2
    <3>2. x = k0 + y
      BY <3>1
    <3> QED
      BY <1>6, <1>10, <3>2
  <2> QED
    BY <2>1, <2>2
<1>14. c = [x \in 1 .. k1 |-> c[x]]
  BY <1>1 DEF Partial
<1>15. d = c
  BY <1>12, <1>13, <1>14
<1> QED
  BY <1>1, <1>9, <1>15

LEMMA UpdateFills ==
  ASSUME NEW i0 \in Int, NEW i1 \in Int, NEW j0 \in Int, NEW j1 \in Int,
         NEW k0 \in Nat, NEW k1 \in Nat, k0 <= k1, NEW p,
         NEW reads, reads = [j \in j0 .. j1 - 1 |-> [x \in 1 .. k1 - k0 |-> <<k0 + x - 1, j>>]]
  PROVE  Fills(<<[kind |-> "update", rows |-> i0 .. i1 - 1, cols |-> j0 .. j1 - 1,
                  first |-> k0, reads |-> reads]>>, p, i0 .. i1 - 1, j0 .. j1 - 1,
               Summed(k0), Summed(k1))
<1>1. PICK R, C : R = i0 .. i1 - 1 /\ C = j0 .. j1 - 1 /\ R \subseteq Int /\ C \subseteq Int
  OBVIOUS
<1>2. PICK op : op = [kind |-> "update", rows |-> R, cols |-> C, first |-> k0, reads |-> reads]
  OBVIOUS
<1>3. op.rows = R /\ op.cols = C
  BY <1>2
<1>4. ASSUME NEW i \in R, NEW j \in C
      PROVE  Applied(op, p, i, j, Summed(k0)[i][j]) = Summed(k1)[i][j]
  <2>1. PICK b : b = [x \in 1 .. k1 - k0 |-> Product(<<i, k0 + x - 1>>, <<k0 + x - 1, j>>)]
    OBVIOUS
  <2>2. [x \in DOMAIN op.reads[j] |-> Product(<<i, op.first + x - 1>>, op.reads[j][x])] = b
    <3>1. op.reads = reads /\ op.first = k0 /\ reads[j] = [x \in 1 .. k1 - k0 |-> <<k0 + x - 1, j>>]
      BY <1>1, <1>2
    <3>2. PICK r : r = reads[j] /\ r = [x \in 1 .. k1 - k0 |-> <<k0 + x - 1, j>>]
      BY <3>1
    <3>3. DOMAIN r = 1 .. k1 - k0 /\ \A x \in 1 .. k1 - k0 : r[x] = <<k0 + x - 1, j>>
      BY <3>2
    <3>4. [x \in DOMAIN r |-> Product(<<i, k0 + x - 1>>, r[x])] = b
      BY <2>1, <3>3
    <3> QED
      BY <3>1, <3>2, <3>4
  <2>3. op.kind = "update"
    BY <1>2
  <2>4. Applied(op, p, i, j, Partial(i, j, k0)) = Partial(i, j, k0) \o b
    BY <2>2, <2>3 DEF Applied
  <2>5. Partial(i, j, k0) \o b = Partial(i, j, k1)
    BY <2>1, MoreProducts
  <2>6. Summed(k0)[i][j] = Partial(i, j, k0) /\ Summed(k1)[i][j] = Partial(i, j, k1)
    BY <1>1 DEF Summed
  <2> QED
    BY <2>4, <2>5, <2>6
<1>5. Fills(<<op>>, p, R, C, Summed(k0), Summed(k1))
  BY <1>3, <1>4, FillsOne
<1> QED
  BY <1>1, <1>2, <1>5

LEMMA DirectFills ==
  ASSUME NEW i0 \in Int, NEW i1 \in Int, NEW j0 \in Int, NEW j1 \in Int,
         NEW k0 \in Nat, NEW k1 \in Nat, k0 <= k1, NEW p
  PROVE  Fills(Update(i0, i1, j0, j1, k0, k1, Direct), p, i0 .. i1 - 1, j0 .. j1 - 1,
               Summed(k0), Summed(k1))
<1>1. PICK reads : reads = [j \in j0 .. j1 - 1 |-> [x \in 1 .. k1 - k0 |-> <<k0 + x - 1, j>>]]
  OBVIOUS
<1>2. Update(i0, i1, j0, j1, k0, k1, Direct)
        = <<[kind |-> "update", rows |-> i0 .. i1 - 1, cols |-> j0 .. j1 - 1,
             first |-> k0, reads |-> reads]>>
  BY <1>1 DEF Update, Direct
<1>3. Fills(<<[kind |-> "update", rows |-> i0 .. i1 - 1, cols |-> j0 .. j1 - 1,
               first |-> k0, reads |-> reads]>>, p, i0 .. i1 - 1, j0 .. j1 - 1,
            Summed(k0), Summed(k1))
  BY <1>1, UpdateFills
<1> QED
  BY ONLY <1>2, <1>3, Zenon

(* The loop over the reduction: each iteration adds the next products.     *)
LEMMA FillsDepth ==
  ASSUME NEW k \in Nat, NEW step \in Nat \ {0},
         NEW g, g = [x \in DOMAIN Steps(0, k, step) |-> g[x]], NEW p, NEW R, NEW C,
         \A x \in DOMAIN Steps(0, k, step) :
           Steps(0, k, step)[x] \in 0 .. k - 1 =>
             Fills(g[x], p, R, C, Summed(Steps(0, k, step)[x]),
                   Summed(Least(Steps(0, k, step)[x] + step, k)))
  PROVE  Fills(FlattenSeq(g), p, R, C, Summed(0), Summed(k))
<1>1. PICK n \in Nat : /\ n = CeilDiv(k - 0, step) /\ DOMAIN Steps(0, k, step) = 1 .. n
                       /\ \A x \in 1 .. n : /\ Steps(0, k, step)[x] = 0 + (x - 1) * step
                                            /\ Steps(0, k, step)[x] \in 0 .. k - 1
  <2>1. 0 \in Int /\ k \in Int /\ 0 <= k
    OBVIOUS
  <2> QED
    BY <2>1, StepsInside
<1>2. PICK c : c = [x \in 0 .. n |-> Summed(Least(x * step, k))]
  OBVIOUS
<1>3. ASSUME NEW x \in 1 .. n PROVE Fills(g[x], p, R, C, c[x - 1], c[x])
  <2>1. (x - 1) * step \in Nat /\ (x - 1) * step + step = x * step /\ x * step \in Nat
    OBVIOUS
  <2>2. PICK s \in 0 .. k - 1 : s = Steps(0, k, step)[x] /\ s = (x - 1) * step
    BY <1>1, <2>1
  <2>3. c[x - 1] = Summed(s)
    <3>1. c[x - 1] = Summed(Least((x - 1) * step, k))
      BY <1>2
    <3>2. Least((x - 1) * step, k) = s
      BY <2>2 DEF Least
    <3> QED
      BY <3>1, <3>2
  <2>4. c[x] = Summed(Least(s + step, k))
    BY <1>2, <2>1, <2>2
  <2> QED
    BY <1>1, <2>2, <2>3, <2>4
<1>4. c[0] = Summed(0)
  <2>1. c[0] = Summed(Least(0 * step, k))
    BY <1>2
  <2>2. Least(0 * step, k) = 0
    BY DEF Least
  <2> QED
    BY <2>1, <2>2
<1>5. c[n] = Summed(k)
  <2>1. k <= step * n /\ step * n = n * step /\ n * step \in Nat
    <3>1. k - 0 = k /\ k <= step * CeilDiv(k, step)
      BY CeilDivEnough
    <3> QED
      BY <1>1, <3>1
  <2>2. Least(n * step, k) = k
    BY <2>1 DEF Least
  <2> QED
    BY <1>2, <2>2
<1>6. g = [x \in 1 .. n |-> g[x]]
  BY <1>1
<1>7. Fills(FlattenSeq(g), p, R, C, c[0], c[n])
  BY ONLY n \in Nat, <1>3, <1>6, FillsChain
<1> QED
  BY <1>4, <1>5, <1>7

(* The epilogue behind a kernel, or behind a tile, unless its elements     *)
(* have got it already.                                                    *)
LEMMA EndFills ==
  ASSUME NEW fused, NEW p, p.k \in Nat,
         NEW i0 \in Int, NEW i1 \in Int, NEW j0 \in Int, NEW j1 \in Int, NEW last
  PROVE  /\ Fills(IF fused THEN <<>> ELSE Epilogue(i0, i1, j0, j1, last),
                  p, i0 .. i1 - 1, j0 .. j1 - 1,
                  Completed(p, IF fused THEN last ELSE <<>>), Completed(p, last))
         /\ Fills(IF fused THEN Epilogue(i0, i1, j0, j1, last) ELSE <<>>,
                  p, i0 .. i1 - 1, j0 .. j1 - 1,
                  Summed(p.k), Completed(p, IF fused THEN last ELSE <<>>))
<1>1. CASE fused
  BY <1>1, FillsNothing, EpilogueFills
<1>2. CASE ~ fused
  BY <1>2, FillsNothing, EpilogueFills, CompletedIsSummed
<1> QED
  BY <1>1, <1>2

(* The kernels of the interpreter fill the rows they are given with the    *)
(* reference result, whatever is there before.                             *)
PlanSizes(pl) ==
  /\ pl.bm \in Nat \ {0} /\ pl.bn \in Nat \ {0} /\ pl.bk \in Nat \ {0}
  /\ pl.mr \in Nat \ {0} /\ pl.nr \in Nat \ {0} /\ pl.width \in Nat \ {0}
  /\ pl.width <= pl.nr

ProblemSet ==
  [m : Nat \ {0}, n : Nat \ {0}, k : Nat \ {0}, bias : BOOLEAN, relu : BOOLEAN]

(* The end of a range of a loop.                                           *)
LEMMA CutEnd ==
  ASSUME NEW lo \in Nat, NEW hi \in Nat, NEW step \in Nat \ {0}, NEW x \in lo .. hi - 1
  PROVE  /\ Least(x + step, hi) \in Nat /\ x < Least(x + step, hi) /\ Least(x + step, hi) <= hi
         /\ x \in Nat
BY DEF Least

LEMMA IjkFills ==
  ASSUME NEW p \in ProblemSet, NEW pl, NEW lo \in Nat, NEW hi \in Nat, lo < hi, NEW F
  PROVE  Fills(IjkKernel(p, pl, lo, hi), p, lo .. hi - 1, 0 .. p.n - 1,
               F, Completed(p, EpilogueOf(p)))
<1> DEFINE R == lo .. hi - 1
           C == 0 .. p.n - 1
           M == Completed(p, Fused(p, pl))
           G == Completed(p, EpilogueOf(p))
           rows == Steps(lo, hi, 1)
           g == [x \in DOMAIN rows |-> Store(rows[x], rows[x] + 1, 0, p.n, Fused(p, pl))]
           last == IF pl.fused THEN <<>> ELSE Epilogue(lo, hi, 0, p.n, EpilogueOf(p))
<1>1. IjkKernel(p, pl, lo, hi) = FlattenSeq(g) \o last
  BY Zenon DEF IjkKernel, ForEach
<1>2. p.n \in Int /\ p.k \in Nat /\ 0 \in Int
  BY DEF ProblemSet
<1>3. Fills(FlattenSeq(g), p, R, C, F, M)
  <2>1. ASSUME NEW x \in DOMAIN rows, rows[x] \in lo .. hi - 1
        PROVE  Fills(g[x], p, rows[x] .. Least(rows[x] + 1, hi) - 1, C, F, M)
    <3>1. PICK i \in lo .. hi - 1 : i = rows[x]
      BY <2>1
    <3>2. PICK i1 \in Int : i1 = i + 1 /\ i1 = Least(i + 1, hi)
      BY DEF Least
    <3>3. i \in Int
      OBVIOUS
    <3> HIDE DEF rows
    <3>4. Fills(Store(i, i1, 0, p.n, Fused(p, pl)), p, i .. i1 - 1, C, F, M)
      BY ONLY <1>2, <3>3, i1 \in Int, StoreFills
    <3> HIDE DEF C, M
    <3> QED
      BY <3>1, <3>2, <3>4
  <2>2. g = [x \in DOMAIN rows |-> g[x]]
    OBVIOUS
  <2>3. lo \in Int /\ hi \in Int /\ lo <= hi /\ 1 \in Nat \ {0}
    OBVIOUS
  <2> HIDE DEF g, C, M
  <2> QED
    BY <2>1, <2>2, <2>3, FillsRows
<1>4. Fills(last, p, R, C, M, G)
  <2>1. lo \in Int /\ hi \in Int
    OBVIOUS
  <2> HIDE DEF M, G
  <2> QED
    BY <1>2, <2>1, EndFills DEF M, G, Fused
<1> HIDE DEF g, last, R, C, M, G
<1>5. Fills(FlattenSeq(g) \o last, p, R, C, F, G)
  BY <1>3, <1>4, FillsBoth
<1> QED
  BY <1>1, <1>5 DEF R, C, G

LEMMA IkjFills ==
  ASSUME NEW p \in ProblemSet, NEW pl, PlanSizes(pl), NEW lo \in Nat, NEW hi \in Nat, lo < hi, NEW F
  PROVE  Fills(IkjKernel(p, pl, lo, hi), p, lo .. hi - 1, 0 .. p.n - 1,
               F, Completed(p, EpilogueOf(p)))
<1> DEFINE R == lo .. hi - 1
           C == 0 .. p.n - 1
           Z == Summed(0)
           M == Completed(p, Fused(p, pl))
           G == Completed(p, EpilogueOf(p))
           bm == IF pl.tiled THEN pl.bm ELSE Greatest(1, hi - lo)
           bn == IF pl.tiled THEN pl.bn ELSE p.n
           bk == IF pl.tiled THEN pl.bk ELSE p.k
           iEnd(ii) == Least(ii + bm, hi)
           jEnd(jj) == Least(jj + bn, p.n)
           depth == Steps(0, p.k, bk)
           block(ii, jj, kk, i0) ==
             Update(i0, Least(i0 + pl.mr, iEnd(ii)), jj, jEnd(jj), kk, Least(kk + bk, p.k), Direct)
           rows(ii) == Steps(ii, iEnd(ii), pl.mr)
           step(ii, jj, kk) == [x \in DOMAIN rows(ii) |-> block(ii, jj, kk, rows(ii)[x])]
           sum(ii, jj) == [x \in DOMAIN depth |-> FlattenSeq(step(ii, jj, depth[x]))]
           last(ii, jj) == IF pl.fused THEN Epilogue(ii, iEnd(ii), jj, jEnd(jj), EpilogueOf(p)) ELSE <<>>
           tile(ii, jj) == FlattenSeq(sum(ii, jj)) \o last(ii, jj)
           tops == Steps(lo, hi, bm)
           lefts == Steps(0, p.n, bn)
           across(ii) == [x \in DOMAIN lefts |-> tile(ii, lefts[x])]
           down == [x \in DOMAIN tops |-> FlattenSeq(across(tops[x]))]
           end == IF pl.fused THEN <<>> ELSE Epilogue(lo, hi, 0, p.n, EpilogueOf(p))
<1>1. IkjKernel(p, pl, lo, hi) = Zero(lo, hi, 0, p.n) \o FlattenSeq(down) \o end
  BY Zenon DEF IkjKernel, ForEach
<1>2. /\ bm \in Nat \ {0} /\ bn \in Nat \ {0} /\ bk \in Nat \ {0} /\ pl.mr \in Nat \ {0}
      /\ p.n \in Nat \ {0} /\ p.k \in Nat \ {0}
  BY DEF PlanSizes, ProblemSet, Greatest
<1> HIDE DEF bm, bn, bk, Z, M, G
<1>3. ASSUME NEW ii \in lo .. hi - 1, NEW jj \in 0 .. p.n - 1
      PROVE  Fills(tile(ii, jj), p, ii .. iEnd(ii) - 1, jj .. jEnd(jj) - 1, Z, M)
  <2>1. iEnd(ii) \in Nat /\ ii < iEnd(ii) /\ iEnd(ii) <= hi /\ ii \in Nat
    BY <1>2, CutEnd
  <2>2. jEnd(jj) \in Nat /\ jj < jEnd(jj) /\ jEnd(jj) <= p.n /\ jj \in Nat
    <3>1. 0 \in Nat /\ p.n \in Nat
      BY <1>2
    <3> QED
      BY <1>2, <3>1, CutEnd
  <2> DEFINE D == jj .. jEnd(jj) - 1
             Q == ii .. iEnd(ii) - 1
  <2> HIDE DEF iEnd, jEnd
  <2>3. ASSUME NEW kk \in 0 .. p.k - 1
        PROVE  Fills(FlattenSeq(step(ii, jj, kk)), p, Q, D, Summed(kk), Summed(Least(kk + bk, p.k)))
    <3>1. PICK k1 \in Nat : k1 = Least(kk + bk, p.k) /\ kk <= k1 /\ kk \in Nat
      <4>1. 0 \in Nat /\ p.k \in Nat
        BY <1>2
      <4> QED
        BY <1>2, <4>1, CutEnd
    <3>2. ASSUME NEW x \in DOMAIN rows(ii), rows(ii)[x] \in ii .. iEnd(ii) - 1
          PROVE  Fills(step(ii, jj, kk)[x], p, rows(ii)[x] .. Least(rows(ii)[x] + pl.mr, iEnd(ii)) - 1,
                       D, Summed(kk), Summed(k1))
      <4>1. PICK i0 \in ii .. iEnd(ii) - 1 : i0 = rows(ii)[x]
        BY <3>2
      <4>2. PICK i1 \in Int : i1 = Least(i0 + pl.mr, iEnd(ii))
        BY <1>2, <2>1 DEF Least
      <4>3. i0 \in Int /\ jj \in Int /\ jEnd(jj) \in Int
        BY <2>1, <2>2
      <4>4. Fills(Update(i0, i1, jj, jEnd(jj), kk, k1, Direct), p, i0 .. i1 - 1, D, Summed(kk), Summed(k1))
        BY ONLY <3>1, k1 \in Nat, i1 \in Int, <4>3, DirectFills
      <4>5. step(ii, jj, kk)[x] = Update(i0, i1, jj, jEnd(jj), kk, k1, Direct)
        BY <3>1, <4>1, <4>2, Zenon
      <4> HIDE DEF D, rows, step
      <4> QED
        BY <4>1, <4>2, <4>4, <4>5
    <3>3. step(ii, jj, kk) = [x \in DOMAIN rows(ii) |-> step(ii, jj, kk)[x]]
      OBVIOUS
    <3>4. ii \in Int /\ iEnd(ii) \in Int /\ ii <= iEnd(ii) /\ pl.mr \in Nat \ {0}
      BY <1>2, <2>1
    <3> HIDE DEF step, D
    <3> QED
      BY <3>1, <3>2, <3>3, <3>4, FillsRows
  <2>4. Fills(FlattenSeq(sum(ii, jj)), p, Q, D, Z, Summed(p.k))
    <3>1. sum(ii, jj) = [x \in DOMAIN depth |-> sum(ii, jj)[x]]
      OBVIOUS
    <3>2. ASSUME NEW x \in DOMAIN depth, depth[x] \in 0 .. p.k - 1
          PROVE  Fills(sum(ii, jj)[x], p, Q, D, Summed(depth[x]), Summed(Least(depth[x] + bk, p.k)))
      <4> HIDE DEF step, Q, D
      <4> QED
        BY <2>3, <3>2
    <3>3. p.k \in Nat /\ bk \in Nat \ {0}
      BY <1>2
    <3> HIDE DEF sum, Q, D
    <3> QED
      BY <3>1, <3>2, <3>3, FillsDepth DEF Z
  <2>5. Fills(last(ii, jj), p, Q, D, Summed(p.k), M)
    <3>1. ii \in Int /\ iEnd(ii) \in Int /\ jj \in Int /\ jEnd(jj) \in Int /\ p.k \in Nat
      BY <1>2, <2>1, <2>2
    <3> QED
      BY <3>1, EndFills DEF M, Fused
  <2> HIDE DEF sum, last, Q, D
  <2>6. Fills(tile(ii, jj), p, Q, D, Z, M)
    BY <2>4, <2>5, FillsBoth
  <2> QED
    BY <2>6 DEF Q, D
<1>4. ASSUME NEW ii \in lo .. hi - 1
      PROVE  Fills(FlattenSeq(across(ii)), p, ii .. iEnd(ii) - 1, C, Z, M)
  <2>1. across(ii) = [x \in DOMAIN lefts |-> across(ii)[x]]
    OBVIOUS
  <2>2. ASSUME NEW x \in DOMAIN lefts, lefts[x] \in 0 .. p.n - 1
        PROVE  Fills(across(ii)[x], p, ii .. iEnd(ii) - 1, lefts[x] .. Least(lefts[x] + bn, p.n) - 1, Z, M)
    <3> HIDE DEF tile, iEnd
    <3> QED
      BY <1>3, <2>2
  <2>3. 0 \in Int /\ p.n \in Int /\ 0 <= p.n /\ bn \in Nat \ {0}
    BY <1>2
  <2> HIDE DEF across, iEnd
  <2> QED
    BY <2>1, <2>2, <2>3, FillsColumns
<1>5. Fills(FlattenSeq(down), p, R, C, Z, M)
  <2>1. down = [x \in DOMAIN tops |-> down[x]]
    OBVIOUS
  <2>2. ASSUME NEW x \in DOMAIN tops, tops[x] \in lo .. hi - 1
        PROVE  Fills(down[x], p, tops[x] .. Least(tops[x] + bm, hi) - 1, C, Z, M)
    <3> HIDE DEF across, C
    <3> QED
      BY <1>4, <2>2
  <2>3. lo \in Int /\ hi \in Int /\ lo <= hi /\ bm \in Nat \ {0}
    BY <1>2
  <2> HIDE DEF down, C
  <2> QED
    BY <2>1, <2>2, <2>3, FillsRows
<1>6. Fills(Zero(lo, hi, 0, p.n), p, R, C, F, Z) /\ Fills(end, p, R, C, M, G)
  <2>1. lo \in Int /\ hi \in Int /\ 0 \in Int /\ p.n \in Int /\ p.k \in Nat
    BY <1>2
  <2> QED
    BY <2>1, ZeroFills, EndFills DEF Z, M, G, Fused
<1> HIDE DEF down, end, R, C
<1>7. Fills(Zero(lo, hi, 0, p.n) \o FlattenSeq(down) \o end, p, R, C, F, G)
  BY <1>5, <1>6, FillsBoth
<1> QED
  BY <1>1, <1>7 DEF R, C, G

(* Whole ranges, and ranges behind others.                                 *)
LEMMA EvenSplit ==
  ASSUME NEW lo \in Int, NEW step \in Nat \ {0}, NEW n \in Nat,
         NEW bs, bs = [x \in 1 .. n |-> <<lo + (x - 1) * step, lo + (x - 1) * step + step>>]
  PROVE  Splits(bs, n, lo, lo + n * step)
<1>1. PICK hi \in Int : hi = lo + n * step /\ lo <= hi /\ hi - lo <= n * step
  <2>1. n * step \in Nat
    OBVIOUS
  <2> QED
    BY <2>1
<1>2. ASSUME NEW x \in 1 .. n PROVE bs[x] = Cut(lo, hi, step, x)
  <2>1. (x - 1) * step \in Nat /\ (x - 1) * step + step = x * step /\ x * step <= n * step
        /\ n * step \in Nat
    OBVIOUS
  <2>2. Least(lo + (x - 1) * step + step, hi) = lo + (x - 1) * step + step
    BY <1>1, <2>1 DEF Least
  <2> QED
    BY <2>2 DEF Cut
<1>3. bs = [x \in 1 .. n |-> Cut(lo, hi, step, x)]
  BY <1>2
<1>4. Splits(bs, n, lo, hi)
  BY <1>1, <1>3, CutsSplit
<1> QED
  BY <1>1, <1>4

LEMMA SplitsBoth ==
  ASSUME NEW S, NEW a \in Seq(S), NEW b \in Seq(S), NEW n \in Nat, NEW d \in Nat,
         NEW lo \in Int, NEW mid \in Int, NEW hi \in Int, lo <= mid, mid <= hi,
         Splits(a, n, lo, mid), Splits(b, d, mid, hi)
  PROVE  Splits(a \o b, n + d, lo, hi)
<1>1. /\ Len(a) = n /\ \A x \in 1 .. n : Between(a[x]) \subseteq lo .. mid - 1
      /\ \A i \in lo .. mid - 1 : \E y \in 1 .. n :
           i \in Between(a[y]) /\ \A x \in 1 .. n : x # y => i \notin Between(a[x])
  <2>1. a = [x \in 1 .. n |-> a[x]]
    BY DEF Splits
  <2>2. Len(a) = n
    BY <2>1
  <2> QED
    BY <2>2 DEF Splits
<1>2. /\ Len(b) = d /\ \A x \in 1 .. d : Between(b[x]) \subseteq mid .. hi - 1
      /\ \A i \in mid .. hi - 1 : \E y \in 1 .. d :
           i \in Between(b[y]) /\ \A x \in 1 .. d : x # y => i \notin Between(b[x])
  <2>1. b = [x \in 1 .. d |-> b[x]]
    BY DEF Splits
  <2>2. Len(b) = d
    BY <2>1
  <2> QED
    BY <2>2 DEF Splits
<1>3. PICK c : c = a \o b
  OBVIOUS
<1>4. /\ c \in Seq(S) /\ Len(c) = n + d
      /\ \A x \in 1 .. n : c[x] = a[x]
      /\ \A x \in 1 .. d : c[n + x] = b[x]
  <2>1. /\ c \in Seq(S) /\ Len(c) = Len(a) + Len(b)
        /\ \A x \in 1 .. Len(a) : c[x] = a[x]
        /\ \A x \in 1 .. Len(b) : c[Len(a) + x] = b[x]
    BY ONLY <1>3, a \in Seq(S), b \in Seq(S), Concatenation
  <2> QED
    BY <1>1, <1>2, <2>1
<1>5. \A x \in 1 .. n + d : x \in 1 .. n \/ \E y \in 1 .. d : x = n + y
  <2>1. ASSUME NEW x \in 1 .. n + d, x \notin 1 .. n PROVE \E y \in 1 .. d : x = n + y
    <3>1. x - n \in 1 .. d /\ x = n + (x - n)
      BY <2>1
    <3> QED
      BY <3>1
  <2> QED
    BY <2>1
<1>6. c = [x \in 1 .. n + d |-> c[x]]
  BY <1>4
<1>7. ASSUME NEW x \in 1 .. n + d PROVE Between(c[x]) \subseteq lo .. hi - 1
  <2>1. CASE x \in 1 .. n
    <3>1. Between(c[x]) \subseteq lo .. mid - 1
      BY <1>1, <1>4, <2>1
    <3>2. lo .. mid - 1 \subseteq lo .. hi - 1
      OBVIOUS
    <3> QED
      BY <3>1, <3>2
  <2>2. CASE x \notin 1 .. n
    <3>1. PICK y \in 1 .. d : x = n + y
      BY <1>5, <2>2
    <3>2. Between(c[x]) \subseteq mid .. hi - 1
      BY <1>2, <1>4, <3>1
    <3>3. mid .. hi - 1 \subseteq lo .. hi - 1
      OBVIOUS
    <3> QED
      BY <3>2, <3>3
  <2> QED
    BY <2>1, <2>2
<1>8. ASSUME NEW i \in lo .. hi - 1
      PROVE  \E y \in 1 .. n + d : /\ i \in Between(c[y])
                                   /\ \A x \in 1 .. n + d : x # y => i \notin Between(c[x])
  <2>1. CASE i < mid
    <3>1. PICK y \in 1 .. n : i \in Between(a[y]) /\ \A x \in 1 .. n : x # y => i \notin Between(a[x])
      <4>1. i \in lo .. mid - 1
        BY <2>1
      <4> QED
        BY <1>1, <4>1
    <3>2. y \in 1 .. n + d /\ i \in Between(c[y])
      BY <1>4, <3>1
    <3>3. ASSUME NEW x \in 1 .. n + d, x # y PROVE i \notin Between(c[x])
      <4>1. CASE x \in 1 .. n
        BY <1>4, <3>1, <3>3, <4>1
      <4>2. CASE x \notin 1 .. n
        <5>1. PICK z \in 1 .. d : x = n + z
          BY <1>5, <4>2
        <5>2. Between(c[x]) \subseteq mid .. hi - 1
          BY <1>2, <1>4, <5>1
        <5>3. i \notin mid .. hi - 1
          BY <2>1
        <5> QED
          BY <5>2, <5>3
      <4> QED
        BY <4>1, <4>2
    <3> QED
      BY <3>2, <3>3
  <2>2. CASE ~ (i < mid)
    <3>1. PICK z \in 1 .. d : i \in Between(b[z]) /\ \A x \in 1 .. d : x # z => i \notin Between(b[x])
      <4>1. i \in mid .. hi - 1
        BY <2>2
      <4> QED
        BY <1>2, <4>1
    <3>2. PICK y \in 1 .. n + d : y = n + z
      OBVIOUS
    <3>3. i \in Between(c[y])
      BY <1>4, <3>1, <3>2
    <3>4. ASSUME NEW x \in 1 .. n + d, x # y PROVE i \notin Between(c[x])
      <4>1. CASE x \in 1 .. n
        <5>1. Between(c[x]) \subseteq lo .. mid - 1
          BY <1>1, <1>4, <4>1
        <5>2. i \notin lo .. mid - 1
          BY <2>2
        <5> QED
          BY <5>1, <5>2
      <4>2. CASE x \notin 1 .. n
        <5>1. PICK v \in 1 .. d : x = n + v
          BY <1>5, <4>2
        <5>2. v # z /\ c[x] = b[v]
          BY <1>4, <3>2, <3>4, <5>1
        <5> QED
          BY <3>1, <5>2
      <4> QED
        BY <4>1, <4>2
    <3> QED
      BY <3>3, <3>4
  <2> QED
    BY <2>1, <2>2
<1>9. Splits(c, n + d, lo, hi)
  BY <1>6, <1>7, <1>8 DEF Splits
<1> QED
  BY <1>3, <1>9

(* The columns of a micro-kernel.                                          *)
LEMMA ColumnBlocksSplit ==
  ASSUME NEW j0 \in Nat, NEW j1 \in Nat, j0 <= j1, NEW height \in Int
  PROVE  \E n \in Nat : /\ Splits(ColumnBlocks(j0, j1, height), n, j0, j1)
                        /\ \A x \in 1 .. n : ColumnBlocks(j0, j1, height)[x] \in Int \X Int
<1> DEFINE wide == IF height <= WideRows THEN (j1 - j0) \div (2 * Lanes) ELSE 0
           narrow == (j1 - j0 - wide * 2 * Lanes) \div Lanes
           tail == j0 + (wide * 2 + narrow) * Lanes
           a == [x \in 1 .. wide |-> <<j0 + (x - 1) * 2 * Lanes, j0 + x * 2 * Lanes>>]
           b == [x \in 1 .. narrow |-> <<j0 + (wide * 2 + x - 1) * Lanes, j0 + (wide * 2 + x) * Lanes>>]
           c == [x \in 1 .. j1 - tail |-> <<tail + x - 1, tail + x>>]
           S == Int \X Int
<1>1. ColumnBlocks(j0, j1, height) = a \o b \o c
  BY Zenon DEF ColumnBlocks
<1>2. Lanes \in Nat \ {0} /\ 2 * Lanes \in Nat \ {0} /\ Lanes \in Int /\ WideRows \in Int
  BY RegistersAssumption
<1>3. wide \in Nat /\ wide * (2 * Lanes) <= j1 - j0
  <2>1. PICK room \in Nat, two \in Nat \ {0} : room = j1 - j0 /\ two = 2 * Lanes
    BY <1>2
  <2>2. PICK d \in Nat : d = room \div two /\ two * d <= room
    BY ONLY DivNat, DivBounds, room \in Nat, two \in Nat \ {0}
  <2>3. two * d = d * two /\ 0 * two = 0
    OBVIOUS
  <2>4. wide = d \/ wide = 0
    BY <2>1, <2>2
  <2> HIDE DEF wide
  <2> QED
    BY <2>1, <2>2, <2>3, <2>4
<1> HIDE DEF wide
<1>4. /\ narrow \in Nat /\ wide * (2 * Lanes) \in Nat /\ narrow * Lanes \in Nat
      /\ narrow * Lanes <= j1 - j0 - wide * (2 * Lanes)
  <2>1. wide * 2 * Lanes = wide * (2 * Lanes) /\ wide * (2 * Lanes) \in Nat
    BY <1>2, <1>3
  <2>2. PICK rest \in Nat : rest = j1 - j0 - wide * 2 * Lanes
    BY <1>3, <2>1
  <2>3. PICK d \in Nat : d = rest \div Lanes /\ Lanes * d <= rest
    BY <1>2, DivNat, DivBounds
  <2>4. Lanes * d = d * Lanes /\ d * Lanes \in Nat
    BY <1>2
  <2>5. narrow = d
    BY <2>2, <2>3
  <2> HIDE DEF narrow
  <2> QED
    BY <2>1, <2>2, <2>3, <2>4, <2>5
<1> HIDE DEF narrow
<1>5. PICK m1 \in Int, m2 \in Int :
        /\ m1 = j0 + wide * (2 * Lanes) /\ m2 = m1 + narrow * Lanes /\ m2 = tail
        /\ j0 <= m1 /\ m1 <= m2 /\ m2 <= j1
  <2>1. (wide * 2 + narrow) * Lanes = wide * (2 * Lanes) + narrow * Lanes
    BY <1>2, <1>3, <1>4
  <2> QED
    BY <1>3, <1>4, <2>1
<1>6. Splits(a, wide, j0, m1) /\ a \in Seq(S)
  <2>1. ASSUME NEW x \in 1 .. wide
        PROVE  /\ j0 + (x - 1) * 2 * Lanes = j0 + (x - 1) * (2 * Lanes)
               /\ j0 + x * 2 * Lanes = j0 + (x - 1) * (2 * Lanes) + 2 * Lanes
               /\ j0 + (x - 1) * (2 * Lanes) \in Int
    BY <1>2, <1>3
  <2>2. a = [x \in 1 .. wide |-> <<j0 + (x - 1) * (2 * Lanes), j0 + (x - 1) * (2 * Lanes) + 2 * Lanes>>]
    BY <2>1
  <2>3. a \in Seq(S)
    BY <1>2, <1>3, <2>1, <2>2
  <2> HIDE DEF a, S
  <2>4. j0 \in Int
    OBVIOUS
  <2>5. Splits(a, wide, j0, j0 + wide * (2 * Lanes))
    BY ONLY <1>2, <1>3, <2>2, <2>4, EvenSplit
  <2> QED
    BY <1>5, <2>3, <2>5
<1>7. Splits(b, narrow, m1, m2) /\ b \in Seq(S)
  <2>1. ASSUME NEW x \in 1 .. narrow
        PROVE  /\ j0 + (wide * 2 + x - 1) * Lanes = m1 + (x - 1) * Lanes
               /\ j0 + (wide * 2 + x) * Lanes = m1 + (x - 1) * Lanes + Lanes
               /\ m1 + (x - 1) * Lanes \in Int
    <3>1. /\ (wide * 2 + x) * Lanes = wide * (2 * Lanes) + x * Lanes
          /\ (wide * 2 + x - 1) * Lanes = wide * (2 * Lanes) + (x - 1) * Lanes
          /\ (x - 1) * Lanes = x * Lanes - Lanes
          /\ x * Lanes \in Nat /\ (x - 1) * Lanes \in Nat
      BY <1>2, <1>3, <1>4
    <3> QED
      BY <1>2, <1>4, <1>5, <3>1
  <2>2. b = [x \in 1 .. narrow |-> <<m1 + (x - 1) * Lanes, m1 + (x - 1) * Lanes + Lanes>>]
    BY <2>1
  <2>3. b \in Seq(S)
    BY <1>2, <1>4, <2>1, <2>2
  <2> HIDE DEF b, S
  <2>4. Splits(b, narrow, m1, m1 + narrow * Lanes)
    BY ONLY m1 \in Int, <1>2, <1>4, <2>2, EvenSplit
  <2> QED
    BY <1>5, <2>3, <2>4
<1>8. PICK r \in Nat : r = j1 - m2
  BY <1>5
<1>9. Splits(c, r, m2, j1) /\ c \in Seq(S)
  <2>1. c = [x \in 1 .. r |-> <<m2 + x - 1, m2 + x>>]
    BY <1>5, <1>8
  <2>2. ASSUME NEW x \in 1 .. r PROVE m2 + (x - 1) * 1 = m2 + x - 1 /\ m2 + (x - 1) * 1 + 1 = m2 + x
    OBVIOUS
  <2>3. c = [x \in 1 .. r |-> <<m2 + (x - 1) * 1, m2 + (x - 1) * 1 + 1>>]
    BY <2>1, <2>2
  <2>4. c \in Seq(S)
    <3>1. \A x \in 1 .. r : <<m2 + x - 1, m2 + x>> \in S
      OBVIOUS
    <3>2. c \in [1 .. r -> S]
      <4> HIDE DEF c, S
      <4> QED
        BY <2>1, <3>1
    <3> HIDE DEF c, S
    <3> QED
      BY <3>2
  <2>5. m2 + r * 1 = j1 /\ 1 \in Nat \ {0}
    BY <1>8
  <2> HIDE DEF c, S
  <2>6. Splits(c, r, m2, m2 + r * 1)
    BY ONLY m2 \in Int, r \in Nat, <2>3, <2>5, EvenSplit
  <2> QED
    BY <2>4, <2>5, <2>6
<1> HIDE DEF a, b, c, S, tail
<1>10. a \o b \in Seq(S) /\ Splits(a \o b, wide + narrow, j0, m2)
  <2>1. a \o b \in Seq(S)
    BY <1>6, <1>7, Concatenation
  <2>2. j0 \in Int
    OBVIOUS
  <2>3. Splits(a \o b, wide + narrow, j0, m2)
    BY ONLY <1>3, <1>4, <1>5, <1>6, <1>7, <2>2, m1 \in Int, m2 \in Int, SplitsBoth
  <2> QED
    BY <2>1, <2>3
<1>11. a \o b \o c \in Seq(S) /\ Splits(a \o b \o c, wide + narrow + r, j0, j1)
  <2>1. a \o b \o c \in Seq(S)
    BY <1>9, <1>10, Concatenation
  <2>2. j0 \in Int /\ j1 \in Int /\ wide + narrow \in Nat /\ j0 <= m2
    BY <1>3, <1>4, <1>5
  <2>3. PICK ab, k : ab = a \o b /\ k = wide + narrow
    OBVIOUS
  <2>4. Splits(ab \o c, k + r, j0, j1)
    BY ONLY <1>5, <1>9, <1>10, <2>2, <2>3, m2 \in Int, r \in Nat, SplitsBoth
  <2> QED
    BY <2>1, <2>3, <2>4
<1>s. PICK s : s = ColumnBlocks(j0, j1, height)
  OBVIOUS
<1>12. PICK n \in Nat : s = ColumnBlocks(j0, j1, height) /\ n = wide + narrow + r
  BY <1>3, <1>4, <1>s
<1>13. Splits(s, n, j0, j1) /\ s \in Seq(S)
  BY <1>1, <1>11, <1>12
<1>14. \A x \in 1 .. n : s[x] \in S
  <2>1. PICK k \in Nat : DOMAIN s = 1 .. k /\ \A x \in 1 .. k : s[x] \in S
    BY <1>13, DomainIs
  <2>2. s = [x \in 1 .. n |-> s[x]]
    BY <1>13 DEF Splits
  <2> QED
    BY <2>1, <2>2
<1> QED
  BY <1>12, <1>13, <1>14 DEF S

LEMMA RegisterFills ==
  ASSUME NEW p \in ProblemSet, NEW pl, PlanSizes(pl), NEW lo \in Nat, NEW hi \in Nat, lo < hi, NEW F
  PROVE  Fills(RegisterKernel(p, pl, lo, hi), p, lo .. hi - 1, 0 .. p.n - 1,
               F, Completed(p, EpilogueOf(p)))
<1> DEFINE C == 0 .. p.n - 1
           M == Completed(p, Fused(p, pl))
           G == Completed(p, EpilogueOf(p))
           bm == IF pl.tiled THEN Greatest(1, pl.bm) ELSE hi - lo
           bn == IF pl.tiled THEN Greatest(Lanes, pl.bn) ELSE p.n
           mr == Clamp(pl.mr, 1, MicroRows)
           iEnd(ii) == Least(ii + bm, hi)
           jEnd(jj) == Least(jj + bn, p.n)
           i1(ii, i0) == Least(i0 + mr, iEnd(ii))
           blocks(ii, jj, i0) == ColumnBlocks(jj, jEnd(jj), i1(ii, i0) - i0)
           micro(ii, jj, i0) ==
             [y \in DOMAIN blocks(ii, jj, i0) |->
                Store(i0, i1(ii, i0), blocks(ii, jj, i0)[y][1], blocks(ii, jj, i0)[y][2], Fused(p, pl))]
           rows(ii) == Steps(ii, iEnd(ii), mr)
           strip(ii, jj) == [x \in DOMAIN rows(ii) |-> FlattenSeq(micro(ii, jj, rows(ii)[x]))]
           last(ii, jj) == IF pl.fused THEN <<>> ELSE Epilogue(ii, iEnd(ii), jj, jEnd(jj), EpilogueOf(p))
           tile(ii, jj) == FlattenSeq(strip(ii, jj)) \o last(ii, jj)
           tops == Steps(lo, hi, bm)
           lefts == Steps(0, p.n, bn)
           across(ii) == [x \in DOMAIN lefts |-> tile(ii, lefts[x])]
           down == [x \in DOMAIN tops |-> FlattenSeq(across(tops[x]))]
<1>1. RegisterKernel(p, pl, lo, hi) = FlattenSeq(down)
  BY Zenon DEF RegisterKernel, ForEach
<1>2. /\ bm \in Nat \ {0} /\ bn \in Nat \ {0} /\ mr \in Nat \ {0} /\ p.n \in Nat \ {0} /\ p.k \in Nat
  BY RegistersAssumption DEF PlanSizes, ProblemSet, Greatest, Clamp
<1> HIDE DEF bm, bn, mr, M, G
<1>3. ASSUME NEW ii \in lo .. hi - 1, NEW jj \in 0 .. p.n - 1
      PROVE  Fills(tile(ii, jj), p, ii .. iEnd(ii) - 1, jj .. jEnd(jj) - 1, F, G)
  <2>1. iEnd(ii) \in Nat /\ ii < iEnd(ii) /\ iEnd(ii) <= hi /\ ii \in Nat
    BY <1>2, CutEnd
  <2>2. jEnd(jj) \in Nat /\ jj < jEnd(jj) /\ jEnd(jj) <= p.n /\ jj \in Nat
    <3>1. 0 \in Nat /\ p.n \in Nat
      BY <1>2
    <3> QED
      BY <1>2, <3>1, CutEnd
  <2> DEFINE D == jj .. jEnd(jj) - 1
             Q == ii .. iEnd(ii) - 1
  <2> HIDE DEF iEnd, jEnd
  <2>3. ASSUME NEW i0 \in ii .. iEnd(ii) - 1
        PROVE  Fills(FlattenSeq(micro(ii, jj, i0)), p, i0 .. i1(ii, i0) - 1, D, F, M)
    <3>1. i1(ii, i0) \in Int /\ i1(ii, i0) - i0 \in Int /\ i0 \in Int
      BY <1>2, <2>1 DEF Least
    <3>2. PICK n \in Nat : /\ Splits(blocks(ii, jj, i0), n, jj, jEnd(jj))
                           /\ \A y \in 1 .. n : blocks(ii, jj, i0)[y] \in Int \X Int
      <4>1. PICK h \in Int, e \in Nat : h = i1(ii, i0) - i0 /\ e = jEnd(jj)
        BY <2>2, <3>1
      <4>2. jj \in Nat /\ jj <= e
        BY <2>2, <4>1
      <4>3. PICK n \in Nat : /\ Splits(ColumnBlocks(jj, e, h), n, jj, e)
                             /\ \A y \in 1 .. n : ColumnBlocks(jj, e, h)[y] \in Int \X Int
        BY ONLY h \in Int, e \in Nat, <4>2, ColumnBlocksSplit
      <4> QED
        BY <4>1, <4>3
    <3>3. DOMAIN blocks(ii, jj, i0) = 1 .. n
      <4> HIDE DEF blocks
      <4>1. blocks(ii, jj, i0) = [y \in 1 .. n |-> blocks(ii, jj, i0)[y]]
        BY <3>2 DEF Splits
      <4> QED
        BY <4>1
    <3> HIDE DEF i1, blocks
    <3>4. ASSUME NEW y \in 1 .. n
          PROVE  Fills(micro(ii, jj, i0)[y], p, i0 .. i1(ii, i0) - 1, Between(blocks(ii, jj, i0)[y]), F, M)
      <4>1. PICK b \in Int \X Int : b = blocks(ii, jj, i0)[y]
        BY <3>2
      <4>2. b[1] \in Int /\ b[2] \in Int
        OBVIOUS
      <4>3. Fills(Store(i0, i1(ii, i0), b[1], b[2], Fused(p, pl)), p,
                  i0 .. i1(ii, i0) - 1, b[1] .. b[2] - 1, F, M)
        BY <3>1, <4>2, StoreFills DEF M
      <4>4. micro(ii, jj, i0)[y] = Store(i0, i1(ii, i0), b[1], b[2], Fused(p, pl))
        BY <3>3, <4>1
      <4> HIDE DEF micro
      <4> QED
        BY <4>1, <4>3, <4>4 DEF Between
    <3>5. micro(ii, jj, i0) = [y \in 1 .. n |-> micro(ii, jj, i0)[y]]
      BY <3>3
    <3> HIDE DEF micro
    <3> QED
      BY ONLY n \in Nat, <3>2, <3>4, <3>5, FillsColumnRanges DEF D
  <2>4. Fills(FlattenSeq(strip(ii, jj)), p, Q, D, F, M)
    <3>1. strip(ii, jj) = [x \in DOMAIN rows(ii) |-> strip(ii, jj)[x]]
      OBVIOUS
    <3>2. ASSUME NEW x \in DOMAIN rows(ii), rows(ii)[x] \in ii .. iEnd(ii) - 1
          PROVE  Fills(strip(ii, jj)[x], p, rows(ii)[x] .. Least(rows(ii)[x] + mr, iEnd(ii)) - 1, D, F, M)
      <4> HIDE DEF micro, D
      <4> QED
        BY <2>3, <3>2
    <3>3. ii \in Int /\ iEnd(ii) \in Int /\ ii <= iEnd(ii) /\ mr \in Nat \ {0}
      BY <1>2, <2>1
    <3> HIDE DEF strip, D
    <3> QED
      BY <3>1, <3>2, <3>3, FillsRows
  <2>5. Fills(last(ii, jj), p, Q, D, M, G)
    <3>1. ii \in Int /\ iEnd(ii) \in Int /\ jj \in Int /\ jEnd(jj) \in Int /\ p.k \in Nat
      BY <1>2, <2>1, <2>2
    <3> QED
      BY <3>1, EndFills DEF M, G, Fused
  <2> HIDE DEF strip, last, Q, D
  <2>6. Fills(tile(ii, jj), p, Q, D, F, G)
    BY <2>4, <2>5, FillsBoth
  <2> QED
    BY <2>6 DEF Q, D
<1>4. ASSUME NEW ii \in lo .. hi - 1
      PROVE  Fills(FlattenSeq(across(ii)), p, ii .. iEnd(ii) - 1, C, F, G)
  <2>1. across(ii) = [x \in DOMAIN lefts |-> across(ii)[x]]
    OBVIOUS
  <2>2. ASSUME NEW x \in DOMAIN lefts, lefts[x] \in 0 .. p.n - 1
        PROVE  Fills(across(ii)[x], p, ii .. iEnd(ii) - 1, lefts[x] .. Least(lefts[x] + bn, p.n) - 1, F, G)
    <3> HIDE DEF tile, iEnd
    <3> QED
      BY <1>3, <2>2
  <2>3. 0 \in Int /\ p.n \in Int /\ 0 <= p.n /\ bn \in Nat \ {0}
    BY <1>2
  <2> HIDE DEF across, iEnd
  <2> QED
    BY <2>1, <2>2, <2>3, FillsColumns
<1>5. Fills(FlattenSeq(down), p, lo .. hi - 1, C, F, G)
  <2>1. down = [x \in DOMAIN tops |-> down[x]]
    OBVIOUS
  <2>2. ASSUME NEW x \in DOMAIN tops, tops[x] \in lo .. hi - 1
        PROVE  Fills(down[x], p, tops[x] .. Least(tops[x] + bm, hi) - 1, C, F, G)
    <3> HIDE DEF across, C
    <3> QED
      BY <1>4, <2>2
  <2>3. lo \in Int /\ hi \in Int /\ lo <= hi /\ bm \in Nat \ {0}
    BY <1>2
  <2> HIDE DEF down, C
  <2> QED
    BY <2>1, <2>2, <2>3, FillsRows
<1> HIDE DEF down
<1> QED
  BY <1>1, <1>5 DEF G

(* A row of the packed B from column j on, to the end of its panel.        *)
LEMMA PackedRow ==
  ASSUME NEW p, NEW pl, p.k \in Nat \ {0}, pl.nr \in Nat \ {0},
         NEW j \in Nat, NEW x \in Nat, j <= x, x < j + pl.nr - (j % pl.nr), NEW k \in 0 .. p.k - 1
  PROVE  PackedElement(p, pl, PackedAddress(p, pl, k, j) + (x - j)) = <<k, x>>
<1>1. PICK r \in Nat \ {0}, d \in Nat \ {0} : r = pl.nr /\ d = p.k
  OBVIOUS
<1>2. PICK q \in Nat, s \in 0 .. r - 1 : q = j \div r /\ s = j % r /\ j = r * q + s
  <2>1. j \in Int /\ j \div r \in Nat
    BY DivNat
  <2> QED
    BY <2>1, DivMod
<1>3. PICK t \in 0 .. r - 1 : t = s + (x - j)
  <2>1. x < j + r - s
    <3>1. j + pl.nr - (j % pl.nr) = j + r - s
      BY <1>1, <1>2
    <3> QED
      BY <3>1
  <2>2. s + (x - j) \in 0 .. r - 1
    BY <2>1
  <2> QED
    BY <2>2
<1>4. x = r * q + t
  <2>1. PICK z \in Int : z = r * q
    OBVIOUS
  <2>2. j = z + s /\ s \in Int /\ t \in Int /\ j \in Int /\ x \in Int
    BY <1>2, <2>1
  <2>3. x = z + t
    BY ONLY <1>3, <2>2, z \in Int
  <2> QED
    BY <2>1, <2>3
<1>5. PICK u \in Nat : u = q * d + k
  <2>1. q * d \in Nat
    OBVIOUS
  <2> QED
    BY <1>1, <2>1
<1>6. PICK a \in Nat : a = PackedAddress(p, pl, k, j) + (x - j) /\ a = r * u + t
  <2>1. PackedAddress(p, pl, k, j) = (q * d + k) * r + s
    BY <1>1, <1>2 DEF PackedAddress
  <2>2. (q * d + k) * r = r * u /\ r * u \in Nat
    BY <1>5
  <2> QED
    BY <1>3, <2>1, <2>2
<1>7. a \div r = u /\ a % r = t
  <2>1. a \in Int /\ u \in Int /\ r * u \in Int
    OBVIOUS
  <2>2. r * u <= a /\ a < r * u + r
    BY <1>6, <2>1
  <2>3. a \div r = u
    BY <2>1, <2>2, DivUnique
  <2>4. a = r * (a \div r) + (a % r) /\ a % r \in Int
    BY <2>1, DivMod
  <2>5. PICK z \in Int, v \in Int : z = r * u /\ v = a % r
    BY <2>1, <2>4
  <2>6. a = z + t /\ a = z + v /\ t \in Int
    <3>1. a = z + t
      BY ONLY <1>6, <2>5
    <3>2. r * (a \div r) = z
      BY ONLY <2>3, <2>5
    <3>3. a = z + v
      BY ONLY <2>4, <2>5, <3>2
    <3>4. t \in Int
      OBVIOUS
    <3> QED
      BY <3>1, <3>3, <3>4
  <2>7. v = t
    BY ONLY <2>6, z \in Int, v \in Int
  <2> QED
    BY <2>3, <2>5, <2>7
<1>8. u % d = k
  <2>1. k \in 0 .. d - 1 /\ q * d = d * q /\ d * q \in Int
    BY <1>1
  <2>2. u \in Int /\ q \in Int /\ d * q <= u /\ u < d * q + d
    BY <1>5, <2>1
  <2>3. u \div d = q
    BY <2>2, DivUnique
  <2>4. u = d * (u \div d) + (u % d) /\ u % d \in Int
    BY <2>2, DivMod
  <2> QED
    BY <1>5, <2>1, <2>3, <2>4
<1>9. a \div (r * d) = q
  <2>1. PICK e \in Nat \ {0} : e = r * d
    OBVIOUS
  <2>2. e * q <= a /\ a < e * q + e
    <3>1. r * u = e * q + r * k
      <4>1. r * (q * d + k) = (r * d) * q + r * k
        OBVIOUS
      <4> QED
        BY <1>5, <2>1, <4>1
    <3>2. r * k \in Nat /\ r * k + r <= e /\ e * q \in Int
      <4>1. k + 1 <= d /\ k \in Nat
        BY <1>1
      <4>2. r * (k + 1) <= r * d
        BY <4>1
      <4>3. r * (k + 1) = r * k + r /\ r * k \in Nat
        BY <4>1
      <4> QED
        BY <2>1, <4>2, <4>3
    <3> QED
      BY <1>6, <3>1, <3>2
  <2>3. a \in Int /\ q \in Int
    OBVIOUS
  <2> QED
    BY <2>1, <2>2, <2>3, DivUnique
<1>10. PackedElement(p, pl, a) = <<u % d, q * r + t>>
  BY <1>1, <1>7, <1>9 DEF PackedElement
<1>11. q * r + t = x
  <2>1. q * r = r * q
    OBVIOUS
  <2> QED
    BY <1>4, <2>1
<1> QED
  BY <1>6, <1>8, <1>10, <1>11

(* The micro-kernels of a block of columns divide it, and none of them     *)
(* goes over the end of a panel.                                           *)
LEMMA MicroSplit ==
  ASSUME NEW pl, pl.nr \in Nat \ {0}, NEW jc \in Nat, NEW e \in Nat, jc < e
  PROVE  \E n, bs :         /\ n \in Nat
                            /\ DOMAIN MicroStarts(pl, jc, e) = 1 .. n /\ Splits(bs, n, jc, e)
                            /\ \A x \in 1 .. n :
                                 /\ MicroStarts(pl, jc, e)[x] \in jc .. e - 1
                                 /\ bs[x] = <<MicroStarts(pl, jc, e)[x],
                                              MicroColumns(pl, MicroStarts(pl, jc, e)[x], e)>>
<1>1. PICK r \in Nat \ {0} : r = pl.nr
  OBVIOUS
<1>2. PICK q \in Nat, s \in 0 .. r - 1 : s = jc % r /\ jc = r * q + s
  <2>1. jc \in Int /\ jc \div r \in Nat
    BY DivNat
  <2> QED
    BY <2>1, DivMod
<1>3. PICK first \in Nat : first = MicroColumns(pl, jc, e) /\ jc < first /\ first <= e
  <2>1. MicroColumns(pl, jc, e) = Least(jc + (IF pl.packB THEN r - s ELSE r), e)
    BY <1>1, <1>2 DEF MicroColumns
  <2>2. PICK d \in Nat \ {0} : d = IF pl.packB THEN r - s ELSE r
    <3>1. r - s \in Nat \ {0}
      OBVIOUS
    <3>2. (IF pl.packB THEN r - s ELSE r) \in Nat \ {0}
      BY ONLY <3>1, r \in Nat \ {0}, Zenon
    <3> QED
      BY <3>2
  <2>3. MicroColumns(pl, jc, e) = Least(jc + d, e)
    BY <2>1, <2>2
  <2> QED
    BY <2>3 DEF Least
<1>4. pl.packB /\ first < e => first = r * (q + 1)
  <2>1. SUFFICES ASSUME pl.packB, first < e PROVE first = r * (q + 1)
    OBVIOUS
  <2>2. first = Least(jc + (r - s), e)
    <3>1. first = Least(jc + (pl.nr - (jc % pl.nr)), e)
      BY <1>3, <2>1 DEF MicroColumns
    <3> QED
      BY <1>1, <1>2, <3>1
  <2>3. first = jc + (r - s)
    BY <2>1, <2>2 DEF Least
  <2>4. PICK z \in Int : z = r * q
    OBVIOUS
  <2>5. jc = z + s /\ s \in Int
    BY ONLY <1>2, <2>4, s \in 0 .. r - 1, r \in Nat \ {0}
  <2>6. first = z + r
    BY ONLY <2>3, <2>5, z \in Int, r \in Nat \ {0}
  <2>7. r * (q + 1) = r * q + r
    OBVIOUS
  <2> QED
    BY <2>4, <2>6, <2>7
<1>5. PICK k, cs :
        /\ k \in Nat
        /\ DOMAIN Steps(first, e, r) = 1 .. k /\ Splits(cs, k, first, e)
        /\ \A x \in 1 .. k :
             /\ Steps(first, e, r)[x] \in first .. e - 1
             /\ cs[x] = <<Steps(first, e, r)[x], Least(Steps(first, e, r)[x] + r, e)>>
  <2>1. first \in Int /\ e \in Int /\ first <= e
    BY <1>3
  <2> QED
    BY ONLY <2>1, r \in Nat \ {0}, StepsSplit
<1>k. k \in Nat
  BY <1>5
<1> USE <1>k
<1>6. PICK t : t = Steps(first, e, r)
  OBVIOUS
<1>7. ASSUME NEW x \in 1 .. k PROVE MicroColumns(pl, t[x], e) = Least(t[x] + r, e)
  <2>1. CASE ~ pl.packB
    BY <1>1, <2>1 DEF MicroColumns
  <2>2. CASE pl.packB
    <3>1. t[x] \in first .. e - 1
      BY <1>5, <1>6
    <3>2. first = r * (q + 1)
      BY <1>3, <1>4, <2>2, <3>1
    <3>3. t[x] = first + (x - 1) * r
      BY <1>5, <1>6 DEF Steps
    <3>4. PICK v \in Nat : v = q + x
      OBVIOUS
    <3>5. r * (q + 1) + (x - 1) * r = r * (q + x)
      OBVIOUS
    <3>6. t[x] = r * v
      BY <3>2, <3>3, <3>4, <3>5
    <3>7. t[x] % r = 0
      BY <3>6, MultipleMod
    <3>8. r - (t[x] % r) = r
      BY <3>7
    <3> QED
      BY <1>1, <2>2, <3>8 DEF MicroColumns
  <2> QED
    BY <2>1, <2>2
<1>8. PICK one : one = <<<<jc, first>>>>
  OBVIOUS
<1>9. Splits(one, 1, jc, first) /\ one \in Seq(Int \X Int)
  <2>1. PICK d \in Nat \ {0} : d = first - jc
    BY <1>3
  <2>2. jc + (1 - 1) * d = jc /\ jc + (1 - 1) * d + d = first /\ jc + 1 * d = first
    BY <2>1
  <2>3. one = [x \in 1 .. 1 |-> <<jc + (x - 1) * d, jc + (x - 1) * d + d>>]
    <3>1. \A x \in 1 .. 1 : x = 1
      OBVIOUS
    <3>2. one = [x \in 1 .. 1 |-> <<jc, first>>]
      BY <1>8
    <3> QED
      BY <2>2, <3>1, <3>2
  <2>4. jc \in Int /\ 1 \in Nat
    OBVIOUS
  <2>5. Splits(one, 1, jc, jc + 1 * d)
    BY ONLY <2>3, <2>4, d \in Nat \ {0}, EvenSplit
  <2>6. <<jc, first>> \in Int \X Int
    OBVIOUS
  <2> QED
    BY <1>8, <2>2, <2>5, <2>6
<1>10. cs \in Seq(Int \X Int) /\ t \in Seq(Int)
  <2>1. cs = [x \in 1 .. k |-> cs[x]]
    BY <1>5 DEF Splits
  <2>2. ASSUME NEW x \in 1 .. k PROVE t[x] \in Int /\ cs[x] \in Int \X Int
    <3>1. PICK y \in first .. e - 1 : y = t[x] /\ cs[x] = <<y, Least(y + r, e)>>
      BY <1>5, <1>6
    <3>2. Least(y + r, e) \in Int /\ y \in Int
      BY DEF Least
    <3> QED
      BY <3>1, <3>2
  <2>3. t = [x \in 1 .. k |-> t[x]]
    BY <1>5, <1>6 DEF Steps
  <2>4. cs \in [1 .. k -> Int \X Int] /\ t \in [1 .. k -> Int]
    BY <2>1, <2>2, <2>3
  <2> QED
    BY <2>4
<1>11. PICK bs, starts : bs = one \o cs /\ starts = <<jc>> \o t
  OBVIOUS
<1>12. Splits(bs, 1 + k, jc, e)
  <2>1. jc \in Int /\ first \in Int /\ e \in Int /\ jc <= first /\ first <= e /\ 1 \in Nat
    BY <1>3
  <2> QED
    BY ONLY <1>5, <1>9, <1>10, <1>11, <2>1, k \in Nat, SplitsBoth
<1>13. MicroStarts(pl, jc, e) = starts
  BY <1>1, <1>3, <1>6, <1>11 DEF MicroStarts
<1>14. Len(one) = 1 /\ Len(cs) = k /\ Len(t) = k /\ Len(<<jc>>) = 1 /\ <<jc>> \in Seq(Int)
  <2>1. cs = [x \in 1 .. k |-> cs[x]]
    BY <1>5 DEF Splits
  <2> QED
    BY <1>5, <1>6, <1>8, <1>10, <2>1
<1>15. bs[1] = <<jc, first>> /\ \A x \in 1 .. k : bs[1 + x] = cs[x]
  <2>1. /\ \A x \in 1 .. Len(one) : bs[x] = one[x]
        /\ \A x \in 1 .. Len(cs) : bs[Len(one) + x] = cs[x]
    BY ONLY <1>9, <1>10, <1>11, Concatenation
  <2> QED
    BY <1>8, <1>14, <2>1
<1>16. DOMAIN starts = 1 .. 1 + k /\ starts[1] = jc /\ \A x \in 1 .. k : starts[1 + x] = t[x]
  <2>1. PICK u : u = <<jc>>
    OBVIOUS
  <2>2. /\ starts \in Seq(Int) /\ Len(starts) = Len(u) + Len(t)
        /\ \A x \in 1 .. Len(u) : starts[x] = u[x]
        /\ \A x \in 1 .. Len(t) : starts[Len(u) + x] = t[x]
    BY ONLY <1>10, <1>11, <1>14, <2>1, Concatenation
  <2> QED
    BY <1>14, <2>1, <2>2
<1>17. ASSUME NEW x \in 1 .. 1 + k
       PROVE  starts[x] \in jc .. e - 1 /\ bs[x] = <<starts[x], MicroColumns(pl, starts[x], e)>>
  <2>1. CASE x = 1
    BY <1>3, <1>15, <1>16, <2>1
  <2>2. CASE x # 1
    <3>1. PICK y \in 1 .. k : x = 1 + y
      <4>1. x - 1 \in 1 .. k /\ x = 1 + (x - 1)
        BY <2>2
      <4> QED
        BY <4>1
    <3>2. starts[x] = t[y] /\ bs[x] = cs[y]
      BY <1>15, <1>16, <3>1
    <3>3. t[y] \in first .. e - 1 /\ cs[y] = <<t[y], Least(t[y] + r, e)>>
      BY <1>5, <1>6
    <3>4. t[y] \in jc .. e - 1
      BY <1>3, <3>3
    <3> QED
      BY <1>7, <3>2, <3>3, <3>4
  <2> QED
    BY <2>1, <2>2
<1>18. 1 + k \in Nat
  OBVIOUS
<1> QED
  BY <1>12, <1>13, <1>16, <1>17, <1>18

LEMMA PackedFills ==
  ASSUME NEW p \in ProblemSet, NEW pl, PlanSizes(pl), NEW lo \in Nat, NEW hi \in Nat, lo < hi, NEW F
  PROVE  Fills(PackedKernel(p, pl, lo, hi), p, lo .. hi - 1, 0 .. p.n - 1,
               F, Completed(p, EpilogueOf(p)))
<1> DEFINE R == lo .. hi - 1
           C == 0 .. p.n - 1
           Z == Summed(0)
           M == Completed(p, Fused(p, pl))
           G == Completed(p, EpilogueOf(p))
           jEnd(jc) == Least(jc + pl.bn, p.n)
           iEnd(ic) == Least(ic + pl.bm, hi)
           kEnd(pk) == Least(pk + pl.bk, p.k)
           j1(jc, j) == MicroColumns(pl, j, jEnd(jc))
           read(j, k, x) ==
             IF pl.packB THEN PackedElement(p, pl, PackedAddress(p, pl, k, j) + (x - j)) ELSE <<k, x>>
           block(jc, pk, ic, j, ir) ==
             Update(ir, Least(ir + pl.mr, iEnd(ic)), j, j1(jc, j), pk, kEnd(pk), LAMBDA k, x : read(j, k, x))
           rows(ic) == Steps(ic, iEnd(ic), pl.mr)
           micro(jc, pk, ic, j) == [x \in DOMAIN rows(ic) |-> block(jc, pk, ic, j, rows(ic)[x])]
           starts(jc) == MicroStarts(pl, jc, jEnd(jc))
           strip(jc, pk, ic) ==
             [x \in DOMAIN starts(jc) |-> FlattenSeq(micro(jc, pk, ic, starts(jc)[x]))]
           tops == Steps(lo, hi, pl.bm)
           down(jc, pk) == [x \in DOMAIN tops |-> FlattenSeq(strip(jc, pk, tops[x]))]
           depth == Steps(0, p.k, pl.bk)
           sum(jc) == [x \in DOMAIN depth |-> FlattenSeq(down(jc, depth[x]))]
           last(jc) == IF pl.fused THEN Epilogue(lo, hi, jc, jEnd(jc), EpilogueOf(p)) ELSE <<>>
           panel(jc) == FlattenSeq(sum(jc)) \o last(jc)
           lefts == Steps(0, p.n, pl.bn)
           across == [x \in DOMAIN lefts |-> panel(lefts[x])]
           end == IF pl.fused THEN <<>> ELSE Epilogue(lo, hi, 0, p.n, EpilogueOf(p))
<1>1. PackedKernel(p, pl, lo, hi) = Zero(lo, hi, 0, p.n) \o FlattenSeq(across) \o end
  BY Zenon DEF PackedKernel, ForEach, Update
<1>2. /\ pl.bm \in Nat \ {0} /\ pl.bn \in Nat \ {0} /\ pl.bk \in Nat \ {0}
      /\ pl.mr \in Nat \ {0} /\ pl.nr \in Nat \ {0}
      /\ p.n \in Nat \ {0} /\ p.k \in Nat \ {0}
  BY DEF PlanSizes, ProblemSet
<1> HIDE DEF Z, M, G
<1>3. ASSUME NEW jc \in 0 .. p.n - 1
      PROVE  Fills(panel(jc), p, R, jc .. jEnd(jc) - 1, Z, M)
  <2>1. jEnd(jc) \in Nat /\ jc < jEnd(jc) /\ jEnd(jc) <= p.n /\ jc \in Nat
    <3>1. 0 \in Nat /\ p.n \in Nat
      BY <1>2
    <3> QED
      BY <1>2, <3>1, CutEnd
  <2> DEFINE D == jc .. jEnd(jc) - 1
  <2> HIDE DEF jEnd
  <2>2. ASSUME NEW pk \in 0 .. p.k - 1, NEW ic \in lo .. hi - 1, NEW j \in jc .. jEnd(jc) - 1
        PROVE  Fills(FlattenSeq(micro(jc, pk, ic, j)), p, ic .. iEnd(ic) - 1, j .. j1(jc, j) - 1,
                     Summed(pk), Summed(kEnd(pk)))
    <3>1. iEnd(ic) \in Nat /\ ic < iEnd(ic) /\ iEnd(ic) <= hi /\ ic \in Nat
      BY <1>2, CutEnd
    <3>2. kEnd(pk) \in Nat /\ pk <= kEnd(pk) /\ kEnd(pk) <= p.k /\ pk \in Nat
      <4>1. 0 \in Nat /\ p.k \in Nat
        BY <1>2
      <4> QED
        BY <1>2, <4>1, CutEnd
    <3>3. j \in Nat /\ j1(jc, j) \in Int /\ (pl.packB => j1(jc, j) <= j + pl.nr - (j % pl.nr))
      <4>1. j \in Nat /\ j \in Int /\ pl.nr \in Nat \ {0}
        BY <1>2, <2>1
      <4>2. j % pl.nr \in 0 .. pl.nr - 1
        BY <4>1, DivMod
      <4> QED
        BY <2>1, <4>1, <4>2 DEF MicroColumns, Least
    <3> HIDE DEF iEnd, kEnd, j1
    <3>4. PICK k1 \in Nat, right \in Int : k1 = kEnd(pk) /\ right = j1(jc, j)
      BY <3>2, <3>3
    <3>5. PICK reads : reads = [x \in j .. right - 1 |-> [y \in 1 .. k1 - pk |-> read(j, pk + y - 1, x)]]
      OBVIOUS
    <3>6. reads = [x \in j .. right - 1 |-> [y \in 1 .. k1 - pk |-> <<pk + y - 1, x>>]]
      <4>1. ASSUME NEW x \in j .. right - 1, NEW y \in 1 .. k1 - pk
            PROVE  read(j, pk + y - 1, x) = <<pk + y - 1, x>>
        <5>1. PICK k \in 0 .. p.k - 1 : k = pk + y - 1
          BY <1>2, <3>2, <3>4
        <5>2. CASE pl.packB
          <6>1. x \in Nat /\ j <= x /\ x < j + pl.nr - (j % pl.nr)
            <7>1. PICK top \in Int : top = j + pl.nr - (j % pl.nr)
              <8>1. j \in Int /\ pl.nr \in Nat \ {0}
                BY <1>2, <3>3
              <8>2. j % pl.nr \in 0 .. pl.nr - 1
                BY <8>1, DivMod
              <8> QED
                BY <8>1, <8>2
            <7>2. right <= top
              BY <3>3, <3>4, <5>2, <7>1
            <7>3. x \in Nat /\ j <= x /\ x < top
              BY <3>3, <7>2
            <7> QED
              BY <7>1, <7>3
          <6>2. PackedElement(p, pl, PackedAddress(p, pl, k, j) + (x - j)) = <<k, x>>
            BY <1>2, <3>3, <6>1, PackedRow
          <6> QED
            BY <5>1, <5>2, <6>2
        <5>3. CASE ~ pl.packB
          BY <5>3
        <5> QED
          BY <5>2, <5>3
      <4> HIDE DEF read
      <4> QED
        BY <3>5, <4>1
    <3>7. ASSUME NEW x \in DOMAIN rows(ic), rows(ic)[x] \in ic .. iEnd(ic) - 1
          PROVE  Fills(micro(jc, pk, ic, j)[x], p,
                       rows(ic)[x] .. Least(rows(ic)[x] + pl.mr, iEnd(ic)) - 1,
                       j .. right - 1, Summed(pk), Summed(k1))
      <4>1. PICK ir \in ic .. iEnd(ic) - 1 : ir = rows(ic)[x]
        BY <3>7
      <4>2. PICK i1 \in Int : i1 = Least(ir + pl.mr, iEnd(ic))
        BY <1>2, <3>1 DEF Least
      <4>3. ir \in Int /\ j \in Int /\ pk \in Nat /\ pk <= k1
        BY <3>2, <3>3, <3>4
      <4>4. Fills(<<[kind |-> "update", rows |-> ir .. i1 - 1, cols |-> j .. right - 1,
                     first |-> pk, reads |-> reads]>>, p, ir .. i1 - 1, j .. right - 1,
                  Summed(pk), Summed(k1))
        BY ONLY <3>6, <4>3, k1 \in Nat, right \in Int, i1 \in Int, UpdateFills
      <4>5. micro(jc, pk, ic, j)[x]
              = <<[kind |-> "update", rows |-> ir .. i1 - 1, cols |-> j .. right - 1,
                   first |-> pk, reads |-> reads]>>
        <5>1. micro(jc, pk, ic, j)[x] = block(jc, pk, ic, j, ir)
          BY <4>1, Zenon
        <5>2. block(jc, pk, ic, j, ir)
                = <<[kind |-> "update", rows |-> ir .. i1 - 1, cols |-> j .. right - 1,
                     first |-> pk, reads |-> reads]>>
          <6> HIDE DEF read
          <6> QED
            BY ONLY <3>4, <3>5, <4>2, Zenon DEF Update
        <5> QED
          BY ONLY <5>1, <5>2, Zenon
      <4> HIDE DEF micro, rows
      <4> QED
        BY <4>1, <4>2, <4>4, <4>5
    <3>8. micro(jc, pk, ic, j) = [x \in DOMAIN rows(ic) |-> micro(jc, pk, ic, j)[x]]
      OBVIOUS
    <3>9. ic \in Int /\ iEnd(ic) \in Int /\ ic <= iEnd(ic) /\ pl.mr \in Nat \ {0}
      BY <1>2, <3>1
    <3> HIDE DEF micro
    <3>10. Fills(FlattenSeq(micro(jc, pk, ic, j)), p, ic .. iEnd(ic) - 1, j .. right - 1,
                 Summed(pk), Summed(k1))
      BY <3>7, <3>8, <3>9, FillsRows
    <3> QED
      BY <3>4, <3>10
  <2>3. PICK n, bs :
          /\ n \in Nat
          /\ DOMAIN starts(jc) = 1 .. n /\ Splits(bs, n, jc, jEnd(jc))
          /\ \A x \in 1 .. n : /\ starts(jc)[x] \in jc .. jEnd(jc) - 1
                               /\ bs[x] = <<starts(jc)[x], j1(jc, starts(jc)[x])>>
    BY <1>2, <2>1, MicroSplit
  <2> HIDE DEF starts, j1, kEnd, iEnd
  <2>4. ASSUME NEW pk \in 0 .. p.k - 1, NEW ic \in lo .. hi - 1
        PROVE  Fills(FlattenSeq(strip(jc, pk, ic)), p, ic .. iEnd(ic) - 1, D, Summed(pk), Summed(kEnd(pk)))
    <3>1. ASSUME NEW x \in 1 .. n
          PROVE  Fills(strip(jc, pk, ic)[x], p, ic .. iEnd(ic) - 1, Between(bs[x]),
                       Summed(pk), Summed(kEnd(pk)))
      <4>1. PICK j \in jc .. jEnd(jc) - 1 : j = starts(jc)[x]
        BY <2>3
      <4>2. Between(bs[x]) = j .. j1(jc, j) - 1
        BY <2>3, <4>1 DEF Between
      <4>3. strip(jc, pk, ic)[x] = FlattenSeq(micro(jc, pk, ic, j))
        <5>1. x \in DOMAIN starts(jc)
          BY <2>3
        <5> HIDE DEF micro
        <5>2. strip(jc, pk, ic)[x] = FlattenSeq(micro(jc, pk, ic, starts(jc)[x]))
          BY <5>1
        <5> HIDE DEF strip
        <5> QED
          BY <4>1, <5>2, Zenon
      <4> HIDE DEF micro, strip
      <4> QED
        BY <2>2, <4>2, <4>3
    <3>2. strip(jc, pk, ic) = [x \in 1 .. n |-> strip(jc, pk, ic)[x]]
      BY <2>3
    <3> HIDE DEF strip
    <3> QED
      BY ONLY <2>3, <3>1, <3>2, FillsColumnRanges DEF D
  <2>5. ASSUME NEW pk \in 0 .. p.k - 1
        PROVE  Fills(FlattenSeq(down(jc, pk)), p, R, D, Summed(pk), Summed(kEnd(pk)))
    <3>1. down(jc, pk) = [x \in DOMAIN tops |-> down(jc, pk)[x]]
      OBVIOUS
    <3>2. ASSUME NEW x \in DOMAIN tops, tops[x] \in lo .. hi - 1
          PROVE  Fills(down(jc, pk)[x], p, tops[x] .. Least(tops[x] + pl.bm, hi) - 1, D,
                       Summed(pk), Summed(kEnd(pk)))
      <4> HIDE DEF strip, D
      <4> QED
        BY <2>4, <3>2 DEF iEnd
    <3>3. lo \in Int /\ hi \in Int /\ lo <= hi /\ pl.bm \in Nat \ {0}
      BY <1>2
    <3> HIDE DEF down, D
    <3> QED
      BY <3>1, <3>2, <3>3, FillsRows
  <2>6. Fills(FlattenSeq(sum(jc)), p, R, D, Z, Summed(p.k))
    <3>1. sum(jc) = [x \in DOMAIN depth |-> sum(jc)[x]]
      OBVIOUS
    <3>2. ASSUME NEW x \in DOMAIN depth, depth[x] \in 0 .. p.k - 1
          PROVE  Fills(sum(jc)[x], p, R, D, Summed(depth[x]), Summed(Least(depth[x] + pl.bk, p.k)))
      <4> HIDE DEF down, R, D
      <4> QED
        BY <2>5, <3>2 DEF kEnd
    <3>3. p.k \in Nat /\ pl.bk \in Nat \ {0}
      BY <1>2
    <3> HIDE DEF sum, R, D
    <3> QED
      BY <3>1, <3>2, <3>3, FillsDepth DEF Z
  <2>7. Fills(last(jc), p, R, D, Summed(p.k), M)
    <3>1. lo \in Int /\ hi \in Int /\ jc \in Int /\ jEnd(jc) \in Int /\ p.k \in Nat
      BY <1>2, <2>1
    <3> QED
      BY <3>1, EndFills DEF M, Fused
  <2> HIDE DEF sum, last, R, D
  <2>8. Fills(panel(jc), p, R, D, Z, M)
    BY <2>6, <2>7, FillsBoth
  <2> QED
    BY <2>8 DEF D
<1>4. Fills(FlattenSeq(across), p, R, C, Z, M)
  <2>1. across = [x \in DOMAIN lefts |-> across[x]]
    OBVIOUS
  <2>2. ASSUME NEW x \in DOMAIN lefts, lefts[x] \in 0 .. p.n - 1
        PROVE  Fills(across[x], p, R, lefts[x] .. Least(lefts[x] + pl.bn, p.n) - 1, Z, M)
    <3> HIDE DEF panel, R
    <3> QED
      BY <1>3, <2>2
  <2>3. 0 \in Int /\ p.n \in Int /\ 0 <= p.n /\ pl.bn \in Nat \ {0}
    BY <1>2
  <2> HIDE DEF across, R
  <2> QED
    BY <2>1, <2>2, <2>3, FillsColumns
<1>5. Fills(Zero(lo, hi, 0, p.n), p, R, C, F, Z) /\ Fills(end, p, R, C, M, G)
  <2>1. lo \in Int /\ hi \in Int /\ 0 \in Int /\ p.n \in Int /\ p.k \in Nat
    BY <1>2
  <2> QED
    BY <2>1, ZeroFills, EndFills DEF Z, M, G, Fused
<1> HIDE DEF across, end, R, C
<1>6. Fills(Zero(lo, hi, 0, p.n) \o FlattenSeq(across) \o end, p, R, C, F, G)
  BY <1>4, <1>5, FillsBoth
<1> QED
  BY <1>1, <1>6 DEF R, C, G

(* So every kernel of execute() fills the rows it is given.                *)
LEMMA KernelFills ==
  ASSUME NEW p \in ProblemSet, NEW pl, PlanSizes(pl), NEW lo \in Nat, NEW hi \in Nat, lo < hi, NEW F
  PROVE  Fills(Kernel(p, pl, lo, hi), p, lo .. hi - 1, 0 .. p.n - 1,
               F, Completed(p, EpilogueOf(p)))
BY PackedFills, RegisterFills, IjkFills, IkjFills DEF Kernel

(* The generated kernels fill their rows likewise, with the epilogues last. *)
LEMMA JitIjkFills ==
  ASSUME NEW p \in ProblemSet, NEW pl, NEW lo \in Nat, NEW F
  PROVE  Fills(IjkFunction(p, pl, lo), p, lo .. lo + p.m - 1, 0 .. p.n - 1,
               F, Completed(p, LastTerms(p, pl)))
<1>1. PICK hi \in Nat : hi = lo + p.m
  BY DEF ProblemSet
<1> DEFINE C == 0 .. p.n - 1
           G == Completed(p, LastTerms(p, pl))
           rows == Steps(lo, hi, 1)
           g == [x \in DOMAIN rows |-> Store(rows[x], rows[x] + 1, 0, p.n, LastTerms(p, pl))]
<1>2. IjkFunction(p, pl, lo) = FlattenSeq(g)
  BY <1>1, Zenon DEF IjkFunction, ForEach
<1>3. p.n \in Int /\ 0 \in Int
  BY DEF ProblemSet
<1>4. Fills(FlattenSeq(g), p, lo .. hi - 1, C, F, G)
  <2>1. ASSUME NEW x \in DOMAIN rows, rows[x] \in lo .. hi - 1
        PROVE  Fills(g[x], p, rows[x] .. Least(rows[x] + 1, hi) - 1, C, F, G)
    <3>1. PICK i \in lo .. hi - 1 : i = rows[x]
      BY <2>1
    <3>2. PICK i1 \in Int : i1 = i + 1 /\ i1 = Least(i + 1, hi)
      BY DEF Least
    <3>3. i \in Int
      OBVIOUS
    <3> HIDE DEF rows
    <3>4. Fills(Store(i, i1, 0, p.n, LastTerms(p, pl)), p, i .. i1 - 1, C, F, G)
      BY ONLY <1>3, <3>3, i1 \in Int, StoreFills
    <3> HIDE DEF C, G
    <3> QED
      BY <3>1, <3>2, <3>4
  <2>2. g = [x \in DOMAIN rows |-> g[x]]
    OBVIOUS
  <2>3. lo \in Int /\ hi \in Int /\ lo <= hi /\ 1 \in Nat \ {0}
    BY <1>1 DEF ProblemSet
  <2> HIDE DEF g, C, G
  <2> QED
    BY <2>1, <2>2, <2>3, FillsRows
<1> HIDE DEF g
<1>5. PICK R : R = lo .. lo + p.m - 1
  OBVIOUS
<1>6. R = lo .. hi - 1
  BY <1>1, <1>5 DEF ProblemSet
<1> QED
  BY <1>2, <1>4, <1>5, <1>6, Zenon

LEMMA JitIkjFills ==
  ASSUME NEW p \in ProblemSet, NEW pl, PlanSizes(pl), NEW lo \in Nat, NEW F
  PROVE  Fills(IkjFunction(p, pl, lo), p, lo .. lo + p.m - 1, 0 .. p.n - 1,
               F, Completed(p, LastTerms(p, pl)))
<1>1. PICK hi \in Nat : hi = lo + p.m
  BY DEF ProblemSet
<1> DEFINE C == 0 .. p.n - 1
           Z == Summed(0)
           M == Summed(p.k)
           G == Completed(p, LastTerms(p, pl))
           rows == Steps(lo, hi, 1)
           vectors == (p.n \div Greatest(1, pl.width)) * Greatest(1, pl.width)
           wide(i) == Update(i, i + 1, 0, vectors, 0, p.k, Direct)
           single(i) == Update(i, i + 1, vectors, p.n, 0, p.k, Direct)
           g == [x \in DOMAIN rows |-> wide(rows[x]) \o single(rows[x])]
           last == Epilogue(lo, hi, 0, p.n, LastTerms(p, pl))
<1>2. IkjFunction(p, pl, lo) = Zero(lo, hi, 0, p.n) \o FlattenSeq(g) \o last
  BY <1>1, Zenon DEF IkjFunction, ForEach
<1>3. vectors \in 0 .. p.n /\ p.n \in Nat
  <2>1. PICK w \in Nat \ {0} : w = Greatest(1, pl.width)
    BY DEF PlanSizes, Greatest
  <2>2. p.n \in Nat /\ p.n \in Int
    BY DEF ProblemSet
  <2>3. PICK q \in Nat : q = p.n \div w /\ w * q <= p.n
    BY ONLY <2>2, w \in Nat \ {0}, DivNat, DivBounds
  <2>4. w * q = q * w /\ q * w \in Nat
    OBVIOUS
  <2>5. vectors = q * w
    BY <2>1, <2>3
  <2> HIDE DEF vectors
  <2> QED
    BY <2>2, <2>3, <2>4, <2>5
<1> HIDE DEF vectors, Z, M, G
<1>4. PICK A, B : A = 0 .. vectors - 1 /\ B = vectors .. p.n - 1
  OBVIOUS
<1>5. A \cap B = {} /\ A \cup B = C
  BY <1>3, <1>4
<1>6. 0 \in Int /\ p.n \in Int /\ vectors \in Int /\ 0 \in Nat /\ p.k \in Nat /\ 0 <= p.k
  BY <1>3 DEF ProblemSet
<1>7. ASSUME NEW i \in Int, NEW i1 \in Int, i1 = i + 1
      PROVE  Fills(wide(i) \o single(i), p, i .. i1 - 1, C, Z, M)
  <2>2. /\ Fills(Update(i, i1, 0, vectors, 0, p.k, Direct), p, i .. i1 - 1, 0 .. vectors - 1, Summed(0), Summed(p.k))
        /\ Fills(Update(i, i1, vectors, p.n, 0, p.k, Direct), p, i .. i1 - 1, vectors .. p.n - 1, Summed(0), Summed(p.k))
    BY ONLY <1>6, i \in Int, i1 \in Int, DirectFills
  <2>3. Fills(wide(i), p, i .. i1 - 1, A, Z, M) /\ Fills(single(i), p, i .. i1 - 1, B, Z, M)
    BY <1>4, <1>7, <2>2, Zenon DEF Z, M
  <2> HIDE DEF wide, single, C
  <2> QED
    BY <1>5, <2>3, FillsBeside
<1>8. Fills(FlattenSeq(g), p, lo .. hi - 1, C, Z, M)
  <2>1. ASSUME NEW x \in DOMAIN rows, rows[x] \in lo .. hi - 1
        PROVE  Fills(g[x], p, rows[x] .. Least(rows[x] + 1, hi) - 1, C, Z, M)
    <3>1. PICK i \in lo .. hi - 1 : i = rows[x]
      BY <2>1
    <3>2. PICK i1 \in Int : i1 = i + 1 /\ i1 = Least(i + 1, hi)
      BY DEF Least
    <3> HIDE DEF rows, wide, single, C
    <3>3. g[x] = wide(i) \o single(i)
      BY <2>1, <3>1
    <3>4. i \in Int
      OBVIOUS
    <3>5. Fills(wide(i) \o single(i), p, i .. i1 - 1, C, Z, M)
      BY <1>7, <3>2, <3>4
    <3> HIDE DEF g
    <3> QED
      BY <3>1, <3>2, <3>3, <3>5
  <2>2. g = [x \in DOMAIN rows |-> g[x]]
    OBVIOUS
  <2>3. lo \in Int /\ hi \in Int /\ lo <= hi /\ 1 \in Nat \ {0}
    BY <1>1 DEF ProblemSet
  <2> HIDE DEF g, C
  <2> QED
    BY <2>1, <2>2, <2>3, FillsRows
<1>9. Fills(Zero(lo, hi, 0, p.n), p, lo .. hi - 1, C, F, Z) /\ Fills(last, p, lo .. hi - 1, C, M, G)
  <2>1. lo \in Int /\ hi \in Int
    OBVIOUS
  <2> QED
    BY <1>6, <2>1, ZeroFills, EpilogueFills DEF Z, M, G
<1> HIDE DEF g, last, C
<1>10. Fills(Zero(lo, hi, 0, p.n) \o FlattenSeq(g) \o last, p, lo .. hi - 1, C, F, G)
  BY <1>8, <1>9, FillsBoth
<1>11. PICK R : R = lo .. lo + p.m - 1
  OBVIOUS
<1>12. R = lo .. hi - 1
  BY <1>1, <1>11 DEF ProblemSet
<1>13. Fills(IkjFunction(p, pl, lo), p, R, C, F, G)
  BY <1>2, <1>10, <1>12, Zenon
<1> QED
  BY <1>11, <1>13, Zenon DEF C, G

(* Steps that divide a range divide it evenly, and wherever it starts.     *)
DividesRange(n, step, lo, hi, c, bs) ==
  /\ DOMAIN Steps(0, n, step) = 1 .. c /\ Splits(bs, c, lo, hi)
  /\ \A x \in 1 .. c :
       /\ Steps(0, n, step)[x] \in Nat
       /\ bs[x] = <<lo + Steps(0, n, step)[x], lo + Steps(0, n, step)[x] + step>>

LEMMA WholeSplit ==
  ASSUME NEW lo \in Int, NEW n \in Nat, NEW step \in Nat \ {0}, n % step = 0,
         NEW hi \in Int, hi = lo + n
  PROVE  \E c, bs : c \in Nat /\ DividesRange(n, step, lo, hi, c, bs)
<1>1. PICK c \in Nat : /\ c = CeilDiv(n - 0, step) /\ DOMAIN Steps(0, n, step) = 1 .. c
                       /\ \A y \in 1 .. c : /\ Steps(0, n, step)[y] = 0 + (y - 1) * step
                                            /\ Steps(0, n, step)[y] \in 0 .. n - 1
  <2>1. 0 \in Int /\ n \in Int /\ 0 <= n
    OBVIOUS
  <2> QED
    BY <2>1, StepsInside
<1>2. PICK q \in Int : n = step * q
  <2>1. n = step * (n \div step) + (n % step) /\ n \div step \in Int
    BY DivMod
  <2> QED
    BY <2>1
<1>3. c = q
  <2>1. PICK a \in Int : a = n + step - 1
    OBVIOUS
  <2>2. step * q <= a /\ a < step * q + step
    BY <1>2, <2>1
  <2>3. a \div step = q
    BY <2>2, DivUnique
  <2> QED
    BY <1>1, <2>1, <2>3 DEF CeilDiv
<1>4. c * step = n
  <2>1. step * q = q * step
    OBVIOUS
  <2> QED
    BY <1>2, <1>3, <2>1
<1>5. PICK bs : bs = [x \in 1 .. c |-> <<lo + (x - 1) * step, lo + (x - 1) * step + step>>]
  OBVIOUS
<1>6. Splits(bs, c, lo, hi)
  <2>1. Splits(bs, c, lo, lo + c * step)
    BY ONLY lo \in Int, step \in Nat \ {0}, c \in Nat, <1>5, EvenSplit
  <2> QED
    BY <1>4, <2>1
<1>7. ASSUME NEW x \in 1 .. c
      PROVE  /\ Steps(0, n, step)[x] \in Nat
             /\ bs[x] = <<lo + Steps(0, n, step)[x], lo + Steps(0, n, step)[x] + step>>
  <2>1. (x - 1) * step \in Nat
    OBVIOUS
  <2>2. Steps(0, n, step)[x] = (x - 1) * step
    BY <1>1, <2>1
  <2> QED
    BY <1>5, <2>1, <2>2
<1>8. DOMAIN Steps(0, n, step) = 1 .. c
  BY <1>1
<1>9. DividesRange(n, step, lo, hi, c, bs)
  BY ONLY <1>6, <1>7, <1>8 DEF DividesRange
<1> QED
  BY <1>9

(* The tiled kernel: its blocks divide the rows and the columns.           *)
LEMMA JitTiledFills ==
  ASSUME NEW p \in ProblemSet, NEW pl, PlanSizes(pl), NEW lo \in Nat, CanBuildRegisterKernel(p, pl), NEW F
  PROVE  Fills(RegisterTiledFunction(p, pl, lo), p, lo .. lo + p.m - 1, 0 .. p.n - 1,
               F, Completed(p, LastTerms(p, pl)))
<1> DEFINE C == 0 .. p.n - 1
           G == Completed(p, LastTerms(p, pl))
           span == (pl.nr \div pl.width) * pl.width
           rows == Steps(0, p.m, pl.mr)
           columns == Steps(0, p.n, pl.nr)
           block(row, column) ==
             Store(lo + row, lo + row + pl.mr, column, column + span, LastTerms(p, pl))
           across(row) == [x \in DOMAIN columns |-> block(row, columns[x])]
           down == [x \in DOMAIN rows |-> FlattenSeq(across(rows[x]))]
<1>1. RegisterTiledFunction(p, pl, lo) = FlattenSeq(down)
  BY Zenon DEF RegisterTiledFunction, ForEach
<1>2. /\ pl.mr \in Nat \ {0} /\ pl.nr \in Nat \ {0} /\ pl.width \in Nat \ {0} /\ pl.width <= pl.nr
      /\ p.m \in Nat \ {0} /\ p.n \in Nat \ {0}
  BY DEF PlanSizes, ProblemSet
<1>3. p.m % pl.mr = 0 /\ p.n % pl.nr = 0 /\ pl.nr % pl.width = 0
  <2>1. Greatest(1, pl.mr) = pl.mr /\ Greatest(1, pl.width) = pl.width /\ Greatest(pl.width, pl.nr) = pl.nr
    BY <1>2 DEF Greatest
  <2> QED
    BY <2>1 DEF CanBuildRegisterKernel
<1>4. span = pl.nr
  <2>1. PICK r \in Nat \ {0}, w \in Nat \ {0} : r = pl.nr /\ w = pl.width
    BY <1>2
  <2>2. r = w * (r \div w) + (r % w) /\ r \div w \in Int /\ r % w = 0
    <3>1. r \in Int
      OBVIOUS
    <3> QED
      BY <1>3, <2>1, <3>1, DivMod
  <2>3. PICK q \in Int : q = r \div w
    BY <2>2
  <2>4. q * w = w * q /\ q * w \in Int
    OBVIOUS
  <2> QED
    BY <2>1, <2>2, <2>3, <2>4
<1> HIDE DEF span, G
<1>5. ASSUME NEW row \in Nat
      PROVE  \A o, q : o = lo + row /\ q = lo + row + pl.mr =>
               Fills(FlattenSeq(across(row)), p, o .. q - 1, C, F, G)
  <2>1. PICK i0 \in Int, i1 \in Int : i0 = lo + row /\ i1 = lo + row + pl.mr
    BY <1>2
  <2>z. PICK z \in Int : z = 0
    OBVIOUS
  <2>2. PICK n, bs :
          /\ n \in Nat
          /\ DOMAIN columns = 1 .. n /\ Splits(bs, n, z, p.n)
          /\ \A x \in 1 .. n : columns[x] \in Nat /\ bs[x] = <<z + columns[x], z + columns[x] + pl.nr>>
    <3>1. p.n \in Nat /\ p.n \in Int /\ p.n = z + p.n
      BY <1>2, <2>z
    <3>2. PICK c, bs : c \in Nat /\ DividesRange(p.n, pl.nr, z, p.n, c, bs)
      BY <1>2, <1>3, <3>1, WholeSplit
    <3> QED
      BY <3>2 DEF DividesRange
  <2>3. ASSUME NEW x \in 1 .. n PROVE Fills(across(row)[x], p, i0 .. i1 - 1, Between(bs[x]), F, G)
    <3>1. PICK j0 \in Int, j1 \in Int : j0 = columns[x] /\ j1 = columns[x] + span
      BY <1>2, <1>4, <2>2
    <3>2. Between(bs[x]) = j0 .. j1 - 1
      <4>1. columns[x] \in Nat /\ bs[x] = <<z + columns[x], z + columns[x] + pl.nr>>
        BY <2>2
      <4>2. bs[x] = <<j0, j1>>
        BY <1>4, <2>z, <3>1, <4>1
      <4> QED
        BY <4>2 DEF Between
    <3>3. Fills(Store(i0, i1, j0, j1, LastTerms(p, pl)), p, i0 .. i1 - 1, j0 .. j1 - 1, F, G)
      BY ONLY i0 \in Int, i1 \in Int, j0 \in Int, j1 \in Int, StoreFills DEF G
    <3>4. across(row)[x] = Store(i0, i1, j0, j1, LastTerms(p, pl))
      <4>1. x \in DOMAIN columns
        BY <2>2
      <4> HIDE DEF columns
      <4> QED
        BY <2>1, <3>1, <4>1
    <3> QED
      BY <3>2, <3>3, <3>4
  <2>4. across(row) = [x \in 1 .. n |-> across(row)[x]]
    BY <2>2
  <2> HIDE DEF across
  <2>5. Fills(FlattenSeq(across(row)), p, i0 .. i1 - 1, z .. p.n - 1, F, G)
    BY ONLY <2>2, <2>3, <2>4, FillsColumnRanges
  <2> QED
    BY <2>1, <2>z, <2>5, Zenon
<1>h. PICK hi \in Int : hi = lo + p.m
  BY <1>2
<1>6. PICK n, bs :
        /\ n \in Nat
        /\ DOMAIN rows = 1 .. n /\ Splits(bs, n, lo, hi)
        /\ \A x \in 1 .. n : rows[x] \in Nat /\ bs[x] = <<lo + rows[x], lo + rows[x] + pl.mr>>
  <2>1. lo \in Int /\ p.m \in Nat
    BY <1>2
  <2>2. PICK c, bs : c \in Nat /\ DividesRange(p.m, pl.mr, lo, hi, c, bs)
    BY <1>2, <1>3, <1>h, <2>1, WholeSplit
  <2> QED
    BY <2>2 DEF DividesRange
<1>7. ASSUME NEW x \in 1 .. n PROVE Fills(down[x], p, Between(bs[x]), C, F, G)
  <2>1. PICK row \in Nat : row = rows[x]
    BY <1>6
  <2>i. PICK o, q : o = lo + row /\ q = lo + row + pl.mr
    OBVIOUS
  <2>2. Between(bs[x]) = o .. q - 1
    <3>1. bs[x] = <<o, q>>
      BY <1>6, <2>1, <2>i
    <3> QED
      BY <3>1 DEF Between
  <2>3. x \in DOMAIN rows
    BY <1>6
  <2> HIDE DEF across, rows, C
  <2>4. down[x] = FlattenSeq(across(row))
    BY <2>1, <2>3
  <2> QED
    BY <1>5, <2>i, <2>2, <2>4
<1>8. down = [x \in 1 .. n |-> down[x]]
  BY <1>6
<1> HIDE DEF down, C
<1>9. Fills(FlattenSeq(down), p, lo .. hi - 1, C, F, G)
  BY ONLY <1>6, <1>7, <1>8, FillsRowRanges
<1>10. PICK R : R = lo .. lo + p.m - 1
  OBVIOUS
<1>11. R = lo .. hi - 1
  BY <1>2, <1>h, <1>10
<1>12. Fills(RegisterTiledFunction(p, pl, lo), p, R, C, F, G)
  BY <1>1, <1>9, <1>11, Zenon
<1> QED
  BY <1>10, <1>12, Zenon DEF C, G

(* So every generated kernel fills the rows it is made for.                *)
LEMMA GeneratedFills ==
  ASSUME NEW p \in ProblemSet, NEW pl, PlanSizes(pl), NEW lo \in Nat, NEW F
  PROVE  Fills(GeneratedKernel(p, pl, lo), p, lo .. lo + p.m - 1, 0 .. p.n - 1,
               F, Completed(p, LastTerms(p, pl)))
BY JitTiledFills, JitIkjFills, JitIjkFills DEF GeneratedKernel

-----------------------------------------------------------------------------
(* The ranges of rows of benchmark().                                      *)
LEMMA JitRows ==
  ASSUME NEW p \in ProblemSet, NEW pl, pl.threads \in Int, pl.mr \in Nat \ {0}
  PROVE  /\ JitThreads(p, pl) \in Nat \ {0}
         /\ \A w \in 0 .. JitThreads(p, pl) - 1 :
              /\ JitRowBegin(p, pl, w) \in Nat
              /\ JitRowEnd(p, pl, w) \in Nat /\ JitRowEnd(p, pl, w) <= p.m
         /\ \A v, w \in 0 .. JitThreads(p, pl) - 1 :
              v < w => JitRowEnd(p, pl, v) <= JitRowBegin(p, pl, w)
         /\ \A i \in 0 .. p.m - 1 : \E w \in 0 .. JitThreads(p, pl) - 1 :
              JitRowBegin(p, pl, w) <= i /\ i < JitRowEnd(p, pl, w)
<1>1. PICK g \in Nat \ {0} : g = RowGrain(pl)
  BY DEF RowGrain, Greatest
<1>2. p.m \in Nat \ {0} /\ p.m \in Int /\ p.m \in Nat
  BY DEF ProblemSet
<1>3. PICK t \in Nat \ {0} : t = JitThreads(p, pl)
  <2>1. CeilDiv(p.m, g) \in Nat /\ p.m <= g * CeilDiv(p.m, g)
    BY <1>2, CeilDivEnough
  <2>2. PICK c \in Nat : c = CeilDiv(p.m, g)
    BY <2>1
  <2>3. c # 0
    BY <1>2, <2>1, <2>2
  <2>4. Clamp(pl.threads, 1, c) \in Nat \ {0}
    BY <2>3 DEF Clamp
  <2> QED
    BY <1>1, <2>2, <2>4 DEF JitThreads
<1>4. PICK b \in Nat : b = p.m \div g /\ b * g <= p.m
  <2>1. p.m \div g \in Nat /\ g * (p.m \div g) <= p.m
    BY <1>2, DivNat, DivBounds
  <2>2. PICK b \in Nat : b = p.m \div g
    BY <2>1
  <2>3. g * b = b * g
    OBVIOUS
  <2> QED
    BY <2>1, <2>2, <2>3
<1>5. PICK q \in Nat, r \in 0 .. t - 1 : q = b \div t /\ r = b % t /\ b = t * q + r
  <2>1. b \in Int /\ t \in Nat \ {0}
    OBVIOUS
  <2> QED
    BY ONLY <2>1, b \in Nat, DivMod, DivNat
<1> DEFINE cut(w) == w * q + Least(w, r)
<1>6. \A w : JitRowBegin(p, pl, w) = cut(w) * g
  BY <1>1, <1>3, <1>4, <1>5 DEF JitRowBegin
<1>7. ASSUME NEW v \in 0 .. t, NEW w \in 0 .. t, v <= w
      PROVE  cut(v) \in Nat /\ cut(w) \in Nat /\ cut(v) <= cut(w)
  <2>1. v * q \in Nat /\ w * q \in Nat /\ v * q <= w * q
    BY <1>7
  <2>2. Least(v, r) \in Nat /\ Least(w, r) \in Nat /\ Least(v, r) <= Least(w, r)
    BY <1>7 DEF Least
  <2> QED
    BY <2>1, <2>2
<1>8. cut(t) = b
  <2>1. Least(t, r) = r /\ t * q \in Nat
    BY DEF Least
  <2> QED
    BY <1>5, <2>1
<1> HIDE DEF cut
<1>9. ASSUME NEW v \in 0 .. t, NEW w \in 0 .. t, v <= w
      PROVE  cut(v) * g \in Nat /\ cut(w) * g \in Nat /\ cut(v) * g <= cut(w) * g
  <2>1. PICK x, y \in Nat : x = cut(v) /\ y = cut(w) /\ x <= y
    BY <1>7, <1>9
  <2>2. x * g \in Nat /\ y * g \in Nat /\ x * g <= y * g
    BY <2>1
  <2> QED
    BY <2>1, <2>2
<1>10. \A w \in 0 .. t : cut(w) * g \in Nat /\ cut(w) * g <= p.m
  <2>1. ASSUME NEW w \in 0 .. t PROVE cut(w) * g \in Nat /\ cut(w) * g <= p.m
    <3>1. t \in 0 .. t /\ w <= t
      OBVIOUS
    <3>2. cut(w) * g \in Nat /\ cut(w) * g <= cut(t) * g
      BY <1>9, <3>1
    <3> QED
      BY <1>2, <1>4, <1>8, <3>2
  <2> QED
    BY <2>1
<1>11. \A w : JitRowEnd(p, pl, w) = IF w = t - 1 THEN p.m ELSE cut(w + 1) * g
  BY <1>3, <1>6 DEF JitRowEnd
<1>12. ASSUME NEW w \in 0 .. t - 1
       PROVE  /\ JitRowBegin(p, pl, w) \in Nat
              /\ JitRowEnd(p, pl, w) \in Nat /\ JitRowEnd(p, pl, w) <= p.m
  <2>1. w \in 0 .. t /\ w + 1 \in 0 .. t
    OBVIOUS
  <2> QED
    BY <1>2, <1>6, <1>10, <1>11, <2>1
<1>13. ASSUME NEW v \in 0 .. t - 1, NEW w \in 0 .. t - 1, v < w
       PROVE  JitRowEnd(p, pl, v) <= JitRowBegin(p, pl, w)
  <2>1. v # t - 1 /\ v + 1 \in 0 .. t /\ w \in 0 .. t /\ v + 1 <= w
    BY <1>13
  <2>2. cut(v + 1) * g <= cut(w) * g
    BY <1>9, <2>1
  <2> QED
    BY <1>6, <1>11, <2>1, <2>2
<1>14. ASSUME NEW i \in 0 .. p.m - 1
       PROVE  \E w \in 0 .. t - 1 : JitRowBegin(p, pl, w) <= i /\ i < JitRowEnd(p, pl, w)
  <2> DEFINE A == {w \in Nat : w \in 0 .. t - 1 => JitRowEnd(p, pl, w) <= i}
  <2>1. PICK w \in 0 .. t - 1 : w \notin A /\ \A v \in 0 .. w - 1 : v \in A
    <3>1. t - 1 \in Nat /\ t - 1 \in 0 .. t - 1 /\ JitRowEnd(p, pl, t - 1) = p.m
      BY <1>11
    <3>2. t - 1 \notin A
      BY <1>2, <3>1
    <3> HIDE DEF A
    <3> QED
      BY <3>1, <3>2, NatInduct
  <2>2. JitRowEnd(p, pl, w) \in Nat /\ i < JitRowEnd(p, pl, w)
    BY <1>12, <2>1
  <2>3. CASE w = 0
    <3>1. 0 * q = 0 /\ Least(0, r) = 0
      BY DEF Least
    <3>2. cut(0) = 0
      BY <3>1 DEF cut
    <3>3. 0 * g = 0
      OBVIOUS
    <3>4. JitRowBegin(p, pl, w) = 0
      BY <1>6, <2>3, <3>2, <3>3
    <3> QED
      BY <2>2, <3>4
  <2>4. CASE w # 0
    <3>1. PICK v \in 0 .. w - 1 : w = v + 1 /\ v \in 0 .. t - 1 /\ v # t - 1
      BY <2>4
    <3>2. JitRowEnd(p, pl, v) <= i
      BY <2>1, <3>1
    <3>3. JitRowEnd(p, pl, v) = JitRowBegin(p, pl, w)
      BY <1>6, <1>11, <3>1
    <3> QED
      BY <2>2, <3>2, <3>3
  <2> QED
    BY <2>3, <2>4
<1> QED
  BY <1>3, <1>12, <1>13, <1>14

(* Every loop that is built has positive steps, and so has its plan.       *)
LoopFields ==
  {"problem", "nest", "step", "width", "packA", "packB", "distance", "parallel", "threads",
   "pinned", "inner", "top", "cached"}

PlanOk(p) ==
  /\ PlanSizes(p) /\ p.unroll \in Nat \ {0} /\ p.order \in {"ijk", "ikj"}
  /\ p.threads \in Int /\ p.distance \in Int
  /\ p.tiled \in BOOLEAN /\ p.fused \in BOOLEAN /\ p.packA \in BOOLEAN /\ p.packB \in BOOLEAN
  /\ p.pinned \in BOOLEAN

BodyOps == {"bias", "relu", "gelu", "residual"}

TreeOk(l) ==
  /\ l.step.ii \in Nat \ {0} /\ l.step.jj \in Nat \ {0} /\ l.step.kk \in Nat \ {0}
  /\ l.step.i \in Nat \ {0} /\ l.step.j \in Nat \ {0} /\ l.step.k \in Nat \ {0}
  /\ l.width \in Nat \ {0} /\ l.width <= l.step.j /\ l.threads \in Int /\ l.distance \in Int
  /\ l.packA \in BOOLEAN /\ l.packB \in BOOLEAN /\ l.pinned \in BOOLEAN
  /\ l.inner \in Seq(BodyOps)

(* A plan that a loop keeps is the one its tree gives.                     *)
LoopOk(l) ==
  /\ l = [f \in LoopFields |-> l[f]]
  /\ l.problem \in ProblemSet
  /\ TreeOk(l)
  /\ l.cached = <<>> \/ l.cached[1] = PlanOfTree(l)

(* A loop just built has no graph epilogue.                                *)
NewLoopOk(l) ==
  LoopOk(l) /\ ~ Contains(l.inner, "gelu") /\ ~ Contains(l.inner, "residual")

(* The plan read from a tree, and the one a loop keeps.                    *)
LEMMA TreePlanOk ==
  ASSUME NEW l, TreeOk(l)
  PROVE  PlanOk(PlanOfTree(l))
<1>1. PICK plan0 : plan0 = PlanOfTree(l)
  OBVIOUS
<1>2. /\ plan0.bm = l.step.ii /\ plan0.bn = l.step.jj /\ plan0.bk = l.step.kk
      /\ plan0.mr = l.step.i /\ plan0.nr = l.step.j /\ plan0.unroll = l.step.k
      /\ plan0.width = l.width /\ plan0.distance = l.distance
      /\ plan0.packA = l.packA /\ plan0.packB = l.packB /\ plan0.pinned = l.pinned
      /\ plan0.threads = IF l.parallel THEN l.threads ELSE 1
      /\ plan0.order = IF Position(l, "kk") < Position(l, "jj") THEN "ikj" ELSE "ijk"
  BY <1>1 DEF PlanOfTree
<1>3. plan0.tiled \in BOOLEAN /\ plan0.fused \in BOOLEAN
  <2>1. plan0.tiled = (\/ l.step.ii < l.problem.m
                       \/ l.step.jj < l.problem.n
                       \/ l.step.kk < l.problem.k)
        /\ plan0.fused = (l.top = <<>>)
    BY <1>1, Zenon DEF PlanOfTree
  <2>2. /\ (\/ l.step.ii < l.problem.m \/ l.step.jj < l.problem.n \/ l.step.kk < l.problem.k) \in BOOLEAN
        /\ (l.top = <<>>) \in BOOLEAN
    OBVIOUS
  <2> QED
    BY <2>1, <2>2, Zenon
<1>4. plan0.order \in {"ijk", "ikj"} /\ plan0.threads \in Int
  BY <1>2 DEF TreeOk
<1> QED
  BY <1>1, <1>2, <1>3, <1>4 DEF PlanOk, PlanSizes, TreeOk

LEMMA AnalyzeOk ==
  ASSUME NEW l, LoopOk(l)
  PROVE  PlanOk(Analyze(l)) /\ Analyze(l) = PlanOfTree(l)
BY TreePlanOk DEF Analyze, LoopOk

(* The plan is read from the tree only.                                    *)
LEMMA PlanOfTreeReads ==
  ASSUME NEW l, NEW d, \A f \in LoopFields \ {"cached"} : l[f] = d[f]
  PROVE  PlanOfTree(l) = PlanOfTree(d)
<1>1. /\ l.problem = d.problem /\ l.nest = d.nest /\ l.step = d.step /\ l.width = d.width
      /\ l.packA = d.packA /\ l.packB = d.packB /\ l.distance = d.distance
      /\ l.parallel = d.parallel /\ l.threads = d.threads /\ l.pinned = d.pinned
      /\ l.inner = d.inner /\ l.top = d.top
  BY DEF LoopFields
<1> QED
  BY ONLY <1>1, Zenon DEF PlanOfTree, Position

LEMMA AnalyzedOk ==
  ASSUME NEW l, LoopOk(l)
  PROVE  LoopOk(Analyzed(l)) /\ Analyzed(l).problem = l.problem /\ Analyzed(l).inner = l.inner
<1>1. PICK plan0 : plan0 = Analyze(l) /\ plan0 = PlanOfTree(l)
  BY AnalyzeOk
<1>2. PICK new : new = [l EXCEPT !.cached = <<plan0>>]
  OBVIOUS
<1>3. new = Analyzed(l)
  BY <1>1, <1>2 DEF Analyzed
<1>4. l = [f \in LoopFields |-> l[f]]
  BY DEF LoopOk
<1>5. /\ new = [f \in LoopFields |-> IF f = "cached" THEN <<plan0>> ELSE l[f]]
  BY <1>2, <1>4
<1>6. new = [f \in LoopFields |-> new[f]]
  BY <1>5
<1>7. /\ new.problem = l.problem /\ new.step = l.step /\ new.width = l.width
      /\ new.threads = l.threads /\ new.distance = l.distance
      /\ new.packA = l.packA /\ new.packB = l.packB /\ new.pinned = l.pinned
      /\ new.inner = l.inner /\ new.cached = <<plan0>>
  BY <1>5 DEF LoopFields
<1>8. TreeOk(new) /\ new.problem \in ProblemSet
  BY <1>7 DEF TreeOk, LoopOk
<1>9. PlanOfTree(new) = plan0
  <2>1. \A f \in LoopFields \ {"cached"} : new[f] = l[f]
    BY <1>5
  <2> QED
    BY <1>1, <2>1, PlanOfTreeReads
<1> QED
  BY <1>3, <1>6, <1>7, <1>8, <1>9 DEF LoopOk

(* Applying a schedule, the passes and the lowering keep these loops.      *)
LEMMA ApplyOk ==
  ASSUME NEW p \in ProblemSet, NEW s \in AnySchedule
  PROVE  NewLoopOk(ApplySchedule(p, s)) /\ ApplySchedule(p, s).problem = p
<1> DEFINE width == Greatest(1, s.width)
           update == s.order = "ikj" /\ width = 1 /\ ~s.packA /\ ~s.packB
           Tile(size, extent) == IF s.tiled THEN Greatest(1, size) ELSE extent
           tree ==
             [problem  |-> p,
              nest     |-> IF update THEN <<"ii", "kk", "jj", "i", "k", "j">>
                                     ELSE <<"ii", "jj", "i", "j", "kk", "k">>,
              step     |-> [ii |-> Tile(s.bm, p.m), jj |-> Tile(s.bn, p.n), kk |-> Tile(s.bk, p.k),
                            i |-> IF width > 1 THEN Greatest(1, s.mr) ELSE 1,
                            j |-> IF width > 1 THEN Greatest(width, s.nr) ELSE 1,
                            k |-> Greatest(1, s.unroll)],
              width    |-> width,
              packA    |-> s.packA,
              packB    |-> s.packB,
              distance |-> Greatest(0, s.distance),
              parallel |-> s.threads > 1,
              threads  |-> Greatest(1, s.threads),
              pinned   |-> s.pinned,
              inner    |-> IF s.fused /\ ~update THEN EpilogueOps(p) ELSE <<>>,
              top      |-> TopLevelEpilogue(p, s),
              cached   |-> <<>>]
<1>1. ApplySchedule(p, s) = Analyzed(tree)
  BY Zenon DEF ApplySchedule
<1>2. PICK l : l = tree
  OBVIOUS
<1>3. /\ l.problem = p /\ l.width = width /\ l.packA = s.packA /\ l.packB = s.packB
      /\ l.distance = Greatest(0, s.distance) /\ l.threads = Greatest(1, s.threads)
      /\ l.pinned = s.pinned /\ l.cached = <<>>
      /\ l.step.ii = Tile(s.bm, p.m) /\ l.step.jj = Tile(s.bn, p.n) /\ l.step.kk = Tile(s.bk, p.k)
      /\ l.step.i = (IF width > 1 THEN Greatest(1, s.mr) ELSE 1)
      /\ l.step.j = (IF width > 1 THEN Greatest(width, s.nr) ELSE 1)
      /\ l.step.k = Greatest(1, s.unroll)
      /\ l.inner = IF s.fused /\ ~update THEN EpilogueOps(p) ELSE <<>>
  <2> HIDE DEF width, update, Tile
  <2> QED
    BY <1>2
<1>4. /\ s.bm \in Int /\ s.bn \in Int /\ s.bk \in Int /\ s.mr \in Int /\ s.nr \in Int
      /\ s.width \in Int /\ s.threads \in Int /\ s.unroll \in Int /\ s.distance \in Int
      /\ s.packA \in BOOLEAN /\ s.packB \in BOOLEAN /\ s.pinned \in BOOLEAN
      /\ p.m \in Nat \ {0} /\ p.n \in Nat \ {0} /\ p.k \in Nat \ {0}
  BY DEF AnySchedule, ProblemSet
<1>5. width \in Nat \ {0}
  BY <1>4 DEF Greatest
<1>6. \A x \in Int : /\ Greatest(1, x) \in Nat \ {0} /\ Greatest(0, x) \in Int
                     /\ Greatest(width, x) \in Nat \ {0} /\ width <= Greatest(width, x)
  <2> HIDE DEF width
  <2> QED
    BY <1>5 DEF Greatest
<1>e. /\ l.inner \in Seq(BodyOps)
      /\ ~ Contains(l.inner, "gelu") /\ ~ Contains(l.inner, "residual")
  <2>1. l.inner = <<>> \/ l.inner = EpilogueOps(p)
    <3> HIDE DEF update, tree
    <3> QED
      BY <1>3
  <2>2. PICK S : S = {"bias", "relu"}
    OBVIOUS
  <2>3. <<>> \in Seq(S) /\ <<"bias">> \in Seq(S) /\ <<"relu">> \in Seq(S)
    BY <2>2
  <2>4. PICK a \in Seq(S), b \in Seq(S) : EpilogueOps(p) = a \o b
    BY <2>3 DEF EpilogueOps
  <2>5. a \o b \in Seq(S)
    BY Concatenation
  <2>6. l.inner \in Seq(S)
    BY <2>1, <2>3, <2>4, <2>5
  <2>7. PICK s1 \in Seq(S) : s1 = l.inner
    BY <2>6
  <2>8. s1 \in Seq(BodyOps) /\ \A i \in 1 .. Len(s1) : s1[i] \in S
    BY ONLY s1 \in Seq(S), <2>2 DEF BodyOps
  <2>9. \A i \in 1 .. Len(s1) : s1[i] # "gelu" /\ s1[i] # "residual"
    BY <2>2, <2>8
  <2> HIDE DEF tree
  <2> QED
    BY <2>7, <2>8, <2>9 DEF Contains
<1>7. TreeOk(l)
  <2>1. /\ Tile(s.bm, p.m) \in Nat \ {0} /\ Tile(s.bn, p.n) \in Nat \ {0}
        /\ Tile(s.bk, p.k) \in Nat \ {0}
    <3> HIDE DEF width, tree
    <3> QED
      BY <1>4, <1>6
  <2>2. 1 \in Nat \ {0}
    OBVIOUS
  <2> HIDE DEF width, tree, Tile
  <2>3. l.step.i \in Nat \ {0} /\ l.step.j \in Nat \ {0} /\ l.step.k \in Nat \ {0}
    BY <1>3, <1>4, <1>6, <2>2
  <2>4. l.width \in Nat \ {0} /\ l.threads \in Int /\ l.distance \in Int
    <3>1. Greatest(1, s.threads) \in Int /\ Greatest(0, s.distance) \in Int
      BY <1>4 DEF Greatest
    <3> QED
      BY <1>3, <1>5, <3>1
  <2>5. l.packA \in BOOLEAN /\ l.packB \in BOOLEAN /\ l.pinned \in BOOLEAN
    BY <1>3, <1>4
  <2>6. l.width <= l.step.j
    <3>1. l.width = width /\ l.step.j = IF width > 1 THEN Greatest(width, s.nr) ELSE 1
      BY <1>3
    <3>2. s.nr \in Int /\ width <= Greatest(width, s.nr)
      BY <1>4, <1>6
    <3>3. CASE width > 1
      BY <3>1, <3>2, <3>3
    <3>4. CASE ~ (width > 1)
      BY <1>5, <3>1, <3>4
    <3> QED
      BY <3>3, <3>4
  <2> QED
    BY <1>3, <1>e, <2>1, <2>3, <2>4, <2>5, <2>6 DEF TreeOk
<1>8. l = [f \in LoopFields |-> l[f]]
  <2>1. DOMAIN l = LoopFields
    BY <1>2 DEF LoopFields
  <2>2. l = [f \in DOMAIN l |-> l[f]]
    BY <1>2
  <2> QED
    BY <2>1, <2>2, Zenon
<1>9. LoopOk(l)
  <2> HIDE DEF tree, width, Tile
  <2> QED
    BY <1>3, <1>7, <1>8 DEF LoopOk
<1> HIDE DEF tree
<1> QED
  BY <1>1, <1>2, <1>3, <1>9, <1>e, AnalyzedOk DEF NewLoopOk

(* A change of one field of a schedule.                                    *)
LEMMA ChangedSchedules ==
  /\ \A s \in AnySchedule : \A v \in Int :
       /\ [s EXCEPT !.bm = v] \in AnySchedule /\ [s EXCEPT !.bn = v] \in AnySchedule
       /\ [s EXCEPT !.bk = v] \in AnySchedule /\ [s EXCEPT !.mr = v] \in AnySchedule
       /\ [s EXCEPT !.nr = v] \in AnySchedule /\ [s EXCEPT !.width = v] \in AnySchedule
       /\ [s EXCEPT !.threads = v] \in AnySchedule /\ [s EXCEPT !.unroll = v] \in AnySchedule
       /\ [s EXCEPT !.distance = v] \in AnySchedule
  /\ \A s \in AnySchedule : \A v \in BOOLEAN :
       /\ [s EXCEPT !.tiled = v] \in AnySchedule /\ [s EXCEPT !.fused = v] \in AnySchedule
       /\ [s EXCEPT !.packA = v] \in AnySchedule /\ [s EXCEPT !.packB = v] \in AnySchedule
       /\ [s EXCEPT !.pinned = v] \in AnySchedule
  /\ \A s \in AnySchedule : \A v \in {"ijk", "ikj"} : [s EXCEPT !.order = v] \in AnySchedule
<1>1. \A s \in AnySchedule : \A v \in Int :
       /\ [s EXCEPT !.bm = v] \in AnySchedule /\ [s EXCEPT !.bn = v] \in AnySchedule
       /\ [s EXCEPT !.bk = v] \in AnySchedule /\ [s EXCEPT !.mr = v] \in AnySchedule
       /\ [s EXCEPT !.nr = v] \in AnySchedule /\ [s EXCEPT !.width = v] \in AnySchedule
       /\ [s EXCEPT !.threads = v] \in AnySchedule /\ [s EXCEPT !.unroll = v] \in AnySchedule
       /\ [s EXCEPT !.distance = v] \in AnySchedule
  BY DEF AnySchedule
<1>2. \A s \in AnySchedule : \A v \in BOOLEAN :
       /\ [s EXCEPT !.tiled = v] \in AnySchedule /\ [s EXCEPT !.fused = v] \in AnySchedule
       /\ [s EXCEPT !.packA = v] \in AnySchedule /\ [s EXCEPT !.packB = v] \in AnySchedule
       /\ [s EXCEPT !.pinned = v] \in AnySchedule
  BY DEF AnySchedule
<1>3. \A s \in AnySchedule : \A v \in {"ijk", "ikj"} : [s EXCEPT !.order = v] \in AnySchedule
  BY DEF AnySchedule
<1> QED
  BY <1>1, <1>2, <1>3

(* A pass that applies a changed schedule.                                 *)
LEMMA RescheduledOk ==
  ASSUME NEW p, PlanOk(p)
  PROVE  Rescheduled(p) \in AnySchedule
<1>1. /\ p.bm \in Int /\ p.bn \in Int /\ p.bk \in Int /\ p.mr \in Int /\ p.nr \in Int
      /\ p.width \in Int /\ p.threads \in Int /\ p.unroll \in Int /\ p.distance \in Int
  BY DEF PlanOk, PlanSizes
<1>2. /\ p.tiled \in BOOLEAN /\ p.fused \in BOOLEAN /\ p.packA \in BOOLEAN /\ p.packB \in BOOLEAN
      /\ p.pinned \in BOOLEAN /\ p.order \in {"ijk", "ikj"}
  BY DEF PlanOk
<1>3. PICK d \in AnySchedule : d = DefaultSchedule
  BY DefaultIsASchedule DEF TiledSchedules
<1>4. PICK a1 \in AnySchedule : a1 = [d EXCEPT !.order = p.order]
  BY <1>2, ChangedSchedules
<1>5. PICK a2 \in AnySchedule : a2 = [a1 EXCEPT !.tiled = p.tiled]
  BY <1>2, ChangedSchedules
<1>6. PICK a3 \in AnySchedule : a3 = [a2 EXCEPT !.bm = p.bm]
  BY <1>1, ChangedSchedules
<1>7. PICK a4 \in AnySchedule : a4 = [a3 EXCEPT !.bn = p.bn]
  BY <1>1, ChangedSchedules
<1>8. PICK a5 \in AnySchedule : a5 = [a4 EXCEPT !.bk = p.bk]
  BY <1>1, ChangedSchedules
<1>9. PICK a6 \in AnySchedule : a6 = [a5 EXCEPT !.mr = p.mr]
  BY <1>1, ChangedSchedules
<1>10. PICK a7 \in AnySchedule : a7 = [a6 EXCEPT !.nr = p.nr]
  BY <1>1, ChangedSchedules
<1>11. PICK a8 \in AnySchedule : a8 = [a7 EXCEPT !.width = p.width]
  BY <1>1, ChangedSchedules
<1>12. PICK a9 \in AnySchedule : a9 = [a8 EXCEPT !.threads = p.threads]
  BY <1>1, ChangedSchedules
<1>13. PICK a10 \in AnySchedule : a10 = [a9 EXCEPT !.unroll = p.unroll]
  BY <1>1, ChangedSchedules
<1>14. PICK a11 \in AnySchedule : a11 = [a10 EXCEPT !.packA = p.packA]
  BY <1>2, ChangedSchedules
<1>15. PICK a12 \in AnySchedule : a12 = [a11 EXCEPT !.packB = p.packB]
  BY <1>2, ChangedSchedules
<1>16. PICK a13 \in AnySchedule : a13 = [a12 EXCEPT !.distance = p.distance]
  BY <1>1, ChangedSchedules
<1>17. PICK a14 \in AnySchedule : a14 = [a13 EXCEPT !.fused = p.fused]
  BY <1>2, ChangedSchedules
<1>18. PICK a15 \in AnySchedule : a15 = [a14 EXCEPT !.pinned = p.pinned]
  BY <1>2, ChangedSchedules
<1>19. Rescheduled(p) = a15
  BY ONLY <1>3, <1>4, <1>5, <1>6, <1>7, <1>8, <1>9, <1>10, <1>11, <1>12, <1>13, <1>14, <1>15,
          <1>16, <1>17, <1>18, ZenonT(60) DEF Rescheduled
<1> QED
  BY <1>19

LEMMA InterchangeOk ==
  ASSUME NEW l, LoopOk(l)
  PROVE  NewLoopOk(Interchange(l)) /\ Interchange(l).problem = l.problem
<1>1. PICK s \in AnySchedule : s = Rescheduled(Analyze(l))
  BY AnalyzeOk, RescheduledOk
<1>2. [s EXCEPT !.order = "ikj"] \in AnySchedule /\ l.problem \in ProblemSet
  BY ChangedSchedules DEF LoopOk
<1> QED
  BY <1>1, <1>2, ApplyOk DEF Interchange

LEMMA TilingOk ==
  ASSUME NEW l, LoopOk(l), NEW bm \in Int, NEW bn \in Int, NEW bk \in Int
  PROVE  NewLoopOk(Tiling(l, bm, bn, bk)) /\ Tiling(l, bm, bn, bk).problem = l.problem
<1>1. PICK s \in AnySchedule : s = Rescheduled(Analyze(l))
  BY AnalyzeOk, RescheduledOk
<1>2. PICK x, y, z \in Int : x = Greatest(1, bm) /\ y = Greatest(1, bn) /\ z = Greatest(1, bk)
  BY DEF Greatest
<1>3. PICK a \in AnySchedule : a = [s EXCEPT !.tiled = TRUE]
  BY ChangedSchedules
<1>4. PICK b \in AnySchedule : b = [a EXCEPT !.bm = x]
  BY ChangedSchedules
<1>5. PICK c \in AnySchedule : c = [b EXCEPT !.bn = y]
  BY ChangedSchedules
<1>6. PICK d \in AnySchedule : d = [c EXCEPT !.bk = z]
  BY ChangedSchedules
<1>7. l.problem \in ProblemSet
  BY DEF LoopOk
<1>8. Tiling(l, bm, bn, bk) = ApplySchedule(l.problem, d)
  BY <1>1, <1>2, <1>3, <1>4, <1>5, <1>6, Zenon DEF Tiling
<1> QED
  BY <1>7, <1>8, ApplyOk

LEMMA VectorizeOk ==
  ASSUME NEW l, LoopOk(l), NEW width \in Int
  PROVE  NewLoopOk(Vectorize(l, width)) /\ Vectorize(l, width).problem = l.problem
<1>1. PICK s \in AnySchedule : s = Rescheduled(Analyze(l))
  BY AnalyzeOk, RescheduledOk
<1>2. PICK w \in Int : w = Greatest(1, width)
  BY DEF Greatest
<1>3. PICK a \in AnySchedule : a = [s EXCEPT !.nr = w]
  BY ChangedSchedules
<1>4. PICK b \in AnySchedule : b = [a EXCEPT !.width = w]
  BY ChangedSchedules
<1>5. Vectorize(l, width) = ApplySchedule(l.problem, b) /\ l.problem \in ProblemSet
  BY <1>1, <1>2, <1>3, <1>4, Zenon DEF Vectorize, LoopOk
<1> QED
  BY <1>5, ApplyOk

LEMMA FusionOk ==
  ASSUME NEW l, LoopOk(l)
  PROVE  NewLoopOk(Fusion(l)) /\ Fusion(l).problem = l.problem
<1>1. PICK s \in AnySchedule : s = Rescheduled(Analyze(l))
  BY AnalyzeOk, RescheduledOk
<1>2. [s EXCEPT !.fused = TRUE] \in AnySchedule /\ l.problem \in ProblemSet
  BY ChangedSchedules DEF LoopOk
<1> QED
  BY <1>1, <1>2, ApplyOk DEF Fusion

LEMMA DisplayOk ==
  ASSUME NEW l, LoopOk(l), NEW workers \in Int
  PROVE  NewLoopOk(Display(l, workers)) /\ Display(l, workers).problem = l.problem
<1>1. PICK s \in AnySchedule : s = Rescheduled(Analyze(l))
  BY AnalyzeOk, RescheduledOk
<1>2. PICK a \in AnySchedule : a = [s EXCEPT !.threads = workers]
  BY ChangedSchedules
<1>3. PICK b \in AnySchedule : b = [a EXCEPT !.pinned = FALSE]
  BY ChangedSchedules
<1>4. Display(l, workers) = ApplySchedule(l.problem, b) /\ l.problem \in ProblemSet
  BY <1>1, <1>2, <1>3, Zenon DEF Display, LoopOk
<1> QED
  BY <1>4, ApplyOk

LEMMA LoweredOk ==
  ASSUME NEW p \in ProblemSet
  PROVE  NewLoopOk(LowerToLoops(p)) /\ LowerToLoops(p).problem = p
<1>1. PICK d \in AnySchedule : d = DefaultSchedule
  BY DefaultIsASchedule DEF TiledSchedules
<1>2. PICK a \in AnySchedule : a = [d EXCEPT !.order = "ijk"]
  BY ChangedSchedules
<1>3. PICK b \in AnySchedule : b = [a EXCEPT !.tiled = FALSE]
  BY ChangedSchedules
<1> 1 \in Int
  OBVIOUS
<1>4. PICK c \in AnySchedule : c = [b EXCEPT !.width = 1]
  BY ChangedSchedules
<1>5. PICK e \in AnySchedule : e = [c EXCEPT !.mr = 1]
  BY ChangedSchedules
<1>6. PICK f \in AnySchedule : f = [e EXCEPT !.nr = 1]
  BY ChangedSchedules
<1>7. PICK g \in AnySchedule : g = [f EXCEPT !.fused = FALSE]
  BY ChangedSchedules
<1>8. LowerToLoops(p) = ApplySchedule(p, g)
  BY <1>1, <1>2, <1>3, <1>4, <1>5, <1>6, <1>7, Zenon DEF LowerToLoops
<1> QED
  BY <1>8, ApplyOk

(* A transform program made from a schedule keeps the type of its seed.    *)
OpsOf(s) ==
  {[kind |-> "match"], [kind |-> "tile", args |-> <<s.bm, s.bn, s.bk>>], [kind |-> "interchange"],
   [kind |-> "register_tile", args |-> <<s.mr, s.nr>>], [kind |-> "vectorize", args |-> <<s.width>>],
   [kind |-> "unroll", args |-> <<s.unroll>>], [kind |-> "pack", a |-> s.packA, b |-> s.packB],
   [kind |-> "prefetch", args |-> <<s.distance>>], [kind |-> "parallelize", args |-> <<s.threads>>],
   [kind |-> "tensorize"]}

(* The operations of a program that is made from a schedule.               *)
LEMMA ProgramType ==
  ASSUME NEW s
  PROVE  FromSchedule(s) \in Seq(OpsOf(s))
<1> DEFINE S == OpsOf(s)
           a == <<[kind |-> "match"], [kind |-> "tile", args |-> <<s.bm, s.bn, s.bk>>]>>
           b == IF s.order = "ikj" THEN <<[kind |-> "interchange"]>> ELSE <<>>
           c == <<[kind |-> "register_tile", args |-> <<s.mr, s.nr>>],
                  [kind |-> "vectorize", args |-> <<s.width>>],
                  [kind |-> "unroll", args |-> <<s.unroll>>]>>
           d == IF s.packA \/ s.packB THEN <<[kind |-> "pack", a |-> s.packA, b |-> s.packB]>> ELSE <<>>
           e == IF s.distance > 0 THEN <<[kind |-> "prefetch", args |-> <<s.distance>>]>> ELSE <<>>
           f == <<[kind |-> "parallelize", args |-> <<s.threads>>], [kind |-> "tensorize"]>>
<1>1. FromSchedule(s) = a \o b \o c \o d \o e \o f
  BY Zenon DEF FromSchedule
<1>2. a \in Seq(S)
  BY DEF OpsOf
<1>3. b \in Seq(S)
  <2>1. <<[kind |-> "interchange"]>> \in Seq(S) /\ <<>> \in Seq(S)
    BY DEF OpsOf
  <2> HIDE DEF S
  <2> QED
    BY <2>1
<1>4. c \in Seq(S)
  BY DEF OpsOf
<1>5. d \in Seq(S)
  <2>1. <<[kind |-> "pack", a |-> s.packA, b |-> s.packB]>> \in Seq(S) /\ <<>> \in Seq(S)
    BY DEF OpsOf
  <2> HIDE DEF S
  <2> QED
    BY <2>1
<1>6. e \in Seq(S)
  <2>1. <<[kind |-> "prefetch", args |-> <<s.distance>>]>> \in Seq(S) /\ <<>> \in Seq(S)
    BY DEF OpsOf
  <2> HIDE DEF S
  <2> QED
    BY <2>1
<1>7. f \in Seq(S)
  BY DEF OpsOf
<1> HIDE DEF S, a, b, c, d, e, f
<1>8. a \o b \in Seq(S)
  BY <1>2, <1>3, Concatenation
<1>9. a \o b \o c \in Seq(S)
  BY <1>4, <1>8, Concatenation
<1>10. a \o b \o c \o d \in Seq(S)
  BY <1>5, <1>9, Concatenation
<1>11. a \o b \o c \o d \o e \in Seq(S)
  BY <1>6, <1>10, Concatenation
<1>12. a \o b \o c \o d \o e \o f \in Seq(S)
  BY <1>7, <1>11, Concatenation
<1> QED
  BY <1>1, <1>12 DEF S

(* Each operation of a program keeps these loops, and so does the program. *)
LEMMA ReplayOneOk ==
  ASSUME NEW s \in AnySchedule, NEW op \in OpsOf(s), NEW r \in AnySchedule
  PROVE  ReplayOne(r, op) \in AnySchedule
<1>1. /\ s.bm \in Int /\ s.bn \in Int /\ s.bk \in Int /\ s.mr \in Int /\ s.nr \in Int
      /\ s.width \in Int /\ s.threads \in Int /\ s.unroll \in Int /\ s.distance \in Int
      /\ s.packA \in BOOLEAN /\ s.packB \in BOOLEAN
  BY DEF AnySchedule
<1>2. CASE op = [kind |-> "match"]
  <2>1. op.kind = "match"
    BY <1>2
  <2> QED
    BY <2>1 DEF ReplayOne
<1>3. CASE op = [kind |-> "tile", args |-> <<s.bm, s.bn, s.bk>>]
  <2>1. op.kind = "tile" /\ op.args[1] = s.bm /\ op.args[2] = s.bn /\ op.args[3] = s.bk
    BY <1>3
  <2>2. PICK a \in AnySchedule : a = [r EXCEPT !.bm = s.bm]
    BY <1>1, ChangedSchedules
  <2>3. PICK b \in AnySchedule : b = [a EXCEPT !.bn = s.bn]
    BY <1>1, ChangedSchedules
  <2>4. PICK c \in AnySchedule : c = [b EXCEPT !.bk = s.bk]
    BY <1>1, ChangedSchedules
  <2>5. PICK d \in AnySchedule : d = [c EXCEPT !.tiled = TRUE]
    BY ChangedSchedules
  <2>6. ReplayOne(r, op) = [r EXCEPT !.bm = op.args[1], !.bn = op.args[2], !.bk = op.args[3], !.tiled = TRUE]
    BY <2>1 DEF ReplayOne
  <2>7. ReplayOne(r, op) = d
    BY <2>1, <2>2, <2>3, <2>4, <2>5, <2>6, Zenon
  <2> QED
    BY <2>7
<1>4. CASE op = [kind |-> "interchange"]
  <2>1. op.kind = "interchange"
    BY <1>4
  <2>2. ReplayOne(r, op) = [r EXCEPT !.order = "ikj"]
    BY <2>1 DEF ReplayOne
  <2> QED
    BY <2>2, ChangedSchedules
<1>5. CASE op = [kind |-> "register_tile", args |-> <<s.mr, s.nr>>]
  <2>1. op.kind = "register_tile" /\ op.args[1] = s.mr /\ op.args[2] = s.nr
    BY <1>5
  <2>2. PICK a \in AnySchedule : a = [r EXCEPT !.mr = s.mr]
    BY <1>1, ChangedSchedules
  <2>3. PICK b \in AnySchedule : b = [a EXCEPT !.nr = s.nr]
    BY <1>1, ChangedSchedules
  <2>4. ReplayOne(r, op) = [r EXCEPT !.mr = op.args[1], !.nr = op.args[2]]
    BY <2>1 DEF ReplayOne
  <2>5. ReplayOne(r, op) = b
    BY <2>1, <2>2, <2>3, <2>4, Zenon
  <2> QED
    BY <2>5
<1>6. CASE op = [kind |-> "vectorize", args |-> <<s.width>>]
  <2>1. op.kind = "vectorize" /\ op.args[1] = s.width
    BY <1>6
  <2>2. PICK a \in AnySchedule : a = [r EXCEPT !.width = s.width]
    BY <1>1, ChangedSchedules
  <2>3. ReplayOne(r, op) = a
    BY <2>1, <2>2 DEF ReplayOne
  <2> QED
    BY <2>3
<1>7. CASE op = [kind |-> "unroll", args |-> <<s.unroll>>]
  <2>1. op.kind = "unroll" /\ op.args[1] = s.unroll
    BY <1>7
  <2>2. PICK a \in AnySchedule : a = [r EXCEPT !.unroll = s.unroll]
    BY <1>1, ChangedSchedules
  <2>3. ReplayOne(r, op) = a
    BY <2>1, <2>2 DEF ReplayOne
  <2> QED
    BY <2>3
<1>8. CASE op = [kind |-> "pack", a |-> s.packA, b |-> s.packB]
  <2>1. op.kind = "pack" /\ op.a = s.packA /\ op.b = s.packB
    BY <1>8
  <2>2. PICK x \in AnySchedule : x = [r EXCEPT !.packA = s.packA]
    BY <1>1, ChangedSchedules
  <2>3. PICK y \in AnySchedule : y = [x EXCEPT !.packB = s.packB]
    BY <1>1, ChangedSchedules
  <2>4. ReplayOne(r, op) = [r EXCEPT !.packA = op.a, !.packB = op.b]
    BY <2>1 DEF ReplayOne
  <2>5. ReplayOne(r, op) = y
    BY <2>1, <2>2, <2>3, <2>4, Zenon
  <2> QED
    BY <2>5
<1>9. CASE op = [kind |-> "prefetch", args |-> <<s.distance>>]
  <2>1. op.kind = "prefetch" /\ op.args[1] = s.distance
    BY <1>9
  <2>2. PICK a \in AnySchedule : a = [r EXCEPT !.distance = s.distance]
    BY <1>1, ChangedSchedules
  <2>3. ReplayOne(r, op) = a
    BY <2>1, <2>2 DEF ReplayOne
  <2> QED
    BY <2>3
<1>10. CASE op = [kind |-> "parallelize", args |-> <<s.threads>>]
  <2>1. op.kind = "parallelize" /\ op.args[1] = s.threads
    BY <1>10
  <2>2. PICK pin \in BOOLEAN : pin = (s.threads > 1)
    <3>1. (s.threads > 1) \in BOOLEAN
      OBVIOUS
    <3> QED
      BY <3>1, Zenon
  <2>3. PICK a \in AnySchedule : a = [r EXCEPT !.threads = s.threads]
    BY <1>1, ChangedSchedules
  <2>4. PICK b \in AnySchedule : b = [a EXCEPT !.pinned = pin]
    BY ChangedSchedules
  <2>5. ReplayOne(r, op) = [r EXCEPT !.threads = op.args[1], !.pinned = op.args[1] > 1]
    BY <2>1 DEF ReplayOne
  <2>6. ReplayOne(r, op) = b
    BY <2>1, <2>2, <2>3, <2>4, <2>5, Zenon
  <2> QED
    BY <2>6
<1>11. CASE op = [kind |-> "tensorize"]
  <2>1. op.kind = "tensorize"
    BY <1>11
  <2>2. ReplayOne(r, op) = [r EXCEPT !.fused = TRUE]
    BY <2>1 DEF ReplayOne
  <2> QED
    BY <2>2, ChangedSchedules
<1> QED
  BY <1>2, <1>3, <1>4, <1>5, <1>6, <1>7, <1>8, <1>9, <1>10, <1>11 DEF OpsOf

ReplaySolves(f, program, seed) ==
  f = [n \in 0 .. Len(program) |-> IF n = 0 THEN seed ELSE ReplayOne(f[n - 1], program[n])]

LEMMA ReplayIs ==
  ASSUME NEW program, NEW seed
  PROVE  Replay(program, seed) = (CHOOSE f : ReplaySolves(f, program, seed))[Len(program)]
BY ZenonT(60) DEF Replay, ReplaySolves

LEMMA ReplayOk ==
  ASSUME NEW s \in AnySchedule, NEW seed \in AnySchedule
  PROVE  Replay(FromSchedule(s), seed) \in AnySchedule
<1>1. PICK program : program = FromSchedule(s)
  OBVIOUS
<1>2. PICK n \in Nat : n = Len(program) /\ \A i \in 1 .. n : program[i] \in OpsOf(s)
  <2>1. program \in Seq(OpsOf(s))
    BY <1>1, ProgramType
  <2>2. Len(program) \in Nat /\ \A i \in 1 .. Len(program) : program[i] \in OpsOf(s)
    BY <2>1
  <2> QED
    BY <2>2
<1> DEFINE step == [i \in 1 .. n |-> [r \in AnySchedule |-> ReplayOne(r, program[i])]]
           S == [i \in 0 .. n |-> AnySchedule]
<1>3. ASSUME NEW i \in 1 .. n, NEW r \in AnySchedule
      PROVE  ReplayOne(r, program[i]) \in AnySchedule
  BY <1>2, ReplayOneOk
<1>4. \E f : Iterates(f, seed, step, n) /\ \A i \in 0 .. n : f[i] \in S[i]
  <2>1. seed \in S[0]
    OBVIOUS
  <2>2. \A i \in 1 .. n : \A x \in S[i - 1] : step[i][x] \in S[i]
    BY <1>3
  <2> HIDE DEF step, S
  <2> QED
    BY <2>1, <2>2, IterationExists
<1>5. PICK f : Iterates(f, seed, step, n) /\ \A i \in 0 .. n : f[i] \in S[i]
  BY <1>4
<1>6. ReplaySolves(f, program, seed)
  <2>1. \A i \in 1 .. n : step[i][f[i - 1]] = ReplayOne(f[i - 1], program[i])
    <3>1. \A i \in 1 .. n : f[i - 1] \in AnySchedule
      BY <1>5
    <3> QED
      BY <3>1
  <2>2. f = [i \in 0 .. n |-> IF i = 0 THEN seed ELSE step[i][f[i - 1]]]
    BY <1>5 DEF Iterates
  <2>3. f = [i \in 0 .. n |-> IF i = 0 THEN seed ELSE ReplayOne(f[i - 1], program[i])]
    <3> HIDE DEF step
    <3>1. \A i \in 0 .. n : (IF i = 0 THEN seed ELSE step[i][f[i - 1]])
                            = (IF i = 0 THEN seed ELSE ReplayOne(f[i - 1], program[i]))
      BY <2>1
    <3> QED
      BY <2>2, <3>1
  <2> QED
    BY <1>2, <2>3 DEF ReplaySolves
<1>7. PICK h : h = CHOOSE g : ReplaySolves(g, program, seed)
  OBVIOUS
<1>8. ReplaySolves(h, program, seed)
  BY <1>6, <1>7
<1>9. \A i \in 0 .. n : h[i] \in S[i]
  <2>1. h = [i \in 0 .. n |-> IF i = 0 THEN seed ELSE ReplayOne(h[i - 1], program[i])]
    BY <1>2, <1>8 DEF ReplaySolves
  <2>2. h[0] \in S[0]
    BY <2>1
  <2>3. \A i \in 1 .. n : h[i - 1] \in S[i - 1] => h[i] \in S[i]
    <3>1. \A i \in 1 .. n : h[i] = ReplayOne(h[i - 1], program[i])
      BY <2>1
    <3> QED
      BY <1>3, <3>1
  <2> HIDE DEF S
  <2> QED
    BY <2>2, <2>3, IterationStays
<1>10. Replay(program, seed) = h[n]
  BY <1>2, <1>7, ReplayIs
<1>11. h[n] \in AnySchedule
  BY <1>9
<1> QED
  BY <1>1, <1>10, <1>11

LEMMA ProgramOk ==
  ASSUME NEW p \in ProblemSet, NEW s \in AnySchedule, NEW seed \in AnySchedule
  PROVE  NewLoopOk(ApplyProgram(p, FromSchedule(s), seed))
BY ReplayOk, ApplyOk DEF ApplyProgram

(* A graph epilogue that is inserted changes no step.                      *)
LEMMA InsertOk ==
  ASSUME NEW l, LoopOk(l), NEW kind \in {"gelu", "residual"}
  PROVE  /\ LoopOk(Analyzed(InsertEpilogueBeforeStores(l, kind)))
         /\ Analyzed(InsertEpilogueBeforeStores(l, kind)).inner = Append(l.inner, kind)
<1>1. PICK new : new = InsertEpilogueBeforeStores(l, kind)
  OBVIOUS
<1>2. l = [f \in LoopFields |-> l[f]]
  BY DEF LoopOk
<1>3. PICK inner : inner = Append(l.inner, kind)
  OBVIOUS
<1>4. new = [l EXCEPT !.inner = inner, !.cached = <<>>]
  BY <1>1, <1>3 DEF InsertEpilogueBeforeStores
<1>5. new = [f \in LoopFields |-> IF f = "cached" THEN <<>> ELSE IF f = "inner" THEN inner ELSE l[f]]
  BY <1>2, <1>4
<1>6. new = [f \in LoopFields |-> new[f]]
  BY <1>5
<1>7. /\ new.problem = l.problem /\ new.step = l.step /\ new.width = l.width
      /\ new.threads = l.threads /\ new.distance = l.distance
      /\ new.packA = l.packA /\ new.packB = l.packB /\ new.pinned = l.pinned
      /\ new.inner = inner /\ new.cached = <<>>
  BY <1>5 DEF LoopFields
<1>8. TreeOk(new) /\ new.problem \in ProblemSet
  <2>1. inner \in Seq(BodyOps)
    <3>1. l.inner \in Seq(BodyOps) /\ kind \in BodyOps
      BY DEF LoopOk, TreeOk, BodyOps
    <3> QED
      BY <1>3, <3>1
  <2> QED
    BY <1>7, <2>1 DEF TreeOk, LoopOk
<1>9. LoopOk(new)
  BY <1>6, <1>7, <1>8 DEF LoopOk
<1> QED
  BY <1>1, <1>3, <1>7, <1>9, AnalyzedOk

(* The graph epilogues in front of the store are those that were asked for.*)
Told(inner, kinds) ==
  \/ kinds = <<>> /\ ~ Contains(inner, "gelu") /\ ~ Contains(inner, "residual")
  \/ kinds = <<"gelu">> /\ Contains(inner, "gelu") /\ ~ Contains(inner, "residual")
  \/ kinds = <<"residual">> /\ ~ Contains(inner, "gelu") /\ Contains(inner, "residual")
  \/ kinds = <<"gelu", "residual">> /\ Contains(inner, "gelu") /\ Contains(inner, "residual")

LEMMA Two ==
  ASSUME NEW S, NEW x \in S, NEW y \in S
  PROVE  <<x>> \o <<y>> = <<x, y>> /\ Append(<<x>>, y) = <<x, y>>
<1>1. PICK a \in Seq(S), b \in Seq(S) : a = <<x>> /\ b = <<y>>
  <2>1. <<x>> \in Seq(S) /\ <<y>> \in Seq(S)
    OBVIOUS
  <2> QED
    BY <2>1, Zenon
<1>2. Len(a) = 1 /\ Len(b) = 1 /\ a[1] = x /\ b[1] = y
  BY <1>1
<1>3. PICK c \in Seq(S) : c = a \o b /\ Len(c) = 2 /\ c[1] = x /\ c[2] = y
  <2>1. PICK c \in Seq(S) : /\ c = a \o b /\ Len(c) = Len(a) + Len(b)
                            /\ (\A i \in 1 .. Len(a) : c[i] = a[i])
                            /\ (\A i \in 1 .. Len(b) : c[Len(a) + i] = b[i])
    <3>1. /\ a \o b \in Seq(S) /\ Len(a \o b) = Len(a) + Len(b)
          /\ (\A i \in 1 .. Len(a) : (a \o b)[i] = a[i])
          /\ (\A i \in 1 .. Len(b) : (a \o b)[Len(a) + i] = b[i])
      BY Concatenation
    <3> QED
      BY <3>1, Zenon
  <2>2. Len(c) = 2 /\ c[1] = x /\ c[2] = y
    <3>1. 1 \in 1 .. 1 /\ 1 + 1 = 2
      OBVIOUS
    <3> QED
      BY <1>2, <2>1, <3>1
  <2> QED
    BY <2>1, <2>2
<1>4. PICK d \in Seq(S) : d = Append(a, y) /\ Len(d) = 2 /\ d[1] = x /\ d[2] = y
  <2>1. PICK d \in Seq(S) : /\ d = Append(a, y) /\ Len(d) = Len(a) + 1
                            /\ (\A i \in 1 .. Len(a) : d[i] = a[i]) /\ d[Len(a) + 1] = y
    <3>1. /\ Append(a, y) \in Seq(S) /\ Len(Append(a, y)) = Len(a) + 1
          /\ (\A i \in 1 .. Len(a) : Append(a, y)[i] = a[i]) /\ Append(a, y)[Len(a) + 1] = y
      BY AppendProperties
    <3> QED
      BY <3>1, Zenon
  <2>2. Len(d) = 2 /\ d[1] = x /\ d[2] = y
    <3>1. 1 \in 1 .. 1 /\ 1 + 1 = 2
      OBVIOUS
    <3> QED
      BY <1>2, <2>1, <3>1
  <2> QED
    BY <2>1, <2>2
<1>5. PICK t \in Seq(S) : t = <<x, y>> /\ Len(t) = 2 /\ t[1] = x /\ t[2] = y
  <2>1. <<x, y>> \in Seq(S) /\ Len(<<x, y>>) = 2 /\ <<x, y>>[1] = x /\ <<x, y>>[2] = y
    OBVIOUS
  <2> QED
    BY <2>1, Zenon
<1>6. \A s \in Seq(S) : Len(s) = 2 => s = [i \in 1 .. 2 |-> IF i = 1 THEN s[1] ELSE s[2]]
  <2>1. ASSUME NEW s \in Seq(S), Len(s) = 2 PROVE s = [i \in 1 .. 2 |-> IF i = 1 THEN s[1] ELSE s[2]]
    <3>1. s = [i \in 1 .. 2 |-> s[i]]
      BY <2>1
    <3>2. \A i \in 1 .. 2 : s[i] = IF i = 1 THEN s[1] ELSE s[2]
      OBVIOUS
    <3> QED
      BY <3>1, <3>2
  <2> QED
    BY <2>1
<1>7. c = t /\ d = t
  BY <1>3, <1>4, <1>5, <1>6
<1> QED
  BY <1>1, <1>3, <1>4, <1>5, <1>7, Zenon

LEMMA ToldTerms ==
  ASSUME NEW l, NEW kinds, Told(l.inner, kinds)
  PROVE  GraphTerms(PlanOfTree(l)) = kinds
<1>1. PICK pl : pl = PlanOfTree(l)
  OBVIOUS
<1>2. /\ pl.gelu = Contains(l.inner, "gelu") /\ pl.residual = Contains(l.inner, "residual")
  BY <1>1, Zenon DEF PlanOfTree
<1>3. PICK a, b : /\ a = (IF Contains(l.inner, "gelu") THEN <<"gelu">> ELSE <<>>)
                  /\ b = (IF Contains(l.inner, "residual") THEN <<"residual">> ELSE <<>>)
                  /\ GraphTerms(pl) = a \o b
  BY <1>2, Zenon DEF GraphTerms
<1>4. <<>> \o <<>> = <<>> /\ <<"gelu">> \o <<>> = <<"gelu">> /\ <<>> \o <<"residual">> = <<"residual">>
  OBVIOUS
<1>5. <<"gelu">> \o <<"residual">> = <<"gelu", "residual">>
  <2>1. "gelu" \in BodyOps /\ "residual" \in BodyOps
    BY DEF BodyOps
  <2> QED
    BY <2>1, Two
<1> HIDE DEF Contains
<1>6. a \o b = kinds
  BY <1>3, <1>4, <1>5, Zenon DEF Told
<1> QED
  BY <1>1, <1>3, <1>6

LEMMA ContainsAppend ==
  ASSUME NEW s \in Seq(BodyOps), NEW e, NEW kind
  PROVE  Contains(Append(s, kind), e) <=> Contains(s, e) \/ e = kind
<1>1. PICK t : t = Append(s, kind)
  OBVIOUS
<1>2. /\ Len(t) = Len(s) + 1 /\ Len(s) \in Nat /\ t[Len(s) + 1] = kind
      /\ \A i \in 1 .. Len(s) : t[i] = s[i]
  BY <1>1
<1>3. (\E i \in 1 .. Len(t) : t[i] = e) <=> (\E i \in 1 .. Len(s) : s[i] = e) \/ e = kind
  <2>1. ASSUME NEW i \in 1 .. Len(t), t[i] = e PROVE (\E x \in 1 .. Len(s) : s[x] = e) \/ e = kind
    <3>1. i \in 1 .. Len(s) \/ i = Len(s) + 1
      BY <1>2
    <3> QED
      BY <1>2, <2>1, <3>1
  <2>2. ASSUME NEW i \in 1 .. Len(s), s[i] = e PROVE \E x \in 1 .. Len(t) : t[x] = e
    <3>1. i \in 1 .. Len(t) /\ t[i] = e
      BY <1>2, <2>2
    <3> QED
      BY <3>1
  <2>3. ASSUME e = kind PROVE \E x \in 1 .. Len(t) : t[x] = e
    <3>1. Len(s) + 1 \in 1 .. Len(t) /\ t[Len(s) + 1] = e
      BY <1>2, <2>3
    <3> QED
      BY <3>1
  <2> QED
    BY <2>1, <2>2, <2>3
<1> QED
  BY <1>1, <1>3 DEF Contains

LEMMA ToldMore ==
  ASSUME NEW inner \in Seq(BodyOps), NEW kinds, Told(inner, kinds), NEW kind \in {"gelu", "residual"},
         kinds \in (IF kind = "gelu" THEN {<<>>} ELSE {<<>>, <<"gelu">>})
  PROVE  Told(Append(inner, kind), Append(kinds, kind))
<1>1. /\ Contains(Append(inner, kind), "gelu") <=> Contains(inner, "gelu") \/ "gelu" = kind
      /\ Contains(Append(inner, kind), "residual") <=> Contains(inner, "residual") \/ "residual" = kind
  BY ContainsAppend
<1>2. PICK g \in BOOLEAN, r \in BOOLEAN, g1 \in BOOLEAN, r1 \in BOOLEAN :
        /\ g = Contains(inner, "gelu") /\ r = Contains(inner, "residual")
        /\ g1 = Contains(Append(inner, kind), "gelu") /\ r1 = Contains(Append(inner, kind), "residual")
  <2>1. \A s, e : Contains(s, e) \in BOOLEAN
    BY DEF Contains
  <2> QED
    BY <2>1, Zenon
<1>3. /\ <<"gelu">> # <<>> /\ <<"residual">> # <<>> /\ <<"gelu", "residual">> # <<>>
      /\ <<"residual">> # <<"gelu">> /\ <<"gelu", "residual">> # <<"gelu">>
      /\ Append(<<>>, "gelu") = <<"gelu">> /\ Append(<<>>, "residual") = <<"residual">>
      /\ "gelu" # "residual"
  OBVIOUS
<1>4. Append(<<"gelu">>, "residual") = <<"gelu", "residual">>
  <2>1. "gelu" \in BodyOps /\ "residual" \in BodyOps
    BY DEF BodyOps
  <2> QED
    BY <2>1, Two
<1>5. CASE kind = "gelu"
  <2>1. kinds = <<>> /\ ~ Contains(inner, "gelu") /\ ~ Contains(inner, "residual")
    BY <1>3, <1>5, Zenon DEF Told
  <2>2. Append(kinds, kind) = <<"gelu">>
    BY <1>3, <1>5, <2>1, Zenon
  <2> QED
    BY <1>1, <1>3, <1>5, <2>1, <2>2, Zenon DEF Told
<1>6. CASE kind = "residual" /\ kinds = <<>>
  <2>1. ~ Contains(inner, "gelu") /\ ~ Contains(inner, "residual")
    BY <1>3, <1>6, Zenon DEF Told
  <2>2. Append(kinds, kind) = <<"residual">>
    BY <1>3, <1>6, Zenon
  <2> QED
    BY <1>1, <1>3, <1>6, <2>1, <2>2, Zenon DEF Told
<1>7. CASE kind = "residual" /\ kinds = <<"gelu">>
  <2>1. Contains(inner, "gelu") /\ ~ Contains(inner, "residual")
    BY <1>3, <1>7, Zenon DEF Told
  <2>2. Append(kinds, kind) = <<"gelu", "residual">>
    BY <1>4, <1>7, Zenon
  <2> QED
    BY <1>1, <1>3, <1>7, <2>1, <2>2, Zenon DEF Told
<1>8. kind = "gelu" \/ (kind = "residual" /\ (kinds = <<>> \/ kinds = <<"gelu">>))
  BY <1>3
<1> QED
  BY <1>5, <1>6, <1>7, <1>8

(* What a worker of the interpreter, and of the generated code, is given.  *)
LEMMA NoRowsFill ==
  ASSUME NEW p, NEW R, R = {}, NEW C, NEW F, NEW G
  PROVE  Fills(<<>>, p, R, C, F, G)
BY NothingWithin DEF Fills

LEMMA WorkFills ==
  ASSUME NEW p \in ProblemSet, NEW pl, PlanOk(pl), NEW w \in Nat, NEW F
  PROVE  Fills(Work(p, pl, w), p, RowsOf(p.m, pl.threads, w), 0 .. p.n - 1,
               F, Completed(p, EpilogueOf(p)))
<1>1. PICK lo, hi : lo = RowBegin(p.m, pl.threads, w) /\ hi = RowEnd(p.m, pl.threads, w)
  OBVIOUS
<1>2. p.m \in Nat \ {0} /\ pl.threads \in Int /\ PlanSizes(pl)
  BY DEF ProblemSet, PlanOk
<1>3. lo \in Nat /\ hi \in Nat
  <2>1. PICK c \in Nat : c = RowsPerThread(p.m, pl.threads)
    BY <1>2, ChunkType
  <2>2. w * c \in Nat
    OBVIOUS
  <2>3. lo = w * c /\ hi = Least(w * c + c, p.m)
    BY <1>1, <2>1 DEF RowBegin, RowEnd
  <2> QED
    BY <1>2, <2>2, <2>3 DEF Least
<1>4. RowsOf(p.m, pl.threads, w) = lo .. hi - 1
  BY <1>1 DEF RowsOf
<1>5. Work(p, pl, w) = IF lo < hi THEN Kernel(p, pl, lo, hi) ELSE <<>>
  BY <1>1 DEF Work
<1>6. CASE lo < hi
  <2>1. Fills(Kernel(p, pl, lo, hi), p, lo .. hi - 1, 0 .. p.n - 1, F, Completed(p, EpilogueOf(p)))
    BY <1>2, <1>3, <1>6, KernelFills
  <2> QED
    BY <1>4, <1>5, <1>6, <2>1
<1>7. CASE ~ (lo < hi)
  <2>1. lo .. hi - 1 = {}
    BY <1>3, <1>7
  <2> QED
    BY <1>4, <1>5, <1>7, <2>1, NoRowsFill
<1> QED
  BY <1>6, <1>7

(* The loop of a range of rows is one of these loops again, with the same  *)
(* depth and the same epilogues.                                           *)
LEMMA SpecializedOk ==
  ASSUME NEW l, LoopOk(l), NEW h \in Nat \ {0}
  PROVE  LET range == Specialize(l, [l.problem EXCEPT !.m = h])
         IN /\ range.problem \in ProblemSet /\ range.problem.m = h
            /\ range.problem.n = l.problem.n /\ PlanOk(Analyze(range))
            /\ range.problem.k = l.problem.k
            /\ LastTerms(range.problem, Analyze(range)) = LastTerms(l.problem, Analyze(l))
<1>1. PICK p \in ProblemSet : p = l.problem
  BY DEF LoopOk
<1>2. PICK q : q = [p EXCEPT !.m = h]
  OBVIOUS
<1>3. /\ q \in ProblemSet /\ q.m = h /\ q.n = p.n /\ q.k = p.k
      /\ q.bias = p.bias /\ q.relu = p.relu
  BY <1>2 DEF ProblemSet
<1>4. PICK new : new = Specialize(l, q)
  OBVIOUS
<1>5. new = [f \in LoopFields |-> IF f = "cached" THEN <<>> ELSE IF f = "problem" THEN q ELSE l[f]]
  <2>1. l = [f \in LoopFields |-> l[f]] /\ new = [l EXCEPT !.problem = q, !.cached = <<>>]
    BY <1>4 DEF LoopOk, Specialize
  <2> QED
    BY <2>1
<1>6. new = [f \in LoopFields |-> new[f]]
  BY <1>5
<1>7. /\ new.problem = q /\ new.step = l.step /\ new.width = l.width
      /\ new.threads = l.threads /\ new.distance = l.distance
      /\ new.packA = l.packA /\ new.packB = l.packB /\ new.pinned = l.pinned
      /\ new.inner = l.inner /\ new.cached = <<>>
  BY <1>5 DEF LoopFields
<1>8. LoopOk(new)
  BY <1>3, <1>6, <1>7 DEF TreeOk, LoopOk
<1>9. PlanOk(Analyze(new)) /\ Analyze(new) = PlanOfTree(new) /\ Analyze(l) = PlanOfTree(l)
  BY <1>8, AnalyzeOk
<1>10. LastTerms(q, Analyze(new)) = LastTerms(p, Analyze(l))
  <2>1. EpilogueOf(q) = EpilogueOf(p)
    BY <1>3, Zenon DEF EpilogueOf
  <2>2. GraphTerms(PlanOfTree(new)) = GraphTerms(PlanOfTree(l))
    <3>1. /\ PlanOfTree(new).gelu = Contains(new.inner, "gelu")
          /\ PlanOfTree(new).residual = Contains(new.inner, "residual")
          /\ PlanOfTree(l).gelu = Contains(l.inner, "gelu")
          /\ PlanOfTree(l).residual = Contains(l.inner, "residual")
      BY Zenon DEF PlanOfTree
    <3> QED
      BY <1>7, <3>1, Zenon DEF GraphTerms
  <2> QED
    BY <1>9, <2>1, <2>2, Zenon DEF LastTerms
<1> QED
  BY <1>1, <1>2, <1>3, <1>4, <1>7, <1>9, <1>10

LEMMA DepthFills ==
  ASSUME NEW ops, NEW p, NEW q, p.k = q.k, NEW R, NEW C, NEW F, NEW last,
         Fills(ops, p, R, C, F, Completed(p, last))
  PROVE  Fills(ops, q, R, C, F, Completed(q, last))
<1>1. Completed(q, last) = Completed(p, last)
  BY Zenon DEF Completed, Products
<1>2. \A i \in R, j \in C : Makes(ops, q, i, j, F[i][j], Completed(p, last)[i][j])
  BY DepthMakes DEF Fills
<1> QED
  BY <1>1, <1>2 DEF Fills

LEMMA JitWorkFills ==
  ASSUME NEW l, LoopOk(l), NEW w \in 0 .. JitThreads(l.problem, Analyze(l)) - 1, NEW F
  PROVE  Fills(JitWork(l, w), l.problem,
               JitRowBegin(l.problem, Analyze(l), w) .. JitRowEnd(l.problem, Analyze(l), w) - 1,
               0 .. l.problem.n - 1, F, Completed(l.problem, LastTerms(l.problem, Analyze(l))))
<1>1. PICK lo, hi : /\ lo = JitRowBegin(l.problem, Analyze(l), w)
                    /\ hi = JitRowEnd(l.problem, Analyze(l), w)
  OBVIOUS
<1>2. lo \in Nat /\ hi \in Nat
  <2>1. PlanOk(Analyze(l)) /\ l.problem \in ProblemSet
    BY AnalyzeOk DEF LoopOk
  <2> QED
    BY <1>1, <2>1, JitRows DEF PlanOk, PlanSizes
<1>3. PICK range : range = Specialize(l, [l.problem EXCEPT !.m = hi - lo])
  OBVIOUS
<1>4. JitWork(l, w) = IF lo < hi THEN GeneratedKernel(range.problem, Analyze(range), lo) ELSE <<>>
  BY <1>1, <1>3 DEF JitWork
<1>l. PICK last : last = LastTerms(l.problem, Analyze(l))
  OBVIOUS
<1>5. CASE lo < hi
  <2>1. PICK h \in Nat \ {0} : h = hi - lo
    BY <1>2, <1>5
  <2>p. PICK p \in ProblemSet : /\ p = range.problem /\ p.m = h /\ p.n = l.problem.n
                               /\ p.k = l.problem.k /\ PlanOk(Analyze(range))
                               /\ LastTerms(p, Analyze(range)) = last
    BY <1>3, <1>l, <2>1, SpecializedOk
  <2>2. PICK pl : pl = Analyze(range) /\ PlanOk(pl) /\ LastTerms(p, pl) = last
    BY <2>p
  <2>3. Fills(GeneratedKernel(p, pl, lo), p, lo .. lo + p.m - 1, 0 .. p.n - 1, F,
              Completed(p, LastTerms(p, pl)))
    BY <1>2, <2>2, GeneratedFills DEF PlanOk
  <2>4. PICK R : R = lo .. lo + p.m - 1
    OBVIOUS
  <2>5. R = lo .. hi - 1
    BY <1>2, <2>1, <2>p, <2>4
  <2>6. Fills(JitWork(l, w), p, lo .. hi - 1, 0 .. l.problem.n - 1, F, Completed(p, last))
    <3>1. JitWork(l, w) = GeneratedKernel(p, pl, lo)
      BY <1>4, <1>5, <2>p, <2>2
    <3> QED
      BY <2>p, <2>2, <2>3, <2>4, <2>5, <3>1, Zenon
  <2>7. Fills(JitWork(l, w), l.problem, lo .. hi - 1, 0 .. l.problem.n - 1, F,
              Completed(l.problem, last))
    BY <2>p, <2>6, DepthFills
  <2> QED
    BY <1>1, <1>l, <2>7, Zenon
<1>6. CASE ~ (lo < hi)
  <2>1. PICK R : R = lo .. hi - 1
    OBVIOUS
  <2>2. R = {} /\ JitWork(l, w) = <<>>
    BY <1>2, <1>4, <1>6, <2>1
  <2>3. Fills(JitWork(l, w), l.problem, R, 0 .. l.problem.n - 1, F, Completed(l.problem, last))
    BY <2>2, NoRowsFill
  <2> QED
    BY <1>1, <1>l, <2>1, <2>3, Zenon
<1> QED
  BY <1>5, <1>6

(* The inductive invariant of a scheduled product: the operations a worker *)
(* still has to do are in its own rows, and the loop has the epilogues     *)
(* that were asked for.                                                    *)
RowsOfWorker(w) ==
  IF backend = "jit"
    THEN JitRowBegin(problem, plan, w) .. JitRowEnd(problem, plan, w) - 1
    ELSE RowsOf(problem.m, plan.threads, w)

MatmulInv ==
  /\ LoopOk(loop)
  /\ Told(loop.inner, asked)
  /\ backend \in {"none", "interpreter", "jit"}
  /\ backend # "none" =>
       /\ pending = [w \in Workers |-> pending[w]]
       /\ \A w \in Workers : Within(pending[w], RowsOfWorker(w), 0 .. problem.n - 1)

(* The invariant, action by action.                                        *)
LEMMA MatmulStarts == MatmulInit => MatmulInv
<1> SUFFICES ASSUME MatmulInit PROVE MatmulInv
  OBVIOUS
<1>1. PICK p \in Problems :
        \/ \E s \in Schedules :
             \/ loop = ApplySchedule(p, s)
             \/ \E seed \in {DefaultSchedule, s} : loop = ApplyProgram(p, FromSchedule(s), seed)
        \/ loop = LowerToLoops(p)
  <2>1. PICK p \in Problems :
          \/ \E s \in Schedules :
               \/ loop = ApplySchedule(p, s)
               \/ \E seed \in {DefaultSchedule, s} : loop = ApplyProgram(p, FromSchedule(s), seed)
          \/ loop = LowerToLoops(p)
    BY DEF MatmulInit
  <2> QED
    BY <2>1
<1>2. p \in ProblemSet
  BY MatmulAssumption DEF ProblemSet
<1>3. DefaultSchedule \in AnySchedule /\ \A s \in Schedules : s \in AnySchedule
  BY MatmulAssumption, DefaultIsASchedule DEF TiledSchedules
<1>4. NewLoopOk(loop)
  BY <1>1, <1>2, <1>3, ApplyOk, ProgramOk, LoweredOk
<1>5. backend = "none" /\ asked = <<>>
  BY DEF MatmulInit
<1> QED
  BY <1>4, <1>5, Zenon DEF MatmulInv, NewLoopOk, Told

LEMMA PassKeepsInv ==
  ASSUME MatmulInv, RunPass \/ InsertEpilogue
  PROVE  MatmulInv'
<1>1. backend = "none" /\ backend' = backend
  BY DEF RunPass, InsertEpilogue
<1>2. LoopOk(loop)
  BY DEF MatmulInv
<1>3. LoopOk(loop') /\ Told(loop'.inner, asked')
  <2>1. CASE InsertEpilogue
    <3>1. PICK kind \in {"gelu", "residual"} :
            /\ asked \in (IF kind = "gelu" THEN {<<>>} ELSE {<<>>, <<"gelu">>})
            /\ loop' = Analyzed(InsertEpilogueBeforeStores(loop, kind))
            /\ asked' = Append(asked, kind)
      BY <2>1 DEF InsertEpilogue
    <3>2. LoopOk(loop') /\ loop'.inner = Append(loop.inner, kind)
      BY <1>2, <3>1, InsertOk
    <3>3. loop.inner \in Seq(BodyOps) /\ Told(loop.inner, asked)
      BY DEF MatmulInv, LoopOk, TreeOk
    <3>4. Told(Append(loop.inner, kind), Append(asked, kind))
      BY ONLY <3>1, <3>3, ToldMore
    <3> QED
      BY <3>1, <3>2, <3>4
  <2>2. CASE RunPass
    <3> SUFFICES NewLoopOk(loop')
      <4>1. asked' = <<>>
        BY <2>2 DEF RunPass
      <4> QED
        BY <4>1, Zenon DEF NewLoopOk, Told
    <3>1. \/ loop' = Interchange(loop)
          \/ \E tile \in PassTiles : loop' = Tiling(loop, tile[1], tile[2], tile[3])
          \/ \E width \in PassWidths : loop' = Vectorize(loop, width)
          \/ loop' = Fusion(loop)
          \/ loop' = Display(loop, 2)
      BY <2>2 DEF RunPass
    <3>2. ASSUME NEW tile \in PassTiles, loop' = Tiling(loop, tile[1], tile[2], tile[3])
          PROVE  NewLoopOk(loop')
      <4>1. tile[1] \in Int /\ tile[2] \in Int /\ tile[3] \in Int
        BY MatmulAssumption
      <4> QED
        BY <1>2, <3>2, <4>1, TilingOk
    <3>3. ASSUME NEW width \in PassWidths, loop' = Vectorize(loop, width) PROVE NewLoopOk(loop')
      <4>1. width \in Int
        BY MatmulAssumption
      <4> QED
        BY <1>2, <3>3, <4>1, VectorizeOk
    <3>4. 2 \in Int
      OBVIOUS
    <3> QED
      BY <1>2, <3>1, <3>2, <3>3, <3>4, InterchangeOk, FusionOk, DisplayOk
  <2> QED
    BY <2>1, <2>2
<1> QED
  BY <1>1, <1>3 DEF MatmulInv

LEMMA StartKeepsInv ==
  ASSUME MatmulInv, Start
  PROVE  MatmulInv'
<1>1. /\ backend' \in {"interpreter", "jit"} /\ loop' = loop /\ asked' = asked
      /\ pending' = [w \in Workers' |->
                       IF backend' = "jit" THEN JitWork(loop, w) ELSE Work(problem, plan, w)]
  BY DEF Start
<1>2. LoopOk(loop') /\ problem' = problem /\ plan' = plan
  BY <1>1 DEF MatmulInv, problem, plan
<1>3. problem \in ProblemSet /\ PlanOk(plan)
  BY AnalyzeOk DEF MatmulInv, LoopOk, problem, plan
<1>4. pending' = [w \in Workers' |-> pending'[w]]
  BY <1>1
<1>5. ASSUME NEW w \in Workers' PROVE Within(pending'[w], RowsOfWorker(w)', 0 .. problem'.n - 1)
  <2>1. CASE backend' = "jit"
    <3>1. w \in 0 .. JitThreads(loop.problem, Analyze(loop)) - 1 /\ pending'[w] = JitWork(loop, w)
      BY <1>1, <1>2, <2>1 DEF Workers, problem, plan
    <3>2. RowsOfWorker(w)' =
            JitRowBegin(loop.problem, Analyze(loop), w) .. JitRowEnd(loop.problem, Analyze(loop), w) - 1
      BY <1>1, <2>1 DEF RowsOfWorker, problem, plan
    <3>3. Within(JitWork(loop, w), 
                 JitRowBegin(loop.problem, Analyze(loop), w) .. JitRowEnd(loop.problem, Analyze(loop), w) - 1,
                 0 .. loop.problem.n - 1)
      BY <3>1, JitWorkFills DEF MatmulInv, Fills
    <3> QED
      BY <1>2, <3>1, <3>2, <3>3 DEF problem
  <2>2. CASE backend' # "jit"
    <3>1. w \in Nat /\ pending'[w] = Work(problem, plan, w)
      <4>1. w \in 0 .. WorkerCount(problem.m, plan.threads) - 1
        BY <1>2, <2>2 DEF Workers, Team
      <4>2. pending'[w] = Work(problem, plan, w)
        BY <1>1, <2>2
      <4> QED
        BY <4>1, <4>2
    <3>2. RowsOfWorker(w)' = RowsOf(problem.m, plan.threads, w)
      BY <1>2, <2>2 DEF RowsOfWorker
    <3>3. Within(Work(problem, plan, w), RowsOf(problem.m, plan.threads, w), 0 .. problem.n - 1)
      BY <1>3, <3>1, WorkFills DEF Fills
    <3> QED
      BY <1>2, <3>1, <3>2, <3>3
  <2> QED
    BY <2>1, <2>2
<1> QED
  BY <1>1, <1>2, <1>4, <1>5 DEF MatmulInv

LEMMA WorkerKeepsInv ==
  ASSUME MatmulInv, backend # "none", NEW w \in Workers, WorkerStep(w)
  PROVE  MatmulInv'
<1>1. /\ pending[w] # <<>> /\ pending' = [pending EXCEPT ![w] = Tail(pending[w])]
      /\ loop' = loop /\ backend' = backend /\ asked' = asked
  BY DEF WorkerStep
<1>2. /\ Workers' = Workers /\ problem' = problem
      /\ \A v : RowsOfWorker(v)' = RowsOfWorker(v)
  BY <1>1 DEF Workers, problem, plan, RowsOfWorker
<1>3. pending = [v \in Workers |-> pending[v]]
  BY DEF MatmulInv
<1>4. pending' = [v \in Workers |-> IF v = w THEN Tail(pending[w]) ELSE pending[v]]
  BY <1>1, <1>3
<1>5. Within(Tail(pending[w]), RowsOfWorker(w), 0 .. problem.n - 1)
  <2>1. PICK S : /\ pending[w] \in Seq(S)
                 /\ \A op \in S : op.rows \subseteq RowsOfWorker(w) /\ op.cols \subseteq 0 .. problem.n - 1
    BY DEF MatmulInv, Within
  <2>2. Tail(pending[w]) \in Seq(S)
    BY <1>1, <2>1, HeadAndTail
  <2> QED
    BY <2>1, <2>2, WithinBy
<1>6. \A v \in Workers : Within(pending'[v], RowsOfWorker(v), 0 .. problem.n - 1)
  BY <1>4, <1>5 DEF MatmulInv
<1>7. pending' = [v \in Workers' |-> pending'[v]]
  BY <1>2, <1>4
<1> QED
  BY <1>1, <1>2, <1>6, <1>7 DEF MatmulInv

(* MatmulInv holds in every reachable state, for all problems, schedules,  *)
(* passes and transform programs.                                          *)
THEOREM WorkersKeepToTheirRows == MatmulSpec => []MatmulInv
<1>1. ASSUME MatmulInv, [MatmulNext]_matmulVars PROVE MatmulInv'
  <2>1. ASSUME UNCHANGED <<loop, asked, backend, pending>> PROVE MatmulInv'
    BY <1>1, <2>1 DEF MatmulInv, Workers, problem, plan, RowsOfWorker
  <2>2. CASE UNCHANGED matmulVars
    BY <2>1, <2>2 DEF matmulVars
  <2>3. CASE RunPass \/ InsertEpilogue
    BY <1>1, <2>3, PassKeepsInv
  <2>4. CASE Start
    BY <1>1, <2>4, StartKeepsInv
  <2>5. ASSUME backend # "none", NEW w \in Workers, WorkerStep(w) PROVE MatmulInv'
    BY <1>1, <2>5, WorkerKeepsInv
  <2>6. CASE Return
    BY <2>1, <2>6 DEF Return
  <2>7. CASE Terminated
    BY <2>2, <2>7 DEF Terminated
  <2> QED
    BY <1>1, <2>2, <2>3, <2>4, <2>5, <2>6, <2>7 DEF MatmulNext
<1> QED
  BY <1>1, MatmulStarts, PTL DEF MatmulSpec

(* The rows of two workers are apart, for both backends.                   *)
LEMMA RowsOfWorkersAreApart ==
  ASSUME MatmulInv, NEW v \in Workers, NEW w \in Workers
  PROVE  /\ RowsOfWorker(w) \subseteq 0 .. problem.m - 1
         /\ v # w => RowsOfWorker(v) \cap RowsOfWorker(w) = {}
<1>1. problem \in ProblemSet /\ problem.m \in Nat \ {0} /\ PlanOk(plan) /\ plan.threads \in Int /\ plan.mr \in Nat \ {0}
  <2>1. problem \in ProblemSet /\ PlanOk(plan)
    BY AnalyzeOk DEF MatmulInv, LoopOk, problem, plan
  <2> QED
    BY <2>1 DEF ProblemSet, PlanOk, PlanSizes
<1>2. CASE backend = "jit"
  <2>1. v \in 0 .. JitThreads(problem, plan) - 1 /\ w \in 0 .. JitThreads(problem, plan) - 1
        /\ JitThreads(problem, plan) \in Nat \ {0}
    BY <1>1, <1>2, JitRows DEF Workers
  <2>2. v \in Int /\ w \in Int /\ (v # w => v < w \/ w < v)
    BY <2>1
  <2>3. PICK a, b, c, d : /\ a = JitRowBegin(problem, plan, v) /\ b = JitRowEnd(problem, plan, v)
                          /\ c = JitRowBegin(problem, plan, w) /\ d = JitRowEnd(problem, plan, w)
    OBVIOUS
  <2>4. a \in Nat /\ b \in Nat /\ c \in Nat /\ d \in Nat /\ d <= problem.m
    BY <1>1, <2>1, <2>3, JitRows
  <2>5. (v < w => b <= c) /\ (w < v => d <= a)
    BY <1>1, <2>1, <2>3, JitRows
  <2>6. RowsOfWorker(v) = a .. b - 1 /\ RowsOfWorker(w) = c .. d - 1
    BY <1>2, <2>3 DEF RowsOfWorker
  <2> QED
    BY <1>1, <2>2, <2>4, <2>5, <2>6
<1>3. CASE backend # "jit"
  <2>1. v \in Nat /\ w \in Nat /\ w \in 0 .. WorkerCount(problem.m, plan.threads) - 1
    BY <1>3 DEF Workers, Team
  <2>2. \A x : RowsOfWorker(x) = RowsOf(problem.m, plan.threads, x)
    BY <1>3 DEF RowsOfWorker
  <2>3. v # w => RowsOf(problem.m, plan.threads, v) \cap RowsOf(problem.m, plan.threads, w) = {}
    <3>1. v < w \/ w < v \/ v = w
      BY <2>1
    <3> QED
      BY <1>1, <2>1, <3>1, RowsDisjoint
  <2>4. RowsOf(problem.m, plan.threads, w) \subseteq 0 .. problem.m - 1
    <3>1. RowsOf(problem.m, plan.threads, w) \subseteq
            UNION {RowsOf(problem.m, plan.threads, x) : x \in 0 .. WorkerCount(problem.m, plan.threads) - 1}
      BY <2>1
    <3> QED
      BY <1>1, <3>1, RowsCover
  <2> QED
    BY <2>2, <2>3, <2>4
<1> QED
  BY <1>2, <1>3

(* NoRace holds for every problem, schedule, sequence of passes, transform *)
(* program and number of workers: the operations that workers do at the    *)
(* same time write different elements, all inside the output (execute and  *)
(* benchmark, which take no lock).                                         *)
THEOREM WorkersDoNotRace == MatmulSpec => []NoRace
<1>1. ASSUME MatmulInv, backend # "none", NEW w \in Workers, pending[w] # <<>>
      PROVE  Head(pending[w]).rows \subseteq RowsOfWorker(w) /\ Head(pending[w]).cols \subseteq 0 .. problem.n - 1
  <2>1. PICK S : /\ pending[w] \in Seq(S)
                 /\ \A op \in S : op.rows \subseteq RowsOfWorker(w) /\ op.cols \subseteq 0 .. problem.n - 1
    BY <1>1 DEF MatmulInv, Within
  <2>2. Head(pending[w]) \in S
    BY <1>1, <2>1, HeadAndTail
  <2> QED
    BY <2>1, <2>2
<1>2. MatmulInv => NoRace
  <2> DEFINE tile(w) == Head(pending[w]).rows \X Head(pending[w]).cols
  <2>1. SUFFICES ASSUME MatmulInv, backend # "none", NEW w \in Workers, pending[w] # <<>>
                 PROVE  /\ tile(w) \subseteq Elements(problem)
                        /\ \A v \in Workers : pending[v] # <<>> /\ v # w => tile(w) \cap tile(v) = {}
    BY Zenon DEF NoRace
  <2>2. tile(w) \subseteq Elements(problem)
    <3>1. Head(pending[w]).rows \subseteq 0 .. problem.m - 1
      BY <1>1, <2>1, RowsOfWorkersAreApart
    <3>2. Head(pending[w]).cols \subseteq 0 .. problem.n - 1
      BY <1>1, <2>1
    <3> QED
      BY <3>1, <3>2 DEF Elements
  <2>3. ASSUME NEW v \in Workers, pending[v] # <<>>, v # w PROVE tile(w) \cap tile(v) = {}
    <3>1. Head(pending[w]).rows \subseteq RowsOfWorker(w) /\ Head(pending[v]).rows \subseteq RowsOfWorker(v)
      BY <1>1, <2>1, <2>3
    <3>2. RowsOfWorker(v) \cap RowsOfWorker(w) = {}
      BY <2>1, <2>3, RowsOfWorkersAreApart
    <3> QED
      BY <3>1, <3>2
  <2> QED
    BY <2>2, <2>3
<1> QED
  BY <1>2, WorkersKeepToTheirRows, PTL

(* What the workers make of the elements.  Generated code applies the      *)
(* graph epilogues itself, the interpreter leaves them to Return.          *)
WorkersLast ==
  IF backend = "jit" THEN LastTerms(problem, plan) ELSE EpilogueOf(problem)

(* The operations that are left make of every element in a worker's rows   *)
(* what the kernels promise; when a run is over nothing is left.           *)
ResultInv ==
  /\ backend = "none" => ~ returned
  /\ backend # "none" /\ ~ returned =>
       \A w \in Workers : \A i \in RowsOfWorker(w), j \in 0 .. problem.n - 1 :
         Makes(pending[w], problem, i, j, output[<<i, j>>], Products(problem, i, j) \o WorkersLast)
  /\ returned => ReturnsReference /\ \A w \in Workers : pending[w] = <<>>

(* Every row is some worker's, for both backends.                          *)
LEMMA RowsOfWorkersCover ==
  ASSUME MatmulInv, NEW i \in 0 .. problem.m - 1
  PROVE  \E w \in Workers : i \in RowsOfWorker(w)
<1>1. problem \in ProblemSet /\ problem.m \in Nat \ {0} /\ PlanOk(plan) /\ plan.threads \in Int /\ plan.mr \in Nat \ {0}
  <2>1. problem \in ProblemSet /\ PlanOk(plan)
    BY AnalyzeOk DEF MatmulInv, LoopOk, problem, plan
  <2> QED
    BY <2>1 DEF ProblemSet, PlanOk, PlanSizes
<1>2. CASE backend = "jit"
  <2>1. PICK w \in 0 .. JitThreads(problem, plan) - 1 :
          JitRowBegin(problem, plan, w) <= i /\ i < JitRowEnd(problem, plan, w)
    BY <1>1, JitRows
  <2>2. JitRowBegin(problem, plan, w) \in Nat /\ JitRowEnd(problem, plan, w) \in Nat
    BY <1>1, JitRows
  <2>3. i \in JitRowBegin(problem, plan, w) .. JitRowEnd(problem, plan, w) - 1
    BY <2>1, <2>2
  <2>4. w \in Workers /\ i \in RowsOfWorker(w)
    BY <1>2, <2>3 DEF Workers, RowsOfWorker
  <2> QED
    BY <2>4
<1>3. CASE backend # "jit"
  <2>1. i \in UNION {RowsOf(problem.m, plan.threads, x) : x \in 0 .. WorkerCount(problem.m, plan.threads) - 1}
    BY <1>1, RowsCover
  <2>2. PICK w \in 0 .. WorkerCount(problem.m, plan.threads) - 1 : i \in RowsOf(problem.m, plan.threads, w)
    BY <2>1
  <2>3. w \in Workers /\ i \in RowsOfWorker(w)
    BY <1>3, <2>2 DEF Workers, Team, RowsOfWorker
  <2> QED
    BY <2>3
<1> QED
  BY <1>2, <1>3

LEMMA FillsMakes ==
  ASSUME NEW ops, NEW p, NEW R, R \subseteq Int, NEW C, C \subseteq Int, NEW last,
         \A F : Fills(ops, p, R, C, F, Completed(p, last)),
         NEW i \in R, NEW j \in C, NEW old
  PROVE  Makes(ops, p, i, j, old, Products(p, i, j) \o last)
<1>1. PICK F : F = [x \in Int |-> [y \in Int |-> old]]
  OBVIOUS
<1>2. Makes(ops, p, i, j, F[i][j], Completed(p, last)[i][j])
  BY DEF Fills
<1>3. F[i][j] = old
  BY <1>1
<1>4. Completed(p, last)[i][j] = Products(p, i, j) \o last
  BY DEF Completed
<1> QED
  BY <1>2, <1>3, <1>4

LEMMA StartsResult ==
  ASSUME MatmulInv, MatmulInv', ResultInv, Start
  PROVE  ResultInv'
<1>1. /\ backend = "none" /\ backend' \in {"interpreter", "jit"} /\ loop' = loop /\ returned' = returned
      /\ output' = [e \in Elements(problem) |-> Stale]
      /\ pending' = [w \in Workers' |->
                       IF backend' = "jit" THEN JitWork(loop, w) ELSE Work(problem, plan, w)]
  BY DEF Start
<1>2. ~ returned' /\ problem' = problem /\ plan' = plan
  BY <1>1 DEF ResultInv, problem, plan
<1>3. LoopOk(loop) /\ problem \in ProblemSet /\ PlanOk(plan)
  BY AnalyzeOk DEF MatmulInv, LoopOk, problem, plan
<1>4. ASSUME NEW w \in Workers', NEW i \in RowsOfWorker(w)', NEW j \in 0 .. problem'.n - 1
      PROVE  Makes(pending'[w], problem', i, j, output'[<<i, j>>], Products(problem', i, j) \o WorkersLast')
  <2>1. CASE backend' = "jit"
    <3>1. PICK R : R = JitRowBegin(loop.problem, Analyze(loop), w) .. JitRowEnd(loop.problem, Analyze(loop), w) - 1
      OBVIOUS
    <3>2. w \in 0 .. JitThreads(loop.problem, Analyze(loop)) - 1 /\ pending'[w] = JitWork(loop, w)
          /\ WorkersLast' = LastTerms(problem, plan) /\ i \in R /\ j \in 0 .. problem.n - 1
      BY <1>1, <1>2, <1>4, <2>1, <3>1 DEF Workers, RowsOfWorker, WorkersLast, problem, plan
    <3>3. \A F : Fills(JitWork(loop, w), problem, R, 0 .. problem.n - 1, F,
                       Completed(problem, LastTerms(problem, plan)))
      BY <1>3, <3>1, <3>2, JitWorkFills DEF problem, plan
    <3>4. R \subseteq Int
      BY <3>1
    <3>5. PICK ops, last, C, q, old :
            /\ ops = JitWork(loop, w) /\ last = LastTerms(problem, plan) /\ C = 0 .. problem.n - 1 /\ q = problem
            /\ old = output'[<<i, j>>]
      OBVIOUS
    <3>6. C \subseteq Int /\ i \in R /\ j \in C /\ \A F : Fills(ops, q, R, C, F, Completed(q, last))
      BY <3>2, <3>3, <3>5
    <3>7. Makes(ops, q, i, j, old, Products(q, i, j) \o last)
      BY ONLY <3>4, <3>6, FillsMakes
    <3> QED
      BY <1>2, <3>2, <3>5, <3>7
  <2>2. CASE backend' # "jit"
    <3>1. PICK R : R = RowsOf(problem.m, plan.threads, w)
      OBVIOUS
    <3>2. w \in Nat /\ pending'[w] = Work(problem, plan, w)
          /\ WorkersLast' = EpilogueOf(problem) /\ i \in R /\ j \in 0 .. problem.n - 1
      BY <1>1, <1>2, <1>4, <2>2, <3>1 DEF Workers, Team, RowsOfWorker, WorkersLast
    <3>3. \A F : Fills(Work(problem, plan, w), problem, R, 0 .. problem.n - 1, F,
                       Completed(problem, EpilogueOf(problem)))
      BY <1>3, <3>1, <3>2, WorkFills
    <3>4. R \subseteq Int
      BY <3>1 DEF RowsOf
    <3>5. PICK ops, last, C, q, old :
            /\ ops = Work(problem, plan, w) /\ last = EpilogueOf(problem) /\ C = 0 .. problem.n - 1 /\ q = problem
            /\ old = output'[<<i, j>>]
      OBVIOUS
    <3>6. C \subseteq Int /\ i \in R /\ j \in C /\ \A F : Fills(ops, q, R, C, F, Completed(q, last))
      BY <3>2, <3>3, <3>5
    <3>7. Makes(ops, q, i, j, old, Products(q, i, j) \o last)
      BY ONLY <3>4, <3>6, FillsMakes
    <3> QED
      BY <1>2, <3>2, <3>5, <3>7
  <2> QED
    BY <2>1, <2>2
<1> QED
  BY <1>1, <1>2, <1>4 DEF ResultInv

LEMMA WorkerKeepsResult ==
  ASSUME MatmulInv, ResultInv, backend # "none", NEW w \in Workers, WorkerStep(w)
  PROVE  ResultInv'
<1> DEFINE op == Head(pending[w])
<1>1. /\ pending[w] # <<>> /\ pending' = [pending EXCEPT ![w] = Tail(pending[w])]
      /\ loop' = loop /\ backend' = backend /\ returned' = returned
      /\ output' = [e \in Elements(problem) |->
                      IF e[1] \in op.rows /\ e[2] \in op.cols
                        THEN Applied(op, problem, e[1], e[2], output[e]) ELSE output[e]]
  BY DEF WorkerStep
<1>2. /\ ~ returned' /\ Workers' = Workers /\ problem' = problem /\ WorkersLast' = WorkersLast
      /\ \A v : RowsOfWorker(v)' = RowsOfWorker(v)
  BY <1>1 DEF ResultInv, Workers, problem, plan, RowsOfWorker, WorkersLast
<1>3. PICK S : /\ pending[w] \in Seq(S)
               /\ \A x \in S : x.rows \subseteq RowsOfWorker(w) /\ x.cols \subseteq 0 .. problem.n - 1
  BY DEF MatmulInv, Within
<1>4. op.rows \subseteq RowsOfWorker(w)
  <2>1. op \in S
    BY <1>1, <1>3, HeadAndTail
  <2> QED
    BY <1>3, <2>1
<1>5. pending = [v \in Workers |-> pending[v]]
  BY DEF MatmulInv
<1>6. ASSUME NEW v \in Workers, NEW i \in RowsOfWorker(v), NEW j \in 0 .. problem.n - 1
      PROVE  Makes(pending'[v], problem, i, j, output'[<<i, j>>], Products(problem, i, j) \o WorkersLast)
  <2>1. i \in 0 .. problem.m - 1
    BY RowsOfWorkersAreApart
  <2>2. <<i, j>> \in Elements(problem)
    BY <2>1 DEF Elements
  <2>3. output'[<<i, j>>] = Touched(op, problem, i, j, output[<<i, j>>])
    <3> HIDE DEF op
    <3> QED
      BY <1>1, <2>2 DEF Touched
  <2>4. Makes(pending[v], problem, i, j, output[<<i, j>>], Products(problem, i, j) \o WorkersLast)
    BY <1>2, <1>1 DEF ResultInv
  <2>5. CASE v = w
    <3>1. pending'[v] = Tail(pending[w])
      BY <1>1, <1>5, <2>5
    <3>2. Makes(Tail(pending[w]), problem, i, j, Touched(op, problem, i, j, output[<<i, j>>]),
                Products(problem, i, j) \o WorkersLast)
      BY <1>1, <1>3, <2>4, <2>5, RestMakes
    <3> QED
      BY <2>3, <3>1, <3>2
  <2>6. CASE v # w
    <3>1. pending'[v] = pending[v]
      BY <1>1, <1>5, <2>6
    <3>2. i \notin op.rows
      <4>1. RowsOfWorker(v) \cap RowsOfWorker(w) = {}
        BY <2>6, RowsOfWorkersAreApart
      <4> QED
        BY <1>4, <4>1
    <3>3. output'[<<i, j>>] = output[<<i, j>>]
      BY <2>3, <3>2 DEF Touched
    <3> QED
      BY <2>4, <3>1, <3>3
  <2> QED
    BY <2>5, <2>6
<1> QED
  BY <1>1, <1>2, <1>6 DEF ResultInv

(* The sequences that make up an element.                                  *)
LEMMA TermsAssociate ==
  ASSUME NEW p \in ProblemSet, NEW i, NEW j, NEW kinds,
         NEW inner, Told(inner, kinds)
  PROVE  /\ (Products(p, i, j) \o EpilogueOf(p)) \o kinds = Products(p, i, j) \o (EpilogueOf(p) \o kinds)
         /\ (Products(p, i, j) \o (EpilogueOf(p) \o kinds)) \o <<>>
              = Products(p, i, j) \o (EpilogueOf(p) \o kinds)
<1>1. PICK S, a : a = Products(p, i, j) /\ a \in Seq(S)
  <2>1. p.k \in Nat
    BY DEF ProblemSet
  <2>2. Products(p, i, j) = Partial(i, j, p.k)
    BY DEF Products, Partial
  <2> QED
    BY <2>1, <2>2, PartialIsSeq
<1>2. PICK b : b = EpilogueOf(p) /\ b \in Seq({EpilogueTerm})
  <2>1. <<>> \in Seq({EpilogueTerm}) /\ <<EpilogueTerm>> \in Seq({EpilogueTerm})
    OBVIOUS
  <2>2. EpilogueOf(p) \in Seq({EpilogueTerm})
    BY <2>1, Zenon DEF EpilogueOf
  <2> QED
    BY <2>2
<1>3. kinds \in Seq(BodyOps)
  <2>1. /\ <<>> \in Seq(BodyOps) /\ <<"gelu">> \in Seq(BodyOps) /\ <<"residual">> \in Seq(BodyOps)
        /\ <<"gelu", "residual">> \in Seq(BodyOps)
    <3>1. "gelu" \in BodyOps /\ "residual" \in BodyOps
      BY DEF BodyOps
    <3> QED
      BY <3>1
  <2> QED
    BY <2>1, Zenon DEF Told
<1>4. PICK U : U = S \cup {EpilogueTerm} \cup BodyOps
  OBVIOUS
<1>5. a \in Seq(U) /\ b \in Seq(U) /\ kinds \in Seq(U)
  BY <1>1, <1>2, <1>3, <1>4
<1>6. (a \o b) \o kinds = a \o (b \o kinds)
  BY ONLY <1>5, ConcatAssociative
<1>7. (a \o (b \o kinds)) \o <<>> = a \o (b \o kinds)
  <2>1. a \o (b \o kinds) \in Seq(U)
    BY <1>5
  <2> QED
    BY <2>1
<1> QED
  BY <1>1, <1>2, <1>6, <1>7, Zenon

LEMMA ReturnKeepsResult ==
  ASSUME MatmulInv, ResultInv, Return
  PROVE  ResultInv'
<1>1. /\ backend # "none" /\ ~ returned /\ \A w \in Workers : pending[w] = <<>>
      /\ returned' /\ loop' = loop /\ asked' = asked /\ backend' = backend /\ pending' = pending
      /\ output' = [e \in Elements(problem) |->
                      output[e] \o IF backend = "jit" THEN <<>> ELSE GraphTerms(plan)]
  BY DEF Return
<1>2. Workers' = Workers /\ problem' = problem
  BY <1>1 DEF Workers, problem, plan
<1>3. problem \in ProblemSet /\ GraphTerms(plan) = asked /\ Told(loop.inner, asked)
  <2>1. plan = PlanOfTree(loop) /\ problem \in ProblemSet /\ Told(loop.inner, asked)
    BY AnalyzeOk DEF MatmulInv, LoopOk, plan, problem
  <2>2. GraphTerms(PlanOfTree(loop)) = asked
    BY <2>1, ToldTerms
  <2> QED
    BY <2>1, <2>2
<1>4. ASSUME NEW i \in 0 .. problem.m - 1, NEW j \in 0 .. problem.n - 1
      PROVE  output'[<<i, j>>] = Reference(problem, i, j) \o asked
  <2>1. PICK w \in Workers : i \in RowsOfWorker(w)
    BY RowsOfWorkersCover
  <2>2. output[<<i, j>>] = Products(problem, i, j) \o WorkersLast
    <3>1. Makes(pending[w], problem, i, j, output[<<i, j>>], Products(problem, i, j) \o WorkersLast)
      BY <1>1, <2>1 DEF ResultInv
    <3> QED
      BY <1>1, <3>1, DoneMakes
  <2>3. <<i, j>> \in Elements(problem)
    BY DEF Elements
  <2>4. PICK a, b : a = Products(problem, i, j) /\ b = EpilogueOf(problem)
    OBVIOUS
  <2>5. (a \o b) \o asked = a \o (b \o asked) /\ (a \o (b \o asked)) \o <<>> = a \o (b \o asked)
    BY <1>3, <2>4, TermsAssociate
  <2>6. Reference(problem, i, j) = a \o b
    BY <2>4 DEF Reference
  <2>7. CASE backend = "jit"
    <3>1. output'[<<i, j>>] = output[<<i, j>>] \o <<>>
      BY <1>1, <2>3, <2>7
    <3>2. WorkersLast = b \o asked
      BY <1>3, <2>4, <2>7 DEF WorkersLast, LastTerms
    <3> QED
      BY <2>2, <2>4, <2>5, <2>6, <3>1, <3>2, Zenon
  <2>8. CASE backend # "jit"
    <3>1. output'[<<i, j>>] = output[<<i, j>>] \o asked
      BY <1>1, <1>3, <2>3, <2>8
    <3>2. WorkersLast = b
      BY <2>4, <2>8 DEF WorkersLast
    <3> QED
      BY <2>2, <2>4, <2>5, <2>6, <3>1, <3>2, Zenon
  <2> QED
    BY <2>7, <2>8
<1>5. ReturnsReference'
  <2>1. ASSUME NEW e \in Elements(problem)
        PROVE  output'[e] = Reference(problem, e[1], e[2]) \o asked
    <3>1. PICK i \in 0 .. problem.m - 1, j \in 0 .. problem.n - 1 : e = <<i, j>>
      BY DEF Elements
    <3> QED
      BY <1>4, <3>1
  <2> QED
    BY <1>1, <1>2, <2>1 DEF ReturnsReference
<1> QED
  BY <1>1, <1>2, <1>5 DEF ResultInv

(* ReturnsReference holds for every problem, schedule, sequence of passes, *)
(* transform program and set of inserted epilogues, with both backends and *)
(* any number of workers: execute and the generated kernels compute what   *)
(* reference() does, element by element and in its order of summation.     *)
THEOREM KernelsReturnReference == MatmulSpec => []ReturnsReference
<1>1. MatmulInit => ResultInv
  BY DEF MatmulInit, ResultInv
<1>2. ASSUME MatmulInv, MatmulInv', ResultInv, [MatmulNext]_matmulVars PROVE ResultInv'
  <2>1. CASE UNCHANGED matmulVars
    BY <1>2, <2>1 DEF matmulVars, ResultInv, ReturnsReference, Workers, problem, plan, RowsOfWorker, WorkersLast
  <2>2. CASE RunPass \/ InsertEpilogue
    BY <1>2, <2>2 DEF RunPass, InsertEpilogue, ResultInv
  <2>3. CASE Start
    BY <1>2, <2>3, StartsResult
  <2>4. ASSUME backend # "none", NEW w \in Workers, WorkerStep(w) PROVE ResultInv'
    BY <1>2, <2>4, WorkerKeepsResult
  <2>5. CASE Return
    BY <1>2, <2>5, ReturnKeepsResult
  <2>6. CASE Terminated
    BY <2>1, <2>6 DEF Terminated
  <2> QED
    BY <1>2, <2>1, <2>2, <2>3, <2>4, <2>5, <2>6 DEF MatmulNext
<1>3. ResultInv => ReturnsReference
  BY DEF ResultInv, ReturnsReference
<1> QED
  BY <1>1, <1>2, <1>3, WorkersKeepToTheirRows, PTL DEF MatmulSpec

(***************************************************************************)
(* CompilerDriver.  The memory planner puts live buffers apart; then the   *)
(* inductive invariant of the processes and the directory they share.      *)
(***************************************************************************)

(* The memory planner.                                                     *)
BufferSet == [bytes : Nat, first : 0 .. 4, last : 0 .. 4, offset : Nat]

(* Of the buffers of a product, only the last may follow another, which is *)
(* then that of the packed A.                                              *)
OneMayFollow(wanted) ==
  /\ wanted \in Seq(BufferSet)
  /\ \A i, j \in DOMAIN wanted : i < j /\ wanted[i].last < wanted[j].first =>
       wanted[i].last = 2 /\ wanted[j].last = 4
  /\ \A i, j \in DOMAIN wanted : wanted[i].last = wanted[j].last /\ wanted[i].last \in {2, 4} => i = j
  /\ \A i \in DOMAIN wanted : wanted[i].last = 4 => wanted[i].first = 3

IsFresh(placed, j) == \A i \in 1 .. j - 1 : placed[i].offset + placed[i].bytes <= placed[j].offset
IsReused(placed, j) ==
  placed[j].last = 4 /\ \E k \in 1 .. j - 1 : /\ placed[k].last = 2
                                              /\ placed[k].offset = placed[j].offset
                                              /\ placed[j].bytes <= placed[k].bytes

ArenaInv(wanted, n, arena) ==
  /\ Len(arena.placed) = n
  /\ \A i \in 1 .. n : /\ arena.placed[i].bytes = wanted[i].bytes
                       /\ arena.placed[i].first = wanted[i].first
                       /\ arena.placed[i].last = wanted[i].last
                       /\ arena.placed[i].offset + arena.placed[i].bytes <= arena.end
  /\ \A j \in 1 .. n : IsFresh(arena.placed, j) \/ IsReused(arena.placed, j)

ArenaSet == [placed : Seq(BufferSet), end : Nat]

(* One more element of a list.                                             *)
LEMMA AppendIs ==
  ASSUME NEW S, NEW s \in Seq(S), NEW e \in S, NEW n, Len(s) = n
  PROVE  /\ Append(s, e) \in Seq(S) /\ Len(Append(s, e)) = n + 1 /\ n \in Nat
         /\ Append(s, e)[n + 1] = e
         /\ \A i \in 1 .. n : Append(s, e)[i] = s[i] /\ s[i] \in S
OBVIOUS

LEMMA RoundedUp == ASSUME NEW e \in Nat PROVE CeilDiv(e, 64) * 64 \in Nat /\ e <= CeilDiv(e, 64) * 64
BY CeilDivEnough

(* One more buffer: at the end, or in place of one that is over.           *)
LEMMA AllocateKeeps ==
  ASSUME NEW wanted, OneMayFollow(wanted), NEW n \in 1 .. Len(wanted), NEW arena \in ArenaSet,
         ArenaInv(wanted, n - 1, arena)
  PROVE  Allocate(arena, wanted[n]) \in ArenaSet /\ ArenaInv(wanted, n, Allocate(arena, wanted[n]))
<1> DEFINE buffer == wanted[n]
           placed == arena.placed
           before == {i \in DOMAIN placed : MayFollow(placed[i], buffer)}
           end == CeilDiv(arena.end, 64) * 64
<1>1. /\ placed \in Seq(BufferSet) /\ arena.end \in Nat /\ Len(placed) = n - 1 /\ n \in Nat \ {0}
      /\ buffer \in BufferSet
  BY DEF ArenaSet, ArenaInv, OneMayFollow
<1>2. \A i \in 1 .. n - 1 : /\ placed[i] \in BufferSet
                            /\ placed[i].bytes = wanted[i].bytes
                            /\ placed[i].first = wanted[i].first
                            /\ placed[i].last = wanted[i].last
                            /\ placed[i].offset + placed[i].bytes <= arena.end
  BY <1>1 DEF ArenaInv
<1>3. \A j \in 1 .. n - 1 : IsFresh(placed, j) \/ IsReused(placed, j)
  BY DEF ArenaInv
<1>4. ASSUME NEW offset \in Nat, NEW newEnd \in Nat, arena.end <= newEnd,
             offset + buffer.bytes <= newEnd,
             \/ arena.end <= offset
             \/ buffer.last = 4 /\ \E k \in 1 .. n - 1 : /\ placed[k].last = 2
                                                        /\ placed[k].offset = offset
                                                        /\ buffer.bytes <= placed[k].bytes
      PROVE  LET a == [placed |-> Append(placed, [buffer EXCEPT !.offset = offset]), end |-> newEnd]
             IN a \in ArenaSet /\ ArenaInv(wanted, n, a)
  <2> DEFINE e == [buffer EXCEPT !.offset = offset]
             new == Append(placed, e)
  <2>1. e \in BufferSet /\ e.bytes = buffer.bytes /\ e.first = buffer.first /\ e.last = buffer.last /\ e.offset = offset
    BY <1>1 DEF BufferSet
  <2> HIDE DEF e, buffer, placed
  <2>2. new \in Seq(BufferSet) /\ Len(new) = n /\ new[n] = e /\ \A i \in 1 .. n - 1 : new[i] = placed[i]
    <3>1. /\ new \in Seq(BufferSet) /\ Len(new) = (n - 1) + 1 /\ new[(n - 1) + 1] = e
          /\ \A i \in 1 .. n - 1 : new[i] = placed[i]
      BY <1>1, <2>1, AppendIs
    <3>2. (n - 1) + 1 = n
      BY <1>1
    <3> QED
      BY <3>1, <3>2
  <2> HIDE DEF new
  <2>3. \A i \in 1 .. n : i = n \/ i \in 1 .. n - 1
    BY <1>1
  <2>4. ASSUME NEW i \in 1 .. n
        PROVE  /\ new[i].bytes = wanted[i].bytes /\ new[i].first = wanted[i].first
               /\ new[i].last = wanted[i].last /\ new[i].offset + new[i].bytes <= newEnd
    <3>1. CASE i = n
      <4>1. buffer = wanted[n]
        BY DEF buffer
      <4>2. new[n] = e /\ wanted[i] = buffer
        BY <2>2, <3>1, <4>1
      <4>3. e.offset + e.bytes <= newEnd
        BY <1>4, <2>1
      <4>4. new[i] = e
        BY <3>1, <4>2
      <4>5. new[i].offset + new[i].bytes <= newEnd
        BY <4>3, <4>4
      <4>6. e.bytes = wanted[i].bytes /\ e.first = wanted[i].first /\ e.last = wanted[i].last
        BY <2>1, <4>2
      <4>7. new[i].bytes = wanted[i].bytes /\ new[i].first = wanted[i].first /\ new[i].last = wanted[i].last
        BY ONLY <4>4, <4>6
      <4> QED
        BY ONLY <4>5, <4>7
    <3>2. CASE i \in 1 .. n - 1
      <4>1. placed[i].offset + placed[i].bytes <= arena.end /\ placed[i].offset \in Nat /\ placed[i].bytes \in Nat
        BY <1>2, <3>2 DEF BufferSet
      <4>2. new[i] = placed[i]
        BY <2>2, <3>2
      <4>3. /\ new[i].bytes = wanted[i].bytes /\ new[i].first = wanted[i].first
            /\ new[i].last = wanted[i].last
        BY <1>2, <3>2, <4>2
      <4>4. new[i].offset + new[i].bytes <= newEnd
        BY <1>1, <1>4, <4>1, <4>2
      <4> QED
        BY ONLY <4>3, <4>4
    <3> QED
      BY <2>3, <3>1, <3>2
  <2>5. ASSUME NEW j \in 1 .. n PROVE IsFresh(new, j) \/ IsReused(new, j)
    <3>1. CASE j = n
      <4>1. CASE arena.end <= offset
        <5>1. ASSUME NEW i \in 1 .. n - 1 PROVE new[i].offset + new[i].bytes <= new[n].offset
          <6>1. placed[i].offset + placed[i].bytes <= arena.end /\ placed[i].offset \in Nat /\ placed[i].bytes \in Nat
            BY <1>2 DEF BufferSet
          <6>2. new[i] = placed[i] /\ new[n].offset = offset
            BY <2>1, <2>2
          <6> QED
            BY <1>1, <1>4, <4>1, <6>1, <6>2
        <5> QED
          BY <3>1, <5>1 DEF IsFresh
      <4>2. CASE buffer.last = 4 /\ \E k \in 1 .. n - 1 : /\ placed[k].last = 2
                                                         /\ placed[k].offset = offset
                                                         /\ buffer.bytes <= placed[k].bytes
        BY <2>1, <2>2, <3>1, <4>2 DEF IsReused
      <4> QED
        BY <1>4, <4>1, <4>2
    <3>2. CASE j \in 1 .. n - 1
      <4>1. \A i \in 1 .. j - 1 : i \in 1 .. n - 1
        BY <1>1, <3>2
      <4>2. IsFresh(placed, j) => IsFresh(new, j)
        BY <2>2, <3>2, <4>1 DEF IsFresh
      <4>3. IsReused(placed, j) => IsReused(new, j)
        BY <2>2, <3>2, <4>1 DEF IsReused
      <4> QED
        BY <1>3, <3>2, <4>2, <4>3
    <3> QED
      BY <2>3, <3>1, <3>2
  <2>6. PICK a : a = [placed |-> new, end |-> newEnd]
    OBVIOUS
  <2>7. a \in ArenaSet /\ a.placed = new /\ a.end = newEnd
    BY <1>4, <2>2, <2>6 DEF ArenaSet
  <2>8. ArenaInv(wanted, n, a)
    BY <2>2, <2>4, <2>5, <2>7 DEF ArenaInv
  <2> QED
    BY <2>6, <2>7, <2>8 DEF new, e
<1>5. CASE before # {}
  <2> DEFINE first == CHOOSE i \in before : \A j \in before : i <= j
  <2>1. first \in before
    <3>1. before \subseteq Nat
      <4>1. DOMAIN placed = 1 .. n - 1
        BY <1>1
      <4> QED
        BY <4>1
    <3> HIDE DEF before
    <3>2. PICK i \in before : \A j \in before : <<j, i>> \notin OpToRel(<, Nat)
      BY <1>5, <3>1, NatLessThanWellFounded, WFMin
    <3>3. \A j \in before : i <= j
      <4> SUFFICES ASSUME NEW j \in before, ~ (i <= j) PROVE FALSE
        OBVIOUS
      <4>1. j \in Nat /\ i \in Nat /\ j < i
        BY <3>1
      <4> QED
        BY <3>2, <4>1 DEF OpToRel
    <3> QED
      BY <3>3
  <2>2. Allocate(arena, buffer) = [placed |-> Append(placed, [buffer EXCEPT !.offset = placed[first].offset]),
                                   end |-> arena.end]
    <3>1. Allocate(arena, buffer) = [arena EXCEPT !.placed = Append(@, [buffer EXCEPT !.offset = placed[first].offset])]
      BY <1>5 DEF Allocate
    <3>2. PICK v : v = Append(placed, [buffer EXCEPT !.offset = placed[first].offset])
      OBVIOUS
    <3>3. [arena EXCEPT !.placed = v] = [placed |-> v, end |-> arena.end]
      BY DEF ArenaSet
    <3> HIDE DEF first
    <3> QED
      BY <3>1, <3>2, <3>3
  <2> HIDE DEF first
  <2>3. PICK k : k = first
    OBVIOUS
  <2>4. k \in 1 .. n - 1 /\ placed[k].last < buffer.first /\ placed[k].bytes >= buffer.bytes
    BY <1>1, <2>1, <2>3 DEF MayFollow
  <2>5. placed[k].last = 2 /\ buffer.last = 4
    <3>1. k \in DOMAIN wanted /\ n \in DOMAIN wanted /\ k < n
      BY <1>1, <2>4 DEF OneMayFollow
    <3>2. wanted[k].last < wanted[n].first
      BY <1>2, <2>4
    <3> QED
      BY <1>2, <2>4, <3>1, <3>2 DEF OneMayFollow
  <2>6. placed[k].offset \in Nat /\ placed[k].bytes \in Nat /\ placed[k].offset + placed[k].bytes <= arena.end /\ buffer.bytes \in Nat
    BY <1>1, <1>2, <2>4 DEF BufferSet
  <2>7. placed[k].offset + buffer.bytes <= arena.end /\ arena.end <= arena.end
    <3>1. PICK o, x, y \in Nat : o = placed[k].offset /\ x = placed[k].bytes /\ y = buffer.bytes
      BY <2>6
    <3>2. o + x <= arena.end /\ y <= x
      BY <2>4, <2>6, <3>1
    <3>3. o + y <= arena.end
      BY <1>1, <3>2
    <3> QED
      BY <1>1, <3>1, <3>3
  <2> HIDE DEF placed, buffer, before
  <2>8. LET a == [placed |-> Append(placed, [buffer EXCEPT !.offset = placed[k].offset]), end |-> arena.end]
        IN a \in ArenaSet /\ ArenaInv(wanted, n, a)
    <3>1. buffer.bytes <= placed[k].bytes
      BY <2>4, <2>6
    <3> QED
      BY <1>1, <1>4, <2>4, <2>5, <2>6, <2>7, <3>1
  <2> QED
    BY <2>2, <2>3, <2>8 DEF buffer
<1>6. CASE before = {}
  <2>1. end \in Nat /\ arena.end <= end /\ buffer.bytes \in Nat
    BY <1>1, RoundedUp DEF BufferSet
  <2>2. Allocate(arena, buffer) = [placed |-> Append(placed, [buffer EXCEPT !.offset = end]),
                                   end |-> end + buffer.bytes]
    BY <1>6 DEF Allocate
  <2> HIDE DEF placed, buffer, before, end
  <2>3. end + buffer.bytes \in Nat /\ arena.end <= end + buffer.bytes /\ end + buffer.bytes <= end + buffer.bytes
    BY <1>1, <2>1
  <2>4. LET a == [placed |-> Append(placed, [buffer EXCEPT !.offset = end]), end |-> end + buffer.bytes]
        IN a \in ArenaSet /\ ArenaInv(wanted, n, a)
    BY <1>4, <2>1, <2>3
  <2> QED
    BY <2>2, <2>4 DEF buffer
<1> QED
  BY <1>5, <1>6

ArenaSolves(f, wanted) ==
  f = [n \in 0 .. Len(wanted) |->
         IF n = 0 THEN [placed |-> <<>>, end |-> 0] ELSE Allocate(f[n - 1], wanted[n])]

(* The arena of every list of requests exists, and planning finds it.      *)
LEMMA PlanBuffersIs ==
  ASSUME NEW p, NEW s
  PROVE  PlanBuffers(p, s) =
           (CHOOSE f : ArenaSolves(f, BuffersOf(p, s)))[Len(BuffersOf(p, s))].placed
BY ZenonT(60) DEF PlanBuffers, ArenaSolves

LEMMA ArenasExist ==
  ASSUME NEW wanted, OneMayFollow(wanted)
  PROVE  \E f : ArenaSolves(f, wanted)
<1> DEFINE n == Len(wanted)
           S == [i \in 0 .. n |-> {a \in ArenaSet : ArenaInv(wanted, i, a)}]
           base == [placed |-> <<>>, end |-> 0]
           step == [i \in 1 .. n |-> [a \in S[i - 1] |-> Allocate(a, wanted[i])]]
<1>1. n \in Nat
  BY DEF OneMayFollow
<1>2. base \in S[0]
  <2>1. base \in ArenaSet /\ ArenaInv(wanted, 0, base)
    BY DEF ArenaSet, ArenaInv
  <2>2. 0 \in 0 .. n
    BY <1>1
  <2> HIDE DEF base
  <2> QED
    BY <2>1, <2>2
<1>3. \A i \in 1 .. n : \A x \in S[i - 1] : step[i][x] \in S[i] /\ step[i][x] = Allocate(x, wanted[i])
  <2> TAKE i \in 1 .. n
  <2>1. i - 1 \in 0 .. n /\ i \in 0 .. n
    BY <1>1
  <2> TAKE x \in S[i - 1]
  <2>2. x \in ArenaSet /\ ArenaInv(wanted, i - 1, x)
    BY <2>1
  <2>3. step[i][x] = Allocate(x, wanted[i])
    OBVIOUS
  <2>4. Allocate(x, wanted[i]) \in ArenaSet /\ ArenaInv(wanted, i, Allocate(x, wanted[i]))
    BY <2>2, AllocateKeeps
  <2> QED
    BY <2>1, <2>3, <2>4
<1> HIDE DEF S, step, base, n
<1>4. PICK f : Iterates(f, base, step, n) /\ \A i \in 0 .. n : f[i] \in S[i]
  BY <1>1, <1>2, <1>3, IterationExists
<1>5. ASSUME NEW i \in 0 .. n
      PROVE  (IF i = 0 THEN base ELSE step[i][f[i - 1]]) = (IF i = 0 THEN base ELSE Allocate(f[i - 1], wanted[i]))
  <2>1. i # 0 => i - 1 \in 0 .. n /\ i \in 1 .. n
    BY <1>1
  <2> QED
    BY <1>3, <1>4, <2>1
<1>6. f = [i \in 0 .. n |-> IF i = 0 THEN base ELSE Allocate(f[i - 1], wanted[i])]
  BY <1>4, <1>5 DEF Iterates
<1> QED
  BY <1>6 DEF ArenaSolves, base, n

(* The requests of a product are such a list.                              *)
LEMMA WantedBuffers ==
  ASSUME NEW p, NEW s, p.m \in Nat, p.n \in Nat, s.mc \in Nat, s.kc \in Nat, s.nc \in Nat
  PROVE  OneMayFollow(BuffersOf(p, s))
<1> DEFINE a == Buffer(4 * s.mc * s.kc, 1, 2)
           b == Buffer(4 * s.kc * s.nc, 0, 3)
           c == Buffer(4 * p.m * p.n, 2, 3)
           d == Buffer(4 * p.m * p.n, 3, 4)
<1>1. 4 * s.mc * s.kc \in Nat /\ 4 * s.kc * s.nc \in Nat /\ 4 * p.m * p.n \in Nat
  <2>1. \A x, y \in Nat : 4 * x * y \in Nat
    OBVIOUS
  <2> QED
    BY <2>1
<1>2. \A n \in Nat : \A x, y \in 0 .. 4 : Buffer(n, x, y) \in BufferSet /\ Buffer(n, x, y).first = x /\ Buffer(n, x, y).last = y
  BY DEF Buffer, BufferSet
<1>3. /\ a \in BufferSet /\ a.first = 1 /\ a.last = 2
      /\ b \in BufferSet /\ b.first = 0 /\ b.last = 3
      /\ c \in BufferSet /\ c.first = 2 /\ c.last = 3
      /\ d \in BufferSet /\ d.first = 3 /\ d.last = 4
  <2>1. 0 \in 0 .. 4 /\ 1 \in 0 .. 4 /\ 2 \in 0 .. 4 /\ 3 \in 0 .. 4 /\ 4 \in 0 .. 4
    OBVIOUS
  <2>2. PICK x, y, z \in Nat : x = 4 * s.mc * s.kc /\ y = 4 * s.kc * s.nc /\ z = 4 * p.m * p.n
    BY <1>1
  <2>3. a \in BufferSet /\ a.first = 1 /\ a.last = 2
    BY <1>2, <2>1, <2>2
  <2>4. b \in BufferSet /\ b.first = 0 /\ b.last = 3
    BY <1>2, <2>1, <2>2
  <2>5. c \in BufferSet /\ c.first = 2 /\ c.last = 3
    BY <1>2, <2>1, <2>2
  <2>6. d \in BufferSet /\ d.first = 3 /\ d.last = 4
    BY <1>2, <2>1, <2>2
  <2> HIDE DEF a, b, c, d
  <2> QED
    BY <2>3, <2>4, <2>5, <2>6
<1>4. BuffersOf(p, s) = (IF s.packA THEN <<a>> ELSE <<>>) \o (IF s.packB THEN <<b>> ELSE <<>>)
        \o (IF ~s.fused /\ p.bias THEN <<c>> ELSE <<>>) \o (IF ~s.fused /\ p.relu THEN <<d>> ELSE <<>>)
  BY DEF BuffersOf
<1> HIDE DEF a, b, c, d
<1>5. PICK w, x, y, z : /\ w = (IF s.packA THEN <<a>> ELSE <<>>) /\ x = (IF s.packB THEN <<b>> ELSE <<>>)
                        /\ y = (IF ~s.fused /\ p.bias THEN <<c>> ELSE <<>>) /\ z = (IF ~s.fused /\ p.relu THEN <<d>> ELSE <<>>)
  OBVIOUS
<1>6. /\ w \in {<<>>, <<a>>} /\ x \in {<<>>, <<b>>} /\ y \in {<<>>, <<c>>} /\ z \in {<<>>, <<d>>}
  BY <1>5
<1>7. BuffersOf(p, s) = w \o x \o y \o z
  BY <1>4, <1>5
<1>8. OneMayFollow(w \o x \o y \o z)
  <2> DEFINE Ok(q) == OneMayFollow(q) 
  <2>1. ASSUME NEW q \in Seq(BufferSet), NEW e \in BufferSet, OneMayFollow(q),
               \A i \in DOMAIN q : (q[i].last < e.first => q[i].last = 2 /\ e.last = 4) /\ (e.last \in {2, 4} => q[i].last # e.last),
               e.last = 4 => e.first = 3
        PROVE  OneMayFollow(q \o <<e>>)
    <3> DEFINE r == q \o <<e>>
    <3>1. r \in Seq(BufferSet) /\ Len(r) = Len(q) + 1 /\ Len(q) \in Nat /\ r[Len(q) + 1] = e /\ \A i \in 1 .. Len(q) : r[i] = q[i]
      OBVIOUS
    <3>2. DOMAIN q = 1 .. Len(q) /\ DOMAIN r = 1 .. Len(q) + 1
      BY <3>1
    <3> HIDE DEF r
    <3>3. PICK n \in Nat : n = Len(q)
      BY <3>1
    <3>4. \A i \in DOMAIN r : (i = n + 1 /\ r[i] = e) \/ (i \in DOMAIN q /\ i < n + 1 /\ r[i] = q[i])
      BY <3>1, <3>2, <3>3
    <3>5. \A i, j \in DOMAIN r : i < j /\ r[i].last < r[j].first => r[i].last = 2 /\ r[j].last = 4
      <4> TAKE i, j \in DOMAIN r
      <4>1. i < j => i \in DOMAIN q /\ r[i] = q[i] /\ ((j = n + 1 /\ r[j] = e) \/ (j \in DOMAIN q /\ r[j] = q[j]))
        BY <3>2, <3>3, <3>4
      <4> QED
        BY <2>1, <4>1 DEF OneMayFollow
    <3>6. \A i, j \in DOMAIN r : r[i].last = r[j].last /\ r[i].last \in {2, 4} => i = j
      BY <2>1, <3>4 DEF OneMayFollow
    <3>7. \A i \in DOMAIN r : r[i].last = 4 => r[i].first = 3
      BY <2>1, <3>4 DEF OneMayFollow
    <3> QED
      BY <3>1, <3>5, <3>6, <3>7 DEF OneMayFollow, r
  <2>2. OneMayFollow(w) /\ w \in Seq(BufferSet) /\ \A i \in DOMAIN w : w[i].last = 2
    <3>1. OneMayFollow(<<>>) /\ <<>> \in Seq(BufferSet)
      BY DEF OneMayFollow
    <3>2. OneMayFollow(<<a>>) /\ <<a>> \in Seq(BufferSet) /\ <<a>>[1].last = 2 /\ DOMAIN <<a>> = {1}
      <4>1. <<a>> \in Seq(BufferSet) /\ <<a>>[1] = a /\ DOMAIN <<a>> = {1}
        BY <1>3
      <4> QED
        BY <1>3, <4>1 DEF OneMayFollow
    <3>3. CASE w = <<>>
      BY <3>1, <3>3
    <3>4. CASE w = <<a>>
      <4>1. \A i \in DOMAIN <<a>> : i = 1
        BY <3>2
      <4> QED
        BY <3>2, <3>4, <4>1
    <3> QED
      BY <1>6, <3>3, <3>4
  <2>3. ASSUME NEW q \in Seq(BufferSet), NEW e \in BufferSet, NEW L, \A i \in DOMAIN q : q[i].last \in L
        PROVE  q \o <<e>> \in Seq(BufferSet) /\ q \o <<>> = q /\ \A i \in DOMAIN (q \o <<e>>) : (q \o <<e>>)[i].last \in L \cup {e.last}
    <3>1. <<e>> \in Seq(BufferSet) /\ Len(<<e>>) = 1 /\ <<e>>[1] = e
      OBVIOUS
    <3>2. PICK o \in Seq(BufferSet) : o = <<e>>
      BY <3>1
    <3>3. /\ q \o o \in Seq(BufferSet) /\ Len(q \o o) = Len(q) + 1
          /\ \A i \in 1 .. Len(q) : (q \o o)[i] = q[i]
          /\ (q \o o)[Len(q) + 1] = e
      <4>1. /\ q \o o \in Seq(BufferSet) /\ Len(q \o o) = Len(q) + Len(o)
            /\ \A i \in 1 .. Len(q) : (q \o o)[i] = q[i]
            /\ \A i \in 1 .. Len(o) : (q \o o)[Len(q) + i] = o[i]
        BY Concatenation
      <4> QED
        BY <3>1, <3>2, <4>1
    <3>4. PICK r, n : r = q \o o /\ n = Len(q)
      OBVIOUS
    <3>5. n \in Nat /\ DOMAIN q = 1 .. n /\ DOMAIN r = 1 .. n + 1
      BY <3>3, <3>4
    <3>6. \A i \in DOMAIN r : r[i].last \in L \cup {e.last}
      <4> TAKE i \in DOMAIN r
      <4>1. i = n + 1 \/ i \in 1 .. n
        BY <3>5
      <4> QED
        BY <2>3, <3>3, <3>4, <3>5, <4>1
    <3>7. q \o <<>> = q
      OBVIOUS
    <3> QED
      BY <3>2, <3>3, <3>4, <3>6, <3>7
  <2>4. OneMayFollow(w \o x) /\ w \o x \in Seq(BufferSet) /\ \A i \in DOMAIN (w \o x) : (w \o x)[i].last \in {2, 3}
    <3>1. \A i \in DOMAIN w : w[i].last \in {2}
      BY <2>2
    <3>2. w \o <<b>> \in Seq(BufferSet) /\ w \o <<>> = w /\ \A i \in DOMAIN (w \o <<b>>) : (w \o <<b>>)[i].last \in {2} \cup {b.last}
      BY <1>3, <2>2, <2>3, <3>1
    <3>3. OneMayFollow(w \o <<b>>)
      BY <1>3, <2>1, <2>2
    <3>4. CASE x = <<>>
      <4>1. w \o x = w
        BY <3>2, <3>4
      <4> QED
        BY <2>2, <4>1
    <3>5. CASE x = <<b>>
      <4>1. PICK v : v = w \o <<b>>
        OBVIOUS
      <4>2. \A i \in DOMAIN v : v[i].last \in {2, 3}
        BY <1>3, <3>2, <4>1
      <4> QED
        BY <3>2, <3>3, <3>5, <4>1, <4>2
    <3> QED
      BY <1>6, <3>4, <3>5
  <2>5. PICK u : u = w \o x
    OBVIOUS
  <2>6. OneMayFollow(u \o y) /\ u \o y \in Seq(BufferSet) /\ \A i \in DOMAIN (u \o y) : (u \o y)[i].last \in {2, 3}
    <3>1. u \in Seq(BufferSet) /\ OneMayFollow(u) /\ \A i \in DOMAIN u : u[i].last \in {2, 3}
      BY <2>4, <2>5
    <3>2. u \o <<c>> \in Seq(BufferSet) /\ u \o <<>> = u /\ \A i \in DOMAIN (u \o <<c>>) : (u \o <<c>>)[i].last \in {2, 3} \cup {c.last}
      BY <1>3, <2>3, <3>1
    <3>3. \A i \in DOMAIN u : ~ (u[i].last < c.first) /\ c.last \notin {2, 4}
      BY <1>3, <3>1
    <3>4. OneMayFollow(u \o <<c>>)
      BY <1>3, <2>1, <3>1, <3>3
    <3> QED
      BY <1>3, <1>6, <3>1, <3>2, <3>4
  <2>7. PICK v : v = u \o y
    OBVIOUS
  <2>8. OneMayFollow(v \o z)
    <3>1. v \in Seq(BufferSet) /\ OneMayFollow(v) /\ \A i \in DOMAIN v : v[i].last \in {2, 3}
      BY <2>6, <2>7
    <3>2. v \o <<>> = v
      BY <3>1
    <3>3. OneMayFollow(v \o <<d>>)
      <4>1. \A i \in DOMAIN v : (v[i].last < d.first => v[i].last = 2 /\ d.last = 4) /\ (d.last \in {2, 4} => v[i].last # d.last)
        BY <1>3, <3>1
      <4> QED
        BY <1>3, <2>1, <3>1, <4>1
    <3> QED
      BY <1>6, <3>1, <3>2, <3>3
  <2> QED
    BY <2>5, <2>7, <2>8
<1> QED
  BY <1>7, <1>8

(* Buffers that are in use at the same time.                               *)
Apart(placed) ==
  \A i, j \in DOMAIN placed :
    i # j /\ placed[i].first <= placed[j].last /\ placed[j].first <= placed[i].last
      => \/ placed[i].offset + placed[i].bytes <= placed[j].offset
         \/ placed[j].offset + placed[j].bytes <= placed[i].offset

(* What the invariant of the arena says of any two buffers of it.          *)
LEMMA ArenaIsApart ==
  ASSUME NEW wanted, OneMayFollow(wanted), NEW arena \in ArenaSet,
         ArenaInv(wanted, Len(wanted), arena)
  PROVE  Apart(arena.placed)
<1>1. PICK n, placed : n = Len(wanted) /\ placed = arena.placed
  OBVIOUS
<1>2. n \in Nat /\ DOMAIN placed = 1 .. n /\ DOMAIN wanted = 1 .. n
  BY <1>1 DEF ArenaInv, ArenaSet, OneMayFollow
<1>3. \A i \in 1 .. n : /\ placed[i].offset \in Nat /\ placed[i].bytes \in Nat
                        /\ placed[i].first \in Nat /\ placed[i].last \in Nat
                        /\ placed[i].first = wanted[i].first /\ placed[i].last = wanted[i].last
  <2>1. \A i \in 1 .. n : placed[i] \in BufferSet
    BY <1>1, <1>2 DEF ArenaSet
  <2>2. \A i \in 1 .. n : placed[i].first = wanted[i].first /\ placed[i].last = wanted[i].last
    BY <1>1 DEF ArenaInv
  <2>3. \A x \in BufferSet : x.offset \in Nat /\ x.bytes \in Nat /\ x.first \in Nat /\ x.last \in Nat
    BY DEF BufferSet
  <2> QED
    BY <2>1, <2>2, <2>3
<1>4. \A j \in 1 .. n : IsFresh(placed, j) \/ IsReused(placed, j)
  BY <1>1 DEF ArenaInv
<1>5. ASSUME NEW i \in 1 .. n, NEW j \in 1 .. n, i < j,
             placed[i].first <= placed[j].last, placed[j].first <= placed[i].last
      PROVE  \/ placed[i].offset + placed[i].bytes <= placed[j].offset
             \/ placed[j].offset + placed[j].bytes <= placed[i].offset
  <2>1. CASE IsFresh(placed, j)
    <3>1. i \in 1 .. j - 1
      BY <1>2, <1>5
    <3> QED
      BY <2>1, <3>1 DEF IsFresh
  <2>2. CASE IsReused(placed, j)
    <3>1. PICK k \in 1 .. j - 1 : /\ placed[k].last = 2
                                  /\ placed[k].offset = placed[j].offset
                                  /\ placed[j].bytes <= placed[k].bytes
      BY <2>2 DEF IsReused
    <3>2. k \in 1 .. n /\ placed[j].last = 4 /\ placed[j].first = 3
      <4>1. k \in 1 .. n
        BY <1>2
      <4>2. placed[j].last = 4
        BY <2>2 DEF IsReused
      <4>3. wanted[j].last = 4 /\ j \in DOMAIN wanted
        BY <1>2, <1>3, <4>2
      <4>4. wanted[j].first = 3
        BY <4>3 DEF OneMayFollow
      <4> QED
        BY <1>3, <4>1, <4>2, <4>4
    <3>3. i # k /\ i # j
      BY <1>5, <3>1, <3>2
    <3>4. placed[i].last # 4
      <4>1. i \in DOMAIN wanted /\ j \in DOMAIN wanted
        BY <1>2
      <4>2. wanted[j].last = 4 /\ wanted[i].last = placed[i].last
        BY <1>3, <3>2
      <4> QED
        BY <3>3, <4>1, <4>2 DEF OneMayFollow
    <3>5. IsFresh(placed, i) /\ IsFresh(placed, k)
      BY <1>4, <3>1, <3>2, <3>4 DEF IsReused
    <3>6. CASE i < k
      <4>1. i \in 1 .. k - 1
        BY <1>2, <3>6
      <4> QED
        BY <3>1, <3>5, <4>1 DEF IsFresh
    <3>7. CASE k < i
      <4>1. k \in 1 .. i - 1
        BY <1>2, <3>2, <3>7
      <4>2. placed[k].offset + placed[k].bytes <= placed[i].offset
        BY <3>5, <4>1 DEF IsFresh
      <4>3. /\ placed[k].offset \in Nat /\ placed[k].bytes \in Nat /\ placed[i].offset \in Nat
            /\ placed[j].offset \in Nat /\ placed[j].bytes \in Nat
        BY <1>3, <3>2
      <4>4. placed[j].offset + placed[j].bytes <= placed[i].offset
        BY ONLY <3>1, <4>2, <4>3
      <4> QED
        BY <4>4
    <3> QED
      BY <1>2, <3>2, <3>3, <3>6, <3>7
  <2> QED
    BY <1>4, <2>1, <2>2
<1>6. Apart(placed)
  <2>1. \A i, j \in 1 .. n : i # j => i < j \/ j < i
    OBVIOUS
  <2> QED
    BY <1>2, <1>5, <2>1 DEF Apart
<1> QED
  BY <1>1, <1>6

(* So no plan has live buffers that overlap.                               *)
LEMMA PlansAreApart ==
  ASSUME NEW p, NEW s, p.m \in Nat, p.n \in Nat, s.mc \in Nat, s.kc \in Nat, s.nc \in Nat
  PROVE  Apart(PlanBuffers(p, s))
<1>1. PICK wanted : wanted = BuffersOf(p, s)
  OBVIOUS
<1>2. OneMayFollow(wanted)
  BY <1>1, WantedBuffers
<1>3. PICK f : f = CHOOSE g : ArenaSolves(g, wanted)
  OBVIOUS
<1>4. ArenaSolves(f, wanted)
  BY <1>2, <1>3, ArenasExist
<1>5. PlanBuffers(p, s) = f[Len(wanted)].placed
  BY <1>1, <1>3, PlanBuffersIs
<1>6. PICK n : n = Len(wanted)
  OBVIOUS
<1>7. n \in Nat
  BY <1>2, <1>6 DEF OneMayFollow
<1> DEFINE S == [i \in 0 .. n |-> {a \in ArenaSet : ArenaInv(wanted, i, a)}]
<1>8. f = [i \in 0 .. n |-> IF i = 0 THEN [placed |-> <<>>, end |-> 0] ELSE Allocate(f[i - 1], wanted[i])]
  BY <1>4, <1>6 DEF ArenaSolves
<1>9. f[0] \in S[0]
  <2>1. 0 \in 0 .. n
    BY <1>7
  <2>2. f[0] = [placed |-> <<>>, end |-> 0]
    BY <1>8, <2>1
  <2>3. f[0] \in ArenaSet /\ ArenaInv(wanted, 0, f[0])
    BY <2>2 DEF ArenaSet, ArenaInv
  <2> QED
    BY <2>1, <2>3
<1>10. \A i \in 1 .. n : f[i - 1] \in S[i - 1] => f[i] \in S[i]
  <2> TAKE i \in 1 .. n
  <2> HAVE f[i - 1] \in S[i - 1]
  <2>1. i - 1 \in 0 .. n /\ i \in 0 .. n /\ i # 0
    BY <1>7
  <2>2. f[i] = Allocate(f[i - 1], wanted[i])
    BY <1>8, <2>1
  <2>3. f[i - 1] \in ArenaSet /\ ArenaInv(wanted, i - 1, f[i - 1])
    BY <2>1
  <2>4. f[i] \in ArenaSet /\ ArenaInv(wanted, i, f[i])
    BY <1>2, <1>6, <2>2, <2>3, AllocateKeeps
  <2> QED
    BY <2>1, <2>4
<1>11. f[n] \in S[n]
  <2> HIDE DEF S
  <2>1. n \in 0 .. n
    BY <1>7
  <2> QED
    BY <1>7, <1>9, <1>10, <2>1, IterationStays
<1>12. f[n] \in ArenaSet /\ ArenaInv(wanted, n, f[n])
  BY <1>7, <1>11
<1> QED
  BY <1>2, <1>5, <1>6, <1>12, ArenaIsApart

(* The inductive invariant of the driver.  A schedule file holds nothing   *)
(* yet or the text of a schedule that was kept under its key, and so do    *)
(* the files that a process still has to write; a key tells the extents of *)
(* the problem; what a search has ranked and measured is of its own        *)
(* candidates.                                                             *)
KeptText(key, text, store) ==
  \E kept \in store : kept.key = key /\ text = PrintSchedule(kept.schedule)

StoreOk(store) ==
  \A kept \in store : /\ kept.schedule \in TiledSchedules
                      /\ SameExtents(kept.problem, kept.key)

FilesOk(directory, store) ==
  \A f \in DOMAIN directory :
    f.extension = "schedule" => directory[f] = <<>> \/ KeptText(f.key, directory[f], store)

WriteOk(u, store) == u.file.extension = "schedule" => KeptText(u.file.key, u.text, store)

WritesOk(state, writes, store) ==
  /\ \E T : writes \in Seq(T) /\ \A u \in T : WriteOk(u, store)
  /\ state = "writing" => writes # <<>>

RequestOk(req) ==
  /\ req.options \in Options /\ req.problem \in Tunable

RankingOk(req, times, order) ==
  /\ times \in [DOMAIN Candidates(req.options.threads) -> Times \cup {Wrong}]
  /\ Ranked(times, order)
  /\ \E n \in Nat \ {0} : order \in [1 .. n -> DOMAIN times]

MediansOk(req, order, measured) ==
  /\ measured \in [1 .. Finalists(order, req.options.topK) -> Int]
  /\ Best(measured) # 0

SearchOk(state, req, times, order, measured) ==
  /\ state \in {"tuning", "ranked", "tuned"} => RequestOk(req)
  /\ state \in {"ranked", "tuned"} => RankingOk(req, times, order)
  /\ state = "tuned" => MediansOk(req, order, measured)

PerProcess(f) == f = [q \in Processes |-> f[q]]

ShapeOk ==
  /\ PerProcess(pc) /\ PerProcess(request) /\ PerProcess(screening) /\ PerProcess(ranking)
  /\ PerProcess(medians) /\ PerProcess(unwritten) /\ PerProcess(buffers)

ProcessesOk ==
  \A q \in Processes : /\ SearchOk(pc[q], request[q], screening[q], ranking[q], medians[q])
                       /\ WritesOk(pc[q], unwritten[q], stored)
                       /\ Apart(buffers[q])

DriverInv ==
  /\ ShapeOk /\ ProcessesOk
  /\ StoreOk(stored) /\ FilesOk(files, stored) /\ HitsReplaySchedules

(* A schedule that was kept stays kept.                                    *)
LEMMA MoreIsStored ==
  ASSUME NEW store, NEW more, store \subseteq more
  PROVE  /\ \A key, text : KeptText(key, text, store) => KeptText(key, text, more)
         /\ \A directory : FilesOk(directory, store) => FilesOk(directory, more)
         /\ \A state, writes : WritesOk(state, writes, store) => WritesOk(state, writes, more)
<1>1. \A key, text : KeptText(key, text, store) => KeptText(key, text, more)
  BY DEF KeptText
<1>2. \A u : WriteOk(u, store) => WriteOk(u, more)
  BY <1>1 DEF WriteOk
<1> QED
  BY <1>1, <1>2 DEF FilesOk, WritesOk

(* The history of hits only needs more to be stored.                       *)
LEMMA HitsStay ==
  ASSUME HitsReplaySchedules, stored \subseteq stored', found' = found
  PROVE  HitsReplaySchedules'
BY DEF HitsReplaySchedules

(* A step of one process leaves the others what they are.                  *)
OnlyOf(q) ==
  \A r \in Processes \ {q} :
    /\ pc'[r] = pc[r] /\ request'[r] = request[r] /\ screening'[r] = screening[r]
    /\ ranking'[r] = ranking[r] /\ medians'[r] = medians[r] /\ unwritten'[r] = unwritten[r]
    /\ buffers'[r] = buffers[r]

LEMMA OthersStayOk ==
  ASSUME ProcessesOk, NEW q \in Processes, OnlyOf(q), stored \subseteq stored',
         SearchOk(pc'[q], request'[q], screening'[q], ranking'[q], medians'[q]),
         WritesOk(pc'[q], unwritten'[q], stored'), Apart(buffers'[q])
  PROVE  ProcessesOk'
<1>1. ASSUME NEW r \in Processes
      PROVE  /\ SearchOk(pc'[r], request'[r], screening'[r], ranking'[r], medians'[r])
             /\ WritesOk(pc'[r], unwritten'[r], stored') /\ Apart(buffers'[r])
  <2>1. CASE r = q
    BY <2>1
  <2>2. CASE r # q
    <3>1. /\ SearchOk(pc[r], request[r], screening[r], ranking[r], medians[r])
          /\ WritesOk(pc[r], unwritten[r], stored) /\ Apart(buffers[r])
      BY DEF ProcessesOk
    <3>2. /\ pc'[r] = pc[r] /\ request'[r] = request[r] /\ screening'[r] = screening[r]
          /\ ranking'[r] = ranking[r] /\ medians'[r] = medians[r] /\ unwritten'[r] = unwritten[r]
          /\ buffers'[r] = buffers[r]
      BY <2>2 DEF OnlyOf
    <3> QED
      BY <3>1, <3>2, MoreIsStored
  <2> QED
    BY <2>1, <2>2
<1> QED
  BY <1>1 DEF ProcessesOk

(* The invariant, action by action.                                        *)
LEMMA DriverStarts ==
  ASSUME DriverInit PROVE DriverInv
<1>1. ShapeOk
  BY DEF DriverInit, ShapeOk, PerProcess
<1>2. ASSUME NEW q \in Processes
      PROVE  /\ SearchOk(pc[q], request[q], screening[q], ranking[q], medians[q])
             /\ WritesOk(pc[q], unwritten[q], stored) /\ Apart(buffers[q])
  <2>1. pc[q] = "idle" /\ unwritten[q] = <<>> /\ buffers[q] = <<>>
    BY DEF DriverInit, Nothing
  <2>2. <<>> \in Seq({}) /\ DOMAIN <<>> = {}
    OBVIOUS
  <2> QED
    BY <2>1, <2>2 DEF SearchOk, WritesOk, Apart
<1>3. stored = {} /\ found = {} /\ files = <<>>
  BY DEF DriverInit, Nothing
<1>4. StoreOk(stored) /\ FilesOk(files, stored) /\ HitsReplaySchedules
  BY <1>3 DEF StoreOk, FilesOk, HitsReplaySchedules
<1> QED
  BY <1>1, <1>2, <1>4 DEF DriverInv, ProcessesOk

(* The extents of a bucket are positive, and so are those of every graph.  *)
LEMMA BucketIsPositive ==
  ASSUME NEW extent \in Nat \ {0}
  PROVE  Bucket(extent) \in Nat \ {0}
<1> DEFINE fitting == {i \in DOMAIN Buckets : extent <= Buckets[i]}
<1>1. CASE fitting = {}
  BY <1>1 DEF Bucket
<1>2. CASE fitting # {}
  <2>1. \A i \in fitting : Buckets[i] \in Nat /\ extent <= Buckets[i] /\ i \in Nat
    BY DriverAssumption
  <2>2. PICK least \in fitting : \A j \in fitting : least <= j
    <3>1. fitting \subseteq Nat
      BY <2>1
    <3> HIDE DEF fitting
    <3>2. PICK least \in fitting : \A j \in fitting : ~ (<<j, least>> \in OpToRel(<, Nat))
      BY <1>2, <3>1, NatLessThanWellFounded, WFMin
    <3>3. \A j \in fitting : least <= j
      <4> SUFFICES ASSUME NEW j \in fitting, ~ (least <= j) PROVE FALSE
        OBVIOUS
      <4>1. j \in Nat /\ least \in Nat /\ j < least
        BY <3>1
      <4> QED
        BY <3>2, <4>1 DEF OpToRel
    <3> QED
      BY <3>3
  <2>3. PICK i : i = CHOOSE f \in fitting : \A j \in fitting : f <= j
    OBVIOUS
  <2>4. i \in fitting
    BY <2>2, <2>3
  <2>5. Bucket(extent) = Buckets[i]
    BY <1>2, <2>3 DEF Bucket
  <2> QED
    BY <2>1, <2>4, <2>5
<1> QED
  BY <1>1, <1>2

LEMMA TunableType ==
  ASSUME NEW p \in Tunable
  PROVE  {p.m, p.n, p.k} \subseteq Nat \ {0}
<1>1. ASSUME NEW shape \in Shapes
      PROVE  shape[1] \in Nat \ {0} /\ shape[2] \in Nat \ {0} /\ shape[3] \in Nat \ {0}
  BY DriverAssumption
<1>2. ASSUME NEW shape \in Shapes, NEW epilogue \in Epilogues, p = Given(shape, epilogue)
      PROVE  {p.m, p.n, p.k} \subseteq Nat \ {0}
  BY <1>1, <1>2 DEF Given, ProblemOf
<1>3. ASSUME NEW shape \in Shapes, p = Dispatched(shape)
      PROVE  {p.m, p.n, p.k} \subseteq Nat \ {0}
  <2>1. Bucket(shape[1]) \in Nat \ {0} /\ Bucket(shape[2]) \in Nat \ {0} /\ Bucket(shape[3]) \in Nat \ {0}
    BY <1>1, BucketIsPositive
  <2> QED
    BY <1>3, <2>1 DEF Dispatched, ProblemOf
<1> QED
  BY <1>2, <1>3 DEF Tunable, Graphs

LEMMA CompileKeepsInv ==
  ASSUME DriverInv, NEW q \in Processes, NEW p \in Graphs, NEW s \in Requested, Compile(q, p, s)
  PROVE  DriverInv'
<1>1. p.m \in Nat /\ p.n \in Nat
  BY TunableType DEF Tunable
<1>2. s \in TiledSchedules /\ s.mc \in Nat /\ s.nc \in Nat /\ s.kc \in Nat
  BY RequestAssumption DEF TiledSchedules
<1> DEFINE kept == [problem |-> p, key |-> Key(p, s), schedule |-> s]
           u == [file |-> File(Key(p, s), "schedule"), text |-> PrintSchedule(s)]
           v == [file |-> File(Key(p, s), "ll"), text |-> <<ApplySchedule(p, s)>>]
           w == [file |-> File(Key(p, s), "loopir"), text |-> <<ApplySchedule(p, s)>>]
<1>3. /\ pc' = [pc EXCEPT ![q] = "writing"]
      /\ buffers' = [buffers EXCEPT ![q] = PlanBuffers(p, s)]
      /\ unwritten' = [unwritten EXCEPT ![q] = <<u, v, w>>]
      /\ stored' = stored \cup {kept}
      /\ UNCHANGED <<files, request, screening, ranking, medians, found>>
  BY DEF Compile, search
<1>4. u.file.key = Key(p, s) /\ u.text = PrintSchedule(s)
  BY DEF File
<1>5. v.file.extension # "schedule" /\ w.file.extension # "schedule"
  BY DEF File
<1>6. /\ kept.schedule = s /\ kept.key = Key(p, s) /\ kept.problem = p
      /\ kept.key.m = p.m /\ kept.key.n = p.n /\ kept.key.k = p.k
  BY DEF Key
<1> HIDE DEF kept, u, v, w
<1>7. ShapeOk'
  BY <1>3 DEF DriverInv, ShapeOk, PerProcess
<1>8. StoreOk(stored')
  BY <1>2, <1>3, <1>6 DEF DriverInv, StoreOk, SameExtents
<1>9. FilesOk(files', stored') /\ HitsReplaySchedules' /\ stored \subseteq stored'
  <2>1. stored \subseteq stored' /\ found' = found /\ files' = files
    BY <1>3
  <2> QED
    BY <2>1, MoreIsStored, HitsStay DEF DriverInv
<1>10. WritesOk("writing", <<u, v, w>>, stored')
  <2>1. KeptText(u.file.key, u.text, stored')
    BY <1>3, <1>4, <1>6 DEF KeptText
  <2>2. \A x \in {u, v, w} : WriteOk(x, stored')
    BY <1>5, <2>1 DEF WriteOk
  <2>3. <<u, v, w>> \in Seq({u, v, w}) /\ <<u, v, w>> # <<>>
    OBVIOUS
  <2>4. PICK T, writes : T = {u, v, w} /\ writes = <<u, v, w>>
    OBVIOUS
  <2>5. writes \in Seq(T) /\ writes # <<>> /\ \A x \in T : WriteOk(x, stored')
    BY <2>2, <2>3, <2>4
  <2>6. WritesOk("writing", writes, stored')
    BY <2>5 DEF WritesOk
  <2> QED
    BY <2>4, <2>6
<1>11. Apart(PlanBuffers(p, s))
  BY <1>1, <1>2, PlansAreApart
<1>12. OnlyOf(q) /\ pc'[q] = "writing" /\ buffers'[q] = PlanBuffers(p, s) /\ unwritten'[q] = <<u, v, w>>
  BY <1>3 DEF DriverInv, ShapeOk, PerProcess, OnlyOf
<1>13. SearchOk(pc'[q], request'[q], screening'[q], ranking'[q], medians'[q])
  BY <1>12 DEF SearchOk
<1>14. ProcessesOk'
  BY <1>9, <1>10, <1>11, <1>12, <1>13, OthersStayOk DEF DriverInv
<1> QED
  BY <1>7, <1>8, <1>9, <1>14 DEF DriverInv

LEMMA TuneKeepsInv ==
  ASSUME DriverInv, NEW q \in Processes, NEW p \in Tunable, NEW options \in Options,
         Tune(q, p, options)
  PROVE  DriverInv'
<1>1. PICK key : key = TuningKey(p, options)
  OBVIOUS
<1>2. key.m = p.m /\ key.n = p.n /\ key.k = p.k
  BY <1>1 DEF TuningKey, Key
<1>3. PICK file : file = File(key, "schedule")
  OBVIOUS
<1>4. file.key = key /\ file.extension = "schedule"
  BY <1>3 DEF File
<1>5. UNCHANGED <<files, screening, ranking, medians, unwritten, buffers, stored>>
  BY DEF Tune
<1>6. StoreOk(stored') /\ FilesOk(files', stored') /\ stored \subseteq stored'
  BY <1>5 DEF DriverInv
<1>7. CASE file \in DOMAIN files
  <2> DEFINE hit == [problem |-> p, key |-> file.key, text |-> files[file],
                     schedule |-> ParseSchedule(files[file])]
  <2>1. found' = found \cup {hit} /\ UNCHANGED <<pc, request>>
    BY <1>1, <1>3, <1>7 DEF Tune
  <2>2. \/ hit.text = <<>> /\ hit.schedule = DefaultSchedule
        \/ \E kept \in stored : /\ kept.key = hit.key /\ SameExtents(kept.problem, hit.problem)
                                /\ hit.schedule = kept.schedule
    <3>1. files[file] = <<>> \/ KeptText(key, files[file], stored)
      BY <1>4, <1>7 DEF DriverInv, FilesOk
    <3>2. hit.problem = p /\ hit.key = key /\ hit.text = files[file] /\ hit.schedule = ParseSchedule(files[file])
      BY <1>4
    <3> HIDE DEF hit
    <3>3. CASE files[file] = <<>>
      BY <3>2, <3>3, EmptyTextIsDefault
    <3>4. CASE KeptText(key, files[file], stored)
      <4>1. PICK kept \in stored : kept.key = key /\ files[file] = PrintSchedule(kept.schedule)
        BY <3>4 DEF KeptText
      <4>2. kept.schedule \in TiledSchedules /\ SameExtents(kept.problem, key)
        BY <4>1 DEF DriverInv, StoreOk
      <4>3. SameExtents(kept.problem, p)
        BY <1>2, <4>2 DEF SameExtents
      <4> QED
        BY <3>2, <4>1, <4>2, <4>3, TextKeepsSchedule
    <3> QED
      BY <3>1, <3>3, <3>4
  <2> HIDE DEF hit
  <2>3. HitsReplaySchedules'
    <3>1. stored' = stored
      BY <1>5
    <3>2. ASSUME NEW h \in found'
          PROVE  \/ h.text = <<>> /\ h.schedule = DefaultSchedule
                 \/ \E kept \in stored :
                      /\ kept.key = h.key /\ SameExtents(kept.problem, h.problem)
                      /\ h.schedule = kept.schedule
      <4>1. CASE h \in found
        BY <4>1 DEF DriverInv, HitsReplaySchedules
      <4>2. CASE h = hit
        BY <2>2, <4>2
      <4> QED
        BY <2>1, <4>1, <4>2
    <3> QED
      BY <3>1, <3>2 DEF HitsReplaySchedules
  <2>4. ShapeOk' /\ ProcessesOk'
    <3>1. UNCHANGED <<pc, request, screening, ranking, medians, unwritten, buffers, stored>>
      BY <1>5, <2>1
    <3> QED
      BY <3>1 DEF DriverInv, ShapeOk, PerProcess, ProcessesOk
  <2> QED
    BY <1>6, <2>3, <2>4 DEF DriverInv
<1>8. CASE file \notin DOMAIN files
  <2>1. /\ pc' = [pc EXCEPT ![q] = "tuning"]
        /\ request' = [request EXCEPT ![q] = [problem |-> p, options |-> options]]
        /\ found' = found
    BY <1>1, <1>3, <1>8 DEF Tune
  <2>2. ShapeOk'
    BY <1>5, <2>1 DEF DriverInv, ShapeOk, PerProcess
  <2>3. HitsReplaySchedules'
    BY <1>6, <2>1, HitsStay DEF DriverInv
  <2>4. OnlyOf(q) /\ pc'[q] = "tuning" /\ request'[q] = [problem |-> p, options |-> options]
        /\ buffers'[q] = buffers[q] /\ unwritten'[q] = unwritten[q]
    BY <1>5, <2>1 DEF DriverInv, ShapeOk, PerProcess, OnlyOf
  <2>5. SearchOk(pc'[q], request'[q], screening'[q], ranking'[q], medians'[q])
    BY <2>4 DEF SearchOk, RequestOk
  <2>6. WritesOk(pc'[q], unwritten'[q], stored') /\ Apart(buffers'[q])
    BY <1>5, <2>4 DEF DriverInv, ProcessesOk, WritesOk
  <2>7. ProcessesOk'
    BY <1>6, <2>4, <2>5, <2>6, OthersStayOk DEF DriverInv
  <2> QED
    BY <1>6, <2>2, <2>3, <2>7 DEF DriverInv
<1> QED
  BY <1>7, <1>8

(* The end of a search.                                                    *)
LEMMA EndKeepsInv ==
  ASSUME DriverInv, NEW q \in Processes, pc' = [pc EXCEPT ![q] = "idle"], EndSearch(q),
         UNCHANGED <<files, unwritten, buffers, stored, found>>
  PROVE  DriverInv'
<1>1. /\ request' = [request EXCEPT ![q] = Nothing] /\ screening' = [screening EXCEPT ![q] = Nothing]
      /\ ranking' = [ranking EXCEPT ![q] = Nothing] /\ medians' = [medians EXCEPT ![q] = Nothing]
  BY DEF EndSearch
<1>2. ShapeOk'
  BY <1>1 DEF DriverInv, ShapeOk, PerProcess
<1>3. OnlyOf(q) /\ pc'[q] = "idle"
  BY <1>1 DEF DriverInv, ShapeOk, PerProcess, OnlyOf
<1>4. SearchOk(pc'[q], request'[q], screening'[q], ranking'[q], medians'[q])
  BY <1>3 DEF SearchOk
<1>5. WritesOk(pc'[q], unwritten'[q], stored') /\ Apart(buffers'[q])
  BY <1>3 DEF DriverInv, ProcessesOk, WritesOk
<1>6. ProcessesOk'
  BY <1>3, <1>4, <1>5, OthersStayOk DEF DriverInv
<1>7. StoreOk(stored') /\ FilesOk(files', stored') /\ HitsReplaySchedules'
  BY HitsStay DEF DriverInv
<1> QED
  BY <1>2, <1>6, <1>7 DEF DriverInv

LEMMA ScreenKeepsInv ==
  ASSUME DriverInv, NEW q \in Processes, Screen(q)
  PROVE  DriverInv'
<1>1. pc[q] = "tuning" /\ UNCHANGED <<files, unwritten, buffers, stored, found>>
  BY DEF Screen
<1>2. RequestOk(request[q])
  BY <1>1 DEF DriverInv, ProcessesOk, SearchOk
<1>3. PICK candidates : candidates = Candidates(request[q].options.threads)
  OBVIOUS
<1>4. CandidatesFor[request[q].options.threads] = candidates
  BY <1>2, <1>3 DEF RequestOk, CandidatesFor
<1>5. candidates \in Seq(TiledSchedules)
  BY <1>3, CandidatesType
<1>6. PICK k \in Nat : DOMAIN candidates = 1 .. k
  BY <1>5, DomainIs
<1>7. PICK times \in [1 .. k -> Times \cup {Wrong}] :
       \/ /\ pc' = [pc EXCEPT ![q] = "idle"]
          /\ EndSearch(q)
       \/ \E order \in UNION {[1 .. n -> DOMAIN times] : n \in DOMAIN times} :
            /\ Ranked(times, order)
            /\ pc' = [pc EXCEPT ![q] = "ranked"]
            /\ screening' = [screening EXCEPT ![q] = times]
            /\ ranking' = [ranking EXCEPT ![q] = order]
            /\ UNCHANGED <<request, medians>>
  BY <1>4, <1>6 DEF Screen
<1>8. CASE pc' = [pc EXCEPT ![q] = "idle"] /\ EndSearch(q)
  BY <1>1, <1>8, EndKeepsInv
<1>9. ASSUME NEW order \in UNION {[1 .. n -> DOMAIN times] : n \in DOMAIN times},
             Ranked(times, order),
             pc' = [pc EXCEPT ![q] = "ranked"],
             screening' = [screening EXCEPT ![q] = times],
             ranking' = [ranking EXCEPT ![q] = order],
             UNCHANGED <<request, medians>>
      PROVE  DriverInv'
  <2>1. ShapeOk'
    BY <1>1, <1>9 DEF DriverInv, ShapeOk, PerProcess
  <2>2. /\ OnlyOf(q) /\ pc'[q] = "ranked" /\ request'[q] = request[q]
        /\ screening'[q] = times /\ ranking'[q] = order
    BY <1>1, <1>9 DEF DriverInv, ShapeOk, PerProcess, OnlyOf
  <2>3. PICK n \in 1 .. k : order \in [1 .. n -> DOMAIN times]
    <3>1. DOMAIN times = 1 .. k
      OBVIOUS
    <3>2. \E n \in DOMAIN times : order \in [1 .. n -> DOMAIN times]
      BY Zenon
    <3> QED
      BY <3>1, <3>2
  <2>4. RankingOk(request[q], times, order)
    <3>1. n \in Nat \ {0}
      OBVIOUS
    <3> QED
      BY <1>3, <1>6, <1>9, <2>3, <3>1 DEF RankingOk
  <2>5. SearchOk(pc'[q], request'[q], screening'[q], ranking'[q], medians'[q])
    BY <1>2, <2>2, <2>4 DEF SearchOk
  <2>6. WritesOk(pc'[q], unwritten'[q], stored') /\ Apart(buffers'[q])
    BY <1>1, <2>2 DEF DriverInv, ProcessesOk, WritesOk
  <2>7. ProcessesOk'
    BY <1>1, <2>2, <2>5, <2>6, OthersStayOk DEF DriverInv
  <2>8. StoreOk(stored') /\ FilesOk(files', stored') /\ HitsReplaySchedules'
    BY <1>1, HitsStay DEF DriverInv
  <2> QED
    BY <2>1, <2>7, <2>8 DEF DriverInv
<1> QED
  BY <1>7, <1>8, <1>9

(* The finalists are slots of the ranking.                                 *)
LEMMA FinalistsType ==
  ASSUME NEW n \in Nat \ {0}, NEW order, Len(order) = n, NEW topK \in Int
  PROVE  Finalists(order, topK) \in 1 .. n
BY DEF Finalists, Least, Greatest

LEMMA MeasureKeepsInv ==
  ASSUME DriverInv, NEW q \in Processes, Measure(q)
  PROVE  DriverInv'
<1>1. pc[q] = "ranked" /\ UNCHANGED <<files, unwritten, buffers, stored, found>>
  BY DEF Measure
<1>2. RequestOk(request[q]) /\ RankingOk(request[q], screening[q], ranking[q])
  BY <1>1 DEF DriverInv, ProcessesOk, SearchOk
<1>3. PICK k : k = Finalists(ranking[q], request[q].options.topK)
  OBVIOUS
<1>4. k \in Nat
  <2>1. PICK n \in Nat \ {0} : ranking[q] \in [1 .. n -> DOMAIN screening[q]]
    BY <1>2 DEF RankingOk
  <2>2. Len(ranking[q]) = n
    BY <2>1
  <2>3. request[q].options.topK \in Int
    BY <1>2, DriverAssumption DEF RequestOk
  <2> QED
    BY <1>3, <2>2, <2>3, FinalistsType
<1>5. PICK right \in [1 .. k -> BOOLEAN], samples \in [1 .. k -> [1 .. Repetitions -> Times]] :
        LET measured == [f \in 1 .. k |-> IF right[f] THEN Median(samples[f]) ELSE Wrong]
        IN \/ /\ pc' = [pc EXCEPT ![q] = "idle"]
              /\ EndSearch(q)
           \/ /\ Best(measured) # 0
              /\ pc' = [pc EXCEPT ![q] = "tuned"]
              /\ medians' = [medians EXCEPT ![q] = measured]
              /\ UNCHANGED <<request, screening, ranking>>
  BY <1>3, Zenon DEF Measure
<1>6. PICK measured : measured = [f \in 1 .. k |-> IF right[f] THEN Median(samples[f]) ELSE Wrong]
  OBVIOUS
<1>7. measured \in [1 .. k -> Int]
  <2>1. ASSUME NEW f \in 1 .. k PROVE (IF right[f] THEN Median(samples[f]) ELSE Wrong) \in Int
    <3>1. samples[f] \in [1 .. Repetitions -> Times] /\ Repetitions \in Nat \ {0} /\ Times \subseteq Nat
      BY DriverAssumption
    <3>2. Median(samples[f]) \in Times
      BY <3>1, MedianType
    <3>3. Wrong \in Int
      BY DEF Wrong
    <3>4. PICK x : x = Median(samples[f])
      OBVIOUS
    <3>5. Times \subseteq Nat /\ x \in Times
      BY <3>1, <3>2, <3>4, Zenon
    <3>6. x \in Int
      BY ONLY <3>5
    <3> QED
      BY ONLY <3>3, <3>4, <3>6
  <2> QED
    BY <1>6, <2>1
<1>8. CASE pc' = [pc EXCEPT ![q] = "idle"] /\ EndSearch(q)
  BY <1>1, <1>8, EndKeepsInv
<1>9. ASSUME Best(measured) # 0,
             pc' = [pc EXCEPT ![q] = "tuned"],
             medians' = [medians EXCEPT ![q] = measured],
             UNCHANGED <<request, screening, ranking>>
      PROVE  DriverInv'
  <2>1. ShapeOk'
    BY <1>1, <1>9 DEF DriverInv, ShapeOk, PerProcess
  <2>2. /\ OnlyOf(q) /\ pc'[q] = "tuned" /\ request'[q] = request[q]
        /\ screening'[q] = screening[q] /\ ranking'[q] = ranking[q] /\ medians'[q] = measured
    BY <1>1, <1>9 DEF DriverInv, ShapeOk, PerProcess, OnlyOf
  <2>3. MediansOk(request[q], ranking[q], measured)
    BY <1>3, <1>7, <1>9 DEF MediansOk
  <2>4. SearchOk(pc'[q], request'[q], screening'[q], ranking'[q], medians'[q])
    BY <1>2, <2>2, <2>3 DEF SearchOk
  <2>5. WritesOk(pc'[q], unwritten'[q], stored') /\ Apart(buffers'[q])
    BY <1>1, <2>2 DEF DriverInv, ProcessesOk, WritesOk
  <2>6. ProcessesOk'
    BY <1>1, <2>2, <2>4, <2>5, OthersStayOk DEF DriverInv
  <2>7. StoreOk(stored') /\ FilesOk(files', stored') /\ HitsReplaySchedules'
    BY <1>1, HitsStay DEF DriverInv
  <2> QED
    BY <2>1, <2>6, <2>7 DEF DriverInv
<1> QED
  BY <1>5, <1>6, <1>8, <1>9

(* What a search that has measured its finalists knows.                    *)
LEMMA WinnerIs ==
  ASSUME DriverInv, NEW q \in Processes, pc[q] = "tuned"
  PROVE  /\ \E k \in Nat : /\ DOMAIN medians[q] = 1 .. k
                           /\ medians[q] \in [1 .. k -> Int]
                           /\ BestOfFirst(medians[q], k, Best(medians[q]))
                           /\ \E n \in Nat : k <= n /\ DOMAIN ranking[q] = 1 .. n
         /\ Best(medians[q]) \in DOMAIN medians[q]
         /\ Best(medians[q]) \in DOMAIN ranking[q]
         /\ Winner(q) \in DOMAIN Candidates(request[q].options.threads)
<1>1. /\ RequestOk(request[q]) /\ RankingOk(request[q], screening[q], ranking[q])
      /\ MediansOk(request[q], ranking[q], medians[q])
  BY DEF DriverInv, ProcessesOk, SearchOk
<1>2. PICK n \in Nat \ {0} : ranking[q] \in [1 .. n -> DOMAIN screening[q]]
  BY <1>1 DEF RankingOk
<1>3. PICK k : k = Finalists(ranking[q], request[q].options.topK)
  OBVIOUS
<1>4. k \in 1 .. n
  <2>1. Len(ranking[q]) = n
    BY <1>2
  <2>2. request[q].options.topK \in Int
    BY <1>1, DriverAssumption DEF RequestOk
  <2> QED
    BY <1>3, <2>1, <2>2, FinalistsType
<1>5. medians[q] \in [1 .. k -> Int] /\ Best(medians[q]) # 0
  BY <1>1, <1>3 DEF MediansOk
<1>6. PICK b : b = Best(medians[q])
  OBVIOUS
<1>7. BestOfFirst(medians[q], k, b)
  <2>1. k \in Nat
    BY <1>4
  <2> QED
    BY <1>5, <1>6, <2>1, BestIsBest
<1>8. b \in 1 .. k /\ b \in 1 .. n
  BY <1>4, <1>5, <1>6, <1>7 DEF BestOfFirst
<1>9. DOMAIN medians[q] = 1 .. k /\ DOMAIN ranking[q] = 1 .. n /\ k \in Nat /\ n \in Nat /\ k <= n
  BY <1>2, <1>4, <1>5
<1>10. Winner(q) \in DOMAIN screening[q]
  BY <1>2, <1>6, <1>8 DEF Winner
<1>11. DOMAIN screening[q] = DOMAIN Candidates(request[q].options.threads)
  BY <1>1 DEF RankingOk
<1> QED
  BY <1>5, <1>6, <1>7, <1>8, <1>9, <1>10, <1>11

LEMMA KeepKeepsInv ==
  ASSUME DriverInv, NEW q \in Processes, Keep(q)
  PROVE  DriverInv'
<1>1. pc[q] = "tuned"
  BY DEF Keep
<1>2. RequestOk(request[q])
  BY <1>1 DEF DriverInv, ProcessesOk, SearchOk
<1>3. PICK p, key, best : /\ p = request[q].problem
                          /\ key = TuningKey(request[q].problem, request[q].options)
                          /\ best = CandidatesFor[request[q].options.threads][Winner(q)]
  OBVIOUS
<1>4. best \in TiledSchedules
  <2>1. PICK candidates : candidates = Candidates(request[q].options.threads)
    OBVIOUS
  <2>2. CandidatesFor[request[q].options.threads] = candidates
    BY <1>2, <2>1 DEF RequestOk, CandidatesFor
  <2>3. Winner(q) \in DOMAIN candidates /\ candidates \in Seq(TiledSchedules)
    BY <1>1, <2>1, WinnerIs, CandidatesType
  <2>4. candidates[Winner(q)] \in TiledSchedules
    BY <2>3, DomainIs
  <2> QED
    BY <1>3, <2>2, <2>4
<1> DEFINE u == [file |-> File(key, "schedule"), text |-> PrintSchedule(best)]
           kept == [problem |-> p, key |-> key, schedule |-> best]
<1>5. /\ pc' = [pc EXCEPT ![q] = "writing"]
      /\ unwritten' = [unwritten EXCEPT ![q] = <<u>>]
      /\ stored' = stored \cup {kept}
      /\ request' = [request EXCEPT ![q] = Nothing] /\ screening' = [screening EXCEPT ![q] = Nothing]
      /\ ranking' = [ranking EXCEPT ![q] = Nothing] /\ medians' = [medians EXCEPT ![q] = Nothing]
      /\ UNCHANGED <<files, buffers, found>>
  BY <1>3 DEF Keep, EndSearch
<1>6. u.file.key = key /\ u.text = PrintSchedule(best)
  BY DEF File
<1>7. kept.schedule = best /\ kept.key = key /\ kept.problem = p
  OBVIOUS
<1>8. SameExtents(p, key)
  BY <1>3 DEF SameExtents, TuningKey, Key
<1> HIDE DEF u, kept
<1>9. ShapeOk'
  BY <1>5 DEF DriverInv, ShapeOk, PerProcess
<1>10. StoreOk(stored')
  BY <1>4, <1>5, <1>7, <1>8 DEF DriverInv, StoreOk
<1>11. FilesOk(files', stored') /\ HitsReplaySchedules' /\ stored \subseteq stored'
  <2>1. stored \subseteq stored' /\ found' = found /\ files' = files
    BY <1>5
  <2> QED
    BY <2>1, MoreIsStored, HitsStay DEF DriverInv
<1>12. WritesOk("writing", <<u>>, stored')
  <2>1. KeptText(u.file.key, u.text, stored')
    BY <1>5, <1>6, <1>7 DEF KeptText
  <2>2. PICK T, writes : T = {u} /\ writes = <<u>>
    OBVIOUS
  <2>3. writes \in Seq(T) /\ writes # <<>>
    BY <2>2
  <2>4. \A x \in T : WriteOk(x, stored')
    BY <2>1, <2>2 DEF WriteOk
  <2>5. WritesOk("writing", writes, stored')
    BY <2>3, <2>4 DEF WritesOk
  <2> QED
    BY <2>2, <2>5
<1>13. OnlyOf(q) /\ pc'[q] = "writing" /\ unwritten'[q] = <<u>> /\ buffers'[q] = buffers[q]
  BY <1>5 DEF DriverInv, ShapeOk, PerProcess, OnlyOf
<1>14. SearchOk(pc'[q], request'[q], screening'[q], ranking'[q], medians'[q])
  BY <1>13 DEF SearchOk
<1>15. Apart(buffers'[q])
  BY <1>13 DEF DriverInv, ProcessesOk
<1>16. ProcessesOk'
  BY <1>11, <1>12, <1>13, <1>14, <1>15, OthersStayOk DEF DriverInv
<1> QED
  BY <1>9, <1>10, <1>11, <1>16 DEF DriverInv

LEMMA OpenKeepsInv ==
  ASSUME DriverInv, NEW q \in Processes, Open(q)
  PROVE  DriverInv'
<1>1. UNCHANGED <<pc, request, screening, ranking, medians, unwritten, buffers, stored, found>>
  BY DEF Open, search
<1>2. PICK file : file = Head(unwritten[q]).file
  OBVIOUS
<1>3. files' = [f \in {file} \cup DOMAIN files |-> IF f = file THEN <<>> ELSE files[f]]
  BY <1>2 DEF Open
<1>4. DOMAIN files' = {file} \cup DOMAIN files
      /\ \A f \in DOMAIN files' : files'[f] = IF f = file THEN <<>> ELSE files[f]
  BY <1>3
<1>5. FilesOk(files', stored')
  BY <1>1, <1>4 DEF DriverInv, FilesOk
<1>6. HitsReplaySchedules' /\ StoreOk(stored')
  BY <1>1, HitsStay DEF DriverInv
<1>7. ShapeOk' /\ ProcessesOk'
  BY <1>1 DEF DriverInv, ShapeOk, PerProcess, ProcessesOk
<1> QED
  BY <1>5, <1>6, <1>7 DEF DriverInv

LEMMA CloseKeepsInv ==
  ASSUME DriverInv, NEW q \in Processes, Close(q)
  PROVE  DriverInv'
<1>1. /\ pc[q] = "writing"
      /\ UNCHANGED <<request, screening, ranking, medians, stored, found>>
  BY DEF Close, search
<1>2. PICK writes : writes = unwritten[q]
  OBVIOUS
<1>3. /\ files' = [files EXCEPT ![Head(writes).file] = Head(writes).text]
      /\ unwritten' = [unwritten EXCEPT ![q] = Tail(writes)]
      /\ pc' = [pc EXCEPT ![q] = IF Len(writes) = 1 THEN "idle" ELSE "writing"]
      /\ buffers' = [buffers EXCEPT ![q] = IF Len(writes) = 1 THEN Nothing ELSE buffers[q]]
  BY <1>2 DEF Close
<1>4. WritesOk("writing", writes, stored) /\ Apart(buffers[q])
  BY <1>1, <1>2 DEF DriverInv, ProcessesOk
<1>5. PICK T : writes \in Seq(T) /\ writes # <<>> /\ \A x \in T : WriteOk(x, stored)
  BY <1>4 DEF WritesOk
<1>6. Head(writes) \in T /\ Tail(writes) \in Seq(T) /\ (Len(writes) # 1 => Tail(writes) # <<>>)
  <2>1. /\ Head(writes) \in T /\ Tail(writes) \in Seq(T) /\ Len(writes) \in Nat \ {0}
        /\ Len(Tail(writes)) = Len(writes) - 1
    BY <1>5, HeadAndTail
  <2>2. ASSUME Tail(writes) = <<>> PROVE Len(writes) = 1
    <3>1. PICK t : t = Tail(writes)
      OBVIOUS
    <3>2. PICK n : n = Len(t)
      OBVIOUS
    <3>3. PICK l : l = Len(writes)
      OBVIOUS
    <3>4. t = <<>> /\ n = l - 1 /\ l \in Nat
      BY ONLY <2>1, <2>2, <3>1, <3>2, <3>3, Zenon
    <3>5. n = 0
      BY ONLY <3>2, <3>4
    <3>6. l = 1
      BY ONLY <3>4, <3>5
    <3> QED
      BY ONLY <3>3, <3>6, Zenon
  <2> QED
    BY <2>1, <2>2
<1>7. FilesOk(files', stored')
  <2>1. WriteOk(Head(writes), stored)
    BY <1>5, <1>6
  <2>2. PICK u : u = Head(writes)
    OBVIOUS
  <2>3. DOMAIN files' = DOMAIN files
        /\ \A f \in DOMAIN files : files'[f] = IF f = u.file THEN u.text ELSE files[f]
    BY <1>3, <2>2
  <2> QED
    BY <1>1, <2>1, <2>2, <2>3 DEF DriverInv, FilesOk, WriteOk
<1>8. HitsReplaySchedules' /\ StoreOk(stored')
  BY <1>1, HitsStay DEF DriverInv
<1>9. ShapeOk'
  BY <1>1, <1>3 DEF DriverInv, ShapeOk, PerProcess
<1>10. /\ OnlyOf(q) /\ pc'[q] = (IF Len(writes) = 1 THEN "idle" ELSE "writing")
       /\ unwritten'[q] = Tail(writes)
       /\ buffers'[q] = (IF Len(writes) = 1 THEN Nothing ELSE buffers[q])
  BY <1>1, <1>3 DEF DriverInv, ShapeOk, PerProcess, OnlyOf
<1>11. SearchOk(pc'[q], request'[q], screening'[q], ranking'[q], medians'[q])
  BY <1>10 DEF SearchOk
<1>12. WritesOk(pc'[q], unwritten'[q], stored')
  BY <1>1, <1>5, <1>6, <1>10 DEF WritesOk
<1>13. Apart(buffers'[q])
  <2>1. Apart(Nothing)
    BY DEF Apart, Nothing
  <2> QED
    BY <1>4, <1>10, <2>1
<1>14. ProcessesOk'
  BY <1>1, <1>10, <1>11, <1>12, <1>13, OthersStayOk DEF DriverInv
<1> QED
  BY <1>7, <1>8, <1>9, <1>14 DEF DriverInv

LEMMA CrashKeepsInv ==
  ASSUME DriverInv, NEW q \in Processes, Crash(q)
  PROVE  DriverInv'
<1>1. /\ pc' = [pc EXCEPT ![q] = "idle"]
      /\ unwritten' = [unwritten EXCEPT ![q] = Nothing]
      /\ buffers' = [buffers EXCEPT ![q] = Nothing]
      /\ UNCHANGED <<files, request, screening, ranking, medians, stored, found>>
  BY DEF Crash, search
<1>2. ShapeOk'
  BY <1>1 DEF DriverInv, ShapeOk, PerProcess
<1>3. OnlyOf(q) /\ pc'[q] = "idle" /\ unwritten'[q] = <<>> /\ buffers'[q] = <<>>
  BY <1>1 DEF DriverInv, ShapeOk, PerProcess, OnlyOf, Nothing
<1>4. SearchOk(pc'[q], request'[q], screening'[q], ranking'[q], medians'[q])
  BY <1>3 DEF SearchOk
<1>5. WritesOk(pc'[q], unwritten'[q], stored') /\ Apart(buffers'[q])
  <2>1. <<>> \in Seq({}) /\ DOMAIN <<>> = {}
    OBVIOUS
  <2> QED
    BY <1>3, <2>1 DEF WritesOk, Apart
<1>6. ProcessesOk'
  BY <1>1, <1>3, <1>4, <1>5, OthersStayOk DEF DriverInv
<1>7. StoreOk(stored') /\ FilesOk(files', stored') /\ HitsReplaySchedules'
  BY <1>1, HitsStay DEF DriverInv
<1> QED
  BY <1>2, <1>6, <1>7 DEF DriverInv

(* The invariant of the driver holds in every reachable state. *)
THEOREM DriverIsConsistent == DriverSpec => []DriverInv
<1>1. ASSUME DriverInv, [DriverNext]_driverVars PROVE DriverInv'
  <2>1. CASE UNCHANGED driverVars
    <3>1. UNCHANGED <<files, pc, request, screening, ranking, medians, unwritten, buffers, stored, found>>
      BY <2>1 DEF driverVars
    <3> QED
      BY <1>1, <3>1 DEF DriverInv, ShapeOk, PerProcess, ProcessesOk, HitsReplaySchedules
  <2>2. ASSUME NEW q \in Processes, NEW p \in Graphs, NEW s \in Requested, Compile(q, p, s)
        PROVE  DriverInv'
    BY <1>1, <2>2, CompileKeepsInv
  <2>3. ASSUME NEW q \in Processes, NEW p \in Tunable, NEW options \in Options,
               Tune(q, p, options)
        PROVE  DriverInv'
    BY <1>1, <2>3, TuneKeepsInv
  <2>4. ASSUME NEW q \in Processes, Screen(q) PROVE DriverInv'
    BY <1>1, <2>4, ScreenKeepsInv
  <2>5. ASSUME NEW q \in Processes, Measure(q) PROVE DriverInv'
    BY <1>1, <2>5, MeasureKeepsInv
  <2>6. ASSUME NEW q \in Processes, Keep(q) PROVE DriverInv'
    BY <1>1, <2>6, KeepKeepsInv
  <2>7. ASSUME NEW q \in Processes, Open(q) PROVE DriverInv'
    BY <1>1, <2>7, OpenKeepsInv
  <2>8. ASSUME NEW q \in Processes, Close(q) PROVE DriverInv'
    BY <1>1, <2>8, CloseKeepsInv
  <2>9. ASSUME NEW q \in Processes, Crash(q) PROVE DriverInv'
    BY <1>1, <2>9, CrashKeepsInv
  <2>10. CASE DriverTerminated
    BY <2>1, <2>10 DEF DriverTerminated
  <2> QED
    BY <1>1, <2>1, <2>2, <2>3, <2>4, <2>5, <2>6, <2>7, <2>8, <2>9, <2>10 DEF DriverNext
<1> QED
  BY <1>1, DriverStarts, PTL DEF DriverSpec

(* LiveBuffersAreDisjoint holds for every schedule and problem that        *)
(* compile() is asked for: buffers of a memory plan that are in use at the *)
(* same time do not overlap (MemoryPlanner).                               *)
THEOREM LiveBuffersNeverOverlap == DriverSpec => []LiveBuffersAreDisjoint
<1>1. DriverInv => LiveBuffersAreDisjoint
  BY DEF DriverInv, ProcessesOk, Apart, LiveBuffersAreDisjoint
<1> QED
  BY <1>1, DriverIsConsistent, PTL

(* HitsReplaySchedules holds for any number of processes, calls and        *)
(* deaths: what compileAndTune finds in the cache is a schedule that was   *)
(* kept under its key for a problem of the same extents and any epilogue,  *)
(* or the default schedule from a file whose store is not complete         *)
(* (KernelCache, ScheduleDSL).                                             *)
THEOREM HitsGiveBackWhatWasKept == DriverSpec => []HitsReplaySchedules
<1>1. DriverInv => HitsReplaySchedules
  BY DEF DriverInv
<1> QED
  BY <1>1, DriverIsConsistent, PTL

(* TunedIsBest holds for every search space and all measured times: no     *)
(* finalist that gave the right result has a better median than the        *)
(* schedule that autoschedule returns, and no candidate that was left out  *)
(* was screened faster than a finalist.                                    *)
THEOREM TheBestIsTuned == DriverSpec => []TunedIsBest
<1>1. ASSUME DriverInv, NEW q \in Processes, pc[q] = "tuned"
      PROVE  LET time == screening[q]
                 finalists == {ranking[q][f] : f \in DOMAIN medians[q]}
             IN /\ time[Winner(q)] # Wrong
                /\ medians[q][Best(medians[q])] # Wrong
                /\ \A f \in DOMAIN medians[q] :
                     medians[q][f] # Wrong => medians[q][Best(medians[q])] <= medians[q][f]
                /\ \A c \in finalists, d \in DOMAIN time \ finalists :
                     time[d] # Wrong => time[c] <= time[d]
  <2>1. PICK time, order, b : time = screening[q] /\ order = ranking[q] /\ b = Best(medians[q])
    OBVIOUS
  <2>2. PICK k \in Nat : /\ DOMAIN medians[q] = 1 .. k
                         /\ BestOfFirst(medians[q], k, b)
                         /\ \E n \in Nat : k <= n /\ DOMAIN order = 1 .. n
    BY <1>1, <2>1, WinnerIs
  <2>3. PICK n \in Nat : k <= n /\ DOMAIN order = 1 .. n
    BY <2>2
  <2>4. b \in 1 .. k /\ b \in 1 .. n
    BY <1>1, <2>1, <2>2, <2>3, WinnerIs
  <2>5. Ranked(time, order)
    BY <1>1, <2>1 DEF DriverInv, ProcessesOk, SearchOk, RankingOk
  <2>6. {order[i] : i \in 1 .. n} = {c \in DOMAIN time : time[c] # Wrong}
        /\ \A i, j \in 1 .. n : i < j => time[order[i]] <= time[order[j]]
    BY <2>3, <2>5 DEF Ranked, ToSet
  <2>7. time[order[b]] # Wrong
    BY <2>4, <2>6
  <2>8. medians[q][b] # Wrong /\ \A f \in 1 .. k : medians[q][f] # Wrong => medians[q][b] <= medians[q][f]
    BY <2>2, <2>4 DEF BestOfFirst
  <2>9. ASSUME NEW f \in 1 .. k, NEW d \in DOMAIN time, d \notin {order[i] : i \in 1 .. k}, time[d] # Wrong
        PROVE  time[order[f]] <= time[d]
    <3>1. PICK g \in 1 .. n : d = order[g]
      BY <2>6, <2>9
    <3>2. g \notin 1 .. k
      BY <2>9, <3>1
    <3>3. f < g /\ f \in 1 .. n
      BY <2>3, <3>2
    <3> QED
      BY <2>6, <3>1, <3>3
  <2>10. /\ time[order[b]] # Wrong
         /\ medians[q][b] # Wrong
         /\ \A f \in DOMAIN medians[q] : medians[q][f] # Wrong => medians[q][b] <= medians[q][f]
         /\ \A c \in {order[f] : f \in DOMAIN medians[q]} :
              \A d \in DOMAIN time \ {order[f] : f \in DOMAIN medians[q]} :
                time[d] # Wrong => time[c] <= time[d]
    BY <2>2, <2>7, <2>8, <2>9
  <2> QED
    BY <2>1, <2>10 DEF Winner
<1>2. DriverInv => TunedIsBest
  BY <1>1 DEF TunedIsBest
<1> QED
  BY <1>2, DriverIsConsistent, PTL

(* Static pruning loses nothing: for every valid schedule of the space     *)
(* that a search enumerates, some candidate of the search makes the        *)
(* workers of execute() do the same operations on the problem it is for    *)
(* (execution_key and the loop of autoschedule).                           *)
THEOREM PruningLosesNothing == DriverSpec => []PruningIsLossless
<1>1. ASSUME DriverInv, NEW q \in Processes, pc[q] = "tuning"
      PROVE  EachHasACandidate[request[q].problem][request[q].options.threads]
  <2>1. RequestOk(request[q])
    BY <1>1 DEF DriverInv, ProcessesOk, SearchOk
  <2>2. PICK p \in Tunable : p = request[q].problem
    BY <2>1 DEF RequestOk
  <2>3. {p.m, p.n, p.k} \subseteq Nat \ {0}
    BY <2>2, TunableType
  <2>4. PICK workers \in {o.threads : o \in Options} : workers = request[q].options.threads
    BY <2>1 DEF RequestOk
  <2>5. DOMAIN CandidatesFor = {o.threads : o \in Options} /\ CandidatesFor[workers] = Candidates(workers)
    BY <2>4 DEF CandidatesFor
  <2>6. ASSUME NEW s \in ToSet(SearchSpace(Greatest(1, workers))), Valid(s)
        PROVE  WorkOf(p, s) \in {WorkOf(p, t) : t \in ToSet(CandidatesFor[workers])}
    <3>1. PICK t \in ToSet(Candidates(workers)) : ExecutionKey(t) = ExecutionKey(s)
      BY <2>6, CandidatesCover
    <3>2. t \in TiledSchedules
      BY CandidatesType DEF ToSet
    <3>3. s \in TiledSchedules
      BY SearchSpaceType DEF ToSet
    <3>4. WorkOf(p, s) = WorkOf(p, t)
      BY <2>3, <3>1, <3>2, <3>3, SameKeySameWork
    <3> QED
      BY <2>5, <3>1, <3>4
  <2>7. EachHasACandidate[p][workers] =
          (\A s \in ToSet(SearchSpace(Greatest(1, workers))) :
             Valid(s) => WorkOf(p, s) \in {WorkOf(p, t) : t \in ToSet(CandidatesFor[workers])})
    BY <2>2, <2>4, <2>5, Zenon DEF EachHasACandidate
  <2> QED
    BY <2>2, <2>4, <2>6, <2>7
<1>2. DriverInv => PruningIsLossless
  BY <1>1 DEF PruningIsLossless
<1> QED
  BY <1>2, DriverIsConsistent, PTL

=============================================================================

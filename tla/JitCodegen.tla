----------------------------- MODULE JitCodegen -----------------------------
(***************************************************************************)
(* The kernels that src/llvm_backend.cpp generates: build_module chooses   *)
(* one of three builders for a problem and a plan.  A kernel is given here *)
(* by the operations it does when it is called with the pointers of the    *)
(* rows from lo on; it computes p.m rows.  The optimiser and the code      *)
(* generator of LLVM keep the meaning of a kernel.                         *)
(***************************************************************************)
EXTENDS KernelOps

CONSTANTS
  RegisterBudget,  \* 12: accumulators a register kernel may have
  BlockBudget      \* 256: micro-kernels a register kernel may unroll

(* Bias, ReLU and the graph epilogue of one stored value.                  *)
LastTerms(p, plan) == EpilogueOf(p) \o GraphTerms(plan)

(* build_ijk_function: each element is summed in a register.               *)
IjkFunction(p, plan, lo) ==
  ForEach(Steps(lo, lo + p.m, 1), LAMBDA i : Store(i, i + 1, 0, p.n, LastTerms(p, plan)))

(* Mutant: a tail of rows or columns does not rule the register kernel out. *)
CanBuildWithTail(p, plan) ==
  LET width == Greatest(1, plan.width)
      mr == Greatest(1, plan.mr)
      nr == Greatest(width, plan.nr)
  IN /\ width > 1
     /\ nr % width = 0
     /\ mr * (nr \div width) <= RegisterBudget
     /\ (p.m \div mr) * (p.n \div nr) <= BlockBudget

(* can_build_register_kernel: whole micro-kernels only, and few enough.    *)
CanBuildRegisterKernel(p, plan) ==
  LET width == Greatest(1, plan.width)
      mr == Greatest(1, plan.mr)
      nr == Greatest(width, plan.nr)
  IN /\ width > 1
     /\ nr % width = 0
     /\ p.m % mr = 0
     /\ p.n % nr = 0
     /\ mr * (nr \div width) <= RegisterBudget
     /\ (p.m \div mr) * (p.n \div nr) <= BlockBudget

(* build_register_tiled_function: straight-line code, one micro-kernel     *)
(* after the other, with constant rows and columns; M is not read.         *)
RegisterTiledFunction(p, plan, lo) ==
  ForEach(Steps(0, p.m, plan.mr), LAMBDA row :
    ForEach(Steps(0, p.n, plan.nr), LAMBDA column :
      Store(lo + row, lo + row + plan.mr,
            column, column + (plan.nr \div plan.width) * plan.width, LastTerms(p, plan))))

(* build_ikj_function: the output is zeroed, updated row by row in the     *)
(* order of k, and then every element gets its epilogue.  In a row each    *)
(* step of k goes through whole vectors and then through single columns;   *)
(* those are different elements, and their updates are told one after the  *)
(* other.                                                                  *)
IkjFunction(p, plan, lo) ==
  LET width == Greatest(1, plan.width)
      vectors == (p.n \div width) * width
  IN Zero(lo, lo + p.m, 0, p.n)
     \o ForEach(Steps(lo, lo + p.m, 1), LAMBDA i :
          Update(i, i + 1, 0, vectors, 0, p.k, Direct)
          \o Update(i, i + 1, vectors, p.n, 0, p.k, Direct))
     \o Epilogue(lo, lo + p.m, 0, p.n, LastTerms(p, plan))

(* build_module.                                                           *)
GeneratedKernel(p, plan, lo) ==
  IF CanBuildRegisterKernel(p, plan) THEN RegisterTiledFunction(p, plan, lo)
  ELSE IF plan.width > 1 \/ plan.order = "ikj" THEN IkjFunction(p, plan, lo)
  ELSE IjkFunction(p, plan, lo)

-----------------------------------------------------------------------------
(* LLVMJITBackend::benchmark: the rows are cut at whole micro-kernels; the *)
(* first threads get one more, and the last one the tail.                  *)
RowGrain(plan) == IF plan.width > 1 THEN Greatest(1, plan.mr) ELSE 1
JitThreads(p, plan) == Clamp(plan.threads, 1, CeilDiv(p.m, RowGrain(plan)))

JitRowBegin(p, plan, w) ==
  LET blocks == p.m \div RowGrain(plan)
      threads == JitThreads(p, plan)
  IN (w * (blocks \div threads) + Least(w, blocks % threads)) * RowGrain(plan)

JitRowEnd(p, plan, w) ==
  IF w = JitThreads(p, plan) - 1 THEN p.m ELSE JitRowBegin(p, plan, w + 1)

(* What thread w does: the kernel compiled for the loop specialised to the *)
(* height of its range; nothing for an empty range.                        *)
JitWork(loop, w) ==
  LET plan == Analyze(loop)
      lo == JitRowBegin(loop.problem, plan, w)
      hi == JitRowEnd(loop.problem, plan, w)
      range == Specialize(loop, [loop.problem EXCEPT !.m = hi - lo])
  IN IF lo < hi THEN GeneratedKernel(range.problem, Analyze(range), lo) ELSE <<>>

=============================================================================

---------------------------- MODULE Interpreter -----------------------------
(***************************************************************************)
(* The four kernels of execute() in src/runtime.cpp, for rows lo .. hi-1   *)
(* of a product p, as sequences of the operations of KernelOps, and the    *)
(* one that a plan selects for each worker.                                *)
(*                                                                         *)
(* The AVX2 build is modelled; its constants 8 (lanes of a register), 6    *)
(* (rows of a two-register kernel) and 8 (rows of a micro-kernel) are      *)
(* parameters, so that small matrices have every kind of tail.             *)
(***************************************************************************)
EXTENDS KernelOps

CONSTANTS
  Lanes,      \* 8: elements of a vector register
  WideRows,   \* 6: rows up to which two registers a row are used
  MicroRows   \* 8: the most rows a micro-kernel has

ASSUME RegistersAssumption == Lanes \in Nat \ {0, 1} /\ {WideRows, MicroRows} \subseteq Nat \ {0}

Fused(p, plan) == IF plan.fused THEN EpilogueOf(p) ELSE <<>>

(* execute_ijk: each element is summed in a register and stored once.      *)
IjkKernel(p, plan, lo, hi) ==
  ForEach(Steps(lo, hi, 1), LAMBDA i : Store(i, i + 1, 0, p.n, Fused(p, plan)))
  \o IF plan.fused THEN <<>> ELSE Epilogue(lo, hi, 0, p.n, EpilogueOf(p))

(* execute_ikj: tiles of rows, columns and k that update the output.       *)
IkjKernel(p, plan, lo, hi) ==
  LET bm == IF plan.tiled THEN plan.bm ELSE Greatest(1, hi - lo)
      bn == IF plan.tiled THEN plan.bn ELSE p.n
      bk == IF plan.tiled THEN plan.bk ELSE p.k
      Tile(ii, jj) ==
        LET iEnd == Least(ii + bm, hi)
            jEnd == Least(jj + bn, p.n)
        IN ForEach(Steps(0, p.k, bk), LAMBDA kk :
             ForEach(Steps(ii, iEnd, plan.mr), LAMBDA i0 :
               Update(i0, Least(i0 + plan.mr, iEnd), jj, jEnd,
                      kk, Least(kk + bk, p.k), Direct)))
           \o IF plan.fused THEN Epilogue(ii, iEnd, jj, jEnd, EpilogueOf(p)) ELSE <<>>
  IN Zero(lo, hi, 0, p.n)
     \o ForEach(Steps(lo, hi, bm), LAMBDA ii :
          ForEach(Steps(0, p.n, bn), LAMBDA jj : Tile(ii, jj)))
     \o IF plan.fused THEN <<>> ELSE Epilogue(lo, hi, 0, p.n, EpilogueOf(p))

(* The columns j0 .. j1-1 of a micro-kernel: two registers at a time while *)
(* that fits, then one, then single columns.                               *)
ColumnBlocks(j0, j1, rows) ==
  LET wide == IF rows <= WideRows THEN (j1 - j0) \div (2 * Lanes) ELSE 0
      narrow == (j1 - j0 - wide * 2 * Lanes) \div Lanes
      tail == j0 + (wide * 2 + narrow) * Lanes
  IN [x \in 1 .. wide |-> <<j0 + (x - 1) * 2 * Lanes, j0 + x * 2 * Lanes>>]
     \o [x \in 1 .. narrow |-> <<j0 + (wide * 2 + x - 1) * Lanes,
                                 j0 + (wide * 2 + x) * Lanes>>]
     \o [x \in 1 .. j1 - tail |-> <<tail + x - 1, tail + x>>]

(* execute_register_blocked: the whole reduction stays in registers.       *)
RegisterKernel(p, plan, lo, hi) ==
  LET bm == IF plan.tiled THEN Greatest(1, plan.bm) ELSE hi - lo
      bn == IF plan.tiled THEN Greatest(Lanes, plan.bn) ELSE p.n
      mr == Clamp(plan.mr, 1, MicroRows)
      Tile(ii, jj) ==
        LET iEnd == Least(ii + bm, hi)
            jEnd == Least(jj + bn, p.n)
        IN ForEach(Steps(ii, iEnd, mr), LAMBDA i0 :
             LET i1 == Least(i0 + mr, iEnd)
             IN ForEach(ColumnBlocks(jj, jEnd, i1 - i0), LAMBDA block :
                  Store(i0, i1, block[1], block[2], Fused(p, plan))))
           \o IF plan.fused THEN <<>> ELSE Epilogue(ii, iEnd, jj, jEnd, EpilogueOf(p))
  IN ForEach(Steps(lo, hi, bm), LAMBDA ii :
       ForEach(Steps(0, p.n, bn), LAMBDA jj : Tile(ii, jj)))

(* pack_matrices puts B into panels of nr columns, k by k: the element of  *)
(* B at an address of packed.b.  Columns past n are the zero padding.      *)
PackedElement(p, plan, address) ==
  <<(address \div plan.nr) % p.k,
    (address \div (plan.nr * p.k)) * plan.nr + (address % plan.nr)>>

PackedAddress(p, plan, k, j) == ((j \div plan.nr) * p.k + k) * plan.nr + (j % plan.nr)

(* Mutant: n_micro is not cut at the end of a panel of the packed B.       *)
MicroColumnsUncut(plan, j, jEnd) == Least(j + plan.nr, jEnd)

(* The end of the micro-kernel that starts at column j (n_micro).          *)
MicroColumns(plan, j, jEnd) ==
  Least(j + (IF plan.packB THEN plan.nr - (j % plan.nr) ELSE plan.nr), jEnd)

(* The columns where the micro-kernels of columns j0 .. jEnd-1 start: from *)
(* the second on they are nr apart, as its start is one of a panel or nr   *)
(* behind the first.                                                       *)
MicroStarts(plan, j0, jEnd) == <<j0>> \o Steps(MicroColumns(plan, j0, jEnd), jEnd, plan.nr)

(* execute_packed.  With mc = bm, nc = bn and kc = bk the inner tile loops *)
(* run once.  A row of B is read through one pointer: its address, and the *)
(* places behind it.                                                       *)
PackedKernel(p, plan, lo, hi) ==
  LET Micro(ic, iEnd, j, j1, pc, kEnd) ==
        LET Read(k, x) ==
              IF plan.packB THEN PackedElement(p, plan, PackedAddress(p, plan, k, j) + (x - j))
                            ELSE <<k, x>>
        IN ForEach(Steps(ic, iEnd, plan.mr), LAMBDA ir :
             Update(ir, Least(ir + plan.mr, iEnd), j, j1, pc, kEnd, Read))
      Panel(jc, jEnd) ==
        ForEach(Steps(0, p.k, plan.bk), LAMBDA pc :
          ForEach(Steps(lo, hi, plan.bm), LAMBDA ic :
            ForEach(MicroStarts(plan, jc, jEnd), LAMBDA j :
              Micro(ic, Least(ic + plan.bm, hi), j, MicroColumns(plan, j, jEnd),
                    pc, Least(pc + plan.bk, p.k)))))
        \o IF plan.fused THEN Epilogue(lo, hi, jc, jEnd, EpilogueOf(p)) ELSE <<>>
  IN Zero(lo, hi, 0, p.n)
     \o ForEach(Steps(0, p.n, plan.bn), LAMBDA jc :
          Panel(jc, Least(jc + plan.bn, p.n)))
     \o IF plan.fused THEN <<>> ELSE Epilogue(lo, hi, 0, p.n, EpilogueOf(p))

(* The kernel of execute() that the plan selects.                          *)
Kernel(p, plan, lo, hi) ==
  IF plan.packA \/ plan.packB THEN PackedKernel(p, plan, lo, hi)
  ELSE IF plan.width >= Lanes THEN RegisterKernel(p, plan, lo, hi)
  ELSE IF plan.order = "ijk" THEN IjkKernel(p, plan, lo, hi)
  ELSE IkjKernel(p, plan, lo, hi)

(* The workers of execute(), and what worker w does with its rows; nothing *)
(* if it has none.                                                         *)
Team(p, plan) == 0 .. WorkerCount(p.m, plan.threads) - 1

Work(p, plan, w) ==
  LET lo == RowBegin(p.m, plan.threads, w)
      hi == RowEnd(p.m, plan.threads, w)
  IN IF lo < hi THEN Kernel(p, plan, lo, hi) ELSE <<>>

=============================================================================

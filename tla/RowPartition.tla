---------------------------- MODULE RowPartition ----------------------------
(***************************************************************************)
(* How execute() of src/runtime.cpp divides the m rows of an output among  *)
(* the workers of a ThreadTeam.  Each worker computes its own bounds from  *)
(* its index, with no coordination, and writes its rows without a lock.    *)
(***************************************************************************)
EXTENDS Integers

Least(a, b) == IF a <= b THEN a ELSE b
Greatest(a, b) == IF a >= b THEN a ELSE b

(* std::clamp(v, lo, hi), for lo <= hi. *)
Clamp(v, lo, hi) == IF v < lo THEN lo ELSE IF v > hi THEN hi ELSE v

(* (n + d - 1) / d for n >= 0 and d > 0. *)
CeilDiv(n, d) == (n + d - 1) \div d

(* thread_count: how many workers take part. *)
WorkerCount(m, threads) == Clamp(threads, 1, m)

(* rows_per_thread. *)
RowsPerThread(m, threads) == CeilDiv(m, WorkerCount(m, threads))

(* begin and end of worker w.  The range is empty when begin is not below  *)
(* end: the last workers may have nothing to do.                           *)
RowBegin(m, threads, w) == w * RowsPerThread(m, threads)

RowEnd(m, threads, w) == Least(RowBegin(m, threads, w) + RowsPerThread(m, threads), m)

RowsOf(m, threads, w) == RowBegin(m, threads, w) .. RowEnd(m, threads, w) - 1

=============================================================================

---------------------------- MODULE MCMoeRuntime ----------------------------
(* Schedules that use every strategy and scheduler, with thresholds that   *)
(* split a segment of three tokens in every way, fewer and more threads    *)
(* than tasks, and bucket lists with gaps, repetitions and bad entries.    *)
EXTENDS MoeRuntime

Schedule(strategy, scheduling, buckets, threshold, threads) ==
  [strategy |-> strategy, scheduling |-> scheduling, buckets |-> buckets,
   threshold |-> threshold, threads |-> threads]

MCSchedules ==
  {Schedule("independent", "split", {}, 1, 3),
   Schedule("grouped", "fixed", {1, 2}, 1, 2),
   Schedule("bucketed", "fixed", {-1, 1}, 1, 4),
   Schedule("bucketed", "stealing", {1, 4}, 1, 2),
   Schedule("grouped", "split", {0}, 2, 2),
   Schedule("bucketed", "split", {1}, 0, 3)}

=============================================================================

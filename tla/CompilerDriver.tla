--------------------------- MODULE CompilerDriver ---------------------------
(***************************************************************************)
(* The compiler driver of src/compiler.cpp: Compiler::compile with its     *)
(* memory planner, Compiler::compileAndTune with the autoscheduler behind  *)
(* it, the dispatcher that maps extents to buckets, and the KernelCache on *)
(* disk, in which both keep schedules.  Several processes share the        *)
(* directory of the cache.  A file is truncated when it is opened and gets *)
(* its text when it is closed (it is shorter than the buffer of the        *)
(* stream): a process may stop in between, and others may look.            *)
(***************************************************************************)
EXTENDS Autoscheduler

CONSTANTS
  Processes,
  Shapes,        \* extents <<m, n, k>> at run time
  Epilogues,     \* records [bias, relu]: which operations a graph has
  Buckets,       \* the buckets of the dispatcher, ascending
  Options,       \* records [threads, topK]: max_threads and top_k
  Requested,     \* what compile() is asked for
  Times,         \* the times a measurement may give
  Repetitions,   \* measurements of each finalist
  MaxCalls       \* bound: calls of all processes together

(* What compile() is asked for: schedforge-opt has a schedule from         *)
(* ScheduleDSL::parse, which are all tiled; llvm_codegen has the schedules *)
(* of a graph's dispatches and the test one of its own, and none of them   *)
(* clears "tiled" either.  Outer tiles of negative extent, for which the   *)
(* sizes of the packed buffers wrap around, are left out.                  *)
ASSUME RequestAssumption ==
  \A s \in Requested : s \in AnySchedule /\ s.tiled /\ {s.mc, s.nc, s.kc} \subseteq Nat
ASSUME DriverAssumption ==
  /\ Shapes \subseteq (Nat \ {0}) \X (Nat \ {0}) \X (Nat \ {0}) /\ Buckets \in Seq(Nat)
  /\ Epilogues \subseteq [bias : BOOLEAN, relu : BOOLEAN]
  /\ Options \subseteq [threads : Int, topK : Int]
  /\ Times \subseteq Nat \ {0} /\ Repetitions \in Nat \ {0}

VARIABLES
  files,         \* the directory: the text of each file there is
  pc,            \* "idle", "tuning", "ranked", "tuned", "writing"
  calls,         \* how many calls the processes have begun
  request,       \* the problem and the options a process is tuning for
  screening,     \* the screening time of each candidate, or Wrong
  ranking,       \* the candidates after the sort
  medians,       \* the median of each finalist, or Wrong
  unwritten,     \* the files a process still has to write
  opened,        \* the first of them is open, and empty
  buffers,       \* the memory plan of the last compile() of a process
  stored, found  \* history: schedules that were tuned, or put into the
                 \* cache by compile(); and those found there

driverVars == <<files, pc, calls, request, screening, ranking, medians, unwritten, opened,
          buffers, stored, found>>

-----------------------------------------------------------------------------
(* DynamicDispatcher::bucket: the first bucket that is large enough.       *)
Bucket(extent) ==
  LET fitting == {i \in DOMAIN Buckets : extent <= Buckets[i]}
  IN IF fitting = {} THEN extent ELSE Buckets[CHOOSE i \in fitting : \A j \in fitting : i <= j]

(* The graphs that callers have, each with its own epilogue; dispatch()    *)
(* specialises a problem whose every extent is dynamic to the buckets,     *)
(* with both operations (DynamicProblem::specialize).                      *)
ProblemOf(m, n, k, epilogue) ==
  [m |-> m, n |-> n, k |-> k, bias |-> epilogue.bias, relu |-> epilogue.relu]
Given(shape, epilogue) == ProblemOf(shape[1], shape[2], shape[3], epilogue)
Dispatched(shape) ==
  ProblemOf(Bucket(shape[1]), Bucket(shape[2]), Bucket(shape[3]), [bias |-> TRUE, relu |-> TRUE])

Graphs == {Given(shape, epilogue) : shape \in Shapes, epilogue \in Epilogues}
Tunable == Graphs \cup {Dispatched(shape) : shape \in Shapes}

(* Mutant: the key leaves out the reduction.                               *)
KeyOfOutput(p, s) == [m |-> p.m, n |-> p.n, text |-> PrintSchedule(s)]

(* KernelCache::key: the extents and the text of a schedule, but not the   *)
(* epilogue.  The hash of the text is taken to be the text.                *)
Key(p, s) == [m |-> p.m, n |-> p.n, k |-> p.k, text |-> PrintSchedule(s)]

(* The schedule that stands for the options of a search in the key.        *)
TuningKey(p, options) ==
  Key(p, [DefaultSchedule EXCEPT !.threads = options.threads, !.bm = options.topK])

File(key, extension) == [key |-> key, extension |-> extension]

-----------------------------------------------------------------------------
(* MemoryPlanner::plan.                                                    *)
Buffer(bytes, first, last) == [bytes |-> bytes, first |-> first, last |-> last, offset |-> 0]

BuffersOf(p, s) ==
  (IF s.packA THEN <<Buffer(4 * s.mc * s.kc, 1, 2)>> ELSE <<>>)
  \o (IF s.packB THEN <<Buffer(4 * s.kc * s.nc, 0, 3)>> ELSE <<>>)
  \o (IF ~s.fused /\ p.bias THEN <<Buffer(4 * p.m * p.n, 2, 3)>> ELSE <<>>)
  \o (IF ~s.fused /\ p.relu THEN <<Buffer(4 * p.m * p.n, 3, 4)>> ELSE <<>>)

(* Mutant: the space of a buffer is used again in the step of its last use. *)
MayFollowAtOnce(previous, buffer) ==
  previous.last <= buffer.first /\ previous.bytes >= buffer.bytes

MayFollow(previous, buffer) ==
  previous.last < buffer.first /\ previous.bytes >= buffer.bytes

(* A buffer takes the place of the first one it may follow, or a new one   *)
(* at the end of the arena.                                                *)
Allocate(arena, buffer) ==
  LET before == {i \in DOMAIN arena.placed : MayFollow(arena.placed[i], buffer)}
      end == CeilDiv(arena.end, 64) * 64
  IN IF before # {}
       THEN [arena EXCEPT !.placed = Append(@, [buffer EXCEPT !.offset =
               arena.placed[CHOOSE i \in before : \A j \in before : i <= j].offset])]
       ELSE [placed |-> Append(arena.placed, [buffer EXCEPT !.offset = end]),
             end |-> end + buffer.bytes]

PlanBuffers(p, s) ==
  LET wanted == BuffersOf(p, s)
      arena[n \in 0 .. Len(wanted)] ==
        IF n = 0 THEN [placed |-> <<>>, end |-> 0] ELSE Allocate(arena[n - 1], wanted[n])
  IN arena[Len(wanted)].placed

-----------------------------------------------------------------------------
Nothing == <<>>

DriverInit ==
  /\ files = Nothing
  /\ pc = [q \in Processes |-> "idle"]
  /\ calls = 0
  /\ request = [q \in Processes |-> Nothing]
  /\ screening = [q \in Processes |-> Nothing]
  /\ ranking = [q \in Processes |-> Nothing]
  /\ medians = [q \in Processes |-> Nothing]
  /\ unwritten = [q \in Processes |-> Nothing]
  /\ opened = [q \in Processes |-> FALSE]
  /\ buffers = [q \in Processes |-> Nothing]
  /\ stored = {}
  /\ found = {}

search == <<request, screening, ranking, medians>>

BeginCall(q) ==
  /\ pc[q] = "idle" /\ calls < MaxCalls
  /\ calls' = calls + 1

(* Compiler::compile: the plan, then the schedule and two artifacts.       *)
Compile(q, p, s) ==
  /\ BeginCall(q)
  /\ pc' = [pc EXCEPT ![q] = "writing"]
  /\ buffers' = [buffers EXCEPT ![q] = PlanBuffers(p, s)]
  /\ unwritten' = [unwritten EXCEPT ![q] =
       << [file |-> File(Key(p, s), "schedule"), text |-> PrintSchedule(s)],
          [file |-> File(Key(p, s), "ll"), text |-> <<ApplySchedule(p, s)>>],
          [file |-> File(Key(p, s), "loopir"), text |-> <<ApplySchedule(p, s)>>] >>]
  /\ stored' = stored \cup {[problem |-> p, key |-> Key(p, s), schedule |-> s]}
  /\ UNCHANGED <<files, search, opened, found>>

(* Compiler::compileAndTune: a hit, which is measured and returned, or a   *)
(* search.                                                                 *)
Tune(q, p, options) ==
  LET file == File(TuningKey(p, options), "schedule")
  IN /\ BeginCall(q)
     /\ IF file \in DOMAIN files
          THEN /\ found' = found \cup {[problem |-> p, key |-> file.key, text |-> files[file],
                                        schedule |-> ParseSchedule(files[file])]}
               /\ UNCHANGED <<pc, request>>
          ELSE /\ pc' = [pc EXCEPT ![q] = "tuning"]
               /\ request' = [request EXCEPT ![q] = [problem |-> p, options |-> options]]
               /\ UNCHANGED found
     /\ UNCHANGED <<files, screening, ranking, medians, unwritten, opened, buffers, stored>>

(* The candidates of a search, for each bound on the threads.              *)
CandidatesFor == [threads \in {o.threads : o \in Options} |-> Candidates(threads)]

(* A call is over, by its return or by an exception; nothing of the search *)
(* is kept, and an exception has stored nothing.                           *)
EndSearch(q) ==
  /\ request' = [request EXCEPT ![q] = Nothing]
  /\ screening' = [screening EXCEPT ![q] = Nothing]
  /\ ranking' = [ranking EXCEPT ![q] = Nothing]
  /\ medians' = [medians EXCEPT ![q] = Nothing]

(* autoschedule runs every candidate once; it throws if none is right, and *)
(* sorts those that are.                                                   *)
Screen(q) ==
  /\ pc[q] = "tuning"
  /\ \E times \in [DOMAIN CandidatesFor[request[q].options.threads] -> Times \cup {Wrong}] :
       \/ /\ \A c \in DOMAIN times : times[c] = Wrong
          /\ pc' = [pc EXCEPT ![q] = "idle"]
          /\ EndSearch(q)
       \/ \E order \in UNION {[1 .. n -> DOMAIN times] : n \in DOMAIN times} :
            /\ Ranked(times, order)
            /\ pc' = [pc EXCEPT ![q] = "ranked"]
            /\ screening' = [screening EXCEPT ![q] = times]
            /\ ranking' = [ranking EXCEPT ![q] = order]
            /\ UNCHANGED <<request, medians>>
  /\ UNCHANGED <<files, calls, unwritten, opened, buffers, stored, found>>

(* It measures the finalists; it throws if none gave the right result.     *)
Measure(q) ==
  LET finalists == 1 .. Finalists(ranking[q], request[q].options.topK)
  IN /\ pc[q] = "ranked"
     /\ \E right \in [finalists -> BOOLEAN],
           samples \in [finalists -> [1 .. Repetitions -> Times]] :
          LET measured == [f \in finalists |-> IF right[f] THEN Median(samples[f]) ELSE Wrong]
          IN \/ /\ Best(measured) = 0
                /\ pc' = [pc EXCEPT ![q] = "idle"]
                /\ EndSearch(q)
             \/ /\ Best(measured) # 0
                /\ pc' = [pc EXCEPT ![q] = "tuned"]
                /\ medians' = [medians EXCEPT ![q] = measured]
                /\ UNCHANGED <<request, screening, ranking>>
     /\ UNCHANGED <<files, calls, unwritten, opened, buffers, stored, found>>

(* The candidate that autoschedule returns.                                *)
Winner(q) == ranking[q][Best(medians[q])]

(* compileAndTune begins to store the winner.                              *)
Keep(q) ==
  LET key == TuningKey(request[q].problem, request[q].options)
      best == CandidatesFor[request[q].options.threads][Winner(q)]
  IN /\ pc[q] = "tuned"
     /\ pc' = [pc EXCEPT ![q] = "writing"]
     /\ unwritten' = [unwritten EXCEPT ![q] =
          << [file |-> File(key, "schedule"), text |-> PrintSchedule(best)] >>]
     /\ stored' = stored \cup {[problem |-> request[q].problem, key |-> key, schedule |-> best]}
     /\ EndSearch(q)
     /\ UNCHANGED <<files, calls, opened, buffers, found>>

-----------------------------------------------------------------------------
(* KernelCache::store and storeArtifact: a file is truncated ...           *)
Open(q) ==
  /\ pc[q] = "writing" /\ ~opened[q]
  /\ opened' = [opened EXCEPT ![q] = TRUE]
  /\ files' = [f \in {Head(unwritten[q]).file} \cup DOMAIN files |->
                 IF f = Head(unwritten[q]).file THEN <<>> ELSE files[f]]
  /\ UNCHANGED <<pc, calls, search, unwritten, buffers, stored, found>>

(* ... and written when it is closed.  Of a longer text that another       *)
(* process wrote meanwhile nothing is left but what follows the end of the *)
(* line, which lookup does not read.                                       *)
Close(q) ==
  /\ pc[q] = "writing" /\ opened[q]
  /\ files' = [files EXCEPT ![Head(unwritten[q]).file] = Head(unwritten[q]).text]
  /\ opened' = [opened EXCEPT ![q] = FALSE]
  /\ unwritten' = [unwritten EXCEPT ![q] = Tail(@)]
  /\ pc' = [pc EXCEPT ![q] = IF Len(unwritten[q]) = 1 THEN "idle" ELSE "writing"]
  /\ buffers' = [buffers EXCEPT ![q] = IF Len(unwritten[q]) = 1 THEN Nothing ELSE @]
  /\ UNCHANGED <<calls, search, stored, found>>

(* A process dies while it writes, and begins anew; if it dies earlier, no *)
(* more is left of its call than after an exception.                       *)
Crash(q) ==
  /\ pc[q] = "writing"
  /\ pc' = [pc EXCEPT ![q] = "idle"]
  /\ unwritten' = [unwritten EXCEPT ![q] = Nothing]
  /\ opened' = [opened EXCEPT ![q] = FALSE]
  /\ buffers' = [buffers EXCEPT ![q] = Nothing]
  /\ UNCHANGED <<files, calls, search, stored, found>>

(* Screen, Measure and Keep touch nothing that another process can see: it *)
(* is enough to consider runs in which they follow each other at once.     *)
Alone(q) == \A r \in Processes \ {q} : pc[r] \notin {"ranked", "tuned"}

Finished == calls = MaxCalls /\ \A q \in Processes : pc[q] = "idle"
DriverTerminated == Finished /\ UNCHANGED driverVars

DriverNext ==
  \/ \E q \in Processes : Alone(q) /\
       \/ \E p \in Graphs, s \in Requested : Compile(q, p, s)
       \/ \E p \in Tunable, options \in Options : Tune(q, p, options)
       \/ Screen(q) \/ Measure(q) \/ Keep(q) \/ Open(q) \/ Close(q) \/ Crash(q)
  \/ DriverTerminated

DriverSpec == DriverInit /\ [][DriverNext]_driverVars

-----------------------------------------------------------------------------
(* What the workers of execute() do, and whether a candidate of a search   *)
(* does the same for every valid schedule of its space.                    *)
WorkOf(p, s) ==
  LET plan == Analyze(ApplySchedule(p, s)) IN [w \in Team(p, plan) |-> Work(p, plan, w)]

EachHasACandidate ==
  [p \in Tunable |-> [threads \in DOMAIN CandidatesFor |->
     LET candidates == {WorkOf(p, s) : s \in ToSet(CandidatesFor[threads])}
     IN \A s \in ToSet(SearchSpace(Greatest(1, threads))) :
          Valid(s) => WorkOf(p, s) \in candidates]]

(* Static pruning loses nothing: for every valid schedule of the space     *)
(* some candidate makes the workers of execute() do the same operations    *)
(* (execution_key against the kernels of the interpreter).                 *)
PruningIsLossless ==
  \A q \in Processes : pc[q] = "tuning" =>
    EachHasACandidate[request[q].problem][request[q].options.threads]

(* The schedule that autoschedule returns was right in both its runs; no   *)
(* finalist that was right has a better median, and no candidate that was  *)
(* no finalist was screened faster than one that was.                      *)
TunedIsBest ==
  \A q \in Processes : pc[q] = "tuned" =>
    LET time == screening[q]
        finalists == {ranking[q][f] : f \in DOMAIN medians[q]}
    IN /\ time[Winner(q)] # Wrong
       /\ medians[q][Best(medians[q])] # Wrong
       /\ \A f \in DOMAIN medians[q] :
            medians[q][f] # Wrong => medians[q][Best(medians[q])] <= medians[q][f]
       /\ \A c \in finalists, d \in DOMAIN time \ finalists :
            time[d] # Wrong => time[c] <= time[d]

SameExtents(p, r) == p.m = r.m /\ p.n = r.n /\ p.k = r.k

(* What compileAndTune finds in the cache, whatever other processes write  *)
(* and wherever they die, is a whole schedule that was kept under its key, *)
(* by a search with the same options or by compile(), for a problem of the *)
(* same extents; or it is the default schedule, from a file whose store is *)
(* not complete (KernelCache, ScheduleDSL).  The schedule may be one that  *)
(* was tuned for another epilogue, which the key does not tell.            *)
HitsReplaySchedules ==
  \A hit \in found :
    \/ hit.text = <<>> /\ hit.schedule = DefaultSchedule
    \/ \E kept \in stored :
         /\ kept.key = hit.key /\ SameExtents(kept.problem, hit.problem)
         /\ hit.schedule = kept.schedule

(* Buffers that are in use at the same time do not overlap (MemoryPlanner, *)
(* whose first_use and last_use name steps of the kernel).                 *)
LiveBuffersAreDisjoint ==
  \A q \in Processes : \A i, j \in DOMAIN buffers[q] :
    LET a == buffers[q][i]
        b == buffers[q][j]
    IN i # j /\ a.first <= b.last /\ b.first <= a.last
         => a.offset + a.bytes <= b.offset \/ b.offset + b.bytes <= a.offset

=============================================================================

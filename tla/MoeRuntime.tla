----------------------------- MODULE MoeRuntime -----------------------------
(***************************************************************************)
(* One run of a mixture-of-experts layer: src/moe_compiler.cpp.  The       *)
(* router gives every token TopK experts and counts the tokens of each;    *)
(* dispatch_tokens sorts the assignments into one segment per expert;      *)
(* plan_moe_tasks cuts the segments into tasks; execute_once runs the      *)
(* tasks on its workers, by fixed placement or by an atomic counter, into  *)
(* shared arenas, and adds the weighted results up per token.              *)
(*                                                                         *)
(* A value is what it was made from: an activation is an expert and a      *)
(* token, a result an expert and an activation.  Everything but the trace  *)
(* is local to a run, so one run stands for each warmup and repetition.    *)
(***************************************************************************)
EXTENDS RowPartition, Sequences, FiniteSets

CONSTANTS
  CompiledTokens,  \* config.tokens, the guard of the plan
  RuntimeTokens,   \* numbers of tokens a run may have
  ExpertCount,     \* config.experts
  TopK,            \* config.top_k
  Schedules,       \* [strategy, scheduling, buckets, threshold, threads]
  Nothing          \* what an arena holds before it is written

ASSUME CompiledAssumption == CompiledTokens \in Nat \ {0}
ASSUME TokensAssumption == RuntimeTokens \subseteq Nat
ASSUME ExpertsAssumption == ExpertCount \in Nat \ {0} /\ TopK \in 1 .. ExpertCount
ASSUME SchedulesAssumption ==
  Schedules \subseteq [strategy : {"independent", "grouped", "bucketed"},
                       scheduling : {"fixed", "stealing", "split"},
                       buckets : SUBSET Int, threshold : Int, threads : Nat \ {0}]

Experts == 0 .. ExpertCount - 1
SlotsOf == 0 .. TopK - 1

ASSUME NothingAssumption == \A n \in RuntimeTokens : Nothing \notin (0 .. n - 1) \X SlotsOf

VARIABLES
  traced,      \* the run was given a routing trace: execute_moe checks the guard
  schedule,    \* plan.schedule
  tokens,      \* routing.tokens
  phase,       \* what the calling thread does
  experts,     \* routing.expert_ids, of the tokens routed so far
  counts,      \* routing.counts
  offsets,     \* the prefix sums of the counts: segment e begins at offsets[e + 1]
  route,       \* the route dispatch_tokens comes to next
  cursor,      \* where dispatch_tokens puts the next token of an expert
  rows,        \* the token and slot in each row of the segmented tensor
  planned,     \* the expert plan_moe_tasks comes to next
  tasks,       \* the tasks of plan_moe_tasks
  nextTask,    \* the atomic counter of the work-stealing workers
  stage,       \* where each worker is
  doing,       \* the task each worker has, or had
  activation,  \* the arena of W1, W3 and SwiGLU
  result,      \* the arena of W2
  combined,    \* the row the weighted sum comes to next
  output       \* the terms that were added to each token's output

routeVars == <<experts, counts>>
dispatchVars == <<offsets, route, cursor, rows>>
planVars == <<planned, tasks>>
workVars == <<nextTask, stage, doing, activation, result>>
sumVars == <<combined, output>>
vars == <<traced, schedule, tokens, phase, routeVars, dispatchVars, planVars, workVars, sumVars>>

Routes == 0 .. tokens * TopK - 1          \* also the rows: one per assignment
TokenOf(x) == x \div TopK
SlotOf(x) == x % TopK
ExpertOf(x) == experts[TokenOf(x) + 1][SlotOf(x) + 1]

MinOf(S) == CHOOSE x \in S : \A y \in S : x <= y
MaxOf(S) == CHOOSE x \in S : \A y \in S : y <= x

(* The buckets MoeCompiler::compile keeps; one kernel is compiled for each.*)
Buckets == LET given == {b \in schedule.buckets : b > 0}
           IN IF \A b \in given : b < CompiledTokens THEN given \cup {CompiledTokens}
              ELSE given

BucketFor(n) == IF \E b \in Buckets : n <= b THEN MinOf({b \in Buckets : n <= b})
                ELSE Greatest(n, MaxOf(Buckets))

Init ==
  /\ traced \in BOOLEAN
  /\ schedule \in Schedules
  /\ tokens \in RuntimeTokens
  /\ phase = "route"
  /\ experts = <<>>
  /\ counts = [e \in Experts |-> 0]
  /\ offsets = <<0>>
  /\ route = 0
  /\ cursor = [e \in Experts |-> 0]
  /\ rows = [r \in Routes |-> Nothing]
  /\ planned = 0
  /\ tasks = <<>>
  /\ nextTask = 0
  /\ stage = <<>>
  /\ doing = <<>>
  /\ activation = [r \in Routes |-> Nothing]
  /\ result = [r \in Routes |-> Nothing]
  /\ combined = 0
  /\ output = <<>>

-----------------------------------------------------------------------------
(* Routing: route_topk, and make_routing_trace which only draws otherwise. *)

(* The softmax and the partial sort give a token TopK different experts.   *)
RouteToken ==
  /\ phase = "route" /\ Len(experts) < tokens
  /\ \E chosen \in [1 .. TopK -> Experts] :
       /\ \A s, t \in 1 .. TopK : chosen[s] = chosen[t] => s = t
       /\ experts' = Append(experts, chosen)
       /\ counts' = [e \in Experts |->
            counts[e] + Cardinality({s \in 1 .. TopK : chosen[s] = e})]
  /\ UNCHANGED <<traced, schedule, tokens, phase, dispatchVars, planVars, workVars, sumVars>>

(* execute_moe with a trace compares it with the guard; the other overload *)
(* routes its input itself and goes on.                                    *)
Enter ==
  /\ phase = "route" /\ Len(experts) = tokens
  /\ phase' = IF traced /\ tokens > CompiledTokens THEN "rejected" ELSE "offsets"
  /\ UNCHANGED <<traced, schedule, tokens, routeVars, dispatchVars, planVars, workVars, sumVars>>

-----------------------------------------------------------------------------
(* dispatch_tokens: a counting sort.                                       *)

AddOffset ==
  /\ phase = "offsets" /\ Len(offsets) <= ExpertCount
  /\ offsets' = Append(offsets, offsets[Len(offsets)] + counts[Len(offsets) - 1])
  /\ UNCHANGED <<traced, schedule, tokens, phase, routeVars, route, cursor, rows, planVars,
                 workVars, sumVars>>

(* Mutant: the cursors are taken one off, at the end of each segment.      *)
BeginAtTheEnds ==
  /\ phase = "offsets" /\ Len(offsets) = ExpertCount + 1
  /\ phase' = "dispatch"
  /\ cursor' = [e \in Experts |-> offsets[e + 2]]
  /\ UNCHANGED <<traced, schedule, tokens, routeVars, offsets, route, rows, planVars,
                 workVars, sumVars>>

BeginDispatch ==
  /\ phase = "offsets" /\ Len(offsets) = ExpertCount + 1
  /\ phase' = "dispatch"
  /\ cursor' = [e \in Experts |-> offsets[e + 1]]
  /\ UNCHANGED <<traced, schedule, tokens, routeVars, offsets, route, rows, planVars,
                 workVars, sumVars>>

DispatchRoute ==
  /\ phase = "dispatch" /\ route \in Routes
  /\ LET e == ExpertOf(route)
     IN /\ rows' = [rows EXCEPT ![cursor[e]] = <<TokenOf(route), SlotOf(route)>>]
        /\ cursor' = [cursor EXCEPT ![e] = @ + 1]
  /\ route' = route + 1
  /\ UNCHANGED <<traced, schedule, tokens, phase, routeVars, offsets, planVars, workVars, sumVars>>

EndDispatch ==
  /\ phase = "dispatch" /\ route \notin Routes
  /\ phase' = "plan"
  /\ UNCHANGED <<traced, schedule, tokens, routeVars, dispatchVars, planVars, workVars, sumVars>>

-----------------------------------------------------------------------------
(* plan_moe_tasks.                                                         *)

Chunk(count) ==
  IF schedule.scheduling = "split" /\ count > schedule.threshold
    THEN Greatest(1, schedule.threshold) ELSE count

TaskBucket(size) ==
  IF schedule.strategy = "bucketed" THEN BucketFor(size) ELSE MaxOf(Buckets)

(* Mutant: the last task of a segment is not cut at its end. *)
TaskUncut(e, begin) ==
  LET end == begin + Chunk(counts[e])
  IN [expert |-> e, begin |-> begin, end |-> end, bucket |-> TaskBucket(end - begin)]

TaskAt(e, begin) ==
  LET end == Least(begin + Chunk(counts[e]), offsets[e + 2])
  IN [expert |-> e, begin |-> begin, end |-> end, bucket |-> TaskBucket(end - begin)]

PlanExpert ==
  /\ phase = "plan" /\ planned \in Experts
  /\ LET chunk == Chunk(counts[planned])
         number == IF counts[planned] = 0 THEN 0 ELSE CeilDiv(counts[planned], chunk)
     IN tasks' = tasks \o
          [i \in 1 .. number |-> TaskAt(planned, offsets[planned + 1] + (i - 1) * chunk)]
  /\ planned' = planned + 1
  /\ UNCHANGED <<traced, schedule, tokens, phase, routeVars, dispatchVars, workVars, sumVars>>

Size(task) == task.end - task.begin

(* The stable sort by descending size: what comes before a task.           *)
Precedes(i, j) ==
  \/ Size(tasks[i]) > Size(tasks[j])
  \/ Size(tasks[i]) = Size(tasks[j]) /\ i < j

Place(j) == 1 + Cardinality({i \in DOMAIN tasks : Precedes(i, j)})
Sorted == [n \in DOMAIN tasks |-> tasks[CHOOSE j \in DOMAIN tasks : Place(j) = n]]

(* How many threads run the tasks; a single one is the calling thread.     *)
WorkerCountFor(taskCount) ==
  IF schedule.strategy = "independent" THEN 1
  ELSE Greatest(1, Least(schedule.threads, Greatest(1, taskCount)))

StartWorkers ==
  /\ phase = "plan" /\ planned \notin Experts
  /\ phase' = "run"
  /\ tasks' = IF schedule.scheduling = "fixed" THEN tasks ELSE Sorted
  /\ stage' = [w \in 0 .. WorkerCountFor(Len(tasks)) - 1 |-> "next"]
  /\ doing' = [w \in 0 .. WorkerCountFor(Len(tasks)) - 1 |-> 0]
  /\ UNCHANGED <<traced, schedule, tokens, routeVars, dispatchVars, planned, nextTask,
                 activation, result, sumVars>>

-----------------------------------------------------------------------------
(* The workers of execute_once.                                            *)

Workers == DOMAIN stage
Steals == schedule.scheduling # "fixed" /\ Cardinality(Workers) > 1

(* next_task.fetch_add(1).                                                 *)
StealTask(w) ==
  /\ phase = "run" /\ stage[w] = "next" /\ Steals
  /\ nextTask' = nextTask + 1
  /\ IF nextTask < Len(tasks)
       THEN /\ doing' = [doing EXCEPT ![w] = nextTask + 1]
            /\ stage' = [stage EXCEPT ![w] = "widen"]
       ELSE /\ stage' = [stage EXCEPT ![w] = "left"]
            /\ UNCHANGED doing
  /\ UNCHANGED <<traced, schedule, tokens, phase, routeVars, dispatchVars, planVars,
                 activation, result, sumVars>>

(* Mutant: the tasks go to the preferred workers of the plan, which are    *)
(* counted by the threads that were asked for, not by those that run.      *)
PreferredTasks(w) == {i \in DOMAIN tasks : tasks[i].expert % schedule.threads = w}

(* A worker without the counter goes through the list and takes its own;   *)
(* a single worker takes every task.                                       *)
OwnTasks(w) == {i \in DOMAIN tasks : tasks[i].expert % Cardinality(Workers) = w}

NextOwnTask(w) ==
  LET ahead == {i \in OwnTasks(w) : i > doing[w]}
  IN /\ phase = "run" /\ stage[w] = "next" /\ ~Steals
     /\ IF ahead # {}
          THEN /\ doing' = [doing EXCEPT ![w] = MinOf(ahead)]
               /\ stage' = [stage EXCEPT ![w] = "widen"]
          ELSE /\ stage' = [stage EXCEPT ![w] = "left"]
               /\ UNCHANGED doing
     /\ UNCHANGED <<traced, schedule, tokens, phase, routeVars, dispatchVars, planVars,
                    nextTask, activation, result, sumVars>>

Slice(w) == tasks[doing[w]].begin .. tasks[doing[w]].end - 1

(* compute_task: W1, W3 and SwiGLU fill the activations of the slice ...   *)
Widen(w) ==
  /\ phase = "run" /\ stage[w] = "widen"
  /\ activation' = [r \in Routes |->
       IF r \in Slice(w) THEN <<tasks[doing[w]].expert, rows[r][1]>> ELSE activation[r]]
  /\ stage' = [stage EXCEPT ![w] = "narrow"]
  /\ UNCHANGED <<traced, schedule, tokens, phase, routeVars, dispatchVars, planVars,
                 nextTask, doing, result, sumVars>>

(* ... and W2 reads them and stores the results.                           *)
Narrow(w) ==
  /\ phase = "run" /\ stage[w] = "narrow"
  /\ result' = [r \in Routes |->
       IF r \in Slice(w) THEN <<tasks[doing[w]].expert, activation[r]>> ELSE result[r]]
  /\ stage' = [stage EXCEPT ![w] = "next"]
  /\ UNCHANGED <<traced, schedule, tokens, phase, routeVars, dispatchVars, planVars,
                 nextTask, doing, activation, sumVars>>

(* The threads are joined.                                                 *)
Join ==
  /\ phase = "run" /\ \A w \in Workers : stage[w] = "left"
  /\ phase' = "combine"
  /\ output' = [t \in 0 .. tokens - 1 |-> <<>>]
  /\ UNCHANGED <<traced, schedule, tokens, routeVars, dispatchVars, planVars, workVars, combined>>

(* The weighted sum: each row, in their order, adds to its token's output. *)
CombineRow ==
  /\ phase = "combine" /\ combined \in Routes
  /\ output' = [output EXCEPT ![rows[combined][1]] =
                   Append(@, <<rows[combined][2], result[combined]>>)]
  /\ combined' = combined + 1
  /\ UNCHANGED <<traced, schedule, tokens, phase, routeVars, dispatchVars, planVars, workVars>>

Return ==
  /\ phase = "combine" /\ combined \notin Routes
  /\ phase' = "done"
  /\ UNCHANGED <<traced, schedule, tokens, routeVars, dispatchVars, planVars, workVars, sumVars>>

Terminated == phase \in {"done", "rejected"} /\ UNCHANGED vars

WorkerStep(w) == StealTask(w) \/ NextOwnTask(w) \/ Widen(w) \/ Narrow(w)

Next ==
  \/ RouteToken \/ Enter
  \/ AddOffset \/ BeginDispatch \/ DispatchRoute \/ EndDispatch
  \/ PlanExpert \/ StartWorkers
  \/ \E w \in Workers : WorkerStep(w)
  \/ Join \/ CombineRow \/ Return \/ Terminated

Spec == Init /\ [][Next]_vars

-----------------------------------------------------------------------------
(* "Stable Token Dispatch" (docs/MOE_COMPILER.md): while the routes are    *)
(* sorted no row is filled twice, and when they are, segment e holds the   *)
(* assignments of expert e, in the order of their tokens.                  *)
SegmentsHoldTheirTokens ==
  /\ phase = "dispatch" => Cardinality({r \in Routes : rows[r] # Nothing}) = route
  /\ phase \in {"plan", "run", "combine", "done"} => \A e \in Experts :
       LET segment == offsets[e + 1] .. offsets[e + 2] - 1
       IN /\ \A r \in segment : experts[rows[r][1] + 1][rows[r][2] + 1] = e
          /\ \A q, r \in segment : q < r => rows[q][1] < rows[r][1]
          /\ Cardinality(segment) = counts[e]

(* The tasks are disjoint, each lies in the segment of its expert, and     *)
(* together they are all rows, however the segments are split and sorted.  *)
TasksPartitionSegments ==
  phase \in {"run", "combine", "done"} =>
    /\ \A i \in DOMAIN tasks : LET task == tasks[i] IN
         /\ offsets[task.expert + 1] <= task.begin
         /\ task.begin < task.end
         /\ task.end <= offsets[task.expert + 2]
    /\ \A r \in Routes : \E i \in DOMAIN tasks :
         /\ r \in tasks[i].begin .. tasks[i].end - 1
         /\ \A j \in DOMAIN tasks : r \in tasks[j].begin .. tasks[j].end - 1 => j = i

(* Workers write the shared arenas without a lock: the slices two of them  *)
(* have at one time are disjoint.                                          *)
SlicesAreExclusive ==
  \A v, w \in Workers :
    v # w /\ stage[v] \in {"widen", "narrow"} /\ stage[w] \in {"widen", "narrow"}
      => Slice(v) \cap Slice(w) = {}

(* Every strategy, scheduler and number of workers returns the sum of      *)
(* reference_moe: for each token one term per slot, computed with the      *)
(* weights of the expert in that slot, from that token.                    *)
ReturnsReference ==
  phase = "done" => \A t \in 0 .. tokens - 1 :
    /\ Len(output[t]) = TopK
    /\ {output[t][i] : i \in 1 .. TopK} =
         {LET e == experts[t + 1][s + 1] IN <<s, <<e, <<e, t>>>>>> : s \in SlotsOf}

=============================================================================

-------------------------- MODULE MoeRuntimeProofs --------------------------
(***************************************************************************)
(* A run of the mixture-of-experts layer is right for every number of      *)
(* tokens, experts and slots, every schedule and every interleaving of its *)
(* workers.  The invariant follows the phases: what the counts and offsets *)
(* count, which routes the counting sort has placed, which rows the tasks  *)
(* of the plan cover, which tasks are finished, which terms are added.     *)
(***************************************************************************)
EXTENDS MoeRuntime, RowPartitionProofs, FiniteSetTheorems, WellFoundedInduction

Early == phase \in {"route", "rejected"}
Dispatching == phase \in {"dispatch", "plan", "run", "combine", "done"}
Planning == phase \in {"plan", "run", "combine", "done"}
Running == phase \in {"run", "combine", "done"}
Summing == phase \in {"combine", "done"}

Assigned(e, n) == {x \in 0 .. n - 1 : ExpertOf(x) = e}
Below(e) == {x \in Routes : ExpertOf(x) < e}
RouteOf(x) == <<TokenOf(x), SlotOf(x)>>

RunInv ==
  /\ traced \in BOOLEAN /\ schedule \in Schedules /\ tokens \in RuntimeTokens
  /\ phase = "offsets" \/ Early \/ Dispatching

(* The counts are those of the routes of the tokens routed so far. *)
RoutingInv ==
  /\ experts \in Seq([1 .. TopK -> Experts])
  /\ Len(experts) <= tokens
  /\ phase # "route" => Len(experts) = tokens
  /\ \A i \in 1 .. Len(experts) : \A s, t \in 1 .. TopK :
       experts[i][s] = experts[i][t] => s = t
  /\ counts \in [Experts -> Nat]
  /\ \A e \in Experts : counts[e] = Cardinality(Assigned(e, Len(experts) * TopK))

(* The offset of an expert counts the routes to the experts before it. *)
OffsetsCount == \A i \in 1 .. Len(offsets) : offsets[i] = Cardinality(Below(i - 1))

OffsetsInv ==
  /\ offsets \in Seq(Nat) /\ Len(offsets) \in 1 .. ExpertCount + 1
  /\ Early => offsets = <<0>>
  /\ ~Early => OffsetsCount
  /\ Dispatching => Len(offsets) = ExpertCount + 1

(* The sort has placed the first routes, each at the end of what is filled *)
(* of the segment of its expert.                                           *)
Filled(e) == offsets[e + 1] .. cursor[e] - 1
Full == {r \in Routes : rows[r] # Nothing}

CursorsCount == \A e \in Experts : cursor[e] = offsets[e + 1] + Cardinality(Assigned(e, route))
FilledRows ==
  \A e \in Experts : \A r \in Filled(e) :
    /\ r \in Full
    /\ \E x \in 0 .. route - 1 : rows[r] = RouteOf(x) /\ ExpertOf(x) = e
FilledInOrder ==
  \A e \in Experts : \A q, r \in Filled(e) : q < r => rows[q][1] < rows[r][1]
FullIsFilled == \A r \in Full : \E e \in Experts : r \in Filled(e)
EachPlacedOnce ==
  /\ \A q, r \in Full : rows[q] = rows[r] => q = r
  /\ \A x \in 0 .. route - 1 : \E r \in Full : rows[r] = RouteOf(x)
  /\ Cardinality(Full) = route
Placed == CursorsCount /\ FilledRows /\ FilledInOrder /\ FullIsFilled /\ EachPlacedOnce

DispatchInv ==
  /\ rows \in [Routes -> ((0 .. tokens - 1) \X SlotsOf) \cup {Nothing}]
  /\ cursor \in [Experts -> Nat] /\ route \in 0 .. tokens * TopK
  /\ ~Dispatching => route = 0 /\ \A r \in Routes : rows[r] = Nothing
  /\ Planning => route = tokens * TopK
  /\ Dispatching => Placed

(* The tasks planned so far are the rows of the experts planned so far. *)
SliceOf(i) == tasks[i].begin .. tasks[i].end - 1
TaskSet == [expert : Experts, begin : Nat, end : Nat,
            bucket : {TaskBucket(n) : n \in 0 .. tokens * TopK}]

InSegment(task) ==
  /\ offsets[task.expert + 1] <= task.begin
  /\ task.begin < task.end
  /\ task.end <= offsets[task.expert + 2]
Apart(i, j) == tasks[i].end <= tasks[j].begin \/ tasks[j].end <= tasks[i].begin
Partitioned ==
  /\ \A i \in 1 .. Len(tasks) : InSegment(tasks[i]) /\ tasks[i].end <= offsets[planned + 1]
  /\ \A i, j \in 1 .. Len(tasks) : i # j => Apart(i, j)
  /\ \A r \in 0 .. offsets[planned + 1] - 1 :
       \E i \in 1 .. Len(tasks) : tasks[i].begin <= r /\ r < tasks[i].end

PlanInv ==
  /\ planned \in 0 .. ExpertCount
  /\ tasks \in Seq(TaskSet)
  /\ ~Planning => planned = 0 /\ tasks = <<>>
  /\ Running => planned = ExpertCount
  /\ Planning => Partitioned

(* A task is taken once; when it is finished its rows have their results. *)
Busy(w) == stage[w] \in {"widen", "narrow"}
Taken(i) == IF Steals THEN i <= nextTask ELSE \E w \in Workers : i \in OwnTasks(w) /\ i <= doing[w]
Finished(i) == Taken(i) /\ \A w \in Workers : doing[w] = i => ~Busy(w)

Activated(e, r) == <<e, rows[r][1]>>
TakesTurns(w) ==
  /\ Busy(w) => doing[w] # 0
  /\ IF Steals THEN doing[w] <= nextTask ELSE doing[w] # 0 => doing[w] \in OwnTasks(w)
  /\ stage[w] = "left" =>
       IF Steals THEN Len(tasks) <= nextTask ELSE \A i \in OwnTasks(w) : i <= doing[w]
TakenOnce ==
  /\ \A w \in Workers : TakesTurns(w)
  /\ \A v, w \in Workers : v # w /\ doing[v] = doing[w] => doing[v] = 0
Widened ==
  \A w \in Workers : stage[w] = "narrow" =>
    \A r \in Slice(w) : activation[r] = Activated(tasks[doing[w]].expert, r)
Narrowed ==
  \A i \in 1 .. Len(tasks) : Finished(i) =>
    \A r \in SliceOf(i) : result[r] = <<tasks[i].expert, Activated(tasks[i].expert, r)>>

Team(n) ==
  /\ stage \in [0 .. n - 1 -> {"next", "widen", "narrow", "left"}]
  /\ doing \in [0 .. n - 1 -> 0 .. Len(tasks)]

WorkInv ==
  /\ ~Running => stage = <<>> /\ doing = <<>> /\ nextTask = 0
  /\ Running => \E n \in Nat \ {0} : Team(n)
  /\ nextTask \in Nat
  /\ DOMAIN activation = Routes /\ DOMAIN result = Routes
  /\ Running => TakenOnce /\ Widened /\ Narrowed
  /\ Summing => \A w \in Workers : stage[w] = "left"

(* The rows added so far are the terms of their tokens. *)
Term(r) == <<rows[r][2], result[r]>>
RowsOfToken(t, n) == {r \in 0 .. n - 1 : rows[r][1] = t}
Terms == SlotsOf \X (Experts \X (Experts \X (0 .. tokens - 1)))
Summed ==
  \A t \in 0 .. tokens - 1 :
    /\ Len(output[t]) = Cardinality(RowsOfToken(t, combined))
    /\ {output[t][i] : i \in 1 .. Len(output[t])} = {Term(r) : r \in RowsOfToken(t, combined)}

CombineInv ==
  /\ combined \in 0 .. tokens * TopK
  /\ ~Summing => combined = 0
  /\ Summing => output \in [0 .. tokens - 1 -> Seq(Terms)] /\ Summed
  /\ phase = "done" => combined = tokens * TopK

IInv == RunInv /\ RoutingInv /\ OffsetsInv /\ DispatchInv /\ PlanInv /\ WorkInv /\ CombineInv

-----------------------------------------------------------------------------
(* Routes and rows are numbered alike: a token and a slot for each.        *)
LEMMA TokensType == RunInv => tokens \in Nat /\ TopK \in Nat \ {0} /\ tokens * TopK \in Nat
BY TokensAssumption, ExpertsAssumption DEF RunInv

LEMMA RouteParts ==
  ASSUME NEW n \in Nat, NEW x \in 0 .. n * TopK - 1
  PROVE  TokenOf(x) \in 0 .. n - 1 /\ SlotOf(x) \in SlotsOf /\ x = TopK * TokenOf(x) + SlotOf(x)
<1>1. TopK \in Nat \ {0}
  BY ExpertsAssumption
<1> QED
  BY <1>1, FlatParts DEF TokenOf, SlotOf, SlotsOf

LEMMA RouteIs ==
  ASSUME NEW n \in Nat, NEW t \in 0 .. n - 1, NEW s \in SlotsOf
  PROVE  /\ TopK * t + s \in 0 .. n * TopK - 1
         /\ TokenOf(TopK * t + s) = t /\ SlotOf(TopK * t + s) = s
<1>1. TopK \in Nat \ {0} /\ s \in 0 .. TopK - 1
  BY ExpertsAssumption DEF SlotsOf
<1> QED
  BY <1>1, FlatIs DEF TokenOf, SlotOf

LEMMA RouteOfInjective ==
  ASSUME NEW n \in Nat, NEW x \in 0 .. n * TopK - 1, NEW y \in 0 .. n * TopK - 1,
         RouteOf(x) = RouteOf(y)
  PROVE  x = y
BY RouteParts DEF RouteOf

LEMMA TokenMonotone ==
  ASSUME NEW x \in Nat, NEW y \in Nat, x <= y
  PROVE  TokenOf(x) <= TokenOf(y)
BY ExpertsAssumption, DivMonotone DEF TokenOf

-----------------------------------------------------------------------------
(* Counting routes. *)
LEMMA AssignedFinite ==
  ASSUME NEW e, NEW n \in Int
  PROVE  IsFiniteSet(Assigned(e, n)) /\ Cardinality(Assigned(e, n)) \in Nat
<1>1. Assigned(e, n) \in SUBSET (0 .. n - 1)
  BY DEF Assigned
<1>2. IsFiniteSet(0 .. n - 1)
  BY FS_Interval
<1> QED
  BY <1>1, <1>2, FS_Subset, FS_CardinalityType

LEMMA BelowFinite ==
  ASSUME RunInv, NEW e
  PROVE  IsFiniteSet(Below(e)) /\ Cardinality(Below(e)) \in Nat
<1>1. Below(e) \in SUBSET (0 .. tokens * TopK - 1)
  BY DEF Below, Routes
<1>2. IsFiniteSet(0 .. tokens * TopK - 1)
  BY TokensType, FS_Interval
<1> QED
  BY <1>1, <1>2, FS_Subset, FS_CardinalityType

LEMMA AssignedStep ==
  ASSUME NEW e, NEW n \in Nat
  PROVE  Cardinality(Assigned(e, n + 1)) =
           Cardinality(Assigned(e, n)) + (IF ExpertOf(n) = e THEN 1 ELSE 0)
<1>1. CASE ExpertOf(n) = e
  <2>1. Assigned(e, n + 1) = Assigned(e, n) \cup {n} /\ n \notin Assigned(e, n)
    BY <1>1 DEF Assigned
  <2> QED
    BY <1>1, <2>1, AssignedFinite, FS_AddElement
<1>2. CASE ExpertOf(n) # e
  <2>1. Assigned(e, n + 1) = Assigned(e, n)
    BY <1>2 DEF Assigned
  <2> QED
    BY <1>2, <2>1, AssignedFinite
<1> QED
  BY <1>1, <1>2

LEMMA AssignedMonotone ==
  ASSUME NEW e, NEW m \in Int, NEW n \in Int, m <= n
  PROVE  Cardinality(Assigned(e, m)) <= Cardinality(Assigned(e, n))
<1>1. Assigned(e, m) \in SUBSET Assigned(e, n)
  BY DEF Assigned
<1> QED
  BY <1>1, AssignedFinite, FS_Subset

LEMMA ExpertType ==
  ASSUME RoutingInv, NEW x \in 0 .. Len(experts) * TopK - 1
  PROVE  ExpertOf(x) \in Experts
<1>1. Len(experts) \in Nat
  BY DEF RoutingInv
<1>2. TokenOf(x) \in 0 .. Len(experts) - 1 /\ SlotOf(x) \in SlotsOf
  BY <1>1, RouteParts
<1>3. TokenOf(x) + 1 \in 1 .. Len(experts) /\ SlotOf(x) + 1 \in 1 .. TopK
  BY <1>1, <1>2, ExpertsAssumption DEF SlotsOf
<1>4. experts[TokenOf(x) + 1] \in [1 .. TopK -> Experts]
  BY <1>3 DEF RoutingInv
<1> QED
  BY <1>3, <1>4 DEF ExpertOf

(* A token has at most one route to an expert. *)
LEMMA OneRoutePerToken ==
  ASSUME RoutingInv, NEW x \in 0 .. Len(experts) * TopK - 1,
         NEW y \in 0 .. Len(experts) * TopK - 1,
         TokenOf(x) = TokenOf(y), ExpertOf(x) = ExpertOf(y)
  PROVE  x = y
<1>1. Len(experts) \in Nat
  BY DEF RoutingInv
<1> DEFINE n == Len(experts)
<1>5. TokenOf(x) \in 0 .. n - 1 /\ SlotOf(x) \in SlotsOf /\ SlotOf(y) \in SlotsOf
  BY <1>1, RouteParts
<1>2. /\ TokenOf(x) + 1 \in 1 .. n
      /\ SlotOf(x) + 1 \in 1 .. TopK /\ SlotOf(y) + 1 \in 1 .. TopK
  <2>1. n \in Nat /\ TopK \in Nat
    BY <1>1, ExpertsAssumption
  <2>2. TokenOf(x) + 1 \in 1 .. n
    BY <2>1, <1>5
  <2>3. SlotOf(x) + 1 \in 1 .. TopK
    BY <2>1, <1>5 DEF SlotsOf
  <2>4. SlotOf(y) + 1 \in 1 .. TopK
    BY <2>1, <1>5 DEF SlotsOf
  <2> QED
    BY <2>2, <2>3, <2>4
<1>3. SlotOf(x) + 1 = SlotOf(y) + 1
  BY <1>2 DEF RoutingInv, ExpertOf
<1>4. SlotOf(x) = SlotOf(y)
  BY <1>1, <1>3, RouteParts DEF SlotsOf
<1> QED
  BY <1>1, <1>4, RouteOfInjective DEF RouteOf

LEMMA BelowStep ==
  ASSUME RunInv, RoutingInv, Len(experts) = tokens, NEW e \in Experts
  PROVE  Cardinality(Below(e + 1)) = Cardinality(Below(e)) + counts[e]
<1> DEFINE A == Assigned(e, tokens * TopK)
<1>1. \A x \in Routes : ExpertOf(x) \in Int
  BY ExpertType DEF Routes, Experts
<1>2. e \in Int
  BY DEF Experts
<1>3. Below(e + 1) = Below(e) \cup A /\ Below(e) \cap A = {}
  BY <1>1, <1>2 DEF Below, Assigned, Routes
<1>4. /\ IsFiniteSet(Below(e)) /\ Cardinality(Below(e)) \in Nat
      /\ IsFiniteSet(A) /\ Cardinality(A) \in Nat
  BY BelowFinite, AssignedFinite, TokensType
<1>5. Cardinality(Below(e) \cup A) =
        Cardinality(Below(e)) + Cardinality(A) - Cardinality(Below(e) \cap A)
  BY <1>4, FS_Union
<1>6. Cardinality(Below(e) \cap A) = 0
  BY <1>3, FS_EmptySet
<1>7. Cardinality(A) = counts[e]
  BY DEF RoutingInv
<1>8. Cardinality(Below(e) \cup A) = Cardinality(Below(e)) + counts[e]
  <2> HIDE DEF A
  <2> QED
    BY <1>4, <1>5, <1>6, <1>7
<1> QED
  BY <1>3, <1>8

LEMMA BelowEnds ==
  ASSUME RunInv, RoutingInv, Len(experts) = tokens
  PROVE  Cardinality(Below(0)) = 0 /\ Cardinality(Below(ExpertCount)) = tokens * TopK
<1>1. \A x \in Routes : ExpertOf(x) \in 0 .. ExpertCount - 1
  BY ExpertType DEF Routes, Experts
<1>2. Below(0) = {} /\ Below(ExpertCount) = 0 .. tokens * TopK - 1
  BY <1>1, ExpertsAssumption DEF Below, Routes
<1>3. Cardinality(0 .. tokens * TopK - 1) = tokens * TopK
  <2>1. PICK m \in Nat : m = tokens * TopK
    BY TokensType
  <2>2. Cardinality(0 .. m - 1) = m
    BY FS_Interval
  <2> QED
    BY <2>1, <2>2
<1> QED
  BY <1>2, <1>3, FS_EmptySet

LEMMA BelowMonotone ==
  ASSUME RunInv, RoutingInv, Len(experts) = tokens, NEW d \in Int, NEW e \in Int, d <= e
  PROVE  Cardinality(Below(d)) <= Cardinality(Below(e))
<1>1. \A x \in Routes : ExpertOf(x) \in Int
  BY ExpertType DEF Routes, Experts
<1>2. Below(d) \in SUBSET Below(e)
  BY <1>1 DEF Below
<1> QED
  BY <1>2, BelowFinite, FS_Subset

(* While and after the routes are sorted: the segments lie one after the   *)
(* other, as long as the counts say, up to the last row.                   *)
LEMMA OffsetsStep ==
  ASSUME RunInv, RoutingInv, OffsetsInv, Dispatching
  PROVE  /\ \A e \in 0 .. ExpertCount : offsets[e + 1] = Cardinality(Below(e)) /\ offsets[e + 1] \in Nat
         /\ \A e \in Experts : offsets[e + 2] = offsets[e + 1] + counts[e] /\ offsets[e + 2] \in Nat
         /\ \A d, e \in 0 .. ExpertCount : d <= e => offsets[d + 1] <= offsets[e + 1]
         /\ offsets[1] = 0 /\ offsets[ExpertCount + 1] = tokens * TopK
<1>1. Len(experts) = tokens /\ Len(offsets) = ExpertCount + 1 /\ ExpertCount \in Nat \ {0}
  BY ExpertsAssumption DEF Dispatching, RoutingInv, OffsetsInv
<1>2. ASSUME NEW e \in 0 .. ExpertCount
      PROVE  offsets[e + 1] = Cardinality(Below(e)) /\ offsets[e + 1] \in Nat
  <2>1. e + 1 \in 1 .. Len(offsets) /\ (e + 1) - 1 = e
    BY <1>1
  <2>2. offsets[e + 1] = Cardinality(Below((e + 1) - 1))
    BY <2>1 DEF OffsetsInv, OffsetsCount, Dispatching, Early
  <2>3. offsets[e + 1] \in Nat
    BY <2>1 DEF OffsetsInv
  <2> QED
    BY <2>1, <2>2, <2>3
<1>3. ASSUME NEW e \in Experts
      PROVE  offsets[e + 2] = offsets[e + 1] + counts[e] /\ offsets[e + 2] \in Nat
  <2>1. e \in 0 .. ExpertCount /\ e + 1 \in 0 .. ExpertCount /\ (e + 1) + 1 = e + 2
    BY <1>1 DEF Experts
  <2>2. offsets[e + 1] = Cardinality(Below(e))
    BY <1>2, <2>1
  <2>3. offsets[e + 2] = Cardinality(Below(e + 1)) /\ offsets[e + 2] \in Nat
    BY <1>2, <2>1
  <2> QED
    BY <1>1, <2>2, <2>3, BelowStep
<1>4. ASSUME NEW d \in 0 .. ExpertCount, NEW e \in 0 .. ExpertCount, d <= e
      PROVE  offsets[d + 1] <= offsets[e + 1]
  <2>1. Cardinality(Below(d)) <= Cardinality(Below(e))
    BY <1>1, <1>4, BelowMonotone
  <2> QED
    BY <1>2, <2>1
<1>5. offsets[0 + 1] = 0 /\ offsets[ExpertCount + 1] = tokens * TopK
  BY <1>1, <1>2, BelowEnds
<1> QED
  BY <1>2, <1>3, <1>4, <1>5

-----------------------------------------------------------------------------
(* What a step leaves alone. *)
LEMMA SortUntouched ==
  ASSUME DispatchInv, UNCHANGED <<tokens, experts, offsets, rows, cursor, route>>,
         Dispatching' = Dispatching, Planning' => Planning \/ route = tokens * TopK
  PROVE  DispatchInv'
<1>1. /\ Routes' = Routes /\ Full' = Full
      /\ \A e : Filled(e)' = Filled(e)
      /\ \A x : ExpertOf(x)' = ExpertOf(x)
  BY DEF Routes, Full, Filled, ExpertOf
<1>2. \A e, n : Assigned(e, n)' = Assigned(e, n)
  BY <1>1 DEF Assigned
<1>3. CursorsCount' = CursorsCount
  BY <1>2 DEF CursorsCount
<1>4. FilledRows' = FilledRows
  BY <1>1 DEF FilledRows, RouteOf
<1>5. FilledInOrder' = FilledInOrder
  BY <1>1 DEF FilledInOrder
<1>6. FullIsFilled' = FullIsFilled
  BY <1>1 DEF FullIsFilled
<1>7. EachPlacedOnce' = EachPlacedOnce
  BY <1>1 DEF EachPlacedOnce, RouteOf
<1>8. Placed => Placed'
  BY <1>3, <1>4, <1>5, <1>6, <1>7 DEF Placed
<1> QED
  BY <1>1, <1>8 DEF DispatchInv

LEMMA RoutesUntouched ==
  ASSUME RoutingInv, UNCHANGED <<tokens, experts, counts>>,
         phase' # "route" => Len(experts) = tokens
  PROVE  RoutingInv'
<1>1. \A x : ExpertOf(x)' = ExpertOf(x)
  BY DEF ExpertOf
<1>2. \A e, n : Assigned(e, n)' = Assigned(e, n)
  BY <1>1 DEF Assigned
<1> QED
  BY <1>2 DEF RoutingInv

LEMMA OffsetsUntouched ==
  ASSUME OffsetsInv, UNCHANGED <<tokens, experts, offsets>>,
         Early' = Early, Dispatching' = Dispatching
  PROVE  OffsetsInv'
<1>1. \A x : ExpertOf(x)' = ExpertOf(x)
  BY DEF ExpertOf
<1>2. \A e : Below(e)' = Below(e)
  BY <1>1 DEF Below, Routes
<1>3. OffsetsCount' = OffsetsCount
  BY <1>2 DEF OffsetsCount
<1> QED
  BY <1>3 DEF OffsetsInv

LEMMA PlanUntouched ==
  ASSUME PlanInv, UNCHANGED <<schedule, tokens, offsets, planned, tasks>>,
         Planning' = Planning, Running' = Running
  PROVE  PlanInv'
<1>1. TaskSet' = TaskSet
  BY DEF TaskSet, TaskBucket, BucketFor, Buckets
<1>2. Partitioned' = Partitioned
  BY DEF Partitioned, InSegment, Apart
<1> QED
  BY <1>1, <1>2 DEF PlanInv

LEMMA WorkUntouched ==
  ASSUME WorkInv, UNCHANGED <<schedule, tokens, rows, tasks, nextTask, stage, doing, activation, result>>,
         Running' = Running, Summing' => Summing \/ \A w \in Workers : stage[w] = "left"
  PROVE  WorkInv'
<1>1. /\ Routes' = Routes /\ Workers' = Workers /\ Steals' = Steals
      /\ \A w : OwnTasks(w)' = OwnTasks(w)
  BY DEF Routes, Workers, Steals, OwnTasks
<1>2. TakenOnce' = TakenOnce
  BY <1>1 DEF TakenOnce, TakesTurns, Busy
<1>3. Widened' = Widened
  BY <1>1 DEF Widened, Activated, Slice
<1>4. \A i : Finished(i)' = Finished(i)
  BY <1>1 DEF Finished, Taken, Busy
<1>5. Narrowed' = Narrowed
  BY <1>4 DEF Narrowed, Activated, SliceOf
<1>6. \A n : Team(n)' = Team(n)
  BY DEF Team
<1> QED
  BY <1>1, <1>2, <1>3, <1>5, <1>6 DEF WorkInv

LEMMA SumUntouched ==
  ASSUME CombineInv, UNCHANGED <<tokens, rows, result, combined, output>>,
         Summing' = Summing, phase' = "done" => phase = "done" \/ combined = tokens * TopK
  PROVE  CombineInv'
<1>1. Summed' = Summed
  BY DEF Summed, Term, RowsOfToken
<1> QED
  BY <1>1 DEF CombineInv, Terms

-----------------------------------------------------------------------------
(* The invariant holds at first, and routing keeps it. *)
LEMMA InitIInv == Init => IInv
<1> SUFFICES ASSUME Init PROVE IInv
  OBVIOUS
<1>1. RunInv /\ tokens \in Nat /\ TopK \in Nat \ {0} /\ tokens * TopK \in Nat
  BY TokensAssumption, ExpertsAssumption DEF Init, RunInv, Early
<1>2. RoutingInv
  <2>1. \A e : Assigned(e, 0 * TopK) = {}
    BY <1>1 DEF Assigned
  <2>2. \A e : Cardinality(Assigned(e, 0 * TopK)) = 0
    BY <2>1, FS_EmptySet
  <2> QED
    BY <1>1, <2>2 DEF Init, RoutingInv
<1>3. OffsetsInv
  BY ExpertsAssumption DEF Init, OffsetsInv, Early, Dispatching
<1>4. DispatchInv
  BY <1>1 DEF Init, DispatchInv, Dispatching, Planning
<1>5. PlanInv
  BY ExpertsAssumption DEF Init, PlanInv, Planning, Running
<1>6. WorkInv
  BY DEF Init, WorkInv, Running, Summing
<1>7. CombineInv
  BY <1>1 DEF Init, CombineInv, Summing
<1> QED
  BY <1>1, <1>2, <1>3, <1>4, <1>5, <1>6, <1>7 DEF IInv

(* A token adds a route for each of its slots. *)
LEMMA RouteTokenCounts ==
  ASSUME RunInv, RoutingInv, NEW chosen \in [1 .. TopK -> Experts],
         \A s, t \in 1 .. TopK : chosen[s] = chosen[t] => s = t,
         experts' = Append(experts, chosen), NEW e
  PROVE  Cardinality(Assigned(e, Len(experts) * TopK)') =
           Cardinality(Assigned(e, Len(experts) * TopK))
             + Cardinality({s \in 1 .. TopK : chosen[s] = e})
<1>1. PICK n \in Nat : n = Len(experts)
  BY DEF RoutingInv
<1>2. TopK \in Nat \ {0} /\ Len(experts') = n + 1 /\ experts'[n + 1] = chosen
      /\ \A i \in 1 .. n : experts'[i] = experts[i]
  BY <1>1, ExpertsAssumption DEF RoutingInv
<1>3. PICK a \in Nat : a = n * TopK /\ a = TopK * n /\ (n + 1) * TopK = a + TopK
  BY <1>2
<1> DEFINE old == {x \in 0 .. a - 1 : ExpertOf(x) = e}
           new == {x \in 0 .. a + TopK - 1 : ExpertOf(x)' = e}
           slots == {s \in 1 .. TopK : chosen[s] = e}
<1>4. Assigned(e, Len(experts) * TopK) = old
  BY <1>1, <1>3 DEF Assigned
<1>5. Assigned(e, Len(experts) * TopK)' = new
  BY <1>2, <1>3 DEF Assigned
<1>6. ASSUME NEW x \in 0 .. a - 1 PROVE ExpertOf(x)' = ExpertOf(x)
  <2>1. x \in 0 .. n * TopK - 1
    BY <1>3
  <2>2. TokenOf(x) \in 0 .. n - 1
    BY <2>1, RouteParts
  <2>3. TokenOf(x) + 1 \in 1 .. n
    BY <2>2
  <2>4. experts'[TokenOf(x) + 1] = experts[TokenOf(x) + 1]
    BY <1>2, <2>3
  <2> QED
    BY <2>4 DEF ExpertOf
<1>7. ASSUME NEW s \in 1 .. TopK, NEW x, x = a + (s - 1) PROVE ExpertOf(x)' = chosen[s]
  <2>1. s - 1 \in SlotsOf /\ n \in 0 .. (n + 1) - 1 /\ n + 1 \in Nat
    BY <1>2 DEF SlotsOf
  <2>2. TokenOf(TopK * n + (s - 1)) = n /\ SlotOf(TopK * n + (s - 1)) = s - 1
    BY <2>1, RouteIs
  <2>3. TokenOf(x) = n /\ SlotOf(x) = s - 1
    BY <1>3, <1>7, <2>2
  <2>4. SlotOf(x) + 1 = s
    BY <2>3
  <2>5. ExpertOf(x)' = experts'[TokenOf(x) + 1][SlotOf(x) + 1]
    BY DEF ExpertOf
  <2> QED
    BY <1>2, <2>3, <2>4, <2>5
<1>8. IsFiniteSet(old) /\ Cardinality(old) \in Nat
  <2>1. a \in Int /\ Assigned(e, a) = old
    BY DEF Assigned
  <2>2. IsFiniteSet(Assigned(e, a)) /\ Cardinality(Assigned(e, a)) \in Nat
    BY <2>1, AssignedFinite
  <2> QED
    BY <2>1, <2>2
<1>9. ASSUME NEW x \in 0 .. a + TopK - 1, x \notin 0 .. a - 1
      PROVE  \E s \in 1 .. TopK : x = a + (s - 1)
  <2>1. x - a + 1 \in 1 .. TopK /\ x = a + ((x - a + 1) - 1)
    BY <1>2, <1>9
  <2> QED
    BY <2>1
<1>10. 0 .. a - 1 \subseteq 0 .. a + TopK - 1
  BY <1>2
<1>11. CASE \A s \in 1 .. TopK : chosen[s] # e
  <2>1. slots = {}
    BY <1>11
  <2>2. new = old
    BY <1>6, <1>7, <1>9, <1>10, <1>11
  <2>3. Cardinality(slots) = 0
    BY <2>1, FS_EmptySet
  <2>4. Cardinality(new) = Cardinality(old) + Cardinality(slots)
    <3> HIDE DEF new, old, slots
    <3> QED
      BY <1>8, <2>2, <2>3
  <2> QED
    BY <1>4, <1>5, <2>4
<1>12. CASE \E s \in 1 .. TopK : chosen[s] = e
  <2>1. PICK s \in 1 .. TopK : chosen[s] = e
    BY <1>12
  <2>2. PICK y \in Int : y = a + (s - 1)
    BY <1>2
  <2>3. slots = {s}
    BY <2>1
  <2>4. y \in 0 .. a + TopK - 1 /\ y \notin 0 .. a - 1
    BY <1>2, <2>2
  <2>5. ExpertOf(y)' = e
    BY <1>7, <2>1, <2>2
  <2>6. ASSUME NEW x \in 0 .. a + TopK - 1, x \notin 0 .. a - 1, ExpertOf(x)' = e PROVE x = y
    <3>1. PICK t \in 1 .. TopK : x = a + (t - 1)
      BY <1>9, <2>6
    <3>2. chosen[t] = e
      BY <1>7, <2>6, <3>1
    <3> QED
      BY <2>1, <2>2, <3>1, <3>2
  <2>7. new = old \cup {y}
    BY <1>6, <1>10, <2>4, <2>5, <2>6
  <2>8. Cardinality(new) = Cardinality(old) + 1
    BY <1>8, <2>4, <2>7, FS_AddElement
  <2>9. Cardinality(slots) = 1
    BY <2>3, FS_Singleton
  <2>10. Cardinality(new) = Cardinality(old) + Cardinality(slots)
    <3> HIDE DEF new, old, slots
    <3> QED
      BY <1>8, <2>8, <2>9
  <2> QED
    BY <1>4, <1>5, <2>10
<1> QED
  BY <1>11, <1>12

LEMMA RouteTokenStep == IInv /\ RouteToken => IInv'
<1> SUFFICES ASSUME IInv, RouteToken PROVE IInv'
  OBVIOUS
<1>1. /\ RunInv /\ RoutingInv /\ OffsetsInv /\ DispatchInv /\ PlanInv /\ WorkInv /\ CombineInv
      /\ phase = "route" /\ phase' = "route" /\ Len(experts) < tokens
      /\ UNCHANGED <<traced, schedule, tokens, dispatchVars, planVars, workVars, sumVars>>
  BY DEF IInv, RouteToken
<1>2. PICK chosen \in [1 .. TopK -> Experts] :
        /\ \A s, t \in 1 .. TopK : chosen[s] = chosen[t] => s = t
        /\ experts' = Append(experts, chosen)
        /\ counts' = [e \in Experts |-> counts[e] + Cardinality({s \in 1 .. TopK : chosen[s] = e})]
  BY DEF RouteToken
<1>3. RoutingInv'
  <2>1. Len(experts') = Len(experts) + 1 /\ Len(experts) \in Nat /\ tokens \in Nat
    BY <1>1, <1>2, TokensType DEF RoutingInv
  <2>2. ASSUME NEW e \in Experts
        PROVE  counts'[e] \in Nat /\ counts'[e] = Cardinality(Assigned(e, Len(experts) * TopK)')
    <3>1. counts[e] = Cardinality(Assigned(e, Len(experts) * TopK)) /\ counts[e] \in Nat
      BY <1>1 DEF RoutingInv
    <3>2. Cardinality({s \in 1 .. TopK : chosen[s] = e}) \in Nat
      <4>1. IsFiniteSet(1 .. TopK)
        BY ExpertsAssumption, FS_Interval
      <4>2. IsFiniteSet({s \in 1 .. TopK : chosen[s] = e})
        BY <4>1, FS_Subset
      <4> QED
        BY <4>2, FS_CardinalityType
    <3>3. Cardinality(Assigned(e, Len(experts) * TopK)') =
            Cardinality(Assigned(e, Len(experts) * TopK))
              + Cardinality({s \in 1 .. TopK : chosen[s] = e})
      BY <1>1, <1>2, RouteTokenCounts
    <3> QED
      BY <1>2, <3>1, <3>2, <3>3
  <2>3. counts' \in [Experts -> Nat]
    BY <1>2, <2>2
  <2>4. \A e \in Experts : counts'[e] = Cardinality(Assigned(e, Len(experts) * TopK)')
    BY <2>2
  <2>5. experts' \in Seq([1 .. TopK -> Experts])
    BY <1>1, <1>2 DEF RoutingInv
  <2>6. \A i \in 1 .. Len(experts') : \A s, t \in 1 .. TopK :
          experts'[i][s] = experts'[i][t] => s = t
    BY <1>1, <1>2, <2>1 DEF RoutingInv
  <2> QED
    BY <1>1, <2>1, <2>3, <2>4, <2>5, <2>6 DEF RoutingInv
<1>4. RunInv' /\ OffsetsInv' /\ DispatchInv'
  BY <1>1 DEF RunInv, OffsetsInv, DispatchInv, Early, Dispatching, Planning, dispatchVars, Routes
<1>5. PlanInv'
  BY <1>1, PlanUntouched DEF Planning, Running, dispatchVars, planVars
<1>6. WorkInv'
  BY <1>1, WorkUntouched DEF Running, Summing, dispatchVars, planVars, workVars
<1>7. CombineInv'
  BY <1>1, SumUntouched DEF Summing, dispatchVars, workVars, sumVars
<1> QED
  BY <1>3, <1>4, <1>5, <1>6, <1>7 DEF IInv

LEMMA EnterStep == IInv /\ Enter => IInv'
<1> SUFFICES ASSUME IInv, Enter PROVE IInv'
  OBVIOUS
<1>1. /\ RunInv /\ RoutingInv /\ OffsetsInv /\ DispatchInv /\ PlanInv /\ WorkInv /\ CombineInv
      /\ phase = "route" /\ phase' \in {"rejected", "offsets"} /\ Len(experts) = tokens
      /\ UNCHANGED <<traced, schedule, tokens, routeVars, dispatchVars, planVars, workVars, sumVars>>
  BY DEF IInv, Enter
<1>2. RunInv'
  BY <1>1 DEF RunInv, Early
<1>3. RoutingInv'
  BY <1>1, RoutesUntouched DEF routeVars
<1>4. OffsetsInv'
  <2>1. offsets' = <<0>> /\ Len(offsets') = 1
    BY <1>1 DEF OffsetsInv, Early, dispatchVars
  <2>2. Cardinality(Below(0)) = 0
    BY <1>1, BelowEnds
  <2>3. Below(0)' = Below(0)
    BY <1>1 DEF Below, ExpertOf, Routes, routeVars
  <2>4. OffsetsCount'
    BY <2>1, <2>2, <2>3 DEF OffsetsCount
  <2> QED
    BY <1>1, <2>1, <2>4, ExpertsAssumption DEF OffsetsInv, Early, Dispatching
<1>5. DispatchInv'
  BY <1>1, SortUntouched DEF Dispatching, Planning, routeVars, dispatchVars
<1>6. PlanInv'
  BY <1>1, PlanUntouched DEF Planning, Running, dispatchVars, planVars
<1>7. WorkInv'
  BY <1>1, WorkUntouched DEF Running, Summing, dispatchVars, planVars, workVars
<1>8. CombineInv'
  BY <1>1, SumUntouched DEF Summing, dispatchVars, workVars, sumVars
<1> QED
  BY <1>2, <1>3, <1>4, <1>5, <1>6, <1>7, <1>8 DEF IInv

-----------------------------------------------------------------------------
(* The counting sort keeps the invariant. *)
LEMMA AddOffsetStep == IInv /\ AddOffset => IInv'
<1> SUFFICES ASSUME IInv, AddOffset PROVE IInv'
  OBVIOUS
<1>1. /\ RunInv /\ RoutingInv /\ OffsetsInv /\ DispatchInv /\ PlanInv /\ WorkInv /\ CombineInv
      /\ phase = "offsets" /\ phase' = "offsets" /\ Len(offsets) <= ExpertCount
      /\ offsets' = Append(offsets, offsets[Len(offsets)] + counts[Len(offsets) - 1])
      /\ UNCHANGED <<traced, schedule, tokens, routeVars, route, cursor, rows, planVars, workVars, sumVars>>
  BY DEF IInv, AddOffset
<1>2. RunInv'
  BY <1>1 DEF RunInv, Early
<1>3. RoutingInv'
  BY <1>1, RoutesUntouched DEF RoutingInv, routeVars
<1>4. OffsetsInv'
  <2>1. PICK n \in 1 .. ExpertCount : n = Len(offsets)
    BY <1>1, ExpertsAssumption DEF OffsetsInv
  <2>2. /\ n - 1 \in Experts /\ n \in 1 .. Len(offsets)
        /\ (n + 1) - 1 = (n - 1) + 1 /\ n \in Nat /\ n + 1 \in 1 .. ExpertCount + 1
    BY <2>1, ExpertsAssumption DEF Experts
  <2>3. offsets[n] \in Nat /\ counts[n - 1] \in Nat /\ offsets[n] = Cardinality(Below(n - 1))
    BY <1>1, <2>1, <2>2 DEF OffsetsInv, RoutingInv, OffsetsCount, Early
  <2>4. Len(offsets') = n + 1 /\ offsets' \in Seq(Nat)
    BY <1>1, <2>1, <2>3 DEF OffsetsInv
  <2>5. Cardinality(Below((n - 1) + 1)) = Cardinality(Below(n - 1)) + counts[n - 1]
    BY <1>1, <2>2, BelowStep DEF RoutingInv
  <2>6. \A e : Below(e)' = Below(e)
    BY <1>1 DEF Below, ExpertOf, Routes, routeVars
  <2>7. offsets'[n + 1] = Cardinality(Below((n + 1) - 1))
    BY <1>1, <2>1, <2>2, <2>3, <2>5 DEF OffsetsInv
  <2>8. ASSUME NEW i \in 1 .. n PROVE offsets'[i] = Cardinality(Below(i - 1))
    BY <1>1, <2>1 DEF OffsetsInv, OffsetsCount, Early
  <2>9. \A i \in 1 .. n + 1 : offsets'[i] = Cardinality(Below(i - 1))
    BY <2>7, <2>8
  <2>10. OffsetsCount'
    BY <2>4, <2>6, <2>9 DEF OffsetsCount
  <2> QED
    BY <1>1, <2>2, <2>4, <2>10 DEF OffsetsInv, Early, Dispatching
<1>5. DispatchInv'
  BY <1>1 DEF DispatchInv, Dispatching, Planning, Routes
<1>6. PlanInv'
  BY <1>1 DEF PlanInv, Planning, Running, planVars
<1>7. WorkInv'
  BY <1>1, WorkUntouched DEF Running, Summing, planVars, workVars
<1>8. CombineInv'
  BY <1>1, SumUntouched DEF Summing, workVars, sumVars
<1> QED
  BY <1>2, <1>3, <1>4, <1>5, <1>6, <1>7, <1>8 DEF IInv

LEMMA BeginDispatchStep == IInv /\ BeginDispatch => IInv'
<1> SUFFICES ASSUME IInv, BeginDispatch PROVE IInv'
  OBVIOUS
<1>1. /\ RunInv /\ RoutingInv /\ OffsetsInv /\ DispatchInv /\ PlanInv /\ WorkInv /\ CombineInv
      /\ phase = "offsets" /\ phase' = "dispatch" /\ Len(offsets) = ExpertCount + 1
      /\ cursor' = [e \in Experts |-> offsets[e + 1]]
      /\ UNCHANGED <<traced, schedule, tokens, routeVars, offsets, route, rows, planVars, workVars, sumVars>>
  BY DEF IInv, BeginDispatch
<1>2. RunInv'
  BY <1>1 DEF RunInv, Dispatching
<1>3. RoutingInv'
  BY <1>1, RoutesUntouched DEF RoutingInv, routeVars
<1>4. OffsetsInv'
  <2>1. OffsetsCount' = OffsetsCount
    BY <1>1 DEF OffsetsCount, Below, ExpertOf, Routes, routeVars
  <2> QED
    BY <1>1, <2>1 DEF OffsetsInv, Early, Dispatching
<1>5. DispatchInv'
  <2>1. route' = 0 /\ route = 0 /\ (\A r \in Routes' : rows'[r] = Nothing) /\ Routes' = Routes
    BY <1>1 DEF DispatchInv, Dispatching, Routes
  <2>2. \A e \in Experts : offsets[e + 1] \in Nat
    BY <1>1, ExpertsAssumption DEF OffsetsInv, Experts
  <2>3. cursor' \in [Experts -> Nat] /\ \A e \in Experts : Filled(e)' = {}
    BY <1>1, <2>2 DEF Filled
  <2>4. Full' = {} /\ Cardinality(Full') = 0
    BY <2>1, FS_EmptySet DEF Full
  <2>5. \A e : Assigned(e, route)' = {}
    BY <2>1 DEF Assigned
  <2>6. \A e : Cardinality(Assigned(e, route)') = 0
    BY <2>5, FS_EmptySet
  <2>7. CursorsCount'
    BY <1>1, <2>2, <2>6 DEF CursorsCount
  <2>8. FilledRows' /\ FilledInOrder' /\ FullIsFilled'
    BY <2>3, <2>4 DEF FilledRows, FilledInOrder, FullIsFilled
  <2>9. EachPlacedOnce'
    BY <2>1, <2>4 DEF EachPlacedOnce
  <2> QED
    BY <1>1, <2>1, <2>3, <2>7, <2>8, <2>9 DEF DispatchInv, Dispatching, Planning, Placed
<1>6. PlanInv'
  BY <1>1, PlanUntouched DEF Planning, Running, planVars
<1>7. WorkInv'
  BY <1>1, WorkUntouched DEF Running, Summing, planVars, workVars
<1>8. CombineInv'
  BY <1>1, SumUntouched DEF Summing, workVars, sumVars
<1> QED
  BY <1>2, <1>3, <1>4, <1>5, <1>6, <1>7, <1>8 DEF IInv

(* What the sort has filled of a segment does not reach the next one.      *)
LEMMA CursorInSegment ==
  ASSUME RunInv, RoutingInv, OffsetsInv, DispatchInv, Dispatching, NEW e \in Experts
  PROVE  /\ offsets[e + 1] \in Nat /\ cursor[e] \in Nat /\ offsets[e + 2] \in Nat
         /\ offsets[e + 1] <= cursor[e] /\ cursor[e] <= offsets[e + 2]
         /\ offsets[e + 2] <= tokens * TopK
         /\ ExpertOf(route) = e /\ route \in Routes => cursor[e] < offsets[e + 2]
<1>1. /\ tokens * TopK \in Nat /\ route \in 0 .. tokens * TopK /\ e \in 0 .. ExpertCount
      /\ e + 1 \in 0 .. ExpertCount /\ e + 2 = (e + 1) + 1 /\ ExpertCount \in 0 .. ExpertCount
      /\ Len(experts) = tokens
  BY TokensType, ExpertsAssumption DEF DispatchInv, Experts, RoutingInv, Dispatching
<1>2. /\ offsets[e + 1] \in Nat /\ offsets[e + 2] \in Nat
      /\ offsets[e + 2] = offsets[e + 1] + counts[e]
      /\ offsets[e + 2] <= tokens * TopK
  BY <1>1, OffsetsStep
<1> DEFINE done == Cardinality(Assigned(e, route))
           all == Cardinality(Assigned(e, tokens * TopK))
<1>3. cursor[e] = offsets[e + 1] + done
  BY DEF DispatchInv, Placed, CursorsCount
<1>4. done \in Nat /\ all \in Nat /\ done <= all
  BY <1>1, AssignedFinite, AssignedMonotone
<1>5. counts[e] = all
  BY <1>1 DEF RoutingInv
<1>6. ASSUME ExpertOf(route) = e, route \in Routes PROVE done + 1 <= all
  <2>1. route \in Nat /\ route + 1 \in Int /\ tokens * TopK \in Int /\ route + 1 <= tokens * TopK
    BY <1>1, <1>6 DEF Routes
  <2>2. Cardinality(Assigned(e, route + 1)) = done + 1
    BY <1>6, <2>1, AssignedStep
  <2> QED
    BY <2>1, <2>2, AssignedMonotone
<1> HIDE DEF done, all
<1> QED
  BY <1>2, <1>3, <1>4, <1>5, <1>6

(* A row lies in one segment. *)
LEMMA SegmentsApart ==
  ASSUME RunInv, RoutingInv, OffsetsInv, Dispatching, NEW d \in Experts, NEW e \in Experts,
         NEW r \in Int, offsets[d + 1] <= r, r < offsets[d + 2],
         offsets[e + 1] <= r, r < offsets[e + 2]
  PROVE  d = e
<1>1. /\ d \in 0 .. ExpertCount /\ d + 1 \in 0 .. ExpertCount /\ d + 2 = (d + 1) + 1
      /\ e \in 0 .. ExpertCount /\ e + 1 \in 0 .. ExpertCount /\ e + 2 = (e + 1) + 1
  BY ExpertsAssumption DEF Experts
<1>2. /\ offsets[d + 1] \in Nat /\ offsets[d + 2] \in Nat
      /\ offsets[e + 1] \in Nat /\ offsets[e + 2] \in Nat
  BY <1>1, OffsetsStep
<1>3. d + 1 <= e => offsets[d + 2] <= offsets[e + 1]
  BY <1>1, OffsetsStep
<1>4. e + 1 <= d => offsets[e + 2] <= offsets[d + 1]
  BY <1>1, OffsetsStep
<1> QED
  BY <1>1, <1>2, <1>3, <1>4

LEMMA DispatchRoutePlaced ==
  ASSUME RunInv, RoutingInv, OffsetsInv, DispatchInv, phase = "dispatch", DispatchRoute
  PROVE  DispatchInv'
<1>1. /\ Dispatching /\ Placed /\ Len(experts) = tokens /\ tokens * TopK \in Nat /\ tokens \in Nat
      /\ route \in 0 .. tokens * TopK - 1 /\ route \in Nat /\ route \in Int
      /\ rows \in [Routes -> ((0 .. tokens - 1) \X SlotsOf) \cup {Nothing}]
      /\ cursor \in [Experts -> Nat]
  BY TokensType DEF Dispatching, DispatchInv, RoutingInv, DispatchRoute, Routes
<1>2. PICK e \in Experts : e = ExpertOf(route)
  BY <1>1, ExpertType
<1>3. PICK c \in Nat : c = cursor[e]
  BY <1>1
<1>4. PICK p : p = RouteOf(route)
  OBVIOUS
<1>5. /\ rows' = [rows EXCEPT ![c] = p] /\ cursor' = [cursor EXCEPT ![e] = c + 1]
      /\ route' = route + 1
      /\ UNCHANGED <<tokens, phase, experts, offsets>>
  BY <1>2, <1>3, <1>4 DEF DispatchRoute, RouteOf, routeVars
<1>6. p \in (0 .. tokens - 1) \X SlotsOf /\ p # Nothing
  BY <1>1, <1>4, RouteParts, NothingAssumption DEF RouteOf, RunInv
<1>7. c \in Routes /\ c < offsets[e + 2] /\ offsets[e + 1] <= c
      /\ offsets[e + 1] \in Nat /\ offsets[e + 2] \in Nat
  BY <1>1, <1>2, <1>3, CursorInSegment DEF Routes
<1>8. c \notin Full
  <2>1. SUFFICES ASSUME NEW d \in Experts, c \in Filled(d) PROVE FALSE
    BY <1>1 DEF Placed, FullIsFilled
  <2>2. /\ offsets[d + 1] \in Nat /\ cursor[d] \in Nat /\ offsets[d + 2] \in Nat
        /\ cursor[d] <= offsets[d + 2]
    BY <1>1, CursorInSegment
  <2>3. offsets[d + 1] <= c /\ c <= cursor[d] - 1
    BY <2>1, <2>2 DEF Filled
  <2>4. d = e
    BY <1>1, <1>7, <2>2, <2>3, SegmentsApart
  <2> QED
    BY <1>3, <2>3, <2>4
<1>9. Routes' = Routes /\ \A x : ExpertOf(x)' = ExpertOf(x)
  BY <1>5 DEF Routes, ExpertOf
<1>10. \A r \in Routes : r # c => rows'[r] = rows[r]
  BY <1>1, <1>5
<1>11. rows'[c] = p
  BY <1>1, <1>5, <1>7
<1>12. Full' = Full \cup {c}
  BY <1>6, <1>7, <1>9, <1>10, <1>11 DEF Full
<1>13. ASSUME NEW d \in Experts, d # e PROVE Filled(d)' = Filled(d) /\ cursor'[d] = cursor[d]
  BY <1>1, <1>5, <1>13 DEF Filled
<1>14. cursor'[e] = c + 1
  BY <1>1, <1>5
<1>15. Filled(e)' = Filled(e) \cup {c}
  BY <1>3, <1>5, <1>7, <1>14 DEF Filled
<1>16. \A d \in Experts : Filled(d) \subseteq Full
  BY <1>1 DEF Placed, FilledRows
<1>17. \A r \in Full : rows'[r] = rows[r]
  BY <1>8, <1>10 DEF Full
<1>18. \A r \in Full : \E x \in 0 .. route - 1 : rows[r] = RouteOf(x)
  BY <1>1 DEF Placed, FullIsFilled, FilledRows
<1>19. CursorsCount'
  <2>1. ASSUME NEW d \in Experts
        PROVE  cursor'[d] = offsets[d + 1] + Cardinality(Assigned(d, route + 1))
    <3>1. cursor[d] = offsets[d + 1] + Cardinality(Assigned(d, route))
      BY <1>1 DEF Placed, CursorsCount
    <3>2. Cardinality(Assigned(d, route)) \in Nat /\ offsets[d + 1] \in Nat
      BY <1>1, AssignedFinite, CursorInSegment
    <3>3. Cardinality(Assigned(d, route + 1)) =
            Cardinality(Assigned(d, route)) + (IF ExpertOf(route) = d THEN 1 ELSE 0)
      BY <1>1, AssignedStep
    <3>4. CASE d = e
      BY <1>2, <1>3, <1>14, <3>1, <3>2, <3>3, <3>4
    <3>5. CASE d # e
      BY <1>2, <1>13, <3>1, <3>2, <3>3, <3>5
    <3> QED
      BY <3>4, <3>5
  <2>2. \A d : Assigned(d, route)' = Assigned(d, route + 1)
    BY <1>5, <1>9 DEF Assigned
  <2> QED
    BY <1>5, <2>1, <2>2 DEF CursorsCount
<1>20. FilledRows'
  <2>1. SUFFICES ASSUME NEW d \in Experts, NEW r \in Filled(d)'
                 PROVE  r \in Full' /\ \E x \in 0 .. route : rows'[r] = RouteOf(x) /\ ExpertOf(x) = d
    BY <1>1, <1>5, <1>9 DEF FilledRows, RouteOf
  <2>2. CASE r \in Filled(d)
    <3>1. PICK x \in 0 .. route - 1 : rows[r] = RouteOf(x) /\ ExpertOf(x) = d
      BY <1>1, <2>2 DEF Placed, FilledRows
    <3> QED
      BY <1>1, <1>12, <1>16, <1>17, <2>2, <3>1
  <2>3. CASE r \notin Filled(d)
    <3>1. d = e /\ r = c
      BY <1>13, <1>15, <2>1, <2>3
    <3> QED
      BY <1>1, <1>2, <1>4, <1>11, <1>12, <3>1
  <2> QED
    BY <2>2, <2>3
<1>21. FilledInOrder'
  <2>1. SUFFICES ASSUME NEW d \in Experts, NEW q \in Filled(d)', NEW r \in Filled(d)', q < r
                 PROVE  rows'[q][1] < rows'[r][1]
    BY DEF FilledInOrder
  <2>2. CASE q \in Filled(d) /\ r \in Filled(d)
    BY <1>1, <1>16, <1>17, <2>1, <2>2 DEF Placed, FilledInOrder
  <2>3. CASE d = e /\ q \in Filled(e) /\ r = c
    <3>1. PICK x \in 0 .. route - 1 : rows[q] = RouteOf(x) /\ ExpertOf(x) = e
      BY <1>1, <2>3 DEF Placed, FilledRows
    <3>2. x \in 0 .. tokens * TopK - 1 /\ x \in Nat /\ x <= route /\ x # route
      BY <1>1, <3>1
    <3>3. TokenOf(x) <= TokenOf(route)
      BY <1>1, <3>2, TokenMonotone
    <3>4. TokenOf(x) # TokenOf(route)
      BY <1>1, <1>2, <3>1, <3>2, OneRoutePerToken
    <3>5. TokenOf(x) \in Int /\ TokenOf(route) \in Int
      BY <1>1, <3>2, RouteParts
    <3>6. rows'[q][1] = TokenOf(x) /\ rows'[r][1] = TokenOf(route)
      BY <1>4, <1>11, <1>16, <1>17, <2>3, <3>1 DEF RouteOf
    <3> QED
      BY <3>3, <3>4, <3>5, <3>6
  <2>4. CASE d = e /\ q = c
    BY <1>3, <1>7, <1>15, <2>1, <2>4 DEF Filled
  <2> QED
    BY <1>13, <1>15, <2>1, <2>2, <2>3, <2>4
<1>22. FullIsFilled'
  <2>1. \A d \in Experts : Filled(d) \subseteq Filled(d)'
    BY <1>13, <1>15
  <2>2. \A r \in Full : \E d \in Experts : r \in Filled(d)
    BY <1>1 DEF Placed, FullIsFilled
  <2> QED
    BY <1>12, <1>15, <2>1, <2>2 DEF FullIsFilled
<1>23. EachPlacedOnce'
  <2>1. ASSUME NEW r \in Full, rows[r] = p PROVE FALSE
    <3>1. PICK x \in 0 .. route - 1 : RouteOf(x) = RouteOf(route)
      BY <1>4, <1>18, <2>1
    <3>2. x \in 0 .. tokens * TopK - 1 /\ x # route
      BY <1>1, <3>1
    <3> QED
      BY <1>1, <3>1, <3>2, RouteOfInjective
  <2>2. \A q, r \in Full' : rows'[q] = rows'[r] => q = r
    BY <1>1, <1>11, <1>12, <1>17, <2>1 DEF Placed, EachPlacedOnce
  <2>3. \A x \in 0 .. route' - 1 : \E r \in Full' : rows'[r] = RouteOf(x)
    <3>1. SUFFICES ASSUME NEW x \in 0 .. route PROVE \E r \in Full' : rows'[r] = RouteOf(x)
      BY <1>1, <1>5
    <3>2. CASE x = route
      BY <1>4, <1>11, <1>12, <3>2
    <3>3. CASE x \in 0 .. route - 1
      BY <1>1, <1>12, <1>17, <3>3 DEF Placed, EachPlacedOnce
    <3> QED
      BY <1>1, <3>2, <3>3
  <2>4. Cardinality(Full') = route'
    <3>1. IsFiniteSet(Routes)
      BY <1>1, FS_Interval DEF Routes
    <3>2. IsFiniteSet(Full)
      BY <3>1, FS_Subset DEF Full
    <3> QED
      BY <1>1, <1>5, <1>8, <1>12, <3>2, FS_AddElement DEF Placed, EachPlacedOnce
  <2> QED
    BY <2>2, <2>3, <2>4 DEF EachPlacedOnce, RouteOf
<1>24. /\ rows' \in [Routes' -> ((0 .. tokens' - 1) \X SlotsOf) \cup {Nothing}]
       /\ cursor' \in [Experts -> Nat] /\ route' \in 0 .. tokens' * TopK
  <2>1. c + 1 \in Nat /\ tokens' = tokens /\ route + 1 \in 0 .. tokens * TopK
    BY <1>1, <1>5
  <2>2. rows' \in [Routes -> ((0 .. tokens - 1) \X SlotsOf) \cup {Nothing}]
    BY <1>1, <1>5, <1>6
  <2>3. cursor' \in [Experts -> Nat]
    BY <1>1, <1>5, <2>1
  <2> QED
    BY <1>5, <1>9, <2>1, <2>2, <2>3
<1>25. Dispatching' /\ ~Planning'
  BY <1>5 DEF Dispatching, Planning
<1> QED
  BY <1>19, <1>20, <1>21, <1>22, <1>23, <1>24, <1>25 DEF DispatchInv, Placed

LEMMA DispatchRouteStep == IInv /\ DispatchRoute => IInv'
<1> SUFFICES ASSUME IInv, DispatchRoute PROVE IInv'
  OBVIOUS
<1>1. /\ RunInv /\ RoutingInv /\ OffsetsInv /\ DispatchInv /\ PlanInv /\ WorkInv /\ CombineInv
      /\ phase = "dispatch" /\ phase' = "dispatch"
      /\ UNCHANGED <<traced, schedule, tokens, routeVars, offsets, planVars, workVars, sumVars>>
  BY DEF IInv, DispatchRoute
<1>2. RunInv'
  BY <1>1 DEF RunInv, Dispatching
<1>3. RoutingInv'
  BY <1>1, RoutesUntouched DEF RoutingInv, routeVars
<1>4. OffsetsInv'
  BY <1>1, OffsetsUntouched DEF Early, Dispatching, routeVars
<1>5. DispatchInv'
  BY <1>1, DispatchRoutePlaced
<1>6. PlanInv'
  BY <1>1, PlanUntouched DEF Planning, Running, planVars
<1>7. WorkInv'
  BY <1>1 DEF WorkInv, Running, Summing, workVars, Routes
<1>8. CombineInv'
  BY <1>1 DEF CombineInv, Summing, sumVars
<1> QED
  BY <1>2, <1>3, <1>4, <1>5, <1>6, <1>7, <1>8 DEF IInv

LEMMA EndDispatchStep == IInv /\ EndDispatch => IInv'
<1> SUFFICES ASSUME IInv, EndDispatch PROVE IInv'
  OBVIOUS
<1>1. /\ RunInv /\ RoutingInv /\ OffsetsInv /\ DispatchInv /\ PlanInv /\ WorkInv /\ CombineInv
      /\ phase = "dispatch" /\ phase' = "plan" /\ route \notin Routes
      /\ UNCHANGED <<traced, schedule, tokens, routeVars, dispatchVars, planVars, workVars, sumVars>>
  BY DEF IInv, EndDispatch
<1>2. RunInv'
  BY <1>1 DEF RunInv, Dispatching
<1>3. RoutingInv'
  BY <1>1, RoutesUntouched DEF RoutingInv, routeVars
<1>4. OffsetsInv'
  BY <1>1, OffsetsUntouched DEF Early, Dispatching, routeVars, dispatchVars
<1>5. DispatchInv'
  <2>1. route = tokens * TopK
    BY <1>1, TokensType DEF DispatchInv, Routes
  <2> QED
    BY <1>1, <2>1, SortUntouched DEF Dispatching, Planning, routeVars, dispatchVars
<1>6. PlanInv'
  <2>1. planned = 0 /\ tasks = <<>> /\ offsets[0 + 1] = 0
    BY <1>1, OffsetsStep DEF PlanInv, Planning, Dispatching
  <2>2. Partitioned
    BY <2>1 DEF Partitioned
  <2>3. Partitioned' /\ TaskSet' = TaskSet
    BY <1>1, <2>2 DEF Partitioned, InSegment, Apart, TaskSet, TaskBucket, BucketFor, Buckets,
                       planVars, dispatchVars
  <2> QED
    BY <1>1, <2>1, <2>3, ExpertsAssumption DEF PlanInv, Planning, Running, planVars
<1>7. WorkInv'
  BY <1>1, WorkUntouched DEF Running, Summing, dispatchVars, planVars, workVars
<1>8. CombineInv'
  BY <1>1, SumUntouched DEF Summing, dispatchVars, workVars, sumVars
<1> QED
  BY <1>2, <1>3, <1>4, <1>5, <1>6, <1>7, <1>8 DEF IInv

-----------------------------------------------------------------------------
(* Planning: chunks of a segment are tasks one after the other, all of it. *)
LEMMA ChunksCover ==
  ASSUME NEW count \in Nat \ {0}, NEW chunk \in Nat \ {0}
  PROVE  /\ CeilDiv(count, chunk) \in Nat
         /\ \A i \in 1 .. CeilDiv(count, chunk) :
              (i - 1) * chunk \in Nat /\ (i - 1) * chunk < count
         /\ \A x \in 0 .. count - 1 : \E i \in 1 .. CeilDiv(count, chunk) :
              (i - 1) * chunk <= x /\ x < (i - 1) * chunk + chunk
<1>1. PICK n \in Nat : n = CeilDiv(count, chunk)
  <2>1. count + chunk - 1 \in Nat
    OBVIOUS
  <2> QED
    BY <2>1, DivNat DEF CeilDiv
<1>2. chunk * n <= count + chunk - 1 /\ count + chunk - 1 < chunk * n + chunk
  <2>1. count + chunk - 1 \in Int
    OBVIOUS
  <2> QED
    BY <1>1, <2>1, DivBounds DEF CeilDiv
<1>3. ASSUME NEW i \in 1 .. n PROVE (i - 1) * chunk \in Nat /\ (i - 1) * chunk < count
  <2>1. (i - 1) * chunk \in Nat /\ i * chunk = (i - 1) * chunk + chunk /\ i * chunk <= n * chunk
    OBVIOUS
  <2>2. n * chunk = chunk * n /\ chunk * n \in Nat
    OBVIOUS
  <2> QED
    BY <1>2, <2>1, <2>2
<1>4. ASSUME NEW x \in 0 .. count - 1
      PROVE  \E i \in 1 .. n : (i - 1) * chunk <= x /\ x < (i - 1) * chunk + chunk
  <2>1. x \in Int /\ x \in Nat
    OBVIOUS
  <2>2. PICK q \in Nat : q = x \div chunk
    BY <2>1, DivNat
  <2>3. chunk * q <= x /\ x < chunk * q + chunk
    BY <2>1, <2>2, DivBounds
  <2>4. q < n
    <3>1. n <= q => chunk * n <= chunk * q
      OBVIOUS
    <3>2. chunk * n \in Nat /\ chunk * q \in Nat
      OBVIOUS
    <3> QED
      BY <1>2, <2>3, <3>1, <3>2
  <2>5. q + 1 \in 1 .. n /\ ((q + 1) - 1) * chunk = chunk * q
    BY <2>4
  <2> QED
    BY <2>3, <2>5
<1> QED
  BY <1>1, <1>3, <1>4

LEMMA TaskFields ==
  ASSUME NEW task \in TaskSet
  PROVE  task.expert \in Experts /\ task.begin \in Nat /\ task.end \in Nat
BY DEF TaskSet

(* What PlanExpert appends. *)
Number(e) == IF counts[e] = 0 THEN 0 ELSE CeilDiv(counts[e], Chunk(counts[e]))
Cut(e) == [i \in 1 .. Number(e) |-> TaskAt(e, offsets[e + 1] + (i - 1) * Chunk(counts[e]))]

LEMMA CutTasks ==
  ASSUME RunInv, RoutingInv, OffsetsInv, Dispatching, NEW e \in Experts
  PROVE  /\ Cut(e) \in Seq(TaskSet)
         /\ \A i \in 1 .. Len(Cut(e)) :
              /\ InSegment(Cut(e)[i])
              /\ offsets[e + 1] <= Cut(e)[i].begin /\ Cut(e)[i].end <= offsets[e + 2]
         /\ \A i, j \in 1 .. Len(Cut(e)) : i < j => Cut(e)[i].end <= Cut(e)[j].begin
         /\ \A r \in offsets[e + 1] .. offsets[e + 2] - 1 :
              \E i \in 1 .. Len(Cut(e)) : Cut(e)[i].begin <= r /\ r < Cut(e)[i].end
<1>1. /\ offsets[e + 1] \in Nat /\ offsets[e + 2] \in Nat /\ counts[e] \in Nat
      /\ offsets[e + 2] = offsets[e + 1] + counts[e] /\ offsets[e + 2] <= tokens * TopK
  <2>1. e \in 0 .. ExpertCount /\ e + 1 \in 0 .. ExpertCount /\ e + 2 = (e + 1) + 1
        /\ ExpertCount \in 0 .. ExpertCount
    BY ExpertsAssumption DEF Experts
  <2> QED
    BY <2>1, OffsetsStep DEF RoutingInv
<1>2. CASE counts[e] = 0
  <2>1. Number(e) = 0 /\ Cut(e) = <<>>
    BY <1>2 DEF Number, Cut
  <2>2. offsets[e + 1] .. offsets[e + 2] - 1 = {}
    BY <1>1, <1>2
  <2> QED
    BY <2>1, <2>2
<1>3. CASE counts[e] # 0
  <2>1. PICK b \in Nat : b = offsets[e + 1]
    BY <1>1
  <2>2. PICK count \in Nat \ {0} : count = counts[e]
    BY <1>1, <1>3
  <2>3. PICK chunk \in Nat \ {0} : chunk = Chunk(counts[e])
    <3>1. schedule.threshold \in Int
      BY SchedulesAssumption DEF RunInv
    <3> QED
      BY <1>1, <1>3, <3>1 DEF Chunk, Greatest
  <2>4. PICK k \in Nat : k = CeilDiv(count, chunk)
    BY ChunksCover
  <2>5. Number(e) = k /\ Cut(e) = [i \in 1 .. k |-> TaskAt(e, b + (i - 1) * chunk)]
    BY <1>3, <2>1, <2>2, <2>3, <2>4 DEF Number, Cut
  <2>6. offsets[e + 2] = b + count
    BY <1>1, <2>1, <2>2
  <2>7. Len(Cut(e)) = k
    BY <2>5
  <2>8. ASSUME NEW i \in 1 .. k
        PROVE  \E p \in Nat :
                 /\ p = (i - 1) * chunk /\ p < count
                 /\ Cut(e)[i] = [expert |-> e, begin |-> b + p, end |-> Least(b + p + chunk, b + count),
                                 bucket |-> TaskBucket(Least(b + p + chunk, b + count) - (b + p))]
    <3>1. (i - 1) * chunk \in Nat /\ (i - 1) * chunk < count
      BY <2>4, ChunksCover
    <3> QED
      BY <2>3, <2>5, <2>6, <3>1, ZenonT(40) DEF TaskAt
  <2>9. ASSUME NEW i \in 1 .. k
        PROVE  /\ Cut(e)[i] \in TaskSet /\ InSegment(Cut(e)[i])
               /\ b <= Cut(e)[i].begin /\ Cut(e)[i].end <= b + count
    <3>1. PICK p \in Nat :
                 /\ p = (i - 1) * chunk /\ p < count
                 /\ Cut(e)[i] = [expert |-> e, begin |-> b + p, end |-> Least(b + p + chunk, b + count),
                                 bucket |-> TaskBucket(Least(b + p + chunk, b + count) - (b + p))]
      BY <2>8
    <3>2. PICK f \in Nat : f = Least(b + p + chunk, b + count)
      BY DEF Least
    <3>3. f <= b + count /\ b + p < f /\ f - (b + p) \in Nat
      BY <3>1, <3>2 DEF Least
    <3>4. f - (b + p) \in 0 .. tokens * TopK
      <4>1. b + count <= tokens * TopK /\ tokens * TopK \in Nat
        BY <1>1, <2>6, TokensType
      <4> QED
        BY <3>3, <4>1
    <3>5. Cut(e)[i] = [expert |-> e, begin |-> b + p, end |-> f, bucket |-> TaskBucket(f - (b + p))]
      BY <3>1, <3>2
    <3>6. Cut(e)[i] \in TaskSet
      BY <3>4, <3>5 DEF TaskSet
    <3> QED
      BY <2>1, <2>6, <3>3, <3>5, <3>6 DEF InSegment
  <2>10. ASSUME NEW i \in 1 .. k, NEW j \in 1 .. k, i < j
         PROVE  Cut(e)[i].end <= Cut(e)[j].begin
    <3>1. PICK p \in Nat :
                 /\ p = (i - 1) * chunk /\ p < count
                 /\ Cut(e)[i] = [expert |-> e, begin |-> b + p, end |-> Least(b + p + chunk, b + count),
                                 bucket |-> TaskBucket(Least(b + p + chunk, b + count) - (b + p))]
      BY <2>8
    <3>2. PICK q \in Nat :
                 /\ q = (j - 1) * chunk /\ q < count
                 /\ Cut(e)[j] = [expert |-> e, begin |-> b + q, end |-> Least(b + q + chunk, b + count),
                                 bucket |-> TaskBucket(Least(b + q + chunk, b + count) - (b + q))]
      BY <2>8
    <3>3. p + chunk <= q
      <4>1. p + chunk = i * chunk
        BY <3>1
      <4>2. i * chunk <= (j - 1) * chunk
        BY <2>10
      <4> QED
        BY <3>2, <4>1, <4>2
    <3>4. Cut(e)[i].end <= b + p + chunk /\ Cut(e)[j].begin = b + q
      BY <3>1, <3>2 DEF Least
    <3> QED
      BY <3>1, <3>2, <3>3, <3>4 DEF Least
  <2>11. ASSUME NEW r \in b .. b + count - 1
         PROVE  \E i \in 1 .. k : Cut(e)[i].begin <= r /\ r < Cut(e)[i].end
    <3>1. r - b \in 0 .. count - 1
      OBVIOUS
    <3>2. PICK i \in 1 .. k : (i - 1) * chunk <= r - b /\ r - b < (i - 1) * chunk + chunk
      BY <2>4, <3>1, ChunksCover
    <3>3. PICK p \in Nat :
                 /\ p = (i - 1) * chunk /\ p < count
                 /\ Cut(e)[i] = [expert |-> e, begin |-> b + p, end |-> Least(b + p + chunk, b + count),
                                 bucket |-> TaskBucket(Least(b + p + chunk, b + count) - (b + p))]
      BY <2>8
    <3>4. b + p <= r /\ r < Least(b + p + chunk, b + count)
      <4>1. p <= r - b /\ r - b < p + chunk
        BY <3>2, <3>3
      <4> QED
        BY <4>1 DEF Least
    <3> QED
      BY <3>3, <3>4
  <2>12. Cut(e) \in Seq(TaskSet)
    <3>1. Cut(e) \in [1 .. k -> TaskSet]
      BY <2>5, <2>9
    <3> QED
      BY <3>1
  <2> QED
    BY <2>1, <2>6, <2>7, <2>9, <2>10, <2>11, <2>12
<1> QED
  BY <1>2, <1>3

LEMMA PlanExpertStep == IInv /\ PlanExpert => IInv'
<1> SUFFICES ASSUME IInv, PlanExpert PROVE IInv'
  OBVIOUS
<1>1. /\ RunInv /\ RoutingInv /\ OffsetsInv /\ DispatchInv /\ PlanInv /\ WorkInv /\ CombineInv
      /\ phase = "plan" /\ phase' = "plan" /\ planned \in Experts
      /\ UNCHANGED <<traced, schedule, tokens, routeVars, dispatchVars, workVars, sumVars>>
  BY DEF IInv, PlanExpert
<1>2. RunInv'
  BY <1>1 DEF RunInv, Dispatching
<1>3. RoutingInv'
  BY <1>1, RoutesUntouched DEF RoutingInv, routeVars
<1>4. OffsetsInv'
  BY <1>1, OffsetsUntouched DEF Early, Dispatching, routeVars, dispatchVars
<1>5. DispatchInv'
  BY <1>1, SortUntouched DEF Dispatching, Planning, routeVars, dispatchVars
<1>6. PlanInv'
  <2>1. PICK new : new = Cut(planned)
    OBVIOUS
  <2>2. tasks' = tasks \o new /\ planned' = planned + 1
    BY <2>1 DEF PlanExpert, Cut, Number
  <2>3. PICK b \in Nat : b = offsets[planned + 1]
    BY <1>1, ExpertsAssumption DEF OffsetsInv, Dispatching, Experts
  <2>4. PICK f \in Nat : f = offsets[planned + 2] /\ b <= f
    <3>1. /\ planned \in 0 .. ExpertCount /\ planned + 1 \in 0 .. ExpertCount
          /\ planned + 2 = (planned + 1) + 1
      BY <1>1, ExpertsAssumption DEF Experts
    <3> QED
      BY <1>1, <2>3, <3>1, OffsetsStep DEF Dispatching
  <2>5. /\ new \in Seq(TaskSet)
        /\ \A i \in 1 .. Len(new) : InSegment(new[i]) /\ b <= new[i].begin /\ new[i].end <= f
        /\ \A i, j \in 1 .. Len(new) : i < j => new[i].end <= new[j].begin
        /\ \A r \in b .. f - 1 : \E i \in 1 .. Len(new) : new[i].begin <= r /\ r < new[i].end
    BY <1>1, <2>1, <2>3, <2>4, CutTasks DEF Dispatching
  <2>6. /\ tasks \in Seq(TaskSet)
        /\ \A i \in 1 .. Len(tasks) : InSegment(tasks[i]) /\ tasks[i].end <= b
        /\ \A i, j \in 1 .. Len(tasks) : i # j => Apart(i, j)
        /\ \A r \in 0 .. b - 1 : \E i \in 1 .. Len(tasks) : tasks[i].begin <= r /\ r < tasks[i].end
    BY <1>1, <2>3 DEF PlanInv, Partitioned, Planning
  <2>7. PICK n \in Nat, k \in Nat : n = Len(tasks) /\ k = Len(new)
    BY <2>5, <2>6
  <2>8. /\ tasks' \in Seq(TaskSet) /\ Len(tasks') = n + k
        /\ \A i \in 1 .. n : tasks'[i] = tasks[i]
        /\ \A i \in 1 .. k : tasks'[n + i] = new[i]
    BY <2>2, <2>5, <2>6, <2>7
  <2>9. \A i \in 1 .. n + k : i \notin 1 .. n => i - n \in 1 .. k /\ i = n + (i - n)
    OBVIOUS
  <2>10. \A i \in 1 .. k : new[i].begin \in Nat /\ new[i].end \in Nat
    BY <2>5, <2>7, TaskFields
  <2>11. \A i \in 1 .. n : tasks[i].begin \in Nat /\ tasks[i].end \in Nat
    BY <2>6, <2>7, TaskFields
  <2>12. ASSUME NEW i \in 1 .. n + k
         PROVE  InSegment(tasks'[i]) /\ tasks'[i].end <= f
    <3>1. CASE i \in 1 .. n
      BY <2>4, <2>6, <2>7, <2>8, <2>11, <3>1
    <3>2. CASE i \notin 1 .. n
      BY <2>5, <2>7, <2>8, <2>9, <3>2
    <3> QED
      BY <3>1, <3>2
  <2>13. ASSUME NEW i \in 1 .. n + k, NEW j \in 1 .. n + k, i < j
         PROVE  tasks'[i].end <= tasks'[j].begin \/ tasks'[j].end <= tasks'[i].begin
    <3>1. CASE j \in 1 .. n
      <4>1. i \in 1 .. n /\ i # j
        BY <2>13, <3>1
      <4> QED
        BY <2>6, <2>7, <2>8, <3>1, <4>1 DEF Apart
    <3>2. CASE i \in 1 .. n /\ j \notin 1 .. n
      <4>1. j - n \in 1 .. k /\ tasks'[j] = new[j - n]
        BY <2>8, <2>9, <3>2
      <4>2. b <= new[j - n].begin /\ tasks[i].end <= b
        BY <2>5, <2>6, <2>7, <3>2, <4>1
      <4> QED
        BY <2>8, <2>10, <2>11, <3>2, <4>1, <4>2
    <3>3. CASE i \notin 1 .. n
      <4>1. i - n \in 1 .. k /\ j - n \in 1 .. k /\ i - n < j - n
        BY <2>13, <3>3
      <4>2. new[i - n].end <= new[j - n].begin
        BY <2>5, <2>7, <4>1
      <4>3. tasks'[n + (i - n)] = new[i - n] /\ tasks'[n + (j - n)] = new[j - n]
        BY <2>8, <4>1
      <4>4. n + (i - n) = i /\ n + (j - n) = j
        OBVIOUS
      <4> QED
        BY <4>2, <4>3, <4>4
    <3> QED
      BY <3>1, <3>2, <3>3
  <2>14. ASSUME NEW r \in 0 .. f - 1
         PROVE  \E i \in 1 .. n + k : tasks'[i].begin <= r /\ r < tasks'[i].end
    <3>1. CASE r \in 0 .. b - 1
      <4>1. PICK i \in 1 .. n : tasks[i].begin <= r /\ r < tasks[i].end
        BY <2>6, <2>7, <3>1
      <4>2. i \in 1 .. n + k
        OBVIOUS
      <4> QED
        BY <2>8, <4>1, <4>2
    <3>2. CASE r \in b .. f - 1
      <4>1. PICK i \in 1 .. k : new[i].begin <= r /\ r < new[i].end
        BY <2>5, <2>7, <3>2
      <4>2. n + i \in 1 .. n + k
        OBVIOUS
      <4> QED
        BY <2>8, <4>1, <4>2
    <3> QED
      BY <3>1, <3>2
  <2>15. offsets'[planned' + 1] = f /\ \A task : InSegment(task)' = InSegment(task)
    <3>1. planned' + 1 = planned + 2
      BY <1>1, <2>2 DEF Experts
    <3> QED
      BY <1>1, <2>4, <3>1 DEF InSegment, dispatchVars
  <2>16. \A i \in 1 .. Len(tasks') : InSegment(tasks[i])'
    BY <1>1, <2>8, <2>12 DEF InSegment, dispatchVars
  <2>17. ASSUME NEW i \in 1 .. Len(tasks'), NEW j \in 1 .. Len(tasks'), i # j PROVE Apart(i, j)'
    BY <2>8, <2>13, <2>17 DEF Apart
  <2>18. Partitioned'
    BY <2>8, <2>12, <2>14, <2>15, <2>16, <2>17 DEF Partitioned
  <2>19. TaskSet' = TaskSet
    BY <1>1 DEF TaskSet, TaskBucket, BucketFor, Buckets
  <2>20. planned' \in 0 .. ExpertCount
    BY <1>1, <2>2, ExpertsAssumption DEF Experts
  <2> QED
    BY <1>1, <2>8, <2>18, <2>19, <2>20 DEF PlanInv, Planning, Running
<1>7. WorkInv'
  BY <1>1 DEF WorkInv, Running, Summing, workVars, Routes
<1>8. CombineInv'
  BY <1>1 DEF CombineInv, Summing, sumVars
<1> QED
  BY <1>2, <1>3, <1>4, <1>5, <1>6, <1>7, <1>8 DEF IInv

-----------------------------------------------------------------------------
(* The tasks are sorted: every task has a place of its own.                *)
LEMMA PlacesDiffer ==
  ASSUME tasks \in Seq(TaskSet), NEW i \in DOMAIN tasks, NEW j \in DOMAIN tasks, Precedes(i, j)
  PROVE  Place(i) < Place(j)
<1> DEFINE before(k) == {x \in DOMAIN tasks : Precedes(x, k)}
<1>1. DOMAIN tasks = 1 .. Len(tasks) /\ Len(tasks) \in Nat
  OBVIOUS
<1>2. \A x \in DOMAIN tasks : Size(tasks[x]) \in Int
  BY <1>1, TaskFields DEF Size
<1>3. before(i) \subseteq before(j) /\ i \in before(j) /\ i \notin before(i)
  BY <1>1, <1>2 DEF Precedes
<1>4. IsFiniteSet(DOMAIN tasks)
  BY <1>1, FS_Interval
<1>5. \A k : IsFiniteSet(before(k)) /\ Cardinality(before(k)) \in Nat
  BY <1>4, FS_Subset, FS_CardinalityType
<1>6. Cardinality(before(i) \cup {i}) = Cardinality(before(i)) + 1
  BY <1>3, <1>5, FS_AddElement
<1>7. Cardinality(before(i) \cup {i}) <= Cardinality(before(j))
  <2>1. before(i) \cup {i} \in SUBSET before(j)
    BY <1>3
  <2> QED
    BY <1>5, <2>1, FS_Subset
<1>8. Place(i) = 1 + Cardinality(before(i)) /\ Place(j) = 1 + Cardinality(before(j))
  BY DEF Place
<1> HIDE DEF before
<1> QED
  BY <1>5, <1>6, <1>7, <1>8

LEMMA SortIsPermutation ==
  ASSUME tasks \in Seq(TaskSet), NEW n \in Nat, n = Len(tasks)
  PROVE  /\ Sorted \in Seq(TaskSet) /\ Len(Sorted) = n
         /\ \E p \in [1 .. n -> 1 .. n] :
              /\ \A i \in 1 .. n : Sorted[i] = tasks[p[i]]
              /\ \A i, j \in 1 .. n : p[i] = p[j] => i = j
              /\ \A j \in 1 .. n : \E i \in 1 .. n : p[i] = j
<1>1. n = Len(tasks)
  OBVIOUS
<1>2. DOMAIN tasks = 1 .. n /\ IsFiniteSet(1 .. n) /\ Cardinality(1 .. n) \in Nat
  BY <1>1, FS_Interval, FS_CardinalityType
<1>3. \A x \in 1 .. n : Size(tasks[x]) \in Int
  BY <1>1, TaskFields DEF Size
<1> DEFINE place == [j \in 1 .. n |-> Place(j)]
<1>4. ASSUME NEW j \in 1 .. n PROVE Place(j) \in 1 .. n
  <2>1. {i \in DOMAIN tasks : Precedes(i, j)} \subseteq (1 .. n) \ {j}
    BY <1>2, <1>3 DEF Precedes
  <2>2. IsFiniteSet((1 .. n) \ {j}) /\ Cardinality((1 .. n) \ {j}) = n - 1
    <3>1. n \in Int /\ 1 \in Int
      OBVIOUS
    <3>2. Cardinality(1 .. n) = IF 1 > n THEN 0 ELSE n - 1 + 1
      BY ONLY <3>1, FS_Interval
    <3>3. Cardinality(1 .. n) = n
      BY <3>2
    <3> QED
      BY <1>2, <3>3, FS_RemoveElement
  <2>3. /\ Cardinality({i \in DOMAIN tasks : Precedes(i, j)}) \in Nat
        /\ Cardinality({i \in DOMAIN tasks : Precedes(i, j)}) <= n - 1
    BY <2>1, <2>2, FS_Subset, FS_CardinalityType
  <2> QED
    BY <2>3 DEF Place
<1>5. ASSUME NEW i \in 1 .. n, NEW j \in 1 .. n, Place(i) = Place(j) PROVE i = j
  <2>1. ~ Precedes(i, j) /\ ~ Precedes(j, i)
    <3>1. i \in DOMAIN tasks /\ j \in DOMAIN tasks
      BY <1>2
    <3>2. Precedes(i, j) => Place(i) < Place(j)
      BY <3>1, PlacesDiffer
    <3>3. Precedes(j, i) => Place(j) < Place(i)
      BY <3>1, PlacesDiffer
    <3>4. Place(i) \in Int /\ Place(j) \in Int
      BY <1>4
    <3> QED
      BY <1>5, <3>2, <3>3, <3>4
  <2> QED
    BY <1>3, <2>1 DEF Precedes
<1>6. place \in Injection(1 .. n, 1 .. n)
  BY <1>4, <1>5 DEF Injection, IsInjective
<1>7. place \in Surjection(1 .. n, 1 .. n)
  <2> HIDE DEF place
  <2> QED
    BY <1>2, <1>6, FS_Injection
<1>8. \A k \in 1 .. n : \E j \in 1 .. n : Place(j) = k
  BY <1>7 DEF Surjection
<1> DEFINE p == [k \in 1 .. n |-> CHOOSE j \in DOMAIN tasks : Place(j) = k]
<1>9. ASSUME NEW k \in 1 .. n PROVE p[k] \in 1 .. n /\ Place(p[k]) = k
  <2>1. PICK c : c = CHOOSE j \in DOMAIN tasks : Place(j) = k
    OBVIOUS
  <2>2. c \in DOMAIN tasks /\ Place(c) = k
    BY <1>2, <1>8, <2>1
  <2>3. p[k] = c
    BY <2>1
  <2> QED
    BY <1>2, <2>2, <2>3
<1>10. \A k \in 1 .. n : Sorted[k] = tasks[p[k]]
  BY <1>2 DEF Sorted
<1> HIDE DEF p
<1>11. Sorted \in Seq(TaskSet) /\ Len(Sorted) = n
  <2>1. Sorted = [k \in 1 .. n |-> Sorted[k]]
    BY <1>2 DEF Sorted
  <2>2. \A k \in 1 .. n : Sorted[k] \in TaskSet
    BY <1>1, <1>9, <1>10
  <2>3. Sorted \in [1 .. n -> TaskSet]
    BY <2>1, <2>2
  <2> QED
    BY <2>3
<1>12. \A i, j \in 1 .. n : p[i] = p[j] => i = j
  BY <1>9
<1>13. \A j \in 1 .. n : \E i \in 1 .. n : p[i] = j
  BY <1>4, <1>5, <1>9
<1>14. p \in [1 .. n -> 1 .. n]
  <2>1. p = [k \in 1 .. n |-> p[k]]
    BY DEF p
  <2> QED
    BY <1>9, <2>1
<1>15. \E q \in [1 .. n -> 1 .. n] :
         /\ \A i \in 1 .. n : Sorted[i] = tasks[q[i]]
         /\ \A i, j \in 1 .. n : q[i] = q[j] => i = j
         /\ \A j \in 1 .. n : \E i \in 1 .. n : q[i] = j
  <2> WITNESS p \in [1 .. n -> 1 .. n]
  <2> QED
    BY <1>10, <1>12, <1>13
<1> QED
  BY <1>11, <1>15

LEMMA StartWorkersStep == IInv /\ StartWorkers => IInv'
<1> SUFFICES ASSUME IInv, StartWorkers PROVE IInv'
  OBVIOUS
<1>1. /\ RunInv /\ RoutingInv /\ OffsetsInv /\ DispatchInv /\ PlanInv /\ WorkInv /\ CombineInv
      /\ phase = "plan" /\ phase' = "run" /\ planned \notin Experts
      /\ tasks' = IF schedule.scheduling = "fixed" THEN tasks ELSE Sorted
      /\ UNCHANGED <<traced, schedule, tokens, routeVars, dispatchVars, planned, nextTask,
                     activation, result, sumVars>>
  BY DEF IInv, StartWorkers
<1>2. RunInv'
  BY <1>1 DEF RunInv, Dispatching
<1>3. RoutingInv'
  BY <1>1, RoutesUntouched DEF RoutingInv, routeVars
<1>4. OffsetsInv'
  BY <1>1, OffsetsUntouched DEF Early, Dispatching, routeVars, dispatchVars
<1>5. DispatchInv'
  BY <1>1, SortUntouched DEF Dispatching, Planning, routeVars, dispatchVars
<1>6. PlanInv' /\ Len(tasks') = Len(tasks)
  <2>1. tasks \in Seq(TaskSet) /\ Partitioned
    BY <1>1 DEF PlanInv, Planning
  <2>2. PICK n \in Nat : n = Len(tasks)
    BY <2>1
  <2>3. /\ tasks' \in Seq(TaskSet) /\ Len(tasks') = n
        /\ \E p \in [1 .. n -> 1 .. n] :
             /\ \A i \in 1 .. n : tasks'[i] = tasks[p[i]]
             /\ \A i, j \in 1 .. n : p[i] = p[j] => i = j
             /\ \A j \in 1 .. n : \E i \in 1 .. n : p[i] = j
    <3>1. CASE schedule.scheduling = "fixed"
      <4>1. PICK p \in [1 .. n -> 1 .. n] : p = [i \in 1 .. n |-> i]
        OBVIOUS
      <4>2. \A i \in 1 .. n : p[i] = i
        BY <4>1
      <4>3. tasks' = tasks
        BY <1>1, <3>1
      <4>4. \A i \in 1 .. n : tasks'[i] = tasks[p[i]]
        BY <4>2, <4>3
      <4>5. /\ \A i, j \in 1 .. n : p[i] = p[j] => i = j
            /\ \A j \in 1 .. n : \E i \in 1 .. n : p[i] = j
        BY <4>2
      <4>6. tasks' \in Seq(TaskSet) /\ Len(tasks') = n
        BY <2>1, <2>2, <4>3
      <4> QED
        BY <4>4, <4>5, <4>6
    <3>2. CASE schedule.scheduling # "fixed"
      <4>1. tasks' = Sorted
        BY <1>1, <3>2
      <4>2. /\ Sorted \in Seq(TaskSet) /\ Len(Sorted) = n
            /\ \E p \in [1 .. n -> 1 .. n] :
                 /\ \A i \in 1 .. n : Sorted[i] = tasks[p[i]]
                 /\ \A i, j \in 1 .. n : p[i] = p[j] => i = j
                 /\ \A j \in 1 .. n : \E i \in 1 .. n : p[i] = j
        BY <2>1, <2>2, SortIsPermutation
      <4> QED
        BY <4>1, <4>2, ZenonT(40)
    <3> QED
      BY <3>1, <3>2
  <2>4. PICK p \in [1 .. n -> 1 .. n] :
             /\ \A i \in 1 .. n : tasks'[i] = tasks[p[i]]
             /\ \A i, j \in 1 .. n : p[i] = p[j] => i = j
             /\ \A j \in 1 .. n : \E i \in 1 .. n : p[i] = j
    BY <2>3
  <2>5. ASSUME NEW i \in 1 .. n
        PROVE  InSegment(tasks[i])' /\ tasks'[i].end <= offsets[planned + 1]
    <3>1. p[i] \in 1 .. n /\ tasks'[i] = tasks[p[i]]
      BY <2>4
    <3>2. InSegment(tasks[p[i]]) /\ tasks[p[i]].end <= offsets[planned + 1]
      BY <2>1, <2>2, <3>1 DEF Partitioned
    <3> QED
      BY <1>1, <3>1, <3>2 DEF InSegment, dispatchVars
  <2>6. ASSUME NEW i \in 1 .. n, NEW j \in 1 .. n, i # j PROVE Apart(i, j)'
    <3>1. p[i] \in 1 .. n /\ p[j] \in 1 .. n /\ p[i] # p[j]
      BY <2>4, <2>6
    <3>2. Apart(p[i], p[j])
      BY <2>1, <2>2, <3>1 DEF Partitioned
    <3> QED
      BY <2>4, <3>2 DEF Apart
  <2>7. ASSUME NEW r \in 0 .. offsets[planned + 1] - 1
        PROVE  \E i \in 1 .. n : tasks'[i].begin <= r /\ r < tasks'[i].end
    <3>1. PICK j \in 1 .. n : tasks[j].begin <= r /\ r < tasks[j].end
      BY <2>1, <2>2 DEF Partitioned
    <3>2. PICK i \in 1 .. n : p[i] = j
      BY <2>4
    <3> QED
      BY <2>4, <3>1, <3>2
  <2>8. Partitioned'
    BY <1>1, <2>3, <2>5, <2>6, <2>7 DEF Partitioned, dispatchVars
  <2>9. TaskSet' = TaskSet
    BY <1>1 DEF TaskSet, TaskBucket, BucketFor, Buckets
  <2>10. planned = ExpertCount
    BY <1>1, ExpertsAssumption DEF PlanInv, Experts
  <2> QED
    BY <1>1, <2>2, <2>3, <2>8, <2>9, <2>10 DEF PlanInv, Planning, Running
<1>7. WorkInv'
  <2>1. PICK n \in Nat \ {0} : n = WorkerCountFor(Len(tasks))
    <3>1. schedule.threads \in Nat \ {0}
      BY <1>1, SchedulesAssumption DEF RunInv
    <3>2. Len(tasks) \in Nat
      BY <1>1 DEF PlanInv
    <3> QED
      BY <3>1, <3>2 DEF WorkerCountFor, Greatest, Least
  <2>2. stage' = [w \in 0 .. n - 1 |-> "next"] /\ doing' = [w \in 0 .. n - 1 |-> 0]
    BY <2>1 DEF StartWorkers
  <2>3. Workers' = 0 .. n - 1
    BY <2>2 DEF Workers
  <2>4. nextTask' = 0 /\ nextTask = 0 /\ Routes' = Routes
    BY <1>1 DEF WorkInv, Running, Routes
  <2>5. Len(tasks') \in Nat
    BY <1>6 DEF PlanInv
  <2>6. Team(n)'
    BY <2>2, <2>5 DEF Team
  <2>7. TakenOnce' /\ Widened'
    BY <2>2, <2>3, <2>4 DEF TakenOnce, TakesTurns, Busy, Widened
  <2>8. ASSUME NEW i \in 1 .. Len(tasks') PROVE ~ Taken(i)'
    BY <2>2, <2>3, <2>4, <2>5 DEF Taken
  <2>9. Narrowed'
    BY <2>8 DEF Narrowed, Finished
  <2> QED
    BY <1>1, <2>4, <2>6, <2>7, <2>9 DEF WorkInv, Running, Summing
<1>8. CombineInv'
  BY <1>1 DEF CombineInv, Summing, sumVars
<1> QED
  BY <1>2, <1>3, <1>4, <1>5, <1>6, <1>7, <1>8 DEF IInv

-----------------------------------------------------------------------------
(* The workers: what a task is while they run.                             *)
LEMMA SlicesInRoutes ==
  ASSUME RunInv, RoutingInv, OffsetsInv, PlanInv, Running, NEW i \in 1 .. Len(tasks)
  PROVE  /\ tasks[i].expert \in Experts /\ tasks[i].begin \in Nat /\ tasks[i].end \in Nat
         /\ SliceOf(i) \subseteq Routes
         /\ \A j \in 1 .. Len(tasks) : i # j => SliceOf(i) \cap SliceOf(j) = {}
<1>1. tasks \in Seq(TaskSet) /\ Partitioned /\ Dispatching
  BY DEF PlanInv, Running, Planning, Dispatching
<1>2. \A j \in 1 .. Len(tasks) :
        tasks[j].expert \in Experts /\ tasks[j].begin \in Nat /\ tasks[j].end \in Nat
  BY <1>1, TaskFields
<1>3. PICK e \in Experts : e = tasks[i].expert
  BY <1>2
<1>4. tasks[i].end <= offsets[e + 2]
  BY <1>1, <1>3 DEF Partitioned, InSegment
<1>5. offsets[e + 2] \in Nat /\ offsets[e + 2] <= tokens * TopK /\ tokens * TopK \in Nat
  <2>1. /\ e \in 0 .. ExpertCount /\ e + 1 \in 0 .. ExpertCount /\ e + 2 = (e + 1) + 1
        /\ ExpertCount \in 0 .. ExpertCount
    BY <1>3, ExpertsAssumption DEF Experts
  <2> QED
    BY <1>1, <2>1, OffsetsStep, TokensType
<1>6. SliceOf(i) \subseteq Routes
  BY <1>2, <1>4, <1>5 DEF SliceOf, Routes
<1>7. ASSUME NEW j \in 1 .. Len(tasks), i # j PROVE SliceOf(i) \cap SliceOf(j) = {}
  <2>1. Apart(i, j)
    BY <1>1, <1>7 DEF Partitioned
  <2> QED
    BY <1>2, <2>1 DEF Apart, SliceOf
<1> QED
  BY <1>2, <1>6, <1>7

LEMMA TeamFacts ==
  ASSUME WorkInv, PlanInv, Running
  PROVE  \E n \in Nat \ {0} :
           /\ Workers = 0 .. n - 1 /\ Cardinality(Workers) = n
           /\ stage \in [Workers -> {"next", "widen", "narrow", "left"}]
           /\ doing \in [Workers -> 0 .. Len(tasks)]
<1>1. PICK n \in Nat \ {0} : Team(n)
  BY DEF WorkInv
<1>2. Workers = 0 .. n - 1
  BY <1>1 DEF Team, Workers
<1>3. 0 \in Int /\ n - 1 \in Int /\ ~ (0 > n - 1) /\ n - 1 - 0 + 1 = n
  OBVIOUS
<1>4. Cardinality(0 .. n - 1) = n
  BY <1>3, FS_Interval
<1> QED
  BY <1>1, <1>2, <1>4 DEF Team

(* No two workers have a task in common. *)
LEMMA OwnTasksDiffer ==
  ASSUME NEW v \in Workers, NEW w \in Workers, v # w
  PROVE  OwnTasks(v) \cap OwnTasks(w) = {}
BY DEF OwnTasks

LEMMA MinOfIsLeast ==
  ASSUME NEW S \in SUBSET Nat, S # {}
  PROVE  MinOf(S) \in S /\ \A y \in S : MinOf(S) <= y
<1>1. PICK m \in S : \A y \in S : ~(<<y, m>> \in OpToRel(<, Nat))
  BY NatLessThanWellFounded, WFMin
<1>2. ASSUME NEW y \in S PROVE m <= y
  <2>1. m \in Nat /\ y \in Nat /\ ~(y < m)
    BY <1>1 DEF OpToRel
  <2> QED
    BY <2>1
<1> QED
  BY <1>2 DEF MinOf

(* A worker that takes no task keeps what the others have finished.        *)
LEMMA TeamKept ==
  ASSUME WorkInv, PlanInv, Running, UNCHANGED tasks,
         NEW w \in Workers, NEW s \in {"next", "widen", "narrow", "left"},
         NEW d \in 0 .. Len(tasks),
         stage' = [stage EXCEPT ![w] = s], doing' = [doing EXCEPT ![w] = d]
  PROVE  /\ \E n \in Nat \ {0} : Team(n)'
         /\ Workers' = Workers
         /\ \A v \in Workers : v # w => stage'[v] = stage[v] /\ doing'[v] = doing[v]
         /\ stage'[w] = s /\ doing'[w] = d
<1>1. PICK n \in Nat \ {0} : Team(n)
  BY DEF WorkInv
<1>2. Workers = 0 .. n - 1
  BY <1>1 DEF Team, Workers
<1>3. /\ stage' \in [0 .. n - 1 -> {"next", "widen", "narrow", "left"}]
      /\ doing' \in [0 .. n - 1 -> 0 .. Len(tasks)]
  BY <1>1, <1>2 DEF Team
<1>4. Team(n)'
  BY <1>3 DEF Team
<1>5. Workers' = Workers
  BY <1>2, <1>3 DEF Workers
<1> QED
  BY <1>1, <1>2, <1>4, <1>5 DEF Team

LEMMA StealTaskStep ==
  ASSUME IInv, NEW w \in Workers, StealTask(w)
  PROVE  WorkInv'
<1>1. /\ RunInv /\ PlanInv /\ WorkInv /\ Running /\ phase = "run" /\ phase' = "run"
      /\ stage[w] = "next" /\ Steals /\ nextTask' = nextTask + 1
      /\ UNCHANGED <<schedule, tokens, rows, tasks, activation, result>>
      /\ nextTask \in Nat /\ Len(tasks) \in Nat
  BY DEF IInv, StealTask, Running, dispatchVars, planVars, WorkInv, PlanInv
<1>2. /\ stage \in [Workers -> {"next", "widen", "narrow", "left"}]
      /\ doing \in [Workers -> 0 .. Len(tasks)]
  BY <1>1, TeamFacts
<1>3. PICK s \in {"widen", "left"}, d \in 0 .. Len(tasks) :
        /\ stage' = [stage EXCEPT ![w] = s] /\ doing' = [doing EXCEPT ![w] = d]
        /\ s = "widen" => d = nextTask + 1
        /\ s = "left" => d = doing[w] /\ Len(tasks) <= nextTask
  <2>1. CASE nextTask < Len(tasks)
    <3>1. nextTask + 1 \in 0 .. Len(tasks)
      BY <1>1, <2>1
    <3> QED
      BY <2>1, <3>1 DEF StealTask
  <2>2. CASE ~ (nextTask < Len(tasks))
    <3>1. Len(tasks) <= nextTask /\ doing' = [doing EXCEPT ![w] = doing[w]] /\ doing[w] \in 0 .. Len(tasks)
          /\ stage' = [stage EXCEPT ![w] = "left"]
      BY <1>1, <1>2, <2>2 DEF StealTask
    <3> QED
      BY <3>1
  <2> QED
    BY <2>1, <2>2
<1>4. /\ \E n \in Nat \ {0} : Team(n)'
      /\ Workers' = Workers
      /\ \A v \in Workers : v # w => stage'[v] = stage[v] /\ doing'[v] = doing[v]
      /\ stage'[w] = s /\ doing'[w] = d
  BY <1>1, <1>3, TeamKept
<1>5. Steals' = Steals /\ Steals
  BY <1>1, <1>4 DEF Steals
<1>6. \A v \in Workers : TakesTurns(v) /\ doing[v] <= nextTask /\ doing[v] \in Nat
  BY <1>1, <1>2 DEF WorkInv, TakenOnce, TakesTurns
<1>7. TakenOnce'
  <2>1. ASSUME NEW v \in Workers PROVE TakesTurns(v)'
    <3>1. doing'[v] <= nextTask'
      BY <1>1, <1>3, <1>4, <1>6
    <3>2. Busy(v)' => doing'[v] # 0
      BY <1>1, <1>3, <1>4, <1>6 DEF Busy, TakesTurns
    <3>3. stage'[v] = "left" => Len(tasks') <= nextTask'
      BY <1>1, <1>3, <1>4, <1>5, <1>6 DEF TakesTurns
    <3> QED
      BY <1>5, <3>1, <3>2, <3>3 DEF TakesTurns
  <2>2. ASSUME NEW u \in Workers, NEW v \in Workers, u # v, doing'[u] = doing'[v]
        PROVE  doing'[u] = 0
    <3>1. \A x, y \in Workers : x # y /\ doing[x] = doing[y] => doing[x] = 0
      BY <1>1 DEF WorkInv, TakenOnce
    <3>2. CASE s = "widen"
      <4>1. \A x \in Workers : x # w => doing'[x] < d
        BY <1>1, <1>3, <1>4, <1>6, <3>2
      <4> QED
        BY <1>4, <2>2, <3>1, <4>1
    <3>3. CASE s = "left"
      BY <1>3, <1>4, <2>2, <3>1, <3>3
    <3> QED
      BY <3>2, <3>3
  <2> QED
    BY <1>4, <2>1, <2>2 DEF TakenOnce
<1>8. Widened'
  BY <1>1, <1>3, <1>4 DEF WorkInv, Widened, Slice, Activated
<1>9. ASSUME NEW i \in 1 .. Len(tasks), Finished(i)' PROVE Finished(i)
  <2>1. i <= nextTask + 1 /\ \A v \in Workers : doing'[v] = i => ~ Busy(v)'
    BY <1>1, <1>4, <1>5, <1>9 DEF Finished, Taken
  <2>2. i <= nextTask
    <3>1. CASE s = "widen"
      <4>1. i # d
        BY <1>4, <2>1, <3>1 DEF Busy
      <4> QED
        BY <1>1, <1>3, <2>1, <3>1, <4>1
    <3>2. CASE s = "left"
      BY <1>1, <1>3, <3>2
    <3> QED
      BY <3>1, <3>2
  <2>3. \A v \in Workers : doing[v] = i => ~ Busy(v)
    BY <1>1, <1>4, <2>1 DEF Busy
  <2> QED
    BY <1>5, <2>2, <2>3 DEF Finished, Taken
<1>10. Narrowed'
  BY <1>1, <1>9 DEF WorkInv, Narrowed, SliceOf, Activated
<1> QED
  BY <1>1, <1>4, <1>7, <1>8, <1>10 DEF WorkInv, Running, Summing, Routes

LEMMA NextOwnTaskStep ==
  ASSUME IInv, NEW w \in Workers, NextOwnTask(w)
  PROVE  WorkInv'
<1> DEFINE ahead == {i \in OwnTasks(w) : i > doing[w]}
<1>1. /\ RunInv /\ PlanInv /\ WorkInv /\ Running /\ phase = "run" /\ phase' = "run"
      /\ stage[w] = "next" /\ ~ Steals
      /\ UNCHANGED <<schedule, tokens, rows, tasks, nextTask, activation, result>>
      /\ nextTask \in Nat /\ Len(tasks) \in Nat
  BY DEF IInv, NextOwnTask, Running, dispatchVars, planVars, WorkInv, PlanInv
<1>2. /\ stage \in [Workers -> {"next", "widen", "narrow", "left"}]
      /\ doing \in [Workers -> 0 .. Len(tasks)]
  BY <1>1, TeamFacts
<1>3. OwnTasks(w) \subseteq 1 .. Len(tasks) /\ doing[w] \in Nat
  BY <1>1, <1>2 DEF OwnTasks, PlanInv
<1>4. PICK s \in {"widen", "left"}, d \in 0 .. Len(tasks) :
        /\ stage' = [stage EXCEPT ![w] = s] /\ doing' = [doing EXCEPT ![w] = d]
        /\ s = "widen" => d \in ahead /\ \A i \in ahead : d <= i
        /\ s = "left" => d = doing[w] /\ ahead = {}
  <2>1. CASE ahead # {}
    <3>1. ahead \in SUBSET Nat
      BY <1>3
    <3>2. MinOf(ahead) \in ahead /\ \A i \in ahead : MinOf(ahead) <= i
      BY <2>1, <3>1, MinOfIsLeast
    <3>3. MinOf(ahead) \in 0 .. Len(tasks)
      BY <1>3, <3>2
    <3>4. stage' = [stage EXCEPT ![w] = "widen"] /\ doing' = [doing EXCEPT ![w] = MinOf(ahead)]
      BY <2>1 DEF NextOwnTask
    <3> HIDE DEF ahead
    <3> QED
      BY <3>2, <3>3, <3>4
  <2>2. CASE ahead = {}
    <3>1. doing' = [doing EXCEPT ![w] = doing[w]] /\ doing[w] \in 0 .. Len(tasks)
          /\ stage' = [stage EXCEPT ![w] = "left"]
      BY <1>1, <1>2, <2>2 DEF NextOwnTask
    <3> QED
      BY <2>2, <3>1
  <2> QED
    BY <2>1, <2>2
<1>5. /\ \E n \in Nat \ {0} : Team(n)'
      /\ Workers' = Workers
      /\ \A v \in Workers : v # w => stage'[v] = stage[v] /\ doing'[v] = doing[v]
      /\ stage'[w] = s /\ doing'[w] = d
  BY <1>1, <1>4, TeamKept
<1>6. Steals' = Steals /\ ~ Steals /\ \A v : OwnTasks(v)' = OwnTasks(v)
  BY <1>1, <1>5 DEF Steals, OwnTasks
<1>7. \A v \in Workers : TakesTurns(v) /\ doing[v] \in Nat
  BY <1>1, <1>2 DEF WorkInv, TakenOnce
<1>8. ASSUME NEW v \in Workers PROVE TakesTurns(v)'
  <2>1. CASE v # w
    BY <1>5, <1>6, <1>7, <2>1 DEF TakesTurns, Busy
  <2>2. CASE v = w /\ s = "widen"
    <3>1. d \in OwnTasks(w) /\ d # 0
      BY <1>3, <1>4, <2>2
    <3> QED
      BY <1>5, <1>6, <2>2, <3>1 DEF TakesTurns
  <2>3. CASE v = w /\ s = "left"
    <3>1. \A i \in OwnTasks(w) : i <= doing[w]
      BY <1>3, <1>4, <2>3
    <3>2. doing[w] # 0 => doing[w] \in OwnTasks(w)
      BY <1>6, <1>7 DEF TakesTurns
    <3> QED
      BY <1>4, <1>5, <1>6, <2>3, <3>1, <3>2 DEF TakesTurns, Busy
  <2> QED
    BY <2>1, <2>2, <2>3
<1>9. TakenOnce'
  <2>1. ASSUME NEW u \in Workers, NEW v \in Workers, u # v, doing'[u] = doing'[v]
        PROVE  doing'[u] = 0
    <3>1. OwnTasks(u) \cap OwnTasks(v) = {}
      BY <2>1, OwnTasksDiffer
    <3>2. /\ doing'[u] # 0 => doing'[u] \in OwnTasks(u)
          /\ doing'[v] # 0 => doing'[v] \in OwnTasks(v)
      BY <1>6, <1>8 DEF TakesTurns
    <3> QED
      BY <2>1, <3>1, <3>2
  <2> QED
    BY <1>5, <1>8, <2>1 DEF TakenOnce
<1>10. Widened'
  BY <1>1, <1>4, <1>5 DEF WorkInv, Widened, Slice, Activated
<1>11. ASSUME NEW i \in 1 .. Len(tasks), Finished(i)' PROVE Finished(i)
  <2>1. \A v \in Workers : doing'[v] = i => ~ Busy(v)'
    BY <1>5, <1>11 DEF Finished
  <2>2. PICK v \in Workers : i \in OwnTasks(v) /\ i <= doing'[v]
    BY <1>5, <1>6, <1>11 DEF Finished, Taken
  <2>3. i <= doing[v]
    <3>1. CASE v # w
      BY <1>5, <2>2, <3>1
    <3>2. CASE v = w /\ s = "left"
      BY <1>4, <1>5, <2>2, <3>2
    <3>3. CASE v = w /\ s = "widen"
      <4>1. i # d
        BY <1>5, <2>1, <3>3 DEF Busy
      <4>2. i \in ahead => d <= i
        BY <1>4, <3>3
      <4>3. i <= d /\ d \in Nat
        BY <1>5, <2>2, <3>3
      <4>4. i \notin ahead
        <5> HIDE DEF ahead
        <5> QED
          BY <4>1, <4>2, <4>3
      <4> QED
        BY <1>3, <2>2, <3>3, <4>4
    <3> QED
      BY <3>1, <3>2, <3>3
  <2>4. \A u \in Workers : doing[u] = i => ~ Busy(u)
    BY <1>1, <1>5, <2>1 DEF Busy
  <2> QED
    BY <1>6, <2>2, <2>3, <2>4 DEF Finished, Taken
<1>12. Narrowed'
  BY <1>1, <1>11 DEF WorkInv, Narrowed, SliceOf, Activated
<1> QED
  BY <1>1, <1>5, <1>9, <1>10, <1>12 DEF WorkInv, Running, Summing, Routes

LEMMA WidenStep ==
  ASSUME IInv, NEW w \in Workers, Widen(w)
  PROVE  WorkInv'
<1>1. /\ RunInv /\ RoutingInv /\ OffsetsInv /\ PlanInv /\ WorkInv /\ Running
      /\ phase = "run" /\ phase' = "run" /\ stage[w] = "widen"
      /\ UNCHANGED <<schedule, tokens, rows, tasks, nextTask, doing, result>>
      /\ stage' = [stage EXCEPT ![w] = "narrow"]
  BY DEF IInv, Widen, Running, dispatchVars, planVars
<1>2. /\ stage \in [Workers -> {"next", "widen", "narrow", "left"}]
      /\ doing \in [Workers -> 0 .. Len(tasks)]
  BY <1>1, TeamFacts
<1>3. PICK d \in 1 .. Len(tasks) : d = doing[w]
  <2>1. doing[w] # 0 /\ doing[w] \in 0 .. Len(tasks) /\ Len(tasks) \in Nat
    BY <1>1, <1>2 DEF WorkInv, TakenOnce, TakesTurns, Busy, PlanInv
  <2> QED
    BY <2>1
<1>4. doing' = [doing EXCEPT ![w] = d] /\ d \in 0 .. Len(tasks)
  BY <1>1, <1>2, <1>3
<1>5. /\ \E n \in Nat \ {0} : Team(n)'
      /\ Workers' = Workers
      /\ \A v \in Workers : v # w => stage'[v] = stage[v]
      /\ stage'[w] = "narrow"
  BY <1>1, <1>4, TeamKept
<1>6. Steals' = Steals /\ \A v : OwnTasks(v)' = OwnTasks(v)
  BY <1>1, <1>5 DEF Steals, OwnTasks
<1>7. \A v \in Workers : Busy(v)' = Busy(v)
  BY <1>1, <1>5 DEF Busy
<1>8. TakenOnce'
  <2>1. \A v \in Workers : TakesTurns(v)'
    BY <1>1, <1>5, <1>6, <1>7 DEF WorkInv, TakenOnce, TakesTurns
  <2> QED
    BY <1>1, <1>5, <2>1 DEF WorkInv, TakenOnce
<1>9. \A r \in Routes : activation'[r] =
        IF r \in SliceOf(d) THEN Activated(tasks[d].expert, r) ELSE activation[r]
  BY <1>3 DEF Widen, Slice, SliceOf, Activated
<1>10. Widened'
  <2>1. SUFFICES ASSUME NEW v \in Workers, stage'[v] = "narrow", NEW r \in SliceOf(doing[v])
                 PROVE  activation'[r] = Activated(tasks[doing[v]].expert, r)
    BY <1>1, <1>5 DEF Widened, Slice, SliceOf, Activated
  <2>2. CASE v = w
    <3>1. r \in SliceOf(d) /\ SliceOf(d) \subseteq Routes
      BY <1>1, <1>3, <2>1, <2>2, SlicesInRoutes
    <3> QED
      BY <1>3, <1>9, <2>2, <3>1
  <2>3. CASE v # w
    <3>1. stage[v] = "narrow" /\ doing[v] # 0 /\ doing[v] # d /\ doing[v] \in 1 .. Len(tasks)
      <4>1. stage[v] = "narrow"
        BY <1>5, <2>1, <2>3
      <4>2. doing[v] # 0
        BY <1>1, <4>1 DEF WorkInv, TakenOnce, TakesTurns, Busy
      <4>3. doing[v] # d
        BY <1>1, <1>3, <2>3, <4>2 DEF WorkInv, TakenOnce
      <4>4. doing[v] \in 0 .. Len(tasks) /\ Len(tasks) \in Nat
        BY <1>1, <1>2 DEF PlanInv
      <4> QED
        BY <4>1, <4>2, <4>3, <4>4
    <3>2. r \in Routes /\ r \notin SliceOf(d)
      BY <1>1, <1>3, <2>1, <3>1, SlicesInRoutes
    <3>3. activation[r] = Activated(tasks[doing[v]].expert, r)
      BY <1>1, <2>1, <3>1 DEF WorkInv, Widened, Slice, SliceOf
    <3> QED
      BY <1>9, <3>2, <3>3
  <2> QED
    BY <2>2, <2>3
<1>11. Narrowed'
  <2>1. \A i : Finished(i)' = Finished(i)
    BY <1>1, <1>5, <1>6, <1>7 DEF Finished, Taken
  <2> QED
    BY <1>1, <2>1 DEF WorkInv, Narrowed, SliceOf, Activated
<1>12. DOMAIN activation' = Routes /\ Routes' = Routes
  BY <1>1 DEF Widen, Routes
<1> QED
  BY <1>1, <1>5, <1>8, <1>10, <1>11, <1>12 DEF WorkInv, Running, Summing

LEMMA NarrowStep ==
  ASSUME IInv, NEW w \in Workers, Narrow(w)
  PROVE  WorkInv'
<1>1. /\ RunInv /\ RoutingInv /\ OffsetsInv /\ PlanInv /\ WorkInv /\ Running
      /\ phase = "run" /\ phase' = "run" /\ stage[w] = "narrow"
      /\ UNCHANGED <<schedule, tokens, rows, tasks, nextTask, doing, activation>>
      /\ stage' = [stage EXCEPT ![w] = "next"]
  BY DEF IInv, Narrow, Running, dispatchVars, planVars
<1>2. /\ stage \in [Workers -> {"next", "widen", "narrow", "left"}]
      /\ doing \in [Workers -> 0 .. Len(tasks)]
  BY <1>1, TeamFacts
<1>3. PICK d \in 1 .. Len(tasks) : d = doing[w]
  <2>1. doing[w] # 0 /\ doing[w] \in 0 .. Len(tasks) /\ Len(tasks) \in Nat
    BY <1>1, <1>2 DEF WorkInv, TakenOnce, TakesTurns, Busy, PlanInv
  <2> QED
    BY <2>1
<1>4. doing' = [doing EXCEPT ![w] = d] /\ d \in 0 .. Len(tasks)
  BY <1>1, <1>2, <1>3
<1>5. /\ \E n \in Nat \ {0} : Team(n)'
      /\ Workers' = Workers
      /\ \A v \in Workers : v # w => stage'[v] = stage[v]
      /\ stage'[w] = "next"
  BY <1>1, <1>4, TeamKept
<1>6. Steals' = Steals /\ \A v : OwnTasks(v)' = OwnTasks(v)
  BY <1>1, <1>5 DEF Steals, OwnTasks
<1>7. /\ \A v \in Workers : v # w => Busy(v)' = Busy(v)
      /\ ~ Busy(w)'
  BY <1>1, <1>5 DEF Busy
<1>8. TakenOnce'
  <2>1. \A v \in Workers : TakesTurns(v)'
    BY <1>1, <1>5, <1>6, <1>7 DEF WorkInv, TakenOnce, TakesTurns
  <2> QED
    BY <1>1, <1>5, <2>1 DEF WorkInv, TakenOnce
<1>9. \A r \in Routes : result'[r] =
        IF r \in SliceOf(d) THEN <<tasks[d].expert, activation[r]>> ELSE result[r]
  BY <1>3 DEF Narrow, Slice, SliceOf
<1>10. Widened'
  BY <1>1, <1>5 DEF WorkInv, Widened, Slice, Activated
<1>11. Narrowed'
  <2>1. SUFFICES ASSUME NEW i \in 1 .. Len(tasks), Finished(i)', NEW r \in SliceOf(i)
                 PROVE  result'[r] = <<tasks[i].expert, Activated(tasks[i].expert, r)>>
    BY <1>1 DEF Narrowed, SliceOf, Activated
  <2>2. CASE i = d
    <3>1. r \in SliceOf(d) /\ r \in Routes
      BY <1>1, <1>3, <2>1, <2>2, SlicesInRoutes
    <3>2. activation[r] = Activated(tasks[d].expert, r)
      BY <1>1, <1>3, <3>1 DEF WorkInv, Widened, Slice, SliceOf
    <3> QED
      BY <1>9, <2>2, <3>1, <3>2
  <2>3. CASE i # d
    <3>1. r \in Routes /\ r \notin SliceOf(d)
      BY <1>1, <1>3, <2>1, <2>3, SlicesInRoutes
    <3>2. Finished(i)
      <4>1. Taken(i)
        BY <1>1, <1>5, <1>6, <2>1 DEF Finished, Taken
      <4>2. \A v \in Workers : doing[v] = i => ~ Busy(v)
        BY <1>1, <1>3, <1>5, <1>7, <2>1, <2>3 DEF Finished
      <4> QED
        BY <4>1, <4>2 DEF Finished
    <3>3. result[r] = <<tasks[i].expert, Activated(tasks[i].expert, r)>>
      BY <1>1, <2>1, <3>2 DEF WorkInv, Narrowed
    <3> QED
      BY <1>9, <3>1, <3>3
  <2> QED
    BY <2>2, <2>3
<1>12. DOMAIN result' = Routes /\ Routes' = Routes
  BY <1>1 DEF Narrow, Routes
<1> QED
  BY <1>1, <1>5, <1>8, <1>10, <1>11, <1>12 DEF WorkInv, Running, Summing

LEMMA WorkerStepStep == IInv /\ (\E w \in Workers : WorkerStep(w)) => IInv'
<1> SUFFICES ASSUME IInv, NEW w \in Workers, WorkerStep(w) PROVE IInv'
  OBVIOUS
<1>1. /\ RunInv /\ RoutingInv /\ OffsetsInv /\ DispatchInv /\ PlanInv /\ WorkInv /\ CombineInv
      /\ phase = "run" /\ phase' = "run"
      /\ UNCHANGED <<traced, schedule, tokens, routeVars, dispatchVars, planVars, sumVars>>
  BY DEF IInv, WorkerStep, StealTask, NextOwnTask, Widen, Narrow
<1>2. RunInv'
  BY <1>1 DEF RunInv, Dispatching
<1>3. RoutingInv'
  BY <1>1, RoutesUntouched DEF RoutingInv, routeVars
<1>4. OffsetsInv'
  BY <1>1, OffsetsUntouched DEF Early, Dispatching, routeVars, dispatchVars
<1>5. DispatchInv'
  BY <1>1, SortUntouched DEF Dispatching, Planning, routeVars, dispatchVars
<1>6. PlanInv'
  BY <1>1, PlanUntouched DEF Planning, Running, dispatchVars, planVars
<1>7. WorkInv'
  BY StealTaskStep, NextOwnTaskStep, WidenStep, NarrowStep DEF WorkerStep
<1>8. CombineInv'
  BY <1>1 DEF CombineInv, Summing, sumVars
<1> QED
  BY <1>2, <1>3, <1>4, <1>5, <1>6, <1>7, <1>8 DEF IInv

-----------------------------------------------------------------------------
(* The weighted sum: when the workers have left, every row has the result  *)
(* of the expert in whose segment it lies.                                 *)
LEMMA RowIsAssignment ==
  ASSUME RunInv, RoutingInv, OffsetsInv, DispatchInv, Planning, NEW e \in Experts,
         NEW r \in offsets[e + 1] .. offsets[e + 2] - 1
  PROVE  /\ r \in Full /\ r \in Filled(e)
         /\ \E x \in 0 .. tokens * TopK - 1 : rows[r] = RouteOf(x) /\ ExpertOf(x) = e
         /\ rows[r][1] \in 0 .. tokens - 1 /\ rows[r][2] \in SlotsOf
         /\ experts[rows[r][1] + 1][rows[r][2] + 1] = e
<1>1. /\ Dispatching /\ Placed /\ route = tokens * TopK /\ tokens \in Nat /\ tokens * TopK \in Nat
      /\ Len(experts) = tokens
  BY TokensType DEF Planning, Dispatching, DispatchInv, RoutingInv
<1>2. cursor[e] = offsets[e + 2]
  <2>1. cursor[e] = offsets[e + 1] + Cardinality(Assigned(e, tokens * TopK))
    BY <1>1 DEF Placed, CursorsCount
  <2>2. counts[e] = Cardinality(Assigned(e, tokens * TopK))
    BY <1>1 DEF RoutingInv
  <2>3. offsets[e + 2] = offsets[e + 1] + counts[e]
    BY <1>1, OffsetsStep
  <2> QED
    BY <2>1, <2>2, <2>3
<1>3. r \in Filled(e)
  BY <1>2 DEF Filled
<1>4. r \in Full
  BY <1>1, <1>3 DEF Placed, FilledRows
<1>5. PICK x \in 0 .. tokens * TopK - 1 : rows[r] = RouteOf(x) /\ ExpertOf(x) = e
  BY <1>1, <1>3 DEF Placed, FilledRows
<1>6. TokenOf(x) \in 0 .. tokens - 1 /\ SlotOf(x) \in SlotsOf
  BY <1>1, RouteParts
<1> QED
  BY <1>3, <1>4, <1>5, <1>6 DEF RouteOf, ExpertOf

LEMMA AllFinished ==
  ASSUME WorkInv, PlanInv, Running, \A w \in Workers : stage[w] = "left", NEW i \in 1 .. Len(tasks)
  PROVE  Finished(i)
<1>1. PICK n \in Nat \ {0} : Workers = 0 .. n - 1 /\ Cardinality(Workers) = n
  BY TeamFacts
<1>2. \A w \in Workers : TakesTurns(w) /\ ~ Busy(w)
  BY DEF WorkInv, TakenOnce, Busy
<1>3. Taken(i)
  <2>1. CASE Steals
    <3>1. 0 \in Workers /\ nextTask \in Nat /\ Len(tasks) \in Nat
      BY <1>1 DEF WorkInv, PlanInv
    <3> QED
      BY <1>2, <2>1, <3>1 DEF TakesTurns, Taken
  <2>2. CASE ~ Steals
    <3>1. tasks[i].expert \in Nat
      BY TaskFields DEF PlanInv, Experts
    <3>2. PICK w \in Workers : w = tasks[i].expert % n
      <4>1. tasks[i].expert \in Int
        BY <3>1
      <4>2. tasks[i].expert % n \in 0 .. n - 1
        BY <4>1, DivMod
      <4> QED
        BY <1>1, <4>2
    <3>3. i \in OwnTasks(w)
      BY <1>1, <3>2 DEF OwnTasks, PlanInv
    <3> QED
      BY <1>2, <2>2, <3>3 DEF TakesTurns, Taken
  <2> QED
    BY <2>1, <2>2
<1> QED
  BY <1>2, <1>3 DEF Finished

LEMMA RowResult ==
  ASSUME RunInv, RoutingInv, OffsetsInv, DispatchInv, PlanInv, WorkInv, Running,
         \A w \in Workers : stage[w] = "left", NEW r \in Routes
  PROVE  /\ r \in Full
         /\ rows[r][1] \in 0 .. tokens - 1 /\ rows[r][2] \in SlotsOf
         /\ \E e \in Experts : /\ e = experts[rows[r][1] + 1][rows[r][2] + 1]
                               /\ result[r] = <<e, <<e, rows[r][1]>>>>
<1>1. /\ Planning /\ Dispatching /\ Partitioned /\ planned = ExpertCount /\ tokens * TopK \in Nat
      /\ tasks \in Seq(TaskSet)
  BY TokensType DEF Running, Planning, Dispatching, PlanInv
<1>2. r \in 0 .. offsets[planned + 1] - 1
  BY <1>1, OffsetsStep DEF Routes
<1>3. PICK i \in 1 .. Len(tasks) : tasks[i].begin <= r /\ r < tasks[i].end
  BY <1>1, <1>2 DEF Partitioned
<1>4. tasks[i].expert \in Experts /\ tasks[i].begin \in Nat /\ tasks[i].end \in Nat
  BY <1>1, TaskFields
<1>5. PICK e \in Experts : e = tasks[i].expert
  BY <1>4
<1>6. r \in SliceOf(i)
  BY <1>1, <1>3, <1>4 DEF SliceOf, Routes
<1>7. result[r] = <<e, <<e, rows[r][1]>>>>
  BY <1>5, <1>6, AllFinished DEF WorkInv, Narrowed, Activated
<1>8. r \in offsets[e + 1] .. offsets[e + 2] - 1
  <2>1. offsets[e + 1] <= tasks[i].begin /\ tasks[i].end <= offsets[e + 2]
    BY <1>1, <1>5 DEF Partitioned, InSegment
  <2>2. offsets[e + 1] \in Nat /\ offsets[e + 2] \in Nat
    <3>1. e \in 0 .. ExpertCount
      BY ExpertsAssumption DEF Experts
    <3> QED
      BY <1>1, <3>1, OffsetsStep
  <2> QED
    BY <1>1, <1>3, <1>4, <2>1, <2>2 DEF Routes
<1>9. /\ r \in Full /\ rows[r][1] \in 0 .. tokens - 1 /\ rows[r][2] \in SlotsOf
      /\ experts[rows[r][1] + 1][rows[r][2] + 1] = e
  BY <1>1, <1>8, RowIsAssignment
<1> QED
  BY <1>7, <1>9

LEMMA JoinStep == IInv /\ Join => IInv'
<1> SUFFICES ASSUME IInv, Join PROVE IInv'
  OBVIOUS
<1>1. /\ RunInv /\ RoutingInv /\ OffsetsInv /\ DispatchInv /\ PlanInv /\ WorkInv /\ CombineInv
      /\ phase = "run" /\ phase' = "combine" /\ \A w \in Workers : stage[w] = "left"
      /\ output' = [t \in 0 .. tokens - 1 |-> <<>>]
      /\ UNCHANGED <<traced, schedule, tokens, routeVars, dispatchVars, planVars, workVars, combined>>
  BY DEF IInv, Join
<1>2. RunInv'
  BY <1>1 DEF RunInv, Dispatching
<1>3. RoutingInv'
  BY <1>1, RoutesUntouched DEF RoutingInv, routeVars
<1>4. OffsetsInv'
  BY <1>1, OffsetsUntouched DEF Early, Dispatching, routeVars, dispatchVars
<1>5. DispatchInv'
  BY <1>1, SortUntouched DEF Dispatching, Planning, routeVars, dispatchVars
<1>6. PlanInv'
  BY <1>1, PlanUntouched DEF Planning, Running, dispatchVars, planVars
<1>7. WorkInv'
  BY <1>1, WorkUntouched DEF Running, Summing, dispatchVars, planVars, workVars
<1>8. CombineInv'
  <2>1. combined' = 0 /\ tokens' = tokens /\ combined' \in 0 .. tokens' * TopK
    BY <1>1 DEF CombineInv, Summing
  <2>2. \A t : RowsOfToken(t, combined)' = {}
    BY <2>1 DEF RowsOfToken
  <2>3. \A t : Cardinality(RowsOfToken(t, combined)') = 0
    BY <2>2, FS_EmptySet
  <2>4. ASSUME NEW t \in 0 .. tokens - 1
        PROVE  output'[t] = <<>> /\ Len(output'[t]) = 0 /\ {output'[t][i] : i \in 1 .. Len(output'[t])} = {}
    BY <1>1
  <2>5. ASSUME NEW t \in 0 .. tokens - 1 PROVE {Term(r)' : r \in RowsOfToken(t, combined)'} = {}
    BY <2>2
  <2>6. Summed'
    BY <2>1, <2>3, <2>4, <2>5 DEF Summed
  <2>7. output' \in [0 .. tokens' - 1 -> Seq(Terms')]
    BY <1>1, <2>1
  <2> QED
    BY <1>1, <2>1, <2>6, <2>7 DEF CombineInv
<1> QED
  BY <1>2, <1>3, <1>4, <1>5, <1>6, <1>7, <1>8 DEF IInv

LEMMA RowsOfTokenStep ==
  ASSUME NEW t, NEW n \in Nat
  PROVE  /\ IsFiniteSet(RowsOfToken(t, n)) /\ Cardinality(RowsOfToken(t, n)) \in Nat
         /\ rows[n][1] = t => /\ RowsOfToken(t, n + 1) = RowsOfToken(t, n) \cup {n}
                              /\ Cardinality(RowsOfToken(t, n + 1)) = Cardinality(RowsOfToken(t, n)) + 1
         /\ rows[n][1] # t => RowsOfToken(t, n + 1) = RowsOfToken(t, n)
<1>1. IsFiniteSet(0 .. n - 1)
  BY FS_Interval
<1>2. IsFiniteSet(RowsOfToken(t, n)) /\ Cardinality(RowsOfToken(t, n)) \in Nat
  BY <1>1, FS_Subset, FS_CardinalityType DEF RowsOfToken
<1>3. rows[n][1] = t => RowsOfToken(t, n + 1) = RowsOfToken(t, n) \cup {n} /\ n \notin RowsOfToken(t, n)
  BY DEF RowsOfToken
<1>4. rows[n][1] # t => RowsOfToken(t, n + 1) = RowsOfToken(t, n)
  BY DEF RowsOfToken
<1>5. n \notin RowsOfToken(t, n) =>
        Cardinality(RowsOfToken(t, n) \cup {n}) = Cardinality(RowsOfToken(t, n)) + 1
  BY <1>2, FS_AddElement
<1> QED
  BY <1>2, <1>3, <1>4, <1>5

LEMMA CombineRowStep == IInv /\ CombineRow => IInv'
<1> SUFFICES ASSUME IInv, CombineRow PROVE IInv'
  OBVIOUS
<1>1. /\ RunInv /\ RoutingInv /\ OffsetsInv /\ DispatchInv /\ PlanInv /\ WorkInv /\ CombineInv
      /\ phase = "combine" /\ phase' = "combine" /\ combined \in Routes
      /\ combined' = combined + 1
      /\ UNCHANGED <<traced, schedule, tokens, routeVars, dispatchVars, planVars, workVars>>
  BY DEF IInv, CombineRow
<1>2. RunInv'
  BY <1>1 DEF RunInv, Dispatching
<1>3. RoutingInv'
  BY <1>1, RoutesUntouched DEF RoutingInv, routeVars
<1>4. OffsetsInv'
  BY <1>1, OffsetsUntouched DEF Early, Dispatching, routeVars, dispatchVars
<1>5. DispatchInv'
  BY <1>1, SortUntouched DEF Dispatching, Planning, routeVars, dispatchVars
<1>6. PlanInv'
  BY <1>1, PlanUntouched DEF Planning, Running, dispatchVars, planVars
<1>7. WorkInv'
  BY <1>1, WorkUntouched DEF Running, Summing, dispatchVars, planVars, workVars
<1>8. CombineInv'
  <2>1. PICK c \in Nat : c = combined
    BY <1>1 DEF Routes
  <2>2. c \in Routes /\ c + 1 \in 0 .. tokens * TopK
    BY <1>1, <2>1, TokensType DEF Routes
  <2>3. Running /\ Summing /\ \A w \in Workers : stage[w] = "left"
    BY <1>1 DEF Running, Summing, WorkInv
  <2>4. /\ rows[c][1] \in 0 .. tokens - 1 /\ rows[c][2] \in SlotsOf
        /\ \E e \in Experts : result[c] = <<e, <<e, rows[c][1]>>>>
    BY <1>1, <2>2, <2>3, RowResult
  <2>5. PICK u \in 0 .. tokens - 1 : u = rows[c][1]
    BY <2>4
  <2>6. PICK term \in Terms : term = Term(c)
    <3>1. PICK e \in Experts : result[c] = <<e, <<e, rows[c][1]>>>>
      BY <2>4
    <3>2. <<rows[c][2], <<e, <<e, rows[c][1]>>>>>> \in Terms
      BY <2>4 DEF Terms
    <3> QED
      BY <3>1, <3>2 DEF Term
  <2>7. output' = [output EXCEPT ![u] = Append(@, term)]
    BY <2>1, <2>5, <2>6 DEF CombineRow, Term
  <2>8. output \in [0 .. tokens - 1 -> Seq(Terms)] /\ Summed
    BY <1>1, <2>3 DEF CombineInv
  <2>9. output[u] \in Seq(Terms)
    BY <2>8
  <2>10. output' \in [0 .. tokens - 1 -> Seq(Terms)]
    <3>1. Append(output[u], term) \in Seq(Terms)
      BY <2>9
    <3> QED
      BY <2>7, <2>8, <3>1
  <2>11. Terms' = Terms /\ tokens' = tokens
    BY <1>1 DEF Terms
  <2>12. \A r : Term(r)' = Term(r)
    BY <1>1 DEF Term, dispatchVars, workVars
  <2>13. \A t, n : {r \in 0 .. n - 1 : rows'[r][1] = t} = RowsOfToken(t, n)
    BY <1>1 DEF RowsOfToken, dispatchVars
  <2>14. \A t : RowsOfToken(t, combined)' = RowsOfToken(t, c + 1)
    BY <1>1, <2>1 DEF RowsOfToken, dispatchVars
  <2>15. ASSUME NEW t \in 0 .. tokens - 1
         PROVE  /\ Len(output'[t]) = Cardinality(RowsOfToken(t, c + 1))
                /\ {output'[t][i] : i \in 1 .. Len(output'[t])} = {Term(r) : r \in RowsOfToken(t, c + 1)}
    <3>1. /\ Len(output[t]) = Cardinality(RowsOfToken(t, c))
          /\ {output[t][i] : i \in 1 .. Len(output[t])} = {Term(r) : r \in RowsOfToken(t, c)}
      BY <2>1, <2>8 DEF Summed
    <3>2. CASE t = u
      <4>1. PICK before \in Seq(Terms) : before = output[u]
        BY <2>9
      <4>2. output'[t] = Append(before, term)
        BY <2>7, <2>8, <3>2, <4>1
      <4>3. /\ RowsOfToken(t, c + 1) = RowsOfToken(t, c) \cup {c}
            /\ Cardinality(RowsOfToken(t, c + 1)) = Cardinality(RowsOfToken(t, c)) + 1
        BY <2>5, <3>2, RowsOfTokenStep
      <4>4. Len(output'[t]) = Len(before) + 1 /\ Len(before) \in Nat
        BY <4>1, <4>2
      <4>5. \A i \in 1 .. Len(before) + 1 :
              output'[t][i] = IF i = Len(before) + 1 THEN term ELSE before[i]
        BY <4>1, <4>2
      <4>6. {output'[t][i] : i \in 1 .. Len(output'[t])} =
              {before[i] : i \in 1 .. Len(before)} \cup {term}
        BY <4>4, <4>5
      <4>8. before = output[t]
        BY <3>2, <4>1
      <4>7. {Term(r) : r \in RowsOfToken(t, c + 1)} =
              {Term(r) : r \in RowsOfToken(t, c)} \cup {Term(c)}
        BY <4>3
      <4>9. {output'[t][i] : i \in 1 .. Len(output'[t])} =
              {output[t][i] : i \in 1 .. Len(output[t])} \cup {term}
        BY <4>6, <4>8
      <4>10. {output'[t][i] : i \in 1 .. Len(output'[t])} =
              {Term(r) : r \in RowsOfToken(t, c)} \cup {Term(c)}
        BY <2>6, <3>1, <4>9
      <4>11. Len(output'[t]) = Cardinality(RowsOfToken(t, c + 1))
        BY <3>1, <4>3, <4>4, <4>8
      <4> QED
        BY <4>7, <4>10, <4>11
    <3>3. CASE t # u
      <4>1. output'[t] = output[t]
        BY <2>7, <2>8, <3>3
      <4>2. RowsOfToken(t, c + 1) = RowsOfToken(t, c)
        BY <2>5, <3>3, RowsOfTokenStep
      <4> QED
        BY <3>1, <4>1, <4>2
    <3> QED
      BY <3>2, <3>3
  <2>16. ASSUME NEW t \in 0 .. tokens - 1
         PROVE  {Term(r)' : r \in RowsOfToken(t, combined)'} = {Term(r) : r \in RowsOfToken(t, c + 1)}
    BY <2>12, <2>14
  <2>17. Summed'
    BY <2>11, <2>14, <2>15, <2>16 DEF Summed
  <2> QED
    <3>1. output' \in [0 .. tokens' - 1 -> Seq(Terms')]
      BY <2>10, <2>11
    <3>2. combined' \in 0 .. tokens' * TopK
      BY <1>1, <2>1, <2>2, <2>11
    <3>3. Summing' /\ phase' # "done"
      BY <1>1 DEF Summing
    <3> QED
      BY <2>17, <3>1, <3>2, <3>3 DEF CombineInv
<1> QED
  BY <1>2, <1>3, <1>4, <1>5, <1>6, <1>7, <1>8 DEF IInv

LEMMA ReturnStep == IInv /\ Return => IInv'
<1> SUFFICES ASSUME IInv, Return PROVE IInv'
  OBVIOUS
<1>1. /\ RunInv /\ RoutingInv /\ OffsetsInv /\ DispatchInv /\ PlanInv /\ WorkInv /\ CombineInv
      /\ phase = "combine" /\ phase' = "done" /\ combined \notin Routes
      /\ UNCHANGED <<traced, schedule, tokens, routeVars, dispatchVars, planVars, workVars, sumVars>>
  BY DEF IInv, Return
<1>2. RunInv'
  BY <1>1 DEF RunInv, Dispatching
<1>3. RoutingInv'
  BY <1>1, RoutesUntouched DEF RoutingInv, routeVars
<1>4. OffsetsInv'
  BY <1>1, OffsetsUntouched DEF Early, Dispatching, routeVars, dispatchVars
<1>5. DispatchInv'
  BY <1>1, SortUntouched DEF Dispatching, Planning, routeVars, dispatchVars
<1>6. PlanInv'
  BY <1>1, PlanUntouched DEF Planning, Running, dispatchVars, planVars
<1>7. WorkInv'
  BY <1>1, WorkUntouched DEF Running, Summing, dispatchVars, planVars, workVars
<1>8. CombineInv'
  <2>1. combined = tokens * TopK
    BY <1>1, TokensType DEF CombineInv, Routes
  <2> QED
    BY <1>1, <2>1, SumUntouched DEF Summing, dispatchVars, workVars, sumVars
<1> QED
  BY <1>2, <1>3, <1>4, <1>5, <1>6, <1>7, <1>8 DEF IInv

LEMMA StutterStep == IInv /\ UNCHANGED vars => IInv'
<1> SUFFICES ASSUME IInv, UNCHANGED vars PROVE IInv'
  OBVIOUS
<1>1. /\ RunInv /\ RoutingInv /\ OffsetsInv /\ DispatchInv /\ PlanInv /\ WorkInv /\ CombineInv
      /\ UNCHANGED <<traced, schedule, tokens, phase, routeVars, dispatchVars, planVars, workVars, sumVars>>
  BY DEF IInv, vars
<1>2. RunInv'
  BY <1>1 DEF RunInv, Early, Dispatching
<1>3. RoutingInv'
  BY <1>1, RoutesUntouched DEF RoutingInv, routeVars
<1>4. OffsetsInv'
  BY <1>1, OffsetsUntouched DEF Early, Dispatching, routeVars, dispatchVars
<1>5. DispatchInv'
  BY <1>1, SortUntouched DEF Dispatching, Planning, routeVars, dispatchVars
<1>6. PlanInv'
  BY <1>1, PlanUntouched DEF Planning, Running, dispatchVars, planVars
<1>7. WorkInv'
  BY <1>1, WorkUntouched DEF Running, Summing, dispatchVars, planVars, workVars
<1>8. CombineInv'
  BY <1>1, SumUntouched DEF Summing, dispatchVars, workVars, sumVars
<1> QED
  BY <1>2, <1>3, <1>4, <1>5, <1>6, <1>7, <1>8 DEF IInv

-----------------------------------------------------------------------------
(* The invariant holds in every state of a run. *)
THEOREM Invariance == Spec => []IInv
<1>1. Init => IInv
  BY InitIInv
<1>2. IInv /\ [Next]_vars => IInv'
  BY RouteTokenStep, EnterStep, AddOffsetStep, BeginDispatchStep, DispatchRouteStep,
     EndDispatchStep, PlanExpertStep, StartWorkersStep, WorkerStepStep, JoinStep,
     CombineRowStep, ReturnStep, StutterStep DEF Next, Terminated
<1> QED
  BY <1>1, <1>2, PTL DEF Spec

(* dispatch_tokens never fills a row twice, and leaves in each segment the *)
(* assignments of its expert, in the order of their tokens.                *)
THEOREM SegmentsHold == Spec => []SegmentsHoldTheirTokens
<1>1. IInv => SegmentsHoldTheirTokens
  <2> SUFFICES ASSUME IInv PROVE SegmentsHoldTheirTokens
    OBVIOUS
  <2>1. RunInv /\ RoutingInv /\ OffsetsInv /\ DispatchInv
    BY DEF IInv
  <2>2. phase = "dispatch" => Cardinality(Full) = route
    BY <2>1 DEF DispatchInv, Dispatching, Placed, EachPlacedOnce
  <2>3. ASSUME Planning, NEW e \in Experts,
               NEW r \in offsets[e + 1] .. offsets[e + 2] - 1
        PROVE  experts[rows[r][1] + 1][rows[r][2] + 1] = e /\ r \in Filled(e)
    BY <2>1, <2>3, RowIsAssignment
  <2>4. ASSUME Planning, NEW e \in Experts,
               NEW q \in offsets[e + 1] .. offsets[e + 2] - 1,
               NEW r \in offsets[e + 1] .. offsets[e + 2] - 1, q < r
        PROVE  rows[q][1] < rows[r][1]
    <3>1. Dispatching
      BY <2>4 DEF Planning, Dispatching
    <3> QED
      BY <2>1, <2>3, <2>4, <3>1 DEF DispatchInv, Placed, FilledInOrder
  <2>5. ASSUME Planning, NEW e \in Experts
        PROVE  Cardinality(offsets[e + 1] .. offsets[e + 2] - 1) = counts[e]
    <3>1. Dispatching /\ e \in 0 .. ExpertCount
      BY <2>5, ExpertsAssumption DEF Planning, Dispatching, Experts
    <3>2. /\ offsets[e + 1] \in Nat /\ offsets[e + 2] \in Nat /\ counts[e] \in Nat
          /\ offsets[e + 2] = offsets[e + 1] + counts[e]
      BY <2>1, <3>1, OffsetsStep DEF RoutingInv
    <3>3. PICK a \in Int, b \in Int : a = offsets[e + 1] /\ b = offsets[e + 2] - 1
      BY <3>2
    <3>4. Cardinality(a .. b) = IF a > b THEN 0 ELSE b - a + 1
      BY FS_Interval
    <3> QED
      BY <3>2, <3>3, <3>4
  <2> QED
    BY <2>2, <2>3, <2>4, <2>5 DEF SegmentsHoldTheirTokens, Full, Planning
<1> QED
  BY <1>1, Invariance, PTL

(* plan_moe_tasks: the tasks lie in their segments and every row belongs   *)
(* to exactly one of them, also after the sort of the stealing schedules.  *)
THEOREM TasksPartition == Spec => []TasksPartitionSegments
<1>1. IInv => TasksPartitionSegments
  <2> SUFFICES ASSUME IInv, Running PROVE
        /\ \A i \in DOMAIN tasks : InSegment(tasks[i])
        /\ \A r \in Routes : \E i \in DOMAIN tasks :
             r \in SliceOf(i) /\ \A j \in DOMAIN tasks : r \in SliceOf(j) => j = i
    BY DEF TasksPartitionSegments, Running, InSegment, SliceOf
  <2>1. RunInv /\ RoutingInv /\ OffsetsInv /\ PlanInv
    BY DEF IInv
  <2>2. /\ Dispatching /\ Partitioned /\ planned = ExpertCount /\ tasks \in Seq(TaskSet)
        /\ DOMAIN tasks = 1 .. Len(tasks)
    BY <2>1 DEF Running, Planning, Dispatching, PlanInv
  <2>3. ASSUME NEW r \in Routes
        PROVE  \E i \in 1 .. Len(tasks) :
                 r \in SliceOf(i) /\ \A j \in 1 .. Len(tasks) : r \in SliceOf(j) => j = i
    <3>1. r \in 0 .. offsets[planned + 1] - 1 /\ r \in Int
      BY <2>1, <2>2, OffsetsStep, TokensType DEF Routes
    <3>2. PICK i \in 1 .. Len(tasks) : tasks[i].begin <= r /\ r < tasks[i].end
      BY <2>2, <3>1 DEF Partitioned
    <3>3. r \in SliceOf(i)
      BY <2>2, <3>1, <3>2, TaskFields DEF SliceOf
    <3>4. \A j \in 1 .. Len(tasks) : r \in SliceOf(j) => j = i
      BY <2>1, <3>3, SlicesInRoutes
    <3> QED
      BY <3>3, <3>4
  <2> QED
    BY <2>2, <2>3 DEF Partitioned
<1> QED
  BY <1>1, Invariance, PTL

(* Two workers of execute_once never write rows in common: the fixed       *)
(* placement and the atomic counter both give a task to one worker only.   *)
THEOREM SlicesExclusive == Spec => []SlicesAreExclusive
<1>1. IInv => SlicesAreExclusive
  <2> SUFFICES ASSUME IInv, NEW v \in Workers, NEW w \in Workers, v # w, Busy(v), Busy(w)
               PROVE  Slice(v) \cap Slice(w) = {}
    BY DEF SlicesAreExclusive, Busy
  <2>1. RunInv /\ RoutingInv /\ OffsetsInv /\ PlanInv /\ WorkInv
    BY DEF IInv
  <2>2. Running
    BY <2>1 DEF WorkInv, Workers
  <2>3. /\ doing[v] # 0 /\ doing[w] # 0 /\ doing[v] # doing[w]
    BY <2>1, <2>2 DEF WorkInv, TakenOnce, TakesTurns
  <2>4. doing[v] \in 0 .. Len(tasks) /\ doing[w] \in 0 .. Len(tasks) /\ Len(tasks) \in Nat
    BY <2>1, <2>2, TeamFacts DEF PlanInv
  <2>5. doing[v] \in 1 .. Len(tasks) /\ doing[w] \in 1 .. Len(tasks)
    BY <2>3, <2>4
  <2> QED
    BY <2>1, <2>2, <2>3, <2>5, SlicesInRoutes DEF Slice, SliceOf
<1> QED
  BY <1>1, Invariance, PTL

(* Every strategy, scheduler, number of workers and interleaving returns   *)
(* for each token one term per slot, of the expert routed to, once each.   *)
THEOREM ReturnsTheReference == Spec => []ReturnsReference
<1>1. IInv => ReturnsReference
  <2> SUFFICES ASSUME IInv, phase = "done", NEW t \in 0 .. tokens - 1
               PROVE  /\ Len(output[t]) = TopK
                      /\ {output[t][i] : i \in 1 .. TopK} =
                           {LET e == experts[t + 1][s + 1] IN <<s, <<e, <<e, t>>>>>> : s \in SlotsOf}
    BY DEF ReturnsReference
  <2>1. RunInv /\ RoutingInv /\ OffsetsInv /\ DispatchInv /\ PlanInv /\ WorkInv /\ CombineInv
    BY DEF IInv
  <2>2. /\ Running /\ Summing /\ Planning /\ Dispatching /\ Placed /\ Summed
        /\ route = tokens * TopK /\ combined = tokens * TopK /\ tokens * TopK \in Nat /\ tokens \in Nat
        /\ \A w \in Workers : stage[w] = "left"
    BY <2>1, TokensType DEF Running, Summing, Planning, Dispatching, DispatchInv, WorkInv, CombineInv
  <2> DEFINE mine == RowsOfToken(t, tokens * TopK)
             reference(s) == <<s, <<experts[t + 1][s + 1], <<experts[t + 1][s + 1], t>>>>>>
  <2>3. /\ Len(output[t]) = Cardinality(mine)
        /\ {output[t][i] : i \in 1 .. Len(output[t])} = {Term(r) : r \in mine}
    BY <2>2 DEF Summed
  <2>4. ASSUME NEW r \in mine
        PROVE  /\ r \in Full /\ rows[r] = <<t, rows[r][2]>> /\ rows[r][2] \in SlotsOf
               /\ Term(r) = reference(rows[r][2])
    <3>1. r \in Routes /\ rows[r][1] = t
      BY DEF RowsOfToken, Routes
    <3>2. r \in Full /\ rows[r][2] \in SlotsOf
      BY <2>1, <2>2, <3>1, RowResult
    <3>3. PICK e \in Experts : /\ e = experts[t + 1][rows[r][2] + 1]
                               /\ result[r] = <<e, <<e, t>>>>
      BY <2>1, <2>2, <3>1, RowResult
    <3>4. rows[r] = <<t, rows[r][2]>>
      BY <2>1, <3>1, <3>2 DEF Full, DispatchInv
    <3> QED
      BY <3>2, <3>3, <3>4 DEF Term
  <2>5. ASSUME NEW s \in SlotsOf PROVE \E r \in mine : rows[r][2] = s
    <3>1. PICK x \in 0 .. tokens * TopK - 1 : TokenOf(x) = t /\ SlotOf(x) = s
      BY <2>2, RouteIs
    <3>2. PICK r \in Full : rows[r] = <<t, s>>
      BY <2>2, <3>1 DEF Placed, EachPlacedOnce, RouteOf
    <3>3. r \in mine
      BY <3>2 DEF Full, RowsOfToken, Routes
    <3> QED
      BY <3>2, <3>3
  <2>6. ASSUME NEW q \in mine, NEW r \in mine, rows[q][2] = rows[r][2] PROVE q = r
    <3>1. q \in Full /\ r \in Full /\ rows[q] = rows[r]
      BY <2>4, <2>6
    <3> QED
      BY <2>2, <3>1 DEF Placed, EachPlacedOnce
  <2>7. Cardinality(mine) = TopK
    <3> DEFINE f == [r \in mine |-> rows[r][2]]
    <3>1. f \in Bijection(mine, SlotsOf)
      <4>1. f \in [mine -> SlotsOf]
        BY <2>4
      <4>2. f \in Injection(mine, SlotsOf)
        BY <2>6, <4>1 DEF Injection, IsInjective
      <4>3. f \in Surjection(mine, SlotsOf)
        BY <2>5, <4>1 DEF Surjection
      <4> QED
        BY <4>2, <4>3 DEF Bijection
    <3>2. IsFiniteSet(mine)
      BY <2>2, RowsOfTokenStep
    <3>3. Cardinality(SlotsOf) = Cardinality(mine)
      BY <3>1, <3>2, FS_Bijection DEF ExistsBijection
    <3>4. 0 \in Int /\ TopK - 1 \in Int /\ ~ (0 > TopK - 1) /\ TopK - 1 - 0 + 1 = TopK
      BY ExpertsAssumption
    <3>5. Cardinality(SlotsOf) = TopK
      BY <3>4, FS_Interval DEF SlotsOf
    <3> QED
      BY <3>3, <3>5
  <2>8. {Term(r) : r \in mine} = {reference(s) : s \in SlotsOf}
    <3>1. \A r \in mine : \E s \in SlotsOf : Term(r) = reference(s)
      BY <2>4
    <3>2. \A s \in SlotsOf : \E r \in mine : Term(r) = reference(s)
      <4>1. ASSUME NEW s \in SlotsOf PROVE \E r \in mine : Term(r) = reference(s)
        <5>1. PICK r \in mine : rows[r][2] = s
          BY <2>5
        <5>2. Term(r) = reference(s)
          BY <2>4, <5>1
        <5> QED
          BY <5>2
      <4> QED
        BY <4>1
    <3> HIDE DEF reference, mine
    <3> QED
      BY <3>1, <3>2
  <2> QED
    BY <2>3, <2>7, <2>8
<1> QED
  BY <1>1, Invariance, PTL

=============================================================================

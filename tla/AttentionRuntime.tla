-------------------------- MODULE AttentionRuntime --------------------------
(***************************************************************************)
(* The native attention runtime: src/attention_compiler.cpp.  A compiled   *)
(* plan is executed on a shape within its guards: on fresh keys and values *)
(* (execute_attention), or on those that append_kv has collected in a flat *)
(* cache (execute_decode_attention).  Workers take tasks from an atomic    *)
(* counter: blocks of queries, or, for split-KV decode, parts of the keys  *)
(* of a row, whose partial states the calling thread merges.               *)
(*                                                                         *)
(* An online softmax state is the sequence of the keys it has seen: it is  *)
(* rescaled but never loses a term.  Its maximum is finite when a key was  *)
(* seen; a row without keys is divided by zero.  The cache is modelled by  *)
(* its keys: the values lie in the same way.  Batch and head are flattened *)
(* as in the arrays of the code.                                           *)
(***************************************************************************)
EXTENDS RowPartition, Sequences, FiniteSets

CONSTANTS
  Configs,     \* [batch, heads, kvHeads, sq, sk, causal] that were compiled
  Plans,       \* [strategy, queryTile, kvTile, threads, splits]
  Capacities,  \* capacities asked of make_kv_cache
  MaxAppend,   \* bound: tokens of one append_kv
  Unset        \* what an array holds before it is written

ASSUME ConfigsAssumption ==
  \A c \in Configs :
    /\ \A f \in {"batch", "heads", "kvHeads", "sq", "sk"} : c[f] \in Nat \ {0}
    /\ c.causal \in BOOLEAN
    /\ c.heads % c.kvHeads = 0
    /\ c.causal => c.sq <= c.sk             \* validate_config
ASSUME PlansAssumption ==
  \A p \in Plans :
    /\ p.strategy \in {"materialized", "io-aware", "split-kv"}
    /\ \A f \in {"queryTile", "kvTile", "threads"} : p[f] \in Nat \ {0}
    /\ p.splits \in Int
ASSUME CapacitiesAssumption == Capacities \subseteq Nat /\ MaxAppend \in Nat

VARIABLES
  config,      \* plan.config
  plan,        \* plan.plan
  capacity,    \* cache.capacity
  length,      \* cache.length
  cache,       \* cache.keys
  phase,       \* what the calling thread does
  shape,       \* the specialized plan of the call in progress; cached for a decode
  keys,        \* data.key of the call
  nextTask,    \* the atomic counter
  holds,       \* the task each worker has, -1 before its next, -2 when it has left
  partials,    \* the states of the split-KV tasks
  merged,      \* how many of them the calling thread has merged
  output       \* the rows of the output

cacheVars == <<capacity, length, cache>>
runVars == <<shape, keys, nextTask, holds, partials, merged, output>>
vars == <<config, plan, cacheVars, phase, runVars>>

KvLanes == config.batch * config.kvHeads      \* batch and head of the cache
QueryLanes == config.batch * config.heads     \* batch and head of the queries

Init ==
  /\ config \in Configs
  /\ plan \in Plans
  /\ \E asked \in Capacities : capacity = Greatest(config.sk, asked)
  /\ length = 0
  /\ cache = [x \in 0 .. KvLanes * capacity - 1 |-> Unset]
  /\ phase = "idle"
  /\ shape = Unset
  /\ keys = <<>>
  /\ nextTask = 0
  /\ holds = <<>>
  /\ partials = <<>>
  /\ merged = 0
  /\ output = <<>>

-----------------------------------------------------------------------------
(* The flat cache.                                                         *)

(* A token is known by its lane and its position. *)
Appended(n) == [x \in 0 .. KvLanes * n - 1 |-> <<x \div n, length + (x % n)>>]

(* Mutant: the lanes of the cache are taken to be as long as its contents. *)
TargetPacked(lane, n) == lane * (length + n) + length

(* Where append_kv writes the new tokens of a lane. *)
Target(lane, n) == lane * capacity + length

HasRoom(n) == n > 0 /\ length + n <= capacity

(* append_kv; it throws, and changes nothing, when there is no room. *)
AppendKV(n) ==
  /\ phase = "idle"
  /\ HasRoom(n)
  /\ cache' = [x \in DOMAIN cache |->
       LET lanes == {l \in 0 .. KvLanes - 1 : x \in Target(l, n) .. Target(l, n) + n - 1}
       IN IF lanes = {} THEN cache[x]
          ELSE LET lane == CHOOSE l \in lanes : TRUE
               IN Appended(n)[lane * n + x - Target(lane, n)]]
  /\ length' = length + n
  /\ UNCHANGED <<config, plan, capacity, phase, runVars>>

-----------------------------------------------------------------------------
(* The rows of a call: one for each query of each lane.                    *)

Rows == 0 .. QueryLanes * shape.sq - 1
QueryOf(row) == row % shape.sq
LaneOf(row) ==
  LET lane == row \div shape.sq
  IN (lane \div config.heads) * config.kvHeads
       + ((lane % config.heads) * config.kvHeads) \div config.heads

(* The last key a causal query may see. *)
Frontier(query) == shape.sk - shape.sq + query
Allowed(query, key) == config.causal => key <= Frontier(query)

(* The keys of a row are added from the first to the last. *)
Nth(S, i) == CHOOSE k \in S : Cardinality({j \in S : j < k}) = i - 1

(* One row over the keys from first to before last.  The keys come in      *)
(* tiles; a tile that begins beyond the limit ends the loop.               *)
RowOver(row, first, last, tile, limit) ==
  LET TileOf(k) == k - ((k - first) % tile)
      seen == {k \in first .. last - 1 :
                 (config.causal => TileOf(k) <= limit) /\ Allowed(QueryOf(row), k)}
  IN [i \in 1 .. Cardinality(seen) |-> keys[LaneOf(row) * shape.sk + Nth(seen, i)]]

(* Mutant: every part has the same length, so a remainder is left over.    *)
SplitEndEven(split) == (shape.sk \div shape.splits) * (split + 1)

SplitBegin(split) == (shape.sk * split) \div shape.splits
SplitEnd(split) == (shape.sk * (split + 1)) \div shape.splits

(* compute_range of one part of the keys. *)
PartOf(task) ==
  LET row == task \div shape.splits
      split == task % shape.splits
  IN RowOver(row, SplitBegin(split), SplitEnd(split), shape.kvTile, Frontier(QueryOf(row)))

QueryBlocks == CeilDiv(shape.sq, shape.queryTile)
QueryBegin(task) == (task % QueryBlocks) * shape.queryTile

(* Mutant: the last block of a lane is not cut at its last query. *)
QueryEndUncut(task) == QueryBegin(task) + shape.queryTile

QueryEnd(task) == Least(QueryBegin(task) + shape.queryTile, shape.sq)

(* The rows an io-aware task stores. *)
RowsOfTask(task) ==
  LET first == (task \div QueryBlocks) * shape.sq
  IN first + QueryBegin(task) .. first + QueryEnd(task) - 1

Splits == plan.strategy = "split-kv"
TaskCount == IF Splits THEN Cardinality(Rows) * shape.splits ELSE QueryLanes * QueryBlocks

-----------------------------------------------------------------------------
(* The calls.                                                              *)

(* The arrays and threads of a call.  The split-KV path counts its rows    *)
(* and splits, the io-aware path its blocks.                               *)
Begin(newShape, newKeys) ==
  LET rows == QueryLanes * newShape.sq
      blocks == QueryLanes * CeilDiv(newShape.sq, newShape.queryTile)
      tasks == IF Splits THEN rows * newShape.splits ELSE blocks
  IN /\ phase' = "run"
     /\ shape' = newShape
     /\ keys' = newKeys
     /\ nextTask' = 0
     /\ holds' = [w \in 1 .. Clamp(plan.threads, 1, Greatest(1, tasks)) |-> -1]
     /\ partials' = [t \in 0 .. (IF Splits THEN tasks ELSE 0) - 1 |-> Unset]
     /\ merged' = 0
     /\ output' = [r \in 0 .. rows - 1 |-> Unset]
     /\ UNCHANGED <<config, plan, cacheVars>>

(* The tiles are clamped to the compiled shape, and then to the runtime's. *)
Specialized(sq, sk, splits, validate) ==
  [sq |-> sq, sk |-> sk, splits |-> splits, validate |-> validate, cached |-> FALSE,
   queryTile |-> Least(Least(plan.queryTile, config.sq), sq),
   kvTile |-> Least(Least(plan.kvTile, config.sk), sk)]

(* execute_attention on a shape within the guards, with its own data. *)
Prefill(sq, sk) ==
  /\ phase = "idle"
  /\ sq \in 1 .. config.sq /\ sk \in 1 .. config.sk
  /\ Begin(Specialized(sq, sk, Greatest(1, plan.splits), TRUE),
           [x \in 0 .. KvLanes * sk - 1 |-> <<x \div sk, x % sk>>])

(* One split per 128 tokens, at least two, with more than one thread. *)
DecodeSplits ==
  IF plan.threads > 1 THEN Clamp(Greatest(2, length \div 128), 2, plan.threads) ELSE 1

(* execute_decode_attention: the tokens in use are copied from the cache.  *)
Decode(validate) ==
  /\ phase = "idle"
  /\ length \in 1 .. config.sk
  /\ Begin([Specialized(config.sq, length, DecodeSplits, validate)
              EXCEPT !.queryTile = Least(plan.queryTile, config.sq), !.cached = TRUE],
           [x \in 0 .. KvLanes * length - 1 |->
              cache[(x \div length) * capacity + (x % length)]])

(* A call outside the guards throws at once. *)
Rejected ==
  /\ phase = "idle"
  /\ \/ length \notin 1 .. config.sk                    \* execute_decode_attention
     \/ \E n \in 0 .. MaxAppend : ~HasRoom(n)           \* append_kv
  /\ UNCHANGED vars

(* next_task.fetch_add(1). *)
Claim(w) ==
  /\ phase = "run" /\ plan.strategy # "materialized" /\ holds[w] = -1
  /\ nextTask' = nextTask + 1
  /\ holds' = [holds EXCEPT ![w] = IF nextTask < TaskCount THEN nextTask ELSE -2]
  /\ UNCHANGED <<config, plan, cacheVars, phase, shape, keys, partials, merged, output>>

StorePartial(w) ==
  /\ phase = "run" /\ Splits /\ holds[w] >= 0
  /\ partials' = [partials EXCEPT ![holds[w]] = PartOf(holds[w])]
  /\ holds' = [holds EXCEPT ![w] = -1]
  /\ UNCHANGED <<config, plan, cacheVars, phase, shape, keys, nextTask, merged, output>>

StoreRows(w) ==
  /\ phase = "run" /\ ~Splits /\ holds[w] >= 0
  /\ output' = [r \in DOMAIN output |->
       IF r \in RowsOfTask(holds[w])
         THEN RowOver(r, 0, shape.sk, shape.kvTile, Frontier(QueryEnd(holds[w]) - 1))
         ELSE output[r]]
  /\ holds' = [holds EXCEPT ![w] = -1]
  /\ UNCHANGED <<config, plan, cacheVars, phase, shape, keys, nextTask, partials, merged>>

Joined == \A w \in DOMAIN holds : holds[w] = -2

(* After the join the states of a row are merged from the first to the     *)
(* last; merge_online returns the other state when one has seen no key.    *)
MergePart ==
  /\ phase = "run" /\ Splits /\ Joined /\ merged < TaskCount
  /\ output' = [output EXCEPT ![merged \div shape.splits] =
                   IF merged % shape.splits = 0 THEN partials[merged] ELSE @ \o partials[merged]]
  /\ merged' = merged + 1
  /\ UNCHANGED <<config, plan, cacheVars, phase, shape, keys, nextTask, holds, partials>>

(* execute_materialized, tiled or not: one thread, row by row.             *)
Materialized(row) == RowOver(row, 0, shape.sk, shape.sk, shape.sk)

(* The end of the run.  A result that is to be validated is compared with  *)
(* reference_attention, which checks the runtime shape first and throws.   *)
Return ==
  /\ phase = "run"
  /\ plan.strategy # "materialized" => Joined
  /\ Splits => merged = TaskCount
  /\ phase' = IF shape.validate /\ config.causal /\ shape.sq > shape.sk
                THEN "refused" ELSE "returned"
  /\ output' = IF plan.strategy = "materialized" THEN [r \in DOMAIN output |-> Materialized(r)]
               ELSE output
  /\ UNCHANGED <<config, plan, cacheVars, shape, keys, nextTask, holds, partials, merged>>

(* The caller takes the result, or catches the exception. *)
Leave ==
  /\ phase \in {"returned", "refused"}
  /\ phase' = "idle"
  /\ shape' = Unset /\ keys' = <<>> /\ nextTask' = 0 /\ holds' = <<>>
  /\ partials' = <<>> /\ merged' = 0 /\ output' = <<>>
  /\ UNCHANGED <<config, plan, cacheVars>>

WorkerStep(w) == Claim(w) \/ StorePartial(w) \/ StoreRows(w)

Next ==
  \/ \E n \in 1 .. MaxAppend : AppendKV(n)
  \/ \E sq \in 1 .. config.sq, sk \in 1 .. config.sk : Prefill(sq, sk)
  \/ \E validate \in BOOLEAN : Decode(validate)
  \/ Rejected
  \/ \E w \in DOMAIN holds : WorkerStep(w)
  \/ MergePart
  \/ Return
  \/ Leave

Spec == Init /\ [][Next]_vars

-----------------------------------------------------------------------------
(* "append_kv preserves [B, Hkv, sequence, D] head-major layout across     *)
(* multiple appends": each lane of the cache is what was appended to it.   *)
CacheKeepsLayout ==
  \A lane \in 0 .. KvLanes - 1, t \in 0 .. capacity - 1 :
    cache[lane * capacity + t] = IF t < length THEN <<lane, t>> ELSE Unset

(* Whatever the strategy, the tiles, the splits and the workers: a result  *)
(* that is returned has in each row exactly the keys the row may see, each *)
(* once and in order, of the lane that the head shares; and a validated    *)
(* result has no row without a key.                                        *)
RowsMatchReference ==
  phase = "returned" => \A row \in Rows :
    LET frontier == IF config.causal THEN Frontier(QueryOf(row)) ELSE shape.sk - 1
        batch == row \div (config.heads * shape.sq)
        head == (row \div shape.sq) % config.heads
        lane == batch * config.kvHeads + head \div (config.heads \div config.kvHeads)
    IN /\ Len(output[row]) = Greatest(0, frontier + 1)
       /\ \A i \in DOMAIN output[row] : output[row][i] = <<lane, i - 1>>
       /\ shape.validate => output[row] # <<>>

(* Workers store without a lock: no two hold one part or one row.          *)
TargetsOf(task) == IF Splits THEN {task} ELSE RowsOfTask(task)
StoresAreExclusive ==
  \A v, w \in DOMAIN holds :
    v # w /\ holds[v] >= 0 /\ holds[w] >= 0 => TargetsOf(holds[v]) \cap TargetsOf(holds[w]) = {}

=============================================================================

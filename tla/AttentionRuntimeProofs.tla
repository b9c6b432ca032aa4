----------------------- MODULE AttentionRuntimeProofs -----------------------
(***************************************************************************)
(* The native attention runtime is right for every compiled shape, plan    *)
(* and capacity, every number of threads and every interleaving of them:   *)
(* the flat cache keeps its layout, workers store apart, and each row of a *)
(* result has the keys it may see.                                         *)
(***************************************************************************)
EXTENDS AttentionRuntime, RowPartitionProofs, FiniteSetTheorems, SequenceTheorems

Calling == phase # "idle"

(* Keys of a lane, from the one at first. *)
KeysFrom(lane, first, count) == [i \in 1 .. count |-> <<lane, first + i - 1>>]

(* How many of the keys before an end a row may see, and these keys. *)
KeyLimit(row) == IF config.causal THEN Frontier(QueryOf(row)) + 1 ELSE shape.sk
SeenBefore(row, end) == Greatest(0, Least(end, KeyLimit(row)))
Prefix(row, end) == KeysFrom(LaneOf(row), 0, SeenBefore(row, end))

CacheInv ==
  /\ config \in Configs /\ plan \in Plans
  /\ capacity \in Nat /\ config.sk <= capacity /\ length \in 0 .. capacity
  /\ DOMAIN cache = 0 .. KvLanes * capacity - 1
  /\ CacheKeepsLayout

(* A call has a shape within the guards and the keys of every lane. *)
ShapeInv ==
  /\ phase \in {"idle", "run", "returned", "refused"}
  /\ ~Calling => holds = <<>>
  /\ Calling =>
       /\ shape.sq \in 1 .. config.sq /\ shape.sk \in 1 .. config.sk
       /\ \A f \in {"splits", "queryTile", "kvTile"} : shape[f] \in Nat \ {0}
       /\ keys = [x \in 0 .. KvLanes * shape.sk - 1 |-> <<x \div shape.sk, x % shape.sk>>]

(* Each task that was claimed is held by one worker or its results stored. *)
Stored(task) ==
  IF Splits THEN partials[task] = PartOf(task)
  ELSE \A r \in RowsOfTask(task) : output[r] = Prefix(r, shape.sk)
Held(task) == \E w \in DOMAIN holds : holds[w] = task

ClaimInv ==
  /\ 1 \in DOMAIN holds
  /\ holds \in [DOMAIN holds -> {-2, -1} \cup 0 .. TaskCount - 1]
  /\ nextTask \in Nat
  /\ \A w \in DOMAIN holds : holds[w] < nextTask
  /\ \A v, w \in DOMAIN holds : v # w /\ holds[v] = holds[w] => holds[v] < 0
  /\ \A w \in DOMAIN holds : holds[w] = -2 => TaskCount <= nextTask
  /\ DOMAIN output = Rows
  /\ Splits => DOMAIN partials = 0 .. TaskCount - 1
StoredInv ==
  phase = "run" => \A t \in 0 .. TaskCount - 1 : t < nextTask => Held(t) \/ Stored(t)
WorkInv == Calling => ClaimInv /\ StoredInv

(* The rows whose parts are merged are done, the next one has those of its *)
(* keys that the merged parts cover.                                       *)
MergeInv ==
  phase = "run" /\ Splits =>
    /\ merged \in 0 .. TaskCount
    /\ 0 < merged => Joined
    /\ \A r \in Rows :
         /\ r < merged \div shape.splits => output[r] = Prefix(r, shape.sk)
         /\ r = merged \div shape.splits /\ merged % shape.splits # 0 =>
              output[r] = Prefix(r, SplitBegin(merged % shape.splits))

DoneInv ==
  phase \in {"returned", "refused"} =>
    /\ \A r \in Rows : output[r] = Prefix(r, shape.sk)
    /\ phase = "returned" /\ shape.validate /\ config.causal => shape.sq <= shape.sk

IInv == CacheInv /\ ShapeInv /\ WorkInv /\ MergeInv /\ DoneInv

-----------------------------------------------------------------------------
(* The sizes of a call, and its rows.                                      *)
LEMMA ConfigType ==
  ASSUME CacheInv
  PROVE  /\ config.batch \in Nat \ {0} /\ config.heads \in Nat \ {0} /\ config.kvHeads \in Nat \ {0}
         /\ config.sq \in Nat \ {0} /\ config.sk \in Nat \ {0} /\ config.causal \in BOOLEAN
         /\ KvLanes \in Nat \ {0} /\ QueryLanes \in Nat \ {0} /\ capacity \in Nat \ {0}
         /\ config.heads % config.kvHeads = 0
<1>1. \A f \in {"batch", "heads", "kvHeads", "sq", "sk"} : config[f] \in Nat \ {0}
  BY ConfigsAssumption DEF CacheInv
<1>2. /\ config.batch \in Nat \ {0} /\ config.heads \in Nat \ {0} /\ config.kvHeads \in Nat \ {0}
      /\ config.sq \in Nat \ {0} /\ config.sk \in Nat \ {0}
  BY <1>1
<1>3. config.causal \in BOOLEAN /\ config.heads % config.kvHeads = 0
  BY ConfigsAssumption DEF CacheInv
<1>4. KvLanes \in Nat \ {0} /\ QueryLanes \in Nat \ {0}
  BY <1>2 DEF KvLanes, QueryLanes
<1> QED
  BY <1>2, <1>3, <1>4 DEF CacheInv

LEMMA PlanType ==
  ASSUME CacheInv
  PROVE  /\ plan.strategy \in {"materialized", "io-aware", "split-kv"} /\ plan.splits \in Int
         /\ plan.queryTile \in Nat \ {0} /\ plan.kvTile \in Nat \ {0} /\ plan.threads \in Nat \ {0}
<1>1. \A f \in {"queryTile", "kvTile", "threads"} : plan[f] \in Nat \ {0}
  BY PlansAssumption DEF CacheInv
<1> QED
  BY <1>1, PlansAssumption DEF CacheInv

LEMMA ShapeType ==
  ASSUME CacheInv, ShapeInv, Calling
  PROVE  /\ shape.sq \in Nat \ {0} /\ shape.sk \in Nat \ {0} /\ shape.splits \in Nat \ {0}
         /\ shape.queryTile \in Nat \ {0} /\ shape.kvTile \in Nat \ {0}
         /\ QueryLanes * shape.sq \in Nat \ {0}
<1>1. \A f \in {"splits", "queryTile", "kvTile"} : shape[f] \in Nat \ {0}
  BY DEF ShapeInv
<1>2. /\ shape.splits \in Nat \ {0} /\ shape.queryTile \in Nat \ {0} /\ shape.kvTile \in Nat \ {0}
  BY <1>1
<1>3. shape.sq \in Nat \ {0} /\ shape.sk \in Nat \ {0}
  BY ConfigType, SMTT(30) DEF ShapeInv
<1> QED
  BY <1>2, <1>3, ConfigType

LEMMA RowParts ==
  ASSUME CacheInv, ShapeInv, Calling, NEW row \in Rows
  PROVE  /\ row \in Nat /\ row \div shape.sq \in 0 .. QueryLanes - 1
         /\ QueryOf(row) \in 0 .. shape.sq - 1
         /\ row = shape.sq * (row \div shape.sq) + QueryOf(row)
<1>1. QueryLanes \in Nat /\ shape.sq \in Nat \ {0} /\ QueryLanes * shape.sq \in Nat
  BY ShapeType, ConfigType
<1>2. row \in 0 .. QueryLanes * shape.sq - 1
  BY DEF Rows
<1>3. row \in Nat
  BY <1>1, <1>2
<1> QED
  BY <1>1, <1>2, <1>3, FlatParts DEF QueryOf

(* The head that shares a lane of keys: head * kvHeads / heads is the      *)
(* number of the group of heads.                                           *)
LEMMA GroupOfHead ==
  ASSUME CacheInv, NEW head \in 0 .. config.heads - 1
  PROVE  /\ (head * config.kvHeads) \div config.heads \in 0 .. config.kvHeads - 1
         /\ (head * config.kvHeads) \div config.heads = head \div (config.heads \div config.kvHeads)
<1>1. PICK kv \in Nat \ {0} : kv = config.kvHeads
  BY ConfigType
<1>2. PICK heads \in Nat \ {0} : heads = config.heads
  BY ConfigType
<1>3. heads \div kv \in Nat /\ heads = kv * (heads \div kv) + (heads % kv) /\ heads % kv = 0
  <2>1. heads \in Nat /\ heads \in Int
    OBVIOUS
  <2>2. heads \div kv \in Nat
    BY <2>1, DivNat
  <2>3. heads = kv * (heads \div kv) + (heads % kv)
    BY <2>1, DivMod
  <2>4. heads % kv = 0
    BY <1>1, <1>2, ConfigType
  <2> QED
    BY <2>2, <2>3, <2>4
<1>4. PICK g \in Nat \ {0} : g = heads \div kv /\ heads = kv * g
  <2>1. heads \div kv # 0
    BY <1>3
  <2>2. heads = kv * (heads \div kv)
    BY <1>3
  <2> QED
    BY <1>3, <2>1, <2>2
<1>5. PICK q : q = head \div g
  OBVIOUS
<1>6. head \in 0 .. kv * g - 1
  BY <1>2, <1>4
<1>7. q \in 0 .. kv - 1
  BY <1>5, <1>6, FlatParts
<1>8. g * q <= head /\ head < g * q + g
  <2>1. head \in Int
    BY <1>2
  <2> QED
    BY <1>5, <2>1, DivBounds
<1>9. heads * q <= head * kv /\ head * kv < heads * q + heads
  <2>1. PICK a \in Nat : a = g * q
    BY <1>7
  <2>2. head \in Nat /\ a <= head /\ head < a + g
    BY <1>2, <1>8, <2>1
  <2>3. kv * a <= kv * head /\ kv * head < kv * (a + g)
    BY <2>2
  <2>4. kv * (a + g) = kv * a + kv * g
    OBVIOUS
  <2>5. heads * q = kv * a
    BY <1>4, <1>7, <2>1
  <2>6. kv * head = head * kv
    BY <2>2
  <2> QED
    BY <1>4, <2>3, <2>4, <2>5, <2>6
<1>10. head * kv \in Int /\ q \in Int
  BY <1>2, <1>7
<1>11. (head * kv) \div heads = q
  BY <1>9, <1>10, DivUnique
<1> QED
  BY <1>1, <1>2, <1>4, <1>5, <1>7, <1>11

LEMMA DivTwice ==
  ASSUME NEW a \in Nat, NEW m \in Nat \ {0}, NEW n \in Nat \ {0}
  PROVE  a \div (n * m) = (a \div m) \div n
<1>1. PICK q \in Nat : q = a \div m
  BY DivNat
<1>2. PICK b \in Nat : b = q \div n
  BY DivNat
<1>3. m * q <= a /\ a < m * q + m
  <2>1. a \in Int
    OBVIOUS
  <2> QED
    BY <1>1, <2>1, DivBounds
<1>4. n * b <= q /\ q < n * b + n
  <2>1. q \in Int
    OBVIOUS
  <2> QED
    BY <1>2, <2>1, DivBounds
<1>5. PICK c \in Nat : c = n * b
  OBVIOUS
<1>6. c <= q /\ q + 1 <= c + n
  BY <1>4, <1>5
<1>7. m * c <= m * q /\ m * (q + 1) <= m * (c + n)
  BY <1>6
<1>8. m * (q + 1) = m * q + m /\ m * (c + n) = m * c + n * m /\ m * c = (n * m) * b
  BY <1>5
<1>9. (n * m) * b <= a /\ a < (n * m) * b + n * m
  <2>1. m * c \in Nat /\ m * q \in Nat /\ n * m \in Nat
    OBVIOUS
  <2> QED
    BY <1>3, <1>7, <1>8, <2>1
<1>10. n * m \in Nat \ {0} /\ a \in Int /\ b \in Int
  OBVIOUS
<1> QED
  BY <1>1, <1>2, <1>9, <1>10, DivUnique

LEMMA LaneIs ==
  ASSUME CacheInv, ShapeInv, Calling, NEW row \in Rows
  PROVE  /\ LaneOf(row) \in 0 .. KvLanes - 1
         /\ LaneOf(row) = (row \div (config.heads * shape.sq)) * config.kvHeads
              + ((row \div shape.sq) % config.heads) \div (config.heads \div config.kvHeads)
<1>1. PICK lane \in Nat : lane = row \div shape.sq /\ lane \in 0 .. QueryLanes - 1
  BY RowParts
<1>2. PICK b : b = lane \div config.heads
  OBVIOUS
<1>3. PICK head : head = lane % config.heads
  OBVIOUS
<1>4. b \in 0 .. config.batch - 1 /\ head \in 0 .. config.heads - 1
  BY <1>1, <1>2, <1>3, ConfigType, FlatParts DEF QueryLanes
<1>5. PICK group \in 0 .. config.kvHeads - 1 :
        /\ group = (head * config.kvHeads) \div config.heads
        /\ group = head \div (config.heads \div config.kvHeads)
  BY <1>4, GroupOfHead
<1>6. LaneOf(row) = b * config.kvHeads + group
  BY <1>1, <1>2, <1>3, <1>5 DEF LaneOf
<1>7. config.kvHeads * b + group \in 0 .. config.batch * config.kvHeads - 1
  BY <1>4, <1>5, ConfigType, FlatIs
<1>8. b * config.kvHeads = config.kvHeads * b
  BY <1>4, ConfigType
<1>9. row \div (config.heads * shape.sq) = b
  BY <1>1, <1>2, RowParts, ConfigType, ShapeType, DivTwice
<1> QED
  BY <1>1, <1>3, <1>5, <1>6, <1>7, <1>8, <1>9 DEF KvLanes

-----------------------------------------------------------------------------
(* The keys of a row over a part of the keys, however they are tiled.      *)
LEMMA IntervalSize ==
  ASSUME NEW a \in Int, NEW b \in Int, a <= b
  PROVE  IsFiniteSet(a .. b - 1) /\ Cardinality(a .. b - 1) = b - a
<1>1. b - 1 \in Int
  OBVIOUS
<1>2. IsFiniteSet(a .. b - 1) /\ Cardinality(a .. b - 1) = IF a > b - 1 THEN 0 ELSE b - 1 - a + 1
  BY <1>1, FS_Interval
<1> QED
  BY <1>2

LEMMA NthOfInterval ==
  ASSUME NEW a \in Int, NEW b \in Int, NEW i \in 1 .. b - a
  PROVE  Nth(a .. b - 1, i) = a + i - 1
<1> DEFINE P(k) == Cardinality({j \in a .. b - 1 : j < k}) = i - 1
<1>1. ASSUME NEW k \in a .. b - 1 PROVE Cardinality({j \in a .. b - 1 : j < k}) = k - a
  <2>1. {j \in a .. b - 1 : j < k} = a .. k - 1
    OBVIOUS
  <2>2. k \in Int /\ a <= k
    OBVIOUS
  <2> QED
    BY <2>1, <2>2, IntervalSize
<1>2. a + i - 1 \in a .. b - 1
  OBVIOUS
<1>3. P(a + i - 1)
  <2>1. (a + i - 1) - a = i - 1
    OBVIOUS
  <2> QED
    BY <1>1, <1>2, <2>1
<1>4. ASSUME NEW k \in a .. b - 1, P(k) PROVE k = a + i - 1
  <2>1. k - a = i - 1
    BY <1>1, <1>4
  <2> QED
    BY <2>1
<1> QED
  BY <1>2, <1>3, <1>4 DEF Nth

LEMMA FrontierType ==
  ASSUME CacheInv, ShapeInv, Calling, NEW row \in Rows
  PROVE  Frontier(QueryOf(row)) \in Int /\ KeyLimit(row) \in Int /\ KeyLimit(row) <= shape.sk
BY RowParts, ShapeType DEF Frontier, KeyLimit

LEMMA RowOverIs ==
  ASSUME CacheInv, ShapeInv, Calling, NEW row \in Rows,
         NEW first \in Nat, NEW last \in 0 .. shape.sk, first <= last,
         NEW tile \in Nat \ {0}, NEW limit \in Int,
         config.causal => Frontier(QueryOf(row)) <= limit
  PROVE  RowOver(row, first, last, tile, limit) =
           KeysFrom(LaneOf(row), first, Greatest(0, Least(last, KeyLimit(row)) - first))
<1>1. PICK m \in Int : m = Least(last, KeyLimit(row))
  BY FrontierType, ShapeType DEF Least
<1>2. PICK frontier \in Int : frontier = Frontier(QueryOf(row))
  BY FrontierType
<1> DEFINE TileOf(k) == k - ((k - first) % tile)
           seen == {k \in first .. last - 1 :
                      (config.causal => TileOf(k) <= limit) /\ Allowed(QueryOf(row), k)}
<1>3. ASSUME NEW k \in first .. last - 1 PROVE TileOf(k) <= k /\ TileOf(k) \in Int
  <2>1. (k - first) % tile \in 0 .. tile - 1
    <3>1. k - first \in Int
      OBVIOUS
    <3> QED
      BY <3>1, DivMod
  <2> QED
    BY <2>1
<1>4. seen = first .. m - 1
  <2>1. last \in Nat
    BY ShapeType
  <2>2. CASE config.causal
    <3>1. m = Least(last, frontier + 1) /\ frontier <= limit
      BY <1>1, <1>2, <2>2 DEF KeyLimit
    <3>2. \A k \in first .. last - 1 : Allowed(QueryOf(row), k) <=> k <= frontier
      BY <1>2, <2>2 DEF Allowed
    <3>3. ASSUME NEW k \in first .. last - 1
          PROVE  k \in seen <=> k <= frontier
      <4> HIDE DEF TileOf
      <4> QED
        BY <1>3, <2>2, <3>1, <3>2
    <3>4. \A k \in first .. last - 1 : k <= frontier <=> k \in first .. m - 1
      BY <2>1, <3>1 DEF Least
    <3>5. first .. m - 1 \subseteq first .. last - 1 /\ seen \subseteq first .. last - 1
      BY <2>1, <3>1 DEF Least
    <3> HIDE DEF seen
    <3> QED
      BY <3>3, <3>4, <3>5
  <2>3. CASE ~ config.causal
    <3>1. m = last
      BY <1>1, <2>1, <2>3, ShapeType DEF KeyLimit, Least
    <3>2. seen = first .. last - 1
      BY <2>3 DEF Allowed
    <3> QED
      BY <3>1, <3>2
  <2> QED
    BY <2>2, <2>3
<1>5. Cardinality(seen) = Greatest(0, m - first)
  <2>1. CASE first <= m
    <3>1. Cardinality(first .. m - 1) = m - first
      <4>1. first \in Int
        OBVIOUS
      <4> QED
        BY <2>1, <4>1, IntervalSize
    <3> HIDE DEF seen
    <3> QED
      BY <1>4, <2>1, <3>1 DEF Greatest
  <2>2. CASE ~ (first <= m)
    <3>1. first .. m - 1 = {}
      BY <2>2
    <3>2. Cardinality(first .. m - 1) = 0
      BY <3>1, FS_EmptySet
    <3> HIDE DEF seen
    <3> QED
      BY <1>4, <2>2, <3>2 DEF Greatest
  <2> QED
    BY <2>1, <2>2
<1>6. ASSUME NEW i \in 1 .. Greatest(0, m - first)
      PROVE  keys[LaneOf(row) * shape.sk + Nth(seen, i)] = <<LaneOf(row), first + i - 1>>
  <2>1. i \in 1 .. m - first
    BY DEF Greatest
  <2>2. Nth(seen, i) = first + i - 1
    <3>1. first \in Int
      OBVIOUS
    <3>2. Nth(first .. m - 1, i) = first + i - 1
      BY <2>1, <3>1, NthOfInterval
    <3> HIDE DEF seen
    <3> QED
      BY <1>4, <3>2
  <2>3. PICK k \in 0 .. shape.sk - 1 : k = first + i - 1
    <3>1. m <= last
      BY <1>1, FrontierType, ShapeType DEF Least
    <3> QED
      BY <2>1, <3>1, ShapeType
  <2>4. PICK lane \in 0 .. KvLanes - 1 : lane = LaneOf(row)
    BY LaneIs
  <2>5. /\ shape.sk * lane + k \in 0 .. KvLanes * shape.sk - 1
        /\ (shape.sk * lane + k) \div shape.sk = lane /\ (shape.sk * lane + k) % shape.sk = k
    <3>1. PICK m1 \in Nat \ {0} : m1 = shape.sk
      BY ShapeType
    <3>2. PICK n1 \in Nat : n1 = KvLanes
      BY ConfigType
    <3>3. lane \in 0 .. n1 - 1 /\ k \in 0 .. m1 - 1
      BY <3>1, <3>2
    <3>4. /\ m1 * lane + k \in 0 .. n1 * m1 - 1
          /\ (m1 * lane + k) \div m1 = lane /\ (m1 * lane + k) % m1 = k
      BY <3>3, FlatIs
    <3> QED
      BY <3>1, <3>2, <3>4
  <2>6. lane * shape.sk + k = shape.sk * lane + k
    BY <2>4, ShapeType, ConfigType
  <2>7. keys[lane * shape.sk + k] = <<lane, k>>
    BY <2>5, <2>6 DEF ShapeInv
  <2> QED
    BY <2>2, <2>3, <2>4, <2>7
<1>7. RowOver(row, first, last, tile, limit) =
        [i \in 1 .. Cardinality(seen) |-> keys[LaneOf(row) * shape.sk + Nth(seen, i)]]
  BY DEF RowOver
<1>8. RowOver(row, first, last, tile, limit) =
        [i \in 1 .. Greatest(0, m - first) |-> <<LaneOf(row), first + i - 1>>]
  <2> HIDE DEF seen
  <2> QED
    BY <1>5, <1>6, <1>7
<1> QED
  BY <1>1, <1>8 DEF KeysFrom

-----------------------------------------------------------------------------
(* The blocks of an io-aware call: every row lies in one of them.          *)
LEMMA BlocksType ==
  ASSUME CacheInv, ShapeInv, Calling
  PROVE  /\ QueryBlocks \in Nat \ {0} /\ QueryLanes * QueryBlocks \in Nat
         /\ shape.sq <= shape.queryTile * QueryBlocks
<1>1. PICK sq \in Nat \ {0}, tile \in Nat \ {0} : sq = shape.sq /\ tile = shape.queryTile
  BY ShapeType
<1>2. PICK a \in Nat : a = sq + tile - 1
  OBVIOUS
<1>3. PICK n \in Nat : n = a \div tile
  BY DivNat
<1>4. tile * n <= a /\ a < tile * n + tile
  <2>1. a \in Int
    OBVIOUS
  <2> QED
    BY <1>3, <2>1, DivBounds
<1>5. sq <= tile * n
  <2>1. tile * n \in Nat
    OBVIOUS
  <2> QED
    BY <1>2, <1>4, <2>1
<1>6. n # 0
  BY <1>5
<1>7. QueryBlocks = n
  BY <1>1, <1>2, <1>3 DEF QueryBlocks, CeilDiv
<1> QED
  BY <1>1, <1>5, <1>6, <1>7, ConfigType

BlockOf(row) == QueryBlocks * (row \div shape.sq) + (QueryOf(row) \div shape.queryTile)

LEMMA RowsOfBlock ==
  ASSUME CacheInv, ShapeInv, Calling, NEW t \in 0 .. QueryLanes * QueryBlocks - 1,
         NEW row \in RowsOfTask(t)
  PROVE  /\ row \in Rows /\ BlockOf(row) = t
         /\ QueryEnd(t) \in 1 .. shape.sq /\ QueryOf(row) <= QueryEnd(t) - 1
<1>1. PICK sq \in Nat \ {0}, tile \in Nat \ {0} : sq = shape.sq /\ tile = shape.queryTile
  BY ShapeType
<1>2. PICK blocks \in Nat \ {0} : blocks = QueryBlocks
  BY BlocksType
<1>3. PICK lanes \in Nat : lanes = QueryLanes
  BY ConfigType
<1>4. t \in 0 .. lanes * blocks - 1
  BY <1>2, <1>3
<1>5. PICK lane \in 0 .. lanes - 1, block \in 0 .. blocks - 1 :
        lane = t \div blocks /\ block = t % blocks /\ t = blocks * lane + block
  <2>1. /\ t \div blocks \in 0 .. lanes - 1 /\ t % blocks \in 0 .. blocks - 1
        /\ t = blocks * (t \div blocks) + (t % blocks)
    BY <1>4, FlatParts, Zenon
  <2> QED
    BY <2>1, Zenon
<1>6. PICK begin \in Nat : begin = block * tile
  OBVIOUS
<1>7. PICK end \in Int : end = Least(begin + tile, sq)
  BY DEF Least
<1>8. row \in lane * sq + begin .. lane * sq + end - 1
  BY <1>1, <1>2, <1>5, <1>6, <1>7 DEF RowsOfTask, QueryBegin, QueryEnd
<1>9. lane * sq \in Nat /\ lane * sq = sq * lane
  OBVIOUS
<1>10. PICK q \in Nat : row = sq * lane + q /\ begin <= q /\ q < end
  <2>1. row - lane * sq \in Nat
    BY <1>8, <1>9
  <2> QED
    BY <1>8, <1>9, <2>1
<1>11. q \in 0 .. sq - 1 /\ q < begin + tile /\ end <= sq
  BY <1>7, <1>10 DEF Least
<1>12. row \in 0 .. lanes * sq - 1 /\ row \div sq = lane /\ row % sq = q
  BY <1>10, <1>11, FlatIs, SMTT(30)
<1>13. q \div tile = block
  <2>1. tile * block = begin /\ q \in Int /\ block \in Int
    BY <1>6
  <2>2. tile * block <= q /\ q < tile * block + tile
    BY <1>10, <1>11, <2>1
  <2> QED
    BY <2>1, <2>2, DivUnique
<1>14. QueryEnd(t) = end
  BY <1>1, <1>2, <1>5, <1>6, <1>7 DEF QueryEnd, QueryBegin
<1>15. row \in Rows
  BY <1>1, <1>3, <1>12 DEF Rows
<1>16. row \div shape.sq = lane /\ QueryOf(row) = q
  BY <1>1, <1>10, <1>12 DEF QueryOf
<1>17. BlockOf(row) = t
  BY <1>1, <1>2, <1>5, <1>13, <1>16 DEF BlockOf
<1>18. end \in 1 .. sq /\ q <= end - 1
  BY <1>10, <1>11
<1> QED
  BY <1>1, <1>14, <1>15, <1>16, <1>17, <1>18

LEMMA RowInBlock ==
  ASSUME CacheInv, ShapeInv, Calling, NEW row \in Rows
  PROVE  BlockOf(row) \in 0 .. QueryLanes * QueryBlocks - 1 /\ row \in RowsOfTask(BlockOf(row))
<1>1. PICK sq \in Nat \ {0}, tile \in Nat \ {0} : sq = shape.sq /\ tile = shape.queryTile
  BY ShapeType
<1>2. PICK blocks \in Nat \ {0} : blocks = QueryBlocks /\ sq <= tile * blocks
  BY <1>1, BlocksType
<1>3. PICK lanes \in Nat : lanes = QueryLanes
  BY ConfigType
<1>4. PICK lane \in 0 .. lanes - 1, q \in 0 .. sq - 1 :
        lane = row \div sq /\ q = QueryOf(row) /\ row = sq * lane + q
  BY <1>1, <1>3, RowParts
<1>5. PICK block \in Nat : block = q \div tile
  BY DivNat
<1>6. tile * block <= q /\ q < tile * block + tile
  <2>1. q \in Int
    OBVIOUS
  <2> QED
    BY <1>5, <2>1, DivBounds
<1>7. block \in 0 .. blocks - 1
  <2>1. blocks <= block => tile * blocks <= tile * block
    OBVIOUS
  <2>2. tile * blocks \in Nat /\ tile * block \in Nat
    OBVIOUS
  <2> QED
    BY <1>2, <1>6, <2>1, <2>2
<1>8. PICK t : t = blocks * lane + block
  OBVIOUS
<1>9. t \in 0 .. lanes * blocks - 1 /\ t \div blocks = lane /\ t % blocks = block
  BY <1>7, <1>8, FlatIs
<1>10. BlockOf(row) = t
  BY <1>1, <1>2, <1>4, <1>5, <1>8 DEF BlockOf
<1>11. PICK begin \in Nat : begin = block * tile /\ begin = tile * block
  OBVIOUS
<1>12. RowsOfTask(t) = lane * sq + begin .. lane * sq + Least(begin + tile, sq) - 1
  BY <1>1, <1>2, <1>9, <1>11 DEF RowsOfTask, QueryBegin, QueryEnd
<1>13. row \in lane * sq + begin .. lane * sq + Least(begin + tile, sq) - 1
  <2>1. begin <= q /\ q < Least(begin + tile, sq)
    BY <1>6, <1>11 DEF Least
  <2>2. lane * sq = sq * lane /\ lane * sq \in Nat
    OBVIOUS
  <2>3. PICK a \in Nat : a = lane * sq
    BY <2>2
  <2>4. PICK end \in Int : end = Least(begin + tile, sq)
    BY DEF Least
  <2> QED
    BY <1>4, <2>1, <2>2, <2>3, <2>4
<1> QED
  BY <1>2, <1>3, <1>9, <1>10, <1>12, <1>13

-----------------------------------------------------------------------------
(* The parts of a split-KV call: they lie one after the other.             *)
LEMMA SplitsType ==
  ASSUME CacheInv, ShapeInv, Calling, NEW s \in 0 .. shape.splits - 1
  PROVE  /\ SplitBegin(s) \in Nat /\ SplitEnd(s) \in 0 .. shape.sk
         /\ SplitBegin(s) <= SplitEnd(s) /\ SplitEnd(s) = SplitBegin(s + 1)
         /\ SplitBegin(0) = 0 /\ SplitBegin(shape.splits) = shape.sk
<1>1. PICK sk \in Nat \ {0}, splits \in Nat \ {0} : sk = shape.sk /\ splits = shape.splits
  BY ShapeType
<1>2. s \in Nat /\ s + 1 <= splits /\ s \in Int
  BY <1>1
<1>3. PICK a \in Nat, b \in Nat, c \in Nat :
        /\ a = sk * s /\ b = sk * (s + 1) /\ c = sk * splits /\ a <= b /\ b <= c
        /\ c = splits * sk
  <2>1. sk * s \in Nat /\ sk * (s + 1) \in Nat /\ sk * splits \in Nat
    BY <1>2
  <2>2. sk * s <= sk * (s + 1) /\ sk * (s + 1) <= sk * splits
    BY <1>2
  <2>3. sk * splits = splits * sk
    OBVIOUS
  <2> QED
    BY <2>1, <2>2, <2>3
<1>4. a \div splits \in Nat /\ b \div splits \in Nat
  BY DivNat
<1>5. a \div splits <= b \div splits /\ b \div splits <= c \div splits
  <2>1. a \in Int /\ b \in Int /\ c \in Int
    OBVIOUS
  <2> QED
    BY <1>3, <2>1, DivMonotone
<1>6. c \div splits = sk
  <2>1. c \in Int /\ sk \in Int /\ splits * sk <= c /\ c < splits * sk + splits
    BY <1>3
  <2> QED
    BY <2>1, DivUnique
<1>7. 0 \div splits = 0
  <2>1. 0 \in Int /\ splits * 0 <= 0 /\ 0 < splits * 0 + splits
    OBVIOUS
  <2> QED
    BY <2>1, DivUnique
<1>8. sk * 0 = 0
  OBVIOUS
<1>9. /\ SplitBegin(s) = a \div splits /\ SplitEnd(s) = b \div splits
      /\ SplitBegin(s + 1) = b \div splits
      /\ SplitBegin(0) = 0 /\ SplitBegin(shape.splits) = c \div splits
  BY <1>1, <1>3, <1>7, <1>8 DEF SplitBegin, SplitEnd
<1> QED
  BY <1>1, <1>4, <1>5, <1>6, <1>9

LEMMA KeysFromType ==
  ASSUME NEW lane, NEW first \in Nat, NEW count \in Nat
  PROVE  /\ KeysFrom(lane, first, count) \in Seq({lane} \X Nat)
         /\ Len(KeysFrom(lane, first, count)) = count
         /\ DOMAIN KeysFrom(lane, first, count) = 1 .. count
         /\ \A i \in 1 .. count : KeysFrom(lane, first, count)[i] = <<lane, first + i - 1>>
<1>1. \A i \in 1 .. count : <<lane, first + i - 1>> \in {lane} \X Nat
  OBVIOUS
<1>2. KeysFrom(lane, first, count) \in [1 .. count -> {lane} \X Nat]
  BY <1>1 DEF KeysFrom
<1>3. KeysFrom(lane, first, count) \in Seq({lane} \X Nat)
  BY <1>2, SeqDef
<1>4. DOMAIN KeysFrom(lane, first, count) = 1 .. count
  BY DEF KeysFrom
<1>5. Len(KeysFrom(lane, first, count)) = count
  BY <1>3, <1>4
<1> QED
  BY <1>3, <1>4, <1>5 DEF KeysFrom

LEMMA JoinedKeys ==
  ASSUME NEW lane, NEW b \in Nat, NEW n \in Nat
  PROVE  KeysFrom(lane, 0, b) \o KeysFrom(lane, b, n) = KeysFrom(lane, 0, b + n)
<1> DEFINE S == {lane} \X Nat
           left == KeysFrom(lane, 0, b)
           right == KeysFrom(lane, b, n)
           both == KeysFrom(lane, 0, b + n)
<1>1. left \in Seq(S) /\ Len(left) = b /\ \A i \in 1 .. b : left[i] = <<lane, 0 + i - 1>>
  BY KeysFromType
<1>2. right \in Seq(S) /\ Len(right) = n /\ \A i \in 1 .. n : right[i] = <<lane, b + i - 1>>
  BY KeysFromType
<1>3. both \in Seq(S) /\ Len(both) = b + n /\ \A i \in 1 .. b + n : both[i] = <<lane, 0 + i - 1>>
  <2>1. b + n \in Nat
    OBVIOUS
  <2> QED
    BY <2>1, KeysFromType
<1> HIDE DEF S, left, right, both
<1>4. /\ left \o right \in Seq(S) /\ Len(left \o right) = b + n
      /\ \A i \in 1 .. b + n : (left \o right)[i] = IF i <= b THEN left[i] ELSE right[i - b]
  BY <1>1, <1>2, ConcatProperties
<1>5. ASSUME NEW i \in 1 .. b + n PROVE (left \o right)[i] = both[i]
  <2>1. CASE i <= b
    <3>1. i \in 1 .. b
      BY <2>1
    <3>2. left[i] = <<lane, 0 + i - 1>>
      BY <1>1, <3>1
    <3>3. (left \o right)[i] = left[i]
      BY <1>4, <2>1
    <3> QED
      BY <1>3, <3>2, <3>3
  <2>2. CASE ~ (i <= b)
    <3>1. PICK j \in 1 .. n : j = i - b /\ b + j - 1 = 0 + i - 1
      BY <2>2
    <3>2. right[j] = <<lane, b + j - 1>>
      BY <1>2
    <3>3. (left \o right)[i] = right[j]
      BY <1>4, <2>2, <3>1
    <3> QED
      BY <1>3, <3>1, <3>2, <3>3
  <2> QED
    BY <2>1, <2>2
<1>6. left \o right = both
  BY <1>3, <1>4, <1>5, SeqEqual
<1> QED
  BY <1>6 DEF left, right, both

(* Appending a part to what the parts before it have seen. *)
LEMMA PartExtends ==
  ASSUME CacheInv, ShapeInv, Calling, NEW row \in Rows, NEW s \in 0 .. shape.splits - 1,
         NEW t, t = shape.splits * row + s
  PROVE  /\ s = 0 => PartOf(t) = Prefix(row, SplitEnd(s))
         /\ Prefix(row, SplitBegin(s)) \o PartOf(t) = Prefix(row, SplitEnd(s))
<1>1. PICK splits \in Nat \ {0} : splits = shape.splits
  BY ShapeType
<1>2. PICK n \in Nat : n = QueryLanes * shape.sq
  BY ShapeType
<1>3. row \in 0 .. n - 1 /\ s \in 0 .. splits - 1
  BY <1>1, <1>2 DEF Rows
<1>4. t \div shape.splits = row /\ t % shape.splits = s
  <2>1. (splits * row + s) \div splits = row /\ (splits * row + s) % splits = s
    BY <1>3, FlatIs
  <2> QED
    BY <1>1, <2>1
<1>5. PICK b \in Nat, e \in 0 .. shape.sk : b = SplitBegin(s) /\ e = SplitEnd(s) /\ b <= e
  BY SplitsType
<1>6. PICK limit \in Int : limit = KeyLimit(row)
  BY FrontierType
<1>7. PICK lane : lane = LaneOf(row)
  OBVIOUS
<1>8. PartOf(t) = KeysFrom(lane, b, Greatest(0, Least(e, limit) - b))
  <2>1. PICK tile \in Nat \ {0} : tile = shape.kvTile
    BY ShapeType
  <2>2. PICK frontier \in Int : frontier = Frontier(QueryOf(row))
    BY FrontierType
  <2>3. PartOf(t) = RowOver(row, b, e, tile, frontier)
    BY <1>4, <1>5, <2>1, <2>2 DEF PartOf
  <2>4. frontier <= frontier
    OBVIOUS
  <2>5. RowOver(row, b, e, tile, frontier) =
          KeysFrom(LaneOf(row), b, Greatest(0, Least(e, KeyLimit(row)) - b))
    BY <1>5, <2>2, <2>4, RowOverIs
  <2> QED
    BY <1>6, <1>7, <2>3, <2>5
<1>9. e \in Nat
  BY <1>5, ShapeType
<1>10. PICK m \in Nat : m = Greatest(0, Least(e, limit) - b)
  BY <1>9 DEF Greatest, Least
<1>11. PICK x \in Nat, y \in Nat : x = Greatest(0, Least(b, limit)) /\ y = Greatest(0, Least(e, limit))
  BY <1>9 DEF Greatest, Least
<1>12. /\ Prefix(row, SplitBegin(s)) = KeysFrom(lane, 0, x)
       /\ Prefix(row, SplitEnd(s)) = KeysFrom(lane, 0, y)
  BY <1>5, <1>6, <1>7, <1>11 DEF Prefix, SeenBefore
<1>13. (m = 0 /\ x = y) \/ (x = b /\ y = b + m)
  BY <1>5, <1>9, <1>10, <1>11 DEF Greatest, Least
<1>14. Prefix(row, SplitBegin(s)) \o PartOf(t) = Prefix(row, SplitEnd(s))
  <2>1. CASE m = 0 /\ x = y
    <3>1. PartOf(t) = KeysFrom(lane, b, 0)
      BY <1>8, <1>10, <2>1
    <3>2. KeysFrom(lane, b, 0) = <<>>
      <4>1. KeysFrom(lane, b, 0) \in Seq({lane} \X Nat) /\ Len(KeysFrom(lane, b, 0)) = 0
        BY KeysFromType
      <4> QED
        BY <4>1, EmptySeq
    <3>3. KeysFrom(lane, 0, x) \in Seq({lane} \X Nat)
      BY KeysFromType
    <3>4. KeysFrom(lane, 0, x) \o <<>> = KeysFrom(lane, 0, x)
      BY <3>3, ConcatEmptySeq
    <3> QED
      BY <1>12, <2>1, <3>1, <3>2, <3>4
  <2>2. CASE x = b /\ y = b + m
    <3>1. KeysFrom(lane, 0, b) \o KeysFrom(lane, b, m) = KeysFrom(lane, 0, b + m)
      BY JoinedKeys
    <3> QED
      BY <1>8, <1>10, <1>12, <2>2, <3>1
  <2> QED
    BY <1>13, <2>1, <2>2
<1>15. s = 0 => PartOf(t) = Prefix(row, SplitEnd(s))
  <2>1. SUFFICES ASSUME s = 0 PROVE PartOf(t) = Prefix(row, SplitEnd(s))
    OBVIOUS
  <2>2. b = 0
    BY <1>5, <2>1, SplitsType
  <2>3. m = y
    BY <1>9, <1>10, <1>11, <2>2 DEF Greatest, Least
  <2> QED
    BY <1>8, <1>10, <1>12, <2>2, <2>3
<1> QED
  BY <1>14, <1>15

-----------------------------------------------------------------------------
(* append_kv: each lane goes on where it ended.                            *)
LEMMA AppendKeepsCache ==
  ASSUME CacheInv, NEW n \in 1 .. MaxAppend, AppendKV(n)
  PROVE  CacheInv'
<1>1. PICK c \in Nat \ {0}, lanes \in Nat \ {0} : c = capacity /\ lanes = KvLanes
  BY ConfigType
<1>2. PICK len \in 0 .. c : len = length
  BY <1>1 DEF CacheInv
<1>3. n \in Nat \ {0} /\ len + n <= c
  BY <1>1, <1>2, CapacitiesAssumption DEF AppendKV, HasRoom
<1>4. UNCHANGED <<config, plan, capacity>> /\ length' = len + n
  BY <1>2 DEF AppendKV
<1>5. KvLanes' = lanes /\ capacity' = c
  BY <1>1, <1>4 DEF KvLanes
<1>6. DOMAIN cache = 0 .. lanes * c - 1 /\ DOMAIN cache' = DOMAIN cache
  BY <1>1 DEF CacheInv, AppendKV
<1>7. ASSUME NEW lane \in 0 .. lanes - 1, NEW t \in 0 .. c - 1
      PROVE  cache'[lane * c + t] = IF t < len + n THEN <<lane, t>> ELSE Unset
  <2>1. PICK x : x = lane * c + t
    OBVIOUS
  <2>2. x = c * lane + t /\ x \in 0 .. lanes * c - 1 /\ x \div c = lane /\ x % c = t
    <3>1. lane * c = c * lane
      BY <1>1
    <3>2. /\ c * lane + t \in 0 .. lanes * c - 1
          /\ (c * lane + t) \div c = lane /\ (c * lane + t) % c = t
      BY FlatIs
    <3> QED
      BY <2>1, <3>1, <3>2
  <2>3. \A l \in 0 .. lanes - 1 : Target(l, n) = l * c + len /\ l * c \in Nat
    BY <1>1, <1>2 DEF Target
  <2>4. ASSUME NEW l \in 0 .. lanes - 1
        PROVE  x \in Target(l, n) .. Target(l, n) + n - 1 <=> l = lane /\ t \in len .. len + n - 1
    <3>1. Target(l, n) = l * c + len /\ l * c \in Nat
      BY <2>3
    <3>2. PICK a \in Nat : a = l * c /\ a = c * l
      BY <3>1
    <3>3. ASSUME x \in Target(l, n) .. Target(l, n) + n - 1
          PROVE  l = lane /\ t \in len .. len + n - 1
      <4>1. PICK s \in len .. len + n - 1 : x = c * l + s
        <5>1. x \in a + len .. a + len + n - 1
          BY <3>1, <3>2, <3>3
        <5>2. x - a \in len .. len + n - 1 /\ x = a + (x - a)
          BY <1>3, <5>1
        <5> QED
          BY <3>2, <5>2
      <4>2. s \in 0 .. c - 1
        BY <1>3
      <4>3. (c * l + s) \div c = l /\ (c * l + s) % c = s
        BY <4>2, FlatIs
      <4> QED
        BY <2>2, <4>1, <4>3
    <3>4. ASSUME l = lane, t \in len .. len + n - 1
          PROVE  x \in Target(l, n) .. Target(l, n) + n - 1
      <4>1. x = a + t
        BY <2>1, <3>2, <3>4
      <4>2. a + t \in a + len .. a + len + n - 1
        BY <1>3, <3>4
      <4> QED
        BY <3>1, <3>2, <4>1, <4>2
    <3> QED
      BY <3>3, <3>4
  <2> DEFINE found == {l \in 0 .. lanes - 1 : x \in Target(l, n) .. Target(l, n) + n - 1}
  <2>5. cache'[x] = IF found = {} THEN cache[x]
                    ELSE Appended(n)[(CHOOSE l \in found : TRUE) * n + x
                                       - Target(CHOOSE l \in found : TRUE, n)]
    BY <1>1, <1>6, <2>2 DEF AppendKV
  <2>6. CASE t \in len .. len + n - 1
    <3>1. found = {lane}
      BY <2>4, <2>6
    <3>2. (CHOOSE l \in found : TRUE) = lane
      BY <3>1
    <3>3. cache'[x] = Appended(n)[lane * n + x - Target(lane, n)]
      <4> HIDE DEF found
      <4> QED
        BY <2>5, <3>1, <3>2
    <3>4. PICK s \in 0 .. n - 1 : s = t - len
      BY <1>3, <2>6
    <3>5. lane * n + x - Target(lane, n) = n * lane + s
      <4>1. Target(lane, n) = lane * c + len /\ lane * c \in Nat
        BY <2>3
      <4>2. PICK a \in Nat, b \in Nat : a = lane * c /\ b = lane * n /\ b = n * lane
        BY <1>3, <4>1
      <4>3. b + (a + t) - (a + len) = b + s
        BY <3>4
      <4> QED
        BY <2>1, <4>1, <4>2, <4>3
    <3>6. /\ n * lane + s \in 0 .. lanes * n - 1
          /\ (n * lane + s) \div n = lane /\ (n * lane + s) % n = s
      BY <1>3, FlatIs
    <3>7. Appended(n)[n * lane + s] = <<lane, len + s>>
      BY <1>1, <1>2, <3>6 DEF Appended
    <3>8. len + s = t /\ t < len + n
      BY <1>3, <2>6, <3>4
    <3> QED
      BY <2>1, <3>3, <3>5, <3>7, <3>8
  <2>7. CASE t \notin len .. len + n - 1
    <3>1. found = {}
      BY <2>4, <2>7
    <3>2. cache'[x] = cache[x]
      <4> HIDE DEF found
      <4> QED
        BY <2>5, <3>1
    <3>3. cache[x] = IF t < len THEN <<lane, t>> ELSE Unset
      BY <1>1, <1>2, <2>1 DEF CacheInv, CacheKeepsLayout
    <3>4. t < len <=> t < len + n
      BY <1>3, <2>7
    <3> QED
      BY <2>1, <3>2, <3>3, <3>4
  <2> QED
    BY <2>6, <2>7
<1>8. CacheKeepsLayout'
  BY <1>4, <1>5, <1>7 DEF CacheKeepsLayout
<1>9. length' \in 0 .. capacity'
  BY <1>3, <1>4, <1>5
<1>10. config' \in Configs /\ plan' \in Plans /\ capacity' \in Nat /\ config'.sk <= capacity'
  BY <1>4 DEF CacheInv
<1> QED
  BY <1>1, <1>4, <1>5, <1>6, <1>8, <1>9, <1>10 DEF CacheInv

LEMMA CacheFrame ==
  ASSUME CacheInv, UNCHANGED <<config, plan, cacheVars>>
  PROVE  CacheInv'
<1>1. KvLanes' = KvLanes
  BY DEF KvLanes
<1>2. UNCHANGED <<config, plan, capacity, length, cache>>
  BY DEF cacheVars
<1>3. CacheKeepsLayout'
  BY <1>1, <1>2 DEF CacheInv, CacheKeepsLayout
<1> QED
  BY <1>1, <1>2, <1>3 DEF CacheInv

(* Between calls only the cache matters. *)
LEMMA IdleIs ==
  ASSUME CacheInv', phase' = "idle", holds' = <<>>
  PROVE  IInv'
BY DEF IInv, ShapeInv, WorkInv, MergeInv, DoneInv, Calling

-----------------------------------------------------------------------------
(* A call begins with nothing claimed.                                     *)
LEMMA BeginWorks ==
  ASSUME CacheInv, NEW newShape, NEW newKeys, Begin(newShape, newKeys),
         newShape.sq \in 1 .. config.sq, newShape.sk \in 1 .. config.sk,
         \A f \in {"splits", "queryTile", "kvTile"} : newShape[f] \in Nat \ {0},
         newKeys = [x \in 0 .. KvLanes * newShape.sk - 1 |-> <<x \div newShape.sk, x % newShape.sk>>]
  PROVE  IInv'
<1>1. UNCHANGED <<config, plan, cacheVars>>
  BY DEF Begin
<1>2. CacheInv'
  BY <1>1, CacheFrame
<1>3. shape' = newShape /\ keys' = newKeys /\ phase' = "run" /\ nextTask' = 0 /\ merged' = 0
  BY DEF Begin
<1>4. KvLanes' = KvLanes /\ QueryLanes' = QueryLanes
  BY <1>1 DEF KvLanes, QueryLanes
<1>5. ShapeInv' /\ Calling'
  BY <1>1, <1>3, <1>4 DEF ShapeInv, Calling
<1>6. PICK sq \in Nat \ {0}, tile \in Nat \ {0}, splits \in Nat \ {0}, lanes \in Nat \ {0} :
        sq = newShape.sq /\ tile = newShape.queryTile /\ splits = newShape.splits /\ lanes = QueryLanes
  <2>1. newShape.queryTile \in Nat \ {0} /\ newShape.splits \in Nat \ {0}
    OBVIOUS
  <2>2. config.sq \in Nat /\ QueryLanes \in Nat \ {0}
    BY ConfigType
  <2>3. newShape.sq \in Nat \ {0}
    BY <2>2
  <2> QED
    BY <2>1, <2>2, <2>3
<1>7. PICK rows \in Nat, blocks \in Nat :
        rows = QueryLanes * newShape.sq
        /\ blocks = QueryLanes * CeilDiv(newShape.sq, newShape.queryTile)
  <2>1. CeilDiv(sq, tile) \in Nat
    <3>1. sq + tile - 1 \in Nat
      OBVIOUS
    <3> QED
      BY <3>1, DivNat DEF CeilDiv
  <2> QED
    BY <1>6, <2>1
<1>8. PICK tasks \in Nat : tasks = IF Splits THEN rows * newShape.splits ELSE blocks
  BY <1>6
<1>9. PICK threads \in Nat \ {0} : threads = plan.threads
  BY PlanType
<1>10. PICK k \in Nat \ {0} : k = Clamp(plan.threads, 1, Greatest(1, tasks))
  BY <1>9 DEF Clamp, Greatest
<1>11. /\ holds' = [w \in 1 .. k |-> -1]
       /\ partials' = [t \in 0 .. (IF Splits THEN tasks ELSE 0) - 1 |-> Unset]
       /\ output' = [r \in 0 .. rows - 1 |-> Unset]
  BY <1>7, <1>8, <1>10 DEF Begin
<1>12. Splits' = Splits
  BY <1>1 DEF Splits
<1>13. Rows' = 0 .. rows - 1
  BY <1>3, <1>4, <1>7 DEF Rows
<1>14. Cardinality(Rows') = rows
  <2>1. 0 \in Int /\ rows \in Int /\ 0 <= rows /\ rows - 0 = rows
    OBVIOUS
  <2>2. Cardinality(0 .. rows - 1) = rows - 0
    BY <2>1, IntervalSize
  <2> QED
    BY <1>13, <2>1, <2>2
<1>15. TaskCount' = tasks
  <2>1. QueryBlocks' = CeilDiv(newShape.sq, newShape.queryTile)
    BY <1>3 DEF QueryBlocks
  <2>2. TaskCount' = IF Splits' THEN Cardinality(Rows') * shape'.splits ELSE QueryLanes' * QueryBlocks'
    BY DEF TaskCount
  <2> QED
    BY <1>3, <1>4, <1>7, <1>8, <1>12, <1>14, <2>1, <2>2
<1>16. ClaimInv'
  <2>1. DOMAIN holds' = 1 .. k /\ \A w \in DOMAIN holds' : holds'[w] = -1
    BY <1>11
  <2>2. 1 \in DOMAIN holds'
    BY <2>1
  <2>3. holds' \in [DOMAIN holds' -> {-2, -1} \cup 0 .. TaskCount' - 1]
    BY <1>11
  <2>4. DOMAIN output' = Rows'
    BY <1>11, <1>13
  <2>5. Splits' => DOMAIN partials' = 0 .. TaskCount' - 1
    BY <1>11, <1>12, <1>15
  <2>6. nextTask' \in Nat /\ \A w \in DOMAIN holds' : holds'[w] < nextTask' /\ holds'[w] < 0
    BY <1>3, <2>1
  <2>7. \A w \in DOMAIN holds' : holds'[w] # -2
    BY <2>1
  <2> QED
    BY <2>2, <2>3, <2>4, <2>5, <2>6, <2>7 DEF ClaimInv
<1>17. StoredInv'
  BY <1>3, <1>15 DEF StoredInv
<1>18. MergeInv'
  <2>1. 0 \div splits = 0 /\ 0 % splits = 0
    BY DivMod, DivUnique
  <2>2. merged' \div shape'.splits = 0 /\ merged' % shape'.splits = 0
    BY <1>3, <1>6, <2>1
  <2>3. \A r \in Rows' : ~ (r < 0)
    BY <1>13
  <2>4. merged' \in 0 .. TaskCount' /\ ~ (0 < merged')
    BY <1>3, <1>15
  <2> QED
    BY <2>2, <2>3, <2>4 DEF MergeInv
<1>19. DoneInv'
  BY <1>3 DEF DoneInv
<1> QED
  BY <1>2, <1>5, <1>16, <1>17, <1>18, <1>19 DEF IInv, WorkInv

LEMMA PrefillWorks ==
  ASSUME CacheInv, NEW sq \in 1 .. config.sq, NEW sk \in 1 .. config.sk, Prefill(sq, sk)
  PROVE  IInv'
<1> DEFINE new == Specialized(sq, sk, Greatest(1, plan.splits), TRUE)
           data == [x \in 0 .. KvLanes * sk - 1 |-> <<x \div sk, x % sk>>]
<1>1. Begin(new, data)
  BY DEF Prefill
<1>2. new.sq = sq /\ new.sk = sk
  BY DEF Specialized
<1>3. /\ new.splits \in Nat \ {0} /\ new.queryTile \in Nat \ {0} /\ new.kvTile \in Nat \ {0}
  BY PlanType, ConfigType DEF Specialized, Greatest, Least
<1>4. \A f \in {"splits", "queryTile", "kvTile"} : new[f] \in Nat \ {0}
  BY <1>3
<1>5. data = [x \in 0 .. KvLanes * new.sk - 1 |-> <<x \div new.sk, x % new.sk>>]
  BY <1>2
<1>6. new.sq \in 1 .. config.sq /\ new.sk \in 1 .. config.sk
  BY <1>2
<1> HIDE DEF new, data
<1> QED
  BY <1>1, <1>4, <1>5, <1>6, BeginWorks

LEMMA DecodeWorks ==
  ASSUME CacheInv, NEW validate \in BOOLEAN, Decode(validate)
  PROVE  IInv'
<1> DEFINE new == [Specialized(config.sq, length, DecodeSplits, validate)
                     EXCEPT !.queryTile = Least(plan.queryTile, config.sq), !.cached = TRUE]
           data == [x \in 0 .. KvLanes * length - 1 |->
                      cache[(x \div length) * capacity + (x % length)]]
<1>1. Begin(new, data) /\ length \in 1 .. config.sk
  BY DEF Decode
<1>2. PICK len \in Nat \ {0}, lanes \in Nat \ {0} : len = length /\ lanes = KvLanes
  BY <1>1, ConfigType
<1>3. DecodeSplits \in Nat \ {0}
  <2>1. PICK n \in Nat : n = length \div 128
    BY <1>2, DivNat
  <2> QED
    BY <2>1, PlanType DEF DecodeSplits, Clamp, Greatest
<1>4. new.sq = config.sq /\ new.sk = length /\ new.splits = DecodeSplits
      /\ new.queryTile = Least(plan.queryTile, config.sq)
      /\ new.kvTile = Least(Least(plan.kvTile, config.sk), length)
  BY DEF Specialized
<1>5. new.queryTile \in Nat \ {0} /\ new.kvTile \in Nat \ {0}
  <2> HIDE DEF new
  <2> QED
    BY <1>2, <1>4, PlanType, ConfigType DEF Least
<1>6. \A f \in {"splits", "queryTile", "kvTile"} : new[f] \in Nat \ {0}
  <2> HIDE DEF new
  <2> QED
    BY <1>3, <1>4, <1>5
<1>7. ASSUME NEW x \in 0 .. lanes * len - 1
      PROVE  cache[(x \div len) * capacity + (x % len)] = <<x \div len, x % len>>
  <2>1. PICK lane \in 0 .. lanes - 1, t \in 0 .. len - 1 : lane = x \div len /\ t = x % len
    BY FlatParts
  <2>2. t \in 0 .. capacity - 1 /\ t < length
    BY <1>1, <1>2, ConfigType, SMTT(30) DEF CacheInv
  <2>3. cache[lane * capacity + t] = <<lane, t>>
    BY <1>2, <2>2 DEF CacheInv, CacheKeepsLayout
  <2> QED
    BY <2>1, <2>3
<1>8. data = [x \in 0 .. lanes * len - 1 |-> <<x \div len, x % len>>]
  BY <1>2, <1>7
<1>9. data = [x \in 0 .. KvLanes * new.sk - 1 |-> <<x \div new.sk, x % new.sk>>]
  <2>1. new.sk = len
    BY <1>2, <1>4
  <2> HIDE DEF new, data
  <2> QED
    BY <1>2, <1>8, <2>1
<1>10. new.sq \in 1 .. config.sq /\ new.sk \in 1 .. config.sk
  <2>1. config.sq \in 1 .. config.sq
    BY ConfigType
  <2> HIDE DEF new
  <2> QED
    BY <1>1, <1>4, <2>1
<1> HIDE DEF new, data
<1> QED
  BY <1>1, <1>6, <1>9, <1>10, BeginWorks

LEMMA InitWorks ==
  ASSUME Init
  PROVE  IInv
<1>1. config \in Configs /\ plan \in Plans
  BY DEF Init
<1>2. \A f \in {"batch", "heads", "kvHeads", "sq", "sk"} : config[f] \in Nat \ {0}
  BY <1>1, ConfigsAssumption
<1>3. capacity \in Nat /\ config.sk <= capacity /\ capacity # 0
  <2>1. PICK asked \in Nat : capacity = Greatest(config.sk, asked)
    BY CapacitiesAssumption DEF Init
  <2>2. config.sk \in Nat \ {0}
    BY <1>2
  <2> QED
    BY <2>1, <2>2 DEF Greatest
<1>4. PICK lanes \in Nat : lanes = KvLanes
  BY <1>2 DEF KvLanes
<1>5. length = 0 /\ cache = [x \in 0 .. lanes * capacity - 1 |-> Unset]
  BY <1>4 DEF Init
<1>6. ASSUME NEW lane \in 0 .. lanes - 1, NEW t \in 0 .. capacity - 1
      PROVE  cache[lane * capacity + t] = Unset
  <2>1. capacity * lane + t \in 0 .. lanes * capacity - 1
    BY <1>3, FlatIs
  <2>2. capacity * lane = lane * capacity
    BY <1>3
  <2> QED
    BY <1>5, <2>1, <2>2
<1>7. CacheInv
  BY <1>1, <1>3, <1>4, <1>5, <1>6 DEF CacheInv, CacheKeepsLayout
<1>8. phase = "idle" /\ holds = <<>>
  BY DEF Init
<1> QED
  BY <1>7, <1>8 DEF IInv, ShapeInv, WorkInv, MergeInv, DoneInv, Calling

-----------------------------------------------------------------------------
(* Within a call the shape, the keys and so the parts and blocks stay.     *)
LEMMA CallFrame ==
  ASSUME UNCHANGED <<config, plan, cacheVars, shape, keys>>
  PROVE  /\ Rows' = Rows /\ Splits' = Splits /\ TaskCount' = TaskCount
         /\ \A t : RowsOfTask(t)' = RowsOfTask(t)
         /\ \A t : PartOf(t)' = PartOf(t)
         /\ \A r, end : Prefix(r, end)' = Prefix(r, end)
         /\ \A s : SplitBegin(s)' = SplitBegin(s)
<1>1. UNCHANGED config /\ UNCHANGED plan /\ UNCHANGED shape /\ UNCHANGED keys
  OBVIOUS
<1>2. Rows' = Rows /\ Splits' = Splits
  BY <1>1 DEF Rows, Splits, QueryLanes
<1>3. TaskCount' = TaskCount
  BY <1>1, <1>2 DEF TaskCount, QueryLanes, QueryBlocks
<1>4. \A t : RowsOfTask(t)' = RowsOfTask(t)
  BY <1>1 DEF RowsOfTask, QueryBegin, QueryEnd, QueryBlocks
<1>5. \A r : QueryOf(r)' = QueryOf(r) /\ LaneOf(r)' = LaneOf(r)
  BY <1>1 DEF QueryOf, LaneOf
<1>6. \A q : Frontier(q)' = Frontier(q)
  BY <1>1 DEF Frontier
<1>7. \A s : SplitBegin(s)' = SplitBegin(s) /\ SplitEnd(s)' = SplitEnd(s)
  BY <1>1 DEF SplitBegin, SplitEnd
<1>8. \A r, end : Prefix(r, end)' = Prefix(r, end)
  <2> TAKE r, end
  <2>1. QueryOf(r)' = QueryOf(r) /\ LaneOf(r)' = LaneOf(r)
    BY <1>5
  <2>2. KeyLimit(r)' = KeyLimit(r)
    BY <1>1, <2>1 DEF KeyLimit, Frontier
  <2>3. SeenBefore(r, end)' = SeenBefore(r, end)
    BY <2>2 DEF SeenBefore
  <2> QED
    BY <2>1, <2>3 DEF Prefix
<1>9. \A t : PartOf(t)' = PartOf(t)
  <2> TAKE t
  <2> QED
    BY <1>1 DEF PartOf, RowOver, QueryOf, LaneOf, Frontier, Allowed, SplitBegin, SplitEnd
<1> QED
  BY <1>2, <1>3, <1>4, <1>7, <1>8, <1>9

LEMMA ShapeFrame ==
  ASSUME ShapeInv, phase = "run", phase' \in {"run", "returned", "refused"},
         UNCHANGED <<config, plan, cacheVars, shape, keys>>
  PROVE  ShapeInv'
<1>1. KvLanes' = KvLanes
  BY DEF KvLanes
<1> QED
  BY <1>1 DEF ShapeInv, Calling

(* How many tasks there are: one for each part of each row, or each block. *)
LEMMA TasksType ==
  ASSUME CacheInv, ShapeInv, Calling
  PROVE  /\ TaskCount \in Nat
         /\ Splits => TaskCount = (QueryLanes * shape.sq) * shape.splits
         /\ ~ Splits => TaskCount = QueryLanes * QueryBlocks
<1>1. PICK rows \in Nat : rows = QueryLanes * shape.sq
  BY ShapeType
<1>2. Cardinality(Rows) = rows
  <2>1. 0 \in Int /\ rows \in Int /\ 0 <= rows /\ rows - 0 = rows
    OBVIOUS
  <2>2. Cardinality(0 .. rows - 1) = rows - 0
    BY <2>1, IntervalSize
  <2> QED
    BY <1>1, <2>1, <2>2 DEF Rows
<1>3. rows * shape.splits \in Nat
  BY <1>1, ShapeType
<1> QED
  BY <1>1, <1>2, <1>3, BlocksType DEF TaskCount

(* When every worker has left, every task is stored. *)
LEMMA JoinedStored ==
  ASSUME ClaimInv, StoredInv, Joined, phase = "run", NEW t \in 0 .. TaskCount - 1, TaskCount \in Nat
  PROVE  Stored(t)
<1>1. holds[1] = -2
  BY DEF Joined, ClaimInv
<1>2. TaskCount <= nextTask
  BY <1>1 DEF ClaimInv
<1>3. t < nextTask
  BY <1>2 DEF ClaimInv
<1>4. ~ Held(t)
  BY DEF Held, Joined
<1> QED
  BY <1>3, <1>4 DEF StoredInv

(* What was merged stays when the workers do. *)
LEMMA MergeFrame ==
  ASSUME MergeInv, Joined => Joined',
         UNCHANGED <<config, plan, cacheVars, shape, keys>>, UNCHANGED <<phase, merged, output>>
  PROVE  MergeInv'
<1>1. SUFFICES ASSUME phase = "run", Splits PROVE MergeInv'
  BY CallFrame DEF MergeInv
<1>2. shape' = shape /\ output' = output /\ merged' = merged
  OBVIOUS
<1>3. Rows' = Rows /\ TaskCount' = TaskCount
      /\ (\A r, end : Prefix(r, end)' = Prefix(r, end)) /\ (\A s : SplitBegin(s)' = SplitBegin(s))
  BY CallFrame
<1>4. /\ merged \in 0 .. TaskCount
      /\ 0 < merged => Joined
      /\ \A r \in Rows :
           /\ r < merged \div shape.splits => output[r] = Prefix(r, shape.sk)
           /\ r = merged \div shape.splits /\ merged % shape.splits # 0 =>
                output[r] = Prefix(r, SplitBegin(merged % shape.splits))
  BY <1>1 DEF MergeInv
<1> QED
  BY <1>2, <1>3, <1>4 DEF MergeInv

(* A worker that has stored its results has no task. *)
LEMMA ReleaseWorks ==
  ASSUME ClaimInv, NEW w \in DOMAIN holds, holds[w] >= 0,
         holds' = [holds EXCEPT ![w] = -1], UNCHANGED nextTask,
         UNCHANGED <<config, plan, cacheVars, shape, keys>>,
         DOMAIN output' = DOMAIN output, DOMAIN partials' = DOMAIN partials
  PROVE  /\ ClaimInv'
         /\ \A t \in Nat : Held(t) /\ t # holds[w] => Held(t)'
<1>1. Splits' = Splits /\ Rows' = Rows /\ TaskCount' = TaskCount
  BY CallFrame
<1>2. /\ DOMAIN holds' = DOMAIN holds /\ holds'[w] = -1
      /\ \A v \in DOMAIN holds : v # w => holds'[v] = holds[v]
  OBVIOUS
<1>3. holds' \in [DOMAIN holds' -> {-2, -1} \cup 0 .. TaskCount' - 1]
  BY <1>1 DEF ClaimInv
<1>4. 1 \in DOMAIN holds' /\ nextTask' \in Nat
  BY <1>2 DEF ClaimInv
<1>5. \A v \in DOMAIN holds' : holds'[v] < nextTask'
  <2> TAKE v \in DOMAIN holds'
  <2>1. CASE v = w
    BY <1>2, <1>4, <2>1
  <2>2. CASE v # w
    BY <1>2, <2>2 DEF ClaimInv
  <2> QED
    BY <2>1, <2>2
<1>6. \A u, v \in DOMAIN holds' : u # v /\ holds'[u] = holds'[v] => holds'[u] < 0
  <2> SUFFICES ASSUME NEW u \in DOMAIN holds', NEW v \in DOMAIN holds', u # v, holds'[u] = holds'[v]
               PROVE  holds'[u] < 0
    OBVIOUS
  <2>1. CASE u = w \/ v = w
    <3>1. holds'[u] = -1
      BY <1>2, <2>1
    <3> QED
      BY <3>1
  <2>2. CASE u # w /\ v # w
    BY <1>2, <2>2 DEF ClaimInv
  <2> QED
    BY <2>1, <2>2
<1>7. \A v \in DOMAIN holds' : holds'[v] = -2 => TaskCount' <= nextTask'
  <2> SUFFICES ASSUME NEW v \in DOMAIN holds', holds'[v] = -2 PROVE TaskCount' <= nextTask'
    OBVIOUS
  <2>1. v # w
    <3>1. -1 # -2
      OBVIOUS
    <3> QED
      BY <1>2, <3>1
  <2> QED
    BY <1>1, <1>2, <2>1 DEF ClaimInv
<1>8. DOMAIN output' = Rows' /\ (Splits' => DOMAIN partials' = 0 .. TaskCount' - 1)
  BY <1>1 DEF ClaimInv
<1>9. \A t \in Nat : Held(t) /\ t # holds[w] => Held(t)'
  <2> SUFFICES ASSUME NEW t \in Nat, Held(t), t # holds[w] PROVE Held(t)'
    OBVIOUS
  <2>1. PICK v \in DOMAIN holds : holds[v] = t
    BY DEF Held
  <2> QED
    BY <1>2, <2>1 DEF Held
<1> QED
  BY <1>3, <1>4, <1>5, <1>6, <1>7, <1>8, <1>9 DEF ClaimInv

-----------------------------------------------------------------------------
(* The workers.                                                            *)
LEMMA ClaimWorks ==
  ASSUME IInv, NEW w \in DOMAIN holds, Claim(w)
  PROVE  IInv'
<1>1. UNCHANGED <<config, plan, cacheVars, shape, keys>> /\ UNCHANGED <<phase, partials, merged, output>>
      /\ phase = "run" /\ holds[w] = -1
  BY DEF Claim
<1>2. CacheInv /\ ShapeInv /\ Calling /\ ClaimInv /\ StoredInv /\ MergeInv
  BY <1>1 DEF IInv, WorkInv, Calling
<1>3. CacheInv' /\ ShapeInv'
  BY <1>1, <1>2, CacheFrame, ShapeFrame
<1>4. PICK tasks \in Nat : tasks = TaskCount /\ TaskCount' = tasks
  BY <1>1, <1>2, TasksType, CallFrame
<1>5. PICK next \in Nat : next = nextTask /\ nextTask' = next + 1
  BY <1>2 DEF ClaimInv, Claim
<1>6. PICK mine : mine = IF next < tasks THEN next ELSE -2
  OBVIOUS
<1>7. holds' = [holds EXCEPT ![w] = mine]
  BY <1>4, <1>5, <1>6 DEF Claim
<1>8. /\ holds \in [DOMAIN holds -> {-2, -1} \cup 0 .. tasks - 1]
      /\ \A v \in DOMAIN holds : holds[v] < next
  BY <1>2, <1>4, <1>5 DEF ClaimInv
<1>9. mine \in {-2, -1} \cup 0 .. tasks - 1 /\ mine < next + 1
  BY <1>6
<1>10. /\ DOMAIN holds' = DOMAIN holds /\ holds'[w] = mine
       /\ \A v \in DOMAIN holds : v # w => holds'[v] = holds[v]
  BY <1>7
<1>11. ClaimInv'
  <2>1. 1 \in DOMAIN holds'
    BY <1>2, <1>10 DEF ClaimInv
  <2>2. holds' \in [DOMAIN holds' -> {-2, -1} \cup 0 .. TaskCount' - 1]
    BY <1>4, <1>7, <1>8, <1>9
  <2>3. \A v \in DOMAIN holds' : holds'[v] < nextTask'
    <3> TAKE v \in DOMAIN holds'
    <3>1. CASE v = w
      BY <1>5, <1>9, <1>10, <3>1
    <3>2. CASE v # w
      <4>1. holds'[v] = holds[v] /\ holds[v] < next /\ holds[v] \in Int
        BY <1>8, <1>10, <3>2
      <4> QED
        BY <1>5, <4>1
    <3> QED
      BY <3>1, <3>2
  <2>4. ASSUME NEW u \in DOMAIN holds', NEW v \in DOMAIN holds', u # v, holds'[u] = holds'[v]
        PROVE  holds'[u] < 0
    <3>1. CASE u = w \/ v = w
      <4>1. PICK o \in DOMAIN holds : o # w /\ holds'[o] = holds[o] /\ holds'[u] = mine /\ holds[o] = mine
        BY <1>10, <2>4, <3>1
      <4>2. mine < next
        BY <1>8, <4>1
      <4>3. mine = -2
        BY <1>6, <4>2
      <4> QED
        BY <4>1, <4>3
    <3>2. CASE u # w /\ v # w
      BY <1>2, <1>10, <2>4, <3>2 DEF ClaimInv
    <3> QED
      BY <3>1, <3>2
  <2>5. ASSUME NEW v \in DOMAIN holds', holds'[v] = -2 PROVE TaskCount' <= nextTask'
    <3>1. CASE v = w
      BY <1>4, <1>5, <1>6, <1>10, <2>5, <3>1
    <3>2. CASE v # w
      <4>1. tasks <= next
        BY <1>2, <1>4, <1>5, <1>10, <2>5, <3>2 DEF ClaimInv
      <4> QED
        BY <1>4, <1>5, <4>1
    <3> QED
      BY <3>1, <3>2
  <2>6. DOMAIN output' = Rows' /\ (Splits' => DOMAIN partials' = 0 .. TaskCount' - 1)
    BY <1>1, <1>2, CallFrame DEF ClaimInv
  <2>7. nextTask' \in Nat
    BY <1>5
  <2> QED
    BY <2>1, <2>2, <2>3, <2>4, <2>5, <2>6, <2>7 DEF ClaimInv
<1>12. StoredInv'
  <2>1. ASSUME NEW t \in 0 .. tasks - 1, t < next + 1 PROVE Held(t)' \/ Stored(t)'
    <3>1. CASE t = next
      <4>1. holds'[w] = t
        BY <1>6, <1>10, <3>1
      <4> QED
        BY <1>10, <4>1 DEF Held
    <3>2. CASE t # next
      <4>1. Held(t) \/ Stored(t)
        BY <1>1, <1>2, <1>4, <1>5, <2>1, <3>2 DEF StoredInv
      <4>2. ASSUME Held(t) PROVE Held(t)'
        <5>1. PICK v \in DOMAIN holds : holds[v] = t
          BY <4>2 DEF Held
        <5>2. v # w
          BY <1>1, <5>1
        <5> QED
          BY <1>10, <5>1, <5>2 DEF Held
      <4>3. ASSUME Stored(t) PROVE Stored(t)'
        <5>1. shape' = shape /\ output' = output /\ partials' = partials
          BY <1>1
        <5> QED
          BY <1>1, <4>3, <5>1, CallFrame DEF Stored
      <4> QED
        BY <4>1, <4>2, <4>3
    <3> QED
      BY <3>1, <3>2
  <2> QED
    BY <1>4, <1>5, <2>1 DEF StoredInv
<1>13. MergeInv'
  <2>1. ~ Joined
    BY <1>1 DEF Joined
  <2> QED
    BY <1>1, <1>2, <2>1, MergeFrame
<1>14. DoneInv'
  BY <1>1 DEF DoneInv
<1> QED
  BY <1>3, <1>11, <1>12, <1>13, <1>14 DEF IInv, WorkInv

LEMMA StorePartialWorks ==
  ASSUME IInv, NEW w \in DOMAIN holds, StorePartial(w)
  PROVE  IInv'
<1>1. UNCHANGED <<config, plan, cacheVars, shape, keys>> /\ UNCHANGED <<phase, merged, output>>
      /\ UNCHANGED nextTask /\ phase = "run" /\ holds[w] >= 0 /\ Splits
      /\ holds' = [holds EXCEPT ![w] = -1]
  BY DEF StorePartial
<1>2. CacheInv /\ ShapeInv /\ Calling /\ ClaimInv /\ StoredInv /\ MergeInv
  BY <1>1 DEF IInv, WorkInv, Calling
<1>3. CacheInv' /\ ShapeInv'
  BY <1>1, <1>2, CacheFrame, ShapeFrame
<1>4. PICK tasks \in Nat : tasks = TaskCount /\ TaskCount' = tasks
  BY <1>1, <1>2, TasksType, CallFrame
<1>5. PICK task \in 0 .. tasks - 1 : task = holds[w]
  <2>1. holds[w] \in {-2, -1} \cup 0 .. tasks - 1
    BY <1>2, <1>4 DEF ClaimInv
  <2>2. ~ (-2 >= 0) /\ ~ (-1 >= 0)
    OBVIOUS
  <2> QED
    BY <1>1, <2>1, <2>2
<1>6. partials' = [partials EXCEPT ![task] = PartOf(task)]
  BY <1>5 DEF StorePartial
<1>7. DOMAIN partials = 0 .. tasks - 1
  BY <1>1, <1>2, <1>4 DEF ClaimInv
<1>8. ClaimInv' /\ \A t \in Nat : Held(t) /\ t # task => Held(t)'
  <2>1. DOMAIN output' = DOMAIN output /\ DOMAIN partials' = DOMAIN partials
    BY <1>1, <1>6
  <2> QED
    BY <1>1, <1>2, <1>5, <2>1, ReleaseWorks
<1>9. StoredInv'
  <2>1. ASSUME NEW t \in 0 .. tasks - 1, t < nextTask PROVE Held(t)' \/ Stored(t)'
    <3>1. Splits' = Splits /\ PartOf(t)' = PartOf(t)
      BY <1>1, CallFrame
    <3>2. CASE t = task
      <4>1. partials'[t] = PartOf(t)
        BY <1>6, <1>7, <3>2
      <4> QED
        BY <1>1, <3>1, <4>1 DEF Stored
    <3>3. CASE t # task
      <4>1. Held(t) \/ Stored(t)
        BY <1>1, <1>2, <1>4, <2>1 DEF StoredInv
      <4>2. partials'[t] = partials[t]
        BY <1>6, <3>3
      <4>3. Stored(t) => Stored(t)'
        BY <1>1, <3>1, <4>2 DEF Stored
      <4> QED
        BY <1>8, <3>3, <4>1, <4>3
    <3> QED
      BY <3>2, <3>3
  <2> QED
    BY <1>1, <1>4, <2>1 DEF StoredInv
<1>10. MergeInv'
  <2>1. ~ Joined
    <3>1. ~ (-2 >= 0)
      OBVIOUS
    <3> QED
      BY <1>1, <3>1 DEF Joined
  <2> QED
    BY <1>1, <1>2, <2>1, MergeFrame
<1>11. DoneInv'
  BY <1>1 DEF DoneInv
<1> QED
  BY <1>3, <1>8, <1>9, <1>10, <1>11 DEF IInv, WorkInv

(* The tiles of a block end with what its last query may see, which is no  *)
(* less than what each of its rows may.                                    *)
LEMMA BlockSeesAll ==
  ASSUME CacheInv, ShapeInv, Calling, NEW t \in 0 .. QueryLanes * QueryBlocks - 1,
         NEW r \in RowsOfTask(t)
  PROVE  /\ r \in Rows
         /\ RowOver(r, 0, shape.sk, shape.kvTile, Frontier(QueryEnd(t) - 1)) = Prefix(r, shape.sk)
<1>1. PICK last \in 0 .. shape.sq - 1 : last = QueryEnd(t) - 1 /\ QueryOf(r) <= last /\ r \in Rows
  <2>1. QueryEnd(t) \in 1 .. shape.sq /\ QueryOf(r) <= QueryEnd(t) - 1 /\ r \in Rows
    BY RowsOfBlock
  <2>2. shape.sq \in Nat
    BY ShapeType
  <2> QED
    BY <2>1, <2>2
<1>2. PICK sk \in Nat \ {0}, tile \in Nat \ {0}, sq \in Nat \ {0} :
        sk = shape.sk /\ tile = shape.kvTile /\ sq = shape.sq
  BY ShapeType
<1>3. PICK q \in 0 .. sq - 1 : q = QueryOf(r) /\ q <= last
  BY <1>1, <1>2, RowParts
<1>4. PICK limit \in Int : limit = Frontier(QueryEnd(t) - 1) /\ Frontier(QueryOf(r)) <= limit
  <2>1. Frontier(QueryEnd(t) - 1) = sk - sq + last
    BY <1>1, <1>2 DEF Frontier
  <2>2. Frontier(QueryOf(r)) = sk - sq + q
    BY <1>2, <1>3 DEF Frontier
  <2>3. sk - sq + last \in Int /\ sk - sq + q <= sk - sq + last
    BY <1>1, <1>2, <1>3
  <2> QED
    BY <2>1, <2>2, <2>3
<1>5. PICK seen \in Nat : seen = SeenBefore(r, sk) /\ seen = Greatest(0, Least(sk, KeyLimit(r)) - 0)
  <2>1. KeyLimit(r) \in Int
    BY <1>1, FrontierType
  <2> QED
    BY <2>1 DEF SeenBefore, Greatest, Least
<1>6. RowOver(r, 0, sk, tile, limit) = KeysFrom(LaneOf(r), 0, Greatest(0, Least(sk, KeyLimit(r)) - 0))
  <2>1. 0 \in Nat /\ sk \in 0 .. shape.sk /\ 0 <= sk
    BY <1>2
  <2> QED
    BY <1>1, <1>4, <2>1, RowOverIs
<1> QED
  BY <1>1, <1>2, <1>4, <1>5, <1>6 DEF Prefix

LEMMA StoreRowsWorks ==
  ASSUME IInv, NEW w \in DOMAIN holds, StoreRows(w)
  PROVE  IInv'
<1>1. UNCHANGED <<config, plan, cacheVars, shape, keys>> /\ UNCHANGED <<phase, partials>>
      /\ UNCHANGED nextTask /\ phase = "run" /\ holds[w] >= 0 /\ ~ Splits
      /\ holds' = [holds EXCEPT ![w] = -1]
  BY DEF StoreRows
<1>2. CacheInv /\ ShapeInv /\ Calling /\ ClaimInv /\ StoredInv /\ MergeInv
  BY <1>1 DEF IInv, WorkInv, Calling
<1>3. CacheInv' /\ ShapeInv'
  BY <1>1, <1>2, CacheFrame, ShapeFrame
<1>4. PICK tasks \in Nat : tasks = TaskCount /\ TaskCount' = tasks /\ tasks = QueryLanes * QueryBlocks
  BY <1>1, <1>2, TasksType, CallFrame
<1>5. PICK task \in 0 .. tasks - 1 : task = holds[w]
  <2>1. holds[w] \in {-2, -1} \cup 0 .. tasks - 1
    BY <1>2, <1>4 DEF ClaimInv
  <2>2. ~ (-2 >= 0) /\ ~ (-1 >= 0)
    OBVIOUS
  <2> QED
    BY <1>1, <2>1, <2>2
<1>6. /\ DOMAIN output' = DOMAIN output /\ DOMAIN output = Rows
      /\ \A r \in Rows : output'[r] = IF r \in RowsOfTask(task)
           THEN RowOver(r, 0, shape.sk, shape.kvTile, Frontier(QueryEnd(task) - 1)) ELSE output[r]
  BY <1>2, <1>5 DEF StoreRows, ClaimInv
<1>7. \A r \in Rows : output'[r] = IF r \in RowsOfTask(task) THEN Prefix(r, shape.sk) ELSE output[r]
  BY <1>2, <1>4, <1>6, BlockSeesAll
<1>8. ClaimInv' /\ \A t \in Nat : Held(t) /\ t # task => Held(t)'
  <2>1. DOMAIN output' = DOMAIN output /\ DOMAIN partials' = DOMAIN partials
    BY <1>1, <1>6
  <2> QED
    BY <1>1, <1>2, <1>5, <2>1, ReleaseWorks
<1>9. StoredInv'
  <2>1. ASSUME NEW t \in 0 .. tasks - 1, t < nextTask PROVE Held(t)' \/ Stored(t)'
    <3>1. Splits' = Splits /\ RowsOfTask(t)' = RowsOfTask(t) /\ shape' = shape
          /\ \A r : Prefix(r, shape.sk)' = Prefix(r, shape.sk)
      BY <1>1, CallFrame
    <3>2. \A r \in RowsOfTask(t) : r \in Rows
      BY <1>2, <1>4, BlockSeesAll
    <3>3. CASE t = task
      <4>1. \A r \in RowsOfTask(t) : output'[r] = Prefix(r, shape.sk)
        BY <1>7, <3>2, <3>3
      <4> QED
        BY <1>1, <3>1, <4>1 DEF Stored
    <3>4. CASE t # task
      <4>1. Held(t) \/ Stored(t)
        BY <1>1, <1>2, <1>4, <2>1 DEF StoredInv
      <4>2. ASSUME Stored(t) PROVE Stored(t)'
        <5>1. \A r \in RowsOfTask(t) : output[r] = Prefix(r, shape.sk)
          BY <1>1, <4>2 DEF Stored
        <5>2. \A r \in RowsOfTask(t) : output'[r] = Prefix(r, shape.sk)
          BY <1>7, <3>2, <5>1
        <5> QED
          BY <1>1, <3>1, <5>2 DEF Stored
      <4> QED
        BY <1>8, <3>4, <4>1, <4>2
    <3> QED
      BY <3>3, <3>4
  <2> QED
    BY <1>1, <1>4, <2>1 DEF StoredInv
<1>10. MergeInv' /\ DoneInv'
  BY <1>1, CallFrame DEF MergeInv, DoneInv
<1> QED
  BY <1>3, <1>8, <1>9, <1>10 DEF IInv, WorkInv

-----------------------------------------------------------------------------
(* The calling thread merges the next part of the next row.                *)
LEMMA MergePartWorks ==
  ASSUME IInv, MergePart
  PROVE  IInv'
<1>1. UNCHANGED <<config, plan, cacheVars, shape, keys>> /\ UNCHANGED <<phase, partials, holds>>
      /\ UNCHANGED nextTask /\ phase = "run" /\ Splits /\ Joined
  BY DEF MergePart
<1>2. CacheInv /\ ShapeInv /\ Calling /\ ClaimInv /\ StoredInv /\ MergeInv
  BY <1>1 DEF IInv, WorkInv, Calling
<1>3. CacheInv' /\ ShapeInv'
  BY <1>1, <1>2, CacheFrame, ShapeFrame
<1>4. PICK splits \in Nat \ {0}, rows \in Nat : splits = shape.splits /\ rows = QueryLanes * shape.sq
  BY <1>2, ShapeType
<1>5. PICK tasks \in Nat : tasks = TaskCount /\ TaskCount' = tasks /\ tasks = rows * splits
  BY <1>1, <1>2, <1>4, TasksType, CallFrame
<1>6. PICK m \in 0 .. tasks - 1 : m = merged
  BY <1>1, <1>2, <1>5 DEF MergeInv, MergePart
<1>7. PICK q \in 0 .. rows - 1, s \in 0 .. splits - 1 :
        q = m \div splits /\ s = m % splits /\ m = splits * q + s
  <2>1. m \in 0 .. rows * splits - 1
    BY <1>5
  <2>2. /\ m \div splits \in 0 .. rows - 1 /\ m % splits \in 0 .. splits - 1
        /\ m = splits * (m \div splits) + (m % splits)
    BY <2>1, FlatParts
  <2> QED
    BY <2>2
<1>8. Rows = 0 .. rows - 1 /\ DOMAIN output = Rows
  BY <1>2, <1>4 DEF Rows, ClaimInv
<1>9. partials[m] = PartOf(m)
  <2>1. Stored(m)
    BY <1>1, <1>2, <1>5, <1>6, JoinedStored
  <2> QED
    BY <1>1, <2>1 DEF Stored
<1>10. output' = [output EXCEPT ![q] = IF s = 0 THEN PartOf(m) ELSE output[q] \o PartOf(m)]
  BY <1>4, <1>6, <1>7, <1>9 DEF MergePart
<1>11. output'[q] = Prefix(q, SplitBegin(s + 1))
  <2>1. q \in Rows /\ s \in 0 .. shape.splits - 1 /\ m = shape.splits * q + s
    BY <1>4, <1>7, <1>8
  <2>2. /\ s = 0 => PartOf(m) = Prefix(q, SplitEnd(s))
        /\ Prefix(q, SplitBegin(s)) \o PartOf(m) = Prefix(q, SplitEnd(s))
    BY <1>2, <2>1, PartExtends
  <2>3. SplitEnd(s) = SplitBegin(s + 1)
    BY <1>2, <2>1, SplitsType
  <2>4. output'[q] = IF s = 0 THEN PartOf(m) ELSE output[q] \o PartOf(m)
    BY <1>8, <1>10
  <2>5. s # 0 => output[q] = Prefix(q, SplitBegin(s))
    BY <1>1, <1>2, <1>4, <1>6, <1>7, <2>1 DEF MergeInv
  <2> QED
    BY <2>2, <2>3, <2>4, <2>5
<1>12. DOMAIN output' = DOMAIN output /\ \A r \in Rows : r # q => output'[r] = output[r]
  BY <1>8, <1>10
<1>13. \A r \in Rows : r < q => output'[r] = Prefix(r, shape.sk)
  <2>1. \A r \in Rows : r < q => output[r] = Prefix(r, shape.sk)
    BY <1>1, <1>2, <1>4, <1>6, <1>7 DEF MergeInv
  <2>2. \A r \in Rows : r < q => r # q
    BY <1>7, <1>8
  <2> QED
    BY <1>12, <2>1, <2>2
<1>14. \A r \in Rows :
         /\ r < (m + 1) \div splits => output'[r] = Prefix(r, shape.sk)
         /\ r = (m + 1) \div splits /\ (m + 1) % splits # 0 =>
              output'[r] = Prefix(r, SplitBegin((m + 1) % splits))
  <2>1. CASE s + 1 < splits
    <3>1. PICK u \in 0 .. splits - 1 : u = s + 1
      BY <2>1
    <3>2. (splits * q + u) \div splits = q /\ (splits * q + u) % splits = u
      BY FlatIs
    <3>3. m + 1 = splits * q + u
      <4>1. splits * q \in Nat
        BY <1>7
      <4> QED
        BY <1>7, <3>1, <4>1
    <3>4. (m + 1) \div splits = q /\ (m + 1) % splits = s + 1
      BY <3>1, <3>2, <3>3
    <3> QED
      BY <1>11, <1>13, <3>4
  <2>2. CASE s + 1 = splits
    <3>1. m + 1 = splits * q + splits
      <4>1. splits * q \in Nat
        BY <1>7
      <4> QED
        BY <1>7, <2>2, <4>1
    <3>2. splits * q + splits = (q + 1) * splits /\ splits * q + splits = splits * (q + 1)
      BY <1>7
    <3>3. (m + 1) \div splits = q + 1
      <4>1. PICK a \in Nat : a = splits * (q + 1)
        <5>1. q + 1 \in Nat /\ splits \in Nat
          BY <1>7
        <5>2. splits * (q + 1) \in Nat
          BY <5>1
        <5> QED
          BY <5>2
      <4>2. a \in Int /\ q + 1 \in Int /\ splits * (q + 1) <= a /\ a < splits * (q + 1) + splits
        BY <1>7, <4>1
      <4>3. a \div splits = q + 1
        BY <4>2, DivUnique
      <4> QED
        BY <3>1, <3>2, <4>1, <4>3
    <3>4. (m + 1) % splits = 0
      <4>1. q + 1 \in Int
        BY <1>7
      <4>2. ((q + 1) * splits) % splits = 0
        BY <4>1, MultipleMod
      <4> QED
        BY <3>1, <3>2, <4>2
    <3>5. output'[q] = Prefix(q, shape.sk)
      <4>1. SplitBegin(shape.splits) = shape.sk
        BY <1>2, <1>4, <1>7, SplitsType
      <4> QED
        BY <1>4, <1>11, <2>2, <4>1
    <3>6. \A r \in Rows : r < q + 1 => r < q \/ r = q
      BY <1>7, <1>8
    <3> QED
      BY <1>13, <3>3, <3>4, <3>5, <3>6
  <2> QED
    BY <1>7, <2>1, <2>2
<1>15. MergeInv'
  <2>1. merged' = m + 1 /\ shape' = shape /\ m + 1 \in 0 .. tasks
    BY <1>1, <1>6 DEF MergePart
  <2>2. Joined'
    BY <1>1 DEF Joined
  <2>3. Rows' = Rows /\ (\A r, end : Prefix(r, end)' = Prefix(r, end))
        /\ (\A x : SplitBegin(x)' = SplitBegin(x))
    BY <1>1, CallFrame
  <2> QED
    BY <1>4, <1>5, <1>14, <2>1, <2>2, <2>3 DEF MergeInv
<1>16. ClaimInv'
  <2>1. Splits' = Splits /\ Rows' = Rows
    BY <1>1, CallFrame
  <2>2. holds' = holds /\ nextTask' = nextTask /\ partials' = partials
    BY <1>1
  <2> QED
    BY <1>2, <1>5, <1>12, <2>1, <2>2 DEF ClaimInv
<1>17. StoredInv'
  <2>1. Splits' = Splits /\ (\A t : PartOf(t)' = PartOf(t))
    BY <1>1, CallFrame
  <2>2. holds' = holds /\ nextTask' = nextTask /\ partials' = partials
    BY <1>1
  <2>3. \A t : Held(t)' = Held(t)
    BY <2>2 DEF Held
  <2>4. \A t : Stored(t) => Stored(t)'
    BY <1>1, <2>1, <2>2 DEF Stored
  <2>5. \A t \in 0 .. tasks - 1 : t < nextTask => Held(t) \/ Stored(t)
    BY <1>1, <1>2, <1>5 DEF StoredInv
  <2>6. \A t \in 0 .. tasks - 1 : t < nextTask' => Held(t)' \/ Stored(t)'
    BY <2>2, <2>3, <2>4, <2>5
  <2> QED
    BY <1>5, <2>6 DEF StoredInv
<1>18. DoneInv'
  BY <1>1 DEF DoneInv
<1> QED
  BY <1>3, <1>15, <1>16, <1>17, <1>18 DEF IInv, WorkInv

(* Whatever the strategy, a call that returns has every row.               *)
LEMMA MaterializedIs ==
  ASSUME CacheInv, ShapeInv, Calling, NEW r \in Rows
  PROVE  Materialized(r) = Prefix(r, shape.sk)
<1>1. PICK sk \in Nat \ {0}, sq \in Nat \ {0} : sk = shape.sk /\ sq = shape.sq
  BY ShapeType
<1>2. PICK q \in 0 .. sq - 1 : q = QueryOf(r)
  BY <1>1, RowParts
<1>3. Frontier(QueryOf(r)) <= sk
  <2>1. Frontier(QueryOf(r)) = sk - sq + q
    BY <1>1, <1>2 DEF Frontier
  <2> QED
    BY <1>2, <2>1
<1>4. RowOver(r, 0, sk, sk, sk) = KeysFrom(LaneOf(r), 0, Greatest(0, Least(sk, KeyLimit(r)) - 0))
  <2>1. 0 \in Nat /\ sk \in 0 .. shape.sk /\ 0 <= sk /\ sk \in Int
    BY <1>1
  <2> QED
    BY <1>3, <2>1, RowOverIs
<1>5. SeenBefore(r, sk) = Greatest(0, Least(sk, KeyLimit(r)) - 0)
  BY FrontierType DEF SeenBefore, Greatest, Least
<1> QED
  BY <1>1, <1>4, <1>5 DEF Prefix, Materialized

LEMMA ReturnWorks ==
  ASSUME IInv, Return
  PROVE  IInv'
<1>1. UNCHANGED <<config, plan, cacheVars, shape, keys>> /\ UNCHANGED <<partials, holds>>
      /\ UNCHANGED nextTask /\ phase = "run"
      /\ phase' = IF shape.validate /\ config.causal /\ shape.sq > shape.sk
                    THEN "refused" ELSE "returned"
  BY DEF Return
<1>2. CacheInv /\ ShapeInv /\ Calling /\ ClaimInv /\ StoredInv /\ MergeInv
  BY <1>1 DEF IInv, WorkInv, Calling
<1>3. CacheInv' /\ ShapeInv'
  BY <1>1, <1>2, CacheFrame, ShapeFrame
<1>4. Rows' = Rows /\ Splits' = Splits /\ TaskCount' = TaskCount /\ shape' = shape /\ config' = config
      /\ \A r, end : Prefix(r, end)' = Prefix(r, end)
  BY <1>1, CallFrame
<1>5. DOMAIN output = Rows
  BY <1>2 DEF ClaimInv
<1>6. DOMAIN output' = Rows /\ \A r \in Rows : output'[r] = Prefix(r, shape.sk)
  <2>1. CASE plan.strategy = "materialized"
    <3>1. output' = [r \in Rows |-> Materialized(r)]
      BY <1>5, <2>1 DEF Return
    <3>2. \A r \in Rows : Materialized(r) = Prefix(r, shape.sk)
      BY <1>2, MaterializedIs
    <3> QED
      BY <3>1, <3>2
  <2>2. CASE plan.strategy # "materialized" /\ ~ Splits
    <3>1. output' = output /\ Joined
      BY <2>2 DEF Return
    <3>2. ASSUME NEW r \in Rows PROVE output[r] = Prefix(r, shape.sk)
      <4>1. BlockOf(r) \in 0 .. QueryLanes * QueryBlocks - 1 /\ r \in RowsOfTask(BlockOf(r))
        BY <1>2, RowInBlock
      <4>2. TaskCount = QueryLanes * QueryBlocks /\ TaskCount \in Nat
        BY <1>2, <2>2, TasksType
      <4>3. Stored(BlockOf(r))
        BY <1>1, <1>2, <3>1, <4>1, <4>2, JoinedStored
      <4> QED
        BY <2>2, <4>1, <4>3 DEF Stored
    <3> QED
      BY <1>5, <3>1, <3>2
  <2>3. CASE Splits
    <3>1. output' = output /\ merged = TaskCount
      BY <2>3 DEF Return, Splits
    <3>2. PICK splits \in Nat \ {0}, rows \in Nat : splits = shape.splits /\ rows = QueryLanes * shape.sq
      BY <1>2, ShapeType
    <3>3. merged = rows * splits
      BY <1>2, <2>3, <3>1, <3>2, TasksType
    <3>4. merged \div splits = rows
      <4>1. PICK a \in Nat : a = splits * rows /\ a = rows * splits
        OBVIOUS
      <4>2. a \in Int /\ rows \in Int /\ splits * rows <= a /\ a < splits * rows + splits
        BY <4>1
      <4>3. a \div splits = rows
        BY <4>2, DivUnique
      <4> QED
        BY <3>3, <4>1, <4>3
    <3>5. \A r \in Rows : r < merged \div shape.splits
      BY <3>2, <3>4 DEF Rows
    <3> QED
      BY <1>1, <1>2, <1>5, <2>3, <3>1, <3>5 DEF MergeInv
  <2> QED
    BY <2>1, <2>2, <2>3
<1>7. ClaimInv'
  <2>1. holds' = holds /\ nextTask' = nextTask /\ partials' = partials
    BY <1>1
  <2> QED
    BY <1>2, <1>4, <1>6, <2>1 DEF ClaimInv
<1>8. phase' # "run"
  BY <1>1
<1>9. DoneInv'
  <2>1. \A r \in Rows' : output'[r] = Prefix(r, shape.sk)'
    BY <1>4, <1>6
  <2>2. phase' = "returned" /\ shape.validate /\ config.causal => ~ (shape.sq > shape.sk)
    BY <1>1
  <2>3. phase' = "returned" /\ shape.validate /\ config.causal => shape.sq <= shape.sk
    BY <1>2, <2>2, ShapeType
  <2> QED
    BY <1>4, <2>1, <2>3 DEF DoneInv
<1> QED
  BY <1>3, <1>7, <1>8, <1>9 DEF IInv, WorkInv, StoredInv, MergeInv

-----------------------------------------------------------------------------
(* The invariant of the specification.                                     *)
LEMMA NextWorks ==
  ASSUME IInv, Next
  PROVE  IInv'
<1>0. CacheInv
  BY DEF IInv
<1>1. ASSUME NEW n \in 1 .. MaxAppend, AppendKV(n) PROVE IInv'
  <2>1. CacheInv'
    BY <1>0, <1>1, AppendKeepsCache
  <2>2. phase' = "idle" /\ holds' = <<>>
    BY <1>1 DEF AppendKV, runVars, IInv, ShapeInv, Calling
  <2> QED
    BY <2>1, <2>2, IdleIs
<1>2. ASSUME NEW sq \in 1 .. config.sq, NEW sk \in 1 .. config.sk, Prefill(sq, sk) PROVE IInv'
  BY <1>0, <1>2, PrefillWorks
<1>3. ASSUME NEW validate \in BOOLEAN, Decode(validate) PROVE IInv'
  BY <1>0, <1>3, DecodeWorks
<1>4. CASE Rejected
  <2>1. CacheInv' /\ phase' = "idle" /\ holds' = <<>>
    <3>1. UNCHANGED <<config, plan, cacheVars>> /\ UNCHANGED phase /\ UNCHANGED holds
      BY <1>4 DEF Rejected, vars, runVars
    <3> QED
      BY <1>0, <1>4, <3>1, CacheFrame DEF Rejected, IInv, ShapeInv, Calling
  <2> QED
    BY <2>1, IdleIs
<1>5. ASSUME NEW w \in DOMAIN holds, WorkerStep(w) PROVE IInv'
  BY <1>5, ClaimWorks, StorePartialWorks, StoreRowsWorks DEF WorkerStep
<1>6. CASE MergePart
  BY <1>6, MergePartWorks
<1>7. CASE Return
  BY <1>7, ReturnWorks
<1>8. CASE Leave
  <2>1. UNCHANGED <<config, plan, cacheVars>> /\ phase' = "idle" /\ holds' = <<>>
    BY <1>8 DEF Leave
  <2> QED
    BY <1>0, <2>1, CacheFrame, IdleIs
<1> QED
  BY <1>1, <1>2, <1>3, <1>4, <1>5, <1>6, <1>7, <1>8 DEF Next

LEMMA StutterWorks ==
  ASSUME IInv, UNCHANGED vars
  PROVE  IInv'
<1>1. UNCHANGED <<config, plan, cacheVars, shape, keys>> /\ UNCHANGED <<phase, merged, output>>
      /\ UNCHANGED <<nextTask, holds, partials>>
  BY DEF vars, runVars
<1>2. phase' = phase /\ shape' = shape /\ config' = config /\ output' = output /\ nextTask' = nextTask
      /\ holds' = holds /\ partials' = partials
  BY <1>1
<1>3. CacheInv' /\ Calling' = Calling
  BY <1>1, <1>2, CacheFrame DEF IInv, Calling
<1>4. ShapeInv'
  <2>1. KvLanes' = KvLanes /\ keys' = keys
    BY <1>1 DEF KvLanes
  <2> QED
    BY <1>2, <1>3, <2>1 DEF IInv, ShapeInv
<1>5. Rows' = Rows /\ Splits' = Splits /\ TaskCount' = TaskCount
      /\ (\A t : RowsOfTask(t)' = RowsOfTask(t)) /\ (\A t : PartOf(t)' = PartOf(t))
      /\ (\A r, end : Prefix(r, end)' = Prefix(r, end))
  BY <1>1, CallFrame
<1>6. ClaimInv => ClaimInv'
  BY <1>2, <1>5 DEF ClaimInv
<1>7. \A t : Held(t)' = Held(t)
  BY <1>2 DEF Held
<1>8. \A t : Stored(t) => Stored(t)'
  BY <1>2, <1>5 DEF Stored
<1>9. StoredInv => StoredInv'
  BY <1>2, <1>5, <1>7, <1>8 DEF StoredInv
<1>10. MergeInv'
  <2>1. Joined => Joined'
    BY <1>2 DEF Joined
  <2> QED
    BY <1>1, <2>1, MergeFrame DEF IInv
<1>11. DoneInv'
  BY <1>2, <1>5 DEF IInv, DoneInv
<1> QED
  BY <1>3, <1>4, <1>6, <1>9, <1>10, <1>11 DEF IInv, WorkInv

(* Every reachable state has a cache in order, a call within the guards,   *)
(* each claimed task held or stored, and the merged rows so far.           *)
THEOREM Invariance == Spec => []IInv
<1>1. Init => IInv
  BY InitWorks
<1>2. IInv /\ [Next]_vars => IInv'
  BY NextWorks, StutterWorks
<1> QED
  BY <1>1, <1>2, PTL DEF Spec

(* append_kv keeps the layout of every lane, over any number of appends.   *)
THEOREM LayoutKept == Spec => []CacheKeepsLayout
<1>1. IInv => CacheKeepsLayout
  BY DEF IInv, CacheInv
<1> QED
  BY <1>1, Invariance, PTL

(* execute_attention and execute_decode_attention return in each row the   *)
(* keys it may see, each once, in order and of the lane of its head, for   *)
(* every shape, strategy, tile, split and number of threads.               *)
THEOREM RowsAreTheReferences == Spec => []RowsMatchReference
<1>1. ASSUME IInv PROVE RowsMatchReference
  <2>1. SUFFICES ASSUME phase = "returned", NEW row \in Rows
        PROVE  LET frontier == IF config.causal THEN Frontier(QueryOf(row)) ELSE shape.sk - 1
                   batch == row \div (config.heads * shape.sq)
                   head == (row \div shape.sq) % config.heads
                   lane == batch * config.kvHeads + head \div (config.heads \div config.kvHeads)
               IN /\ Len(output[row]) = Greatest(0, frontier + 1)
                  /\ \A i \in DOMAIN output[row] : output[row][i] = <<lane, i - 1>>
                  /\ shape.validate => output[row] # <<>>
    BY DEF RowsMatchReference
  <2>2. CacheInv /\ ShapeInv /\ Calling /\ DoneInv
    BY <1>1, <2>1 DEF IInv, Calling
  <2>3. PICK sk \in Nat \ {0}, sq \in Nat \ {0} : sk = shape.sk /\ sq = shape.sq
    BY <2>2, ShapeType
  <2>4. PICK q \in 0 .. sq - 1 : q = QueryOf(row)
    BY <2>2, <2>3, RowParts
  <2>5. PICK frontier \in Int :
          frontier = IF config.causal THEN Frontier(QueryOf(row)) ELSE shape.sk - 1
    BY <2>2, <2>3, FrontierType
  <2>6. PICK seen \in Nat : seen = SeenBefore(row, shape.sk) /\ seen = Greatest(0, frontier + 1)
    <3>1. KeyLimit(row) = frontier + 1
      BY <2>3, <2>5 DEF KeyLimit
    <3>2. frontier + 1 <= sk
      BY <2>2, <2>3, <3>1, FrontierType
    <3> QED
      BY <2>3, <3>1, <3>2 DEF SeenBefore, Greatest, Least
  <2>7. PICK lane : lane = LaneOf(row)
    OBVIOUS
  <2>8. output[row] = KeysFrom(lane, 0, seen)
    BY <2>1, <2>2, <2>6, <2>7 DEF DoneInv, Prefix
  <2>9. /\ Len(output[row]) = seen /\ DOMAIN output[row] = 1 .. seen
        /\ \A i \in 1 .. seen : output[row][i] = <<lane, 0 + i - 1>>
    <3>1. /\ Len(KeysFrom(lane, 0, seen)) = seen /\ DOMAIN KeysFrom(lane, 0, seen) = 1 .. seen
          /\ \A i \in 1 .. seen : KeysFrom(lane, 0, seen)[i] = <<lane, 0 + i - 1>>
      BY KeysFromType
    <3> QED
      BY <2>8, <3>1
  <2>10. \A i \in DOMAIN output[row] : output[row][i] = <<lane, i - 1>>
    <3>1. \A i \in 1 .. seen : 0 + i - 1 = i - 1
      OBVIOUS
    <3> QED
      BY <2>9, <3>1
  <2>11. shape.validate => output[row] # <<>>
    <3>1. SUFFICES ASSUME shape.validate PROVE output[row] # <<>>
      OBVIOUS
    <3>2. 0 <= frontier
      <4>1. CASE config.causal
        <5>1. sq <= sk
          BY <2>1, <2>2, <2>3, <3>1, <4>1 DEF DoneInv
        <5>2. frontier = sk - sq + q
          BY <2>3, <2>4, <2>5, <4>1 DEF Frontier
        <5> QED
          BY <5>1, <5>2
      <4>2. CASE ~ config.causal
        BY <2>3, <2>5, <4>2
      <4> QED
        BY <4>1, <4>2
    <3>3. seen # 0
      BY <2>6, <3>2 DEF Greatest
    <3> QED
      BY <2>9, <3>3, EmptySeq
  <2>12. lane = (row \div (config.heads * shape.sq)) * config.kvHeads
              + ((row \div shape.sq) % config.heads) \div (config.heads \div config.kvHeads)
    BY <2>2, <2>7, LaneIs
  <2> QED
    BY <2>5, <2>6, <2>9, <2>10, <2>11, <2>12
<1> QED
  BY <1>1, Invariance, PTL

(* No two workers hold one part, or blocks that share a row: they store    *)
(* without a lock.                                                         *)
THEOREM StoresApart == Spec => []StoresAreExclusive
<1>1. ASSUME IInv PROVE StoresAreExclusive
  <2>1. SUFFICES ASSUME NEW v \in DOMAIN holds, NEW w \in DOMAIN holds, v # w,
                        holds[v] >= 0, holds[w] >= 0
        PROVE  TargetsOf(holds[v]) \cap TargetsOf(holds[w]) = {}
    BY DEF StoresAreExclusive
  <2>2. Calling
    BY <1>1, <2>1 DEF IInv, ShapeInv
  <2>3. CacheInv /\ ShapeInv /\ ClaimInv
    BY <1>1, <2>2 DEF IInv, WorkInv
  <2>4. PICK tasks \in Nat : tasks = TaskCount
    BY <2>2, <2>3, TasksType
  <2>5. PICK t \in 0 .. tasks - 1, u \in 0 .. tasks - 1 : t = holds[v] /\ u = holds[w]
    <3>1. /\ holds[v] \in {-2, -1} \cup 0 .. tasks - 1
          /\ holds[w] \in {-2, -1} \cup 0 .. tasks - 1
      BY <2>3, <2>4 DEF ClaimInv
    <3>2. ~ (-2 >= 0) /\ ~ (-1 >= 0)
      OBVIOUS
    <3> QED
      BY <2>1, <3>1, <3>2
  <2>6. t # u
    BY <2>1, <2>3, <2>5 DEF ClaimInv
  <2>7. CASE Splits
    BY <2>5, <2>6, <2>7 DEF TargetsOf
  <2>8. CASE ~ Splits
    <3>1. tasks = QueryLanes * QueryBlocks
      BY <2>2, <2>3, <2>4, <2>8, TasksType
    <3>2. (\A row \in RowsOfTask(t) : BlockOf(row) = t) /\ \A row \in RowsOfTask(u) : BlockOf(row) = u
      BY <2>2, <2>3, <3>1, RowsOfBlock
    <3>3. RowsOfTask(t) \cap RowsOfTask(u) = {}
      BY <2>6, <3>2
    <3> QED
      BY <2>5, <2>8, <3>3 DEF TargetsOf
  <2> QED
    BY <2>7, <2>8
<1> QED
  BY <1>1, Invariance, PTL

=============================================================================

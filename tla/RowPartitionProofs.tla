------------------------- MODULE RowPartitionProofs -------------------------
(***************************************************************************)
(* The row ranges of execute() divide the output, for every extent and     *)
(* every thread count a schedule may ask for; and the lemmas that the      *)
(* proofs of the components share: division, clamping, induction on 0 .. n *)
(* and recursion on it, the concatenation of lists and the stable sort.    *)
(***************************************************************************)
EXTENDS RowPartition, StableOrder, SequencesExt, SequenceTheorems, FiniteSetTheorems,
        WellFoundedInduction, TLAPS

(* Division by a positive constant, as the row, page and tile computations *)
(* use it.                                                                 *)

(* The remainder and the quotient determine the dividend. *)
LEMMA DivMod ==
  ASSUME NEW a \in Int, NEW b \in Nat \ {0}
  PROVE  /\ a \div b \in Int
         /\ a % b \in 0 .. b - 1
         /\ a = b * (a \div b) + (a % b)
BY SMT

LEMMA DivBounds ==
  ASSUME NEW a \in Int, NEW b \in Nat \ {0}
  PROVE  b * (a \div b) <= a /\ a < b * (a \div b) + b
BY DivMod, SMT

LEMMA DivUnique ==
  ASSUME NEW a \in Int, NEW b \in Nat \ {0}, NEW q \in Int,
         b * q <= a, a < b * q + b
  PROVE  a \div b = q
<1>1. \A p \in Int : p > q => b * p >= b * q + b
  BY SMT
<1>2. \A p \in Int : p < q => b * p + b <= b * q
  BY SMT
<1> QED
  BY <1>1, <1>2, DivMod, DivBounds, SMT

LEMMA DivMonotone ==
  ASSUME NEW a \in Int, NEW c \in Int, a <= c, NEW b \in Nat \ {0}
  PROVE  a \div b <= c \div b
BY DivMod, DivBounds, SMT

LEMMA DivShift ==
  ASSUME NEW a \in Int, NEW b \in Nat \ {0}
  PROVE  (a + b) \div b = a \div b + 1
<1>1. /\ a \div b \in Int
      /\ b * (a \div b) <= a
      /\ a < b * (a \div b) + b
  BY DivMod, DivBounds
<1>2. b * (a \div b + 1) = b * (a \div b) + b
  BY <1>1, SMT
<1>3. /\ a + b \in Int
      /\ a \div b + 1 \in Int
      /\ b * (a \div b + 1) <= a + b
      /\ a + b < b * (a \div b + 1) + b
  BY <1>1, <1>2, SMT
<1> QED
  BY <1>3, DivUnique

LEMMA DivNat ==
  ASSUME NEW a \in Nat, NEW b \in Nat \ {0}
  PROVE  a \div b \in Nat
BY DivMod, DivBounds, SMT

LEMMA MultipleMod ==
  ASSUME NEW q \in Int, NEW b \in Nat \ {0}
  PROVE  (q * b) % b = 0
<1> DEFINE a == q * b
<1>1. a \in Int /\ b * q <= a /\ a < b * q + b /\ b * q = a
  BY SMT
<1> HIDE DEF a
<1>2. a \div b = q
  BY <1>1, DivUnique
<1>3. a = b * (a \div b) + (a % b) /\ a % b \in 0 .. b - 1
  BY <1>1, DivMod
<1>4. a % b = 0
  BY <1>1, <1>2, <1>3, SMT
<1> QED
  BY <1>4 DEF a

(* The index of an array with n rows of m elements: a row and a column, ...*)
LEMMA FlatParts ==
  ASSUME NEW n \in Nat, NEW m \in Nat \ {0}, NEW x \in 0 .. n * m - 1
  PROVE  x \div m \in 0 .. n - 1 /\ x % m \in 0 .. m - 1 /\ x = m * (x \div m) + (x % m)
<1>1. n * m \in Nat /\ x \in Nat /\ x \in Int
  BY SMT
<1>2. x \div m \in Nat
  BY <1>1, DivNat
<1>3. x % m \in 0 .. m - 1 /\ x = m * (x \div m) + (x % m)
  BY <1>1, DivMod
<1>4. ASSUME n <= x \div m PROVE FALSE
  <2>1. n * m <= m * (x \div m)
    BY <1>1, <1>2, <1>4, SMT
  <2> QED
    BY <1>1, <1>2, <1>3, <2>1, SMT
<1> QED
  BY <1>1, <1>2, <1>3, <1>4, SMT

(* ... and a row and a column make an index. *)
LEMMA FlatIs ==
  ASSUME NEW n \in Nat, NEW m \in Nat \ {0}, NEW t \in 0 .. n - 1, NEW s \in 0 .. m - 1
  PROVE  /\ m * t + s \in 0 .. n * m - 1
         /\ (m * t + s) \div m = t /\ (m * t + s) % m = s
<1> DEFINE x == m * t + s
<1>1. t \in Nat /\ m * t \in Nat /\ x \in Nat /\ m * t <= x /\ x < m * t + m
  BY SMT
<1>2. x \div m = t
  BY <1>1, DivUnique
<1>3. x = m * (x \div m) + (x % m) /\ x % m \in Int
  BY <1>1, DivMod
<1>4. m * t + m <= n * m
  <2>1. m * (t + 1) <= m * n
    BY <1>1, SMT
  <2> QED
    BY <1>1, <2>1, SMT
<1>5. x % m = s
  BY <1>1, <1>2, <1>3, SMT
<1>6. x \in 0 .. n * m - 1
  <2>1. n * m \in Int
    BY SMT
  <2> HIDE DEF x
  <2> QED
    BY <1>1, <1>4, <2>1, SMT
<1> QED
  BY <1>2, <1>5, <1>6

-----------------------------------------------------------------------------
(* The row ranges.                                                         *)
LEMMA WorkerCountType ==
  ASSUME NEW m \in Nat \ {0}, NEW threads \in Int
  PROVE  WorkerCount(m, threads) \in 1 .. m
BY DEF WorkerCount, Clamp

(* d chunks of CeilDiv(n, d) are enough for n. *)
LEMMA CeilDivEnough ==
  ASSUME NEW n \in Nat, NEW d \in Nat \ {0}
  PROVE  CeilDiv(n, d) \in Nat /\ n <= d * CeilDiv(n, d)
<1>1. n + d - 1 \in Nat
  OBVIOUS
<1> QED
  BY <1>1, DivMod, DivBounds, DivNat DEF CeilDiv

LEMMA ChunkType ==
  ASSUME NEW m \in Nat \ {0}, NEW threads \in Int
  PROVE  RowsPerThread(m, threads) \in Nat \ {0}
<1>1. WorkerCount(m, threads) \in Nat \ {0}
  BY WorkerCountType
<1>2. /\ RowsPerThread(m, threads) \in Nat
      /\ m <= WorkerCount(m, threads) * RowsPerThread(m, threads)
  BY <1>1, CeilDivEnough DEF RowsPerThread
<1>3. CASE RowsPerThread(m, threads) = 0
  BY <1>1, <1>2, <1>3
<1> QED
  BY <1>2, <1>3

(* The rows of a worker are those between two multiples of the chunk. *)
LEMMA RowsBounds ==
  ASSUME NEW m \in Nat \ {0}, NEW threads \in Int, NEW w \in Nat, NEW r \in Int,
         NEW b, b = w * RowsPerThread(m, threads)
  PROVE  /\ b \in Nat
         /\ r \in RowsOf(m, threads, w) <=>
              b <= r /\ r < b + RowsPerThread(m, threads) /\ r < m
<1> DEFINE c == RowsPerThread(m, threads)
<1>1. c \in Nat /\ b \in Nat
  BY ChunkType
<1>2. RowsOf(m, threads, w) = b .. Least(b + c, m) - 1
  BY DEF RowsOf, RowBegin, RowEnd
<1> HIDE DEF c
<1>3. r \in b .. Least(b + c, m) - 1 <=> b <= r /\ r < b + c /\ r < m
  BY <1>1 DEF Least
<1> QED
  BY <1>1, <1>2, <1>3 DEF c

(* Two workers never write the same row: execute() needs no lock around    *)
(* the output.                                                             *)
THEOREM RowsDisjoint ==
  ASSUME NEW m \in Nat \ {0}, NEW threads \in Int, NEW w \in Nat, NEW v \in Nat, w < v
  PROVE  RowsOf(m, threads, w) \cap RowsOf(m, threads, v) = {}
<1> DEFINE c == RowsPerThread(m, threads)
           b == w * c
           d == v * c
<1>1. c \in Nat \ {0}
  BY ChunkType
<1>2. b + c <= d
  BY <1>1
<1>3. \A r \in Int : r \in RowsOf(m, threads, w) => r < b + c
  BY RowsBounds
<1>4. \A r \in Int : r \in RowsOf(m, threads, v) => d <= r
  BY RowsBounds
<1>5. b \in Nat /\ d \in Nat
  BY <1>1
<1>6. \A r \in RowsOf(m, threads, w) : r \in Int
  BY DEF RowsOf
<1> HIDE DEF b, c, d
<1> QED
  BY <1>1, <1>2, <1>3, <1>4, <1>5, <1>6

(* Every row has a worker, and no worker leaves the output. *)
THEOREM RowsCover ==
  ASSUME NEW m \in Nat \ {0}, NEW threads \in Int
  PROVE  UNION {RowsOf(m, threads, w) : w \in 0 .. WorkerCount(m, threads) - 1} = 0 .. m - 1
<1> DEFINE c == RowsPerThread(m, threads)
           t == WorkerCount(m, threads)
<1>1. c \in Nat \ {0} /\ t \in Nat \ {0}
  BY ChunkType, WorkerCountType
<1>2. m <= t * c
  BY <1>1, CeilDivEnough DEF RowsPerThread
<1>3. ASSUME NEW w \in 0 .. t - 1, NEW r \in RowsOf(m, threads, w) PROVE r \in 0 .. m - 1
  <2>1. r \in Int /\ w \in Nat
    BY <1>1 DEF RowsOf
  <2> DEFINE b == w * RowsPerThread(m, threads)
  <2>2. b \in Nat /\ b <= r /\ r < m
    BY <2>1, RowsBounds
  <2> QED
    BY <2>1, <2>2
<1>4. ASSUME NEW r \in 0 .. m - 1 PROVE \E w \in 0 .. t - 1 : r \in RowsOf(m, threads, w)
  <2> DEFINE w == r \div c
  <2>1. w \in Nat /\ c * w <= r /\ r < c * w + c
    BY <1>1, DivBounds, DivNat
  <2> HIDE DEF w, c, t
  <2>2. w < t
    <3>1. ASSUME t <= w PROVE FALSE
      <4>1. t * c <= c * w
        BY <1>1, <2>1, <3>1
      <4> QED
        BY <1>1, <1>2, <2>1, <4>1
    <3> QED
      BY <1>1, <2>1, <3>1
  <2> DEFINE b == w * RowsPerThread(m, threads)
  <2>3. b = c * w
    BY <1>1, <2>1 DEF c
  <2>4. r \in RowsOf(m, threads, w) <=>
          b <= r /\ r < b + RowsPerThread(m, threads) /\ r < m
    <3>1. r \in Int
      OBVIOUS
    <3> QED
      BY <2>1, <3>1, RowsBounds
  <2>5. r \in RowsOf(m, threads, w)
    BY <2>1, <2>3, <2>4 DEF c
  <2> QED
    BY <1>1, <2>1, <2>2, <2>5
<1> QED
  BY <1>3, <1>4

LEMMA ClampType == \A v, lo, hi \in Int : Clamp(v, lo, hi) \in Int /\ (lo <= hi => Clamp(v, lo, hi) \in lo .. hi)
BY DEF Clamp

LEMMA DivIsInt == \A a \in Int, b \in Nat \ {0} : a \div b \in Int
OBVIOUS

LEMMA TimesIsInt == \A a, b \in Int : a * b \in Int
OBVIOUS

LEMMA TimesIsPositive == \A a, b \in Nat \ {0} : a * b \in Nat \ {0}
OBVIOUS

LEMMA CeilDivType == \A n \in Nat, d \in Nat \ {0} : CeilDiv(n, d) \in Nat
BY DivNat DEF CeilDiv

LEMMA NatInduct ==
  ASSUME NEW A, NEW n \in Nat, \E i \in 0 .. n : i \notin A
  PROVE  \E i \in 0 .. n : i \notin A /\ \A j \in 0 .. i - 1 : j \in A
<1> DEFINE bad == {i \in 0 .. n : i \notin A}
<1>1. bad # {} /\ bad \subseteq Nat
  OBVIOUS
<1> HIDE DEF bad
<1>2. PICK i \in bad : \A j \in bad : <<j, i>> \notin OpToRel(<, Nat)
  BY <1>1, NatLessThanWellFounded, WFMin
<1>3. i \in 0 .. n /\ i \notin A
  BY <1>2 DEF bad
<1>4. ASSUME NEW j \in 0 .. i - 1 PROVE j \in A
  <2>1. j \in Nat /\ i \in Nat /\ j < i
    <3>1. i \in Nat
      BY <1>3
    <3> QED
      BY <3>1
  <2>2. <<j, i>> \in OpToRel(<, Nat)
    BY <2>1 DEF OpToRel
  <2>3. j \notin bad
    BY <1>2, <2>2
  <2> QED
    BY <1>3, <1>4, <2>3 DEF bad
<1> QED
  BY <1>3, <1>4

LEMMA Concatenation ==
  ASSUME NEW S, NEW a \in Seq(S), NEW b \in Seq(S)
  PROVE  /\ a \o b \in Seq(S)
         /\ Len(a \o b) = Len(a) + Len(b)
         /\ \A i \in 1 .. Len(a) : (a \o b)[i] = a[i]
         /\ \A i \in 1 .. Len(b) : (a \o b)[Len(a) + i] = b[i]
OBVIOUS

LEMMA InFirst ==
  ASSUME NEW S, NEW a \in Seq(S), NEW b \in Seq(S), NEW i \in DOMAIN a
  PROVE  i \in DOMAIN (a \o b) /\ (a \o b)[i] = a[i]
OBVIOUS

LEMMA InSecond ==
  ASSUME NEW S, NEW a \in Seq(S), NEW b \in Seq(S), NEW i \in DOMAIN b
  PROVE  Len(a) + i \in DOMAIN (a \o b) /\ (a \o b)[Len(a) + i] = b[i]
OBVIOUS

(* Recursion on 1 .. n by concatenation: the function that the definition  *)
(* chooses exists.                                                         *)
Concatenates(f, s, n) == f = [i \in 1 .. n |-> IF i = 1 THEN s[i] ELSE f[i - 1] \o s[i]]

LEMMA SolutionsExist ==
  ASSUME NEW s, NEW n \in Nat \ {0} PROVE \E f : Concatenates(f, s, n)
<1> DEFINE A == {k \in Nat : k = 0 \/ \E f : Concatenates(f, s, k)}
<1>1. SUFFICES n \in A
  OBVIOUS
<1>2. SUFFICES ASSUME n \notin A PROVE FALSE
  OBVIOUS
<1>3. PICK k \in 0 .. n : k \notin A /\ \A j \in 0 .. k - 1 : j \in A
  <2> HIDE DEF A
  <2> QED
    BY <1>2, NatInduct
<1>4. k \in Nat \ {0} /\ ~ \E f : Concatenates(f, s, k)
  BY <1>3
<1>5. CASE k = 1
  <2>1. Concatenates([i \in 1 .. 1 |-> s[i]], s, 1)
    <3>1. [i \in 1 .. 1 |-> s[i]] = [i \in 1 .. 1 |-> IF i = 1 THEN s[i] ELSE [j \in 1 .. 1 |-> s[j]][i - 1] \o s[i]]
      OBVIOUS
    <3> QED
      BY <3>1 DEF Concatenates
  <2> QED
    BY <1>4, <1>5, <2>1
<1>6. CASE k # 1
  <2>1. k - 1 \in 0 .. k - 1 /\ k - 1 # 0
    BY <1>4, <1>6
  <2>2. PICK f : Concatenates(f, s, k - 1)
    BY <1>3, <2>1
  <2> DEFINE g == [i \in 1 .. k |-> IF i = k THEN f[k - 1] \o s[k] ELSE f[i]]
  <2>3. ASSUME NEW i \in 1 .. k PROVE g[i] = IF i = 1 THEN s[i] ELSE g[i - 1] \o s[i]
    <3>1. CASE i = k
      <4>1. k - 1 \in 1 .. k /\ k - 1 # k
        BY <1>4, <1>6
      <4>2. g[k - 1] = f[k - 1]
        BY <4>1
      <4>3. g[k] = f[k - 1] \o s[k]
        <5>1. k \in 1 .. k
          BY <1>4
        <5> QED
          BY <5>1
      <4> QED
        BY <1>6, <3>1, <4>2, <4>3
    <3>2. CASE i # k
      <4>1. i \in 1 .. k - 1
        BY <1>4, <3>2
      <4>2. f[i] = IF i = 1 THEN s[i] ELSE f[i - 1] \o s[i]
        BY <2>2, <4>1 DEF Concatenates
      <4>3. i # 1 => i - 1 \in 1 .. k /\ i - 1 # k
        BY <4>1, <1>4
      <4>4. g[i] = f[i] /\ (i # 1 => g[i - 1] = f[i - 1])
        BY <3>2, <4>3
      <4> QED
        BY <4>2, <4>4
    <3> QED
      BY <3>1, <3>2
  <2>4. g = [i \in 1 .. k |-> IF i = 1 THEN s[i] ELSE g[i - 1] \o s[i]]
    <3>1. g = [i \in 1 .. k |-> g[i]]
      OBVIOUS
    <3> HIDE DEF g
    <3> QED
      BY <2>3, <3>1
  <2>5. Concatenates(g, s, k)
    <3> HIDE DEF g
    <3> QED
      BY <2>4 DEF Concatenates
  <2> QED
    BY <1>4, <2>5
<1> QED
  BY <1>5, <1>6

LEMMA SolutionIsFlat ==
  ASSUME NEW S, NEW n \in Nat \ {0}, NEW s, \A i \in 1 .. n : s[i] \in Seq(S),
         NEW f, Concatenates(f, s, n)
  PROVE  /\ f[n] \in Seq(S)
         /\ \A i \in 1 .. n : s[i] # <<>> => f[n] # <<>>
         /\ \A i \in DOMAIN f[n] : \E j \in 1 .. n : \E k \in DOMAIN s[j] : f[n][i] = s[j][k]
<1> DEFINE Good(m) == /\ f[m] \in Seq(S)
                      /\ \A i \in 1 .. m : s[i] # <<>> => f[m] # <<>>
                      /\ \A i \in DOMAIN f[m] : \E j \in 1 .. m : \E k \in DOMAIN s[j] : f[m][i] = s[j][k]
           A == {m \in 0 .. n : m = 0 \/ Good(m)}
<1>1. SUFFICES n \in A
  OBVIOUS
<1>2. SUFFICES ASSUME n \notin A PROVE FALSE
  OBVIOUS
<1>3. PICK m \in 0 .. n : m \notin A /\ \A j \in 0 .. m - 1 : j \in A
  <2>1. n \in Nat /\ \E i \in 0 .. n : i \notin A
    BY <1>2
  <2> HIDE DEF A
  <2> QED
    BY <2>1, NatInduct
<1>4. m \in 1 .. n /\ ~ Good(m)
  <2> HIDE DEF Good
  <2> QED
    BY <1>3
<1>5. f[m] = IF m = 1 THEN s[m] ELSE f[m - 1] \o s[m]
  BY <1>4 DEF Concatenates
<1>6. CASE m = 1
  <2>1. f[m] = s[m]
    BY <1>5, <1>6
  <2> QED
    BY <1>4, <1>6, <2>1
<1>7. CASE m # 1
  <2>1. m - 1 \in 0 .. m - 1 /\ m - 1 # 0
    BY <1>4, <1>7
  <2>2. Good(m - 1)
    <3> HIDE DEF Good
    <3> QED
      BY <1>3, <2>1
  <2>3. f[m] = f[m - 1] \o s[m] /\ f[m - 1] \in Seq(S) /\ s[m] \in Seq(S)
    BY <1>4, <1>5, <1>7, <2>2
  <2>4. PICK a \in Seq(S), b \in Seq(S) : a = f[m - 1] /\ b = s[m]
    BY <2>3
  <2>5. /\ a \o b \in Seq(S)
        /\ a # <<>> \/ b # <<>> => a \o b # <<>>
        /\ \A i \in DOMAIN (a \o b) : (\E k \in DOMAIN a : (a \o b)[i] = a[k]) \/ (\E k \in DOMAIN b : (a \o b)[i] = b[k])
    <3>1. a \o b \in Seq(S) /\ Len(a \o b) = Len(a) + Len(b)
      BY ONLY a \in Seq(S), b \in Seq(S)
    <3>2. Len(a) \in Nat /\ Len(b) \in Nat
      OBVIOUS
    <3>3. ASSUME NEW i \in DOMAIN (a \o b) PROVE (\E k \in DOMAIN a : (a \o b)[i] = a[k]) \/ (\E k \in DOMAIN b : (a \o b)[i] = b[k])
      <4>1. i \in 1 .. Len(a) + Len(b)
        BY <3>1
      <4>2. CASE i <= Len(a)
        <5>1. i \in DOMAIN a /\ (a \o b)[i] = a[i]
          BY <3>2, <4>1, <4>2
        <5> QED
          BY <5>1
      <4>3. CASE i > Len(a)
        <5>1. i - Len(a) \in DOMAIN b /\ (a \o b)[i] = b[i - Len(a)]
          BY <3>2, <4>1, <4>3
        <5> QED
          BY <5>1
      <4> QED
        BY <3>2, <4>1, <4>2, <4>3
    <3>4. (a # <<>> => Len(a) > 0) /\ (b # <<>> => Len(b) > 0)
      OBVIOUS
    <3> QED
      BY <3>1, <3>2, <3>3, <3>4
  <2>6. f[m] = a \o b
    BY <2>3, <2>4
  <2>7. \A i \in 1 .. m : i = m \/ i \in 1 .. m - 1
    BY <1>4
  <2>8. \A i \in 1 .. m : s[i] # <<>> => f[m] # <<>>
    BY <2>2, <2>4, <2>5, <2>6, <2>7
  <2>9. ASSUME NEW i \in DOMAIN f[m] PROVE \E j \in 1 .. m : \E k \in DOMAIN s[j] : f[m][i] = s[j][k]
    <3>1. i \in DOMAIN (a \o b) /\ f[m][i] = (a \o b)[i]
      BY <2>6
    <3>2. CASE \E k \in DOMAIN b : (a \o b)[i] = b[k]
      BY <1>4, <2>4, <3>1, <3>2
    <3>3. CASE \E k \in DOMAIN a : (a \o b)[i] = a[k]
      <4>1. PICK k \in DOMAIN a : (a \o b)[i] = a[k]
        BY <3>3
      <4>2. PICK j \in 1 .. m - 1 : \E l \in DOMAIN s[j] : f[m - 1][k] = s[j][l]
        BY <2>2, <2>4
      <4>3. j \in 1 .. m
        BY <1>4
      <4> QED
        BY <2>4, <3>1, <4>1, <4>2, <4>3
    <3> QED
      BY <2>5, <3>1, <3>2, <3>3
  <2> QED
    BY <1>4, <2>5, <2>6, <2>8, <2>9
<1> QED
  BY <1>6, <1>7

LEMMA FlattenIs ==
  ASSUME NEW s
  PROVE  Len(s) # 0 =>
           FlattenSeq(s) = (CHOOSE f : f = [i \in 1 .. Len(s) |->
                                              IF i = 1 THEN s[i] ELSE f[i - 1] \o s[i]])[Len(s)]
<1> DEFINE f == CHOOSE f : f = [i \in 1 .. Len(s) |-> IF i = 1 THEN s[i] ELSE f[i - 1] \o s[i]]
<1>1. FlattenSeq(s) = IF Len(s) = 0 THEN s ELSE f[Len(s)]
  BY Zenon DEF FlattenSeq
<1> QED
  BY <1>1

(* FlattenSeq concatenates, in order. *)
LEMMA FlattenIsFlat ==
  ASSUME NEW S, NEW n \in Nat \ {0}, NEW s, s = [i \in 1 .. n |-> s[i]],
         \A i \in 1 .. n : s[i] \in Seq(S)
  PROVE  /\ FlattenSeq(s) \in Seq(S)
         /\ \A i \in 1 .. n : s[i] # <<>> => FlattenSeq(s) # <<>>
         /\ \A i \in DOMAIN FlattenSeq(s) : \E j \in 1 .. n : \E k \in DOMAIN s[j] : FlattenSeq(s)[i] = s[j][k]
<1>1. n = Len(s) /\ Len(s) # 0
  OBVIOUS
<1> DEFINE f == CHOOSE f : f = [i \in 1 .. Len(s) |-> IF i = 1 THEN s[i] ELSE f[i - 1] \o s[i]]
<1>2. FlattenSeq(s) = f[Len(s)]
  BY ONLY <1>1, FlattenIs, Zenon
<1>3. Concatenates(f, s, Len(s))
  <2>1. \E g : g = [i \in 1 .. Len(s) |-> IF i = 1 THEN s[i] ELSE g[i - 1] \o s[i]]
    BY <1>1, SolutionsExist DEF Concatenates
  <2> QED
    BY ONLY <2>1, Zenon DEF Concatenates
<1> HIDE DEF f
<1>4. PICK h : h = f
  OBVIOUS
<1>5. FlattenSeq(s) = h[n] /\ Concatenates(h, s, n)
  BY <1>1, <1>2, <1>3, <1>4
<1>6. /\ h[n] \in Seq(S)
      /\ \A i \in 1 .. n : s[i] # <<>> => h[n] # <<>>
      /\ \A i \in DOMAIN h[n] : \E j \in 1 .. n : \E k \in DOMAIN s[j] : h[n][i] = s[j][k]
  BY ONLY <1>5, SolutionIsFlat, n \in Nat \ {0}, \A i \in 1 .. n : s[i] \in Seq(S), SMTT(40)
<1> QED
  BY ONLY <1>5, <1>6

LEMMA FlattenFilled ==
  ASSUME NEW S, NEW n \in Nat \ {0}, NEW g \in [1 .. n -> Seq(S) \ {<<>>}]
  PROVE  FlattenSeq(g) \in Seq(S) \ {<<>>}
<1>1. g = [i \in 1 .. n |-> g[i]] /\ 1 \in 1 .. n
  OBVIOUS
<1>2. \A i \in 1 .. n : g[i] \in Seq(S) /\ g[i] # <<>>
  OBVIOUS
<1> QED
  BY ONLY <1>1, <1>2, FlattenIsFlat, n \in Nat \ {0}

(* The places of a stable sort are the positions, each taken once. *)
LEMMA PlacesAreApart ==
  ASSUME NEW n \in Nat, NEW keys \in [1 .. n -> Int], NEW i \in 1 .. n, NEW j \in 1 .. n,
         ComesBefore(keys, i, j)
  PROVE  SortedPlace(keys, i) < SortedPlace(keys, j)
<1> DEFINE before(k) == {x \in DOMAIN keys : ComesBefore(keys, x, k)}
<1>1. before(i) \subseteq before(j) /\ i \in before(j) /\ i \notin before(i)
  BY DEF ComesBefore
<1>2. \A k : IsFiniteSet(before(k)) /\ Cardinality(before(k)) \in Nat
  <2>1. IsFiniteSet(DOMAIN keys)
    BY FS_Interval
  <2> QED
    BY <2>1, FS_Subset, FS_CardinalityType
<1>3. Cardinality(before(i) \cup {i}) = Cardinality(before(i)) + 1
  BY <1>1, <1>2, FS_AddElement
<1>4. Cardinality(before(i) \cup {i}) <= Cardinality(before(j))
  <2>1. before(i) \cup {i} \in SUBSET before(j)
    BY <1>1
  <2> QED
    BY <1>2, <2>1, FS_Subset
<1>5. SortedPlace(keys, i) = 1 + Cardinality(before(i)) /\ SortedPlace(keys, j) = 1 + Cardinality(before(j))
  BY DEF SortedPlace
<1> HIDE DEF before
<1> QED
  BY <1>2, <1>3, <1>4, <1>5

LEMMA EveryPlaceIsTaken ==
  ASSUME NEW n \in Nat, NEW keys \in [1 .. n -> Int]
  PROVE  /\ \A b \in 1 .. n : SortedPlace(keys, b) \in 1 .. n
         /\ \A k \in 1 .. n : \E b \in 1 .. n : SortedPlace(keys, b) = k
<1>1. IsFiniteSet(1 .. n) /\ Cardinality(1 .. n) = n
  BY FS_Interval
<1> DEFINE place == [b \in 1 .. n |-> SortedPlace(keys, b)]
<1>2. ASSUME NEW b \in 1 .. n PROVE SortedPlace(keys, b) \in 1 .. n
  <2> DEFINE before == {a \in DOMAIN keys : ComesBefore(keys, a, b)}
  <2>1. before \in SUBSET ((1 .. n) \ {b})
    BY DEF ComesBefore
  <2>2. IsFiniteSet((1 .. n) \ {b}) /\ Cardinality((1 .. n) \ {b}) = n - 1
    BY <1>1, FS_RemoveElement
  <2>3. Cardinality(before) \in Nat /\ Cardinality(before) <= n - 1
    <3> HIDE DEF before
    <3> QED
      BY <2>1, <2>2, FS_Subset, FS_CardinalityType
  <2>4. SortedPlace(keys, b) = 1 + Cardinality(before)
    BY DEF SortedPlace
  <2> HIDE DEF before
  <2> QED
    BY <2>3, <2>4
<1>3. ASSUME NEW i \in 1 .. n, NEW j \in 1 .. n, SortedPlace(keys, i) = SortedPlace(keys, j) PROVE i = j
  <2>1. SortedPlace(keys, i) \in Int /\ SortedPlace(keys, j) \in Int
    BY <1>2
  <2>2. ~ ComesBefore(keys, i, j) /\ ~ ComesBefore(keys, j, i)
    BY <1>3, <2>1, PlacesAreApart
  <2> QED
    BY <2>2 DEF ComesBefore
<1>4. place \in Injection(1 .. n, 1 .. n)
  BY <1>2, <1>3 DEF Injection, IsInjective
<1>5. place \in Surjection(1 .. n, 1 .. n)
  <2> HIDE DEF place
  <2> QED
    BY <1>1, <1>4, FS_Injection
<1> QED
  BY <1>2, <1>5 DEF Surjection

LEMMA StableSortKeeps ==
  ASSUME NEW n \in Nat, NEW T, NEW s \in [1 .. n -> T], NEW keys \in [1 .. n -> Int]
  PROVE  StableSort(s, keys) \in [1 .. n -> T]
<1> DEFINE place == [b \in DOMAIN s |-> SortedPlace(keys, b)]
           chosen(k) == CHOOSE b \in DOMAIN s : place[b] = k
<1>1. ASSUME NEW k \in 1 .. n PROVE chosen(k) \in DOMAIN s
  <2>1. \E b \in DOMAIN s : place[b] = k
    BY EveryPlaceIsTaken
  <2> HIDE DEF place
  <2> QED
    BY <2>1
<1>2. StableSort(s, keys) = [k \in 1 .. n |-> s[chosen(k)]]
  BY DEF StableSort
<1> HIDE DEF chosen
<1> QED
  BY <1>1, <1>2

-----------------------------------------------------------------------------
(* Recursion on 0 .. n.  The value at i is in the set S[i] when each step  *)
(* leads from one of these sets to the next: then the function that a      *)
(* recursive definition chooses exists, and any such function has values   *)
(* in the sets.                                                            *)
Iterates(f, base, step, n) ==
  f = [i \in 0 .. n |-> IF i = 0 THEN base ELSE step[i][f[i - 1]]]

LEMMA IterationExists ==
  ASSUME NEW n \in Nat, NEW S, NEW base, NEW step, base \in S[0],
         \A i \in 1 .. n : \A x \in S[i - 1] : step[i][x] \in S[i]
  PROVE  \E f : Iterates(f, base, step, n) /\ \A i \in 0 .. n : f[i] \in S[i]
<1> DEFINE Solves(f, k) == Iterates(f, base, step, k) /\ \A i \in 0 .. k : f[i] \in S[i]
           A == {k \in Nat : \E f : Solves(f, k)}
<1>1. SUFFICES ASSUME n \notin A PROVE FALSE
  OBVIOUS
<1>2. PICK k \in 0 .. n : k \notin A /\ \A j \in 0 .. k - 1 : j \in A
  <2>1. \E i \in 0 .. n : i \notin A
    BY <1>1
  <2> HIDE DEF A
  <2> QED
    BY <2>1, NatInduct
<1>3. k \in Nat /\ ~ \E f : Solves(f, k)
  <2> HIDE DEF Solves
  <2> QED
    BY <1>2
<1>4. CASE k = 0
  <2> DEFINE g == [i \in 0 .. 0 |-> base]
  <2>1. g = [i \in 0 .. 0 |-> IF i = 0 THEN base ELSE step[i][g[i - 1]]]
    OBVIOUS
  <2>2. \A i \in 0 .. 0 : g[i] \in S[i]
    OBVIOUS
  <2> HIDE DEF g
  <2>3. Solves(g, 0)
    BY <2>1, <2>2 DEF Iterates
  <2> QED
    BY <1>3, <1>4, <2>3
<1>5. CASE k # 0
  <2>1. k - 1 \in 0 .. k - 1 /\ k \in 1 .. n
    BY <1>2, <1>3, <1>5
  <2>2. PICK f : Solves(f, k - 1)
    BY <1>2, <2>1
  <2> DEFINE g == [i \in 0 .. k |-> IF i = k THEN step[k][f[k - 1]] ELSE f[i]]
  <2>3. ASSUME NEW i \in 0 .. k
        PROVE  g[i] = (IF i = 0 THEN base ELSE step[i][g[i - 1]]) /\ g[i] \in S[i]
    <3>1. CASE i = k
      <4>1. g[k - 1] = f[k - 1] /\ f[k - 1] \in S[k - 1] /\ g[k] = step[k][f[k - 1]]
        <5>1. k - 1 \in 0 .. k /\ k - 1 # k /\ k \in 0 .. k
          BY <1>3, <1>5
        <5> QED
          BY <2>1, <2>2, <5>1
      <4> QED
        BY <1>5, <2>1, <3>1, <4>1
    <3>2. CASE i # k
      <4>1. i \in 0 .. k - 1
        BY <1>3, <3>2
      <4>2. f[i] = (IF i = 0 THEN base ELSE step[i][f[i - 1]]) /\ f[i] \in S[i]
        BY <2>2, <4>1 DEF Iterates
      <4>3. i # 0 => i - 1 \in 0 .. k /\ i - 1 # k
        BY <4>1, <1>3
      <4> QED
        BY <3>2, <4>2, <4>3
    <3> QED
      BY <3>1, <3>2
  <2>4. g = [i \in 0 .. k |-> IF i = 0 THEN base ELSE step[i][g[i - 1]]]
    <3>1. g = [i \in 0 .. k |-> g[i]]
      OBVIOUS
    <3> HIDE DEF g
    <3> QED
      BY <2>3, <3>1
  <2>5. Solves(g, k)
    <3> HIDE DEF g
    <3> QED
      BY <2>3, <2>4 DEF Iterates
  <2> QED
    BY <1>3, <2>5
<1> QED
  BY <1>4, <1>5

LEMMA IterationStays ==
  ASSUME NEW n \in Nat, NEW S, NEW f, f[0] \in S[0],
         \A i \in 1 .. n : f[i - 1] \in S[i - 1] => f[i] \in S[i]
  PROVE  \A i \in 0 .. n : f[i] \in S[i]
<1> DEFINE A == {i \in Nat : f[i] \in S[i]}
<1>1. SUFFICES ASSUME NEW m \in 0 .. n, m \notin A PROVE FALSE
  OBVIOUS
<1>2. PICK k \in 0 .. m : k \notin A /\ \A j \in 0 .. k - 1 : j \in A
  <2>1. m \in Nat /\ \E i \in 0 .. m : i \notin A
    BY <1>1
  <2> HIDE DEF A
  <2> QED
    BY <2>1, NatInduct
<1>3. k # 0 => k - 1 \in 0 .. k - 1 /\ k \in 1 .. n
  BY <1>2
<1> QED
  BY <1>2, <1>3

(* The first element of a list, and what is left of the list without it.  *)
LEMMA HeadAndTail ==
  ASSUME NEW S, NEW s \in Seq(S), s # <<>>
  PROVE  /\ Head(s) \in S /\ Tail(s) \in Seq(S) /\ Len(s) \in Nat \ {0}
         /\ Len(Tail(s)) = Len(s) - 1
OBVIOUS

(* A list of elements of a smaller set.                                    *)
LEMMA SequenceOf ==
  ASSUME NEW S, NEW T, NEW s \in Seq(S), \A i \in DOMAIN s : s[i] \in T
  PROVE  s \in Seq(T)
OBVIOUS

(* The concatenation of lists over S is one; a list and its indices.       *)
LEMMA FlattenTyped ==
  ASSUME NEW S, NEW n \in Nat, NEW g \in [1 .. n -> Seq(S)]
  PROVE  FlattenSeq(g) \in Seq(S)
<1>1. CASE n = 0
  <2>1. g = <<>>
    BY <1>1
  <2>2. Len(g) = 0
    BY <2>1
  <2>3. FlattenSeq(g) = IF Len(g) = 0 THEN g ELSE
          (CHOOSE f : f = [i \in 1 .. Len(g) |-> IF i = 1 THEN g[i] ELSE f[i - 1] \o g[i]])[Len(g)]
    BY ZenonT(60) DEF FlattenSeq
  <2>4. FlattenSeq(g) = <<>>
    BY ONLY <2>1, <2>2, <2>3
  <2> QED
    BY <2>4
<1>2. CASE n # 0
  <2>1. g = [i \in 1 .. n |-> g[i]] /\ n \in Nat \ {0}
    BY <1>2
  <2>2. \A i \in 1 .. n : g[i] \in Seq(S)
    OBVIOUS
  <2> QED
    BY ONLY <2>1, <2>2, FlattenIsFlat
<1> QED
  BY <1>1, <1>2

LEMMA DomainIs ==
  ASSUME NEW S, NEW s \in Seq(S)
  PROVE  \E n \in Nat : DOMAIN s = 1 .. n /\ \A i \in 1 .. n : s[i] \in S
<1>1. Len(s) \in Nat /\ DOMAIN s = 1 .. Len(s) /\ \A i \in 1 .. Len(s) : s[i] \in S
  OBVIOUS
<1> QED
  BY <1>1

=============================================================================

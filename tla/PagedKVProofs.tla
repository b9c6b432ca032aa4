--------------------------- MODULE PagedKVProofs ----------------------------
(***************************************************************************)
(* PagedKV for every page size, capacity and token type.                   *)
(*                                                                         *)
(* The argument: append pops from and truncate pushes on the back of the   *)
(* free list, so the list and the page table are always the two halves of  *)
(* one fixed order (StackDiscipline).  That makes the pages a partition,   *)
(* the slots of different tokens different, and the free list as long as   *)
(* the capacity can ask for.                                               *)
(*                                                                         *)
(* The second part proves PlanOptimizer, with the layers that DecoderLayer *)
(* computes; the models share no definition.                               *)
(***************************************************************************)
EXTENDS PagedKV, PlanOptimizer, RowPartitionProofs, SequenceTheorems, FiniteSetTheorems,
        WellFoundedInduction

(* The page table is the last PagesFor(length) pages from the top down,    *)
(* the free list the other pages from the bottom up.                       *)
StackDiscipline ==
  /\ pageTable = [i \in 1 .. PagesFor(length) |-> PageCount - i]
  /\ freePages = [i \in 1 .. PageCount - PagesFor(length) |-> i - 1]

IInv ==
  /\ length \in 0 .. Capacity
  /\ StackDiscipline
  /\ store \in [Slots -> Values \cup {Zero}]
  /\ status \in {"ok", "rejected"}
  /\ view \in Seq(Seq(Values \cup {Zero}))
  /\ EveryRowHasAKey

-----------------------------------------------------------------------------
LEMMA PagesForType == \A n \in Nat : PagesFor(n) \in Nat
BY PageTokensAssumption, DivNat DEF PagesFor

LEMMA PagesForMonotone ==
  ASSUME NEW m \in Nat, NEW n \in Nat, m <= n
  PROVE  PagesFor(m) <= PagesFor(n)
BY PageTokensAssumption, DivMonotone DEF PagesFor

LEMMA PagesForZero == PagesFor(0) = 0
BY PageTokensAssumption, DivUnique DEF PagesFor

(* The loop of append stops at the page of the last token, which is the    *)
(* last page those tokens need.                                            *)
LEMMA LastPage ==
  ASSUME NEW n \in Nat \ {0}
  PROVE  (n - 1) \div PageTokens + 1 = PagesFor(n)
<1>1. n - 1 \in Int /\ n + PageTokens - 1 = (n - 1) + PageTokens
  BY PageTokensAssumption
<1>2. ((n - 1) + PageTokens) \div PageTokens = (n - 1) \div PageTokens + 1
  BY <1>1, PageTokensAssumption, DivShift
<1> QED
  BY <1>1, <1>2 DEF PagesFor

(* Every token position below n lies in one of the PagesFor(n) pages. *)
LEMMA PageOfToken ==
  ASSUME NEW n \in Nat, NEW t \in 0 .. n - 1
  PROVE  t \div PageTokens + 1 \in 1 .. PagesFor(n)
<1>1. t \div PageTokens \in Nat
  BY PageTokensAssumption, DivNat
<1>2. t \div PageTokens <= (n - 1) \div PageTokens
  BY PageTokensAssumption, DivMonotone
<1>3. (n - 1) \div PageTokens + 1 = PagesFor(n)
  BY LastPage
<1> QED
  BY <1>1, <1>2, <1>3, PagesForType, PageTokensAssumption, DivNat

(* The page table that StackDiscipline gives for n tokens. *)
TableFor(n) == [i \in 1 .. PagesFor(n) |-> PageCount - i]

(* Tokens below n have a slot, and different tokens different slots. *)
LEMMA SlotType ==
  ASSUME NEW n \in 0 .. Capacity, NEW t \in 0 .. n - 1
  PROVE  Slot(TableFor(n), t) \in Slots
<1>1. t \div PageTokens + 1 \in 1 .. PagesFor(n)
  BY PageOfToken
<1>2. PagesFor(n) <= PageCount /\ PagesFor(n) \in Nat /\ PageCount \in Nat
  BY PagesForMonotone, PagesForType, CapacityAssumption DEF PageCount
<1>3. t % PageTokens \in 0 .. PageTokens - 1
  BY PageTokensAssumption, DivMod
<1>4. TableFor(n)[t \div PageTokens + 1] \in Pages
  BY <1>1, <1>2 DEF TableFor, Pages
<1> QED
  BY <1>3, <1>4 DEF Slot, Slots

LEMMA SlotInjective ==
  ASSUME NEW n \in 0 .. Capacity, NEW t \in 0 .. n - 1, NEW u \in 0 .. n - 1,
         Slot(TableFor(n), t) = Slot(TableFor(n), u)
  PROVE  t = u
<1>1. /\ t \div PageTokens + 1 \in 1 .. PagesFor(n)
      /\ u \div PageTokens + 1 \in 1 .. PagesFor(n)
  BY PageOfToken
<1>2. PagesFor(n) \in Nat /\ PageCount \in Nat
  BY PagesForType, CapacityAssumption DEF PageCount
<1>3. /\ TableFor(n)[t \div PageTokens + 1] = TableFor(n)[u \div PageTokens + 1]
      /\ t % PageTokens = u % PageTokens
  BY DEF Slot
<1>4. t \div PageTokens = u \div PageTokens
  BY <1>1, <1>2, <1>3, PageTokensAssumption, DivNat DEF TableFor
<1>5. /\ t = PageTokens * (t \div PageTokens) + (t % PageTokens)
      /\ u = PageTokens * (u \div PageTokens) + (u % PageTokens)
  BY PageTokensAssumption, DivMod
<1> QED
  BY <1>3, <1>4, <1>5

(* A shorter table is a prefix of a longer one. *)
LEMMA SlotStable ==
  ASSUME NEW m \in Nat, NEW n \in Nat, m <= n, NEW t \in 0 .. m - 1
  PROVE  Slot(TableFor(m), t) = Slot(TableFor(n), t)
<1>1. t \div PageTokens + 1 \in 1 .. PagesFor(m)
  BY PageOfToken
<1>2. t \div PageTokens + 1 \in 1 .. PagesFor(n)
  BY PageOfToken
<1> QED
  BY <1>1, <1>2 DEF Slot, TableFor

-----------------------------------------------------------------------------
(* A sequence given by its two parts is their concatenation. *)
LEMMA ConcatOf ==
  ASSUME NEW S, NEW f \in Seq(S), NEW g \in Seq(S), NEW h \in Seq(S),
         Len(h) = Len(f) + Len(g),
         \A i \in 1 .. Len(f) : h[i] = f[i],
         \A i \in 1 .. Len(g) : h[Len(f) + i] = g[i]
  PROVE  f \o g = h
<1> DEFINE a == Len(f)
           b == Len(g)
<1>1. a \in Nat /\ b \in Nat
  OBVIOUS
<1>2. /\ f \o g \in Seq(S)
      /\ Len(f \o g) = a + b
      /\ \A i \in 1 .. a + b : (f \o g)[i] = IF i <= a THEN f[i] ELSE g[i - a]
  BY ConcatProperties
<1>3. ASSUME NEW i \in 1 .. a + b PROVE (f \o g)[i] = h[i]
  <2>1. CASE i <= a
    BY <1>1, <1>2, <2>1
  <2>2. CASE ~(i <= a)
    <3>1. i - a \in 1 .. b /\ a + (i - a) = i
      BY <1>1, <2>2
    <3> QED
      BY <1>2, <2>2, <3>1
  <2> QED
    BY <2>1, <2>2
<1> QED
  BY <1>2, <1>3, SeqEqual

(* The same for the integer lists of pages, given as functions. *)
LEMMA ConcatIs ==
  ASSUME NEW a \in Nat, NEW b \in Nat,
         NEW f \in [1 .. a -> Int], NEW g \in [1 .. b -> Int], NEW h \in [1 .. a + b -> Int],
         \A i \in 1 .. a : h[i] = f[i],
         \A i \in 1 .. b : h[a + i] = g[i]
  PROVE  f \o g = h
<1> DEFINE S == Int
<1>1. /\ f \in Seq(S) /\ Len(f) = a
      /\ g \in Seq(S) /\ Len(g) = b
      /\ h \in Seq(S) /\ Len(h) = a + b
  OBVIOUS
<1> HIDE DEF S
<1>2. /\ Len(h) = Len(f) + Len(g)
      /\ \A i \in 1 .. Len(f) : h[i] = f[i]
      /\ \A i \in 1 .. Len(g) : h[Len(f) + i] = g[i]
  BY <1>1
<1> QED
  BY <1>1, <1>2, ConcatOf

LEMMA TableIsTableFor == IInv => pageTable = TableFor(length)
BY DEF IInv, StackDiscipline, TableFor

(* The free list always has the pages that a call within the capacity      *)
(* takes, so append runs to its end and the discipline is kept.            *)
LEMMA AppendEffect ==
  ASSUME IInv, NEW vs \in Batches, AppendTokens(vs)
  PROVE  /\ Len(vs) \in Nat \ {0} /\ vs \in Seq(Values)
         /\ length' = length + Len(vs) /\ length' \in 0 .. Capacity
         /\ StackDiscipline'
         /\ Write(vs)
         /\ status' = "ok" /\ view' = <<>>
<1> DEFINE n == Len(vs)
           short == Short(n)
           have == PagesFor(length)
           need == PagesFor(length + n)
<1>1. vs \in Seq(Values) /\ n \in Nat \ {0} /\ length \in Nat /\ length + n \in 0 .. Capacity
  BY CapacityAssumption DEF AppendTokens, Fits, Batches, IInv
<1>2. /\ have \in Nat /\ need \in Nat /\ PageCount \in Nat
      /\ have <= need /\ need <= PageCount
  <2>1. length + n \in Nat /\ length <= length + n /\ length + n <= Capacity /\ Capacity \in Nat
    BY <1>1, CapacityAssumption
  <2> QED
    BY <1>1, <2>1, PagesForType, PagesForMonotone DEF PageCount
<1>3. Len(pageTable) = have /\ Len(freePages) = PageCount - have
  BY <1>2 DEF IInv, StackDiscipline
<1>4. short = need - have
  <2>1. length + n \in Nat \ {0}
    BY <1>1
  <2> DEFINE m == length + n
  <2>2. m \in Nat \ {0} /\ length + n - 1 = m - 1
    BY <1>1, <2>1
  <2> HIDE DEF m
  <2>3. (m - 1) \div PageTokens + 1 = PagesFor(m)
    BY <2>2, LastPage
  <2>4. (m - 1) \div PageTokens \in Nat
    BY <2>2, PageTokensAssumption, DivNat
  <2>5. Short(n) = PagesFor(m) - have
    BY <1>2, <1>3, <2>2, <2>3, <2>4 DEF Short
  <2> QED
    BY <2>5 DEF m
<1>5. ~(short > Len(freePages))
  BY <1>2, <1>3, <1>4
<1>6. Allocate(short)
  BY <1>1, <1>2, <1>3, <1>4, <1>5 DEF AppendTokens
<1>7. Popped(short) = [i \in 1 .. need - have |-> PageCount - have - i]
  BY <1>2, <1>3, <1>4 DEF Popped, IInv, StackDiscipline
<1>8. pageTable' = [i \in 1 .. need |-> PageCount - i]
  <2> DEFINE first == [i \in 1 .. have |-> PageCount - i]
             second == [i \in 1 .. need - have |-> PageCount - have - i]
  <2>1. pageTable' = first \o second
    BY <1>6, <1>7 DEF Allocate, IInv, StackDiscipline
  <2> DEFINE whole == [i \in 1 .. need |-> PageCount - i]
  <2>2. /\ have \in Nat /\ need - have \in Nat /\ have + (need - have) = need
        /\ first \in [1 .. have -> Int]
        /\ second \in [1 .. need - have -> Int]
        /\ whole \in [1 .. have + (need - have) -> Int]
        /\ \A i \in 1 .. have : whole[i] = first[i]
        /\ \A i \in 1 .. need - have : whole[have + i] = second[i]
    BY <1>2
  <2> HIDE DEF first, second, whole
  <2>3. first \o second = whole
    BY <2>2, ConcatIs
  <2> QED
    BY <2>1, <2>3 DEF whole
<1>9. freePages' = [i \in 1 .. PageCount - need |-> i - 1]
  BY <1>2, <1>3, <1>4, <1>6 DEF Allocate, IInv, StackDiscipline
<1>10. length' = length + n /\ status' = "ok" /\ view' = <<>> /\ Write(vs)
  BY <1>5 DEF AppendTokens
<1> HIDE DEF short, have, need
<1> QED
  BY <1>1, <1>8, <1>9, <1>10 DEF StackDiscipline, need

LEMMA TruncateEffect ==
  ASSUME IInv, NEW n \in 0 .. Capacity, TruncateTo(n)
  PROVE  n \in 0 .. length /\ length' = n /\ StackDiscipline'
<1> DEFINE have == PagesFor(length)
           kept == PagesFor(n)
<1>1. n \in 0 .. length /\ length' = n /\ length \in Nat
  BY CapacityAssumption DEF TruncateTo, IInv
<1>2. have \in Nat /\ kept \in Nat /\ PageCount \in Nat /\ kept <= have /\ have <= PageCount
  <2>1. n \in Nat /\ length \in Nat /\ Capacity \in Nat /\ n <= length /\ length <= Capacity
    BY <1>1, CapacityAssumption DEF IInv
  <2> QED
    BY ONLY <2>1, PagesForType, PagesForMonotone DEF PageCount
<1>3. Retained(n) = kept
  BY PagesForZero DEF Retained
<1>4. pageTable' = [i \in 1 .. kept |-> PageCount - i]
  BY <1>2, <1>3 DEF TruncateTo, IInv, StackDiscipline
<1>5. [i \in 1 .. Len(pageTable) - kept |-> pageTable[Len(pageTable) + 1 - i]]
        = [i \in 1 .. have - kept |-> PageCount - have + i - 1]
  BY <1>2 DEF IInv, StackDiscipline
<1>6. freePages' = [i \in 1 .. PageCount - kept |-> i - 1]
  <2> DEFINE first == [i \in 1 .. PageCount - have |-> i - 1]
             second == [i \in 1 .. have - kept |-> PageCount - have + i - 1]
  <2>1. freePages' = first \o second
    BY <1>3, <1>5 DEF TruncateTo, IInv, StackDiscipline
  <2> DEFINE whole == [i \in 1 .. PageCount - kept |-> i - 1]
             a == PageCount - have
             b == have - kept
  <2>2. a \in Nat /\ b \in Nat /\ a + b = PageCount - kept
    BY <1>2
  <2>3. /\ first \in [1 .. a -> Int]
        /\ second \in [1 .. b -> Int]
        /\ whole \in [1 .. a + b -> Int]
    BY <1>2
  <2>4. \A i \in 1 .. a : whole[i] = first[i]
    BY <1>2
  <2>5. \A i \in 1 .. b : whole[a + i] = second[i]
    <3> TAKE i \in 1 .. b
    <3>1. a + i \in 1 .. PageCount - kept /\ whole[a + i] = (a + i) - 1
      BY <1>2
    <3> QED
      BY <1>2, <3>1
  <2> HIDE DEF first, second, whole, a, b
  <2>6. first \o second = whole
    BY <2>2, <2>3, <2>4, <2>5, ConcatIs
  <2> QED
    BY <2>1, <2>6 DEF whole
<1> QED
  BY <1>1, <1>4, <1>6 DEF StackDiscipline

(* Pages outside the page table are all on the free list already. *)
LEMMA ReleaseEffect ==
  ASSUME IInv, NEW page \in -1 .. PageCount, ReleasePage(page)
  PROVE  /\ UNCHANGED <<length, pageTable, freePages, store>>
         /\ status' \in {"ok", "rejected"} /\ view' = <<>>
<1>1. CASE page \notin Pages \/ page \in InUse
  BY <1>1 DEF ReleasePage, Reject
<1>2. CASE page \in Pages /\ page \notin InUse
  <2> DEFINE have == PagesFor(length)
  <2>1. have \in Nat /\ PageCount \in Nat /\ have <= PageCount
    <3>1. length \in Nat /\ Capacity \in Nat /\ length <= Capacity
      BY CapacityAssumption DEF IInv
    <3> QED
      BY ONLY <3>1, PagesForType, PagesForMonotone DEF PageCount
  <2>2. page < PageCount - have
    <3>1. SUFFICES ASSUME page >= PageCount - have PROVE FALSE
      BY <2>1 DEF Pages
    <3>2. PageCount - page \in 1 .. have /\ PageCount - (PageCount - page) = page
      BY <1>2, <2>1, <3>1 DEF Pages
    <3> QED
      BY <1>2, <3>2 DEF InUse, IInv, StackDiscipline
  <2>3. page + 1 \in DOMAIN freePages /\ freePages[page + 1] = page
    BY <1>2, <2>1, <2>2 DEF IInv, StackDiscipline, Pages
  <2>4. page \in Free
    BY <2>3 DEF Free
  <2> QED
    BY <1>2, <2>4 DEF ReleasePage
<1> QED
  BY <1>1, <1>2

LEMMA TokensType == IInv => Tokens \in Seq(Values \cup {Zero}) /\ Len(Tokens) = length
<1> SUFFICES ASSUME IInv PROVE /\ Tokens \in Seq(Values \cup {Zero})
                               /\ Len(Tokens) = length
  OBVIOUS
<1>1. length \in 0 .. Capacity /\ length \in Nat
  BY CapacityAssumption DEF IInv
<1>2. ASSUME NEW i \in 1 .. length PROVE Token(i) \in Values \cup {Zero}
  <2>1. i - 1 \in 0 .. length - 1
    BY <1>1
  <2>2. Slot(pageTable, i - 1) \in Slots
    BY <1>1, <2>1, SlotType, TableIsTableFor
  <2> QED
    BY <2>2 DEF Token, IInv
<1> QED
  BY <1>1, <1>2 DEF Tokens

(* A row an accepted query reads is a non-empty list of tokens. *)
LEMMA RowType ==
  ASSUME IInv, NEW q \in Queries, NEW causal \in BOOLEAN, Accepts(q, causal), NEW i \in 1 .. q
  PROVE  /\ VisibleRow(q, causal, i) \in Seq(Values \cup {Zero})
         /\ VisibleRow(q, causal, i) # <<>>
<1>1. length \in Nat \ {0} /\ q \in Nat /\ (causal => q <= length)
  BY CapacityAssumption, MaxQueryAssumption DEF Accepts, IInv, Queries
<1>2. Tokens \in Seq(Values \cup {Zero}) /\ Len(Tokens) = length
  BY TokensType
<1>3. CASE causal
  <2>1. length - q + i \in 1 .. length
    BY <1>1, <1>3
  <2>2. /\ SubSeq(Tokens, 1, length - q + i) \in Seq(Values \cup {Zero})
        /\ Len(SubSeq(Tokens, 1, length - q + i)) = length - q + i
    BY <1>1, <1>2, <2>1
  <2> DEFINE row == SubSeq(Tokens, 1, length - q + i)
  <2>3. row \in Seq(Values \cup {Zero}) /\ Len(row) # 0
    BY <2>1, <2>2
  <2> HIDE DEF row
  <2>4. row # <<>>
    BY <2>3, EmptySeq
  <2> QED
    BY <1>3, <2>3, <2>4 DEF VisibleRow, row
<1>4. CASE ~causal
  BY <1>1, <1>2, <1>4 DEF VisibleRow
<1> QED
  BY <1>3, <1>4

-----------------------------------------------------------------------------
LEMMA InitIInv == Init => IInv
<1> SUFFICES ASSUME Init PROVE IInv
  OBVIOUS
<1>1. PagesFor(length) = 0 /\ PageCount \in Nat
  BY PagesForZero, PagesForType, CapacityAssumption DEF Init, PageCount
<1>2. StackDiscipline
  BY <1>1 DEF Init, StackDiscipline
<1>3. view \in Seq(Seq(Values \cup {Zero})) /\ EveryRowHasAKey
  BY DEF Init, EveryRowHasAKey
<1> QED
  BY <1>2, <1>3, CapacityAssumption DEF Init, IInv

(* What a call leaves when it moves nothing. *)
LEMMA UnmovedIInv ==
  ASSUME IInv, UNCHANGED <<length, pageTable, freePages, store>>,
         status' \in {"ok", "rejected"}, view' \in Seq(Seq(Values \cup {Zero})),
         \A i \in DOMAIN view' : view'[i] # <<>>
  PROVE  IInv'
BY DEF IInv, StackDiscipline, EveryRowHasAKey

LEMMA EmptyView == /\ <<>> \in Seq(Seq(Values \cup {Zero}))
                   /\ \A i \in DOMAIN <<>> : <<>>[i] # <<>>
OBVIOUS

LEMMA RejectIInv == IInv /\ Reject => IInv'
BY UnmovedIInv, EmptyView DEF Reject

LEMMA StepIInv == IInv /\ [Next]_vars => IInv'
<1> SUFFICES ASSUME IInv, [Next]_vars PROVE IInv'
  OBVIOUS
<1>1. ASSUME NEW vs \in Batches, AppendTokens(vs) PROVE IInv'
  <2>1. /\ vs \in Seq(Values) /\ length' \in 0 .. Capacity /\ StackDiscipline' /\ Write(vs)
        /\ status' = "ok" /\ view' = <<>>
    BY <1>1, AppendEffect
  <2>2. store' \in [Slots -> Values \cup {Zero}]
    <3>1. \A t \in 1 .. Len(vs) : vs[t] \in Values
      BY <2>1
    <3>2. ASSUME NEW s \in Slots,
                 \E t \in 1 .. Len(vs) : Slot(pageTable', length + t - 1) = s
          PROVE  vs[CHOOSE t \in 1 .. Len(vs) : Slot(pageTable', length + t - 1) = s] \in Values
      BY <3>1, <3>2
    <3> QED
      BY <2>1, <3>2 DEF Write, IInv
  <2> QED
    BY <2>1, <2>2, EmptyView DEF IInv, EveryRowHasAKey
<1>2. ASSUME NEW n \in 0 .. Capacity, TruncateTo(n) PROVE IInv'
  <2>1. length' \in 0 .. Capacity /\ StackDiscipline'
    BY <1>2, TruncateEffect
  <2>2. store' = store /\ status' = "ok" /\ view' = <<>>
    BY <1>2 DEF TruncateTo
  <2> QED
    BY <2>1, <2>2, EmptyView DEF IInv, EveryRowHasAKey
<1>3. ASSUME NEW page \in -1 .. PageCount, ReleasePage(page) PROVE IInv'
  BY <1>3, ReleaseEffect, UnmovedIInv, EmptyView
<1>4. CASE GatherFlat
  <2>1. CASE length <= 0
    BY <1>4, <2>1, RejectIInv DEF GatherFlat
  <2>2. CASE ~(length <= 0)
    <3>1. Tokens \in Seq(Values \cup {Zero}) /\ Len(Tokens) # 0
      BY <2>2, TokensType DEF IInv
    <3>2. Tokens # <<>>
      BY <3>1, EmptySeq
    <3>3. /\ <<Tokens>> \in Seq(Seq(Values \cup {Zero}))
          /\ \A i \in DOMAIN <<Tokens>> : <<Tokens>>[i] # <<>>
      BY <3>1, <3>2
    <3> QED
      BY <1>4, <2>2, <3>3, UnmovedIInv DEF GatherFlat, Reads
  <2> QED
    BY <2>1, <2>2
<1>5. ASSUME NEW q \in Queries, NEW causal \in BOOLEAN, AttendPaged(q, causal) PROVE IInv'
  <2>1. CASE Accepts(q, causal)
    <3> DEFINE visible == [i \in 1 .. q |-> VisibleRow(q, causal, i)]
    <3>1. q \in Nat
      BY MaxQueryAssumption DEF Queries
    <3>2. \A i \in 1 .. q : /\ VisibleRow(q, causal, i) \in Seq(Values \cup {Zero})
                            /\ VisibleRow(q, causal, i) # <<>>
      BY <2>1, RowType
    <3>3. visible \in Seq(Seq(Values \cup {Zero})) /\ \A i \in DOMAIN visible : visible[i] # <<>>
      BY <3>1, <3>2
    <3> QED
      BY <1>5, <2>1, <3>3, UnmovedIInv DEF AttendPaged, Reads
  <2>2. CASE ~Accepts(q, causal)
    BY <1>5, <2>2, RejectIInv DEF AttendPaged
  <2> QED
    BY <2>1, <2>2
<1>6. CASE Reject
  BY <1>6, RejectIInv
<1>7. CASE UNCHANGED vars
  BY <1>7 DEF vars, IInv, StackDiscipline, EveryRowHasAKey
<1> QED
  BY <1>1, <1>2, <1>3, <1>4, <1>5, <1>6, <1>7 DEF Next, RejectAppend, RejectTruncate

LEMMA Invariance == Spec => []IInv
BY InitIInv, StepIInv, PTL DEF Spec

-----------------------------------------------------------------------------
(* The facts about the two lists that StackDiscipline carries. *)
LEMMA DisciplineFacts ==
  ASSUME IInv
  PROVE  /\ PagesFor(length) \in 0 .. PageCount /\ PageCount \in Nat
         /\ Len(pageTable) = PagesFor(length)
         /\ pageTable \in Seq(Pages) /\ freePages \in Seq(Pages)
<1> DEFINE have == PagesFor(length)
<1>1. have \in Nat /\ PageCount \in Nat /\ have <= PageCount
  BY PagesForType, PagesForMonotone, CapacityAssumption DEF PageCount, IInv
<1>2. /\ pageTable = [i \in 1 .. have |-> PageCount - i]
      /\ freePages = [i \in 1 .. PageCount - have |-> i - 1]
  BY DEF IInv, StackDiscipline
<1> HIDE DEF have
<1>3. pageTable \in [1 .. have -> Pages]
  BY <1>1, <1>2 DEF Pages
<1>4. pageTable \in Seq(Pages) /\ Len(pageTable) = have
  BY <1>1, <1>3
<1>5. freePages \in [1 .. PageCount - have -> Pages]
  BY <1>1, <1>2 DEF Pages
<1>6. freePages \in Seq(Pages)
  BY <1>1, <1>5
<1> QED
  BY <1>1, <1>4, <1>6 DEF have

(* Types hold, and no call ends with the allocator exhausted. *)
THEOREM TypeCorrect == Spec => []TypeOK
<1>1. IInv => TypeOK
  BY DisciplineFacts DEF IInv, TypeOK
<1> QED
  BY <1>1, Invariance, PTL

(* The runtime_error "paged KV page allocator exhausted" of                *)
(* append_paged_kv is unreachable.                                         *)
THEOREM AllocatorCorrect == Spec => []AllocatorSuffices
<1>1. IInv => AllocatorSuffices
  BY DEF IInv, AllocatorSuffices
<1> QED
  BY <1>1, Invariance, PTL

(* The page table has exactly the pages that length needs. *)
THEOREM TableCorrect == Spec => []TableFitsLength
<1>1. IInv => TableFitsLength
  BY DisciplineFacts DEF TableFitsLength
<1> QED
  BY <1>1, Invariance, PTL

(* Page table and free list hold every page exactly once between them. *)
THEOREM PartitionCorrect == Spec => []PagesPartitioned
<1>1. IInv => PagesPartitioned
  <2> SUFFICES ASSUME IInv PROVE PagesPartitioned
    OBVIOUS
  <2> DEFINE have == PagesFor(length)
  <2>1. have \in 0 .. PageCount /\ PageCount \in Nat
    BY DisciplineFacts
  <2>2. InUse = (PageCount - have) .. (PageCount - 1)
    <3>1. \A i \in 1 .. have : PageCount - i \in (PageCount - have) .. (PageCount - 1)
      BY <2>1
    <3>2. \A p \in (PageCount - have) .. (PageCount - 1) :
            PageCount - p \in 1 .. have /\ PageCount - (PageCount - p) = p
      BY <2>1
    <3> QED
      BY <3>1, <3>2 DEF InUse, IInv, StackDiscipline
  <2>3. Free = 0 .. (PageCount - have - 1)
    <3>1. \A i \in 1 .. PageCount - have : i - 1 \in 0 .. (PageCount - have - 1)
      BY <2>1
    <3>2. \A p \in 0 .. (PageCount - have - 1) :
            p + 1 \in 1 .. PageCount - have /\ (p + 1) - 1 = p
      BY <2>1
    <3> QED
      BY <3>1, <3>2 DEF Free, IInv, StackDiscipline
  <2>4. InUse \cup Free = Pages /\ InUse \cap Free = {}
    BY <2>1, <2>2, <2>3 DEF Pages
  <2>5. \A i, j \in DOMAIN pageTable : pageTable[i] = pageTable[j] => i = j
    BY <2>1 DEF IInv, StackDiscipline
  <2>6. \A i, j \in DOMAIN freePages : freePages[i] = freePages[j] => i = j
    BY <2>1 DEF IInv, StackDiscipline
  <2> QED
    BY <2>4, <2>5, <2>6 DEF PagesPartitioned
<1> QED
  BY <1>1, Invariance, PTL

(* No accepted attention row is empty. *)
THEOREM RowsCorrect == Spec => []EveryRowHasAKey
<1>1. IInv => EveryRowHasAKey
  BY DEF IInv
<1> QED
  BY <1>1, Invariance, PTL

-----------------------------------------------------------------------------
(* The refinement: what each call does to the tokens.                      *)

(* A call that moves nothing leaves the tokens. *)
LEMMA TokensStay ==
  ASSUME UNCHANGED <<length, pageTable, store>>
  PROVE  Tokens' = Tokens
BY DEF Tokens, Token, Slot

(* Append leaves the slots of the old tokens alone, and writes each new    *)
(* token into a slot of its own.                                           *)
LEMMA AppendExtends ==
  ASSUME IInv, NEW vs \in Batches, AppendTokens(vs)
  PROVE  Tokens' = Tokens \o vs
<1> DEFINE n == Len(vs)
<1>1. /\ n \in Nat \ {0} /\ vs \in Seq(Values) /\ Write(vs)
      /\ length' = length + n /\ length' \in 0 .. Capacity /\ length \in Nat
      /\ pageTable' = TableFor(length + n) /\ pageTable = TableFor(length)
  BY AppendEffect, TableIsTableFor, CapacityAssumption DEF StackDiscipline, TableFor, IInv
<1>3. ASSUME NEW i \in 1 .. length PROVE Tokens'[i] = Tokens[i]
  <2>1. i - 1 \in 0 .. length - 1 /\ i - 1 \in 0 .. (length + n) - 1 /\ i \in 1 .. length + n
    BY <1>1
  <2>2. Slot(pageTable', i - 1) = Slot(pageTable, i - 1)
    BY <1>1, <2>1, SlotStable
  <2>3. Slot(pageTable', i - 1) \in Slots
    BY <1>1, <2>1, SlotType
  <2>4. ~ \E t \in 1 .. n : Slot(pageTable', length + t - 1) = Slot(pageTable', i - 1)
    <3>1. SUFFICES ASSUME NEW t \in 1 .. n,
                          Slot(pageTable', length + t - 1) = Slot(pageTable', i - 1)
                   PROVE  FALSE
      OBVIOUS
    <3>2. length + t - 1 \in 0 .. (length + n) - 1
      BY <1>1
    <3>3. length + t - 1 = i - 1
      BY <1>1, <2>1, <3>1, <3>2, SlotInjective
    <3> QED
      BY <1>1, <3>3
  <2>5. store'[Slot(pageTable', i - 1)] = store[Slot(pageTable', i - 1)]
    BY <1>1, <2>3, <2>4 DEF Write
  <2> QED
    BY <1>1, <2>1, <2>2, <2>5 DEF Tokens, Token
<1>4. ASSUME NEW i \in 1 .. n PROVE Tokens'[length + i] = vs[i]
  <2>1. length + i \in 1 .. length + n /\ length + i - 1 \in 0 .. (length + n) - 1
    BY <1>1
  <2> DEFINE slot == Slot(pageTable', length + i - 1)
             Here(t) == Slot(pageTable', length + t - 1) = slot
  <2>2. slot \in Slots
    BY <1>1, <2>1, SlotType
  <2>3. ASSUME NEW t \in 1 .. n, Here(t) PROVE t = i
    <3>1. length + t - 1 \in 0 .. (length + n) - 1
      BY <1>1
    <3>2. length + t - 1 = length + i - 1
      BY <1>1, <2>1, <2>3, <3>1, SlotInjective
    <3> QED
      BY <1>1, <3>2
  <2>4. Here(i)
    OBVIOUS
  <2>5. store'[slot] = vs[CHOOSE t \in 1 .. n : Here(t)]
    BY <1>1, <2>2, <2>4 DEF Write
  <2>6. (CHOOSE t \in 1 .. n : Here(t)) = i
    BY <2>3, <2>4
  <2>7. Tokens'[length + i] = store'[Slot(pageTable', (length + i) - 1)]
    BY <1>1, <2>1 DEF Tokens, Token
  <2> HIDE DEF Here
  <2>8. Tokens'[length + i] = store'[slot]
    BY <2>7, <1>1
  <2> QED
    BY <2>5, <2>6, <2>8
<1> DEFINE All == Values \cup {Zero}
<1>5. Tokens \in [1 .. length -> All] /\ vs \in [1 .. n -> All]
  BY <1>1, TokensType
<1>6. Tokens' \in [1 .. length + n -> All]
  <2>1. ASSUME NEW i \in 1 .. length + n PROVE Tokens'[i] \in All
    <3>1. CASE i <= length
      BY <1>1, <1>3, <1>5, <3>1
    <3>2. CASE ~(i <= length)
      <4>1. i - length \in 1 .. n /\ length + (i - length) = i
        BY <1>1, <3>2
      <4>2. Tokens'[i] = vs[i - length]
        BY <1>4, <4>1
      <4> QED
        BY <1>5, <4>1, <4>2
    <3> QED
      BY <3>1, <3>2
  <2>2. Tokens' = [i \in 1 .. length + n |-> Tokens'[i]]
    BY <1>1 DEF Tokens
  <2> QED
    BY <2>1, <2>2
<1> DEFINE old == Tokens
           new == Tokens'
<1>7. old \in [1 .. length -> All] /\ vs \in [1 .. n -> All] /\ new \in [1 .. length + n -> All]
  BY <1>5, <1>6
<1> HIDE DEF old, new, All
<1>8. /\ old \in Seq(All) /\ Len(old) = length
      /\ vs \in Seq(All)
      /\ new \in Seq(All) /\ Len(new) = length + n
  <2>1. old \in Seq(All) /\ Len(old) = length
    BY <1>1, <1>7
  <2>2. vs \in Seq(All)
    BY <1>1, <1>7
  <2>3. length + n \in Nat
    BY <1>1
  <2>4. new \in Seq(All) /\ Len(new) = length + n
    BY <1>7, <2>3
  <2> QED
    BY <2>1, <2>2, <2>4
<1>9. /\ \A i \in 1 .. Len(old) : new[i] = old[i]
      /\ \A i \in 1 .. Len(vs) : new[Len(old) + i] = vs[i]
  BY <1>3, <1>4, <1>8 DEF old, new
<1>10. old \o vs = new
  BY <1>8, <1>9, ConcatOf
<1> QED
  BY <1>10 DEF old, new

(* Truncate keeps the slots of the tokens it keeps. *)
LEMMA TruncateCuts ==
  ASSUME IInv, NEW n \in 0 .. Capacity, TruncateTo(n)
  PROVE  Tokens' = SubSeq(Tokens, 1, n)
<1>1. /\ n \in Nat /\ n <= length /\ length \in Nat /\ length' = n /\ store' = store
      /\ pageTable' = TableFor(n) /\ pageTable = TableFor(length)
  <2>1. n \in 0 .. length /\ length' = n /\ StackDiscipline'
    BY TruncateEffect
  <2>2. length \in Nat /\ pageTable = TableFor(length)
    BY TableIsTableFor, CapacityAssumption DEF IInv
  <2>3. store' = store
    BY DEF TruncateTo
  <2> QED
    BY <2>1, <2>2, <2>3 DEF StackDiscipline, TableFor
<1>2. ASSUME NEW i \in 1 .. n PROVE Tokens'[i] = Tokens[i]
  <2>1. i - 1 \in 0 .. n - 1 /\ i \in 1 .. length
    BY <1>1
  <2>2. Slot(pageTable', i - 1) = Slot(pageTable, i - 1)
    BY <1>1, <2>1, SlotStable
  <2> QED
    BY <1>1, <2>1, <2>2 DEF Tokens, Token
<1>3. Tokens' = [i \in 1 .. n |-> Tokens'[i]]
  BY <1>1 DEF Tokens
<1>4. SubSeq(Tokens, 1, n) = [i \in 1 .. n |-> Tokens[i]]
  BY <1>1, TokensType
<1> QED
  BY <1>2, <1>3, <1>4

LEMMA NoEffectRefines ==
  ASSUME UNCHANGED <<length, pageTable, store>>, status' \in {"ok", "rejected"}, view' = <<>>
  PROVE  KV!Next
BY TokensStay DEF KV!Next, KV!NoEffect

(* A rejected call is a Reject of the sequence. *)
LEMMA RejectRefines == Reject => KV!Next
BY NoEffectRefines DEF Reject

LEMMA InitRefines == Init => KV!Init
<1> SUFFICES ASSUME Init PROVE Tokens = <<>>
  BY DEF Init, KV!Init
<1> QED
  BY DEF Init, Tokens

(* Each call maps to the operation of KVSequence that it promises. *)
LEMMA StepRefines == IInv /\ [Next]_vars => [KV!Next]_(KV!kvvars)
<1> SUFFICES ASSUME IInv, [Next]_vars PROVE [KV!Next]_(KV!kvvars)
  OBVIOUS
<1>1. ASSUME NEW vs \in Batches, AppendTokens(vs) PROVE KV!Next
  <2>1. /\ Len(vs) > 0 /\ Len(Tokens) + Len(vs) <= Capacity
        /\ status' = "ok" /\ view' = <<>>
    <3>1. /\ Len(vs) \in Nat \ {0} /\ length + Len(vs) \in 0 .. Capacity
          /\ status' = "ok" /\ view' = <<>>
      BY <1>1, AppendEffect
    <3> QED
      BY <3>1, TokensType, CapacityAssumption
  <2>2. Tokens' = Tokens \o vs
    BY <1>1, AppendExtends
  <2> QED
    BY <2>1, <2>2 DEF KV!Next, KV!Extend
<1>2. ASSUME NEW n \in 0 .. Capacity, TruncateTo(n) PROVE KV!Next
  <2>1. n \in 0 .. Len(Tokens) /\ status' = "ok" /\ view' = <<>>
    BY <1>2, TruncateEffect, TokensType DEF TruncateTo
  <2>2. Tokens' = SubSeq(Tokens, 1, n)
    BY <1>2, TruncateCuts
  <2> QED
    BY <2>1, <2>2 DEF KV!Next, KV!Truncate
<1>3. ASSUME NEW page \in -1 .. PageCount, ReleasePage(page) PROVE KV!Next
  BY <1>3, ReleaseEffect, NoEffectRefines
<1>4. CASE GatherFlat
  <2>1. CASE length <= 0
    BY <1>4, <2>1, RejectRefines DEF GatherFlat
  <2>2. CASE ~(length <= 0)
    <3>1. Reads(<<Tokens>>) /\ Len(Tokens) > 0
      BY <1>4, <2>2, TokensType, CapacityAssumption DEF GatherFlat, IInv
    <3> QED
      BY <3>1, TokensStay DEF Reads, KV!Next, KV!Gather
  <2> QED
    BY <2>1, <2>2
<1>5. ASSUME NEW q \in Queries, NEW causal \in BOOLEAN, AttendPaged(q, causal) PROVE KV!Next
  <2>1. CASE Accepts(q, causal)
    <3>1. Len(Tokens) \in 1 .. SequenceKV /\ (causal => q <= Len(Tokens))
      BY <2>1, TokensType, CapacityAssumption, SequenceKVAssumption DEF Accepts, IInv
    <3>2. Reads([i \in 1 .. q |-> VisibleRow(q, causal, i)])
      BY <1>5, <2>1 DEF AttendPaged
    <3>3. \A i \in 1 .. q : VisibleRow(q, causal, i) = KV!RowOf(q, causal, i)
      BY TokensType DEF VisibleRow, KV!RowOf
    <3>4. KV!Attend(q, causal)
      BY <3>1, <3>2, <3>3, TokensStay DEF Reads, KV!Attend
    <3> QED
      BY <3>4 DEF KV!Next
  <2>2. CASE ~Accepts(q, causal)
    BY <1>5, <2>2, RejectRefines DEF AttendPaged
  <2> QED
    BY <2>1, <2>2
<1>6. CASE Reject
  BY <1>6, RejectRefines
<1>7. CASE UNCHANGED vars
  BY <1>7, TokensStay DEF vars, KV!kvvars
<1> QED
  BY <1>1, <1>2, <1>3, <1>4, <1>5, <1>6, <1>7 DEF Next, RejectAppend, RejectTruncate

(* For every page size and capacity the paged cache is a plain sequence of *)
(* tokens: neither the order in which pages are recycled nor the data left *)
(* in them shows in what gather and attention read.                        *)
THEOREM RefinesKVSequence == Spec => ImplementsKVSequence
<1>1. ImplementsKVSequence <=> KV!Init /\ [][KV!Next]_(KV!kvvars)
  BY DEF ImplementsKVSequence, KV!Spec
<1> QED
  BY <1>1, InitRefines, StepRefines, Invariance, PTL DEF Spec

-----------------------------------------------------------------------------
(* PlanOptimizer, for every set of supported calls and of latencies.       *)
(*                                                                         *)
(* The argument: the plan is always compile() of some policy and attention *)
(* plan of the right type (PlanIsCompiled), the tuner has measured its     *)
(* rows up to one place (TunerInv), and the winner is one of the measured  *)
(* rows whose policy the plan has (OptimizerInv).  What a plan computes is *)
(* not looked at.                                                          *)

-----------------------------------------------------------------------------
(* Every compiled plan holds the canonical graph of the configuration.     *)
GraphIsCanonical == plan # None => plan.graph = CanonicalGraph(call.config)

LEMMA CompiledGraph ==
  \A c, t, p, a : Compile(c, t, p, a).graph = CanonicalGraph(c)
BY DEF Compile

LEMMA CompiledFields ==
  \A c, t, p, a : /\ Compile(c, t, p, a) # <<>>
                  /\ Compile(c, t, p, a).graph = CanonicalGraph(c)
                  /\ Compile(c, t, p, a).policy = p
                  /\ Compile(c, t, p, a).attention = CompiledPlan(Shape(c), t, a)
<1> TAKE c, t, p, a
<1> DEFINE r == Compile(c, t, p, a)
<1>1. DOMAIN r = {"policy", "attention", "graph", "workspace"}
  BY DEF Compile
<1>2. "policy" \notin DOMAIN <<>>
  OBVIOUS
<1>3. r # <<>>
  <2> HIDE DEF r
  <2> QED
    BY <1>1, <1>2
<1> QED
  BY <1>3 DEF Compile

LEMMA GraphStep == GraphIsCanonical /\ [PlanNext]_planVars => GraphIsCanonical'
<1> SUFFICES ASSUME GraphIsCanonical, [PlanNext]_planVars PROVE GraphIsCanonical'
  OBVIOUS
<1>1. call' = call
  BY DEF PlanNext, planVars, RejectGraph, CompileOnly, CompilePlain, BeginTuning, Rank, Conclude,
         Execute, ExecuteQuantized, RejectQuantized, Screen, Final, MeasureBaseline,
         MeasureCandidate, Confirm
<1>2. plan' = plan \/ \E p, a : plan' = Compile(call.config, call.target, p, a)
  BY DEF PlanNext, planVars, RejectGraph, CompileOnly, CompilePlain, BeginTuning, Rank, Conclude,
         Execute, ExecuteQuantized, RejectQuantized, Screen, Final, MeasureBaseline,
         MeasureCandidate, Confirm, Default, CompileDefault, CompilePolicy, Config
<1> QED
  BY <1>1, <1>2, CompiledFields DEF GraphIsCanonical

(* The canonical graph has the patterns the compiler asks of a graph.      *)
LEMMA CanonicalIsAccepted ==
  ASSUME NEW c PROVE Accepted(CanonicalGraph(c), c.ffn)
<1> DEFINE g == CanonicalGraph(c)
           front == <<Op("RmsNorm", <<"x", "rms1_weight">>, "n1"),
    Op("FusedQKVProjection", <<"n1", "packed_qkv_weight">>, "qkv"),
    Op("Split", <<"qkv">>, "q"), Op("Split", <<"qkv">>, "k"), Op("Split", <<"qkv">>, "v"),
    Op("RoPE", <<"q">>, "rq"), Op("RoPE", <<"k">>, "rk"),
    Op("AttentionSdpa", <<"rq", "rk", "v">>, "attention"),
    Op("Concat", <<"attention">>, "merged"),
    Op("MatMul", <<"merged", "output_weight">>, "projected"),
    Op("Add", <<"projected", "x">>, "h"),
    Op("RmsNorm", <<"h", "rms2_weight">>, "n2")>>
           dense == <<Op("FusedGateUpProjection", <<"n2", "packed_gate_up_weight">>, "gate_up"),
             Op("SwiGLU", <<"gate_up">>, "activated"),
             Op("MatMul", <<"activated", "down_weight">>, "ffn")>>
           moe == <<Op("MatMul", <<"n2", "router_weight">>, "router"), Op("TopK", <<"router">>, "topk"),
             Op("MoeDispatch", <<"n2", "topk">>, "dispatch"),
             Op("MoeGroupedMatMul", <<"dispatch">>, "expert"),
             Op("MoeCombine", <<"expert", "topk">>, "ffn")>>
           ffn == IF c.ffn = "dense" THEN dense ELSE moe
           last == <<Op("Add", <<"ffn", "h">>, "out")>>
<1>1. g = (front \o ffn) \o last
  BY DEF CanonicalGraph
<1> DEFINE S == {front[i] : i \in 1 .. 12} \cup {dense[i] : i \in 1 .. 3} \cup {moe[i] : i \in 1 .. 5} \cup {last[1]}
<1>2. front \in Seq(S) /\ Len(front) = 12
  OBVIOUS
<1>3. dense \in Seq(S) /\ Len(dense) = 3 /\ moe \in Seq(S) /\ Len(moe) = 5
  OBVIOUS
<1>4. last \in Seq(S) /\ Len(last) = 1
  OBVIOUS
<1>5. front[2].kind = "FusedQKVProjection" /\ front[6].kind = "RoPE" /\ dense[1].kind = "FusedGateUpProjection"
  BY DEF Op
<1> HIDE DEF front, dense, moe, last, S
<1>6. ffn \in Seq(S) /\ Len(ffn) >= 1 /\ (c.ffn = "dense" => ffn = dense)
  <2>1. (c.ffn = "dense" => ffn = dense) /\ (c.ffn # "dense" => ffn = moe)
    BY Zenon
  <2> HIDE DEF ffn
  <2>2. ffn = dense \/ ffn = moe
    BY <2>1
  <2>3. ffn \in Seq(S) /\ Len(ffn) \in {3, 5}
    BY <1>3, <2>2, Zenon
  <2>4. \A n \in {3, 5} : n >= 1
    OBVIOUS
  <2> QED
    BY <2>1, <2>3, <2>4, Zenon
<1> HIDE DEF ffn
<1>7. /\ 2 \in DOMAIN g /\ g[2] = front[2]
      /\ 6 \in DOMAIN g /\ g[6] = front[6]
      /\ 13 \in DOMAIN g /\ g[13] = ffn[1]
  <2>1. PICK f : f = front
    OBVIOUS
  <2>2. PICK m : m = ffn
    OBVIOUS
  <2>3. PICK l : l = last
    OBVIOUS
  <2>4. PICK T : T = S
    OBVIOUS
  <2>5. f \in Seq(T) /\ m \in Seq(T) /\ l \in Seq(T) /\ Len(f) = 12 /\ Len(m) >= 1 /\ Len(l) = 1
    BY <1>2, <1>4, <1>6, <2>1, <2>2, <2>3, <2>4
  <2>6. PICK G : G = g
    OBVIOUS
  <2>7. G = (f \o m) \o l
    BY <1>1, <2>1, <2>2, <2>3, <2>6
  <2>8. /\ 2 \in DOMAIN G /\ G[2] = f[2]
        /\ 6 \in DOMAIN G /\ G[6] = f[6]
        /\ 13 \in DOMAIN G /\ G[13] = m[1]
    <3>1. 2 \in DOMAIN f /\ 6 \in DOMAIN f /\ 1 \in DOMAIN m /\ Len(f) + 1 = 13
      BY ONLY <2>5
    <3>2. PICK most \in Seq(T) : most = f \o m
      BY ONLY <2>5, Concatenation
    <3>3. \A i \in DOMAIN f : i \in DOMAIN most /\ most[i] = f[i]
      BY ONLY <2>5, <3>2, InFirst
    <3>4. Len(f) + 1 \in DOMAIN most /\ most[Len(f) + 1] = m[1]
      <4>1. f \in Seq(T) /\ m \in Seq(T) /\ 1 \in DOMAIN m
        BY ONLY <2>5, <3>1
      <4>2. Len(f) + 1 \in DOMAIN (f \o m) /\ (f \o m)[Len(f) + 1] = m[1]
        BY ONLY <4>1, InSecond
      <4> QED
        BY ONLY <4>2, <3>2
    <3>5. \A i \in DOMAIN most : i \in DOMAIN G /\ G[i] = most[i]
      BY ONLY <2>5, <2>7, <3>2, InFirst
    <3> QED
      BY ONLY <3>1, <3>3, <3>4, <3>5
  <2> QED
    BY <2>1, <2>2, <2>6, <2>8
<1> HIDE DEF g
<1>8. HasQkv(g) /\ HasRope(g)
  BY <1>5, <1>7 DEF HasQkv, HasRope
<1>9. c.ffn = "dense" => HasGateUp(g)
  BY <1>5, <1>6, <1>7 DEF HasGateUp
<1> QED
  BY <1>8, <1>9 DEF Accepted, g

(* A saved plan's canonical graph can be compiled again, for every         *)
(* configuration.                                                          *)
THEOREM CanonicalGraphsCompileAgain == PlanSpec => []CanonicalCompilesAgain
<1>1. PlanInit => GraphIsCanonical
  BY DEF PlanInit, None, GraphIsCanonical
<1>2. GraphIsCanonical => CanonicalCompilesAgain
  BY CanonicalIsAccepted DEF GraphIsCanonical, CanonicalCompilesAgain, None, Config
<1> QED
  BY <1>1, <1>2, GraphStep, PTL DEF PlanSpec

-----------------------------------------------------------------------------
(* Types of what a plan is made of.                                        *)
Strategies == {"split-kv", "materialized", "tiled-materialized", "auto-io-aware", "io-aware"}
Attentions == [strategy : Strategies, threads : Int, queryTile : Int, kvTile : Int, splits : Int]
PolicySet ==
  [layout : {"head-major", "token-major"}, family : {"latency", "throughput"},
   placement : {"compact", "spread"}, materialize : BOOLEAN, reuse : BOOLEAN, threads : Int,
   attention : Strategies]
PlanRows == [policy : PolicySet, ms : Int, score : Int]
TileRows == [attention : Attentions, ms : Int]

IsTarget(t) == \A f \in {"cpus", "vectorWidth", "l2", "l3"} : t[f] \in Nat \ {0}
IsShape(s) ==
  /\ \A f \in {"batch", "heads", "kvHeads", "sq", "sk", "dim", "dimValue"} : s[f] \in Nat \ {0}
  /\ s.causal \in BOOLEAN
  /\ s.causal => s.sq <= s.sk
IsLayer(c) ==
  /\ \A f \in {"batch", "sequence", "heads", "kvHeads", "dim", "intermediate"} : c[f] \in Nat \ {0}
  /\ c.context \in Nat /\ c.topK \in Nat /\ c.experts \in Nat
  /\ IsShape(Shape(c))

LEMMA CallFacts ==
  ASSUME NEW k \in Calls
  PROVE  /\ IsLayer(k.config) /\ IsTarget(k.target) /\ k.maxThreads \in Nat /\ k.budget \in Int
<1> DEFINE c == k.config
           s == Shape(c)
           fields == {"batch", "sequence", "heads", "kvHeads", "dim", "intermediate", "context",
                      "topK", "experts"}
<1>1. /\ Supported(c) /\ ValidShape(s)
      /\ \A f \in fields : c[f] \in Nat
      /\ c.causal \in BOOLEAN
      /\ IsTarget(k.target) /\ k.maxThreads \in Nat /\ k.budget \in Int
  BY CallsAssumption DEF CallsAreSupported, IsTarget
<1> HIDE DEF c
<1>2. /\ c.batch \in Nat \ {0} /\ c.sequence \in Nat \ {0} /\ c.heads \in Nat \ {0}
      /\ c.kvHeads \in Nat \ {0} /\ c.dim \in Nat \ {0} /\ c.intermediate \in Nat \ {0}
  BY <1>1 DEF Supported
<1>3. c.context \in Nat /\ c.topK \in Nat /\ c.experts \in Nat
  BY <1>1
<1>4. /\ s.batch = c.batch /\ s.heads = c.heads /\ s.kvHeads = c.kvHeads /\ s.sq = c.sequence
      /\ s.sk = KeyLength(c) /\ s.dim = c.dim /\ s.dimValue = c.dim /\ s.causal = c.causal
  BY DEF Shape
<1>5. KeyLength(c) \in Nat \ {0}
  BY <1>2, <1>3 DEF KeyLength
<1>6. s.causal => s.sq <= s.sk
  BY <1>1 DEF ValidShape
<1> HIDE DEF s
<1>7. IsShape(s)
  BY <1>1, <1>2, <1>4, <1>5, <1>6 DEF IsShape
<1>8. \A f \in {"batch", "sequence", "heads", "kvHeads", "dim", "intermediate"} : c[f] \in Nat \ {0}
  BY <1>2
<1> QED
  BY <1>1, <1>3, <1>7, <1>8 DEF IsLayer, c, s

LEMMA SelectPlanType ==
  ASSUME NEW s, IsShape(s), NEW t, IsTarget(t), NEW n \in Int
  PROVE  SelectPlan(s, t, n) \in Attentions
<1> DEFINE threads == Clamp(n, 1, t.cpus)
           pairBytes == (2 * s.dim + s.dimValue + 1) * SizeofFloat
           tile == IF s.dim >= 128 THEN 16 ELSE 32
           fitting == Clamp(t.l2 \div (pairBytes * tile), 16, 128)
           keys == Greatest(16, (fitting \div 16) * 16)
           splits == IF threads > 1 THEN Clamp(Greatest(2, s.sk \div 128), 2, threads) ELSE 1
<1>1. /\ s.dim \in Nat \ {0} /\ s.dimValue \in Nat \ {0} /\ s.sq \in Nat \ {0} /\ s.sk \in Nat \ {0}
      /\ t.cpus \in Nat \ {0} /\ t.l2 \in Nat \ {0}
  BY DEF IsShape, IsTarget
<1>2. threads \in Int
  <2>1. t.cpus \in Int /\ 1 \in Int
    BY <1>1
  <2> QED
    BY <2>1, ClampType
<1>3. pairBytes \in Nat \ {0} /\ tile \in Nat \ {0}
  BY <1>1 DEF SizeofFloat
<1>4. fitting \in Int
  <2> HIDE DEF pairBytes, tile
  <2>1. pairBytes * tile \in Nat \ {0}
    BY <1>3, TimesIsPositive
  <2>2. t.l2 \div (pairBytes * tile) \in Int
    BY <1>1, <2>1, DivIsInt
  <2> QED
    BY <2>2, ClampType
<1>5. keys \in Int
  <2> HIDE DEF fitting
  <2> QED
    BY <1>4 DEF Greatest
<1>6. splits \in Int
  <2> HIDE DEF threads
  <2>1. Greatest(2, s.sk \div 128) \in Int
    BY <1>1 DEF Greatest
  <2> QED
    BY <1>2, <2>1, ClampType
<1>7. \/ SelectPlan(s, t, n) = [strategy |-> "split-kv", threads |-> threads, queryTile |-> 1,
                                  kvTile |-> IF s.sk >= 1024 THEN 128 ELSE 64, splits |-> splits]
      \/ SelectPlan(s, t, n) = [strategy |-> "materialized", threads |-> threads, queryTile |-> s.sq,
                                  kvTile |-> s.sk, splits |-> 1]
      \/ SelectPlan(s, t, n) = [strategy |-> "auto-io-aware", threads |-> threads, queryTile |-> tile,
                                  kvTile |-> keys, splits |-> 1]
  BY Zenon DEF SelectPlan
<1>8. \A a \in Strategies, b, c, d, e \in Int :
        [strategy |-> a, threads |-> b, queryTile |-> c, kvTile |-> d, splits |-> e] \in Attentions
  BY DEF Attentions
<1> HIDE DEF threads, tile, keys, splits
<1>9. (IF s.sk >= 1024 THEN 128 ELSE 64) \in Int /\ 1 \in Int /\ tile \in Int /\ s.sq \in Int /\ s.sk \in Int
  BY <1>1, <1>3
<1>10. "split-kv" \in Strategies /\ "materialized" \in Strategies /\ "auto-io-aware" \in Strategies
  BY DEF Strategies
<1> HIDE DEF Attentions
<1> QED
  BY <1>2, <1>5, <1>6, <1>7, <1>8, <1>9, <1>10

LEMMA CompiledPlanType ==
  ASSUME NEW s, IsShape(s), NEW t, IsTarget(t), NEW a \in Attentions
  PROVE  /\ CompiledPlan(s, t, a) \in Attentions
         /\ CompiledPlan(s, t, a).queryTile \in 1 .. s.sq
         /\ CompiledPlan(s, t, a).kvTile \in 1 .. s.sk
<1>1. /\ s.sq \in Nat \ {0} /\ s.sk \in Nat \ {0} /\ t.cpus \in Nat \ {0}
      /\ a.threads \in Int /\ a.queryTile \in Int /\ a.kvTile \in Int
  BY DEF IsShape, IsTarget, Attentions
<1>2. /\ Clamp(a.threads, 1, t.cpus) \in Int
      /\ Clamp(a.queryTile, 1, s.sq) \in 1 .. s.sq
      /\ Clamp(a.kvTile, 1, s.sk) \in 1 .. s.sk
  BY <1>1 DEF Clamp
<1>3. \A x, y, z \in Int : [a EXCEPT !.threads = x, !.queryTile = y, !.kvTile = z] \in Attentions
  BY DEF Attentions
<1>4. \A x, y, z : /\ [a EXCEPT !.threads = x, !.queryTile = y, !.kvTile = z].queryTile = y
                    /\ [a EXCEPT !.threads = x, !.queryTile = y, !.kvTile = z].kvTile = z
  BY DEF Attentions
<1>5. CompiledPlan(s, t, a) = [a EXCEPT !.threads = Clamp(a.threads, 1, t.cpus),
                                        !.queryTile = Clamp(a.queryTile, 1, s.sq),
                                        !.kvTile = Clamp(a.kvTile, 1, s.sk)]
  BY DEF CompiledPlan, Attentions
<1>6. PICK x, y, z \in Int : /\ x = Clamp(a.threads, 1, t.cpus) /\ y = Clamp(a.queryTile, 1, s.sq)
                             /\ z = Clamp(a.kvTile, 1, s.sk)
  BY <1>1, <1>2
<1>7. CompiledPlan(s, t, a) = [a EXCEPT !.threads = x, !.queryTile = y, !.kvTile = z]
  BY <1>5, <1>6
<1>8. CompiledPlan(s, t, a) \in Attentions
  <2>1. [a EXCEPT !.threads = x, !.queryTile = y, !.kvTile = z] \in Attentions
    BY ONLY <1>3, x \in Int, y \in Int, z \in Int
  <2> QED
    BY ONLY <1>7, <2>1
<1>9. CompiledPlan(s, t, a).queryTile = y /\ CompiledPlan(s, t, a).kvTile = z
  <2>1. PICK r : r = CompiledPlan(s, t, a)
    OBVIOUS
  <2>2. r = [a EXCEPT !.threads = x, !.queryTile = y, !.kvTile = z]
    BY ONLY <1>7, <2>1
  <2>3. r.queryTile = y /\ r.kvTile = z
    BY ONLY <1>4, <2>2
  <2> QED
    BY <2>1, <2>3
<1> QED
  BY <1>2, <1>6, <1>8, <1>9

LEMMA SizeTypes ==
  ASSUME NEW s, IsShape(s)
  PROVE  ScoreBytes(s) \in Int /\ QueryBytes(s) \in Int /\ KvBytes(s) \in Int /\ OutputBytes(s) \in Int
<1>1. /\ s.batch \in Int /\ s.heads \in Int /\ s.kvHeads \in Int /\ s.sq \in Int /\ s.sk \in Int
      /\ s.dim \in Int /\ s.dimValue \in Int /\ SizeofFloat \in Int
  BY DEF IsShape, SizeofFloat
<1>2. s.batch * s.heads \in Int /\ s.batch * s.kvHeads \in Int
  BY <1>1
<1>3. s.batch * s.heads * s.sq \in Int /\ s.batch * s.kvHeads * s.sk \in Int
  BY <1>1, <1>2, TimesIsInt
<1>4. /\ s.batch * s.heads * s.sq * s.sk \in Int /\ s.batch * s.heads * s.sq * s.dim \in Int
      /\ s.batch * s.heads * s.sq * s.dimValue \in Int
      /\ s.batch * s.kvHeads * s.sk * (s.dim + s.dimValue) \in Int
  BY <1>1, <1>3, TimesIsInt
<1> QED
  BY <1>1, <1>4, TimesIsInt DEF ScoreBytes, QueryBytes, KvBytes, OutputBytes

LEMMA TrafficType ==
  ASSUME NEW s, IsShape(s), NEW a \in Attentions, a.queryTile \in Nat \ {0}
  PROVE  QueryTiles(s, a) \in Nat /\ L2Traffic(s, a) \in Int
<1>1. s.sq \in Nat
  BY DEF IsShape
<1>2. QueryTiles(s, a) \in Nat
  BY <1>1, CeilDivType DEF QueryTiles
<1>3. KvBytes(s) * QueryTiles(s, a) \in Int
  BY <1>2, SizeTypes, TimesIsInt
<1> QED
  BY <1>2, <1>3, SizeTypes DEF L2Traffic

LEMMA TemporaryType ==
  ASSUME NEW s, IsShape(s), NEW a \in Attentions, a.queryTile \in Nat \ {0}
  PROVE  TemporaryBytes(s, a) \in Int
<1>1. /\ s.batch \in Int /\ s.heads \in Int /\ s.sq \in Int /\ s.sk \in Int
      /\ s.dim \in Int /\ s.dimValue \in Int /\ SizeofFloat \in Int
      /\ a.threads \in Int /\ a.queryTile \in Int /\ a.kvTile \in Int /\ a.splits \in Int
  BY DEF IsShape, SizeofFloat, Attentions
<1>2. s.batch * s.heads \in Int
  BY <1>1
<1>3. CASE IsMaterialized(a.strategy)
  BY <1>3, SizeTypes DEF TemporaryBytes
<1>4. s.batch * s.heads * s.sq * Greatest(1, a.splits) * (s.dimValue + 2) * SizeofFloat \in Int
  <2>1. Greatest(1, a.splits) \in Int
    BY <1>1 DEF Greatest
  <2>2. s.batch * s.heads * s.sq \in Int
    BY <1>1, <1>2, TimesIsInt
  <2>3. s.batch * s.heads * s.sq * Greatest(1, a.splits) \in Int
    BY <2>1, <2>2, TimesIsInt
  <2>4. s.dimValue + 2 \in Int
    BY <1>1
  <2>5. s.batch * s.heads * s.sq * Greatest(1, a.splits) * (s.dimValue + 2) \in Int
    BY <2>3, <2>4, TimesIsInt
  <2> QED
    BY <1>1, <2>5, TimesIsInt
<1>5. Clamp(a.threads, 1, Greatest(1, s.batch * s.heads * QueryTiles(s, a)))
        * a.queryTile * (a.kvTile + s.dimValue + 2) * SizeofFloat \in Int
  <2>1. QueryTiles(s, a) \in Int
    BY TrafficType
  <2>2. s.batch * s.heads * QueryTiles(s, a) \in Int
    BY <1>2, <2>1, TimesIsInt
  <2>3. Greatest(1, s.batch * s.heads * QueryTiles(s, a)) \in Int
    BY <2>2 DEF Greatest
  <2>4. Clamp(a.threads, 1, Greatest(1, s.batch * s.heads * QueryTiles(s, a))) \in Int
    <3>1. 1 \in Int
      OBVIOUS
    <3> QED
      BY <1>1, <2>3, <3>1, ClampType
  <2>5. Clamp(a.threads, 1, Greatest(1, s.batch * s.heads * QueryTiles(s, a))) * a.queryTile \in Int
    BY <1>1, <2>4, TimesIsInt
  <2>6. a.kvTile + s.dimValue + 2 \in Int
    BY <1>1
  <2>7. Clamp(a.threads, 1, Greatest(1, s.batch * s.heads * QueryTiles(s, a)))
          * a.queryTile * (a.kvTile + s.dimValue + 2) \in Int
    BY <2>5, <2>6, TimesIsInt
  <2> QED
    BY <1>1, <2>7, TimesIsInt
<1> QED
  BY <1>3, <1>4, <1>5 DEF TemporaryBytes

LEMMA LayerTypes ==
  ASSUME NEW c, IsLayer(c)
  PROVE  /\ TokenRows(c) \in Int /\ Hidden(c) \in Int /\ QkvWidth(c) \in Int /\ MoeBytes(c) \in Int
<1>1. /\ c.batch \in Int /\ c.sequence \in Int /\ c.heads \in Int /\ c.kvHeads \in Int
      /\ c.dim \in Int /\ c.topK \in Int /\ c.experts \in Int
  BY DEF IsLayer
<1>2. TokenRows(c) \in Int /\ Hidden(c) \in Int /\ KvWidth(c) \in Int
  BY <1>1 DEF TokenRows, Hidden, KvWidth
<1>3. QkvWidth(c) \in Int
  BY <1>2 DEF QkvWidth
<1>4. TokenRows(c) * c.topK \in Int /\ TokenRows(c) * Hidden(c) \in Int
  BY <1>1, <1>2, TimesIsInt
<1>5. 2 * (TokenRows(c) * c.topK) * Hidden(c) \in Int
  BY <1>2, <1>4, TimesIsInt
<1>6. MoeBytes(c) \in Int
  <2>1. MoeBytes(c) = 4 * (3 * (TokenRows(c) * c.topK) + c.experts + 1 + 2 * (TokenRows(c) * c.topK) * Hidden(c)
                           + TokenRows(c) * Hidden(c))
    BY DEF MoeBytes
  <2> QED
    BY <1>1, <1>4, <1>5, <2>1
<1> QED
  BY <1>2, <1>3, <1>6

LEMMA WorkspaceType ==
  ASSUME NEW c, IsLayer(c), NEW policy, NEW temporary \in Int
  PROVE  Workspace(c, policy, temporary) \in Int
<1> DEFINE hidden == 4 * TokenRows(c) * Hidden(c)
           qkv == 4 * TokenRows(c) * QkvWidth(c)
           activation == IF c.ffn = "dense" THEN 4 * TokenRows(c) * c.intermediate ELSE 0
           Moe(copies) == IF c.ffn = "dense" THEN 0
                          ELSE MoeBytes(c) + copies * 4 * TokenRows(c) * c.topK * c.intermediate
           Largest == Greatest(qkv, Greatest(3 * hidden,
                        Greatest(3 * activation, Greatest(temporary, Moe(2)))))
<1>1. c.intermediate \in Int /\ c.topK \in Int
  BY DEF IsLayer
<1>2. 4 * TokenRows(c) \in Int
  BY LayerTypes
<1>3. hidden \in Int /\ qkv \in Int /\ activation \in Int
  BY <1>1, <1>2, LayerTypes, TimesIsInt
<1>4. ASSUME NEW n \in Int PROVE Moe(n) \in Int
  <2>1. n * 4 * TokenRows(c) \in Int
    BY LayerTypes, TimesIsInt
  <2>2. n * 4 * TokenRows(c) * c.topK \in Int
    BY <1>1, <2>1, TimesIsInt
  <2>3. n * 4 * TokenRows(c) * c.topK * c.intermediate \in Int
    BY <1>1, <2>2, TimesIsInt
  <2> QED
    BY <2>3, LayerTypes
<1>5. Moe(2) \in Int /\ Moe(3) \in Int
  <2> HIDE DEF Moe
  <2> QED
    BY <1>4
<1>6. Largest \in Int
  <2> HIDE DEF hidden, qkv, activation, Moe
  <2> QED
    BY <1>3, <1>5 DEF Greatest
<1>7. Workspace(c, policy, temporary) =
        (IF policy.reuse THEN Largest
         ELSE 6 * hidden + qkv + 3 * activation + temporary + Moe(3))
        + (IF policy.materialize THEN hidden ELSE 0)
  BY Zenon DEF Workspace
<1> HIDE DEF Largest, hidden, qkv, activation, Moe
<1> QED
  BY <1>3, <1>5, <1>6, <1>7

LEMMA ScoreType ==
  ASSUME NEW c, IsLayer(c), NEW p, p.policy.threads \in Int, p.workspace \in Int,
         p.attention \in Attentions, p.attention.queryTile \in Nat \ {0}
  PROVE  Score(c, p) \in Int
<1> DEFINE elements == TokenRows(c) * Hidden(c)
           traffic == L2Traffic(Shape(c), p.attention)
           busy == IF TokenRows(c) >= 32 THEN 83886080 \div Greatest(1, p.policy.threads)
                   ELSE 1048576 * Greatest(0, p.policy.threads - 2)
<1>1. elements \in Int
  BY LayerTypes, TimesIsInt
<1>2. traffic \in Int
  BY TrafficType DEF IsLayer
<1>3. busy \in Int
  <2>1. Greatest(1, p.policy.threads) \in Nat \ {0} /\ Greatest(0, p.policy.threads - 2) \in Int
    BY DEF Greatest
  <2>2. 83886080 \div Greatest(1, p.policy.threads) \in Int
    BY <2>1, DivIsInt
  <2> QED
    BY <2>1, <2>2
<1>4. (traffic * 12144) \div 125000 \in Int
  BY <1>2
<1>5. Score(c, p) =
       (IF p.policy.layout = "head-major" THEN 0 ELSE 5120 * elements)
     + (IF p.policy.materialize THEN 320 * 4 * elements ELSE 0)
     + 20 * p.workspace
     + (IF p.policy.family = "latency" /\ TokenRows(c) > 32 THEN 167772160 ELSE 0)
     + (IF p.policy.placement = "spread" /\ p.policy.threads <= 2 THEN 41943040 ELSE 0)
     + busy + 2 * traffic + (traffic * 12144) \div 125000
  BY SMT DEF Score
<1> HIDE DEF elements, traffic, busy
<1> QED
  BY <1>1, <1>2, <1>3, <1>4, <1>5

LEMMA ThreadChoicesType ==
  ASSUME NEW n \in Nat PROVE ThreadChoices(n) \in Seq(Int) \ {<<>>}
<1> DEFINE UpTo(k) == IF k <= n THEN <<k>> ELSE <<>>
           rest == IF n \in {1, 2, 4, 8} THEN <<>> ELSE <<n>>
<1>1. UpTo(2) \in Seq(Int) /\ UpTo(4) \in Seq(Int) /\ UpTo(8) \in Seq(Int) /\ rest \in Seq(Int)
  OBVIOUS
<1>2. <<1>> \in Seq(Int) /\ <<1>> # <<>>
  OBVIOUS
<1>3. ThreadChoices(n) = (((<<1>> \o UpTo(2)) \o UpTo(4)) \o UpTo(8)) \o rest
  BY Zenon DEF ThreadChoices
<1>4. \A a, b \in Seq(Int) : a # <<>> => a \o b \in Seq(Int) /\ a \o b # <<>>
  OBVIOUS
<1> HIDE DEF UpTo, rest
<1>5. <<1>> \o UpTo(2) \in Seq(Int) \ {<<>>}
  BY <1>1, <1>2, <1>4
<1>6. (<<1>> \o UpTo(2)) \o UpTo(4) \in Seq(Int) \ {<<>>}
  BY <1>1, <1>4, <1>5
<1>7. ((<<1>> \o UpTo(2)) \o UpTo(4)) \o UpTo(8) \in Seq(Int) \ {<<>>}
  BY <1>1, <1>4, <1>6
<1> QED
  BY <1>1, <1>3, <1>4, <1>7

LEMMA PoliciesType ==
  ASSUME NEW c, NEW t, IsTarget(t), NEW n \in Nat
  PROVE  Policies(c, t, n) \in Seq(PolicySet) \ {<<>>}
<1> DEFINE layouts == <<"head-major", "token-major">>
           families == <<"latency", "throughput">>
           Bools(first) == <<first, ~first>>
           strategies == IF c.context > 0 THEN <<"split-kv">> ELSE <<"io-aware", "tiled-materialized">>
           threads == ThreadChoices(n)
           P == Seq(PolicySet) \ {<<>>}
           L6(la, fa, ma, re, st) ==
             [i \in DOMAIN threads |-> <<Policy(la, fa, ma, re, Clamp(threads[i], 1, t.cpus), st)>>]
           L5(la, fa, ma, re) == [i \in DOMAIN strategies |-> FlattenSeq(L6(la, fa, ma, re, strategies[i]))]
           L4(la, fa, ma) == [i \in DOMAIN Bools(TRUE) |-> FlattenSeq(L5(la, fa, ma, Bools(TRUE)[i]))]
           L3(la, fa) == [i \in DOMAIN Bools(FALSE) |-> FlattenSeq(L4(la, fa, Bools(FALSE)[i]))]
           L2(la) == [i \in DOMAIN families |-> FlattenSeq(L3(la, families[i]))]
           L1 == [i \in DOMAIN layouts |-> FlattenSeq(L2(layouts[i]))]
<1>1. Policies(c, t, n) = FlattenSeq(L1)
  BY Zenon DEF Policies
<1>2. threads \in Seq(Int) \ {<<>>}
  BY ThreadChoicesType
<1>3. strategies \in Seq(Strategies) \ {<<>>}
  BY DEF Strategies
<1>4. /\ layouts \in [1 .. 2 -> {"head-major", "token-major"}]
      /\ families \in [1 .. 2 -> {"latency", "throughput"}]
      /\ Bools(TRUE) \in [1 .. 2 -> BOOLEAN] /\ Bools(FALSE) \in [1 .. 2 -> BOOLEAN]
  <2>1. \A S : \A a, b \in S : <<a, b>> \in [1 .. 2 -> S]
    OBVIOUS
  <2> QED
    BY <2>1
<1>5. PICK nt \in Nat \ {0} : DOMAIN threads = 1 .. nt /\ \A i \in 1 .. nt : threads[i] \in Int
  <2> HIDE DEF threads
  <2>1. Len(threads) \in Nat \ {0} /\ DOMAIN threads = 1 .. Len(threads)
    BY <1>2
  <2>2. \A i \in 1 .. Len(threads) : threads[i] \in Int
    BY <1>2, <2>1
  <2> QED
    BY <2>1, <2>2
<1>6. PICK ns \in Nat \ {0} : DOMAIN strategies = 1 .. ns /\ \A i \in 1 .. ns : strategies[i] \in Strategies
  <2> HIDE DEF strategies
  <2>1. Len(strategies) \in Nat \ {0} /\ DOMAIN strategies = 1 .. Len(strategies)
    BY <1>3
  <2>2. \A i \in 1 .. Len(strategies) : strategies[i] \in Strategies
    BY <1>3, <2>1
  <2> QED
    BY <2>1, <2>2
<1>7. \A k \in Int : Clamp(k, 1, t.cpus) \in Int
  <2>1. t.cpus \in Int /\ 1 \in Int
    BY DEF IsTarget
  <2> QED
    BY <2>1, ClampType
<1> 2 \in Nat \ {0}
  OBVIOUS
<1> HIDE DEF layouts, families, Bools, strategies, threads
<1>8. ASSUME NEW la \in {"head-major", "token-major"}, NEW fa \in {"latency", "throughput"},
             NEW ma \in BOOLEAN, NEW re \in BOOLEAN, NEW st \in Strategies, NEW k \in Int
      PROVE  <<Policy(la, fa, ma, re, k, st)>> \in P
  <2>1. Policy(la, fa, ma, re, k, st) \in PolicySet
    BY DEF Policy, PolicySet
  <2> QED
    BY <2>1
<1>9. ASSUME NEW la \in {"head-major", "token-major"}, NEW fa \in {"latency", "throughput"},
             NEW ma \in BOOLEAN, NEW re \in BOOLEAN, NEW st \in Strategies
      PROVE  FlattenSeq(L6(la, fa, ma, re, st)) \in P
  <2>1. L6(la, fa, ma, re, st) \in [1 .. nt -> P]
    <3> HIDE DEF P
    <3> QED
      BY <1>5, <1>7, <1>8
  <2> HIDE DEF L6
  <2> QED
    BY <2>1, FlattenFilled
<1>10. ASSUME NEW la \in {"head-major", "token-major"}, NEW fa \in {"latency", "throughput"},
              NEW ma \in BOOLEAN, NEW re \in BOOLEAN
       PROVE  FlattenSeq(L5(la, fa, ma, re)) \in P
  <2>1. L5(la, fa, ma, re) \in [1 .. ns -> P]
    <3> HIDE DEF P, L6
    <3> QED
      BY <1>6, <1>9
  <2> HIDE DEF L5
  <2> QED
    BY <2>1, FlattenFilled
<1>11. ASSUME NEW la \in {"head-major", "token-major"}, NEW fa \in {"latency", "throughput"},
              NEW ma \in BOOLEAN
       PROVE  FlattenSeq(L4(la, fa, ma)) \in P
  <2>1. L4(la, fa, ma) \in [1 .. 2 -> P]
    <3> HIDE DEF P, L5
    <3> QED
      BY <1>4, <1>10
  <2> HIDE DEF L4
  <2> QED
    BY <2>1, FlattenFilled
<1>12. ASSUME NEW la \in {"head-major", "token-major"}, NEW fa \in {"latency", "throughput"}
       PROVE  FlattenSeq(L3(la, fa)) \in P
  <2>1. L3(la, fa) \in [1 .. 2 -> P]
    <3> HIDE DEF P, L4
    <3> QED
      BY <1>4, <1>11
  <2> HIDE DEF L3
  <2> QED
    BY <2>1, FlattenFilled
<1>13. ASSUME NEW la \in {"head-major", "token-major"}
       PROVE  FlattenSeq(L2(la)) \in P
  <2>1. L2(la) \in [1 .. 2 -> P]
    <3> HIDE DEF P, L3
    <3> QED
      BY <1>4, <1>12
  <2> HIDE DEF L2
  <2> QED
    BY <2>1, FlattenFilled
<1>14. L1 \in [1 .. 2 -> P]
  <2> HIDE DEF P, L2
  <2> QED
    BY <1>4, <1>13
<1> HIDE DEF L1
<1> QED
  BY <1>1, <1>14, FlattenFilled

LEMMA CompileType ==
  ASSUME NEW c, IsLayer(c), NEW t, IsTarget(t), NEW p \in PolicySet, NEW a \in Attentions
  PROVE  /\ Compile(c, t, p, a) # None
         /\ Compile(c, t, p, a).graph = CanonicalGraph(c)
         /\ Compile(c, t, p, a).policy = p
         /\ Compile(c, t, p, a).attention \in Attentions
         /\ Compile(c, t, p, a).attention.queryTile \in 1 .. Shape(c).sq
         /\ Compile(c, t, p, a).attention.kvTile \in 1 .. Shape(c).sk
         /\ Compile(c, t, p, a).workspace \in Int
<1> DEFINE s == Shape(c)
           taken == CompiledPlan(s, t, a)
           r == Compile(c, t, p, a)
<1>1. /\ r.policy = p /\ r.attention = taken /\ r.graph = CanonicalGraph(c)
      /\ r.workspace = Workspace(c, p, TemporaryBytes(s, taken))
      /\ DOMAIN r = {"policy", "attention", "graph", "workspace"}
  BY DEF Compile
<1>2. r # None
  <2>1. "policy" \notin DOMAIN None
    BY DEF None
  <2> HIDE DEF r
  <2> QED
    BY <1>1, <2>1
<1>3. IsShape(s)
  BY DEF IsLayer
<1> HIDE DEF s
<1>4. taken \in Attentions /\ taken.queryTile \in 1 .. s.sq /\ taken.kvTile \in 1 .. s.sk
  BY <1>3, CompiledPlanType
<1> HIDE DEF taken
<1>5. taken.queryTile \in Nat \ {0}
  BY <1>3, <1>4 DEF IsShape
<1>6. Workspace(c, p, TemporaryBytes(s, taken)) \in Int
  BY <1>3, <1>4, <1>5, TemporaryType, WorkspaceType
<1> HIDE DEF r
<1> QED
  BY <1>1, <1>2, <1>4, <1>6 DEF r, s

LEMMA DefaultPolicyType ==
  ASSUME NEW c, IsLayer(c), NEW t, IsTarget(t), NEW n \in Nat
  PROVE  DefaultPolicy(c, t, n) \in PolicySet
<1> DEFINE k == Clamp(n, 1, t.cpus)
<1>1. k \in Int
  <2>1. t.cpus \in Int /\ 1 \in Int /\ n \in Int
    BY DEF IsTarget
  <2> QED
    BY <2>1, ClampType
<1> HIDE DEF k
<1>2. SelectPlan(Shape(c), t, k).strategy \in Strategies
  <2>1. SelectPlan(Shape(c), t, k) \in Attentions
    BY <1>1, SelectPlanType DEF IsLayer
  <2> QED
    BY <2>1 DEF Attentions
<1>3. DefaultPolicy(c, t, n) = Policy("head-major", "latency", TRUE, TRUE, k, SelectPlan(Shape(c), t, k).strategy)
  BY Zenon DEF DefaultPolicy, k
<1> QED
  BY <1>1, <1>2, <1>3 DEF Policy, PolicySet

LEMMA DefaultIsCompiled ==
  ASSUME NEW c, IsLayer(c), NEW t, IsTarget(t), NEW n \in Nat
  PROVE  \E a \in Attentions : CompileDefault(c, t, n) = Compile(c, t, DefaultPolicy(c, t, n), a)
<1>1. DefaultPolicy(c, t, n).threads \in Int
  BY DefaultPolicyType DEF PolicySet
<1>2. SelectPlan(Shape(c), t, DefaultPolicy(c, t, n).threads) \in Attentions
  BY <1>1, SelectPlanType DEF IsLayer
<1> QED
  BY <1>2 DEF CompileDefault

LEMMA PolicyIsCompiled ==
  ASSUME NEW c, IsLayer(c), NEW t, IsTarget(t), NEW p \in PolicySet
  PROVE  \E a \in Attentions : CompilePolicy(c, t, p) = Compile(c, t, p, a)
<1>1. p.threads \in Int /\ p.attention \in Strategies
  BY DEF PolicySet
<1>2. SelectPlan(Shape(c), t, p.threads) \in Attentions
  BY <1>1, SelectPlanType DEF IsLayer
<1>3. [SelectPlan(Shape(c), t, p.threads) EXCEPT !.strategy = p.attention] \in Attentions
  BY <1>1, <1>2 DEF Attentions
<1> QED
  BY <1>3 DEF CompilePolicy

LEMMA CandidatesType ==
  ASSUME NEW c, IsLayer(c), NEW t, IsTarget(t), NEW n \in Nat
  PROVE  Candidates(c, t, n) \in Seq(PlanRows) \ {<<>>}
<1> DEFINE policies == Policies(c, t, n)
           scores == [i \in DOMAIN policies |-> Score(c, CompilePolicy(c, t, policies[i]))]
           candidates == [i \in DOMAIN policies |-> [policy |-> policies[i], ms |-> 0, score |-> scores[i]]]
<1>1. PICK k \in Nat \ {0} : DOMAIN policies = 1 .. k /\ \A i \in 1 .. k : policies[i] \in PolicySet
  <2>1. policies \in Seq(PolicySet) \ {<<>>}
    BY PoliciesType
  <2> HIDE DEF policies
  <2>2. Len(policies) \in Nat \ {0} /\ DOMAIN policies = 1 .. Len(policies)
    BY <2>1
  <2>3. \A i \in 1 .. Len(policies) : policies[i] \in PolicySet
    BY <2>1, <2>2
  <2> QED
    BY <2>2, <2>3
<1> HIDE DEF policies
<1>2. ASSUME NEW p \in PolicySet PROVE Score(c, CompilePolicy(c, t, p)) \in Int
  <2>1. PICK a \in Attentions : CompilePolicy(c, t, p) = Compile(c, t, p, a)
    BY PolicyIsCompiled
  <2> DEFINE r == Compile(c, t, p, a)
  <2>2. /\ r.policy = p /\ r.workspace \in Int /\ r.attention \in Attentions
        /\ r.attention.queryTile \in 1 .. Shape(c).sq
    BY CompileType
  <2>3. Shape(c).sq \in Nat
    BY DEF IsLayer, IsShape
  <2> HIDE DEF r
  <2>4. r.policy.threads \in Int /\ r.attention.queryTile \in Nat \ {0}
    BY <2>2, <2>3 DEF PolicySet
  <2>5. Score(c, r) \in Int
    BY <2>2, <2>4, ScoreType
  <2> QED
    BY <2>1, <2>5 DEF r
<1>3. scores \in [1 .. k -> Int]
  BY <1>1, <1>2
<1> HIDE DEF scores
<1>4. candidates \in [1 .. k -> PlanRows]
  BY <1>1, <1>3 DEF PlanRows
<1>5. StableSort(candidates, scores) \in [1 .. k -> PlanRows]
  <2> HIDE DEF candidates
  <2> QED
    BY <1>3, <1>4, StableSortKeeps
<1>6. Candidates(c, t, n) = StableSort(candidates, scores)
  BY Zenon DEF Candidates, policies, scores
<1> HIDE DEF candidates
<1>7. StableSort(candidates, scores) \in Seq(PlanRows) /\ StableSort(candidates, scores) # <<>>
  <2>1. PICK q : q = StableSort(candidates, scores)
    OBVIOUS
  <2>2. q \in [1 .. k -> PlanRows]
    BY <1>5, <2>1
  <2>3. q \in Seq(PlanRows) /\ q # <<>>
    BY ONLY <2>2, k \in Nat \ {0}
  <2> QED
    BY <2>1, <2>3
<1> QED
  BY <1>6, <1>7

LEMMA TileCandidatesType ==
  ASSUME NEW s, NEW t, NEW seed \in Attentions
  PROVE  /\ TileCandidates(s, t, seed) \in Seq(TileRows)
         /\ \A i \in DOMAIN TileCandidates(s, t, seed) : TileCandidates(s, t, seed)[i].ms = 0
<1> DEFINE Tile(x) == [seed EXCEPT !.strategy = "auto-io-aware", !.queryTile = x[1], !.kvTile = x[2]]
           Within(x) == x[1] <= s.sq /\ x[2] <= s.sk /\ TemporaryBytes(s, Tile(x)) <= t.l2
           Sizes(n) == <<<<16, 32, 64>>[(n + 2) \div 3], <<32, 64, 128>>[((n - 1) % 3) + 1]>>
           Row(n) == [attention |-> Tile(Sizes(n)), ms |-> 0]
           g == [n \in 1 .. 9 |-> IF Within(Sizes(n)) THEN <<Row(n)>> ELSE <<>>]
           Zeros == {r \in TileRows : r.ms = 0}
<1>1. TileCandidates(s, t, seed) = FlattenSeq(g)
  BY Zenon DEF TileCandidates
<1>2. ASSUME NEW n \in 1 .. 9 PROVE Sizes(n)[1] \in Int /\ Sizes(n)[2] \in Int
  <2>1. (n + 2) \div 3 \in 1 .. 3 /\ ((n - 1) % 3) + 1 \in 1 .. 3
    OBVIOUS
  <2>2. \A i \in 1 .. 3 : <<16, 32, 64>>[i] \in Int /\ <<32, 64, 128>>[i] \in Int
    OBVIOUS
  <2>3. <<16, 32, 64>>[(n + 2) \div 3] \in Int /\ <<32, 64, 128>>[((n - 1) % 3) + 1] \in Int
    BY <2>1, <2>2
  <2>4. \A a, b : <<a, b>>[1] = a /\ <<a, b>>[2] = b
    OBVIOUS
  <2> QED
    BY <2>3, <2>4
<1>3. ASSUME NEW x, x[1] \in Int, x[2] \in Int PROVE [attention |-> Tile(x), ms |-> 0] \in Zeros
  <2>1. \A a \in Strategies, b, c \in Int :
          [seed EXCEPT !.strategy = a, !.queryTile = b, !.kvTile = c] \in Attentions
    BY DEF Attentions
  <2>2. "auto-io-aware" \in Strategies
    BY DEF Strategies
  <2>3. Tile(x) \in Attentions
    BY <1>3, <2>1, <2>2
  <2> HIDE DEF Tile
  <2> QED
    BY <2>3 DEF TileRows
<1> HIDE DEF Zeros, Fits, Sizes, Tile
<1>4. ASSUME NEW n \in 1 .. 9 PROVE g[n] \in Seq(Zeros)
  <2>1. Row(n) \in Zeros
    BY <1>2, <1>3
  <2> HIDE DEF Row
  <2> QED
    BY <2>1
<1>5. g = [n \in 1 .. 9 |-> g[n]] /\ 9 \in Nat \ {0}
  OBVIOUS
<1> HIDE DEF g
<1>6. FlattenSeq(g) \in Seq(Zeros)
  BY ONLY <1>4, <1>5, FlattenIsFlat
<1>7. PICK q : q = FlattenSeq(g)
  OBVIOUS
<1>8. q \in Seq(TileRows) /\ \A i \in DOMAIN q : q[i].ms = 0
  BY <1>6, <1>7 DEF Zeros
<1> QED
  BY <1>1, <1>7, <1>8

-----------------------------------------------------------------------------
(* What holds of the optimiser and the tuner between their steps.          *)
Optimizing == phase \in {"rank", "measure", "compare"}

PlanIsCompiled ==
  plan # None => \E p \in PolicySet, a \in Attentions : plan = Compile(Config, call.target, p, a)

(* The tuner has measured its rows up to some place, which is its next.    *)
TunerInv ==
  phase \in {"screen", "finals"} =>
    /\ rows \in Seq(TileRows)
    /\ \E k \in DOMAIN rows : \A i \in DOMAIN rows : rows[i].ms = 0 <=> i >= k

(* The winner is a measured row, and the plan has its policy.              *)
WonBefore(k) ==
  \E i \in DOMAIN rows : i < k /\ rows[i] = winner /\ plan.policy = winner.policy

OptimizerInv ==
  Optimizing =>
    /\ baseline \in PlanRows /\ baseline.policy = Default.policy
    /\ samples.baseline \in Seq(Int) /\ samples.winner \in Seq(Int)
    /\ Len(samples.baseline) = Len(samples.winner)
    /\ phase = "rank" => winner = None /\ measurements = 1
    /\ phase # "rank" => rows \in Seq(PlanRows) /\ rows # <<>>
    /\ phase = "measure" => /\ measurements \in 1 .. Len(rows)
                            /\ winner = None \/ WonBefore(measurements)
                            /\ measurements > 1 => winner # None
    /\ phase = "compare" => WonBefore(Len(rows) + 1)

PlanInv ==
  /\ call \in Calls
  /\ phase = "start" => /\ winner = None
                        /\ samples = [baseline |-> <<>>, winner |-> <<>>]
  /\ PlanIsCompiled /\ TunerInv /\ OptimizerInv /\ WinnerIsReported

LEMMA InitPlanInv == PlanInit => PlanInv
BY DEF PlanInit, PlanInv, PlanIsCompiled, TunerInv, OptimizerInv, Optimizing, WinnerIsReported

LEMMA DefaultFacts ==
  ASSUME PlanInv
  PROVE  /\ IsLayer(Config) /\ IsTarget(call.target) /\ call.maxThreads \in Nat /\ call.budget \in Int
         /\ Default.policy \in PolicySet
         /\ \E a \in Attentions : Default = Compile(Config, call.target, Default.policy, a)
<1>1. /\ IsLayer(Config) /\ IsTarget(call.target) /\ call.maxThreads \in Nat /\ call.budget \in Int
  BY CallFacts DEF PlanInv, Config
<1> DEFINE p == DefaultPolicy(Config, call.target, call.maxThreads)
<1>2. p \in PolicySet
  BY <1>1, DefaultPolicyType
<1>3. PICK a \in Attentions : Default = Compile(Config, call.target, p, a)
  BY <1>1, DefaultIsCompiled DEF Default
<1> HIDE DEF p
<1>4. Default.policy = p
  BY <1>1, <1>2, <1>3, CompileType
<1> QED
  BY <1>1, <1>2, <1>3, <1>4

LEMMA RowsAreRecords == \A r \in PlanRows : r # None
<1> TAKE r \in PlanRows
<1>1. DOMAIN r = {"policy", "ms", "score"}
  BY DEF PlanRows
<1>2. "ms" \notin DOMAIN None
  BY DEF None
<1> QED
  BY <1>1, <1>2

(* The least of a range. *)
LEMMA LeastOfRange ==
  ASSUME NEW k \in Nat, NEW n \in Nat, k <= n, NEW A, A = {i \in 1 .. n : i >= k}, k >= 1
  PROVE  Min(A) = k
<1>1. k \in A /\ \A y \in A : k <= y
  OBVIOUS
<1>2. \A x \in A : (\A y \in A : x <= y) => x = k
  OBVIOUS
<1>3. \E x \in A : \A y \in A : x <= y
  BY <1>1
<1>4. PICK x : x = CHOOSE z \in A : \A y \in A : z <= y
  OBVIOUS
<1>5. x \in A /\ \A y \in A : x <= y
  BY ONLY <1>3, <1>4
<1> QED
  BY <1>2, <1>4, <1>5 DEF Min

(* The steps that leave the rows and the plan alone, or set the plan that  *)
(* a default request compiles.                                             *)
LEMMA DefaultStep ==
  ASSUME PlanInv, call' = call, plan' \in {plan, Default},
         phase' \in {"rejected", "compiled", "ready", "executed"}
  PROVE  PlanInv'
<1>1. PlanIsCompiled'
  BY DefaultFacts DEF PlanInv, PlanIsCompiled, Config
<1> QED
  BY <1>1 DEF PlanInv, TunerInv, OptimizerInv, Optimizing, WinnerIsReported

LEMMA NextUnmeasured ==
  ASSUME PlanInv, phase \in {"screen", "finals"}, NEW n, n = Min(Unmeasured(rows))
  PROVE  /\ rows \in Seq(TileRows) /\ n \in DOMAIN rows
         /\ \A i \in DOMAIN rows : rows[i].ms = 0 <=> i >= n
<1>1. rows \in Seq(TileRows)
  BY DEF PlanInv, TunerInv
<1>2. PICK k \in DOMAIN rows : \A i \in DOMAIN rows : rows[i].ms = 0 <=> i >= k
  BY DEF PlanInv, TunerInv
<1>3. DOMAIN rows = 1 .. Len(rows) /\ Len(rows) \in Nat
  BY <1>1
<1>4. Unmeasured(rows) = {i \in 1 .. Len(rows) : i >= k}
  BY <1>2, <1>3 DEF Unmeasured
<1>5. k \in Nat /\ k <= Len(rows) /\ k >= 1
  BY <1>2, <1>3
<1>6. Min(Unmeasured(rows)) = k
  BY ONLY <1>3, <1>4, <1>5, LeastOfRange
<1> QED
  BY <1>1, <1>2, <1>6

LEMMA TuningStep == PlanInv /\ BeginTuning => PlanInv'
<1> SUFFICES ASSUME PlanInv, BeginTuning PROVE PlanInv'
  OBVIOUS
<1>1. call' = call /\ plan' = Default /\ winner' = winner /\ phase = "start"
  BY DEF BeginTuning, Begins
<1>2. PlanIsCompiled'
  BY <1>1, DefaultFacts DEF PlanIsCompiled, Config
<1>3. CASE phase' # "screen"
  <2>1. phase' = "compiled"
    BY <1>3 DEF BeginTuning
  <2> QED
    BY <1>1, <1>2, <2>1 DEF PlanInv, TunerInv, OptimizerInv, Optimizing, WinnerIsReported
<1>4. CASE phase' = "screen"
  <2> DEFINE seed == SelectPlan(Shape(Config), call.target, Default.policy.threads)
  <2>1. rows' # <<>>
    BY <1>4 DEF BeginTuning
  <2>2. rows' = TileCandidates(Shape(Config), call.target, seed)
    BY <2>1 DEF BeginTuning
  <2>3. seed \in Attentions
    <3>1. Default.policy.threads \in Int
      BY DefaultFacts DEF PolicySet
    <3> QED
      BY <3>1, DefaultFacts, SelectPlanType DEF IsLayer
  <2> HIDE DEF seed
  <2>4. rows' \in Seq(TileRows) /\ \A i \in DOMAIN rows' : rows'[i].ms = 0
    BY <2>2, <2>3, TileCandidatesType
  <2>5. 1 \in DOMAIN rows' /\ \A i \in DOMAIN rows' : i >= 1
    BY <2>1, <2>4
  <2>6. TunerInv'
    BY <2>4, <2>5 DEF TunerInv
  <2> QED
    BY <1>1, <1>2, <1>4, <2>6 DEF PlanInv, OptimizerInv, Optimizing, WinnerIsReported
<1> QED
  BY <1>3, <1>4

LEMMA MeasuredRows ==
  ASSUME NEW n \in Nat, rows \in Seq(TileRows), n \in DOMAIN rows, n < Len(rows), NEW ms \in Latencies,
         \A i \in DOMAIN rows : rows[i].ms = 0 <=> i >= n,
         rows' = [rows EXCEPT ![n].ms = ms]
  PROVE  /\ rows' \in Seq(TileRows)
         /\ \E k \in DOMAIN rows' : \A i \in DOMAIN rows' : rows'[i].ms = 0 <=> i >= k
<1>1. ms \in Nat \ {0}
  BY CallsAssumption DEF CallsAreSupported
<1>2. DOMAIN rows = 1 .. Len(rows) /\ Len(rows) \in Nat /\ DOMAIN rows' = DOMAIN rows
  OBVIOUS
<1>3. [rows[n] EXCEPT !.ms = ms] \in TileRows /\ [rows[n] EXCEPT !.ms = ms].ms = ms
  <2>1. rows[n] \in TileRows
    BY <1>2
  <2> QED
    BY <1>1, <2>1 DEF TileRows
<1>4. rows' = [rows EXCEPT ![n] = [rows[n] EXCEPT !.ms = ms]]
  BY <1>2
<1>5. \A i \in DOMAIN rows : rows'[i] = IF i = n THEN [rows[n] EXCEPT !.ms = ms] ELSE rows[i]
  BY <1>2, <1>4
<1>6. rows' \in Seq(TileRows)
  BY <1>2, <1>3, <1>4
<1>7. n + 1 \in DOMAIN rows' /\ \A i \in DOMAIN rows' : rows'[i].ms = 0 <=> i >= n + 1
  BY <1>1, <1>2, <1>3, <1>5
<1> QED
  BY <1>6, <1>7

LEMMA RowUpdate ==
  ASSUME NEW n, rows \in Seq(TileRows), n \in DOMAIN rows, NEW ms \in Latencies
  PROVE  /\ [rows EXCEPT ![n].ms = ms] \in [1 .. Len(rows) -> TileRows]
         /\ [rows EXCEPT ![n].ms = ms] \in Seq(TileRows)
<1>1. ms \in Int
  BY CallsAssumption DEF CallsAreSupported
<1>2. DOMAIN rows = 1 .. Len(rows) /\ Len(rows) \in Nat
  OBVIOUS
<1>3. [rows[n] EXCEPT !.ms = ms] \in TileRows
  <2>1. rows[n] \in TileRows
    BY <1>2
  <2> QED
    BY <1>1, <2>1 DEF TileRows
<1>4. [rows EXCEPT ![n].ms = ms] = [rows EXCEPT ![n] = [rows[n] EXCEPT !.ms = ms]]
  BY <1>2
<1> QED
  BY <1>2, <1>3, <1>4

LEMMA ScreenStep == \A ms \in Latencies : PlanInv /\ Screen(ms) => PlanInv'
<1> SUFFICES ASSUME NEW ms \in Latencies, PlanInv, Screen(ms) PROVE PlanInv'
  OBVIOUS
<1> DEFINE n == Min(Unmeasured(rows))
           measured == [rows EXCEPT ![n].ms = ms]
           keys == [i \in DOMAIN rows |-> measured[i].ms]
           sorted == StableSort(measured, keys)
<1>1. /\ rows \in Seq(TileRows) /\ n \in DOMAIN rows
      /\ \A i \in DOMAIN rows : rows[i].ms = 0 <=> i >= n
  BY NextUnmeasured DEF Screen
<1>2. call' = call /\ plan' = plan /\ winner' = winner /\ phase = "screen" /\ phase' \in {"screen", "finals"}
  BY DEF Screen
<1>3. /\ n < Len(rows) => rows' = measured
      /\ ~(n < Len(rows)) => rows' = [i \in 1 .. Least(3, Len(rows)) |-> [sorted[i] EXCEPT !.ms = 0]]
  BY DEF Screen
<1>4. DOMAIN rows = 1 .. Len(rows) /\ Len(rows) \in Nat \ {0} /\ n \in Nat
  BY <1>1
<1>5. measured \in [1 .. Len(rows) -> TileRows] /\ measured \in Seq(TileRows)
  BY <1>1, RowUpdate
<1> HIDE DEF n
<1>6. CASE n < Len(rows)
  <2>1. rows' = [rows EXCEPT ![n].ms = ms]
    BY <1>3, <1>6
  <2>2. TunerInv'
    BY <1>1, <1>4, <1>6, <2>1, MeasuredRows DEF TunerInv
  <2> QED
    BY <1>2, <2>2 DEF PlanInv, PlanIsCompiled, Config, OptimizerInv, Optimizing, WinnerIsReported
<1>7. CASE ~(n < Len(rows))
  <2> DEFINE k == Least(3, Len(rows))
             reset == [i \in 1 .. k |-> [sorted[i] EXCEPT !.ms = 0]]
  <2>1. k \in Nat \ {0} /\ k <= Len(rows)
    BY <1>4 DEF Least
  <2> HIDE DEF k, measured
  <2>2. keys \in [1 .. Len(rows) -> Int]
    BY <1>4, <1>5 DEF TileRows
  <2> HIDE DEF keys
  <2>3. sorted \in [1 .. Len(rows) -> TileRows]
    BY <1>4, <1>5, <2>2, StableSortKeeps
  <2> HIDE DEF sorted
  <2>4. \A r \in TileRows : [r EXCEPT !.ms = 0] \in TileRows /\ [r EXCEPT !.ms = 0].ms = 0
    BY DEF TileRows
  <2>5. \A i \in 1 .. k : sorted[i] \in TileRows
    BY <1>4, <2>1, <2>3
  <2>6. rows' = reset
    BY <1>3, <1>7 DEF k, keys, sorted, measured
  <2>7. \A i \in 1 .. k : reset[i] \in TileRows /\ reset[i].ms = 0
    BY <2>4, <2>5
  <2>8. reset = [i \in 1 .. k |-> reset[i]]
    OBVIOUS
  <2> HIDE DEF reset
  <2>9. rows' \in Seq(TileRows) /\ DOMAIN rows' = 1 .. k
    BY <2>1, <2>6, <2>7, <2>8
  <2>10. 1 \in DOMAIN rows' /\ \A i \in DOMAIN rows' : rows'[i].ms = 0 <=> i >= 1
    BY <2>1, <2>6, <2>7, <2>9
  <2>11. TunerInv'
    BY <2>9, <2>10 DEF TunerInv
  <2> QED
    BY <1>2, <2>11 DEF PlanInv, PlanIsCompiled, Config, OptimizerInv, Optimizing, WinnerIsReported
<1> QED
  BY <1>6, <1>7

LEMMA FinalStep == \A ms \in Latencies : PlanInv /\ Final(ms) => PlanInv'
<1> SUFFICES ASSUME NEW ms \in Latencies, PlanInv, Final(ms) PROVE PlanInv'
  OBVIOUS
<1> DEFINE n == Min(Unmeasured(rows))
           policy == DefaultPolicy(Config, call.target, call.maxThreads)
<1>1. /\ rows \in Seq(TileRows) /\ n \in DOMAIN rows
      /\ \A i \in DOMAIN rows : rows[i].ms = 0 <=> i >= n
  BY NextUnmeasured DEF Final
<1>2. /\ call' = call /\ phase = "finals"
      /\ phase' = IF n < Len(rows) THEN "finals" ELSE "compiled"
      /\ rows' = [rows EXCEPT ![n].ms = ms]
      /\ plan' = plan \/ plan' = Compile(Config, call.target, policy, rows[n].attention)
  BY DEF Final
<1> HIDE DEF n
<1>3. DOMAIN rows = 1 .. Len(rows) /\ n \in Nat /\ rows[n] \in TileRows
  BY <1>1
<1>4. rows[n].attention \in Attentions
  BY <1>3 DEF TileRows
<1>5. policy \in PolicySet
  BY DefaultFacts, DefaultPolicyType
<1> HIDE DEF policy
<1>6. PlanIsCompiled'
  BY <1>2, <1>4, <1>5 DEF PlanInv, PlanIsCompiled, Config
<1>7. TunerInv'
  BY <1>1, <1>2, <1>3, MeasuredRows DEF TunerInv
<1> QED
  BY <1>2, <1>6, <1>7 DEF PlanInv, OptimizerInv, Optimizing, WinnerIsReported

LEMMA BaselineStep == \A ms \in Latencies : PlanInv /\ MeasureBaseline(ms) => PlanInv'
<1> SUFFICES ASSUME NEW ms \in Latencies, PlanInv, MeasureBaseline(ms) PROVE PlanInv'
  OBVIOUS
<1>1. /\ call' = call /\ plan' = plan /\ winner' = winner /\ samples' = samples /\ phase = "start"
      /\ phase' = "rank" /\ measurements' = 1
      /\ baseline' = [policy |-> Default.policy, ms |-> ms, score |-> Score(Config, Default)]
  BY DEF MeasureBaseline, Begins
<1>2. ms \in Int
  BY CallsAssumption DEF CallsAreSupported
<1>3. Score(Config, Default) \in Int
  <2>1. PICK a \in Attentions : Default = Compile(Config, call.target, Default.policy, a)
    BY DefaultFacts
  <2>2. /\ Default.workspace \in Int /\ Default.attention \in Attentions
        /\ Default.attention.queryTile \in 1 .. Shape(Config).sq
    BY <2>1, DefaultFacts, CompileType
  <2>3. Default.attention.queryTile \in Nat \ {0}
    BY <2>2, DefaultFacts DEF IsLayer, IsShape
  <2>4. Default.policy.threads \in Int
    BY DefaultFacts DEF PolicySet
  <2> QED
    BY <2>2, <2>3, <2>4, DefaultFacts, ScoreType
<1>4. baseline' \in PlanRows /\ baseline'.policy = Default.policy
  BY <1>1, <1>2, <1>3, DefaultFacts DEF PlanRows
<1>5. /\ samples.baseline = <<>> /\ samples.winner = <<>> /\ winner = None
  BY <1>1 DEF PlanInv
<1>6. Default' = Default
  BY <1>1 DEF Default, Config
<1>7. OptimizerInv'
  BY <1>1, <1>4, <1>5, <1>6 DEF OptimizerInv, Optimizing
<1> QED
  BY <1>1, <1>7 DEF PlanInv, PlanIsCompiled, Config, TunerInv, WinnerIsReported

LEMMA RankStep == PlanInv /\ Rank => PlanInv'
<1> SUFFICES ASSUME PlanInv, Rank PROVE PlanInv'
  OBVIOUS
<1>1. /\ phase = "rank" /\ phase' = "measure"
      /\ rows' = Candidates(Config, call.target, call.maxThreads)
      /\ UNCHANGED <<call, plan, baseline, winner, samples, measurements>>
  BY DEF Rank
<1>2. rows' \in Seq(PlanRows) /\ rows' # <<>>
  BY <1>1, DefaultFacts, CandidatesType
<1>3. 1 <= Len(rows') /\ Len(rows') \in Nat
  BY <1>2
<1>4. Default' = Default
  BY <1>1 DEF Default, Config
<1>5. OptimizerInv'
  BY <1>1, <1>2, <1>3, <1>4 DEF PlanInv, OptimizerInv, Optimizing
<1> QED
  BY <1>1, <1>5 DEF PlanInv, PlanIsCompiled, Config, TunerInv, WinnerIsReported

LEMMA CandidateRow ==
  ASSUME NEW n, NEW ms \in Latencies, rows \in Seq(PlanRows), n \in 1 .. Len(rows)
  PROVE  LET r == [rows EXCEPT ![n].ms = ms]
         IN /\ r \in Seq(PlanRows) /\ r # <<>> /\ DOMAIN r = DOMAIN rows /\ Len(r) = Len(rows)
            /\ r[n] \in PlanRows /\ r[n].policy = rows[n].policy /\ rows[n].policy \in PolicySet
            /\ \A i \in DOMAIN rows : i # n => r[i] = rows[i]
<1> DEFINE row == [rows[n] EXCEPT !.ms = ms]
<1>1. DOMAIN rows = 1 .. Len(rows) /\ Len(rows) \in Nat /\ n \in DOMAIN rows /\ rows[n] \in PlanRows
  OBVIOUS
<1>2. ms \in Int
  BY CallsAssumption DEF CallsAreSupported
<1>3. row \in PlanRows /\ row.policy = rows[n].policy /\ rows[n].policy \in PolicySet
  BY <1>1, <1>2 DEF PlanRows
<1>4. [rows EXCEPT ![n].ms = ms] = [rows EXCEPT ![n] = row]
  BY <1>1
<1> HIDE DEF row
<1>5. PICK r : r = [rows EXCEPT ![n] = row]
  OBVIOUS
<1>6. /\ r \in [1 .. Len(rows) -> PlanRows] /\ r[n] = row
      /\ \A i \in DOMAIN rows : i # n => r[i] = rows[i]
  BY <1>1, <1>3, <1>5
<1>7. r \in Seq(PlanRows) /\ Len(r) = Len(rows) /\ DOMAIN r = DOMAIN rows
  BY <1>1, <1>6
<1>8. r # <<>>
  BY <1>1, <1>7
<1> QED
  BY <1>3, <1>4, <1>5, <1>6, <1>7, <1>8

LEMMA CandidateStep == \A ms \in Latencies : PlanInv /\ MeasureCandidate(ms) => PlanInv'
<1> SUFFICES ASSUME NEW ms \in Latencies, PlanInv, MeasureCandidate(ms) PROVE PlanInv'
  OBVIOUS
<1>0. PICK n : n = measurements
  OBVIOUS
<1>1. /\ call' = call /\ baseline' = baseline /\ samples' = samples /\ phase = "measure"
      /\ phase' = (IF n < Budget THEN "measure" ELSE "compare")
      /\ measurements' = n + 1
      /\ rows' = [rows EXCEPT ![n].ms = ms]
      /\ \/ winner' = rows'[n] /\ plan' = CompilePolicy(Config, call.target, rows[n].policy)
         \/ winner # None /\ winner' = winner /\ plan' = plan
  BY <1>0 DEF MeasureCandidate
<1>2. /\ rows \in Seq(PlanRows) /\ n \in 1 .. Len(rows)
      /\ baseline \in PlanRows /\ baseline.policy = Default.policy
      /\ samples.baseline \in Seq(Int) /\ samples.winner \in Seq(Int)
      /\ Len(samples.baseline) = Len(samples.winner)
      /\ winner = None \/ WonBefore(n)
  BY <1>0, <1>1 DEF PlanInv, OptimizerInv, Optimizing
<1>3. DOMAIN rows = 1 .. Len(rows) /\ Len(rows) \in Nat /\ n \in DOMAIN rows /\ n \in Int
  BY <1>2
<1>4. /\ rows' \in Seq(PlanRows) /\ rows' # <<>> /\ DOMAIN rows' = DOMAIN rows /\ Len(rows') = Len(rows)
      /\ rows'[n] \in PlanRows /\ rows'[n].policy = rows[n].policy /\ rows[n].policy \in PolicySet
      /\ \A i \in DOMAIN rows : i # n => rows'[i] = rows[i]
  BY ONLY <1>1, <1>2, CandidateRow
<1>5. Budget \in Int /\ Budget <= Len(rows)
  <2>1. 1 \in Int /\ 1 <= Len(rows) /\ Len(rows) \in Int
    BY <1>2, <1>3
  <2> QED
    BY <2>1, DefaultFacts DEF Budget, Clamp
<1>6. winner' # None /\ \E i \in DOMAIN rows : i <= n /\ rows'[i] = winner' /\ plan'.policy = winner'.policy
  <2>1. CASE winner' = rows'[n] /\ plan' = CompilePolicy(Config, call.target, rows[n].policy)
    <3>1. PICK a \in Attentions :
            plan' = Compile(Config, call.target, rows[n].policy, a)
      BY <1>4, <2>1, DefaultFacts, PolicyIsCompiled
    <3>2. plan'.policy = rows[n].policy
      BY <1>4, <3>1, DefaultFacts, CompileType
    <3>3. winner' # None /\ plan'.policy = winner'.policy
      BY <1>4, <2>1, <3>2, RowsAreRecords
    <3> QED
      BY <1>3, <2>1, <3>3
  <2>2. CASE winner # None /\ winner' = winner /\ plan' = plan
    <3>1. PICK i \in DOMAIN rows : i < n /\ rows[i] = winner /\ plan.policy = winner.policy
      BY <1>2, <2>2 DEF WonBefore
    <3>2. i # n /\ i <= n
      BY <1>3, <3>1
    <3>3. rows'[i] = winner' /\ plan'.policy = winner'.policy
      BY <1>4, <2>2, <3>1, <3>2
    <3> QED
      BY <2>2, <3>2, <3>3
  <2> QED
    BY <1>1, <2>1, <2>2
<1>7. PICK i \in DOMAIN rows' : i <= n /\ rows'[i] = winner' /\ plan'.policy = winner'.policy
  BY <1>4, <1>6
<1>8. Default' = Default
  BY <1>1 DEF Default, Config
<1>9. PlanIsCompiled'
  <2>1. CASE plan' = CompilePolicy(Config, call.target, rows[n].policy)
    <3>1. \E a \in Attentions : plan' = Compile(Config, call.target, rows[n].policy, a)
      BY <1>4, <2>1, DefaultFacts, PolicyIsCompiled
    <3> QED
      BY <1>1, <1>4, <3>1 DEF PlanIsCompiled, Config
  <2>2. CASE plan' = plan
    BY <1>1, <2>2 DEF PlanInv, PlanIsCompiled, Config
  <2> QED
    BY <1>1, <2>1, <2>2
<1>10. CASE n < Budget
  <2>1. i < measurements' /\ measurements' \in 1 .. Len(rows') /\ phase' = "measure" /\ winner' # None
    BY <1>1, <1>2, <1>3, <1>4, <1>5, <1>6, <1>7, <1>10
  <2>2. OptimizerInv'
    BY <1>1, <1>2, <1>4, <1>7, <1>8, <2>1 DEF OptimizerInv, Optimizing, WonBefore
  <2> QED
    BY <1>1, <1>9, <2>1, <2>2 DEF PlanInv, TunerInv, WinnerIsReported
<1>11. CASE ~(n < Budget)
  <2>1. i < Len(rows') + 1 /\ phase' = "compare"
    BY <1>1, <1>3, <1>4, <1>7, <1>11
  <2>2. OptimizerInv'
    BY <1>1, <1>2, <1>4, <1>7, <1>8, <2>1 DEF OptimizerInv, Optimizing, WonBefore
  <2> QED
    BY <1>1, <1>9, <2>1, <2>2 DEF PlanInv, TunerInv, WinnerIsReported
<1> QED
  BY <1>10, <1>11

LEMMA InsertType ==
  ASSUME NEW s \in Seq(Int), NEW ms \in Int
  PROVE  Insert(s, ms) \in Seq(Int) /\ Len(Insert(s, ms)) = Len(s) + 1
<1> DEFINE A == {i \in DOMAIN s : s[i] <= ms}
           n == Cardinality(A)
<1>1. DOMAIN s = 1 .. Len(s) /\ Len(s) \in Nat
  OBVIOUS
<1>2. IsFiniteSet(DOMAIN s) /\ Cardinality(DOMAIN s) = Len(s)
  <2>1. PICK m \in Nat : m = Len(s)
    BY <1>1
  <2>2. 1 \in Int /\ m \in Int
    OBVIOUS
  <2>3. IsFiniteSet(1 .. m) /\ Cardinality(1 .. m) = m
    BY ONLY <2>2, FS_Interval, m \in Nat
  <2> QED
    BY <1>1, <2>1, <2>3
<1>3. n \in Nat /\ n <= Len(s)
  BY <1>2, FS_Subset, FS_CardinalityType
<1> HIDE DEF n
<1>4. \A i \in 1 .. Len(s) : s[i] \in Int
  BY <1>1
<1>5. PICK u, v : u = SubSeq(s, 1, n) /\ v = SubSeq(s, n + 1, Len(s))
  OBVIOUS
<1>6. u \in Seq(Int) /\ Len(u) = n
  BY <1>1, <1>3, <1>4, <1>5
<1>7. v \in Seq(Int) /\ Len(v) = Len(s) - n
  <2>1. v \in Seq(Int)
    BY <1>1, <1>3, <1>5, SubSeqProperties
  <2>2. Len(v) = IF n + 1 <= Len(s) THEN Len(s) - (n + 1) + 1 ELSE 0
    BY <1>1, <1>3, <1>5, SubSeqProperties
  <2>3. PICK k, m : k = Len(s) /\ m = Len(v)
    OBVIOUS
  <2>4. k \in Nat /\ n \in Nat /\ n <= k /\ m = IF n + 1 <= k THEN k - (n + 1) + 1 ELSE 0
    BY ONLY <1>1, <1>3, <2>2, <2>3
  <2>5. m = k - n
    BY ONLY <2>4
  <2> QED
    BY <2>1, <2>3, <2>5
<1>8. PICK one : one = <<ms>>
  OBVIOUS
<1>9. one \in Seq(Int) /\ Len(one) = 1
  BY <1>8
<1>10. u \o one \in Seq(Int) /\ Len(u \o one) = Len(u) + Len(one)
  BY <1>6, <1>9, Concatenation
<1>11. PICK w : w = u \o one
  OBVIOUS
<1>12. w \o v \in Seq(Int) /\ Len(w \o v) = Len(w) + Len(v)
  BY <1>7, <1>10, <1>11, Concatenation
<1>13. Insert(s, ms) = w \o v
  BY <1>5, <1>8, <1>11 DEF Insert, n
<1>14. Len(w \o v) = Len(s) + 1
  <2>1. PICK k, m : k = Len(s) /\ m = Len(w \o v)
    OBVIOUS
  <2>2. k \in Nat /\ n \in Nat /\ m = (n + 1) + (k - n)
    BY ONLY <1>1, <1>3, <1>6, <1>7, <1>9, <1>10, <1>11, <1>12, <2>1
  <2>3. m = k + 1
    BY ONLY <2>2
  <2> QED
    BY ONLY <2>1, <2>3
<1> QED
  BY ONLY <1>12, <1>13, <1>14

LEMMA ConfirmStep == \A ms1, ms2 \in Latencies : PlanInv /\ Confirm(ms1, ms2) => PlanInv'
<1> SUFFICES ASSUME NEW ms1 \in Latencies, NEW ms2 \in Latencies, PlanInv, Confirm(ms1, ms2)
             PROVE  PlanInv'
  OBVIOUS
<1>1. /\ phase = "compare"
      /\ samples' = [baseline |-> Insert(samples.baseline, ms1), winner |-> Insert(samples.winner, ms2)]
      /\ UNCHANGED <<call, phase, plan, baseline, rows, winner>>
  BY DEF Confirm
<1>2. /\ samples.baseline \in Seq(Int) /\ samples.winner \in Seq(Int)
      /\ Len(samples.baseline) = Len(samples.winner)
      /\ rows \in Seq(PlanRows) /\ rows # <<>> /\ WonBefore(Len(rows) + 1)
      /\ baseline \in PlanRows /\ baseline.policy = Default.policy
  BY <1>1 DEF PlanInv, OptimizerInv, Optimizing
<1>3. ms1 \in Int /\ ms2 \in Int
  BY CallsAssumption DEF CallsAreSupported
<1>4. /\ samples'.baseline \in Seq(Int) /\ samples'.winner \in Seq(Int)
      /\ Len(samples'.baseline) = Len(samples'.winner)
  BY <1>1, <1>2, <1>3, InsertType
<1>5. Default' = Default
  BY <1>1 DEF Default, Config
<1>6. (WonBefore(Len(rows) + 1))'
  BY <1>1, <1>2 DEF WonBefore
<1>7. OptimizerInv'
  BY <1>1, <1>2, <1>4, <1>5, <1>6 DEF OptimizerInv, Optimizing
<1> QED
  BY <1>1, <1>7 DEF PlanInv, PlanIsCompiled, Config, TunerInv, WinnerIsReported

(* What the comparison reports is what the winner's row shows: after a     *)
(* confirmation the row has the median, before one it has the measurement. *)
LEMMA ConcludeStep == PlanInv /\ Conclude => PlanInv'
<1> SUFFICES ASSUME PlanInv, Conclude PROVE PlanInv'
  OBVIOUS
<1> DEFINE base == IF Confirmed THEN [baseline EXCEPT !.ms = samples.baseline[2]] ELSE baseline
           best == IF Confirmed THEN [winner EXCEPT !.ms = samples.winner[2]] ELSE winner
           kept == base.ms <= best.ms
           shown == [n \in DOMAIN rows |-> ApplyMedians(rows[n])]
<1>1. /\ call' = call /\ phase = "compare" /\ phase' = "optimized"
      /\ baseline' = base /\ winner' = (IF kept THEN base ELSE best)
      /\ plan' = (IF kept THEN Default ELSE plan)
      /\ rows' = <<base>> \o shown
  BY DEF Conclude, KeepsBaseline
<1>2. /\ samples.baseline \in Seq(Int) /\ samples.winner \in Seq(Int)
      /\ Len(samples.baseline) = Len(samples.winner)
      /\ rows \in Seq(PlanRows) /\ rows # <<>> /\ WonBefore(Len(rows) + 1)
      /\ baseline \in PlanRows /\ baseline.policy = Default.policy
  BY <1>1 DEF PlanInv, OptimizerInv, Optimizing
<1>3. PICK i \in DOMAIN rows : rows[i] = winner /\ plan.policy = winner.policy
  BY <1>2 DEF WonBefore
<1>4. DOMAIN rows = 1 .. Len(rows) /\ Len(rows) \in Nat /\ winner \in PlanRows
  BY <1>2, <1>3
<1>5. Confirmed => samples.baseline[2] \in Int /\ samples.winner[2] \in Int
  <2>1. Confirmed => 2 \in DOMAIN samples.baseline /\ 2 \in DOMAIN samples.winner
    BY <1>2 DEF Confirmed
  <2> QED
    BY <1>2, <2>1
<1>6. /\ base \in PlanRows /\ base.policy = Default.policy
      /\ best \in PlanRows /\ best.policy = winner.policy
  BY <1>2, <1>4, <1>5 DEF PlanRows
<1>7. shown[i] = best
  BY <1>3 DEF ApplyMedians
<1>8. DOMAIN shown = 1 .. Len(rows)
  BY <1>4
<1>9. shown \in Seq(PlanRows)
  <2>1. \A r \in PlanRows : ApplyMedians(r) \in PlanRows
    BY <1>5 DEF ApplyMedians, PlanRows
  <2>2. \A n \in 1 .. Len(rows) : rows[n] \in PlanRows
    BY <1>2
  <2> QED
    BY <1>4, <2>1, <2>2
<1> HIDE DEF base, best, shown
<1>13. PlanIsCompiled'
  BY <1>1, DefaultFacts DEF PlanInv, PlanIsCompiled, Config
<1>10. /\ rows'[1] = base
       /\ i + 1 \in DOMAIN rows' /\ 1 \in DOMAIN rows' /\ rows'[i + 1] = best
  <2>1. PICK front : front = <<base>>
    OBVIOUS
  <2>2. front \in Seq(PlanRows) /\ Len(front) = 1 /\ front[1] = base /\ 1 \in DOMAIN front
    BY <1>6, <2>1
  <2>3. i \in DOMAIN shown /\ i \in Nat
    BY <1>3, <1>4, <1>8
  <2>4. rows' = front \o shown
    BY <1>1, <2>1
  <2>5. 1 \in DOMAIN rows' /\ rows'[1] = base
    BY ONLY <1>9, <2>2, <2>4, InFirst
  <2>6. Len(front) + i \in DOMAIN rows' /\ rows'[Len(front) + i] = best
    BY ONLY <1>7, <1>9, <2>2, <2>3, <2>4, InSecond
  <2>7. Len(front) + i = i + 1
    BY <2>2, <2>3
  <2> QED
    BY <2>5, <2>6, <2>7
<1>11. base.ms \in Int /\ best.ms \in Int
  BY <1>6 DEF PlanRows
<1>12. WinnerIsReported'
  <2>1. CASE kept
    <3>1. winner' = base /\ plan' = Default /\ baseline' = base
      BY <1>1, <2>1
    <3>2. rows'[1].policy = plan'.policy /\ rows'[1].ms = winner'.ms
      BY <1>6, <1>10, <3>1
    <3> QED
      BY <1>6, <1>10, <1>11, <3>1, <3>2 DEF WinnerIsReported
  <2>2. CASE ~kept
    <3>1. winner' = best /\ plan' = plan /\ baseline' = base
      BY <1>1, <2>2
    <3>2. rows'[i + 1].policy = plan'.policy /\ rows'[i + 1].ms = winner'.ms
      BY <1>3, <1>6, <1>10, <3>1
    <3>3. best.ms <= base.ms
      BY <1>11, <2>2
    <3> QED
      BY <1>3, <1>6, <1>10, <3>1, <3>2, <3>3 DEF WinnerIsReported
  <2> QED
    BY <2>1, <2>2
<1> QED
  BY <1>1, <1>13, <1>12 DEF PlanInv, TunerInv, OptimizerInv, Optimizing

(* Every step keeps the invariant.                                         *)
LEMMA PlanStep == PlanInv /\ [PlanNext]_planVars => PlanInv'
<1> SUFFICES ASSUME PlanInv, [PlanNext]_planVars PROVE PlanInv'
  OBVIOUS
<1>1. CASE RejectGraph \/ CompileOnly \/ CompilePlain \/ Execute \/ ExecuteQuantized \/ RejectQuantized
  <2>1. /\ call' = call /\ plan' \in {plan, Default}
        /\ phase' \in {"rejected", "compiled", "ready", "executed"}
    BY <1>1 DEF RejectGraph, CompileOnly, CompilePlain, Execute, ExecuteQuantized, RejectQuantized
  <2> QED
    BY <2>1, DefaultStep
<1>2. CASE UNCHANGED planVars
  <2>1. /\ UNCHANGED <<call, phase, plan, baseline, rows, winner, samples, measurements>>
        /\ Default' = Default
    BY <1>2 DEF planVars, Default, Config
  <2> QED
    BY <2>1 DEF PlanInv, PlanIsCompiled, Config, TunerInv, OptimizerInv, Optimizing, WonBefore,
                WinnerIsReported
<1> QED
  BY <1>1, <1>2, TuningStep, RankStep, ConcludeStep, ScreenStep, FinalStep, BaselineStep,
     CandidateStep, ConfirmStep DEF PlanNext

(* From the call to the execution, through the tuner and the optimiser,    *)
(* every plan is compile() of a policy and an attention plan of the right  *)
(* type, and the optimiser's winner is a row that was measured.            *)
THEOREM PlansAreCompiled == PlanSpec => []PlanInv
<1> QED
  BY InitPlanInv, PlanStep, PTL DEF PlanSpec

(* For every budget, thread count and sequence of latencies, what optimize *)
(* reports of its winner is in its rows, is the plan it returns, and is    *)
(* not slower than the baseline, whether it was confirmed by medians or    *)
(* not.                                                                    *)
THEOREM TheWinnerIsReported == PlanSpec => []WinnerIsReported
<1>1. PlanInv => WinnerIsReported
  BY DEF PlanInv
<1> QED
  BY <1>1, PlansAreCompiled, PTL

-----------------------------------------------------------------------------
(* Tiles.                                                                  *)

LEMMA TileIndex ==
  ASSUME NEW n \in Nat \ {0}, NEW d \in Nat \ {0}, NEW t \in Nat
  PROVE  t \in 0 .. CeilDiv(n, d) - 1 <=> t * d < n
<1> DEFINE q == CeilDiv(n, d)
<1>1. q \in Nat /\ d * q <= n + d - 1 /\ n <= d * q
  <2>1. n + d - 1 \in Nat
    OBVIOUS
  <2> QED
    BY <2>1, CeilDivEnough, DivBounds DEF CeilDiv
<1> HIDE DEF q
<1>2. ASSUME t <= q - 1 PROVE t * d < n
  <2>1. d * t <= d * (q - 1) /\ d * (q - 1) = d * q - d /\ d * t = t * d
    BY <1>1, <1>2, SMT
  <2> QED
    BY <1>1, <2>1
<1>3. ASSUME t >= q PROVE ~(t * d < n)
  <2>1. d * t >= d * q /\ d * t = t * d
    BY <1>1, <1>3, SMT
  <2> QED
    BY <1>1, <2>1
<1> QED
  BY <1>1, <1>2, <1>3 DEF q

LEMMA TileOf ==
  ASSUME NEW n \in Nat \ {0}, NEW d \in Nat \ {0}, NEW x \in 0 .. n - 1
  PROVE  x \div d \in 0 .. CeilDiv(n, d) - 1 /\ (x \div d) * d <= x /\ x < (x \div d + 1) * d
<1>1. x \div d \in Nat /\ d * (x \div d) <= x /\ x < d * (x \div d) + d
  BY DivNat, DivBounds
<1>2. PICK t \in Nat : t = x \div d
  BY <1>1
<1>3. t * d <= x /\ x < (t + 1) * d /\ t * d < n
  <2>1. t * d = d * t /\ (t + 1) * d = d * t + d
    BY SMT
  <2> QED
    BY <1>1, <1>2, <2>1
<1> QED
  BY <1>2, <1>3, TileIndex

LEMMA FirstAndLastOfTile ==
  ASSUME NEW n \in Nat \ {0}, NEW d \in Nat \ {0}, NEW t \in 0 .. CeilDiv(n, d) - 1
  PROVE  /\ t * d \in 0 .. n - 1 /\ (t * d) \div d = t
         /\ Least((t + 1) * d, n) - 1 \in 0 .. n - 1
         /\ (Least((t + 1) * d, n) - 1) \div d = t
<1>1. CeilDiv(n, d) \in Nat
  BY CeilDivEnough
<1>2. t \in Nat /\ t * d < n
  BY <1>1, TileIndex
<1>3. t * d \in Nat /\ d * t = t * d /\ (t + 1) * d = t * d + d
  BY <1>2, SMT
<1>4. PICK x \in Nat, y \in Nat : x = t * d /\ y = (t + 1) * d
  BY <1>3
<1>5. x < n /\ y = x + d /\ d * t = x
  BY <1>2, <1>3, <1>4
<1>6. x \div d = t
  BY <1>2, <1>5, DivUnique
<1>7. Least(y, n) - 1 \in 0 .. n - 1 /\ x <= Least(y, n) - 1 /\ Least(y, n) - 1 < x + d
  BY <1>5 DEF Least
<1>8. PICK l \in Nat : l = Least(y, n) - 1
  BY <1>7
<1>9. l \div d = t
  BY <1>2, <1>5, <1>7, <1>8, DivUnique
<1> QED
  BY <1>4, <1>5, <1>6, <1>7, <1>8, <1>9

AllTiles(s, a) == (0 .. QueryTiles(s, a) - 1) \X (0 .. KeyTiles(s, a) - 1)
HiddenTiles(s, a) ==
  {t \in AllTiles(s, a) : s.causal /\ t[2] * a.kvTile > LastQuery(s, a, t[1])}
SeenTiles(s, a) ==
  {<<p[1] \div a.queryTile, p[2] \div a.kvTile>> : p \in VisiblePairs(s)}

(* A tile is visible unless its first key is hidden from its last query.   *)
LEMMA SeenOrHidden ==
  ASSUME NEW s, IsShape(s), NEW a, a.queryTile \in 1 .. s.sq, a.kvTile \in 1 .. s.sk
  PROVE  SeenTiles(s, a) = AllTiles(s, a) \ HiddenTiles(s, a)
<1>1. PICK sq, sk, qt, kt : sq = s.sq /\ sk = s.sk /\ qt = a.queryTile /\ kt = a.kvTile
  OBVIOUS
<1>2. /\ sq \in Nat \ {0} /\ sk \in Nat \ {0} /\ qt \in Nat \ {0} /\ kt \in Nat \ {0}
      /\ s.causal => sq <= sk
  BY <1>1 DEF IsShape
<1>3. /\ AllTiles(s, a) = (0 .. CeilDiv(sq, qt) - 1) \X (0 .. CeilDiv(sk, kt) - 1)
      /\ \A b : LastQuery(s, a, b) = sk - sq + Least((b + 1) * qt, sq) - 1
      /\ VisiblePairs(s) = {p \in (0 .. sq - 1) \X (0 .. sk - 1) : s.causal => p[2] <= sk - sq + p[1]}
      /\ SeenTiles(s, a) = {<<p[1] \div qt, p[2] \div kt>> : p \in VisiblePairs(s)}
      /\ HiddenTiles(s, a) = {t \in AllTiles(s, a) : s.causal /\ t[2] * kt > LastQuery(s, a, t[1])}
  BY <1>1 DEF AllTiles, QueryTiles, KeyTiles, LastQuery, VisiblePairs, SeenTiles, HiddenTiles
<1>4. ASSUME NEW p \in VisiblePairs(s)
      PROVE  <<p[1] \div qt, p[2] \div kt>> \in AllTiles(s, a) \ HiddenTiles(s, a)
  <2>1. PICK x \in 0 .. sq - 1, y \in 0 .. sk - 1 : p = <<x, y>> /\ (s.causal => y <= sk - sq + x)
    BY <1>3
  <2>2. PICK u, v : u = x \div qt /\ v = y \div kt
    OBVIOUS
  <2>3. /\ u \in 0 .. CeilDiv(sq, qt) - 1 /\ x < (u + 1) * qt
        /\ v \in 0 .. CeilDiv(sk, kt) - 1 /\ v * kt <= y
    BY <1>2, <2>2, TileOf
  <2>4. CeilDiv(sq, qt) \in Nat /\ CeilDiv(sk, kt) \in Nat
    BY <1>2, CeilDivEnough
  <2>5. u \in Nat /\ v \in Nat /\ (u + 1) * qt \in Nat /\ v * kt \in Nat
    BY <1>2, <2>3, <2>4, SMT
  <2>6. PICK e \in Nat, g \in Nat : e = (u + 1) * qt /\ g = v * kt
    BY <2>5
  <2>7. s.causal => g <= sk - sq + Least(e, sq) - 1
    BY <1>2, <2>1, <2>3, <2>6 DEF Least
  <2>8. ~(s.causal /\ v * kt > LastQuery(s, a, u))
    BY <1>2, <1>3, <2>6, <2>7 DEF Least
  <2>9. <<u, v>> \in AllTiles(s, a) /\ <<u, v>> \notin HiddenTiles(s, a)
    BY <1>3, <2>3, <2>8
  <2> QED
    BY <2>1, <2>2, <2>9
<1>5. ASSUME NEW t \in AllTiles(s, a), t \notin HiddenTiles(s, a)
      PROVE  \E p \in VisiblePairs(s) : t = <<p[1] \div qt, p[2] \div kt>>
  <2>1. PICK u \in 0 .. CeilDiv(sq, qt) - 1, v \in 0 .. CeilDiv(sk, kt) - 1 : t = <<u, v>>
    BY <1>3
  <2> DEFINE x == Least((u + 1) * qt, sq) - 1
             y == v * kt
  <2>2. x \in 0 .. sq - 1 /\ x \div qt = u /\ y \in 0 .. sk - 1 /\ y \div kt = v
    BY <1>2, FirstAndLastOfTile
  <2>3. s.causal => ~(y > LastQuery(s, a, u))
    BY <1>3, <1>5, <2>1
  <2>4. LastQuery(s, a, u) = sk - sq + Least((u + 1) * qt, sq) - 1
    BY <1>3
  <2>5. PICK e : e = Least((u + 1) * qt, sq)
    OBVIOUS
  <2>6. x = e - 1
    BY <2>5
  <2> HIDE DEF x, y
  <2>7. s.causal => ~(y > sk - sq + e - 1)
    BY <2>3, <2>4, <2>5
  <2>8. e \in Int
    <3>1. CeilDiv(sq, qt) \in Nat
      BY <1>2, CeilDivEnough
    <3>2. (u + 1) * qt \in Int
      BY <1>2, <3>1, SMT
    <3> QED
      BY <1>2, <2>5, <3>2 DEF Least
  <2>9. s.causal => y <= sk - sq + x
    BY <1>2, <2>2, <2>6, <2>7, <2>8
  <2>10. <<x, y>> \in VisiblePairs(s)
    BY <1>3, <2>2, <2>9
  <2> QED
    BY <2>1, <2>2, <2>10
<1> QED
  BY <1>3, <1>4, <1>5

LEMMA IntervalSize == \A n \in Nat : IsFiniteSet(0 .. n - 1) /\ Cardinality(0 .. n - 1) = n
<1> TAKE n \in Nat
<1>1. 0 \in Int /\ n - 1 \in Int
  OBVIOUS
<1>2. IsFiniteSet(0 .. n - 1) /\ Cardinality(0 .. n - 1) = IF 0 > n - 1 THEN 0 ELSE n - 1 - 0 + 1
  BY ONLY <1>1, FS_Interval
<1> QED
  BY <1>2

LEMMA ProductSize ==
  ASSUME NEW n \in Nat, NEW m \in Nat
  PROVE  /\ IsFiniteSet((0 .. n - 1) \X (0 .. m - 1))
         /\ Cardinality((0 .. n - 1) \X (0 .. m - 1)) = n * m
<1>1. PICK A, B : A = 0 .. n - 1 /\ B = 0 .. m - 1
  OBVIOUS
<1>2. IsFiniteSet(A) /\ IsFiniteSet(B) /\ Cardinality(A) = n /\ Cardinality(B) = m
  BY <1>1, IntervalSize
<1>3. IsFiniteSet(A \X B) /\ Cardinality(A \X B) = Cardinality(A) * Cardinality(B)
  BY ONLY <1>2, FS_Product
<1> QED
  BY <1>1, <1>2, <1>3

LEMMA Distribute ==
  ASSUME NEW k \in Nat, NEW q \in Nat, NEW r \in Nat, NEW c \in Nat, c <= q * r
  PROVE  /\ k * q * r \in Nat /\ k * c \in Nat /\ k * c <= k * q * r
         /\ k * (q * r - c) = k * q * r - k * c
<1>1. PICK p \in Nat : p = q * r
  <2>1. q * r \in Nat
    BY SMT
  <2> QED
    BY <2>1
<1>2. k * q * r = k * p
  <2>1. k * q * r = k * (q * r)
    BY SMT
  <2> QED
    BY <1>1, <2>1
<1>3. k * p \in Nat /\ k * c \in Nat /\ k * (p - c) = k * p - k * c /\ (c <= p => k * c <= k * p)
  BY SMT
<1> QED
  BY <1>1, <1>2, <1>3

LEMMA TilesAreCounted ==
  ASSUME NEW s, IsShape(s), NEW a, a.queryTile \in 1 .. s.sq, a.kvTile \in 1 .. s.sk
  PROVE  QkTiles(s, a) = VisibleTiles(s, a)
<1>1. PICK k, q, r : k = s.batch * s.heads /\ q = QueryTiles(s, a) /\ r = KeyTiles(s, a)
  OBVIOUS
<1>2. k \in Nat /\ q \in Nat /\ r \in Nat
  <2>1. /\ s.batch \in Nat /\ s.heads \in Nat /\ s.sq \in Nat \ {0} /\ s.sk \in Nat \ {0}
        /\ a.queryTile \in Nat \ {0} /\ a.kvTile \in Nat \ {0}
    BY DEF IsShape
  <2>2. k \in Nat
    BY <1>1, <2>1, SMT
  <2> QED
    BY <1>1, <2>1, <2>2, CeilDivEnough DEF QueryTiles, KeyTiles
<1>3. AllTiles(s, a) = (0 .. q - 1) \X (0 .. r - 1)
  BY <1>1 DEF AllTiles
<1>4. IsFiniteSet(AllTiles(s, a)) /\ Cardinality(AllTiles(s, a)) = q * r
  BY <1>2, <1>3, ProductSize
<1>5. HiddenTiles(s, a) \in SUBSET AllTiles(s, a)
  BY DEF HiddenTiles
<1>6. PICK c : c = Cardinality(HiddenTiles(s, a))
  OBVIOUS
<1>7. c \in Nat /\ c <= q * r /\ IsFiniteSet(HiddenTiles(s, a))
  BY <1>4, <1>5, <1>6, FS_Subset, FS_CardinalityType
<1>8. Cardinality(SeenTiles(s, a)) = q * r - c
  <2>1. AllTiles(s, a) \cap HiddenTiles(s, a) = HiddenTiles(s, a)
    BY <1>5
  <2>2. PICK A, H : A = AllTiles(s, a) /\ H = HiddenTiles(s, a)
    OBVIOUS
  <2>3. Cardinality(A \ H) = Cardinality(A) - Cardinality(A \cap H)
    BY <1>4, <2>2, FS_Difference
  <2>4. Cardinality(AllTiles(s, a) \ HiddenTiles(s, a)) = q * r - c
    BY <1>4, <1>6, <2>1, <2>2, <2>3
  <2> QED
    BY <2>4, SeenOrHidden
<1>9. VisibleTiles(s, a) = k * (q * r - c)
  BY <1>1, <1>8 DEF VisibleTiles, SeenTiles
<1>10. SkippedTiles(s, a) = k * c
  <2>1. CASE s.causal
    <3>1. HiddenTiles(s, a) = {t \in AllTiles(s, a) : t[2] * a.kvTile > LastQuery(s, a, t[1])}
      BY <2>1 DEF HiddenTiles
    <3> QED
      BY <1>1, <1>6, <2>1, <3>1 DEF SkippedTiles, AllTiles
  <2>2. CASE ~s.causal
    <3>1. HiddenTiles(s, a) = {}
      BY <2>2 DEF HiddenTiles
    <3>2. c = 0
      BY <1>6, <3>1, FS_EmptySet
    <3> QED
      BY <1>2, <2>2, <3>2 DEF SkippedTiles
  <2> QED
    BY <2>1, <2>2
<1>11. QkTiles(s, a) = k * q * r - Least(k * q * r, k * c)
  BY <1>1, <1>10 DEF QkTiles
<1>12. /\ k * q * r \in Nat /\ k * c \in Nat /\ k * c <= k * q * r
       /\ k * (q * r - c) = k * q * r - k * c
  BY ONLY <1>2, <1>7, Distribute
<1> QED
  BY <1>9, <1>11, <1>12 DEF Least

-----------------------------------------------------------------------------
(* Scores: the pairs of the first n queries.                               *)

PairsUpTo(s, n) == {p \in (0 .. n - 1) \X (0 .. s.sk - 1) : p[2] <= s.sk - s.sq + p[1]}

LEMMA OneMoreQuery ==
  ASSUME NEW s, IsShape(s), s.causal, NEW n \in 0 .. s.sq - 1
  PROVE  /\ IsFiniteSet(PairsUpTo(s, n)) /\ IsFiniteSet(PairsUpTo(s, n + 1))
         /\ Cardinality(PairsUpTo(s, n + 1)) = Cardinality(PairsUpTo(s, n)) + KeysSeen(s, n)
<1>1. PICK sq, sk : sq = s.sq /\ sk = s.sk
  OBVIOUS
<1>2. sq \in Nat \ {0} /\ sk \in Nat \ {0} /\ sq <= sk /\ n \in Nat /\ n < sq
  BY <1>1 DEF IsShape
<1>3. PICK k : k = KeysSeen(s, n)
  OBVIOUS
<1>4. k \in Nat /\ k = sk - sq + n + 1 /\ k <= sk
  BY <1>1, <1>2, <1>3 DEF KeysSeen, Clamp
<1> DEFINE row == {n} \X (0 .. k - 1)
           upTo(m) == {p \in (0 .. m - 1) \X (0 .. sk - 1) : p[2] <= sk - sq + p[1]}
<1>5. \A m : PairsUpTo(s, m) = upTo(m)
  BY <1>1 DEF PairsUpTo
<1>6. IsFiniteSet(upTo(n)) /\ IsFiniteSet(upTo(n + 1))
  <2>1. \A m \in Nat : IsFiniteSet((0 .. m - 1) \X (0 .. sk - 1))
    BY <1>2, ProductSize
  <2>2. \A m : upTo(m) \in SUBSET ((0 .. m - 1) \X (0 .. sk - 1))
    OBVIOUS
  <2>3. n + 1 \in Nat
    BY <1>2
  <2> HIDE DEF upTo
  <2> QED
    BY <1>2, <2>1, <2>2, <2>3, FS_Subset
<1>7. IsFiniteSet(row) /\ Cardinality(row) = k
  <2>1. IsFiniteSet({n}) /\ Cardinality({n}) = 1
    BY FS_Singleton
  <2>2. IsFiniteSet(0 .. k - 1) /\ Cardinality(0 .. k - 1) = k
    BY <1>4, IntervalSize
  <2>4. PICK A, B : A = {n} /\ B = 0 .. k - 1
    OBVIOUS
  <2>5. IsFiniteSet(A \X B) /\ Cardinality(A \X B) = Cardinality(A) * Cardinality(B)
    BY <2>1, <2>2, <2>4, FS_Product
  <2>3. IsFiniteSet(row) /\ Cardinality(row) = 1 * k
    BY <2>1, <2>2, <2>4, <2>5
  <2> QED
    BY <1>4, <2>3
<1>8. upTo(n + 1) = upTo(n) \cup row
  <2>1. ASSUME NEW p \in upTo(n + 1) PROVE p \in upTo(n) \cup row
    <3>1. PICK x \in 0 .. n + 1 - 1, y \in 0 .. sk - 1 : p = <<x, y>> /\ y <= sk - sq + x
      OBVIOUS
    <3>2. CASE x = n
      <4>1. y \in 0 .. k - 1
        BY <1>2, <1>4, <3>1, <3>2
      <4> QED
        BY <3>1, <3>2, <4>1
    <3>3. CASE x # n
      <4>1. x \in 0 .. n - 1
        BY <1>2, <3>3
      <4> QED
        BY <3>1, <4>1
    <3> QED
      BY <3>2, <3>3
  <2>2. ASSUME NEW p \in upTo(n) PROVE p \in upTo(n + 1)
    <3>1. PICK x \in 0 .. n - 1, y \in 0 .. sk - 1 : p = <<x, y>> /\ y <= sk - sq + x
      OBVIOUS
    <3>2. x \in 0 .. n + 1 - 1
      BY <1>2
    <3> QED
      BY <3>1, <3>2
  <2>3. ASSUME NEW p \in row PROVE p \in upTo(n + 1)
    <3>1. PICK y \in 0 .. k - 1 : p = <<n, y>>
      OBVIOUS
    <3>2. n \in 0 .. n + 1 - 1 /\ y \in 0 .. sk - 1 /\ y <= sk - sq + n
      BY <1>2, <1>4
    <3> QED
      BY <3>1, <3>2
  <2> HIDE DEF upTo, row
  <2> QED
    BY <2>1, <2>2, <2>3
<1>9. upTo(n) \cap row = {}
  BY <1>2
<1> HIDE DEF upTo, row
<1>10. Cardinality(upTo(n + 1)) = Cardinality(upTo(n)) + k - 0
  BY <1>6, <1>7, <1>8, <1>9, FS_Union, FS_EmptySet
<1>11. Cardinality(upTo(n)) \in Nat
  BY <1>6, FS_CardinalityType
<1> QED
  BY <1>3, <1>4, <1>5, <1>6, <1>10, <1>11

(* The sum query by query.                                                 *)
Sums(f, s, n) == f = [i \in 0 .. n |-> IF i = 0 THEN 0 ELSE f[i - 1] + KeysSeen(s, i - 1)]

LEMMA ScoresPerHeadIs ==
  ASSUME NEW s
  PROVE  s.causal =>
           ScoresPerHead(s) = (CHOOSE f : f = [n \in 0 .. s.sq |->
                                 IF n = 0 THEN 0 ELSE f[n - 1] + KeysSeen(s, n - 1)])[s.sq]
BY Zenon DEF ScoresPerHead

LEMMA CountsAreSums ==
  ASSUME NEW s, IsShape(s), s.causal
  PROVE  Sums([n \in 0 .. s.sq |-> Cardinality(PairsUpTo(s, n))], s, s.sq)
<1> DEFINE f == [n \in 0 .. s.sq |-> Cardinality(PairsUpTo(s, n))]
<1>1. s.sq \in Nat \ {0}
  BY DEF IsShape
<1>2. ASSUME NEW i \in 0 .. s.sq PROVE f[i] = IF i = 0 THEN 0 ELSE f[i - 1] + KeysSeen(s, i - 1)
  <2>1. CASE i = 0
    <3>1. PairsUpTo(s, 0) = {}
      <4>1. 0 .. 0 - 1 = {}
        OBVIOUS
      <4> QED
        BY <4>1 DEF PairsUpTo
    <3> QED
      BY <2>1, <3>1, FS_EmptySet
  <2>2. CASE i # 0
    <3>1. i - 1 \in 0 .. s.sq - 1 /\ i - 1 \in 0 .. s.sq /\ (i - 1) + 1 = i
      BY <1>1, <2>2
    <3>2. Cardinality(PairsUpTo(s, i - 1 + 1)) = Cardinality(PairsUpTo(s, i - 1)) + KeysSeen(s, i - 1)
      BY <3>1, OneMoreQuery
    <3> QED
      BY <2>2, <3>1, <3>2
  <2> QED
    BY <2>1, <2>2
<1>3. f = [i \in 0 .. s.sq |-> f[i]]
  OBVIOUS
<1>4. PICK g : g = f
  OBVIOUS
<1>5. g = [i \in 0 .. s.sq |-> IF i = 0 THEN 0 ELSE g[i - 1] + KeysSeen(s, i - 1)]
  <2> HIDE DEF f
  <2> QED
    BY <1>2, <1>3, <1>4
<1> QED
  BY <1>4, <1>5 DEF Sums

LEMMA SumsAreUnique ==
  ASSUME NEW s, NEW m \in Nat, NEW f, NEW g, Sums(f, s, m), Sums(g, s, m)
  PROVE  f[m] = g[m]
<1> DEFINE A == {i \in 0 .. m : f[i] = g[i]}
<1>1. SUFFICES ASSUME m \notin A PROVE FALSE
  OBVIOUS
<1>2. PICK i \in 0 .. m : i \notin A /\ \A j \in 0 .. i - 1 : j \in A
  <2> HIDE DEF A
  <2> QED
    BY <1>1, NatInduct
<1>3. /\ f[i] = IF i = 0 THEN 0 ELSE f[i - 1] + KeysSeen(s, i - 1)
      /\ g[i] = IF i = 0 THEN 0 ELSE g[i - 1] + KeysSeen(s, i - 1)
  BY DEF Sums
<1>4. i # 0 => i - 1 \in 0 .. i - 1
  OBVIOUS
<1> QED
  BY <1>2, <1>3, <1>4

LEMMA ScoresAreCounted ==
  ASSUME NEW s, IsShape(s)
  PROVE  ScoresPerHead(s) = Cardinality(VisiblePairs(s))
<1>1. s.sq \in Nat \ {0} /\ s.sk \in Nat \ {0}
  BY DEF IsShape
<1>2. CASE ~s.causal
  <2>1. VisiblePairs(s) = (0 .. s.sq - 1) \X (0 .. s.sk - 1)
    BY <1>2 DEF VisiblePairs
  <2> QED
    BY <1>1, <1>2, <2>1, ProductSize DEF ScoresPerHead
<1>3. CASE s.causal
  <2>1. Sums([n \in 0 .. s.sq |-> Cardinality(PairsUpTo(s, n))], s, s.sq)
    BY <1>3, CountsAreSums
  <2> DEFINE f == CHOOSE f : f = [n \in 0 .. s.sq |-> IF n = 0 THEN 0 ELSE f[n - 1] + KeysSeen(s, n - 1)]
  <2>2. ScoresPerHead(s) = f[s.sq]
    BY <1>3, ScoresPerHeadIs
  <2>3. Sums(f, s, s.sq)
    <3>1. \E g : g = [n \in 0 .. s.sq |-> IF n = 0 THEN 0 ELSE g[n - 1] + KeysSeen(s, n - 1)]
      BY <2>1 DEF Sums
    <3> QED
      BY ONLY <3>1, Zenon DEF Sums
  <2>4. PICK g : g = f
    OBVIOUS
  <2> HIDE DEF f
  <2>5. g[s.sq] = [n \in 0 .. s.sq |-> Cardinality(PairsUpTo(s, n))][s.sq]
    BY <1>1, <2>1, <2>3, <2>4, SumsAreUnique
  <2>6. PairsUpTo(s, s.sq) = VisiblePairs(s)
    BY <1>3 DEF PairsUpTo, VisiblePairs
  <2> QED
    BY <1>1, <2>2, <2>4, <2>5, <2>6
<1> QED
  BY <1>2, <1>3

(* For every shape and every plan that was selected, tuned or compiled,    *)
(* simulate_attention counts the tiles in which some query sees a key, and *)
(* the pairs a causal mask leaves.                                         *)
THEOREM SimulationCountsVisibleTiles == PlanSpec => []SimulatedTilesAreVisible
<1>1. PlanInv => SimulatedTilesAreVisible
  <2> SUFFICES ASSUME PlanInv, plan # None
               PROVE  LET s == Shape(Config)
                      IN /\ QkTiles(s, plan.attention) = VisibleTiles(s, plan.attention)
                         /\ ScoreCount(s) = s.batch * s.heads * Cardinality(VisiblePairs(s))
    BY DEF SimulatedTilesAreVisible
  <2>1. IsLayer(Config) /\ IsTarget(call.target)
    BY DefaultFacts
  <2>2. IsShape(Shape(Config))
    BY <2>1 DEF IsLayer
  <2>3. PICK p \in PolicySet, a \in Attentions : plan = Compile(Config, call.target, p, a)
    BY DEF PlanInv, PlanIsCompiled
  <2>4. /\ plan.attention.queryTile \in 1 .. Shape(Config).sq
        /\ plan.attention.kvTile \in 1 .. Shape(Config).sk
    BY <2>1, <2>3, CompileType
  <2> QED
    BY <2>2, <2>4, TilesAreCounted, ScoresAreCounted DEF ScoreCount
<1> QED
  BY <1>1, PlansAreCompiled, PTL

-----------------------------------------------------------------------------
(* The decoder layer: what an execution computes.  A tensor is followed    *)
(* from the packed weights to the output by the coordinates of its         *)
(* elements: the row and column of a matrix, the batch, head, token and    *)
(* dimension of a head-major tensor.                                       *)

(* Cells of a matrix and of a head-major tensor, and their coordinates.    *)
LEMMA Cell ==
  ASSUME NEW m \in Nat, NEW n \in Nat \ {0}, NEW r \in 0 .. m - 1, NEW j \in 0 .. n - 1
  PROVE  /\ r * n + j \in 0 .. m * n - 1
         /\ (r * n + j) \div n = r /\ (r * n + j) % n = j
<1>1. n * r + j \in 0 .. m * n - 1 /\ (n * r + j) \div n = r /\ (n * r + j) % n = j
  BY FlatIs
<1>2. n * r = r * n
  OBVIOUS
<1> QED
  BY <1>1, <1>2

LEMMA CellOf ==
  ASSUME NEW m \in Nat, NEW n \in Nat \ {0}, NEW i \in 0 .. m * n - 1
  PROVE  i \div n \in 0 .. m - 1 /\ i % n \in 0 .. n - 1 /\ i = (i \div n) * n + (i % n)
<1>1. i \div n \in 0 .. m - 1 /\ i % n \in 0 .. n - 1 /\ i = n * (i \div n) + (i % n)
  BY FlatParts
<1>2. n * (i \div n) = (i \div n) * n
  BY <1>1
<1> QED
  BY <1>1, <1>2

LEMMA CellExists ==
  ASSUME NEW m \in Nat, NEW n \in Nat \ {0}, NEW i \in 0 .. m * n - 1
  PROVE  \E r \in 0 .. m - 1, j \in 0 .. n - 1 : i = r * n + j
<1>1. i \div n \in 0 .. m - 1 /\ i % n \in 0 .. n - 1 /\ i = (i \div n) * n + (i % n)
  BY CellOf
<1> QED
  BY <1>1, Zenon

HasCoordinates(i, B, H, T, D, b, h, t, d) ==
  /\ i \in 0 .. B * T * H * D - 1
  /\ BatchOf(H, T, D, i) = b /\ HeadOf(H, T, D, i) = h /\ TokenOf(T, D, i) = t /\ i % D = d

LEMMA HeadCell ==
  ASSUME NEW B \in Nat \ {0}, NEW H \in Nat \ {0}, NEW T \in Nat \ {0}, NEW D \in Nat \ {0},
         NEW b \in 0 .. B - 1, NEW h \in 0 .. H - 1, NEW t \in 0 .. T - 1, NEW d \in 0 .. D - 1
  PROVE  HasCoordinates(HeadMajor(H, T, D, b, h, t, d), B, H, T, D, b, h, t, d)
<1>0. PICK i : i = HeadMajor(H, T, D, b, h, t, d)
  OBVIOUS
<1>1. PICK row \in 0 .. B * H - 1 : row = b * H + h /\ row \div H = b /\ row % H = h
  BY Cell
<1>2. B * H \in Nat
  OBVIOUS
<1>3. PICK col \in 0 .. B * H * T - 1 : col = row * T + t /\ col \div T = row /\ col % T = t
  BY <1>2, Cell
<1>4. B * H * T \in Nat
  OBVIOUS
<1>5. i = col * D + d
  BY <1>0, <1>1, <1>3 DEF HeadMajor
<1>6. i \in 0 .. B * H * T * D - 1 /\ i \div D = col /\ i % D = d
  BY <1>4, <1>5, Cell
<1>7. B * H * T * D = B * T * H * D
  OBVIOUS
<1>8. TokenOf(T, D, i) = t
  BY <1>3, <1>6 DEF TokenOf
<1>9. HeadOf(H, T, D, i) = h
  <2>1. PICK rest \in 0 .. T * D - 1 : rest = t * D + d
    BY Cell
  <2>2. i = row * (T * D) + rest
    <3>1. (row * T + t) * D = row * (T * D) + t * D
      BY <1>2
    <3> QED
      BY <1>3, <1>5, <2>1, <3>1
  <2>3. T * D \in Nat \ {0}
    BY TimesIsPositive
  <2>4. i \div (T * D) = row
    BY <1>2, <2>1, <2>2, <2>3, Cell
  <2> QED
    BY <1>1, <2>4 DEF HeadOf
<1>10. BatchOf(H, T, D, i) = b
  <2>1. PICK low \in 0 .. H * T - 1 : low = h * T + t
    BY Cell
  <2>2. H * T \in Nat
    OBVIOUS
  <2>3. PICK rest \in 0 .. H * T * D - 1 : rest = low * D + d
    BY <2>2, Cell
  <2>4. i = b * (H * T * D) + rest
    <3>1. row * T + t = b * (H * T) + low
      BY <1>1, <2>1
    <3>2. (b * (H * T) + low) * D = b * (H * T * D) + low * D
      BY <2>1, <2>2
    <3> QED
      BY <1>3, <1>5, <2>3, <3>1, <3>2
  <2>5. H * T * D \in Nat \ {0}
    BY TimesIsPositive
  <2>6. i \div (H * T * D) = b
    BY <2>3, <2>4, <2>5, Cell
  <2> QED
    BY <2>6 DEF BatchOf
<1> QED
  BY <1>0, <1>6, <1>7, <1>8, <1>9, <1>10 DEF HasCoordinates

LEMMA HeadCellOf ==
  ASSUME NEW B \in Nat \ {0}, NEW H \in Nat \ {0}, NEW T \in Nat \ {0}, NEW D \in Nat \ {0},
         NEW i \in 0 .. B * T * H * D - 1
  PROVE  \E b \in 0 .. B - 1, h \in 0 .. H - 1, t \in 0 .. T - 1, d \in 0 .. D - 1 :
           i = HeadMajor(H, T, D, b, h, t, d)
<1>1. B * T * H * D = B * H * T * D
  OBVIOUS
<1>2. B * H \in Nat /\ B * H * T \in Nat
  OBVIOUS
<1>3. PICK col \in 0 .. B * H * T - 1, d \in 0 .. D - 1 : i = col * D + d
  <2>1. PICK m \in Nat : m = B * H * T
    BY <1>2
  <2>2. i \in 0 .. m * D - 1
    BY <1>1, <2>1
  <2>3. \E col \in 0 .. m - 1, d \in 0 .. D - 1 : i = col * D + d
    BY ONLY <2>2, CellExists, m \in Nat, D \in Nat \ {0}, Zenon
  <2> QED
    BY <2>1, <2>3
<1>4. PICK row \in 0 .. B * H - 1, t \in 0 .. T - 1 : col = row * T + t
  <2>1. PICK m \in Nat : m = B * H
    BY <1>2
  <2>2. col \in 0 .. m * T - 1
    BY <2>1
  <2>3. \E row \in 0 .. m - 1, t \in 0 .. T - 1 : col = row * T + t
    BY ONLY <2>2, CellExists, m \in Nat, T \in Nat \ {0}, Zenon
  <2> QED
    BY <2>1, <2>3
<1>5. PICK b \in 0 .. B - 1, h \in 0 .. H - 1 : row = b * H + h
  <2>1. B \in Nat /\ row \in 0 .. B * H - 1
    OBVIOUS
  <2> QED
    BY ONLY <2>1, CellExists, H \in Nat \ {0}, ZenonT(30)
<1>6. i = HeadMajor(H, T, D, b, h, t, d)
  BY <1>3, <1>4, <1>5 DEF HeadMajor
<1> QED
  BY <1>6

-----------------------------------------------------------------------------
(* Packed weights.                                                         *)
ColumnsSolve(f, widths) ==
  f = [s \in 1 .. Len(widths) + 1 |-> IF s = 1 THEN 0 ELSE f[s - 1] + widths[s - 1]]

LEMMA ColumnsBeforeIs ==
  ASSUME NEW widths, NEW t
  PROVE  ColumnsBefore(widths, t) = (CHOOSE f : ColumnsSolve(f, widths))[t]
BY ZenonT(60) DEF ColumnsBefore, ColumnsSolve

LEMMA ColumnsGrow ==
  ASSUME NEW widths \in Seq(Nat)
  PROVE  /\ ColumnsBefore(widths, 1) = 0
         /\ \A t \in 1 .. Len(widths) :
              ColumnsBefore(widths, t + 1) = ColumnsBefore(widths, t) + widths[t]
<1>1. PICK n \in Nat : n = Len(widths)
  OBVIOUS
<1>2. \A i \in 1 .. n : widths[i] \in Nat
  BY <1>1
<1>3. \E g : ColumnsSolve(g, widths)
  <2> DEFINE S == [i \in 0 .. n |-> Nat]
             step == [i \in 1 .. n |-> [x \in Nat |-> x + widths[i]]]
  <2>1. 0 \in S[0] /\ \A i \in 1 .. n : \A x \in S[i - 1] : step[i][x] \in S[i]
    BY <1>2
  <2>2. \A i \in 1 .. n : \A x \in Nat : step[i][x] = x + widths[i]
    OBVIOUS
  <2>3. \A i \in 0 .. n : S[i] = Nat
    OBVIOUS
  <2> HIDE DEF S, step
  <2>4. PICK f : Iterates(f, 0, step, n) /\ \A i \in 0 .. n : f[i] \in S[i]
    BY <2>1, IterationExists
  <2>5. f[0] = 0 /\ \A i \in 1 .. n : f[i] = f[i - 1] + widths[i]
    <3>1. f = [i \in 0 .. n |-> IF i = 0 THEN 0 ELSE step[i][f[i - 1]]]
      BY <2>4 DEF Iterates
    <3>2. f[0] = 0
      BY <3>1
    <3>3. ASSUME NEW i \in 1 .. n PROVE f[i] = f[i - 1] + widths[i]
      <4>1. i \in 0 .. n /\ i - 1 \in 0 .. n /\ i # 0
        OBVIOUS
      <4>2. f[i] = step[i][f[i - 1]]
        BY <3>1, <4>1
      <4>3. f[i - 1] \in Nat
        BY <2>3, <2>4, <4>1
      <4> QED
        BY <2>2, <4>2, <4>3
    <3> QED
      BY <3>2, <3>3
  <2> DEFINE g == [s \in 1 .. n + 1 |-> f[s - 1]]
  <2>6. \A s \in 1 .. n + 1 : g[s] = IF s = 1 THEN 0 ELSE g[s - 1] + widths[s - 1]
    BY <2>5
  <2>7. g = [s \in 1 .. n + 1 |-> IF s = 1 THEN 0 ELSE g[s - 1] + widths[s - 1]]
    BY <2>6
  <2> QED
    BY <1>1, <2>7 DEF ColumnsSolve
<1>4. PICK g : g = CHOOSE f : ColumnsSolve(f, widths)
  OBVIOUS
<1>5. g = [s \in 1 .. n + 1 |-> IF s = 1 THEN 0 ELSE g[s - 1] + widths[s - 1]]
  <2>1. ColumnsSolve(g, widths)
    BY <1>3, <1>4
  <2> QED
    BY <1>1, <2>1 DEF ColumnsSolve
<1>6. \A t : ColumnsBefore(widths, t) = g[t]
  BY <1>4, ColumnsBeforeIs
<1>7. g[1] = 0 /\ \A t \in 1 .. n : g[t + 1] = g[t] + widths[t]
  BY <1>5
<1> QED
  BY <1>1, <1>6, <1>7

(* An element of the packed matrix, when only one weight has its column.   *)
OnlyColumnOf(widths, u, j) ==
  \A t \in 1 .. Len(widths) :
    j \in ColumnsBefore(widths, t) .. ColumnsBefore(widths, t) + widths[t] - 1 <=> t = u

LEMMA PackedCell ==
  ASSUME NEW weights, NEW widths \in Seq(Nat), NEW k \in Nat,
         ColumnsBefore(widths, Len(widths) + 1) \in Nat \ {0},
         NEW p \in 0 .. k - 1, NEW j \in 0 .. ColumnsBefore(widths, Len(widths) + 1) - 1,
         NEW u \in 1 .. Len(widths), OnlyColumnOf(widths, u, j)
  PROVE  ConcatenateColumns(weights, k, widths)[p * ColumnsBefore(widths, Len(widths) + 1) + j] =
           weights[u][p * widths[u] + j - ColumnsBefore(widths, u)]
<1> DEFINE total == ColumnsBefore(widths, Len(widths) + 1)
           source(x) == CHOOSE t \in 1 .. Len(widths) :
                          x \in ColumnsBefore(widths, t) .. ColumnsBefore(widths, t) + widths[t] - 1
           value(x, t) == weights[t][(x \div total) * widths[t] + (x % total) - ColumnsBefore(widths, t)]
<1>1. ConcatenateColumns(weights, k, widths) = [x \in 0 .. k * total - 1 |-> value(x, source(x % total))]
  BY ZenonT(60) DEF ConcatenateColumns
<1>2. source(j) = u
  BY DEF OnlyColumnOf
<1> HIDE DEF source
<1>3. PICK n \in Nat \ {0} : n = total
  OBVIOUS
<1>4. j \in 0 .. n - 1
  BY <1>3
<1> HIDE DEF total
<1>5. PICK i : i = p * n + j
  OBVIOUS
<1>6. i \in 0 .. k * n - 1 /\ i \div n = p /\ i % n = j
  <2>1. k \in Nat /\ n \in Nat \ {0} /\ p \in 0 .. k - 1
    OBVIOUS
  <2> QED
    BY ONLY <1>4, <1>5, <2>1, Cell
<1>7. ConcatenateColumns(weights, k, widths)[i] = value(i, source(i % n))
  BY <1>1, <1>3, <1>6
<1>8. value(i, u) = weights[u][p * widths[u] + j - ColumnsBefore(widths, u)]
  BY <1>3, <1>6
<1>9. ConcatenateColumns(weights, k, widths)[p * total + j] =
        weights[u][p * widths[u] + j - ColumnsBefore(widths, u)]
  BY <1>2, <1>3, <1>5, <1>6, <1>7, <1>8
<1> QED
  BY <1>9 DEF total

LEMMA NamedCell ==
  ASSUME NEW name, NEW m \in Nat, NEW n \in Nat \ {0}, NEW r \in 0 .. m - 1, NEW j \in 0 .. n - 1
  PROVE  Named(name, m, n)[r * n + j] = <<name, r, j>>
<1>1. r * n + j \in 0 .. m * n - 1 /\ (r * n + j) \div n = r /\ (r * n + j) % n = j
  BY Cell
<1> QED
  BY <1>1 DEF Named

LEMMA LayerSizes ==
  ASSUME NEW c, IsLayer(c)
  PROVE  /\ c.batch \in Nat \ {0} /\ c.sequence \in Nat \ {0} /\ c.heads \in Nat \ {0}
         /\ c.kvHeads \in Nat \ {0} /\ c.dim \in Nat \ {0} /\ c.intermediate \in Nat \ {0}
         /\ c.context \in Nat /\ KeyLength(c) \in Nat \ {0}
         /\ TokenRows(c) \in Nat \ {0} /\ Hidden(c) \in Nat \ {0} /\ KvWidth(c) \in Nat \ {0}
         /\ QkvWidth(c) \in Nat \ {0} /\ QkvWidth(c) = Hidden(c) + KvWidth(c) + KvWidth(c)
<1>1. /\ c.batch \in Nat \ {0} /\ c.sequence \in Nat \ {0} /\ c.heads \in Nat \ {0}
      /\ c.kvHeads \in Nat \ {0} /\ c.dim \in Nat \ {0} /\ c.intermediate \in Nat \ {0}
      /\ c.context \in Nat
  BY DEF IsLayer
<1>2. TokenRows(c) \in Nat \ {0} /\ Hidden(c) \in Nat \ {0} /\ KvWidth(c) \in Nat \ {0}
  BY <1>1, TimesIsPositive DEF TokenRows, Hidden, KvWidth
<1>3. KeyLength(c) \in Nat \ {0}
  BY <1>1 DEF KeyLength
<1> QED
  BY <1>1, <1>2, <1>3 DEF QkvWidth

(* The n columns of a weight, from column `from` of the packed matrix.     *)
HasColumns(packed, p, total, from, weight, n) ==
  \A j \in 0 .. n - 1 : packed[p * total + from + j] = weight[p * n + j]

LEMMA PackedOfThree ==
  ASSUME NEW k \in Nat, NEW x \in Nat \ {0}, NEW y \in Nat \ {0}, NEW z \in Nat \ {0},
         NEW u, NEW v, NEW w, NEW p \in 0 .. k - 1
  PROVE  /\ HasColumns(ConcatenateColumns(<<u, v, w>>, k, <<x, y, z>>), p, x + y + z, 0, u, x)
         /\ HasColumns(ConcatenateColumns(<<u, v, w>>, k, <<x, y, z>>), p, x + y + z, x, v, y)
         /\ HasColumns(ConcatenateColumns(<<u, v, w>>, k, <<x, y, z>>), p, x + y + z, x + y, w, z)
<1> DEFINE widths == <<x, y, z>>
           weights == <<u, v, w>>
           packed == ConcatenateColumns(weights, k, widths)
<1>1. widths \in Seq(Nat) /\ Len(widths) = 3 /\ widths[1] = x /\ widths[2] = y /\ widths[3] = z
  OBVIOUS
<1>2. weights[1] = u /\ weights[2] = v /\ weights[3] = w
  OBVIOUS
<1> HIDE DEF widths, weights
<1>3. /\ ColumnsBefore(widths, 1) = 0
      /\ \A t \in 1 .. 3 : ColumnsBefore(widths, t + 1) = ColumnsBefore(widths, t) + widths[t]
  BY <1>1, ColumnsGrow
<1>4. /\ ColumnsBefore(widths, 2) = x /\ ColumnsBefore(widths, 3) = x + y
      /\ ColumnsBefore(widths, 4) = x + y + z
  <2>1. ColumnsBefore(widths, 1 + 1) = x
    BY <1>1, <1>3
  <2>2. ColumnsBefore(widths, 2 + 1) = ColumnsBefore(widths, 2) + y
    BY <1>1, <1>3
  <2>3. ColumnsBefore(widths, 3 + 1) = ColumnsBefore(widths, 3) + z
    BY <1>1, <1>3
  <2> QED
    BY <2>1, <2>2, <2>3
<1>5. ASSUME NEW i \in 1 .. 3, NEW j \in 0 .. widths[i] - 1
      PROVE  packed[p * (x + y + z) + ColumnsBefore(widths, i) + j] = weights[i][p * widths[i] + j]
  <2>1. PICK column : column = ColumnsBefore(widths, i) + j
    OBVIOUS
  <2>2. column \in 0 .. x + y + z - 1 /\ column - ColumnsBefore(widths, i) = j
    BY <1>1, <1>3, <1>4, <2>1
  <2>3. ASSUME NEW t \in 1 .. 3
        PROVE  column \in ColumnsBefore(widths, t) .. ColumnsBefore(widths, t) + widths[t] - 1 <=> t = i
    <3>1. t \in {1, 2, 3} /\ i \in {1, 2, 3}
      OBVIOUS
    <3>2. \/ i = 1 /\ column \in 0 .. x - 1
          \/ i = 2 /\ column \in x .. x + y - 1
          \/ i = 3 /\ column \in x + y .. x + y + z - 1
      <4>1. CASE i = 1
        BY <1>1, <1>3, <2>1, <4>1
      <4>2. CASE i = 2
        BY <1>1, <1>4, <2>1, <4>2
      <4>3. CASE i = 3
        BY <1>1, <1>4, <2>1, <4>3
      <4> QED
        BY <3>1, <4>1, <4>2, <4>3
    <3>3. /\ t = 1 => ColumnsBefore(widths, t) = 0 /\ widths[t] = x
          /\ t = 2 => ColumnsBefore(widths, t) = x /\ widths[t] = y
          /\ t = 3 => ColumnsBefore(widths, t) = x + y /\ widths[t] = z
      BY <1>1, <1>3, <1>4
    <3> QED
      BY <3>1, <3>2, <3>3
  <2>4. ColumnsBefore(widths, Len(widths) + 1) = x + y + z
    BY <1>1, <1>4
  <2>5. packed[p * ColumnsBefore(widths, Len(widths) + 1) + column] =
          weights[i][p * widths[i] + column - ColumnsBefore(widths, i)]
    <3>1. /\ ColumnsBefore(widths, Len(widths) + 1) \in Nat \ {0}
          /\ column \in 0 .. ColumnsBefore(widths, Len(widths) + 1) - 1
          /\ i \in 1 .. Len(widths)
      BY <1>1, <2>2, <2>4
    <3>0. widths \in Seq(Nat) /\ k \in Nat /\ p \in 0 .. k - 1
      BY <1>1
    <3>2. OnlyColumnOf(widths, i, column)
      BY <1>1, <2>3 DEF OnlyColumnOf
    <3> HIDE DEF packed
    <3>3. ConcatenateColumns(weights, k, widths)[p * ColumnsBefore(widths, Len(widths) + 1) + column] =
            weights[i][p * widths[i] + column - ColumnsBefore(widths, i)]
      BY ONLY <3>0, <3>1, <3>2, PackedCell
    <3> QED
      BY <3>3 DEF packed
  <2>6. p * widths[i] \in Int /\ ColumnsBefore(widths, i) \in Int /\ p * (x + y + z) \in Int
    BY <1>1, <1>3, <1>4
  <2>7. p * widths[i] + column - ColumnsBefore(widths, i) = p * widths[i] + j
    BY <2>1, <2>6
  <2>8. p * (x + y + z) + ColumnsBefore(widths, i) + j = p * (x + y + z) + column
    BY <2>1, <2>6
  <2> QED
    BY <2>4, <2>5, <2>7, <2>8
<1> HIDE DEF packed
<1>6. p * (x + y + z) \in Int
  OBVIOUS
<1>7. \A j \in 0 .. x - 1 : packed[p * (x + y + z) + j] = u[p * x + j]
  <2> TAKE j \in 0 .. x - 1
  <2>1. packed[p * (x + y + z) + ColumnsBefore(widths, 1) + j] = weights[1][p * widths[1] + j]
    <3>1. 1 \in 1 .. 3 /\ j \in 0 .. widths[1] - 1
      BY <1>1
    <3> QED
      BY <1>5, <3>1
  <2>2. p * (x + y + z) + ColumnsBefore(widths, 1) + j = p * (x + y + z) + j
    BY <1>3, <1>6
  <2> QED
    BY <1>1, <1>2, <2>1, <2>2
<1>8. \A j \in 0 .. y - 1 : packed[p * (x + y + z) + x + j] = v[p * y + j]
  <2> TAKE j \in 0 .. y - 1
  <2>1. packed[p * (x + y + z) + ColumnsBefore(widths, 2) + j] = weights[2][p * widths[2] + j]
    <3>1. 2 \in 1 .. 3 /\ j \in 0 .. widths[2] - 1
      BY <1>1
    <3> QED
      BY <1>5, <3>1
  <2> QED
    BY <1>1, <1>2, <1>4, <2>1
<1>9. \A j \in 0 .. z - 1 : packed[p * (x + y + z) + x + y + j] = w[p * z + j]
  <2> TAKE j \in 0 .. z - 1
  <2>1. packed[p * (x + y + z) + ColumnsBefore(widths, 3) + j] = weights[3][p * widths[3] + j]
    <3>1. 3 \in 1 .. 3 /\ j \in 0 .. widths[3] - 1
      BY <1>1
    <3> QED
      BY <1>5, <3>1
  <2>2. p * (x + y + z) + ColumnsBefore(widths, 3) + j = p * (x + y + z) + x + y + j
    BY <1>4, <1>6
  <2> QED
    BY <1>1, <1>2, <2>1, <2>2
<1>10. /\ HasColumns(packed, p, x + y + z, 0, u, x)
       /\ HasColumns(packed, p, x + y + z, x, v, y)
       /\ HasColumns(packed, p, x + y + z, x + y, w, z)
  <2>1. PICK start \in Int : start = p * (x + y + z)
    BY <1>6
  <2>2. \A j \in 0 .. x - 1 : start + 0 + j = start + j
    OBVIOUS
  <2>3. \A j \in 0 .. z - 1 : start + (x + y) + j = start + x + y + j
    OBVIOUS
  <2>4. \A j \in 0 .. x - 1 : packed[p * (x + y + z) + 0 + j] = u[p * x + j]
    BY <1>7, <2>1, <2>2
  <2>5. \A j \in 0 .. z - 1 : packed[p * (x + y + z) + (x + y) + j] = w[p * z + j]
    BY <1>9, <2>1, <2>3
  <2> QED
    BY <1>8, <2>4, <2>5, Zenon DEF HasColumns
<1> QED
  BY <1>10 DEF packed, weights, widths

LEMMA PackedOfTwo ==
  ASSUME NEW k \in Nat, NEW x \in Nat \ {0}, NEW y \in Nat \ {0}, NEW u, NEW v, NEW p \in 0 .. k - 1
  PROVE  /\ HasColumns(ConcatenateColumns(<<u, v>>, k, <<x, y>>), p, x + y, 0, u, x)
         /\ HasColumns(ConcatenateColumns(<<u, v>>, k, <<x, y>>), p, x + y, x, v, y)
<1> DEFINE widths == <<x, y>>
           weights == <<u, v>>
           packed == ConcatenateColumns(weights, k, widths)
<1>1. widths \in Seq(Nat) /\ Len(widths) = 2 /\ widths[1] = x /\ widths[2] = y
  OBVIOUS
<1>2. weights[1] = u /\ weights[2] = v
  OBVIOUS
<1> HIDE DEF widths, weights
<1>3. /\ ColumnsBefore(widths, 1) = 0
      /\ \A t \in 1 .. 2 : ColumnsBefore(widths, t + 1) = ColumnsBefore(widths, t) + widths[t]
  BY <1>1, ColumnsGrow
<1>4. ColumnsBefore(widths, 2) = x /\ ColumnsBefore(widths, 3) = x + y
  <2>1. ColumnsBefore(widths, 1 + 1) = x
    BY <1>1, <1>3
  <2>2. ColumnsBefore(widths, 2 + 1) = ColumnsBefore(widths, 2) + y
    BY <1>1, <1>3
  <2> QED
    BY <2>1, <2>2
<1>5. ASSUME NEW i \in 1 .. 2, NEW j \in 0 .. widths[i] - 1
      PROVE  packed[p * (x + y) + ColumnsBefore(widths, i) + j] = weights[i][p * widths[i] + j]
  <2>1. PICK column : column = ColumnsBefore(widths, i) + j
    OBVIOUS
  <2>2. column \in 0 .. x + y - 1 /\ column - ColumnsBefore(widths, i) = j
    BY <1>1, <1>3, <1>4, <2>1
  <2>3. ASSUME NEW t \in 1 .. 2
        PROVE  column \in ColumnsBefore(widths, t) .. ColumnsBefore(widths, t) + widths[t] - 1 <=> t = i
    <3>1. t \in {1, 2} /\ i \in {1, 2}
      OBVIOUS
    <3> QED
      BY <1>1, <1>3, <1>4, <2>1, <3>1
  <2>4. ColumnsBefore(widths, Len(widths) + 1) = x + y
    BY <1>1, <1>4
  <2>5. packed[p * ColumnsBefore(widths, Len(widths) + 1) + column] =
          weights[i][p * widths[i] + column - ColumnsBefore(widths, i)]
    <3>1. /\ ColumnsBefore(widths, Len(widths) + 1) \in Nat \ {0}
          /\ column \in 0 .. ColumnsBefore(widths, Len(widths) + 1) - 1
          /\ i \in 1 .. Len(widths)
      BY <1>1, <2>2, <2>4
    <3>0. widths \in Seq(Nat) /\ k \in Nat /\ p \in 0 .. k - 1
      BY <1>1
    <3>2. OnlyColumnOf(widths, i, column)
      BY <1>1, <2>3 DEF OnlyColumnOf
    <3> HIDE DEF packed
    <3>3. ConcatenateColumns(weights, k, widths)[p * ColumnsBefore(widths, Len(widths) + 1) + column] =
            weights[i][p * widths[i] + column - ColumnsBefore(widths, i)]
      BY ONLY <3>0, <3>1, <3>2, PackedCell
    <3> QED
      BY <3>3 DEF packed
  <2>6. p * widths[i] \in Int /\ ColumnsBefore(widths, i) \in Int /\ p * (x + y) \in Int
    BY <1>1, <1>3, <1>4
  <2>7. p * widths[i] + column - ColumnsBefore(widths, i) = p * widths[i] + j
    BY <2>1, <2>6
  <2>8. p * (x + y) + ColumnsBefore(widths, i) + j = p * (x + y) + column
    BY <2>1, <2>6
  <2> QED
    BY <2>4, <2>5, <2>7, <2>8
<1> HIDE DEF packed
<1>6. p * (x + y) \in Int
  OBVIOUS
<1>7. \A j \in 0 .. x - 1 : packed[p * (x + y) + j] = u[p * x + j]
  <2> TAKE j \in 0 .. x - 1
  <2>1. packed[p * (x + y) + ColumnsBefore(widths, 1) + j] = weights[1][p * widths[1] + j]
    <3>1. 1 \in 1 .. 2 /\ j \in 0 .. widths[1] - 1
      BY <1>1
    <3> QED
      BY <1>5, <3>1
  <2> QED
    BY <1>1, <1>2, <1>3, <1>6, <2>1
<1>8. \A j \in 0 .. y - 1 : packed[p * (x + y) + x + j] = v[p * y + j]
  <2> TAKE j \in 0 .. y - 1
  <2>1. packed[p * (x + y) + ColumnsBefore(widths, 2) + j] = weights[2][p * widths[2] + j]
    <3>1. 2 \in 1 .. 2 /\ j \in 0 .. widths[2] - 1
      BY <1>1
    <3> QED
      BY <1>5, <3>1
  <2> QED
    BY <1>1, <1>2, <1>4, <2>1
<1>9. HasColumns(packed, p, x + y, 0, u, x) /\ HasColumns(packed, p, x + y, x, v, y)
  <2>1. PICK start \in Int : start = p * (x + y)
    BY <1>6
  <2>2. \A j \in 0 .. x - 1 : start + 0 + j = start + j
    OBVIOUS
  <2>3. \A j \in 0 .. x - 1 : packed[p * (x + y) + 0 + j] = u[p * x + j]
    BY <1>7, <2>1, <2>2
  <2> QED
    BY <1>8, <2>3, Zenon DEF HasColumns
<1> QED
  BY <1>9 DEF packed, weights, widths

(* The parts of LayerMeaning.                                              *)
WeightOf(int8, name, k, n) == IF int8 THEN <<"int8", <<name, k, n>>>> ELSE <<name, k, n>>
DotOf(int8, row, k, name, n) == [p \in 0 .. k - 1 |-> <<row[p], WeightOf(int8, name, p, n)>>]
RowOf(c, b, t) == b * c.sequence + t
NormOf(c, name, weight, b, t) ==
  [n \in 0 .. Hidden(c) - 1 |->
     <<"norm", [p \in 0 .. Hidden(c) - 1 |-> <<name, RowOf(c, b, t), p>>], weight, n>>]
PlainOf(c, int8, name, b, t, h, d) ==
  DotOf(int8, NormOf(c, "x", "rms1", b, t), Hidden(c), name, h * c.dim + d)
TurnOf(c, int8, name, b, t, h, d) ==
  IF d % 2 = 1 THEN Rotated(PlainOf(c, int8, name, b, t, h, d - 1), PlainOf(c, int8, name, b, t, h, d), t, d)
  ELSE IF d + 1 < c.dim
  THEN Rotated(PlainOf(c, int8, name, b, t, h, d), PlainOf(c, int8, name, b, t, h, d + 1), t, d)
  ELSE PlainOf(c, int8, name, b, t, h, d)
CachedOf(c, name, b, h, s, d) == <<name, HeadMajor(c.kvHeads, c.context, c.dim, b, h, s, d)>>
KeyOf(c, int8, b, s, h, d) ==
  IF c.context > 0 THEN CachedOf(c, "ck", b, h, s, d) ELSE TurnOf(c, int8, "wk", b, s, h, d)
ValueOf(c, int8, b, s, h, d) ==
  IF c.context > 0 THEN CachedOf(c, "cv", b, h, s, d) ELSE PlainOf(c, int8, "wv", b, s, h, d)
AttendedOf(c, int8, b, t, h, d) ==
  <<"attend", [e \in 0 .. c.dim - 1 |-> TurnOf(c, int8, "wq", b, t, h, e)],
    [s \in VisibleKeys(c, t) |->
       <<[e \in 0 .. c.dim - 1 |-> KeyOf(c, int8, b, s, h \div (c.heads \div c.kvHeads), e)],
         ValueOf(c, int8, b, s, h \div (c.heads \div c.kvHeads), d)>>]>>
MergedOf(c, int8, b, t) ==
  [n \in 0 .. Hidden(c) - 1 |-> AttendedOf(c, int8, b, t, n \div c.dim, n % c.dim)]
InnerOf(c, int8, b, t) ==
  [j \in 0 .. c.intermediate - 1 |->
     <<"swiglu", DotOf(int8, NormOf(c, "h", "rms2", b, t), Hidden(c), "wg", j),
                 DotOf(int8, NormOf(c, "h", "rms2", b, t), Hidden(c), "wu", j)>>]
ResidualOf(c, int8, b, t, n) ==
  <<"add", DotOf(int8, MergedOf(c, int8, b, t), Hidden(c), "wo", n), <<"x", RowOf(c, b, t), n>>>>
OutputOf(c, int8, b, t, i, n) ==
  <<"add", <<"h", RowOf(c, b, t), n>>,
    IF c.ffn = "moe" THEN <<"moe", RmsNorm(Stream(c), "rms2", TokenRows(c), Hidden(c)), i>>
    ELSE DotOf(int8, InnerOf(c, int8, b, t), c.intermediate, "wd", n)>>

LEMMA LayerMeaningIs ==
  ASSUME NEW c, NEW int8
  PROVE  LayerMeaning(c, int8) =
           [residual |-> [i \in DOMAIN Stream(c) |->
              ResidualOf(c, int8, i \div (c.sequence * Hidden(c)), (i \div Hidden(c)) % c.sequence,
                         i % Hidden(c))],
            output |-> [i \in DOMAIN Stream(c) |->
              OutputOf(c, int8, i \div (c.sequence * Hidden(c)), (i \div Hidden(c)) % c.sequence,
                       i, i % Hidden(c))]]
BY ZenonT(60) DEF LayerMeaning, ResidualOf, OutputOf, InnerOf, MergedOf, AttendedOf, ValueOf, KeyOf,
   CachedOf, TurnOf, PlainOf, NormOf, RowOf, DotOf, WeightOf

(* The rows of a token, and their elements.                                *)
LEMMA RowIs ==
  ASSUME NEW c, IsLayer(c), NEW b \in 0 .. c.batch - 1, NEW t \in 0 .. c.sequence - 1
  PROVE  /\ RowOf(c, b, t) \in 0 .. TokenRows(c) - 1
         /\ RowOf(c, b, t) \div c.sequence = b /\ RowOf(c, b, t) % c.sequence = t
<1>1. PICK B \in Nat, S \in Nat \ {0} : B = c.batch /\ S = c.sequence
  BY LayerSizes
<1>2. b \in 0 .. B - 1 /\ t \in 0 .. S - 1
  BY <1>1
<1>3. b * S + t \in 0 .. B * S - 1 /\ (b * S + t) \div S = b /\ (b * S + t) % S = t
  BY ONLY B \in Nat, S \in Nat \ {0}, <1>2, Cell
<1> QED
  BY <1>1, <1>3 DEF RowOf, TokenRows

LEMMA NormCell ==
  ASSUME NEW c, IsLayer(c), NEW name, NEW weight, NEW b \in 0 .. c.batch - 1,
         NEW t \in 0 .. c.sequence - 1, NEW n \in 0 .. Hidden(c) - 1
  PROVE  RmsNorm(Named(name, TokenRows(c), Hidden(c)), weight, TokenRows(c), Hidden(c))[RowOf(c, b, t) * Hidden(c) + n]
           = NormOf(c, name, weight, b, t)[n]
<1>1. PICK row \in 0 .. TokenRows(c) - 1 : row = RowOf(c, b, t)
  BY RowIs
<1>2. PICK R \in Nat, H \in Nat \ {0} : R = TokenRows(c) /\ H = Hidden(c)
  BY LayerSizes
<1>3. row \in 0 .. R - 1 /\ n \in 0 .. H - 1
  BY <1>1, <1>2
<1>4. row * H + n \in 0 .. R * H - 1 /\ (row * H + n) \div H = row /\ (row * H + n) % H = n
  BY ONLY R \in Nat, H \in Nat \ {0}, <1>3, Cell
<1>5. \A p \in 0 .. H - 1 : Named(name, R, H)[row * H + p] = <<name, row, p>>
  BY ONLY <1>3, NamedCell, R \in Nat, H \in Nat \ {0}
<1>6. RmsNorm(Named(name, R, H), weight, R, H)[row * H + n] =
        <<"norm", [p \in 0 .. H - 1 |-> Named(name, R, H)[row * H + p]], weight, n>>
  BY <1>4 DEF RmsNorm
<1>7. [p \in 0 .. H - 1 |-> Named(name, R, H)[row * H + p]] = [p \in 0 .. H - 1 |-> <<name, row, p>>]
  BY <1>5
<1>8. NormOf(c, name, weight, b, t)[n] = <<"norm", [p \in 0 .. H - 1 |-> <<name, row, p>>], weight, n>>
  BY <1>1, <1>2, <1>3 DEF NormOf
<1> QED
  BY <1>1, <1>2, <1>6, <1>7, <1>8

(* The rows of a projection of the normalised input, from column `from`.   *)
ProjectedRows(c, int8, x, width, from, name, n) ==
  \A b \in 0 .. c.batch - 1, t \in 0 .. c.sequence - 1 : \A j \in 0 .. n - 1 :
    x[RowOf(c, b, t) * width + from + j] = DotOf(int8, NormOf(c, "x", "rms1", b, t), Hidden(c), name, j)

PlainHeads(c, int8, f, heads, name) ==
  /\ DOMAIN f = 0 .. TokenRows(c) * heads * c.dim - 1
  /\ \A b \in 0 .. c.batch - 1, h \in 0 .. heads - 1, t \in 0 .. c.sequence - 1, d \in 0 .. c.dim - 1 :
       f[HeadMajor(heads, c.sequence, c.dim, b, h, t, d)] = PlainOf(c, int8, name, b, t, h, d)

TurnedHeads(c, int8, f, heads, name) ==
  /\ DOMAIN f = 0 .. TokenRows(c) * heads * c.dim - 1
  /\ \A b \in 0 .. c.batch - 1, h \in 0 .. heads - 1, t \in 0 .. c.sequence - 1, d \in 0 .. c.dim - 1 :
       f[HeadMajor(heads, c.sequence, c.dim, b, h, t, d)] = TurnOf(c, int8, name, b, t, h, d)

LEMMA HeadIs ==
  ASSUME NEW c, IsLayer(c), NEW heads \in Nat \ {0}, NEW b \in 0 .. c.batch - 1, NEW h \in 0 .. heads - 1,
         NEW t \in 0 .. c.sequence - 1, NEW d \in 0 .. c.dim - 1
  PROVE  HasCoordinates(HeadMajor(heads, c.sequence, c.dim, b, h, t, d),
                        c.batch, heads, c.sequence, c.dim, b, h, t, d)
BY LayerSizes, HeadCell

LEMMA HeadsArePlain ==
  ASSUME NEW c, IsLayer(c), NEW int8, NEW heads \in Nat \ {0}, NEW x, NEW width \in Nat, NEW from \in Nat,
         NEW name, ProjectedRows(c, int8, x, width, from, name, heads * c.dim)
  PROVE  PlainHeads(c, int8, ToHeads(c, x, heads, from, width), heads, name)
<1>1. DOMAIN ToHeads(c, x, heads, from, width) = 0 .. TokenRows(c) * heads * c.dim - 1
  BY DEF ToHeads
<1>2. ASSUME NEW b \in 0 .. c.batch - 1, NEW h \in 0 .. heads - 1, NEW t \in 0 .. c.sequence - 1,
             NEW d \in 0 .. c.dim - 1
      PROVE  ToHeads(c, x, heads, from, width)[HeadMajor(heads, c.sequence, c.dim, b, h, t, d)] =
               PlainOf(c, int8, name, b, t, h, d)
  <2>1. PICK i : i = HeadMajor(heads, c.sequence, c.dim, b, h, t, d)
    OBVIOUS
  <2>2. /\ i \in 0 .. TokenRows(c) * heads * c.dim - 1
        /\ BatchOf(heads, c.sequence, c.dim, i) = b /\ HeadOf(heads, c.sequence, c.dim, i) = h
        /\ TokenOf(c.sequence, c.dim, i) = t /\ i % c.dim = d
    BY <2>1, HeadIs DEF HasCoordinates, TokenRows
  <2>3. ToHeads(c, x, heads, from, width)[i] = x[RowOf(c, b, t) * width + from + h * c.dim + d]
    BY <2>2 DEF ToHeads, RowOf
  <2>4. c.dim \in Nat \ {0} /\ RowOf(c, b, t) \in Int
    BY LayerSizes, RowIs
  <2>5. h * c.dim + d \in 0 .. heads * c.dim - 1
    BY <2>4, Cell
  <2>6. x[RowOf(c, b, t) * width + from + (h * c.dim + d)] = PlainOf(c, int8, name, b, t, h, d)
    BY <2>5 DEF ProjectedRows, PlainOf
  <2>7. h * c.dim \in Int /\ RowOf(c, b, t) * width \in Int
    BY <2>4
  <2>8. RowOf(c, b, t) * width + from + h * c.dim + d = RowOf(c, b, t) * width + from + (h * c.dim + d)
    BY <2>7
  <2> QED
    BY <2>1, <2>3, <2>6, <2>8
<1> QED
  BY <1>1, <1>2 DEF PlainHeads

LEMMA HeadStart ==
  ASSUME NEW H \in Int, NEW T \in Int, NEW D \in Int, NEW b \in Int, NEW h \in Int, NEW t \in Int
  PROVE  \E base \in Int : \A e : HeadMajor(H, T, D, b, h, t, e) = base + e
<1>1. ((b * H + h) * T + t) * D \in Int
  OBVIOUS
<1>2. \A e : HeadMajor(H, T, D, b, h, t, e) = (((b * H + h) * T + t) * D) + e
  BY Zenon DEF HeadMajor
<1> QED
  BY <1>1, <1>2, Zenon

LEMMA RopeTurns ==
  ASSUME NEW c, IsLayer(c), NEW int8, NEW heads \in Nat \ {0}, NEW f, NEW name,
         PlainHeads(c, int8, f, heads, name)
  PROVE  TurnedHeads(c, int8, ApplyRope(f, c.sequence, c.dim), heads, name)
<1>1. DOMAIN ApplyRope(f, c.sequence, c.dim) = 0 .. TokenRows(c) * heads * c.dim - 1
  BY DEF ApplyRope, PlainHeads
<1>2. ASSUME NEW b \in 0 .. c.batch - 1, NEW h \in 0 .. heads - 1, NEW t \in 0 .. c.sequence - 1,
             NEW d \in 0 .. c.dim - 1
      PROVE  ApplyRope(f, c.sequence, c.dim)[HeadMajor(heads, c.sequence, c.dim, b, h, t, d)] =
               TurnOf(c, int8, name, b, t, h, d)
  <2> DEFINE at(e) == HeadMajor(heads, c.sequence, c.dim, b, h, t, e)
  <2>1. PICK i : i = at(d)
    OBVIOUS
  <2>2. i \in DOMAIN f /\ TokenOf(c.sequence, c.dim, i) = t /\ i % c.dim = d
    BY <2>1, HeadIs DEF PlainHeads, HasCoordinates, TokenRows
  <2>3. \A e \in 0 .. c.dim - 1 : f[at(e)] = PlainOf(c, int8, name, b, t, h, e)
    BY DEF PlainHeads
  <2>4. c.dim \in Nat \ {0} /\ c.sequence \in Int /\ d \in Int /\ d % 2 \in {0, 1} /\ (d % 2 = 1 => d >= 1)
    BY LayerSizes
  <2>5. i \in Int /\ i - 1 = at(d - 1) /\ i + 1 = at(d + 1)
    <3>1. i \in Int
      BY <2>2 DEF PlainHeads
    <3>2. /\ c.sequence \in Int /\ c.dim \in Int /\ b \in Int /\ h \in Int /\ t \in Int /\ d \in Int
          /\ heads \in Int
      BY <2>4, LayerSizes
    <3>3. PICK base \in Int : \A e : at(e) = base + e
      BY <3>2, HeadStart
    <3> HIDE DEF at
    <3> QED
      BY <2>1, <3>2, <3>3
  <2>6. ApplyRope(f, c.sequence, c.dim)[i] =
          IF d - (d % 2) + 1 < c.dim THEN Rotated(f[i - (d % 2)], f[i - (d % 2) + 1], t, d) ELSE f[i]
    BY <2>2 DEF ApplyRope
  <2> HIDE DEF at
  <2>7. CASE d % 2 = 1
    <3>1. d - 1 \in 0 .. c.dim - 1 /\ d - (d % 2) + 1 < c.dim /\ i - (d % 2) = at(d - 1) /\ i - (d % 2) + 1 = at(d)
      BY <2>1, <2>4, <2>5, <2>7
    <3>2. ApplyRope(f, c.sequence, c.dim)[i] = Rotated(f[at(d - 1)], f[at(d)], t, d)
      BY <2>6, <3>1
    <3> QED
      BY <2>1, <2>3, <2>7, <3>1, <3>2 DEF TurnOf, at
  <2>8. CASE d % 2 = 0 /\ d + 1 < c.dim
    <3>1. d + 1 \in 0 .. c.dim - 1 /\ d - (d % 2) + 1 < c.dim /\ i - (d % 2) = at(d) /\ i - (d % 2) + 1 = at(d + 1)
      BY <2>1, <2>4, <2>5, <2>8
    <3>2. ApplyRope(f, c.sequence, c.dim)[i] = Rotated(f[at(d)], f[at(d + 1)], t, d)
      BY <2>6, <3>1
    <3> QED
      BY <2>1, <2>3, <2>8, <3>1, <3>2 DEF TurnOf, at
  <2>9. CASE d % 2 = 0 /\ ~ (d + 1 < c.dim)
    <3>1. ~ (d - (d % 2) + 1 < c.dim)
      BY <2>4, <2>9
    <3>2. ApplyRope(f, c.sequence, c.dim)[i] = f[at(d)]
      BY <2>1, <2>6, <3>1
    <3> QED
      BY <2>1, <2>3, <2>9, <3>2 DEF TurnOf, at
  <2> QED
    BY <2>4, <2>7, <2>8, <2>9
<1> QED
  BY <1>1, <1>2 DEF TurnedHeads

-----------------------------------------------------------------------------
(* Attention: the group of a head, and the keys and values it reads.       *)
LEMMA GroupIs ==
  ASSUME NEW H \in Nat \ {0}, NEW K \in Nat \ {0}, H % K = 0, NEW h \in 0 .. H - 1
  PROVE  (h * K) \div H = h \div (H \div K) /\ h \div (H \div K) \in 0 .. K - 1
<1>1. PICK g \in Nat : g = H \div K
  BY DivNat
<1>2. H = K * g
  BY <1>1, DivMod
<1>3. g \in Nat \ {0}
  BY <1>2
<1>4. h \in 0 .. K * g - 1
  BY <1>2
<1>5. h \div g \in 0 .. K - 1 /\ h % g \in 0 .. g - 1 /\ h = (h \div g) * g + (h % g)
  BY ONLY K \in Nat \ {0}, <1>3, <1>4, CellOf
<1>6. PICK q \in 0 .. K - 1, r \in 0 .. g - 1 : q = h \div g /\ r = h % g /\ h = q * g + r
  BY <1>5, Zenon
<1>7. h * K = H * q + r * K /\ r * K \in Nat /\ H * q \in Int
  <2>1. (q * g + r) * K = (K * g) * q + r * K
    BY <1>3
  <2>2. r * K \in Nat
    BY <1>3
  <2> QED
    BY <1>2, <1>6, <2>1, <2>2
<1>8. r * K < H
  <2>1. (r + 1) * K <= g * K
    BY <1>3
  <2>2. (r + 1) * K = r * K + K /\ g * K = K * g
    BY <1>3
  <2> QED
    BY <1>2, <1>3, <1>7, <2>1, <2>2
<1>9. (h * K) \div H = q
  BY <1>7, <1>8, DivUnique
<1> QED
  BY <1>1, <1>6, <1>9

KeysAre(c, int8, k) ==
  \A b \in 0 .. c.batch - 1, h \in 0 .. c.kvHeads - 1, s \in 0 .. KeyLength(c) - 1, d \in 0 .. c.dim - 1 :
    k[HeadMajor(c.kvHeads, KeyLength(c), c.dim, b, h, s, d)] = KeyOf(c, int8, b, s, h, d)
ValuesAre(c, int8, v) ==
  \A b \in 0 .. c.batch - 1, h \in 0 .. c.kvHeads - 1, s \in 0 .. KeyLength(c) - 1, d \in 0 .. c.dim - 1 :
    v[HeadMajor(c.kvHeads, KeyLength(c), c.dim, b, h, s, d)] = ValueOf(c, int8, b, s, h, d)

AttendedHeads(c, int8, f) ==
  \A b \in 0 .. c.batch - 1, h \in 0 .. c.heads - 1, t \in 0 .. c.sequence - 1, d \in 0 .. c.dim - 1 :
    f[HeadMajor(c.heads, c.sequence, c.dim, b, h, t, d)] = AttendedOf(c, int8, b, t, h, d)

LEMMA AttendAttends ==
  ASSUME NEW c, IsLayer(c), c.heads % c.kvHeads = 0, NEW int8, NEW q, NEW k, NEW v,
         TurnedHeads(c, int8, q, c.heads, "wq"), KeysAre(c, int8, k), ValuesAre(c, int8, v)
  PROVE  AttendedHeads(c, int8, Attend(c, q, k, v))
<1> SUFFICES ASSUME NEW b \in 0 .. c.batch - 1, NEW h \in 0 .. c.heads - 1, NEW t \in 0 .. c.sequence - 1,
                    NEW d \in 0 .. c.dim - 1
             PROVE  Attend(c, q, k, v)[HeadMajor(c.heads, c.sequence, c.dim, b, h, t, d)] =
                      AttendedOf(c, int8, b, t, h, d)
  BY DEF AttendedHeads
<1>1. /\ c.heads \in Nat \ {0} /\ c.kvHeads \in Nat \ {0} /\ c.dim \in Nat \ {0}
      /\ c.sequence \in Nat \ {0} /\ KeyLength(c) \in Nat \ {0} /\ c.batch \in Nat \ {0}
  BY LayerSizes
<1>2. PICK i : i = HeadMajor(c.heads, c.sequence, c.dim, b, h, t, d)
  OBVIOUS
<1>3. /\ i \in DOMAIN q /\ BatchOf(c.heads, c.sequence, c.dim, i) = b
      /\ HeadOf(c.heads, c.sequence, c.dim, i) = h
      /\ TokenOf(c.sequence, c.dim, i) = t /\ i % c.dim = d
  <2>1. HasCoordinates(HeadMajor(c.heads, c.sequence, c.dim, b, h, t, d),
                       c.batch, c.heads, c.sequence, c.dim, b, h, t, d)
    BY <1>1, HeadIs
  <2> QED
    BY <1>2, <2>1 DEF TurnedHeads, HasCoordinates, TokenRows
<1>4. PICK g \in 0 .. c.kvHeads - 1 : g = (h * c.kvHeads) \div c.heads /\ g = h \div (c.heads \div c.kvHeads)
  <2>1. /\ (h * c.kvHeads) \div c.heads = h \div (c.heads \div c.kvHeads)
        /\ h \div (c.heads \div c.kvHeads) \in 0 .. c.kvHeads - 1
    BY <1>1, GroupIs
  <2> QED
    BY <2>1, Zenon
<1> DEFINE at(s, e) == HeadMajor(c.kvHeads, KeyLength(c), c.dim, b, g, s, e)
<1>5. Attend(c, q, k, v)[i] =
        <<"attend", [e \in 0 .. c.dim - 1 |-> q[i - (i % c.dim) + e]],
          [s \in VisibleKeys(c, t) |-> <<[e \in 0 .. c.dim - 1 |-> k[at(s, e)]], v[at(s, i % c.dim)]>>]>>
  BY <1>3, <1>4 DEF Attend
<1>6. ASSUME NEW e \in 0 .. c.dim - 1 PROVE q[i - (i % c.dim) + e] = TurnOf(c, int8, "wq", b, t, h, e)
  <2>1. /\ c.sequence \in Int /\ c.dim \in Int /\ b \in Int /\ h \in Int /\ t \in Int /\ d \in Int
        /\ c.heads \in Int /\ e \in Int
    BY <1>1
  <2>2. PICK base \in Int : \A x : HeadMajor(c.heads, c.sequence, c.dim, b, h, t, x) = base + x
    BY <2>1, HeadStart
  <2>3. i = base + d /\ HeadMajor(c.heads, c.sequence, c.dim, b, h, t, e) = base + e
    BY <1>2, <2>2
  <2>4. i - (i % c.dim) + e = base + e
    BY <1>3, <2>1, <2>3
  <2> QED
    BY <2>3, <2>4 DEF TurnedHeads
<1>7. [e \in 0 .. c.dim - 1 |-> q[i - (i % c.dim) + e]] = [e \in 0 .. c.dim - 1 |-> TurnOf(c, int8, "wq", b, t, h, e)]
  BY <1>6
<1>8. ASSUME NEW s \in VisibleKeys(c, t)
      PROVE  <<[e \in 0 .. c.dim - 1 |-> k[at(s, e)]], v[at(s, i % c.dim)]>> =
               <<[e \in 0 .. c.dim - 1 |-> KeyOf(c, int8, b, s, g, e)], ValueOf(c, int8, b, s, g, d)>>
  <2>1. s \in 0 .. KeyLength(c) - 1
    BY DEF VisibleKeys
  <2>2. \A e \in 0 .. c.dim - 1 : k[at(s, e)] = KeyOf(c, int8, b, s, g, e)
    BY <2>1 DEF KeysAre
  <2>3. v[at(s, d)] = ValueOf(c, int8, b, s, g, d)
    BY <2>1 DEF ValuesAre
  <2>4. [e \in 0 .. c.dim - 1 |-> k[at(s, e)]] = [e \in 0 .. c.dim - 1 |-> KeyOf(c, int8, b, s, g, e)]
    BY <2>2
  <2> HIDE DEF at
  <2> QED
    BY <1>3, <2>3, <2>4
<1>9. [s \in VisibleKeys(c, t) |-> <<[e \in 0 .. c.dim - 1 |-> k[at(s, e)]], v[at(s, i % c.dim)]>>] =
      [s \in VisibleKeys(c, t) |->
         <<[e \in 0 .. c.dim - 1 |-> KeyOf(c, int8, b, s, g, e)], ValueOf(c, int8, b, s, g, d)>>]
  BY <1>8
<1>10. AttendedOf(c, int8, b, t, h, d) =
         <<"attend", [e \in 0 .. c.dim - 1 |-> TurnOf(c, int8, "wq", b, t, h, e)],
           [s \in VisibleKeys(c, t) |->
              <<[e \in 0 .. c.dim - 1 |-> KeyOf(c, int8, b, s, g, e)], ValueOf(c, int8, b, s, g, d)>>]>>
  BY <1>4 DEF AttendedOf
<1> HIDE DEF at
<1> QED
  BY <1>2, <1>5, <1>7, <1>9, <1>10

LEMMA MergeMerges ==
  ASSUME NEW c, IsLayer(c), NEW int8, NEW f, AttendedHeads(c, int8, f),
         NEW b \in 0 .. c.batch - 1, NEW t \in 0 .. c.sequence - 1
  PROVE  \A n \in 0 .. Hidden(c) - 1 :
           MergeHeads(c, f)[RowOf(c, b, t) * Hidden(c) + n] = MergedOf(c, int8, b, t)[n]
<1> TAKE n \in 0 .. Hidden(c) - 1
<1>1. PICK row \in 0 .. TokenRows(c) - 1 : row = RowOf(c, b, t) /\ row \div c.sequence = b /\ row % c.sequence = t
  BY RowIs
<1>2. PICK R \in Nat, H \in Nat \ {0} : R = TokenRows(c) /\ H = Hidden(c)
  BY LayerSizes
<1>3. row \in 0 .. R - 1 /\ n \in 0 .. H - 1
  BY <1>1, <1>2
<1>4. row * H + n \in 0 .. R * H - 1 /\ (row * H + n) \div H = row /\ (row * H + n) % H = n
  BY ONLY R \in Nat, H \in Nat \ {0}, <1>3, Cell
<1>5. PICK D \in Nat \ {0}, N \in Nat \ {0} : D = c.dim /\ N = c.heads /\ H = N * D
  BY <1>2, LayerSizes DEF Hidden
<1>6. n \in 0 .. N * D - 1
  BY <1>3, <1>5
<1>7. n \div D \in 0 .. N - 1 /\ n % D \in 0 .. D - 1
  BY ONLY D \in Nat \ {0}, N \in Nat \ {0}, <1>6, CellOf
<1>8. MergeHeads(c, f)[row * H + n] = f[HeadMajor(c.heads, c.sequence, c.dim, b, n \div c.dim, t, n % c.dim)]
  BY <1>1, <1>2, <1>4 DEF MergeHeads
<1>9. f[HeadMajor(c.heads, c.sequence, c.dim, b, n \div c.dim, t, n % c.dim)] =
        AttendedOf(c, int8, b, t, n \div c.dim, n % c.dim)
  BY <1>5, <1>7 DEF AttendedHeads
<1>10. MergedOf(c, int8, b, t)[n] = AttendedOf(c, int8, b, t, n \div c.dim, n % c.dim)
  BY DEF MergedOf
<1> QED
  BY <1>1, <1>2, <1>8, <1>9, <1>10

(* A row of a matrix and the products with a column of a weight.           *)
RowIn(x, k, r, row) == \A p \in 0 .. k - 1 : x[r * k + p] = row[p]
ColumnIs(w, k, n, j, name, column) == \A p \in 0 .. k - 1 : w[p * n + j] = <<name, p, column>>

IsCell(x, n, r, j, value) == x[r * n + j] = value

LEMMA PlanDot ==
  ASSUME NEW m \in Nat, NEW n \in Nat \ {0}, NEW k \in Nat, NEW r \in 0 .. m - 1, NEW j \in 0 .. n - 1,
         NEW x, NEW w, NEW row, NEW name, NEW column,
         RowIn(x, k, r, row), ColumnIs(w, k, n, j, name, column)
  PROVE  IsCell(MatMul(x, w, m, n, k), n, r, j, DotOf(FALSE, row, k, name, column))
<1>1. PICK i : i = r * n + j
  OBVIOUS
<1>2. i \in 0 .. m * n - 1 /\ i \div n = r /\ i % n = j
  BY <1>1, Cell
<1>3. MatMul(x, w, m, n, k)[i] = [p \in 0 .. k - 1 |-> <<x[r * k + p], w[p * n + j]>>]
  BY <1>2 DEF MatMul
<1>4. \A p \in 0 .. k - 1 : x[r * k + p] = row[p] /\ w[p * n + j] = <<name, p, column>>
  BY DEF RowIn, ColumnIs
<1>5. [p \in 0 .. k - 1 |-> <<x[r * k + p], w[p * n + j]>>] =
        [p \in 0 .. k - 1 |-> <<row[p], <<name, p, column>>>>]
  BY <1>4
<1>6. DotOf(FALSE, row, k, name, column) = [p \in 0 .. k - 1 |-> <<row[p], <<name, p, column>>>>]
  BY DEF DotOf, WeightOf
<1> QED
  BY <1>1, <1>3, <1>5, <1>6 DEF IsCell

LEMMA Int8Dot ==
  ASSUME NEW m \in Nat, NEW n \in Nat \ {0}, NEW k \in Nat \ {0}, NEW r \in 0 .. m - 1, NEW j \in 0 .. n - 1,
         NEW x, NEW row, NEW name, RowIn(x, k, r, row)
  PROVE  IsCell(ProjectInt8(x, Quantize(Named(name, k, n), k, n), m, k, n), n, r, j,
                DotOf(TRUE, row, k, name, j))
<1>1. PICK i : i = r * n + j
  OBVIOUS
<1>2. i \in 0 .. m * n - 1 /\ i \div n = r /\ i % n = j
  BY <1>1, Cell
<1>3. PICK w : w = Quantize(Named(name, k, n), k, n)
  OBVIOUS
<1>4. ASSUME NEW p \in 0 .. k - 1 PROVE w[j * k + p] = <<"int8", <<name, p, j>>>>
  <2>1. PICK e : e = j * k + p
    OBVIOUS
  <2>2. e \in 0 .. n * k - 1 /\ e \div k = j /\ e % k = p
    BY <2>1, Cell
  <2>3. n * k = k * n
    OBVIOUS
  <2>4. w[e] = <<"int8", Named(name, k, n)[p * n + j]>>
    BY <1>3, <2>2, <2>3 DEF Quantize
  <2>5. Named(name, k, n)[p * n + j] = <<name, p, j>>
    BY NamedCell
  <2> QED
    BY <2>1, <2>4, <2>5
<1>5. ProjectInt8(x, w, m, k, n)[i] = [p \in 0 .. k - 1 |-> <<x[r * k + p], w[j * k + p]>>]
  BY <1>2 DEF ProjectInt8
<1>6. \A p \in 0 .. k - 1 : x[r * k + p] = row[p]
  BY DEF RowIn
<1>7. [p \in 0 .. k - 1 |-> <<x[r * k + p], w[j * k + p]>>] =
        [p \in 0 .. k - 1 |-> <<row[p], <<"int8", <<name, p, j>>>>>>]
  BY <1>4, <1>6
<1>8. DotOf(TRUE, row, k, name, j) = [p \in 0 .. k - 1 |-> <<row[p], <<"int8", <<name, p, j>>>>>>]
  BY DEF DotOf, WeightOf
<1> QED
  BY <1>1, <1>3, <1>5, <1>7, <1>8 DEF IsCell

LEMMA NormRow ==
  ASSUME NEW c, IsLayer(c), NEW name, NEW weight, NEW b \in 0 .. c.batch - 1, NEW t \in 0 .. c.sequence - 1
  PROVE  RowIn(RmsNorm(Named(name, TokenRows(c), Hidden(c)), weight, TokenRows(c), Hidden(c)),
               Hidden(c), RowOf(c, b, t), NormOf(c, name, weight, b, t))
BY NormCell DEF RowIn

(* The columns of the packed weights.                                      *)
LEMMA PackedColumns ==
  ASSUME NEW c, IsLayer(c)
  PROVE  /\ \A j \in 0 .. Hidden(c) - 1 :
              ColumnIs(PackedQkv(c, Data(c)), Hidden(c), QkvWidth(c), j, "wq", j)
         /\ \A j \in 0 .. KvWidth(c) - 1 :
              ColumnIs(PackedQkv(c, Data(c)), Hidden(c), QkvWidth(c), Hidden(c) + j, "wk", j)
         /\ \A j \in 0 .. KvWidth(c) - 1 :
              ColumnIs(PackedQkv(c, Data(c)), Hidden(c), QkvWidth(c), ValueColumn(c) + j, "wv", j)
<1>1. PICK H \in Nat \ {0}, K \in Nat \ {0}, W \in Nat \ {0} :
        H = Hidden(c) /\ K = KvWidth(c) /\ W = QkvWidth(c)
  BY LayerSizes
<1>2. W = H + K + K
  BY <1>1, LayerSizes
<1>3. PICK packed : packed = PackedQkv(c, Data(c))
  OBVIOUS
<1>4. packed = ConcatenateColumns(<<Named("wq", H, H), Named("wk", H, K), Named("wv", H, K)>>, H, <<H, K, K>>)
  BY <1>1, <1>3 DEF PackedQkv, Data
<1>5. ASSUME NEW p \in 0 .. H - 1
      PROVE  /\ \A j \in 0 .. H - 1 : packed[p * W + j] = <<"wq", p, j>>
             /\ \A j \in 0 .. K - 1 : packed[p * W + (H + j)] = <<"wk", p, j>>
             /\ \A j \in 0 .. K - 1 : packed[p * W + (H + K + j)] = <<"wv", p, j>>
  <2>1. /\ HasColumns(packed, p, W, 0, Named("wq", H, H), H)
        /\ HasColumns(packed, p, W, H, Named("wk", H, K), K)
        /\ HasColumns(packed, p, W, H + K, Named("wv", H, K), K)
    <3>1. H \in Nat /\ H \in Nat \ {0} /\ K \in Nat \ {0} /\ p \in 0 .. H - 1
      OBVIOUS
    <3> QED
      BY ONLY <1>2, <1>4, <3>1, PackedOfThree
  <2>2. /\ \A j \in 0 .. H - 1 : Named("wq", H, H)[p * H + j] = <<"wq", p, j>>
        /\ \A j \in 0 .. K - 1 : Named("wk", H, K)[p * K + j] = <<"wk", p, j>>
        /\ \A j \in 0 .. K - 1 : Named("wv", H, K)[p * K + j] = <<"wv", p, j>>
    BY NamedCell
  <2>3. PICK start \in Int : start = p * W
    OBVIOUS
  <2>4. /\ \A j \in 0 .. H - 1 : packed[start + 0 + j] = <<"wq", p, j>>
        /\ \A j \in 0 .. K - 1 : packed[start + H + j] = <<"wk", p, j>>
        /\ \A j \in 0 .. K - 1 : packed[start + (H + K) + j] = <<"wv", p, j>>
    BY <2>1, <2>2, <2>3 DEF HasColumns
  <2>5. /\ \A j \in 0 .. H - 1 : start + 0 + j = start + j
        /\ \A j \in 0 .. K - 1 : start + H + j = start + (H + j)
        /\ \A j \in 0 .. K - 1 : start + (H + K) + j = start + (H + K + j)
    OBVIOUS
  <2>6. \A j \in 0 .. H - 1 : packed[p * W + j] = <<"wq", p, j>>
    BY <2>3, <2>4, <2>5
  <2>7. \A j \in 0 .. K - 1 : packed[p * W + (H + j)] = <<"wk", p, j>>
    BY <2>3, <2>4, <2>5
  <2>8. \A j \in 0 .. K - 1 : packed[p * W + (H + K + j)] = <<"wv", p, j>>
    BY <2>3, <2>4, <2>5
  <2> QED
    BY <2>6, <2>7, <2>8
<1>6. ValueColumn(c) = H + K
  BY <1>1 DEF ValueColumn
<1> QED
  BY <1>1, <1>3, <1>5, <1>6 DEF ColumnIs

LEMMA GateUpColumns ==
  ASSUME NEW c, IsLayer(c), NEW j \in 0 .. c.intermediate - 1
  PROVE  /\ ColumnIs(PackedGateUp(c, Data(c)), Hidden(c), 2 * c.intermediate, j, "wg", j)
         /\ ColumnIs(PackedGateUp(c, Data(c)), Hidden(c), 2 * c.intermediate, c.intermediate + j, "wu", j)
<1>1. PICK H \in Nat \ {0}, I \in Nat \ {0} : H = Hidden(c) /\ I = c.intermediate
  BY LayerSizes
<1>2. PICK packed : packed = PackedGateUp(c, Data(c))
  OBVIOUS
<1>3. packed = ConcatenateColumns(<<Named("wg", H, I), Named("wu", H, I)>>, H, <<I, I>>)
  BY <1>1, <1>2 DEF PackedGateUp, Data
<1>4. ASSUME NEW p \in 0 .. H - 1
      PROVE  packed[p * (2 * I) + j] = <<"wg", p, j>> /\ packed[p * (2 * I) + (I + j)] = <<"wu", p, j>>
  <2>1. /\ HasColumns(packed, p, I + I, 0, Named("wg", H, I), I)
        /\ HasColumns(packed, p, I + I, I, Named("wu", H, I), I)
    <3>1. H \in Nat /\ I \in Nat \ {0} /\ p \in 0 .. H - 1
      OBVIOUS
    <3> QED
      BY ONLY <1>3, <3>1, PackedOfTwo
  <2>2. j \in 0 .. I - 1
    BY <1>1
  <2>3. Named("wg", H, I)[p * I + j] = <<"wg", p, j>> /\ Named("wu", H, I)[p * I + j] = <<"wu", p, j>>
    BY <2>2, NamedCell
  <2>4. PICK start \in Int : start = p * (2 * I) /\ start = p * (I + I)
    OBVIOUS
  <2>5. packed[start + 0 + j] = <<"wg", p, j>> /\ packed[start + I + j] = <<"wu", p, j>>
    BY <2>1, <2>2, <2>3, <2>4 DEF HasColumns
  <2>6. start + 0 + j = start + j /\ start + I + j = start + (I + j)
    BY <2>2
  <2> QED
    BY <2>4, <2>5, <2>6
<1> QED
  BY <1>1, <1>2, <1>4 DEF ColumnIs

NormalizedInput(c) == RmsNorm(Named("x", TokenRows(c), Hidden(c)), "rms1", TokenRows(c), Hidden(c))

ColumnsAre(c, w, from, name, n) ==
  \A j \in 0 .. n - 1 : ColumnIs(w, Hidden(c), QkvWidth(c), from + j, name, j)

LEMMA PlanProjects ==
  ASSUME NEW c, IsLayer(c), NEW w, NEW from \in Nat, NEW n \in Nat, from + n <= QkvWidth(c), NEW name,
         ColumnsAre(c, w, from, name, n)
  PROVE  ProjectedRows(c, FALSE, MatMul(NormalizedInput(c), w, TokenRows(c), QkvWidth(c), Hidden(c)),
                       QkvWidth(c), from, name, n)
<1> SUFFICES ASSUME NEW b \in 0 .. c.batch - 1, NEW t \in 0 .. c.sequence - 1, NEW j \in 0 .. n - 1
             PROVE  MatMul(NormalizedInput(c), w, TokenRows(c), QkvWidth(c), Hidden(c))
                      [RowOf(c, b, t) * QkvWidth(c) + from + j] =
                        DotOf(FALSE, NormOf(c, "x", "rms1", b, t), Hidden(c), name, j)
  BY DEF ProjectedRows
<1>1. PICK m \in Nat, k \in Nat, W \in Nat \ {0} : m = TokenRows(c) /\ k = Hidden(c) /\ W = QkvWidth(c)
  BY LayerSizes
<1>2. PICK r \in 0 .. m - 1 : r = RowOf(c, b, t)
  BY <1>1, RowIs
<1>3. PICK e \in 0 .. W - 1 : e = from + j
  BY <1>1
<1>4. PICK x, row : x = NormalizedInput(c) /\ row = NormOf(c, "x", "rms1", b, t)
  OBVIOUS
<1>5. RowIn(x, k, r, row)
  BY <1>1, <1>2, <1>4, NormRow DEF NormalizedInput
<1>6. ColumnIs(w, k, W, e, name, j)
  BY <1>1, <1>3 DEF ColumnsAre
<1>7. MatMul(x, w, m, W, k)[r * W + e] = DotOf(FALSE, row, k, name, j)
  <2>1. IsCell(MatMul(x, w, m, W, k), W, r, e, DotOf(FALSE, row, k, name, j))
    BY <1>5, <1>6, PlanDot
  <2> QED
    BY <2>1 DEF IsCell
<1>8. r * W + from + j = r * W + e
  <2>1. r * W \in Int
    OBVIOUS
  <2> QED
    BY <1>3, <2>1
<1> QED
  BY <1>1, <1>2, <1>4, <1>7, <1>8

LEMMA Int8Projects ==
  ASSUME NEW c, IsLayer(c), NEW n \in Nat \ {0}, NEW name
  PROVE  ProjectedRows(c, TRUE, ProjectInt8(NormalizedInput(c),
                         Quantize(Named(name, Hidden(c), n), Hidden(c), n), TokenRows(c), Hidden(c), n),
                       n, 0, name, n)
<1> SUFFICES ASSUME NEW b \in 0 .. c.batch - 1, NEW t \in 0 .. c.sequence - 1, NEW j \in 0 .. n - 1
             PROVE  ProjectInt8(NormalizedInput(c), Quantize(Named(name, Hidden(c), n), Hidden(c), n),
                                TokenRows(c), Hidden(c), n)[RowOf(c, b, t) * n + 0 + j] =
                        DotOf(TRUE, NormOf(c, "x", "rms1", b, t), Hidden(c), name, j)
  BY DEF ProjectedRows
<1>1. PICK m \in Nat, k \in Nat \ {0} : m = TokenRows(c) /\ k = Hidden(c)
  BY LayerSizes
<1>2. PICK r \in 0 .. m - 1 : r = RowOf(c, b, t)
  BY <1>1, RowIs
<1>3. PICK x, row : x = NormalizedInput(c) /\ row = NormOf(c, "x", "rms1", b, t)
  OBVIOUS
<1>4. RowIn(x, k, r, row)
  BY <1>1, <1>2, <1>3, NormRow DEF NormalizedInput
<1>5. ProjectInt8(x, Quantize(Named(name, k, n), k, n), m, k, n)[r * n + j] = DotOf(TRUE, row, k, name, j)
  <2>1. IsCell(ProjectInt8(x, Quantize(Named(name, k, n), k, n), m, k, n), n, r, j, DotOf(TRUE, row, k, name, j))
    BY <1>4, Int8Dot
  <2> QED
    BY <2>1 DEF IsCell
<1>6. r * n + 0 + j = r * n + j
  <2>1. r * n \in Int
    OBVIOUS
  <2> QED
    BY <2>1
<1> QED
  BY <1>1, <1>2, <1>3, <1>5, <1>6

(* A call without a context attends to its own keys, one with a context to *)
(* the cached ones.                                                        *)
LEMMA ContextIs ==
  ASSUME NEW c, IsLayer(c), NEW int8, NEW q, NEW k, NEW v,
         TurnedHeads(c, int8, k, c.kvHeads, "wk"), PlainHeads(c, int8, v, c.kvHeads, "wv")
  PROVE  /\ Context(c, Data(c), [query |-> q, key |-> k, value |-> v]).query = q
         /\ KeysAre(c, int8, Context(c, Data(c), [query |-> q, key |-> k, value |-> v]).key)
         /\ ValuesAre(c, int8, Context(c, Data(c), [query |-> q, key |-> k, value |-> v]).value)
<1> DEFINE r == Context(c, Data(c), [query |-> q, key |-> k, value |-> v])
<1>1. CASE c.context > 0
  <2>1. PICK B \in Nat \ {0}, H \in Nat \ {0}, T \in Nat \ {0}, D \in Nat \ {0} :
          B = c.batch /\ H = c.kvHeads /\ T = c.context /\ D = c.dim
    BY <1>1, LayerSizes
  <2>2. KeyLength(c) = T
    BY <1>1, <2>1 DEF KeyLength
  <2>3. B * (H * D) * T = B * T * H * D
    OBVIOUS
  <2>4. /\ Data(c).cachedKey = [i \in 0 .. B * T * H * D - 1 |-> <<"ck", i>>]
        /\ Data(c).cachedValue = [i \in 0 .. B * T * H * D - 1 |-> <<"cv", i>>]
    BY <2>1, <2>3 DEF Data, KvWidth
  <2>5. r.query = q /\ r.key = Data(c).cachedKey /\ r.value = Data(c).cachedValue
    BY <1>1 DEF Context
  <2>6. ASSUME NEW b \in 0 .. B - 1, NEW h \in 0 .. H - 1, NEW s \in 0 .. T - 1, NEW d \in 0 .. D - 1
        PROVE  HeadMajor(H, T, D, b, h, s, d) \in 0 .. B * T * H * D - 1
    BY HeadCell DEF HasCoordinates
  <2>7. ASSUME NEW b \in 0 .. B - 1, NEW h \in 0 .. H - 1, NEW s \in 0 .. T - 1, NEW d \in 0 .. D - 1
        PROVE  /\ r.key[HeadMajor(H, T, D, b, h, s, d)] = KeyOf(c, int8, b, s, h, d)
               /\ r.value[HeadMajor(H, T, D, b, h, s, d)] = ValueOf(c, int8, b, s, h, d)
    <3>1. /\ KeyOf(c, int8, b, s, h, d) = <<"ck", HeadMajor(H, T, D, b, h, s, d)>>
          /\ ValueOf(c, int8, b, s, h, d) = <<"cv", HeadMajor(H, T, D, b, h, s, d)>>
      BY <1>1, <2>1 DEF KeyOf, ValueOf, CachedOf
    <3>2. PICK i \in 0 .. B * T * H * D - 1 : i = HeadMajor(H, T, D, b, h, s, d)
      BY <2>6
    <3>3. Data(c).cachedKey[i] = <<"ck", i>> /\ Data(c).cachedValue[i] = <<"cv", i>>
      BY <2>4
    <3> HIDE DEF r
    <3> QED
      BY <2>5, <3>1, <3>2, <3>3
  <2> HIDE DEF r
  <2>8. KeysAre(c, int8, r.key)
    BY <2>1, <2>2, <2>7 DEF KeysAre
  <2>9. ValuesAre(c, int8, r.value)
    BY <2>1, <2>2, <2>7 DEF ValuesAre
  <2> QED
    BY <2>5, <2>8, <2>9 DEF r
<1>2. CASE ~(c.context > 0)
  <2>1. r.query = q /\ r.key = k /\ r.value = v
    BY <1>2 DEF Context
  <2>2. KeyLength(c) = c.sequence
    BY <1>2 DEF KeyLength
  <2>3. \A b, s, h, d : /\ KeyOf(c, int8, b, s, h, d) = TurnOf(c, int8, "wk", b, s, h, d)
                        /\ ValueOf(c, int8, b, s, h, d) = PlainOf(c, int8, "wv", b, s, h, d)
    BY <1>2 DEF KeyOf, ValueOf
  <2>4. KeysAre(c, int8, k)
    <3>1. ASSUME NEW b \in 0 .. c.batch - 1, NEW h \in 0 .. c.kvHeads - 1,
                 NEW s \in 0 .. c.sequence - 1, NEW d \in 0 .. c.dim - 1
          PROVE  k[HeadMajor(c.kvHeads, c.sequence, c.dim, b, h, s, d)] = KeyOf(c, int8, b, s, h, d)
      BY <2>3 DEF TurnedHeads
    <3> QED
      BY <2>2, <3>1 DEF KeysAre
  <2>5. ValuesAre(c, int8, v)
    <3>1. ASSUME NEW b \in 0 .. c.batch - 1, NEW h \in 0 .. c.kvHeads - 1,
                 NEW s \in 0 .. c.sequence - 1, NEW d \in 0 .. c.dim - 1
          PROVE  v[HeadMajor(c.kvHeads, c.sequence, c.dim, b, h, s, d)] = ValueOf(c, int8, b, s, h, d)
      BY <2>3 DEF PlainHeads
    <3> QED
      BY <2>2, <3>1 DEF ValuesAre
  <2> QED
    BY <2>1, <2>4, <2>5
<1> QED
  BY <1>1, <1>2

(* From the projected heads to the merged rows.                            *)
MergedRows(c, int8, x) ==
  \A b \in 0 .. c.batch - 1, t \in 0 .. c.sequence - 1 :
    RowIn(x, Hidden(c), RowOf(c, b, t), MergedOf(c, int8, b, t))

LEMMA AttentionMerges ==
  ASSUME NEW c, IsLayer(c), c.heads % c.kvHeads = 0, NEW int8, NEW q, NEW k, NEW v,
         PlainHeads(c, int8, q, c.heads, "wq"), PlainHeads(c, int8, k, c.kvHeads, "wk"),
         PlainHeads(c, int8, v, c.kvHeads, "wv"),
         NEW heads, heads = Context(c, Data(c), [query |-> ApplyRope(q, c.sequence, c.dim),
                                                 key |-> ApplyRope(k, c.sequence, c.dim), value |-> v])
  PROVE  MergedRows(c, int8, MergeHeads(c, Attend(c, heads.query, heads.key, heads.value)))
<1>1. c.heads \in Nat \ {0} /\ c.kvHeads \in Nat \ {0}
  BY LayerSizes
<1>2. PICK tq, tk : tq = ApplyRope(q, c.sequence, c.dim) /\ tk = ApplyRope(k, c.sequence, c.dim)
  OBVIOUS
<1>3. TurnedHeads(c, int8, tq, c.heads, "wq") /\ TurnedHeads(c, int8, tk, c.kvHeads, "wk")
  BY <1>1, <1>2, RopeTurns
<1>4. /\ heads.query = tq /\ KeysAre(c, int8, heads.key) /\ ValuesAre(c, int8, heads.value)
  <2>1. heads = Context(c, Data(c), [query |-> tq, key |-> tk, value |-> v])
    BY <1>2
  <2> QED
    BY <1>3, <2>1, ContextIs
<1>5. PICK a : a = Attend(c, heads.query, heads.key, heads.value)
  OBVIOUS
<1>6. AttendedHeads(c, int8, a)
  BY <1>3, <1>4, <1>5, AttendAttends
<1>7. MergedRows(c, int8, MergeHeads(c, a))
  BY <1>6, MergeMerges DEF MergedRows, RowIn
<1> QED
  BY <1>5, <1>7

(* The coordinates of an element of the stream.                            *)
StreamBatch(c, i) == i \div (c.sequence * Hidden(c))
StreamToken(c, i) == (i \div Hidden(c)) % c.sequence

LEMMA StreamCell ==
  ASSUME NEW c, IsLayer(c), NEW i \in 0 .. TokenRows(c) * Hidden(c) - 1
  PROVE  /\ StreamBatch(c, i) \in 0 .. c.batch - 1 /\ StreamToken(c, i) \in 0 .. c.sequence - 1
         /\ i % Hidden(c) \in 0 .. Hidden(c) - 1
         /\ i = RowOf(c, StreamBatch(c, i), StreamToken(c, i)) * Hidden(c) + (i % Hidden(c))
<1>1. PICK B \in Nat \ {0}, S \in Nat \ {0}, H \in Nat \ {0} :
        B = c.batch /\ S = c.sequence /\ H = Hidden(c)
  BY LayerSizes
<1>2. B * S \in Nat /\ i \in 0 .. B * S * H - 1
  BY <1>1 DEF TokenRows
<1>3. PICK r \in 0 .. B * S - 1, n \in 0 .. H - 1 : r = i \div H /\ n = i % H /\ i = r * H + n
  <2>1. i \div H \in 0 .. B * S - 1 /\ i % H \in 0 .. H - 1 /\ i = (i \div H) * H + (i % H)
    BY ONLY <1>2, CellOf, H \in Nat \ {0}
  <2> QED
    BY <2>1, Zenon
<1>4. PICK b \in 0 .. B - 1, t \in 0 .. S - 1 : b = r \div S /\ t = r % S /\ r = b * S + t
  BY CellOf
<1>5. PICK rest \in 0 .. S * H - 1 : rest = t * H + n
  BY Cell
<1>6. i = b * (S * H) + rest
  <2>1. (b * S + t) * H = b * (S * H) + t * H
    OBVIOUS
  <2>2. b * (S * H) \in Int /\ t * H \in Int /\ n \in Int
    BY <1>3
  <2>3. r * H = b * (S * H) + t * H
    BY <1>4, <2>1
  <2>4. PICK x \in Int, y \in Int, z \in Int : x = b * (S * H) /\ y = t * H /\ z = r * H
    BY <2>2, <2>3
  <2>5. i = z + n /\ z = x + y /\ rest = y + n
    BY <1>3, <1>5, <2>3, <2>4
  <2>6. i = x + rest
    BY ONLY <2>2, <2>5, x \in Int, y \in Int, z \in Int
  <2> QED
    BY <2>4, <2>6
<1>7. S * H \in Nat \ {0}
  BY TimesIsPositive
<1>8. i \div (S * H) = b
  BY <1>5, <1>6, <1>7, Cell
<1>9. StreamBatch(c, i) = b /\ StreamToken(c, i) = t
  BY <1>1, <1>3, <1>4, <1>8 DEF StreamBatch, StreamToken
<1>10. RowOf(c, b, t) = r
  BY <1>1, <1>4 DEF RowOf
<1> QED
  BY <1>1, <1>3, <1>9, <1>10

LEMMA StreamIs ==
  ASSUME NEW c, IsLayer(c), NEW name, NEW i \in 0 .. TokenRows(c) * Hidden(c) - 1
  PROVE  Named(name, TokenRows(c), Hidden(c))[i] =
           <<name, RowOf(c, StreamBatch(c, i), StreamToken(c, i)), i % Hidden(c)>>
<1>1. PICK R \in Nat, H \in Nat \ {0} : R = TokenRows(c) /\ H = Hidden(c)
  BY LayerSizes
<1>2. PICK r \in 0 .. R - 1, n \in 0 .. H - 1 :
        r = RowOf(c, StreamBatch(c, i), StreamToken(c, i)) /\ n = i % H /\ i = r * H + n
  BY <1>1, StreamCell, RowIs
<1>3. Named(name, R, H)[r * H + n] = <<name, r, n>>
  BY NamedCell
<1> QED
  BY <1>1, <1>2, <1>3

(* The products of the rows of a matrix with an output weight.             *)
ResidualDots(c, int8, f) ==
  /\ DOMAIN f = 0 .. TokenRows(c) * Hidden(c) - 1
  /\ \A b \in 0 .. c.batch - 1, t \in 0 .. c.sequence - 1, n \in 0 .. Hidden(c) - 1 :
       f[RowOf(c, b, t) * Hidden(c) + n] = DotOf(int8, MergedOf(c, int8, b, t), Hidden(c), "wo", n)

FfnDots(c, int8, f) ==
  \A b \in 0 .. c.batch - 1, t \in 0 .. c.sequence - 1, n \in 0 .. Hidden(c) - 1 :
    f[RowOf(c, b, t) * Hidden(c) + n] = DotOf(int8, InnerOf(c, int8, b, t), c.intermediate, "wd", n)

LEMMA ResidualIs ==
  ASSUME NEW c, IsLayer(c), NEW int8, NEW f, ResidualDots(c, int8, f)
  PROVE  Add(f, Data(c).input) =
           [i \in DOMAIN Stream(c) |->
              ResidualOf(c, int8, StreamBatch(c, i), StreamToken(c, i), i % Hidden(c))]
<1>1. PICK N : N = 0 .. TokenRows(c) * Hidden(c) - 1
  OBVIOUS
<1>2. DOMAIN f = N /\ DOMAIN Stream(c) = N
  BY <1>1 DEF ResidualDots, Stream, Named
<1>3. Data(c).input = Named("x", TokenRows(c), Hidden(c))
  BY DEF Data
<1>4. ASSUME NEW i \in N
      PROVE  <<"add", f[i], Data(c).input[i]>> =
               ResidualOf(c, int8, StreamBatch(c, i), StreamToken(c, i), i % Hidden(c))
  <2>1. PICK b \in 0 .. c.batch - 1, t \in 0 .. c.sequence - 1, n \in 0 .. Hidden(c) - 1 :
          /\ b = StreamBatch(c, i) /\ t = StreamToken(c, i) /\ n = i % Hidden(c)
          /\ i = RowOf(c, b, t) * Hidden(c) + n
    BY <1>1, StreamCell
  <2>2. f[i] = DotOf(int8, MergedOf(c, int8, b, t), Hidden(c), "wo", n)
    BY <2>1 DEF ResidualDots
  <2>3. Data(c).input[i] = <<"x", RowOf(c, b, t), n>>
    BY <1>1, <1>3, <2>1, StreamIs
  <2> QED
    BY <2>1, <2>2, <2>3 DEF ResidualOf
<1>5. Add(f, Data(c).input) = [i \in N |-> <<"add", f[i], Data(c).input[i]>>]
  BY <1>2 DEF Add
<1> QED
  BY <1>2, <1>4, <1>5

MoeRows(c) ==
  [i \in DOMAIN Stream(c) |-> <<"moe", RmsNorm(Stream(c), "rms2", TokenRows(c), Hidden(c)), i>>]

LEMMA OutputIs ==
  ASSUME NEW c, IsLayer(c), NEW int8, NEW f,
         c.ffn = "moe" => f = MoeRows(c), c.ffn # "moe" => FfnDots(c, int8, f)
  PROVE  Add(Stream(c), f) =
           [i \in DOMAIN Stream(c) |->
              OutputOf(c, int8, StreamBatch(c, i), StreamToken(c, i), i, i % Hidden(c))]
<1>1. PICK N : N = 0 .. TokenRows(c) * Hidden(c) - 1
  OBVIOUS
<1>2. DOMAIN Stream(c) = N
  BY <1>1 DEF Stream, Named
<1>3. ASSUME NEW i \in N
      PROVE  <<"add", Stream(c)[i], f[i]>> =
               OutputOf(c, int8, StreamBatch(c, i), StreamToken(c, i), i, i % Hidden(c))
  <2>1. PICK b \in 0 .. c.batch - 1, t \in 0 .. c.sequence - 1, n \in 0 .. Hidden(c) - 1 :
          /\ b = StreamBatch(c, i) /\ t = StreamToken(c, i) /\ n = i % Hidden(c)
          /\ i = RowOf(c, b, t) * Hidden(c) + n
    BY <1>1, StreamCell
  <2>2. Stream(c)[i] = <<"h", RowOf(c, b, t), n>>
    BY <1>1, <2>1, StreamIs DEF Stream
  <2>3. f[i] = IF c.ffn = "moe" THEN <<"moe", RmsNorm(Stream(c), "rms2", TokenRows(c), Hidden(c)), i>>
               ELSE DotOf(int8, InnerOf(c, int8, b, t), c.intermediate, "wd", n)
    <3>1. CASE c.ffn = "moe"
      BY <1>2, <3>1 DEF MoeRows
    <3>2. CASE c.ffn # "moe"
      BY <2>1, <3>2 DEF FfnDots
    <3> QED
      BY <3>1, <3>2
  <2>4. OutputOf(c, int8, b, t, i, n) =
          <<"add", <<"h", RowOf(c, b, t), n>>,
            IF c.ffn = "moe" THEN <<"moe", RmsNorm(Stream(c), "rms2", TokenRows(c), Hidden(c)), i>>
            ELSE DotOf(int8, InnerOf(c, int8, b, t), c.intermediate, "wd", n)>>
    BY DEF OutputOf
  <2> QED
    BY <2>1, <2>2, <2>3, <2>4
<1>4. Add(Stream(c), f) = [i \in N |-> <<"add", Stream(c)[i], f[i]>>]
  BY <1>2 DEF Add
<1> QED
  BY <1>2, <1>3, <1>4

LEMMA LayerIs ==
  ASSUME NEW c, IsLayer(c), NEW int8, NEW residual, NEW ffn, ResidualDots(c, int8, residual),
         c.ffn = "moe" => ffn = MoeRows(c), c.ffn # "moe" => FfnDots(c, int8, ffn)
  PROVE  [residual |-> Add(residual, Data(c).input), output |-> Add(Stream(c), ffn)] = LayerMeaning(c, int8)
<1>1. LayerMeaning(c, int8) =
        [residual |-> [i \in DOMAIN Stream(c) |->
           ResidualOf(c, int8, StreamBatch(c, i), StreamToken(c, i), i % Hidden(c))],
         output |-> [i \in DOMAIN Stream(c) |->
           OutputOf(c, int8, StreamBatch(c, i), StreamToken(c, i), i, i % Hidden(c))]]
  BY LayerMeaningIs, Zenon DEF StreamBatch, StreamToken
<1>2. Add(residual, Data(c).input) =
        [i \in DOMAIN Stream(c) |->
           ResidualOf(c, int8, StreamBatch(c, i), StreamToken(c, i), i % Hidden(c))]
  BY ResidualIs
<1>3. Add(Stream(c), ffn) =
        [i \in DOMAIN Stream(c) |->
           OutputOf(c, int8, StreamBatch(c, i), StreamToken(c, i), i, i % Hidden(c))]
  BY OutputIs
<1> QED
  BY <1>1, <1>2, <1>3, Zenon

NormalizedStream(c) == RmsNorm(Stream(c), "rms2", TokenRows(c), Hidden(c))

(* The rows between the two matrices of a dense FFN.                       *)
InnerRows(c, int8, x) ==
  \A b \in 0 .. c.batch - 1, t \in 0 .. c.sequence - 1 :
    RowIn(x, c.intermediate, RowOf(c, b, t), InnerOf(c, int8, b, t))

LEMMA PlanInner ==
  ASSUME NEW c, IsLayer(c)
  PROVE  InnerRows(c, FALSE, SwiGlu(MatMul(NormalizedStream(c), PackedGateUp(c, Data(c)), TokenRows(c),
                                           2 * c.intermediate, Hidden(c)), TokenRows(c), c.intermediate))
<1>1. PICK m \in Nat, H \in Nat \ {0}, I \in Nat \ {0}, W \in Nat \ {0} :
        m = TokenRows(c) /\ H = Hidden(c) /\ I = c.intermediate /\ W = 2 * I
  BY LayerSizes
<1>2. PICK x, w, g : /\ x = NormalizedStream(c) /\ w = PackedGateUp(c, Data(c)) /\ g = MatMul(x, w, m, W, H)
  OBVIOUS
<1>3. ASSUME NEW b \in 0 .. c.batch - 1, NEW t \in 0 .. c.sequence - 1, NEW j \in 0 .. I - 1
      PROVE  SwiGlu(g, m, I)[RowOf(c, b, t) * I + j] = InnerOf(c, FALSE, b, t)[j]
  <2>1. PICK r \in 0 .. m - 1 : r = RowOf(c, b, t)
    BY <1>1, RowIs
  <2>2. PICK row : row = NormOf(c, "h", "rms2", b, t)
    OBVIOUS
  <2>3. RowIn(x, H, r, row)
    BY <1>1, <1>2, <2>1, <2>2, NormRow DEF NormalizedStream, Stream
  <2>4. PICK e \in 0 .. W - 1 : e = I + j
    BY <1>1
  <2>5. j \in 0 .. W - 1
    BY <1>1
  <2>6. ColumnIs(w, H, W, j, "wg", j) /\ ColumnIs(w, H, W, e, "wu", j)
    BY <1>1, <1>2, <2>4, GateUpColumns
  <2>7. H \in Nat
    OBVIOUS
  <2>8. /\ IsCell(g, W, r, j, DotOf(FALSE, row, H, "wg", j))
        /\ IsCell(g, W, r, e, DotOf(FALSE, row, H, "wu", j))
    BY <1>2, <2>3, <2>5, <2>6, <2>7, PlanDot
  <2>9. PICK i : i = r * I + j
    OBVIOUS
  <2>10. i \in 0 .. m * I - 1 /\ i \div I = r /\ i % I = j
    BY <2>9, Cell
  <2>11. SwiGlu(g, m, I)[i] = <<"swiglu", g[r * 2 * I + j], g[r * 2 * I + I + j]>>
    BY <2>10 DEF SwiGlu
  <2>12. r * 2 * I + j = r * W + j /\ r * 2 * I + I + j = r * W + e
    <3>1. r * 2 * I = r * W /\ r * W \in Int
      BY <1>1
    <3> QED
      BY <2>4, <3>1
  <2>13. SwiGlu(g, m, I)[i] = <<"swiglu", DotOf(FALSE, row, H, "wg", j), DotOf(FALSE, row, H, "wu", j)>>
    BY <2>8, <2>11, <2>12 DEF IsCell
  <2>14. InnerOf(c, FALSE, b, t)[j] = <<"swiglu", DotOf(FALSE, row, H, "wg", j), DotOf(FALSE, row, H, "wu", j)>>
    BY <1>1, <2>2 DEF InnerOf
  <2> QED
    BY <2>1, <2>9, <2>13, <2>14
<1>4. InnerRows(c, FALSE, SwiGlu(g, m, I))
  BY <1>1, <1>3 DEF InnerRows, RowIn
<1> QED
  BY <1>1, <1>2, <1>4

LEMMA Int8Inner ==
  ASSUME NEW c, IsLayer(c), NEW g, NEW u,
         g = ProjectInt8(NormalizedStream(c),
                         Quantize(Named("wg", Hidden(c), c.intermediate), Hidden(c), c.intermediate),
                         TokenRows(c), Hidden(c), c.intermediate),
         u = ProjectInt8(NormalizedStream(c),
                         Quantize(Named("wu", Hidden(c), c.intermediate), Hidden(c), c.intermediate),
                         TokenRows(c), Hidden(c), c.intermediate)
  PROVE  InnerRows(c, TRUE, [i \in DOMAIN g |-> <<"swiglu", g[i], u[i]>>])
<1>1. PICK m \in Nat, H \in Nat \ {0}, I \in Nat \ {0} : m = TokenRows(c) /\ H = Hidden(c) /\ I = c.intermediate
  BY LayerSizes
<1>2. PICK x : x = NormalizedStream(c)
  OBVIOUS
<1>3. /\ g = ProjectInt8(x, Quantize(Named("wg", H, I), H, I), m, H, I)
      /\ u = ProjectInt8(x, Quantize(Named("wu", H, I), H, I), m, H, I)
  BY <1>1, <1>2
<1>4. DOMAIN g = 0 .. m * I - 1
  BY <1>3 DEF ProjectInt8
<1>5. ASSUME NEW b \in 0 .. c.batch - 1, NEW t \in 0 .. c.sequence - 1, NEW j \in 0 .. I - 1
      PROVE  /\ RowOf(c, b, t) * I + j \in DOMAIN g
             /\ <<"swiglu", g[RowOf(c, b, t) * I + j], u[RowOf(c, b, t) * I + j]>> = InnerOf(c, TRUE, b, t)[j]
  <2>1. PICK r \in 0 .. m - 1 : r = RowOf(c, b, t)
    BY <1>1, RowIs
  <2>2. PICK row : row = NormOf(c, "h", "rms2", b, t)
    OBVIOUS
  <2>3. RowIn(x, H, r, row)
    BY <1>1, <1>2, <2>1, <2>2, NormRow DEF NormalizedStream, Stream
  <2>4. /\ IsCell(g, I, r, j, DotOf(TRUE, row, H, "wg", j))
        /\ IsCell(u, I, r, j, DotOf(TRUE, row, H, "wu", j))
    BY <1>3, <2>3, Int8Dot
  <2>5. r * I + j \in 0 .. m * I - 1
    BY Cell
  <2>6. InnerOf(c, TRUE, b, t)[j] = <<"swiglu", DotOf(TRUE, row, H, "wg", j), DotOf(TRUE, row, H, "wu", j)>>
    BY <1>1, <2>2 DEF InnerOf
  <2> QED
    BY <1>4, <2>1, <2>4, <2>5, <2>6 DEF IsCell
<1> DEFINE a == [i \in DOMAIN g |-> <<"swiglu", g[i], u[i]>>]
<1>6. ASSUME NEW b \in 0 .. c.batch - 1, NEW t \in 0 .. c.sequence - 1
      PROVE  RowIn(a, I, RowOf(c, b, t), InnerOf(c, TRUE, b, t))
  BY <1>5 DEF RowIn
<1> HIDE DEF a
<1>7. InnerRows(c, TRUE, a)
  BY <1>1, <1>6 DEF InnerRows
<1> QED
  BY <1>7 DEF a

LEMMA PlanOutputs ==
  ASSUME NEW c, IsLayer(c), NEW x
  PROVE  /\ MergedRows(c, FALSE, x) =>
              ResidualDots(c, FALSE, MatMul(x, Data(c).output, TokenRows(c), Hidden(c), Hidden(c)))
         /\ InnerRows(c, FALSE, x) =>
              FfnDots(c, FALSE, MatMul(x, Data(c).down, TokenRows(c), Hidden(c), c.intermediate))
<1>1. PICK m \in Nat, H \in Nat \ {0}, I \in Nat \ {0} : m = TokenRows(c) /\ H = Hidden(c) /\ I = c.intermediate
  BY LayerSizes
<1>2. Data(c).output = Named("wo", H, H) /\ Data(c).down = Named("wd", I, H)
  BY <1>1 DEF Data
<1>3. H \in Nat /\ I \in Nat
  OBVIOUS
<1>4. ASSUME NEW k \in Nat, NEW name, NEW b \in 0 .. c.batch - 1, NEW t \in 0 .. c.sequence - 1,
             NEW n \in 0 .. H - 1, NEW row, RowIn(x, k, RowOf(c, b, t), row)
      PROVE  IsCell(MatMul(x, Named(name, k, H), m, H, k), H, RowOf(c, b, t), n, DotOf(FALSE, row, k, name, n))
  <2>1. PICK r \in 0 .. m - 1 : r = RowOf(c, b, t)
    BY <1>1, RowIs
  <2>2. PICK w : w = Named(name, k, H)
    OBVIOUS
  <2>3. ColumnIs(w, k, H, n, name, n)
    BY <2>2, NamedCell DEF ColumnIs
  <2>4. RowIn(x, k, r, row)
    BY <1>4, <2>1
  <2>5. IsCell(MatMul(x, w, m, H, k), H, r, n, DotOf(FALSE, row, k, name, n))
    BY <2>3, <2>4, PlanDot
  <2> QED
    BY <2>1, <2>2, <2>5
<1>5. ASSUME MergedRows(c, FALSE, x)
      PROVE  ResidualDots(c, FALSE, MatMul(x, Named("wo", H, H), m, H, H))
  <2>1. DOMAIN MatMul(x, Named("wo", H, H), m, H, H) = 0 .. m * H - 1
    BY DEF MatMul
  <2>2. ASSUME NEW b \in 0 .. c.batch - 1, NEW t \in 0 .. c.sequence - 1, NEW n \in 0 .. H - 1
        PROVE  IsCell(MatMul(x, Named("wo", H, H), m, H, H), H, RowOf(c, b, t), n,
                      DotOf(FALSE, MergedOf(c, FALSE, b, t), H, "wo", n))
    <3>1. RowIn(x, H, RowOf(c, b, t), MergedOf(c, FALSE, b, t))
      BY <1>1, <1>5 DEF MergedRows
    <3> QED
      BY <1>3, <1>4, <3>1
  <2> QED
    BY <1>1, <2>1, <2>2 DEF ResidualDots, IsCell
<1>6. ASSUME InnerRows(c, FALSE, x)
      PROVE  FfnDots(c, FALSE, MatMul(x, Named("wd", I, H), m, H, I))
  <2>1. ASSUME NEW b \in 0 .. c.batch - 1, NEW t \in 0 .. c.sequence - 1, NEW n \in 0 .. H - 1
        PROVE  IsCell(MatMul(x, Named("wd", I, H), m, H, I), H, RowOf(c, b, t), n,
                      DotOf(FALSE, InnerOf(c, FALSE, b, t), I, "wd", n))
    <3>1. RowIn(x, I, RowOf(c, b, t), InnerOf(c, FALSE, b, t))
      BY <1>1, <1>6 DEF InnerRows
    <3> QED
      BY <1>3, <1>4, <3>1
  <2> QED
    BY <1>1, <2>1 DEF FfnDots, IsCell
<1> QED
  BY <1>1, <1>2, <1>5, <1>6

LEMMA Int8Outputs ==
  ASSUME NEW c, IsLayer(c), NEW x
  PROVE  /\ MergedRows(c, TRUE, x) =>
              ResidualDots(c, TRUE, ProjectInt8(x, Quantize(Data(c).output, Hidden(c), Hidden(c)),
                                                TokenRows(c), Hidden(c), Hidden(c)))
         /\ InnerRows(c, TRUE, x) =>
              FfnDots(c, TRUE, ProjectInt8(x, Quantize(Data(c).down, c.intermediate, Hidden(c)),
                                           TokenRows(c), c.intermediate, Hidden(c)))
<1>1. PICK m \in Nat, H \in Nat \ {0}, I \in Nat \ {0} : m = TokenRows(c) /\ H = Hidden(c) /\ I = c.intermediate
  BY LayerSizes
<1>2. Data(c).output = Named("wo", H, H) /\ Data(c).down = Named("wd", I, H)
  BY <1>1 DEF Data
<1>3. ASSUME NEW k \in Nat \ {0}, NEW name, NEW b \in 0 .. c.batch - 1, NEW t \in 0 .. c.sequence - 1,
             NEW n \in 0 .. H - 1, NEW row, RowIn(x, k, RowOf(c, b, t), row)
      PROVE  IsCell(ProjectInt8(x, Quantize(Named(name, k, H), k, H), m, k, H), H, RowOf(c, b, t), n,
                    DotOf(TRUE, row, k, name, n))
  <2>1. PICK r \in 0 .. m - 1 : r = RowOf(c, b, t)
    BY <1>1, RowIs
  <2>2. RowIn(x, k, r, row)
    BY <1>3, <2>1
  <2>3. IsCell(ProjectInt8(x, Quantize(Named(name, k, H), k, H), m, k, H), H, r, n, DotOf(TRUE, row, k, name, n))
    BY <2>2, Int8Dot
  <2> QED
    BY <2>1, <2>3
<1> DEFINE wo == Quantize(Named("wo", H, H), H, H)
           wd == Quantize(Named("wd", I, H), I, H)
<1>4. ASSUME MergedRows(c, TRUE, x)
      PROVE  ResidualDots(c, TRUE, ProjectInt8(x, wo, m, H, H))
  <2>1. DOMAIN ProjectInt8(x, wo, m, H, H) = 0 .. m * H - 1
    BY DEF ProjectInt8
  <2>2. ASSUME NEW b \in 0 .. c.batch - 1, NEW t \in 0 .. c.sequence - 1, NEW n \in 0 .. H - 1
        PROVE  IsCell(ProjectInt8(x, wo, m, H, H), H, RowOf(c, b, t), n,
                      DotOf(TRUE, MergedOf(c, TRUE, b, t), H, "wo", n))
    <3>1. RowIn(x, H, RowOf(c, b, t), MergedOf(c, TRUE, b, t))
      BY <1>1, <1>4 DEF MergedRows
    <3> QED
      BY <1>3, <3>1
  <2> HIDE DEF wo
  <2> QED
    BY <1>1, <2>1, <2>2 DEF ResidualDots, IsCell
<1>5. ASSUME InnerRows(c, TRUE, x)
      PROVE  FfnDots(c, TRUE, ProjectInt8(x, wd, m, I, H))
  <2>1. ASSUME NEW b \in 0 .. c.batch - 1, NEW t \in 0 .. c.sequence - 1, NEW n \in 0 .. H - 1
        PROVE  IsCell(ProjectInt8(x, wd, m, I, H), H, RowOf(c, b, t), n,
                      DotOf(TRUE, InnerOf(c, TRUE, b, t), I, "wd", n))
    <3>1. RowIn(x, I, RowOf(c, b, t), InnerOf(c, TRUE, b, t))
      BY <1>1, <1>5 DEF InnerRows
    <3> QED
      BY <1>3, <3>1
  <2> HIDE DEF wd
  <2> QED
    BY <1>1, <2>1 DEF FfnDots, IsCell
<1> QED
  BY <1>1, <1>2, <1>4, <1>5

Packed(c) == [qkv |-> PackedQkv(c, Data(c)), gateUp |-> PackedGateUp(c, Data(c))]

LEMMA PlanMeansLayer ==
  ASSUME NEW c, IsLayer(c), c.heads % c.kvHeads = 0
  PROVE  ExecuteOnce(c, Loops(c), Packed(c), Data(c)) = LayerMeaning(c, FALSE)
<1> DEFINE fused == MatMul(NormalizedInput(c), PackedQkv(c, Data(c)), TokenRows(c), QkvWidth(c), Hidden(c))
           q == ToHeads(c, fused, c.heads, 0, QkvWidth(c))
           k == ToHeads(c, fused, c.kvHeads, Hidden(c), QkvWidth(c))
           v == ToHeads(c, fused, c.kvHeads, ValueColumn(c), QkvWidth(c))
           heads == Context(c, Data(c), [query |-> ApplyRope(q, c.sequence, c.dim),
                                         key |-> ApplyRope(k, c.sequence, c.dim), value |-> v])
           merged == MergeHeads(c, Attend(c, heads.query, heads.key, heads.value))
           residual == MatMul(merged, Data(c).output, TokenRows(c), Hidden(c), Hidden(c))
           inner == SwiGlu(MatMul(NormalizedStream(c), PackedGateUp(c, Data(c)), TokenRows(c),
                                  2 * c.intermediate, Hidden(c)), TokenRows(c), c.intermediate)
           ffn == IF c.ffn = "moe" THEN MoeRows(c)
                  ELSE MatMul(inner, Data(c).down, TokenRows(c), Hidden(c), c.intermediate)
<1>1. ExecuteOnce(c, Loops(c), Packed(c), Data(c)) =
        [residual |-> Add(residual, Data(c).input), output |-> Add(Stream(c), ffn)]
  <2>1. Data(c).input = Named("x", TokenRows(c), Hidden(c))
    BY DEF Data
  <2>2. Packed(c).qkv = PackedQkv(c, Data(c)) /\ Packed(c).gateUp = PackedGateUp(c, Data(c))
    BY DEF Packed
  <2>3. \A x, w : /\ Run(Loops(c).qkv, x, w) = MatMul(x, w, TokenRows(c), QkvWidth(c), Hidden(c))
                  /\ Run(Loops(c).output, x, w) = MatMul(x, w, TokenRows(c), Hidden(c), Hidden(c))
                  /\ Run(Loops(c).gateUp, x, w) = MatMul(x, w, TokenRows(c), 2 * c.intermediate, Hidden(c))
                  /\ Run(Loops(c).down, x, w) = MatMul(x, w, TokenRows(c), Hidden(c), c.intermediate)
    BY DEF Run, Loops
  <2>4. SplitQkv(c, fused) = [query |-> ApplyRope(q, c.sequence, c.dim),
                              key |-> ApplyRope(k, c.sequence, c.dim), value |-> v]
    BY DEF SplitQkv
  <2>5. ExecuteOnce(c, Loops(c), Packed(c), Data(c)) =
          LET normalized1 == RmsNorm(Data(c).input, "rms1", TokenRows(c), Hidden(c))
              hs == Context(c, Data(c), SplitQkv(c, Run(Loops(c).qkv, normalized1, Packed(c).qkv)))
              mg == MergeHeads(c, Attend(c, hs.query, hs.key, hs.value))
              normalized2 == RmsNorm(Stream(c), "rms2", TokenRows(c), Hidden(c))
              activated == SwiGlu(Run(Loops(c).gateUp, normalized2, Packed(c).gateUp),
                                  TokenRows(c), c.intermediate)
          IN [residual |-> Add(Run(Loops(c).output, mg, Data(c).output), Data(c).input),
              output |-> Add(Stream(c), IF c.ffn = "moe" THEN [i \in DOMAIN Stream(c) |-> <<"moe", normalized2, i>>]
                                        ELSE Run(Loops(c).down, activated, Data(c).down))]
    BY ZenonT(60) DEF ExecuteOnce
  <2> HIDE DEF q, k, v
  <2>6. fused = Run(Loops(c).qkv, RmsNorm(Data(c).input, "rms1", TokenRows(c), Hidden(c)), Packed(c).qkv)
    BY <2>1, <2>2, <2>3 DEF NormalizedInput
  <2>7. inner = SwiGlu(Run(Loops(c).gateUp, NormalizedStream(c), Packed(c).gateUp), TokenRows(c), c.intermediate)
    BY <2>2, <2>3
  <2>8. heads = Context(c, Data(c), SplitQkv(c, fused))
    BY <2>4
  <2> HIDE DEF fused, inner, heads
  <2>9. /\ residual = Run(Loops(c).output, merged, Data(c).output)
        /\ ffn = IF c.ffn = "moe" THEN [i \in DOMAIN Stream(c) |-> <<"moe", NormalizedStream(c), i>>]
                 ELSE Run(Loops(c).down, inner, Data(c).down)
    BY <2>3 DEF MoeRows, NormalizedStream
  <2> HIDE DEF residual, ffn
  <2> QED
    BY <2>5, <2>6, <2>7, <2>8, <2>9, Zenon DEF NormalizedStream
<1>2. /\ PlainHeads(c, FALSE, q, c.heads, "wq") /\ PlainHeads(c, FALSE, k, c.kvHeads, "wk")
      /\ PlainHeads(c, FALSE, v, c.kvHeads, "wv")
  <2>1. /\ c.heads \in Nat \ {0} /\ c.kvHeads \in Nat \ {0} /\ QkvWidth(c) \in Nat
        /\ Hidden(c) \in Nat /\ KvWidth(c) \in Nat /\ ValueColumn(c) \in Nat /\ 0 \in Nat
        /\ 0 + Hidden(c) <= QkvWidth(c) /\ Hidden(c) + KvWidth(c) <= QkvWidth(c)
        /\ ValueColumn(c) + KvWidth(c) <= QkvWidth(c)
        /\ Hidden(c) = c.heads * c.dim /\ KvWidth(c) = c.kvHeads * c.dim
    BY LayerSizes DEF ValueColumn, Hidden, KvWidth
  <2>2. PICK w : w = PackedQkv(c, Data(c))
    OBVIOUS
  <2>3. /\ ColumnsAre(c, w, 0, "wq", Hidden(c)) /\ ColumnsAre(c, w, Hidden(c), "wk", KvWidth(c))
        /\ ColumnsAre(c, w, ValueColumn(c), "wv", KvWidth(c))
    <3>1. \A j \in 0 .. Hidden(c) - 1 : 0 + j = j
      BY <2>1
    <3> QED
      BY <2>2, <3>1, PackedColumns DEF ColumnsAre
  <2>4. fused = MatMul(NormalizedInput(c), w, TokenRows(c), QkvWidth(c), Hidden(c))
    BY <2>2
  <2> HIDE DEF fused
  <2>5. /\ ProjectedRows(c, FALSE, fused, QkvWidth(c), 0, "wq", Hidden(c))
        /\ ProjectedRows(c, FALSE, fused, QkvWidth(c), Hidden(c), "wk", KvWidth(c))
        /\ ProjectedRows(c, FALSE, fused, QkvWidth(c), ValueColumn(c), "wv", KvWidth(c))
    BY <2>1, <2>3, <2>4, PlanProjects
  <2>6. /\ ProjectedRows(c, FALSE, fused, QkvWidth(c), 0, "wq", c.heads * c.dim)
        /\ ProjectedRows(c, FALSE, fused, QkvWidth(c), Hidden(c), "wk", c.kvHeads * c.dim)
        /\ ProjectedRows(c, FALSE, fused, QkvWidth(c), ValueColumn(c), "wv", c.kvHeads * c.dim)
    BY <2>1, <2>5
  <2> QED
    BY <2>1, <2>6, HeadsArePlain
<1> HIDE DEF fused, q, k, v
<1>3. PICK hs : hs = heads
  OBVIOUS
<1>4. MergedRows(c, FALSE, MergeHeads(c, Attend(c, hs.query, hs.key, hs.value)))
  BY <1>2, <1>3, AttentionMerges
<1>5. MergedRows(c, FALSE, merged)
  BY <1>3, <1>4
<1>6. InnerRows(c, FALSE, inner)
  BY PlanInner
<1> HIDE DEF merged, inner
<1>7. ResidualDots(c, FALSE, residual)
  BY <1>5, PlanOutputs
<1>8. /\ c.ffn = "moe" => ffn = MoeRows(c)
      /\ c.ffn # "moe" => FfnDots(c, FALSE, ffn)
  BY <1>6, PlanOutputs
<1> HIDE DEF residual, ffn
<1> QED
  BY <1>1, <1>7, <1>8, LayerIs

LEMMA Int8MeansLayer ==
  ASSUME NEW c, IsLayer(c), c.heads % c.kvHeads = 0, c.ffn = "dense"
  PROVE  ExecuteInt8(c, Data(c)) = LayerMeaning(c, TRUE)
<1> DEFINE Project(x, w, kk, n) == ProjectInt8(x, Quantize(w, kk, n), TokenRows(c), kk, n)
           Heads(w, h) == ToHeads(c, Project(NormalizedInput(c), w, Hidden(c), h * c.dim), h, 0, h * c.dim)
           q == Heads(Data(c).query, c.heads)
           k == Heads(Data(c).key, c.kvHeads)
           v == Heads(Data(c).value, c.kvHeads)
           heads == Context(c, Data(c), [query |-> ApplyRope(q, c.sequence, c.dim),
                                         key |-> ApplyRope(k, c.sequence, c.dim), value |-> v])
           merged == MergeHeads(c, Attend(c, heads.query, heads.key, heads.value))
           residual == Project(merged, Data(c).output, Hidden(c), Hidden(c))
           gate == Project(NormalizedStream(c), Data(c).gate, Hidden(c), c.intermediate)
           up == Project(NormalizedStream(c), Data(c).up, Hidden(c), c.intermediate)
           inner == [i \in DOMAIN gate |-> <<"swiglu", gate[i], up[i]>>]
           ffn == Project(inner, Data(c).down, c.intermediate, Hidden(c))
<1>1. ExecuteInt8(c, Data(c)) =
        [residual |-> Add(residual, Data(c).input), output |-> Add(Stream(c), ffn)]
  <2>1. Data(c).input = Named("x", TokenRows(c), Hidden(c))
    BY DEF Data
  <2>2. NormalizedInput(c) = RmsNorm(Data(c).input, "rms1", TokenRows(c), Hidden(c))
    BY <2>1 DEF NormalizedInput
  <2>3. Data(c)["query"] = Data(c).query /\ Data(c)["key"] = Data(c).key
    OBVIOUS
  <2> QED
    BY <2>2, ZenonT(60) DEF ExecuteInt8, NormalizedStream
<1>2. /\ c.heads \in Nat \ {0} /\ c.kvHeads \in Nat \ {0} /\ c.dim \in Nat \ {0} /\ 0 \in Nat
      /\ Hidden(c) = c.heads * c.dim /\ KvWidth(c) = c.kvHeads * c.dim
  BY LayerSizes DEF Hidden, KvWidth
<1>3. /\ Data(c).query = Named("wq", Hidden(c), c.heads * c.dim)
      /\ Data(c).key = Named("wk", Hidden(c), c.kvHeads * c.dim)
      /\ Data(c).value = Named("wv", Hidden(c), c.kvHeads * c.dim)
      /\ Data(c).gate = Named("wg", Hidden(c), c.intermediate)
      /\ Data(c).up = Named("wu", Hidden(c), c.intermediate)
  BY <1>2 DEF Data
<1>4. ASSUME NEW h \in Nat \ {0}, NEW name
      PROVE  PlainHeads(c, TRUE, Heads(Named(name, Hidden(c), h * c.dim), h), h, name)
  <2>1. PICK n \in Nat \ {0} : n = h * c.dim
    BY <1>2, TimesIsPositive
  <2>2. PICK x : x = Project(NormalizedInput(c), Named(name, Hidden(c), n), Hidden(c), n)
    OBVIOUS
  <2>3. ProjectedRows(c, TRUE, x, n, 0, name, h * c.dim)
    BY <2>1, <2>2, Int8Projects
  <2>4. n \in Nat /\ 0 \in Nat
    OBVIOUS
  <2>5. PlainHeads(c, TRUE, ToHeads(c, x, h, 0, n), h, name)
    BY <2>3, <2>4, HeadsArePlain
  <2> QED
    BY <2>1, <2>2, <2>5
<1>5. /\ PlainHeads(c, TRUE, q, c.heads, "wq") /\ PlainHeads(c, TRUE, k, c.kvHeads, "wk")
      /\ PlainHeads(c, TRUE, v, c.kvHeads, "wv")
  <2> HIDE DEF Heads
  <2> QED
    BY <1>2, <1>3, <1>4
<1> HIDE DEF q, k, v
<1>6. PICK hs : hs = heads
  OBVIOUS
<1>7. MergedRows(c, TRUE, MergeHeads(c, Attend(c, hs.query, hs.key, hs.value)))
  BY <1>5, <1>6, AttentionMerges
<1>8. MergedRows(c, TRUE, merged)
  BY <1>6, <1>7
<1>9. InnerRows(c, TRUE, inner)
  <2>1. PICK g, u : g = gate /\ u = up
    OBVIOUS
  <2>2. InnerRows(c, TRUE, [i \in DOMAIN g |-> <<"swiglu", g[i], u[i]>>])
    BY <1>3, <2>1, Int8Inner
  <2> QED
    BY <2>1, <2>2
<1> HIDE DEF merged, inner
<1>10. ResidualDots(c, TRUE, residual)
  BY <1>8, Int8Outputs
<1>11. FfnDots(c, TRUE, ffn)
  BY <1>9, Int8Outputs
<1> HIDE DEF residual, ffn
<1> QED
  BY <1>1, <1>10, <1>11, LayerIs

(* Only a call that may be executed reaches an execution, and its mode     *)
(* says which.                                                             *)
ExecutionInv ==
  /\ call \in Calls
  /\ phase = "ready" => call.mode = "plain" /\ call.feasible
  /\ phase \in {"rank", "measure", "compare", "optimized"} => call.mode = "optimize" /\ call.feasible
  /\ LayerKeepsMeaning

LEMMA ExecutedMeans ==
  ASSUME NEW k \in Calls, k.feasible, k.mode \in {"plain", "optimize"}
  PROVE  Executed[k.config] = Meaning[k.config][k.mode = "int8"]
<1> DEFINE c == k.config
           P == {x.config : x \in {y \in Calls : y.feasible /\ y.mode \in {"plain", "optimize"}}}
           Q == {x.config : x \in {y \in Calls : y.mode = "int8" \/ (y.feasible /\ y.mode # "tune")}}
<1>1. c \in P /\ c \in Q
  OBVIOUS
<1>2. IsLayer(c) /\ c.heads % c.kvHeads = 0
  BY CallFacts, CallsAssumption DEF CallsAreSupported, Supported
<1>3. Executed[c] = ExecuteOnce(c, Loops(c), Packed(c), Data(c))
  <2>1. Executed =
          [d \in P |-> ExecuteOnce(d, Loops(d), [qkv |-> PackedQkv(d, Data(d)),
                                                 gateUp |-> PackedGateUp(d, Data(d))], Data(d))]
    BY Zenon DEF Executed
  <2> HIDE DEF P, c
  <2> QED
    BY <1>1, <2>1 DEF Packed
<1>4. Meaning[c][k.mode = "int8"] = LayerMeaning(c, FALSE)
  <2>1. Meaning = [d \in Q |-> [int8 \in {b \in BOOLEAN : b => d.ffn = "dense"} |-> LayerMeaning(d, int8)]]
    BY Zenon DEF Meaning
  <2>2. (k.mode = "int8") = FALSE
    OBVIOUS
  <2> HIDE DEF Q, c
  <2>3. Meaning[c] = [int8 \in {b \in BOOLEAN : b => c.ffn = "dense"} |-> LayerMeaning(c, int8)]
    BY <1>1, <2>1
  <2>4. FALSE \in {b \in BOOLEAN : b => c.ffn = "dense"}
    OBVIOUS
  <2>5. Meaning[c][FALSE] = LayerMeaning(c, FALSE)
    BY <2>3, <2>4, Zenon
  <2> QED
    BY <2>2, <2>5, Zenon
<1> HIDE DEF c
<1>5. ExecuteOnce(c, Loops(c), Packed(c), Data(c)) = LayerMeaning(c, FALSE)
  BY <1>2, PlanMeansLayer
<1> QED
  BY <1>3, <1>4, <1>5, Zenon DEF c

LEMMA Int8Means ==
  ASSUME NEW k \in Calls, k.mode = "int8", k.config.ffn = "dense"
  PROVE  ExecuteInt8(k.config, Data(k.config)) = Meaning[k.config][k.mode = "int8"]
<1> DEFINE c == k.config
           Q == {x.config : x \in {y \in Calls : y.mode = "int8" \/ (y.feasible /\ y.mode # "tune")}}
<1>1. c \in Q
  OBVIOUS
<1>2. IsLayer(c) /\ c.heads % c.kvHeads = 0
  BY CallFacts, CallsAssumption DEF CallsAreSupported, Supported
<1>3. Meaning = [d \in Q |-> [int8 \in {b \in BOOLEAN : b => d.ffn = "dense"} |-> LayerMeaning(d, int8)]]
  BY Zenon DEF Meaning
<1>4. (k.mode = "int8") = TRUE
  OBVIOUS
<1>5. c.ffn = "dense"
  OBVIOUS
<1> HIDE DEF Q, c
<1>6. Meaning[c] = [int8 \in {b \in BOOLEAN : b => c.ffn = "dense"} |-> LayerMeaning(c, int8)]
  BY <1>1, <1>3
<1>7. TRUE \in {b \in BOOLEAN : b => c.ffn = "dense"}
  BY <1>5
<1>8. Meaning[c][TRUE] = LayerMeaning(c, TRUE)
  BY <1>6, <1>7, Zenon
<1>9. ExecuteInt8(c, Data(c)) = LayerMeaning(c, TRUE)
  BY <1>2, <1>5, Int8MeansLayer
<1> QED
  BY <1>4, <1>8, <1>9, Zenon DEF c

LEMMA ExecutionStep == ExecutionInv /\ [PlanNext]_planVars => ExecutionInv'
<1> SUFFICES ASSUME ExecutionInv, [PlanNext]_planVars
             PROVE  ExecutionInv'
  OBVIOUS
<1>1. CASE UNCHANGED planVars
  BY <1>1 DEF ExecutionInv, LayerKeepsMeaning, planVars, Config
<1>2. CASE RejectGraph \/ CompileOnly \/ CompilePlain \/ BeginTuning \/ RejectQuantized
  BY <1>2 DEF ExecutionInv, LayerKeepsMeaning, RejectGraph, CompileOnly, CompilePlain, BeginTuning,
     RejectQuantized, Begins
<1>3. CASE Rank \/ Conclude
  BY <1>3 DEF ExecutionInv, LayerKeepsMeaning, Rank, Conclude
<1>4. CASE Execute
  <2>1. /\ call' = call /\ phase' = "executed" /\ output' = Executed[call.config]
        /\ call.feasible /\ call.mode \in {"plain", "optimize"} /\ call \in Calls
    BY <1>4 DEF Execute, ExecutionInv, Config
  <2>2. Executed[call.config] = Meaning[call.config][call.mode = "int8"]
    BY <2>1, ExecutedMeans
  <2>3. LayerKeepsMeaning'
    BY <2>1, <2>2, Zenon DEF LayerKeepsMeaning, Config, Meaning, Executed
  <2> QED
    BY <2>1, <2>3 DEF ExecutionInv
<1>5. CASE ExecuteQuantized
  <2>1. /\ call' = call /\ phase' = "executed" /\ output' = ExecuteInt8(call.config, Data(call.config))
        /\ call.mode = "int8" /\ call.config.ffn = "dense" /\ call \in Calls
    BY <1>5 DEF ExecuteQuantized, ExecutionInv, Config
  <2>2. ExecuteInt8(call.config, Data(call.config)) = Meaning[call.config][call.mode = "int8"]
    BY <2>1, Int8Means
  <2>3. LayerKeepsMeaning'
    BY <2>1, <2>2, Zenon DEF LayerKeepsMeaning, Config, Meaning, Executed
  <2> QED
    BY <2>1, <2>3 DEF ExecutionInv
<1>6. ASSUME NEW ms \in Latencies, Screen(ms) \/ Final(ms)
      PROVE  ExecutionInv'
  BY <1>6 DEF ExecutionInv, LayerKeepsMeaning, Screen, Final
<1>7. ASSUME NEW ms \in Latencies, MeasureBaseline(ms) \/ MeasureCandidate(ms)
      PROVE  ExecutionInv'
  BY <1>7 DEF ExecutionInv, LayerKeepsMeaning, MeasureBaseline, MeasureCandidate, Begins
<1>8. ASSUME NEW ms1 \in Latencies, NEW ms2 \in Latencies, Confirm(ms1, ms2)
      PROVE  ExecutionInv'
  BY <1>8 DEF ExecutionInv, LayerKeepsMeaning, Confirm
<1> QED
  BY <1>1, <1>2, <1>3, <1>4, <1>5, <1>6, <1>7, <1>8 DEF PlanNext

(* For every configuration the compiler accepts, a compiled, an optimised  *)
(* and an INT8 layer compute what a decoder layer is.                      *)
THEOREM ExecutionsKeepMeaning == PlanSpec => []LayerKeepsMeaning
<1>1. PlanInit => ExecutionInv
  BY DEF PlanInit, ExecutionInv, LayerKeepsMeaning
<1>2. ExecutionInv => LayerKeepsMeaning
  BY DEF ExecutionInv
<1> QED
  BY <1>1, <1>2, ExecutionStep, PTL DEF PlanSpec
=============================================================================

------------------------------ MODULE PagedKV -------------------------------
(***************************************************************************)
(* The paged key/value cache of src/next_milestones.cpp: a page table and  *)
(* a free list over physical pages of PageTokens tokens each.  append      *)
(* takes pages from the back of the free list, truncate gives them back    *)
(* without erasing them, and readers go through the page table.            *)
(*                                                                         *)
(* One slot of a page stands for all batches, heads and dimensions of a    *)
(* token: page_offset keeps those apart and never mixes two tokens.        *)
(***************************************************************************)
EXTENDS Integers, Sequences, FiniteSets

CONSTANTS
  Values,       \* what one token's key and value vectors can hold
  Zero,         \* the content of storage never written
  PageTokens,   \* config.page_tokens
  Capacity,     \* config.capacity
  SequenceKV,   \* plan.config.sequence_kv, the compiled bound on the length
  MaxQuery      \* bound: the largest plan.config.sequence_query considered

ASSUME PageTokensAssumption == PageTokens \in Nat \ {0}   \* validate_paged_config
ASSUME CapacityAssumption == Capacity \in Nat \ {0}       \* validate_paged_config
ASSUME SequenceKVAssumption == SequenceKV \in Nat \ {0}
ASSUME MaxQueryAssumption == MaxQuery \in Nat \ {0}
ASSUME ZeroAssumption == Zero \notin Values

(* (n + page_tokens - 1) / page_tokens: how many pages n tokens need. *)
PagesFor(n) == (n + PageTokens - 1) \div PageTokens

PageCount == PagesFor(Capacity)
Pages == 0 .. PageCount - 1
Slots == Pages \X (0 .. PageTokens - 1)

(* What callers pass: every list of tokens that can fit, and longer ones.  *)
Batches == UNION {[1 .. n -> Values] : n \in 0 .. Capacity + 1}
Queries == 1 .. MaxQuery

VARIABLES
  length,      \* cache.length
  pageTable,   \* cache.page_table
  freePages,   \* cache.free_pages, a stack
  store,       \* cache.keys and cache.values
  status,      \* how the last call ended
  view         \* the rows of tokens the last call read

vars == <<length, pageTable, freePages, store, status, view>>

InUse == {pageTable[i] : i \in DOMAIN pageTable}
Free == {freePages[i] : i \in DOMAIN freePages}

(* paged_pointer, page_offset: where token t is, through a page table. *)
Slot(table, t) == <<table[t \div PageTokens + 1], t % PageTokens>>

(* The cached token at position i of the logical sequence (from 1). *)
Token(i) == store[Slot(pageTable, i - 1)]
Tokens == [i \in 1 .. length |-> Token(i)]

(* make_paged_kv_cache *)
Init ==
  /\ length = 0
  /\ pageTable = <<>>
  /\ freePages = [i \in 1 .. PageCount |-> i - 1]
  /\ store = [s \in Slots |-> Zero]
  /\ status = "ok"
  /\ view = <<>>

Reject ==
  /\ status' = "rejected"
  /\ view' = <<>>
  /\ UNCHANGED <<length, pageTable, freePages, store>>

-----------------------------------------------------------------------------
(* The k pages popped from the back of the free list, in that order. *)
Popped(k) == [i \in 1 .. k |-> freePages[Len(freePages) + 1 - i]]

(* Mutant: the pages are taken but stay on the free list. *)
AllocateWithoutPop(k) ==
  /\ pageTable' = pageTable \o Popped(k)
  /\ UNCHANGED freePages

Allocate(k) ==
  /\ pageTable' = pageTable \o Popped(k)
  /\ freePages' = SubSeq(freePages, 1, Len(freePages) - k)

(* Mutant: the new tokens overwrite the first ones. *)
WriteAtStart(vs) ==
  store' = [s \in Slots |->
    IF \E t \in 1 .. Len(vs) : Slot(pageTable', t - 1) = s
      THEN vs[CHOOSE t \in 1 .. Len(vs) : Slot(pageTable', t - 1) = s]
      ELSE store[s]]

(* Copy the tokens vs behind the cached ones, slot by slot. *)
Write(vs) ==
  store' = [s \in Slots |->
    IF \E t \in 1 .. Len(vs) : Slot(pageTable', length + t - 1) = s
      THEN vs[CHOOSE t \in 1 .. Len(vs) : Slot(pageTable', length + t - 1) = s]
      ELSE store[s]]

(* How many pages the loop of append_paged_kv still has to take: up to the *)
(* page of the last new token.                                             *)
Short(n) == (length + n - 1) \div PageTokens + 1 - Len(pageTable)

(* Mutant: no capacity check. *)
FitsAlways(n) == n > 0

(* The first guard of append_paged_kv. *)
Fits(n) == n > 0 /\ length + n <= Capacity

(* append_paged_kv.  When the free list runs out the call throws after it  *)
(* has taken every free page and before it has written a token.            *)
AppendTokens(vs) ==
  LET short == Short(Len(vs))
      taken == IF short <= 0 THEN 0
               ELSE IF short <= Len(freePages) THEN short ELSE Len(freePages)
  IN /\ Fits(Len(vs))
     /\ Allocate(taken)
     /\ view' = <<>>
     /\ IF short > Len(freePages)
          THEN status' = "exhausted" /\ UNCHANGED <<length, store>>
          ELSE status' = "ok" /\ length' = length + Len(vs) /\ Write(vs)

(* The guards of append_paged_kv: the token count, then the buffer shapes. *)
RejectAppend(n, shapesMatch) ==
  /\ ~Fits(n) \/ ~shapesMatch
  /\ Reject

-----------------------------------------------------------------------------
(* Mutant: rounds the retained pages down. *)
RetainFloor(n) == n \div PageTokens

Retained(n) == IF n = 0 THEN 0 ELSE PagesFor(n)

(* truncate_paged_kv: give back the pages behind the retained prefix, the  *)
(* last one first; nothing is erased.                                      *)
TruncateTo(n) ==
  LET kept == Retained(n)
  IN /\ n \in 0 .. length
     /\ freePages' = freePages \o
          [i \in 1 .. Len(pageTable) - kept |-> pageTable[Len(pageTable) + 1 - i]]
     /\ pageTable' = SubSeq(pageTable, 1, kept)
     /\ length' = n
     /\ status' = "ok"
     /\ view' = <<>>
     /\ UNCHANGED store

RejectTruncate(n) ==
  /\ n < 0 \/ n > length
  /\ Reject

(* release_paged_kv_pages with one page; a list is the same as its pages   *)
(* in order up to the first that throws.                                   *)
ReleasePage(page) ==
  IF page \notin Pages \/ page \in InUse THEN Reject
  ELSE /\ freePages' = IF page \in Free THEN freePages ELSE Append(freePages, page)
       /\ status' = "ok"
       /\ view' = <<>>
       /\ UNCHANGED <<length, pageTable, store>>

-----------------------------------------------------------------------------
Reads(rows) ==
  /\ status' = "ok"
  /\ view' = rows
  /\ UNCHANGED <<length, pageTable, freePages, store>>

(* gather_paged_kv: copy the tokens into a flat cache. *)
GatherFlat == IF length <= 0 THEN Reject ELSE Reads(<<Tokens>>)

(* The keys that query row i of q attends to (paged_attention_online):     *)
(* absolute_query is length - q + i - 1 and keys behind it are masked.     *)
VisibleRow(q, causal, i) ==
  IF causal THEN SubSeq(Tokens, 1, length - q + i) ELSE Tokens

(* Mutant: without the guard on the causal query length. *)
AcceptsUnguarded(q, causal) ==
  /\ length > 0 /\ length <= SequenceKV
  /\ Len(pageTable) >= PagesFor(length)

(* validate_paged_attention *)
Accepts(q, causal) ==
  /\ length > 0 /\ length <= SequenceKV
  /\ causal => q <= length
  /\ Len(pageTable) >= PagesFor(length)

(* execute_paged_decode_attention *)
AttendPaged(q, causal) ==
  IF Accepts(q, causal)
    THEN Reads([i \in 1 .. q |-> VisibleRow(q, causal, i)])
    ELSE Reject

-----------------------------------------------------------------------------
Next ==
  \/ \E vs \in Batches : AppendTokens(vs)
  \/ \E n \in 0 .. Capacity + 1, shapesMatch \in BOOLEAN : RejectAppend(n, shapesMatch)
  \/ \E n \in 0 .. Capacity : TruncateTo(n)
  \/ \E n \in -1 .. Capacity + 1 : RejectTruncate(n)
  \/ \E page \in -1 .. PageCount : ReleasePage(page)
  \/ GatherFlat
  \/ \E q \in Queries, causal \in BOOLEAN : AttendPaged(q, causal)

Spec == Init /\ [][Next]_vars

-----------------------------------------------------------------------------
TypeOK ==
  /\ length \in 0 .. Capacity
  /\ pageTable \in Seq(Pages)
  /\ freePages \in Seq(Pages)
  /\ store \in [Slots -> Values \cup {Zero}]
  /\ status \in {"ok", "rejected", "exhausted"}
  /\ view \in Seq(Seq(Values \cup {Zero}))

(* Every physical page is in the page table or on the free list, and       *)
(* nowhere twice: no leak, no double free, no page shared by two positions *)
(* (append_paged_kv, truncate_paged_kv, release_paged_kv_pages).           *)
PagesPartitioned ==
  /\ InUse \cup Free = Pages
  /\ InUse \cap Free = {}
  /\ \A i, j \in DOMAIN pageTable : pageTable[i] = pageTable[j] => i = j
  /\ \A i, j \in DOMAIN freePages : freePages[i] = freePages[j] => i = j

(* The page table holds exactly the pages the length needs. *)
TableFitsLength == Len(pageTable) = PagesFor(length)

(* "paged KV page allocator exhausted" is never thrown: a call that passes *)
(* the capacity check finds its pages, whatever was truncated or released  *)
(* before, so no call fails half way.                                      *)
AllocatorSuffices == status # "exhausted"

(* An attention row the guards let through has at least one key, so the    *)
(* softmax denominator is not zero.                                        *)
EveryRowHasAKey == \A i \in DOMAIN view : view[i] # <<>>

(* The cache is the logical list of the tokens appended and not truncated: *)
(* neither the order of recycled pages nor the data left in them shows.    *)
KV == INSTANCE KVSequence WITH tokens <- Tokens

ImplementsKVSequence == KV!Spec

=============================================================================

----------------------------- MODULE KVSequence -----------------------------
(***************************************************************************)
(* What a key/value cache promises: a bounded list of tokens that grows at *)
(* the end, can be cut back to a prefix, and is read by attention rows.    *)
(* The abstract specification of the paged cache (PagedKV refines it).     *)
(***************************************************************************)
EXTENDS Integers, Sequences

CONSTANTS
  Batches,      \* the token lists a caller may append
  Queries,      \* the query lengths a caller may ask for
  Capacity,     \* config.capacity
  SequenceKV    \* the compiled bound Sk of an attention plan

VARIABLES
  tokens,       \* the cached tokens, oldest first
  status,       \* how the last call ended
  view          \* the rows the last call read

kvvars == <<tokens, status, view>>

Init == tokens = <<>> /\ status = "ok" /\ view = <<>>

(* The keys query row i of q sees: all of them, or the causal prefix.      *)
RowOf(q, causal, i) ==
  IF causal THEN SubSeq(tokens, 1, Len(tokens) - q + i) ELSE tokens

Extend(vs) ==
  /\ Len(vs) > 0
  /\ Len(tokens) + Len(vs) <= Capacity
  /\ tokens' = tokens \o vs
  /\ status' = "ok"
  /\ view' = <<>>

Truncate(n) ==
  /\ n \in 0 .. Len(tokens)
  /\ tokens' = SubSeq(tokens, 1, n)
  /\ status' = "ok"
  /\ view' = <<>>

Gather ==
  /\ Len(tokens) > 0
  /\ view' = <<tokens>>
  /\ status' = "ok"
  /\ UNCHANGED tokens

Attend(q, causal) ==
  /\ Len(tokens) \in 1 .. SequenceKV
  /\ causal => q <= Len(tokens)
  /\ view' = [i \in 1 .. q |-> RowOf(q, causal, i)]
  /\ status' = "ok"
  /\ UNCHANGED tokens

(* A call without a visible effect: it is refused, or releases nothing. *)
NoEffect ==
  /\ status' \in {"ok", "rejected"}
  /\ view' = <<>>
  /\ UNCHANGED tokens

Next ==
  \/ \E vs \in Batches : Extend(vs)
  \/ \E n \in 0 .. Capacity : Truncate(n)
  \/ Gather
  \/ \E q \in Queries, causal \in BOOLEAN : Attend(q, causal)
  \/ NoEffect

Spec == Init /\ [][Next]_kvvars

=============================================================================

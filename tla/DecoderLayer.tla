---------------------------- MODULE DecoderLayer ----------------------------
(***************************************************************************)
(* One Transformer decoder layer, computed in three ways: by the compiled  *)
(* plan (src/decoder_compiler.cpp, execute_once) with packed weights, by   *)
(* the INT8 layer (src/next_milestones.cpp) with seven separate transposed *)
(* weights, and, as what both should compute, by LayerMeaning, which knows *)
(* batches, tokens and heads but no flat arrays.  reference_decoder_layer  *)
(* repeats the index arithmetic of execute_once with scalar products and   *)
(* is no definition of its own here.                                       *)
(*                                                                         *)
(* A tensor is a function from flat indices to expressions.  An expression *)
(* is a tuple headed by what computes it; sums keep the order of terms.    *)
(* The residual stream is renamed between the attention half and the FFN,  *)
(* which treats its elements alike.  An MoE FFN is the function of the     *)
(* normalised rows that MoeRuntime models.                                 *)
(***************************************************************************)
EXTENDS RowPartition, Sequences, FiniteSets

(* An [m x n] matrix of named elements, row-major. *)
Named(name, m, n) == [i \in 0 .. m * n - 1 |-> <<name, i \div n, i % n>>]

TokenRows(c) == c.batch * c.sequence
Hidden(c) == c.heads * c.dim
KvWidth(c) == c.kvHeads * c.dim
QkvWidth(c) == Hidden(c) + 2 * KvWidth(c)
KeyLength(c) == IF c.context > 0 THEN c.context ELSE c.sequence

(* validate and, for the attention it compiles, validate_config. *)
Supported(c) ==
  /\ \A f \in {"batch", "sequence", "heads", "kvHeads", "dim", "intermediate"} : c[f] > 0
  /\ c.heads % c.kvHeads = 0
  /\ c.context >= 0
  /\ c.ffn \in {"dense", "moe"}
  /\ c.causal => c.sequence <= KeyLength(c)

-----------------------------------------------------------------------------
(* Steps on flat tensors.                                                  *)

RmsNorm(x, weight, m, n) ==
  [i \in 0 .. m * n - 1 |->
     <<"norm", [p \in 0 .. n - 1 |-> x[(i \div n) * n + p]], weight, i % n>>]

MatMul(x, w, m, n, k) ==
  [i \in 0 .. m * n - 1 |->
     [p \in 0 .. k - 1 |-> <<x[(i \div n) * k + p], w[p * n + (i % n)]>>]]

(* The first column of weight t in the packed matrix. *)
ColumnsBefore(widths, t) ==
  LET before[s \in 1 .. Len(widths) + 1] == IF s = 1 THEN 0 ELSE before[s - 1] + widths[s - 1]
  IN before[t]

(* concatenate_columns: the weights side by side, row by row. *)
ConcatenateColumns(weights, k, widths) ==
  LET total == ColumnsBefore(widths, Len(widths) + 1)
      Source(j) == CHOOSE t \in 1 .. Len(widths) :
                     j \in ColumnsBefore(widths, t) .. ColumnsBefore(widths, t) + widths[t] - 1
  IN [i \in 0 .. k * total - 1 |->
        LET t == Source(i % total)
        IN weights[t][(i \div total) * widths[t] + (i % total) - ColumnsBefore(widths, t)]]

(* The address of an element of a [batch, head, token, dimension] tensor,  *)
(* and the coordinates of an address.                                      *)
HeadMajor(heads, tokens, dim, b, h, t, d) == ((b * heads + h) * tokens + t) * dim + d
BatchOf(heads, tokens, dim, i) == i \div (heads * tokens * dim)
HeadOf(heads, tokens, dim, i) == (i \div (tokens * dim)) % heads
TokenOf(tokens, dim, i) == (i \div dim) % tokens

(* What RoPE makes of one element; the last dimension of an odd number is  *)
(* left alone.                                                             *)
Rotated(even, odd, token, d) ==
  IF d % 2 = 0 THEN <<"cos-sin", even, odd, token, d>> ELSE <<"sin+cos", even, odd, token, d - 1>>

ApplyRope(x, tokens, dim) ==
  [i \in DOMAIN x |->
     LET d == i % dim
         first == i - (d % 2)
     IN IF d - (d % 2) + 1 < dim THEN Rotated(x[first], x[first + 1], TokenOf(tokens, dim, i), d)
        ELSE x[i]]

(* The heads of a row-major matrix whose rows are `width` wide and in      *)
(* which they start at column `from`.                                      *)
ToHeads(c, x, heads, from, width) ==
  [i \in 0 .. TokenRows(c) * heads * c.dim - 1 |->
     LET row == BatchOf(heads, c.sequence, c.dim, i) * c.sequence + TokenOf(c.sequence, c.dim, i)
     IN x[row * width + from + HeadOf(heads, c.sequence, c.dim, i) * c.dim + (i % c.dim)]]

(* Mutant: the values are taken from where the keys are. *)
ValueColumnOfKeys(c) == Hidden(c)

ValueColumn(c) == Hidden(c) + KvWidth(c)

SplitQkv(c, fused) ==
  [query |-> ApplyRope(ToHeads(c, fused, c.heads, 0, QkvWidth(c)), c.sequence, c.dim),
   key   |-> ApplyRope(ToHeads(c, fused, c.kvHeads, Hidden(c), QkvWidth(c)), c.sequence, c.dim),
   value |-> ToHeads(c, fused, c.kvHeads, ValueColumn(c), QkvWidth(c))]

(* merge_attention (both layouts loop over the same addresses) and         *)
(* heads_to_row_major.                                                     *)
MergeHeads(c, x) ==
  [i \in 0 .. TokenRows(c) * Hidden(c) - 1 |->
     LET row == i \div Hidden(c)
         column == i % Hidden(c)
     IN x[HeadMajor(c.heads, c.sequence, c.dim, row \div c.sequence, column \div c.dim,
                    row % c.sequence, column % c.dim)]]

(* The keys that a query may see: `allowed`. *)
VisibleKeys(c, t) ==
  {s \in 0 .. KeyLength(c) - 1 : c.causal => s <= KeyLength(c) - c.sequence + t}

(* reference_attention; execute_attention and execute_decode_attention     *)
(* return the same (AttentionRuntime).                                     *)
Attend(c, query, key, value) ==
  [i \in DOMAIN query |->
     LET b == BatchOf(c.heads, c.sequence, c.dim, i)
         h == (HeadOf(c.heads, c.sequence, c.dim, i) * c.kvHeads) \div c.heads
         t == TokenOf(c.sequence, c.dim, i)
         At(s, d) == HeadMajor(c.kvHeads, KeyLength(c), c.dim, b, h, s, d)
     IN <<"attend", [d \in 0 .. c.dim - 1 |-> query[i - (i % c.dim) + d]],
          [s \in VisibleKeys(c, t) |->
             <<[d \in 0 .. c.dim - 1 |-> key[At(s, d)]], value[At(s, i % c.dim)]>>]>>]

Add(x, y) == [i \in DOMAIN x |-> <<"add", x[i], y[i]>>]

SwiGlu(gateUp, m, n) ==
  [i \in 0 .. m * n - 1 |->
     LET row == (i \div n) * 2 * n
     IN <<"swiglu", gateUp[row + (i % n)], gateUp[row + n + (i % n)]>>]

-----------------------------------------------------------------------------
(* The data of a layer: make_decoder_data.                                 *)

Data(c) ==
  [input  |-> Named("x", TokenRows(c), Hidden(c)),
   query  |-> Named("wq", Hidden(c), Hidden(c)),
   key    |-> Named("wk", Hidden(c), KvWidth(c)),
   value  |-> Named("wv", Hidden(c), KvWidth(c)),
   output |-> Named("wo", Hidden(c), Hidden(c)),
   gate   |-> Named("wg", Hidden(c), c.intermediate),
   up     |-> Named("wu", Hidden(c), c.intermediate),
   down   |-> Named("wd", c.intermediate, Hidden(c)),
   cachedKey   |-> [i \in 0 .. c.batch * KvWidth(c) * c.context - 1 |-> <<"ck", i>>],
   cachedValue |-> [i \in 0 .. c.batch * KvWidth(c) * c.context - 1 |-> <<"cv", i>>]]

(* The residual stream as the second half of the layer names it. *)
Stream(c) == Named("h", TokenRows(c), Hidden(c))

(* The problems m, n, k of the four loops of a plan, and its packed        *)
(* weights: DecoderCompiler::compile.                                      *)
Loops(c) ==
  [qkv    |-> <<TokenRows(c), QkvWidth(c), Hidden(c)>>,
   output |-> <<TokenRows(c), Hidden(c), Hidden(c)>>,
   gateUp |-> <<TokenRows(c), 2 * c.intermediate, Hidden(c)>>,
   down   |-> <<TokenRows(c), Hidden(c), c.intermediate>>]

PackedQkv(c, data) ==
  ConcatenateColumns(<<data.query, data.key, data.value>>, Hidden(c),
                     <<Hidden(c), KvWidth(c), KvWidth(c)>>)
PackedGateUp(c, data) ==
  ConcatenateColumns(<<data.gate, data.up>>, Hidden(c), <<c.intermediate, c.intermediate>>)

Run(loop, x, w) == MatMul(x, w, loop[1], loop[2], loop[3])

(* The keys and values of a call: a decode sees the cached ones only. *)
Context(c, data, heads) ==
  IF c.context > 0 THEN [heads EXCEPT !.key = data.cachedKey, !.value = data.cachedValue]
  ELSE heads

-----------------------------------------------------------------------------
(* The layer as the plan executes it: execute_once.  A result has the      *)
(* residual stream between the halves and the output.                      *)

ExecuteOnce(c, loops, packed, data) ==
  LET normalized1 == RmsNorm(data.input, "rms1", TokenRows(c), Hidden(c))
      heads == Context(c, data, SplitQkv(c, Run(loops.qkv, normalized1, packed.qkv)))
      merged == MergeHeads(c, Attend(c, heads.query, heads.key, heads.value))
      normalized2 == RmsNorm(Stream(c), "rms2", TokenRows(c), Hidden(c))
      activated == SwiGlu(Run(loops.gateUp, normalized2, packed.gateUp),
                          TokenRows(c), c.intermediate)
  IN [residual |-> Add(Run(loops.output, merged, data.output), data.input),
      output |-> Add(Stream(c), IF c.ffn = "moe" THEN [i \in DOMAIN Stream(c) |-> <<"moe", normalized2, i>>]
                                ELSE Run(loops.down, activated, data.down))]

(* quantize_decoder_matrix: transposed, then element for element an INT8.  *)
Quantize(w, m, n) == [i \in 0 .. m * n - 1 |-> <<"int8", w[(i % m) * n + (i \div m)]>>]

(* decoder_quantized_project: the products with a transposed matrix. *)
ProjectInt8(x, w, m, k, n) ==
  [i \in 0 .. m * n - 1 |->
     [p \in 0 .. k - 1 |-> <<x[(i \div n) * k + p], w[(i % n) * k + p]>>]]

(* execute_quantized_decoder_once, after quantize_decoder_weights. *)
ExecuteInt8(c, data) ==
  LET Project(x, name, k, n) ==
        ProjectInt8(x, Quantize(data[name], k, n), TokenRows(c), k, n)
      normalized1 == RmsNorm(data.input, "rms1", TokenRows(c), Hidden(c))
      Heads(name, heads) ==
        ToHeads(c, Project(normalized1, name, Hidden(c), heads * c.dim), heads, 0, heads * c.dim)
      heads == Context(c, data,
        [query |-> ApplyRope(Heads("query", c.heads), c.sequence, c.dim),
         key   |-> ApplyRope(Heads("key", c.kvHeads), c.sequence, c.dim),
         value |-> Heads("value", c.kvHeads)])
      merged == MergeHeads(c, Attend(c, heads.query, heads.key, heads.value))
      normalized2 == RmsNorm(Stream(c), "rms2", TokenRows(c), Hidden(c))
      gate == Project(normalized2, "gate", Hidden(c), c.intermediate)
      up == Project(normalized2, "up", Hidden(c), c.intermediate)
      activated == [i \in DOMAIN gate |-> <<"swiglu", gate[i], up[i]>>]
  IN [residual |-> Add(Project(merged, "output", Hidden(c), Hidden(c)), data.input),
      output |-> Add(Stream(c), Project(activated, "down", c.intermediate, Hidden(c)))]

-----------------------------------------------------------------------------
(* What a decoder layer computes, by batch, token, head and dimension.     *)
(* Weight(name, k, n) is the element of a weight: plain or an INT8.        *)

LayerMeaning(c, int8) ==
  LET Weight(name, k, n) == IF int8 THEN <<"int8", <<name, k, n>>>> ELSE <<name, k, n>>
      Dot(row, k, name, n) == [p \in 0 .. k - 1 |-> <<row[p], Weight(name, p, n)>>]
      Row(b, t) == b * c.sequence + t
      Norm(name, weight, b, t) ==
        [n \in 0 .. Hidden(c) - 1 |->
           <<"norm", [p \in 0 .. Hidden(c) - 1 |-> <<name, Row(b, t), p>>], weight, n>>]
      Turn(name, b, t, h, d) ==
        LET Plain(e) == Dot(Norm("x", "rms1", b, t), Hidden(c), name, h * c.dim + e)
        IN IF d % 2 = 1 THEN Rotated(Plain(d - 1), Plain(d), t, d)
           ELSE IF d + 1 < c.dim THEN Rotated(Plain(d), Plain(d + 1), t, d)
           ELSE Plain(d)
      Cached(name, b, h, s, d) == <<name, HeadMajor(c.kvHeads, c.context, c.dim, b, h, s, d)>>
      Key(b, s, h, d) ==
        IF c.context > 0 THEN Cached("ck", b, h, s, d) ELSE Turn("wk", b, s, h, d)
      Value(b, s, h, d) ==
        IF c.context > 0 THEN Cached("cv", b, h, s, d)
        ELSE Dot(Norm("x", "rms1", b, s), Hidden(c), "wv", h * c.dim + d)
      Attended(b, t, h, d) ==
        LET group == h \div (c.heads \div c.kvHeads)
        IN <<"attend", [e \in 0 .. c.dim - 1 |-> Turn("wq", b, t, h, e)],
             [s \in VisibleKeys(c, t) |->
                <<[e \in 0 .. c.dim - 1 |-> Key(b, s, group, e)], Value(b, s, group, d)>>]>>
      Merged(b, t) == [n \in 0 .. Hidden(c) - 1 |-> Attended(b, t, n \div c.dim, n % c.dim)]
      Inner(b, t) ==
        [j \in 0 .. c.intermediate - 1 |->
           <<"swiglu", Dot(Norm("h", "rms2", b, t), Hidden(c), "wg", j),
                       Dot(Norm("h", "rms2", b, t), Hidden(c), "wu", j)>>]
  IN [residual |-> [i \in DOMAIN Stream(c) |->
        LET b == i \div (c.sequence * Hidden(c))
            t == (i \div Hidden(c)) % c.sequence
        IN <<"add", Dot(Merged(b, t), Hidden(c), "wo", i % Hidden(c)),
                    <<"x", Row(b, t), i % Hidden(c)>>>>],
      output |-> [i \in DOMAIN Stream(c) |->
        LET b == i \div (c.sequence * Hidden(c))
            t == (i \div Hidden(c)) % c.sequence
        IN <<"add", <<"h", Row(b, t), i % Hidden(c)>>,
             IF c.ffn = "moe"
             THEN <<"moe", RmsNorm(Stream(c), "rms2", TokenRows(c), Hidden(c)), i>>
             ELSE Dot(Inner(b, t), c.intermediate, "wd", i % Hidden(c))>>]]
=============================================================================

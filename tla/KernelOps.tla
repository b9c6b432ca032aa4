----------------------------- MODULE KernelOps ------------------------------
(***************************************************************************)
(* What a kernel of a matrix product does, as a sequence of operations on  *)
(* blocks of the output, and what an operation makes of an element.  The   *)
(* kernels of the interpreter (src/runtime.cpp) and the generated ones     *)
(* (src/llvm_backend.cpp) are written with these operations.               *)
(*                                                                         *)
(* Arithmetic is symbolic: an element of the output is the sequence of     *)
(* terms that went into it, so that the order of the summation, the        *)
(* operands each product read, and the place of the epilogue all show.     *)
(***************************************************************************)
EXTENDS LoopIr

Product(a, b) == <<a, b>>                 \* a += of A's element a by B's b
EpilogueTerm == <<"bias and relu">>
Stale == <<Product(<<-1, -1>>, <<-1, -1>>)>>   \* left from an earlier call

(* apply_epilogue_range does nothing for a problem without bias and relu.  *)
EpilogueOf(p) == IF p.bias \/ p.relu THEN <<EpilogueTerm>> ELSE <<>>

(* The graph epilogues of a plan: GELU, then the residual.                 *)
GraphTerms(plan) ==
  (IF plan.gelu THEN <<"gelu">> ELSE <<>>) \o (IF plan.residual THEN <<"residual">> ELSE <<>>)

Products(p, i, j) == [k \in 1 .. p.k |-> Product(<<i, k - 1>>, <<k - 1, j>>)]

(* reference(): the products in the order of k, then the epilogue.         *)
Reference(p, i, j) == Products(p, i, j) \o EpilogueOf(p)

Elements(p) == (0 .. p.m - 1) \X (0 .. p.n - 1)

(* The values of x in  for (x = lo; x < hi; x += step).                    *)
Steps(lo, hi, step) == [i \in 1 .. CeilDiv(hi - lo, step) |-> lo + (i - 1) * step]

(* The operations of a loop: those of its body, iteration by iteration.    *)
ForEach(values, Body(_)) == FlattenSeq([i \in DOMAIN values |-> Body(values[i])])

-----------------------------------------------------------------------------
(* The operations, over rows i0 .. i1-1 and columns j0 .. j1-1.  "last" is *)
(* what is appended to the products of an element before it is stored.     *)
Zero(i0, i1, j0, j1) ==
  <<[kind |-> "zero", rows |-> i0 .. i1 - 1, cols |-> j0 .. j1 - 1]>>
Store(i0, i1, j0, j1, last) ==
  <<[kind |-> "store", rows |-> i0 .. i1 - 1, cols |-> j0 .. j1 - 1, last |-> last]>>
Epilogue(i0, i1, j0, j1, last) ==
  <<[kind |-> "epilogue", rows |-> i0 .. i1 - 1, cols |-> j0 .. j1 - 1, last |-> last]>>
(* Products for k0 <= k < k1 added to each element; Read(k, j) is the      *)
(* element of B that column j is multiplied with in step k.                *)
Update(i0, i1, j0, j1, k0, k1, Read(_, _)) ==
  <<[kind |-> "update", rows |-> i0 .. i1 - 1, cols |-> j0 .. j1 - 1, first |-> k0,
     reads |-> [j \in j0 .. j1 - 1 |-> [x \in 1 .. k1 - k0 |-> Read(k0 + x - 1, j)]]]>>
Direct(k, j) == <<k, j>>

(* The new content of element (i, j), which holds old, under an operation  *)
(* that covers it.                                                         *)
Applied(op, p, i, j, old) ==
  CASE op.kind = "zero" -> <<>>
    [] op.kind = "store" -> Products(p, i, j) \o op.last
    [] op.kind = "update" ->
         old \o [x \in DOMAIN op.reads[j] |->
                   Product(<<i, op.first + x - 1>>, op.reads[j][x])]
    [] op.kind = "epilogue" -> old \o op.last

=============================================================================

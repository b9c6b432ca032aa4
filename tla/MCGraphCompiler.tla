--------------------------- MODULE MCGraphCompiler ---------------------------
(* Three families of graphs: MLPs, with operands swapped, other residuals, *)
(* a normalised input and further users; all short programs of products,   *)
(* sums and activations; and the small attention graph of the repository.  *)
EXTENDS GraphCompiler

Node(kind, name, inputs, type) == [kind |-> kind, name |-> name, inputs |-> inputs, type |-> type]
Matrix(rows, height, cols) == [rank |-> 2, rows |-> rows, height |-> height, cols |-> cols]
Vector(cols) == [rank |-> 1, rows |-> "fixed", height |-> 1, cols |-> cols]
Op(kind, inputs) == Node(kind, "result", inputs, NoType)

Swap(swapped, a, b) == IF swapped THEN <<b, a>> ELSE <<a, b>>

(* x w1 b1 w2 b2, a norm of x, the MLP on x or on the norm, and between    *)
(* its operations an addition that also uses the first product, or another *)
(* activation, which the second product may read.                          *)
Mlp(rows, swapped, input, residual, extra, read) ==
  [nodes |-> <<Node("Input", "x", <<>>, Matrix(rows, 2, 3)),
               Node("Constant", "w1", <<>>, Matrix("fixed", 3, 3)),
               Node("Constant", "b1", <<>>, Vector(3)),
               Node("Constant", "w2", <<>>, Matrix("fixed", 3, 3)),
               Node("Constant", "b2", <<>>, Vector(3)),
               Node("RmsNorm", "norm", <<1>>, Matrix(rows, 2, 3)),
               Op("MatMul", <<input, 2>>)>>
            \o (IF extra THEN <<Op("Add", <<7, 5>>)>> ELSE <<Op("Gelu", <<1>>)>>)
            \o <<Op("Add", Swap(swapped, 7, 3)), Op("Gelu", <<9>>),
                 Op("MatMul", <<read, 4>>), Op("Add", Swap(swapped, 11, 5)),
                 Op("Add", Swap(swapped, 12, residual))>>,
   return |-> 13]

PlainMlps ==
  {Mlp(rows, swapped, 1, residual, extra, read) :
     rows \in {"fixed", "B*S"}, swapped \in BOOLEAN, residual \in {1, 3}, extra \in BOOLEAN,
     read \in {8, 10}}
OtherMlps == {Mlp("fixed", FALSE, 6, 1, FALSE, 10), Mlp("fixed", FALSE, 1, 7, FALSE, 10)}

(* Programs over x and two weights of different width. *)
Operations(v) ==
  {Op("MatMul", <<a, w>>) : a \in {v - 1, v - 2} \ {1, 2}, w \in {1, 2}}
  \cup {Op("Add", <<v - 1, b>>) : b \in {v - 1, v - 2, 3} \ {2}}
  \cup {Op("Gelu", <<v - 1>>)}

Programs ==
  {[nodes |-> <<Node("Constant", "w", <<>>, Matrix("fixed", 3, 3)),
                Node("Constant", "u", <<>>, Matrix("fixed", 3, 3)),
                Node("Input", "x", <<>>, Matrix("fixed", 1, 3))>> \o p,
    return |-> 3 + Len(p)] : p \in {<<a, b, c, d, e>> :
      a \in Operations(4), b \in Operations(5), c \in Operations(6), d \in Operations(7), e \in Operations(8)}}

(* build_mini_attention_graph *)
MiniAttention ==
  [nodes |-> <<Node("Input", "x", <<>>, Matrix("fixed", 2, 3)),
               Node("Constant", "wq", <<>>, Matrix("fixed", 3, 3)),
               Node("Constant", "wk", <<>>, Matrix("fixed", 3, 3)),
               Node("Constant", "wv", <<>>, Matrix("fixed", 3, 3)),
               Op("MatMul", <<1, 2>>), Op("MatMul", <<1, 3>>), Op("MatMul", <<1, 4>>),
               Node("Transpose", "result", <<6>>, Matrix("fixed", 3, 2)),
               Op("MatMul", <<5, 8>>), Op("Exp", <<9>>), Op("Reduce", <<10>>),
               Op("Rsqrt", <<11>>), Op("Multiply", <<10, 12>>), Op("MatMul", <<13, 7>>)>>,
   return |-> 14]

MCGraphs == PlainMlps \cup Programs \cup {MiniAttention}
MCLifetimeGraphs == PlainMlps \cup {MiniAttention}
MCMeaningGraphs == PlainMlps \cup OtherMlps

=============================================================================

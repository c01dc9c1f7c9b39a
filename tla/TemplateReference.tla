-------------------------- MODULE TemplateReference --------------------------
(***************************************************************************)
(* What the standalone templates other than attention are bound to and     *)
(* promise: the arrays of an instance, and its result as a closed formula. *)
(***************************************************************************)
EXTENDS RowTemplates, MatmulTemplates, DecodeTemplates

(***************************************************************************)
(* What the row-wise templates are bound to and what each promises: the    *)
(* arrays of an instance, and the closed formula of its result, written    *)
(* from the template's docstring without threads, passes or barriers.      *)
(***************************************************************************)
RowNames == {"reduce", "row_reduce", "col_reduce", "softmax", "online_softmax", "rms_norm", "layer_norm",
             "residual_norm", "instance_norm", "group_norm", "variance", "cross_entropy", "cumsum"}

RowBase ==
  [threads |-> 4, simd |-> 2, groups |-> 2, n |-> 5, half |-> FALSE, op |-> "sum", rows |-> 2,
   sums |-> "shared", vars |-> "shared", channels |-> 2, spatial |-> 3, ngroups |-> 2, poison |-> FALSE]
RowKernel(name, with) == with @@ [name |-> name] @@ RowBase

RowArrays(k) ==
  LET out == IF k.name \in {"reduce", "row_reduce", "variance", "cross_entropy"} THEN k.rows
             ELSE IF k.name = "col_reduce" THEN k.n
             ELSE IF k.name = "group_norm" THEN k.groups * GroupSize(k)
             ELSE k.rows * k.n
      shared == SimdCount(k)
      wide == {"cumsum"}
  IN [dev |->
        [input |-> Input(1, Top(out, k.rows * k.n)), output |-> Filled(out, NaN)]
        @@ [residual |-> Input(2, k.rows * k.n), residual_out |-> Filled(k.rows * k.n, NaN),
            weight |-> Input(3, 8), bias |-> Input(4, 8), gamma |-> Input(5, 8), beta |-> Input(6, 8),
            targets |-> [r \in 0..(k.rows - 1) |-> (r + 2) % k.n]],
      tg |-> [a \in {"shared_max", "shared_sum", "shared_sq", "tg_max", "tg_sum"} |-> Filled(shared, NaN)]
             @@ [shared |-> Filled(IF k.name \in wide THEN k.threads ELSE shared, NaN)],
      reg |-> Regs(k, ReduceRegs \cup {"mean", "max", "m", "s"})]

RowCode(k, g) ==
  CASE k.name = "reduce" -> FoldRow(k.op, "store")
    [] k.name = "row_reduce" -> RowReduceCode(k, g)
    [] k.name = "col_reduce" -> ColReduceCode(k, g)
    [] k.name = "softmax" -> SoftmaxCode
    [] k.name = "online_softmax" -> OnlineSoftmaxCode(k)
    [] k.name = "rms_norm" -> RmsNormCode
    [] k.name \in {"layer_norm", "residual_norm", "instance_norm", "group_norm"} -> MomentsCode(k.sums, k.vars)
    [] k.name = "variance" -> VarianceCode
    [] k.name = "cross_entropy" -> CrossEntropyCode
    [] k.name = "cumsum" -> CumsumCode(k)

RowEffect(k, g, i, t, v) ==
  CASE i.do \in ReduceSteps -> ReduceEffect(k, i, t, v)
    [] k.name = "reduce" -> ReduceKernel(k, g, i, t, v)
    [] k.name = "row_reduce" -> RowReduce(k, g, i, t, v)
    [] k.name = "col_reduce" -> ColReduce(k, g, i, t, v)
    [] k.name = "softmax" -> Softmax(k, g, i, t, v)
    [] k.name = "online_softmax" -> OnlineSoftmax(k, g, i, t, v)
    [] k.name = "rms_norm" -> RmsNorm(k, g, i, t, v)
    [] k.name = "layer_norm" -> LayerNorm(k, g, i, t, v)
    [] k.name = "residual_norm" -> ResidualNorm(k, g, i, t, v)
    [] k.name = "instance_norm" -> InstanceNorm(k, g, i, t, v)
    [] k.name = "group_norm" -> GroupNorm(k, g, i, t, v)
    [] k.name = "variance" -> Variance(k, g, i, t, v)
    [] k.name = "cross_entropy" -> CrossEntropy(k, g, i, t, v)
    [] k.name = "cumsum" -> Cumsum(k, g, i, t, v)

\* ---- the promises -----------------------------------------------------------
MeanOf(x) == Div(Total(x), Cardinality(DOMAIN x))
VarOf(x) == MeanOf([c \in DOMAIN x |-> Mul(Sub(x[c], MeanOf(x)), Sub(x[c], MeanOf(x)))])
Standard(x, c) == Mul(Sub(x[c], MeanOf(x)), Fn("rsqrt", Add(VarOf(x), Eps)))
SoftmaxOf(x, c) ==
  LET m == Largest(x) IN Div(Exp(Diff(x[c], m)), Total([d \in DOMAIN x |-> Exp(Diff(x[d], m))]))

RowWant(k) ==
  LET A == RowArrays(k).dev
      row(g) == RowOf(A.input, g, k.n)
      joined(g) == [c \in 0..(k.n - 1) |-> Add(row(g)[c], RowOf(A.residual, g, k.n)[c])]
      cell(j) == row(Row(j, k.n))
      per == k.channels \div k.ngroups
      grouped(j) == [c \in 0..(GroupSize(k) - 1) |-> A.input[((j \div GroupSize(k)) * GroupSize(k)) + c]]
      Each(F(_)) == [j \in DOMAIN A.output |-> F(j)]
  IN CASE k.name \in {"reduce", "row_reduce"} -> [output |-> Each(LAMBDA g : Cast(k, Combine(k.op, row(g))))]
       [] k.name = "col_reduce" ->
            [output |-> Each(LAMBDA c : Cast(k, Combine(k.op, [r \in 0..(k.rows - 1) |-> A.input[(r * k.n) + c]])))]
       [] k.name = "softmax" /\ k.half ->
            [output |-> Each(LAMBDA j :
               LET x == cell(j)
                   m == Largest(x)
               IN Cast(k, Div(Cast(k, Exp(Diff(x[Col(j, k.n)], m))), Total([d \in DOMAIN x |-> Exp(Diff(x[d], m))]))))]
       [] k.name = "online_softmax" \/ (k.name = "softmax" /\ ~k.half) ->
            [output |-> Each(LAMBDA j : Cast(k, SoftmaxOf(cell(j), Col(j, k.n))))]
       [] k.name = "rms_norm" ->
            [output |-> Each(LAMBDA j :
               LET x == cell(j)
                   ms == MeanOf([c \in DOMAIN x |-> Mul(x[c], x[c])])
               IN Cast(k, Mul(Mul(A.input[j], Fn("rsqrt", Add(ms, Eps))), A.weight[Col(j, k.n)])))]
       [] k.name = "layer_norm" ->
            [output |-> Each(LAMBDA j :
               Cast(k, Add(Mul(Standard(cell(j), Col(j, k.n)), A.gamma[Col(j, k.n)]), A.beta[Col(j, k.n)])))]
       [] k.name = "residual_norm" ->
            [output |-> Each(LAMBDA j :
               Cast(k, Add(Mul(Standard(joined(Row(j, k.n)), Col(j, k.n)), A.gamma[Col(j, k.n)]), A.beta[Col(j, k.n)]))),
             residual_out |-> Each(LAMBDA j : Cast(k, joined(Row(j, k.n))[Col(j, k.n)]))]
       [] k.name = "instance_norm" ->
            [output |-> Each(LAMBDA j :
               LET ch == Row(j, k.n) % k.channels
               IN Add(Mul(Standard(cell(j), Col(j, k.n)), A.weight[ch]), A.bias[ch]))]
       [] k.name = "group_norm" ->
            \* channel of element j of [batch, channels, spatial]
            [output |-> Each(LAMBDA j :
               LET ch == (j \div k.spatial) % k.channels
               IN Add(Mul(Standard(grouped(j), j % GroupSize(k)), A.weight[ch]), A.bias[ch]))]
       [] k.name = "variance" -> [output |-> Each(LAMBDA g : Cast(k, VarOf(row(g))))]
       [] k.name = "cross_entropy" ->
            [output |-> Each(LAMBDA g :
               LET x == row(g)
                   m == Largest(x)
               IN Sub(Add(m, Fn("log", Total([c \in DOMAIN x |-> Exp(Diff(x[c], m))]))), x[A.targets[g]]))]
       [] k.name = "cumsum" ->
            [output |-> Each(LAMBDA j : Cast(k, Total([c \in 0..Col(j, k.n) |-> cell(j)[c]])))]

RowInstances ==
  [x \in 1..3 |-> RowKernel("reduce", [op |-> <<"sum", "max", "min">>[x]])]
  \o <<RowKernel("reduce", [op |-> "sum", half |-> TRUE, n |-> 3]),
        RowKernel("reduce", [op |-> "sum", threads |-> 3]),
        RowKernel("row_reduce", [op |-> "sum", groups |-> 3]),
        RowKernel("col_reduce", [op |-> "max", n |-> 2, rows |-> 5, groups |-> 3]),
        RowKernel("softmax", [n |-> 5]), RowKernel("softmax", [n |-> 3, half |-> TRUE]),
        RowKernel("online_softmax", [n |-> 5]), RowKernel("online_softmax", [n |-> 7]), RowKernel("online_softmax", [n |-> 3]),
        RowKernel("rms_norm", [n |-> 5]), RowKernel("layer_norm", [sums |-> "shared_sum", vars |-> "shared_sq"]),
        RowKernel("layer_norm", [sums |-> "shared_sum", vars |-> "shared_sq", half |-> TRUE, n |-> 3]),
        RowKernel("residual_norm", [sums |-> "shared_sum", vars |-> "shared_sq"]),
        RowKernel("instance_norm", [n |-> 5]), RowKernel("group_norm", [channels |-> 4]),
        RowKernel("cross_entropy", [n |-> 5]), RowKernel("cumsum", [n |-> 3]), RowKernel("cumsum", [n |-> 4]),
        RowKernel("variance", [threads |-> 2]), RowKernel("variance", [simd |-> 4, half |-> TRUE, groups |-> 1, rows |-> 1]),
        RowKernel("variance", [groups |-> 1, rows |-> 1])>>

------------------------------------------------------------------------------
(***************************************************************************)
(* The arrays and the promised results of the per-element templates.       *)
(***************************************************************************)
ElementNames ==
  {"elementwise", "swiglu", "scalar_mul", "residual_add", "activation", "fused_mlp", "dropout", "where", "clamp",
   "compare", "reduce_scatter", "all_reduce", "batch_norm", "embedding", "gather", "index_select", "scatter",
   "atomic_add", "concat", "split", "repeat_kv", "rope", "transpose", "conv2d", "max_pool", "avg_pool"}

ElementBase ==
  [threads |-> 2, simd |-> 2, groups |-> 2, n |-> 3, half |-> FALSE, op |-> "add", inputs |-> 2, scalar |-> 100,
   bias |-> TRUE, low |-> 60, high |-> 150, buffers |-> 2, channels |-> 2, spatial |-> 2, dim |-> 4, chunk |-> 2,
   sizes |-> <<1, 2>>, heads |-> 2, rep |-> 2, seq |-> 1, pos |-> 3, rows |-> 3, cols |-> 2, tile |-> 2,
   kh |-> 2, kw |-> 2, stride |-> 1, pad |-> 0, h |-> 3, w |-> 3, oh |-> 2, ow |-> 2, inc |-> 2, outc |-> 2, batch |-> 1, poison |-> FALSE]
ElementKernel(name, with) == with @@ [name |-> name] @@ ElementBase

OutSize(k) ==
  CASE k.name = "embedding" -> k.groups * k.dim
    [] k.name = "rope" -> k.groups * k.dim
    [] k.name = "batch_norm" -> k.batch * k.channels * k.spatial
    [] k.name = "repeat_kv" -> k.heads * k.rep * k.seq * k.dim
    [] k.name = "transpose" -> k.rows * k.cols
    [] k.name = "conv2d" -> k.batch * k.outc * k.oh * k.ow
    [] k.name \in {"max_pool", "avg_pool"} -> PoolCount(k)
    [] k.name = "concat" -> SumFunction(k.sizes)
    [] k.name = "split" -> k.chunk
    [] OTHER -> k.n
ElementArrays(k) ==
  [dev |->
     [input |-> Input(1, Top(36, OutSize(k))), input1 |-> Input(2, k.n), input2 |-> [i \in 0..(k.n - 1) |-> i % 2],
      output |-> Filled(OutSize(k), IF k.name = "atomic_add" THEN 7 ELSE NaN),
      output1 |-> Filled(IF k.name = "split" THEN k.chunk ELSE k.n, NaN),
      indices |-> [i \in 0..(Top(k.n, k.groups) - 1) |-> IF k.name = "scatter" THEN k.n - 1 - i ELSE (2 * i) % 3],
      gamma |-> Input(3, 4), beta |-> Input(4, 4), mean_in |-> Input(5, 4), var_in |-> Input(6, 4),
      freqs |-> Input(7, 4), weight |-> Input(8, 32), bias |-> Input(9, 4)],
   tg |-> [tile |-> Filled(k.tile * (k.tile + 1), NaN)], reg |-> [none |-> Filled(1, NaN)]]
ElementCode(k) ==
  CASE k.name = "transpose" -> TransposeCode
    [] k.name = "atomic_add" -> <<Atomic("all")>>
    [] OTHER -> <<Run("all")>>
ElementEffect(k, g, i, t, v) ==
  CASE k.name = "elementwise" -> Elementwise(k, g, t, v)
    [] k.name = "swiglu" -> Swiglu(k, g, t, v)
    [] k.name = "scalar_mul" -> ScalarMul(k, g, t, v)
    [] k.name = "residual_add" -> ResidualAdd(k, g, t, v)
    [] k.name = "activation" -> Activation(k, g, t, v)
    [] k.name = "fused_mlp" -> FusedMlp(k, g, t, v)
    [] k.name = "dropout" -> Dropout(k, g, t, v)
    [] k.name = "where" -> WhereKernel(k, g, t, v)
    [] k.name = "clamp" -> Clamp(k, g, t, v)
    [] k.name = "compare" -> Compare(k, g, t, v)
    [] k.name = "reduce_scatter" -> ReduceScatter(k, g, t, v)
    [] k.name = "all_reduce" -> AllReduce(k, g, t, v)
    [] k.name = "batch_norm" -> BatchNorm(k, g, t, v)
    [] k.name = "embedding" -> Embedding(k, g, t, v)
    [] k.name = "gather" -> GatherKernel(k, g, t, v)
    [] k.name = "index_select" -> IndexSelect(k, g, t, v)
    [] k.name = "scatter" -> Scatter(k, g, t, v)
    [] k.name = "atomic_add" -> AtomicAdd(k, g, t, v)
    [] k.name = "concat" -> Concat(k, g, t, v)
    [] k.name = "split" -> Split(k, g, t, v)
    [] k.name = "repeat_kv" -> RepeatKv(k, g, t, v)
    [] k.name = "rope" -> Rope(k, g, t, v)
    [] k.name = "transpose" -> Transpose(k, g, i, t, v)
    [] k.name = "conv2d" -> Conv2d(k, g, t, v)
    [] k.name = "max_pool" -> MaxPool(k, g, t, v)
    [] k.name = "avg_pool" -> AvgPool(k, g, t, v)

\* ---- the promises -----------------------------------------------------------
Sigmoid(x) == Div(1, Add(1, Exp(Diff(0, x))))
Silu(x) == Mul(x, Sigmoid(x))
\* the image with zeros (or nothing) around it
Padded(k, plane, y, x, in) ==
  IF y < 0 \/ y >= k.h \/ x < 0 \/ x >= k.w THEN 0 ELSE in[(plane * k.h * k.w) + (y * k.w) + x]
\* what is promised of cell j of output array a, the arrays being A
Promised(k, A, a, j) ==
  LET in(i) == A.input[i]
      b1(i) == A.input1[i]
      o == (j % (k.oh * k.ow)) \div k.ow
      p == j % k.ow
      plane == j \div (k.oh * k.ow)
      seen == {w \in (0..(k.kh - 1)) \X (0..(k.kw - 1)) :
                 /\ (o * k.stride) + w[1] - k.pad \in 0..(k.h - 1)
                 /\ (p * k.stride) + w[2] - k.pad \in 0..(k.w - 1)}
      pixel(pl, w) == Padded(k, pl, (o * k.stride) + w[1] - k.pad, (p * k.stride) + w[2] - k.pad, A.input)
  IN CASE k.name = "elementwise" -> Cast(k,
            CASE k.op = "add" -> Add(in(j), b1(j)) [] k.op = "div" -> Div(in(j), b1(j)) [] k.op = "sub" -> Sub(in(j), b1(j))
              [] k.op = "mul" -> Mul(in(j), b1(j)) [] k.op = "fma" -> Add(Mul(in(j), b1(j)), A.input2[j])
              [] k.op = "silu" -> Silu(in(j)) [] k.op = "sigmoid" -> Sigmoid(in(j)) [] k.op = "exp" -> Exp(in(j))
              [] k.op = "neg" -> Sub(0, in(j)) [] k.op \in {"gelu", "gelu_tanh"} -> Fn("gelu", in(j))
              [] OTHER -> Fn(k.op, in(j)))
       [] k.name = "swiglu" -> Cast(k, Mul(in(j), Silu(b1(j))))
       [] k.name = "scalar_mul" -> Cast(k, Mul(k.scalar, in(j)))
       [] k.name = "residual_add" -> Cast(k, Total(<<in(j), b1(j), IF k.bias THEN A.input2[j] ELSE 0>>))
       [] k.name = "activation" -> Cast(k,
            CASE k.op = "sigmoid" -> Sigmoid(in(j)) [] k.op = "silu" -> Silu(in(j))
              [] k.op \in {"elu", "leaky_relu"} -> IF in(j) < k.scalar THEN Fn(k.op, in(j)) ELSE in(j)
              [] OTHER -> Fn(k.op, in(j)))
       [] k.name = "fused_mlp" -> Mul(Silu(in(j)), b1(j))
       [] k.name = "dropout" /\ a = "output" -> Mul(in(j), IF Keeps(k, j) THEN k.scalar ELSE 0)
       [] k.name = "dropout" /\ a = "output1" -> IF Keeps(k, j) THEN 1 ELSE 0
       [] k.name = "where" -> IF A.input2[j] = 1 THEN in(j) ELSE b1(j)
       [] k.name = "clamp" -> Cast(k, IF in(j) < k.low THEN k.low ELSE IF in(j) > k.high THEN k.high ELSE in(j))
       [] k.name = "compare" ->
            IF CASE k.op = "eq" -> in(j) = b1(j) [] k.op = "lt" -> in(j) < b1(j) [] k.op = "gt" -> b1(j) < in(j)
                 [] k.op = "ne" -> in(j) # b1(j) [] k.op = "ge" -> ~(in(j) < b1(j)) [] k.op = "le" -> ~(b1(j) < in(j))
            THEN 1 ELSE 0
       [] k.name = "reduce_scatter" -> Add(in(j), b1(j))
       [] k.name = "all_reduce" -> Fold2(k.op, in(j), b1(j))
       [] k.name = "batch_norm" ->
            LET c == (j \div k.spatial) % k.channels
            IN Cast(k, Add(Mul(Mul(A.gamma[c], Sub(in(j), A.mean_in[c])), Fn("rsqrt", Add(A.var_in[c], 3))), A.beta[c]))
       [] k.name = "embedding" -> in((A.indices[Row(j, k.dim)] * k.dim) + Col(j, k.dim))
       [] k.name \in {"gather", "index_select"} -> in(A.indices[j])
       [] k.name = "scatter" -> in(CHOOSE x \in DOMAIN A.output : A.indices[x] = j)
       [] k.name = "atomic_add" -> Add(7, Total([x \in {y \in DOMAIN A.output : A.indices[y] = j} |-> in(x)]))
       [] k.name = "concat" -> IF j < k.sizes[1] THEN in(j) ELSE b1(j - k.sizes[1])
       [] k.name = "split" -> IF a = "output" THEN in(j) ELSE in(j + k.chunk)
       [] k.name = "repeat_kv" ->
            LET block == k.seq * k.dim IN in(((j \div (k.rep * block)) * block) + (j % block))
       [] k.name = "rope" ->
            LET first == j - (j % 2)
                angle == Mul(Row(j, k.dim) + k.pos, A.freqs[Col(j, k.dim) \div 2])
            IN Cast(k, IF j % 2 = 0 THEN Sub(Mul(in(first), Fn("cos", angle)), Mul(in(first + 1), Fn("sin", angle)))
                       ELSE Add(Mul(in(first), Fn("sin", angle)), Mul(in(first + 1), Fn("cos", angle))))
       [] k.name = "transpose" -> in((Col(j, k.rows) * k.cols) + Row(j, k.rows))
       [] k.name = "conv2d" ->
            LET oc == plane % k.outc
                b == plane \div k.outc
            IN Add(A.bias[oc], Total([q \in (0..(k.inc - 1)) \X ((0..(k.kh - 1)) \X (0..(k.kw - 1))) |->
                 Mul(pixel((b * k.inc) + q[1], q[2]),
                     A.weight[(((((oc * k.inc) + q[1]) * k.kh) + q[2][1]) * k.kw) + q[2][2]])]))
       [] k.name = "max_pool" -> Largest([w \in seen |-> pixel(plane, w)])
       [] k.name = "avg_pool" -> IF seen = {} THEN 0 ELSE Div(Total([w \in seen |-> pixel(plane, w)]), Cardinality(seen))
ElementOutputs(k) == IF k.name \in {"dropout", "split"} THEN {"output", "output1"} ELSE {"output"}
ElementWantOf(k, A) == [a \in ElementOutputs(k) |-> [j \in DOMAIN A.output |-> Promised(k, A, a, j)]]
ElementWant(k) == ElementWantOf(k, ElementArrays(k).dev)

\* ---- instances of any size and any data -----------------------------------
\* The templates whose promise for a cell is a formula over given cells; the others
\* promise a sum over a set of cells in another order than they add it up.
PerCellNames == ElementNames \ {"residual_add", "reduce_scatter", "all_reduce", "atomic_add", "concat", "conv2d", "transpose"}
\* array a holds finite numbers, at least size of them
Numbers(A, a, size) ==
  a \in DOMAIN A /\ 0..(size - 1) \subseteq DOMAIN A[a] /\ \A i \in DOMAIN A[a] : A[a][i] \in Int \ {NaN, NegInf}
\* index array a points into array b
Indexes(A, a, size, b) == Numbers(A, a, size) /\ \A i \in 0..(size - 1) : A[a][i] \in DOMAIN A[b]
\* the cells that the grid covers
Covers(k) == IF k.name = "split" THEN 2 * k.chunk ELSE OutSize(k)
\* what reads other cells of the input than the one it writes
Rearranging == {"embedding", "gather", "index_select", "repeat_kv", "max_pool", "avg_pool"}
\* what the template is given beside the size of its input
Extras(k, A) ==
  /\ k.name = "elementwise" => ElementAdmits(k) /\ \A i \in 1..k.inputs : Numbers(A, InputNames[i], k.n)
  /\ k.name \in {"swiglu", "fused_mlp", "where", "compare"} => Numbers(A, "input1", k.n)
  /\ k.name \in {"scalar_mul", "activation", "dropout"} => k.scalar \in Int \ {NaN, NegInf}
  /\ k.name = "where" => Numbers(A, "input2", k.n) /\ \A i \in 0..(k.n - 1) : A.input2[i] \in {0, 1}
  /\ k.name = "clamp" => k.low \in Int \ {NaN} /\ k.high \in Int \ {NaN} /\ k.low <= k.high
  /\ k.name = "compare" => k.op \in {"eq", "ne", "lt", "le", "gt", "ge"}
  /\ k.name = "batch_norm" =>
       /\ k.batch = 1 /\ k.channels \in Nat \ {0} /\ k.spatial \in Nat \ {0}
       /\ \A a \in {"gamma", "beta", "mean_in", "var_in"} : Numbers(A, a, k.channels)
  /\ k.name \in {"gather", "index_select"} => Indexes(A, "indices", k.n, "input")
  /\ k.name = "scatter" =>
       /\ Indexes(A, "indices", k.n, "output")
       /\ \A j \in 0..(k.n - 1) : \E i \in 0..(k.n - 1) : A.indices[i] = j /\ \A x \in 0..(k.n - 1) : A.indices[x] = j => x = i
  /\ k.name = "split" => k.buffers = 2 /\ k.chunk \in Nat
  /\ k.name \in {"embedding", "rope"} => k.dim \in Nat \ {0}
  /\ k.name = "embedding" =>
       Numbers(A, "indices", k.groups) /\ \A g \in Groups(k), c \in 0..(k.dim - 1) : (A.indices[g] * k.dim) + c \in DOMAIN A.input
  /\ k.name = "rope" => k.dim % 2 = 0 /\ k.pos \in Nat /\ Numbers(A, "freqs", k.dim \div 2)
  /\ k.name = "repeat_kv" =>
       /\ k.heads \in Nat /\ k.rep \in Nat \ {0} /\ k.seq \in Nat \ {0} /\ k.dim \in Nat \ {0}
       /\ Numbers(A, "input", k.heads * k.seq * k.dim)
  /\ k.name \in {"max_pool", "avg_pool"} =>
       /\ k.batch \in Nat /\ k.inc \in Nat /\ \A x \in {k.oh, k.ow, k.h, k.w, k.kh, k.kw, k.stride} : x \in Nat \ {0}
       /\ k.pad \in Nat /\ Numbers(A, "input", k.batch * k.inc * k.h * k.w)
\* an instance of one of them, with arrays as large as it reads and a grid that covers
\* its output
PerCell(k) ==
  LET A == Arrays(k).dev IN
  /\ k.name \in PerCellNames /\ k.n \in Nat
  /\ \A g \in Groups(k), t \in Threads(k) : Code(k, g, t) = ElementCode(k)
  /\ DOMAIN A \cap DOMAIN Locals(k) = {}
  /\ Numbers(A, "input", IF k.name \in Rearranging THEN 0 ELSE Covers(k)) /\ Extras(k, A)
  /\ \A a \in ElementOutputs(k) : a \in DOMAIN A /\ DOMAIN A[a] = 0..(OutSize(k) - 1)
  /\ k.name \notin {"embedding", "rope"} => Covers(k) <= k.groups * k.threads
  /\ Wants(k) = ElementWantOf(k, A)
  /\ \A a \in ElementOutputs(k) : \A j \in DOMAIN A[a] : Promised(k, A, a, j) = NaN => k.poison
\* an instance of the transpose, with one thread for each cell of a tile and one group
\* for each tile of the matrix
Tiled(k) ==
  LET A == Arrays(k).dev IN
  /\ k.name = "transpose" /\ \A x \in {k.rows, k.cols, k.tile} : x \in Nat \ {0}
  /\ k.threads = k.tile * k.tile /\ k.groups = CeilDiv(k.rows, k.tile) * CeilDiv(k.cols, k.tile)
  /\ \A g \in Groups(k), t \in Threads(k) : Code(k, g, t) = TransposeCode
  /\ DOMAIN A \cap DOMAIN Locals(k) = {}
  /\ Numbers(A, "input", k.rows * k.cols)
  /\ "output" \in DOMAIN A /\ DOMAIN A.output = 0..((k.rows * k.cols) - 1)
  /\ "tile" \in DOMAIN Locals(k) /\ DOMAIN Locals(k).tile = 0..((k.tile * (k.tile + 1)) - 1)
  /\ Wants(k) = ElementWantOf(k, A)

OverOps(name, ops) == [x \in DOMAIN ops |-> ElementKernel(name, [op |-> ops[x]])]
ElementInstances ==
  [x \in 1..14 |->
     LET y == <<<<1, "silu">>, <<1, "sqrt">>, <<1, "exp">>, <<2, "add">>, <<2, "sub">>, <<2, "div">>, <<3, "fma">>>>[((x - 1) % 7) + 1]
     IN ElementKernel("elementwise", [inputs |-> y[1], op |-> y[2], half |-> x > 7])]
  \o [x \in 1..3 |-> ElementKernel(<<"swiglu", "scalar_mul", "clamp">>[x], [half |-> TRUE])]
  \o [x \in 1..9 |-> ElementKernel(<<"residual_add", "fused_mlp", "dropout", "where", "reduce_scatter", "embedding", "gather",
                                     "index_select", "scatter">>[x], [half |-> FALSE])]
  \o OverOps("activation", <<"elu", "leaky_relu", "sigmoid">>) \o OverOps("compare", <<"lt", "ge">>)
  \o OverOps("all_reduce", <<"sum", "max", "min">>)
  \o <<ElementKernel("residual_add", [bias |-> FALSE]),
        ElementKernel("batch_norm", [groups |-> 3]), ElementKernel("batch_norm", [groups |-> 4, batch |-> 2]),
        ElementKernel("atomic_add", [n |-> 4]),
        ElementKernel("concat", [groups |-> 3]), ElementKernel("split", [groups |-> 3]),
        ElementKernel("repeat_kv", [groups |-> 5, threads |-> 4]), ElementKernel("rope", [groups |-> 2]),
        ElementKernel("transpose", [threads |-> 4, groups |-> 2]), ElementKernel("conv2d", [groups |-> 3, threads |-> 3]),
        ElementKernel("conv2d", [groups |-> 4, threads |-> 4, pad |-> 1, oh |-> 4, ow |-> 4, inc |-> 1, outc |-> 1, batch |-> 1]),
        ElementKernel("max_pool", [groups |-> 3, threads |-> 3]),
        ElementKernel("max_pool", [groups |-> 5, threads |-> 4, stride |-> 2, pad |-> 1, oh |-> 2, ow |-> 2, batch |-> 2]),
        ElementKernel("avg_pool", [groups |-> 5, threads |-> 4, stride |-> 2, pad |-> 1, oh |-> 2, ow |-> 2, batch |-> 2])>>

------------------------------------------------------------------------------
(***************************************************************************)
(* The arrays of the matrix-product templates, and C = A @ B as the        *)
(* textbook sum.                                                           *)
(***************************************************************************)
MatmulNames == {"matmul", "matmul_2d", "matmul_swizzled", "simdgroup_matmul", "simdgroup_matmul_fast",
                "splitk_partial", "splitk_reduce", "fused_linear"}

MatmulBase ==
  [threads |-> 4, simd |-> 2, groups |-> 2, half |-> FALSE, fp8 |-> FALSE, M |-> 3, N |-> 2, K |-> 3,
   bm |-> 2, bn |-> 2, bk |-> 2, tgbytes |-> 64, swizzle |-> 2, frag |-> 1, blocks |-> 2, rr |-> 2, rc |-> 1,
   splits |-> 2, bias |-> FALSE, poison |-> FALSE]
MatmulKernel(name, with) == with @@ [name |-> name] @@ MatmulBase

MatmulArrays(k) ==
  [dev |->
     [A |-> Input(1, k.M * k.K), B |-> Input(2, k.K * k.N), C |-> Filled(k.M * k.N, NaN),
      P |-> IF k.name = "splitk_reduce" THEN Input(3, k.splits * k.M * k.N) ELSE Filled(k.splits * k.M * k.N, NaN),
      weight |-> Input(2, k.N * k.K), biases |-> Input(4, k.N)],
   tg |-> [tileA |-> Filled(Top(k.bm, Side(k)) * k.bk, NaN), tileB |-> Filled(k.bk * Top(k.bn, Side(k)), NaN),
           scratch |-> Filled(SimdCount(k) * k.frag * k.frag, NaN)],
   reg |-> [acc |-> Filled(Top(Top(k.threads, k.bm * k.bn), SimdCount(k) * Top(k.blocks, k.rr * k.rc) * k.frag * k.frag), NaN)]]

MatmulCode(k, g, t) ==
  CASE k.name \in {"matmul", "matmul_2d", "matmul_swizzled"} -> TiledCode(k)
    [] k.name = "simdgroup_matmul" -> SimdCode(k)
    [] k.name = "simdgroup_matmul_fast" -> FastCode(k, g, t)
    [] k.name = "splitk_partial" -> SplitPartialCode(k)
    [] k.name = "splitk_reduce" -> <<Run("all")>>
    [] k.name = "fused_linear" -> FusedLinearCode(k)

MatmulEffect(k, g, i, t, v) ==
  CASE k.name = "matmul" -> Matmul(k, g, i, t, v)
    [] k.name = "matmul_2d" -> Matmul2d(k, g, i, t, v)
    [] k.name = "matmul_swizzled" -> MatmulSwizzled(k, g, i, t, v)
    [] k.name = "simdgroup_matmul" -> SimdMatmul(k, g, i, t, v)
    [] k.name = "simdgroup_matmul_fast" -> FastMatmul(k, g, i, t, v)
    [] k.name = "splitk_partial" -> SplitPartial(k, g, i, t, v)
    [] k.name = "splitk_reduce" -> SplitReduce(k, g, t, v)
    [] k.name = "fused_linear" -> FusedLinear(k, g, i, t, v)

MatmulAdmitted(k) ==
  CASE k.name = "matmul" -> MatmulAdmits(k)
    [] k.name = "simdgroup_matmul_fast" -> FastAdmits(k)
    [] k.name = "splitk_partial" -> SplitAdmits(k)
    [] OTHER -> TRUE

\* A @ B over the inner positions of S
ProductOf(k, A, B, r, c, S) == Total([q \in S |-> Mul(A[(r * k.K) + q], B[(q * k.N) + c])])
Decoded(k, f) == IF k.fp8 THEN [j \in DOMAIN f |-> Fn("fp8", f[j])] ELSE f
MatmulWant(k) ==
  LET D == MatmulArrays(k).dev
      MN == k.M * k.N
      depth == k.K \div k.splits
  IN CASE k.name = "splitk_partial" ->
            [P |-> [x \in DOMAIN D.P |->
               ProductOf(k, D.A, D.B, (x % MN) \div k.N, x % k.N, {q \in 0..(k.K - 1) : q \div depth = x \div MN})]]
       [] k.name = "splitk_reduce" -> [C |-> [x \in DOMAIN D.C |-> Total([s \in 0..(k.splits - 1) |-> D.P[(s * MN) + x]])]]
       [] k.name = "fused_linear" ->
            [C |-> [x \in DOMAIN D.C |->
               Add(Total([q \in 0..(k.K - 1) |-> Mul(D.A[((x \div k.N) * k.K) + q], D.weight[((x % k.N) * k.K) + q])]),
                   IF k.bias THEN D.biases[x % k.N] ELSE 0)]]
       [] OTHER ->
            [C |-> [x \in DOMAIN D.C |->
               Cast(k, ProductOf(k, Decoded(k, D.A), Decoded(k, D.B), x \div k.N, x % k.N, 0..(k.K - 1)))]]

MatmulInstances ==
  <<MatmulKernel("matmul", [M |-> 3]), MatmulKernel("matmul", [bm |-> 4, bk |-> 3, N |-> 3, tgbytes |-> 80]),
    MatmulKernel("matmul", [half |-> TRUE, fp8 |-> TRUE, groups |-> 1, M |-> 1]), MatmulKernel("matmul", [bm |-> 4, bk |-> 4]),
    MatmulKernel("matmul_2d", [N |-> 3, groups |-> 4]),
    MatmulKernel("matmul_swizzled", [N |-> 3, M |-> 5, groups |-> 6, bk |-> 2, K |-> 2]),
    MatmulKernel("simdgroup_matmul", [M |-> 2, N |-> 4, K |-> 3]), MatmulKernel("simdgroup_matmul", [M |-> 2, N |-> 2, bk |-> 1, groups |-> 1]),
    MatmulKernel("simdgroup_matmul_fast", [M |-> 2, N |-> 3]), MatmulKernel("simdgroup_matmul_fast", [M |-> 2, N |-> 3, half |-> TRUE]),
    MatmulKernel("simdgroup_matmul_fast", [M |-> 4, N |-> 8, K |-> 2, frag |-> 2, rc |-> 2, rr |-> 1, half |-> TRUE]),
    MatmulKernel("simdgroup_matmul_fast", [M |-> 3]),
    MatmulKernel("splitk_partial", [threads |-> 2, M |-> 4, N |-> 4, K |-> 8, rr |-> 1, rc |-> 1, frag |-> 2, bk |-> 2, groups |-> 8]),
    MatmulKernel("splitk_reduce", [groups |-> 2]),
    MatmulKernel("fused_linear", [M |-> 2, N |-> 4, K |-> 2, bk |-> 1]),
    MatmulKernel("fused_linear", [bias |-> TRUE, M |-> 2, N |-> 4, K |-> 2, bk |-> 1, groups |-> 1]),
    MatmulKernel("fused_linear", [bias |-> TRUE, blocks |-> 1, threads |-> 2, M |-> 2, N |-> 2, K |-> 2, bk |-> 1, groups |-> 4])>>

------------------------------------------------------------------------------
(***************************************************************************)
(* The arrays of the quantised products, and input @ dequant(weight) with  *)
(* the layout each kernel's own documentation names.                       *)
(***************************************************************************)
QuantNames == {"int8", "int4", "int8_pergroup", "int4_pergroup", "int8_fast", "int8_pergroup_fast", "int4_pergroup_fast",
               "int8_gemv", "int4_gemv"}
QuantBase ==
  [threads |-> 2, simd |-> 2, groups |-> 2, half |-> FALSE, M |-> 2, N |-> 2, K |-> 4, group |-> 2, layout |-> "nk",
   isr |-> 4, isc |-> 1, wsk |-> 2, wsn |-> 1, osr |-> 2, osc |-> 1, ssg |-> 2, ssn |-> 1, zsg |-> 2, zsn |-> 1,
   frag |-> 1, rr |-> 2, rc |-> 1, bk |-> 2, vec |-> 2, poison |-> FALSE]
QuantKernel(name, with) == with @@ [name |-> name] @@ QuantBase

QuantArrays(k) ==
  [dev |-> [input |-> Input(1, k.M * k.K), weight |-> Input(2, k.K * k.N), output |-> Filled(k.M * k.N, NaN),
            scales |-> Input(3, k.N * CeilDiv(k.K, k.group)), zeros |-> Input(4, k.N * CeilDiv(k.K, k.group))],
   tg |-> [bdeq |-> Filled(k.bk * FastCols(k), NaN), scratch |-> Filled(k.frag * k.frag, NaN)],
   reg |-> [acc |-> Filled(k.rr * k.rc * k.frag * k.frag, NaN), part |-> Filled(k.threads, NaN)]]
FastQuantNames == {"int8_fast", "int8_pergroup_fast", "int4_pergroup_fast"}
QuantCode(k, g, t) ==
  CASE k.name \in FastQuantNames -> FastQuantCode(k)
    [] k.name \in {"int8_gemv", "int4_gemv"} -> GemvCode(k, g, t)
    [] OTHER -> <<Run("all")>>
QuantEffect(k, g, i, t, v) ==
  CASE k.name = "int8" -> Int8Matmul(k, g, t, v)
    [] k.name = "int4" -> Int4Matmul(k, g, t, v)
    [] k.name = "int8_pergroup" -> Int8PerGroup(k, g, t, v)
    [] k.name = "int4_pergroup" -> Int4PerGroup(k, g, t, v)
    [] k.name = "int8_fast" -> Int8Fast(k, g, i, t, v)
    [] k.name = "int8_pergroup_fast" -> Int8PerGroupFast(k, g, i, t, v)
    [] k.name = "int4_pergroup_fast" -> Int4PerGroupFast(k, g, i, t, v)
    [] k.name = "int8_gemv" -> Int8Gemv(k, g, i, t, v)
    [] k.name = "int4_gemv" -> Int4Gemv(k, g, i, t, v)
\* two weights in a byte
Packed == {"int4", "int4_pergroup", "int4_pergroup_fast", "int4_gemv"}
QuantAdmitted(k) ==
  CASE k.name \in FastQuantNames -> FastQuantAdmits(k)
    [] k.name = "int8_gemv" -> k.K % k.vec = 0
    [] OTHER -> k.name \in Packed => k.K % 2 = 0

\* ---- the promise ----------------------------------------------------------------
PerColumn == {"int8", "int8_fast", "int8_gemv"}
ByColumn == {"int8", "int4", "int8_gemv", "int4_gemv"}
WeightOf(k, A, q, c) ==
  LET columns == k.name \in ByColumn \/ (k.name = "int8_fast" /\ k.layout = "nk")
      stored(x, rows) == A.weight[IF columns THEN (c * rows) + x ELSE (x * k.N) + c]
  IN IF k.name \in Packed THEN (stored(q \div 2, k.K \div 2) \div (16 ^ (q % 2))) % 16 ELSE stored(q, k.K)
GroupCell(k, q, c) ==
  LET n == q \div k.group IN
  CASE k.name \in PerColumn -> c
    [] k.name \in {"int4", "int4_gemv"} -> (c * CeilDiv(k.K, k.group)) + n
    [] OTHER -> (n * k.ssg) + (c * k.ssn)
QuantWant(k) ==
  LET A == QuantArrays(k).dev
      w(q, c) == Mul(Sub(WeightOf(k, A, q, c), A.zeros[GroupCell(k, q, c)]), A.scales[GroupCell(k, q, c)])
      out(r, c) == Total([q \in 0..(k.K - 1) |-> Mul(A.input[(r * k.K) + q], w(q, c))])
      transposed == k.osr = 1
  IN [output |-> [x \in DOMAIN A.output |-> IF transposed THEN out(x % k.M, x \div k.M) ELSE out(x \div k.N, x % k.N)]]

QuantInstances ==
  <<QuantKernel("int8", [M |-> 1, N |-> 3]), QuantKernel("int4", [M |-> 1, N |-> 3]),
    QuantKernel("int8_pergroup", [osr |-> 1, osc |-> 2]), QuantKernel("int4_pergroup", [ssg |-> 1, ssn |-> 2, zsg |-> 1, zsn |-> 2]),
    QuantKernel("int8_fast", [layout |-> "kn"]), QuantKernel("int8_fast", [layout |-> "nk", frag |-> 2, rr |-> 1, groups |-> 1]),
    QuantKernel("int8_fast", [M |-> 4, bk |-> 1, groups |-> 4]), QuantKernel("int8_fast", [K |-> 3]),
    QuantKernel("int8_pergroup_fast", [ssg |-> 1, ssn |-> 2]), QuantKernel("int8_pergroup_fast", [bk |-> 4]),
    QuantKernel("int4_pergroup_fast", [group |-> 4, N |-> 4, rc |-> 2]),
    QuantKernel("int8_gemv", [M |-> 1, groups |-> 2, threads |-> 4, N |-> 3, K |-> 6]),
    QuantKernel("int4_gemv", [M |-> 1, groups |-> 2, threads |-> 4, N |-> 3, K |-> 6])>>

------------------------------------------------------------------------------
(***************************************************************************)
(* The arrays of the decode and sampling templates, and what they promise: *)
(* attention over the keys a query may see; the best candidates in         *)
(* descending order; the accepted prefix and the distribution to resample. *)
(***************************************************************************)
DecodeNames == {"kv_cache", "gqa", "batched_decode", "paged", "multi_head_paged", "fp16_kv", "sliding_window", "rope_attention"}
SamplingNames == {"top_k", "top_p", "beam_search", "speculative", "bitonic_sort"}
SamplingBase ==
  [threads |-> 4, simd |-> 2, groups |-> 1, half |-> FALSE, n |-> 3, D |-> 2, scale |-> 5, guarded |-> FALSE, perkv |-> 2,
   heads |-> 2, batch |-> 1, max |-> 4, page |-> 2, window |-> 2, pos |-> 2,
   k |-> 2, K |-> 2, cool |-> 1, threshold |-> 200, ascending |-> TRUE, poison |-> FALSE]
SamplingKernel(name, with) == with @@ [name |-> name] @@ SamplingBase

Cells(n) == Filled(n, NaN)
\* one query: the kernels that know no heads
QueryCount(k) == IF k.name \in {"paged", "fp16_kv", "sliding_window", "rope_attention"} THEN 1 ELSE k.heads * k.batch
SamplingArrays(k) ==
  LET keys == k.heads * k.batch * Top(k.n, k.max) * k.D IN
  [dev |->
     [Q |-> Input(1, k.heads * k.batch * k.D), K |-> Input(2, 2 * keys), V |-> Input(3, 2 * keys),
      O |-> Cells(QueryCount(k) * k.D), freqs |-> Input(4, k.D), seqlens |-> [b \in 0..(k.batch - 1) |-> k.n - b],
      pages |-> [p \in 0..(CeilDiv(k.n, k.page) - 1) |-> CeilDiv(k.n, k.page) - 1 - p],
      logits |-> Input(5, k.groups * Top(k.n, k.k * k.n)), beams |-> Input(6, k.k),
      values |-> Cells(Top(k.groups * Top(k.K, k.k), k.n)), indices |-> Cells(Top(k.groups * Top(k.K, k.k), k.n)),
      count |-> Cells(k.groups), beam_ids |-> Cells(k.k), token_ids |-> Cells(k.k),
      target |-> Input(7, k.K * k.n), draft |-> Input(8, k.K * k.n), tokens |-> [j \in 0..(k.K - 1) |-> j % k.n],
      random |-> [j \in 0..(k.K - 1) |-> j]],
   tg |-> [a \in {"shared_max", "shared_sum"} |-> Cells(SimdCount(k))]
          @@ [a \in {"tg_vals", "tg_idxs", "tg_max", "tg_sum", "tg_scores"} |-> Cells(k.threads)]
          @@ [a \in {"picked", "cand_vals", "cand_idxs"} |-> Cells(k.k)]
          @@ [tg_q_rot |-> Cells(k.D), accepted |-> Cells(1)],
   reg |-> Regs(k, ReduceRegs \cup {"max", "sum"})]

SamplingCode(k, g) ==
  CASE k.name = "batched_decode" -> BatchedDecodeCode(k, g)
    [] k.name = "multi_head_paged" -> MultiHeadPagedCode(k, g)
    [] k.name = "rope_attention" -> RopeDecodeCode
    [] k.name = "top_k" -> TopKCode(k)
    [] k.name = "top_p" -> TopPCode(k)
    [] k.name = "beam_search" -> BeamCode(k)
    [] k.name = "speculative" -> SpeculativeCode(k)
    [] k.name = "bitonic_sort" -> BitonicCode(k)
    [] OTHER -> DecodeCode
SamplingEffect(k, g, i, t, v) ==
  CASE k.name = "kv_cache" -> KvCacheAttention(k, g, i, t, v)
    [] k.name = "gqa" -> GqaAttention(k, g, i, t, v)
    [] k.name = "batched_decode" -> BatchedDecode(k, g, i, t, v)
    [] k.name = "paged" -> PagedAttention(k, g, i, t, v)
    [] k.name = "multi_head_paged" -> MultiHeadPaged(k, g, i, t, v)
    [] k.name = "fp16_kv" -> Fp16KvAttention(k, g, i, t, v)
    [] k.name = "sliding_window" -> SlidingWindow(k, g, i, t, v)
    [] k.name = "rope_attention" -> RopeAttention(k, g, i, t, v)
    [] k.name = "top_k" -> TopK(k, g, i, t, v)
    [] k.name = "top_p" -> TopP(k, g, i, t, v)
    [] k.name = "beam_search" -> BeamSearch(k, g, i, t, v)
    [] k.name = "speculative" -> Speculative(k, g, i, t, v)
    [] k.name = "bitonic_sort" -> BitonicSort(k, g, i, t, v)
\* of these only the sort documents what it needs: a block that is a power of two
Power2(n) == n \in {2 ^ j : j \in 0..5}
SamplingAdmitted(k) == k.name = "bitonic_sort" => Power2(k.threads)

\* ---- the promise ------------------------------------------------------------------
\* attention of a query over rows of keys and values, each a function of the
\* element
Attend(k, query, key, value) ==
  LET s == [j \in DOMAIN key |-> Mul(Dot(query, key[j]), k.scale)]
      e == [j \in DOMAIN key |-> Exp(Diff(s[j], Largest(s)))]
  IN [d \in 0..(k.D - 1) |-> Total([j \in DOMAIN key |-> Mul(Div(e[j], Total(e)), value[j][d])])]
\* cell d of row (head, position) of a cache
CacheCell(k, A, f, head, j, d) ==
  CASE k.name = "gqa" -> f[((((head \div k.perkv) * k.n) + j) * k.D) + d]
    [] k.name = "batched_decode" -> f[(((head * k.max) + j) * k.D) + d]
    [] k.name = "paged" -> f[(((A.pages[j \div k.page] * k.page) + (j % k.page)) * k.D) + d]
    [] k.name = "multi_head_paged" -> f[(((((A.pages[j \div k.page] * k.page) + (j % k.page)) * k.heads) + head) * k.D) + d]
    [] OTHER -> f[(((head * k.n) + j) * k.D) + d]
Seen(k, A, head) ==
  CASE k.name = "batched_decode" -> 0..(A.seqlens[head \div k.heads] - 1)
    [] k.name = "sliding_window" -> {j \in 0..(k.n - 1) : j <= k.pos /\ j > k.pos - k.window}
    [] OTHER -> 0..(k.n - 1)
Turned(k, A, f, pos) == IF k.name = "rope_attention" THEN Rotated(k, f, A.freqs, pos) ELSE f
DecodeWant(k) ==
  LET A == SamplingArrays(k).dev
      row(f, h, j) == [d \in 0..(k.D - 1) |-> CacheCell(k, A, f, h, j, d)]
      out(h) == Attend(k, Turned(k, A, Vector(k, A.Q, h * k.D), k.pos),
                       [j \in Seen(k, A, h) |-> Turned(k, A, row(A.K, h, j), j)], [j \in Seen(k, A, h) |-> row(A.V, h, j)])
  IN [O |-> [x \in DOMAIN A.O |-> out(x \div k.D)[x % k.D]]]

\* the candidates of f in descending order
Ranking(f) ==
  CHOOSE s \in [0..(Cardinality(DOMAIN f) - 1) -> DOMAIN f] :
    IsInjective(s) /\ \A x, y \in DOMAIN s : x < y => f[s[x]] > f[s[y]]
First(f, n) == [x \in 0..(n - 1) |-> f[x]]
SamplingWant(k) ==
  LET A == SamplingArrays(k).dev
      logits(g) == [c \in 0..(k.n - 1) |-> A.logits[(g * k.n) + c]]
      max(g) == Largest(logits(g))
      sum(g) == Total([c \in 0..(k.n - 1) |-> Exp(Mul(Diff(logits(g)[c], max(g)), k.cool))])
      prob(g) == [c \in 0..(k.n - 1) |-> Mul(Exp(Mul(Diff(logits(g)[c], max(g)), k.cool)), Div(1, sum(g)))]
      beam == [c \in 0..((k.k * k.n) - 1) |-> Add(A.beams[c \div k.n], A.logits[c])]
      n == Accepted(k, A)
      rest == [c \in 0..(k.n - 1) |-> Top(0, A.target[(n * k.n) + c] - A.draft[(n * k.n) + c])]
  IN CASE k.name = "top_k" ->
            [indices |-> [x \in 0..((k.groups * k.K) - 1) |-> Ranking(logits(x \div k.K))[x % k.K]],
             values |-> [x \in 0..((k.groups * k.K) - 1) |-> logits(x \div k.K)[Ranking(logits(x \div k.K))[x % k.K]]]]
       [] k.name = "top_p" ->
            LET p == prob(0)
                r == Ranking(p)
                size == NucleusSize(k, [x \in DOMAIN r |-> p[r[x]]])
            IN [indices |-> First(r, size), values |-> [x \in 0..(size - 1) |-> p[r[x]]], count |-> (0 :> size)]
       [] k.name = "beam_search" ->
            [beam_ids |-> [x \in 0..(k.k - 1) |-> Ranking(beam)[x] \div k.n], token_ids |-> [x \in 0..(k.k - 1) |-> Ranking(beam)[x] % k.n]]
       [] k.name = "speculative" ->
            [count |-> (0 :> n), values |-> [c \in 0..(k.n - 1) |-> Div(rest[c], Total(rest))]]
       [] k.name = "bitonic_sort" ->
            [indices |-> [x \in 0..(k.n - 1) |->
               LET part == {y \in 0..(k.n - 1) : y \div k.threads = x \div k.threads}
                   r == Ranking([y \in part |-> -A.logits[y]])
               IN IF k.ascending THEN r[x % k.threads] ELSE Ranking([y \in part |-> A.logits[y]])[x % k.threads]]]

SamplingInstances ==
  <<SamplingKernel("kv_cache", [groups |-> 2]), SamplingKernel("gqa", [groups |-> 2, n |-> 5]),
    SamplingKernel("batched_decode", [groups |-> 5, batch |-> 2, n |-> 2]), SamplingKernel("paged", [guarded |-> TRUE]),
    SamplingKernel("multi_head_paged", [guarded |-> TRUE, groups |-> 3]), SamplingKernel("fp16_kv", [guarded |-> TRUE, D |-> 6]),
    SamplingKernel("sliding_window", [guarded |-> TRUE, n |-> 4, pos |-> 3]), SamplingKernel("sliding_window", [guarded |-> TRUE, window |-> 5]),
    SamplingKernel("rope_attention", [n |-> 3]), SamplingKernel("rope_attention", [threads |-> 1, simd |-> 1]),
    SamplingKernel("kv_cache", [threads |-> 2]),
    SamplingKernel("top_k", [n |-> 6]), SamplingKernel("top_k", [threads |-> 3]), SamplingKernel("top_k", [n |-> 1]),
    SamplingKernel("top_k", [groups |-> 2, threads |-> 2, n |-> 3]),
    SamplingKernel("top_p", [n |-> 5, k |-> 3]), SamplingKernel("top_p", [n |-> 3, threshold |-> 0]),
    SamplingKernel("beam_search", [k |-> 1, n |-> 5]), SamplingKernel("beam_search", [threads |-> 1]),
    SamplingKernel("beam_search", [n |-> 2]),
    SamplingKernel("top_p", [threads |-> 3]), SamplingKernel("speculative", [threads |-> 3]),
    SamplingKernel("speculative", [n |-> 5]), SamplingKernel("bitonic_sort", [n |-> 4]),
    SamplingKernel("bitonic_sort", [n |-> 7, groups |-> 2])>>
==============================================================================

---------------------------- MODULE RowTemplates -----------------------------
(***************************************************************************)
(* The row-wise templates of codegen/_msl_templates.py: reductions,        *)
(* softmax, the normalisations, variance, cross entropy, prefix sum.  One  *)
(* threadgroup works on one row.  For each template: the instructions of a *)
(* threadgroup (...Code) and what each writes; at the end of the module    *)
(* the arrays each is bound to and the result each promises.               *)
(***************************************************************************)
EXTENDS Threadgroup

\* ---- reduce, row_reduce, col_reduce -------------------------------------
FoldRow(op, out) == <<Run("gather")>> \o Reduce(op, "acc", "shared", "total") \o <<Run(out)>>
Gather(k, t, v, cells) ==
  Put("acc", t, Fold2(k.op, Identity(k.op), Combine(k.op, [c \in cells |-> At(v.input, c)])))
StoreTotal(k, g, t, v) == IF t = 0 THEN Put("output", g, Cast(k, v.total[0])) ELSE Nothing
ReduceKernel(k, g, i, t, v) ==
  IF i.do = "gather" THEN Gather(k, t, v, Shift(g * k.n, Mine(k, t, k.n))) ELSE StoreTotal(k, g, t, v)
\* a grid larger than the rows: the extra groups return before any barrier
RowReduceCode(k, g) == IF g >= k.rows THEN <<>> ELSE FoldRow(k.op, "store")
RowReduce(k, g, i, t, v) ==
  IF i.do = "gather" THEN Gather(k, t, v, Shift(g * k.n, Mine(k, t, k.n))) ELSE StoreTotal(k, g, t, v)
ColReduceCode(k, g) == IF g >= k.n THEN <<>> ELSE FoldRow(k.op, "store")
ColReduce(k, g, i, t, v) ==
  IF i.do = "gather" THEN Gather(k, t, v, {(r * k.n) + g : r \in Mine(k, t, k.rows)})
  ELSE StoreTotal(k, g, t, v)

\* ---- softmax: the exponentials are stored, then divided in place ---------
SoftmaxCode ==
  <<Run("rowmax")>> \o Published("max", "acc", "shared_max", "total")
  \o <<Run("exps")>> \o Published("sum", "acc", "shared_sum", "total") \o <<Run("divide")>>
Softmax(k, g, i, t, v) ==
  LET mine == Shift(g * k.n, Mine(k, t, k.n))
      e == [j \in mine |-> Exp(Diff(v.input[j], v.shared_max[0]))]
  IN CASE i.do = "rowmax" -> Put("acc", t, Largest([j \in mine |-> v.input[j]]))
       [] i.do = "exps" -> [output |-> [j \in mine |-> Cast(k, e[j])], acc |-> Cell(t, Total(e))]
       [] i.do = "divide" -> [output |-> [j \in mine |-> Cast(k, Div(v.output[j], v.shared_sum[0]))]]

\* ---- online softmax: one pass of (max, sum) pairs, then a shuffle tree,
\* ---- then one thread over the SIMD groups --------------------------------
\* two partial rows, each a maximum and a sum of exponentials relative to it
JoinOnline(p, q) ==
  LET m == Top(p[1], q[1])
  IN <<m, Add(Mul(p[2], Exp(Diff(p[1], m))), Mul(q[2], Exp(Diff(q[1], m))))>>
PushOnline(p, x) ==
  IF x > p[1] THEN <<x, Add(Mul(p[2], Exp(Diff(p[1], x))), 1)>>
  ELSE <<p[1], Add(p[2], Exp(Diff(x, p[1])))>>
OnlineSoftmaxCode(k) ==
  LET offsets == SelectSeq(<<16, 8, 4, 2, 1>>, LAMBDA o : o < k.simd) IN
  <<Run("scan")>> \o [j \in DOMAIN offsets |-> LanesAt("down", offsets[j])]
  \o <<Run("lead0"), Barrier, Run("fold"), Barrier, Run("write")>>
OnlineSoftmax(k, g, i, t, v) ==
  LET mine == Mine(k, t, k.n)
      cols == [j \in 1..Cardinality(mine) |-> v.input[(g * k.n) + t + ((j - 1) * k.threads)]]
      p == <<v.m[t], v.s[t]>>
      pair(x) == [m |-> Cell(t, x[1]), s |-> Cell(t, x[2])]
      all == [j \in 1..(SimdCount(k) - 1) |-> <<v.tg_max[j], v.tg_sum[j]>>]
      total == FoldLeft(JoinOnline, <<v.tg_max[0], v.tg_sum[0]>>, all)
  IN CASE i.do = "scan" -> pair(FoldLeft(PushOnline, <<Low, 0>>, cols))
       [] i.do = "down" ->
            \* a lane past the end of the SIMD group shuffles its own value
            LET u == IF LaneOf(k, t) + i.i < k.simd THEN t + i.i ELSE t
            IN pair(JoinOnline(p, <<At(v.m, u), At(v.s, u)>>))
       [] i.do = "lead0" ->
            IF LaneOf(k, t) = 0 THEN [tg_max |-> Cell(SimdOf(k, t), p[1]), tg_sum |-> Cell(SimdOf(k, t), p[2])]
            ELSE Nothing
       [] i.do = "fold" -> IF t = 0 THEN [tg_max |-> Cell(0, total[1]), tg_sum |-> Cell(0, total[2])] ELSE Nothing
       [] i.do = "write" ->
            [output |-> [j \in Shift(g * k.n, mine) |->
               Cast(k, Div(Exp(Diff(v.input[j], v.tg_max[0])), v.tg_sum[0]))]]

\* ---- normalisations: sum, then sum of squared differences, then apply ----
Eps == 3
RmsNormCode ==
  <<Run("squares")>> \o Published("sum", "acc", "shared_sq", "total") \o <<Run("apply")>>
RmsNorm(k, g, i, t, v) ==
  LET mine == Shift(g * k.n, Mine(k, t, k.n))
      rms == Fn("rsqrt", Add(Div(v.shared_sq[0], k.n), Eps))
  IN CASE i.do = "squares" -> Put("acc", t, Total([j \in mine |-> Mul(v.input[j], v.input[j])]))
       [] i.do = "apply" ->
            [output |-> [j \in mine |->
               Cast(k, Mul(Mul(v.input[j], rms), v.weight[j - (g * k.n)]))]]

\* the two moments a row x of length n is normalised by
MomentsCode(sums, vars_) ==
  <<Run("sum")>> \o Published("sum", "acc", sums, "total")
  \o <<Run("mean")>> \o Published("sum", "acc", vars_, "total") \o <<Run("apply")>>
Moments(k, i, t, v, x, n) ==
  LET mine == Mine(k, t, n)
      mean == Div(v[k.sums][0], n)
  IN CASE i.do = "sum" -> Put("acc", t, Total([c \in mine |-> x[c]]))
       [] i.do = "mean" ->
            [mean |-> Cell(t, mean),
             acc |-> Cell(t, Total([c \in mine |-> Mul(Sub(x[c], mean), Sub(x[c], mean))]))]
Normal(k, t, v, x, n) ==
  Mul(Sub(x, v.mean[t]), Fn("rsqrt", Add(Div(v[k.vars][0], n), Eps)))

RowOf(f, g, n) == [c \in 0..(n - 1) |-> At(f, (g * n) + c)]
LayerNorm(k, g, i, t, v) ==
  LET x == RowOf(v.input, g, k.n) IN
  IF i.do # "apply" THEN Moments(k, i, t, v, x, k.n)
  ELSE [output |-> [j \in Shift(g * k.n, Mine(k, t, k.n)) |->
          LET c == j - (g * k.n) IN
          Cast(k, Add(Mul(Normal(k, t, v, x[c], k.n), v.gamma[c]), v.beta[c]))]]

\* input + residual is recomputed in each pass, and stored once rounded
ResidualNorm(k, g, i, t, v) ==
  LET x == [c \in 0..(k.n - 1) |-> Add(v.input[(g * k.n) + c], v.residual[(g * k.n) + c])]
      mine == Shift(g * k.n, Mine(k, t, k.n))
  IN CASE i.do = "sum" ->
            Merge(Moments(k, i, t, v, x, k.n), [residual_out |-> [j \in mine |-> Cast(k, x[j - (g * k.n)])]])
       [] i.do = "mean" -> Moments(k, i, t, v, x, k.n)
       [] i.do = "apply" ->
            [output |-> [j \in mine |->
               LET c == j - (g * k.n) IN
               Cast(k, Add(Mul(Normal(k, t, v, x[c], k.n), v.gamma[c]), v.beta[c]))]]

\* both moments go through one shared array
InstanceNorm(k, g, i, t, v) ==
  LET x == RowOf(v.input, g, k.n)
      ch == g % k.channels
  IN IF i.do # "apply" THEN Moments(k, i, t, v, x, k.n)
     ELSE [output |-> [j \in Shift(g * k.n, Mine(k, t, k.n)) |->
             Add(Mul(Normal(k, t, v, x[j - (g * k.n)], k.n), v.weight[ch]), v.bias[ch])]]

GroupSize(k) == (k.channels \div k.ngroups) * k.spatial
GroupNorm(k, g, i, t, v) ==
  LET per == k.channels \div k.ngroups
      n == GroupSize(k)
      base == ((g \div k.ngroups) * k.channels * k.spatial) + ((g % k.ngroups) * n)
      x == [c \in 0..(n - 1) |-> v.input[base + c]]
  IN IF i.do # "apply" THEN Moments(k, i, t, v, x, n)
     ELSE [output |-> [j \in Shift(base, Mine(k, t, n)) |->
             LET ch == ((g % k.ngroups) * per) + ((j - base) \div k.spatial) IN
             Add(Mul(Normal(k, t, v, x[j - base], n), v.weight[ch]), v.bias[ch])]]

\* ---- variance: its second pass stores partial sums into the array the
\* ---- mean is read from, with no barrier in between -------------------------
VarianceCode ==
  <<Run("sum"), Lanes("lanesum"), Run("lead1"), Barrier, Run("mean"), Barrier,
    Run("diffs"), Lanes("lanesum"), Run("lead1"), Barrier, Run("store")>>
Variance(k, g, i, t, v) ==
  LET mine == Shift(g * k.n, Mine(k, t, k.n))
      mean == v.tg_sum[0]
      total == Total([s \in 0..(SimdCount(k) - 1) |-> v.tg_sum[s]])
  IN CASE i.do = "sum" -> Put("acc", t, Total([j \in mine |-> v.input[j]]))
       [] i.do = "lanesum" -> Put("acc", t, SimdOp(k, "sum", v.acc, t))
       [] i.do = "lead1" -> IF LaneOf(k, t) = 0 THEN Put("tg_sum", SimdOf(k, t), v.acc[t]) ELSE Nothing
       [] i.do = "mean" -> IF t = 0 THEN Put("tg_sum", 0, Div(total, k.n)) ELSE Nothing
       [] i.do = "diffs" -> Put("acc", t, Total([j \in mine |-> Mul(Sub(v.input[j], mean), Sub(v.input[j], mean))]))
       [] i.do = "store" -> IF t = 0 THEN Put("output", g, Cast(k, Div(total, k.n))) ELSE Nothing

\* ---- cross entropy ---------------------------------------------------------
CrossEntropyCode ==
  <<Run("rowmax")>> \o Published("max", "acc", "shared_max", "total")
  \o <<Run("exps")>> \o Reduce("sum", "acc", "shared_sum", "total") \o <<Run("loss")>>
CrossEntropy(k, g, i, t, v) ==
  LET mine == Shift(g * k.n, Mine(k, t, k.n))
      target == v.input[(g * k.n) + v.targets[g]]
  IN CASE i.do = "rowmax" -> Put("acc", t, Largest([j \in mine |-> v.input[j]]))
       [] i.do = "exps" ->
            [max |-> Cell(t, v.shared_max[0]),
             acc |-> Cell(t, Total([j \in mine |-> Exp(Diff(v.input[j], v.shared_max[0]))]))]
       [] i.do = "loss" ->
            IF t = 0 THEN Put("output", g, Sub(Add(v.max[0], Fn("log", v.total[0])), target)) ELSE Nothing

\* ---- inclusive prefix sum: Hillis-Steele, read and write phases apart -------
CumsumCode(k) ==
  LET strides == SelectSeq(<<1, 2, 4, 8, 16>>, LAMBDA s : s < k.threads) IN
  <<Run("load"), Barrier>>
  \o FlattenSeq([j \in DOMAIN strides |-> <<RunAt("left", strides[j]), Barrier, RunAt("add", strides[j]), Barrier>>])
  \o <<Run("store")>>
Cumsum(k, g, i, t, v) ==
  CASE i.do = "load" -> Put("shared", t, IF t < k.n THEN v.input[(g * k.n) + t] ELSE 0)
    [] i.do = "left" -> Put("acc", t, IF t >= i.i THEN v.shared[t - i.i] ELSE 0)
    [] i.do = "add" -> IF t >= i.i THEN Put("shared", t, Add(v.shared[t], v.acc[t])) ELSE Nothing
    [] i.do = "store" -> IF t < k.n THEN Put("output", (g * k.n) + t, Cast(k, v.shared[t])) ELSE Nothing

------------------------------------------------------------------------------
(***************************************************************************)
(* The templates of codegen/_msl_templates.py in which a thread computes   *)
(* its own output elements: pointwise kernels, gathers and scatters,       *)
(* layout changes, convolution and pooling.  Each operator gives what one  *)
(* thread writes; all but the transpose are a single instruction.          *)
(***************************************************************************)
\* thread_position_in_grid
InputNames == <<"input", "input1", "input2", "input3">>
OutputNames == <<"output", "output1", "output2">>
\* output[gid] = x, for the threads inside the grid
Write(k, g, t, x) == IF BlockOffset(k, g, t) < k.n THEN Put("output", BlockOffset(k, g, t), x) ELSE Nothing

\* ---- pointwise ---------------------------------------------------------------
ElementAdmits(k) ==
  \/ k.inputs = 1 /\ k.op \in {"silu", "gelu", "gelu_tanh", "neg", "exp", "log", "sqrt", "sin", "sigmoid"}
  \/ k.inputs = 2 /\ k.op \in BinaryOps
  \/ k.inputs = 3 /\ k.op = "fma"
Elementwise(k, g, t, v) ==
  LET off == BlockOffset(k, g, t)
      vals == [i \in 1..k.inputs |-> Load(k, v[InputNames[i]], off)]
      x == CASE k.inputs = 1 /\ k.op \in {"silu", "gelu", "gelu_tanh"} -> FusedOp(k.op, vals)
             [] k.inputs = 1 /\ k.op \notin {"silu", "gelu", "gelu_tanh"} -> UnaryOp(k.op, vals[1])
             [] k.inputs = 2 -> BinaryOp(k.op, vals[1], vals[2])
             [] OTHER -> FusedOp("fma", vals)
  IN Store(k, "output", off, x)
Swiglu(k, g, t, v) ==
  LET off == BlockOffset(k, g, t)
      gate == Load(k, v.input1, off)
  IN Store(k, "output", off, BinaryOp("mul", FusedOp("silu", <<gate>>), Load(k, v.input, off)))
ScalarMul(k, g, t, v) ==
  LET off == BlockOffset(k, g, t) IN Store(k, "output", off, Mul(Load(k, v.input, off), k.scalar))
ResidualAdd(k, g, t, v) ==
  LET off == BlockOffset(k, g, t)
      sum == Add(Load(k, v.input, off), Load(k, v.input1, off))
  IN Store(k, "output", off, IF k.bias THEN Add(sum, Load(k, v.input2, off)) ELSE sum)
\* in the integers modulo a prime every element is >= 0: the branch of elu and
\* leaky_relu is taken on the element compared with k.scalar instead
Activation(k, g, t, v) ==
  LET off == BlockOffset(k, g, t)
      x == Load(k, v.input, off)
      y == CASE k.op \in {"elu", "leaky_relu"} -> IF x >= k.scalar THEN x ELSE Fn(k.op, x)
             [] k.op = "silu" -> FusedOp("silu", <<x>>)
             [] k.op = "sigmoid" -> UnaryOp("sigmoid", x)
             [] OTHER -> Fn(k.op, x)
  IN Store(k, "output", off, y)
FusedMlp(k, g, t, v) ==
  LET i == BlockOffset(k, g, t) IN
  Write(k, g, t, Mul(FusedOp("silu", <<At(v.input, i)>>), At(v.input1, i)))
\* a counter hash decides what is kept; the mask is stored beside the result
Keeps(k, i) == Datum(k.scalar, i) % 3 # 0
Dropout(k, g, t, v) ==
  LET i == BlockOffset(k, g, t) IN
  IF i >= k.n THEN Nothing
  ELSE [output |-> Cell(i, IF Keeps(k, i) THEN Mul(v.input[i], k.scalar) ELSE 0),
        output1 |-> Cell(i, IF Keeps(k, i) THEN 1 ELSE 0)]
WhereKernel(k, g, t, v) ==
  LET i == BlockOffset(k, g, t) IN
  Write(k, g, t, IF At(v.input2, i) # 0 THEN At(v.input, i) ELSE At(v.input1, i))
Clamp(k, g, t, v) == Write(k, g, t, Cast(k, Top(k.low, Bottom(k.high, At(v.input, BlockOffset(k, g, t))))))
Compare(k, g, t, v) ==
  LET a == At(v.input, BlockOffset(k, g, t))
      b == At(v.input1, BlockOffset(k, g, t))
      holds == CASE k.op = "eq" -> a = b [] k.op = "ne" -> a # b
                 [] k.op = "lt" -> a < b [] k.op = "le" -> a <= b
                 [] k.op = "gt" -> a > b [] k.op = "ge" -> a >= b
  IN Write(k, g, t, IF holds THEN 1 ELSE 0)
ReduceScatter(k, g, t, v) ==
  Write(k, g, t, Total([b \in 1..k.buffers |-> At(v[InputNames[b]], BlockOffset(k, g, t))]))
AllReduce(k, g, t, v) ==
  Write(k, g, t, Combine(k.op, [b \in 1..k.buffers |-> At(v[InputNames[b]], BlockOffset(k, g, t))]))
\* inference statistics; one thread per element of [channels, spatial]
BatchNorm(k, g, t, v) ==
  LET i == BlockOffset(k, g, t)
      ch == (i \div k.spatial) % k.channels
  IN IF i >= k.channels * k.spatial THEN Nothing
     ELSE Put("output", i,
            Cast(k, Add(Mul(v.gamma[ch], Mul(Sub(v.input[i], v.mean_in[ch]), Fn("rsqrt", Add(v.var_in[ch], 3)))), v.beta[ch])))

\* ---- gathers, scatters, copies -------------------------------------------------
\* one threadgroup copies one row of the table
Embedding(k, g, t, v) ==
  [output |-> [j \in Shift(g * k.dim, Mine(k, t, k.dim)) |->
     At(v.input, (v.indices[g] * k.dim) + (j - (g * k.dim)))]]
GatherKernel(k, g, t, v) == Write(k, g, t, At(v.input, At(v.indices, BlockOffset(k, g, t))))
IndexSelect(k, g, t, v) == Write(k, g, t, At(v.input, At(v.indices, BlockOffset(k, g, t))))
Scatter(k, g, t, v) ==
  LET i == BlockOffset(k, g, t) IN
  IF i < k.n THEN Put("output", v.indices[i], v.input[i]) ELSE Nothing
AtomicAdd(k, g, t, v) ==
  LET i == BlockOffset(k, g, t) IN
  IF i < k.n THEN Put("output", v.indices[i], Add(v.output[v.indices[i]], v.input[i])) ELSE Nothing
\* the inputs' bounds are cumulative, the first that holds the element copies it
Concat(k, g, t, v) ==
  LET i == BlockOffset(k, g, t)
      end(b) == SumFunction([c \in 1..b |-> k.sizes[c]])
      fits == {b \in DOMAIN k.sizes : i < end(b)}
      b == CHOOSE x \in fits : \A y \in fits : x <= y
  IN IF fits = {} THEN Nothing ELSE Put("output", i, At(v[InputNames[b]], i - end(b - 1)))
Split(k, g, t, v) ==
  LET i == BlockOffset(k, g, t)
      fits == {b \in 1..k.buffers : i < b * k.chunk}
      b == CHOOSE x \in fits : \A y \in fits : x <= y
  IN IF fits = {} THEN Nothing ELSE Put(OutputNames[b], i - ((b - 1) * k.chunk), v.input[i])
RepeatKv(k, g, t, v) ==
  LET i == BlockOffset(k, g, t)
      d == i % k.dim
      s == (i \div k.dim) % k.seq
      head == (i \div k.dim) \div k.seq
  IN IF i >= k.heads * k.rep * k.seq * k.dim THEN Nothing
     ELSE Put("output", i, At(v.input, ((((head \div k.rep) * k.seq) + s) * k.dim) + d))
Rope(k, g, t, v) ==
  LET row == g * k.dim
      pairs == Mine(k, t, k.dim \div 2)
      theta(i) == Mul(g + k.pos, v.freqs[i])
      x0(i) == v.input[row + (2 * i)]
      x1(i) == v.input[row + (2 * i) + 1]
      c(i) == Fn("cos", theta(i))
      s(i) == Fn("sin", theta(i))
  IN [output |-> [j \in UNION {{row + (2 * i), row + (2 * i) + 1} : i \in pairs} |->
        LET i == (j - row) \div 2 IN
        Cast(k, IF (j - row) % 2 = 0 THEN Sub(Mul(x0(i), c(i)), Mul(x1(i), s(i)))
                ELSE Add(Mul(x0(i), s(i)), Mul(x1(i), c(i))))]]

\* ---- transpose through a padded tile -----------------------------------------
\* a mutant: the tile is read back before the barrier
TransposeUnsynced == <<Run("read"), Run("write")>>
TransposeCode == <<Run("read"), Barrier, Run("write")>>
Transpose(k, g, i, t, v) ==
  LET gx == g % CeilDiv(k.cols, k.tile)
      gy == g \div CeilDiv(k.cols, k.tile)
      tx == t % k.tile
      ty == t \div k.tile
      cell(r, c) == (r * (k.tile + 1)) + c
      rrow == (gy * k.tile) + ty
      rcol == (gx * k.tile) + tx
      wrow == (gx * k.tile) + ty
      wcol == (gy * k.tile) + tx
  IN CASE i.do = "read" ->
            IF rrow < k.rows /\ rcol < k.cols THEN Put("tile", cell(ty, tx), v.input[(rrow * k.cols) + rcol])
            ELSE Nothing
       [] i.do = "write" ->
            IF wrow < k.cols /\ wcol < k.rows THEN Put("output", (wrow * k.rows) + wcol, v.tile[cell(tx, ty)])
            ELSE Nothing

\* ---- convolution and pooling ----------------------------------------------------
\* the cells of the window of output (oh, ow) that lie inside the image
Window(k, oh, ow) ==
  {w \in (0..(k.kh - 1)) \X (0..(k.kw - 1)) :
     LET ih == (oh * k.stride) + w[1] - k.pad
         iw == (ow * k.stride) + w[2] - k.pad
     IN ih >= 0 /\ ih < k.h /\ iw >= 0 /\ iw < k.w}
PixelOf(k, plane, oh, ow, w) ==
  (plane * k.h * k.w) + (((oh * k.stride) + w[1] - k.pad) * k.w) + ((ow * k.stride) + w[2] - k.pad)
Conv2d(k, g, t, v) ==
  LET i == BlockOffset(k, g, t)
      perBatch == k.outc * k.oh * k.ow
      b == i \div perBatch
      rem == i % perBatch
      oc == rem \div (k.oh * k.ow)
      oh == (rem % (k.oh * k.ow)) \div k.ow
      ow == (rem % (k.oh * k.ow)) % k.ow
      taps == (0..(k.inc - 1)) \X Window(k, oh, ow)
      weight(p) == (oc * k.inc * k.kh * k.kw) + (p[1] * k.kh * k.kw) + (p[2][1] * k.kw) + p[2][2]
  IN IF i >= k.batch * perBatch THEN Nothing
     ELSE Put("output", (b * perBatch) + (oc * k.oh * k.ow) + (oh * k.ow) + ow,
            Add(v.bias[oc],
                Total([p \in taps |->
                  Mul(At(v.input, PixelOf(k, (b * k.inc) + p[1], oh, ow, p[2])), At(v.weight, weight(p)))])))
\* the plane of output element i, and its window's values
Pooled(k, i, v) ==
  LET plane == i \div (k.oh * k.ow)
      oh == (i % (k.oh * k.ow)) \div k.ow
      ow == (i % (k.oh * k.ow)) % k.ow
  IN [w \in Window(k, oh, ow) |-> At(v.input, PixelOf(k, plane, oh, ow, w))]
PoolCount(k) == k.batch * k.inc * k.oh * k.ow
MaxPool(k, g, t, v) ==
  LET i == BlockOffset(k, g, t) IN
  IF i >= PoolCount(k) THEN Nothing ELSE Put("output", i, Largest(Pooled(k, i, v)))
AvgPool(k, g, t, v) ==
  LET i == BlockOffset(k, g, t)
      count == Cardinality(DOMAIN Pooled(k, i, v))
  IN IF i >= PoolCount(k) THEN Nothing
     ELSE Put("output", i, IF count > 0 THEN Div(Total(Pooled(k, i, v)), count) ELSE 0)
==============================================================================

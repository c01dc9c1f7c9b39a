--------------------------- MODULE GraphReference ----------------------------
(***************************************************************************)
(* Source graphs for the matched templates: those each template was        *)
(* written for, and near misses that differ in one operation.              *)
(***************************************************************************)
EXTENDS LoweringReference, NormTemplates, DotMatching

(***************************************************************************)
(* Source graphs for the layout templates: those each was written for, and *)
(* near misses that differ from one of them in one operation.              *)
(***************************************************************************)
\* ---- building graphs --------------------------------------------------------------------
Const(id, shape, x) == Node(id, "constant", <<>>, [shape |-> shape, value |-> x])
Arange(id, start, n) == Node(id, "make_range", <<>>, [start |-> start, end |-> start + n])
Shaped(id, op, x, shape) == Node(id, op, <<x>>, [shape |-> shape])
Moved(id, op, x, axis) == Node(id, op, <<x>>, [axis |-> axis])
Bare(id, op, args) == Node(id, op, args, Plainly)
StoreOf(id, args) == Node(id, "store", args, [float |-> TRUE])
\* array[0..n-1] as a tensor of that shape: four operations, the last the address
Linear(ids, array, shape) ==
  <<Arange(ids[1], 0, Product(shape)), Shaped(ids[2], "reshape", ids[1], shape), Shaped(ids[3], "splat", array, shape),
    Bare(ids[4], "addptr", <<ids[3], ids[2]>>)>>
\* the same address of a matrix whose rows are ld apart, or of a vector, in ranges
Tile2(n, array, shape, ld) ==
  <<Arange(n[1], 0, shape[1]), Moved(n[2], "expand_dims", n[1], 1), Const(n[3], <<shape[1], 1>>, ld), Bare(n[4], "muli", <<n[2], n[3]>>),
    Shaped(n[5], "broadcast", n[4], shape), Arange(n[6], 0, shape[2]), Moved(n[7], "expand_dims", n[6], 0), Shaped(n[8], "broadcast", n[7], shape),
    Bare(n[9], "addi", <<n[5], n[8]>>), Shaped(n[10], "splat", array, shape), Bare(n[11], "addptr", <<n[10], n[9]>>)>>
XTile == <<"xr", "xe", "xc", "xm", "xb", "xn", "xf", "xg", "xi", "xs", "xp">>
Vector1(ids, array, n) == <<Arange(ids[1], 0, n), Shaped(ids[3], "splat", array, <<n>>), Bare(ids[4], "addptr", <<ids[3], ids[1]>>)>>
\* one operation replaced, or preceded by others
Changed(ops, node) == [i \in DOMAIN ops |-> IF ops[i].id = node.id THEN node ELSE ops[i]]
Preceded(ops, id, more) == FlattenSeq([i \in DOMAIN ops |-> IF ops[i].id = id THEN more \o <<ops[i]>> ELSE <<ops[i]>>])
XZ == <<Argument("X", TRUE, "f32"), Argument("Z", TRUE, "f32")>>
ZX == <<XZ[2], XZ[1]>>
IntXZ == <<Argument("X", TRUE, "i32"), Argument("Z", TRUE, "i32")>>
Passed == <<Argument("s", FALSE, "i32")>>

\* the row-major index of a 3-D tile, as the source writes it
AxisIds == <<<<"r0", "d0", "e0", "c0", "m0", "b0">>, <<"r1", "d1", "e1", "c1", "m1", "b1">>, <<"r2", "d2", "e2", "c2", "m2", "b2">>>>
AxisIndex(shape, d, coef) ==
  LET n == AxisIds[d] IN
  <<Arange(n[1], 0, shape[d]), Moved(n[2], "expand_dims", n[1], IF d = 1 THEN 1 ELSE 0), Moved(n[3], "expand_dims", n[2], IF d = 3 THEN 0 ELSE 2),
    Const(n[4], [x \in 1..3 |-> IF x = d THEN shape[d] ELSE 1], coef), Bare(n[5], "muli", <<n[3], n[4]>>), Shaped(n[6], "broadcast", n[5], shape)>>
CubeOps(shape, coefs) ==
  AxisIndex(shape, 1, coefs[1]) \o AxisIndex(shape, 2, coefs[2]) \o AxisIndex(shape, 3, coefs[3])
  \o <<Bare("i01", "addi", <<"b0", "b1">>), Bare("idx", "addi", <<"i01", "b2">>),
       Shaped("xs", "splat", "X", shape), Bare("xp", "addptr", <<"xs", "idx">>), Bare("x", "load", <<"xp">>)>>
CubeStore(shape, value) ==
  <<Shaped("zs", "splat", "Z", shape), Bare("zp", "addptr", <<"zs", "idx">>), StoreOf("st", <<"zp", value>>)>>

\* ---- flip ---------------------------------------------------------------------------------
XorRegion == PlainRegion("xori")
XorAndOne == Region(<<"a", "b">>, <<Op("m", "xori", <<"a", "b">>), Op("r", "addi", <<"m", "b">>)>>, <<"r">>)
FlipIds == <<<<"q0", "p0", "w0", "y0">>, <<"q1", "p1", "w1", "y1">>>>
\* one split axis: reduce, expand, broadcast, xor
FlipAxis(j, from, axis, shape, R) ==
  LET n == FlipIds[j] IN
  <<Node(n[1], "reduce", <<from>>, [axis |-> axis, combine |-> R]), Moved(n[2], "expand_dims", n[1], axis),
    Shaped(n[3], "broadcast", n[2], shape), Bare(n[4], "xori", <<from, n[3]>>)>>
Flip2(shape, d) ==
  CubeOps(shape, RowMajor(shape)) \o FlipAxis(1, "x", d, shape, XorRegion) \o CubeStore(shape, "y0")
Flip4(shape, d) ==
  LET split == SplitAt(shape, d) IN
  CubeOps(shape, RowMajor(shape)) \o <<Shaped("up", "reshape", "x", split)>> \o FlipAxis(1, "up", d, split, XorRegion)
  \o FlipAxis(2, "y0", d + 1, split, XorRegion) \o <<Shaped("down", "reshape", "y1", shape)>> \o CubeStore(shape, "down")
Near == Flip2(<<2, 2, 1>>, 0)
FlipGraphs ==
  <<<<XZ, Flip2(<<2, 3, 1>>, 0)>>, <<ZX, Flip2(<<3, 1, 2>>, 2)>>, <<XZ, Flip4(<<2, 4, 1>>, 1)>>,
    <<XZ, Preceded(Changed(Near, StoreOf("st", <<"zp", "y9">>)), "st", <<Bare("y9", "bitcast", <<"y0">>)>>)>>,
    \* another reducer; arithmetic on the result; a store elsewhere; other strides; a mask
    <<XZ, Changed(Near, Node("q0", "reduce", <<"x">>, [axis |-> 0, combine |-> XorAndOne]))>>,
    <<XZ, Preceded(Changed(Near, StoreOf("st", <<"zp", "y9">>)), "st", <<Bare("y9", "addi", <<"y0", "y0">>)>>)>>,
    <<XZ, Preceded(Changed(Near, Bare("zp", "addptr", <<"zs", "i9">>)), "zp", <<Bare("i9", "addi", <<"idx", "b0">>)>>)>>,
    <<XZ, CubeOps(<<2, 2, 1>>, <<1, 2, 1>>) \o FlipAxis(1, "x", 0, <<2, 2, 1>>, XorRegion) \o CubeStore(<<2, 2, 1>>, "y0")>>,
    <<XZ, Preceded(Changed(Near, StoreOf("st", <<"zp", "y0", "mk">>)), "st",
                   <<Const("one", <<2, 2, 1>>, 3), Node("mk", "cmpi", <<"idx", "one">>, [pred |-> "slt"])>>)>>,
    \* the xor of another value; in place
    <<XZ, Changed(Near, Bare("y0", "xori", <<"w0", "w0">>))>>,
    <<XZ, Changed(Near, Shaped("zs", "splat", "X", <<2, 2, 1>>))>>>>

\* ---- transposes ----------------------------------------------------------------------------
InIds == <<"xr", "xi", "xs", "xp">>
OutIds == <<"zr", "zi", "zs", "zp">>
Split2d(M, N, m) ==
  Tile2(XTile, "X", <<M, N>>, N) \o <<Bare("x", "load", <<"xp">>), Shaped("up", "reshape", "x", <<M, m, N \div (2 * m), 2>>),
    Node("tr", "trans", <<"up">>, [order |-> <<1, 2, 3, 0>>]), Shaped("down", "reshape", "tr", <<M * N>>)>>
  \o Vector1(OutIds, "Z", M * N) \o <<StoreOf("st", <<"zp", "down">>)>>
Permuted(shape, order) ==
  LET to == [d \in DOMAIN order |-> shape[order[d] + 1]] IN
  Linear(InIds, "X", shape) \o <<Bare("x", "load", <<"xp">>), Node("tr", "trans", <<"x">>, [order |-> order])>>
  \o Linear(OutIds, "Z", to) \o <<StoreOf("st", <<"zp", "tr">>)>>
Doubled(ops) == Preceded(Changed(ops, Node("tr", "trans", <<"xx">>, [order |-> <<2, 0, 1>>])), "tr", <<Bare("xx", "addf", <<"x", "x">>)>>)
PerProgram(ops) ==
  Preceded(Changed(ops, Shaped("xs", "splat", "xb", <<1, 2, 3>>)), "xs",
           <<Bare("p", "program_id", <<>>), Const("n", <<>>, 6), Bare("pn", "muli", <<"p", "n">>), Bare("xb", "addptr", <<"X", "pn">>)>>)
TransposeGraphs ==
  <<<<XZ, Split2d(3, 4, 1)>>, <<ZX, Split2d(2, 8, 2)>>,
    <<XZ, Permuted(<<1, 2, 3>>, <<2, 0, 1>>)>>, <<ZX, Permuted(<<2, 3, 1, 2>>, <<3, 1, 0, 2>>)>>, <<XZ, Permuted(<<2, 3, 2>>, <<0, 2, 1>>)>>,
    <<XZ, Doubled(Permuted(<<1, 2, 3>>, <<2, 0, 1>>))>>, <<XZ, PerProgram(Permuted(<<1, 2, 3>>, <<2, 0, 1>>))>>,
    <<XZ, Permuted(<<2, 3>>, <<1, 0>>)>>>>

\* ---- sums over a permuted tensor -----------------------------------------------------------
SumIds == <<"s0", "s1", "s2">>
Chained(shape, order, axes, out, R) ==
  LET red(j) == Node(SumIds[j], "reduce", <<IF j = 1 THEN "tr" ELSE SumIds[j - 1]>>, [axis |-> axes[j], combine |-> R]) IN
  Linear(InIds, "X", shape) \o <<Bare("x", "load", <<"xp">>), Node("tr", "trans", <<"x">>, [order |-> order])>>
  \o [j \in DOMAIN axes |-> red(j)] \o Linear(OutIds, "Z", out)
  \o <<Node("st", "store", <<"zp", SumIds[Len(axes)]>>, [float |-> FALSE])>>
IntSum == PlainRegion("addi")
Scaled3 == Chained(<<2, 3>>, <<1, 0>>, <<0>>, <<2>>, IntSum)
ChainGraphs ==
  <<<<IntXZ, Chained(<<2, 3>>, <<1, 0>>, <<0>>, <<2>>, IntSum)>>, <<IntXZ, Chained(<<2, 3, 2>>, <<2, 0, 1>>, <<1, 1>>, <<2>>, IntSum)>>,
    <<IntXZ, Chained(<<2, 2, 3>>, <<1, 2, 0>>, <<2>>, <<2, 3>>, IntSum)>>,
    <<IntXZ, Chained(<<2, 3>>, <<1, 0>>, <<0>>, <<2>>, PlainRegion("maxsi"))>>,
    <<XZ, Chained(<<2, 3>>, <<1, 0>>, <<0>>, <<2>>, PlainRegion("addf"))>>,
    <<IntXZ, Preceded(Changed(Scaled3, Node("tr", "trans", <<"xx">>, [order |-> <<1, 0>>])), "tr", <<Bare("xx", "addi", <<"x", "x">>)>>)>>,
    <<IntXZ, Changed(Scaled3, Arange("xr", 1, 6))>>>>

\* ---- 3-D reductions --------------------------------------------------------------------------
\* each program reduces its own slice
Reduced(shape, axis, R, tuple) ==
  LET out == RemoveAt(shape, axis + 1)
      red == IF tuple THEN Node("s", "reduce", <<"x", "ib">>, [axis |-> axis, combine |-> R, results |-> <<"sv", "s">>])
             ELSE Node("s", "reduce", <<"x">>, [axis |-> axis, combine |-> R])
      index == IF axis = 0 THEN <<1, 2>> ELSE IF axis = 1 THEN <<0, 2>> ELSE <<0, 0>>
  IN <<Bare("p", "program_id", <<>>), Const("n", <<>>, Product(shape)), Bare("pn", "muli", <<"p", "n">>), Bare("xb", "addptr", <<"X", "pn">>)>>
     \o Linear(InIds, "xb", shape) \o <<Bare("x", "load", <<"xp">>)>>
     \o (IF tuple THEN <<Arange("ir", 0, shape[axis + 1]), Moved("i1", "expand_dims", "ir", index[1]), Moved("i2", "expand_dims", "i1", index[2]),
                         Shaped("ib", "broadcast", "i2", shape)>> ELSE <<>>)
     \o <<red, Const("l", <<>>, Product(out)), Bare("pl", "muli", <<"p", "l">>), Bare("zb", "addptr", <<"Z", "pl">>)>>
     \o Linear(OutIds, "zb", out) \o <<Node("st", "store", <<"zp", "s">>, [float |-> ~tuple])>>
SumAll == Reduced(<<2, 2, 2>>, 1, PlainRegion("addf"), FALSE)
Scaling(at, by) == Preceded(SumAll, at, by)
Typed3(type) == <<Argument("X", TRUE, type), Argument("Z", TRUE, type)>>
Reduce3Graphs ==
  <<<<XZ, SumAll>>, <<XZ, Reduced(<<2, 1, 3>>, 0, PlainRegion("addf"), FALSE)>>, <<XZ, Reduced(<<2, 3, 2>>, 2, PlainRegion("maxnumf"), FALSE)>>,
    <<IntXZ, Reduced(<<2, 2, 3>>, 1, PlainRegion("minsi"), FALSE)>>,
    <<IntXZ, Reduced(<<3, 2, 1>>, 0, PairRegion("cmpi", "sgt", "eq"), TRUE)>>, <<XZ, Reduced(<<2, 1, 3>>, 2, PairRegion("cmpf", "olt", "oeq"), TRUE)>>,
    <<IntXZ, Reduced(<<1, 2, 2>>, 1, PairRegion("cmpi", "ugt", "eq"), TRUE)>>,
    <<XZ, Reduced(<<2, 2, 2>>, 1, PlainRegion("mulf"), FALSE)>>, <<IntXZ, Reduced(<<2, 2, 2>>, 1, PlainRegion("maxui"), FALSE)>>,
    <<Typed3("i64"), SumAll>>,
    <<XZ, Changed(Preceded(SumAll, "s", <<Bare("xx", "addf", <<"x", "x">>)>>), Node("s", "reduce", <<"xx">>, [axis |-> 1, combine |-> PlainRegion("addf")]))>>>>

\* ---- kernels ------------------------------------------------------------------------------------
LayoutNames == {"layout"}
LayoutKernel(source) ==
  LET G == GraphOf(source[1], source[2])
      many == Reduce3Applies(G)
  IN [name |-> "layout", graph |-> G, info |-> LayoutInfo(G), scalars |-> Plainly, threads |-> 2, simd |-> 2,
      groups |-> IF many THEN 2 ELSE 1, poison |-> FALSE]
LayoutAdmitted(k) == k.info.template \notin {"generic", "refused"}
LayoutSize == 24
LayoutArrays(k) ==
  [dev |-> [X |-> Input(2, LayoutSize), Z |-> Filled(LayoutSize, 0)],
   tg |-> [acc |-> Filled(8, NaN), input |-> Filled(LayoutSize, NaN), result |-> Filled(8, NaN)], reg |-> Plainly]
LayoutWant(k) == LET want == Meaning(k, LayoutArrays(k).dev) IN [Z |-> want.Z, X |-> want.X]
LayoutInstances ==
  LET all == FlipGraphs \o TransposeGraphs \o ChainGraphs \o Reduce3Graphs IN [i \in DOMAIN all |-> LayoutKernel(all[i])]

------------------------------------------------------------------------------
(***************************************************************************)
(* Row softmax and layer norm as a front end writes them, and rows that    *)
(* differ from one of them in a scale, a fill, a mask, an address or a     *)
(* stride.                                                                 *)
(***************************************************************************)
Spread(id, x, b) == Shaped(id, "splat", x, <<b>>)
FloatConst(id, b, x) == Node(id, "constant", <<>>, [shape |-> <<b>>, value |-> x, type |-> "f32"])
Folded(id, x, op) == Node(id, "reduce", <<x>>, [axis |-> 0, combine |-> PlainRegion(op)])
\* the row's address, its mask, the load
RowHead(b, fill) ==
  <<Node("p", "program_id", <<>>, [axis |-> 0]), Bare("pn", "muli", <<"p", "n">>), Spread("rs", "pn", b), Arange("cols", 0, b),
    Bare("off", "addi", <<"rs", "cols">>), Spread("xs", "X", b), Bare("xp", "addptr", <<"xs", "off">>),
    Spread("nb", "n", b), Node("mk", "cmpi", <<"cols", "nb">>, [pred |-> "slt"]),
    FloatConst("fill", b, fill), Bare("x", "load", <<"xp", "mk", "fill">>)>>
\* the output address, one addptr after the other
RowTail(b, value) ==
  <<Bare("zb", "addptr", <<"Z", "pn">>), Spread("zs", "zb", b), Bare("zp", "addptr", <<"zs", "cols">>), StoreOf("st", <<"zp", value, "mk">>)>>
SoftmaxBody(b) ==
  <<Folded("mx", "x", "maxnumf"), Spread("ms", "mx", b), Bare("d", "subf", <<"x", "ms">>), Bare("e", "exp", <<"d">>),
    Folded("s", "e", "addf"), Spread("ss", "s", b), Bare("y", "divf", <<"e", "ss">>)>>
LayerNormBody(b, eps) ==
  <<Folded("t", "x", "addf"), Node("nf", "sitofp", <<"n">>, [type |-> "f32"]), Bare("mu", "divf", <<"t", "nf">>), Spread("mus", "mu", b),
    Bare("d", "subf", <<"x", "mus">>), FloatConst("zero", b, 0), Bare("c", "select", <<"mk", "d", "zero">>), Bare("cc", "mulf", <<"c", "c">>),
    Folded("v", "cc", "addf"), Bare("vn", "divf", <<"v", "nf">>), Node("eps", "constant", <<>>, [shape |-> <<>>, value |-> eps, type |-> "f32"]),
    Bare("ve", "addf", <<"vn", "eps">>), Bare("r", "rsqrt", <<"ve">>), Spread("rr", "r", b), Bare("y", "mulf", <<"c", "rr">>)>>
SoftmaxOps(b) == RowHead(b, NegInf) \o SoftmaxBody(b) \o RowTail(b, "y")
LayerNormOps(b, eps) == RowHead(b, 0) \o LayerNormBody(b, eps) \o RowTail(b, "y")
HalfStore(ops, b) == Changed(Preceded(ops, "zb", <<Node("yh", "truncf", <<"y">>, [type |-> "f16"])>>), StoreOf("st", <<"zp", "yh", "mk">>))

RowArgs == XZ \o <<Argument("n", FALSE, "i32")>>
HalfArgs == <<XZ[1], Argument("Z", TRUE, "f16"), Argument("n", FALSE, "i32")>>
\* arguments, operations, row length
NormSources ==
  <<<<RowArgs, SoftmaxOps(4), 3>>, <<RowArgs, SoftmaxOps(8), 8>>, <<RowArgs, SoftmaxOps(4), 5>>, <<HalfArgs, HalfStore(SoftmaxOps(4), 4), 4>>,
    <<RowArgs, LayerNormOps(4, 2), 3>>, <<RowArgs, LayerNormOps(8, 5), 4>>, <<RowArgs, LayerNormOps(4, 2), 5>>, <<HalfArgs, HalfStore(LayerNormOps(4, 2), 4), 4>>,
    <<<<XZ[2], XZ[1], RowArgs[3]>>, SoftmaxOps(4), 2>>,
    \* a scaled input; a result scaled; another fill; another mask; one column further; a fixed stride; two lengths
    <<RowArgs, Changed(Preceded(SoftmaxOps(4), "d", <<Bare("x2", "addf", <<"x", "x">>)>>), Bare("d", "subf", <<"x2", "ms">>)), 3>>,
    <<RowArgs, Changed(Preceded(SoftmaxOps(4), "st", <<Bare("y2", "addf", <<"y", "y">>)>>), StoreOf("st", <<"zp", "y2", "mk">>)), 3>>,
    <<RowArgs, Changed(SoftmaxOps(4), FloatConst("fill", 4, 0)), 3>>,
    <<RowArgs, Changed(SoftmaxOps(4), Node("mk", "cmpi", <<"nb", "cols">>, [pred |-> "slt"])), 2>>,
    <<RowArgs, Changed(SoftmaxOps(4), Arange("cols", 1, 4)), 3>>,
    <<RowArgs, Changed(Preceded(SoftmaxOps(4), "pn", <<Const("c5", <<>>, 5)>>), Bare("pn", "muli", <<"p", "c5">>)), 3>>,
    <<RowArgs \o Passed, SoftmaxOps(4), 3>>,
    <<RowArgs, Changed(SoftmaxOps(4), Bare("zb", "addptr", <<"Z", "p">>)), 3>>,
    \* a variance of the raw values, not masked; the deviations times the variance; half precision in between
    <<RowArgs, Changed(LayerNormOps(4, 2), Bare("cc", "mulf", <<"d", "d">>)), 3>>,
    <<RowArgs, Changed(LayerNormOps(4, 2), Bare("ve", "mulf", <<"vn", "eps">>)), 3>>,
    <<RowArgs, Changed(Preceded(LayerNormOps(4, 2), "rr", <<Node("rh", "truncf", <<"r">>, [type |-> "f16"]), Node("rf", "extf", <<"rh">>, [type |-> "f32"])>>),
                       Spread("rr", "rf", 4)), 3>>>>
NormNames == {"norm"}
NormRows == 2
NormKernel(source) ==
  LET G == GraphOf(source[1], source[2]) IN
  [name |-> "norm", graph |-> G, info |-> NormVerdict(G), scalars |-> [n |-> source[3], s |-> 1], threads |-> 4, simd |-> 2,
   groups |-> NormRows, poison |-> FALSE]
NormAdmitted(k) == k.info.template \notin {"generic", "refused"}
NormSize(k) == (NormRows * k.scalars.n) + k.info.block
NormArrays(k) ==
  [dev |-> [X |-> Input(3, NormSize(k)), Z |-> Filled(NormSize(k), 0)],
   tg |-> [row_cache |-> Filled(k.info.block, NaN), reduce_buf |-> Filled(2, NaN)],
   reg |-> [local |-> Filled(4, NaN), part |-> Filled(4, NaN), total |-> Filled(4, NaN), mean |-> Filled(4, NaN)]]
NormWant(k) == [Z |-> Meaning(k, NormArrays(k).dev).Z]
NormInstances == [i \in DOMAIN NormSources |-> NormKernel(NormSources[i])]

------------------------------------------------------------------------------
(***************************************************************************)
(* Row sorts as the library writes them, in both directions, and graphs    *)
(* that the template must leave alone or refuse.                           *)
(***************************************************************************)
SwapIds ==
  <<<<"q1", "e1", "b1", "y1", "g1", "u1", "w1", "n1", "v1", "k1", "x1">>, <<"q2", "e2", "b2", "y2", "g2", "u2", "w2", "n2", "v2", "k2", "x2">>,
    <<"q3", "e3", "b3", "y3", "g3", "u3", "w3", "n3", "v3", "k3", "x3">>>>
Cube(n) == [d \in 1..n |-> 2]
\* 0 and 1 along one bit, counted from the last axis
BitAxis(n, b) == [d \in 1..n |-> IF d = n - b THEN 2 ELSE 1]
BitIds == <<"i0", "i1">>
BitMarks(n) == <<Arange("two", 0, 2), Shaped("i0", "reshape", "two", BitAxis(n, 0)), Shaped("i1", "reshape", "two", BitAxis(n, 1))>>
\* an exchange along bit b; the direction is fixed, or the next bit of the position
Exchange(j, from, n, b, direction) ==
  LET d == SwapIds[j]
      turn ==
        CASE direction = "up" -> <<Shaped(d[7], "broadcast", BitIds[b + 1], Cube(n))>>
          [] direction = "down" -> <<Const(d[10], BitAxis(n, b), 1), Bare(d[11], "xori", <<d[10], BitIds[b + 1]>>), Shaped(d[7], "broadcast", d[11], Cube(n))>>
          [] OTHER -> <<Shaped("m0", "broadcast", "i0", Cube(n)), Shaped("m1", "broadcast", "i1", Cube(n)), Bare(d[7], "xori", <<"m0", "m1">>)>>
  IN <<Node(d[1], "reduce", <<from>>, [axis |-> n - 1 - b, combine |-> XorRegion]), Moved(d[2], "expand_dims", d[1], n - 1 - b),
       Shaped(d[3], "broadcast", d[2], Cube(n)), Bare(d[4], "xori", <<from, d[3]>>),
       Node(d[5], "cmpi", <<from, d[4]>>, [pred |-> "sgt"]), Node(d[6], "extui", <<d[5]>>, [type |-> "i32"])>> \o turn
     \o <<Node(d[8], "cmpi", <<d[6], d[7]>>, [pred |-> "ne"]), Bare(d[9], "select", <<d[8], d[4], from>>)>>
ZTile == <<"zr", "ze", "zc", "zm", "zt", "zn", "zf", "zg", "zi", "zs", "zp">>
\* rows of two and of four
Swaps(n, width, last) ==
  IF width = 2 THEN Exchange(1, "up", n, 0, last)
  ELSE Exchange(1, "up", n, 0, "bit") \o Exchange(2, "v1", n, 1, last) \o Exchange(3, "v2", n, 0, last)
RowSort(rows, width, last, ldx, ldz) ==
  LET n == Log2(rows * width)
      final == IF width = 2 THEN "v1" ELSE "v3"
  IN Tile2(XTile, "X", <<rows, width>>, ldx) \o <<Bare("x", "load", <<"xp">>), Shaped("up", "reshape", "x", Cube(n))>> \o BitMarks(n) \o Swaps(n, width, last)
     \o <<Shaped("down", "reshape", final, <<rows, width>>)>> \o Tile2(ZTile, "Z", <<rows, width>>, ldz) \o <<StoreOf("st", <<"zp", "down">>)>>
SortTop(rows, width, k) ==
  Changed(RowSort(rows, width, "up", width, width), Shaped("down", "reshape", "v3", <<rows, k>>))
SortSources ==
  <<<<IntXZ, RowSort(4, 4, "up", 4, 4)>>, <<IntXZ, RowSort(4, 4, "down", 5, 4)>>, <<<<IntXZ[2], IntXZ[1]>>, RowSort(8, 2, "down", 2, 3)>>,
    <<IntXZ, RowSort(8, 2, "up", 2, 2)>>,
    \* rows too short for a cube; two distances; overlapping rows; an exchange across rows; a length passed
    <<IntXZ, RowSort(2, 4, "up", 4, 4)>>,
    <<IntXZ, Changed(Preceded(RowSort(4, 4, "up", 4, 4), "zt", <<Const("c2", <<4, 1>>, 2), Bare("zx", "muli", <<"ze", "c2">>), Bare("zy", "addi", <<"zm", "zx">>)>>),
                     Shaped("zt", "broadcast", "zy", <<4, 4>>))>>,
    <<IntXZ, RowSort(4, 4, "up", 3, 4)>>,
    <<IntXZ, Changed(RowSort(4, 4, "up", 4, 4), Node("q2", "reduce", <<"v1">>, [axis |-> 0, combine |-> XorRegion]))>>,
    <<IntXZ \o Passed, RowSort(4, 4, "up", 4, 4)>>>>
SortNames == {"sort"}
SortKernel(source) ==
  LET G == GraphOf(source[1], source[2]) IN
  [name |-> "sort", graph |-> G, info |-> SortInfo(G), scalars |-> [s |-> 1], threads |-> 8, simd |-> 2, groups |-> 1, poison |-> FALSE]
SortAdmitted(k) == k.info.template = "sort"
SortSize == 32
SortArrays(k) == [dev |-> [X |-> Input(5, SortSize), Z |-> Filled(SortSize, 0)], tg |-> Plainly, reg |-> Plainly]
SortWant(k) == [Z |-> Meaning(k, SortArrays(k).dev).Z]
SortInstances == [i \in DOMAIN SortSources |-> SortKernel(SortSources[i])]

------------------------------------------------------------------------------
(***************************************************************************)
(* Products as front ends write them: a single tile, and loops along K     *)
(* over streams or over k + range, on the grids programs use; and near     *)
(* misses the templates must not replace.                                  *)
(***************************************************************************)
\* ---- building products -------------------------------------------------------------------
\* a product: its tile, the strides of A, B, C, the grid, the loop and its masks
PlainDot ==
  [BM |-> 2, BN |-> 2, BK |-> 2, sa |-> <<Fixed(2), Fixed(1)>>, sb |-> <<Fixed(2), Fixed(1)>>, sc |-> <<Fixed(2), Fixed(1)>>,
   grid |-> "none", size |-> 2, loop |-> "none", kmask |-> TRUE, edges |-> FALSE, bound |-> "K", extent |-> "K", counted |-> FALSE, out |-> "f32", in |-> "f32", sum |-> "f32",
   before |-> <<>>, seed |-> 0, swap |-> FALSE, trans |-> {}, change |-> <<>>, names |-> {}, scalars |-> [M |-> 2, N |-> 2, K |-> 2, ld |-> 3],
   across |-> 1, groups |-> 1, frag |-> 1, limit |-> 1000]
DotWith(r) == r @@ PlainDot
Literal(id, x) == Const(id, <<>>, x)
DotCompare(id, a, b) == Node(id, "cmpi", <<a, b>>, [pred |-> "slt"])
\* tiles of a length: (extent + block - 1) div block
TilesOf(n, extent, block) == <<Literal(n \o "1", block - 1), Bare(n \o "2", "addi", <<extent, n \o "1">>), Literal(n \o "3", block), Bare(n, "divsi", <<n \o "2", n \o "3">>)>>
PidOps(s) ==
  CASE s.grid = "none" -> <<>>
    [] s.grid = "2d" -> <<Node("pm", "program_id", <<>>, [axis |-> 0]), Node("pn", "program_id", <<>>, [axis |-> 1])>>
    [] s.grid = "1d" -> <<Node("p", "program_id", <<>>, [axis |-> 0])>> \o TilesOf("tm", "M", s.BM) \o <<Bare("pm", "remsi", <<"p", "tm">>), Bare("pn", "divsi", <<"p", "tm">>)>>
    [] s.grid = "flat_n" -> <<Node("p", "program_id", <<>>, [axis |-> 0])>> \o TilesOf("tn", "N", s.BN) \o <<Bare("pm", "divsi", <<"p", "tn">>), Bare("pn", "remsi", <<"p", "tn">>)>>
    [] s.grid = "grouped" ->
         <<Node("p", "program_id", <<>>, [axis |-> 0])>> \o TilesOf("tm", "M", s.BM) \o TilesOf("tn", "N", s.BN)
         \o <<Literal("gs", s.size), Bare("span", "muli", <<"tn", "gs">>), Bare("gi", "divsi", <<"p", "span">>), Bare("first", "muli", <<"gi", "gs">>),
              Bare("rest", "subi", <<"tm", "first">>), Bare("high", "minsi", <<"rest", "gs">>), Bare("within", "remsi", <<"p", "span">>),
              Bare("wr", "remsi", <<"within", "high">>), Bare("pm", "addi", <<"first", "wr">>), Bare("pn", "divsi", <<"within", "high">>)>>
\* the rows or columns of a program's tile
Along(n, pid, block, moved) ==
  IF ~moved THEN <<Arange(n \o "x", 0, block)>>
  ELSE <<Literal(n \o "b", block), Bare(n \o "o", "muli", <<pid, n \o "b">>), Arange(n \o "g", 0, block), Shaped(n \o "s", "splat", n \o "o", <<block>>),
         Bare(n \o "x", "addi", <<n \o "s", n \o "g">>)>>
AxisPart(n, index, axis, stride, shape) ==
  LET thin == IF axis = 1 THEN <<shape[1], 1>> ELSE <<1, shape[2]>>
      scaled == stride # Fixed(1)
  IN <<Moved(n \o "e", "expand_dims", index, axis)>>
     \o (IF ~scaled THEN <<>>
         ELSE <<IF stride.arg = Untraced THEN Const(n \o "c", thin, stride.value) ELSE Shaped(n \o "c", "splat", stride.arg, thin),
                Bare(n \o "m", "muli", <<n \o "e", n \o "c">>)>>)
     \o <<Shaped(n \o "b", "broadcast", IF scaled THEN n \o "m" ELSE n \o "e", shape)>>
TileAddress(n, array, row, col, shape, strides) ==
  AxisPart(n \o "r", row, 1, strides[1], shape) \o AxisPart(n \o "c", col, 0, strides[2], shape)
  \o <<Bare(n \o "i", "addi", <<n \o "rb", n \o "cb">>), Shaped(n \o "s", "splat", array, shape), Bare(n \o "p", "addptr", <<n \o "s", n \o "i">>)>>
\* an index below a bound, as a mask of the tile
Under(n, index, axis, bound, shape) ==
  LET thin == IF axis = 1 THEN <<shape[1], 1>> ELSE <<1, shape[2]>> IN
  <<Moved(n \o "e", "expand_dims", index, axis), Shaped(n \o "s", "splat", bound, thin), DotCompare(n \o "k", n \o "e", n \o "s"), Shaped(n, "broadcast", n \o "k", shape)>>
ATile(s) == <<s.BM, s.BK>>
BTile(s) == <<s.BK, s.BN>>
CTile(s) == <<s.BM, s.BN>>
FloatZero(id, shape, type) == Node(id, "constant", <<>>, [shape |-> shape, value |-> 0, type |-> type])
Operand(n, s, load) ==
  <<Bare(n \o "l", "local_alloc", <<load>>)>>
  \o (IF n \in s.trans THEN <<Node(n \o "t", "memdesc_trans", <<n \o "l">>, [order |-> <<1, 0>>])>> ELSE <<>>)
  \o <<Bare(n \o "d", "local_load", <<IF n \in s.trans THEN n \o "t" ELSE n \o "l">>)>>
LoadsOf(s, pa, pb, ka, kb) ==
  IF s.loop = "none" \/ ~s.kmask THEN <<Bare("la", "load", <<pa>>), Bare("lb", "load", <<pb>>)>>
  ELSE Under("am", IF s.loop = "k" THEN "kk" ELSE "kx", 0, ka, ATile(s)) \o Under("bm", IF s.loop = "k" THEN "kk" ELSE "kx", 1, kb, BTile(s))
       \o <<FloatZero("az", ATile(s), s.in), FloatZero("bz", BTile(s), s.in), Bare("la", "load", <<pa, "am", "az">>), Bare("lb", "load", <<pb, "bm", "bz">>)>>
Multiply(s, acc) == Operand("a", s, "la") \o Operand("b", s, "lb") \o <<Bare("y", "dot", IF s.swap THEN <<"bd", "ad", acc>> ELSE <<"ad", "bd", acc>>)>>
StoreDot(s, value) ==
  TileAddress("c", "C", "mx", "nx", CTile(s), s.sc)
  \o (IF s.out = s.sum THEN <<>> ELSE <<Node("yh", "truncf", <<value>>, [type |-> s.out])>>)
  \o (IF ~s.edges THEN <<>> ELSE Under("cm", "mx", 1, "M", CTile(s)) \o Under("cn", "nx", 0, "N", CTile(s)) \o <<Bare("mk", "andi", <<"cm", "cn">>)>>)
  \o <<StoreOf("st", LET v == IF s.out = s.sum THEN value ELSE "yh" IN IF s.edges THEN <<"cp", v, "mk">> ELSE <<"cp", v>>)>>
Opening(s) ==
  PidOps(s) \o Along("m", "pm", s.BM, s.grid # "none") \o Along("n", "pn", s.BN, s.grid # "none") \o <<Arange("kx", 0, s.BK)>>
AddressA(s, k) == TileAddress("a", "A", "mx", k, ATile(s), s.sa)
AddressB(s, k) == TileAddress("b", "B", k, "nx", BTile(s), s.sb)
\* one turn's pointers: the block along K times that stride
Advance(n, from, stride, shape, s) ==
  (IF stride.arg = Untraced THEN <<Const(n \o "v", shape, s.BK * stride.value)>>
   ELSE <<Literal(n \o "w", s.BK), Bare(n \o "u", "muli", <<stride.arg, n \o "w">>), Shaped(n \o "v", "splat", n \o "u", shape)>>)
  \o <<Bare(n \o "n", "addptr", <<from, n \o "v">>)>>
Altered(ops, s) == FoldLeft(Changed, ops, s.change)
DotLoopBody(s) ==
  LET turn == IF s.counted THEN "kt" ELSE "k"
      scale == IF s.counted THEN <<Literal("kw", s.BK), Bare("kt", "muli", <<"k", "kw">>)>> ELSE <<>>
      body == scale
     \o (IF s.loop = "k"
         THEN <<Shaped("ks", "splat", turn, <<s.BK>>), Bare("kk", "addi", <<"kx", "ks">>)>> \o AddressA(s, "kk") \o AddressB(s, "kk")
              \o LoadsOf(s, "ap", "bp", s.extent, s.extent) \o Multiply(s, "acc") \o <<Bare("out", "yield", <<"y">>)>>
         ELSE <<Bare("left", "subi", <<s.extent, turn>>)>> \o LoadsOf(s, "pa", "pb", "left", "left") \o Multiply(s, "acc")
              \o Advance("a", "pa", s.sa[2], ATile(s), s) \o Advance("b", "pb", s.sb[1], BTile(s), s) \o <<Bare("out", "yield", <<"y", "an", "bn">>)>>)
  IN Altered(body, s)
LoopOps(s) ==
  <<Literal("k0", 0), Literal("k1", IF s.counted THEN 1 ELSE s.BK)>> \o s.before
  \o (IF s.loop = "k" THEN <<>> ELSE AddressA(s, "kx") \o AddressB(s, "kx"))
  \o <<Node("loop", "for", <<"k0", s.bound, "k1", "zero">> \o (IF s.loop = "k" THEN <<>> ELSE <<"ap", "bp">>),
            [region |-> DotLoopBody(s), blocks |-> IF s.loop = "k" THEN <<"k", "acc">> ELSE <<"k", "acc", "pa", "pb">>,
             results |-> IF s.loop = "k" THEN <<"z">> ELSE <<"z", "za", "zb">>])>>
DotOps(s) ==
  LET zero == <<Node("zero", "constant", <<>>, [shape |-> CTile(s), value |-> s.seed, type |-> s.sum])>> IN
  Altered(Opening(s) \o zero
  \o (IF s.loop = "none" THEN AddressA(s, "kx") \o AddressB(s, "kx") \o LoadsOf(s, "ap", "bp", "K", "K") \o Multiply(s, "zero") \o StoreDot(s, "y")
      ELSE LoopOps(s) \o StoreDot(s, "z")), s)
DotArgs(s) ==
  <<Argument("A", TRUE, s.in), Argument("B", TRUE, s.in), Argument("C", TRUE, s.out)>>
  \o SelectSeq(<<Argument("M", FALSE, "i32"), Argument("N", FALSE, "i32"), Argument("K", FALSE, "i32"), Argument("ld", FALSE, "i32")>>, LAMBDA a : a.id \in s.names)

\* ---- the instances -------------------------------------------------------------------------
Named3 == {"M", "N", "K"}
Sized(m, n, k) == [M |-> m, N |-> n, K |-> k, ld |-> k + 1]
Ragged == [M |-> 3, N |-> 3, K |-> 3, ld |-> 4]
DotWide == <<Runtime("K"), Fixed(1)>>
Across == <<Runtime("N"), Fixed(1)>>
OnGrid(kind, loop, r) == r @@ [grid |-> kind, loop |-> loop, names |-> Named3, edges |-> TRUE, sa |-> DotWide, sb |-> Across, sc |-> Across] @@ PlainDot
Tiled2d(loop, r) == OnGrid("2d", loop, r @@ [scalars |-> Ragged, across |-> 2, groups |-> 4])
\* tiles of one element, three rows of two: groups of two tile rows, the last of one
Unit(kind, loop, r) == OnGrid(kind, loop, r @@ [BM |-> 1, BN |-> 1, BK |-> 1, scalars |-> Sized(3, 2, 2), across |-> 6, groups |-> 6])
Wrapped(bound) == <<Shaped("wm", "splat", bound, <<2>>), Bare("wx", "remsi", <<"mx", "wm">>)>>
Near2d(loop, node, lengths) == Tiled2d(loop, [change |-> <<node>>, scalars |-> lengths])
DotSources ==
  <<\* the single tile: plain, in four squares, narrower than a square, transposed, rounded, of bytes, its operands exchanged
    PlainDot, DotWith([BM |-> 4, sa |-> <<Fixed(2), Fixed(1)>>]), DotWith([BN |-> 1, sb |-> <<Fixed(1), Fixed(1)>>, sc |-> <<Fixed(1), Fixed(1)>>]),
    DotWith([trans |-> {"b"}]), DotWith([trans |-> {"a"}]), DotWith([out |-> "f16"]), DotWith([in |-> "i8", out |-> "i32", sum |-> "i32"]), DotWith([swap |-> TRUE]),
    \* strided: columns apart, rows a runtime length apart, on a grid
    DotWith([sa |-> <<Fixed(1), Fixed(2)>>]), DotWith([names |-> {"ld"}, sb |-> <<Runtime("ld"), Fixed(1)>>]),
    Tiled2d("k", [sb |-> <<Fixed(1), Runtime("K")>>]),
    \* K loops over k + range and over streams, both tails, on each grid
    Tiled2d("k", Plainly), Tiled2d("stream", [groups |-> 2]), OnGrid("1d", "stream", [kmask |-> FALSE, scalars |-> Sized(3, 2, 3), across |-> 2, groups |-> 2]),
    Unit("1d", "k", Plainly), Unit("flat_n", "k", Plainly), Unit("grouped", "stream", Plainly),
    \* rounded output; a SIMD group without a column; addresses too far for fragments; a launch of full tiles; a constant length
    Tiled2d("k", [out |-> "f16", groups |-> 1, across |-> 1]), Tiled2d("k", [frag |-> 2, groups |-> 1, across |-> 1]), Tiled2d("k", [limit |-> 8]),
    Tiled2d("stream", [scalars |-> Sized(4, 2, 4), groups |-> 2]),
    DotWith([loop |-> "k", bound |-> "kc", extent |-> "kc", before |-> <<Literal("kc", 4)>>])>>
  \o
  <<\* rows wrapped at the extent they are clipped with, at another; a base moved by one; an accumulator that starts at one
    Tiled2d("k", [before |-> Wrapped("M"), change |-> <<Moved("are", "expand_dims", "wx", 1)>>]),
    Tiled2d("k", [before |-> Wrapped("N"), change |-> <<Moved("are", "expand_dims", "wx", 1)>>, scalars |-> Sized(3, 2, 2)]),
    Tiled2d("k", [before |-> <<Literal("one", 1), Bare("ao", "addptr", <<"A", "one">>)>>, change |-> <<Shaped("as", "splat", "ao", <<2, 2>>)>>]),
    DotWith([seed |-> 1]), Tiled2d("k", [seed |-> 1]),
    \* a load doubled; another bound in a mask; B not masked; ones outside; half a block forward; the product doubled, forgotten
    DotWith([change |-> <<Bare("al", "addf", <<"la", "la">>)>>]), Near2d("k", Shaped("ams", "splat", "M", <<1, 2>>), Sized(2, 2, 3)),
    Near2d("k", Bare("lb", "load", <<"bp">>), Ragged), Near2d("k", Node("az", "constant", <<>>, [shape |-> <<2, 2>>, value |-> 1, type |-> "f32"]), Ragged),
    Near2d("stream", Const("av", <<2, 2>>, 1), Ragged), DotWith([out |-> "f16", change |-> <<Node("yh", "addf", <<"y", "y">>, [type |-> "f16"])>>]),
    Near2d("k", Bare("out", "yield", <<"acc">>), Ragged),
    \* rows by the other program id, further apart, not moved in C; a range from one; a mask from above; tiles of the other extent
    Near2d("k", Bare("mo", "muli", <<"pn", "mb">>), Ragged), Near2d("k", Literal("mb", 1), Ragged), Near2d("k", Moved("cre", "expand_dims", "mg", 1), Ragged),
    DotWith([change |-> <<Arange("kx", 1, 2)>>]), Near2d("k", Node("cmk", "cmpi", <<"cme", "cms">>, [pred |-> "sge"]), Ragged),
    OnGrid("1d", "k", [scalars |-> Sized(3, 2, 2), across |-> 2, groups |-> 2, change |-> <<Bare("tm2", "addi", <<"N", "tm1">>)>>])>>
DotNames == {"dot"}
DotKernelOf(s, G, info) ==
  [name |-> "dot", graph |-> G, info |-> info, route |-> IF info.template = "dot" THEN DotRoute(info) ELSE "none", across |-> s.across,
   scalars |-> s.scalars, groups |-> s.groups, frag |-> s.frag, simd |-> 2, threads |-> 4, blocks |-> 2, rr |-> Top(1, s.BM \div s.frag),
   rc |-> CeilDiv(Top(1, s.BN \div s.frag), 2), half |-> s.out = "f16", limit |-> s.limit, tgbytes |-> 32768, poison |-> FALSE]
Inspected(s, G) == DotKernelOf(s, G, DotInfo(G))
DotKernel(s) == Inspected(s, GraphOf(DotArgs(s), DotOps(s)))
DotAdmitted(k) == k.info.template = "dot" /\ DotAdmits(k)
DotSize == 24
DotArrays(k) == [DotMemories(k) EXCEPT !.dev = [A |-> Input(3, DotSize), B |-> Input(5, DotSize), C |-> Filled(DotSize, 0)]]
DotWant(k) == [C |-> Meaning(k, DotArrays(k).dev).C]
DotInstances == [i \in DOMAIN DotSources |-> DotKernel(DotSources[i])]
==============================================================================

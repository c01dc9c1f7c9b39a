---------------------------- MODULE LayoutTemplates ----------------------------
(***************************************************************************)
(* Templates that replace a whole kernel because its data movement does    *)
(* not fit the per-thread model: flip, the two transposes, the permuted    *)
(* chain of sums and the 3-D reductions.  X...Matches is the detector      *)
(* (codegen/_lowerer_detection.py), which reads the graph; X...Code and    *)
(* its effects are the kernel that replaces it                             *)
(* (codegen/_lowerer_templates.py).                                        *)
(***************************************************************************)
EXTENDS TensorGraph

\* ---- walking a graph ------------------------------------------------------------------
OpsOf(G, names) == SelectSeq(G.all, LAMBDA o : o.op \in names)
TopOps(G, names) == SelectSeq(G.ops, LAMBDA o : o.op \in names)
The(G, name) == TopOps(G, {name})[1]
Single1(G, name) == Len(TopOps(G, {name})) = 1
Control == {"for", "while", "if"}
IsNode(G, id) == id \in DOMAIN G.node
IsOp(G, id, name) == IsNode(G, id) /\ G.node[id].op = name
PointerArgs(G) == SelectSeq(G.args, LAMBDA a : a.ptr)
IsPointer(G, id) == \E a \in Range(PointerArgs(G)) : a.id = id
Untraced == "nothing"
\* the loops' carried values and what each starts from
Carriers(G) == {o \in Range(G.all) : o.op = "for" /\ o.blocks # <<>>}
\* _trace_ptr_source: the first operands back to a pointer argument; a carried
\* value is crossed only when the caller asks for it
RECURSIVE PointerOf(_, _, _)
PointerOf(G, id, crossing) ==
  LET loops == {o \in Carriers(G) : crossing /\ \E j \in 2..Len(o.blocks) : o.blocks[j] = id}
      loop == CHOOSE o \in loops : TRUE
  IN CASE IsPointer(G, id) -> id
       [] IsNode(G, id) -> IF G.node[id].args = <<>> THEN Untraced ELSE PointerOf(G, G.node[id].args[1], crossing)
       [] loops # {} -> PointerOf(G, InitOf(loop, CHOOSE j \in 2..Len(loop.blocks) : loop.blocks[j] = id), crossing)
       [] OTHER -> Untraced
\* _resolve_load_store_ptr_roles
Roles(G, load, store) == <<PointerOf(G, load.args[1], FALSE), PointerOf(G, store.args[1], FALSE)>>
RolesKnown(G, load, store) == LET r == Roles(G, load, store) IN Untraced \notin Range(r) /\ r[1] # r[2]
\* back through operations of those names
RECURSIVE Through(_, _, _)
Through(G, id, names) ==
  IF IsNode(G, id) /\ G.node[id].op \in names /\ G.node[id].args # <<>> THEN Through(G, G.node[id].args[1], names) ELSE id

\* ---- flip: load, xor with the xor over each split axis, store --------------------------
FlipVocabulary ==
  {"constant", "addi", "subi", "muli", "divsi", "remsi", "andi", "ori", "xori", "cmpi", "select", "extsi", "trunci", "bitcast", "addptr",
   "broadcast", "expand_dims", "load", "make_range", "reduce", "reshape", "splat", "store", "convert_layout"}
ExactXor(o) ==
  LET R == o.combine IN
  /\ Len(R.args) = 2 /\ Len(R.ret) = 1 /\ Len(R.ops) = 1
  /\ R.ops[1].op = "xori" /\ R.ops[1].id = R.ret[1]
  /\ Len(R.ops[1].args) = 2 /\ Range(R.ops[1].args) = Range(R.args)
RECURSIVE Log2(_)
Log2(n) == IF n < 2 THEN 0 ELSE 1 + Log2(n \div 2)
SplitAt(shape, d) == SubSeq(shape, 1, d) \o [i \in 1..Log2(shape[d + 1]) |-> 2] \o SubSeq(shape, d + 2, 3)
FlipDims(G) ==
  LET load == The(G, "load")
      shape == G.shape[load.id]
      rs == TopOps(G, {"reshape"})
      reds == TopOps(G, {"reduce"})
  IN CASE Len(rs) = 2 ->
            {d \in 0..2 : /\ shape[d + 1] >= 2 /\ PowerOfTwo(shape[d + 1])
                          /\ G.shape[rs[1].args[1]] = shape /\ G.shape[rs[2].id] = shape
                          /\ G.shape[rs[1].id] = G.shape[rs[2].args[1]]
                          /\ G.shape[rs[1].id] = SplitAt(shape, d) /\ Len(reds) = Log2(shape[d + 1])}
       [] rs = <<>> -> {d \in 0..2 : /\ Len(reds) = 1 /\ reds[1].axis = d /\ G.shape[reds[1].args[1]] = shape /\ shape[d + 1] = 2}
       [] OTHER -> {}
FlipDim(G) == CHOOSE d \in FlipDims(G) : \A e \in FlipDims(G) : d <= e
\* the value after step j of the chain current -> reduce -> expand -> broadcast
\* -> xor with current; Untraced when the step is not exactly that
FlipStep(G, current, red, axis) ==
  LET uses(name, id) == SelectSeq(G.ops, LAMBDA o : o.op = name /\ o.args = <<id>>)
      expands == SelectSeq(uses("expand_dims", red.id), LAMBDA o : o.axis = axis)
      spreads == uses("broadcast", expands[1].id)
      mixes == SelectSeq(G.ops, LAMBDA o : o.op = "xori" /\ Len(o.args) = 2 /\ Range(o.args) = {current, spreads[1].id})
  IN IF /\ current # Untraced /\ red.args = <<current>> /\ red.axis = axis
        /\ Len(expands) = 1 /\ Len(spreads) = 1 /\ Len(mixes) = 1
     THEN mixes[1].id ELSE Untraced
\* the operand itself, or one bitcast of it
Fed(G, id, source) == id = source \/ (IsOp(G, id, "bitcast") /\ G.node[id].args = <<source>>)
FlipChain(G, d) ==
  LET load == The(G, "load")
      store == The(G, "store")
      rs == TopOps(G, {"reshape"})
      reds == TopOps(G, {"reduce"})
      first == IF rs = <<>> THEN reds[1] ELSE rs[1]
      start == IF rs = <<>> THEN first.args[1] ELSE rs[1].id
      mixed == FoldLeft(LAMBDA c, j : FlipStep(G, c, reds[j], d + j - 1), start, [j \in DOMAIN reds |-> j])
  IN /\ Fed(G, first.args[1], load.id)
     /\ mixed # Untraced
     /\ rs = <<>> \/ rs[2].args = <<mixed>>
     /\ Fed(G, store.args[2], IF rs = <<>> THEN mixed ELSE rs[2].id)
\* an index as a sum of ranges, each with its axis and coefficient
NotAffine == <<[axis |-> -1, start |-> 0, end |-> 0, coef |-> 0]>>
RECURSIVE AffineTerms(_, _)
AffineTerms(G, id) ==
  LET o == G.node[id]
      terms(j) == AffineTerms(G, o.args[j])
      literal(j) == IsOp(G, o.args[j], "constant")
      scaled(ts, c) == [i \in DOMAIN ts |-> [ts[i] EXCEPT !.coef = @ * c]]
      known(j) == terms(j) # NotAffine
  IN CASE ~IsNode(G, id) -> NotAffine
       [] o.op \in {"broadcast", "convert_layout"} -> terms(1)
       [] o.op = "expand_dims" /\ known(1) -> [i \in DOMAIN terms(1) |-> [terms(1)[i] EXCEPT !.axis = @ + Truth(o.axis <= @)]]
       [] o.op = "make_range" -> <<[axis |-> 0, start |-> o.start, end |-> o.end, coef |-> 1]>>
       [] o.op = "addi" /\ known(1) /\ known(2) -> terms(1) \o terms(2)
       [] o.op = "muli" /\ literal(1) /\ known(2) -> scaled(terms(2), G.node[o.args[1]].value)
       [] o.op = "muli" /\ literal(2) /\ known(1) -> scaled(terms(1), G.node[o.args[2]].value)
       [] OTHER -> NotAffine
DenseAddress(G, load, store) ==
  LET shape == G.shape[load.id]
      from == G.node[load.args[1]]
      to == G.node[store.args[1]]
      base(p) == IsOp(G, p.args[1], "splat") /\ IsPointer(G, G.node[p.args[1]].args[1])
      terms == AffineTerms(G, from.args[2])
  IN /\ from.op = "addptr" /\ to.op = "addptr" /\ from.args[2] = to.args[2]
     /\ base(from) /\ base(to)
     /\ Len(terms) = 3
     /\ Range(terms) = {[axis |-> d - 1, start |-> 0, end |-> shape[d], coef |-> RowMajor(shape)[d]] : d \in 1..3}
FlipMatches(G) ==
  /\ \A o \in Range(G.all) : o.op \in FlipVocabulary
  /\ Single1(G, "load") /\ Single1(G, "store")
  /\ Len(The(G, "load").args) = 1 /\ Len(The(G, "store").args) = 2
  /\ TopOps(G, {"reduce"}) # <<>> /\ \A r \in Range(TopOps(G, {"reduce"})) : ExactXor(r)
  /\ Len(G.shape[The(G, "load").id]) = 3
  /\ FlipDims(G) # {} /\ FlipChain(G, FlipDim(G))
  /\ DenseAddress(G, The(G, "load"), The(G, "store"))
  /\ RolesKnown(G, The(G, "load"), The(G, "store"))
FlipInfo(G) ==
  [template |-> "flip", shape |-> G.shape[The(G, "load").id], dim |-> FlipDim(G) + 1,
   in |-> Roles(G, The(G, "load"), The(G, "store"))[1], out |-> Roles(G, The(G, "load"), The(G, "store"))[2]]

\* ---- a 2-D transpose spelled reshape, permute, reshape -------------------------------
\* Only shapes are compared: the order of the permutation is read off them.
TransposeMatches(G) ==
  LET load == The(G, "load")
      rs == TopOps(G, {"reshape"})
      M == G.shape[load.id][1]
      split == G.shape[rs[1].id]
  IN /\ TopOps(G, Control \cup {"reduce", "scan", "dot"}) = <<>>
     /\ Single1(G, "load") /\ Single1(G, "store") /\ Single1(G, "trans") /\ Len(rs) = 2
     /\ Len(G.shape[load.id]) = 2
     /\ Len(split) = 4 /\ split[1] = M /\ split[4] = 2 /\ split[2] * split[3] * 2 = G.shape[load.id][2]
     /\ G.shape[The(G, "trans").id] = <<split[2], split[3], 2, M>>
     /\ G.shape[rs[2].id] = <<Product(G.shape[load.id])>>
     /\ RolesKnown(G, load, The(G, "store"))
TransposeInfo(G) ==
  LET load == The(G, "load")
      r == Roles(G, load, The(G, "store"))
  IN [template |-> "transpose", shape |-> G.shape[load.id], in |-> r[1], out |-> r[2]]

\* ---- any N-D transpose: load, layout, permute, layout, store --------------------------
LayoutOnly == {"reshape", "convert_layout"}
NdOrder(G) == The(G, "trans").order
NdShape(G) == G.shape[The(G, "trans").args[1]]
NdMatches(G) ==
  /\ TopOps(G, Control \cup {"reduce", "scan", "dot"}) = <<>>
  /\ Single1(G, "load") /\ Single1(G, "store") /\ Single1(G, "trans")
  /\ Through(G, The(G, "trans").args[1], LayoutOnly) = The(G, "load").id
  /\ Through(G, The(G, "store").args[2], LayoutOnly) = The(G, "trans").id
  /\ Len(NdShape(G)) >= 3
  /\ Len(NdOrder(G)) = Len(NdShape(G)) /\ Range(NdOrder(G)) = 0..(Len(NdShape(G)) - 1)
  /\ RolesKnown(G, The(G, "load"), The(G, "store"))
NdRefuses(G) == OpsOf(G, {"program_id"}) # <<>>
NdInfo(G) ==
  LET r == Roles(G, The(G, "load"), The(G, "store")) IN
  [template |-> "ndtrans", shape |-> NdShape(G), order |-> NdOrder(G), in |-> r[1], out |-> r[2]]

\* ---- a permuted tensor summed over several axes ---------------------------------------
Promotions == {"extsi", "trunci", "convert_layout", "reshape", "bitcast"}
IsSum(o) == Classify(o.combine, 1).kind \in {"sum", "isum"}
\* the axes of the reductions from the store back, and where they end
RECURSIVE ReduceChain(_, _, _)
ReduceChain(G, id, axes) ==
  LET at == Through(G, id, Promotions) IN
  IF IsOp(G, at, "reduce") /\ IsSum(G.node[at]) THEN ReduceChain(G, G.node[at].args[1], <<G.node[at].axis>> \o axes)
  ELSE [axes |-> axes, end |-> at]
\* addptr(base, a range from zero)
RangeAddress(G, id) ==
  /\ IsOp(G, id, "addptr")
  /\ LET r == Through(G, G.node[id].args[2], {"reshape", "convert_layout", "extsi"}) IN IsOp(G, r, "make_range") /\ G.node[r].start = 0
Surviving(order, axes) == FoldLeft(LAMBDA rest, a : RemoveAt(rest, a + 1), order, axes)
Fits(order, axes) == \A j \in DOMAIN axes : axes[j] < Len(order) - (j - 1)
IntegerType(t) == t \in {"i1", "i8", "i16", "i32", "i64", "u8", "u16", "u32", "u64"}
ChainMatches(G) ==
  /\ TopOps(G, Control \cup {"num_programs", "program_id"}) = <<>>
  /\ Single1(G, "load") /\ Single1(G, "store") /\ Single1(G, "trans")
  /\ LET load == The(G, "load")
         store == The(G, "store")
         trans == The(G, "trans")
         chain == ReduceChain(G, store.args[2], <<>>)
     IN /\ chain.end = trans.id /\ chain.axes # <<>>
        /\ trans.args[1] = load.id
        /\ RolesKnown(G, load, store)
        /\ RangeAddress(G, load.args[1]) /\ RangeAddress(G, store.args[1])
        /\ Len(G.shape[load.id]) >= 2
        /\ Len(trans.order) = Len(G.shape[load.id]) /\ Range(trans.order) = 0..(Len(trans.order) - 1)
        /\ Fits(trans.order, chain.axes) /\ Len(chain.axes) < Len(trans.order)
        /\ IntegerType(G.type[load.id])
ChainInfo(G) ==
  LET load == The(G, "load")
      r == Roles(G, load, The(G, "store"))
      shape == G.shape[load.id]
      rest == Surviving(The(G, "trans").order, ReduceChain(G, The(G, "store").args[2], <<>>).axes)
      kept == [j \in DOMAIN rest |-> shape[rest[j] + 1]]
  IN [template |-> "chain", shape |-> shape, in |-> r[1], out |-> r[2], total |-> Product(shape), kept |-> Product(kept),
      terms |-> [j \in DOMAIN rest |-> <<RowMajor(shape)[rest[j] + 1], kept[j], RowMajor(kept)[j]>>]]

\* ---- a reduction of a 3-D tensor along one axis ----------------------------------------
\* The detector reads the reduction and its operand; what the kernel does with
\* the result, its addresses and masks are not looked at.
Cubes(G) == SelectSeq(G.ops, LAMBDA o : o.op = "reduce" /\ Len(G.shape[o.args[1]]) = 3)
Reduce3Applies(G) ==
  /\ TopOps(G, {"for", "num_programs", "dot"}) = <<>>
  /\ Len(TopOps(G, {"reduce"})) = 1
  /\ Cubes(G) # <<>>
Reduce3Kind(G) ==
  LET o == Cubes(G)[1] IN
  IF Len(o.args) >= 2 THEN ArgMinMax(o.combine, ~IntegerType(G.type[o.args[1]])) ELSE Classify(o.combine, 3)
Reduce3Sound(G) ==
  LET o == Cubes(G)[1]
      kind == Reduce3Kind(G)
  IN /\ IsOp(G, Through(G, o.args[1], LayoutOnly), "load")
     /\ IF kind.kind = "arg" THEN ~kind.unsigned ELSE Len(o.args) = 1 /\ kind.kind \in {"sum", "isum", "max", "min"}
     /\ G.type[o.args[1]] \notin {"i64", "u64"}
Reduce3Info(G) ==
  LET o == Cubes(G)[1] IN
  [template |-> "reduce3", shape |-> G.shape[o.args[1]], axis |-> o.axis, kind |-> Reduce3Kind(G),
   in |-> PointerArgs(G)[1].id, out |-> PointerArgs(G)[2].id]

\* ---- the kernels ------------------------------------------------------------------------
CopyCode == <<Run("move")>>
\* flip: the coordinate along the flipped axis is counted from the other end
FlipSource(n, e) ==
  LET c == Coords(n.shape, e) IN FlatIndex(n.shape, [c EXCEPT ![n.dim] = n.shape[n.dim] - 1 - @])
TransposeSource(n, e) == ((e % n.shape[1]) * n.shape[2]) + (e \div n.shape[1])
NdSource(n, e) ==
  LET c == Coords([d \in DOMAIN n.order |-> n.shape[n.order[d] + 1]], e) IN
  FoldLeft(LAMBDA x, d : x + (c[d] * RowMajor(n.shape)[n.order[d] + 1]), 0, [d \in DOMAIN c |-> d])
MoveEffect(k, t, v) ==
  LET n == k.info
      source(e) == CASE n.template = "flip" -> FlipSource(n, e)
                     [] n.template = "transpose" -> TransposeSource(n, e)
                     [] OTHER -> NdSource(n, e)
  IN n.out :> [e \in Mine(k, t, Product(n.shape)) |-> At(v[n.in], source(e))]

\* the permutation is folded into the index of an accumulator each element adds to
ChainRounds(k) == CeilDiv(k.info.total, k.threads)
ChainCode(k) ==
  <<Run("zero"), Barrier>> \o [r \in 1..ChainRounds(k) |-> [kind |-> "atomic", do |-> "scatter", i |-> r - 1]]
  \o <<Barrier, Run("put")>>
ChainCell(n, i) == FoldLeft(LAMBDA x, p : x + (((i \div p[1]) % p[2]) * p[3]), 0, n.terms)
ChainEffect(k, i, t, v) ==
  LET n == k.info
      e == (i.i * k.threads) + t
      cell == ChainCell(n, e)
  IN CASE i.do = "zero" -> "acc" :> [c \in Mine(k, t, n.kept) |-> 0]
       [] i.do = "scatter" -> IF e < n.total THEN Put("acc", cell, v.acc[cell] + v[n.in][e]) ELSE Nothing
       [] i.do = "put" -> n.out :> [c \in Mine(k, t, n.kept) |-> v.acc[c]]

Reduce3Code == <<Run("stage"), Barrier, Run("fold"), Barrier, Run("put")>>
Reduce3Line(n, r) ==
  LET M == n.shape[1]
      N == n.shape[2]
      K == n.shape[3]
  IN [a \in 0..(n.shape[n.axis + 1] - 1) |->
        CASE n.axis = 0 -> (a * N * K) + r
          [] n.axis = 1 -> ((r \div K) * N * K) + (a * K) + (r % K)
          [] OTHER -> (r * K) + a]
Best(largest, f) ==
  FoldLeft(LAMBDA b, a : IF Picked(f[a] > b.v, f[a] < b.v, largest) \/ (f[a] = b.v /\ a < b.i) THEN [v |-> f[a], i |-> a] ELSE b,
           [v |-> Picked(NegInf, -NegInf, largest), i |-> 0], [j \in 1..Cardinality(DOMAIN f) |-> j - 1]).i
Reduce3Effect(k, g, i, t, v) ==
  LET n == k.info
      total == Product(n.shape)
      results == total \div n.shape[n.axis + 1]
      along(r) == LET line == Reduce3Line(n, r) IN [a \in DOMAIN line |-> v.input[line[a]]]
  IN CASE i.do = "stage" -> "input" :> [e \in Mine(k, t, total) |-> At(v[n.in], (g * total) + e)]
       [] i.do = "fold" ->
            "result" :> [r \in Mine(k, t, results) |->
                           IF n.kind.kind = "arg" THEN Best(n.kind.largest, along(r)) ELSE Combine(n.kind.kind, along(r))]
       [] i.do = "put" -> n.out :> Table([c \in {(g * results) + r : r \in Mine(k, t, results)} |-> v.result[c - (g * results)]])

\* ---- GenericLowerer.lower: the first detector that claims the graph ------------------------
LayoutVerdict(G) ==
  CASE FlipMatches(G) -> "flip"
    [] TransposeMatches(G) -> "transpose"
    [] NdMatches(G) -> IF NdRefuses(G) THEN "refused" ELSE "ndtrans"
    [] ChainMatches(G) -> "chain"
    [] Reduce3Applies(G) -> IF Reduce3Sound(G) THEN "reduce3" ELSE "refused"
    [] OTHER -> "generic"
LayoutInfo(G) ==
  CASE LayoutVerdict(G) = "flip" -> FlipInfo(G)
    [] LayoutVerdict(G) = "transpose" -> TransposeInfo(G)
    [] LayoutVerdict(G) = "ndtrans" -> NdInfo(G)
    [] LayoutVerdict(G) = "chain" -> ChainInfo(G)
    [] LayoutVerdict(G) = "reduce3" -> Reduce3Info(G)
    [] OTHER -> [template |-> LayoutVerdict(G)]
LayoutCode(k) ==
  CASE k.info.template = "chain" -> ChainCode(k)
    [] k.info.template = "reduce3" -> Reduce3Code
    [] OTHER -> CopyCode
LayoutEffect(k, g, i, t, v) ==
  CASE k.info.template = "chain" -> ChainEffect(k, i, t, v)
    [] k.info.template = "reduce3" -> Reduce3Effect(k, g, i, t, v)
    [] OTHER -> MoveEffect(k, t, v)
==============================================================================

--------------------------- MODULE ReduceLowering ----------------------------
(***************************************************************************)
(* The combine region of a tt.reduce or tt.scan (codegen/_lowerer_reduce): *)
(* what it computes, and how the lowerer classifies it.  A region is       *)
(*   args  its block arguments, the left operand's slots then the right's  *)
(*   ops   its operations in order: [id, op, args, pred]                   *)
(*   ret   the ids it returns, one per slot                                *)
(* The classification is by structure; Evaluate is what the region means,  *)
(* and what a reduction that was admitted must compute.                    *)
(***************************************************************************)
EXTENDS Threadgroup

Op(id, op, args) == [id |-> id, op |-> op, args |-> args, pred |-> ""]
Cmp(id, op, pred, args) == [id |-> id, op |-> op, args |-> args, pred |-> pred]
Region(args, ops, ret) == [args |-> args, ops |-> ops, ret |-> ret]
Refused == [kind |-> "none"]

\* the binary operations that are a reduction when applied to exactly the two
\* block arguments: the fold each is, its type and sign included
DirectFold ==
  [addf |-> "sum", addi |-> "isum", mulf |-> "prod", muli |-> "iprod", maxnumf |-> "max", minnumf |-> "min",
   maxsi |-> "max", minsi |-> "min", maxui |-> "umax", minui |-> "umin", xori |-> "xor", andi |-> "and", ori |-> "or",
   maximumf |-> "nanmax", minimumf |-> "nanmin"]

\* ---- what a region computes -------------------------------------------------
IntCompare(pred, x, y) ==
  CASE pred = "sgt" -> x > y
    [] pred = "slt" -> x < y
    [] pred = "ugt" -> Unsigned(x) > Unsigned(y)
    [] pred = "ult" -> Unsigned(x) < Unsigned(y)
    [] pred = "eq" -> x = y
Truth(b) == IF b THEN 1 ELSE 0
Apply(o, x) ==
  CASE o.op \in DOMAIN DirectFold -> Fold2(DirectFold[o.op], x[1], x[2])
    [] o.op = "subf" -> Sub(x[1], x[2])
    [] o.op = "divf" -> Div(x[1], x[2])
    [] o.op = "cmpf" -> Truth(FloatCompare(o.pred, x[1], x[2]))
    [] o.op = "cmpi" -> Truth(IntCompare(o.pred, x[1], x[2]))
    [] o.op = "select" -> Picked(x[2], x[3], x[1] = 1)
\* the values the region returns for the given values of its arguments; "zero"
\* is the constant defined outside it
Evaluate(R, values) ==
  LET start == [a \in Range(R.args) |-> values[CHOOSE j \in DOMAIN R.args : R.args[j] = a]] @@ ("zero" :> 0)
      step(env, o) == (o.id :> Apply(o, [j \in DOMAIN o.args |-> env[o.args[j]]])) @@ env
      final == FoldLeft(step, start, R.ops)
  IN [j \in DOMAIN R.ret |-> final[R.ret[j]]]

\* ---- classify_reduce_combine: one operand ------------------------------------
Producers(R, ids) == {o \in Range(R.ops) : o.id \in ids}
\* a comparison of the two arguments, possibly or-ed with an isnan of one
Conditions(R, sel) ==
  LET cond == Producers(R, {sel.args[1]}) IN
  UNION {IF o.op = "ori" /\ Len(o.args) = 2 THEN Producers(R, Range(o.args)) ELSE {o} : o \in cond}
Comparisons(R, sel) ==
  {o \in Conditions(R, sel) : o.op \in {"cmpf", "cmpi"} /\ Range(o.args) = Range(R.args)}
NanTests(R, sel) ==
  {o \in Conditions(R, sel) :
     o.op = "cmpf" /\ o.pred = "une" /\ Len(o.args) = 2 /\ o.args[1] = o.args[2] /\ o.args[1] \in Range(R.args)}
Guarded(R, sel) == \E o \in Producers(R, {sel.args[1]}) : o.op = "ori"
SideOf(R, id) == IF id = R.args[1] THEN "a" ELSE "b"
\* An integer comparison is a symmetric max or min; a float one keeps the choice
\* of the operand, and only when it compares them in source order.
FromCompare(R, sel, cmp, rank) ==
  LET greater == cmp.pred \in {"ogt", "oge", "sgt", "sge", "ugt", "uge"}
      unsigned == cmp.pred \in {"ugt", "uge", "ult", "ule"}
      largest == greater <=> sel.args[2] = cmp.args[1]
      nans == NanTests(R, sel)
  IN IF cmp.op = "cmpi"
     THEN [kind |-> IF unsigned THEN Picked("umax", "umin", largest) ELSE Picked("max", "min", largest)]
     ELSE IF cmp.pred \notin {"ogt", "oge", "olt", "ole"} \/ cmp.args # R.args \/ rank \notin {1, 2} THEN Refused
     ELSE [kind |-> "ordered", pred |-> cmp.pred, side |-> SideOf(R, sel.args[2]),
           nan |-> IF nans = {} THEN "none" ELSE SideOf(R, (CHOOSE o \in nans : TRUE).args[1])]
CmpSelect(R, sel, rank) ==
  LET cmps == Comparisons(R, sel) IN
  IF \/ {sel.args[2], sel.args[3]} # Range(R.args)
     \/ cmps = {}
     \/ Guarded(R, sel) /\ NanTests(R, sel) = {}
  THEN Refused
  ELSE FromCompare(R, sel, CHOOSE o \in cmps : TRUE, rank)
Classify(R, rank) ==
  IF R.ops = <<>> \/ Len(R.args) # 2 THEN Refused
  ELSE LET top == Last(R.ops) IN
       CASE R.ret # <<top.id>> -> Refused
         [] Range(top.args) = Range(R.args) -> IF top.op \in DOMAIN DirectFold THEN [kind |-> DirectFold[top.op]] ELSE Refused
         [] top.op = "select" /\ Len(top.args) = 3 -> CmpSelect(R, top, rank)
         [] OTHER -> Refused


\* ---- the exact Welford recurrence: three operands ------------------------------
Computes(R, id, op, l, r) == \E o \in Range(R.ops) : o.id = id /\ o.op = op /\ o.args = <<l, r>>
\* the id of the one operation of that form, or "none"
Unique(R, op, l, r) ==
  LET ids == {o.id : o \in {p \in Range(R.ops) : p.op = op /\ p.args = <<l, r>>}}
  IN IF Cardinality(ids) = 1 THEN CHOOSE x \in ids : TRUE ELSE "none"
ZeroGuards(R, raw, total) ==
  {s \in Range(R.ops) :
     /\ s.op = "select" /\ s.args[3] = raw /\ s.args[2] = "zero"
     /\ \E c \in Producers(R, {s.args[1]}) : c.op = "cmpf" /\ c.pred = "oeq" /\ c.args = <<total, "zero">>}
WelfordMode(R) ==
  LET A == R.args
      weight == R.ret[3]
      delta == Unique(R, "subf", A[4], A[1])
      raw == Unique(R, "divf", A[6], weight)
      guards == ZeroGuards(R, raw, weight)
      ratio == IF guards = {} THEN raw ELSE (CHOOSE s \in guards : TRUE).id
      correction == Unique(R, "mulf", delta, ratio)
      base == Unique(R, "addf", A[2], A[5])
      weighted == Unique(R, "mulf", Unique(R, "mulf", delta, delta), A[3])
      spread == Unique(R, "mulf", weighted, ratio)
  IN IF /\ Len(A) = 6 /\ Len(R.ret) = 3
        /\ "none" \notin {delta, raw, correction, base, weighted, spread}
        /\ Computes(R, weight, "addf", A[3], A[6])
        /\ Computes(R, R.ret[1], "addf", A[1], correction)
        /\ Computes(R, R.ret[2], "addf", base, spread)
     THEN [kind |-> IF guards = {} THEN "unguarded" ELSE "guarded"]
     ELSE Refused

\* ---- the exact argmin/argmax recurrence: a value and an index --------------------
PairSelect(R, j) ==
  {s \in Producers(R, {R.ret[j]}) : s.op = "select" /\ SubSeq(s.args, 2, 3) = <<R.args[j], R.args[2 + j]>>}
Ties(R, parts, compare, equal) ==
  {o \in parts :
     /\ o.op = "andi"
     /\ \E e \in Producers(R, Range(o.args)) :
          e.op = compare /\ e.pred = equal /\ e.args \in {<<R.args[1], R.args[3]>>, <<R.args[3], R.args[1]>>}
     /\ \E l \in Producers(R, Range(o.args)) :
          l.op = "cmpi" /\ l.pred = "slt" /\ l.args = <<R.args[2], R.args[4]>>}
ArgMinMax(R, float) ==
  LET compare == IF float THEN "cmpf" ELSE "cmpi"
      conds == {c \in Producers(R, {s.args[1] : s \in PairSelect(R, 1)}) : c.op = "ori" /\ Len(c.args) = 2}
      parts == UNION {Producers(R, Range(c.args)) : c \in conds}
      wins == {o \in parts : o.op = compare /\ o.args = <<R.args[1], R.args[3]>>}
      preds == IF float THEN {"ogt", "olt"} ELSE {"sgt", "slt", "ugt", "ult"}
      pred == (CHOOSE o \in wins : TRUE).pred
  IN IF /\ Len(R.args) = 4 /\ Len(R.ret) = 2
        /\ PairSelect(R, 1) # {} /\ PairSelect(R, 2) # {}
        /\ {s.args[1] : s \in PairSelect(R, 1)} = {s.args[1] : s \in PairSelect(R, 2)}
        /\ wins # {} /\ Ties(R, parts, compare, IF float THEN "oeq" ELSE "eq") # {}
        /\ pred \in preds
     THEN [kind |-> "arg", largest |-> pred \in {"ogt", "sgt", "ugt"}, unsigned |-> pred \in {"ugt", "ult"}]
     ELSE Refused

------------------------------------------------------------------------------
(***************************************************************************)
(* What the native walker recorded of the values a reduction or scan reads *)
(* and makes, and the proof the lowering asks of it before it emits        *)
(* anything (codegen/_lowerer_reduce.py).  A record of facts is            *)
(*   tensor, shape, layout, sig   the type: its element signature in sig   *)
(*   owned   the producer, position, block and function it names are those *)
(*           the graph implies, and its type is known                      *)
(* An op's contract c holds one record per operand, result, block argument,*)
(* returned value and body result, and the axis.                           *)
(***************************************************************************)
\* the claims of a metadata record against the ownership graph
OwnedBy(meta, expected, owners) ==
  /\ meta.kind = expected.kind /\ meta.producer = expected.producer /\ meta.index = expected.index
  /\ meta.func = expected.func /\ meta.known
  /\ owners[expected.block] \in {"unbound", meta.owner}
Numeric == {"f16", "f32", "i1", "i8", "i16", "i32", "i64"}
Scalar(f, sig) == ~f.tensor /\ f.shape = <<>> /\ f.sig = sig
AllOwned(c) == \A f \in Range(c.operands \o c.results \o c.blocks \o c.returns \o c.body) : f.owned
Arity(c) ==
  LET n == Len(c.operands) IN n > 0 /\ Len(c.results) = n /\ Len(c.blocks) = 2 * n /\ Len(c.returns) = n
\* both halves of every slot keep its representation through the returned value
RegionTyped(c) ==
  LET n == Len(c.operands) IN
  /\ \A j \in 1..n : \A f \in {c.blocks[j], c.blocks[n + j], c.returns[j]} : Scalar(f, c.operands[j].sig)
  /\ \A f \in Range(c.body) : f.sig \in Numeric
SameOperands(c) == \A f \in Range(c.operands) : f.tensor /\ f.shape = c.operands[1].shape /\ f.sig \in Numeric
AxisIn(c) == c.axis \in 1..Len(c.operands[1].shape)

ScanContract(c) ==
  /\ Arity(c) /\ AllOwned(c) /\ SameOperands(c)
  /\ Len(c.operands[1].shape) \in {1, 2}
  /\ \A j \in DOMAIN c.operands :
       c.results[j].tensor /\ c.results[j].shape = c.operands[j].shape /\ c.results[j].sig = c.operands[j].sig
  /\ RegionTyped(c) /\ AxisIn(c)
ReduceContract(c) ==
  LET shape == c.operands[1].shape
      remaining == RemoveAt(shape, c.axis)
  IN /\ Arity(c) /\ AllOwned(c) /\ SameOperands(c) /\ shape # <<>> /\ AxisIn(c)
     /\ \A f \in Range(c.operands) : f.layout = c.operands[1].layout
     /\ \A j \in DOMAIN c.results :
          /\ c.results[j].shape = remaining /\ c.results[j].tensor = (remaining # <<>>)
          /\ c.results[j].layout = c.results[1].layout /\ c.results[j].sig = c.operands[j].sig
     /\ RegionTyped(c)

------------------------------------------------------------------------------
(***************************************************************************)
(* The lowering of tt.reduce (codegen/_lowerer_reduce.py): which path an   *)
(* op takes, what it refuses, and the code each path emits.  The kernel    *)
(* loads a tile of shape k.shape, reduces it along k.axes one after the    *)
(* other, k.trips times when that is in a loop, and consumes the result    *)
(* (k.use).  acc holds a thread's value before and after each stage.       *)
(***************************************************************************)
ReduceRegNames == ReduceRegs \cup {"m2", "wt", "idx", "carry", "scale"}
Do(d, j, s) == [kind |-> "run", do |-> d, trip |-> j, s |-> s]
DoLanes(d, i) == [kind |-> "lanes", do |-> d, i |-> i]

Product(s) == FoldLeft(LAMBDA x, y : x * y, 1, s)
TileSize(k) == Product(k.shape)
InLoop(k) == k.trips > 0
Trips(k) == Top(1, k.trips)
\* the shape a stage reduces
ShapeAt(k, s) == FoldLeft(LAMBDA shape, axis : RemoveAt(shape, axis + 1), k.shape, SubSeq(k.axes, 1, s - 1))
KindAt(k, s) == Classify(k.region, Len(ShapeAt(k, s)))
Ordered(k, s) == KindAt(k, s).kind = "ordered"
Is64(k) == k.type = "i64"
Half(k) == k.type \in {"f16", "bf16"}

\* ---- the fold of one thread ---------------------------------------------------
\* a register array folds from its first element; there is no default combine
MeptFold(op, xs) == FoldLeft(LAMBDA x, y : Fold2(op, x, y), xs[1], Tail(xs))
MeptOps == {"sum", "isum", "prod", "iprod", "max", "min", "umax", "umin", "xor", "and", "or", "nanmax", "nanmin"}
\* accumulating from the identity of the accumulator's type
SequentialFold(op, xs) == FoldLeft(LAMBDA x, y : Fold2(op, x, y), Identity(op), xs)
\* an ordered fold has no identity: it starts from the first element
AxisFold(op, xs) ==
  IF op.kind = "ordered" THEN FoldLeft(LAMBDA x, y : OrderedCombine(op, x, y), xs[1], Tail(xs))
  ELSE SequentialFold(op.kind, xs)

\* ---- which path ------------------------------------------------------------------
\* A full reduction: a 1-D tile, (1, N) along axis 1, or one scalar per thread
\* left by a register-array fold.
Flat(shape, axis) == Len(shape) = 1 \/ (Len(shape) = 2 /\ shape[1] = 1 /\ axis = 1)
FlatAt(k, s) == k.mept > 1 \/ Flat(ShapeAt(k, s), k.axes[s])
\* a tile wider than the threadgroup, in a loop
Covered(k) == InLoop(k) /\ k.mept = 1 /\ Len(k.shape) = 1 /\ TileSize(k) > k.threads

\* a 1-D tile that nothing pins to the size of the threadgroup
Surplus(k) == k.mept = 1 /\ Len(k.shape) = 1 /\ TileSize(k) < k.threads

\* Covering replays the chain that computes the reduced value once per strided
\* element.  That is refused when something the chain reads cannot be computed
\* again: a value derived from a load outside the loop's body, or a tensor no
\* replayable op made.  k.outside: the ops outside that the chain reaches.
SafeReplay == {"make_range", "splat", "broadcast", "expand_dims", "addptr", "constant", "extf", "truncf", "sitofp", "fptosi"}
DataOps == {"load", "atomic_rmw", "atomic_cas"}
LoadDerived(ops) ==
  LET Step1(S) == S \cup {o \in Range(ops) : Range(o.args) \cap {d.id : d \in S} # {}}
  IN FoldLeft(LAMBDA S, o : Step1(S), {o \in Range(ops) : o.op \in DataOps}, ops)
Replayable(k) ==
  /\ k.outside # <<>> => \A o \in Range(k.outside) : o \notin LoadDerived(k.outside)
  /\ \A o \in Range(k.outside) : o.tensor => o.op \in SafeReplay

\* The result of an axis reduction is laid out a row per N threads.  Carried
\* around a loop it may reach a 1-D store only through something that restores
\* a dimension or resolves the layout.
ReachesStore(path) ==
  \E n \in DOMAIN path :
    /\ path[n] = "store" /\ "yield" \in {path[m] : m \in 1..(n - 1)}
    /\ {path[m] : m \in 1..(n - 1)} \cap {"expand_dims", "convert_layout"} = {}
Paths(k) ==
  CASE k.use = "carry" -> {<<"yield", "store">>}
    [] k.use = "carryrow" -> {<<"yield", "expand_dims", "store">>}
    [] k.use = "convert" -> {<<"convert_layout", "store">>}
    [] OTHER -> {<<k.use>>}
\* two axis reductions that meet in one operation
Combined(k) == k.sibling

AxisAdmits(k, s) ==
  LET shape == ShapeAt(k, s) IN
  CASE Len(shape) = 2 ->
         /\ Product(shape) <= k.threads
         /\ \A p \in Paths(k) : ~ReachesStore(p)
         /\ ~Combined(k)
         /\ InLoop(k) => ~Half(k) /\ Product(shape) >= k.floor
    [] Len(shape) >= 4 -> KindAt(k, s).kind = "xor"
    [] OTHER -> TRUE
\* the tail of a tile narrower than the threadgroup is masked with an identity
Maskable(k, kind) == kind \notin {"and", "or"}
FlatAdmits(k, s) ==
  LET kind == KindAt(k, s).kind IN
  /\ Covered(k) => Replayable(k)
  /\ k.mept > 1 => kind \in MeptOps
  /\ ~Is64(k) => ReduceAdmits(k)
  /\ ~Is64(k) /\ Surplus(k) => Maskable(k, kind)
OrderedAdmitsAt(k, s) ==
  LET shape == ShapeAt(k, s) IN
  /\ k.mept = 1 /\ ~InLoop(k)
  /\ \/ Len(shape) = 1 /\ shape[1] = k.threads /\ OrderedAdmits(k)
     \/ Len(shape) = 2 /\ Product(shape) <= k.threads
StageAdmits(k, s) ==
  /\ KindAt(k, s).kind # "none"
  /\ Ordered(k, s) => OrderedAdmitsAt(k, s)
  /\ IF FlatAt(k, s) THEN FlatAdmits(k, s) ELSE AxisAdmits(k, s)
StagesAdmit(k) == ReduceContract(k.contract) /\ \A s \in DOMAIN k.axes : StageAdmits(k, s)

\* ---- a full reduction ----------------------------------------------------------
\* 64-bit integers: no SIMD intrinsic, a tree in shared memory
TreeSteps(k) == SelectSeq(<<1, 2, 4, 8, 16>>, LAMBDA x : x < k.threads)
Tree64Code(k, j, s) ==
  <<Do("put64", j, s), Barrier>>
  \o FlattenSeq([n \in DOMAIN TreeSteps(k) |-> <<[Do("tree", j, s) EXCEPT !.trip = TreeSteps(k)[n]], Barrier>>])
  \o <<Do("take64", j, s)>>
FlatCode(k, j, s) ==
  IF Is64(k) THEN Tree64Code(k, j, s)
  ELSE (IF Surplus(k) THEN <<Do("mask", j, s)>> ELSE <<>>)
       \o (IF Ordered(k, s) THEN OrderedReduce(k, KindAt(k, s)) ELSE Reduce(KindAt(k, s).kind, "acc", "shared", "total"))
       \o <<Do("narrow", j, s)>>
\* what is left of a wide result in a narrow element type
Narrow(k, x) ==
  CASE k.type = "i1" -> x % 2 [] k.type = "i8" -> x % 256 [] k.type = "i16" -> x % 65536 [] OTHER -> x
FlatEffect(k, i, t, v) ==
  LET n == TileSize(k)
      op == KindAt(k, i.s).kind
  IN CASE i.do = "mask" ->
            IF t >= n THEN Put("acc", t, Identity(op)) ELSE Nothing
       [] i.do = "narrow" -> Put("acc", t, Narrow(k, v.total[t]))
       [] i.do = "put64" -> Put("sh", t, v.acc[t])
       [] i.do = "tree" ->
            IF t % (2 * i.trip) = 0 /\ t + i.trip < k.threads
            THEN Put("sh", t, Fold2(op, v.sh[t], v.sh[t + i.trip])) ELSE Nothing
       [] i.do = "take64" -> Put("acc", t, v.sh[0])

\* ---- a reduction along an axis: staged, folded by one thread per result --------
Stride(shape, d) == Product(SubSeq(shape, d + 1, Len(shape)))
Coord(shape, d, e) == (e \div Stride(shape, d)) % shape[d]
\* the element of the reduced tensor that element e of the tile belongs to
ReadAt(shape, axis, e) ==
  LET kept == RemoveAt(shape, axis + 1)
      from(d) == IF d <= axis THEN d ELSE d + 1
  IN SumFunction([d \in DOMAIN kept |-> Coord(shape, from(d), e) * Stride(kept, d)])
\* the same for three dimensions, with the formulas written out
ReadAt3(shape, axis, e) ==
  LET N == shape[2]
      K == shape[3]
  IN CASE axis = 0 -> e % (N * K)
       [] axis = 1 -> ((e \div (N * K)) * K) + (e % K)
       [] axis = 2 -> ((e \div (N * K)) * N) + ((e % (N * K)) \div K)
\* the elements that result r is folded from, in order
AxisLine3(shape, axis, r) ==
  LET N == shape[2]
      K == shape[3]
      at(a) == CASE axis = 0 -> (a * N * K) + ((r \div K) * K) + (r % K)
                 [] axis = 1 -> ((r \div K) * N * K) + (a * K) + (r % K)
                 [] axis = 2 -> ((r \div N) * N * K) + ((r % N) * K) + a
  IN [a \in 1..shape[axis + 1] |-> at(a - 1)]
AxisLineN(shape, axis, r) ==
  LET kept == RemoveAt(shape, axis + 1)
      from(d) == IF d <= axis THEN d ELSE d + 1
      base == SumFunction([d \in DOMAIN kept |-> Coord(kept, d, r) * Stride(shape, from(d))])
  IN [a \in 1..shape[axis + 1] |-> base + ((a - 1) * Stride(shape, axis + 1))]
AxisLine(shape, axis, r) ==
  CASE Len(shape) = 2 -> [a \in 1..shape[axis + 1] |-> IF axis = 1 THEN (r * shape[2]) + (a - 1) ELSE ((a - 1) * shape[2]) + r]
    [] Len(shape) = 3 -> AxisLine3(shape, axis, r)
    [] OTHER -> AxisLineN(shape, axis, r)
\* the element of the stage's tensor that thread t's value is
PlaceAt(k, s, t) ==
  FoldLeft(LAMBDA e, j :
             IF Len(ShapeAt(k, j)) = 3 THEN ReadAt3(ShapeAt(k, j), k.axes[j], e) ELSE ReadAt(ShapeAt(k, j), k.axes[j], e),
           t, [j \in 1..(s - 1) |-> j])

\* the scratch allocator may give input and result the same storage
ResultArray(k) == IF k.alias THEN "sh" ELSE "rs"
AxisCode(k, j, s) ==
  (IF k.staged /\ s = 1 THEN <<>> ELSE <<Do("stage", j, s), Barrier>>)
  \o (IF Len(ShapeAt(k, s)) = 2 THEN <<Do("axisfold", j, s), Barrier, Do("publish2", j, s), Barrier>>
      ELSE <<Do("axisstore", j, s), Barrier>>)
  \o <<Do("readback", j, s), Barrier>>
AxisEffect(k, i, t, v) ==
  LET shape == ShapeAt(k, i.s)
      axis == k.axes[i.s]
      total == Product(shape)
      results == Product(RemoveAt(shape, axis + 1))
      op == KindAt(k, i.s)
      fold(r) == AxisFold(op, [a \in DOMAIN AxisLine(shape, axis, r) |-> At(v.sh, AxisLine(shape, axis, r)[a])])
      mine == Strided(t, results, k.threads)
      here == IF t < total THEN IF axis = 1 THEN t \div shape[2] ELSE t % shape[2] ELSE -1
      place == PlaceAt(k, i.s, t)
      read == IF Len(shape) = 3 THEN ReadAt3(shape, axis, place) ELSE ReadAt(shape, axis, place)
  IN CASE i.do = "stage" ->
            CASE total > k.threads -> [sh |-> [e \in Strided(t, total, k.threads) |-> v.X[e]]]
              [] i.s > 1 -> Put("sh", place, v.acc[t])
              [] OTHER -> IF t < total THEN Put("sh", t, v.acc[t]) ELSE Nothing
       [] i.do = "axisfold" -> IF t < results THEN Put("acc", t, fold(t)) ELSE Nothing
       [] i.do = "publish2" -> IF t < results THEN Put(ResultArray(k), t, v.acc[t]) ELSE Nothing
       [] i.do = "axisstore" -> [rs |-> [r \in mine |-> fold(r)]]
       [] i.do = "readback" ->
            CASE Len(shape) = 2 /\ here >= 0 -> Put("acc", t, v[ResultArray(k)][here])
              [] Len(shape) = 2 -> Put("acc", t, IF op.kind = "ordered" THEN 0 ELSE Identity(op.kind))
              [] OTHER -> Put("acc", t, At(v.rs, read))

StageCode(k, j, s) == IF FlatAt(k, s) THEN FlatCode(k, j, s) ELSE AxisCode(k, j, s)

------------------------------------------------------------------------------
(***************************************************************************)
(* The other reductions of codegen/_lowerer_reduce.py: value-and-index     *)
(* pairs, Welford triples, prefix scans, and the reductions of a tile that *)
(* a loop wraps over the threadgroup (multipass).                          *)
(***************************************************************************)
\* ---- argmin and argmax ---------------------------------------------------------
Arg(k) == ArgMinMax(k.region, k.float)
Beats(op, x, y) ==
  LET u(z) == IF op.unsigned THEN Unsigned(z) ELSE z
  IN IF op.largest THEN u(x) > u(y) ELSE u(x) < u(y)
Takes(op, x, i, y, j) == Beats(op, x, y) \/ (x = y /\ i < j)
\* of two candidates, the one that stays
ArgBetter(op, p, q) ==
  IF NaN \in Range(p) \cup Range(q) THEN <<NaN, NaN>> ELSE IF Takes(op, q[1], q[2], p[1], p[2]) THEN q ELSE p
ArgAdmits(k) ==
  /\ ReduceContract(k.contract) /\ Arg(k).kind # "none"
  /\ Len(k.shape) \in {1, 2}
  /\ Len(k.shape) = 1 => TileSize(k) <= k.threads
  /\ Flat(k.shape, k.axes[1]) => ~Is64(k)
ShuffleDown(k) == SelectSeq(<<16, 8, 4, 2, 1>>, LAMBDA x : x < k.simd)
Groups1(k, d) == IF SimdCount(k) > 1 THEN <<Do(d, 0, 1), Barrier>> ELSE <<>>
ArgFlatCode(k) ==
  [n \in DOMAIN ShuffleDown(k) |-> DoLanes("argdown", ShuffleDown(k)[n])]
  \o <<Do("arglead", 0, 1), Barrier>> \o Groups1(k, "argfold") \o <<Do("argread", 0, 1), Barrier>>
\* a lane past the end of its SIMD group shuffles its own value
Below(k, t, d) == IF LaneOf(k, t) + d < k.simd THEN t + d ELSE t
ArgFlat(k, i, t, v) ==
  LET u == Below(k, t, i.i)
      group1 == [s \in 1..(SimdCount(k) - 1) |-> <<v.sh[s], v.sx[s]>>]
      best == FoldLeft(LAMBDA p, q : ArgBetter(Arg(k), p, q), <<v.sh[0], v.sx[0]>>, group1)
  IN CASE i.do = "argdown" ->
            IF t + i.i < k.threads /\ Takes(Arg(k), At(v.acc, u), At(v.idx, u), v.acc[t], v.idx[t])
            THEN [acc |-> t :> v.acc[u], idx |-> t :> v.idx[u]] ELSE Nothing
       [] i.do = "arglead" ->
            IF LaneOf(k, t) = 0 THEN [sh |-> SimdOf(k, t) :> v.acc[t], sx |-> SimdOf(k, t) :> v.idx[t]] ELSE Nothing
       [] i.do = "argfold" -> IF t = 0 THEN [sh |-> 0 :> best[1], sx |-> 0 :> best[2]] ELSE Nothing
       [] i.do = "argread" -> [acc |-> t :> v.sh[0], idx |-> t :> v.sx[0]]

\* along an axis: the index is the position in the line, whatever the index
\* operand holds
ArgAxisCode ==
  <<Do("argstage", 0, 1), Barrier, Do("argline", 0, 1), Barrier, Do("argback", 0, 1), Barrier>>
ArgAxis(k, i, t, v) ==
  LET axis == k.axes[1]
      total == TileSize(k)
      results == IF axis = 1 THEN k.shape[1] ELSE k.shape[2]
      line == AxisLine(k.shape, axis, t)
      least == IF Arg(k).unsigned THEN Picked(0, Word - 1, Arg(k).largest) ELSE Picked(NegInf, -NegInf, Arg(k).largest)
      found == [a \in DOMAIN line |-> <<v.sh[line[a]], a - 1>>]
      best == FoldLeft(LAMBDA p, q : ArgBetter(Arg(k), p, q), <<least, 0>>, found)
      read == IF axis = 1 THEN t \div k.shape[2] ELSE t % k.shape[2]
  IN CASE i.do = "argstage" -> IF t < total THEN [sh |-> t :> v.acc[t], sx |-> t :> v.idx[t]] ELSE Nothing
       [] i.do = "argline" -> IF t < results THEN [rs |-> t :> best[1], rx |-> t :> best[2]] ELSE Nothing
       [] i.do = "argback" ->
            [acc |-> t :> At(v.rs, read), idx |-> t :> At(v.rx, read)]
ArgCode(k) == IF Flat(k.shape, k.axes[1]) THEN ArgFlatCode(k) ELSE ArgAxisCode

\* ---- Welford: mean, sum of squared differences, weight --------------------------
WelfordAdmits(k) ==
  /\ ReduceContract(k.contract) /\ k.type = "f32" /\ WelfordMode(k.region).kind # "none"
  /\ Len(k.shape) \in {1, 2}
  /\ Len(k.shape) = 1 => TileSize(k) <= k.threads
JoinMoments(k, p, q) ==
  LET delta == Sub(q[1], p[1])
      weight == Add(p[3], q[3])
      ratio == IF WelfordMode(k.region).kind = "guarded" /\ weight = 0 THEN 0 ELSE Div(q[3], weight)
  IN <<Add(p[1], Mul(delta, ratio)), Add(Add(p[2], q[2]), Mul(Mul(Mul(delta, delta), p[3]), ratio)), weight>>
WelfordCode(k) ==
  [n \in DOMAIN ShuffleDown(k) |-> DoLanes("weldown", ShuffleDown(k)[n])]
  \o <<Do("wellead", 0, 1), Barrier>> \o Groups1(k, "welfold") \o <<Do("welread", 0, 1)>>
Welford(k, i, t, v) ==
  LET u == Below(k, t, i.i)
      at(x) == <<At(v.acc, x), At(v.m2, x), At(v.wt, x)>>
      own(p) == [acc |-> t :> p[1], m2 |-> t :> p[2], wt |-> t :> p[3]]
      shared1(s, p) == [sh |-> s :> p[1], sx |-> s :> p[2], rs |-> s :> p[3]]
      rest == [s \in 1..(SimdCount(k) - 1) |-> <<v.sh[s], v.sx[s], v.rs[s]>>]
      all == FoldLeft(LAMBDA p, q : JoinMoments(k, p, q), <<v.sh[0], v.sx[0], v.rs[0]>>, rest)
  IN CASE i.do = "weldown" -> own(JoinMoments(k, at(t), at(u)))
       [] i.do = "wellead" -> IF LaneOf(k, t) = 0 THEN shared1(SimdOf(k, t), at(t)) ELSE Nothing
       [] i.do = "welfold" -> IF t = 0 THEN shared1(0, all) ELSE Nothing
       [] i.do = "welread" -> own(<<v.sh[0], v.sx[0], v.rs[0]>>)

\* ---- scan, one element per thread: every thread sweeps its own prefix -----------
\* a 1-D tile is one row
ScanShape(k) == IF Len(k.shape) = 1 THEN <<1, k.shape[1]>> ELSE k.shape
ScanAxis(k) == IF Len(k.shape) = 1 THEN 1 ELSE k.axes[1]
Slots(k) == Len(k.region.ret)
SlotArrays == <<"sh", "sx">>
Slot(k, v, e) == [j \in 1..Slots(k) |-> At(v[SlotArrays[j]], e)]
\* the elements before element e in scan order, e last
ScanLine(k, e) ==
  LET N == ScanShape(k)[2]
      M == ScanShape(k)[1]
      pos == IF ScanAxis(k) = 1 THEN e % N ELSE e \div N
      last == IF ScanAxis(k) = 1 THEN N - 1 ELSE M - 1
      at(p) == IF ScanAxis(k) = 1 THEN ((e \div N) * N) + p ELSE (p * N) + (e % N)
  IN IF k.reverse THEN [a \in 1..(last - pos + 1) |-> at(last - a + 1)] ELSE [a \in 1..(pos + 1) |-> at(a - 1)]
ScanAdmits(k) ==
  /\ k.mept > 1 => ScanContract(k.contract)
  /\ k.mept = 1 => TileSize(k) <= k.maxthreads
\* a short row is written back, so that every thread can read it modulo its length
Short(k) == Len(k.shape) = 1 /\ TileSize(k) < k.threads
ScanTrip(k, j) ==
  <<Do("scanload", j, 1), Do("scanput", j, 1), Barrier, Do("sweep", j, 1), Barrier>>
  \o (IF Short(k) THEN <<Do("scanput", j, 2), Barrier, Do("scanmod", j, 1)>> ELSE <<>>) \o <<Do("scanstore", j, 1)>>
ScanEffect(k, i, t, v) ==
  LET n == TileSize(k)
      line == ScanLine(k, t)
      both(p, e) == Evaluate(k.region, p \o Slot(k, v, e))
      result == FoldLeft(both, Slot(k, v, line[1]), Tail(line))
      regs(x) == [a \in {<<"acc", "m2">>[j] : j \in 1..Slots(k)} |-> t :> x[IF a = "acc" THEN 1 ELSE 2]]
  IN CASE i.do = "scanload" -> [acc |-> t :> At(v.X, (i.trip * n) + t), m2 |-> t :> At(v.Y, (i.trip * n) + t)]
       [] i.do = "scanput" -> IF t < n THEN [sh |-> t :> v.acc[t], sx |-> t :> v.m2[t]] ELSE Nothing
       [] i.do = "sweep" -> IF t < n THEN regs(result) ELSE Nothing
       [] i.do = "scanmod" -> regs(Slot(k, v, t % n))
       [] i.do = "scanstore" ->
            IF t < n \/ Short(k) THEN Put("out", (i.trip * Top(n, k.threads)) + t, v[<<"acc", "m2">>[Slots(k)]][t]) ELSE Nothing

\* ---- scan of register arrays: doubling distances over staged values --------------
ScanArrayAdmits(k) ==
  LET bytes == (k.declared + (Slots(k) * TileSize(k) * 4)) IN
  /\ ScanAdmits(k) /\ k.threads * k.mept = TileSize(k) /\ k.proved = k.shape
  /\ Range(k.widths) \subseteq {k.mept, 0} /\ (0 \in Range(k.widths) => k.splat)
  /\ bytes < k.budget
\* flat elements a thread owns
OwnedBlock(k, t) == (t * k.mept)..((t * k.mept) + k.mept - 1)
Distances(k) ==
  LET length == ScanShape(k)[IF ScanAxis(k) = 1 THEN 2 ELSE 1] IN SelectSeq(<<1, 2, 4, 8, 16>>, LAMBDA d : d < length)
ScanArrayCode(k) ==
  <<Do("arrayput", 0, 1), Barrier>>
  \o FlattenSeq([n \in DOMAIN Distances(k) |->
       <<Do("neighbour", Distances(k)[n], 1), Barrier, Do("arraytake", 0, 1), Barrier>>])
  \o <<Do("arraystore", 0, 1), Barrier>>
ScanArray(k, i, t, v) ==
  LET own == OwnedBlock(k, t)
      N == ScanShape(k)[2]
      stride == IF ScanAxis(k) = 1 THEN 1 ELSE N
      pos(e) == IF ScanAxis(k) = 1 THEN e % N ELSE e \div N
      length == IF ScanAxis(k) = 1 THEN N ELSE ScanShape(k)[1]
      reach(e) == (IF k.reverse THEN length - 1 - pos(e) ELSE pos(e)) >= i.trip
      source(e) == IF k.reverse THEN e + (i.trip * stride) ELSE e - (i.trip * stride)
      step(e) == IF reach(e) THEN Evaluate(k.region, Slot(k, v, source(e)) \o Slot(k, v, e)) ELSE Slot(k, v, e)
      temp == <<"tx", "ty">>
  IN CASE i.do = "arrayput" ->
            [sh |-> [e \in own |-> v.X[IF k.widths[1] = 0 THEN 0 ELSE e]], sx |-> [e \in own |-> v.Y[e]]]
       [] i.do = "neighbour" -> [a \in {temp[j] : j \in 1..Slots(k)} |-> [e \in own |-> step(e)[IF a = "tx" THEN 1 ELSE 2]]]
       [] i.do = "arraytake" ->
            [a \in {SlotArrays[j] : j \in 1..Slots(k)} |-> [e \in own |-> v[IF a = "sh" THEN "tx" ELSE "ty"][e]]]
       [] i.do = "arraystore" -> [out |-> [e \in own |-> v[SlotArrays[Slots(k)]][e]]]

\* ---- multipass: phases split at the reductions -------------------------------------
\* Loads of scalars that may leave the element loops: those of a read-only prefix
PureOp(o) == IF o.op = "load" THEN ~o.volatile ELSE o.op \in {"make_range", "splat", "addptr", "broadcast", "arith", "reduce"}
PrefixLoads(ops) ==
  LET impure == {n \in DOMAIN ops : ~PureOp(ops[n])}
      prefix == IF impure = {} THEN Len(ops) ELSE (CHOOSE n \in impure : \A m \in impure : n <= m) - 1
      add(S, o) == IF o.scalar /\ Range(o.args) \subseteq S /\ o.op \in {"load", "arith"} THEN S \cup {o.id} ELSE S
  IN FoldLeft(add, {"arg"}, SubSeq(ops, 1, prefix))
Hoisted(k) == "s" \in PrefixLoads(k.entry)
FullShape(k) == k.shape[k.axes[1] + 1] = TileSize(k)
PowerOfTwo(n) == n \in {1, 2, 4, 8, 16, 32}
MultipassAdmits(k) ==
  /\ ReduceContract(k.contract) /\ KindAt(k, 1).kind # "none"
  /\ Ordered(k, 1) => k.type = "f32" /\ TileSize(k) >= k.threads /\ PowerOfTwo(TileSize(k)) /\ FullShape(k)
  \* the reduced tensor spans the kernel's elements, and no other reduction reads it
  /\ TileSize(k) = k.total /\ k.sharers = 1
Rounds(k) == SelectSeq(<<1, 2, 4, 8, 16>>, LAMBDA d : d < TileSize(k))
MultipassCode(k) ==
  <<Do("hoist", 0, 1)>>
  \o (IF Ordered(k, 1)
      THEN <<Do("stageall", 0, 1), Barrier>>
           \o FlattenSeq([n \in DOMAIN Rounds(k) |-> <<Do("round", Rounds(k)[n], 1), Barrier>>]) \o <<Do("front", 0, 1)>>
           \o OrderedReduce(k, KindAt(k, 1))
      ELSE <<Do("wrap", 0, 1)>> \o Reduce(KindAt(k, 1).kind, "acc", "shared", "total"))
  \o <<Do("elements", 0, 1), Atomic("terminal")>>
Multipass(k, i, t, v) ==
  LET n == TileSize(k)
      op == KindAt(k, 1)
      mine == Strided(t, n, k.threads)
      visits == [a \in 1..Cardinality(mine) |-> v.X[t + ((a - 1) * k.threads)]]
      pairs == {2 * i.trip * p : p \in Strided(t, n \div (2 * i.trip), k.threads)}
  IN CASE i.do = "hoist" -> Put("scale", t, IF Hoisted(k) THEN v.S[0] ELSE NaN)
       [] i.do = "wrap" -> Put("acc", t, SequentialFold(op.kind, visits))
       [] i.do = "stageall" -> [sh |-> [e \in mine |-> v.X[e]]]
       [] i.do = "round" -> [sh |-> [e \in pairs |-> OrderedCombine(op, v.sh[e], v.sh[e + i.trip])]]
       [] i.do = "front" -> Put("acc", t, v.sh[0])
       \* the next phase's element loop reads the tile again
       [] i.do = "elements" -> [out |-> [e \in mine |-> Mul(v.scale[t], Sub(v.X[e], v.total[t]))]]
       \* a scalar write of the result, once per kernel and not once per element
       [] i.do = "terminal" -> IF t = 0 THEN Put("once", 0, Add(v.once[0], v.total[t])) ELSE Nothing
==============================================================================

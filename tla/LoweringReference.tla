-------------------------- MODULE LoweringReference --------------------------
(***************************************************************************)
(* The programs whose reductions, loops, branches and atomics are lowered, *)
(* and what they mean.                                                     *)
(***************************************************************************)
EXTENDS ControlLowering

(***************************************************************************)
(* The kernels around the lowered reductions: what they load, how they use *)
(* the result (the store's layouts, a broadcast back, a carry around a     *)
(* loop, a layout conversion), what they must compute, the instances.      *)
(***************************************************************************)
ReduceNames == {"stages", "arg", "welford", "scan", "scanarray", "multipass"}

\* ---- regions ---------------------------------------------------------------------
PlainRegion(op) == Region(<<"a", "b">>, <<Op("r", op, <<"a", "b">>)>>, <<"r">>)
\* a + max(b, 0): a sum by its name, not by its operands
SumRelu == Region(<<"a", "b">>, <<Op("m", "maxnumf", <<"b", "zero">>), Op("r", "addf", <<"a", "m">>)>>, <<"r">>)
\* the sum is computed and the first argument returned
Dead == Region(<<"a", "b">>, <<Op("r", "addf", <<"a", "b">>)>>, <<"a">>)
Selecting(op, pred, l, r, t, f) ==
  Region(<<"a", "b">>, <<Cmp("c", op, pred, <<l, r>>), Op("r", "select", <<"c", t, f>>)>>, <<"r">>)
NanSelecting(pred, t, f, x) ==
  Region(<<"a", "b">>,
         <<Cmp("c", "cmpf", pred, <<"a", "b">>), Cmp("n", "cmpf", "une", <<x, x>>), Op("m", "ori", <<"c", "n">>),
           Op("r", "select", <<"m", t, f>>)>>, <<"r">>)
PairRegion(cmp, pred, equal) ==
  Region(<<"a", "i", "b", "j">>,
         <<Cmp("w", cmp, pred, <<"a", "b">>), Cmp("e", cmp, equal, <<"a", "b">>), Cmp("l", "cmpi", "slt", <<"i", "j">>),
           Op("t", "andi", <<"e", "l">>), Op("c", "ori", <<"w", "t">>), Op("v", "select", <<"c", "a", "b">>),
           Op("x", "select", <<"c", "i", "j">>)>>, <<"v", "x">>)
\* the largest by the second slot: it compares too, and is no argmax
ByKey ==
  Region(<<"a", "i", "b", "j">>,
         <<Cmp("c", "cmpi", "sgt", <<"i", "j">>), Op("v", "select", <<"c", "a", "b">>), Op("x", "select", <<"c", "i", "j">>)>>,
         <<"v", "x">>)
WelfordRegion(guarded) ==
  LET ratio == IF guarded THEN "g" ELSE "q" IN
  Region(<<"ma", "sa", "wa", "mb", "sb", "wb">>,
         <<Op("d", "subf", <<"mb", "ma">>), Op("w", "addf", <<"wa", "wb">>), Op("q", "divf", <<"wb", "w">>)>>
         \o (IF guarded THEN <<Cmp("z", "cmpf", "oeq", <<"w", "zero">>), Op("g", "select", <<"z", "zero", "q">>)>> ELSE <<>>)
         \o <<Op("c", "mulf", <<"d", ratio>>), Op("m", "addf", <<"ma", "c">>), Op("ss", "addf", <<"sa", "sb">>),
              Op("dd", "mulf", <<"d", "d">>), Op("dw", "mulf", <<"dd", "wa">>), Op("dr", "mulf", <<"dw", ratio>>),
              Op("s", "addf", <<"ss", "dr">>)>>, <<"m", "s", "w">>)
\* a weighted mean divides as well
WeightedMean ==
  Region(<<"ma", "sa", "wa", "mb", "sb", "wb">>,
         <<Op("w", "addf", <<"wa", "wb">>), Op("q", "divf", <<"wb", "w">>), Op("d", "subf", <<"mb", "ma">>),
           Op("c", "mulf", <<"d", "q">>), Op("m", "addf", <<"ma", "c">>), Op("s", "addf", <<"sa", "sb">>)>>, <<"m", "s", "w">>)
\* x -> p * x + q composed: associative, not commutative
Affine ==
  Region(<<"p", "q", "r", "s">>,
         <<Op("pr", "mulf", <<"r", "p">>), Op("rq", "mulf", <<"r", "q">>), Op("qs", "addf", <<"rq", "s">>)>>, <<"pr", "qs">>)

\* ---- contracts ---------------------------------------------------------------------
Facts(tensor, shape, sig) == [tensor |-> tensor, shape |-> shape, sig |-> sig, layout |-> "parent", owned |-> TRUE]
ContractOf(shape, axis, region, type, scanned) ==
  LET n == Len(region.ret)
      kept == IF scanned THEN shape ELSE RemoveAt(shape, axis + 1)
      scalar == Facts(FALSE, <<>>, type)
  IN [operands |-> [j \in 1..n |-> Facts(TRUE, shape, type)], results |-> [j \in 1..n |-> Facts(kept # <<>>, kept, type)],
      blocks |-> [j \in 1..(2 * n) |-> scalar], returns |-> [j \in 1..n |-> scalar], body |-> <<>>, axis |-> axis + 1]
\* records damaged in one place: a returned type, a producer that is another op
Retyped(c) == [c EXCEPT !.returns[1].sig = "i64"]
Meta == [kind |-> "result", producer |-> 7, index |-> 0, func |-> "kernel", owner |-> 3, known |-> TRUE]
Stolen(c) ==
  [c EXCEPT !.operands[1].owned =
     OwnedBy(Meta, [kind |-> "result", producer |-> 8, index |-> 0, func |-> "kernel", block |-> "entry"], [entry |-> 3])]

\* ---- a kernel ------------------------------------------------------------------------
ReduceBase ==
  [threads |-> 4, simd |-> 2, groups |-> 1, poison |-> FALSE, shape |-> <<4>>, axes |-> <<0>>, region |-> PlainRegion("addf"),
   type |-> "f32", float |-> TRUE, trips |-> 0, mept |-> 1, splat |-> FALSE, staged |-> FALSE, alias |-> TRUE, use |-> "store",
   sibling |-> FALSE, floor |-> 4, maxthreads |-> 8, outside |-> <<>>, nanat |-> -1, reverse |-> FALSE, damage |-> "none",
   declared |-> 0, budget |-> 128, widths |-> <<1, 1>>, total |-> 8, sharers |-> 1,
   entry |-> <<[id |-> "s", op |-> "load", args |-> <<"arg">>, scalar |-> TRUE, volatile |-> FALSE]>>]
ReduceOf(name, with) ==
  LET k == with @@ [name |-> name] @@ ReduceBase
      sound == ContractOf(k.shape, k.axes[1], k.region, k.type, name \in {"scan", "scanarray"})
  IN [contract |-> CASE k.damage = "none" -> sound [] k.damage = "type" -> Retyped(sound) [] k.damage = "owner" -> Stolen(sound),
      proved |-> k.shape] @@ k
ReduceAdmitted(k) ==
  CASE k.name = "stages" -> StagesAdmit(k)
    [] k.name = "arg" -> ArgAdmits(k)
    [] k.name = "welford" -> WelfordAdmits(k)
    [] k.name = "scan" -> ScanAdmits(k)
    [] k.name = "scanarray" -> ScanArrayAdmits(k)
    [] k.name = "multipass" -> MultipassAdmits(k)

\* integers with signs, numbers that compare equal and a NaN, or distinct ones
Sample(k, a, e) ==
  CASE e = k.nanat -> Quiet
    [] k.name = "arg" -> (2 * ((e * e) % 3)) - (IF k.float THEN 0 ELSE 2)
    [] ~k.float -> ((7 * (e + a)) % 19) - (IF k.type = "i1" THEN 0 ELSE 6)
    [] Classify(k.region, 1).kind = "ordered" -> 40 + ((3 * e) % 4)
    [] OTHER -> Datum(a, e)
Bit(k, x) == IF k.type = "i1" THEN x % 2 ELSE IF PlainRegion("xori") = k.region \/ PlainRegion("andi") = k.region THEN x + 6 ELSE x
Data(k, a) == [e \in 0..((TileSize(k) * Trips(k)) - 1) |-> Bit(k, Sample(k, a, IF k.splat THEN 0 ELSE e))]
Results(k) == Product(ShapeAt(k, Len(k.axes) + 1))
ReducedSize(k) ==
  CASE k.name = "scan" -> Trips(k) * Top(TileSize(k), k.threads)
    [] k.name \in {"scanarray", "multipass"} -> TileSize(k)
    [] k.use = "carry" -> Results(k)
    [] k.use = "carryrow" -> TileSize(k)
    [] k.use = "broadcast" -> Trips(k) * Bottom(TileSize(k), k.threads)
    [] OTHER -> Trips(k) * Results(k)
ReduceArrays(k) ==
  LET cells == Top(TileSize(k), k.threads) IN
  [dev |-> [X |-> Data(k, 1), Y |-> Data(k, 2), W |-> [e \in 0..(TileSize(k) - 1) |-> 1 + (e % 3)],
            I |-> [e \in 0..(TileSize(k) - 1) |-> IF k.axes[1] = 0 /\ Len(k.shape) = 2 THEN e \div k.shape[2] ELSE e % Last(k.shape)],
            S |-> (0 :> 5), out |-> Filled(ReducedSize(k), NaN), outx |-> Filled(ReducedSize(k), NaN), outw |-> Filled(ReducedSize(k), NaN),
            once |-> (0 :> 0)],
   tg |-> [a \in {"sh", "sx", "rs", "rx", "cv"} |-> Filled(cells, NaN)] @@ [shared |-> Filled(SimdCount(k), NaN)],
   reg |-> [a \in {"tx", "ty"} |-> Filled(TileSize(k), NaN)] @@ [carry |-> Filled(k.threads, 0)] @@ Regs(k, ReduceRegNames)]

\* ---- loads and uses ---------------------------------------------------------------------
\* A 1-D value of a 2-D kernel is stored by the threads that hold it: one per
\* row of the tile when it is laid out by row, the first ones otherwise.
Blocked(k) == Len(ShapeAt(k, Len(k.axes))) = 2 /\ k.axes[Len(k.axes)] = 1 /\ ~FlatAt(k, Len(k.axes))
TileColumns(k) == ShapeAt(k, Len(k.axes))[2]
StoreRow(k, blocked, t) ==
  LET g == Results(k) IN
  IF blocked THEN IF t % TileColumns(k) = 0 /\ t \div TileColumns(k) < g THEN t \div TileColumns(k) ELSE -1
  ELSE IF t < g THEN t ELSE -1
ScalarResult(k) == ShapeAt(k, Len(k.axes) + 1) = <<>> \/ FlatAt(k, Len(k.axes))
StoreAt(k, blocked, t) == IF ScalarResult(k) THEN 0 ELSE StoreRow(k, blocked, t)
Stored(k, a, base, blocked, t, x) ==
  IF StoreAt(k, blocked, t) >= 0 THEN Put(a, base + StoreAt(k, blocked, t), x) ELSE Nothing
\* ttg.convert_layout of a 1-D value: every thread gets the element of its own number
ConvertCode(j) == <<Do("convertput", j, 1), Barrier, Do("convertget", j, 1), Barrier>>
UseCode(k, j) ==
  CASE k.use = "convert" -> ConvertCode(j) \o <<Do("usedirect", j, 1)>> [] OTHER -> <<Do(k.use, j, 1)>>
EndCode(k) == IF k.use \in {"carry", "carryrow"} THEN <<Do("end", 0, 1)>> ELSE <<>>
StagesCode(k) ==
  FlattenSeq([n \in 1..Trips(k) |->
    <<Do("load", n - 1, 1)>> \o (IF k.staged THEN <<Do("prestage", n - 1, 1), Barrier>> ELSE <<>>)
    \o FlattenSeq([s \in DOMAIN k.axes |-> StageCode(k, n - 1, s)]) \o UseCode(k, n - 1)])
  \o EndCode(k)
ReduceCode(k) ==
  CASE k.name = "stages" -> StagesCode(k)
    [] k.name = "arg" -> <<Do("loadpair", 0, 1)>> \o ArgCode(k) \o <<Do("storepair", 0, 1)>>
    [] k.name = "welford" -> <<Do("loadtriple", 0, 1)>> \o WelfordCode(k) \o <<Do("storetriple", 0, 1)>>
    [] k.name = "scan" -> FlattenSeq([n \in 1..Trips(k) |-> ScanTrip(k, n - 1)])
    [] k.name = "scanarray" -> ScanArrayCode(k)
    [] k.name = "multipass" -> MultipassCode(k)

LoadEffect(k, i, t, v) ==
  LET base == i.trip * TileSize(k)
      kind == KindAt(k, 1).kind
      strided == [a \in 1..Cardinality(Strided(t, TileSize(k), k.threads)) |-> v.X[base + t + ((a - 1) * k.threads)]]
  IN CASE k.mept > 1 -> Put("acc", t, MeptFold(kind, [a \in 1..k.mept |-> v.X[base + (t * k.mept) + a - 1]]))
       [] Covered(k) -> Put("acc", t, SequentialFold(kind, strided))
       [] k.splat -> Put("acc", t, v.X[0])
       [] OTHER -> Put("acc", t, At(v.X, base + t))
UseEffect(k, i, t, v) ==
  LET g == Results(k)
      total == TileSize(k)
      row == StoreRow(k, Blocked(k), t)
      wide == Bottom(total, k.threads)
      sum(x, y) == IF k.float THEN Add(x, y) ELSE x + y
  IN CASE i.do = "store" -> Stored(k, "out", i.trip * g, Blocked(k), t, v.acc[t])
       [] i.do = "usedirect" -> Stored(k, "out", i.trip * g, FALSE, t, v.acc[t])
       [] i.do = "broadcast" -> IF t < wide THEN Put("out", (i.trip * wide) + t, Sub(v.X[(i.trip * total) + t], v.acc[t])) ELSE Nothing
       [] i.do \in {"carry", "carryrow"} -> Put("carry", t, sum(v.carry[t], v.acc[t]))
       [] i.do = "convertput" -> IF row >= 0 THEN Put("cv", row, v.acc[t]) ELSE Nothing
       [] i.do = "convertget" -> Put("acc", t, IF t < g THEN v.cv[t] ELSE 0)
       [] i.do = "end" ->
            IF k.use = "carry" THEN Stored(k, "out", 0, Blocked(k), t, v.carry[t])
            ELSE IF t < total THEN Put("out", t, Sub(v.X[t], v.carry[t])) ELSE Nothing
ReduceEffectOf(k, i, t, v) ==
  CASE i.do \in ReduceSteps -> ReduceEffect(k, i, t, v)
    [] i.do \in OrderedSteps -> OrderedEffect(k, i, t, v)
    [] i.do = "load" -> LoadEffect(k, i, t, v)
    [] i.do = "prestage" -> IF t < TileSize(k) THEN Put("sh", t, v.acc[t]) ELSE Nothing
    [] i.do \in {"mask", "narrow", "put64", "tree", "take64"} -> FlatEffect(k, i, t, v)
    [] k.name = "stages" /\ i.do \in {"stage", "axisfold", "publish2", "axisstore", "readback"} -> AxisEffect(k, i, t, v)
    [] k.name = "stages" -> UseEffect(k, i, t, v)
    [] i.do = "loadpair" -> [acc |-> t :> At(v.X, t), idx |-> t :> At(v.I, t)]
    [] i.do = "storepair" ->
         Merge(Stored(k, "out", 0, Blocked(k), t, v.acc[t]), Stored(k, "outx", 0, Blocked(k), t, v.idx[t]))
    [] k.name = "arg" -> IF Flat(k.shape, k.axes[1]) THEN ArgFlat(k, i, t, v) ELSE ArgAxis(k, i, t, v)
    [] i.do = "loadtriple" -> [acc |-> t :> At(v.X, t), m2 |-> t :> At(v.Y, t), wt |-> t :> At(v.W, t)]
    [] i.do = "storetriple" -> [out |-> 0 :> v.acc[t], outx |-> 0 :> v.m2[t], outw |-> 0 :> v.wt[t]]
    [] k.name = "welford" -> Welford(k, i, t, v)
    [] k.name = "scan" -> ScanEffect(k, i, t, v)
    [] k.name = "scanarray" -> ScanArray(k, i, t, v)
    [] k.name = "multipass" -> Multipass(k, i, t, v)

\* ---- what they must compute: the region folded over the elements in order -----------------
KeptDims(k) == FoldLeft(LAMBDA dims, axis : RemoveAt(dims, axis + 1), [d \in DOMAIN k.shape |-> d], k.axes)
ResultOf(k, e) == FoldLeft(LAMBDA r, d : (r * k.shape[d]) + Coord(k.shape, d, e), 0, KeptDims(k))
InOrder(k, S) == SelectSeq([n \in 1..TileSize(k) |-> n - 1], LAMBDA e : e \in S)
ElementsOf(k, r) == InOrder(k, {e \in 0..(TileSize(k) - 1) : ResultOf(k, e) = r})
FoldRegion(k, tuples) == FoldLeft(LAMBDA p, q : Evaluate(k.region, p \o q), tuples[1], Tail(tuples))
ReducedAt(k, A, j, r) ==
  Narrow(k, FoldRegion(k, [n \in DOMAIN ElementsOf(k, r) |-> <<A.X[(j * TileSize(k)) + ElementsOf(k, r)[n]]>>])[1])
SumTrips(k, A, r) ==
  FoldLeft(LAMBDA x, j : IF k.float THEN Add(x, ReducedAt(k, A, j, r)) ELSE x + ReducedAt(k, A, j, r), 0, [n \in 1..Trips(k) |-> n - 1])
TuplesOf(k, A, r) ==
  [n \in DOMAIN ElementsOf(k, r) |->
     LET e == ElementsOf(k, r)[n] IN IF k.name = "arg" THEN <<A.X[e], A.I[e]>> ELSE <<A.X[e], A.Y[e], A.W[e]>>]
\* the elements up to e of its row or column, in scan order
Upto(k, e) ==
  LET axis == ScanAxis(k)
      shape == ScanShape(k)
      line == {x \in 0..(TileSize(k) - 1) : \A d \in {1, 2} \ {axis + 1} : Coord(shape, d, x) = Coord(shape, d, e)}
  IN IF k.reverse THEN Reverse(InOrder(k, {x \in line : x >= e})) ELSE InOrder(k, {x \in line : x <= e})
ScannedAt(k, A, j, e) ==
  LET at(x) == SubSeq(<<A.X[(j * TileSize(k)) + x], A.Y[(j * TileSize(k)) + x]>>, 1, Slots(k))
  IN FoldRegion(k, [n \in DOMAIN Upto(k, e) |-> at(Upto(k, e)[n])])[Slots(k)]
StagesWant(k, A) ==
  LET g == Results(k)
      total == TileSize(k)
      wide == Bottom(total, k.threads)
  IN CASE k.use \in {"store", "convert"} -> [o \in DOMAIN A.out |-> ReducedAt(k, A, o \div g, o % g)]
       [] k.use = "broadcast" ->
            [o \in DOMAIN A.out |->
               LET e == o % wide
                   j == o \div wide
               IN Sub(A.X[(j * total) + e], ReducedAt(k, A, j, ResultOf(k, e)))]
       [] k.use = "carry" -> [r \in DOMAIN A.out |-> SumTrips(k, A, r)]
       [] k.use = "carryrow" -> [e \in DOMAIN A.out |-> Sub(A.X[e], SumTrips(k, A, ResultOf(k, e)))]
ReduceWant(k) ==
  LET A == ReduceArrays(k).dev
      span == Top(TileSize(k), k.threads)
      slot(j) == [r \in DOMAIN A.out |-> FoldRegion(k, TuplesOf(k, A, r))[j]]
      all == ReducedAt(k, A, 0, 0)
  \* contradictory metadata must be refused: no result is right
  IN CASE k.damage # "none" -> [out |-> A.out]
       [] k.name = "stages" -> [out |-> StagesWant(k, A)]
       [] k.name = "arg" -> [out |-> slot(1), outx |-> slot(2)]
       [] k.name = "welford" -> [out |-> slot(1), outx |-> slot(2), outw |-> slot(3)]
       [] k.name = "scan" ->
            [out |-> [o \in {x \in DOMAIN A.out : x % span < TileSize(k) \/ Short(k)} |->
                        ScannedAt(k, A, o \div span, (o % span) % TileSize(k))]]
       [] k.name = "scanarray" -> [out |-> [e \in DOMAIN A.out |-> ScannedAt(k, A, 0, e)]]
       [] k.name = "multipass" -> [out |-> [e \in DOMAIN A.out |-> Mul(5, Sub(A.X[e], all))], once |-> (0 :> all)]

\* ---- instances --------------------------------------------------------------------------
Stages(with) == ReduceOf("stages", with)
Ints(op, type) == [region |-> PlainRegion(op), type |-> type, float |-> FALSE]
Tile(shape, axes, use) == [shape |-> shape, axes |-> axes, use |-> use, threads |-> Product(shape)]
TakesFirst == Selecting("cmpf", "ogt", "a", "b", "a", "b")
LastLeast == Selecting("cmpf", "ole", "a", "b", "a", "b")
FlatInstances ==
  <<Stages([nanat |-> 2, region |-> PlainRegion("maxnumf")]), Stages([nanat |-> 2, region |-> PlainRegion("maximumf")]),
    Stages([region |-> PlainRegion("mulf"), shape |-> <<1, 4>>, axes |-> <<1>>]), Stages([shape |-> <<3>>]),
    Stages(Ints("minui", "i32")), Stages(Ints("maxui", "i32")), Stages(Ints("addi", "i8")), Stages(Ints("xori", "i1")),
    Stages([shape |-> <<3>>] @@ Ints("andi", "i32")), Stages([shape |-> <<3>>] @@ Ints("maxsi", "i32")),
    Stages([region |-> Selecting("cmpi", "ult", "b", "a", "b", "a"), type |-> "i32", float |-> FALSE]),
    Stages([splat |-> TRUE, shape |-> <<3>>]), Stages([mept |-> 3, shape |-> <<12>>] @@ Ints("maxsi", "i32")),
    Stages([trips |-> 2, use |-> "carry"]), Stages([trips |-> 2, shape |-> <<10>>, use |-> "carry"]),
    Stages([trips |-> 2, shape |-> <<8>>, outside |-> <<[id |-> "x", op |-> "load", args |-> <<>>, tensor |-> TRUE]>>]),
    Stages(Ints("muli", "i64")), Stages([shape |-> <<3>>, threads |-> 3] @@ Ints("addi", "i64")),
    Stages([threads |-> 3, shape |-> <<3>>]),
    Stages([region |-> TakesFirst]), Stages([region |-> LastLeast, threads |-> 2, shape |-> <<2>>, simd |-> 4]),
    Stages([region |-> NanSelecting("ogt", "a", "b", "a"), nanat |-> 1]),
    Stages([region |-> NanSelecting("olt", "b", "a", "b"), nanat |-> 3]), Stages([region |-> TakesFirst, shape |-> <<3>>]),
    Stages([region |-> SumRelu]), Stages([region |-> Dead]), Stages([damage |-> "type"]), Stages([damage |-> "owner"])>>
AxisInstances ==
  <<Stages(Tile(<<2, 3>>, <<1>>, "store")), Stages([region |-> PlainRegion("maxnumf")] @@ Tile(<<2, 3>>, <<0>>, "store")),
    Stages(Tile(<<2, 2>>, <<1>>, "broadcast")), Stages([alias |-> FALSE] @@ Tile(<<2, 2>>, <<0>>, "broadcast")),
    Stages(Tile(<<2, 2>>, <<1>>, "convert")), Stages(Tile(<<1, 4>>, <<1>>, "broadcast")),
    Stages([region |-> TakesFirst, nanat |-> 1] @@ Tile(<<2, 2>>, <<1>>, "store")),
    Stages([staged |-> TRUE] @@ Tile(<<2, 2>>, <<0>>, "store")), Stages([threads |-> 6] @@ Tile(<<2, 2>>, <<1>>, "store")),
    Stages([trips |-> 2] @@ Tile(<<2, 2>>, <<1>>, "store")), Stages([trips |-> 2] @@ Tile(<<2, 2>>, <<1>>, "carryrow")),
    Stages([trips |-> 2] @@ Tile(<<2, 2>>, <<1>>, "carry")), Stages([sibling |-> TRUE] @@ Tile(<<2, 2>>, <<1>>, "store")),
    Stages([type |-> "f16", trips |-> 2] @@ Tile(<<2, 2>>, <<1>>, "store")),
    Stages([threads |-> 4] @@ Tile(<<2, 3>>, <<1>>, "store")),
    Stages(Tile(<<2, 3, 1>>, <<0>>, "broadcast")), Stages(Tile(<<1, 2, 3>>, <<1>>, "broadcast")),
    Stages(Tile(<<3, 1, 2>>, <<2>>, "broadcast")), Stages([threads |-> 4] @@ Tile(<<2, 2, 2>>, <<1>>, "broadcast")),
    Stages([threads |-> 4] @@ Tile(<<2, 2, 1>>, <<2, 1>>, "store")),
    Stages(Tile(<<2, 1, 2, 1>>, <<2>>, "broadcast") @@ Ints("xori", "i32")),
    Stages(Tile(<<2, 1, 1, 2>>, <<1, 1, 1>>, "store") @@ Ints("xori", "i32")), Stages(Tile(<<2, 1, 2, 1>>, <<1>>, "broadcast"))>>
ArgRegion(pred) == [region |-> PairRegion("cmpi", pred, "eq"), type |-> "i32", float |-> FALSE]
TupleInstances ==
  <<ReduceOf("arg", [region |-> PairRegion("cmpf", "ogt", "oeq")]), ReduceOf("arg", ArgRegion("ugt")),
    ReduceOf("arg", ArgRegion("slt") @@ [threads |-> 3, shape |-> <<3>>, simd |-> 4]),
    ReduceOf("arg", ArgRegion("ult") @@ Tile(<<2, 3>>, <<1>>, "store")),
    ReduceOf("arg", [region |-> PairRegion("cmpf", "olt", "oeq")] @@ Tile(<<3, 2>>, <<0>>, "store")),
    ReduceOf("arg", [region |-> ByKey, type |-> "i32", float |-> FALSE]),
    ReduceOf("welford", [region |-> WelfordRegion(FALSE)]), ReduceOf("welford", [region |-> WelfordRegion(TRUE), simd |-> 4]),
    ReduceOf("welford", [region |-> WeightedMean])>>
ScanInstances ==
  <<ReduceOf("scan", [shape |-> <<3>>]), ReduceOf("scan", [reverse |-> TRUE, trips |-> 2]),
    ReduceOf("scan", [region |-> Affine]), ReduceOf("scan", [region |-> Affine, reverse |-> TRUE] @@ Tile(<<2, 3>>, <<1>>, "store")),
    ReduceOf("scan", Tile(<<3, 2>>, <<0>>, "store")), ReduceOf("scan", [shape |-> <<10>>]),
    ReduceOf("scanarray", [mept |-> 2, shape |-> <<8>>, widths |-> <<2, 2>>, region |-> Affine]),
    ReduceOf("scanarray", [mept |-> 2, shape |-> <<8>>, widths |-> <<0, 2>>, splat |-> TRUE, region |-> Affine]),
    ReduceOf("scanarray", [mept |-> 2, shape |-> <<2, 4>>, axes |-> <<1>>, widths |-> <<2>>, reverse |-> TRUE]),
    ReduceOf("scanarray", [mept |-> 2, shape |-> <<4, 2>>, widths |-> <<2>>]),
    ReduceOf("scanarray", [mept |-> 2, shape |-> <<8>>, widths |-> <<2>>, declared |-> 100]),
    ReduceOf("multipass", [shape |-> <<8>>]), ReduceOf("multipass", [shape |-> <<8>>, region |-> LastLeast]),
    ReduceOf("multipass", [shape |-> <<8>>, total |-> 16]), ReduceOf("multipass", [shape |-> <<8>>, sharers |-> 2])>>
ReduceInstances == FlatInstances \o AxisInstances \o TupleInstances \o ScanInstances

------------------------------------------------------------------------------
(***************************************************************************)
(* Loops, branches and atomics as the source program means them: yields    *)
(* are simultaneous, a while ends when its condition fails, an atomic      *)
(* happens once per logical element.  And the instances.                   *)
(***************************************************************************)
LoopNames == {"for", "while", "branch"}
AtomicNames == {"rmw", "cas"}
ControlNames == LoopNames \cup AtomicNames

\* ---- kernels ------------------------------------------------------------------------
ControlBase ==
  [threads |-> 2, simd |-> 2, groups |-> 1, poison |-> FALSE, carries |-> <<>>, single |-> FALSE, wrapped |-> FALSE, bounds |-> "i32",
   start |-> 0, to |-> 3, step |-> 1, most |-> 0, limited |-> 1, limit |-> 0, body |-> <<>>, results |-> <<>>, id_ |-> 9, side |-> 2,
   size |-> 4]
ControlOf(name, with) == with @@ [name |-> name] @@ ControlBase
Carry(type, init, spread, yield) ==
  [ptr |-> "none", type |-> type, init |-> init, spread |-> spread, yield |-> yield, shape |-> <<2>>]
Address(init, yield) == [Carry("f32", init, 1, yield) EXCEPT !.ptr = "scalar"]
Addresses(init, yield) == [Carry("f32", init, 1, yield) EXCEPT !.ptr = "array", !.shape = <<4>>]
Wide(type, init, yield) == [Carry(type, init, 1, yield) EXCEPT !.shape = <<4>>]
Keep(j) == [kind |-> "arg", from |-> j]
Plus(j, c) == [kind |-> "plus", from |-> j, by |-> c]
GatherFrom(j, p) == [kind |-> "gather", from |-> j, at |-> p]
Index(j) == [kind |-> "index", from |-> j]
Branch_(type, then, else) ==
  [ptr |-> FALSE, type |-> type, outside |-> TRUE, then |-> then, else |-> else, spread |-> 1, lot |-> 1, branches |-> {"scalar"}]
PointerResult(j, then, else) ==
  [Branch_("f32", then, else) EXCEPT !.ptr = TRUE] @@
  [pointee |-> "f32", meta |-> [schema |-> 1, producer |-> 9, index |-> j - 1, space |-> 1, known |-> TRUE]]

AtomicBase ==
  [threads |-> 2, simd |-> 2, groups |-> 1, poison |-> FALSE, op |-> "add", type |-> "i32", shape |-> <<2>>, cells |-> <<0, 1, 0, 2>>,
   values |-> <<3, 5, 9, 6>>, mask |-> <<TRUE, TRUE, TRUE, TRUE>>, sem |-> "relaxed", scope |-> "gpu", target |-> 32, device |-> 32,
   single |-> FALSE, wrapped |-> FALSE, spurious |-> 0, compare |-> 7, then |-> "drop", ops |-> <<>>, damage |-> "none"]
AtomicLanes(k, sig) == [tensor |-> k.shape # <<>>, shape |-> k.shape, layout |-> IF k.shape = <<>> THEN "none" ELSE "blocked", sig |-> sig]
AtomicOf(name, with) ==
  LET k == with @@ [name |-> name] @@ AtomicBase
      data == AtomicLanes(k, k.type)
      sound == [op |-> name, result |-> data, pointer |-> [space |-> 1, pointee |-> k.type] @@ AtomicLanes(k, "pointer"),
                second |-> data, third |-> IF name = "cas" THEN data ELSE AtomicLanes(k, "i1")]
  IN [contract |-> CASE k.damage = "none" -> sound
                     [] k.damage = "pointee" -> [sound EXCEPT !.pointer.pointee = "i64"]
                     [] k.damage = "lanes" -> [sound EXCEPT !.second.shape = <<4>>]] @@ k
ControlAdmitted(k) ==
  CASE k.name = "for" -> ForAdmits(k)
    [] k.name = "while" -> WhileAdmits(k)
    [] k.name = "branch" -> IfAdmits(k)
    [] OTHER -> AtomicAdmits(k)
ControlCode(k, t) ==
  CASE k.name = "for" -> LoopCode(k)
    [] k.name = "while" -> WhileCode(k)
    [] k.name = "branch" -> IfCode(k)
    [] OTHER -> AtomicCode(k, t)
ControlEffectOf(k, g, i, t, v) ==
  IF k.name \in AtomicNames THEN AtomicEffect(k, g, i, t, v) ELSE ControlEffect(k, g, i, t, v)

OutputCells(k) == IF k.name = "branch" THEN Len(k.results) * k.threads * k.groups ELSE k.size * Len(k.carries)
Words16(k) == [w \in 0..1 |-> (20 + w) + (Base16 * (30 + w))]
ControlArrays(k) ==
  LET variables == UNION {Range(Variables(k, t)) : t \in Threads(k)}
      chosen == {<<t, j, 0>> : t \in Threads(k), j \in DOMAIN k.results}
      cells == variables \cup chosen
  IN IF k.name \in AtomicNames
     THEN [dev |-> [P |-> IF Half16(k) THEN Words16(k) ELSE Filled(4, IF k.then = "last" THEN 0 ELSE 7), out |-> Filled(k.threads * k.groups, NaN),
                    part |-> Filled(k.groups, NaN), once |-> (0 :> 0)],
           tg |-> [one |-> (0 :> NaN)],
           reg |-> [a \in {"old", "expected"} |-> Filled(k.threads, NaN)] @@ [tries |-> Filled(k.threads, 0)]
                   @@ [f \in {OkFlags[t + 1] : t \in Threads(k)} |-> (0 :> 0)]]
     ELSE [dev |-> [X |-> Input(1, 16), out |-> Filled(OutputCells(k), NaN)], tg |-> [sh |-> Filled(4, NaN), rs |-> Filled(4, NaN)],
           reg |-> [c |-> [x \in cells |-> NaN], nx |-> [x \in cells |-> NaN], stop |-> Filled(k.threads, 0)]]

\* ---- what they mean -----------------------------------------------------------------
\* the values of one element after n trips: every yield reads the old values
RECURSIVE Carriages(_, _, _, _)
Carriages(k, X, e, n) ==
  IF n = 0 THEN [j \in DOMAIN k.carries |-> k.carries[j].init + (k.carries[j].spread * e)]
  ELSE LET old == Carriages(k, X, e, n - 1) IN
       [j \in DOMAIN k.carries |->
          LET y == k.carries[j].yield IN
          CASE y.kind = "arg" -> old[y.from]
            [] y.kind = "plus" -> old[y.from] + y.by
            [] y.kind = "index" -> old[y.from] + k.start + ((n - 1) * k.step)
            [] y.kind = "gather" -> old[y.from] + At(X, old[y.at])
            [] y.kind = "splat" -> y.by]
WhileTrips(k, X, e) ==
  CHOOSE n \in 0..k.most : /\ n = k.most \/ Carriages(k, X, e, n)[k.limited] >= k.limit
                           /\ \A m \in 0..(n - 1) : Carriages(k, X, e, m)[k.limited] < k.limit
LoopWant(k) ==
  LET X == ControlArrays(k).dev.X
      trips(e) == IF k.name = "while" THEN WhileTrips(k, X, e) ELSE ForTrips(k)
      elements == Product(k.carries[1].shape)
      result(j, e) == LET x == Carriages(k, X, e, trips(e))[j] IN IF k.carries[j].ptr = "none" THEN x ELSE At(X, x)
      gemm(x) == Total([a \in 0..(k.side - 1) |-> Mul(X[((x \div k.side) * k.side) + a], X[(a * k.side) + (x % k.side)])])
  IN IF SharedCarry(k) THEN [out |-> [x \in 0..(elements - 1) |-> Add(k.carries[1].init, Mul(ForTrips(k), gemm(x)))]]
     ELSE [out |-> [x \in {((j - 1) * k.size) + e : j \in DOMAIN k.carries, e \in 0..(elements - 1)} |->
                      result((x \div k.size) + 1, x % k.size)]]
BranchWant(k) ==
  LET n == Len(k.results)
      X == ControlArrays(k).dev.X
      result(g, j, t) == LET r == k.results[j]
                             x == (IF g % 2 = 0 THEN r.then ELSE r.else) + (r.spread * t)
                         IN IF r.ptr THEN At(X, x) ELSE x
  IN [out |-> [x \in 0..(OutputCells(k) - 1) |-> result(x \div (n * k.threads), ((x \div k.threads) % n) + 1, x % k.threads)]]

\* the logical elements of an atomic: each happens once
Logical(k) == IF k.shape = <<>> THEN {0} ELSE {t \in 0..(k.shape[1] - 1) : k.mask[t + 1]}
Element16(w, e) == (w[e \div 2] \div (IF e % 2 = 0 THEN 1 ELSE Base16)) % Base16
AtomicWant(k) ==
  LET start == ControlArrays(k).dev.P
      at(e) == {t \in Logical(k) : k.cells[t + 1] = e}
      old(e) == IF Half16(k) THEN Element16(start, e) ELSE start[e]
      final(e) ==
        CASE at(e) = {} -> old(e)
          [] k.name = "cas" -> IF old(e) = k.compare THEN k.values[1] ELSE old(e)
          [] k.op = "exch" -> k.values[(CHOOSE t \in at(e) : TRUE) + 1]
          [] k.then = "last" -> old(e) + (k.groups * k.values[1])
          [] OTHER -> FoldFunction(LAMBDA x, y : Fold2(RmwFold(k), x, y), old(e), [t \in at(e) |-> k.values[t + 1]])
      word(w) == final(2 * w) + (Base16 * final((2 * w) + 1))
  IN [P |-> [x \in DOMAIN start |-> IF Half16(k) THEN word(x) ELSE final(x)]]
     @@ (IF k.then = "keep" THEN [out |-> [x \in DOMAIN ControlArrays(k).dev.out |-> old(k.cells[IF Single(k) THEN 1 ELSE x + 1])]] ELSE <<>>)
     @@ (IF k.then = "claims" THEN [once |-> (0 :> 1)] ELSE <<>>)
     @@ (IF k.then = "last" THEN [once |-> (0 :> Total([g \in 0..(k.groups - 1) |-> k.values[1] * (g + 1)]))] ELSE <<>>)
ControlWant(k) ==
  CASE k.name \in {"for", "while"} -> LoopWant(k) [] k.name = "branch" -> BranchWant(k) [] OTHER -> AtomicWant(k)

\* ---- instances ------------------------------------------------------------------------
For(with) == ControlOf("for", with)
\* the accumulator reads through a pointer that moves on
Scalars == <<Address(0, Plus(1, 2)), Carry("f32", 1, 0, GatherFrom(2, 1)), Carry("i32", 5, 1, Index(3))>>
Swapping == <<Address(0, Keep(2)), Address(8, Plus(1, 1)), Carry("f32", 0, 0, GatherFrom(3, 1))>>
\* the accumulator exchanges its value with the one before it: refused by nothing
SwappedScalars == <<Carry("f32", 3, 0, Keep(2)), Carry("f32", 10, 0, Keep(1))>>
Operation(id, op, args) == [id |-> id, op |-> op, args |-> args, region |-> <<>>, else |-> <<>>, blocks |-> <<>>, results |-> <<>>]
Accumulated == [Carry("f32", 2, 1, Plus(1, 3)) EXCEPT !.shape = <<2, 2>>]
InnerLoop == [Operation("f", "for", <<"l", "u", "s", "x">>) EXCEPT !.blocks = <<"i", "b">>, !.results = <<"r">>,
                                                                    !.region = <<Operation("y", "arith", <<"b">>)>>]
InnerBranch == [Operation("q", "if", <<"cond">>) EXCEPT !.region = <<Operation("y", "yield", <<"acc">>)>>]
LoopInstances ==
  <<For([carries |-> Scalars]), For([carries |-> Swapping]), For([carries |-> Scalars, start |-> 2, to |-> 2]),
    For([carries |-> Scalars, start |-> -3, to |-> 2, step |-> 2]),
    For([carries |-> <<Address(9, Plus(1, -3)), Carry("i32", 0, 1, GatherFrom(2, 1))>>]),
    For([carries |-> <<Carry("i64", 70000, 0, Plus(1, 40000)), Carry("f32", 3, 0, Plus(2, 5)), Carry("i32", 1, 0, Index(3))>>]),
    For([bounds |-> "i64", carries |-> Scalars]),
    For([single |-> TRUE, carries |-> <<Addresses(0, Plus(1, 1)), Wide("f32", 0, GatherFrom(2, 1)), Wide("i32", 1, Index(3))>>]),
    For([single |-> TRUE, carries |-> <<Addresses(0, Keep(2)), Addresses(6, Keep(1)), Wide("f32", 0, GatherFrom(3, 1))>>]),
    For([single |-> TRUE, carries |-> <<Wide("f32", 0, Plus(2, 1)), Carry("f32", 1, 0, Plus(2, 1))>>]),
    For([carries |-> <<[Carry("f32", 4, 0, Plus(1, 0)) EXCEPT !.shape = <<2, 2>>]>>]),
    For([wrapped |-> TRUE, carries |-> <<Accumulated>>, body |-> <<Operation("x", "arith", <<"acc", "v">>), InnerLoop, InnerBranch>>]),
    For([wrapped |-> TRUE, carries |-> <<Accumulated>>,
         body |-> <<InnerBranch, Operation("d", "reduce", <<"q">>)>>])>>
While(with) == ControlOf("while", with)
WhileInstances ==
  <<While([carries |-> <<Address(0, Plus(1, 2)), Carry("f32", 1, 90, GatherFrom(2, 1))>>, most |-> 4, limited |-> 2, limit |-> 150]),
    While([carries |-> <<Address(3, Keep(2)), Address(9, Plus(1, -1)), Carry("i32", 0, 2, Plus(3, 1))>>, most |-> 3, limited |-> 3, limit |-> 3])>>
If(results) == ControlOf("branch", [groups |-> 2, results |-> results])
IfInstances ==
  <<If(<<Branch_("f32", 3, 10), Branch_("i32", 4, -4), Branch_("i64", 100000, 7)>>),
    If(<<PointerResult(1, 2, 9), [Branch_("f32", 3, 5) EXCEPT !.spread = 0]>>),
    If(<<[Branch_("i32", 3, 10) EXCEPT !.outside = FALSE, !.spread = 0]>>),
    If(<<[Branch_("unknown", 3, 10) EXCEPT !.outside = FALSE]>>), If(<<[Branch_("f32", 3, 10) EXCEPT !.lot = 2]>>),
    If(<<[PointerResult(1, 2, 9) EXCEPT !.meta.index = 1]>>)>>
Rmw(with) == AtomicOf("rmw", with)
Cas(with) == AtomicOf("cas", with)
Four == [threads |-> 4, simd |-> 2, shape |-> <<4>>]
Float == [type |-> "f32"]
AtomicInstances ==
  <<Rmw([shape |-> <<>>, then |-> "keep"]), Rmw([shape |-> <<1>>, then |-> "keep"]),
    Rmw(Four @@ [mask |-> <<TRUE, FALSE, TRUE, TRUE>>]), Rmw([shape |-> <<3>>] @@ Four), Rmw(Four @@ [op |-> "umax"]),
    Rmw([op |-> "exch", cells |-> <<1, 3>>, then |-> "keep"]), Rmw(Four @@ [op |-> "xor", mask |-> <<TRUE, TRUE, FALSE, TRUE>>]),
    Rmw(Float @@ [cells |-> <<0, 0>>, spurious |-> 1]), Rmw(Float @@ [op |-> "exch", shape |-> <<>>, then |-> "keep"]),
    Rmw([type |-> "f16", cells |-> <<0, 1>>, spurious |-> 1]), Rmw([type |-> "bf16", cells |-> <<3, 3>>]),
    Rmw([type |-> "f16", op |-> "exch", cells |-> <<2, 3>>]),
    Cas([cells |-> <<0, 0>>, values |-> <<11, 11>>, then |-> "claims", spurious |-> 1]),
    Cas([cells |-> <<1, 2>>, values |-> <<11, 11>>, compare |-> 8, then |-> "keep"]),
    Cas(Float @@ [shape |-> <<>>, then |-> "keep", spurious |-> 2]), Cas([shape |-> <<1>>, then |-> "keep"]),
    Rmw([shape |-> <<>>, groups |-> 2, sem |-> "acq_rel", then |-> "last", values |-> <<1>>, compare |-> 0]),
    \* refused
    Rmw([damage |-> "pointee"]), Rmw([damage |-> "lanes"]), Rmw([type |-> "i64"]), Rmw(Float @@ [op |-> "max"]),
    Rmw([sem |-> "unknown"]), Rmw([scope |-> "sys", sem |-> "acquire"]), Rmw([sem |-> "release", target |-> 31]),
    Rmw([shape |-> <<4>>]), Rmw([shape |-> <<>>, wrapped |-> TRUE]),
    Rmw([shape |-> <<>>, ops |-> <<[id |-> "loop", op |-> "for", args |-> <<>>, reduces |-> TRUE],
                                   [id |-> "value", op |-> "arith", args |-> <<"loop">>, reduces |-> FALSE]>>])>>
ControlInstances == LoopInstances \o WhileInstances \o IfInstances \o AtomicInstances
==============================================================================

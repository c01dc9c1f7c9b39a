----------------------------- MODULE KdaTemplates -----------------------------
(***************************************************************************)
(* The templates dispatched directly, without a Triton kernel              *)
(* (codegen/_msl_templates.py): the chunked prefill and the decode step of *)
(* the gated delta rule, whose prefill abandons its chunk algebra for a    *)
(* recurrent replay when a value leaves the finite domain, and the three   *)
(* kernels of the trainable flash attention.  k.frag stands for 8,         *)
(* k.tiles for the 2 fragments of a 16-row block.                          *)
(***************************************************************************)
EXTENDS Threadgroup

\* ---- the gated delta rule --------------------------------------------------------
Token(k, g, r) == (g * k.T) + r
\* the columns of a matrix of D columns that SIMD group s owns
Owned(k, s, rows) == {x \in 0..((rows * k.D) - 1) : (x % k.D) \div (k.D \div SimdCount(k)) = s}

KdaChunk(c, C, P) ==
  <<BranchIf("replay", P), RunAt("gate", c), Atomic("flag"), Barrier,
    BranchIf("replay", P), RunAt("split", c), Atomic("flag"), Barrier,
    BranchIf("replay", P), Lanes("readread"), Barrier, RunAt("strict", c), Barrier, Lanes("carried"), Barrier,
    RunAt("rhs", c), Barrier>>
  \o FlattenSeq([i \in 1..C |-> <<RunAt("solve", i - 1), Barrier>>])
  \o <<Lanes("queryread"), Barrier, Run("tril"), Barrier, LanesAt("out", c), Barrier,
       Run("carry"), Atomic("flag"), BarrierOf({"tg", "dev"}), RunAt("diagnose", c), Atomic("flag"), Barrier>>
KdaReplay(k) ==
  <<Run("zero"), Barrier>>
  \o FlattenSeq([r \in 1..k.T |->
       FlattenSeq([x \in 1..4 |-> <<RunAt(<<"decay", "read", "correct", "answer">>[x], r - 1), Barrier>>])])
\* the mutant: no barrier between the scan of the inputs and the first branch
KdaCodeOpen(k) ==
  LET chunks == k.T \div k.C
      P == 5 + (chunks * Len(KdaChunk(0, k.C, 0)))
      replay == KdaReplay(k)
  IN <<Atomic("clear"), Barrier, Run("scan"), Atomic("flag")>>
     \o FlattenSeq([c \in 1..chunks |-> KdaChunk(c - 1, k.C, P)])
     \o <<BranchUnless("replay", P + 1 + Len(replay))>> \o replay
KdaCode(k) ==
  LET chunks == k.T \div k.C
      length == Len(KdaChunk(0, k.C, 0))
      P == 6 + (chunks * length)
      replay == KdaReplay(k)
  IN <<Atomic("clear"), Barrier, Run("scan"), Atomic("flag"), Barrier>>
     \o FlattenSeq([c \in 1..chunks |-> KdaChunk(c - 1, k.C, P)])
     \o <<BranchUnless("replay", P + 1 + Len(replay))>> \o replay

Bad(t, b) == "bad" :> (t :> IF b THEN 1 ELSE 0)
KdaChunked(k, g, i, t, v) ==
  LET rows == Mine(k, t, k.C * k.D)
      row(x) == x \div k.D
      token(x) == Token(k, g, (i.i * k.C) + row(x))
      io(f, x) == At(f, (token(x) * k.D) + (x % k.D))
      lead == LaneOf(k, t) = 0
      own(n) == Owned(k, SimdOf(k, t), n)
      square == Mine(k, t, k.C * k.C)
      Over(n, f(_)) == Total([x \in 0..(n - 1) |-> f(x)])
      product(A, B, x) == Over(k.D, LAMBDA l : Mul(A[((x \div k.C) * k.D) + l], B[((x % k.C) * k.D) + l]))
      fromState(A, x) == Over(k.D, LAMBDA l : Mul(A[(row(x) * k.D) + l], v.S[(l * k.D) + (x % k.D)]))
      beta(r) == At(v.beta, Token(k, g, (i.i * k.C) + r))
      gate(x) == FoldLeft(LAMBDA b, r : Mul(b, At(v.a, (Token(k, g, (i.i * k.C) + r - 1) * k.D) + (x % k.D))), 1,
                          [r \in 1..(row(x) + 1) |-> r])
      carry(x) == Mul(v.B[((k.C - 1) * k.D) + row(x)],
                      Add(v.S[x], Over(k.C, LAMBDA r : Mul(v.KT[(r * k.D) + row(x)], v.W[(r * k.D) + (x % k.D)]))))
  IN CASE i.do = "gate" ->
            LET mine == {x \in 0..((k.C * k.D) - 1) : x % k.D = t}
                B == Table([x \in mine |-> gate(x)])
            IN [B |-> B] @@ Bad(t, {0, NaN} \cap Range(B) # {})
       [] i.do = "split" ->
            LET QT == [x \in rows |-> Mul(io(v.q, x), v.B[x])]
                KT == [x \in rows |-> Div(io(v.k, x), v.B[x])]
                KH == [x \in rows |-> Mul(io(v.k, x), v.B[x])]
            IN [QT |-> QT, KT |-> KT, KH |-> KH] @@ Bad(t, NaN \in Range(QT) \cup Range(KT) \cup Range(KH))
       [] i.do = "readread" /\ SimdOf(k, t) = 0 /\ lead -> [M |-> [x \in 0..((k.C * k.C) - 1) |-> product(v.KH, v.KT, x)]]
       [] i.do = "strict" ->
            [M |-> [x \in square |-> IF x % k.C < x \div k.C THEN Mul(beta(x \div k.C), v.M[x]) ELSE 0]]
       [] i.do = "carried" /\ lead -> [W |-> [x \in own(k.C) |-> fromState(v.KH, x)]]
       [] i.do = "rhs" -> [W |-> [x \in rows |-> Mul(beta(row(x)), Sub(io(v.v, x), v.W[x]))]]
       [] i.do = "solve" ->
            [W |-> [x \in Shift(i.i * k.D, Mine(k, t, k.D)) |->
               Sub(v.W[x], Over(i.i, LAMBDA j : Mul(v.M[(i.i * k.C) + j], v.W[(j * k.D) + (x % k.D)])))]]
       [] i.do = "queryread" /\ SimdOf(k, t) = 0 /\ lead -> [M |-> [x \in 0..((k.C * k.C) - 1) |-> product(v.QT, v.KT, x)]]
       [] i.do = "tril" -> [M |-> [x \in {y \in square : y % k.C > y \div k.C} |-> 0]]
       [] i.do = "out" /\ lead ->
            LET at(x) == (Token(k, g, i.i * k.C) * k.D) + x
                o == [x \in own(k.C) |->
                        Add(fromState(v.QT, x), Over(k.C, LAMBDA j : Mul(v.M[(row(x) * k.C) + j], v.W[(j * k.D) + (x % k.D)])))]
            IN [Out |-> [y \in {at(x) : x \in own(k.C)} |-> Cast(k, o[y - at(0)])]]
       [] i.do = "carry" ->
            LET S == Table([x \in Mine(k, t, k.D * k.D) |-> carry(x)]) IN [S |-> S] @@ Bad(t, NaN \in Range(S))
       [] i.do = "diagnose" -> Bad(t, \E x \in rows : NaN \in {v.W[x], io(v.Out, x)})
       [] OTHER -> Nothing

\* the documented recurrence, from the zero state
KdaRecurrent(k, g, i, t, v) ==
  LET cells == Mine(k, t, k.D * k.D)
      io(f, l) == At(f, (Token(k, g, i.i) * k.D) + l)
      column(f, j) == Total([l \in 0..(k.D - 1) |-> Mul(io(f, l), v.S[(l * k.D) + j])])
  IN CASE i.do = "zero" -> [S |-> [x \in cells |-> 0]]
       [] i.do = "decay" -> [S |-> [x \in cells |-> Mul(io(v.a, x \div k.D), v.S[x])]]
       [] i.do = "read" /\ t < k.D -> Put("W", t, column(v.k, t))
       [] i.do = "correct" ->
            [S |-> [x \in cells |->
               Add(v.S[x], Mul(At(v.beta, Token(k, g, i.i)), Mul(io(v.k, x \div k.D), Sub(io(v.v, x % k.D), v.W[x % k.D]))))]]
       [] i.do = "answer" /\ t < k.D -> Put("Out", (Token(k, g, i.i) * k.D) + t, Cast(k, column(v.q, t)))
       [] OTHER -> Nothing
Kda(k, g, i, t, v) ==
  LET scanned == {(Token(k, g, 0) * k.D) + x : x \in Mine(k, t, k.T * k.D)} IN
  CASE i.do = "clear" -> IF t = 0 THEN Put("replay", 0, 0) ELSE Nothing
    [] i.do = "flag" -> IF v.bad[t] = 1 THEN Put("replay", 0, 1) ELSE Nothing
    [] i.do = "scan" ->
         [S |-> [x \in Mine(k, t, k.D * k.D) |-> 0]]
         @@ Bad(t, \/ \E x \in scanned : NaN \in {At(v.q, x), At(v.k, x), At(v.v, x), At(v.a, x)}
                   \/ \E r \in Mine(k, t, k.T) : At(v.beta, Token(k, g, r)) = NaN)
    [] i.do \in {"zero", "decay", "read", "correct", "answer"} -> KdaRecurrent(k, g, i, t, v)
    [] OTHER -> KdaChunked(k, g, i, t, v)

\* one token, the state in device memory updated in place
DecodeStepCode == <<Run("u"), BarrierOf({"tg", "dev"}), Run("S"), BarrierOf({"tg", "dev"}), Run("out")>>
KdaDecode(k, g, i, t, v) ==
  LET S0 == g * k.D * k.D
      io(f, l) == At(f, (g * k.D) + l)
      cells == Shift(S0, Mine(k, t, k.D * k.D))
      row(x) == (x - S0) \div k.D
      col(x) == (x - S0) % k.D
      read(j, w(_)) == Total([l \in 0..(k.D - 1) |-> Mul(w(l), v.State[S0 + (l * k.D) + j])])
  IN CASE i.do = "u" -> [u |-> [j \in Mine(k, t, k.D) |-> read(j, LAMBDA l : Mul(io(v.k, l), io(v.a, l)))]]
       [] i.do = "S" ->
            [State |-> [x \in cells |->
               Add(Mul(io(v.a, row(x)), v.State[x]),
                   Mul(At(v.beta, g), Mul(io(v.k, row(x)), Sub(io(v.v, col(x)), v.u[col(x)]))))]]
       [] i.do = "out" -> [Out |-> [x \in Shift(g * k.D, Mine(k, t, k.D)) |-> read(x - (g * k.D), LAMBDA l : io(v.q, l))]]

\* ---- the trainable flash attention -------------------------------------------------
BlockSide(k) == k.tiles * k.frag
TileCells(k, t) == Mine(k, t, BlockSide(k) * k.D)
PairCells(k, t) == Mine(k, t, BlockSide(k) * BlockSide(k))
BlockCount(k) == k.n \div BlockSide(k)
\* cell x of the tile that starts at row r0 of head h
TileAt(k, f, h, r0, x) == At(f, (((h * k.n) + r0) * k.D) + x)
\* the fragment-wide columns SIMD group s accumulates
ColumnsOf(k, s) == {x \in 0..((BlockSide(k) * k.D) - 1) : (x % k.D) \div k.frag = s}

\* S by the first tiles^2 SIMD groups, dO V^T by the others
PairProducts(k, t, v) ==
  LET n == k.tiles * k.tiles
      s == SimdOf(k, t) % n
      first == SimdOf(k, t) < n
      mine == {x \in 0..((BlockSide(k) * BlockSide(k)) - 1) :
                 (x \div BlockSide(k)) \div k.frag = s \div k.tiles /\ (x % BlockSide(k)) \div k.frag = s % k.tiles}
      dot(A, B, x) == Total([d \in 0..(k.D - 1) |-> Mul(A[((x \div BlockSide(k)) * k.D) + d], B[((x % BlockSide(k)) * k.D) + d])])
  IN IF LaneOf(k, t) # 0 THEN Nothing
     ELSE IF first THEN [Ss |-> [x \in mine |-> dot(v.Qi, v.Kj, x)]]
     ELSE [Ds |-> [x \in mine |-> dot(v.dOi, v.Vj, x)]]
\* P from the saved log-sum-exp, and P (dO V^T - delta)
PairScores(k, h, i0, j0, t, v) ==
  LET r(x) == i0 + (x \div BlockSide(k))
      c(x) == j0 + (x % BlockSide(k))
      row(f, x) == At(f, (h * k.n) + r(x))
      P == Table([x \in PairCells(k, t) |->
             IF k.causal /\ r(x) < c(x) THEN 0 ELSE Exp(Diff(Mul(k.scale, v.Ss[x]), row(v.L, x)))])
  IN [Ss |-> P, Ds |-> [x \in PairCells(k, t) |-> Mul(P[x], Sub(v.Ds[x], row(v.Dr, x)))]]
PairPhases(b) == <<RunAt("stage", b), Barrier, Lanes("products"), Barrier, RunAt("scores", b), Barrier, Lanes("gather"), Barrier>>

DkvCode(k, g) ==
  LET from == IF k.causal THEN g % BlockCount(k) ELSE 0 IN
  <<Run("begin"), Barrier>>
  \o FlattenSeq([b \in 1..(BlockCount(k) - from) |-> PairPhases(from + b - 1)])
  \o <<Lanes("spill"), Barrier, Run("store")>>
FaBackwardDkv(k, g, i, t, v) ==
  LET h == g \div BlockCount(k)
      j0 == (g % BlockCount(k)) * BlockSide(k)
      cols == ColumnsOf(k, SimdOf(k, t))
      over(A, B, x) == Total([r \in 0..(BlockSide(k) - 1) |-> Mul(A[(r * BlockSide(k)) + (x \div k.D)], B[(r * k.D) + (x % k.D)])])
      lead == LaneOf(k, t) = 0
  IN CASE i.do = "begin" ->
            [Kj |-> [x \in TileCells(k, t) |-> TileAt(k, v.K, h, j0, x)],
             Vj |-> [x \in TileCells(k, t) |-> TileAt(k, v.V, h, j0, x)]]
            @@ (IF lead THEN [fa |-> [x \in cols |-> 0], fb |-> [x \in cols |-> 0]] ELSE Nothing)
       [] i.do = "stage" ->
            [Qi |-> [x \in TileCells(k, t) |-> TileAt(k, v.Q, h, i.i * BlockSide(k), x)],
             dOi |-> [x \in TileCells(k, t) |-> TileAt(k, v.dO, h, i.i * BlockSide(k), x)]]
       [] i.do = "products" -> PairProducts(k, t, v)
       [] i.do = "scores" -> PairScores(k, h, i.i * BlockSide(k), j0, t, v)
       [] i.do = "gather" /\ lead ->
            [fa |-> [x \in cols |-> Add(v.fa[x], over(v.Ss, v.dOi, x))],
             fb |-> [x \in cols |-> Add(v.fb[x], over(v.Ds, v.Qi, x))]]
       [] i.do = "spill" /\ lead -> [Vj |-> [x \in cols |-> v.fa[x]], Kj |-> [x \in cols |-> v.fb[x]]]
       [] i.do = "store" ->
            LET at == Shift(((h * k.n) + j0) * k.D, TileCells(k, t))
                x(y) == y - (((h * k.n) + j0) * k.D)
            IN [DV |-> [y \in at |-> v.Vj[x(y)]], DK |-> [y \in at |-> Mul(k.scale, v.Kj[x(y)])]]
       [] OTHER -> Nothing

DqCode(k, g) ==
  LET to == IF k.causal THEN (g % BlockCount(k)) + 1 ELSE BlockCount(k) IN
  <<Run("begin"), Barrier>>
  \o FlattenSeq([b \in 1..to |-> PairPhases(b - 1)])
  \o <<Lanes("spill"), Barrier, Run("store")>>
FaBackwardDq(k, g, i, t, v) ==
  LET h == g \div BlockCount(k)
      i0 == (g % BlockCount(k)) * BlockSide(k)
      cols == ColumnsOf(k, SimdOf(k, t))
      lead == LaneOf(k, t) = 0
  IN CASE i.do = "begin" ->
            [Qi |-> [x \in TileCells(k, t) |-> TileAt(k, v.Q, h, i0, x)],
             dOi |-> [x \in TileCells(k, t) |-> TileAt(k, v.dO, h, i0, x)]]
            @@ (IF lead THEN [fa |-> [x \in cols |-> 0]] ELSE Nothing)
       [] i.do = "stage" ->
            [Kj |-> [x \in TileCells(k, t) |-> TileAt(k, v.K, h, i.i * BlockSide(k), x)],
             Vj |-> [x \in TileCells(k, t) |-> TileAt(k, v.V, h, i.i * BlockSide(k), x)]]
       [] i.do = "products" -> PairProducts(k, t, v)
       [] i.do = "scores" -> PairScores(k, h, i0, i.i * BlockSide(k), t, v)
       [] i.do = "gather" /\ lead ->
            [fa |-> [x \in cols |-> Add(v.fa[x],
               Total([c \in 0..(BlockSide(k) - 1) |-> Mul(v.Ds[((x \div k.D) * BlockSide(k)) + c], v.Kj[(c * k.D) + (x % k.D)])]))]]
       [] i.do = "spill" /\ lead -> [Qi |-> [x \in cols |-> v.fa[x]]]
       [] i.do = "store" ->
            LET base == ((h * k.n) + i0) * k.D
            IN [DQ |-> [y \in Shift(base, TileCells(k, t)) |-> Mul(k.scale, v.Qi[y - base])]]
       [] OTHER -> Nothing

LseCode(k, g) ==
  LET to == IF k.causal THEN (g % BlockCount(k)) + 1 ELSE BlockCount(k) IN
  <<Run("begin"), Barrier>>
  \o FlattenSeq([b \in 1..to |-> <<RunAt("stage", b - 1), Barrier, RunAt("scores", b - 1), Barrier, Run("rows"), Barrier>>])
  \o <<Run("store")>>
LogSumExp(k, g, i, t, v) ==
  LET h == g \div BlockCount(k)
      i0 == (g % BlockCount(k)) * BlockSide(k)
      sides == 0..(BlockSide(k) - 1)
      dot(x) == Total([d \in 0..(k.D - 1) |-> Mul(v.Qi[((x \div BlockSide(k)) * k.D) + d], v.Kj[((x % BlockSide(k)) * k.D) + d])])
      score(c) == v.Sb[(t * BlockSide(k)) + c]
      mnew == Top(v.mrow[t], Largest([c \in sides |-> score(c)]))
  IN CASE i.do = "begin" ->
            [Qi |-> [x \in TileCells(k, t) |-> TileAt(k, v.Q, h, i0, x)]]
            @@ (IF t < BlockSide(k) THEN [mrow |-> t :> NegInf, lrow |-> t :> 0] ELSE Nothing)
       [] i.do = "stage" -> [Kj |-> [x \in TileCells(k, t) |-> TileAt(k, v.K, h, i.i * BlockSide(k), x)]]
       [] i.do = "scores" ->
            [Sb |-> [x \in PairCells(k, t) |->
               IF k.causal /\ i0 + (x \div BlockSide(k)) < (i.i * BlockSide(k)) + (x % BlockSide(k)) THEN NegInf ELSE Mul(dot(x), k.scale)]]
       [] i.do = "rows" /\ t < BlockSide(k) ->
            [lrow |-> t :> Add(Mul(v.lrow[t], Exp(Diff(v.mrow[t], mnew))), Total([c \in sides |-> Exp(Diff(score(c), mnew))])),
             mrow |-> t :> mnew]
       [] i.do = "store" /\ t < BlockSide(k) -> Put("Lout", (h * k.n) + i0 + t, Add(v.mrow[t], Fn("log", v.lrow[t])))
       [] OTHER -> Nothing
==============================================================================

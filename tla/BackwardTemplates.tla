--------------------------- MODULE BackwardTemplates ---------------------------
(***************************************************************************)
(* The backward kernels of biased flash attention                          *)
(* (codegen/_msl_templates.py): dK and dV, dQ and delta, each as scalar    *)
(* loops over sub-tiles and on simdgroup matrices, and the gradient of the *)
(* bias, which sums over the second batch axis.  P is recomputed from the  *)
(* saved log-sum-exp.  Strides are those of contiguous arrays; k.frag      *)
(* stands for 8 and k.per for the 4 lanes that share a row of delta.       *)
(***************************************************************************)
EXTENDS Threadgroup

RoundIf(on, x) == IF on THEN Fn("round", x) ELSE x
\* element (r, d) of head z; a row beyond the last is zero
Elem(k, f, z, r, d) == At(f, (((z * k.n) + r) * k.D) + d)
RowOr0(k, f, z, r, d) == IF r < k.n THEN Elem(k, f, z, r, d) ELSE 0
PerRow(k, f, z, r) == IF r < k.n THEN At(f, (z * k.n) + r) ELSE 0
\* the mask may be shared by several heads; a row beyond the last is masked
MaskOf(k, f, z, r) == IF r < k.n THEN At(f, ((z \div k.maskdiv) * k.n) + r) ELSE 1
BiasOf(k, f, z, j, c) == At(f, (((z * k.n) + j) * k.n) + c)
\* a source that rounds k * scale has its scale in the staged K
KStage(k, x) == IF k.roundk THEN Fn("round", Mul(x, Fn("round", k.scale))) ELSE x
Scaled(k, s) == IF k.roundk THEN s ELSE Mul(s, k.scale)

\* sub-tiles: the largest divisor that fits the threads and the memory
KvFits(k, ks) ==
  /\ ks * k.D <= k.maxthreads
  /\ (((4 * ks * k.D) + (k.BJ * k.D) + (2 * k.BJ * ks)) * 4) + (((2 * k.BJ) + ks + 16) * 4) <= k.maxmem
KvSubtile(k) == Largest([ks \in {x \in 1..k.BK : k.BK % x = 0 /\ KvFits(k, x)} |-> ks])
QFits(k, js) ==
  /\ js * k.D <= k.maxthreads
  /\ (((2 * js * k.D) + (2 * k.BK * k.D) + (2 * js * k.BK)) * 4) + (((2 * js) + k.BK + 16) * 4) <= k.maxmem
QSubtile(k) == Largest([js \in {x \in 1..k.BJ : k.BJ % x = 0 /\ QFits(k, x)} |-> js])
\* the bias kernel drops the staged Q before it gives up
BiasMemory(k, staged) ==
  (((3 * k.BJ * k.BK) + (2 * k.BJ)) * 4) + k.BK + (2 * k.BK * k.D * 4) + (IF staged THEN k.BJ * k.D * 4 ELSE 0)
StagesQ(k) == BiasMemory(k, TRUE) <= k.maxmem
BiasFits(k) == BiasMemory(k, FALSE) <= k.maxmem
MatrixFits(k) ==
  \A x \in {k.D, k.BJ, k.BK} : x % k.frag = 0 /\ x <= SimdCount(k) * k.frag

\* P of one cell: exp2((s + bias - lse) / ln 2); masked cells are 0, or the
\* source's own sentinel if the cell exists
Prob(k, s, lse, bias, masked, j, c) ==
  CASE j < k.n /\ c < k.n /\ ~masked -> Exp(Diff(Add(Scaled(k, s), bias), lse))
    [] j < k.n /\ c < k.n /\ masked /\ k.neginf -> Exp(Diff(k.sentinel, lse))
    [] OTHER -> 0

\* ---- dK and dV, scalar: KvSubtile rows at a time ------------------------------
KvCode(k) ==
  FlattenSeq([s \in 1..(k.BK \div KvSubtile(k)) |->
    <<RunAt("stageKV", <<s - 1, 0>>), Barrier>>
    \o FlattenSeq([b \in 1..CeilDiv(k.n, k.BJ) |->
         FlattenSeq([x \in 1..5 |-> <<RunAt(<<"stageQ", "P", "dV", "dS", "dK">>[x], <<s - 1, b - 1>>), Barrier>>])])
    \o <<RunAt("storeKV", <<s - 1, 0>>), Barrier>>])
BackwardKv(k, g, i, t, v) ==
  LET KS == KvSubtile(k)
      z == g \div CeilDiv(k.n, k.BK)
      k0 == ((g % CeilDiv(k.n, k.BK)) * k.BK) + (i.i[1] * KS)
      j0 == i.i[2] * k.BJ
      tile == Mine(k, t, KS * k.D)
      cells == Mine(k, t, k.BJ * KS)
      rows == 0..(k.BJ - 1)
      p(jj, kk) == v.tg_P[(jj * KS) + kk]
      dO(j, d) == RowOr0(k, v.dO, z, j, d)
      dp(jj, kk) == Total([d \in 0..(k.D - 1) |-> Mul(dO(j0 + jj, d), v.tg_V[(kk * k.D) + d])])
  IN CASE i.do = "stageKV" ->
            [dk_acc |-> [x \in tile |-> 0], dv_acc |-> [x \in tile |-> 0],
             tg_K |-> [x \in tile |-> KStage(k, RowOr0(k, v.K, z, k0 + (x \div k.D), x % k.D))],
             tg_V |-> [x \in tile |-> RowOr0(k, v.V, z, k0 + (x \div k.D), x % k.D)],
             tg_mask |-> [x \in Mine(k, t, KS) |-> MaskOf(k, v.Mask, z, k0 + x)]]
       [] i.do = "stageQ" ->
            [tg_Q |-> [x \in Mine(k, t, k.BJ * k.D) |-> RowOr0(k, v.Q, z, j0 + (x \div k.D), x % k.D)],
             tg_lse |-> [x \in Mine(k, t, k.BJ) |-> PerRow(k, v.Lse, z, j0 + x)],
             tg_delta |-> [x \in Mine(k, t, k.BJ) |-> PerRow(k, v.Delta, z, j0 + x)]]
       [] i.do = "P" ->
            [tg_P |-> [x \in cells |->
               LET jj == x \div KS
                   kk == x % KS
                   s == Total([d \in 0..(k.D - 1) |-> Mul(v.tg_Q[(jj * k.D) + d], v.tg_K[(kk * k.D) + d])])
               IN Prob(k, s, v.tg_lse[jj], BiasOf(k, v.Bias, z, j0 + jj, k0 + kk), v.tg_mask[kk] # 0, j0 + jj, k0 + kk)]]
       [] i.do = "dV" ->
            [dv_acc |-> [x \in tile |-> Add(v.dv_acc[x], Total([jj \in {y \in rows : j0 + y < k.n} |->
               Mul(RoundIf(k.roundp, p(jj, x \div k.D)), dO(j0 + jj, x % k.D))]))]]
       [] i.do = "dS" ->
            [tg_dS |-> [x \in cells |->
               RoundIf(k.roundds, Mul(v.tg_P[x], Sub(dp(x \div KS, x % KS), v.tg_delta[x \div KS])))]]
       [] i.do = "dK" ->
            [dk_acc |-> [x \in tile |-> Add(v.dk_acc[x], Total([jj \in rows |->
               Mul(v.tg_dS[(jj * KS) + (x \div k.D)], v.tg_Q[(jj * k.D) + (x % k.D)])]))]]
       [] i.do = "storeKV" ->
            LET out == {x \in tile : k0 + (x \div k.D) < k.n}
                base == ((z * k.n) + k0) * k.D
            IN [DK |-> [y \in Shift(base, out) |-> Cast(k, Mul(v.dk_acc[y - base], k.scale))],
                DV |-> [y \in Shift(base, out) |-> Cast(k, v.dv_acc[y - base])]]

\* ---- dK and dV on simdgroup matrices --------------------------------------------
\* SIMD group s owns the columns of its band, if there are any
Band(k, s, width) == {c \in (s * k.frag)..((s * k.frag) + k.frag - 1) : c < width}
BandCells(k, s, rows, width) == {(r * width) + c : r \in 0..(rows - 1), c \in Band(k, s, width)}
KvMatrixCode(k) ==
  <<RunAt("stageKV", 0), Barrier>>
  \o FlattenSeq([b \in 1..CeilDiv(k.n, k.BJ) |->
       <<RunAt("stageQ", b - 1), Barrier, LanesAt("S", b - 1), Barrier, RunAt("P", b - 1), Barrier>>
       \* dV reads the rounded P, dS the one that is not
       \o (IF k.roundp THEN <<>> ELSE <<LanesAt("dV", b - 1)>>)
       \o <<LanesAt("dP", b - 1), Barrier, RunAt("dS", b - 1), Barrier>>
       \o (IF k.roundp THEN <<LanesAt("dV", b - 1), Barrier>> ELSE <<>>)
       \o <<LanesAt("dK", b - 1), Barrier>>])
  \o <<LanesAt("spill", 0), Barrier, RunAt("storeKV", 0)>>
\* the products of matrices in threadgroup memory, one band of columns each
RowByRow(k, a, b, r, c) == Total([d \in 0..(k.D - 1) |-> Mul(a[(r * k.D) + d], b[(c * k.D) + d])])
KvMatrixStage(k, g, i, t, v) ==
  LET z == g \div CeilDiv(k.n, k.BK)
      k0 == (g % CeilDiv(k.n, k.BK)) * k.BK
      j0 == i.i * k.BJ
  IN CASE i.do = "stageKV" ->
            [tg_K |-> [x \in Mine(k, t, k.BK * k.D) |-> KStage(k, RowOr0(k, v.K, z, k0 + (x \div k.D), x % k.D))],
             tg_V |-> [x \in Mine(k, t, k.BK * k.D) |-> RowOr0(k, v.V, z, k0 + (x \div k.D), x % k.D)],
             tg_mask |-> [x \in Mine(k, t, k.BK) |-> MaskOf(k, v.Mask, z, k0 + x)]]
            @@ (IF LaneOf(k, t) = 0
                THEN [a \in {"dv_f", "dk_f"} |-> [x \in {<<SimdOf(k, t), y>> : y \in 0..((k.BK * k.D) - 1)} |-> 0]]
                ELSE Nothing)
       [] i.do = "stageQ" ->
            [tg_Q |-> [x \in Mine(k, t, k.BJ * k.D) |-> RowOr0(k, v.Q, z, j0 + (x \div k.D), x % k.D)],
             tg_dO |-> [x \in Mine(k, t, k.BJ * k.D) |-> RowOr0(k, v.dO, z, j0 + (x \div k.D), x % k.D)],
             tg_lse |-> [x \in Mine(k, t, k.BJ) |-> PerRow(k, v.Lse, z, j0 + x)],
             tg_delta |-> [x \in Mine(k, t, k.BJ) |-> PerRow(k, v.Delta, z, j0 + x)]]
       [] i.do = "storeKV" ->
            LET out == {x \in Mine(k, t, k.BK * k.D) : k0 + (x \div k.D) < k.n}
                base == ((z * k.n) + k0) * k.D
            IN [DK |-> [y \in Shift(base, out) |-> Cast(k, Mul(v.tg_dS[y - base], k.scale))],
                DV |-> [y \in Shift(base, out) |-> Cast(k, v.tg_P[y - base])]]
\* scores, P and dS of a block of keys k0 and queries j0 with the scores in tg_P
\* and dP in tg_dS
CellP(k, v, z, j0, k0, x) ==
  LET jj == x \div k.BK
      kk == x % k.BK
  IN Prob(k, v.tg_P[x], v.tg_lse[jj], BiasOf(k, v.Bias, z, j0 + jj, k0 + kk), v.tg_mask[kk] # 0, j0 + jj, k0 + kk)
CellDS(k, v, x) == RoundIf(k.roundds, Mul(v.tg_P[x], Sub(v.tg_dS[x], v.tg_delta[x \div k.BK])))
BackwardKvMatrix(k, g, i, t, v) ==
  LET z == g \div CeilDiv(k.n, k.BK)
      s == SimdOf(k, t)
      lead == LaneOf(k, t) = 0
      cells == Mine(k, t, k.BJ * k.BK)
      scores == BandCells(k, s, k.BJ, k.BK)
      mine == BandCells(k, s, k.BK, k.D)
      turned(a, b, x) == Total([jj \in 0..(k.BJ - 1) |-> Mul(a[(jj * k.BK) + (x \div k.D)], b[(jj * k.D) + (x % k.D)])])
  IN CASE i.do \in {"stageKV", "stageQ", "storeKV"} -> KvMatrixStage(k, g, i, t, v)
       [] i.do = "P" -> [tg_P |-> [x \in cells |-> CellP(k, v, z, i.i * k.BJ, (g % CeilDiv(k.n, k.BK)) * k.BK, x)]]
       [] i.do = "dS" ->
            [tg_dS |-> [x \in cells |-> CellDS(k, v, x)]]
            @@ (IF k.roundp THEN [tg_P |-> [x \in cells |-> Fn("round", v.tg_P[x])]] ELSE Nothing)
       [] i.do = "S" /\ lead -> [tg_P |-> [x \in scores |-> RowByRow(k, v.tg_Q, v.tg_K, x \div k.BK, x % k.BK)]]
       [] i.do = "dP" /\ lead -> [tg_dS |-> [x \in scores |-> RowByRow(k, v.tg_dO, v.tg_V, x \div k.BK, x % k.BK)]]
       [] i.do = "dV" /\ lead -> [dv_f |-> [y \in {<<s, x>> : x \in mine} |-> Add(v.dv_f[y], turned(v.tg_P, v.tg_dO, y[2]))]]
       [] i.do = "dK" /\ lead -> [dk_f |-> [y \in {<<s, x>> : x \in mine} |-> Add(v.dk_f[y], turned(v.tg_dS, v.tg_Q, y[2]))]]
       [] i.do = "spill" /\ lead -> [tg_P |-> [x \in mine |-> v.dv_f[<<s, x>>]], tg_dS |-> [x \in mine |-> v.dk_f[<<s, x>>]]]
       [] OTHER -> Nothing

\* ---- dQ and delta, scalar: QSubtile rows at a time ---------------------------------
QCode(k) ==
  FlattenSeq([s \in 1..(k.BJ \div QSubtile(k)) |->
    <<RunAt("stageQ", <<s - 1, 0>>), Barrier>>
    \o FlattenSeq([b \in 1..CeilDiv(k.n, k.BK) |->
         FlattenSeq([x \in 1..4 |-> <<RunAt(<<"stageKV", "P", "dS", "dQ">>[x], <<s - 1, b - 1>>), Barrier>>])])
    \o <<RunAt("storeQ", <<s - 1, 0>>), Barrier>>])
\* each product of O and dO is rounded before the sum if the source does so
DeltaOf(k, z, j, O, dO) ==
  Total([d \in 0..(k.D - 1) |-> RoundIf(k.roundprod, Mul(Elem(k, O, z, j, d), Elem(k, dO, z, j, d)))])
DQScale(k, x) == Cast(k, IF k.roundk THEN x ELSE Mul(x, k.scale))
BackwardQ(k, g, i, t, v) ==
  LET JS == QSubtile(k)
      z == g \div CeilDiv(k.n, k.BJ)
      j0 == ((g % CeilDiv(k.n, k.BJ)) * k.BJ) + (i.i[1] * JS)
      k0 == i.i[2] * k.BK
      tile == Mine(k, t, JS * k.D)
      cells == Mine(k, t, JS * k.BK)
      dp(jj, kk) == Total([d \in 0..(k.D - 1) |-> Mul(RowOr0(k, v.dO, z, j0 + jj, d), v.tg_V[(kk * k.D) + d])])
  IN CASE i.do = "stageQ" ->
            LET delta(x) == IF j0 + x < k.n THEN DeltaOf(k, z, j0 + x, v.O, v.dO) ELSE 0
                rows == Mine(k, t, JS)
            IN [tg_Q |-> [x \in tile |-> RowOr0(k, v.Q, z, j0 + (x \div k.D), x % k.D)], dq_acc |-> [x \in tile |-> 0],
                tg_delta |-> [x \in rows |-> delta(x)], tg_lse |-> [x \in rows |-> PerRow(k, v.Lse, z, j0 + x)],
                Delta |-> [y \in Shift((z * k.n) + j0, {x \in rows : j0 + x < k.n}) |-> Cast(k, delta(y - (z * k.n) - j0))]]
       [] i.do = "stageKV" ->
            [tg_K |-> [x \in Mine(k, t, k.BK * k.D) |-> KStage(k, RowOr0(k, v.K, z, k0 + (x \div k.D), x % k.D))],
             tg_V |-> [x \in Mine(k, t, k.BK * k.D) |-> RowOr0(k, v.V, z, k0 + (x \div k.D), x % k.D)],
             tg_mask |-> [x \in Mine(k, t, k.BK) |-> MaskOf(k, v.Mask, z, k0 + x)]]
       [] i.do = "P" ->
            [tg_P |-> [x \in cells |->
               LET jj == x \div k.BK
                   kk == x % k.BK
               IN Prob(k, RowByRow(k, v.tg_Q, v.tg_K, jj, kk), v.tg_lse[jj], BiasOf(k, v.Bias, z, j0 + jj, k0 + kk),
                       v.tg_mask[kk] # 0, j0 + jj, k0 + kk)]]
       [] i.do = "dS" ->
            [tg_dS |-> [x \in cells |->
               RoundIf(k.roundds, Mul(v.tg_P[x], Sub(dp(x \div k.BK, x % k.BK), v.tg_delta[x \div k.BK])))]]
       [] i.do = "dQ" ->
            [dq_acc |-> [x \in tile |-> Add(v.dq_acc[x], Total([kk \in 0..(k.BK - 1) |->
               Mul(v.tg_dS[((x \div k.D) * k.BK) + kk], v.tg_K[(kk * k.D) + (x % k.D)])]))]]
       [] i.do = "storeQ" ->
            LET out == {x \in tile : j0 + (x \div k.D) < k.n}
                base == ((z * k.n) + j0) * k.D
            IN [DQ |-> [y \in Shift(base, out) |-> DQScale(k, v.dq_acc[y - base])]]

\* ---- dQ and delta on simdgroup matrices -----------------------------------------------
\* a narrow delta: k.per lanes per row each fold their share of the products
\* as a binary tree, then exchange partial sums by XOR; every sum is rounded
ShareOf(k) == k.D \div k.per
Halve(f) ==
  [c \in 0..((Cardinality(DOMAIN f) \div 2) - 1) |-> Fn("round", Add(f[2 * c], f[(2 * c) + 1]))]
FoldPairs(f) ==
  FoldLeft(LAMBDA x, s : IF Cardinality(DOMAIN x) > 1 THEN Halve(x) ELSE x, f, [s \in 1..Cardinality(DOMAIN f) |-> s])
XorOffsets(k) == SelectSeq(<<4, 2, 1>>, LAMBDA o : o < k.per)
XorPeer(t, o) == IF (t \div o) % 2 = 0 THEN t + o ELSE t - o
DeltaCode(k) ==
  IF ~k.rounddelta THEN <<Run("delta")>>
  ELSE <<Run("products")>> \o [x \in DOMAIN XorOffsets(k) |-> LanesAt("xor", XorOffsets(k)[x])] \o <<Run("deltaout")>>
QMatrixCode(k) ==
  <<RunAt("stageQ", 0), Barrier>> \o DeltaCode(k) \o <<RunAt("zero", 0), Barrier>>
  \o FlattenSeq([b \in 1..CeilDiv(k.n, k.BK) |->
       <<RunAt("stageKV", b - 1), Barrier, LanesAt("S", b - 1), Barrier, RunAt("P", b - 1), Barrier,
         LanesAt("dP", b - 1), Barrier, RunAt("dS", b - 1), Barrier, LanesAt("dQ", b - 1), Barrier>>])
  \o <<LanesAt("spill", 0), Barrier, RunAt("storeQ", 0)>>
DeltaBlock(k, g, i, t, v) ==
  LET z == g \div CeilDiv(k.n, k.BJ)
      j0 == (g % CeilDiv(k.n, k.BJ)) * k.BJ
      row == (SimdOf(k, t) * k.frag) + (LaneOf(k, t) \div k.per)
      share == LaneOf(k, t) % k.per
      lse(x) == PerRow(k, v.Lse, z, j0 + x)
      whole(x) ==
        IF j0 + x < k.n
        THEN Total([d \in 0..(k.D - 1) |-> RoundIf(k.roundprod, Mul(Elem(k, v.O, z, j0 + x, d), v.tg_dO[(x * k.D) + d]))])
        ELSE 0
      rows == Mine(k, t, k.BJ)
      product(d) == RoundIf(k.roundprod, Mul(Elem(k, v.O, z, j0 + row, d), v.tg_dO[(row * k.D) + d]))
  IN CASE i.do = "delta" ->
            [tg_delta |-> [x \in rows |-> whole(x)], tg_lse |-> [x \in rows |-> lse(x)],
             Delta |-> [y \in Shift((z * k.n) + j0, {x \in rows : j0 + x < k.n}) |-> Cast(k, whole(y - (z * k.n) - j0))]]
       [] i.do = "products" ->
            Put("dl", t, IF j0 + row < k.n
                         THEN FoldPairs([c \in 0..(ShareOf(k) - 1) |-> product((share * ShareOf(k)) + c)])[0] ELSE 0)
       [] i.do = "xor" -> Put("dl", t, IF j0 + row < k.n THEN Fn("round", Add(v.dl[t], v.dl[XorPeer(t, i.i)])) ELSE 0)
       [] i.do = "deltaout" ->
            IF share # 0 THEN Nothing
            ELSE [tg_delta |-> row :> v.dl[t], tg_lse |-> row :> lse(row)]
                 @@ (IF j0 + row < k.n THEN Put("Delta", (z * k.n) + j0 + row, Cast(k, v.dl[t])) ELSE Nothing)
BackwardQMatrix(k, g, i, t, v) ==
  LET z == g \div CeilDiv(k.n, k.BJ)
      j0 == (g % CeilDiv(k.n, k.BJ)) * k.BJ
      s == SimdOf(k, t)
      lead == LaneOf(k, t) = 0
      tile == Mine(k, t, k.BJ * k.D)
      cells == Mine(k, t, k.BJ * k.BK)
      scores == BandCells(k, s, k.BJ, k.BK)
      mine == BandCells(k, s, k.BJ, k.D)
      base == ((z * k.n) + j0) * k.D
  IN CASE i.do \in {"delta", "products", "xor", "deltaout"} -> DeltaBlock(k, g, i, t, v)
       [] i.do = "stageQ" ->
            [tg_Q |-> [x \in tile |-> RowOr0(k, v.Q, z, j0 + (x \div k.D), x % k.D)],
             tg_dO |-> [x \in tile |-> RowOr0(k, v.dO, z, j0 + (x \div k.D), x % k.D)]]
       [] i.do = "stageKV" ->
            [tg_K |-> [x \in Mine(k, t, k.BK * k.D) |-> KStage(k, RowOr0(k, v.K, z, (i.i * k.BK) + (x \div k.D), x % k.D))],
             tg_V |-> [x \in Mine(k, t, k.BK * k.D) |-> RowOr0(k, v.V, z, (i.i * k.BK) + (x \div k.D), x % k.D)],
             tg_mask |-> [x \in Mine(k, t, k.BK) |-> MaskOf(k, v.Mask, z, (i.i * k.BK) + x)]]
       [] i.do = "P" -> [tg_P |-> [x \in cells |-> CellP(k, v, z, j0, i.i * k.BK, x)]]
       [] i.do = "dS" -> [tg_dS |-> [x \in cells |-> CellDS(k, v, x)]]
       [] i.do = "storeQ" ->
            [DQ |-> [y \in Shift(base, {x \in tile : j0 + (x \div k.D) < k.n}) |-> DQScale(k, v.tg_P[y - base])]]
       [] i.do = "zero" /\ lead -> [dq_f |-> [y \in {<<s, x>> : x \in mine} |-> 0]]
       [] i.do = "S" /\ lead -> [tg_P |-> [x \in scores |-> RowByRow(k, v.tg_Q, v.tg_K, x \div k.BK, x % k.BK)]]
       [] i.do = "dP" /\ lead -> [tg_dS |-> [x \in scores |-> RowByRow(k, v.tg_dO, v.tg_V, x \div k.BK, x % k.BK)]]
       [] i.do = "dQ" /\ lead ->
            [dq_f |-> [y \in {<<s, x>> : x \in mine} |-> Add(v.dq_f[y], Total([kk \in 0..(k.BK - 1) |->
               Mul(v.tg_dS[((y[2] \div k.D) * k.BK) + kk], v.tg_K[(kk * k.D) + (y[2] % k.D)])]))]]
       [] i.do = "spill" /\ lead -> [tg_P |-> [x \in mine |-> v.dq_f[<<s, x>>]]]
       [] OTHER -> Nothing

\* ---- the gradient of the bias: a tile of cells, summed over the second batch axis ----
BiasCode(k) ==
  <<RunAt("zero", 0), Barrier>>
  \o FlattenSeq([ii \in 1..k.n |->
       <<RunAt("stage", ii - 1), Barrier, RunAt("P", ii - 1), Barrier, RunAt("dB", ii - 1), Barrier>>])
  \o <<RunAt("storeB", 0)>>
BackwardBias(k, g, i, t, v) ==
  LET nj == CeilDiv(k.n, k.BJ)
      nk == CeilDiv(k.n, k.BK)
      z == g \div (nj * nk)
      j0 == (g % nj) * k.BJ
      k0 == ((g \div nj) % nk) * k.BK
      zi == (z * k.n) + i.i
      cells == Mine(k, t, k.BJ * k.BK)
      keys == Mine(k, t, k.BK * k.D)
      real(x) == j0 + (x \div k.BK) < k.n /\ k0 + (x % k.BK) < k.n
      q(jj, d) == IF StagesQ(k) THEN v.tg_Q[(jj * k.D) + d] ELSE KStage(k, Elem(k, v.Q, zi, j0 + jj, d))
  IN CASE i.do = "zero" ->
            [db_acc |-> [x \in cells |-> 0],
             tg_bias |-> [x \in cells |->
               IF real(x) THEN BiasOf(k, v.Bias, z, j0 + (x \div k.BK), k0 + (x % k.BK)) ELSE 0]]
       [] i.do = "stage" ->
            [tg_K |-> [x \in keys |-> RowOr0(k, v.K, zi, k0 + (x \div k.D), x % k.D)],
             tg_V |-> [x \in keys |-> RowOr0(k, v.V, zi, k0 + (x \div k.D), x % k.D)],
             tg_lse |-> [x \in Mine(k, t, k.BJ) |-> PerRow(k, v.Lse, zi, j0 + x)],
             tg_delta |-> [x \in Mine(k, t, k.BJ) |-> PerRow(k, v.Delta, zi, j0 + x)],
             tg_mask |-> [x \in Mine(k, t, k.BK) |->
               IF k0 + x < k.n THEN At(v.Mask, ((((z \div k.maskdiv) * k.n) + i.i) * k.n) + k0 + x) ELSE 1]]
            @@ (IF StagesQ(k)
                THEN [tg_Q |-> [x \in Mine(k, t, k.BJ * k.D) |-> KStage(k, RowOr0(k, v.Q, zi, j0 + (x \div k.D), x % k.D))]]
                ELSE Nothing)
       [] i.do = "P" ->
            [tg_P |-> [x \in cells |->
               LET jj == x \div k.BK
                   kk == x % k.BK
                   s == Total([d \in 0..(k.D - 1) |-> Mul(q(jj, d), v.tg_K[(kk * k.D) + d])])
               IN Prob(k, s, v.tg_lse[jj], v.tg_bias[x], v.tg_mask[kk] # 0, j0 + jj, k0 + kk)]]
       [] i.do = "dB" ->
            [db_acc |-> [x \in cells |->
               LET dp == Total([d \in 0..(k.D - 1) |->
                           Mul(RowOr0(k, v.dO, zi, j0 + (x \div k.BK), d), v.tg_V[((x % k.BK) * k.D) + d])])
               IN Add(v.db_acc[x], Mul(v.tg_P[x], Sub(dp, v.tg_delta[x \div k.BK])))]]
       [] i.do = "storeB" ->
            [DB |-> [y \in {(((z * k.n) + j0 + (x \div k.BK)) * k.n) + k0 + (x % k.BK) : x \in {c \in cells : real(c)}} |->
               LET r == (y \div k.n) - (z * k.n) - j0
               IN Cast(k, v.db_acc[(r * k.BK) + (y % k.n) - k0])]]
==============================================================================

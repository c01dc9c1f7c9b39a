--------------------------- MODULE FlashTemplates ----------------------------
(***************************************************************************)
(* Forward attention over blocks of keys with an online softmax            *)
(* (codegen/_msl_templates.py): the one-query causal kernel, the scalar    *)
(* flash kernel, and the flash kernel on simdgroup matrices.  In the last, *)
(* k.frag stands for 8, k.blocks for the 4 fragments of a q-tile, k.per    *)
(* for the 8 threads that share a row.                                     *)
(***************************************************************************)
EXTENDS Threadgroup

DotRows(f, x, g, y, d) == Total([c \in 0..(d - 1) |-> Mul(At(f, x + c), At(g, y + c))])

\* ---- causal attention: one threadgroup per query, one thread per key --------
CausalCode ==
  <<Run("score"), Barrier, Lanes("max"), Run("lead1"), Barrier, Run("fold1"), Barrier, Run("exp"),
    Lanes("sum"), Run("lead2"), Barrier, Run("fold2"), Barrier, Run("output")>>
CausalAttention(k, g, i, t, v) ==
  LET head == (g \div k.n) * k.n * k.D
      query == g % k.n
      q0 == head + (query * k.D)
      sees == t < k.n /\ t <= query
      simds == 0..(SimdCount(k) - 1)
  IN CASE i.do = "score" ->
            LET s == IF sees THEN Mul(DotRows(v.Q, q0, v.K, head + (t * k.D), k.D), k.scale) ELSE NegInf
            IN [score |-> t :> s, tg_scores |-> t :> s]
       [] i.do = "max" -> Put("part", t, SimdOp(k, "max", v.score, t))
       [] i.do = "lead1" -> IF LaneOf(k, t) = 0 THEN Put("tg_max", SimdOf(k, t), v.part[t]) ELSE Nothing
       [] i.do = "fold1" -> IF t = 0 THEN Put("tg_max", 0, Largest([s \in simds |-> v.tg_max[s]])) ELSE Nothing
       [] i.do = "exp" ->
            LET e == IF sees THEN Exp(Diff(v.score[t], v.tg_max[0])) ELSE 0
            IN [score |-> t :> e, tg_scores |-> t :> e]
       [] i.do = "sum" -> Put("part", t, SimdOp(k, "sum", v.score, t))
       [] i.do = "lead2" -> IF LaneOf(k, t) = 0 THEN Put("tg_sum", SimdOf(k, t), v.part[t]) ELSE Nothing
       [] i.do = "fold2" -> IF t = 0 THEN Put("tg_sum", 0, Total([s \in simds |-> v.tg_sum[s]])) ELSE Nothing
       [] i.do = "output" ->
            LET keys == {x \in 0..query : x < k.n} IN
            [output |-> [j \in Shift(q0, Mine(k, t, k.D)) |->
               Total([x \in keys |-> Mul(Div(v.tg_scores[x], v.tg_sum[0]), v.V[head + (x * k.D) + (j - q0)])])]]

\* ---- scalar flash attention: k.br query rows per threadgroup, k.bc keys per
\* ---- block, one thread per row in the update -------------------------------
FlashCode(k) ==
  <<Run("init"), Barrier>>
  \o FlattenSeq([b \in 1..CeilDiv(k.n, k.bc) |->
       <<RunAt("stage", b - 1), Barrier, RunAt("scores", b - 1), Barrier, Run("update"), Barrier>>])
  \o <<Run("normalize"), Barrier, Run("output")>>
FlashAttention(k, g, i, t, v) ==
  LET blocks == CeilDiv(k.n, k.br)
      head == (g \div blocks) * k.n * k.D
      q0 == (g % blocks) * k.br
      row(f, r, c) == IF r < k.n THEN f[head + (r * k.D) + c] ELSE 0
      tile == Mine(k, t, k.br * k.D)
      kv == i.i * k.bc
      shown(r, c) == kv + c < k.n /\ (k.causal => kv + c <= q0 + r)
      scores == [c \in 0..(k.bc - 1) |-> v.tg_S[(t * k.bc) + c]]
      m == Top(v.tg_m[t], Largest(scores))
      shrink == Exp(Diff(v.tg_m[t], m))
      p == [c \in 0..(k.bc - 1) |-> Exp(Diff(scores[c], m))]
  IN CASE i.do = "init" ->
            [tg_Q |-> [j \in tile |-> row(v.Q, q0 + (j \div k.D), j % k.D)], tg_O |-> [j \in tile |-> 0]]
            @@ (IF t < k.br THEN [tg_m |-> t :> NegInf, tg_l |-> t :> 0] ELSE Nothing)
       [] i.do = "stage" ->
            [tg_K |-> [j \in Mine(k, t, k.bc * k.D) |-> row(v.K, kv + (j \div k.D), j % k.D)],
             tg_V |-> [j \in Mine(k, t, k.bc * k.D) |-> row(v.V, kv + (j \div k.D), j % k.D)]]
       [] i.do = "scores" ->
            [tg_S |-> [j \in Mine(k, t, k.br * k.bc) |->
               IF shown(j \div k.bc, j % k.bc)
               THEN Mul(DotRows(v.tg_Q, (j \div k.bc) * k.D, v.tg_K, (j % k.bc) * k.D, k.D), k.scale)
               ELSE NegInf]]
       [] i.do = "update" ->
            IF t >= k.br THEN Nothing
            ELSE [tg_S |-> [j \in {(t * k.bc) + c : c \in DOMAIN p} |-> p[j % k.bc]],
                  tg_O |-> [j \in {(t * k.D) + d : d \in 0..(k.D - 1)} |->
                     Add(Mul(v.tg_O[j], shrink), Total([c \in DOMAIN p |-> Mul(p[c], v.tg_V[(c * k.D) + (j % k.D)])]))],
                  tg_m |-> t :> m, tg_l |-> t :> Add(Mul(v.tg_l[t], shrink), Total(p))]
       [] i.do = "normalize" ->
            [tg_O |-> [j \in {x \in tile : v.tg_l[x \div k.D] # 0} |-> Div(v.tg_O[j], v.tg_l[j \div k.D])]]
       [] i.do = "output" ->
            LET kept == {j \in tile : q0 + (j \div k.D) < k.n}
            IN [O |-> [x \in Shift(head + (q0 * k.D), kept) |-> v.tg_O[x - head - (q0 * k.D)]]]

\* ---- flash attention on simdgroup matrices -----------------------------------
BM(k) == k.blocks * k.frag
BN(k) == SimdCount(k) * k.frag
\* output column tiles each SIMD group owns; the surplus ones are guarded off
TPG(k) == CeilDiv(k.Dv, SimdCount(k) * k.frag)
\* refused: odd widths, half accumulation of float input, too much memory
SimdFlashAdmits(k) ==
  /\ k.D % k.frag = 0 /\ k.Dv % k.frag = 0
  /\ k.halfacc => k.half
  /\ k.sourceblock > 0 =>
       BN(k) % k.sourceblock = 0 /\ ~k.bias /\ ~k.mask /\ (k.causal => k.masktail)
  /\ k.sourcestop => k.sourceblock > 0
\* a proved source loop of blocks of k.sourceblock keys also visits the
\* zero-filled keys of its last block
SourceTail(k, kv, end) == kv < end \/ kv - end < (k.sourceblock - (end % k.sourceblock)) % k.sourceblock
Stop(k, g) == IF k.sourcestop THEN Bottom(((g % CeilDiv(k.n, BM(k))) * BM(k)) + BM(k), k.n) ELSE k.n
FullBlocks(k, g) == Stop(k, g) \div BN(k)
QStart(k, g) == (g % CeilDiv(k.n, BM(k))) * BM(k)
\* the keys a score is kept for, in a full block and in the masked tail
ScoreGuard(k, tail, q, kv) ==
  CASE ~tail /\ ~k.causal -> TRUE
    [] ~tail /\ k.causal -> kv <= q
    [] tail /\ ~k.causal -> IF k.masktail THEN kv < k.n ELSE SourceTail(k, kv, k.n)
    [] OTHER -> kv < k.n /\ kv <= q
Rounded(on, x) == IF on THEN Fn("round", x) ELSE x

RescaleCode(k, t) ==
  IF k.half /\ ~k.halfacc
  THEN \* P lives in its own tile: the dead score tile is the scratch, all fragments at once
    <<LanesAt("spillall", t), SimdBarrier, RunAt("rescaleall", t), SimdBarrier, LanesAt("loadall", t), SimdBarrier>>
  ELSE
    FlattenSeq([rb \in 1..k.blocks |->
      <<LanesAt("spill", <<rb - 1, t>>), SimdBarrier, RunAt("rescale", <<rb - 1, t>>), SimdBarrier,
        LanesAt("load", <<rb - 1, t>>), SimdBarrier>>])
\* the scores of one block; only a tail stages K and V through tgKV
ScoreCode(k, b, tail) ==
  <<Lanes("zero")>>
  \o (IF tail
      THEN FlattenSeq([c \in 1..(k.D \div k.frag) |->
             <<Barrier, RunAt("stageK", <<b, c - 1>>), Barrier, LanesAt("qkstaged", c - 1), Barrier>>])
      ELSE <<LanesAt("qk", b)>>)
  \o <<Lanes("storeS"), Barrier>>
ValueCode(k, b, t, tail) ==
  RescaleCode(k, t)
  \o (IF tail
      THEN FlattenSeq([c \in 1..SimdCount(k) |->
             <<Barrier, RunAt("stageV", <<b, c - 1, t>>), SimdBarrier, LanesAt("takeV", c - 1)>>]) \o <<Barrier>>
      ELSE <<LanesAt("loadV", <<b, t>>)>>)
  \o <<LanesAt("pv", t)>>
BlockCode(k, b, tail) ==
  ScoreCode(k, b, tail)
  \o <<RunAt("rowmax", <<b, tail>>), Barrier, Run("rownew"), Barrier, Run("probs"), Barrier, Run("rowsum"),
       Barrier, Run("sanitize"), Barrier>>
  \o FlattenSeq([t \in 1..TPG(k) |-> ValueCode(k, b, t - 1, tail)])
  \o <<Barrier>>
SimdFlashCode(k, g) ==
  LET q0 == QStart(k, g)
      full == FullBlocks(k, g)
      skips(b) == k.causal /\ k.sourceblock = 0 /\ b * BN(k) > q0 + BM(k) - 1
      last == CHOOSE x \in 0..full : (x = full \/ skips(x)) /\ \A y \in 0..(x - 1) : ~skips(y)
  IN <<Run("init"), Barrier>>
     \o FlattenSeq([b \in 1..last |-> BlockCode(k, b - 1, FALSE)])
     \o (IF full * BN(k) < Stop(k, g) /\ ~skips(full) THEN BlockCode(k, full, TRUE) ELSE <<>>)
     \o (IF k.lse THEN <<Barrier, Run("lse")>> ELSE <<>>)
     \o FlattenSeq([x \in 1..(k.blocks * TPG(k)) |->
          LET at == <<(x - 1) \div TPG(k), (x - 1) % TPG(k)>>
          IN <<LanesAt("spill", at), Barrier, RunAt("final", at), Barrier>>])

\* register fragments: SIMD group s's accumulator o[rb][t], its score column,
\* its prefetched V
OCells(k, s, rbs, t) ==
  {((((s * k.blocks) + rb) * TPG(k)) + t) * k.frag * k.frag + e : rb \in rbs, e \in 0..((k.frag * k.frag) - 1)}
ORow(k, j) == (((j \div (k.frag * k.frag)) \div TPG(k)) % k.blocks) * k.frag + ((j % (k.frag * k.frag)) \div k.frag)
OCol(k, j) == j % k.frag
SCells(k, s) == {(s * BM(k) * k.frag) + e : e \in 0..((BM(k) * k.frag) - 1)}
VCells(k, s) == {(s * BN(k) * k.frag) + e : e \in 0..((BN(k) * k.frag) - 1)}
RowPos(k, t) == t \div k.per
Columns(k, t) == LET w == BN(k) \div k.per IN ((t % k.per) * w)..(((t % k.per) * w) + w - 1)

\* the initial state of the tile and its scores
SimdScores(k, g, i, t, v) ==
  LET q0 == QStart(k, g)
      s == SimdOf(k, t)
      zh == g \div CeilDiv(k.n, BM(k))
      q(r, c) == Mul(At(v.Q, (((zh * k.n) + r) * k.D) + c), IF k.roundq THEN Fn("round", k.scale) ELSE 1)
      keyAt(r, c) == At(v.K, (((zh * k.n) + r) * k.D) + c)
      inK(r) == IF k.unmasked THEN SourceTail(k, r, Stop(k, g)) ELSE r < k.n /\ (k.sourcestop => SourceTail(k, r, Stop(k, g)))
      term(j, key, depth, low) ==
        Total([c \in 0..(depth - 1) |->
          Mul(v.tgQ[((j % (BM(k) * k.frag)) \div k.frag) * k.D + low + c], key[c])])
  IN CASE i.do = "init" ->
            [tgQ |-> [j \in Mine(k, t, BM(k) * k.D) |->
               IF q0 + (j \div k.D) < k.n THEN Rounded(k.roundq, q(q0 + (j \div k.D), j % k.D)) ELSE 0]]
            @@ (IF t < BM(k) THEN [tg_m |-> t :> NegInf, tg_l |-> t :> k.initden] ELSE Nothing)
            @@ (IF LaneOf(k, t) = 0
                THEN [o |-> [j \in UNION {OCells(k, s, 0..(k.blocks - 1), x) : x \in 0..(TPG(k) - 1)} |-> k.initacc]]
                ELSE Nothing)
       [] i.do = "zero" /\ LaneOf(k, t) = 0 -> [acc |-> [j \in SCells(k, s) |-> 0]]
       [] i.do = "qk" /\ LaneOf(k, t) = 0 ->
            [acc |-> [j \in SCells(k, s) |->
               LET kv == (i.i * BN(k)) + (s * k.frag) + (j % k.frag)
               IN Add(v.acc[j], term(j, [c \in 0..(k.D - 1) |-> keyAt(kv, c)], k.D, 0))]]
       [] i.do = "stageK" ->
            [tgKV |-> [e \in Mine(k, t, BN(k) * k.frag) |->
               LET kv == (i.i[1] * BN(k)) + (e \div k.frag)
               IN IF inK(kv) THEN keyAt(kv, (i.i[2] * k.frag) + (e % k.frag)) ELSE 0]]
       [] i.do = "qkstaged" /\ LaneOf(k, t) = 0 ->
            [acc |-> [j \in SCells(k, s) |->
               LET key == [c \in 0..(k.frag - 1) |-> v.tgKV[((s * k.frag) + (j % k.frag)) * k.frag + c]]
               IN Add(v.acc[j], term(j, key, k.frag, i.i * k.frag))]]
       [] i.do = "storeS" /\ LaneOf(k, t) = 0 ->
            [tg_S |-> [x \in {((j % (BM(k) * k.frag)) \div k.frag) * BN(k) + (s * k.frag) + (j % k.frag) : j \in SCells(k, s)} |->
               v.acc[(s * BM(k) * k.frag) + ((x \div BN(k)) * k.frag) + (x % k.frag)]]]
       [] OTHER -> Nothing

\* the online softmax of a block: k.per threads to a row; a masked score is
\* -inf, or the source's own finite sentinel
SimdSoftmax(k, g, i, t, v) ==
  LET r == RowPos(k, t)
      cols == Columns(k, t)
      zh == g \div CeilDiv(k.n, BM(k))
      qrow == QStart(k, g) + r
      cell(c) == (r * BN(k)) + c
      score(c) ==
        LET kv == (i.i[1] * BN(k)) + c
            s == Mul(v.tg_S[cell(c)], IF k.roundq THEN 1 ELSE k.scale)
        IN CASE ~ScoreGuard(k, i.i[2], qrow, kv) -> k.sentinel
             [] k.mask /\ At(v.Mask, (zh * k.n) + kv) # 0 -> k.sentinel
             [] k.bias -> Add(s, At(v.Bias, (((zh * k.n) + qrow) * k.n) + kv))
             [] OTHER -> s
      mnew == Top(v.tg_m[t], Largest([j \in 0..(k.per - 1) |-> v.tg_pmax[(t * k.per) + j]]))
      shrink == Exp(Diff(v.tg_m[t], mnew))
      p(c) == Exp(Diff(v.tg_S[cell(c)], v.tg_m[r]))
      P == IF k.half THEN "tgP" ELSE "tg_S"
  IN CASE i.do = "rowmax" ->
            [tg_S |-> [x \in {cell(c) : c \in cols} |-> score(x % BN(k))],
             tg_pmax |-> t :> Largest([c \in cols |-> score(c)])]
       [] i.do = "rownew" /\ t < BM(k) ->
            [tg_m |-> t :> mnew, tg_alpha |-> t :> shrink, tg_l |-> t :> Mul(v.tg_l[t], shrink)]
       [] i.do = "probs" ->
            P :> [x \in {cell(c) : c \in cols} |-> Rounded(k.half \/ k.roundp, p(x % BN(k)))]
            @@ "tg_psum" :> (t :> Total([c \in cols |-> p(c)]))
       [] i.do = "rowsum" /\ t < BM(k) ->
            [tg_l |-> t :> Add(v.tg_l[t], Total([j \in 0..(k.per - 1) |-> v.tg_psum[(t * k.per) + j]]))]
       \* a row that is not finite contributes nothing to the products
       [] i.do = "sanitize" /\ v.tg_l[r] = NaN -> P :> [x \in {cell(c) : c \in cols} |-> 0]
       [] OTHER -> Nothing

\* rescaling of the accumulator through scratch memory, P @ V, the result
SimdValues(k, g, i, t, v) ==
  LET s == SimdOf(k, t)
      zh == g \div CeilDiv(k.n, BM(k))
      ff == k.frag * k.frag
      lead == LaneOf(k, t) = 0
      rows == 0..(k.blocks - 1)
      value(kv, c) == IF c < k.Dv THEN At(v.V, (((zh * k.n) + kv) * k.Dv) + c) ELSE 0
      inV(r) == IF k.unmasked THEN SourceTail(k, r, Stop(k, g)) ELSE r < k.n /\ (k.sourcestop => SourceTail(k, r, Stop(k, g)))
      \* all fragments of column tile t in the score tile, one in on_scratch
      wide == {(s * k.blocks * ff) + e : e \in 0..((k.blocks * ff) - 1)}
      narrow == {(s * ff) + e : e \in 0..(ff - 1)}
      mineOf(S) == {x \in S : (x % ff) % k.simd = LaneOf(k, t)}
      o(rb, tt, e) == v.o[((((s * k.blocks) + rb) * TPG(k)) + tt) * ff + e]
      alpha(r) == IF v.tg_alpha[r] = NaN THEN 0 ELSE v.tg_alpha[r]
      P == IF k.half THEN v.tgP ELSE v.tg_S
      vcell(c, e) == (s * BN(k) * k.frag) + (c * k.frag) + e
  IN CASE i.do = "spillall" /\ lead -> [tg_S |-> [x \in wide |-> o((x - (s * k.blocks * ff)) \div ff, i.i, x % ff)]]
       [] i.do = "rescaleall" ->
            [tg_S |-> [x \in mineOf(wide) |->
               Mul(v.tg_S[x], alpha((((x - (s * k.blocks * ff)) \div ff) * k.frag) + ((x % ff) \div k.frag)))]]
       [] i.do = "loadall" /\ lead ->
            [o |-> [j \in OCells(k, s, rows, i.i) |->
               v.tg_S[(s * k.blocks * ff) + ((ORow(k, j) \div k.frag) * ff) + (j % ff)]]]
       [] i.do = "spill" /\ lead -> [on_scratch |-> [x \in narrow |-> o(i.i[1], i.i[2], x % ff)]]
       [] i.do = "rescale" ->
            [on_scratch |-> [x \in mineOf(narrow) |->
               Mul(v.on_scratch[x], alpha((i.i[1] * k.frag) + ((x % ff) \div k.frag)))]]
       [] i.do = "load" /\ lead -> [o |-> [j \in OCells(k, s, {i.i[1]}, i.i[2]) |-> v.on_scratch[(s * ff) + (j % ff)]]]
       \* a surplus column tile loads tile 0 and is dropped at the store
       [] i.do = "loadV" /\ lead ->
            LET c0 == (s + (i.i[2] * SimdCount(k))) * k.frag IN
            [vfs |-> [x \in VCells(k, s) |->
               value((i.i[1] * BN(k)) + ((x % (BN(k) * k.frag)) \div k.frag), (IF c0 < k.Dv THEN c0 ELSE 0) + (x % k.frag))]]
       [] i.do = "stageV" ->
            [tgKV |-> [x \in mineOf(narrow) |->
               LET kv == (i.i[1] * BN(k)) + (i.i[2] * k.frag) + ((x % ff) \div k.frag)
               IN IF inV(kv) THEN value(kv, ((s + (i.i[3] * SimdCount(k))) * k.frag) + (x % k.frag)) ELSE 0]]
       [] i.do = "takeV" /\ lead ->
            [vfs |-> [x \in {vcell((i.i * k.frag) + (e \div k.frag), e % k.frag) : e \in 0..(ff - 1)} |->
               v.tgKV[(s * ff) + ((((x % (BN(k) * k.frag)) \div k.frag) - (i.i * k.frag)) * k.frag) + (x % k.frag)]]]
       [] i.do = "pv" /\ lead ->
            [o |-> [j \in OCells(k, s, rows, i.i) |->
               Add(v.o[j], Total([c \in 0..(BN(k) - 1) |-> Mul(P[(ORow(k, j) * BN(k)) + c], v.vfs[vcell(c, OCol(k, j))])]))]]
       [] OTHER -> Nothing
SimdFinal(k, g, i, t, v) ==
  LET s == SimdOf(k, t)
      ff == k.frag * k.frag
      zh == g \div CeilDiv(k.n, BM(k))
      q(r) == QStart(k, g) + r
      c0 == (s + (i.i[2] * SimdCount(k))) * k.frag
      row(e) == (i.i[1] * k.frag) + (e \div k.frag)
      at(e) == (((zh * k.n) + q(row(e))) * k.Dv) + c0 + (e % k.frag)
      mine == {e \in 0..(ff - 1) : e % k.simd = LaneOf(k, t) /\ q(row(e)) < k.n /\ c0 + (e % k.frag) < k.Dv}
      result(e) ==
        LET l == v.tg_l[row(e)] IN
        CASE l = NaN -> NaN [] l = 0 -> 0 [] OTHER -> Div(v.on_scratch[(s * ff) + e], l)
  IN IF i.do = "lse"
     THEN IF t < BM(k) /\ q(t) < k.n
          THEN Put("Lse", (zh * k.n) + q(t), IF v.tg_l[t] = 0 THEN NegInf ELSE Add(v.tg_m[t], Fn("log", v.tg_l[t])))
          ELSE Nothing
     ELSE [Out |-> [x \in {at(e) : e \in mine} |-> Rounded(k.half, result(CHOOSE e \in mine : at(e) = x))]]
SimdFlash(k, g, i, t, v) ==
  CASE i.do \in {"init", "zero", "qk", "stageK", "qkstaged", "storeS"} -> SimdScores(k, g, i, t, v)
    [] i.do \in {"rowmax", "rownew", "probs", "rowsum", "sanitize"} -> SimdSoftmax(k, g, i, t, v)
    [] i.do \in {"lse", "final"} -> SimdFinal(k, g, i, t, v)
    [] OTHER -> SimdValues(k, g, i, t, v)

------------------------------------------------------------------------------
(***************************************************************************)
(* Forward attention of codegen/_msl_templates.py in tiles of the head     *)
(* dimension, and over packed sequences of different lengths: the scalar   *)
(* kernel with a query row per thread, and the one on simdgroup matrices.  *)
(***************************************************************************)
\* ---- tiled by the head dimension: k.bm rows, k.bn keys, k.dc columns a chunk --
\* every row needs a thread of its own; k.cap is 1024 in the code
TiledThreads(k) == Bottom(k.bm * k.bn, k.cap)
TiledAdmits(k) ==
  /\ k.bm <= k.cap /\ k.threads = TiledThreads(k) /\ k.D % k.dc = 0
  /\ k.sourceblock > 0 =>
       k.sourceblock = k.bn /\ ~k.bias /\ ~k.mask /\ ~k.finite /\ (k.causal => k.masktail)
  /\ k.unmasked \/ k.sourcestop => k.sourceblock > 0
  /\ k.qtile < k.bm => ~k.bias /\ ~k.mask /\ ~k.lse /\ k.sourceblock = k.bn
TiledStop(k, g) ==
  IF k.sourcestop THEN Bottom(((g % CeilDiv(k.queries, k.bm)) * k.bm) + k.bm, k.n) ELSE k.n
\* the query rows are worked off in resident tiles of k.qtile rows
TiledFlashCode(k, g) ==
  LET chunks == k.D \div k.dc
      block(o, b) ==
        <<Run("zero"), Barrier>>
        \o FlattenSeq([c \in 1..chunks |-> <<RunAt("stageK", <<b, c - 1>>), Barrier, RunAt("scores", <<o, b, c - 1>>), Barrier>>])
        \o <<RunAt("update", <<o, b>>), Barrier>>
        \o FlattenSeq([c \in 1..chunks |-> <<RunAt("stageV", <<b, c - 1>>), Barrier, RunAt("values", c - 1), Barrier>>])
      tile(o) ==
        <<Run("init"), Barrier>>
        \o FlattenSeq([b \in 1..CeilDiv(TiledStop(k, g), k.bn) |-> block(o, b - 1)])
        \o <<RunAt("output", o)>> \o (IF k.lse THEN <<Run("lse")>> ELSE <<>>)
        \o (IF k.qtile < k.bm THEN <<Barrier>> ELSE <<>>)
  IN FlattenSeq([o \in 1..CeilDiv(k.bm, k.qtile) |-> tile((o - 1) * k.qtile)])
TiledFlash(k, g, i, t, v) ==
  LET blocks == CeilDiv(k.queries, k.bm)
      zh == g \div blocks
      rows == k.qtile
      row(o, r) == ((g % blocks) * k.bm) + o + r
      within(on, kv) == IF on THEN SourceTail(k, kv, k.n) ELSE kv < k.n
      kv0 == i.i[1] * k.bn
      keep(q, kv) ==
        IF k.sourceblock > 0 /\ ~k.masktail THEN SourceTail(k, kv, k.n) ELSE kv < k.n /\ (k.causal => kv <= q)
      query(q, c) ==
        LET x == v.Q[(((zh * k.queries) + q) * k.D) + c] IN IF k.roundq THEN Fn("round", Mul(x, Fn("round", k.scale))) ELSE x
      sentinel == IF k.finite THEN k.sentinel ELSE NegInf
  IN CASE i.do = "init" ->
            [acc |-> [j \in Mine(k, t, rows * k.D) |-> k.initacc]]
            @@ (IF t < rows THEN [tg_m |-> t :> NegInf, tg_l |-> t :> k.initden] ELSE Nothing)
       [] i.do = "zero" -> [tg_S |-> [j \in Mine(k, t, rows * k.bn) |-> 0]]
       [] i.do \in {"stageK", "stageV"} ->
            LET f == IF i.do = "stageK" THEN v.K ELSE v.V IN
            [tg_KV |-> [j \in Mine(k, t, k.bn * k.dc) |->
               LET kv == kv0 + (j \div k.dc)
               IN IF within(k.unmasked, kv) THEN At(f, (((zh * k.n) + kv) * k.D) + (i.i[2] * k.dc) + (j % k.dc)) ELSE 0]]
       [] i.do = "scores" ->
            LET kvs == i.i[2] * k.bn
                mine == {j \in Mine(k, t, rows * k.bn) :
                          row(i.i[1], j \div k.bn) < k.queries /\ within(k.unmasked, kvs + (j % k.bn))}
            IN [tg_S |-> [j \in mine |->
                  Add(v.tg_S[j], Total([c \in 0..(k.dc - 1) |->
                    Mul(query(row(i.i[1], j \div k.bn), (i.i[3] * k.dc) + c), v.tg_KV[((j % k.bn) * k.dc) + c])]))]]
       [] i.do = "update" /\ t < rows ->
            LET q == row(i.i[1], t)
                kvs == i.i[2] * k.bn
                score(c) ==
                  LET s == Mul(v.tg_S[(t * k.bn) + c], IF k.roundq THEN 1 ELSE k.scale) IN
                  CASE ~keep(q, kvs + c) -> sentinel
                    [] k.mask /\ At(v.Mask, (zh * k.n) + kvs + c) # 0 -> sentinel
                    [] k.bias -> Add(s, v.Bias[(((zh * k.n) + q) * k.n) + kvs + c])
                    [] OTHER -> s
                s == Table([c \in 0..(k.bn - 1) |-> score(c)])
                m == Top(v.tg_m[t], Largest(s))
                shrink == Exp(Diff(v.tg_m[t], m))
                p == [c \in 0..(k.bn - 1) |-> IF k.finite \/ keep(q, kvs + c) THEN Exp(Diff(s[c], m)) ELSE 0]
                cells == {(t * k.bn) + c : c \in 0..(k.bn - 1)}
            IN IF q >= k.queries THEN [tg_S |-> [j \in cells |-> 0]]
               ELSE [tg_S |-> [j \in cells |-> Rounded(k.roundp, p[j % k.bn])],
                     tg_m |-> t :> m, tg_l |-> t :> Add(Mul(v.tg_l[t], shrink), Total(p)),
                     acc |-> [j \in {(t * k.D) + d : d \in 0..(k.D - 1)} |-> Mul(v.acc[j], shrink)]]
       [] i.do = "values" ->
            LET at(j) == ((j \div k.dc) * k.D) + (i.i * k.dc) + (j % k.dc)
                mine == Mine(k, t, rows * k.dc)
                term(j) == Total([c \in 0..(k.bn - 1) |-> Mul(v.tg_S[((j \div k.dc) * k.bn) + c], v.tg_KV[(c * k.dc) + (j % k.dc)])])
            IN [acc |-> [x \in {at(j) : j \in mine} |-> Add(v.acc[x], term(CHOOSE j \in mine : at(j) = x))]]
       [] i.do = "output" ->
            LET at(j) == (((zh * k.queries) + row(i.i, j \div k.D)) * k.D) + (j % k.D)
                mine == {j \in Mine(k, t, rows * k.D) : row(i.i, j \div k.D) < k.queries}
                result(j) == LET l == v.tg_l[j \div k.D] IN
                  CASE l = NaN -> IF k.finite \/ ~k.bias THEN NaN ELSE 0 [] l = 0 -> 0 [] OTHER -> Div(v.acc[j], l)
            IN [Out |-> [x \in {at(j) : j \in mine} |-> Cast(k, result(CHOOSE j \in mine : at(j) = x))]]
       [] i.do = "lse" /\ t < rows /\ row(0, t) < k.queries ->
            Put("Lse", (zh * k.queries) + row(0, t), IF v.tg_l[t] = 0 THEN NegInf ELSE Add(v.tg_m[t], Fn("log", v.tg_l[t])))
       [] OTHER -> Nothing

\* ---- packed sequences: group g is block g % k.qblocks of a batch and head -------
Batch(k, g) == (g \div k.qblocks) \div k.heads
HeadOf(k, g) == (g \div k.qblocks) % k.heads
\* the first token of a batch and their number, from the cumulative lengths
Tokens(c, b) == c[b + 1] - c[b]
TokenCell(k, start, r, h, c) == ((((start + r) * k.heads) + h) * k.D) + c
VarlenRows(k, g, v) == Tokens(v.CUQ, Batch(k, g))
\* a loop bound of the source clamps the keys that are attended
KeyEnd(k, g, v) == Bottom(Tokens(v.CUK, Batch(k, g)), k.maxkeys)
FirstRow(k, g) == (g % k.qblocks) * k.bm

VarlenCode(k, g, arrays) ==
  IF FirstRow(k, g) >= VarlenRows(k, g, arrays) THEN <<>>
  ELSE <<Run("init")>>
       \o FlattenSeq([b \in 1..CeilDiv(KeyEnd(k, g, arrays), k.bn) |-> <<RunAt("stage", b - 1), Barrier, RunAt("row", b - 1), Barrier>>])
       \o <<Run("output")>>
\* a thread keeps the accumulator of its row, and its maximum and sum, in registers
Varlen(k, g, i, t, v) ==
  LET b == Batch(k, g)
      h == HeadOf(k, g)
      q == FirstRow(k, g) + t
      valid == q < VarlenRows(k, g, v)
      cells == {(t * k.D) + c : c \in 0..(k.D - 1)}
      keys == {c \in 0..(k.bn - 1) : (i.i * k.bn) + c < KeyEnd(k, g, v) /\ (k.causal => (i.i * k.bn) + c <= q)}
      score(c) == Mul(Total([d \in 0..(k.D - 1) |-> Mul(v.q[(t * k.D) + d], v.tg_K[(c * k.D) + d])]), k.scale)
      attend(state, c) ==
        LET s == score(c)
            m == Top(state.m, s)
            shrink == Exp(Diff(state.m, m))
            p == Exp(Diff(s, m))
        IN [m |-> m, l |-> Add(Mul(state.l, shrink), p),
            acc |-> Table([j \in cells |-> Add(Mul(state.acc[j], shrink), Mul(p, v.tg_V[(c * k.D) + (j % k.D)]))])]
  IN CASE i.do = "init" ->
            [q |-> [j \in cells |-> IF valid THEN v.Q[TokenCell(k, v.CUQ[b], q, h, j % k.D)] ELSE 0],
             acc |-> [j \in cells |-> 0], m |-> t :> NegInf, l |-> t :> 0]
       [] i.do = "stage" ->
            LET tile(f) == [e \in Mine(k, t, k.bn * k.D) |->
                  LET kv == (i.i * k.bn) + (e \div k.D)
                  IN IF kv < KeyEnd(k, g, v) THEN f[TokenCell(k, v.CUK[b], kv, h, e % k.D)] ELSE 0]
            IN [tg_K |-> tile(v.K), tg_V |-> tile(v.V)]
       [] i.do = "row" /\ valid ->
            LET end == FoldLeft(attend, [m |-> v.m[t], l |-> v.l[t], acc |-> [j \in cells |-> v.acc[j]]],
                                SelectSeq([c \in 1..k.bn |-> c - 1], LAMBDA c : c \in keys))
            IN [acc |-> end.acc, m |-> t :> end.m, l |-> t :> end.l]
       [] i.do = "output" /\ valid ->
            [O |-> [x \in {TokenCell(k, v.CUQ[b], q, h, c) : c \in 0..(k.D - 1)} |-> Cast(k, Div(v.acc[(t * k.D) + (x % k.D)], v.l[t]))]]
       [] OTHER -> Nothing

\* ---- the same on simdgroup matrices: SIMD group s owns k.frag rows of the tile --
VarlenBytes(k) ==
  LET tb == IF k.half THEN 2 ELSE 4 IN
  (k.bm * k.D * tb) + (2 * k.bn * k.D * tb) + (k.bm * k.bn * tb) + (k.bm * k.bn * 4) + (12 * k.bm)
VarlenMmaAdmits(k) == k.D % k.frag = 0 /\ VarlenBytes(k) <= k.tgbytes
VarlenMmaCode(k, g, arrays) ==
  LET column(et) == <<LanesAt("spill", et), SimdBarrier, Run("rescale"), SimdBarrier, LanesAt("load", et), SimdBarrier, LanesAt("pv", et)>>
      columns == 1..(k.D \div k.frag)
      block(b) ==
        <<RunAt("stage", b), Barrier, Lanes("scores"), SimdBarrier, RunAt("softmax", b), Barrier>>
        \o FlattenSeq([et \in columns |-> column(et - 1)]) \o <<Barrier>>
  IN IF FirstRow(k, g) >= VarlenRows(k, g, arrays) THEN <<>>
     ELSE <<Run("init"), Barrier>>
          \o FlattenSeq([b \in 1..CeilDiv(KeyEnd(k, g, arrays), k.bn) |-> block(b - 1)])
          \o FlattenSeq([et \in columns |-> <<LanesAt("spill", et - 1), SimdBarrier, RunAt("output", et - 1), SimdBarrier>>])
VarlenMma(k, g, i, t, v) ==
  LET b == Batch(k, g)
      h == HeadOf(k, g)
      s == SimdOf(k, t)
      ff == k.frag * k.frag
      lead == LaneOf(k, t) = 0
      own == {(s * ff) + e : e \in 0..(ff - 1)}
      column(et) == {(((s * (k.D \div k.frag)) + et) * ff) + e : e \in 0..(ff - 1)}
      r == (s * k.frag) + LaneOf(k, t)
      q == FirstRow(k, g) + r
      shown(kv) == kv < KeyEnd(k, g, v) /\ (k.causal => kv <= q)
  IN CASE i.do = "init" ->
            [tg_Q |-> [j \in Mine(k, t, k.bm * k.D) |->
               IF FirstRow(k, g) + (j \div k.D) < VarlenRows(k, g, v)
               THEN v.Q[TokenCell(k, v.CUQ[b], FirstRow(k, g) + (j \div k.D), h, j % k.D)] ELSE 0],
             tg_m |-> [j \in Mine(k, t, k.bm) |-> NegInf], tg_l |-> [j \in Mine(k, t, k.bm) |-> 0]]
            @@ (IF lead THEN [o |-> [j \in UNION {column(et) : et \in 0..((k.D \div k.frag) - 1)} |-> 0]] ELSE Nothing)
       [] i.do = "stage" ->
            LET tile(f) == [e \in Mine(k, t, k.bn * k.D) |->
                  LET kv == (i.i * k.bn) + (e \div k.D)
                  IN IF kv < KeyEnd(k, g, v) THEN f[TokenCell(k, v.CUK[b], kv, h, e % k.D)] ELSE 0]
            IN [tg_K |-> tile(v.K), tg_V |-> tile(v.V)]
       [] i.do = "scores" /\ lead ->
            [tg_S |-> [j \in {(x * k.bn) + c : x \in (s * k.frag)..((s * k.frag) + k.frag - 1), c \in 0..(k.bn - 1)} |->
               DotRows(v.tg_Q, (j \div k.bn) * k.D, v.tg_K, (j % k.bn) * k.D, k.D)]]
       \* one lane per row; a row that is not finite is kept out of both products
       [] i.do = "softmax" /\ LaneOf(k, t) < k.frag ->
            LET sc == [c \in 0..(k.bn - 1) |-> IF shown((i.i * k.bn) + c) THEN Mul(v.tg_S[(r * k.bn) + c], k.scale) ELSE NegInf]
                m == Top(v.tg_m[r], Largest(sc))
                shrink == Exp(Diff(v.tg_m[r], m))
                p == [c \in 0..(k.bn - 1) |-> Exp(Diff(sc[c], m))]
                l == Add(Mul(v.tg_l[r], shrink), Total(p))
                cells == {(r * k.bn) + c : c \in 0..(k.bn - 1)}
            IN [tg_S |-> [j \in cells |-> sc[j % k.bn]], tg_m |-> r :> m, tg_l |-> r :> l,
                tg_P |-> [j \in cells |-> IF l = NaN THEN 0 ELSE Cast(k, p[j % k.bn])],
                tg_alpha |-> r :> (IF l = NaN THEN 0 ELSE shrink)]
       \* the dead score tile is the scratch of each SIMD group
       [] i.do = "spill" /\ lead -> [tg_S |-> [x \in own |-> v.o[(((s * (k.D \div k.frag)) + i.i) * ff) + (x % ff)]]]
       [] i.do = "rescale" ->
            [tg_S |-> [x \in {y \in own : (y % ff) % k.simd = LaneOf(k, t)} |->
               Mul(v.tg_S[x], v.tg_alpha[(s * k.frag) + ((x % ff) \div k.frag)])]]
       [] i.do = "load" /\ lead -> [o |-> [j \in column(i.i) |-> v.tg_S[(s * ff) + (j % ff)]]]
       [] i.do = "pv" /\ lead ->
            [o |-> [j \in column(i.i) |->
               Add(v.o[j], Total([c \in 0..(k.bn - 1) |->
                 Mul(v.tg_P[(((s * k.frag) + ((j % ff) \div k.frag)) * k.bn) + c], v.tg_V[(c * k.D) + (i.i * k.frag) + (j % k.frag)])]))]]
       [] i.do = "output" /\ LaneOf(k, t) < k.frag /\ q < VarlenRows(k, g, v) ->
            [O |-> [x \in {TokenCell(k, v.CUQ[b], q, h, (i.i * k.frag) + c) : c \in 0..(k.frag - 1)} |->
               Cast(k, Div(v.tg_S[(s * ff) + (LaneOf(k, t) * k.frag) + ((x % k.D) % k.frag)], v.tg_l[r]))]]
       [] OTHER -> Nothing
==============================================================================

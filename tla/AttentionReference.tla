------------------------- MODULE AttentionReference --------------------------
(***************************************************************************)
(* What the attention kernels are bound to and promise.                    *)
(***************************************************************************)
EXTENDS FlashTemplates, BackwardTemplates, KdaTemplates

(***************************************************************************)
(* The arrays of the forward attention templates, and the result each      *)
(* promises: softmax(Q K^T * scale, over the keys a query may see) V.      *)
(***************************************************************************)
FlashNames == {"causal_attention", "flash_attention", "simd_flash"}
FlashBase ==
  [threads |-> 4, simd |-> 2, groups |-> 2, half |-> FALSE, n |-> 3, heads |-> 1, D |-> 2, Dv |-> 2, scale |-> 5,
   br |-> 2, bc |-> 2, causal |-> FALSE, frag |-> 1, blocks |-> 2, per |-> 2, halfacc |-> FALSE, sourceblock |-> 0,
   sourcestop |-> FALSE, masktail |-> TRUE, unmasked |-> FALSE, bias |-> FALSE, mask |-> FALSE, lse |-> FALSE,
   sentinel |-> NegInf, roundq |-> FALSE, roundp |-> FALSE, initacc |-> 0, initden |-> 0, poison |-> FALSE]
FlashKernel(name, with) == with @@ [name |-> name] @@ FlashBase

\* a source loop that does not mask reads the rows beyond the last key as well
KeyRows(k) == IF k.unmasked THEN (k.heads * k.n) + k.sourceblock ELSE k.heads * k.n
FlashArrays(k) ==
  LET q == Input(1, k.heads * k.n * k.D)
      tile == Top(BM(k), k.br)
  IN [dev |->
        [Q |-> IF k.poison THEN [q EXCEPT ![0] = NaN] ELSE q,
         K |-> Input(2, KeyRows(k) * k.D), V |-> Input(3, KeyRows(k) * k.Dv),
         output |-> Filled(k.heads * k.n * k.D, NaN), O |-> Filled(k.heads * k.n * k.D, NaN),
         Out |-> Filled(k.heads * k.n * k.Dv, NaN), Lse |-> Filled(k.heads * k.n, NaN),
         Bias |-> Input(4, k.heads * k.n * k.n), Mask |-> [j \in 0..((k.heads * k.n) - 1) |-> j % 2]],
      tg |-> [a \in {"tg_scores", "tg_max", "tg_sum"} |-> Filled(k.threads, NaN)]
             @@ [tg_Q |-> Filled(k.br * k.D, NaN), tg_O |-> Filled(k.br * k.D, NaN), tg_K |-> Filled(k.bc * k.D, NaN),
                 tg_V |-> Filled(k.bc * k.D, NaN), tg_S |-> Filled(Top(tile * Top(BN(k), k.bc), k.threads * k.frag * k.frag), NaN),
                 tgQ |-> Filled(BM(k) * k.D, NaN), tgP |-> Filled(BM(k) * BN(k), NaN),
                 on_scratch |-> Filled(SimdCount(k) * k.frag * k.frag, NaN), tgKV |-> Filled(BN(k) * k.frag, NaN)]
             @@ [a \in {"tg_m", "tg_l", "tg_alpha"} |-> Filled(tile, NaN)]
             @@ [a \in {"tg_pmax", "tg_psum"} |-> Filled(BM(k) * k.per, NaN)],
      reg |-> Regs(k, {"score", "part"})
              @@ [o |-> Filled(SimdCount(k) * k.blocks * TPG(k) * k.frag * k.frag, NaN),
                  acc |-> Filled(SimdCount(k) * BM(k) * k.frag, NaN), vfs |-> Filled(SimdCount(k) * BN(k) * k.frag, NaN)]]
FlashCodeOf(k, g) ==
  CASE k.name = "causal_attention" -> CausalCode
    [] k.name = "flash_attention" -> FlashCode(k)
    [] k.name = "simd_flash" -> SimdFlashCode(k, g)
FlashEffect(k, g, i, t, v) ==
  CASE k.name = "causal_attention" -> CausalAttention(k, g, i, t, v)
    [] k.name = "flash_attention" -> FlashAttention(k, g, i, t, v)
    [] k.name = "simd_flash" -> SimdFlash(k, g, i, t, v)
FlashAdmitted(k) == k.name = "simd_flash" => SimdFlashAdmits(k)

\* ---- the promise ----------------------------------------------------------------
\* the keys of a row's softmax: those it may see, and the zero keys of the
\* source's last block or the masked ones when a finite sentinel holds them
Visible(k, q) == {kv \in 0..(k.n - 1) : (k.causal \/ k.name = "causal_attention") => kv <= q}
Counted(k, q) ==
  CASE k.name # "simd_flash" -> Visible(k, q)
    [] k.sourceblock > 0 /\ ~k.masktail -> 0..((CeilDiv(k.n, k.sourceblock) * k.sourceblock) - 1)
    [] k.sentinel # NegInf -> 0..((CeilDiv(k.n, BN(k)) * BN(k)) - 1)
    [] OTHER -> Visible(k, q)
ScoreOf(k, A, z, q, kv) ==
  LET q1 == [c \in 0..(k.D - 1) |->
               LET x == A.Q[(((z * k.n) + q) * k.D) + c]
               IN IF k.roundq THEN Fn("round", Mul(x, Fn("round", k.scale))) ELSE Mul(x, k.scale)]
      key(c) == IF kv < k.n \/ k.unmasked THEN A.K[(((z * k.n) + kv) * k.D) + c] ELSE 0
      s == Total([c \in DOMAIN q1 |-> Mul(q1[c], key(c))])
  IN CASE kv \notin Visible(k, q) /\ k.sentinel # NegInf -> k.sentinel
       [] k.mask /\ A.Mask[(z * k.n) + kv] # 0 -> k.sentinel
       [] k.bias -> Add(s, A.Bias[(((z * k.n) + q) * k.n) + kv])
       [] OTHER -> s
RowScores(k, A, z, q) == [kv \in Counted(k, q) |-> ScoreOf(k, A, z, q, kv)]
\* P is rounded relative to the maximum so far, block by block
Weight(k, s, kv) ==
  LET sofar == Largest([x \in {y \in DOMAIN s : y \div BN(k) <= kv \div BN(k)} |-> s[x]])
  IN IF k.name = "simd_flash" /\ (k.half \/ k.roundp)
     THEN Mul(Fn("round", Exp(Diff(s[kv], sofar))), Exp(Diff(sofar, Largest(s))))
     ELSE Exp(Diff(s[kv], Largest(s)))
Denominator(s) == Total([kv \in DOMAIN s |-> Exp(Diff(s[kv], Largest(s)))])
FlashWant(k) ==
  LET A == FlashArrays(k).dev
      width == IF k.name = "simd_flash" THEN k.Dv ELSE k.D
      rows == [z \in 0..(k.heads - 1), q \in 0..(k.n - 1) |-> RowScores(k, A, z, q)]
      value(z, kv, d) == IF kv < k.n \/ k.unmasked THEN A.V[(((z * k.n) + kv) * width) + d] ELSE 0
      attention == [x \in 0..((k.heads * k.n * width) - 1) |->
        LET z == (x \div width) \div k.n
            s == rows[z, (x \div width) % k.n]
        IN Cast(k, Div(Total([kv \in DOMAIN s |-> Mul(Weight(k, s, kv), value(z, kv, x % width))]), Denominator(s)))]
      lse == [x \in 0..((k.heads * k.n) - 1) |->
        LET s == rows[x \div k.n, x % k.n] IN Add(Largest(s), Fn("log", Denominator(s)))]
  IN CASE k.name = "causal_attention" -> [output |-> attention]
       [] k.name = "flash_attention" -> [O |-> attention]
       [] k.lse -> [Out |-> attention, Lse |-> lse]
       [] OTHER -> [Out |-> attention]
FlashInstances ==
  <<FlashKernel("causal_attention", [threads |-> 4, groups |-> 3]), FlashKernel("causal_attention", [heads |-> 2, n |-> 2, groups |-> 4]),
    FlashKernel("flash_attention", [threads |-> 3, simd |-> 3]), FlashKernel("flash_attention", [threads |-> 3, simd |-> 3, causal |-> TRUE, heads |-> 2, groups |-> 4]),
    FlashKernel("simd_flash", [half |-> TRUE]), FlashKernel("simd_flash", [n |-> 3]), FlashKernel("simd_flash", [half |-> TRUE, causal |-> TRUE, n |-> 5, groups |-> 3]),
    FlashKernel("simd_flash", [causal |-> TRUE, heads |-> 2, groups |-> 4, Dv |-> 1, poison |-> TRUE]), FlashKernel("simd_flash", [D |-> 1, Dv |-> 3, half |-> TRUE, halfacc |-> TRUE]),
    FlashKernel("simd_flash", [frag |-> 2, blocks |-> 1, n |-> 5, groups |-> 3, half |-> TRUE, roundq |-> TRUE]),
    FlashKernel("simd_flash", [bias |-> TRUE, mask |-> TRUE, lse |-> TRUE]),
    FlashKernel("simd_flash", [bias |-> TRUE, mask |-> TRUE, sentinel |-> -500, roundp |-> TRUE]),
    FlashKernel("simd_flash", [n |-> 1, groups |-> 1, sourceblock |-> 2, masktail |-> FALSE]),
    FlashKernel("simd_flash", [n |-> 3, sourceblock |-> 2, masktail |-> FALSE, unmasked |-> TRUE, half |-> TRUE]),
    FlashKernel("simd_flash", [causal |-> TRUE, n |-> 3, sourceblock |-> 2, sourcestop |-> TRUE])>>

------------------------------------------------------------------------------
(***************************************************************************)
(* The arrays of the tiled and packed attention templates, and the result  *)
(* each promises: softmax attention row by row.                            *)
(***************************************************************************)
TiledNames == {"tiled_flash", "varlen", "varlen_mma"}
TiledBase ==
  [threads |-> 4, simd |-> 2, groups |-> 2, half |-> FALSE, n |-> 3, queries |-> 3, heads |-> 1, D |-> 2, scale |-> 5,
   bm |-> 2, bn |-> 2, dc |-> 2, cap |-> 4, qtile |-> 2, causal |-> FALSE, sourceblock |-> 0, sourcestop |-> FALSE,
   masktail |-> TRUE, unmasked |-> FALSE, bias |-> FALSE, mask |-> FALSE, lse |-> FALSE, finite |-> FALSE, sentinel |-> -500,
   roundq |-> FALSE, roundp |-> FALSE, initacc |-> 0, initden |-> 0,
   qblocks |-> 2, maxkeys |-> 9, cuq |-> <<0, 3>>, cuk |-> <<0, 3>>, frag |-> 1, tgbytes |-> 200, poison |-> FALSE]
TiledKernel(name, with) == with @@ [name |-> name] @@ TiledBase
Packs(k) == k.name \in {"varlen", "varlen_mma"}

Cumulative(s) == [b \in 0..(Len(s) - 1) |-> s[b + 1]]
\* a source loop that does not mask reads the rows beyond the last key as well
TiledRows(k) ==
  IF Packs(k) THEN k.heads * k.cuk[Len(k.cuk)] ELSE (k.heads * k.n) + (IF k.unmasked THEN k.sourceblock ELSE 0)
TiledQueries(k) == IF Packs(k) THEN k.heads * k.cuq[Len(k.cuq)] ELSE k.heads * k.queries
TiledArrays(k) ==
  LET q == Input(1, TiledQueries(k) * k.D)
      fresh(n) == Filled(n, NaN)
  IN [dev |-> [Q |-> IF k.poison THEN [q EXCEPT ![0] = NaN] ELSE q, K |-> Input(2, TiledRows(k) * k.D), V |-> Input(3, TiledRows(k) * k.D),
               Out |-> fresh(TiledQueries(k) * k.D), O |-> fresh(TiledQueries(k) * k.D), Lse |-> fresh(TiledQueries(k)),
               CUQ |-> Cumulative(k.cuq), CUK |-> Cumulative(k.cuk),
               Bias |-> Input(4, k.heads * k.n * k.n), Mask |-> [j \in 0..((k.heads * k.n) - 1) |-> j % 2]],
      tg |-> [tg_S |-> fresh(k.bm * k.bn), tg_KV |-> fresh(Top(k.bm, k.bn) * k.dc), tg_K |-> fresh(k.bn * k.D), tg_V |-> fresh(k.bn * k.D),
              tg_Q |-> fresh(k.bm * k.D), tg_P |-> fresh(k.bm * k.bn), tg_m |-> fresh(k.bm), tg_l |-> fresh(k.bm), tg_alpha |-> fresh(k.bm)]
             @@ (IF Packs(k) THEN <<>> ELSE [acc |-> fresh(k.bm * k.D)]),
      reg |-> [m |-> fresh(k.threads), l |-> fresh(k.threads), q |-> fresh(k.threads * k.D),
               o |-> fresh(SimdCount(k) * k.frag * k.D)]
              @@ (IF Packs(k) THEN [acc |-> fresh(k.threads * k.D)] ELSE <<>>)]
TiledProgram(k, g) ==
  CASE k.name = "tiled_flash" -> TiledFlashCode(k, g)
    [] k.name = "varlen" -> VarlenCode(k, g, TiledArrays(k).dev)
    [] k.name = "varlen_mma" -> VarlenMmaCode(k, g, TiledArrays(k).dev)
TiledEffect(k, g, i, t, v) ==
  CASE k.name = "tiled_flash" -> TiledFlash(k, g, i, t, v)
    [] k.name = "varlen" -> Varlen(k, g, i, t, v)
    [] k.name = "varlen_mma" -> VarlenMma(k, g, i, t, v)
TiledAdmitted(k) ==
  CASE k.name = "tiled_flash" -> TiledAdmits(k)
    [] k.name = "varlen_mma" -> VarlenMmaAdmits(k)
    [] OTHER -> TRUE

\* ---- the promise ----------------------------------------------------------------
\* the keys row q of a sequence of n keys counts, and the score of each
Sees(k, n, q) ==
  IF ~k.masktail THEN 0..((CeilDiv(n, k.sourceblock) * k.sourceblock) - 1)
  ELSE IF k.finite THEN 0..((CeilDiv(n, k.bn) * k.bn) - 1)
  ELSE {kv \in 0..(n - 1) : k.causal => kv <= q}
SoftmaxOver(k, s, value) ==
  LET top == Largest(s)
      sofar(kv) == Largest([x \in {y \in DOMAIN s : y \div k.bn <= kv \div k.bn} |-> s[x]])
      e == [kv \in DOMAIN s |-> Exp(Diff(s[kv], top))]
      w == [kv \in DOMAIN s |->
              IF k.roundp \/ (k.half /\ k.name = "varlen_mma")
              THEN Mul(Fn("round", Exp(Diff(s[kv], sofar(kv)))), Exp(Diff(sofar(kv), top)))
              ELSE e[kv]]
  IN Cast(k, Div(Total([kv \in DOMAIN s |-> Mul(w[kv], value[kv])]), Total(e)))
RowOfQuery(k, f, r) == [c \in 0..(k.D - 1) |-> f[(r * k.D) + c]]
DenseWant(k) ==
  LET A == TiledArrays(k).dev
      zeros == [c \in 0..(k.D - 1) |-> 0]
      key(f, z, kv) == IF kv < k.n \/ k.unmasked THEN RowOfQuery(k, f, (z * k.n) + kv) ELSE zeros
      query(z, q) == [c \in 0..(k.D - 1) |->
        LET x == RowOfQuery(k, A.Q, (z * k.queries) + q)[c]
        IN IF k.roundq THEN Fn("round", Mul(x, Fn("round", k.scale))) ELSE Mul(x, k.scale)]
      score(z, q, kv) ==
        LET s == Dot(query(z, q), key(A.K, z, kv)) IN
        CASE k.finite /\ (kv >= k.n \/ (k.causal /\ kv > q)) -> k.sentinel
          [] k.mask /\ A.Mask[(z * k.n) + kv] # 0 -> IF k.finite THEN k.sentinel ELSE NegInf
          [] k.bias -> Add(s, A.Bias[(((z * k.n) + q) * k.n) + kv])
          [] OTHER -> s
      rows == Table([z \in 0..(k.heads - 1), q \in 0..(k.queries - 1) |-> Table([kv \in Sees(k, k.n, q) |-> score(z, q, kv)])])
      at(x) == rows[(x \div k.D) \div k.queries, (x \div k.D) % k.queries]
      out(x) == SoftmaxOver(k, at(x), [kv \in DOMAIN at(x) |-> key(A.V, (x \div k.D) \div k.queries, kv)[x % k.D]])
      lse(s) == Add(Largest(s), Fn("log", Total([kv \in DOMAIN s |-> Exp(Diff(s[kv], Largest(s)))])))
  IN [Out |-> [x \in DOMAIN A.Out |-> out(x)]]
     @@ (IF k.lse THEN [Lse |-> [x \in DOMAIN A.Lse |-> lse(rows[x \div k.queries, x % k.queries])]] ELSE <<>>)
PackedWant(k) ==
  LET A == TiledArrays(k).dev
      batch(token) == CHOOSE b \in 0..(Len(k.cuq) - 2) : A.CUQ[b] <= token /\ token < A.CUQ[b + 1]
      out(x) ==
        LET token == (x \div k.D) \div k.heads
            h == (x \div k.D) % k.heads
            b == batch(token)
            keys == Sees(k, Bottom(A.CUK[b + 1] - A.CUK[b], k.maxkeys), token - A.CUQ[b])
            row(f, kv) == RowOfQuery(k, f, ((A.CUK[b] + kv) * k.heads) + h)
            s == [kv \in keys |-> Mul(Dot(RowOfQuery(k, A.Q, (token * k.heads) + h), row(A.K, kv)), k.scale)]
        IN SoftmaxOver(k, s, [kv \in keys |-> row(A.V, kv)[x % k.D]])
  IN [O |-> [x \in DOMAIN A.O |-> out(x)]]
TiledWant(k) == IF Packs(k) THEN PackedWant(k) ELSE DenseWant(k)

TiledInstances ==
  <<TiledKernel("tiled_flash", [dc |-> 1]), TiledKernel("tiled_flash", [causal |-> TRUE, heads |-> 2, groups |-> 4, half |-> TRUE]),
    TiledKernel("tiled_flash", [bm |-> 4, cap |-> 4, groups |-> 1, qtile |-> 4]), TiledKernel("tiled_flash", [dc |-> 4]),
    TiledKernel("tiled_flash", [bias |-> TRUE, mask |-> TRUE, finite |-> TRUE, lse |-> TRUE, causal |-> TRUE]),
    TiledKernel("tiled_flash", [lse |-> TRUE, roundq |-> TRUE, roundp |-> TRUE, poison |-> TRUE]),
    TiledKernel("tiled_flash", [bm |-> 4, qtile |-> 2, n |-> 5, queries |-> 5, causal |-> TRUE, sourceblock |-> 2, sourcestop |-> TRUE]),
    TiledKernel("tiled_flash", [sourceblock |-> 2, masktail |-> FALSE, unmasked |-> TRUE]),
    TiledKernel("tiled_flash", [sourceblock |-> 2, masktail |-> FALSE, queries |-> 1, groups |-> 1]),
    TiledKernel("varlen", [threads |-> 2, cuq |-> <<0, 3, 4>>, cuk |-> <<0, 3, 5>>, groups |-> 4]),
    TiledKernel("varlen", [threads |-> 2, heads |-> 2, groups |-> 4, causal |-> TRUE, maxkeys |-> 2, half |-> TRUE]),
    TiledKernel("varlen_mma", [cuq |-> <<0, 3, 4>>, cuk |-> <<0, 3, 5>>, groups |-> 4, half |-> TRUE]),
    TiledKernel("varlen_mma", [causal |-> TRUE, poison |-> TRUE]),
    TiledKernel("varlen_mma", [bn |-> 4]), TiledKernel("varlen_mma", [D |-> 4, bm |-> 4, frag |-> 2, qblocks |-> 1, groups |-> 1, tgbytes |-> 999])>>

------------------------------------------------------------------------------
(***************************************************************************)
(* The arrays of the backward templates, and the gradients each promises:  *)
(* dV = P^T dO, dS = P (dO V^T - delta), dK = scale dS^T Q, dQ = scale     *)
(* dS K, delta = rowsum(O dO), dB = dS summed over the second batch axis.  *)
(***************************************************************************)
BackwardNames == {"bwd_kv", "bwd_kv_simd", "bwd_q", "bwd_q_simd", "bwd_b"}
BackwardBase ==
  [threads |-> 4, simd |-> 2, groups |-> 2, half |-> FALSE, n |-> 3, Z |-> 1, D |-> 2, BJ |-> 2, BK |-> 2, scale |-> 5,
   maskdiv |-> 1, roundk |-> FALSE, roundp |-> FALSE, roundds |-> FALSE, roundprod |-> FALSE, rounddelta |-> FALSE,
   neginf |-> FALSE, sentinel |-> -500, maxthreads |-> 4, maxmem |-> 1000, frag |-> 1, per |-> 1, poison |-> FALSE]
BackwardKernel(name, with) == with @@ [name |-> name] @@ BackwardBase

\* the bias kernel has a second batch axis of n
Heads(k) == IF k.name = "bwd_b" THEN k.Z * k.n ELSE k.Z
BackwardArrays(k) ==
  LET rows == Heads(k) * k.n
      nowhere == [a \in {"DK", "DV", "DQ"} |-> Filled(rows * k.D, NaN)]
  IN [dev |->
        [a \in {"Q", "K", "V", "O", "dO"} |-> Input(CASE a = "Q" -> 1 [] a = "K" -> 2 [] a = "V" -> 3 [] a = "O" -> 4 [] a = "dO" -> 5, rows * k.D)]
        @@ nowhere
        @@ [Bias |-> Input(6, k.Z * k.n * k.n), Mask |-> [x \in 0..((rows \div k.maskdiv) - 1) |-> IF x % 3 = 1 THEN 1 ELSE 0],
            Lse |-> Input(7, rows), DB |-> Filled(k.Z * k.n * k.n, NaN),
            Delta |-> IF k.name \in {"bwd_q", "bwd_q_simd"} THEN Filled(rows, NaN) ELSE Input(8, rows)],
      tg |-> [a \in {"tg_Q", "tg_K", "tg_V", "tg_dO", "dk_acc", "dv_acc", "dq_acc"} |-> Filled(Top(k.BJ, k.BK) * k.D, NaN)]
             @@ [a \in {"tg_P", "tg_dS"} |-> Filled(Top(k.BJ * k.BK, Top(k.BJ, k.BK) * k.D), NaN)]
             @@ [a \in {"db_acc", "tg_bias"} |-> Filled(k.BJ * k.BK, NaN)]
             @@ [a \in {"tg_lse", "tg_delta", "tg_mask"} |-> Filled(Top(k.BJ, k.BK), NaN)],
      reg |-> [dl |-> Filled(k.threads, NaN)]
              @@ [a \in {"dv_f", "dk_f", "dq_f"} |-> [x \in (0..(SimdCount(k) - 1)) \X (0..((Top(k.BJ, k.BK) * k.D) - 1)) |-> NaN]]]
BackwardCode(k) ==
  CASE k.name = "bwd_kv" -> KvCode(k)
    [] k.name = "bwd_kv_simd" -> KvMatrixCode(k)
    [] k.name = "bwd_q" -> QCode(k)
    [] k.name = "bwd_q_simd" -> QMatrixCode(k)
    [] k.name = "bwd_b" -> BiasCode(k)
BackwardEffect(k, g, i, t, v) ==
  CASE k.name = "bwd_kv" -> BackwardKv(k, g, i, t, v)
    [] k.name = "bwd_kv_simd" -> BackwardKvMatrix(k, g, i, t, v)
    [] k.name = "bwd_q" -> BackwardQ(k, g, i, t, v)
    [] k.name = "bwd_q_simd" -> BackwardQMatrix(k, g, i, t, v)
    [] k.name = "bwd_b" -> BackwardBias(k, g, i, t, v)
BackwardAdmitted(k) ==
  CASE k.name = "bwd_kv" -> KvSubtile(k) > 0
    [] k.name = "bwd_q" -> QSubtile(k) > 0 /\ ~k.rounddelta
    [] k.name = "bwd_b" -> BiasFits(k)
    [] OTHER -> MatrixFits(k)

BackwardWant(k) ==
  LET A == BackwardArrays(k).dev
      staged(z, r, d) == KStage(k, Elem(k, A.K, z, r, d))
      rawQ(z, r, d) == Elem(k, A.Q, z, r, d)
      dim == 0..(k.D - 1)
      \* the bias kernel rounds q instead of k
      s(z, j, c) ==
        Total([d \in dim |-> IF k.name = "bwd_b" THEN Mul(KStage(k, rawQ(z, j, d)), Elem(k, A.K, z, c, d))
                             ELSE Mul(rawQ(z, j, d), staged(z, c, d))])
      bias(z) == IF k.name = "bwd_b" THEN z \div k.n ELSE z
      masked(z, c) ==
        LET h == IF k.name = "bwd_b" THEN (((z \div k.n) \div k.maskdiv) * k.n) + (z % k.n) ELSE z \div k.maskdiv
        IN A.Mask[(h * k.n) + c] # 0
      P == [z \in 0..(Heads(k) - 1), j \in 0..(k.n - 1), c \in 0..(k.n - 1) |->
              Prob(k, s(z, j, c), A.Lse[(z * k.n) + j], BiasOf(k, A.Bias, bias(z), j, c), masked(z, c), j, c)]
      product(z, j) == [d \in dim |-> RoundIf(k.roundprod, Mul(Elem(k, A.O, z, j, d), Elem(k, A.dO, z, j, d)))]
      half(z, j, h) == FoldPairs([c \in 0..(ShareOf(k) - 1) |-> product(z, j)[(h * ShareOf(k)) + c]])[0]
      delta == [x \in 0..((Heads(k) * k.n) - 1) |->
        IF k.name \notin {"bwd_q", "bwd_q_simd"} THEN A.Delta[x]
        ELSE IF k.rounddelta THEN Fn("round", Add(half(x \div k.n, x % k.n, 0), half(x \div k.n, x % k.n, 1)))
        ELSE Total(product(x \div k.n, x % k.n))]
      dP(z, j, c) == Total([d \in dim |-> Mul(Elem(k, A.dO, z, j, d), Elem(k, A.V, z, c, d))])
      dS == [x \in DOMAIN P |-> RoundIf(k.roundds, Mul(P[x], Sub(dP(x[1], x[2], x[3]), delta[(x[1] * k.n) + x[2]])))]
      n == 0..(k.n - 1)
      at(x) == <<(x \div k.D) \div k.n, (x \div k.D) % k.n, x % k.D>>
      all == 0..((Heads(k) * k.n * k.D) - 1)
      DV == [x \in all |-> LET a == at(x) IN Cast(k, Total([j \in n |->
               Mul(RoundIf(k.roundp, P[a[1], j, a[2]]), Elem(k, A.dO, a[1], j, a[3]))]))]
      DK == [x \in all |-> LET a == at(x) IN Cast(k, Mul(Total([j \in n |->
               Mul(dS[a[1], j, a[2]], rawQ(a[1], j, a[3]))]), k.scale))]
      DQ == [x \in all |-> LET a == at(x) IN DQScale(k, Total([c \in n |-> Mul(dS[a[1], a[2], c], staged(a[1], c, a[3]))]))]
      DB == [x \in 0..((k.Z * k.n * k.n) - 1) |->
               LET z == (x \div k.n) \div k.n
               IN Cast(k, Total([ii \in n |-> dS[(z * k.n) + ii, (x \div k.n) % k.n, x % k.n]]))]
  IN CASE k.name \in {"bwd_kv", "bwd_kv_simd"} -> [DK |-> DK, DV |-> DV]
       [] k.name \in {"bwd_q", "bwd_q_simd"} -> [DQ |-> DQ, Delta |-> [x \in DOMAIN delta |-> Cast(k, delta[x])]]
       [] k.name = "bwd_b" -> [DB |-> DB]
BackwardInstances ==
  <<BackwardKernel("bwd_kv", [half |-> TRUE, roundp |-> TRUE, roundds |-> TRUE]),
    BackwardKernel("bwd_kv", [threads |-> 2, maxthreads |-> 2, Z |-> 2, groups |-> 4, maskdiv |-> 2]),
    BackwardKernel("bwd_kv", [threads |-> 2, maxthreads |-> 3, roundk |-> TRUE, neginf |-> TRUE]),
    BackwardKernel("bwd_kv", [D |-> 5]),
    BackwardKernel("bwd_kv_simd", [roundp |-> TRUE, half |-> TRUE]),
    BackwardKernel("bwd_kv_simd", [roundk |-> TRUE, BJ |-> 1, neginf |-> TRUE]),
    BackwardKernel("bwd_kv_simd", [frag |-> 2, D |-> 4, roundds |-> TRUE]),
    BackwardKernel("bwd_kv_simd", [D |-> 3]),
    BackwardKernel("bwd_q", [half |-> TRUE, roundds |-> TRUE, roundprod |-> TRUE]),
    BackwardKernel("bwd_q", [threads |-> 2, maxthreads |-> 2, roundk |-> TRUE, neginf |-> TRUE]),
    BackwardKernel("bwd_q", [maxmem |-> 60]),
    BackwardKernel("bwd_q_simd", [roundprod |-> TRUE, half |-> TRUE, Z |-> 2, groups |-> 4, n |-> 2, BJ |-> 1, maskdiv |-> 2]),
    BackwardKernel("bwd_q_simd", [rounddelta |-> TRUE, D |-> 4, frag |-> 1, per |-> 2, simd |-> 2, threads |-> 8, BJ |-> 4, groups |-> 1]),
    BackwardKernel("bwd_q_simd", [roundk |-> TRUE, roundds |-> TRUE, frag |-> 2, BJ |-> 2, neginf |-> TRUE]),
    BackwardKernel("bwd_b", [groups |-> 4, half |-> TRUE, roundk |-> TRUE]),
    BackwardKernel("bwd_b", [groups |-> 4, maxmem |-> 100, neginf |-> TRUE]),
    BackwardKernel("bwd_b", [groups |-> 8, n |-> 2, BJ |-> 1, BK |-> 1, Z |-> 2, threads |-> 1, simd |-> 1, maskdiv |-> 2, roundk |-> TRUE, maxmem |-> 40]),
    BackwardKernel("bwd_b", [maxmem |-> 90])>>

------------------------------------------------------------------------------
(***************************************************************************)
(* The arrays of the directly dispatched kernels, the recurrence the gated *)
(* delta rule documents, and the gradients of attention from P.            *)
(***************************************************************************)
KdaNames == {"kda", "kda_decode", "fa_dkv", "fa_dq", "fa_lse"}
KdaBase ==
  [threads |-> 4, simd |-> 2, groups |-> 1, half |-> FALSE, D |-> 2, C |-> 2, T |-> 4, frag |-> 1, tiles |-> 2, n |-> 4,
   causal |-> FALSE, scale |-> 5, zeroat |-> {}, nanat |-> {}, poison |-> FALSE]
KdaKernel(name, with) == with @@ [name |-> name] @@ KdaBase

\* gates at k.zeroat are zero, elements of v at k.nanat are not finite
KdaArrays(k) ==
  LET delta == k.name \in {"kda", "kda_decode"}
      tokens == k.groups * (IF k.name = "kda" THEN k.T ELSE 1)
      size == IF delta THEN tokens * k.D ELSE CeilDiv(k.groups, BlockCount(k)) * k.n * k.D
      heads == CeilDiv(k.groups, BlockCount(k))
      pair == BlockSide(k) * BlockSide(k)
  IN IF delta
     THEN [dev |-> [q |-> Input(1, size), k |-> Input(2, size), v |-> [x \in DOMAIN Input(3, size) |-> IF x \in k.nanat THEN NaN ELSE Input(3, size)[x]],
                    a |-> [x \in DOMAIN Input(4, size) |-> IF x \in k.zeroat THEN 0 ELSE Input(4, size)[x]],
                    beta |-> Input(5, tokens), Out |-> Filled(size, NaN)]
                   @@ (IF k.name = "kda_decode" THEN [State |-> Input(6, k.groups * k.D * k.D)] ELSE Nothing),
           tg |-> [S |-> Filled(k.D * k.D, NaN), replay |-> Filled(1, NaN), M |-> Filled(k.C * k.C, NaN), u |-> Filled(k.D, NaN)]
                  @@ [x \in {"B", "QT", "KT", "KH", "W"} |-> Filled(k.C * k.D, NaN)],
           reg |-> [bad |-> Filled(k.threads, NaN)]]
     ELSE [dev |-> [Q |-> Input(1, size), K |-> Input(2, size), V |-> Input(3, size), dO |-> Input(4, size),
                    L |-> Input(5, heads * k.n), Dr |-> Input(6, heads * k.n), Lout |-> Filled(heads * k.n, NaN)]
                   @@ [x \in {"DQ", "DK", "DV"} |-> Filled(size, NaN)],
           tg |-> [x \in {"Qi", "Kj", "Vj", "dOi"} |-> Filled(BlockSide(k) * k.D, NaN)]
                  @@ [x \in {"Ss", "Ds", "Sb"} |-> Filled(pair, NaN)]
                  @@ [x \in {"mrow", "lrow"} |-> Filled(BlockSide(k), NaN)],
           reg |-> [x \in {"fa", "fb"} |-> Filled(BlockSide(k) * k.D, NaN)]]
KdaProgram(k, g) ==
  CASE k.name = "kda" -> KdaCode(k)
    [] k.name = "kda_decode" -> DecodeStepCode
    [] k.name = "fa_dkv" -> DkvCode(k, g)
    [] k.name = "fa_dq" -> DqCode(k, g)
    [] k.name = "fa_lse" -> LseCode(k, g)
KdaEffect(k, g, i, t, v) ==
  CASE k.name = "kda" -> Kda(k, g, i, t, v)
    [] k.name = "kda_decode" -> KdaDecode(k, g, i, t, v)
    [] k.name = "fa_dkv" -> FaBackwardDkv(k, g, i, t, v)
    [] k.name = "fa_dq" -> FaBackwardDq(k, g, i, t, v)
    [] k.name = "fa_lse" -> LogSumExp(k, g, i, t, v)

\* Sg = diag(a) S; u = k' Sg; S = Sg + beta k (v - u)'; o = q' S
DeltaStep(k, A, st, x) ==
  LET io(f, l) == A[f][(x * k.D) + l]
      dim == 0..(k.D - 1)
      Sg == Table([c \in dim \X dim |-> Mul(io("a", c[1]), st.S[c])])
      u(j) == Total([l \in dim |-> Mul(io("k", l), Sg[l, j])])
      S == Table([c \in dim \X dim |-> Add(Sg[c], Mul(A.beta[x], Mul(io("k", c[1]), Sub(io("v", c[2]), u(c[2])))))])
  IN [S |-> S, out |-> Append(st.out, Table([j \in dim |-> Total([l \in dim |-> Mul(io("q", l), S[l, j])])]))]
DeltaRule(k, A, start, first, tokens) ==
  FoldLeft(LAMBDA st, x : DeltaStep(k, A, st, first + x - 1), [S |-> start, out |-> <<>>], [x \in 1..tokens |-> x])
DeltaWant(k) ==
  LET A == KdaArrays(k).dev
      dim == 0..(k.D - 1)
      tokens == IF k.name = "kda" THEN k.T ELSE 1
      start(g) == [c \in dim \X dim |-> IF k.name = "kda" THEN 0 ELSE A.State[(g * k.D * k.D) + (c[1] * k.D) + c[2]]]
      end == Table([g \in 0..(k.groups - 1) |-> DeltaRule(k, A, start(g), g * tokens, tokens)])
      out == [x \in DOMAIN A.Out |-> Cast(k, end[x \div (tokens * k.D)].out[((x \div k.D) % tokens) + 1][x % k.D])]
  IN IF k.name = "kda" THEN [Out |-> out]
     ELSE [Out |-> out,
           State |-> [x \in DOMAIN A.State |-> end[x \div (k.D * k.D)].S[(x % (k.D * k.D)) \div k.D, x % k.D]]]
PairWant(k) ==
  LET A == KdaArrays(k).dev
      dim == 0..(k.D - 1)
      n == 0..(k.n - 1)
      io(f, h, r, c) == A[f][(((h * k.n) + r) * k.D) + c]
      heads == 0..((Cardinality(DOMAIN A.L) \div k.n) - 1)
      s(h, r, c) == Mul(k.scale, Total([d \in dim |-> Mul(io("Q", h, r, d), io("K", h, c, d))]))
      keys(r) == {c \in n : ~k.causal \/ c <= r}
      P == [z \in heads \X n \X n |-> IF z[3] \in keys(z[2]) THEN Exp(Diff(s(z[1], z[2], z[3]), A.L[(z[1] * k.n) + z[2]])) ELSE 0]
      dS == [z \in DOMAIN P |-> Mul(P[z], Sub(Total([d \in dim |-> Mul(io("dO", z[1], z[2], d), io("V", z[1], z[3], d))]),
                                              A.Dr[(z[1] * k.n) + z[2]]))]
      of(x) == <<(x \div k.D) \div k.n, (x \div k.D) % k.n, x % k.D>>
      sum(W, f, x) == LET p == of(x) IN Total([r \in n |-> Mul(W[p[1], r, p[2]], io(f, p[1], r, p[3]))])
      top(h, r) == Largest([c \in keys(r) |-> s(h, r, c)])
  IN CASE k.name = "fa_dkv" ->
            [DV |-> [x \in DOMAIN A.DV |-> sum(P, "dO", x)], DK |-> [x \in DOMAIN A.DK |-> Mul(k.scale, sum(dS, "Q", x))]]
       [] k.name = "fa_dq" ->
            [DQ |-> [x \in DOMAIN A.DQ |-> LET p == of(x) IN
                       Mul(k.scale, Total([c \in n |-> Mul(dS[p[1], p[2], c], io("K", p[1], c, p[3]))]))]]
       [] k.name = "fa_lse" ->
            [Lout |-> [x \in DOMAIN A.Lout |-> LET h == x \div k.n
                                                   r == x % k.n
                         IN Add(top(h, r), Fn("log", Total([c \in keys(r) |-> Exp(Diff(s(h, r, c), top(h, r)))])))]]
KdaWant(k) == IF k.name \in {"kda", "kda_decode"} THEN DeltaWant(k) ELSE PairWant(k)

KdaInstances ==
  <<KdaKernel("kda", [half |-> TRUE]),
    KdaKernel("kda", [threads |-> 2, simd |-> 1, nanat |-> {5}, poison |-> TRUE]),
    KdaKernel("kda", [threads |-> 2, simd |-> 2, T |-> 2, groups |-> 2, nanat |-> {5}, poison |-> TRUE]),
    KdaKernel("kda", [threads |-> 1, simd |-> 1, D |-> 1, zeroat |-> {3}]),
    KdaKernel("kda", [threads |-> 2, simd |-> 2, T |-> 2, zeroat |-> {1}]),
    KdaKernel("kda_decode", [groups |-> 2]),
    KdaKernel("fa_dkv", [threads |-> 8, simd |-> 1, causal |-> TRUE, groups |-> 2]),
    KdaKernel("fa_dkv", [tiles |-> 1, frag |-> 2, groups |-> 4, D |-> 4]),
    KdaKernel("fa_dq", [threads |-> 8, simd |-> 1, groups |-> 2, causal |-> TRUE]),
    KdaKernel("fa_dq", [tiles |-> 1, frag |-> 2, D |-> 4, groups |-> 4]),
    KdaKernel("fa_lse", [groups |-> 4]),
    KdaKernel("fa_lse", [causal |-> TRUE, groups |-> 2])>>
==============================================================================

--------------------------- MODULE DecodeTemplates ---------------------------
(***************************************************************************)
(* Attention of one query over a cache of keys (codegen/_msl_templates.py):*)
(* the maximum of the scores, the sum of their exponentials, then one      *)
(* output element per thread with the weights recomputed.  The kernels     *)
(* differ in where the query, the keys and the values lie.                 *)
(***************************************************************************)
EXTENDS Threadgroup

\* the two-level reduction written out in these kernels: every lane of the
\* first SIMD group initialises a slot
CacheFold(op, sh, out) ==
  <<ReducePart("part", "lanes", op, "acc", sh, out), ReducePart("clear", "run", op, "acc", sh, out), Barrier,
    ReducePart("lead", "run", op, "acc", sh, out), Barrier,
    ReducePart("slot", "run", op, "acc", sh, out), ReducePart("total", "lanes", op, "acc", sh, out)>>
DecodeCode ==
  <<Run("best")>> \o CacheFold("max", "shared_max", "max") \o <<Run("weights")>>
  \o CacheFold("sum", "shared_sum", "sum") \o <<Run("values")>>
\* k.guarded: a lane without a slot reads the identity instead of the slot
DecodeStep(k, i, t, v, a) ==
  LET mine == Mine(k, t, a.len)
      score(j) == Mul(Dot(a.query, a.key[j]), k.scale)
      weight(j) == Mul(Exp(Diff(score(j), v.max[t])), Div(1, v.sum[t]))
      lane == LaneOf(k, t)
  IN CASE i.do = "best" -> Put("acc", t, Largest([j \in mine |-> score(j)]))
       [] i.do = "clear" -> IF SimdOf(k, t) = 0 THEN Put(i.sh, lane, Identity(i.op)) ELSE Nothing
       [] i.do = "slot" -> Put("read", t, IF k.guarded /\ lane >= SimdCount(k) THEN Identity(i.op) ELSE At(v[i.sh], lane))
       [] i.do = "weights" -> Put("acc", t, Total([j \in mine |-> Exp(Diff(score(j), v.max[t]))]))
       [] i.do = "values" ->
            [O |-> [o \in Shift(a.out, Mine(k, t, k.D)) |->
               Total([j \in 0..(a.len - 1) |-> Mul(weight(j), a.value[j][o - a.out])])]]
       [] OTHER -> ReduceEffect(k, i, t, v)
Vector(k, f, base) == [d \in 0..(k.D - 1) |-> At(f, base + d)]
\* the places of a query at q, of keys and values at the bases of kv, and of
\* the output
Places(k, v, q, kv, out) ==
  [len |-> Cardinality(DOMAIN kv), query |-> Vector(k, v.Q, q), out |-> out,
   key |-> [j \in DOMAIN kv |-> Vector(k, v.K, kv[j])], value |-> [j \in DOMAIN kv |-> Vector(k, v.V, kv[j])]]
\* n rows of keys from a base on
Rows(k, base, n) == [j \in 0..(n - 1) |-> base + (j * k.D)]

\* kv_cache and grouped queries: the sequence length is the stride of a head;
\* the scores of the first are kept too, in a slot per thread
KvCacheAttention(k, g, i, t, v) ==
  LET a == Places(k, v, g * k.D, Rows(k, g * k.n * k.D, k.n), g * k.D)
      mine == Mine(k, t, k.n)
      last == CHOOSE j \in mine : \A x \in mine : x <= j
  IN IF i.do = "best" /\ mine # {}
     THEN Merge([tg_scores |-> t :> Mul(Dot(a.query, a.key[last]), k.scale)], DecodeStep(k, i, t, v, a))
     ELSE DecodeStep(k, i, t, v, a)
GqaAttention(k, g, i, t, v) ==
  DecodeStep(k, i, t, v, Places(k, v, g * k.D, Rows(k, (g \div k.perkv) * k.n * k.D, k.n), g * k.D))
\* a batch of sequences of their own lengths in caches of k.max rows; a group
\* beyond the batch returns
BatchedDecodeCode(k, g) == IF g \div k.heads >= k.batch THEN <<>> ELSE DecodeCode
BatchedDecode(k, g, i, t, v) ==
  DecodeStep(k, i, t, v, Places(k, v, g * k.D, Rows(k, g * k.max * k.D, v.seqlens[g \div k.heads]), g * k.D))
\* logical position to physical row through the page table
PhysicalRow(k, v, pos) == (At(v.pages, pos \div k.page) * k.page) + (pos % k.page)
PagedAttention(k, g, i, t, v) ==
  DecodeStep(k, i, t, v, Places(k, v, 0, [pos \in 0..(k.n - 1) |-> PhysicalRow(k, v, pos) * k.D], 0))
MultiHeadPagedCode(k, g) == IF g >= k.heads THEN <<>> ELSE DecodeCode
MultiHeadPaged(k, g, i, t, v) ==
  DecodeStep(k, i, t, v,
    Places(k, v, g * k.D, [pos \in 0..(k.n - 1) |-> ((PhysicalRow(k, v, pos) * k.heads) + g) * k.D], g * k.D))
\* the cache is half and read exactly
Fp16KvAttention(k, g, i, t, v) == DecodeStep(k, i, t, v, Places(k, v, 0, Rows(k, 0, k.n), 0))
\* the last k.window keys up to the position of the query
WindowStart(k) == IF k.pos + 1 > k.window THEN k.pos + 1 - k.window ELSE 0
SlidingWindow(k, g, i, t, v) ==
  DecodeStep(k, i, t, v,
    Places(k, v, 0, Rows(k, WindowStart(k) * k.D, Bottom(k.pos + 1, k.n) - WindowStart(k)), 0))

\* rotary position: pairs of elements are turned by an angle of the position;
\* the query once into shared memory, each key when it is used
RopeDecodeCode == <<Run("rotate"), Barrier>> \o DecodeCode
Rotated(k, f, freqs, pos) ==
  [d \in 0..(k.D - 1) |->
     LET theta == Mul(pos, freqs[d \div 2])
         a == f[d - (d % 2)]
         b == f[d - (d % 2) + 1]
     IN IF d % 2 = 0 THEN Sub(Mul(a, Fn("cos", theta)), Mul(b, Fn("sin", theta)))
        ELSE Add(Mul(a, Fn("sin", theta)), Mul(b, Fn("cos", theta)))]
RopeAttention(k, g, i, t, v) ==
  LET plain == Places(k, v, 0, Rows(k, 0, k.n), 0)
      turned == [plain EXCEPT !.query = [d \in 0..(k.D - 1) |-> v.tg_q_rot[d]],
                              !.key = [j \in 0..(k.n - 1) |-> Rotated(k, plain.key[j], v.freqs, j)]]
      pairs == Mine(k, t, k.D \div 2)
  IN IF i.do = "rotate"
     THEN [tg_q_rot |-> [d \in {x \in 0..(k.D - 1) : x \div 2 \in pairs} |-> Rotated(k, plain.query, v.freqs, k.pos)[d]]]
     ELSE DecodeStep(k, i, t, v, turned)

------------------------------------------------------------------------------
(***************************************************************************)
(* The templates that choose tokens (codegen/_msl_templates.py): top-k,    *)
(* top-p, the verification of speculated tokens, a beam search step, and   *)
(* the bitonic sort of one block.  Their reductions are binary trees over  *)
(* the threads: a stride of half the block, halved until it is zero.       *)
(***************************************************************************)
Halves(k) == SelectSeq([j \in 1..5 |-> k.threads \div (2 ^ j)], LAMBDA s : s > 0)
TreeCode(d, k) == FlattenSeq([j \in DOMAIN Halves(k) |-> <<RunAt(d, Halves(k)[j]), Barrier>>])
\* one level of a tree over array a
TreeStep(op, a, s, t, v) == IF t < s THEN Put(a, t, Fold2(op, v[a][t], v[a][t + s])) ELSE Nothing

\* ---- the best remaining candidate, over and over ---------------------------------
\* each thread offers its best candidate not picked yet, the first of equals; a
\* tree keeps the better of two; thread 0 records it
SelectCode(k, rounds) ==
  FlattenSeq([r \in 1..rounds |->
    <<RunAt("scan", r - 1), Barrier>> \o TreeCode("better", k) \o <<RunAt("pick", r - 1), Barrier>>])
Scan(k, t, n, value, picked) ==
  LET free == {c \in Mine(k, t, n) : c \notin picked}
      best == Largest([c \in free |-> value[c]])
      first == CHOOSE c \in free : value[c] = best /\ \A x \in free : value[x] = best => c <= x
  IN [tg_vals |-> t :> best, tg_idxs |-> t :> IF free = {} THEN 0 ELSE first]
Better(i, t, v) ==
  IF t < i.i /\ v.tg_vals[t + i.i] > v.tg_vals[t]
  THEN [tg_vals |-> t :> v.tg_vals[t + i.i], tg_idxs |-> t :> v.tg_idxs[t + i.i]] ELSE Nothing
\* what the earlier rounds put into array a
Earlier(f, r) == {At(f, x) : x \in 0..(r - 1)}

TopKCode(k) == SelectCode(k, Bottom(k.K, k.k))
TopK(k, g, i, t, v) ==
  LET row == g * k.n
      at == (g * k.K) + i.i
  IN CASE i.do = "scan" -> Scan(k, t, k.n, [c \in 0..(k.n - 1) |-> v.logits[row + c]], Earlier(v.picked, i.i))
       [] i.do = "better" -> Better(i, t, v)
       [] i.do = "pick" ->
            IF t # 0 THEN Nothing
            ELSE [values |-> at :> v.tg_vals[0], indices |-> at :> v.tg_idxs[0], picked |-> i.i :> v.tg_idxs[0]]

\* softmax with a temperature, the k.k best by probability, and of these as
\* many as reach the threshold
TopPCode(k) ==
  <<Run("rowmax"), Barrier>> \o TreeCode("foldmax", k) \o <<Run("expsum"), Barrier>> \o TreeCode("foldsum", k)
  \o SelectCode(k, k.k) \o <<Run("nucleus")>>
Probability(k, x, max, sum) == Mul(Exp(Mul(Diff(x, max), k.cool)), Div(1, sum))
\* how many of the candidates c[0], c[1], ... it takes to reach the threshold
NucleusSize(k, c) ==
  LET cum(j) == Total([x \in 0..j |-> c[x]])
      reach == {j \in 0..(k.k - 1) : cum(j) >= k.threshold}
  IN IF reach = {} THEN k.k ELSE (CHOOSE j \in reach : \A x \in reach : j <= x) + 1
TopP(k, g, i, t, v) ==
  LET logit(c) == v.logits[(g * k.n) + c]
      mine == Mine(k, t, k.n)
      size == NucleusSize(k, v.cand_vals)
      out == Shift(g * k.k, 0..(size - 1))
  IN CASE i.do = "rowmax" -> Put("tg_max", t, Largest([c \in mine |-> logit(c)]))
       [] i.do = "foldmax" -> TreeStep("max", "tg_max", i.i, t, v)
       [] i.do = "expsum" -> Put("tg_sum", t, Total([c \in mine |-> Exp(Mul(Diff(logit(c), v.tg_max[0]), k.cool))]))
       [] i.do = "foldsum" -> TreeStep("sum", "tg_sum", i.i, t, v)
       [] i.do = "scan" ->
            Scan(k, t, k.n, [c \in 0..(k.n - 1) |-> Probability(k, logit(c), v.tg_max[0], v.tg_sum[0])], Earlier(v.picked, i.i))
       [] i.do = "better" -> Better(i, t, v)
       [] i.do = "pick" ->
            IF t # 0 THEN Nothing
            ELSE [cand_vals |-> i.i :> v.tg_vals[0], cand_idxs |-> i.i :> v.tg_idxs[0], picked |-> i.i :> v.tg_idxs[0]]
       [] i.do = "nucleus" ->
            IF t # 0 THEN Nothing
            ELSE [values |-> [x \in out |-> v.cand_vals[x - (g * k.k)]], indices |-> [x \in out |-> v.cand_idxs[x - (g * k.k)]],
                  count |-> g :> size]

\* candidates are beams times tokens; what is picked is looked up in the outputs
BeamCode(k) == SelectCode(k, k.k)
BeamSearch(k, g, i, t, v) ==
  LET score == [c \in 0..((k.k * k.n) - 1) |-> Add(v.beams[c \div k.n], v.logits[c])]
      picked == {(At(v.beam_ids, x) * k.n) + At(v.token_ids, x) : x \in 0..(i.i - 1)}
      best == v.tg_idxs[0]
  IN CASE i.do = "scan" -> Scan(k, t, k.k * k.n, score, picked)
       [] i.do = "better" -> Better(i, t, v)
       [] i.do = "pick" ->
            IF t # 0 THEN Nothing
            ELSE [values |-> i.i :> v.tg_vals[0], beam_ids |-> i.i :> best \div k.n, token_ids |-> i.i :> best % k.n]

\* ---- speculative decoding: thread 0 accepts a prefix, all write the distribution ----
SpeculativeCode(k) ==
  <<Run("accept"), Barrier, Run("adjust"), Barrier>> \o TreeCode("foldsum", k) \o <<Run("scale")>>
Accepted(k, v) ==
  LET p(j) == v.target[(j * k.n) + v.tokens[j]]
      q(j) == v.draft[(j * k.n) + v.tokens[j]]
      rejects == {j \in 0..(k.K - 1) : v.random[j] >= Bottom(1, IF q(j) > 0 THEN Div(p(j), q(j)) ELSE 1)}
  IN IF rejects = {} THEN k.K ELSE CHOOSE j \in rejects : \A x \in rejects : j <= x
Speculative(k, g, i, t, v) ==
  LET at == (IF v.accepted[0] < k.K THEN v.accepted[0] ELSE k.K - 1) * k.n
      adjusted(c) == Top(0, v.target[at + c] - v.draft[at + c])
      mine == Mine(k, t, k.n)
  IN CASE i.do = "accept" ->
            IF t = 0 THEN [accepted |-> 0 :> Accepted(k, v), count |-> 0 :> Accepted(k, v)] ELSE Nothing
       [] i.do = "adjust" ->
            [values |-> [c \in mine |-> adjusted(c)], tg_sum |-> t :> Total([c \in mine |-> adjusted(c)])]
       [] i.do = "foldsum" -> TreeStep("sum", "tg_sum", i.i, t, v)
       [] i.do = "scale" ->
            [values |-> [c \in mine |-> Mul(v.values[c], IF v.tg_sum[0] > 0 THEN Div(1, v.tg_sum[0]) ELSE 0)]]

\* ---- bitonic sort: values and the indices they came from ----------------------------
Exchanges(k) ==
  LET sizes == SelectSeq(<<2, 4, 8, 16>>, LAMBDA s : s <= k.threads)
      strides(s) == SelectSeq(<<8, 4, 2, 1>>, LAMBDA x : x < s)
  IN FlattenSeq([a \in DOMAIN sizes |-> [b \in DOMAIN strides(sizes[a]) |-> <<sizes[a], strides(sizes[a])[b]>>]])
BitonicCode(k) ==
  <<Run("load"), Barrier>>
  \o FlattenSeq([x \in DOMAIN Exchanges(k) |-> <<RunAt("exchange", Exchanges(k)[x]), Barrier>>]) \o <<Run("store")>>
BitonicSort(k, g, i, t, v) ==
  LET gid == BlockOffset(k, g, t)
      size == i.i[1]
      partner == t + i.i[2]
      a == v.tg_vals[t]
      b == v.tg_vals[partner]
      swaps == IF (t \div size) % 2 = 0 THEN a > b ELSE a < b
  IN CASE i.do = "load" ->
            IF gid < k.n THEN [tg_vals |-> t :> v.logits[gid], tg_idxs |-> t :> gid]
            ELSE [tg_vals |-> t :> IF k.ascending THEN -NegInf ELSE NegInf, tg_idxs |-> t :> -1]
       \* the lower of two partners exchanges them
       [] i.do = "exchange" ->
            IF (t \div i.i[2]) % 2 = 0 /\ swaps
            THEN [tg_vals |-> (t :> b) @@ (partner :> a),
                  tg_idxs |-> (t :> v.tg_idxs[partner]) @@ (partner :> v.tg_idxs[t])]
            ELSE Nothing
       [] i.do = "store" ->
            IF gid < k.n THEN [values |-> gid :> v.tg_vals[t], indices |-> gid :> v.tg_idxs[t]] ELSE Nothing
==============================================================================

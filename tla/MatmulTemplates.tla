--------------------------- MODULE MatmulTemplates ---------------------------
(***************************************************************************)
(* The matrix-product templates of codegen/_msl_templates.py, C = A @ B:   *)
(* the tiled kernel staged through threadgroup memory, its 2-D and its     *)
(* swizzled dispatch, the kernels on simdgroup matrices (k.frag is the     *)
(* side of a fragment, 8 in the code), the two passes of split-K, and the  *)
(* fused linear layer.                                                     *)
(***************************************************************************)
EXTENDS Threadgroup

\* an element of A, of B, zero outside the matrix
InA(k, v, r, c) == IF r < k.M /\ c < k.K THEN IF k.fp8 THEN Fn("fp8", v.A[(r * k.K) + c]) ELSE v.A[(r * k.K) + c] ELSE 0
InB(k, v, r, c) == IF r < k.K /\ c < k.N THEN IF k.fp8 THEN Fn("fp8", v.B[(r * k.N) + c]) ELSE v.B[(r * k.N) + c] ELSE 0
Accumulate(v, terms) == [acc |-> [j \in DOMAIN terms |-> Add(v.acc[j], terms[j])]]
KSteps(k, depth, step) ==
  FlattenSeq([n \in 1..CeilDiv(k.K, depth) |-> step[n - 1]])
Staged(k, depth, dot) ==
  [n \in 0..(CeilDiv(k.K, depth) - 1) |-> <<RunAt("stage", n), Barrier, dot[n], Barrier>>]

\* ---- the tiled kernel: several outputs per thread when the tile is larger
\* ---- than a threadgroup may be (k.cap threads, 1024 in the code) -----------
MatmulAdmits(k) == 4 * ((k.bm * k.bk) + (k.bk * k.bn)) <= k.tgbytes
Outputs(k, t) == {(e * k.threads) + t : e \in 0..(Top(1, (k.bm * k.bn) \div k.threads) - 1)}
TiledCode(k) ==
  <<Run("zero")>> \o KSteps(k, k.bk, Staged(k, k.bk, [n \in 0..k.K |-> Run("dot")])) \o <<Run("store")>>
TileDot(k, v, r, c) == Total([q \in 0..(k.bk - 1) |-> Mul(At(v.tileA, (r * k.bk) + q), At(v.tileB, (q * k.bn) + c))])
StoreTile(k, v, row0, col0, cells) ==
  LET inside == {j \in cells : row0 + (j \div k.bn) < k.M /\ col0 + (j % k.bn) < k.N}
      at(j) == ((row0 + (j \div k.bn)) * k.N) + col0 + (j % k.bn)
  IN [C |-> [x \in {at(j) : j \in inside} |-> Cast(k, v.acc[CHOOSE j \in inside : at(j) = x])]]
Matmul(k, g, i, t, v) ==
  LET cols == CeilDiv(k.N, k.bn)
      row0 == (g \div cols) * k.bm
      col0 == (g % cols) * k.bn
  IN CASE i.do = "zero" -> [acc |-> [j \in Outputs(k, t) |-> 0]]
       [] i.do = "stage" ->
            [tileA |-> [j \in Mine(k, t, k.bm * k.bk) |-> InA(k, v, row0 + (j \div k.bk), (i.i * k.bk) + (j % k.bk))],
             tileB |-> [j \in Mine(k, t, k.bk * k.bn) |-> InB(k, v, (i.i * k.bk) + (j \div k.bn), col0 + (j % k.bn))]]
       [] i.do = "dot" -> Accumulate(v, [j \in Outputs(k, t) |-> TileDot(k, v, j \div k.bn, j % k.bn)])
       [] i.do = "store" -> StoreTile(k, v, row0, col0, Outputs(k, t))

\* ---- one thread per output: it stages the element at its own place in both
\* ---- tiles, so the tile must be as deep as it is wide and high -------------
OwnTile(k, i, t, v, row0, col0) ==
  LET r == t \div k.bn
      c == t % k.bn
  IN CASE i.do = "zero" -> Put("acc", t, 0)
       [] i.do = "stage" ->
            [tileA |-> ((r * k.bk) + c) :> InA(k, v, row0 + r, (i.i * k.bk) + c),
             tileB |-> ((r * k.bn) + c) :> InB(k, v, (i.i * k.bk) + r, col0 + c)]
       [] i.do = "dot" -> Accumulate(v, t :> TileDot(k, v, r, c))
       [] i.do = "store" -> StoreTile(k, v, row0, col0, {t})
\* the grid is two-dimensional: x is the tile column, y the tile row
Matmul2d(k, g, i, t, v) ==
  LET cols == CeilDiv(k.N, k.bn) IN OwnTile(k, i, t, v, (g \div cols) * k.bm, (g % cols) * k.bn)
\* tiles are handed out by groups of k.swizzle tile rows, column by column
MatmulSwizzled(k, g, i, t, v) ==
  LET cols == CeilDiv(k.N, k.bn)
      rows == CeilDiv(k.M, k.bm)
      first == (g \div (k.swizzle * cols)) * k.swizzle
      high == Bottom(rows - first, k.swizzle)
      linear == g % (high * cols)
  IN OwnTile(k, i, t, v, (first + (linear % high)) * k.bm, (linear \div high) * k.bn)

\* ---- simdgroup matrices: SIMD group s owns k.frag columns of the tile and
\* ---- k.blocks fragments below each other; lane 0 stands for the group -------
Side(k) == k.blocks * k.frag
Lead(k, t, e) == IF LaneOf(k, t) = 0 THEN e ELSE Nothing
AccOf(k, s) == {(s * k.blocks * k.frag * k.frag) + j : j \in 0..((k.blocks * k.frag * k.frag) - 1)}
FragRow(k, j) == (j % (k.blocks * k.frag * k.frag)) \div k.frag
FragCol(k, j) == j % k.frag
SimdCode(k) == <<Lanes("clear")>> \o KSteps(k, k.bk, Staged(k, k.bk, [n \in 0..k.K |-> Lanes("mma")])) \o <<Lanes("store")>>
\* simdgroup_store does not mask: the whole fragments go to C
StoreFrags(k, v, s, row0, col0) ==
  LET at(j) == ((row0 + FragRow(k, j)) * k.N) + col0 + FragCol(k, j)
  IN [C |-> [x \in {at(j) : j \in AccOf(k, s)} |-> v.acc[CHOOSE j \in AccOf(k, s) : at(j) = x]]]
StagedSimd(k, g, i, t, v, b) ==
  LET cols == CeilDiv(k.N, Side(k))
      row0 == (g \div cols) * Side(k)
      col0 == (g % cols) * Side(k)
      s == SimdOf(k, t)
      term(j) == Total([q \in 0..(k.bk - 1) |->
                   Mul(v.tileA[(FragRow(k, j) * k.bk) + q], v.tileB[(q * Side(k)) + (s * k.frag) + FragCol(k, j)])])
  IN CASE i.do = "clear" -> Lead(k, t, [acc |-> [j \in AccOf(k, s) |-> 0]])
       [] i.do = "stage" ->
            [tileA |-> [j \in Mine(k, t, Side(k) * k.bk) |-> InA(k, v, row0 + (j \div k.bk), (i.i * k.bk) + (j % k.bk))],
             tileB |-> [j \in Mine(k, t, k.bk * Side(k)) |->
               LET r == (i.i * k.bk) + (j \div Side(k))
                   c == col0 + (j % Side(k))
               IN IF r < k.K /\ c < k.N THEN b[r, c] ELSE 0]]
       [] i.do = "mma" -> Lead(k, t, Accumulate(v, [j \in AccOf(k, s) |-> term(j)]))
       [] i.do = "store" -> Lead(k, t, StoreFrags(k, v, s, row0, col0 + (s * k.frag)))
SimdMatmul(k, g, i, t, v) ==
  StagedSimd(k, g, i, t, v, [r \in 0..(k.K - 1), c \in 0..(k.N - 1) |-> v.B[(r * k.N) + c]])

\* ---- the fast kernel: fragments straight from device memory, k.rr by k.rc of
\* ---- them per SIMD group; a SIMD group beyond the last column returns --------
FastCols(k) == k.frag * k.rc
FastCol(k, g, s) == ((g % CeilDiv(k.N, SimdCount(k) * FastCols(k))) * SimdCount(k) * FastCols(k)) + (s * FastCols(k))
FastRow(k, g) == (g \div CeilDiv(k.N, SimdCount(k) * FastCols(k))) * k.frag * k.rr
\* a float accumulator goes to a 16-bit C through a scratch, fragment by fragment
Epilogue(k) ==
  FlattenSeq([f \in 1..(k.rr * k.rc) |-> <<LanesAt("spill", f - 1), SimdBarrier, RunAt("emit", f - 1), SimdBarrier>>])
FastAdmits(k) == k.M % (k.frag * k.rr) = 0 /\ k.N % FastCols(k) = 0 /\ k.K % k.frag = 0
FastCode(k, g, t) ==
  IF FastCol(k, g, SimdOf(k, t)) >= k.N THEN <<>>
  ELSE <<Lanes("clear"), Lanes("product")>> \o (IF k.half THEN Epilogue(k) ELSE <<Lanes("store")>>)
BlockCells(k, s) == {(s * k.rr * k.rc * k.frag * k.frag) + j : j \in 0..((k.rr * k.rc * k.frag * k.frag) - 1)}
\* where cell j of a SIMD group's block of fragments lies in C
BlockRow(k, j) == ((((j \div (k.frag * k.frag)) % (k.rr * k.rc)) \div k.rc) * k.frag) + ((j % (k.frag * k.frag)) \div k.frag)
BlockCol(k, j) == ((((j \div (k.frag * k.frag)) % (k.rr * k.rc)) % k.rc) * k.frag) + (j % k.frag)
BlockOf(k, s, f) == {j \in BlockCells(k, s) : (j \div (k.frag * k.frag)) % (k.rr * k.rc) = f}
FastMatmul(k, g, i, t, v) ==
  LET s == SimdOf(k, t)
      row0 == FastRow(k, g)
      col0 == FastCol(k, g, s)
      at(j) == ((row0 + BlockRow(k, j)) * k.N) + col0 + BlockCol(k, j)
      store(J, x) == [C |-> [c \in {at(j) : j \in J} |-> x[CHOOSE j \in J : at(j) = c]]]
      slots(f) == {j \in BlockOf(k, s, f) : (j % (k.frag * k.frag)) % k.simd = LaneOf(k, t)}
      spilled == [j \in BlockCells(k, s) |-> Cast(k, At(v.scratch, (s * k.frag * k.frag) + (j % (k.frag * k.frag))))]
  IN CASE i.do = "clear" -> Lead(k, t, [acc |-> [j \in BlockCells(k, s) |-> 0]])
       [] i.do = "product" ->
            Lead(k, t, Accumulate(v, [j \in BlockCells(k, s) |->
              Total([q \in 0..(k.K - 1) |->
                Mul(At(v.A, ((row0 + BlockRow(k, j)) * k.K) + q), At(v.B, (q * k.N) + col0 + BlockCol(k, j)))])]))
       [] i.do = "store" -> Lead(k, t, store(BlockCells(k, s), v.acc))
       [] i.do = "spill" ->
            Lead(k, t, [scratch |-> [x \in {(s * k.frag * k.frag) + y : y \in 0..((k.frag * k.frag) - 1)} |->
              v.acc[CHOOSE j \in BlockOf(k, s, i.i) : (s * k.frag * k.frag) + (j % (k.frag * k.frag)) = x]]])
       [] i.do = "emit" -> store(slots(i.i), spilled)

\* ---- split-K: group tile * G + chunk sums its share of K into its own slice
\* ---- of P; a second kernel sums the slices ------------------------------------
SplitAdmits(k) == k.M % (k.frag * k.rr) = 0 /\ k.N % FastCols(k) = 0 /\ k.K % (k.splits * k.bk) = 0
SplitPartialCode(k) == <<Lanes("clear"), Lanes("product")>> \o Epilogue(k)
SplitPartial(k, g, i, t, v) ==
  LET tile == g \div k.splits
      chunk == g % k.splits
      cols == k.N \div FastCols(k)
      depth == k.K \div k.splits
      m0 == (tile \div cols) * k.frag * k.rr
      n0 == (tile % cols) * FastCols(k)
      cell(j) == (chunk * k.M * k.N) + ((m0 + BlockRow(k, j)) * k.N) + n0 + BlockCol(k, j)
      slots == {j \in BlockOf(k, 0, i.i) : (j % (k.frag * k.frag)) % k.simd = t}
  IN CASE i.do = "clear" -> Lead(k, t, [acc |-> [j \in BlockCells(k, 0) |-> 0]])
       [] i.do = "product" ->
            Lead(k, t, Accumulate(v, [j \in BlockCells(k, 0) |->
              Total([q \in (chunk * depth)..((chunk * depth) + depth - 1) |->
                Mul(At(v.A, ((m0 + BlockRow(k, j)) * k.K) + q), At(v.B, (q * k.N) + n0 + BlockCol(k, j)))])]))
       [] i.do = "spill" ->
            Lead(k, t, [scratch |-> [y \in 0..((k.frag * k.frag) - 1) |->
              v.acc[CHOOSE j \in BlockOf(k, 0, i.i) : j % (k.frag * k.frag) = y]]])
       [] i.do = "emit" ->
            [P |-> [x \in {cell(j) : j \in slots} |-> v.scratch[(CHOOSE j \in slots : cell(j) = x) % (k.frag * k.frag)]]]
SplitReduce(k, g, t, v) ==
  LET e == BlockOffset(k, g, t) IN
  IF e >= k.M * k.N THEN Nothing
  ELSE Put("C", e, Total([c \in 0..(k.splits - 1) |-> At(v.P, (c * k.M * k.N) + e)]))

\* ---- fused linear: input @ weight^T, then the first SIMD group adds the bias
\* ---- to the tile in device memory -------------------------------------------
FusedLinearCode(k) == SimdCode(k) \o (IF k.bias THEN <<Run("bias")>> ELSE <<>>)
FusedLinear(k, g, i, t, v) ==
  LET cols == CeilDiv(k.N, Side(k))
      row0 == (g \div cols) * Side(k)
      col == ((g % cols) * Side(k)) + (SimdOf(k, t) * k.frag) + t
      mine == {(r * k.N) + col : r \in {x \in row0..(row0 + Side(k) - 1) : x < k.M}}
  IN IF i.do # "bias"
     THEN StagedSimd(k, g, i, t, v, [r \in 0..(k.K - 1), c \in 0..(k.N - 1) |-> v.weight[(c * k.K) + r]])
     ELSE IF t >= Side(k) \/ col >= k.N THEN Nothing
     ELSE [C |-> [x \in mine |-> Add(v.C[x], v.biases[col])]]

------------------------------------------------------------------------------
(***************************************************************************)
(* The weight-quantised products of codegen/_msl_templates.py:             *)
(* output = input @ dequant(weight), one scale and zero per column or per  *)
(* group of k.group rows.  A weight byte holds one value, or two nibbles   *)
(* of which the low one belongs to the even row.                           *)
(***************************************************************************)
Nibble(byte, q) == (byte \div (IF q % 2 = 0 THEN 1 ELSE 16)) % 16
Dequant(w, z, s) == IF NaN \in {w, z, s} THEN NaN ELSE Mul(Sub(w, z), s)

\* ---- one thread per output ---------------------------------------------------
\* w is the dequantised weight as a function of row and column
ScalarProduct(k, g, t, v, w) ==
  LET row == BlockOffset(k, g, t) \div k.N
      col == BlockOffset(k, g, t) % k.N
  IN IF row >= k.M THEN Nothing
     ELSE Put("output", (row * k.osr) + (col * k.osc),
              Total([q \in 0..(k.K - 1) |-> Mul(At(v.input, (row * k.isr) + (q * k.isc)), w[q, col])]))
Inner(k) == 0..(k.K - 1)
Outer(k) == 0..(k.N - 1)
Int8Matmul(k, g, t, v) ==
  ScalarProduct(k, g, t, v, [q \in Inner(k), c \in Outer(k) |->
    Dequant(At(v.weight, (c * k.K) + q), At(v.zeros, c), At(v.scales, c))])
Int4Matmul(k, g, t, v) ==
  LET groups == CeilDiv(k.K, k.group)
      at(q, c) == (c * groups) + (q \div k.group)
  IN ScalarProduct(k, g, t, v, [q \in Inner(k), c \in Outer(k) |->
       Dequant(Nibble(At(v.weight, (c * (k.K \div 2)) + (q \div 2)), q), At(v.zeros, at(q, c)), At(v.scales, at(q, c)))])
\* every stride is an argument of the launch
Int8PerGroup(k, g, t, v) ==
  ScalarProduct(k, g, t, v, [q \in Inner(k), c \in Outer(k) |->
    Dequant(At(v.weight, (q * k.wsk) + (c * k.wsn)), At(v.zeros, ((q \div k.group) * k.zsg) + (c * k.zsn)),
            At(v.scales, ((q \div k.group) * k.ssg) + (c * k.ssn)))])
Int4PerGroup(k, g, t, v) ==
  ScalarProduct(k, g, t, v, [q \in Inner(k), c \in Outer(k) |->
    Dequant(Nibble(At(v.weight, ((q \div 2) * k.wsk) + (c * k.wsn)), q), At(v.zeros, ((q \div k.group) * k.zsg) + (c * k.zsn)),
            At(v.scales, ((q \div k.group) * k.ssg) + (c * k.ssn)))])

\* ---- one SIMD group per block of fragments, the weights staged ----------------
\* the size contract of the dispatch, and the refusals of the per-group kernels
FastQuantAdmits(k) ==
  /\ k.M % (k.frag * k.rr) = 0 /\ k.N % FastCols(k) = 0 /\ k.K % k.bk = 0 /\ k.bk % k.frag = 0
  /\ k.name # "int8_fast" => k.group % k.bk = 0
FastQuantCode(k) ==
  <<Lanes("clear")>>
  \o FlattenSeq([n \in 1..(k.K \div k.bk) |->
       <<RunAt("stage", n - 1), SimdBarrier, LanesAt("mma", n - 1), SimdBarrier>>])
  \o Epilogue(k)
\* staged is the tile of weights, scaled what a result is multiplied by
FastQuant(k, g, i, t, v, staged, scaled) ==
  LET width == FastCols(k)
      m0 == (g \div (k.N \div width)) * k.frag * k.rr
      n0 == (g % (k.N \div width)) * width
      ff == k.frag * k.frag
      at(j) == ((m0 + BlockRow(k, j)) * k.N) + n0 + BlockCol(k, j)
      slots == {j \in BlockOf(k, 0, i.i) : j % ff \in Strided(t, ff, k.simd)}
      source(x) == CHOOSE j \in slots : at(j) = x
  IN CASE i.do = "clear" -> Lead(k, t, [acc |-> [j \in BlockCells(k, 0) |-> 0]])
       [] i.do = "stage" ->
            [bdeq |-> [e \in Strided(t, k.bk * width, k.simd) |-> staged[(i.i * k.bk) + (e \div width), n0 + (e % width)]]]
       [] i.do = "mma" ->
            Lead(k, t, Accumulate(v, [j \in BlockCells(k, 0) |->
              Total([q \in 0..(k.bk - 1) |->
                Mul(v.input[((m0 + BlockRow(k, j)) * k.K) + (i.i * k.bk) + q], v.bdeq[(q * width) + BlockCol(k, j)])])]))
       [] i.do = "spill" ->
            Lead(k, t, [scratch |-> [y \in 0..(ff - 1) |-> v.acc[CHOOSE j \in BlockOf(k, 0, i.i) : j % ff = y]]])
       [] i.do = "emit" -> [output |-> [x \in {at(j) : j \in slots} |-> Mul(scaled[x % k.N], v.scratch[source(x) % ff])]]
Int8Fast(k, g, i, t, v) ==
  LET w(q, c) == v.weight[IF k.layout = "nk" THEN (c * k.K) + q ELSE (q * k.N) + c]
  IN FastQuant(k, g, i, t, v, [q \in Inner(k), c \in Outer(k) |-> Sub(w(q, c), v.zeros[c])], v.scales)
Plain(k) == [c \in Outer(k) |-> 1]
Int8PerGroupFast(k, g, i, t, v) ==
  LET at(q, c) == (((q \div k.bk) * k.bk) \div k.group) * k.ssg + (c * k.ssn)
  IN FastQuant(k, g, i, t, v, [q \in Inner(k), c \in Outer(k) |->
       Dequant(v.weight[(q * k.N) + c], At(v.zeros, at(q, c)), At(v.scales, at(q, c)))], Plain(k))
Int4PerGroupFast(k, g, i, t, v) ==
  LET at(q, c) == (((q \div k.bk) * k.bk) \div k.group) * k.ssg + (c * k.ssn)
  IN FastQuant(k, g, i, t, v, [q \in Inner(k), c \in Outer(k) |->
       Dequant(Nibble(v.weight[((q \div 2) * k.N) + c], q), At(v.zeros, at(q, c)), At(v.scales, at(q, c)))], Plain(k))

\* ---- one SIMD group per column: each lane sums its share of a row ---------------
GemvCode(k, g, t) == IF BlockOffset(k, g, t) \div k.simd >= k.N THEN <<>> ELSE <<Run("share"), Lanes("sum")>>
\* vectors of k.vec elements
Int8Gemv(k, g, i, t, v) ==
  LET n == BlockOffset(k, g, t) \div k.simd
      mine == {q \in 0..(((k.K \div k.vec) * k.vec) - 1) : (q \div k.vec) % k.simd = LaneOf(k, t)}
  IN CASE i.do = "share" ->
            Put("part", t, Total([q \in mine |-> Mul(v.input[q], Sub(v.weight[(n * k.K) + q], v.zeros[n]))]))
       [] i.do = "sum" ->
            LET total == SimdOp(k, "sum", v.part, t) IN Lead(k, t, Put("output", n, Mul(v.scales[n], total)))
Int4Gemv(k, g, i, t, v) ==
  LET n == BlockOffset(k, g, t) \div k.simd
      groups == CeilDiv(k.K, k.group)
      bytes == Strided(LaneOf(k, t), k.K \div 2, k.simd)
      at(q) == (n * groups) + ((2 * (q \div 2)) \div k.group)
      mine == {2 * b : b \in bytes} \cup {(2 * b) + 1 : b \in bytes}
  IN CASE i.do = "share" ->
            Put("part", t, Total([q \in mine |->
              Mul(v.input[q], Dequant(Nibble(v.weight[(n * (k.K \div 2)) + (q \div 2)], q), v.zeros[at(q)], v.scales[at(q)]))]))
       [] i.do = "sum" ->
            LET total == SimdOp(k, "sum", v.part, t) IN Lead(k, t, Put("output", n, total))
==============================================================================

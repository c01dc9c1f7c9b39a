----------------------------- MODULE DotTemplates -----------------------------
(***************************************************************************)
(* The kernels that replace a kernel with one tl.dot                       *)
(* (codegen/_lowerer_templates.py): the single tile and the K loop on      *)
(* simdgroup matrices, and the strided scalar product both fall back on.   *)
(* k.info is what DotMatching read off the graph: the arguments A, B, C,   *)
(* the tile BM by BN by BK, the strides, the output's extents, the grid's  *)
(* map to tiles and the K loop's tail.  A fragment has k.frag rows (8 in   *)
(* the code) and k.simd lanes work on it (32); there are k.blocks SIMD     *)
(* groups (4).                                                             *)
(***************************************************************************)
EXTENDS MatmulTemplates, LayoutTemplates

\* a length or a stride: a constant, or the argument that holds it
Fixed(n) == [arg |-> Untraced, value |-> n]
Runtime(a) == [arg |-> a, value |-> 0]
Unknown == Runtime("unknown")
Now(k, e) == IF e.arg = Untraced THEN e.value ELSE k.scalars[e.arg]

\* ---- which kernel, and what it must know first --------------------------------------
UnitColumns(d) == d.ac = Fixed(1) /\ d.bc = Fixed(1) /\ d.cc = Fixed(1)
\* the single tile's kernel takes no strides: rows must lie BK, BN, BN apart
RowsDense(d, info) == d.ar = Fixed(info.BK) /\ d.br = Fixed(info.BN) /\ d.cr = Fixed(info.BN)
DotRoute(info) ==
  CASE ~UnitColumns(info.strides) -> "strided"
    [] info.loop -> "kloop"
    [] ~RowsDense(info.strides, info) -> "strided"
    [] OTHER -> "tile"
\* an axis the grid walks needs an extent that is not the tile's own
TiledAxesKnown(info, rows, cols) ==
  ~(0 \in info.pids /\ ~rows) /\ ~(1 \in info.pids /\ ~cols)
ExtentKnown(info, named, e) == named \in info.scalars \/ e # Unknown
\* the output's extent: read off the store's mask, else M (N) by name, else the tile
ExtentOr(info, e, named, block) == IF e # Unknown THEN e ELSE IF named \in info.scalars THEN Runtime(named) ELSE Fixed(block)
RowExtent(info) == ExtentOr(info, info.rows, "M", info.BM)
ColExtent(info) == ExtentOr(info, info.cols, "N", info.BN)
\* the depth of the sum
DepthOf(info) ==
  CASE info.loop -> info.depth
    [] "K" \in info.scalars -> Runtime("K")
    [] OTHER -> Fixed(info.BK)
\* unmasked loads make the source run whole blocks past the end, which is
\* replayed, when the bound is no wider than the source's own counter
DepthAllowed(info) ==
  info.loop => /\ info.depth # Unknown
               /\ info.tail = "full_blocks" => info.depth.arg = Untraced \/ info.depthtype = "i32"
DepthNow(k) ==
  LET n == Now(k, DepthOf(k.info)) IN
  IF k.info.loop /\ k.info.tail = "full_blocks" THEN IF n > 0 THEN CeilDiv(n, k.info.BK) * k.info.BK ELSE 0 ELSE n

\* ---- the tile a program works on ------------------------------------------------------
RowTiles(k) == CeilDiv(Now(k, RowExtent(k.info)), k.info.BM)
ColTiles(k) == CeilDiv(Now(k, ColExtent(k.info)), k.info.BN)
PidX(k, g) == g % k.across
PidY(k, g) == g \div k.across
\* tile rows by groups of m.size, the last group shorter
GroupedTile(k, m, p) ==
  LET span == ColTiles(k) * m.size
      first == (p \div span) * m.size
      high == Bottom(RowTiles(k) - first, m.size)
      within == p % span
  IN <<first + (within % high), within \div high>>
TileOf(k, g) ==
  LET m == k.info.grid IN
  CASE k.info.pids = {} -> <<0, 0>>
    [] m.kind = "2d" -> <<IF m.rows THEN PidX(k, g) ELSE 0, IF m.cols THEN PidY(k, g) ELSE 0>>
    [] m.kind = "1d" -> <<PidX(k, g) % RowTiles(k), PidX(k, g) \div RowTiles(k)>>
    [] m.kind = "flat_n" -> <<PidX(k, g) \div ColTiles(k), PidX(k, g) % ColTiles(k)>>
    [] m.kind = "grouped" -> GroupedTile(k, m, PidX(k, g))
TileRow(k, g) == TileOf(k, g)[1] * k.info.BM
TileCol(k, g) == TileOf(k, g)[2] * k.info.BN
Strides(k) == [s \in DOMAIN k.info.strides |-> Now(k, k.info.strides[s])]

\* ---- one element per thread and turn, addressed by all six strides ---------------------
DotCell(k, v, m, n) ==
  LET d == Strides(k) IN
  Total([q \in 0..(DepthNow(k) - 1) |->
    Mul(At(v[k.info.A], (m * d.ar) + (q * d.ac)), At(v[k.info.B], (q * d.br) + (n * d.bc)))])
StridedTile(k, g, t, v) ==
  LET d == Strides(k)
      row(e) == TileRow(k, g) + (e \div k.info.BN)
      col(e) == TileCol(k, g) + (e % k.info.BN)
      mine == {e \in Mine(k, t, k.info.BM * k.info.BN) : row(e) < Now(k, RowExtent(k.info)) /\ col(e) < Now(k, ColExtent(k.info))}
      at(e) == (row(e) * d.cr) + (col(e) * d.cc)
  IN k.info.C :> [x \in {at(e) : e \in mine} |-> LET e == CHOOSE y \in mine : at(y) = x IN Cast(k, DotCell(k, v, row(e), col(e)))]
StridedAdmits(info) == TiledAxesKnown(info, ExtentKnown(info, "M", info.rows), ExtentKnown(info, "N", info.cols)) /\ DepthAllowed(info)

\* ---- an accumulator reaches memory through its SIMD group's own slot --------------------
\* "spill" then, after a barrier, "emit" by the lanes that own its cells; keep(s)
\* is false for a SIMD group that has no such fragment, but all wait at both barriers
StagedStore(i) == <<LanesAt("spill", i), Barrier, RunAt("emit", i), Barrier>>
SlotCells(k, s) == {(s * k.frag * k.frag) + y : y \in 0..((k.frag * k.frag) - 1)}
SpillTo(k, s, v, cells) ==
  [scratch |-> [x \in SlotCells(k, s) |-> v.acc[CHOOSE j \in cells : j % (k.frag * k.frag) = x % (k.frag * k.frag)]]]
\* the lane's cells of the slot that lie inside the output
EmitFrom(k, s, t, v, row(_), col(_), leading, rows, cols) ==
  LET y(x) == x % (k.frag * k.frag)
      mine == {x \in SlotCells(k, s) : y(x) % k.simd = LaneOf(k, t) /\ row(y(x)) < rows /\ col(y(x)) < cols}
      at(x) == (row(y(x)) * leading) + col(y(x))
  IN k.info.C :> [c \in {at(x) : x \in mine} |-> Cast(k, v.scratch[CHOOSE x \in mine : at(x) = c])]

\* ---- the single tile: one threadgroup, Side(k) square by Side(k) square -----------------
TileAdmits(info) == TiledAxesKnown(info, info.rows # Unknown, info.cols # Unknown)
TileSquares(k) ==
  FlattenSeq([r \in 1..CeilDiv(k.info.BM, Side(k)) |-> [c \in 1..CeilDiv(k.info.BN, Side(k)) |-> [row |-> (r - 1) * Side(k), col |-> (c - 1) * Side(k)]]])
TileSteps(k, at) ==
  FlattenSeq([n \in 1..CeilDiv(k.info.BK, k.frag) |->
    LET i == [deep |-> (n - 1) * k.frag] @@ at IN <<RunAt("stage", i), Barrier, LanesAt("mma", i), Barrier>>])
\* a fragment is stored whole, so only when every square is full and C is float
WholeSquares(k) == ~k.half /\ ~k.info.int /\ k.info.BM % Side(k) = 0 /\ k.info.BN % Side(k) = 0
TileStores(k, at) ==
  IF WholeSquares(k) THEN <<LanesAt("direct", at)>> ELSE FlattenSeq([b \in 1..k.blocks |-> StagedStore([block |-> b - 1] @@ at)])
TileDotCode(k) == FlattenSeq([n \in DOMAIN TileSquares(k) |-> LET at == TileSquares(k)[n] IN TileSteps(k, at) \o TileStores(k, at)])
\* a product of the staged tiles, added to what the fragments hold
MmaStep(k, v, cells, deep, row(_), col(_), width) ==
  [acc |-> [j \in cells |->
     Add(IF deep = 0 THEN 0 ELSE v.acc[j], Total([q \in 0..(k.frag - 1) |-> Mul(v.tileA[(row(j) * k.frag) + q], v.tileB[(q * width) + col(j)])]))]]
TileEffect(k, i, t, v) ==
  LET s == SimdOf(k, t)
      M == k.info.BM
      N == k.info.BN
      K == k.info.BK
      ofA(r, c) == IF r < M /\ c < K THEN At(v[k.info.A], IF k.info.transA THEN (c * M) + r ELSE (r * K) + c) ELSE 0
      ofB(r, c) == IF r < K /\ c < N THEN At(v[k.info.B], IF k.info.transB THEN (c * K) + r ELSE (r * N) + c) ELSE 0
      cell(j) == ((i.i.row + FragRow(k, j)) * N) + i.i.col + (s * k.frag) + FragCol(k, j)
      block == {j \in AccOf(k, s) : FragRow(k, j) \div k.frag = i.i.block}
  IN CASE i.do = "stage" ->
            [tileA |-> [j \in Mine(k, t, Side(k) * k.frag) |-> ofA(i.i.row + (j \div k.frag), i.i.deep + (j % k.frag))],
             tileB |-> [j \in Mine(k, t, k.frag * Side(k)) |-> ofB(i.i.deep + (j \div Side(k)), i.i.col + (j % Side(k)))]]
       [] i.do = "mma" ->
            Lead(k, t, MmaStep(k, v, AccOf(k, s), i.i.deep, LAMBDA j : FragRow(k, j), LAMBDA j : (s * k.frag) + FragCol(k, j), Side(k)))
       [] i.do = "direct" -> Lead(k, t, k.info.C :> [x \in {cell(j) : j \in AccOf(k, s)} |-> v.acc[CHOOSE j \in AccOf(k, s) : cell(j) = x]])
       [] i.do = "spill" -> Lead(k, t, SpillTo(k, s, v, block))
       [] i.do = "emit" ->
            EmitFrom(k, s, t, v, LAMBDA y : i.i.row + (i.i.block * k.frag) + (y \div k.frag), LAMBDA y : i.i.col + (s * k.frag) + (y % k.frag), N, M, N)

\* ---- the K loop: a threadgroup per tile ---------------------------------------------------
\* k.rr by k.rc fragments per SIMD group; the last SIMD groups may have fewer columns
KLoopAdmits(k) ==
  /\ StridedAdmits(k.info)
  /\ k.info.BM % k.frag = 0 /\ k.info.BN % k.frag = 0 /\ k.info.BK % k.frag = 0
  /\ (((k.info.BM + k.info.BN) * k.frag) * (IF k.info.narrow THEN 2 ELSE 4)) + (4 * k.blocks * k.frag * k.frag) <= k.tgbytes
ColumnBlocks(k) == k.info.BN \div k.frag
HasColumn(k, s, c) == (s * k.rc) + c < ColumnBlocks(k)
\* simdgroup_load steps by 32-bit unsigned strides: everything it can reach must
\* lie below k.limit (2^31).  Scalars only, so a whole threadgroup agrees.
LayoutFits(k, M, N) ==
  LET d == Strides(k)
      K == DepthNow(k)
  IN /\ M > 0 /\ N > 0 /\ K > 0
     /\ {M, N, K, d.ar, d.br, d.cr} \subseteq 0..(k.limit - 1)
     /\ ((M - 1) * d.ar) + (K - 1) < k.limit
     /\ ((K - 1) * d.br) + (N - 1) < k.limit
     /\ ((M - 1) * d.cr) + (N - 1) < k.limit
\* fragments straight from memory: full tiles, float output, no remainder of K
DirectTile(k, g) ==
  /\ ~k.half
  /\ TileRow(k, g) + k.info.BM <= Now(k, RowExtent(k.info))
  /\ TileCol(k, g) + k.info.BN <= Now(k, ColExtent(k.info))
  /\ DepthNow(k) % k.frag = 0
KLoopSteps(k) ==
  FlattenSeq([n \in 1..CeilDiv(DepthNow(k), k.frag) |->
    LET i == [deep |-> (n - 1) * k.frag] IN <<RunAt("stage", i), Barrier, LanesAt("mma", i), Barrier>>])
KLoopCode(k, g) ==
  CASE ~LayoutFits(k, Now(k, RowExtent(k.info)), Now(k, ColExtent(k.info))) -> <<Run("element")>>
    [] DirectTile(k, g) -> <<Lanes("direct")>>
    [] OTHER -> KLoopSteps(k) \o FlattenSeq([f \in 1..(k.rr * k.rc) |-> StagedStore([block |-> f - 1])])
\* the second kernel, for launches whose tiles are all full: no threadgroup memory
TwinAdmits(k) == ~k.half /\ {"M", "N", "K"} \subseteq k.info.scalars
TwinCode(k) == IF ~LayoutFits(k, k.scalars["M"], k.scalars["N"]) THEN <<Run("element")>> ELSE <<Lanes("direct")>>
\* the launcher takes it when M, N, K are multiples of the blocks
TwinTaken(k) ==
  TwinAdmits(k) /\ k.scalars["M"] % k.info.BM = 0 /\ k.scalars["N"] % k.info.BN = 0 /\ k.scalars["K"] % k.frag = 0
OwnCells(k, s) == {j \in BlockCells(k, s) : HasColumn(k, s, BlockCol(k, j) \div k.frag)}
KLoopEffect(k, g, i, t, v) ==
  LET s == SimdOf(k, t)
      d == Strides(k)
      M == Now(k, RowExtent(k.info))
      N == Now(k, ColExtent(k.info))
      K == DepthNow(k)
      row0 == TileRow(k, g)
      col0 == TileCol(k, g)
      mycol == s * FastCols(k)
      cell(j) == ((row0 + BlockRow(k, j)) * d.cr) + col0 + mycol + BlockCol(k, j)
      ofA(r, c) == IF r < M /\ c < K THEN At(v[k.info.A], (r * d.ar) + c) ELSE 0
      ofB(r, c) == IF r < K /\ c < N THEN At(v[k.info.B], (r * d.br) + c) ELSE 0
      fragrow == i.i.block \div k.rc
      fragcol == i.i.block % k.rc
  IN CASE i.do = "element" -> StridedTile(k, g, t, v)
       [] i.do = "direct" ->
            Lead(k, t, k.info.C :> [x \in {cell(j) : j \in OwnCells(k, s)} |->
              LET j == CHOOSE y \in OwnCells(k, s) : cell(y) = x IN
              Total([q \in 0..((CeilDiv(K, k.frag) * k.frag) - 1) |->
                Mul(At(v[k.info.A], ((row0 + BlockRow(k, j)) * d.ar) + q), At(v[k.info.B], (q * d.br) + col0 + mycol + BlockCol(k, j)))])])
       [] i.do = "stage" ->
            [tileA |-> [j \in Mine(k, t, k.info.BM * k.frag) |-> ofA(row0 + (j \div k.frag), i.i.deep + (j % k.frag))],
             tileB |-> [j \in Mine(k, t, k.frag * k.info.BN) |-> ofB(i.i.deep + (j \div k.info.BN), col0 + (j % k.info.BN))]]
       [] i.do = "mma" ->
            Lead(k, t, MmaStep(k, v, OwnCells(k, s), i.i.deep, LAMBDA j : BlockRow(k, j), LAMBDA j : mycol + BlockCol(k, j), k.info.BN))
       [] i.do = "spill" -> IF HasColumn(k, s, fragcol) THEN Lead(k, t, SpillTo(k, s, v, BlockOf(k, s, i.i.block))) ELSE Nothing
       [] i.do = "emit" ->
            IF ~HasColumn(k, s, fragcol) THEN Nothing
            ELSE EmitFrom(k, s, t, v, LAMBDA y : row0 + (fragrow * k.frag) + (y \div k.frag),
                          LAMBDA y : col0 + mycol + (fragcol * k.frag) + (y % k.frag), d.cr, M, N)

\* ---- the family ----------------------------------------------------------------------------
DotAdmits(k) ==
  CASE k.route = "strided" -> StridedAdmits(k.info)
    [] k.route = "tile" -> TileAdmits(k.info)
    [] k.route = "kloop" -> KLoopAdmits(k)
DotCodeOf(k, g) ==
  CASE k.route = "strided" -> <<Run("element")>>
    [] k.route = "tile" -> TileDotCode(k)
    [] TwinTaken(k) -> TwinCode(k)
    [] OTHER -> KLoopCode(k, g)
DotEffectOf(k, g, i, t, v) ==
  CASE k.route = "strided" -> StridedTile(k, g, t, v)
    [] k.route = "tile" -> TileEffect(k, i, t, v)
    [] OTHER -> KLoopEffect(k, g, i, t, v)
DotMemories(k) ==
  [dev |-> Plainly,
   tg |-> [tileA |-> Filled(Top(Side(k), k.info.BM) * k.frag, NaN), tileB |-> Filled(Top(Side(k), k.info.BN) * k.frag, NaN),
           scratch |-> Filled(k.blocks * k.frag * k.frag, NaN)],
   reg |-> [acc |-> Filled(k.blocks * Top(k.blocks, k.rr * k.rc) * k.frag * k.frag, NaN)]]
==============================================================================

------------------------------ MODULE DotMatching ------------------------------
(***************************************************************************)
(* Which kernels the product templates may replace                         *)
(* (codegen/_lowerer_detection.py).  The templates re-emit the whole       *)
(* kernel from six strides, three extents and a grid map, so every address, *)
(* mask, index and value of the graph must be shown to be one they replay. *)
(* DotInfo(G) is what they get; its template is "refused" when a proof     *)
(* fails and "none" when the graph is another's business.                  *)
(***************************************************************************)
EXTENDS DotTemplates

\* ---- scalars ---------------------------------------------------------------------------
IndexCasts == {"extsi", "extui"}
Wraps == {"splat", "broadcast", "convert_layout"}
IsArgument(G, id) == \E a \in Range(G.args) : a.id = id
IsScalar(G, id) == \E a \in Range(G.args) : a.id = id /\ ~a.ptr
ConstantIs(G, id, n) == IsOp(G, id, "constant") /\ G.node[id].value = n
\* the operands of a binary operation of that name, in both orders
Operands(G, id, name) ==
  IF IsOp(G, id, name) /\ Len(G.node[id].args) = 2
  THEN {<<G.node[id].args[1], G.node[id].args[2]>>, <<G.node[id].args[2], G.node[id].args[1]>>} ELSE {}
KLoops(G) == SelectSeq(G.ops, LAMBDA o : o.op = "for")
Counters(G) == {o.blocks[1] : o \in Carriers(G)}
\* the loop's bound when it is an argument, else nothing
BoundArgument(G, loop) ==
  LET at == Through(G, loop.args[2], IndexCasts) IN IF IsArgument(G, at) THEN at ELSE Untraced
\* the K offset in elements: the counter, or the counter times the block
IsKOffset(G, id, walk) ==
  LET at == Through(G, id, IndexCasts) IN
  IF walk.step = 1 THEN at = walk.counter
  ELSE \E p \in Operands(G, at, "muli") : Through(G, p[1], IndexCasts) = walk.counter /\ ConstantIs(G, Through(G, p[2], IndexCasts), walk.step)
IsExtent(G, id, e) ==
  LET at == Through(G, id, Wraps \cup {"expand_dims"} \cup IndexCasts) IN
  IF e.arg = Untraced THEN ConstantIs(G, at, e.value) ELSE at = e.arg
IsKRemaining(G, id, depth, walk) ==
  LET at == Through(G, id, Wraps \cup {"expand_dims"}) IN
  IsOp(G, at, "subi") /\ IsKOffset(G, G.node[at].args[2], walk) /\ IsExtent(G, G.node[at].args[1], depth)
\* what a pointer moves by in one turn: the block times that stride
AdvanceMatches(G, id, block, stride) ==
  LET at == Through(G, id, Wraps) IN
  IF stride.arg = Untraced THEN ConstantIs(G, at, block * stride.value)
  ELSE \E p \in Operands(G, at, "muli") : ConstantIs(G, p[1], block) /\ Through(G, p[2], IndexCasts) = stride.arg

\* ---- the tile coordinate a scalar stands for --------------------------------------------
PidSplit(kind, size, rows, cols) == [kind |-> kind, size |-> size, rows |-> rows, cols |-> cols]
NoSplit == PidSplit("none", 0, Untraced, Untraced)
NoPid == [axis |-> -1, split |-> NoSplit]
IsProgramId(G, id) == IsOp(G, id, "program_id") /\ AxisOf(G.node[id]) = 0
\* the grouped order: within = pid % span, the group's size is
\* min(rows - first, group), first = (pid / span) * group, span = cols * group
GroupedSplits(G, within, size, start) ==
  LET high(p) == IsOp(G, p[2], "constant") /\ G.node[p[2]].value \in 1..32 /\ IsOp(G, p[1], "subi")
      many(p) == G.node[p[2]].value
      first(p) == G.node[p[1]].args[2]
      inside == G.node[within].args
      block(p) == {q[1] : q \in {x \in Operands(G, first(p), "muli") : ConstantIs(G, x[2], many(p))}}
      cols(p) == {q[1] : q \in {x \in Operands(G, inside[2], "muli") : ConstantIs(G, x[2], many(p))}}
      replayed(p) ==
        /\ start \in {Untraced, first(p)}
        /\ \E b \in block(p) : IsOp(G, b, "divsi") /\ G.node[b].args = inside
        /\ IsProgramId(G, inside[1])
  IN IF ~IsOp(G, within, "remsi") THEN {}
     ELSE UNION {{PidSplit("grouped", many(p), G.node[p[1]].args[1], c) : c \in cols(p)} :
                   p \in {q \in Operands(G, size, "minsi") : high(q) /\ replayed(q)}}
GroupedPid(G, id) ==
  UNION {{[axis |-> 0, split |-> s] : s \in GroupedSplits(G, G.node[p[2]].args[1], G.node[p[2]].args[2], p[1])} :
           p \in {q \in Operands(G, id, "addi") : IsOp(G, q[2], "remsi")}}
  \cup (IF ~IsOp(G, id, "divsi") THEN {}
        ELSE {[axis |-> 1, split |-> s] : s \in GroupedSplits(G, G.node[id].args[1], G.node[id].args[2], Untraced)})
\* a program id, or axis 0's id split by a divisor into remainder and quotient
PidOf(G, id) ==
  LET at == Through(G, id, IndexCasts)
      by == PidSplit("by", 0, G.node[at].args[2], Untraced)
      halved == {"remsi", "divsi"}
  IN CASE GroupedPid(G, id) # {} -> CHOOSE p \in GroupedPid(G, id) : TRUE
       [] IsOp(G, at, "program_id") -> [axis |-> AxisOf(G.node[at]), split |-> NoSplit]
       [] IsNode(G, at) /\ G.node[at].op \in halved /\ IsProgramId(G, Through(G, G.node[at].args[1], IndexCasts)) ->
            [axis |-> IF G.node[at].op = "remsi" THEN 0 ELSE 1, split |-> by]
       [] OTHER -> NoPid

\* ---- the shape of a tile index: [program id * BLOCK +] range [+ K offset] -----------------
Piece(is, at) == [is |-> is, at |-> at, low |-> 0, high |-> 0, pid |-> NoPid, coef |-> 1]
RECURSIVE Pieces(_, _, _, _)
Pieces(G, id, walk, nested) ==
  LET o == G.node[id]
      rest(j) == Pieces(G, o.args[j], walk, TRUE)
      pid(x, c) == <<[Piece("pid", x) EXCEPT !.pid = PidOf(G, x), !.coef = c]>>
      tiled == {p \in Operands(G, id, "muli") : IsOp(G, p[2], "constant") /\ PidOf(G, p[1]) # NoPid}
  IN CASE walk.counter # Untraced /\ IsKOffset(G, id, walk) -> <<Piece("k", id)>>
       [] PidOf(G, id) # NoPid -> pid(id, 1)
       [] ~IsNode(G, id) -> <<Piece("other", id)>>
       [] o.op = "remsi" /\ ~nested -> <<Piece("mod", o.args[2])>> \o rest(1)
       [] o.op = "make_range" -> <<[Piece("range", id) EXCEPT !.low = o.start, !.high = o.end]>>
       [] o.op \in Wraps \cup {"expand_dims"} -> rest(1)
       [] o.op \in IndexCasts -> <<Piece("cast", id)>> \o rest(1)
       [] o.op = "addi" -> rest(1) \o rest(2)
       [] tiled # {} -> LET p == CHOOSE q \in tiled : TRUE IN pid(p[1], G.node[p[2]].value)
       [] OTHER -> <<Piece("other", id)>>
Kind(ps, is) == SelectSeq(ps, LAMBDA p : p.is = is)
\* the pid of an index, NoPid when it has none; mixed ids are no tile
PidPiece(ps) == IF Kind(ps, "pid") = <<>> THEN NoPid ELSE Kind(ps, "pid")[1].pid
PlainTile(ps, block) ==
  /\ Kind(ps, "other") = <<>>
  /\ Len(Kind(ps, "range")) = 1 /\ Kind(ps, "range")[1].low = 0 /\ Kind(ps, "range")[1].high = block
  /\ Len(Kind(ps, "pid")) <= 1 /\ \A p \in Range(Kind(ps, "pid")) : p.coef = block
  /\ PidPiece(ps).split.kind = "grouped" => Kind(ps, "cast") = <<>>
\* every range an index is built on
RECURSIVE Ranges(_, _)
Ranges(G, id) ==
  CASE ~IsNode(G, id) -> {}
    [] G.node[id].op = "make_range" -> {id}
    [] OTHER -> UNION {Ranges(G, x) : x \in Range(G.node[id].args)}
RangeRoot(G, id) == IF Cardinality(Ranges(G, id)) = 1 THEN CHOOSE r \in Ranges(G, id) : TRUE ELSE Untraced

\* ---- addresses: base + row * stride + column * stride --------------------------------------
Skipped == {"broadcast", "convert_layout", "reshape", "extsi"}
\* range + counter, spelled inside the loop: the lifted range
Shifted(G, id) ==
  LET lifted == {Through(G, p[1], Skipped) : p \in {q \in Operands(G, id, "addi") :
                   /\ IsOp(G, Through(G, q[1], Skipped), "expand_dims")
                   /\ LET s == Through(G, q[2], Skipped) IN IsOp(G, s, "splat") /\ G.node[s].args[1] \in Counters(G)}}
  IN IF lifted = {} THEN Untraced ELSE CHOOSE x \in lifted : TRUE
RECURSIVE Summands(_, _)
Summands(G, id) ==
  LET at == Through(G, id, Skipped) IN
  IF IsOp(G, at, "addi") /\ Shifted(G, at) = Untraced THEN Summands(G, G.node[at].args[1]) \o Summands(G, G.node[at].args[2]) ELSE <<at>>
\* the offsets of a chain of pointer additions, also of one before the splat
RECURSIVE Offsets(_, _)
Offsets(G, id) ==
  LET base == Through(G, G.node[id].args[1], Skipped)
      inner == IF IsOp(G, base, "splat") THEN G.node[base].args[1] ELSE base
  IN IF ~IsOp(G, id, "addptr") THEN <<>>
     ELSE Summands(G, G.node[id].args[2])
          \o (CASE IsOp(G, inner, "addptr") -> Offsets(G, inner)
                [] ~IsNode(G, base) /\ ~IsArgument(G, base) -> <<base>>
                [] OTHER -> <<>>)
StrideFrom(G, id) ==
  LET at == IF IsOp(G, id, "splat") THEN G.node[id].args[1] ELSE id IN
  CASE IsOp(G, at, "constant") -> Fixed(G.node[at].value)
    [] IsArgument(G, at) /\ at # id -> Runtime(at)
    [] OTHER -> Unknown
Term(axis, stride, index) == [axis |-> axis, stride |-> stride, index |-> index]
Lifted(G, id, stride) ==
  CASE IsOp(G, id, "expand_dims") -> Term(G.node[id].axis, stride, G.node[id].args[1])
    [] Shifted(G, id) # Untraced -> Term(G.node[Shifted(G, id)].axis, stride, id)
    [] OTHER -> Term(-1, Unknown, Untraced)
TermOf(G, id) ==
  LET side(p) == Lifted(G, Through(G, p[1], Skipped), StrideFrom(G, Through(G, p[2], Skipped)))
      scaled == {side(p) : p \in {q \in Operands(G, id, "muli") : side(q).axis # -1}}
  IN IF scaled # {} THEN CHOOSE t \in scaled : TRUE ELSE Lifted(G, id, Fixed(1))
NoLayout == [row |-> Unknown, col |-> Unknown, rowindex |-> Untraced, colindex |-> Untraced]
\* every summand is the row's or the column's, each once
LayoutOf(G, addr) ==
  LET terms == [j \in DOMAIN Offsets(G, addr) |-> TermOf(G, Offsets(G, addr)[j])]
      on(axis) == SelectSeq(terms, LAMBDA t : t.axis = axis)
      known == Range(terms) \subseteq [axis : {0, 1}, stride : {t.stride : t \in Range(terms)}, index : {t.index : t \in Range(terms)}]
  IN IF ~known \/ Len(on(0)) > 1 \/ Len(on(1)) > 1 THEN NoLayout
     ELSE [row |-> IF on(1) = <<>> THEN Unknown ELSE on(1)[1].stride, rowindex |-> IF on(1) = <<>> THEN Untraced ELSE on(1)[1].index,
           col |-> IF on(0) = <<>> THEN Unknown ELSE on(0)[1].stride, colindex |-> IF on(0) = <<>> THEN Untraced ELSE on(0)[1].index]
\* the last tensor address on that argument, not counting a loop's own advance
AddressOf(G, arg) ==
  LET on == SelectSeq(G.all, LAMBDA o : /\ o.op = "addptr" /\ PointerOf(G, o.args[1], FALSE) = arg
                                        /\ IsNode(G, o.args[2]) /\ G.shape[o.args[2]] # <<>>)
  IN IF on = <<>> THEN Untraced ELSE Last(on).id

\* ---- masks -----------------------------------------------------------------------------------
\* the comparisons of a conjunction, each with the axis that lifts it
RECURSIVE MaskLeaves(_, _, _)
MaskLeaves(G, id, axis) ==
  LET o == G.node[id] IN
  CASE ~IsNode(G, id) -> {<<Untraced, -1>>}
    [] o.op = "expand_dims" -> MaskLeaves(G, o.args[1], IF axis = -1 THEN o.axis ELSE axis)
    [] o.op = "andi" -> MaskLeaves(G, o.args[1], axis) \cup MaskLeaves(G, o.args[2], axis)
    [] o.op \in {"broadcast", "convert_layout", "reshape"} -> MaskLeaves(G, o.args[1], axis)
    [] o.op = "cmpi" -> {<<id, axis>>}
    [] OTHER -> {<<Untraced, -1>>}
IndexWraps == {"addi", "subi", "muli", "reshape", "expand_dims"} \cup Wraps
RECURSIVE Reached(_, _)
Reached(G, id) ==
  IF ~IsNode(G, id) THEN {} ELSE {id} \cup (IF G.node[id].op \in IndexWraps THEN UNION {Reached(G, x) : x \in Range(G.node[id].args)} ELSE {})
\* a comparison's side as a tile index: its length, axis, whether a program id moves it
TileIndex(G, id) ==
  LET ops == {G.node[x] : x \in Reached(G, id)}
      named(name) == {o \in ops : o.op = name}
  IN [is |-> named("make_range") # {},
      length |-> IF named("make_range") = {} THEN 0 ELSE LET r == CHOOSE o \in named("make_range") : TRUE IN r.end - r.start,
      axis |-> IF named("expand_dims") = {} THEN -1 ELSE (CHOOSE o \in named("expand_dims") : TRUE).axis,
      moved |-> named("program_id") # {}]
\* a mask's bound that is an argument
MaskBound(G, id) == LET at == Through(G, id, Wraps \cup {"reshape"}) IN IF IsArgument(G, at) THEN at ELSE Untraced
\* the one side of a comparison that is an index, and its bound
Sides(G, cmp) == {p \in {<<cmp.args[1], cmp.args[2], TRUE>>, <<cmp.args[2], cmp.args[1], FALSE>>} : TileIndex(G, p[1]).is /\ ~TileIndex(G, p[2]).is}
\* the output's extents are the arguments its store mask compares rows, columns with
StoreMasks(G) == {o.args[3] : o \in {x \in Range(G.all) : x.op = "store" /\ Len(x.args) = 3}}
BoundsOn(G, cols) ==
  {MaskBound(G, p[2]) : p \in {q \in UNION {UNION {Sides(G, G.node[c[1]]) : c \in {x \in MaskLeaves(G, m, -1) : x[1] # Untraced}} : m \in StoreMasks(G)} :
     (TileIndex(G, q[1]).axis = 0) = cols}} \ {Untraced}
OutputExtent(G, cols) == IF BoundsOn(G, cols) = {} THEN Unknown ELSE Runtime(CHOOSE a \in BoundsOn(G, cols) : TRUE)
\* a mask the templates' own clipping makes redundant; any argument counts as
\* the extent they clip with, and the predicate only has to bound from above
TrivialLeaf(G, c) ==
  /\ c # Untraced
  /\ G.node[c].pred \in {"slt", "sle", "sgt", "sge"}
  /\ \E p \in Sides(G, G.node[c]) :
       /\ p[3] = (G.node[c].pred \in {"slt", "sle"})
       /\ \/ MaskBound(G, p[2]) # Untraced
          \/ LET b == Through(G, p[2], Wraps \cup {"reshape"}) IN
             IsOp(G, b, "constant") /\ ~TileIndex(G, p[1]).moved /\ G.node[b].value >= TileIndex(G, p[1]).length
StoreMaskTrivial(G) == \A m \in StoreMasks(G) : \A c \in MaskLeaves(G, m, -1) : TrivialLeaf(G, c[1])

\* ---- the kernel around the product -------------------------------------------------------------
\* what the proofs share: the operations, the arguments A, B, C, the tile, each
\* role's layout, the loop's walk along K and the extents the template clips with
Roles3 == {"A", "B", "C"}
Named(G, name) == IF IsScalar(G, name) THEN Runtime(name) ELSE Unknown
Known(e, otherwise) == IF e # Unknown THEN e ELSE otherwise
IsNumber(G, id) == IsOp(G, id, "constant")
WalkOf(G, loop, block) == [counter |-> loop.blocks[1], step |-> IF ConstantIs(G, loop.args[3], 1) THEN block ELSE 1]
NoWalk == [counter |-> Untraced, step |-> 1]
CountedDepth(G, loop, block) ==
  LET n(j) == G.node[loop.args[j]].value IN
  IF \A j \in 1..3 : IsNumber(G, loop.args[j]) THEN Fixed(block * Top(0, CeilDiv(n(2) - n(1), n(3)))) ELSE Unknown
\* the depth the proofs compare masks with: the bound, K by name, the turns counted
DepthProved(G, loop, block) ==
  IF BoundArgument(G, loop) # Untraced THEN Runtime(BoundArgument(G, loop)) ELSE Known(Named(G, "K"), CountedDepth(G, loop, block))
DotLoop(G) == SelectSeq(KLoops(G), LAMBDA o : \E p \in Range(o.region) : p.op = "dot")
OneProduct(G) ==
  /\ Len(OpsOf(G, {"dot"})) = 1 /\ Len(OpsOf(G, {"store"})) = 1 /\ TopOps(G, {"store"}) # <<>>
  /\ Len(OpsOf(G, {"for"})) = Len(DotLoop(G))
TheProduct(G) ==
  LET dot == OpsOf(G, {"dot"})[1]
      store == TopOps(G, {"store"})[1]
      loop == DotLoop(G)
      of == [A |-> PointerOf(G, dot.args[1], TRUE), B |-> PointerOf(G, dot.args[2], TRUE), C |-> PointerOf(G, store.args[1], FALSE)]
      address == [r \in Roles3 |-> AddressOf(G, of[r])]
      block == G.shape[dot.args[1]][2]
  IN [dot |-> dot, store |-> store, loop |-> loop, of |-> of, address |-> address,
      at |-> [r \in Roles3 |-> IF address[r] = Untraced THEN NoLayout ELSE LayoutOf(G, address[r])],
      BM |-> G.shape[dot.args[1]][1], BN |-> G.shape[dot.args[2]][2], BK |-> block,
      walk |-> IF loop = <<>> THEN NoWalk ELSE WalkOf(G, loop[1], block),
      depth |-> IF loop = <<>> THEN Unknown ELSE DepthProved(G, loop[1], block),
      M |-> Known(OutputExtent(G, FALSE), Named(G, "M")), N |-> Known(OutputExtent(G, TRUE), Named(G, "N"))]
RolesProved(f) == Untraced \notin Range(f.of) /\ Cardinality(Range(f.of)) = 3
TypeOfArg(G, id) == (CHOOSE a \in Range(G.args) : a.id = id).type

\* ---- the operands' values: loads, untouched ----------------------------------------------------
DotLayouts == {"convert_layout", "local_alloc", "local_load"}
OperandPath(G, f, j) == Through(G, f.dot.args[j], DotLayouts \cup (IF f.loop = <<>> THEN {"memdesc_trans"} ELSE {}))
LoadFor(G, f, role) == G.node[OperandPath(G, f, IF role = "A" THEN 1 ELSE 2)]
OperandsProved(G, f) ==
  /\ \A j \in {1, 2} :
       LET role == IF j = 1 THEN "A" ELSE "B" IN
       /\ IsOp(G, OperandPath(G, f, j), "load")
       /\ {G.type[OperandPath(G, f, j)], G.type[f.dot.args[j]]} = {TypeOfArg(G, f.of[role])}
  /\ TypeOfArg(G, f.of.A) = TypeOfArg(G, f.of.B)
\* the accumulator is a float converted once; bytes stay exact below 2^24
SumsProved(G, f) ==
  LET sum == G.type[f.dot.id]
      out == TypeOfArg(G, f.of.C)
  IN CASE sum = "f32" -> TRUE
       [] sum = "f16" -> out = "f16"
       [] sum = "i32" -> TypeOfArg(G, f.of.A) = "i8" /\ out = "i32" /\ f.loop = <<>> /\ f.BK <= 1023
       [] OTHER -> FALSE

\* ---- the tiles' indices and the grid -----------------------------------------------------------
DotPlaces == {"A", "B", "C"} \X {0, 1}
IndexAt(f, p) == IF p[2] = 0 THEN f.at[p[1]].rowindex ELSE f.at[p[1]].colindex
BlockAt(f, p) ==
  CASE p \in {<<"A", 1>>, <<"B", 0>>} -> f.BK
    [] p[2] = 0 -> f.BM
    [] OTHER -> f.BN
AlongK(p) == p \in {<<"A", 1>>, <<"B", 0>>}
\* every value an index is computed from is a 32-bit integer, and no cast is among them
RECURSIVE Above(_, _)
Above(G, id) == {id} \cup (IF IsNode(G, id) THEN UNION {Above(G, x) : x \in Range(G.node[id].args)} ELSE {})
Exact32(G, id) ==
  \A x \in Above(G, id) : x \in DOMAIN G.type /\ G.type[x] = "i32" /\ (IsNode(G, x) => G.node[x].op \notin IndexCasts \cup {"trunci"})
\* (extent + block - 1) div block, added and divided as they stand
RoundedUp(G, id, block, extent) ==
  IsOp(G, id, "divsi") /\ ConstantIs(G, G.node[id].args[2], block)
  /\ extent.arg # Untraced /\ \E p \in Operands(G, G.node[id].args[1], "addi") : p[1] = extent.arg /\ ConstantIs(G, p[2], block - 1)
\* the same for a divisor, which may be widened, or divided upwards at once
TilesUp(G, id, block, extent) ==
  LET at == Through(G, id, IndexCasts)
      sum == Through(G, G.node[at].args[1], IndexCasts)
  IN /\ extent # Unknown /\ IsNode(G, at) /\ G.node[at].op \in {"divsi", "ceildivsi"} /\ ConstantIs(G, G.node[at].args[2], block)
     /\ IF G.node[at].op = "ceildivsi" THEN IsExtent(G, G.node[at].args[1], extent)
        ELSE \E p \in Operands(G, sum, "addi") : IsExtent(G, p[1], extent) /\ ConstantIs(G, p[2], block - 1)
PiecesAt(G, f, p) == Pieces(G, IndexAt(f, p), f.walk, FALSE)
\* C's rows by quotient and columns by remainder of one division by the column tiles
FlatDivisor(G, f) ==
  LET row == PidPiece(PiecesAt(G, f, <<"C", 0>>))
      col == PidPiece(PiecesAt(G, f, <<"C", 1>>))
  IN IF /\ row.axis = 1 /\ col.axis = 0 /\ row.split.kind = "by" /\ row.split = col.split
        /\ RoundedUp(G, row.split.rows, f.BN, f.N) /\ f.N.arg # "unknown" /\ Exact32(G, row.split.rows)
     THEN row.split.rows ELSE Untraced
\* read with that orientation, the quotient moves the rows
FlatTurned(pid, flat) ==
  IF flat # Untraced /\ pid.split.kind = "by" /\ pid.split.rows = flat /\ pid.axis \in {0, 1}
  THEN [axis |-> 1 - pid.axis, split |-> PidSplit("flat_n", 0, flat, Untraced)] ELSE pid
PidAt(G, f, p) == FlatTurned(PidPiece(PiecesAt(G, f, p)), FlatDivisor(G, f))
WrapAllowed(G, f, p, wrap) ==
  /\ f.loop # <<>> /\ p \in {<<"A", 0>>, <<"B", 1>>}
  /\ LET e == IF p[1] = "A" THEN f.M ELSE f.N IN e # Unknown /\ Through(G, wrap.at, {"splat"} \cup IndexCasts) = e.arg
IndexProved(G, f, p) ==
  LET ps == PiecesAt(G, f, p)
      pid == PidAt(G, f, p)
  IN /\ PlainTile(ps, BlockAt(f, p))
     /\ pid.split.kind = "flat_n" => Exact32(G, IndexAt(f, p))
     /\ \A w \in Range(Kind(ps, "mod")) : WrapAllowed(G, f, p, w)
     /\ IF AlongK(p) THEN pid = NoPid /\ Len(Kind(ps, "k")) <= 1 ELSE Kind(ps, "k") = <<>> /\ pid.axis \in {-1, p[2]}
IndicesProved(G, f) ==
  LET pid(r, x) == PidAt(G, f, <<r, x>>) IN
  /\ \A p \in DotPlaces : IndexAt(f, p) # Untraced
  /\ \A p \in DotPlaces : IndexProved(G, f, p)
  /\ (pid("A", 0) = NoPid) = (pid("C", 0) = NoPid) /\ (pid("B", 1) = NoPid) = (pid("C", 1) = NoPid)
\* one way to hand out the tiles, or none
NoGrid == [kind |-> "refused"]
GridOf(G, f) ==
  LET pids == {PidAt(G, f, p) : p \in DotPlaces} \ {NoPid}
      splits == {x.split : x \in pids}
      s == CHOOSE x \in splits : TRUE
      rows == PidAt(G, f, <<"C", 0>>) # NoPid
      cols == PidAt(G, f, <<"C", 1>>) # NoPid
      both(grid) == IF rows /\ cols THEN grid ELSE NoGrid
  IN CASE splits = {} \/ splits = {NoSplit} -> [kind |-> "2d", rows |-> rows, cols |-> cols]
       [] Cardinality(splits) > 1 -> NoGrid
       [] s.kind = "flat_n" -> both([kind |-> "flat_n"])
       [] s.kind = "grouped" ->
            IF f.M # Unknown /\ f.N # Unknown /\ RoundedUp(G, s.rows, f.BM, f.M) /\ RoundedUp(G, s.cols, f.BN, f.N)
            THEN both([kind |-> "grouped", size |-> s.size]) ELSE NoGrid
       [] TilesUp(G, s.rows, f.BM, f.M) -> both([kind |-> "1d"])
       [] OTHER -> NoGrid

\* ---- the K loop ----------------------------------------------------------------------------------
\* literally zero, through what only spreads it
LiteralZero(G, id) == ConstantIs(G, Through(G, id, Wraps \cup {"expand_dims"}), 0)
\* the position of the accumulator among the carried values, 0 when there is none
Accumulator(G, f) ==
  LET loop == f.loop[1]
      next == Last(loop.region).args
      slots == {j \in DOMAIN next : loop.blocks[j + 1] = Through(G, f.dot.args[3], DotLayouts) /\ Through(G, next[j], DotLayouts) = f.dot.id}
  IN IF Last(loop.region).op = "yield" /\ Len(next) = Len(loop.blocks) - 1 /\ Len(next) = Len(loop.args) - 3 /\ slots # {}
     THEN CHOOSE j \in slots : TRUE ELSE 0
\* another carried value is the stream of A or of B, from that role's address on
StreamOf(G, f, j) ==
  LET start == InitOf(f.loop[1], j + 1)
      roles == {r \in {"A", "B"} : PointerOf(G, start, TRUE) = f.of[r] /\ start = f.address[r]}
      next == Last(f.loop[1].region).args[j]
  IN IF IsOp(G, next, "addptr") /\ G.node[next].args[1] = f.loop[1].blocks[j + 1] /\ roles # {} THEN CHOOSE r \in roles : TRUE ELSE Untraced
Streams(G, f, role) == {j \in DOMAIN Last(f.loop[1].region).args : j # Accumulator(G, f) /\ StreamOf(G, f, j) = role}
StrideAlongK(f, role) == IF role = "A" THEN f.at.A.col ELSE f.at.B.row
KIndexForm(G, f, role) == Len(Kind(PiecesAt(G, f, IF role = "A" THEN <<"A", 1>> ELSE <<"B", 0>>), "k"))
\* the load follows its stream, which moves a block per turn, or its own k + range
ReadProved(G, f, role) ==
  LET at == Through(G, LoadFor(G, f, role).args[1], {"convert_layout"})
      js == Streams(G, f, role)
  IN IF js = {} THEN KIndexForm(G, f, role) = 1 /\ at = f.address[role]
     ELSE /\ Cardinality(js) = 1 /\ KIndexForm(G, f, role) = 0
          /\ \A j \in js : /\ at = f.loop[1].blocks[j + 1]
                           /\ AdvanceMatches(G, G.node[Last(f.loop[1].region).args[j]].args[2], f.BK, StrideAlongK(f, role))
\* a comparison of a load's mask: the operand's own index with the extent the
\* template clips with; clips is whether it is K's
MaskUnwrapped(G, id) == Through(G, id, {"expand_dims", "broadcast", "convert_layout", "reshape"})
MaskAxis(G, f, role, c) ==
  LET side == G.node[c[1]].args[1]
      axis == IF TileIndex(G, side).axis = -1 THEN c[2] ELSE TileIndex(G, side).axis
      root == RangeRoot(G, MaskUnwrapped(G, side))
  IN CASE root = Untraced -> -1
       [] axis = 1 /\ root = RangeRoot(G, f.at[role].rowindex) -> 0
       [] axis = 0 /\ root = RangeRoot(G, f.at[role].colindex) -> 1
       [] OTHER -> -1
KClipProved(G, f, index, bound) ==
  LET ps == Pieces(G, index, f.walk, FALSE) IN
  /\ Kind(ps, "other") = <<>> /\ Kind(ps, "pid") = <<>> /\ Len(Kind(ps, "range")) = 1
  /\ CASE Kind(ps, "k") = <<>> -> IsKRemaining(G, bound, f.depth, f.walk)
       [] Len(Kind(ps, "k")) = 1 -> IsExtent(G, bound, f.depth)
       [] OTHER -> FALSE
EdgeClipProved(G, f, p, cmp) ==
  LET bound == MaskBound(G, cmp.args[2])
      fixed == Through(G, cmp.args[2], Wraps)
  IN /\ MaskUnwrapped(G, cmp.args[1]) = IndexAt(f, p)
     /\ IF bound # Untraced THEN bound = (IF p[1] = "A" THEN f.M ELSE f.N).arg
        ELSE IsNumber(G, fixed) /\ G.node[fixed].value >= TileIndex(G, cmp.args[1]).length
ClipProved(G, f, role, c) ==
  LET cmp == G.node[c[1]]
      p == <<role, MaskAxis(G, f, role, c)>>
  IN /\ c[1] # Untraced /\ cmp.pred = "slt"
     /\ TileIndex(G, cmp.args[1]).is /\ ~TileIndex(G, cmp.args[2]).is
     /\ p[2] # -1
     /\ IF AlongK(p) THEN KClipProved(G, f, MaskUnwrapped(G, cmp.args[1]), cmp.args[2]) ELSE EdgeClipProved(G, f, p, cmp)
Clips(G, f, role) == IF Len(LoadFor(G, f, role).args) < 2 THEN {} ELSE MaskLeaves(G, LoadFor(G, f, role).args[2], -1)
MaskProved(G, f, role) ==
  /\ Len(LoadFor(G, f, role).args) = 3 => LiteralZero(G, LoadFor(G, f, role).args[3])
  /\ \A c \in Clips(G, f, role) : ClipProved(G, f, role, c)
ClipsK(G, f, role) == \E c \in Clips(G, f, role) : AlongK(<<role, MaskAxis(G, f, role, c)>>)
LoopProved(G, f) ==
  /\ ConstantIs(G, f.loop[1].args[3], 1) \/ ConstantIs(G, f.loop[1].args[3], f.BK)
  /\ "store" \notin {o.op : o \in Range(f.loop[1].region)}
  /\ Accumulator(G, f) # 0 /\ LiteralZero(G, InitOf(f.loop[1], Accumulator(G, f) + 1))
  /\ \A j \in DOMAIN Last(f.loop[1].region).args : j # Accumulator(G, f) => StreamOf(G, f, j) # Untraced
  /\ \A r \in {"A", "B"} : ReadProved(G, f, r) /\ MaskProved(G, f, r)
  /\ ClipsK(G, f, "A") = ClipsK(G, f, "B")
\* without a loop: unmasked loads of the traced addresses, staged through local memory
TileProved(G, f) ==
  /\ LiteralZero(G, f.dot.args[3]) /\ TopOps(G, {"local_alloc"}) # <<>>
  /\ \A o \in Range(TopOps(G, {"program_id"})) : AxisOf(o) < 2
  /\ \A o \in Range(TopOps(G, {"load"})) : Len(o.args) = 1
  /\ \A r \in {"A", "B"} : Through(G, LoadFor(G, f, r).args[1], {"convert_layout"}) = f.address[r]
RECURSIVE Orientation(_, _)
Orientation(G, id) == IsOp(G, id, "memdesc_trans") /\ (Orientation(G, G.node[id].args[1]) # (G.node[id].order = <<1, 0>>))
Transposed(G, id) == IsOp(G, id, "local_load") /\ Orientation(G, G.node[id].args[1])

\* ---- the result's way to memory --------------------------------------------------------------------
ProductResult(G, f) == IF f.loop = <<>> THEN f.dot.id ELSE f.loop[1].results[Accumulator(G, f)]
OutputCasts == {"truncf", "extf"}
RECURSIVE StoredCasts(_, _, _)
StoredCasts(G, id, from) ==
  CASE id = from -> <<>>
    [] IsOp(G, id, "convert_layout") -> StoredCasts(G, G.node[id].args[1], from)
    [] IsNode(G, id) /\ G.node[id].op \in OutputCasts -> <<id>> \o StoredCasts(G, G.node[id].args[1], from)
    [] OTHER -> <<Untraced>>
StoreProved(G, f) ==
  LET casts == StoredCasts(G, f.store.args[2], ProductResult(G, f))
      out == TypeOfArg(G, f.of.C)
  IN /\ Through(G, f.store.args[1], {"convert_layout"}) = f.address.C
     /\ Untraced \notin Range(casts)
     /\ IF out = G.type[f.dot.id] THEN casts = <<>> ELSE Len(casts) = 1 /\ G.type[casts[1]] = out
     /\ G.type[f.store.args[2]] = out
\* nobody else sees the product: its uses, and theirs through layouts and that cast
RECURSIVE Uses(_, _, _)
Uses(G, ids, passed) ==
  LET more == ids \cup {o.id : o \in {x \in Range(G.all) : x.op \in passed /\ Range(x.args) \cap ids # {}}} IN
  IF more = ids THEN ids ELSE Uses(G, more, passed)
SeenOnce(G, f) ==
  LET passed == {"convert_layout"} \cup OutputCasts
      ids == Uses(G, {f.dot.id}, passed)
  IN \A o \in Range(G.all) : Range(o.args) \cap ids # {} => o.op \in {"store", "yield", "dot"} \cup passed
\* ---- what the templates are told -------------------------------------------------------------------
NotReplaced == [template |-> "refused"]
ValuesProved(G, f) ==
  /\ RolesProved(f) /\ SumsProved(G, f) /\ OperandsProved(G, f) /\ IndicesProved(G, f)
  /\ IF f.loop = <<>> THEN TileProved(G, f) ELSE LoopProved(G, f)
  /\ StoreProved(G, f) /\ SeenOnce(G, f)
\* the loop's bound: an argument, K by name, or the upper constant as it stands
DepthTold(G, loop) ==
  CASE BoundArgument(G, loop) # Untraced -> Runtime(BoundArgument(G, loop))
    [] IsScalar(G, "K") -> Runtime("K")
    [] IsNumber(G, loop.args[2]) -> Fixed(G.node[loop.args[2]].value)
    [] OTHER -> Unknown
Told(G, f, grid) ==
  LET looped == f.loop # <<>>
      depth == IF looped THEN DepthTold(G, f.loop[1]) ELSE Unknown
  IN [template |-> "dot", A |-> f.of.A, B |-> f.of.B, C |-> f.of.C, BM |-> f.BM, BN |-> f.BN, BK |-> f.BK,
      strides |-> [ar |-> f.at.A.row, ac |-> f.at.A.col, br |-> f.at.B.row, bc |-> f.at.B.col, cr |-> f.at.C.row, cc |-> f.at.C.col],
      rows |-> OutputExtent(G, FALSE), cols |-> OutputExtent(G, TRUE), loop |-> looped, depth |-> depth,
      depthtype |-> IF IsScalar(G, depth.arg) THEN TypeOfArg(G, depth.arg) ELSE "none",
      tail |-> IF looped /\ ~ClipsK(G, f, "A") THEN "full_blocks" ELSE "masked_zero",
      pids |-> {AxisOf(o) : o \in Range(OpsOf(G, {"program_id"}))}, scalars |-> {a.id : a \in {x \in Range(G.args) : ~x.ptr}}, grid |-> grid,
      transA |-> ~looped /\ Transposed(G, f.dot.args[1]), transB |-> ~looped /\ Transposed(G, f.dot.args[2]),
      narrow |-> TypeOfArg(G, f.of.A) = "f16", int |-> G.type[f.dot.id] = "i32"]
ReplacedBy(G, f, grid) == IF grid = NoGrid \/ ~ValuesProved(G, f) THEN NotReplaced ELSE Told(G, f, grid)
Considered(G, f) == ReplacedBy(G, f, GridOf(G, f))
DotInfo(G) == IF OneProduct(G) /\ StoreMaskTrivial(G) THEN Considered(G, TheProduct(G)) ELSE NotReplaced
==============================================================================

---------------------------- MODULE NormTemplates ----------------------------
(***************************************************************************)
(* Row softmax and row layer norm recognised in a graph and replaced by a  *)
(* kernel that keeps the row in threadgroup memory.  The detectors         *)
(* (codegen/_lowerer_detection.py) look for the operations; the proof      *)
(* (codegen/_normalization_proof.py) then compares the expression the      *)
(* graph stores with the one the kernel computes, operation by operation.  *)
(***************************************************************************)
EXTENDS LayoutTemplates

\* ---- what the detectors look at --------------------------------------------------------
\* IRGraph.block_size: the end of the last range the walker met
Width(G) == LET ranges == OpsOf(G, {"make_range"}) IN IF ranges = <<>> THEN 256 ELSE Last(ranges).end
ScalarArgs(G) == SelectSeq(G.args, LAMBDA a : ~a.ptr)
Held(G, name) == TopOps(G, {name}) # <<>>
\* the multiplier of the program id is a constant
ConstantStride(G) ==
  \E o \in Range(TopOps(G, {"muli"})) :
    /\ \E j \in DOMAIN o.args : IsOp(G, o.args[j], "program_id")
    /\ \E j \in DOMAIN o.args : IsOp(G, o.args[j], "constant")
Transparent ==
  {"convert_layout", "reshape", "broadcast", "expand_dims", "splat", "local_load", "local_alloc", "memdesc_trans", "trans"}
Spreading == {"broadcast", "expand_dims", "convert_layout", "splat"}
NormRoles(G) == Roles(G, The(G, "load"), The(G, "store"))
NormRolesKnown(G) ==
  /\ RolesKnown(G, The(G, "load"), The(G, "store"))
  /\ Through(G, The(G, "reduce").args[1], Transparent) = The(G, "load").id
\* _stored_value_roots_at: back through layouts and at most one cast to the
\* type of the pointer stored through
StoredRoot(G) ==
  LET store == The(G, "store")
      at == Through(G, store.args[2], LayoutOnly)
      type == G.type[PointerOf(G, store.args[1], FALSE)]
  IN IF ~IsOp(G, at, "truncf") THEN at
     ELSE IF G.type[at] = type THEN Through(G, G.node[at].args[1], LayoutOnly) ELSE Untraced
IsQuotient(G, id) ==
  /\ IsOp(G, id, "divf")
  /\ G.node[G.node[id].args[1]].op \in {"exp", "exp2"} /\ G.node[G.node[id].args[2]].op \in Spreading
IsScaled(G, id) ==
  LET sides == {G.node[Through(G, G.node[id].args[j], Spreading)].op : j \in 1..2} IN
  IsOp(G, id, "mulf") /\ "rsqrt" \in sides /\ sides \cap {"subf", "select"} # {}
RowReductions(G, first, second) ==
  /\ TopOps(G, Control \cup {"num_programs"}) = <<>>
  /\ Single1(G, "load") /\ Single1(G, "store")
  /\ LET reds == TopOps(G, {"reduce"}) IN
     /\ Len(reds) = 2
     /\ Classify(reds[1].combine, 1).kind = first /\ Classify(reds[2].combine, 1).kind = second
RowLength(G) == Len(ScalarArgs(G)) = 1 /\ ~ConstantStride(G) /\ Width(G) <= 1024
SoftmaxFound(G) ==
  /\ RowReductions(G, "max", "sum")
  /\ (Held(G, "exp") \/ Held(G, "exp2")) /\ Held(G, "subf") /\ Held(G, "divf")
  /\ NormRolesKnown(G) /\ IsQuotient(G, StoredRoot(G)) /\ RowLength(G)
\* the constant added under the square root
EpsOf(G) ==
  LET roots == TopOps(G, {"rsqrt", "sqrt"})
      inner == roots[1].args[1]
      plain(id) == Through(G, id, {"splat", "broadcast", "convert_layout", "extf", "truncf"})
  IN IF ~IsOp(G, inner, "addf") THEN {}
     ELSE {G.node[plain(x)].value : x \in {y \in Range(G.node[inner].args) : IsOp(G, plain(y), "constant")}}
LayerNormFound(G) ==
  /\ RowReductions(G, "sum", "sum")
  /\ (Held(G, "rsqrt") \/ Held(G, "sqrt")) /\ Held(G, "subf") /\ Held(G, "mulf") /\ Held(G, "addf")
  /\ ~Held(G, "exp") /\ ~Held(G, "exp2")
  /\ NormRolesKnown(G) /\ IsScaled(G, StoredRoot(G)) /\ RowLength(G)
  /\ EpsOf(G) # {}
NormInfo(G, family) ==
  [template |-> family, in |-> NormRoles(G)[1], out |-> NormRoles(G)[2], length |-> ScalarArgs(G)[1].id, block |-> Width(G),
   eps |-> IF family = "softmax" THEN 0 ELSE CHOOSE x \in EpsOf(G) : TRUE,
   vector |-> (\A a \in Range(PointerArgs(G)) : a.type = "f32") /\ Width(G) % 4 = 0,
   cast |-> G.type[NormRoles(G)[2]] # "f32"]

\* ---- the proof -------------------------------------------------------------------------
\* the expression of a value; both orders of a commutative operation are one
Length(n) == <<"arg", n.length>>
Column == <<"column">>
RowMask(n) == <<"slt", Column, Length(n)>>
RowOffset(n) == <<"addi", {<<"muli", {<<"pid", 0>>, Length(n)}>>, Column}>>
RECURSIVE Tree(_, _, _)
Tree(G, n, id) ==
  LET o == G.node[id]
      sub(j) == Tree(G, n, o.args[j])
      of == [j \in DOMAIN o.args |-> sub(j)]
  IN CASE ~IsNode(G, id) -> <<"arg", id>>
       [] o.op = "constant" -> <<"constant", G.type[id], o.value>>
       [] o.op = "program_id" -> <<"pid", o.axis>>
       [] o.op = "make_range" -> Column
       [] o.op \in {"convert_layout", "reshape", "splat"} -> sub(1)
       [] o.op = "addptr" -> IF of[1][1] = "address" THEN <<"address", of[1][2], <<"addi", {of[1][3], of[2]}>>>> ELSE <<"address", of[1], of[2]>>
       [] o.op \in {"addi", "muli", "addf", "mulf"} -> <<o.op, {of[1], of[2]}>>
       [] o.op = "cmpi" -> <<o.pred>> \o of
       [] o.op = "sitofp" -> <<"length">>
       [] o.op = "load" -> <<"input">>
       [] o.op = "reduce" -> <<Classify(o.combine, 1).kind, sub(1)>>
       [] o.op \in {"subf", "divf", "exp", "rsqrt", "select"} -> <<o.op>> \o of
       [] OTHER -> <<"unproved">>
\* what the proof asks of one operation before it has an expression
Replayed(G, n, o) ==
  LET shape == G.shape[o.id]
      type == G.type[o.id]
      alike(t) == \A j \in DOMAIN o.args : G.type[o.args[j]] = t /\ G.shape[o.args[j]] = shape
      same == G.type[o.args[1]] = type
  IN /\ shape \in {<<>>, <<n.block>>} /\ type \in {"f32", "f16", "bf16", "i32", "i1"}
     /\ CASE o.op = "constant" -> type \in {"f32", "i32", "i1"} /\ o.value # NaN
          [] o.op = "program_id" -> shape = <<>>
          [] o.op = "make_range" -> o.start = 0 /\ o.end = n.block
          [] o.op \in {"convert_layout", "reshape"} -> same /\ G.shape[o.args[1]] = shape
          [] o.op = "splat" -> same /\ G.shape[o.args[1]] = <<>>
          [] o.op = "addptr" -> G.type[o.args[2]] = "i32"
          [] o.op \in {"addi", "muli", "cmpi"} -> Len(o.args) = 2 /\ alike("i32")
          [] o.op = "sitofp" -> o.args = <<n.length>> /\ type = "f32" /\ shape = <<>>
          [] o.op = "load" ->
               /\ Len(o.args) = 3 /\ type = "f32" /\ shape = <<n.block>>
               /\ Tree(G, n, o.args[1]) = <<"address", <<"arg", n.in>>, RowOffset(n)>>
               /\ Tree(G, n, o.args[2]) = RowMask(n)
               /\ Tree(G, n, o.args[3]) = <<"constant", "f32", IF n.template = "softmax" THEN NegInf ELSE 0>>
          [] o.op = "reduce" ->
               /\ Len(o.args) = 1 /\ o.axis = 0 /\ shape = <<>> /\ G.shape[o.args[1]] = <<n.block>> /\ type = "f32"
               /\ Len(o.combine.ops) = 1 /\ o.combine.ops[1].op \in {"addf", "maxnumf"}
               /\ Len(o.combine.args) = 2 /\ Range(o.combine.ops[1].args) = Range(o.combine.args)
               /\ o.combine.ret = <<o.combine.ops[1].id>>
          [] o.op \in {"addf", "mulf", "subf", "divf"} -> Len(o.args) = 2 /\ type = "f32" /\ alike("f32")
          [] o.op \in {"exp", "rsqrt"} -> Len(o.args) = 1 /\ type = "f32" /\ alike("f32")
          [] o.op = "select" -> Len(o.args) = 3 /\ type = "f32" /\ \A j \in 1..3 : G.shape[o.args[j]] = shape
          [] OTHER -> FALSE
Normalised(n) ==
  LET x == <<"input">>
      exponential == <<"exp", <<"subf", x, <<"max", x>>>>>>
      centred == <<"select", RowMask(n), <<"subf", x, <<"divf", <<"sum", x>>, <<"length">>>>>>, <<"constant", "f32", 0>>>>
      variance == <<"divf", <<"sum", <<"mulf", {centred}>>>>, <<"length">>>>
  IN IF n.template = "softmax" THEN <<"divf", exponential, <<"sum", exponential>>>>
     ELSE <<"mulf", {centred, <<"rsqrt", <<"addf", {variance, <<"constant", "f32", n.eps>>}>>>>}>>
Proved(G, n) ==
  LET store == The(G, "store")
      value == Through(G, store.args[2], LayoutOnly)
      cast == IsOp(G, value, "truncf")
      whole == IF cast THEN G.node[value].args[1] ELSE value
  IN /\ G.type[n.length] = "i32"
     /\ Len(store.args) = 3
     /\ Tree(G, n, store.args[1]) = <<"address", <<"arg", n.out>>, RowOffset(n)>>
     /\ Tree(G, n, store.args[3]) = RowMask(n)
     /\ IF cast THEN G.type[value] = G.type[n.out] /\ G.type[whole] = "f32" /\ G.shape[value] = G.shape[whole] ELSE G.type[n.out] = "f32"
     /\ Tree(G, n, whole) = Normalised(n)
     /\ \A o \in Range(G.ops) : o.id \in {store.id} \cup (IF cast THEN {value} ELSE {}) \/ Replayed(G, n, o)
\* without a proof the generic lowering takes over, when it may
FallbackOwned(G, n) ==
  \A o \in Range(TopOps(G, {"reduce"})) :
    /\ Len(o.args) = 1 /\ Len(ResultIds(o)) = 1
    /\ G.type[o.args[1]] = "f32" /\ G.type[o.id] = "f32"
    /\ G.shape[o.args[1]] = <<n.block>> /\ o.axis = 0
NormDecision(G, family) ==
  LET n == NormInfo(G, family) IN
  IF Proved(G, n) THEN n ELSE [template |-> IF FallbackOwned(G, n) THEN "generic" ELSE "refused"]

\* ---- the kernels ------------------------------------------------------------------------
\* num_warps partial results, one per SIMD group, folded by every SIMD group
Partial(op) == <<LanesAt("simd", op), Barrier, Run("post"), Barrier, LanesAt("whole", op)>>
NormCode(k) ==
  IF k.info.template = "softmax" THEN <<Run("load")>> \o Partial("max") \o <<Run("exps")>> \o Partial("sum") \o <<Run("scale")>>
  ELSE <<Run("load")>> \o Partial("sum") \o <<Run("squares")>> \o Partial("sum") \o <<Run("scale")>>
RowColumns(k) == IF k.scalars.n < 0 THEN 0 ELSE IF k.scalars.n > k.info.block THEN k.info.block ELSE k.scalars.n
\* with float4 a thread takes four neighbours at a time
Share(k, t, vector) ==
  IF vector /\ k.info.vector /\ k.scalars.n % 4 = 0 THEN {c \in 0..((4 * (RowColumns(k) \div 4)) - 1) : (c \div 4) % k.threads = t}
  ELSE Mine(k, t, RowColumns(k))
PartialEffect(k, i, t, v) ==
  CASE i.do = "simd" -> Put("part", t, SimdOp(k, i.i, v.local, t))
    [] i.do = "post" -> IF LaneOf(k, t) = 0 THEN Put("reduce_buf", SimdOf(k, t), v.part[t]) ELSE Nothing
    [] i.do = "whole" ->
         Put("total", t, Combine(i.i, [l \in 0..(k.simd - 1) |-> IF l < SimdCount(k) THEN v.reduce_buf[l] ELSE Identity(i.i)]))
CastTo(k, x) == IF k.info.cast THEN Fn("round", x) ELSE x
SoftmaxStep(k, g, i, t, v) ==
  LET n == k.info
      row == g * k.scalars.n
      mine == Share(k, t, TRUE)
      x == Table([c \in mine |-> IF i.do = "load" THEN At(v[n.in], row + c) ELSE Exp(Diff(v.row_cache[c], v.total[t]))])
  IN CASE i.do = "load" -> [row_cache |-> x, local |-> (t :> Largest(x))]
       [] i.do = "exps" -> [row_cache |-> x, local |-> (t :> Total(x))]
       [] i.do = "scale" -> n.out :> [c \in Shift(row, mine) |-> CastTo(k, Mul(v.row_cache[c - row], Div(1, v.total[t])))]
LayerNormStep(k, g, i, t, v) ==
  LET n == k.info
      row == g * k.scalars.n
      mean == Div(v.total[t], k.scalars.n)
      x == [c \in Share(k, t, TRUE) |-> At(v[n.in], row + c)]
      off(m) == [c \in Share(k, t, FALSE) |-> Sub(v.row_cache[c], m)]
  IN CASE i.do = "load" -> [row_cache |-> x, local |-> (t :> Total(x))]
       [] i.do = "squares" -> [mean |-> (t :> mean), local |-> (t :> Dot(off(mean), off(mean)))]
       [] i.do = "scale" ->
            LET spread == Fn("rsqrt", Add(Div(v.total[t], k.scalars.n), n.eps)) IN
            n.out :> [c \in Shift(row, Share(k, t, TRUE)) |-> CastTo(k, Mul(Sub(v.row_cache[c - row], v.mean[t]), spread))]
NormEffect(k, g, i, t, v) ==
  CASE i.do \in {"simd", "post", "whole"} -> PartialEffect(k, i, t, v)
    [] k.info.template = "softmax" -> SoftmaxStep(k, g, i, t, v)
    [] OTHER -> LayerNormStep(k, g, i, t, v)
NormVerdict(G) ==
  CASE SoftmaxFound(G) -> NormDecision(G, "softmax")
    [] LayerNormFound(G) -> NormDecision(G, "layer_norm")
    [] OTHER -> [template |-> "generic"]

------------------------------------------------------------------------------
(***************************************************************************)
(* Sorting every row of a matrix.  The library writes it as a bitonic      *)
(* network over a tensor of bits, with an xor reduction per exchange; the  *)
(* template recognises it by shapes and reductions                         *)
(* (_detect_row_wise_sort) and gives each row to one thread.               *)
(***************************************************************************)
\* a vector counts as one row
AsRows(shape) == IF Len(shape) = 1 THEN <<1>> \o shape ELSE shape
IsCube(shape) == Len(shape) >= 4 /\ Range(shape) = {2}
Combines(o) == {p.op : p \in Range(o.combine.ops)}
SortInput(G) == AsRows(G.shape[The(G, "load").id])
SortOutput(G) == AsRows(G.shape[The(G, "store").args[2]])
SortShaped(G) ==
  LET in == G.shape[The(G, "load").id]
      out == G.shape[The(G, "store").args[2]]
  IN /\ Len(in) \in {1, 2} /\ Len(out) \in {1, 2}
     /\ PowerOfTwo(SortInput(G)[2]) /\ PowerOfTwo(SortOutput(G)[2])
     /\ SortOutput(G)[1] = SortInput(G)[1] /\ SortOutput(G)[2] <= SortInput(G)[2]
     /\ ~(SortInput(G)[1] = 1 /\ SortInput(G) = SortOutput(G))
SortFound(G) ==
  /\ TopOps(G, Control \cup {"num_programs"}) = <<>>
  /\ Single1(G, "load") /\ Single1(G, "store")
  /\ \E o \in Range(TopOps(G, {"reduce"})) : "xori" \in Combines(o)
  /\ \E o \in Range(TopOps(G, {"reshape"})) : IsCube(G.shape[o.id])
  /\ SortShaped(G)
\* the first k of a longer row
Trimmed(G) == SortOutput(G)[2] < SortInput(G)[2]
WithinRows(G) ==
  LET n == Log2(Product(SortInput(G)))
      low == n - Log2(SortInput(G)[2])
  IN /\ PowerOfTwo(Product(SortInput(G)))
     /\ \A o \in Range(TopOps(G, {"reduce"})) :
          o.axis \in low..(n - 1) /\ Combines(o) \cap {"xori", "cmpf", "maxnumf", "minnumf", "maximumf", "minimumf", "maxsi", "minsi"} # {}
\* a constant 1 that lies along one bit
Descending(G) ==
  \E o \in Range(TopOps(G, {"constant"})) :
    o.value = 1 /\ \E d \in DOMAIN o.shape : o.shape[d] = 2 /\ \A e \in DOMAIN o.shape \ {d} : o.shape[e] = 1

\* ---- the distance between rows -----------------------------------------------------
RECURSIVE RangeOf(_, _)
RangeOf(G, id) ==
  LET o == G.node[id]
      both == {RangeOf(G, o.args[j]) : j \in DOMAIN o.args} \ {Untraced}
  IN CASE ~IsNode(G, id) -> Untraced
       [] o.op = "make_range" -> id
       [] o.op \in {"extsi", "trunci", "sitofp", "convert_layout", "load"} -> RangeOf(G, o.args[1])
       [] o.op = "addptr" -> RangeOf(G, o.args[2])
       [] o.op \in {"muli", "addi"} -> IF both = {} THEN Untraced ELSE CHOOSE x \in both : TRUE
       [] OTHER -> Untraced
IsRowStride(G, a) ==
  \E o \in Range(OpsOf(G, {"muli"})) : a.id \in Range(o.args) /\ \E x \in Range(o.args) \ {a.id} : RangeOf(G, x) # Untraced
RECURSIVE Behind(_, _)
Behind(G, id) == IF IsNode(G, id) THEN {id} \cup UNION {Behind(G, x) : x \in Range(G.node[id].args)} ELSE {}
\* the constants that multiply a range over the rows, in the address
BakedStrides(G, address, rows) ==
  LET along(x) == RangeOf(G, Through(G, x, {"expand_dims", "broadcast", "convert_layout"}))
      spans(x) == along(x) # Untraced /\ G.node[along(x)].end - G.node[along(x)].start = rows
      literal(x) == Through(G, x, {"splat", "broadcast", "expand_dims", "extsi"})
  IN UNION {LET a == G.node[x].args IN {G.node[literal(a[3 - j])].value : j \in {i \in 1..2 : spans(a[i]) /\ IsOp(G, literal(a[3 - i]), "constant")}}
            : x \in {y \in Behind(G, address) : IsOp(G, y, "muli")}}
Proven(strides, width) == Cardinality(strides) = 1 /\ \A s \in strides : s >= width
SortStrides(G) ==
  LET load == BakedStrides(G, The(G, "load").args[1], SortInput(G)[1])
      store == BakedStrides(G, The(G, "store").args[1], SortInput(G)[1])
  IN IF Proven(load, SortInput(G)[2]) /\ Proven(store, SortOutput(G)[2])
     THEN <<CHOOSE s \in load : TRUE, CHOOSE s \in store : TRUE>> ELSE <<>>
\* strides passed at run time reach the template, which refuses them
SortVerdict(G) ==
  CASE ~SortFound(G) -> "generic"
    [] Trimmed(G) -> "refused"
    [] ~(WithinRows(G) /\ RolesKnown(G, The(G, "load"), The(G, "store")) /\ SortInput(G)[1] <= 1024) -> "generic"
    [] ScalarArgs(G) # <<>> ->
         IF Len(ScalarArgs(G)) <= 2 /\ \A a \in Range(ScalarArgs(G)) : IsRowStride(G, a) THEN "refused" ELSE "generic"
    [] OTHER -> IF SortStrides(G) = <<>> THEN "generic" ELSE "sort"
SortInfo(G) ==
  IF SortVerdict(G) # "sort" THEN [template |-> SortVerdict(G)]
  ELSE LET roles == Roles(G, The(G, "load"), The(G, "store")) IN
       [template |-> "sort", rows |-> SortInput(G)[1], width |-> SortInput(G)[2], descending |-> Descending(G),
        in |-> roles[1], out |-> roles[2], strides |-> SortStrides(G)]

\* ---- the kernel --------------------------------------------------------------------------
\* the exchanges of a bitonic network: blocks of 2, 4, ... and within each the
\* distances from half a block down to 1
Network(n) ==
  FlattenSeq([s \in 1..Log2(n) |-> [q \in 1..s |-> [stage |-> 2^s, step |-> 2^(s - q)]]])
Exchanged(v, p) ==
  LET upper(i) == (i \div p.step) % 2 = 1
      low(i) == IF upper(i) THEN i - p.step ELSE i
      swap(i) == (v[low(i)] > v[low(i) + p.step]) = ((low(i) \div p.stage) % 2 = 0)
  IN Table([i \in DOMAIN v |-> IF ~swap(i) THEN v[i] ELSE IF upper(i) THEN v[i - p.step] ELSE v[i + p.step]])
\* a row is its thread's own: one step
SortCode == <<Run("sort")>>
SortEffect(k, t, v) ==
  LET n == k.info
      sorted == FoldLeft(Exchanged, [c \in 0..(n.width - 1) |-> At(v[n.in], (t * n.strides[1]) + c)], Network(n.width))
      cell(c) == IF n.descending THEN n.width - 1 - c ELSE c
      row == t * n.strides[2]
  IN IF t >= n.rows THEN Nothing ELSE n.out :> Table([x \in Shift(row, 0..(n.width - 1)) |-> sorted[cell(x - row)]])
==============================================================================

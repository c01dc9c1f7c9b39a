----------------------------- MODULE TensorGraph -----------------------------
(***************************************************************************)
(* A kernel as the lowerer receives it: a graph of TTGIR operations, each  *)
(* with its id, its operands by id and its attributes, and what it means.  *)
(*   args  the function's arguments: [id, ptr, type]                       *)
(*   ops   the operations in order; a loop's body is its "region"          *)
(* A value is a tensor: its shape, its elements in row-major order, and,   *)
(* for a pointer, the array it points into.  Meaning(k) is the memory      *)
(* after every program has run, which is what a template that replaces     *)
(* the kernel must leave behind.                                           *)
(***************************************************************************)
EXTENDS ReduceLowering

Argument(id, ptr, type) == [id |-> id, ptr |-> ptr, type |-> type]
Node(id, op, args, with) == with @@ [id |-> id, op |-> op, args |-> args, region |-> <<>>]
Plainly == [x \in {} |-> x]

\* every operation, those of nested regions after the one that holds them
RECURSIVE Flattened(_)
Flattened(ops) ==
  IF \A i \in DOMAIN ops : ops[i].region = <<>> THEN ops
  ELSE FlattenSeq([i \in DOMAIN ops |-> <<ops[i]>> \o Flattened(ops[i].region)])
\* a fold over a long list, block by block
InBlocks(step(_, _), start, ops) ==
  LET size == 16
      block(c) == SubSeq(ops, ((c - 1) * size) + 1, Bottom(c * size, Len(ops)))
      turn(m, c) == CHOOSE r \in {FoldLeft(step, x, block(c)) : x \in {m}} : TRUE
  IN FoldLeft(turn, start, [c \in 1..CeilDiv(Len(ops), size) |-> c])

\* ---- shapes and element types ------------------------------------------------------
RowMajor(shape) == [d \in DOMAIN shape |-> Product(SubSeq(shape, d + 1, Len(shape)))]
ShapeRule(o, S) ==
  LET of == IF o.args = <<>> \/ o.args[1] \notin DOMAIN S THEN <<>> ELSE S[o.args[1]] IN
  CASE "shape" \in DOMAIN o -> o.shape
    [] o.op = "make_range" -> <<o.end - o.start>>
    [] o.op = "expand_dims" -> SubSeq(of, 1, o.axis) \o <<1>> \o SubSeq(of, o.axis + 1, Len(of))
    [] o.op = "reduce" -> RemoveAt(of, o.axis + 1)
    [] o.op \in {"trans", "memdesc_trans"} -> [d \in DOMAIN of |-> of[o.order[d] + 1]]
    [] o.op = "dot" -> S[o.args[3]]
    [] o.op = "addptr" -> S[o.args[2]]
    [] OTHER -> of
TypeRule(o, T) ==
  CASE "type" \in DOMAIN o -> o.type
    [] o.op \in {"make_range", "program_id", "constant"} -> "i32"
    [] o.op \in {"cmpi", "cmpf"} -> "i1"
    [] o.op = "dot" -> T[o.args[3]]
    [] o.op = "select" -> T[o.args[2]]
    [] o.args = <<>> \/ o.args[1] \notin DOMAIN T -> "none"
    [] OTHER -> T[o.args[1]]
\* ids a loop gives to its induction variable, carried values and results
Blocks(o) == IF o.op = "for" THEN {o.blocks[j] : j \in DOMAIN o.blocks} ELSE {}
InitOf(o, j) == o.args[j + 2]
Typing(rule(_, _), start, ops) ==
  LET step(m, o) ==
        IF o.op = "for"
        THEN [x \in {o.blocks[j] : j \in 2..Len(o.blocks)} |-> m[InitOf(o, CHOOSE j \in DOMAIN o.blocks : o.blocks[j] = x)]]
             @@ [x \in {o.results[j] : j \in DOMAIN o.results} |-> m[InitOf(o, 1 + (CHOOSE j \in DOMAIN o.results : o.results[j] = x))]] @@ m
        ELSE (o.id :> rule(o, m)) @@ m
  IN InBlocks(step, start, Flattened(ops))
GraphOf(args, ops) ==
  [args |-> args, ops |-> ops, all |-> Flattened(ops), node |-> InBlocks(LAMBDA m, o : (o.id :> o) @@ m, <<>>, Flattened(ops)),
   shape |-> Typing(ShapeRule, FoldLeft(LAMBDA m, a : (a.id :> <<>>) @@ m, <<>>, args), ops),
   type |-> Typing(TypeRule, FoldLeft(LAMBDA m, a : (a.id :> a.type) @@ m, <<>>, args), ops)]

\* ---- values ------------------------------------------------------------------------
Tensor(shape, f) == [shape |-> shape, at |-> Table(f), base |-> ""]
Everywhere(shape, x) == Tensor(shape, Filled(Product(shape), x))
Coords(shape, e) == LET s == RowMajor(shape) IN [d \in DOMAIN shape |-> (e \div s[d]) % shape[d]]
FlatIndex(shape, c) == LET s == RowMajor(shape) IN FoldLeft(LAMBDA x, d : x + (c[d] * s[d]), 0, [d \in DOMAIN shape |-> d])
\* the elements of the result, each by where it comes from
Rearranged(a, shape, from(_)) ==
  [a EXCEPT !.shape = shape, !.at = Table([e \in 0..(Product(shape) - 1) |-> a.at[FlatIndex(a.shape, from(Coords(shape, e)))]])]
IntegerOp(o, x) ==
  CASE o.op \in {"addi", "muli", "xori", "andi", "ori", "maxsi", "minsi"} -> Fold2(DirectFold[o.op], x[1], x[2])
    [] NaN \in Range(x) -> NaN
    [] o.op = "subi" -> x[1] - x[2]
    [] o.op = "divsi" -> x[1] \div x[2]
    [] o.op = "remsi" -> x[1] % x[2]
ElementOp(o, x) ==
  CASE o.op \in {"addi", "muli", "xori", "andi", "ori", "maxsi", "minsi", "subi", "divsi", "remsi"} -> IntegerOp(o, x)
    [] o.op = "subf" -> Diff(x[1], x[2])
    [] o.op = "exp" -> Exp(x[1])
    [] o.op \in {"sqrt", "rsqrt"} -> Fn(o.op, x[1])
    [] o.op \in {"truncf", "fp_to_fp"} -> Fn("round", x[1])
    [] o.op \in {"extf", "extsi", "trunci", "extui", "bitcast", "convert_layout", "local_alloc", "local_load", "sitofp"} -> x[1]
    [] o.op = "cmpi" -> Truth(CASE o.pred = "slt" -> x[1] < x[2] [] o.pred = "sge" -> x[1] >= x[2] [] o.pred = "eq" -> x[1] = x[2]
                                 [] o.pred = "ne" -> x[1] # x[2] [] o.pred = "sgt" -> x[1] > x[2])
    [] OTHER -> Apply(o, x)
Reduction(o, ins) ==
  LET shape == RemoveAt(ins[1].shape, o.axis + 1)
      n == ins[1].shape[o.axis + 1]
      cell(e, a) == FlatIndex(ins[1].shape, LET c == Coords(shape, e) IN SubSeq(c, 1, o.axis) \o <<a>> \o SubSeq(c, o.axis + 1, Len(c)))
      line(e) == FoldLeft(LAMBDA x, a : Evaluate(o.combine, x \o [j \in DOMAIN ins |-> ins[j].at[cell(e, a)]]),
                          [j \in DOMAIN ins |-> ins[j].at[cell(e, 0)]], [a \in 1..(n - 1) |-> a])
  IN [j \in DOMAIN ins |-> Tensor(shape, [e \in 0..(Product(shape) - 1) |-> line(e)[j]])]
AxisOf(o) == IF "axis" \in DOMAIN o THEN o.axis ELSE 0
ResultIds(o) == IF "results" \in DOMAIN o THEN o.results ELSE <<o.id>>
Product2(a, b, acc) ==
  LET n == acc.shape[2]
      depth == a.shape[2]
  IN Tensor(acc.shape, [e \in 0..((acc.shape[1] * n) - 1) |->
       Add(acc.at[e], Total([j \in 0..(depth - 1) |-> Mul(a.at[((e \div n) * depth) + j], b.at[(j * n) + (e % n)])]))])
Loaded(ins, m) ==
  LET read(e) == IF Len(ins) = 1 \/ ins[2].at[e] = 1 THEN At(m[ins[1].base], ins[1].at[e])
                 ELSE IF Len(ins) = 3 THEN ins[3].at[e] ELSE NaN
  IN Tensor(ins[1].shape, [e \in DOMAIN ins[1].at |-> read(e)])
Pure(o, ins, g, m) ==
  CASE o.op = "constant" -> Everywhere(o.shape, o.value)
    [] o.op = "program_id" -> Everywhere(<<>>, IF AxisOf(o) = 0 THEN g.x ELSE g.y)
    [] o.op = "make_range" -> Tensor(<<o.end - o.start>>, [e \in 0..(o.end - o.start - 1) |-> o.start + e])
    [] o.op = "splat" -> [ins[1] EXCEPT !.shape = o.shape, !.at = Filled(Product(o.shape), @[0])]
    [] o.op = "reshape" -> [ins[1] EXCEPT !.shape = o.shape]
    [] o.op = "expand_dims" -> [ins[1] EXCEPT !.shape = SubSeq(@, 1, o.axis) \o <<1>> \o SubSeq(@, o.axis + 1, Len(@))]
    [] o.op = "broadcast" -> Rearranged(ins[1], o.shape, LAMBDA c : [d \in DOMAIN c |-> c[d] % ins[1].shape[d]])
    [] o.op \in {"trans", "memdesc_trans"} ->
         Rearranged(ins[1], [d \in DOMAIN o.order |-> ins[1].shape[o.order[d] + 1]],
                    LAMBDA c : [d \in DOMAIN c |-> c[CHOOSE x \in DOMAIN c : o.order[x] = d - 1]])
    [] o.op = "addptr" -> [ins[2] EXCEPT !.base = ins[1].base, !.at = Table([e \in DOMAIN @ |-> @[e] + ins[1].at[IF ins[1].shape = <<>> THEN 0 ELSE e]])]
    [] o.op = "load" -> Loaded(ins, m)
    [] o.op = "dot" -> Product2(ins[1], ins[2], ins[3])
    [] OTHER -> Tensor(ins[1].shape, [e \in DOMAIN ins[1].at |-> ElementOp(o, [j \in DOMAIN ins |-> ins[j].at[e]])])
Whole(x) == IF x \in {NaN, NegInf, -NegInf} THEN x ELSE x % Prime
Writes(ins, float) ==
  LET cells == {e \in DOMAIN ins[1].at : Len(ins) = 2 \/ ins[3].at[e] = 1} IN
  [i \in {ins[1].at[e] : e \in cells} |->
     LET x == ins[2].at[CHOOSE e \in cells : ins[1].at[e] = i] IN IF float THEN Whole(x) ELSE x]

\* ---- running a graph -----------------------------------------------------------------
\* s: the values so far and the memory
RECURSIVE Perform(_, _, _)
Turns(s, o, g) ==
  LET n(j) == s.val[o.args[j]].at[0]
      turn(x, i) ==
        LET entry == [x EXCEPT !.val = (o.blocks[1] :> Everywhere(<<>>, i)) @@ @]
            done == FoldLeft(LAMBDA y, p : Perform(y, p, g), entry, o.region)
            next == Last(o.region).args
        IN [done EXCEPT !.val = FoldLeft(LAMBDA m, j : (o.blocks[j + 1] :> done.val[next[j]]) @@ m, @, [j \in DOMAIN next |-> j])]
      first == [s EXCEPT !.val = FoldLeft(LAMBDA m, j : (o.blocks[j] :> m[InitOf(o, j)]) @@ m, @, [j \in 1..(Len(o.blocks) - 1) |-> j + 1])]
      last == FoldLeft(turn, first, [i \in 1..CeilDiv(n(2) - n(1), n(3)) |-> n(1) + ((i - 1) * n(3))])
  IN [last EXCEPT !.val = FoldLeft(LAMBDA m, j : (o.results[j] :> last.val[o.blocks[j + 1]]) @@ m, @, [j \in DOMAIN o.results |-> j])]
Perform(s, o, g) ==
  LET ins == [j \in DOMAIN o.args |-> s.val[o.args[j]]] IN
  CASE o.op = "for" -> Turns(s, o, g)
    [] o.op = "yield" -> s
    [] o.op = "store" -> [s EXCEPT !.mem[ins[1].base] = Writes(ins, o.float) @@ @]
    [] o.op = "reduce" ->
         LET out == Reduction(o, ins) IN
         [s EXCEPT !.val = FoldLeft(LAMBDA m, j : (ResultIds(o)[j] :> out[j]) @@ m, @, [j \in DOMAIN out |-> j])]
    [] OTHER -> [s EXCEPT !.val = (o.id :> Pure(o, ins, g, s.mem)) @@ @]
\* m0: the arrays, scalars: the values of the other arguments
Ran(G, m0, scalars, g) ==
  LET value(a) == IF a.ptr THEN [shape |-> <<>>, at |-> (0 :> 0), base |-> a.id] ELSE Everywhere(<<>>, scalars[a.id])
      start == [mem |-> m0, val |-> [id \in {a.id : a \in Range(G.args)} |-> value(CHOOSE a \in Range(G.args) : a.id = id)]]
  IN InBlocks(LAMBDA s, o : Perform(s, o, g), start, G.ops).mem
\* the place of program g in a grid k.across wide, or of one row
Place(k, g) == IF "across" \in DOMAIN k THEN [x |-> g % k.across, y |-> g \div k.across] ELSE [x |-> g, y |-> 0]
Meaning(k, m0) ==
  FoldLeft(LAMBDA m, g : Ran(k.graph, m, k.scalars, Place(k, g)), m0, [g \in 1..k.groups |-> g - 1])
==============================================================================

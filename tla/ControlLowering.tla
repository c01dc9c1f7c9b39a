--------------------------- MODULE ControlLowering ---------------------------
(***************************************************************************)
(* The lowering of scf.for, scf.while and scf.if                           *)
(* (codegen/_lowerer_control.py).  k.carries lists the values a loop       *)
(* carries: what each is (pointer, type, shape), where it starts, and the  *)
(* value its yield names.  A yield names another carried value ("arg"), or *)
(* something the body computed: that value and a constant, the induction   *)
(* variable, or the element a carried pointer is at.  The register c holds *)
(* the carried values, nx what the body computed, sn the snapshots.        *)
(***************************************************************************)
EXTENDS ReduceLowering

\* ---- how a value is carried -----------------------------------------------------
Oversized(k, c) == Len(c.shape) >= 2 /\ Product(c.shape) > k.threads
\* one thread holds several elements of a 1-D tile in registers
Multiple(k, c) == k.single /\ Len(c.shape) = 1 /\ Product(c.shape) > k.threads /\ Product(c.shape) % k.threads = 0
Carried(k, j) ==
  LET c == k.carries[j] IN
  CASE c.ptr = "scalar" -> "pointer"
    [] c.ptr = "array" -> "offsets"
    [] Oversized(k, c) /\ k.wrapped -> "element"
    [] Oversized(k, c) -> "shared"
    [] Multiple(k, c) -> "array"
    [] OTHER -> "element"
Lot(k, j) ==
  CASE Carried(k, j) \in {"array", "offsets"} -> Product(k.carries[j].shape) \div k.threads
    [] OTHER -> 1
\* the first result's type widens an integer, never a float
DeclaredType(k, j) ==
  LET own == k.carries[j].type IN IF k.name = "for" /\ k.carries[1].type = "i64" /\ own = "i32" THEN "i64" ELSE own
\* what a variable of that type holds; a float carries a fraction in its last bit
Holds(type, own, x) ==
  LET whole == IF own = "f32" /\ type # "f32" THEN x - (x % 2) ELSE x IN
  IF type = "i32" THEN ((whole + (Word \div 2)) % Word) - (Word \div 2) ELSE IF type = "u32" THEN whole % Word ELSE whole

\* ---- a carried tile in the element loop: only elementwise uses -------------------
ElementwiseOps == {"arith", "math", "convert_layout", "store", "yield", "bitcast", "fp_to_fp", "addptr", "load"}
RECURSIVE TaintWalk(_, _)
TaintOp(st, o) ==
  LET branches == TaintWalk(o.else, TaintWalk(o.region, st))
      yields == {y \in Range(o.region \o o.else) : y.op = "yield"}
      touched == Range(o.args) \cap st.taint # {}
      bounds == Range(SubSeq(o.args, 1, 3))
      carried == {j \in 4..Len(o.args) : o.args[j] \in st.taint}
      flow == CASE o.op = "for" -> UNION {{o.blocks[j - 2], o.results[j - 3]} : j \in carried}
                [] OTHER -> {o.id}
      refuses == touched /\ (IF o.op = "for" THEN bounds \cap st.taint # {} ELSE o.op \notin ElementwiseOps)
      through == IF touched THEN [st EXCEPT !.taint = @ \cup flow] ELSE st
  IN CASE ~st.ok \/ (o.op # "if" /\ refuses) -> [st EXCEPT !.ok = FALSE]
       [] o.op = "if" ->
            IF \E y \in yields : Range(y.args) \cap branches.taint # {}
            THEN [branches EXCEPT !.taint = @ \cup {o.id}] ELSE branches
       [] OTHER -> TaintWalk(o.else, TaintWalk(o.region, through))
TaintWalk(ops, start) == FoldLeft(TaintOp, start, ops)
ElementwiseUse(k) == TaintWalk(k.body, [ok |-> TRUE, taint |-> {"acc"}]).ok

YieldWidth(k, j) == IF k.carries[j].yield.kind = "splat" THEN Lot(k, j) ELSE Lot(k, k.carries[j].yield.from)
ForAdmits(k) ==
  /\ k.bounds # "i64"
  /\ \A j \in DOMAIN k.carries :
       /\ Oversized(k, k.carries[j]) /\ k.wrapped => ElementwiseUse(k)
       /\ Carried(k, j) = "array" => YieldWidth(k, j) = Lot(k, j)
       /\ Carried(k, j) \in {"offsets", "pointer"} => Carried(k, k.carries[j].yield.from) = Carried(k, j)

\* ---- the loop --------------------------------------------------------------------
\* for (k = start; k < end; k += step), whatever the sign the front end started from
ForTrips(k) == IF k.to <= k.start THEN 0 ELSE CeilDiv(k.to - k.start, k.step)
Passes(k) == IF k.wrapped THEN CeilDiv(Product(k.carries[1].shape), k.threads) ELSE 1
Element(k, t, pass, j, e) == IF Lot(k, j) > 1 THEN (t * Lot(k, j)) + e ELSE (pass * k.threads) + t
IsShared(k, j) == Carried(k, j) = "shared"
\* the variables of thread t, in the order they are assigned
Variables(k, t) ==
  FlattenSeq([j \in DOMAIN k.carries |-> IF IsShared(k, j) THEN <<>> ELSE [e \in 1..Lot(k, j) |-> <<t, j, e - 1>>]])
\* the variable of another carried value that goes with c
Beside(k, c, j) == <<c[1], j, Bottom(c[3], Lot(k, j) - 1)>>

\* what a yield computes from the variables f, the memory X and the induction variable
Yielded(k, c, f, X, iv) ==
  LET y == k.carries[c[2]].yield IN
  CASE y.kind = "plus" -> f[Beside(k, c, y.from)] + y.by
    [] y.kind = "index" -> f[Beside(k, c, y.from)] + iv
    [] y.kind = "gather" -> f[Beside(k, c, y.from)] + At(X, f[Beside(k, c, y.at)])
    [] y.kind = "splat" -> y.by
\* an address is an expression, evaluated where it is used; other values are
\* computed where the body stands
IsAddress(k, j) == Carried(k, j) \in {"pointer", "offsets"}
Computed(k, j) == ~IsAddress(k, j) /\ k.carries[j].yield.kind # "arg"
LoopInit(k, pass, t) ==
  [c |-> [x \in Range(Variables(k, t)) |->
     LET c == k.carries[x[2]] IN
     Holds(DeclaredType(k, x[2]), c.type, c.init + (c.spread * Element(k, t, pass, x[2], x[3])))]]
LoopBody(k, trip, t, v) ==
  [nx |-> [x \in {y \in Range(Variables(k, t)) : Computed(k, y[2])} |-> Yielded(k, x, v.c, v.X, k.start + (trip * k.step))]]
\* scf.yield: the next address of every pointer is read before anything is
\* updated; then the variables are assigned one after the other
NextAddress(k, f, c) ==
  LET y == k.carries[c[2]].yield IN f[Beside(k, c, y.from)] + (IF y.kind = "plus" THEN y.by ELSE 0)
Assigned(k, before, v, f, c) ==
  LET j == c[2]
      from == k.carries[j].yield.from
      next == CASE IsAddress(k, j) -> NextAddress(k, before, c)
                [] Computed(k, j) -> Holds(DeclaredType(k, j), k.carries[j].type, v.nx[c])
                [] OTHER -> Holds(DeclaredType(k, j), DeclaredType(k, from), f[Beside(k, c, from)])
  IN [f EXCEPT ![c] = next]
LoopYield(k, t, v) ==
  LET own == [x \in Range(Variables(k, t)) |-> v.c[x]] IN
  [c |-> FoldLeft(LAMBDA f, c : Assigned(k, own, v, f, c), own, Variables(k, t))]

\* a tile carried in threadgroup memory: filled by all, updated through the
\* array the dot writes, copied back before the next trip
SharedCarry(k) == \E j \in DOMAIN k.carries : IsShared(k, j)
SharedSize(k) == Product(k.carries[CHOOSE j \in DOMAIN k.carries : IsShared(k, j)].shape)
LoopCode(k) ==
  LET shared(code) == IF SharedCarry(k) THEN code ELSE <<>>
      trip(n) == <<Do("loopbody", n, 1)>> \o shared(<<Do("dot", n, 1), Barrier>>) \o <<Do("loopyield", n, 1)>>
                 \o shared(<<Do("copyback", n, 1), Barrier>>)
      pass(p) == shared(<<Do("fill", p, 1), Barrier>>) \o <<Do("loopinit", p, 1)>>
                 \o FlattenSeq([n \in 1..ForTrips(k) |-> trip(n - 1)]) \o <<Do("loopresults", p, 1)>>
  IN FlattenSeq([p \in 1..Passes(k) |-> pass(p - 1)])
\* after the loop each result is the variable; a pointer's is loaded through
LoopResults(k, pass, t, v) ==
  LET place(c) == ((c[2] - 1) * k.size) + Element(k, t, pass, c[2], c[3])
      holder(x) == CHOOSE c \in Range(Variables(k, t)) : place(c) = x
      result(c) == IF k.carries[c[2]].ptr = "none" THEN v.c[c] ELSE At(v.X, v.c[c])
  IN [out |-> [x \in {place(c) : c \in Range(Variables(k, t))} |-> result(holder(x))]
              @@ (IF SharedCarry(k) THEN [x \in Strided(t, SharedSize(k), k.threads) |-> v.sh[x]] ELSE <<>>)]

\* ---- scf.while: the condition, then the body, until it fails ------------------------
WhileCode(k) ==
  <<Do("loopinit", 0, 1)>>
  \o FlattenSeq([n \in 1..k.most |-> <<Do("check", n - 1, 1), Do("loopbody", n - 1, 1), Do("loopyield", n - 1, 1)>>])
  \o <<Do("loopresults", 0, 1)>>
Goes(k, f, t) == f[<<t, k.limited, 0>>] < k.limit
\* the yielded pointers have addresses, as many as the variable
WhileAdmits(k) ==
  \A j \in DOMAIN k.carries :
    IsAddress(k, j) => LET from == k.carries[j].yield.from IN Carried(k, from) = Carried(k, j) /\ Lot(k, from) = Lot(k, j)

\* ---- scf.if with results ----------------------------------------------------------
\* k.results: for each its type, whether it is a pointer, whether the branches
\* yield a value from outside them, and the two values
ResultType(k, j) ==
  LET r == k.results[j] IN
  CASE r.ptr -> r.pointee [] r.outside -> r.type [] OTHER -> k.results[1].type
IfAdmits(k) ==
  \A j \in DOMAIN k.results :
    LET r == k.results[j] IN
    /\ r.ptr => r.meta.schema = 1 /\ r.meta.producer = k.id_ /\ r.meta.index = j - 1 /\ r.meta.space = 1 /\ r.meta.known
    /\ ~r.ptr => r.lot = 1 /\ (r.outside \/ k.results[1].type # "unknown")
    /\ r.ptr => "array" \notin r.branches
IfCode(k) == <<Do("choose", 0, 1), Do("ifresults", 0, 1)>>
Chosen(k, g) == g % 2 = 0
IfEffect(k, g, i, t, v) ==
  LET n == Len(k.results)
      value(j) == Picked(k.results[j].then, k.results[j].else, Chosen(k, g)) + (k.results[j].spread * t)
      place(j) == (((g * n) + j - 1) * k.threads) + t
      result(x) == LET j == ((x \div k.threads) % n) + 1 IN IF k.results[j].ptr THEN At(v.X, v.c[<<t, j, 0>>]) ELSE v.c[<<t, j, 0>>]
  IN CASE i.do = "choose" ->
            [c |-> [x \in {<<t, j, 0>> : j \in 1..n} |->
               IF k.results[x[2]].ptr THEN value(x[2]) ELSE Holds(ResultType(k, x[2]), k.results[x[2]].type, value(x[2]))]]
       [] i.do = "ifresults" -> [out |-> [x \in {place(j) : j \in 1..n} |-> result(x)]]

ControlEffect(k, g, i, t, v) ==
  CASE i.do = "loopinit" -> LoopInit(k, i.trip, t)
    [] i.do = "loopbody" -> IF v.stop[t] = 0 THEN LoopBody(k, i.trip, t, v) ELSE Nothing
    [] i.do = "loopyield" -> IF v.stop[t] = 0 THEN LoopYield(k, t, v) ELSE Nothing
    [] i.do = "check" -> Put("stop", t, IF v.stop[t] = 0 /\ Goes(k, v.c, t) THEN 0 ELSE 1)
    [] i.do = "loopresults" -> LoopResults(k, i.trip, t, v)
    [] i.do = "fill" -> [sh |-> [x \in Strided(t, SharedSize(k), k.threads) |-> k.carries[1].init]]
    \* A times A, added to what is carried
    [] i.do = "dot" -> [rs |-> [x \in Strided(t, SharedSize(k), k.threads) |->
                         Add(v.sh[x], Total([a \in 0..(k.side - 1) |-> Mul(v.X[((x \div k.side) * k.side) + a], v.X[(a * k.side) + (x % k.side)])]))]]
    [] i.do = "copyback" -> [sh |-> [x \in Strided(t, SharedSize(k), k.threads) |-> v.rs[x]]]
    [] OTHER -> IfEffect(k, g, i, t, v)

------------------------------------------------------------------------------
(***************************************************************************)
(* The lowering of tt.atomic_rmw and tt.atomic_cas                         *)
(* (codegen/_lowerer_control.py): the contract asked of the operands, the  *)
(* refusals, the guard, the compare-and-swap loops that stand for what the *)
(* hardware has no instruction for, the fences, and the broadcast of a     *)
(* result that only one thread has.                                        *)
(***************************************************************************)
\* ---- what is refused -------------------------------------------------------------
SameLanes(f, r) == f.tensor = r.tensor /\ f.shape = r.shape /\ f.layout = r.layout
AtomicContract(c) ==
  LET r == c.result
      data == IF c.op = "cas" THEN {c.second, c.third} ELSE {c.second}
  IN /\ IF r.tensor THEN r.shape # <<>> /\ (\A d \in Range(r.shape) : d > 0) /\ r.layout # "none"
        ELSE r.shape = <<>> /\ r.layout = "none"
     /\ c.pointer.space = 1 /\ SameLanes(c.pointer, r) /\ c.pointer.pointee = r.sig
     /\ c.op = "rmw" => SameLanes(c.third, r) /\ c.third.sig = "i1"
     /\ \A f \in data : SameLanes(f, r) /\ f.sig = r.sig
RmwOps == {"and", "or", "xor", "add", "fadd", "max", "min", "umax", "umin", "exch"}
\* an ordered atomic needs thread fences, which Metal has from 3.2 on
Fences(k) ==
  LET fence == IF k.scope = "gpu" THEN {"dev", "tg"} ELSE {"tg"} IN
  [before |-> IF k.sem \in {"release", "acq_rel"} THEN fence ELSE {},
   after |-> IF k.sem \in {"acquire", "acq_rel"} THEN fence ELSE {}]
FencesAdmit(k) ==
  /\ k.sem \in {"relaxed", "acquire", "release", "acq_rel"} /\ k.scope \in {"gpu", "cta"}
  /\ k.name = "rmw" => k.op \in RmwOps
  /\ k.sem # "relaxed" => 32 <= k.target /\ k.target <= k.device
Half16(k) == k.type \in {"f16", "bf16"}
RmwTyped(k) ==
  CASE Half16(k) -> k.op \in {"add", "fadd", "max", "min", "exch"}
    [] k.type = "f32" -> k.op \in {"add", "fadd", "exch"}
    [] OTHER -> k.type = "i32"
\* one element per thread: a wider tile would lose its tail
UnderCovered(k) == ~k.single /\ ~k.wrapped /\ k.shape # <<>> /\ k.shape[1] > k.threads
\* a scalar atomic that is not idempotent, in or fed from an element loop
Accumulates(k) == k.name = "rmw" /\ k.shape = <<>> /\ k.op \in {"add", "fadd", "sub", "xor"}
FedBy(ops, id) ==
  LET add(S, n) == LET o == ops[Len(ops) + 1 - n] IN IF o.id \in S THEN S \cup Range(o.args) ELSE S
  IN FoldLeft(add, {id}, [n \in DOMAIN ops |-> n])
LoopedReduce(k) == \E o \in Range(k.ops) : o.id \in FedBy(k.ops, "value") /\ o.op = "for" /\ o.reduces
AtomicAdmits(k) ==
  /\ AtomicContract(k.contract) /\ FencesAdmit(k)
  /\ IF k.name = "rmw" THEN RmwTyped(k) ELSE k.type \in {"f32", "i32"}
  /\ ~UnderCovered(k)
  /\ Accumulates(k) => ~k.wrapped /\ (k.single \/ ~LoopedReduce(k))

\* ---- the code ---------------------------------------------------------------------
AtomicGuard(k, t) ==
  /\ k.shape = <<>> => t = 0
  /\ k.shape # <<>> /\ k.shape[1] < k.threads => t < k.shape[1]
  /\ k.mask[t + 1]
\* one logical result, that lid 0 alone has
Single(k) == k.shape \in {<<>>, <<1>>}
\* the hardware instruction, or a loop around the weak compare-exchange
Looped(k) == k.name = "cas" \/ Half16(k) \/ (k.type = "f32" /\ k.op \in {"add", "fadd"})
OkFlags == <<"ok0", "ok1", "ok2", "ok3">>
AtomicCode(k, t) ==
  LET fence(s) == IF s = {} THEN <<>> ELSE IF AtomicGuard(k, t) THEN <<FenceOf(s)>> ELSE <<Do("idle", 0, 1)>>
      lead == <<Do("before", 0, 1)>> \o fence(Fences(k).before)
      swap == Len(lead) + 2
      body == IF Looped(k) THEN <<Atomic("peek"), Atomic("swap"), BranchUnless(OkFlags[t + 1], swap)>> ELSE <<Atomic("rmw")>>
      share == IF Single(k) THEN <<Do("putold", 0, 1), Barrier, Do("takeold", 0, 1)>> ELSE <<>>
  IN lead \o body \o fence(Fences(k).after) \o share \o <<IF k.then = "claims" THEN Atomic("claims") ELSE Do(k.then, 0, 1)>>
\* two 16-bit elements share the 32-bit word that is swapped
Base16 == 512
HalfOf(w, e) == (w \div (Base16 ^ (e % 2))) % Base16
WithHalf(w, e, x) == w + ((x - HalfOf(w, e)) * (Base16 ^ (e % 2)))
WordOf(k, t) == IF Half16(k) THEN k.cells[t + 1] \div 2 ELSE k.cells[t + 1]
RmwFold(k) ==
  CASE k.op \in {"add", "fadd"} -> IF k.type = "i32" THEN "isum" ELSE "sum"
    [] k.op \in {"max", "min", "umax", "umin", "and", "or", "xor"} -> k.op
    [] OTHER -> "exch"
RmwResult(k, old, value) == IF RmwFold(k) = "exch" THEN value ELSE Fold2(RmwFold(k), old, value)
\* the element as the thread sees it in the word it last read
SeenIn(k, t, w) == IF Half16(k) THEN HalfOf(w, k.cells[t + 1]) ELSE w
Desired(k, t, w) ==
  LET value == k.values[t + 1] IN
  CASE k.name = "cas" -> value
    [] Half16(k) -> WithHalf(w, k.cells[t + 1], RmwResult(k, SeenIn(k, t, w), value))
    [] OTHER -> RmwResult(k, w, value)
\* the weak compare-exchange may fail although the word is what was expected
SwapEffect(k, t, v) ==
  LET now == v.P[WordOf(k, t)]
      spurious == v.tries[t] < k.spurious
      swaps == now = v.expected[t] /\ ~spurious
      \* a compare-and-swap stops on a mismatch, a read-modify-write tries again
      ends == swaps \/ (k.name = "cas" /\ now # k.compare)
      tried == [tries |-> t :> v.tries[t] + 1] @@ (OkFlags[t + 1] :> (0 :> Truth(ends)))
  IN IF swaps THEN tried @@ [P |-> WordOf(k, t) :> Desired(k, t, v.expected[t])] @@ [old |-> t :> SeenIn(k, t, v.expected[t])]
     ELSE tried @@ [expected |-> t :> now] @@ [old |-> t :> SeenIn(k, t, now)]
AtomicEffect(k, g, i, t, v) ==
  CASE i.do = "before" ->
         Merge(Put("old", t, 0), IF k.then = "last" /\ t = 0 THEN Put("part", g, k.values[1] * (g + 1)) ELSE Nothing)
    [] i.do = "idle" -> Nothing
    [] i.do \in {"peek", "swap", "rmw"} /\ ~AtomicGuard(k, t) -> Put(OkFlags[t + 1], 0, 1)
    [] i.do = "peek" -> Put("expected", t, IF k.name = "cas" THEN k.compare ELSE v.P[WordOf(k, t)])
    [] i.do = "swap" -> SwapEffect(k, t, v)
    [] i.do = "rmw" ->
         LET now == v.P[k.cells[t + 1]] IN [P |-> k.cells[t + 1] :> RmwResult(k, now, k.values[t + 1]), old |-> t :> now]
    [] i.do = "putold" -> IF t = 0 THEN Put("one", 0, v.old[0]) ELSE Nothing
    [] i.do = "takeold" -> Put("old", t, v.one[0])
    [] i.do = "keep" -> Put("out", (g * k.threads) + t, v.old[t])
    [] i.do = "drop" -> Nothing
    \* whoever found the value it compared with has swapped
    [] i.do = "claims" -> IF AtomicGuard(k, t) /\ v.old[t] = k.compare THEN Put("once", 0, v.once[0] + 1) ELSE Nothing
    \* the last program to arrive adds what all have written
    [] i.do = "last" ->
         IF t = 0 /\ v.old[0] = k.groups - 1 THEN Put("once", 0, Total(v.part)) ELSE Nothing
==============================================================================

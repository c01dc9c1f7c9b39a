----------------------------- MODULE Threadgroup -----------------------------
(***************************************************************************)
(* The machine that runs a generated compute kernel: a grid of             *)
(* threadgroups, each of k.threads threads in SIMD groups of k.simd lanes, *)
(* with device memory, threadgroup memory and private registers.           *)
(*                                                                         *)
(* A kernel is a list of instructions per thread.  A "run" is executed by  *)
(* one thread at a time, in any interleaving; a "lanes" instruction by all *)
(* lanes of a SIMD group at once, when all have reached it; a barrier by   *)
(* all threads of the group.  What a thread wrote to shared memory may be  *)
(* used by another only after a barrier that orders that memory: until     *)
(* then the cell is dirty, and any other thread reads NaN from it, which   *)
(* is how the outcome of a data race is modelled.  A cell two threads      *)
(* write without a barrier in between, with different values, is NaN.      *)
(* Threadgroups are not ordered with each other at all.                    *)
(*                                                                         *)
(* Kernels is the set of kernels that may be launched; what they are comes *)
(* as constant operators:                                                  *)
(*   Arrays(k)           [dev, tg, reg] initial contents of each memory    *)
(*   Code(k, g, t)       the instructions of thread t of group g           *)
(*   Effect(k, g, i, t, v)  what instruction i writes, given the view v    *)
(*   Wants(k)            the final contents of the output arrays           *)
(***************************************************************************)
EXTENDS MetalMath

CONSTANTS Kernels, Arrays(_), Code(_, _, _), Effect(_, _, _, _, _), Wants(_)

ASSUME KernelAssumption ==
  \A k \in Kernels :
    /\ k.threads \in Nat \ {0} /\ k.simd \in Nat \ {0} /\ k.groups \in Nat
    /\ \A g \in 0..(k.groups - 1), t \in 0..(k.threads - 1) :
         /\ Len(Code(k, g, t)) \in Nat /\ DOMAIN Code(k, g, t) = 1..Len(Code(k, g, t))
         /\ \A j \in DOMAIN Code(k, g, t) :
              Code(k, g, t)[j].kind = "branch" => Code(k, g, t)[j].to \in Nat \ {0}

VARIABLES
  kernel,  \* the kernel that runs: a record with at least threads, simd, groups
  group,   \* the threadgroup that runs, or -1
  left,    \* the threadgroups not started
  pc,      \* the position of each of its threads
  mem,     \* the contents of every array
  dirty,   \* the writes not yet ordered by a barrier
  fault    \* a write out of an array's bounds was made

vars == <<kernel, group, left, pc, mem, dirty, fault>>

Run(d) == [kind |-> "run", do |-> d]
RunAt(d, i) == [kind |-> "run", do |-> d, i |-> i]
Lanes(d) == [kind |-> "lanes", do |-> d]
LanesAt(d, i) == [kind |-> "lanes", do |-> d, i |-> i]
Atomic(d) == [kind |-> "atomic", do |-> d]
\* threadgroup_barrier with the memories it orders, and simdgroup_barrier
Barrier == [kind |-> "barrier", orders |-> {"tg"}]
BarrierOf(s) == [kind |-> "barrier", orders |-> s]
SimdBarrier == [kind |-> "simdbarrier"]
\* atomic_thread_fence: the thread's own writes to those memories are ordered
\* before what it does next (its reader is taken to synchronise with that)
FenceOf(s) == [kind |-> "fence", orders |-> s]
\* go on at instruction "to" when the flag in shared memory is set, is not set
BranchIf(flag, to) == [kind |-> "branch", flag |-> flag, to |-> to, on |-> TRUE]
BranchUnless(flag, to) == [kind |-> "branch", flag |-> flag, to |-> to, on |-> FALSE]

Threads(k) == 0..(k.threads - 1)
Groups(k) == 0..(k.groups - 1)
SimdOf(k, t) == t \div k.simd
LaneOf(k, t) == t % k.simd
SimdCount(k) == CeilDiv(k.threads, k.simd)
LanesOf(k, s) == {t \in Threads(k) : SimdOf(k, t) = s}

Space(a) == IF a \in DOMAIN Arrays(kernel).dev THEN "dev" ELSE "tg"
Private(a) == a \in DOMAIN Arrays(kernel).reg
Self(t) == <<group, t>>
Foreign(d, t) ==
  /\ d.by # Self(t)
  /\ ~(d.synced /\ d.by[1] = group /\ SimdOf(kernel, d.by[2]) = SimdOf(kernel, t))
Unordered(a, i, t) == \E d \in dirty : d.arr = a /\ d.at = i /\ Foreign(d, t)

View(t) ==
  LET hidden == {<<d.arr, d.at>> : d \in {x \in dirty : Foreign(x, t)}}
      racing == {h[1] : h \in hidden}
  IN IF hidden = {} THEN mem
     ELSE Table([a \in DOMAIN mem |->
             IF a \in racing THEN Table([i \in DOMAIN mem[a] |-> IF <<a, i>> \in hidden THEN NaN ELSE mem[a][i]])
             ELSE mem[a]])
\* read with a bound: an address outside the array yields nothing usable
At(f, i) == IF i \in DOMAIN f THEN f[i] ELSE NaN

Merge(e, f) ==
  [a \in DOMAIN e \cup DOMAIN f |->
     CASE a \notin DOMAIN f -> e[a]
       [] a \notin DOMAIN e -> f[a]
       [] OTHER -> e[a] @@ f[a]]

\* what threads write together, es[t] by t: the first thread's where they meet
Touches(e, a, i) == a \in DOMAIN e /\ i \in DOMAIN e[a]
Joint(es) ==
  LET first(a, i) ==
        CHOOSE t \in DOMAIN es : Touches(es[t], a, i) /\ \A u \in DOMAIN es : u < t => ~Touches(es[u], a, i)
  IN [a \in UNION {DOMAIN es[t] : t \in DOMAIN es} |->
        [i \in UNION {DOMAIN es[t][a] : t \in {u \in DOMAIN es : a \in DOMAIN es[u]}} |-> es[first(a, i)][a][i]]]

\* thread t's writes e reach memory
Settle(e, t, a, i) ==
  IF Unordered(a, i, t) /\ mem[a][i] # e[a][i] THEN NaN ELSE e[a][i]
After(m, e, t) ==
  [a \in DOMAIN m |->
     IF a \in DOMAIN e
     THEN [i \in DOMAIN m[a] |-> IF i \in DOMAIN e[a] THEN Settle(e, t, a, i) ELSE m[a][i]]
     ELSE m[a]]
Marks(e, t) ==
  UNION {{[arr |-> a, at |-> i, by |-> Self(t), synced |-> FALSE] : i \in DOMAIN e[a]} :
           a \in {b \in DOMAIN e : ~Private(b)}}
Escapes(e) == \E a \in DOMAIN e : ~(DOMAIN e[a] \subseteq DOMAIN mem[a])

\* what instruction i of thread t writes: for each array, its cells
Tabled(e) == Table([a \in DOMAIN e |-> Table(e[a])])
Written(i, t, v) == Tabled(Effect(kernel, group, i, t, v))

Next_(t) == Code(kernel, group, t)[pc[t]]
Ended(t) == pc[t] > Len(Code(kernel, group, t))
Awaits(t, kind) == ~Ended(t) /\ Next_(t).kind = kind
Idle == -1

\* threadgroup memory and registers, and all memory, before anything is written
Locals(k) == Overlay(Arrays(k).tg, Arrays(k).reg)
Fresh(k) == Overlay(Arrays(k).dev, Locals(k))

Start(k) ==
  /\ kernel = k
  /\ group = Idle /\ pc = <<>>
  /\ left = Groups(kernel)
  /\ mem = Fresh(kernel)
  /\ dirty = {} /\ fault = FALSE

\* a threadgroup starts with fresh threadgroup memory and registers
Begin(g) ==
  /\ group = Idle /\ g \in left
  /\ group' = g /\ left' = left \ {g}
  /\ pc' = [t \in Threads(kernel) |-> 1]
  /\ mem' = Overlay(Locals(kernel), mem)
  /\ dirty' = {d \in dirty : d.arr \in DOMAIN Arrays(kernel).dev}
  /\ UNCHANGED <<kernel, fault>>

\* What executes one instruction together: a thread, or all lanes of a SIMD
\* group.  A SIMD group that is not full has lanes whose registers nobody defines.
Units ==
  {{t} : t \in {u \in DOMAIN pc : Awaits(u, "run") \/ Awaits(u, "atomic")}}
  \cup {L \in {LanesOf(kernel, SimdOf(kernel, t)) : t \in {u \in DOMAIN pc : LaneOf(kernel, u) = 0 /\ Awaits(u, "lanes")}} :
          \A t \in L : Awaits(t, "lanes")}

\* an atomic read-modify-write of shared memory sees the latest value and
\* leaves nothing unordered
Step(T) ==
  LET lead == CHOOSE t \in T : \A u \in T : t <= u
      atomic == Awaits(lead, "atomic")
  IN /\ \E v \in {Table([t \in T |-> IF atomic THEN mem ELSE View(t)])} :
        \E es \in {Table([t \in T |-> Written(Next_(t), t, v[t])])} :
        \E e \in {Tabled(Joint(es))} :
          /\ mem' = IF atomic THEN Merge(e, mem) ELSE After(mem, e, lead)
          /\ dirty' = IF atomic THEN dirty ELSE dirty \cup UNION {Marks(es[t], t) : t \in T}
          /\ fault' = (fault \/ Escapes(e))
     /\ pc' = [t \in DOMAIN pc |-> IF t \in T THEN pc[t] + 1 ELSE pc[t]]
     /\ UNCHANGED <<kernel, group, left>>

\* an atomic read of a flag decides where a thread continues
Branch(t) ==
  /\ Awaits(t, "branch")
  /\ pc' = [pc EXCEPT ![t] = IF (mem[Next_(t).flag][0] # 0) = Next_(t).on THEN Next_(t).to ELSE @ + 1]
  /\ UNCHANGED <<kernel, group, left, mem, dirty, fault>>

Fence(t) ==
  /\ Awaits(t, "fence")
  /\ dirty' = {d \in dirty : d.by # Self(t) \/ Space(d.arr) \notin Next_(t).orders}
  /\ pc' = [pc EXCEPT ![t] = @ + 1]
  /\ UNCHANGED <<kernel, group, left, mem, fault>>

SimdSync(s) ==
  LET L == LanesOf(kernel, s) IN
  /\ \A t \in L : Awaits(t, "simdbarrier")
  /\ dirty' = {IF d.by[1] = group /\ d.by[2] \in L THEN [d EXCEPT !.synced = TRUE] ELSE d : d \in dirty}
  /\ pc' = [t \in DOMAIN pc |-> IF t \in L THEN pc[t] + 1 ELSE pc[t]]
  /\ UNCHANGED <<kernel, group, left, mem, fault>>

\* every thread of the group must reach the barrier
Sync ==
  /\ group # Idle
  /\ \A t \in Threads(kernel) : Awaits(t, "barrier") /\ pc[t] = pc[0]
  /\ dirty' = {d \in dirty : d.by[1] # group \/ Space(d.arr) \notin Next_(0).orders}
  /\ pc' = [t \in DOMAIN pc |-> pc[t] + 1]
  /\ UNCHANGED <<kernel, group, left, mem, fault>>

Finish ==
  /\ group # Idle
  /\ \A t \in Threads(kernel) : Ended(t)
  /\ group' = Idle /\ pc' = <<>>
  /\ mem' = Overlay(Locals(kernel), mem)
  /\ dirty' = {d \in dirty : d.arr \in DOMAIN Arrays(kernel).dev}
  /\ UNCHANGED <<kernel, left, fault>>

Done == group = Idle /\ left = {}
Stay == Done /\ UNCHANGED vars

Next ==
  \/ \E g \in left : Begin(g)
  \/ \E T \in Units : Step(T)
  \/ \E t \in DOMAIN pc : Branch(t)
  \/ \E t \in DOMAIN pc : Fence(t)
  \/ \E s \in 0..(SimdCount(kernel) - 1) : group # Idle /\ SimdSync(s)
  \/ Sync
  \/ Finish
  \/ Stay

Init == \E k \in Kernels : Start(k)
Spec == Init /\ [][Next]_vars

\* When every threadgroup has ended, each output cell with a promise (Wants, from
\* the template's documentation) holds it, whatever the order in which threads,
\* SIMD groups and threadgroups ran: no element is missed, counted twice, taken
\* from the wrong place, or read before the barrier that orders its write (a
\* racing read is NaN, and no output may depend on one).
OutputsRight ==
  Done => \A want \in {Wants(kernel)} : \A a \in DOMAIN want : \A x \in DOMAIN want[a] :
            mem[a][x] = want[a][x] /\ (mem[a][x] = NaN => kernel.poison)
\* No thread writes beyond an array, also when the size is no multiple of the
\* block: the mask of a store, the early return of a surplus thread, the clipped
\* tile.
InBounds == ~fault
\* No thread waits at a barrier while another waits at a different one or has
\* returned: a barrier under a branch that not every thread of the group takes,
\* which is what an early return or a per-thread loop bound would make of it.
Convergent ==
  \A t, u \in DOMAIN pc : Awaits(t, "barrier") /\ (Awaits(u, "barrier") \/ Ended(u)) => pc[t] = pc[u]

\* Code that can do no such thing: the threads of a group have their barriers at the
\* same places, and a branch goes nowhere but to a place between the same two.
BarrierAt(k, g, t, j) == j \in DOMAIN Code(k, g, t) /\ Code(k, g, t)[j].kind = "barrier"
Clear(k, g, t, i, j) == \A m \in i..(j - 1) : ~BarrierAt(k, g, t, m)
Orderly(k) ==
  \A g \in Groups(k), t \in Threads(k) : \A j \in DOMAIN Code(k, g, t) :
    /\ BarrierAt(k, g, t, j) => \A u \in Threads(k) : BarrierAt(k, g, u, j)
    /\ Code(k, g, t)[j].kind = "branch" =>
         Clear(k, g, t, j, Code(k, g, t)[j].to) /\ Clear(k, g, t, Code(k, g, t)[j].to, j)

------------------------------------------------------------------------------
(***************************************************************************)
(* The code-generation helpers of KernelBuilder (codegen/msl_emitter.py)   *)
(* that every builder-made template is put together from: block offsets,   *)
(* the bounds mask, masked load and store, the scalar operations, and the  *)
(* two-level threadgroup reduction.                                        *)
(***************************************************************************)
\* offsets = pid * BLOCK_SIZE + lid, and its mask
BlockOffset(k, g, t) == (g * k.threads) + t
\* a mutant: a bound that lets one element too many through
MaskInclusive(k, off) == off <= k.n
Mask(k, off) == off < k.n

\* the compute type is float; a half store rounds, a load is exact
Cast(k, x) == IF k.half THEN Fn("round", x) ELSE x
Load(k, f, off) == IF Mask(k, off) THEN At(f, off) ELSE 0
Store(k, a, off, x) == IF Mask(k, off) THEN Put(a, off, Cast(k, x)) ELSE Nothing

BinaryOps == {"add", "sub", "mul", "div"}
BinaryOp(op, a, b) ==
  CASE op = "add" -> Add(a, b)
    [] op = "sub" -> Sub(a, b)
    [] op = "mul" -> Mul(a, b)
    [] op = "div" -> Div(a, b)
UnaryOp(op, x) ==
  CASE op = "neg" -> Sub(0, x)
    [] op = "exp" -> Exp(x)
    [] op = "sigmoid" -> Div(1, Add(1, Exp(Diff(0, x))))
    [] OTHER -> Fn(op, x)
FusedOp(op, a) ==
  CASE op = "fma" -> Add(Mul(a[1], a[2]), a[3])
    [] op = "silu" -> Div(a[1], Add(1, Exp(Diff(0, a[1]))))
    [] OTHER -> Fn("gelu", a[1])

Regs(k, names) == [a \in names |-> Filled(k.threads, NaN)]
ReduceRegs == {"acc", "part", "read", "total"}
\* the elements thread t visits in a loop strided by the block size
Mine(k, t, n) == Strided(t, n, k.threads)
Shift(base, S) == {base + c : c \in S}

\* a SIMD intrinsic over the whole SIMD group; a lane that does not exist
\* contributes an undefined value
SimdOp(k, op, f, t) ==
  Combine(op, [u \in (SimdOf(k, t) * k.simd)..(((SimdOf(k, t) + 1) * k.simd) - 1) |-> At(f, u)])

\* threadgroup_reduce(op, val, shared, out): refused when the last SIMD
\* group is partial, otherwise lanes -> shared -> lanes
ReduceAdmits(k) == ~(k.threads > k.simd /\ k.threads % k.simd # 0)
ReducePart(d, kind, op, val, sh, out) ==
  [kind |-> kind, do |-> d, op |-> op, val |-> val, sh |-> sh, out |-> out]
Reduce(op, val, sh, out) ==
  <<ReducePart("part", "lanes", op, val, sh, out), Barrier,
    ReducePart("init", "run", op, val, sh, out), Barrier,
    ReducePart("lead", "run", op, val, sh, out), Barrier,
    ReducePart("read", "run", op, val, sh, out),
    ReducePart("total", "lanes", op, val, sh, out)>>
ReduceSteps == {"part", "init", "lead", "read", "total", "publish"}
\* a reduction and the idiom that follows it: lid 0 publishes the total in
\* the first shared slot, and a barrier
Published(op, val, sh, out) ==
  Reduce(op, val, sh, out) \o <<ReducePart("publish", "run", op, val, sh, out), Barrier>>
PublishEffect(i, t, v) == IF t = 0 THEN Put(i.sh, 0, v[i.out][0]) ELSE Nothing
ReduceEffect(k, i, t, v) ==
  LET lane == LaneOf(k, t) IN
  CASE i.do = "part" -> Put("part", t, SimdOp(k, i.op, v[i.val], t))
    [] i.do = "init" ->
         IF SimdOf(k, t) = 0 /\ lane < SimdCount(k) THEN Put(i.sh, lane, Identity(i.op)) ELSE Nothing
    [] i.do = "lead" -> IF lane = 0 THEN Put(i.sh, SimdOf(k, t), v.part[t]) ELSE Nothing
    [] i.do = "read" -> Put("read", t, IF lane < SimdCount(k) THEN v[i.sh][lane] ELSE Identity(i.op))
    [] i.do = "total" -> Put(i.out, t, SimdOp(k, i.op, v.read, t))
    [] i.do = "publish" -> PublishEffect(i, t, v)

\* The ordered (cmp/select) reduction.  Its combine keeps one of its operands;
\* operands that compare equal (the two zeros: 2n and 2n+1 here) and NaNs make
\* the choice depend on the operands' order, which is kept: shuffles between
\* adjacent ranges, then one thread folds the SIMD groups' results in order.
FloatLess(x, y) == Quiet \notin {x, y} /\ (x \div 2) < (y \div 2)
FloatEqual(x, y) == Quiet \notin {x, y} /\ (x \div 2) = (y \div 2)
FloatCompare(pred, x, y) ==
  CASE pred = "ogt" -> FloatLess(y, x)
    [] pred = "oge" -> FloatLess(y, x) \/ FloatEqual(x, y)
    [] pred = "olt" -> FloatLess(x, y)
    [] pred = "ole" -> FloatLess(x, y) \/ FloatEqual(x, y)
    [] pred = "oeq" -> FloatEqual(x, y)
    [] pred = "une" -> ~FloatEqual(x, y)
OrderedCombine(op, x, y) ==
  LET chosen == \/ FloatCompare(op.pred, x, y)
                \/ op.nan = "a" /\ x = Quiet
                \/ op.nan = "b" /\ y = Quiet
  IN IF NaN \in {x, y} THEN NaN ELSE Picked(x, y, chosen <=> op.side = "a")
OrderedAdmits(k) == 2 * k.threads = k.simd \/ (k.threads >= k.simd /\ k.threads % k.simd = 0)
OrderedOffsets(k) == SelectSeq(<<1, 2, 4, 8, 16>>, LAMBDA o : o < Bottom(k.threads, k.simd))
OrderedPart(d, kind, op, i) == [kind |-> kind, do |-> d, op |-> op, i |-> i]
OrderedReduce(k, op) ==
  [j \in DOMAIN OrderedOffsets(k) |-> OrderedPart("shuffle", "lanes", op, OrderedOffsets(k)[j])]
  \o <<Barrier, OrderedPart("orderedlead", "run", op, 0), Barrier, OrderedPart("orderedfold", "run", op, 0), Barrier,
       OrderedPart("orderedread", "run", op, 0)>>
OrderedSteps == {"shuffle", "orderedlead", "orderedfold", "orderedread"}
OrderedEffect(k, i, t, v) ==
  LET lane == LaneOf(k, t)
      last == Bottom(k.threads, k.simd) - 1
      right == v.acc[(SimdOf(k, t) * k.simd) + Bottom(lane + i.i, last)]
      pair(x, y) == OrderedCombine(i.op, x, y)
  IN CASE i.do = "shuffle" ->
            IF lane % (2 * i.i) = 0 THEN Put("acc", t, pair(v.acc[t], right)) ELSE Nothing
       [] i.do = "orderedlead" -> IF lane = 0 THEN Put("shared", SimdOf(k, t), v.acc[t]) ELSE Nothing
       [] i.do = "orderedfold" ->
            IF t = 0
            THEN Put("shared", 0, FoldLeft(pair, v.shared[0], [s \in 1..(SimdCount(k) - 1) |-> v.shared[s]]))
            ELSE Nothing
       [] i.do = "orderedread" -> Put("total", t, v.shared[0])
==============================================================================

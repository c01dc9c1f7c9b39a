------------------------------- MODULE HostRoute -------------------------------
(***************************************************************************)
(* The host route of MetalLauncher.__call__ (backend/driver.py): tensors   *)
(* are grouped by their storage, every storage is wrapped in place or      *)
(* copied whole into one buffer of the pool, every argument is bound at    *)
(* its own offset in it, the kernel runs, what it may have written is      *)
(* copied back and the buffers are released.                               *)
(*                                                                         *)
(* A place is an address of memory, <<None, a>>, or of a buffer, <<b, i>>. *)
(* A kernel is the list of its stores: each reads one place, changes the   *)
(* value and stores it in another.  It stays inside the storages of its    *)
(* arguments, before and after the base of a view, and stores through      *)
(* output arguments only.                                                  *)
(***************************************************************************)
EXTENDS BufferPool

CONSTANTS
  Cells,       \* addresses of memory
  Top,         \* the largest value; odd ones are too precise for fp32
  Launches,    \* argument lists with their kernels
  Page,        \* ARM64 page, a power of two
  Limit,       \* _HOST_MIRROR_MAX_BYTES
  MaxLaunches  \* bound: launches in a behaviour

Values == 0 .. Top

\* A storage: where it is, how long it is, whether it is of the MPS device.
Storages == [base : Nat, size : Nat \ {0}, mps : BOOLEAN]
Cell(s) == s.base .. s.base + s.size - 1

\* "raw" tensors are bound byte for byte, "double" ones converted to fp32.  full:
\* the view is its whole contiguous storage.  "scalar" and "opaque" have none.
Argument(a) ==
  \/ a.kind \in {"scalar", "opaque"}
  \/ /\ a.kind \in {"raw", "double"}
     /\ a.storage \in Storages
     /\ Cell(a.storage) \subseteq Cells
     /\ a.offset \in Nat
     /\ a.elem \in Nat \ {0}
     /\ a.full \in BOOLEAN

Tensors(l) == {i \in DOMAIN l.args : l.args[i].kind \in {"raw", "double"}}
Raws(l) == {i \in Tensors(l) : l.args[i].kind = "raw"}

\* outputs: indices from the lowerer, all of them if it gave none.
Outputs(l) == IF l.outputs = None THEN DOMAIN l.args ELSE l.outputs

\* Where element p[2] of argument p[1] is in its storage.
Index(l, p) == l.args[p[1]].offset * l.args[p[1]].elem + p[2]
Reaches(l, p) == p[1] \in Tensors(l) /\ Index(l, p) \in 0 .. l.args[p[1]].storage.size - 1

ASSUME LaunchAssumption ==
  \A l \in Launches :
    /\ l # None
    /\ Len(l.args) \in Nat /\ DOMAIN l.args = 1 .. Len(l.args)
    /\ \A i \in DOMAIN l.args : Argument(l.args[i])
    /\ Outputs(l) \subseteq DOMAIN l.args
    /\ Len(l.ops) \in Nat /\ DOMAIN l.ops = 1 .. Len(l.ops)
    /\ \A k \in DOMAIN l.ops :
         Reaches(l, l.ops[k].to) /\ l.ops[k].to[1] \in Outputs(l) /\ Reaches(l, l.ops[k].from)

ASSUME CellsAssumption == Cells \subseteq Nat
ASSUME BoundAssumption == {Top, Page, Limit, MaxLaunches} \subseteq Nat

VARIABLES
  pc,        \* pc[t]: next step of t's launch
  launch,    \* launch[t]: what it launches, or None
  left,      \* left[t]: arguments, or stores, that the loop it is in has yet to come to
  bound,     \* bound[t]: the buffer of each argument, None for memory wrapped in place
  ram,       \* contents of memory and buffers
  before,    \* before[t]: memory when the launch began (history)
  promise,   \* promise[t]: what its storages must hold when it ends (history)
  launches   \* launches so far

vars == <<pool, pc, launch, left, bound, ram, before, promise, launches>>

Steps == {"idle", "group", "mirror", "acquire", "copyin", "kernel", "copyback", "release"}
Memory == {None} \X Cells
Bytes == UNION {0 .. l[2] - 1 : l \in Lists}
RamPlaces == Memory \cup (Buffers \X Bytes)

--------------------------------------------------------------------------------
\* Grouping.

Touched(l) == UNION {Cell(l.args[i].storage) : i \in Tensors(l)}
Written(l) == UNION {Cell(l.args[i].storage) : i \in Tensors(l) \cap Outputs(l)}

\* Mutant: two views of a storage at different offsets are different groups.
SameView(l, i, j) ==
  l.args[i].storage = l.args[j].storage /\ l.args[i].offset = l.args[j].offset

\* storage_groups: arguments with the same device, address and length of storage.
SameKey(l, i, j) == l.args[i].storage = l.args[j].storage

\* An fp32 copy or a scalar is by itself.
Members(l, i) == IF i \in Raws(l) THEN {j \in Raws(l) : SameKey(l, i, j)} ELSE {i}

IsOutput(l, i) == Members(l, i) \cap Tensors(l) \cap Outputs(l) # {}

\* Groups come first, each at its first member, then fp32 copies and scalars.
Precedes(l, i, j) == IF i \in Raws(l) THEN j \in Raws(l) => i < j ELSE j \notin Raws(l) /\ i < j
Turn(l, S) == {i \in S : \A j \in S \ {i} : Precedes(l, i, j)}

\* An fp64 argument that shares its storage with another, before or after it.
AliasOf(l, i) == \E j \in Tensors(l) \ {i} : l.args[i].storage = l.args[j].storage

\* What the loop that groups the arguments refuses.
Inexpressible(l) ==
  \E i \in DOMAIN l.args :
    LET a == l.args[i] IN
    \/ a.kind = "opaque"
    \/ a.kind = "double" /\ (~a.full \/ AliasOf(l, i))
    \/ a.kind = "raw" /\ a.offset * a.elem >= a.storage.size

\* What is refused when the group's turn comes.
TooLarge(l, i) ==
  LET a == l.args[i] IN
  \/ a.storage.size > Limit /\ ~(Cardinality(Members(l, i)) = 1 /\ a.full)
  \/ a.storage.size % a.elem # 0

\* Metal's contract for wrapping memory in place.
Wraps(s) == ~s.mps /\ s.base % Page = 0 /\ s.size % Page = 0 /\ s.size >= Page

InPlace(l, i) == i \in Raws(l) /\ Wraps(l.args[i].storage)

SizeClass(n) == CHOOSE c \in {Page * 2^k : k \in 0 .. n} :
  c >= n /\ (c = Page \/ c < 2 * n)

ListOf(l, i) ==
  IF l.args[i].kind = "scalar" THEN <<"scalar", 4>> ELSE <<"page", SizeClass(l.args[i].storage.size)>>

\* The pool's lists are made on demand (defaultdict); here they are given.  A
\* storage fits in a buffer of its class.
ASSUME SizeAssumption ==
  /\ \A n \in Lists : n[2] \in Nat
  /\ \A l \in Launches : \A i \in DOMAIN l.args : l.args[i].kind # "opaque" =>
       /\ ListOf(l, i) \in Lists
       /\ i \in Tensors(l) => l.args[i].storage.size <= ListOf(l, i)[2]

--------------------------------------------------------------------------------
\* Execution.

\* fp64 to fp32.
Narrow(v) == v - (v % 2)

\* What a store makes of the value it has read.
Change(v) == IF v = Top THEN 0 ELSE v + 1

\* Mutant: the kernel is given the address of the storage, mirrored or not.
PlaceUnmirrored(l, b, p) == <<None, l.args[p[1]].storage.base + Index(l, p)>>

\* storage_bindings: where element p[2] of argument p[1] is, in place or mirrored.
Place(l, b, p) ==
  IF b[p[1]] = None THEN <<None, l.args[p[1]].storage.base + Index(l, p)>>
  ELSE <<b[p[1]], Index(l, p)>>

\* Where the program means it to be.
Meant(l, p) == l.args[p[1]].storage.base + Index(l, p)

Doubles(l) == UNION {Cell(l.args[i].storage) : i \in Tensors(l) \ Raws(l)}

\* Memory with the doubles of l narrowed, on which its stores are meant to run.
Narrowed(l) == [c \in Cells |-> IF c \in Doubles(l) THEN Narrow(ram[<<None, c>>]) ELSE ram[<<None, c>>]]

Now == [c \in Cells |-> ram[<<None, c>>]]

--------------------------------------------------------------------------------

HostInit ==
  /\ PoolInit
  /\ pc = [t \in Threads |-> "idle"]
  /\ launch = [t \in Threads |-> None]
  /\ left = [t \in Threads |-> {}]
  /\ bound = [t \in Threads |-> <<>>]
  /\ ram = [p \in RamPlaces |-> IF p[1] = None THEN p[2] % (Top + 1) ELSE 0]
  /\ before = [t \in Threads |-> None]
  /\ promise = [t \in Threads |-> None]
  /\ launches = 0

Goto(t, step) == pc' = [pc EXCEPT ![t] = step]
Leave(t, S) == left' = [left EXCEPT ![t] = S]

Finish(t) ==
  /\ Goto(t, "idle")
  /\ launch' = [launch EXCEPT ![t] = None]
  /\ Leave(t, {})
  /\ bound' = [bound EXCEPT ![t] = <<>>]
  /\ before' = [before EXCEPT ![t] = None]
  /\ promise' = [promise EXCEPT ![t] = None]
  /\ UNCHANGED launches

\* An exception: what is in memory stays there, buffers are not released.
Fail(t) == Finish(t) /\ Unwind(t) /\ UNCHANGED ram

\* Launches that overlap in time do not write what the other uses.
Apart(l) ==
  \A u \in Threads : launch[u] # None =>
    /\ Written(l) \cap Touched(launch[u]) = {}
    /\ Written(launch[u]) \cap Touched(l) = {}

Begin(t) ==
  /\ pc[t] = "idle"
  /\ launches < MaxLaunches
  /\ launches' = launches + 1
  /\ \E l \in Launches :
       /\ Apart(l)
       /\ launch' = [launch EXCEPT ![t] = l]
  /\ before' = [before EXCEPT ![t] = Now]
  /\ promise' = [promise EXCEPT ![t] = Now]
  /\ Goto(t, "group")
  /\ UNCHANGED <<pool, left, bound, ram>>

Group(t) ==
  /\ pc[t] = "group"
  /\ IF Inexpressible(launch[t])
     THEN Fail(t)
     ELSE /\ Goto(t, "mirror") /\ Leave(t, DOMAIN launch[t].args)
          /\ bound' = [bound EXCEPT ![t] = [i \in DOMAIN launch[t].args |-> None]]
          /\ UNCHANGED <<pool, launch, ram, before, promise, launches>>

\* The turn of a group has passed.
Past(t, l, i) == Leave(t, left[t] \ Members(l, i))

\* The next group is wrapped in place or gets a buffer.  Metal may not wrap it,
\* and an MPS storage may not be readable.
MirrorOne(t, l, i) ==
  \/ /\ i \in Raws(l)
     /\ TooLarge(l, i) \/ InPlace(l, i) \/ l.args[i].storage.mps
     /\ Fail(t)
  \/ /\ i \in Raws(l) => ~TooLarge(l, i)
     /\ IF InPlace(l, i)
        THEN Past(t, l, i) /\ UNCHANGED <<pool, pc>>
        ELSE Look(t, ListOf(l, i)) /\ Goto(t, "acquire") /\ UNCHANGED left
     /\ UNCHANGED <<launch, bound, ram, before, promise, launches>>

Mirror(t) ==
  /\ pc[t] = "mirror"
  /\ \/ \E i \in Turn(launch[t], left[t]) : MirrorOne(t, launch[t], i)
     \/ /\ left[t] = {}
        /\ Goto(t, "kernel") /\ Leave(t, DOMAIN launch[t].ops)
        /\ promise' = [promise EXCEPT ![t] = Narrowed(launch[t])]
        /\ UNCHANGED <<pool, launch, bound, ram, before, launches>>

Acquire(t) ==
  /\ pc[t] = "acquire"
  /\ \/ /\ Pop(t) \/ Map(t)
        /\ Goto(t, "copyin")
        /\ UNCHANGED <<launch, left, bound, before, promise, launches>>
     \/ (PopEmpty(t) \/ MapFails(t)) /\ Finish(t)
  /\ UNCHANGED ram

\* memmove of the complete storage, or of arg.float().
CopyOf(l, i, b) ==
  LET a == l.args[i] IN
  [p \in RamPlaces |->
     IF i \in Tensors(l) /\ p[1] = b /\ p[2] < a.storage.size
     THEN LET v == ram[<<None, a.storage.base + p[2]>>] IN IF i \in Raws(l) THEN v ELSE Narrow(v)
     ELSE ram[p]]

\* Every member of the group is bound to the buffer.
CopyIn(t) ==
  LET l == launch[t] IN
  /\ pc[t] = "copyin"
  /\ \E i \in Turn(l, left[t]), b \in held[t] :
       /\ \A j \in DOMAIN l.args : bound[t][j] # b
       /\ ram' = CopyOf(l, i, b)
       /\ bound' = [bound EXCEPT ![t] =
            [j \in DOMAIN l.args |-> IF j \in Members(l, i) THEN b ELSE bound[t][j]]]
       /\ Past(t, l, i)
  /\ Goto(t, "mirror")
  /\ UNCHANGED <<pool, launch, before, promise, launches>>

\* The next store of the kernel.
Store(t, l, k) ==
  LET to == l.ops[k].to
      from == l.ops[k].from IN
  /\ ram' = [ram EXCEPT ![Place(l, bound[t], to)] = Change(ram[Place(l, bound[t], from)])]
  /\ promise' = [promise EXCEPT ![t][Meant(l, to)] = Change(promise[t][Meant(l, from)])]
  /\ Leave(t, left[t] \ {k})
  /\ UNCHANGED <<pool, pc, launch, bound, before, launches>>

\* The command buffer goes on, completes, or fails or reports a failed assertion
\* after any of the stores.  A double that is not an output keeps its value.
Kernel(t) ==
  LET l == launch[t] IN
  /\ pc[t] = "kernel"
  /\ \/ \E k \in left[t] : (\A j \in left[t] : k <= j) /\ Store(t, l, k)
     \/ /\ left[t] = {}
        /\ promise' = [promise EXCEPT ![t] =
             [c \in Cells |-> IF c \in Doubles(l) \ Written(l) THEN before[t][c] ELSE promise[t][c]]]
        /\ Goto(t, "copyback") /\ Leave(t, DOMAIN l.args)
        /\ UNCHANGED <<pool, launch, bound, ram, before, launches>>
     \/ Fail(t)

\* tensor_copies: an output group that is not wrapped in place.
Returns(l, i, b) == IsOutput(l, i) /\ b # None

\* memmove into the complete storage.
CopyTo(s, b) ==
  [p \in RamPlaces |-> IF p[1] = None /\ p[2] \in Cell(s) THEN ram[<<b, p[2] - s.base>>] ELSE ram[p]]

\* The next entry; the copy into an MPS or fp64 tensor may raise.
CopyBackOne(t, l, i, b) ==
  \/ /\ ram' = IF Returns(l, i, b) THEN CopyTo(l.args[i].storage, b) ELSE ram
     /\ Past(t, l, i)
     /\ UNCHANGED <<pool, pc, launch, bound, before, promise, launches>>
  \/ /\ Returns(l, i, b)
     /\ i \notin Raws(l) \/ l.args[i].storage.mps
     /\ Fail(t)

CopyBack(t) ==
  /\ pc[t] = "copyback"
  /\ \/ \E i \in Turn(launch[t], left[t]) : CopyBackOne(t, launch[t], i, bound[t][i])
     \/ /\ left[t] = {}
        /\ Goto(t, "release") /\ Leave(t, DOMAIN launch[t].args)
        /\ UNCHANGED <<pool, launch, bound, ram, before, promise, launches>>

ReleaseOne(t, l, i, b) ==
  /\ \/ b = None /\ UNCHANGED pool
     \/ b # None /\ (Offer(t, b) \/ Keep(t))
  /\ IF at'[t] = "out" THEN Past(t, l, i) ELSE UNCHANGED left
  /\ UNCHANGED <<pc, launch, bound, before, promise, launches>>

Release(t) ==
  /\ pc[t] = "release"
  /\ \/ \E i \in Turn(launch[t], left[t]) : ReleaseOne(t, launch[t], i, bound[t][i])
     \/ left[t] = {} /\ Finish(t) /\ UNCHANGED pool
  /\ UNCHANGED ram

HostNext ==
  \E t \in Threads :
    \/ Begin(t) \/ Group(t) \/ Mirror(t) \/ Acquire(t) \/ CopyIn(t) \/ Kernel(t)
    \/ CopyBack(t) \/ Release(t)

HostSpec == HostInit /\ [][HostNext]_vars

--------------------------------------------------------------------------------

TypeOK ==
  /\ PoolTypeOK
  /\ pc \in [Threads -> Steps]
  /\ launch \in [Threads -> Launches \cup {None}]
  /\ left \in [Threads -> SUBSET Nat]
  /\ \A t \in Threads :
       bound[t] \in IF pc[t] \in {"idle", "group"} THEN {<<>>}
                    ELSE [DOMAIN launch[t].args -> Buffers \cup {None}]
  /\ ram \in [RamPlaces -> Values]
  /\ \A t \in Threads : {before[t], promise[t]} \subseteq IF launch[t] = None THEN {None} ELSE [Cells -> Values]
  /\ launches \in 0 .. MaxLaunches

\* Storages of a launch are equal or disjoint.  Storages wrapped separately over
\* parts of one allocation are not: the host route mirrors each of them apart.
Separate(S) ==
  \A l \in S : \A i, j \in Tensors(l) :
    \/ l.args[i].storage = l.args[j].storage
    \/ Cell(l.args[i].storage) \cap Cell(l.args[j].storage) = {}

\* "The host launcher must preserve pointer semantics"
\* (tests/test_host_marshalling_storage.py): when a launch has copied its results
\* back, its storages hold what the kernel's stores, in their order, make of memory,
\* whichever arguments share storage and at whichever offsets they are bound.
PreservesPointers ==
  \A t \in Threads : pc[t] = "release" =>
    \A c \in Touched(launch[t]) : Now[c] = promise[t][c]

\* A launch that fails before its copies back, a device assertion among the causes,
\* leaves every storage that was mirrored as it was.
WithholdsOnFailure ==
  \A t \in Threads : pc[t] \notin {"idle", "copyback", "release"} /\ pc'[t] = "idle" =>
    \A i \in Tensors(launch[t]) :
      i \notin Raws(launch[t]) \/ ~Wraps(launch[t].args[i].storage) =>
        \A c \in Cell(launch[t].args[i].storage) : Now'[c] = before[t][c]

FailureWithholds == [][WithholdsOnFailure]_vars
================================================================================

------------------------------ MODULE ScratchReuse ------------------------------
(***************************************************************************)
(* _alias_shared_memory (codegen/_lowerer_helpers.py): threadgroup arrays  *)
(* of generated MSL whose lifetimes are apart, and kept apart by barriers, *)
(* share storage.  The behaviours are: a kernel is written line by line,   *)
(* the pass gives its arrays their slots one after the other, and the      *)
(* kernel runs.                                                            *)
(*                                                                         *)
(* A line is a use of an array, a barrier, the opening of a "for" or of    *)
(* any other block, the end of the innermost block or an early exit.  Line *)
(* 0 opens the function.  Threads of a group are anywhere between the      *)
(* barriers they last and next pass, so a run is the control flow they     *)
(* share and the set of arrays used since the last barrier.                *)
(***************************************************************************)
EXTENDS Integers, Sequences, FiniteSetsExt

CONSTANTS
  Arrays,    \* threadgroup arrays
  Order,     \* the arrays, largest first
  Type,      \* Type[x]: element type of x
  MaxLines   \* bound: lines of a kernel

Words == {"barrier", "for", "block", "end", "exit"}
Lines == Arrays \cup Words

ASSUME NameAssumption == Arrays \cap Words = {}
ASSUME OrderAssumption == Order \in Seq(Arrays) /\ \A x \in Arrays : \E i \in DOMAIN Order : Order[i] = x
ASSUME BoundAssumption == MaxLines \in Nat

VARIABLES
  phase,  \* "write", "place" or "run"
  prog,   \* the kernel
  left,   \* arrays the pass has yet to place
  slots,  \* the sets of arrays placed together
  line,   \* line about to run
  since,  \* arrays used since the last barrier
  value   \* value[x]: "none" yet, x's "own", or "lost" under another array's

vars == <<phase, prog, left, slots, line, since, value>>

--------------------------------------------------------------------------------
\* The text.

Final(p) == Len(p) + 1

Opens(p, i) == i = 0 \/ p[i] \in {"for", "block"}

\* The number of blocks open after line i.
Level(p, i) ==
  Cardinality({k \in 1 .. i : p[k] \in {"for", "block"}}) - Cardinality({k \in 1 .. i : p[k] = "end"})

Depth(p) == Level(p, Len(p))

\* The line that closes the block opened at line j.
Close(p, j) ==
  IF j = 0 THEN Final(p)
  ELSE CHOOSE k \in j + 1 .. Len(p) :
         Level(p, k) < Level(p, j) /\ \A m \in j .. k - 1 : Level(p, m) >= Level(p, j)

\* contexts: the blocks that line i is in, a chain, so that one context is a prefix
\* of another just when it is a subset.
Context(p, i) == {j \in 0 .. i - 1 : Opens(p, j) /\ i <= Close(p, j)}

\* barriers: those that only the function and for loops enclose.
Barriers(p) ==
  {i \in DOMAIN p : p[i] = "barrier" /\ \A j \in Context(p, i) \ {0} : p[j] = "for"}

Uses(p, x) == {i \in DOMAIN p : p[i] = x}
FirstUse(p, x) == Min(Uses(p, x))
LastUse(p, x) == Max(Uses(p, x))

\* live: a lifetime that goes into or out of a loop takes in the whole loop.
Live(p, x) ==
  LET a == FirstUse(p, x)
      z == LastUse(p, x)
      crossed == {j \in DOMAIN p : p[j] = "for" /\ j <= z /\ a <= Close(p, j)
                                    /\ ~(j <= a /\ z <= Close(p, j))} IN
  [from |-> Min({a} \cup crossed), to |-> Max({z} \cup {Close(p, j) : j \in crossed})]

\* separates: an unconditional barrier of the scope, or of one around it.
Separates(p, i, j, scope) ==
  \E k \in Barriers(p) : i < k /\ k < j /\ Context(p, k) \subseteq scope

\* A barrier in loops that hold every use of x, or every use of y, between them: no
\* trip of the loop, no use.
LoopSeparates(p, x, y, common) ==
  \E k \in Barriers(p) :
    LET extra == Context(p, k) \ common IN
    /\ LastUse(p, x) < k /\ k < FirstUse(p, y)
    /\ common \subseteq Context(p, k)
    /\ extra # {}
    /\ \A j \in extra :
         /\ p[j] = "for"
         /\ \/ j < FirstUse(p, x) /\ LastUse(p, x) < Close(p, j)
            \/ j < FirstUse(p, y) /\ LastUse(p, y) < Close(p, j)

\* Mutant: only the handoff from x to y is looked at.
ForwardOnly(p, x, y, common) == FALSE

\* A loop around both, with no barrier of its own before x or after y: the next
\* iteration's x meets this one's y.
MeetsNextIteration(p, x, y, common) ==
  \E j \in common :
    /\ j # 0 /\ p[j] = "for"
    /\ j < FirstUse(p, x) /\ LastUse(p, y) < Close(p, j)
    /\ LET scope == {k \in common : k <= j} IN
       ~Separates(p, j, FirstUse(p, x), scope) /\ ~Separates(p, LastUse(p, y), Close(p, j), scope)

\* Mutant: a lifetime is what the text shows, loops or not.
TextOverlaps(p, a, b) ==
  FirstUse(p, a) <= LastUse(p, b) /\ FirstUse(p, b) <= LastUse(p, a)

LiveOverlaps(p, a, b) ==
  LET l == Live(p, a)
      m == Live(p, b) IN
  l.from <= m.to /\ m.from <= l.to

\* overlaps: the two arrays must not share.
Overlaps(p, a, b) ==
  LET x == IF Live(p, a).from > Live(p, b).from THEN b ELSE a
      y == IF x = a THEN b ELSE a
      common == Context(p, LastUse(p, x)) \cap Context(p, FirstUse(p, y)) IN
  \/ LiveOverlaps(p, a, b)
  \/ \E i \in DOMAIN p : p[i] = "exit"
  \/ /\ ~Separates(p, LastUse(p, x), FirstUse(p, y), common)
     /\ ~LoopSeparates(p, x, y, common)
  \/ MeetsNextIteration(p, x, y, common)

\* Mutant: one member of a slot without a conflict is enough.
FitsOne(p, x, members) == \E y \in members : ~Overlaps(p, x, y)

\* conflicts: an array may join a slot if it overlaps no member.
Fits(p, x, members) == \A y \in members : ~Overlaps(p, x, y)

\* homogeneous_slots: the members of a slot with one type share.
Shares(x, y) ==
  x # y /\ Type[x] = Type[y] /\ \E s \in DOMAIN slots : {x, y} \subseteq slots[s]

--------------------------------------------------------------------------------
\* Writing, placing and running.

Init ==
  /\ phase = "write"
  /\ prog = <<>>
  /\ left = Order
  /\ slots = <<>>
  /\ line = 0
  /\ since = {}
  /\ value = [x \in Arrays |-> "none"]

\* The next line is written.  Repeated barriers and empty blocks are left out.
Write(t) ==
  LET p == Append(prog, t) IN
  /\ phase = "write"
  /\ Depth(p) \in Nat
  /\ Len(p) + Depth(p) <= MaxLines
  /\ prog # <<>> => /\ prog[Len(prog)] = "barrier" => t # "barrier"
                    /\ prog[Len(prog)] \in {"for", "block"} => t # "end"
  /\ prog' = p
  /\ UNCHANGED <<phase, left, slots, line, since, value>>

\* The kernel is complete and uses its arrays: the pass begins.
Complete ==
  /\ phase = "write"
  /\ Depth(prog) = 0
  /\ \A x \in Arrays : Uses(prog, x) # {}
  /\ phase' = "place"
  /\ UNCHANGED <<prog, left, slots, line, since, value>>

\* slots: the next array goes to the first slot without a conflict.
Place ==
  LET x == Head(left)
      open == {s \in DOMAIN slots : Fits(prog, x, slots[s])} IN
  /\ phase = "place"
  /\ left # <<>>
  /\ left' = Tail(left)
  /\ slots' = IF open = {} THEN Append(slots, {x})
              ELSE [slots EXCEPT ![Min(open)] = @ \cup {x}]
  /\ UNCHANGED <<phase, prog, line, since, value>>

\* Every array has its slot: the kernel starts.
Launch ==
  /\ phase = "place"
  /\ left = <<>>
  /\ phase' = "run"
  /\ line' = 1
  /\ UNCHANGED <<prog, left, slots, since, value>>

Running == phase = "run" /\ line \in DOMAIN prog

\* Arrays whose uses are all in the block of line j: a trip starts them afresh.
Inner(p, j) == {x \in Arrays : j < FirstUse(p, x) /\ LastUse(p, x) < Close(p, j)}

\* The first use in the text writes; any use may leave its contents to the arrays
\* that share with it.
Use ==
  LET x == prog[line] IN
  /\ Running
  /\ x \in Arrays
  /\ since' = since \cup {x}
  /\ value' = [y \in Arrays |->
                 IF y = x /\ line = FirstUse(prog, x) THEN "own"
                 ELSE IF Shares(x, y) /\ value[y] = "own" THEN "lost"
                 ELSE value[y]]
  /\ line' = line + 1
  /\ UNCHANGED <<phase, prog, left, slots>>

Barrier ==
  /\ Running
  /\ prog[line] = "barrier"
  /\ since' = {}
  /\ line' = line + 1
  /\ UNCHANGED <<phase, prog, left, slots, value>>

\* A loop may have no trip, another block may not be taken.
Open ==
  /\ Running
  /\ prog[line] \in {"for", "block"}
  /\ line' \in {line + 1, Close(prog, line) + 1}
  /\ UNCHANGED <<phase, prog, left, slots, since, value>>

\* The end of a block: on, or back if it is a loop ("block" may be a while).
End ==
  LET j == Max(Context(prog, line)) IN
  /\ Running
  /\ prog[line] = "end"
  /\ \/ line' = line + 1 /\ UNCHANGED value
     \/ /\ line' = j + 1
        /\ value' = [x \in Arrays |-> IF x \in Inner(prog, j) THEN "none" ELSE value[x]]
  /\ UNCHANGED <<phase, prog, left, slots, since>>

\* Mutant: leaving the function is leaving a block like any other.
ExitPast ==
  LET j == Max(Context(prog, line)) IN
  /\ Running
  /\ prog[line] = "exit"
  /\ line' \in {line + 1, Close(prog, j), Close(prog, j) + 1}
  /\ UNCHANGED <<phase, prog, left, slots, since, value>>

\* A guarded break, continue or return.
Exit ==
  LET j == Max(Context(prog, line)) IN
  /\ Running
  /\ prog[line] = "exit"
  /\ line' \in {line + 1, Close(prog, j), Final(prog)}
             \cup (IF j = 0 THEN {} ELSE {Close(prog, j) + 1})
  /\ UNCHANGED <<phase, prog, left, slots, since, value>>

Next == (\E t \in Lines : Write(t)) \/ Complete \/ Place \/ Launch \/ Use \/ Barrier \/ Open \/ End \/ Exit

Spec == Init /\ [][Next]_vars

--------------------------------------------------------------------------------

TypeOK ==
  /\ phase \in {"write", "place", "run"}
  /\ prog \in Seq(Lines) /\ Len(prog) <= MaxLines
  /\ left \in Seq(Arrays)
  /\ slots \in Seq(SUBSET Arrays)
  /\ line \in 0 .. Final(prog)
  /\ since \subseteq Arrays
  /\ value \in [Arrays -> {"none", "own", "lost"}]

\* "Array reuse requires a real, cross-thread synchronization boundary"
\* (tests/test_shared_pool_epochs.py): two arrays that share storage are never both
\* used between two barriers, in whatever order loops, their zero trips, their back
\* edges and other blocks bring the uses together.
NoRaceAdded ==
  \A x, y \in since : ~Shares(x, y)

\* A read never finds the contents of another array (_alias_shared_memory step 2b:
\* an array whose uses are all in a loop is written again in every iteration).
ReadsOwnValue ==
  Running /\ prog[line] \in Arrays /\ line # FirstUse(prog, prog[line]) =>
    value[prog[line]] # "lost"
=================================================================================

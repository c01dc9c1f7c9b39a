--------------------------- MODULE Threadgroup_proof ---------------------------
(***************************************************************************)
(* What holds of a run of a kernel for any threads, SIMD groups,           *)
(* threadgroups, arrays and effects.                                       *)
(*   - Which kernels cannot leave a thread behind at a barrier: those      *)
(*     whose threads have their barriers at the same places and branch     *)
(*     only between two of them, like the retry of a compare-and-swap.     *)
(*   - Which kernels do not depend on the schedule: those without a race,  *)
(*     whose runs are all told by one history, the lockstep one.           *)
(*   - That the templates whose promise for a cell is a formula over given *)
(*     cells, and the tiled transpose, are such kernels and write what     *)
(*     they promise, whatever their sizes and data.                        *)
(***************************************************************************)
EXTENDS Threadgroup, TemplateReference, FiniteSetTheorems, WellFoundedInduction, TLAPS

\* A threadgroup is running, and each of its threads is somewhere; or none is.
Running == group \in Groups(kernel) /\ pc \in [Threads(kernel) -> Nat \ {0}]
Resting == group = Idle /\ pc = <<>>

\* No barrier lies between the places of two threads of a group.
Abreast == \A t, u \in DOMAIN pc : Clear(kernel, group, t, pc[t], pc[u])

IInv ==
  /\ kernel \in Kernels
  /\ left \subseteq Groups(kernel)
  /\ Running \/ Resting
  /\ Orderly(kernel) => Abreast

--------------------------------------------------------------------------------

\* What the assumption says of the running kernel.
LEMMA KernelFacts ==
  ASSUME kernel \in Kernels
  PROVE  /\ kernel.threads \in Nat \ {0} /\ kernel.groups \in Nat
         /\ 0 \in Threads(kernel) /\ Threads(kernel) \subseteq Nat
         /\ Idle \notin Groups(kernel)
         /\ \A g \in Groups(kernel), t \in Threads(kernel) :
              /\ Len(Code(kernel, g, t)) \in Nat
              /\ DOMAIN Code(kernel, g, t) = 1..Len(Code(kernel, g, t))
              /\ \A j \in DOMAIN Code(kernel, g, t) :
                   Code(kernel, g, t)[j].kind = "branch" => Code(kernel, g, t)[j].to \in Nat \ {0}
<1>1. kernel.threads \in Nat \ {0} /\ kernel.groups \in Nat
  BY KernelAssumption
<1>2. 0 \in Threads(kernel) /\ Threads(kernel) \subseteq Nat /\ Idle \notin Groups(kernel)
  BY <1>1 DEF Threads, Groups, Idle
<1>3. QED
  BY <1>1, <1>2, KernelAssumption DEF Threads, Groups

\* From a place that is no barrier to the next one, or nowhere.
LEMMA Passing ==
  ASSUME NEW k, NEW g, NEW t, NEW n \in Nat
  PROVE  /\ Clear(k, g, t, n, n)
         /\ Clear(k, g, t, n + 1, n)
         /\ ~BarrierAt(k, g, t, n) => Clear(k, g, t, n, n + 1)
<1>1. n..(n - 1) = {} /\ (n + 1)..(n - 1) = {} /\ n..((n + 1) - 1) = {n}
  OBVIOUS
<1>2. QED
  BY <1>1 DEF Clear

\* A thread that awaits something else is not at a barrier.
LEMMA NoBarrier ==
  ASSUME NEW t, NEW kind, kind # "barrier", Awaits(t, kind)
  PROVE  ~BarrierAt(kernel, group, t, pc[t])
BY DEF Awaits, Next_, BarrierAt

\* Threads that move without passing a barrier stay abreast: one that is now between two
\* others was there before, or is with one of them.
LEMMA Advance ==
  ASSUME kernel \in Kernels, Running, Orderly(kernel), Abreast,
         kernel' = kernel, group' = group,
         pc' \in [Threads(kernel) -> Nat \ {0}],
         \A t \in Threads(kernel) :
           Clear(kernel, group, t, pc[t], pc'[t]) /\ Clear(kernel, group, t, pc'[t], pc[t])
  PROVE  Abreast'
<1>1. DOMAIN pc = Threads(kernel) /\ DOMAIN pc' = Threads(kernel)
  BY DEF Running
<1> SUFFICES ASSUME NEW t \in Threads(kernel), NEW u \in Threads(kernel),
                    NEW m \in pc'[t]..(pc'[u] - 1), BarrierAt(kernel, group, t, m)
             PROVE  FALSE
  BY <1>1 DEF Abreast, Clear
<1>2. /\ pc[t] \in Nat /\ pc[u] \in Nat /\ pc'[t] \in Nat /\ pc'[u] \in Nat
      /\ m \in Int /\ pc'[t] <= m /\ m < pc'[u]
  BY DEF Running
<1>3. BarrierAt(kernel, group, u, m)
  <2>1. m \in DOMAIN Code(kernel, group, t)
    BY DEF BarrierAt
  <2>2. QED
    BY <2>1 DEF Orderly, Running
<1>4. pc[t] <= m
  <2>1. Clear(kernel, group, t, pc'[t], pc[t])
    OBVIOUS
  <2>2. QED
    BY <1>2, <2>1 DEF Clear
<1>5. pc[u] <= m
  <2>1. Clear(kernel, group, t, pc[t], pc[u])
    BY <1>1 DEF Abreast
  <2>2. QED
    BY <1>2, <1>4, <2>1 DEF Clear
<1>6. Clear(kernel, group, u, pc[u], pc'[u])
  OBVIOUS
<1>7. QED
  BY <1>2, <1>3, <1>5, <1>6 DEF Clear

\* Some threads, none of them at a barrier, go on to their next instruction.
LEMMA OnwardInv ==
  ASSUME IInv, Running, NEW T \in SUBSET Threads(kernel),
         \A t \in T : ~BarrierAt(kernel, group, t, pc[t]),
         pc' = [t \in DOMAIN pc |-> IF t \in T THEN pc[t] + 1 ELSE pc[t]],
         UNCHANGED <<kernel, group, left>>
  PROVE  IInv'
<1>1. DOMAIN pc = Threads(kernel) /\ pc' \in [Threads(kernel) -> Nat \ {0}]
  BY DEF Running
<1>2. Running' /\ kernel' \in Kernels /\ left' \subseteq Groups(kernel')
  BY <1>1 DEF Running, IInv
<1>3. ASSUME NEW t \in Threads(kernel)
      PROVE  Clear(kernel, group, t, pc[t], pc'[t]) /\ Clear(kernel, group, t, pc'[t], pc[t])
  <2>1. pc[t] \in Nat
    BY DEF Running
  <2>2. CASE t \in T
    <3>1. pc'[t] = pc[t] + 1 /\ ~BarrierAt(kernel, group, t, pc[t])
      BY <1>1, <2>2
    <3>2. QED
      BY <2>1, <3>1, Passing
  <2>3. CASE t \notin T
    <3>1. pc'[t] = pc[t]
      BY <1>1, <2>3
    <3>2. QED
      BY <2>1, <3>1, Passing
  <2>4. QED
    BY <2>2, <2>3
<1>4. ASSUME Orderly(kernel)'
      PROVE  Abreast'
  <2>1. Orderly(kernel)
    BY <1>4 DEF Orderly, Groups, Threads, BarrierAt, Clear
  <2>2. Abreast
    BY <2>1 DEF IInv
  <2>3. kernel \in Kernels
    BY DEF IInv
  <2>4. QED
    BY <1>1, <1>3, <2>1, <2>2, <2>3, Advance
<1>5. QED
  BY <1>2, <1>4 DEF IInv

\* No threadgroup runs at first.
LEMMA InitIInv == Init => IInv
<1> SUFFICES ASSUME Init
             PROVE  IInv
  OBVIOUS
<1>1. PICK k \in Kernels : Start(k)
  BY DEF Init
<1>2. kernel \in Kernels /\ left = Groups(kernel) /\ Resting
  BY <1>1 DEF Start, Resting
<1>3. DOMAIN pc = {}
  BY <1>2 DEF Resting
<1>4. QED
  BY <1>2, <1>3 DEF IInv, Abreast

\* All threads of the group that begins are at its first instruction.
LEMMA BeginInv ==
  ASSUME IInv, NEW g \in left, Begin(g)
  PROVE  IInv'
<1>1. /\ kernel' = kernel /\ group' = g /\ left' = left \ {g}
      /\ pc' = [t \in Threads(kernel) |-> 1]
  BY DEF Begin
<1>2. kernel' \in Kernels /\ left' \subseteq Groups(kernel') /\ Running'
  BY <1>1 DEF IInv, Running
<1>3. Abreast'
  BY <1>1, Passing DEF Abreast
<1>4. QED
  BY <1>2, <1>3 DEF IInv

\* A step of a thread or of a SIMD group passes no barrier.
LEMMA StepInv ==
  ASSUME IInv, Running, NEW T \in Units, Step(T)
  PROVE  IInv'
<1>1. DOMAIN pc = Threads(kernel)
  BY DEF Running
<1>2. T \in SUBSET Threads(kernel) /\ \A t \in T : \E kind \in {"run", "atomic", "lanes"} : Awaits(t, kind)
  BY <1>1 DEF Units, LanesOf
<1>3. \A t \in T : ~BarrierAt(kernel, group, t, pc[t])
  BY <1>2, NoBarrier
<1>4. /\ pc' = [t \in DOMAIN pc |-> IF t \in T THEN pc[t] + 1 ELSE pc[t]]
      /\ UNCHANGED <<kernel, group, left>>
  BY DEF Step
<1>5. QED
  BY <1>2, <1>3, <1>4, OnwardInv

\* A branch that is orderly passes no barrier in either direction.
LEMMA BranchInv ==
  ASSUME IInv, Running, NEW t \in DOMAIN pc, Branch(t)
  PROVE  IInv'
<1>1. DOMAIN pc = Threads(kernel) /\ t \in Threads(kernel) /\ pc[t] \in Nat \ {0} /\ kernel \in Kernels
  BY DEF Running, IInv
<1>2. /\ Awaits(t, "branch") /\ UNCHANGED <<kernel, group, left>>
      /\ pc' = [pc EXCEPT ![t] = IF (mem[Next_(t).flag][0] # 0) = Next_(t).on THEN Next_(t).to ELSE @ + 1]
  BY DEF Branch
<1>3. /\ pc[t] \in DOMAIN Code(kernel, group, t)
      /\ Next_(t) = Code(kernel, group, t)[pc[t]] /\ Next_(t).kind = "branch"
  BY <1>1, <1>2, KernelFacts DEF Awaits, Ended, Next_, Running
<1>4. Next_(t).to \in Nat \ {0}
  BY <1>1, <1>3, KernelFacts DEF Running
<1>5. pc' = [pc EXCEPT ![t] = pc[t] + 1] \/ pc' = [pc EXCEPT ![t] = Next_(t).to]
  BY <1>2
<1>6. pc' \in [Threads(kernel) -> Nat \ {0}] /\ \A u \in Threads(kernel) \ {t} : pc'[u] = pc[u]
  BY <1>1, <1>4, <1>5 DEF Running
<1>7. Running' /\ kernel' \in Kernels /\ left' \subseteq Groups(kernel')
  BY <1>2, <1>6 DEF Running, IInv
<1>8. ASSUME Orderly(kernel)'
      PROVE  Abreast'
  <2>1. Orderly(kernel) /\ Abreast
    BY <1>2, <1>8 DEF IInv
  <2>2. ASSUME NEW u \in Threads(kernel)
        PROVE  Clear(kernel, group, u, pc[u], pc'[u]) /\ Clear(kernel, group, u, pc'[u], pc[u])
    <3>1. CASE u # t
      <4>1. pc'[u] = pc[u] /\ pc[u] \in Nat
        BY <1>6, <3>1 DEF Running
      <4>2. QED
        BY <4>1, Passing
    <3>2. CASE u = t /\ pc' = [pc EXCEPT ![t] = pc[t] + 1]
      <4>1. pc'[t] = pc[t] + 1 /\ ~BarrierAt(kernel, group, t, pc[t])
        BY <1>1, <1>2, <3>2, NoBarrier
      <4>2. QED
        BY <1>1, <3>2, <4>1, Passing
    <3>3. CASE u = t /\ pc' = [pc EXCEPT ![t] = Next_(t).to]
      <4>1. pc'[t] = Code(kernel, group, t)[pc[t]].to
        BY <1>1, <1>3, <3>3
      <4>2. QED
        BY <1>1, <1>3, <2>1, <3>3, <4>1 DEF Orderly, Running
    <3>4. QED
      BY <1>5, <3>1, <3>2, <3>3
  <2>3. QED
    BY <1>1, <1>2, <1>6, <2>1, <2>2, Advance
<1>9. QED
  BY <1>7, <1>8 DEF IInv

\* Nor does a fence.
LEMMA FenceInv ==
  ASSUME IInv, Running, NEW t \in DOMAIN pc, Fence(t)
  PROVE  IInv'
<1>1. DOMAIN pc = Threads(kernel) /\ pc[t] \in Nat
  BY DEF Running
<1>2. Awaits(t, "fence") /\ pc' = [pc EXCEPT ![t] = @ + 1] /\ UNCHANGED <<kernel, group, left>>
  BY DEF Fence
<1>3. pc' = [u \in DOMAIN pc |-> IF u \in {t} THEN pc[u] + 1 ELSE pc[u]]
  BY <1>1, <1>2 DEF Running
<1>4. ~BarrierAt(kernel, group, t, pc[t])
  BY <1>2, NoBarrier
<1>5. {t} \in SUBSET Threads(kernel) /\ \A u \in {t} : ~BarrierAt(kernel, group, u, pc[u])
  BY <1>1, <1>4
<1>6. QED
  BY <1>2, <1>3, <1>5, OnwardInv

\* Nor does a barrier of a SIMD group.
LEMMA SimdSyncInv ==
  ASSUME IInv, Running, NEW s, SimdSync(s)
  PROVE  IInv'
<1>1. /\ \A t \in LanesOf(kernel, s) : Awaits(t, "simdbarrier")
      /\ pc' = [t \in DOMAIN pc |-> IF t \in LanesOf(kernel, s) THEN pc[t] + 1 ELSE pc[t]]
      /\ UNCHANGED <<kernel, group, left>>
  BY DEF SimdSync
<1>2. LanesOf(kernel, s) \in SUBSET Threads(kernel)
  BY DEF LanesOf
<1>3. \A t \in LanesOf(kernel, s) : ~BarrierAt(kernel, group, t, pc[t])
  BY <1>1, NoBarrier
<1>4. QED
  BY <1>1, <1>2, <1>3, OnwardInv

\* At a barrier all threads are at one place, and leave it together.
LEMMA SyncInv ==
  ASSUME IInv, Running, Sync
  PROVE  IInv'
<1>1. /\ \A t \in Threads(kernel) : pc[t] = pc[0]
      /\ pc' = [t \in DOMAIN pc |-> pc[t] + 1] /\ UNCHANGED <<kernel, group, left>>
  BY DEF Sync
<1>2. 0 \in Threads(kernel)
  BY KernelFacts DEF IInv
<1>3. /\ pc[0] \in Nat /\ DOMAIN pc' = Threads(kernel) /\ pc' \in [Threads(kernel) -> Nat \ {0}]
      /\ \A t \in Threads(kernel) : pc'[t] = pc[0] + 1
  BY <1>1, <1>2 DEF Running
<1>4. Running' /\ kernel' \in Kernels /\ left' \subseteq Groups(kernel')
  BY <1>1, <1>3 DEF Running, IInv
<1>5. Abreast'
  <2>1. pc[0] + 1 \in Nat
    BY <1>3
  <2>2. QED
    BY <1>3, <2>1, Passing DEF Abreast
<1>6. QED
  BY <1>4, <1>5 DEF IInv

\* A threadgroup that ends leaves no places behind.
LEMMA FinishInv ==
  ASSUME IInv, Finish
  PROVE  IInv'
<1>1. kernel' = kernel /\ left' = left /\ group' = Idle /\ pc' = <<>>
  BY DEF Finish
<1>2. Resting' /\ DOMAIN pc' = {}
  BY <1>1 DEF Resting
<1>3. QED
  BY <1>1, <1>2 DEF IInv, Abreast

\* Every action keeps the invariant.
LEMMA StepsInv == IInv /\ [Next]_vars => IInv'
<1> SUFFICES ASSUME IInv, [Next]_vars
             PROVE  IInv'
  OBVIOUS
<1>1. CASE Resting
  <2>1. DOMAIN pc = {} /\ group = Idle
    BY <1>1 DEF Resting
  <2>2. Units = {}
    BY <2>1 DEF Units
  <2>3. ~Sync
    BY <2>1 DEF Sync
  <2>4. (\E g \in left : Begin(g)) \/ Finish \/ UNCHANGED vars
    BY <2>1, <2>2, <2>3 DEF Next, Stay
  <2>5. ASSUME UNCHANGED vars PROVE IInv'
    BY <2>5 DEF vars, IInv, Running, Resting, Abreast
  <2>6. QED
    BY <2>4, <2>5, BeginInv, FinishInv
<1>2. CASE Running
  <2>1. CASE \E g \in left : Begin(g)
    BY <2>1, BeginInv
  <2>2. CASE \E T \in Units : Step(T)
    BY <1>2, <2>2, StepInv
  <2>3. CASE \E t \in DOMAIN pc : Branch(t)
    BY <1>2, <2>3, BranchInv
  <2>4. CASE \E t \in DOMAIN pc : Fence(t)
    BY <1>2, <2>4, FenceInv
  <2>5. CASE \E s \in 0..(SimdCount(kernel) - 1) : group # Idle /\ SimdSync(s)
    BY <1>2, <2>5, SimdSyncInv
  <2>6. CASE Sync
    BY <1>2, <2>6, SyncInv
  <2>7. CASE Finish
    BY <2>7, FinishInv
  <2>8. CASE Stay \/ UNCHANGED vars
    BY <2>8 DEF Stay, vars, IInv, Running, Resting, Abreast
  <2>9. QED
    BY <2>1, <2>2, <2>3, <2>4, <2>5, <2>6, <2>7, <2>8 DEF Next
<1>3. QED
  BY <1>1, <1>2 DEF IInv

\* Threads of an orderly kernel stay abreast, from launch to end.
THEOREM Invariance == Spec => []IInv
<1>1. QED
  BY InitIInv, StepsInv, PTL DEF Spec

\* A kernel whose threads have their barriers at the same places, and branch only between two of
\* them, never leaves a thread behind, whatever its data, however many threads and groups it has.
THEOREM OrderlyConverges == Spec => [](Orderly(kernel) => Convergent)
<1>1. IInv => (Orderly(kernel) => Convergent)
  <2> SUFFICES ASSUME IInv, Orderly(kernel), NEW t \in DOMAIN pc, NEW u \in DOMAIN pc,
                      Awaits(t, "barrier"), Awaits(u, "barrier") \/ Ended(u)
               PROVE  pc[t] = pc[u]
    BY DEF Convergent
  <2>1. Running /\ kernel \in Kernels /\ Abreast
    BY DEF IInv, Resting
  <2>2. /\ t \in Threads(kernel) /\ u \in Threads(kernel) /\ group \in Groups(kernel)
        /\ pc[t] \in Nat \ {0} /\ pc[u] \in Nat \ {0}
    BY <2>1 DEF Running
  <2>3. ASSUME NEW w \in Threads(kernel), Awaits(w, "barrier"), pc[w] \in Nat \ {0}
        PROVE  BarrierAt(kernel, group, w, pc[w])
    BY <2>1, <2>2, <2>3, KernelFacts DEF Awaits, Ended, Next_, BarrierAt
  <2>4. BarrierAt(kernel, group, t, pc[t]) /\ BarrierAt(kernel, group, u, pc[t])
    <3>1. BarrierAt(kernel, group, t, pc[t])
      BY <2>2, <2>3
    <3>2. QED
      BY <2>2, <3>1 DEF Orderly, BarrierAt
  <2>5. ~(pc[t] < pc[u])
    <3>1. Clear(kernel, group, t, pc[t], pc[u])
      BY <2>1 DEF Abreast
    <3>2. QED
      BY <2>2, <2>4, <3>1 DEF Clear
  <2>6. ~(pc[u] < pc[t])
    <3>1. CASE Awaits(u, "barrier")
      <4>1. Clear(kernel, group, u, pc[u], pc[t])
        BY <2>1 DEF Abreast
      <4>2. BarrierAt(kernel, group, u, pc[u])
        BY <2>2, <2>3, <3>1
      <4>3. QED
        BY <2>2, <4>1, <4>2 DEF Clear
    <3>2. CASE Ended(u)
      BY <2>1, <2>2, <2>4, <3>2, KernelFacts DEF Ended, BarrierAt
    <3>3. QED
      BY <3>1, <3>2
  <2>7. QED
    BY <2>2, <2>5, <2>6
<1>2. QED
  BY <1>1, Invariance, PTL

--------------------------------------------------------------------------------
OfDevice(k, a) == a \in DOMAIN Arrays(k).dev
OfThread(k, a) == a \in DOMAIN Arrays(k).reg
SimdAt(k, g, t, j) == j \in DOMAIN Code(k, g, t) /\ Code(k, g, t)[j].kind = "lanes"
Acts(k, g, t, j) == j \in DOMAIN Code(k, g, t) /\ Code(k, g, t)[j].kind \in {"run", "lanes"}

\* Barriers are where they are for every thread of the group, SIMD instructions for
\* every lane of the SIMD group; nothing branches.
Straight(k) ==
  \A g \in Groups(k), t \in Threads(k) : \A j \in DOMAIN Code(k, g, t) :
    /\ Code(k, g, t)[j].kind \in {"run", "lanes", "barrier"}
    /\ BarrierAt(k, g, t, j) => \A u \in Threads(k) : BarrierAt(k, g, u, j)
    /\ SimdAt(k, g, t, j) => \A u \in Threads(k) : SimdOf(k, u) = SimdOf(k, t) => SimdAt(k, g, u, j)

\* M[g][j] is what the memories hold when the threads of group g run in lockstep and
\* are at instruction j; what thread t writes then.
Does(k, M, g, t, j) == Effect(k, g, Code(k, g, t)[j], t, M[g][j])
Writes(k, M, g, t, j, a, x) == Acts(k, g, t, j) /\ Touches(Does(k, M, g, t, j), a, x)
Lockstep(k, M) ==
  \A g \in Groups(k) : \A a \in DOMAIN Fresh(k) : \A x \in DOMAIN Fresh(k)[a] :
    /\ M[g][1][a][x] = Fresh(k)[a][x]
    /\ \A t \in Threads(k) : \A j \in DOMAIN Code(k, g, t) :
         Writes(k, M, g, t, j, a, x) => M[g][j + 1][a][x] = Does(k, M, g, t, j)[a][x]
    /\ \A p, q \in Nat \ {0} :
         p <= q /\ (\A t \in Threads(k) : \A j \in DOMAIN Code(k, g, t) : p <= j /\ j < q => ~Writes(k, M, g, t, j, a, x))
         => M[g][p][a][x] = M[g][q][a][x]

\* Instruction m of thread u comes before instruction j of thread t in every run, as to
\* array a; or not before it.
Between(k, g, a, m, j) ==
  \E b \in (m + 1)..(j - 1) :
    /\ BarrierAt(k, g, 0, b)
    /\ (IF OfDevice(k, a) THEN "dev" ELSE "tg") \in Code(k, g, 0)[b].orders
Meet(k, g, a, u, t, m, j) ==
  OfThread(k, a) /\ SimdOf(k, u) = SimdOf(k, t) /\ \E b \in m..j : SimdAt(k, g, t, b)
Before(k, g, a, u, m, t, j) == (u = t /\ m < j) \/ Between(k, g, a, m, j) \/ Meet(k, g, a, u, t, m + 1, j)
Later(k, g, a, u, m, t, j) == (u = t /\ j <= m) \/ Between(k, g, a, j, m) \/ Meet(k, g, a, u, t, j, m)

\* only group g writes the cell; and for each write of it, it is certain whether it comes
\* before instruction j of thread t
Sole(k, M, g, a, x) ==
  \A h \in Groups(k), u \in Threads(k) : \A m \in DOMAIN Code(k, h, u) :
    OfDevice(k, a) /\ Writes(k, M, h, u, m, a, x) => h = g
Settled(k, M, g, t, j, a, x) ==
  /\ Sole(k, M, g, a, x)
  /\ \A u \in Threads(k) : \A m \in DOMAIN Code(k, g, u) :
       Writes(k, M, g, u, m, a, x) => Before(k, g, a, u, m, t, j) \/ Later(k, g, a, u, m, t, j)

\* No race between writes, nor a write beyond an array.
Apart(k, M) ==
  \A g \in Groups(k), t \in Threads(k) : \A j \in DOMAIN Code(k, g, t) : \A a, x :
    Writes(k, M, g, t, j, a, x) =>
      /\ a \in DOMAIN Fresh(k) /\ x \in DOMAIN Fresh(k)[a]
      /\ SimdAt(k, g, t, j) => OfThread(k, a)
      /\ Settled(k, M, g, t, j, a, x)
      /\ \A u \in Threads(k) : Writes(k, M, g, u, j, a, x) => u = t
\* No instruction depends on a cell that is not settled for it, except for what it
\* writes to the junk cells J, which nothing else may then depend on.
Agrees(k, M, J, g, t, j, v) ==
  /\ DOMAIN v = DOMAIN Fresh(k)
  /\ \A a \in DOMAIN v :
       /\ DOMAIN v[a] = DOMAIN Fresh(k)[a]
       /\ \A x \in DOMAIN v[a] :
            <<a, x>> \notin J /\ Settled(k, M, g, t, j, a, x) => v[a][x] = M[g][j][a][x]
Alike(J, e, f) ==
  /\ DOMAIN e = DOMAIN f
  /\ \A a \in DOMAIN f : DOMAIN e[a] = DOMAIN f[a] /\ \A x \in DOMAIN f[a] : <<a, x>> \notin J => e[a][x] = f[a][x]
Blind(k, M, J) ==
  \A g \in Groups(k), t \in Threads(k) : \A j \in DOMAIN Code(k, g, t) : Acts(k, g, t, j) =>
    \A v : Agrees(k, M, J, g, t, j, v) => Alike(J, Effect(k, g, Code(k, g, t)[j], t, v), Does(k, M, g, t, j))
Distinct(k) == DOMAIN Arrays(k).dev \cap DOMAIN Locals(k) = {}
RaceFree(k, M, J) == Distinct(k) /\ Straight(k) /\ Apart(k, M) /\ Blind(k, M, J)

--------------------------------------------------------------------------------
\* The state of a run, told by the lockstep history M.
Past(h, u, m) == IF h = group THEN m < pc[u] ELSE h \notin left
Faithful ==
  /\ group \notin left
  /\ ~fault
  /\ DOMAIN mem = DOMAIN Fresh(kernel)
  /\ \A a \in DOMAIN mem : DOMAIN mem[a] = DOMAIN Fresh(kernel)[a]
\* no SIMD instruction lies between the places of two lanes
Marching ==
  \A t, u \in DOMAIN pc : SimdOf(kernel, t) = SimdOf(kernel, u) =>
    \A b \in pc[t]..(pc[u] - 1) : ~SimdAt(kernel, group, t, b)
\* each cell is at some place of its history: the writes before it are those made
CutAt(M, h, a, x, p) ==
  /\ mem[a][x] = M[h][p][a][x]
  /\ \A u \in Threads(kernel) : \A m \in DOMAIN Code(kernel, h, u) :
       Writes(kernel, M, h, u, m, a, x) => (Past(h, u, m) <=> m < p)
Cut(M, J) ==
  \A a \in DOMAIN mem : \A x \in DOMAIN mem[a] : \A h \in Groups(kernel) :
    /\ <<a, x>> \notin J
    /\ h = group \/ OfDevice(kernel, a)
    /\ Sole(kernel, M, h, a, x)
    => \E p \in Nat \ {0} : CutAt(M, h, a, x, p)
\* a mark is a write not followed by a barrier
MarkOf(M, d, h, u, m) ==
  /\ d.by = <<h, u>> /\ (h = group \/ OfDevice(kernel, d.arr)) /\ ~OfThread(kernel, d.arr)
  /\ Writes(kernel, M, h, u, m, d.arr, d.at) /\ Past(h, u, m)
  /\ h = group => ~Between(kernel, group, d.arr, m, pc[u])
Marked(M) ==
  \A d \in dirty : \E h \in Groups(kernel), u \in Threads(kernel) : \E m \in DOMAIN Code(kernel, h, u) : MarkOf(M, d, h, u, m)
Told(M, J) == Faithful /\ Marching /\ Cut(M, J) /\ Marked(M)

\* A table of a function is the function.
LEMMA TableOf ==
  ASSUME NEW f
  PROVE  Table(f) = f
BY DEF Table

\* A kernel that does not branch and has its barriers at the same places is orderly.
LEMMA StraightOrderly ==
  ASSUME NEW k, Straight(k)
  PROVE  Orderly(k)
BY DEF Straight, Orderly

\* Where a thread is that awaits something.
LEMMA Awaited ==
  ASSUME IInv, Running, Straight(kernel), NEW t \in Threads(kernel), NEW kind, Awaits(t, kind)
  PROVE  /\ kind \in {"run", "lanes", "barrier"}
         /\ pc[t] \in DOMAIN Code(kernel, group, t)
         /\ Next_(t) = Code(kernel, group, t)[pc[t]] /\ Next_(t).kind = kind
<1>1. kernel \in Kernels /\ group \in Groups(kernel) /\ pc[t] \in Nat \ {0}
  BY DEF IInv, Running
<1>2. pc[t] \in DOMAIN Code(kernel, group, t)
  BY <1>1, KernelFacts DEF Awaits, Ended
<1>3. QED
  BY <1>1, <1>2 DEF Awaits, Next_, Straight

\* What is true of the running kernel and its threads, in the forms used below.
LEMMA Placed ==
  ASSUME IInv, Running, Straight(kernel)
  PROVE  /\ kernel \in Kernels /\ group \in Groups(kernel) /\ 0 \in Threads(kernel)
         /\ DOMAIN pc = Threads(kernel) /\ pc \in [Threads(kernel) -> Nat \ {0}]
         /\ \A t \in Threads(kernel) : pc[t] \in Nat \ {0}
         /\ \A h \in Groups(kernel), u \in Threads(kernel) : DOMAIN Code(kernel, h, u) \subseteq Nat \ {0}
         /\ Abreast
<1>1. kernel \in Kernels /\ group \in Groups(kernel) /\ Abreast
  BY StraightOrderly DEF IInv, Running, Resting
<1>2. QED
  BY <1>1, KernelFacts DEF Running

\* What executes together: one thread, or the lanes of a SIMD group, all at one place.
LEMMA UnitOf ==
  ASSUME IInv, Running, Straight(kernel), Marching, NEW T \in Units
  PROVE  \E t \in T, kind \in {"run", "lanes"} :
           /\ T \subseteq Threads(kernel)
           /\ \A u \in T : pc[u] = pc[t] /\ Awaits(u, kind)
           /\ kind = "run" => T = {t}
           /\ kind = "lanes" => T = {u \in Threads(kernel) : SimdOf(kernel, u) = SimdOf(kernel, t)}
<1>1. DOMAIN pc = Threads(kernel)
  BY Placed
<1>2. \A t \in Threads(kernel) : ~Awaits(t, "atomic")
  BY Awaited
<1>3. CASE \E t \in Threads(kernel) : T = {t} /\ Awaits(t, "run")
  BY <1>3
<1>4. CASE \E t \in Threads(kernel) : T = LanesOf(kernel, SimdOf(kernel, t)) /\ \A u \in T : Awaits(u, "lanes")
  <2>1. PICK t \in Threads(kernel) : T = LanesOf(kernel, SimdOf(kernel, t)) /\ \A u \in T : Awaits(u, "lanes")
    BY <1>4
  <2>2. T = {u \in Threads(kernel) : SimdOf(kernel, u) = SimdOf(kernel, t)} /\ t \in T
    BY <2>1 DEF LanesOf
  <2>3. ASSUME NEW u \in T
        PROVE  pc[u] = pc[t]
    <3>1. u \in Threads(kernel) /\ SimdOf(kernel, u) = SimdOf(kernel, t) /\ pc[u] \in Nat /\ pc[t] \in Nat
      BY <2>2, Placed
    <3>2. SimdAt(kernel, group, u, pc[u]) /\ SimdAt(kernel, group, t, pc[t])
      BY <2>1, <2>2, <3>1, Awaited DEF SimdAt
    <3>3. ~(pc[u] < pc[t]) /\ ~(pc[t] < pc[u])
      BY <1>1, <3>1, <3>2 DEF Marching
    <3>4. QED
      BY <3>1, <3>3
  <2>4. QED
    BY <2>1, <2>2, <2>3
<1>5. QED
  BY <1>1, <1>2, <1>3, <1>4 DEF Units

\* What threads write together when no two of them write the same cell.
LEMMA JointApart ==
  ASSUME NEW es, DOMAIN es \subseteq Int,
         \A t, u \in DOMAIN es : \A a, x : Touches(es[t], a, x) /\ Touches(es[u], a, x) => t = u
  PROVE  /\ \A a, x : Touches(Joint(es), a, x) <=> \E t \in DOMAIN es : Touches(es[t], a, x)
         /\ \A t \in DOMAIN es : \A a, x : Touches(es[t], a, x) => Joint(es)[a][x] = es[t][a][x]
<1> DEFINE first(a, x) ==
             CHOOSE t \in DOMAIN es : Touches(es[t], a, x) /\ \A u \in DOMAIN es : u < t => ~Touches(es[u], a, x)
           A == UNION {DOMAIN es[t] : t \in DOMAIN es}
           X(a) == UNION {DOMAIN es[t][a] : t \in {u \in DOMAIN es : a \in DOMAIN es[u]}}
<1>1. /\ DOMAIN Joint(es) = A
      /\ \A a \in A : DOMAIN Joint(es)[a] = X(a) /\ \A x \in X(a) : Joint(es)[a][x] = es[first(a, x)][a][x]
  BY DEF Joint
<1>2. \A a, x : (a \in A /\ x \in X(a)) <=> \E t \in DOMAIN es : Touches(es[t], a, x)
  BY DEF Touches
<1>3. ASSUME NEW t \in DOMAIN es, NEW a, NEW x, Touches(es[t], a, x)
      PROVE  first(a, x) = t
  <2>1. Touches(es[t], a, x) /\ \A u \in DOMAIN es : u < t => ~Touches(es[u], a, x)
    BY <1>3
  <2>2. \A u \in DOMAIN es : Touches(es[u], a, x) => u = t
    BY <1>3
  <2>3. QED
    BY <2>1, <2>2
<1> HIDE DEF first, A, X
<1>4. \A a, x : Touches(Joint(es), a, x) <=> (a \in A /\ x \in X(a))
  BY <1>1 DEF Touches
<1>5. ASSUME NEW t \in DOMAIN es, NEW a, NEW x, Touches(es[t], a, x)
      PROVE  Joint(es)[a][x] = es[t][a][x]
  <2>1. a \in A /\ x \in X(a) /\ first(a, x) = t
    BY <1>2, <1>3, <1>5
  <2>2. Joint(es)[a][x] = es[first(a, x)][a][x]
    BY <1>1, <2>1
  <2>3. QED
    BY <2>1, <2>2
<1>6. QED
  BY <1>2, <1>4, <1>5

\* Functions given by the same values on the same domain are equal, tabled or not.
LEMMA Tabling ==
  ASSUME NEW e
  PROVE  /\ DOMAIN Tabled(e) = DOMAIN e
         /\ \A a \in DOMAIN e : Tabled(e)[a] = e[a]
         /\ \A a, x : Touches(Tabled(e), a, x) <=> Touches(e, a, x)
<1>1. Tabled(e) = [a \in DOMAIN e |-> e[a]]
  BY TableOf DEF Tabled
<1>2. QED
  BY <1>1 DEF Touches

\* What a thread sees: the cells that no foreign unordered write hides.
LEMMA ViewOf ==
  ASSUME NEW t
  PROVE  /\ DOMAIN View(t) = DOMAIN mem
         /\ \A a \in DOMAIN mem :
              /\ DOMAIN View(t)[a] = DOMAIN mem[a]
              /\ \A x \in DOMAIN mem[a] : ~Unordered(a, x, t) => View(t)[a][x] = mem[a][x]
<1> DEFINE hidden == {<<d.arr, d.at>> : d \in {x \in dirty : Foreign(x, t)}}
           racing == {h[1] : h \in hidden}
           cells(a) == [i \in DOMAIN mem[a] |-> IF <<a, i>> \in hidden THEN NaN ELSE mem[a][i]]
           all == [a \in DOMAIN mem |-> IF a \in racing THEN Table(cells(a)) ELSE mem[a]]
<1>1. View(t) = IF hidden = {} THEN mem ELSE Table(all)
  BY DEF View
<1>2. \A a, x : <<a, x>> \in hidden => Unordered(a, x, t)
  BY DEF Unordered
<1> HIDE DEF hidden
<1>3. ASSUME NEW a \in DOMAIN mem
      PROVE  /\ DOMAIN all[a] = DOMAIN mem[a]
             /\ \A x \in DOMAIN mem[a] : ~Unordered(a, x, t) => all[a][x] = mem[a][x]
  <2>1. /\ DOMAIN cells(a) = DOMAIN mem[a]
        /\ \A x \in DOMAIN mem[a] : ~Unordered(a, x, t) => cells(a)[x] = mem[a][x]
    BY <1>2
  <2>2. all[a] = IF a \in racing THEN Table(cells(a)) ELSE mem[a]
    OBVIOUS
  <2> HIDE DEF cells
  <2>3. Table(cells(a)) = cells(a)
    BY TableOf
  <2>4. QED
    BY <2>1, <2>2, <2>3
<1>4. DOMAIN all = DOMAIN mem
  OBVIOUS
<1> HIDE DEF all
<1>5. Table(all) = all
  BY TableOf
<1>6. QED
  BY <1>1, <1>3, <1>4, <1>5

\* A set of naturals that is not empty has a least member.
LEMMA LeastOf ==
  ASSUME NEW S \in SUBSET Nat, S # {}
  PROVE  /\ \E n \in S : \A m \in S : n <= m
         /\ (CHOOSE n \in S : \A m \in S : n <= m) \in S
<1> DEFINE less == {e \in Nat \X Nat : e[1] < e[2]}
<1>1. less = OpToRel(<, Nat)
  BY DEF OpToRel
<1>2. IsWellFoundedOn(less, Nat)
  BY <1>1, NatLessThanWellFounded, Zenon
<1> HIDE DEF less
<1>3. PICK n \in S : \A m \in S : <<m, n>> \notin less
  BY <1>2, WFMin
<1>4. ASSUME NEW m \in S
      PROVE  n <= m
  <2>1. m \in Nat /\ n \in Nat /\ <<m, n>> \in Nat \X Nat
    OBVIOUS
  <2>2. ~(<<m, n>>[1] < <<m, n>>[2])
    BY <2>1, <1>3 DEF less
  <2>3. QED
    BY <2>1, <2>2
<1>5. QED
  BY <1>4

\* What a step makes of the state, when no two threads of the unit write the same cell:
\* every write arrives, and only the leading thread may find the cell marked.
LEMMA Stepped ==
  ASSUME IInv, Running, Straight(kernel), Marching, NEW T \in Units, Step(T),
         NEW w, DOMAIN w = T, \A u \in T : w[u] = Effect(kernel, group, Next_(u), u, View(u)),
         \A t, u \in T : \A a, x : Touches(w[t], a, x) /\ Touches(w[u], a, x) => t = u
  PROVE  /\ UNCHANGED <<kernel, group, left>>
         /\ pc' = [u \in DOMAIN pc |-> IF u \in T THEN pc[u] + 1 ELSE pc[u]]
         /\ dirty' = dirty \cup UNION {Marks(w[u], u) : u \in T}
         /\ fault' => fault \/ \E u \in T : \E a, x : Touches(w[u], a, x) /\ x \notin DOMAIN mem[a]
         /\ DOMAIN mem' = DOMAIN mem
         /\ \A a \in DOMAIN mem : DOMAIN mem'[a] = DOMAIN mem[a]
         /\ \A a \in DOMAIN mem : \A x \in DOMAIN mem[a] :
              /\ (\A u \in T : ~Touches(w[u], a, x)) => mem'[a][x] = mem[a][x]
              /\ \A u \in T : Touches(w[u], a, x) =>
                   \E t \in T : mem'[a][x] = IF Unordered(a, x, t) /\ mem[a][x] # w[u][a][x] THEN NaN ELSE w[u][a][x]
<1> DEFINE lead == CHOOSE t \in T : \A u \in T : t <= u
<1>1. PICK t \in T, kind \in {"run", "lanes"} : T \subseteq Threads(kernel) /\ \A u \in T : pc[u] = pc[t] /\ Awaits(u, kind)
  BY UnitOf
<1>2. T \in SUBSET Nat
  BY <1>1, KernelFacts, Placed
<1>3. lead \in T
  BY <1>1, <1>2, LeastOf
<1>4. ~Awaits(lead, "atomic")
  BY <1>1, <1>3, Awaited
<1> HIDE DEF lead
<1> DEFINE V == [u \in T |-> View(u)]
           W == [u \in T |-> Tabled(w[u])]
           e == Tabled(Joint(W))
<1>5. Table([u \in T |-> IF Awaits(lead, "atomic") THEN mem ELSE View(u)]) = V
  BY <1>4, TableOf
<1>6. Table([u \in T |-> Written(Next_(u), u, V[u])]) = W
  <2>1. \A u \in T : Written(Next_(u), u, V[u]) = Tabled(w[u])
    BY DEF Written
  <2>2. [u \in T |-> Written(Next_(u), u, V[u])] = W
    BY <2>1
  <2> HIDE DEF W
  <2>3. QED
    BY <2>2, TableOf
<1>7. /\ mem' = After(mem, e, lead)
      /\ dirty' = dirty \cup UNION {Marks(W[u], u) : u \in T}
      /\ fault' = (fault \/ Escapes(e))
      /\ pc' = [u \in DOMAIN pc |-> IF u \in T THEN pc[u] + 1 ELSE pc[u]]
      /\ UNCHANGED <<kernel, group, left>>
  <2> HIDE DEF V, W
  <2>1. \E v \in {Table([u \in T |-> IF Awaits(lead, "atomic") THEN mem ELSE View(u)])} :
        \E es \in {Table([u \in T |-> Written(Next_(u), u, v[u])])} :
        \E f \in {Tabled(Joint(es))} :
          /\ mem' = IF Awaits(lead, "atomic") THEN Merge(f, mem) ELSE After(mem, f, lead)
          /\ dirty' = IF Awaits(lead, "atomic") THEN dirty ELSE dirty \cup UNION {Marks(es[u], u) : u \in T}
          /\ fault' = (fault \/ Escapes(f))
    BY DEF Step, lead
  <2>2. PICK v \in {V} :
        \E es \in {Table([u \in T |-> Written(Next_(u), u, v[u])])} :
        \E f \in {Tabled(Joint(es))} :
          /\ mem' = After(mem, f, lead)
          /\ dirty' = dirty \cup UNION {Marks(es[u], u) : u \in T}
          /\ fault' = (fault \/ Escapes(f))
    BY <1>4, <1>5, <2>1
  <2>3. v = V
    OBVIOUS
  <2>4. \E es \in {W} : \E f \in {Tabled(Joint(es))} :
          /\ mem' = After(mem, f, lead)
          /\ dirty' = dirty \cup UNION {Marks(es[u], u) : u \in T}
          /\ fault' = (fault \/ Escapes(f))
    BY <1>6, <2>2, <2>3
  <2>5. mem' = After(mem, Tabled(Joint(W)), lead) /\ dirty' = dirty \cup UNION {Marks(W[u], u) : u \in T}
        /\ fault' = (fault \/ Escapes(Tabled(Joint(W))))
    BY <2>4
  <2>6. QED
    BY <2>5 DEF Step
<1>8. \A u \in T :
        /\ DOMAIN W[u] = DOMAIN w[u] /\ (\A a \in DOMAIN w[u] : W[u][a] = w[u][a])
        /\ \A a, x : Touches(W[u], a, x) <=> Touches(w[u], a, x)
  BY Tabling
<1>9. DOMAIN W = T
  OBVIOUS
<1> HIDE DEF W
<1>10. /\ \A a, x : Touches(Joint(W), a, x) <=> \E u \in T : Touches(w[u], a, x)
       /\ \A u \in T : \A a, x : Touches(w[u], a, x) => Joint(W)[a][x] = w[u][a][x]
  <2> DEFINE N(u, a, x) == Touches(w[u], a, x)
  <2>1. ASSUME NEW u \in T, NEW a, NEW x
        PROVE  Touches(W[u], a, x) <=> N(u, a, x)
    BY <1>8
  <2>2. \A r, u \in T : \A a, x : N(r, a, x) /\ N(u, a, x) => r = u
    OBVIOUS
  <2>3. /\ DOMAIN W \subseteq Int
        /\ \A r, u \in DOMAIN W : \A a, x : Touches(W[r], a, x) /\ Touches(W[u], a, x) => r = u
    <3> HIDE DEF N
    <3>1. T \subseteq Int
      BY <1>2
    <3>2. ASSUME NEW r \in T, NEW u \in T, NEW a, NEW x, Touches(W[r], a, x), Touches(W[u], a, x)
          PROVE  r = u
      BY <2>1, <2>2, <3>2
    <3> QED BY <1>9, <3>1, <3>2
  <2>4. /\ \A a, x : Touches(Joint(W), a, x) <=> \E u \in T : Touches(W[u], a, x)
        /\ \A u \in T : \A a, x : Touches(W[u], a, x) => Joint(W)[a][x] = W[u][a][x]
    BY <1>9, <2>3, JointApart
  <2>5. \A u \in T : \A a, x : Touches(w[u], a, x) => W[u][a][x] = w[u][a][x]
    BY <1>8 DEF Touches
  <2>6. \A a, x : Touches(Joint(W), a, x) <=> \E u \in T : Touches(w[u], a, x)
    <3> HIDE DEF N
    <3>1. \A a, x : Touches(Joint(W), a, x) <=> \E u \in T : N(u, a, x)
      BY <2>1, <2>4
    <3> QED BY <3>1 DEF N
  <2>7. ASSUME NEW u \in T, NEW a, NEW x, Touches(w[u], a, x)
        PROVE  Joint(W)[a][x] = w[u][a][x]
    BY <2>1, <2>4, <2>5, <2>7
  <2>8. QED
    BY <2>6, <2>7
<1>11. /\ \A a, x : Touches(e, a, x) <=> \E u \in T : Touches(w[u], a, x)
       /\ \A u \in T : \A a, x : Touches(w[u], a, x) => e[a][x] = w[u][a][x]
  <2> DEFINE J == Joint(W)
  <2>1. /\ \A a \in DOMAIN J : Tabled(J)[a] = J[a]
        /\ \A a, x : Touches(Tabled(J), a, x) <=> Touches(J, a, x)
    <3> HIDE DEF J
    <3> QED BY Tabling
  <2>2. \A a, x : Touches(J, a, x) => a \in DOMAIN J
    <3> HIDE DEF J
    <3> QED BY DEF Touches
  <2>3. QED
    BY <1>10, <2>1, <2>2
<1>12. DOMAIN e = UNION {DOMAIN w[u] : u \in T}
  <2>1. DOMAIN Joint(W) = UNION {DOMAIN W[u] : u \in DOMAIN W}
    BY DEF Joint
  <2>2. DOMAIN Tabled(Joint(W)) = DOMAIN Joint(W)
    <3> DEFINE J == Joint(W)
    <3> HIDE DEF J
    <3>1. DOMAIN Tabled(J) = DOMAIN J
      BY Tabling
    <3> QED BY <3>1 DEF J
  <2>3. QED
    BY <1>8, <1>9, <2>1, <2>2
<1> HIDE DEF e
<1>13. dirty' = dirty \cup UNION {Marks(w[u], u) : u \in T}
  <2>1. \A u \in T : Marks(W[u], u) = Marks(w[u], u)
    BY <1>8 DEF Marks
  <2>2. QED
    BY <1>7, <2>1
<1>14. fault' => fault \/ \E u \in T : \E a, x : Touches(w[u], a, x) /\ x \notin DOMAIN mem[a]
  <2> SUFFICES ASSUME NEW a \in DOMAIN e, ~(DOMAIN e[a] \subseteq DOMAIN mem[a])
               PROVE  \E u \in T : \E b, x : Touches(w[u], b, x) /\ x \notin DOMAIN mem[b]
    BY <1>7 DEF Escapes
  <2>1. PICK x \in DOMAIN e[a] : x \notin DOMAIN mem[a]
    OBVIOUS
  <2>2. PICK u \in T : Touches(w[u], a, x)
    BY <1>11, <2>1 DEF Touches
  <2>3. QED
    BY <2>1, <2>2
<1>15. /\ DOMAIN mem' = DOMAIN mem
       /\ \A a \in DOMAIN mem : DOMAIN mem'[a] = DOMAIN mem[a]
       /\ \A a \in DOMAIN mem : \A x \in DOMAIN mem[a] :
            mem'[a][x] = IF Touches(e, a, x) THEN Settle(e, lead, a, x) ELSE mem[a][x]
  BY <1>7 DEF After, Touches
<1>16. ASSUME NEW a \in DOMAIN mem, NEW x \in DOMAIN mem[a], NEW u \in T, Touches(w[u], a, x)
       PROVE  mem'[a][x] = IF Unordered(a, x, lead) /\ mem[a][x] # w[u][a][x] THEN NaN ELSE w[u][a][x]
  BY <1>11, <1>15, <1>16 DEF Settle
<1>17. QED
  BY <1>3, <1>7, <1>11, <1>13, <1>14, <1>15, <1>16

\* A barrier that orders a memory and that one thread has passed, every thread has.
LEMMA PassedByAll ==
  ASSUME IInv, Running, Straight(kernel), NEW a, NEW t \in Threads(kernel), NEW u \in Threads(kernel), NEW m \in Nat,
         Between(kernel, group, a, m, pc[t])
  PROVE  Between(kernel, group, a, m, pc[u]) /\ m < pc[u]
<1>1. PICK b \in (m + 1)..(pc[t] - 1) :
        /\ BarrierAt(kernel, group, 0, b)
        /\ (IF OfDevice(kernel, a) THEN "dev" ELSE "tg") \in Code(kernel, group, 0)[b].orders
  BY DEF Between
<1>2. kernel \in Kernels /\ group \in Groups(kernel) /\ Abreast
  BY StraightOrderly DEF IInv, Running, Resting
<1>3. DOMAIN pc = Threads(kernel) /\ pc[t] \in Nat /\ pc[u] \in Nat
  BY DEF Running
<1>4. b \in Int /\ m < b /\ b < pc[t]
  BY <1>1, <1>3
<1>5. BarrierAt(kernel, group, u, b)
  <2>1. 0 \in Threads(kernel) /\ b \in DOMAIN Code(kernel, group, 0)
    BY <1>1, <1>2, KernelFacts DEF BarrierAt
  <2>2. QED
    BY <1>1, <1>2, <2>1 DEF Straight
<1>6. b < pc[u]
  <2>1. Clear(kernel, group, u, pc[u], pc[t])
    BY <1>2, <1>3 DEF Abreast
  <2>2. QED
    BY <1>3, <1>4, <1>5, <2>1 DEF Clear
<1>7. QED
  BY <1>1, <1>3, <1>4, <1>6 DEF Between

\* What comes later than the place of a thread has not run.
LEMMA NotYet ==
  ASSUME IInv, Running, Straight(kernel), Marching, NEW a,
         NEW t \in Threads(kernel), NEW u \in Threads(kernel), NEW m \in Nat, Later(kernel, group, a, u, m, t, pc[t])
  PROVE  ~(m < pc[u]) /\ pc[t] <= m
<1>1. DOMAIN pc = Threads(kernel) /\ pc[t] \in Nat /\ pc[u] \in Nat /\ Abreast
  BY Placed
<1>2. CASE Between(kernel, group, a, pc[t], m)
  <2>1. PICK b \in (pc[t] + 1)..(m - 1) : BarrierAt(kernel, group, 0, b)
    BY <1>2 DEF Between
  <2>2. BarrierAt(kernel, group, t, b)
    <3>1. group \in Groups(kernel) /\ 0 \in Threads(kernel) /\ b \in DOMAIN Code(kernel, group, 0)
      BY <2>1, Placed DEF BarrierAt
    <3>2. QED
      BY <2>1, <3>1 DEF Straight
  <2>3. Clear(kernel, group, t, pc[t], pc[u])
    BY <1>1 DEF Abreast
  <2>4. b \in Int /\ pc[t] < b /\ b < m
    BY <1>1, <2>1
  <2>5. QED
    BY <1>1, <2>2, <2>3, <2>4 DEF Clear
<1>3. CASE Meet(kernel, group, a, u, t, pc[t], m)
  <2>1. PICK b \in pc[t]..m : SimdAt(kernel, group, t, b)
    BY <1>3 DEF Meet
  <2>2. SimdOf(kernel, t) = SimdOf(kernel, u)
    BY <1>3 DEF Meet
  <2>3. b \notin pc[t]..(pc[u] - 1)
    BY <1>1, <2>1, <2>2 DEF Marching
  <2>4. QED
    BY <1>1, <2>1, <2>3
<1>4. QED
  BY <1>1, <1>2, <1>3 DEF Later

\* What comes before the place of a thread about to act has run.
LEMMA Already ==
  ASSUME IInv, Running, Straight(kernel), Marching, NEW a, NEW T \in Units,
         NEW t \in T, NEW u \in Threads(kernel), NEW m \in Nat, Before(kernel, group, a, u, m, t, pc[t])
  PROVE  /\ m < pc[u] /\ m < pc[t]
         /\ u = t \/ Between(kernel, group, a, m, pc[u]) \/ OfThread(kernel, a)
<1>1. PICK s \in T, kind \in {"run", "lanes"} :
        /\ T \subseteq Threads(kernel)
        /\ \A r \in T : pc[r] = pc[s] /\ Awaits(r, kind)
        /\ kind = "run" => T = {s}
        /\ kind = "lanes" => T = {r \in Threads(kernel) : SimdOf(kernel, r) = SimdOf(kernel, s)}
  BY UnitOf
<1>2. DOMAIN pc = Threads(kernel) /\ t \in Threads(kernel) /\ pc[t] \in Nat /\ pc[u] \in Nat
  BY <1>1, Placed
<1>3. CASE u = t /\ m < pc[t]
  BY <1>3
<1>4. CASE Between(kernel, group, a, m, pc[t])
  <2>1. Between(kernel, group, a, m, pc[u]) /\ m < pc[u]
    BY <1>2, <1>4, PassedByAll
  <2>2. m < pc[t]
    BY <1>2, <1>4 DEF Between
  <2>3. QED
    BY <2>1, <2>2
<1>5. CASE Meet(kernel, group, a, u, t, m + 1, pc[t])
  <2>1. PICK b \in (m + 1)..pc[t] : SimdAt(kernel, group, t, b)
    BY <1>5 DEF Meet
  <2>2. OfThread(kernel, a) /\ SimdOf(kernel, t) = SimdOf(kernel, u)
    BY <1>5 DEF Meet
  <2>3. CASE b = pc[t]
    <3>1. kind = "lanes"
      BY <1>1, <1>2, <2>1, <2>3, Awaited DEF SimdAt
    <3>2. pc[u] = pc[t]
      BY <1>1, <1>2, <2>2, <3>1
    <3>3. QED
      BY <1>2, <2>1, <2>2, <3>2
  <2>4. CASE b # pc[t]
    <3>1. SimdAt(kernel, group, u, b)
      <4>1. group \in Groups(kernel) /\ b \in DOMAIN Code(kernel, group, t)
        BY <2>1, Placed DEF SimdAt
      <4>2. QED
        BY <1>2, <2>1, <2>2, <4>1 DEF Straight
    <3>2. b \notin pc[u]..(pc[t] - 1)
      BY <1>2, <2>2, <3>1 DEF Marching
    <3>3. QED
      BY <1>2, <2>1, <2>2, <2>4, <3>2
  <2>5. QED
    BY <2>3, <2>4
<1>6. QED
  BY <1>3, <1>4, <1>5 DEF Before

\* What a thread sees of a settled cell is what the lockstep run shows it.
LEMMA SettledView ==
  ASSUME IInv, Running, Straight(kernel), NEW M, NEW J, Lockstep(kernel, M), Told(M, J), NEW T \in Units, NEW t \in T
  PROVE  Agrees(kernel, M, J, group, t, pc[t], View(t))
<1>1. t \in Threads(kernel) /\ Marching
  BY UnitOf DEF Told
<1>2. /\ DOMAIN mem = DOMAIN Fresh(kernel) /\ \A a \in DOMAIN mem : DOMAIN mem[a] = DOMAIN Fresh(kernel)[a]
  BY DEF Told, Faithful
<1>3. /\ group \in Groups(kernel) /\ pc[t] \in Nat \ {0}
      /\ \A u \in Threads(kernel) : DOMAIN Code(kernel, group, u) \subseteq Nat \ {0} /\ pc[u] \in Nat
  BY <1>1, Placed
<1>4. ASSUME NEW a \in DOMAIN mem, NEW x \in DOMAIN mem[a], <<a, x>> \notin J, Settled(kernel, M, group, t, pc[t], a, x)
      PROVE  ~Unordered(a, x, t) /\ mem[a][x] = M[group][pc[t]][a][x]
  <2>1. ASSUME NEW u \in Threads(kernel), NEW m \in DOMAIN Code(kernel, group, u), Writes(kernel, M, group, u, m, a, x)
        PROVE  /\ m \in Nat /\ (m < pc[u] <=> m < pc[t])
               /\ m < pc[u] => u = t \/ Between(kernel, group, a, m, pc[u]) \/ OfThread(kernel, a)
    <3>1. m \in Nat
      BY <1>3
    <3>2. Before(kernel, group, a, u, m, t, pc[t]) \/ Later(kernel, group, a, u, m, t, pc[t])
      BY <1>4, <2>1 DEF Settled
    <3>3. CASE Before(kernel, group, a, u, m, t, pc[t])
      BY <1>1, <3>1, <3>3, Already
    <3>4. CASE Later(kernel, group, a, u, m, t, pc[t])
      BY <1>1, <1>3, <3>1, <3>4, NotYet
    <3>5. QED
      BY <3>1, <3>2, <3>3, <3>4
  <2>2. ~Unordered(a, x, t)
    <3> SUFFICES ASSUME NEW d \in dirty, Foreign(d, t), d.arr = a, d.at = x
                 PROVE  FALSE
      BY DEF Unordered
    <3>1. PICK h \in Groups(kernel), u \in Threads(kernel) : \E m \in DOMAIN Code(kernel, h, u) : MarkOf(M, d, h, u, m)
      BY DEF Told, Marked
    <3>2. PICK m \in DOMAIN Code(kernel, h, u) : MarkOf(M, d, h, u, m)
      BY <3>1
    <3>3. h = group
      BY <1>4, <3>2 DEF MarkOf, Settled, Sole
    <3>4. d.by = <<group, u>> /\ Writes(kernel, M, group, u, m, a, x) /\ m < pc[u] /\ ~OfThread(kernel, a)
          /\ ~Between(kernel, group, a, m, pc[u])
      BY <3>2, <3>3 DEF MarkOf, Past
    <3>5. u = t
      BY <2>1, <3>3, <3>4
    <3>6. QED
      BY <3>4, <3>5 DEF Foreign, Self
  <2>3. PICK p \in Nat \ {0} : CutAt(M, group, a, x, p)
    BY <1>3, <1>4 DEF Told, Cut, Settled
  <2>4. mem[a][x] = M[group][p][a][x]
    BY <2>3 DEF CutAt
  <2>5. \A u \in Threads(kernel) : \A m \in DOMAIN Code(kernel, group, u) :
          Writes(kernel, M, group, u, m, a, x) => m \in Nat /\ (m < p <=> m < pc[t])
    BY <2>1, <2>3 DEF CutAt, Past
  <2>6. M[group][p][a][x] = M[group][pc[t]][a][x]
    <3>1. \A q, r \in Nat \ {0} :
            q <= r /\ (\A u \in Threads(kernel) : \A m \in DOMAIN Code(kernel, group, u) :
                         q <= m /\ m < r => ~Writes(kernel, M, group, u, m, a, x))
            => M[group][q][a][x] = M[group][r][a][x]
      BY <1>2, <1>3 DEF Lockstep
    <3>2. CASE p <= pc[t]
      <4>1. \A u \in Threads(kernel) : \A m \in DOMAIN Code(kernel, group, u) :
              p <= m /\ m < pc[t] => ~Writes(kernel, M, group, u, m, a, x)
        BY <1>3, <2>5
      <4>2. QED
        BY <1>3, <3>1, <3>2, <4>1
    <3>3. CASE pc[t] <= p
      <4>1. \A u \in Threads(kernel) : \A m \in DOMAIN Code(kernel, group, u) :
              pc[t] <= m /\ m < p => ~Writes(kernel, M, group, u, m, a, x)
        BY <1>3, <2>5
      <4>2. QED
        BY <1>3, <3>1, <3>3, <4>1
    <3>4. QED
      BY <1>3, <3>2, <3>3
  <2>7. QED
    BY <2>2, <2>4, <2>6
<1>5. QED
  BY <1>2, <1>4, ViewOf DEF Agrees

\* No lane is overtaken beyond a SIMD instruction.
LEMMA MarchStep ==
  ASSUME IInv, Running, Straight(kernel), Marching, NEW T \in Units,
         UNCHANGED <<kernel, group, left>>,
         pc' = [u \in DOMAIN pc |-> IF u \in T THEN pc[u] + 1 ELSE pc[u]]
  PROVE  Marching'
<1>1. PICK s \in T, kind \in {"run", "lanes"} :
        /\ T \subseteq Threads(kernel)
        /\ \A r \in T : pc[r] = pc[s] /\ Awaits(r, kind)
        /\ kind = "run" => T = {s}
        /\ kind = "lanes" => T = {r \in Threads(kernel) : SimdOf(kernel, r) = SimdOf(kernel, s)}
  BY UnitOf
<1>2. DOMAIN pc = Threads(kernel) /\ DOMAIN pc' = Threads(kernel) /\ \A t \in Threads(kernel) : pc[t] \in Nat
  BY Placed
<1> SUFFICES ASSUME NEW t \in Threads(kernel), NEW u \in Threads(kernel), SimdOf(kernel, t) = SimdOf(kernel, u),
                    NEW b \in pc'[t]..(pc'[u] - 1), SimdAt(kernel, group, t, b)
             PROVE  FALSE
  BY <1>2 DEF Marching, SimdOf, SimdAt
<1>3. b \in Int /\ b \notin pc[t]..(pc[u] - 1)
  BY <1>2 DEF Marching
<1>4. u \in T /\ b = pc[u] /\ pc'[t] <= pc[u]
  BY <1>2, <1>3
<1>5. CASE kind = "run"
  <2>1. SimdAt(kernel, group, u, b)
    <3>1. group \in Groups(kernel) /\ b \in DOMAIN Code(kernel, group, t)
      BY Placed DEF SimdAt
    <3>2. QED
      BY <3>1 DEF Straight
  <2>2. Awaits(u, "run")
    BY <1>1, <1>4, <1>5
  <2>3. QED
    BY <1>4, <2>1, <2>2, Awaited DEF SimdAt
<1>6. CASE kind = "lanes"
  <2>1. t \in T /\ pc[t] = pc[u] /\ pc'[t] = pc[t] + 1
    BY <1>1, <1>2, <1>4, <1>6
  <2>2. QED
    BY <1>2, <1>4, <2>1
<1>7. QED
  BY <1>5, <1>6

\* A thread that runs an instruction of its own leaves the state as lockstep tells it.
LEMMA StepTold ==
  ASSUME IInv, Running, NEW M, NEW J, RaceFree(kernel, M, J), Lockstep(kernel, M), Told(M, J), NEW T \in Units, Step(T)
  PROVE  Told(M, J)'
<1>1. Straight(kernel) /\ Apart(kernel, M) /\ Blind(kernel, M, J) /\ Marching /\ Faithful /\ Cut(M, J) /\ Marked(M)
  BY DEF RaceFree, Told
<1>2. /\ kernel \in Kernels /\ group \in Groups(kernel) /\ 0 \in Threads(kernel) /\ DOMAIN pc = Threads(kernel)
      /\ \A t \in Threads(kernel) : pc[t] \in Nat \ {0}
      /\ \A h \in Groups(kernel), u \in Threads(kernel) : DOMAIN Code(kernel, h, u) \subseteq Nat \ {0}
  BY <1>1, Placed
<1>3. PICK s \in T, kind \in {"run", "lanes"} :
        /\ T \subseteq Threads(kernel)
        /\ \A r \in T : pc[r] = pc[s] /\ Awaits(r, kind)
        /\ kind = "run" => T = {s}
        /\ kind = "lanes" => T = {r \in Threads(kernel) : SimdOf(kernel, r) = SimdOf(kernel, s)}
  BY <1>1, UnitOf
<1>4. PICK j \in Nat \ {0} : j = pc[s]
  BY <1>2, <1>3
<1>5. PICK g \in Groups(kernel) : g = group
  BY <1>2
<1> DEFINE w == [u \in T |-> Effect(kernel, group, Next_(u), u, View(u))]
           Touch(u, a, x) == Touches(w[u], a, x)
<1>6. /\ j \in Nat \ {0}
      /\ \A u \in T : u \in Threads(kernel) /\ pc[u] = j /\ Awaits(u, kind)
  BY <1>2, <1>3, <1>4
<1>7. \A u \in T : /\ j \in DOMAIN Code(kernel, group, u) /\ Next_(u) = Code(kernel, group, u)[j]
                    /\ Acts(kernel, group, u, j) /\ Code(kernel, group, u)[j].kind = kind
                    /\ ~BarrierAt(kernel, group, u, j)
  BY <1>1, <1>6, Awaited DEF Acts, BarrierAt
<1>8. DOMAIN w = T /\ \A u \in T : w[u] = Effect(kernel, group, Next_(u), u, View(u))
  OBVIOUS
<1> HIDE DEF w
<1>9. \A u \in T : Alike(J, w[u], Does(kernel, M, group, u, j))
  <2> SUFFICES ASSUME NEW u \in T
               PROVE  Alike(J, w[u], Does(kernel, M, group, u, j))
    OBVIOUS
  <2>1. Agrees(kernel, M, J, group, u, j, View(u))
    BY <1>1, <1>6, SettledView
  <2>2. QED
    BY <1>1, <1>2, <1>6, <1>7, <1>8, <2>1 DEF Blind
<1>10. \A u \in T : \A a, x : Touch(u, a, x) <=> Writes(kernel, M, group, u, j, a, x)
  BY <1>7, <1>9 DEF Alike, Touches, Writes
<1>11. ASSUME NEW u \in T, NEW a, NEW x, Touch(u, a, x)
       PROVE  /\ a \in DOMAIN Fresh(kernel) /\ x \in DOMAIN Fresh(kernel)[a]
              /\ kind = "lanes" => OfThread(kernel, a)
              /\ Settled(kernel, M, group, u, j, a, x)
              /\ \A r \in Threads(kernel) : Writes(kernel, M, group, r, j, a, x) => r = u
              /\ <<a, x>> \notin J => w[u][a][x] = M[group][j + 1][a][x]
  <2>1. Writes(kernel, M, group, u, j, a, x)
    BY <1>10, <1>11
  <2>2. /\ a \in DOMAIN Fresh(kernel) /\ x \in DOMAIN Fresh(kernel)[a]
        /\ SimdAt(kernel, group, u, j) => OfThread(kernel, a)
        /\ Settled(kernel, M, group, u, j, a, x)
        /\ \A r \in Threads(kernel) : Writes(kernel, M, group, r, j, a, x) => r = u
    BY <1>1, <1>2, <1>6, <1>7, <2>1 DEF Apart
  <2>3. M[group][j + 1][a][x] = Does(kernel, M, group, u, j)[a][x]
    BY <1>2, <1>6, <1>7, <2>1, <2>2 DEF Lockstep
  <2>4. <<a, x>> \notin J => w[u][a][x] = Does(kernel, M, group, u, j)[a][x]
    BY <1>9, <1>11 DEF Alike, Touches
  <2>5. QED
    BY <1>7, <2>2, <2>3, <2>4 DEF SimdAt
<1>12. \A t, u \in T : \A a, x : Touch(t, a, x) /\ Touch(u, a, x) => t = u
  <2> SUFFICES ASSUME NEW t \in T, NEW u \in T, NEW a, NEW x, Touch(t, a, x), Touch(u, a, x)
               PROVE  t = u
    OBVIOUS
  <2> HIDE DEF Touch
  <2>1. Writes(kernel, M, group, u, j, a, x) /\ u \in Threads(kernel)
    BY <1>6, <1>10
  <2>2. \A r \in Threads(kernel) : Writes(kernel, M, group, r, j, a, x) => r = t
    BY <1>11
  <2>3. QED
    BY <2>1, <2>2
<1>13. /\ UNCHANGED <<kernel, group, left>>
       /\ pc' = [u \in DOMAIN pc |-> IF u \in T THEN pc[u] + 1 ELSE pc[u]]
       /\ dirty' = dirty \cup UNION {Marks(w[u], u) : u \in T}
       /\ fault' => fault \/ \E u \in T : \E a, x : Touches(w[u], a, x) /\ x \notin DOMAIN mem[a]
       /\ DOMAIN mem' = DOMAIN mem
       /\ \A a \in DOMAIN mem : DOMAIN mem'[a] = DOMAIN mem[a]
       /\ \A a \in DOMAIN mem : \A x \in DOMAIN mem[a] :
            /\ (\A u \in T : ~Touch(u, a, x)) => mem'[a][x] = mem[a][x]
            /\ \A u \in T : Touch(u, a, x) =>
                 \E t \in T : mem'[a][x] = IF Unordered(a, x, t) /\ mem[a][x] # w[u][a][x] THEN NaN ELSE w[u][a][x]
  <2>1. \A t, u \in T : \A a, x : Touches(w[t], a, x) /\ Touches(w[u], a, x) => t = u
    BY <1>12
  <2>2. QED
    BY <1>1, <1>8, <2>1, Stepped
<1>14. kernel' = kernel /\ group' = group /\ left' = left
  BY <1>13
<1>15. \A u \in Threads(kernel) : pc'[u] = IF u \in T THEN j + 1 ELSE pc[u]
  BY <1>2, <1>6, <1>13
<1>16. ASSUME NEW h \in Groups(kernel), NEW u \in Threads(kernel), NEW m \in DOMAIN Code(kernel, h, u)
       PROVE  /\ m \in Nat \ {0}
              /\ Past(h, u, m)' <=> Past(h, u, m) \/ (h = group /\ u \in T /\ m = j)
  <2>1. m \in Nat \ {0} /\ pc[u] \in Nat
    BY <1>2
  <2>2. CASE h = group
    BY <1>6, <1>14, <1>15, <2>1, <2>2 DEF Past
  <2>3. CASE h # group
    BY <1>14, <2>1, <2>3 DEF Past
  <2>4. QED
    BY <2>2, <2>3
<1>17. \A a \in DOMAIN mem : DOMAIN mem[a] = DOMAIN Fresh(kernel)[a]
  BY <1>1 DEF Faithful
<1>18. Faithful'
  <2>1. ASSUME NEW u \in T, NEW a, NEW x, Touches(w[u], a, x)
        PROVE  x \in DOMAIN mem[a]
    BY <1>1, <1>11, <2>1 DEF Faithful
  <2>2. ~fault'
    BY <1>1, <1>13, <2>1 DEF Faithful
  <2>3. QED
    BY <1>1, <1>13, <2>2 DEF Faithful
<1>19. Marching'
  BY <1>1, <1>13, MarchStep
<1>20. ASSUME NEW u \in T, NEW a \in DOMAIN mem, NEW x \in DOMAIN mem[a], <<a, x>> \notin J, Touch(u, a, x)
       PROVE  CutAt(M, g, a, x, j + 1)'
  <2>1. \A t \in T : ~Unordered(a, x, t)
    <3> SUFFICES ASSUME NEW t \in T, NEW d \in dirty, Foreign(d, t), d.arr = a, d.at = x
                 PROVE  FALSE
      BY DEF Unordered
    <3>1. PICK h \in Groups(kernel), r \in Threads(kernel) : \E m \in DOMAIN Code(kernel, h, r) : MarkOf(M, d, h, r, m)
      BY <1>1 DEF Marked
    <3>2. PICK m \in DOMAIN Code(kernel, h, r) : MarkOf(M, d, h, r, m)
      BY <3>1
    <3>3. h = group
      BY <1>11, <1>20, <3>2 DEF MarkOf, Settled, Sole
    <3>4. d.by = <<group, r>> /\ Writes(kernel, M, group, r, m, a, x) /\ m < pc[r] /\ ~OfThread(kernel, a)
          /\ ~Between(kernel, group, a, m, pc[r]) /\ m \in Nat
      BY <1>16, <3>2, <3>3 DEF MarkOf, Past
    <3>5. T = {u} /\ t = u
      BY <1>3, <1>11, <1>20, <3>4
    <3>6. Before(kernel, group, a, r, m, u, pc[u]) \/ Later(kernel, group, a, r, m, u, pc[u])
      BY <1>6, <1>11, <1>20, <3>3, <3>4 DEF Settled
    <3>7. ~Later(kernel, group, a, r, m, u, pc[u])
      BY <1>1, <1>6, <3>4, NotYet
    <3>8. r = u
      BY <1>1, <1>6, <3>4, <3>6, <3>7, Already
    <3>9. QED
      BY <3>4, <3>5, <3>8 DEF Foreign, Self
  <2>2. mem'[a][x] = w[u][a][x]
    BY <1>13, <1>20, <2>1
  <2>3. mem'[a][x] = M[group][j + 1][a][x]
    BY <1>11, <1>20, <2>2
  <2>4. ASSUME NEW r \in Threads(kernel), NEW m \in DOMAIN Code(kernel, group, r), Writes(kernel, M, group, r, m, a, x)
        PROVE  Past(g, r, m)' <=> m < j + 1
    <3>1. m \in Nat
      BY <1>2, <1>16
    <3>2. CASE r \in T
      BY <1>6, <1>5, <1>14, <1>15, <3>1, <3>2 DEF Past
    <3>3. CASE r \notin T
      <4>1. m # j
        BY <1>11, <1>20, <2>4, <3>3
      <4>2. Before(kernel, group, a, r, m, u, pc[u]) \/ Later(kernel, group, a, r, m, u, pc[u])
        BY <1>6, <1>11, <1>20, <2>4 DEF Settled
      <4>3. CASE Before(kernel, group, a, r, m, u, pc[u])
        <5>1. m < pc[r] /\ m < j
          BY <1>1, <1>6, <3>1, <4>3, Already
        <5>2. QED
          BY <1>6, <1>5, <1>14, <1>15, <3>1, <3>3, <5>1 DEF Past
      <4>4. CASE Later(kernel, group, a, r, m, u, pc[u])
        <5>1. ~(m < pc[r]) /\ j <= m
          BY <1>1, <1>6, <3>1, <4>4, NotYet
        <5>2. QED
          BY <1>6, <1>5, <1>14, <1>15, <3>1, <3>3, <4>1, <5>1 DEF Past
      <4>5. QED
        BY <4>2, <4>3, <4>4
    <3>4. QED
      BY <3>2, <3>3
  <2>5. QED
    BY <1>5, <1>14, <2>3, <2>4 DEF CutAt
<1>21. Cut(M, J)'
  <2> SUFFICES ASSUME NEW a \in DOMAIN mem, NEW x \in DOMAIN mem[a], NEW h \in Groups(kernel), <<a, x>> \notin J,
                      h = group \/ OfDevice(kernel, a), Sole(kernel, M, h, a, x)
               PROVE  \E p \in Nat \ {0} : CutAt(M, h, a, x, p)'
    BY <1>13 DEF Cut
  <2>1. CASE \E u \in T : Touch(u, a, x)
    <3>1. PICK u \in T : Touch(u, a, x)
      BY <2>1
    <3>2. h = group
      BY <1>2, <1>6, <1>7, <1>10, <3>1 DEF Sole
    <3>3. j + 1 \in Nat \ {0}
      BY <1>6
    <3>4. QED
      BY <1>5, <1>20, <3>1, <3>2, <3>3
  <2>2. CASE \A u \in T : ~Touch(u, a, x)
    <3>1. PICK p \in Nat \ {0} : CutAt(M, h, a, x, p)
      BY <1>1 DEF Cut
    <3>2. mem'[a][x] = M[h][p][a][x]
      BY <1>13, <2>2, <3>1 DEF CutAt
    <3>3. ASSUME NEW u \in Threads(kernel), NEW m \in DOMAIN Code(kernel, h, u), Writes(kernel, M, h, u, m, a, x)
          PROVE  Past(h, u, m)' <=> m < p
      <4>1. ~(h = group /\ u \in T /\ m = j)
        BY <1>10, <2>2, <3>3
      <4>2. QED
        BY <1>16, <3>1, <3>3, <4>1 DEF CutAt
    <3>4. CutAt(M, h, a, x, p)'
      BY <1>14, <3>2, <3>3 DEF CutAt
    <3>5. QED
      BY <3>4
  <2>3. QED
    BY <2>1, <2>2
<1>22. Marked(M)'
  <2> SUFFICES ASSUME NEW d \in dirty'
               PROVE  \E h \in Groups(kernel), u \in Threads(kernel) : \E m \in DOMAIN Code(kernel, h, u) : MarkOf(M, d, h, u, m)'
    BY <1>13 DEF Marked
  <2>1. CASE d \in dirty
    <3>1. PICK h \in Groups(kernel), u \in Threads(kernel) : \E m \in DOMAIN Code(kernel, h, u) : MarkOf(M, d, h, u, m)
      BY <1>1, <2>1 DEF Marked
    <3>2. PICK m \in DOMAIN Code(kernel, h, u) : MarkOf(M, d, h, u, m)
      BY <3>1
    <3>3. ASSUME h = group
          PROVE  ~Between(kernel, group, d.arr, m, pc'[u])
      <4>1. m \in Nat /\ ~Between(kernel, group, d.arr, m, pc[u])
        BY <1>16, <3>2, <3>3 DEF MarkOf
      <4>2. CASE u \notin T
        BY <1>15, <4>1, <4>2
      <4>3. CASE u \in T
        <5>1. pc'[u] = j + 1 /\ pc[u] = j
          BY <1>6, <1>15, <4>3
        <5>2. ~BarrierAt(kernel, group, 0, j)
          <6>1. ASSUME BarrierAt(kernel, group, 0, j)
                PROVE  FALSE
            <7>1. j \in DOMAIN Code(kernel, group, 0)
              BY <6>1 DEF BarrierAt
            <7>2. BarrierAt(kernel, group, u, j)
              BY <1>1, <1>2, <1>6, <4>3, <6>1, <7>1 DEF Straight
            <7>3. QED
              BY <1>7, <4>3, <7>2
          <6>2. QED
            BY <6>1
        <5>3. ASSUME NEW b \in (m + 1)..((j + 1) - 1), b # j
              PROVE  b \in (m + 1)..(j - 1)
          BY <1>6, <4>1, <5>3
        <5>4. QED
          BY <4>1, <5>1, <5>2, <5>3 DEF Between
      <4>4. QED
        BY <4>2, <4>3
    <3>4. Past(h, u, m)'
      BY <1>16, <3>2 DEF MarkOf
    <3>5. MarkOf(M, d, h, u, m)'
      BY <1>14, <3>2, <3>3, <3>4 DEF MarkOf
    <3>6. QED
      BY <3>5
  <2>2. CASE \E u \in T : d \in Marks(w[u], u)
    <3>1. PICK u \in T : d \in Marks(w[u], u)
      BY <2>2
    <3>2. d.by = <<group, u>> /\ Touch(u, d.arr, d.at) /\ ~OfThread(kernel, d.arr)
      BY <3>1 DEF Marks, Self, Touches, Private, OfThread
    <3>3. ~Between(kernel, group, d.arr, j, pc'[u])
      <4>1. pc'[u] = j + 1
        BY <1>6, <1>15
      <4>2. (j + 1)..(pc'[u] - 1) = {}
        BY <1>6, <4>1
      <4>3. QED
        BY <4>2 DEF Between
    <3>4. Past(g, u, j)'
      BY <1>6, <1>7, <1>16, <1>5
    <3>5. Writes(kernel, M, group, u, j, d.arr, d.at)
      BY <1>10, <3>2
    <3>6. MarkOf(M, d, g, u, j)'
      BY <1>5, <1>14, <3>2, <3>3, <3>4, <3>5 DEF MarkOf
    <3>7. QED
      BY <1>6, <1>7, <1>5, <3>6
  <2>3. QED
    BY <1>13, <2>1, <2>2
<1>23. QED
  BY <1>18, <1>19, <1>21, <1>22 DEF Told

\* A barrier that is passed leaves the state as lockstep tells it.
LEMMA SyncTold ==
  ASSUME IInv, Running, NEW M, NEW J, RaceFree(kernel, M, J), Lockstep(kernel, M), Told(M, J), Sync
  PROVE  Told(M, J)'
<1>1. /\ kernel \in Kernels /\ group \in Groups(kernel) /\ DOMAIN pc = Threads(kernel)
      /\ Straight(kernel) /\ 0 \in Threads(kernel) /\ UNCHANGED <<kernel, group, left, mem, fault>>
      /\ \A h \in Groups(kernel), u \in Threads(kernel) : DOMAIN Code(kernel, h, u) \subseteq Nat \ {0}
  BY Placed DEF RaceFree, Sync
<1>2. ASSUME NEW u \in Threads(kernel)
      PROVE  /\ pc[u] = pc[0] /\ pc[u] \in Nat /\ pc'[u] = pc[0] + 1
             /\ BarrierAt(kernel, group, u, pc[0])
             /\ Next_(u) = Code(kernel, group, u)[pc[0]]
  <2>1. pc[u] = pc[0] /\ Awaits(u, "barrier") /\ pc'[u] = pc[u] + 1 /\ pc[u] \in Nat
    BY <1>1 DEF Sync, Running
  <2>2. pc[u] \in DOMAIN Code(kernel, group, u) /\ Next_(u) = Code(kernel, group, u)[pc[u]] /\ Next_(u).kind = "barrier"
    BY <1>1, <2>1, Awaited
  <2>3. QED
    BY <2>1, <2>2 DEF BarrierAt
<1>3. ASSUME NEW h \in Groups(kernel), NEW u \in Threads(kernel), NEW m \in DOMAIN Code(kernel, h, u),
             NEW a, NEW x, Writes(kernel, M, h, u, m, a, x)
      PROVE  m \in Nat /\ (Past(h, u, m)' <=> Past(h, u, m))
  <2>1. m \in Nat /\ pc[0] \in Nat
    BY <1>1, <1>2
  <2>2. CASE h = group
    <3>1. m # pc[0]
      BY <1>2, <1>3, <2>2 DEF BarrierAt, Writes, Acts
    <3>2. QED
      BY <1>1, <1>2, <2>1, <2>2, <3>1 DEF Past
  <2>3. CASE h # group
    BY <1>1, <2>1, <2>3 DEF Past
  <2>4. QED
    BY <2>2, <2>3
<1>4. Faithful'
  BY <1>1 DEF Told, Faithful
<1>5. Marching'
  <2> SUFFICES ASSUME NEW t \in Threads(kernel), NEW u \in Threads(kernel), NEW b \in pc'[t]..(pc'[u] - 1)
               PROVE  FALSE
    <3>1. DOMAIN pc' = Threads(kernel)
      BY <1>1 DEF Sync
    <3>2. QED
      BY <3>1 DEF Marching
  <2>1. pc'[t] = pc[0] + 1 /\ pc'[u] = pc[0] + 1 /\ pc[0] \in Nat
    BY <1>1, <1>2
  <2>2. QED
    BY <2>1
<1>6. Cut(M, J)'
  <2> SUFFICES ASSUME NEW a \in DOMAIN mem, NEW x \in DOMAIN mem[a], NEW h \in Groups(kernel), <<a, x>> \notin J,
                      h = group \/ OfDevice(kernel, a), Sole(kernel, M, h, a, x)
               PROVE  \E p \in Nat \ {0} : CutAt(M, h, a, x, p)'
    BY <1>1 DEF Cut
  <2>1. PICK p \in Nat \ {0} : CutAt(M, h, a, x, p)
    BY DEF Told, Cut
  <2>2. \A u \in Threads(kernel) : \A m \in DOMAIN Code(kernel, h, u) :
          Writes(kernel, M, h, u, m, a, x) => (Past(h, u, m)' <=> m < p)
    BY <1>3, <2>1 DEF CutAt
  <2>3. CutAt(M, h, a, x, p)'
    BY <1>1, <2>1, <2>2 DEF CutAt
  <2>4. QED
    BY <2>3
<1>7. Marked(M)'
  <2> SUFFICES ASSUME NEW d \in dirty'
               PROVE  \E h \in Groups(kernel), u \in Threads(kernel) : \E m \in DOMAIN Code(kernel, h, u) : MarkOf(M, d, h, u, m)'
    BY <1>1 DEF Marked
  <2>1. d \in dirty /\ (d.by[1] # group \/ Space(d.arr) \notin Next_(0).orders)
    BY DEF Sync
  <2>2. PICK h \in Groups(kernel), u \in Threads(kernel) : \E m \in DOMAIN Code(kernel, h, u) : MarkOf(M, d, h, u, m)
    BY <2>1 DEF Told, Marked
  <2>3. PICK m \in DOMAIN Code(kernel, h, u) : MarkOf(M, d, h, u, m)
    BY <2>2
  <2>4. ASSUME h = group
        PROVE  ~Between(kernel, group, d.arr, m, pc'[u])
    <3> SUFFICES ASSUME NEW b \in (m + 1)..(pc'[u] - 1),
                        (IF OfDevice(kernel, d.arr) THEN "dev" ELSE "tg") \in Code(kernel, group, 0)[b].orders,
                        b \notin (m + 1)..(pc[u] - 1)
                 PROVE  FALSE
      BY <2>3, <2>4 DEF Between, MarkOf
    <3>1. m \in Nat /\ pc[u] = pc[0] /\ pc'[u] = pc[0] + 1 /\ pc[0] \in Nat
      BY <1>1, <1>2
    <3>2. b = pc[0]
      BY <3>1
    <3>3. Space(d.arr) \in Next_(0).orders
      BY <1>1, <1>2, <3>2 DEF Space, OfDevice
    <3>4. d.by[1] = group
      BY <2>3, <2>4 DEF MarkOf
    <3>5. QED
      BY <2>1, <3>3, <3>4
  <2>5. Past(h, u, m)'
    BY <1>3, <2>3 DEF MarkOf
  <2>6. MarkOf(M, d, h, u, m)'
    BY <1>1, <2>3, <2>4, <2>5 DEF MarkOf
  <2>7. QED
    BY <2>6
<1>8. QED
  BY <1>4, <1>5, <1>6, <1>7 DEF Told

\* A threadgroup starts or ends: its own memory is fresh again, device memory is kept.
LEMMA TurnTold ==
  ASSUME IInv, NEW M, NEW J, RaceFree(kernel, M, J), Lockstep(kernel, M), Told(M, J),
         kernel' = kernel, fault' = fault, Marching',
         group' \in Groups(kernel) \cup {Idle}, group' \notin left',
         mem' = Overlay(Locals(kernel), mem),
         dirty' = {d \in dirty : d.arr \in DOMAIN Arrays(kernel).dev},
         \A h \in Groups(kernel), u \in Threads(kernel) : \A m \in DOMAIN Code(kernel, h, u) :
           /\ Past(h, u, m)' <=> Past(h, u, m)
           /\ h = group' => ~Past(h, u, m)
  PROVE  Told(M, J)'
<1> DEFINE L == Locals(kernel)
           D == DOMAIN Arrays(kernel).dev
<1>1. /\ ~fault /\ DOMAIN mem = DOMAIN Fresh(kernel)
      /\ \A a \in DOMAIN mem : DOMAIN mem[a] = DOMAIN Fresh(kernel)[a]
  BY DEF Told, Faithful
<1>2. D \cap DOMAIN L = {}
  BY DEF RaceFree, Distinct
<1>3. /\ DOMAIN Fresh(kernel) = D \cup DOMAIN L
      /\ \A a \in DOMAIN L : Fresh(kernel)[a] = L[a]
  BY <1>2 DEF Fresh, Overlay
<1>4. /\ DOMAIN mem' = DOMAIN mem
      /\ \A a \in DOMAIN mem : mem'[a] = IF a \in DOMAIN L THEN Fresh(kernel)[a] ELSE mem[a]
  BY <1>1, <1>3 DEF Overlay
<1>5. \A a \in DOMAIN mem : a \in DOMAIN L <=> ~OfDevice(kernel, a)
  BY <1>1, <1>2, <1>3 DEF OfDevice
<1> HIDE DEF L, D
<1>6. \A h \in Groups(kernel), u \in Threads(kernel) : DOMAIN Code(kernel, h, u) \subseteq Nat \ {0}
  <2>1. kernel \in Kernels
    BY DEF IInv
  <2>2. QED
    BY <2>1, KernelFacts
<1>7. Faithful'
  BY <1>1, <1>4 DEF Faithful
<1>8. Cut(M, J)'
  <2> SUFFICES ASSUME NEW a \in DOMAIN mem, NEW x \in DOMAIN mem'[a], NEW h \in Groups(kernel), <<a, x>> \notin J,
                      h = group' \/ OfDevice(kernel, a), Sole(kernel, M, h, a, x)
               PROVE  \E p \in Nat \ {0} : CutAt(M, h, a, x, p)'
    BY <1>4 DEF Cut
  <2>1. CASE OfDevice(kernel, a)
    <3>1. mem'[a] = mem[a]
      BY <1>4, <1>5, <2>1
    <3>2. PICK p \in Nat \ {0} : CutAt(M, h, a, x, p)
      BY <2>1, <3>1 DEF Told, Cut
    <3>3. CutAt(M, h, a, x, p)'
      BY <3>1, <3>2 DEF CutAt
    <3>4. QED
      BY <3>3
  <2>2. CASE ~OfDevice(kernel, a)
    <3>1. mem'[a][x] = M[h][1][a][x]
      BY <1>1, <1>4, <1>5, <2>2 DEF Lockstep
    <3>2. ASSUME NEW u \in Threads(kernel), NEW m \in DOMAIN Code(kernel, h, u)
          PROVE  Past(h, u, m)' <=> m < 1
      <4>1. ~(m < 1)
        BY <1>6
      <4>2. QED
        BY <2>2, <4>1
    <3>3. CutAt(M, h, a, x, 1)'
      BY <3>1, <3>2 DEF CutAt
    <3>4. QED
      BY <3>3
  <2>3. QED
    BY <2>1, <2>2
<1>9. Marked(M)'
  <2> SUFFICES ASSUME NEW d \in dirty'
               PROVE  \E h \in Groups(kernel), u \in Threads(kernel) : \E m \in DOMAIN Code(kernel, h, u) : MarkOf(M, d, h, u, m)'
    BY DEF Marked
  <2>1. d \in dirty /\ OfDevice(kernel, d.arr)
    BY DEF OfDevice
  <2>2. PICK h \in Groups(kernel), u \in Threads(kernel) : \E m \in DOMAIN Code(kernel, h, u) : MarkOf(M, d, h, u, m)
    BY <2>1 DEF Told, Marked
  <2>3. PICK m \in DOMAIN Code(kernel, h, u) : MarkOf(M, d, h, u, m)
    BY <2>2
  <2>4. Past(h, u, m)' /\ h # group'
    BY <2>3 DEF MarkOf
  <2>5. MarkOf(M, d, h, u, m)'
    BY <2>1, <2>3, <2>4 DEF MarkOf
  <2>6. QED
    BY <2>5
<1>10. QED
  BY <1>7, <1>8, <1>9 DEF Told

\* Every step leaves the state as lockstep tells it.
LEMMA NextTold ==
  ASSUME IInv, NEW M, NEW J, RaceFree(kernel, M, J), Lockstep(kernel, M), Told(M, J), [Next]_vars
  PROVE  Told(M, J)'
<1>1. kernel \in Kernels /\ Straight(kernel) /\ (Running \/ Resting) /\ left \subseteq Groups(kernel)
  BY DEF IInv, RaceFree
<1>2. Resting => DOMAIN pc = {}
  BY DEF Resting
<1>3. Running => DOMAIN pc = Threads(kernel)
  BY DEF Running
<1>4. ASSUME NEW t \in DOMAIN pc, NEW kind, Awaits(t, kind)
      PROVE  Running /\ kind \in {"run", "lanes", "barrier"}
  BY <1>1, <1>2, <1>3, <1>4, Awaited
<1>5. ASSUME NEW g \in left, Begin(g)
      PROVE  Told(M, J)'
  <2>1. group = Idle /\ group' = g /\ left' = left \ {g} /\ pc' = [t \in Threads(kernel) |-> 1]
        /\ kernel' = kernel /\ fault' = fault /\ mem' = Overlay(Locals(kernel), mem)
        /\ dirty' = {d \in dirty : d.arr \in DOMAIN Arrays(kernel).dev}
    BY <1>5 DEF Begin
  <2>2. ASSUME NEW h \in Groups(kernel), NEW u \in Threads(kernel), NEW m \in DOMAIN Code(kernel, h, u)
        PROVE  (Past(h, u, m)' <=> Past(h, u, m)) /\ (h = group' => ~Past(h, u, m))
    <3>1. h # group
      BY <1>1, <2>1, KernelFacts
    <3>2. m \in Nat \ {0}
      BY <1>1, KernelFacts
    <3>3. pc'[u] = 1
      BY <2>1
    <3>4. QED
      BY <2>1, <3>1, <3>2, <3>3 DEF Past
  <2>3. Marching'
    BY <2>1 DEF Marching
  <2>4. QED
    BY <1>1, <2>1, <2>2, <2>3, TurnTold
<1>6. ASSUME Finish
      PROVE  Told(M, J)'
  <2>1. group # Idle /\ Running /\ group' = Idle /\ pc' = <<>> /\ UNCHANGED <<kernel, left, fault>>
        /\ mem' = Overlay(Locals(kernel), mem)
        /\ dirty' = {d \in dirty : d.arr \in DOMAIN Arrays(kernel).dev}
    BY <1>1, <1>6 DEF Finish, Resting
  <2>2. Idle \notin Groups(kernel) /\ group \notin left
    BY <1>1, KernelFacts DEF Told, Faithful
  <2>3. ASSUME NEW h \in Groups(kernel), NEW u \in Threads(kernel), NEW m \in DOMAIN Code(kernel, h, u)
        PROVE  (Past(h, u, m)' <=> Past(h, u, m)) /\ (h = group' => ~Past(h, u, m))
    <3>1. CASE h = group
      <4>1. m \in Nat /\ m <= Len(Code(kernel, group, u)) /\ Len(Code(kernel, group, u)) \in Nat
        BY <1>1, <2>1, <3>1, KernelFacts
      <4>2. pc[u] > Len(Code(kernel, group, u)) /\ pc[u] \in Nat
        BY <1>6, <2>1 DEF Finish, Ended, Running
      <4>3. m < pc[u]
        BY <4>1, <4>2
      <4>4. QED
        BY <2>1, <2>2, <3>1, <4>3 DEF Past
    <3>2. CASE h # group
      BY <2>1, <2>2, <3>2 DEF Past
    <3>3. QED
      BY <3>1, <3>2
  <2>4. Marching'
    BY <2>1 DEF Marching
  <2>5. QED
    BY <1>1, <2>1, <2>2, <2>3, <2>4, TurnTold
<1>7. ASSUME NEW T \in Units, Step(T)
      PROVE  Told(M, J)'
  <2>1. Running
    BY <1>1, <1>2 DEF Units
  <2>2. QED
    BY <1>7, <2>1, StepTold
<1>8. ASSUME NEW t \in DOMAIN pc, Branch(t) \/ Fence(t)
      PROVE  Told(M, J)'
  BY <1>4, <1>8 DEF Branch, Fence
<1>9. ASSUME NEW s, SimdSync(s), group # Idle
      PROVE  Told(M, J)'
  <2>1. Running
    BY <1>1, <1>9 DEF Resting
  <2>2. LanesOf(kernel, s) = {}
    BY <1>3, <1>4, <1>9, <2>1 DEF SimdSync, LanesOf
  <2>3. dirty' = dirty /\ UNCHANGED <<kernel, group, left, mem, fault>>
    BY <1>9, <2>2 DEF SimdSync
  <2>4. pc' = pc
    BY <1>9, <2>1, <2>2 DEF SimdSync, Running
  <2>5. QED
    BY <2>3, <2>4 DEF Told, Faithful, Marching, Cut, CutAt, Marked, MarkOf, Past
<1>10. ASSUME Sync
       PROVE  Told(M, J)'
  <2>1. Running
    BY <1>1, <1>10 DEF Sync, Resting
  <2>2. QED
    BY <1>10, <2>1, SyncTold
<1>11. ASSUME UNCHANGED vars
       PROVE  Told(M, J)'
  BY <1>11 DEF vars, Told, Faithful, Marching, Cut, CutAt, Marked, MarkOf, Past
<1>12. QED
  BY <1>5, <1>6, <1>7, <1>8, <1>9, <1>10, <1>11 DEF Next, Stay

\* The first state is the first of the lockstep history.
LEMMA InitTold ==
  ASSUME Init, NEW M, NEW J, Lockstep(kernel, M)
  PROVE  Told(M, J)
<1>1. PICK k \in Kernels : Start(k)
  BY DEF Init
<1>2. /\ kernel \in Kernels /\ group = Idle /\ left = Groups(kernel) /\ pc = <<>>
      /\ mem = Fresh(kernel) /\ dirty = {} /\ ~fault
  BY <1>1 DEF Start
<1>3. Idle \notin Groups(kernel) /\ \A h \in Groups(kernel), u \in Threads(kernel) : DOMAIN Code(kernel, h, u) \subseteq Nat \ {0}
  BY <1>2, KernelFacts
<1>4. \A h \in Groups(kernel) : \A u, m : ~Past(h, u, m)
  BY <1>2, <1>3 DEF Past
<1>5. ASSUME NEW a \in DOMAIN mem, NEW x \in DOMAIN mem[a], NEW h \in Groups(kernel)
      PROVE  CutAt(M, h, a, x, 1)
  <2>1. mem[a][x] = M[h][1][a][x]
    BY <1>2 DEF Lockstep
  <2>2. \A u \in Threads(kernel) : \A m \in DOMAIN Code(kernel, h, u) : ~Past(h, u, m) /\ ~(m < 1)
    BY <1>3, <1>4
  <2>3. QED
    BY <2>1, <2>2 DEF CutAt
<1>6. Cut(M, J)
  BY <1>5 DEF Cut
<1>7. QED
  BY <1>2, <1>3, <1>6 DEF Told, Faithful, Marching, Marked

\* every wanted cell ends, in lockstep, with the wanted value
Wanted(k, M, J) ==
  LET want == Wants(k) IN
  \A a \in DOMAIN want : \A x \in DOMAIN want[a] :
    /\ OfDevice(k, a) /\ a \in DOMAIN Fresh(k) /\ x \in DOMAIN Fresh(k)[a] /\ <<a, x>> \notin J
    /\ want[a][x] = NaN => k.poison
    /\ \E h \in Groups(k) :
         /\ Sole(k, M, h, a, x)
         /\ \E q \in Nat \ {0} :
              /\ \A u \in Threads(k) : DOMAIN Code(k, h, u) \subseteq 1..(q - 1)
              /\ M[h][q][a][x] = want[a][x]
Orderless(k) == \E M, J : RaceFree(k, M, J) /\ Lockstep(k, M) /\ Wanted(k, M, J)

\* When every group has run, the outputs hold what the lockstep history ends with.
LEMMA DoneTold ==
  ASSUME IInv, NEW M, NEW J, RaceFree(kernel, M, J), Lockstep(kernel, M), Told(M, J), Wanted(kernel, M, J)
  PROVE  InBounds /\ OutputsRight
<1>1. InBounds
  BY DEF InBounds, Told, Faithful
<1>2. ASSUME Done, NEW want, want = Wants(kernel), NEW a \in DOMAIN want, NEW x \in DOMAIN want[a]
      PROVE  mem[a][x] = want[a][x] /\ (mem[a][x] = NaN => kernel.poison)
  <2>1. kernel \in Kernels /\ group = Idle /\ left = {} /\ Idle \notin Groups(kernel)
    BY <1>2, KernelFacts DEF Done, IInv
  <2>2. /\ OfDevice(kernel, a) /\ a \in DOMAIN Fresh(kernel) /\ x \in DOMAIN Fresh(kernel)[a] /\ <<a, x>> \notin J
        /\ want[a][x] = NaN => kernel.poison
        /\ \E h \in Groups(kernel) :
             /\ Sole(kernel, M, h, a, x)
             /\ \E q \in Nat \ {0} :
                  /\ \A u \in Threads(kernel) : DOMAIN Code(kernel, h, u) \subseteq 1..(q - 1)
                  /\ M[h][q][a][x] = want[a][x]
    BY <1>2 DEF Wanted
  <2>3. PICK h \in Groups(kernel) :
          /\ Sole(kernel, M, h, a, x)
          /\ \E q \in Nat \ {0} :
               /\ \A u \in Threads(kernel) : DOMAIN Code(kernel, h, u) \subseteq 1..(q - 1)
               /\ M[h][q][a][x] = want[a][x]
    BY <2>2
  <2>4. PICK q \in Nat \ {0} :
          /\ \A u \in Threads(kernel) : DOMAIN Code(kernel, h, u) \subseteq 1..(q - 1)
          /\ M[h][q][a][x] = want[a][x]
    BY <2>3
  <2>5. a \in DOMAIN mem /\ x \in DOMAIN mem[a]
    BY <2>2 DEF Told, Faithful
  <2>6. PICK p \in Nat \ {0} : CutAt(M, h, a, x, p)
    BY <2>2, <2>3, <2>5 DEF Told, Cut
  <2>7. \A u \in Threads(kernel) : \A m \in DOMAIN Code(kernel, h, u) :
          m \in Nat /\ m < q /\ (Writes(kernel, M, h, u, m, a, x) => m < p)
    <3>1. \A u, m : Past(h, u, m)
      BY <2>1 DEF Past
    <3>2. QED
      BY <2>4, <2>6, <3>1 DEF CutAt
  <2>8. M[h][p][a][x] = M[h][q][a][x]
    <3>1. \A r, s \in Nat \ {0} :
            r <= s /\ (\A u \in Threads(kernel) : \A m \in DOMAIN Code(kernel, h, u) :
                         r <= m /\ m < s => ~Writes(kernel, M, h, u, m, a, x))
            => M[h][r][a][x] = M[h][s][a][x]
      BY <2>2 DEF Lockstep
    <3>2. CASE p <= q
      <4>1. \A u \in Threads(kernel) : \A m \in DOMAIN Code(kernel, h, u) :
              p <= m /\ m < q => ~Writes(kernel, M, h, u, m, a, x)
        BY <2>7
      <4>2. QED
        BY <3>1, <3>2, <4>1
    <3>3. CASE q <= p
      <4>1. \A u \in Threads(kernel) : \A m \in DOMAIN Code(kernel, h, u) :
              q <= m /\ m < p => ~Writes(kernel, M, h, u, m, a, x)
        BY <2>7
      <4>2. QED
        BY <3>1, <3>3, <4>1
    <3>4. QED
      BY <3>2, <3>3
  <2>9. mem[a][x] = want[a][x]
    BY <2>4, <2>6, <2>8 DEF CutAt
  <2>10. QED
    BY <2>2, <2>9
<1>3. QED
  BY <1>1, <1>2 DEF OutputsRight

\* Every interleaving of the threads and threadgroups of an orderless kernel stays in
\* bounds and ends with the promised outputs: the template's result does not depend on
\* the schedule that the GPU chooses.
THEOREM OrderlessRight == Spec => [](Orderless(kernel) => InBounds /\ OutputsRight)
<1> DEFINE K == \A M, J : RaceFree(kernel, M, J) /\ Lockstep(kernel, M) => Told(M, J)
<1>1. Init => K
  BY InitTold
<1>2. IInv /\ K /\ [Next]_vars => K'
  <2> SUFFICES ASSUME IInv, K, [Next]_vars, NEW M, NEW J, RaceFree(kernel, M, J)', Lockstep(kernel, M)'
               PROVE  Told(M, J)'
    OBVIOUS
  <2>1. kernel' = kernel
    BY DEF Next, vars, Begin, Step, Branch, Fence, SimdSync, Sync, Finish, Stay
  <2>2. RaceFree(kernel, M, J) /\ Lockstep(kernel, M)
    BY <2>1
  <2>3. QED
    BY <2>2, NextTold
<1>3. IInv /\ K => (Orderless(kernel) => InBounds /\ OutputsRight)
  BY DoneTold DEF Orderless
<1>4. Spec => []IInv
  BY Invariance
<1>5. QED
  BY <1>1, <1>2, <1>3, <1>4, PTL DEF Spec

\* A kernel of two steps with a threadgroup barrier between them: the first writes
\* threadgroup cells, R[g][t] what thread t of group g writes then, the second device
\* cells, W[g][t].
Held(k, R, W, g, a, x) ==
  (\E u \in Threads(k) : Touches(R[g][u], a, x)) \/ \E h \in Groups(k), u \in Threads(k) : Touches(W[h][u], a, x)
Shaped(k, v) == DOMAIN v = DOMAIN Fresh(k) /\ \A a \in DOMAIN v : DOMAIN v[a] = DOMAIN Fresh(k)[a]
\* what is not written holds what it held, and after the barrier the threadgroup cells
\* what the first step wrote
Early(k, R, W, g, v) ==
  Shaped(k, v) /\ \A a \in DOMAIN v : \A x \in DOMAIN v[a] : ~Held(k, R, W, g, a, x) => v[a][x] = Fresh(k)[a][x]
Late(k, R, W, g, v) ==
  Early(k, R, W, g, v) /\ \A u \in Threads(k) : \A a, x : Touches(R[g][u], a, x) => v[a][x] = R[g][u][a][x]
InTwo(k) ==
  \A g \in Groups(k), t \in Threads(k) :
    /\ DOMAIN Code(k, g, t) = {1, 2, 3} /\ Code(k, g, t)[1].kind = "run" /\ Code(k, g, t)[3].kind = "run"
    /\ Code(k, g, t)[2].kind = "barrier" /\ "tg" \in Code(k, g, t)[2].orders
TwoStep(k, R, W) ==
  /\ Distinct(k) /\ InTwo(k)
  /\ \A g \in Groups(k), t \in Threads(k) :
       /\ \A a, x : Touches(R[g][t], a, x) =>
            /\ a \in DOMAIN Fresh(k) /\ ~OfDevice(k, a) /\ x \in DOMAIN Fresh(k)[a]
            /\ \A u \in Threads(k) : Touches(R[g][u], a, x) => u = t
       /\ \A a, x : Touches(W[g][t], a, x) =>
            /\ a \in DOMAIN Fresh(k) /\ OfDevice(k, a) /\ x \in DOMAIN Fresh(k)[a]
            /\ \A h \in Groups(k), u \in Threads(k) : Touches(W[h][u], a, x) => h = g /\ u = t
       /\ \A v : Early(k, R, W, g, v) => Effect(k, g, Code(k, g, t)[1], t, v) = R[g][t]
       /\ \A v : Late(k, R, W, g, v) => Effect(k, g, Code(k, g, t)[3], t, v) = W[g][t]
  /\ \A a \in DOMAIN Wants(k) : \A x \in DOMAIN Wants(k)[a] :
       /\ Wants(k)[a][x] = NaN => k.poison
       /\ \E g \in Groups(k), t \in Threads(k) : Touches(W[g][t], a, x) /\ W[g][t][a][x] = Wants(k)[a][x]

\* A kernel of two such steps is orderless, though its second step reads what other threads wrote.
LEMMA TwoStepOrderless ==
  ASSUME NEW k, 0 \in Threads(k), NEW R, NEW W, TwoStep(k, R, W)
  PROVE  Orderless(k)
<1> DEFINE G == Groups(k)
           T == Threads(k)
           F == Fresh(k)
           kept(g, t, a, x) == Touches(R[g][t], a, x)
           out(g, t, a, x) == Touches(W[g][t], a, x)
           mid(g) == [a \in DOMAIN F |-> [x \in DOMAIN F[a] |->
                       IF \E t \in T : kept(g, t, a, x) THEN R[g][CHOOSE t \in T : kept(g, t, a, x)][a][x] ELSE F[a][x]]]
           end(g) == [a \in DOMAIN F |-> [x \in DOMAIN F[a] |->
                       IF \E t \in T : out(g, t, a, x) THEN W[g][CHOOSE t \in T : out(g, t, a, x)][a][x] ELSE mid(g)[a][x]]]
           M == [g \in G |-> [j \in Nat \ {0} |-> IF j = 1 THEN F ELSE IF j <= 3 THEN mid(g) ELSE end(g)]]
<1>1. \A g \in G : M[g][1] = F /\ M[g][2] = mid(g) /\ M[g][3] = mid(g) /\ \A j \in Nat \ {0} : j > 3 => M[g][j] = end(g)
  OBVIOUS
<1>2. \A g \in G, t \in T : \A a, x :
        /\ kept(g, t, a, x) => /\ a \in DOMAIN F /\ ~OfDevice(k, a) /\ x \in DOMAIN F[a]
                               /\ \A u \in T : kept(g, u, a, x) => u = t
        /\ out(g, t, a, x) => /\ a \in DOMAIN F /\ OfDevice(k, a) /\ x \in DOMAIN F[a]
                              /\ \A h \in G, u \in T : out(h, u, a, x) => h = g /\ u = t
  BY DEF TwoStep
<1>3. ASSUME NEW g \in G, NEW t \in T, NEW a, NEW x, kept(g, t, a, x)
      PROVE  mid(g)[a][x] = R[g][t][a][x]
  <2>1. (CHOOSE u \in T : kept(g, u, a, x)) = t
    BY <1>2, <1>3
  <2>2. a \in DOMAIN F /\ x \in DOMAIN F[a]
    BY <1>2, <1>3
  <2> HIDE DEF kept
  <2>3. mid(g)[a][x] = R[g][CHOOSE u \in T : kept(g, u, a, x)][a][x]
    BY <1>3, <2>2
  <2>4. QED
    BY <2>1, <2>3
<1>4. ASSUME NEW g \in G, NEW t \in T, NEW a, NEW x, out(g, t, a, x)
      PROVE  end(g)[a][x] = W[g][t][a][x]
  <2>1. (CHOOSE u \in T : out(g, u, a, x)) = t
    BY <1>2, <1>4
  <2>2. a \in DOMAIN F /\ x \in DOMAIN F[a]
    BY <1>2, <1>4
  <2> HIDE DEF out, mid
  <2>3. end(g)[a][x] = W[g][CHOOSE u \in T : out(g, u, a, x)][a][x]
    BY <1>4, <2>2
  <2>4. QED
    BY <2>1, <2>3
<1>5. \A g \in G : \A a \in DOMAIN F : \A x \in DOMAIN F[a] :
        /\ (\A t \in T : ~kept(g, t, a, x)) => mid(g)[a][x] = F[a][x]
        /\ (\A t \in T : ~out(g, t, a, x)) => end(g)[a][x] = mid(g)[a][x]
  OBVIOUS
<1>6. \A g \in G : Shaped(k, F) /\ Shaped(k, mid(g)) /\ Shaped(k, end(g))
  BY DEF Shaped
<1> HIDE DEF M, end, mid
<1>7. \A g \in G, t \in T : Does(k, M, g, t, 1) = R[g][t] /\ Does(k, M, g, t, 3) = W[g][t]
  <2> SUFFICES ASSUME NEW g \in G, NEW t \in T
               PROVE  Does(k, M, g, t, 1) = R[g][t] /\ Does(k, M, g, t, 3) = W[g][t]
    OBVIOUS
  <2>1. Early(k, R, W, g, F)
    BY <1>6 DEF Early
  <2>2. Early(k, R, W, g, mid(g))
    <3>1. ASSUME NEW a \in DOMAIN mid(g), NEW x \in DOMAIN mid(g)[a], ~Held(k, R, W, g, a, x)
          PROVE  mid(g)[a][x] = Fresh(k)[a][x]
      <4>1. a \in DOMAIN F /\ x \in DOMAIN F[a]
        BY <1>6, <3>1 DEF Shaped
      <4>2. \A u \in T : ~kept(g, u, a, x)
        BY <3>1 DEF Held
      <4>3. QED
        BY <1>5, <4>1, <4>2
    <3>2. QED
      BY <1>6, <3>1 DEF Early
  <2>3. Late(k, R, W, g, mid(g))
    BY <1>3, <2>2 DEF Late
  <2>4. QED
    BY <1>1, <2>1, <2>3 DEF Does, TwoStep
<1>8. \A g \in G, t \in T :
        /\ DOMAIN Code(k, g, t) = {1, 2, 3} /\ Code(k, g, t)[1].kind = "run" /\ Code(k, g, t)[3].kind = "run"
        /\ Code(k, g, t)[2].kind = "barrier" /\ "tg" \in Code(k, g, t)[2].orders
  BY DEF TwoStep, InTwo
<1> HIDE DEF kept, out
<1>9. \A g \in G, t \in T : \A j, a, x :
        Writes(k, M, g, t, j, a, x) <=> (j = 1 /\ kept(g, t, a, x)) \/ (j = 3 /\ out(g, t, a, x))
  BY <1>7, <1>8 DEF Writes, Acts, kept, out
<1>10. Straight(k)
  BY <1>8 DEF Straight, BarrierAt, SimdAt
<1>11. \A g \in G : \A a : ~OfDevice(k, a) => Between(k, g, a, 1, 3)
  <2> SUFFICES ASSUME NEW g \in G, NEW a, ~OfDevice(k, a)
               PROVE  Between(k, g, a, 1, 3)
    OBVIOUS
  <2>1. BarrierAt(k, g, 0, 2) /\ "tg" \in Code(k, g, 0)[2].orders /\ 2 \in (1 + 1)..(3 - 1)
    BY <1>8 DEF BarrierAt
  <2>2. QED
    BY <2>1 DEF Between
<1>12. Apart(k, M)
  <2> SUFFICES ASSUME NEW g \in G, NEW t \in T, NEW j \in DOMAIN Code(k, g, t), NEW a, NEW x, Writes(k, M, g, t, j, a, x)
               PROVE  /\ a \in DOMAIN F /\ x \in DOMAIN F[a]
                      /\ SimdAt(k, g, t, j) => OfThread(k, a)
                      /\ Settled(k, M, g, t, j, a, x)
                      /\ \A u \in T : Writes(k, M, g, u, j, a, x) => u = t
    BY DEF Apart
  <2>1. ~SimdAt(k, g, t, j)
    BY <1>8, <1>9 DEF SimdAt
  <2>2. a \in DOMAIN F /\ x \in DOMAIN F[a]
    BY <1>2, <1>9
  <2>3. \A h \in G, u \in T : \A m : Writes(k, M, h, u, m, a, x) /\ (h = g \/ OfDevice(k, a)) => h = g /\ u = t /\ m = j
    BY <1>2, <1>9
  <2>4. Sole(k, M, g, a, x)
    BY <2>3 DEF Sole
  <2>5. \A u \in T : \A m \in DOMAIN Code(k, g, u) : Writes(k, M, g, u, m, a, x) => Later(k, g, a, u, m, t, j)
    BY <1>8, <2>3 DEF Later
  <2>6. QED
    BY <2>1, <2>2, <2>3, <2>4, <2>5 DEF Settled
<1>13. Blind(k, M, {})
  <2> SUFFICES ASSUME NEW g \in G, NEW t \in T, NEW j \in DOMAIN Code(k, g, t), Acts(k, g, t, j), NEW v, Agrees(k, M, {}, g, t, j, v)
               PROVE  Effect(k, g, Code(k, g, t)[j], t, v) = Does(k, M, g, t, j)
    BY DEF Blind, Alike
  <2>1. Shaped(k, v)
    BY DEF Agrees, Shaped
  <2>2. ASSUME NEW a \in DOMAIN v, NEW x \in DOMAIN v[a], ~Held(k, R, W, g, a, x)
        PROVE  v[a][x] = F[a][x]
    <3>1. a \in DOMAIN F /\ x \in DOMAIN F[a]
      BY <2>1, <2>2 DEF Shaped
    <3>2. (\A u \in T : ~kept(g, u, a, x)) /\ \A h \in G, u \in T : ~out(h, u, a, x)
      BY <2>2 DEF Held, kept, out
    <3>3. M[g][j][a][x] = F[a][x]
      BY <1>1, <1>5, <1>8, <3>1, <3>2
    <3>4. ASSUME NEW h \in G, NEW u \in T, NEW m, Writes(k, M, h, u, m, a, x)
          PROVE  m = 1 /\ kept(h, u, a, x) /\ ~OfDevice(k, a) /\ h # g
      BY <1>2, <1>9, <3>2, <3>4
    <3>5. Settled(k, M, g, t, j, a, x)
      BY <3>4 DEF Settled, Sole
    <3>6. QED
      BY <3>3, <3>5 DEF Agrees
  <2>3. Early(k, R, W, g, v)
    BY <2>1, <2>2 DEF Early
  <2>4. CASE j = 1
    BY <1>7, <2>3, <2>4 DEF TwoStep
  <2>5. CASE j = 3
    <3>1. ASSUME NEW u \in T, NEW a, NEW x, kept(g, u, a, x)
          PROVE  v[a][x] = R[g][u][a][x]
      <4>1. a \in DOMAIN v /\ x \in DOMAIN v[a] /\ ~OfDevice(k, a)
        BY <1>2, <2>1, <3>1 DEF Shaped
      <4>2. Sole(k, M, g, a, x)
        BY <4>1 DEF Sole
      <4>3. ASSUME NEW w \in T, NEW m \in DOMAIN Code(k, g, w), Writes(k, M, g, w, m, a, x)
            PROVE  Before(k, g, a, w, m, t, j)
        <5>1. m = 1
          BY <1>2, <1>9, <4>1, <4>3
        <5>2. QED
          BY <1>11, <2>5, <4>1, <5>1 DEF Before
      <4>4. Settled(k, M, g, t, j, a, x)
        BY <4>2, <4>3 DEF Settled
      <4>5. v[a][x] = M[g][j][a][x]
        BY <4>1, <4>4 DEF Agrees
      <4>6. QED
        BY <1>1, <1>3, <2>5, <3>1, <4>5
    <3>2. Late(k, R, W, g, v)
      BY <2>3, <3>1 DEF Late, kept
    <3>3. QED
      BY <1>7, <2>5, <3>2 DEF TwoStep
  <2>6. QED
    BY <1>8, <2>4, <2>5 DEF Acts
<1>14. Lockstep(k, M)
  <2> SUFFICES ASSUME NEW g \in G, NEW a \in DOMAIN F, NEW x \in DOMAIN F[a]
               PROVE  /\ M[g][1][a][x] = F[a][x]
                      /\ \A t \in T : \A j \in DOMAIN Code(k, g, t) :
                           Writes(k, M, g, t, j, a, x) => M[g][j + 1][a][x] = Does(k, M, g, t, j)[a][x]
                      /\ \A p, q \in Nat \ {0} :
                           p <= q /\ (\A t \in T : \A j \in DOMAIN Code(k, g, t) : p <= j /\ j < q => ~Writes(k, M, g, t, j, a, x))
                           => M[g][p][a][x] = M[g][q][a][x]
    BY DEF Lockstep
  <2>1. M[g][1][a][x] = F[a][x]
    BY <1>1
  <2>2. ASSUME NEW t \in T, NEW j \in DOMAIN Code(k, g, t), Writes(k, M, g, t, j, a, x)
        PROVE  M[g][j + 1][a][x] = Does(k, M, g, t, j)[a][x]
    <3>1. CASE j = 1
      <4>1. kept(g, t, a, x) /\ M[g][j + 1] = mid(g)
        BY <1>1, <1>9, <2>2, <3>1
      <4>2. QED
        BY <1>3, <1>7, <3>1, <4>1
    <3>2. CASE j = 3
      <4>1. out(g, t, a, x) /\ M[g][j + 1] = end(g)
        BY <1>1, <1>9, <2>2, <3>2
      <4>2. QED
        BY <1>4, <1>7, <3>2, <4>1
    <3>3. QED
      BY <1>9, <2>2, <3>1, <3>2
  <2>3. ASSUME NEW p \in Nat \ {0}, NEW q \in Nat \ {0}, p <= q,
               \A t \in T : \A j \in DOMAIN Code(k, g, t) : p <= j /\ j < q => ~Writes(k, M, g, t, j, a, x)
        PROVE  M[g][p][a][x] = M[g][q][a][x]
    <3>1. p = 1 /\ q > 1 => \A t \in T : ~kept(g, t, a, x)
      BY <1>8, <1>9, <2>3
    <3>2. p <= 3 /\ q > 3 => \A t \in T : ~out(g, t, a, x)
      BY <1>8, <1>9, <2>3
    <3>3. \A j \in Nat \ {0} : M[g][j] = IF j = 1 THEN F ELSE IF j <= 3 THEN mid(g) ELSE end(g)
      BY DEF M
    <3>4. QED
      BY <1>5, <2>3, <3>1, <3>2, <3>3
  <2>4. QED
    BY <2>1, <2>2, <2>3
<1>15. Wanted(k, M, {})
  <2> SUFFICES ASSUME NEW a \in DOMAIN Wants(k), NEW x \in DOMAIN Wants(k)[a]
               PROVE  /\ OfDevice(k, a) /\ a \in DOMAIN F /\ x \in DOMAIN F[a]
                      /\ Wants(k)[a][x] = NaN => k.poison
                      /\ \E h \in G :
                           /\ Sole(k, M, h, a, x)
                           /\ \E q \in Nat \ {0} :
                                /\ \A u \in T : DOMAIN Code(k, h, u) \subseteq 1..(q - 1)
                                /\ M[h][q][a][x] = Wants(k)[a][x]
    BY DEF Wanted
  <2>1. Wants(k)[a][x] = NaN => k.poison
    BY DEF TwoStep
  <2>2. PICK g \in G, t \in T : out(g, t, a, x) /\ W[g][t][a][x] = Wants(k)[a][x]
    BY DEF TwoStep, out
  <2>3. a \in DOMAIN F /\ OfDevice(k, a) /\ x \in DOMAIN F[a]
    BY <1>2, <2>2
  <2>4. Sole(k, M, g, a, x)
    BY <1>2, <1>9, <2>2, <2>3 DEF Sole
  <2>5. M[g][4][a][x] = Wants(k)[a][x]
    BY <1>1, <1>4, <2>2
  <2>6. \A u \in T : DOMAIN Code(k, g, u) \subseteq 1..(4 - 1)
    BY <1>8
  <2>7. QED
    BY <2>1, <2>3, <2>4, <2>5, <2>6
<1>16. QED
  BY <1>10, <1>12, <1>13, <1>14, <1>15 DEF Orderless, RaceFree, TwoStep

--------------------------------------------------------------------------------
Alone(k, g, t) == Effect(k, g, Code(k, g, t)[1], t, Fresh(k))
Owned(k, a, x) == \E g \in Groups(k), t \in Threads(k) : Touches(Alone(k, g, t), a, x)
\* a memory that differs from the initial one in nothing but what the kernel writes
Undisturbed(k, v) ==
  /\ DOMAIN v = DOMAIN Fresh(k)
  /\ \A a \in DOMAIN v :
       /\ DOMAIN v[a] = DOMAIN Fresh(k)[a]
       /\ \A x \in DOMAIN v[a] : ~Owned(k, a, x) => v[a][x] = Fresh(k)[a][x]
CellByCell(k) ==
  /\ Distinct(k)
  /\ \A g \in Groups(k), t \in Threads(k) :
       /\ DOMAIN Code(k, g, t) = {1} /\ Code(k, g, t)[1].kind = "run"
       /\ \A a, x : Touches(Alone(k, g, t), a, x) =>
            /\ a \in DOMAIN Fresh(k) /\ OfDevice(k, a) /\ x \in DOMAIN Fresh(k)[a]
            /\ \A h \in Groups(k), u \in Threads(k) : Touches(Alone(k, h, u), a, x) => h = g /\ u = t
       /\ \A v : Undisturbed(k, v) => Effect(k, g, Code(k, g, t)[1], t, v) = Alone(k, g, t)
  /\ \A a \in DOMAIN Wants(k) : \A x \in DOMAIN Wants(k)[a] :
       /\ Wants(k)[a][x] = NaN => k.poison
       /\ \E g \in Groups(k), t \in Threads(k) :
            Touches(Alone(k, g, t), a, x) /\ Alone(k, g, t)[a][x] = Wants(k)[a][x]

\* A kernel each of whose threads writes cells of its own, from cells nobody writes, is orderless.
LEMMA CellByCellOrderless ==
  ASSUME NEW k, CellByCell(k)
  PROVE  Orderless(k)
<1> DEFINE G == Groups(k)
           T == Threads(k)
           F == Fresh(k)
           own(g, t, a, x) == Touches(Alone(k, g, t), a, x)
           end(g) == [a \in DOMAIN F |-> [x \in DOMAIN F[a] |->
                       IF \E t \in T : own(g, t, a, x) THEN Alone(k, g, CHOOSE t \in T : own(g, t, a, x))[a][x] ELSE F[a][x]]]
           M == [g \in G |-> [j \in Nat \ {0} |-> IF j = 1 THEN F ELSE end(g)]]
<1>1. \A g \in G : M[g][1] = F /\ \A j \in Nat \ {0} : j # 1 => M[g][j] = end(g)
  OBVIOUS
<1>2. \A g \in G, t \in T : DOMAIN Code(k, g, t) = {1} /\ Code(k, g, t)[1].kind = "run"
  BY DEF CellByCell
<1>3. ASSUME NEW g \in G, NEW t \in T, NEW a, NEW x, own(g, t, a, x)
      PROVE  /\ a \in DOMAIN F /\ OfDevice(k, a) /\ x \in DOMAIN F[a]
             /\ \A h \in G, u \in T : own(h, u, a, x) => h = g /\ u = t
  BY <1>3 DEF CellByCell
<1>4. ASSUME NEW g \in G, NEW t \in T, NEW a, NEW x, own(g, t, a, x)
      PROVE  end(g)[a][x] = Alone(k, g, t)[a][x]
  <2>1. (CHOOSE u \in T : own(g, u, a, x)) = t
    BY <1>3, <1>4
  <2>2. a \in DOMAIN F /\ x \in DOMAIN F[a]
    BY <1>3, <1>4
  <2> HIDE DEF own
  <2>3. end(g)[a][x] = Alone(k, g, CHOOSE u \in T : own(g, u, a, x))[a][x]
    BY <1>4, <2>2
  <2>4. QED
    BY <2>1, <2>3
<1>5. ASSUME NEW g \in G, NEW a \in DOMAIN F, NEW x \in DOMAIN F[a], \A t \in T : ~own(g, t, a, x)
      PROVE  end(g)[a][x] = F[a][x]
  BY <1>5
<1> HIDE DEF M, end
<1>6. \A g \in G, t \in T : Does(k, M, g, t, 1) = Alone(k, g, t)
  BY <1>1 DEF Does, Alone
<1>7. \A g \in G, t \in T : \A j \in DOMAIN Code(k, g, t) : \A a, x : j = 1 /\ (Writes(k, M, g, t, j, a, x) <=> own(g, t, a, x))
  BY <1>2, <1>6 DEF Writes, Acts
<1> HIDE DEF own
<1>8. Straight(k)
  BY <1>2 DEF Straight, BarrierAt, SimdAt
<1>9. Apart(k, M)
  <2> SUFFICES ASSUME NEW g \in G, NEW t \in T, NEW j \in DOMAIN Code(k, g, t), NEW a, NEW x, Writes(k, M, g, t, j, a, x)
               PROVE  /\ a \in DOMAIN F /\ x \in DOMAIN F[a]
                      /\ SimdAt(k, g, t, j) => OfThread(k, a)
                      /\ Settled(k, M, g, t, j, a, x)
                      /\ \A u \in T : Writes(k, M, g, u, j, a, x) => u = t
    BY DEF Apart
  <2>1. j = 1 /\ own(g, t, a, x) /\ ~SimdAt(k, g, t, j)
    BY <1>2, <1>7 DEF SimdAt
  <2>2. /\ a \in DOMAIN F /\ x \in DOMAIN F[a]
        /\ \A h \in G, u \in T : own(h, u, a, x) => h = g /\ u = t
    BY <1>3, <2>1
  <2>3. \A u \in T : Writes(k, M, g, u, j, a, x) => u = t
    BY <1>2, <1>7, <2>1, <2>2
  <2>4. Sole(k, M, g, a, x)
    BY <1>7, <2>2 DEF Sole
  <2>5. ASSUME NEW u \in T, NEW m \in DOMAIN Code(k, g, u), Writes(k, M, g, u, m, a, x)
        PROVE  Later(k, g, a, u, m, t, j)
    BY <1>7, <2>1, <2>2, <2>5 DEF Later
  <2>6. QED
    BY <2>1, <2>2, <2>3, <2>4, <2>5 DEF Settled
<1>10. Blind(k, M, {})
  <2> SUFFICES ASSUME NEW g \in G, NEW t \in T, NEW j \in DOMAIN Code(k, g, t), NEW v, Agrees(k, M, {}, g, t, j, v)
               PROVE  Effect(k, g, Code(k, g, t)[j], t, v) = Does(k, M, g, t, j)
    BY DEF Blind, Alike
  <2>1. j = 1
    BY <1>2
  <2>2. DOMAIN v = DOMAIN F /\ \A a \in DOMAIN v : DOMAIN v[a] = DOMAIN F[a]
    BY DEF Agrees
  <2>3. ASSUME NEW a \in DOMAIN v, NEW x \in DOMAIN v[a], ~Owned(k, a, x)
        PROVE  v[a][x] = F[a][x]
    <3>1. \A h \in G, u \in T : ~own(h, u, a, x)
      BY <2>3 DEF Owned, own
    <3>2. Settled(k, M, g, t, j, a, x)
      BY <1>7, <3>1 DEF Settled, Sole
    <3>3. QED
      BY <1>1, <2>1, <3>2 DEF Agrees
  <2>4. Undisturbed(k, v)
    BY <2>2, <2>3 DEF Undisturbed
  <2>5. QED
    BY <1>6, <2>1, <2>4 DEF CellByCell
<1>11. Lockstep(k, M)
  <2> SUFFICES ASSUME NEW g \in G, NEW a \in DOMAIN F, NEW x \in DOMAIN F[a]
               PROVE  /\ M[g][1][a][x] = F[a][x]
                      /\ \A t \in T : \A j \in DOMAIN Code(k, g, t) :
                           Writes(k, M, g, t, j, a, x) => M[g][j + 1][a][x] = Does(k, M, g, t, j)[a][x]
                      /\ \A p, q \in Nat \ {0} :
                           p <= q /\ (\A t \in T : \A j \in DOMAIN Code(k, g, t) : p <= j /\ j < q => ~Writes(k, M, g, t, j, a, x))
                           => M[g][p][a][x] = M[g][q][a][x]
    BY DEF Lockstep
  <2>1. M[g][1][a][x] = F[a][x]
    BY <1>1
  <2>2. ASSUME NEW t \in T, NEW j \in DOMAIN Code(k, g, t), Writes(k, M, g, t, j, a, x)
        PROVE  M[g][j + 1][a][x] = Does(k, M, g, t, j)[a][x]
    <3>1. j = 1 /\ own(g, t, a, x) /\ M[g][2] = end(g)
      BY <1>1, <1>7, <2>2
    <3>2. QED
      BY <1>4, <1>6, <3>1
  <2>3. ASSUME NEW p \in Nat \ {0}, NEW q \in Nat \ {0}, p <= q,
               \A t \in T : \A j \in DOMAIN Code(k, g, t) : p <= j /\ j < q => ~Writes(k, M, g, t, j, a, x)
        PROVE  M[g][p][a][x] = M[g][q][a][x]
    <3>1. CASE p # 1 \/ q = 1
      BY <1>1, <2>3, <3>1
    <3>2. CASE p = 1 /\ q # 1
      <4>1. \A t \in T : ~own(g, t, a, x)
        BY <1>2, <1>7, <2>3, <3>2
      <4>2. QED
        BY <1>1, <1>5, <3>2, <4>1
    <3>3. QED
      BY <3>1, <3>2
  <2>4. QED
    BY <2>1, <2>2, <2>3
<1>12. Wanted(k, M, {})
  <2> SUFFICES ASSUME NEW a \in DOMAIN Wants(k), NEW x \in DOMAIN Wants(k)[a]
               PROVE  /\ OfDevice(k, a) /\ a \in DOMAIN F /\ x \in DOMAIN F[a]
                      /\ Wants(k)[a][x] = NaN => k.poison
                      /\ \E h \in G :
                           /\ Sole(k, M, h, a, x)
                           /\ \E q \in Nat \ {0} :
                                /\ \A u \in T : DOMAIN Code(k, h, u) \subseteq 1..(q - 1)
                                /\ M[h][q][a][x] = Wants(k)[a][x]
    BY DEF Wanted
  <2>1. Wants(k)[a][x] = NaN => k.poison
    BY DEF CellByCell
  <2>2. PICK g \in G, t \in T : own(g, t, a, x) /\ Alone(k, g, t)[a][x] = Wants(k)[a][x]
    BY DEF CellByCell, own
  <2>3. /\ a \in DOMAIN F /\ OfDevice(k, a) /\ x \in DOMAIN F[a]
        /\ \A h \in G, u \in T : own(h, u, a, x) => h = g /\ u = t
    BY <1>3, <2>2
  <2>4. Sole(k, M, g, a, x)
    BY <1>7, <2>3 DEF Sole
  <2>5. M[g][2][a][x] = Wants(k)[a][x]
    BY <1>1, <1>4, <2>2
  <2>6. \A u \in T : DOMAIN Code(k, g, u) \subseteq 1..(2 - 1)
    BY <1>2
  <2>7. QED
    BY <2>1, <2>3, <2>4, <2>5, <2>6
<1>13. QED
  BY <1>8, <1>9, <1>10, <1>11, <1>12 DEF Orderless, RaceFree, CellByCell

\* Division with a remainder.
LEMMA Quotient ==
  ASSUME NEW n \in Int, NEW d \in Nat \ {0}
  PROVE  /\ n \div d \in Int /\ n % d \in 0..(d - 1)
         /\ n = (d * (n \div d)) + (n % d)
         /\ n >= 0 => n \div d >= 0
<1>1. n \div d \in Int /\ n % d \in 0..(d - 1) /\ n = (d * (n \div d)) + (n % d)
  OBVIOUS
<1>2. ASSUME n >= 0, n \div d <= -1
      PROVE  FALSE
  <2>1. d * (n \div d) <= d * (-1)
    BY <1>1, <1>2
  <2>2. QED
    BY <1>1, <1>2, <2>1
<1>3. QED
  BY <1>1, <1>2

\* Multiplication by a positive number keeps the order.
LEMMA Scaled ==
  ASSUME NEW d \in Nat, NEW a \in Int, NEW b \in Int, a <= b
  PROVE  d * a <= d * b
OBVIOUS

\* The quotient and the remainder are the only such numbers.
LEMMA Remainder ==
  ASSUME NEW q \in Int, NEW d \in Nat \ {0}, NEW r \in 0..(d - 1), NEW n \in Int, n = d * q + r
  PROVE  n \div d = q /\ n % d = r
<1> DEFINE p == n \div d
           s == n % d
<1>1. p \in Int /\ s \in 0..(d - 1) /\ n = d * p + s
  BY Quotient
<1> HIDE DEF p, s
<1>2. ASSUME p + 1 <= q
      PROVE  FALSE
  <2>1. d * (p + 1) <= d * q
    BY <1>1, <1>2, Scaled
  <2>2. d * (p + 1) = d * p + d
    BY <1>1
  <2>3. QED
    BY <1>1, <2>1, <2>2
<1>3. ASSUME q + 1 <= p
      PROVE  FALSE
  <2>1. d * (q + 1) <= d * p
    BY <1>1, <1>3, Scaled
  <2>2. d * (q + 1) = d * q + d
    OBVIOUS
  <2>3. QED
    BY <1>1, <2>1, <2>2
<1>4. p = q
  BY <1>1, <1>2, <1>3
<1>5. s = r
  BY <1>1, <1>4
<1>6. QED
  BY <1>4, <1>5 DEF p, s

\* A grid of threadgroups covers each of its cells once.
LEMMA GridCells ==
  ASSUME NEW G \in Nat, NEW T \in Nat \ {0}, NEW N \in Nat, N <= G * T
  PROVE  /\ \A j \in 0..(N - 1) : \E g \in 0..(G - 1), t \in 0..(T - 1) : (g * T) + t = j
         /\ \A g, h \in 0..(G - 1), t, u \in 0..(T - 1) : (g * T) + t = (h * T) + u => g = h /\ t = u
         /\ \A g \in 0..(G - 1), t \in 0..(T - 1) : (g * T) + t \in Nat
<1>1. ASSUME NEW j \in 0..(N - 1)
      PROVE  \E g \in 0..(G - 1), t \in 0..(T - 1) : (g * T) + t = j
  <2> DEFINE g == j \div T
             t == j % T
  <2>1. j \in Int /\ j >= 0
    OBVIOUS
  <2>2. g \in Int /\ t \in 0..(T - 1) /\ j = (T * g) + t /\ g >= 0
    BY <2>1, Quotient
  <2> HIDE DEF g, t
  <2>3. ASSUME G <= g
        PROVE  FALSE
    <3>1. T * G <= T * g
      BY <2>2, <2>3, Scaled
    <3>2. T * G = G * T
      OBVIOUS
    <3>3. QED
      BY <2>2, <3>1, <3>2
  <2>4. T * g = g * T
    BY <2>2
  <2>5. QED
    BY <2>2, <2>3, <2>4
<1>2. ASSUME NEW g \in 0..(G - 1), NEW h \in 0..(G - 1), NEW t \in 0..(T - 1), NEW u \in 0..(T - 1), (g * T) + t = (h * T) + u
      PROVE  g = h /\ t = u
  <2>1. (g * T) + t = (T * g) + t /\ (h * T) + u = (T * h) + u
    OBVIOUS
  <2> DEFINE n == (g * T) + t
  <2>2. n \in Int /\ n = (T * g) + t /\ n = (T * h) + u
    BY <1>2, <2>1
  <2> HIDE DEF n
  <2>3. n \div T = g /\ n % T = t
    BY <2>2, Remainder
  <2>4. n \div T = h /\ n % T = u
    BY <2>2, Remainder
  <2>5. QED
    BY <2>3, <2>4
<1>3. \A g \in 0..(G - 1), t \in 0..(T - 1) : (g * T) + t \in Nat
  OBVIOUS
<1>4. QED
  BY <1>1, <1>2, <1>3

\* So the threads of a kernel have each place of a line that is no longer than the grid.
LEMMA LineCells ==
  ASSUME NEW k \in Kernels, NEW n \in Nat, n <= k.groups * k.threads
  PROVE  /\ \A j \in 0..(n - 1) : \E g \in Groups(k), t \in Threads(k) : BlockOffset(k, g, t) = j
         /\ \A g, h \in Groups(k), t, u \in Threads(k) : BlockOffset(k, g, t) = BlockOffset(k, h, u) => g = h /\ t = u
         /\ \A g \in Groups(k), t \in Threads(k) : BlockOffset(k, g, t) \in Nat
<1> DEFINE G == k.groups
           T == k.threads
<1>1. G \in Nat /\ T \in Nat \ {0} /\ n <= G * T
  BY KernelAssumption
<1> HIDE DEF G, T
<1>2. /\ \A j \in 0..(n - 1) : \E g \in 0..(G - 1), t \in 0..(T - 1) : (g * T) + t = j
      /\ \A g, h \in 0..(G - 1), t, u \in 0..(T - 1) : (g * T) + t = (h * T) + u => g = h /\ t = u
      /\ \A g \in 0..(G - 1), t \in 0..(T - 1) : (g * T) + t \in Nat
  BY <1>1, GridCells
<1>3. QED
  BY <1>2 DEF Groups, Threads, BlockOffset, G, T

--------------------------------------------------------------------------------
\* the machine runs the templates of RowTemplates
Runs(k) == \A g, i, t, v : Effect(k, g, i, t, v) = ElementEffect(k, g, i, t, v)
\* the arrays that are not written hold what they were given
Given(k, v) ==
  \A a \in DOMAIN Arrays(k).dev \ ElementOutputs(k) :
    DOMAIN v[a] = DOMAIN Arrays(k).dev[a] /\ \A x \in DOMAIN v[a] : v[a][x] = Arrays(k).dev[a][x]
\* what each thread writes: cells of its own, with what is promised
Partition(k, E) ==
  /\ \A g \in Groups(k), t \in Threads(k) : \A a, x : Touches(E[g][t], a, x) =>
       /\ a \in ElementOutputs(k) /\ x \in 0..(OutSize(k) - 1)
       /\ E[g][t][a][x] = Promised(k, Arrays(k).dev, a, x)
       /\ \A h \in Groups(k), u \in Threads(k) : Touches(E[h][u], a, x) => h = g /\ u = t
  /\ \A a \in ElementOutputs(k) : \A x \in 0..(OutSize(k) - 1) :
       \E g \in Groups(k), t \in Threads(k) : Touches(E[g][t], a, x)

\* An instance of a template whose threads share its output cells out is cell by cell.
LEMMA SharedCellByCell ==
  ASSUME NEW k, PerCell(k), NEW E, Partition(k, E),
         \A g \in Groups(k), t \in Threads(k) : \A v : Given(k, v) => Effect(k, g, Code(k, g, t)[1], t, v) = E[g][t]
  PROVE  CellByCell(k)
<1> DEFINE A == Arrays(k).dev
           F == Fresh(k)
<1>1. /\ DOMAIN A \cap DOMAIN Locals(k) = {}
      /\ \A g \in Groups(k), t \in Threads(k) : Code(k, g, t) = <<Run("all")>>
      /\ \A a \in ElementOutputs(k) : a \in DOMAIN A /\ DOMAIN A[a] = 0..(OutSize(k) - 1)
      /\ Wants(k) = ElementWantOf(k, A)
      /\ \A a \in ElementOutputs(k) : \A j \in DOMAIN A[a] : Promised(k, A, a, j) = NaN => k.poison
  <2>1. ElementCode(k) = <<Run("all")>>
    BY DEF PerCell, PerCellNames, ElementCode
  <2>2. QED
    BY <2>1 DEF PerCell
<1>2. DOMAIN A \subseteq DOMAIN F /\ \A a \in DOMAIN A : F[a] = A[a]
  BY DEF Fresh, Overlay
<1> HIDE DEF A, F
<1>3. \A g \in Groups(k), t \in Threads(k) : DOMAIN Code(k, g, t) = {1} /\ Code(k, g, t)[1].kind = "run"
  BY <1>1 DEF Run
<1>4. Given(k, F)
  BY <1>2 DEF Given, A
<1>5. \A g \in Groups(k), t \in Threads(k) : Alone(k, g, t) = E[g][t]
  BY <1>4 DEF Alone, F
<1>6. ASSUME NEW g \in Groups(k), NEW t \in Threads(k), NEW a, NEW x, Touches(Alone(k, g, t), a, x)
      PROVE  /\ a \in ElementOutputs(k) /\ a \in DOMAIN F /\ OfDevice(k, a) /\ x \in DOMAIN F[a]
             /\ \A h \in Groups(k), u \in Threads(k) : Touches(Alone(k, h, u), a, x) => h = g /\ u = t
  <2>1. Touches(E[g][t], a, x)
    BY <1>5, <1>6
  <2>2. /\ a \in ElementOutputs(k) /\ x \in 0..(OutSize(k) - 1)
        /\ \A h \in Groups(k), u \in Threads(k) : Touches(E[h][u], a, x) => h = g /\ u = t
    BY <2>1 DEF Partition
  <2>3. a \in DOMAIN F /\ OfDevice(k, a) /\ x \in DOMAIN F[a]
    BY <1>1, <1>2, <2>2 DEF OfDevice, A
  <2>4. \A h \in Groups(k), u \in Threads(k) : Touches(Alone(k, h, u), a, x) => h = g /\ u = t
    BY <1>5, <2>2
  <2>5. QED
    BY <2>2, <2>3, <2>4
<1>7. ASSUME NEW g \in Groups(k), NEW t \in Threads(k), NEW v, Undisturbed(k, v)
      PROVE  Effect(k, g, Code(k, g, t)[1], t, v) = Alone(k, g, t)
  <2>1. ASSUME NEW a \in DOMAIN A \ ElementOutputs(k)
        PROVE  DOMAIN v[a] = DOMAIN A[a] /\ \A x \in DOMAIN v[a] : v[a][x] = A[a][x]
    <3>1. \A x : ~Owned(k, a, x)
      BY <1>6, <2>1 DEF Owned
    <3>2. QED
      BY <1>2, <1>7, <3>1 DEF Undisturbed, F
  <2>2. Given(k, v)
    BY <2>1 DEF Given, A
  <2>3. QED
    BY <1>5, <2>2
<1>8. ASSUME NEW a \in DOMAIN Wants(k), NEW x \in DOMAIN Wants(k)[a]
      PROVE  /\ Wants(k)[a][x] = NaN => k.poison
             /\ \E g \in Groups(k), t \in Threads(k) :
                  Touches(Alone(k, g, t), a, x) /\ Alone(k, g, t)[a][x] = Wants(k)[a][x]
  <2>1. "output" \in ElementOutputs(k)
    BY DEF ElementOutputs
  <2>2. a \in ElementOutputs(k) /\ x \in DOMAIN A["output"] /\ Wants(k)[a][x] = Promised(k, A, a, x)
    BY <1>1, <1>8 DEF ElementWantOf
  <2>3. x \in 0..(OutSize(k) - 1) /\ x \in DOMAIN A[a]
    BY <1>1, <2>1, <2>2
  <2>4. PICK g \in Groups(k), t \in Threads(k) : Touches(E[g][t], a, x)
    BY <2>2, <2>3 DEF Partition
  <2>5. E[g][t][a][x] = Promised(k, A, a, x)
    BY <2>4 DEF Partition, A
  <2>6. QED
    BY <1>1, <1>5, <2>2, <2>3, <2>4, <2>5
<1>9. QED
  BY <1>1, <1>3, <1>6, <1>7, <1>8 DEF CellByCell, Distinct, A, F

\* So is one whose thread for each cell of the grid writes what is promised for that cell.
LEMMA OnGrid ==
  ASSUME NEW k \in Kernels, PerCell(k), Runs(k), k.name \notin {"embedding", "rope", "split", "dropout"}, OutSize(k) \in Nat,
         \A g \in Groups(k), t \in Threads(k) : \A v :
           /\ OutSize(k) <= BlockOffset(k, g, t) => ElementEffect(k, g, Run("all"), t, v) = Nothing
           /\ BlockOffset(k, g, t) \in 0..(OutSize(k) - 1) /\ Given(k, v) =>
                ElementEffect(k, g, Run("all"), t, v)
                = Put("output", BlockOffset(k, g, t), Promised(k, Arrays(k).dev, "output", BlockOffset(k, g, t)))
  PROVE  CellByCell(k)
<1> DEFINE off(g, t) == BlockOffset(k, g, t)
           N == OutSize(k)
           told(x) == Promised(k, Arrays(k).dev, "output", x)
           E == [g \in Groups(k) |-> [t \in Threads(k) |-> IF off(g, t) < N THEN Put("output", off(g, t), told(off(g, t))) ELSE Nothing]]
<1>1. /\ ElementOutputs(k) = {"output"} /\ N \in Nat /\ N <= k.groups * k.threads
      /\ k.groups \in Nat /\ k.threads \in Nat \ {0}
      /\ \A g \in Groups(k), t \in Threads(k) : Code(k, g, t)[1] = Run("all")
  <2>1. N <= k.groups * k.threads
    BY DEF PerCell, Covers
  <2>2. ElementCode(k) = <<Run("all")>>
    BY DEF PerCell, PerCellNames, ElementCode
  <2>3. \A g \in Groups(k), t \in Threads(k) : Code(k, g, t)[1] = Run("all")
    BY <2>2 DEF PerCell
  <2>4. QED
    BY <2>1, <2>3, KernelAssumption DEF ElementOutputs
<1>2. /\ \A j \in 0..(N - 1) : \E g \in Groups(k), t \in Threads(k) : off(g, t) = j
      /\ \A g, h \in Groups(k), t, u \in Threads(k) : off(g, t) = off(h, u) => g = h /\ t = u
      /\ \A g \in Groups(k), t \in Threads(k) : off(g, t) \in Nat
  BY <1>1, GridCells DEF Groups, Threads, BlockOffset
<1> HIDE DEF off, N, told
<1>3. \A g \in Groups(k), t \in Threads(k) : \A a, x :
        Touches(E[g][t], a, x) <=> a = "output" /\ x = off(g, t) /\ x < N
  BY DEF Touches, Put, Cell, Nothing
<1>4. \A g \in Groups(k), t \in Threads(k) : off(g, t) < N => E[g][t]["output"][off(g, t)] = told(off(g, t))
  BY DEF Put, Cell
<1>5. ASSUME NEW g \in Groups(k), NEW t \in Threads(k), NEW v, Given(k, v)
      PROVE  Effect(k, g, Code(k, g, t)[1], t, v) = E[g][t]
  <2>1. Effect(k, g, Code(k, g, t)[1], t, v) = ElementEffect(k, g, Run("all"), t, v)
    BY <1>1 DEF Runs
  <2>2. CASE off(g, t) < N
    <3>1. off(g, t) \in 0..(N - 1)
      BY <1>1, <1>2, <2>2
    <3>2. QED
      BY <1>5, <2>1, <2>2, <3>1 DEF off, N, told
  <2>3. CASE ~(off(g, t) < N)
    <3>1. N <= off(g, t)
      BY <1>1, <1>2, <2>3
    <3>2. QED
      BY <2>1, <2>3, <3>1 DEF off, N
  <2>4. QED
    BY <2>2, <2>3
<1> HIDE DEF E
<1>6. Partition(k, E)
  <2>1. ASSUME NEW g \in Groups(k), NEW t \in Threads(k), NEW a, NEW x, Touches(E[g][t], a, x)
        PROVE  /\ a \in ElementOutputs(k) /\ x \in 0..(OutSize(k) - 1)
               /\ E[g][t][a][x] = Promised(k, Arrays(k).dev, a, x)
               /\ \A h \in Groups(k), u \in Threads(k) : Touches(E[h][u], a, x) => h = g /\ u = t
    <3>1. a = "output" /\ x = off(g, t) /\ x < N
      BY <1>3, <2>1
    <3>2. x \in 0..(N - 1)
      BY <1>1, <1>2, <3>1
    <3>3. E[g][t][a][x] = told(x)
      BY <1>4, <3>1
    <3>4. ASSUME NEW h \in Groups(k), NEW u \in Threads(k), Touches(E[h][u], a, x)
          PROVE  h = g /\ u = t
      <4>1. off(h, u) = off(g, t)
        BY <1>3, <3>1, <3>4
      <4>2. QED
        BY <1>2, <4>1
    <3>5. QED
      BY <1>1, <3>1, <3>2, <3>3, <3>4 DEF N, told
  <2>2. ASSUME NEW a \in ElementOutputs(k), NEW x \in 0..(OutSize(k) - 1)
        PROVE  \E g \in Groups(k), t \in Threads(k) : Touches(E[g][t], a, x)
    <3>1. a = "output" /\ x \in 0..(N - 1) /\ x < N
      BY <1>1 DEF N
    <3>2. QED
      BY <1>2, <1>3, <3>1
  <2>3. QED
    BY <2>1, <2>2 DEF Partition
<1>7. QED
  BY <1>5, <1>6, SharedCellByCell

\* The place of a thread in the grid is a number.
LEMMA OffsetInt ==
  ASSUME NEW k \in Kernels, NEW g \in Groups(k), NEW t \in Threads(k)
  PROVE  BlockOffset(k, g, t) \in Nat
BY KernelAssumption DEF BlockOffset, Groups, Threads

\* What a template reads of an array that it was given.
LEMMA Reads ==
  ASSUME NEW k, NEW v, Given(k, v), NEW a, NEW size, Numbers(Arrays(k).dev, a, size), a \notin ElementOutputs(k)
  PROVE  \A i \in 0..(size - 1) :
           v[a][i] = Arrays(k).dev[a][i] /\ At(v[a], i) = Arrays(k).dev[a][i] /\ Arrays(k).dev[a][i] \in Int \ {NaN, NegInf}
BY DEF Numbers, Given, At

\* Multiplication does not depend on the order of its operands.
LEMMA MulOf ==
  ASSUME NEW x \in Int, NEW y \in Int
  PROVE  Mul(x, y) = Mul(y, x)
<1>1. x * y = y * x
  OBVIOUS
<1>2. QED
  BY <1>1 DEF Mul

LineNames == {"elementwise", "swiglu", "scalar_mul", "activation", "fused_mlp", "where", "clamp", "compare", "gather", "index_select"}

\* The same for the templates whose output is as long as their input.
LEMMA OnLine ==
  ASSUME NEW k \in Kernels, PerCell(k), Runs(k), k.name \in LineNames,
         \A g \in Groups(k), t \in Threads(k) : \A v :
           /\ k.n <= BlockOffset(k, g, t) => ElementEffect(k, g, Run("all"), t, v) = Nothing
           /\ BlockOffset(k, g, t) \in 0..(k.n - 1) /\ Given(k, v) =>
                ElementEffect(k, g, Run("all"), t, v)
                = Put("output", BlockOffset(k, g, t), Promised(k, Arrays(k).dev, "output", BlockOffset(k, g, t)))
  PROVE  CellByCell(k)
<1>1. OutSize(k) = k.n /\ k.n \in Nat
  BY DEF OutSize, PerCell, LineNames
<1>2. k.name \notin {"embedding", "rope", "split", "dropout"}
  BY DEF LineNames
<1>3. QED
  BY <1>1, <1>2, OnGrid

\* The arrays of such an instance.
LEMMA OnLineArrays ==
  ASSUME NEW k \in Kernels, PerCell(k), k.name \in LineNames
  PROVE  /\ ElementOutputs(k) = {"output"} /\ k.n \in Nat
         /\ k.name \notin Rearranging => Numbers(Arrays(k).dev, "input", k.n)
         /\ k.name \in Rearranging => Numbers(Arrays(k).dev, "input", 0)
         /\ Extras(k, Arrays(k).dev)
<1>1. OutSize(k) = k.n /\ Covers(k) = k.n
  BY DEF OutSize, PerCell, LineNames, Covers
<1>2. QED
  BY <1>1 DEF PerCell, LineNames, ElementOutputs

\* scalar_mul writes what it promises.
LEMMA ScalarMulRight ==
  ASSUME NEW k \in Kernels, PerCell(k), Runs(k), k.name = "scalar_mul"
  PROVE  CellByCell(k)
<1> DEFINE A == Arrays(k).dev
<1>1. /\ k.name \in LineNames /\ ElementOutputs(k) = {"output"} /\ k.n \in Nat
      /\ Numbers(A, "input", k.n) /\ k.scalar \in Int \ {NaN, NegInf}
  BY OnLineArrays DEF LineNames, Extras, Rearranging
<1>2. ASSUME NEW g \in Groups(k), NEW t \in Threads(k), NEW v
      PROVE  ElementEffect(k, g, Run("all"), t, v) = ScalarMul(k, g, t, v)
  BY DEF ElementEffect
<1>3. ASSUME NEW g \in Groups(k), NEW t \in Threads(k), NEW v, k.n <= BlockOffset(k, g, t)
      PROVE  ScalarMul(k, g, t, v) = Nothing
  BY <1>1, <1>3, OffsetInt DEF ScalarMul, Store, Mask
<1>4. ASSUME NEW g \in Groups(k), NEW t \in Threads(k), NEW v, BlockOffset(k, g, t) \in 0..(k.n - 1), Given(k, v)
      PROVE  ScalarMul(k, g, t, v) = Put("output", BlockOffset(k, g, t), Promised(k, A, "output", BlockOffset(k, g, t)))
  <2> DEFINE j == BlockOffset(k, g, t)
  <2>1. At(v.input, j) = A.input[j] /\ A.input[j] \in Int \ {NaN, NegInf}
    BY <1>1, <1>4, Reads
  <2>2. Mul(A.input[j], k.scalar) = Mul(k.scalar, A.input[j])
    BY <1>1, <2>1, MulOf
  <2>3. Promised(k, A, "output", j) = Cast(k, Mul(k.scalar, A.input[j]))
    BY DEF Promised
  <2>4. Mask(k, j)
    BY <1>1, <1>4 DEF Mask
  <2>5. QED
    BY <2>1, <2>2, <2>3, <2>4 DEF ScalarMul, Load, Store
<1>5. QED
  BY <1>1, <1>2, <1>3, <1>4, OnLine

\* The table of powers holds residues.
LEMMA PowerRange == \A e \in 1..256 : Power[e] \in 0..256
<1> SUFFICES ASSUME NEW e \in 1..256 PROVE Power[e] \in 0..256
  OBVIOUS
<1> DEFINE d(b) == 1 + (((e - 1) \div b) % 4)
<1>1. d(1) \in 1..4 /\ d(4) \in 1..4 /\ d(16) \in 1..4 /\ d(64) \in 1..4
  OBVIOUS
<1>2. Power[e] = (((<<1, 3, 9, 27>>[d(1)] * <<1, 81, 136, 222>>[d(4)]) % Prime)
      * ((<<1, 249, 64, 2>>[d(16)] * <<1, 241, 256, 16>>[d(64)]) % Prime)) % Prime
  BY DEF Power, Prime
<1> HIDE DEF d
<1>3. <<1, 3, 9, 27>>[d(1)] \in Int /\ <<1, 81, 136, 222>>[d(4)] \in Int /\ <<1, 249, 64, 2>>[d(16)] \in Int /\ <<1, 241, 256, 16>>[d(64)] \in Int
  BY <1>1
<1> DEFINE a == <<1, 3, 9, 27>>[d(1)]
           b == <<1, 81, 136, 222>>[d(4)]
           c == <<1, 249, 64, 2>>[d(16)]
           f == <<1, 241, 256, 16>>[d(64)]
<1>4. a \in Int /\ b \in Int /\ c \in Int /\ f \in Int /\ Power[e] = (((a * b) % 257) * ((c * f) % 257)) % 257
  BY <1>2, <1>3 DEF Prime
<1> HIDE DEF a, b, c, f
<1>5. (a * b) % 257 \in Int /\ (c * f) % 257 \in Int
  BY <1>4
<1>6. QED
  BY <1>4, <1>5

\* 257 is prime: no product of two smaller numbers is a multiple of it.
LEMMA NoFactor ==
  ASSUME NEW x \in 2..256
  PROVE  257 % x \in 1..(x - 1)
<1> SUFFICES ASSUME 257 % x = 0 PROVE FALSE
  <2>1. 257 % x \in 0..(x - 1)
    BY Quotient
  <2>2. QED
    BY <2>1
<1> DEFINE q == 257 \div x
<1>1. q \in Int /\ 257 = x * q /\ q >= 0
  <2>1. 257 = (x * (257 \div x)) + (257 % x) /\ 257 \div x \in Int /\ 257 \div x >= 0
    BY Quotient
  <2>2. QED
    BY <2>1
<1> HIDE DEF q
<1>2. \A d \in 2..16 : \A r \in Int : d * r # 257
  OBVIOUS
<1>3. CASE x <= 16
  BY <1>1, <1>2, <1>3
<1>4. CASE x >= 17 /\ q <= 16
  <2>1. q # 0 /\ q # 1
    <3>1. x * 0 = 0 /\ x * 1 = x
      OBVIOUS
    <3>2. QED
      BY <1>1, <3>1
  <2>2. q \in 2..16 /\ q * x = 257
    BY <1>1, <1>4, <2>1
  <2>3. q * x # 257
    <3>1. x \in Int
      OBVIOUS
    <3>2. QED
      BY <1>2, <2>2, <3>1, Zenon
  <2>4. QED
    BY <2>2, <2>3
<1>5. CASE x >= 17 /\ q >= 17
  <2>1. 17 * 17 <= 17 * q /\ q * 17 <= q * x
    BY <1>1, <1>5, Scaled
  <2>2. QED
    BY <1>1, <2>1
<1>6. QED
  BY <1>1, <1>3, <1>4, <1>5

\* Multiplying by a number permutes the residues, one of which it takes to 1.
LEMMA InverseStep ==
  ASSUME NEW x \in 2..256, NEW y \in 1..256, ((257 % x) * y) % 257 = 1
  PROVE  \E z \in 1..256 : (x * z) % 257 = 1
<1>1. PICK q \in Int, r \in Int : 257 = (x * q) + r /\ (r * y) % 257 = 1
  <2>1. 257 = (x * (257 \div x)) + (257 % x) /\ 257 \div x \in Int /\ 257 % x \in Int
    BY Quotient
  <2> DEFINE q == 257 \div x
             r == 257 % x
  <2>2. q \in Int /\ r \in Int /\ 257 = (x * q) + r /\ (r * y) % 257 = 1
    BY <2>1
  <2> HIDE DEF q, r
  <2>3. QED
    BY <2>2
<1>2. PICK s \in Int : r * y = (257 * s) + 1
  <2> DEFINE w == r * y
  <2>1. w \in Int /\ w % 257 = 1
    BY <1>1
  <2> HIDE DEF w
  <2>2. w = (257 * (w \div 257)) + (w % 257) /\ w \div 257 \in Int
    BY <2>1, Quotient
  <2>3. w = (257 * (w \div 257)) + 1 /\ w \div 257 \in Int
    BY <2>1, <2>2
  <2>4. QED
    BY <2>3 DEF w
<1>3. PICK m \in Int, z \in 0..256 : -(q * y) = (257 * m) + z
  <2> DEFINE w == -(q * y)
  <2>1. w \in Int
    BY <1>1
  <2> HIDE DEF w
  <2>2. w = (257 * (w \div 257)) + (w % 257) /\ w \div 257 \in Int /\ w % 257 \in 0..256
    BY <2>1, Quotient
  <2>3. w = (257 * (w \div 257)) + (w % 257) /\ w \div 257 \in Int /\ w % 257 \in 0..256 /\ w = -(q * y)
    BY <2>2 DEF w
  <2>4. QED
    BY <2>3
<1>4. x * z = (257 * ((s - y) - (x * m))) + 1
  <2>1. z = (-(q * y)) - (257 * m)
    BY <1>3
  <2>2. x * z = (x * (-(q * y))) - (x * (257 * m))
    BY <2>1
  <2>3. x * (-(q * y)) = -((x * q) * y)
    OBVIOUS
  <2>4. (x * q) * y = (257 * y) - (r * y)
    <3>1. x * q = 257 - r
      BY <1>1
    <3>2. (257 - r) * y = (257 * y) - (r * y)
      OBVIOUS
    <3>3. QED
      BY <3>1, <3>2
  <2>5. x * (257 * m) = 257 * (x * m)
    OBVIOUS
  <2>6. x * z = (257 * s) + 1 - (257 * y) - (257 * (x * m))
    <3> DEFINE a == x * z
               b == x * (-(q * y))
               c == x * (257 * m)
               d == (x * q) * y
               e == r * y
               f == x * m
    <3>1. b \in Int /\ c \in Int /\ d \in Int /\ e \in Int /\ f \in Int
      OBVIOUS
    <3>2. a = b - c /\ b = -d /\ d = (257 * y) - e /\ c = 257 * f /\ e = (257 * s) + 1
      BY <1>2, <2>2, <2>3, <2>4, <2>5
    <3> HIDE DEF a, b, c, d, e, f
    <3>3. a = (257 * s) + 1 - (257 * y) - (257 * f)
      BY <3>1, <3>2
    <3>4. QED
      BY <3>3 DEF a, f
  <2>7. \A w \in Int : (257 * s) + 1 - (257 * y) - (257 * w) = (257 * ((s - y) - w)) + 1
    OBVIOUS
  <2>8. QED
    BY <2>6, <2>7
<1>5. (x * z) % 257 = 1
  <2> DEFINE w == (s - y) - (x * m)
             n == x * z
  <2>1. w \in Int /\ n \in Int /\ n = (257 * w) + 1
    BY <1>2, <1>3, <1>4
  <2> HIDE DEF w, n
  <2>2. n % 257 = 1
    BY <2>1, Remainder
  <2>3. QED
    BY <2>2 DEF n
<1>6. z # 0
  BY <1>5
<1>7. QED
  BY <1>3, <1>5, <1>6

\* Every residue but 0 has an inverse.
LEMMA InverseExists == \A x \in 1..256 : \E y \in 1..256 : (x * y) % 257 = 1
<1> DEFINE S == {x \in 1..256 : ~\E y \in 1..256 : (x * y) % 257 = 1}
<1> SUFFICES ASSUME S # {} PROVE FALSE
  OBVIOUS
<1>1. PICK x \in S : \A m \in S : x <= m
  <2>1. S \in SUBSET Nat
    OBVIOUS
  <2> HIDE DEF S
  <2>2. QED
    BY <2>1, LeastOf
<1>2. x # 1
  <2>1. (1 * 1) % 257 = 1
    OBVIOUS
  <2>2. QED
    BY <2>1
<1>3. x \in 2..256
  BY <1>2
<1>4. 257 % x \in 1..(x - 1)
  BY <1>3, NoFactor
<1>5. 257 % x \notin S
  BY <1>1, <1>3, <1>4
<1>6. PICK y \in 1..256 : ((257 % x) * y) % 257 = 1
  BY <1>3, <1>4, <1>5
<1>7. QED
  BY <1>3, <1>6, InverseStep

\* The table of inverses holds them.
LEMMA InverseRange == \A x \in 1..256 : Inverses[x] \in 1..256
<1> SUFFICES ASSUME NEW x \in 1..256
             PROVE  Inverses[x] \in 1..256
  OBVIOUS
<1>1. x \in 1..(Prime - 1) /\ \E y \in 1..(Prime - 1) : (x * y) % Prime = 1
  BY InverseExists DEF Prime
<1>2. Inverses[x] = CHOOSE y \in 1..(Prime - 1) : (x * y) % Prime = 1
  BY <1>1, Zenon DEF Inverses
<1>3. Inverses[x] \in 1..(Prime - 1)
  BY <1>1, <1>2, Zenon
<1>4. QED
  BY <1>3 DEF Prime

\* What is not a number is no residue.
LEMMA Specials ==
  /\ NaN \in Int /\ NegInf \in Int /\ NaN # NegInf
  /\ \A x \in 0..256 : x \notin {NaN, NegInf}
BY SMT DEF NaN, NegInf

\* A division is a multiplication by what 1 is divided by.
LEMMA Factor ==
  ASSUME NEW x \in Int \ {NaN, NegInf}, NEW y \in {NaN, NegInf} \cup (0..256)
  PROVE  Div(x, y) = Mul(x, Div(1, y)) /\ Div(x, y) \in Int
<1>1. CASE y \in {NaN, NegInf, 0}
  BY <1>1, Specials DEF Div, Mul
<1>2. CASE y \in 1..256
  <2> DEFINE i == Inverses[y]
  <2>1. y % Prime = y /\ y \notin {NaN, NegInf, 0}
    BY <1>2, Specials DEF Prime
  <2>2. i \in 1..256
    BY <1>2, InverseRange
  <2>3. Div(x, y) = Mul(x, i) /\ Div(1, y) = Mul(1, i)
    BY <2>1 DEF Div
  <2> HIDE DEF i
  <2>4. Mul(1, i) = i
    BY <2>2, Specials DEF Mul, Prime
  <2>5. Mul(x, i) \in Int
    BY <2>2, Specials DEF Mul, Prime
  <2>6. QED
    BY <2>3, <2>4, <2>5
<1>3. QED
  BY <1>1, <1>2

\* The divisor of the logistic function is a residue or no number.
LEMMA Logistic ==
  ASSUME NEW x \in Int \ {NaN, NegInf}
  PROVE  Add(1, Exp(Diff(0, x))) \in {NaN, NegInf} \cup (0..256)
<1>1. Diff(0, x) \in Int
  BY Specials DEF Diff
<1>2. \A d \in Int : Exp(d) \in {NaN} \cup (0..256)
  <2> SUFFICES ASSUME NEW d \in Int
               PROVE  Exp(d) \in {NaN} \cup (0..256)
    OBVIOUS
  <2>1. d % 256 \in 0..255
    BY Quotient
  <2>2. 1 + (d % (Prime - 1)) \in 1..256
    BY <2>1 DEF Prime
  <2>3. Power[1 + (d % (Prime - 1))] \in 0..256
    BY <2>2, PowerRange
  <2>4. QED
    BY <2>3 DEF Exp
<1>3. \A e \in {NaN} \cup (0..256) : Add(1, e) \in {NaN, NegInf} \cup (0..256)
  BY Specials DEF Add, Prime
<1>4. QED
  BY <1>1, <1>2, <1>3

\* The fused form of silu that a template computes is the promised one.
LEMMA SiluForms ==
  ASSUME NEW x \in Int \ {NaN, NegInf}, NEW a, a[1] = x
  PROVE  FusedOp("silu", a) = Silu(x) /\ Silu(x) \in Int
<1>1. FusedOp("silu", a) = Div(x, Add(1, Exp(Diff(0, x))))
  BY DEF FusedOp
<1>2. QED
  BY <1>1, Logistic, Factor DEF Silu, Sigmoid

\* What a store and a guarded write leave of a cell.
LEMMA Guarded ==
  ASSUME NEW k \in Kernels, NEW g \in Groups(k), NEW t \in Threads(k), k.n \in Nat, NEW x
  PROVE  /\ k.n <= BlockOffset(k, g, t) =>
              Store(k, "output", BlockOffset(k, g, t), x) = Nothing /\ Write(k, g, t, x) = Nothing
         /\ BlockOffset(k, g, t) \in 0..(k.n - 1) =>
              /\ Mask(k, BlockOffset(k, g, t))
              /\ Store(k, "output", BlockOffset(k, g, t), x) = Put("output", BlockOffset(k, g, t), Cast(k, x))
              /\ Write(k, g, t, x) = Put("output", BlockOffset(k, g, t), x)
BY OffsetInt DEF Store, Write, Mask

\* swiglu writes what it promises.
LEMMA SwigluRight ==
  ASSUME NEW k \in Kernels, PerCell(k), Runs(k), k.name = "swiglu"
  PROVE  CellByCell(k)
<1> DEFINE A == Arrays(k).dev
<1>1. /\ k.name \in LineNames /\ ElementOutputs(k) = {"output"} /\ k.n \in Nat
      /\ Numbers(A, "input", k.n) /\ Numbers(A, "input1", k.n)
  BY OnLineArrays DEF LineNames, Extras, Rearranging
<1>2. \A g \in Groups(k), t \in Threads(k) : \A v : ElementEffect(k, g, Run("all"), t, v) = Swiglu(k, g, t, v)
  BY DEF ElementEffect
<1>3. ASSUME NEW g \in Groups(k), NEW t \in Threads(k), NEW v, k.n <= BlockOffset(k, g, t)
      PROVE  Swiglu(k, g, t, v) = Nothing
  BY <1>1, <1>3, Guarded DEF Swiglu
<1>4. ASSUME NEW g \in Groups(k), NEW t \in Threads(k), NEW v, BlockOffset(k, g, t) \in 0..(k.n - 1), Given(k, v)
      PROVE  Swiglu(k, g, t, v) = Put("output", BlockOffset(k, g, t), Promised(k, A, "output", BlockOffset(k, g, t)))
  <2> DEFINE j == BlockOffset(k, g, t)
             x == A.input[j]
             y == A.input1[j]
  <2>1. /\ At(v.input, j) = x /\ x \in Int
        /\ At(v.input1, j) = y /\ y \in Int \ {NaN, NegInf}
    <3>1. At(v.input, j) = x /\ x \in Int
      BY <1>1, <1>4, Reads
    <3>2. At(v.input1, j) = y /\ y \in Int \ {NaN, NegInf}
      BY <1>1, <1>4, Reads
    <3>3. QED
      BY <3>1, <3>2
  <2>2. Mask(k, j) /\ \A z : Store(k, "output", j, z) = Put("output", j, Cast(k, z))
    BY <1>1, <1>4, Guarded
  <2>3. Promised(k, A, "output", j) = Cast(k, Mul(x, Silu(y)))
    BY DEF Promised
  <2> HIDE DEF j, x, y
  <2>4. FusedOp("silu", <<y>>) = Silu(y) /\ Silu(y) \in Int
    BY <2>1, SiluForms
  <2>5. Swiglu(k, g, t, v) = Store(k, "output", j, Mul(FusedOp("silu", <<y>>), x))
    BY <2>1, <2>2 DEF Swiglu, Load, BinaryOp, j
  <2>6. Mul(Silu(y), x) = Mul(x, Silu(y))
    BY <2>1, <2>4, MulOf
  <2>7. QED
    BY <2>2, <2>3, <2>4, <2>5, <2>6 DEF j
<1>5. QED
  BY <1>1, <1>2, <1>3, <1>4, OnLine

\* fused_mlp writes what it promises.
LEMMA FusedMlpRight ==
  ASSUME NEW k \in Kernels, PerCell(k), Runs(k), k.name = "fused_mlp"
  PROVE  CellByCell(k)
<1> DEFINE A == Arrays(k).dev
<1>1. /\ k.name \in LineNames /\ ElementOutputs(k) = {"output"} /\ k.n \in Nat
      /\ Numbers(A, "input", k.n) /\ Numbers(A, "input1", k.n)
  BY OnLineArrays DEF LineNames, Extras, Rearranging
<1>2. \A g \in Groups(k), t \in Threads(k) : \A v : ElementEffect(k, g, Run("all"), t, v) = FusedMlp(k, g, t, v)
  BY DEF ElementEffect
<1>3. ASSUME NEW g \in Groups(k), NEW t \in Threads(k), NEW v, k.n <= BlockOffset(k, g, t)
      PROVE  FusedMlp(k, g, t, v) = Nothing
  BY <1>1, <1>3, Guarded DEF FusedMlp
<1>4. ASSUME NEW g \in Groups(k), NEW t \in Threads(k), NEW v, BlockOffset(k, g, t) \in 0..(k.n - 1), Given(k, v)
      PROVE  FusedMlp(k, g, t, v) = Put("output", BlockOffset(k, g, t), Promised(k, A, "output", BlockOffset(k, g, t)))
  <2> DEFINE j == BlockOffset(k, g, t)
             x == A.input[j]
             y == A.input1[j]
  <2>1. At(v.input, j) = x /\ x \in Int \ {NaN, NegInf} /\ At(v.input1, j) = y
    BY <1>1, <1>4, Reads
  <2>2. \A z : Write(k, g, t, z) = Put("output", j, z)
    BY <1>1, <1>4, Guarded
  <2>3. Promised(k, A, "output", j) = Mul(Silu(x), y)
    BY DEF Promised
  <2> HIDE DEF j, x, y
  <2>4. FusedOp("silu", <<x>>) = Silu(x)
    BY <2>1, SiluForms
  <2>5. QED
    BY <2>1, <2>2, <2>3, <2>4 DEF FusedMlp, j
<1>5. QED
  BY <1>1, <1>2, <1>3, <1>4, OnLine

\* Each activation writes what it promises.
LEMMA ActivationRight ==
  ASSUME NEW k \in Kernels, PerCell(k), Runs(k), k.name = "activation"
  PROVE  CellByCell(k)
<1> DEFINE A == Arrays(k).dev
<1>1. /\ k.name \in LineNames /\ ElementOutputs(k) = {"output"} /\ k.n \in Nat
      /\ Numbers(A, "input", k.n) /\ k.scalar \in Int
  BY OnLineArrays DEF LineNames, Extras, Rearranging
<1>2. \A g \in Groups(k), t \in Threads(k) : \A v : ElementEffect(k, g, Run("all"), t, v) = Activation(k, g, t, v)
  BY DEF ElementEffect
<1>3. ASSUME NEW g \in Groups(k), NEW t \in Threads(k), NEW v, k.n <= BlockOffset(k, g, t)
      PROVE  Activation(k, g, t, v) = Nothing
  BY <1>1, <1>3, Guarded DEF Activation
<1>4. ASSUME NEW g \in Groups(k), NEW t \in Threads(k), NEW v, BlockOffset(k, g, t) \in 0..(k.n - 1), Given(k, v)
      PROVE  Activation(k, g, t, v) = Put("output", BlockOffset(k, g, t), Promised(k, A, "output", BlockOffset(k, g, t)))
  <2> DEFINE j == BlockOffset(k, g, t)
             x == A.input[j]
  <2>1. At(v.input, j) = x /\ x \in Int \ {NaN, NegInf}
    <3>1. Numbers(A, "input", k.n) /\ "input" \notin ElementOutputs(k)
      BY <1>1
    <3>2. \A i \in 0..(k.n - 1) : At(v["input"], i) = A["input"][i] /\ A["input"][i] \in Int \ {NaN, NegInf}
      BY <1>4, <3>1, Reads
    <3>3. QED
      BY <1>4, <3>2
  <2>2. Mask(k, j) /\ \A z : Store(k, "output", j, z) = Put("output", j, Cast(k, z))
    BY <1>1, <1>4, Guarded
  <2>3. Promised(k, A, "output", j) = Cast(k,
          CASE k.op = "sigmoid" -> Sigmoid(x) [] k.op = "silu" -> Silu(x)
            [] k.op \in {"elu", "leaky_relu"} -> IF x < k.scalar THEN Fn(k.op, x) ELSE x
            [] OTHER -> Fn(k.op, x))
    BY DEF Promised
  <2> HIDE DEF j, x
  <2>4. FusedOp("silu", <<x>>) = Silu(x) /\ UnaryOp("sigmoid", x) = Sigmoid(x)
    BY <2>1, SiluForms DEF UnaryOp, Sigmoid
  <2>5. Load(k, v.input, j) = x
    BY <2>1, <2>2 DEF Load
  <2>6. Activation(k, g, t, v) = Store(k, "output", j,
          CASE k.op \in {"elu", "leaky_relu"} -> IF x >= k.scalar THEN x ELSE Fn(k.op, x)
            [] k.op = "silu" -> Silu(x)
            [] k.op = "sigmoid" -> Sigmoid(x)
            [] OTHER -> Fn(k.op, x))
    BY <2>4, <2>5 DEF Activation, j
  <2>7. CASE k.op \in {"elu", "leaky_relu"}
    BY <1>1, <2>1, <2>2, <2>3, <2>6, <2>7 DEF j
  <2>8. CASE k.op \notin {"elu", "leaky_relu"}
    BY <2>2, <2>3, <2>6, <2>8 DEF j
  <2>9. QED
    BY <2>7, <2>8
<1>5. QED
  BY <1>1, <1>2, <1>3, <1>4, OnLine

\* Each elementwise kernel of one, two or three inputs writes what it promises.
LEMMA ElementwiseRight ==
  ASSUME NEW k \in Kernels, PerCell(k), Runs(k), k.name = "elementwise"
  PROVE  CellByCell(k)
<1> DEFINE A == Arrays(k).dev
<1>1. /\ k.name \in LineNames /\ ElementOutputs(k) = {"output"} /\ k.n \in Nat
      /\ Numbers(A, "input", k.n) /\ ElementAdmits(k) /\ \A i \in 1..k.inputs : Numbers(A, InputNames[i], k.n)
  BY OnLineArrays DEF LineNames, Extras, Rearranging
<1>2. \A g \in Groups(k), t \in Threads(k) : \A v : ElementEffect(k, g, Run("all"), t, v) = Elementwise(k, g, t, v)
  BY DEF ElementEffect
<1>3. ASSUME NEW g \in Groups(k), NEW t \in Threads(k), NEW v, k.n <= BlockOffset(k, g, t)
      PROVE  Elementwise(k, g, t, v) = Nothing
  BY <1>1, <1>3, Guarded DEF Elementwise
<1>4. ASSUME NEW g \in Groups(k), NEW t \in Threads(k), NEW v, BlockOffset(k, g, t) \in 0..(k.n - 1), Given(k, v)
      PROVE  Elementwise(k, g, t, v) = Put("output", BlockOffset(k, g, t), Promised(k, A, "output", BlockOffset(k, g, t)))
  <2> DEFINE j == BlockOffset(k, g, t)
             vals == [i \in 1..k.inputs |-> Load(k, v[InputNames[i]], j)]
             Gets(y) == Elementwise(k, g, t, v) = Store(k, "output", j, y)
             Owes(y) == Promised(k, A, "output", j) = Cast(k, y)
  <2>1. Mask(k, j) /\ \A z : Store(k, "output", j, z) = Put("output", j, Cast(k, z))
    BY <1>1, <1>4, Guarded
  <2>2. ASSUME NEW i \in 1..k.inputs
        PROVE  vals[i] = A[InputNames[i]][j] /\ A[InputNames[i]][j] \in Int \ {NaN, NegInf}
    <3>1. k.inputs \in 1..3 /\ InputNames[i] # "output"
      BY <1>1 DEF ElementAdmits, InputNames
    <3> DEFINE a == InputNames[i]
    <3>2. Numbers(A, a, k.n) /\ a \notin ElementOutputs(k)
      BY <1>1, <3>1
    <3> HIDE DEF a
    <3>3. At(v[a], j) = A[a][j] /\ A[a][j] \in Int \ {NaN, NegInf}
      BY <1>4, <3>2, Reads
    <3>4. QED
      BY <2>1, <3>3 DEF Load, a
  <2> HIDE DEF vals
  <2>3. InputNames[1] = "input" /\ InputNames[2] = "input1" /\ InputNames[3] = "input2"
    BY DEF InputNames
  <2>4. CASE k.inputs = 1
    <3>1. k.op \in {"silu", "gelu", "gelu_tanh", "neg", "exp", "log", "sqrt", "sin", "sigmoid"}
      BY <1>1, <2>4 DEF ElementAdmits, BinaryOps
    <3>2. vals[1] = A.input[j] /\ A.input[j] \in Int \ {NaN, NegInf}
      BY <2>2, <2>3, <2>4
    <3>3. Elementwise(k, g, t, v)
          = Store(k, "output", j, IF k.op \in {"silu", "gelu", "gelu_tanh"} THEN FusedOp(k.op, vals) ELSE UnaryOp(k.op, vals[1]))
      <4> DEFINE x == CASE k.inputs = 1 /\ k.op \in {"silu", "gelu", "gelu_tanh"} -> FusedOp(k.op, vals)
                        [] k.inputs = 1 /\ k.op \notin {"silu", "gelu", "gelu_tanh"} -> UnaryOp(k.op, vals[1])
                        [] k.inputs = 2 -> BinaryOp(k.op, vals[1], vals[2])
                        [] OTHER -> FusedOp("fma", vals)
      <4>1. Elementwise(k, g, t, v) = Store(k, "output", j, x)
        BY Zenon DEF Elementwise, vals, j, x
      <4>2. x = IF k.op \in {"silu", "gelu", "gelu_tanh"} THEN FusedOp(k.op, vals) ELSE UnaryOp(k.op, vals[1])
        BY <2>4
      <4>3. QED
        BY <4>1, <4>2
    <3>4. CASE k.op = "silu"
      BY <2>1, <3>2, <3>3, <3>4, SiluForms DEF Promised, j
    <3>5. CASE k.op = "sigmoid"
      BY <2>1, <3>2, <3>3, <3>5 DEF Promised, UnaryOp, Sigmoid, j
    <3>6. CASE k.op \in {"gelu", "gelu_tanh"}
      <4>1. FusedOp(k.op, vals) = Fn("gelu", vals[1])
        BY <3>6 DEF FusedOp
      <4>2. Promised(k, A, "output", j) = Cast(k, Fn("gelu", A.input[j]))
        BY <3>6 DEF Promised
      <4>3. QED
        BY <2>1, <3>2, <3>3, <3>6, <4>1, <4>2 DEF j
    <3>7. CASE k.op \in {"neg", "exp", "log", "sqrt", "sin"}
      <4>1. UnaryOp(k.op, vals[1])
            = CASE k.op = "neg" -> Sub(0, vals[1]) [] k.op = "exp" -> Exp(vals[1]) [] OTHER -> Fn(k.op, vals[1])
        BY <3>7 DEF UnaryOp
      <4>2. Promised(k, A, "output", j)
            = Cast(k, CASE k.op = "neg" -> Sub(0, A.input[j]) [] k.op = "exp" -> Exp(A.input[j]) [] OTHER -> Fn(k.op, A.input[j]))
        BY <3>7 DEF Promised
      <4>3. k.op \notin {"silu", "gelu", "gelu_tanh"}
        BY <3>7
      <4>4. QED
        BY <2>1, <3>2, <3>3, <4>1, <4>2, <4>3 DEF j
    <3>8. QED
      BY <3>1, <3>4, <3>5, <3>6, <3>7
  <2>5. CASE k.inputs = 2
    <3>1. k.op \in {"add", "sub", "mul", "div"}
      BY <1>1, <2>5 DEF ElementAdmits, BinaryOps
    <3>2. vals[1] = A.input[j] /\ vals[2] = A.input1[j]
      BY <2>2, <2>3, <2>5
    <3>3. Elementwise(k, g, t, v) = Store(k, "output", j, BinaryOp(k.op, A.input[j], A.input1[j]))
      BY <2>5, <3>2 DEF Elementwise, vals, j
    <3>4. Promised(k, A, "output", j) = Cast(k, BinaryOp(k.op, A.input[j], A.input1[j]))
      BY <3>1 DEF Promised, BinaryOp
    <3>5. QED
      BY <2>1, <3>3, <3>4 DEF j
  <2>6. CASE k.inputs = 3
    <3>1. k.op = "fma"
      BY <1>1, <2>6 DEF ElementAdmits
    <3>2. vals[1] = A.input[j] /\ vals[2] = A.input1[j] /\ vals[3] = A.input2[j]
      BY <2>2, <2>3, <2>6
    <3>3. Elementwise(k, g, t, v) = Store(k, "output", j, FusedOp("fma", vals))
      BY <2>6 DEF Elementwise, vals, j
    <3>4. FusedOp("fma", vals) = Add(Mul(A.input[j], A.input1[j]), A.input2[j])
      BY <3>2 DEF FusedOp
    <3>5. Promised(k, A, "output", j) = Cast(k, Add(Mul(A.input[j], A.input1[j]), A.input2[j]))
      BY <3>1 DEF Promised
    <3>6. QED
      BY <2>1, <3>3, <3>4, <3>5 DEF j
  <2>7. QED
    BY <1>1, <2>4, <2>5, <2>6 DEF ElementAdmits
<1>5. QED
  BY <1>1, <1>2, <1>3, <1>4, OnLine

\* where writes what it promises.
LEMMA WhereRight ==
  ASSUME NEW k \in Kernels, PerCell(k), Runs(k), k.name = "where"
  PROVE  CellByCell(k)
<1> DEFINE A == Arrays(k).dev
<1>1. /\ k.name \in LineNames /\ ElementOutputs(k) = {"output"} /\ k.n \in Nat
      /\ Numbers(A, "input", k.n) /\ Numbers(A, "input1", k.n) /\ Numbers(A, "input2", k.n)
      /\ \A i \in 0..(k.n - 1) : A.input2[i] \in {0, 1}
  BY OnLineArrays DEF LineNames, Extras, Rearranging
<1>2. \A g \in Groups(k), t \in Threads(k) : \A v : ElementEffect(k, g, Run("all"), t, v) = WhereKernel(k, g, t, v)
  BY DEF ElementEffect
<1>3. ASSUME NEW g \in Groups(k), NEW t \in Threads(k), NEW v, k.n <= BlockOffset(k, g, t)
      PROVE  WhereKernel(k, g, t, v) = Nothing
  BY <1>1, <1>3, Guarded DEF WhereKernel
<1>4. ASSUME NEW g \in Groups(k), NEW t \in Threads(k), NEW v, BlockOffset(k, g, t) \in 0..(k.n - 1), Given(k, v)
      PROVE  WhereKernel(k, g, t, v) = Put("output", BlockOffset(k, g, t), Promised(k, A, "output", BlockOffset(k, g, t)))
  <2> DEFINE j == BlockOffset(k, g, t)
  <2>1. At(v.input, j) = A.input[j]
    BY <1>1, <1>4, Reads
  <2>2. At(v.input1, j) = A.input1[j]
    BY <1>1, <1>4, Reads
  <2>3. At(v.input2, j) = A.input2[j] /\ A.input2[j] \in {0, 1}
    <3>1. At(v.input2, j) = A.input2[j]
      BY <1>1, <1>4, Reads
    <3>2. QED
      BY <1>1, <1>4, <3>1
  <2>4. \A z : Write(k, g, t, z) = Put("output", j, z)
    BY <1>1, <1>4, Guarded
  <2>5. Promised(k, A, "output", j) = IF A.input2[j] = 1 THEN A.input[j] ELSE A.input1[j]
    BY DEF Promised
  <2>6. QED
    BY <2>1, <2>2, <2>3, <2>4, <2>5 DEF WhereKernel
<1>5. QED
  BY <1>1, <1>2, <1>3, <1>4, OnLine

\* clamp writes what it promises.
LEMMA ClampRight ==
  ASSUME NEW k \in Kernels, PerCell(k), Runs(k), k.name = "clamp"
  PROVE  CellByCell(k)
<1> DEFINE A == Arrays(k).dev
<1>1. /\ k.name \in LineNames /\ ElementOutputs(k) = {"output"} /\ k.n \in Nat /\ Numbers(A, "input", k.n)
      /\ k.low \in Int \ {NaN} /\ k.high \in Int \ {NaN} /\ k.low <= k.high
  BY OnLineArrays DEF LineNames, Extras, Rearranging
<1>2. \A g \in Groups(k), t \in Threads(k) : \A v : ElementEffect(k, g, Run("all"), t, v) = Clamp(k, g, t, v)
  BY DEF ElementEffect
<1>3. ASSUME NEW g \in Groups(k), NEW t \in Threads(k), NEW v, k.n <= BlockOffset(k, g, t)
      PROVE  Clamp(k, g, t, v) = Nothing
  BY <1>1, <1>3, Guarded DEF Clamp
<1>4. ASSUME NEW g \in Groups(k), NEW t \in Threads(k), NEW v, BlockOffset(k, g, t) \in 0..(k.n - 1), Given(k, v)
      PROVE  Clamp(k, g, t, v) = Put("output", BlockOffset(k, g, t), Promised(k, A, "output", BlockOffset(k, g, t)))
  <2> DEFINE j == BlockOffset(k, g, t)
             x == A.input[j]
  <2>1. At(v.input, j) = x /\ x \in Int \ {NaN}
    <3>1. Numbers(Arrays(k).dev, "input", k.n) /\ "input" \notin ElementOutputs(k)
      BY <1>1
    <3>2. \A i \in 0..(k.n - 1) : At(v["input"], i) = A["input"][i] /\ A["input"][i] \in Int \ {NaN, NegInf}
      BY <1>4, <3>1, Reads
    <3>3. QED
      BY <1>4, <3>2
  <2>2. \A z : Write(k, g, t, z) = Put("output", j, z)
    BY <1>1, <1>4, Guarded
  <2>3. Promised(k, A, "output", j) = Cast(k, IF x < k.low THEN k.low ELSE IF x > k.high THEN k.high ELSE x)
    BY DEF Promised
  <2> HIDE DEF x
  <2>4. Top(k.low, Bottom(k.high, x)) = IF x < k.low THEN k.low ELSE IF x > k.high THEN k.high ELSE x
    BY <1>1, <2>1 DEF Top, Bottom
  <2>5. QED
    BY <2>1, <2>2, <2>3, <2>4 DEF Clamp
<1>5. QED
  BY <1>1, <1>2, <1>3, <1>4, OnLine

\* Each comparison writes what it promises.
LEMMA CompareRight ==
  ASSUME NEW k \in Kernels, PerCell(k), Runs(k), k.name = "compare"
  PROVE  CellByCell(k)
<1> DEFINE A == Arrays(k).dev
<1>1. /\ k.name \in LineNames /\ ElementOutputs(k) = {"output"} /\ k.n \in Nat
      /\ Numbers(A, "input", k.n) /\ Numbers(A, "input1", k.n) /\ k.op \in {"eq", "ne", "lt", "le", "gt", "ge"}
  BY OnLineArrays DEF LineNames, Extras, Rearranging
<1>2. \A g \in Groups(k), t \in Threads(k) : \A v : ElementEffect(k, g, Run("all"), t, v) = Compare(k, g, t, v)
  BY DEF ElementEffect
<1>3. ASSUME NEW g \in Groups(k), NEW t \in Threads(k), NEW v, k.n <= BlockOffset(k, g, t)
      PROVE  Compare(k, g, t, v) = Nothing
  <2>1. \A z : Write(k, g, t, z) = Nothing
    BY <1>1, <1>3, Guarded
  <2>2. \E z : Compare(k, g, t, v) = Write(k, g, t, z)
    BY DEF Compare
  <2>3. QED
    BY <2>1, <2>2
<1>4. ASSUME NEW g \in Groups(k), NEW t \in Threads(k), NEW v, BlockOffset(k, g, t) \in 0..(k.n - 1), Given(k, v)
      PROVE  Compare(k, g, t, v) = Put("output", BlockOffset(k, g, t), Promised(k, A, "output", BlockOffset(k, g, t)))
  <2> DEFINE j == BlockOffset(k, g, t)
             x == A.input[j]
             y == A.input1[j]
  <2>1. At(v.input, j) = x /\ x \in Int
    BY <1>1, <1>4, Reads
  <2>2. At(v.input1, j) = y /\ y \in Int
    BY <1>1, <1>4, Reads
  <2>3. \A z : Write(k, g, t, z) = Put("output", j, z)
    BY <1>1, <1>4, Guarded
  <2>4. CASE k.op = "eq"
    <3>1. Compare(k, g, t, v) = Put("output", j, IF x = y THEN 1 ELSE 0)
      BY <2>1, <2>2, <2>3, <2>4 DEF Compare
    <3>2. Promised(k, A, "output", j) = IF x = y THEN 1 ELSE 0
      BY <2>4 DEF Promised
    <3>3. QED
      BY <2>1, <2>2, <3>1, <3>2
  <2>5. CASE k.op = "ne"
    <3>1. Compare(k, g, t, v) = Put("output", j, IF x # y THEN 1 ELSE 0)
      BY <2>1, <2>2, <2>3, <2>5 DEF Compare
    <3>2. Promised(k, A, "output", j) = IF x # y THEN 1 ELSE 0
      BY <2>5 DEF Promised
    <3>3. QED
      BY <2>1, <2>2, <3>1, <3>2
  <2>6. CASE k.op = "lt"
    <3>1. Compare(k, g, t, v) = Put("output", j, IF x < y THEN 1 ELSE 0)
      BY <2>1, <2>2, <2>3, <2>6 DEF Compare
    <3>2. Promised(k, A, "output", j) = IF x < y THEN 1 ELSE 0
      BY <2>6 DEF Promised
    <3>3. QED
      BY <2>1, <2>2, <3>1, <3>2
  <2>7. CASE k.op = "le"
    <3>1. Compare(k, g, t, v) = Put("output", j, IF x <= y THEN 1 ELSE 0)
      BY <2>1, <2>2, <2>3, <2>7 DEF Compare
    <3>2. Promised(k, A, "output", j) = IF ~(y < x) THEN 1 ELSE 0
      BY <2>7 DEF Promised
    <3>3. QED
      BY <2>1, <2>2, <3>1, <3>2
  <2>8. CASE k.op = "gt"
    <3>1. Compare(k, g, t, v) = Put("output", j, IF x > y THEN 1 ELSE 0)
      BY <2>1, <2>2, <2>3, <2>8 DEF Compare
    <3>2. Promised(k, A, "output", j) = IF y < x THEN 1 ELSE 0
      BY <2>8 DEF Promised
    <3>3. QED
      BY <2>1, <2>2, <3>1, <3>2
  <2>9. CASE k.op = "ge"
    <3>1. Compare(k, g, t, v) = Put("output", j, IF x >= y THEN 1 ELSE 0)
      BY <2>1, <2>2, <2>3, <2>9 DEF Compare
    <3>2. Promised(k, A, "output", j) = IF ~(x < y) THEN 1 ELSE 0
      BY <2>9 DEF Promised
    <3>3. QED
      BY <2>1, <2>2, <3>1, <3>2
  <2>10. QED
    BY <1>1, <2>4, <2>5, <2>6, <2>7, <2>8, <2>9
<1>5. QED
  BY <1>1, <1>2, <1>3, <1>4, OnLine

\* gather and index_select write what they promise.
LEMMA GatherRight ==
  ASSUME NEW k \in Kernels, PerCell(k), Runs(k), k.name \in {"gather", "index_select"}
  PROVE  CellByCell(k)
<1> DEFINE A == Arrays(k).dev
           Gathered(g, t, v) == Write(k, g, t, At(v.input, At(v.indices, BlockOffset(k, g, t))))
<1>1. /\ k.name \in LineNames /\ ElementOutputs(k) = {"output"} /\ k.n \in Nat
      /\ "input" \in DOMAIN A /\ Indexes(A, "indices", k.n, "input") /\ Numbers(A, "indices", k.n)
  <2>1. k.name \in LineNames
    BY DEF LineNames
  <2>2. Numbers(A, "input", 0) /\ Indexes(A, "indices", k.n, "input")
    BY <2>1, OnLineArrays DEF Extras, Rearranging
  <2>3. "input" \in DOMAIN A
    BY <2>2 DEF Numbers
  <2>4. Numbers(A, "indices", k.n)
    BY <2>2 DEF Indexes
  <2>5. QED
    BY <2>1, <2>2, <2>3, <2>4, OnLineArrays
<1>2. \A g \in Groups(k), t \in Threads(k) : \A v : ElementEffect(k, g, Run("all"), t, v) = Gathered(g, t, v)
  BY DEF ElementEffect, GatherKernel, IndexSelect
<1>3. ASSUME NEW g \in Groups(k), NEW t \in Threads(k), NEW v, k.n <= BlockOffset(k, g, t)
      PROVE  Gathered(g, t, v) = Nothing
  BY <1>1, <1>3, Guarded
<1>4. ASSUME NEW g \in Groups(k), NEW t \in Threads(k), NEW v, BlockOffset(k, g, t) \in 0..(k.n - 1), Given(k, v)
      PROVE  Gathered(g, t, v) = Put("output", BlockOffset(k, g, t), Promised(k, A, "output", BlockOffset(k, g, t)))
  <2> DEFINE j == BlockOffset(k, g, t)
             i == A.indices[j]
  <2>1. At(v.indices, j) = i
    <3>1. Numbers(A, "indices", k.n) /\ "indices" \notin ElementOutputs(k)
      BY <1>1
    <3>2. QED
      BY <1>4, <3>1, Reads
  <2>2. i \in DOMAIN A.input
    BY <1>1, <1>4 DEF Indexes
  <2>3. At(v.input, i) = A.input[i]
    BY <1>1, <1>4, <2>2 DEF Given, At
  <2>4. \A z : Write(k, g, t, z) = Put("output", j, z)
    BY <1>1, <1>4, Guarded
  <2>5. Promised(k, A, "output", j) = A.input[i]
    BY DEF Promised
  <2>6. QED
    BY <2>1, <2>3, <2>4, <2>5
<1> HIDE DEF Gathered
<1>5. QED
  BY <1>1, <1>2, <1>3, <1>4, OnLine

\* A product of residues is the residue of the product.
LEMMA TimesMod ==
  ASSUME NEW a \in Int, NEW b \in Int
  PROVE  (a * (b % 257)) % 257 = (a * b) % 257
<1>1. PICK q \in Int, r \in 0..256 : b = (257 * q) + r /\ r = b % 257
  BY Quotient
<1>2. PICK p \in Int, s \in 0..256 : a * r = (257 * p) + s
  <2> DEFINE w == a * r
  <2>1. w \in Int
    BY <1>1
  <2> HIDE DEF w
  <2>2. w = (257 * (w \div 257)) + (w % 257) /\ w \div 257 \in Int /\ w % 257 \in 0..256
    BY <2>1, Quotient
  <2>3. w = (257 * (w \div 257)) + (w % 257) /\ w \div 257 \in Int /\ w % 257 \in 0..256 /\ w = a * r
    BY <2>2 DEF w
  <2>4. QED
    BY <2>3
<1>3. a * b = (257 * ((a * q) + p)) + s
  <2>1. a * b = (a * (257 * q)) + (a * r)
    BY <1>1
  <2>2. a * (257 * q) = 257 * (a * q)
    OBVIOUS
  <2>3. \A m \in Int : (257 * m) + ((257 * p) + s) = (257 * (m + p)) + s
    OBVIOUS
  <2>4. QED
    BY <1>2, <2>1, <2>2, <2>3
<1> DEFINE n == a * b
           m == a * r
           u == (a * q) + p
<1>4. n \in Int /\ m \in Int /\ u \in Int /\ n = (257 * u) + s /\ m = (257 * p) + s
  BY <1>2, <1>3
<1> HIDE DEF n, m, u
<1>5. n % 257 = s /\ m % 257 = s
  BY <1>4, Remainder
<1>6. QED
  BY <1>1, <1>5 DEF n, m

\* Multiplication does not depend on how its operands are grouped.
LEMMA MulAssociates ==
  ASSUME NEW x \in Int \ {NaN, NegInf}, NEW y \in Int \ {NaN, NegInf}, NEW z \in Int \ {NaN, NegInf}
  PROVE  Mul(x, Mul(y, z)) = Mul(Mul(x, y), z)
<1> DEFINE p == (y * z) % 257
           q == (x * y) % 257
<1>1. p \in 0..256 /\ q \in 0..256
  OBVIOUS
<1>2. Mul(y, z) = p /\ Mul(x, y) = q
  BY DEF Mul, Prime
<1>3. Mul(x, p) = (x * p) % 257 /\ Mul(q, z) = (q * z) % 257
  BY <1>1, Specials DEF Mul, Prime
<1>4. (x * p) % 257 = (x * (y * z)) % 257
  BY TimesMod
<1>5. (z * q) % 257 = (z * (x * y)) % 257
  BY TimesMod
<1>6. x * (y * z) = z * (x * y)
  OBVIOUS
<1>7. z * q = q * z
  BY <1>1
<1>8. QED
  BY <1>2, <1>3, <1>4, <1>5, <1>6, <1>7

\* The reciprocal root of a number is a residue.
LEMMA RootNumber ==
  ASSUME NEW x \in Int, x # NaN
  PROVE  Fn("rsqrt", x) \in 0..256
<1> DEFINE c == Number("rsqrt")
<1>1. c \in Int
  <2>1. Names[2] = "rsqrt" /\ 2 \in DOMAIN Names /\ \A i \in DOMAIN Names : i \in Int
    BY DEF Names
  <2>2. QED
    BY <2>1 DEF Number
<1> HIDE DEF c
<1>2. Fn("rsqrt", x) = ((x * x * x) + (7 * x) + (13 * c) + 5) % 257
  BY DEF Fn, Prime, c
<1> DEFINE w == (x * x * x) + (7 * x) + (13 * c) + 5
<1>3. w \in Int /\ Fn("rsqrt", x) = w % 257
  BY <1>1, <1>2
<1> HIDE DEF w
<1>4. w % 257 \in 0..256
  BY <1>3, Quotient
<1>5. QED
  BY <1>3, <1>4

\* batch_norm writes what it promises, the scale and the root being multiplied in another order.
LEMMA BatchNormRight ==
  ASSUME NEW k \in Kernels, PerCell(k), Runs(k), k.name = "batch_norm"
  PROVE  CellByCell(k)
<1> DEFINE A == Arrays(k).dev
           N == OutSize(k)
<1>1. /\ k.name \notin {"embedding", "rope", "split", "dropout"} /\ ElementOutputs(k) = {"output"}
      /\ k.channels \in Nat \ {0} /\ k.spatial \in Nat \ {0}
      /\ Numbers(A, "input", N)
      /\ \A a \in {"gamma", "beta", "mean_in", "var_in"} : Numbers(A, a, k.channels)
  BY DEF PerCell, Extras, Rearranging, ElementOutputs, Covers
<1>2. N = k.channels * k.spatial /\ N \in Nat
  <2>1. k.batch = 1 /\ k.channels \in Nat /\ k.spatial \in Nat
    BY DEF PerCell, Extras
  <2>2. QED
    BY <2>1 DEF OutSize
<1>3. \A g \in Groups(k), t \in Threads(k) : \A v : ElementEffect(k, g, Run("all"), t, v) = BatchNorm(k, g, t, v)
  BY DEF ElementEffect
<1>4. ASSUME NEW g \in Groups(k), NEW t \in Threads(k), NEW v, N <= BlockOffset(k, g, t)
      PROVE  BatchNorm(k, g, t, v) = Nothing
  BY <1>2, <1>4, OffsetInt DEF BatchNorm
<1>5. ASSUME NEW g \in Groups(k), NEW t \in Threads(k), NEW v, BlockOffset(k, g, t) \in 0..(N - 1), Given(k, v)
      PROVE  BatchNorm(k, g, t, v) = Put("output", BlockOffset(k, g, t), Promised(k, A, "output", BlockOffset(k, g, t)))
  <2> DEFINE j == BlockOffset(k, g, t)
             c == (j \div k.spatial) % k.channels
             dif == Sub(A.input[j], A.mean_in[c])
             root == Fn("rsqrt", Add(A.var_in[c], 3))
  <2>1. v.input[j] = A.input[j] /\ A.input[j] \in Int \ {NaN, NegInf}
    <3>1. Numbers(A, "input", N) /\ "input" \notin ElementOutputs(k)
      BY <1>1
    <3>2. \A i \in 0..(N - 1) : v["input"][i] = A["input"][i] /\ A["input"][i] \in Int \ {NaN, NegInf}
      BY <1>5, <3>1, Reads
    <3>3. QED
      BY <1>5, <3>2
  <2>2. c \in 0..(k.channels - 1)
    <3>1. j \in Int
      BY OffsetInt
    <3> HIDE DEF j
    <3>2. j \div k.spatial \in Int
      BY <1>1, <3>1, Quotient
    <3>3. QED
      BY <1>1, <3>2, Quotient
  <2> HIDE DEF c
  <2>3. \A a \in {"gamma", "beta", "mean_in", "var_in"} : v[a][c] = A[a][c] /\ A[a][c] \in Int \ {NaN, NegInf}
    <3> SUFFICES ASSUME NEW a \in {"gamma", "beta", "mean_in", "var_in"}
                 PROVE  v[a][c] = A[a][c] /\ A[a][c] \in Int \ {NaN, NegInf}
      OBVIOUS
    <3>1. Numbers(A, a, k.channels) /\ a \notin ElementOutputs(k)
      BY <1>1
    <3>2. \A i \in 0..(k.channels - 1) : v[a][i] = A[a][i] /\ A[a][i] \in Int \ {NaN, NegInf}
      BY <1>5, <3>1, Reads
    <3>3. QED
      BY <2>2, <3>2
  <2>4. dif \in 0..256 /\ root \in 0..256
    <3>1. \A x, y \in Int \ {NaN} : Sub(x, y) \in 0..256
      BY DEF Sub, Prime
    <3>2. \A x \in Int \ {NaN, NegInf} : Add(x, 3) \in 0..256
      BY Specials DEF Add, Prime
    <3>3. A.mean_in[c] \in Int \ {NaN, NegInf} /\ A.var_in[c] \in Int \ {NaN, NegInf}
      BY <2>3
    <3>4. dif \in 0..256
      BY <2>1, <3>1, <3>3
    <3>5. Add(A.var_in[c], 3) \in Int /\ Add(A.var_in[c], 3) # NaN
      BY <3>2, <3>3, Specials
    <3>6. root \in 0..256
      BY <3>5, RootNumber
    <3>7. QED
      BY <3>4, <3>6
  <2>5. BatchNorm(k, g, t, v) = Put("output", j, Cast(k, Add(Mul(A.gamma[c], Mul(dif, root)), A.beta[c])))
    <3>1. ~(j >= k.channels * k.spatial)
      BY <1>2, <1>5, OffsetInt
    <3>2. v.gamma[c] = A.gamma[c] /\ v.beta[c] = A.beta[c] /\ v.mean_in[c] = A.mean_in[c] /\ v.var_in[c] = A.var_in[c]
      BY <2>3
    <3>3. QED
      BY <2>1, <3>1, <3>2 DEF BatchNorm, c
  <2>6. Promised(k, A, "output", j) = Cast(k, Add(Mul(Mul(A.gamma[c], dif), root), A.beta[c]))
    BY DEF Promised, c
  <2> HIDE DEF dif, root
  <2>7. Mul(A.gamma[c], Mul(dif, root)) = Mul(Mul(A.gamma[c], dif), root)
    <3>1. A.gamma[c] \in Int \ {NaN, NegInf}
      BY <2>3
    <3>2. dif \in Int \ {NaN, NegInf} /\ root \in Int \ {NaN, NegInf}
      BY <2>4, Specials
    <3>3. QED
      BY <3>1, <3>2, MulAssociates
  <2>8. QED
    BY <2>5, <2>6, <2>7
<1>6. QED
  BY <1>1, <1>2, <1>3, <1>4, <1>5, OnGrid

\* n in a number system whose last two digits have bases b and c
Digits(n, b, c) ==
  /\ n \div (c * b) = (n \div b) \div c
  /\ n % (c * b) = (((n \div b) % c) * b) + (n % b)

\* Dividing twice is dividing by the product.
LEMMA TwoDigits ==
  ASSUME NEW n \in Nat, NEW b \in Nat \ {0}, NEW c \in Nat \ {0}
  PROVE  c * b \in Nat \ {0} /\ Digits(n, b, c)
<1> DEFINE q == n \div b
           r == n % b
           u == q \div c
           w == q % c
<1>1. q \in Int /\ r \in 0..(b - 1) /\ n = (b * q) + r
  BY Quotient
<1> HIDE DEF q, r
<1>2. u \in Int /\ w \in 0..(c - 1) /\ q = (c * u) + w
  BY <1>1, Quotient
<1> HIDE DEF u, w
<1>3. c * b \in Nat \ {0}
  OBVIOUS
<1>4. n = ((c * b) * u) + ((w * b) + r)
  <2>1. b * q = (b * (c * u)) + (b * w)
    BY <1>2
  <2>2. b * (c * u) = (c * b) * u /\ b * w = w * b
    BY <1>2
  <2> DEFINE bq == b * q
             cbu == (c * b) * u
             wb == w * b
  <2>3. bq \in Int /\ cbu \in Int /\ wb \in Int /\ n = bq + r /\ bq = cbu + wb
    BY <1>1, <1>2, <2>1, <2>2
  <2> HIDE DEF bq, cbu, wb
  <2>4. n = cbu + (wb + r)
    BY <1>1, <2>3
  <2>5. QED
    BY <2>4 DEF cbu, wb
<1>5. (w * b) + r \in 0..((c * b) - 1)
  <2>1. b * (w + 1) <= b * c /\ b * 0 <= b * w
    BY <1>2, Scaled
  <2>2. b * (w + 1) = (w * b) + b /\ b * c = c * b /\ b * w = w * b
    BY <1>2
  <2> DEFINE wb == w * b
             cb == c * b
  <2>3. wb \in Int /\ cb \in Int /\ wb + b <= cb /\ 0 <= wb
    BY <1>2, <2>1, <2>2
  <2> HIDE DEF wb, cb
  <2>4. wb + r \in 0..(cb - 1)
    BY <1>1, <2>3
  <2>5. QED
    BY <2>4 DEF wb, cb
<1> DEFINE d == c * b
           e == (w * b) + r
<1>6. d \in Nat \ {0} /\ e \in 0..(d - 1) /\ n = (d * u) + e
  BY <1>3, <1>4, <1>5
<1> HIDE DEF d, e
<1>7. n \div d = u /\ n % d = e
  BY <1>2, <1>6, Remainder
<1>8. QED
  BY <1>3, <1>7 DEF d, e, u, w, q, r, Digits

\* The quotient of a number below c * d by d is below c.
LEMMA Below ==
  ASSUME NEW n \in Nat, NEW c \in Nat, NEW d \in Nat \ {0}
  PROVE  n < d * c => n \div d \in 0..(c - 1)
<1>1. PICK q \in Int, r \in 0..(d - 1) : q = n \div d /\ n = (d * q) + r /\ q >= 0
  BY Quotient
<1>2. ASSUME c <= q
      PROVE  ~(n < d * c)
  <2>1. d * c <= d * q
    BY <1>1, <1>2, Scaled
  <2>2. QED
    BY <1>1, <2>1
<1>3. QED
  BY <1>1, <1>2

\* repeat_kv writes what it promises: each head is copied to its repetitions.
LEMMA RepeatKvRight ==
  ASSUME NEW k \in Kernels, PerCell(k), Runs(k), k.name = "repeat_kv"
  PROVE  CellByCell(k)
<1> DEFINE A == Arrays(k).dev
           N == OutSize(k)
           block == k.seq * k.dim
<1>1. /\ k.name \notin {"embedding", "rope", "split", "dropout"} /\ ElementOutputs(k) = {"output"}
      /\ k.heads \in Nat /\ k.rep \in Nat \ {0} /\ k.seq \in Nat \ {0} /\ k.dim \in Nat \ {0}
      /\ Numbers(A, "input", k.heads * k.seq * k.dim)
      /\ N = k.heads * k.rep * k.seq * k.dim
  BY DEF PerCell, Extras, ElementOutputs, OutSize
<1>2. N \in Nat /\ block \in Nat \ {0} /\ k.rep * block \in Nat \ {0} /\ N = (k.rep * block) * k.heads
  <2>1. k.heads * k.rep * k.seq * k.dim = (k.rep * (k.seq * k.dim)) * k.heads
    BY <1>1
  <2>2. block \in Nat \ {0}
    BY <1>1
  <2> HIDE DEF block
  <2>3. k.rep * block \in Nat \ {0}
    BY <1>1, <2>2
  <2>4. (k.rep * block) * k.heads \in Nat
    BY <1>1, <2>3
  <2>5. QED
    BY <1>1, <2>1, <2>2, <2>3, <2>4 DEF block
<1> HIDE DEF N
<1>3. \A g \in Groups(k), t \in Threads(k) : \A v : ElementEffect(k, g, Run("all"), t, v) = RepeatKv(k, g, t, v)
  BY DEF ElementEffect
<1>4. ASSUME NEW g \in Groups(k), NEW t \in Threads(k), NEW v, N <= BlockOffset(k, g, t)
      PROVE  RepeatKv(k, g, t, v) = Nothing
  <2>1. BlockOffset(k, g, t) >= k.heads * k.rep * k.seq * k.dim
    BY <1>1, <1>2, <1>4, OffsetInt
  <2>2. QED
    BY <2>1 DEF RepeatKv
<1>5. ASSUME NEW g \in Groups(k), NEW t \in Threads(k), NEW v, BlockOffset(k, g, t) \in 0..(N - 1), Given(k, v)
      PROVE  RepeatKv(k, g, t, v) = Put("output", BlockOffset(k, g, t), Promised(k, A, "output", BlockOffset(k, g, t)))
  <2> DEFINE j == BlockOffset(k, g, t)
             d == j % k.dim
             s == (j \div k.dim) % k.seq
             head == (j \div k.dim) \div k.seq
             h == head \div k.rep
             from == (((h * k.seq) + s) * k.dim) + d
  <2>1. j \in Nat /\ j < N
    BY <1>2, <1>5, OffsetInt
  <2>2. j \div block = head /\ j % block = (s * k.dim) + d
    <3>1. j \in Nat /\ k.dim \in Nat \ {0} /\ k.seq \in Nat \ {0}
      BY <1>1, <2>1
    <3>2. j \div (k.seq * k.dim) = (j \div k.dim) \div k.seq /\ j % (k.seq * k.dim) = (((j \div k.dim) % k.seq) * k.dim) + (j % k.dim)
      <4>1. Digits(j, k.dim, k.seq)
        BY <3>1, TwoDigits
      <4>2. QED
        BY <4>1 DEF Digits
    <3>3. QED
      BY <3>2
  <2>3. j \div (k.rep * block) = h
    <3>1. j \in Nat /\ block \in Nat \ {0} /\ k.rep \in Nat \ {0}
      BY <1>1, <1>2, <2>1
    <3>2. j \div (k.rep * block) = (j \div block) \div k.rep
      <4>1. Digits(j, block, k.rep)
        BY <3>1, TwoDigits
      <4>2. QED
        BY <4>1 DEF Digits
    <3>3. QED
      BY <2>2, <3>2
  <2>4. h \in 0..(k.heads - 1)
    <3>1. j \div (k.rep * block) \in 0..(k.heads - 1)
      <4> HIDE DEF j, block
      <4>1. QED
        BY <1>1, <1>2, <2>1, Below
    <3>2. QED
      BY <2>3, <3>1
  <2>5. j % block \in 0..(block - 1)
    <3> HIDE DEF j, block
    <3>1. QED
      BY <1>2, <2>1, Quotient
  <2>6. d \in Int /\ s \in Int
    <3>1. \A x \in Int : \A y \in Nat \ {0} : x \div y \in Int /\ x % y \in Int
      BY Quotient
    <3> HIDE DEF j
    <3>2. j \div k.dim \in Int /\ j % k.dim \in Int
      BY <1>1, <2>1, <3>1
    <3>3. (j \div k.dim) % k.seq \in Int
      BY <1>1, <3>1, <3>2
    <3>4. QED
      BY <3>2, <3>3
  <2> HIDE DEF j, d, s, head, h
  <2>7. from = (h * block) + (j % block)
    <3>1. ((h * k.seq) + s) * k.dim = ((h * k.seq) * k.dim) + (s * k.dim)
      BY <1>1, <2>4, <2>6
    <3>2. (h * k.seq) * k.dim = h * (k.seq * k.dim)
      BY <1>1, <2>4
    <3> DEFINE x == h * (k.seq * k.dim)
               y == s * k.dim
    <3>3. x \in Int /\ y \in Int /\ from = (x + y) + d
      BY <1>1, <2>4, <2>6, <3>1, <3>2
    <3> HIDE DEF x, y
    <3>4. from = x + (y + d)
      BY <2>6, <3>3
    <3>5. QED
      BY <2>2, <3>4 DEF x, y
  <2>8. from \in 0..((k.heads * k.seq * k.dim) - 1)
    <3>1. block * (h + 1) <= block * k.heads /\ block * 0 <= block * h
      <4> HIDE DEF block
      <4>1. block \in Nat /\ h + 1 \in Int /\ k.heads \in Int /\ h + 1 <= k.heads /\ h \in Int /\ 0 <= h
        BY <1>1, <1>2, <2>4
      <4>2. QED
        BY <4>1, Scaled
    <3>2. block * (h + 1) = (h * block) + block /\ block * h = h * block
      <4> HIDE DEF block
      <4>1. QED
        BY <1>2, <2>4
    <3>3. block * k.heads = k.heads * k.seq * k.dim
      BY <1>1
    <3> DEFINE x == h * block
               y == k.heads * k.seq * k.dim
    <3>4. x \in Int /\ y \in Int /\ x + block <= y /\ 0 <= x
      BY <1>1, <1>2, <2>4, <3>1, <3>2, <3>3
    <3> HIDE DEF x, y, block
    <3>5. x + (j % block) \in 0..(y - 1)
      BY <1>2, <2>5, <3>4
    <3>6. QED
      BY <2>7, <3>5 DEF x, y
  <2>9. At(v.input, from) = A.input[from]
    <3> DEFINE size == k.heads * k.seq * k.dim
    <3>1. Numbers(A, "input", size) /\ "input" \notin ElementOutputs(k)
      BY <1>1
    <3> HIDE DEF size
    <3>2. \A i \in 0..(size - 1) : At(v["input"], i) = A["input"][i]
      BY <1>5, <3>1, Reads
    <3> HIDE DEF from
    <3>3. QED
      BY <2>8, <3>2 DEF size
  <2>10. Promised(k, A, "output", j) = A.input[(h * block) + (j % block)]
    <3>1. Promised(k, A, "output", j) = A.input[((j \div (k.rep * block)) * block) + (j % block)]
      BY DEF Promised
    <3>2. QED
      BY <2>3, <3>1
  <2>11. RepeatKv(k, g, t, v) = Put("output", j, At(v.input, from))
    <3>1. ~(j >= k.heads * k.rep * k.seq * k.dim)
      BY <1>1, <1>2, <2>1
    <3>2. QED
      BY <3>1 DEF RepeatKv, j, d, s, h, head
  <2> HIDE DEF from, block
  <2>12. QED
    BY <2>7, <2>9, <2>10, <2>11 DEF j
<1>6. QED
  BY <1>1, <1>2, <1>3, <1>4, <1>5, OnGrid DEF N

\* A pixel of a plane lies inside the input.
LEMMA PixelInside ==
  ASSUME NEW P \in Nat, NEW h \in Nat \ {0}, NEW w \in Nat \ {0},
         NEW p \in 0..(P - 1), NEW y \in 0..(h - 1), NEW x \in 0..(w - 1)
  PROVE  (p * h * w) + (y * w) + x \in 0..((P * h * w) - 1)
<1>1. w * (y + 1) <= w * h /\ w * 0 <= w * y
  BY Scaled
<1>2. h * w \in Nat
  OBVIOUS
<1>3. (h * w) * (p + 1) <= (h * w) * P /\ (h * w) * 0 <= (h * w) * p
  BY <1>2, Scaled
<1>4. w * (y + 1) = (y * w) + w /\ w * h = h * w /\ w * y = y * w
  OBVIOUS
<1>5. (h * w) * (p + 1) = (p * h * w) + (h * w) /\ (h * w) * P = P * h * w /\ (h * w) * p = p * h * w
  OBVIOUS
<1> DEFINE a == y * w
           b == h * w
           c == p * h * w
           d == P * h * w
<1>6. a \in Int /\ b \in Int /\ c \in Int /\ d \in Int /\ a + w <= b /\ 0 <= a /\ c + b <= d /\ 0 <= c
  BY <1>1, <1>3, <1>4, <1>5
<1> HIDE DEF a, b, c, d
<1>7. c + a + x \in 0..(d - 1)
  BY <1>6
<1>8. QED
  BY <1>7 DEF a, c, d

\* The window of a pooled cell, seen from either side.
Seeing(k, j) ==
  {w \in (0..(k.kh - 1)) \X (0..(k.kw - 1)) :
     /\ (((j % (k.oh * k.ow)) \div k.ow) * k.stride) + w[1] - k.pad \in 0..(k.h - 1)
     /\ ((j % k.ow) * k.stride) + w[2] - k.pad \in 0..(k.w - 1)}
Sight(k, A, j) ==
  [w \in Seeing(k, j) |->
     Padded(k, j \div (k.oh * k.ow), (((j % (k.oh * k.ow)) \div k.ow) * k.stride) + w[1] - k.pad,
            ((j % k.ow) * k.stride) + w[2] - k.pad, A.input)]

\* The sizes of a pooling instance.
LEMMA PoolSizes ==
  ASSUME NEW k \in Kernels, PerCell(k), k.name \in {"max_pool", "avg_pool"}
  PROVE  /\ k.name \notin {"embedding", "rope", "split", "dropout"} /\ ElementOutputs(k) = {"output"}
         /\ OutSize(k) = PoolCount(k) /\ PoolCount(k) \in Nat
         /\ k.batch * k.inc \in Nat /\ k.oh * k.ow \in Nat \ {0} /\ PoolCount(k) = (k.oh * k.ow) * (k.batch * k.inc)
         /\ \A x \in {k.oh, k.ow, k.h, k.w, k.kh, k.kw, k.stride} : x \in Nat \ {0}
         /\ k.pad \in Nat /\ Numbers(Arrays(k).dev, "input", k.batch * k.inc * k.h * k.w)
<1>1. /\ k.name \notin {"embedding", "rope", "split", "dropout"} /\ ElementOutputs(k) = {"output"}
      /\ OutSize(k) = PoolCount(k)
  BY DEF ElementOutputs, OutSize
<1>2. /\ k.batch \in Nat /\ k.inc \in Nat /\ \A x \in {k.oh, k.ow, k.h, k.w, k.kh, k.kw, k.stride} : x \in Nat \ {0}
      /\ k.pad \in Nat /\ Numbers(Arrays(k).dev, "input", k.batch * k.inc * k.h * k.w)
  BY DEF PerCell, Extras
<1>3. k.batch \in Nat /\ k.inc \in Nat /\ k.oh \in Nat \ {0} /\ k.ow \in Nat \ {0}
  BY <1>2
<1>4. k.batch * k.inc \in Nat /\ k.oh * k.ow \in Nat \ {0}
  BY <1>3
<1>5. k.batch * k.inc * k.oh * k.ow = (k.oh * k.ow) * (k.batch * k.inc)
  BY <1>3
<1>6. k.batch * k.inc * k.oh * k.ow \in Nat
  BY <1>3
<1>7. QED
  BY <1>1, <1>2, <1>4, <1>5, <1>6 DEF PoolCount

\* What a pooling thread sees of its window is what its output is promised from.
LEMMA PooledSeen ==
  ASSUME NEW k \in Kernels, PerCell(k), k.name \in {"max_pool", "avg_pool"}, NEW j \in 0..(PoolCount(k) - 1), NEW v, Given(k, v)
  PROVE  Pooled(k, j, v) = Sight(k, Arrays(k).dev, j)
<1> DEFINE A == Arrays(k).dev
           area == k.oh * k.ow
           p == j \div area
           o == (j % area) \div k.ow
           q == j % k.ow
<1>1. area \in Nat \ {0} /\ k.oh \in Nat \ {0} /\ k.ow \in Nat \ {0} /\ k.h \in Nat \ {0} /\ k.w \in Nat \ {0}
      /\ k.kh \in Nat /\ k.kw \in Nat /\ k.stride \in Nat /\ k.pad \in Nat /\ j \in Nat
  BY PoolSizes
<1>2. (j % area) % k.ow = q
  <2> DEFINE b == k.ow
             c == k.oh
             d == ((j \div b) % c)
             r == j % b
  <2>1. b \in Nat \ {0} /\ c \in Nat \ {0}
    BY <1>1
  <2> HIDE DEF b, c
  <2>2. j % (c * b) = (d * b) + r
    BY <1>1, <2>1, TwoDigits DEF Digits
  <2>3. d \in Int /\ r \in 0..(b - 1)
    <3>1. j \div b \in Int /\ r \in 0..(b - 1)
      BY <1>1, <2>1, Quotient
    <3>2. d \in Int
      BY <2>1, <3>1, Quotient
    <3>3. QED
      BY <3>1, <3>2
  <2> DEFINE n == (d * b) + r
  <2> HIDE DEF d, r
  <2>4. n \in Int /\ n = (b * d) + r
    BY <2>1, <2>3
  <2> HIDE DEF n
  <2>5. n % b = r
    BY <2>1, <2>3, <2>4, Remainder
  <2>6. QED
    BY <2>2, <2>5 DEF n, r, b, c
<1>3. p \in 0..((k.batch * k.inc) - 1)
  <2> DEFINE c == k.batch * k.inc
  <2>1. c \in Nat /\ j < area * c
    BY <1>1, PoolSizes
  <2> HIDE DEF area, c
  <2>2. j \div area \in 0..(c - 1)
    BY <1>1, <2>1, Below
  <2>3. QED
    BY <2>2 DEF c, area
<1>4. o \in Int /\ q \in Int
  <2>1. \A x \in Int : \A y \in Nat \ {0} : x \div y \in Int /\ x % y \in Int
    BY Quotient
  <2> HIDE DEF area
  <2>2. j % area \in Int /\ j % k.ow \in Int
    BY <1>1, <2>1
  <2>3. (j % area) \div k.ow \in Int
    BY <1>1, <2>1, <2>2
  <2>4. QED
    BY <2>2, <2>3
<1> DEFINE up(w) == (o * k.stride) + w[1] - k.pad
           over(w) == (q * k.stride) + w[2] - k.pad
<1>5. Window(k, o, q) = Seeing(k, j)
  <2>1. \A w \in (0..(k.kh - 1)) \X (0..(k.kw - 1)) : up(w) \in Int /\ over(w) \in Int
    <3> HIDE DEF o, q
    <3>1. QED
      BY <1>1, <1>4
  <2>2. Window(k, o, q) = {w \in (0..(k.kh - 1)) \X (0..(k.kw - 1)) : up(w) >= 0 /\ up(w) < k.h /\ over(w) >= 0 /\ over(w) < k.w}
    BY DEF Window
  <2>3. Seeing(k, j) = {w \in (0..(k.kh - 1)) \X (0..(k.kw - 1)) : up(w) \in 0..(k.h - 1) /\ over(w) \in 0..(k.w - 1)}
    BY DEF Seeing
  <2> HIDE DEF up, over
  <2>4. QED
    BY <1>1, <2>1, <2>2, <2>3
<1>6. Pooled(k, j, v) = [w \in Window(k, o, q) |-> At(v.input, PixelOf(k, p, o, q, w))]
  BY <1>2 DEF Pooled
<1>7. ASSUME NEW w \in Seeing(k, j)
      PROVE  At(v.input, PixelOf(k, p, o, q, w)) = Sight(k, A, j)[w]
  <2>1. up(w) \in 0..(k.h - 1) /\ over(w) \in 0..(k.w - 1)
    BY <1>7 DEF Seeing
  <2>2. PixelOf(k, p, o, q, w) = (p * k.h * k.w) + (up(w) * k.w) + over(w)
    BY DEF PixelOf
  <2>3. Sight(k, A, j)[w] = Padded(k, p, up(w), over(w), A.input)
    BY <1>7 DEF Sight
  <2> HIDE DEF up, over, p
  <2>4. Sight(k, A, j)[w] = A.input[(p * k.h * k.w) + (up(w) * k.w) + over(w)]
    BY <1>1, <2>1, <2>3 DEF Padded
  <2> DEFINE P == k.batch * k.inc
             size == P * k.h * k.w
             i == (p * k.h * k.w) + (up(w) * k.w) + over(w)
  <2>5. i \in 0..(size - 1)
    <3>1. P \in Nat /\ p \in 0..(P - 1)
      BY <1>3, PoolSizes DEF p
    <3> HIDE DEF P
    <3>2. QED
      BY <1>1, <2>1, <3>1, PixelInside
  <2>6. Numbers(A, "input", size) /\ "input" \notin ElementOutputs(k)
    BY PoolSizes
  <2> HIDE DEF i, size
  <2>7. \A x \in 0..(size - 1) : At(v["input"], x) = A["input"][x]
    BY <2>6, Reads
  <2>8. QED
    BY <2>2, <2>4, <2>5, <2>7 DEF i
<1>8. Sight(k, A, j) = [w \in Seeing(k, j) |-> Sight(k, A, j)[w]]
  BY DEF Sight
<1> HIDE DEF o, p, q, up, over
<1>9. Pooled(k, j, v) = [w \in Seeing(k, j) |-> Sight(k, A, j)[w]]
  BY <1>5, <1>6, <1>7
<1>10. QED
  BY <1>8, <1>9

\* max_pool writes what it promises.
LEMMA MaxPoolRight ==
  ASSUME NEW k \in Kernels, PerCell(k), Runs(k), k.name = "max_pool"
  PROVE  CellByCell(k)
<1> DEFINE A == Arrays(k).dev
           N == PoolCount(k)
<1>1. k.name \notin {"embedding", "rope", "split", "dropout"} /\ OutSize(k) = N /\ N \in Nat
  BY PoolSizes
<1>2. \A g \in Groups(k), t \in Threads(k) : \A v : ElementEffect(k, g, Run("all"), t, v) = MaxPool(k, g, t, v)
  BY DEF ElementEffect
<1>3. ASSUME NEW g \in Groups(k), NEW t \in Threads(k), NEW v, N <= BlockOffset(k, g, t)
      PROVE  MaxPool(k, g, t, v) = Nothing
  BY <1>1, <1>3, OffsetInt DEF MaxPool
<1>4. ASSUME NEW g \in Groups(k), NEW t \in Threads(k), NEW v, BlockOffset(k, g, t) \in 0..(N - 1), Given(k, v)
      PROVE  MaxPool(k, g, t, v) = Put("output", BlockOffset(k, g, t), Promised(k, A, "output", BlockOffset(k, g, t)))
  <2> DEFINE j == BlockOffset(k, g, t)
  <2>1. ~(j >= N)
    BY <1>1, <1>4
  <2>2. Promised(k, A, "output", j) = Largest(Sight(k, A, j))
    BY DEF Promised, Sight, Seeing
  <2>3. Pooled(k, j, v) = Sight(k, A, j)
    BY <1>4, PooledSeen
  <2>4. QED
    BY <2>1, <2>2, <2>3 DEF MaxPool
<1>5. QED
  BY <1>1, <1>2, <1>3, <1>4, OnGrid

\* avg_pool writes what it promises.
LEMMA AvgPoolRight ==
  ASSUME NEW k \in Kernels, PerCell(k), Runs(k), k.name = "avg_pool"
  PROVE  CellByCell(k)
<1> DEFINE A == Arrays(k).dev
           N == PoolCount(k)
<1>1. k.name \notin {"embedding", "rope", "split", "dropout"} /\ OutSize(k) = N /\ N \in Nat
  BY PoolSizes
<1>2. \A g \in Groups(k), t \in Threads(k) : \A v : ElementEffect(k, g, Run("all"), t, v) = AvgPool(k, g, t, v)
  BY DEF ElementEffect
<1>3. ASSUME NEW g \in Groups(k), NEW t \in Threads(k), NEW v, N <= BlockOffset(k, g, t)
      PROVE  AvgPool(k, g, t, v) = Nothing
  BY <1>1, <1>3, OffsetInt DEF AvgPool
<1>4. ASSUME NEW g \in Groups(k), NEW t \in Threads(k), NEW v, BlockOffset(k, g, t) \in 0..(N - 1), Given(k, v)
      PROVE  AvgPool(k, g, t, v) = Put("output", BlockOffset(k, g, t), Promised(k, A, "output", BlockOffset(k, g, t)))
  <2> DEFINE j == BlockOffset(k, g, t)
             S == Seeing(k, j)
             c == Cardinality(S)
             f == Sight(k, A, j)
  <2>1. ~(j >= N)
    BY <1>1, <1>4
  <2>2. Promised(k, A, "output", j) = IF S = {} THEN 0 ELSE Div(Total(f), c)
    BY DEF Promised, Sight, Seeing
  <2>3. Pooled(k, j, v) = f
    BY <1>4, PooledSeen
  <2>4. DOMAIN f = S
    BY DEF Sight
  <2>5. c \in Nat /\ (c = 0 <=> S = {})
    <3>1. IsFiniteSet(0..(k.kh - 1)) /\ IsFiniteSet(0..(k.kw - 1))
      <4>1. k.kh - 1 \in Int /\ k.kw - 1 \in Int
        BY PoolSizes
      <4>2. QED
        BY <4>1, FS_Interval
    <3>2. IsFiniteSet((0..(k.kh - 1)) \X (0..(k.kw - 1)))
      BY <3>1, FS_Product
    <3>3. S \subseteq (0..(k.kh - 1)) \X (0..(k.kw - 1))
      BY DEF Seeing
    <3> HIDE DEF S
    <3>4. IsFiniteSet(S)
      BY <3>2, <3>3, FS_Subset
    <3>5. QED
      BY <3>4, FS_EmptySet, FS_CardinalityType
  <2>6. AvgPool(k, g, t, v) = Put("output", j, IF c > 0 THEN Div(Total(f), c) ELSE 0)
    <3> HIDE DEF f, S
    <3>1. QED
      BY <2>1, <2>3, <2>4 DEF AvgPool
  <2> HIDE DEF f, c, S, j
  <2>7. QED
    BY <2>2, <2>5, <2>6 DEF j
<1>5. QED
  BY <1>1, <1>2, <1>3, <1>4, OnGrid

\* scatter writes what it promises, if no two threads scatter to the same place.
LEMMA ScatterRight ==
  ASSUME NEW k \in Kernels, PerCell(k), Runs(k), k.name = "scatter"
  PROVE  CellByCell(k)
<1> DEFINE A == Arrays(k).dev
           n == k.n
           off(g, t) == BlockOffset(k, g, t)
           to(i) == A.indices[i]
           E == [g \in Groups(k) |-> [t \in Threads(k) |-> IF off(g, t) < n THEN Put("output", to(off(g, t)), A.input[off(g, t)]) ELSE Nothing]]
<1>1. /\ ElementOutputs(k) = {"output"} /\ OutSize(k) = n /\ n \in Nat /\ n <= k.groups * k.threads
      /\ Numbers(A, "input", n) /\ Numbers(A, "indices", n)
      /\ DOMAIN A["output"] = 0..(n - 1)
      /\ \A i \in 0..(n - 1) : to(i) \in 0..(n - 1)
      /\ \A j \in 0..(n - 1) : \E i \in 0..(n - 1) : to(i) = j /\ \A x \in 0..(n - 1) : to(x) = j => x = i
  <2>1. ElementOutputs(k) = {"output"} /\ OutSize(k) = n /\ Covers(k) = n
    BY DEF ElementOutputs, OutSize, Covers
  <2>2. /\ n \in Nat /\ n <= k.groups * k.threads /\ Numbers(A, "input", n)
        /\ DOMAIN A["output"] = 0..(n - 1)
        /\ Indexes(A, "indices", n, "output")
        /\ \A j \in 0..(n - 1) : \E i \in 0..(n - 1) : to(i) = j /\ \A x \in 0..(n - 1) : to(x) = j => x = i
    BY <2>1 DEF PerCell, Extras, Rearranging
  <2>3. QED
    BY <2>1, <2>2 DEF Indexes
<1>2. /\ \A j \in 0..(n - 1) : \E g \in Groups(k), t \in Threads(k) : off(g, t) = j
      /\ \A g, h \in Groups(k), t, u \in Threads(k) : off(g, t) = off(h, u) => g = h /\ t = u
      /\ \A g \in Groups(k), t \in Threads(k) : off(g, t) \in Nat
  <2> DEFINE m == n
  <2>1. m \in Nat /\ m <= k.groups * k.threads
    BY <1>1
  <2> HIDE DEF m
  <2>2. /\ \A j \in 0..(m - 1) : \E g \in Groups(k), t \in Threads(k) : off(g, t) = j
        /\ \A g, h \in Groups(k), t, u \in Threads(k) : off(g, t) = off(h, u) => g = h /\ t = u
        /\ \A g \in Groups(k), t \in Threads(k) : off(g, t) \in Nat
    BY <2>1, LineCells
  <2>3. QED
    BY <2>2 DEF m
<1>3. \A j \in 0..(n - 1) : Promised(k, A, "output", j) = A.input[CHOOSE x \in DOMAIN A.output : A.indices[x] = j]
  BY DEF Promised
<1>4. \A i \in 0..(n - 1) : Promised(k, A, "output", to(i)) = A.input[i]
  <2> SUFFICES ASSUME NEW i \in 0..(n - 1)
               PROVE  Promised(k, A, "output", to(i)) = A.input[i]
    OBVIOUS
  <2>1. (CHOOSE x \in 0..(n - 1) : to(x) = to(i)) = i
    BY <1>1
  <2>2. to(i) \in 0..(n - 1)
    BY <1>1
  <2>3. Promised(k, A, "output", to(i)) = A.input[CHOOSE x \in DOMAIN A.output : A.indices[x] = to(i)]
    BY <1>3, <2>2
  <2>4. (CHOOSE x \in DOMAIN A.output : A.indices[x] = to(i)) = CHOOSE x \in 0..(n - 1) : to(x) = to(i)
    BY <1>1
  <2>5. QED
    BY <2>1, <2>3, <2>4
<1>5. ASSUME NEW g \in Groups(k), NEW t \in Threads(k), NEW v, Given(k, v)
      PROVE  Effect(k, g, Code(k, g, t)[1], t, v) = E[g][t]
  <2>1. Effect(k, g, Code(k, g, t)[1], t, v) = Scatter(k, g, t, v)
    BY DEF Runs, ElementEffect
  <2>2. \A i \in 0..(n - 1) : v["input"][i] = A["input"][i] /\ v["indices"][i] = A["indices"][i]
    <3>1. Numbers(A, "input", n) /\ "input" \notin ElementOutputs(k) /\ Numbers(A, "indices", n) /\ "indices" \notin ElementOutputs(k)
      BY <1>1
    <3> DEFINE size == n
    <3>2. Numbers(A, "input", size) /\ Numbers(A, "indices", size)
      BY <3>1
    <3> HIDE DEF n, off, to, E, size
    <3>3. \A i \in 0..(size - 1) : v["input"][i] = A["input"][i]
      BY <1>5, <3>1, <3>2, Reads
    <3>4. \A i \in 0..(size - 1) : v["indices"][i] = A["indices"][i]
      BY <1>5, <3>1, <3>2, Reads
    <3>5. QED
      BY <3>3, <3>4 DEF size
  <2>3. Scatter(k, g, t, v) = IF off(g, t) < n THEN Put("output", v.indices[off(g, t)], v.input[off(g, t)]) ELSE Nothing
    BY DEF Scatter
  <2>4. off(g, t) < n => off(g, t) \in 0..(n - 1)
    BY <1>1, <1>2
  <2>5. QED
    BY <2>1, <2>2, <2>3, <2>4
<1> HIDE DEF off, n, to
<1>6. \A g \in Groups(k), t \in Threads(k) : \A a, x :
        /\ Touches(E[g][t], a, x) <=> a = "output" /\ x = to(off(g, t)) /\ off(g, t) < n
        /\ Touches(E[g][t], a, x) => E[g][t][a][x] = A.input[off(g, t)]
  BY DEF Touches, Put, Cell, Nothing
<1> HIDE DEF E
<1>7. Partition(k, E)
  <2>1. ASSUME NEW g \in Groups(k), NEW t \in Threads(k), NEW a, NEW x, Touches(E[g][t], a, x)
        PROVE  /\ a \in ElementOutputs(k) /\ x \in 0..(OutSize(k) - 1)
               /\ E[g][t][a][x] = Promised(k, A, a, x)
               /\ \A h \in Groups(k), u \in Threads(k) : Touches(E[h][u], a, x) => h = g /\ u = t
    <3>1. a = "output" /\ x = to(off(g, t)) /\ off(g, t) < n /\ E[g][t][a][x] = A.input[off(g, t)]
      BY <1>6, <2>1
    <3>2. off(g, t) \in 0..(n - 1) /\ x \in 0..(n - 1)
      BY <1>1, <1>2, <3>1
    <3>3. ASSUME NEW h \in Groups(k), NEW u \in Threads(k), Touches(E[h][u], a, x)
          PROVE  h = g /\ u = t
      <4>1. x = to(off(h, u)) /\ off(h, u) < n
        <5>1. Touches(E[h][u], a, x) <=> a = "output" /\ x = to(off(h, u)) /\ off(h, u) < n
          BY <1>6
        <5>2. QED
          BY <3>3, <5>1
      <4>2. off(h, u) \in 0..(n - 1)
        BY <1>1, <1>2, <4>1
      <4>3. off(h, u) = off(g, t)
        <5>1. PICK i \in 0..(n - 1) : \A z \in 0..(n - 1) : to(z) = x => z = i
          BY <1>1, <3>2
        <5>2. QED
          BY <3>1, <3>2, <4>1, <4>2, <5>1, Zenon
      <4>4. QED
        BY <1>2, <4>3
    <3>4. QED
      BY <1>1, <1>4, <3>1, <3>2, <3>3
  <2>2. ASSUME NEW a \in ElementOutputs(k), NEW x \in 0..(OutSize(k) - 1)
        PROVE  \E g \in Groups(k), t \in Threads(k) : Touches(E[g][t], a, x)
    <3>1. PICK i \in 0..(n - 1) : to(i) = x
      BY <1>1
    <3>2. PICK g \in Groups(k), t \in Threads(k) : off(g, t) = i
      BY <1>2
    <3>3. i < n
      BY <1>1
    <3>4. Touches(E[g][t], a, x)
      BY <1>1, <1>6, <3>1, <3>2, <3>3
    <3>5. QED
      BY <3>4
  <2>3. QED
    BY <2>1, <2>2 DEF Partition
<1>8. QED
  BY <1>5, <1>7, SharedCellByCell

\* dropout writes what it promises and the mask of what it kept.
LEMMA DropoutRight ==
  ASSUME NEW k \in Kernels, PerCell(k), Runs(k), k.name = "dropout"
  PROVE  CellByCell(k)
<1> DEFINE A == Arrays(k).dev
           n == k.n
           off(g, t) == BlockOffset(k, g, t)
           told(a, x) == Promised(k, A, a, x)
           both(x) == [output |-> Cell(x, told("output", x)), output1 |-> Cell(x, told("output1", x))]
           E == [g \in Groups(k) |-> [t \in Threads(k) |-> IF off(g, t) < n THEN both(off(g, t)) ELSE Nothing]]
<1>1. /\ ElementOutputs(k) = {"output", "output1"} /\ OutSize(k) = n /\ n \in Nat /\ n <= k.groups * k.threads
      /\ Numbers(A, "input", n) /\ k.scalar \in Int \ {NaN, NegInf}
  <2>1. ElementOutputs(k) = {"output", "output1"} /\ OutSize(k) = n /\ Covers(k) = n
    BY DEF ElementOutputs, OutSize, Covers
  <2>2. QED
    BY <2>1 DEF PerCell, Extras, Rearranging
<1>2. /\ \A j \in 0..(n - 1) : \E g \in Groups(k), t \in Threads(k) : off(g, t) = j
      /\ \A g, h \in Groups(k), t, u \in Threads(k) : off(g, t) = off(h, u) => g = h /\ t = u
      /\ \A g \in Groups(k), t \in Threads(k) : off(g, t) \in Nat
  <2> DEFINE m == n
  <2>1. m \in Nat /\ m <= k.groups * k.threads
    BY <1>1
  <2> HIDE DEF m
  <2>2. /\ \A j \in 0..(m - 1) : \E g \in Groups(k), t \in Threads(k) : off(g, t) = j
        /\ \A g, h \in Groups(k), t, u \in Threads(k) : off(g, t) = off(h, u) => g = h /\ t = u
        /\ \A g \in Groups(k), t \in Threads(k) : off(g, t) \in Nat
    BY <2>1, LineCells
  <2>3. QED
    BY <2>2 DEF m
<1>3. ASSUME NEW g \in Groups(k), NEW t \in Threads(k), NEW v, Given(k, v)
      PROVE  Effect(k, g, Code(k, g, t)[1], t, v) = E[g][t]
  <2> DEFINE j == off(g, t)
  <2>1. Effect(k, g, Code(k, g, t)[1], t, v) = Dropout(k, g, t, v)
    BY DEF Runs, ElementEffect
  <2>2. CASE n <= j
    BY <1>1, <1>2, <2>1, <2>2 DEF Dropout
  <2>3. CASE j < n
    <3>1. j \in 0..(n - 1)
      BY <1>1, <1>2, <2>3
    <3>2. v.input[j] = A.input[j] /\ A.input[j] \in Int \ {NaN, NegInf}
      <4>1. Numbers(A, "input", n) /\ "input" \notin ElementOutputs(k)
        BY <1>1
      <4>2. \A i \in 0..(n - 1) : v["input"][i] = A["input"][i] /\ A["input"][i] \in Int \ {NaN, NegInf}
        BY <1>3, <4>1, Reads
      <4>3. QED
        BY <3>1, <4>2
    <3>3. Mul(A.input[j], 0) = 0
      BY <3>2, Specials DEF Mul, Prime
    <3>4. told("output", j) = Mul(A.input[j], IF Keeps(k, j) THEN k.scalar ELSE 0) /\ told("output1", j) = IF Keeps(k, j) THEN 1 ELSE 0
      BY DEF Promised
    <3>5. told("output", j) = IF Keeps(k, j) THEN Mul(v.input[j], k.scalar) ELSE 0
      BY <3>2, <3>3, <3>4
    <3>6. Dropout(k, g, t, v) = [output |-> Cell(j, IF Keeps(k, j) THEN Mul(v.input[j], k.scalar) ELSE 0), output1 |-> Cell(j, IF Keeps(k, j) THEN 1 ELSE 0)]
      BY <1>1, <1>2, <2>3 DEF Dropout
    <3>7. E[g][t] = both(j)
      BY <2>3
    <3> HIDE DEF told, j, E
    <3>8. QED
      BY <2>1, <3>4, <3>5, <3>6, <3>7
  <2>4. QED
    BY <1>1, <1>2, <2>2, <2>3
<1> HIDE DEF off, n, told
<1>4. \A g \in Groups(k), t \in Threads(k) : \A a, x :
        /\ Touches(E[g][t], a, x) <=> a \in {"output", "output1"} /\ x = off(g, t) /\ off(g, t) < n
        /\ Touches(E[g][t], a, x) => E[g][t][a][x] = told(a, x)
  BY DEF Touches, Cell, Nothing
<1> HIDE DEF E
<1>5. Partition(k, E)
  <2>1. ASSUME NEW g \in Groups(k), NEW t \in Threads(k), NEW a, NEW x, Touches(E[g][t], a, x)
        PROVE  /\ a \in ElementOutputs(k) /\ x \in 0..(OutSize(k) - 1)
               /\ E[g][t][a][x] = Promised(k, A, a, x)
               /\ \A h \in Groups(k), u \in Threads(k) : Touches(E[h][u], a, x) => h = g /\ u = t
    <3>1. a \in {"output", "output1"} /\ x = off(g, t) /\ off(g, t) < n /\ E[g][t][a][x] = told(a, x)
      BY <1>4, <2>1
    <3>2. x \in 0..(n - 1)
      BY <1>1, <1>2, <3>1
    <3>3. ASSUME NEW h \in Groups(k), NEW u \in Threads(k), Touches(E[h][u], a, x)
          PROVE  h = g /\ u = t
      <4>1. off(h, u) = off(g, t)
        BY <1>4, <3>1, <3>3
      <4>2. QED
        BY <1>2, <4>1
    <3>4. QED
      BY <1>1, <3>1, <3>2, <3>3 DEF told
  <2>2. ASSUME NEW a \in ElementOutputs(k), NEW x \in 0..(OutSize(k) - 1)
        PROVE  \E g \in Groups(k), t \in Threads(k) : Touches(E[g][t], a, x)
    <3>1. x \in 0..(n - 1) /\ x < n /\ a \in {"output", "output1"}
      BY <1>1
    <3>2. PICK g \in Groups(k), t \in Threads(k) : off(g, t) = x
      BY <1>2, <3>1
    <3>3. QED
      BY <1>4, <3>1, <3>2
  <2>3. QED
    BY <2>1, <2>2 DEF Partition
<1>6. QED
  BY <1>3, <1>5, SharedCellByCell

\* split writes each half of its input to an output of its own.
LEMMA SplitRight ==
  ASSUME NEW k \in Kernels, PerCell(k), Runs(k), k.name = "split"
  PROVE  CellByCell(k)
<1> DEFINE A == Arrays(k).dev
           c == k.chunk
           off(g, t) == BlockOffset(k, g, t)
           E == [g \in Groups(k) |-> [t \in Threads(k) |->
                   IF off(g, t) < c THEN Put("output", off(g, t), A.input[off(g, t)])
                   ELSE IF off(g, t) < 2 * c THEN Put("output1", off(g, t) - c, A.input[off(g, t)]) ELSE Nothing]]
<1>1. /\ ElementOutputs(k) = {"output", "output1"} /\ OutSize(k) = c /\ c \in Nat /\ 2 * c \in Nat /\ 2 * c <= k.groups * k.threads
      /\ Numbers(A, "input", 2 * c) /\ k.buffers = 2
  <2>1. ElementOutputs(k) = {"output", "output1"} /\ OutSize(k) = c /\ Covers(k) = 2 * c
    BY DEF ElementOutputs, OutSize, Covers
  <2>2. QED
    BY <2>1 DEF PerCell, Extras, Rearranging
<1>2. /\ \A j \in 0..((2 * c) - 1) : \E g \in Groups(k), t \in Threads(k) : off(g, t) = j
      /\ \A g, h \in Groups(k), t, u \in Threads(k) : off(g, t) = off(h, u) => g = h /\ t = u
      /\ \A g \in Groups(k), t \in Threads(k) : off(g, t) \in Nat
  <2> DEFINE m == 2 * c
  <2>1. m \in Nat /\ m <= k.groups * k.threads
    BY <1>1
  <2> HIDE DEF m
  <2>2. /\ \A j \in 0..(m - 1) : \E g \in Groups(k), t \in Threads(k) : off(g, t) = j
        /\ \A g, h \in Groups(k), t, u \in Threads(k) : off(g, t) = off(h, u) => g = h /\ t = u
        /\ \A g \in Groups(k), t \in Threads(k) : off(g, t) \in Nat
    BY <2>1, LineCells
  <2>3. QED
    BY <2>2 DEF m
<1>3. \A j : Promised(k, A, "output", j) = A.input[j] /\ Promised(k, A, "output1", j) = A.input[j + c]
  BY DEF Promised
<1>4. ASSUME NEW g \in Groups(k), NEW t \in Threads(k), NEW v, Given(k, v)
      PROVE  Effect(k, g, Code(k, g, t)[1], t, v) = E[g][t]
  <2> DEFINE j == off(g, t)
             fits == {b \in 1..k.buffers : j < b * k.chunk}
             first == CHOOSE x \in fits : \A y \in fits : x <= y
  <2>1. Effect(k, g, Code(k, g, t)[1], t, v) = Split(k, g, t, v)
    BY DEF Runs, ElementEffect
  <2>2. Split(k, g, t, v) = IF fits = {} THEN Nothing ELSE Put(OutputNames[first], j - ((first - 1) * k.chunk), v.input[j])
    BY DEF Split
  <2>3. j \in Nat /\ 1 * k.chunk = c /\ 2 * k.chunk = 2 * c /\ (1 - 1) * k.chunk = 0 /\ (2 - 1) * k.chunk = c
    BY <1>1, <1>2
  <2>4. OutputNames[1] = "output" /\ OutputNames[2] = "output1"
    BY DEF OutputNames
  <2>5. j < 2 * c => v.input[j] = A.input[j]
    <3>1. Numbers(A, "input", 2 * c) /\ "input" \notin ElementOutputs(k)
      BY <1>1
    <3>2. \A i \in 0..((2 * c) - 1) : v["input"][i] = A["input"][i]
      <4> DEFINE size == 2 * c
      <4>1. Numbers(A, "input", size) /\ "input" \notin ElementOutputs(k)
        BY <3>1
      <4> HIDE DEF size
      <4>2. \A i \in 0..(size - 1) : v["input"][i] = A["input"][i]
        BY <1>4, <4>1, Reads
      <4>3. QED
        BY <4>2 DEF size
    <3>3. QED
      BY <1>1, <2>3, <3>2
  <2>6. E[g][t] = IF j < c THEN Put("output", j, A.input[j])
                  ELSE IF j < 2 * c THEN Put("output1", j - c, A.input[j]) ELSE Nothing
    OBVIOUS
  <2> HIDE DEF E
  <2>7. CASE j < c
    <3>1. fits = {1, 2}
      BY <1>1, <2>3, <2>7
    <3>2. first = 1
      BY <3>1
    <3> HIDE DEF j, fits, first
    <3>3. Split(k, g, t, v) = Put("output", j, A.input[j])
      BY <1>1, <2>2, <2>3, <2>4, <2>5, <2>7, <3>1, <3>2
    <3>4. QED
      BY <2>1, <2>6, <2>7, <3>3
  <2>8. CASE c <= j /\ j < 2 * c
    <3>1. fits = {2}
      BY <1>1, <2>3, <2>8
    <3>2. first = 2
      BY <3>1
    <3>3. ~(j < c)
      BY <1>1, <2>3, <2>8
    <3> HIDE DEF j, fits, first
    <3>4. Split(k, g, t, v) = Put("output1", j - c, A.input[j])
      BY <1>1, <2>2, <2>3, <2>4, <2>5, <2>8, <3>1, <3>2
    <3>5. QED
      BY <2>1, <2>6, <2>8, <3>3, <3>4
  <2>9. CASE 2 * c <= j
    <3>1. fits = {}
      BY <1>1, <2>3, <2>9
    <3>2. ~(j < c) /\ ~(j < 2 * c)
      BY <1>1, <2>3, <2>9
    <3> HIDE DEF j, fits, first
    <3>3. QED
      BY <2>1, <2>2, <2>6, <3>1, <3>2
  <2>10. QED
    BY <1>1, <2>3, <2>7, <2>8, <2>9
<1>5. \A g \in Groups(k), t \in Threads(k) : \A a, x :
        Touches(E[g][t], a, x) =>
          /\ \/ a = "output" /\ x = off(g, t) /\ off(g, t) < c
             \/ a = "output1" /\ off(g, t) = x + c /\ c <= off(g, t) /\ off(g, t) < 2 * c
          /\ E[g][t][a][x] = A.input[off(g, t)]
  BY <1>1, <1>2 DEF Touches, Put, Cell, Nothing
<1>6. \A g \in Groups(k), t \in Threads(k) :
        /\ off(g, t) < c => Touches(E[g][t], "output", off(g, t))
        /\ c <= off(g, t) /\ off(g, t) < 2 * c => Touches(E[g][t], "output1", off(g, t) - c)
  BY <1>1, <1>2 DEF Touches, Put, Cell, Nothing
<1> HIDE DEF E, off, c
<1>7. Partition(k, E)
  <2>1. ASSUME NEW g \in Groups(k), NEW t \in Threads(k), NEW a, NEW x, Touches(E[g][t], a, x)
        PROVE  /\ a \in ElementOutputs(k) /\ x \in 0..(OutSize(k) - 1)
               /\ E[g][t][a][x] = Promised(k, A, a, x)
               /\ \A h \in Groups(k), u \in Threads(k) : Touches(E[h][u], a, x) => h = g /\ u = t
    <3>1. /\ \/ a = "output" /\ x = off(g, t) /\ off(g, t) < c
             \/ a = "output1" /\ off(g, t) = x + c /\ c <= off(g, t) /\ off(g, t) < 2 * c
          /\ E[g][t][a][x] = A.input[off(g, t)]
      BY <1>5, <2>1
    <3>2. a \in ElementOutputs(k) /\ E[g][t][a][x] = Promised(k, A, a, x)
      BY <1>1, <1>3, <3>1
    <3>3. x \in 0..(c - 1)
      <4>1. CASE a = "output"
        BY <1>1, <1>2, <3>1, <4>1
      <4>2. CASE a = "output1"
        <5>1. x = off(g, t) - c
          BY <2>1, <4>2 DEF E, Touches, Put, Cell, Nothing
        <5>2. QED
          BY <1>1, <1>2, <3>1, <4>2, <5>1
      <4>3. QED
        BY <3>1, <4>1, <4>2
    <3>4. ASSUME NEW h \in Groups(k), NEW u \in Threads(k), Touches(E[h][u], a, x)
          PROVE  h = g /\ u = t
      <4>1. /\ \/ a = "output" /\ x = off(h, u) /\ off(h, u) < c
               \/ a = "output1" /\ off(h, u) = x + c /\ c <= off(h, u) /\ off(h, u) < 2 * c
            /\ E[h][u][a][x] = A.input[off(h, u)]
        BY <1>5, <3>4
      <4>2. off(h, u) = off(g, t)
        BY <3>1, <4>1
      <4>3. QED
        BY <1>2, <4>2
    <3>5. QED
      BY <1>1, <3>2, <3>3, <3>4
  <2>2. ASSUME NEW a \in ElementOutputs(k), NEW x \in 0..(OutSize(k) - 1)
        PROVE  \E g \in Groups(k), t \in Threads(k) : Touches(E[g][t], a, x)
    <3>1. CASE a = "output"
      <4>1. x < c /\ x \in 0..((2 * c) - 1)
        BY <1>1
      <4>2. PICK g \in Groups(k), t \in Threads(k) : off(g, t) = x
        BY <1>2, <4>1
      <4>3. QED
        BY <1>6, <3>1, <4>1, <4>2
    <3>2. CASE a = "output1"
      <4>1. x + c \in 0..((2 * c) - 1) /\ c <= x + c /\ x + c < 2 * c /\ (x + c) - c = x
        BY <1>1
      <4>2. PICK g \in Groups(k), t \in Threads(k) : off(g, t) = x + c
        BY <1>2, <4>1
      <4>3. QED
        BY <1>6, <3>2, <4>1, <4>2
    <3>3. QED
      BY <1>1, <3>1, <3>2
  <2>3. QED
    BY <2>1, <2>2 DEF Partition
<1>8. QED
  BY <1>4, <1>7, SharedCellByCell

\* A strided loop: each element below the bound is visited by one thread.
LEMMA StridedCells ==
  ASSUME NEW n \in Nat, NEW T \in Nat \ {0}
  PROVE  /\ \A t \in 0..(T - 1) : \A c \in Strided(t, n, T) : c \in 0..(n - 1)
         /\ \A c \in 0..(n - 1) : \E t \in 0..(T - 1) : c \in Strided(t, n, T)
         /\ \A c : \A t, u \in 0..(T - 1) : c \in Strided(t, n, T) /\ c \in Strided(u, n, T) => t = u
<1>1. ASSUME NEW t \in 0..(T - 1), NEW c \in Strided(t, n, T)
      PROVE  c \in 0..(n - 1) /\ c % T = t
  <2>1. c \in t..(n - 1) /\ (c - t) % T = 0
    BY DEF Strided
  <2> DEFINE d == c - t
             q == d \div T
  <2>2. d \in Int
    BY <2>1
  <2>3. q \in Int /\ d = (T * q) + (d % T) /\ d % T = 0
    <3>1. d % T = 0
      BY <2>1
    <3> HIDE DEF d
    <3>2. QED
      BY <2>2, <3>1, Quotient
  <2> HIDE DEF q
  <2>4. c = (T * q) + t /\ c \in Int
    <3>1. T * q \in Int
      BY <2>3
    <3>2. d = T * q
      BY <2>2, <2>3, <3>1
    <3>3. QED
      BY <2>1, <3>1, <3>2
  <2>5. q \in Int
    BY <2>3
  <2> HIDE DEF d
  <2>6. c \div T = q /\ c % T = t
    BY <2>4, <2>5, Remainder
  <2>7. QED
    BY <2>1, <2>6
<1>2. ASSUME NEW c \in 0..(n - 1)
      PROVE  c % T \in 0..(T - 1) /\ c \in Strided(c % T, n, T)
  <2> DEFINE q == c \div T
             t == c % T
             w == T * q
  <2>1. q \in Int /\ t \in 0..(T - 1) /\ c = (T * q) + t /\ q >= 0
    <3>1. c \in Int /\ c >= 0
      OBVIOUS
    <3>2. QED
      BY <3>1, Quotient
  <2> HIDE DEF q, t
  <2>2. w \in Int /\ w = (T * q) + 0 /\ 0 \in 0..(T - 1) /\ T * 0 <= T * q
    BY <2>1, Scaled
  <2>3. w >= 0
    BY <2>2
  <2>4. w % T = 0
    <3> HIDE DEF w
    <3>1. QED
      BY <2>1, <2>2, Remainder
  <2>5. c = w + t
    BY <2>1
  <2> HIDE DEF w
  <2>6. t <= c /\ c - t = w
    BY <2>1, <2>2, <2>3, <2>5
  <2>7. QED
    BY <2>1, <2>4, <2>6 DEF Strided, t
<1>3. QED
  BY <1>1, <1>2

\* Cells that no two threads share and that cover the output, S[g][t] those of a thread.
Shares(k, S) ==
  /\ \A g \in Groups(k), t \in Threads(k) : \A x \in S[g][t] :
       x \in 0..(OutSize(k) - 1) /\ \A h \in Groups(k), u \in Threads(k) : x \in S[h][u] => h = g /\ u = t
  /\ \A x \in 0..(OutSize(k) - 1) : \E g \in Groups(k), t \in Threads(k) : x \in S[g][t]
\* what each thread writes: what is promised for its cells
Fills(k, S, E) ==
  \A g \in Groups(k), t \in Threads(k) : E[g][t] = [output |-> [x \in S[g][t] |-> Promised(k, Arrays(k).dev, "output", x)]]

\* Threads that share the cells of the output out and write what is promised for them.
LEMMA CellsPartition ==
  ASSUME NEW k, ElementOutputs(k) = {"output"}, NEW S, Shares(k, S), NEW E, Fills(k, S, E)
  PROVE  Partition(k, E)
<1>1. ASSUME NEW g \in Groups(k), NEW t \in Threads(k), NEW a, NEW x
      PROVE  /\ Touches(E[g][t], a, x) <=> a = "output" /\ x \in S[g][t]
             /\ Touches(E[g][t], a, x) => E[g][t][a][x] = Promised(k, Arrays(k).dev, a, x)
  <2> DEFINE told == [y \in S[g][t] |-> Promised(k, Arrays(k).dev, "output", y)]
  <2>1. E[g][t] = [output |-> told]
    BY DEF Fills
  <2>2. DOMAIN told = S[g][t] /\ \A y \in S[g][t] : told[y] = Promised(k, Arrays(k).dev, "output", y)
    OBVIOUS
  <2> HIDE DEF told
  <2>3. DOMAIN E[g][t] = {"output"} /\ E[g][t]["output"] = told
    BY <2>1
  <2>4. QED
    BY <2>2, <2>3 DEF Touches
<1>2. ASSUME NEW g \in Groups(k), NEW t \in Threads(k), NEW a, NEW x, Touches(E[g][t], a, x)
      PROVE  /\ a \in ElementOutputs(k) /\ x \in 0..(OutSize(k) - 1)
             /\ E[g][t][a][x] = Promised(k, Arrays(k).dev, a, x)
             /\ \A h \in Groups(k), u \in Threads(k) : Touches(E[h][u], a, x) => h = g /\ u = t
  <2>1. a = "output" /\ x \in S[g][t] /\ E[g][t][a][x] = Promised(k, Arrays(k).dev, a, x)
    BY <1>1, <1>2
  <2>2. ASSUME NEW h \in Groups(k), NEW u \in Threads(k), Touches(E[h][u], a, x)
        PROVE  h = g /\ u = t
    <3>1. x \in S[h][u]
      BY <1>1, <2>2
    <3>2. QED
      BY <2>1, <3>1 DEF Shares
  <2>3. QED
    BY <2>1, <2>2 DEF Shares
<1>3. ASSUME NEW a \in ElementOutputs(k), NEW x \in 0..(OutSize(k) - 1)
      PROVE  \E g \in Groups(k), t \in Threads(k) : Touches(E[g][t], a, x)
  BY <1>1 DEF Shares
<1>4. QED
  BY <1>2, <1>3 DEF Partition

\* The rows of a matrix: the cell c of row g lies at (g * dim) + c and at no other place.
LEMMA RowCells ==
  ASSUME NEW G \in Nat, NEW dim \in Nat \ {0}
  PROVE  /\ \A x \in 0..((G * dim) - 1) : \E g \in 0..(G - 1), c \in 0..(dim - 1) : (g * dim) + c = x
         /\ \A g, h \in 0..(G - 1), c, d \in 0..(dim - 1) : (g * dim) + c = (h * dim) + d => g = h /\ c = d
         /\ \A g \in 0..(G - 1), c \in 0..(dim - 1) : (g * dim) + c \in 0..((G * dim) - 1)
         /\ \A g \in 0..(G - 1), c \in 0..(dim - 1) : Row((g * dim) + c, dim) = g /\ Col((g * dim) + c, dim) = c
<1> DEFINE N == G * dim
<1>1. N \in Nat /\ N <= G * dim
  OBVIOUS
<1>2. /\ \A x \in 0..(N - 1) : \E g \in 0..(G - 1), c \in 0..(dim - 1) : (g * dim) + c = x
      /\ \A g, h \in 0..(G - 1), c, d \in 0..(dim - 1) : (g * dim) + c = (h * dim) + d => g = h /\ c = d
      /\ \A g \in 0..(G - 1), c \in 0..(dim - 1) : (g * dim) + c \in Nat
  <2> HIDE DEF N
  <2>1. QED
    BY <1>1, GridCells
<1>3. ASSUME NEW g \in 0..(G - 1), NEW c \in 0..(dim - 1)
      PROVE  /\ (g * dim) + c \in 0..(N - 1)
             /\ Row((g * dim) + c, dim) = g /\ Col((g * dim) + c, dim) = c
  <2> DEFINE x == (g * dim) + c
             w == g * dim
  <2>1. x \in Int /\ x = (dim * g) + c /\ x >= 0
    BY <1>2
  <2>2. dim * (g + 1) <= dim * G /\ dim * (g + 1) = (g * dim) + dim /\ dim * G = N
    BY Scaled
  <2>3. w \in Int /\ w + dim <= N /\ x = w + c
    BY <2>2
  <2>4. x % dim = c /\ x \div dim = g
    <3> HIDE DEF x
    <3>1. QED
      BY <2>1, Remainder
  <2> HIDE DEF w, N
  <2>5. x <= N - 1
    BY <1>1, <2>3
  <2>6. QED
    BY <1>1, <2>1, <2>4, <2>5 DEF Row, Col
<1>4. QED
  BY <1>2, <1>3

\* embedding copies the indexed row of the table to the row of its threadgroup.
LEMMA EmbeddingRight ==
  ASSUME NEW k \in Kernels, PerCell(k), Runs(k), k.name = "embedding"
  PROVE  CellByCell(k)
<1> DEFINE A == Arrays(k).dev
           dim == k.dim
           told(x) == Promised(k, A, "output", x)
           S == [g \in Groups(k) |-> [t \in Threads(k) |-> Shift(g * dim, Mine(k, t, dim))]]
           E == [g \in Groups(k) |-> [t \in Threads(k) |-> [output |-> [x \in S[g][t] |-> told(x)]]]]
<1>1. /\ ElementOutputs(k) = {"output"} /\ dim \in Nat \ {0} /\ k.groups \in Nat /\ k.threads \in Nat \ {0}
      /\ OutSize(k) = k.groups * dim /\ Numbers(A, "indices", k.groups) /\ Numbers(A, "input", 0)
      /\ \A g \in Groups(k), c \in 0..(dim - 1) : (A.indices[g] * dim) + c \in DOMAIN A.input
  BY KernelAssumption DEF PerCell, Extras, Rearranging, ElementOutputs, OutSize
<1>2. Groups(k) = 0..(k.groups - 1) /\ Threads(k) = 0..(k.threads - 1) /\ \A t : Mine(k, t, dim) = Strided(t, dim, k.threads)
  BY DEF Groups, Threads, Mine
<1> HIDE DEF dim, told
<1>3. /\ \A t \in Threads(k) : \A c \in Mine(k, t, dim) : c \in 0..(dim - 1)
      /\ \A c \in 0..(dim - 1) : \E t \in Threads(k) : c \in Mine(k, t, dim)
      /\ \A c : \A t, u \in Threads(k) : c \in Mine(k, t, dim) /\ c \in Mine(k, u, dim) => t = u
  <2>1. dim \in Nat
    BY <1>1
  <2>2. /\ \A t \in 0..(k.threads - 1) : \A c \in Strided(t, dim, k.threads) : c \in 0..(dim - 1)
        /\ \A c \in 0..(dim - 1) : \E t \in 0..(k.threads - 1) : c \in Strided(t, dim, k.threads)
        /\ \A c : \A t, u \in 0..(k.threads - 1) : c \in Strided(t, dim, k.threads) /\ c \in Strided(u, dim, k.threads) => t = u
    BY <1>1, <2>1, StridedCells
  <2>3. QED
    BY <1>2, <2>2
<1>4. /\ \A x \in 0..(OutSize(k) - 1) : \E g \in Groups(k), c \in 0..(dim - 1) : (g * dim) + c = x
      /\ \A g, h \in Groups(k), c, d \in 0..(dim - 1) : (g * dim) + c = (h * dim) + d => g = h /\ c = d
      /\ \A g \in Groups(k), c \in 0..(dim - 1) : (g * dim) + c \in 0..(OutSize(k) - 1)
      /\ \A g \in Groups(k), c \in 0..(dim - 1) : Row((g * dim) + c, dim) = g /\ Col((g * dim) + c, dim) = c
  <2>1. /\ \A x \in 0..((k.groups * dim) - 1) : \E g \in 0..(k.groups - 1), c \in 0..(dim - 1) : (g * dim) + c = x
        /\ \A g, h \in 0..(k.groups - 1), c, d \in 0..(dim - 1) : (g * dim) + c = (h * dim) + d => g = h /\ c = d
        /\ \A g \in 0..(k.groups - 1), c \in 0..(dim - 1) : (g * dim) + c \in 0..((k.groups * dim) - 1)
        /\ \A g \in 0..(k.groups - 1), c \in 0..(dim - 1) : Row((g * dim) + c, dim) = g /\ Col((g * dim) + c, dim) = c
    BY <1>1, RowCells
  <2>2. OutSize(k) - 1 = (k.groups * dim) - 1
    BY <1>1
  <2>3. QED
    BY <1>2, <2>1, <2>2
<1>5. ASSUME NEW g \in Groups(k), NEW t \in Threads(k), NEW x \in S[g][t]
      PROVE  \E c \in Mine(k, t, dim) : c \in 0..(dim - 1) /\ x = (g * dim) + c
  BY <1>3, <1>5 DEF Shift
<1>6. ASSUME NEW g \in Groups(k), NEW t \in Threads(k), NEW x \in S[g][t]
      PROVE  /\ x \in 0..(OutSize(k) - 1)
             /\ \A h \in Groups(k), u \in Threads(k) : x \in S[h][u] => h = g /\ u = t
  <2>1. PICK c \in Mine(k, t, dim) : c \in 0..(dim - 1) /\ x = (g * dim) + c
    BY <1>5, <1>6
  <2>2. ASSUME NEW h \in Groups(k), NEW u \in Threads(k), x \in S[h][u]
        PROVE  h = g /\ u = t
    <3>1. PICK d \in Mine(k, u, dim) : d \in 0..(dim - 1) /\ x = (h * dim) + d
      BY <1>5, <2>2
    <3>2. h = g /\ d = c
      BY <1>4, <2>1, <3>1
    <3>3. QED
      BY <1>3, <2>1, <3>1, <3>2
  <2>3. QED
    BY <1>4, <2>1, <2>2
<1>7. ASSUME NEW x \in 0..(OutSize(k) - 1)
      PROVE  \E g \in Groups(k), t \in Threads(k) : x \in S[g][t]
  <2>1. PICK g \in Groups(k), c \in 0..(dim - 1) : (g * dim) + c = x
    BY <1>4
  <2>2. PICK t \in Threads(k) : c \in Mine(k, t, dim)
    BY <1>3
  <2>3. x \in S[g][t]
    BY <2>1, <2>2 DEF Shift
  <2>4. QED
    BY <2>3
<1>8. ASSUME NEW g \in Groups(k), NEW t \in Threads(k), NEW v, Given(k, v)
      PROVE  Effect(k, g, Code(k, g, t)[1], t, v) = E[g][t]
  <2> DEFINE got(x) == At(v.input, (v.indices[g] * dim) + (x - (g * dim)))
  <2>1. Effect(k, g, Code(k, g, t)[1], t, v) = Embedding(k, g, t, v)
    BY DEF Runs, ElementEffect
  <2>2. Embedding(k, g, t, v) = [output |-> [x \in Shift(g * dim, Mine(k, t, dim)) |-> got(x)]]
    BY DEF Embedding, dim
  <2>3. v.indices[g] = A.indices[g] /\ A.indices[g] \in Int
    <3>1. Numbers(A, "indices", k.groups) /\ "indices" \notin ElementOutputs(k)
      BY <1>1
    <3> HIDE DEF got, E, S
    <3>2. \A i \in 0..(k.groups - 1) : v["indices"][i] = A["indices"][i] /\ A["indices"][i] \in Int \ {NaN, NegInf}
      <4> DEFINE size == k.groups
      <4>1. Numbers(A, "indices", size)
        BY <3>1
      <4> HIDE DEF size
      <4>2. \A i \in 0..(size - 1) : v["indices"][i] = A["indices"][i] /\ A["indices"][i] \in Int \ {NaN, NegInf}
        BY <1>8, <3>1, <4>1, Reads
      <4>3. QED
        BY <4>2 DEF size
    <3>3. QED
      BY <1>2, <3>2
  <2>4. "input" \in DOMAIN A /\ "input" \notin ElementOutputs(k)
    BY <1>1 DEF Numbers
  <2>5. \A i \in DOMAIN A.input : At(v.input, i) = A.input[i]
    BY <1>8, <2>4 DEF Given, At
  <2>6. ASSUME NEW x \in S[g][t]
        PROVE  got(x) = told(x)
    <3>1. PICK c \in 0..(dim - 1) : x = (g * dim) + c
      BY <1>5, <2>6
    <3>2. x - (g * dim) = c
      <4> DEFINE w == g * dim
      <4>1. w \in Int /\ c \in Int /\ x = w + c
        BY <1>1, <1>2, <3>1
      <4> HIDE DEF w
      <4>2. x - w = c
        BY <4>1
      <4>3. QED
        BY <4>2 DEF w
    <3>3. got(x) = A.input[(A.indices[g] * dim) + c]
      BY <1>1, <2>3, <2>5, <3>2
    <3>4. told(x) = A.input[(A.indices[Row(x, dim)] * dim) + Col(x, dim)]
      BY DEF Promised, told, dim
    <3>5. Row(x, dim) = g /\ Col(x, dim) = c
      BY <1>4, <3>1
    <3> HIDE DEF got
    <3>6. QED
      BY <3>3, <3>4, <3>5
  <2>7. S[g][t] = Shift(g * dim, Mine(k, t, dim))
    OBVIOUS
  <2> HIDE DEF got, S
  <2>8. QED
    BY <2>1, <2>2, <2>6, <2>7
<1> HIDE DEF S
<1>9. Fills(k, S, E)
  BY DEF Fills, told
<1> HIDE DEF E
<1>10. Shares(k, S)
  BY <1>6, <1>7 DEF Shares
<1>11. Partition(k, E)
  BY <1>1, <1>9, <1>10, CellsPartition
<1>12. QED
  BY <1>8, <1>11, SharedCellByCell

\* The pairs of a row: cell 2i + b of a row of even length belongs to pair i.
LEMMA PairCells ==
  ASSUME NEW G \in Nat, NEW dim \in Nat \ {0}, dim % 2 = 0
  PROVE  /\ dim \div 2 \in Nat /\ dim = 2 * (dim \div 2)
         /\ \A c \in 0..(dim - 1) : \E i \in 0..((dim \div 2) - 1), b \in {0, 1} : c = (2 * i) + b
         /\ \A i \in 0..((dim \div 2) - 1), b \in {0, 1} :
              /\ (2 * i) + b \in 0..(dim - 1) /\ ((2 * i) + b) \div 2 = i /\ ((2 * i) + b) % 2 = b
              /\ \A g \in 0..(G - 1) : ((g * dim) + ((2 * i) + b)) % 2 = b
<1> DEFINE H == dim \div 2
<1>1. H \in Nat /\ dim = 2 * H
  <2>1. H \in Int /\ dim = (2 * H) + (dim % 2) /\ H >= 0
    BY Quotient
  <2>2. QED
    BY <2>1
<1> HIDE DEF H
<1>2. ASSUME NEW c \in 0..(dim - 1)
      PROVE  \E i \in 0..(H - 1), b \in {0, 1} : c = (2 * i) + b
  <2> DEFINE i == c \div 2
             b == c % 2
  <2>1. c \in Int /\ c >= 0
    OBVIOUS
  <2>2. i \in Int /\ b \in 0..1 /\ c = (2 * i) + b /\ i >= 0
    BY <2>1, Quotient
  <2> HIDE DEF i, b
  <2>3. i \in 0..(H - 1) /\ b \in {0, 1}
    BY <1>1, <2>2
  <2>4. QED
    BY <2>2, <2>3
<1>3. ASSUME NEW i \in 0..(H - 1), NEW b \in {0, 1}
      PROVE  /\ (2 * i) + b \in 0..(dim - 1) /\ ((2 * i) + b) \div 2 = i /\ ((2 * i) + b) % 2 = b
             /\ \A g \in 0..(G - 1) : ((g * dim) + ((2 * i) + b)) % 2 = b
  <2> DEFINE c == (2 * i) + b
  <2>1. c \in 0..(dim - 1) /\ c \in Int /\ b \in 0..1 /\ c = (2 * i) + b
    BY <1>1
  <2>2. c \div 2 = i /\ c % 2 = b
    <3> HIDE DEF c
    <3>1. i \in Int
      OBVIOUS
    <3>2. QED
      BY <2>1, <3>1, Remainder
  <2>3. ASSUME NEW g \in 0..(G - 1)
        PROVE  ((g * dim) + c) % 2 = b
    <3> DEFINE w == g * H
               n == (g * dim) + c
               q == w + i
    <3>1. w \in Int /\ g * dim = 2 * w
      BY <1>1
    <3> HIDE DEF w
    <3>2. q \in Int /\ n \in Int /\ n = (2 * q) + b
      BY <2>1, <3>1
    <3> HIDE DEF n, q
    <3>3. n \div 2 = q /\ n % 2 = b
      BY <2>1, <3>2, Remainder
    <3>4. QED
      BY <3>3 DEF n
  <2>4. QED
    BY <2>1, <2>2, <2>3
<1>4. QED
  BY <1>1, <1>2, <1>3 DEF H

\* rope turns each pair of a row by the promised angle.
LEMMA RopeRight ==
  ASSUME NEW k \in Kernels, PerCell(k), Runs(k), k.name = "rope"
  PROVE  CellByCell(k)
<1> DEFINE A == Arrays(k).dev
           dim == k.dim
           H == k.dim \div 2
           told(x) == Promised(k, A, "output", x)
           S == [g \in Groups(k) |-> [t \in Threads(k) |->
                  UNION {{(g * dim) + (2 * i), (g * dim) + (2 * i) + 1} : i \in Mine(k, t, H)}]]
           E == [g \in Groups(k) |-> [t \in Threads(k) |-> [output |-> [x \in S[g][t] |-> told(x)]]]]
<1>1. /\ ElementOutputs(k) = {"output"} /\ dim \in Nat \ {0} /\ k.groups \in Nat /\ k.threads \in Nat \ {0}
      /\ OutSize(k) = k.groups * dim /\ dim % 2 = 0 /\ k.pos \in Nat
      /\ Numbers(A, "freqs", H) /\ Numbers(A, "input", OutSize(k))
  <2>1. ElementOutputs(k) = {"output"} /\ OutSize(k) = k.groups * dim /\ Covers(k) = OutSize(k)
    BY DEF ElementOutputs, OutSize, Covers
  <2>2. QED
    BY <2>1, KernelAssumption DEF PerCell, Extras, Rearranging
<1>2. Groups(k) = 0..(k.groups - 1) /\ Threads(k) = 0..(k.threads - 1) /\ \A t : Mine(k, t, H) = Strided(t, H, k.threads)
  BY DEF Groups, Threads, Mine
<1>3. /\ H \in Nat /\ dim = 2 * H
      /\ \A c \in 0..(dim - 1) : \E i \in 0..(H - 1), b \in {0, 1} : c = (2 * i) + b
      /\ \A i \in 0..(H - 1), b \in {0, 1} :
           /\ (2 * i) + b \in 0..(dim - 1) /\ ((2 * i) + b) \div 2 = i /\ ((2 * i) + b) % 2 = b
           /\ \A g \in Groups(k) : ((g * dim) + ((2 * i) + b)) % 2 = b
  <2> DEFINE G == k.groups
             D == dim
  <2>1. G \in Nat /\ D \in Nat \ {0} /\ D % 2 = 0
    BY <1>1
  <2> HIDE DEF G, D
  <2>2. /\ D \div 2 \in Nat /\ D = 2 * (D \div 2)
        /\ \A c \in 0..(D - 1) : \E i \in 0..((D \div 2) - 1), b \in {0, 1} : c = (2 * i) + b
        /\ \A i \in 0..((D \div 2) - 1), b \in {0, 1} :
             /\ (2 * i) + b \in 0..(D - 1) /\ ((2 * i) + b) \div 2 = i /\ ((2 * i) + b) % 2 = b
             /\ \A g \in 0..(G - 1) : ((g * D) + ((2 * i) + b)) % 2 = b
    BY <2>1, PairCells
  <2> HIDE DEF H
  <2>3. D \div 2 = H
    BY DEF D, H
  <2>4. QED
    BY <1>2, <2>2, <2>3 DEF G, D
<1> HIDE DEF dim, told, H
<1>4. /\ \A t \in Threads(k) : \A i \in Mine(k, t, H) : i \in 0..(H - 1)
      /\ \A i \in 0..(H - 1) : \E t \in Threads(k) : i \in Mine(k, t, H)
      /\ \A i : \A t, u \in Threads(k) : i \in Mine(k, t, H) /\ i \in Mine(k, u, H) => t = u
  <2>1. /\ \A t \in 0..(k.threads - 1) : \A c \in Strided(t, H, k.threads) : c \in 0..(H - 1)
        /\ \A c \in 0..(H - 1) : \E t \in 0..(k.threads - 1) : c \in Strided(t, H, k.threads)
        /\ \A c : \A t, u \in 0..(k.threads - 1) : c \in Strided(t, H, k.threads) /\ c \in Strided(u, H, k.threads) => t = u
    BY <1>1, <1>3, StridedCells
  <2>2. QED
    BY <1>2, <2>1
<1>5. /\ \A x \in 0..(OutSize(k) - 1) : \E g \in Groups(k), c \in 0..(dim - 1) : (g * dim) + c = x
      /\ \A g, h \in Groups(k), c, d \in 0..(dim - 1) : (g * dim) + c = (h * dim) + d => g = h /\ c = d
      /\ \A g \in Groups(k), c \in 0..(dim - 1) : (g * dim) + c \in 0..(OutSize(k) - 1)
      /\ \A g \in Groups(k), c \in 0..(dim - 1) : Row((g * dim) + c, dim) = g /\ Col((g * dim) + c, dim) = c
  <2>1. /\ \A x \in 0..((k.groups * dim) - 1) : \E g \in 0..(k.groups - 1), c \in 0..(dim - 1) : (g * dim) + c = x
        /\ \A g, h \in 0..(k.groups - 1), c, d \in 0..(dim - 1) : (g * dim) + c = (h * dim) + d => g = h /\ c = d
        /\ \A g \in 0..(k.groups - 1), c \in 0..(dim - 1) : (g * dim) + c \in 0..((k.groups * dim) - 1)
        /\ \A g \in 0..(k.groups - 1), c \in 0..(dim - 1) : Row((g * dim) + c, dim) = g /\ Col((g * dim) + c, dim) = c
    BY <1>1, RowCells
  <2>2. OutSize(k) - 1 = (k.groups * dim) - 1
    BY <1>1
  <2>3. QED
    BY <1>2, <2>1, <2>2
<1>6. ASSUME NEW g \in Groups(k), NEW t \in Threads(k), NEW x
      PROVE  x \in S[g][t] <=> \E i \in Mine(k, t, H), b \in {0, 1} : x = (g * dim) + ((2 * i) + b)
  <2>1. ASSUME NEW i \in Mine(k, t, H)
        PROVE  /\ (g * dim) + (2 * i) = (g * dim) + ((2 * i) + 0)
               /\ (g * dim) + (2 * i) + 1 = (g * dim) + ((2 * i) + 1)
    <3> DEFINE w == g * dim
               y == 2 * i
    <3>1. w \in Int /\ y \in Int
      BY <1>1, <1>2, <1>4
    <3> HIDE DEF w, y
    <3>2. w + y = w + (y + 0) /\ w + y + 1 = w + (y + 1)
      BY <3>1
    <3>3. QED
      BY <3>2 DEF w, y
  <2>2. S[g][t] = UNION {{(g * dim) + (2 * i), (g * dim) + (2 * i) + 1} : i \in Mine(k, t, H)}
    OBVIOUS
  <2> HIDE DEF S
  <2>3. x \in S[g][t] <=> \E i \in Mine(k, t, H) : x = (g * dim) + (2 * i) \/ x = (g * dim) + (2 * i) + 1
    BY <2>2
  <2>4. QED
    BY <2>1, <2>3
<1>7. ASSUME NEW g \in Groups(k), NEW t \in Threads(k), NEW x \in S[g][t]
     PROVE  \E i \in Mine(k, t, H), b \in {0, 1} : x = (g * dim) + ((2 * i) + b)
  <2> HIDE DEF S
  <2>1. x \in S[g][t]
    BY <1>7
  <2>2. QED
    BY <1>6, <2>1
<1>8. ASSUME NEW g \in Groups(k), NEW t \in Threads(k), NEW v, Given(k, v)
      PROVE  Effect(k, g, Code(k, g, t)[1], t, v) = E[g][t]
  <2> DEFINE row == g * dim
             theta(i) == Mul(g + k.pos, v.freqs[i])
             x0(i) == v.input[row + (2 * i)]
             x1(i) == v.input[row + (2 * i) + 1]
             got(j) == LET i == (j - row) \div 2 IN
                       Cast(k, IF (j - row) % 2 = 0 THEN Sub(Mul(x0(i), Fn("cos", theta(i))), Mul(x1(i), Fn("sin", theta(i))))
                               ELSE Add(Mul(x0(i), Fn("sin", theta(i))), Mul(x1(i), Fn("cos", theta(i)))))
  <2>1. Effect(k, g, Code(k, g, t)[1], t, v) = Rope(k, g, t, v)
    BY DEF Runs, ElementEffect
  <2>2. S[g][t] = UNION {{row + (2 * i), row + (2 * i) + 1} : i \in Mine(k, t, H)}
    OBVIOUS
  <2>3. Rope(k, g, t, v) = [output |-> [j \in UNION {{row + (2 * i), row + (2 * i) + 1} : i \in Mine(k, t, H)} |-> got(j)]]
    BY DEF Rope, dim, H
  <2> HIDE DEF S, got
  <2>4. \A i \in 0..(H - 1) : v.freqs[i] = A.freqs[i]
    <3>1. Numbers(A, "freqs", H) /\ "freqs" \notin ElementOutputs(k)
      BY <1>1
    <3>2. \A i \in 0..(H - 1) : v["freqs"][i] = A["freqs"][i]
      BY <1>8, <3>1, Reads
    <3>3. QED
      BY <3>2
  <2>5. \A i \in 0..(OutSize(k) - 1) : v.input[i] = A.input[i]
    <3>1. Numbers(A, "input", OutSize(k)) /\ "input" \notin ElementOutputs(k)
      BY <1>1
    <3> HIDE DEF row, theta, x0, x1, E
    <3>2. \A i \in 0..(OutSize(k) - 1) : v["input"][i] = A["input"][i]
      <4> DEFINE size == OutSize(k)
      <4>1. Numbers(A, "input", size)
        BY <3>1
      <4> HIDE DEF size
      <4>2. \A i \in 0..(size - 1) : v["input"][i] = A["input"][i]
        BY <1>8, <3>1, <4>1, Reads
      <4>3. QED
        BY <4>2 DEF size
    <3>3. QED
      BY <3>2
  <2>6. ASSUME NEW x \in S[g][t]
        PROVE  got(x) = told(x)
    <3>1. \E i \in Mine(k, t, H), b \in {0, 1} : x = (g * dim) + ((2 * i) + b)
      BY <1>7, <2>6
    <3>2. PICK i \in Mine(k, t, H), b \in {0, 1} : x = (g * dim) + ((2 * i) + b)
      BY <3>1
    <3> DEFINE c == (2 * i) + b
               first == row + (2 * i)
               angle == Mul(g + k.pos, A.freqs[i])
    <3>3. i \in 0..(H - 1) /\ c \in 0..(dim - 1) /\ c \div 2 = i /\ c % 2 = b /\ x % 2 = b
      BY <1>3, <1>4, <3>2
    <3>4. Row(x, dim) = g /\ Col(x, dim) = c
      BY <1>5, <3>2, <3>3
    <3>5. row \in Int /\ 2 * i \in Int
      <4>1. g \in Int /\ dim \in Int /\ i \in Int
        BY <1>1, <1>2, <3>3
      <4>2. QED
        BY <4>1
    <3>6. x - row = c /\ x - (x % 2) = first
      <4> DEFINE y == 2 * i
      <4>1. y \in Int /\ b \in Int /\ x = row + (y + b) /\ x % 2 = b
        BY <3>2, <3>3, <3>5
      <4> HIDE DEF row, y
      <4>2. x - row = y + b /\ x - (x % 2) = row + y
        BY <3>5, <4>1
      <4>3. QED
        BY <4>2 DEF y, row
    <3>7. /\ first \in 0..(OutSize(k) - 1) /\ first + 1 \in 0..(OutSize(k) - 1)
      <4>1. \A e \in {0, 1} : (2 * i) + e \in 0..(dim - 1)
        BY <1>3, <3>3
      <4>2. ASSUME NEW e \in {0, 1}
            PROVE  row + ((2 * i) + e) \in 0..(OutSize(k) - 1)
        <5> DEFINE d == (2 * i) + e
        <5>1. d \in 0..(dim - 1)
          BY <4>1
        <5> HIDE DEF d
        <5>2. (g * dim) + d \in 0..(OutSize(k) - 1)
          BY <1>5, <5>1
        <5>3. QED
          BY <5>2 DEF d
      <4>3. row + ((2 * i) + 0) = first /\ row + ((2 * i) + 1) = first + 1
        <5> HIDE DEF row
        <5>1. QED
          BY <3>5
      <4>4. QED
        BY <4>2, <4>3
    <3>8. x0(i) = A.input[first] /\ x1(i) = A.input[first + 1] /\ theta(i) = angle
      BY <2>4, <2>5, <3>3, <3>7
    <3> HIDE DEF row, c, first, x0, x1, theta, angle
    <3>9. got(x) = Cast(k, IF b = 0 THEN Sub(Mul(x0(i), Fn("cos", theta(i))), Mul(x1(i), Fn("sin", theta(i))))
                           ELSE Add(Mul(x0(i), Fn("sin", theta(i))), Mul(x1(i), Fn("cos", theta(i)))))
      BY <3>3, <3>6 DEF got
    <3>10. told(x) = Cast(k, IF b = 0 THEN Sub(Mul(A.input[first], Fn("cos", angle)), Mul(A.input[first + 1], Fn("sin", angle)))
                             ELSE Add(Mul(A.input[first], Fn("sin", angle)), Mul(A.input[first + 1], Fn("cos", angle))))
      <4> DEFINE a(j) == Mul(Row(j, k.dim) + k.pos, A.freqs[Col(j, k.dim) \div 2])
                 f(j) == j - (j % 2)
      <4>1. told(x) = Cast(k, IF x % 2 = 0 THEN Sub(Mul(A.input[f(x)], Fn("cos", a(x))), Mul(A.input[f(x) + 1], Fn("sin", a(x))))
                              ELSE Add(Mul(A.input[f(x)], Fn("sin", a(x))), Mul(A.input[f(x) + 1], Fn("cos", a(x)))))
        BY DEF Promised, told
      <4>2. a(x) = angle
        BY <3>3, <3>4 DEF angle, dim
      <4>3. f(x) = first
        BY <3>6
      <4> HIDE DEF a, f
      <4>4. QED
        BY <3>3, <4>1, <4>2, <4>3
    <3>11. QED
      BY <3>8, <3>9, <3>10
  <2>7. QED
    BY <2>1, <2>2, <2>3, <2>6
<1> HIDE DEF S
<1>9. ASSUME NEW g \in Groups(k), NEW t \in Threads(k), NEW x \in S[g][t]
      PROVE  /\ x \in 0..(OutSize(k) - 1)
             /\ \A h \in Groups(k), u \in Threads(k) : x \in S[h][u] => h = g /\ u = t
  <2>1. \E i \in Mine(k, t, H), b \in {0, 1} : x = (g * dim) + ((2 * i) + b)
    BY <1>7, <1>9
  <2>2. PICK i \in Mine(k, t, H), b \in {0, 1} : x = (g * dim) + ((2 * i) + b)
    BY <2>1
  <2>3. i \in 0..(H - 1) /\ (2 * i) + b \in 0..(dim - 1) /\ ((2 * i) + b) \div 2 = i
    BY <1>3, <1>4, <2>2
  <2>4. ASSUME NEW h \in Groups(k), NEW u \in Threads(k), x \in S[h][u]
        PROVE  h = g /\ u = t
    <3>1. PICK j \in Mine(k, u, H), d \in {0, 1} : x = (h * dim) + ((2 * j) + d)
      BY <1>7, <2>4
    <3>2. j \in 0..(H - 1) /\ (2 * j) + d \in 0..(dim - 1) /\ ((2 * j) + d) \div 2 = j
      BY <1>3, <1>4, <3>1
    <3>3. h = g /\ (2 * j) + d = (2 * i) + b
      <4> DEFINE p == (2 * j) + d
                 q == (2 * i) + b
      <4>1. p \in 0..(dim - 1) /\ q \in 0..(dim - 1) /\ (h * dim) + p = (g * dim) + q
        BY <2>2, <2>3, <3>1, <3>2
      <4> HIDE DEF p, q
      <4>2. h = g /\ p = q
        BY <1>5, <4>1
      <4>3. QED
        BY <4>2 DEF p, q
    <3>4. j = i
      BY <2>3, <3>2, <3>3
    <3>5. QED
      BY <1>4, <3>3, <3>4
  <2>5. QED
    BY <1>5, <2>2, <2>3, <2>4
<1>10. ASSUME NEW x \in 0..(OutSize(k) - 1)
       PROVE  \E g \in Groups(k), t \in Threads(k) : x \in S[g][t]
  <2>1. PICK g \in Groups(k), c \in 0..(dim - 1) : (g * dim) + c = x
    BY <1>5
  <2>2. PICK i \in 0..(H - 1), b \in {0, 1} : c = (2 * i) + b
    BY <1>3
  <2>3. PICK t \in Threads(k) : i \in Mine(k, t, H)
    BY <1>4
  <2>4. x \in S[g][t]
    BY <1>6, <2>1, <2>2, <2>3
  <2>5. QED
    BY <2>4
<1>11. Fills(k, S, E)
  BY DEF Fills, told
<1> HIDE DEF E
<1>12. Shares(k, S)
  BY <1>9, <1>10 DEF Shares
<1>13. Partition(k, E)
  BY <1>1, <1>11, <1>12, CellsPartition
<1>14. QED
  BY <1>8, <1>13, SharedCellByCell

\* Every such template, of any size and with any data, is cell by cell.
LEMMA PerCellTemplates ==
  ASSUME NEW k \in Kernels, PerCell(k), Runs(k)
  PROVE  CellByCell(k)
<1>1. k.name \in {"elementwise", "swiglu", "scalar_mul", "activation", "fused_mlp", "dropout", "where", "clamp", "compare",
                  "batch_norm", "embedding", "gather", "index_select", "scatter", "split", "repeat_kv", "rope",
                  "max_pool", "avg_pool"}
  BY DEF PerCell, PerCellNames, ElementNames
<1>2. CASE k.name \in {"elementwise", "swiglu", "scalar_mul", "activation", "fused_mlp"}
  BY <1>2, ElementwiseRight, SwigluRight, ScalarMulRight, ActivationRight, FusedMlpRight
<1>3. CASE k.name \in {"dropout", "where", "clamp", "compare", "batch_norm"}
  BY <1>3, DropoutRight, WhereRight, ClampRight, CompareRight, BatchNormRight
<1>4. CASE k.name \in {"embedding", "gather", "index_select", "scatter", "split"}
  BY <1>4, EmbeddingRight, GatherRight, ScatterRight, SplitRight
<1>5. CASE k.name \in {"repeat_kv", "rope", "max_pool", "avg_pool"}
  BY <1>5, RepeatKvRight, RopeRight, MaxPoolRight, AvgPoolRight
<1>6. QED
  BY <1>1, <1>2, <1>3, <1>4, <1>5

\* The templates whose promise for a cell is a formula over given cells keep it, in every
\* interleaving and in bounds, for any grid that covers the output, any sizes and any
\* data: the thread arithmetic of each (rows, pairs, windows, repeated heads, strided
\* loops, masks) reaches each cell of the output exactly once.
THEOREM PerCellRight == Spec => [](PerCell(kernel) /\ Runs(kernel) => InBounds /\ OutputsRight)
<1>1. IInv => kernel \in Kernels
  BY DEF IInv
<1>2. IInv => (PerCell(kernel) /\ Runs(kernel) => Orderless(kernel))
  BY <1>1, PerCellTemplates, CellByCellOrderless
<1>3. Spec => []IInv
  BY Invariance
<1>4. QED
  BY <1>2, <1>3, OrderlessRight, PTL

\* Tiles of d cells that cover n cells.
LEMMA Ceiling ==
  ASSUME NEW n \in Nat, NEW d \in Nat \ {0}
  PROVE  CeilDiv(n, d) \in Nat /\ n <= CeilDiv(n, d) * d
<1> DEFINE m == n + d - 1
           c == m \div d
<1>1. m \in Int /\ m >= 0
  OBVIOUS
<1>2. c \in Int /\ c >= 0 /\ m % d \in 0..(d - 1) /\ m = (d * c) + (m % d)
  <2> HIDE DEF m
  <2>1. QED
    BY <1>1, Quotient
<1>3. CeilDiv(n, d) = c
  BY DEF CeilDiv
<1> HIDE DEF c
<1> DEFINE w == d * c
<1>4. w \in Int /\ m = w + (m % d) /\ w = c * d
  BY <1>2
<1> HIDE DEF w
<1>5. n <= w
  BY <1>2, <1>4
<1>6. QED
  BY <1>2, <1>3, <1>4, <1>5

\* The rows and columns of a number below a * b.
LEMMA Coordinates ==
  ASSUME NEW a \in Nat, NEW b \in Nat \ {0}
  PROVE  /\ \A x \in 0..((a * b) - 1) : x \div b \in 0..(a - 1) /\ x % b \in 0..(b - 1) /\ ((x \div b) * b) + (x % b) = x
         /\ \A r \in 0..(a - 1), c \in 0..(b - 1) : \E x \in 0..((a * b) - 1) : x \div b = r /\ x % b = c
<1>1. /\ \A x \in 0..((a * b) - 1) : \E g \in 0..(a - 1), c \in 0..(b - 1) : (g * b) + c = x
      /\ \A g \in 0..(a - 1), c \in 0..(b - 1) : (g * b) + c \in 0..((a * b) - 1)
      /\ \A g \in 0..(a - 1), c \in 0..(b - 1) : Row((g * b) + c, b) = g /\ Col((g * b) + c, b) = c
  BY RowCells
<1>2. \A g \in 0..(a - 1), c \in 0..(b - 1) : ((g * b) + c) \div b = g /\ ((g * b) + c) % b = c
  BY <1>1 DEF Row, Col
<1>3. ASSUME NEW x \in 0..((a * b) - 1)
      PROVE  x \div b \in 0..(a - 1) /\ x % b \in 0..(b - 1) /\ ((x \div b) * b) + (x % b) = x
  <2>1. PICK g \in 0..(a - 1), c \in 0..(b - 1) : (g * b) + c = x
    BY <1>1
  <2>2. x \div b = g /\ x % b = c
    BY <1>2, <2>1
  <2>3. QED
    BY <2>1, <2>2
<1>4. ASSUME NEW r \in 0..(a - 1), NEW c \in 0..(b - 1)
      PROVE  \E x \in 0..((a * b) - 1) : x \div b = r /\ x % b = c
  <2>1. (r * b) + c \in 0..((a * b) - 1)
    BY <1>1
  <2>2. ((r * b) + c) \div b = r /\ ((r * b) + c) % b = c
    BY <1>2
  <2>3. QED
    BY <2>1, <2>2
<1>5. QED
  BY <1>3, <1>4

\* The transpose through a padded tile is such a kernel: each thread reads back, after the
\* barrier, the cell that another thread wrote.
LEMMA TransposeRight ==
  ASSUME NEW k \in Kernels, Tiled(k), Runs(k)
  PROVE  Orderless(k)
<1> DEFINE A == Arrays(k).dev
           rows == k.rows
           cols == k.cols
           d == k.tile
           C == CeilDiv(k.cols, k.tile)
           B == CeilDiv(k.rows, k.tile)
           gx(g) == g % C
           gy(g) == g \div C
           tx(t) == t % d
           ty(t) == t \div d
           cell(r, c) == (r * (d + 1)) + c
           across(g, t) == (gx(g) * d) + ty(t)
           down(g, t) == (gy(g) * d) + tx(t)
           rrow(g, t) == (gy(g) * d) + ty(t)
           rcol(g, t) == (gx(g) * d) + tx(t)
           put(x, y) == (x * rows) + y
           from(x, y) == (x * cols) + y
           R == [g \in Groups(k) |-> [t \in Threads(k) |->
                  IF rrow(g, t) < rows /\ rcol(g, t) < cols THEN Put("tile", cell(ty(t), tx(t)), A.input[from(rrow(g, t), rcol(g, t))])
                  ELSE Nothing]]
           W == [g \in Groups(k) |-> [t \in Threads(k) |->
                  IF across(g, t) < cols /\ down(g, t) < rows
                  THEN Put("output", put(across(g, t), down(g, t)), A.input[from(down(g, t), across(g, t))]) ELSE Nothing]]
<1>1. /\ k.name = "transpose" /\ rows \in Nat \ {0} /\ cols \in Nat \ {0} /\ d \in Nat \ {0}
      /\ k.threads = d * d /\ k.groups = B * C
      /\ \A g \in Groups(k), t \in Threads(k) : Code(k, g, t) = TransposeCode
      /\ Distinct(k) /\ Numbers(A, "input", rows * cols)
      /\ "output" \in DOMAIN A /\ DOMAIN A["output"] = 0..((rows * cols) - 1)
      /\ "tile" \in DOMAIN Locals(k) /\ DOMAIN Locals(k)["tile"] = 0..((d * (d + 1)) - 1)
      /\ Wants(k) = ElementWantOf(k, A)
  BY DEF Tiled, Distinct
<1>2. B \in Nat /\ C \in Nat \ {0} /\ rows <= B * d /\ cols <= C * d
  <2>1. /\ CeilDiv(rows, d) \in Nat /\ rows <= CeilDiv(rows, d) * d
        /\ CeilDiv(cols, d) \in Nat /\ cols <= CeilDiv(cols, d) * d
    BY <1>1, Ceiling
  <2> HIDE DEF rows, cols, d
  <2>2. CeilDiv(rows, d) = B /\ CeilDiv(cols, d) = C
    BY DEF rows, cols, d
  <2> HIDE DEF B, C
  <2>3. C = 0 => C * d = 0
    BY <1>1
  <2>4. QED
    BY <1>1, <2>1, <2>2, <2>3
<1>3. Groups(k) = 0..((B * C) - 1) /\ Threads(k) = 0..((d * d) - 1)
  BY <1>1 DEF Groups, Threads
<1> HIDE DEF rows, cols, d, B, C
<1>4. /\ \A g \in Groups(k) : gy(g) \in 0..(B - 1) /\ gx(g) \in 0..(C - 1) /\ (gy(g) * C) + gx(g) = g
      /\ \A q \in 0..(B - 1), p \in 0..(C - 1) : \E g \in Groups(k) : gy(g) = q /\ gx(g) = p
  <2>1. /\ \A x \in 0..((B * C) - 1) : x \div C \in 0..(B - 1) /\ x % C \in 0..(C - 1) /\ ((x \div C) * C) + (x % C) = x
        /\ \A r \in 0..(B - 1), c \in 0..(C - 1) : \E x \in 0..((B * C) - 1) : x \div C = r /\ x % C = c
    BY <1>2, Coordinates
  <2>2. QED
    BY <1>3, <2>1
<1>5. /\ \A t \in Threads(k) : ty(t) \in 0..(d - 1) /\ tx(t) \in 0..(d - 1) /\ (ty(t) * d) + tx(t) = t
      /\ \A q, p \in 0..(d - 1) : \E t \in Threads(k) : ty(t) = q /\ tx(t) = p
  <2>1. /\ \A x \in 0..((d * d) - 1) : x \div d \in 0..(d - 1) /\ x % d \in 0..(d - 1) /\ ((x \div d) * d) + (x % d) = x
        /\ \A r \in 0..(d - 1), c \in 0..(d - 1) : \E x \in 0..((d * d) - 1) : x \div d = r /\ x % d = c
    BY <1>1, Coordinates
  <2>2. QED
    BY <1>3, <2>1
<1> HIDE DEF gx, gy, tx, ty
\* a cell of the tile
<1>6. /\ \A r, c \in 0..(d - 1) : cell(r, c) \in 0..((d * (d + 1)) - 1)
      /\ \A r, c, q, p \in 0..(d - 1) : cell(r, c) = cell(q, p) => r = q /\ c = p
  <2> DEFINE D == d + 1
  <2>1. D \in Nat \ {0} /\ 0..(d - 1) \subseteq 0..(D - 1) /\ d \in Nat
    BY <1>1
  <2> HIDE DEF D
  <2>2. /\ \A g, h \in 0..(d - 1), c, e \in 0..(D - 1) : (g * D) + c = (h * D) + e => g = h /\ c = e
        /\ \A g \in 0..(d - 1), c \in 0..(D - 1) : (g * D) + c \in 0..((d * D) - 1)
    BY <2>1, RowCells
  <2>3. \A r, c : cell(r, c) = (r * D) + c
    BY DEF D
  <2> HIDE DEF cell
  <2>4. /\ \A r, c \in 0..(d - 1) : cell(r, c) \in 0..((d * D) - 1)
        /\ \A r, c, q, p \in 0..(d - 1) : cell(r, c) = cell(q, p) => r = q /\ c = p
    BY <2>1, <2>2, <2>3
  <2>5. QED
    BY <2>4 DEF D
\* a place in the output and in the input
<1>7. /\ \A x \in 0..((rows * cols) - 1) : \E w \in 0..(cols - 1), y \in 0..(rows - 1) : put(w, y) = x
      /\ \A w, v \in 0..(cols - 1), y, z \in 0..(rows - 1) : put(w, y) = put(v, z) => w = v /\ y = z
      /\ \A w \in 0..(cols - 1), y \in 0..(rows - 1) : put(w, y) \in 0..((rows * cols) - 1)
      /\ \A w \in 0..(cols - 1), y \in 0..(rows - 1) : Row(put(w, y), rows) = w /\ Col(put(w, y), rows) = y
  <2>1. cols \in Nat /\ rows * cols = cols * rows
    BY <1>1
  <2>2. /\ \A x \in 0..((cols * rows) - 1) : \E g \in 0..(cols - 1), c \in 0..(rows - 1) : (g * rows) + c = x
        /\ \A g, h \in 0..(cols - 1), c, e \in 0..(rows - 1) : (g * rows) + c = (h * rows) + e => g = h /\ c = e
        /\ \A g \in 0..(cols - 1), c \in 0..(rows - 1) : (g * rows) + c \in 0..((cols * rows) - 1)
        /\ \A g \in 0..(cols - 1), c \in 0..(rows - 1) : Row((g * rows) + c, rows) = g /\ Col((g * rows) + c, rows) = c
    BY <1>1, <2>1, RowCells
  <2>3. QED
    BY <2>1, <2>2
<1>8. \A y \in 0..(rows - 1), w \in 0..(cols - 1) : from(y, w) \in 0..((rows * cols) - 1)
  <2>1. rows \in Nat
    BY <1>1
  <2>2. \A g \in 0..(rows - 1), c \in 0..(cols - 1) : (g * cols) + c \in 0..((rows * cols) - 1)
    BY <1>1, <2>1, RowCells
  <2>3. QED
    BY <2>2
\* a tile's place in the matrix
<1>9. /\ \A x \in 0..(cols - 1) : \E p \in 0..(C - 1), q \in 0..(d - 1) : (p * d) + q = x
      /\ \A p, q \in 0..(C - 1), r, s \in 0..(d - 1) : (p * d) + r = (q * d) + s => p = q /\ r = s
      /\ \A p \in 0..(C - 1), r \in 0..(d - 1) : (p * d) + r \in Nat
  BY <1>1, <1>2, GridCells
<1>10. /\ \A x \in 0..(rows - 1) : \E p \in 0..(B - 1), q \in 0..(d - 1) : (p * d) + q = x
       /\ \A p, q \in 0..(B - 1), r, s \in 0..(d - 1) : (p * d) + r = (q * d) + s => p = q /\ r = s
       /\ \A p \in 0..(B - 1), r \in 0..(d - 1) : (p * d) + r \in Nat
  BY <1>1, <1>2, GridCells
<1>11. \A g \in Groups(k), t \in Threads(k) :
         /\ across(g, t) < cols => across(g, t) \in 0..(cols - 1)
         /\ down(g, t) < rows => down(g, t) \in 0..(rows - 1)
         /\ rrow(g, t) < rows => rrow(g, t) \in 0..(rows - 1)
         /\ rcol(g, t) < cols => rcol(g, t) \in 0..(cols - 1)
  <2> SUFFICES ASSUME NEW g \in Groups(k), NEW t \in Threads(k)
               PROVE  /\ across(g, t) < cols => across(g, t) \in 0..(cols - 1)
                      /\ down(g, t) < rows => down(g, t) \in 0..(rows - 1)
                      /\ rrow(g, t) < rows => rrow(g, t) \in 0..(rows - 1)
                      /\ rcol(g, t) < cols => rcol(g, t) \in 0..(cols - 1)
    OBVIOUS
  <2>1. gx(g) \in 0..(C - 1) /\ gy(g) \in 0..(B - 1) /\ tx(t) \in 0..(d - 1) /\ ty(t) \in 0..(d - 1)
    BY <1>4, <1>5
  <2>2. across(g, t) \in Nat /\ down(g, t) \in Nat /\ rrow(g, t) \in Nat /\ rcol(g, t) \in Nat
    BY <1>9, <1>10, <2>1
  <2> HIDE DEF across, down, rrow, rcol
  <2>3. QED
    BY <1>1, <2>2
<1>12. \A g \in Groups(k), t \in Threads(k) : \A a, x :
         /\ Touches(R[g][t], a, x) <=> a = "tile" /\ x = cell(ty(t), tx(t)) /\ rrow(g, t) < rows /\ rcol(g, t) < cols
         /\ Touches(R[g][t], a, x) => R[g][t][a][x] = A.input[from(rrow(g, t), rcol(g, t))]
  <2> HIDE DEF rrow, rcol, cell, from
  <2>1. QED
    BY DEF Touches, Put, Cell, Nothing
<1>13. \A g \in Groups(k), t \in Threads(k) : \A a, x :
         /\ Touches(W[g][t], a, x) <=> a = "output" /\ x = put(across(g, t), down(g, t)) /\ across(g, t) < cols /\ down(g, t) < rows
         /\ Touches(W[g][t], a, x) => W[g][t][a][x] = A.input[from(down(g, t), across(g, t))]
  <2> HIDE DEF across, down, put, from
  <2>1. QED
    BY DEF Touches, Put, Cell, Nothing
<1>14. \A g \in Groups(k), t \in Threads(k) :
         /\ R[g][t] = IF rrow(g, t) < rows /\ rcol(g, t) < cols
                      THEN Put("tile", cell(ty(t), tx(t)), A.input[from(rrow(g, t), rcol(g, t))]) ELSE Nothing
         /\ W[g][t] = IF across(g, t) < cols /\ down(g, t) < rows
                      THEN Put("output", put(across(g, t), down(g, t)), A.input[from(down(g, t), across(g, t))]) ELSE Nothing
  <2> HIDE DEF across, down, rrow, rcol, cell, put, from
  <2>1. QED
    OBVIOUS
<1> HIDE DEF R, W, across, down, rrow, rcol, cell, put, from
<1>15. /\ "tile" \in DOMAIN Fresh(k) /\ ~OfDevice(k, "tile") /\ DOMAIN Fresh(k)["tile"] = 0..((d * (d + 1)) - 1)
       /\ \A a \in DOMAIN A : a \in DOMAIN Fresh(k) /\ OfDevice(k, a) /\ Fresh(k)[a] = A[a]
  BY <1>1 DEF Fresh, Overlay, Distinct, OfDevice
<1>16. /\ \A g \in Groups(k), t \in Threads(k) : \A a, x : Touches(R[g][t], a, x) => a = "tile"
       /\ \A g \in Groups(k), t \in Threads(k) : \A a, x : Touches(R[g][t], a, x) => x = cell(ty(t), tx(t))
       /\ \A g \in Groups(k), t \in Threads(k) : \A a, x : Touches(W[g][t], a, x) => a = "output"
  <2> SUFFICES ASSUME NEW g \in Groups(k), NEW t \in Threads(k), NEW a, NEW x
               PROVE  /\ Touches(R[g][t], a, x) => a = "tile"
                      /\ Touches(R[g][t], a, x) => x = cell(ty(t), tx(t))
                      /\ Touches(W[g][t], a, x) => a = "output"
    OBVIOUS
  <2>1. Touches(R[g][t], a, x) <=> a = "tile" /\ x = cell(ty(t), tx(t)) /\ rrow(g, t) < rows /\ rcol(g, t) < cols
    BY <1>12
  <2>2. Touches(W[g][t], a, x) <=> a = "output" /\ x = put(across(g, t), down(g, t)) /\ across(g, t) < cols /\ down(g, t) < rows
    BY <1>13
  <2>3. QED
    BY <2>1, <2>2
<1>17. ASSUME NEW g \in Groups(k), NEW t \in Threads(k), NEW a, NEW x, Touches(R[g][t], a, x)
       PROVE  /\ a \in DOMAIN Fresh(k) /\ ~OfDevice(k, a) /\ x \in DOMAIN Fresh(k)[a]
              /\ \A u \in Threads(k) : Touches(R[g][u], a, x) => u = t
  <2>1. a = "tile" /\ x = cell(ty(t), tx(t))
    BY <1>16, <1>17
  <2>2. ty(t) \in 0..(d - 1) /\ tx(t) \in 0..(d - 1)
    BY <1>5
  <2>3. ASSUME NEW u \in Threads(k), Touches(R[g][u], a, x)
        PROVE  u = t
    <3> DEFINE r == ty(t)
               c == tx(t)
               q == ty(u)
               p == tx(u)
    <3>1. q \in 0..(d - 1) /\ p \in 0..(d - 1) /\ r \in 0..(d - 1) /\ c \in 0..(d - 1)
      BY <1>5, <2>2
    <3>2. cell(q, p) = cell(r, c)
      <4>1. x = cell(q, p)
        BY <1>16, <2>3
      <4>2. QED
        BY <2>1, <4>1
    <3> HIDE DEF r, c, q, p
    <3>3. q = r /\ p = c
      BY <1>6, <3>1, <3>2
    <3>4. ty(u) = ty(t) /\ tx(u) = tx(t)
      BY <3>3 DEF r, c, q, p
    <3>5. (ty(u) * d) + tx(u) = u /\ (ty(t) * d) + tx(t) = t
      BY <1>5
    <3>6. QED
      BY <3>4, <3>5
  <2>4. x \in 0..((d * (d + 1)) - 1)
    BY <1>6, <2>1, <2>2
  <2>5. QED
    BY <1>15, <2>1, <2>3, <2>4
<1>18. ASSUME NEW g \in Groups(k), NEW t \in Threads(k), NEW a, NEW x, Touches(W[g][t], a, x)
       PROVE  /\ a \in DOMAIN Fresh(k) /\ OfDevice(k, a) /\ x \in DOMAIN Fresh(k)[a]
              /\ \A h \in Groups(k), u \in Threads(k) : Touches(W[h][u], a, x) => h = g /\ u = t
  <2>1. a = "output" /\ x = put(across(g, t), down(g, t)) /\ across(g, t) < cols /\ down(g, t) < rows
    BY <1>13, <1>18
  <2>2. across(g, t) \in 0..(cols - 1) /\ down(g, t) \in 0..(rows - 1)
    BY <1>11, <2>1
  <2>3. ASSUME NEW h \in Groups(k), NEW u \in Threads(k), Touches(W[h][u], a, x)
        PROVE  h = g /\ u = t
    <3>1. x = put(across(h, u), down(h, u)) /\ across(h, u) < cols /\ down(h, u) < rows
      BY <1>13, <2>3
    <3>2. across(h, u) \in 0..(cols - 1) /\ down(h, u) \in 0..(rows - 1)
      BY <1>11, <3>1
    <3>3. across(h, u) = across(g, t) /\ down(h, u) = down(g, t)
      <4> DEFINE w == across(h, u)
                 y == down(h, u)
                 v == across(g, t)
                 z == down(g, t)
      <4>1. w \in 0..(cols - 1) /\ y \in 0..(rows - 1) /\ v \in 0..(cols - 1) /\ z \in 0..(rows - 1) /\ put(w, y) = put(v, z)
        BY <2>1, <2>2, <3>1, <3>2
      <4> HIDE DEF w, y, v, z
      <4>2. w = v /\ y = z
        BY <1>7, <4>1
      <4>3. QED
        BY <4>2 DEF w, y, v, z
    <3>4. /\ gx(g) \in 0..(C - 1) /\ gy(g) \in 0..(B - 1) /\ tx(t) \in 0..(d - 1) /\ ty(t) \in 0..(d - 1)
          /\ gx(h) \in 0..(C - 1) /\ gy(h) \in 0..(B - 1) /\ tx(u) \in 0..(d - 1) /\ ty(u) \in 0..(d - 1)
      BY <1>4, <1>5
    <3>5. gx(h) = gx(g) /\ ty(u) = ty(t)
      BY <1>9, <3>3, <3>4 DEF across
    <3>6. gy(h) = gy(g) /\ tx(u) = tx(t)
      BY <1>10, <3>3, <3>4 DEF down
    <3>7. (ty(u) * d) + tx(u) = u /\ (ty(t) * d) + tx(t) = t /\ (gy(g) * C) + gx(g) = g /\ (gy(h) * C) + gx(h) = h
      BY <1>4, <1>5
    <3>8. QED
      BY <3>5, <3>6, <3>7
  <2>4. x \in 0..((rows * cols) - 1)
    BY <1>7, <2>1, <2>2
  <2>5. QED
    BY <1>1, <1>15, <2>1, <2>3, <2>4
<1>19. ASSUME NEW g \in Groups(k), NEW v, Early(k, R, W, g, v)
       PROVE  \A i \in 0..((rows * cols) - 1) : v["input"][i] = A["input"][i]
  <2> SUFFICES ASSUME NEW i \in 0..((rows * cols) - 1)
               PROVE  v["input"][i] = A["input"][i]
    OBVIOUS
  <2>1. "input" \in DOMAIN A /\ i \in DOMAIN A["input"]
    BY <1>1 DEF Numbers
  <2>2. "input" \in DOMAIN v /\ i \in DOMAIN v["input"] /\ Fresh(k)["input"][i] = A["input"][i]
    BY <1>15, <1>19, <2>1 DEF Early, Shaped
  <2>3. ~Held(k, R, W, g, "input", i)
    BY <1>16 DEF Held
  <2>4. QED
    BY <1>19, <2>2, <2>3 DEF Early
<1>20. ASSUME NEW g \in Groups(k), NEW t \in Threads(k), NEW i, NEW v
       PROVE  /\ i = Run("read") => ElementEffect(k, g, i, t, v) =
                   IF rrow(g, t) < rows /\ rcol(g, t) < cols THEN Put("tile", cell(ty(t), tx(t)), v.input[from(rrow(g, t), rcol(g, t))])
                   ELSE Nothing
              /\ i = Run("write") => ElementEffect(k, g, i, t, v) =
                   IF across(g, t) < cols /\ down(g, t) < rows
                   THEN Put("output", put(across(g, t), down(g, t)), v.tile[cell(tx(t), ty(t))]) ELSE Nothing
  <2>1. ElementEffect(k, g, i, t, v) = Transpose(k, g, i, t, v)
    BY <1>1 DEF ElementEffect
  <2>2. (i = Run("read") => i.do = "read") /\ (i = Run("write") => i.do = "write")
    BY DEF Run
  <2>3. QED
    BY <2>1, <2>2 DEF Transpose, gx, gy, tx, ty, C, d, rows, cols, across, down, rrow, rcol, cell, put, from
<1>21. ASSUME NEW g \in Groups(k), NEW t \in Threads(k)
       PROVE  Code(k, g, t)[1] = Run("read") /\ Code(k, g, t)[3] = Run("write")
  BY <1>1 DEF TransposeCode
<1>22. ASSUME NEW g \in Groups(k), NEW t \in Threads(k), NEW v, Early(k, R, W, g, v)
       PROVE  Effect(k, g, Code(k, g, t)[1], t, v) = R[g][t]
  <2>1. Effect(k, g, Code(k, g, t)[1], t, v) =
          IF rrow(g, t) < rows /\ rcol(g, t) < cols THEN Put("tile", cell(ty(t), tx(t)), v.input[from(rrow(g, t), rcol(g, t))])
          ELSE Nothing
    BY <1>20, <1>21 DEF Runs
  <2>2. rrow(g, t) < rows /\ rcol(g, t) < cols => from(rrow(g, t), rcol(g, t)) \in 0..((rows * cols) - 1)
    BY <1>8, <1>11
  <2>3. QED
    BY <1>14, <1>19, <1>22, <2>1, <2>2
<1>23. ASSUME NEW g \in Groups(k), NEW t \in Threads(k), NEW v, Late(k, R, W, g, v)
       PROVE  Effect(k, g, Code(k, g, t)[3], t, v) = W[g][t]
  <2>1. Effect(k, g, Code(k, g, t)[3], t, v) =
          IF across(g, t) < cols /\ down(g, t) < rows
          THEN Put("output", put(across(g, t), down(g, t)), v.tile[cell(tx(t), ty(t))]) ELSE Nothing
    BY <1>20, <1>21 DEF Runs
  <2>2. ASSUME across(g, t) < cols, down(g, t) < rows
        PROVE  v.tile[cell(tx(t), ty(t))] = A.input[from(down(g, t), across(g, t))]
    <3>1. tx(t) \in 0..(d - 1) /\ ty(t) \in 0..(d - 1)
      BY <1>5
    <3>2. PICK u \in Threads(k) : ty(u) = tx(t) /\ tx(u) = ty(t)
      BY <1>5, <3>1
    <3>3. rrow(g, u) = down(g, t) /\ rcol(g, u) = across(g, t)
      BY <3>2 DEF rrow, rcol, across, down
    <3>4. Touches(R[g][u], "tile", cell(tx(t), ty(t)))
      BY <1>12, <2>2, <3>2, <3>3
    <3>5. R[g][u]["tile"][cell(tx(t), ty(t))] = A.input[from(down(g, t), across(g, t))]
      BY <1>12, <3>3, <3>4
    <3>6. QED
      BY <1>23, <3>4, <3>5 DEF Late
  <2>3. QED
    BY <1>14, <2>1, <2>2
<1>24. ASSUME NEW a \in DOMAIN Wants(k), NEW x \in DOMAIN Wants(k)[a]
       PROVE  /\ Wants(k)[a][x] # NaN
              /\ \E g \in Groups(k), t \in Threads(k) : Touches(W[g][t], a, x) /\ W[g][t][a][x] = Wants(k)[a][x]
  <2>1. a = "output" /\ x \in 0..((rows * cols) - 1) /\ Wants(k)[a][x] = Promised(k, A, "output", x)
    BY <1>1 DEF ElementWantOf, ElementOutputs
  <2>2. PICK w \in 0..(cols - 1), y \in 0..(rows - 1) : put(w, y) = x
    BY <1>7, <2>1
  <2>3. PICK p \in 0..(C - 1), r \in 0..(d - 1) : (p * d) + r = w
    BY <1>9
  <2>4. PICK q \in 0..(B - 1), s \in 0..(d - 1) : (q * d) + s = y
    BY <1>10
  <2>5. PICK g \in Groups(k) : gy(g) = q /\ gx(g) = p
    BY <1>4
  <2>6. PICK t \in Threads(k) : ty(t) = r /\ tx(t) = s
    BY <1>5
  <2>7. across(g, t) = w /\ down(g, t) = y
    BY <2>3, <2>4, <2>5, <2>6 DEF across, down
  <2>8. w < cols /\ y < rows
    BY <1>1
  <2>9. Touches(W[g][t], a, x) /\ W[g][t][a][x] = A.input[from(y, w)]
    BY <1>13, <2>1, <2>2, <2>7, <2>8
  <2>10. Promised(k, A, "output", x) = A.input[(Col(x, k.rows) * k.cols) + Row(x, k.rows)]
    BY <1>1 DEF Promised
  <2>11. Row(x, rows) = w /\ Col(x, rows) = y
    BY <1>7, <2>2
  <2>12. Promised(k, A, "output", x) = A.input[from(y, w)]
    BY <2>10, <2>11 DEF rows, cols, from
  <2>13. A.input[from(y, w)] # NaN
    <3>1. from(y, w) \in 0..((rows * cols) - 1)
      BY <1>8
    <3>2. QED
      BY <1>1, <3>1 DEF Numbers
  <2>14. QED
    BY <2>1, <2>9, <2>12, <2>13
<1>25. InTwo(k)
  <2>1. TransposeCode = <<Run("read"), Barrier, Run("write")>>
    BY DEF TransposeCode
  <2>2. Run("read").kind = "run" /\ Run("write").kind = "run" /\ Barrier.kind = "barrier" /\ "tg" \in Barrier.orders
    BY DEF Run, Barrier
  <2>3. QED
    BY <1>1, <2>1, <2>2 DEF InTwo
<1>26. TwoStep(k, R, W)
  <2>1. ASSUME NEW g \in Groups(k), NEW t \in Threads(k)
        PROVE  /\ \A a, x : Touches(R[g][t], a, x) =>
                    /\ a \in DOMAIN Fresh(k) /\ ~OfDevice(k, a) /\ x \in DOMAIN Fresh(k)[a]
                    /\ \A u \in Threads(k) : Touches(R[g][u], a, x) => u = t
               /\ \A a, x : Touches(W[g][t], a, x) =>
                    /\ a \in DOMAIN Fresh(k) /\ OfDevice(k, a) /\ x \in DOMAIN Fresh(k)[a]
                    /\ \A h \in Groups(k), u \in Threads(k) : Touches(W[h][u], a, x) => h = g /\ u = t
               /\ \A v : Early(k, R, W, g, v) => Effect(k, g, Code(k, g, t)[1], t, v) = R[g][t]
               /\ \A v : Late(k, R, W, g, v) => Effect(k, g, Code(k, g, t)[3], t, v) = W[g][t]
    <3>1. \A a, x : Touches(R[g][t], a, x) =>
            /\ a \in DOMAIN Fresh(k) /\ ~OfDevice(k, a) /\ x \in DOMAIN Fresh(k)[a]
            /\ \A u \in Threads(k) : Touches(R[g][u], a, x) => u = t
      BY <1>17
    <3>2. \A a, x : Touches(W[g][t], a, x) =>
            /\ a \in DOMAIN Fresh(k) /\ OfDevice(k, a) /\ x \in DOMAIN Fresh(k)[a]
            /\ \A h \in Groups(k), u \in Threads(k) : Touches(W[h][u], a, x) => h = g /\ u = t
      BY <1>18
    <3>3. \A v : Early(k, R, W, g, v) => Effect(k, g, Code(k, g, t)[1], t, v) = R[g][t]
      BY <1>22
    <3>4. \A v : Late(k, R, W, g, v) => Effect(k, g, Code(k, g, t)[3], t, v) = W[g][t]
      BY <1>23
    <3>5. QED
      BY <3>1, <3>2, <3>3, <3>4
  <2>2. \A a \in DOMAIN Wants(k) : \A x \in DOMAIN Wants(k)[a] :
          /\ Wants(k)[a][x] = NaN => k.poison
          /\ \E g \in Groups(k), t \in Threads(k) : Touches(W[g][t], a, x) /\ W[g][t][a][x] = Wants(k)[a][x]
    BY <1>24
  <2>3. Distinct(k)
    BY <1>1
  <2>4. QED
    BY <1>25, <2>1, <2>2, <2>3, Zenon DEF TwoStep
<1>27. 0 \in Threads(k)
  BY KernelAssumption DEF Threads
<1>28. QED
  BY <1>26, <1>27, TwoStepOrderless

\* The transpose of any matrix through tiles of any size keeps its promise in every
\* interleaving: the barrier between the threads that fill a tile and those that read it
\* back is enough.
THEOREM TransposeTiledRight == Spec => [](Tiled(kernel) /\ Runs(kernel) => InBounds /\ OutputsRight)
<1>1. IInv => kernel \in Kernels
  BY DEF IInv
<1>2. IInv => (Tiled(kernel) /\ Runs(kernel) => Orderless(kernel))
  BY <1>1, TransposeRight
<1>3. Spec => []IInv
  BY Invariance
<1>4. QED
  BY <1>2, <1>3, OrderlessRight, PTL
==============================================================================

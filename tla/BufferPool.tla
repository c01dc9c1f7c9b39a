------------------------------- MODULE BufferPool -------------------------------
(***************************************************************************)
(* The pool of Metal buffers shared by every thread of a process           *)
(* (buffer_pool.py).  A free list is looked into and then popped, measured *)
(* and then appended to, without a lock: between the two, other threads    *)
(* may pop and append.  Buffers of a launch that fails are not released:   *)
(* they are garbage once it has unwound.                                   *)
(***************************************************************************)
EXTENDS Naturals, Sequences, FiniteSets

CONSTANTS
  Threads,  \* threads that launch
  Buffers,  \* Metal buffers that can be alive at once
  Lists,    \* free lists: one per size class, one per scalar size
  Scalars,  \* those of scalars
  Cap,      \* Cap[l]: _max_per_class or _max_scalars
  None

ASSUME ListAssumption ==
  /\ IsFiniteSet(Threads)
  /\ Cap \in [Lists -> Nat \ {0}]
  /\ None \notin Lists \cup Buffers

VARIABLES
  free,    \* free[l]: the free list, popped from its end
  list,    \* list[b]: the list that buffer b is of, None when there is no b
  mapped,  \* buffers over memory that the pool may keep (all but fallback ones)
  held,    \* held[t]: buffers that t's launch has acquired and not released
  at,      \* at[t]: t's place in acquire or release
  wants,   \* wants[t]: the list it acquires from, or None
  gives    \* gives[t]: the buffer it is about to append, or None

pool == <<free, list, mapped, held, at, wants, gives>>

Places == {"out", "pop", "map", "append"}

PoolInit ==
  /\ free = [l \in Lists |-> <<>>]
  /\ list = [b \in Buffers |-> None]
  /\ mapped = {}
  /\ held = [t \in Threads |-> {}]
  /\ at = [t \in Threads |-> "out"]
  /\ wants = [t \in Threads |-> None]
  /\ gives = [t \in Threads |-> None]

\* The buffers of B become garbage, and their memory is closed.
Forget(B) ==
  /\ list' = [b \in Buffers |-> IF b \in B THEN None ELSE list[b]]
  /\ mapped' = mapped \ B

\* t's launch raises.
Unwind(t) ==
  /\ Forget(held[t])
  /\ held' = [held EXCEPT ![t] = {}]
  /\ at' = [at EXCEPT ![t] = "out"]
  /\ wants' = [wants EXCEPT ![t] = None]
  /\ gives' = [gives EXCEPT ![t] = None]
  /\ UNCHANGED free

\* acquire and acquire_scalar: "if free_list".
Look(t, l) ==
  /\ at[t] = "out"
  /\ at' = [at EXCEPT ![t] = IF free[l] = <<>> THEN "map" ELSE "pop"]
  /\ wants' = [wants EXCEPT ![t] = l]
  /\ UNCHANGED <<free, list, mapped, held, gives>>

\* t has acquired b.
Take(t, b) ==
  /\ held' = [held EXCEPT ![t] = @ \cup {b}]
  /\ at' = [at EXCEPT ![t] = "out"]
  /\ wants' = [wants EXCEPT ![t] = None]
  /\ UNCHANGED gives

\* Mutant: the last entry is read and stays in the list.
PeekLast(t) ==
  LET l == wants[t] IN
  /\ at[t] = "pop"
  /\ free[l] # <<>>
  /\ Take(t, free[l][Len(free[l])])
  /\ UNCHANGED <<free, list, mapped>>

Pop(t) ==
  LET l == wants[t]
      n == Len(free[l]) IN
  /\ at[t] = "pop"
  /\ free[l] # <<>>
  /\ Take(t, free[l][n])
  /\ free' = [free EXCEPT ![l] = SubSeq(@, 1, n - 1)]
  /\ UNCHANGED <<list, mapped>>

\* Another thread has emptied the list: pop raises IndexError.
PopEmpty(t) ==
  /\ at[t] = "pop"
  /\ free[wants[t]] = <<>>
  /\ Unwind(t)

\* A new buffer over an anonymous mapping, or (not for scalars) one that Metal
\* allocates because it refused the mapping: the pool will not keep that one.
Map(t) ==
  /\ at[t] = "map"
  /\ \E b \in Buffers :
       /\ list[b] = None
       /\ Take(t, b)
       /\ list' = [list EXCEPT ![b] = wants[t]]
       /\ \/ mapped' = mapped \cup {b}
          \/ wants[t] \notin Scalars /\ UNCHANGED mapped
  /\ UNCHANGED free

\* MemoryError.
MapFails(t) == at[t] = "map" /\ Unwind(t)

\* Mutant: a closed mapping is still taken for one the pool may keep.
OfferUnmapped(t, b) ==
  /\ at[t] = "out"
  /\ b \in held[t]
  /\ \/ /\ b \in mapped
        /\ Len(free[list[b]]) < Cap[list[b]]
        /\ at' = [at EXCEPT ![t] = "append"]
        /\ gives' = [gives EXCEPT ![t] = b]
        /\ UNCHANGED <<free, list, mapped, held, wants>>
     \/ /\ b \in mapped => Len(free[list[b]]) >= Cap[list[b]]
        /\ list' = [list EXCEPT ![b] = None]
        /\ held' = [held EXCEPT ![t] = @ \ {b}]
        /\ UNCHANGED <<free, mapped, at, wants, gives>>

\* Mutant: the length is not compared with the cap.
OfferAlways(t, b) ==
  /\ at[t] = "out"
  /\ b \in held[t]
  /\ b \in mapped
  /\ at' = [at EXCEPT ![t] = "append"]
  /\ gives' = [gives EXCEPT ![t] = b]
  /\ UNCHANGED <<free, list, mapped, held, wants>>

\* release and release_scalar: a buffer that may be kept and whose list is short.
Offer(t, b) ==
  /\ at[t] = "out"
  /\ b \in held[t]
  /\ \/ /\ b \in mapped
        /\ Len(free[list[b]]) < Cap[list[b]]
        /\ at' = [at EXCEPT ![t] = "append"]
        /\ gives' = [gives EXCEPT ![t] = b]
        /\ UNCHANGED <<free, list, mapped, held, wants>>
     \/ /\ b \in mapped => Len(free[list[b]]) >= Cap[list[b]]
        /\ Forget({b})
        /\ held' = [held EXCEPT ![t] = @ \ {b}]
        /\ UNCHANGED <<free, at, wants, gives>>

Keep(t) ==
  LET b == gives[t] IN
  /\ at[t] = "append"
  /\ free' = [free EXCEPT ![list[b]] = Append(@, b)]
  /\ held' = [held EXCEPT ![t] = @ \ {b}]
  /\ at' = [at EXCEPT ![t] = "out"]
  /\ gives' = [gives EXCEPT ![t] = None]
  /\ UNCHANGED <<list, mapped, wants>>

\* Anything else in the launch raises.
Raise(t) == at[t] = "out" /\ Unwind(t)

PoolNext ==
  \E t \in Threads :
    \/ \E l \in Lists : Look(t, l)
    \/ Pop(t) \/ PopEmpty(t) \/ Map(t) \/ MapFails(t)
    \/ \E b \in Buffers : Offer(t, b)
    \/ Keep(t) \/ Raise(t)

PoolSpec == PoolInit /\ [][PoolNext]_pool

--------------------------------------------------------------------------------

\* The shape of the state; only buffers that exist are over the pool's memory.
PoolTypeOK ==
  /\ free \in [Lists -> Seq(Buffers)]
  /\ list \in [Buffers -> Lists \cup {None}]
  /\ mapped \in SUBSET {b \in Buffers : list[b] # None}
  /\ held \in [Threads -> SUBSET Buffers]
  /\ at \in [Threads -> Places]
  /\ wants \in [Threads -> Lists \cup {None}]
  /\ gives \in [Threads -> Buffers \cup {None}]

\* A buffer is in at most one place, one entry of one free list or one launch,
\* and it is of the size of its list (acquire, release): no two launches write
\* the same mirror.
Exclusive ==
  /\ \A t, u \in Threads : t # u => held[t] \cap held[u] = {}
  /\ \A l \in Lists : \A i \in 1 .. Len(free[l]) :
       /\ list[free[l][i]] = l
       /\ \A t \in Threads : free[l][i] \notin held[t]
       /\ \A j \in 1 .. Len(free[l]) : free[l][j] = free[l][i] => j = i

\* "Max buffers per size class to prevent unbounded growth": threads that measure
\* a list together can exceed its cap, each by one buffer at most.
Bounded == \A l \in Lists : Len(free[l]) < Cap[l] + Cardinality(Threads)
=================================================================================

---------------------------- MODULE HostRoute_proof ----------------------------
(***************************************************************************)
(* The pool gives a buffer to one thread at a time and bounds its lists,   *)
(* for any number of threads, buffers and lists.  The host route uses the  *)
(* pool as BufferPool allows, keeps the shape of its state, and, when the  *)
(* storages of a launch are equal or disjoint, preserves the semantics of  *)
(* pointers: with the mirrors, the aliases and the offsets of              *)
(* MetalLauncher.__call__ a launch leaves in memory what its stores, in    *)
(* their order, make of it.                                                *)
(***************************************************************************)
EXTENDS HostRoute, FiniteSetTheorems, TLAPS

--------------------------------------------------------------------------------
\* The pool.

\* A thread between two steps of the pool knows what it is doing there.
PlaceOK ==
  \A t \in Threads :
    /\ at[t] \in {"pop", "map"} => wants[t] \in Lists
    /\ at[t] = "append" => gives[t] \in held[t]

\* Buffers of a launch exist.
HeldOK == \A t \in Threads : \A b \in held[t] : list[b] # None

\* Threads that have found list l short and are about to append to it.
Appending(l) == {t \in Threads : at[t] = "append" /\ list[gives[t]] = l}

\* Whoever appends found the list short: at that moment there was room for every
\* thread but one, and appending moves a thread out of Appending and into the list.
Room == \A l \in Lists : Len(free[l]) + Cardinality(Appending(l)) < Cap[l] + Cardinality(Threads)

IInv == PoolTypeOK /\ PlaceOK /\ HeldOK /\ Exclusive /\ Room

--------------------------------------------------------------------------------

LEMMA AppendingFinite ==
  \A l : IsFiniteSet(Appending(l)) /\ Cardinality(Appending(l)) \in Nat
         /\ Cardinality(Appending(l)) <= Cardinality(Threads)
         /\ Cardinality(Threads) \in Nat
<1> TAKE l
<1>1. Appending(l) \subseteq Threads
  BY DEF Appending
<1>2. QED
  BY <1>1, ListAssumption, FS_Subset, FS_CardinalityType

\* Room survives a step after which no list is longer and none has more threads
\* about to append.
LEMMA RoomFrame ==
  ASSUME IInv, PoolTypeOK',
         \A l \in Lists : Len(free'[l]) <= Len(free[l]) /\ Appending(l)' \subseteq Appending(l)
  PROVE  Room'
<1> SUFFICES ASSUME NEW l \in Lists
             PROVE  Len(free'[l]) + Cardinality(Appending(l)') < Cap[l] + Cardinality(Threads)
  BY DEF Room
<1>1. Cardinality(Appending(l)') <= Cardinality(Appending(l)) /\ Cardinality(Appending(l)') \in Nat
  BY AppendingFinite, FS_Subset, FS_CardinalityType
<1>2. Len(free[l]) + Cardinality(Appending(l)) < Cap[l] + Cardinality(Threads)
  BY DEF IInv, Room
<1>3. Len(free[l]) \in Nat /\ Len(free'[l]) \in Nat /\ Cap[l] \in Nat
  BY ListAssumption DEF IInv, PoolTypeOK
<1>4. QED
  BY <1>1, <1>2, <1>3, AppendingFinite

LEMMA InitIInv == PoolInit => IInv
<1> SUFFICES ASSUME PoolInit PROVE IInv
  OBVIOUS
<1> USE DEF PoolInit
<1>1. PoolTypeOK
  BY DEF PoolTypeOK, Places
<1>2. PlaceOK /\ HeldOK /\ Exclusive
  BY DEF PlaceOK, HeldOK, Exclusive
<1>3. Room
  <2> SUFFICES ASSUME NEW l \in Lists
               PROVE  Len(free[l]) + Cardinality(Appending(l)) < Cap[l] + Cardinality(Threads)
    BY DEF Room
  <2>1. Len(free[l]) = 0 /\ Cap[l] \in Nat \ {0}
    BY ListAssumption
  <2>2. QED
    BY <2>1, AppendingFinite
<1>4. QED
  BY <1>1, <1>2, <1>3 DEF IInv

LEMMA UnwindIInv ==
  ASSUME IInv, NEW t \in Threads, Unwind(t)
  PROVE  IInv'
<1> USE DEF Unwind, Forget
<1>1. PoolTypeOK'
  BY DEF IInv, PoolTypeOK, Places
<1>2. PlaceOK' /\ HeldOK'
  BY DEF IInv, PoolTypeOK, PlaceOK, HeldOK, Exclusive
<1>3. Exclusive'
  <2>1. \A l \in Lists : \A i \in 1 .. Len(free[l]) : free[l][i] \in Buffers
    BY DEF IInv, PoolTypeOK
  <2>2. QED
    BY <2>1 DEF IInv, PoolTypeOK, Exclusive
<1>4. Room'
  <2>1. \A u \in Threads : at'[u] = "append" => at[u] = "append" /\ list'[gives'[u]] = list[gives[u]]
    BY DEF IInv, PoolTypeOK, PlaceOK, Exclusive
  <2>2. QED
    BY <1>1, <2>1, RoomFrame DEF Appending, IInv, PoolTypeOK
<1>5. QED
  BY <1>1, <1>2, <1>3, <1>4 DEF IInv

LEMMA LookIInv ==
  ASSUME IInv, NEW t \in Threads, NEW l \in Lists, Look(t, l)
  PROVE  IInv'
<1> USE DEF Look
<1>1. PoolTypeOK'
  BY DEF IInv, PoolTypeOK, Places
<1>2. PlaceOK' /\ HeldOK' /\ Exclusive'
  BY <1>1 DEF IInv, PoolTypeOK, PlaceOK, HeldOK, Exclusive
<1>3. Room'
  BY <1>1, RoomFrame DEF Appending, IInv, PoolTypeOK
<1>4. QED
  BY <1>1, <1>2, <1>3 DEF IInv

LEMMA PopIInv ==
  ASSUME IInv, NEW t \in Threads, Pop(t)
  PROVE  IInv'
<1> DEFINE l == wants[t]
           n == Len(free[l])
           b == free[l][n]
<1>1. /\ l \in Lists /\ free[l] \in Seq(Buffers) /\ n \in Nat \ {0}
      /\ b \in Buffers /\ list[b] = l
      /\ \A u \in Threads : b \notin held[u]
  BY DEF Pop, IInv, PoolTypeOK, PlaceOK, Exclusive
<1>2. /\ free' = [free EXCEPT ![l] = SubSeq(free[l], 1, n - 1)]
      /\ held' = [held EXCEPT ![t] = held[t] \cup {b}]
      /\ at' = [at EXCEPT ![t] = "out"]
      /\ wants' = [wants EXCEPT ![t] = None]
      /\ UNCHANGED <<gives, list, mapped>>
  BY DEF Pop, Take
<1>3. /\ SubSeq(free[l], 1, n - 1) \in Seq(Buffers)
      /\ Len(SubSeq(free[l], 1, n - 1)) = n - 1
      /\ \A i \in 1 .. n - 1 : SubSeq(free[l], 1, n - 1)[i] = free[l][i]
  BY <1>1
<1> HIDE DEF l, n, b
<1>4. PoolTypeOK'
  BY <1>1, <1>2, <1>3 DEF IInv, PoolTypeOK, Places
<1>5. PlaceOK' /\ HeldOK'
  BY <1>1, <1>2, ListAssumption DEF IInv, PoolTypeOK, PlaceOK, HeldOK
<1>6. ASSUME NEW k \in Lists
      PROVE  /\ Len(free'[k]) \in Nat /\ Len(free'[k]) <= Len(free[k])
             /\ \A i \in 1 .. Len(free'[k]) : i \in 1 .. Len(free[k]) /\ free'[k][i] = free[k][i]
             /\ \A i \in 1 .. Len(free'[k]) : free'[k][i] # b
  <2>1. CASE k # l
    <3>1. free'[k] = free[k]
      BY <1>2, <2>1 DEF IInv, PoolTypeOK
    <3>2. \A i \in 1 .. Len(free[k]) : list[free[k][i]] = k
      BY DEF IInv, Exclusive
    <3>3. QED
      BY <3>1, <3>2, <2>1, <1>1 DEF IInv, PoolTypeOK
  <2>2. CASE k = l
    <3>1. free'[k] = SubSeq(free[l], 1, n - 1)
      BY <1>1, <1>2, <2>2 DEF IInv, PoolTypeOK
    <3>2. \A i \in 1 .. n : free[l][i] = b => i = n
      BY <1>1 DEF IInv, Exclusive, b, n
    <3>3. Len(free[k]) = n
      BY <2>2 DEF n
    <3>4. QED
      BY <3>1, <3>2, <3>3, <1>1, <1>3, <2>2
  <2>3. QED
    BY <2>1, <2>2
<1>7. Exclusive'
  <2>1. \A u \in Threads : held'[u] = IF u = t THEN held[t] \cup {b} ELSE held[u]
    BY <1>2 DEF IInv, PoolTypeOK
  <2>2. \A u, v \in Threads : u # v => held'[u] \cap held'[v] = {}
    BY <2>1, <1>1 DEF IInv, Exclusive
  <2>3. ASSUME NEW k \in Lists, NEW i \in 1 .. Len(free'[k])
        PROVE  /\ list'[free'[k][i]] = k
               /\ \A u \in Threads : free'[k][i] \notin held'[u]
               /\ \A j \in 1 .. Len(free'[k]) : free'[k][j] = free'[k][i] => j = i
    <3>1. /\ i \in 1 .. Len(free[k]) /\ free'[k][i] = free[k][i] /\ free[k][i] # b
          /\ \A j \in 1 .. Len(free'[k]) : j \in 1 .. Len(free[k]) /\ free'[k][j] = free[k][j]
      BY <1>6
    <3>2. /\ list[free[k][i]] = k
          /\ \A u \in Threads : free[k][i] \notin held[u]
          /\ \A j \in 1 .. Len(free[k]) : free[k][j] = free[k][i] => j = i
      BY <3>1 DEF IInv, Exclusive
    <3>3. list'[free'[k][i]] = k
      BY <1>2, <3>1, <3>2
    <3>4. \A u \in Threads : free'[k][i] \notin held'[u]
      BY <2>1, <3>1, <3>2
    <3>5. \A j \in 1 .. Len(free'[k]) : free'[k][j] = free'[k][i] => j = i
      BY <3>1, <3>2
    <3>6. QED
      BY <3>3, <3>4, <3>5
  <2>4. QED
    BY <2>2, <2>3 DEF Exclusive
<1>8. Room'
  BY <1>2, <1>4, <1>6, RoomFrame DEF Appending, IInv, PoolTypeOK
<1>9. QED
  BY <1>4, <1>5, <1>7, <1>8 DEF IInv

LEMMA MapIInv ==
  ASSUME IInv, NEW t \in Threads, Map(t)
  PROVE  IInv'
<1>1. PICK b \in Buffers :
        /\ list[b] = None
        /\ Take(t, b)
        /\ list' = [list EXCEPT ![b] = wants[t]]
        /\ mapped' = mapped \cup {b} \/ UNCHANGED mapped
        /\ UNCHANGED free
  BY DEF Map
<1>2. at[t] = "map" /\ wants[t] \in Lists
  BY DEF Map, IInv, PlaceOK
<1>3. /\ \A u \in Threads : b \notin held[u]
      /\ \A l \in Lists : \A i \in 1 .. Len(free[l]) : free[l][i] # b
  BY <1>1, ListAssumption DEF IInv, HeldOK, Exclusive
<1>4. PoolTypeOK'
  BY <1>1, <1>2, ListAssumption DEF Take, IInv, PoolTypeOK, Places
<1>5. PlaceOK' /\ HeldOK'
  BY <1>1, <1>2, ListAssumption DEF Take, IInv, PoolTypeOK, PlaceOK, HeldOK
<1>6. Exclusive'
  <2>1. \A u \in Threads : held'[u] = IF u = t THEN held[t] \cup {b} ELSE held[u]
    BY <1>1 DEF Take, IInv, PoolTypeOK
  <2>2. \A l \in Lists : \A i \in 1 .. Len(free[l]) : list'[free[l][i]] = list[free[l][i]]
    BY <1>1, <1>3 DEF IInv, PoolTypeOK
  <2>3. QED
    BY <1>1, <1>3, <2>1, <2>2 DEF IInv, Exclusive
<1>7. Room'
  <2>1. \A u \in Threads : at'[u] = "append" => at[u] = "append" /\ list'[gives'[u]] = list[gives[u]]
    BY <1>1, <1>2, <1>3 DEF Take, IInv, PoolTypeOK, PlaceOK
  <2>2. QED
    BY <1>1, <1>4, <2>1, RoomFrame DEF Appending, IInv, PoolTypeOK
<1>8. QED
  BY <1>4, <1>5, <1>6, <1>7 DEF IInv

\* A buffer that the pool does not take is garbage.
LEMMA OfferIInv ==
  ASSUME IInv, NEW t \in Threads, NEW b \in Buffers, Offer(t, b)
  PROVE  IInv'
<1>1. at[t] = "out" /\ b \in held[t]
  BY DEF Offer
<1>2. CASE /\ b \in mapped
           /\ Len(free[list[b]]) < Cap[list[b]]
           /\ at' = [at EXCEPT ![t] = "append"]
           /\ gives' = [gives EXCEPT ![t] = b]
           /\ UNCHANGED <<free, list, mapped, held, wants>>
  <2>1. PoolTypeOK'
    BY <1>2 DEF IInv, PoolTypeOK, Places
  <2>2. PlaceOK' /\ HeldOK' /\ Exclusive'
    BY <1>1, <1>2 DEF IInv, PoolTypeOK, PlaceOK, HeldOK, Exclusive
  <2>3. Room'
    <3> SUFFICES ASSUME NEW l \in Lists
                 PROVE  Len(free'[l]) + Cardinality(Appending(l)') < Cap[l] + Cardinality(Threads)
      BY DEF Room
    <3>1. CASE l = list[b]
      <4>1. Appending(l)' \subseteq Threads
        BY DEF Appending
      <4>2. Cardinality(Appending(l)') <= Cardinality(Threads) /\ Cardinality(Appending(l)') \in Nat
        BY <4>1, ListAssumption, FS_Subset, FS_CardinalityType
      <4>3. Len(free'[l]) \in Nat /\ Len(free'[l]) < Cap[l] /\ Cap[l] \in Nat
        BY <1>2, <3>1, ListAssumption DEF IInv, PoolTypeOK
      <4>4. Cardinality(Threads) \in Nat
        BY ListAssumption, FS_CardinalityType
      <4>5. QED
        BY <4>2, <4>3, <4>4
    <3>2. CASE l # list[b]
      <4>1. Appending(l)' = Appending(l)
        BY <1>1, <1>2, <3>2 DEF Appending, IInv, PoolTypeOK
      <4>2. QED
        BY <1>2, <4>1 DEF IInv, Room
    <3>3. QED
      BY <3>1, <3>2
  <2>4. QED
    BY <2>1, <2>2, <2>3 DEF IInv
<1>3. CASE /\ Forget({b})
           /\ held' = [held EXCEPT ![t] = @ \ {b}]
           /\ UNCHANGED <<free, at, wants, gives>>
  <2> USE DEF Forget
  <2>1. PoolTypeOK'
    BY <1>3 DEF IInv, PoolTypeOK
  <2>2. \A u \in Threads : u # t => b \notin held[u]
    BY <1>1 DEF IInv, Exclusive
  <2>3. \A u \in Threads : held'[u] = IF u = t THEN held[t] \ {b} ELSE held[u]
    BY <1>3 DEF IInv, PoolTypeOK
  <2>4. PlaceOK' /\ HeldOK'
    BY <1>1, <1>3, <2>2, <2>3 DEF IInv, PoolTypeOK, PlaceOK, HeldOK
  <2>5. Exclusive'
    <3>1. \A l \in Lists : \A i \in 1 .. Len(free[l]) : free[l][i] \in Buffers /\ free[l][i] # b
      BY <1>1 DEF IInv, PoolTypeOK, Exclusive
    <3>2. \A c \in Buffers : c # b => list'[c] = list[c]
      BY <1>3 DEF IInv, PoolTypeOK
    <3>3. \A l \in Lists : \A i \in 1 .. Len(free[l]) : list'[free[l][i]] = list[free[l][i]]
      BY <3>1, <3>2
    <3>4. \A u \in Threads : held'[u] \subseteq held[u]
      BY <2>3
    <3>5. free' = free
      BY <1>3
    <3>6. QED
      BY <3>3, <3>4, <3>5 DEF IInv, Exclusive
  <2>6. Room'
    <3>1. at' = at /\ gives' = gives /\ free' = free
      BY <1>3
    <3>2. \A u \in Threads : at[u] = "append" => gives[u] \in Buffers /\ gives[u] # b
      BY <1>1, <2>2 DEF IInv, PoolTypeOK, PlaceOK
    <3>3. \A c \in Buffers : c # b => list'[c] = list[c]
      BY <1>3 DEF IInv, PoolTypeOK
    <3>4. \A l \in Lists : Appending(l)' \subseteq Appending(l)
      BY <3>1, <3>2, <3>3 DEF Appending
    <3>5. QED
      BY <2>1, <3>1, <3>4, RoomFrame DEF IInv, PoolTypeOK
  <2>7. QED
    BY <2>1, <2>4, <2>5, <2>6 DEF IInv
<1>4. QED
  BY <1>2, <1>3 DEF Offer

LEMMA KeepIInv ==
  ASSUME IInv, NEW t \in Threads, Keep(t)
  PROVE  IInv'
<1> DEFINE b == gives[t]
           l == list[b]
           n == Len(free[l])
<1>1. /\ at[t] = "append" /\ b \in held[t] /\ b \in Buffers
      /\ l \in Lists /\ free[l] \in Seq(Buffers) /\ n \in Nat
  BY DEF Keep, IInv, PoolTypeOK, PlaceOK, HeldOK
<1>2. /\ free' = [free EXCEPT ![l] = Append(free[l], b)]
      /\ held' = [held EXCEPT ![t] = held[t] \ {b}]
      /\ at' = [at EXCEPT ![t] = "out"]
      /\ gives' = [gives EXCEPT ![t] = None]
      /\ UNCHANGED <<list, mapped, wants>>
  BY DEF Keep
<1>3. /\ Append(free[l], b) \in Seq(Buffers)
      /\ Len(Append(free[l], b)) = n + 1
      /\ \A i \in 1 .. n + 1 : Append(free[l], b)[i] = IF i = n + 1 THEN b ELSE free[l][i]
  BY <1>1
<1>4. list[b] = l /\ n = Len(free[l])
  OBVIOUS
<1> HIDE DEF b, l, n
<1>5. /\ \A u \in Threads : u # t => b \notin held[u]
      /\ \A k \in Lists : \A i \in 1 .. Len(free[k]) : free[k][i] # b
  BY <1>1 DEF IInv, Exclusive
<1>6. PoolTypeOK'
  BY <1>1, <1>2, <1>3 DEF IInv, PoolTypeOK, Places
<1>7. \A u \in Threads : held'[u] = IF u = t THEN held[t] \ {b} ELSE held[u]
  BY <1>2 DEF IInv, PoolTypeOK
<1>8. PlaceOK' /\ HeldOK'
  BY <1>2, <1>7 DEF IInv, PoolTypeOK, PlaceOK, HeldOK
<1>9. \A k \in Lists : free'[k] = IF k = l THEN Append(free[l], b) ELSE free[k]
  BY <1>2 DEF IInv, PoolTypeOK
<1>10. Exclusive'
  <2>1. \A u, v \in Threads : u # v => held'[u] \cap held'[v] = {}
    BY <1>7 DEF IInv, Exclusive
  <2>2. ASSUME NEW k \in Lists, NEW i \in 1 .. Len(free'[k])
        PROVE  /\ list'[free'[k][i]] = k
               /\ \A u \in Threads : free'[k][i] \notin held'[u]
               /\ \A j \in 1 .. Len(free'[k]) : free'[k][j] = free'[k][i] => j = i
    <3>1. CASE k # l
      BY <1>2, <1>7, <1>9, <3>1 DEF IInv, Exclusive
    <3>2. CASE k = l
      <4>1. /\ free'[k] = Append(free[l], b)
            /\ Len(free'[k]) = n + 1
            /\ \A j \in 1 .. n + 1 : free'[k][j] = IF j = n + 1 THEN b ELSE free[l][j]
        BY <1>3, <1>9, <3>2
      <4>2. CASE i = n + 1
        BY <1>1, <1>2, <1>4, <1>5, <1>7, <3>2, <4>1, <4>2
      <4>3. CASE i # n + 1
        <5>1. i \in 1 .. Len(free[l]) /\ free'[k][i] = free[l][i] /\ free[l][i] # b
          BY <1>1, <1>4, <1>5, <4>1, <4>3
        <5>2. /\ list[free[l][i]] = l
              /\ \A u \in Threads : free[l][i] \notin held[u]
              /\ \A j \in 1 .. n : free[l][j] = free[l][i] => j = i
          BY <1>1, <1>4, <5>1 DEF IInv, Exclusive
        <5>3. \A j \in 1 .. n + 1 : j = n + 1 \/ j \in 1 .. n
          BY <1>1
        <5>4. QED
          BY <1>2, <1>7, <3>2, <4>1, <5>1, <5>2, <5>3
      <4>4. QED
        BY <4>2, <4>3
    <3>3. QED
      BY <3>1, <3>2
  <2>3. QED
    BY <2>1, <2>2 DEF Exclusive
<1>11. Room'
  <2> SUFFICES ASSUME NEW k \in Lists
               PROVE  Len(free'[k]) + Cardinality(Appending(k)') < Cap[k] + Cardinality(Threads)
    BY DEF Room
  <2>1. Len(free[k]) + Cardinality(Appending(k)) < Cap[k] + Cardinality(Threads)
    BY DEF IInv, Room
  <2>2. CASE k # l
    <3>1. Appending(k)' = Appending(k)
      BY <1>1, <1>2, <1>4, <2>2 DEF Appending, IInv, PoolTypeOK, b
    <3>2. QED
      BY <1>9, <2>1, <2>2, <3>1
  <2>3. CASE k = l
    <3>1. t \in Appending(k)
      BY <1>1, <1>4, <2>3 DEF Appending, b
    <3>2. Appending(k)' = Appending(k) \ {t}
      BY <1>2 DEF Appending, IInv, PoolTypeOK
    <3>3. Cardinality(Appending(k)') = Cardinality(Appending(k)) - 1
      BY <3>1, <3>2, AppendingFinite, FS_RemoveElement
    <3>4. Len(free'[k]) = Len(free[k]) + 1
      BY <1>3, <1>4, <1>9, <2>3
    <3>5. QED
      BY <1>1, <1>4, <2>1, <2>3, <3>3, <3>4, AppendingFinite, ListAssumption
  <2>4. QED
    BY <2>2, <2>3
<1>12. QED
  BY <1>6, <1>8, <1>10, <1>11 DEF IInv

LEMMA StutterIInv ==
  ASSUME IInv, UNCHANGED pool
  PROVE  IInv'
<1> USE DEF pool
<1>1. PoolTypeOK' /\ PlaceOK' /\ HeldOK' /\ Exclusive'
  BY DEF IInv, PoolTypeOK, PlaceOK, HeldOK, Exclusive
<1>2. Room'
  BY DEF IInv, Room, Appending
<1>3. QED
  BY <1>1, <1>2 DEF IInv

LEMMA StepIInv ==
  ASSUME IInv, [PoolNext]_pool
  PROVE  IInv'
BY LookIInv, PopIInv, UnwindIInv, MapIInv, OfferIInv, KeepIInv, StutterIInv
DEF PoolNext, PopEmpty, MapFails, Raise

LEMMA IInvAlways == PoolSpec => []IInv
BY InitIInv, StepIInv, PTL DEF PoolSpec

\* The pool's state keeps its shape.
THEOREM Typing == PoolSpec => []PoolTypeOK
<1>1. IInv => PoolTypeOK
  BY DEF IInv
<1>2. QED
  BY <1>1, IInvAlways, PTL

\* No buffer is bound by two launches, or bound while it is free.
THEOREM BuffersAreExclusive == PoolSpec => []Exclusive
<1>1. IInv => Exclusive
  BY DEF IInv
<1>2. QED
  BY <1>1, IInvAlways, PTL

\* Without a lock, a free list exceeds its cap by less than the number of threads.
THEOREM ListsAreBounded == PoolSpec => []Bounded
<1>1. ASSUME IInv PROVE Bounded
  <2> SUFFICES ASSUME NEW l \in Lists
               PROVE  Len(free[l]) < Cap[l] + Cardinality(Threads)
    BY DEF Bounded
  <2>1. Len(free[l]) + Cardinality(Appending(l)) < Cap[l] + Cardinality(Threads)
    BY <1>1 DEF IInv, Room
  <2>2. Len(free[l]) \in Nat /\ Cap[l] \in Nat
    BY <1>1, ListAssumption DEF IInv, PoolTypeOK
  <2>3. QED
    BY <2>1, <2>2, AppendingFinite
<1>2. QED
  BY <1>1, IInvAlways, PTL

--------------------------------------------------------------------------------
\* The host route.

Looping == {"mirror", "acquire", "copyin", "copyback", "release"}
Filling == {"mirror", "acquire", "copyin"}

\* The buffers of the arguments in S.
Bufs(b, S) == {b[i] : i \in S} \ {None}

\* The arguments whose turn has yet to come, and whose buffers are not known.
Todo(q, S) == IF q \in Filling THEN S ELSE {}

\* Arguments of a group have one buffer, groups have different ones, and exactly
\* those that have had their turn and are not in place have one.
Binding(q, l, S, b) ==
  /\ \A i \in DOMAIN l.args : \A j \in Members(l, i) : b[j] = b[i]
  /\ \A i, j \in DOMAIN l.args : b[i] = b[j] /\ b[i] # None => j \in Members(l, i)
  /\ \A i \in Todo(q, S) : b[i] = None
  /\ \A i \in DOMAIN l.args \ Todo(q, S) : b[i] = None <=> InPlace(l, i)

\* A launch holds the buffers it has bound, and in copyin one more; in release those
\* whose turn has yet to come.
Holding(q, l, S, b, H) ==
  /\ q \in {"mirror", "acquire", "kernel", "copyback"} => H = Bufs(b, DOMAIN l.args)
  /\ q = "copyin" => \E c \in Buffers \ Bufs(b, DOMAIN l.args) : H = Bufs(b, DOMAIN l.args) \cup {c}
  /\ q = "release" => H = Bufs(b, S)

\* What is left of a loop over the arguments, whole groups, or over the stores.
Looks(q, l, S) ==
  /\ q \in Looping => S \subseteq DOMAIN l.args /\ \A i \in S : Members(l, i) \subseteq S
  /\ q = "kernel" => S \subseteq DOMAIN l.ops
  /\ q \in {"acquire", "copyin"} => \A i \in Turn(l, S) : ~InPlace(l, i)

\* Where a launch is in the pool: outside acquire and release, between operations.
Pooling(q, l, S, b, a, g) ==
  /\ q \notin {"acquire", "release"} => a = "out"
  /\ q = "acquire" => a \in {"pop", "map"}
  /\ q = "release" => a \in {"out", "append"}
  /\ q = "release" /\ a = "append" => \E i \in Turn(l, S) : g = b[i]

Shape(q, l, S, b, H) ==
  /\ q = "idle" => l = None
  /\ q # "idle" => l \in Launches
  /\ q \in {"idle", "group"} => b = <<>> /\ S = {} /\ H = {}
  /\ q \notin {"idle", "group"} =>
       /\ b \in [DOMAIN l.args -> Buffers \cup {None}]
       /\ ~Inexpressible(l)
       /\ Looks(q, l, S) /\ Binding(q, l, S, b) /\ Holding(q, l, S, b, H)

Memories(l, m) == m \in IF l = None THEN {None} ELSE [Cells -> Values]

LaunchOK(t) ==
  /\ Shape(pc[t], launch[t], left[t], bound[t], held[t])
  /\ Pooling(pc[t], launch[t], left[t], bound[t], at[t], gives[t])
  /\ Memories(launch[t], before[t]) /\ Memories(launch[t], promise[t])

HostTypes ==
  /\ pc \in [Threads -> Steps]
  /\ launch \in [Threads -> Launches \cup {None}]
  /\ left \in [Threads -> SUBSET Nat]
  /\ bound = [t \in Threads |-> bound[t]]
  /\ before = [t \in Threads |-> before[t]]
  /\ promise = [t \in Threads |-> promise[t]]
  /\ ram \in [RamPlaces -> Values]
  /\ launches \in 0 .. MaxLaunches

HostIInv == HostTypes /\ IInv /\ \A t \in Threads : LaunchOK(t)

--------------------------------------------------------------------------------
\* Arguments and places.

LEMMA ArgFacts ==
  ASSUME NEW l \in Launches
  PROVE  /\ l # None
         /\ DOMAIN l.args \subseteq Nat /\ DOMAIN l.ops \subseteq Nat
         /\ Raws(l) \subseteq Tensors(l) /\ Tensors(l) \subseteq DOMAIN l.args
         /\ \A i \in Tensors(l) :
              /\ l.args[i].storage.base \in Nat /\ l.args[i].storage.size \in Nat \ {0}
              /\ Cell(l.args[i].storage) \subseteq Cells
BY LaunchAssumption DEF Raws, Tensors, Argument, Storages

LEMMA MemberFacts ==
  ASSUME NEW l \in Launches, NEW i \in DOMAIN l.args
  PROVE  /\ i \in Members(l, i) /\ Members(l, i) \subseteq DOMAIN l.args
         /\ \A j \in Members(l, i) :
              /\ Members(l, j) = Members(l, i)
              /\ InPlace(l, j) <=> InPlace(l, i)
              /\ j \in Tensors(l) <=> i \in Tensors(l)
              /\ j \in Raws(l) <=> i \in Raws(l)
              /\ l.args[j].storage = l.args[i].storage
BY ArgFacts DEF Members, SameKey, InPlace

\* Members of what is left when a group has had its turn.
LEMMA PastFacts ==
  ASSUME NEW l \in Launches, NEW S \in SUBSET DOMAIN l.args, NEW i \in S,
         \A j \in S : Members(l, j) \subseteq S
  PROVE  \A j \in S \ Members(l, i) :
           Members(l, j) \subseteq S \ Members(l, i)
<1> SUFFICES ASSUME NEW j \in S \ Members(l, i), NEW k \in Members(l, j)
             PROVE  k \notin Members(l, i)
  OBVIOUS
<1>1. CASE k \in Members(l, i)
  <2>1. Members(l, k) = Members(l, i) /\ Members(l, k) = Members(l, j) /\ j \in Members(l, j)
    BY <1>1, MemberFacts
  <2>2. QED
    BY <2>1
<1>2. QED
  BY <1>1

LEMMA TurnUnique ==
  ASSUME NEW l \in Launches, NEW S \in SUBSET DOMAIN l.args, NEW i \in Turn(l, S), NEW j \in Turn(l, S)
  PROVE  i = j
BY ArgFacts DEF Turn, Precedes

LEMMA Fits ==
  ASSUME NEW l \in Launches, NEW i \in Tensors(l), NEW x \in 0 .. l.args[i].storage.size - 1
  PROVE  x \in Bytes
<1>1. ListOf(l, i) \in Lists /\ l.args[i].storage.size <= ListOf(l, i)[2] /\ ListOf(l, i)[2] \in Nat
  BY ArgFacts, SizeAssumption DEF Tensors
<1>2. x \in 0 .. ListOf(l, i)[2] - 1
  BY <1>1, ArgFacts
<1>3. QED
  BY <1>1, <1>2 DEF Bytes

LEMMA PlaceFacts ==
  /\ \A c \in Cells : <<None, c>> \in RamPlaces
  /\ \A b \in Buffers, x \in Bytes : <<b, x>> \in RamPlaces
  /\ \A p \in RamPlaces :
       \/ p[1] = None /\ p[2] \in Cells /\ p = <<None, p[2]>>
       \/ p[1] \in Buffers /\ p[1] # None /\ p[2] \in Bytes /\ p[2] \in Nat /\ p = <<p[1], p[2]>>
<1>1. None \notin Buffers
  BY ListAssumption
<1>2. Bytes \subseteq Nat
  BY SizeAssumption DEF Bytes
<1>3. ASSUME NEW p \in RamPlaces
      PROVE  \/ p[1] = None /\ p[2] \in Cells /\ p = <<None, p[2]>>
             \/ p[1] \in Buffers /\ p[1] # None /\ p[2] \in Bytes /\ p[2] \in Nat /\ p = <<p[1], p[2]>>
  <2>1. CASE p \in {None} \X Cells
    <3>1. PICK c \in Cells : p = <<None, c>>
      BY <2>1
    <3>2. p[1] = None /\ p[2] = c
      BY <3>1
    <3>3. QED
      BY <3>1, <3>2
  <2>2. CASE p \in Buffers \X Bytes
    <3>1. PICK b \in Buffers, x \in Bytes : p = <<b, x>>
      BY <2>2
    <3>2. p[1] = b /\ p[2] = x /\ b # None /\ x \in Nat
      BY <1>1, <1>2, <3>1
    <3>3. QED
      BY <3>1, <3>2
  <2>3. QED
    BY <2>1, <2>2 DEF RamPlaces, Memory
<1>4. QED
  BY <1>3 DEF RamPlaces, Memory

LEMMA ValueFacts ==
  ASSUME NEW v \in Values
  PROVE  Narrow(v) \in Values /\ Change(v) \in Values
<1>1. Top \in Nat /\ v \in Nat /\ v <= Top
  BY BoundAssumption DEF Values
<1>2. v % 2 \in 0 .. 1 /\ v % 2 <= v
  BY <1>1
<1>3. QED
  BY <1>1, <1>2 DEF Narrow, Change, Values

LEMMA NarrowedFacts ==
  ASSUME ram \in [RamPlaces -> Values], NEW l \in Launches
  PROVE  Memories(l, Narrowed(l))
BY ArgFacts, PlaceFacts, ValueFacts DEF Memories, Narrowed

--------------------------------------------------------------------------------
\* The shape of the state.

LEMMA InitHostIInv == HostInit => HostIInv
<1> SUFFICES ASSUME HostInit PROVE HostIInv
  OBVIOUS
<1>1. IInv
  BY InitIInv DEF HostInit
<1>2. ram \in [RamPlaces -> Values]
  <2>1. ASSUME NEW p \in RamPlaces
        PROVE  (IF p[1] = None THEN p[2] % (Top + 1) ELSE 0) \in Values
    <3>1. Top \in Nat
      BY BoundAssumption
    <3>2. CASE p[1] = None
      BY <3>1, <3>2, CellsAssumption, PlaceFacts DEF Values
    <3>3. CASE p[1] # None
      BY <3>1, <3>3 DEF Values
    <3>4. QED
      BY <3>2, <3>3
  <2>2. QED
    BY <2>1 DEF HostInit
<1>3. HostTypes
  BY <1>2, BoundAssumption DEF HostInit, HostTypes, Steps
<1>4. \A t \in Threads : LaunchOK(t)
  BY DEF HostInit, PoolInit, LaunchOK, Shape, Pooling, Memories
<1>5. QED
  BY <1>1, <1>3, <1>4 DEF HostIInv

\* A step of one thread keeps HostIInv if it is one of the pool and leaves the thread
\* in the shape of its new place.
LEMMA Move ==
  ASSUME HostIInv, NEW t \in Threads, [PoolNext]_pool,
         NEW q \in Steps, pc' = [pc EXCEPT ![t] = q],
         NEW l \in Launches \cup {None}, launch' = [launch EXCEPT ![t] = l],
         NEW S \in SUBSET Nat, left' = [left EXCEPT ![t] = S],
         NEW b, bound' = [bound EXCEPT ![t] = b],
         NEW m, before' = [before EXCEPT ![t] = m], Memories(l, m),
         NEW n, promise' = [promise EXCEPT ![t] = n], Memories(l, n),
         NEW H, held' = [held EXCEPT ![t] = H], Shape(q, l, S, b, H),
         NEW a, at' = [at EXCEPT ![t] = a],
         NEW g, gives' = [gives EXCEPT ![t] = g], Pooling(q, l, S, b, a, g),
         ram' \in [RamPlaces -> Values], launches' \in 0 .. MaxLaunches
  PROVE  HostIInv' /\ [PoolNext]_pool
<1>1. IInv'
  BY StepIInv DEF HostIInv
<1>2. HostTypes'
  BY DEF HostIInv, HostTypes
<1>3. ASSUME NEW u \in Threads PROVE LaunchOK(u)'
  <2>1. DOMAIN held = Threads /\ DOMAIN at = Threads /\ DOMAIN gives = Threads
    BY DEF HostIInv, IInv, PoolTypeOK
  <2>2. DOMAIN bound = Threads /\ DOMAIN before = Threads /\ DOMAIN promise = Threads
    BY DEF HostIInv, HostTypes
  <2>3. CASE u = t
    <3>1. /\ pc'[t] = q /\ launch'[t] = l /\ left'[t] = S /\ bound'[t] = b /\ held'[t] = H
          /\ at'[t] = a /\ gives'[t] = g /\ before'[t] = m /\ promise'[t] = n
      BY <2>1, <2>2 DEF HostIInv, HostTypes
    <3>2. QED
      BY <2>3, <3>1 DEF LaunchOK
  <2>4. CASE u # t
    <3>1. /\ pc'[u] = pc[u] /\ launch'[u] = launch[u] /\ left'[u] = left[u]
          /\ bound'[u] = bound[u] /\ held'[u] = held[u] /\ at'[u] = at[u]
          /\ gives'[u] = gives[u] /\ before'[u] = before[u] /\ promise'[u] = promise[u]
      BY <2>1, <2>2, <2>4 DEF HostIInv, HostTypes
    <3>2. LaunchOK(u)
      BY DEF HostIInv
    <3>3. QED
      BY <3>1, <3>2 DEF LaunchOK
  <2>5. QED
    BY <2>3, <2>4
<1>4. QED
  BY <1>1, <1>2, <1>3 DEF HostIInv

\* What a step leaves alone, it leaves alone at t.
LEMMA Same ==
  ASSUME HostIInv, NEW t \in Threads
  PROVE  /\ pc[t] \in Steps /\ launch[t] \in Launches \cup {None} /\ left[t] \in SUBSET Nat
         /\ pc = [pc EXCEPT ![t] = pc[t]]
         /\ launch = [launch EXCEPT ![t] = launch[t]]
         /\ left = [left EXCEPT ![t] = left[t]]
         /\ bound = [bound EXCEPT ![t] = bound[t]]
         /\ before = [before EXCEPT ![t] = before[t]]
         /\ promise = [promise EXCEPT ![t] = promise[t]]
         /\ held = [held EXCEPT ![t] = held[t]]
         /\ at = [at EXCEPT ![t] = at[t]]
         /\ gives = [gives EXCEPT ![t] = gives[t]]
         /\ ram \in [RamPlaces -> Values] /\ launches \in 0 .. MaxLaunches
         /\ LaunchOK(t)
BY DEF HostIInv, HostTypes, IInv, PoolTypeOK

\* A launch that ends, having given back what it held.
LEMMA FinishStep ==
  ASSUME HostIInv, NEW t \in Threads, Finish(t), [PoolNext]_pool,
         held' = [held EXCEPT ![t] = {}], at' = [at EXCEPT ![t] = "out"],
         NEW g, gives' = [gives EXCEPT ![t] = g], UNCHANGED ram
  PROVE  HostIInv' /\ [PoolNext]_pool
<1>1. Shape("idle", None, {}, <<>>, {}) /\ Pooling("idle", None, {}, <<>>, "out", g)
  BY DEF Shape, Pooling
<1>2. Memories(None, None)
  BY DEF Memories
<1>3. /\ pc' = [pc EXCEPT ![t] = "idle"] /\ launch' = [launch EXCEPT ![t] = None]
      /\ left' = [left EXCEPT ![t] = {}] /\ bound' = [bound EXCEPT ![t] = <<>>]
      /\ before' = [before EXCEPT ![t] = None] /\ promise' = [promise EXCEPT ![t] = None]
      /\ UNCHANGED launches
  BY DEF Finish, Goto, Leave
<1>4. ram' \in [RamPlaces -> Values] /\ launches' \in 0 .. MaxLaunches
  BY <1>3, Same
<1>5. QED
  BY <1>1, <1>2, <1>3, <1>4, Move DEF Steps

\* A thread that fails outside acquire and release raises outside the pool.
LEMMA FailStep ==
  ASSUME HostIInv, NEW t \in Threads, pc[t] \notin {"acquire", "release"}, Fail(t)
  PROVE  HostIInv' /\ [PoolNext]_pool
<1>1. at[t] = "out"
  BY Same DEF LaunchOK, Pooling
<1>2. PoolNext
  BY <1>1 DEF Fail, Raise, PoolNext
<1>3. QED
  BY <1>2, FinishStep DEF Fail, Unwind

\* A step outside the pool.
LEMMA Outside ==
  ASSUME HostIInv, NEW t \in Threads, UNCHANGED pool
  PROVE  /\ [PoolNext]_pool
         /\ held' = [held EXCEPT ![t] = held[t]]
         /\ at' = [at EXCEPT ![t] = at[t]]
         /\ gives' = [gives EXCEPT ![t] = gives[t]]
BY Same DEF pool

LEMMA BeginShape ==
  ASSUME HostIInv, NEW t \in Threads, Begin(t)
  PROVE  HostIInv' /\ [PoolNext]_pool
<1>1. PICK l \in Launches : launch' = [launch EXCEPT ![t] = l]
  BY DEF Begin
<1>2. /\ pc[t] = "idle" /\ pc' = [pc EXCEPT ![t] = "group"] /\ UNCHANGED <<pool, left, bound, ram>>
      /\ launches < MaxLaunches /\ launches' = launches + 1
      /\ before' = [before EXCEPT ![t] = Now] /\ promise' = [promise EXCEPT ![t] = Now]
  BY DEF Begin, Goto
<1>3. Shape("group", l, left[t], bound[t], held[t]) /\ Pooling("group", l, left[t], bound[t], at[t], gives[t])
  BY <1>2, Same DEF LaunchOK, Shape, Pooling
<1>4. Memories(l, Now)
  BY ArgFacts, PlaceFacts, Same DEF Memories, Now
<1>5. launches' \in 0 .. MaxLaunches
  BY <1>2, Same, BoundAssumption
<1>6. /\ left[t] \in SUBSET Nat /\ left' = [left EXCEPT ![t] = left[t]]
      /\ bound' = [bound EXCEPT ![t] = bound[t]] /\ ram' \in [RamPlaces -> Values]
  BY <1>2, Same
<1>7. /\ [PoolNext]_pool /\ held' = [held EXCEPT ![t] = held[t]]
      /\ at' = [at EXCEPT ![t] = at[t]] /\ gives' = [gives EXCEPT ![t] = gives[t]]
  BY <1>2, Outside
<1>8. "group" \in Steps /\ l \in Launches \cup {None}
  BY DEF Steps
<1>9. QED
  BY <1>1, <1>2, <1>3, <1>4, <1>5, <1>6, <1>7, <1>8, Move

\* What a launch that has begun keeps.
LEMMA Begun ==
  ASSUME HostIInv, NEW t \in Threads, pc[t] # "idle"
  PROVE  launch[t] \in Launches /\ Memories(launch[t], before[t]) /\ Memories(launch[t], promise[t])
BY Same DEF LaunchOK, Shape

\* And once its arguments are grouped.
LEMMA Grouped ==
  ASSUME HostIInv, NEW t \in Threads, pc[t] \notin {"idle", "group"}
  PROVE  /\ launch[t] \in Launches
         /\ bound[t] \in [DOMAIN launch[t].args -> Buffers \cup {None}]
         /\ ~Inexpressible(launch[t])
         /\ Looks(pc[t], launch[t], left[t])
         /\ Binding(pc[t], launch[t], left[t], bound[t])
         /\ Holding(pc[t], launch[t], left[t], bound[t], held[t])
         /\ left[t] \in SUBSET Nat
BY Same DEF LaunchOK, Shape

\* A step inside the launch and outside the pool.
LEMMA Within ==
  ASSUME HostIInv, NEW t \in Threads, UNCHANGED <<pool, launch, before, launches>>,
         pc[t] \notin {"idle", "acquire"}, pc[t] = "release" => at[t] = "out",
         NEW q \in Steps \ {"idle", "group", "acquire"}, pc' = [pc EXCEPT ![t] = q],
         NEW S \in SUBSET Nat, left' = [left EXCEPT ![t] = S],
         NEW b \in [DOMAIN launch[t].args -> Buffers \cup {None}], bound' = [bound EXCEPT ![t] = b],
         NEW n, promise' = [promise EXCEPT ![t] = n], Memories(launch[t], n),
         ~Inexpressible(launch[t]),
         Looks(q, launch[t], S), Binding(q, launch[t], S, b),
         Holding(q, launch[t], S, b, held[t]),
         ram' \in [RamPlaces -> Values]
  PROVE  HostIInv' /\ [PoolNext]_pool
<1>1. launch[t] \in Launches /\ Memories(launch[t], before[t]) /\ launches' \in 0 .. MaxLaunches
  BY Begun, Same
<1>2. Shape(q, launch[t], S, b, held[t])
  BY <1>1 DEF Shape
<1>3. at[t] = "out"
  BY Same DEF LaunchOK, Pooling
<1>4. Pooling(q, launch[t], S, b, at[t], gives[t])
  BY <1>3 DEF Pooling
<1>5. launch' = [launch EXCEPT ![t] = launch[t]] /\ before' = [before EXCEPT ![t] = before[t]]
  BY Same
<1>6. QED
  BY <1>1, <1>2, <1>4, <1>5, Outside, Move

LEMMA GroupShape ==
  ASSUME HostIInv, NEW t \in Threads, Group(t)
  PROVE  HostIInv' /\ [PoolNext]_pool
<1> DEFINE l == launch[t]
           b == [i \in DOMAIN l.args |-> None]
<1>1. CASE Fail(t)
  BY <1>1, FailStep DEF Group
<1>2. CASE ~Fail(t)
  <2>1. /\ pc' = [pc EXCEPT ![t] = "mirror"] /\ pc[t] = "group" /\ ~Inexpressible(l)
        /\ left' = [left EXCEPT ![t] = DOMAIN l.args] /\ bound' = [bound EXCEPT ![t] = b]
        /\ UNCHANGED <<pool, launch, ram, before, promise, launches>>
    BY <1>2 DEF Group, Goto, Leave
  <2>2. l \in Launches /\ held[t] = {} /\ Memories(l, promise[t])
    BY <2>1, Begun, Same DEF LaunchOK, Shape
  <2>3. DOMAIN l.args \in SUBSET Nat /\ b \in [DOMAIN l.args -> Buffers \cup {None}]
    BY <2>2, ArgFacts
  <2>4. Looks("mirror", l, DOMAIN l.args)
    BY <2>2, MemberFacts DEF Looks
  <2>5. Binding("mirror", l, DOMAIN l.args, b)
    BY <2>2, MemberFacts DEF Binding, Todo, Filling
  <2>6. Holding("mirror", l, DOMAIN l.args, b, held[t])
    BY <2>2 DEF Holding, Bufs
  <2>7. promise' = [promise EXCEPT ![t] = promise[t]] /\ ram' \in [RamPlaces -> Values]
    BY <2>1, Same
  <2> HIDE DEF b
  <2>8. QED
    BY <2>1, <2>2, <2>3, <2>4, <2>5, <2>6, <2>7, Within DEF Steps
<1>3. QED
  BY <1>1, <1>2

\* The turn of a group that is wrapped in place.
LEMMA WrapShape ==
  ASSUME HostIInv, NEW t \in Threads, pc[t] = "mirror", NEW i \in Turn(launch[t], left[t]),
         InPlace(launch[t], i), Past(t, launch[t], i), UNCHANGED <<pool, pc>>,
         UNCHANGED <<launch, bound, ram, before, promise, launches>>
  PROVE  HostIInv' /\ [PoolNext]_pool
<1> DEFINE l == launch[t]
           b == bound[t]
           S == left[t]
           R == S \ Members(l, i)
<1>1. l \in Launches /\ Memories(l, promise[t])
  BY Begun
<1>2. /\ b \in [DOMAIN l.args -> Buffers \cup {None}] /\ ~Inexpressible(l)
      /\ Looks("mirror", l, S) /\ Binding("mirror", l, S, b) /\ Holding("mirror", l, S, b, held[t])
  BY Grouped
<1>3. S \in SUBSET DOMAIN l.args /\ i \in S /\ \A j \in S : Members(l, j) \subseteq S
  BY <1>2 DEF Looks, Looping, Turn
<1>4. Looks("mirror", l, R)
  BY <1>1, <1>3, PastFacts DEF Looks
<1>5. Binding("mirror", l, R, b)
  <2>1. ASSUME NEW j \in DOMAIN l.args \ R PROVE b[j] = None <=> InPlace(l, j)
    <3>1. CASE j \in Members(l, i)
      BY <1>1, <1>2, <1>3, <3>1, MemberFacts DEF Binding, Todo, Filling
    <3>2. CASE j \notin S
      BY <1>2, <3>2 DEF Binding, Todo, Filling
    <3>3. QED
      BY <3>1, <3>2
  <2>2. QED
    BY <1>2, <2>1 DEF Binding, Todo, Filling
<1>6. Holding("mirror", l, R, b, held[t])
  BY <1>2 DEF Holding
<1>7. /\ left' = [left EXCEPT ![t] = R] /\ R \in SUBSET Nat
      /\ pc' = [pc EXCEPT ![t] = "mirror"] /\ bound' = [bound EXCEPT ![t] = b]
      /\ promise' = [promise EXCEPT ![t] = promise[t]] /\ ram' \in [RamPlaces -> Values]
  BY Same DEF Past, Leave
<1> HIDE DEF R
<1>8. QED
  BY <1>1, <1>2, <1>4, <1>5, <1>6, <1>7, Within DEF Steps

\* The turn of a group that needs a buffer.
LEMMA LookShape ==
  ASSUME HostIInv, NEW t \in Threads, pc[t] = "mirror", NEW i \in Turn(launch[t], left[t]),
         ~InPlace(launch[t], i), Look(t, ListOf(launch[t], i)), Goto(t, "acquire"), UNCHANGED left,
         UNCHANGED <<launch, bound, ram, before, promise, launches>>
  PROVE  HostIInv' /\ [PoolNext]_pool
<1> DEFINE l == launch[t]
           b == bound[t]
           S == left[t]
<1>1. l \in Launches /\ Memories(l, promise[t]) /\ Memories(l, before[t])
  BY Begun
<1>2. /\ b \in [DOMAIN l.args -> Buffers \cup {None}] /\ ~Inexpressible(l)
      /\ Looks("mirror", l, S) /\ Binding("mirror", l, S, b) /\ Holding("mirror", l, S, b, held[t])
  BY Grouped
<1>3. S \in SUBSET DOMAIN l.args /\ i \in S
  BY <1>2 DEF Looks, Looping, Turn
<1>4. l.args[i].kind # "opaque"
  BY <1>2, <1>3 DEF Inexpressible
<1>5. PoolNext
  BY <1>1, <1>3, <1>4, SizeAssumption DEF PoolNext
<1>6. Looks("acquire", l, S)
  BY <1>1, <1>2, <1>3, TurnUnique DEF Looks, Looping
<1>7. Binding("acquire", l, S, b) /\ Holding("acquire", l, S, b, held[t])
  BY <1>2 DEF Binding, Holding, Todo, Filling
<1>8. PICK a \in {"pop", "map"} : at' = [at EXCEPT ![t] = a]
  BY DEF Look
<1>9. Pooling("acquire", l, S, b, a, gives[t]) /\ Shape("acquire", l, S, b, held[t])
  BY <1>1, <1>2, <1>6, <1>7 DEF Pooling, Shape
<1>10. /\ held' = [held EXCEPT ![t] = held[t]] /\ gives' = [gives EXCEPT ![t] = gives[t]]
       /\ pc' = [pc EXCEPT ![t] = "acquire"] /\ launch' = [launch EXCEPT ![t] = l]
       /\ left' = [left EXCEPT ![t] = S] /\ bound' = [bound EXCEPT ![t] = b]
       /\ before' = [before EXCEPT ![t] = before[t]] /\ promise' = [promise EXCEPT ![t] = promise[t]]
       /\ ram' \in [RamPlaces -> Values] /\ launches' \in 0 .. MaxLaunches
  BY Same DEF Look, Goto
<1> HIDE DEF l, b, S
<1>11. l \in Launches \cup {None} /\ S \in SUBSET Nat
  BY Same DEF l, S
<1>12. QED
  BY <1>1, <1>5, <1>8, <1>9, <1>10, <1>11, Move DEF Steps

\* Every argument has had its turn.
LEMMA LaunchShape ==
  ASSUME HostIInv, NEW t \in Threads, pc[t] = "mirror", left[t] = {},
         Goto(t, "kernel"), Leave(t, DOMAIN launch[t].ops),
         promise' = [promise EXCEPT ![t] = Narrowed(launch[t])],
         UNCHANGED <<pool, launch, bound, ram, before, launches>>
  PROVE  HostIInv' /\ [PoolNext]_pool
<1> DEFINE l == launch[t]
           b == bound[t]
           S == DOMAIN l.ops
<1>1. l \in Launches
  BY Begun
<1>2. /\ b \in [DOMAIN l.args -> Buffers \cup {None}] /\ ~Inexpressible(l)
      /\ Binding("mirror", l, {}, b) /\ Holding("mirror", l, {}, b, held[t])
  BY Grouped
<1>3. Looks("kernel", l, S)
  BY DEF Looks, Looping
<1>4. Binding("kernel", l, S, b)
  BY <1>2 DEF Binding, Todo, Filling
<1>5. Holding("kernel", l, S, b, held[t])
  BY <1>2 DEF Holding
<1>6. Memories(l, Narrowed(l))
  BY <1>1, NarrowedFacts, Same
<1>7. /\ left' = [left EXCEPT ![t] = S] /\ S \in SUBSET Nat
      /\ pc' = [pc EXCEPT ![t] = "kernel"] /\ bound' = [bound EXCEPT ![t] = b]
      /\ ram' \in [RamPlaces -> Values]
  BY <1>1, ArgFacts, Same DEF Goto, Leave
<1> HIDE DEF S
<1>8. QED
  BY <1>1, <1>2, <1>3, <1>4, <1>5, <1>6, <1>7, Within DEF Steps

LEMMA MirrorShape ==
  ASSUME HostIInv, NEW t \in Threads, Mirror(t)
  PROVE  HostIInv' /\ [PoolNext]_pool
<1>1. pc[t] = "mirror"
  BY DEF Mirror
<1>2. CASE Fail(t)
  BY <1>1, <1>2, FailStep
<1>3. ASSUME NEW i \in Turn(launch[t], left[t]), MirrorOne(t, launch[t], i), ~Fail(t)
      PROVE  HostIInv' /\ [PoolNext]_pool
  <2>1. CASE InPlace(launch[t], i)
    BY <1>1, <1>3, <2>1, WrapShape DEF MirrorOne
  <2>2. CASE ~InPlace(launch[t], i)
    BY <1>1, <1>3, <2>2, LookShape DEF MirrorOne
  <2>3. QED
    BY <2>1, <2>2
<1>4. QED
  BY <1>1, <1>2, <1>3, LaunchShape DEF Mirror

\* A buffer that is popped or made is not one that the launch holds.
LEMMA TakeFresh ==
  ASSUME IInv, NEW t \in Threads, Pop(t) \/ Map(t)
  PROVE  \E c \in Buffers \ held[t] : Take(t, c)
<1>1. CASE Pop(t)
  <2> DEFINE f == free[wants[t]]
             n == Len(f)
  <2>1. wants[t] \in Lists
    BY <1>1 DEF IInv, PlaceOK, Pop
  <2>2. f \in Seq(Buffers) /\ f # <<>>
    BY <1>1, <2>1 DEF IInv, PoolTypeOK, Pop
  <2>3. n \in 1 .. n /\ f[n] \in Buffers
    BY <2>2
  <2>4. f[n] \notin held[t]
    BY <2>1, <2>3 DEF IInv, Exclusive
  <2>5. Take(t, f[n])
    BY <1>1 DEF Pop
  <2>6. QED
    BY <2>3, <2>4, <2>5
<1>2. CASE Map(t)
  BY <1>2 DEF IInv, HeldOK, Map
<1>3. QED
  BY <1>1, <1>2

LEMMA AcquireShape ==
  ASSUME HostIInv, NEW t \in Threads, Acquire(t)
  PROVE  HostIInv' /\ [PoolNext]_pool
<1> DEFINE l == launch[t]
           b == bound[t]
           S == left[t]
<1>1. PoolNext /\ pc[t] = "acquire" /\ UNCHANGED ram
  BY DEF Acquire, PoolNext
<1>2. CASE (PopEmpty(t) \/ MapFails(t)) /\ Finish(t)
  BY <1>1, <1>2, FinishStep DEF PopEmpty, MapFails, Unwind
<1>3. CASE /\ Pop(t) \/ Map(t)
           /\ Goto(t, "copyin")
           /\ UNCHANGED <<launch, left, bound, before, promise, launches>>
  <2>1. PICK c \in Buffers \ held[t] : Take(t, c)
    BY <1>3, TakeFresh DEF HostIInv
  <2> DEFINE H == held[t] \cup {c}
  <2>2. /\ l \in Launches /\ b \in [DOMAIN l.args -> Buffers \cup {None}] /\ ~Inexpressible(l)
        /\ Looks("acquire", l, S) /\ Binding("acquire", l, S, b) /\ held[t] = Bufs(b, DOMAIN l.args)
    BY <1>1, Grouped DEF Holding
  <2>3. Looks("copyin", l, S) /\ Binding("copyin", l, S, b)
    BY <2>2 DEF Looks, Looping, Binding, Todo, Filling
  <2>4. Holding("copyin", l, S, b, H)
    BY <2>2 DEF Holding
  <2>5. Shape("copyin", l, S, b, H) /\ Pooling("copyin", l, S, b, "out", gives[t])
    BY <2>2, <2>3, <2>4 DEF Shape, Pooling
  <2>6. /\ held' = [held EXCEPT ![t] = H] /\ at' = [at EXCEPT ![t] = "out"]
        /\ gives' = [gives EXCEPT ![t] = gives[t]]
    BY <2>1, Same DEF Take
  <2>7. /\ pc' = [pc EXCEPT ![t] = "copyin"] /\ launch' = [launch EXCEPT ![t] = l]
        /\ left' = [left EXCEPT ![t] = S] /\ bound' = [bound EXCEPT ![t] = b]
        /\ before' = [before EXCEPT ![t] = before[t]] /\ promise' = [promise EXCEPT ![t] = promise[t]]
        /\ ram' \in [RamPlaces -> Values] /\ launches' \in 0 .. MaxLaunches
    BY <1>1, <1>3, Same DEF Goto
  <2>8. Memories(l, before[t]) /\ Memories(l, promise[t]) /\ l \in Launches \cup {None} /\ S \in SUBSET Nat
    BY <1>1, Begun, Same
  <2> HIDE DEF l, b, S, H
  <2>9. QED
    BY <1>1, <2>5, <2>6, <2>7, <2>8, Move DEF Steps
<1>4. QED
  BY <1>2, <1>3 DEF Acquire

LEMMA CopyOfType ==
  ASSUME ram \in [RamPlaces -> Values], NEW l \in Launches, NEW i \in DOMAIN l.args, NEW b \in Buffers
  PROVE  CopyOf(l, i, b) \in [RamPlaces -> Values]
<1> DEFINE s == l.args[i].storage
<1> SUFFICES ASSUME NEW p \in RamPlaces, i \in Tensors(l), p[1] = b, p[2] < s.size
             PROVE  ram[<<None, s.base + p[2]>>] \in Values /\ Narrow(ram[<<None, s.base + p[2]>>]) \in Values
  BY DEF CopyOf
<1>1. p[2] \in Nat /\ s.base \in Nat /\ s.size \in Nat /\ Cell(s) \subseteq Cells
  BY PlaceFacts, ArgFacts, ListAssumption
<1>2. s.base + p[2] \in Cells
  BY <1>1 DEF Cell
<1>3. QED
  BY <1>2, PlaceFacts, ValueFacts

\* The buffer that is not bound yet is bound to the group whose turn it is.
LEMMA CopyInShape ==
  ASSUME HostIInv, NEW t \in Threads, CopyIn(t)
  PROVE  HostIInv' /\ [PoolNext]_pool
<1> DEFINE l == launch[t]
           b == bound[t]
           S == left[t]
<1>1. PICK i \in Turn(l, S), c \in held[t] :
        /\ \A j \in DOMAIN l.args : b[j] # c
        /\ ram' = CopyOf(l, i, c)
        /\ bound' = [bound EXCEPT ![t] =
             [j \in DOMAIN l.args |-> IF j \in Members(l, i) THEN c ELSE b[j]]]
        /\ Past(t, l, i)
  BY DEF CopyIn
<1> DEFINE d == [j \in DOMAIN l.args |-> IF j \in Members(l, i) THEN c ELSE b[j]]
           R == S \ Members(l, i)
<1>2. /\ pc[t] = "copyin" /\ pc' = [pc EXCEPT ![t] = "mirror"]
      /\ UNCHANGED <<pool, launch, before, promise, launches>>
  BY DEF CopyIn, Goto
<1>3. l \in Launches /\ Memories(l, promise[t])
  BY <1>2, Begun
<1>4. /\ b \in [DOMAIN l.args -> Buffers \cup {None}] /\ ~Inexpressible(l)
      /\ Looks("copyin", l, S) /\ Binding("copyin", l, S, b) /\ Holding("copyin", l, S, b, held[t])
      /\ S \in SUBSET Nat
  BY <1>2, Grouped
<1>5. S \in SUBSET DOMAIN l.args /\ i \in S /\ (\A j \in S : Members(l, j) \subseteq S) /\ ~InPlace(l, i)
  BY <1>4 DEF Looks, Looping, Turn
<1>6. c \in Buffers /\ c # None /\ held[t] = Bufs(b, DOMAIN l.args) \cup {c}
  <2>1. c \notin Bufs(b, DOMAIN l.args)
    BY <1>1 DEF Bufs
  <2>2. PICK e \in Buffers : held[t] = Bufs(b, DOMAIN l.args) \cup {e}
    BY <1>4 DEF Holding
  <2>3. QED
    BY <2>1, <2>2, ListAssumption
<1>7. /\ Members(l, i) \subseteq DOMAIN l.args /\ i \in Members(l, i) /\ i \in DOMAIN l.args
      /\ \A j \in DOMAIN l.args : \A k \in Members(l, j) :
           k \in DOMAIN l.args /\ (k \in Members(l, i) <=> j \in Members(l, i))
  <2>1. ASSUME NEW j \in DOMAIN l.args, NEW k \in Members(l, j)
        PROVE  k \in DOMAIN l.args /\ (k \in Members(l, i) <=> j \in Members(l, i))
    <3>1. k \in DOMAIN l.args /\ Members(l, k) = Members(l, j) /\ j \in Members(l, j) /\ k \in Members(l, k)
      BY <1>3, MemberFacts
    <3>2. QED
      BY <1>3, <1>5, <3>1, MemberFacts
  <2>2. QED
    BY <1>3, <1>5, <2>1, MemberFacts
<1>8. Looks("mirror", l, R)
  BY <1>3, <1>5, PastFacts DEF Looks
<1>9. Binding("mirror", l, R, d)
  <2>1. ASSUME NEW j \in DOMAIN l.args, NEW k \in Members(l, j) PROVE d[k] = d[j]
    BY <1>4, <1>7 DEF Binding
  <2>2. ASSUME NEW j \in DOMAIN l.args, NEW k \in DOMAIN l.args, d[j] = d[k], d[j] # None
        PROVE  k \in Members(l, j)
    <3>1. CASE j \in Members(l, i) /\ k \in Members(l, i)
      BY <1>3, <1>7, <3>1, MemberFacts
    <3>2. CASE j \notin Members(l, i) /\ k \notin Members(l, i)
      BY <1>4, <2>2, <3>2 DEF Binding
    <3>3. QED
      BY <1>1, <2>2, <3>1, <3>2
  <2>3. ASSUME NEW j \in R PROVE d[j] = None
    BY <1>4, <1>5, <2>3 DEF Binding, Todo, Filling
  <2>4. ASSUME NEW j \in DOMAIN l.args \ R PROVE d[j] = None <=> InPlace(l, j)
    <3>1. CASE j \in Members(l, i)
      BY <1>3, <1>5, <1>6, <1>7, <3>1, MemberFacts
    <3>2. CASE j \notin Members(l, i)
      BY <1>4, <2>4, <3>2 DEF Binding, Todo, Filling
    <3>3. QED
      BY <3>1, <3>2
  <2> HIDE DEF d, R
  <2>5. QED
    BY <2>1, <2>2, <2>3, <2>4 DEF Binding, Todo, Filling
<1>10. Holding("mirror", l, R, d, held[t])
  <2>1. ASSUME NEW e \in Bufs(d, DOMAIN l.args) PROVE e \in held[t]
    BY <1>6 DEF Bufs
  <2>2. ASSUME NEW e \in held[t] PROVE e \in Bufs(d, DOMAIN l.args)
    <3>1. CASE e = c
      <4>1. d[i] = c
        BY <1>7
      <4>2. QED
        BY <1>6, <1>7, <3>1, <4>1 DEF Bufs
    <3>2. CASE e \in Bufs(b, DOMAIN l.args)
      <4>1. PICK j \in DOMAIN l.args : e = b[j] /\ e # None
        BY <3>2 DEF Bufs
      <4>2. j \notin Members(l, i)
        BY <1>4, <1>5, <4>1 DEF Binding, Todo, Filling
      <4>3. d[j] = e
        BY <4>1, <4>2
      <4>4. QED
        BY <4>1, <4>3 DEF Bufs
    <3>3. QED
      BY <1>6, <3>1, <3>2
  <2>3. QED
    BY <2>1, <2>2 DEF Holding
<1>11. ram' \in [RamPlaces -> Values]
  BY <1>1, <1>3, <1>6, <1>7, Same, CopyOfType
<1>12. /\ left' = [left EXCEPT ![t] = R] /\ R \in SUBSET Nat
       /\ bound' = [bound EXCEPT ![t] = d] /\ d \in [DOMAIN l.args -> Buffers \cup {None}]
       /\ promise' = [promise EXCEPT ![t] = promise[t]]
  BY <1>1, <1>2, <1>4, <1>6, Same DEF Past, Leave
<1> HIDE DEF d, R
<1>13. QED
  BY <1>2, <1>3, <1>4, <1>8, <1>9, <1>10, <1>11, <1>12, Within DEF Steps

LEMMA PlaceType ==
  ASSUME NEW l \in Launches, NEW b \in [DOMAIN l.args -> Buffers \cup {None}], NEW p, Reaches(l, p)
  PROVE  Place(l, b, p) \in RamPlaces /\ Meant(l, p) \in Cell(l.args[p[1]].storage) /\ Meant(l, p) \in Cells
<1> DEFINE i == p[1]
           x == Index(l, p)
           s == l.args[i].storage
<1>1. i \in Tensors(l) /\ i \in DOMAIN l.args /\ x \in 0 .. s.size - 1
  BY ArgFacts DEF Reaches
<1>2. s.base \in Nat /\ s.size \in Nat /\ Cell(s) \subseteq Cells
  BY <1>1, ArgFacts
<1> HIDE DEF x
<1>3. s.base + x \in Cell(s)
  BY <1>1, <1>2 DEF Cell
<1>4. x \in Bytes
  BY <1>1, Fits
<1>5. b[i] = None \/ b[i] \in Buffers
  BY <1>1
<1>6. QED
  BY <1>2, <1>3, <1>4, <1>5, PlaceFacts DEF Place, Meant, x

LEMMA KernelShape ==
  ASSUME HostIInv, NEW t \in Threads, Kernel(t)
  PROVE  HostIInv' /\ [PoolNext]_pool
<1> DEFINE l == launch[t]
           b == bound[t]
<1>1. pc[t] = "kernel"
  BY DEF Kernel
<1>2. l \in Launches /\ promise[t] \in [Cells -> Values] /\ before[t] \in [Cells -> Values]
  BY <1>1, Begun, ArgFacts DEF Memories
<1>3. /\ b \in [DOMAIN l.args -> Buffers \cup {None}] /\ ~Inexpressible(l)
      /\ Looks("kernel", l, left[t]) /\ Binding("kernel", l, left[t], b)
      /\ Holding("kernel", l, left[t], b, held[t])
      /\ left[t] \subseteq DOMAIN l.ops /\ left[t] \in SUBSET Nat
  BY <1>1, Grouped DEF Looks
<1>4. bound = [bound EXCEPT ![t] = b]
  BY Same
<1>5. CASE Fail(t)
  BY <1>1, <1>5, FailStep
<1>6. ASSUME NEW k \in left[t], Store(t, l, k)
      PROVE  HostIInv' /\ [PoolNext]_pool
  <2> DEFINE to == l.ops[k].to
             from == l.ops[k].from
             n == [promise[t] EXCEPT ![Meant(l, to)] = Change(promise[t][Meant(l, from)])]
             S == left[t] \ {k}
  <2>1. Reaches(l, to) /\ Reaches(l, from)
    BY <1>2, <1>3, LaunchAssumption
  <2>2. /\ Place(l, b, from) \in RamPlaces /\ Place(l, b, to) \in RamPlaces
        /\ Meant(l, from) \in Cells /\ Meant(l, to) \in Cells
    BY <1>2, <1>3, <2>1, PlaceType
  <2>3. ram' \in [RamPlaces -> Values]
    BY <1>6, <2>2, Same, ValueFacts DEF Store
  <2>4. Memories(l, n)
    <3>1. n \in [Cells -> Values]
      BY <1>2, <2>2, ValueFacts
    <3>2. QED
      BY <1>2, <3>1, ArgFacts DEF Memories
  <2>5. promise' = [promise EXCEPT ![t] = n]
    BY <1>6, Same DEF Store
  <2>6. /\ left' = [left EXCEPT ![t] = S] /\ S \in SUBSET Nat
        /\ pc' = [pc EXCEPT ![t] = "kernel"] /\ bound' = [bound EXCEPT ![t] = b]
        /\ UNCHANGED <<pool, launch, before, launches>>
    BY <1>1, <1>3, <1>4, <1>6, Same DEF Store, Leave
  <2>7. Looks("kernel", l, S) /\ Binding("kernel", l, S, b) /\ Holding("kernel", l, S, b, held[t])
    BY <1>3 DEF Looks, Looping, Binding, Holding, Todo, Filling
  <2> HIDE DEF to, from, n, S
  <2>8. QED
    BY <1>1, <1>2, <1>3, <2>3, <2>4, <2>5, <2>6, <2>7, Within DEF Steps
<1>7. CASE /\ promise' = [promise EXCEPT ![t] =
                [c \in Cells |-> IF c \in Doubles(l) \ Written(l) THEN before[t][c] ELSE promise[t][c]]]
           /\ Goto(t, "copyback") /\ Leave(t, DOMAIN l.args)
           /\ UNCHANGED <<pool, launch, bound, ram, before, launches>>
  <2> DEFINE n == [c \in Cells |-> IF c \in Doubles(l) \ Written(l) THEN before[t][c] ELSE promise[t][c]]
             S == DOMAIN l.args
  <2>1. Memories(l, n)
    BY <1>2, ArgFacts DEF Memories
  <2>2. promise' = [promise EXCEPT ![t] = n] /\ left' = [left EXCEPT ![t] = S]
    BY <1>7 DEF Leave
  <2>3. /\ S \in SUBSET Nat /\ ram' \in [RamPlaces -> Values]
        /\ pc' = [pc EXCEPT ![t] = "copyback"] /\ bound' = [bound EXCEPT ![t] = b]
        /\ UNCHANGED <<pool, launch, before, launches>>
    BY <1>2, <1>4, <1>7, Same, ArgFacts DEF Goto
  <2>4. Looks("copyback", l, S)
    BY <1>2, MemberFacts DEF Looks
  <2>5. Binding("copyback", l, S, b)
    BY <1>3 DEF Binding, Todo, Filling
  <2>6. Holding("copyback", l, S, b, held[t])
    BY <1>3 DEF Holding
  <2> HIDE DEF n, S
  <2>7. QED
    BY <1>1, <1>2, <1>3, <2>1, <2>2, <2>3, <2>4, <2>5, <2>6, Within DEF Steps
<1>8. QED
  BY <1>5, <1>6, <1>7 DEF Kernel

LEMMA CopyToType ==
  ASSUME ram \in [RamPlaces -> Values], NEW l \in Launches, NEW i \in Tensors(l), NEW b \in Buffers
  PROVE  CopyTo(l.args[i].storage, b) \in [RamPlaces -> Values]
<1> DEFINE s == l.args[i].storage
<1> SUFFICES ASSUME NEW p \in RamPlaces, p[2] \in Cell(s)
             PROVE  ram[<<b, p[2] - s.base>>] \in Values
  BY DEF CopyTo
<1>1. s.base \in Nat /\ s.size \in Nat
  BY ArgFacts
<1>2. p[2] - s.base \in 0 .. s.size - 1
  BY <1>1 DEF Cell
<1>3. QED
  BY <1>2, Fits, PlaceFacts

LEMMA CopyBackShape ==
  ASSUME HostIInv, NEW t \in Threads, CopyBack(t)
  PROVE  HostIInv' /\ [PoolNext]_pool
<1> DEFINE l == launch[t]
           b == bound[t]
           S == left[t]
<1>1. pc[t] = "copyback"
  BY DEF CopyBack
<1>2. l \in Launches /\ Memories(l, promise[t])
  BY <1>1, Begun
<1>3. /\ b \in [DOMAIN l.args -> Buffers \cup {None}] /\ ~Inexpressible(l)
      /\ Looks("copyback", l, S) /\ Binding("copyback", l, S, b) /\ Holding("copyback", l, S, b, held[t])
      /\ S \in SUBSET Nat
  BY <1>1, Grouped
<1>4. S \in SUBSET DOMAIN l.args /\ \A j \in S : Members(l, j) \subseteq S
  BY <1>3 DEF Looks, Looping
<1>5. bound = [bound EXCEPT ![t] = b] /\ promise = [promise EXCEPT ![t] = promise[t]]
  BY Same
<1>6. CASE Fail(t)
  BY <1>1, <1>6, FailStep
<1>7. ASSUME NEW i \in Turn(l, S),
             ram' = IF Returns(l, i, b[i]) THEN CopyTo(l.args[i].storage, b[i]) ELSE ram,
             Past(t, l, i),
             UNCHANGED <<pool, pc, launch, bound, before, promise, launches>>
      PROVE  HostIInv' /\ [PoolNext]_pool
  <2> DEFINE R == S \ Members(l, i)
  <2>1. i \in S /\ i \in DOMAIN l.args
    BY <1>4 DEF Turn
  <2>2. ram' \in [RamPlaces -> Values]
    <3>1. CASE Returns(l, i, b[i])
      <4>1. b[i] \in Buffers
        BY <1>3, <2>1, <3>1 DEF Returns
      <4>2. i \in Tensors(l)
        BY <1>2, <2>1, <3>1, MemberFacts DEF Returns, IsOutput
      <4>3. QED
        BY <1>2, <1>7, <3>1, <4>1, <4>2, Same, CopyToType
    <3>2. CASE ~Returns(l, i, b[i])
      BY <1>7, <3>2, Same
    <3>3. QED
      BY <3>1, <3>2
  <2>3. Looks("copyback", l, R)
    BY <1>2, <1>4, <2>1, PastFacts DEF Looks
  <2>4. Binding("copyback", l, R, b) /\ Holding("copyback", l, R, b, held[t])
    BY <1>3 DEF Binding, Todo, Filling, Holding
  <2>5. /\ left' = [left EXCEPT ![t] = R] /\ R \in SUBSET Nat
        /\ pc' = [pc EXCEPT ![t] = "copyback"] /\ bound' = [bound EXCEPT ![t] = b]
        /\ promise' = [promise EXCEPT ![t] = promise[t]]
    BY <1>1, <1>3, <1>5, <1>7, Same DEF Past, Leave
  <2> HIDE DEF R
  <2>6. QED
    BY <1>1, <1>2, <1>3, <1>7, <2>2, <2>3, <2>4, <2>5, Within DEF Steps
<1>8. CASE /\ Goto(t, "release") /\ Leave(t, DOMAIN l.args)
           /\ UNCHANGED <<pool, launch, bound, ram, before, promise, launches>>
  <2> DEFINE R == DOMAIN l.args
  <2>1. Looks("release", l, R)
    BY <1>2, MemberFacts DEF Looks
  <2>2. Binding("release", l, R, b) /\ Holding("release", l, R, b, held[t])
    BY <1>3 DEF Binding, Todo, Filling, Holding
  <2>3. /\ left' = [left EXCEPT ![t] = R] /\ R \in SUBSET Nat
        /\ pc' = [pc EXCEPT ![t] = "release"] /\ bound' = [bound EXCEPT ![t] = b]
        /\ promise' = [promise EXCEPT ![t] = promise[t]]
        /\ ram' \in [RamPlaces -> Values]
    BY <1>2, <1>5, <1>8, ArgFacts, Same DEF Goto, Leave
  <2> HIDE DEF R
  <2>4. QED
    BY <1>1, <1>2, <1>3, <1>8, <2>1, <2>2, <2>3, Within DEF Steps
<1>9. QED
  BY <1>6, <1>7, <1>8 DEF CopyBack, CopyBackOne

\* What is held when a group has been released.
LEMMA PastHolding ==
  ASSUME NEW l \in Launches, NEW S \in SUBSET DOMAIN l.args, NEW i \in S,
         NEW b, Binding("release", l, S, b)
  PROVE  Bufs(b, S \ Members(l, i)) = Bufs(b, S) \ {b[i]}
<1>1. \A j \in Members(l, i) : b[j] = b[i]
  BY DEF Binding
<1>2. \A j \in S : b[j] = b[i] /\ b[j] # None => j \in Members(l, i)
  BY DEF Binding
<1>3. QED
  BY <1>1, <1>2 DEF Bufs

\* The buffer of the group whose turn it is, if it has one.
LEMMA ReleaseShape ==
  ASSUME HostIInv, NEW t \in Threads, Release(t)
  PROVE  HostIInv' /\ [PoolNext]_pool
<1> DEFINE l == launch[t]
           b == bound[t]
           S == left[t]
<1>1. pc[t] = "release" /\ UNCHANGED ram
  BY DEF Release
<1>2. l \in Launches /\ Memories(l, promise[t]) /\ Memories(l, before[t])
  BY <1>1, Begun
<1>3. /\ b \in [DOMAIN l.args -> Buffers \cup {None}] /\ ~Inexpressible(l)
      /\ Looks("release", l, S) /\ Binding("release", l, S, b) /\ held[t] = Bufs(b, S)
      /\ S \in SUBSET Nat
  BY <1>1, Grouped DEF Holding
<1>4. S \in SUBSET DOMAIN l.args /\ \A j \in S : Members(l, j) \subseteq S
  BY <1>3 DEF Looks, Looping
<1>5. /\ at[t] \in {"out", "append"}
      /\ at[t] = "append" => \E i \in Turn(l, S) : gives[t] = b[i]
  BY <1>1, Same DEF LaunchOK, Pooling
<1>6. /\ ram' \in [RamPlaces -> Values] /\ l \in Launches \cup {None}
      /\ pc = [pc EXCEPT ![t] = "release"] /\ launch = [launch EXCEPT ![t] = l]
      /\ bound = [bound EXCEPT ![t] = b] /\ before = [before EXCEPT ![t] = before[t]]
      /\ promise = [promise EXCEPT ![t] = promise[t]] /\ left = [left EXCEPT ![t] = S]
      /\ launches \in 0 .. MaxLaunches
  BY <1>1, Same
<1>7. CASE S = {} /\ Finish(t) /\ UNCHANGED pool
  <2>1. at[t] = "out"
    BY <1>5, <1>7 DEF Turn
  <2>2. held[t] = {}
    BY <1>3, <1>7 DEF Bufs
  <2>3. [PoolNext]_pool /\ held' = [held EXCEPT ![t] = {}] /\ at' = [at EXCEPT ![t] = "out"]
        /\ gives' = [gives EXCEPT ![t] = gives[t]]
    BY <1>7, <2>1, <2>2, Outside
  <2>4. Finish(t)
    BY <1>7
  <2> HIDE DEF l, b, S
  <2>5. QED
    BY <1>1, <2>3, <2>4, FinishStep
<1>8. ASSUME NEW i \in Turn(l, S), ReleaseOne(t, l, i, b[i])
      PROVE  HostIInv' /\ [PoolNext]_pool
  <2> DEFINE R == S \ Members(l, i)
  <2>1. i \in S /\ i \in DOMAIN l.args /\ R \in SUBSET Nat
    BY <1>3, <1>4 DEF Turn
  <2>2. UNCHANGED <<pc, launch, bound, before, promise, launches>>
    BY <1>8 DEF ReleaseOne
  <2>3. Bufs(b, R) = Bufs(b, S) \ {b[i]}
    <3>1. l \in Launches /\ S \in SUBSET DOMAIN l.args /\ i \in S
      BY <1>2, <1>4, <2>1
    <3>2. Binding("release", l, S, b)
      BY <1>3
    <3> HIDE DEF l, b, S
    <3>3. QED
      BY <3>1, <3>2, PastHolding DEF R
  <2>4. Shape("release", l, R, b, held[t] \ {b[i]})
    <3>1. Looks("release", l, R)
      BY <1>2, <1>4, <2>1, PastFacts DEF Looks
    <3>2. Binding("release", l, R, b)
      BY <1>3 DEF Binding, Todo, Filling
    <3>3. Holding("release", l, R, b, held[t] \ {b[i]})
      BY <1>3, <2>3 DEF Holding
    <3> HIDE DEF R
    <3>4. QED
      BY <1>2, <1>3, <3>1, <3>2, <3>3 DEF Shape
  <2>5. Shape("release", l, S, b, held[t])
    BY <1>2, <1>3 DEF Shape, Holding
  <2> HIDE DEF R
  \* The turn has passed: the thread is out of the pool.
  <2>6. ASSUME [PoolNext]_pool, at' = [at EXCEPT ![t] = "out"],
               held' = [held EXCEPT ![t] = held[t] \ {b[i]}],
               NEW g, gives' = [gives EXCEPT ![t] = g]
        PROVE  HostIInv' /\ [PoolNext]_pool
    <3>1. at'[t] = "out"
      BY <2>6, Same DEF HostIInv, IInv, PoolTypeOK
    <3>2. left' = [left EXCEPT ![t] = R]
      BY <1>8, <3>1 DEF ReleaseOne, Past, Leave, R
    <3>3. Pooling("release", l, R, b, "out", g)
      BY DEF Pooling
    <3>4. /\ pc' = [pc EXCEPT ![t] = "release"] /\ launch' = [launch EXCEPT ![t] = l]
          /\ bound' = [bound EXCEPT ![t] = b] /\ before' = [before EXCEPT ![t] = before[t]]
          /\ promise' = [promise EXCEPT ![t] = promise[t]] /\ launches' \in 0 .. MaxLaunches
      BY <1>6, <2>2
    <3>5. "release" \in Steps
      BY DEF Steps
    <3> HIDE DEF l, b, S
    <3>6. QED
      BY <1>2, <1>6, <2>1, <2>4, <2>6, <3>2, <3>3, <3>4, <3>5, Move
  \* The turn goes on: the thread is about to append.
  <2>7. ASSUME [PoolNext]_pool, at' = [at EXCEPT ![t] = "append"],
               held' = [held EXCEPT ![t] = held[t]],
               NEW g, gives' = [gives EXCEPT ![t] = g],
               \E j \in Turn(l, S) : g = b[j]
        PROVE  HostIInv' /\ [PoolNext]_pool
    <3>1. at'[t] = "append"
      BY <2>7, Same DEF HostIInv, IInv, PoolTypeOK
    <3>2. left' = [left EXCEPT ![t] = S]
      BY <1>6, <1>8, <3>1 DEF ReleaseOne
    <3>3. Pooling("release", l, S, b, "append", g)
      BY <2>7 DEF Pooling
    <3>4. /\ pc' = [pc EXCEPT ![t] = "release"] /\ launch' = [launch EXCEPT ![t] = l]
          /\ bound' = [bound EXCEPT ![t] = b] /\ before' = [before EXCEPT ![t] = before[t]]
          /\ promise' = [promise EXCEPT ![t] = promise[t]] /\ launches' \in 0 .. MaxLaunches
      BY <1>6, <2>2
    <3>5. "release" \in Steps
      BY DEF Steps
    <3> HIDE DEF l, b, S
    <3>6. QED
      BY <1>2, <1>3, <1>6, <2>5, <2>7, <3>2, <3>3, <3>4, <3>5, Move
  <2>8. CASE b[i] = None /\ UNCHANGED pool
    <3>1. /\ [PoolNext]_pool /\ gives' = [gives EXCEPT ![t] = gives[t]]
          /\ at' = [at EXCEPT ![t] = at[t]] /\ held' = [held EXCEPT ![t] = held[t]]
      BY <2>8, Outside
    <3>2. held[t] \ {b[i]} = held[t]
      BY <1>3, <2>8 DEF Bufs
    <3>3. QED
      BY <1>5, <2>6, <2>7, <3>1, <3>2
  <2>9. CASE b[i] # None /\ Offer(t, b[i])
    <3>1. PoolNext
      <4>1. b[i] \in Buffers
        BY <1>3, <2>1, <2>9
      <4>2. QED
        BY <2>9, <4>1 DEF PoolNext
    <3>2. CASE /\ at' = [at EXCEPT ![t] = "append"]
               /\ gives' = [gives EXCEPT ![t] = b[i]]
               /\ UNCHANGED held
      BY <2>7, <3>1, <3>2, Same
    <3>3. CASE /\ held' = [held EXCEPT ![t] = @ \ {b[i]}]
               /\ UNCHANGED <<at, gives>>
      <4>1. at = [at EXCEPT ![t] = "out"] /\ gives = [gives EXCEPT ![t] = gives[t]]
        BY <2>9, Same DEF Offer
      <4>2. held' = [held EXCEPT ![t] = held[t] \ {b[i]}]
        BY <3>3
      <4>3. QED
        BY <2>6, <3>1, <3>3, <4>1, <4>2
    <3>4. QED
      BY <2>9, <3>2, <3>3 DEF Offer
  <2>10. CASE b[i] # None /\ Keep(t)
    <3>1. PoolNext
      BY <2>10 DEF PoolNext
    <3>2. PICK j \in Turn(l, S) : gives[t] = b[j]
      BY <1>5, <2>10 DEF Keep
    <3>3. gives[t] = b[i]
      BY <1>2, <1>4, <3>2, TurnUnique
    <3>4. /\ held' = [held EXCEPT ![t] = held[t] \ {b[i]}] /\ at' = [at EXCEPT ![t] = "out"]
          /\ gives' = [gives EXCEPT ![t] = None]
      BY <2>10, <3>3 DEF Keep
    <3>5. QED
      BY <2>6, <3>1, <3>4
  <2>11. QED
    BY <1>8, <2>8, <2>9, <2>10 DEF ReleaseOne
<1>9. QED
  BY <1>7, <1>8 DEF Release

LEMMA StepHostIInv ==
  ASSUME HostIInv, [HostNext]_vars
  PROVE  HostIInv' /\ [PoolNext]_pool
<1>1. CASE HostNext
  BY <1>1, BeginShape, GroupShape, MirrorShape, AcquireShape, CopyInShape, KernelShape,
     CopyBackShape, ReleaseShape DEF HostNext
<1>2. CASE UNCHANGED vars
  <2>1. UNCHANGED pool
    BY <1>2 DEF vars
  <2>2. IInv'
    BY <2>1, StutterIInv DEF HostIInv
  <2>3. HostTypes'
    BY <1>2 DEF vars, HostIInv, HostTypes
  <2>4. ASSUME NEW t \in Threads PROVE LaunchOK(t)'
    BY <1>2 DEF vars, pool, HostIInv, LaunchOK
  <2>5. QED
    BY <2>1, <2>2, <2>3, <2>4 DEF HostIInv
<1>3. QED
  BY <1>1, <1>2

LEMMA HostIInvAlways == HostSpec => []HostIInv
BY InitHostIInv, StepHostIInv, PTL DEF HostSpec

\* Launches of the host route use the pool as its specification says: with the
\* bracketing of acquire, copy, kernel and release in MetalLauncher.__call__ no
\* buffer is appended twice, appended while it is bound or popped for two launches.
THEOREM ImplementsPool == HostSpec => PoolSpec
<1>1. HostInit => PoolInit
  BY DEF HostInit
<1>2. QED
  BY <1>1, InitHostIInv, StepHostIInv, PTL DEF HostSpec, PoolSpec

\* So no mirror is written by two launches, and the lists stay short.
THEOREM MirrorsAreExclusive == HostSpec => [](Exclusive /\ Bounded)
BY ImplementsPool, BuffersAreExclusive, ListsAreBounded, PTL

\* The state keeps its shape: whatever the aliases, the offsets and the failures,
\* every store, copy in and copy back stays inside memory and the buffers.
THEOREM StaysInside == HostSpec => []TypeOK
<1>1. HostIInv => TypeOK
  <2> SUFFICES ASSUME HostIInv PROVE TypeOK
    OBVIOUS
  <2>1. PoolTypeOK /\ HostTypes
    BY DEF HostIInv, IInv
  <2>2. ASSUME NEW t \in Threads
        PROVE  bound[t] \in IF pc[t] \in {"idle", "group"} THEN {<<>>}
                            ELSE [DOMAIN launch[t].args -> Buffers \cup {None}]
    BY DEF HostIInv, LaunchOK, Shape
  <2>3. ASSUME NEW t \in Threads
        PROVE  {before[t], promise[t]} \subseteq IF launch[t] = None THEN {None} ELSE [Cells -> Values]
    BY DEF HostIInv, LaunchOK, Memories
  <2>4. QED
    BY <2>1, <2>2, <2>3 DEF HostTypes, TypeOK
<1>2. QED
  BY <1>1, HostIInvAlways, PTL

--------------------------------------------------------------------------------
\* The contents of memory and of the mirrors, when storages are equal or disjoint.

Offsets(l, i) == 0 .. l.args[i].storage.size - 1
Base(l, i) == l.args[i].storage.base

\* Where byte x of the storage of argument i is, in place or mirrored.
Spot(l, b, i, x) == IF b[i] = None THEN <<None, Base(l, i) + x>> ELSE <<b[i], x>>

\* What the kernel is given for the value v of a byte of argument i.
Given(l, i, v) == IF i \in Raws(l) THEN v ELSE Narrow(v)

\* In what follows m is memory and buffers, w is memory when the launch began and z
\* is what is promised.

\* Before the kernel memory is as it was,
Untouched(l, m, w) == \A c \in Touched(l) : m[<<None, c>>] = w[c]

\* and the mirrors that have been filled hold what it was.
Copied(l, S, b, m, w) ==
  \A i \in Tensors(l) \ S : b[i] # None =>
    \A x \in Offsets(l, i) : m[<<b[i], x>>] = Given(l, i, w[Base(l, i) + x])

\* During the kernel the arguments hold what the stores make of memory so far,
Follows(l, b, m, z) ==
  \A i \in Tensors(l) : \A x \in Offsets(l, i) : m[Spot(l, b, i, x)] = z[Base(l, i) + x]

\* the memory of mirrored ones is as it was,
Withheld(l, b, m, w) ==
  \A i \in Tensors(l) : b[i] # None => \A c \in Cell(l.args[i].storage) : m[<<None, c>>] = w[c]

\* and nothing is promised of what is not an output.
Kept(l, w, z) ==
  \A i \in Tensors(l) : \A c \in Cell(l.args[i].storage) \ Written(l) : z[c] = Given(l, i, w[c])

\* During the copies back what is promised is in the mirror of an output that is left,
\* and in memory for all the rest.
Returning(l, S, b, m, z) ==
  \A i \in Tensors(l) : \A x \in Offsets(l, i) :
    IF Returns(l, i, b[i]) /\ i \in S
    THEN m[<<b[i], x>>] = z[Base(l, i) + x]
    ELSE m[<<None, Base(l, i) + x>>] = z[Base(l, i) + x]

Returned(l, m, z) == \A c \in Touched(l) : m[<<None, c>>] = z[c]

Contents(q, l, S, b, m, w, z) ==
  /\ q \in {"group"} \cup Filling => Untouched(l, m, w)
  /\ q \in Filling => Copied(l, S, b, m, w)
  /\ q = "kernel" => Follows(l, b, m, z) /\ Withheld(l, b, m, w) /\ Kept(l, w, z)
  /\ q = "copyback" => Returning(l, S, b, m, z)
  /\ q = "release" => Returned(l, m, z)

ContentsOK(t) == Contents(pc[t], launch[t], left[t], bound[t], ram, before[t], promise[t])

\* No running launch writes what another uses.
AllApart ==
  \A t, u \in Threads : t # u /\ launch[t] # None /\ launch[u] # None =>
    Written(launch[t]) \cap Touched(launch[u]) = {}

ContentsInv == AllApart /\ \A t \in Threads : ContentsOK(t)

\* The bytes of a storage are its cells.
LEMMA CellFacts ==
  ASSUME NEW l \in Launches, NEW i \in Tensors(l)
  PROVE  /\ \A x \in Offsets(l, i) :
              /\ Base(l, i) + x \in Cell(l.args[i].storage) /\ Base(l, i) + x \in Cells
              /\ Base(l, i) + x \in Touched(l) /\ x \in Bytes
         /\ \A c \in Cell(l.args[i].storage) :
              /\ c - Base(l, i) \in Offsets(l, i) /\ c = Base(l, i) + (c - Base(l, i))
              /\ c \in Cells /\ c \in Touched(l)
<1> DEFINE s == l.args[i].storage
<1>1. s.base \in Nat /\ s.size \in Nat /\ Cell(s) \subseteq Cells
  BY ArgFacts
<1>2. Cell(s) \subseteq Touched(l)
  BY DEF Touched
<1>3. ASSUME NEW x \in Offsets(l, i) PROVE Base(l, i) + x \in Cell(s) /\ x \in Bytes
  BY <1>1, Fits DEF Offsets, Base, Cell
<1>4. ASSUME NEW c \in Cell(s)
      PROVE  c - Base(l, i) \in Offsets(l, i) /\ c = Base(l, i) + (c - Base(l, i))
  BY <1>1 DEF Offsets, Base, Cell
<1>5. QED
  BY <1>1, <1>2, <1>3, <1>4

\* What is not in one group is disjoint.
LEMMA GroupsApart ==
  ASSUME Separate(Launches), NEW l \in Launches, ~Inexpressible(l),
         NEW i \in Tensors(l), NEW j \in Tensors(l), j \notin Members(l, i)
  PROVE  Cell(l.args[i].storage) \cap Cell(l.args[j].storage) = {}
<1>1. CASE l.args[i].storage = l.args[j].storage
  <2>1. i # j /\ i \in DOMAIN l.args /\ j \in DOMAIN l.args
    BY MemberFacts, ArgFacts
  <2>2. AliasOf(l, i) /\ AliasOf(l, j)
    BY <1>1, <2>1 DEF AliasOf
  <2>3. l.args[i].kind # "double" /\ l.args[j].kind # "double"
    BY <2>1, <2>2 DEF Inexpressible
  <2>4. i \in Raws(l) /\ j \in Raws(l)
    BY <2>3 DEF Raws, Tensors
  <2>5. QED
    BY <1>1, <2>4 DEF Members, SameKey
<1>2. CASE l.args[i].storage # l.args[j].storage
  BY <1>2 DEF Separate
<1>3. QED
  BY <1>1, <1>2

LEMMA RawsAndDoubles ==
  ASSUME Separate(Launches), NEW l \in Launches, ~Inexpressible(l),
         NEW i \in Tensors(l), NEW c \in Cell(l.args[i].storage)
  PROVE  c \in Doubles(l) <=> i \notin Raws(l)
<1>1. CASE i \notin Raws(l)
  BY <1>1 DEF Doubles
<1>2. CASE i \in Raws(l)
  <2> SUFFICES ASSUME NEW j \in Tensors(l) \ Raws(l), c \in Cell(l.args[j].storage) PROVE FALSE
    BY <1>2 DEF Doubles
  <2>1. j \notin Members(l, i)
    BY <1>2 DEF Members
  <2>2. QED
    BY <2>1, GroupsApart
<1>3. QED
  BY <1>1, <1>2

LEMMA OutputsAreWritten ==
  ASSUME Separate(Launches), NEW l \in Launches, ~Inexpressible(l),
         NEW i \in Tensors(l), NEW c \in Cell(l.args[i].storage)
  PROVE  c \in Written(l) <=> IsOutput(l, i)
<1>1. ASSUME IsOutput(l, i) PROVE c \in Written(l)
  <2>1. PICK j \in Members(l, i) : j \in Tensors(l) \cap Outputs(l)
    BY <1>1 DEF IsOutput
  <2>2. l.args[j].storage = l.args[i].storage
    BY <2>1, ArgFacts, MemberFacts
  <2>3. QED
    BY <2>1, <2>2 DEF Written
<1>2. ASSUME c \in Written(l) PROVE IsOutput(l, i)
  <2>1. PICK j \in Tensors(l) \cap Outputs(l) : c \in Cell(l.args[j].storage)
    BY <1>2 DEF Written
  <2>2. j \in Members(l, i)
    BY <2>1, GroupsApart
  <2>3. QED
    BY <2>1, <2>2 DEF IsOutput
<1>3. QED
  BY <1>1, <1>2

\* Two bytes are in one place exactly if they are meant to be.
LEMMA SpotsApart ==
  ASSUME Separate(Launches), NEW l \in Launches, ~Inexpressible(l),
         NEW b \in [DOMAIN l.args -> Buffers \cup {None}], NEW q, NEW S, Binding(q, l, S, b),
         NEW i \in Tensors(l), NEW j \in Tensors(l), NEW x \in Offsets(l, i), NEW y \in Offsets(l, j)
  PROVE  Spot(l, b, i, x) = Spot(l, b, j, y) <=> Base(l, i) + x = Base(l, j) + y
<1>1. i \in DOMAIN l.args /\ j \in DOMAIN l.args
  BY ArgFacts
<1>2. Base(l, i) \in Nat /\ Base(l, j) \in Nat /\ x \in Nat /\ y \in Nat
  BY ArgFacts DEF Base, Offsets
<1>3. CASE j \in Members(l, i)
  <2>1. b[j] = b[i] /\ Base(l, j) = Base(l, i)
    BY <1>1, <1>3, MemberFacts DEF Binding, Base
  <2>2. Base(l, i) + x = Base(l, i) + y <=> x = y
    BY <1>2
  <2>3. QED
    BY <2>1, <2>2 DEF Spot
<1>4. CASE j \notin Members(l, i)
  <2>1. Base(l, i) + x # Base(l, j) + y
    BY <1>4, GroupsApart, CellFacts
  <2>2. ~(b[i] = b[j] /\ b[i] # None)
    BY <1>1, <1>4 DEF Binding
  <2>3. QED
    BY <2>1, <2>2 DEF Spot
<1>5. QED
  BY <1>3, <1>4

\* Contents depend on what the launch touches and on its buffers only.
LEMMA ContentsFrame ==
  ASSUME NEW l \in Launches, NEW q, NEW S, NEW b, NEW m, NEW n, NEW w, NEW z,
         Contents(q, l, S, b, m, w, z),
         \A c \in Touched(l) : n[<<None, c>>] = m[<<None, c>>],
         q \in Filling \cup {"kernel", "copyback"} =>
           \A i \in Tensors(l) : b[i] # None => \A x \in Bytes : n[<<b[i], x>>] = m[<<b[i], x>>]
  PROVE  Contents(q, l, S, b, n, w, z)
<1>1. CASE q \in {"group"} \cup Filling
  <2>1. Untouched(l, n, w)
    BY <1>1 DEF Contents, Untouched
  <2>2. q \in Filling => Copied(l, S, b, n, w)
    BY CellFacts DEF Contents, Copied
  <2>3. q \notin {"kernel", "copyback", "release"}
    BY <1>1 DEF Filling
  <2>4. QED
    BY <2>1, <2>2, <2>3 DEF Contents
<1>2. CASE q = "kernel"
  <2>1. Follows(l, b, n, z)
    <3> SUFFICES ASSUME NEW i \in Tensors(l), NEW x \in Offsets(l, i)
                 PROVE  n[Spot(l, b, i, x)] = z[Base(l, i) + x]
      BY DEF Follows
    <3>1. m[Spot(l, b, i, x)] = z[Base(l, i) + x]
      BY <1>2 DEF Contents, Follows
    <3>2. n[Spot(l, b, i, x)] = m[Spot(l, b, i, x)]
      BY <1>2, CellFacts DEF Spot
    <3>3. QED
      BY <3>1, <3>2
  <2>2. Withheld(l, b, n, w)
    BY <1>2, CellFacts DEF Contents, Withheld
  <2>3. QED
    BY <1>2, <2>1, <2>2 DEF Contents, Filling
<1>3. CASE q = "copyback"
  <2>1. Returning(l, S, b, n, z)
    <3> SUFFICES ASSUME NEW i \in Tensors(l), NEW x \in Offsets(l, i)
                 PROVE  IF Returns(l, i, b[i]) /\ i \in S
                        THEN n[<<b[i], x>>] = z[Base(l, i) + x]
                        ELSE n[<<None, Base(l, i) + x>>] = z[Base(l, i) + x]
      BY DEF Returning
    <3>1. n[<<None, Base(l, i) + x>>] = m[<<None, Base(l, i) + x>>]
      BY CellFacts
    <3>2. Returns(l, i, b[i]) => n[<<b[i], x>>] = m[<<b[i], x>>]
      BY <1>3, CellFacts DEF Returns
    <3>3. QED
      BY <1>3, <3>1, <3>2 DEF Contents, Returning
  <2>2. QED
    BY <1>3, <2>1 DEF Contents, Filling
<1>4. CASE q = "release"
  BY <1>4 DEF Contents, Returned, Filling
<1>5. CASE q \notin {"group", "kernel", "copyback", "release"} \cup Filling
  BY <1>5 DEF Contents
<1>6. QED
  BY <1>1, <1>2, <1>3, <1>4, <1>5

\* What a step of t leaves alone of another launch.
Others(t) ==
  \A u \in Threads \ {t} :
    /\ pc'[u] = pc[u] /\ launch'[u] = launch[u] /\ left'[u] = left[u] /\ bound'[u] = bound[u]
    /\ before'[u] = before[u] /\ promise'[u] = promise[u] /\ held'[u] = held[u]

\* What it may change: memory that it writes, and buffers that it holds.
Effects(t) ==
  \A p \in RamPlaces : ram'[p] # ram[p] =>
    \/ p[1] = None /\ launch[t] \in Launches /\ p[2] \in Written(launch[t])
    \/ p[1] \in held[t]

LEMMA PoolOthers ==
  ASSUME NEW t \in Threads, NEW u \in Threads \ {t}, DOMAIN held = Threads,
         \/ UNCHANGED pool \/ Unwind(t) \/ (\E n : Look(t, n))
         \/ Pop(t) \/ Map(t) \/ PopEmpty(t) \/ MapFails(t) \/ (\E b : Offer(t, b)) \/ Keep(t)
  PROVE  held'[u] = held[u]
BY DEF pool, Unwind, Look, Pop, Map, PopEmpty, MapFails, Offer, Keep, Take

LEMMA FinishOthers ==
  ASSUME HostIInv, NEW t \in Threads, Finish(t), NEW u \in Threads \ {t}
  PROVE  /\ pc'[u] = pc[u] /\ launch'[u] = launch[u] /\ left'[u] = left[u] /\ bound'[u] = bound[u]
         /\ before'[u] = before[u] /\ promise'[u] = promise[u]
BY DEF HostIInv, HostTypes, Finish, Goto, Leave

LEMMA FailOthers ==
  ASSUME HostIInv, NEW t \in Threads, Fail(t)
  PROVE  Others(t) /\ UNCHANGED ram
<1>1. DOMAIN held = Threads
  BY DEF HostIInv, IInv, PoolTypeOK
<1>2. QED
  BY <1>1, PoolOthers, FinishOthers DEF Fail, Others

LEMMA OthersKept ==
  ASSUME HostIInv, NEW t \in Threads,
         \/ Begin(t) \/ Group(t) \/ Mirror(t) \/ Acquire(t) \/ CopyIn(t) \/ Kernel(t)
         \/ CopyBack(t) \/ Release(t)
  PROVE  Others(t)
<1>1. DOMAIN held = Threads
  BY DEF HostIInv, IInv, PoolTypeOK
<1>2. CASE Fail(t)
  BY <1>2, FailOthers
<1>3. CASE Finish(t) /\ ~Fail(t)
  <2>1. Acquire(t) \/ Release(t)
    <3>1. pc'[t] = "idle"
      BY <1>3, Same DEF Finish, Goto, HostIInv, HostTypes
    <3>2. ~Begin(t)
      BY <3>1 DEF Begin, Goto, HostIInv, HostTypes
    <3>3. ~Group(t) /\ ~CopyIn(t)
      BY <1>3, <3>1 DEF Group, CopyIn, Goto, HostIInv, HostTypes
    <3>4. ~Mirror(t)
      BY <1>3, <3>1 DEF Mirror, MirrorOne, Goto, HostIInv, HostTypes
    <3>5. ~Kernel(t)
      BY <1>3, <3>1 DEF Kernel, Store, Goto, HostIInv, HostTypes
    <3>6. ~CopyBack(t)
      BY <1>3, <3>1 DEF CopyBack, CopyBackOne, Goto, HostIInv, HostTypes
    <3>7. QED
      BY <3>2, <3>3, <3>4, <3>5, <3>6
  <2>2. ASSUME NEW u \in Threads \ {t} PROVE held'[u] = held[u]
    <3>1. CASE Acquire(t)
      BY <1>1, <3>1, PoolOthers DEF Acquire
    <3>2. CASE Release(t)
      BY <1>1, <3>2, PoolOthers DEF Release, ReleaseOne
    <3>3. QED
      BY <2>1, <3>1, <3>2
  <2>3. QED
    BY <1>3, <2>2, FinishOthers DEF Others
<1>4. CASE ~Finish(t) /\ ~Fail(t)
  <2>1. SUFFICES ASSUME NEW u \in Threads \ {t}
                 PROVE  /\ pc'[u] = pc[u] /\ launch'[u] = launch[u] /\ left'[u] = left[u]
                        /\ bound'[u] = bound[u] /\ before'[u] = before[u]
                        /\ promise'[u] = promise[u] /\ held'[u] = held[u]
    BY DEF Others
  <2>2. CASE Begin(t) \/ Group(t)
    BY <1>1, <1>4, <2>2, PoolOthers DEF HostIInv, HostTypes, Begin, Group, Goto, Leave
  <2>3. CASE Mirror(t)
    <3>1. held'[u] = held[u]
      BY <1>1, <1>4, <2>3, PoolOthers DEF Mirror, MirrorOne, pool
    <3>2. QED
      BY <1>4, <2>3, <3>1 DEF HostIInv, HostTypes, Mirror, MirrorOne, Goto, Leave, Past
  <2>4. CASE Acquire(t)
    <3>1. held'[u] = held[u]
      BY <1>1, <2>4, PoolOthers DEF Acquire
    <3>2. QED
      BY <1>4, <2>4, <3>1 DEF HostIInv, HostTypes, Acquire, Goto, Leave
  <2>5. CASE CopyIn(t)
    <3>1. held'[u] = held[u]
      BY <1>1, <2>5, PoolOthers DEF CopyIn
    <3>2. QED
      BY <2>5, <3>1 DEF HostIInv, HostTypes, CopyIn, Goto, Leave, Past
  <2>6. CASE Kernel(t)
    <3>1. held'[u] = held[u]
      BY <1>1, <1>4, <2>6, PoolOthers DEF Kernel, Store
    <3>2. QED
      BY <1>4, <2>6, <3>1 DEF HostIInv, HostTypes, Kernel, Store, Goto, Leave
  <2>7. CASE CopyBack(t)
    <3>1. held'[u] = held[u]
      BY <1>1, <1>4, <2>7, PoolOthers DEF CopyBack, CopyBackOne
    <3>2. QED
      BY <1>4, <2>7, <3>1 DEF HostIInv, HostTypes, CopyBack, CopyBackOne, Goto, Leave, Past
  <2>8. CASE Release(t)
    <3>1. held'[u] = held[u]
      BY <1>1, <2>8, PoolOthers DEF Release, ReleaseOne
    <3>2. QED
      BY <1>4, <2>8, <3>1 DEF HostIInv, HostTypes, Release, ReleaseOne, Goto, Leave, Past
  <2>9. QED
    BY <2>2, <2>3, <2>4, <2>5, <2>6, <2>7, <2>8
<1>5. QED
  BY <1>2, <1>3, <1>4

\* The contents that another launch relies on are kept.
LEMMA OtherContents ==
  ASSUME HostIInv, ContentsInv, NEW t \in Threads, Others(t), Effects(t), NEW u \in Threads \ {t}
  PROVE  ContentsOK(u)'
<1> DEFINE l == launch[u]
           b == bound[u]
           q == pc[u]
<1>1. ContentsOK(u)
  BY DEF ContentsInv
<1>2. CASE q = "idle"
  BY <1>2 DEF Others, ContentsOK, Contents, Filling
<1>3. CASE q # "idle"
  <2>1. l \in Launches
    BY <1>3, Begun
  <2>2. ASSUME NEW c \in Touched(l) PROVE ram'[<<None, c>>] = ram[<<None, c>>]
    <3>1. c \in Cells
      BY <2>1, ArgFacts DEF Touched
    <3>2. <<None, c>> \in RamPlaces /\ None \notin held[t]
      BY <3>1, PlaceFacts, ListAssumption DEF HostIInv, IInv, PoolTypeOK
    <3>3. launch[t] \in Launches => c \notin Written(launch[t])
      BY <2>1, ArgFacts DEF ContentsInv, AllApart
    <3>4. QED
      BY <3>2, <3>3 DEF Effects
  <2>3. ASSUME q \in Filling \cup {"kernel", "copyback"}, NEW i \in Tensors(l), b[i] # None, NEW x \in Bytes
        PROVE  ram'[<<b[i], x>>] = ram[<<b[i], x>>]
    <3>1. b[i] \in held[u]
      <4>1. i \in DOMAIN l.args
        BY <2>1, ArgFacts
      <4>2. Holding(q, l, left[u], b, held[u])
        BY <2>3, Grouped DEF Filling
      <4>3. b[i] \in Bufs(b, DOMAIN l.args)
        BY <2>3, <4>1 DEF Bufs
      <4>4. QED
        BY <2>3, <4>2, <4>3 DEF Holding, Filling
    <3>2. b[i] \notin held[t] /\ b[i] \in Buffers
      BY <3>1 DEF HostIInv, IInv, Exclusive, PoolTypeOK
    <3>3. <<b[i], x>> \in RamPlaces
      BY <3>2, PlaceFacts
    <3>4. QED
      BY <2>3, <3>2, <3>3 DEF Effects
  <2>4. Contents(q, l, left[u], b, ram', before[u], promise[u])
    <3>1. Contents(q, l, left[u], b, ram, before[u], promise[u])
      BY <1>1 DEF ContentsOK
    <3> HIDE DEF l, b, q
    <3>2. QED
      BY <2>1, <2>2, <2>3, <3>1, ContentsFrame
  <2>5. QED
    BY <2>4 DEF Others, ContentsOK
<1>4. QED
  BY <1>2, <1>3

\* Launches that are apart stay apart when one ends or goes on.
LEMMA StillApart ==
  ASSUME AllApart, NEW t \in Threads, Others(t), launch'[t] \in {launch[t], None}
  PROVE  AllApart'
<1> SUFFICES ASSUME NEW v \in Threads, NEW u \in Threads, v # u, launch'[v] # None, launch'[u] # None
             PROVE  Written(launch'[v]) \cap Touched(launch'[u]) = {}
  BY DEF AllApart
<1>1. launch'[v] = launch[v] /\ launch'[u] = launch[u]
  BY DEF Others
<1>2. QED
  BY <1>1 DEF AllApart

\* A step of one thread keeps ContentsInv if it keeps its own contents.
LEMMA ContentsMove ==
  ASSUME HostIInv, ContentsInv, NEW t \in Threads, Others(t), Effects(t), AllApart', ContentsOK(t)'
  PROVE  ContentsInv'
BY OtherContents DEF ContentsInv

\* A step that leaves memory and buffers alone.
LEMMA QuietEffects == ASSUME NEW t \in Threads, UNCHANGED ram PROVE Effects(t)
BY DEF Effects

\* The end of a launch.
LEMMA FinishContents ==
  ASSUME HostIInv, ContentsInv, NEW t \in Threads, Others(t), Finish(t), UNCHANGED ram
  PROVE  ContentsInv'
<1>1. pc'[t] = "idle" /\ launch'[t] = None
  BY DEF HostIInv, HostTypes, Finish, Goto
<1>2. ContentsOK(t)'
  BY <1>1 DEF ContentsOK, Contents, Filling
<1>3. AllApart'
  BY <1>1, StillApart DEF ContentsInv
<1>4. QED
  BY <1>2, <1>3, QuietEffects, ContentsMove

\* A step that keeps the launch, its bindings and what is in memory and buffers.
LEMMA QuietContents ==
  ASSUME HostIInv, ContentsInv, NEW t \in Threads, Others(t), UNCHANGED <<launch, ram>>,
         Contents(pc'[t], launch[t], left'[t], bound'[t], ram, before'[t], promise'[t])
  PROVE  ContentsInv'
<1>1. ContentsOK(t)'
  BY DEF ContentsOK
<1>2. AllApart'
  BY StillApart DEF ContentsInv
<1>3. QED
  BY <1>1, <1>2, QuietEffects, ContentsMove

LEMMA BeginContents ==
  ASSUME HostIInv, ContentsInv, NEW t \in Threads, Begin(t)
  PROVE  ContentsInv'
<1>1. PICK l \in Launches : Apart(l) /\ launch' = [launch EXCEPT ![t] = l]
  BY DEF Begin
<1>2. /\ pc'[t] = "group" /\ before'[t] = Now /\ launch'[t] = l /\ UNCHANGED ram
  BY <1>1 DEF HostIInv, HostTypes, Begin, Goto
<1>3. Others(t)
  BY OthersKept
<1>4. ContentsOK(t)'
  <2>1. Untouched(l, ram, Now)
    BY ArgFacts DEF Untouched, Now, Touched
  <2>2. Contents("group", l, left'[t], bound'[t], ram, Now, promise'[t])
    BY <2>1 DEF Contents, Filling
  <2>3. QED
    BY <1>2, <2>2 DEF ContentsOK
<1>5. AllApart'
  <2> SUFFICES ASSUME NEW v \in Threads, NEW u \in Threads, v # u, launch'[v] # None, launch'[u] # None
               PROVE  Written(launch'[v]) \cap Touched(launch'[u]) = {}
    BY DEF AllApart
  <2>1. CASE v = t
    <3>1. launch'[u] = launch[u] /\ launch'[v] = l
      BY <1>2, <1>3, <2>1 DEF Others
    <3>2. QED
      BY <1>1, <3>1 DEF Apart
  <2>2. CASE u = t
    <3>1. launch'[v] = launch[v] /\ launch'[u] = l
      BY <1>2, <1>3, <2>2 DEF Others
    <3>2. QED
      BY <1>1, <3>1 DEF Apart
  <2>3. CASE v # t /\ u # t
    BY <1>3, <2>3 DEF Others, ContentsInv, AllApart
  <2>4. QED
    BY <2>1, <2>2, <2>3
<1>6. QED
  BY <1>2, <1>3, <1>4, <1>5, QuietEffects, ContentsMove

LEMMA GroupContents ==
  ASSUME HostIInv, ContentsInv, NEW t \in Threads, Group(t)
  PROVE  ContentsInv'
<1>1. Others(t)
  BY OthersKept
<1>2. CASE Fail(t)
  BY <1>1, <1>2, FailOthers, FinishContents DEF Fail
<1>3. CASE ~Fail(t)
  <2>1. /\ pc[t] = "group" /\ pc'[t] = "mirror" /\ left'[t] = DOMAIN launch[t].args
        /\ UNCHANGED <<launch, ram, before, promise>>
    BY <1>3 DEF HostIInv, HostTypes, Group, Goto, Leave
  <2>2. Untouched(launch[t], ram, before[t])
    BY <2>1 DEF ContentsInv, ContentsOK, Contents
  <2>3. Tensors(launch[t]) \subseteq left'[t]
    BY <2>1 DEF Tensors
  <2>4. Contents("mirror", launch[t], left'[t], bound'[t], ram, before[t], promise[t])
    BY <2>2, <2>3 DEF Contents, Copied, Filling
  <2>5. QED
    BY <1>1, <2>1, <2>4, QuietContents
<1>4. QED
  BY <1>2, <1>3

LEMMA MirrorContents ==
  ASSUME Separate(Launches), HostIInv, ContentsInv, NEW t \in Threads, Mirror(t)
  PROVE  ContentsInv'
<1> DEFINE l == launch[t]
           b == bound[t]
           S == left[t]
<1>1. Others(t)
  BY OthersKept
<1>2. pc[t] = "mirror" /\ l \in Launches
  BY Begun DEF Mirror
<1>3. Untouched(l, ram, before[t]) /\ Copied(l, S, b, ram, before[t])
  BY <1>2 DEF ContentsInv, ContentsOK, Contents, Filling
<1>4. Binding("mirror", l, S, b) /\ ~Inexpressible(l) /\ Looks("mirror", l, S)
  BY <1>2, Grouped
<1>5. CASE Fail(t)
  BY <1>1, <1>5, FailOthers, FinishContents DEF Fail
<1>6. ASSUME NEW i \in Turn(l, S), MirrorOne(t, l, i), ~Fail(t)
      PROVE  ContentsInv'
  <2>1. UNCHANGED <<launch, bound, ram, before, promise>>
    BY <1>6 DEF MirrorOne
  <2>2. pc'[t] \in Filling
    BY <1>2, <1>6 DEF HostIInv, HostTypes, MirrorOne, Goto, Filling
  <2>3. left'[t] \subseteq S /\ \A j \in S \ left'[t] : b[j] = None
    <3>1. left'[t] \subseteq S
      BY <1>6 DEF HostIInv, HostTypes, MirrorOne, Past, Leave
    <3>2. \A j \in S : b[j] = None
      BY <1>4 DEF Binding, Todo, Filling
    <3>3. QED
      BY <3>1, <3>2
  <2>4. Copied(l, left'[t], b, ram, before[t])
    BY <1>3, <2>3 DEF Copied
  <2>5. Contents(pc'[t], l, left'[t], b, ram, before[t], promise[t])
    BY <1>3, <2>2, <2>4 DEF Contents, Filling
  <2>6. QED
    BY <1>1, <2>1, <2>5, QuietContents
<1>7. ASSUME S = {}, Goto(t, "kernel"), promise' = [promise EXCEPT ![t] = Narrowed(l)],
             UNCHANGED <<launch, bound, ram, before>>
      PROVE  ContentsInv'
  <2> DEFINE z == Narrowed(l)
  <2>1. pc'[t] = "kernel" /\ promise'[t] = z
    BY <1>7 DEF HostIInv, HostTypes, Goto
  <2>2. ASSUME NEW i \in Tensors(l), NEW c \in Cell(l.args[i].storage)
        PROVE  ram[<<None, c>>] = before[t][c] /\ z[c] = Given(l, i, before[t][c])
    <3>1. c \in Cells /\ c \in Touched(l)
      BY <1>2, <2>2, CellFacts
    <3>2. ram[<<None, c>>] = before[t][c]
      BY <1>3, <3>1 DEF Untouched
    <3>3. c \in Doubles(l) <=> i \notin Raws(l)
      BY <1>2, <1>4, <2>2, RawsAndDoubles
    <3>4. QED
      BY <3>1, <3>2, <3>3 DEF Narrowed, Given
  <2>3. Follows(l, b, ram, z)
    <3> SUFFICES ASSUME NEW i \in Tensors(l), NEW x \in Offsets(l, i)
                 PROVE  ram[Spot(l, b, i, x)] = z[Base(l, i) + x]
      BY DEF Follows
    <3>1. Base(l, i) + x \in Cell(l.args[i].storage)
      BY <1>2, CellFacts
    <3>2. /\ ram[<<None, Base(l, i) + x>>] = before[t][Base(l, i) + x]
          /\ z[Base(l, i) + x] = Given(l, i, before[t][Base(l, i) + x])
      BY <2>2, <3>1
    <3>3. CASE b[i] = None
      <4>1. i \in Raws(l)
        BY <1>2, <1>4, <1>7, <3>3, ArgFacts DEF Binding, Todo, InPlace
      <4>2. QED
        BY <3>2, <3>3, <4>1 DEF Spot, Given
    <3>4. CASE b[i] # None
      BY <1>3, <1>7, <3>2, <3>4 DEF Copied, Spot
    <3>5. QED
      BY <3>3, <3>4
  <2>4. Withheld(l, b, ram, before[t]) /\ Kept(l, before[t], z)
    BY <2>2 DEF Withheld, Kept
  <2> HIDE DEF z
  <2>5. Contents("kernel", l, left'[t], b, ram, before[t], z)
    BY <2>3, <2>4 DEF Contents, Filling
  <2>6. QED
    BY <1>1, <1>7, <2>1, <2>5, QuietContents
<1>8. QED
  BY <1>5, <1>6, <1>7 DEF Mirror

LEMMA AcquireContents ==
  ASSUME HostIInv, ContentsInv, NEW t \in Threads, Acquire(t)
  PROVE  ContentsInv'
<1>1. Others(t) /\ UNCHANGED ram
  BY OthersKept DEF Acquire
<1>2. CASE Finish(t)
  BY <1>1, <1>2, FinishContents
<1>3. CASE ~Finish(t)
  <2>1. pc[t] = "acquire" /\ pc'[t] = "copyin" /\ UNCHANGED <<launch, left, bound, before, promise>>
    BY <1>3 DEF HostIInv, HostTypes, Acquire, Goto
  <2>2. Contents("copyin", launch[t], left[t], bound[t], ram, before[t], promise[t])
    BY <2>1 DEF ContentsInv, ContentsOK, Contents, Filling
  <2>3. QED
    BY <1>1, <2>1, <2>2, QuietContents
<1>4. QED
  BY <1>2, <1>3

LEMMA CopyInContents ==
  ASSUME HostIInv, ContentsInv, NEW t \in Threads, CopyIn(t)
  PROVE  ContentsInv'
<1> DEFINE l == launch[t]
           b == bound[t]
           S == left[t]
<1>1. Others(t)
  BY OthersKept
<1>2. PICK i \in Turn(l, S), c \in held[t] :
        /\ \A j \in DOMAIN l.args : b[j] # c
        /\ ram' = CopyOf(l, i, c)
        /\ bound' = [bound EXCEPT ![t] =
             [j \in DOMAIN l.args |-> IF j \in Members(l, i) THEN c ELSE b[j]]]
        /\ Past(t, l, i)
  BY DEF CopyIn
<1> DEFINE d == [j \in DOMAIN l.args |-> IF j \in Members(l, i) THEN c ELSE b[j]]
           R == S \ Members(l, i)
<1>3. /\ pc[t] = "copyin" /\ pc'[t] = "mirror" /\ left'[t] = R /\ bound'[t] = d
      /\ UNCHANGED <<launch, before, promise>>
  BY <1>2 DEF HostIInv, HostTypes, CopyIn, Goto, Past, Leave
<1>4. l \in Launches
  BY <1>3, Begun
<1>5. Untouched(l, ram, before[t]) /\ Copied(l, S, b, ram, before[t])
  BY <1>3 DEF ContentsInv, ContentsOK, Contents, Filling
<1>6. S \subseteq DOMAIN l.args /\ i \in S
  BY <1>3, Grouped DEF Looks, Looping, Turn
<1>7. c \in Buffers /\ c # None
  BY ListAssumption DEF HostIInv, IInv, PoolTypeOK
<1>8. Effects(t)
  BY <1>2 DEF Effects, CopyOf
<1>9. Untouched(l, ram', before[t])
  <2> SUFFICES ASSUME NEW a \in Touched(l) PROVE ram'[<<None, a>>] = before[t][a]
    BY DEF Untouched
  <2>1. a \in Cells
    BY <1>4, ArgFacts DEF Touched
  <2>2. ram'[<<None, a>>] = ram[<<None, a>>]
    BY <1>2, <1>7, <2>1, PlaceFacts DEF CopyOf
  <2>3. QED
    BY <1>5, <2>2 DEF Untouched
<1>10. Copied(l, R, d, ram', before[t])
  <2> SUFFICES ASSUME NEW j \in Tensors(l) \ R, d[j] # None, NEW x \in Offsets(l, j)
               PROVE  ram'[<<d[j], x>>] = Given(l, j, before[t][Base(l, j) + x])
    BY DEF Copied
  <2>1. j \in DOMAIN l.args /\ x \in Bytes /\ Base(l, j) + x \in Touched(l)
    BY <1>4, ArgFacts, CellFacts
  <2>2. CASE j \in Members(l, i)
    <3>1. /\ d[j] = c /\ i \in Tensors(l) /\ i \in DOMAIN l.args
          /\ l.args[j].storage = l.args[i].storage /\ (j \in Raws(l) <=> i \in Raws(l))
      BY <1>4, <1>6, <2>1, <2>2, MemberFacts
    <3>2. <<c, x>> \in RamPlaces /\ x < l.args[i].storage.size
      BY <1>4, <1>7, <2>1, <3>1, PlaceFacts, ArgFacts DEF Offsets
    <3>3. ram'[<<c, x>>] = Given(l, i, ram[<<None, l.args[i].storage.base + x>>])
      BY <1>2, <3>1, <3>2 DEF CopyOf, Given
    <3>4. ram[<<None, Base(l, j) + x>>] = before[t][Base(l, j) + x]
      BY <1>5, <2>1 DEF Untouched
    <3>5. QED
      BY <3>1, <3>3, <3>4 DEF Given, Base
  <2>3. CASE j \notin Members(l, i)
    <3>1. d[j] = b[j] /\ b[j] # c /\ j \in Tensors(l) \ S /\ b[j] # None
      BY <1>2, <2>1, <2>3
    <3>2. <<b[j], x>> \in RamPlaces
      <4>1. b[j] \in Buffers
        BY <1>3, <2>1, <3>1, Grouped
      <4>2. QED
        BY <2>1, <4>1, PlaceFacts
    <3>3. ram'[<<b[j], x>>] = ram[<<b[j], x>>]
      BY <1>2, <3>1, <3>2 DEF CopyOf
    <3>4. QED
      BY <1>5, <3>1, <3>3 DEF Copied
  <2>4. QED
    BY <2>2, <2>3
<1> HIDE DEF d, R
<1>11. ContentsOK(t)'
  BY <1>3, <1>9, <1>10 DEF ContentsOK, Contents, Filling
<1>12. AllApart'
  BY <1>1, <1>3, StillApart DEF ContentsInv
<1>13. QED
  BY <1>1, <1>8, <1>11, <1>12, ContentsMove

\* Where an element is and where it is meant to be.
LEMMA PlaceSpot ==
  ASSUME NEW l \in Launches, NEW b, NEW p, Reaches(l, p)
  PROVE  /\ p[1] \in Tensors(l) /\ Index(l, p) \in Offsets(l, p[1])
         /\ Place(l, b, p) = Spot(l, b, p[1], Index(l, p))
         /\ Meant(l, p) = Base(l, p[1]) + Index(l, p)
BY DEF Reaches, Offsets, Place, Spot, Meant, Base

\* One store, done in the place where its argument is and where it is meant to be.
LEMMA StoreContents ==
  ASSUME Separate(Launches), HostIInv, ContentsInv, NEW t \in Threads, pc[t] = "kernel", Others(t),
         NEW k \in left[t], Store(t, launch[t], k)
  PROVE  ContentsInv'
<1> DEFINE l == launch[t]
           b == bound[t]
           to == l.ops[k].to
           from == l.ops[k].from
           w == before[t]
           z == promise[t]
           y == [z EXCEPT ![Meant(l, to)] = Change(z[Meant(l, from)])]
           i == to[1]
           x == Index(l, to)
<1>1. l \in Launches /\ w \in [Cells -> Values] /\ z \in [Cells -> Values]
  BY Begun, ArgFacts DEF Memories
<1>2. /\ b \in [DOMAIN l.args -> Buffers \cup {None}] /\ ~Inexpressible(l)
      /\ Binding("kernel", l, left[t], b) /\ k \in DOMAIN l.ops /\ held[t] = Bufs(b, DOMAIN l.args)
  BY Grouped DEF Looks, Holding
<1>3. Reaches(l, to) /\ Reaches(l, from) /\ i \in Outputs(l)
  BY <1>1, <1>2, LaunchAssumption
<1>4. Follows(l, b, ram, z) /\ Withheld(l, b, ram, w) /\ Kept(l, w, z)
  BY DEF ContentsInv, ContentsOK, Contents
<1>5. /\ ram' = [ram EXCEPT ![Place(l, b, to)] = Change(ram[Place(l, b, from)])]
      /\ pc'[t] = "kernel" /\ promise'[t] = y /\ UNCHANGED <<launch, bound, before>>
  BY DEF HostIInv, HostTypes, Store
<1>6. /\ i \in Tensors(l) /\ x \in Offsets(l, i)
      /\ Place(l, b, to) = Spot(l, b, i, x) /\ Meant(l, to) = Base(l, i) + x
  BY <1>1, <1>3, PlaceSpot
<1>7. Base(l, i) + x \in Cell(l.args[i].storage) /\ Base(l, i) + x \in Written(l) /\ Base(l, i) + x \in Cells
  BY <1>1, <1>3, <1>6, CellFacts DEF Written
<1>8. ram[Place(l, b, from)] = z[Meant(l, from)]
  <2>1. /\ from[1] \in Tensors(l) /\ Index(l, from) \in Offsets(l, from[1])
        /\ Place(l, b, from) = Spot(l, b, from[1], Index(l, from))
        /\ Meant(l, from) = Base(l, from[1]) + Index(l, from)
    BY <1>1, <1>3, PlaceSpot
  <2>2. QED
    BY <1>4, <2>1 DEF Follows
<1>9. DOMAIN ram = RamPlaces /\ Place(l, b, to) \in RamPlaces
  BY <1>1, <1>2, <1>3, PlaceType, Same
<1> HIDE DEF to, from, i, x
<1>10. Follows(l, b, ram', y)
  <2> SUFFICES ASSUME NEW j \in Tensors(l), NEW o \in Offsets(l, j)
               PROVE  ram'[Spot(l, b, j, o)] = y[Base(l, j) + o]
    BY DEF Follows
  <2>1. Spot(l, b, j, o) = Spot(l, b, i, x) <=> Base(l, j) + o = Base(l, i) + x
    BY <1>1, <1>2, <1>6, SpotsApart
  <2>2. Spot(l, b, j, o) \in RamPlaces
    <3>1. j \in DOMAIN l.args /\ o \in Bytes /\ Base(l, j) + o \in Cells
      BY <1>1, ArgFacts, CellFacts
    <3>2. b[j] = None \/ b[j] \in Buffers
      BY <1>2, <3>1
    <3>3. QED
      BY <3>1, <3>2, PlaceFacts DEF Spot
  <2>3. Base(l, j) + o \in Cells
    BY <1>1, CellFacts
  <2>4. ram[Spot(l, b, j, o)] = z[Base(l, j) + o]
    BY <1>4 DEF Follows
  <2>5. CASE Base(l, j) + o = Base(l, i) + x
    BY <1>1, <1>5, <1>6, <1>8, <1>9, <2>1, <2>2, <2>3, <2>5
  <2>6. CASE Base(l, j) + o # Base(l, i) + x
    BY <1>1, <1>5, <1>6, <1>9, <2>1, <2>2, <2>3, <2>4, <2>6
  <2>7. QED
    BY <2>5, <2>6
<1>11. Withheld(l, b, ram', w)
  <2> SUFFICES ASSUME NEW j \in Tensors(l), b[j] # None, NEW c \in Cell(l.args[j].storage)
               PROVE  ram'[<<None, c>>] = w[c]
    BY DEF Withheld
  <2>1. <<None, c>> # Place(l, b, to)
    <3>1. CASE b[i] # None
      BY <1>6, <3>1 DEF Spot
    <3>2. CASE b[i] = None
      <4>1. i \notin Members(l, j)
        <5>1. j \in DOMAIN l.args
          BY <1>1, ArgFacts
        <5>2. QED
          BY <1>2, <3>2, <5>1 DEF Binding
      <4>2. Base(l, i) + x # c
        BY <1>1, <1>2, <1>6, <1>7, <4>1, GroupsApart
      <4>3. QED
        BY <1>6, <3>2, <4>2 DEF Spot
    <3>3. QED
      BY <3>1, <3>2
  <2>2. <<None, c>> \in RamPlaces
    BY <1>1, CellFacts, PlaceFacts
  <2>3. ram[<<None, c>>] = w[c]
    BY <1>4 DEF Withheld
  <2>4. QED
    BY <1>5, <1>9, <2>1, <2>2, <2>3
<1>12. Kept(l, w, y)
  <2> SUFFICES ASSUME NEW j \in Tensors(l), NEW c \in Cell(l.args[j].storage) \ Written(l)
               PROVE  y[c] = Given(l, j, w[c])
    BY DEF Kept
  <2>1. c # Meant(l, to) /\ c \in Cells
    BY <1>1, <1>6, <1>7, CellFacts
  <2>2. y[c] = z[c]
    BY <1>1, <2>1
  <2>3. QED
    BY <1>4, <2>2 DEF Kept
<1>13. Effects(t)
  <2>1. ASSUME NEW p \in RamPlaces, ram'[p] # ram[p] PROVE p = Spot(l, b, i, x)
    BY <1>5, <1>6, <1>9, <2>1
  <2>2. b[i] # None => b[i] \in held[t]
    BY <1>1, <1>2, <1>6, ArgFacts DEF Bufs
  <2>3. QED
    BY <1>1, <1>7, <2>1, <2>2 DEF Effects, Spot
<1> HIDE DEF y
<1>14. ContentsOK(t)'
  BY <1>5, <1>10, <1>11, <1>12 DEF ContentsOK, Contents, Filling
<1>15. AllApart'
  BY <1>5, StillApart DEF ContentsInv
<1>16. QED
  BY <1>13, <1>14, <1>15, ContentsMove

LEMMA KernelContents ==
  ASSUME Separate(Launches), HostIInv, ContentsInv, NEW t \in Threads, Kernel(t)
  PROVE  ContentsInv'
<1> DEFINE l == launch[t]
           b == bound[t]
           w == before[t]
           z == promise[t]
<1>1. Others(t)
  BY OthersKept
<1>2. pc[t] = "kernel" /\ l \in Launches /\ w \in [Cells -> Values] /\ z \in [Cells -> Values]
  BY Begun, ArgFacts DEF Kernel, Memories
<1>3. Follows(l, b, ram, z) /\ Withheld(l, b, ram, w) /\ Kept(l, w, z)
  BY <1>2 DEF ContentsInv, ContentsOK, Contents
<1>4. /\ b \in [DOMAIN l.args -> Buffers \cup {None}] /\ ~Inexpressible(l)
      /\ Binding("kernel", l, left[t], b)
  BY <1>2, Grouped
<1>5. CASE Fail(t)
  BY <1>1, <1>5, FailOthers, FinishContents DEF Fail
<1>6. ASSUME NEW k \in left[t], Store(t, l, k) PROVE ContentsInv'
  BY <1>1, <1>2, <1>6, StoreContents
<1>7. ASSUME promise' = [promise EXCEPT ![t] =
               [c \in Cells |-> IF c \in Doubles(l) \ Written(l) THEN w[c] ELSE z[c]]],
             Goto(t, "copyback"), Leave(t, DOMAIN l.args), UNCHANGED <<launch, bound, ram, before>>
      PROVE  ContentsInv'
  <2> DEFINE y == [c \in Cells |-> IF c \in Doubles(l) \ Written(l) THEN w[c] ELSE z[c]]
  <2>1. pc'[t] = "copyback" /\ promise'[t] = y /\ left'[t] = DOMAIN l.args
    BY <1>7 DEF HostIInv, HostTypes, Goto, Leave
  <2>2. Returning(l, left'[t], b, ram, y)
    <3> SUFFICES ASSUME NEW i \in Tensors(l), NEW x \in Offsets(l, i)
                 PROVE  /\ Returns(l, i, b[i]) => ram[<<b[i], x>>] = y[Base(l, i) + x]
                        /\ ~Returns(l, i, b[i]) => ram[<<None, Base(l, i) + x>>] = y[Base(l, i) + x]
      BY <1>2, <2>1, ArgFacts DEF Returning
    <3> DEFINE c == Base(l, i) + x
    <3>1. c \in Cell(l.args[i].storage) /\ c \in Cells
      BY <1>2, CellFacts
    <3>2. (c \in Doubles(l) <=> i \notin Raws(l)) /\ (c \in Written(l) <=> IsOutput(l, i))
      BY <1>2, <1>4, <3>1, RawsAndDoubles, OutputsAreWritten
    <3>3. ram[Spot(l, b, i, x)] = z[c]
      BY <1>3 DEF Follows
    <3>4. i \in DOMAIN l.args
      BY <1>2, ArgFacts
    <3> HIDE DEF c
    <3>5. CASE Returns(l, i, b[i])
      BY <3>1, <3>2, <3>3, <3>5 DEF Returns, Spot, c
    <3>6. CASE b[i] = None
      <4>1. i \in Raws(l)
        BY <1>4, <3>4, <3>6 DEF Binding, Todo, Filling, InPlace
      <4>2. QED
        BY <3>1, <3>2, <3>3, <3>6, <4>1 DEF Returns, Spot, c
    <3>7. CASE b[i] # None /\ ~IsOutput(l, i)
      <4>1. ram[<<None, c>>] = w[c]
        BY <1>3, <3>1, <3>7 DEF Withheld
      <4>2. z[c] = Given(l, i, w[c])
        BY <1>3, <3>1, <3>2, <3>7 DEF Kept
      <4>3. y[c] = w[c]
        BY <3>1, <3>2, <3>7, <4>2 DEF Given
      <4>4. QED
        BY <3>7, <4>1, <4>3 DEF Returns, c
    <3>8. QED
      BY <3>5, <3>6, <3>7 DEF Returns
  <2> HIDE DEF y
  <2>3. Contents("copyback", l, left'[t], b, ram, w, y)
    BY <2>2 DEF Contents, Filling
  <2>4. QED
    BY <1>1, <1>7, <2>1, <2>3, QuietContents
<1>8. QED
  BY <1>5, <1>6, <1>7 DEF Kernel

\* One group is copied back, or was in place, or is no output.
LEMMA CopyBackOneContents ==
  ASSUME Separate(Launches), HostIInv, ContentsInv, NEW t \in Threads, pc[t] = "copyback", Others(t),
         NEW i \in Turn(launch[t], left[t]),
         ram' = IF Returns(launch[t], i, bound[t][i])
                THEN CopyTo(launch[t].args[i].storage, bound[t][i]) ELSE ram,
         Past(t, launch[t], i),
         UNCHANGED <<pc, launch, bound, before, promise>>
  PROVE  ContentsInv'
<1> DEFINE l == launch[t]
           b == bound[t]
           S == left[t]
           z == promise[t]
           R == S \ Members(l, i)
           s == l.args[i].storage
<1>1. l \in Launches
  BY Begun
<1>2. /\ b \in [DOMAIN l.args -> Buffers \cup {None}] /\ ~Inexpressible(l)
      /\ Binding("copyback", l, S, b) /\ S \subseteq DOMAIN l.args
      /\ \A j \in S : Members(l, j) \subseteq S
  BY Grouped DEF Looks, Looping
<1>3. Returning(l, S, b, ram, z)
  BY DEF ContentsInv, ContentsOK, Contents
<1>4. i \in S /\ i \in DOMAIN l.args /\ left'[t] = R
  BY <1>2 DEF Turn, HostIInv, HostTypes, Past, Leave
<1>5. \A j \in Members(l, i) :
        /\ j \in S /\ l.args[j].storage = s
        /\ Returns(l, j, b[j]) <=> Returns(l, i, b[i])
        /\ b[j] = b[i]
  BY <1>1, <1>2, <1>4, MemberFacts DEF Binding, Returns, IsOutput
<1>6. Returns(l, i, b[i]) => i \in Tensors(l) /\ b[i] \in Buffers
  <2>1. IsOutput(l, i) => i \in Tensors(l)
    BY <1>1, <1>4, MemberFacts DEF IsOutput
  <2>2. QED
    BY <1>2, <1>4, <2>1 DEF Returns
<1> HIDE DEF R
<1>7. Returning(l, R, b, ram', z)
  <2> SUFFICES ASSUME NEW j \in Tensors(l), NEW x \in Offsets(l, j)
               PROVE  IF Returns(l, j, b[j]) /\ j \in R
                      THEN ram'[<<b[j], x>>] = z[Base(l, j) + x]
                      ELSE ram'[<<None, Base(l, j) + x>>] = z[Base(l, j) + x]
    BY DEF Returning
  <2> DEFINE c == Base(l, j) + x
  <2>1. c \in Cell(l.args[j].storage) /\ c \in Cells /\ <<None, c>> \in RamPlaces /\ x \in Bytes
    BY <1>1, CellFacts, PlaceFacts
  <2>2. IF Returns(l, j, b[j]) /\ j \in S
        THEN ram[<<b[j], x>>] = z[c] ELSE ram[<<None, c>>] = z[c]
    BY <1>3 DEF Returning
  <2>3. CASE ~Returns(l, i, b[i])
    BY <1>5, <2>2, <2>3 DEF R
  <2>4. CASE Returns(l, i, b[i]) /\ j \in Members(l, i)
    <3>1. ram[<<b[i], x>>] = z[c] /\ j \notin R
      BY <1>5, <2>2, <2>4 DEF R
    <3>2. ram'[<<None, c>>] = ram[<<b[i], c - s.base>>]
      BY <1>5, <2>1, <2>4 DEF CopyTo
    <3>3. c - s.base = x
      BY <1>1, <1>5, <2>4, ArgFacts DEF Base, Offsets
    <3>4. QED
      BY <3>1, <3>2, <3>3
  <2>5. CASE Returns(l, i, b[i]) /\ j \notin Members(l, i)
    <3>1. c \notin Cell(s)
      BY <1>1, <1>2, <1>6, <2>1, <2>5, GroupsApart
    <3>2. ram'[<<None, c>>] = ram[<<None, c>>]
      BY <2>1, <2>5, <3>1 DEF CopyTo
    <3>3. Returns(l, j, b[j]) => ram'[<<b[j], x>>] = ram[<<b[j], x>>]
      <4>1. ASSUME Returns(l, j, b[j]) PROVE b[j] # None /\ <<b[j], x>> \in RamPlaces
        <5>1. b[j] # None /\ b[j] \in Buffers
          BY <1>1, <1>2, <4>1, ArgFacts DEF Returns
        <5>2. QED
          BY <2>1, <5>1, PlaceFacts
      <4>2. QED
        BY <2>5, <4>1 DEF CopyTo
    <3>4. j \in R <=> j \in S
      BY <2>5 DEF R
    <3>5. QED
      BY <2>2, <3>2, <3>3, <3>4
  <2>6. QED
    BY <2>3, <2>4, <2>5
<1>8. Effects(t)
  <2>1. ASSUME Returns(l, i, b[i]), NEW c \in Cell(s) PROVE c \in Written(l)
    BY <1>1, <1>2, <1>6, <2>1, OutputsAreWritten DEF Returns
  <2>2. QED
    BY <1>1, <2>1 DEF Effects, CopyTo
<1>9. ContentsOK(t)'
  BY <1>4, <1>7 DEF ContentsOK, Contents, Filling
<1>10. AllApart'
  BY StillApart DEF ContentsInv
<1>11. QED
  BY <1>8, <1>9, <1>10, ContentsMove

LEMMA CopyBackContents ==
  ASSUME Separate(Launches), HostIInv, ContentsInv, NEW t \in Threads, CopyBack(t)
  PROVE  ContentsInv'
<1> DEFINE l == launch[t]
           z == promise[t]
<1>1. Others(t)
  BY OthersKept
<1>2. pc[t] = "copyback" /\ l \in Launches
  BY Begun DEF CopyBack
<1>3. CASE Fail(t)
  BY <1>1, <1>3, FailOthers, FinishContents DEF Fail
<1>4. ASSUME NEW i \in Turn(l, left[t]), CopyBackOne(t, l, i, bound[t][i]), ~Fail(t)
      PROVE  ContentsInv'
  BY <1>1, <1>2, <1>4, CopyBackOneContents DEF CopyBackOne
<1>5. CASE left[t] = {} /\ Goto(t, "release") /\ UNCHANGED <<launch, bound, ram, before, promise>>
  <2>1. pc'[t] = "release"
    BY <1>5 DEF HostIInv, HostTypes, Goto
  <2>2. Returning(l, {}, bound[t], ram, z)
    BY <1>2, <1>5 DEF ContentsInv, ContentsOK, Contents
  <2>3. Returned(l, ram, z)
    <3> SUFFICES ASSUME NEW c \in Touched(l) PROVE ram[<<None, c>>] = z[c]
      BY DEF Returned
    <3>1. PICK i \in Tensors(l) : c \in Cell(l.args[i].storage)
      BY DEF Touched
    <3>2. c - Base(l, i) \in Offsets(l, i) /\ c = Base(l, i) + (c - Base(l, i))
      BY <1>2, <3>1, CellFacts
    <3>3. QED
      BY <2>2, <3>2 DEF Returning
  <2>4. Contents("release", l, left'[t], bound[t], ram, before[t], z)
    BY <2>3 DEF Contents, Filling
  <2>5. QED
    BY <1>1, <1>5, <2>1, <2>4, QuietContents
<1>6. QED
  BY <1>3, <1>4, <1>5 DEF CopyBack

LEMMA ReleaseContents ==
  ASSUME HostIInv, ContentsInv, NEW t \in Threads, Release(t)
  PROVE  ContentsInv'
<1>1. Others(t) /\ UNCHANGED ram
  BY OthersKept DEF Release
<1>2. CASE Finish(t)
  BY <1>1, <1>2, FinishContents
<1>3. CASE ~Finish(t)
  <2>1. pc[t] = "release" /\ pc'[t] = "release" /\ UNCHANGED <<launch, bound, before, promise>>
    BY <1>3 DEF Release, ReleaseOne
  <2>2. Contents("release", launch[t], left'[t], bound[t], ram, before[t], promise[t])
    BY <2>1 DEF ContentsInv, ContentsOK, Contents, Filling
  <2>3. QED
    BY <1>1, <2>1, <2>2, QuietContents
<1>4. QED
  BY <1>2, <1>3

LEMMA InitContents == HostInit => ContentsInv
BY DEF HostInit, ContentsInv, AllApart, ContentsOK, Contents, Filling

LEMMA StepContents ==
  ASSUME Separate(Launches), HostIInv, ContentsInv, [HostNext]_vars
  PROVE  ContentsInv'
<1>1. CASE HostNext
  BY <1>1, BeginContents, GroupContents, MirrorContents, AcquireContents, CopyInContents,
     KernelContents, CopyBackContents, ReleaseContents DEF HostNext
<1>2. CASE UNCHANGED vars
  BY <1>2 DEF vars, ContentsInv, AllApart, ContentsOK
<1>3. QED
  BY <1>1, <1>2

\* "The host launcher must preserve pointer semantics"
\* (tests/test_host_marshalling_storage.py): whatever the number of threads, the
\* sizes, the aliases and offsets of the arguments and the stores of the kernels, a
\* launch that returns leaves in its storages what its stores make of memory, if its
\* storages are equal or disjoint.
THEOREM PointersPreserved ==
  ASSUME Separate(Launches)
  PROVE  HostSpec => []PreservesPointers
<1>1. HostIInv /\ ContentsInv => PreservesPointers
  <2> SUFFICES ASSUME HostIInv, ContentsInv, NEW t \in Threads, pc[t] = "release",
                      NEW c \in Touched(launch[t])
               PROVE  Now[c] = promise[t][c]
    BY DEF PreservesPointers
  <2>1. c \in Cells
    BY Begun, ArgFacts DEF Touched
  <2>2. QED
    BY <2>1 DEF ContentsInv, ContentsOK, Contents, Returned, Now
<1>2. QED
  BY <1>1, InitHostIInv, StepHostIInv, InitContents, StepContents, PTL DEF HostSpec

\* A step after which t is idle leaves memory alone, and is t's own.
LEMMA IdleByFinish ==
  ASSUME HostIInv, [HostNext]_vars, NEW t \in Threads, pc[t] # "idle", pc'[t] = "idle"
  PROVE  UNCHANGED ram
<1>1. CASE UNCHANGED vars
  BY <1>1 DEF vars
<1>2. CASE HostNext
  <2>1. PICK u \in Threads :
          \/ Begin(u) \/ Group(u) \/ Mirror(u) \/ Acquire(u) \/ CopyIn(u) \/ Kernel(u)
          \/ CopyBack(u) \/ Release(u)
    BY <1>2 DEF HostNext
  <2>2. u = t
    BY <2>1, OthersKept DEF Others
  <2>3. CASE Begin(t) \/ Acquire(t) \/ Release(t)
    BY <2>3 DEF Begin, Acquire, Release
  <2>4. CASE Group(t) \/ CopyIn(t)
    BY <2>4 DEF HostIInv, HostTypes, Group, CopyIn, Goto, Fail
  <2>5. CASE Mirror(t)
    BY <2>5 DEF HostIInv, HostTypes, Mirror, MirrorOne, Goto, Fail
  <2>6. CASE Kernel(t)
    BY <2>6 DEF HostIInv, HostTypes, Kernel, Store, Goto, Fail
  <2>7. CASE CopyBack(t)
    BY <2>7 DEF HostIInv, HostTypes, CopyBack, CopyBackOne, Goto, Fail
  <2>8. QED
    BY <2>1, <2>2, <2>3, <2>4, <2>5, <2>6, <2>7
<1>3. QED
  BY <1>1, <1>2

\* A launch that fails before its copies back leaves every storage that was mirrored
\* as it was, for the same launches.
THEOREM FailuresWithhold ==
  ASSUME Separate(Launches)
  PROVE  HostSpec => FailureWithholds
<1>1. ASSUME HostIInv, ContentsInv, [HostNext]_vars
      PROVE  [WithholdsOnFailure]_vars
  <2> SUFFICES ASSUME NEW t \in Threads, pc[t] \notin {"idle", "copyback", "release"}, pc'[t] = "idle",
                      NEW i \in Tensors(launch[t]),
                      i \notin Raws(launch[t]) \/ ~Wraps(launch[t].args[i].storage),
                      NEW c \in Cell(launch[t].args[i].storage)
               PROVE  Now'[c] = before[t][c]
    BY DEF WithholdsOnFailure
  <2> DEFINE l == launch[t]
  <2>1. UNCHANGED ram
    BY <1>1, IdleByFinish
  <2>2. l \in Launches /\ c \in Cells /\ c \in Touched(l) /\ i \in DOMAIN l.args
    <3>1. l \in Launches
      BY <1>1, Begun
    <3>2. QED
      BY <3>1, CellFacts, ArgFacts
  <2>3. ram[<<None, c>>] = before[t][c]
    <3>1. Contents(pc[t], l, left[t], bound[t], ram, before[t], promise[t])
      BY <1>1 DEF ContentsInv, ContentsOK
    <3>2. CASE pc[t] = "kernel"
      <4>1. bound[t][i] # None
        <5>1. Binding("kernel", l, left[t], bound[t])
          BY <1>1, <3>2, Grouped
        <5>2. ~InPlace(l, i)
          BY DEF InPlace
        <5>3. QED
          BY <2>2, <5>1, <5>2 DEF Binding, Todo, Filling
      <4>2. QED
        BY <3>1, <3>2, <4>1 DEF Contents, Withheld
    <3>3. CASE pc[t] # "kernel"
      <4>1. pc[t] \in {"group"} \cup Filling
        BY <1>1, <3>3, Same DEF Steps, Filling
      <4>2. QED
        BY <2>2, <3>1, <4>1 DEF Contents, Untouched
    <3>4. QED
      BY <3>2, <3>3
  <2>4. QED
    BY <2>1, <2>2, <2>3 DEF Now
<1>2. QED
  BY <1>1, InitHostIInv, StepHostIInv, InitContents, StepContents, PTL DEF HostSpec, FailureWithholds

================================================================================

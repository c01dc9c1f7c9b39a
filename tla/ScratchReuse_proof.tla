-------------------------- MODULE ScratchReuse_proof ---------------------------
(***************************************************************************)
(* Proofs about ScratchReuse, for any number of arrays and kernels of any  *)
(* length: the storage that the pass lets arrays share adds no race and    *)
(* loses no value.                                                         *)
(***************************************************************************)
EXTENDS ScratchReuse, FiniteSetTheorems, WellFoundedInduction, TLAPS

--------------------------------------------------------------------------------
\* Least and greatest lines.

\* A set of naturals that is not empty has a least member, and Min is it.
LEMMA LeastMember ==
  ASSUME NEW S \in SUBSET Nat, S # {}
  PROVE  /\ Min(S) \in S
         /\ \A n \in S : Min(S) <= n
<1> DEFINE less == {e \in Nat \X Nat : e[1] < e[2]}
<1>1. less = OpToRel(<, Nat)
  BY DEF OpToRel
<1>2. IsWellFoundedOn(less, Nat)
  BY <1>1, NatLessThanWellFounded, Zenon
<1> HIDE DEF less
<1>3. PICK m \in S : \A n \in S : <<n, m>> \notin less
  BY <1>2, WFMin
<1>4. ASSUME NEW n \in S
      PROVE  m <= n
  <2>1. m \in Nat /\ n \in Nat /\ <<n, m>> \in Nat \X Nat
    OBVIOUS
  <2>2. ~(<<n, m>>[1] < <<n, m>>[2])
    BY <2>1, <1>3 DEF less
  <2> QED
    BY <2>1, <2>2
<1> QED
  BY <1>4 DEF Min

\* A set of numbers up to n that is not empty has a greatest member, and Max is it.
LEMMA GreatestMember ==
  ASSUME NEW n \in Nat, NEW S \in SUBSET (0 .. n), S # {}
  PROVE  /\ Max(S) \in S
         /\ \A m \in S : m <= Max(S)
<1> DEFINE T == {k \in Nat : n - k \in S}
<1>1. T # {}
  <2>1. PICK s \in S : TRUE
    OBVIOUS
  <2>2. n - s \in Nat /\ n - (n - s) = s
    OBVIOUS
  <2> QED
    BY <2>1, <2>2
<1>2. /\ Min(T) \in T
      /\ \A k \in T : Min(T) <= k
  BY <1>1, LeastMember
<1>3. \A s \in S : n - s \in T
  OBVIOUS
<1>4. n - Min(T) \in S /\ \A s \in S : s <= n - Min(T)
  BY <1>2, <1>3
<1> QED
  BY <1>4 DEF Max

--------------------------------------------------------------------------------
\* Blocks.

Openers == {"for", "block"}

\* A text in which no line closes what is not open, and a complete one.
Text(p) == p \in Seq(Lines) /\ \A i \in 0 .. Len(p) : Level(p, i) \in Nat
Whole(p) == Text(p) /\ Depth(p) = 0 /\ \A x \in Arrays : Uses(p, x) # {}

\* The lines of a text are numbered from one.
LEMMA LinesOf ==
  ASSUME NEW p, Whole(p)
  PROVE  /\ Len(p) \in Nat
         /\ DOMAIN p = 1 .. Len(p)
         /\ \A i \in DOMAIN p : i \in Nat /\ i >= 1 /\ i <= Len(p)
BY DEF Whole, Text

\* One more number in an interval is one more candidate for a count.
LEMMA CountStep ==
  ASSUME NEW p, NEW T, NEW i \in Nat \ {0}
  PROVE  LET n(k) == Cardinality({m \in 1 .. k : p[m] \in T}) IN
         n(i - 1) \in Nat /\ n(i) \in Nat /\ n(i) = n(i - 1) + IF p[i] \in T THEN 1 ELSE 0
<1> DEFINE S(k) == {m \in 1 .. k : p[m] \in T}
<1>1. IsFiniteSet(S(i - 1)) /\ Cardinality(S(i - 1)) \in Nat
  <2>1. IsFiniteSet(1 .. i - 1)
    BY FS_Interval
  <2> QED
    BY <2>1, FS_Subset, FS_CardinalityType
<1>2. CASE p[i] \in T
  <2>1. S(i) = S(i - 1) \cup {i} /\ i \notin S(i - 1)
    BY <1>2
  <2> HIDE DEF S
  <2>2. Cardinality(S(i)) = Cardinality(S(i - 1)) + 1
    BY <1>1, <2>1, FS_AddElement
  <2> QED
    BY <1>1, <1>2, <2>2 DEF S
<1>3. CASE p[i] \notin T
  <2>1. S(i) = S(i - 1)
    BY <1>3
  <2> HIDE DEF S
  <2>2. Cardinality(S(i)) = Cardinality(S(i - 1))
    BY <2>1
  <2> QED
    BY <1>1, <1>3, <2>2 DEF S
<1> QED
  BY <1>2, <1>3

\* A line opens a block, closes one, or leaves the level alone.
LEMMA LevelStep ==
  ASSUME NEW p, NEW i \in Nat \ {0}
  PROVE  /\ Level(p, i - 1) \in Int
         /\ Level(p, i) \in Int
         /\ p[i] \in Openers => Level(p, i) = Level(p, i - 1) + 1
         /\ p[i] = "end" => Level(p, i) = Level(p, i - 1) - 1
         /\ p[i] \notin Openers \cup {"end"} => Level(p, i) = Level(p, i - 1)
<1> DEFINE O(k) == Cardinality({m \in 1 .. k : p[m] \in {"for", "block"}})
           E(k) == Cardinality({m \in 1 .. k : p[m] \in {"end"}})
<1>1. O(i - 1) \in Nat /\ O(i) \in Nat /\ O(i) = O(i - 1) + IF p[i] \in {"for", "block"} THEN 1 ELSE 0
  BY CountStep
<1>2. E(i - 1) \in Nat /\ E(i) \in Nat /\ E(i) = E(i - 1) + IF p[i] \in {"end"} THEN 1 ELSE 0
  BY CountStep
<1>3. \A k : {m \in 1 .. k : p[m] = "end"} = {m \in 1 .. k : p[m] \in {"end"}}
  OBVIOUS
<1>4. \A k : Level(p, k) = O(k) - E(k)
  BY <1>3 DEF Level
<1> HIDE DEF O, E
<1> QED
  BY <1>1, <1>2, <1>4 DEF Openers

\* Before the first line nothing is open.
LEMMA LevelZero ==
  ASSUME NEW p
  PROVE  Level(p, 0) = 0
<1>1. \A Q : {k \in 1 .. 0 : k \in Q} = {}
  OBVIOUS
<1>2. {k \in 1 .. 0 : p[k] \in {"for", "block"}} = {} /\ {k \in 1 .. 0 : p[k] = "end"} = {}
  OBVIOUS
<1> QED
  BY <1>2, FS_EmptySet DEF Level

\* A block that is opened is closed: Close finds the line.
LEMMA Closing ==
  ASSUME NEW p, Whole(p), NEW j \in DOMAIN p, p[j] \in Openers
  PROVE  /\ Close(p, j) \in j + 1 .. Len(p)
         /\ \A m \in j .. Close(p, j) - 1 : Level(p, m) >= Level(p, j)
         /\ Level(p, Close(p, j)) = Level(p, j) - 1
         /\ p[Close(p, j)] = "end"
<1> DEFINE S == {k \in j + 1 .. Len(p) : Level(p, k) < Level(p, j)}
<1>1. /\ Len(p) \in Nat /\ j \in 1 .. Len(p)
      /\ \A i \in 0 .. Len(p) : Level(p, i) \in Nat
      /\ Level(p, Len(p)) = 0
  BY DEF Whole, Text, Depth
<1>2. Level(p, j) = Level(p, j - 1) + 1
  BY <1>1, LevelStep
<1>3. Len(p) \in S
  BY <1>1, <1>2
<1>4. /\ Min(S) \in S
      /\ \A n \in S : Min(S) <= n
  <2>1. S \in SUBSET Nat /\ S # {}
    BY <1>1, <1>3
  <2> HIDE DEF S
  <2> QED
    BY <2>1, LeastMember
<1> DEFINE m == Min(S)
<1>5. m \in j + 1 .. Len(p) /\ Level(p, m) < Level(p, j)
  BY <1>4
<1>6. ASSUME NEW n \in j .. m - 1
      PROVE  Level(p, n) >= Level(p, j)
  <2>1. n = j \/ n \in j + 1 .. Len(p)
    BY <1>5
  <2>2. n \notin S
    BY <1>4, <1>5
  <2> QED
    BY <1>1, <2>1, <2>2
<1> HIDE DEF m, S
<1> DEFINE c == Close(p, j)
<1>7. /\ c \in j + 1 .. Len(p)
      /\ Level(p, c) < Level(p, j)
      /\ \A n \in j .. c - 1 : Level(p, n) >= Level(p, j)
  <2>1. j # 0
    BY <1>1
  <2> QED
    BY <1>5, <1>6, <2>1 DEF Close
<1> HIDE DEF c
<1>8. Level(p, c - 1) >= Level(p, j) /\ c \in Nat \ {0} /\ c \in 0 .. Len(p) /\ c - 1 \in 0 .. Len(p)
  BY <1>1, <1>7
<1>9. Level(p, c) \in Nat /\ Level(p, c - 1) \in Nat /\ Level(p, j) \in Nat
  BY <1>1, <1>8
<1>10. Level(p, c) = Level(p, c - 1) - 1 /\ p[c] = "end"
  <2>1. /\ p[c] \in Openers => Level(p, c) = Level(p, c - 1) + 1
        /\ p[c] = "end" => Level(p, c) = Level(p, c - 1) - 1
        /\ p[c] \notin Openers \cup {"end"} => Level(p, c) = Level(p, c - 1)
    BY <1>8, LevelStep
  <2>2. Level(p, c) < Level(p, c - 1)
    BY <1>7, <1>8, <1>9
  <2> QED
    BY <1>9, <2>1, <2>2
<1>11. Level(p, c) = Level(p, j) - 1
  BY <1>7, <1>8, <1>9, <1>10
<1> QED
  BY <1>7, <1>10, <1>11 DEF c

\* A block that is opened in another is closed in it.
LEMMA Nesting ==
  ASSUME NEW p, Whole(p), NEW i \in Nat, Opens(p, i), i = 0 \/ i \in DOMAIN p,
         NEW j \in DOMAIN p, p[j] \in Openers, i < j, j <= Close(p, i)
  PROVE  Close(p, j) < Close(p, i)
<1>1. /\ Len(p) \in Nat /\ DOMAIN p = 1 .. Len(p)
      /\ \A n \in 0 .. Len(p) : Level(p, n) \in Nat
  BY DEF Whole, Text
<1>2. /\ Close(p, j) \in j + 1 .. Len(p)
      /\ \A m \in j .. Close(p, j) - 1 : Level(p, m) >= Level(p, j)
      /\ Level(p, Close(p, j)) = Level(p, j) - 1
  BY Closing
<1>3. CASE i = 0
  BY <1>1, <1>2, <1>3 DEF Close, Final
<1>4. CASE i # 0
  <2>1. i \in DOMAIN p /\ p[i] \in Openers
    BY <1>4 DEF Opens, Openers
  <2>2. /\ Close(p, i) \in i + 1 .. Len(p)
        /\ \A m \in i .. Close(p, i) - 1 : Level(p, m) >= Level(p, i)
        /\ Level(p, Close(p, i)) = Level(p, i) - 1
        /\ p[Close(p, i)] = "end"
    BY <2>1, Closing
  <2>3. j < Close(p, i)
    BY <2>2 DEF Openers
  <2>4. Level(p, j) = Level(p, j - 1) + 1
    BY <1>1, LevelStep
  <2>5. j - 1 \in i .. Close(p, i) - 1 /\ j - 1 \in 0 .. Len(p)
    BY <1>1, <2>2, <2>3
  <2>6. Level(p, j) >= Level(p, i) + 1
    BY <1>1, <2>1, <2>2, <2>4, <2>5
  <2>7. Level(p, Close(p, i)) < Level(p, j)
    BY <1>1, <2>1, <2>2, <2>6
  <2>8. Close(p, i) \notin j .. Close(p, j) - 1
    BY <1>1, <1>2, <2>2, <2>7
  <2>9. Close(p, i) # Close(p, j)
    BY <1>1, <1>2, <2>1, <2>2, <2>6
  <2> QED
    BY <1>2, <2>2, <2>3, <2>8, <2>9
<1> QED
  BY <1>3, <1>4

\* The blocks around a line lie before it; the function is one of them.
LEMMA Around ==
  ASSUME NEW p, Whole(p), NEW i \in DOMAIN p
  PROVE  /\ Context(p, i) \in SUBSET (0 .. i - 1)
         /\ 0 \in Context(p, i)
         /\ Max(Context(p, i)) \in Context(p, i)
         /\ \A j \in Context(p, i) : j <= Max(Context(p, i))
<1>1. Len(p) \in Nat /\ i \in 1 .. Len(p)
  BY DEF Whole, Text
<1>2. Context(p, i) \in SUBSET (0 .. i - 1)
  BY DEF Context
<1>3. 0 \in Context(p, i)
  BY <1>1 DEF Context, Opens, Close, Final
<1>4. i - 1 \in Nat
  BY <1>1
<1> QED
  BY <1>2, <1>3, <1>4, GreatestMember

\* An end closes the innermost of the blocks it is in.
LEMMA Innermost ==
  ASSUME NEW p, Whole(p), NEW i \in DOMAIN p, p[i] = "end"
  PROVE  LET j == Max(Context(p, i)) IN
         j \in DOMAIN p /\ j < i /\ p[j] \in Openers /\ Close(p, j) = i
<1>1. /\ Len(p) \in Nat /\ i \in 1 .. Len(p) /\ DOMAIN p = 1 .. Len(p)
      /\ \A n \in 0 .. Len(p) : Level(p, n) \in Nat
  BY DEF Whole, Text
<1> DEFINE L == Level(p, i - 1)
           S == {n \in 0 .. i - 1 : Level(p, n) < L}
<1>2. L \in Nat /\ L >= 1 /\ Level(p, i) = L - 1
  <2>1. Level(p, i) = L - 1 /\ L \in Nat /\ Level(p, i) \in Nat
    BY <1>1, LevelStep
  <2> QED
    BY <2>1
<1>3. 0 \in S
  BY <1>1, <1>2, LevelZero
<1>4. Max(S) \in S /\ \A n \in S : n <= Max(S)
  <2>1. S \in SUBSET (0 .. i - 1) /\ S # {} /\ i - 1 \in Nat
    BY <1>1, <1>3
  <2> HIDE DEF S
  <2> QED
    BY <2>1, GreatestMember
<1> DEFINE j == Max(S) + 1
<1>5. j \in 1 .. i - 1 /\ Level(p, j - 1) < L
  <2>1. Max(S) # i - 1
    BY <1>1, <1>4
  <2> QED
    BY <1>1, <1>4, <2>1
<1>6. \A n \in j .. i - 1 : Level(p, n) >= L
  <2>1. ASSUME NEW n \in j .. i - 1
        PROVE  Level(p, n) >= L
    <3>1. n \notin S /\ n \in 0 .. i - 1 /\ n \in 0 .. Len(p)
      BY <1>1, <1>4, <1>5
    <3> QED
      BY <1>1, <1>2, <3>1
  <2> QED
    BY <2>1
<1> HIDE DEF j, S
<1>7. j \in DOMAIN p /\ j \in Nat \ {0} /\ j - 1 \in 0 .. Len(p) /\ j \in 0 .. Len(p) /\ j \in j .. i - 1
  BY <1>1, <1>5
<1>8. Level(p, j) = L /\ p[j] \in Openers
  <2>1. Level(p, j) >= L /\ Level(p, j) \in Nat /\ Level(p, j - 1) \in Nat
    BY <1>1, <1>6, <1>7
  <2> QED
    <3>1. /\ p[j] \in Openers => Level(p, j) = Level(p, j - 1) + 1
          /\ p[j] = "end" => Level(p, j) = Level(p, j - 1) - 1
          /\ p[j] \notin Openers \cup {"end"} => Level(p, j) = Level(p, j - 1)
      BY <1>7, LevelStep
    <3>2. Level(p, j - 1) < L
      BY <1>5
    <3> HIDE DEF L
    <3> QED
      BY <1>2, <2>1, <3>1, <3>2
<1>9. /\ Close(p, j) \in j + 1 .. Len(p)
      /\ \A m \in j .. Close(p, j) - 1 : Level(p, m) >= Level(p, j)
      /\ Level(p, Close(p, j)) = Level(p, j) - 1
  BY <1>7, <1>8, Closing
<1>10. Close(p, j) = i
  <2>1. ~(Close(p, j) \in j .. i - 1)
    BY <1>2, <1>6, <1>8, <1>9
  <2>2. ~(i \in j .. Close(p, j) - 1)
    BY <1>2, <1>8, <1>9
  <2> QED
    BY <1>1, <1>5, <1>9, <2>1, <2>2
<1>11. j \in Context(p, i)
  <2>1. j \in 0 .. i - 1 /\ Opens(p, j) /\ i <= Close(p, j)
    BY <1>1, <1>5, <1>8, <1>10 DEF Opens, Openers
  <2> QED
    BY <2>1 DEF Context
<1> DEFINE b == Max(Context(p, i))
<1>12. b \in Context(p, i) /\ j <= b /\ b \in 0 .. i - 1
  BY <1>11, Around
<1>13. b = j
  <2> SUFFICES ASSUME j < b
               PROVE  FALSE
    BY <1>5, <1>12
  <2>1. b \in DOMAIN p /\ p[b] \in Openers /\ b <= Close(p, j) /\ i <= Close(p, b)
    BY <1>1, <1>5, <1>10, <1>12 DEF Context, Opens, Openers
  <2>2. Opens(p, j)
    BY <1>8 DEF Opens, Openers
  <2>3. Close(p, b) < Close(p, j)
    BY <1>7, <2>1, <2>2, Nesting
  <2>4. Close(p, b) \in Int
    BY <2>1, Closing
  <2> QED
    BY <1>1, <1>10, <2>1, <2>3, <2>4
<1> QED
  BY <1>5, <1>7, <1>8, <1>10, <1>13

--------------------------------------------------------------------------------
\* Lifetimes.

\* The first and the last use of an array are uses, and no use is outside them.
LEMMA UseBounds ==
  ASSUME NEW p, Whole(p), NEW x \in Arrays
  PROVE  /\ Uses(p, x) \in SUBSET DOMAIN p
         /\ FirstUse(p, x) \in Uses(p, x)
         /\ LastUse(p, x) \in Uses(p, x)
         /\ \A u \in Uses(p, x) : FirstUse(p, x) <= u /\ u <= LastUse(p, x)
<1>1. Len(p) \in Nat /\ DOMAIN p = 1 .. Len(p)
  BY DEF Whole, Text
<1>2. Uses(p, x) \in SUBSET (1 .. Len(p)) /\ Uses(p, x) # {}
  BY <1>1 DEF Uses, Whole
<1>3. Uses(p, x) \in SUBSET Nat /\ Uses(p, x) \in SUBSET (0 .. Len(p))
  BY <1>1, <1>2
<1>4. Min(Uses(p, x)) \in Uses(p, x) /\ \A u \in Uses(p, x) : Min(Uses(p, x)) <= u
  BY <1>2, <1>3, LeastMember
<1>5. Max(Uses(p, x)) \in Uses(p, x) /\ \A u \in Uses(p, x) : u <= Max(Uses(p, x))
  BY <1>1, <1>2, <1>3, GreatestMember
<1> QED
  BY <1>1, <1>2, <1>4, <1>5 DEF FirstUse, LastUse

\* A use is no word of the language.
LEMMA UseIsNoWord ==
  ASSUME NEW p, NEW x \in Arrays, NEW u \in Uses(p, x)
  PROVE  p[u] \in Arrays /\ p[u] \notin Words
BY NameAssumption DEF Uses

\* The loop of line j begins or ends within the lifetime of x but does not hold it.
Crosses(p, j, x) ==
  /\ p[j] = "for" /\ j <= LastUse(p, x) /\ FirstUse(p, x) <= Close(p, j)
  /\ ~(j <= FirstUse(p, x) /\ LastUse(p, x) <= Close(p, j))

\* A lifetime takes in its uses and the loops it goes into or out of.
LEMMA LiveBounds ==
  ASSUME NEW p, Whole(p), NEW x \in Arrays
  PROVE  /\ Live(p, x).from \in Nat
         /\ Live(p, x).to \in Nat
         /\ Live(p, x).from <= FirstUse(p, x)
         /\ LastUse(p, x) <= Live(p, x).to
         /\ \A j \in DOMAIN p :
              Crosses(p, j, x) => Live(p, x).from <= j /\ Close(p, j) <= Live(p, x).to
<1>1. Len(p) \in Nat /\ DOMAIN p = 1 .. Len(p)
  BY DEF Whole, Text
<1>2. FirstUse(p, x) \in DOMAIN p /\ LastUse(p, x) \in DOMAIN p
  BY UseBounds
<1> DEFINE crossed == {j \in DOMAIN p : Crosses(p, j, x)}
           B == {FirstUse(p, x)} \cup crossed
           E == {LastUse(p, x)} \cup {Close(p, j) : j \in crossed}
<1>3. \A j \in crossed : Close(p, j) \in 0 .. Len(p)
  <2>1. ASSUME NEW j \in crossed
        PROVE  Close(p, j) \in 0 .. Len(p)
    <3>1. p[j] \in Openers
      BY DEF Crosses, Openers
    <3> QED
      BY <1>1, <3>1, Closing
  <2> QED
    BY <2>1
<1>4. B \in SUBSET Nat /\ B # {}
  BY <1>1, <1>2
<1>5. E \in SUBSET (0 .. Len(p)) /\ E # {}
  BY <1>1, <1>2, <1>3
<1>6. Live(p, x) = [from |-> Min(B), to |-> Max(E)]
  BY DEF Live, Crosses
<1>7. FirstUse(p, x) \in B /\ LastUse(p, x) \in E
  OBVIOUS
<1>8. \A j \in DOMAIN p : Crosses(p, j, x) => j \in B /\ Close(p, j) \in E
  OBVIOUS
<1> HIDE DEF B, E
<1>9. Min(B) \in B /\ \A n \in B : Min(B) <= n
  BY <1>4, LeastMember
<1>10. Max(E) \in E /\ \A n \in E : n <= Max(E)
  BY <1>1, <1>5, GreatestMember
<1>11. Min(B) \in Nat /\ Max(E) \in Nat
  <2>1. Min(B) \in Nat
    BY <1>4, <1>9
  <2>2. Max(E) \in 0 .. Len(p)
    BY <1>5, <1>10
  <2> QED
    BY <1>1, <2>1, <2>2
<1>12. Live(p, x).from = Min(B) /\ Live(p, x).to = Max(E)
  BY <1>6
<1> QED
  BY <1>7, <1>8, <1>9, <1>10, <1>11, <1>12

--------------------------------------------------------------------------------
\* Two arrays that may share.

\* The blocks around both the last use of x and the first of y.
Common(p, x, y) == Context(p, LastUse(p, x)) \cap Context(p, FirstUse(p, y))

\* x is done before y begins, and the pass has found the barriers it wants.
Apart(p, x, y) ==
  /\ Live(p, x).to < Live(p, y).from
  /\ \A i \in DOMAIN p : p[i] # "exit"
  /\ \/ Separates(p, LastUse(p, x), FirstUse(p, y), Common(p, x, y))
     \/ LoopSeparates(p, x, y, Common(p, x, y))
  /\ ~MeetsNextIteration(p, x, y, Common(p, x, y))

\* Arrays that do not overlap are apart, one way or the other.
LEMMA NoOverlap ==
  ASSUME NEW p, Whole(p), NEW a \in Arrays, NEW b \in Arrays, a # b, ~Overlaps(p, a, b)
  PROVE  Apart(p, a, b) \/ Apart(p, b, a)
<1>1. /\ Live(p, a).from \in Nat /\ Live(p, a).to \in Nat
      /\ Live(p, b).from \in Nat /\ Live(p, b).to \in Nat
      /\ Live(p, a).from <= Live(p, a).to /\ Live(p, b).from <= Live(p, b).to
  <2>1. /\ FirstUse(p, a) <= LastUse(p, a) /\ FirstUse(p, b) <= LastUse(p, b)
        /\ FirstUse(p, a) \in Nat /\ LastUse(p, a) \in Nat
        /\ FirstUse(p, b) \in Nat /\ LastUse(p, b) \in Nat
    BY UseBounds, LinesOf
  <2> QED
    BY <2>1, LiveBounds
<1>2. CASE Live(p, a).from > Live(p, b).from
  <2>1. Live(p, b).to < Live(p, a).from
    BY <1>1, <1>2 DEF Overlaps, LiveOverlaps
  <2> QED
    BY <1>2, <2>1 DEF Overlaps, Apart, Common
<1>3. CASE ~(Live(p, a).from > Live(p, b).from)
  <2>1. Live(p, a).to < Live(p, b).from
    BY <1>1, <1>3 DEF Overlaps, LiveOverlaps
  <2> QED
    BY <1>3, <2>1 DEF Overlaps, Apart, Common
<1> QED
  BY <1>2, <1>3

\* The uses of x lie before those of y, and a loop around the last use of x and the
\* first of y is around all uses of both.
LEMMA Ordered ==
  ASSUME NEW p, Whole(p), NEW x \in Arrays, NEW y \in Arrays, Apart(p, x, y)
  PROVE  /\ LastUse(p, x) < FirstUse(p, y)
         /\ \A j \in DOMAIN p :
              p[j] = "for" /\ j < LastUse(p, x) /\ FirstUse(p, y) <= Close(p, j) =>
                j < FirstUse(p, x) /\ LastUse(p, y) < Close(p, j)
<1> DEFINE F == FirstUse(p, x)  Z == LastUse(p, x)
           A == FirstUse(p, y)  W == LastUse(p, y)
<1>1. /\ F \in DOMAIN p /\ Z \in DOMAIN p /\ A \in DOMAIN p /\ W \in DOMAIN p
      /\ F <= Z /\ A <= W /\ \A i \in DOMAIN p : i \in Nat
      /\ F \in Uses(p, x) /\ W \in Uses(p, y)
  <2>1. \A i \in DOMAIN p : i \in Nat
    BY LinesOf
  <2> QED
    BY <2>1, UseBounds
<1>2. /\ Live(p, x).to \in Nat /\ Z <= Live(p, x).to
      /\ \A j \in DOMAIN p : Crosses(p, j, x) => Close(p, j) <= Live(p, x).to
  BY LiveBounds
<1>3. /\ Live(p, y).from \in Nat /\ Live(p, y).from <= A
      /\ \A j \in DOMAIN p : Crosses(p, j, y) => Live(p, y).from <= j
  BY LiveBounds
<1>4. Live(p, x).to < Live(p, y).from
  BY DEF Apart
<1> HIDE DEF F, Z, A, W
<1>5. Z < A
  BY <1>1, <1>2, <1>3, <1>4
<1>6. ASSUME NEW j \in DOMAIN p, p[j] = "for", j < Z, A <= Close(p, j)
      PROVE  j < F /\ W < Close(p, j)
  <2>1. Close(p, j) \in DOMAIN p /\ p[Close(p, j)] = "end" /\ j \in Nat /\ Close(p, j) \in Nat
    <3>1. Close(p, j) \in j + 1 .. Len(p) /\ p[Close(p, j)] = "end"
      BY <1>6, Closing DEF Openers
    <3> QED
      BY <3>1, LinesOf
  <2>2. j <= F
    <3>1. ~Crosses(p, j, x)
      BY <1>1, <1>2, <1>3, <1>4, <1>6, <2>1
    <3> QED
      BY <1>1, <1>5, <1>6, <2>1, <3>1 DEF Crosses, F, Z
  <2>3. W <= Close(p, j)
    <3>1. ~Crosses(p, j, y)
      BY <1>1, <1>2, <1>3, <1>4, <1>6, <2>1
    <3> QED
      BY <1>1, <1>5, <1>6, <2>1, <3>1 DEF Crosses, A, W
  <2>4. j # F /\ W # Close(p, j)
    BY <1>1, <1>6, <2>1, UseIsNoWord DEF Words
  <2> QED
    BY <1>1, <2>1, <2>2, <2>3, <2>4
<1> QED
  BY <1>5, <1>6 DEF F, Z, A, W

--------------------------------------------------------------------------------
\* Where control can go, and where it cannot come without a barrier.

\* The line after line i, and the line it may jump to.
After(p, i) ==
  {i + 1} \cup (IF p[i] \in Openers THEN {Close(p, i) + 1}
                ELSE IF p[i] = "end" THEN {Max(Context(p, i)) + 1} ELSE {})

\* Control in R stays in R up to a barrier, and R has no use of y.
Away(p, R, y) ==
  R \cap Uses(p, y) = {} /\ \A i \in R \cap DOMAIN p : p[i] # "barrier" => After(p, i) \subseteq R

\* Every way from a use of x to one of y has a barrier.
Fenced(p, x, y) == \A u \in Uses(p, x) : \E R \in SUBSET Nat : u + 1 \in R /\ Away(p, R, y)

\* Control goes forward, but for the end of a block.
LEMMA Forward ==
  ASSUME NEW p, Whole(p), NEW i \in DOMAIN p, NEW n \in After(p, i)
  PROVE  /\ n \in Nat
         /\ \/ n = i + 1
            \/ p[i] \in Openers /\ n = Close(p, i) + 1 /\ i < Close(p, i) /\ Close(p, i) \in Nat
            \/ /\ p[i] = "end" /\ n = Max(Context(p, i)) + 1
               /\ Max(Context(p, i)) \in DOMAIN p /\ Max(Context(p, i)) < i
               /\ p[Max(Context(p, i))] \in Openers /\ Close(p, Max(Context(p, i))) = i
<1>1. Len(p) \in Nat /\ DOMAIN p = 1 .. Len(p) /\ i \in Nat
  BY LinesOf
<1>2. CASE n = i + 1
  BY <1>1, <1>2
<1>3. CASE p[i] \in Openers /\ n = Close(p, i) + 1
  <2>1. Close(p, i) \in i + 1 .. Len(p)
    BY <1>3, Closing
  <2> QED
    BY <1>1, <1>3, <2>1
<1>4. CASE p[i] = "end" /\ n = Max(Context(p, i)) + 1
  <2>1. /\ Max(Context(p, i)) \in DOMAIN p /\ Max(Context(p, i)) < i
        /\ p[Max(Context(p, i))] \in Openers /\ Close(p, Max(Context(p, i))) = i
    BY <1>4, Innermost
  <2> QED
    BY <1>1, <1>4, <2>1
<1> QED
  BY <1>2, <1>3, <1>4 DEF After

\* A block before line k either holds it or is closed before it.
LEMMA InOrBefore ==
  ASSUME NEW p, Whole(p), NEW k \in DOMAIN p, NEW i \in DOMAIN p, p[i] \in Openers, i < k
  PROVE  \/ i \in Context(p, k) /\ k <= Close(p, i)
         \/ i \notin Context(p, k) /\ Close(p, i) < k
<1>1. Len(p) \in Nat /\ DOMAIN p = 1 .. Len(p)
  BY LinesOf
<1>2. Close(p, i) \in i + 1 .. Len(p)
  BY Closing
<1>3. i \in 0 .. k - 1 /\ Opens(p, i) /\ k \in Nat /\ Close(p, i) \in Nat
  BY <1>1, <1>2 DEF Opens, Openers
<1> QED
  BY <1>3 DEF Context

\* A block around line k opens before k and does not close before it.
LEMMA Inside ==
  ASSUME NEW p, Whole(p), NEW k \in DOMAIN p, NEW b \in Context(p, k)
  PROVE  /\ b \in Nat /\ b < k /\ Opens(p, b) /\ k <= Close(p, b) /\ Close(p, b) \in Nat
         /\ b = 0 \/ (b \in DOMAIN p /\ p[b] \in Openers)
<1>1. Len(p) \in Nat /\ DOMAIN p = 1 .. Len(p)
  BY LinesOf
<1>2. b \in 0 .. k - 1 /\ Opens(p, b) /\ k <= Close(p, b)
  BY DEF Context
<1>3. b \in Nat /\ b < k /\ (b = 0 \/ (b \in DOMAIN p /\ p[b] \in Openers))
  BY <1>1, <1>2 DEF Opens, Openers
<1>4. Close(p, b) \in Nat
  <2>1. CASE b = 0
    BY <1>1, <2>1 DEF Close, Final
  <2>2. CASE b \in DOMAIN p /\ p[b] \in Openers
    BY <1>1, <2>2, Closing
  <2> QED
    BY <1>3, <2>1, <2>2
<1> QED
  BY <1>1, <1>2, <1>3, <1>4

\* Between the opening of the block around a barrier and the barrier, control stays
\* there until it passes it.
LEMMA UpTo ==
  ASSUME NEW p, Whole(p), NEW k \in DOMAIN p, p[k] = "barrier",
         NEW b, b = Max(Context(p, k)),
         NEW i \in DOMAIN p, b < i, i <= k, p[i] # "barrier", NEW n \in After(p, i)
  PROVE  b < n /\ n <= k
<1>1. /\ b \in Context(p, k) /\ b \in Nat /\ b < k /\ k <= Close(p, b)
      /\ b = 0 \/ (b \in DOMAIN p /\ p[b] \in Openers)
      /\ \A j \in Context(p, k) : j <= b
  BY Around, Inside
<1>2. i \in Nat /\ k \in Nat /\ i < k
  BY LinesOf
<1>3. CASE n = i + 1
  BY <1>1, <1>2, <1>3
<1>4. CASE p[i] \in Openers /\ n = Close(p, i) + 1 /\ i < Close(p, i) /\ Close(p, i) \in Nat
  <2>1. i \notin Context(p, k)
    BY <1>1, <1>2
  <2>2. Close(p, i) < k
    BY <1>2, <1>4, <2>1, InOrBefore
  <2> QED
    BY <1>1, <1>2, <1>4, <2>2
<1>5. CASE /\ p[i] = "end" /\ n = Max(Context(p, i)) + 1
           /\ Max(Context(p, i)) \in DOMAIN p /\ Max(Context(p, i)) < i
           /\ p[Max(Context(p, i))] \in Openers /\ Close(p, Max(Context(p, i))) = i
  <2> DEFINE j == Max(Context(p, i))
  <2>1. j \in Nat
    BY <1>5, LinesOf
  <2>2. ASSUME j < b
        PROVE  FALSE
    <3>1. b \in DOMAIN p /\ p[b] \in Openers
      BY <1>1, <2>1, <2>2
    <3>2. Opens(p, j) /\ b <= Close(p, j)
      BY <1>1, <1>2, <1>5 DEF Opens, Openers
    <3> HIDE DEF j
    <3>3. Close(p, b) < Close(p, j)
      BY <1>5, <2>1, <2>2, <3>1, <3>2, Nesting DEF j
    <3>4. Close(p, b) \in Nat
      BY <1>1, Inside
    <3> QED
      BY <1>1, <1>2, <1>5, <3>3, <3>4 DEF j
  <2> QED
    BY <1>1, <1>2, <1>5, <2>1, <2>2
<1> QED
  BY <1>3, <1>4, <1>5, Forward

\* Outside the rest of a block after its barrier, control stays there: it can only come
\* in through the barrier.
LEMMA AllBut ==
  ASSUME NEW p, Whole(p), NEW k \in DOMAIN p, p[k] = "barrier",
         NEW b, b = Max(Context(p, k)),
         NEW i \in DOMAIN p, i <= k \/ Close(p, b) < i, p[i] # "barrier", NEW n \in After(p, i)
  PROVE  n <= k \/ Close(p, b) < n
<1>1. /\ b \in Context(p, k) /\ b \in Nat /\ b < k /\ k <= Close(p, b) /\ Close(p, b) \in Nat
      /\ Opens(p, b)
      /\ b = 0 \/ (b \in DOMAIN p /\ p[b] \in Openers)
      /\ \A j \in Context(p, k) : j <= b
  BY Around, Inside
<1>2. i \in Nat /\ k \in Nat /\ i # k
  BY LinesOf
<1>3. CASE n = i + 1
  BY <1>1, <1>2, <1>3
<1>4. CASE p[i] \in Openers /\ n = Close(p, i) + 1 /\ i < Close(p, i) /\ Close(p, i) \in Nat
  <2>1. CASE Close(p, b) < i
    BY <1>1, <1>2, <1>4, <2>1
  <2>2. CASE i < k
    <3>1. CASE Close(p, i) < k
      BY <1>2, <1>4, <3>1
    <3>2. CASE i \in Context(p, k) /\ k <= Close(p, i)
      <4>1. CASE i = b
        BY <1>1, <1>4, <4>1
      <4>2. CASE i < b
        <5>1. b \in DOMAIN p /\ p[b] \in Openers /\ b <= Close(p, i) /\ Opens(p, i)
          BY <1>1, <1>2, <1>4, <3>2, <4>2 DEF Opens, Openers
        <5>2. Close(p, b) < Close(p, i)
          BY <1>2, <4>2, <5>1, Nesting
        <5> QED
          BY <1>1, <1>4, <5>2
      <4> QED
        BY <1>1, <1>2, <3>2, <4>1, <4>2
    <3> QED
      BY <1>4, <2>2, <3>1, <3>2, InOrBefore
  <2> QED
    BY <1>2, <2>1, <2>2
<1>5. CASE /\ p[i] = "end" /\ n = Max(Context(p, i)) + 1
           /\ Max(Context(p, i)) \in DOMAIN p /\ Max(Context(p, i)) < i
           /\ p[Max(Context(p, i))] \in Openers /\ Close(p, Max(Context(p, i))) = i
  <2> DEFINE j == Max(Context(p, i))
  <2>1. j \in Nat
    BY <1>5, LinesOf
  <2>2. ASSUME k <= j, j < Close(p, b), Close(p, b) < i
        PROVE  FALSE
    <3>1. j \in DOMAIN p /\ p[j] \in Openers /\ b < j /\ j <= Close(p, b) /\ Close(p, j) = i
      BY <1>1, <1>2, <1>5, <2>1, <2>2
    <3> HIDE DEF j
    <3>2. Close(p, j) < Close(p, b)
      BY <1>1, <3>1, Nesting
    <3> QED
      BY <1>1, <1>2, <2>2, <3>1, <3>2
  <2>3. j < i /\ n = j + 1
    BY <1>5
  <2> HIDE DEF j
  <2> QED
    BY <1>1, <1>2, <2>1, <2>2, <2>3
<1> QED
  BY <1>3, <1>4, <1>5, Forward

--------------------------------------------------------------------------------
\* From a use of the first array to one of the second, and back.

\* The lines that matter to two arrays that are apart.
LEMMA Places ==
  ASSUME NEW p, Whole(p), NEW x \in Arrays, NEW y \in Arrays, Apart(p, x, y)
  PROVE  /\ FirstUse(p, x) \in DOMAIN p /\ LastUse(p, x) \in DOMAIN p
         /\ FirstUse(p, y) \in DOMAIN p /\ LastUse(p, y) \in DOMAIN p
         /\ FirstUse(p, x) <= LastUse(p, x)
         /\ LastUse(p, x) < FirstUse(p, y)
         /\ FirstUse(p, y) <= LastUse(p, y)
         /\ \A i \in DOMAIN p : i \in Nat /\ i >= 1
BY UseBounds, Ordered, LinesOf

\* A block around the last use of x and the first of y, and around line k between
\* them, is common; every common block is around what lies between.
LEMMA CommonBlocks ==
  ASSUME NEW p, Whole(p), NEW x \in Arrays, NEW y \in Arrays, Apart(p, x, y)
  PROVE  /\ 0 \in Common(p, x, y)
         /\ \A j : j \in Common(p, x, y) <=>
                    /\ j \in Nat /\ Opens(p, j) /\ j < LastUse(p, x)
                    /\ FirstUse(p, y) <= Close(p, j)
         /\ \A k \in DOMAIN p : LastUse(p, x) < k /\ k < FirstUse(p, y) =>
                                Common(p, x, y) \subseteq Context(p, k)
<1> DEFINE Z == LastUse(p, x)  A == FirstUse(p, y)
<1>1. Z \in DOMAIN p /\ A \in DOMAIN p /\ Z < A /\ Z \in Nat /\ A \in Nat
  BY Places
<1>2. 0 \in Common(p, x, y)
  BY <1>1, Around DEF Common
<1>3. ASSUME NEW j, j \in Common(p, x, y)
      PROVE  j \in Nat /\ Opens(p, j) /\ j < Z /\ A <= Close(p, j)
  BY <1>1, <1>3 DEF Common, Context
<1>4. ASSUME NEW j, j \in Nat, Opens(p, j), j < Z, A <= Close(p, j)
      PROVE  j \in Common(p, x, y)
  <2>1. j = 0 \/ j \in DOMAIN p
    BY <1>1, <1>4, LinesOf
  <2>2. Close(p, j) \in Nat
    <3>1. CASE j = 0
      BY <3>1, LinesOf DEF Close, Final
    <3>2. CASE j # 0
      <4>1. j \in DOMAIN p /\ p[j] \in Openers
        BY <1>4, <2>1, <3>2 DEF Opens, Openers
      <4> QED
        BY <4>1, Closing, LinesOf
    <3> QED
      BY <3>1, <3>2
  <2>3. j \in 0 .. Z - 1 /\ j \in 0 .. A - 1 /\ Z <= Close(p, j)
    BY <1>1, <1>4, <2>2
  <2> QED
    BY <1>4, <2>3 DEF Common, Context
<1>5. ASSUME NEW k \in DOMAIN p, Z < k, k < A, NEW j \in Common(p, x, y)
      PROVE  j \in Context(p, k)
  <2>1. k \in Nat /\ j \in Nat /\ Opens(p, j) /\ j < Z /\ A <= Close(p, j)
    BY <1>3, LinesOf
  <2>2. Close(p, j) \in Nat
    BY <1>1, Inside DEF Common
  <2>3. j \in 0 .. k - 1 /\ k <= Close(p, j)
    BY <1>1, <1>5, <2>1, <2>2
  <2> QED
    BY <2>1, <2>3 DEF Context
<1> QED
  BY <1>2, <1>3, <1>4, <1>5

\* The barrier that lets x hand over to y: the innermost block around it is around
\* every use of x, or around every use of y.
LEMMA Credit ==
  ASSUME NEW p, Whole(p), NEW x \in Arrays, NEW y \in Arrays, Apart(p, x, y)
  PROVE  \E k \in Barriers(p) :
           /\ LastUse(p, x) < k /\ k < FirstUse(p, y)
           /\ Common(p, x, y) \subseteq Context(p, k)
           /\ \/ Max(Context(p, k)) < FirstUse(p, x)
              \/ LastUse(p, y) < Close(p, Max(Context(p, k)))
<1> DEFINE C == Common(p, x, y)
           Z == LastUse(p, x)  A == FirstUse(p, y)
<1>1. CASE Separates(p, Z, A, C)
  <2>1. PICK k \in Barriers(p) : Z < k /\ k < A /\ Context(p, k) \subseteq C
    BY <1>1 DEF Separates
  <2>2. k \in DOMAIN p
    BY DEF Barriers
  <2> DEFINE b == Max(Context(p, k))
  <2>3. b \in Context(p, k) /\ b \in C
    BY <2>1, <2>2, Around
  <2>4. b < FirstUse(p, x)
    <3>1. CASE b = 0
      BY <3>1, Places
    <3>2. CASE b # 0
      <4>1. p[b] = "for" /\ b \in DOMAIN p
        BY <2>2, <2>3, <3>2, Inside DEF Barriers
      <4>2. b < Z /\ A <= Close(p, b)
        BY <2>3, CommonBlocks
      <4> QED
        BY <4>1, <4>2, Ordered
    <3> QED
      BY <3>1, <3>2
  <2>5. C \subseteq Context(p, k)
    BY <2>1, <2>2, CommonBlocks
  <2> QED
    BY <2>1, <2>4, <2>5
<1>2. CASE LoopSeparates(p, x, y, C)
  <2>1. PICK k \in Barriers(p) :
          /\ Z < k /\ k < A
          /\ C \subseteq Context(p, k)
          /\ Context(p, k) \ C # {}
          /\ \A j \in Context(p, k) \ C :
               \/ j < FirstUse(p, x) /\ LastUse(p, x) < Close(p, j)
               \/ j < FirstUse(p, y) /\ LastUse(p, y) < Close(p, j)
    BY <1>2 DEF LoopSeparates
  <2>2. k \in DOMAIN p /\ k \in Nat
    BY LinesOf DEF Barriers
  <2> DEFINE b == Max(Context(p, k))
  <2>3. b \in Context(p, k) /\ \A j \in Context(p, k) : j <= b
    BY <2>2, Around
  <2>4. b \notin C
    <3> SUFFICES ASSUME b \in C
                 PROVE  FALSE
      OBVIOUS
    <3>1. PICK j \in Context(p, k) : j \notin C
      BY <2>1
    <3>2. /\ j \in Nat /\ j < k /\ Opens(p, j) /\ k <= Close(p, j) /\ Close(p, j) \in Nat
          /\ j = 0 \/ (j \in DOMAIN p /\ p[j] \in Openers)
      BY <2>2, Inside
    <3>3. /\ b \in Nat /\ b < k /\ k <= Close(p, b) /\ Close(p, b) \in Nat
          /\ b = 0 \/ (b \in DOMAIN p /\ p[b] \in Openers)
      BY <2>2, <2>3, Inside
    <3>4. b < Z /\ A <= Close(p, b)
      BY CommonBlocks
    <3>5. j < b
      BY <2>3, <3>1, <3>2, <3>3
    <3>6. Close(p, b) < Close(p, j)
      BY <2>2, <3>2, <3>3, <3>5, Nesting
    <3>7. j < Z /\ A <= Close(p, j)
      BY <3>2, <3>3, <3>4, <3>5, <3>6, Places
    <3> QED
      BY <3>1, <3>2, <3>7, CommonBlocks
  <2>5. b < FirstUse(p, x) \/ LastUse(p, y) < Close(p, b)
    BY <2>1, <2>3, <2>4
  <2> QED
    BY <2>1, <2>5
<1> QED
  BY <1>1, <1>2 DEF Apart

\* A common block is a loop, and it is around every use of both.
LEMMA CommonLoops ==
  ASSUME NEW p, Whole(p), NEW x \in Arrays, NEW y \in Arrays, Apart(p, x, y),
         NEW j \in Common(p, x, y), j # 0
  PROVE  /\ j \in DOMAIN p /\ p[j] = "for"
         /\ j < FirstUse(p, x) /\ LastUse(p, y) < Close(p, j)
<1>1. PICK k \in Barriers(p) : j \in Context(p, k)
  BY Credit
<1>2. k \in DOMAIN p /\ p[j] = "for"
  BY <1>1 DEF Barriers
<1>3. j \in DOMAIN p
  BY <1>1, <1>2, Inside
<1>4. j < LastUse(p, x) /\ FirstUse(p, y) <= Close(p, j)
  BY CommonBlocks
<1> QED
  BY <1>2, <1>3, <1>4, Ordered

\* Every way from a use of x to a use of y has a barrier.
LEMMA Handoff ==
  ASSUME NEW p, Whole(p), NEW x \in Arrays, NEW y \in Arrays, Apart(p, x, y)
  PROVE  Fenced(p, x, y)
<1>1. PICK k \in Barriers(p) :
        /\ LastUse(p, x) < k /\ k < FirstUse(p, y)
        /\ \/ Max(Context(p, k)) < FirstUse(p, x)
           \/ LastUse(p, y) < Close(p, Max(Context(p, k)))
  BY Credit
<1> DEFINE b == Max(Context(p, k))
<1>2. k \in DOMAIN p /\ p[k] = "barrier" /\ k \in Nat
  BY LinesOf DEF Barriers
<1>3. b \in Nat /\ Close(p, b) \in Nat
  BY <1>2, Around, Inside
<1>4. \A u \in Uses(p, x) : u \in Nat /\ FirstUse(p, x) <= u /\ u <= LastUse(p, x)
  BY UseBounds, LinesOf
<1>5. \A w \in Uses(p, y) : w \in Nat /\ FirstUse(p, y) <= w /\ w <= LastUse(p, y)
  BY UseBounds, LinesOf
<1>6. /\ FirstUse(p, x) \in Nat /\ LastUse(p, x) \in Nat
      /\ FirstUse(p, y) \in Nat /\ LastUse(p, y) \in Nat
  BY Places
<1>7. CASE b < FirstUse(p, x)
  <2> DEFINE R == {n \in Nat : b < n /\ n <= k}
  <2>1. \A u \in Uses(p, x) : u + 1 \in R
    BY <1>1, <1>2, <1>3, <1>4, <1>6, <1>7
  <2>2. R \cap Uses(p, y) = {}
    BY <1>1, <1>2, <1>5, <1>6
  <2>3. ASSUME NEW i \in R \cap DOMAIN p, p[i] # "barrier", NEW n \in After(p, i)
        PROVE  n \in R
    <3>1. b < n /\ n <= k
      BY <1>2, <2>3, UpTo
    <3>2. n \in Nat
      BY <2>3, Forward
    <3> QED
      BY <3>1, <3>2
  <2> HIDE DEF R
  <2>4. Away(p, R, y)
    BY <2>2, <2>3 DEF Away
  <2>5. R \in SUBSET Nat
    BY DEF R
  <2> QED
    BY <2>1, <2>4, <2>5 DEF Fenced
<1>8. CASE LastUse(p, y) < Close(p, b)
  <2> DEFINE R == {n \in Nat : n <= k \/ Close(p, b) < n}
  <2>1. \A u \in Uses(p, x) : u + 1 \in R
    BY <1>1, <1>2, <1>4, <1>6
  <2>2. R \cap Uses(p, y) = {}
    BY <1>1, <1>2, <1>3, <1>5, <1>6, <1>8
  <2>3. ASSUME NEW i \in R \cap DOMAIN p, p[i] # "barrier", NEW n \in After(p, i)
        PROVE  n \in R
    <3>1. n <= k \/ Close(p, b) < n
      BY <1>2, <2>3, AllBut
    <3>2. n \in Nat
      BY <2>3, Forward
    <3> QED
      BY <3>1, <3>2
  <2> HIDE DEF R
  <2>4. Away(p, R, y)
    BY <2>2, <2>3 DEF Away
  <2>5. R \in SUBSET Nat
    BY DEF R
  <2> QED
    BY <2>1, <2>4, <2>5 DEF Fenced
<1> QED
  BY <1>1, <1>7, <1>8

\* Past the last use of x and every block around it that is not around y, control comes
\* back before it only at the end of a common loop.
LEMMA Past ==
  ASSUME NEW p, Whole(p), NEW x \in Arrays, NEW y \in Arrays, Apart(p, x, y)
  PROVE  \E e \in Nat :
           /\ LastUse(p, x) <= e /\ e < FirstUse(p, y)
           /\ \A i \in DOMAIN p : \A n \in After(p, i) :
                e < i => \/ e < n
                         \/ /\ p[i] = "end" /\ n = Max(Context(p, i)) + 1
                            /\ Max(Context(p, i)) \in Common(p, x, y)
<1> DEFINE C == Common(p, x, y)
           Z == LastUse(p, x)  A == FirstUse(p, y)
           own == Context(p, Z) \ C
           E == {Z} \cup {Close(p, j) : j \in own}
           e == Max(E)
<1>1. Z \in DOMAIN p /\ A \in DOMAIN p /\ Z < A /\ Z \in Nat /\ A \in Nat
  BY Places
<1>2. ASSUME NEW j \in own
      PROVE  /\ j \in DOMAIN p /\ p[j] \in Openers /\ Opens(p, j) /\ j < Z /\ j \in Nat
             /\ Z <= Close(p, j) /\ Close(p, j) < A /\ Close(p, j) \in Nat
  <2>1. /\ j \in Nat /\ j < Z /\ Opens(p, j) /\ Z <= Close(p, j) /\ Close(p, j) \in Nat
        /\ j = 0 \/ (j \in DOMAIN p /\ p[j] \in Openers)
    BY <1>1, Inside
  <2>2. j # 0 /\ ~(A <= Close(p, j))
    BY <2>1, CommonBlocks
  <2> QED
    BY <1>1, <2>1, <2>2
<1>3. E \in SUBSET (0 .. A) /\ Z \in E
  BY <1>1, <1>2
<1>4. \A j \in own : Close(p, j) \in E
  OBVIOUS
<1>5. \A n \in E : n = Z \/ \E j \in own : n = Close(p, j)
  OBVIOUS
<1> HIDE DEF E, own
<1>6. e \in E /\ \A n \in E : n <= e
  BY <1>1, <1>3, GreatestMember
<1> HIDE DEF e
<1>7. e \in Nat /\ Z <= e /\ e < A
  BY <1>1, <1>2, <1>3, <1>5, <1>6
<1>8. ASSUME NEW j \in DOMAIN p, p[j] \in Openers, j < e, e < Close(p, j)
      PROVE  j \in C
  <2>1. Opens(p, j) /\ j \in Nat /\ Close(p, j) \in Nat
    BY <1>8, Closing, LinesOf DEF Opens, Openers
  <2>2. CASE e = Z
    <3>1. j \in Context(p, Z)
      BY <1>1, <1>8, <2>1, <2>2, InOrBefore
    <3> QED
      BY <1>4, <1>6, <1>7, <1>8, <2>1, <3>1 DEF own
  <2>3. ASSUME NEW i \in own, e = Close(p, i)
        PROVE  j \in C
    <3>1. CASE i < j
      <4>1. Close(p, j) < Close(p, i)
        BY <1>2, <1>8, <2>1, <2>3, <3>1, Nesting
      <4> QED
        BY <1>7, <1>8, <2>1, <2>3, <4>1
    <3>2. CASE j < i
      <4>1. j < Z /\ Z <= Close(p, j)
        BY <1>1, <1>2, <1>7, <1>8, <2>1, <2>3, <3>2
      <4>2. j \in Context(p, Z)
        BY <1>1, <1>8, <2>1, <4>1, InOrBefore
      <4> QED
        BY <1>4, <1>6, <1>7, <1>8, <2>1, <4>2 DEF own
    <3>3. j # i
      BY <1>7, <1>8, <2>1, <2>3
    <3> QED
      BY <1>2, <2>1, <3>1, <3>2, <3>3
  <2> QED
    BY <1>5, <1>6, <2>2, <2>3
<1>9. ASSUME NEW i \in DOMAIN p, NEW n \in After(p, i), e < i, ~(e < n)
      PROVE  /\ p[i] = "end" /\ n = Max(Context(p, i)) + 1
             /\ Max(Context(p, i)) \in C
  <2>1. i \in Nat /\ n \in Nat
    BY LinesOf, Forward
  <2>2. /\ p[i] = "end" /\ n = Max(Context(p, i)) + 1
        /\ Max(Context(p, i)) \in DOMAIN p /\ Max(Context(p, i)) < i
        /\ p[Max(Context(p, i))] \in Openers /\ Close(p, Max(Context(p, i))) = i
    BY <1>7, <1>9, <2>1, Forward
  <2> DEFINE j == Max(Context(p, i))
  <2>3. j \in Nat
    BY <2>2, LinesOf
  <2>4. j < e
    BY <1>7, <1>9, <2>1, <2>2, <2>3
  <2> QED
    BY <1>8, <1>9, <2>2, <2>4
<1> QED
  BY <1>7, <1>9

\* Every way back from a use of y to a use of x has a barrier too.
LEMMA Handback ==
  ASSUME NEW p, Whole(p), NEW x \in Arrays, NEW y \in Arrays, Apart(p, x, y)
  PROVE  Fenced(p, y, x)
<1> DEFINE C == Common(p, x, y)
           c == Max(C)
<1>1. PICK e \in Nat :
        /\ LastUse(p, x) <= e /\ e < FirstUse(p, y)
        /\ \A i \in DOMAIN p : \A n \in After(p, i) :
             e < i => e < n \/ (p[i] = "end" /\ n = Max(Context(p, i)) + 1 /\ Max(Context(p, i)) \in C)
  BY Past
<1>2. /\ FirstUse(p, x) \in Nat /\ LastUse(p, x) \in Nat /\ FirstUse(p, y) \in Nat
      /\ LastUse(p, y) \in Nat /\ LastUse(p, x) \in DOMAIN p
      /\ FirstUse(p, x) <= LastUse(p, x) /\ FirstUse(p, y) <= LastUse(p, y)
  BY Places
<1>3. \A u \in Uses(p, x) : u \in Nat /\ FirstUse(p, x) <= u /\ u <= LastUse(p, x)
  BY UseBounds, LinesOf
<1>4. \A w \in Uses(p, y) : w \in Nat /\ FirstUse(p, y) <= w /\ w <= LastUse(p, y)
  BY UseBounds, LinesOf
<1>5. c \in C /\ \A j \in C : j \in Nat /\ j <= c
  <2>1. C # {} /\ C \in SUBSET (0 .. LastUse(p, x))
    <3>1. \A j \in C : j \in Nat /\ j < LastUse(p, x)
      BY CommonBlocks
    <3>2. 0 \in C
      BY CommonBlocks
    <3> QED
      BY <1>2, <3>1, <3>2
  <2> HIDE DEF C
  <2>2. Max(C) \in C /\ \A j \in C : j <= Max(C)
    BY <1>2, <2>1, GreatestMember
  <2>3. \A j \in C : j \in Nat
    BY <1>2, <2>1
  <2> QED
    BY <2>2, <2>3
<1>6. CASE c = 0
  <2> DEFINE R == {n \in Nat : e < n}
  <2>1. \A w \in Uses(p, y) : w + 1 \in R
    BY <1>1, <1>2, <1>4
  <2>2. R \cap Uses(p, x) = {}
    BY <1>1, <1>2, <1>3
  <2>3. ASSUME NEW i \in R \cap DOMAIN p, NEW n \in After(p, i)
        PROVE  n \in R
    <3>1. CASE p[i] = "end" /\ Max(Context(p, i)) \in C
      <4>1. Max(Context(p, i)) \in DOMAIN p
        BY <3>1, Innermost
      <4>2. Max(Context(p, i)) = 0
        BY <1>5, <1>6, <3>1
      <4> QED
        BY <4>1, <4>2, LinesOf
    <3>2. n \in Nat
      BY <2>3, Forward
    <3> QED
      BY <1>1, <2>3, <3>1, <3>2
  <2> HIDE DEF R
  <2>4. Away(p, R, x)
    BY <2>2, <2>3 DEF Away
  <2>5. R \in SUBSET Nat
    BY DEF R
  <2> QED
    BY <2>1, <2>4, <2>5 DEF Fenced
<1>7. CASE c # 0
  <2>1. /\ c \in DOMAIN p /\ p[c] = "for" /\ c \in Nat
        /\ c < FirstUse(p, x) /\ LastUse(p, y) < Close(p, c)
        /\ Close(p, c) \in Nat
    <3>1. c \in DOMAIN p /\ p[c] = "for" /\ c < FirstUse(p, x) /\ LastUse(p, y) < Close(p, c)
      BY <1>5, <1>7, CommonLoops
    <3> HIDE DEF c
    <3>2. Close(p, c) \in c + 1 .. Len(p)
      BY <3>1, Closing DEF Openers
    <3> QED
      BY <3>1, <3>2, LinesOf
  <2>2. {k \in C : k <= c} = C
    BY <1>5
  <2>3. \/ Separates(p, c, FirstUse(p, x), C)
        \/ Separates(p, LastUse(p, y), Close(p, c), C)
    BY <1>5, <1>7, <2>1, <2>2 DEF MeetsNextIteration, Apart
  <2>4. ASSUME NEW k \in Barriers(p), c < k, k < Close(p, c), Context(p, k) \subseteq C
        PROVE  /\ k \in DOMAIN p /\ p[k] = "barrier" /\ k \in Nat
               /\ Max(Context(p, k)) = c
    <3>1. k \in DOMAIN p /\ p[k] = "barrier" /\ k \in Nat
      BY LinesOf DEF Barriers
    <3>2. c \in Context(p, k)
      BY <2>1, <2>4, <3>1, InOrBefore DEF Openers
    <3>3. Max(Context(p, k)) \in Context(p, k) /\ c <= Max(Context(p, k))
      BY <3>1, <3>2, Around
    <3>4. Max(Context(p, k)) <= c /\ Max(Context(p, k)) \in Nat
      BY <1>5, <2>4, <3>3
    <3> HIDE DEF c
    <3> QED
      BY <2>1, <3>1, <3>3, <3>4
  <2> HIDE DEF c
  <2>5. CASE Separates(p, c, FirstUse(p, x), C)
    <3>1. PICK k \in Barriers(p) : c < k /\ k < FirstUse(p, x) /\ Context(p, k) \subseteq C
      BY <2>5 DEF Separates
    <3>2. k \in DOMAIN p /\ p[k] = "barrier" /\ k \in Nat /\ Max(Context(p, k)) = c
      <4>1. k \in Nat
        BY LinesOf DEF Barriers
      <4>2. k < Close(p, c)
        BY <1>1, <1>2, <2>1, <3>1, <4>1
      <4> QED
        BY <2>4, <3>1, <4>2
    <3> DEFINE R == {n \in Nat : n <= k \/ e < n}
    <3>3. \A w \in Uses(p, y) : w + 1 \in R
      BY <1>1, <1>2, <1>4
    <3>4. R \cap Uses(p, x) = {}
      BY <1>1, <1>2, <1>3, <3>1, <3>2
    <3>5. ASSUME NEW i \in R \cap DOMAIN p, p[i] # "barrier", NEW n \in After(p, i)
          PROVE  n \in R
      <4>1. n \in Nat /\ i \in Nat
        BY <3>5, Forward
      <4>2. CASE e < i
        <5>1. CASE e < n
          BY <4>1, <5>1
        <5>2. CASE n = Max(Context(p, i)) + 1 /\ Max(Context(p, i)) \in C
          BY <1>5, <2>1, <3>1, <3>2, <4>1, <5>2
        <5> QED
          BY <1>1, <3>5, <4>2, <5>1, <5>2
      <4>3. CASE i <= k
        <5>1. n <= k \/ Close(p, c) < n
          BY <3>2, <3>5, <4>3, AllBut
        <5> QED
          BY <1>1, <1>2, <2>1, <4>1, <5>1
      <4> QED
        BY <3>5, <4>2, <4>3
    <3> HIDE DEF R
    <3>6. Away(p, R, x)
      BY <3>4, <3>5 DEF Away
    <3>7. R \in SUBSET Nat
      BY DEF R
    <3> QED
      BY <3>3, <3>6, <3>7 DEF Fenced
  <2>6. CASE Separates(p, LastUse(p, y), Close(p, c), C)
    <3>1. PICK k \in Barriers(p) :
            LastUse(p, y) < k /\ k < Close(p, c) /\ Context(p, k) \subseteq C
      BY <2>6 DEF Separates
    <3>2. k \in DOMAIN p /\ p[k] = "barrier" /\ k \in Nat /\ Max(Context(p, k)) = c
      <4>1. k \in Nat
        BY LinesOf DEF Barriers
      <4>2. c < k
        BY <1>1, <1>2, <2>1, <3>1, <4>1
      <4> QED
        BY <2>4, <3>1, <4>2
    <3> DEFINE R == {n \in Nat : e < n /\ n <= k}
    <3>3. \A w \in Uses(p, y) : w + 1 \in R
      BY <1>1, <1>2, <1>4, <3>1, <3>2
    <3>4. R \cap Uses(p, x) = {}
      BY <1>1, <1>2, <1>3
    <3>5. ASSUME NEW i \in R \cap DOMAIN p, p[i] # "barrier", NEW n \in After(p, i)
          PROVE  n \in R
      <4>1. n \in Nat /\ i \in Nat
        BY <3>5, Forward
      <4>2. c < i
        BY <1>1, <1>2, <2>1, <3>5
      <4>3. c < n /\ n <= k
        BY <3>2, <3>5, <4>2, UpTo
      <4>4. ASSUME p[i] = "end", n = Max(Context(p, i)) + 1, Max(Context(p, i)) \in C
            PROVE  FALSE
        <5> DEFINE j == Max(Context(p, i))
        <5>1. j \in DOMAIN p /\ p[j] \in Openers /\ Close(p, j) = i
          BY <4>4, Innermost
        <5>2. j \in Nat /\ j <= c
          BY <1>5, <4>4
        <5>3. j = c
          <6> HIDE DEF j
          <6> QED
            BY <2>1, <4>1, <4>3, <4>4, <5>2 DEF j
        <5> QED
          BY <2>1, <3>1, <3>2, <3>5, <4>1, <5>1, <5>3
      <4> QED
        BY <1>1, <3>5, <4>1, <4>3, <4>4
    <3> HIDE DEF R
    <3>6. Away(p, R, x)
      BY <3>4, <3>5 DEF Away
    <3>7. R \in SUBSET Nat
      BY DEF R
    <3> QED
      BY <3>3, <3>6, <3>7 DEF Fenced
  <2> QED
    BY <2>3, <2>5, <2>6
<1> QED
  BY <1>6, <1>7

\* Arrays that do not overlap may share: a barrier lies on every way between them.
LEMMA NoOverlapIsFenced ==
  ASSUME NEW p, Whole(p), NEW a \in Arrays, NEW b \in Arrays, a # b,
         ~Overlaps(p, a, b) \/ ~Overlaps(p, b, a)
  PROVE  Fenced(p, a, b)
<1>1. Apart(p, a, b) \/ Apart(p, b, a)
  BY NoOverlap
<1> QED
  BY <1>1, Handoff, Handback

--------------------------------------------------------------------------------
\* What arrays hold.

\* Control in R stays in R, unless a loop around all uses of x starts them afresh, and
\* R has no use of y.
Lasts(p, R, x, y) ==
  /\ R \cap Uses(p, y) = {}
  /\ \A i \in R \cap DOMAIN p : \A n \in After(p, i) :
       \/ n \in R
       \/ /\ p[i] = "end" /\ n = Max(Context(p, i)) + 1
          /\ x \in Inner(p, Max(Context(p, i)))

\* What a use of y does to x, nobody reads.
Harmless(p, x, y) == \A w \in Uses(p, y) : \E R \in SUBSET Nat : w + 1 \in R /\ Lasts(p, R, x, x)

\* After a use of the later array there is no use of the earlier one before both start
\* afresh.
LEMMA LaterLasts ==
  ASSUME NEW p, Whole(p), NEW x \in Arrays, NEW y \in Arrays, Apart(p, x, y),
         NEW z \in {x, y}, NEW w \in Uses(p, y)
  PROVE  \E R \in SUBSET Nat : w + 1 \in R /\ Lasts(p, R, z, x)
<1>1. PICK e \in Nat :
        /\ LastUse(p, x) <= e /\ e < FirstUse(p, y)
        /\ \A i \in DOMAIN p : \A n \in After(p, i) :
             e < i => \/ e < n
                      \/ /\ p[i] = "end" /\ n = Max(Context(p, i)) + 1
                         /\ Max(Context(p, i)) \in Common(p, x, y)
  BY Past
<1>2. /\ FirstUse(p, x) \in Nat /\ LastUse(p, x) \in Nat /\ FirstUse(p, y) \in Nat
      /\ LastUse(p, y) \in Nat /\ w \in Nat
      /\ FirstUse(p, x) <= LastUse(p, x) /\ FirstUse(p, y) <= w /\ w <= LastUse(p, y)
  BY Places, UseBounds, LinesOf
<1>3. \A u \in Uses(p, x) : u \in Nat /\ u <= LastUse(p, x)
  BY UseBounds, LinesOf
<1> DEFINE R == {n \in Nat : e < n}
<1>4. w + 1 \in R /\ R \cap Uses(p, x) = {}
  BY <1>1, <1>2, <1>3
<1>5. ASSUME NEW i \in R \cap DOMAIN p, NEW n \in After(p, i), n \notin R
      PROVE  /\ p[i] = "end" /\ n = Max(Context(p, i)) + 1
             /\ z \in Inner(p, Max(Context(p, i)))
  <2> DEFINE j == Max(Context(p, i))
  <2>1. n \in Nat
    BY <1>5, Forward
  <2>2. p[i] = "end" /\ n = j + 1 /\ j \in Common(p, x, y)
    BY <1>1, <1>5, <2>1
  <2>3. j \in DOMAIN p /\ Close(p, j) = i /\ j \in Nat /\ j # 0 /\ i \in Nat
    BY <2>2, Innermost, LinesOf
  <2> HIDE DEF j
  <2>4. j < FirstUse(p, x) /\ LastUse(p, y) < Close(p, j)
    BY <2>2, <2>3, CommonLoops
  <2>5. z \in Inner(p, j)
    BY <1>1, <1>2, <2>3, <2>4 DEF Inner
  <2> QED
    BY <2>2, <2>5 DEF j
<1> HIDE DEF R
<1>6. Lasts(p, R, z, x)
  BY <1>4, <1>5 DEF Lasts
<1>7. R \in SUBSET Nat
  BY DEF R
<1> QED
  BY <1>4, <1>6, <1>7

\* Of two arrays that do not overlap, the one does not touch what the other still needs:
\* it comes after it, or does not come before it starts afresh.
LEMMA NoOverlapIsHarmless ==
  ASSUME NEW p, Whole(p), NEW a \in Arrays, NEW b \in Arrays, a # b,
         ~Overlaps(p, a, b) \/ ~Overlaps(p, b, a)
  PROVE  \/ Harmless(p, a, b)
         \/ \E R \in SUBSET Nat : FirstUse(p, a) + 1 \in R /\ Lasts(p, R, a, b)
<1>1. CASE Apart(p, a, b)
  BY <1>1, LaterLasts DEF Harmless
<1>2. CASE Apart(p, b, a)
  BY <1>2, LaterLasts, UseBounds
<1> QED
  BY <1>1, <1>2, NoOverlap

--------------------------------------------------------------------------------
\* The inductive invariant.

TextOK ==
  /\ Text(prog)
  /\ phase # "write" => Whole(prog)
  /\ phase = "write" => slots = <<>>
  /\ phase # "run" => line = 0 /\ since = {} /\ \A x \in Arrays : value[x] = "none"
  /\ phase = "run" => line # 0

\* Arrays in one slot do not overlap.
PlacedOK ==
  \A s \in DOMAIN slots : \A x, y \in slots[s] :
    x # y => ~Overlaps(prog, x, y) \/ ~Overlaps(prog, y, x)

\* An array in use keeps control away from those that share with it.
RaceOK ==
  phase = "run" => \A x \in since : \A y \in Arrays :
    Shares(x, y) => \E R \in SUBSET Nat : line \in R /\ Away(prog, R, y)

\* A value that is lost is not read again; one that is held is out of reach of the
\* arrays that share with it, or they come when it is done with.
LossOK ==
  phase = "run" => \A x \in Arrays :
    /\ value[x] = "lost" => /\ \E y \in Arrays : Shares(x, y)
                            /\ \E R \in SUBSET Nat : line \in R /\ Lasts(prog, R, x, x)
    /\ value[x] = "own" => \A y \in Arrays : Shares(x, y) =>
         \/ \E R \in SUBSET Nat : line \in R /\ Lasts(prog, R, x, y)
         \/ Harmless(prog, x, y)

IInv == TypeOK /\ TextOK /\ PlacedOK /\ RaceOK /\ NoRaceAdded /\ LossOK

\* Writing one more line does not change the levels before it.
LEMMA LevelAppend ==
  ASSUME NEW p \in Seq(Lines), NEW t \in Lines, NEW i \in 0 .. Len(p)
  PROVE  Level(Append(p, t), i) = Level(p, i)
<1> DEFINE q == Append(p, t)
<1>1. \A k \in 1 .. i : q[k] = p[k]
  OBVIOUS
<1> HIDE DEF q
<1>2. {k \in 1 .. i : q[k] \in {"for", "block"}} = {k \in 1 .. i : p[k] \in {"for", "block"}}
  BY <1>1
<1>3. {k \in 1 .. i : q[k] = "end"} = {k \in 1 .. i : p[k] = "end"}
  BY <1>1
<1>4. Level(q, i) = Level(p, i)
  BY <1>2, <1>3 DEF Level
<1> QED
  BY <1>4 DEF q

\* Sharing is mutual, and arrays that share do not overlap.
LEMMA Sharing ==
  ASSUME PlacedOK, NEW x \in Arrays, NEW y \in Arrays, Shares(x, y)
  PROVE  /\ x # y /\ Shares(y, x)
         /\ ~Overlaps(prog, x, y) \/ ~Overlaps(prog, y, x)
BY DEF PlacedOK, Shares

\* No array shares in a kernel with an exit.
LEMMA ExitForbids ==
  ASSUME PlacedOK, NEW i \in DOMAIN prog, prog[i] = "exit"
  PROVE  \A x, y \in Arrays : ~Shares(x, y)
BY Sharing DEF Overlaps

\* The empty text, no slot, nothing in use.
LEMMA InitialInv == Init => IInv
<1> SUFFICES ASSUME Init
             PROVE  IInv
  OBVIOUS
<1> USE DEF Init
<1>1. prog \in Seq(Lines) /\ Len(prog) = 0
  OBVIOUS
<1>2. TypeOK
  BY <1>1, OrderAssumption, BoundAssumption DEF TypeOK, Final
<1>3. Text(prog)
  BY <1>1, LevelZero DEF Text
<1> QED
  BY <1>2, <1>3 DEF IInv, TextOK, PlacedOK, RaceOK, NoRaceAdded, LossOK

\* Writing keeps the text one that can be completed.
LEMMA WriteInv ==
  ASSUME IInv, NEW t \in Lines, Write(t)
  PROVE  IInv'
<1> DEFINE q == Append(prog, t)
<1>1. prog \in Seq(Lines) /\ q \in Seq(Lines) /\ Len(q) = Len(prog) + 1 /\ Len(prog) \in Nat
  BY DEF IInv, TypeOK
<1>2. /\ phase = "write" /\ prog' = q /\ Depth(q) \in Nat /\ Len(q) + Depth(q) <= MaxLines
      /\ UNCHANGED <<phase, left, slots, line, since, value>>
  BY DEF Write
<1> HIDE DEF q
<1>3. TypeOK'
  <2>1. Len(q) <= MaxLines
    BY <1>1, <1>2, BoundAssumption
  <2>2. line = 0
    BY <1>2 DEF IInv, TextOK
  <2> QED
    BY <1>1, <1>2, <2>1, <2>2 DEF IInv, TypeOK, Final
<1>4. Text(q)
  <2>1. ASSUME NEW i \in 0 .. Len(q)
        PROVE  Level(q, i) \in Nat
    <3>1. CASE i = Len(q)
      BY <1>2, <3>1 DEF Depth
    <3>2. CASE i \in 0 .. Len(prog)
      <4>1. Level(q, i) = Level(prog, i)
        BY <1>1, <3>2, LevelAppend DEF q
      <4> QED
        BY <3>2, <4>1 DEF IInv, TextOK, Text
    <3> QED
      BY <1>1, <3>1, <3>2
  <2> QED
    BY <1>1, <2>1 DEF Text
<1>5. TextOK' /\ slots' = <<>>
  BY <1>2, <1>4 DEF IInv, TextOK
<1>6. PlacedOK' /\ RaceOK' /\ NoRaceAdded' /\ LossOK'
  BY <1>2, <1>5 DEF PlacedOK, RaceOK, NoRaceAdded, LossOK, IInv, TextOK
<1> QED
  BY <1>3, <1>5, <1>6 DEF IInv

\* The text is complete, and nothing is placed yet.
LEMMA CompleteInv ==
  ASSUME IInv, Complete
  PROVE  IInv'
<1>1. /\ phase = "write" /\ phase' = "place" /\ Depth(prog) = 0
      /\ \A x \in Arrays : Uses(prog, x) # {}
      /\ UNCHANGED <<prog, left, slots, line, since, value>>
  BY DEF Complete
<1>2. TypeOK'
  BY <1>1 DEF IInv, TypeOK
<1>3. TextOK' /\ slots' = <<>>
  BY <1>1 DEF IInv, TextOK, Whole
<1> QED
  BY <1>1, <1>2, <1>3 DEF IInv, PlacedOK, RaceOK, NoRaceAdded, LossOK, TextOK

\* An array joins a slot only if it overlaps no member of it.
LEMMA PlaceInv ==
  ASSUME IInv, Place
  PROVE  IInv'
<1> DEFINE x == Head(left)
           open == {s \in DOMAIN slots : Fits(prog, x, slots[s])}
<1>1. /\ phase = "place" /\ left # <<>> /\ left' = Tail(left)
      /\ slots' = IF open = {} THEN Append(slots, {x})
                  ELSE [slots EXCEPT ![Min(open)] = @ \cup {x}]
      /\ UNCHANGED <<phase, prog, line, since, value>>
  BY DEF Place
<1>2. /\ left \in Seq(Arrays) /\ slots \in Seq(SUBSET Arrays)
  BY DEF IInv, TypeOK
<1>3. x \in Arrays /\ left' \in Seq(Arrays)
  BY <1>1, <1>2
<1> HIDE DEF x
<1>4. slots' \in Seq(SUBSET Arrays) /\ PlacedOK'
  <2>1. CASE open = {}
    <3>1. slots' = Append(slots, {x})
      BY <1>1, <2>1
    <3>2. /\ slots' \in Seq(SUBSET Arrays) /\ DOMAIN slots' = 1 .. Len(slots) + 1
          /\ DOMAIN slots = 1 .. Len(slots) /\ Len(slots) \in Nat
          /\ \A s \in DOMAIN slots : slots'[s] = slots[s]
          /\ slots'[Len(slots) + 1] = {x}
      BY <1>2, <1>3, <3>1
    <3>3. ASSUME NEW s \in DOMAIN slots', NEW a \in slots'[s], NEW b \in slots'[s], a # b
          PROVE  ~Overlaps(prog, a, b) \/ ~Overlaps(prog, b, a)
      <4>1. s \in DOMAIN slots
        BY <3>2, <3>3
      <4> QED
        BY <3>2, <3>3, <4>1 DEF IInv, PlacedOK
    <3> QED
      BY <1>1, <3>2, <3>3 DEF PlacedOK
  <2>2. CASE open # {}
    <3> DEFINE m == Min(open)
    <3>1. m \in open
      <4>1. open \in SUBSET Nat
        BY <1>2
      <4> HIDE DEF open
      <4> QED
        BY <2>2, <4>1, LeastMember
    <3>2. m \in DOMAIN slots /\ \A y \in slots[m] : ~Overlaps(prog, x, y)
      BY <3>1 DEF Fits
    <3>3. slots' = [slots EXCEPT ![m] = @ \cup {x}]
      BY <1>1, <2>2
    <3> HIDE DEF m
    <3>4. /\ slots' \in Seq(SUBSET Arrays) /\ DOMAIN slots' = DOMAIN slots
          /\ \A s \in DOMAIN slots : s # m => slots'[s] = slots[s]
          /\ slots'[m] = slots[m] \cup {x}
      BY <1>2, <1>3, <3>2, <3>3
    <3>5. ASSUME NEW s \in DOMAIN slots', NEW a \in slots'[s], NEW b \in slots'[s], a # b
          PROVE  ~Overlaps(prog, a, b) \/ ~Overlaps(prog, b, a)
      <4>1. CASE s = m
        <5>1. CASE a \in slots[m] /\ b \in slots[m]
          BY <3>2, <3>5, <5>1 DEF IInv, PlacedOK
        <5>2. CASE a = x /\ b \in slots[m]
          BY <3>2, <5>2
        <5>3. CASE b = x /\ a \in slots[m]
          BY <3>2, <5>3
        <5> QED
          BY <3>4, <3>5, <4>1, <5>1, <5>2, <5>3
      <4>2. CASE s # m
        BY <3>4, <3>5, <4>2 DEF IInv, PlacedOK
      <4> QED
        BY <4>1, <4>2
    <3> QED
      BY <1>1, <3>4, <3>5 DEF PlacedOK
  <2> QED
    BY <2>1, <2>2
<1>5. TypeOK'
  BY <1>1, <1>3, <1>4 DEF IInv, TypeOK
<1>6. TextOK'
  BY <1>1 DEF IInv, TextOK
<1>7. RaceOK' /\ NoRaceAdded' /\ LossOK'
  BY <1>1 DEF IInv, RaceOK, NoRaceAdded, LossOK, TextOK
<1> QED
  BY <1>4, <1>5, <1>6, <1>7 DEF IInv

\* When the kernel starts, nothing is in use and nothing is held.
LEMMA LaunchInv ==
  ASSUME IInv, Launch
  PROVE  IInv'
<1>1. /\ phase = "place" /\ phase' = "run" /\ line' = 1
      /\ UNCHANGED <<prog, left, slots, since, value>>
  BY DEF Launch
<1>2. Len(prog) \in Nat /\ since = {} /\ \A x \in Arrays : value[x] = "none"
  BY <1>1 DEF IInv, TypeOK, TextOK
<1>3. TypeOK'
  BY <1>1, <1>2 DEF IInv, TypeOK, Final
<1>4. TextOK' /\ PlacedOK'
  BY <1>1 DEF IInv, TextOK, PlacedOK
<1>5. RaceOK' /\ NoRaceAdded' /\ LossOK'
  BY <1>1, <1>2 DEF RaceOK, NoRaceAdded, LossOK
<1> QED
  BY <1>3, <1>4, <1>5 DEF IInv

\* A kernel that runs is whole, and control goes to one of its lines or past the last.
LEMMA Onward ==
  ASSUME IInv, Running
  PROVE  /\ Whole(prog) /\ phase = "run" /\ line \in DOMAIN prog /\ line \in Nat
         /\ \A n \in After(prog, line) : n \in 0 .. Final(prog) /\ n # 0
<1>1. Whole(prog) /\ phase = "run" /\ line \in DOMAIN prog /\ line \in Nat
  BY LinesOf DEF IInv, TextOK, Running
<1>2. Len(prog) \in Nat /\ line >= 1 /\ line <= Len(prog)
  BY <1>1, LinesOf
<1>3. ASSUME NEW n \in After(prog, line)
      PROVE  n \in 0 .. Final(prog) /\ n # 0
  <2>1. CASE n = line + 1
    BY <1>1, <1>2, <2>1 DEF Final
  <2>2. CASE prog[line] \in Openers /\ n = Close(prog, line) + 1
    <3>1. Close(prog, line) \in line + 1 .. Len(prog)
      BY <1>1, <2>2, Closing
    <3> QED
      BY <1>1, <1>2, <2>2, <3>1 DEF Final
  <2>3. CASE /\ n = Max(Context(prog, line)) + 1 /\ Max(Context(prog, line)) \in DOMAIN prog
             /\ Max(Context(prog, line)) < line
    <3>1. Max(Context(prog, line)) \in Nat
      BY <1>1, <2>3, LinesOf
    <3> QED
      BY <1>1, <1>2, <2>3, <3>1 DEF Final
  <2> QED
    BY <1>1, <2>1, <2>2, <2>3, Forward
<1> QED
  BY <1>1, <1>3

\* A step along the text that uses no array.
LEMMA MoveInv ==
  ASSUME IInv, Running, NEW n \in After(prog, line), line' = n,
         UNCHANGED <<phase, prog, left, slots>>,
         since' = {} \/ (since' = since /\ prog[line] # "barrier"),
         value' \in [Arrays -> {"none", "own", "lost"}],
         \A x \in Arrays : value'[x] \in {"none", value[x]},
         prog[line] = "end" /\ n = Max(Context(prog, line)) + 1 =>
           \A x \in Inner(prog, Max(Context(prog, line))) : value'[x] = "none"
  PROVE  IInv'
<1>1. /\ Whole(prog) /\ phase = "run" /\ line \in DOMAIN prog
      /\ n \in 0 .. Final(prog) /\ n # 0
  BY Onward
<1>2. TypeOK'
  BY <1>1 DEF IInv, TypeOK
<1>3. TextOK' /\ PlacedOK' /\ NoRaceAdded'
  BY <1>1 DEF IInv, TextOK, PlacedOK, NoRaceAdded, Shares
<1>4. \A x, y \in Arrays : Shares(x, y)' <=> Shares(x, y)
  BY DEF Shares
<1>5. RaceOK'
  <2> SUFFICES ASSUME NEW x \in since, NEW y \in Arrays, Shares(x, y), prog[line] # "barrier"
               PROVE  \E R \in SUBSET Nat : n \in R /\ Away(prog, R, y)
    BY <1>4 DEF RaceOK, IInv, TypeOK
  <2>1. PICK R \in SUBSET Nat : line \in R /\ Away(prog, R, y)
    BY <1>1 DEF IInv, RaceOK
  <2>2. n \in R
    BY <1>1, <2>1 DEF Away
  <2> QED
    BY <2>1, <2>2
<1>6. LossOK'
  <2>1. ASSUME NEW x \in Arrays, value'[x] # "none", NEW z \in Arrays,
               NEW R \in SUBSET Nat, line \in R, Lasts(prog, R, x, z)
        PROVE  n \in R
    BY <1>1, <2>1 DEF Lasts
  <2>2. ASSUME NEW x \in Arrays, value'[x] = "lost"
        PROVE  /\ \E y \in Arrays : Shares(x, y)
               /\ \E R \in SUBSET Nat : n \in R /\ Lasts(prog, R, x, x)
    <3>1. value[x] = "lost"
      BY <2>2
    <3>2. PICK R \in SUBSET Nat : line \in R /\ Lasts(prog, R, x, x)
      BY <1>1, <3>1 DEF IInv, LossOK
    <3>3. n \in R
      BY <2>1, <2>2, <3>2
    <3>4. \E y \in Arrays : Shares(x, y)
      BY <1>1, <3>1 DEF IInv, LossOK
    <3> QED
      BY <3>2, <3>3, <3>4
  <2>3. ASSUME NEW x \in Arrays, value'[x] = "own", NEW y \in Arrays, Shares(x, y)
        PROVE  \/ \E R \in SUBSET Nat : n \in R /\ Lasts(prog, R, x, y)
               \/ Harmless(prog, x, y)
    <3>1. value[x] = "own"
      BY <2>3
    <3>2. \/ \E R \in SUBSET Nat : line \in R /\ Lasts(prog, R, x, y)
          \/ Harmless(prog, x, y)
      BY <1>1, <2>3, <3>1 DEF IInv, LossOK
    <3> QED
      BY <2>1, <2>3, <3>2
  <2> QED
    BY <1>4, <2>2, <2>3 DEF LossOK
<1> QED
  BY <1>2, <1>3, <1>5, <1>6 DEF IInv

\* A barrier ends every use.
LEMMA BarrierInv ==
  ASSUME IInv, Barrier
  PROVE  IInv'
<1>1. /\ Running /\ since' = {} /\ line' = line + 1 /\ prog[line] = "barrier"
      /\ UNCHANGED <<phase, prog, left, slots, value>>
  BY DEF Barrier
<1>2. line + 1 \in After(prog, line)
  BY DEF After
<1> QED
  BY <1>1, <1>2, MoveInv DEF IInv, TypeOK

\* A block may be entered or passed over.
LEMMA OpenInv ==
  ASSUME IInv, Open
  PROVE  IInv'
<1>1. /\ Running /\ prog[line] \in Openers /\ line' \in {line + 1, Close(prog, line) + 1}
      /\ UNCHANGED <<phase, prog, left, slots, since, value>>
  BY DEF Open, Openers
<1>2. line' \in After(prog, line)
  BY <1>1 DEF After
<1>3. prog[line] # "barrier" /\ prog[line] # "end"
  BY <1>1 DEF Openers
<1> QED
  BY <1>1, <1>2, <1>3, MoveInv DEF IInv, TypeOK

\* The end of a block goes on or back, and back starts the arrays of the block afresh.
LEMMA EndInv ==
  ASSUME IInv, End
  PROVE  IInv'
<1> DEFINE j == Max(Context(prog, line))
<1>1. /\ Running /\ prog[line] = "end" /\ UNCHANGED <<phase, prog, left, slots, since>>
      /\ \/ line' = line + 1 /\ UNCHANGED value
         \/ /\ line' = j + 1
            /\ value' = [x \in Arrays |-> IF x \in Inner(prog, j) THEN "none" ELSE value[x]]
  BY DEF End
<1>2. j \in DOMAIN prog /\ j < line /\ j \in Nat /\ line \in Nat
  BY <1>1, Onward, Innermost, LinesOf
<1>3. line' \in After(prog, line)
  BY <1>1 DEF After, Openers
<1>4. value \in [Arrays -> {"none", "own", "lost"}]
  BY DEF IInv, TypeOK
<1> HIDE DEF j
<1>5. /\ value' \in [Arrays -> {"none", "own", "lost"}]
      /\ \A x \in Arrays : value'[x] \in {"none", value[x]}
  BY <1>1, <1>4
<1>6. line' = j + 1 => \A x \in Inner(prog, j) : value'[x] = "none"
  BY <1>1, <1>2 DEF Inner
<1> QED
  BY <1>1, <1>3, <1>5, <1>6, MoveInv DEF j

\* With an exit nothing shares, so it may lead anywhere.
LEMMA ExitInv ==
  ASSUME IInv, Exit
  PROVE  IInv'
<1> DEFINE j == Max(Context(prog, line))
<1>1. /\ Running /\ prog[line] = "exit"
      /\ line' \in {line + 1, Close(prog, j), Final(prog)}
                  \cup (IF j = 0 THEN {} ELSE {Close(prog, j) + 1})
      /\ UNCHANGED <<phase, prog, left, slots, since, value>>
  BY DEF Exit
<1>2. /\ Whole(prog) /\ phase = "run" /\ line \in DOMAIN prog /\ line \in Nat
  BY <1>1, Onward
<1>3. Len(prog) \in Nat /\ line >= 1 /\ line <= Len(prog)
  BY <1>2, LinesOf
<1>4. line' \in 0 .. Final(prog) /\ line' # 0
  <2>1. CASE j = 0
    BY <1>1, <1>2, <1>3, <2>1 DEF Final, Close
  <2>2. CASE j # 0
    <3>1. j \in DOMAIN prog /\ prog[j] \in Openers
      BY <1>2, <2>2, Around, Inside
    <3>2. Close(prog, j) \in j + 1 .. Len(prog) /\ j \in Nat
      BY <1>2, <3>1, Closing, LinesOf
    <3> HIDE DEF j
    <3> QED
      BY <1>1, <1>2, <1>3, <2>2, <3>2 DEF Final
  <2> QED
    BY <2>1, <2>2
<1>5. \A x, y \in Arrays : ~Shares(x, y) /\ ~Shares(x, y)'
  <2>1. \A x, y \in Arrays : ~Shares(x, y)
    BY <1>1, <1>2, ExitForbids DEF IInv
  <2> QED
    BY <1>1, <2>1 DEF Shares
<1> HIDE DEF j
<1>6. TypeOK'
  BY <1>1, <1>4 DEF IInv, TypeOK
<1>7. TextOK' /\ PlacedOK'
  BY <1>1, <1>2, <1>4 DEF IInv, TextOK, PlacedOK
<1>8. RaceOK' /\ NoRaceAdded'
  BY <1>1, <1>5 DEF IInv, RaceOK, NoRaceAdded, TypeOK
<1>9. LossOK'
  <2>1. \A x \in Arrays : value[x] # "lost"
    BY <1>2, <1>5 DEF IInv, LossOK
  <2> QED
    BY <1>1, <1>5, <2>1 DEF LossOK
<1> QED
  BY <1>6, <1>7, <1>8, <1>9 DEF IInv

\* The use of x: no array in use shares with it, and what it does to the values of the
\* arrays it shares with, nobody reads.
LEMMA UseInv ==
  ASSUME IInv, Use
  PROVE  IInv'
<1> DEFINE x == prog[line]
<1>1. /\ Running /\ x \in Arrays /\ since' = since \cup {x} /\ line' = line + 1
      /\ value' = [y \in Arrays |->
                     IF y = x /\ line = FirstUse(prog, x) THEN "own"
                     ELSE IF Shares(x, y) /\ value[y] = "own" THEN "lost"
                     ELSE value[y]]
      /\ UNCHANGED <<phase, prog, left, slots>>
  BY DEF Use
<1>2. /\ Whole(prog) /\ phase = "run" /\ line \in DOMAIN prog
      /\ line + 1 \in 0 .. Final(prog) /\ line + 1 # 0 /\ line + 1 \in After(prog, line)
  BY <1>1, Onward DEF After
<1>3. line \in Uses(prog, x) /\ prog[line] \notin Words
  BY <1>1, <1>2, NameAssumption DEF Uses
<1>4. value \in [Arrays -> {"none", "own", "lost"}] /\ since \in SUBSET Arrays
  BY DEF IInv, TypeOK
<1>5. \A a, b \in Arrays : Shares(a, b)' <=> Shares(a, b)
  BY <1>1 DEF Shares
<1>6. ASSUME NEW a \in Arrays, NEW b \in Arrays, Shares(a, b)
      PROVE  /\ Shares(b, a) /\ a # b
             /\ ~Overlaps(prog, a, b) \/ ~Overlaps(prog, b, a)
  BY <1>6, Sharing DEF IInv
<1> HIDE DEF x
<1>7. TypeOK'
  <2>1. value' \in [Arrays -> {"none", "own", "lost"}]
    BY <1>1, <1>4
  <2> QED
    BY <1>1, <1>2, <1>4, <2>1 DEF IInv, TypeOK
<1>8. TextOK' /\ PlacedOK'
  BY <1>1, <1>2 DEF IInv, TextOK, PlacedOK
<1>9. ASSUME NEW z \in since
      PROVE  ~Shares(z, x) /\ ~Shares(x, z)
  <2>1. z \in Arrays
    BY <1>4
  <2>2. ~Shares(z, x)
    <3> SUFFICES ASSUME Shares(z, x)
                 PROVE  FALSE
      OBVIOUS
    <3>1. PICK R \in SUBSET Nat : line \in R /\ Away(prog, R, x)
      BY <1>1, <1>2 DEF IInv, RaceOK
    <3> QED
      BY <1>3, <3>1 DEF Away
  <2> QED
    BY <1>1, <1>6, <2>1, <2>2
<1>10. NoRaceAdded'
  <2>1. ~Shares(x, x)
    BY DEF Shares
  <2>2. \A a, b \in since' : ~Shares(a, b)
    BY <1>1, <1>9, <2>1 DEF IInv, NoRaceAdded
  <2> QED
    BY <1>1, <1>4, <1>5, <2>2 DEF NoRaceAdded
<1>11. RaceOK'
  <2> SUFFICES ASSUME NEW z \in since', NEW y \in Arrays, Shares(z, y)
               PROVE  \E R \in SUBSET Nat : line + 1 \in R /\ Away(prog, R, y)
    BY <1>1, <1>4, <1>5 DEF RaceOK
  <2>1. CASE z \in since
    <3>1. PICK R \in SUBSET Nat : line \in R /\ Away(prog, R, y)
      BY <1>2, <2>1 DEF IInv, RaceOK
    <3>2. line + 1 \in R
      BY <1>2, <1>3, <3>1 DEF Away, Words
    <3> QED
      BY <3>1, <3>2
  <2>2. CASE z = x
    <3>1. Fenced(prog, x, y)
      BY <1>1, <1>2, <1>6, <2>2, NoOverlapIsFenced
    <3> QED
      BY <1>3, <3>1 DEF Fenced
  <2> QED
    BY <1>1, <2>1, <2>2
<1>12. LossOK'
  <2>1. ASSUME NEW a \in Arrays, NEW b \in Arrays, NEW R \in SUBSET Nat,
               line \in R, Lasts(prog, R, a, b)
        PROVE  line + 1 \in R
    BY <1>2, <1>3, <2>1 DEF Lasts, Words
  <2>2. ASSUME NEW a \in Arrays, value'[a] = "lost"
        PROVE  /\ \E y \in Arrays : Shares(a, y)
               /\ \E R \in SUBSET Nat : line + 1 \in R /\ Lasts(prog, R, a, a)
    <3>1. CASE value[a] = "lost"
      <4>1. PICK R \in SUBSET Nat : line \in R /\ Lasts(prog, R, a, a)
        BY <1>2, <3>1 DEF IInv, LossOK
      <4>2. line + 1 \in R
        BY <2>1, <4>1
      <4>3. \E y \in Arrays : Shares(a, y)
        BY <1>2, <3>1 DEF IInv, LossOK
      <4> QED
        BY <4>1, <4>2, <4>3
    <3>2. CASE Shares(x, a) /\ value[a] = "own"
      <4>1. Shares(a, x)
        BY <1>1, <1>6, <3>2
      <4>2. \/ \E R \in SUBSET Nat : line \in R /\ Lasts(prog, R, a, x)
            \/ Harmless(prog, a, x)
        BY <1>1, <1>2, <3>2, <4>1 DEF IInv, LossOK
      <4>3. ~(\E R \in SUBSET Nat : line \in R /\ Lasts(prog, R, a, x))
        BY <1>3 DEF Lasts
      <4>4. \E R \in SUBSET Nat : line + 1 \in R /\ Lasts(prog, R, a, a)
        BY <1>3, <4>2, <4>3 DEF Harmless
      <4> QED
        BY <1>1, <4>1, <4>4
    <3> QED
      BY <1>1, <1>4, <2>2, <3>1, <3>2
  <2>3. ASSUME NEW a \in Arrays, value'[a] = "own", NEW y \in Arrays, Shares(a, y)
        PROVE  \/ \E R \in SUBSET Nat : line + 1 \in R /\ Lasts(prog, R, a, y)
               \/ Harmless(prog, a, y)
    <3>1. CASE a = x /\ line = FirstUse(prog, x)
      BY <1>1, <1>2, <1>6, <2>3, <3>1, NoOverlapIsHarmless
    <3>2. CASE value[a] = "own"
      <4>1. \/ \E R \in SUBSET Nat : line \in R /\ Lasts(prog, R, a, y)
            \/ Harmless(prog, a, y)
        BY <1>2, <2>3, <3>2 DEF IInv, LossOK
      <4> QED
        BY <2>1, <4>1
    <3> QED
      BY <1>1, <1>4, <2>3, <3>1, <3>2
  <2> QED
    BY <1>1, <1>5, <2>2, <2>3 DEF LossOK
<1> QED
  BY <1>7, <1>8, <1>10, <1>11, <1>12 DEF IInv

\* Every step keeps the invariant.
LEMMA NextInv ==
  ASSUME IInv, [Next]_vars
  PROVE  IInv'
<1>1. CASE \E t \in Lines : Write(t)
  BY <1>1, WriteInv
<1>2. CASE Complete
  BY <1>2, CompleteInv
<1>3. CASE Place
  BY <1>3, PlaceInv
<1>4. CASE Launch
  BY <1>4, LaunchInv
<1>5. CASE Use
  BY <1>5, UseInv
<1>6. CASE Barrier
  BY <1>6, BarrierInv
<1>7. CASE Open
  BY <1>7, OpenInv
<1>8. CASE End
  BY <1>8, EndInv
<1>9. CASE Exit
  BY <1>9, ExitInv
<1>10. CASE UNCHANGED vars
  BY <1>10 DEF vars, IInv, TypeOK, TextOK, PlacedOK, RaceOK, NoRaceAdded, LossOK, Shares
<1> QED
  BY <1>1, <1>2, <1>3, <1>4, <1>5, <1>6, <1>7, <1>8, <1>9, <1>10 DEF Next

\* The invariant holds while a kernel is written, while the pass places its arrays and
\* while it runs.
THEOREM Invariance == Spec => []IInv
<1>1. Init => IInv
  BY InitialInv
<1>2. IInv /\ [Next]_vars => IInv'
  BY NextInv
<1> QED
  BY <1>1, <1>2, PTL DEF Spec

\* Every variable keeps its type, whatever the kernel and wherever control goes.
THEOREM TypeCorrect == Spec => []TypeOK
<1>1. IInv => TypeOK
  BY DEF IInv
<1> QED
  BY <1>1, Invariance, PTL

\* _alias_shared_memory adds no race: in no kernel, of any length and with any arrays,
\* are two arrays that it makes share storage both used between two barriers.
THEOREM SharingAddsNoRace == Spec => []NoRaceAdded
<1>1. IInv => NoRaceAdded
  BY DEF IInv
<1> QED
  BY <1>1, Invariance, PTL

\* _alias_shared_memory loses no value: in no kernel does a read find the contents of
\* another array, neither in the order of the text nor by way of a loop.
THEOREM ValuesSurvive == Spec => []ReadsOwnValue
<1>1. IInv => ReadsOwnValue
  <2> SUFFICES ASSUME IInv, Running, prog[line] \in Arrays, value[prog[line]] = "lost"
               PROVE  FALSE
    BY DEF ReadsOwnValue
  <2>1. PICK R \in SUBSET Nat : line \in R /\ Lasts(prog, R, prog[line], prog[line])
    BY DEF IInv, LossOK, Running
  <2>2. line \in Uses(prog, prog[line])
    BY DEF Uses, Running
  <2> QED
    BY <2>1, <2>2 DEF Lasts
<1> QED
  BY <1>1, Invariance, PTL
================================================================================

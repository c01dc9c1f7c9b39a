------------------------------ MODULE Launch_proof ------------------------------
(***************************************************************************)
(* Proofs about Launch, for any number of threads, handles and shaders.    *)
(***************************************************************************)
EXTENDS Launch, FiniteSetTheorems, TLAPS

\* Before its first submission a call has touched nothing.
Untouched(c) == ran[c] = Nothing /\ ~attempted[c] /\ ~flag[c] /\ ~copied[c]

\* Only route r has run, at most n times.
Only(c, r, n) ==
  /\ ran[c][r] <= n
  /\ \A q \in Routes \ {r} : ran[c][q] = 0

\* What a call has done at each of its steps.
CallOK(c) ==
  /\ pc[c] = "idle" => kernel[c] = None /\ ~attempted[c]
  /\ pc[c] # "idle" => kernel[c] \in Kernels /\ answer[c] = None
  /\ pc[c] \in {"enter", "try", "library", "guard", "marshal", "hostsubmit"} => Untouched(c)
  /\ pc[c] \in {"submit", "recover"} => attempted[c] \/ Untouched(c)
  /\ pc[c] \in {"library", "submit", "recover", "observe"} =>
       /\ shader[c] \in Shaders
       /\ Runnable(kernel[c], route[c])
       /\ Only(c, route[c], Parts[route[c]])
  /\ pc[c] = "submit" => ran[c][route[c]] < Parts[route[c]]
  /\ pc[c] = "observe" => attempted[c] /\ ran[c][route[c]] = Parts[route[c]]
  /\ pc[c] \in {"marshal", "hostsubmit", "hostwait", "copyback", "exit"} =>
       /\ Runnable(kernel[c], "host")
       /\ ~attempted[c]
       /\ Only(c, "host", 1)
  /\ pc[c] \in {"copyback", "exit"} => ran[c]["host"] = 1
  /\ pc[c] = "exit" => ~flag[c]
  /\ copied[c] => pc[c] \in {"exit", "idle"}

IInv ==
  /\ TypeOK
  /\ \A c \in Callers : CallOK(c)
  /\ RunsOnce
  /\ NoResultAfterAssertion

--------------------------------------------------------------------------------

LEMMA RouteFacts ==
  /\ ZeroCopy = {"quantFast", "quant", "splitK", "fast", "attention", "generic"}
  /\ Routes = ZeroCopy \cup {"host"}
  /\ \A r \in Routes : Parts[r] \in 1..2
  /\ Parts["host"] = 1
<1>1. ZeroCopy = {"quantFast", "quant", "splitK", "fast", "attention", "generic"}
  BY DEF ZeroCopy, Order
<1>2. QED
  BY <1>1 DEF Routes, Parts

LEMMA NothingFacts == Nothing \in [Routes -> 0..2] /\ \A r \in Routes : Nothing[r] = 0
  BY DEF Nothing

LEMMA InitIInv == Init => IInv
  BY KernelAssumption, RouteFacts, NothingFacts
  DEF Init, IInv, TypeOK, CallOK, RunsOnce, NoResultAfterAssertion, Steps, Untouched

\* What the invariant says of one caller.
Once(c) ==
  \A r \in Routes : ran[c][r] <= Parts[r] /\ (ran[c][r] > 0 => \A q \in Routes \ {r} : ran[c][q] = 0)

Withheld(c) == flag[c] => ~copied[c] /\ answer[c] # "returned"

\* A step of c leaves the other calls alone.
OthersStay(c) ==
  \A d \in Callers \ {c} :
    /\ pc'[d] = pc[d] /\ kernel'[d] = kernel[d] /\ mps'[d] = mps[d] /\ route'[d] = route[d]
    /\ shader'[d] = shader[d] /\ attempted'[d] = attempted[d] /\ ran'[d] = ran[d]
    /\ flag'[d] = flag[d] /\ copied'[d] = copied[d] /\ answer'[d] = answer[d]

LEMMA LocalIInv ==
  ASSUME IInv, NEW c \in Callers, OthersStay(c),
         TypeOK', CallOK(c)', Once(c)', Withheld(c)'
  PROVE  IInv'
<1>1. ASSUME NEW d \in Callers \ {c} PROVE CallOK(d)' /\ Once(d)' /\ Withheld(d)'
  <2>1. CallOK(d) /\ Once(d) /\ Withheld(d)
    BY DEF IInv, RunsOnce, NoResultAfterAssertion, Once, Withheld
  <2>2. CallOK(d)'
    BY <2>1 DEF OthersStay, CallOK, Untouched, Only, Runnable
  <2>3. Once(d)' /\ Withheld(d)'
    BY <2>1 DEF OthersStay, Once, Withheld
  <2>4. QED
    BY <2>2, <2>3
<1>2. \A d \in Callers : CallOK(d)' /\ Once(d)' /\ Withheld(d)'
  BY <1>1
<1>3. QED
  BY <1>2 DEF IInv, RunsOnce, NoResultAfterAssertion, Once, Withheld

\* A call that ends keeps the invariant, if a normal return has no flag.
LEMMA FinishIInv ==
  ASSUME IInv, NEW c \in Callers, NEW a \in Answers,
         Finish(c, a),
         flag[c] => ~copied[c] /\ a # "returned",
         UNCHANGED <<ran, flag, copied>>, unsupported' \in SUBSET Shaders,
         failures' \in [Shaders -> Nat]
  PROVE  IInv'
<1> USE DEF Finish, Goto
<1>1. TypeOK'
  BY RouteFacts DEF IInv, TypeOK, Steps
<1>2. OthersStay(c)
  BY DEF IInv, TypeOK, OthersStay
<1>3. CallOK(c)'
  BY DEF IInv, TypeOK, CallOK
<1>4. Once(c)' /\ Withheld(c)'
  BY DEF IInv, TypeOK, RunsOnce, Once, Withheld
<1>5. QED
  BY <1>1, <1>2, <1>3, <1>4, LocalIInv

LEMMA StopIInv ==
  ASSUME IInv, NEW c \in Callers, NEW a \in Answers, Stop(c, a),
         flag[c] => ~copied[c] /\ a # "returned"
  PROVE  IInv'
  BY FinishIInv DEF Stop, IInv, TypeOK

LEMMA BeginIInv ==
  ASSUME IInv, NEW c \in Callers, NEW k \in Kernels, NEW m \in BOOLEAN, Begin(c, k, m)
  PROVE  IInv'
<1>1. /\ ran' = [ran EXCEPT ![c] = Nothing]
      /\ flag' = [flag EXCEPT ![c] = FALSE]
      /\ copied' = [copied EXCEPT ![c] = FALSE]
      /\ UNCHANGED <<unsupported, failures>>
      /\ At(c, "idle")
  BY DEF Begin
<1>2. CASE /\ Goto(c, "enter")
           /\ kernel' = [kernel EXCEPT ![c] = k]
           /\ mps' = [mps EXCEPT ![c] = m]
           /\ answer' = [answer EXCEPT ![c] = None]
           /\ UNCHANGED <<route, shader, attempted>>
  <2>1. TypeOK'
    BY <1>1, <1>2, NothingFacts DEF IInv, TypeOK, Steps, Goto
  <2>2. CallOK(c)'
    BY <1>1, <1>2 DEF IInv, TypeOK, CallOK, Untouched, Goto, At
  <2>3. OthersStay(c)
    BY <1>1, <1>2 DEF IInv, TypeOK, OthersStay, Goto
  <2>4. Once(c)' /\ Withheld(c)'
    BY <1>1, NothingFacts, RouteFacts DEF IInv, TypeOK, Once, Withheld
  <2>5. QED
    BY <2>1, <2>2, <2>3, <2>4, LocalIInv
<1>3. CASE \E a \in {"refused", "raised"} : Finish(c, a)
  <2>1. PICK a \in {"refused", "raised"} : Finish(c, a)
    BY <1>3
  <2>2. TypeOK'
    BY <1>1, <2>1, NothingFacts, RouteFacts DEF IInv, TypeOK, Steps, Answers, Finish, Goto
  <2>3. CallOK(c)'
    BY <1>1, <2>1 DEF IInv, TypeOK, CallOK, Finish, Goto
  <2>4. OthersStay(c)
    BY <1>1, <2>1 DEF IInv, TypeOK, OthersStay, Finish, Goto
  <2>5. Once(c)' /\ Withheld(c)'
    BY <1>1, NothingFacts, RouteFacts DEF IInv, TypeOK, Once, Withheld
  <2>6. QED
    BY <2>2, <2>3, <2>4, <2>5, LocalIInv
<1>4. QED
  BY <1>2, <1>3 DEF Begin

\* Passing control on is harmless where the next step expects no more than this one.
LEMMA ContinueIInv ==
  ASSUME IInv, NEW c \in Callers, NEW s \in Steps, Continue(c, s),
         \/ pc[c] = "enter" /\ s \in {"try", "guard"}
         \/ pc[c] = "library" /\ s = "submit"
         \/ pc[c] = "observe" /\ s = "recover"
         \/ pc[c] = "guard" /\ s = "marshal" /\ Runnable(kernel[c], "host")
         \/ pc[c] = "marshal" /\ s = "hostsubmit"
         \/ pc[c] = "hostwait" /\ s = "copyback" /\ ran[c]["host"] = 1
  PROVE  IInv'
<1> USE DEF Continue, Goto, local
<1>1. TypeOK'
  BY DEF IInv, TypeOK
<1>2. OthersStay(c)
  BY DEF IInv, TypeOK, OthersStay
<1>3. CallOK(c)'
  <2>1. CallOK(c)
    BY DEF IInv
  <2>2. "host" \in Routes
    BY RouteFacts
  <2>3. Untouched(c) => Only(c, "host", 1)
    BY RouteFacts, NothingFacts DEF Untouched, Only
  <2>4. Untouched(c) => ran[c][route[c]] < Parts[route[c]]
    BY RouteFacts, NothingFacts DEF Untouched, IInv, TypeOK
  <2>5. CASE pc[c] = "enter" \/ pc[c] = "library" \/ pc[c] = "observe"
    BY <2>1, <2>4, <2>5 DEF IInv, TypeOK, CallOK, Untouched, Only, Runnable
  <2>6. CASE pc[c] = "guard" \/ pc[c] = "marshal" \/ pc[c] = "hostwait"
    BY <2>1, <2>3, <2>6 DEF IInv, TypeOK, CallOK, Untouched, Only, Runnable
  <2>7. QED
    BY <2>5, <2>6
<1>4. Once(c)' /\ Withheld(c)'
  BY DEF IInv, TypeOK, RunsOnce, NoResultAfterAssertion, Once, Withheld
<1>5. QED
  BY <1>1, <1>2, <1>3, <1>4, LocalIInv

\* Falling through to the next route is harmless before the first submission.
LEMMA FollowIInv ==
  ASSUME IInv, NEW c \in Callers, pc[c] # "idle", Untouched(c), Follow(c),
         unsupported' \in SUBSET Shaders, UNCHANGED failures
  PROVE  IInv'
<1> USE DEF Follow, Goto
<1>1. \A i \in 1..5 : Order[i + 1] \in ZeroCopy
  BY DEF ZeroCopy
<1>2. TypeOK'
  BY <1>1 DEF IInv, TypeOK, Steps
<1>3. OthersStay(c)
  BY DEF IInv, TypeOK, OthersStay
<1>4. CallOK(c)'
  BY DEF IInv, TypeOK, CallOK, Untouched
<1>5. Once(c)' /\ Withheld(c)'
  BY DEF IInv, TypeOK, RunsOnce, NoResultAfterAssertion, Once, Withheld
<1>6. QED
  BY <1>2, <1>3, <1>4, <1>5, LocalIInv

LEMMA SelectIInv ==
  ASSUME IInv, NEW c \in Callers, Select(c)
  PROVE  IInv'
<1>1. Untouched(c) /\ pc[c] # "idle" /\ kernel[c] \in Kernels
  BY DEF Select, At, IInv, CallOK
<1>2. CASE Follow(c) /\ UNCHANGED <<unsupported, failures>>
  BY <1>1, <1>2, FollowIInv DEF IInv, TypeOK
<1>3. ASSUME Eligible(c), NEW s \in Shaders, shader' = [shader EXCEPT ![c] = s],
             Goto(c, "library"),
             UNCHANGED <<unsupported, kernel, mps, route, attempted, flag, copied,
                         ran, answer, failures>>
      PROVE  IInv'
  <2>1. TypeOK'
    BY <1>3 DEF IInv, TypeOK, Steps, Goto
  <2>2. OthersStay(c)
    BY <1>3 DEF IInv, TypeOK, OthersStay, Goto
  <2>3. Runnable(kernel[c], route[c])
    BY <1>3 DEF Eligible, Runnable, IInv, TypeOK
  <2>4. Only(c, route[c], Parts[route[c]])
    BY <1>1, NothingFacts, RouteFacts DEF Untouched, Only, IInv, TypeOK
  <2>5. CallOK(c)'
    BY <1>1, <1>3, <2>3, <2>4 DEF IInv, TypeOK, CallOK, Untouched, Only, Runnable, Goto
  <2>6. Once(c)' /\ Withheld(c)'
    BY <1>3 DEF IInv, TypeOK, RunsOnce, NoResultAfterAssertion, Once, Withheld
  <2>7. QED
    BY <2>1, <2>2, <2>5, <2>6, LocalIInv
<1>4. QED
  BY <1>2, <1>3 DEF Select

LEMMA TroubleIInv ==
  ASSUME IInv, NEW c \in Callers, Trouble(c)
  PROVE  IInv'
<1> USE DEF Trouble, Goto, local, At
<1>1. kernel[c] \in Kernels /\ Untouched(c)
  BY DEF IInv, CallOK
<1>2. unsupported' \in SUBSET Shaders
  BY <1>1, KernelAssumption, RouteFacts DEF IInv, TypeOK
<1>3. TypeOK'
  BY <1>2 DEF IInv, TypeOK, Steps
<1>4. OthersStay(c)
  BY DEF IInv, TypeOK, OthersStay
<1>5. CallOK(c)'
  BY <1>1 DEF IInv, TypeOK, CallOK, Untouched
<1>6. Once(c)' /\ Withheld(c)'
  BY DEF IInv, TypeOK, RunsOnce, NoResultAfterAssertion, Once, Withheld
<1>7. QED
  BY <1>3, <1>4, <1>5, <1>6, LocalIInv

LEMMA LibraryIInv ==
  ASSUME IInv, NEW c \in Callers, Library(c)
  PROVE  IInv'
<1>1. CASE Continue(c, "submit")
  BY <1>1, ContinueIInv DEF Library, At, Steps
<1>2. CASE /\ Goto(c, "recover")
           /\ failures' = IF route[c] \in Marks[kernel[c]]
                          THEN [failures EXCEPT ![shader[c]] = @ + 1]
                          ELSE failures
           /\ UNCHANGED <<unsupported, kernel, local, ran, answer>>
  <2> USE DEF Goto, local
  <2>1. pc[c] = "library" /\ shader[c] \in Shaders /\ CallOK(c)
    BY DEF Library, At, IInv, CallOK
  <2>2. failures' \in [Shaders -> Nat]
    BY <1>2, <2>1 DEF IInv, TypeOK
  <2>3. TypeOK'
    BY <1>2, <2>2 DEF IInv, TypeOK, Steps
  <2>4. OthersStay(c)
    BY <1>2 DEF IInv, TypeOK, OthersStay
  <2>5. CallOK(c)'
    BY <1>2, <2>1 DEF IInv, TypeOK, CallOK, Untouched, Only, Runnable
  <2>6. Once(c)' /\ Withheld(c)'
    BY <1>2 DEF IInv, TypeOK, RunsOnce, NoResultAfterAssertion, Once, Withheld
  <2>7. QED
    BY <2>3, <2>4, <2>5, <2>6, LocalIInv
<1>3. QED
  BY <1>1, <1>2 DEF Library

\* One more submission of a route that alone has run, and has one to make.
LEMMA ExecuteOnce ==
  ASSUME IInv, NEW c \in Callers, NEW r \in Routes, Execute(c, r),
         Only(c, r, Parts[r] - 1)
  PROVE  /\ ran' \in [Callers -> [Routes -> 0..2]]
         /\ flag' \in [Callers -> BOOLEAN]
         /\ \A d \in Callers \ {c} : ran'[d] = ran[d] /\ flag'[d] = flag[d]
         /\ Only(c, r, Parts[r])'
         /\ ran'[c][r] = ran[c][r] + 1
         /\ Once(c)'
<1>1. Parts[r] \in 1..2
  BY RouteFacts
<1>2. ran[c] \in [Routes -> 0..2] /\ ran[c][r] \in 0..2
  BY DEF IInv, TypeOK
<1>3. ran' = [ran EXCEPT ![c][r] = @ + 1]
  BY DEF Execute, Happens
<1>4. ran'[c] = [ran[c] EXCEPT ![r] = @ + 1]
  BY <1>3 DEF IInv, TypeOK
<1>5. ran[c][r] + 1 \in 0..2 /\ ran[c][r] + 1 <= Parts[r]
  BY <1>1, <1>2 DEF Only
<1>6. ran'[c] \in [Routes -> 0..2] /\ ran'[c][r] = ran[c][r] + 1
  BY <1>2, <1>4, <1>5
<1>7. Only(c, r, Parts[r])'
  BY <1>2, <1>4, <1>5 DEF Only
<1>8. Once(c)'
  <2>1. ran'[c][r] <= Parts[r] /\ \A q \in Routes \ {r} : ran'[c][q] = 0
    BY <1>7 DEF Only
  <2>2. ASSUME NEW q \in Routes PROVE ran'[c][q] <= Parts[q]
    <3>1. Parts[q] \in 1..2
      BY RouteFacts
    <3>2. QED
      BY <2>1, <3>1
  <2>3. ASSUME NEW q \in Routes, ran'[c][q] > 0
        PROVE  \A t \in Routes \ {q} : ran'[c][t] = 0
    BY <2>1, <2>3
  <2>4. QED
    BY <2>2, <2>3 DEF Once
<1>9. ran' \in [Callers -> [Routes -> 0..2]] /\ \A d \in Callers \ {c} : ran'[d] = ran[d]
  BY <1>3, <1>6 DEF IInv, TypeOK
<1>10. flag' \in [Callers -> BOOLEAN] /\ \A d \in Callers \ {c} : flag'[d] = flag[d]
  BY DEF Execute, IInv, TypeOK
<1>11. QED
  BY <1>6, <1>7, <1>8, <1>9, <1>10

LEMMA SubmitIInv ==
  ASSUME IInv, NEW c \in Callers, Submit(c)
  PROVE  IInv'
<1>1. /\ pc[c] = "submit" /\ kernel[c] \in Kernels /\ answer[c] = None
      /\ shader[c] \in Shaders /\ Runnable(kernel[c], route[c])
      /\ Only(c, route[c], Parts[route[c]]) /\ ran[c][route[c]] < Parts[route[c]]
      /\ ~copied[c]
  BY DEF Submit, At, IInv, CallOK
<1>2. route[c] \in Routes /\ ran[c][route[c]] \in 0..2 /\ Parts[route[c]] \in 1..2
  BY RouteFacts DEF IInv, TypeOK
<1>3. Only(c, route[c], Parts[route[c]] - 1)
  BY <1>1, <1>2 DEF Only
<1>4. /\ attempted' = [attempted EXCEPT ![c] = TRUE]
      /\ UNCHANGED <<unsupported, kernel, mps, route, shader, copied, answer, failures>>
  BY DEF Submit
<1>5. CASE /\ Execute(c, route[c])
           /\ Goto(c, IF More(c) THEN "submit" ELSE "observe")
  <2> USE <1>4, <1>5
  <2>1. /\ ran' \in [Callers -> [Routes -> 0..2]]
        /\ flag' \in [Callers -> BOOLEAN]
        /\ \A d \in Callers \ {c} : ran'[d] = ran[d] /\ flag'[d] = flag[d]
        /\ Only(c, route[c], Parts[route[c]])'
        /\ ran'[c][route[c]] = ran[c][route[c]] + 1
        /\ Once(c)'
    BY <1>2, <1>3, ExecuteOnce, RouteFacts
  <2>2. TypeOK'
    BY <2>1 DEF IInv, TypeOK, Steps, Goto
  <2>3. OthersStay(c)
    BY <2>1 DEF IInv, TypeOK, OthersStay, Goto
  <2>4. CASE More(c)
    <3>1. pc'[c] = "submit" /\ ran'[c][route'[c]] < Parts[route'[c]]
      BY <2>1, <2>4, <1>2 DEF More, Goto, IInv, TypeOK
    <3>2. CallOK(c)'
      BY <1>1, <2>1, <3>1 DEF IInv, TypeOK, CallOK, Only, Runnable, Goto
    <3>3. QED
      BY <1>1, <2>1, <2>2, <2>3, <3>2, LocalIInv, KernelAssumption DEF Withheld, Answers
  <2>5. CASE ~More(c)
    <3>1. pc'[c] = "observe" /\ ran'[c][route'[c]] = Parts[route'[c]]
      BY <2>1, <2>5, <1>1, <1>2 DEF More, Goto, IInv, TypeOK
    <3>2. CallOK(c)'
      BY <1>1, <2>1, <3>1 DEF IInv, TypeOK, CallOK, Only, Runnable, Goto
    <3>3. QED
      BY <1>1, <2>1, <2>2, <2>3, <3>2, LocalIInv, KernelAssumption DEF Withheld, Answers
  <2>6. QED
    BY <2>4, <2>5
<1>6. CASE Goto(c, "recover") /\ (Execute(c, route[c]) \/ UNCHANGED <<ran, flag>>)
  <2> USE <1>4, <1>6
  <2>1. /\ ran' \in [Callers -> [Routes -> 0..2]]
        /\ flag' \in [Callers -> BOOLEAN]
        /\ \A d \in Callers \ {c} : ran'[d] = ran[d] /\ flag'[d] = flag[d]
        /\ Only(c, route[c], Parts[route[c]])'
        /\ Once(c)'
    <3>1. CASE Execute(c, route[c])
      BY <1>2, <1>3, <3>1, ExecuteOnce, RouteFacts
    <3>2. CASE UNCHANGED <<ran, flag>>
      BY <1>1, <3>2 DEF IInv, TypeOK, RunsOnce, Once, Only
    <3>3. QED
      BY <3>1, <3>2
  <2>2. TypeOK'
    BY <2>1 DEF IInv, TypeOK, Steps, Goto
  <2>3. OthersStay(c)
    BY <2>1 DEF IInv, TypeOK, OthersStay, Goto
  <2>4. CallOK(c)'
    BY <1>1, <2>1 DEF IInv, TypeOK, CallOK, Only, Runnable, Goto
  <2>5. QED
    BY <1>1, <2>1, <2>2, <2>3, <2>4, LocalIInv, KernelAssumption DEF Withheld, Answers
<1>7. QED
  BY <1>5, <1>6 DEF Submit

LEMMA ObserveIInv ==
  ASSUME IInv, NEW c \in Callers, Observe(c)
  PROVE  IInv'
<1>1. pc[c] = "observe" /\ ~copied[c]
  BY DEF Observe, At, IInv, CallOK
<1>2. QED
  BY <1>1, StopIInv, ContinueIInv DEF Observe, Answers, Steps

LEMMA RecoverIInv ==
  ASSUME IInv, NEW c \in Callers, Recover(c)
  PROVE  IInv'
<1>1. pc[c] = "recover" /\ ~copied[c] /\ shader[c] \in Shaders /\ (attempted[c] \/ Untouched(c))
  BY DEF Recover, At, IInv, CallOK
<1>2. CASE attempted[c]
  BY <1>1, <1>2, StopIInv DEF Recover, Answers
<1>3. CASE ~attempted[c]
  <2>1. unsupported' \in SUBSET Shaders /\ UNCHANGED failures /\ Follow(c)
    BY <1>1, <1>3 DEF Recover, IInv, TypeOK
  <2>2. QED
    BY <1>1, <1>3, <2>1, FollowIInv
<1>4. QED
  BY <1>2, <1>3

LEMMA GuardIInv ==
  ASSUME IInv, NEW c \in Callers, Guard(c)
  PROVE  IInv'
<1>1. pc[c] = "guard" /\ Untouched(c) /\ kernel[c] \in Kernels
  BY DEF Guard, At, IInv, CallOK
<1>2. CASE Quant(kernel[c]) \/ kernel[c] \in Mla \cup Packed
  BY <1>1, <1>2, StopIInv DEF Guard, Untouched, Answers
<1>3. CASE ~(Quant(kernel[c]) \/ kernel[c] \in Mla \cup Packed)
  BY <1>1, <1>3, ContinueIInv DEF Guard, Runnable, Steps
<1>4. QED
  BY <1>2, <1>3

LEMMA MarshalIInv ==
  ASSUME IInv, NEW c \in Callers, Marshal(c)
  PROVE  IInv'
<1>1. pc[c] = "marshal" /\ ~copied[c]
  BY DEF Marshal, At, IInv, CallOK
<1>2. QED
  BY <1>1, StopIInv, ContinueIInv DEF Marshal, Answers, Steps

LEMMA EnterIInv ==
  ASSUME IInv, NEW c \in Callers, Enter(c)
  PROVE  IInv'
<1>1. pc[c] = "enter" /\ ~copied[c]
  BY DEF Enter, At, IInv, CallOK
<1>2. QED
  BY <1>1, StopIInv, ContinueIInv DEF Enter, Answers, Steps

LEMMA HostSubmitIInv ==
  ASSUME IInv, NEW c \in Callers, HostSubmit(c)
  PROVE  IInv'
<1>1. pc[c] = "hostsubmit" /\ kernel[c] \in Kernels /\ Untouched(c) /\ Runnable(kernel[c], "host")
  BY DEF HostSubmit, At, IInv, CallOK
<1>2. Only(c, "host", Parts["host"] - 1)
  BY <1>1, RouteFacts, NothingFacts DEF Only, Untouched
<1>3. CASE Stop(c, "raised")
  BY <1>1, <1>3, StopIInv DEF Untouched, Answers
<1>4. CASE /\ Goto(c, "hostwait")
           /\ Execute(c, "host") \/ UNCHANGED <<ran, flag>>
           /\ UNCHANGED <<unsupported, kernel, mps, route, shader, attempted, copied,
                          answer, failures>>
  <2>1. /\ ran' \in [Callers -> [Routes -> 0..2]]
        /\ flag' \in [Callers -> BOOLEAN]
        /\ \A d \in Callers \ {c} : ran'[d] = ran[d] /\ flag'[d] = flag[d]
        /\ Only(c, "host", 1)'
        /\ Once(c)'
    <3>1. CASE Execute(c, "host")
      BY <1>2, <3>1, ExecuteOnce, RouteFacts
    <3>2. CASE UNCHANGED <<ran, flag>>
      BY <1>1, <3>2, RouteFacts, NothingFacts DEF IInv, TypeOK, RunsOnce, Once, Only, Untouched
    <3>3. QED
      BY <1>4, <3>1, <3>2
  <2>2. TypeOK'
    BY <1>4, <2>1 DEF IInv, TypeOK, Steps, Goto
  <2>3. OthersStay(c)
    BY <1>4, <2>1 DEF IInv, TypeOK, OthersStay, Goto
  <2>4. CallOK(c)'
    BY <1>1, <1>4, <2>1 DEF IInv, TypeOK, CallOK, Untouched, Only, Runnable, Goto
  <2>5. Withheld(c)'
    BY <1>1, <1>4, KernelAssumption DEF Withheld, Untouched, IInv, CallOK, Answers
  <2>6. QED
    BY <2>1, <2>2, <2>3, <2>4, <2>5, LocalIInv
<1>5. QED
  BY <1>3, <1>4 DEF HostSubmit

LEMMA HostWaitIInv ==
  ASSUME IInv, NEW c \in Callers, HostWait(c)
  PROVE  IInv'
<1>1. pc[c] = "hostwait" /\ ~copied[c]
  BY DEF HostWait, At, IInv, CallOK
<1>2. QED
  BY <1>1, StopIInv, ContinueIInv DEF HostWait, Answers, Steps

LEMMA CopyBackIInv ==
  ASSUME IInv, NEW c \in Callers, CopyBack(c)
  PROVE  IInv'
<1>1. pc[c] = "copyback" /\ ~copied[c] /\ answer[c] = None
  BY DEF CopyBack, At, IInv, CallOK
<1>2. CASE Stop(c, "assertion") \/ Stop(c, "raised")
  BY <1>1, <1>2, StopIInv DEF Answers
<1>3. CASE /\ ~flag[c]
           /\ copied' = [copied EXCEPT ![c] = TRUE]
           /\ Goto(c, "exit")
           /\ UNCHANGED <<unsupported, kernel, mps, route, shader, attempted, flag,
                          ran, answer, failures>>
  <2> USE <1>3 DEF Goto
  <2>1. TypeOK'
    BY DEF IInv, TypeOK, Steps
  <2>2. OthersStay(c)
    BY DEF IInv, TypeOK, OthersStay
  <2>3. CallOK(c)'
    BY <1>1 DEF IInv, TypeOK, CallOK, Only, Runnable
  <2>4. Once(c)' /\ Withheld(c)'
    BY DEF IInv, TypeOK, RunsOnce, Once, Withheld
  <2>5. QED
    BY <2>1, <2>2, <2>3, <2>4, LocalIInv
<1>4. QED
  BY <1>2, <1>3 DEF CopyBack

LEMMA ExitIInv ==
  ASSUME IInv, NEW c \in Callers, Exit(c)
  PROVE  IInv'
<1>1. pc[c] = "exit" /\ ~flag[c]
  BY DEF Exit, At, IInv, CallOK
<1>2. QED
  BY <1>1, StopIInv DEF Exit, Answers

LEMMA StutterIInv ==
  ASSUME IInv, UNCHANGED vars
  PROVE  IInv'
<1> USE DEF vars, local
<1>1. TypeOK'
  BY DEF IInv, TypeOK
<1>2. ASSUME NEW c \in Callers PROVE CallOK(c)'
  BY <1>2 DEF IInv, CallOK, Untouched, Only, Runnable
<1>3. RunsOnce' /\ NoResultAfterAssertion'
  BY DEF IInv, RunsOnce, NoResultAfterAssertion
<1>4. QED
  BY <1>1, <1>2, <1>3 DEF IInv

LEMMA NextIInv ==
  ASSUME IInv, [Next]_vars
  PROVE  IInv'
<1>1. ASSUME NEW c \in Callers, NEW k \in Kernels, NEW m \in BOOLEAN, Begin(c, k, m)
      PROVE  IInv'
  BY <1>1, BeginIInv
<1>2. ASSUME NEW c \in Callers, Step(c)
      PROVE  IInv'
  BY <1>2, EnterIInv, SelectIInv, TroubleIInv, LibraryIInv, SubmitIInv, ObserveIInv,
     RecoverIInv, GuardIInv, MarshalIInv, HostSubmitIInv, HostWaitIInv, CopyBackIInv, ExitIInv
  DEF Step
<1>3. QED
  BY <1>1, <1>2, StutterIInv DEF Next

\* The invariant on which everything else rests: at each of its steps a call has
\* submitted exactly what that step says.
THEOREM Invariance == Spec => []IInv
BY InitIInv, NextIInv, PTL DEF Spec

\* Every variable of the launcher keeps its type, the bounded attempt and
\* failure counters included (MetalLauncher and the module-level shader sets).
THEOREM TypeCorrect == Spec => []TypeOK
<1>1. IInv => TypeOK
  BY DEF IInv
<1>2. QED
  BY <1>1, Invariance, PTL

\* A launch applies its workload at most once, through one route, whichever
\* helper declined or failed before (SubmissionState across the dispatchers).
THEOREM WorkloadRunsOnce == Spec => []RunsOnce
<1>1. IInv => RunsOnce
  BY DEF IInv
<1>2. QED
  BY <1>1, Invariance, PTL

\* A launch whose assertion failed neither copies results back nor returns.
THEOREM AssertionsWithholdResults == Spec => []NoResultAfterAssertion
<1>1. IInv => NoResultAfterAssertion
  BY DEF IInv
<1>2. QED
  BY <1>1, Invariance, PTL

\* A shader is retired only by a call that has attempted no submission: every
\* handler asks reraise_if_attempted before it marks.
THEOREM RetirementPrecedesSubmission == Spec => RetiredBeforeSubmission
<1>1. ASSUME IInv, [Next]_vars, unsupported' # unsupported
      PROVE  \E c \in Callers : pc'[c] # pc[c] /\ ~attempted[c]
  <2>1. PICK c \in Callers : Step(c)
    BY <1>1 DEF Next, Begin, vars
  <2>2. CASE Select(c)
    BY <1>1, <2>2 DEF Select, Follow
  <2>3. CASE Trouble(c)
    BY <1>1, <2>3 DEF Trouble, IInv, TypeOK, CallOK, Untouched, At, Goto
  <2>4. CASE Recover(c)
    <3>1. pc[c] = "recover" /\ ~attempted[c] /\ Follow(c)
      BY <1>1, <2>4 DEF Recover, Stop, At
    <3>2. pc'[c] # "recover"
      BY <1>1, <3>1 DEF Follow, Goto, IInv, TypeOK
    <3>3. QED
      BY <3>1, <3>2
  <2>5. QED
    BY <1>1, <2>1, <2>2, <2>3, <2>4
    DEF Step, Enter, Library, Submit, Observe, Guard, Marshal, HostSubmit, HostWait,
        CopyBack, Exit, Continue, Stop
<1>2. QED
  BY <1>1, Invariance, PTL DEF Spec, RetiredBeforeSubmission

--------------------------------------------------------------------------------
\* How often a shader fails to build.

\* The callers that build shader s, and those that have failed to and are about to mark it.
Building(s) == {c \in Callers : pc[c] = "library" /\ shader[c] = s}
Marking(s) ==
  {c \in Callers : pc[c] = "recover" /\ ~attempted[c] /\ shader[c] = s /\ route[c] \in Marks[kernel[c]]}

\* Until a shader is marked, every failure has a caller that is about to mark it; from
\* then on nobody begins to build it, and only those that already do may fail.
FailInv ==
  \A s \in Shaders :
    /\ s \notin unsupported => failures[s] <= Cardinality(Marking(s))
    /\ s \in unsupported => failures[s] + Cardinality(Building(s)) <= Cardinality(Callers)

LEMMA CountFacts ==
  ASSUME NEW s
  PROVE  /\ IsFiniteSet(Building(s)) /\ IsFiniteSet(Marking(s))
         /\ Cardinality(Building(s)) \in Nat /\ Cardinality(Marking(s)) \in Nat
         /\ Cardinality(Callers) \in Nat
         /\ Cardinality(Marking(s)) + Cardinality(Building(s)) <= Cardinality(Callers)
         /\ Cardinality(Marking(s)) <= Cardinality(Callers)
<1>1. Building(s) \in SUBSET Callers /\ Marking(s) \in SUBSET Callers /\ Building(s) \cap Marking(s) = {}
  BY DEF Building, Marking
<1>2. IsFiniteSet(Building(s)) /\ IsFiniteSet(Marking(s)) /\ Cardinality(Callers) \in Nat
      /\ Cardinality(Marking(s)) <= Cardinality(Callers)
  BY <1>1, CallersAssumption, FS_Subset, FS_CardinalityType
<1>3. Cardinality(Building(s)) \in Nat /\ Cardinality(Marking(s)) \in Nat
  BY <1>2, FS_CardinalityType
<1>4. Cardinality(Building(s) \cup Marking(s)) = Cardinality(Building(s)) + Cardinality(Marking(s))
  <2>1. Cardinality(Building(s) \cup Marking(s))
          = Cardinality(Building(s)) + Cardinality(Marking(s)) - Cardinality(Building(s) \cap Marking(s))
    BY <1>2, FS_Union
  <2>2. Cardinality(Building(s) \cap Marking(s)) = 0
    BY <1>1, FS_EmptySet
  <2>3. QED
    BY <1>3, <2>1, <2>2
<1>5. Building(s) \cup Marking(s) \in SUBSET Callers
  BY <1>1
<1>6. Cardinality(Building(s) \cup Marking(s)) <= Cardinality(Callers)
  BY <1>5, CallersAssumption, FS_Subset
<1>7. Cardinality(Building(s)) + Cardinality(Marking(s)) <= Cardinality(Callers)
  BY <1>4, <1>6
<1>8. QED
  BY <1>2, <1>3, <1>7

\* A step that fails no build keeps the invariant when it drops no caller that is about to mark an
\* unmarked shader, and lets none begin to build a marked one.
LEMMA QuietFailInv ==
  ASSUME TypeOK, TypeOK', FailInv, failures' = failures, unsupported \subseteq unsupported',
         NEW c \in Callers,
         OthersStay(c),
         \A s \in Shaders : s \notin unsupported' => (c \in Marking(s) => c \in Marking(s)'),
         \A s \in Shaders : s \in unsupported' => (c \in Building(s)' => c \in Building(s))
  PROVE  FailInv'
<1> SUFFICES ASSUME NEW s \in Shaders
             PROVE  /\ s \notin unsupported' => failures'[s] <= Cardinality(Marking(s)')
                    /\ s \in unsupported' => failures'[s] + Cardinality(Building(s)') <= Cardinality(Callers)
  BY DEF FailInv
<1>0. failures[s] \in Nat /\ failures'[s] = failures[s]
  BY DEF TypeOK
<1>1. CASE s \notin unsupported'
  <2>1. Marking(s) \in SUBSET Marking(s)'
    BY <1>1 DEF Marking, OthersStay
  <2>2. IsFiniteSet(Marking(s)')
    <3>1. Marking(s)' \in SUBSET Callers
      BY DEF Marking
    <3>2. QED
      BY <3>1, CallersAssumption, FS_Subset
  <2>3. Cardinality(Marking(s)) <= Cardinality(Marking(s)') /\ Cardinality(Marking(s)') \in Nat
    BY <2>1, <2>2, FS_Subset, FS_CardinalityType
  <2>4. failures[s] <= Cardinality(Marking(s))
    BY <1>1 DEF FailInv
  <2>5. QED
    BY <1>0, <1>1, <2>3, <2>4, CountFacts
<1>2. CASE s \in unsupported'
  <2>1. Building(s)' \in SUBSET Building(s)
    BY <1>2 DEF Building, OthersStay
  <2>2. Cardinality(Building(s)') <= Cardinality(Building(s)) /\ Cardinality(Building(s)') \in Nat
    BY <2>1, CountFacts, FS_Subset, FS_CardinalityType
  <2>3. failures[s] + Cardinality(Building(s)) <= Cardinality(Callers)
    BY <1>0, CountFacts DEF FailInv
  <2>4. QED
    BY <1>0, <1>2, <2>2, <2>3, CountFacts
<1>3. QED
  BY <1>1, <1>2

\* One more failure, of the caller that goes on to mark the shader.
LEMMA LibraryFailInv ==
  ASSUME IInv, IInv', FailInv, NEW c \in Callers, Library(c)
  PROVE  FailInv'
<1>1. pc[c] = "library" /\ shader[c] \in Shaders /\ ~attempted[c]
  BY DEF Library, At, IInv, CallOK, Untouched
<1>2. TypeOK /\ TypeOK'
  BY DEF IInv
<1>3. CASE Continue(c, "submit")
  <2>1. OthersStay(c) /\ failures' = failures /\ unsupported' = unsupported
    BY <1>2, <1>3 DEF Continue, Goto, local, OthersStay, TypeOK
  <2>2. \A s \in Shaders : c \notin Marking(s) /\ c \notin Building(s)'
    BY <1>1, <1>2, <1>3 DEF Marking, Building, Continue, Goto, TypeOK
  <2>3. QED
    BY <1>2, <2>1, <2>2, QuietFailInv
<1>4. CASE /\ Goto(c, "recover")
           /\ failures' = IF route[c] \in Marks[kernel[c]] THEN [failures EXCEPT ![shader[c]] = @ + 1] ELSE failures
           /\ UNCHANGED <<unsupported, kernel, local, ran, answer>>
  <2>1. OthersStay(c) /\ unsupported' = unsupported
    BY <1>2, <1>4 DEF Goto, local, OthersStay, TypeOK
  <2>2. \A s \in Shaders : c \notin Marking(s) /\ c \notin Building(s)'
    BY <1>1, <1>2, <1>4 DEF Marking, Building, Goto, TypeOK
  <2>3. CASE route[c] \notin Marks[kernel[c]]
    BY <1>2, <1>4, <2>1, <2>2, <2>3, QuietFailInv
  <2>4. CASE route[c] \in Marks[kernel[c]]
    <3> SUFFICES ASSUME NEW s \in Shaders
                 PROVE  /\ s \notin unsupported => failures'[s] <= Cardinality(Marking(s)')
                        /\ s \in unsupported => failures'[s] + Cardinality(Building(s)') <= Cardinality(Callers)
      BY <2>1 DEF FailInv
    <3>0. failures[s] \in Nat
      BY <1>2 DEF TypeOK
    <3>1. CASE s = shader[c]
      <4>1. failures'[s] = failures[s] + 1
        BY <1>2, <1>4, <2>4, <3>1 DEF TypeOK
      <4>2. Marking(s)' = Marking(s) \cup {c}
        BY <1>1, <1>2, <1>4, <2>4, <3>1 DEF Marking, Goto, local, TypeOK
      <4>3. Building(s)' = Building(s) \ {c} /\ c \in Building(s)
        BY <1>1, <1>2, <1>4, <3>1 DEF Building, Goto, local, TypeOK
      <4>4. Cardinality(Marking(s)') = Cardinality(Marking(s)) + 1
        BY <2>2, <4>2, CountFacts, FS_AddElement
      <4>5. Cardinality(Building(s)') = Cardinality(Building(s)) - 1
        BY <4>3, CountFacts, FS_RemoveElement
      <4>6. CASE s \notin unsupported
        BY <3>0, <4>1, <4>4, <4>6, CountFacts DEF FailInv
      <4>7. CASE s \in unsupported
        BY <3>0, <4>1, <4>5, <4>7, CountFacts DEF FailInv
      <4>8. QED
        BY <4>6, <4>7
    <3>2. CASE s # shader[c]
      <4>1. failures'[s] = failures[s]
        BY <1>1, <1>2, <1>4, <3>2 DEF TypeOK
      <4>2. Marking(s)' = Marking(s) /\ Building(s)' = Building(s)
        BY <1>1, <1>2, <1>4, <3>2 DEF Marking, Building, Goto, local, TypeOK
      <4>3. QED
        BY <4>1, <4>2 DEF FailInv
    <3>3. QED
      BY <3>1, <3>2
  <2>5. QED
    BY <2>3, <2>4
<1>5. QED
  BY <1>3, <1>4 DEF Library

\* A caller that is about to mark an unmarked shader marks it before it does anything else.
LEMMA RecoverFailInv ==
  ASSUME IInv, IInv', FailInv, NEW c \in Callers, Recover(c)
  PROVE  FailInv'
<1>1. pc[c] = "recover" /\ TypeOK /\ TypeOK'
  BY DEF Recover, At, IInv
<1>2. pc'[c] \in {"idle", "guard", "try"} /\ failures' = failures /\ OthersStay(c)
  BY <1>1 DEF Recover, Stop, Finish, Follow, Goto, OthersStay, TypeOK
<1>3. unsupported \subseteq unsupported'
  BY <1>1 DEF Recover, Stop
<1>4. ASSUME NEW s \in Shaders, s \notin unsupported' PROVE c \notin Marking(s)
  BY <1>1, <1>4 DEF Recover, Stop, Marking
<1>5. \A s \in Shaders : c \notin Building(s)'
  BY <1>2 DEF Building
<1>6. QED
  BY <1>1, <1>2, <1>3, <1>4, <1>5, QuietFailInv

\* Every other step fails no build, leaves no caller to mark a shader, and selects none that is marked.
LEMMA OtherFailInv ==
  ASSUME IInv, IInv', FailInv, NEW c \in Callers,
         (\E k \in Kernels, m \in BOOLEAN : Begin(c, k, m)) \/ (Step(c) /\ ~Library(c) /\ ~Recover(c))
  PROVE  FailInv'
<1>1. TypeOK /\ TypeOK'
  BY DEF IInv
<1>2. pc[c] # "recover" /\ failures' = failures /\ unsupported \subseteq unsupported'
  BY DEF Begin, Step, Enter, Select, Trouble, Submit, Observe, Guard, Marshal, HostSubmit, HostWait,
     CopyBack, Exit, At, Continue, Stop, local
<1>3. OthersStay(c)
  <2>1. CASE \E k \in Kernels, m \in BOOLEAN : Begin(c, k, m)
    BY <1>1, <2>1 DEF Begin, Finish, Goto, OthersStay, TypeOK
  <2>2. CASE Enter(c) \/ Observe(c) \/ Guard(c) \/ Marshal(c) \/ Exit(c) \/ HostWait(c)
    BY <1>1, <2>2 DEF Enter, Observe, Guard, Marshal, Exit, HostWait, Continue, Stop, Finish, Goto, local, OthersStay, TypeOK
  <2>3. CASE Select(c) \/ Trouble(c)
    BY <1>1, <2>3 DEF Select, Trouble, Follow, Goto, local, OthersStay, TypeOK
  <2>4. CASE Submit(c)
    BY <1>1, <2>4 DEF Submit, Execute, Happens, Goto, OthersStay, TypeOK
  <2>5. CASE HostSubmit(c)
    BY <1>1, <2>5 DEF HostSubmit, Execute, Happens, Stop, Finish, Goto, OthersStay, TypeOK
  <2>6. CASE CopyBack(c)
    BY <1>1, <2>6 DEF CopyBack, Stop, Finish, Goto, OthersStay, TypeOK
  <2>7. QED
    BY <2>1, <2>2, <2>3, <2>4, <2>5, <2>6 DEF Step
<1>4. \A s \in Shaders : c \notin Marking(s)
  BY <1>2 DEF Marking
<1>5. ASSUME NEW s \in Shaders, s \in unsupported', c \in Building(s)' PROVE c \in Building(s)
  <2>1. pc'[c] = "library" /\ shader'[c] = s
    BY <1>5 DEF Building
  <2>2. Select(c)
    BY <1>1, <2>1 DEF Begin, Step, Enter, Trouble, Submit, Observe, Guard, Marshal, HostSubmit, HostWait,
       CopyBack, Exit, Continue, Stop, Finish, Goto, TypeOK
  <2>3. s \notin unsupported /\ unsupported' = unsupported
    BY <1>1, <2>1, <2>2 DEF Select, Follow, Usable, Goto, TypeOK
  <2>4. QED
    BY <1>5, <2>3
<1>6. QED
  BY <1>1, <1>2, <1>3, <1>4, <1>5, QuietFailInv

\* Each thread fails on a shader at most once, by having looked before the first failure was recorded:
\* the runtime's set of shaders that do not build is read and filled without a lock.
THEOREM FailsOnceEach == Spec => []OneFailureEach
<1>1. Init => FailInv
  <2> SUFFICES ASSUME Init, NEW s \in Shaders
               PROVE  s \notin unsupported /\ failures[s] <= Cardinality(Marking(s))
    BY DEF FailInv
  <2>1. QED
    BY CountFacts DEF Init
<1>2. IInv /\ IInv' /\ FailInv /\ [Next]_vars => FailInv'
  <2> SUFFICES ASSUME IInv, IInv', FailInv, [Next]_vars PROVE FailInv'
    OBVIOUS
  <2>1. CASE UNCHANGED vars
    BY <2>1 DEF vars, local, FailInv, Building, Marking
  <2>2. CASE Next
    BY <2>2, LibraryFailInv, RecoverFailInv, OtherFailInv DEF Next
  <2>3. QED
    BY <2>1, <2>2
<1>3. IInv /\ FailInv => OneFailureEach
  <2> SUFFICES ASSUME IInv, FailInv, NEW s \in Shaders PROVE failures[s] <= Cardinality(Callers)
    BY DEF OneFailureEach
  <2>1. failures[s] \in Nat
    BY DEF IInv, TypeOK
  <2>2. QED
    BY <2>1, CountFacts DEF FailInv
<1>4. QED
  BY <1>1, <1>2, <1>3, Invariance, PTL DEF Spec

--------------------------------------------------------------------------------
\* Launch implements LaunchContract.

LEMMA NothingSame == Contract!Nothing = Nothing
  BY DEF Contract!Nothing, Nothing

LEMMA InitRefines == Init => Contract!Init
  BY NothingSame DEF Init, Contract!Init

LEMMA StopRefines ==
  ASSUME IInv, NEW c \in Callers, NEW a \in Answers, Stop(c, a), pc[c] # "idle",
         a = "refused" => ran[c] = Nothing,
         a = "returned" => \E r \in Routes : ran[c][r] = Parts[r]
  PROVE  Contract!Next
<1>1. kernel[c] # None
  BY KernelAssumption DEF IInv, CallOK
<1>2. Contract!End(c, a)
  BY <1>1 DEF Stop, Finish, Contract!End
<1>3. CASE a = "returned"
  BY <1>2, <1>3 DEF Contract!Next, Contract!Return
<1>4. CASE a = "refused"
  BY <1>2, <1>4, NothingSame DEF Contract!Next, Contract!Refuse
<1>5. CASE a \in {"raised", "uncertain", "assertion"}
  BY <1>2, <1>5 DEF Contract!Next, Contract!Fail, Contract!Failures
<1>6. QED
  BY <1>3, <1>4, <1>5 DEF Answers

LEMMA ExecuteRefines ==
  ASSUME IInv, NEW c \in Callers, NEW r \in Routes, Execute(c, r),
         kernel[c] \in Kernels, Runnable(kernel[c], r), Only(c, r, Parts[r] - 1),
         UNCHANGED <<kernel, answer>>
  PROVE  Contract!Next
<1>1. ran[c][r] < Parts[r] /\ \A q \in Routes \ {r} : ran[c][q] = 0
  BY RouteFacts DEF Only, IInv, TypeOK
<1>2. kernel[c] # None
  BY KernelAssumption
<1>3. Contract!Run(c, r)
  BY <1>1, <1>2 DEF Contract!Run, Execute, Happens
<1>4. QED
  BY <1>3 DEF Contract!Next

LEMMA StepRefines ==
  ASSUME IInv, NEW c \in Callers, Step(c)
  PROVE  [Contract!Next]_Contract!vars
<1> USE DEF Contract!vars
<1>1. CallOK(c)
  BY DEF IInv
<1>2. CASE Enter(c)
  BY <1>1, <1>2, StopRefines
  DEF Enter, At, CallOK, Untouched, Answers, Continue
<1>3. CASE Select(c)
  BY <1>3 DEF Select, Follow
<1>4. CASE Trouble(c)
  BY <1>4 DEF Trouble
<1>5. CASE Library(c)
  BY <1>5 DEF Library, Continue
<1>6. CASE Submit(c)
  <2>1. /\ Runnable(kernel[c], route[c]) /\ kernel[c] \in Kernels
        /\ Only(c, route[c], Parts[route[c]]) /\ ran[c][route[c]] < Parts[route[c]]
    BY <1>1, <1>6 DEF Submit, At, CallOK
  <2>2. route[c] \in Routes /\ ran[c][route[c]] \in 0..2 /\ Parts[route[c]] \in 1..2
    BY RouteFacts DEF IInv, TypeOK
  <2>3. Only(c, route[c], Parts[route[c]] - 1)
    BY <2>1, <2>2 DEF Only
  <2>4. UNCHANGED <<kernel, answer>>
    BY <1>6 DEF Submit
  <2>5. CASE Execute(c, route[c])
    BY <2>1, <2>2, <2>3, <2>4, <2>5, ExecuteRefines
  <2>6. CASE UNCHANGED ran
    BY <2>4, <2>6
  <2>7. QED
    BY <1>6, <2>5, <2>6 DEF Submit
<1>7. CASE Observe(c)
  <2>1. pc[c] = "observe" /\ ran[c][route[c]] = Parts[route[c]] /\ route[c] \in Routes
    BY <1>1, <1>7, RouteFacts DEF Observe, At, CallOK, IInv, TypeOK
  <2>2. QED
    BY <1>7, <2>1, StopRefines DEF Observe, Answers, Continue
<1>8. CASE Recover(c)
  BY <1>8, StopRefines DEF Recover, At, Answers, Follow
<1>9. CASE Guard(c)
  BY <1>1, <1>9, StopRefines DEF Guard, At, CallOK, Untouched, Answers, Continue
<1>10. CASE Marshal(c)
  BY <1>1, <1>10, StopRefines DEF Marshal, At, CallOK, Untouched, Answers, Continue
<1>11. CASE HostSubmit(c)
  <2>1. pc[c] = "hostsubmit" /\ Untouched(c) /\ Runnable(kernel[c], "host") /\ kernel[c] \in Kernels
    BY <1>1, <1>11 DEF HostSubmit, At, CallOK
  <2>2. Only(c, "host", Parts["host"] - 1) /\ "host" \in Routes
    BY <2>1, RouteFacts, NothingFacts DEF Only, Untouched
  <2>3. CASE Stop(c, "raised")
    BY <2>1, <2>3, StopRefines DEF Answers
  <2>4. CASE UNCHANGED <<kernel, answer>> /\ (Execute(c, "host") \/ UNCHANGED ran)
    BY <2>1, <2>2, <2>4, ExecuteRefines
  <2>5. QED
    BY <1>11, <2>3, <2>4 DEF HostSubmit
<1>12. CASE HostWait(c)
  BY <1>12, StopRefines DEF HostWait, At, Answers, Continue
<1>13. CASE CopyBack(c)
  BY <1>13, StopRefines DEF CopyBack, At, Answers
<1>14. CASE Exit(c)
  <2>1. pc[c] = "exit" /\ ran[c]["host"] = Parts["host"] /\ "host" \in Routes
    BY <1>1, <1>14, RouteFacts DEF Exit, At, CallOK
  <2>2. QED
    BY <1>14, <2>1, StopRefines DEF Exit, Answers
<1>15. QED
  BY <1>2, <1>3, <1>4, <1>5, <1>6, <1>7, <1>8, <1>9, <1>10, <1>11, <1>12, <1>13, <1>14
  DEF Step

LEMMA BeginRefines ==
  ASSUME IInv, NEW c \in Callers, NEW k \in Kernels, NEW m \in BOOLEAN, Begin(c, k, m)
  PROVE  [Contract!Next]_Contract!vars
<1>1. kernel[c] = None /\ ran' = [ran EXCEPT ![c] = Contract!Nothing]
  BY NothingSame DEF Begin, At, IInv, CallOK
<1>2. CASE kernel' = [kernel EXCEPT ![c] = k] /\ answer' = [answer EXCEPT ![c] = None]
  BY <1>1, <1>2 DEF Contract!Next, Contract!Call
<1>3. CASE \E a \in {"refused", "raised"} : Finish(c, a)
  <2>1. UNCHANGED kernel
    BY <1>1, <1>3 DEF Finish, IInv, TypeOK
  <2>2. Contract!Reject(c)
    BY <1>1, <1>3, <2>1 DEF Finish, Contract!Reject
  <2>3. QED
    BY <2>2 DEF Contract!Next
<1>4. QED
  BY <1>2, <1>3 DEF Begin

\* The launcher implements its contract: an ABI that fits, no replay, a complete
\* workload behind a normal return, an untouched one behind a refusal.
THEOREM Refinement == Spec => ContractSpec
<1>1. ASSUME IInv, [Next]_vars
      PROVE  [Contract!Next]_Contract!vars
  <2>1. CASE Next
    BY <1>1, <2>1, StepRefines, BeginRefines DEF Next
  <2>2. CASE UNCHANGED vars
    BY <2>2 DEF vars, Contract!vars
  <2>3. QED
    BY <1>1, <2>1, <2>2
<1>2. QED
  BY InitRefines, <1>1, Invariance, PTL DEF Spec, ContractSpec, Contract!Spec
================================================================================

----------------------------- MODULE LaunchContract -----------------------------
(***************************************************************************)
(* What a kernel launch promises the program that makes it: the workload   *)
(* runs at most once, through one implementation that has the kernel's     *)
(* binary interface; a normal return means that all of it was submitted,   *)
(* and a refusal means that none of it was.  Which implementations were    *)
(* tried, shader libraries, host buffers and hooks do not appear here.     *)
(***************************************************************************)
EXTENDS Naturals

CONSTANTS
  Callers,          \* threads that launch kernels
  Kernels,          \* resident launch handles
  Routes,           \* the implementations a launch may choose from
  Parts,            \* Parts[r]: how many submissions route r consists of
  Runnable(_, _),   \* Runnable(k, r): r has the binary interface of kernel k
  None

VARIABLES
  kernel,   \* kernel[c]: the kernel that c is launching, or None
  ran,      \* ran[c][r]: submissions of route r that reached the GPU for c's call
  answer    \* answer[c]: how c's last call ended, or None

vars == <<kernel, ran, answer>>

Failures == {"raised", "uncertain", "assertion"}

Nothing == [r \in Routes |-> 0]

Init ==
  /\ kernel = [c \in Callers |-> None]
  /\ ran = [c \in Callers |-> Nothing]
  /\ answer = [c \in Callers |-> None]

Call(c, k) ==
  /\ kernel[c] = None
  /\ kernel' = [kernel EXCEPT ![c] = k]
  /\ ran' = [ran EXCEPT ![c] = Nothing]
  /\ answer' = [answer EXCEPT ![c] = None]

\* A call that fails before it is under way: its handle or its arguments are bad.
Reject(c) ==
  /\ kernel[c] = None
  /\ ran' = [ran EXCEPT ![c] = Nothing]
  /\ \E a \in {"refused", "raised"} : answer' = [answer EXCEPT ![c] = a]
  /\ UNCHANGED kernel

\* One more submission of the only route that has run.
Run(c, r) ==
  /\ kernel[c] # None
  /\ Runnable(kernel[c], r)
  /\ \A q \in Routes \ {r} : ran[c][q] = 0
  /\ ran[c][r] < Parts[r]
  /\ ran' = [ran EXCEPT ![c][r] = @ + 1]
  /\ UNCHANGED <<kernel, answer>>

End(c, a) ==
  /\ kernel[c] # None
  /\ kernel' = [kernel EXCEPT ![c] = None]
  /\ answer' = [answer EXCEPT ![c] = a]
  /\ UNCHANGED ran

Return(c) == End(c, "returned") /\ \E r \in Routes : ran[c][r] = Parts[r]

Refuse(c) == End(c, "refused") /\ ran[c] = Nothing

Fail(c) == \E a \in Failures : End(c, a)

Next ==
  \E c \in Callers :
    \/ \E k \in Kernels : Call(c, k)
    \/ Reject(c)
    \/ \E r \in Routes : Run(c, r)
    \/ Return(c) \/ Refuse(c) \/ Fail(c)

Spec == Init /\ [][Next]_vars
================================================================================

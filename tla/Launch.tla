--------------------------------- MODULE Launch ---------------------------------
(***************************************************************************)
(* One call of MetalLauncher.__call__ (backend/driver.py), with the        *)
(* dispatch helpers of autotuning/ that it shares its SubmissionState      *)
(* with.  A call tries the implementations of a kernel in a fixed order:   *)
(* the zero-copy ones go through the process-wide compile_shader runtime,  *)
(* the last one mirrors the arguments into host-built Metal buffers.       *)
(* Before a submission is attempted any failure falls through to the next  *)
(* implementation; after it, none may.                                     *)
(*                                                                         *)
(* Threads share only the runtime's set of shaders that failed.  Whether a *)
(* dispatch that raised reached the GPU cannot be known, so both are       *)
(* possible.  Shapes, strides, grids and environment switches only decide  *)
(* whether a route declines, so a route may always decline.                *)
(***************************************************************************)
EXTENDS Naturals, FiniteSets

CONSTANTS
  Callers,    \* threads that launch kernels
  Kernels,    \* resident handles; what each one carries is given below
  Shaders,    \* MSL texts
  Carries,    \* Carries[k][r]: the shaders of route r, descriptors of handle k
  Base,       \* Base[k]: the fixed-tile shader in k's fast_matmul descriptor
  Marks,      \* Marks[k]: the routes of k that record a shader that failed
  Mla,        \* kernels whose attention descriptor is tagged "mla"
  Packed,     \* kernels with more than _MAX_METAL_BUFFERS arguments
  Asserting,  \* kernels with a device_assert descriptor
  None

\* In the order in which they are tried.
Order == <<"quantFast", "quant", "splitK", "fast", "attention", "generic">>
ZeroCopy == {Order[i] : i \in 1..6}
Routes == ZeroCopy \cup {"host"}

\* Split-K runs a partial pass and a reduction; every other route is one dispatch.
Parts == [r \in Routes |-> IF r = "splitK" THEN 2 ELSE 1]

Quant(k) == Carries[k]["quant"] # {}

\* How a call ends: normally, by a refusal, or by one of the errors.
Answers == {"returned", "refused", "raised", "uncertain", "assertion"}

ASSUME CallersAssumption == IsFiniteSet(Callers)

ASSUME KernelAssumption ==
  /\ None \notin Kernels \cup Shaders \cup Answers
  /\ Carries \in [Kernels -> [ZeroCopy -> SUBSET Shaders]]
  /\ Base \in [Kernels -> Shaders \cup {None}]
  /\ Marks \in [Kernels -> SUBSET ZeroCopy]
  /\ Mla \subseteq Kernels
  /\ Packed \subseteq Kernels
  /\ Asserting \subseteq Kernels

\* What the compiler emits: a quantized handle has no other descriptor, and a
\* kernel with retained assertions uses no template and has a free buffer slot.
ASSUME DescriptorAssumption ==
  /\ \A k \in Kernels : Quant(k) =>
        /\ \A r \in {"splitK", "fast", "attention"} : Carries[k][r] = {}
        /\ k \notin Mla
  /\ \A k \in Mla : \A r \in {"splitK", "fast"} : Carries[k][r] = {}
  /\ \A k \in Asserting :
        /\ \A r \in ZeroCopy \ {"generic"} : Carries[k][r] = {}
        /\ k \notin Mla \cup Packed

\* The routes whose code has the binary interface of kernel k.  The MSL of a
\* quantized or MLA handle is a template with an interface of its own, and more
\* arguments than buffers are packed in a way the host route cannot bind.
Runnable(k, r) ==
  \/ r \in ZeroCopy \ {"generic"} /\ Carries[k][r] # {}
  \/ r = "generic" /\ Carries[k][r] # {} /\ ~Quant(k) /\ k \notin Mla
  \/ r = "host" /\ ~Quant(k) /\ k \notin Mla \cup Packed

VARIABLES
  unsupported,  \* CompileShaderRuntime._unsupported: shaders not to be tried
  pc,           \* pc[c]: the next step of c's call
  kernel,       \* kernel[c]: the handle that c is launching, or None
  mps,          \* mps[c]: every tensor argument is an MPS tensor
  route,        \* route[c]: the route that is being tried
  shader,       \* shader[c]: the shader it has selected, or None
  attempted,    \* attempted[c]: SubmissionState.attempted
  ran,          \* ran[c][r]: submissions of route r that reached the GPU (history)
  flag,         \* flag[c]: the device has recorded a failed assertion
  copied,       \* copied[c]: host buffers have been copied back to tensors
  answer,       \* answer[c]: how the last call ended, or None
  failures      \* failures[s]: failed builds of s by routes that mark (history)

local == <<mps, route, shader, attempted, flag, copied>>
vars == <<unsupported, pc, kernel, local, ran, answer, failures>>

Steps == {"idle", "enter", "try", "library", "submit", "recover", "observe",
          "guard", "marshal", "hostsubmit", "hostwait", "copyback", "exit"}

Nothing == [r \in Routes |-> 0]

Init ==
  /\ unsupported = {}
  /\ pc = [c \in Callers |-> "idle"]
  /\ kernel = [c \in Callers |-> None]
  /\ mps = [c \in Callers |-> FALSE]
  /\ route = [c \in Callers |-> "quantFast"]
  /\ shader = [c \in Callers |-> None]
  /\ attempted = [c \in Callers |-> FALSE]
  /\ ran = [c \in Callers |-> Nothing]
  /\ flag = [c \in Callers |-> FALSE]
  /\ copied = [c \in Callers |-> FALSE]
  /\ answer = [c \in Callers |-> None]
  /\ failures = [s \in Shaders |-> 0]

--------------------------------------------------------------------------------

At(c, step) == pc[c] = step
Goto(c, step) == pc' = [pc EXCEPT ![c] = step]

\* The call ends and its local variables go out of scope.
Finish(c, a) ==
  /\ Goto(c, "idle")
  /\ answer' = [answer EXCEPT ![c] = a]
  /\ kernel' = [kernel EXCEPT ![c] = None]
  /\ mps' = [mps EXCEPT ![c] = FALSE]
  /\ route' = [route EXCEPT ![c] = "quantFast"]
  /\ shader' = [shader EXCEPT ![c] = None]
  /\ attempted' = [attempted EXCEPT ![c] = FALSE]

\* Control passes to step s of the same call and nothing else changes.
Continue(c, s) ==
  /\ Goto(c, s)
  /\ UNCHANGED <<unsupported, kernel, local, ran, answer, failures>>

\* The call ends, and the shared state and its history stay as they are.
Stop(c, a) ==
  /\ Finish(c, a)
  /\ UNCHANGED <<unsupported, ran, flag, copied, failures>>

\* The next route, or the decisions that follow the last zero-copy one.
Follow(c) ==
  /\ UNCHANGED <<kernel, mps, attempted, flag, copied, ran, answer>>
  /\ shader' = [shader EXCEPT ![c] = None]
  /\ IF route[c] = "generic"
     THEN Goto(c, "guard") /\ UNCHANGED route
     ELSE \E i \in 1..5 :
            /\ route[c] = Order[i]
            /\ route' = [route EXCEPT ![c] = Order[i + 1]]
            /\ Goto(c, "try")

\* One GPU submission of route r: it certainly happened, or it may have.
Happens(c, r) == ran' = [ran EXCEPT ![c][r] = @ + 1]

\* The execution contract, the packed descriptor and the argument binding are
\* validated before anything else; SubmissionState is new for every call.
Begin(c, k, m) ==
  /\ At(c, "idle")
  /\ ran' = [ran EXCEPT ![c] = Nothing]
  /\ flag' = [flag EXCEPT ![c] = FALSE]
  /\ copied' = [copied EXCEPT ![c] = FALSE]
  /\ \/ /\ Goto(c, "enter")
        /\ kernel' = [kernel EXCEPT ![c] = k]
        /\ mps' = [mps EXCEPT ![c] = m]
        /\ answer' = [answer EXCEPT ![c] = None]
        /\ UNCHANGED <<route, shader, attempted>>
     \/ Finish(c, "refused")
     \/ Finish(c, "raised")
  /\ UNCHANGED <<unsupported, failures>>

\* The enter hook, then the address bounds of tail matmuls and batched dots.
Enter(c) ==
  /\ At(c, "enter")
  /\ \/ Continue(c, "try")
     \/ Continue(c, "guard")     \* TRITON_MSL_COMPILE_SHADER=0, or no runtime
     \/ Stop(c, "refused")
     \/ Stop(c, "raised")

\* Mutant: the template's MSL passes for an elementwise kernel.
TemplateIsEligible(c) == Carries[kernel[c]][route[c]] # {}

\* Is the current route considered at all?  The 1-D path skips fail-closed kernels.
Eligible(c) ==
  LET k == kernel[c] IN
  /\ Carries[k][route[c]] # {}
  /\ route[c] = "generic" => ~Quant(k) /\ k \notin Mla

\* Mutant: the retirement of a shader is not looked up.
UsableUnseen(c, s) == s \in Carries[kernel[c]][route[c]]

\* May the current route select shader s?  Split-K and the fast template ask for
\* the shader of the descriptor first, and for the selected one later.
Usable(c, s) ==
  /\ s \in Carries[kernel[c]][route[c]]
  /\ s \notin unsupported
  /\ route[c] \in {"splitK", "fast"} => Base[kernel[c]] \notin unsupported

\* A route declines, or it selects a shader and checks its contract.
Select(c) ==
  /\ At(c, "try")
  /\ \/ Follow(c) /\ UNCHANGED <<unsupported, failures>>
     \/ /\ mps[c]
        /\ Eligible(c)
        /\ \E s \in Shaders :
             /\ Usable(c, s)
             /\ shader' = [shader EXCEPT ![c] = s]
        /\ Goto(c, "library")
        /\ UNCHANGED <<unsupported, kernel, mps, route, attempted, flag, copied,
                       ran, answer, failures>>

\* Code between the helpers raises: the outer handler marks the handle's own MSL.
Trouble(c) ==
  /\ At(c, "try")
  /\ unsupported' = unsupported \cup Carries[kernel[c]]["generic"]
  /\ Goto(c, "guard")
  /\ UNCHANGED <<kernel, local, ran, answer, failures>>

\* get_library, scratch buffers, argument packing: all before begin().
Library(c) ==
  /\ At(c, "library")
  /\ \/ Continue(c, "submit")
     \/ /\ Goto(c, "recover")
        /\ failures' = IF route[c] \in Marks[kernel[c]]
                       THEN [failures EXCEPT ![shader[c]] = @ + 1]
                       ELSE failures
        /\ UNCHANGED <<unsupported, kernel, local, ran, answer>>

\* The device runs the workload, and a failing assertion leaves its code behind.
Execute(c, r) ==
  /\ Happens(c, r)
  /\ \/ flag' = [flag EXCEPT ![c] = FALSE]
     \/ kernel[c] \in Asserting /\ flag' = [flag EXCEPT ![c] = TRUE]

\* Mutant: one pass too many.
MoreAndOne(c) == ran[c][route[c]] + 1 <= Parts[route[c]]

\* After this submission, does the route have another one to make?
More(c) == ran[c][route[c]] + 1 < Parts[route[c]]

\* Mutant: begin() after the dispatch has come back.
SubmitThenBegin(c) ==
  /\ At(c, "submit")
  /\ \/ /\ Execute(c, route[c])
        /\ attempted' = [attempted EXCEPT ![c] = TRUE]
        /\ Goto(c, IF More(c) THEN "submit" ELSE "observe")
     \/ /\ Goto(c, "recover")
        /\ Execute(c, route[c]) \/ UNCHANGED <<ran, flag>>
        /\ UNCHANGED attempted
  /\ UNCHANGED <<unsupported, kernel, mps, route, shader, copied, answer, failures>>

\* begin() and rt.dispatch.  A dispatch that raises may have reached the stream.
\* Split-K goes on to its second pass.
Submit(c) ==
  /\ At(c, "submit")
  /\ attempted' = [attempted EXCEPT ![c] = TRUE]
  /\ \/ /\ Execute(c, route[c])
        /\ Goto(c, IF More(c) THEN "submit" ELSE "observe")
     \/ /\ Goto(c, "recover")
        /\ Execute(c, route[c]) \/ UNCHANGED <<ran, flag>>
  /\ UNCHANGED <<unsupported, kernel, mps, route, shader, copied, answer, failures>>

\* The assertion flag is read back, then the exit hook runs.  Whatever raises
\* here goes through reraise_if_attempted.
Observe(c) ==
  /\ At(c, "observe")
  /\ \/ flag[c] /\ Stop(c, "assertion")
     \/ ~flag[c] /\ Stop(c, "returned")
     \/ Continue(c, "recover")

\* Mutant: the shader is marked before the attempt is looked at.
MarkThenReraise(c) ==
  /\ At(c, "recover")
  /\ unsupported' = unsupported \cup {shader[c]}
  /\ IF attempted[c]
     THEN Finish(c, "uncertain") /\ UNCHANGED <<flag, copied, ran>>
     ELSE Follow(c)
  /\ UNCHANGED failures

\* Mutant: a route that does not mark tries the same shader again.
RecoverSame(c) ==
  /\ At(c, "recover")
  /\ IF attempted[c]
     THEN Stop(c, "uncertain")
     ELSE IF route[c] \in Marks[kernel[c]]
          THEN /\ Follow(c)
               /\ unsupported' = unsupported \cup {shader[c]}
               /\ UNCHANGED failures
          ELSE Continue(c, "library")

\* The handlers: reraise_if_attempted first; a failure before any attempt marks
\* the selected shader, where the route marks, and falls through.
Recover(c) ==
  /\ At(c, "recover")
  /\ IF attempted[c]
     THEN Stop(c, "uncertain")
     ELSE /\ Follow(c)
          /\ unsupported' = unsupported \cup
               (IF route[c] \in Marks[kernel[c]] THEN {shader[c]} ELSE {})
          /\ UNCHANGED failures

\* The fail-closed refusals that stand before the host route.
Guard(c) ==
  /\ At(c, "guard")
  /\ IF Quant(kernel[c]) \/ kernel[c] \in Mla \cup Packed
     THEN Stop(c, "refused")
     ELSE Continue(c, "marshal")

\* Storage groups, mirrors, scalars, geometry and the assertion buffer; a storage
\* the host route cannot mirror faithfully is refused.
Marshal(c) ==
  /\ At(c, "marshal")
  /\ \/ Continue(c, "hostsubmit")
     \/ Stop(c, "refused")
     \/ Stop(c, "raised")

\* utils.launch encodes and commits one command buffer ...
HostSubmit(c) ==
  /\ At(c, "hostsubmit")
  /\ \/ /\ Goto(c, "hostwait")
        /\ Execute(c, "host") \/ UNCHANGED <<ran, flag>>
        /\ UNCHANGED <<unsupported, kernel, mps, route, shader, attempted, copied,
                       answer, failures>>
     \/ Stop(c, "raised")

\* ... and waits for it.  A command buffer that failed may have run or not.
HostWait(c) ==
  /\ At(c, "hostwait")
  /\ \/ ran[c]["host"] = 1 /\ Continue(c, "copyback")
     \/ Stop(c, "raised")

\* Mutant: the results are copied back before the flag is read.
CopyThenCheck(c) ==
  /\ At(c, "copyback")
  /\ copied' = [copied EXCEPT ![c] = TRUE]
  /\ IF flag[c]
     THEN Finish(c, "assertion")
     ELSE Goto(c, "exit") /\ UNCHANGED <<kernel, mps, route, shader, attempted, answer>>
  /\ UNCHANGED <<unsupported, flag, ran, failures>>

\* check_failure, then the copies.
CopyBack(c) ==
  /\ At(c, "copyback")
  /\ IF flag[c]
     THEN Stop(c, "assertion")
     ELSE \/ /\ copied' = [copied EXCEPT ![c] = TRUE]
             /\ Goto(c, "exit")
             /\ UNCHANGED <<unsupported, kernel, mps, route, shader, attempted, flag,
                            ran, answer, failures>>
          \/ Stop(c, "raised")

\* Buffers return to the pool and the exit hook runs.
Exit(c) ==
  /\ At(c, "exit")
  /\ Stop(c, "returned") \/ Stop(c, "raised")

Step(c) ==
  \/ Enter(c) \/ Select(c) \/ Trouble(c) \/ Library(c) \/ Submit(c) \/ Observe(c)
  \/ Recover(c) \/ Guard(c) \/ Marshal(c)
  \/ HostSubmit(c) \/ HostWait(c) \/ CopyBack(c) \/ Exit(c)

Next ==
  \E c \in Callers :
    \/ \E k \in Kernels, m \in BOOLEAN : Begin(c, k, m)
    \/ Step(c)

Spec == Init /\ [][Next]_vars

\* A call is plain sequential code; builds, dispatches, waits and hooks come back.
Fairness == \A c \in Callers : WF_vars(Step(c))

LiveSpec == Spec /\ Fairness

--------------------------------------------------------------------------------

TypeOK ==
  /\ unsupported \in SUBSET Shaders
  /\ pc \in [Callers -> Steps]
  /\ kernel \in [Callers -> Kernels \cup {None}]
  /\ mps \in [Callers -> BOOLEAN]
  /\ route \in [Callers -> ZeroCopy]
  /\ shader \in [Callers -> Shaders \cup {None}]
  /\ attempted \in [Callers -> BOOLEAN]
  /\ ran \in [Callers -> [Routes -> 0..2]]
  /\ flag \in [Callers -> BOOLEAN]
  /\ copied \in [Callers -> BOOLEAN]
  /\ answer \in [Callers -> Answers \cup {None}]
  /\ failures \in [Shaders -> Nat]

\* However a call fails and falls through, its workload reaches the GPU through
\* one route, and never twice: atomics and in-place updates are applied once
\* (SubmissionState, and PostSubmitError in errors.py).
RunsOnce ==
  \A c \in Callers : \A r \in Routes :
    /\ ran[c][r] <= Parts[r]
    /\ ran[c][r] > 0 => \A q \in Routes \ {r} : ran[c][q] = 0

\* Results of a launch whose device assertion failed are not delivered: nothing
\* is copied back from the host buffers and the call does not return normally.
\* (check_failure on both the zero-copy and the host route.)
NoResultAfterAssertion ==
  \A c \in Callers : flag[c] => ~copied[c] /\ answer[c] # "returned"

\* A shader is retired only for a failure before any submission was attempted: a
\* call that may have run its workload never blacklists what it ran.
RetiredBeforeSubmission ==
  [][unsupported' # unsupported =>
       \E c \in Callers : pc'[c] # pc[c] /\ ~attempted[c]]_vars

\* A shader that does not build is not built over and over: each thread can fail
\* on it at most once, by having looked before the first failure was recorded.
OneFailureEach == \A s \in Shaders : failures[s] <= Cardinality(Callers)

\* Every call ends, whichever routes decline or fail.
CallsEnd == \A c \in Callers : ~At(c, "idle") ~> At(c, "idle")

--------------------------------------------------------------------------------
\* A launch implements LaunchContract.

Contract == INSTANCE LaunchContract

ContractSpec == Contract!Spec
================================================================================

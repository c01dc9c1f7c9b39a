---------------------------- MODULE DeviceAssertion ----------------------------
(***************************************************************************)
(* One launch of a kernel that retains tt.assert: the proof of uniform     *)
(* control flow that admits it (prepare in codegen/assertions.py), the     *)
(* rendezvous that every check is compiled to (emit), and the check of the *)
(* status buffer by the host (backend/_device_assert.py).                  *)
(*                                                                         *)
(* A kernel is a sequence of control regions with one check each.  A       *)
(* condition or a loop bound is an expression over the leaves of the SSA   *)
(* graph and stands for what it depends on: some leaves have one value in  *)
(* a threadgroup, the others one in each thread.  Predicates read memory,  *)
(* so any of them may fail.  A threadgroup barrier lets a group pass when  *)
(* every thread of it has arrived; a thread that returned never arrives.   *)
(***************************************************************************)
EXTENDS Integers, Sequences

CONSTANTS
  Groups,   \* threadgroups of the launch
  Threads,  \* threads of a threadgroup
  Leader,   \* the thread with lid 0
  Uniform,  \* leaves with one value in a threadgroup: constants, arguments, program ids
  Lane,     \* leaves with one value in each thread: ranges, loads
  Kernels,  \* kernels a user may write
  Trips,    \* bound: iterations of a loop that is entered
  None

Leaves == Uniform \cup Lane

Regions == [kind : {"if", "for"}, depends : SUBSET Leaves]

ASSUME LaunchAssumption ==
  /\ Leader \in Threads
  /\ Uniform \cap Lane = {}
  /\ Kernels \subseteq Seq(Regions)
  /\ Trips \in Nat \ {0}
  /\ None \notin Nat

\* Mutant: loop bounds are proved uniform and branches are not.
AdmittedLoops(k) ==
  \A i \in DOMAIN k : k[i].kind = "for" => k[i].depends \subseteq Uniform

\* control and uniform: every branch condition and every loop bound is computed
\* from uniform leaves by operations that keep them uniform.
Admitted(k) == \A i \in DOMAIN k : k[i].depends \subseteq Uniform

\* Positions <<i, n>>: the check of region i in its iteration n.
Earlier(x, y) == x[1] < y[1] \/ (x[1] = y[1] /\ x[2] < y[2])

Start == <<0, 0>>
Positions == (Nat \X Nat) \ {Start}

VARIABLES
  kernel,   \* the kernel that was launched
  value,    \* value[g][t][l]: the leaf l as thread t of group g computes it
  at,       \* at[g][t]: position of the check t has last come to, or Start
  pc,       \* pc[g][t]: next step of thread t of group g
  gflag,    \* gflag[g]: _assert_group_failed
  verdict,  \* verdict[g][t]: the thread's last sample of it
  status,   \* _assert_status
  answer,   \* the code the host has read, or None
  failedAt  \* failedAt[g]: positions of the checks that failed (history)

launch == <<kernel, value>>
vars == <<launch, at, pc, gflag, verdict, status, answer, failedAt>>

Steps == {"init", "arrive", "check", "record", "rendezvous", "sample", "hold", "test",
          "access", "returned"}

\* Does thread t enter region i, or is the bound of its loop above zero?
Enters(g, t, i) == \E l \in kernel[i].depends : value[g][t][l]

\* The checks on the way of thread t.
Path(g, t) ==
  {x \in (DOMAIN kernel) \X (1 .. Trips) :
     /\ Enters(g, t, x[1])
     /\ kernel[x[1]].kind = "if" => x[2] = 1}

IsNext(path, x, y) ==
  /\ y \in path
  /\ Earlier(x, y)
  /\ \A z \in path : Earlier(x, z) => ~Earlier(z, y)

\* The launch of an admitted kernel.  Threadgroup memory is not initialized, and
\* the status buffer is new and zero.
Init ==
  /\ kernel \in {k \in Kernels : Admitted(k)}
  /\ value \in [Groups -> [Threads -> [Leaves -> BOOLEAN]]]
  /\ \A g \in Groups, l \in Uniform, s, t \in Threads : value[g][s][l] = value[g][t][l]
  /\ at = [g \in Groups |-> [t \in Threads |-> Start]]
  /\ pc = [g \in Groups |-> [t \in Threads |-> "init"]]
  /\ gflag \in [Groups -> BOOLEAN]
  /\ verdict = [g \in Groups |-> [t \in Threads |-> FALSE]]
  /\ status = 0
  /\ answer = None
  /\ failedAt = [g \in Groups |-> {}]

--------------------------------------------------------------------------------

At(g, t, step) == pc[g][t] = step
Goto(g, t, step) == pc' = [pc EXCEPT ![g][t] = step]

\* Thread t goes on to the check that follows, or returns after the last one.
Proceed(g, t) ==
  IF \E y \in Path(g, t) : IsNext(Path(g, t), at[g][t], y)
  THEN /\ Goto(g, t, "check")
       /\ \E y \in Path(g, t) :
            /\ IsNext(Path(g, t), at[g][t], y)
            /\ at' = [at EXCEPT ![g][t] = y]
  ELSE Goto(g, t, "returned") /\ UNCHANGED at

\* Mutant: thread 0 clears the flag and nobody waits for it.
ClearNoBarrier(g, t) ==
  /\ At(g, t, "init")
  /\ gflag' = IF t = Leader THEN [gflag EXCEPT ![g] = FALSE] ELSE gflag
  /\ Proceed(g, t)
  /\ UNCHANGED <<launch, verdict, status, answer, failedAt>>

\* Thread 0 clears the group's flag; the first barrier follows.
Clear(g, t) ==
  /\ At(g, t, "init")
  /\ gflag' = IF t = Leader THEN [gflag EXCEPT ![g] = FALSE] ELSE gflag
  /\ Goto(g, t, "arrive")
  /\ UNCHANGED <<launch, at, verdict, status, answer, failedAt>>

\* The predicate of the check is evaluated; a failing lane raises the flag ...
Check(g, t) ==
  /\ At(g, t, "check")
  /\ \/ Goto(g, t, "rendezvous") /\ UNCHANGED <<gflag, failedAt>>
     \/ /\ Goto(g, t, "record")
        /\ gflag' = [gflag EXCEPT ![g] = TRUE]
        /\ failedAt' = [failedAt EXCEPT ![g] = @ \cup {at[g][t]}]
  /\ UNCHANGED <<launch, at, verdict, status, answer>>

\* Mutant: the code is one too high.
RecordNext(g, t) ==
  /\ At(g, t, "record")
  /\ status' = IF at[g][t][1] + 1 > status THEN at[g][t][1] + 1 ELSE status
  /\ Goto(g, t, "rendezvous")
  /\ UNCHANGED <<launch, at, gflag, verdict, answer, failedAt>>

\* Mutant: the code is stored, not merged.
RecordStore(g, t) ==
  /\ At(g, t, "record")
  /\ status' = at[g][t][1]
  /\ Goto(g, t, "rendezvous")
  /\ UNCHANGED <<launch, at, gflag, verdict, answer, failedAt>>

\* ... and merges the code of the check, its place in the source, into the status.
Record(g, t) ==
  /\ At(g, t, "record")
  /\ status' = IF at[g][t][1] > status THEN at[g][t][1] ELSE status
  /\ Goto(g, t, "rendezvous")
  /\ UNCHANGED <<launch, at, gflag, verdict, answer, failedAt>>

\* Mutant: only one barrier, before the flag is sampled.
SampleAndTest(g, t) ==
  /\ At(g, t, "sample")
  /\ verdict' = [verdict EXCEPT ![g][t] = gflag[g]]
  /\ Goto(g, t, "test")
  /\ UNCHANGED <<launch, at, gflag, status, answer, failedAt>>

\* After the barrier the flag is sampled; a second barrier follows.
Sample(g, t) ==
  /\ At(g, t, "sample")
  /\ verdict' = [verdict EXCEPT ![g][t] = gflag[g]]
  /\ Goto(g, t, "hold")
  /\ UNCHANGED <<launch, at, gflag, status, answer, failedAt>>

Test(g, t) ==
  /\ At(g, t, "test")
  /\ Goto(g, t, IF verdict[g][t] THEN "returned" ELSE "access")
  /\ UNCHANGED <<launch, at, gflag, verdict, status, answer, failedAt>>

\* The loads, stores and atomics that the check guards, up to the next check.
Access(g, t) ==
  /\ At(g, t, "access")
  /\ Proceed(g, t)
  /\ UNCHANGED <<launch, gflag, verdict, status, answer, failedAt>>

\* threadgroup_barrier: every thread of the group is at the same one.
Barrier(g) ==
  /\ \E b \in {"arrive", "rendezvous", "hold"} : \A t \in Threads : At(g, t, b)
  /\ \A s, t \in Threads : at[g][s] = at[g][t]
  /\ pc' = [pc EXCEPT ![g] = [t \in Threads |->
       CASE At(g, t, "arrive")     -> "access"
         [] At(g, t, "rendezvous") -> "sample"
         [] OTHER                  -> "test"]]
  /\ UNCHANGED <<launch, at, gflag, verdict, status, answer, failedAt>>

Step(g, t) ==
  \/ Clear(g, t) \/ Check(g, t) \/ Record(g, t) \/ Sample(g, t) \/ Test(g, t) \/ Access(g, t)

Ended == \A g \in Groups, t \in Threads : At(g, t, "returned")

\* The host waits for the launch and reads the status back; check_failure raises
\* the message of a code above zero, and with zero the results are delivered.
ReadStatus ==
  /\ Ended
  /\ answer = None
  /\ answer' = status
  /\ UNCHANGED <<launch, at, pc, gflag, verdict, status, failedAt>>

Next ==
  \/ \E g \in Groups : Barrier(g) \/ \E t \in Threads : Step(g, t)
  \/ ReadStatus

Spec == Init /\ [][Next]_vars

\* Threads of a resident threadgroup all make progress between barriers, and a
\* barrier that all have reached lets them pass.
Fairness ==
  /\ \A g \in Groups : WF_vars(Barrier(g)) /\ \A t \in Threads : WF_vars(Step(g, t))
  /\ WF_vars(ReadStatus)

LiveSpec == Spec /\ Fairness

--------------------------------------------------------------------------------

TypeOK ==
  /\ kernel \in Kernels
  /\ value \in [Groups -> [Threads -> [Leaves -> BOOLEAN]]]
  /\ at \in [Groups -> [Threads -> Positions \cup {Start}]]
  /\ pc \in [Groups -> [Threads -> Steps]]
  /\ gflag \in [Groups -> BOOLEAN]
  /\ verdict \in [Groups -> [Threads -> BOOLEAN]]
  /\ status \in 0 .. Len(kernel)
  /\ answer \in (0 .. Len(kernel)) \cup {None}
  /\ failedAt \in [Groups -> SUBSET Positions]

\* No thread returns while another thread of its group waits, or will have to
\* wait, at a barrier: an early return never crosses one, however fast or slow
\* the threads are (the module comment of assertions.py).
NoDivergence ==
  \A g \in Groups : \A s, t \in Threads :
    At(g, s, "returned") => pc[g][t] \in {"test", "access", "returned"}

\* No guarded access runs in a threadgroup after a check of it that any of its
\* threads failed (docs/DEVICE_ASSERTIONS.md).
NoGuardedAccess ==
  \A g \in Groups : \A t \in Threads : \A x \in failedAt[g] :
    At(g, t, "access") => Earlier(at[g][t], x)

\* The host reports the failing check that comes last in the source, and
\* delivers results only if no thread of any group failed a check.
ReportsLastFailure ==
  answer # None =>
    /\ \A g \in Groups : \A x \in failedAt[g] : x[1] <= answer
    /\ answer # 0 => \E g \in Groups : \E x \in failedAt[g] : x[1] = answer

\* Every launch of an admitted kernel comes to its end.
LaunchEnds == <>(answer # None)
================================================================================

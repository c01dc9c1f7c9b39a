------------------------------ MODULE KernelCache ------------------------------
(***************************************************************************)
(* From a call of a JIT function to a validated launch: the pre-run hook   *)
(* that drops a function's resident kernels when compilation policy has    *)
(* changed, Triton's own caches, the stages of one compile with the source *)
(* cache of make_msl, the stash that the zero-copy route reads the MSL     *)
(* from, the execution contract stamped on the product, and the checks of  *)
(* that stamp by the launcher (backend/compiler.py, _cache_contract.py,    *)
(* driver.py).                                                             *)
(*                                                                         *)
(* Policy belongs to a process and may change between any two steps of the *)
(* calls in it, to any value; the cache directory belongs to all           *)
(* processes.  The checks of the stamp compare policies at points and      *)
(* cannot see one that went away and came back in between, so what they    *)
(* promise depends on the moments at which policy has changed: "undercut"  *)
(* remembers the kinds that have occurred (docs/CACHE_CONTRACTS.md asks    *)
(* that policy not be mutated concurrently with a compile or launch).      *)
(*                                                                         *)
(* Digests are collision free: a key is what is hashed into it, and the    *)
(* digest of a content is the content.                                     *)
(***************************************************************************)
EXTENDS Naturals

CONSTANTS
  Procs,     \* processes
  Callers,   \* threads
  Proc,      \* Proc[c]: the process of thread c
  Sources,   \* JIT functions, one specialization each
  Policies,  \* values of execution_contract()
  MaxNoise,  \* bound: environment events in a behaviour
  None,
  Garbage    \* a text that no compile emitted

ASSUME ProcAssumption ==
  /\ Proc \in [Callers -> Procs]
  /\ MaxNoise \in Nat

\* source_key binds the source, its options and the policy of the moment.
Keys == [source : Sources, policy : Policies]

\* What codegen emits depends on the source and on the policy it reads.
Codes == [source : Sources, policy : Policies]
Texts == Codes \cup {Garbage}

ASSUME NoneAssumption ==
  None \notin Texts \cup Policies \cup Sources

\* metadata_record of the source cache, and the envelope of a stash entry, which
\* carries the text it certifies.
Records == [key : Keys, contract : Policies, sha : Texts]

\* A compiled kernel: its binary, the stamp, the key of its MSL and, once its
\* launcher has been constructed (ready), the MSL that was found for it.
Handles == [bin : Texts, stamp : Policies, hash : Keys, msl : Texts \cup {None}, ready : BOOLEAN]

ASSUME ProductAssumption == None \notin Keys \cup Records \cup Handles

VARIABLES
  policy,    \* policy[p]: the contract that process p would compute now
  src,       \* src[k]: the .msl file of key k, or None
  rec,       \* rec[k]: its .meta.json, or None
  stash,     \* stash[k]: the .mslstash file, or None
  outer,     \* outer[k]: product in Triton's persistent cache, or None
  mem,       \* mem[p][k]: _MSL_BY_KEY, or None
  resident,  \* resident[p][s]: the kernel in the function's device cache, or None
  guard,     \* guard[p][s]: stamp of the function's _JitPolicyGuard, or None
  pc,        \* pc[c]: next step of c's call
  source,    \* source[c]: the function it calls, or None
  warm,      \* warm[c]: it is a warmup, which compiles and does not launch
  orphan,    \* orphan[c]: the device cache c looked into has been cleared since
  outerKey,  \* outerKey[c]: the key of its lookup in Triton's cache, or None
  seen,      \* seen[c]: the contract it has computed and keeps, or None
  key,       \* key[c]: cache_key, or None
  text,      \* text[c]: msl_src, or None
  record,    \* record[c]: the record it is about to publish, or has just read, or None
  handle,    \* handle[c]: the kernel it is launching, or None
  outcome,   \* outcome[c]: how its last call ended, or None
  ran,       \* ran[c]: what it launched last, under which policy (history), or None
  noise,     \* environment events so far
  undercut   \* the kinds of changes of policy under calls so far (history)

disk == <<src, rec, stash, outer>>
process == <<policy, mem, resident, guard>>
locals == <<source, warm, orphan, outerKey, seen, key, text, record, handle>>
history == <<outcome, ran>>
env == <<noise, undercut>>
vars == <<disk, process, pc, locals, history, env>>

Steps == {"idle", "hook", "compare", "lookup", "outer", "stages", "key", "readsource",
          "readrecord", "emit", "record", "putsource", "putrecord", "stash", "check",
          "build", "seal", "insert", "construct", "recall", "memory", "file",
          "call"}

\* Policy has changed in a process that has calls under way; to a value that one of
\* them has recorded; while a launcher was between its stamp and its MSL.
Kinds == {"changed", "restored", "resolving"}

Outcomes == {"launched", "warmed", "stale", "raised"}

ASSUME OutcomeAssumption == None \notin Outcomes

Init ==
  /\ policy \in [Procs -> Policies]
  /\ src = [k \in Keys |-> None]
  /\ rec = [k \in Keys |-> None]
  /\ stash = [k \in Keys |-> None]
  /\ outer = [k \in Keys |-> None]
  /\ mem = [p \in Procs |-> [k \in Keys |-> None]]
  /\ resident = [p \in Procs |-> [s \in Sources |-> None]]
  /\ guard = [p \in Procs |-> [s \in Sources |-> None]]
  /\ pc = [c \in Callers |-> "idle"]
  /\ source = [c \in Callers |-> None]
  /\ warm = [c \in Callers |-> FALSE]
  /\ orphan = [c \in Callers |-> FALSE]
  /\ outerKey = [c \in Callers |-> None]
  /\ seen = [c \in Callers |-> None]
  /\ key = [c \in Callers |-> None]
  /\ text = [c \in Callers |-> None]
  /\ record = [c \in Callers |-> None]
  /\ handle = [c \in Callers |-> None]
  /\ outcome = [c \in Callers |-> None]
  /\ ran = [c \in Callers |-> None]
  /\ noise = 0
  /\ undercut = {}

--------------------------------------------------------------------------------

At(c, step) == pc[c] = step
Goto(c, step) == pc' = [pc EXCEPT ![c] = step]

\* The contract that c's process would compute now.
Now(c) == policy[Proc[c]]

\* What c's call holds is dropped.
Drop(c) ==
  /\ source' = [source EXCEPT ![c] = None]
  /\ warm' = [warm EXCEPT ![c] = FALSE]
  /\ orphan' = [orphan EXCEPT ![c] = FALSE]
  /\ outerKey' = [outerKey EXCEPT ![c] = None]
  /\ seen' = [seen EXCEPT ![c] = None]
  /\ key' = [key EXCEPT ![c] = None]
  /\ text' = [text EXCEPT ![c] = None]
  /\ record' = [record EXCEPT ![c] = None]
  /\ handle' = [handle EXCEPT ![c] = None]

Finish(c, o) ==
  /\ Goto(c, "idle")
  /\ outcome' = [outcome EXCEPT ![c] = o]
  /\ Drop(c)

\* The call ends without a launch and leaves everything shared as it is.
Stop(c, o) == Finish(c, o) /\ UNCHANGED <<disk, process, ran, env>>

--------------------------------------------------------------------------------
\* Lookup of a resident kernel.

Start(c, s, w) ==
  /\ At(c, "idle")
  /\ Goto(c, "hook")
  /\ source' = [source EXCEPT ![c] = s]
  /\ warm' = [warm EXCEPT ![c] = w]
  /\ outcome' = [outcome EXCEPT ![c] = None]
  /\ ran' = [ran EXCEPT ![c] = None]
  /\ UNCHANGED <<disk, process, orphan, outerKey, seen, key, text, record, handle, env>>

\* The hook, if the function has one, evaluates the contract before it takes the lock.
Hook(c) ==
  /\ At(c, "hook")
  /\ IF guard[Proc[c]][source[c]] = None
     THEN Goto(c, "lookup") /\ UNCHANGED seen
     ELSE Goto(c, "compare") /\ seen' = [seen EXCEPT ![c] = Now(c)]
  /\ UNCHANGED <<disk, process, source, warm, orphan, outerKey, key, text, record, handle,
                 history, env>>

\* Calls that have looked into the cache of function s in process p.
Inside(p, s) ==
  {c \in Callers : Proc[c] = p /\ source[c] = s /\ pc[c] \notin {"idle", "hook", "compare", "lookup"}}

\* Mutant: the stamp moves on and the kernels stay.
CompareNoClear(c) ==
  LET p == Proc[c]
      s == source[c] IN
  /\ At(c, "compare")
  /\ guard' = [guard EXCEPT ![p][s] = seen[c]]
  /\ Goto(c, "lookup")
  /\ seen' = [seen EXCEPT ![c] = None]
  /\ UNCHANGED <<disk, policy, mem, resident, source, warm, orphan, outerKey, key, text, record,
                 handle, history, env>>

\* A stamp that differs: this function's device caches are cleared.
Compare(c) ==
  LET p == Proc[c]
      s == source[c] IN
  /\ At(c, "compare")
  /\ IF guard[p][s] = seen[c]
     THEN UNCHANGED <<resident, guard, orphan>>
     ELSE /\ resident' = [resident EXCEPT ![p][s] = None]
          /\ guard' = [guard EXCEPT ![p][s] = seen[c]]
          /\ orphan' = [d \in Callers |-> orphan[d] \/ d \in Inside(p, s)]
  /\ Goto(c, "lookup")
  /\ seen' = [seen EXCEPT ![c] = None]
  /\ UNCHANGED <<disk, policy, mem, source, warm, outerKey, key, text, record, handle,
                 history, env>>

\* The function's device cache, retrieved after the hook.
Lookup(c) ==
  LET h == resident[Proc[c]][source[c]] IN
  /\ At(c, "lookup")
  /\ \/ h # None /\ warm[c] /\ Stop(c, "warmed")
     \/ /\ h # None => ~warm[c]
        /\ Goto(c, IF h = None THEN "outer" ELSE IF h.ready THEN "call" ELSE "construct")
        /\ handle' = [handle EXCEPT ![c] = h]
        /\ UNCHANGED <<disk, process, source, warm, orphan, outerKey, seen, key, text, record,
                       history, env>>

\* Triton's persistent cache, keyed by hash(): a restored product keeps its stamp.
Outer(c) ==
  LET k == [source |-> source[c], policy |-> Now(c)] IN
  /\ At(c, "outer")
  /\ outerKey' = [outerKey EXCEPT ![c] = k]
  /\ handle' = [handle EXCEPT ![c] = outer[k]]
  /\ Goto(c, IF outer[k] = None THEN "stages" ELSE "insert")
  /\ UNCHANGED <<disk, process, source, warm, orphan, seen, key, text, record, history, env>>

--------------------------------------------------------------------------------
\* The stages of a compile.

\* add_stages captures the producer contract.
Stages(c) ==
  /\ At(c, "stages")
  /\ seen' = [seen EXCEPT ![c] = Now(c)]
  /\ Goto(c, "key")
  /\ UNCHANGED <<disk, process, source, warm, orphan, outerKey, key, text, record, handle,
                 history, env>>

\* make_msl computes its key from the policy of this moment.
Key(c) ==
  /\ At(c, "key")
  /\ key' = [key EXCEPT ![c] = [source |-> source[c], policy |-> Now(c)]]
  /\ Goto(c, "readsource")
  /\ UNCHANGED <<disk, process, source, warm, orphan, outerKey, seen, text, record, handle,
                 history, env>>

ReadSource(c) ==
  /\ At(c, "readsource")
  /\ text' = [text EXCEPT ![c] = src[key[c]]]
  /\ Goto(c, IF src[key[c]] = None THEN "emit" ELSE "readrecord")
  /\ UNCHANGED <<disk, process, source, warm, orphan, outerKey, seen, key, record, handle,
                 history, env>>

\* Mutant: the contract in the record is not compared with the current one.
DecodesAnyPolicy(r, t, k, now) == r # None /\ r.key = k /\ r.sha = t

\* decode_metadata: record r certifies text t under key k, to a reader whose
\* contract is now.
Decodes(r, t, k, now) == r # None /\ r.key = k /\ r.contract = now /\ r.sha = t

ReadRecord(c) ==
  LET hit == Decodes(rec[key[c]], text[c], key[c], Now(c)) IN
  /\ At(c, "readrecord")
  /\ Goto(c, IF hit THEN "stash" ELSE "emit")
  /\ text' = IF hit THEN text ELSE [text EXCEPT ![c] = None]
  /\ UNCHANGED <<disk, process, source, warm, orphan, outerKey, seen, key, record, handle,
                 history, env>>

\* Mutant: a failed emission is swallowed.
EmitSwallowed(c) ==
  /\ At(c, "emit")
  /\ \E t \in {None, [source |-> source[c], policy |-> Now(c)]} :
       text' = [text EXCEPT ![c] = t]
  /\ Goto(c, "record")
  /\ UNCHANGED <<disk, process, source, warm, orphan, outerKey, seen, key, record, handle,
                 history, env>>

\* emit_msl reads the environment itself.
Emit(c) ==
  /\ At(c, "emit")
  /\ \/ /\ text' = [text EXCEPT ![c] = [source |-> source[c], policy |-> Now(c)]]
        /\ Goto(c, "record")
        /\ UNCHANGED <<disk, process, source, warm, orphan, outerKey, seen, key, record, handle,
                       history, env>>
     \/ Stop(c, "raised")

\* Mutant: the record repeats the contract of the key.
ContractOfKey(c) == key[c].policy

\* metadata_record evaluates the contract again.
ContractOfRecord(c) == Now(c)

\* The whole record is prepared before either file is replaced; publication is
\* best effort, so any of its steps may be the last.
MakeRecord(c) ==
  /\ At(c, "record")
  /\ record' = [record EXCEPT ![c] =
       [key |-> key[c], contract |-> ContractOfRecord(c), sha |-> text[c]]]
  /\ Goto(c, "putsource")
  /\ UNCHANGED <<disk, process, source, warm, orphan, outerKey, seen, key, text, handle,
                 history, env>>

PutSource(c) ==
  /\ At(c, "putsource")
  /\ \/ src' = [src EXCEPT ![key[c]] = text[c]] /\ Goto(c, "putrecord")
     \/ UNCHANGED src /\ Goto(c, "stash")
  /\ UNCHANGED <<rec, stash, outer, process, locals, history, env>>

PutRecord(c) ==
  /\ At(c, "putrecord")
  /\ rec' = [rec EXCEPT ![key[c]] = record[c]] \/ UNCHANGED rec
  /\ Goto(c, "stash")
  /\ UNCHANGED <<src, stash, outer, process, locals, history, env>>

\* _stash_msl: memory first; the file is optional.
Stash(c) ==
  LET r == [key |-> key[c], contract |-> Now(c), sha |-> text[c]] IN
  /\ At(c, "stash")
  /\ mem' = [mem EXCEPT ![Proc[c]][key[c]] = r]
  /\ stash' = [stash EXCEPT ![key[c]] = r] \/ UNCHANGED stash
  /\ Goto(c, "check")
  /\ UNCHANGED <<src, rec, outer, policy, resident, guard, locals, history, env>>

\* The contract is validated before the final stage ...
Check(c) ==
  /\ At(c, "check")
  /\ IF Now(c) = seen[c]
     THEN Goto(c, "build") /\ UNCHANGED <<disk, process, locals, history, env>>
     ELSE Stop(c, "raised")

\* ... which returns the binary of the text (MetallibCache) ...
Build(c) ==
  /\ At(c, "build")
  /\ \/ Goto(c, "seal") /\ UNCHANGED <<disk, process, locals, history, env>>
     \/ Stop(c, "raised")

\* ... and validated after it.  Only then is the product stamped.
Seal(c) ==
  LET h == [bin |-> text[c], stamp |-> seen[c], hash |-> key[c], msl |-> None, ready |-> FALSE] IN
  /\ At(c, "seal")
  /\ IF Now(c) = seen[c]
     THEN /\ handle' = [handle EXCEPT ![c] = h]
          /\ outer' = [outer EXCEPT ![outerKey[c]] = h]
          /\ Goto(c, "insert")
          /\ UNCHANGED <<src, rec, stash, process, source, warm, orphan, outerKey, seen, key,
                         text, record, history, env>>
     ELSE Stop(c, "raised")

\* The kernel enters the device cache that was retrieved at the lookup.
Insert(c) ==
  LET p == Proc[c]
      s == source[c] IN
  /\ At(c, "insert")
  /\ resident' = IF orphan[c] THEN resident ELSE [resident EXCEPT ![p][s] = handle[c]]
  /\ IF warm[c]
     THEN Finish(c, "warmed") /\ UNCHANGED ran
     ELSE Goto(c, "construct") /\ UNCHANGED <<locals, history>>
  /\ UNCHANGED <<disk, policy, mem, guard, env>>

--------------------------------------------------------------------------------
\* The launcher.

\* MetalLauncher.__init__: the stamp is validated and the hook is installed unless
\* the function has one.
Construct(c) ==
  LET p == Proc[c]
      s == source[c]
      h == handle[c] IN
  /\ At(c, "construct")
  /\ IF Now(c) # h.stamp
     THEN Stop(c, "stale")
     ELSE /\ guard' = IF guard[p][s] = None THEN [guard EXCEPT ![p][s] = h.stamp] ELSE guard
          /\ Goto(c, "recall")
          /\ UNCHANGED <<disk, policy, mem, resident, locals, history, env>>

\* _load_stashed_msl takes the envelope in memory, or reads the file.
Recall(c) ==
  LET k == handle[c].hash
      m == mem[Proc[c]][k] IN
  /\ At(c, "recall")
  /\ record' = [record EXCEPT ![c] = IF m = None THEN stash[k] ELSE m]
  /\ Goto(c, IF m = None THEN "file" ELSE "memory")
  /\ UNCHANGED <<disk, process, source, warm, orphan, outerKey, seen, key, text, handle, history, env>>

\* The launcher is done, with MSL t or without: it replaces any other launcher of
\* that kernel.
Resolved(c, t) ==
  LET p == Proc[c]
      s == source[c]
      h == handle[c]
      r == resident[p][s]
      new == [h EXCEPT !.msl = t, !.ready = TRUE] IN
  /\ handle' = [handle EXCEPT ![c] = new]
  /\ resident' = IF r # None /\ [r EXCEPT !.msl = None, !.ready = FALSE] = h
                 THEN [resident EXCEPT ![p][s] = new] ELSE resident
  /\ record' = [record EXCEPT ![c] = None]
  /\ Goto(c, "call")
  /\ UNCHANGED <<disk, policy, guard, source, warm, orphan, outerKey, seen, key, text, history, env>>

\* The envelope from memory is decoded under the policy of this moment; one that
\* does not decode is forgotten, and the file is read.
FromMemory(c) ==
  LET k == handle[c].hash
      m == record[c] IN
  /\ At(c, "memory")
  /\ IF m # None /\ Decodes(m, m.sha, k, Now(c))
     THEN Resolved(c, m.sha) /\ UNCHANGED mem
     ELSE /\ mem' = [mem EXCEPT ![Proc[c]][k] = None]
          /\ record' = [record EXCEPT ![c] = stash[k]]
          /\ Goto(c, "file")
          /\ UNCHANGED <<disk, policy, resident, guard, source, warm, orphan, outerKey, seen, key, text,
                         handle, history, env>>

\* So is the file's; one that decodes is remembered.
FromFile(c) ==
  LET k == handle[c].hash
      f == record[c]
      hit == f # None /\ Decodes(f, f.sha, k, Now(c)) IN
  /\ At(c, "file")
  /\ Resolved(c, IF hit THEN f.sha ELSE None)
  /\ mem' = IF hit THEN [mem EXCEPT ![Proc[c]][k] = f] ELSE mem

\* The mutant: a launch trusts the stamp its constructor validated.
CallUnchecked(c) ==
  LET h == handle[c] IN
  /\ At(c, "call")
  /\ \E code \in {h.bin, h.msl} \ {None} :
       ran' = [ran EXCEPT ![c] = [code |-> code, source |-> source[c], policy |-> Now(c)]]
  /\ Finish(c, "launched")
  /\ UNCHANGED <<disk, process, env>>

\* MetalLauncher.__call__ validates the stamp and runs the MSL or the binary.
Call(c) ==
  LET h == handle[c] IN
  /\ At(c, "call")
  /\ IF Now(c) # h.stamp
     THEN Stop(c, "stale")
     ELSE /\ \E code \in {h.bin, h.msl} \ {None} :
               ran' = [ran EXCEPT ![c] =
                 [code |-> code, source |-> source[c], policy |-> Now(c)]]
          /\ Finish(c, "launched")
          /\ UNCHANGED <<disk, process, env>>

Step(c) ==
  \/ Hook(c) \/ Compare(c) \/ Lookup(c) \/ Outer(c) \/ Stages(c) \/ Key(c) \/ ReadSource(c)
  \/ ReadRecord(c) \/ Emit(c) \/ MakeRecord(c) \/ PutSource(c) \/ PutRecord(c) \/ Stash(c)
  \/ Check(c) \/ Build(c) \/ Seal(c) \/ Insert(c) \/ Construct(c)
  \/ Recall(c) \/ FromMemory(c) \/ FromFile(c) \/ Call(c)

--------------------------------------------------------------------------------
\* The environment.

Noise == noise < MaxNoise /\ noise' = noise + 1

Calls(p) == {c \in Callers : Proc[c] = p /\ ~At(c, "idle")}

\* Policies that calls under way in p have recorded.
Recorded(p) == {seen[c] : c \in Calls(p)} \cup {key[c].policy : c \in {d \in Calls(p) : key[d] # None}}

\* What a change of p's policy to new comes in the middle of.
Undercuts(p, new) ==
  {kind \in Kinds :
     CASE kind = "changed"   -> Calls(p) # {}
       [] kind = "restored"  -> new \in Recorded(p)
       [] kind = "resolving" -> \E c \in Calls(p) : pc[c] \in {"recall", "memory", "file"}}

\* An environment variable that codegen reads is set in process p.
ChangePolicy(p) ==
  /\ Noise
  /\ \E new \in Policies \ {policy[p]} :
       /\ policy' = [policy EXCEPT ![p] = new]
       /\ undercut' = undercut \cup Undercuts(p, new)
  /\ UNCHANGED <<disk, mem, resident, guard, pc, locals, history>>

\* A file of the cache directory is deleted, damaged or put in another's place.
Damage(k) ==
  /\ Noise
  /\ \/ /\ \E t \in Texts \cup {None} : src' = [src EXCEPT ![k] = t]
        /\ UNCHANGED <<rec, stash, outer>>
     \/ /\ \E r \in {rec[j] : j \in Keys} \cup {None} : rec' = [rec EXCEPT ![k] = r]
        /\ UNCHANGED <<src, stash, outer>>
     \/ /\ \E r \in {stash[j] : j \in Keys} \cup {None} : stash' = [stash EXCEPT ![k] = r]
        /\ UNCHANGED <<src, rec, outer>>
     \/ /\ outer' = [outer EXCEPT ![k] = None]
        /\ UNCHANGED <<src, rec, stash>>
  /\ UNCHANGED <<process, pc, locals, history, undercut>>

\* Process p ends and starts again under some policy.
Restart(p) ==
  /\ Noise
  /\ \E new \in Policies : policy' = [policy EXCEPT ![p] = new]
  /\ mem' = [mem EXCEPT ![p] = [k \in Keys |-> None]]
  /\ resident' = [resident EXCEPT ![p] = [s \in Sources |-> None]]
  /\ guard' = [guard EXCEPT ![p] = [s \in Sources |-> None]]
  /\ pc' = [c \in Callers |-> IF Proc[c] = p THEN "idle" ELSE pc[c]]
  /\ source' = [c \in Callers |-> IF Proc[c] = p THEN None ELSE source[c]]
  /\ warm' = [c \in Callers |-> warm[c] /\ Proc[c] # p]
  /\ orphan' = [c \in Callers |-> orphan[c] /\ Proc[c] # p]
  /\ outerKey' = [c \in Callers |-> IF Proc[c] = p THEN None ELSE outerKey[c]]
  /\ seen' = [c \in Callers |-> IF Proc[c] = p THEN None ELSE seen[c]]
  /\ key' = [c \in Callers |-> IF Proc[c] = p THEN None ELSE key[c]]
  /\ text' = [c \in Callers |-> IF Proc[c] = p THEN None ELSE text[c]]
  /\ record' = [c \in Callers |-> IF Proc[c] = p THEN None ELSE record[c]]
  /\ handle' = [c \in Callers |-> IF Proc[c] = p THEN None ELSE handle[c]]
  /\ outcome' = [c \in Callers |-> IF Proc[c] = p THEN None ELSE outcome[c]]
  /\ ran' = [c \in Callers |-> IF Proc[c] = p THEN None ELSE ran[c]]
  /\ UNCHANGED <<disk, undercut>>

Environment ==
  \/ \E p \in Procs : ChangePolicy(p) \/ Restart(p)
  \/ \E k \in Keys : Damage(k)

Next ==
  \/ \E c \in Callers : Step(c) \/ \E s \in Sources, w \in BOOLEAN : Start(c, s, w)
  \/ Environment

Spec == Init /\ [][Next]_vars

--------------------------------------------------------------------------------

TypeOK ==
  /\ policy \in [Procs -> Policies]
  /\ src \in [Keys -> Texts \cup {None}]
  /\ rec \in [Keys -> Records \cup {None}]
  /\ stash \in [Keys -> Records \cup {None}]
  /\ outer \in [Keys -> Handles \cup {None}]
  /\ mem \in [Procs -> [Keys -> Records \cup {None}]]
  /\ resident \in [Procs -> [Sources -> Handles \cup {None}]]
  /\ guard \in [Procs -> [Sources -> Policies \cup {None}]]
  /\ pc \in [Callers -> Steps]
  /\ source \in [Callers -> Sources \cup {None}]
  /\ warm \in [Callers -> BOOLEAN]
  /\ orphan \in [Callers -> BOOLEAN]
  /\ outerKey \in [Callers -> Keys \cup {None}]
  /\ seen \in [Callers -> Policies \cup {None}]
  /\ key \in [Callers -> Keys \cup {None}]
  /\ text \in [Callers -> Texts \cup {None}]
  /\ record \in [Callers -> Records \cup {None}]
  /\ handle \in [Callers -> Handles \cup {None}]
  /\ outcome \in [Callers -> Outcomes \cup {None}]
  /\ ran \in [Callers -> [code : Texts, source : Sources, policy : Policies] \cup {None}]
  /\ noise \in 0 .. MaxNoise
  /\ undercut \subseteq Kinds

\* A record that a reader under the policy of its key would accept certifies what
\* codegen emits for that key, whatever the policy was while it was written.
Honest(r, k) ==
  r # None /\ r.key = k /\ r.contract = k.policy =>
    r.sha = [source |-> k.source, policy |-> k.policy]

NeverRestored == "restored" \notin undercut
Undisturbed == NeverRestored /\ "resolving" \notin undercut

\* As long as no policy that a compile under way has recorded has come back, source
\* records, stash files and stash memory are honest (metadata_record,
\* decode_metadata: the record binds the key and, separately, the contract).
CertifiesEmission ==
  NeverRestored =>
    \A k \in Keys :
      /\ Honest(rec[k], k)
      /\ Honest(stash[k], k)
      /\ \A p \in Procs : Honest(mem[p][k], k)

\* As long as, moreover, policy has not changed between the stamp that a launcher
\* validated (driver.py:686) and the envelope it took its MSL from (driver.py:725), a
\* launch runs what codegen emits for its function under the policy in force when
\* it was admitted, through the MSL as through the binary, on whichever path of
\* caches, restarts and policy changes the kernel has come.
LaunchesOwnCode ==
  Undisturbed =>
    \A c \in Callers : ran[c] # None =>
      ran[c].code = [source |-> ran[c].source, policy |-> ran[c].policy]

\* As long as policy has not changed under calls, a function that has the hook
\* never refuses as stale: it recompiles (install_jit_policy_guard).
GuardedRecompiles ==
  [][undercut' = {} => \A c \in Callers :
       outcome'[c] = "stale" /\ outcome[c] # "stale" => guard[Proc[c]][source[c]] = None]_vars
================================================================================

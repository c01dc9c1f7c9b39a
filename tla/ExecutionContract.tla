--------------------------- MODULE ExecutionContract ---------------------------
(***************************************************************************)
(* One evaluation of execution_contract() by a thread of a process, while  *)
(* the environment, the import selection, the policy provider and the      *)
(* loaded native images change under it: the saved-identity fast path      *)
(* (_identity_fast_path.py), framework discovery and the guard of loaded   *)
(* images (_framework_contract.py, _native_generation.py), the snapshot of *)
(* the environment, the toolchain identity, and the stamp they make        *)
(* (_cache_contract.py).  KernelCache takes such an evaluation for one     *)
(* read of a policy; this module is what happens inside it.                *)
(*                                                                         *)
(* A digest is what was hashed into it.  Objects compared by identity are  *)
(* told apart by what makes them new: a copy of the environment by the     *)
(* number of the edit it follows, a guard by the generation it checked.    *)
(* The first toolchain query asks xcrun under the live environment; that   *)
(* selection is not changed away and back between the query and the check  *)
(* that follows it, which compares the two ends only.  An inventory of the *)
(* loaded images compares the two ends only, too: when the list has gone   *)
(* away and come back, it publishes a digest of one list under a guard of  *)
(* another.  That is modelled, and "reverted" remembers that it may have   *)
(* happened.                                                               *)
(***************************************************************************)
EXTENDS Naturals

CONSTANTS
  Callers,     \* threads
  Envs,        \* environments: [policy, tool, external, off]
  ImageLists,  \* what dyld may have loaded, in order
  Selections,  \* what the import system may select
  Override,    \* the policy of a replaced effective_policy()
  MaxNoise,    \* bound: events around the calls
  None

Policies == {e.policy : e \in Envs} \cup {Override}
Tools == {e.tool : e \in Envs}
Digests == [sel : Selections, images : ImageLists]
Stamps == [frameworks : Digests, policy : Policies, tool : Tools]
Copies == [env : Envs, made : 0..MaxNoise]
Guards == [names : ImageLists, generation : 0..MaxNoise]
ToolSnapshots == [sel : Tools, digest : Tools]
\* _record: nine fields after build, twelve after finalize.
Partial == [full : {FALSE}, digest : Digests, guard : Guards, sel : Selections]
Whole == [full : {TRUE}, digest : Digests, guard : Guards, sel : Selections, copy : Copies, toolchain : ToolSnapshots, stamp : Stamps]

ASSUME ContractAssumption ==
  /\ Envs \subseteq [policy : {e.policy : e \in Envs}, tool : Tools, external : BOOLEAN, off : BOOLEAN]
  /\ Override \notin {e.policy : e \in Envs}
  /\ MaxNoise \in Nat
  /\ None \notin Stamps \cup Digests \cup Copies \cup Guards \cup ToolSnapshots \cup Partial \cup Whole
  /\ None \notin Callers \cup Policies \cup Tools \cup Selections \cup ImageLists

VARIABLES
  env,         \* os.environ
  edits,       \* how often it has been edited
  images,      \* the images dyld has loaded
  generation,  \* infoArrayChangeTimestamp
  loading,     \* infoArray is NULL: dyld is changing its list
  selection,   \* what _discover_selection would find
  standard,    \* effective_policy is the module's own
  lock,        \* who holds _framework_contract._lock, or None
  snapshot,    \* _framework_contract._snapshot, or None
  guard,       \* _native_guard, or None
  cached,      \* _environment_snapshot._cached, or None
  toolchain,   \* _toolchain_contract._snapshot, or None
  saved,       \* _execution_snapshot, or None
  record,      \* _record, or None
  pc,          \* pc[c]: next step of c's evaluation
  own,         \* own[c]: the local variables of that evaluation
  answer,      \* answer[c]: the stamp it returned last, or None
  inForce,     \* inForce[c]: what has been in force since the call began (history)
  reverted,    \* a list has come back after the guard has scanned another (history)
  noise        \* events so far

world == <<env, edits, images, generation, loading, selection, standard>>
globals == <<snapshot, guard, cached, toolchain, saved, record>>
vars == <<world, lock, globals, pc, own, answer, inForce, reverted, noise>>

Blank == [taken |-> None, found |-> None, generation |-> 0, loaded |-> None, kept |-> None, frameworks |-> None,
          copy |-> None, policy |-> None, shared |-> FALSE, resolved |-> None, tool |-> None, stamp |-> None]

\* What the world would contribute to a stamp now.
Now == [images |-> {images}, standard |-> {standard}, policy |-> {env.policy}, tool |-> {env.tool}, sel |-> {selection}]

Init ==
  /\ env \in Envs /\ edits = 0
  /\ images \in ImageLists /\ generation = 0 /\ loading = FALSE
  /\ selection \in Selections /\ standard = TRUE
  /\ lock = None
  /\ snapshot = None /\ guard = None /\ cached = None /\ toolchain = None /\ saved = None /\ record = None
  /\ pc = [c \in Callers |-> "idle"]
  /\ own = [c \in Callers |-> Blank]
  /\ answer = [c \in Callers |-> None]
  /\ inForce = [c \in Callers |-> Now]
  /\ reverted = FALSE
  /\ noise = 0

--------------------------------------------------------------------------------

At(c, step) == pc[c] = step
Goto(c, step) == pc' = [pc EXCEPT ![c] = step]
Set(c, with) == own' = [own EXCEPT ![c] = with]
Acquire(c) == lock = None /\ lock' = c
Release == lock' = None

\* The call ends with stamp s, or with an exception.
Finish(c, s) ==
  /\ Goto(c, "idle")
  /\ answer' = [answer EXCEPT ![c] = s]
  /\ Set(c, Blank)
Calm == UNCHANGED <<world, inForce, reverted, noise>>
Quiet == Calm /\ UNCHANGED answer

Call(c) ==
  /\ At(c, "idle")
  /\ Goto(c, "check")
  /\ answer' = [answer EXCEPT ![c] = None]
  /\ inForce' = [inForce EXCEPT ![c] = Now]
  /\ UNCHANGED <<world, lock, globals, own, reverted, noise>>

--------------------------------------------------------------------------------
\* The saved-identity fast path.

\* check(): without the switch and a whole record this is a miss.
Check(c) ==
  /\ At(c, "check")
  /\ IF ~env.off /\ record # None /\ record.full
     THEN Goto(c, "hold") /\ Set(c, [own[c] EXCEPT !.taken = record]) /\ UNCHANGED record
     ELSE /\ Goto(c, "discover")
          /\ record' = IF env.off THEN record ELSE None
          /\ UNCHANGED own
  /\ Quiet /\ UNCHANGED <<lock, snapshot, guard, cached, toolchain, saved>>

Hold(c) ==
  /\ At(c, "hold") /\ Acquire(c)
  /\ Goto(c, "probe")
  /\ Quiet /\ UNCHANGED <<globals, own>>

\* A recorded identity has changed: the record is dropped, the complete evaluation runs.
Miss(c) ==
  /\ Release /\ record' = None
  /\ Goto(c, "discover") /\ Set(c, Blank)
  /\ Quiet /\ UNCHANGED <<snapshot, guard, cached, toolchain, saved>>
Refuse(c) ==
  /\ Release /\ record' = None
  /\ Finish(c, None)
  /\ Calm /\ UNCHANGED <<snapshot, guard, cached, toolchain, saved>>

Probe(c) ==
  LET r == own[c].taken IN
  /\ At(c, "probe")
  /\ IF r.sel = selection /\ r.digest = snapshot /\ r.guard = guard
     THEN Goto(c, "generation") /\ Quiet /\ UNCHANGED <<lock, globals, own>>
     ELSE Miss(c)

\* _GenerationReader: the time stamp, then the list, then the time stamp again.
Generation(c) ==
  /\ At(c, "generation")
  /\ IF loading
     THEN Refuse(c)
     ELSE /\ Goto(c, "unscanned") /\ Set(c, [own[c] EXCEPT !.generation = generation])
          /\ Quiet /\ UNCHANGED <<lock, globals>>

\* verify(allow_scan=False)
Unscanned(c) ==
  /\ At(c, "unscanned")
  /\ IF generation # own[c].generation THEN Refuse(c)
     ELSE IF generation # guard.generation THEN Miss(c)
     ELSE Goto(c, "settled") /\ Quiet /\ UNCHANGED <<lock, globals, own>>

\* Mutant: the live environment is not compared with the recorded copy.
SettledUnread(c) ==
  LET r == own[c].taken IN
  /\ At(c, "settled")
  /\ IF standard /\ cached = r.copy /\ toolchain = r.toolchain
     THEN Release /\ Finish(c, r.stamp) /\ Calm /\ UNCHANGED globals
     ELSE Miss(c)

\* The providers, and every item of the environment by identity.
Settled(c) ==
  LET r == own[c].taken IN
  /\ At(c, "settled")
  /\ IF standard /\ cached = r.copy /\ toolchain = r.toolchain /\ edits = r.copy.made
     THEN Release /\ Finish(c, r.stamp) /\ Calm /\ UNCHANGED globals
     ELSE Miss(c)

--------------------------------------------------------------------------------
\* framework_identity, under its lock.

\* Mutant: an exception leaves the guard the inventory has published.
RollBackHalf(c) ==
  /\ snapshot' = own[c].kept.snapshot /\ UNCHANGED guard
  /\ Release /\ Finish(c, None)
  /\ Calm /\ UNCHANGED <<cached, toolchain, saved, record>>

\* Any exception: both the digest and the guard are put back.
RollBack(c) ==
  /\ snapshot' = own[c].kept.snapshot /\ guard' = own[c].kept.guard
  /\ Release /\ Finish(c, None)
  /\ Calm /\ UNCHANGED <<cached, toolchain, saved, record>>

\* The lock is held on to.
Still(c, step) == Goto(c, step) /\ Quiet /\ UNCHANGED <<lock, globals>>

\* Leaves framework_identity with digest d.
Identified(c, d) ==
  /\ Release /\ Goto(c, "build")
  /\ Set(c, [Blank EXCEPT !.frameworks = d])

Discover(c) ==
  LET mine == [own[c] EXCEPT !.found = selection, !.kept = [snapshot |-> snapshot, guard |-> guard]] IN
  /\ At(c, "discover") /\ lock = None
  /\ IF snapshot # None /\ snapshot.sel # selection
     THEN Finish(c, None) /\ Calm /\ UNCHANGED <<lock, globals>>
     ELSE /\ Acquire(c) /\ Goto(c, IF snapshot = None THEN "inventory" ELSE "verify") /\ Set(c, mine)
          /\ Quiet /\ UNCHANGED globals

\* verify(): the generation, and a scan of the names when it is new.
Verify(c) ==
  /\ At(c, "verify")
  /\ IF loading THEN RollBack(c)
     ELSE Set(c, [own[c] EXCEPT !.generation = generation]) /\ Still(c, "verified")

Verified(c) ==
  /\ At(c, "verified")
  /\ IF generation # own[c].generation THEN RollBack(c)
     ELSE IF generation # guard.generation THEN Still(c, "scan") /\ UNCHANGED own
     ELSE Identified(c, snapshot) /\ Quiet /\ UNCHANGED globals

\* Mutant: the count of the images stands for their names.
ScanByCount(c) ==
  /\ At(c, "scan")
  /\ IF loading \/ generation # own[c].generation THEN RollBack(c)
     ELSE /\ guard' = [guard EXCEPT !.generation = generation]
          /\ Identified(c, snapshot) /\ Quiet /\ UNCHANGED <<snapshot, cached, toolchain, saved, record>>

\* The names are those of the guarded inventory, or it is made again.
Scan(c) ==
  /\ At(c, "scan")
  /\ IF loading \/ generation # own[c].generation THEN RollBack(c)
     ELSE IF images # guard.names THEN Still(c, "inventory") /\ UNCHANGED own
     ELSE /\ guard' = [guard EXCEPT !.generation = generation]
          /\ Identified(c, snapshot) /\ Quiet /\ UNCHANGED <<snapshot, cached, toolchain, saved, record>>

\* _native_dependencies: the loaded images, whose files become the digest and the
\* providers; then a new guard over these.
Inventory(c) ==
  /\ At(c, "inventory")
  /\ Set(c, [own[c] EXCEPT !.loaded = images]) /\ Still(c, "approve")
Approve(c) ==
  /\ At(c, "approve")
  /\ IF loading THEN RollBack(c)
     ELSE Set(c, [own[c] EXCEPT !.generation = generation]) /\ Still(c, "approved")

\* Its first verify(): another list than the digest's is refused only if one of its
\* images is not among the providers.
Approved(c) ==
  /\ At(c, "approved")
  /\ \/ (loading \/ generation # own[c].generation \/ images # own[c].loaded) /\ RollBack(c)
     \/ /\ ~loading /\ generation = own[c].generation
        /\ Still(c, "publish") /\ Set(c, [own[c] EXCEPT !.resolved = images])

\* The list is compared with the one the inventory began with; the guard keeps the
\* one it has scanned.
PublishGuard(c) ==
  /\ At(c, "publish")
  /\ IF images # own[c].loaded THEN RollBack(c)
     ELSE /\ guard' = [names |-> own[c].resolved, generation |-> own[c].generation]
          /\ Goto(c, "again") /\ Quiet /\ UNCHANGED <<lock, own, snapshot, cached, toolchain, saved, record>>

\* The second discovery, and the digest.
Again(c) ==
  LET d == [sel |-> own[c].found, images |-> own[c].loaded] IN
  /\ At(c, "again")
  /\ IF selection # own[c].found THEN RollBack(c)
     ELSE /\ snapshot' = d /\ Identified(c, d)
          /\ Quiet /\ UNCHANGED <<guard, cached, toolchain, saved, record>>

--------------------------------------------------------------------------------
\* The rest of the complete evaluation.

\* build(): the selection as it is now, the digest and the guard as they are now.
Build(c) ==
  /\ At(c, "build") /\ (env.off \/ lock = None)
  /\ record' = IF env.off THEN None ELSE [full |-> FALSE, digest |-> snapshot, guard |-> guard, sel |-> selection]
  /\ Goto(c, IF standard THEN "copy" ELSE "recopy")
  /\ Set(c, IF standard THEN own[c] ELSE [own[c] EXCEPT !.policy = Override])
  /\ Quiet /\ UNCHANGED <<lock, snapshot, guard, cached, toolchain, saved>>

Decoding == \E c \in Callers : pc[c] \in {"decode", "redecode"}

\* environment_snapshot: the cached copy if it is still exact, or a new one.
Copy(c, here, decode, next) ==
  LET hit == cached # None /\ (cached.made = edits \/ cached.env = env) IN
  /\ At(c, here) /\ ~Decoding
  /\ Goto(c, IF hit THEN next ELSE decode)
  /\ Set(c, [own[c] EXCEPT !.copy = IF hit THEN cached ELSE [env |-> env, made |-> edits]])
  /\ Quiet /\ UNCHANGED <<lock, globals>>
Decode(c, here, next) ==
  /\ At(c, here)
  /\ IF env # own[c].copy.env
     THEN Finish(c, None) /\ Calm /\ UNCHANGED <<lock, globals>>
     ELSE /\ cached' = own[c].copy /\ Goto(c, next)
          /\ Quiet /\ UNCHANGED <<lock, own, snapshot, guard, toolchain, saved, record>>

\* Mutant: the policy is read from the live environment.
PolicyLive(c) ==
  /\ At(c, "policy")
  /\ Set(c, [own[c] EXCEPT !.policy = env.policy, !.shared = (cached = own[c].copy)])
  /\ Goto(c, IF cached = own[c].copy THEN "toolchain" ELSE "recopy")
  /\ Quiet /\ UNCHANGED <<lock, globals>>

\* The policy of the copy; another thread may have replaced the copy since.
Policy(c) ==
  /\ At(c, "policy")
  /\ Set(c, [own[c] EXCEPT !.policy = own[c].copy.env.policy, !.shared = (cached = own[c].copy)])
  /\ Goto(c, IF cached = own[c].copy THEN "toolchain" ELSE "recopy")
  /\ Quiet /\ UNCHANGED <<lock, globals>>

Resolving == \E c \in Callers : pc[c] \in {"resolve", "fingerprint"}

\* _identity_for_environment: unknown search paths and changed selectors are refused.
Toolchain(c) ==
  LET e == own[c].copy.env IN
  /\ At(c, "toolchain") /\ (e.external \/ ~Resolving)
  /\ IF e.external \/ (toolchain # None /\ toolchain.sel # e.tool)
     THEN Finish(c, None) /\ Calm
     ELSE /\ Goto(c, IF toolchain = None THEN "resolve" ELSE "stamp")
          /\ Set(c, IF toolchain = None THEN own[c] ELSE [own[c] EXCEPT !.tool = toolchain.digest])
          /\ Quiet
  /\ UNCHANGED <<lock, globals>>
Resolve(c) ==
  /\ At(c, "resolve")
  /\ Goto(c, "fingerprint") /\ Set(c, [own[c] EXCEPT !.resolved = env.tool])
  /\ Quiet /\ UNCHANGED <<lock, globals>>
Fingerprint(c) ==
  /\ At(c, "fingerprint")
  /\ IF env.tool # own[c].copy.env.tool
     THEN Finish(c, None) /\ Calm /\ UNCHANGED <<lock, globals>>
     ELSE /\ toolchain' = [sel |-> own[c].copy.env.tool, digest |-> own[c].resolved]
          /\ Goto(c, "stamp") /\ Set(c, [own[c] EXCEPT !.tool = own[c].resolved])
          /\ Quiet /\ UNCHANGED <<lock, snapshot, guard, cached, saved, record>>

Reusable(c) ==
  saved # None /\ saved.copy = own[c].copy /\ saved.frameworks = own[c].frameworks /\ saved.tool = own[c].tool

\* The stamp: the saved one when it was made from the same inputs.
Stamp(c) ==
  LET s == [frameworks |-> own[c].frameworks, policy |-> own[c].policy, tool |-> own[c].tool] IN
  /\ At(c, "stamp")
  /\ IF ~own[c].shared
     THEN Finish(c, s) /\ Calm /\ UNCHANGED <<lock, globals>>
     ELSE /\ saved' = IF Reusable(c) THEN saved
                      ELSE [copy |-> own[c].copy, frameworks |-> own[c].frameworks, tool |-> own[c].tool, stamp |-> s]
          /\ Goto(c, "finalize") /\ Set(c, [own[c] EXCEPT !.stamp = IF Reusable(c) THEN saved.stamp ELSE s])
          /\ Quiet /\ UNCHANGED <<lock, snapshot, guard, cached, toolchain, record>>

\* The inputs of this evaluation are those the record was begun with and those in force.
Admissible(c) ==
  /\ ~env.off /\ record # None /\ ~record.full
  /\ own[c].frameworks = record.digest
  /\ cached = own[c].copy /\ edits = cached.made
  /\ saved = [copy |-> own[c].copy, frameworks |-> own[c].frameworks, tool |-> own[c].tool, stamp |-> own[c].stamp]

\* Mutant: the record is published before its stamp is known.
FinalizeEarly(c) ==
  /\ At(c, "finalize")
  /\ Goto(c, "attach")
  /\ record' = [full |-> TRUE, digest |-> own[c].frameworks, guard |-> guard, sel |-> selection,
                copy |-> cached, toolchain |-> toolchain, stamp |-> None]
  /\ Set(c, [own[c] EXCEPT !.taken = record])
  /\ Quiet /\ UNCHANGED <<lock, snapshot, guard, cached, toolchain, saved>>

\* finalize() reads the record, and publishes the whole one later.
Finalize(c) ==
  /\ At(c, "finalize")
  /\ IF Admissible(c)
     THEN /\ Goto(c, "attach")
          /\ Set(c, [own[c] EXCEPT !.taken = [full |-> TRUE, digest |-> record.digest, guard |-> record.guard,
                       sel |-> record.sel, copy |-> cached, toolchain |-> toolchain, stamp |-> own[c].stamp]])
          /\ Quiet /\ UNCHANGED <<lock, globals>>
     ELSE /\ record' = None /\ Finish(c, own[c].stamp)
          /\ Calm /\ UNCHANGED <<lock, snapshot, guard, cached, toolchain, saved>>
Attach(c) ==
  /\ At(c, "attach")
  /\ record' = own[c].taken
  /\ Finish(c, own[c].stamp)
  /\ Calm /\ UNCHANGED <<lock, snapshot, guard, cached, toolchain, saved>>

--------------------------------------------------------------------------------
\* What other code of the process does meanwhile.

Elapse ==
  /\ inForce' = [c \in Callers |->
       [part \in DOMAIN Now |-> inForce[c][part] \cup Now[part]']]
  /\ reverted' = (reverted \/ \E c \in Callers :
       At(c, "publish") /\ own[c].resolved # own[c].loaded /\ images' = own[c].loaded)
Event == noise < MaxNoise /\ noise' = noise + 1 /\ UNCHANGED <<lock, globals, pc, own, answer>>

\* The toolchain selection that a query under way was made under stays away (see above).
NotUndone(e) ==
  \A c \in Callers : At(c, "fingerprint") /\ own[c].resolved # own[c].copy.env.tool => e.tool # own[c].copy.env.tool
Edit(e) ==
  /\ Event /\ NotUndone(e)
  /\ env' = e /\ edits' = edits + 1
  /\ UNCHANGED <<images, generation, loading, selection, standard>> /\ Elapse
Select(s) ==
  /\ Event /\ s # selection /\ selection' = s
  /\ UNCHANGED <<env, edits, images, generation, loading, standard>> /\ Elapse
Replace ==
  /\ Event /\ standard' = ~standard
  /\ UNCHANGED <<env, edits, images, generation, loading, selection>> /\ Elapse
BeginLoad ==
  /\ Event /\ ~loading /\ loading' = TRUE
  /\ UNCHANGED <<env, edits, images, generation, selection, standard, inForce, reverted>>
EndLoad(i) ==
  /\ loading /\ loading' = FALSE
  /\ images' = i /\ generation' = generation + 1
  /\ UNCHANGED <<env, edits, selection, standard, lock, globals, pc, own, answer, noise>> /\ Elapse

Step(c) ==
  \/ Check(c) \/ Hold(c) \/ Probe(c) \/ Generation(c) \/ Unscanned(c) \/ Settled(c)
  \/ Discover(c) \/ Verify(c) \/ Verified(c) \/ Scan(c)
  \/ Inventory(c) \/ Approve(c) \/ Approved(c) \/ PublishGuard(c) \/ Again(c)
  \/ Build(c) \/ Copy(c, "copy", "decode", "policy") \/ Decode(c, "decode", "policy") \/ Policy(c)
  \/ Copy(c, "recopy", "redecode", "toolchain") \/ Decode(c, "redecode", "toolchain")
  \/ Toolchain(c) \/ Resolve(c) \/ Fingerprint(c) \/ Stamp(c) \/ Finalize(c) \/ Attach(c)

Noise ==
  \/ \E e \in Envs : Edit(e)
  \/ \E s \in Selections : Select(s)
  \/ Replace
  \/ BeginLoad

Next ==
  \/ \E c \in Callers : Call(c) \/ Step(c)
  \/ Noise
  \/ \E i \in ImageLists : EndLoad(i)

Spec == Init /\ [][Next]_vars

--------------------------------------------------------------------------------

\* Every variable holds a value of its kind.
TypeOK ==
  /\ env \in Envs /\ edits \in 0..MaxNoise /\ images \in ImageLists /\ generation \in 0..MaxNoise
  /\ loading \in BOOLEAN /\ selection \in Selections /\ standard \in BOOLEAN
  /\ lock \in Callers \cup {None}
  /\ snapshot \in Digests \cup {None} /\ guard \in Guards \cup {None} /\ cached \in Copies \cup {None}
  /\ toolchain \in ToolSnapshots \cup {None} /\ record \in Partial \cup Whole \cup {None}
  /\ answer \in [Callers -> Stamps \cup {None}]
  /\ reverted \in BOOLEAN
  /\ noise \in 0..MaxNoise

\* As long as no list of images has come back to an inventory that began with it and has scanned
\* another for its guard, the stamp an evaluation returns, saved or computed, names images that were
\* loaded at a moment of that evaluation, however often they change between two evaluations: no old
\* digest is certified under a newer guard (_framework_contract.py:390, _identity_fast_path.py:972).
NativeInForce ==
  ~reverted => \A c \in Callers : answer[c] # None => answer[c].frameworks.images \in inForce[c].images

\* Its policy and its toolchain selection were in force at moments of that evaluation, whichever copies
\* of the environment, saved stamps and records of other threads it used (_cache_contract.py:351).
SettingsInForce ==
  \A c \in Callers : answer[c] # None =>
    /\ answer[c].tool \in inForce[c].tool
    /\ IF answer[c].policy = Override THEN FALSE \in inForce[c].standard
       ELSE TRUE \in inForce[c].standard /\ answer[c].policy \in inForce[c].policy

\* When nobody is inside framework_identity, the digest and the guard are both there or neither
\* (_framework_contract.py:395), and as long as no list of images has come back as above, the digest
\* is of the images the guard has checked, after every inventory, scan and failure.
DigestMatchesGuard ==
  lock = None => \/ snapshot = None /\ guard = None
                 \/ snapshot # None /\ guard # None /\ (~reverted => guard.names = snapshot.images)

\* The framework selection of a stamp was what the import system selected at a moment of the
\* evaluation: a hit returns the full evaluation's stamp (tests/test_identity_fast_path.py:63).
SelectionInForce ==
  \A c \in Callers : answer[c] # None => answer[c].frameworks.sel \in inForce[c].sel
================================================================================

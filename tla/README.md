# TLA+ models of triton-msl

triton-msl compiles `@triton.jit` kernels to Metal Shading Language and launches them on Apple GPUs.
"The goal is to preserve the source computation or refuse an unsupported kernel explicitly": nearly
every hard part of the code is about *not* running something else, *not* running it twice, and *not*
serving a stale product. This directory models those parts, checks them with TLC on small instances
and proves the most important results with TLAPS for every instance.

    tlc -workers 2 -config MCLaunchOpen.cfg MCLaunch     # one run; PROJECT.json lists all of them
    tlapm Launch_proof.tla                               # the proofs of one component

## 1. The system

`@triton.jit` function → Triton's caches → TTIR → TTGIR → **lowering** → MSL → `xcrun metal` /
`metallib` → **launcher** → GPU. A process has any number of threads that compile and launch;
processes share a cache directory.

| Component | Code | State it keeps | Operations | What is hard | What makes it correct |
|---|---|---|---|---|---|
| Compiled-binary cache | `backend/compiler.py` (`make_metallib`, `make_metallib_from_llir`), `backend/_cache_contract.py` | pairs of files `.metallib`, `.meta.json`; private work directories | look up, compile, link, install, read back, record; bounded retries | two files that are never replaced together, under concurrent writers, damage, crashes and changing contracts | an answer is always the output of a tool run for exactly this request; a record certifies private output only; a tool failure is loud; every call ends |
| Compile caches | `compiler.py` (`hash`, `add_stages`, `make_msl`, stash), `_cache_contract.py`, `driver.py` | Triton's persistent and device caches, source cache, stash (memory, file), pre-run hooks, the stamp of a product | hook, lookup, stages, record, stamp, construct, launch | the policy of the process is read at a dozen moments of one compile and launch and may change between any two | no launch runs code of another policy; records certify what codegen emits; a hooked function recompiles instead of refusing |
| Execution contract and identity fast path | `_cache_contract.py` (`execution_contract`), `_identity_fast_path.py`, `_framework_contract.py`, `_native_generation.py`, `_environment_snapshot.py`, `_toolchain_contract.py` | the discovered digest, the guard of loaded images, copies of the environment, a toolchain snapshot, one record of identities with its stamp | check, discover, verify, roll back, copy, resolve, stamp, build, finalize | four shared records, one lock that covers only some of the steps, and an environment that changes at any point | what a stamp names was in force at a moment of the evaluation that returned it |
| Launcher and dispatch | `driver.py` (`MetalLauncher.__call__`), `autotuning/_*_dispatch.py`, `compile_shader_runtime.py`, `errors.py` | retired shaders of the process; one `SubmissionState` per call | seven routes in order, each may decline, fail before or fail after submission | the exception of a dispatch does not say whether the workload ran | the workload runs at most once through one implementation that has the kernel's interface |
| Host route | `driver.py` (storage groups, mirrors, copies back) | memory, mirrors, bindings | group, wrap or mirror, bind, run, copy back, release | aliasing, views, in-place and mirrored storages in one launch, failure halfway | pointer semantics of the kernel are kept; failures do not reach mirrored storages |
| Buffer pool | `buffer_pool.py` | free lists per size class | acquire, release, for scalars too | check-then-act without a lock; launches that raise | no buffer is used twice at once; lists are bounded |
| Device assertions | `codegen/assertions.py`, `generic_lowerer.py`, `backend/_device_assert.py` | a flag per threadgroup, a status word | admit, clear, check, rendezvous, sample, read back | early return against barriers, with threads at any relative speed | no divergence at a barrier; nothing guarded runs after a failure; the report is right |
| Threadgroup scratch reuse | `codegen/_lowerer_helpers.py` (`_shared_memory_phases`, `_alias_shared_memory`) | none; a transformation of MSL | parse blocks and barriers, live ranges, conflicts, slots | back edges, zero-trip loops, barriers in branches, early exits | sharing storage adds no race and loses no value |
| Templates | `codegen/_msl_templates.py`, `codegen/msl_emitter.py` (`KernelBuilder`) | threadgroup arrays and registers of a kernel | one kernel per template: rows, products, attention, backward, decode, sampling, quantized, delta rule | several phases over reused threadgroup memory; ragged tails; partial SIMD groups; early returns | every output element is the documented one in every interleaving; no write leaves its array; barriers are reached together |
| Template matching | `_lowerer_detection.py`, `_lowerer_templates.py`, `_normalization_proof.py` | none; reads the graph | match flip, transpose, permute, 3-D reduction, softmax, layer norm, row sort, `tl.dot` | a template replaces a whole kernel; every address, mask and value it ignores must be one it replays | what replaces a kernel leaves what the kernel means |
| Lowering of reductions and control | `_lowerer_reduce.py`, `_lowerer_control.py`, atomics | SSA environment of one lowering | classify a region, choose a path, emit; loops, branches, carried values, atomics | partial SIMD groups, broadcast layouts, tuples and NaN, simultaneous yields, fences | as for templates |
| Rest of the lowering, parsers, biased replay | `generic_lowerer.py`, `mlir_walker.py`, `ttgir_parser.py`, `_biased_replay.py` | SSA environment | one handler per operation | coverage of shapes and layouts; refusals | the emitted kernel computes the source program |
| Launch contract and signature | `_launch_contract.py`, `_launch_signature.py`, `_generic_launch.py`, `_packed_native.c` | sealed metadata | seal, validate, bind | malformed or foreign metadata | a launch binds what was compiled |
| C++ passes, inductor, MLX, tuner, profiling | `csrc`, `inductor`, `mlx`, `autotuning/matmul_tuner.py`, `profiling` | little | | | |

Interactions: the launcher calls the stash (`KernelCache`), the dispatch helpers share its submission
state and the process-wide runtime (`Launch`), its last route marshals through the pool (`HostRoute`
composes `BufferPool`), and asks the status of the device assertions (`DeviceAssertion`; `Launch` and
`HostRoute` have a failed assertion as an outcome). The final compile stage is the binary cache
(`MetallibCache`; `KernelCache` has it as one step that returns the binary or raises). Every read of the
policy in `KernelCache` is one evaluation of `ExecutionContract`. What the lowerer emits, from a
template or by itself, runs on the machine of `Threadgroup`.

`PROJECT.json` lists the hazards, each at the line where it bites, with the properties that are about it.

## 2. The modules

A module is one component; `X_proof` has its theorems, `MCX` its instances for TLC. In every module a
`c` or `t` that indexes a variable is one thread (or process), each action is one uninterrupted step of
the code and what the code does between two reads or writes of shared state is one action.
Definitions named `...` after a comment `Mutant:` are deliberately wrong variants that the properties
must reject; nothing else refers to them.

**ProductStore / MetallibCache.** The abstract store: a request gets one answer, and it is a binary some
tool run made for that request, or a refusal. The detailed cache has one action per file operation of
`make_metallib`; `pub` and `rec` are the two files, `priv` the private link output. `Retry` is the
`continue` of the attempt loop and its last iteration. Environment actions delete, truncate or
overwrite files, change the contract and kill the process. `StoreSpec` is the refinement.

**KernelCache.** From `JITFunction.run` to a validated launch. `seen` is the producer contract that
`add_stages` captures, `key` the source key of `make_msl`, `ContractOfRecord` the contract that
`metadata_record` evaluates anew, `Check` and `Seal` the two validations around the final stage,
`Construct`, `Recall`, `FromMemory`, `FromFile` and `Resolved` are `MetalLauncher.__init__`: the stamp is validated
under one policy (`driver.py:686`), the MSL is then looked for in the stash, in memory and on disk, and each
envelope is decoded under the policy of its own moment (`driver.py:725`). `Call` is the head of `__call__`.
Policy may change between any two steps, to any value. `undercut` is history: a call was under way
(`changed`), the new policy was one that a call under way has recorded (`restored`), or a launcher was looking for its MSL
(`resolving`). Triton's own caches are modelled from how the code uses them (`Lookup`, `Insert`, `Inside`, `Start`)
and are marked external.

**ExecutionContract.** One call of `execution_contract` from the check of the saved record to the stamp,
one action per read of something that other threads or the environment change. `snapshot` is the
discovered digest and `guard` its guard of loaded images, `record` the record of identities with its stamp,
`cached` the copy of the environment, `toolchain` the toolchain identity, `saved` the stamp kept with it; `own[c]`
are a call's local variables. The lock is held where `framework_identity` and the fast path hold it. An
object compared by identity is told apart by what makes it new: a copy by the number of the edit it
follows, a guard by the generation it has checked. The inventory compares its first list of images with its last
one only, as the code does (`PublishGuard`), and the guard names the list it has scanned in between. Two variables are
history: `inForce` is what has been in force since the evaluation began, `reverted` that a list has come back to an
inventory that began with it after the guard has scanned another.

**LaunchContract / Launch.** The contract: at most one route runs, it has the binary interface of the kernel,
a normal return means that all of it was submitted and a refusal that none of it was. `Launch` walks
the routes in the code's order. Shapes and environment switches only decide whether a route declines,
so every route may always decline; a dispatch that raises may or may not have reached the GPU; every
failure before `begin()` falls through and every later one ends the call as uncertain. `Guard` has the
fail-closed refusals. `ContractSpec` is the refinement.

**BufferPool.** The pool of a process, with the two halves of `if free_list: pop()` and of
`if len < max: append()` as separate actions, since no lock is held.

**HostRoute.** Extends the pool, whose steps it takes one by one. A place of memory is an address or a
cell of a buffer. A kernel is a list of stores, each from a place through one argument to a place through an
output argument, before and after the base of a view. The marshaller goes group by group: `Group` refuses
or begins it, `Mirror` binds its memory in place or looks for a buffer, which `Acquire` and `CopyIn` provide and
fill; then `Kernel` runs store by store, `CopyBack` copies storage by storage and `Release` returns the buffers.
A step fails where the code can raise.
`Place` is where an argument is bound and `Meant` where the program means it; `promise` is what the stores,
in their order, make of memory. `Apart` is the guard of a launch that begins beside others.

**DeviceAssertion.** A kernel is a sequence of control regions with a check each; `Admitted` is the
uniform-control proof of `prepare`; `Clear`, `Check`, `Record`, `Sample`, `Test`, `Access` are what `emit`
generates and `Barrier` is `threadgroup_barrier`. Threads run at any relative speed between barriers.

**ScratchReuse.** Every small MSL kernel is written line by line (`Write`, `Complete`); the pass gives its
arrays their slots, one per step in its order, each the first slot in which it `Overlaps` no member (`Place`);
`Shares` splits the slots by type; then the kernel runs: loops may have no trip, other blocks may not be taken or
be `while` loops, exits leave. A race that the pass adds is the use of two arrays that share storage with no
barrier in between.

**Threadgroup, MetalMath.** The machine of all generated kernels: threadgroups of SIMD groups of threads,
device and threadgroup memory and registers, barriers with the memories they order, SIMD barriers,
fences, atomics and branches on shared flags. A cell written since the last barrier is dirty, and any other
thread reads NaN from it; NaN absorbs everything it meets, so a race reaches an output unless its value is
really unused. The helpers of `KernelBuilder` are here: masks, loads, stores, the two-level reductions, plain and
ordered. Floats are the integers modulo 257, where sums and products are exact and exp is a power of a
generator; other functions are arbitrary fixed maps: a result is right if it equals the closed formula, and an
element missed, counted twice or taken from the wrong place shows.

**The templates.** One module per family, with the instructions of a thread (`...Code`) and what each writes:
`RowTemplates` (reductions, normalizations, losses, scans; elementwise), `MatmulTemplates` (tiled, on SIMD
matrices, split-K, swizzled, quantized), `FlashTemplates` (causal, flash, tiled and biased flash),
`BackwardTemplates`, `DecodeTemplates` (decode caches; sampling, beam search, speculative decoding),
`KdaTemplates` (the gated delta rule, its replay, trainable flash attention). `TemplateReference` and
`AttentionReference` give each its arrays, its instances and the closed formula of its documentation.

**ReduceLowering, ControlLowering, LoweringReference.** `tt.reduce` and `tt.scan`: the combine region as the graph
gives it, its classification, the path that is chosen with every refusal, and what the path emits.
`scf.for`, `scf.while`, `scf.if`: how each carried value is held and in which order a yield assigns; atomics with
guards, compare-and-swap loops, fences and broadcast. The reference evaluates the region, or the loop, itself.

**TensorGraph, LayoutTemplates, NormTemplates, DotTemplates, DotMatching, GraphReference.** `TensorGraph` is a
kernel as the walker gives it and what it means. `X...Matches` is the detector, `X...Code` the kernel that replaces
it. `GraphReference` has the graphs each was written for and near misses that differ in one operation: a near
miss is refused, or its replacement must still mean the same. `DotMatching` has one verdict for a refusal and for a
graph left to the generic path.

**MCTemplates** instantiates the machine with all of these. `Admitted` drops what the code refuses at generation time or
its documentation forbids. What the code accepts and gets wrong is named, with its lines, in two definitions:
`Faulty` kernels run, inside their arrays and together at their barriers, but only the cells in `Kept` are
promised; `Excluded` kernels do not run, because they write beyond an array or part at a barrier (section 6).

## 3. The runs

| Run | Instance | Question |
|---|---|---|
| `metallib_cache` | 2 callers, 1 source, 2 contracts, 2 variants of a binary, 2 attempts, 1 event | Can a record or an answer ever be something other than private output for this key? Is a tool failure always loud? Does the cache implement the store, and does every call end? |
| `kernel_cache` | 2 threads of a process, 1 function, 2 policies, 1 event | Do source cache and stash certify only what codegen emits, as long as no recorded policy comes back? Does a launch ever run code of another policy, if moreover policy is stable while a launcher looks for its MSL? Does a hooked function recompile, never refuse, when policy changed between calls only? |
| `execution_contract` | 2 threads, 5 environments, 2 lists of images, 2 import selections, 2 events | Were policy and toolchain of a stamp in force during the evaluation that returns it, whatever saved record it came from? Were its images, and is a digest of the images its guard has checked, as long as no list has come back during an inventory? |
| `stale_selection` | the same | Expected violation, see below. |
| `launch_open` | 2 threads; an MLA handle, and a matmul handle with template, selected tile, split-K and generic shader | Can the workload run twice? Is a shader retired by a call that may have run it? Is a broken shader built again and again? |
| `launch_closed` | 2 threads; quantized, packed and asserting handles | Can a fallback run code of another interface, or a failed assertion deliver results? Does every launch end? |
| `host_route` | 2 threads, 3 buffers, 3 launches out of 11 kinds | Are pointer semantics kept, and is a failure kept away from mirrored storages? Does the pool it runs on share a buffer or grow beyond its bound? |
| `host_overlap` | 1 thread, two storages over one allocation | Expected violation, see below. |
| `device_assertion` | 2 groups of 2 threads, 8 kernels | Does a thread ever return past a barrier others wait at? Does a guarded access run after a failed check? What does the host report? Does every launch end? |
| `scratch_reuse` | all kernels of at most 7 lines over 3 arrays of 2 types | Does sharing add a race or lose a value? |
| `templates` | the 317 admitted instances of templates and lowering that `Excluded` leaves | Is every promised output element the documented one, in every interleaving? Is every write inside, every barrier convergent? |
| `loop_carry` | one loop that exchanges two carried scalars | Expected violation, see below. |

**Bounds.** Two threads show every pairwise interleaving. Two policies are enough because codegen and
checks only compare them. `MaxNoise` bounds environment events; two of them in `execution_contract` let a value
change and change again, which is what `reverted` needs: without that condition the run violates `DigestMatchesGuard`.
In `kernel_cache` one event, shared by two threads, does not bring a policy back; there the conditions
of the properties are for the theorems, which hold for any number of events. One thread alone passes with two and with three
events too (450,359 and 3,955,094 states), and TLC finds that the conditions are needed: without `restored` it
violates `CertifiesEmission` at two events, without `resolving` it violates `LaunchesOwnCode` at four (a compile
that ended stale has left an envelope of B under a key of A; policy is B when the launcher reads it and A again at the call).
Two attempts show a first, a last and a failed one. For scratch reuse, six lines hold a
loop with two arrays and the two barriers it needs; the seventh allows an exit, or the access of a third array (eight
lines, 9.3 million states, pass too). Memory of the host route has 19 cells in six storages: paged, loose, MPS,
fp64, one above the mirror limit and a second loose one. The kernels have groups of 1 to 8 threads, SIMD
groups of 1 to 4 and fragments of side 1 or 2, with sizes on both sides of each: the code uses its widths
only as divisors. Some shapes are smaller than any the code generates (one block of a fused linear layer with a bias, one
thread in the gated delta rule with a zero gate): they show the path of the data, where with more blocks or threads the
code has a fault of order.

**Fairness.** Weak fairness of each thread's own steps: a call is sequential code whose tools, dispatches and
waits return. On the device, weak fairness of each thread and of a barrier all have reached: threads of a
resident threadgroup make progress. Nothing assumes that an environment event happens or stops; they
are bounded. The templates state no liveness: each kernel is finite, and its runs check deadlock instead, so a
barrier that is never complete is an error.

**Three disagreements.** `host_overlap`: arguments are grouped by address *and* length of their storage
(`driver.py:1197`). Two tensors over overlapping slices of one numpy array have different storages, so they
are mirrored apart and copied back whole, and the second copy undoes stores of the first. The
comments in the code and the tests promise that aliases and the kernel's store order are preserved;
for equal storages they are, which `host_route` checks and `PointersPreserved` proves.

`loop_carry`: a yield snapshots the next state of every carried *pointer* before it assigns any, "SSA yields are
simultaneous" (`_lowerer_control.py:548`), but assigns scalars one after the other (`:647`): `a, b = b, a`
leaves both with the old `b`.

`stale_selection`: `docs/CACHE_CONTRACTS.md:117` says that the import search selection is rechecked. `build`
takes the lock again after `framework_identity` has released it and records the search path as it is then, beside
the digest of what was discovered before (`_identity_fast_path.py:841`). If another thread changed the selection in
between, the record is consistent with the present and its stamp is that of the past, and every later hit returns it.

## 4. The proofs

Everything is proved for any number of threads, handles, shaders, buffers, kernels and any environment,
from the named assumptions of the modules, which TLC evaluates on every run. Every safety invariant and
action property of the runs that expect none violated is proved; for `templates`, with the kernels for which it is
proved named in the theorem.

*MetallibCache_proof.* The invariant adds to `CertifiesOwnOutput` that a call which installs holds output that
was linked for its key (`CallOK`) and that `built` has outputs of its key only (`BuiltOK`): otherwise a record
could certify bytes whose origin is forgotten. `Refinement`: a link is a build, a returned binary is an
answer, everything else stutters.

*KernelCache_proof.* `CallOK` says what a call holds at each step. Its core: if the policy in force is the one the
call has recorded, it has been in force since, so a text made under it is the emission for the call's key.
`Genuine` (a record whose contract is its key's policy certifies that policy's emission, wherever the file
lies) and `Faithful` (all code of a stamped kernel is the emission under its stamp) carry that through
the caches; `RecordsCertifyEmission` and `LaunchesRunOwnCode` follow. Both are stated for what the code can see. A
recorded policy that went away and came back passes every comparison of two moments, hence `NeverRestored`. The launcher
validates its stamp and decodes its MSL at two moments with no comparison in between, and a record may
honestly certify another policy than its key's; hence `Undisturbed` for launches. The policy may change at any
other moment, also while a call is under way. `HookedFunctionsRecompile` needs a
second invariant, `Steady`: while no policy has changed under a call, what calls have recorded is in force, a
hook's stamp is that of the resident kernel, and a call holds a stale kernel only where no hook is.

*ExecutionContract_proof.* The invariant ties each saved object to what it was made from. A guard whose
generation is the present one names the images that are loaded; a copy made at the present edit is the present
environment; a stamp of the record is `StampOf` its digest and its copy; the toolchain identity is that of the
selection it was resolved under; while a thread holds the lock, the record belongs to the digest that is shared.
On the hit path this gives that the digest a thread has taken is of images loaded since it began, at its
last check of the generation; on the other path the roll-back of a discovery restores a digest and its guard
together (`DigestGuarded`). What is proved of images has the condition `~reverted`: the inventory compares only the
ends, so a list that changes and changes back leaves a guard that names the other list beside the digest of this one. That a digest
is there exactly if a guard is, and everything about settings, needs no condition. The environment steps only ever add to what has been in force, so a thread's facts
survive all others' steps. What the import selection lacks to join `SettingsCertified` is what `stale_selection` shows.

*Launch_proof.* `CallOK` says for each program point what a call has run so far. The core is that before
`submit` nothing has been attempted (`Untouched`), after it only the current route has run (`Only`),
and a failure with `attempted` set never leaves for another route. `WorkloadRunsOnce`,
`AssertionsWithholdResults`, `RetirementPrecedesSubmission` and the refinement of `LaunchContract`
follow from it. `FailsOnceEach` counts (`FailInv`): until a shader is marked unsupported, each counted failure has a caller that is
about to mark it (`Marking`); once it is marked nobody begins to build it and only those who already do can still
fail (`Building`), so failures and builders are together no more than the callers. Assumed: finitely many callers, and what descriptors the compiler emits
together (`DescriptorAssumption`).

*HostRoute_proof.* First the pool by itself: `Exclusive` is inductive with `HeldOK` (held buffers exist), and
`ListsAreBounded` needs `Room`: the length of a list plus the threads about to append to it is less than its cap
plus the number of threads. Every step of the host route is a step of the pool or leaves it alone (`ImplementsPool`), so
both results carry over (`MirrorsAreExclusive`). `StaysInside` is the shape of the state: each step of each launch
knows which groups have a buffer, that it is large enough, and that all of it exists. `PointersPreserved` has one
more invariant: at each step of a launch, what its places hold is what the stores executed so far make
of the memory it began with (before the kernel a mirror equals its storage; after it, the promise; after the copies,
memory itself), for memory in place, mirrors and converted fp64 storages alike, and other launches touch none
of it because mirrors are exclusive and launches begin `Apart`. `FailuresWithhold` reads the same
invariant at a failure. Their hypothesis `Separate(Launches)` is that storages of a launch are equal or disjoint:
`host_overlap` is what happens without it. `LaunchAssumption` has that a kernel stays inside its arguments'
storages and stores through outputs only.

*DeviceAssertion_proof.* A threadgroup is in one of three phases: before its first barrier, between the two
barriers of a check, or outside them. Outside, all of its threads go from one check with one verdict to one
next check (`GroupRuns`); that is what the two barriers buy. `SamePath` is the soundness of the
uniform-control proof: on an admitted kernel all threads of a group have the same checks before them.

*ScratchReuse_proof.* The pass is sound for every kernel, of any length and nesting. First the text: blocks open and
close by levels (`Closing`), two blocks are nested or apart (`Nesting`), the last open block is the one an `end`
closes (`Innermost`). Then two arrays whose live ranges do not meet: a block around uses of both is a loop
around all of them (`Ordered`, `CommonLoops`). Then a credited barrier: control between the opening of its block
and the barrier stays there until it takes the barrier (`UpTo`), and so does control in the rest of the text
(`AllBut`), so nothing gets from the last use of one array to the first of the other without it (`Handoff`).
Going back takes the back edge of a loop around both, and the barrier that `MeetsNextIteration` asks for is in
the way (`Handback`). What is carried along a run, as the inductive invariant, is a set of lines that control
cannot leave without a barrier and that has no use of the other array (`RaceOK`). For values the set is the
text after the last use: only the back edge of a common loop leaves it, which starts both arrays afresh
(`LossOK`). With an exit in the kernel nothing shares (`ExitForbids`). `PlacedOK` says that members of a slot
do not overlap. `SharingAddsNoRace` and `ValuesSurvive` follow.

*Threadgroup_proof.* `OrderlyConverges`: on a kernel whose code is `Orderly`, where the threads of a group have their
barriers at the same places and a branch goes nowhere but to a place between the same two, no thread is
left behind at one. The invariant is `Abreast`: no barrier lies between the places of two threads. A thread that
moves without passing a barrier stays abreast of the others (`Advance`, `NoBarrier`); when all wait at one, it is
the same, and they pass it together. Nothing is assumed of the data, the memories or the number of threads. TLC evaluates
`Orderly` for every kernel of `templates`: it holds for all but the gated delta rule, whose
replay branches across barriers on a flag that depends on the data.

`OrderlessRight`: which kernels do not depend on the schedule. Take the *lockstep* history `M` of a kernel without branches,
in which all threads of a group execute instruction 1, then all of them instruction 2, and so on: `M[g][j]` is what the
group sees before its `j`-th (`Lockstep`). If it has no race (`RaceFree`: a cell that one thread writes is written or
read by another only with a barrier over that memory, or the lockstep of a SIMD group, in between, except for junk cells
on which nothing else depends) and ends with the wanted values (`Wanted`), every interleaving ends with them. The
invariant is `Told`: each cell of the present memory is at some place of its lockstep history, the same for all that may look at it
(`Cut`); a mark of the race detector is a write not followed by a barrier (`Marked`); lanes march together
(`Marching`). So a thread about to execute an instruction sees of the cells it depends on exactly what it sees in lockstep
(`SettledView`), writes what it writes there, and finds no mark of another thread in the way (`MarchStep`, `StepTold`); a
barrier clears marks and lets no write pass (`SyncTold`).

Two shapes of kernels are race free whatever they compute: `CellByCell`, where each thread writes cells of its own out of cells
nobody writes (`CellByCellOrderless`), and `TwoStep`, where threads fill private or threadgroup memory, wait at a barrier,
and read what others wrote (`TwoStepOrderless`). What remains is arithmetic, template by template, against the reference
definitions. `PerCellRight`: 19 templates (elementwise, swiglu, scalar_mul, activation, fused_mlp, dropout,
where, clamp, compare, batch_norm of one batch, embedding, gather, index_select, scatter through a permutation, split,
repeat_kv, rope, max_pool, avg_pool) write each cell of their outputs exactly once, with the promised value, and
stay inside their arrays. For each it is shown that the grid of threads covers the output once, ragged end included: a line
(`LineCells`), rows walked with a stride (`RowCells`), pairs of a row (`PairCells`), heads and windows taken apart
by division (`TwoDigits`, `PooledSeen`). Where the template computes by another formula than the reference, the two
are equal in the field, of which the proof shows that 257 is prime and that the table of inverses holds inverses
(`InverseExists`, `InverseRange`, `MulAssociates`). `TransposeTiledRight` is the transpose through tiles, ragged at both sides:
the barrier between filling and reading a tile is enough, with the cells of the tile apart in spite of its padding.
Their hypotheses are `PerCell` and `Tiled` of `TemplateReference`: arrays as long as what the template is told, finite
inputs, indices inside, a grid that covers the output. TLC evaluates them for each kernel of these templates in the run
that is not `Faulty` (assumptions of `MCTemplates`); `Runs` says that the machine executes these templates, which is the
definition of `MCEffect` for their names.

**Only model-checked.** Liveness (`CallsEnd` twice, `LaunchEnds`), which needs fairness and ENABLED.
`OutputsRight` and `InBounds` of the other kernels. Reductions, products, attention, scans, convolutions and concatenations fold
over their data, and what a fold computes for every input is induction over data. Of the remaining elementwise templates, `atomic_add`
adds to shared cells and the promise of the others (`all_reduce`, `reduce_scatter`, `residual_add`) is such a fold. `OrderlessRight` would
apply to most of them; that they are `RaceFree` is not proved, it shows in the run. `Convergent` of the gated delta rule
depends on its data. `SelectionInForce`, `PreservesPointers` without `Separate`, and the exchange of carried values are false.

## 5. What is abstracted, and what is not modelled

- Digests are collision free: a key is what is hashed into it, a digest is the content.
- In `ExecutionContract`, the toolchain selection is not changed and restored between the first query of xcrun and
  the check after it (`NotUndone`), for the same reason: the check compares the two ends (`_toolchain_contract.py:209`).
  The walk over the files of frameworks and images is not modelled.
- Launches of `HostRoute` that overlap in time do not write what the other uses. The code takes no lock
  over storages, and whole-storage copies back would lose updates; it promises nothing there.
- Empty storages and the branches of the second marshalling loop that no grouped tensor reaches.
- `ScratchReuse` takes from the code's comment that an array whose uses are all in a loop is written anew in
  every iteration; its lines have one array each; spellings that the code does not recognize only prevent sharing.
- On the machine of the templates, the fence of a release is modelled and its reader is taken to synchronize with it;
  integers are exact up to a word; rounding is a fixed map; addresses do not wrap. Reads outside an array are not
  reported: they give junk, which shows if a promised cell depends on it. A product or a quotient does not overflow in
  the field: the replay of the delta rule is raised by inputs that are not finite or by a zero gate (`:8583`), not by an
  overflow of finite ones.
- `DotMatching` leaves out the depth limits of its walks and the gates that its value proofs subsume (unhandled
  epilogues, base offsets of batches).
- Not modelled: fused epilogues, quantized descriptors and batched products of `tl.dot`, the replay of biased
  attention, linear layouts, elementwise handlers, the parsers, launch metadata, refusal tables, the C++ passes,
  inductor and MLX integration, profiling. `PROJECT.json` has the reason for each.

## 6. Known faults outside the runs

What modelling has shown beyond the three disagreements. The faults of templates are in `Faulty` and `Excluded` of
`MCTemplates`, those of caches in the conditions of the properties, and the instances of `templates` avoid the others.

- *Stash.* The launcher validates its stamp (`driver.py:686`) and decodes its MSL (`:725`) under the policies of two
  moments; if policy is B at the second and A again at the call, it may run text of B under A.
- *Inventory of images.* `_native_dependencies` compares the list it begins with (`_framework_contract.py:110`) with the last one
  (`:141`), and its guard accepts any list of known images in between. Against "The observed image list must
  remain stable throughout the inventory" (`docs/CACHE_CONTRACTS.md:67`), a list that changes and changes back publishes a
  guard that names one list beside a digest of another; when the other comes back later, the digest is reused for it.
- *Product templates.* A K loop that counts blocks (`range(0, cdiv(K, BK))`) sums too few terms, constant or not
  (`_lowerer_templates.py:225`); the lower bound of a K loop is not looked at; a scalar named K decides the length of a
  product whose loop has a constant bound; the dense single tile drops the mask of its store; a transposed strided
  single tile ignores the transposition; a store mask `<=` is taken for `<`; a mask made of 1-D comparisons is
  accepted whichever axis it masks.
- *Row sort, 3-D reduction, transposes.* The sort claims `tl.flip` along rows of sides 2 and follows no value, mask
  or program id; the 3-D reduction drops arithmetic after the sum, masks and addresses
  (`_lowerer_detection.py:3926`); transposes compare shapes and not addresses.
- *Reductions.* In a loop, the i64 tree (`_lowerer_reduce.py:1980`), Welford and the broadcast of an atomic's result have
  no barrier between one turn's reads and the next turn's writes. The tail of an i64 tree and a (1, N) tile with
  fewer columns than threads are not masked. A 2-D argument reduction returns the position on the axis, not the
  operand. A full reduction of an axis reduction combines duplicated lanes.
- *Control.* `scf.if` with several results gives each the type of the first; `scf.while` maps its results to the
  iteration variables; unsigned 64-bit carries are declared 32 bits wide. Tensor stores before a releasing atomic
  have only thread 0's fence.
- *Templates, wrong results* (`Faulty`; lines of `codegen/_msl_templates.py`). `variance` with several SIMD groups reads the mean (`:1254`) from
  a cell that the next pass writes (`:1265`), against its docstring (`:1196`). `fused_linear` adds its bias, which is the
  default, to cells that other SIMD groups have just stored, with no barrier (`:7809`). `batch_norm` covers `n_channels *
  spatial_size` elements (`:1326`), the first batch only, against the `[N*C*HW]` of its docstring (`:1285`, `:1291`) and comment
  (`:1328`). `beam_search` with k above 1 reads its picks from device memory (`:6818`) after a barrier that orders threadgroup
  memory only (`:6856`). The trees of `top_k`, `top_p`, `beam_search` and speculative decoding leave elements out if the
  block is no power of two (`:6491`, `:6560`, `:6613`, `:6737`, `:6837`). `top_k` picks more than there is if k is above the
  vocabulary (`:6466`).
- *Templates, out of bounds or apart* (`Excluded`). The decode kernels clear a slot of scratch for every lane of the first
  SIMD group (`:4801`), and there are `block_size / 32` slots: every block below 1024, the default of 256 included, writes
  beyond them. The gated delta rule reads its replay flag (`:8578`) in the phase in which a zero gate raises it
  (`:8583`): a fast thread raises it before a slow one reads, which leaves a barrier that the others wait at, against
  the comment "Every branch on replay follows a uniform threadgroup barrier" (`:8577`).
- *Tiled flash attention* turns a row whose first block of keys is fully masked to zero; no instance has one.

## 7. Plan

1. *More orderless kernels*: the two-level reductions of `Threadgroup` as a third shape beside `CellByCell` and
   `TwoStep`, so that what is left of a row template is the sum it computes.
2. *LaunchBinding*: sealing, validation and binding of arguments, packed launches.
3. *Biased replay and linear layouts* of the lowerer; the fused epilogues of products.
4. *The C++ aliasing pass* beside `ScratchReuse`.

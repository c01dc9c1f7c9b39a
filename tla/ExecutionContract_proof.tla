------------------------ MODULE ExecutionContract_proof ------------------------
(***************************************************************************)
(* Proofs about ExecutionContract, for any number of threads, events,      *)
(* environments, selections and lists of images.                           *)
(***************************************************************************)
EXTENDS ExecutionContract, TLAPS

--------------------------------------------------------------------------------
\* The inductive invariant.

Hits == {"probe", "generation", "unscanned", "settled"}
Frames == {"verify", "verified", "scan", "inventory", "approve", "approved", "publish", "again"}
Rest == {"build", "copy", "decode", "policy", "recopy", "redecode",
         "toolchain", "resolve", "fingerprint", "stamp", "finalize", "attach"}
Steps == {"idle", "check", "hold", "discover"} \cup Hits \cup Frames \cup Rest

Kept == [snapshot : Digests \cup {None}, guard : Guards \cup {None}]
Saves == [copy : Copies, frameworks : Digests, tool : Tools, stamp : Stamps]
Locals ==
  [taken : Whole \cup {None}, found : Selections \cup {None}, generation : 0..MaxNoise,
   loaded : ImageLists \cup {None}, kept : Kept \cup {None}, frameworks : Digests \cup {None},
   copy : Copies \cup {None}, policy : Policies \cup {None}, shared : BOOLEAN,
   resolved : ImageLists \cup Tools \cup {None}, tool : Tools \cup {None}, stamp : Stamps \cup {None}]

\* Also the types of what only one evaluation sees, and the bounds that come from the number of events.
Typed ==
  /\ TypeOK
  /\ pc \in [Callers -> Steps]
  /\ own \in [Callers -> Locals]
  /\ saved \in Saves \cup {None}
  /\ edits <= noise
  /\ generation <= noise /\ (loading => generation < noise)
  /\ inForce = [c \in Callers |-> inForce[c]]

\* The digest and the guard of one inventory: of one list, as long as none has come back.
Match(s, g) == \/ s = None /\ g = None
               \/ s # None /\ g # None /\ (~reverted => g.names = s.images)

\* What was read with the generation that is still current is still loaded.
Loaded(names, g) == g <= generation /\ (g = generation => names = images)
Guarded(g) == g # None => Loaded(g.names, g.generation)

\* A copy that no edit has followed is the environment.
Exact(copy) == copy.made <= edits /\ (copy.made = edits => copy.env = env)

\* The stamp made from digest d and a copy of the environment.
StampOf(d, copy) == [frameworks |-> d, policy |-> copy.env.policy, tool |-> copy.env.tool]
Certified(r) == r.stamp = StampOf(r.digest, r.copy)

\* The values the threads share.
Shared ==
  /\ (\A c \in Callers : pc[c] # "again") => Match(snapshot, guard)
  /\ Guarded(guard)
  /\ cached # None => Exact(cached)
  /\ toolchain # None => toolchain.digest = toolchain.sel
  /\ saved # None => saved.stamp = StampOf(saved.frameworks, saved.copy)
  /\ record \in Whole => Certified(record)

\* What an evaluation that holds the lock, or is about to, relies on.
InHit(c) ==
  LET o == own[c] IN
  /\ pc[c] \in Hits \cup {"hold"} => o.taken \in Whole /\ Certified(o.taken)
  /\ pc[c] \in {"generation", "unscanned", "settled"} => o.taken.digest = snapshot /\ o.taken.guard = guard
  /\ pc[c] = "unscanned" => o.generation <= generation
  /\ pc[c] = "settled" /\ ~reverted => o.taken.digest.images \in inForce[c].images

InFrame(c) ==
  LET o == own[c] IN
  /\ pc[c] \in Frames => /\ o.kept \in Kept /\ o.kept.snapshot = snapshot /\ o.found \in Selections
                         /\ Match(o.kept.snapshot, o.kept.guard) /\ Guarded(o.kept.guard)
  /\ pc[c] \in Frames \ {"again"} => o.kept.guard = guard
  /\ pc[c] \in {"verify", "verified", "scan"} => snapshot # None
  /\ pc[c] \in {"verified", "scan", "approved"} => o.generation <= generation
  /\ pc[c] \in {"approve", "approved", "publish", "again"} => o.loaded \in ImageLists
  /\ pc[c] = "publish" => /\ o.resolved \in ImageLists /\ o.resolved \in inForce[c].images
                          /\ Loaded(o.resolved, o.generation)
                          /\ (~reverted /\ o.resolved # o.loaded => images # o.loaded)
  /\ pc[c] = "again" => guard # None /\ o.loaded \in inForce[c].images /\ (~reverted => guard.names = o.loaded)

\* The policy o.policy was in force during the call.
PolicySeen(c) ==
  IF own[c].policy = Override THEN FALSE \in inForce[c].standard
  ELSE TRUE \in inForce[c].standard /\ own[c].policy \in inForce[c].policy

\* After framework_identity.
InRest(c) ==
  LET o == own[c] IN
  /\ pc[c] \in Rest =>
       o.frameworks \in Digests /\ (~reverted => o.frameworks.images \in inForce[c].images) /\ snapshot # None
  /\ pc[c] \in {"copy", "decode", "policy"} => TRUE \in inForce[c].standard
  /\ pc[c] \in Rest \ {"build", "copy", "recopy"} =>
       o.copy \in Copies /\ Exact(o.copy) /\ o.copy.env.policy \in inForce[c].policy /\ o.copy.env.tool \in inForce[c].tool
  /\ pc[c] \in Rest \ {"build", "copy", "decode", "policy"} =>
       /\ o.policy \in Policies /\ PolicySeen(c)
       /\ o.shared => o.policy = o.copy.env.policy
  /\ pc[c] \in {"build", "copy", "decode", "policy", "recopy", "redecode"} => ~o.shared
  /\ pc[c] = "fingerprint" => o.resolved \in Tools /\ (o.resolved # o.copy.env.tool => env.tool # o.copy.env.tool)
  /\ pc[c] \in {"stamp", "finalize", "attach"} => o.tool = o.copy.env.tool /\ toolchain # None
  /\ pc[c] \in {"finalize", "attach"} => o.shared /\ o.stamp = StampOf(o.frameworks, o.copy)
  /\ pc[c] = "attach" => o.taken \in Whole /\ Certified(o.taken)

\* One evaluation: the lock, its step, what has been in force, and what it has answered.
CallOK(c) ==
  /\ pc[c] \in Hits \cup Frames <=> lock = c
  /\ pc[c] \in {"idle", "check", "discover"} => own[c] = Blank
  /\ pc[c] # "idle" => answer[c] = None
  /\ images \in inForce[c].images /\ standard \in inForce[c].standard
  /\ env.policy \in inForce[c].policy /\ env.tool \in inForce[c].tool
  /\ InHit(c) /\ InFrame(c) /\ InRest(c)
  /\ answer[c] # None => /\ ~reverted => answer[c].frameworks.images \in inForce[c].images
                         /\ answer[c].tool \in inForce[c].tool
                         /\ IF answer[c].policy = Override THEN FALSE \in inForce[c].standard
                            ELSE TRUE \in inForce[c].standard /\ answer[c].policy \in inForce[c].policy

IInv == Typed /\ Shared /\ \A c \in Callers : CallOK(c)

--------------------------------------------------------------------------------
\* Kinds of values.

LEMMA NoneFacts ==
  /\ None \notin Stamps /\ None \notin Digests /\ None \notin Copies /\ None \notin Guards
  /\ None \notin ToolSnapshots /\ None \notin Partial /\ None \notin Whole
  /\ None \notin Callers /\ None \notin Policies /\ None \notin Tools
  /\ None \notin Selections /\ None \notin ImageLists
  /\ MaxNoise \in Nat
  BY ContractAssumption

LEMMA EnvFacts ==
  ASSUME NEW e \in Envs
  PROVE  e.policy \in Policies /\ e.tool \in Tools /\ e.policy # Override
  BY ContractAssumption DEF Policies, Tools

LEMMA RecordFacts ==
  /\ \A r \in Whole : r.full /\ r.digest \in Digests /\ r.guard \in Guards /\ r.sel \in Selections
                       /\ r.copy \in Copies /\ r.toolchain \in ToolSnapshots /\ r.stamp \in Stamps
  /\ \A r \in Partial : ~r.full /\ r.digest \in Digests /\ r.guard \in Guards /\ r.sel \in Selections
  /\ Whole \cap Partial = {}
  BY DEF Whole, Partial

LEMMA BlankLocals == Blank \in Locals
  BY ContractAssumption DEF Blank, Locals

LEMMA StampFacts ==
  ASSUME NEW d \in Digests, NEW copy \in Copies
  PROVE  StampOf(d, copy) \in Stamps
<1>1. copy.env \in Envs
  BY DEF Copies
<1>2. QED
  BY <1>1, EnvFacts DEF StampOf, Stamps

--------------------------------------------------------------------------------
\* A step of one evaluation, seen from the others.

\* A step of c: the world stands still, the others keep what is theirs, only the holder of the lock
\* changes the digest and the guard, and what has been found is not lost.
Local(c) ==
  /\ \A d \in Callers \ {c} : /\ pc'[d] = pc[d] /\ own'[d] = own[d]
                              /\ answer'[d] = answer[d] /\ inForce'[d] = inForce[d]
  /\ UNCHANGED world /\ reverted' = reverted
  /\ \/ lock' = lock
     \/ lock = None /\ lock' = c
     \/ lock = c /\ lock' = None
  /\ lock # c => UNCHANGED <<snapshot, guard>>
  /\ snapshot # None => snapshot' # None
  /\ toolchain # None => toolchain' # None

LEMMA OtherOK ==
  ASSUME IInv, NEW c \in Callers, NEW d \in Callers, d # c, Local(c)
  PROVE  CallOK(d)'
<1> USE DEF world
<1>1. CallOK(d) /\ d # None /\ c # None
  BY NoneFacts DEF IInv
<1>2. lock = c => pc[d] \notin Hits \cup Frames
  BY <1>1 DEF CallOK
<1>3. pc'[d] = pc[d] /\ own'[d] = own[d] /\ answer'[d] = answer[d] /\ inForce'[d] = inForce[d]
  BY DEF Local
<1>4. UNCHANGED <<env, edits, images, generation, loading, selection, standard, reverted>>
  BY DEF Local
<1>5. InHit(d)'
  <2>1. CASE lock = c
    BY <1>1, <1>2, <1>3, <1>4, <2>1 DEF CallOK, InHit, Certified, StampOf, Hits
  <2>2. CASE lock # c
    BY <1>1, <1>3, <1>4, <2>2 DEF CallOK, InHit, Certified, StampOf, Local
  <2>3. QED
    BY <2>1, <2>2
<1>6. InFrame(d)'
  <2>1. CASE lock = c
    BY <1>1, <1>2, <1>3, <1>4, <2>1 DEF InFrame, Frames
  <2>2. CASE lock # c
    BY <1>1, <1>3, <1>4, <2>2 DEF CallOK, InFrame, Match, Guarded, Loaded, Local
  <2>3. QED
    BY <2>1, <2>2
<1>7. InRest(d)'
  <2>1. (snapshot # None => snapshot' # None) /\ (toolchain # None => toolchain' # None)
    BY DEF Local
  <2>2. InRest(d)
    BY <1>1 DEF CallOK
  <2>3. QED
    BY <1>3, <1>4, <2>1, <2>2 DEF InRest, PolicySeen, Exact, StampOf, Certified, Rest
<1>8. pc'[d] \in Hits \cup Frames <=> lock' = d
  BY <1>1, <1>3 DEF CallOK, Local
<1>9. QED
  BY <1>1, <1>3, <1>4, <1>5, <1>6, <1>7, <1>8 DEF CallOK

LEMMA LocalInv ==
  ASSUME IInv, NEW c \in Callers, Local(c), Typed', Shared', CallOK(c)'
  PROVE  IInv'
  BY OtherOK DEF IInv

LEMMA InitInv == Init => IInv
<1> SUFFICES ASSUME Init PROVE IInv
  OBVIOUS
<1>1. Typed
  <2>1. TypeOK
    <3>1. edits \in 0..MaxNoise /\ generation \in 0..MaxNoise /\ noise \in 0..MaxNoise
      BY NoneFacts DEF Init
    <3>2. answer \in [Callers -> Stamps \cup {None}]
      BY DEF Init
    <3>3. QED
      BY <3>1, <3>2 DEF Init, TypeOK
  <2>2. pc \in [Callers -> Steps] /\ own \in [Callers -> Locals]
    BY BlankLocals DEF Init, Steps
  <2>3. inForce = [c \in Callers |-> inForce[c]]
    BY DEF Init
  <2>4. QED
    BY <2>1, <2>2, <2>3 DEF Init, Typed
<1>2. Shared
  BY NoneFacts DEF Init, Shared, Match, Guarded
<1>3. ASSUME NEW c \in Callers PROVE CallOK(c)
  BY <1>3, NoneFacts DEF Init, CallOK, InHit, InFrame, InRest, Hits, Frames, Rest, Now
<1>4. QED
  BY <1>1, <1>2, <1>3 DEF IInv

\* Nothing shared changes: what is left to show is about the step and the local variables of c.
LEMMA SharedSame ==
  ASSUME IInv, NEW c \in Callers, UNCHANGED <<world, globals, reverted>>, pc[c] # "again",
         \A d \in Callers \ {c} : pc'[d] = pc[d]
  PROVE  Shared'
<1>1. (\A d \in Callers : pc'[d] # "again") => (\A d \in Callers : pc[d] # "again")
  OBVIOUS
<1>2. Shared
  BY DEF IInv
<1>3. UNCHANGED <<env, edits, images, generation, snapshot, guard, cached, toolchain, saved, record, reverted>>
  BY DEF world, globals
<1>4. QED
  BY <1>1, <1>2, <1>3 DEF Shared, Match, Guarded, Loaded, Exact, Certified, StampOf

\* The step of an evaluation that goes on, whatever shared values it writes.
LEMMA WriteInv ==
  ASSUME IInv, NEW c \in Callers, NEW p \in Steps \ {"idle"}, NEW o \in Locals,
         pc[c] # "idle", Goto(c, p), own' = [own EXCEPT ![c] = o], Quiet,
         snapshot' \in Digests \cup {None}, guard' \in Guards \cup {None}, cached' \in Copies \cup {None},
         toolchain' \in ToolSnapshots \cup {None}, saved' \in Saves \cup {None},
         record' \in Partial \cup Whole \cup {None}, Shared',
         lock # c => UNCHANGED <<snapshot, guard>>,
         snapshot # None => snapshot' # None, toolchain # None => toolchain' # None,
         lock' = lock \/ (lock = None /\ lock' = c) \/ (lock = c /\ lock' = None),
         p \in Hits \cup Frames <=> lock' = c,
         p \in {"check", "discover"} => o = Blank,
         InHit(c)', InFrame(c)', InRest(c)'
  PROVE  IInv'
<1> USE DEF Quiet, Calm, Goto
<1>0. Typed
  BY DEF IInv
<1>1. pc'[c] = p /\ own'[c] = o /\ \A d \in Callers \ {c} : pc'[d] = pc[d] /\ own'[d] = own[d]
  BY <1>0 DEF Typed
<1>2. Typed'
  BY <1>0 DEF Typed, TypeOK, world
<1>3. CallOK(c)'
  BY <1>1, NoneFacts DEF IInv, CallOK, world
<1>4. Local(c)
  BY <1>1 DEF Local, world
<1>5. QED
  BY <1>2, <1>3, <1>4, LocalInv

\* The same when nothing shared changes.
LEMMA QuietInv ==
  ASSUME IInv, NEW c \in Callers, NEW p \in Steps \ {"idle"}, NEW o \in Locals,
         pc[c] \notin {"idle", "again"}, Goto(c, p), own' = [own EXCEPT ![c] = o],
         Quiet, UNCHANGED globals,
         lock' = lock \/ (lock = None /\ lock' = c) \/ (lock = c /\ lock' = None),
         p \in Hits \cup Frames <=> lock' = c,
         p \in {"check", "discover"} => o = Blank,
         InHit(c)', InFrame(c)', InRest(c)'
  PROVE  IInv'
<1>1. Typed /\ \A d \in Callers \ {c} : pc'[d] = pc[d]
  BY DEF IInv, Typed, Goto
<1>2. Shared'
  BY <1>1, SharedSame DEF Quiet, Calm
<1>3. UNCHANGED <<snapshot, guard, cached, toolchain, saved, record>>
  BY DEF globals
<1>4. /\ snapshot' \in Digests \cup {None} /\ guard' \in Guards \cup {None} /\ cached' \in Copies \cup {None}
      /\ toolchain' \in ToolSnapshots \cup {None} /\ saved' \in Saves \cup {None}
      /\ record' \in Partial \cup Whole \cup {None}
  BY <1>1, <1>3 DEF Typed, TypeOK
<1>5. QED
  BY <1>2, <1>3, <1>4, WriteInv

\* What an answer has to satisfy.
Answerable(c, s) ==
  s # None => /\ ~reverted => s.frameworks.images \in inForce[c].images
              /\ s.tool \in inForce[c].tool
              /\ IF s.policy = Override THEN FALSE \in inForce[c].standard
                 ELSE TRUE \in inForce[c].standard /\ s.policy \in inForce[c].policy

\* The end of an evaluation, with the lock released if it was held.
LEMMA FinishInv ==
  ASSUME IInv, NEW c \in Callers, NEW s \in Stamps \cup {None}, Finish(c, s), Calm, Answerable(c, s),
         lock' = (IF lock = c THEN None ELSE lock),
         lock # c => UNCHANGED <<snapshot, guard>>,
         snapshot' = snapshot, UNCHANGED <<cached, toolchain, saved>>,
         guard' \in Guards \cup {None}, record' \in {record, None} \/ record' \in Whole, Shared'
  PROVE  IInv'
<1> USE DEF Calm, Finish, Goto, Set
<1>0. Typed
  BY DEF IInv
<1>1. /\ pc'[c] = "idle" /\ own'[c] = Blank /\ answer'[c] = s
      /\ \A d \in Callers \ {c} : pc'[d] = pc[d] /\ own'[d] = own[d] /\ answer'[d] = answer[d]
  BY <1>0 DEF Typed, TypeOK
<1>2. Typed'
  BY <1>0, BlankLocals DEF Typed, TypeOK, world, Steps
<1>3. InHit(c)' /\ InFrame(c)' /\ InRest(c)'
  BY <1>1 DEF InHit, InFrame, InRest, Hits, Frames, Rest
<1>4. CallOK(c)'
  BY <1>1, <1>3, NoneFacts DEF IInv, CallOK, world, Hits, Frames, Answerable
<1>5. Local(c)
  BY <1>1 DEF Local, world
<1>6. QED
  BY <1>2, <1>4, <1>5, LocalInv

--------------------------------------------------------------------------------
\* The saved-identity fast path.

LEMMA CheckInv ==
  ASSUME IInv, NEW c \in Callers, Check(c)
  PROVE  IInv'
<1>0. Typed /\ Shared /\ CallOK(c) /\ pc[c] = "check" /\ own[c] = Blank /\ lock # c
  BY DEF Check, At, IInv, CallOK, Hits, Frames
<1>1. CASE ~env.off /\ record # None /\ record.full
  <2>1. record \in Whole
    BY <1>0, <1>1, RecordFacts DEF Typed, TypeOK
  <2>2. [own[c] EXCEPT !.taken = record] \in Locals
    BY <1>0, <2>1 DEF Typed, Locals
  <2>3. /\ Goto(c, "hold") /\ own' = [own EXCEPT ![c] = [own[c] EXCEPT !.taken = record]]
        /\ Quiet /\ UNCHANGED <<lock, globals>>
    BY <1>1 DEF Check, Set, globals
  <2>4. pc'[c] = "hold" /\ own'[c].taken = record
    BY <1>0, <2>3 DEF Goto, Typed, Locals
  <2>5. InHit(c)' /\ InFrame(c)' /\ InRest(c)'
    BY <1>0, <2>1, <2>4 DEF InHit, InFrame, InRest, Hits, Frames, Rest, Shared, Certified, StampOf
  <2>6. QED
    BY <1>0, <2>2, <2>3, <2>5, QuietInv DEF Steps, Hits, Frames
<1>2. CASE ~(~env.off /\ record # None /\ record.full)
  <2>1. /\ Goto(c, "discover") /\ record' \in {record, None} /\ Quiet
        /\ UNCHANGED <<lock, own, snapshot, guard, cached, toolchain, saved>>
    BY <1>2 DEF Check
  <2>2. pc'[c] = "discover" /\ \A d \in Callers \ {c} : pc'[d] = pc[d]
    BY <1>0, <2>1 DEF Goto, Typed
  <2>3. Typed'
    BY <1>0, <2>1, <2>2 DEF Goto, Quiet, Calm, world, Typed, TypeOK, Steps
  <2>4. Shared'
    BY <1>0, <2>1, <2>2, NoneFacts
    DEF Quiet, Calm, world, Shared, Match, Guarded, Loaded, Exact, Certified, StampOf
  <2>5. CallOK(c)'
    BY <1>0, <2>1, <2>2 DEF Quiet, Calm, world, CallOK, InHit, InFrame, InRest, Hits, Frames, Rest
  <2>6. Local(c)
    BY <2>1, <2>2 DEF Quiet, Calm, Local, world
  <2>7. QED
    BY <2>3, <2>4, <2>5, <2>6, LocalInv
<1>3. QED
  BY <1>1, <1>2

LEMMA HoldInv ==
  ASSUME IInv, NEW c \in Callers, Hold(c)
  PROVE  IInv'
<1>0. Typed /\ CallOK(c) /\ pc[c] = "hold" /\ lock = None
  BY DEF Hold, Acquire, At, IInv
<1>1. Goto(c, "probe") /\ own' = own /\ lock' = c /\ Quiet /\ UNCHANGED globals
  BY DEF Hold, Acquire, globals
<1>2. pc'[c] = "probe" /\ own' = [own EXCEPT ![c] = own[c]] /\ own[c] \in Locals
  BY <1>0, <1>1 DEF Goto, Typed
<1>3. InHit(c)' /\ InFrame(c)' /\ InRest(c)'
  BY <1>0, <1>1, <1>2 DEF CallOK, InHit, InFrame, InRest, Hits, Frames, Rest, Certified, StampOf
<1>4. QED
  BY <1>0, <1>1, <1>2, <1>3, QuietInv DEF Steps, Hits

LEMMA MissInv ==
  ASSUME IInv, NEW c \in Callers, pc[c] \in Hits, Miss(c)
  PROVE  IInv'
<1>0. Typed /\ Shared /\ CallOK(c) /\ lock = c
  BY DEF IInv, CallOK
<1>1. /\ lock' = None /\ record' = None /\ Goto(c, "discover") /\ own' = [own EXCEPT ![c] = Blank] /\ Quiet
      /\ UNCHANGED <<snapshot, guard, cached, toolchain, saved>>
  BY DEF Miss, Release, Set
<1>2. pc'[c] = "discover" /\ \A d \in Callers \ {c} : pc'[d] = pc[d]
  BY <1>0, <1>1 DEF Goto, Typed
<1>3. Shared'
  BY <1>0, <1>1, <1>2, NoneFacts
  DEF Hits, Quiet, Calm, world, Shared, Match, Guarded, Loaded, Exact, Certified, StampOf
<1>4. InHit(c)' /\ InFrame(c)' /\ InRest(c)'
  BY <1>2 DEF InHit, InFrame, InRest, Hits, Frames, Rest
<1>5. /\ snapshot' \in Digests \cup {None} /\ guard' \in Guards \cup {None} /\ cached' \in Copies \cup {None}
      /\ toolchain' \in ToolSnapshots \cup {None} /\ saved' \in Saves \cup {None}
      /\ record' \in Partial \cup Whole \cup {None}
  BY <1>0, <1>1 DEF Typed, TypeOK
<1>6. pc[c] # "idle" /\ "discover" \in Steps \ {"idle"} /\ "discover" \notin Hits \cup Frames /\ c # None
  BY NoneFacts DEF Hits, Steps, Frames
<1>7. QED
  BY <1>0, <1>1, <1>3, <1>4, <1>5, <1>6, BlankLocals, WriteInv

LEMMA RefuseInv ==
  ASSUME IInv, NEW c \in Callers, pc[c] \in Hits, Refuse(c)
  PROVE  IInv'
<1>0. Typed /\ Shared /\ CallOK(c) /\ lock = c
  BY DEF IInv, CallOK
<1>1. /\ lock' = None /\ record' = None /\ Finish(c, None) /\ Calm
      /\ UNCHANGED <<snapshot, guard, cached, toolchain, saved>>
  BY DEF Refuse, Release
<1>2. pc'[c] = "idle" /\ \A d \in Callers \ {c} : pc'[d] = pc[d]
  BY <1>0, <1>1 DEF Finish, Goto, Typed
<1>3. Shared'
  BY <1>0, <1>1, <1>2, NoneFacts
  DEF Hits, Calm, world, Shared, Match, Guarded, Loaded, Exact, Certified, StampOf
<1>4. guard' \in Guards \cup {None}
  BY <1>0, <1>1 DEF Typed, TypeOK
<1>5. QED
  BY <1>0, <1>1, <1>3, <1>4, FinishInv DEF Answerable

LEMMA ProbeInv ==
  ASSUME IInv, NEW c \in Callers, Probe(c)
  PROVE  IInv'
<1>0. Typed /\ CallOK(c) /\ pc[c] = "probe" /\ lock = c
  BY DEF Probe, At, IInv, CallOK, Hits
<1>1. CASE own[c].taken.digest = snapshot /\ own[c].taken.guard = guard /\ ~Miss(c)
  <2>1. Goto(c, "generation") /\ Quiet /\ UNCHANGED <<lock, globals, own>>
    BY <1>1 DEF Probe
  <2>2. pc'[c] = "generation" /\ own' = [own EXCEPT ![c] = own[c]] /\ own[c] \in Locals
    BY <1>0, <2>1 DEF Goto, Typed
  <2>3. InHit(c)' /\ InFrame(c)' /\ InRest(c)'
    BY <1>0, <1>1, <2>1, <2>2 DEF globals, CallOK, InHit, InFrame, InRest, Hits, Frames, Rest, Certified, StampOf
  <2>4. QED
    BY <1>0, <2>1, <2>2, <2>3, QuietInv DEF Steps, Hits
<1>2. CASE Miss(c)
  BY <1>0, <1>2, MissInv DEF Hits
<1>3. QED
  BY <1>1, <1>2 DEF Probe

LEMMA GenerationInv ==
  ASSUME IInv, NEW c \in Callers, Generation(c)
  PROVE  IInv'
<1>0. Typed /\ CallOK(c) /\ pc[c] = "generation" /\ lock = c
  BY DEF Generation, At, IInv, CallOK, Hits
<1>1. CASE loading
  BY <1>0, <1>1, RefuseInv DEF Generation, Hits
<1>2. CASE ~loading
  <2> DEFINE o == [own[c] EXCEPT !.generation = generation]
  <2>1. Goto(c, "unscanned") /\ own' = [own EXCEPT ![c] = o] /\ Quiet /\ UNCHANGED <<lock, globals>>
    BY <1>2 DEF Generation, Set
  <2>2. o \in Locals
    BY <1>0 DEF Typed, TypeOK, Locals
  <2>3. pc'[c] = "unscanned" /\ own'[c] = o /\ o.taken = own[c].taken /\ o.generation = generation
    BY <1>0, <2>1 DEF Goto, Typed, Locals
  <2>4. generation \in Nat /\ UNCHANGED <<generation, snapshot, guard>>
    BY <1>0, <2>1, NoneFacts DEF Typed, TypeOK, Quiet, Calm, world, globals
  <2>5. InHit(c)' /\ InFrame(c)' /\ InRest(c)'
    <3> HIDE DEF o
    <3>1. QED
      BY <1>0, <2>3, <2>4 DEF CallOK, InHit, InFrame, InRest, Hits, Frames, Rest, Certified, StampOf
  <2>6. QED
    BY <1>0, <2>1, <2>2, <2>5, QuietInv DEF Steps, Hits
<1>3. QED
  BY <1>1, <1>2

LEMMA UnscannedInv ==
  ASSUME IInv, NEW c \in Callers, Unscanned(c)
  PROVE  IInv'
<1>0. Typed /\ Shared /\ CallOK(c) /\ pc[c] = "unscanned" /\ lock = c
  BY DEF Unscanned, At, IInv, CallOK, Hits
<1>1. CASE Refuse(c)
  BY <1>0, <1>1, RefuseInv DEF Hits
<1>2. CASE Miss(c)
  BY <1>0, <1>2, MissInv DEF Hits
<1>3. CASE generation = guard.generation /\ Goto(c, "settled") /\ Quiet /\ UNCHANGED <<lock, globals, own>>
  <2>1. pc'[c] = "settled" /\ own' = [own EXCEPT ![c] = own[c]] /\ own[c] \in Locals
    BY <1>0, <1>3 DEF Goto, Typed
  <2>2. own[c].taken \in Whole /\ own[c].taken.digest = snapshot /\ own[c].taken.guard = guard
    BY <1>0 DEF CallOK, InHit, Hits
  <2>3. snapshot # None /\ guard # None
    BY <2>2, RecordFacts, NoneFacts
  <2>4. \A d \in Callers : pc[d] # "again"
    BY <1>0 DEF IInv, CallOK, Frames
  <2>5. ~reverted => guard.names = snapshot.images /\ guard.names = images
    BY <1>0, <1>3, <2>3, <2>4 DEF Shared, Match, Guarded, Loaded
  <2>6. ~reverted => snapshot.images \in inForce[c].images
    BY <1>0, <2>5 DEF CallOK
  <2>7. InHit(c)' /\ InFrame(c)' /\ InRest(c)'
    BY <1>0, <1>3, <2>1, <2>2, <2>6
    DEF Quiet, Calm, globals, CallOK, InHit, InFrame, InRest, Hits, Frames, Rest, Certified, StampOf
  <2>8. QED
    BY <1>0, <1>3, <2>1, <2>7, QuietInv DEF Steps, Hits
<1>4. QED
  BY <1>1, <1>2, <1>3 DEF Unscanned

LEMMA SettledInv ==
  ASSUME IInv, NEW c \in Callers, Settled(c)
  PROVE  IInv'
<1> DEFINE r == own[c].taken
<1>0. Typed /\ Shared /\ CallOK(c) /\ pc[c] = "settled" /\ lock = c
  BY DEF Settled, At, IInv, CallOK, Hits
<1>1. CASE Miss(c)
  BY <1>0, <1>1, MissInv DEF Hits
<1>2. CASE /\ standard /\ cached = r.copy /\ edits = r.copy.made
           /\ Release /\ Finish(c, r.stamp) /\ Calm /\ UNCHANGED globals
  <2>1. r \in Whole /\ Certified(r) /\ (~reverted => r.digest.images \in inForce[c].images)
    BY <1>0 DEF CallOK, InHit, Hits
  <2>2. r.copy \in Copies /\ r.copy # None /\ r.stamp \in Stamps
    BY <2>1, RecordFacts, NoneFacts
  <2>3. r.copy.env = env
    BY <1>0, <1>2, <2>2 DEF Shared, Exact
  <2>4. env \in Envs /\ env.policy # Override /\ env.policy \in inForce[c].policy /\ env.tool \in inForce[c].tool
        /\ TRUE \in inForce[c].standard
    BY <1>0, <1>2, EnvFacts DEF CallOK, Typed, TypeOK
  <2>5. Answerable(c, r.stamp)
    <3>1. r.stamp.frameworks = r.digest /\ r.stamp.policy = env.policy /\ r.stamp.tool = env.tool
      BY <2>1, <2>3 DEF Certified, StampOf
    <3>2. QED
      BY <2>1, <2>4, <3>1 DEF Answerable
  <2>6. /\ UNCHANGED <<snapshot, guard, cached, toolchain, saved, record>> /\ lock' = None
    BY <1>2 DEF globals, Release
  <2>7. Shared'
    BY <1>0, <1>2, SharedSame DEF Calm, Finish, Goto, Typed
  <2>8. guard' \in Guards \cup {None}
    BY <1>0, <2>6 DEF Typed, TypeOK
  <2>9. QED
    BY <1>0, <1>2, <2>2, <2>5, <2>6, <2>7, <2>8, FinishInv
<1>3. QED
  BY <1>1, <1>2 DEF Settled

--------------------------------------------------------------------------------
\* framework_identity, under its lock.

\* A step under the lock that writes nothing shared.
LEMMA StillInv ==
  ASSUME IInv, NEW c \in Callers, NEW p \in Frames \ {"again"}, NEW o \in Locals,
         pc[c] \in Frames \ {"again"}, Still(c, p), own' = [own EXCEPT ![c] = o],
         o.kept = own[c].kept, o.found = own[c].found,
         p \in {"verify", "verified", "scan"} => snapshot # None,
         p \in {"verified", "scan", "approved"} => o.generation <= generation,
         p \in {"approve", "approved", "publish"} => o.loaded \in ImageLists,
         p = "publish" => /\ o.resolved \in ImageLists /\ o.resolved \in inForce[c].images
                          /\ Loaded(o.resolved, o.generation)
                          /\ (o.resolved # o.loaded => images # o.loaded)
  PROVE  IInv'
<1>0. Typed /\ CallOK(c) /\ lock = c
  BY DEF IInv, CallOK
<1>1. Goto(c, p) /\ Quiet /\ UNCHANGED <<lock, globals>>
  BY DEF Still
<1>2. pc'[c] = p /\ own'[c] = o
  BY <1>0, <1>1 DEF Goto, Typed
<1>3. p \in Steps \ {"idle"} /\ p \notin Hits \cup {"hold"} /\ p \notin Rest /\ p \notin {"check", "discover"}
      /\ pc[c] \notin {"idle", "again"}
  BY DEF Steps, Frames, Hits, Rest
<1>4. InHit(c)'
  BY <1>2, <1>3 DEF InHit, Hits
<1>5. InRest(c)'
  BY <1>2, <1>3 DEF InRest, Rest
<1>6. InFrame(c)'
  BY <1>0, <1>1, <1>2 DEF Quiet, Calm, world, globals, CallOK, InFrame, Match, Guarded, Loaded
<1>7. QED
  BY <1>0, <1>1, <1>3, <1>4, <1>5, <1>6, QuietInv

\* An exception.
LEMMA RollBackInv ==
  ASSUME IInv, NEW c \in Callers, pc[c] \in Frames, RollBack(c)
  PROVE  IInv'
<1>0. Typed /\ Shared /\ CallOK(c) /\ lock = c
  BY DEF IInv, CallOK
<1>1. /\ lock' = None /\ Finish(c, None) /\ Calm /\ UNCHANGED <<cached, toolchain, saved, record>>
      /\ snapshot' = own[c].kept.snapshot /\ guard' = own[c].kept.guard
  BY DEF RollBack, Release
<1>2. /\ own[c].kept \in Kept /\ own[c].kept.snapshot = snapshot
      /\ Match(own[c].kept.snapshot, own[c].kept.guard) /\ Guarded(own[c].kept.guard)
  BY <1>0 DEF CallOK, InFrame
<1>3. Shared'
  BY <1>0, <1>1, <1>2 DEF Calm, world, Shared, Match, Guarded, Loaded, Exact, Certified, StampOf
<1>4. snapshot' = snapshot /\ guard' \in Guards \cup {None}
  BY <1>1, <1>2 DEF Kept
<1>5. QED
  BY <1>0, <1>1, <1>3, <1>4, FinishInv DEF Answerable

\* The return with digest d.
LEMMA IdentifiedInv ==
  ASSUME IInv, NEW c \in Callers, NEW d \in Digests, pc[c] \in Frames, Identified(c, d), Quiet,
         snapshot' = d, ~reverted => d.images \in inForce[c].images, guard' \in Guards \cup {None},
         UNCHANGED <<cached, toolchain, saved, record>>, Shared'
  PROVE  IInv'
<1> DEFINE o == [Blank EXCEPT !.frameworks = d]
<1>0. Typed /\ CallOK(c) /\ lock = c
  BY DEF IInv, CallOK
<1>1. lock' = None /\ Goto(c, "build") /\ own' = [own EXCEPT ![c] = o]
  BY DEF Identified, Release, Set
<1>2. o \in Locals /\ o.frameworks = d /\ o.shared = FALSE
  BY BlankLocals DEF Locals, Blank
<1> HIDE DEF o
<1>3. pc'[c] = "build" /\ own'[c] = o
  BY <1>0, <1>1 DEF Goto, Typed
<1>4. InHit(c)' /\ InFrame(c)'
  BY <1>3 DEF InHit, InFrame, Hits, Frames
<1>5. InRest(c)'
  BY <1>2, <1>3, NoneFacts DEF InRest, Rest, Quiet, Calm
<1>6. /\ snapshot' \in Digests \cup {None} /\ cached' \in Copies \cup {None}
      /\ toolchain' \in ToolSnapshots \cup {None} /\ saved' \in Saves \cup {None}
      /\ record' \in Partial \cup Whole \cup {None}
  BY <1>0 DEF Typed, TypeOK
<1>7. pc[c] # "idle" /\ "build" \in Steps \ {"idle"} /\ "build" \notin Hits \cup Frames /\ c # None /\ snapshot' # None
  BY NoneFacts DEF Frames, Steps, Hits, Rest
<1>8. QED
  BY <1>0, <1>1, <1>2, <1>4, <1>5, <1>6, <1>7, WriteInv

LEMMA DiscoverInv ==
  ASSUME IInv, NEW c \in Callers, Discover(c)
  PROVE  IInv'
<1> DEFINE kept == [snapshot |-> snapshot, guard |-> guard]
           o == [own[c] EXCEPT !.found = selection, !.kept = kept]
           p == IF snapshot = None THEN "inventory" ELSE "verify"
<1>0. Typed /\ Shared /\ CallOK(c) /\ pc[c] = "discover" /\ lock = None /\ c # None
  BY NoneFacts DEF Discover, At, IInv
<1>1. CASE Finish(c, None) /\ Calm /\ UNCHANGED <<lock, globals>>
  <2>1. Shared'
    BY <1>0, <1>1, SharedSame DEF Calm, Finish, Goto, Typed
  <2>2. UNCHANGED <<snapshot, guard, cached, toolchain, saved, record>> /\ guard' \in Guards \cup {None}
    BY <1>0, <1>1 DEF globals, Typed, TypeOK
  <2>3. QED
    BY <1>0, <1>1, <2>1, <2>2, FinishInv DEF Answerable
<1>2. CASE lock' = c /\ Goto(c, p) /\ own' = [own EXCEPT ![c] = o] /\ Quiet /\ UNCHANGED globals
  <2>1. kept \in Kept /\ selection \in Selections
    BY <1>0 DEF Kept, Typed, TypeOK
  <2>2. o \in Locals /\ o.kept = kept /\ o.found = selection
    <3> DEFINE m == [own[c] EXCEPT !.found = selection]
    <3>1. own[c] \in Locals
      BY <1>0 DEF Typed
    <3>2. m \in Locals /\ m.found = selection
      BY <2>1, <3>1 DEF Locals
    <3>3. o = [m EXCEPT !.kept = kept]
      BY <3>1 DEF Locals
    <3> HIDE DEF m, kept, o
    <3>4. [m EXCEPT !.kept = kept] \in Locals /\ [m EXCEPT !.kept = kept].kept = kept
          /\ [m EXCEPT !.kept = kept].found = m.found
      BY <2>1, <3>2 DEF Locals
    <3>5. QED
      BY <3>2, <3>3, <3>4
  <2>3. pc'[c] = p /\ own'[c] = o
    BY <1>0, <1>2 DEF Goto, Typed
  <2>4. \A d \in Callers : pc[d] # "again"
    BY <1>0, NoneFacts DEF IInv, CallOK, Frames
  <2>5. UNCHANGED <<env, edits, images, generation, snapshot, guard, reverted>>
    BY <1>2 DEF globals, Quiet, Calm, world
  <2>6. Match(kept.snapshot, kept.guard) /\ Guarded(kept.guard)
    BY <1>0, <2>4 DEF Shared
  <2>7. kept.snapshot = snapshot /\ kept.guard = guard
    OBVIOUS
  <2> HIDE DEF o, kept
  <2>8. InFrame(c)'
    BY <2>1, <2>2, <2>3, <2>5, <2>6, <2>7 DEF InFrame, Match, Guarded, Loaded, Frames
  <2>9. InHit(c)' /\ InRest(c)'
    BY <2>3 DEF InHit, InRest, Hits, Rest
  <2>10. p \in Steps \ {"idle"} /\ p \in Hits \cup Frames /\ p \notin {"check", "discover"}
    BY DEF Steps, Frames
  <2>11. QED
    BY <1>0, <1>2, <2>2, <2>8, <2>9, <2>10, QuietInv
<1>3. QED
  BY <1>1, <1>2 DEF Discover, Set, Acquire

LEMMA VerifyInv ==
  ASSUME IInv, NEW c \in Callers, Verify(c)
  PROVE  IInv'
<1> DEFINE o == [own[c] EXCEPT !.generation = generation]
<1>0. Typed /\ CallOK(c) /\ pc[c] = "verify"
  BY DEF Verify, At, IInv
<1>1. CASE RollBack(c)
  BY <1>0, <1>1, RollBackInv DEF Frames
<1>2. CASE own' = [own EXCEPT ![c] = o] /\ Still(c, "verified")
  <2>1. o \in Locals /\ o.kept = own[c].kept /\ o.found = own[c].found /\ o.generation = generation
    BY <1>0 DEF Typed, TypeOK, Locals
  <2>2. snapshot # None /\ generation <= generation
    BY <1>0, NoneFacts DEF CallOK, InFrame, Typed, TypeOK
  <2> HIDE DEF o
  <2>3. pc[c] \in Frames \ {"again"} /\ "verified" \in Frames \ {"again"}
    BY <1>0 DEF Frames
  <2>4. QED
    BY <1>2, <2>1, <2>2, <2>3, StillInv
<1>3. QED
  BY <1>1, <1>2 DEF Verify, Set

LEMMA VerifiedInv ==
  ASSUME IInv, NEW c \in Callers, Verified(c)
  PROVE  IInv'
<1>0. Typed /\ Shared /\ CallOK(c) /\ pc[c] = "verified" /\ own = [own EXCEPT ![c] = own[c]] /\ own[c] \in Locals
  BY DEF Verified, At, IInv, Typed
<1>1. snapshot # None /\ own[c].generation <= generation /\ \A d \in Callers : pc[d] # "again"
  BY <1>0 DEF IInv, CallOK, InFrame, Frames
<1>2. CASE RollBack(c)
  BY <1>0, <1>2, RollBackInv DEF Frames
<1>3. CASE Still(c, "scan") /\ UNCHANGED own
  BY <1>0, <1>1, <1>3, StillInv DEF Frames
<1>4. CASE generation = guard.generation /\ Identified(c, snapshot) /\ Quiet /\ UNCHANGED globals
  <2>1. guard # None /\ (~reverted => guard.names = snapshot.images /\ guard.names = images)
    BY <1>0, <1>1, <1>4 DEF Shared, Match, Guarded, Loaded
  <2>2. snapshot \in Digests /\ guard \in Guards \cup {None}
        /\ (~reverted => snapshot.images \in inForce[c].images)
    BY <1>0, <1>1, <2>1 DEF CallOK, Typed, TypeOK
  <2>3. Shared'
    BY <1>0, <1>4, SharedSame DEF Quiet, Calm, Identified, Goto, Typed
  <2>4. QED
    BY <1>0, <1>4, <2>2, <2>3, IdentifiedInv DEF globals, Frames
<1>5. QED
  BY <1>2, <1>3, <1>4 DEF Verified

LEMMA ScanInv ==
  ASSUME IInv, NEW c \in Callers, Scan(c)
  PROVE  IInv'
<1>0. Typed /\ Shared /\ CallOK(c) /\ pc[c] = "scan" /\ own = [own EXCEPT ![c] = own[c]] /\ own[c] \in Locals
  BY DEF Scan, At, IInv, Typed
<1>1. snapshot # None /\ own[c].generation <= generation /\ \A d \in Callers : pc[d] # "again"
  BY <1>0 DEF IInv, CallOK, InFrame, Frames
<1>2. CASE RollBack(c)
  BY <1>0, <1>2, RollBackInv DEF Frames
<1>3. CASE Still(c, "inventory") /\ UNCHANGED own
  BY <1>0, <1>3, StillInv DEF Frames
<1>4. CASE /\ images = guard.names /\ guard' = [guard EXCEPT !.generation = generation]
           /\ Identified(c, snapshot) /\ Quiet /\ UNCHANGED <<snapshot, cached, toolchain, saved, record>>
  <2>1. guard # None /\ guard \in Guards /\ (~reverted => guard.names = snapshot.images) /\ snapshot \in Digests
    BY <1>0, <1>1 DEF Shared, Match, Typed, TypeOK
  <2>2. guard' \in Guards /\ guard'.names = images /\ guard'.generation = generation /\ guard' # None
    BY <1>0, <1>4, <2>1, NoneFacts DEF Typed, TypeOK, Guards
  <2>3. ~reverted => snapshot.images \in inForce[c].images
    BY <1>0, <1>4, <2>1 DEF CallOK
  <2>4. generation \in Nat /\ UNCHANGED <<env, edits, images, generation, reverted>>
    BY <1>0, <1>4, NoneFacts DEF Typed, TypeOK, Quiet, Calm, world
  <2>5. Shared'
    BY <1>0, <1>1, <1>4, <2>1, <2>2, <2>4 DEF Shared, Match, Guarded, Loaded, Exact, Certified, StampOf
  <2>6. QED
    BY <1>0, <1>4, <2>1, <2>2, <2>3, <2>5, IdentifiedInv DEF Frames
<1>5. QED
  BY <1>2, <1>3, <1>4 DEF Scan

LEMMA InventoryInv ==
  ASSUME IInv, NEW c \in Callers, Inventory(c)
  PROVE  IInv'
<1> DEFINE o == [own[c] EXCEPT !.loaded = images]
<1>0. Typed
  BY DEF IInv
<1>1. pc[c] = "inventory" /\ own' = [own EXCEPT ![c] = o] /\ Still(c, "approve")
  BY DEF Inventory, At, Set
<1>2. o \in Locals /\ o.kept = own[c].kept /\ o.found = own[c].found /\ o.loaded \in ImageLists
  BY <1>0 DEF Typed, TypeOK, Locals
<1> HIDE DEF o
<1>3. pc[c] \in Frames \ {"again"} /\ "approve" \in Frames \ {"again"}
  BY <1>1 DEF Frames
<1>4. QED
  BY <1>1, <1>2, <1>3, StillInv

LEMMA ApproveInv ==
  ASSUME IInv, NEW c \in Callers, Approve(c)
  PROVE  IInv'
<1> DEFINE o == [own[c] EXCEPT !.generation = generation]
<1>0. Typed /\ CallOK(c) /\ pc[c] = "approve"
  BY DEF Approve, At, IInv
<1>1. CASE RollBack(c)
  BY <1>0, <1>1, RollBackInv DEF Frames
<1>2. CASE own' = [own EXCEPT ![c] = o] /\ Still(c, "approved")
  <2>1. o \in Locals /\ o.kept = own[c].kept /\ o.found = own[c].found /\ o.generation = generation
        /\ o.loaded = own[c].loaded
    BY <1>0 DEF Typed, TypeOK, Locals
  <2>2. generation <= generation /\ own[c].loaded \in ImageLists
    BY <1>0, NoneFacts DEF Typed, TypeOK, CallOK, InFrame
  <2> HIDE DEF o
  <2>3. pc[c] \in Frames \ {"again"} /\ "approved" \in Frames \ {"again"}
    BY <1>0 DEF Frames
  <2>4. QED
    BY <1>2, <2>1, <2>2, <2>3, StillInv
<1>3. QED
  BY <1>1, <1>2 DEF Approve, Set

LEMMA ApprovedInv ==
  ASSUME IInv, NEW c \in Callers, Approved(c)
  PROVE  IInv'
<1> DEFINE o == [own[c] EXCEPT !.resolved = images]
<1>0. Typed /\ CallOK(c) /\ pc[c] = "approved"
  BY DEF Approved, At, IInv
<1>1. CASE RollBack(c)
  BY <1>0, <1>1, RollBackInv DEF Frames
<1>2. CASE own' = [own EXCEPT ![c] = o] /\ Still(c, "publish")
  <2>1. o \in Locals /\ o.kept = own[c].kept /\ o.found = own[c].found /\ o.resolved = images
        /\ o.loaded = own[c].loaded /\ o.generation = own[c].generation
    BY <1>0 DEF Typed, TypeOK, Locals
  <2>2. own[c].loaded \in ImageLists /\ images \in ImageLists /\ images \in inForce[c].images
        /\ own[c].generation <= generation
    BY <1>0 DEF Typed, TypeOK, CallOK, InFrame
  <2> HIDE DEF o
  <2>3. Loaded(o.resolved, o.generation)
    BY <2>1, <2>2 DEF Loaded
  <2>4. pc[c] \in Frames \ {"again"} /\ "publish" \in Frames \ {"again"}
    BY <1>0 DEF Frames
  <2>5. QED
    BY <1>2, <2>1, <2>2, <2>3, <2>4, StillInv
<1>3. QED
  BY <1>1, <1>2 DEF Approved, Set

LEMMA PublishGuardInv ==
  ASSUME IInv, NEW c \in Callers, PublishGuard(c)
  PROVE  IInv'
<1>0. Typed /\ Shared /\ CallOK(c) /\ pc[c] = "publish" /\ lock = c
  BY DEF PublishGuard, At, IInv, CallOK, Frames
<1>1. CASE RollBack(c)
  BY <1>0, <1>1, RollBackInv DEF Frames
<1>2. CASE /\ images = own[c].loaded
           /\ guard' = [names |-> own[c].resolved, generation |-> own[c].generation]
           /\ Goto(c, "again") /\ Quiet /\ UNCHANGED <<lock, own, snapshot, cached, toolchain, saved, record>>
  <2>1. pc'[c] = "again" /\ own' = [own EXCEPT ![c] = own[c]] /\ own[c] \in Locals
    BY <1>0, <1>2 DEF Goto, Typed
  <2>2. /\ own[c].resolved \in ImageLists /\ own[c].loaded \in inForce[c].images
        /\ Loaded(own[c].resolved, own[c].generation) /\ own[c].generation \in 0..MaxNoise
        /\ ~reverted => own[c].resolved = own[c].loaded
    BY <1>0, <1>2 DEF CallOK, InFrame, Typed, Locals
  <2>3. /\ guard' \in Guards /\ guard' # None /\ guard'.names = own[c].resolved
        /\ guard'.generation = own[c].generation
    BY <1>2, <2>2, NoneFacts DEF Guards
  <2>4. UNCHANGED <<env, edits, images, generation, inForce, reverted>>
    BY <1>2 DEF Quiet, Calm, world
  <2>5. Shared'
    BY <1>0, <1>2, <2>1, <2>2, <2>3, <2>4 DEF Shared, Match, Guarded, Loaded, Exact, Certified, StampOf
  <2>6. InFrame(c)'
    BY <1>0, <1>2, <2>1, <2>2, <2>3, <2>4 DEF CallOK, InFrame, Frames, Match, Guarded, Loaded
  <2>7. InHit(c)' /\ InRest(c)'
    BY <2>1 DEF InHit, InRest, Hits, Rest
  <2>8. /\ snapshot' \in Digests \cup {None} /\ cached' \in Copies \cup {None}
        /\ toolchain' \in ToolSnapshots \cup {None} /\ saved' \in Saves \cup {None}
        /\ record' \in Partial \cup Whole \cup {None}
    BY <1>0, <1>2 DEF Typed, TypeOK
  <2>9. "again" \in Steps \ {"idle"} /\ "again" \in Frames /\ "again" \notin {"check", "discover"}
    BY DEF Steps, Frames
  <2>10. QED
    BY <1>0, <1>2, <2>1, <2>3, <2>5, <2>6, <2>7, <2>8, <2>9, WriteInv
<1>3. QED
  BY <1>1, <1>2 DEF PublishGuard

LEMMA AgainInv ==
  ASSUME IInv, NEW c \in Callers, Again(c)
  PROVE  IInv'
<1> DEFINE d == [sel |-> own[c].found, images |-> own[c].loaded]
<1>0. Typed /\ Shared /\ CallOK(c) /\ pc[c] = "again" /\ lock = c
  BY DEF Again, At, IInv, CallOK, Frames
<1>1. CASE RollBack(c)
  BY <1>0, <1>1, RollBackInv DEF Frames
<1>2. CASE snapshot' = d /\ Identified(c, d) /\ Quiet /\ UNCHANGED <<guard, cached, toolchain, saved, record>>
  <2>1. /\ d \in Digests /\ d.images \in inForce[c].images /\ d # None
        /\ guard # None /\ (~reverted => guard.names = d.images) /\ guard \in Guards
    BY <1>0, NoneFacts DEF CallOK, InFrame, Frames, Digests, Typed, TypeOK
  <2> HIDE DEF d
  <2>2. UNCHANGED <<env, edits, images, generation, reverted>>
    BY <1>2 DEF Quiet, Calm, world
  <2>3. Shared'
    BY <1>0, <1>2, <2>1, <2>2 DEF Shared, Match, Guarded, Loaded, Exact, Certified, StampOf
  <2>4. QED
    BY <1>0, <1>2, <2>1, <2>3, IdentifiedInv DEF Frames
<1>3. QED
  BY <1>1, <1>2 DEF Again

--------------------------------------------------------------------------------
\* The rest of the complete evaluation.

\* A step outside framework_identity, which leaves the digest and the guard alone.
LEMMA RestInv ==
  ASSUME IInv, NEW c \in Callers, NEW p \in Rest, NEW o \in Locals, pc[c] \in Rest,
         Goto(c, p), own' = [own EXCEPT ![c] = o], Quiet, UNCHANGED <<lock, snapshot, guard>>,
         cached' \in Copies \cup {None}, toolchain' \in ToolSnapshots \cup {None}, saved' \in Saves \cup {None},
         record' \in Partial \cup Whole \cup {None}, toolchain # None => toolchain' # None,
         Shared', p = "attach" => o.taken \in Whole /\ Certified(o.taken), InRest(c)'
  PROVE  IInv'
<1>0. Typed /\ CallOK(c) /\ lock # c
  BY DEF IInv, CallOK, Hits, Frames, Rest
<1>1. pc'[c] = p /\ own'[c] = o
  BY <1>0 DEF Goto, Typed
<1>2. p \in Steps \ {"idle"} /\ p \notin Hits \cup Frames \cup {"hold", "check", "discover"} /\ pc[c] # "idle"
  BY DEF Steps, Hits, Frames, Rest
<1>3. InHit(c)' /\ InFrame(c)'
  BY <1>1, <1>2 DEF InHit, InFrame, Hits, Frames
<1>4. snapshot' \in Digests \cup {None} /\ guard' \in Guards \cup {None}
  BY <1>0 DEF Typed, TypeOK
<1>5. QED
  BY <1>0, <1>2, <1>3, <1>4, WriteInv

\* The same when nothing shared changes.
LEMMA RestQuietInv ==
  ASSUME IInv, NEW c \in Callers, NEW p \in Rest, NEW o \in Locals, pc[c] \in Rest,
         Goto(c, p), own' = [own EXCEPT ![c] = o], Quiet, UNCHANGED <<lock, globals>>,
         p = "attach" => o.taken \in Whole /\ Certified(o.taken), InRest(c)'
  PROVE  IInv'
<1>1. Typed /\ UNCHANGED <<snapshot, guard, cached, toolchain, saved, record>> /\ pc[c] # "again"
  BY DEF IInv, globals, Rest
<1>2. Shared'
  BY <1>1, SharedSame DEF Quiet, Calm, Goto, Typed
<1>3. QED
  BY <1>1, <1>2, RestInv DEF Typed, TypeOK

\* The end of an evaluation here: the lock is not its own.
LEMMA RestFinishInv ==
  ASSUME IInv, NEW c \in Callers, NEW s \in Stamps \cup {None}, pc[c] \in Rest, Finish(c, s), Calm,
         Answerable(c, s), UNCHANGED <<lock, snapshot, guard, cached, toolchain, saved>>,
         record' \in {record, None} \/ (record' \in Whole /\ Certified(record'))
  PROVE  IInv'
<1>0. Typed /\ Shared /\ CallOK(c) /\ lock # c
  BY DEF IInv, CallOK, Hits, Frames, Rest
<1>1. \A d \in Callers : pc'[d] = "again" <=> pc[d] = "again"
  BY <1>0 DEF Finish, Goto, Typed, Rest
<1>2. UNCHANGED <<env, edits, images, generation, reverted>>
  BY DEF Calm, world
<1>3. Shared'
  BY <1>0, <1>1, <1>2, NoneFacts DEF Shared, Match, Guarded, Loaded, Exact, Certified, StampOf
<1>4. guard' \in Guards \cup {None}
  BY <1>0 DEF Typed, TypeOK
<1>5. QED
  BY <1>0, <1>3, <1>4, FinishInv

LEMMA BuildInv ==
  ASSUME IInv, NEW c \in Callers, Build(c)
  PROVE  IInv'
<1> DEFINE p == IF standard THEN "copy" ELSE "recopy"
           o == IF standard THEN own[c] ELSE [own[c] EXCEPT !.policy = Override]
<1>0. /\ Typed /\ Shared /\ CallOK(c) /\ pc[c] = "build" /\ Goto(c, p) /\ own' = [own EXCEPT ![c] = o] /\ Quiet
      /\ UNCHANGED <<lock, snapshot, guard, cached, toolchain, saved>> /\ own[c] \in Locals
  BY DEF Build, At, IInv, Set, Typed
<1>1. /\ o \in Locals /\ o.frameworks = own[c].frameworks /\ o.shared = own[c].shared
      /\ ~standard => o.policy = Override
  BY <1>0 DEF Locals, Policies
<1> HIDE DEF o
<1>2. pc'[c] = p /\ own'[c] = o /\ \A d \in Callers : pc'[d] # "again" <=> pc[d] # "again"
  BY <1>0 DEF Goto, Typed
<1>3. record' \in Partial \cup {None}
  <2>1. CASE env.off
    BY <2>1 DEF Build
  <2>2. CASE lock = None /\ record' = [full |-> FALSE, digest |-> snapshot, guard |-> guard, sel |-> selection]
    <3>1. \A d \in Callers : pc[d] # "again"
      BY <2>2, NoneFacts DEF IInv, CallOK, Frames
    <3>2. snapshot \in Digests /\ guard \in Guards /\ selection \in Selections
      BY <1>0, <3>1 DEF Shared, Match, CallOK, InRest, Rest, Typed, TypeOK
    <3>3. QED
      BY <2>2, <3>2 DEF Partial
  <2>3. QED
    BY <2>1, <2>2 DEF Build
<1>4. record' \notin Whole
  BY <1>3, RecordFacts, NoneFacts
<1>5. UNCHANGED <<env, edits, images, generation, inForce, reverted>>
  BY <1>0 DEF Quiet, Calm, world
<1>6. Shared'
  BY <1>0, <1>2, <1>4, <1>5 DEF Shared, Match, Guarded, Loaded, Exact
<1>7. InRest(c)'
  BY <1>0, <1>1, <1>2, <1>5 DEF InRest, Rest, PolicySeen, CallOK, Policies, Typed, TypeOK
<1>8. p \in Rest /\ pc[c] \in Rest /\ p # "attach"
  BY <1>0 DEF Rest
<1>9. QED
  BY <1>0, <1>1, <1>3, <1>6, <1>7, <1>8, RestInv DEF Typed, TypeOK

\* The snapshot of the environment, at either of the two places that take it.
LEMMA CopyInv ==
  ASSUME IInv, NEW c \in Callers, NEW here, NEW decode, NEW next, Copy(c, here, decode, next),
         \/ here = "copy" /\ decode = "decode" /\ next = "policy"
         \/ here = "recopy" /\ decode = "redecode" /\ next = "toolchain"
  PROVE  IInv'
<1> DEFINE hit == cached # None /\ (cached.made = edits \/ cached.env = env)
           p == IF hit THEN next ELSE decode
           copy == IF hit THEN cached ELSE [env |-> env, made |-> edits]
           o == [own[c] EXCEPT !.copy = copy]
<1>0. /\ Typed /\ Shared /\ CallOK(c) /\ pc[c] = here /\ Goto(c, p) /\ own' = [own EXCEPT ![c] = o] /\ Quiet
      /\ UNCHANGED <<lock, globals>> /\ own[c] \in Locals
  BY DEF Copy, At, IInv, Set, Typed
<1>1. copy \in Copies /\ Exact(copy) /\ copy.env = env
  <2>1. CASE hit
    BY <1>0, <2>1 DEF Shared, Exact, Typed, TypeOK
  <2>2. CASE ~hit
    BY <1>0, <2>2, NoneFacts DEF Exact, Typed, TypeOK, Copies
  <2>3. QED
    BY <2>1, <2>2
<1> HIDE DEF copy
<1>2. /\ o \in Locals /\ o.frameworks = own[c].frameworks /\ o.shared = own[c].shared
      /\ o.policy = own[c].policy /\ o.copy = copy
  BY <1>0, <1>1 DEF Locals
<1> HIDE DEF o, hit
<1>3. pc'[c] = p /\ own'[c] = o
  BY <1>0 DEF Goto, Typed
<1>4. /\ UNCHANGED <<env, edits, images, generation, inForce, reverted, snapshot>>
      /\ env.policy \in inForce[c].policy /\ env.tool \in inForce[c].tool
  BY <1>0 DEF Quiet, Calm, world, globals, CallOK
<1>5. InRest(c)'
  <2>1. CASE here = "copy" /\ decode = "decode" /\ next = "policy"
    BY <1>0, <1>1, <1>2, <1>3, <1>4, <2>1 DEF CallOK, InRest, Rest, Exact
  <2>2. CASE here = "recopy" /\ decode = "redecode" /\ next = "toolchain"
    BY <1>0, <1>1, <1>2, <1>3, <1>4, <2>2 DEF CallOK, InRest, Rest, Exact, PolicySeen
  <2>3. QED
    BY <2>1, <2>2
<1>6. p \in Rest /\ pc[c] \in Rest /\ p # "attach"
  BY <1>0 DEF Rest
<1>7. QED
  BY <1>0, <1>2, <1>5, <1>6, RestQuietInv

LEMMA DecodeInv ==
  ASSUME IInv, NEW c \in Callers, NEW here, NEW next, Decode(c, here, next),
         \/ here = "decode" /\ next = "policy"
         \/ here = "redecode" /\ next = "toolchain"
  PROVE  IInv'
<1>0. /\ Typed /\ Shared /\ CallOK(c) /\ pc[c] = here /\ pc[c] \in Rest \ {"build", "copy", "recopy"}
      /\ own = [own EXCEPT ![c] = own[c]] /\ own[c] \in Locals
  BY DEF Decode, At, IInv, Typed, Rest
<1>1. CASE Finish(c, None) /\ Calm /\ UNCHANGED <<lock, globals>>
  BY <1>0, <1>1, RestFinishInv DEF globals, Answerable
<1>2. CASE /\ cached' = own[c].copy /\ Goto(c, next) /\ Quiet
           /\ UNCHANGED <<lock, own, snapshot, guard, toolchain, saved, record>>
  <2>1. own[c].copy \in Copies /\ Exact(own[c].copy)
    BY <1>0 DEF CallOK, InRest
  <2>2. pc'[c] = next /\ own'[c] = own[c] /\ \A d \in Callers : pc'[d] = "again" <=> pc[d] = "again"
    BY <1>0, <1>2 DEF Goto, Typed, Rest
  <2>3. UNCHANGED <<env, edits, images, generation, inForce, reverted>>
    BY <1>2 DEF Quiet, Calm, world
  <2>4. Shared'
    BY <1>0, <1>2, <2>1, <2>2, <2>3 DEF Shared, Match, Guarded, Loaded, Exact, Certified, StampOf
  <2>5. InRest(c)'
    BY <1>0, <1>2, <2>2, <2>3 DEF CallOK, InRest, Rest, Exact, PolicySeen
  <2>6. next \in Rest /\ next # "attach"
    BY DEF Rest
  <2>7. QED
    BY <1>0, <1>2, <2>1, <2>4, <2>5, <2>6, RestInv DEF Typed, TypeOK
<1>3. QED
  BY <1>1, <1>2 DEF Decode

LEMMA PolicyInv ==
  ASSUME IInv, NEW c \in Callers, Policy(c)
  PROVE  IInv'
<1> DEFINE shared == (cached = own[c].copy)
           p == IF shared THEN "toolchain" ELSE "recopy"
           o == [own[c] EXCEPT !.policy = own[c].copy.env.policy, !.shared = shared]
<1>0. /\ Typed /\ CallOK(c) /\ pc[c] = "policy" /\ Goto(c, p) /\ own' = [own EXCEPT ![c] = o] /\ Quiet
      /\ UNCHANGED <<lock, globals>> /\ own[c] \in Locals
  BY DEF Policy, At, IInv, Set, Typed
<1>1. /\ own[c].copy \in Copies /\ Exact(own[c].copy) /\ own[c].copy.env.policy \in inForce[c].policy
      /\ own[c].copy.env.tool \in inForce[c].tool /\ TRUE \in inForce[c].standard
      /\ own[c].frameworks \in Digests /\ snapshot # None
      /\ (~reverted => own[c].frameworks.images \in inForce[c].images)
  BY <1>0 DEF CallOK, InRest, Rest
<1>2. own[c].copy.env \in Envs
  BY <1>1 DEF Copies
<1>3. own[c].copy.env.policy \in Policies /\ own[c].copy.env.policy # Override
  BY <1>2, EnvFacts
<1>4. /\ o \in Locals /\ o.frameworks = own[c].frameworks /\ o.shared = shared
      /\ o.policy = own[c].copy.env.policy /\ o.copy = own[c].copy
  <2>1. own[c] \in Locals
    BY <1>0
  <2>2. shared \in BOOLEAN
    OBVIOUS
  <2> HIDE DEF shared
  <2> DEFINE half == [own[c] EXCEPT !.policy = own[c].copy.env.policy]
  <2>3. /\ half \in Locals /\ half.frameworks = own[c].frameworks /\ half.copy = own[c].copy
        /\ half.policy = own[c].copy.env.policy
    BY <1>3, <2>1 DEF Locals
  <2> HIDE DEF half
  <2>4. /\ [half EXCEPT !.shared = shared] \in Locals
        /\ \A f \in {"frameworks", "copy", "policy"} : [half EXCEPT !.shared = shared][f] = half[f]
        /\ [half EXCEPT !.shared = shared].shared = shared
    BY <2>2, <2>3 DEF Locals
  <2>5. o = [half EXCEPT !.shared = shared]
    BY DEF half
  <2>6. QED
    BY <2>3, <2>4, <2>5
<1> HIDE DEF o, shared
<1>5. pc'[c] = p /\ own'[c] = o
  BY <1>0 DEF Goto, Typed
<1>6. UNCHANGED <<env, edits, images, generation, inForce, reverted, snapshot>>
  BY <1>0 DEF Quiet, Calm, world, globals
<1>7. PolicySeen(c)'
  BY <1>1, <1>3, <1>4, <1>5, <1>6 DEF PolicySeen
<1>8. InRest(c)'
  BY <1>1, <1>3, <1>4, <1>5, <1>6, <1>7 DEF InRest, Rest, Exact
<1>9. p \in Rest /\ pc[c] \in Rest /\ p # "attach"
  BY <1>0 DEF Rest
<1>10. QED
  BY <1>0, <1>4, <1>8, <1>9, RestQuietInv

\* What every step after the second copy knows.
Known(c) ==
  LET o == own[c] IN
  /\ o.frameworks \in Digests /\ (~reverted => o.frameworks.images \in inForce[c].images) /\ snapshot # None
  /\ o.copy \in Copies /\ o.copy.env \in Envs /\ o.copy.env.tool \in Tools /\ Exact(o.copy)
  /\ o.copy.env.policy \in inForce[c].policy /\ o.copy.env.tool \in inForce[c].tool
  /\ o.policy \in Policies /\ PolicySeen(c)
  /\ o.shared => o.policy = o.copy.env.policy

LEMMA KnownFacts ==
  ASSUME IInv, NEW c \in Callers, pc[c] \in {"toolchain", "resolve", "fingerprint", "stamp", "finalize", "attach"}
  PROVE  Known(c)
<1>1. pc[c] \in Rest \ {"build", "copy", "decode", "policy", "recopy"} /\ InRest(c)
  BY DEF IInv, CallOK, Rest
<1>2. own[c].copy \in Copies
  BY <1>1 DEF InRest
<1>3. own[c].copy.env \in Envs
  BY <1>2 DEF Copies
<1>4. QED
  BY <1>1, <1>3, EnvFacts DEF Known, InRest

\* What is known stays known while the inputs of the stamp are left alone.
LEMMA KnownStays ==
  ASSUME NEW c \in Callers, Known(c), UNCHANGED <<world, inForce, reverted, snapshot>>,
         own'[c].frameworks = own[c].frameworks, own'[c].copy = own[c].copy,
         own'[c].policy = own[c].policy, own'[c].shared = own[c].shared
  PROVE  Known(c)'
  BY DEF Known, world, Exact, PolicySeen

LEMMA KnownRest ==
  ASSUME NEW c \in Callers, Known(c), pc[c] \in {"toolchain", "resolve", "fingerprint", "stamp", "finalize", "attach"},
         pc[c] = "fingerprint" => /\ own[c].resolved \in Tools
                                  /\ own[c].resolved # own[c].copy.env.tool => env.tool # own[c].copy.env.tool,
         pc[c] \in {"stamp", "finalize", "attach"} => own[c].tool = own[c].copy.env.tool /\ toolchain # None,
         pc[c] \in {"finalize", "attach"} => own[c].shared /\ own[c].stamp = StampOf(own[c].frameworks, own[c].copy),
         pc[c] = "attach" => own[c].taken \in Whole /\ Certified(own[c].taken)
  PROVE  InRest(c)
  BY DEF Known, InRest, Rest

LEMMA ToolchainInv ==
  ASSUME IInv, NEW c \in Callers, Toolchain(c)
  PROVE  IInv'
<1> DEFINE e == own[c].copy.env
           p == IF toolchain = None THEN "resolve" ELSE "stamp"
           o == IF toolchain = None THEN own[c] ELSE [own[c] EXCEPT !.tool = toolchain.digest]
<1>0. Typed /\ Shared /\ pc[c] = "toolchain" /\ Known(c) /\ own[c] \in Locals /\ UNCHANGED <<lock, globals>>
  BY KnownFacts DEF Toolchain, At, IInv, Typed
<1>1. UNCHANGED <<snapshot, guard, cached, toolchain, saved, record>>
  BY <1>0 DEF globals
<1>2. CASE Finish(c, None) /\ Calm
  BY <1>0, <1>1, <1>2, RestFinishInv DEF Rest, Answerable
<1>3. CASE /\ toolchain = None \/ toolchain.sel = e.tool
           /\ Goto(c, p) /\ own' = [own EXCEPT ![c] = o] /\ Quiet
  <2>1. toolchain # None => toolchain.digest \in Tools /\ toolchain.digest = e.tool
    BY <1>0, <1>3 DEF Shared, Typed, TypeOK, ToolSnapshots
  <2>2. /\ o \in Locals /\ o.frameworks = own[c].frameworks /\ o.shared = own[c].shared
        /\ o.policy = own[c].policy /\ o.copy = own[c].copy
        /\ toolchain # None => o.tool = e.tool
    BY <1>0, <2>1 DEF Locals
  <2> HIDE DEF o
  <2>3. pc'[c] = p /\ own'[c] = o
    BY <1>0, <1>3 DEF Goto, Typed
  <2>4. Known(c)'
    BY <1>0, <1>1, <1>3, <2>2, <2>3, KnownStays DEF Quiet, Calm
  <2>5. InRest(c)'
    BY <1>1, <2>2, <2>3, <2>4 DEF Known, InRest, Rest
  <2>6. p \in Rest /\ pc[c] \in Rest /\ p # "attach"
    BY <1>0 DEF Rest
  <2>7. QED
    BY <1>0, <1>3, <2>2, <2>5, <2>6, RestQuietInv
<1>4. QED
  BY <1>2, <1>3 DEF Toolchain, Set

LEMMA ResolveInv ==
  ASSUME IInv, NEW c \in Callers, Resolve(c)
  PROVE  IInv'
<1> DEFINE o == [own[c] EXCEPT !.resolved = env.tool]
<1>0. /\ Typed /\ pc[c] = "resolve" /\ Known(c) /\ own[c] \in Locals
      /\ Goto(c, "fingerprint") /\ own' = [own EXCEPT ![c] = o] /\ Quiet /\ UNCHANGED <<lock, globals>>
  BY KnownFacts DEF Resolve, At, IInv, Typed, Set
<1>1. env.tool \in Tools
  BY <1>0, EnvFacts DEF Typed, TypeOK
<1>2. /\ o \in Locals /\ o.frameworks = own[c].frameworks /\ o.shared = own[c].shared
      /\ o.policy = own[c].policy /\ o.copy = own[c].copy /\ o.resolved = env.tool
  BY <1>0, <1>1 DEF Locals
<1> HIDE DEF o
<1>3. pc'[c] = "fingerprint" /\ own'[c] = o /\ UNCHANGED env
  BY <1>0 DEF Goto, Typed, Quiet, Calm, world
<1>4. Known(c)'
  BY <1>0, <1>2, <1>3, KnownStays DEF Quiet, Calm, globals
<1>5. InRest(c)'
  BY <1>1, <1>2, <1>3, <1>4 DEF Known, InRest, Rest
<1>6. "fingerprint" \in Rest /\ pc[c] \in Rest
  BY <1>0 DEF Rest
<1>7. QED
  BY <1>0, <1>2, <1>5, <1>6, RestQuietInv

LEMMA FingerprintInv ==
  ASSUME IInv, NEW c \in Callers, Fingerprint(c)
  PROVE  IInv'
<1> DEFINE e == own[c].copy.env
           o == [own[c] EXCEPT !.tool = own[c].resolved]
<1>0. Typed /\ Shared /\ pc[c] = "fingerprint" /\ Known(c) /\ own[c] \in Locals
  BY KnownFacts DEF Fingerprint, At, IInv, Typed
<1>1. CASE Finish(c, None) /\ Calm /\ UNCHANGED <<lock, globals>>
  BY <1>0, <1>1, RestFinishInv DEF Rest, Answerable, globals
<1>2. CASE /\ env.tool = e.tool
           /\ toolchain' = [sel |-> e.tool, digest |-> own[c].resolved]
           /\ Goto(c, "stamp") /\ own' = [own EXCEPT ![c] = o]
           /\ Quiet /\ UNCHANGED <<lock, snapshot, guard, cached, saved, record>>
  <2>1. own[c].resolved \in Tools /\ own[c].resolved = e.tool
    BY <1>0, <1>2 DEF IInv, CallOK, InRest
  <2>2. /\ o \in Locals /\ o.frameworks = own[c].frameworks /\ o.shared = own[c].shared
        /\ o.policy = own[c].policy /\ o.copy = own[c].copy /\ o.tool = e.tool
    BY <1>0, <2>1 DEF Locals
  <2> HIDE DEF o
  <2>3. pc'[c] = "stamp" /\ own'[c] = o /\ \A d \in Callers : pc'[d] = "again" <=> pc[d] = "again"
    BY <1>0, <1>2 DEF Goto, Typed
  <2>4. toolchain' \in ToolSnapshots /\ toolchain' # None /\ toolchain'.digest = toolchain'.sel
    BY <1>2, <2>1, NoneFacts DEF ToolSnapshots
  <2>5. Known(c)'
    BY <1>0, <1>2, <2>2, <2>3, KnownStays DEF Quiet, Calm
  <2>6. InRest(c)'
    BY <2>2, <2>3, <2>4, <2>5 DEF Known, InRest, Rest
  <2>7. UNCHANGED <<env, edits, images, generation, reverted>>
    BY <1>2 DEF Quiet, Calm, world
  <2>8. Shared'
    BY <1>0, <1>2, <2>3, <2>4, <2>7 DEF Shared, Match, Guarded, Loaded, Exact, Certified, StampOf
  <2>9. "stamp" \in Rest /\ pc[c] \in Rest
    BY <1>0 DEF Rest
  <2>10. QED
    BY <1>0, <1>2, <2>2, <2>4, <2>6, <2>8, <2>9, RestInv DEF Typed, TypeOK
<1>3. QED
  BY <1>1, <1>2 DEF Fingerprint, Set

LEMMA StampInv ==
  ASSUME IInv, NEW c \in Callers, Stamp(c)
  PROVE  IInv'
<1> DEFINE s == [frameworks |-> own[c].frameworks, policy |-> own[c].policy, tool |-> own[c].tool]
           made == [copy |-> own[c].copy, frameworks |-> own[c].frameworks, tool |-> own[c].tool, stamp |-> s]
           stamp == IF Reusable(c) THEN saved.stamp ELSE s
           o == [own[c] EXCEPT !.stamp = stamp]
<1>0. Typed /\ Shared /\ pc[c] = "stamp" /\ Known(c) /\ own[c] \in Locals
  BY KnownFacts DEF Stamp, At, IInv, Typed
<1>1. own[c].tool = own[c].copy.env.tool /\ toolchain # None
  BY <1>0 DEF IInv, CallOK, InRest
<1>2. s \in Stamps /\ s.frameworks = own[c].frameworks /\ s.policy = own[c].policy /\ s.tool = own[c].tool
  BY <1>0, <1>1 DEF Stamps, Known
<1>3. own[c].shared => s = StampOf(own[c].frameworks, own[c].copy)
  BY <1>0, <1>1 DEF Known, StampOf
<1> HIDE DEF s
<1>4. CASE Finish(c, s) /\ Calm /\ UNCHANGED <<lock, globals>>
  <2>1. Answerable(c, s)
    BY <1>0, <1>1, <1>2 DEF Known, Answerable, PolicySeen
  <2>2. QED
    BY <1>0, <1>2, <1>4, <2>1, RestFinishInv DEF Rest, globals
<1>5. CASE /\ own[c].shared /\ saved' = (IF Reusable(c) THEN saved ELSE made)
           /\ Goto(c, "finalize") /\ own' = [own EXCEPT ![c] = o]
           /\ Quiet /\ UNCHANGED <<lock, snapshot, guard, cached, toolchain, record>>
  <2>1. made \in Saves /\ made.stamp = StampOf(made.frameworks, made.copy)
    BY <1>0, <1>1, <1>2, <1>3, <1>5 DEF Saves, Known
  <2>2. Reusable(c) => /\ saved \in Saves /\ saved.stamp = StampOf(saved.frameworks, saved.copy)
                       /\ saved.frameworks = own[c].frameworks /\ saved.copy = own[c].copy
    BY <1>0 DEF Reusable, Shared, Typed
  <2>3. stamp \in Stamps /\ stamp = StampOf(own[c].frameworks, own[c].copy)
    BY <1>2, <1>3, <1>5, <2>2 DEF Saves
  <2>4. saved' \in Saves \cup {None} /\ saved'.stamp = StampOf(saved'.frameworks, saved'.copy)
    BY <1>5, <2>1, <2>2
  <2> HIDE DEF stamp, made
  <2>5. /\ o \in Locals /\ o.frameworks = own[c].frameworks /\ o.shared = own[c].shared
        /\ o.policy = own[c].policy /\ o.copy = own[c].copy /\ o.tool = own[c].tool /\ o.stamp = stamp
    BY <1>0, <2>3 DEF Locals
  <2> HIDE DEF o
  <2>6. pc'[c] = "finalize" /\ own'[c] = o /\ \A d \in Callers : pc'[d] = "again" <=> pc[d] = "again"
    BY <1>0, <1>5 DEF Goto, Typed
  <2>7. Known(c)'
    BY <1>0, <1>5, <2>5, <2>6, KnownStays DEF Quiet, Calm
  <2>8. InRest(c)'
    BY <1>1, <1>5, <2>3, <2>5, <2>6, <2>7 DEF Known, InRest, Rest, StampOf
  <2>9. UNCHANGED <<env, edits, images, generation, reverted>>
    BY <1>5 DEF Quiet, Calm, world
  <2>10. Shared'
    BY <1>0, <1>5, <2>4, <2>6, <2>9 DEF Shared, Match, Guarded, Loaded, Exact, Certified, StampOf
  <2>11. "finalize" \in Rest /\ pc[c] \in Rest
    BY <1>0 DEF Rest
  <2>12. QED
    BY <1>0, <1>5, <2>4, <2>5, <2>8, <2>10, <2>11, RestInv DEF Typed, TypeOK
<1>6. QED
  BY <1>4, <1>5 DEF Stamp, Set, s, made, stamp, o

LEMMA FinalizeInv ==
  ASSUME IInv, NEW c \in Callers, Finalize(c)
  PROVE  IInv'
<1> DEFINE whole == [full |-> TRUE, digest |-> record.digest, guard |-> record.guard, sel |-> record.sel,
                     copy |-> cached, toolchain |-> toolchain, stamp |-> own[c].stamp]
           o == [own[c] EXCEPT !.taken = whole]
<1>0. Typed /\ Shared /\ pc[c] = "finalize" /\ Known(c) /\ own[c] \in Locals
  BY KnownFacts DEF Finalize, At, IInv, Typed
<1>1. /\ own[c].tool = own[c].copy.env.tool /\ toolchain # None /\ own[c].shared
      /\ own[c].stamp = StampOf(own[c].frameworks, own[c].copy)
  BY <1>0 DEF IInv, CallOK, InRest
<1>2. own[c].stamp \in Stamps
  BY <1>0, <1>1, StampFacts DEF Known
<1>3. CASE /\ Admissible(c) /\ Goto(c, "attach") /\ own' = [own EXCEPT ![c] = o]
           /\ Quiet /\ UNCHANGED <<lock, globals>>
  <2>1. record \in Partial /\ own[c].frameworks = record.digest /\ cached = own[c].copy /\ cached \in Copies
    BY <1>0, <1>3, RecordFacts DEF Admissible, Known, Typed, TypeOK
  <2>2. whole \in Whole
    BY <1>0, <1>1, <1>2, <2>1, RecordFacts DEF Whole, Typed, TypeOK
  <2>3. whole.digest = own[c].frameworks /\ whole.copy = own[c].copy /\ whole.stamp = own[c].stamp
    BY <2>1
  <2>4. Certified(whole)
    BY <1>1, <2>3 DEF Certified
  <2> HIDE DEF whole
  <2>5. /\ o \in Locals /\ o.frameworks = own[c].frameworks /\ o.shared = own[c].shared
        /\ o.policy = own[c].policy /\ o.copy = own[c].copy /\ o.tool = own[c].tool
        /\ o.stamp = own[c].stamp /\ o.taken = whole
    BY <1>0, <2>2 DEF Locals
  <2> HIDE DEF o
  <2>6. pc'[c] = "attach" /\ own'[c] = o /\ UNCHANGED toolchain
    BY <1>0, <1>3 DEF Goto, Typed, globals
  <2>7. Known(c)'
    BY <1>0, <1>3, <2>5, <2>6, KnownStays DEF Quiet, Calm, globals
  <2>8. InRest(c)'
    BY <1>1, <2>2, <2>4, <2>5, <2>6, <2>7 DEF Known, InRest, Rest, StampOf, Certified
  <2>9. "attach" \in Rest /\ pc[c] \in Rest
    BY <1>0 DEF Rest
  <2>10. QED
    BY <1>3, <2>2, <2>4, <2>5, <2>8, <2>9, RestQuietInv
<1>4. CASE /\ record' = None /\ Finish(c, own[c].stamp)
           /\ Calm /\ UNCHANGED <<lock, snapshot, guard, cached, toolchain, saved>>
  <2>1. Answerable(c, own[c].stamp)
    <3>1. /\ own[c].stamp.frameworks = own[c].frameworks /\ own[c].stamp.tool = own[c].tool
          /\ own[c].stamp.policy = own[c].policy
      BY <1>0, <1>1 DEF StampOf, Known
    <3>2. QED
      BY <1>0, <1>1, <3>1 DEF Known, Answerable, PolicySeen
  <2>2. QED
    BY <1>0, <1>2, <1>4, <2>1, RestFinishInv DEF Rest
<1>5. QED
  BY <1>3, <1>4 DEF Finalize, Set

LEMMA AttachInv ==
  ASSUME IInv, NEW c \in Callers, Attach(c)
  PROVE  IInv'
<1>0. Typed /\ Shared /\ pc[c] = "attach" /\ Known(c) /\ own[c] \in Locals
  BY KnownFacts DEF Attach, At, IInv, Typed
<1>1. /\ own[c].tool = own[c].copy.env.tool /\ own[c].shared
      /\ own[c].stamp = StampOf(own[c].frameworks, own[c].copy)
      /\ own[c].taken \in Whole /\ Certified(own[c].taken)
  BY <1>0 DEF IInv, CallOK, InRest
<1>2. own[c].stamp \in Stamps
  BY <1>0, <1>1, StampFacts DEF Known
<1>3. /\ own[c].stamp.frameworks = own[c].frameworks /\ own[c].stamp.tool = own[c].tool
      /\ own[c].stamp.policy = own[c].policy
  BY <1>0, <1>1 DEF StampOf, Known
<1>4. Answerable(c, own[c].stamp)
  BY <1>0, <1>1, <1>3 DEF Known, Answerable, PolicySeen
<1>5. /\ record' = own[c].taken /\ Finish(c, own[c].stamp)
      /\ Calm /\ UNCHANGED <<lock, snapshot, guard, cached, toolchain, saved>>
  BY DEF Attach
<1>6. QED
  BY <1>0, <1>1, <1>2, <1>4, <1>5, RestFinishInv DEF Rest, Certified, StampOf

LEMMA CallInv ==
  ASSUME IInv, NEW c \in Callers, Call(c)
  PROVE  IInv'
<1>0. Typed /\ Shared /\ CallOK(c) /\ pc[c] = "idle" /\ own[c] = Blank /\ lock # c
  BY DEF Call, At, IInv, CallOK, Hits, Frames
<1>1. /\ Goto(c, "check") /\ answer' = [answer EXCEPT ![c] = None] /\ inForce' = [inForce EXCEPT ![c] = Now]
      /\ UNCHANGED <<world, lock, globals, own, reverted, noise>>
  BY DEF Call
<1>2. /\ pc'[c] = "check" /\ answer'[c] = None /\ inForce'[c] = Now
      /\ \A d \in Callers \ {c} : pc'[d] = pc[d] /\ answer'[d] = answer[d] /\ inForce'[d] = inForce[d]
  BY <1>0, <1>1 DEF Goto, Typed, TypeOK
<1>3. Typed'
  <2>1. pc' \in [Callers -> Steps] /\ answer' \in [Callers -> Stamps \cup {None}]
    BY <1>0, <1>1 DEF Goto, Typed, TypeOK, Steps
  <2>2. inForce' = [d \in Callers |-> inForce'[d]]
    BY <1>0, <1>1 DEF Typed
  <2>3. QED
    BY <1>0, <1>1, <2>1, <2>2 DEF Typed, TypeOK, world, globals
<1>4. Shared'
  BY <1>0, <1>1, <1>2, SharedSame
<1>5. InHit(c)' /\ InFrame(c)' /\ InRest(c)'
  BY <1>2 DEF InHit, InFrame, InRest, Hits, Frames, Rest
<1>6. CallOK(c)'
  <2>1. /\ images' \in inForce'[c].images /\ standard' \in inForce'[c].standard
        /\ env'.policy \in inForce'[c].policy /\ env'.tool \in inForce'[c].tool
    BY <1>1, <1>2 DEF Now, world
  <2>2. own'[c] = Blank /\ lock' # c /\ pc'[c] \notin Hits \cup Frames
    BY <1>0, <1>1, <1>2 DEF Hits, Frames
  <2>3. QED
    BY <1>2, <1>5, <2>1, <2>2 DEF CallOK
<1>7. Local(c)
  BY <1>1, <1>2 DEF Local, globals
<1>8. QED
  BY <1>3, <1>4, <1>6, <1>7, LocalInv

--------------------------------------------------------------------------------
\* What other code of the process does meanwhile.

\* What has been in force is not forgotten, and what is in force now is noted.
Noted(c) ==
  /\ inForce[c].images \subseteq inForce'[c].images /\ inForce[c].standard \subseteq inForce'[c].standard
  /\ inForce[c].policy \subseteq inForce'[c].policy /\ inForce[c].tool \subseteq inForce'[c].tool
  /\ images' \in inForce'[c].images /\ standard' \in inForce'[c].standard
  /\ env'.policy \in inForce'[c].policy /\ env'.tool \in inForce'[c].tool

LEMMA ElapseFacts ==
  ASSUME Elapse, NEW c \in Callers
  PROVE  Noted(c)
<1>1. inForce'[c] = [part \in {"images", "standard", "policy", "tool", "sel"} |-> inForce[c][part] \cup Now[part]']
  BY DEF Elapse, Now
<1>2. /\ inForce'[c].images = inForce[c].images \cup Now.images'
      /\ inForce'[c].standard = inForce[c].standard \cup Now.standard'
      /\ inForce'[c].policy = inForce[c].policy \cup Now.policy'
      /\ inForce'[c].tool = inForce[c].tool \cup Now.tool'
  BY <1>1
<1>3. QED
  BY <1>2 DEF Noted, Now

\* The images read at an earlier generation, or the copy made at an earlier edit, never become current again.
LEMMA LoadedStays ==
  ASSUME NEW names, NEW g \in Nat, generation \in Nat, Loaded(names, g),
         UNCHANGED <<images, generation>> \/ generation' = generation + 1
  PROVE  g <= generation' /\ (g = generation' => names = images')
  BY DEF Loaded

LEMMA ExactStays ==
  ASSUME NEW copy \in Copies, edits \in Nat, Exact(copy), UNCHANGED <<env, edits>> \/ edits' = edits + 1
  PROVE  copy.made <= edits' /\ (copy.made = edits' => copy.env = env')
<1>1. copy.made \in Nat
  BY NoneFacts DEF Copies
<1>2. QED
  BY <1>1 DEF Exact

\* A list that comes back to an inventory whose guard has scanned another is remembered.
LEMMA ElapseReverts ==
  ASSUME Elapse
  PROVE  /\ reverted => reverted'
         /\ \A c \in Callers : pc[c] = "publish" /\ own[c].resolved # own[c].loaded /\ ~reverted'
                                => images' # own[c].loaded
  BY DEF Elapse, At

\* Nothing comes back while the list stays.
LEMMA ListStays ==
  ASSUME IInv, UNCHANGED <<images, reverted>>
  PROVE  /\ reverted => reverted'
         /\ \A c \in Callers : pc[c] = "publish" /\ own[c].resolved # own[c].loaded /\ ~reverted'
                                => images' # own[c].loaded
  BY DEF IInv, CallOK, InFrame

LEMMA WorldInv ==
  ASSUME IInv, UNCHANGED <<lock, globals, pc, own, answer>>, Typed',
         \A c \in Callers : Noted(c),
         UNCHANGED <<env, edits>> \/ edits' = edits + 1,
         UNCHANGED <<images, generation>> \/ generation' = generation + 1,
         \A c \in Callers : pc[c] = "fingerprint" /\ own[c].resolved # own[c].copy.env.tool
                            => env'.tool # own[c].copy.env.tool,
         reverted => reverted',
         \A c \in Callers : pc[c] = "publish" /\ own[c].resolved # own[c].loaded /\ ~reverted'
                            => images' # own[c].loaded
  PROVE  IInv'
<1>0. /\ Typed /\ Shared /\ generation \in Nat /\ edits \in Nat
      /\ UNCHANGED <<snapshot, guard, cached, toolchain, saved, record>>
  BY NoneFacts DEF IInv, Typed, TypeOK, globals
<1>1. \A g \in Guards : Guarded(g) => Guarded(g)'
  <2>1. \A g \in Guards : g.generation \in Nat
    BY NoneFacts DEF Guards
  <2>2. QED
    BY <1>0, <2>1, LoadedStays DEF Guarded, Loaded
<1>2. Guarded(guard)'
  BY <1>0, <1>1 DEF Shared, Guarded, Typed, TypeOK
<1>3. cached # None => Exact(cached)'
  BY <1>0, ExactStays DEF Shared, Exact, Typed, TypeOK
<1>4. Shared'
  BY <1>0, <1>2, <1>3 DEF Shared, Match, Certified, StampOf
<1>5. ASSUME NEW c \in Callers PROVE CallOK(c)'
  <2>0. CallOK(c) /\ Noted(c) /\ own[c] \in Locals
    BY <1>0 DEF IInv, Typed
  <2>1. own[c].generation \in Nat
    BY <2>0, NoneFacts DEF Locals
  <2>2. generation <= generation'
    BY <1>0
  <2>3. generation' \in Nat
    BY <1>0
  <2>4. InHit(c)'
    BY <1>0, <2>0, <2>1, <2>2, <2>3 DEF CallOK, InHit, Noted, Certified, StampOf
  <2>5. pc[c] \in Frames => Guarded(own[c].kept.guard)'
    BY <1>1, <2>0 DEF CallOK, InFrame, Kept, Guarded
  <2>6. pc[c] = "publish" => Loaded(own[c].resolved, own[c].generation)'
    BY <1>0, <2>0, <2>1, LoadedStays DEF CallOK, InFrame, Loaded
  <2>7. InFrame(c)'
    BY <1>0, <2>0, <2>1, <2>2, <2>3, <2>5, <2>6 DEF CallOK, InFrame, Noted, Match, Guarded, Loaded
  <2>8. own[c].copy \in Copies /\ Exact(own[c].copy) => Exact(own[c].copy)'
    BY <1>0, ExactStays DEF Exact
  <2>9. PolicySeen(c) => PolicySeen(c)'
    BY <2>0 DEF PolicySeen, Noted
  <2>10. InRest(c)'
    <3>1. InRest(c)
      BY <2>0 DEF CallOK
    <3>2. QED
      BY <1>0, <2>0, <2>8, <2>9, <3>1 DEF InRest, Noted, Exact, StampOf, Certified
  <2>11. QED
    BY <2>0, <2>4, <2>7, <2>10 DEF CallOK, Noted
<1>6. QED
  BY <1>4, <1>5 DEF IInv

\* The policy and the tool an environment carries are typed; the counters stay under the number of events.
LEMMA EditInv ==
  ASSUME IInv, NEW e \in Envs, Edit(e)
  PROVE  IInv'
<1>0. Typed
  BY DEF IInv
<1>1. /\ noise' = noise + 1 /\ noise < MaxNoise /\ env' = e /\ edits' = edits + 1 /\ NotUndone(e) /\ Elapse
      /\ UNCHANGED <<images, generation, loading, selection, standard, lock, globals, pc, own, answer>>
  BY DEF Edit, Event
<1>2. edits' \in 0..MaxNoise /\ noise' \in 0..MaxNoise /\ edits' <= noise'
      /\ generation' <= noise' /\ (loading' => generation' < noise')
  BY <1>0, <1>1, NoneFacts DEF Typed, TypeOK
<1>3. inForce' = [d \in Callers |-> inForce'[d]] /\ reverted' \in BOOLEAN
  BY <1>0, <1>1 DEF Elapse, Typed, TypeOK
<1>4. Typed'
  BY <1>0, <1>1, <1>2, <1>3 DEF Typed, TypeOK, globals
<1>5. \A c \in Callers : Noted(c)
  BY <1>1, ElapseFacts
<1>6. QED
  BY <1>1, <1>4, <1>5, ElapseReverts, WorldInv DEF NotUndone, At

\* The toolchain selection of the environment does not change under a query by an event of another kind.
LEMMA QueryStays ==
  ASSUME IInv, UNCHANGED env
  PROVE  \A c \in Callers : pc[c] = "fingerprint" /\ own[c].resolved # own[c].copy.env.tool
                            => env'.tool # own[c].copy.env.tool
  BY DEF IInv, CallOK, InRest

LEMMA SelectInv ==
  ASSUME IInv, NEW s \in Selections, Select(s)
  PROVE  IInv'
<1>0. Typed
  BY DEF IInv
<1>1. /\ noise' = noise + 1 /\ noise < MaxNoise /\ selection' = s /\ Elapse
      /\ UNCHANGED <<env, edits, images, generation, loading, standard, lock, globals, pc, own, answer>>
  BY DEF Select, Event
<1>2. noise' \in 0..MaxNoise /\ edits' <= noise' /\ generation' <= noise' /\ (loading' => generation' < noise')
  BY <1>0, <1>1, NoneFacts DEF Typed, TypeOK
<1>3. inForce' = [d \in Callers |-> inForce'[d]] /\ reverted' \in BOOLEAN
  BY <1>0, <1>1 DEF Elapse, Typed, TypeOK
<1>4. Typed'
  BY <1>0, <1>1, <1>2, <1>3 DEF Typed, TypeOK, globals
<1>5. \A c \in Callers : Noted(c)
  BY <1>1, ElapseFacts
<1>6. QED
  BY <1>1, <1>4, <1>5, QueryStays, ElapseReverts, WorldInv

LEMMA ReplaceInv ==
  ASSUME IInv, Replace
  PROVE  IInv'
<1>0. Typed
  BY DEF IInv
<1>1. /\ noise' = noise + 1 /\ noise < MaxNoise /\ standard' = ~standard /\ Elapse
      /\ UNCHANGED <<env, edits, images, generation, loading, selection, lock, globals, pc, own, answer>>
  BY DEF Replace, Event
<1>2. noise' \in 0..MaxNoise /\ edits' <= noise' /\ generation' <= noise' /\ (loading' => generation' < noise')
  BY <1>0, <1>1, NoneFacts DEF Typed, TypeOK
<1>3. inForce' = [d \in Callers |-> inForce'[d]] /\ reverted' \in BOOLEAN
  BY <1>0, <1>1 DEF Elapse, Typed, TypeOK
<1>4. standard' \in BOOLEAN
  BY <1>0, <1>1 DEF Typed, TypeOK
<1>5. Typed'
  BY <1>0, <1>1, <1>2, <1>3, <1>4 DEF Typed, TypeOK, globals
<1>6. \A c \in Callers : Noted(c)
  BY <1>1, ElapseFacts
<1>7. QED
  BY <1>1, <1>5, <1>6, QueryStays, ElapseReverts, WorldInv

LEMMA LoadInv ==
  ASSUME IInv, BeginLoad \/ \E i \in ImageLists : EndLoad(i)
  PROVE  IInv'
<1>0. Typed
  BY DEF IInv
<1>1. CASE BeginLoad
  <2>1. /\ noise' = noise + 1 /\ noise < MaxNoise /\ loading' = TRUE
        /\ UNCHANGED <<env, edits, images, generation, selection, standard, inForce, reverted, lock, globals, pc, own, answer>>
    BY <1>1 DEF BeginLoad, Event
  <2>2. noise' \in 0..MaxNoise /\ edits' <= noise' /\ generation' <= noise' /\ generation' < noise'
    BY <1>0, <2>1, NoneFacts DEF Typed, TypeOK
  <2>3. Typed'
    BY <1>0, <2>1, <2>2 DEF Typed, TypeOK, globals
  <2>4. \A c \in Callers : Noted(c)
    BY <2>1 DEF IInv, CallOK, Noted
  <2>5. QED
    BY <2>1, <2>3, <2>4, QueryStays, ListStays, WorldInv
<1>2. ASSUME NEW i \in ImageLists, EndLoad(i) PROVE IInv'
  <2>1. /\ loading /\ loading' = FALSE /\ images' = i /\ generation' = generation + 1 /\ Elapse
        /\ UNCHANGED <<env, edits, selection, standard, lock, globals, pc, own, answer, noise>>
    BY <1>2 DEF EndLoad
  <2>2. generation' \in 0..MaxNoise /\ generation' <= noise'
    BY <1>0, <2>1, NoneFacts DEF Typed, TypeOK
  <2>3. inForce' = [d \in Callers |-> inForce'[d]] /\ reverted' \in BOOLEAN
    BY <1>0, <2>1 DEF Elapse, Typed, TypeOK
  <2>4. Typed'
    BY <1>0, <2>1, <2>2, <2>3 DEF Typed, TypeOK, globals
  <2>5. \A c \in Callers : Noted(c)
    BY <2>1, ElapseFacts
  <2>6. QED
    BY <2>1, <2>4, <2>5, QueryStays, ElapseReverts, WorldInv
<1>3. QED
  BY <1>1, <1>2

LEMMA StutterInv ==
  ASSUME IInv, UNCHANGED vars
  PROVE  IInv'
<1>1. Typed'
  BY DEF IInv, Typed, TypeOK, vars, world, globals
<1>2. \A c \in Callers : Noted(c)
  BY DEF IInv, CallOK, Noted, vars, world
<1>3. QED
  BY <1>1, <1>2, QueryStays, ListStays, WorldInv DEF vars, world, globals

LEMMA StepInv ==
  ASSUME IInv, NEW c \in Callers, Step(c)
  PROVE  IInv'
<1>1. CASE Copy(c, "copy", "decode", "policy") \/ Copy(c, "recopy", "redecode", "toolchain")
  BY <1>1, CopyInv
<1>2. CASE Decode(c, "decode", "policy") \/ Decode(c, "redecode", "toolchain")
  BY <1>2, DecodeInv
<1>3. QED
  BY <1>1, <1>2, CheckInv, HoldInv, ProbeInv, GenerationInv, UnscannedInv, SettledInv, DiscoverInv, VerifyInv,
     VerifiedInv, ScanInv, InventoryInv, ApproveInv, ApprovedInv, PublishGuardInv, AgainInv, BuildInv, PolicyInv,
     ToolchainInv, ResolveInv, FingerprintInv, StampInv, FinalizeInv, AttachInv
  DEF Step

--------------------------------------------------------------------------------
\* Results.

\* The invariant holds of every state of every behaviour: the lock of _framework_contract, the copies and
\* the records that threads share, and what each evaluation has read so far fit together.
THEOREM Invariance == Spec => []IInv
<1>1. IInv /\ [Next]_vars => IInv'
  <2>1. ASSUME IInv, Next PROVE IInv'
    BY <2>1, CallInv, StepInv, EditInv, SelectInv, ReplaceInv, LoadInv DEF Next, Noise
  <2>2. QED
    BY <2>1, StutterInv
<1>2. QED
  BY InitInv, <1>1, PTL DEF Spec

\* Every variable keeps a value of its kind, whatever the threads and the events do.
THEOREM TypeCorrect == Spec => []TypeOK
<1>1. IInv => TypeOK
  BY DEF IInv, Typed
<1>2. QED
  BY Invariance, <1>1, PTL

\* As long as no list of images has come back to an inventory whose guard has scanned another, no evaluation
\* returns a stamp of images that were not loaded at a moment of it (_framework_contract.py:390).
THEOREM NativeCertified == Spec => []NativeInForce
<1>1. IInv => NativeInForce
  BY DEF IInv, CallOK, NativeInForce
<1>2. QED
  BY Invariance, <1>1, PTL

\* No evaluation returns a policy or a toolchain that was not in force at a moment of it, whichever saved
\* copies, stamps and records it used (_cache_contract.py:351).
THEOREM SettingsCertified == Spec => []SettingsInForce
<1>1. IInv => SettingsInForce
  BY DEF IInv, CallOK, SettingsInForce
<1>2. QED
  BY Invariance, <1>1, PTL

\* Outside framework_identity there is a digest exactly if there is a guard, and the digest is of the images
\* the guard has checked as long as no list has come back as above (_framework_contract.py:395).
THEOREM DigestGuarded == Spec => []DigestMatchesGuard
<1>1. IInv => DigestMatchesGuard
  <2> SUFFICES ASSUME IInv, lock = None
               PROVE  \/ snapshot = None /\ guard = None
                      \/ snapshot # None /\ guard # None /\ (~reverted => guard.names = snapshot.images)
    BY DEF DigestMatchesGuard
  <2>1. Shared /\ \A c \in Callers : pc[c] # "again"
    BY NoneFacts DEF IInv, CallOK, Frames
  <2>2. Match(snapshot, guard)
    BY <2>1 DEF Shared
  <2>3. QED
    BY <2>2 DEF Match
<1>2. QED
  BY Invariance, <1>1, PTL

================================================================================

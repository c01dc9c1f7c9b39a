--------------------------- MODULE KernelCache_proof ---------------------------
(***************************************************************************)
(* Proofs about KernelCache, for any number of processes, threads,         *)
(* functions and policies, and for any amount of interference.             *)
(***************************************************************************)
EXTENDS KernelCache, TLAPS

\* The steps at which a call has its source key, and those at which it has the
\* text that it will build.
Keyed == {"readsource", "readrecord", "emit", "record", "putsource", "putrecord", "stash",
          "check", "build", "seal"}
Emitted == {"record", "putsource", "putrecord", "stash", "check", "build", "seal"}

USE DEF NeverRestored, Undisturbed

\* A record whose contract is the policy of its key certifies the emission for
\* that key, wherever it lies.
Genuine(r) == r # None /\ r.contract = r.key.policy => r.sha = r.key

\* All code of a stamped kernel of function s is the emission under its stamp.
Faithful(h, s) ==
  /\ h.hash.source = s
  /\ h.hash.policy = h.stamp
  /\ h.bin = h.hash
  /\ h.msl # None => h.msl = h.hash

SharedOK ==
  /\ NeverRestored => \A k \in Keys :
       /\ Genuine(rec[k])
       /\ Genuine(stash[k])
       /\ \A p \in Procs : Genuine(mem[p][k])
  /\ Undisturbed =>
       /\ \A k \in Keys : outer[k] # None => Faithful(outer[k], k.source)
       /\ \A p \in Procs, s \in Sources : resident[p][s] # None => Faithful(resident[p][s], s)

\* What call c holds at each step.  While the policy it has recorded is still, or
\* again, in force, it has been in force all along, unless one was restored; so its
\* text is that policy's.
CallOK(c) ==
  /\ pc[c] # "idle" => source[c] \in Sources
  /\ pc[c] = "compare" => seen[c] \in Policies
  /\ pc[c] \in Keyed \cup {"stages", "key"} => outerKey[c] \in Keys /\ outerKey[c].source = source[c]
  /\ pc[c] \in Keyed \cup {"key"} => seen[c] \in Policies
  /\ pc[c] \in Keyed =>
       /\ key[c] \in Keys
       /\ key[c].source = source[c]
       /\ NeverRestored /\ Now(c) = seen[c] => key[c].policy = seen[c]
  /\ pc[c] \in Emitted \cup {"readrecord"} => text[c] \in Texts
  /\ pc[c] \in Emitted => (NeverRestored /\ Now(c) = key[c].policy => text[c] = key[c])
  /\ pc[c] \in {"putsource", "putrecord"} => record[c] \in Records
  /\ pc[c] \in {"putsource", "putrecord", "memory", "file"} => (NeverRestored => Genuine(record[c]))
  /\ pc[c] \in {"recall", "memory", "file"} => (Undisturbed => Now(c) = handle[c].stamp)
  /\ pc[c] \in {"insert", "construct", "recall", "memory", "file", "call"} =>
       handle[c] \in Handles /\ (Undisturbed => Faithful(handle[c], source[c]))

IInv == TypeOK /\ SharedOK /\ (\A c \in Callers : CallOK(c)) /\ LaunchesOwnCode

--------------------------------------------------------------------------------

\* A step of call c leaves what the other calls hold alone.
Others(c) ==
  /\ undercut' = undercut
  /\ \A d \in Callers \ {c} :
    /\ pc'[d] = pc[d] /\ source'[d] = source[d] /\ outerKey'[d] = outerKey[d]
    /\ seen'[d] = seen[d] /\ key'[d] = key[d] /\ text'[d] = text[d]
    /\ record'[d] = record[d] /\ handle'[d] = handle[d]

LEMMA OthersKeep ==
  ASSUME IInv, NEW c \in Callers, Others(c), policy' = policy
  PROVE  \A d \in Callers \ {c} : CallOK(d)'
  BY DEF IInv, Others, CallOK, Now

LEMMA ResidentReplaced ==
  ASSUME IInv, NEW p \in Procs, NEW s \in Sources, NEW v \in Handles \cup {None},
         resident' = resident \/ resident' = [resident EXCEPT ![p][s] = v]
  PROVE  /\ resident' \in [Procs -> [Sources -> Handles \cup {None}]]
         /\ \A q \in Procs, f \in Sources :
              resident'[q][f] = resident[q][f] \/ (f = s /\ resident'[q][f] = v)
<1>1. resident \in [Procs -> [Sources -> Handles \cup {None}]]
  BY DEF IInv, TypeOK
<1>2. CASE resident' = resident
  BY <1>1, <1>2
<1>3. CASE resident' = [resident EXCEPT ![p][s] = v]
  BY <1>1, <1>3
<1>4. QED
  BY <1>2, <1>3

LEMMA GuardReplaced ==
  ASSUME IInv, NEW p \in Procs, NEW s \in Sources, NEW v \in Policies,
         guard' = guard \/ guard' = [guard EXCEPT ![p][s] = v]
  PROVE  guard' \in [Procs -> [Sources -> Policies \cup {None}]]
<1>1. guard \in [Procs -> [Sources -> Policies \cup {None}]]
  BY DEF IInv, TypeOK
<1>2. CASE guard' = guard
  BY <1>1, <1>2
<1>3. CASE guard' = [guard EXCEPT ![p][s] = v]
  BY <1>1, <1>3
<1>4. QED
  BY <1>2, <1>3

LEMMA NoneIsNothing ==
  None \notin Keys /\ None \notin Records /\ None \notin Handles /\ None \notin Texts
  BY NoneAssumption, ProductAssumption

LEMMA NowTyped ==
  ASSUME IInv, NEW c \in Callers
  PROVE  Proc[c] \in Procs /\ Now(c) \in Policies
  BY ProcAssumption DEF IInv, TypeOK, Now

LEMMA InitIInv == Init => IInv
<1> SUFFICES ASSUME Init PROVE IInv
  OBVIOUS
<1> USE DEF Init
<1>1. noise \in 0 .. MaxNoise /\ ran \in [Callers -> {None}]
  BY ProcAssumption
<1>2. TypeOK
  BY <1>1 DEF TypeOK, Steps
<1>3. SharedOK
  BY DEF SharedOK, Genuine
<1>4. ASSUME NEW c \in Callers PROVE CallOK(c)
  BY DEF CallOK, Keyed, Emitted
<1>5. LaunchesOwnCode
  BY DEF LaunchesOwnCode
<1>6. QED
  BY <1>2, <1>3, <1>4, <1>5 DEF IInv

LEMMA StartIInv ==
  ASSUME IInv, NEW c \in Callers, NEW s \in Sources, NEW w \in BOOLEAN, Start(c, s, w)
  PROVE  IInv'
<1> USE DEF Start, disk, process, env, Goto, At
<1>1. TypeOK'
  BY DEF IInv, TypeOK, Steps
<1>2. SharedOK'
  BY DEF IInv, SharedOK
<1>3. CallOK(c)'
  BY DEF IInv, TypeOK, CallOK, Keyed, Emitted
<1>4. Others(c)
  BY DEF IInv, TypeOK, Others
<1>5. LaunchesOwnCode'
  BY DEF IInv, TypeOK, LaunchesOwnCode
<1>6. QED
  BY <1>1, <1>2, <1>3, <1>4, <1>5, OthersKeep DEF IInv

\* A call that ends without a launch.
LEMMA StopIInv ==
  ASSUME IInv, NEW c \in Callers, NEW o \in Outcomes, Stop(c, o)
  PROVE  IInv'
<1> USE DEF Stop, Finish, Drop, disk, process, env, Goto
<1>1. TypeOK'
  BY DEF IInv, TypeOK, Steps
<1>2. SharedOK'
  BY DEF IInv, SharedOK
<1>3. CallOK(c)'
  BY DEF IInv, TypeOK, CallOK, Keyed, Emitted
<1>4. Others(c)
  BY DEF IInv, TypeOK, Others
<1>5. LaunchesOwnCode'
  BY DEF IInv, LaunchesOwnCode
<1>6. QED
  BY <1>1, <1>2, <1>3, <1>4, <1>5, OthersKeep DEF IInv

LEMMA HookIInv ==
  ASSUME IInv, NEW c \in Callers, Hook(c)
  PROVE  IInv'
<1> USE DEF Hook, disk, process, history, env, Goto, At
<1>1. TypeOK'
  BY NowTyped DEF IInv, TypeOK, CallOK, Steps, Keyed, Emitted, Now
<1>2. SharedOK'
  BY DEF IInv, SharedOK
<1>3. CallOK(c)'
  BY NowTyped DEF IInv, TypeOK, CallOK, Now, Keyed, Emitted
<1>4. Others(c)
  BY DEF IInv, TypeOK, Others
<1>5. LaunchesOwnCode'
  BY DEF IInv, LaunchesOwnCode
<1>6. QED
  BY <1>1, <1>2, <1>3, <1>4, <1>5, OthersKeep DEF IInv

LEMMA CompareIInv ==
  ASSUME IInv, NEW c \in Callers, Compare(c)
  PROVE  IInv'
<1> USE DEF Compare, disk, process, history, env, Goto, At
<1>1. Proc[c] \in Procs /\ source[c] \in Sources /\ seen[c] \in Policies
  BY NowTyped DEF IInv, CallOK
<1>2. /\ resident' \in [Procs -> [Sources -> Handles \cup {None}]]
      /\ guard' \in [Procs -> [Sources -> Policies \cup {None}]]
      /\ orphan' \in [Callers -> BOOLEAN]
  <2>1. resident' = resident \/ resident' = [resident EXCEPT ![Proc[c]][source[c]] = None]
    OBVIOUS
  <2>2. guard' = guard \/ guard' = [guard EXCEPT ![Proc[c]][source[c]] = seen[c]]
    OBVIOUS
  <2>3. orphan' \in [Callers -> BOOLEAN]
    BY DEF IInv, TypeOK
  <2> HIDE DEF Compare
  <2>4. resident' \in [Procs -> [Sources -> Handles \cup {None}]]
    BY <1>1, <2>1, ResidentReplaced
  <2>5. guard' \in [Procs -> [Sources -> Policies \cup {None}]]
    BY <1>1, <2>2, GuardReplaced
  <2>6. QED
    BY <2>3, <2>4, <2>5
<1>3. TypeOK'
  BY <1>2 DEF IInv, TypeOK, Steps
<1>4. SharedOK'
  <2>1. ASSUME NEW p \in Procs, NEW s \in Sources
        PROVE  resident'[p][s] \in {resident[p][s], None}
    <3>1. resident' = resident \/ resident' = [resident EXCEPT ![Proc[c]][source[c]] = None]
      OBVIOUS
    <3> HIDE DEF Compare
    <3>2. QED
      BY <1>1, <3>1, ResidentReplaced
  <2>2. UNCHANGED <<src, rec, stash, outer, mem, undercut>>
    OBVIOUS
  <2> HIDE DEF Compare
  <2>3. QED
    BY <2>1, <2>2 DEF IInv, SharedOK
<1>5. CallOK(c)'
  BY DEF IInv, TypeOK, CallOK, Now, Keyed, Emitted
<1>6. Others(c)
  BY DEF IInv, TypeOK, Others
<1>7. LaunchesOwnCode'
  BY DEF IInv, LaunchesOwnCode
<1>8. QED
  BY <1>3, <1>4, <1>5, <1>6, <1>7, OthersKeep DEF IInv

LEMMA FoundIInv ==
  ASSUME IInv, NEW c \in Callers, NEW h, h = resident[Proc[c]][source[c]], At(c, "lookup"),
         h # None => ~warm[c],
         Goto(c, IF h = None THEN "outer" ELSE IF h.ready THEN "call" ELSE "construct"),
         handle' = [handle EXCEPT ![c] = h],
         UNCHANGED <<disk, process, source, warm, orphan, outerKey, seen, key, text, record,
                     history, env>>
  PROVE  IInv'
<1> USE DEF disk, process, history, env, Goto, At
<1>1. TypeOK'
  BY NowTyped DEF IInv, TypeOK, CallOK, Steps, Keyed, Emitted
<1>2. SharedOK'
  BY DEF IInv, SharedOK
<1>3. CallOK(c)'
  <2>1. Proc[c] \in Procs /\ source[c] \in Sources
    BY NowTyped DEF IInv, CallOK
  <2>2. h # None => h \in Handles /\ (Undisturbed => Faithful(h, source[c]))
    BY <2>1 DEF IInv, TypeOK, SharedOK
  <2>3. handle'[c] = h /\ pc'[c] \in {"outer", "construct", "call"} /\ (h = None => pc'[c] = "outer")
    BY DEF IInv, TypeOK
  <2>4. QED
    BY <2>2, <2>3 DEF IInv, TypeOK, CallOK, Now, Keyed, Emitted
<1>4. Others(c)
  BY DEF IInv, TypeOK, Others
<1>5. LaunchesOwnCode'
  BY DEF IInv, LaunchesOwnCode
<1>6. QED
  BY <1>1, <1>2, <1>3, <1>4, <1>5, OthersKeep DEF IInv

LEMMA LookupIInv ==
  ASSUME IInv, NEW c \in Callers, Lookup(c)
  PROVE  IInv'
  BY StopIInv, FoundIInv DEF Lookup, Outcomes

LEMMA OuterIInv ==
  ASSUME IInv, NEW c \in Callers, Outer(c)
  PROVE  IInv'
<1> USE DEF Outer, disk, process, history, env, Goto, At
<1>1. TypeOK'
  BY NowTyped DEF IInv, TypeOK, CallOK, Steps, Keyed, Emitted, Keys, Now
<1>2. SharedOK'
  BY DEF IInv, SharedOK
<1>3. CallOK(c)'
  <2> DEFINE k == [source |-> source[c], policy |-> Now(c)]
  <2>1. source[c] \in Sources /\ k \in Keys /\ k.source = source[c]
    BY NowTyped DEF IInv, CallOK, Keys
  <2>2. outer[k] # None => outer[k] \in Handles /\ (Undisturbed => Faithful(outer[k], source[c]))
    BY <2>1 DEF IInv, TypeOK, SharedOK
  <2>3. /\ handle'[c] = outer[k] /\ outerKey'[c] = k /\ source'[c] = source[c]
        /\ pc'[c] = IF outer[k] = None THEN "stages" ELSE "insert"
    BY DEF IInv, TypeOK
  <2>4. QED
    BY <2>1, <2>2, <2>3 DEF CallOK, Keyed, Emitted
<1>4. Others(c)
  BY DEF IInv, TypeOK, Others
<1>5. LaunchesOwnCode'
  BY DEF IInv, LaunchesOwnCode
<1>6. QED
  BY <1>1, <1>2, <1>3, <1>4, <1>5, OthersKeep DEF IInv

LEMMA StagesIInv ==
  ASSUME IInv, NEW c \in Callers, Stages(c)
  PROVE  IInv'
<1> USE DEF Stages, disk, process, history, env, Goto, At
<1>1. TypeOK'
  BY NowTyped DEF IInv, TypeOK, CallOK, Steps, Keyed, Emitted, Now
<1>2. SharedOK'
  BY DEF IInv, SharedOK
<1>3. CallOK(c)'
  BY NowTyped DEF IInv, TypeOK, CallOK, Now, Keyed, Emitted
<1>4. Others(c)
  BY DEF IInv, TypeOK, Others
<1>5. LaunchesOwnCode'
  BY DEF IInv, LaunchesOwnCode
<1>6. QED
  BY <1>1, <1>2, <1>3, <1>4, <1>5, OthersKeep DEF IInv

LEMMA KeyIInv ==
  ASSUME IInv, NEW c \in Callers, Key(c)
  PROVE  IInv'
<1> USE DEF Key, disk, process, history, env, Goto, At
<1>1. TypeOK'
  BY NowTyped DEF IInv, TypeOK, CallOK, Steps, Keyed, Emitted, Keys, Now
<1>2. SharedOK'
  BY DEF IInv, SharedOK
<1>3. CallOK(c)'
  BY NowTyped DEF IInv, TypeOK, CallOK, Now, Keyed, Emitted, Keys
<1>4. Others(c)
  BY DEF IInv, TypeOK, Others
<1>5. LaunchesOwnCode'
  BY DEF IInv, LaunchesOwnCode
<1>6. QED
  BY <1>1, <1>2, <1>3, <1>4, <1>5, OthersKeep DEF IInv

LEMMA ReadSourceIInv ==
  ASSUME IInv, NEW c \in Callers, ReadSource(c)
  PROVE  IInv'
<1> USE DEF ReadSource, disk, process, history, env, Goto, At
<1>1. TypeOK'
  BY NowTyped DEF IInv, TypeOK, CallOK, Steps, Keyed, Emitted
<1>2. SharedOK'
  BY DEF IInv, SharedOK
<1>3. CallOK(c)'
  BY NowTyped DEF IInv, TypeOK, CallOK, Now, Keyed, Emitted
<1>4. Others(c)
  BY DEF IInv, TypeOK, Others
<1>5. LaunchesOwnCode'
  BY DEF IInv, LaunchesOwnCode
<1>6. QED
  BY <1>1, <1>2, <1>3, <1>4, <1>5, OthersKeep DEF IInv

LEMMA ReadRecordIInv ==
  ASSUME IInv, NEW c \in Callers, ReadRecord(c)
  PROVE  IInv'
<1> USE DEF ReadRecord, disk, process, history, env, Goto, At
<1>1. TypeOK'
  BY NowTyped DEF IInv, TypeOK, CallOK, Steps, Keyed, Emitted
<1>2. SharedOK'
  BY DEF IInv, SharedOK
<1>3. CallOK(c)'
  <2> DEFINE hit == Decodes(rec[key[c]], text[c], key[c], Now(c))
  <2>1. key[c] \in Keys /\ text[c] \in Texts
    BY DEF IInv, CallOK, Keyed
  <2>2. hit /\ NeverRestored /\ Now(c) = key[c].policy => text[c] = key[c]
    BY <2>1 DEF IInv, SharedOK, Decodes, Genuine
  <2>3. /\ pc' = [pc EXCEPT ![c] = IF hit THEN "stash" ELSE "emit"]
        /\ hit => text' = text
        /\ UNCHANGED <<policy, source, outerKey, seen, key, record, handle, undercut>>
    OBVIOUS
  <2> HIDE DEF hit, ReadRecord
  <2>4. QED
    BY <2>1, <2>2, <2>3 DEF ReadRecord, IInv, TypeOK, CallOK, Now, Keyed, Emitted
<1>4. Others(c)
  BY DEF IInv, TypeOK, Others
<1>5. LaunchesOwnCode'
  BY DEF IInv, LaunchesOwnCode
<1>6. QED
  BY <1>1, <1>2, <1>3, <1>4, <1>5, OthersKeep DEF IInv

LEMMA EmitIInv ==
  ASSUME IInv, NEW c \in Callers, Emit(c)
  PROVE  IInv'
<1> USE DEF disk, process, history, env, Goto, At
<1> DEFINE t == [source |-> source[c], policy |-> Now(c)]
<1>1. CASE Stop(c, "raised")
  BY <1>1, StopIInv DEF Outcomes
<1>2. CASE /\ At(c, "emit")
           /\ text' = [text EXCEPT ![c] = t]
           /\ Goto(c, "record")
           /\ UNCHANGED <<disk, process, source, warm, orphan, outerKey, seen, key, record, handle,
                          history, env>>
  <2>1. t \in Texts
    BY <1>2, NowTyped DEF IInv, CallOK, Texts, Codes
  <2>2. TypeOK'
    BY <1>2, <2>1 DEF IInv, TypeOK, Steps
  <2>3. SharedOK' /\ LaunchesOwnCode'
    BY <1>2 DEF IInv, SharedOK, LaunchesOwnCode
  <2>4. NeverRestored /\ Now(c) = key[c].policy => t = key[c]
    BY <1>2 DEF IInv, CallOK, Keyed, Keys
  <2>5. CallOK(c)'
    BY <1>2, <2>1, <2>4 DEF IInv, TypeOK, CallOK, Now, Keyed, Emitted
  <2>6. Others(c)
    BY <1>2 DEF IInv, TypeOK, Others
  <2>7. QED
    BY <1>2, <2>2, <2>3, <2>5, <2>6, OthersKeep DEF IInv
<1>3. QED
  BY <1>1, <1>2 DEF Emit

LEMMA MakeRecordIInv ==
  ASSUME IInv, NEW c \in Callers, MakeRecord(c)
  PROVE  IInv'
<1> USE DEF MakeRecord, disk, process, history, env, Goto, At
<1>1. TypeOK'
  BY NowTyped DEF IInv, TypeOK, CallOK, Steps, Keyed, Emitted, Records, ContractOfRecord, Now
<1>2. SharedOK'
  BY DEF IInv, SharedOK
<1>3. CallOK(c)'
  BY NowTyped DEF IInv, TypeOK, CallOK, Now, Keyed, Emitted, Records, Genuine, ContractOfRecord
<1>4. Others(c)
  BY DEF IInv, TypeOK, Others
<1>5. LaunchesOwnCode'
  BY DEF IInv, LaunchesOwnCode
<1>6. QED
  BY <1>1, <1>2, <1>3, <1>4, <1>5, OthersKeep DEF IInv

LEMMA PutSourceIInv ==
  ASSUME IInv, NEW c \in Callers, PutSource(c)
  PROVE  IInv'
<1> USE DEF PutSource, disk, process, locals, history, env, Goto, At
<1>1. TypeOK'
  BY NowTyped DEF IInv, TypeOK, CallOK, Steps, Keyed, Emitted
<1>2. SharedOK'
  BY DEF IInv, SharedOK
<1>3. CallOK(c)'
  BY NowTyped DEF IInv, TypeOK, CallOK, Now, Keyed, Emitted
<1>4. Others(c)
  BY DEF IInv, TypeOK, Others
<1>5. LaunchesOwnCode'
  BY DEF IInv, LaunchesOwnCode
<1>6. QED
  BY <1>1, <1>2, <1>3, <1>4, <1>5, OthersKeep DEF IInv

LEMMA PutRecordIInv ==
  ASSUME IInv, NEW c \in Callers, PutRecord(c)
  PROVE  IInv'
<1> USE DEF PutRecord, disk, process, locals, history, env, Goto, At
<1>1. TypeOK'
  BY NowTyped DEF IInv, TypeOK, CallOK, Steps, Keyed, Emitted
<1>2. SharedOK'
  <2>1. key[c] \in Keys /\ (NeverRestored => Genuine(record[c]))
    BY DEF IInv, CallOK, Keyed
  <2>2. \A k \in Keys : rec'[k] \in {rec[k], record[c]}
    BY <2>1 DEF IInv, TypeOK
  <2>3. QED
    BY <2>1, <2>2 DEF IInv, SharedOK
<1>3. CallOK(c)'
  BY NowTyped DEF IInv, TypeOK, CallOK, Now, Keyed, Emitted
<1>4. Others(c)
  BY DEF IInv, TypeOK, Others
<1>5. LaunchesOwnCode'
  BY DEF IInv, LaunchesOwnCode
<1>6. QED
  BY <1>1, <1>2, <1>3, <1>4, <1>5, OthersKeep DEF IInv

LEMMA StashIInv ==
  ASSUME IInv, NEW c \in Callers, Stash(c)
  PROVE  IInv'
<1> USE DEF disk, process, locals, history, env, Goto, At
<1> DEFINE r == [key |-> key[c], contract |-> Now(c), sha |-> text[c]]
<1>1. /\ Proc[c] \in Procs /\ Now(c) \in Policies /\ key[c] \in Keys /\ text[c] \in Texts
      /\ NeverRestored /\ Now(c) = key[c].policy => text[c] = key[c]
  BY NowTyped DEF Stash, IInv, CallOK, Keyed, Emitted
<1>2. r \in Records /\ (NeverRestored => Genuine(r))
  BY <1>1 DEF Records, Genuine
<1>3. /\ pc[c] = "stash" /\ pc' = [pc EXCEPT ![c] = "check"]
      /\ mem' = [mem EXCEPT ![Proc[c]][key[c]] = r]
      /\ stash' = [stash EXCEPT ![key[c]] = r] \/ stash' = stash
      /\ UNCHANGED <<src, rec, outer, policy, resident, guard, locals, history, env>>
  BY DEF Stash
<1> HIDE DEF r
<1>4. mem' \in [Procs -> [Keys -> Records \cup {None}]]
  BY <1>1, <1>2, <1>3 DEF IInv, TypeOK
<1>5. TypeOK'
  BY <1>1, <1>2, <1>3, <1>4 DEF IInv, TypeOK, Steps
<1>6. SharedOK'
  <2>1. \A p \in Procs, k \in Keys : mem'[p][k] \in {mem[p][k], r}
    BY <1>1, <1>3 DEF IInv, TypeOK
  <2>2. \A k \in Keys : stash'[k] \in {stash[k], r}
    BY <1>1, <1>3 DEF IInv, TypeOK
  <2>3. QED
    BY <1>2, <1>3, <2>1, <2>2 DEF IInv, SharedOK
<1>7. CallOK(c)'
  BY <1>3 DEF IInv, TypeOK, CallOK, Now, Keyed, Emitted
<1>8. Others(c) /\ LaunchesOwnCode'
  BY <1>3 DEF IInv, TypeOK, Others, LaunchesOwnCode
<1>9. QED
  BY <1>3, <1>5, <1>6, <1>7, <1>8, OthersKeep DEF IInv

LEMMA CheckIInv ==
  ASSUME IInv, NEW c \in Callers, Check(c)
  PROVE  IInv'
<1> USE DEF disk, process, locals, history, env, Goto, At
<1>1. CASE Stop(c, "raised")
  BY <1>1, StopIInv DEF Outcomes
<1>2. CASE Goto(c, "build") /\ UNCHANGED <<disk, process, locals, history, env>>
  <2>1. TypeOK'
    BY <1>2 DEF IInv, TypeOK, Steps
  <2>2. SharedOK' /\ LaunchesOwnCode'
    BY <1>2 DEF IInv, SharedOK, LaunchesOwnCode
  <2>3. CallOK(c)'
    BY <1>2 DEF Check, IInv, TypeOK, CallOK, Now, Keyed, Emitted
  <2>4. Others(c)
    BY <1>2 DEF IInv, TypeOK, Others
  <2>5. QED
    BY <1>2, <2>1, <2>2, <2>3, <2>4, OthersKeep DEF IInv
<1>3. QED
  BY <1>1, <1>2 DEF Check

LEMMA BuildIInv ==
  ASSUME IInv, NEW c \in Callers, Build(c)
  PROVE  IInv'
<1> USE DEF disk, process, locals, history, env, Goto, At
<1>1. CASE Stop(c, "raised")
  BY <1>1, StopIInv DEF Outcomes
<1>2. CASE Goto(c, "seal") /\ UNCHANGED <<disk, process, locals, history, env>>
  <2>1. TypeOK'
    BY <1>2 DEF IInv, TypeOK, Steps
  <2>2. SharedOK' /\ LaunchesOwnCode'
    BY <1>2 DEF IInv, SharedOK, LaunchesOwnCode
  <2>3. CallOK(c)'
    BY <1>2 DEF Build, IInv, TypeOK, CallOK, Now, Keyed, Emitted
  <2>4. Others(c)
    BY <1>2 DEF IInv, TypeOK, Others
  <2>5. QED
    BY <1>2, <2>1, <2>2, <2>3, <2>4, OthersKeep DEF IInv
<1>3. QED
  BY <1>1, <1>2 DEF Build

LEMMA SealIInv ==
  ASSUME IInv, NEW c \in Callers, Seal(c)
  PROVE  IInv'
<1> USE DEF disk, process, history, env, Goto, At
<1> DEFINE h == [bin |-> text[c], stamp |-> seen[c], hash |-> key[c], msl |-> None, ready |-> FALSE]
<1>1. CASE Now(c) # seen[c]
  BY <1>1, StopIInv DEF Seal, Outcomes
<1>2. CASE Now(c) = seen[c]
  <2>1. /\ source[c] \in Sources /\ outerKey[c] \in Keys /\ outerKey[c].source = source[c]
        /\ text[c] \in Texts /\ seen[c] \in Policies /\ key[c] \in Keys
        /\ key[c].source = source[c]
        /\ NeverRestored => key[c].policy = seen[c] /\ text[c] = key[c]
    BY <1>2 DEF Seal, IInv, CallOK, Keyed, Emitted
  <2>2. h \in Handles
    BY <2>1 DEF Handles
  <2>3. Undisturbed => Faithful(h, source[c])
    BY <2>1 DEF Faithful
  <2>4. /\ handle' = [handle EXCEPT ![c] = h]
        /\ outer' = [outer EXCEPT ![outerKey[c]] = h]
        /\ pc' = [pc EXCEPT ![c] = "insert"]
        /\ UNCHANGED <<src, rec, stash, process, source, warm, orphan, outerKey, seen, key,
                       text, record, history, env>>
    BY <1>2 DEF Seal
  <2> HIDE DEF h
  <2>5. TypeOK'
    BY <2>1, <2>2, <2>4 DEF IInv, TypeOK, Steps
  <2>6. SharedOK'
    BY <2>1, <2>3, <2>4 DEF IInv, TypeOK, SharedOK
  <2>7. CallOK(c)'
    BY <2>1, <2>2, <2>3, <2>4 DEF IInv, TypeOK, CallOK, Keyed, Emitted
  <2>8. Others(c)
    BY <2>4 DEF IInv, TypeOK, Others
  <2>9. LaunchesOwnCode'
    BY <2>4 DEF IInv, LaunchesOwnCode
  <2>10. QED
    BY <2>4, <2>5, <2>6, <2>7, <2>8, <2>9, OthersKeep DEF IInv
<1>3. QED
  BY <1>1, <1>2

LEMMA InsertIInv ==
  ASSUME IInv, NEW c \in Callers, Insert(c)
  PROVE  IInv'
<1> USE DEF disk, process, env, Goto, At
<1>1. /\ Proc[c] \in Procs /\ source[c] \in Sources /\ pc[c] = "insert"
      /\ handle[c] \in Handles /\ (Undisturbed => Faithful(handle[c], source[c]))
  BY NowTyped DEF Insert, IInv, CallOK
<1>2. /\ \/ resident' = resident
         \/ resident' = [resident EXCEPT ![Proc[c]][source[c]] = handle[c]]
      /\ UNCHANGED <<disk, policy, mem, guard, env, ran>>
  BY DEF Insert, history
<1>3. resident' \in [Procs -> [Sources -> Handles \cup {None}]]
  BY <1>1, <1>2, ResidentReplaced
<1>4. SharedOK'
  <2>1. \A p \in Procs, s \in Sources :
          \/ resident'[p][s] = resident[p][s]
          \/ s = source[c] /\ resident'[p][s] = handle[c]
    BY <1>1, <1>2, ResidentReplaced
  <2>2. QED
    BY <1>1, <1>2, <2>1 DEF IInv, SharedOK
<1>5. CASE warm[c] /\ Finish(c, "warmed")
  <2> USE DEF Finish, Drop
  <2>1. TypeOK'
    BY <1>2, <1>3, <1>5 DEF IInv, TypeOK, Steps, Outcomes
  <2>2. CallOK(c)' /\ Others(c)
    BY <1>2, <1>5 DEF IInv, TypeOK, CallOK, Others, Keyed, Emitted
  <2>3. LaunchesOwnCode'
    BY <1>2 DEF IInv, LaunchesOwnCode
  <2>4. QED
    BY <1>2, <1>4, <2>1, <2>2, <2>3, OthersKeep DEF IInv
<1>6. CASE Goto(c, "construct") /\ UNCHANGED <<locals, history>>
  <2> USE DEF locals, history
  <2>1. TypeOK'
    BY <1>2, <1>3, <1>6 DEF IInv, TypeOK, Steps
  <2>2. CallOK(c)' /\ Others(c)
    BY <1>1, <1>2, <1>6 DEF IInv, TypeOK, CallOK, Others, Keyed, Emitted
  <2>3. LaunchesOwnCode'
    BY <1>2 DEF IInv, LaunchesOwnCode
  <2>4. QED
    BY <1>2, <1>4, <2>1, <2>2, <2>3, OthersKeep DEF IInv
<1>7. QED
  BY <1>5, <1>6 DEF Insert

LEMMA ConstructIInv ==
  ASSUME IInv, NEW c \in Callers, Construct(c)
  PROVE  IInv'
<1> USE DEF disk, history, env, Goto, At
<1> DEFINE p == Proc[c]
           s == source[c]
           h == handle[c]
<1>1. CASE Now(c) # h.stamp
  BY <1>1, StopIInv DEF Construct, Outcomes
<1>2. CASE Now(c) = h.stamp
  <2>1. p \in Procs /\ s \in Sources /\ h \in Handles /\ (Undisturbed => Faithful(h, s))
    BY NowTyped DEF Construct, IInv, CallOK
  <2>2. h.hash \in Keys /\ h.stamp \in Policies
    BY <2>1 DEF Handles
  <2>3. /\ pc[c] = "construct" /\ pc' = [pc EXCEPT ![c] = "recall"]
        /\ guard' = guard \/ guard' = [guard EXCEPT ![p][s] = h.stamp]
        /\ UNCHANGED <<disk, policy, mem, resident, source, warm, orphan, outerKey, seen, key, text,
                       record, handle, history, env>>
    BY <1>2 DEF Construct, locals
  <2>4. guard' \in [Procs -> [Sources -> Policies \cup {None}]]
    BY <2>1, <2>2, <2>3, GuardReplaced
  <2>5. TypeOK'
    BY <2>3, <2>4 DEF IInv, TypeOK, Steps
  <2>6. SharedOK' /\ LaunchesOwnCode'
    BY <2>3 DEF IInv, SharedOK, LaunchesOwnCode
  <2>7. CallOK(c)'
    BY <1>2, <2>1, <2>3 DEF IInv, TypeOK, CallOK, Keyed, Emitted, Now
  <2>8. Others(c)
    BY <2>3 DEF IInv, TypeOK, Others
  <2>9. QED
    BY <2>3, <2>5, <2>6, <2>7, <2>8, OthersKeep DEF IInv
<1>3. QED
  BY <1>1, <1>2

LEMMA RecallIInv ==
  ASSUME IInv, NEW c \in Callers, Recall(c)
  PROVE  IInv'
<1> USE DEF disk, process, history, env, Goto, At
<1> DEFINE p == Proc[c]
           h == handle[c]
           m == IF mem[p][h.hash] = None THEN stash[h.hash] ELSE mem[p][h.hash]
           next == IF mem[p][h.hash] = None THEN "file" ELSE "memory"
<1>1. /\ pc[c] = "recall" /\ pc' = [pc EXCEPT ![c] = next] /\ record' = [record EXCEPT ![c] = m]
      /\ UNCHANGED <<disk, process, source, warm, orphan, outerKey, seen, key, text, handle, history, env>>
  BY DEF Recall
<1>2. p \in Procs /\ h \in Handles /\ h.hash \in Keys
  BY <1>1, NowTyped DEF IInv, CallOK, Handles
<1>3. m \in Records \cup {None} /\ (NeverRestored => Genuine(m))
  BY <1>2 DEF IInv, TypeOK, SharedOK
<1>4. next \in {"memory", "file"}
  OBVIOUS
<1> HIDE DEF m, next
<1>5. TypeOK'
  BY <1>1, <1>3, <1>4 DEF IInv, TypeOK, Steps
<1>6. SharedOK' /\ LaunchesOwnCode'
  BY <1>1 DEF IInv, SharedOK, LaunchesOwnCode
<1>7. CallOK(c)'
  BY <1>1, <1>2, <1>3, <1>4 DEF IInv, TypeOK, CallOK, Keyed, Emitted, Now
<1>8. Others(c)
  BY <1>1 DEF IInv, TypeOK, Others
<1>9. QED
  BY <1>1, <1>5, <1>6, <1>7, <1>8, OthersKeep DEF IInv

\* A launcher that is done with the emission for its key, or without MSL.
LEMMA ResolvedIInv ==
  ASSUME IInv, NEW c \in Callers, At(c, "memory") \/ At(c, "file"),
         NEW t \in Texts \cup {None}, Resolved(c, t),
         Undisturbed /\ t # None => t = handle[c].hash,
         NEW m \in Records \cup {None}, NeverRestored => Genuine(m),
         mem' = mem \/ mem' = [mem EXCEPT ![Proc[c]][handle[c].hash] = m]
  PROVE  IInv'
<1> USE DEF disk, history, env, Goto, At
<1> DEFINE p == Proc[c]
           s == source[c]
           h == handle[c]
           new == [h EXCEPT !.msl = t, !.ready = TRUE]
<1>1. p \in Procs /\ s \in Sources /\ h \in Handles /\ (Undisturbed => Faithful(h, s))
  BY NowTyped DEF IInv, CallOK
<1>2. h.hash \in Keys
  BY <1>1 DEF Handles
<1>3. new \in Handles /\ (Undisturbed => Faithful(new, s))
  BY <1>1 DEF Handles, Faithful
<1>4. /\ pc' = [pc EXCEPT ![c] = "call"]
      /\ handle' = [handle EXCEPT ![c] = new]
      /\ record' = [record EXCEPT ![c] = None]
      /\ resident' = resident \/ resident' = [resident EXCEPT ![p][s] = new]
      /\ UNCHANGED <<disk, policy, guard, source, warm, orphan, outerKey, seen, key, text, history, env>>
  BY DEF Resolved
<1> HIDE DEF new
<1>5. /\ mem' \in [Procs -> [Keys -> Records \cup {None}]]
      /\ \A q \in Procs, k \in Keys : mem'[q][k] \in {mem[q][k], m}
  <2>1. mem \in [Procs -> [Keys -> Records \cup {None}]]
    BY DEF IInv, TypeOK
  <2>2. CASE mem' = mem
    BY <2>1, <2>2
  <2>3. CASE mem' = [mem EXCEPT ![p][h.hash] = m]
    BY <1>1, <1>2, <2>1, <2>3
  <2>4. QED
    BY <2>2, <2>3
<1>6. /\ resident' \in [Procs -> [Sources -> Handles \cup {None}]]
      /\ \A q \in Procs, f \in Sources :
           resident'[q][f] = resident[q][f] \/ (f = s /\ resident'[q][f] = new)
  BY <1>1, <1>3, <1>4, ResidentReplaced
<1>7. TypeOK'
  BY <1>3, <1>4, <1>5, <1>6 DEF IInv, TypeOK, Steps
<1>8. SharedOK'
  BY <1>3, <1>4, <1>5, <1>6 DEF IInv, SharedOK
<1>9. CallOK(c)'
  BY <1>1, <1>3, <1>4 DEF IInv, TypeOK, CallOK, Keyed, Emitted
<1>10. Others(c)
  BY <1>4 DEF IInv, TypeOK, Others
<1>11. LaunchesOwnCode'
  BY <1>4 DEF IInv, LaunchesOwnCode
<1>12. QED
  BY <1>4, <1>7, <1>8, <1>9, <1>10, <1>11, OthersKeep DEF IInv

\* What an envelope yields under the policy of its key is the emission for that key:
\* the policy has not changed since the launcher's stamp.
LEMMA DecodedGenuine ==
  ASSUME IInv, NEW c \in Callers, pc[c] \in {"memory", "file"}, record[c] # None,
         Decodes(record[c], record[c].sha, handle[c].hash, Now(c))
  PROVE  /\ record[c] \in Records /\ record[c].sha \in Texts
         /\ NeverRestored => Genuine(record[c])
         /\ Undisturbed => record[c].sha = handle[c].hash
<1>1. record[c] \in Records
  BY DEF IInv, TypeOK
<1>2. record[c].sha \in Texts
  BY <1>1 DEF Records
<1>3. NeverRestored => Genuine(record[c])
  BY DEF IInv, CallOK
<1>4. ASSUME Undisturbed PROVE record[c].sha = handle[c].hash
  <2>1. Now(c) = handle[c].stamp /\ Faithful(handle[c], source[c])
    BY <1>4 DEF IInv, CallOK
  <2>2. QED
    BY <1>3, <1>4, <2>1 DEF Faithful, Decodes, Genuine
<1>5. QED
  BY <1>1, <1>2, <1>3, <1>4

LEMMA FromMemoryIInv ==
  ASSUME IInv, NEW c \in Callers, FromMemory(c)
  PROVE  IInv'
<1> USE DEF disk, history, env, Goto, At
<1> DEFINE p == Proc[c]
           k == handle[c].hash
           m == record[c]
           hit == m # None /\ Decodes(m, m.sha, k, Now(c))
<1>1. pc[c] = "memory"
  BY DEF FromMemory
<1>2. CASE hit
  <2>1. Resolved(c, m.sha) /\ mem' = mem
    BY <1>2 DEF FromMemory
  <2>2. m \in Records \cup {None} /\ m.sha \in Texts \cup {None}
        /\ (NeverRestored => Genuine(m)) /\ (Undisturbed => m.sha = k)
    BY <1>1, <1>2, DecodedGenuine
  <2>3. QED
    BY <1>1, <2>1, <2>2, ResolvedIInv
<1>3. CASE ~hit
  <2>1. p \in Procs /\ k \in Keys
    BY <1>1, NowTyped DEF IInv, CallOK, Handles
  <2>2. /\ pc' = [pc EXCEPT ![c] = "file"]
        /\ mem' = mem \/ mem' = [mem EXCEPT ![p][k] = None]
        /\ record' = [record EXCEPT ![c] = stash[k]]
        /\ UNCHANGED <<disk, policy, resident, guard, source, warm, orphan, outerKey, seen, key, text,
                       handle, history, env>>
    BY <1>3 DEF FromMemory
  <2>3. /\ mem' \in [Procs -> [Keys -> Records \cup {None}]]
        /\ \A q \in Procs, j \in Keys : mem'[q][j] \in {mem[q][j], None}
    <3>1. mem \in [Procs -> [Keys -> Records \cup {None}]]
      BY DEF IInv, TypeOK
    <3>2. CASE mem' = mem
      BY <3>1, <3>2
    <3>3. CASE mem' = [mem EXCEPT ![p][k] = None]
      BY <2>1, <3>1, <3>3
    <3>4. QED
      BY <2>2, <3>2, <3>3
  <2>4. stash[k] \in Records \cup {None} /\ (NeverRestored => Genuine(stash[k]))
    BY <2>1 DEF IInv, TypeOK, SharedOK
  <2>5. TypeOK'
    BY <2>2, <2>3, <2>4 DEF IInv, TypeOK, Steps
  <2>6. SharedOK'
    BY <2>2, <2>3 DEF IInv, SharedOK, Genuine
  <2>7. CallOK(c)'
    BY <1>1, <2>2, <2>4 DEF IInv, TypeOK, CallOK, Keyed, Emitted, Now
  <2>8. Others(c) /\ LaunchesOwnCode'
    BY <2>2 DEF IInv, TypeOK, Others, LaunchesOwnCode
  <2>9. QED
    BY <2>2, <2>5, <2>6, <2>7, <2>8, OthersKeep DEF IInv
<1>4. QED
  BY <1>2, <1>3

LEMMA FromFileIInv ==
  ASSUME IInv, NEW c \in Callers, FromFile(c)
  PROVE  IInv'
<1> USE DEF At
<1> DEFINE k == handle[c].hash
           f == record[c]
           hit == f # None /\ Decodes(f, f.sha, k, Now(c))
<1>1. pc[c] = "file"
  BY DEF FromFile
<1>2. CASE hit
  <2>1. Resolved(c, f.sha) /\ mem' = [mem EXCEPT ![Proc[c]][k] = f]
    BY <1>2 DEF FromFile
  <2>2. f \in Records \cup {None} /\ f.sha \in Texts \cup {None}
        /\ (NeverRestored => Genuine(f)) /\ (Undisturbed => f.sha = k)
    BY <1>1, <1>2, DecodedGenuine
  <2>3. QED
    BY <1>1, <2>1, <2>2, ResolvedIInv
<1>3. CASE ~hit
  <2>1. Resolved(c, None) /\ mem' = mem
    BY <1>3 DEF FromFile
  <2>2. Genuine(None)
    BY DEF Genuine
  <2>3. QED
    BY <1>1, <2>1, <2>2, ResolvedIInv
<1>4. QED
  BY <1>2, <1>3

LEMMA CallIInv ==
  ASSUME IInv, NEW c \in Callers, Call(c)
  PROVE  IInv'
<1> USE DEF disk, process, env, Goto, At
<1> DEFINE h == handle[c]
<1>1. CASE Now(c) # h.stamp
  BY <1>1, StopIInv DEF Call, Outcomes
<1>2. CASE Now(c) = h.stamp
  <2>1. /\ source[c] \in Sources /\ h \in Handles /\ Now(c) \in Policies
        /\ Undisturbed => Faithful(h, source[c])
    BY NowTyped DEF Call, IInv, CallOK
  <2>2. PICK code \in {h.bin, h.msl} \ {None} :
          ran' = [ran EXCEPT ![c] = [code |-> code, source |-> source[c], policy |-> Now(c)]]
    BY <1>2 DEF Call
  <2>3. Finish(c, "launched") /\ UNCHANGED <<disk, process, env>>
    BY <1>2 DEF Call
  <2>4. (Undisturbed => code = h.hash) /\ code \in Texts
    BY <2>1 DEF Faithful, Handles
  <2>5. Undisturbed => code = [source |-> source[c], policy |-> Now(c)]
    BY <1>2, <2>1, <2>4 DEF Handles, Faithful, Keys
  <2>6. ran' \in [Callers -> [code : Texts, source : Sources, policy : Policies] \cup {None}]
    BY <2>1, <2>2, <2>4 DEF IInv, TypeOK
  <2>7. LaunchesOwnCode'
    BY <2>2, <2>3, <2>5 DEF IInv, TypeOK, LaunchesOwnCode
  <2>8. SharedOK'
    BY <2>3 DEF IInv, SharedOK
  <2> USE DEF Finish, Drop
  <2>9. TypeOK'
    BY <2>3, <2>6 DEF IInv, TypeOK, Steps, Outcomes
  <2>10. CallOK(c)' /\ Others(c)
    BY <2>3 DEF IInv, TypeOK, CallOK, Others, Keyed, Emitted
  <2>11. QED
    BY <2>3, <2>7, <2>8, <2>9, <2>10, OthersKeep DEF IInv
<1>3. QED
  BY <1>1, <1>2

LEMMA StepIInv ==
  ASSUME IInv, NEW c \in Callers, Step(c)
  PROVE  IInv'
  BY HookIInv, CompareIInv, LookupIInv, OuterIInv, StagesIInv, KeyIInv, ReadSourceIInv,
     ReadRecordIInv, EmitIInv, MakeRecordIInv, PutSourceIInv, PutRecordIInv, StashIInv,
     CheckIInv, BuildIInv, SealIInv, InsertIInv, ConstructIInv, RecallIInv, FromMemoryIInv,
     FromFileIInv, CallIInv
  DEF Step

LEMMA NoiseTyped ==
  ASSUME IInv, Noise
  PROVE  noise' \in 0 .. MaxNoise
<1>1. noise \in 0 .. MaxNoise
  BY DEF IInv, TypeOK
<1>2. QED
  BY <1>1, ProcAssumption DEF Noise

\* A new policy that a call of the process has recorded is remembered as restored;
\* under any other no call is taken to have been all along.  One that comes while a
\* launcher resolves its MSL is remembered too.
LEMMA ChangePolicyIInv ==
  ASSUME IInv, NEW p \in Procs, ChangePolicy(p)
  PROVE  IInv'
<1> USE DEF locals, history
<1>1. PICK new \in Policies :
        policy' = [policy EXCEPT ![p] = new] /\ undercut' = undercut \cup Undercuts(p, new)
  BY DEF ChangePolicy
<1>2. UNCHANGED <<disk, mem, resident, guard, pc, locals, history>>
  BY DEF ChangePolicy
<1>3. TypeOK'
  <2>1. Undercuts(p, new) \subseteq Kinds
    BY DEF Undercuts
  <2>2. noise' \in 0 .. MaxNoise /\ undercut' \subseteq Kinds
    BY <1>1, <2>1, NoiseTyped DEF ChangePolicy, IInv, TypeOK
  <2>3. QED
    BY <1>1, <1>2, <2>2 DEF IInv, TypeOK, disk
<1>4. /\ NeverRestored' => NeverRestored /\ new \notin Recorded(p)
      /\ Undisturbed' => /\ Undisturbed /\ new \notin Recorded(p)
                         /\ \A c \in Calls(p) : pc[c] \notin {"recall", "memory", "file"}
  <2>1. new \in Recorded(p) => "restored" \in Undercuts(p, new)
    BY DEF Undercuts, Kinds
  <2>2. (\E c \in Calls(p) : pc[c] \in {"recall", "memory", "file"}) => "resolving" \in Undercuts(p, new)
    BY DEF Undercuts, Kinds
  <2>3. QED
    BY <1>1, <2>1, <2>2
<1> HIDE DEF NeverRestored, Undisturbed
<1>5. SharedOK' /\ LaunchesOwnCode'
  BY <1>2, <1>4 DEF IInv, SharedOK, LaunchesOwnCode, disk
<1>6. ASSUME NEW c \in Callers
      PROVE  CallOK(c)'
  <2>1. policy'[Proc[c]] = IF Proc[c] = p THEN new ELSE policy[Proc[c]]
    BY <1>1, NowTyped DEF IInv, TypeOK
  <2>2. CASE Proc[c] # p
    BY <1>2, <1>4, <2>1, <2>2 DEF IInv, CallOK, Now
  <2>3. CASE Proc[c] = p
    <3>1. NeverRestored' /\ pc[c] # "idle" => new # seen[c]
      BY <1>4, <2>3 DEF Recorded, Calls, At
    <3>2. NeverRestored' /\ pc[c] # "idle" /\ key[c] # None => new # key[c].policy
      BY <1>4, <2>3 DEF Recorded, Calls, At
    <3>3. Undisturbed' => pc[c] \notin {"recall", "memory", "file"}
      BY <1>4, <2>3 DEF Calls, At
    <3>4. pc[c] \in Keyed => key[c] # None
      BY NoneIsNothing DEF IInv, CallOK
    <3>5. QED
      BY <1>2, <1>4, <2>1, <2>3, <3>1, <3>2, <3>3, <3>4 DEF IInv, CallOK, Now, Keyed, Emitted
  <2>4. QED
    BY <2>2, <2>3
<1>7. QED
  BY <1>3, <1>5, <1>6 DEF IInv

LEMMA DamageIInv ==
  ASSUME IInv, NEW k \in Keys, Damage(k)
  PROVE  IInv'
<1> USE DEF process, locals, history
<1>1. UNCHANGED <<process, pc, locals, history, undercut>> /\ noise' \in 0 .. MaxNoise
  BY NoiseTyped DEF Damage
<1>2. ASSUME NEW c \in Callers PROVE CallOK(c)'
  BY <1>1 DEF IInv, CallOK, Now
<1>3. TypeOK' /\ SharedOK'
  <2>1. CASE (\E t \in Texts \cup {None} : src' = [src EXCEPT ![k] = t]) /\ UNCHANGED <<rec, stash, outer>>
    BY <1>1, <2>1 DEF IInv, TypeOK, SharedOK
  <2>2. CASE /\ \E r \in {rec[j] : j \in Keys} \cup {None} : rec' = [rec EXCEPT ![k] = r]
             /\ UNCHANGED <<src, stash, outer>>
    <3>1. PICK r \in {rec[j] : j \in Keys} \cup {None} : rec' = [rec EXCEPT ![k] = r]
      BY <2>2
    <3>2. \A j \in Keys : rec[j] \in Records \cup {None} /\ (NeverRestored => Genuine(rec[j]))
      BY DEF IInv, TypeOK, SharedOK
    <3>3. r \in Records \cup {None} /\ (NeverRestored => Genuine(r))
      BY <3>2 DEF Genuine
    <3>4. QED
      BY <1>1, <2>2, <3>1, <3>2, <3>3 DEF IInv, TypeOK, SharedOK
  <2>3. CASE /\ \E r \in {stash[j] : j \in Keys} \cup {None} : stash' = [stash EXCEPT ![k] = r]
             /\ UNCHANGED <<src, rec, outer>>
    <3>1. PICK r \in {stash[j] : j \in Keys} \cup {None} : stash' = [stash EXCEPT ![k] = r]
      BY <2>3
    <3>2. \A j \in Keys : stash[j] \in Records \cup {None} /\ (NeverRestored => Genuine(stash[j]))
      BY DEF IInv, TypeOK, SharedOK
    <3>3. r \in Records \cup {None} /\ (NeverRestored => Genuine(r))
      BY <3>2 DEF Genuine
    <3>4. QED
      BY <1>1, <2>3, <3>1, <3>2, <3>3 DEF IInv, TypeOK, SharedOK
  <2>4. CASE outer' = [outer EXCEPT ![k] = None] /\ UNCHANGED <<src, rec, stash>>
    BY <1>1, <2>4 DEF IInv, TypeOK, SharedOK
  <2>5. QED
    BY <2>1, <2>2, <2>3, <2>4 DEF Damage
<1>4. QED
  BY <1>1, <1>2, <1>3 DEF IInv, LaunchesOwnCode

LEMMA RestartIInv ==
  ASSUME IInv, NEW p \in Procs, Restart(p)
  PROVE  IInv'
<1> USE DEF Restart, disk
<1>1. TypeOK'
  <2>1. /\ policy' \in [Procs -> Policies]
        /\ mem' \in [Procs -> [Keys -> Records \cup {None}]]
        /\ resident' \in [Procs -> [Sources -> Handles \cup {None}]]
        /\ guard' \in [Procs -> [Sources -> Policies \cup {None}]]
    BY DEF IInv, TypeOK
  <2>2. /\ pc' \in [Callers -> Steps]
        /\ source' \in [Callers -> Sources \cup {None}]
        /\ warm' \in [Callers -> BOOLEAN]
        /\ orphan' \in [Callers -> BOOLEAN]
        /\ outerKey' \in [Callers -> Keys \cup {None}]
        /\ seen' \in [Callers -> Policies \cup {None}]
        /\ key' \in [Callers -> Keys \cup {None}]
    BY DEF IInv, TypeOK, Steps
  <2>3. /\ text' \in [Callers -> Texts \cup {None}]
        /\ record' \in [Callers -> Records \cup {None}]
        /\ handle' \in [Callers -> Handles \cup {None}]
        /\ outcome' \in [Callers -> Outcomes \cup {None}]
        /\ ran' \in [Callers -> [code : Texts, source : Sources, policy : Policies] \cup {None}]
    BY DEF IInv, TypeOK
  <2>4. UNCHANGED <<disk, undercut>> /\ noise' \in 0 .. MaxNoise
    BY NoiseTyped
  <2> HIDE DEF Restart
  <2>5. QED
    BY <2>1, <2>2, <2>3, <2>4 DEF IInv, TypeOK
<1>2. SharedOK'
  <2>1. UNCHANGED disk /\ undercut' = undercut
    OBVIOUS
  <2>2. \A q \in Procs, k \in Keys : mem'[q][k] \in {mem[q][k], None}
    BY DEF IInv, TypeOK
  <2>3. \A q \in Procs, s \in Sources : resident'[q][s] \in {resident[q][s], None}
    BY DEF IInv, TypeOK
  <2> HIDE DEF Restart
  <2>4. QED
    BY <2>1, <2>2, <2>3 DEF IInv, SharedOK, Genuine
<1>3. ASSUME NEW c \in Callers PROVE CallOK(c)'
  <2>1. CASE Proc[c] = p
    BY <2>1 DEF CallOK, Keyed, Emitted
  <2>2. CASE Proc[c] # p
    BY <2>2, NowTyped DEF IInv, TypeOK, CallOK, Now
  <2>3. QED
    BY <2>1, <2>2
<1>4. LaunchesOwnCode'
  BY DEF IInv, LaunchesOwnCode
<1>5. QED
  BY <1>1, <1>2, <1>3, <1>4 DEF IInv

LEMMA NextIInv == IInv /\ [Next]_vars => IInv'
<1> SUFFICES ASSUME IInv, [Next]_vars PROVE IInv'
  OBVIOUS
<1>1. CASE UNCHANGED vars
  BY <1>1 DEF vars, disk, process, locals, history, env, IInv, TypeOK, SharedOK, CallOK, Now,
              LaunchesOwnCode
<1>2. CASE \E c \in Callers : Step(c) \/ \E s \in Sources, w \in BOOLEAN : Start(c, s, w)
  BY <1>2, StepIInv, StartIInv
<1>3. CASE Environment
  BY <1>3, ChangePolicyIInv, RestartIInv, DamageIInv DEF Environment
<1>4. QED
  BY <1>1, <1>2, <1>3 DEF Next

\* The invariant holds in every reachable state.
THEOREM IInvHolds == Spec => []IInv
  BY InitIInv, NextIInv, PTL DEF Spec

\* Type correctness.
THEOREM TypeCorrect == Spec => []TypeOK
<1>1. IInv => TypeOK
  BY DEF IInv
<1>2. QED
  BY <1>1, IInvHolds, PTL

\* Source records, stash files and stash memory certify what codegen emits under
\* the policy they name, whatever happens between the steps that wrote them, as long
\* as no policy recorded by a compile under way has come back.
THEOREM RecordsCertifyEmission == Spec => []CertifiesEmission
<1>1. IInv => CertifiesEmission
  BY DEF IInv, TypeOK, SharedOK, CertifiesEmission, Honest, Genuine, Keys
<1>2. QED
  BY <1>1, IInvHolds, PTL

\* No launch runs code of another function or of another policy, through the MSL
\* or through the binary, as long as moreover policy has not changed between the
\* stamp a launcher validated and the MSL it found.
THEOREM LaunchesRunOwnCode == Spec => []LaunchesOwnCode
<1>1. IInv => LaunchesOwnCode
  BY DEF IInv
<1>2. QED
  BY <1>1, IInvHolds, PTL

--------------------------------------------------------------------------------
\* As long as policy changes between calls only.

\* From the lookup that found nothing to the insertion.
Working == Keyed \cup {"outer", "stages", "key", "insert"}

\* Products of the persistent cache bear the policy of their place, and a
\* function with a hook has resident kernels of the hook's stamp only.
SteadyTables ==
  /\ \A k \in Keys : outer[k] # None => outer[k].stamp = k.policy
  /\ \A p \in Procs, s \in Sources :
       guard[p][s] # None /\ resident[p][s] # None => resident[p][s].stamp = guard[p][s]

\* What a call has recorded is in force.  It may hold a stale kernel only where no
\* hook is installed, and then that kernel's policy is the resident one's too.
SteadyCall(c) ==
  LET hook == guard[Proc[c]][source[c]]
      kernel == resident[Proc[c]][source[c]] IN
  /\ pc[c] = "compare" => seen[c] = Now(c) /\ hook # None
  /\ pc[c] \notin {"idle", "hook", "compare"} => hook \in {None, Now(c)}
  /\ pc[c] \in Keyed \cup {"stages", "key"} => outerKey[c].policy = Now(c)
  /\ pc[c] \in Keyed \cup {"key"} => seen[c] = Now(c)
  /\ pc[c] \in {"insert", "recall", "memory", "file"} => handle[c].stamp = Now(c)
  /\ pc[c] \in Working => (kernel # None => kernel.stamp = Now(c))
  /\ pc[c] \in {"construct", "recall", "memory", "file", "call"} /\ handle[c].stamp = Now(c) =>
       (kernel # None => kernel.stamp = Now(c))
  /\ pc[c] \in {"construct", "call"} /\ handle[c].stamp # Now(c) =>
       hook = None /\ kernel # None /\ kernel.stamp # Now(c)

Steady == undercut = {} => SteadyTables /\ \A c \in Callers : SteadyCall(c)

\* The tables that Steady is about and the policy stay as they are.
Still == UNCHANGED <<outer, policy, resident, guard, undercut>>

LEMMA SteadyLocal ==
  ASSUME Steady, NEW c \in Callers, Others(c), Still, undercut = {} => SteadyCall(c)'
  PROVE  Steady'
<1> SUFFICES ASSUME undercut = {} PROVE SteadyTables' /\ \A d \in Callers : SteadyCall(d)'
  BY DEF Steady, Still
<1>1. SteadyTables'
  BY DEF Steady, SteadyTables, Still
<1>2. ASSUME NEW d \in Callers \ {c} PROVE SteadyCall(d)'
  BY DEF Steady, SteadyCall, Still, Others, Now
<1>3. QED
  BY <1>1, <1>2

\* A step from stage to stage leaves what is recorded alone.
LEMMA StageSteady ==
  ASSUME Steady, NEW c \in Callers, Others(c), Still, pc[c] \in Keyed, pc'[c] \in Keyed,
         UNCHANGED <<source, outerKey, seen>>
  PROVE  Steady'
<1>1. undercut = {} => SteadyCall(c)'
  BY DEF Steady, SteadyCall, Still, Now, Keyed, Working
<1>2. QED
  BY <1>1, SteadyLocal

LEMMA StopSteady ==
  ASSUME IInv, Steady, NEW c \in Callers, NEW o \in Outcomes, Stop(c, o)
  PROVE  Steady'
<1>1. Others(c) /\ Still /\ pc'[c] = "idle"
  BY DEF Stop, Finish, Drop, Goto, disk, process, env, IInv, TypeOK, Others, Still
<1>2. SteadyCall(c)'
  BY <1>1 DEF SteadyCall, Keyed, Working
<1>3. QED
  BY <1>1, <1>2, SteadyLocal

LEMMA StartSteady ==
  ASSUME IInv, Steady, NEW c \in Callers, NEW s \in Sources, NEW w \in BOOLEAN, Start(c, s, w)
  PROVE  Steady'
<1> USE DEF Start, disk, process, locals, history, env, Goto, At
<1>1. Others(c) /\ Still
  BY DEF IInv, TypeOK, Others, Still
<1>2. undercut = {} => SteadyCall(c)'
  BY DEF IInv, TypeOK, Steady, SteadyTables, SteadyCall, Now, Keyed, Working
<1>3. QED
  BY <1>1, <1>2, SteadyLocal

LEMMA HookSteady ==
  ASSUME IInv, Steady, NEW c \in Callers, Hook(c)
  PROVE  Steady'
<1> USE DEF Hook, disk, process, locals, history, env, Goto, At
<1>1. Others(c) /\ Still
  BY DEF IInv, TypeOK, Others, Still
<1>2. undercut = {} => SteadyCall(c)'
  BY NoneAssumption, NowTyped DEF IInv, TypeOK, Steady, SteadyTables, SteadyCall, Now, Keyed, Working, CallOK
<1>3. QED
  BY <1>1, <1>2, SteadyLocal

LEMMA CompareSteady ==
  ASSUME IInv, Steady, NEW c \in Callers, Compare(c)
  PROVE  Steady'
<1> SUFFICES ASSUME undercut = {} PROVE SteadyTables' /\ \A d \in Callers : SteadyCall(d)'
  BY DEF Compare, Steady, env
<1> DEFINE p == Proc[c]
           s == source[c]
<1>1. /\ p \in Procs /\ s \in Sources /\ seen[c] \in Policies /\ Now(c) = seen[c]
      /\ guard[p][s] # None /\ pc[c] = "compare" /\ pc' = [pc EXCEPT ![c] = "lookup"]
      /\ UNCHANGED <<outer, policy, source, outerKey, key, text, record, handle, undercut>>
      /\ seen' = [seen EXCEPT ![c] = None]
  BY NowTyped DEF Compare, At, Goto, disk, env, IInv, CallOK, Steady, SteadyCall
<1>2. Others(c)
  BY <1>1 DEF IInv, TypeOK, Others
<1>3. CASE guard[p][s] = seen[c]
  <2>1. UNCHANGED <<resident, guard>>
    BY <1>3 DEF Compare
  <2>2. SteadyTables'
    BY <1>1, <2>1 DEF Steady, SteadyTables
  <2>3. SteadyCall(c)'
    BY <1>1, <1>3, <2>1 DEF IInv, TypeOK, SteadyCall, Now, Keyed, Working
  <2>4. ASSUME NEW d \in Callers \ {c} PROVE SteadyCall(d)'
    BY <1>1, <1>2, <2>1 DEF Steady, SteadyCall, Others, Now
  <2>5. QED
    BY <2>2, <2>3, <2>4
<1>4. CASE guard[p][s] # seen[c]
  <2>1. /\ resident' = [resident EXCEPT ![p][s] = None]
        /\ guard' = [guard EXCEPT ![p][s] = seen[c]]
    BY <1>4 DEF Compare
  <2>2. \A q \in Procs, f \in Sources :
          /\ resident'[q][f] = IF q = p /\ f = s THEN None ELSE resident[q][f]
          /\ guard'[q][f] = IF q = p /\ f = s THEN seen[c] ELSE guard[q][f]
    BY <1>1, <2>1 DEF IInv, TypeOK
  <2>3. SteadyTables'
    BY <1>1, <2>2 DEF Steady, SteadyTables
  <2>4. SteadyCall(c)'
    BY <1>1, <2>2 DEF IInv, TypeOK, SteadyCall, Now, Keyed, Working
  <2>5. ASSUME NEW d \in Callers \ {c} PROVE SteadyCall(d)'
    <3>1. Proc[d] \in Procs /\ (pc[d] # "idle" => source[d] \in Sources) /\ SteadyCall(d)
      BY NowTyped DEF IInv, CallOK, Steady
    <3>2. CASE Proc[d] = p /\ source[d] = s
      BY <1>1, <1>2, <2>2, <3>1, <3>2, NoneAssumption DEF SteadyCall, Others, Now, Working, Keyed
    <3>3. CASE ~(Proc[d] = p /\ source[d] = s)
      BY <1>1, <1>2, <2>2, <3>1, <3>3 DEF SteadyCall, Others, Now, Working, Keyed
    <3>4. QED
      BY <3>2, <3>3
  <2>6. QED
    BY <2>3, <2>4, <2>5
<1>5. QED
  BY <1>3, <1>4

LEMMA LookupSteady ==
  ASSUME IInv, Steady, NEW c \in Callers, Lookup(c)
  PROVE  Steady'
<1> USE DEF disk, process, history, env, Goto, At
<1> DEFINE h == resident[Proc[c]][source[c]]
<1>1. CASE Stop(c, "warmed")
  BY <1>1, StopSteady DEF Outcomes
<1>2. CASE ~Stop(c, "warmed")
  <2>1. /\ Others(c) /\ Still /\ pc[c] = "lookup" /\ handle'[c] = h /\ UNCHANGED source
        /\ pc'[c] = IF h = None THEN "outer" ELSE IF h.ready THEN "call" ELSE "construct"
    BY <1>2 DEF Lookup, IInv, TypeOK, Others, Still
  <2>2. Proc[c] \in Procs /\ source[c] \in Sources
    BY <2>1, NowTyped DEF IInv, CallOK
  <2>3. undercut = {} => SteadyCall(c)'
    BY <2>1, <2>2 DEF Steady, SteadyTables, SteadyCall, Still, Now, Keyed, Working
  <2>4. QED
    BY <2>1, <2>3, SteadyLocal
<1>3. QED
  BY <1>1, <1>2

LEMMA OuterSteady ==
  ASSUME IInv, Steady, NEW c \in Callers, Outer(c)
  PROVE  Steady'
<1> USE DEF disk, process, history, env, Goto, At
<1> DEFINE k == [source |-> source[c], policy |-> Now(c)]
<1>1. /\ Others(c) /\ Still /\ pc[c] = "outer" /\ UNCHANGED source
      /\ outerKey'[c] = k /\ handle'[c] = outer[k]
      /\ pc'[c] = IF outer[k] = None THEN "stages" ELSE "insert"
  BY DEF Outer, IInv, TypeOK, Others, Still
<1>2. k \in Keys /\ k.policy = Now(c)
  BY <1>1, NowTyped DEF IInv, CallOK, Keys
<1>3. undercut = {} => SteadyCall(c)'
  BY <1>1, <1>2 DEF Steady, SteadyTables, SteadyCall, Still, Now, Keyed, Working
<1>4. QED
  BY <1>1, <1>3, SteadyLocal

LEMMA StagesSteady ==
  ASSUME IInv, Steady, NEW c \in Callers, Stages(c)
  PROVE  Steady'
<1> USE DEF Stages, disk, process, locals, history, env, Goto, At
<1>1. Others(c) /\ Still
  BY DEF IInv, TypeOK, Others, Still
<1>2. undercut = {} => SteadyCall(c)'
  BY DEF IInv, TypeOK, Steady, SteadyTables, SteadyCall, Now, Keyed, Working
<1>3. QED
  BY <1>1, <1>2, SteadyLocal

LEMMA KeySteady ==
  ASSUME IInv, Steady, NEW c \in Callers, Key(c)
  PROVE  Steady'
<1> USE DEF Key, disk, process, locals, history, env, Goto, At
<1>1. Others(c) /\ Still
  BY DEF IInv, TypeOK, Others, Still
<1>2. undercut = {} => SteadyCall(c)'
  BY DEF IInv, TypeOK, Steady, SteadyTables, SteadyCall, Now, Keyed, Working
<1>3. QED
  BY <1>1, <1>2, SteadyLocal

LEMMA ReadSourceSteady ==
  ASSUME IInv, Steady, NEW c \in Callers, ReadSource(c)
  PROVE  Steady'
<1>1. Others(c) /\ Still /\ pc[c] \in Keyed /\ pc'[c] \in Keyed /\ UNCHANGED <<source, outerKey, seen>>
  BY DEF ReadSource, disk, process, locals, history, env, Goto, At, IInv, TypeOK, Others, Still, Keyed
<1>2. QED
  BY <1>1, StageSteady

LEMMA ReadRecordSteady ==
  ASSUME IInv, Steady, NEW c \in Callers, ReadRecord(c)
  PROVE  Steady'
<1>1. Others(c) /\ Still /\ pc[c] \in Keyed /\ pc'[c] \in Keyed /\ UNCHANGED <<source, outerKey, seen>>
  BY DEF ReadRecord, disk, process, locals, history, env, Goto, At, IInv, TypeOK, Others, Still, Keyed
<1>2. QED
  BY <1>1, StageSteady

LEMMA EmitSteady ==
  ASSUME IInv, Steady, NEW c \in Callers, Emit(c)
  PROVE  Steady'
<1> USE DEF disk, process, locals, history, env, Goto, At
<1>1. CASE Stop(c, "raised")
  BY <1>1, StopSteady DEF Outcomes
<1>2. CASE ~Stop(c, "raised")
  <2>1. Others(c) /\ Still /\ pc[c] \in Keyed /\ pc'[c] \in Keyed /\ UNCHANGED <<source, outerKey, seen>>
    BY <1>2 DEF Emit, IInv, TypeOK, Others, Still, Keyed
  <2>2. QED
    BY <2>1, StageSteady
<1>3. QED
  BY <1>1, <1>2

LEMMA MakeRecordSteady ==
  ASSUME IInv, Steady, NEW c \in Callers, MakeRecord(c)
  PROVE  Steady'
<1>1. Others(c) /\ Still /\ pc[c] \in Keyed /\ pc'[c] \in Keyed /\ UNCHANGED <<source, outerKey, seen>>
  BY DEF MakeRecord, disk, process, locals, history, env, Goto, At, IInv, TypeOK, Others, Still, Keyed
<1>2. QED
  BY <1>1, StageSteady

LEMMA PutSourceSteady ==
  ASSUME IInv, Steady, NEW c \in Callers, PutSource(c)
  PROVE  Steady'
<1>1. Others(c) /\ Still /\ pc[c] \in Keyed /\ pc'[c] \in Keyed /\ UNCHANGED <<source, outerKey, seen>>
  BY DEF PutSource, disk, process, locals, history, env, Goto, At, IInv, TypeOK, Others, Still, Keyed
<1>2. QED
  BY <1>1, StageSteady

LEMMA PutRecordSteady ==
  ASSUME IInv, Steady, NEW c \in Callers, PutRecord(c)
  PROVE  Steady'
<1>1. Others(c) /\ Still /\ pc[c] \in Keyed /\ pc'[c] \in Keyed /\ UNCHANGED <<source, outerKey, seen>>
  BY DEF PutRecord, disk, process, locals, history, env, Goto, At, IInv, TypeOK, Others, Still, Keyed
<1>2. QED
  BY <1>1, StageSteady

LEMMA StashSteady ==
  ASSUME IInv, Steady, NEW c \in Callers, Stash(c)
  PROVE  Steady'
<1>1. Others(c) /\ Still /\ pc[c] \in Keyed /\ pc'[c] \in Keyed /\ UNCHANGED <<source, outerKey, seen>>
  BY DEF Stash, disk, process, locals, history, env, Goto, At, IInv, TypeOK, Others, Still, Keyed
<1>2. QED
  BY <1>1, StageSteady

LEMMA CheckSteady ==
  ASSUME IInv, Steady, NEW c \in Callers, Check(c)
  PROVE  Steady'
<1> USE DEF disk, process, locals, history, env, Goto, At
<1>1. CASE Stop(c, "raised")
  BY <1>1, StopSteady DEF Outcomes
<1>2. CASE ~Stop(c, "raised")
  <2>1. Others(c) /\ Still /\ pc[c] \in Keyed /\ pc'[c] \in Keyed /\ UNCHANGED <<source, outerKey, seen>>
    BY <1>2 DEF Check, IInv, TypeOK, Others, Still, Keyed
  <2>2. QED
    BY <2>1, StageSteady
<1>3. QED
  BY <1>1, <1>2

LEMMA BuildSteady ==
  ASSUME IInv, Steady, NEW c \in Callers, Build(c)
  PROVE  Steady'
<1> USE DEF disk, process, locals, history, env, Goto, At
<1>1. CASE Stop(c, "raised")
  BY <1>1, StopSteady DEF Outcomes
<1>2. CASE ~Stop(c, "raised")
  <2>1. Others(c) /\ Still /\ pc[c] \in Keyed /\ pc'[c] \in Keyed /\ UNCHANGED <<source, outerKey, seen>>
    BY <1>2 DEF Build, IInv, TypeOK, Others, Still, Keyed
  <2>2. QED
    BY <2>1, StageSteady
<1>3. QED
  BY <1>1, <1>2

LEMMA SealSteady ==
  ASSUME IInv, Steady, NEW c \in Callers, Seal(c)
  PROVE  Steady'
<1> USE DEF disk, process, history, env, Goto, At
<1> DEFINE h == [bin |-> text[c], stamp |-> seen[c], hash |-> key[c], msl |-> None, ready |-> FALSE]
<1>1. CASE Now(c) # seen[c]
  BY <1>1, StopSteady DEF Seal, Outcomes
<1>2. CASE Now(c) = seen[c]
  <2>1. /\ pc[c] = "seal" /\ pc' = [pc EXCEPT ![c] = "insert"]
        /\ handle' = [handle EXCEPT ![c] = h]
        /\ outer' = [outer EXCEPT ![outerKey[c]] = h]
        /\ UNCHANGED <<policy, resident, guard, undercut, source, outerKey, seen, key, text, record>>
    BY <1>2 DEF Seal
  <2>2. h.stamp = seen[c]
    OBVIOUS
  <2> HIDE DEF h
  <2> SUFFICES ASSUME undercut = {} PROVE SteadyTables' /\ \A d \in Callers : SteadyCall(d)'
    BY <2>1 DEF Steady
  <2>3. outerKey[c].policy = Now(c)
    BY <2>1 DEF Steady, SteadyCall, Keyed
  <2>4. SteadyTables'
    BY <1>2, <2>1, <2>2, <2>3 DEF IInv, TypeOK, Steady, SteadyTables
  <2>5. SteadyCall(c)'
    BY <1>2, <2>1, <2>2 DEF IInv, TypeOK, Steady, SteadyCall, Now, Keyed, Working
  <2>6. ASSUME NEW d \in Callers \ {c} PROVE SteadyCall(d)'
    BY <2>1 DEF IInv, TypeOK, Steady, SteadyCall, Now
  <2>7. QED
    BY <2>4, <2>5, <2>6
<1>3. QED
  BY <1>1, <1>2

\* A kernel of the policy in force becomes resident where no other policy's is.
LEMMA ReplacedSteady ==
  ASSUME IInv, Steady, undercut = {}, NEW c \in Callers,
         pc[c] \in {"insert", "construct", "memory", "file"},
         NEW h, h.stamp = Now(c), handle[c].stamp = Now(c),
         Others(c), UNCHANGED <<outer, policy>>,
         \/ pc'[c] = "idle"
         \/ /\ pc'[c] \in {"construct", "recall", "call"} /\ source'[c] = source[c]
            /\ handle'[c].stamp = Now(c),
         guard' = guard \/ guard' = [guard EXCEPT ![Proc[c]][source[c]] = Now(c)],
         resident' = resident \/ resident' = [resident EXCEPT ![Proc[c]][source[c]] = h]
  PROVE  SteadyTables' /\ \A d \in Callers : SteadyCall(d)'
<1> DEFINE p == Proc[c]
           s == source[c]
<1>1. p \in Procs /\ s \in Sources
  BY NowTyped DEF IInv, CallOK
<1>2. \A q \in Procs, f \in Sources :
        /\ \/ resident'[q][f] = resident[q][f]
           \/ q = p /\ f = s /\ resident'[q][f] = h
        /\ \/ guard'[q][f] = guard[q][f]
           \/ q = p /\ f = s /\ guard'[q][f] = Now(c)
  <2>1. resident \in [Procs -> [Sources -> Handles \cup {None}]]
    BY DEF IInv, TypeOK
  <2>2. guard \in [Procs -> [Sources -> Policies \cup {None}]]
    BY DEF IInv, TypeOK
  <2>3. ASSUME NEW q \in Procs, NEW f \in Sources
        PROVE  \/ resident'[q][f] = resident[q][f]
               \/ q = p /\ f = s /\ resident'[q][f] = h
    BY <1>1, <2>1, <2>3
  <2>4. ASSUME NEW q \in Procs, NEW f \in Sources
        PROVE  \/ guard'[q][f] = guard[q][f]
               \/ q = p /\ f = s /\ guard'[q][f] = Now(c)
    BY <1>1, <2>2, <2>4
  <2>5. QED
    BY <2>3, <2>4
<1>3. /\ guard[p][s] \in {None, Now(c)}
      /\ resident[p][s] # None => resident[p][s].stamp = Now(c)
  BY DEF Steady, SteadyCall, Working
<1>4. /\ guard'[p][s] \in {None, Now(c)}
      /\ resident'[p][s] # None => resident'[p][s].stamp = Now(c)
  BY <1>1, <1>2, <1>3
<1>5. SteadyTables'
  <2>1. ASSUME NEW q \in Procs, NEW f \in Sources
        PROVE  guard'[q][f] # None /\ resident'[q][f] # None => resident'[q][f].stamp = guard'[q][f]
    BY <1>2, <1>4 DEF Steady, SteadyTables
  <2>2. QED
    BY <2>1 DEF Steady, SteadyTables
<1>6. SteadyCall(c)'
  BY <1>4 DEF SteadyCall, Now, Keyed, Working
<1>7. ASSUME NEW d \in Callers \ {c} PROVE SteadyCall(d)'
  <2>1. Proc[d] \in Procs /\ (pc[d] # "idle" => source[d] \in Sources) /\ SteadyCall(d)
    BY NowTyped DEF IInv, CallOK, Steady
  <2>2. CASE pc[d] = "idle"
    BY <2>2 DEF SteadyCall, Others, Keyed, Working
  <2>3. CASE pc[d] # "idle" /\ Proc[d] = p /\ source[d] = s
    <3>1. guard'[p][s] # None \/ guard[p][s] = None
      BY <1>1, <1>2, NowTyped, NoneAssumption
    <3>2. Now(d) = Now(c) /\ Now(d)' = Now(d)
      BY <2>3 DEF Now
    <3>3. QED
      BY <1>3, <1>4, <2>1, <2>3, <3>1, <3>2 DEF SteadyCall, Others
  <2>4. CASE pc[d] # "idle" /\ ~(Proc[d] = p /\ source[d] = s)
    BY <1>2, <2>1, <2>4 DEF SteadyCall, Others, Now
  <2>5. QED
    BY <2>2, <2>3, <2>4
<1>8. QED
  BY <1>5, <1>6, <1>7

LEMMA InsertSteady ==
  ASSUME IInv, Steady, NEW c \in Callers, Insert(c)
  PROVE  Steady'
<1> SUFFICES ASSUME undercut = {} PROVE SteadyTables' /\ \A d \in Callers : SteadyCall(d)'
  BY DEF Insert, Steady, env
<1>1. Others(c) /\ (pc'[c] = "idle" \/ (pc'[c] = "construct" /\ UNCHANGED <<source, handle>>))
  BY DEF Insert, Finish, Drop, Goto, locals, history, env, IInv, TypeOK, Others
<1>2. /\ pc[c] = "insert" /\ UNCHANGED <<outer, policy, guard>>
      /\ resident' = resident \/ resident' = [resident EXCEPT ![Proc[c]][source[c]] = handle[c]]
  BY DEF Insert, At, disk
<1>3. handle[c].stamp = Now(c)
  BY <1>2 DEF Steady, SteadyCall
<1>4. QED
  BY <1>1, <1>2, <1>3, ReplacedSteady

LEMMA ConstructSteady ==
  ASSUME IInv, Steady, NEW c \in Callers, Construct(c)
  PROVE  Steady'
<1> USE DEF disk, history, env, Goto, At
<1> DEFINE h == handle[c]
<1>1. CASE Now(c) # h.stamp
  BY <1>1, StopSteady DEF Construct, Outcomes
<1>2. CASE Now(c) = h.stamp
  <2>1. /\ pc[c] = "construct" /\ pc' = [pc EXCEPT ![c] = "recall"]
        /\ guard' = guard \/ guard' = [guard EXCEPT ![Proc[c]][source[c]] = Now(c)]
        /\ resident' = resident
        /\ UNCHANGED <<outer, policy, source, outerKey, seen, key, text, record, handle, undercut>>
    BY <1>2 DEF Construct, locals
  <2>2. Others(c) /\ handle'[c] = h /\ pc'[c] = "recall" /\ source'[c] = source[c]
    BY <2>1 DEF IInv, TypeOK, Others
  <2>3. undercut = {} => SteadyTables' /\ \A d \in Callers : SteadyCall(d)'
    BY <1>2, <2>1, <2>2, ReplacedSteady
  <2>4. QED
    BY <2>1, <2>3 DEF Steady
<1>3. QED
  BY <1>1, <1>2

LEMMA RecallSteady ==
  ASSUME IInv, Steady, NEW c \in Callers, Recall(c)
  PROVE  Steady'
<1> USE DEF disk, process, history, env, Goto, At
<1>1. /\ pc[c] = "recall" /\ pc' = [pc EXCEPT ![c] = pc'[c]] /\ pc'[c] \in {"memory", "file"}
      /\ record' = [record EXCEPT ![c] = record'[c]]
      /\ UNCHANGED <<outer, policy, resident, guard, source, outerKey, seen, key, text, handle, undercut>>
  BY DEF Recall, IInv, TypeOK
<1>2. Others(c) /\ Still
  BY <1>1 DEF IInv, TypeOK, Others, Still
<1>3. undercut = {} => SteadyCall(c)'
  BY <1>1 DEF IInv, TypeOK, Steady, SteadyCall, Now, Keyed, Working
<1>4. QED
  BY <1>2, <1>3, SteadyLocal

LEMMA ResolvedSteady ==
  ASSUME IInv, Steady, NEW c \in Callers, pc[c] \in {"memory", "file"}, NEW t, Resolved(c, t)
  PROVE  Steady'
<1> USE DEF disk, history, env, Goto, At
<1> DEFINE new == [handle[c] EXCEPT !.msl = t, !.ready = TRUE]
<1>1. /\ pc' = [pc EXCEPT ![c] = "call"]
      /\ handle' = [handle EXCEPT ![c] = new]
      /\ resident' = resident \/ resident' = [resident EXCEPT ![Proc[c]][source[c]] = new]
      /\ record' = [record EXCEPT ![c] = None]
      /\ UNCHANGED <<outer, policy, guard, source, outerKey, seen, key, text, undercut>>
  BY DEF Resolved
<1>2. new.stamp = handle[c].stamp
  BY DEF IInv, CallOK, Handles
<1> HIDE DEF new
<1>3. Others(c) /\ handle'[c] = new /\ pc'[c] = "call" /\ source'[c] = source[c]
  BY <1>1 DEF IInv, TypeOK, Others
<1>4. undercut = {} => SteadyTables' /\ \A d \in Callers : SteadyCall(d)'
  <2> SUFFICES ASSUME undercut = {} PROVE SteadyTables' /\ \A d \in Callers : SteadyCall(d)'
    OBVIOUS
  <2>1. handle[c].stamp = Now(c)
    BY DEF Steady, SteadyCall
  <2>2. QED
    BY <1>1, <1>2, <1>3, <2>1, ReplacedSteady
<1>5. QED
  BY <1>1, <1>4 DEF Steady

LEMMA FromMemorySteady ==
  ASSUME IInv, Steady, NEW c \in Callers, FromMemory(c)
  PROVE  Steady'
<1> USE DEF disk, history, env, Goto, At
<1>1. pc[c] = "memory"
  BY DEF FromMemory
<1>2. CASE \E t : Resolved(c, t)
  BY <1>1, <1>2, ResolvedSteady
<1>3. CASE ~\E t : Resolved(c, t)
  <2>1. /\ pc' = [pc EXCEPT ![c] = "file"]
        /\ record' = [record EXCEPT ![c] = stash[handle[c].hash]]
        /\ UNCHANGED <<outer, policy, resident, guard, source, outerKey, seen, key, text, handle, undercut>>
    BY <1>3 DEF FromMemory
  <2>2. Others(c) /\ Still
    BY <2>1 DEF IInv, TypeOK, Others, Still
  <2>3. undercut = {} => SteadyCall(c)'
    BY <1>1, <2>1 DEF IInv, TypeOK, Steady, SteadyCall, Now, Keyed, Working
  <2>4. QED
    BY <2>2, <2>3, SteadyLocal
<1>4. QED
  BY <1>2, <1>3

LEMMA FromFileSteady ==
  ASSUME IInv, Steady, NEW c \in Callers, FromFile(c)
  PROVE  Steady'
  BY ResolvedSteady DEF FromFile, At

LEMMA CallSteady ==
  ASSUME IInv, Steady, NEW c \in Callers, Call(c)
  PROVE  Steady'
<1>1. Others(c) /\ Still /\ pc'[c] = "idle"
  BY DEF Call, Stop, Finish, Drop, Goto, disk, process, env, IInv, TypeOK, Others, Still
<1>2. SteadyCall(c)'
  BY <1>1 DEF SteadyCall, Keyed, Working
<1>3. QED
  BY <1>1, <1>2, SteadyLocal

\* A policy that changes under no call changes under no kernel that a call holds.
LEMMA ChangePolicySteady ==
  ASSUME IInv, Steady, NEW p \in Procs, ChangePolicy(p)
  PROVE  Steady'
<1> SUFFICES ASSUME undercut' = {} PROVE SteadyTables' /\ \A d \in Callers : SteadyCall(d)'
  BY DEF Steady
<1> USE DEF disk, locals
<1>1. Calls(p) = {} /\ undercut = {}
  <2>1. PICK new : undercut' = undercut \cup Undercuts(p, new)
    BY DEF ChangePolicy
  <2>2. Calls(p) # {} => "changed" \in Undercuts(p, new)
    BY DEF Undercuts, Kinds
  <2>3. QED
    BY <2>1, <2>2
<1>2. SteadyTables'
  BY <1>1 DEF ChangePolicy, Steady, SteadyTables
<1>3. ASSUME NEW d \in Callers PROVE SteadyCall(d)'
  <2>1. CASE Proc[d] = p
    <3>1. pc'[d] = "idle"
      BY <1>1, <2>1 DEF ChangePolicy, Calls, At
    <3>2. QED
      BY <3>1 DEF SteadyCall, Keyed, Working
  <2>2. CASE Proc[d] # p
    <3>1. Now(d)' = Now(d)
      BY <2>2, NowTyped DEF ChangePolicy, Now, IInv, TypeOK
    <3>2. QED
      BY <1>1, <3>1 DEF ChangePolicy, Steady, SteadyCall
  <2>3. QED
    BY <2>1, <2>2
<1>4. QED
  BY <1>2, <1>3

LEMMA DamageSteady ==
  ASSUME IInv, Steady, NEW k \in Keys, Damage(k)
  PROVE  Steady'
<1>1. /\ UNCHANGED <<policy, resident, guard, pc, source, outerKey, seen, handle, undercut>>
      /\ outer' = outer \/ outer' = [outer EXCEPT ![k] = None]
  BY DEF Damage, process, locals
<1>2. \A j \in Keys : outer'[j] \in {outer[j], None}
  BY <1>1 DEF IInv, TypeOK
<1>3. QED
  BY <1>1, <1>2 DEF Steady, SteadyTables, SteadyCall, Now

LEMMA RestartSteady ==
  ASSUME IInv, Steady, NEW p \in Procs, Restart(p)
  PROVE  Steady'
<1> SUFFICES ASSUME undercut = {} PROVE SteadyTables' /\ \A d \in Callers : SteadyCall(d)'
  BY DEF Steady, Restart
<1>1. UNCHANGED outer
  BY DEF Restart, disk
<1>2. \A q \in Procs, s \in Sources :
        /\ resident'[q][s] = IF q = p THEN None ELSE resident[q][s]
        /\ guard'[q][s] = IF q = p THEN None ELSE guard[q][s]
  BY DEF Restart, IInv, TypeOK
<1>3. SteadyTables'
  BY <1>1, <1>2 DEF Steady, SteadyTables
<1>4. ASSUME NEW d \in Callers PROVE SteadyCall(d)'
  <2>1. CASE Proc[d] = p
    <3>1. pc'[d] = "idle"
      BY <2>1 DEF Restart
    <3>2. QED
      BY <3>1 DEF SteadyCall, Keyed, Working
  <2>2. CASE Proc[d] # p
    <3>1. /\ pc'[d] = pc[d] /\ source'[d] = source[d] /\ outerKey'[d] = outerKey[d]
          /\ seen'[d] = seen[d] /\ handle'[d] = handle[d]
      BY <2>2 DEF Restart
    <3>2. Now(d)' = Now(d) /\ Proc[d] \in Procs
      BY <2>2, NowTyped DEF Restart, Now, IInv, TypeOK
    <3>3. resident'[Proc[d]] = resident[Proc[d]] /\ guard'[Proc[d]] = guard[Proc[d]]
      BY <2>2, <3>2 DEF Restart, IInv, TypeOK
    <3>4. QED
      BY <3>1, <3>2, <3>3 DEF Steady, SteadyCall
  <2>3. QED
    BY <2>1, <2>2
<1>5. QED
  BY <1>3, <1>4

LEMMA NextSteady == IInv /\ Steady /\ [Next]_vars => Steady'
<1> SUFFICES ASSUME IInv, Steady, [Next]_vars PROVE Steady'
  OBVIOUS
<1>1. CASE UNCHANGED vars
  BY <1>1 DEF vars, disk, process, locals, env, Steady, SteadyTables, SteadyCall, Now
<1>2. ASSUME NEW c \in Callers, Step(c) PROVE Steady'
  BY <1>2, HookSteady, CompareSteady, LookupSteady, OuterSteady, StagesSteady, KeySteady,
     ReadSourceSteady, ReadRecordSteady, EmitSteady, MakeRecordSteady, PutSourceSteady,
     PutRecordSteady, StashSteady, CheckSteady, BuildSteady, SealSteady, InsertSteady,
     ConstructSteady, RecallSteady, FromMemorySteady, FromFileSteady, CallSteady
  DEF Step
<1>3. CASE Environment
  BY <1>3, ChangePolicySteady, RestartSteady, DamageSteady DEF Environment
<1>4. QED
  BY <1>1, <1>2, <1>3, StartSteady DEF Next

LEMMA InitSteady == Init => Steady
  BY DEF Init, Steady, SteadyTables, SteadyCall, Keyed, Working

\* Only the launcher's two checks of the stamp end a call as stale, and both look at
\* a kernel that the call holds.
LEMMA StaleUnguarded ==
  ASSUME IInv, Steady, [Next]_vars, undercut' = {}, NEW c \in Callers,
         outcome'[c] = "stale", outcome[c] # "stale"
  PROVE  guard[Proc[c]][source[c]] = None
<1>1. CASE UNCHANGED vars
  BY <1>1 DEF vars, history
<1>2. ASSUME NEW d \in Callers, NEW s \in Sources, NEW w \in BOOLEAN, Start(d, s, w) PROVE FALSE
  BY <1>2, OutcomeAssumption DEF Start, Outcomes, IInv, TypeOK
<1>3. ASSUME NEW d \in Callers, Step(d) PROVE guard[Proc[c]][source[c]] = None
  <2>1. ASSUME NEW o, o # "stale", Finish(d, o) PROVE FALSE
    BY <2>1 DEF Finish, IInv, TypeOK
  <2>2. CASE Hook(d) \/ Compare(d) \/ Outer(d) \/ Stages(d) \/ Key(d) \/ ReadSource(d)
             \/ ReadRecord(d) \/ MakeRecord(d) \/ PutSource(d) \/ PutRecord(d) \/ Stash(d)
             \/ Recall(d) \/ FromMemory(d) \/ FromFile(d)
    BY <2>2 DEF Hook, Compare, Outer, Stages, Key, ReadSource, ReadRecord, MakeRecord, PutSource,
                PutRecord, Stash, Recall, FromMemory, FromFile, Resolved, history
  <2>3. CASE Lookup(d) \/ Emit(d) \/ Check(d) \/ Build(d) \/ Seal(d) \/ Insert(d)
    BY <2>1, <2>3 DEF Lookup, Emit, Check, Build, Seal, Insert, Stop, history
  <2>4. CASE Construct(d) \/ Call(d)
    <3>1. Stop(d, "stale") /\ pc[d] \in {"construct", "call"} /\ handle[d].stamp # Now(d)
      BY <2>1, <2>4 DEF Construct, Call, history, At
    <3>2. d = c /\ undercut = {}
      BY <3>1 DEF Stop, Finish, env, IInv, TypeOK
    <3>3. QED
      BY <3>1, <3>2 DEF Steady, SteadyCall
  <2>5. QED
    BY <1>3, <2>2, <2>3, <2>4 DEF Step
<1>4. CASE Environment
  BY <1>4, OutcomeAssumption DEF Environment, ChangePolicy, Damage, Restart, history, Outcomes, IInv, TypeOK
<1>5. QED
  BY <1>1, <1>2, <1>3, <1>4 DEF Next

\* As long as policy has not changed under calls, a function that has the hook is
\* recompiled and never refused as stale.
THEOREM HookedFunctionsRecompile == Spec => GuardedRecompiles
<1>1. IInv /\ Steady /\ [Next]_vars =>
        [undercut' = {} => \A c \in Callers :
           outcome'[c] = "stale" /\ outcome[c] # "stale" => guard[Proc[c]][source[c]] = None]_vars
  BY StaleUnguarded
<1>2. Spec => []Steady
  BY InitSteady, NextSteady, IInvHolds, PTL DEF Spec
<1>3. QED
  BY <1>1, <1>2, IInvHolds, PTL DEF Spec, GuardedRecompiles

================================================================================

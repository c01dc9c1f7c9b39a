-------------------------- MODULE MetallibCache_proof --------------------------
(***************************************************************************)
(* Proofs about MetallibCache, for any number of callers, sources, builds, *)
(* contracts and attempts, and for any amount of interference.             *)
(***************************************************************************)
EXTENDS MetallibCache, TLAPS

\* The steps at which a call holds linker output of its own.
Holding == {"replace", "readback", "publish"}

\* A call has a key exactly while it runs, bytes to validate when it validates
\* them, and linker output while it installs it.
CallOK ==
  \A c \in Callers :
    /\ pc[c] = "idle" <=> key[c] = None
    /\ pc[c] = "validate" => data[c] # None
    /\ pc[c] \in Holding => priv[c] \in built[key[c]]

BuiltOK == \A k \in Keys : built[k] \subseteq Makes[k]

IInv == TypeOK /\ CallOK /\ BuiltOK /\ CertifiesOwnOutput /\ ToolFailureIsLoud

--------------------------------------------------------------------------------

LEMMA MakesBinaries == \A k \in Keys : Makes[k] \subseteq Binaries
  BY DEF Makes

LEMMA InitIInv == Init => IInv
  BY CacheAssumption, ContentAssumption, RecordAssumption
  DEF Init, IInv, TypeOK, CallOK, BuiltOK, CertifiesOwnOutput, ToolFailureIsLoud,
      Steps, Holding, At

LEMMA StartIInv ==
  ASSUME IInv, NEW c \in Callers, NEW s \in Sources, NEW b \in Builds, Start(c, s, b)
  PROVE  IInv'
  BY CacheAssumption, RecordAssumption
  DEF Start, IInv, TypeOK, CallOK, BuiltOK, CertifiesOwnOutput, ToolFailureIsLoud,
      Steps, Holding, At, Goto, Raise, Finish, files, Keys

LEMMA ReadBinaryIInv ==
  ASSUME IInv, NEW c \in Callers, ReadBinary(c)
  PROVE  IInv'
  BY CacheAssumption, RecordAssumption
  DEF ReadBinary, Miss, IInv, TypeOK, CallOK, BuiltOK, CertifiesOwnOutput, ToolFailureIsLoud,
      Steps, Holding, At, Goto, files

LEMMA ReadRecordIInv ==
  ASSUME IInv, NEW c \in Callers, ReadRecord(c)
  PROVE  IInv'
  BY CacheAssumption, RecordAssumption, ContentAssumption, MakesBinaries
  DEF ReadRecord, Certifies, Miss, Raise, Finish, IInv, TypeOK, CallOK, BuiltOK, CertifiesOwnOutput, ToolFailureIsLoud,
      Steps, Holding, At, Goto, files, Records

\* A call that ends, whatever it returns, leaves the invariant intact; so does
\* one that ends because a tool failed.
LEMMA FinishIInv ==
  ASSUME IInv, NEW c \in Callers, ~At(c, "idle"),
         NEW r \in Binaries \cup {None, Refused}, Finish(c, r),
         \/ UNCHANGED failed
         \/ r = Refused /\ failed' = [failed EXCEPT ![c] = TRUE],
         UNCHANGED <<files, contract, built>>, noise' \in 0..MaxNoise
  PROVE  IInv'
<1> USE DEF Finish, Goto, files
<1>1. TypeOK'
  <2>1. failed' \in [Callers -> BOOLEAN]
    BY DEF IInv, TypeOK
  <2>2. attempt' \in [Callers -> 0..Attempts]
    BY CacheAssumption DEF IInv, TypeOK
  <2>3. QED
    BY <2>1, <2>2 DEF IInv, TypeOK, Steps
<1>2. CallOK'
  BY RecordAssumption DEF IInv, TypeOK, CallOK, Holding
<1>3. BuiltOK' /\ CertifiesOwnOutput'
  BY DEF IInv, BuiltOK, CertifiesOwnOutput
<1>4. ToolFailureIsLoud'
  BY DEF IInv, TypeOK, ToolFailureIsLoud, At
<1>5. QED
  BY <1>1, <1>2, <1>3, <1>4 DEF IInv

LEMMA RetryIInv ==
  ASSUME IInv, NEW c \in Callers, ~At(c, "idle"), Retry(c),
         UNCHANGED <<files, contract, failed, built, noise>>
  PROVE  IInv'
<1>1. CASE attempt[c] < Attempts
  BY <1>1, CacheAssumption, RecordAssumption
  DEF Retry, IInv, TypeOK, CallOK, BuiltOK, CertifiesOwnOutput, ToolFailureIsLoud,
      Steps, Holding, At, Goto, files
<1>2. CASE ~(attempt[c] < Attempts)
  BY <1>2, FinishIInv DEF Retry, Raise, IInv, TypeOK
<1>3. QED
  BY <1>1, <1>2

LEMMA CompileIInv ==
  ASSUME IInv, NEW c \in Callers, Compile(c)
  PROVE  IInv'
<1>1. CASE Raise(c)
  BY <1>1, FinishIInv DEF Compile, Raise, Retry, IInv, TypeOK, At, Goto, Finish
<1>2. CASE Retry(c) /\ UNCHANGED failed
  BY <1>2, RetryIInv DEF Compile, At
<1>3. CASE Goto(c, "link") /\ UNCHANGED <<key, data, priv, attempt, out, failed>>
  BY <1>3
  DEF Compile, IInv, TypeOK, CallOK, BuiltOK, CertifiesOwnOutput, ToolFailureIsLoud,
      Steps, Holding, At, Goto, files
<1>4. QED
  BY <1>1, <1>2, <1>3 DEF Compile

LEMMA LinkIInv ==
  ASSUME IInv, NEW c \in Callers, Link(c)
  PROVE  IInv'
<1>1. CASE Raise(c) /\ UNCHANGED built
  BY <1>1, FinishIInv DEF Link, Raise, IInv, TypeOK, At
<1>2. ASSUME NEW b \in Makes[key[c]],
             Goto(c, "replace"),
             priv' = [priv EXCEPT ![c] = b],
             built' = [built EXCEPT ![key[c]] = @ \cup {b}],
             UNCHANGED <<key, data, attempt, out, failed>>
      PROVE  IInv'
  <2>1. key[c] \in Keys /\ b \in Binaries
    BY <1>2, MakesBinaries DEF Link, IInv, TypeOK, CallOK, At
  <2>2. \A k \in Keys : built[k] \subseteq built'[k]
    BY <1>2 DEF IInv, TypeOK
  <2>3. TypeOK' /\ BuiltOK'
    BY <1>2, <2>1 DEF Link, IInv, TypeOK, BuiltOK, Steps, Goto, files
  <2>4. CallOK'
    BY <1>2, <2>1, <2>2 DEF Link, IInv, TypeOK, CallOK, Holding, Goto, At
  <2>5. CertifiesOwnOutput' /\ ToolFailureIsLoud'
    BY <1>2, <2>2 DEF Link, IInv, TypeOK, CertifiesOwnOutput, ToolFailureIsLoud, Records, Goto, At, files
  <2>6. QED
    BY <2>3, <2>4, <2>5 DEF IInv
<1>3. QED
  BY <1>1, <1>2 DEF Link

LEMMA ReplaceIInv ==
  ASSUME IInv, NEW c \in Callers, Replace(c)
  PROVE  IInv'
  BY CacheAssumption, RecordAssumption, ContentAssumption, MakesBinaries
  DEF Replace, Retry, Raise, Finish, IInv, TypeOK, CallOK, BuiltOK, CertifiesOwnOutput, ToolFailureIsLoud,
      Steps, Holding, At, Goto, files, Contents

LEMMA ReadBackIInv ==
  ASSUME IInv, NEW c \in Callers, ReadBack(c)
  PROVE  IInv'
  BY CacheAssumption, RecordAssumption, ContentAssumption, MakesBinaries
  DEF ReadBack, Retry, Raise, Finish, IInv, TypeOK, CallOK, BuiltOK, CertifiesOwnOutput, ToolFailureIsLoud,
      Steps, Holding, At, Goto, files

LEMMA RecordOfType ==
  ASSUME IInv, NEW c \in Callers, At(c, "publish"), contract[c] # None
  PROVE  /\ RecordOf(c) \in Records
         /\ RecordOf(c).key = key[c]
         /\ RecordOf(c).sha = priv[c]
         /\ key[c] \in Keys
         /\ priv[c] \in built[key[c]]
<1>1. key[c] \in Keys /\ priv[c] \in built[key[c]]
  BY DEF IInv, TypeOK, CallOK, Holding, At
<1>2. priv[c] \in Contents
  BY <1>1, MakesBinaries DEF IInv, BuiltOK, Contents
<1>3. contract[c] \in Contracts
  BY DEF IInv, TypeOK
<1>4. QED
  BY <1>1, <1>2, <1>3 DEF RecordOf, Records, Keys

LEMMA PublishIInv ==
  ASSUME IInv, NEW c \in Callers, Publish(c)
  PROVE  IInv'
<1> USE DEF Publish, Raise, Finish, Goto
<1>1. TypeOK'
  <2>1. rec' \in [Keys -> Records \cup {None}]
    BY RecordOfType DEF IInv, TypeOK
  <2>2. priv[c] \in Binaries
    BY MakesBinaries DEF IInv, TypeOK, CallOK, BuiltOK, Holding, At
  <2>3. QED
    BY <2>1, <2>2, CacheAssumption DEF IInv, TypeOK, Steps, files
<1>2. CallOK' /\ BuiltOK'
  BY RecordAssumption DEF IInv, TypeOK, CallOK, BuiltOK, Holding, At
<1>3. CertifiesOwnOutput'
  BY RecordOfType, RecordAssumption DEF IInv, TypeOK, CertifiesOwnOutput
<1>4. ToolFailureIsLoud'
  BY CacheAssumption DEF IInv, TypeOK, ToolFailureIsLoud, At
<1>5. QED
  BY <1>1, <1>2, <1>3, <1>4 DEF IInv

LEMMA CrashIInv ==
  ASSUME IInv, NEW c \in Callers, Crash(c)
  PROVE  IInv'
  BY CacheAssumption, RecordAssumption, ContentAssumption
  DEF Crash, Noise, Finish, IInv, TypeOK, CallOK, BuiltOK, CertifiesOwnOutput, ToolFailureIsLoud,
      Steps, Holding, At, Goto, files

LEMMA EnvironmentIInv ==
  ASSUME IInv, Environment
  PROVE  IInv'
<1> USE CacheAssumption
    DEF Noise, IInv, TypeOK, CallOK, BuiltOK, CertifiesOwnOutput, ToolFailureIsLoud, At, files
<1>1. CASE \E c \in Callers : ChangeContract(c)
  BY <1>1 DEF ChangeContract
<1>2. CASE \E k \in Keys : DamageBinary(k)
  BY <1>2 DEF DamageBinary
<1>3. CASE \E k \in Keys : DamageRecord(k)
  BY <1>3 DEF DamageRecord
<1>4. QED
  BY <1>1, <1>2, <1>3 DEF Environment

\* The inductive invariant: besides the two safety properties it says which
\* values a call holds at each step.
THEOREM Invariance == Spec => []IInv
<1>1. IInv /\ [Next]_vars => IInv'
  <2> SUFFICES ASSUME IInv, [Next]_vars PROVE IInv'
    OBVIOUS
  <2>1. CASE \E c \in Callers, s \in Sources, b \in Builds : Start(c, s, b)
    BY <2>1, StartIInv
  <2>2. CASE \E c \in Callers : Step(c)
    BY <2>2, ReadBinaryIInv, ReadRecordIInv, CompileIInv, LinkIInv, ReplaceIInv,
       ReadBackIInv, PublishIInv DEF Step
  <2>3. CASE \E c \in Callers : Crash(c)
    BY <2>3, CrashIInv
  <2>4. CASE Environment
    BY <2>4, EnvironmentIInv
  <2>5. CASE UNCHANGED vars
    BY <2>5 DEF vars, IInv, TypeOK, CallOK, BuiltOK, CertifiesOwnOutput, ToolFailureIsLoud, At
  <2>6. QED
    BY <2>1, <2>2, <2>3, <2>4, <2>5 DEF Next
<1>2. QED
  BY InitIInv, <1>1, PTL DEF Spec

\* Every variable keeps its type.
THEOREM TypeCorrect == Spec => []TypeOK
  BY Invariance, PTL DEF IInv

\* A record in the directory certifies only bytes that a call for its key linked
\* privately (publish_binary_record).
THEOREM RecordsCertifyOwnOutput == Spec => []CertifiesOwnOutput
  BY Invariance, PTL DEF IInv

\* A nonzero tool exit decides the call that met it (make_metallib).
THEOREM ToolFailures == Spec => []ToolFailureIsLoud
  BY Invariance, PTL DEF IInv

--------------------------------------------------------------------------------
\* Refinement: the two files, the retries and the environment implement the
\* content-addressed store of ProductStore.

LEMMA StoreInit == Init => Store!Init
  BY DEF Init, Store!Init

LEMMA StartRefines ==
  ASSUME IInv, NEW c \in Callers, NEW s \in Sources, NEW b \in Builds, Start(c, s, b)
  PROVE  Store!Next
<1>1. CASE contract[c] = None
  <2>1. Store!Refuse(c)
    BY <1>1 DEF Start, Raise, Finish, Store!Refuse
  <2>2. QED
    BY <2>1 DEF Store!Next
<1>2. CASE contract[c] # None
  <2> DEFINE k == [source |-> s, build |-> b, contract |-> contract[c]]
  <2>1. k \in Keys
    BY <1>2 DEF Keys, IInv, TypeOK
  <2>2. Store!Ask(c, k)
    BY <1>2 DEF Start, Store!Ask, IInv, CallOK, At
  <2>3. QED
    BY <2>1, <2>2 DEF Store!Next
<1>3. QED
  BY <1>1, <1>2

LEMMA ReadRecordRefines ==
  ASSUME IInv, NEW c \in Callers, ReadRecord(c)
  PROVE  [Store!Next]_Store!vars
<1> DEFINE k == key[c]
<1>1. k \in Keys
  BY DEF ReadRecord, IInv, TypeOK, CallOK, At
<1>2. CASE rec[k] # None /\ rec[k].key = k /\ contract[c] = None
  BY <1>2 DEF ReadRecord, Raise, Finish, Store!Refuse, Store!Next
<1>3. CASE Certifies(rec[k], data[c], k, contract[c]) /\ ~(rec[k].key = k /\ contract[c] = None)
  <2>1. data[c] \in built[k]
    BY <1>1, <1>3 DEF Certifies, IInv, CertifiesOwnOutput
  <2>2. Store!Answer(c, k, data[c])
    BY <1>3, <2>1 DEF ReadRecord, Finish, Store!Answer
  <2>3. data[c] \in Makes[k]
    BY <1>1, <2>1 DEF IInv, BuiltOK
  <2>4. QED
    BY <1>1, <2>2, <2>3 DEF Store!Next
<1>4. CASE ~Certifies(rec[k], data[c], k, contract[c]) /\ ~(rec[k] # None /\ rec[k].key = k /\ contract[c] = None)
  BY <1>4 DEF ReadRecord, Miss, Store!vars
<1>5. QED
  BY <1>2, <1>3, <1>4 DEF Certifies

LEMMA LinkRefines ==
  ASSUME IInv, NEW c \in Callers, Link(c)
  PROVE  Store!Next
<1>1. key[c] \in Keys
  BY DEF Link, IInv, TypeOK, CallOK, At
<1>2. CASE Raise(c) /\ UNCHANGED built
  BY <1>2 DEF Raise, Finish, Store!Refuse, Store!Next
<1>3. ASSUME NEW b \in Makes[key[c]],
             built' = [built EXCEPT ![key[c]] = @ \cup {b}],
             UNCHANGED <<key, out>>
      PROVE  Store!Next
  BY <1>1, <1>3 DEF Store!Build, Store!Next
<1>4. QED
  BY <1>2, <1>3 DEF Link

LEMMA PublishRefines ==
  ASSUME IInv, NEW c \in Callers, Publish(c)
  PROVE  Store!Next
<1>1. key[c] \in Keys /\ priv[c] \in built[key[c]]
  BY DEF Publish, IInv, TypeOK, CallOK, Holding, At
<1>2. CASE contract[c] = None
  BY <1>2 DEF Publish, Raise, Finish, Store!Refuse, Store!Next
<1>3. CASE contract[c] # None
  <2>1. Store!Answer(c, key[c], priv[c])
    BY <1>1, <1>3 DEF Publish, Finish, Store!Answer
  <2>2. priv[c] \in Makes[key[c]]
    BY <1>1 DEF IInv, BuiltOK
  <2>3. QED
    BY <1>1, <2>1, <2>2 DEF Store!Next
<1>4. QED
  BY <1>2, <1>3

\* The steps that can only continue, give up, or retry.
LEMMA OtherStepsRefine ==
  ASSUME IInv, NEW c \in Callers, ReadBinary(c) \/ Compile(c) \/ Replace(c) \/ ReadBack(c)
  PROVE  [Store!Next]_Store!vars
<1>1. ASSUME Raise(c), UNCHANGED built
      PROVE  Store!Next
  BY <1>1 DEF Raise, Finish, Store!Refuse, Store!Next
<1>2. ASSUME Retry(c), UNCHANGED built
      PROVE  [Store!Next]_Store!vars
  BY <1>1, <1>2 DEF Retry, Store!vars
<1>3. CASE ReadBinary(c)
  BY <1>3 DEF ReadBinary, Miss, Store!vars
<1>4. CASE Compile(c)
  BY <1>1, <1>2, <1>4 DEF Compile, Store!vars
<1>5. CASE Replace(c)
  BY <1>2, <1>5 DEF Replace, Store!vars
<1>6. CASE ReadBack(c)
  BY <1>2, <1>6 DEF ReadBack, Store!vars
<1>7. QED
  BY <1>3, <1>4, <1>5, <1>6

\* make_metallib implements the store: one answer per request, and only a binary
\* that a tool run made for that request.
THEOREM Refinement == Spec => StoreSpec
<1>1. IInv /\ [Next]_vars => [Store!Next]_Store!vars
  <2> SUFFICES ASSUME IInv, [Next]_vars PROVE [Store!Next]_Store!vars
    OBVIOUS
  <2>1. CASE \E c \in Callers, s \in Sources, b \in Builds : Start(c, s, b)
    BY <2>1, StartRefines
  <2>2. CASE \E c \in Callers : Step(c)
    BY <2>2, ReadRecordRefines, LinkRefines, PublishRefines, OtherStepsRefine DEF Step
  <2>3. CASE \E c \in Callers : Crash(c)
    BY <2>3 DEF Crash, Finish, Store!Withdraw, Store!Next
  <2>4. CASE Environment
    BY <2>4 DEF Environment, ChangeContract, DamageBinary, DamageRecord, Store!vars
  <2>5. CASE UNCHANGED vars
    BY <2>5 DEF vars, Store!vars
  <2>6. QED
    BY <2>1, <2>2, <2>3, <2>4, <2>5 DEF Next
<1>2. QED
  BY StoreInit, Invariance, <1>1, PTL DEF Spec, StoreSpec, Store!Spec
================================================================================

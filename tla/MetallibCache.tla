----------------------------- MODULE MetallibCache -----------------------------
(***************************************************************************)
(* The compiled-binary cache: make_metallib and make_metallib_from_llir    *)
(* (backend/compiler.py) over read_binary_product and                      *)
(* publish_binary_record (backend/_cache_contract.py).                     *)
(*                                                                         *)
(* Callers are threads and processes that share one cache directory.  A    *)
(* product is two files: the .metallib (pub) and its .meta.json record     *)
(* (rec), each replaced atomically but never together.  Between any two    *)
(* steps of a caller another caller may run, the directory may be cleared  *)
(* or damaged, the caller's source contract may change, or its process may *)
(* die.                                                                    *)
(*                                                                         *)
(* Digests are collision free, so the digest of a content is the content   *)
(* and a cache key is the record of what is hashed into it.                *)
(***************************************************************************)
EXTENDS Naturals

CONSTANTS
  Callers,    \* threads and processes that compile
  Sources,    \* MSL or LLVM IR texts
  Builds,     \* options, route, tool flags and toolchain identity
  Contracts,  \* values of source_contract()
  Variants,   \* binaries that tool runs on one input may produce
  Attempts,   \* _METALLIB_COMPILE_ATTEMPTS
  MaxNoise,   \* bound: crashes and events of the environment in a behaviour
  None,       \* no file, no value, an identity that cannot be established
  Refused,    \* the result of a call that raised
  Empty,      \* the content of an empty file
  Garbage     \* a content no tool run produced

ASSUME CacheAssumption ==
  /\ Attempts \in Nat \ {0}
  /\ MaxNoise \in Nat
  /\ None \notin Contracts
  /\ Refused # None

\* binary_key: a digest of source, options, route, flags, contract, toolchain.
Keys == [source : Sources, build : Builds, contract : Contracts]

Binaries == [source : Sources, build : Builds, variant : Variants]

\* What the tools may produce for a key: neither reads the source contract.
Makes == [k \in Keys |-> {b \in Binaries : b.source = k.source /\ b.build = k.build}]

ASSUME ContentAssumption ==
  /\ None \notin Binaries \cup {Empty, Garbage}
  /\ Refused \notin Binaries
  /\ Empty \notin Binaries
  /\ Garbage \notin Binaries

Contents == Binaries \cup {Empty, Garbage}

\* metadata_record: what a record of kind "metallib-product" binds.
Records == [key : Keys, contract : Contracts, source : Sources, sha : Contents]

ASSUME RecordAssumption == None \notin Keys \cup Records

VARIABLES
  pub,        \* pub[k]: content of the public .metallib of key k, or None
  rec,        \* rec[k]: content of its .meta.json record, or None
  contract,   \* contract[c]: the contract c would compute now, or None
  pc,         \* pc[c]: the next step of c's call
  key,        \* key[c]: the key of c's call
  data,       \* data[c]: the public bytes c has read
  priv,       \* priv[c]: the linker output in c's private work directory
  attempt,    \* attempt[c]: number of the current compile attempt
  out,        \* out[c]: what c's last call returned, Refused, or None
  failed,     \* failed[c]: a tool exited nonzero in c's current or last call
  built,      \* built[k]: the binaries calls for k have linked (history)
  noise       \* how many crashes and environment events there have been

files == <<pub, rec>>
vars == <<pub, rec, contract, pc, key, data, priv, attempt, out, failed, built, noise>>

Steps == {"idle", "lookup", "validate", "compile", "link", "replace", "readback", "publish"}

Init ==
  /\ pub = [k \in Keys |-> None]
  /\ rec = [k \in Keys |-> None]
  /\ contract \in [Callers -> Contracts]
  /\ pc = [c \in Callers |-> "idle"]
  /\ key = [c \in Callers |-> None]
  /\ data = [c \in Callers |-> None]
  /\ priv = [c \in Callers |-> None]
  /\ attempt = [c \in Callers |-> 0]
  /\ out = [c \in Callers |-> None]
  /\ failed = [c \in Callers |-> FALSE]
  /\ built = [k \in Keys |-> {}]
  /\ noise = 0

--------------------------------------------------------------------------------

At(c, step) == pc[c] = step
Goto(c, step) == pc' = [pc EXCEPT ![c] = step]

\* The call ends, returning r.  What it holds in memory is dropped.
Finish(c, r) ==
  /\ Goto(c, "idle")
  /\ out' = [out EXCEPT ![c] = r]
  /\ key' = [key EXCEPT ![c] = None]
  /\ data' = [data EXCEPT ![c] = None]
  /\ priv' = [priv EXCEPT ![c] = None]
  /\ attempt' = [attempt EXCEPT ![c] = 0]

Raise(c) == Finish(c, Refused)

\* Mutant: the attempt is not counted.
RetryForever(c) ==
  /\ Goto(c, "compile")
  /\ priv' = [priv EXCEPT ![c] = None]
  /\ UNCHANGED <<key, data, attempt, out>>

\* Mutant: one attempt too many.
RetryOnceMore(c) ==
  IF attempt[c] <= Attempts
  THEN /\ Goto(c, "compile")
       /\ attempt' = [attempt EXCEPT ![c] = @ + 1]
       /\ priv' = [priv EXCEPT ![c] = None]
       /\ UNCHANGED <<key, data, out>>
  ELSE Raise(c)

\* An observed missing artifact: the next attempt in a new work directory, or
\* the error of the last one.
Retry(c) ==
  IF attempt[c] < Attempts
  THEN /\ Goto(c, "compile")
       /\ attempt' = [attempt EXCEPT ![c] = @ + 1]
       /\ priv' = [priv EXCEPT ![c] = None]
       /\ UNCHANGED <<key, data, out>>
  ELSE Raise(c)

\* Entry: the key is computed from the contract of this moment, or the identity
\* cannot be established and the call raises.
Start(c, s, b) ==
  /\ At(c, "idle")
  /\ failed' = [failed EXCEPT ![c] = FALSE]
  /\ IF contract[c] = None
     THEN Raise(c)
     ELSE /\ Goto(c, "lookup")
          /\ key' = [key EXCEPT ![c] = [source |-> s, build |-> b, contract |-> contract[c]]]
          /\ out' = [out EXCEPT ![c] = None]
          /\ UNCHANGED <<data, priv, attempt>>
  /\ UNCHANGED <<files, contract, built, noise>>

Miss(c) ==
  /\ Goto(c, "compile")
  /\ attempt' = [attempt EXCEPT ![c] = 1]
  /\ data' = [data EXCEPT ![c] = None]
  /\ UNCHANGED <<key, priv, out>>

\* read_binary_product opens the public binary first ...
ReadBinary(c) ==
  /\ At(c, "lookup")
  /\ IF pub[key[c]] = None
     THEN Miss(c)
     ELSE /\ Goto(c, "validate")
          /\ data' = [data EXCEPT ![c] = pub[key[c]]]
          /\ UNCHANGED <<key, priv, attempt, out>>
  /\ UNCHANGED <<files, contract, failed, built, noise>>

\* Mutant: the record is not compared with the bytes that were read.
CertifiesUnread(r, d, k, t) ==
  /\ r # None
  /\ r.key = k
  /\ r.contract = t
  /\ r.source = k.source
  /\ d # Empty

\* decode_metadata plus the binary digest: the record r certifies the bytes d
\* to a caller that looks up k while its contract is t.
Certifies(r, d, k, t) ==
  /\ r # None
  /\ r.key = k
  /\ r.contract = t
  /\ r.source = k.source
  /\ d # Empty
  /\ r.sha = d

\* ... and its record next.  The contract is computed only for a record that
\* carries the right key, and a refusal of it escapes the lookup.
ReadRecord(c) ==
  LET k == key[c] IN
  /\ At(c, "validate")
  /\ IF rec[k] # None /\ rec[k].key = k /\ contract[c] = None
     THEN Raise(c)
     ELSE IF Certifies(rec[k], data[c], k, contract[c])
          THEN Finish(c, data[c])
          ELSE Miss(c)
  /\ UNCHANGED <<files, contract, failed, built, noise>>

\* Mutant: a nonzero exit is retried like a missing artifact.
CompileRetriesFailure(c) ==
  /\ At(c, "compile")
  /\ \/ /\ Goto(c, "link")
        /\ UNCHANGED <<key, data, priv, attempt, out, failed>>
     \/ /\ Retry(c)
        /\ failed' \in {failed, [failed EXCEPT ![c] = TRUE]}
  /\ UNCHANGED <<files, contract, built, noise>>

\* xcrun metal.  Exit zero may still leave no .air behind; any other exit raises
\* at once, whatever attempt it is.
Compile(c) ==
  /\ At(c, "compile")
  /\ \/ /\ Goto(c, "link")
        /\ UNCHANGED <<key, data, priv, attempt, out, failed>>
     \/ /\ Retry(c)
        /\ UNCHANGED failed
     \/ /\ Raise(c)
        /\ failed' = [failed EXCEPT ![c] = TRUE]
  /\ UNCHANGED <<files, contract, built, noise>>

\* xcrun metallib into the private work directory.  Exit zero with an absent or
\* empty output raises, and is not retried.
Link(c) ==
  /\ At(c, "link")
  /\ \/ \E b \in Makes[key[c]] :
          /\ Goto(c, "replace")
          /\ priv' = [priv EXCEPT ![c] = b]
          /\ built' = [built EXCEPT ![key[c]] = @ \cup {b}]
          /\ UNCHANGED <<key, data, attempt, out, failed>>
     \/ /\ Raise(c)
        /\ UNCHANGED <<failed, built>>
     \/ /\ Raise(c)
        /\ failed' = [failed EXCEPT ![c] = TRUE]
        /\ UNCHANGED built
  /\ UNCHANGED <<files, contract, noise>>

\* os.replace of the private output onto the public path.
Replace(c) ==
  /\ At(c, "replace")
  /\ \/ /\ pub' = [pub EXCEPT ![key[c]] = priv[c]]
        /\ Goto(c, "readback")
        /\ UNCHANGED <<key, data, priv, attempt, out>>
     \/ /\ Retry(c)
        /\ UNCHANGED pub
  /\ UNCHANGED <<rec, contract, failed, built, noise>>

\* The public path is read once more only to notice that it has vanished.
ReadBack(c) ==
  /\ At(c, "readback")
  /\ IF pub[key[c]] = None
     THEN Retry(c)
     ELSE /\ Goto(c, "publish")
          /\ UNCHANGED <<key, data, priv, attempt, out>>
  /\ UNCHANGED <<files, contract, failed, built, noise>>

\* Mutant: the record hashes the public file as it is now.
RecordOfPublic(c) ==
  [key |-> key[c], contract |-> contract[c], source |-> key[c].source, sha |-> pub[key[c]]]

\* The record binds the private bytes and the contract of this moment.
RecordOf(c) ==
  [key |-> key[c], contract |-> contract[c], source |-> key[c].source, sha |-> priv[c]]

\* publish_binary_record and the return of the private bytes.  An OSError only
\* loses the record; an identity that cannot be established raises.
Publish(c) ==
  /\ At(c, "publish")
  /\ IF contract[c] = None
     THEN Raise(c) /\ UNCHANGED rec
     ELSE /\ Finish(c, priv[c])
          /\ \/ rec' = [rec EXCEPT ![key[c]] = RecordOf(c)]
             \/ UNCHANGED rec
  /\ UNCHANGED <<pub, contract, failed, built, noise>>

Step(c) ==
  \/ ReadBinary(c) \/ ReadRecord(c) \/ Compile(c) \/ Link(c)
  \/ Replace(c) \/ ReadBack(c) \/ Publish(c)

Noise == noise < MaxNoise /\ noise' = noise + 1

\* The process dies.  Its work directory and temporary files stay behind, under
\* names nobody reads.
Crash(c) ==
  /\ ~At(c, "idle")
  /\ Finish(c, None)
  /\ Noise
  /\ UNCHANGED <<files, contract, failed, built>>

--------------------------------------------------------------------------------
\* The environment.

\* Compilation policy or the selected native images change under caller c.
ChangeContract(c) ==
  /\ Noise
  /\ contract' \in [Callers -> Contracts \cup {None}]
  /\ \A d \in Callers \ {c} : contract'[d] = contract[d]
  /\ UNCHANGED <<files, pc, key, data, priv, attempt, out, failed, built>>

\* The public binary is deleted, truncated, or overwritten with any bytes.
DamageBinary(k) ==
  /\ Noise
  /\ \E d \in Contents \cup {None} : pub' = [pub EXCEPT ![k] = d]
  /\ UNCHANGED <<rec, contract, pc, key, data, priv, attempt, out, failed, built>>

\* The record is deleted or no longer decodes, or is a copy of another key's.
DamageRecord(k) ==
  /\ Noise
  /\ \E r \in {rec[j] : j \in Keys} \cup {None} : rec' = [rec EXCEPT ![k] = r]
  /\ UNCHANGED <<pub, contract, pc, key, data, priv, attempt, out, failed, built>>

Environment ==
  \/ \E c \in Callers : ChangeContract(c)
  \/ \E k \in Keys : DamageBinary(k) \/ DamageRecord(k)

Next ==
  \/ \E c \in Callers :
       \/ \E s \in Sources, b \in Builds : Start(c, s, b)
       \/ Step(c)
       \/ Crash(c)
  \/ Environment

Spec == Init /\ [][Next]_vars

\* A call keeps running once entered: the tools it spawns end, and the loop of
\* attempts is a plain sequential loop.
Fairness == \A c \in Callers : WF_vars(Step(c))

LiveSpec == Spec /\ Fairness

--------------------------------------------------------------------------------

TypeOK ==
  /\ pub \in [Keys -> Contents \cup {None}]
  /\ rec \in [Keys -> Records \cup {None}]
  /\ contract \in [Callers -> Contracts \cup {None}]
  /\ pc \in [Callers -> Steps]
  /\ key \in [Callers -> Keys \cup {None}]
  /\ data \in [Callers -> Contents \cup {None}]
  /\ priv \in [Callers -> Binaries \cup {None}]
  /\ attempt \in [Callers -> 0..Attempts]
  /\ out \in [Callers -> Binaries \cup {None, Refused}]
  /\ failed \in [Callers -> BOOLEAN]
  /\ built \in [Keys -> SUBSET Binaries]
  /\ noise \in 0..MaxNoise

\* A record never certifies bytes that some call for its key did not link
\* itself, however the public file was replaced or damaged meanwhile
\* (publish_binary_record binds the private output, not the public path).
CertifiesOwnOutput ==
  \A k \in Keys : rec[k] # None => rec[k].sha \in built[rec[k].key]

\* A nonzero exit of the compiler or the linker is the outcome of the call: no
\* later attempt of the same call erases it.
ToolFailureIsLoud ==
  \A c \in Callers : failed[c] => At(c, "idle") /\ out[c] = Refused

\* Every call ends, even if the directory is cleared over and over.
\* (_METALLIB_COMPILE_ATTEMPTS bounds the missing-artifact retries.)
CallsEnd == \A c \in Callers : ~At(c, "idle") ~> At(c, "idle")

--------------------------------------------------------------------------------
\* The cache implements ProductStore: a call asks for its key, a link is a tool
\* run, and a returned binary is the answer.

Store == INSTANCE ProductStore WITH
  Requests <- Keys,
  ask <- key,
  answer <- out

StoreSpec == Store!Spec
================================================================================

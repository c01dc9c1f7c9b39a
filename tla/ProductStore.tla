------------------------------ MODULE ProductStore ------------------------------
(***************************************************************************)
(* What the compiled-binary cache promises a caller of make_metallib or    *)
(* make_metallib_from_llir (triton_msl/backend/compiler.py): one request   *)
(* gets one answer, and an answer is either a refusal or a binary that     *)
(* some tool run made for exactly that request.  Files, records, retries   *)
(* and processes do not appear here; MetallibCache is shown to implement   *)
(* this module.                                                            *)
(***************************************************************************)

CONSTANTS
  Callers,    \* threads and processes that compile
  Requests,   \* what is asked for: source, build inputs, source contract
  Makes,      \* Makes[r]: the binaries a tool run may produce for request r
  None,       \* no request, or no answer
  Refused     \* the answer of a call that raised

VARIABLES
  ask,        \* ask[c]: the request caller c waits for, or None
  answer,     \* answer[c]: the last answer of c, or None
  built       \* built[r]: the binaries tool runs have produced for request r

vars == <<ask, answer, built>>

Init ==
  /\ ask = [c \in Callers |-> None]
  /\ answer = [c \in Callers |-> None]
  /\ built = [r \in Requests |-> {}]

Ask(c, r) ==
  /\ ask[c] = None
  /\ ask' = [ask EXCEPT ![c] = r]
  /\ answer' = [answer EXCEPT ![c] = None]
  /\ UNCHANGED built

\* A tool run finishes on behalf of a caller that is waiting for r.
Build(c, r, b) ==
  /\ ask[c] = r
  /\ b \in Makes[r]
  /\ built' = [built EXCEPT ![r] = @ \cup {b}]
  /\ UNCHANGED <<ask, answer>>

Answer(c, r, b) ==
  /\ ask[c] = r
  /\ b \in built[r]
  /\ ask' = [ask EXCEPT ![c] = None]
  /\ answer' = [answer EXCEPT ![c] = b]
  /\ UNCHANGED built

\* A call raises; it may be refused before it has even formed its request.
Refuse(c) ==
  /\ ask' = [ask EXCEPT ![c] = None]
  /\ answer' = [answer EXCEPT ![c] = Refused]
  /\ UNCHANGED built

\* The caller's process dies.
Withdraw(c) ==
  /\ ask' = [ask EXCEPT ![c] = None]
  /\ answer' = [answer EXCEPT ![c] = None]
  /\ UNCHANGED built

Next ==
  \E c \in Callers :
    \/ \E r \in Requests : Ask(c, r)
    \/ \E r \in Requests : \E b \in Makes[r] : Build(c, r, b) \/ Answer(c, r, b)
    \/ Refuse(c)
    \/ Withdraw(c)

Spec == Init /\ [][Next]_vars
================================================================================

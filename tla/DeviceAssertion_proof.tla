-------------------------- MODULE DeviceAssertion_proof --------------------------
(***************************************************************************)
(* Proofs about DeviceAssertion, for any launch and any admitted kernel.   *)
(*                                                                         *)
(* A threadgroup is always in one of three phases: before its first        *)
(* barrier, between the two barriers of a check, or outside them.  Outside *)
(* them all of its threads go from the same check x, with the same verdict *)
(* v about it, to the same next check: GroupRuns names that x and v.       *)
(***************************************************************************)
EXTENDS DeviceAssertion, TLAPS

Places == Positions \cup {Start}

GroupClears(g) ==
  /\ \A t \in Threads : pc[g][t] \in {"init", "arrive"} /\ at[g][t] = Start
  /\ pc[g][Leader] = "arrive" => ~gflag[g]
  /\ failedAt[g] = {}

GroupSamples(g) ==
  /\ \A t \in Threads : pc[g][t] \in {"sample", "hold"}
  /\ \A t \in Threads : pc[g][t] = "hold" => verdict[g][t] = gflag[g]
  /\ \A s, t \in Threads : at[g][s] = at[g][t]
  /\ ~gflag[g] => failedAt[g] = {}

GroupRuns(g, x, v) ==
  /\ \A t \in Threads :
       /\ pc[g][t] \in {"test", "access", "check", "record", "rendezvous", "returned"}
       /\ pc[g][t] = "test" => at[g][t] = x /\ verdict[g][t] = v
       /\ pc[g][t] = "access" => at[g][t] = x /\ ~v
       /\ pc[g][t] \in {"check", "record", "rendezvous"} => ~v /\ IsNext(Path(g, t), x, at[g][t])
       /\ pc[g][t] = "returned" => v \/ ~ \E y \in Path(g, t) : IsNext(Path(g, t), x, y)
  /\ ~v => \A y \in failedAt[g] : Earlier(x, y)
  /\ ~v /\ ~gflag[g] => failedAt[g] = {}

GroupInv(g) ==
  \/ GroupClears(g)
  \/ GroupSamples(g)
  \/ \E x \in Places, v \in BOOLEAN : GroupRuns(g, x, v)

\* The status has every code that was recorded, and no other.
StatusInv ==
  /\ \A g \in Groups : \A x \in failedAt[g] :
       x[1] <= status \/ \E t \in Threads : pc[g][t] = "record" /\ at[g][t] = x
  /\ status # 0 => \E g \in Groups : \E x \in failedAt[g] : x[1] = status
  /\ \A g \in Groups : \A t \in Threads : pc[g][t] = "record" => at[g][t] \in failedAt[g]
  /\ \A g \in Groups : \A t \in Threads :
       pc[g][t] \in {"check", "record"} => at[g][t][1] \in DOMAIN kernel
  /\ answer # None => Ended /\ answer = status

LaunchInv ==
  /\ Admitted(kernel)
  /\ \A g \in Groups, l \in Uniform, s, t \in Threads : value[g][s][l] = value[g][t][l]

IInv == TypeOK /\ LaunchInv /\ (\A g \in Groups : GroupInv(g)) /\ StatusInv

--------------------------------------------------------------------------------

\* The soundness of the uniform-control proof: on an admitted kernel all the
\* threads of a group have the same checks before them.
LEMMA SamePath ==
  ASSUME TypeOK, LaunchInv, NEW g \in Groups, NEW s \in Threads, NEW t \in Threads
  PROVE  Path(g, s) = Path(g, t)
<1>1. kernel \in Seq(Regions)
  BY LaunchAssumption DEF TypeOK
<1>2. ASSUME NEW i \in DOMAIN kernel
      PROVE  Enters(g, s, i) <=> Enters(g, t, i)
  <2>1. kernel[i].depends \subseteq Uniform
    BY DEF LaunchInv, Admitted
  <2>2. \A l \in kernel[i].depends : value[g][s][l] = value[g][t][l]
    BY <2>1 DEF LaunchInv
  <2> QED
    BY <2>2 DEF Enters
<1> QED
  BY <1>2 DEF Path

LEMMA PathPlaces ==
  ASSUME TypeOK, NEW g \in Groups, NEW t \in Threads, NEW x \in Path(g, t)
  PROVE  x \in Positions /\ x[1] \in DOMAIN kernel /\ x[1] \in 1 .. Len(kernel)
<1>1. kernel \in Seq(Regions)
  BY LaunchAssumption DEF TypeOK
<1>2. DOMAIN kernel = 1 .. Len(kernel) /\ Len(kernel) \in Nat
  BY <1>1
<1>3. x \in (1 .. Len(kernel)) \X (1 .. Trips)
  BY <1>2 DEF Path
<1> QED
  BY <1>2, <1>3, LaunchAssumption DEF Positions, Start

LEMMA OneNext ==
  ASSUME NEW path \in SUBSET Positions, NEW x,
         NEW y, NEW z, IsNext(path, x, y), IsNext(path, x, z)
  PROVE  y = z
<1>1. y \in Nat \X Nat /\ z \in Nat \X Nat
  BY DEF IsNext, Positions
<1>2. ~Earlier(y, z) /\ ~Earlier(z, y)
  BY DEF IsNext
<1>3. y[1] = z[1] /\ y[2] = z[2]
  BY <1>1, <1>2 DEF Earlier
<1> QED
  BY <1>1, <1>3

\* What a step of another group leaves as it is.
LEMMA GroupFrame ==
  ASSUME NEW h \in Groups, GroupInv(h), UNCHANGED launch,
         pc'[h] = pc[h], at'[h] = at[h], gflag'[h] = gflag[h],
         verdict'[h] = verdict[h], failedAt'[h] = failedAt[h]
  PROVE  GroupInv(h)'
<1>1. \A t \in Threads : Path(h, t)' = Path(h, t)
  BY DEF Path, Enters, launch
<1>2. GroupClears(h) => GroupClears(h)'
  BY DEF GroupClears
<1>3. GroupSamples(h) => GroupSamples(h)'
  BY DEF GroupSamples
<1>4. ASSUME NEW x, NEW v, GroupRuns(h, x, v)
      PROVE  GroupRuns(h, x, v)'
  BY <1>1, <1>4 DEF GroupRuns
<1> QED
  BY <1>2, <1>3, <1>4 DEF GroupInv

--------------------------------------------------------------------------------

LEMMA InitInv == Init => IInv
<1> SUFFICES ASSUME Init PROVE IInv
  OBVIOUS
<1>1. TypeOK
  <2>1. kernel \in Seq(Regions)
    BY LaunchAssumption DEF Init
  <2>2. Len(kernel) \in Nat
    BY <2>1
  <2> QED
    BY <2>2 DEF Init, TypeOK, Steps, Positions
<1>2. LaunchInv
  BY DEF Init, LaunchInv
<1>3. \A g \in Groups : GroupClears(g)
  BY LaunchAssumption DEF Init, GroupClears
<1>4. StatusInv
  BY LaunchAssumption DEF Init, StatusInv
<1> QED
  BY <1>1, <1>2, <1>3, <1>4 DEF IInv, GroupInv

\* The phase of a group, told by one of its threads.
LEMMA Phases ==
  ASSUME NEW g \in Groups, NEW t \in Threads, GroupInv(g)
  PROVE  /\ pc[g][t] \in {"init", "arrive"} => GroupClears(g)
         /\ pc[g][t] \in {"sample", "hold"} => GroupSamples(g)
         /\ pc[g][t] \in {"test", "access", "check", "record", "rendezvous", "returned"} =>
              \E x \in Places, v \in BOOLEAN : GroupRuns(g, x, v)
<1>1. GroupClears(g) => pc[g][t] \in {"init", "arrive"}
  BY DEF GroupClears
<1>2. GroupSamples(g) => pc[g][t] \in {"sample", "hold"}
  BY DEF GroupSamples
<1>3. ASSUME NEW x \in Places, NEW v \in BOOLEAN, GroupRuns(g, x, v)
      PROVE  pc[g][t] \in {"test", "access", "check", "record", "rendezvous", "returned"}
  BY <1>3 DEF GroupRuns
<1> QED
  BY <1>1, <1>2, <1>3 DEF GroupInv

LEMMA KernelFacts ==
  ASSUME TypeOK
  PROVE  kernel \in Seq(Regions) /\ Len(kernel) \in Nat /\ DOMAIN kernel = 1 .. Len(kernel)
<1>1. kernel \in Seq(Regions)
  BY LaunchAssumption DEF TypeOK
<1> QED
  BY <1>1

\* One thread moves: what holds of the other groups, and of the constants.
LEMMA Types ==
  ASSUME IInv
  PROVE  /\ at \in [Groups -> [Threads -> Places]]
         /\ pc \in [Groups -> [Threads -> Steps]]
         /\ gflag \in [Groups -> BOOLEAN]
         /\ verdict \in [Groups -> [Threads -> BOOLEAN]]
         /\ failedAt \in [Groups -> SUBSET Positions]
  BY DEF IInv, TypeOK, Places

LEMMA ThreadFrame ==
  ASSUME IInv, NEW g \in Groups, NEW t \in Threads, UNCHANGED launch,
         NEW p \in Steps, Goto(g, t, p),
         at' \in [Groups -> [Threads -> Places]],
         \A h \in Groups \ {g} :
           /\ at'[h] = at[h]
           /\ gflag'[h] = gflag[h]
           /\ verdict'[h] = verdict[h]
           /\ failedAt'[h] = failedAt[h]
  PROVE  /\ LaunchInv'
         /\ \A h \in Groups \ {g} : GroupInv(h)'
         /\ pc' \in [Groups -> [Threads -> Steps]]
         /\ pc'[g][t] = p
         /\ \A s \in Threads \ {t} : pc'[g][s] = pc[g][s]
         /\ \A h \in Groups \ {g} : pc'[h] = pc[h]
         /\ \A s \in Threads : Path(g, s)' = Path(g, s)
<1>1. LaunchInv'
  BY DEF IInv, LaunchInv, launch, Admitted
<1>2. pc \in [Groups -> [Threads -> Steps]]
  BY DEF IInv, TypeOK
<1>3. /\ pc' \in [Groups -> [Threads -> Steps]]
      /\ pc'[g][t] = p
      /\ \A s \in Threads \ {t} : pc'[g][s] = pc[g][s]
      /\ \A h \in Groups \ {g} : pc'[h] = pc[h]
  BY <1>2 DEF Goto
<1>4. \A h \in Groups \ {g} : GroupInv(h)'
  BY <1>3, GroupFrame DEF IInv
<1>5. \A s \in Threads : Path(g, s)' = Path(g, s)
  BY DEF Path, Enters, launch
<1> QED
  BY <1>1, <1>3, <1>4, <1>5

LEMMA ClearInv ==
  ASSUME IInv, NEW g \in Groups, NEW t \in Threads, Clear(g, t)
  PROVE  IInv'
<1>1. TypeOK'
  BY DEF IInv, TypeOK, Clear, Goto, Steps, launch
<1>2. UNCHANGED launch /\ Goto(g, t, "arrive") /\ "arrive" \in Steps /\ at' = at
  BY DEF Clear, Steps
<1>3. /\ gflag' \in [Groups -> BOOLEAN]
      /\ \A h \in Groups \ {g} : gflag'[h] = gflag[h]
      /\ t = Leader => ~gflag'[g]
      /\ t # Leader => gflag' = gflag
  BY DEF Clear, IInv, TypeOK
<1>4. /\ LaunchInv'
      /\ \A h \in Groups \ {g} : GroupInv(h)'
      /\ pc'[g][t] = "arrive"
      /\ \A s \in Threads \ {t} : pc'[g][s] = pc[g][s]
      /\ \A h \in Groups \ {g} : pc'[h] = pc[h]
  <2>1. at' \in [Groups -> [Threads -> Places]]
    BY <1>2, Types
  <2>2. \A h \in Groups \ {g} : verdict'[h] = verdict[h] /\ failedAt'[h] = failedAt[h]
    BY DEF Clear
  <2> QED
    BY <1>2, <1>3, <2>1, <2>2, ThreadFrame
<1>5. GroupClears(g)
  BY Phases DEF Clear, At, IInv
<1>6. GroupClears(g)'
  <2>1. \A s \in Threads : pc'[g][s] \in {"init", "arrive"} /\ at'[g][s] = Start
    BY <1>2, <1>4, <1>5 DEF GroupClears
  <2>2. pc'[g][Leader] = "arrive" => ~gflag'[g]
    <3>1. CASE t = Leader
      BY <3>1, <1>3
    <3>2. CASE t # Leader
      BY <3>2, <1>3, <1>4, <1>5, LaunchAssumption DEF GroupClears
    <3> QED
      BY <3>1, <3>2
  <2>3. failedAt'[g] = {}
    BY <1>5 DEF GroupClears, Clear
  <2> QED
    BY <2>1, <2>2, <2>3 DEF GroupClears
<1>7. StatusInv'
  <2>1. \A h \in Groups, s \in Threads :
          pc'[h][s] \in {"check", "record", "returned"} <=> pc[h][s] \in {"check", "record", "returned"}
    BY <1>4, <1>5 DEF GroupClears
  <2> QED
    BY <1>2, <1>4, <2>1 DEF StatusInv, IInv, Clear, Ended, At, launch
<1> QED
  BY <1>1, <1>4, <1>6, <1>7 DEF IInv, GroupInv

LEMMA CheckInv ==
  ASSUME IInv, NEW g \in Groups, NEW t \in Threads, Check(g, t)
  PROVE  IInv'
<1>1. PICK x \in Places, v \in BOOLEAN : GroupRuns(g, x, v)
  BY Phases DEF Check, At, IInv
<1>2. ~v /\ IsNext(Path(g, t), x, at[g][t]) /\ at[g][t] \in Path(g, t) /\ Earlier(x, at[g][t])
  BY <1>1 DEF GroupRuns, Check, At, IsNext
<1>3. at[g][t] \in Positions /\ at[g][t][1] \in DOMAIN kernel
  BY <1>2, PathPlaces DEF IInv
<1>4. UNCHANGED launch /\ at' = at /\ verdict' = verdict
  BY DEF Check
<1>5. PICK p \in {"rendezvous", "record"} :
        /\ Goto(g, t, p)
        /\ \/ p = "rendezvous" /\ gflag' = gflag /\ failedAt' = failedAt
           \/ /\ p = "record"
              /\ gflag' = [gflag EXCEPT ![g] = TRUE]
              /\ failedAt' = [failedAt EXCEPT ![g] = @ \cup {at[g][t]}]
  BY DEF Check
<1>6. /\ gflag' \in [Groups -> BOOLEAN]
      /\ failedAt' \in [Groups -> SUBSET Positions]
      /\ \A h \in Groups \ {g} : gflag'[h] = gflag[h] /\ failedAt'[h] = failedAt[h]
      /\ \/ failedAt'[g] = failedAt[g] /\ gflag'[g] = gflag[g] /\ p = "rendezvous"
         \/ failedAt'[g] = failedAt[g] \cup {at[g][t]} /\ gflag'[g] = TRUE /\ p = "record"
  <2>1. CASE p = "rendezvous"
    BY <2>1, <1>5, Types
  <2>2. CASE p = "record"
    <3>1. /\ gflag' = [gflag EXCEPT ![g] = TRUE]
          /\ failedAt' = [failedAt EXCEPT ![g] = @ \cup {at[g][t]}]
      BY <2>2, <1>5
    <3>2. failedAt[g] \cup {at[g][t]} \in SUBSET Positions
      BY <1>3, Types
    <3>3. gflag' \in [Groups -> BOOLEAN] /\ failedAt' \in [Groups -> SUBSET Positions]
      BY <3>1, <3>2, Types
    <3> QED
      BY <2>2, <3>1, <3>3, Types
  <2> QED
    BY <2>1, <2>2
<1>7. /\ LaunchInv'
      /\ \A h \in Groups \ {g} : GroupInv(h)'
      /\ pc' \in [Groups -> [Threads -> Steps]]
      /\ pc'[g][t] = p
      /\ \A s \in Threads \ {t} : pc'[g][s] = pc[g][s]
      /\ \A h \in Groups \ {g} : pc'[h] = pc[h]
      /\ \A s \in Threads : Path(g, s)' = Path(g, s)
  <2>1. at' \in [Groups -> [Threads -> Places]] /\ p \in Steps
    BY <1>4, Types DEF Steps
  <2> QED
    BY <1>4, <1>5, <1>6, <2>1, ThreadFrame
<1>8. TypeOK'
  BY <1>4, <1>6, <1>7 DEF IInv, TypeOK, Check, launch
<1>9. GroupRuns(g, x, v)'
  <2>1. \A s \in Threads :
       /\ pc'[g][s] \in {"test", "access", "check", "record", "rendezvous", "returned"}
       /\ pc'[g][s] = "test" => at'[g][s] = x /\ verdict'[g][s] = v
       /\ pc'[g][s] = "access" => at'[g][s] = x /\ ~v
       /\ pc'[g][s] \in {"check", "record", "rendezvous"} => ~v /\ IsNext(Path(g, s)', x, at'[g][s])
       /\ pc'[g][s] = "returned" => v \/ ~ \E y \in Path(g, s)' : IsNext(Path(g, s)', x, y)
    BY <1>1, <1>2, <1>4, <1>7 DEF GroupRuns
  <2>2. \A y \in failedAt'[g] : Earlier(x, y)
    BY <1>1, <1>2, <1>6 DEF GroupRuns
  <2>3. ~gflag'[g] => failedAt'[g] = {}
    BY <1>1, <1>2, <1>6 DEF GroupRuns
  <2> QED
    BY <2>1, <2>2, <2>3 DEF GroupRuns
<1>10. StatusInv'
  <2>1. status' = status /\ answer' = answer /\ kernel' = kernel
    BY DEF Check, launch
  <2>2. \A h \in Groups : failedAt[h] \subseteq failedAt'[h]
    BY <1>6
  <2>3. \A h \in Groups, s \in Threads : pc[h][s] = "record" => pc'[h][s] = "record"
    BY <1>7 DEF Check, At
  <2>4. \A h \in Groups : \A y \in failedAt'[h] :
          y[1] <= status \/ \E s \in Threads : pc'[h][s] = "record" /\ at'[h][s] = y
    BY <1>4, <1>6, <1>7, <2>3 DEF IInv, StatusInv
  <2>5. \A h \in Groups : \A s \in Threads : pc'[h][s] = "record" => at'[h][s] \in failedAt'[h]
    BY <1>4, <1>6, <1>7, <2>2 DEF IInv, StatusInv
  <2>6. \A h \in Groups : \A s \in Threads :
          pc'[h][s] \in {"check", "record"} => at'[h][s][1] \in DOMAIN kernel
    BY <1>3, <1>4, <1>7 DEF IInv, StatusInv
  <2>7. answer = None
    BY DEF IInv, StatusInv, Check, Ended, At
  <2> QED
    BY <2>1, <2>2, <2>4, <2>5, <2>6, <2>7 DEF IInv, StatusInv
<1> QED
  BY <1>7, <1>8, <1>9, <1>10 DEF IInv, GroupInv

LEMMA RecordInv ==
  ASSUME IInv, NEW g \in Groups, NEW t \in Threads, Record(g, t)
  PROVE  IInv'
<1>1. PICK x \in Places, v \in BOOLEAN : GroupRuns(g, x, v)
  BY Phases DEF Record, At, IInv
<1>2. at[g][t] \in failedAt[g] /\ at[g][t][1] \in DOMAIN kernel /\ at[g][t][1] \in 1 .. Len(kernel)
  BY KernelFacts DEF IInv, StatusInv, Record, At
<1>3. UNCHANGED launch /\ at' = at /\ verdict' = verdict /\ gflag' = gflag /\ failedAt' = failedAt
      /\ answer' = answer /\ Goto(g, t, "rendezvous")
  BY DEF Record
<1>4. /\ LaunchInv'
      /\ \A h \in Groups \ {g} : GroupInv(h)'
      /\ pc' \in [Groups -> [Threads -> Steps]]
      /\ pc'[g][t] = "rendezvous"
      /\ \A s \in Threads \ {t} : pc'[g][s] = pc[g][s]
      /\ \A h \in Groups \ {g} : pc'[h] = pc[h]
      /\ \A s \in Threads : Path(g, s)' = Path(g, s)
  <2>1. at' \in [Groups -> [Threads -> Places]] /\ "rendezvous" \in Steps
    BY <1>3, Types DEF Steps
  <2> QED
    BY <1>3, <2>1, ThreadFrame
<1>5. /\ status' \in 0 .. Len(kernel) /\ status \in 0 .. Len(kernel)
      /\ status <= status' /\ at[g][t][1] <= status'
      /\ status' = status \/ status' = at[g][t][1]
  BY <1>2, KernelFacts DEF Record, IInv, TypeOK
<1>6. answer = None
  BY DEF IInv, StatusInv, Record, Ended, At
<1>7. TypeOK'
  BY <1>3, <1>4, <1>5 DEF IInv, TypeOK, launch
<1>8. GroupRuns(g, x, v)'
  <2>1. \A s \in Threads :
       /\ pc'[g][s] \in {"test", "access", "check", "record", "rendezvous", "returned"}
       /\ pc'[g][s] = "test" => at'[g][s] = x /\ verdict'[g][s] = v
       /\ pc'[g][s] = "access" => at'[g][s] = x /\ ~v
       /\ pc'[g][s] \in {"check", "record", "rendezvous"} => ~v /\ IsNext(Path(g, s)', x, at'[g][s])
       /\ pc'[g][s] = "returned" => v \/ ~ \E y \in Path(g, s)' : IsNext(Path(g, s)', x, y)
    BY <1>1, <1>3, <1>4 DEF GroupRuns, Record, At
  <2> QED
    BY <1>1, <1>3, <2>1 DEF GroupRuns
<1>9. StatusInv'
  <2>1. \A h \in Groups : \A y \in failedAt'[h] :
          y[1] <= status' \/ \E s \in Threads : pc'[h][s] = "record" /\ at'[h][s] = y
    <3> SUFFICES ASSUME NEW h \in Groups, NEW y \in failedAt[h]
                 PROVE  y[1] <= status' \/ \E s \in Threads : pc'[h][s] = "record" /\ at[h][s] = y
      BY <1>3
    <3>1. y \in Positions
      BY DEF IInv, TypeOK
    <3>2. y[1] \in Nat
      BY <3>1 DEF Positions
    <3>3. CASE y[1] <= status
      BY <3>2, <3>3, <1>5, KernelFacts DEF IInv
    <3>4. CASE \E s \in Threads : pc[h][s] = "record" /\ at[h][s] = y
      <4>1. PICK s \in Threads : pc[h][s] = "record" /\ at[h][s] = y
        BY <3>4
      <4>2. CASE h = g /\ s = t
        BY <4>1, <4>2, <1>5
      <4>3. CASE ~(h = g /\ s = t)
        BY <4>1, <4>3, <1>4
      <4> QED
        BY <4>2, <4>3
    <3> QED
      BY <3>3, <3>4 DEF IInv, StatusInv
  <2>2. status' # 0 => \E h \in Groups : \E y \in failedAt'[h] : y[1] = status'
    BY <1>2, <1>3, <1>5 DEF IInv, StatusInv
  <2>3. \A h \in Groups, s \in Threads : pc'[h][s] \in {"check", "record"} => pc'[h][s] = pc[h][s]
    BY <1>4
  <2>4. kernel' = kernel
    BY <1>3 DEF launch
  <2> QED
    BY <1>3, <1>6, <2>1, <2>2, <2>3, <2>4 DEF IInv, StatusInv
<1> QED
  BY <1>4, <1>7, <1>8, <1>9 DEF IInv, GroupInv

LEMMA SampleInv ==
  ASSUME IInv, NEW g \in Groups, NEW t \in Threads, Sample(g, t)
  PROVE  IInv'
<1>1. GroupSamples(g)
  BY Phases DEF Sample, At, IInv
<1>2. /\ UNCHANGED <<launch, at, gflag, status, answer, failedAt>> /\ Goto(g, t, "hold")
      /\ verdict' = [verdict EXCEPT ![g][t] = gflag[g]]
  BY DEF Sample
<1>3. /\ verdict' \in [Groups -> [Threads -> BOOLEAN]]
      /\ \A h \in Groups \ {g} : verdict'[h] = verdict[h]
      /\ \A s \in Threads \ {t} : verdict'[g][s] = verdict[g][s]
      /\ verdict'[g][t] = gflag[g]
  BY <1>2, Types
<1>4. /\ LaunchInv'
      /\ \A h \in Groups \ {g} : GroupInv(h)'
      /\ pc' \in [Groups -> [Threads -> Steps]]
      /\ pc'[g][t] = "hold"
      /\ \A s \in Threads \ {t} : pc'[g][s] = pc[g][s]
      /\ \A h \in Groups \ {g} : pc'[h] = pc[h]
  <2>1. at' \in [Groups -> [Threads -> Places]] /\ "hold" \in Steps
    BY <1>2, Types DEF Steps
  <2> QED
    BY <1>2, <1>3, <2>1, ThreadFrame
<1>5. TypeOK'
  BY <1>2, <1>3, <1>4 DEF IInv, TypeOK, launch
<1>6. GroupSamples(g)'
  BY <1>1, <1>2, <1>3, <1>4 DEF GroupSamples
<1>7. StatusInv'
  <2>1. \A h \in Groups, s \in Threads :
          pc'[h][s] \in {"check", "record", "returned"} => pc'[h][s] = pc[h][s]
    BY <1>4
  <2>2. \A h \in Groups, s \in Threads : pc[h][s] = "record" => pc'[h][s] = "record"
    BY <1>1, <1>4 DEF GroupSamples
  <2>3. answer = None
    BY DEF IInv, StatusInv, Sample, Ended, At
  <2> QED
    BY <1>2, <2>1, <2>2, <2>3 DEF IInv, StatusInv, launch
<1> QED
  BY <1>4, <1>5, <1>6, <1>7 DEF IInv, GroupInv

LEMMA TestInv ==
  ASSUME IInv, NEW g \in Groups, NEW t \in Threads, Test(g, t)
  PROVE  IInv'
<1>1. PICK x \in Places, v \in BOOLEAN : GroupRuns(g, x, v)
  BY Phases DEF Test, At, IInv
<1>2. PICK p \in {"returned", "access"} : Goto(g, t, p) /\ (p = "returned" <=> verdict[g][t])
  BY DEF Test
<1>3. UNCHANGED <<launch, at, gflag, verdict, status, answer, failedAt>> /\ pc[g][t] = "test"
  BY DEF Test, At
<1>4. at[g][t] = x /\ verdict[g][t] = v
  BY <1>1, <1>3 DEF GroupRuns
<1>5. /\ LaunchInv'
      /\ \A h \in Groups \ {g} : GroupInv(h)'
      /\ pc' \in [Groups -> [Threads -> Steps]]
      /\ pc'[g][t] = p
      /\ \A s \in Threads \ {t} : pc'[g][s] = pc[g][s]
      /\ \A h \in Groups \ {g} : pc'[h] = pc[h]
      /\ \A s \in Threads : Path(g, s)' = Path(g, s)
  <2>1. at' \in [Groups -> [Threads -> Places]] /\ p \in Steps
    BY <1>3, Types DEF Steps
  <2> QED
    BY <1>2, <1>3, <2>1, ThreadFrame
<1>6. TypeOK'
  BY <1>3, <1>5 DEF IInv, TypeOK, launch
<1>7. GroupRuns(g, x, v)'
  <2>1. \A s \in Threads :
       /\ pc'[g][s] \in {"test", "access", "check", "record", "rendezvous", "returned"}
       /\ pc'[g][s] = "test" => at'[g][s] = x /\ verdict'[g][s] = v
       /\ pc'[g][s] = "access" => at'[g][s] = x /\ ~v
       /\ pc'[g][s] \in {"check", "record", "rendezvous"} => ~v /\ IsNext(Path(g, s)', x, at'[g][s])
       /\ pc'[g][s] = "returned" => v \/ ~ \E y \in Path(g, s)' : IsNext(Path(g, s)', x, y)
    BY <1>1, <1>2, <1>3, <1>4, <1>5 DEF GroupRuns
  <2> QED
    BY <1>1, <1>3, <2>1 DEF GroupRuns
<1>8. StatusInv'
  <2>1. \A h \in Groups, s \in Threads :
          pc'[h][s] \in {"check", "record"} => pc'[h][s] = pc[h][s]
    BY <1>5
  <2>2. \A h \in Groups, s \in Threads : pc[h][s] = "record" => pc'[h][s] = "record"
    BY <1>3, <1>5
  <2>3. answer = None
    BY <1>3 DEF IInv, StatusInv, Ended, At
  <2> QED
    BY <1>3, <2>1, <2>2, <2>3 DEF IInv, StatusInv, launch
<1> QED
  BY <1>5, <1>6, <1>7, <1>8 DEF IInv, GroupInv

LEMMA AccessInv ==
  ASSUME IInv, NEW g \in Groups, NEW t \in Threads, Access(g, t)
  PROVE  IInv'
<1>1. PICK x \in Places, v \in BOOLEAN : GroupRuns(g, x, v)
  BY Phases DEF Access, At, IInv
<1>2. UNCHANGED <<launch, gflag, verdict, status, answer, failedAt>> /\ pc[g][t] = "access"
  BY DEF Access, At
<1>3. at[g][t] = x /\ ~v
  BY <1>1, <1>2 DEF GroupRuns
<1>4. PICK p \in {"check", "returned"}, y \in Places :
        /\ Goto(g, t, p)
        /\ at' = [at EXCEPT ![g][t] = y]
        /\ p = "check" => IsNext(Path(g, t), x, y) /\ y[1] \in DOMAIN kernel
        /\ p = "returned" => ~ \E z \in Path(g, t) : IsNext(Path(g, t), x, z)
  <2>1. CASE \E z \in Path(g, t) : IsNext(Path(g, t), x, z)
    <3>1. PICK z \in Path(g, t) :
            IsNext(Path(g, t), x, z) /\ Goto(g, t, "check") /\ at' = [at EXCEPT ![g][t] = z]
      BY <2>1, <1>3 DEF Access, Proceed
    <3>2. z \in Places /\ z[1] \in DOMAIN kernel
      BY PathPlaces DEF IInv, Places
    <3> QED
      BY <3>1, <3>2
  <2>2. CASE ~ \E z \in Path(g, t) : IsNext(Path(g, t), x, z)
    <3>1. Goto(g, t, "returned") /\ at' = at
      BY <2>2, <1>3 DEF Access, Proceed
    <3>2. at = [at EXCEPT ![g][t] = x]
      BY <1>3, Types
    <3> QED
      BY <2>2, <3>1, <3>2
  <2> QED
    BY <2>1, <2>2
<1>5. /\ at' \in [Groups -> [Threads -> Places]]
      /\ at'[g][t] = y
      /\ \A s \in Threads \ {t} : at'[g][s] = at[g][s]
      /\ \A h \in Groups \ {g} : at'[h] = at[h]
  BY <1>4, Types
<1>6. /\ LaunchInv'
      /\ \A h \in Groups \ {g} : GroupInv(h)'
      /\ pc' \in [Groups -> [Threads -> Steps]]
      /\ pc'[g][t] = p
      /\ \A s \in Threads \ {t} : pc'[g][s] = pc[g][s]
      /\ \A h \in Groups \ {g} : pc'[h] = pc[h]
      /\ \A s \in Threads : Path(g, s)' = Path(g, s)
  <2>1. p \in Steps
    BY DEF Steps
  <2> QED
    BY <1>2, <1>4, <1>5, <2>1, ThreadFrame
<1>7. TypeOK'
  BY <1>2, <1>5, <1>6 DEF IInv, TypeOK, launch, Places
<1>8. GroupRuns(g, x, v)'
  <2>1. \A s \in Threads :
       /\ pc'[g][s] \in {"test", "access", "check", "record", "rendezvous", "returned"}
       /\ pc'[g][s] = "test" => at'[g][s] = x /\ verdict'[g][s] = v
       /\ pc'[g][s] = "access" => at'[g][s] = x /\ ~v
       /\ pc'[g][s] \in {"check", "record", "rendezvous"} => ~v /\ IsNext(Path(g, s)', x, at'[g][s])
       /\ pc'[g][s] = "returned" => v \/ ~ \E z \in Path(g, s)' : IsNext(Path(g, s)', x, z)
    BY <1>1, <1>2, <1>3, <1>4, <1>5, <1>6 DEF GroupRuns
  <2> QED
    BY <1>1, <1>2, <2>1 DEF GroupRuns
<1>9. StatusInv'
  <2>1. \A h \in Groups, s \in Threads :
          pc'[h][s] = "record" => pc'[h][s] = pc[h][s] /\ at'[h][s] = at[h][s]
    BY <1>5, <1>6
  <2>2. \A h \in Groups, s \in Threads :
          pc[h][s] = "record" => pc'[h][s] = pc[h][s] /\ at'[h][s] = at[h][s]
    BY <1>2, <1>5, <1>6
  <2>3. \A h \in Groups : \A s \in Threads :
          pc'[h][s] \in {"check", "record"} => at'[h][s][1] \in DOMAIN kernel
    BY <1>4, <1>5, <1>6 DEF IInv, StatusInv
  <2>4. answer = None
    BY <1>2 DEF IInv, StatusInv, Ended, At
  <2> QED
    BY <1>2, <2>1, <2>2, <2>3, <2>4 DEF IInv, StatusInv, launch
<1> QED
  BY <1>6, <1>7, <1>8, <1>9 DEF IInv, GroupInv

LEMMA BarrierInv ==
  ASSUME IInv, NEW g \in Groups, Barrier(g)
  PROVE  IInv'
<1> USE LaunchAssumption
<1>1. /\ UNCHANGED <<launch, at, gflag, verdict, status, answer, failedAt>>
      /\ \A s, t \in Threads : at[g][s] = at[g][t]
  BY DEF Barrier
<1>2. PICK b \in {"arrive", "rendezvous", "hold"} : \A t \in Threads : pc[g][t] = b
  BY DEF Barrier, At
<1>3. PICK p \in {"access", "sample", "test"} :
        /\ b = "arrive" => p = "access"
        /\ b = "rendezvous" => p = "sample"
        /\ b = "hold" => p = "test"
        /\ pc' = [pc EXCEPT ![g] = [t \in Threads |-> p]]
  <2>1. CASE b = "arrive"
    BY <2>1, <1>2 DEF Barrier, At
  <2>2. CASE b = "rendezvous"
    BY <2>2, <1>2 DEF Barrier, At
  <2>3. CASE b = "hold"
    BY <2>3, <1>2 DEF Barrier, At
  <2> QED
    BY <2>1, <2>2, <2>3
<1>4. /\ pc' \in [Groups -> [Threads -> Steps]]
      /\ \A t \in Threads : pc'[g][t] = p
      /\ \A h \in Groups \ {g} : pc'[h] = pc[h]
  BY <1>3, Types DEF Steps
<1>5. TypeOK' /\ LaunchInv'
  BY <1>1, <1>4 DEF IInv, TypeOK, LaunchInv, Admitted, launch
<1>6. \A h \in Groups \ {g} : GroupInv(h)'
  BY <1>1, <1>4, GroupFrame DEF IInv
<1>7. GroupInv(g)'
  <2>1. CASE b = "arrive"
    <3>1. GroupClears(g) /\ p = "access" /\ ~gflag[g]
      BY <2>1, <1>2, <1>3, Phases DEF IInv, GroupClears
    <3>2. GroupRuns(g, Start, FALSE)'
      BY <3>1, <1>1, <1>4 DEF GroupRuns, GroupClears
    <3> QED
      BY <3>2 DEF GroupInv, Places
  <2>2. CASE b = "rendezvous"
    <3>1. PICK x \in Places, v \in BOOLEAN : GroupRuns(g, x, v)
      BY <2>2, <1>2, Phases DEF IInv
    <3>2. ~v /\ (~gflag[g] => failedAt[g] = {})
      BY <3>1, <2>2, <1>2 DEF GroupRuns
    <3>3. GroupSamples(g)'
      BY <3>2, <2>2, <1>1, <1>3, <1>4 DEF GroupSamples
    <3> QED
      BY <3>3 DEF GroupInv
  <2>3. CASE b = "hold"
    <3>1. GroupSamples(g) /\ p = "test"
      BY <2>3, <1>2, <1>3, Phases DEF IInv
    <3>2. /\ gflag[g] \in BOOLEAN
          /\ at[g][Leader] \in Places
          /\ \A t \in Threads : at[g][t] = at[g][Leader] /\ verdict[g][t] = gflag[g]
      BY <3>1, <2>3, <1>1, <1>2, Types DEF GroupSamples
    <3>3. GroupRuns(g, at[g][Leader], gflag[g])'
      BY <3>1, <3>2, <1>1, <1>4 DEF GroupRuns, GroupSamples
    <3> QED
      BY <3>2, <3>3, <1>1 DEF GroupInv
  <2> QED
    BY <2>1, <2>2, <2>3
<1>8. StatusInv'
  <2>1. \A h \in Groups, t \in Threads :
          pc'[h][t] \in {"check", "record"} <=> pc[h][t] \in {"check", "record"}
    BY <1>2, <1>4
  <2>2. \A h \in Groups, t \in Threads : pc'[h][t] = "record" <=> pc[h][t] = "record"
    BY <1>2, <1>4
  <2>3. answer = None
    BY <1>2 DEF IInv, StatusInv, Ended, At
  <2> QED
    BY <1>1, <2>1, <2>2, <2>3 DEF IInv, StatusInv, launch
<1> QED
  BY <1>5, <1>6, <1>7, <1>8 DEF IInv

LEMMA ReadStatusInv ==
  ASSUME IInv, ReadStatus
  PROVE  IInv'
<1>1. UNCHANGED <<launch, at, pc, gflag, verdict, status, failedAt>> /\ Ended /\ answer' = status
  BY DEF ReadStatus
<1>2. TypeOK' /\ LaunchInv'
  BY <1>1 DEF IInv, TypeOK, LaunchInv, Admitted, launch
<1>3. \A g \in Groups : GroupInv(g)'
  BY <1>1, GroupFrame DEF IInv
<1>4. StatusInv'
  BY <1>1 DEF IInv, StatusInv, Ended, At, launch
<1> QED
  BY <1>2, <1>3, <1>4 DEF IInv

\* IInv is an invariant of every launch.
THEOREM Invariance == Spec => []IInv
<1>1. Init => IInv
  BY InitInv
<1>2. IInv /\ [Next]_vars => IInv'
  <2> SUFFICES ASSUME IInv, [Next]_vars PROVE IInv'
    OBVIOUS
  <2>1. ASSUME NEW g \in Groups, Barrier(g) PROVE IInv'
    BY <2>1, BarrierInv
  <2>2. ASSUME NEW g \in Groups, NEW t \in Threads, Step(g, t) PROVE IInv'
    BY <2>2, ClearInv, CheckInv, RecordInv, SampleInv, TestInv, AccessInv DEF Step
  <2>3. CASE ReadStatus
    BY <2>3, ReadStatusInv
  <2>4. CASE UNCHANGED vars
    <3>1. UNCHANGED <<launch, at, pc, gflag, verdict, status, failedAt, answer>>
      BY <2>4 DEF vars
    <3>2. TypeOK' /\ LaunchInv'
      BY <3>1 DEF IInv, TypeOK, LaunchInv, Admitted, launch
    <3>3. \A g \in Groups : GroupInv(g)'
      BY <3>1, GroupFrame DEF IInv
    <3>4. StatusInv'
      BY <3>1 DEF IInv, StatusInv, Ended, At, launch
    <3> QED
      BY <3>2, <3>3, <3>4 DEF IInv
  <2> QED
    BY <2>1, <2>2, <2>3, <2>4 DEF Next
<1> QED
  BY <1>1, <1>2, PTL DEF Spec

\* Every variable of a checked kernel keeps its type: in particular a thread is
\* always at one of the steps that emit writes for its next check.
THEOREM TypeCorrect == Spec => []TypeOK
<1>1. IInv => TypeOK
  BY DEF IInv
<1>2. QED
  BY <1>1, Invariance, PTL

\* However fast or slow its threads are, no thread of a threadgroup returns while
\* another one waits at a barrier (the rendezvous that emit writes).
THEOREM NoThreadIsLeftBehind == Spec => []NoDivergence
<1>1. IInv => NoDivergence
  <2> SUFFICES ASSUME IInv, NEW g \in Groups, NEW s \in Threads, NEW t \in Threads,
                      pc[g][s] = "returned"
               PROVE  pc[g][t] \in {"test", "access", "returned"}
    BY DEF NoDivergence, At
  <2>1. PICK x \in Places, v \in BOOLEAN : GroupRuns(g, x, v)
    BY Phases DEF IInv
  <2>2. Path(g, s) = Path(g, t)
    BY SamePath DEF IInv
  <2>3. pc[g][t] \in {"check", "record", "rendezvous"} =>
          ~v /\ IsNext(Path(g, t), x, at[g][t]) /\ at[g][t] \in Path(g, t)
    BY <2>1 DEF GroupRuns, IsNext
  <2>4. pc[g][t] \notin {"check", "record", "rendezvous"}
    BY <2>1, <2>2, <2>3 DEF GroupRuns
  <2> QED
    BY <2>1, <2>4 DEF GroupRuns
<1> QED
  BY <1>1, Invariance, PTL

\* No access that a failed check guards runs in the threadgroup that failed it.
THEOREM FailureStopsTheGroup == Spec => []NoGuardedAccess
<1>1. IInv => NoGuardedAccess
  <2> SUFFICES ASSUME IInv, NEW g \in Groups, NEW t \in Threads, NEW y \in failedAt[g],
                      pc[g][t] = "access"
               PROVE  Earlier(at[g][t], y)
    BY DEF NoGuardedAccess, At
  <2>1. PICK x \in Places, v \in BOOLEAN : GroupRuns(g, x, v)
    BY Phases DEF IInv
  <2> QED
    BY <2>1 DEF GroupRuns
<1> QED
  BY <1>1, Invariance, PTL

\* The host learns of a failure if and only if there was one, and of the failing
\* check that comes last in the source (check_failure).
THEOREM LastFailureIsReported == Spec => []ReportsLastFailure
<1>1. IInv => ReportsLastFailure
  BY DEF IInv, StatusInv, ReportsLastFailure, Ended, At
<1> QED
  BY <1>1, Invariance, PTL
================================================================================

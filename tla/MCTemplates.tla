----------------------------- MODULE MCTemplates -----------------------------
(***************************************************************************)
(* Every template on the machine, over the instances their reference       *)
(* modules name, but for those that a named fault keeps out or strips of   *)
(* its promise.  TLC evaluates the tables once.                            *)
(***************************************************************************)
EXTENDS TemplateReference, AttentionReference, GraphReference

Elsewhere(k) == k.name \in SamplingNames \cup DecodeNames
ArraysOf(k) ==
  CASE k.name \in RowNames -> RowArrays(k)
    [] k.name \in ReduceNames -> ReduceArrays(k)
    [] k.name \in ControlNames -> ControlArrays(k)
    [] k.name \in LayoutNames -> LayoutArrays(k)
    [] k.name \in NormNames -> NormArrays(k)
    [] k.name \in SortNames -> SortArrays(k)
    [] k.name \in DotNames -> DotArrays(k)
    [] k.name \in ElementNames -> ElementArrays(k)
    [] k.name \in MatmulNames -> MatmulArrays(k)
    [] k.name \in FlashNames -> FlashArrays(k)
    [] k.name \in TiledNames -> TiledArrays(k)
    [] k.name \in BackwardNames -> BackwardArrays(k)
    [] k.name \in QuantNames -> QuantArrays(k)
    [] k.name \in KdaNames -> KdaArrays(k)
    [] Elsewhere(k) -> SamplingArrays(k)
CodeOf(k, g, t) ==
  CASE k.name \in RowNames -> RowCode(k, g)
    [] k.name \in ReduceNames -> ReduceCode(k)
    [] k.name \in ControlNames -> ControlCode(k, t)
    [] k.name \in LayoutNames -> LayoutCode(k)
    [] k.name \in NormNames -> NormCode(k)
    [] k.name \in SortNames -> SortCode
    [] k.name \in DotNames -> DotCodeOf(k, g)
    [] k.name \in ElementNames -> ElementCode(k)
    [] k.name \in MatmulNames -> MatmulCode(k, g, t)
    [] k.name \in FlashNames -> FlashCodeOf(k, g)
    [] k.name \in TiledNames -> TiledProgram(k, g)
    [] k.name \in BackwardNames -> BackwardCode(k)
    [] k.name \in QuantNames -> QuantCode(k, g, t)
    [] k.name \in KdaNames -> KdaProgram(k, g)
    [] Elsewhere(k) -> SamplingCode(k, g)
MCEffect(k, g, i, t, v) ==
  LET name == k.name IN
  CASE name \in RowNames -> RowEffect(k, g, i, t, v)
    [] name \in ReduceNames -> ReduceEffectOf(k, i, t, v)
    [] name \in ControlNames -> ControlEffectOf(k, g, i, t, v)
    [] name \in LayoutNames -> LayoutEffect(k, g, i, t, v)
    [] name \in NormNames -> NormEffect(k, g, i, t, v)
    [] name \in SortNames -> SortEffect(k, t, v)
    [] name \in DotNames -> DotEffectOf(k, g, i, t, v)
    [] name \in ElementNames -> ElementEffect(k, g, i, t, v)
    [] name \in MatmulNames -> MatmulEffect(k, g, i, t, v)
    [] name \in FlashNames -> FlashEffect(k, g, i, t, v)
    [] name \in TiledNames -> TiledEffect(k, g, i, t, v)
    [] name \in BackwardNames -> BackwardEffect(k, g, i, t, v)
    [] name \in QuantNames -> QuantEffect(k, g, i, t, v)
    [] name \in KdaNames -> KdaEffect(k, g, i, t, v)
    [] Elsewhere(k) -> SamplingEffect(k, g, i, t, v)
PromiseOf(k) ==
  CASE k.name \in RowNames -> RowWant(k)
    [] k.name \in ReduceNames -> ReduceWant(k)
    [] k.name \in ControlNames -> ControlWant(k)
    [] k.name \in LayoutNames -> LayoutWant(k)
    [] k.name \in NormNames -> NormWant(k)
    [] k.name \in SortNames -> SortWant(k)
    [] k.name \in DotNames -> DotWant(k)
    [] k.name \in ElementNames -> ElementWant(k)
    [] k.name \in MatmulNames -> MatmulWant(k)
    [] k.name \in FlashNames -> FlashWant(k)
    [] k.name \in TiledNames -> TiledWant(k)
    [] k.name \in BackwardNames -> BackwardWant(k)
    [] k.name \in QuantNames -> QuantWant(k)
    [] k.name \in KdaNames -> KdaWant(k)
    [] k.name \in SamplingNames -> SamplingWant(k)
    [] k.name \in DecodeNames -> DecodeWant(k)
\* what the code refuses at generation time, or its documentation forbids, never runs
Admitted(k) ==
  CASE k.name = "elementwise" -> ElementAdmits(k)
    [] k.name \in (ElementNames \cup KdaNames) \cup {"online_softmax", "cumsum"} -> TRUE
    [] k.name \in RowNames -> ReduceAdmits(k)
    [] k.name \in ReduceNames -> ReduceAdmitted(k)
    [] k.name \in ControlNames -> ControlAdmitted(k)
    [] k.name \in LayoutNames -> LayoutAdmitted(k)
    [] k.name \in NormNames -> NormAdmitted(k)
    [] k.name \in SortNames -> SortAdmitted(k)
    [] k.name \in DotNames -> DotAdmitted(k)
    [] k.name \in MatmulNames -> MatmulAdmitted(k)
    [] k.name \in FlashNames -> FlashAdmitted(k)
    [] k.name \in TiledNames -> TiledAdmitted(k)
    [] k.name \in BackwardNames -> BackwardAdmitted(k)
    [] k.name \in QuantNames -> QuantAdmitted(k)
    [] Elsewhere(k) -> SamplingAdmitted(k)
(***************************************************************************)
(* Known faults: shapes that the code accepts and no document forbids, and *)
(* that it gets wrong (lines of codegen/_msl_templates.py).                *)
(***************************************************************************)
\* With these only the result is wrong.  They run, and stay inside their arrays and
\* together at their barriers, but only some cells of their outputs are promised.
Faulty(k) ==
  \* no barrier between the reads of the mean (1254) and the next sums (1265)
  \/ k.name = "variance" /\ SimdCount(k) > 1
  \* nor between the store of a block of C and the bias added to it (7809)
  \/ k.name = "fused_linear" /\ k.bias /\ k.blocks > 1
  \* the size is n_channels * spatial_size (1326), against the N * C * HW of the docstring (1291)
  \/ k.name = "batch_norm" /\ k.batch > 1
  \* the picks are read from device memory (6818) after a barrier over threadgroup memory (6856)
  \/ k.name = "beam_search" /\ k.k > 1 /\ k.threads > 1
  \* a tree over a block that is no power of two leaves threads out (6491, 6560, 6613, 6737, 6837)
  \/ k.name \in {"top_k", "top_p", "speculative", "beam_search"} /\ ~Power2(k.threads)
  \* more candidates are picked than there are (6466)
  \/ k.name = "top_k" /\ Bottom(k.K, k.k) > k.n
\* the cells that are right all the same: the first batch; the first pick
Kept(k) ==
  CASE k.name = "batch_norm" -> 0..((k.channels * k.spatial) - 1)
    [] k.name = "beam_search" /\ Power2(k.threads) -> {0}
    [] OTHER -> {}
WantOf(k) ==
  IF ~Faulty(k) THEN PromiseOf(k)
  ELSE IF Kept(k) = {} THEN Nothing
  ELSE LET promise == PromiseOf(k) IN [a \in DOMAIN promise |-> [x \in Kept(k) |-> promise[a][x]]]
\* These write beyond an array, or part at a barrier and never end; they do not run.
Excluded(k) ==
  \* every lane of the first SIMD group clears a slot, and there is one for each SIMD group (4801)
  \/ k.name \in DecodeNames /\ SimdCount(k) < k.simd
  \* a gate of zero raises the flag (8583) that slower threads have still to read (8578), against
  \* the comment that each branch on it follows a barrier (8577)
  \/ k.name = "kda" /\ k.zeroat # {} /\ k.threads > 1
Instances ==
  SelectSeq(RowInstances \o ElementInstances \o MatmulInstances \o FlashInstances \o TiledInstances \o BackwardInstances
            \o SamplingInstances \o QuantInstances \o KdaInstances \o ReduceInstances
            \o ControlInstances \o LayoutInstances \o NormInstances \o SortInstances \o DotInstances,
            LAMBDA k : Admitted(k) /\ ~Excluded(k))
\* the last one: two carried values that change places
Listed == Instances \o <<For([carries |-> SwappedScalars])>>
\* each kernel with its memories, the code of its threads and its results
PreparedOf(k) ==
  [kernel |-> k, arrays |-> ArraysOf(k), want |-> WantOf(k),
   code |-> Table([g \in 0..(k.groups - 1) |-> Table([t \in Threads(k) |-> CodeOf(k, g, t)])])]
Numbered == LET all == Listed IN Table([n \in DOMAIN all |-> [id |-> n] @@ all[n]])
Prepared == LET all == Numbered IN Table([n \in DOMAIN all |-> PreparedOf(all[n])])
MCWants(k) == LET this == Prepared[k.id] IN this.want
MCArrays(k) == LET this == Prepared[k.id] IN this.arrays
MCCode(k, g, t) == LET this == Prepared[k.id] IN this.code[g][t]
MCKernels == LET all == Prepared IN {all[n].kernel : n \in 1..(Len(all) - 1)}
MCSwapped == LET all == Prepared IN {all[Len(all)].kernel}
\* all but the gated delta rule, whose replay branches across barriers
ASSUME \A k \in MCKernels : Orderly(k) \/ k.name = "kda"
\* the instances of the templates proved right for every size and data are such
ASSUME \A k \in MCKernels : k.name \in PerCellNames /\ ~Faulty(k) => PerCell(k)
ASSUME \A k \in MCKernels : k.name = "transpose" => Tiled(k)
==============================================================================

-------------------------------- MODULE MCLaunch --------------------------------
(***************************************************************************)
(* Instances of Launch for TLC.  The handles are the kinds that the        *)
(* compiler emits, each with the routes that its descriptors open.         *)
(***************************************************************************)
EXTENDS Launch, TLC

CONSTANTS matmul, grouped, mla, packed, checked

NoRoute == [r \in ZeroCopy |-> {}]

MCShaders == {"msl", "template", "tile", "splitk", "fastquant", "scalar", "concat"}

MCCarries ==
  [k \in Kernels |->
    CASE k = matmul  -> [NoRoute EXCEPT !["generic"] = {"msl"},
                           !["fast"] = {"template", "tile"}, !["splitK"] = {"splitk"}]
      [] k = grouped -> [NoRoute EXCEPT !["generic"] = {"msl"},
                           !["quantFast"] = {"fastquant"}, !["quant"] = {"scalar"}]
      [] k = mla     -> [NoRoute EXCEPT !["generic"] = {"msl"}, !["attention"] = {"concat"}]
      [] OTHER       -> [NoRoute EXCEPT !["generic"] = {"msl"}]]

MCBase == [k \in Kernels |-> IF k = matmul THEN "template" ELSE None]

\* The scalar per-group kernel is the one route that never marks its shader.
MCMarks == [k \in Kernels |-> ZeroCopy \ {"quant"}]

Symmetry == Permutations(Callers)
================================================================================

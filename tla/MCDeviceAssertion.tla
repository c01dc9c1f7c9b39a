--------------------------- MODULE MCDeviceAssertion ---------------------------
(***************************************************************************)
(* Instances of DeviceAssertion for TLC.  The kernels have one or two      *)
(* checks, under a branch or in a loop, some of them lane-dependent.       *)
(***************************************************************************)
EXTENDS DeviceAssertion

CONSTANTS arg, lane

If(l) == [kind |-> "if", depends |-> {l}]
For(l) == [kind |-> "for", depends |-> {l}]

MCKernels ==
  {<<If(arg)>>, <<For(arg)>>, <<If(lane)>>, <<For(lane)>>,
   <<If(arg), If(arg)>>, <<For(arg), If(arg)>>, <<If(arg), If(lane)>>, <<For(lane), If(arg)>>}
================================================================================

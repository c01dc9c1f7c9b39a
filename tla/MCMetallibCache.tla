---------------------------- MODULE MCMetallibCache ----------------------------
(***************************************************************************)
(* Instances of MetallibCache for TLC.  Crashes, damage to the directory and *)
(* changes of contract share the bound MaxNoise; calls are unbounded, and  *)
(* so is the number of products written.                                   *)
(***************************************************************************)
EXTENDS MetallibCache, TLC
================================================================================

----------------------------- MODULE MCRunWatch -----------------------------
(***************************************************************************)
(* A run, the watch of the request that dispatched it, a request that      *)
(* resumes it with a watch of its own, and ticks of the sweep.             *)
(***************************************************************************)
EXTENDS RunWatch, TLC

CONSTANTS d, f1, s1
=============================================================================

----------------------------- MODULE MCDecisions ----------------------------
(***************************************************************************)
(* Five requests: a question raised, answered, contradicted and withdrawn, *)
(* applied or expired, in any order.                                       *)
(***************************************************************************)
EXTENDS Decisions, TLC

CONSTANTS r1, r2, r3, r4, r5

Symmetry == Permutations(Requests)
=============================================================================

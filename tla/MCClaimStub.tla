----------------------------- MODULE MCClaimStub ----------------------------
(***************************************************************************)
(* Two identities and one invite of an address, two calls at once.         *)
(***************************************************************************)
EXTENDS ClaimStub, TLC

CONSTANTS c1, c2, d1, d2, i1

Symmetry == Permutations(Calls) \cup Permutations(Dids)
=============================================================================

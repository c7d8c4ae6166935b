------------------------------ MODULE MCVault ------------------------------
(***************************************************************************)
(* TLC instances of Vault: a field that is sealed twice, for the node or   *)
(* for a connector's app.                                                  *)
(***************************************************************************)
EXTENDS Vault, TLC

CONSTANTS s1, s2, a1, a2, r1, node, owner, app

MCSeals    == {s1, s2}
MCAnswers  == {a1, a2}
MCErasers  == {r1}
MCPairs    == {<<node, node>>, <<owner, app>>, <<node, app>>}
MCSymmetry == Permutations(MCSeals) \cup Permutations(MCAnswers)
=============================================================================

----------------------------- MODULE MCWithdraw -----------------------------
(***************************************************************************)
(* TLC instances of Withdraw: two withdrawals of one DID that its balance  *)
(* covers one at a time, so that the second succeeds only after the first  *)
(* is released.                                                            *)
(***************************************************************************)
EXTENDS Withdraw, TLC

CONSTANTS w1, w2, alice

MCIntents == {w1, w2}
MCOne     == {w1}
MCOneOwner == [i \in MCOne |-> alice]
MCOneAmount == [i \in MCOne |-> 2]
MCDids    == {alice}
MCOwner   == [i \in MCIntents |-> alice]
MCAmount  == [i \in MCIntents |-> 2]
MCBalance == [d \in MCDids |-> 3]

\* The two withdrawals are interchangeable.
MCSymmetry == Permutations(MCIntents)

\* Every failure; every failure but those of the sweep itself, of a rail error
\* that hides a transfer, and of a confirmation after the rail has paid.
AllFaults     == FaultKinds
OutsideFaults == FaultKinds \ {"ambiguous", "confirm_fails", "publish_fails", "sweep_fails"}
=============================================================================

----------------------------- MODULE MCCheckout -----------------------------
(***************************************************************************)
(* TLC instances of Checkout: a top-up, and a sale with a seller and a fee *)
(* beneficiary whose processing fee differed from the estimate: two units  *)
(* paid, one refund that names one of them and one that names no amount,   *)
(* and one settlement entry.                                               *)
(***************************************************************************)
EXTENDS Checkout, TLC

CONSTANTS d1, d2, r1, r2, host

MCDeliveries  == {d1, d2}
MCRefunds     == {r1, r2}
MCSettlements == {host}
MCPartAndRest == [r \in MCRefunds |-> IF r = r1 THEN 1 ELSE 0]
MCChain       == <<[seller |-> TRUE, amount |-> 1], [seller |-> FALSE, amount |-> 1]>>
MCNoChain     == <<>>
MCNone        == {}
MCNoAmount    == [r \in MCNone |-> 1]

=============================================================================

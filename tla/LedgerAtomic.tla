---------------------------- MODULE LedgerAtomic ----------------------------
(***************************************************************************)
(* What the ledger promises of pay.balances: a transaction takes effect    *)
(* all at once and only on balances that cover it, or is refused because   *)
(* some balance did not cover it, or fails without a trace.                *)
(***************************************************************************)
EXTENDS Integers, Sequences

CONSTANTS Rows,           \* rows of pay.balances
          Txns,           \* transactions
          Program,        \* [Txns -> Seq of statements]
          After,          \* the transaction of the same request before it, or NoTxn
          Effect,         \* Effect[t][n][row]: what the first n statements of t add to row
          NoTxn,
          InitialBalance  \* [Rows -> Nat]

VARIABLES balance, outcome

Guarding(s) == s.op \in {"guarded", "check"}

\* The k-th statement of t finds enough on its row.
CoveredAt(t, k) ==
    LET s == Program[t][k]
    IN  Guarding(s) => balance[s.row] + Effect[t][k - 1][s.row] >= s.amount

Init ==
    /\ balance = InitialBalance
    /\ outcome = [t \in Txns |-> "waiting"]

Ready(t) ==
    /\ outcome[t] = "waiting"
    /\ After[t] = NoTxn \/ (After[t] \in Txns /\ outcome[After[t]] = "committed")

Apply(t) ==
    /\ Ready(t)
    /\ \A k \in 1..Len(Program[t]) : CoveredAt(t, k)
    /\ balance' = [row \in Rows |-> balance[row] + Effect[t][Len(Program[t])][row]]
    /\ outcome' = [outcome EXCEPT ![t] = "committed"]

Refuse(t) ==
    /\ Ready(t)
    /\ \E k \in 1..Len(Program[t]) : ~CoveredAt(t, k)
    /\ outcome' = [outcome EXCEPT ![t] = "refused"]
    /\ UNCHANGED balance

Fail(t) ==
    /\ Ready(t)
    /\ outcome' = [outcome EXCEPT ![t] = "failed"]
    /\ UNCHANGED balance

Next == \E t \in Txns : Apply(t) \/ Refuse(t) \/ Fail(t)

Spec == Init /\ [][Next]_<<balance, outcome>>
=============================================================================

------------------------------- MODULE Ledger -------------------------------
(***************************************************************************)
(* The balance ledger of the pay service at the grain of the database:     *)
(* requests run their statements one at a time over pay.balances, under    *)
(* READ COMMITTED, and hold a row's lock from the statement that writes it *)
(* to the end of the transaction (src/lib/pay/ledger.ts and the routes     *)
(* that use it; the statements of each route are in LedgerRoutes).         *)
(*                                                                         *)
(* A statement that waits for a lock goes on with the row's newest version *)
(* once it is released; one whose WHERE clause does not match the          *)
(* committed version ends without waiting.  A cycle of transactions that   *)
(* wait for each other is broken by aborting one of them.                  *)
(*                                                                         *)
(* Before some definitions stands a deliberately wrong variant, used       *)
(* nowhere in the modules; README.md, `Mutants', lists them.               *)
(***************************************************************************)
EXTENDS Integers, Sequences, FiniteSets, FiniteSetsExt, Functions

CONSTANTS Rows,           \* the rows of pay.balances, each a <<did, unit>>
          Txns,           \* database transactions, one or two to a request
          NoTxn,          \* not a transaction
          Program,        \* [Txns -> Seq of statements], from LedgerRoutes
          After,          \* the transaction of the same request before it, or NoTxn
          Mint,           \* Mint[t][unit]: what t brings into the ledger, or takes out
          Effect,         \* Effect[t][n][row]: what the first n statements of t add to row
          InitialBalance, \* [Rows -> Nat]
          Faults          \* subset of {"crash"}

Units == {"MJN", "MJNx"}
Ops   == {"guarded", "debit", "credit", "check"}
Statements == [op : Ops, row : Rows, amount : Nat]

ASSUME LedgerAssumption ==
    /\ NoTxn \notin Txns
    /\ Program \in [Txns -> Seq(Statements)]
    /\ \A t \in Txns : \A n \in 1..Len(Program[t]) :
         Program[t][n].op = "check" => Len(Program[t]) = 1
    /\ After \in [Txns -> Txns \cup {NoTxn}]
    /\ Mint \in [Txns -> [Units -> Int]]
    /\ InitialBalance \in [Rows -> Nat]
    /\ Faults \subseteq {"crash"}

\* What a statement adds to its row when it takes effect.
Change(s) ==
    CASE s.op \in {"guarded", "debit"} -> -s.amount
      [] s.op = "credit" -> s.amount
      [] OTHER -> 0

\* Effect is the running sum of a program's changes, row by row.
ASSUME EffectAssumption ==
    \A t \in Txns :
        /\ Effect[t] \in [0..Len(Program[t]) -> [Rows -> Int]]
        /\ Effect[t][0] = [row \in Rows |-> 0]
        /\ \A n \in 1..Len(Program[t]) :
             Effect[t][n] = [Effect[t][n - 1] EXCEPT
                                ![Program[t][n].row] = @ + Change(Program[t][n])]

VARIABLES
    balance,  \* the committed version of each row
    working,  \* the newest version, committed or not
    holder,   \* the transaction that has the row locked, or NoTxn
    phase,    \* of each transaction
    done      \* the number of statements it has run

vars == <<balance, working, holder, phase, done>>

Phases == {"idle", "open", "committed", "refused", "failed"}

TypeOK ==
    /\ balance \in [Rows -> Int]
    /\ working \in [Rows -> Int]
    /\ holder \in [Rows -> Txns \cup {NoTxn}]
    /\ phase \in [Txns -> Phases]
    /\ done \in [Txns -> Nat]
    /\ \A t \in Txns : done[t] <= Len(Program[t])

Init ==
    /\ balance = InitialBalance
    /\ working = InitialBalance
    /\ holder = [row \in Rows |-> NoTxn]
    /\ phase = [t \in Txns |-> "idle"]
    /\ done = [t \in Txns |-> 0]

-----------------------------------------------------------------------------
\* The statement t runs next.
Pending(t) == phase[t] = "open" /\ done[t] < Len(Program[t])
Current(t) == Program[t][done[t] + 1]

\* The version of the row that a statement of t sees before any wait: its own,
\* or the committed one.
Visible(t, row) == IF holder[row] = t THEN working[row] ELSE balance[row]

\* The WHERE clause of the guarded debit, and the comparison of a check.
GuardIgnored(t) == TRUE
Guard(t) ==
    Current(t).op \in {"guarded", "check"}
        => Visible(t, Current(t).row) >= Current(t).amount

Free(t, row) == holder[row] \in {NoTxn, t}

\* t's statement matched, and waits for the transaction that has the row.
Waits(t) == Pending(t) /\ Guard(t) /\ Current(t).op # "check" /\ ~Free(t, Current(t).row)
WaitsFor(t) == holder[Current(t).row]

\* t is one of a ring of transactions each waiting for another of them.
Deadlocked(t) ==
    \E ring \in SUBSET {u \in Txns : Waits(u)} :
        t \in ring /\ {WaitsFor(u) : u \in ring} = ring

-----------------------------------------------------------------------------
\* The request gets to this transaction.
Ready(t) ==
    /\ phase[t] = "idle"
    /\ After[t] = NoTxn \/ (After[t] \in Txns /\ phase[After[t]] = "committed")

Begin(t) ==
    /\ Ready(t)
    /\ phase' = [phase EXCEPT ![t] = "open"]
    /\ UNCHANGED <<balance, working, holder, done>>

\* A balance that is read outside any transaction and found sufficient.
ChecksOnAfter(t) ==
    /\ Pending(t) /\ Current(t).op = "check"
    /\ Guard(t)
    /\ done' = [done EXCEPT ![t] = @ + 2]
    /\ phase' = [phase EXCEPT ![t] = "committed"]
    /\ UNCHANGED <<balance, working, holder>>

RunCheck(t) ==
    /\ Pending(t) /\ Current(t).op = "check"
    /\ Guard(t)
    /\ done' = [done EXCEPT ![t] = @ + 1]
    /\ phase' = [phase EXCEPT ![t] = "committed"]
    /\ UNCHANGED <<balance, working, holder>>

\* A statement that writes, once the row is free.
Write(t) ==
    /\ Pending(t) /\ Current(t).op # "check"
    /\ Guard(t) /\ Free(t, Current(t).row)
    /\ working' = [working EXCEPT ![Current(t).row] = @ + Change(Current(t))]
    /\ holder' = [holder EXCEPT ![Current(t).row] = t]
    /\ done' = [done EXCEPT ![t] = @ + 1]
    /\ UNCHANGED <<balance, phase>>

Commit(t) ==
    /\ phase[t] = "open" /\ done[t] = Len(Program[t])
    /\ phase' = [phase EXCEPT ![t] = "committed"]
    /\ balance' = [row \in Rows |-> IF holder[row] = t THEN working[row] ELSE balance[row]]
    /\ holder' = [row \in Rows |-> IF holder[row] = t THEN NoTxn ELSE holder[row]]
    /\ UNCHANGED <<working, done>>

\* What t wrote is undone and its locks are released.
Rollback(t, outcome) ==
    /\ phase' = [phase EXCEPT ![t] = outcome]
    /\ working' = [row \in Rows |-> IF holder[row] = t THEN balance[row] ELSE working[row]]
    /\ holder' = [row \in Rows |-> IF holder[row] = t THEN NoTxn ELSE holder[row]]
    /\ UNCHANGED <<balance, done>>

\* No row matched: InsufficientBalanceError, the transaction rolls back.
RefuseWithoutRollback(t) ==
    /\ Pending(t) /\ ~Guard(t)
    /\ phase' = [phase EXCEPT ![t] = "refused"]
    /\ balance' = [row \in Rows |-> IF holder[row] = t THEN working[row] ELSE balance[row]]
    /\ holder' = [row \in Rows |-> IF holder[row] = t THEN NoTxn ELSE holder[row]]
    /\ UNCHANGED <<working, done>>

KeepTrying(t) ==
    /\ Pending(t) /\ ~Guard(t)
    /\ UNCHANGED vars

Refuse(t) ==
    /\ Pending(t) /\ ~Guard(t)
    /\ Rollback(t, "refused")

\* The database aborts a transaction of a ring of waiting ones.
Abort(t) ==
    /\ Deadlocked(t)
    /\ Rollback(t, "failed")

\* The process dies, inside the transaction or before it.
Crash(t) ==
    /\ "crash" \in Faults
    /\ Ready(t) \/ phase[t] = "open"
    /\ Rollback(t, "failed")

Step(t) == Begin(t) \/ RunCheck(t) \/ Write(t) \/ Commit(t) \/ Refuse(t) \/ Abort(t)

Next == \E t \in Txns : Step(t) \/ Crash(t)

Spec == Init /\ [][Next]_vars

\* The server goes on with every request it has started; the database checks
\* for deadlocks whenever a transaction has waited for its deadlock timeout.
FairSpec == Spec /\ \A t \in Txns : WF_vars(Step(t))

-----------------------------------------------------------------------------
(* Properties.                                                             *)

\* No committed balance is below zero, whatever the transactions that move it
\* at the same time (ledger.ts:166).
NonNegative == \A row \in Rows : balance[row] >= 0

\* Every transaction's rows change together or not at all, on balances that
\* cover it when they change: the statement-by-statement ledger implements the
\* atomic one.
Outcome == [t \in Txns |-> IF phase[t] \in {"idle", "open"} THEN "waiting" ELSE phase[t]]
Atomic == INSTANCE LedgerAtomic WITH outcome <- Outcome
AtomicSpec == Atomic!Spec

\* Every transaction that starts ends, although transfers in opposite
\* directions lock their two rows in opposite orders.
EveryTransactionEnds == \A t \in Txns : phase[t] = "open" ~> phase[t] # "open"

\* The units of one kind in all balances together are those there were, plus
\* what committed receipts and emissions brought in, less what withdrawals took
\* out: transfers, gifts and settlements neither mint nor burn, and no unit
\* turns into the other (ledger.ts:8).
InUnit(unit) == {row \in Rows : row[2] = unit}
UnitsAreConserved ==
    \A unit \in Units :
        SumFunctionOnSet(balance, InUnit(unit)) =
            SumFunctionOnSet(InitialBalance, InUnit(unit))
            + SumFunctionOnSet([t \in Txns |-> Mint[t][unit]],
                               {t \in Txns : phase[t] = "committed"})

=============================================================================

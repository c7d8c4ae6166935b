---------------------------- MODULE LedgerProofs ----------------------------
(***************************************************************************)
(* Theorems about Ledger, for every set of rows, every set of transactions *)
(* and every program: what is written under a row lock stays what the      *)
(* program's statements add up to, so a transaction commits on the         *)
(* balances its guards saw, the ledger implements LedgerAtomic, and the    *)
(* balances of a unit add up to what was there and what was minted.        *)
(***************************************************************************)
EXTENDS Ledger, LedgerRoutes, FiniteSetTheorems, TLAPS

-----------------------------------------------------------------------------
(* The inductive invariant.                                                *)

\* Only an open transaction that has run a statement holds locks.
HoldersAreOpen ==
    \A row \in Rows : holder[row] # NoTxn =>
        phase[holder[row]] = "open" /\ done[holder[row]] > 0

\* A row nobody has locked is as committed.
FreeRowsAreClean ==
    \A row \in Rows : holder[row] = NoTxn => working[row] = balance[row]

\* What an open transaction has added to a row is on the rows it has locked.
HeldRowsFollowProgram ==
    \A t \in Txns : phase[t] = "open" =>
        \A row \in Rows :
            IF holder[row] = t
            THEN working[row] = balance[row] + Effect[t][done[t]][row]
            ELSE Effect[t][done[t]][row] = 0

\* Every statement an open transaction has run wrote, and its row is locked.
RowsStayLocked ==
    \A t \in Txns : phase[t] = "open" =>
        \A k \in 1..done[t] :
            Program[t][k].op # "check" /\ holder[Program[t][k].row] = t

\* The guards an open transaction has passed hold of the committed balances.
Covered(t, k) ==
    Program[t][k].op \in {"guarded", "check"} =>
        balance[Program[t][k].row] + Effect[t][k - 1][Program[t][k].row]
            >= Program[t][k].amount

GuardsStayTrue ==
    \A t \in Txns : phase[t] = "open" => \A k \in 1..done[t] : Covered(t, k)

\* A transaction starts with no statement run, after the one before it.
InTurn(t) == After[t] = NoTxn \/ (After[t] \in Txns /\ phase[After[t]] = "committed")
StartedInTurn ==
    \A t \in Txns :
        /\ phase[t] = "idle" => done[t] = 0
        /\ phase[t] = "open" => InTurn(t)

LockInv ==
    /\ TypeOK
    /\ HoldersAreOpen
    /\ FreeRowsAreClean
    /\ HeldRowsFollowProgram
    /\ RowsStayLocked
    /\ GuardsStayTrue
    /\ StartedInTurn

\* No route of the instance debits without a guard.
DebitsAreGuarded ==
    \A t \in Txns : \A k \in 1..Len(Program[t]) : Program[t][k].op # "debit"

-----------------------------------------------------------------------------
(* Facts about programs.                                                   *)

\* Every statement of a program is one, and changes its row by an integer.
LEMMA StatementFacts ==
    ASSUME NEW t \in Txns, NEW k \in 1..Len(Program[t])
    PROVE  /\ Program[t][k] \in Statements
           /\ Program[t][k].op \in Ops
           /\ Program[t][k].row \in Rows
           /\ Program[t][k].amount \in Nat
           /\ Change(Program[t][k]) \in Int
  <1>1. Program[t] \in Seq(Statements)
    BY LedgerAssumption DEF LedgerAssumption
  <1>2. Program[t][k] \in Statements
    BY <1>1
  <1>3. /\ Program[t][k].op \in Ops
        /\ Program[t][k].row \in Rows
        /\ Program[t][k].amount \in Nat
    BY <1>2 DEF Statements
  <1> QED
    BY <1>2, <1>3 DEF Change

LEMMA LengthFacts == \A t \in Txns : Len(Program[t]) \in Nat
  BY LedgerAssumption DEF LedgerAssumption

\* The running sum of a program: zero, then one statement's change at a time.
LEMMA EffectFacts ==
    ASSUME NEW t \in Txns
    PROVE  /\ \A n \in 0..Len(Program[t]) : \A row \in Rows : Effect[t][n][row] \in Int
           /\ \A row \in Rows : Effect[t][0][row] = 0
           /\ \A n \in 1..Len(Program[t]) : \A row \in Rows :
                Effect[t][n][row] =
                    Effect[t][n - 1][row]
                    + (IF row = Program[t][n].row THEN Change(Program[t][n]) ELSE 0)
  <1>1. Effect[t] \in [0..Len(Program[t]) -> [Rows -> Int]]
    BY EffectAssumption DEF EffectAssumption
  <1>2. \A n \in 0..Len(Program[t]) : \A row \in Rows : Effect[t][n][row] \in Int
    BY <1>1
  <1>3. \A row \in Rows : Effect[t][0][row] = 0
    BY EffectAssumption DEF EffectAssumption
  <1>4. ASSUME NEW n \in 1..Len(Program[t]), NEW row \in Rows
        PROVE  Effect[t][n][row] =
                   Effect[t][n - 1][row]
                   + (IF row = Program[t][n].row THEN Change(Program[t][n]) ELSE 0)
    <2>1. Effect[t][n] = [Effect[t][n - 1] EXCEPT
                             ![Program[t][n].row] = @ + Change(Program[t][n])]
      BY EffectAssumption DEF EffectAssumption
    <2>2. n - 1 \in 0..Len(Program[t])
      BY LengthFacts
    <2>3. Effect[t][n - 1] \in [Rows -> Int]
      BY <1>1, <2>2
    <2>4. Effect[t][n - 1][row] \in Int
      BY <2>3
    <2> QED
      BY <2>1, <2>3, <2>4, StatementFacts
  <1> QED
    BY <1>2, <1>3, <1>4

-----------------------------------------------------------------------------
(* LockInv is inductive.                                                   *)

LEMMA LockInvInit == Init => LockInv
  <1> SUFFICES ASSUME Init PROVE LockInv
    OBVIOUS
  <1>1. TypeOK
    BY LedgerAssumption, LengthFacts DEF LedgerAssumption, Init, TypeOK, Phases
  <1>2. /\ HoldersAreOpen
        /\ FreeRowsAreClean
        /\ HeldRowsFollowProgram
        /\ RowsStayLocked
        /\ GuardsStayTrue
        /\ StartedInTurn
    BY DEF Init, HoldersAreOpen, FreeRowsAreClean, HeldRowsFollowProgram,
           RowsStayLocked, GuardsStayTrue, StartedInTurn
  <1> QED
    BY <1>1, <1>2 DEF LockInv

LEMMA BeginKeepsLockInv ==
    ASSUME LockInv, NEW t \in Txns, Begin(t)
    PROVE  LockInv'
  <1> USE DEF LockInv
  <1>1. TypeOK'
    BY DEF TypeOK, Begin, Phases
  <1>2. HoldersAreOpen' /\ FreeRowsAreClean'
    BY DEF TypeOK, Begin, Ready, HoldersAreOpen, FreeRowsAreClean
  <1>3. HeldRowsFollowProgram'
    <2>1. done[t] = 0 /\ phase[t] = "idle"
      BY DEF Begin, Ready, StartedInTurn
    <2>2. t # NoTxn
      BY LedgerAssumption DEF LedgerAssumption
    <2>3. \A row \in Rows : holder[row] # t
      BY <2>1, <2>2 DEF HoldersAreOpen
    <2>4. \A row \in Rows : Effect[t][done[t]][row] = 0
      BY <2>1, EffectFacts
    <2> QED
      BY <2>3, <2>4 DEF TypeOK, Begin, HeldRowsFollowProgram
  <1>4. RowsStayLocked' /\ GuardsStayTrue'
    <2>1. done[t] = 0 /\ done' = done /\ holder' = holder /\ balance' = balance
      BY DEF Begin, Ready, StartedInTurn
    <2>2. \A u \in Txns : u # t => phase'[u] = phase[u]
      BY DEF Begin, TypeOK
    <2>3. \A k \in 1..done[t] : FALSE
      BY <2>1
    <2>4. RowsStayLocked'
      BY <2>1, <2>2, <2>3 DEF RowsStayLocked
    <2>5. GuardsStayTrue'
      BY <2>1, <2>2, <2>3 DEF GuardsStayTrue, Covered
    <2> QED
      BY <2>4, <2>5
  <1>5. StartedInTurn'
    BY LedgerAssumption DEF LedgerAssumption, TypeOK, Begin, Ready, StartedInTurn, InTurn
  <1> QED
    BY <1>1, <1>2, <1>3, <1>4, <1>5

LEMMA RunCheckKeepsLockInv ==
    ASSUME LockInv, NEW t \in Txns, RunCheck(t)
    PROVE  LockInv'
  <1> USE DEF LockInv
  <1>1. TypeOK'
    BY LengthFacts DEF TypeOK, RunCheck, Pending, Phases
  <1>2. done[t] = 0
    <2>1. done[t] \in Nat /\ done[t] + 1 \in 1..Len(Program[t])
      BY LengthFacts DEF TypeOK, RunCheck, Pending
    <2>2. Len(Program[t]) = 1
      BY <2>1, LedgerAssumption DEF LedgerAssumption, RunCheck, Current
    <2> QED
      BY <2>1, <2>2
  <1>3. \A row \in Rows : holder[row] # t
    <2>1. t # NoTxn
      BY LedgerAssumption DEF LedgerAssumption
    <2> QED
      BY <1>2, <2>1 DEF HoldersAreOpen
  <1>4. HoldersAreOpen' /\ FreeRowsAreClean'
    BY <1>3 DEF TypeOK, RunCheck, HoldersAreOpen, FreeRowsAreClean
  <1> QED
    BY <1>1, <1>4 DEF TypeOK, RunCheck, HeldRowsFollowProgram, RowsStayLocked,
       GuardsStayTrue, Covered, StartedInTurn, InTurn

\* What a statement that passes its guard finds on its row, once it is free.
LEMMA VisibleIsCovered ==
    ASSUME LockInv, NEW t \in Txns, Pending(t)
    PROVE  /\ done[t] \in Nat /\ done[t] + 1 \in 1..Len(Program[t])
           /\ Visible(t, Current(t).row) =
                  balance[Current(t).row] + Effect[t][done[t]][Current(t).row]
           /\ Guard(t) <=> Covered(t, done[t] + 1)
  <1>1. done[t] \in Nat /\ done[t] + 1 \in 1..Len(Program[t]) /\ phase[t] = "open"
    BY LengthFacts DEF LockInv, TypeOK, Pending
  <1>2. Current(t).row \in Rows
    BY <1>1, StatementFacts DEF Current
  <1>3. balance[Current(t).row] \in Int
    BY <1>2 DEF LockInv, TypeOK
  <1>4. Visible(t, Current(t).row) =
            balance[Current(t).row] + Effect[t][done[t]][Current(t).row]
    BY <1>1, <1>2, <1>3 DEF LockInv, HeldRowsFollowProgram, Visible
  <1>5. done[t] + 1 - 1 = done[t]
    BY <1>1
  <1> QED
    BY <1>1, <1>4, <1>5 DEF Guard, Covered, Current

LEMMA WriteKeepsLockInv ==
    ASSUME LockInv, NEW t \in Txns, Write(t)
    PROVE  LockInv'
  <1> DEFINE r == Current(t).row
  <1> USE DEF LockInv
  <1>1. /\ done[t] \in Nat /\ done[t] + 1 \in 1..Len(Program[t])
        /\ phase[t] = "open" /\ Covered(t, done[t] + 1)
    BY VisibleIsCovered DEF Write, Pending
  <1>2. /\ r \in Rows /\ Change(Current(t)) \in Int
        /\ Current(t) = Program[t][done[t] + 1]
        /\ Current(t).op # "check"
    BY <1>1, StatementFacts DEF Current, Write
  <1>3. /\ balance' = balance /\ phase' = phase
        /\ \A row \in Rows : working'[row] = IF row = r THEN working[row] + Change(Current(t))
                                              ELSE working[row]
        /\ \A row \in Rows : holder'[row] = IF row = r THEN t ELSE holder[row]
        /\ \A u \in Txns : done'[u] = IF u = t THEN done[t] + 1 ELSE done[u]
    BY <1>2 DEF Write, TypeOK
  <1>4. t # NoTxn /\ holder[r] \in {NoTxn, t}
    BY LedgerAssumption DEF LedgerAssumption, Write, Free
  <1>5. \A row \in Rows : Effect[t][done[t] + 1][row] =
                              Effect[t][done[t]][row] + (IF row = r THEN Change(Current(t)) ELSE 0)
    <2> DEFINE n == done[t] + 1
    <2>1. n - 1 = done[t]
      BY <1>1
    <2>2. n \in 1..Len(Program[t])
      BY <1>1
    <2> HIDE DEF n
    <2>3. \A row \in Rows : Effect[t][n][row] =
              Effect[t][n - 1][row] + (IF row = Program[t][n].row THEN Change(Program[t][n]) ELSE 0)
      BY <2>2, EffectFacts
    <2>4. Current(t) = Program[t][n]
      BY <1>2 DEF n
    <2>5. \A row \in Rows : Effect[t][n][row] =
              Effect[t][done[t]][row] + (IF row = r THEN Change(Current(t)) ELSE 0)
      BY <2>1, <2>3, <2>4
    <2> QED
      BY <2>5 DEF n
  <1>6. \A row \in Rows : Effect[t][done[t]][row] \in Int
    <2>1. done[t] \in 0..Len(Program[t])
      BY <1>1, LengthFacts
    <2> QED
      BY <2>1, EffectFacts
  <1>7. TypeOK'
    <2>1. ASSUME NEW u \in Txns PROVE done'[u] \in Nat /\ done'[u] <= Len(Program[u])
      <3>1. done[u] \in Nat /\ done[u] <= Len(Program[u]) /\ Len(Program[u]) \in Nat
        BY LengthFacts DEF TypeOK
      <3>2. done[t] + 1 <= Len(Program[t])
        BY <1>1, LengthFacts
      <3> QED
        BY <1>1, <1>3, <3>1, <3>2
    <2>2. working' \in [Rows -> Int]
      BY <1>2 DEF TypeOK, Write
    <2> QED
      BY <1>1, <1>3, <2>1, <2>2 DEF TypeOK, Write
  <1>8. HoldersAreOpen' /\ FreeRowsAreClean'
    <2>1. ASSUME NEW row \in Rows, holder'[row] # NoTxn
          PROVE  phase'[holder'[row]] = "open" /\ done'[holder'[row]] > 0
      <3>1. CASE row = r
        BY <3>1, <1>1, <1>3
      <3>2. CASE row # r
        <4>1. holder'[row] = holder[row] /\ holder[row] \in Txns
          BY <2>1, <3>2, <1>3 DEF TypeOK
        <4>2. phase[holder[row]] = "open" /\ done[holder[row]] > 0
          BY <2>1, <4>1 DEF HoldersAreOpen
        <4> QED
          BY <4>1, <4>2, <1>1, <1>3
      <3> QED
        BY <3>1, <3>2
    <2>2. FreeRowsAreClean'
      BY <1>3, <1>4 DEF FreeRowsAreClean
    <2> QED
      BY <2>1, <2>2 DEF HoldersAreOpen
  <1>9. HeldRowsFollowProgram'
    <2> SUFFICES ASSUME NEW u \in Txns, phase[u] = "open", NEW row \in Rows
                 PROVE  IF holder'[row] = u
                        THEN working'[row] = balance[row] + Effect[u][done'[u]][row]
                        ELSE Effect[u][done'[u]][row] = 0
      BY <1>3 DEF HeldRowsFollowProgram
    <2>1. CASE u # t
      <3>1. done'[u] = done[u] /\ (holder'[row] = u <=> holder[row] = u)
        BY <2>1, <1>3, <1>4, LedgerAssumption DEF LedgerAssumption
      <3>2. holder[row] = u => working'[row] = working[row]
        BY <2>1, <1>3, <1>4, LedgerAssumption DEF LedgerAssumption
      <3> QED
        BY <3>1, <3>2 DEF HeldRowsFollowProgram
    <2>2. CASE u = t /\ row # r
      BY <2>2, <1>3, <1>5, <1>6 DEF HeldRowsFollowProgram
    <2>3. CASE u = t /\ row = r
      <3>1. working[r] = balance[r] + Effect[t][done[t]][r]
        BY <2>3, <1>2, <1>4, <1>1, <1>6 DEF HeldRowsFollowProgram, FreeRowsAreClean, TypeOK
      <3>2. balance[r] \in Int /\ Effect[t][done[t]][r] \in Int /\ Change(Current(t)) \in Int
        BY <1>2, <1>6 DEF TypeOK
      <3>3. holder'[r] = t /\ done'[t] = done[t] + 1
            /\ working'[r] = working[r] + Change(Current(t))
        BY <1>2, <1>3
      <3>4. Effect[t][done[t] + 1][r] = Effect[t][done[t]][r] + Change(Current(t))
        BY <1>2, <1>5
      <3>5. working'[r] = balance[r] + Effect[t][done'[t]][r]
        <4> HIDE DEF r
        <4> QED
          BY ONLY <3>1, <3>2, <3>3, <3>4
      <3> QED
        BY ONLY <2>3, <3>3, <3>5
    <2> QED
      BY <2>1, <2>2, <2>3
  <1>10. RowsStayLocked'
    <2> SUFFICES ASSUME NEW u \in Txns, phase[u] = "open", NEW k \in 1..done'[u]
                 PROVE  Program[u][k].op # "check" /\ holder'[Program[u][k].row] = u
      BY <1>3 DEF RowsStayLocked
    <2>1. done[u] \in Nat /\ Len(Program[u]) \in Nat /\ done'[u] <= Len(Program[u])
      BY <1>7, LengthFacts DEF TypeOK
    <2>2. Program[u][k].row \in Rows
      <3>1. k \in 1..Len(Program[u])
        BY <2>1, <1>3, <1>1
      <3> QED
        BY <3>1, StatementFacts
    <2>3. CASE u = t /\ k = done[t] + 1
      BY <2>3, <1>2, <1>3
    <2>4. CASE u = t /\ k # done[t] + 1
      <3>1. k \in 1..done[t]
        BY <2>4, <1>1, <1>3
      <3> QED
        BY <2>4, <3>1, <2>2, <1>3 DEF RowsStayLocked
    <2>5. CASE u # t
      <3>1. k \in 1..done[u]
        BY <2>5, <1>3
      <3>2. Program[u][k].op # "check" /\ holder[Program[u][k].row] = u
        BY <3>1 DEF RowsStayLocked
      <3>3. u # NoTxn
        BY LedgerAssumption DEF LedgerAssumption
      <3> QED
        BY <2>5, <2>2, <3>2, <3>3, <1>3, <1>4
    <2> QED
      BY <2>3, <2>4, <2>5
  <1>11. GuardsStayTrue'
    <2> SUFFICES ASSUME NEW u \in Txns, phase[u] = "open", NEW k \in 1..done'[u]
                 PROVE  Covered(u, k)
      BY <1>3 DEF GuardsStayTrue, Covered
    <2>1. CASE u = t /\ k = done[t] + 1
      BY <2>1, <1>1
    <2>2. CASE ~(u = t /\ k = done[t] + 1)
      <3>1. k \in 1..done[u]
        BY <2>2, <1>1, <1>3
      <3> QED
        BY <3>1 DEF GuardsStayTrue
    <2> QED
      BY <2>1, <2>2
  <1>12. StartedInTurn'
    BY <1>1, <1>3 DEF StartedInTurn, InTurn
  <1> QED
    BY <1>7, <1>8, <1>9, <1>10, <1>11, <1>12

LEMMA CommitKeepsLockInv ==
    ASSUME LockInv, NEW t \in Txns, Commit(t)
    PROVE  LockInv'
  <1> USE DEF LockInv
  <1>1. /\ phase[t] = "open" /\ t # NoTxn
        /\ working' = working /\ done' = done
        /\ \A u \in Txns : phase'[u] = IF u = t THEN "committed" ELSE phase[u]
        /\ \A row \in Rows : balance'[row] = IF holder[row] = t THEN working[row] ELSE balance[row]
        /\ \A row \in Rows : holder'[row] = IF holder[row] = t THEN NoTxn ELSE holder[row]
    BY LedgerAssumption DEF LedgerAssumption, Commit, TypeOK
  <1>2. TypeOK'
    BY DEF TypeOK, Commit, Phases
  <1>3. HoldersAreOpen' /\ FreeRowsAreClean'
    BY <1>1, <1>2 DEF TypeOK, HoldersAreOpen, FreeRowsAreClean
  <1>4. HeldRowsFollowProgram'
    <2> SUFFICES ASSUME NEW u \in Txns, phase'[u] = "open", NEW row \in Rows
                 PROVE  IF holder'[row] = u
                        THEN working'[row] = balance'[row] + Effect[u][done[u]][row]
                        ELSE Effect[u][done[u]][row] = 0
      BY <1>1 DEF HeldRowsFollowProgram
    <2>1. u # t /\ u # NoTxn /\ phase[u] = "open"
      BY <1>1, LedgerAssumption DEF LedgerAssumption
    <2>2. holder'[row] = u <=> holder[row] = u
      BY <1>1, <2>1
    <2>3. holder[row] = u => balance'[row] = balance[row] /\ working'[row] = working[row]
      BY <1>1, <2>1
    <2> QED
      BY <2>1, <2>2, <2>3 DEF HeldRowsFollowProgram
  <1>5. ASSUME NEW u \in Txns, phase'[u] = "open", NEW k \in 1..done[u]
        PROVE  /\ u # t /\ Program[u][k].op # "check"
               /\ Program[u][k].row \in Rows /\ holder[Program[u][k].row] = u
               /\ Covered(u, k)
    <2>1. u # t /\ phase[u] = "open"
      BY <1>1, <1>5
    <2>2. k \in 1..Len(Program[u])
      BY LengthFacts DEF TypeOK
    <2> QED
      BY <2>1, <2>2, StatementFacts DEF RowsStayLocked, GuardsStayTrue
  <1>6. RowsStayLocked'
    BY <1>1, <1>5 DEF RowsStayLocked
  <1>7. GuardsStayTrue'
    BY <1>1, <1>5 DEF GuardsStayTrue, Covered
  <1>8. StartedInTurn'
    <2> SUFFICES ASSUME NEW u \in Txns
                 PROVE  /\ phase'[u] = "idle" => done'[u] = 0
                        /\ phase'[u] = "open" => InTurn(u)'
      BY DEF StartedInTurn
    <2>1. phase'[u] = "idle" => done'[u] = 0
      BY <1>1 DEF StartedInTurn
    <2>2. ASSUME phase'[u] = "open" PROVE InTurn(u)'
      <3>1. InTurn(u)
        BY <2>2, <1>1 DEF StartedInTurn
      <3> QED
        BY <3>1, <1>1 DEF InTurn
    <2> QED
      BY <2>1, <2>2
  <1> QED
    BY <1>2, <1>3, <1>4, <1>6, <1>7, <1>8

LEMMA RollbackKeepsLockInv ==
    ASSUME LockInv, NEW t \in Txns, NEW outcome \in {"refused", "failed"},
           phase[t] # "committed", Rollback(t, outcome)
    PROVE  LockInv'
  <1> USE DEF LockInv
  <1>1. /\ t # NoTxn
        /\ balance' = balance /\ done' = done
        /\ \A u \in Txns : phase'[u] = IF u = t THEN outcome ELSE phase[u]
        /\ \A row \in Rows : working'[row] = IF holder[row] = t THEN balance[row] ELSE working[row]
        /\ \A row \in Rows : holder'[row] = IF holder[row] = t THEN NoTxn ELSE holder[row]
    BY LedgerAssumption DEF LedgerAssumption, Rollback, TypeOK
  <1>2. TypeOK'
    BY DEF TypeOK, Rollback, Phases
  <1>3. HoldersAreOpen' /\ FreeRowsAreClean'
    BY <1>1, <1>2 DEF TypeOK, HoldersAreOpen, FreeRowsAreClean
  <1>4. HeldRowsFollowProgram'
    <2> SUFFICES ASSUME NEW u \in Txns, phase'[u] = "open", NEW row \in Rows
                 PROVE  IF holder'[row] = u
                        THEN working'[row] = balance'[row] + Effect[u][done[u]][row]
                        ELSE Effect[u][done[u]][row] = 0
      BY <1>1 DEF HeldRowsFollowProgram
    <2>1. u # t /\ u # NoTxn /\ phase[u] = "open"
      BY <1>1, LedgerAssumption DEF LedgerAssumption
    <2>2. holder'[row] = u <=> holder[row] = u
      BY <1>1, <2>1
    <2>3. holder[row] = u => balance'[row] = balance[row] /\ working'[row] = working[row]
      BY <1>1, <2>1
    <2> QED
      BY <2>1, <2>2, <2>3 DEF HeldRowsFollowProgram
  <1>5. RowsStayLocked'
    <2> SUFFICES ASSUME NEW u \in Txns, phase'[u] = "open", NEW k \in 1..done[u]
                 PROVE  Program[u][k].op # "check" /\ holder'[Program[u][k].row] = u
      BY <1>1 DEF RowsStayLocked
    <2>1. u # t /\ phase[u] = "open"
      BY <1>1
    <2>2. k \in 1..Len(Program[u])
      BY LengthFacts DEF TypeOK
    <2> QED
      BY <1>1, <2>1, <2>2, StatementFacts DEF RowsStayLocked
  <1>6. GuardsStayTrue'
    BY <1>1 DEF GuardsStayTrue, Covered
  <1>7. StartedInTurn'
    <2> SUFFICES ASSUME NEW u \in Txns
                 PROVE  /\ phase'[u] = "idle" => done'[u] = 0
                        /\ phase'[u] = "open" => InTurn(u)'
      BY DEF StartedInTurn
    <2>1. phase'[u] = "idle" => done'[u] = 0
      BY <1>1 DEF StartedInTurn
    <2>2. ASSUME phase'[u] = "open" PROVE InTurn(u)'
      <3>1. InTurn(u)
        BY <2>2, <1>1 DEF StartedInTurn
      <3> QED
        BY <3>1, <1>1 DEF InTurn
    <2> QED
      BY <2>1, <2>2
  <1> QED
    BY <1>2, <1>3, <1>4, <1>5, <1>6, <1>7

LEMMA LockInvNext == LockInv /\ [Next]_vars => LockInv'
  <1> SUFFICES ASSUME LockInv, [Next]_vars PROVE LockInv'
    OBVIOUS
  <1>1. ASSUME NEW t \in Txns, Step(t) PROVE LockInv'
    <2>1. CASE Begin(t)
      BY <2>1, BeginKeepsLockInv
    <2>2. CASE RunCheck(t)
      BY <2>2, RunCheckKeepsLockInv
    <2>3. CASE Write(t)
      BY <2>3, WriteKeepsLockInv
    <2>4. CASE Commit(t)
      BY <2>4, CommitKeepsLockInv
    <2>5. CASE Refuse(t)
      <3>1. Rollback(t, "refused") /\ phase[t] # "committed"
        BY <2>5 DEF Refuse, Pending
      <3> QED
        BY <3>1, RollbackKeepsLockInv
    <2>6. CASE Abort(t)
      <3>1. Rollback(t, "failed") /\ phase[t] # "committed"
        BY <2>6 DEF Abort, Deadlocked, Waits, Pending
      <3> QED
        BY <3>1, RollbackKeepsLockInv
    <2> QED
      BY <1>1, <2>1, <2>2, <2>3, <2>4, <2>5, <2>6 DEF Step
  <1>2. ASSUME NEW t \in Txns, Crash(t) PROVE LockInv'
    <2>1. Rollback(t, "failed") /\ phase[t] # "committed"
      BY <1>2 DEF Crash, Ready
    <2> QED
      BY <2>1, RollbackKeepsLockInv
  <1>3. CASE UNCHANGED vars
    BY <1>3 DEF vars, LockInv, TypeOK, HoldersAreOpen, FreeRowsAreClean, HeldRowsFollowProgram,
                RowsStayLocked, GuardsStayTrue, Covered, StartedInTurn, InTurn
  <1> QED
    BY <1>1, <1>2, <1>3 DEF Next

\* What an open transaction wrote is on the rows it has locked, every guard it
\* passed still holds, and no other transaction sees or moves those rows.
THEOREM LocksProtectGuards == Spec => []LockInv
  <1> QED
    BY LockInvInit, LockInvNext, PTL DEF Spec

\* Every variable keeps its type, whatever the requests (TypeOK).
THEOREM TypeCorrect == Spec => []TypeOK
  <1>1. LockInv => TypeOK
    BY DEF LockInv
  <1> QED
    BY <1>1, LocksProtectGuards, PTL

-----------------------------------------------------------------------------
(* No overdraft.                                                           *)

\* Neither the committed nor the newest version of a row is below zero.
Solvent == \A row \in Rows : balance[row] >= 0 /\ working[row] >= 0

LEMMA SolventInit == Init => Solvent
  BY LedgerAssumption DEF LedgerAssumption, Init, Solvent

LEMMA SolventNext ==
    ASSUME DebitsAreGuarded, LockInv, Solvent, [Next]_vars
    PROVE  Solvent'
  <1>1. ASSUME NEW t \in Txns, Write(t) PROVE Solvent'
    <2>1. /\ done[t] + 1 \in 1..Len(Program[t]) /\ done[t] \in Nat
          /\ Guard(t) /\ Free(t, Current(t).row) /\ Current(t).op # "check"
      BY <1>1, VisibleIsCovered DEF Write
    <2>2. /\ Current(t).row \in Rows /\ Current(t).amount \in Nat
          /\ Current(t).op \in {"guarded", "credit"}
      BY <2>1, StatementFacts DEF Current, DebitsAreGuarded, Ops
    <2>3. working[Current(t).row] \in Int
      BY <2>2 DEF LockInv, TypeOK
    <2>4. working[Current(t).row] + Change(Current(t)) >= 0
      <3>1. CASE Current(t).op = "guarded"
        <4>1. Visible(t, Current(t).row) >= Current(t).amount
          BY <2>1, <3>1 DEF Guard
        <4>2. Visible(t, Current(t).row) = working[Current(t).row]
          BY <2>1, <2>2 DEF Free, Visible, LockInv, FreeRowsAreClean
        <4> QED
          BY <4>1, <4>2, <3>1, <2>2, <2>3 DEF Change
      <3>2. CASE Current(t).op = "credit"
        BY <3>2, <2>2, <2>3 DEF Change, Solvent
      <3> QED
        BY <2>2, <3>1, <3>2
    <2>5. /\ balance' = balance
          /\ \A row \in Rows : working'[row] = IF row = Current(t).row
                                               THEN working[row] + Change(Current(t))
                                               ELSE working[row]
      BY <1>1 DEF Write, LockInv, TypeOK
    <2> QED
      BY <2>4, <2>5 DEF Solvent
  <1>2. ASSUME NEW t \in Txns, Commit(t) PROVE Solvent'
    BY <1>2 DEF Commit, Solvent, LockInv, TypeOK
  <1>3. ASSUME NEW t \in Txns, NEW outcome, Rollback(t, outcome) PROVE Solvent'
    BY <1>3 DEF Rollback, Solvent, LockInv, TypeOK
  <1>4. ASSUME NEW t \in Txns, Begin(t) \/ RunCheck(t) PROVE Solvent'
    BY <1>4 DEF Begin, RunCheck, Solvent
  <1>5. ASSUME NEW t \in Txns, Refuse(t) \/ Abort(t) \/ Crash(t) PROVE Solvent'
    BY <1>5, <1>3 DEF Refuse, Abort, Crash
  <1>6. CASE UNCHANGED vars
    BY <1>6 DEF vars, Solvent
  <1> QED
    BY <1>1, <1>2, <1>4, <1>5, <1>6 DEF Next, Step

\* Where every debit carries its guard, no interleaving of requests, refusals,
\* aborts and crashes takes a committed balance below zero.
THEOREM GuardedDebitsNeverOverdraw ==
    ASSUME DebitsAreGuarded PROVE Spec => []NonNegative
  <1>1. Solvent => NonNegative
    BY DEF Solvent, NonNegative
  <1>2. LockInv /\ Solvent /\ [Next]_vars => Solvent'
    BY SolventNext
  <1> QED
    BY <1>1, <1>2, SolventInit, LocksProtectGuards, PTL DEF Spec

-----------------------------------------------------------------------------
(* Refinement of LedgerAtomic.                                             *)

LEMMA AtomicInit == Init => Atomic!Init
  BY DEF Init, Atomic!Init, Outcome

\* A transaction that is still to end is waiting its turn in the atomic ledger.
LEMMA OpenIsReady ==
    ASSUME LockInv, NEW t \in Txns, phase[t] = "open"
    PROVE  Atomic!Ready(t)
  <1>1. InTurn(t)
    BY DEF LockInv, StartedInTurn
  <1> QED
    BY <1>1, LedgerAssumption DEF LedgerAssumption, InTurn, Atomic!Ready, Outcome

LEMMA CoveredMeansCovered ==
    ASSUME NEW t \in Txns, NEW k
    PROVE  Covered(t, k) <=> Atomic!CoveredAt(t, k)
  BY DEF Covered, Atomic!CoveredAt, Atomic!Guarding

LEMMA RunCheckIsApply ==
    ASSUME LockInv, NEW t \in Txns, RunCheck(t)
    PROVE  Atomic!Apply(t)
  <1>1. /\ done[t] \in Nat /\ done[t] + 1 \in 1..Len(Program[t]) /\ phase[t] = "open"
        /\ Covered(t, done[t] + 1) /\ Current(t).op = "check"
    BY VisibleIsCovered DEF RunCheck, Pending
  <1>2. Len(Program[t]) = 1 /\ done[t] = 0
    BY <1>1, LedgerAssumption DEF LedgerAssumption, Current
  <1>3. \A k \in 1..Len(Program[t]) : Atomic!CoveredAt(t, k)
    BY <1>1, <1>2, CoveredMeansCovered
  <1>4. \A row \in Rows : Effect[t][Len(Program[t])][row] = 0
    <2>1. 1 \in 1..Len(Program[t]) /\ 0 \in 0..Len(Program[t]) /\ 1 - 1 = 0
      BY <1>2
    <2>2. Change(Program[t][1]) = 0
      <3>1. Program[t][1].op = "check"
        BY <1>1, <1>2 DEF Current
      <3> QED
        BY <3>1 DEF Change
    <2>3. \A row \in Rows : Effect[t][1][row] = Effect[t][0][row] + 0
      BY <2>1, <2>2, EffectFacts
    <2> QED
      BY <2>3, <1>2, EffectFacts
  <1>5. balance' = [row \in Rows |-> balance[row] + Effect[t][Len(Program[t])][row]]
    BY <1>4 DEF LockInv, TypeOK, RunCheck
  <1>6. Outcome' = [Outcome EXCEPT ![t] = "committed"]
    BY DEF RunCheck, Outcome, LockInv, TypeOK
  <1> QED
    BY <1>1, <1>3, <1>5, <1>6, OpenIsReady DEF Atomic!Apply

LEMMA CommitIsApply ==
    ASSUME LockInv, NEW t \in Txns, Commit(t)
    PROVE  Atomic!Apply(t)
  <1>1. phase[t] = "open" /\ done[t] = Len(Program[t])
    BY DEF Commit
  <1>2. \A k \in 1..Len(Program[t]) : Atomic!CoveredAt(t, k)
    BY <1>1, CoveredMeansCovered DEF LockInv, GuardsStayTrue
  <1>3. balance' = [row \in Rows |-> balance[row] + Effect[t][Len(Program[t])][row]]
    BY <1>1 DEF LockInv, TypeOK, HeldRowsFollowProgram, Commit
  <1>4. Outcome' = [Outcome EXCEPT ![t] = "committed"]
    BY DEF Commit, Outcome, LockInv, TypeOK
  <1> QED
    BY <1>1, <1>2, <1>3, <1>4, OpenIsReady DEF Atomic!Apply

LEMMA RefuseIsRefuse ==
    ASSUME LockInv, NEW t \in Txns, Refuse(t)
    PROVE  Atomic!Refuse(t)
  <1>1. /\ done[t] + 1 \in 1..Len(Program[t]) /\ phase[t] = "open"
        /\ ~Covered(t, done[t] + 1)
    BY VisibleIsCovered DEF Refuse, Pending
  <1>2. \E k \in 1..Len(Program[t]) : ~Atomic!CoveredAt(t, k)
    BY <1>1, CoveredMeansCovered
  <1>3. balance' = balance /\ Outcome' = [Outcome EXCEPT ![t] = "refused"]
    BY DEF Refuse, Rollback, Outcome, LockInv, TypeOK
  <1> QED
    BY <1>1, <1>2, <1>3, OpenIsReady DEF Atomic!Refuse

LEMMA RollbackIsFail ==
    ASSUME LockInv, NEW t \in Txns, Ready(t) \/ phase[t] = "open", Rollback(t, "failed")
    PROVE  Atomic!Fail(t)
  <1>1. Atomic!Ready(t)
    BY OpenIsReady, LedgerAssumption DEF LedgerAssumption, Ready, Atomic!Ready, Outcome
  <1>2. balance' = balance /\ Outcome' = [Outcome EXCEPT ![t] = "failed"]
    BY DEF Rollback, Outcome, LockInv, TypeOK
  <1> QED
    BY <1>1, <1>2 DEF Atomic!Fail

LEMMA AtomicNext ==
    LockInv /\ [Next]_vars => [Atomic!Next]_<<balance, Outcome>>
  <1> SUFFICES ASSUME LockInv, [Next]_vars
               PROVE  Atomic!Next \/ UNCHANGED <<balance, Outcome>>
    OBVIOUS
  <1>1. ASSUME NEW t \in Txns, Step(t)
        PROVE  Atomic!Next \/ UNCHANGED <<balance, Outcome>>
    <2>1. CASE Begin(t) \/ Write(t)
      BY <2>1 DEF Begin, Ready, Write, Outcome, LockInv, TypeOK
    <2>2. CASE RunCheck(t)
      BY <2>2, RunCheckIsApply DEF Atomic!Next
    <2>3. CASE Commit(t)
      BY <2>3, CommitIsApply DEF Atomic!Next
    <2>4. CASE Refuse(t)
      BY <2>4, RefuseIsRefuse DEF Atomic!Next
    <2>5. CASE Abort(t)
      BY <2>5, RollbackIsFail DEF Abort, Deadlocked, Waits, Pending, Atomic!Next
    <2> QED
      BY <1>1, <2>1, <2>2, <2>3, <2>4, <2>5 DEF Step
  <1>2. ASSUME NEW t \in Txns, Crash(t) PROVE Atomic!Next
    BY <1>2, RollbackIsFail DEF Crash, Atomic!Next
  <1>3. CASE UNCHANGED vars
    BY <1>3 DEF vars, Outcome
  <1> QED
    BY <1>1, <1>2, <1>3 DEF Next

\* The statement-by-statement ledger implements the atomic one: whatever the
\* interleaving, each transaction's rows change together, on balances that
\* cover every guard of it, or not at all.
THEOREM LedgerIsAtomic == Spec => AtomicSpec
  <1> QED
    BY AtomicInit, AtomicNext, LocksProtectGuards, PTL DEF Spec, AtomicSpec, Atomic!Spec

-----------------------------------------------------------------------------
(* Sums over a finite set.  The recursion behind SumFunctionOnSet is shown *)
(* to be well-founded from the ordering of the subsets of a finite set;    *)
(* the rest follows from taking one index out.                             *)

\* A nonempty family of subsets of a finite set has a smallest member.
LEMMA SmallestSubset ==
    ASSUME NEW S, IsFiniteSet(S), NEW Bad \in SUBSET SUBSET S, Bad # {}
    PROVE  \E T \in Bad : \A U \in SUBSET T : U # T => U \notin Bad
<1>1. IsWellFoundedOn(StrictSubsetOrdering(S), SUBSET S)
  BY FS_StrictSubsetOrderingWellFounded, FS_FiniteSubsetsOfFinite
<1>2. PICK T \in Bad : \A U \in Bad : <<U, T>> \notin StrictSubsetOrdering(S)
  BY <1>1, WFMin
<1> QED  BY <1>2 DEF StrictSubsetOrdering

\* Induction over a finite set, one element at a time; Good is the set of the
\* subsets for which the claim holds.
LEMMA SubsetInduction ==
    ASSUME NEW S, IsFiniteSet(S), NEW Good, {} \in Good,
           \A T \in SUBSET S : \A x \in S \ T : T \in Good => T \cup {x} \in Good
    PROVE  S \in Good
<1> DEFINE Bad == (SUBSET S) \ Good
<1> SUFFICES ASSUME Bad # {} PROVE FALSE
  OBVIOUS
<1>1. PICK T \in Bad : \A U \in SUBSET T : U # T => U \notin Bad
  <2>1. Bad \in SUBSET SUBSET S
    OBVIOUS
  <2> HIDE DEF Bad
  <2> QED  BY <2>1, SmallestSubset
<1>2. PICK x \in T : TRUE
  BY <1>1
<1>3. T \ {x} \in Good /\ (T \ {x}) \cup {x} = T
  BY <1>1
<1> QED  BY <1>3

\* The element the fold takes out of s first.
Choice(s) == CHOOSE x \in s : TRUE

\* g is the table of the partial sums of f over the subsets of S.
Tabulates(g, f, S) ==
    g = [s \in SUBSET S |->
            IF s = {} THEN 0 ELSE f[Choice(s)] + g[s \ {Choice(s)}]]

\* It is one of its elements.
LEMMA ChoiceInSet == \A s : s # {} => Choice(s) \in s
  BY DEF Choice

\* SumFunctionOnSet reads its value from the table over the subsets of S.
LEMMA SumIsChosen ==
    ASSUME NEW f, NEW S
    PROVE  SumFunctionOnSet(f, S) = (CHOOSE g : Tabulates(g, f, S))[S]
BY DEF SumFunctionOnSet, FoldFunctionOnSet, MapThenFoldSet, Tabulates, Choice

\* The partial sums of f over the subsets of T do not depend on what T is a
\* subset of.
LEMMA TablesAgree ==
    ASSUME NEW f, NEW S, IsFiniteSet(S), NEW T \in SUBSET S,
           NEW g, Tabulates(g, f, S), NEW h, Tabulates(h, f, T)
    PROVE  h[T] = g[T]
<1> DEFINE Bad == {U \in SUBSET T : h[U] # g[U]}
<1> SUFFICES ASSUME Bad # {} PROVE FALSE
  OBVIOUS
<1>1. PICK U \in Bad : \A V \in SUBSET U : V # U => V \notin Bad
  <2>1. IsFiniteSet(T) /\ Bad \in SUBSET SUBSET T
    BY FS_Subset
  <2> HIDE DEF Bad
  <2> QED  BY <2>1, SmallestSubset
<1>2. /\ h[U] = IF U = {} THEN 0 ELSE f[Choice(U)] + h[U \ {Choice(U)}]
      /\ g[U] = IF U = {} THEN 0 ELSE f[Choice(U)] + g[U \ {Choice(U)}]
  BY DEF Tabulates
<1>3. U # {} => h[U \ {Choice(U)}] = g[U \ {Choice(U)}]
  BY <1>1, ChoiceInSet
<1> QED  BY <1>2, <1>3

\* The recursion is well-founded: a table of partial sums exists.
LEMMA TableExists ==
    ASSUME NEW f, NEW S, IsFiniteSet(S)
    PROVE  Tabulates(CHOOSE g : Tabulates(g, f, S), f, S)
<1> DEFINE Table(T) == CHOOSE g : Tabulates(g, f, T)
           Bad == {T \in SUBSET S : ~ Tabulates(Table(T), f, T)}
<1> SUFFICES ASSUME Bad # {} PROVE FALSE
  OBVIOUS
<1>1. PICK T \in Bad : \A U \in SUBSET T : U # T => U \notin Bad
  <2>1. Bad \in SUBSET SUBSET S
    OBVIOUS
  <2> HIDE DEF Bad
  <2> QED  BY <2>1, SmallestSubset
<1> DEFINE h == [s \in SUBSET T |->
                    IF s = {} THEN 0
                    ELSE f[Choice(s)] + Table(s \ {Choice(s)})[s \ {Choice(s)}]]
<1>2. ASSUME NEW s \in SUBSET T, s # {}
      PROVE  h[s \ {Choice(s)}] = Table(s \ {Choice(s)})[s \ {Choice(s)}]
  <2> DEFINE u == s \ {Choice(s)}
  <2>1. u \in SUBSET T /\ u # T
    BY <1>2, ChoiceInSet
  <2>2. Tabulates(Table(u), f, u) /\ IsFiniteSet(u)
    BY <1>1, <2>1, FS_Subset
  <2>3. Table(u)[u] = IF u = {} THEN 0 ELSE f[Choice(u)] + Table(u)[u \ {Choice(u)}]
    <3> HIDE DEF u, Table
    <3> QED  BY <2>2 DEF Tabulates
  <2>4. u # {} => Table(u \ {Choice(u)})[u \ {Choice(u)}] = Table(u)[u \ {Choice(u)}]
    <3> SUFFICES ASSUME u # {} PROVE Table(u \ {Choice(u)})[u \ {Choice(u)}] = Table(u)[u \ {Choice(u)}]
      OBVIOUS
    <3> DEFINE v == u \ {Choice(u)}
    <3>1. v \in SUBSET u /\ v \in SUBSET T /\ v # T
      BY <2>1, ChoiceInSet
    <3>2. Tabulates(Table(v), f, v)
      BY <1>1, <3>1
    <3> HIDE DEF u, v, Table
    <3>3. Table(v)[v] = Table(u)[v]
      BY <2>2, <3>1, <3>2, TablesAgree
    <3> QED  BY <3>3 DEF v
  <2>5. h[u] = IF u = {} THEN 0 ELSE f[Choice(u)] + Table(u \ {Choice(u)})[u \ {Choice(u)}]
    <3> HIDE DEF u, Table
    <3> QED  BY <2>1
  <2> HIDE DEF u, Table, h
  <2>6. h[u] = Table(u)[u]
    BY <2>3, <2>4, <2>5
  <2> QED  BY <2>6 DEF u
<1>3. Tabulates(h, f, T)
  <2>1. ASSUME NEW s \in SUBSET T
        PROVE  h[s] = IF s = {} THEN 0 ELSE f[Choice(s)] + h[s \ {Choice(s)}]
    <3>1. h[s] = IF s = {} THEN 0
                 ELSE f[Choice(s)] + Table(s \ {Choice(s)})[s \ {Choice(s)}]
      <4> HIDE DEF Table
      <4> QED OBVIOUS
    <3> HIDE DEF h, Table
    <3> QED  BY <3>1, <1>2
  <2>2. h = [s \in SUBSET T |-> h[s]]
    <3> HIDE DEF Table
    <3> QED OBVIOUS
  <2> HIDE DEF h
  <2> QED  BY <2>1, <2>2 DEF Tabulates
<1>4. Tabulates(Table(T), f, T)
  <2> HIDE DEF h
  <2> QED  BY <1>3
<1> QED  BY <1>4

\* The sum over no element is 0.
LEMMA SumEmpty == \A f : SumFunctionOnSet(f, {}) = 0
<1> TAKE f
<1>1. Tabulates(CHOOSE g : Tabulates(g, f, {}), f, {})
  BY TableExists, FS_EmptySet
<1> QED  BY <1>1, SumIsChosen DEF Tabulates

\* A sum is its recursion's first element and the sum of the others.
LEMMA SumChoice ==
    ASSUME NEW f, NEW S, IsFiniteSet(S), S # {}
    PROVE  SumFunctionOnSet(f, S) = f[Choice(S)] + SumFunctionOnSet(f, S \ {Choice(S)})
<1> DEFINE Table(T) == CHOOSE g : Tabulates(g, f, T)
           c == Choice(S)
<1>1. Tabulates(Table(S), f, S) /\ Tabulates(Table(S \ {c}), f, S \ {c})
  BY TableExists, FS_RemoveElement
<1>2. SumFunctionOnSet(f, S) = Table(S)[S] /\ SumFunctionOnSet(f, S \ {c}) = Table(S \ {c})[S \ {c}]
  BY SumIsChosen
<1> HIDE DEF Table
<1>3. Table(S)[S] = f[c] + Table(S)[S \ {c}]
  BY <1>1 DEF Tabulates
<1>4. Table(S \ {c})[S \ {c}] = Table(S)[S \ {c}]
  BY <1>1, TablesAgree
<1> QED  BY <1>2, <1>3, <1>4

\* A sum of integers is an integer, and any element can be taken out of it.
LEMMA SumRemove ==
    ASSUME NEW S, IsFiniteSet(S), NEW f, \A x \in S : f[x] \in Int
    PROVE  \A T \in SUBSET S :
               /\ SumFunctionOnSet(f, T) \in Int
               /\ \A x \in T : SumFunctionOnSet(f, T) = f[x] + SumFunctionOnSet(f, T \ {x})
<1> DEFINE SumTo(T) == SumFunctionOnSet(f, T)
           Right(T) == SumTo(T) \in Int /\ \A x \in T : SumTo(T) = f[x] + SumTo(T \ {x})
           Bad == {T \in SUBSET S : ~ Right(T)}
<1> SUFFICES ASSUME Bad # {} PROVE FALSE
  OBVIOUS
<1>1. PICK T \in Bad : \A U \in SUBSET T : U # T => U \notin Bad
  <2>1. Bad \in SUBSET SUBSET S
    OBVIOUS
  <2> HIDE DEF Bad
  <2> QED  BY <2>1, SmallestSubset
<1>2. SumTo({}) = 0
  BY SumEmpty
<1> HIDE DEF SumTo
<1>3. T # {} /\ \A U \in SUBSET T : U # T => Right(U)
  <2>1. Right({})
    BY <1>2
  <2>2. ~ Right(T) /\ T \in SUBSET S
    BY <1>1
  <2>3. \A U \in SUBSET T : U # T => Right(U)
    BY <1>1
  <2> HIDE DEF Right
  <2> QED  BY <2>1, <2>2, <2>3
<1> DEFINE c == Choice(T)
<1>4. c \in T /\ SumTo(T) = f[c] + SumTo(T \ {c})
  BY <1>3, ChoiceInSet, SumChoice, FS_Subset DEF SumTo
<1>5. ASSUME NEW x \in T  PROVE SumTo(T) = f[x] + SumTo(T \ {x})
  <2>1. CASE x = c
    BY <1>4, <2>1
  <2>2. CASE x # c
    <3> DEFINE u == (T \ {x}) \ {c}
    <3>1. SumTo(T \ {c}) = f[x] + SumTo(u)
      <4>1. (T \ {c}) \ {x} = u
        OBVIOUS
      <4> QED  BY <1>3, <1>4, <2>2, <4>1
    <3>2. SumTo(T \ {x}) = f[c] + SumTo(u)
      BY <1>3, <1>4, <2>2
    <3>3. SumTo(u) \in Int /\ f[x] \in Int /\ f[c] \in Int
      <4>1. u \in SUBSET T /\ u # T
        OBVIOUS
      <4> QED  BY <1>3, <1>4, <4>1
    <3> HIDE DEF u, c
    <3> QED  BY <1>4, <3>1, <3>2, <3>3
  <2> QED  BY <2>1, <2>2
<1>6. SumTo(T) \in Int
  BY <1>3, <1>4
<1> QED  BY <1>1, <1>5, <1>6

\* One more index adds its value.
LEMMA SumAddElement ==
    ASSUME NEW S, IsFiniteSet(S), NEW x, x \notin S,
           NEW f, \A y \in S \cup {x} : f[y] \in Int
    PROVE  /\ SumFunctionOnSet(f, S) \in Int
           /\ SumFunctionOnSet(f, S \cup {x}) = SumFunctionOnSet(f, S) + f[x]
<1>1. IsFiniteSet(S \cup {x})
  BY FS_AddElement
<1>2. (S \cup {x}) \ {x} = S
  OBVIOUS
<1>3. SumFunctionOnSet(f, S) \in Int
  BY SumRemove
<1> QED  BY <1>1, <1>2, <1>3, SumRemove

\* The sum of f + g is the sum of f plus the sum of g.
LEMMA SumPlus ==
    ASSUME NEW S, IsFiniteSet(S), NEW f, NEW g, NEW h,
           \A x \in S : f[x] \in Int /\ g[x] \in Int /\ h[x] = f[x] + g[x]
    PROVE  SumFunctionOnSet(h, S) = SumFunctionOnSet(f, S) + SumFunctionOnSet(g, S)
<1> DEFINE Good == {T \in SUBSET S : SumFunctionOnSet(h, T) =
                          SumFunctionOnSet(f, T) + SumFunctionOnSet(g, T)}
<1>1. {} \in Good
  BY SumEmpty
<1>2. ASSUME NEW T \in SUBSET S, NEW x \in S \ T, T \in Good
      PROVE  T \cup {x} \in Good
  <2>1. IsFiniteSet(T)
    BY FS_Subset
  <2>2. \A y \in T \cup {x} : f[y] \in Int /\ g[y] \in Int /\ h[y] \in Int
    OBVIOUS
  <2>3. /\ SumFunctionOnSet(f, T) \in Int
        /\ SumFunctionOnSet(f, T \cup {x}) = SumFunctionOnSet(f, T) + f[x]
    BY <2>1, <2>2, SumAddElement
  <2>4. /\ SumFunctionOnSet(g, T) \in Int
        /\ SumFunctionOnSet(g, T \cup {x}) = SumFunctionOnSet(g, T) + g[x]
    BY <2>1, <2>2, SumAddElement
  <2>5. SumFunctionOnSet(h, T \cup {x}) = SumFunctionOnSet(h, T) + h[x]
    BY <2>1, <2>2, SumAddElement
  <2>6. /\ h[x] = f[x] + g[x] /\ f[x] \in Int /\ g[x] \in Int
        /\ SumFunctionOnSet(h, T) = SumFunctionOnSet(f, T) + SumFunctionOnSet(g, T)
    BY <1>2
  <2>7. SumFunctionOnSet(h, T \cup {x}) = 
           SumFunctionOnSet(f, T \cup {x}) + SumFunctionOnSet(g, T \cup {x})
    BY <2>3, <2>4, <2>5, <2>6
  <2> QED  BY <2>7
<1> HIDE DEF Good
<1>3. S \in Good
  BY <1>1, <1>2, SubsetInduction
<1> QED  BY <1>3 DEF Good

\* The sum depends on the values at its indices only.
LEMMA SumAgree ==
    ASSUME NEW S, IsFiniteSet(S), NEW f, NEW g,
           \A x \in S : f[x] \in Int /\ g[x] = f[x]
    PROVE  SumFunctionOnSet(g, S) = SumFunctionOnSet(f, S)
<1> DEFINE Good == {T \in SUBSET S : SumFunctionOnSet(g, T) = SumFunctionOnSet(f, T)}
<1>1. {} \in Good
  BY SumEmpty
<1>2. ASSUME NEW T \in SUBSET S, NEW x \in S \ T, T \in Good
      PROVE  T \cup {x} \in Good
  <2>1. IsFiniteSet(T)
    BY FS_Subset
  <2>2. \A y \in T \cup {x} : f[y] \in Int /\ g[y] \in Int
    OBVIOUS
  <2>3. SumFunctionOnSet(f, T \cup {x}) = SumFunctionOnSet(f, T) + f[x]
    BY <2>1, <2>2, SumAddElement
  <2>4. SumFunctionOnSet(g, T \cup {x}) = SumFunctionOnSet(g, T) + g[x]
    BY <2>1, <2>2, SumAddElement
  <2>5. g[x] = f[x]
    OBVIOUS
  <2>6. SumFunctionOnSet(f, T) = SumFunctionOnSet(g, T)
    BY <1>2
  <2>7. SumFunctionOnSet(f, T \cup {x}) = SumFunctionOnSet(g, T \cup {x})
    BY <2>3, <2>4, <2>5, <2>6
  <2> QED  BY <2>7
<1> HIDE DEF Good
<1>3. S \in Good
  BY <1>1, <1>2, SubsetInduction
<1> QED  BY <1>3 DEF Good

\* A change at one index changes the sum by as much.
LEMMA SumUpdate ==
    ASSUME NEW S, IsFiniteSet(S), NEW x \in S, NEW f, NEW g,
           \A y \in S : f[y] \in Int /\ g[y] \in Int /\ (y # x => g[y] = f[y])
    PROVE  /\ SumFunctionOnSet(f, S) \in Int
           /\ SumFunctionOnSet(g, S) = SumFunctionOnSet(f, S) + g[x] - f[x]
<1>1. /\ SumFunctionOnSet(f, S) \in Int
      /\ SumFunctionOnSet(f, S) = f[x] + SumFunctionOnSet(f, S \ {x})
      /\ SumFunctionOnSet(f, S \ {x}) \in Int
  BY SumRemove
<1>2. SumFunctionOnSet(g, S) = g[x] + SumFunctionOnSet(g, S \ {x})
  BY SumRemove
<1>3. SumFunctionOnSet(g, S \ {x}) = SumFunctionOnSet(f, S \ {x})
  BY SumAgree, FS_Subset
<1> QED  BY <1>1, <1>2, <1>3

-----------------------------------------------------------------------------
(* Conservation.                                                           *)

\* What the k-th statement of t adds to the balances of a unit.
UnitChange(t, unit) ==
    [k \in 1..Len(Program[t]) |->
        IF Program[t][k].row \in InUnit(unit) THEN Change(Program[t][k]) ELSE 0]

\* The statements of every transaction add up, unit by unit, to what it is said
\* to mint: the debit of a transfer, a gift or a settlement is the sum of its
\* credits, and only withdrawals and funded settlements have a difference.
ProgramsAddUp ==
    \A t \in Txns : \A unit \in Units :
        SumFunctionOnSet(UnitChange(t, unit), 1..Len(Program[t])) = Mint[t][unit]

Committed == {t \in Txns : phase[t] = "committed"}

\* The balances of one unit together are the initial ones and what was minted.
UnitBalanced(unit) ==
    SumFunctionOnSet(balance, InUnit(unit)) =
        SumFunctionOnSet(InitialBalance, InUnit(unit))
        + SumFunctionOnSet([t \in Txns |-> Mint[t][unit]], Committed)

\* Only finitely many transactions have committed, so their mints have a sum.
Balanced ==
    /\ IsFiniteSet(Committed)
    /\ \A unit \in Units : UnitBalanced(unit)

\* The statements 1..n of a program add, over the rows of a unit, what they
\* change in that unit.
LEMMA EffectAddsUp ==
    ASSUME IsFiniteSet(Rows), NEW t \in Txns, NEW unit \in Units,
           NEW n \in 0..Len(Program[t])
    PROVE  SumFunctionOnSet(Effect[t][n], InUnit(unit)) =
               SumFunctionOnSet(UnitChange(t, unit), 1..n)
  <1> DEFINE L == Len(Program[t])
             R == InUnit(unit)
             c == UnitChange(t, unit)
             OfRows(m) == SumFunctionOnSet(Effect[t][m], R)
             Bad == {1..m : m \in {m \in 0..L : OfRows(m) # SumFunctionOnSet(c, 1..m)}}
  <1>1. L \in Nat /\ IsFiniteSet(1..L)
    BY LengthFacts, FS_Interval
  <1>2. R \subseteq Rows /\ IsFiniteSet(R)
    BY FS_Subset DEF InUnit
  <1>3. \A k \in 1..L : c[k] \in Int /\ (Program[t][k].row \notin R => c[k] = 0)
                        /\ (Program[t][k].row \in R => c[k] = Change(Program[t][k]))
    BY StatementFacts DEF UnitChange
  <1>4. SUFFICES ASSUME Bad # {} PROVE FALSE
    BY <1>1
  <1>5. PICK T \in Bad : \A U \in SUBSET T : U # T => U \notin Bad
    <2> DEFINE S == 1..L
    <2>1. IsFiniteSet(S) /\ Bad \in SUBSET SUBSET S
      BY <1>1
    <2> HIDE DEF Bad, S
    <2> QED
      BY <1>4, <2>1, SmallestSubset
  <1>6. PICK m \in 0..L : T = 1..m /\ OfRows(m) # SumFunctionOnSet(c, 1..m)
    BY <1>5
  <1>7. m # 0
    <2>1. ASSUME m = 0 PROVE OfRows(0) = 0
      <3>1. \A row \in R : Effect[t][0][row] = 0
        BY <1>2, EffectFacts
      <3> DEFINE zero == [row \in R |-> 0]
      <3>2. SumFunctionOnSet(Effect[t][0], R) = SumFunctionOnSet(zero, R)
        BY <1>2, <3>1, SumAgree
      <3>3. SumFunctionOnSet(zero, R) = SumFunctionOnSet(zero, R) + SumFunctionOnSet(zero, R)
        BY <1>2, SumPlus
      <3>4. SumFunctionOnSet(zero, R) \in Int
        BY <1>2, SumRemove
      <3> QED
        BY <3>2, <3>3, <3>4
    <2>2. 1..0 = {}
      OBVIOUS
    <2> QED
      BY <1>6, <2>1, <2>2, SumEmpty
  <1>8. m \in 1..L /\ m - 1 \in 0..L
    BY <1>1, <1>6, <1>7
  <1>9. OfRows(m - 1) = SumFunctionOnSet(c, 1..(m - 1))
    <2>1. 1..(m - 1) \in SUBSET T /\ 1..(m - 1) # T
      BY <1>6, <1>8
    <2>2. 1..(m - 1) \notin Bad
      BY <1>5, <2>1
    <2> QED
      BY <1>8, <2>2
  <1>10. SumFunctionOnSet(c, 1..m) = SumFunctionOnSet(c, 1..(m - 1)) + c[m]
    <2> DEFINE before == 1..(m - 1)
    <2>1. m \in Int /\ m - 1 \in Int /\ L \in Int /\ 1 <= m /\ m <= L
      BY <1>1, <1>8
    <2>2. m \notin before /\ 1..m = before \cup {m} /\ \A k \in before \cup {m} : k \in 1..L
      BY <2>1
    <2>3. IsFiniteSet(before)
      BY <2>1, FS_Interval
    <2>4. \A k \in before \cup {m} : c[k] \in Int
      BY <1>3, <2>2
    <2> HIDE DEF c, before
    <2>5. SumFunctionOnSet(c, before \cup {m}) = SumFunctionOnSet(c, before) + c[m]
      BY <2>2, <2>3, <2>4, SumAddElement
    <2> QED
      BY <2>2, <2>5 DEF before
  <1>11. /\ OfRows(m - 1) \in Int
         /\ OfRows(m) = OfRows(m - 1) + c[m]
    <2> DEFINE x == Program[t][m].row
               f == Effect[t][m - 1]
               g == Effect[t][m]
    <2>1. \A row \in R : /\ f[row] \in Int /\ g[row] \in Int
                         /\ g[row] = f[row] + (IF row = x THEN Change(Program[t][m]) ELSE 0)
      BY <1>2, <1>8, EffectFacts
    <2>2. Change(Program[t][m]) \in Int
      BY <1>8, StatementFacts
    <2> HIDE DEF f, g, x
    <2>3. \A row \in R : row # x => g[row] = f[row]
      BY <2>1
    <2>4. SumFunctionOnSet(f, R) \in Int
      BY <1>2, <2>1, SumRemove
    <2>5. CASE x \in R
      <3>1. SumFunctionOnSet(g, R) = SumFunctionOnSet(f, R) + g[x] - f[x]
        BY <1>2, <2>1, <2>3, <2>5, SumUpdate
      <3>2. g[x] = f[x] + c[m] /\ f[x] \in Int /\ g[x] \in Int /\ c[m] \in Int
        BY <1>3, <1>8, <2>1, <2>2, <2>5 DEF x
      <3> QED
        BY <2>4, <3>1, <3>2 DEF f, g
    <2>6. CASE x \notin R
      <3>1. \A row \in R : g[row] = f[row]
        BY <2>3, <2>6
      <3>2. SumFunctionOnSet(g, R) = SumFunctionOnSet(f, R)
        BY <1>2, <2>1, <3>1, SumAgree
      <3>3. c[m] = 0
        BY <1>3, <1>8, <2>6 DEF x
      <3> QED
        BY <2>4, <3>2, <3>3 DEF f, g
    <2> QED
      BY <2>5, <2>6
  <1> QED
    BY <1>6, <1>9, <1>10, <1>11

LEMMA BalancedInit ==
    ASSUME IsFiniteSet(Rows), Init
    PROVE  Balanced
  <1>1. Committed = {} /\ balance = InitialBalance
    BY DEF Init, Committed
  <1>2. ASSUME NEW unit \in Units
        PROVE  UnitBalanced(unit)
    <2>1. InUnit(unit) \subseteq Rows /\ IsFiniteSet(InUnit(unit))
      BY FS_Subset DEF InUnit
    <2>2. \A row \in InUnit(unit) : InitialBalance[row] \in Int
      BY <2>1, LedgerAssumption DEF LedgerAssumption
    <2>3. SumFunctionOnSet(InitialBalance, InUnit(unit)) \in Int
      BY <2>1, <2>2, SumRemove
    <2> QED
      BY <1>1, <2>3, SumEmpty DEF UnitBalanced
  <1> QED
    BY <1>1, <1>2, FS_EmptySet DEF Balanced

\* A transaction that commits puts its whole effect in the balances.
LEMMA ApplyKeepsBalanced ==
    ASSUME IsFiniteSet(Rows), ProgramsAddUp, TypeOK, Balanced,
           NEW t \in Txns, phase[t] # "committed",
           phase' = [phase EXCEPT ![t] = "committed"],
           balance' = [row \in Rows |-> balance[row] + Effect[t][Len(Program[t])][row]]
    PROVE  Balanced'
  <1> DEFINE L == Len(Program[t])
  <1>1. t \notin Committed /\ Committed' = Committed \cup {t} /\ IsFiniteSet(Committed)
    BY DEF Committed, TypeOK, Balanced
  <1>2. IsFiniteSet(Committed')
    BY <1>1, FS_AddElement
  <1>3. ASSUME NEW unit \in Units
        PROVE  UnitBalanced(unit)'
    <2> DEFINE R == InUnit(unit)
               mints == [u \in Txns |-> Mint[u][unit]]
    <2>1. R \subseteq Rows /\ IsFiniteSet(R) /\ L \in 0..L
      BY FS_Subset, LengthFacts DEF InUnit
    <2>2. SumFunctionOnSet(Effect[t][L], R) = Mint[t][unit]
      BY <2>1, EffectAddsUp DEF ProgramsAddUp
    <2>3. /\ \A row \in R : /\ balance[row] \in Int
                            /\ Effect[t][L][row] \in Int
                            /\ balance'[row] = balance[row] + Effect[t][L][row]
      BY <2>1, EffectFacts DEF TypeOK
    <2>4. SumFunctionOnSet(balance', R) = SumFunctionOnSet(balance, R) + Mint[t][unit]
      <3> DEFINE f == balance
                 g == Effect[t][L]
                 h == balance'
      <3>1. \A row \in R : f[row] \in Int /\ g[row] \in Int /\ h[row] = f[row] + g[row]
        BY <2>3
      <3> HIDE DEF f, g, h, R
      <3>2. SumFunctionOnSet(h, R) = SumFunctionOnSet(f, R) + SumFunctionOnSet(g, R)
        BY <2>1, <3>1, SumPlus
      <3> QED
        BY <2>2, <3>2 DEF f, g, h
    <2>5. \A u \in Committed \cup {t} : mints[u] = Mint[u][unit] /\ mints[u] \in Int
      BY LedgerAssumption DEF LedgerAssumption, Committed
    <2>6. /\ SumFunctionOnSet(mints, Committed) \in Int
          /\ SumFunctionOnSet(mints, Committed \cup {t}) =
                 SumFunctionOnSet(mints, Committed) + Mint[t][unit]
      <3> HIDE DEF mints
      <3>1. /\ SumFunctionOnSet(mints, Committed) \in Int
            /\ SumFunctionOnSet(mints, Committed \cup {t}) =
                   SumFunctionOnSet(mints, Committed) + mints[t]
        BY <1>1, <2>5, SumAddElement
      <3> QED
        BY <2>5, <3>1
    <2>7. SumFunctionOnSet(balance, R) =
              SumFunctionOnSet(InitialBalance, R) + SumFunctionOnSet(mints, Committed)
      BY DEF Balanced, UnitBalanced
    <2>8. SumFunctionOnSet(InitialBalance, R) \in Int /\ Mint[t][unit] \in Int
      <3>1. \A row \in R : InitialBalance[row] \in Int
        BY <2>1, LedgerAssumption DEF LedgerAssumption
      <3> QED
        BY <2>1, <2>5, <3>1, SumRemove
    <2>9. SumFunctionOnSet(balance', R) =
              SumFunctionOnSet(InitialBalance, R) + SumFunctionOnSet(mints, Committed')
      <3> HIDE DEF mints, R
      <3> QED
        BY <1>1, <2>4, <2>6, <2>7, <2>8
    <2> QED
      BY <2>9 DEF UnitBalanced, InUnit
  <1> QED
    BY <1>2, <1>3 DEF Balanced

LEMMA BalancedNext ==
    ASSUME IsFiniteSet(Rows), ProgramsAddUp, LockInv, Balanced, [Next]_vars
    PROVE  Balanced'
  <1>1. ASSUME balance' = balance, Committed' = Committed PROVE Balanced'
    BY <1>1 DEF Balanced, UnitBalanced, InUnit
  <1>2. ASSUME NEW t \in Txns, RunCheck(t) \/ Commit(t) PROVE Balanced'
    <2>1. Atomic!Apply(t)
      BY <1>2, RunCheckIsApply, CommitIsApply
    <2>2. balance' = [row \in Rows |-> balance[row] + Effect[t][Len(Program[t])][row]]
      BY <2>1 DEF Atomic!Apply
    <2>3. phase[t] = "open" /\ phase' = [phase EXCEPT ![t] = "committed"]
      BY <1>2 DEF RunCheck, Commit, Pending
    <2> QED
      BY <2>2, <2>3, ApplyKeepsBalanced DEF LockInv
  <1>3. ASSUME NEW t \in Txns, Begin(t) \/ Write(t) PROVE Balanced'
    <2>1. balance' = balance /\ Committed' = Committed
      BY <1>3 DEF Begin, Ready, Write, Committed, LockInv, TypeOK
    <2> QED
      BY <1>1, <2>1
  <1>4. ASSUME NEW t \in Txns, NEW outcome \in {"refused", "failed"},
               phase[t] # "committed", Rollback(t, outcome)
        PROVE  Balanced'
    <2>1. balance' = balance /\ Committed' = Committed
      BY <1>4 DEF Rollback, Committed, LockInv, TypeOK
    <2> QED
      BY <1>1, <2>1
  <1>5. ASSUME NEW t \in Txns, Refuse(t) \/ Abort(t) \/ Crash(t) PROVE Balanced'
    <2>1. CASE Refuse(t)
      BY <2>1, <1>4 DEF Refuse, Pending
    <2>2. CASE Abort(t)
      BY <2>2, <1>4 DEF Abort, Deadlocked, Waits, Pending
    <2>3. CASE Crash(t)
      BY <2>3, <1>4 DEF Crash, Ready
    <2> QED
      BY <1>5, <2>1, <2>2, <2>3
  <1>6. CASE UNCHANGED vars
    BY <1>1, <1>6 DEF vars, Committed
  <1> QED
    BY <1>2, <1>3, <1>5, <1>6 DEF Next, Step

\* Over finitely many rows, and programs whose statements add up to what they
\* are said to mint, the balances of a unit are at every moment the initial ones
\* and what the committed transactions minted: a refusal, an abort or a crash
\* halfway moves nothing, and no interleaving loses or doubles a leg
\* (UnitsAreConserved).
THEOREM BalancesAreConserved ==
    ASSUME IsFiniteSet(Rows), ProgramsAddUp
    PROVE  Spec => []UnitsAreConserved
  <1>1. Init => Balanced
    BY BalancedInit
  <1>2. LockInv /\ Balanced /\ [Next]_vars => Balanced'
    BY BalancedNext
  <1>3. Balanced => UnitsAreConserved
    BY DEF Balanced, UnitBalanced, Committed, UnitsAreConserved
  <1> QED
    BY <1>1, <1>2, <1>3, LocksProtectGuards, PTL DEF Spec

-----------------------------------------------------------------------------
(* Programs that add up.                                                   *)

\* A transfer moves what it takes, also from a DID to itself.
THEOREM TransferAddsUp ==
    ASSUME NEW t \in Txns, NEW from, NEW to, NEW u, NEW amount, NEW unit \in Units,
           Program[t] = Transfer(from, to, u, amount)
    PROVE  SumFunctionOnSet(UnitChange(t, unit), 1..Len(Program[t])) = 0
  <1> DEFINE c == UnitChange(t, unit)
  <1>1. Len(Program[t]) = 2
    BY DEF Transfer
  <1>2. /\ Program[t][1] = [op |-> "guarded", row |-> <<from, u>>, amount |-> amount]
        /\ Program[t][2] = [op |-> "credit", row |-> <<to, u>>, amount |-> amount]
    BY DEF Transfer, Guarded, Credit, Statement
  <1>3. Program[t][1] \in Statements /\ Program[t][2] \in Statements
    <2>1. 1 \in 1..Len(Program[t]) /\ 2 \in 1..Len(Program[t])
      BY <1>1
    <2> QED
      BY <2>1, StatementFacts
  <1>4. amount \in Nat /\ <<from, u>> \in Rows /\ <<to, u>> \in Rows
    BY <1>2, <1>3 DEF Statements
  <1>5. Change(Program[t][1]) = -amount /\ Change(Program[t][2]) = amount
    BY <1>2 DEF Change
  <1>6. <<from, u>> \in InUnit(unit) <=> <<to, u>> \in InUnit(unit)
    BY <1>4 DEF InUnit
  <1>7. /\ c[1] = IF <<from, u>> \in InUnit(unit) THEN -amount ELSE 0
        /\ c[2] = IF <<from, u>> \in InUnit(unit) THEN amount ELSE 0
    BY <1>1, <1>2, <1>5, <1>6 DEF UnitChange
  <1>8. c[1] \in Int /\ c[2] \in Int /\ c[1] + c[2] = 0
    BY <1>4, <1>7
  <1> HIDE DEF c
  <1>9. SumFunctionOnSet(c, {1}) = c[1]
    <2>1. \A y \in {} \cup {1} : c[y] \in Int
      BY <1>8
    <2>2. SumFunctionOnSet(c, {} \cup {1}) = SumFunctionOnSet(c, {}) + c[1]
      BY <2>1, SumAddElement, FS_EmptySet
    <2> QED
      BY <1>8, <2>2, SumEmpty
  <1>10. SumFunctionOnSet(c, {1} \cup {2}) = c[1] + c[2]
    <2>1. \A y \in {1} \cup {2} : c[y] \in Int
      BY <1>8
    <2>2. SumFunctionOnSet(c, {1} \cup {2}) = SumFunctionOnSet(c, {1}) + c[2]
      <3>1. IsFiniteSet({1})
        BY FS_Singleton
      <3>2. 2 \notin {1}
        OBVIOUS
      <3> QED
        BY <2>1, <3>1, <3>2, SumAddElement
    <2> QED
      BY <1>9, <2>2
  <1>11. 1..2 = {1} \cup {2}
    OBVIOUS
  <1> QED
    BY <1>1, <1>8, <1>10, <1>11 DEF c

\* A withdrawal takes its amount out of MJN, and nothing out of MJNx.
THEOREM WithdrawalAddsUp ==
    ASSUME NEW t \in Txns, NEW did, NEW amount, NEW unit \in Units,
           Program[t] = Withdrawal(did, amount)
    PROVE  SumFunctionOnSet(UnitChange(t, unit), 1..Len(Program[t])) =
               IF unit = "MJN" THEN -amount ELSE 0
  <1> DEFINE c == UnitChange(t, unit)
  <1>1. Len(Program[t]) = 1
    BY DEF Withdrawal
  <1>2. Program[t][1] = [op |-> "guarded", row |-> <<did, "MJN">>, amount |-> amount]
    BY DEF Withdrawal, Guarded, Statement
  <1>3. Program[t][1] \in Statements
    <2>1. 1 \in 1..Len(Program[t])
      BY <1>1
    <2> QED
      BY <2>1, StatementFacts
  <1>4. amount \in Nat /\ <<did, "MJN">> \in Rows
    BY <1>2, <1>3 DEF Statements
  <1>5. c[1] = IF unit = "MJN" THEN -amount ELSE 0
    BY <1>1, <1>2, <1>4 DEF UnitChange, Change, InUnit
  <1>6. c[1] \in Int
    BY <1>4, <1>5
  <1> HIDE DEF c
  <1>7. SumFunctionOnSet(c, {} \cup {1}) = c[1]
    BY <1>6, SumAddElement, SumEmpty, FS_EmptySet
  <1>8. 1..1 = {} \cup {1}
    OBVIOUS
  <1> QED
    BY <1>1, <1>5, <1>7, <1>8 DEF c

\* A sum does not depend on where its indices start.
LEMMA SumShift ==
    ASSUME NEW n \in Nat, NEW f, NEW g,
           \A k \in 1..n : f[k] \in Int /\ g[k + 1] = f[k]
    PROVE  SumFunctionOnSet(g, 2..(n + 1)) = SumFunctionOnSet(f, 1..n)
  <1> DEFINE After1(T) == {k + 1 : k \in T}
             Good == {T \in SUBSET (1..n) :
                         SumFunctionOnSet(g, After1(T)) = SumFunctionOnSet(f, T)}
  <1>1. {} \in Good
    BY SumEmpty
  <1>2. ASSUME NEW T \in SUBSET (1..n), NEW x \in (1..n) \ T, T \in Good
        PROVE  T \cup {x} \in Good
    <2>1. IsFiniteSet(T) /\ IsFiniteSet(After1(T))
      <3>1. IsFiniteSet(1..n) /\ IsFiniteSet(1..(n + 1))
        BY FS_Interval
      <3>2. After1(T) \subseteq 1..(n + 1)
        OBVIOUS
      <3> HIDE DEF After1
      <3> QED
        BY <3>1, <3>2, FS_Subset
    <2>2. SumFunctionOnSet(f, T \cup {x}) = SumFunctionOnSet(f, T) + f[x]
      <3>1. \A y \in T \cup {x} : f[y] \in Int
        OBVIOUS
      <3> QED
        BY <2>1, <3>1, SumAddElement
    <2>3. x + 1 \notin After1(T) /\ \A y \in After1(T) \cup {x + 1} : g[y] \in Int
      OBVIOUS
    <2>4. After1(T \cup {x}) = After1(T) \cup {x + 1}
      OBVIOUS
    <2>5. SumFunctionOnSet(g, After1(T)) = SumFunctionOnSet(f, T)
      BY <1>2
    <2> HIDE DEF After1
    <2>6. SumFunctionOnSet(g, After1(T) \cup {x + 1})
              = SumFunctionOnSet(g, After1(T)) + g[x + 1]
      BY <2>1, <2>3, SumAddElement
    <2>7. SumFunctionOnSet(g, After1(T \cup {x})) = SumFunctionOnSet(f, T \cup {x})
      BY <2>2, <2>4, <2>5, <2>6
    <2> QED
      BY <2>7
  <1>3. IsFiniteSet(1..n)
    BY FS_Interval
  <1>4. After1(1..n) = 2..(n + 1)
    <2>1. ASSUME NEW y \in 2..(n + 1) PROVE y \in After1(1..n)
      <3>1. y - 1 \in 1..n /\ y = (y - 1) + 1
        OBVIOUS
      <3> QED
        BY <3>1
    <2>2. After1(1..n) \subseteq 2..(n + 1)
      OBVIOUS
    <2> QED
      BY <2>1, <2>2
  <1> HIDE DEF Good
  <1>5. 1..n \in Good
    BY <1>1, <1>2, <1>3, SubsetInduction
  <1> HIDE DEF After1
  <1> QED
    BY <1>4, <1>5 DEF Good

\* A settlement from the balance moves what its chain adds up to, less the total
\* it debits: nothing is minted if the two agree, and validateChain lets them
\* differ by a cent, which is then made or lost.
THEOREM SettlementAddsUp ==
    ASSUME NEW t \in Txns, NEW from, NEW u, NEW total, NEW Shares,
           NEW chain \in Seq(Shares), NEW unit \in Units,
           Program[t] = Settle(from, u, total, chain)
    PROVE  SumFunctionOnSet(UnitChange(t, unit), 1..Len(Program[t])) =
               IF unit = u
               THEN SumFunctionOnSet([k \in 1..Len(chain) |-> chain[k].amount],
                                     1..Len(chain)) - total
               ELSE 0
  <1> DEFINE n == Len(chain)
             c == UnitChange(t, unit)
             f == [k \in 1..n |-> IF unit = u THEN chain[k].amount ELSE 0]
             a == [k \in 1..n |-> chain[k].amount]
  <1>1. n \in Nat /\ IsFiniteSet(1..n)
    BY FS_Interval
  <1>2. /\ Len(Program[t]) = n + 1
        /\ Program[t][1] = [op |-> "debit", row |-> <<from, u>>, amount |-> total]
        /\ \A k \in 1..n : Program[t][k + 1] =
               [op |-> "credit", row |-> <<chain[k].did, u>>, amount |-> chain[k].amount]
    BY <1>1 DEF Settle, ChainCredits, Debit, Credit, Statement
  <1>3. total \in Nat /\ <<from, u>> \in Rows
    <2>1. 1 \in 1..Len(Program[t])
      BY <1>1, <1>2
    <2> QED
      BY <1>2, <2>1, StatementFacts
  <1>4. ASSUME NEW k \in 1..n
        PROVE  /\ chain[k].amount \in Nat /\ <<chain[k].did, u>> \in Rows
               /\ Program[t][k + 1].row = <<chain[k].did, u>>
               /\ Program[t][k + 1].amount = chain[k].amount
               /\ Program[t][k + 1].op = "credit"
    <2>1. k + 1 \in 1..Len(Program[t])
      BY <1>1, <1>2
    <2>2. Program[t][k + 1].row \in Rows /\ Program[t][k + 1].amount \in Nat
      BY <2>1, StatementFacts
    <2>3. Program[t][k + 1] =
              [op |-> "credit", row |-> <<chain[k].did, u>>, amount |-> chain[k].amount]
      BY <1>2
    <2>4. /\ Program[t][k + 1].row = <<chain[k].did, u>>
          /\ Program[t][k + 1].amount = chain[k].amount
          /\ Program[t][k + 1].op = "credit"
      BY <2>3
    <2> QED
      BY <2>2, <2>4
  <1>5. c[1] = IF unit = u THEN -total ELSE 0
    <2>1. 1 \in 1..Len(Program[t])
      BY <1>1, <1>2
    <2>2. c[1] = IF Program[t][1].row \in InUnit(unit) THEN Change(Program[t][1]) ELSE 0
      BY <2>1 DEF UnitChange
    <2>3. Change(Program[t][1]) = -total
      BY <1>2 DEF Change
    <2>4. Program[t][1].row \in InUnit(unit) <=> unit = u
      BY <1>2, <1>3 DEF InUnit
    <2> HIDE DEF c
    <2> QED
      BY <2>2, <2>3, <2>4
  <1>6. \A k \in 1..n : f[k] \in Int /\ c[k + 1] = f[k]
    <2> TAKE k \in 1..n
    <2>1. k + 1 \in 1..Len(Program[t])
      BY <1>1, <1>2
    <2>2. c[k + 1] = IF Program[t][k + 1].row \in InUnit(unit)
                     THEN Change(Program[t][k + 1]) ELSE 0
      BY <2>1 DEF UnitChange
    <2>3. Change(Program[t][k + 1]) = chain[k].amount
      BY <1>4 DEF Change
    <2>4. Program[t][k + 1].row \in InUnit(unit) <=> unit = u
      <3>1. <<chain[k].did, u>> \in Rows /\ Program[t][k + 1].row = <<chain[k].did, u>>
        BY <1>4
      <3>2. <<chain[k].did, u>> \in InUnit(unit) <=> unit = u
        BY <3>1 DEF InUnit
      <3> QED
        BY <3>1, <3>2
    <2>5. f[k] = IF unit = u THEN chain[k].amount ELSE 0
      OBVIOUS
    <2>6. chain[k].amount \in Nat
      BY <1>4
    <2> HIDE DEF c, f
    <2> QED
      BY <2>2, <2>3, <2>4, <2>5, <2>6
  <1> HIDE DEF c
  <1>7. SumFunctionOnSet(c, 2..(n + 1)) = SumFunctionOnSet(f, 1..n)
    <2> HIDE DEF f, n
    <2> QED
      BY <1>1, <1>6, SumShift
  <1>8. SumFunctionOnSet(c, 1..(n + 1)) = SumFunctionOnSet(c, 2..(n + 1)) + c[1]
    <2>1. IsFiniteSet(2..(n + 1)) /\ 1 \notin 2..(n + 1)
      BY <1>1, FS_Interval
    <2>2. 1..(n + 1) = 2..(n + 1) \cup {1}
      BY <1>1
    <2>3. ASSUME NEW y \in 2..(n + 1) PROVE c[y] \in Int
      <3>1. y - 1 \in 1..n /\ c[(y - 1) + 1] = f[y - 1] /\ f[y - 1] \in Int
        BY <1>1, <1>6
      <3>2. (y - 1) + 1 = y
        OBVIOUS
      <3> QED
        BY <3>1, <3>2
    <2>4. c[1] \in Int
      BY <1>3, <1>5
    <2> HIDE DEF n
    <2>5. \A y \in 2..(n + 1) \cup {1} : c[y] \in Int
      BY <2>3, <2>4
    <2> QED
      BY <2>1, <2>2, <2>5, SumAddElement
  <1>9. CASE unit = u
    <2>1. f = a
      BY <1>9
    <2>2. SumFunctionOnSet(a, 1..n) \in Int
      <3>1. ASSUME NEW k \in 1..n PROVE a[k] \in Int
        <4>1. chain[k].amount \in Nat
          BY <1>4
        <4> QED
          BY <4>1
      <3> HIDE DEF a, n
      <3> QED
        BY <1>1, <3>1, SumRemove
    <2> HIDE DEF f
    <2> QED
      BY <1>2, <1>3, <1>5, <1>7, <1>8, <1>9, <2>1, <2>2 DEF c
  <1>10. CASE unit # u
    <2>1. SumFunctionOnSet(f, 1..n) = 0
      <3> DEFINE Good == {T \in SUBSET (1..n) : SumFunctionOnSet(f, T) = 0}
      <3>1. {} \in Good
        BY SumEmpty
      <3>2. ASSUME NEW T \in SUBSET (1..n), NEW x \in (1..n) \ T, T \in Good
            PROVE  T \cup {x} \in Good
        <4>1. \A y \in T \cup {x} : f[y] \in Int
          BY <1>6
        <4>2. SumFunctionOnSet(f, T \cup {x}) = SumFunctionOnSet(f, T) + f[x]
          <5>1. IsFiniteSet(T)
            BY <1>1, FS_Subset
          <5> HIDE DEF f
          <5> QED
            BY <4>1, <5>1, SumAddElement
        <4>3. f[x] = 0
          BY <1>10
        <4> HIDE DEF f
        <4> QED
          BY <3>2, <4>2, <4>3
      <3> HIDE DEF Good
      <3>3. 1..n \in Good
        <4> HIDE DEF n
        <4> QED
          BY <1>1, <3>1, <3>2, SubsetInduction
      <3> QED
        BY <3>3 DEF Good
    <2> HIDE DEF f
    <2> QED
      BY <1>2, <1>5, <1>7, <1>8, <1>10, <2>1 DEF c
  <1> QED
    BY <1>9, <1>10
=============================================================================

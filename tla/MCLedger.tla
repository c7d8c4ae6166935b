------------------------------ MODULE MCLedger ------------------------------
(***************************************************************************)
(* TLC instances of Ledger: the requests of a few routes over the balances *)
(* of four DIDs, chosen so that their transactions meet on the same rows   *)
(* in opposite orders and the balances do not cover all of them.           *)
(***************************************************************************)
EXTENDS Ledger, LedgerRoutes, TLC

CONSTANTS alice, bob, carol, dave

MCDids == {alice, bob, carol, dave}
MCRows == MCDids \X Units

\* alice and dave have 2 MJN, bob 1, carol none; alice has 1 MJNx.
MCBalance == [row \in MCRows |->
    CASE row \in {<<alice, "MJN">>, <<dave, "MJN">>} -> 2
      [] row \in {<<bob, "MJN">>, <<alice, "MJNx">>} -> 1
      [] OTHER -> 0]

Nothing == [unit \in Units |-> 0]
Only(unit, n) == [Nothing EXCEPT ![unit] = n]

\* A transaction: its program, its predecessor, and what it mints.
Txn(program, after, mint) == [program |-> program, after |-> after, mint |-> mint]
Moving(program) == Txn(program, NoTxn, Nothing)

Share(did, amount, role) == [did |-> did, amount |-> amount, role |-> role]
Chain     == <<Share(bob, 1, "presence-owner"), Share(carol, 1, "infrastructure")>>
SaleChain == <<Share(alice, 1, "seller"), Share(carol, 1, "platform"),
               Share(bob, 1, "infrastructure")>>

Settlement(from) ==
       "check"      :> Moving(SettleCheck(from, "MJN", 2))
    @@ "settle"     :> Txn(Settle(from, "MJN", 2, Chain), "check", Nothing)

\* transfer and gift lock alice's and bob's MJN rows in opposite orders, and so
\* do settle and sale with bob's and carol's.
Transfers ==
       "transfer"   :> Moving(Transfer(alice, bob, "MJN", 2))
    @@ "bonus"      :> Moving(Transfer(alice, bob, "MJNx", 1))
    @@ "gift"       :> Moving(Gift(bob, <<[did |-> alice, cash |-> 1, credit |-> 1],
                                          [did |-> carol, cash |-> 0, credit |-> 0]>>))

Routes ==
       "event"      :> Moving(EventTopup(bob, 1, 2, <<alice>>))
    @@ "withdrawal" :> Txn(Withdrawal(bob, 1), NoTxn, Only("MJN", -1))
    @@ "sale"       :> Txn(SettleFunded(SaleChain), NoTxn, Only("MJN", 2))

ASSUME ValidChain(Chain, 2) /\ ValidChain(SaleChain, 3)

\* Every route at once, the settlement's payer being on its own: the event and
\* the withdrawal compete for bob's MJN, and only after the bonus has reached
\* bob is the second leg of the event's debit covered.  And a settlement against
\* a transfer of the same payer.
Everything    == Settlement(dave) @@ Routes
                     @@ [t \in {"bonus"} |-> Transfers[t]]
OneSettlement == Settlement(alice) @@ Transfers

Programs(txns) == [t \in DOMAIN txns |-> txns[t].program]
Afters(txns)   == [t \in DOMAIN txns |-> txns[t].after]
Mints(txns)    == [t \in DOMAIN txns |-> txns[t].mint]
Effects(txns)  ==
    [t \in DOMAIN txns |-> [n \in 0..Len(txns[t].program) |-> [row \in MCRows |->
        FoldSeq(LAMBDA s, sum : sum + (IF s.row = row THEN Change(s) ELSE 0),
                0, SubSeq(txns[t].program, 1, n))]]]

EverythingTxns     == DOMAIN Everything
EverythingPrograms == Programs(Everything)
EverythingAfter    == Afters(Everything)
EverythingMint     == Mints(Everything)
EverythingEffect   == Effects(Everything)

SettlementTxns     == DOMAIN OneSettlement
SettlementPrograms == Programs(OneSettlement)
SettlementAfter    == Afters(OneSettlement)
SettlementMint     == Mints(OneSettlement)
SettlementEffect   == Effects(OneSettlement)
=============================================================================

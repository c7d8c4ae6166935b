---------------------------- MODULE LedgerRoutes ----------------------------
(***************************************************************************)
(* What each pay route asks of the database: the statements on             *)
(* pay.balances that its transaction runs, in the order it runs them.  A   *)
(* row of the table is a pair <<did, unit>>.                               *)
(*                                                                         *)
(*   "guarded"  UPDATE ... SET amount = amount - x WHERE amount >= x       *)
(*   "debit"    UPDATE ... SET amount = amount - x, unconditionally        *)
(*   "credit"   INSERT ... ON CONFLICT DO UPDATE SET amount = amount + x   *)
(*   "check"    SELECT, and the request ends here if amount < x            *)
(*                                                                         *)
(* Before some definitions stands a deliberately wrong variant, used       *)
(* nowhere in the modules; README.md, `Mutants', lists them.               *)
(***************************************************************************)
EXTENDS Integers, SequencesExt

Statement(op, did, unit, amount) ==
    [op |-> op, row |-> <<did, unit>>, amount |-> amount]

\* debitUnitIfSufficient, debitUnit, creditUnit, getBalanceRow.
Guarded(did, unit, amount) == Statement("guarded", did, unit, amount)
Debit(did, unit, amount)   == Statement("debit", did, unit, amount)
Credit(did, unit, amount)  == Statement("credit", did, unit, amount)
Check(did, unit, amount)   == Statement("check", did, unit, amount)

\* Statements of zero amount are skipped, in debits and in credits.
Nonzero(stmts) == SelectSeq(stmts, LAMBDA s : s.amount > 0)

\* debitFundedLegs: the MJN leg, then the MJNx leg.
FundedLegs(did, cash, credit) ==
    Nonzero(<<Guarded(did, "MJN", cash), Guarded(did, "MJNx", credit)>>)

\* POST balance/transfer, one unit, from one DID to another.
Transfer(from, to, unit, amount) ==
    <<Guarded(from, unit, amount), Credit(to, unit, amount)>>

\* POST balance/gift.  `gifts' is a sequence of [did, cash, credit].
GiftCredits(gifts) ==
    Nonzero(FlattenSeq([k \in 1..Len(gifts) |->
        <<Credit(gifts[k].did, "MJN", gifts[k].cash),
          Credit(gifts[k].did, "MJNx", gifts[k].credit)>>]))

SumOf(gifts, Part(_)) == FoldSeq(LAMBDA g, sum : Part(g) + sum, 0, gifts)

GiftMintsCredits(from, gifts) ==
    FundedLegs(from, SumOf(gifts, LAMBDA g : g.cash), 0) \o GiftCredits(gifts)

Gift(from, gifts) ==
    FundedLegs(from, SumOf(gifts, LAMBDA g : g.cash), SumOf(gifts, LAMBDA g : g.credit))
        \o GiftCredits(gifts)

\* POST balance/event-topup: the ticket price back in MJN, and multiplier - 1
\* times that price in MJNx, to every recipient.
Bonus(multiplier) == multiplier - 1

EventTopup(from, price, multiplier, dids) ==
    Gift(from, [k \in 1..Len(dids) |->
                  [did |-> dids[k], cash |-> price, credit |-> price * Bonus(multiplier)]])

\* POST balance/withdraw/request, and the reservation of balance/withdraw.
Withdrawal(did, amount) == <<Guarded(did, "MJN", amount)>>

\* settlePayment, `chain' a sequence of [did, amount, role].  The balance is
\* checked before the transaction (SettleCheck); an externally funded
\* settlement debits nobody and credits MJN to all but the sellers.
SettleCheck(from, unit, total) == <<Check(from, unit, total)>>

\* validateChain: the amounts, in cents, add up to the total to within one.
ValidChain(chain, total) ==
    LET sum == SumOf(chain, LAMBDA e : e.amount)
    IN  sum - total \in -1..1

ChainCredits(chain, unit) ==
    [k \in 1..Len(chain) |-> Credit(chain[k].did, unit, chain[k].amount)]

Settle(from, unit, total, chain) ==
    <<Debit(from, unit, total)>> \o ChainCredits(chain, unit)

SellerRoles == {"seller", "creator", "event"}

SettleFunded(chain) ==
    ChainCredits(SelectSeq(chain, LAMBDA e : e.role \notin SellerRoles), "MJN")
=============================================================================

------------------------------ MODULE Checkout ------------------------------
(***************************************************************************)
(* One Stripe checkout session of the pay service, after it is paid: the   *)
(* webhook deliveries that complete its transaction row and distribute its *)
(* .fair chain (app/pay/api/webhook/route.ts, webhook-handlers.ts), and    *)
(* the refund requests against it (app/pay/api/refund/route.ts,            *)
(* refund.ts).  None of it runs in a database transaction except the       *)
(* crediting of a top-up, so every statement is a step of its own.         *)
(*                                                                         *)
(* Before some definitions stands a deliberately wrong variant, used       *)
(* nowhere in the modules; README.md, `Mutants', lists them.               *)
(***************************************************************************)
EXTENDS Integers, FiniteSets, Sequences, FiniteSetsExt, Functions

CONSTANTS Kind,         \* "topup" or "sale"
          Chain,        \* the .fair chain: a sequence of [seller, amount]
          Adjusted,     \* the processor's fee differs from the estimate
          Total,        \* what the buyer paid
          Deliveries,   \* deliveries of checkout.session.completed
          Refunds,      \* requests to refund
          RefundAmount, \* [Refunds -> 0..Total], 0 if the request names none
          Settlements,  \* the entries the events service settles for the order
          Faults        \* subset of FaultKinds

FaultKinds == {"overlap", "crash", "lost"}

ASSUME CheckoutAssumption ==
    /\ Kind \in {"topup", "sale"}
    /\ Chain \in Seq([seller : BOOLEAN, amount : Nat])
    /\ Adjusted \in BOOLEAN
    /\ Adjusted => \E k \in 1..Len(Chain) : Chain[k].seller
    /\ Total \in Nat \ {0}
    /\ IsFiniteSet(Deliveries) /\ IsFiniteSet(Refunds) /\ IsFiniteSet(Settlements)
    /\ RefundAmount \in [Refunds -> 0..Total]
    /\ Faults \subseteq FaultKinds

-----------------------------------------------------------------------------
(* The statements a delivery runs after it has marked the row, in order:  *)
(* three for each entry of the chain, after three for the processor's fee, *)
(* which is entry 0.                                                       *)

\* The fee, its rebate or surcharge and that one's credit; for an entry its row
\* in the fee ledger, its credit and the daily rollup.
CreditFirst(k) == IF k = 0 THEN <<"fee", "row", "credit">> ELSE <<"credit", "row", "rollup">>

Ops(k) == IF k = 0 THEN <<"fee", "row", "credit">> ELSE <<"row", "credit", "rollup">>

\* Nothing is distributed for a row without a chain, which a top-up's has not:
\* handleTopupCheckout inserts its receipt and credits it in one transaction.
Last == IF Kind = "topup" THEN 1 ELSE IF Chain = <<>> THEN 0 ELSE 3 * (Len(Chain) + 1)

Slots == 1..Last
Entry(i) == (i - 1) \div 3
Op(i) == IF Kind = "topup" THEN "topup" ELSE Ops(Entry(i))[((i - 1) % 3) + 1]

\* An entry of no amount is skipped, and a seller gets its row only.
Runs(i) ==
    \/ Op(i) \in {"topup", "fee"}
    \/ Entry(i) = 0 /\ Adjusted
    \/ /\ Entry(i) > 0 /\ Chain[Entry(i)].amount > 0
       /\ Op(i) = "row" \/ ~Chain[Entry(i)].seller

-----------------------------------------------------------------------------
VARIABLES
    status,    \* of the checkout's row in pay.transactions
    ran,       \* how often each statement has run
    delivery,  \* where each delivery is
    at,        \* the statement it runs next
    told,      \* the events service has been notified
    settled,   \* the status of each settlement row, "none" before it exists
    made,      \* what Stripe has given back for each refund
    rows,      \* the refunds with a row in pay.transactions
    clawed,    \* the refunds whose payee has been debited
    paid,      \* the refunds whose payer has been credited
    refund,    \* the state of each refund request
    reversed,  \* reversed[e][r]: what the rows of r take back of e, of Total
    debited    \* debited[e][r]: what r has debited e's recipient, of Total

webhookVars == <<ran, delivery, at, told>>
ledgerVars  == <<made, rows, clawed, paid, reversed, debited>>
vars == <<status, webhookVars, settled, ledgerVars, refund>>

Live(d) == delivery[d] \in {"marking", "working"}

\* Where a refund request is; what it has read: the refund rows, and whether with
\* them the refund is a full one, the entries to reverse, and those still to do.
PCs == {"new", "summing", "calling", "returned", "marked", "recorded", "clawed", "paid",
        "reversing", "reversal_row", "reversal_debit", "done", "refused", "failed"}

RefundState == [pc : PCs, seen : SUBSET Refunds, full : BOOLEAN,
                entries : SUBSET Settlements, todo : SUBSET Settlements,
                current : SUBSET Settlements]

\* A delivery that dies before it has marked the row is `failed', after that `lost'.
TypeOK ==
    /\ status \in {"pending", "completed", "partially_refunded", "refunded"}
    /\ ran \in [Slots -> Nat]
    /\ delivery \in [Deliveries -> {"new", "marking", "working", "acked", "failed", "lost"}]
    /\ at \in [Deliveries -> 1..(Last + 1)]
    /\ told \in BOOLEAN
    /\ settled \in [Settlements -> {"none", "completed", "partially_refunded", "refunded"}]
    /\ made \in [Refunds -> Nat] /\ rows \subseteq Refunds
    /\ clawed \subseteq Refunds /\ paid \subseteq Refunds
    /\ refund \in [Refunds -> RefundState]
    /\ reversed \in [Settlements -> [Refunds -> Nat]]
    /\ debited \in [Settlements -> [Refunds -> Nat]]

Init ==
    /\ status = "pending"
    /\ ran = [i \in Slots |-> 0]
    /\ delivery = [d \in Deliveries |-> "new"]
    /\ at = [d \in Deliveries |-> 1]
    /\ told = FALSE
    /\ settled = [e \in Settlements |-> "none"]
    /\ made = [r \in Refunds |-> 0] /\ rows = {} /\ clawed = {} /\ paid = {}
    /\ refund = [r \in Refunds |-> [pc |-> "new", seen |-> {}, full |-> FALSE,
                                    entries |-> {}, todo |-> {}, current |-> {}]]
    /\ reversed = [e \in Settlements |-> [r \in Refunds |-> 0]]
    /\ debited = [e \in Settlements |-> [r \in Refunds |-> 0]]

-----------------------------------------------------------------------------
(* Webhook deliveries.                                                     *)

\* Stripe delivers the event again when a delivery was not answered with
\* success, and sometimes when it was; a slow one may still be running.
\* handleCheckoutCompleted reads the row and skips a completed one.
Deliver(d) ==
    /\ delivery[d] = "new"
    /\ "overlap" \in Faults \/ \A other \in Deliveries : ~Live(other)
    /\ delivery' = [delivery EXCEPT ![d] = IF status = "completed" THEN "acked" ELSE "marking"]
    /\ UNCHANGED <<status, ran, at, told, settled, ledgerVars, refund>>

\* The row becomes completed, whatever it was.
Mark(d) ==
    /\ delivery[d] = "marking"
    /\ status' = "completed"
    /\ delivery' = [delivery EXCEPT ![d] = "working"]
    /\ UNCHANGED <<ran, at, told, settled, ledgerVars, refund>>

\* processFairManifest, processChainDistribution, handleTopupCheckout.
WorkOnPastEnd(d) ==
    /\ delivery[d] = "working" /\ at[d] <= Last + 1
    /\ at' = [at EXCEPT ![d] = @ + 1]
    /\ UNCHANGED <<status, ran, delivery, told, settled, ledgerVars, refund>>

WorkOn(d) ==
    /\ delivery[d] = "working" /\ at[d] <= Last
    /\ ran' = [ran EXCEPT ![at[d]] = IF Runs(at[d]) THEN @ + 1 ELSE @]
    /\ at' = [at EXCEPT ![d] = @ + 1]
    /\ UNCHANGED <<status, delivery, told, settled, ledgerVars, refund>>

\* notifyCheckoutServices: a failure of the events service is only logged.
Notify(d) ==
    /\ delivery[d] = "working"
    /\ told' \in {told, Kind = "sale"}
    /\ delivery' = [delivery EXCEPT ![d] = "acked"]
    /\ UNCHANGED <<status, ran, at, settled, ledgerVars, refund>>

Finish(d) == at[d] = Last + 1 /\ Notify(d)

\* A statement throws, and Stripe gets a 500, or the process dies.  Stripe does
\* not give up before a delivery got past the marking: one stays to come.
FailureAcked(d) ==
    /\ "crash" \in Faults
    /\ Live(d)
    /\ delivery' = [delivery EXCEPT ![d] = "acked"]
    /\ UNCHANGED <<status, ran, at, told, settled, ledgerVars, refund>>

Fail(d) ==
    /\ "crash" \in Faults
    /\ \/ delivery[d] = "marking" /\ \E other \in Deliveries : delivery[other] = "new"
       \/ delivery[d] = "working"
    /\ delivery' = [delivery EXCEPT ![d] = IF @ = "marking" THEN "failed" ELSE "lost"]
    /\ UNCHANGED <<status, ran, at, told, settled, ledgerVars, refund>>

\* The events service publishes order.completed, which settlePayment turns into
\* one completed row for each entry, in one transaction.
EventsSettle ==
    /\ told
    /\ \E e \in Settlements : settled[e] = "none"
    /\ settled' = [e \in Settlements |-> "completed"]
    /\ UNCHANGED <<status, webhookVars, ledgerVars, refund>>

-----------------------------------------------------------------------------
(* Refund requests.                                                        *)

\* What the ledger books for a refund: all of the payment if it names no amount.
Booked == [r \in Refunds |-> IF RefundAmount[r] = 0 THEN Total ELSE RefundAmount[r]]
Sum(some) == SumFunctionOnSet(Booked, some)

\* What is left of the charge at Stripe, and what it would give back for r: all of
\* that if the request names no amount.
Remaining == Total - SumFunctionOnSet(made, Refunds)
Asked(r)  == IF RefundAmount[r] = 0 THEN Remaining ELSE RefundAmount[r]
Made      == {r \in Refunds : made[r] > 0}

At(r, pc) == refund[r].pc = pc
Goto(r, pc) == refund' = [refund EXCEPT ![r].pc = pc]

\* resolveOriginalTransaction, and the first check of checkRefundEligibility.
RefundLooksUp(r) ==
    /\ At(r, "new")
    /\ Goto(r, IF status = "refunded" THEN "refused" ELSE "summing")
    /\ UNCHANGED <<status, webhookVars, settled, ledgerVars>>

\* The rest of checkRefundEligibility: the refund rows there are now.
RefundSums(r) ==
    /\ At(r, "summing")
    /\ refund' = [refund EXCEPT
         ![r].seen = rows,
         ![r].pc = IF Sum(rows) + Booked[r] > Total THEN "refused" ELSE "calling"]
    /\ UNCHANGED <<status, webhookVars, settled, ledgerVars>>

\* Stripe gives back no more than is left.  Its answer may get lost.
StripeRefunds(r) ==
    /\ At(r, "calling")
    /\ Asked(r) \in 1..Remaining
    /\ made' = [made EXCEPT ![r] = Asked(r)]
    /\ \/ Goto(r, "returned")
       \/ "lost" \in Faults /\ Goto(r, "failed")
    /\ UNCHANGED <<status, webhookVars, settled, rows, clawed, paid, reversed, debited>>

RefusalIgnored(r) ==
    /\ At(r, "calling")
    /\ Asked(r) \notin 1..Remaining
    /\ Goto(r, "returned")
    /\ UNCHANGED <<status, webhookVars, settled, ledgerVars>>

StripeRefuses(r) ==
    /\ At(r, "calling")
    /\ Asked(r) \notin 1..Remaining
    /\ Goto(r, "failed")
    /\ UNCHANGED <<status, webhookVars, settled, ledgerVars>>

\* applyRefundLedgerUpdates, with the rows that were read before the call and the
\* amount that was requested, whatever Stripe's answer says.
MarkSkipsRow(r) ==
    /\ At(r, "returned")
    /\ status' = "refunded"
    /\ Goto(r, "recorded")
    /\ UNCHANGED <<webhookVars, settled, ledgerVars>>

RefundMarks(r) ==
    LET full == Sum(refund[r].seen) + Booked[r] >= Total
    IN  /\ At(r, "returned")
        /\ status' = IF full THEN "refunded" ELSE "partially_refunded"
        /\ refund' = [refund EXCEPT ![r].pc = "marked", ![r].full = full]
        /\ UNCHANGED <<webhookVars, settled, ledgerVars>>

RefundRecords(r) ==
    /\ At(r, "marked")
    /\ rows' = rows \cup {r}
    /\ Goto(r, "recorded")
    /\ UNCHANGED <<status, webhookVars, settled, made, clawed, paid, reversed, debited>>

\* adjustBalancesForRefund: the payee's debit, then the payer's credit.
RefundClaws(r) ==
    /\ At(r, "recorded")
    /\ clawed' = clawed \cup {r}
    /\ Goto(r, "clawed")
    /\ UNCHANGED <<status, webhookVars, settled, made, rows, paid, reversed, debited>>

RefundPays(r) ==
    /\ At(r, "clawed")
    /\ paid' = paid \cup {r}
    /\ Goto(r, "paid")
    /\ UNCHANGED <<status, webhookVars, settled, made, rows, clawed, reversed, debited>>

\* reverseSettlementEntries: the entries and their statuses are read once.
RefundSelects(r) ==
    /\ At(r, "paid")
    /\ refund' = [refund EXCEPT
         ![r].pc = "reversing",
         ![r].entries = {e \in Settlements : settled[e] # "none"},
         ![r].todo = {e \in Settlements : settled[e] \notin {"none", "refunded"}}]
    /\ UNCHANGED <<status, webhookVars, settled, ledgerVars>>

\* The share of an entry that r takes back, of Total.
ReversalShare(r) == Booked[r]

ReversalMarks(r) ==
    /\ At(r, "reversing")
    /\ \E e \in refund[r].todo :
         /\ settled' = [settled EXCEPT
              ![e] = IF refund[r].full THEN "refunded" ELSE "partially_refunded"]
         /\ refund' = [refund EXCEPT ![r].pc = "reversal_row", ![r].current = {e},
                                     ![r].todo = @ \ {e}]
    /\ UNCHANGED <<status, webhookVars, ledgerVars>>

ReversalRecords(r) ==
    /\ At(r, "reversal_row")
    /\ reversed' = [e \in Settlements |->
         IF e \in refund[r].current
         THEN [reversed[e] EXCEPT ![r] = @ + ReversalShare(r)] ELSE reversed[e]]
    /\ Goto(r, "reversal_debit")
    /\ UNCHANGED <<status, webhookVars, settled, made, rows, clawed, paid, debited>>

ReversalDebits(r) ==
    /\ At(r, "reversal_debit")
    /\ debited' = [e \in Settlements |->
         IF e \in refund[r].current
         THEN [debited[e] EXCEPT ![r] = @ + ReversalShare(r)] ELSE debited[e]]
    /\ refund' = [refund EXCEPT ![r].pc = "reversing", ![r].current = {}]
    /\ UNCHANGED <<status, webhookVars, settled, made, rows, clawed, paid, reversed>>

RefundEnds(r) ==
    /\ At(r, "reversing") /\ refund[r].todo = {}
    /\ Goto(r, "done")
    /\ UNCHANGED <<status, webhookVars, settled, ledgerVars>>

\* A statement throws, or the process dies: what has run stays.
RefundDies(r) ==
    /\ "crash" \in Faults
    /\ refund[r].pc \notin {"new", "done", "refused", "failed"}
    /\ Goto(r, "failed")
    /\ UNCHANGED <<status, webhookVars, settled, ledgerVars>>

-----------------------------------------------------------------------------
Webhook(d) == Deliver(d) \/ Mark(d) \/ WorkOn(d) \/ Finish(d)

RefundStep(r) ==
    \/ RefundLooksUp(r) \/ RefundSums(r) \/ StripeRefunds(r) \/ StripeRefuses(r)
    \/ RefundMarks(r) \/ RefundRecords(r) \/ RefundClaws(r) \/ RefundPays(r)
    \/ RefundSelects(r) \/ ReversalMarks(r) \/ ReversalRecords(r)
    \/ ReversalDebits(r) \/ RefundEnds(r)

Next ==
    \/ \E d \in Deliveries : Webhook(d) \/ Fail(d)
    \/ EventsSettle
    \/ \E r \in Refunds : RefundStep(r) \/ RefundDies(r)

Spec == Init /\ [][Next]_vars

\* Stripe goes on delivering, and the server goes on with what it has started.
FairSpec == Spec /\ \A d \in Deliveries : WF_vars(Webhook(d))

-----------------------------------------------------------------------------
(* Properties.                                                             *)

\* Through any failure, redelivery and overlap of deliveries, a credit is accounted
\* for by a fee-ledger row of its entry, and a rollup by a credit.
CreditsHaveRows ==
    \A i, j \in Slots :
        /\ Entry(i) = Entry(j)
        /\ <<Op(i), Op(j)>> \in {<<"credit", "row">>, <<"rollup", "credit">>}
        => ran[i] <= ran[j]

Distributed == \A i \in Slots : Runs(i) => ran[i] > 0

\* The events service, which issues the tickets, hears of a checkout only when
\* every share of it has been distributed (webhook/route.ts:223-230).
ToldAfterDistribution == told => Distributed

\* Every movement of a refund is one Stripe made and the ledger has a row for,
\* whatever answers are lost and wherever a request dies.
RefundsAreBacked == paid \subseteq clawed /\ clawed \subseteq rows /\ rows \subseteq Made

\* `Each reclaim their fair share without over-reversing' (refund.ts:184-185): the
\* reversals of a settlement entry add up to no more than the entry.
NeverOverReversed ==
    \A e \in Settlements : SumFunctionOnSet(reversed[e], Refunds) <= Total

\* A refund that named no amount got less than all, because of another one whose
\* row it did not find when it summed the rows.
OverbookedUnseen ==
    \E r, q \in Refunds :
        /\ RefundAmount[r] = 0 /\ made[r] \in 1..(Total - 1)
        /\ q # r /\ q \in Made /\ q \notin refund[r].seen

\* However many refunds run at the same time, die or lose their answer, more than
\* an entry is reversed only if one that named no amount was given what another had
\* left, which it could not see, and was booked for everything; and no recipient is
\* debited for more than the rows say.
OverReversedOnlyUnseen ==
    /\ NeverOverReversed \/ OverbookedUnseen
    /\ \A e \in Settlements, r \in Refunds : debited[e][r] <= reversed[e][r]

\* A paid checkout is distributed in the end, unless a delivery was lost in the
\* middle of it: the next one is skipped.
PaidIsDistributed ==
    <>(\/ Distributed
       \/ \E d \in Deliveries : delivery[d] = "lost")

\* `Idempotency: skip if already completed' (webhook/route.ts:211): no share of a
\* checkout is distributed twice.
DistributedOnce == \A i \in Slots : ran[i] <= 1
=============================================================================

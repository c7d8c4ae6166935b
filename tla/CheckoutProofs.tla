--------------------------- MODULE CheckoutProofs ---------------------------
(***************************************************************************)
(* Theorems about Checkout, for every chain, every number of deliveries    *)
(* and refunds, and every set of faults: how often a statement has run is  *)
(* how many deliveries are past it, every movement of a refund follows     *)
(* from one before it, and refunds together take no more back from an      *)
(* entry than was paid out of it, but for what one of them could not see.  *)
(***************************************************************************)
EXTENDS Checkout, FiniteSetTheorems, TLAPS

USE DEF webhookVars, ledgerVars

LEMMA LastIsNat == Last \in Nat
BY CheckoutAssumption DEF Last

\* Every refund is booked for something, and for no more than was paid.
LEMMA BookedType ==
    \A r \in Refunds : /\ Booked[r] \in 1..Total /\ Booked[r] \in Nat
                       /\ Booked[r] = IF RefundAmount[r] = 0 THEN Total ELSE RefundAmount[r]
<1> SUFFICES ASSUME NEW r \in Refunds
             PROVE  /\ Booked[r] \in 1..Total /\ Booked[r] \in Nat
                    /\ Booked[r] = IF RefundAmount[r] = 0 THEN Total ELSE RefundAmount[r]
  OBVIOUS
<1>1. RefundAmount[r] \in 0..Total /\ Total \in Nat \ {0}
  BY CheckoutAssumption
<1>2. Booked[r] = IF RefundAmount[r] = 0 THEN Total ELSE RefundAmount[r]
  BY DEF Booked
<1> QED BY <1>1, <1>2

-----------------------------------------------------------------------------
(* Type correctness.                                                       *)

\* The webhook's steps, and the events service's, keep the types.
LEMMA WebhookType ==
    ASSUME TypeOK, NEW d \in Deliveries, Webhook(d) \/ Fail(d)
    PROVE  TypeOK'
<1>1. CASE Deliver(d)
  BY <1>1 DEF Deliver, TypeOK
<1>2. CASE Mark(d)
  BY <1>2 DEF Mark, TypeOK
<1>3. CASE WorkOn(d)
  <2>1. at[d] \in Slots
    BY <1>3, LastIsNat DEF WorkOn, TypeOK, Slots
  <2>2. ran' \in [Slots -> Nat]
    BY <1>3, <2>1 DEF WorkOn, TypeOK
  <2>3. at' \in [Deliveries -> 1..(Last + 1)]
    BY <1>3, <2>1, LastIsNat DEF WorkOn, TypeOK, Slots
  <2> QED BY <1>3, <2>2, <2>3 DEF WorkOn, TypeOK
<1>4. CASE Finish(d)
  BY <1>4 DEF Finish, Notify, TypeOK
<1>5. CASE Fail(d)
  BY <1>5 DEF Fail, TypeOK
<1> QED
  BY <1>1, <1>2, <1>3, <1>4, <1>5 DEF Webhook

LEMMA GotoType ==
    ASSUME TypeOK, NEW r \in Refunds, NEW pc \in PCs, Goto(r, pc)
    PROVE  refund' \in [Refunds -> RefundState]
<1>1. [refund[r] EXCEPT !.pc = pc] \in RefundState
  <2>1. refund[r] \in RefundState
    BY DEF TypeOK
  <2> QED BY <2>1 DEF RefundState
<1>2. refund' = [refund EXCEPT ![r] = [refund[r] EXCEPT !.pc = pc]]
  BY DEF Goto
<1> QED BY <1>1, <1>2 DEF TypeOK

\* A refund's steps keep the types.
LEMMA RefundType ==
    ASSUME TypeOK, NEW r \in Refunds, RefundStep(r) \/ RefundDies(r)
    PROVE  TypeOK'
<1>0. Booked[r] \in Nat
  BY BookedType
<1>1. CASE RefundLooksUp(r)
  <2>1. refund' \in [Refunds -> RefundState]
    BY <1>1, GotoType DEF RefundLooksUp, PCs
  <2> QED BY <1>1, <2>1 DEF RefundLooksUp, TypeOK
<1>2. CASE RefundSums(r)
  <2> DEFINE pc == IF Sum(rows) + Booked[r] > Total THEN "refused" ELSE "calling"
             s == [refund[r] EXCEPT !.seen = rows, !.pc = pc]
  <2>1. pc \in PCs
    BY DEF PCs
  <2> HIDE DEF pc
  <2>2. s \in RefundState
    <3>1. refund[r] \in RefundState /\ rows \in SUBSET Refunds
      BY DEF TypeOK
    <3> QED BY <3>1, <2>1 DEF RefundState
  <2>3. refund' = [refund EXCEPT ![r] = s]
    BY <1>2 DEF RefundSums, pc
  <2>4. refund' \in [Refunds -> RefundState]
    BY <2>2, <2>3 DEF TypeOK
  <2> QED BY <1>2, <2>4 DEF RefundSums, TypeOK
<1>3. CASE StripeRefunds(r)
  <2>1. refund' \in [Refunds -> RefundState]
    BY <1>3, GotoType DEF StripeRefunds, PCs
  <2>2. made' \in [Refunds -> Nat]
    <3>1. Asked(r) \in Nat
      BY <1>3 DEF StripeRefunds
    <3> QED BY <1>3, <3>1 DEF StripeRefunds, TypeOK
  <2> QED BY <1>3, <2>1, <2>2 DEF StripeRefunds, TypeOK
<1>4. CASE StripeRefuses(r)
  <2>1. refund' \in [Refunds -> RefundState]
    BY <1>4, GotoType DEF StripeRefuses, PCs
  <2> QED BY <1>4, <2>1 DEF StripeRefuses, TypeOK
<1>5. CASE RefundMarks(r)
  <2> DEFINE full == Sum(refund[r].seen) + Booked[r] >= Total
             s == [refund[r] EXCEPT !.pc = "marked", !.full = full]
  <2>0. full \in BOOLEAN /\ "marked" \in PCs
    BY DEF PCs
  <2> HIDE DEF full
  <2>1. refund' \in [Refunds -> RefundState]
    <3>1. refund[r] \in RefundState
      BY DEF TypeOK
    <3>2. s \in RefundState
      BY <3>1, <2>0 DEF RefundState
    <3>3. refund' = [refund EXCEPT ![r] = s]
      BY <1>5 DEF RefundMarks, full
    <3> QED BY <3>2, <3>3 DEF TypeOK
  <2>2. status' \in {"refunded", "partially_refunded"}
    BY <1>5 DEF RefundMarks
  <2> QED BY <1>5, <2>1, <2>2 DEF RefundMarks, TypeOK
<1>6. CASE RefundRecords(r)
  <2>1. refund' \in [Refunds -> RefundState]
    BY <1>6, GotoType DEF RefundRecords, PCs
  <2> QED BY <1>6, <2>1 DEF RefundRecords, TypeOK
<1>7. CASE RefundClaws(r)
  <2>1. refund' \in [Refunds -> RefundState]
    BY <1>7, GotoType DEF RefundClaws, PCs
  <2> QED BY <1>7, <2>1 DEF RefundClaws, TypeOK
<1>8. CASE RefundPays(r)
  <2>1. refund' \in [Refunds -> RefundState]
    BY <1>8, GotoType DEF RefundPays, PCs
  <2> QED BY <1>8, <2>1 DEF RefundPays, TypeOK
<1>9. CASE RefundSelects(r)
  <2> DEFINE found == {e \in Settlements : settled[e] # "none"}
             open == {e \in Settlements : settled[e] \notin {"none", "refunded"}}
             s == [refund[r] EXCEPT !.pc = "reversing", !.entries = found, !.todo = open]
  <2>1. found \in SUBSET Settlements /\ open \in SUBSET Settlements /\ "reversing" \in PCs
    BY DEF PCs
  <2>2. refund' = [refund EXCEPT ![r] = s]
    BY <1>9 DEF RefundSelects
  <2> HIDE DEF found, open
  <2>3. s \in RefundState
    <3>1. refund[r] \in RefundState
      BY DEF TypeOK
    <3> QED BY <3>1, <2>1 DEF RefundState
  <2>4. refund' \in [Refunds -> RefundState]
    BY <2>2, <2>3 DEF TypeOK
  <2> QED BY <1>9, <2>4 DEF RefundSelects, TypeOK
<1>10. CASE ReversalMarks(r)
  <2>1. PICK e \in refund[r].todo :
          /\ settled' = [settled EXCEPT
               ![e] = IF refund[r].full THEN "refunded" ELSE "partially_refunded"]
          /\ refund' = [refund EXCEPT ![r].pc = "reversal_row", ![r].current = {e},
                                      ![r].todo = @ \ {e}]
    BY <1>10 DEF ReversalMarks
  <2>2. e \in Settlements
    BY <2>1 DEF TypeOK, RefundState
  <2>3. refund' \in [Refunds -> RefundState]
    <3> DEFINE s == [refund[r] EXCEPT !.pc = "reversal_row", !.current = {e},
                                      !.todo = @ \ {e}]
    <3>1. refund[r] \in RefundState /\ "reversal_row" \in PCs
      BY DEF TypeOK, PCs
    <3>2. s \in RefundState
      BY <3>1, <2>2 DEF RefundState
    <3>3. refund' = [refund EXCEPT ![r] = s]
      BY <2>1
    <3> QED BY <3>2, <3>3 DEF TypeOK
  <2>4. settled' \in [Settlements -> {"none", "completed", "partially_refunded", "refunded"}]
    BY <2>1, <2>2 DEF TypeOK
  <2> QED BY <1>10, <2>3, <2>4 DEF ReversalMarks, TypeOK
<1>11. CASE ReversalRecords(r)
  <2>1. refund' \in [Refunds -> RefundState]
    BY <1>11, GotoType DEF ReversalRecords, PCs
  <2>2. reversed' \in [Settlements -> [Refunds -> Nat]]
    BY <1>11, <1>0 DEF ReversalRecords, ReversalShare, TypeOK
  <2> QED BY <1>11, <2>1, <2>2 DEF ReversalRecords, TypeOK
<1>12. CASE ReversalDebits(r)
  <2>1. refund' \in [Refunds -> RefundState]
    <3> DEFINE s == [refund[r] EXCEPT !.pc = "reversing", !.current = {}]
    <3>1. refund[r] \in RefundState /\ "reversing" \in PCs
      BY DEF TypeOK, PCs
    <3>2. s \in RefundState
      BY <3>1 DEF RefundState
    <3>3. refund' = [refund EXCEPT ![r] = s]
      BY <1>12 DEF ReversalDebits
    <3> QED BY <3>2, <3>3 DEF TypeOK
  <2>2. debited' \in [Settlements -> [Refunds -> Nat]]
    BY <1>12, <1>0 DEF ReversalDebits, ReversalShare, TypeOK
  <2> QED BY <1>12, <2>1, <2>2 DEF ReversalDebits, TypeOK
<1>13. CASE RefundEnds(r)
  <2>1. refund' \in [Refunds -> RefundState]
    BY <1>13, GotoType DEF RefundEnds, PCs
  <2> QED BY <1>13, <2>1 DEF RefundEnds, TypeOK
<1>14. CASE RefundDies(r)
  <2>1. refund' \in [Refunds -> RefundState]
    BY <1>14, GotoType DEF RefundDies, PCs
  <2> QED BY <1>14, <2>1 DEF RefundDies, TypeOK
<1> QED
  BY <1>1, <1>2, <1>3, <1>4, <1>5, <1>6, <1>7, <1>8, <1>9, <1>10, <1>11, <1>12,
     <1>13, <1>14 DEF RefundStep

\* The type invariant, for every instance.
THEOREM TypeCorrect == Spec => []TypeOK
<1>1. Init => TypeOK
  <2> SUFFICES ASSUME Init PROVE TypeOK
    OBVIOUS
  <2> DEFINE s == [pc |-> "new", seen |-> {}, full |-> FALSE,
                   entries |-> {}, todo |-> {}, current |-> {}]
  <2>1. s \in RefundState
    BY DEF RefundState, PCs
  <2>2. refund = [r \in Refunds |-> s]
    BY DEF Init
  <2> HIDE DEF s
  <2>3. refund \in [Refunds -> RefundState]
    BY <2>1, <2>2
  <2>4. at \in [Deliveries -> 1..(Last + 1)]
    BY LastIsNat DEF Init
  <2>5. /\ reversed \in [Settlements -> [Refunds -> Nat]]
        /\ debited \in [Settlements -> [Refunds -> Nat]]
    BY DEF Init
  <2> QED BY <2>3, <2>4, <2>5 DEF Init, TypeOK
<1>2. TypeOK /\ [Next]_vars => TypeOK'
  <2> SUFFICES ASSUME TypeOK, [Next]_vars PROVE TypeOK'
    OBVIOUS
  <2>1. CASE \E d \in Deliveries : Webhook(d) \/ Fail(d)
    BY <2>1, WebhookType
  <2>2. CASE EventsSettle
    BY <2>2 DEF EventsSettle, TypeOK
  <2>3. CASE \E r \in Refunds : RefundStep(r) \/ RefundDies(r)
    BY <2>3, RefundType
  <2>4. CASE UNCHANGED vars
    BY <2>4 DEF vars, TypeOK
  <2> QED BY <2>1, <2>2, <2>3, <2>4 DEF Next
<1> QED BY <1>1, <1>2, PTL DEF Spec

-----------------------------------------------------------------------------
(* The webhook.                                                            *)

Past(i) == {d \in Deliveries : at[d] > i}

\* A statement has run once for each delivery that is past it.
RanAsOftenAsPassed ==
    \A i \in Slots : ran[i] = IF Runs(i) THEN Cardinality(Past(i)) ELSE 0

\* Who has told the events service has run everything.
TellerIsDone == told => \E d \in Deliveries : at[d] = Last + 1

WebhookInv == TypeOK /\ RanAsOftenAsPassed /\ TellerIsDone

\* A delivery passes the statement it runs, and no other.
LEMMA WorkPasses ==
    ASSUME TypeOK, RanAsOftenAsPassed, NEW d \in Deliveries, WorkOn(d)
    PROVE  RanAsOftenAsPassed'
<1>1. at[d] \in Slots /\ at \in [Deliveries -> 1..(Last + 1)] /\ ran \in [Slots -> Nat]
  BY LastIsNat DEF WorkOn, TypeOK, Slots
<1>2. at' = [at EXCEPT ![d] = at[d] + 1]
  BY DEF WorkOn
<1> SUFFICES ASSUME NEW i \in Slots
             PROVE  ran'[i] = IF Runs(i) THEN Cardinality(Past(i)') ELSE 0
  BY DEF RanAsOftenAsPassed
<1>3. i \in Int /\ \A x \in Deliveries : at[x] \in Int
  BY <1>1, LastIsNat DEF Slots
<1>4. CASE i = at[d]
  <2>1. Past(i)' = Past(i) \cup {d} /\ d \notin Past(i)
    BY <1>1, <1>2, <1>3, <1>4 DEF Past
  <2>2. IsFiniteSet(Past(i))
    BY CheckoutAssumption, FS_Subset DEF Past
  <2>3. Cardinality(Past(i)') = Cardinality(Past(i)) + 1
    BY <2>1, <2>2, FS_AddElement
  <2>4. ran'[i] = IF Runs(i) THEN ran[i] + 1 ELSE ran[i]
    BY <1>1, <1>4 DEF WorkOn
  <2> QED BY <2>3, <2>4 DEF RanAsOftenAsPassed
<1>5. CASE i # at[d]
  <2>1. Past(i)' = Past(i)
    BY <1>1, <1>2, <1>3, <1>5 DEF Past
  <2>2. ran'[i] = ran[i]
    BY <1>1, <1>5 DEF WorkOn
  <2> QED BY <2>1, <2>2 DEF RanAsOftenAsPassed
<1> QED BY <1>4, <1>5

\* Every step keeps the count.
LEMMA RanStep ==
    ASSUME TypeOK, RanAsOftenAsPassed, [Next]_vars
    PROVE  RanAsOftenAsPassed'
<1>1. CASE \E d \in Deliveries : WorkOn(d)
  BY <1>1, WorkPasses
<1>2. CASE ran' = ran /\ at' = at
  BY <1>2 DEF RanAsOftenAsPassed, Past
<1>3. (\E d \in Deliveries : WorkOn(d)) \/ (ran' = ran /\ at' = at)
  BY DEF Next, vars, Webhook, Deliver, Mark, Finish, Notify, Fail, EventsSettle,
     RefundStep, RefundLooksUp, RefundSums, StripeRefunds, StripeRefuses,
     RefundMarks, RefundRecords, RefundClaws, RefundPays, RefundSelects,
     ReversalMarks, ReversalRecords, ReversalDebits, RefundEnds, RefundDies
<1> QED BY <1>1, <1>2, <1>3

\* A delivery that has run everything stays at the end, and only such a one tells.
LEMMA TellStep ==
    ASSUME TypeOK, TellerIsDone, [Next]_vars
    PROVE  TellerIsDone'
<1>1. CASE \E d \in Deliveries : WorkOn(d)
  <2>1. PICK d \in Deliveries : WorkOn(d)
    BY <1>1
  <2>2. told' = told /\ \A x \in Deliveries : at[x] = Last + 1 => at'[x] = Last + 1
    BY <2>1, LastIsNat DEF WorkOn, TypeOK
  <2> QED BY <2>2 DEF TellerIsDone
<1>2. CASE \E d \in Deliveries : Finish(d)
  BY <1>2 DEF Finish, Notify, TellerIsDone
<1>3. CASE told' = told /\ at' = at
  BY <1>3 DEF TellerIsDone
<1>4. \/ \E d \in Deliveries : WorkOn(d) \/ Finish(d)
      \/ told' = told /\ at' = at
  BY DEF Next, vars, Webhook, Deliver, Mark, Fail, EventsSettle,
     RefundStep, RefundLooksUp, RefundSums, StripeRefunds, StripeRefuses,
     RefundMarks, RefundRecords, RefundClaws, RefundPays, RefundSelects,
     ReversalMarks, ReversalRecords, ReversalDebits, RefundEnds, RefundDies
<1> QED BY <1>1, <1>2, <1>3, <1>4

\* The inductive invariant of the webhook, for every instance.
THEOREM WebhookInvariant == Spec => []WebhookInv
<1>1. Init => RanAsOftenAsPassed /\ TellerIsDone
  <2> SUFFICES ASSUME Init PROVE RanAsOftenAsPassed /\ TellerIsDone
    OBVIOUS
  <2>1. \A i \in Slots : Past(i) = {} /\ ran[i] = 0
    BY LastIsNat DEF Init, Past, Slots
  <2> QED BY <2>1, FS_EmptySet DEF RanAsOftenAsPassed, TellerIsDone, Init
<1>2. TypeOK /\ RanAsOftenAsPassed /\ TellerIsDone /\ [Next]_vars
        => RanAsOftenAsPassed' /\ TellerIsDone'
  BY RanStep, TellStep
<1> QED BY <1>1, <1>2, TypeCorrect, PTL DEF Spec, WebhookInv

\* In the order of the code the rollup follows the credit and the credit its row,
\* and an entry that gets the later one gets the earlier one.
LEMMA OrderOfOps ==
    ASSUME NEW i \in Slots, NEW j \in Slots, Entry(i) = Entry(j),
           <<Op(i), Op(j)>> \in {<<"credit", "row">>, <<"rollup", "credit">>}
    PROVE  j < i /\ (Runs(i) => Runs(j))
<1>1. i \in Nat \ {0} /\ j \in Nat \ {0}
  BY LastIsNat DEF Slots
<1>2. Kind # "topup"
  BY DEF Op
<1> DEFINE a == ((i - 1) % 3) + 1
           b == ((j - 1) % 3) + 1
<1>3. a \in 1..3 /\ b \in 1..3 /\ i = 3 * Entry(i) + a /\ j = 3 * Entry(i) + b
  BY <1>1 DEF Entry
<1>4. Op(i) = Ops(Entry(i))[a] /\ Op(j) = Ops(Entry(i))[b]
  BY <1>2 DEF Op
<1>5. Entry(i) \in Nat
  BY <1>1 DEF Entry
<1> HIDE DEF a, b
<1>6. b < a
  <2> DEFINE T == Ops(Entry(i))
  <2>1. \/ T[1] = "fee" /\ T[2] = "row" /\ T[3] = "credit"
        \/ T[1] = "row" /\ T[2] = "credit" /\ T[3] = "rollup"
    BY DEF Ops
  <2>2. /\ a = 1 \/ a = 2 \/ a = 3
        /\ b = 1 \/ b = 2 \/ b = 3
    BY <1>3
  <2>3. \/ T[a] = "credit" /\ T[b] = "row"
        \/ T[a] = "rollup" /\ T[b] = "credit"
    BY <1>4
  <2> HIDE DEF T
  <2> QED BY <2>1, <2>2, <2>3
<1>7. j < i
  BY <1>3, <1>5, <1>6
<1>8. Op(i) \in {"credit", "rollup"} /\ Op(j) \in {"row", "credit"}
  OBVIOUS
<1>9. Runs(i) => Runs(j)
  BY <1>8, <1>5 DEF Runs
<1> QED BY <1>7, <1>9

\* However deliveries fail, repeat and overlap, a credit is accounted for by a
\* fee-ledger row of its entry and a rollup by a credit.
THEOREM CreditsAreAccountedFor == Spec => []CreditsHaveRows
<1>1. WebhookInv => CreditsHaveRows
  <2> SUFFICES ASSUME WebhookInv, NEW i \in Slots, NEW j \in Slots, Entry(i) = Entry(j),
                      <<Op(i), Op(j)>> \in {<<"credit", "row">>, <<"rollup", "credit">>}
               PROVE  ran[i] <= ran[j]
    BY DEF CreditsHaveRows
  <2>1. j < i /\ (Runs(i) => Runs(j))
    BY OrderOfOps
  <2>2. i \in Int /\ j \in Int /\ \A d \in Deliveries : at[d] \in Int
    BY LastIsNat DEF Slots, WebhookInv, TypeOK
  <2>3. Past(i) \subseteq Past(j) /\ IsFiniteSet(Past(j))
    BY <2>1, <2>2, CheckoutAssumption, FS_Subset DEF Past
  <2>4. Cardinality(Past(i)) <= Cardinality(Past(j)) /\ Cardinality(Past(j)) \in Nat
    BY <2>3, FS_Subset, FS_CardinalityType
  <2>5. ran[i] = IF Runs(i) THEN Cardinality(Past(i)) ELSE 0
    BY DEF WebhookInv, RanAsOftenAsPassed
  <2>6. ran[j] = IF Runs(j) THEN Cardinality(Past(j)) ELSE 0
    BY DEF WebhookInv, RanAsOftenAsPassed
  <2> QED BY <2>1, <2>4, <2>5, <2>6
<1> QED BY <1>1, WebhookInvariant, PTL

\* The events service hears of a checkout only when all of it is distributed.
THEOREM DistributedBeforeTold == Spec => []ToldAfterDistribution
<1>1. WebhookInv => ToldAfterDistribution
  <2> SUFFICES ASSUME WebhookInv, told, NEW i \in Slots, Runs(i)
               PROVE  ran[i] > 0
    BY DEF ToldAfterDistribution, Distributed
  <2>1. PICK d \in Deliveries : at[d] = Last + 1
    BY DEF WebhookInv, TellerIsDone
  <2>2. d \in Past(i)
    BY <2>1, LastIsNat DEF Past, Slots
  <2>3. IsFiniteSet(Past(i))
    BY CheckoutAssumption, FS_Subset DEF Past
  <2>4. Cardinality(Past(i)) \in Nat /\ Cardinality(Past(i)) # 0
    BY <2>2, <2>3, FS_EmptySet, FS_CardinalityType
  <2> QED BY <2>4 DEF WebhookInv, RanAsOftenAsPassed
<1> QED BY <1>1, WebhookInvariant, PTL

-----------------------------------------------------------------------------
(* Refunds.                                                                *)

\* What a request that has got so far has left behind.
Debiting   == {"reversal_debit"}
Reversing  == {"reversing", "reversal_row"} \cup Debiting
HavePaid   == {"paid", "done"} \cup Reversing
HaveClawed == {"clawed"} \cup HavePaid
HaveRow    == {"recorded"} \cup HaveClawed
HaveStripe == {"returned", "marked"} \cup HaveRow

ProgressIsRecorded ==
    \A r \in Refunds :
        /\ refund[r].pc \in HaveStripe => r \in Made
        /\ refund[r].pc \in HaveRow => r \in rows
        /\ refund[r].pc \in HaveClawed => r \in clawed
        /\ refund[r].pc \in HavePaid => r \in paid

RefundInv == TypeOK /\ ProgressIsRecorded /\ RefundsAreBacked

\* A request that moves touches nothing of the others.
Moved(r) == \A q \in Refunds \ {r} : refund'[q] = refund[q]

LEMMA RefundMoves ==
    ASSUME TypeOK, NEW r \in Refunds, RefundStep(r) \/ RefundDies(r)
    PROVE  Moved(r)
BY DEF Moved, TypeOK, Goto, RefundStep, RefundLooksUp, RefundSums, StripeRefunds,
   StripeRefuses, RefundMarks, RefundRecords, RefundClaws, RefundPays, RefundSelects,
   ReversalMarks, ReversalRecords, ReversalDebits, RefundEnds, RefundDies

\* From where to where each step goes, and what it adds.
LEMMA RefundPath ==
    ASSUME TypeOK, NEW r \in Refunds, RefundStep(r) \/ RefundDies(r)
    PROVE  LET pc == refund[r].pc
               to == refund'[r].pc
           IN  \/ to \in {"refused", "summing", "calling", "failed"}
                  /\ Made \subseteq Made' /\ UNCHANGED <<rows, clawed, paid>>
               \/ pc = "calling" /\ to = "returned" /\ Made' = Made \cup {r}
                  /\ UNCHANGED <<rows, clawed, paid>>
               \/ pc = "returned" /\ to = "marked" /\ UNCHANGED <<Made, rows, clawed, paid>>
               \/ pc = "marked" /\ to = "recorded" /\ rows' = rows \cup {r}
                  /\ UNCHANGED <<Made, clawed, paid>>
               \/ pc = "recorded" /\ to = "clawed" /\ clawed' = clawed \cup {r}
                  /\ UNCHANGED <<Made, rows, paid>>
               \/ pc = "clawed" /\ to = "paid" /\ paid' = paid \cup {r}
                  /\ UNCHANGED <<Made, rows, clawed>>
               \/ pc \in HavePaid /\ to \in HavePaid /\ UNCHANGED <<Made, rows, clawed, paid>>
<1>0. refund \in [Refunds -> RefundState]
  BY DEF TypeOK
<1> USE <1>0 DEF Goto, At, RefundState, Made
<1>1. CASE RefundLooksUp(r)
  BY <1>1 DEF RefundLooksUp
<1>2. CASE RefundSums(r)
  BY <1>2 DEF RefundSums
<1>3. CASE StripeRefunds(r)
  <2>1. made \in [Refunds -> Nat] /\ Asked(r) > 0
    BY <1>3 DEF StripeRefunds, TypeOK
  <2>2. Made' = Made \cup {r}
    BY <1>3, <2>1 DEF StripeRefunds
  <2> QED BY <1>3, <2>2 DEF StripeRefunds
<1>4. CASE StripeRefuses(r)
  BY <1>4 DEF StripeRefuses
<1>5. CASE RefundMarks(r)
  BY <1>5 DEF RefundMarks
<1>6. CASE RefundRecords(r)
  BY <1>6 DEF RefundRecords
<1>7. CASE RefundClaws(r)
  BY <1>7 DEF RefundClaws
<1>8. CASE RefundPays(r)
  BY <1>8 DEF RefundPays
<1>9. CASE RefundSelects(r)
  <2> DEFINE found == {e \in Settlements : settled[e] # "none"}
             open == {e \in Settlements : settled[e] \notin {"none", "refunded"}}
  <2>1. refund' = [refund EXCEPT ![r] = [refund[r] EXCEPT
                     !.pc = "reversing", !.entries = found, !.todo = open]]
    BY <1>9 DEF RefundSelects
  <2>2. refund[r].pc = "paid" /\ UNCHANGED ledgerVars
    BY ONLY <1>9 DEF RefundSelects, At
  <2> HIDE DEF found, open
  <2>3. refund'[r].pc = "reversing"
    BY <2>1
  <2> QED BY <2>2, <2>3 DEF HavePaid, Reversing
<1>10. CASE ReversalMarks(r)
  BY <1>10 DEF ReversalMarks, HavePaid, Reversing
<1>11. CASE ReversalRecords(r)
  BY <1>11 DEF ReversalRecords, HavePaid, Reversing, Debiting
<1>12. CASE ReversalDebits(r)
  BY <1>12 DEF ReversalDebits, HavePaid, Reversing, Debiting
<1>13. CASE RefundEnds(r)
  BY <1>13 DEF RefundEnds, HavePaid, Reversing
<1>14. CASE RefundDies(r)
  BY <1>14 DEF RefundDies
<1> QED
  BY <1>1, <1>2, <1>3, <1>4, <1>5, <1>6, <1>7, <1>8, <1>9, <1>10, <1>11, <1>12,
     <1>13, <1>14 DEF RefundStep

LEMMA RefundStepIsRecorded ==
    ASSUME RefundInv, NEW r \in Refunds, RefundStep(r) \/ RefundDies(r)
    PROVE  ProgressIsRecorded' /\ RefundsAreBacked'
<1>1. Moved(r) /\ TypeOK
  BY RefundMoves DEF RefundInv
<1>2. /\ Made \subseteq Made' /\ rows \subseteq rows'
      /\ clawed \subseteq clawed' /\ paid \subseteq paid'
  BY <1>1, RefundPath
<1>3. /\ refund'[r].pc \in HaveStripe => r \in Made'
      /\ refund'[r].pc \in HaveRow => r \in rows'
      /\ refund'[r].pc \in HaveClawed => r \in clawed'
      /\ refund'[r].pc \in HavePaid => r \in paid'
  BY <1>1, RefundPath
  DEF RefundInv, ProgressIsRecorded, HaveStripe, HaveRow, HaveClawed, HavePaid,
      Reversing, Debiting
<1>4. ProgressIsRecorded'
  BY <1>1, <1>2, <1>3 DEF Moved, RefundInv, ProgressIsRecorded
<1>5. RefundsAreBacked'
  BY <1>1, RefundPath
  DEF RefundInv, ProgressIsRecorded, RefundsAreBacked, HaveStripe, HaveRow, HaveClawed
<1> QED BY <1>4, <1>5

\* The inductive invariant of the refunds, for every instance.
THEOREM RefundInvariant == Spec => []RefundInv
<1>1. Init => ProgressIsRecorded /\ RefundsAreBacked
  BY DEF Init, Made, ProgressIsRecorded, RefundsAreBacked, HaveStripe, HaveRow, HaveClawed,
     HavePaid, Reversing, Debiting
<1>2. RefundInv /\ [Next]_vars => ProgressIsRecorded' /\ RefundsAreBacked'
  <2> SUFFICES ASSUME RefundInv, [Next]_vars PROVE ProgressIsRecorded' /\ RefundsAreBacked'
    OBVIOUS
  <2>1. CASE \E r \in Refunds : RefundStep(r) \/ RefundDies(r)
    BY <2>1, RefundStepIsRecorded
  <2>2. CASE UNCHANGED <<refund, made, rows, clawed, paid>>
    BY <2>2 DEF RefundInv, Made, ProgressIsRecorded, RefundsAreBacked
  <2>3. \/ \E r \in Refunds : RefundStep(r) \/ RefundDies(r)
        \/ UNCHANGED <<refund, made, rows, clawed, paid>>
    BY DEF Next, vars, Webhook, Deliver, Mark, WorkOn, Finish, Notify, Fail, EventsSettle
  <2> QED BY <2>1, <2>2, <2>3
<1>3. TypeOK /\ ProgressIsRecorded /\ RefundsAreBacked <=> RefundInv
  BY DEF RefundInv
<1> QED BY <1>1, <1>2, <1>3, TypeCorrect, PTL DEF Spec

\* Whatever answers are lost and wherever a request dies, every movement of a
\* refund has a row in the ledger, and every row a refund of Stripe's.
THEOREM RefundMovementsAreBacked == Spec => []RefundsAreBacked
<1>1. RefundInv => RefundsAreBacked
  BY DEF RefundInv
<1> QED BY <1>1, RefundInvariant, PTL

\* What a refund has reversed of an entry and debited its recipient: nothing before
\* its turn, its own share after it, and never a debit without its row.
ShareOnce(e, r) ==
    /\ debited[e][r] <= reversed[e][r] /\ reversed[e][r] <= Booked[r]
    /\ refund[r].pc \notin HavePaid \cup {"failed"} => reversed[e][r] = 0
    /\ refund[r].pc = "paid" => reversed[e][r] = 0
    /\ refund[r].pc \in Reversing /\ e \in refund[r].todo => reversed[e][r] = 0
    /\ refund[r].pc = "reversal_row" /\ e \in refund[r].current =>
         e \notin refund[r].todo /\ reversed[e][r] = 0
    /\ refund[r].pc = "reversal_debit" /\ e \in refund[r].current =>
         e \notin refund[r].todo
         /\ reversed[e][r] = Booked[r] /\ debited[e][r] = 0

SharesInv == \A e \in Settlements, r \in Refunds : ShareOnce(e, r)

LEMMA OwnShare ==
    ASSUME TypeOK, SharesInv, NEW e \in Settlements, NEW r \in Refunds,
           RefundStep(r) \/ RefundDies(r)
    PROVE  ShareOnce(e, r)'
<1>0. /\ refund \in [Refunds -> RefundState] /\ ShareOnce(e, r)
      /\ reversed[e] \in [Refunds -> Nat] /\ debited[e] \in [Refunds -> Nat]
      /\ reversed[e][r] \in Nat /\ debited[e][r] \in Nat /\ Booked[r] \in Nat
  BY BookedType DEF TypeOK, SharesInv
<1> USE <1>0 DEF Goto, At, RefundState, ShareOnce, HavePaid, Reversing, Debiting
<1>1. CASE RefundLooksUp(r)
  BY <1>1 DEF RefundLooksUp
<1>2. CASE RefundSums(r)
  BY <1>2 DEF RefundSums
<1>3. CASE StripeRefunds(r)
  BY <1>3 DEF StripeRefunds
<1>4. CASE StripeRefuses(r)
  BY <1>4 DEF StripeRefuses
<1>5. CASE RefundMarks(r)
  BY <1>5 DEF RefundMarks
<1>6. CASE RefundRecords(r)
  BY <1>6 DEF RefundRecords
<1>7. CASE RefundClaws(r)
  BY <1>7 DEF RefundClaws
<1>8. CASE RefundPays(r)
  BY <1>8 DEF RefundPays
<1>9. CASE RefundSelects(r)
  <2> DEFINE found == {x \in Settlements : settled[x] # "none"}
             open == {x \in Settlements : settled[x] \notin {"none", "refunded"}}
  <2>1. refund' = [refund EXCEPT ![r] = [refund[r] EXCEPT
                     !.pc = "reversing", !.entries = found, !.todo = open]]
    BY <1>9 DEF RefundSelects
  <2>2. refund[r].pc = "paid" /\ UNCHANGED ledgerVars
    BY ONLY <1>9 DEF RefundSelects, At
  <2> HIDE DEF found, open
  <2>3. refund'[r].pc = "reversing"
    BY <2>1
  <2> QED BY <2>2, <2>3
<1>10. CASE ReversalMarks(r)
  BY <1>10 DEF ReversalMarks
<1>11. CASE ReversalRecords(r)
  <2>1. /\ reversed'[e][r] = IF e \in refund[r].current
                             THEN reversed[e][r] + Booked[r] ELSE reversed[e][r]
        /\ debited' = debited
    BY <1>11 DEF ReversalRecords, ReversalShare
  <2>2. /\ refund[r].pc = "reversal_row" /\ refund'[r].pc = "reversal_debit"
        /\ refund'[r].todo = refund[r].todo /\ refund'[r].current = refund[r].current
    BY <1>11 DEF ReversalRecords
  <2> QED BY <2>1, <2>2
<1>12. CASE ReversalDebits(r)
  <2>1. /\ debited'[e][r] = IF e \in refund[r].current
                            THEN debited[e][r] + Booked[r] ELSE debited[e][r]
        /\ reversed' = reversed
    BY <1>12 DEF ReversalDebits, ReversalShare
  <2>2. /\ refund[r].pc = "reversal_debit" /\ refund'[r].pc = "reversing"
        /\ refund'[r].todo = refund[r].todo /\ refund'[r].current = {}
    BY <1>12 DEF ReversalDebits
  <2> QED BY <2>1, <2>2
<1>13. CASE RefundEnds(r)
  BY <1>13 DEF RefundEnds
<1>14. CASE RefundDies(r)
  BY <1>14 DEF RefundDies
<1> QED
  BY <1>1, <1>2, <1>3, <1>4, <1>5, <1>6, <1>7, <1>8, <1>9, <1>10, <1>11, <1>12,
     <1>13, <1>14 DEF RefundStep

LEMMA OthersShare ==
    ASSUME TypeOK, SharesInv, NEW e \in Settlements, NEW r \in Refunds,
           RefundStep(r) \/ RefundDies(r), NEW q \in Refunds, q # r
    PROVE  ShareOnce(e, q)'
<1>1. refund'[q] = refund[q]
  BY RefundMoves DEF Moved
<1>2. reversed'[e][q] = reversed[e][q] /\ debited'[e][q] = debited[e][q]
  <2>1. CASE ReversalRecords(r)
    BY <2>1 DEF ReversalRecords, TypeOK
  <2>2. CASE ReversalDebits(r)
    BY <2>2 DEF ReversalDebits, TypeOK
  <2>3. CASE UNCHANGED <<reversed, debited>>
    BY <2>3
  <2> QED
    BY <2>1, <2>2, <2>3
    DEF RefundStep, RefundLooksUp, RefundSums, StripeRefunds, StripeRefuses,
        RefundMarks, RefundRecords, RefundClaws, RefundPays, RefundSelects,
        ReversalMarks, RefundEnds, RefundDies
<1> QED BY <1>1, <1>2 DEF SharesInv, ShareOnce

\* A refund reverses at most the share it is booked for of a settlement entry, and
\* debits the recipient for no more than the reversal rows say (refund.ts:206-240).
THEOREM EachReversalIsOneShare ==
    Spec => [](\A e \in Settlements, r \in Refunds :
                 debited[e][r] <= reversed[e][r] /\ reversed[e][r] <= Booked[r])
<1>1. Init => SharesInv
  <2> SUFFICES ASSUME Init, NEW e \in Settlements, NEW r \in Refunds PROVE ShareOnce(e, r)
    BY DEF SharesInv
  <2>1. reversed[e][r] = 0 /\ debited[e][r] = 0 /\ refund[r].pc = "new"
    BY DEF Init
  <2> QED BY <2>1, BookedType DEF ShareOnce, Reversing, Debiting
<1>2. TypeOK /\ SharesInv /\ [Next]_vars => SharesInv'
  <2> SUFFICES ASSUME TypeOK, SharesInv, [Next]_vars,
                      NEW e \in Settlements, NEW q \in Refunds
               PROVE  ShareOnce(e, q)'
    BY DEF SharesInv
  <2>1. CASE \E r \in Refunds : RefundStep(r) \/ RefundDies(r)
    BY <2>1, OwnShare, OthersShare
  <2>2. CASE UNCHANGED <<refund, reversed, debited>>
    BY <2>2 DEF SharesInv, ShareOnce
  <2>3. \/ \E r \in Refunds : RefundStep(r) \/ RefundDies(r)
        \/ UNCHANGED <<refund, reversed, debited>>
    BY DEF Next, vars, Webhook, Deliver, Mark, WorkOn, Finish, Notify, Fail, EventsSettle
  <2> QED BY <2>1, <2>2, <2>3
<1>3. SharesInv => \A e \in Settlements, r \in Refunds :
                     debited[e][r] <= reversed[e][r] /\ reversed[e][r] <= Booked[r]
  BY DEF SharesInv, ShareOnce
<1> QED BY <1>1, <1>2, <1>3, TypeCorrect, PTL DEF Spec

-----------------------------------------------------------------------------
(* Sums over a finite set.  The recursion behind SumFunctionOnSet is shown *)
(* to be well-founded from the ordering of the subsets of a finite set;    *)
(* the rest follows from taking one index out.                             *)

\* A nonempty family of subsets of a finite set has a smallest member.
LEMMA SmallestSubset ==
    ASSUME NEW S, IsFiniteSet(S), NEW Bad \in SUBSET SUBSET S, Bad # {}
    PROVE  \E T \in Bad : \A U \in SUBSET T : U # T => U \notin Bad
<1>1. IsWellFoundedOn(StrictSubsetOrdering(S), SUBSET S)
  BY FS_StrictSubsetOrderingWellFounded, FS_FiniteSubsetsOfFinite
<1>2. PICK T \in Bad : \A U \in Bad : <<U, T>> \notin StrictSubsetOrdering(S)
  BY <1>1, WFMin
<1> QED  BY <1>2 DEF StrictSubsetOrdering

\* Induction over a finite set, one element at a time; Good is the set of the
\* subsets for which the claim holds.
LEMMA SubsetInduction ==
    ASSUME NEW S, IsFiniteSet(S), NEW Good, {} \in Good,
           \A T \in SUBSET S : \A x \in S \ T : T \in Good => T \cup {x} \in Good
    PROVE  S \in Good
<1> DEFINE Bad == (SUBSET S) \ Good
<1> SUFFICES ASSUME Bad # {} PROVE FALSE
  OBVIOUS
<1>1. PICK T \in Bad : \A U \in SUBSET T : U # T => U \notin Bad
  <2>1. Bad \in SUBSET SUBSET S
    OBVIOUS
  <2> HIDE DEF Bad
  <2> QED  BY <2>1, SmallestSubset
<1>2. PICK x \in T : TRUE
  BY <1>1
<1>3. T \ {x} \in Good /\ (T \ {x}) \cup {x} = T
  BY <1>1
<1> QED  BY <1>3

\* The element the fold takes out of s first.
Choice(s) == CHOOSE x \in s : TRUE

\* g is the table of the partial sums of f over the subsets of S.
Tabulates(g, f, S) ==
    g = [s \in SUBSET S |->
            IF s = {} THEN 0 ELSE f[Choice(s)] + g[s \ {Choice(s)}]]

\* It is one of its elements.
LEMMA ChoiceInSet == \A s : s # {} => Choice(s) \in s
  BY DEF Choice

\* SumFunctionOnSet reads its value from the table over the subsets of S.
LEMMA SumIsChosen ==
    ASSUME NEW f, NEW S
    PROVE  SumFunctionOnSet(f, S) = (CHOOSE g : Tabulates(g, f, S))[S]
BY DEF SumFunctionOnSet, FoldFunctionOnSet, MapThenFoldSet, Tabulates, Choice

\* The partial sums of f over the subsets of T do not depend on what T is a
\* subset of.
LEMMA TablesAgree ==
    ASSUME NEW f, NEW S, IsFiniteSet(S), NEW T \in SUBSET S,
           NEW g, Tabulates(g, f, S), NEW h, Tabulates(h, f, T)
    PROVE  h[T] = g[T]
<1> DEFINE Bad == {U \in SUBSET T : h[U] # g[U]}
<1> SUFFICES ASSUME Bad # {} PROVE FALSE
  OBVIOUS
<1>1. PICK U \in Bad : \A V \in SUBSET U : V # U => V \notin Bad
  <2>1. IsFiniteSet(T) /\ Bad \in SUBSET SUBSET T
    BY FS_Subset
  <2> HIDE DEF Bad
  <2> QED  BY <2>1, SmallestSubset
<1>2. /\ h[U] = IF U = {} THEN 0 ELSE f[Choice(U)] + h[U \ {Choice(U)}]
      /\ g[U] = IF U = {} THEN 0 ELSE f[Choice(U)] + g[U \ {Choice(U)}]
  BY DEF Tabulates
<1>3. U # {} => h[U \ {Choice(U)}] = g[U \ {Choice(U)}]
  BY <1>1, ChoiceInSet
<1> QED  BY <1>2, <1>3

\* The recursion is well-founded: a table of partial sums exists.
LEMMA TableExists ==
    ASSUME NEW f, NEW S, IsFiniteSet(S)
    PROVE  Tabulates(CHOOSE g : Tabulates(g, f, S), f, S)
<1> DEFINE Table(T) == CHOOSE g : Tabulates(g, f, T)
           Bad == {T \in SUBSET S : ~ Tabulates(Table(T), f, T)}
<1> SUFFICES ASSUME Bad # {} PROVE FALSE
  OBVIOUS
<1>1. PICK T \in Bad : \A U \in SUBSET T : U # T => U \notin Bad
  <2>1. Bad \in SUBSET SUBSET S
    OBVIOUS
  <2> HIDE DEF Bad
  <2> QED  BY <2>1, SmallestSubset
<1> DEFINE h == [s \in SUBSET T |->
                    IF s = {} THEN 0
                    ELSE f[Choice(s)] + Table(s \ {Choice(s)})[s \ {Choice(s)}]]
<1>2. ASSUME NEW s \in SUBSET T, s # {}
      PROVE  h[s \ {Choice(s)}] = Table(s \ {Choice(s)})[s \ {Choice(s)}]
  <2> DEFINE u == s \ {Choice(s)}
  <2>1. u \in SUBSET T /\ u # T
    BY <1>2, ChoiceInSet
  <2>2. Tabulates(Table(u), f, u) /\ IsFiniteSet(u)
    BY <1>1, <2>1, FS_Subset
  <2>3. Table(u)[u] = IF u = {} THEN 0 ELSE f[Choice(u)] + Table(u)[u \ {Choice(u)}]
    <3> HIDE DEF u, Table
    <3> QED  BY <2>2 DEF Tabulates
  <2>4. u # {} => Table(u \ {Choice(u)})[u \ {Choice(u)}] = Table(u)[u \ {Choice(u)}]
    <3> SUFFICES ASSUME u # {} PROVE Table(u \ {Choice(u)})[u \ {Choice(u)}] = Table(u)[u \ {Choice(u)}]
      OBVIOUS
    <3> DEFINE v == u \ {Choice(u)}
    <3>1. v \in SUBSET u /\ v \in SUBSET T /\ v # T
      BY <2>1, ChoiceInSet
    <3>2. Tabulates(Table(v), f, v)
      BY <1>1, <3>1
    <3> HIDE DEF u, v, Table
    <3>3. Table(v)[v] = Table(u)[v]
      BY <2>2, <3>1, <3>2, TablesAgree
    <3> QED  BY <3>3 DEF v
  <2>5. h[u] = IF u = {} THEN 0 ELSE f[Choice(u)] + Table(u \ {Choice(u)})[u \ {Choice(u)}]
    <3> HIDE DEF u, Table
    <3> QED  BY <2>1
  <2> HIDE DEF u, Table, h
  <2>6. h[u] = Table(u)[u]
    BY <2>3, <2>4, <2>5
  <2> QED  BY <2>6 DEF u
<1>3. Tabulates(h, f, T)
  <2>1. ASSUME NEW s \in SUBSET T
        PROVE  h[s] = IF s = {} THEN 0 ELSE f[Choice(s)] + h[s \ {Choice(s)}]
    <3>1. h[s] = IF s = {} THEN 0
                 ELSE f[Choice(s)] + Table(s \ {Choice(s)})[s \ {Choice(s)}]
      <4> HIDE DEF Table
      <4> QED OBVIOUS
    <3> HIDE DEF h, Table
    <3> QED  BY <3>1, <1>2
  <2>2. h = [s \in SUBSET T |-> h[s]]
    <3> HIDE DEF Table
    <3> QED OBVIOUS
  <2> HIDE DEF h
  <2> QED  BY <2>1, <2>2 DEF Tabulates
<1>4. Tabulates(Table(T), f, T)
  <2> HIDE DEF h
  <2> QED  BY <1>3
<1> QED  BY <1>4

\* The sum over no element is 0.
LEMMA SumEmpty == \A f : SumFunctionOnSet(f, {}) = 0
<1> TAKE f
<1>1. Tabulates(CHOOSE g : Tabulates(g, f, {}), f, {})
  BY TableExists, FS_EmptySet
<1> QED  BY <1>1, SumIsChosen DEF Tabulates

\* A sum is its recursion's first element and the sum of the others.
LEMMA SumChoice ==
    ASSUME NEW f, NEW S, IsFiniteSet(S), S # {}
    PROVE  SumFunctionOnSet(f, S) = f[Choice(S)] + SumFunctionOnSet(f, S \ {Choice(S)})
<1> DEFINE Table(T) == CHOOSE g : Tabulates(g, f, T)
           c == Choice(S)
<1>1. Tabulates(Table(S), f, S) /\ Tabulates(Table(S \ {c}), f, S \ {c})
  BY TableExists, FS_RemoveElement
<1>2. SumFunctionOnSet(f, S) = Table(S)[S] /\ SumFunctionOnSet(f, S \ {c}) = Table(S \ {c})[S \ {c}]
  BY SumIsChosen
<1> HIDE DEF Table
<1>3. Table(S)[S] = f[c] + Table(S)[S \ {c}]
  BY <1>1 DEF Tabulates
<1>4. Table(S \ {c})[S \ {c}] = Table(S)[S \ {c}]
  BY <1>1, TablesAgree
<1> QED  BY <1>2, <1>3, <1>4

\* A sum of integers is an integer, and any element can be taken out of it.
LEMMA SumRemove ==
    ASSUME NEW S, IsFiniteSet(S), NEW f, \A x \in S : f[x] \in Int
    PROVE  \A T \in SUBSET S :
               /\ SumFunctionOnSet(f, T) \in Int
               /\ \A x \in T : SumFunctionOnSet(f, T) = f[x] + SumFunctionOnSet(f, T \ {x})
<1> DEFINE SumTo(T) == SumFunctionOnSet(f, T)
           Right(T) == SumTo(T) \in Int /\ \A x \in T : SumTo(T) = f[x] + SumTo(T \ {x})
           Bad == {T \in SUBSET S : ~ Right(T)}
<1> SUFFICES ASSUME Bad # {} PROVE FALSE
  OBVIOUS
<1>1. PICK T \in Bad : \A U \in SUBSET T : U # T => U \notin Bad
  <2>1. Bad \in SUBSET SUBSET S
    OBVIOUS
  <2> HIDE DEF Bad
  <2> QED  BY <2>1, SmallestSubset
<1>2. SumTo({}) = 0
  BY SumEmpty
<1> HIDE DEF SumTo
<1>3. T # {} /\ \A U \in SUBSET T : U # T => Right(U)
  <2>1. Right({})
    BY <1>2
  <2>2. ~ Right(T) /\ T \in SUBSET S
    BY <1>1
  <2>3. \A U \in SUBSET T : U # T => Right(U)
    BY <1>1
  <2> HIDE DEF Right
  <2> QED  BY <2>1, <2>2, <2>3
<1> DEFINE c == Choice(T)
<1>4. c \in T /\ SumTo(T) = f[c] + SumTo(T \ {c})
  BY <1>3, ChoiceInSet, SumChoice, FS_Subset DEF SumTo
<1>5. ASSUME NEW x \in T  PROVE SumTo(T) = f[x] + SumTo(T \ {x})
  <2>1. CASE x = c
    BY <1>4, <2>1
  <2>2. CASE x # c
    <3> DEFINE u == (T \ {x}) \ {c}
    <3>1. SumTo(T \ {c}) = f[x] + SumTo(u)
      <4>1. (T \ {c}) \ {x} = u
        OBVIOUS
      <4> QED  BY <1>3, <1>4, <2>2, <4>1
    <3>2. SumTo(T \ {x}) = f[c] + SumTo(u)
      BY <1>3, <1>4, <2>2
    <3>3. SumTo(u) \in Int /\ f[x] \in Int /\ f[c] \in Int
      <4>1. u \in SUBSET T /\ u # T
        OBVIOUS
      <4> QED  BY <1>3, <1>4, <4>1
    <3> HIDE DEF u, c
    <3> QED  BY <1>4, <3>1, <3>2, <3>3
  <2> QED  BY <2>1, <2>2
<1>6. SumTo(T) \in Int
  BY <1>3, <1>4
<1> QED  BY <1>1, <1>5, <1>6

\* One more index adds its value.
LEMMA SumAddElement ==
    ASSUME NEW S, IsFiniteSet(S), NEW x, x \notin S,
           NEW f, \A y \in S \cup {x} : f[y] \in Int
    PROVE  /\ SumFunctionOnSet(f, S) \in Int
           /\ SumFunctionOnSet(f, S \cup {x}) = SumFunctionOnSet(f, S) + f[x]
<1>1. IsFiniteSet(S \cup {x})
  BY FS_AddElement
<1>2. (S \cup {x}) \ {x} = S
  OBVIOUS
<1>3. SumFunctionOnSet(f, S) \in Int
  BY SumRemove
<1> QED  BY <1>1, <1>2, <1>3, SumRemove

\* A sum whose values are at most those of g at the indices in T, and at most 0
\* elsewhere, is at most the sum of g over T.
LEMMA SumBounded ==
    ASSUME NEW S, IsFiniteSet(S), NEW T \in SUBSET S, NEW f, NEW g,
           \A x \in S : f[x] \in Int /\ (x \notin T => f[x] <= 0),
           \A x \in T : g[x] \in Int /\ f[x] <= g[x]
    PROVE  SumFunctionOnSet(f, S) <= SumFunctionOnSet(g, T)
<1> DEFINE Good == {U \in SUBSET S : SumFunctionOnSet(f, U) <= SumFunctionOnSet(g, U \cap T)}
<1>1. {} \in Good
  <2>1. {} \cap T = {}
    OBVIOUS
  <2> QED  BY <2>1, SumEmpty
<1>2. ASSUME NEW U \in SUBSET S, NEW x \in S \ U, U \in Good
      PROVE  U \cup {x} \in Good
  <2>1. IsFiniteSet(U) /\ IsFiniteSet(U \cap T)
    BY FS_Subset
  <2>2. /\ SumFunctionOnSet(f, U) \in Int
        /\ SumFunctionOnSet(f, U \cup {x}) = SumFunctionOnSet(f, U) + f[x]
    BY <2>1, SumAddElement
  <2>3. SumFunctionOnSet(g, U \cap T) \in Int
    BY <2>1, SumRemove
  <2>4. SumFunctionOnSet(f, U) <= SumFunctionOnSet(g, U \cap T)
    BY <1>2
  <2>5. CASE x \in T
    <3>1. (U \cup {x}) \cap T = (U \cap T) \cup {x}
      BY <2>5
    <3>2. SumFunctionOnSet(g, (U \cap T) \cup {x}) = SumFunctionOnSet(g, U \cap T) + g[x]
      BY <2>1, <2>5, SumAddElement
    <3>3. f[x] \in Int /\ g[x] \in Int /\ f[x] <= g[x]
      BY <2>5
    <3>4. SumFunctionOnSet(f, U \cup {x}) <= SumFunctionOnSet(g, (U \cup {x}) \cap T)
      BY <2>2, <2>3, <2>4, <3>1, <3>2, <3>3
    <3> QED  BY <3>4
  <2>6. CASE x \notin T
    <3>1. (U \cup {x}) \cap T = U \cap T
      BY <2>6
    <3>2. f[x] \in Int /\ f[x] <= 0
      BY <2>6
    <3>3. SumFunctionOnSet(f, U \cup {x}) <= SumFunctionOnSet(g, (U \cup {x}) \cap T)
      <4>1. SumFunctionOnSet(f, U \cup {x}) <= SumFunctionOnSet(g, U \cap T)
        BY <2>2, <2>3, <2>4, <3>2
      <4> QED  BY <3>1, <4>1
    <3> QED  BY <3>3
  <2> QED  BY <2>5, <2>6
<1> HIDE DEF Good
<1>3. S \in Good
  BY <1>1, <1>2, SubsetInduction
<1>4. S \cap T = T
  OBVIOUS
<1> QED  BY <1>3, <1>4 DEF Good

\* A sum of natural numbers is one.
LEMMA SumNat ==
    ASSUME NEW S, IsFiniteSet(S), NEW f, \A x \in S : f[x] \in Nat
    PROVE  SumFunctionOnSet(f, S) \in Nat
<1> DEFINE Good == {U \in SUBSET S : SumFunctionOnSet(f, U) \in Nat}
<1>1. {} \in Good
  BY SumEmpty
<1>2. ASSUME NEW U \in SUBSET S, NEW x \in S \ U, U \in Good
      PROVE  U \cup {x} \in Good
  <2>1. IsFiniteSet(U) /\ \A y \in U \cup {x} : f[y] \in Int
    BY FS_Subset
  <2>2. SumFunctionOnSet(f, U \cup {x}) = SumFunctionOnSet(f, U) + f[x]
    BY <2>1, SumAddElement
  <2>3. SumFunctionOnSet(f, U) \in Nat /\ f[x] \in Nat
    BY <1>2
  <2>4. SumFunctionOnSet(f, U \cup {x}) \in Nat
    BY <2>2, <2>3
  <2> QED BY <2>4
<1> HIDE DEF Good
<1>3. S \in Good
  BY <1>1, <1>2, SubsetInduction
<1> QED BY <1>3 DEF Good

\* A sum that is not above 0 has nothing in it, if every value is.
LEMMA SumPositive ==
    ASSUME NEW S, IsFiniteSet(S), NEW f, \A x \in S : f[x] \in Nat /\ f[x] > 0,
           SumFunctionOnSet(f, S) <= 0
    PROVE  S = {}
<1> SUFFICES ASSUME NEW x \in S PROVE FALSE
  OBVIOUS
<1>1. SumFunctionOnSet(f, S) = f[x] + SumFunctionOnSet(f, S \ {x})
  <2>1. \A y \in S : f[y] \in Int
    OBVIOUS
  <2> QED BY <2>1, SumRemove
<1>2. SumFunctionOnSet(f, S \ {x}) \in Nat
  <2>1. IsFiniteSet(S \ {x})
    BY FS_Subset
  <2> QED BY <2>1, SumNat
<1>3. f[x] \in Nat /\ f[x] > 0
  OBVIOUS
<1> QED BY <1>1, <1>2, <1>3

\* A sum above 0 has a value above 0 in it.
LEMMA SumWitness ==
    ASSUME NEW S, IsFiniteSet(S), NEW f, \A x \in S : f[x] \in Nat,
           SumFunctionOnSet(f, S) > 0
    PROVE  \E x \in S : f[x] > 0
<1> SUFFICES ASSUME \A x \in S : ~(f[x] > 0) PROVE FALSE
  OBVIOUS
<1>1. \A x \in S : f[x] \in Int /\ f[x] <= 0
  OBVIOUS
<1>2. SumFunctionOnSet(f, S) <= SumFunctionOnSet(f, {})
  BY <1>1, SumBounded
<1>3. SumFunctionOnSet(f, S) \in Nat /\ SumFunctionOnSet(f, {}) = 0
  BY SumNat, SumEmpty
<1> QED BY <1>2, <1>3

\* A value that was 0 adds what it becomes.
LEMMA SumReplace ==
    ASSUME NEW S, IsFiniteSet(S), NEW f \in [S -> Nat], NEW x \in S, f[x] = 0, NEW n \in Nat
    PROVE  SumFunctionOnSet([f EXCEPT ![x] = n], S) <= SumFunctionOnSet(f, S) + n
<1> DEFINE g == [f EXCEPT ![x] = n]
           rest == S \ {x}
<1>1. \A y \in S : f[y] \in Int /\ g[y] \in Int
  OBVIOUS
<1>2. g[x] = n /\ \A y \in rest : g[y] = f[y]
  OBVIOUS
<1>3. IsFiniteSet(rest) /\ rest \in SUBSET S /\ rest \in SUBSET rest
  BY FS_Subset
<1> HIDE DEF g
<1>4. SumFunctionOnSet(g, rest) <= SumFunctionOnSet(f, rest)
  <2>1. \A y \in rest : /\ g[y] \in Int /\ f[y] \in Int /\ g[y] <= f[y]
                        /\ y \notin rest => g[y] <= 0
    BY <1>1, <1>2
  <2> HIDE DEF rest
  <2> QED BY <1>3, <2>1, SumBounded
<1>5. /\ SumFunctionOnSet(f, S) = f[x] + SumFunctionOnSet(f, rest)
      /\ SumFunctionOnSet(f, rest) \in Int
  BY <1>1, <1>3, SumRemove
<1>6. /\ SumFunctionOnSet(g, S) = g[x] + SumFunctionOnSet(g, rest)
      /\ SumFunctionOnSet(g, rest) \in Int
  BY <1>1, <1>3, SumRemove
<1>7. SumFunctionOnSet(g, S) <= SumFunctionOnSet(f, S) + n
  <2> HIDE DEF rest
  <2> QED BY <1>2, <1>4, <1>5, <1>6
<1> QED BY <1>7 DEF g

-----------------------------------------------------------------------------
(* Refunds that run at the same time: more than an entry is reversed only  *)
(* if a refund that named no amount was booked for what it did not get.    *)

Early == {"new", "summing", "calling"}
Given == SumFunctionOnSet(made, Refunds)

\* The refunds Stripe has made do not exceed the charge, and one that names an
\* amount was made for it; only what it has made is reversed.  One that names none
\* has found no refund row when it calls Stripe, and if it did not get everything
\* another one has been made.
MadeInv ==
    /\ Given <= Total
    /\ \A r \in Refunds : refund[r].pc \in Early => made[r] = 0
    /\ \A r \in Refunds : RefundAmount[r] # 0 => made[r] \in {0, RefundAmount[r]}
    /\ \A e \in Settlements, r \in Refunds : reversed[e][r] > 0 => r \in Made
    /\ \A r \in Refunds :
         RefundAmount[r] = 0 /\ (refund[r].pc = "calling" \/ r \in Made) => refund[r].seen = {}
    /\ \A r \in Refunds :
         RefundAmount[r] = 0 /\ made[r] \in 1..(Total - 1) => \E q \in Made : q # r

\* What a step of a request may do to what is made, seen and reversed.
LEMMA MadePath ==
    ASSUME RefundInv, NEW r \in Refunds, RefundStep(r) \/ RefundDies(r)
    PROVE  /\ \/ made' = made
              \/ /\ refund[r].pc = "calling" /\ refund'[r].pc \notin Early
                 /\ Asked(r) \in 1..Remaining
                 /\ made' = [made EXCEPT ![r] = Asked(r)]
                 /\ refund'[r].seen = refund[r].seen
           /\ refund'[r].pc \in Early => refund[r].pc \in Early /\ made' = made
           /\ \/ refund'[r].seen = refund[r].seen
                 /\ (refund'[r].pc = "calling" => refund[r].pc = "calling")
              \/ /\ refund[r].pc = "summing" /\ refund'[r].seen = rows
                 /\ refund'[r].pc = "calling" => Sum(rows) + Booked[r] <= Total
           /\ \/ reversed' = reversed
              \/ /\ made' = made /\ r \in Made
                 /\ \A e \in Settlements, q \in Refunds \ {r} : reversed'[e][q] = reversed[e][q]
<1>0. refund \in [Refunds -> RefundState] /\ ProgressIsRecorded /\ TypeOK
  BY DEF TypeOK, RefundInv
<1> USE <1>0 DEF Goto, At, RefundState, Early
<1>1. CASE RefundLooksUp(r)
  BY <1>1 DEF RefundLooksUp
<1>2. CASE RefundSums(r)
  <2> DEFINE over == Sum(rows) + Booked[r] > Total
  <2>1. /\ refund[r].pc = "summing" /\ refund'[r].seen = rows
        /\ refund'[r].pc = IF over THEN "refused" ELSE "calling"
        /\ made' = made /\ reversed' = reversed
    BY <1>2 DEF RefundSums
  <2>2. ~over => Sum(rows) + Booked[r] <= Total
    <3>1. Sum(rows) \in Int /\ Booked[r] \in Int /\ Total \in Int
      <4>1. IsFiniteSet(rows) /\ \A q \in rows : Booked[q] \in Int
        BY CheckoutAssumption, BookedType, FS_Subset DEF TypeOK
      <4>2. SumFunctionOnSet(Booked, rows) \in Int
        BY <4>1, SumRemove
      <4> QED BY <4>2, CheckoutAssumption, BookedType DEF Sum
    <3> QED BY <3>1
  <2> HIDE DEF over
  <2> QED BY <2>1, <2>2
<1>3. CASE StripeRefunds(r)
  BY <1>3 DEF StripeRefunds
<1>4. CASE StripeRefuses(r)
  BY <1>4 DEF StripeRefuses
<1>5. CASE RefundMarks(r)
  BY <1>5 DEF RefundMarks
<1>6. CASE RefundRecords(r)
  BY <1>6 DEF RefundRecords
<1>7. CASE RefundClaws(r)
  BY <1>7 DEF RefundClaws
<1>8. CASE RefundPays(r)
  BY <1>8 DEF RefundPays
<1>9. CASE RefundSelects(r)
  <2> DEFINE found == {x \in Settlements : settled[x] # "none"}
             open == {x \in Settlements : settled[x] \notin {"none", "refunded"}}
  <2>1. refund' = [refund EXCEPT ![r] = [refund[r] EXCEPT
                     !.pc = "reversing", !.entries = found, !.todo = open]]
    BY <1>9 DEF RefundSelects
  <2>2. UNCHANGED ledgerVars
    BY ONLY <1>9 DEF RefundSelects
  <2> HIDE DEF found, open
  <2>3. refund'[r].pc = "reversing" /\ refund'[r].seen = refund[r].seen
    BY <2>1
  <2> QED BY <2>2, <2>3
<1>10. CASE ReversalMarks(r)
  BY <1>10 DEF ReversalMarks
<1>11. CASE ReversalRecords(r)
  <2>1. /\ r \in Made /\ made' = made
        /\ refund'[r].pc = "reversal_debit" /\ refund'[r].seen = refund[r].seen
    BY <1>11 DEF ReversalRecords, ProgressIsRecorded, HaveStripe, HaveRow, HaveClawed,
       HavePaid, Reversing
  <2>2. \A e \in Settlements, q \in Refunds \ {r} : reversed'[e][q] = reversed[e][q]
    BY <1>11 DEF ReversalRecords, TypeOK
  <2> QED BY <2>1, <2>2
<1>12. CASE ReversalDebits(r)
  BY <1>12 DEF ReversalDebits
<1>13. CASE RefundEnds(r)
  BY <1>13 DEF RefundEnds
<1>14. CASE RefundDies(r)
  BY <1>14 DEF RefundDies
<1> QED
  BY <1>1, <1>2, <1>3, <1>4, <1>5, <1>6, <1>7, <1>8, <1>9, <1>10, <1>11, <1>12,
     <1>13, <1>14 DEF RefundStep

\* A refund Stripe has made stays made, for as much.
LEMMA MadeStays ==
    ASSUME RefundInv, MadeInv, NEW r \in Refunds, RefundStep(r) \/ RefundDies(r)
    PROVE  \A q \in Refunds : q # r \/ made[q] > 0 => made'[q] = made[q]
<1>1. made \in [Refunds -> Nat]
  BY DEF RefundInv, TypeOK
<1>2. CASE made' = made
  BY <1>2
<1>3. CASE refund[r].pc = "calling" /\ made' = [made EXCEPT ![r] = Asked(r)]
  <2>1. made[r] = 0
    BY <1>3 DEF MadeInv, Early
  <2> QED BY <1>1, <1>3, <2>1
<1> QED BY <1>2, <1>3, MadePath

LEMMA MadeInvStep ==
    ASSUME RefundInv, MadeInv, NEW r \in Refunds, RefundStep(r) \/ RefundDies(r)
    PROVE  MadeInv'
<1>0. TypeOK /\ TypeOK' /\ Moved(r) /\ made \in [Refunds -> Nat] /\ made' \in [Refunds -> Nat]
      /\ IsFiniteSet(Refunds) /\ Total \in Nat \ {0}
  BY RefundMoves, RefundType, CheckoutAssumption DEF RefundInv, TypeOK
<1> DEFINE Pays == /\ refund[r].pc = "calling" /\ refund'[r].pc \notin Early
                   /\ Asked(r) \in 1..Remaining
                   /\ made' = [made EXCEPT ![r] = Asked(r)]
                   /\ refund'[r].seen = refund[r].seen
<1>1. made' = made \/ Pays
  BY MadePath
<1>2. Pays => made[r] = 0 /\ made'[r] = Asked(r) /\ Asked(r) > 0
  BY <1>0 DEF MadeInv, Early
<1>3. Made \subseteq Made'
  BY <1>0, MadeStays DEF Made
<1>4. (Given <= Total)'
  <2>1. CASE made' = made
    BY <2>1 DEF MadeInv, Given
  <2>2. CASE Pays
    <3>1. Given' <= Given + Asked(r)
      <4>1. Asked(r) \in Nat
        BY <2>2
      <4>2. SumFunctionOnSet([made EXCEPT ![r] = Asked(r)], Refunds)
              <= SumFunctionOnSet(made, Refunds) + Asked(r)
        BY <1>0, <1>2, <2>2, <4>1, SumReplace
      <4> QED BY <2>2, <4>2 DEF Given
    <3>2. Given \in Nat /\ Given' \in Nat
      BY <1>0, SumNat DEF Given
    <3>3. Asked(r) <= Total - Given /\ Asked(r) \in Int
      BY <2>2, <3>2, <1>0 DEF Remaining, Given
    <3> QED BY <1>0, <3>1, <3>2, <3>3
  <2> QED BY <1>1, <2>1, <2>2
<1>5. ASSUME NEW q \in Refunds, refund'[q].pc \in Early
      PROVE  made'[q] = 0
  <2>1. CASE q = r
    BY <1>5, <2>1, MadePath DEF MadeInv
  <2>2. CASE q # r
    <3>1. made[q] = 0
      BY <1>0, <1>5, <2>2 DEF Moved, MadeInv
    <3> QED BY <2>2, <3>1, MadeStays
  <2> QED BY <2>1, <2>2
<1>6. ASSUME NEW q \in Refunds, RefundAmount[q] # 0
      PROVE  made'[q] \in {0, RefundAmount[q]}
  <2>1. CASE made'[q] = made[q]
    BY <1>6, <2>1 DEF MadeInv
  <2>2. CASE q = r /\ Pays
    BY <1>2, <1>6, <2>2 DEF Asked
  <2> QED BY <1>1, <2>1, <2>2, MadeStays
<1>7. ASSUME NEW e \in Settlements, NEW q \in Refunds, reversed'[e][q] > 0
      PROVE  q \in Made'
  <2>1. CASE reversed' = reversed
    BY <1>3, <1>7, <2>1 DEF MadeInv
  <2>2. CASE /\ made' = made /\ r \in Made
             /\ \A x \in Settlements, y \in Refunds \ {r} : reversed'[x][y] = reversed[x][y]
    BY <1>3, <1>7, <2>2 DEF MadeInv
  <2> QED BY <2>1, <2>2, MadePath
<1>8. ASSUME NEW q \in Refunds, RefundAmount[q] = 0,
             refund'[q].pc = "calling" \/ q \in Made'
      PROVE  refund'[q].seen = {}
  <2>1. CASE q # r
    <3>1. refund'[q] = refund[q] /\ made'[q] = made[q]
      BY <1>0, <2>1, MadeStays DEF Moved
    <3> QED BY <1>8, <3>1 DEF MadeInv, Made
  <2>2. CASE q = r /\ refund[r].pc = "summing" /\ refund'[r].seen = rows
             /\ (refund'[r].pc = "calling" => Sum(rows) + Booked[r] <= Total)
    <3>1. made[r] = 0 /\ made' = made
      BY <1>1, <2>2 DEF MadeInv, Early
    <3>2. Sum(rows) + Total <= Total
      BY <1>8, <2>2, <3>1, BookedType DEF Made
    <3>3. IsFiniteSet(rows) /\ \A x \in rows : Booked[x] \in Nat /\ Booked[x] > 0
      BY <1>0, BookedType, FS_Subset DEF TypeOK
    <3>4. SumFunctionOnSet(Booked, rows) <= 0
      <4>1. SumFunctionOnSet(Booked, rows) \in Nat
        BY <3>3, SumNat
      <4> QED BY <1>0, <3>2, <4>1 DEF Sum
    <3> QED BY <2>2, <3>3, <3>4, SumPositive
  <2>3. CASE q = r /\ refund'[r].seen = refund[r].seen
             /\ (refund'[r].pc = "calling" => refund[r].pc = "calling")
    <3>1. refund[r].pc = "calling" \/ r \in Made
      BY <1>1, <1>8, <2>3 DEF Made
    <3> QED BY <1>8, <2>3, <3>1 DEF MadeInv
  <2> QED BY <2>1, <2>2, <2>3, MadePath
<1>9. ASSUME NEW q \in Refunds, RefundAmount[q] = 0, made'[q] \in 1..(Total - 1)
      PROVE  \E x \in Made' : x # q
  <2>1. CASE made'[q] = made[q]
    BY <1>3, <1>9, <2>1 DEF MadeInv
  <2>2. CASE q = r /\ Pays
    <3>1. made'[q] = Total - Given /\ Given \in Nat
      <4>1. Given \in Nat
        BY <1>0, SumNat DEF Given
      <4>2. Asked(r) = Total - Given
        BY <1>9, <2>2 DEF Asked, Remaining, Given
      <4> HIDE DEF Pays
      <4> QED BY <1>2, <2>2, <4>1, <4>2
    <3>2. Given > 0
      BY <1>0, <1>9, <3>1
    <3>3. \E x \in Refunds : made[x] > 0
      BY <1>0, <3>2, SumWitness DEF Given
    <3>4. \E x \in Made : x # r
      BY <1>2, <2>2, <3>3 DEF Made
    <3> QED BY <1>3, <2>2, <3>4
  <2> QED BY <1>1, <2>1, <2>2, MadeStays
<1> HIDE DEF Pays
<1> QED BY <1>4, <1>5, <1>6, <1>7, <1>8, <1>9 DEF MadeInv

\* Unless one that named no amount was given what an unseen one had left, a refund
\* reverses no more of an entry than Stripe has made.
LEMMA ReversedWasMade ==
    ASSUME TypeOK, MadeInv, ~OverbookedUnseen, NEW e \in Settlements, NEW r \in Refunds,
           reversed[e][r] <= Booked[r]
    PROVE  reversed[e][r] <= made[r]
<1>1. reversed[e][r] \in Nat /\ made[r] \in Nat /\ Total \in Nat /\ RefundAmount[r] \in Nat
  BY CheckoutAssumption DEF TypeOK
<1>2. CASE r \notin Made
  BY <1>1, <1>2 DEF MadeInv
<1>3. CASE r \in Made /\ RefundAmount[r] # 0
  <2>1. made[r] = RefundAmount[r] /\ Booked[r] = RefundAmount[r]
    BY <1>1, <1>3, BookedType DEF MadeInv, Made
  <2> QED BY <2>1
<1>4. CASE r \in Made /\ RefundAmount[r] = 0
  <2>1. refund[r].seen = {} /\ Booked[r] = Total
    BY <1>4, BookedType DEF MadeInv
  <2>2. made[r] \notin 1..(Total - 1)
    <3> SUFFICES ASSUME made[r] \in 1..(Total - 1) PROVE FALSE
      OBVIOUS
    <3>1. PICK q \in Made : q # r
      BY <1>4 DEF MadeInv
    <3>2. q \in Refunds /\ q \notin refund[r].seen
      BY <2>1 DEF Made
    <3> QED BY <1>4, <3>1, <3>2 DEF OverbookedUnseen
  <2>3. made[r] >= Total
    BY <1>1, <1>4, <2>2 DEF Made
  <2> QED BY <1>1, <2>1, <2>3
<1> QED BY <1>2, <1>3, <1>4

\* However many refunds of an order run at the same time, wherever they die and
\* whatever they read before another one's rows were there, the reversals of a
\* settlement entry add up to more than the entry only if a refund that named no
\* amount was given what another one, whose row it did not find, had left, and was
\* booked for all of it (refund.ts:84, providers/stripe.ts:233-239).
THEOREM OverReversalIsUnseen == Spec => []OverReversedOnlyUnseen
<1>1. Init => MadeInv
  <2> SUFFICES ASSUME Init PROVE MadeInv
    OBVIOUS
  <2>1. \A r \in Refunds : made[r] = 0
    BY DEF Init
  <2>2. Given <= Total
    <3>1. SumFunctionOnSet(made, Refunds) <= SumFunctionOnSet(made, {})
      <4>1. \A r \in Refunds : made[r] \in Int /\ made[r] <= 0
        BY <2>1
      <4> QED BY <4>1, CheckoutAssumption, SumBounded
    <3>2. SumFunctionOnSet(made, Refunds) \in Nat
      <4>1. \A r \in Refunds : made[r] \in Nat
        BY <2>1
      <4> QED BY <4>1, CheckoutAssumption, SumNat
    <3> QED BY <3>1, <3>2, SumEmpty, CheckoutAssumption DEF Given
  <2>3. \A e \in Settlements, r \in Refunds : reversed[e][r] = 0
    BY DEF Init
  <2>4. \A r \in Refunds : refund[r].pc = "new" /\ r \notin Made
    BY <2>1 DEF Init, Made
  <2> QED BY <2>1, <2>2, <2>3, <2>4 DEF MadeInv
<1>2. RefundInv /\ MadeInv /\ [Next]_vars => MadeInv'
  <2> SUFFICES ASSUME RefundInv, MadeInv, [Next]_vars PROVE MadeInv'
    OBVIOUS
  <2>1. CASE \E r \in Refunds : RefundStep(r) \/ RefundDies(r)
    BY <2>1, MadeInvStep
  <2>2. CASE UNCHANGED <<refund, reversed, made>>
    BY <2>2 DEF MadeInv, Given, Made
  <2>3. \/ \E r \in Refunds : RefundStep(r) \/ RefundDies(r)
        \/ UNCHANGED <<refund, reversed, made>>
    BY DEF Next, vars, Webhook, Deliver, Mark, WorkOn, Finish, Notify, Fail, EventsSettle
  <2> QED BY <2>1, <2>2, <2>3
<1>3. TypeOK /\ MadeInv
        /\ (\A e \in Settlements, r \in Refunds :
              debited[e][r] <= reversed[e][r] /\ reversed[e][r] <= Booked[r])
        => OverReversedOnlyUnseen
  <2> SUFFICES ASSUME TypeOK, MadeInv, ~OverbookedUnseen, NEW e \in Settlements,
                      \A r \in Refunds : reversed[e][r] <= Booked[r]
               PROVE  SumFunctionOnSet(reversed[e], Refunds) <= Total
    BY DEF OverReversedOnlyUnseen, NeverOverReversed
  <2> DEFINE f == reversed[e]
  <2>1. \A r \in Refunds : f[r] \in Nat /\ made[r] \in Nat /\ f[r] <= made[r]
    BY ReversedWasMade DEF TypeOK
  <2>2. IsFiniteSet(Refunds) /\ Refunds \in SUBSET Refunds /\ Total \in Nat
    BY CheckoutAssumption
  <2> HIDE DEF f
  <2>3. SumFunctionOnSet(f, Refunds) <= SumFunctionOnSet(made, Refunds)
    <3>1. \A r \in Refunds : /\ f[r] \in Int /\ made[r] \in Int /\ f[r] <= made[r]
                             /\ r \notin Refunds => f[r] <= 0
      BY <2>1
    <3> QED BY <2>2, <3>1, SumBounded
  <2>4. /\ SumFunctionOnSet(f, Refunds) \in Nat
        /\ SumFunctionOnSet(made, Refunds) \in Nat
    BY <2>1, <2>2, SumNat
  <2>5. SumFunctionOnSet(made, Refunds) <= Total
    BY DEF MadeInv, Given
  <2>6. SumFunctionOnSet(f, Refunds) <= Total
    BY <2>2, <2>3, <2>4, <2>5
  <2> QED BY <2>6 DEF f
<1>4. Spec => []RefundInv
  BY RefundInvariant
<1> QED BY <1>1, <1>2, <1>3, <1>4, TypeCorrect, EachReversalIsOneShare, PTL DEF Spec
=============================================================================

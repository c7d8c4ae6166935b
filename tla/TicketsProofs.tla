--------------------------- MODULE TicketsProofs ---------------------------
(***************************************************************************)
(* Theorems about Tickets, for any number of tickets, purchases and        *)
(* requests, all overlapping and dying wherever they may: no ticket is     *)
(* counted as sold twice, and a ticket lives once (TicketLife).  While no  *)
(* two of them overlap and none dies halfway, what a request read is still *)
(* so when it writes, the sold count is exact, and an order and its        *)
(* tickets agree.                                                          *)
(***************************************************************************)
EXTENDS Tickets, FiniteSetTheorems, TLAPS

(* What a step does to the task of the request that takes it.              *)

LEMMA GotoMoves ==
    ASSUME TypeOK, NEW r \in Requests, NEW op \in Ops, Goto(r, op)
    PROVE  /\ task' \in [Requests -> Task]
           /\ \A q \in Requests : q # r => task'[q] = task[q]
           /\ task'[r].op = op
           /\ task'[r].order = task[r].order
           /\ task'[r].tickets = task[r].tickets
<1>1. task[r] \in Task
  BY DEF TypeOK
<1>2. task' = [task EXCEPT ![r] = [task[r] EXCEPT !.op = op]]
  BY DEF Goto
<1>3. [task[r] EXCEPT !.op = op] \in Task
  BY <1>1 DEF Task
<1>4. \A q \in Requests : q # r => task'[q] = task[q]
  BY <1>2 DEF TypeOK
<1>5. task'[r] = [task[r] EXCEPT !.op = op]
  BY <1>2 DEF TypeOK
<1>6. task' \in [Requests -> Task]
  BY <1>2, <1>3 DEF TypeOK
<1>7. /\ task'[r].op = op
      /\ task'[r].order = task[r].order
      /\ task'[r].tickets = task[r].tickets
  BY <1>1, <1>5 DEF Task
<1> QED BY <1>4, <1>6, <1>7

LEMMA StartMoves ==
    ASSUME TypeOK, NEW r \in Requests, NEW op \in Ops, NEW o \in Orders,
           NEW S \in SUBSET Tickets, NEW n \in Nat, Start(r, op, o, S, n)
    PROVE  /\ task' \in [Requests -> Task]
           /\ \A q \in Requests : q # r => task'[q] = task[q]
           /\ task'[r].op = op
           /\ task'[r].order = o
           /\ task'[r].tickets = S
BY DEF TypeOK, Start, Task

LEMMA ReturnMoves ==
    ASSUME TypeOK, NEW r \in Requests, Return(r)
    PROVE  /\ task' \in [Requests -> Task]
           /\ \A q \in Requests : q # r => task'[q] = task[q]
           /\ task'[r].op = "idle"
           /\ task'[r].tickets = {}
<1>1. Idle \in Task
  BY DEF Idle, Task, Ops
<1> QED BY <1>1 DEF TypeOK, Return, Idle

LEMMA ValidateMoves ==
    ASSUME TypeOK, NEW r \in Requests, NEW expired, Validate(r, expired)
    PROVE  /\ task' \in [Requests -> Task]
           /\ \A q \in Requests : q # r => task'[q] = task[q]
           /\ \/ task'[r].op = "idle" /\ task'[r].tickets = {}
              \/ /\ task'[r].op \in {"order", "insert"}
                 /\ task'[r].order = task[r].order
                 /\ task'[r].tickets = task[r].tickets
<1>1. task[r] \in Task
  BY DEF TypeOK
<1>2. CASE Return(r)
  BY <1>2, ReturnMoves
<1>3. ASSUME NEW op \in {"order", "insert"},
             task' = [task EXCEPT ![r] = [task[r] EXCEPT !.op = op, !.sold = 0]]
      PROVE  /\ task' \in [Requests -> Task]
             /\ \A q \in Requests : q # r => task'[q] = task[q]
             /\ task'[r].op = op
             /\ task'[r].order = task[r].order
             /\ task'[r].tickets = task[r].tickets
  <2> DEFINE new == [task[r] EXCEPT !.op = op, !.sold = 0]
  <2>1. /\ new \in Task /\ new.op = op
        /\ new.order = task[r].order /\ new.tickets = task[r].tickets
    BY <1>1 DEF Task, Ops
  <2> HIDE DEF new
  <2> QED BY <1>3, <2>1 DEF TypeOK, new
<1>4. \/ Return(r)
      \/ \E op \in {"order", "insert"} :
            task' = [task EXCEPT ![r] = [task[r] EXCEPT !.op = op, !.sold = 0]]
  BY DEF Validate
<1> QED BY <1>2, <1>3, <1>4

LEMMA FiniteTickets ==
    ASSUME NEW S \in SUBSET Tickets
    PROVE  IsFiniteSet(S) /\ Cardinality(S) \in Nat
BY TicketsAssumption, FS_Subset, FS_CardinalityType

-----------------------------------------------------------------------------
(* Type correctness.                                                       *)

LEMMA SetStatusType ==
    ASSUME TypeOK, NEW S, NEW s \in Statuses, SetStatus(S, s)
    PROVE  status' \in [Tickets -> Statuses]
BY DEF TypeOK, SetStatus

LEMMA UncountType ==
    ASSUME TypeOK, NEW n \in Nat, Uncount(n)
    PROVE  sold' \in Nat /\ sold' <= sold
BY DEF TypeOK, Uncount

LEMMA InitType == Init => TypeOK
BY DEF Init, TypeOK, Idle, Task, Ops, Statuses, OrderStatuses

\* Every way a purchase begins.
Begin(r, o) ==
    \/ \E m \in {"etransfer", "balance", "hold"} : Checkout(r, o, m)
    \/ FreeCheckout(r, o)
    \/ PaymentWebhook(r, o)

LEMMA BeginMoves ==
    ASSUME TypeOK, NEW r \in Requests, NEW o \in Orders, Begin(r, o)
    PROVE  \E m \in Methods, op \in {"validate", "order", "insert"}, n \in Nat :
              /\ Purchase(o, m)
              /\ Start(r, op, o, TicketsOf(o), n)
              /\ serial' \in BOOLEAN
              /\ UNCHANGED <<status, orderStatus, sold, issued>>
<1>1. ASSUME NEW m \in {"etransfer", "balance", "hold"}, Checkout(r, o, m)
      PROVE  /\ Purchase(o, m) /\ m \in Methods
             /\ Start(r, "validate", o, TicketsOf(o), sold) /\ sold \in Nat
             /\ serial' \in BOOLEAN
             /\ UNCHANGED <<status, orderStatus, sold, issued>>
  BY <1>1 DEF Checkout, Methods, TypeOK
<1>2. CASE FreeCheckout(r, o)
  BY <1>2 DEF FreeCheckout, Methods, TypeOK
<1>3. CASE PaymentWebhook(r, o)
  BY <1>3 DEF PaymentWebhook, Methods, TypeOK
<1> QED BY <1>1, <1>2, <1>3 DEF Begin

LEMMA BeginType ==
    ASSUME TypeOK, NEW r \in Requests, NEW o \in Orders, Begin(r, o)
    PROVE  TypeOK'
<1>1. PICK m \in Methods, op \in {"validate", "order", "insert"}, n \in Nat :
              /\ Purchase(o, m)
              /\ Start(r, op, o, TicketsOf(o), n)
              /\ serial' \in BOOLEAN
              /\ UNCHANGED <<status, orderStatus, sold, issued>>
  BY BeginMoves
<1>2. TicketsOf(o) \in SUBSET Tickets /\ op \in Ops
  BY DEF TicketsOf, TypeOK, Ops
<1>3. task' \in [Requests -> Task]
  BY <1>1, <1>2, StartMoves
<1>4. method' \in [Orders -> Methods \cup {"none"}]
  BY <1>1 DEF Purchase, TypeOK
<1> QED BY <1>1, <1>3, <1>4 DEF TypeOK

\* The rest of a purchase.
Proceed(r) ==
    \/ \E expired \in SUBSET Tickets : Validate(r, expired)
    \/ InsertOrder(r) \/ Inserted(r) \/ CountSold(r)
    \/ \E t \in Tickets : InsertTicket(r, t)

LEMMA ProceedType ==
    ASSUME TypeOK, NEW r \in Requests, Proceed(r)
    PROVE  TypeOK'
<1>0. task[r].tickets \in SUBSET Tickets /\ task[r].order \in Orders \cup {NoOrder}
  BY DEF TypeOK, Task
<1>1. ASSUME NEW expired \in SUBSET Tickets, Validate(r, expired) PROVE TypeOK'
  <2>1. task' \in [Requests -> Task]
    BY <1>1, ValidateMoves
  <2>2. status' \in [Tickets -> Statuses]
    BY <1>1, SetStatusType DEF Validate, Statuses
  <2>3. serial' \in BOOLEAN
    BY <1>1 DEF Validate, TypeOK
  <2> QED BY <1>1, <2>1, <2>2, <2>3 DEF Validate, TypeOK
<1>2. CASE InsertOrder(r)
  <2>1. task' \in [Requests -> Task]
    BY <1>2, GotoMoves DEF InsertOrder, Ops
  <2>2. orderStatus' \in [Orders -> OrderStatuses]
    BY <1>2 DEF InsertOrder, TypeOK, OrderStatuses
  <2> QED BY <1>2, <2>1, <2>2 DEF InsertOrder, TypeOK
<1>3. CASE Inserted(r)
  <2>1. task' \in [Requests -> Task]
    BY <1>3, GotoMoves, ReturnMoves DEF Inserted, Ops
  <2> QED BY <1>3, <2>1 DEF Inserted, TypeOK
<1>4. CASE CountSold(r)
  <2>1. task' \in [Requests -> Task]
    BY <1>4, ReturnMoves DEF CountSold
  <2>2. sold' \in Nat
    BY <1>0, <1>4, FiniteTickets DEF CountSold, TypeOK
  <2> QED BY <1>0, <1>4, <2>1, <2>2 DEF CountSold, TypeOK
<1>5. ASSUME NEW t \in Tickets, InsertTicket(r, t) PROVE TypeOK'
  <2>1. status' \in [Tickets -> Statuses]
    BY <1>5, SetStatusType DEF InsertTicket, Statuses
  <2> QED BY <1>5, <2>1 DEF InsertTicket, TypeOK
<1> QED BY <1>1, <1>2, <1>3, <1>4, <1>5 DEF Proceed

\* Routes that read the tickets they are going to write.
Read(r) ==
    \/ \E o \in Orders : Confirm(r, o) \/ RefundOrder(r, o)
    \/ \E t \in Tickets, op \in {"cancel", "release", "checkin", "refund", "sent"} :
          ReadTicket(r, t, op)

Touching == {"cancel", "release", "checkin", "refund", "mark", "sent",
             "order-refund"}

\* They read tickets that have a row.
LEMMA ReadMoves ==
    ASSUME TypeOK, NEW r \in Requests, Read(r)
    PROVE  \E o \in Orders, S \in SUBSET Tickets, op \in Touching \cup {"confirm"} :
              /\ Start(r, op, o, S, 0)
              /\ \A t \in S : status[t] # "none"
              /\ serial' \in BOOLEAN
              /\ UNCHANGED <<method, status, orderStatus, sold, issued>>
<1>1. ASSUME NEW o \in Orders, Confirm(r, o)
      PROVE  \E S \in SUBSET Tickets :
                /\ Start(r, "confirm", o, S, 0)
                /\ \A t \in S : status[t] # "none"
                /\ serial' \in BOOLEAN
                /\ UNCHANGED <<method, status, orderStatus, sold, issued>>
  <2> DEFINE held == Held \cap TicketsOf(o)
  <2>1. held \in SUBSET Tickets /\ \A t \in held : status[t] # "none"
    BY DEF Held, TicketsOf
  <2>2. /\ Start(r, "confirm", o, held, 0)
        /\ Watch("confirm", held)
        /\ UNCHANGED <<method, status, orderStatus, sold, issued>>
    BY <1>1 DEF Confirm
  <2>3. serial' \in BOOLEAN
    BY <2>2 DEF Watch, TypeOK
  <2> HIDE DEF held
  <2> QED BY <2>1, <2>2, <2>3
<1>2. ASSUME NEW o \in Orders, RefundOrder(r, o)
      PROVE  \E S \in SUBSET Tickets :
                /\ Start(r, "order-refund", o, S, 0)
                /\ \A t \in S : status[t] # "none"
                /\ serial' \in BOOLEAN
                /\ UNCHANGED <<method, status, orderStatus, sold, issued>>
  <2>1. Active(o) \in SUBSET Tickets /\ \A t \in Active(o) : status[t] # "none"
    BY DEF Active, TicketsOf
  <2>2. /\ Start(r, "order-refund", o, Active(o), 0)
        /\ Watch("order-refund", TicketsOf(o))
        /\ UNCHANGED <<method, status, orderStatus, sold, issued>>
    BY <1>2 DEF RefundOrder
  <2>3. serial' \in BOOLEAN
    BY <2>2 DEF Watch, TypeOK
  <2> QED BY <2>1, <2>2, <2>3
<1>3. ASSUME NEW t \in Tickets,
             NEW op \in {"cancel", "release", "checkin", "refund", "sent"},
             ReadTicket(r, t, op)
      PROVE  /\ OrderOf[t] \in Orders /\ {t} \in SUBSET Tickets /\ op \in Touching
             /\ Start(r, op, OrderOf[t], {t}, 0)
             /\ status[t] # "none"
             /\ serial' \in BOOLEAN
             /\ UNCHANGED <<method, status, orderStatus, sold, issued>>
  <2>1. status[t] # "none"
    BY <1>3 DEF ReadTicket, Accepts
  <2>2. OrderOf[t] \in Orders
    BY TicketsAssumption
  <2> QED BY <1>3, <2>1, <2>2 DEF ReadTicket, Watch, TypeOK, Touching
<1> QED BY <1>1, <1>2, <1>3 DEF Read, Touching

LEMMA ReadType ==
    ASSUME TypeOK, NEW r \in Requests, Read(r)
    PROVE  TypeOK'
<1>1. PICK o \in Orders, S \in SUBSET Tickets, op \in Touching \cup {"confirm"} :
              /\ Start(r, op, o, S, 0)
              /\ serial' \in BOOLEAN
              /\ UNCHANGED <<method, status, orderStatus, sold, issued>>
  BY ReadMoves
<1>2. task' \in [Requests -> Task]
  BY <1>1, StartMoves DEF Touching, Ops
<1> QED BY <1>1, <1>2 DEF TypeOK

\* The routes' writes.
Write(r) ==
    \/ ConfirmTickets(r) \/ CompleteOrder(r)
    \/ \E op \in {"cancel", "release", "checkin", "mark", "sent"} :
          WriteTicket(r, op)
    \/ RefundTicket(r) \/ RefundOrderTickets(r) \/ RefundOrderCount(r)
    \/ KeepCount(r) \/ RefundOrderRow(r) \/ Die(r)

LEMMA ConfirmMoves ==
    ASSUME TypeOK, NEW r \in Requests, ConfirmTickets(r)
    PROVE  /\ task' \in [Requests -> Task]
           /\ \A q \in Requests : q # r => task'[q] = task[q]
           /\ task'[r].op = "complete"
           /\ task'[r].tickets = Confirmable(r)
<1>1. task[r] \in Task
  BY DEF TypeOK
<1>2. Confirmable(r) \in SUBSET Tickets
  BY <1>1 DEF Confirmable, Task
<1>3. task' = [task EXCEPT ![r] =
                  [task[r] EXCEPT !.op = "complete", !.tickets = Confirmable(r)]]
  BY DEF ConfirmTickets
<1> HIDE DEF Confirmable
<1> DEFINE new == [task[r] EXCEPT !.op = "complete", !.tickets = Confirmable(r)]
<1>4. new \in Task /\ new.op = "complete" /\ new.tickets = Confirmable(r)
  BY <1>1, <1>2 DEF Task, Ops
<1> HIDE DEF new
<1> QED BY <1>3, <1>4 DEF TypeOK, new

LEMMA WriteType ==
    ASSUME TypeOK, NEW r \in Requests, Write(r)
    PROVE  TypeOK'
<1>0. task[r].tickets \in SUBSET Tickets /\ task[r].order \in Orders \cup {NoOrder}
  BY DEF TypeOK, Task
<1>1. CASE ConfirmTickets(r)
  <2>1. task' \in [Requests -> Task]
    BY <1>1, ConfirmMoves
  <2>2. status' \in [Tickets -> Statuses]
    BY <1>1, SetStatusType DEF ConfirmTickets, Statuses
  <2>3. issued' \subseteq Tickets
    BY <1>0, <1>1 DEF ConfirmTickets, Confirmable, TypeOK
  <2> QED BY <1>1, <2>1, <2>2, <2>3 DEF ConfirmTickets, TypeOK
<1>2. CASE CompleteOrder(r)
  <2>1. task' \in [Requests -> Task]
    BY <1>2, GotoMoves, ReturnMoves DEF CompleteOrder, Ops
  <2>2. orderStatus' \in [Orders -> OrderStatuses]
    BY <1>2 DEF CompleteOrder, TypeOK, OrderStatuses
  <2> QED BY <1>2, <2>1, <2>2 DEF CompleteOrder, TypeOK
<1>3. ASSUME NEW op \in {"cancel", "release", "checkin", "mark", "sent"},
             WriteTicket(r, op)
      PROVE  TypeOK'
  <2>1. task' \in [Requests -> Task]
    BY <1>3, ReturnMoves DEF WriteTicket
  <2>2. \A t : Leaves(op, t) \in Statuses
    BY DEF Leaves, Statuses
  <2>3. status' \in [Tickets -> Statuses]
    BY <1>3, <2>2, SetStatusType DEF WriteTicket
  <2> QED BY <1>3, <2>1, <2>3 DEF WriteTicket, TypeOK
<1>4. CASE RefundTicket(r)
  <2>1. task' \in [Requests -> Task]
    BY <1>4, GotoMoves DEF RefundTicket, Ops
  <2>2. sold' \in Nat
    BY <1>4, UncountType DEF RefundTicket
  <2> QED BY <1>4, <2>1, <2>2 DEF RefundTicket, TypeOK
<1>5. CASE RefundOrderTickets(r)
  <2>1. task' \in [Requests -> Task]
    BY <1>5, GotoMoves DEF RefundOrderTickets, Ops
  <2>2. status' \in [Tickets -> Statuses]
    BY <1>5, SetStatusType DEF RefundOrderTickets, Statuses
  <2> QED BY <1>5, <2>1, <2>2 DEF RefundOrderTickets, TypeOK
<1>6. CASE RefundOrderCount(r)
  <2>1. task' \in [Requests -> Task]
    BY <1>6, GotoMoves DEF RefundOrderCount, Ops
  <2>2. sold' \in Nat
    BY <1>0, <1>6, UncountType, FiniteTickets DEF RefundOrderCount
  <2> QED BY <1>6, <2>1, <2>2 DEF RefundOrderCount, TypeOK
<1>7. CASE RefundOrderRow(r)
  <2>1. task' \in [Requests -> Task]
    BY <1>7, ReturnMoves DEF RefundOrderRow
  <2>2. orderStatus' \in [Orders -> OrderStatuses]
    BY <1>7 DEF RefundOrderRow, TypeOK, OrderStatuses
  <2> QED BY <1>7, <2>1, <2>2 DEF RefundOrderRow, TypeOK
<1>8. CASE Die(r)
  <2>1. task' \in [Requests -> Task]
    BY <1>8, ReturnMoves DEF Die
  <2> QED BY <1>8, <2>1 DEF Die, TypeOK
<1>9. CASE KeepCount(r)
  <2>1. task' \in [Requests -> Task]
    BY <1>9, GotoMoves DEF KeepCount, Ops
  <2> QED BY <1>9, <2>1 DEF KeepCount, TypeOK
<1> QED BY <1>1, <1>2, <1>3, <1>4, <1>5, <1>6, <1>7, <1>8, <1>9 DEF Write

LEMMA NextIsAStep ==
    ASSUME Next
    PROVE  \/ \E r \in Requests : \/ \E o \in Orders : Begin(r, o)
                                  \/ Proceed(r) \/ Read(r) \/ Write(r)
<1>1. ASSUME NEW r \in Requests, Buy(r)
      PROVE  (\E o \in Orders : Begin(r, o)) \/ Proceed(r)
  BY <1>1 DEF Buy, Begin, Proceed
<1>2. ASSUME NEW r \in Requests, Organise(r)
      PROVE  Read(r) \/ Write(r)
  BY <1>2 DEF Organise, Read, Write
<1> QED BY <1>1, <1>2 DEF Next, Write

LEMMA NextType == TypeOK /\ [Next]_vars => TypeOK'
<1> SUFFICES ASSUME TypeOK, [Next]_vars PROVE TypeOK'
  OBVIOUS
<1>1. CASE UNCHANGED vars
  BY <1>1 DEF vars, TypeOK
<1> QED BY <1>1, NextIsAStep, BeginType, ProceedType, ReadType, WriteType

\* Every variable keeps its type.
THEOREM TypeCorrect == Spec => []TypeOK
BY InitType, NextType, PTL DEF Spec

-----------------------------------------------------------------------------
(* No ticket is counted twice.                                             *)

Buying == {"validate", "order", "insert"}
Paid   == {"complete", "count"}

\* What a request's rows say of the purchase and the tickets it works on.
TasksTrackRows ==
    \A r \in Requests :
        /\ task[r].op \in Buying =>
              /\ task[r].order \in Orders
              /\ task[r].tickets = TicketsOf(task[r].order)
              /\ method[task[r].order] # "none"
        /\ task[r].op \in Paid => task[r].tickets \subseteq issued
        /\ task[r].op \in Touching =>
              \A t \in task[r].tickets : status[t] # "none"

\* When a ticket has been issued, by the route of its purchase.
IssueTracksStatus ==
    \A t \in Tickets :
        /\ status[t] \in {"none", "held"} => t \notin issued
        /\ method[OrderOf[t]] = "none" => status[t] = "none"
        /\ status[t] # "none" /\ ~ Reserves(OrderOf[t]) => t \in issued

\* The tickets a request is going to add to the sold count.
Owed(r) ==
    {t \in task[r].tickets : \/ task[r].op \in Paid
                             \/ /\ task[r].op \in Buying
                                /\ ~ Reserves(task[r].order)}

\* The issued tickets that no request is going to add to it any more.
Settled == {t \in issued : \A r \in Requests : t \notin Owed(r)}

\* No ticket is owed to the sold count twice, or again.
OwedOnce ==
    /\ sold <= Cardinality(Settled)
    /\ \A r, q \in Requests : r # q => Owed(r) \cap Owed(q) = {}

SoldInv == TypeOK /\ TasksTrackRows /\ IssueTracksStatus /\ OwedOnce

LEMMA SoldInit == Init => SoldInv
<1> SUFFICES ASSUME Init PROVE SoldInv
  OBVIOUS
<1>1. TypeOK
  BY InitType
<1>2. TasksTrackRows
  BY DEF Init, TasksTrackRows, Idle, Buying, Paid, Touching
<1>3. IssueTracksStatus
  BY DEF Init, IssueTracksStatus
<1>4. OwedOnce
  <2>1. Settled = {} /\ \A r \in Requests : Owed(r) = {}
    BY DEF Init, Settled, Owed, Idle
  <2> QED BY <2>1, FS_EmptySet DEF Init, OwedOnce
<1> QED BY <1>1, <1>2, <1>3, <1>4 DEF SoldInv

\* A ticket without a row whose purchase has not begun, and a held ticket, are
\* owed by nobody.
LEMMA NotYetOwed ==
    ASSUME SoldInv, NEW t \in Tickets, NEW q \in Requests,
           status[t] = "held" \/ method[OrderOf[t]] = "none"
    PROVE  t \notin issued /\ t \notin Owed(q)
<1>1. t \notin issued
  BY DEF SoldInv, IssueTracksStatus
<1>2. SUFFICES ASSUME t \in Owed(q) PROVE FALSE
  BY <1>1
<1>3. /\ task[q].op \in Buying /\ ~ Reserves(task[q].order)
      /\ t \in TicketsOf(task[q].order)
      /\ method[task[q].order] # "none"
  BY <1>1, <1>2 DEF Owed, SoldInv, TasksTrackRows
<1>4. OrderOf[t] = task[q].order
  BY <1>3 DEF TicketsOf
<1> QED BY <1>1, <1>3, <1>4 DEF SoldInv, IssueTracksStatus

\* A step of request r that counts nothing: what it comes to owe, it owed
\* before, or nobody did.
LEMMA OwedOnceKept ==
    ASSUME SoldInv, NEW r \in Requests,
           \A q \in Requests : q # r => task'[q] = task[q],
           \A o \in Orders : method[o] # "none" => method'[o] = method[o],
           issued \subseteq issued',
           TypeOK', sold' <= sold, sold' \in Nat,
           \A t \in Owed(r)' :
              \/ t \in Owed(r)
              \/ t \notin issued /\ \A q \in Requests : t \notin Owed(q)
    PROVE  OwedOnce'
<1>1. \A q \in Requests : q # r => Owed(q)' = Owed(q)
  BY DEF SoldInv, TasksTrackRows, Owed, Reserves
<1>2. Settled \subseteq Settled'
  <2> SUFFICES ASSUME NEW t \in Settled, NEW q \in Requests, t \in Owed(q)'
               PROVE  FALSE
    BY DEF Settled
  <2>1. t \in issued /\ \A p \in Requests : t \notin Owed(p)
    BY DEF Settled
  <2>2. CASE q = r
    BY <2>1, <2>2
  <2>3. CASE q # r
    BY <1>1, <2>1, <2>3
  <2> QED BY <2>2, <2>3
<1>3. sold' <= Cardinality(Settled')
  <2>1. Settled \in SUBSET Tickets /\ Settled' \in SUBSET Tickets
    BY DEF SoldInv, TypeOK, Settled
  <2>2. /\ Cardinality(Settled) <= Cardinality(Settled')
        /\ Cardinality(Settled) \in Nat /\ Cardinality(Settled') \in Nat
    BY <1>2, <2>1, FiniteTickets, FS_Subset
  <2>3. sold <= Cardinality(Settled) /\ sold \in Nat
    BY DEF SoldInv, OwedOnce, TypeOK
  <2> QED BY <2>2, <2>3
<1>4. \A p, q \in Requests : p # q => Owed(p)' \cap Owed(q)' = {}
  BY <1>1 DEF SoldInv, OwedOnce
<1> QED BY <1>3, <1>4 DEF OwedOnce

\* The others' rows, when r takes a step that closes no row of theirs.
LEMMA TasksTrackRowsKept ==
    ASSUME SoldInv, NEW r \in Requests,
           \A q \in Requests : q # r => task'[q] = task[q],
           \A o \in Orders : method[o] # "none" => method'[o] = method[o],
           \A t \in Tickets : status[t] # "none" => status'[t] # "none",
           issued \subseteq issued',
           /\ task'[r].op \in Buying =>
                 /\ task'[r].order \in Orders
                 /\ task'[r].tickets = TicketsOf(task'[r].order)
                 /\ method'[task'[r].order] # "none"
           /\ task'[r].op \in Paid => task'[r].tickets \subseteq issued'
           /\ task'[r].op \in Touching =>
                 \A t \in task'[r].tickets : status'[t] # "none"
    PROVE  TasksTrackRows'
<1>1. \A q \in Requests : task[q].tickets \subseteq Tickets
  BY DEF SoldInv, TypeOK, Task
<1>2. ASSUME NEW q \in Requests, q # r
      PROVE  /\ task'[q].op \in Buying =>
                    /\ task'[q].order \in Orders
                    /\ task'[q].tickets = TicketsOf(task'[q].order)
                    /\ method'[task'[q].order] # "none"
             /\ task'[q].op \in Paid => task'[q].tickets \subseteq issued'
             /\ task'[q].op \in Touching =>
                   \A t \in task'[q].tickets : status'[t] # "none"
  BY <1>1, <1>2 DEF SoldInv, TasksTrackRows
<1>3. TicketsOf(task[r].order)' = TicketsOf(task'[r].order)
      /\ \A q \in Requests : TicketsOf(task[q].order)' = TicketsOf(task'[q].order)
  BY DEF TicketsOf
<1> QED BY <1>2, <1>3 DEF TasksTrackRows

LEMMA BeginSold ==
    ASSUME SoldInv, NEW r \in Requests, NEW o \in Orders, Begin(r, o)
    PROVE  SoldInv'
<1>0. TypeOK
  BY DEF SoldInv
<1>1. PICK m \in Methods, op \in Buying, n \in Nat :
              /\ Purchase(o, m)
              /\ Start(r, op, o, TicketsOf(o), n)
              /\ UNCHANGED <<status, orderStatus, sold, issued>>
  BY <1>0, BeginMoves DEF Buying
<1>2. TicketsOf(o) \in SUBSET Tickets /\ op \in Ops /\ m # "none"
  BY <1>0 DEF TicketsOf, TypeOK, Ops, Buying, Methods
<1>3. /\ \A q \in Requests : q # r => task'[q] = task[q]
      /\ task'[r].op = op /\ task'[r].order = o /\ task'[r].tickets = TicketsOf(o)
  BY <1>0, <1>1, <1>2, StartMoves
<1>4. /\ method[o] = "none" /\ method'[o] # "none"
      /\ \A p \in Orders : p # o => method'[p] = method[p]
  BY <1>0, <1>1, <1>2 DEF Purchase, TypeOK
<1>5. TypeOK'
  BY <1>0, BeginType
<1>6. TasksTrackRows'
  BY <1>1, <1>3, <1>4, TasksTrackRowsKept DEF Buying, Paid, Touching
<1>7. IssueTracksStatus'
  BY <1>1, <1>4, TicketsAssumption DEF SoldInv, IssueTracksStatus, Reserves
<1>8. \A t \in Owed(r)' : t \notin issued /\ \A q \in Requests : t \notin Owed(q)
  <2> SUFFICES ASSUME NEW t \in TicketsOf(o)
               PROVE  t \notin issued /\ \A q \in Requests : t \notin Owed(q)
    BY <1>3 DEF Owed
  <2> QED BY <1>4, NotYetOwed DEF TicketsOf
<1>9. OwedOnce'
  BY <1>0, <1>1, <1>2, <1>3, <1>4, <1>5, <1>8, OwedOnceKept DEF TypeOK
<1> QED BY <1>5, <1>6, <1>7, <1>9 DEF SoldInv

\* An update that closes tickets which have a row.
LEMMA ClosingKeepsIssue ==
    ASSUME SoldInv, NEW S, NEW s \in Statuses \ {"none", "held"}, SetStatus(S, s),
           \A t \in S \cap Tickets : status[t] # "none",
           UNCHANGED <<method, issued>>
    PROVE  /\ IssueTracksStatus'
           /\ \A t \in Tickets : status[t] # "none" => status'[t] # "none"
<1>1. \A t \in Tickets : status'[t] = IF t \in S THEN s ELSE status[t]
  BY DEF SetStatus
<1>2. \A t \in Tickets : t \in S => status[t] # "none" /\ status'[t] \notin {"none", "held"}
  BY <1>1
<1>3. \A t \in Tickets : t \notin S => status'[t] = status[t]
  BY <1>1
<1>4. \A t \in Tickets : status[t] # "none" => status'[t] # "none"
  BY <1>2, <1>3
<1>5. IssueTracksStatus'
  <2> SUFFICES ASSUME NEW t \in Tickets
               PROVE  /\ status'[t] \in {"none", "held"} => t \notin issued'
                      /\ method'[OrderOf[t]] = "none" => status'[t] = "none"
                      /\ status'[t] # "none" /\ ~ Reserves(OrderOf[t])' => t \in issued'
    BY DEF IssueTracksStatus
  <2>1. CASE t \in S
    BY <1>2, <2>1 DEF SoldInv, IssueTracksStatus, Reserves
  <2>2. CASE t \notin S
    BY <1>3, <2>2 DEF SoldInv, IssueTracksStatus, Reserves
  <2> QED BY <2>1, <2>2
<1> QED BY <1>4, <1>5

LEMMA ProceedSold ==
    ASSUME SoldInv, NEW r \in Requests, Proceed(r)
    PROVE  SoldInv'
<1>0. TypeOK /\ task[r] \in Task /\ sold \in Nat
  BY DEF SoldInv, TypeOK
<1>1. TypeOK'
  BY <1>0, ProceedType
<1>2. ASSUME NEW expired \in SUBSET Tickets, Validate(r, expired) PROVE SoldInv'
  <2>1. /\ \A q \in Requests : q # r => task'[q] = task[q]
        /\ \/ task'[r].op = "idle" /\ task'[r].tickets = {}
           \/ /\ task'[r].op \in {"order", "insert"}
              /\ task'[r].order = task[r].order
              /\ task'[r].tickets = task[r].tickets
    BY <1>0, <1>2, ValidateMoves
  <2>2. /\ task[r].op = "validate" /\ SetStatus(expired, "available")
        /\ expired \subseteq Held
        /\ UNCHANGED <<method, orderStatus, sold, issued>>
    BY <1>2 DEF Validate, Doing
  <2>3. /\ IssueTracksStatus'
        /\ \A t \in Tickets : status[t] # "none" => status'[t] # "none"
    BY <2>2, ClosingKeepsIssue DEF Held, Statuses
  <2>4. TasksTrackRows'
    BY <2>1, <2>2, <2>3, TasksTrackRowsKept DEF Buying, Paid, Touching, SoldInv, TasksTrackRows
  <2>5. Owed(r)' \subseteq Owed(r)
    BY <2>1, <2>2 DEF Owed, Buying, Paid, Reserves
  <2>6. OwedOnce'
    BY <1>0, <1>1, <2>1, <2>2, <2>5, OwedOnceKept
  <2> QED BY <1>1, <2>3, <2>4, <2>6 DEF SoldInv
<1>3. CASE InsertOrder(r)
  <2>1. /\ \A q \in Requests : q # r => task'[q] = task[q]
        /\ task'[r].op = "insert"
        /\ task'[r].order = task[r].order /\ task'[r].tickets = task[r].tickets
    BY <1>0, <1>3, GotoMoves DEF InsertOrder, Ops
  <2>2. /\ task[r].op = "order"
        /\ UNCHANGED <<method, status, sold, issued>>
    BY <1>3 DEF InsertOrder, Doing
  <2>3. TasksTrackRows'
    BY <2>1, <2>2, TasksTrackRowsKept DEF Buying, Paid, Touching, SoldInv, TasksTrackRows
  <2>4. IssueTracksStatus'
    BY <2>2 DEF SoldInv, IssueTracksStatus, Reserves
  <2>5. Owed(r)' \subseteq Owed(r)
    BY <2>1, <2>2 DEF Owed, Buying, Paid, Reserves
  <2>6. OwedOnce'
    BY <1>0, <1>1, <2>1, <2>2, <2>5, OwedOnceKept
  <2> QED BY <1>1, <2>3, <2>4, <2>6 DEF SoldInv
<1>4. CASE Inserted(r)
  <2>1. /\ \A q \in Requests : q # r => task'[q] = task[q]
        /\ \/ task'[r].op = "idle" /\ task'[r].tickets = {}
           \/ /\ task'[r].op = "count" /\ ~ Reserves(task[r].order)
              /\ task'[r].tickets = task[r].tickets
    BY <1>0, <1>4, GotoMoves, ReturnMoves DEF Inserted, Ops
  <2>2. /\ task[r].op = "insert"
        /\ \A t \in task[r].tickets : status[t] # "none"
        /\ UNCHANGED <<method, status, sold, issued>>
    BY <1>4 DEF Inserted, Doing
  <2>3. ~ Reserves(task[r].order) => task[r].tickets \subseteq issued
    BY <2>2 DEF SoldInv, TasksTrackRows, IssueTracksStatus, Buying, TicketsOf
  <2>4. TasksTrackRows'
    BY <2>1, <2>2, <2>3, TasksTrackRowsKept DEF Buying, Paid, Touching
  <2>5. IssueTracksStatus'
    BY <2>2 DEF SoldInv, IssueTracksStatus, Reserves
  <2>6. Owed(r)' \subseteq Owed(r)
    BY <2>1, <2>2 DEF Owed, Buying, Paid
  <2>7. OwedOnce'
    BY <1>0, <1>1, <2>1, <2>2, <2>6, OwedOnceKept
  <2> QED BY <1>1, <2>4, <2>5, <2>7 DEF SoldInv
<1>5. CASE CountSold(r)
  <2>1. /\ \A q \in Requests : q # r => task'[q] = task[q]
        /\ task'[r].op = "idle" /\ task'[r].tickets = {}
    BY <1>0, <1>5, ReturnMoves DEF CountSold
  <2> DEFINE T == task[r].tickets
  <2>2. /\ task[r].op = "count"
        /\ sold' = sold + Cardinality(T)
        /\ UNCHANGED <<method, status, issued>>
    BY <1>5 DEF CountSold, Doing
  <2>3. TasksTrackRows'
    BY <2>1, <2>2, TasksTrackRowsKept DEF Buying, Paid, Touching
  <2>4. IssueTracksStatus'
    BY <2>2 DEF SoldInv, IssueTracksStatus, Reserves
  <2>5. T = Owed(r) /\ T \subseteq issued /\ T \in SUBSET Tickets
    BY <1>0, <2>2 DEF Owed, Paid, SoldInv, TasksTrackRows, Task
  <2>6. \A q \in Requests : Owed(q)' \subseteq IF q = r THEN {} ELSE Owed(q)
    BY <2>1, <2>2 DEF Owed, Buying, Paid, Reserves
  <2>7. Settled \cap T = {} /\ Settled \cup T \subseteq Settled'
    <3>1. Settled \cap T = {}
      BY <2>5 DEF Settled
    <3>2. \A q \in Requests : q # r => T \cap Owed(q) = {}
      BY <2>5 DEF SoldInv, OwedOnce
    <3>3. ASSUME NEW t \in Settled \cup T, NEW q \in Requests PROVE t \notin Owed(q)'
      <4>1. CASE q = r
        BY <2>6, <4>1
      <4>2. CASE q # r
        <5>1. t \notin Owed(q)
          BY <3>2, <3>3, <4>2 DEF Settled
        <5> QED BY <2>6, <4>2, <5>1
      <4> QED BY <4>1, <4>2
    <3>4. Settled \cup T \subseteq issued'
      BY <2>2, <2>5 DEF Settled
    <3> HIDE DEF T
    <3> QED BY <3>1, <3>3, <3>4 DEF Settled
  <2>8. /\ IsFiniteSet(T) /\ IsFiniteSet(Settled) /\ IsFiniteSet(Settled')
        /\ Cardinality(T) \in Nat /\ Cardinality(Settled) \in Nat
        /\ Cardinality(Settled') \in Nat
    <3>1. Settled \in SUBSET Tickets /\ Settled' \in SUBSET Tickets
      BY <1>0, <1>1 DEF TypeOK, Settled
    <3> QED BY <2>5, <3>1, FiniteTickets
  <2>9. Cardinality(Settled \cup T) = Cardinality(Settled) + Cardinality(T)
    <3>1. Cardinality(Settled \cup T) =
             Cardinality(Settled) + Cardinality(T) - Cardinality(Settled \cap T)
      BY <2>8, FS_Union
    <3>2. Cardinality(Settled \cap T) = 0
      BY <2>7, FS_EmptySet
    <3> HIDE DEF T
    <3> QED BY <2>8, <3>1, <3>2
  <2>10. sold' <= Cardinality(Settled')
    <3>1. Cardinality(Settled \cup T) <= Cardinality(Settled')
      BY <2>7, <2>8, FS_Subset
    <3>2. sold <= Cardinality(Settled)
      BY DEF SoldInv, OwedOnce
    <3>3. sold' = sold + Cardinality(T)
      BY <2>2
    <3> HIDE DEF T
    <3> QED BY <1>0, <2>8, <2>9, <3>1, <3>2, <3>3
  <2>11. OwedOnce'
    <3>1. \A p, q \in Requests : p # q => Owed(p)' \cap Owed(q)' = {}
      BY <2>6 DEF SoldInv, OwedOnce
    <3> QED BY <2>10, <3>1 DEF OwedOnce
  <2> QED BY <1>1, <2>3, <2>4, <2>11 DEF SoldInv
<1>6. ASSUME NEW t \in Tickets, InsertTicket(r, t) PROVE SoldInv'
  <2>1. /\ task[r].op = "insert" /\ t \in task[r].tickets /\ status[t] = "none"
        /\ SetStatus({t}, IF Reserves(task[r].order) THEN "held" ELSE "valid")
        /\ issued' = IF Reserves(task[r].order) THEN issued ELSE issued \cup {t}
        /\ UNCHANGED <<method, orderStatus, sold, task>>
    BY <1>6 DEF InsertTicket, Doing
  <2>2. OrderOf[t] = task[r].order /\ method[OrderOf[t]] # "none"
    BY <2>1 DEF SoldInv, TasksTrackRows, Buying, TicketsOf
  <2>3. /\ status'[t] = IF Reserves(OrderOf[t]) THEN "held" ELSE "valid"
        /\ \A u \in Tickets : u # t => status'[u] = status[u]
    BY <2>1, <2>2 DEF SetStatus
  <2>4. IssueTracksStatus'
    BY <2>1, <2>2, <2>3 DEF SoldInv, IssueTracksStatus, Reserves
  <2>5. \A u \in Tickets : status[u] # "none" => status'[u] # "none"
    BY <2>1, <2>3
  <2>6. TasksTrackRows'
    BY <2>1, <2>5, TasksTrackRowsKept DEF Buying, Paid, Touching, SoldInv, TasksTrackRows
  <2>7. Owed(r)' \subseteq Owed(r)
    BY <2>1 DEF Owed, Reserves
  <2>8. OwedOnce'
    BY <1>0, <1>1, <2>1, <2>7, OwedOnceKept
  <2> QED BY <1>1, <2>4, <2>6, <2>8 DEF SoldInv
<1> QED BY <1>2, <1>3, <1>4, <1>5, <1>6 DEF Proceed

LEMMA ReadSold ==
    ASSUME SoldInv, NEW r \in Requests, Read(r)
    PROVE  SoldInv'
<1>0. TypeOK
  BY DEF SoldInv
<1>1. PICK o \in Orders, S \in SUBSET Tickets, op \in Touching \cup {"confirm"} :
              /\ Start(r, op, o, S, 0)
              /\ \A t \in S : status[t] # "none"
              /\ UNCHANGED <<method, status, orderStatus, sold, issued>>
  BY <1>0, ReadMoves
<1>2. /\ \A q \in Requests : q # r => task'[q] = task[q]
      /\ task'[r].op = op /\ task'[r].tickets = S
  BY <1>0, <1>1, StartMoves DEF Touching, Ops
<1>3. TasksTrackRows'
  BY <1>1, <1>2, TasksTrackRowsKept DEF Buying, Paid, Touching
<1>4. IssueTracksStatus'
  BY <1>1 DEF SoldInv, IssueTracksStatus, Reserves
<1>5. Owed(r)' = {}
  BY <1>2 DEF Owed, Buying, Paid, Touching
<1>6. OwedOnce'
  BY <1>0, <1>1, <1>2, <1>5, OwedOnceKept, ReadType DEF TypeOK
<1> QED BY <1>0, <1>3, <1>4, <1>6, ReadType DEF SoldInv

LEMMA WriteSold ==
    ASSUME SoldInv, NEW r \in Requests, Write(r)
    PROVE  SoldInv'
<1>0. TypeOK /\ task[r] \in Task /\ task[r].tickets \in SUBSET Tickets
  BY DEF SoldInv, TypeOK, Task
<1>1. TypeOK'
  BY <1>0, WriteType
<1>2. CASE ConfirmTickets(r)
  <2>1. /\ \A q \in Requests : q # r => task'[q] = task[q]
        /\ task'[r].op = "complete" /\ task'[r].tickets = Confirmable(r)
    BY <1>0, <1>2, ConfirmMoves
  <2>2. /\ SetStatus(Confirmable(r), "valid")
        /\ issued' = issued \cup Confirmable(r)
        /\ UNCHANGED <<method, orderStatus, sold>>
    BY <1>2 DEF ConfirmTickets
  <2>3. \A t \in Confirmable(r) : t \in Tickets /\ status[t] = "held"
    BY <1>0 DEF Confirmable, Held
  <2> HIDE DEF Confirmable
  <2>4. \A t \in Tickets :
           status'[t] = IF t \in Confirmable(r) THEN "valid" ELSE status[t]
    BY <2>2 DEF SetStatus
  <2>5. IssueTracksStatus'
    BY <2>2, <2>3, <2>4 DEF SoldInv, IssueTracksStatus, Reserves
  <2>6. TasksTrackRows'
    BY <2>1, <2>2, <2>4, TasksTrackRowsKept DEF Buying, Paid, Touching
  <2>7. \A t \in Owed(r)' : t \notin issued /\ \A q \in Requests : t \notin Owed(q)
    <3>1. Owed(r)' \subseteq Confirmable(r)
      BY <2>1 DEF Owed
    <3> QED BY <2>3, <3>1, NotYetOwed
  <2>8. OwedOnce'
    BY <1>0, <1>1, <2>1, <2>2, <2>7, OwedOnceKept DEF TypeOK
  <2> QED BY <1>1, <2>5, <2>6, <2>8 DEF SoldInv
<1>3. CASE CompleteOrder(r)
  <2>1. /\ \A q \in Requests : q # r => task'[q] = task[q]
        /\ \/ task'[r].op = "idle" /\ task'[r].tickets = {}
           \/ task'[r].op = "count" /\ task'[r].tickets = task[r].tickets
    BY <1>0, <1>3, GotoMoves, ReturnMoves DEF CompleteOrder, Ops
  <2>2. /\ task[r].op = "complete"
        /\ UNCHANGED <<method, status, sold, issued>>
    BY <1>3 DEF CompleteOrder, Doing
  <2>3. TasksTrackRows'
    BY <2>1, <2>2, TasksTrackRowsKept DEF Buying, Paid, Touching, SoldInv, TasksTrackRows
  <2>4. IssueTracksStatus'
    BY <2>2 DEF SoldInv, IssueTracksStatus, Reserves
  <2>5. Owed(r)' \subseteq Owed(r)
    BY <2>1, <2>2 DEF Owed, Paid, Buying
  <2>6. OwedOnce'
    BY <1>0, <1>1, <2>1, <2>2, <2>5, OwedOnceKept DEF TypeOK
  <2> QED BY <1>1, <2>3, <2>4, <2>6 DEF SoldInv
<1>4. ASSUME NEW op \in {"cancel", "release", "checkin", "mark", "sent"},
             WriteTicket(r, op)
      PROVE  SoldInv'
  <2>1. /\ \A q \in Requests : q # r => task'[q] = task[q]
        /\ task'[r].op = "idle" /\ task'[r].tickets = {}
    BY <1>0, <1>4, ReturnMoves DEF WriteTicket
  <2>2. task[r].op = op /\ UNCHANGED <<method, orderStatus, sold, issued>>
    BY <1>4 DEF WriteTicket, Doing
  <2>3. PICK t \in task[r].tickets :
           SetStatus({t} \cap {u \in Tickets : status[u] # "deleted"}, Leaves(op, t))
    BY <1>4 DEF WriteTicket
  <2>4. status[t] # "none"
    BY <2>2, <2>3 DEF SoldInv, TasksTrackRows, Touching
  <2>5. Leaves(op, t) \in Statuses \ {"none", "held"}
    BY DEF Leaves, Statuses
  <2>6. /\ IssueTracksStatus'
        /\ \A u \in Tickets : status[u] # "none" => status'[u] # "none"
    BY <2>2, <2>3, <2>4, <2>5, ClosingKeepsIssue
  <2>7. TasksTrackRows'
    BY <2>1, <2>2, <2>6, TasksTrackRowsKept DEF Buying, Paid, Touching
  <2>8. Owed(r)' = {}
    BY <2>1 DEF Owed
  <2>9. OwedOnce'
    BY <1>0, <1>1, <2>1, <2>2, <2>8, OwedOnceKept DEF TypeOK
  <2> QED BY <1>1, <2>6, <2>7, <2>9 DEF SoldInv
<1>5. CASE RefundOrderTickets(r)
  <2>1. /\ \A q \in Requests : q # r => task'[q] = task[q]
        /\ task'[r].op = "order-uncount" /\ task'[r].tickets = task[r].tickets
    BY <1>0, <1>5, GotoMoves DEF RefundOrderTickets, Ops
  <2>2. /\ task[r].op = "order-refund"
        /\ SetStatus(task[r].tickets \cap {t \in Tickets : status[t] # "deleted"}, "refunded")
        /\ UNCHANGED <<method, orderStatus, sold, issued>>
    BY <1>5 DEF RefundOrderTickets, Doing
  <2>3. \A t \in task[r].tickets : status[t] # "none"
    BY <2>2 DEF SoldInv, TasksTrackRows, Touching
  <2>4. /\ IssueTracksStatus'
        /\ \A u \in Tickets : status[u] # "none" => status'[u] # "none"
    BY <2>2, <2>3, ClosingKeepsIssue DEF Statuses
  <2>5. TasksTrackRows'
    BY <2>1, <2>2, <2>4, TasksTrackRowsKept DEF Buying, Paid, Touching
  <2>6. Owed(r)' = {}
    BY <2>1 DEF Owed, Buying, Paid
  <2>7. OwedOnce'
    BY <1>0, <1>1, <2>1, <2>2, <2>6, OwedOnceKept DEF TypeOK
  <2> QED BY <1>1, <2>4, <2>5, <2>7 DEF SoldInv
<1>6. CASE RefundTicket(r) \/ RefundOrderCount(r) \/ KeepCount(r)
            \/ RefundOrderRow(r) \/ Die(r)
  <2>1. /\ \A q \in Requests : q # r => task'[q] = task[q]
        /\ \/ task'[r].op = "idle" /\ task'[r].tickets = {}
           \/ task'[r].op = "order-mark"
           \/ /\ task[r].op = "refund" /\ task'[r].op = "mark"
              /\ task'[r].tickets = task[r].tickets
    BY <1>0, <1>6, GotoMoves, ReturnMoves
       DEF RefundTicket, RefundOrderCount, KeepCount, RefundOrderRow, Die, Doing, Ops
  <2>2. UNCHANGED <<method, status, issued>>
    BY <1>6 DEF RefundTicket, RefundOrderCount, KeepCount, RefundOrderRow, Die
  <2>3. sold' <= sold /\ sold' \in Nat
    BY <1>0, <1>6, UncountType, FiniteTickets
       DEF RefundTicket, RefundOrderCount, KeepCount, RefundOrderRow, Die, TypeOK
  <2>4. TasksTrackRows'
    BY <2>1, <2>2, TasksTrackRowsKept DEF Buying, Paid, Touching, SoldInv, TasksTrackRows
  <2>5. IssueTracksStatus'
    BY <2>2 DEF SoldInv, IssueTracksStatus, Reserves
  <2>6. Owed(r)' = {}
    BY <2>1 DEF Owed, Buying, Paid
  <2>7. OwedOnce'
    BY <1>1, <2>1, <2>2, <2>3, <2>6, OwedOnceKept
  <2> QED BY <1>1, <2>4, <2>5, <2>7 DEF SoldInv
<1> QED BY <1>2, <1>3, <1>4, <1>5, <1>6 DEF Write

LEMMA SoldNext == SoldInv /\ [Next]_vars => SoldInv'
<1> SUFFICES ASSUME SoldInv, [Next]_vars PROVE SoldInv'
  OBVIOUS
<1>1. TypeOK'
  BY NextType DEF SoldInv
<1>2. CASE UNCHANGED vars
  BY <1>1, <1>2 DEF vars, SoldInv, TasksTrackRows, IssueTracksStatus, OwedOnce, Settled, Owed, Reserves
<1> QED BY <1>2, NextIsAStep, BeginSold, ProceedSold, ReadSold, WriteSold

\* However confirmations, webhooks and refunds overlap or die, the sold count
\* never exceeds the number of tickets that were ever valid.
THEOREM NoTicketIsCountedTwice == Spec => []SoldNeverOvercounts
<1>1. SoldInv => SoldNeverOvercounts
  <2> SUFFICES ASSUME SoldInv PROVE SoldNeverOvercounts
    OBVIOUS
  <2>1. /\ Settled \subseteq issued /\ issued \in SUBSET Tickets
        /\ sold <= Cardinality(Settled) /\ sold \in Nat
    BY DEF SoldInv, OwedOnce, TypeOK, Settled
  <2>2. /\ Cardinality(Settled) <= Cardinality(issued)
        /\ Cardinality(Settled) \in Nat /\ Cardinality(issued) \in Nat
    BY <2>1, FiniteTickets, FS_Subset
  <2> QED BY <2>1, <2>2 DEF SoldNeverOvercounts
<1> QED BY <1>1, SoldInit, SoldNext, PTL DEF Spec

-----------------------------------------------------------------------------
(* A ticket lives once.                                                    *)

LEMMA StatusAdvances ==
    ASSUME NEW S, NEW s, NEW from, SetStatus(S, s),
           \A t \in S \cap Tickets : StageOf(status[t]) \in from \cup {StageOf(s)}
    PROVE  Life!Advance(from, StageOf(s))
<1>1. \A t \in Tickets : status'[t] = IF t \in S THEN s ELSE status[t]
  BY DEF SetStatus
<1>2. /\ Stage = [t \in Tickets |-> StageOf(status[t])]
      /\ Stage' = [t \in Tickets |-> StageOf(status'[t])]
  BY DEF Stage
<1>3. \A t \in Tickets : StageOf(status'[t]) \in Life!Stages
  BY DEF StageOf, Life!Stages
<1>4. Stage' \in [Tickets -> Life!Stages]
  BY <1>2, <1>3
<1>5. ASSUME NEW t \in Tickets, Stage'[t] # Stage[t]
      PROVE  Stage[t] \in from /\ Stage'[t] = StageOf(s)
  <2>1. StageOf(status'[t]) # StageOf(status[t])
    BY <1>2, <1>5
  <2>2. t \in S /\ status'[t] = s
    BY <1>1, <2>1
  <2>3. StageOf(status[t]) \in from
    BY <2>1, <2>2
  <2> QED BY <1>2, <2>2, <2>3
<1> QED BY <1>4, <1>5 DEF Life!Advance

LEMMA LifeInit == Init => Life!Init
BY DEF Init, Life!Init, Stage, StageOf

LEMMA StageKept == ASSUME UNCHANGED status PROVE UNCHANGED Stage
BY DEF Stage

\* A status with which a ticket is closed.
Closed == Statuses \ {"none", "held", "valid"}

LEMMA ClosingAdvances ==
    ASSUME TypeOK, NEW S, NEW s \in Closed, SetStatus(S, s),
           \A t \in S \cap Tickets : status[t] # "none"
    PROVE  Life!Next
<1>1. \A t \in S \cap Tickets :
         StageOf(status[t]) \in {"reserved", "issued"} \cup {"closed"}
  BY DEF StageOf, TypeOK, Statuses
<1>2. StageOf(s) = "closed"
  BY DEF StageOf, Closed
<1>3. Life!Advance({"reserved", "issued"}, StageOf(s))
  BY <1>1, <1>2, StatusAdvances
<1> QED BY <1>2, <1>3 DEF Life!Next, Life!Close

LEMMA ProceedLives ==
    ASSUME SoldInv, NEW r \in Requests, Proceed(r)
    PROVE  [Life!Next]_Stage
<1>0. TypeOK
  BY DEF SoldInv
<1>1. ASSUME NEW expired \in SUBSET Tickets, Validate(r, expired) PROVE Life!Next
  <2>1. SetStatus(expired, "available") /\ expired \subseteq Held
    BY <1>1 DEF Validate
  <2> QED BY <1>0, <2>1, ClosingAdvances DEF Closed, Statuses, Held
<1>2. CASE InsertOrder(r) \/ Inserted(r) \/ CountSold(r)
  BY <1>2, StageKept DEF InsertOrder, Inserted, CountSold
<1>3. ASSUME NEW t \in Tickets, InsertTicket(r, t) PROVE Life!Next
  <2> DEFINE s == IF Reserves(task[r].order) THEN "held" ELSE "valid"
  <2>1. status[t] = "none" /\ SetStatus({t}, s)
    BY <1>3 DEF InsertTicket
  <2>2. \A u \in {t} \cap Tickets : StageOf(status[u]) \in {"unissued"}
    BY <2>1 DEF StageOf
  <2>3. Life!Advance({"unissued"}, StageOf(s))
    BY <2>1, <2>2, StatusAdvances
  <2>4. CASE Reserves(task[r].order)
    <3>1. StageOf(s) = "reserved"
      BY <2>4 DEF StageOf
    <3> HIDE DEF s
    <3> QED BY <2>3, <3>1 DEF Life!Next, Life!Reserve
  <2>5. CASE ~ Reserves(task[r].order)
    <3>1. StageOf(s) = "issued"
      BY <2>5 DEF StageOf
    <3>2. \A u \in {t} \cap Tickets : StageOf(status[u]) \in {"unissued", "reserved"}
      BY <2>2
    <3>3. Life!Advance({"unissued", "reserved"}, StageOf(s))
      BY <2>1, <3>2, StatusAdvances
    <3> HIDE DEF s
    <3> QED BY <3>1, <3>3 DEF Life!Next, Life!Issue
  <2> QED BY <2>4, <2>5
<1> QED BY <1>1, <1>2, <1>3 DEF Proceed

LEMMA WriteLives ==
    ASSUME SoldInv, NEW r \in Requests, Write(r)
    PROVE  [Life!Next]_Stage
<1>0. TypeOK
  BY DEF SoldInv
<1>1. CASE ConfirmTickets(r)
  <2>1. SetStatus(Confirmable(r), "valid")
    BY <1>1 DEF ConfirmTickets
  <2>2. \A t \in Confirmable(r) \cap Tickets :
           StageOf(status[t]) \in {"unissued", "reserved"}
    BY DEF Confirmable, Held, StageOf
  <2>3. StageOf("valid") = "issued"
    BY DEF StageOf
  <2>4. Life!Advance({"unissued", "reserved"}, StageOf("valid"))
    BY <2>1, <2>2, StatusAdvances
  <2> QED BY <2>3, <2>4 DEF Life!Next, Life!Issue
<1>2. ASSUME NEW op \in {"cancel", "release", "checkin", "mark", "sent"},
             WriteTicket(r, op)
      PROVE  Life!Next
  <2>1. PICK t \in task[r].tickets :
           SetStatus({t} \cap {u \in Tickets : status[u] # "deleted"}, Leaves(op, t))
    BY <1>2 DEF WriteTicket
  <2>2. status[t] # "none"
    BY <1>2, <2>1 DEF WriteTicket, Doing, SoldInv, TasksTrackRows, Touching
  <2>3. Leaves(op, t) \in Closed
    BY DEF Leaves, Closed, Statuses
  <2> QED BY <1>0, <2>1, <2>2, <2>3, ClosingAdvances
<1>3. CASE RefundOrderTickets(r)
  <2>1. SetStatus(task[r].tickets \cap {t \in Tickets : status[t] # "deleted"}, "refunded")
    BY <1>3 DEF RefundOrderTickets
  <2>2. \A t \in task[r].tickets : status[t] # "none"
    BY <1>3 DEF RefundOrderTickets, Doing, SoldInv, TasksTrackRows, Touching
  <2> QED BY <1>0, <2>1, <2>2, ClosingAdvances DEF Closed, Statuses
<1>4. CASE CompleteOrder(r) \/ RefundTicket(r) \/ RefundOrderCount(r) \/ KeepCount(r)
           \/ RefundOrderRow(r) \/ Die(r)
  BY <1>4, StageKept DEF CompleteOrder, RefundTicket, RefundOrderCount, KeepCount, RefundOrderRow, Die
<1> QED BY <1>1, <1>2, <1>3, <1>4 DEF Write

LEMMA LifeNext == SoldInv /\ [Next]_vars => [Life!Next]_Stage
<1> SUFFICES ASSUME SoldInv, [Next]_vars PROVE [Life!Next]_Stage
  OBVIOUS
<1>0. TypeOK
  BY DEF SoldInv
<1>1. ASSUME NEW r \in Requests, NEW o \in Orders, Begin(r, o) PROVE UNCHANGED Stage
  BY <1>0, <1>1, BeginMoves, StageKept
<1>2. ASSUME NEW r \in Requests, Read(r) PROVE UNCHANGED Stage
  BY <1>0, <1>2, ReadMoves, StageKept
<1>3. CASE UNCHANGED vars
  BY <1>3, StageKept DEF vars
<1> QED BY <1>1, <1>2, <1>3, NextIsAStep, ProceedLives, WriteLives

\* The requests implement TicketLife: no late write of a stale read puts a
\* ticket back on sale or lets a closed one in again.
THEOREM TicketsImplementOneLife == Spec => TicketsHaveOneLife
<1>1. Spec => []SoldInv
  BY SoldInit, SoldNext, PTL DEF Spec
<1> QED BY <1>1, LifeInit, LifeNext, PTL DEF Spec, TicketsHaveOneLife, Life!Spec

-----------------------------------------------------------------------------
(* While no two requests overlap, what a request read is still so.         *)

\* The statuses the tickets of a request have at each of its steps.
Allowed(op, o) ==
    CASE op \in {"validate", "order"} -> {"none"}
      [] op = "insert" -> {"none", IF Reserves(o) THEN "held" ELSE "valid"}
      [] op = "confirm" -> {"held", "valid"}
      [] op = "cancel" -> {"held", "available"}
      [] op = "release" -> {"held"}
      [] op = "sent" -> {"refund_pending"}
      [] op = "order-refund" -> {"valid", "used"}
      [] op \in {"order-uncount", "order-mark"} -> {"refunded"}
      [] op \in {"count", "complete", "mark", "refund", "checkin"} -> {"valid"}
      [] OTHER -> {}

RowsAreFresh ==
    \A r \in Requests : \A t \in task[r].tickets :
        status[t] \in Allowed(task[r].op, task[r].order)

\* Only confirmations, of one order, share a ticket.
Confirming == {"confirm", "complete", "count"}
Apart ==
    \A r, q \in Requests :
        r # q /\ task[r].tickets \cap task[q].tickets # {} =>
            task[r].op \in Confirming /\ task[q].op \in Confirming

\* The routes on one ticket.
OnOne == {"cancel", "release", "checkin", "refund", "mark", "sent"}
OneTicketEach ==
    \A r \in Requests : task[r].op \in OnOne =>
        \E t \in Tickets : task[r].tickets = {t}

Fresh == RowsAreFresh /\ Apart /\ OneTicketEach
FreshInv == SoldInv /\ (serial => Fresh)

\* Once requests have overlapped or died halfway they have.
LEMMA SerialEnds == ASSUME Next, serial' PROVE serial
BY DEF Next, Buy, Organise, Checkout, FreeCheckout, PaymentWebhook, Validate, InsertOrder,
       InsertTicket, Inserted, CountSold, Confirm, RefundOrder, ReadTicket, Watch,
       ConfirmTickets, CompleteOrder, WriteTicket, RefundTicket, RefundOrderTickets,
       RefundOrderCount, KeepCount, RefundOrderRow, Die

\* Only a purchase in the making works on tickets without a row.
LEMMA AllowedFacts ==
    /\ \A op, o : "none" \in Allowed(op, o) => op \in Buying
    /\ \A o : Allowed("idle", o) = {}
BY DEF Allowed, Buying, Reserves

\* A request at rest holds no tickets.
LEMMA IdleHoldsNothing ==
    ASSUME RowsAreFresh, NEW r \in Requests, task[r].op = "idle"
    PROVE  task[r].tickets = {}
BY AllowedFacts DEF RowsAreFresh

LEMMA RowsKept ==
    ASSUME SoldInv, RowsAreFresh, NEW r \in Requests,
           \A q \in Requests : q # r => task'[q] = task[q],
           \A o \in Orders : method[o] # "none" => method'[o] = method[o],
           \A q \in Requests : q # r => \A t \in task[q].tickets :
              \/ status'[t] = status[t]
              \/ task[q].op = "confirm" /\ status'[t] = "valid",
           \A t \in task'[r].tickets : status'[t] \in Allowed(task[r].op, task[r].order)'
    PROVE  RowsAreFresh'
<1> SUFFICES ASSUME NEW q \in Requests, q # r, NEW t \in task[q].tickets
             PROVE  status'[t] \in Allowed(task[q].op, task[q].order)'
  BY DEF RowsAreFresh
<1>1. task'[q] = task[q]
  OBVIOUS
<1>2. status[t] \in Allowed(task[q].op, task[q].order)
  BY DEF RowsAreFresh
<1>3. task[q].op = "insert" => (Reserves(task[q].order)' <=> Reserves(task[q].order))
  BY <1>1 DEF SoldInv, TasksTrackRows, Buying, Reserves
<1>4. Allowed(task[q].op, task[q].order)' = Allowed(task[q].op, task[q].order)
  BY <1>1, <1>3 DEF Allowed
<1>5. task[q].op = "confirm" => "valid" \in Allowed(task[q].op, task[q].order)
  BY DEF Allowed
<1> QED BY <1>2, <1>4, <1>5

\* A request that keeps to its tickets stays apart from the others.
LEMMA ApartKept ==
    ASSUME Apart, NEW r \in Requests,
           \A q \in Requests : q # r => task'[q] = task[q],
           task'[r].tickets \subseteq task[r].tickets,
           task[r].op \in Confirming =>
              task'[r].op \in Confirming \/ task'[r].tickets = {}
    PROVE  Apart'
<1> SUFFICES ASSUME NEW q \in Requests, NEW p \in Requests, q # p,
                    task'[q].tickets \cap task'[p].tickets # {}
             PROVE  task'[q].op \in Confirming
  BY DEF Apart
<1> QED BY DEF Apart

\* The tickets of a request that confirms nothing are nobody else's.
LEMMA OthersElsewhere ==
    ASSUME Apart, NEW r \in Requests, task[r].op \notin Confirming,
           NEW q \in Requests, q # r
    PROVE  task[q].tickets \cap task[r].tickets = {}
BY DEF Apart

LEMMA FreshInit == Init => FreshInv
<1> SUFFICES ASSUME Init PROVE FreshInv
  OBVIOUS
<1>1. \A r \in Requests : task[r].tickets = {} /\ task[r].op = "idle"
  BY DEF Init, Idle
<1> QED BY <1>1, SoldInit DEF FreshInv, Fresh, RowsAreFresh, Apart, OneTicketEach, OnOne

\* The tickets of a purchase that has not begun have no row, and nobody has them.
LEMMA BeginsAlone ==
    ASSUME SoldInv, Fresh, NEW o \in Orders, method[o] = "none"
    PROVE  /\ \A t \in TicketsOf(o) : status[t] = "none"
           /\ \A q \in Requests : task[q].tickets \cap TicketsOf(o) = {}
<1>1. \A t \in TicketsOf(o) : t \in Tickets /\ OrderOf[t] = o /\ status[t] = "none"
  BY DEF TicketsOf, SoldInv, IssueTracksStatus
<1>2. ASSUME NEW q \in Requests, NEW t \in task[q].tickets, t \in TicketsOf(o)
      PROVE  FALSE
  <2>1. task[q].op \in Buying
    BY <1>1, <1>2, AllowedFacts DEF Fresh, RowsAreFresh
  <2>2. t \in TicketsOf(task[q].order) /\ method[task[q].order] # "none"
    BY <1>2, <2>1 DEF SoldInv, TasksTrackRows
  <2> QED BY <1>1, <1>2, <2>2 DEF TicketsOf
<1> QED BY <1>1, <1>2

LEMMA BeginFresh ==
    ASSUME SoldInv, Fresh, NEW r \in Requests, NEW o \in Orders, Begin(r, o)
    PROVE  Fresh'
<1>0. TypeOK /\ Apart /\ RowsAreFresh /\ OneTicketEach
  BY DEF SoldInv, Fresh
<1>1. PICK m \in Methods, op \in Buying, n \in Nat :
              /\ Purchase(o, m)
              /\ Start(r, op, o, TicketsOf(o), n)
              /\ UNCHANGED <<status, orderStatus, sold, issued>>
  BY <1>0, BeginMoves DEF Buying
<1>2. TicketsOf(o) \in SUBSET Tickets /\ op \in Ops
  BY DEF TicketsOf, Ops, Buying
<1>3. /\ \A q \in Requests : q # r => task'[q] = task[q]
      /\ task'[r].op = op /\ task'[r].order = o /\ task'[r].tickets = TicketsOf(o)
  BY <1>0, <1>1, <1>2, StartMoves
<1>4. method[o] = "none" /\ \A p \in Orders : method[p] # "none" => method'[p] = method[p]
  BY <1>0, <1>1 DEF Purchase, TypeOK
<1>5. /\ \A t \in TicketsOf(o) : status[t] = "none"
      /\ \A q \in Requests : task[q].tickets \cap TicketsOf(o) = {}
  BY <1>4, BeginsAlone
<1>6. RowsAreFresh'
  <2>1. "none" \in Allowed(task[r].op, task[r].order)'
    BY <1>3 DEF Allowed, Buying
  <2> QED BY <1>0, <1>1, <1>3, <1>4, <1>5, <2>1, RowsKept
<1>7. Apart'
  BY <1>0, <1>3, <1>5 DEF Apart
<1>8. OneTicketEach'
  BY <1>0, <1>3 DEF OneTicketEach, OnOne, Buying
<1> QED BY <1>6, <1>7, <1>8 DEF Fresh


LEMMA ProceedFresh ==
    ASSUME SoldInv, Fresh, NEW r \in Requests, Proceed(r), serial'
    PROVE  Fresh'
<1>0. /\ TypeOK /\ Apart /\ RowsAreFresh /\ OneTicketEach
      /\ task[r] \in Task /\ task[r].tickets \in SUBSET Tickets
  BY DEF SoldInv, Fresh, TypeOK, Task
<1>1. ASSUME NEW expired \in SUBSET Tickets, Validate(r, expired) PROVE Fresh'
  <2>1. /\ \A q \in Requests : q # r => task'[q] = task[q]
        /\ \/ task'[r].op = "idle" /\ task'[r].tickets = {}
           \/ /\ task'[r].op \in {"order", "insert"}
              /\ task'[r].order = task[r].order
              /\ task'[r].tickets = task[r].tickets
    BY <1>0, <1>1, ValidateMoves
  <2>2. /\ task[r].op = "validate" /\ method' = method
        /\ \A t \in Tickets : t \notin expired => status'[t] = status[t]
        /\ \A q \in Requests : task[q].tickets \cap expired = {}
    BY <1>1 DEF Validate, Doing, SetStatus
  <2>3. \A q \in Requests : \A t \in task[q].tickets : status'[t] = status[t]
    BY <2>2 DEF SoldInv, TypeOK, Task
  <2>4. \A t \in task[r].tickets : status[t] = "none"
    BY <1>0, <2>2 DEF RowsAreFresh, Allowed
  <2>5. \A t \in task'[r].tickets : status'[t] \in Allowed(task[r].op, task[r].order)'
    BY <2>1, <2>3, <2>4 DEF Allowed
  <2>6. RowsAreFresh'
    BY <1>0, <2>1, <2>2, <2>3, <2>5, RowsKept
  <2>7. Apart'
    BY <1>0, <2>1, <2>2, ApartKept DEF Confirming
  <2>8. OneTicketEach'
    BY <1>0, <2>1 DEF OneTicketEach, OnOne
  <2> QED BY <2>6, <2>7, <2>8 DEF Fresh
<1>2. CASE InsertOrder(r)
  <2>1. /\ \A q \in Requests : q # r => task'[q] = task[q]
        /\ task'[r].op = "insert"
        /\ task'[r].order = task[r].order /\ task'[r].tickets = task[r].tickets
    BY <1>0, <1>2, GotoMoves DEF InsertOrder, Ops
  <2>2. task[r].op = "order" /\ UNCHANGED <<method, status>>
    BY <1>2 DEF InsertOrder, Doing
  <2>3. \A t \in task[r].tickets : status[t] = "none"
    BY <1>0, <2>2 DEF RowsAreFresh, Allowed
  <2>4. \A t \in task'[r].tickets : status'[t] \in Allowed(task[r].op, task[r].order)'
    BY <2>1, <2>2, <2>3 DEF Allowed
  <2>5. RowsAreFresh'
    BY <1>0, <2>1, <2>2, <2>4, RowsKept
  <2>6. Apart'
    BY <1>0, <2>1, <2>2, ApartKept DEF Confirming
  <2>7. OneTicketEach'
    BY <1>0, <2>1 DEF OneTicketEach, OnOne
  <2> QED BY <2>5, <2>6, <2>7 DEF Fresh
<1>3. CASE Inserted(r)
  <2>1. /\ \A q \in Requests : q # r => task'[q] = task[q]
        /\ \/ task'[r].op = "idle" /\ task'[r].tickets = {}
           \/ /\ task'[r].op = "count" /\ ~ Reserves(task[r].order)
              /\ task'[r].tickets = task[r].tickets
    BY <1>0, <1>3, GotoMoves, ReturnMoves DEF Inserted, Ops
  <2>2. /\ task[r].op = "insert"
        /\ \A t \in task[r].tickets : status[t] # "none"
        /\ UNCHANGED <<method, status>>
    BY <1>3 DEF Inserted, Doing
  <2>3. ~ Reserves(task[r].order) => \A t \in task[r].tickets : status[t] = "valid"
    BY <1>0, <2>2 DEF RowsAreFresh, Allowed
  <2>4. \A t \in task'[r].tickets : status'[t] \in Allowed(task[r].op, task[r].order)'
    BY <2>1, <2>2, <2>3 DEF Allowed
  <2>5. RowsAreFresh'
    BY <1>0, <2>1, <2>2, <2>4, RowsKept
  <2>6. Apart'
    BY <1>0, <2>1, <2>2, ApartKept DEF Confirming
  <2>7. OneTicketEach'
    BY <1>0, <2>1 DEF OneTicketEach, OnOne
  <2> QED BY <2>5, <2>6, <2>7 DEF Fresh
<1>4. CASE CountSold(r)
  <2>1. /\ \A q \in Requests : q # r => task'[q] = task[q]
        /\ task'[r].op = "idle" /\ task'[r].tickets = {}
        /\ UNCHANGED <<method, status>>
    BY <1>0, <1>4, ReturnMoves DEF CountSold
  <2>2. RowsAreFresh'
    BY <1>0, <2>1, RowsKept
  <2>3. Apart'
    BY <1>0, <2>1, ApartKept
  <2>4. OneTicketEach'
    BY <1>0, <2>1 DEF OneTicketEach, OnOne
  <2> QED BY <2>2, <2>3, <2>4 DEF Fresh
<1>5. ASSUME NEW t \in Tickets, InsertTicket(r, t) PROVE Fresh'
  <2>1. /\ task[r].op = "insert" /\ t \in task[r].tickets /\ UNCHANGED <<method, task>>
        /\ \A u \in Tickets : status'[u] =
              IF u = t THEN IF Reserves(task[r].order) THEN "held" ELSE "valid"
                       ELSE status[u]
    BY <1>5 DEF InsertTicket, Doing, SetStatus
  <2>2. \A q \in Requests : q # r => task[q].tickets \cap task[r].tickets = {}
    BY <1>0, <2>1, OthersElsewhere DEF Confirming
  <2>3. \A q \in Requests : q # r => \A u \in task[q].tickets : status'[u] = status[u]
    BY <2>1, <2>2 DEF SoldInv, TypeOK, Task
  <2>4. \A u \in task[r].tickets :
           status[u] \in {"none", IF Reserves(task[r].order) THEN "held" ELSE "valid"}
    BY <1>0, <2>1 DEF RowsAreFresh, Allowed
  <2>5. Allowed(task[r].op, task[r].order)' =
           {"none", IF Reserves(task[r].order) THEN "held" ELSE "valid"}
    BY <2>1 DEF Allowed, Reserves
  <2>6. \A u \in task'[r].tickets : status'[u] \in Allowed(task[r].op, task[r].order)'
    BY <1>0, <2>1, <2>4, <2>5
  <2>7. RowsAreFresh'
    BY <1>0, <2>1, <2>3, <2>6, RowsKept
  <2>8. Apart' /\ OneTicketEach'
    BY <1>0, <2>1 DEF Apart, OneTicketEach
  <2> QED BY <2>7, <2>8 DEF Fresh
<1> QED BY <1>1, <1>2, <1>3, <1>4, <1>5 DEF Proceed

\* A request that reads tickets as it needs them, which nobody else has.
LEMMA ReadingFresh ==
    ASSUME SoldInv, Fresh, NEW r \in Requests, NEW op \in Ops \ Buying,
           NEW o \in Orders, NEW S \in SUBSET Tickets,
           Start(r, op, o, S, 0), Watch(op, S), serial',
           UNCHANGED <<method, status>>,
           \A t \in S : status[t] \in Allowed(op, o),
           op \in OnOne => \E t \in Tickets : S = {t}
    PROVE  Fresh'
<1>0. TypeOK /\ Apart /\ RowsAreFresh /\ OneTicketEach
  BY DEF SoldInv, Fresh
<1>1. /\ \A q \in Requests : q # r => task'[q] = task[q]
      /\ task'[r].op = op /\ task'[r].order = o /\ task'[r].tickets = S
  BY <1>0, StartMoves
<1>2. \A q \in Requests : task[q].tickets \cap S # {} =>
         op = "confirm" /\ task[q].op = "confirm"
  BY DEF Watch, Overlaps, Doing
<1>3. Allowed(task[r].op, task[r].order)' = Allowed(op, o)
  BY <1>1 DEF Allowed, Reserves
<1>4. RowsAreFresh'
  BY <1>0, <1>1, <1>3, RowsKept
<1>5. Apart'
  BY <1>0, <1>1, <1>2 DEF Apart, Confirming
<1>6. OneTicketEach'
  BY <1>0, <1>1 DEF OneTicketEach
<1> QED BY <1>4, <1>5, <1>6 DEF Fresh

LEMMA ReadFresh ==
    ASSUME SoldInv, Fresh, NEW r \in Requests, Read(r), serial'
    PROVE  Fresh'
<1>1. ASSUME NEW o \in Orders, Confirm(r, o) PROVE Fresh'
  <2> DEFINE held == Held \cap TicketsOf(o)
  <2>1. /\ Start(r, "confirm", o, held, 0) /\ Watch("confirm", held)
        /\ UNCHANGED <<method, status>>
    BY <1>1 DEF Confirm
  <2>2. held \in SUBSET Tickets /\ \A t \in held : status[t] \in Allowed("confirm", o)
    BY DEF Held, Allowed
  <2>3. "confirm" \in Ops \ Buying /\ "confirm" \notin OnOne
    BY DEF Ops, Buying, OnOne
  <2> HIDE DEF held
  <2> QED BY <2>1, <2>2, <2>3, ReadingFresh
<1>2. ASSUME NEW o \in Orders, RefundOrder(r, o) PROVE Fresh'
  <2> DEFINE S == Active(o)
  <2>1. /\ Start(r, "order-refund", o, S, 0) /\ Watch("order-refund", TicketsOf(o))
        /\ UNCHANGED <<method, status>>
    BY <1>2 DEF RefundOrder
  <2>2. /\ S \in SUBSET TicketsOf(o) /\ S \in SUBSET Tickets
        /\ \A t \in S : status[t] \in Allowed("order-refund", o)
    BY DEF Active, TicketsOf, Allowed
  <2> HIDE DEF S
  <2>3. Watch("order-refund", S)
    <3>1. serial /\ \A q \in Requests : task[q].tickets \cap TicketsOf(o) = {}
      BY <2>1 DEF Watch, Overlaps
    <3>2. \A q \in Requests : task[q].tickets \cap S = {}
      BY <2>2, <3>1
    <3> QED BY <2>1, <3>1, <3>2 DEF Watch, Overlaps
  <2>4. "order-refund" \in Ops \ Buying /\ "order-refund" \notin OnOne
    BY DEF Ops, Buying, OnOne
  <2> QED BY <2>1, <2>2, <2>3, <2>4, ReadingFresh
<1>3. ASSUME NEW t \in Tickets,
             NEW op \in {"cancel", "release", "checkin", "refund", "sent"},
             ReadTicket(r, t, op)
      PROVE  Fresh'
  <2>1. /\ Start(r, op, OrderOf[t], {t}, 0) /\ Watch(op, {t})
        /\ status[t] \in Accepts(op) /\ UNCHANGED <<method, status>>
    BY <1>3 DEF ReadTicket
  <2>2. Accepts(op) = Allowed(op, OrderOf[t])
    BY DEF Accepts, Allowed
  <2>3. OrderOf[t] \in Orders /\ op \in Ops \ Buying
    BY TicketsAssumption DEF Ops, Buying
  <2> QED BY <2>1, <2>2, <2>3, ReadingFresh
<1> QED BY <1>1, <1>2, <1>3 DEF Read

LEMMA WriteFresh ==
    ASSUME SoldInv, Fresh, NEW r \in Requests, Write(r), serial'
    PROVE  Fresh'
<1>0. /\ TypeOK /\ Apart /\ RowsAreFresh /\ OneTicketEach
      /\ task[r] \in Task /\ task[r].tickets \in SUBSET Tickets
  BY DEF SoldInv, Fresh, TypeOK, Task
<1>1. CASE ConfirmTickets(r)
  <2>1. /\ \A q \in Requests : q # r => task'[q] = task[q]
        /\ task'[r].op = "complete" /\ task'[r].tickets = Confirmable(r)
    BY <1>0, <1>1, ConfirmMoves
  <2>2. /\ task[r].op = "confirm" /\ method' = method
        /\ \A t \in Tickets :
              status'[t] = IF t \in Confirmable(r) THEN "valid" ELSE status[t]
    BY <1>1 DEF ConfirmTickets, Doing, SetStatus
  <2>3. /\ Confirmable(r) \subseteq task[r].tickets
        /\ \A t \in Confirmable(r) : t \in Tickets /\ status[t] = "held"
    BY <1>0 DEF Confirmable, Held
  <2>4. \A q \in Requests : q # r => \A t \in task[q].tickets :
           \/ status'[t] = status[t]
           \/ task[q].op = "confirm" /\ status'[t] = "valid"
    <3> SUFFICES ASSUME NEW q \in Requests, q # r, NEW t \in task[q].tickets,
                        t \in Confirmable(r)
                 PROVE  task[q].op = "confirm"
      BY <2>2 DEF SoldInv, TypeOK, Task
    <3>1. task[q].op \in Confirming
      BY <1>0, <2>3 DEF Apart
    <3>2. status[t] = "held" /\ status[t] \in Allowed(task[q].op, task[q].order)
      BY <1>0, <2>3 DEF RowsAreFresh
    <3> QED BY <3>1, <3>2 DEF Confirming, Allowed
  <2>5. \A t \in task'[r].tickets : status'[t] \in Allowed(task[r].op, task[r].order)'
    BY <2>1, <2>2, <2>3 DEF Allowed
  <2>6. RowsAreFresh'
    BY <1>0, <2>1, <2>2, <2>4, <2>5, RowsKept
  <2>7. Apart'
    BY <1>0, <2>1, <2>2, <2>3, ApartKept DEF Confirming
  <2>8. OneTicketEach'
    BY <1>0, <2>1 DEF OneTicketEach, OnOne
  <2> QED BY <2>6, <2>7, <2>8 DEF Fresh
<1>2. ASSUME NEW op \in {"cancel", "release", "checkin", "mark", "sent"},
             WriteTicket(r, op)
      PROVE  Fresh'
  <2>1. /\ \A q \in Requests : q # r => task'[q] = task[q]
        /\ task'[r].op = "idle" /\ task'[r].tickets = {}
    BY <1>0, <1>2, ReturnMoves DEF WriteTicket
  <2>2. task[r].op = op /\ method' = method
    BY <1>2 DEF WriteTicket, Doing
  <2>3. \A t \in Tickets : t \notin task[r].tickets => status'[t] = status[t]
    BY <1>2 DEF WriteTicket, SetStatus
  <2>4. \A q \in Requests : q # r => \A t \in task[q].tickets : status'[t] = status[t]
    <3>1. \A q \in Requests : q # r => task[q].tickets \cap task[r].tickets = {}
      BY <1>0, <2>2, OthersElsewhere DEF Confirming
    <3> QED BY <2>3, <3>1 DEF SoldInv, TypeOK, Task
  <2>5. RowsAreFresh'
    BY <1>0, <2>1, <2>2, <2>4, RowsKept
  <2>6. Apart' /\ OneTicketEach'
    BY <1>0, <2>1, ApartKept DEF OneTicketEach, OnOne
  <2> QED BY <2>5, <2>6 DEF Fresh
<1>3. CASE RefundOrderTickets(r)
  <2>1. /\ \A q \in Requests : q # r => task'[q] = task[q]
        /\ task'[r].op = "order-uncount" /\ task'[r].tickets = task[r].tickets
    BY <1>0, <1>3, GotoMoves DEF RefundOrderTickets, Ops
  <2>2. /\ task[r].op = "order-refund" /\ method' = method
        /\ \A t \in Tickets : status'[t] =
              IF t \in task[r].tickets /\ status[t] # "deleted" THEN "refunded" ELSE status[t]
    BY <1>3 DEF RefundOrderTickets, Doing, SetStatus
  <2>3. \A t \in task[r].tickets : status[t] \in {"valid", "used"}
    BY <1>0, <2>2 DEF RowsAreFresh, Allowed
  <2>4. \A q \in Requests : q # r => \A t \in task[q].tickets : status'[t] = status[t]
    <3>1. \A q \in Requests : q # r => task[q].tickets \cap task[r].tickets = {}
      BY <1>0, <2>2, OthersElsewhere DEF Confirming
    <3> QED BY <2>2, <3>1 DEF SoldInv, TypeOK, Task
  <2>5. \A t \in task'[r].tickets : status'[t] \in Allowed(task[r].op, task[r].order)'
    BY <1>0, <2>1, <2>2, <2>3 DEF Allowed
  <2>6. RowsAreFresh'
    BY <1>0, <2>1, <2>2, <2>4, <2>5, RowsKept
  <2>7. Apart'
    BY <1>0, <2>1, <2>2, ApartKept DEF Confirming
  <2>8. OneTicketEach'
    BY <1>0, <2>1 DEF OneTicketEach, OnOne
  <2> QED BY <2>6, <2>7, <2>8 DEF Fresh
<1>4. CASE CompleteOrder(r) \/ RefundTicket(r) \/ RefundOrderCount(r)
            \/ RefundOrderRow(r) \/ Die(r)
  <2>1. /\ \A q \in Requests : q # r => task'[q] = task[q]
        /\ UNCHANGED <<method, status>>
        /\ \/ task'[r].op = "idle" /\ task'[r].tickets = {}
           \/ /\ task'[r].tickets = task[r].tickets
              /\ \/ task[r].op = "complete" /\ task'[r].op = "count"
                 \/ task[r].op = "refund" /\ task'[r].op = "mark"
                 \/ task[r].op = "order-uncount" /\ task'[r].op = "order-mark"
    BY <1>0, <1>4, GotoMoves, ReturnMoves
       DEF CompleteOrder, RefundTicket, RefundOrderCount, RefundOrderRow, Die, Doing, Ops
  <2>2. \A t \in task'[r].tickets : status'[t] \in Allowed(task[r].op, task[r].order)'
    BY <1>0, <2>1 DEF RowsAreFresh, Allowed
  <2>3. RowsAreFresh'
    BY <1>0, <2>1, <2>2, RowsKept
  <2>4. Apart'
    BY <1>0, <2>1, ApartKept DEF Confirming
  <2>5. OneTicketEach'
    BY <1>0, <2>1 DEF OneTicketEach, OnOne
  <2> QED BY <2>3, <2>4, <2>5 DEF Fresh
<1>5. ~ KeepCount(r)
  BY DEF KeepCount
<1> QED BY <1>1, <1>2, <1>3, <1>4, <1>5 DEF Write

LEMMA FreshNext == FreshInv /\ [Next]_vars => FreshInv'
<1> SUFFICES ASSUME FreshInv, [Next]_vars, serial' PROVE Fresh'
  BY SoldNext DEF FreshInv
<1>1. CASE UNCHANGED vars
  BY <1>1 DEF vars, FreshInv, Fresh, RowsAreFresh, Apart, OneTicketEach, Allowed, Reserves
<1>2. CASE Next
  <2>1. SoldInv /\ Fresh
    BY <1>2, SerialEnds DEF FreshInv
  <2> QED BY <1>2, <2>1, NextIsAStep, BeginFresh, ProceedFresh, ReadFresh, WriteFresh
<1> QED BY <1>1, <1>2

\* As long as no two requests overlap on a ticket, confirmations of an order
\* apart, the tickets a request has read are as it read them when it writes
\* them: no route acts on a stale row.
THEOREM SerialReadsAreFresh == Spec => [](serial => RowsAreFresh /\ Apart)
<1>1. FreshInv => (serial => RowsAreFresh /\ Apart)
  BY DEF FreshInv, Fresh
<1> QED BY <1>1, FreshInit, FreshNext, PTL DEF Spec


-----------------------------------------------------------------------------
(* The sold count is exact.                                                *)

\* What a request has still to add to the sold count, or to take from it.
Uncounted(r) ==
    {t \in task[r].tickets : task[r].op \in {"insert", "complete", "count", "mark"}}
Uncounting(r) == {t \in task[r].tickets : task[r].op = "order-uncount"}
Admits(t) == status[t] \in {"valid", "used"}

\* The tickets the sold count stands for.
Counted ==
    {t \in Tickets : /\ Admits(t) \/ \E r \in Requests : t \in Uncounting(r)
                     /\ \A r \in Requests : t \notin Uncounted(r)}

ExactInv == FreshInv /\ (serial => sold = Cardinality(Counted))

LEMMA CountedIsShouldBe == TypeOK => ShouldBeCounted = Counted
BY DEF TypeOK, Task, ShouldBeCounted, Counted, At, Doing, Uncounted, Uncounting, Admits

\* A ticket without a row, or whose sale is not yet or no longer on, is not counted.
LEMMA NotCounted ==
    /\ RowsAreFresh => \A t \in Tickets :
          status[t] \notin {"valid", "used", "refunded"} => t \notin Counted
    /\ RowsAreFresh' => \A t \in Tickets :
          status'[t] \notin {"valid", "used", "refunded"} => t \notin Counted'
<1>1. RowsAreFresh => \A t \in Tickets :
          status[t] \notin {"valid", "used", "refunded"} => t \notin Counted
  BY DEF RowsAreFresh, Allowed, Counted, Uncounting, Admits
<1>2. RowsAreFresh' => \A t \in Tickets :
          status'[t] \notin {"valid", "used", "refunded"} => t \notin Counted'
  BY DEF RowsAreFresh, Allowed, Counted, Uncounting, Admits
<1> QED BY <1>1, <1>2

\* A ticket for which the step of r changes nothing stays counted, or not.
LEMMA StaysCounted ==
    ASSUME NEW r \in Requests, \A q \in Requests : q # r => task'[q] = task[q],
           NEW t \in Tickets, Admits(t)' <=> Admits(t),
           t \in Uncounted(r)' <=> t \in Uncounted(r),
           t \in Uncounting(r)' <=> t \in Uncounting(r)
    PROVE  t \in Counted' <=> t \in Counted
<1>1. \A q \in Requests : q # r => /\ Uncounted(q)' = Uncounted(q)
                                   /\ Uncounting(q)' = Uncounting(q)
  BY DEF Uncounted, Uncounting
<1> QED BY <1>1 DEF Counted

\* A ticket that is r's alone is counted by what it is and where r has got.
LEMMA MineAlone ==
    ASSUME NEW r \in Requests, NEW t \in Tickets,
           \A q \in Requests : q # r => /\ t \notin task[q].tickets
                                        /\ task'[q] = task[q]
    PROVE  /\ t \in Counted <=> (Admits(t) \/ t \in Uncounting(r)) /\ t \notin Uncounted(r)
           /\ t \in Counted' <=> (Admits(t)' \/ t \in Uncounting(r)') /\ t \notin Uncounted(r)'
<1>1. \A q \in Requests : q # r => /\ t \notin Uncounted(q) /\ t \notin Uncounting(q)
                                   /\ t \notin Uncounted(q)' /\ t \notin Uncounting(q)'
  BY DEF Uncounted, Uncounting
<1> QED BY <1>1 DEF Counted

\* A count that follows the tickets which come to be counted, or cease to be.
LEMMA CountFollows ==
    ASSUME TypeOK, sold = Cardinality(Counted), NEW S \in SUBSET Tickets
    PROVE  /\ /\ sold' = sold + Cardinality(S) /\ S \cap Counted = {}
              /\ Counted' = Counted \cup S
              => sold' = Cardinality(Counted')
           /\ Uncount(Cardinality(S)) /\ S \subseteq Counted /\ Counted' = Counted \ S
              => sold' = Cardinality(Counted')
<1>1. /\ IsFiniteSet(S) /\ IsFiniteSet(Counted)
      /\ Cardinality(S) \in Nat /\ Cardinality(Counted) \in Nat
  BY FiniteTickets DEF Counted
<1>2. ASSUME sold' = sold + Cardinality(S), S \cap Counted = {}, Counted' = Counted \cup S
      PROVE  sold' = Cardinality(Counted')
  <2>1. Cardinality(Counted \cup S) =
           Cardinality(Counted) + Cardinality(S) - Cardinality(Counted \cap S)
    BY <1>1, FS_Union
  <2>2. Cardinality(Counted \cap S) = 0
    <3>1. Counted \cap S = {}
      BY <1>2
    <3> QED BY <3>1, FS_EmptySet
  <2>3. Cardinality(Counted') = Cardinality(Counted \cup S)
    BY <1>2
  <2> QED BY <1>1, <1>2, <2>1, <2>2, <2>3
<1>3. ASSUME Uncount(Cardinality(S)), S \subseteq Counted, Counted' = Counted \ S
      PROVE  sold' = Cardinality(Counted')
  <2>1. /\ Cardinality(Counted \ S) = Cardinality(Counted) - Cardinality(Counted \cap S)
        /\ Counted \cap S = S /\ Cardinality(S) <= Cardinality(Counted)
    BY <1>1, <1>3, FS_Difference, FS_Subset
  <2>2. sold' = sold - Cardinality(S)
    BY <1>1, <1>3, <2>1 DEF Uncount
  <2> QED BY <1>1, <1>3, <2>1, <2>2
<1> QED BY <1>2, <1>3

LEMMA ExactInit == Init => ExactInv
<1> SUFFICES ASSUME Init PROVE ExactInv
  OBVIOUS
<1>1. Counted = {}
  BY DEF Init, Counted, Admits, Uncounting, Idle
<1> QED BY <1>1, FreshInit, FS_EmptySet DEF Init, ExactInv

LEMMA BeginExact ==
    ASSUME SoldInv, Fresh, Fresh', NEW r \in Requests, NEW o \in Orders, Begin(r, o)
    PROVE  UNCHANGED <<sold, Counted>>
<1>0. TypeOK /\ RowsAreFresh /\ RowsAreFresh'
  BY DEF SoldInv, Fresh
<1>1. PICK m \in Methods, op \in Buying, n \in Nat :
              /\ Purchase(o, m)
              /\ Start(r, op, o, TicketsOf(o), n)
              /\ UNCHANGED <<status, orderStatus, sold, issued>>
  BY <1>0, BeginMoves DEF Buying
<1>2. TicketsOf(o) \in SUBSET Tickets /\ op \in Ops
  BY DEF TicketsOf, Ops, Buying
<1>3. /\ \A q \in Requests : q # r => task'[q] = task[q]
      /\ task'[r].op = op /\ task'[r].tickets = TicketsOf(o) /\ task[r].op = "idle"
  BY <1>0, <1>1, <1>2, StartMoves DEF Start, Doing
<1>4. \A t \in TicketsOf(o) : status[t] = "none"
  BY <1>1, BeginsAlone DEF Purchase
<1>5. ASSUME NEW t \in Tickets PROVE t \in Counted' <=> t \in Counted
  <2>1. CASE t \in TicketsOf(o)
    BY <1>0, <1>1, <1>4, <2>1, NotCounted
  <2>2. CASE t \notin TicketsOf(o)
    <3>1. /\ t \notin Uncounted(r)' /\ t \notin Uncounting(r)'
          /\ t \notin Uncounted(r) /\ t \notin Uncounting(r)
      BY <1>3, <2>2 DEF Uncounted, Uncounting
    <3> QED BY <1>1, <1>3, <3>1, StaysCounted DEF Admits
  <2> QED BY <2>1, <2>2
<1>6. Counted' = Counted
  BY <1>5 DEF Counted
<1> QED BY <1>1, <1>6

LEMMA ProceedExact ==
    ASSUME SoldInv, Fresh, Fresh', NEW r \in Requests, Proceed(r),
           sold = Cardinality(Counted)
    PROVE  sold' = Cardinality(Counted')
<1>0. /\ TypeOK /\ RowsAreFresh /\ RowsAreFresh' /\ Apart
      /\ task[r] \in Task /\ task[r].tickets \in SUBSET Tickets
  BY DEF SoldInv, Fresh, TypeOK, Task
<1>1. ASSUME sold' = sold, \A t \in Tickets : t \in Counted' <=> t \in Counted
      PROVE  sold' = Cardinality(Counted')
  <2>1. Counted' = Counted
    BY <1>1 DEF Counted
  <2> QED BY <1>1, <2>1
<1>2. ASSUME NEW expired \in SUBSET Tickets, Validate(r, expired)
      PROVE  sold' = Cardinality(Counted')
  <2>1. /\ \A q \in Requests : q # r => task'[q] = task[q]
        /\ \/ task'[r].op = "idle" /\ task'[r].tickets = {}
           \/ task'[r].op \in {"order", "insert"} /\ task'[r].tickets = task[r].tickets
    BY <1>0, <1>2, ValidateMoves
  <2>2. /\ task[r].op = "validate" /\ sold' = sold
        /\ \A t \in Tickets : status'[t] = IF t \in expired THEN "available" ELSE status[t]
        /\ \A t \in expired : status[t] = "held"
    BY <1>2 DEF Validate, Doing, SetStatus, Held
  <2>3. \A t \in task[r].tickets : status[t] = "none"
    BY <1>0, <2>2 DEF RowsAreFresh, Allowed
  <2>4. ASSUME NEW t \in Tickets PROVE t \in Counted' <=> t \in Counted
    <3>1. CASE t \in expired \cup task[r].tickets
      BY <1>0, <2>2, <2>3, <3>1, NotCounted
    <3>2. CASE t \notin expired \cup task[r].tickets
      <4>1. /\ t \notin Uncounted(r)' /\ t \notin Uncounting(r)'
            /\ t \notin Uncounted(r) /\ t \notin Uncounting(r)
        BY <2>1, <3>2 DEF Uncounted, Uncounting
      <4> QED BY <2>1, <2>2, <3>2, <4>1, StaysCounted DEF Admits
    <3> QED BY <3>1, <3>2
  <2> QED BY <1>1, <2>2, <2>4
<1>3. CASE InsertOrder(r) \/ Inserted(r)
  <2>1. /\ \A q \in Requests : q # r => task'[q] = task[q]
        /\ sold' = sold /\ status' = status
    BY <1>0, <1>3, GotoMoves, ReturnMoves DEF InsertOrder, Inserted, Ops
  <2>2. \/ \A t \in task[r].tickets \cup task'[r].tickets :
              status[t] \notin {"valid", "used", "refunded"}
        \/ /\ task[r].op = "insert" /\ task'[r].op = "count"
           /\ task'[r].tickets = task[r].tickets
    <3>1. CASE InsertOrder(r)
      <4>1. task[r].op = "order" /\ task'[r].tickets = task[r].tickets
        BY <1>0, <3>1, GotoMoves DEF InsertOrder, Doing, Ops
      <4> QED BY <1>0, <4>1 DEF RowsAreFresh, Allowed
    <3>2. CASE Inserted(r)
      <4>1. /\ task[r].op = "insert"
            /\ \/ Reserves(task[r].order) /\ task'[r].tickets = {}
               \/ task'[r].op = "count" /\ task'[r].tickets = task[r].tickets
        BY <1>0, <3>2, GotoMoves, ReturnMoves DEF Inserted, Doing, Ops
      <4> QED BY <1>0, <4>1 DEF RowsAreFresh, Allowed
    <3> QED BY <1>3, <3>1, <3>2
  <2>3. ASSUME NEW t \in Tickets PROVE t \in Counted' <=> t \in Counted
    <3>1. CASE status[t] \notin {"valid", "used", "refunded"}
      BY <1>0, <2>1, <3>1, NotCounted
    <3>2. CASE status[t] \in {"valid", "used", "refunded"}
      <4>1. /\ t \in Uncounted(r)' <=> t \in Uncounted(r)
            /\ t \in Uncounting(r)' <=> t \in Uncounting(r)
        BY <2>2, <3>2 DEF Uncounted, Uncounting
      <4> QED BY <2>1, <4>1, StaysCounted DEF Admits
    <3> QED BY <3>1, <3>2
  <2> QED BY <1>1, <2>1, <2>3
<1>4. CASE CountSold(r)
  <2> DEFINE T == task[r].tickets
  <2>1. /\ \A q \in Requests : q # r => task'[q] = task[q]
        /\ task'[r].op = "idle" /\ task'[r].tickets = {}
        /\ task[r].op = "count" /\ status' = status
        /\ sold' = sold + Cardinality(T)
    BY <1>0, <1>4, ReturnMoves DEF CountSold, Doing
  <2>2. \A t \in T : t \in Uncounted(r) /\ status[t] = "valid"
    BY <1>0, <2>1 DEF RowsAreFresh, Allowed, Uncounted
  <2>3. T \cap Counted = {}
    BY <2>2 DEF Counted
  <2>4. T \subseteq Counted'
    <3> SUFFICES ASSUME NEW t \in T, NEW q \in Requests, t \in Uncounted(q)'
                 PROVE  FALSE
      BY <1>0, <2>1, <2>2 DEF Counted, Admits
    <3>1. q # r /\ t \in task[q].tickets /\ t \in Uncounted(q)
      BY <2>1 DEF Uncounted
    <3>2. task[q].op \in Confirming
      BY <1>0, <3>1 DEF Apart
    <3>3. t \in Owed(q) /\ t \in Owed(r)
      BY <2>1, <3>1, <3>2 DEF Uncounted, Confirming, Owed, Paid
    <3> QED BY <3>1, <3>3 DEF SoldInv, OwedOnce
  <2>5. ASSUME NEW t \in Tickets, t \notin T PROVE t \in Counted' <=> t \in Counted
    <3>1. /\ t \notin Uncounted(r)' /\ t \notin Uncounting(r)'
          /\ t \notin Uncounted(r) /\ t \notin Uncounting(r)
      BY <2>1, <2>5 DEF Uncounted, Uncounting
    <3> QED BY <2>1, <3>1, StaysCounted DEF Admits
  <2>6. Counted' = Counted \cup T
    <3> HIDE DEF T
    <3> QED BY <2>4, <2>5 DEF Counted
  <2> HIDE DEF T
  <2> QED BY <1>0, <2>1, <2>3, <2>6, CountFollows DEF T
<1>5. ASSUME NEW t \in Tickets, InsertTicket(r, t) PROVE sold' = Cardinality(Counted')
  <2>1. /\ task[r].op = "insert" /\ t \in task[r].tickets /\ UNCHANGED <<sold, task>>
        /\ \A u \in Tickets : u # t => status'[u] = status[u]
    BY <1>5 DEF InsertTicket, Doing, SetStatus
  <2>2. ASSUME NEW u \in Tickets PROVE u \in Counted' <=> u \in Counted
    <3>1. CASE u = t
      <4>1. t \in Uncounted(r) /\ t \in Uncounted(r)'
        BY <2>1 DEF Uncounted
      <4> QED BY <3>1, <4>1 DEF Counted
    <3>2. CASE u # t
      <4>1. Uncounted(r)' = Uncounted(r) /\ Uncounting(r)' = Uncounting(r)
        BY <2>1 DEF Uncounted, Uncounting
      <4> QED BY <2>1, <3>2, <4>1, StaysCounted DEF Admits
    <3> QED BY <3>1, <3>2
  <2> QED BY <1>1, <2>1, <2>2
<1> QED BY <1>2, <1>3, <1>4, <1>5 DEF Proceed

LEMMA ReadExact ==
    ASSUME TypeOK, NEW r \in Requests, Read(r)
    PROVE  UNCHANGED <<sold, Counted>>
<1>1. PICK o \in Orders, S \in SUBSET Tickets, op \in (Touching \ {"mark"}) \cup {"confirm"} :
         Start(r, op, o, S, 0) /\ UNCHANGED <<status, sold>>
  <2>1. ASSUME NEW o \in Orders, Confirm(r, o)
        PROVE  \E S \in SUBSET Tickets :
                  Start(r, "confirm", o, S, 0) /\ UNCHANGED <<status, sold>>
    BY <2>1 DEF Confirm, Held
  <2>2. ASSUME NEW o \in Orders, RefundOrder(r, o)
        PROVE  \E S \in SUBSET Tickets :
                  Start(r, "order-refund", o, S, 0) /\ UNCHANGED <<status, sold>>
    BY <2>2 DEF RefundOrder, Active, TicketsOf
  <2>3. ASSUME NEW t \in Tickets,
               NEW op \in {"cancel", "release", "checkin", "refund", "sent"},
               ReadTicket(r, t, op)
        PROVE  /\ Start(r, op, OrderOf[t], {t}, 0) /\ UNCHANGED <<status, sold>>
               /\ OrderOf[t] \in Orders /\ {t} \in SUBSET Tickets
    BY <2>3, TicketsAssumption DEF ReadTicket
  <2> QED BY <2>1, <2>2, <2>3 DEF Read, Touching
<1>2. /\ \A q \in Requests : q # r => task'[q] = task[q]
      /\ task'[r].op = op /\ task[r].op = "idle"
  BY <1>1, StartMoves DEF Touching, Ops, Start, Doing
<1>3. /\ Uncounted(r)' = {} /\ Uncounting(r)' = {}
      /\ Uncounted(r) = {} /\ Uncounting(r) = {}
  BY <1>2 DEF Uncounted, Uncounting, Touching
<1>4. ASSUME NEW t \in Tickets PROVE t \in Counted' <=> t \in Counted
  BY <1>1, <1>2, <1>3, StaysCounted DEF Admits
<1>5. Counted' = Counted
  BY <1>4 DEF Counted
<1> QED BY <1>1, <1>5


LEMMA WriteExact ==
    ASSUME SoldInv, Fresh, Fresh', NEW r \in Requests, Write(r), serial',
           sold = Cardinality(Counted)
    PROVE  sold' = Cardinality(Counted')
<1>0. /\ TypeOK /\ RowsAreFresh /\ RowsAreFresh' /\ Apart /\ OneTicketEach
      /\ task[r] \in Task /\ task[r].tickets \in SUBSET Tickets
  BY DEF SoldInv, Fresh, TypeOK, Task
<1>1. ASSUME sold' = sold, \A t \in Tickets : t \in Counted' <=> t \in Counted
      PROVE  sold' = Cardinality(Counted')
  <2>1. Counted' = Counted
    BY <1>1 DEF Counted
  <2> QED BY <1>1, <2>1
<1>2. CASE ConfirmTickets(r)
  <2>1. /\ \A q \in Requests : q # r => task'[q] = task[q]
        /\ task'[r].op = "complete" /\ task'[r].tickets = Confirmable(r)
    BY <1>0, <1>2, ConfirmMoves
  <2>2. /\ task[r].op = "confirm" /\ sold' = sold
        /\ \A t \in Tickets : t \notin Confirmable(r) => status'[t] = status[t]
        /\ \A t \in Confirmable(r) : status[t] = "held"
    BY <1>2 DEF ConfirmTickets, Doing, SetStatus, Confirmable, Held
  <2>3. ASSUME NEW t \in Tickets PROVE t \in Counted' <=> t \in Counted
    <3>1. CASE t \in Confirmable(r)
      <4>1. t \in Uncounted(r)'
        BY <2>1, <3>1 DEF Uncounted
      <4>2. t \notin Counted
        BY <1>0, <2>2, <3>1, NotCounted
      <4> QED BY <4>1, <4>2 DEF Counted
    <3>2. CASE t \notin Confirmable(r)
      <4>1. /\ t \notin Uncounted(r)' /\ t \notin Uncounting(r)'
            /\ t \notin Uncounted(r) /\ t \notin Uncounting(r)
        BY <2>1, <2>2, <3>2 DEF Uncounted, Uncounting
      <4> QED BY <2>1, <2>2, <3>2, <4>1, StaysCounted DEF Admits
    <3> QED BY <3>1, <3>2
  <2> QED BY <1>1, <2>2, <2>3
<1>3. CASE CompleteOrder(r) \/ RefundOrderRow(r) \/ Die(r)
  <2>1. /\ \A q \in Requests : q # r => task'[q] = task[q]
        /\ UNCHANGED <<sold, status>>
        /\ \/ /\ task[r].op = "complete" /\ task'[r].op \in {"idle", "count"}
              /\ task'[r].tickets = task[r].tickets
           \/ /\ task[r].op \notin Halfway \ {"order-mark"}
              /\ task'[r].op = "idle" /\ task'[r].tickets = {}
    BY <1>0, <1>3, GotoMoves, ReturnMoves
       DEF CompleteOrder, RefundOrderRow, Die, Doing, Ops, Halfway
  <2>2. task[r].op = "complete" /\ task'[r].op = "idle" => task'[r].tickets = {}
    BY <1>0, <2>1, IdleHoldsNothing, <1>3, ReturnMoves, GotoMoves
       DEF CompleteOrder, RefundOrderRow, Die, Doing, Ops
  <2>3. Uncounted(r)' = Uncounted(r) /\ Uncounting(r)' = Uncounting(r)
    BY <2>1, <2>2 DEF Uncounted, Uncounting, Halfway
  <2>4. ASSUME NEW t \in Tickets PROVE t \in Counted' <=> t \in Counted
    BY <2>1, <2>3, StaysCounted DEF Admits
  <2> QED BY <1>1, <2>1, <2>4
<1>4. ASSUME task[r].op \notin Confirming,
             \A q \in Requests : q # r => task'[q] = task[q],
             NEW t \in task[r].tickets
      PROVE  /\ t \in Counted <=> (Admits(t) \/ t \in Uncounting(r)) /\ t \notin Uncounted(r)
             /\ t \in Counted' <=> (Admits(t)' \/ t \in Uncounting(r)') /\ t \notin Uncounted(r)'
  BY <1>0, <1>4, OthersElsewhere, MineAlone
<1>5. ASSUME \A q \in Requests : q # r => task'[q] = task[q],
             task'[r].tickets \subseteq task[r].tickets,
             NEW t \in Tickets, t \notin task[r].tickets, status'[t] = status[t]
      PROVE  t \in Counted' <=> t \in Counted
  <2>1. /\ t \notin Uncounted(r)' /\ t \notin Uncounting(r)'
        /\ t \notin Uncounted(r) /\ t \notin Uncounting(r)
    BY <1>5 DEF Uncounted, Uncounting
  <2> QED BY <1>5, <2>1, StaysCounted DEF Admits
<1>6. ASSUME NEW op \in {"cancel", "release", "checkin", "mark", "sent"},
             WriteTicket(r, op)
      PROVE  sold' = Cardinality(Counted')
  <2>1. /\ \A q \in Requests : q # r => task'[q] = task[q]
        /\ task'[r].op = "idle" /\ task'[r].tickets = {}
    BY <1>0, <1>6, ReturnMoves DEF WriteTicket
  <2>2. task[r].op = op /\ op \notin Confirming /\ sold' = sold
    BY <1>6 DEF WriteTicket, Doing, Confirming
  <2>3. PICK t \in Tickets : task[r].tickets = {t}
    BY <1>0, <2>2 DEF OneTicketEach, OnOne
  <2>4. status[t] \in Allowed(op, task[r].order)
    BY <1>0, <2>2, <2>3 DEF RowsAreFresh
  <2>5. status[t] # "deleted"
    BY <2>4 DEF Allowed
  <2>6. /\ status'[t] = Leaves(op, t)
        /\ \A u \in Tickets : u # t => status'[u] = status[u]
    BY <1>6, <2>3, <2>5 DEF WriteTicket, SetStatus
  <2>7. t \in Counted' <=> t \in Counted
    <3>1. /\ t \notin Uncounting(r) /\ t \notin Uncounted(r)' /\ t \notin Uncounting(r)'
          /\ t \in Uncounted(r) <=> op = "mark"
      BY <2>1, <2>2, <2>3 DEF Uncounted, Uncounting
    <3>2. CASE op = "checkin"
      BY <1>4, <2>1, <2>2, <2>3, <2>4, <2>6, <3>1, <3>2 DEF Allowed, Leaves, Admits
    <3>3. CASE op # "checkin"
      <4>1. ~ Admits(t)'
        BY <2>6, <3>3 DEF Leaves, Admits
      <4>2. ~ Admits(t) \/ op = "mark"
        BY <2>4, <3>3 DEF Allowed, Admits
      <4> QED BY <1>4, <2>1, <2>2, <2>3, <3>1, <4>1, <4>2
    <3> QED BY <3>2, <3>3
  <2>8. ASSUME NEW u \in Tickets PROVE u \in Counted' <=> u \in Counted
    BY <1>5, <2>1, <2>3, <2>6, <2>7
  <2> QED BY <1>1, <2>2, <2>8
<1>7. CASE RefundOrderTickets(r)
  <2>1. /\ \A q \in Requests : q # r => task'[q] = task[q]
        /\ task'[r].op = "order-uncount" /\ task'[r].tickets = task[r].tickets
    BY <1>0, <1>7, GotoMoves DEF RefundOrderTickets, Ops
  <2>2. /\ task[r].op = "order-refund" /\ task[r].op \notin Confirming /\ sold' = sold
        /\ \A t \in Tickets : t \notin task[r].tickets => status'[t] = status[t]
    BY <1>7 DEF RefundOrderTickets, Doing, SetStatus, Confirming
  <2>3. ASSUME NEW t \in Tickets PROVE t \in Counted' <=> t \in Counted
    <3>1. CASE t \in task[r].tickets
      <4>1. Admits(t) /\ t \notin Uncounted(r)
        BY <1>0, <2>2, <3>1 DEF RowsAreFresh, Allowed, Admits, Uncounted
      <4>2. t \in Uncounting(r)' /\ t \notin Uncounted(r)'
        BY <2>1, <3>1 DEF Uncounted, Uncounting
      <4> QED BY <1>4, <2>1, <2>2, <3>1, <4>1, <4>2
    <3>2. CASE t \notin task[r].tickets
      BY <1>5, <2>1, <2>2, <3>2
    <3> QED BY <3>1, <3>2
  <2> QED BY <1>1, <2>2, <2>3
<1>8. ASSUME NEW n \in Nat, n = Cardinality(task[r].tickets), Uncount(n), status' = status,
             \A q \in Requests : q # r => task'[q] = task[q],
             task'[r].tickets = task[r].tickets,
             \/ task[r].op = "refund" /\ task'[r].op = "mark"
             \/ task[r].op = "order-uncount" /\ task'[r].op = "order-mark"
      PROVE  sold' = Cardinality(Counted')
  <2> DEFINE T == task[r].tickets
  <2>1. T \subseteq Counted /\ T \cap Counted' = {}
    <3> SUFFICES ASSUME NEW t \in T PROVE t \in Counted /\ t \notin Counted'
      OBVIOUS
    <3>1. CASE task[r].op = "refund" /\ task'[r].op = "mark"
      <4>1. Admits(t) /\ t \notin Uncounted(r) /\ t \in Uncounted(r)'
        BY <1>0, <1>8, <3>1 DEF RowsAreFresh, Allowed, Admits, Uncounted
      <4> QED BY <1>4, <1>8, <3>1, <4>1 DEF Confirming
    <3>2. CASE task[r].op = "order-uncount" /\ task'[r].op = "order-mark"
      <4>1. /\ t \in Uncounting(r) /\ t \notin Uncounted(r) /\ t \notin Uncounting(r)'
            /\ ~ Admits(t)'
        BY <1>0, <1>8, <3>2 DEF RowsAreFresh, Allowed, Admits, Uncounted, Uncounting
      <4> QED BY <1>4, <1>8, <3>2, <4>1 DEF Confirming
    <3> QED BY <1>8, <3>1, <3>2
  <2>2. \A t \in Tickets : t \notin T => (t \in Counted' <=> t \in Counted)
    BY <1>5, <1>8
  <2>3. Counted' = Counted \ T
    <3> HIDE DEF T
    <3> QED BY <2>1, <2>2 DEF Counted
  <2>4. Uncount(Cardinality(T)) /\ T \in SUBSET Tickets
    BY <1>0, <1>8
  <2> HIDE DEF T
  <2> QED BY <1>0, <2>1, <2>3, <2>4, CountFollows
<1>9. CASE RefundTicket(r)
  <2>1. /\ \A q \in Requests : q # r => task'[q] = task[q]
        /\ task'[r].op = "mark" /\ task'[r].tickets = task[r].tickets
        /\ task[r].op = "refund" /\ Uncount(1) /\ status' = status
    BY <1>0, <1>9, GotoMoves DEF RefundTicket, Doing, Ops
  <2>2. Cardinality(task[r].tickets) = 1
    BY <1>0, <2>1, FS_Singleton DEF OneTicketEach, OnOne
  <2> QED BY <1>8, <2>1, <2>2
<1>10. CASE RefundOrderCount(r)
  <2>1. /\ \A q \in Requests : q # r => task'[q] = task[q]
        /\ task'[r].op = "order-mark" /\ task'[r].tickets = task[r].tickets
        /\ task[r].op = "order-uncount" /\ status' = status
        /\ Uncount(Cardinality(task[r].tickets))
    BY <1>0, <1>10, GotoMoves DEF RefundOrderCount, Doing, Ops
  <2>2. Cardinality(task[r].tickets) \in Nat
    BY <1>0, FiniteTickets
  <2> QED BY <1>8, <2>1, <2>2
<1>11. ~ KeepCount(r)
  BY DEF KeepCount
<1> QED BY <1>2, <1>3, <1>6, <1>7, <1>9, <1>10, <1>11 DEF Write

LEMMA ExactNext == ExactInv /\ [Next]_vars => ExactInv'
<1> SUFFICES ASSUME ExactInv, [Next]_vars, serial' PROVE sold' = Cardinality(Counted')
  BY FreshNext DEF ExactInv
<1>1. CASE UNCHANGED vars
  <2>1. Counted' = Counted /\ sold' = sold /\ serial
    BY <1>1 DEF vars, Counted, Uncounted, Uncounting, Admits
  <2> QED BY <2>1 DEF ExactInv
<1>2. CASE Next
  <2>1. SoldInv /\ Fresh /\ Fresh' /\ sold = Cardinality(Counted) /\ TypeOK
    BY <1>2, SerialEnds, FreshNext DEF ExactInv, FreshInv, SoldInv
  <2>2. ASSUME UNCHANGED <<sold, Counted>> PROVE sold' = Cardinality(Counted')
    BY <2>1, <2>2
  <2> QED BY <1>2, <2>1, <2>2, NextIsAStep, BeginExact, ProceedExact, ReadExact, WriteExact
<1> QED BY <1>1, <1>2

\* As long as no two requests overlap on a ticket, confirmations of an order
\* apart, and none dies halfway, ticket_types.sold stands at every step for
\* exactly the tickets that are valid or used and not at work (SoldIsExact).
THEOREM SerialSoldCountIsExact == Spec => []SoldIsExact
<1>1. ExactInv => SoldIsExact
  BY CountedIsShouldBe DEF ExactInv, FreshInv, SoldInv, SoldIsExact
<1> QED BY <1>1, ExactInit, ExactNext, PTL DEF Spec


-----------------------------------------------------------------------------
(* Orders and their tickets agree.                                         *)

\* Statuses of a ticket that admits nobody any more.
Over == {"available", "cancelled", "refund_pending", "refunded", "deleted"}

\* One ticket of a purchase has come further than another.
Mixed(t, u) ==
    \/ status[t] # "none" /\ status[u] = "none"
    \/ status[t] \in {"valid", "used"} /\ status[u] = "held"

Inserting(o) == \E r \in Requests : task[r].op = "insert" /\ task[r].order = o

\* The tickets of a purchase are made together and confirmed together.
OrdersAreUniform ==
    \A t, u \in Tickets : OrderOf[t] = OrderOf[u] /\ Mixed(t, u) => Inserting(OrderOf[t])

\* A confirmation has all held tickets of its order, and leaves one issued.
ConfirmsWhole(r) ==
    /\ task[r].op = "confirm" =>
          /\ task[r].order \in Orders
          /\ method[task[r].order] = "etransfer"
          /\ task[r].tickets # {}
          /\ task[r].tickets \subseteq TicketsOf(task[r].order)
          /\ \A t \in TicketsOf(task[r].order) :
                /\ status[t] # "none"
                /\ status[t] = "held" => t \in task[r].tickets
    /\ task[r].op = "complete" =>
          /\ task[r].order \in Orders
          /\ method[task[r].order] = "etransfer"
          /\ TicketsOf(task[r].order) \cap issued # {}

\* An order's refund has all its tickets that still admit anybody.
RefundsWhole(r) ==
    task[r].op \in {"order-refund", "order-uncount", "order-mark"} =>
        /\ task[r].order \in Orders
        /\ orderStatus[task[r].order] # "none"
        /\ \A t \in TicketsOf(task[r].order) : t \in task[r].tickets \/ status[t] \in Over

ValidIsIssued == \A t \in Tickets : status[t] = "valid" => t \in issued

CompletedIsIssued ==
    \A o \in Orders : orderStatus[o] = "completed" =>
        TicketsOf(o) \cap issued # {} \/ (~ Reserves(o) /\ Inserting(o))

RefundedIsOver ==
    \A o \in Orders : orderStatus[o] = "refunded" =>
        \A t \in TicketsOf(o) : status[t] \in Over

\* The order is there, or about to be.
Placed(o) ==
    \/ orderStatus[o] # "none"
    \/ \E r \in Requests : task[r].op \in {"validate", "order"} /\ task[r].order = o

OneOrderPerSession ==
    \A o, p \in Orders :
        (/\ method[o] = "stripe" /\ method[p] = "stripe"
         /\ SessionOf[o] = SessionOf[p] /\ Placed(o) /\ Placed(p)) => o = p

OrderFacts ==
    /\ OrdersAreUniform
    /\ \A r \in Requests : ConfirmsWhole(r) /\ RefundsWhole(r)
    /\ ValidIsIssued
    /\ CompletedIsIssued
    /\ RefundedIsOver
    /\ OneOrderPerSession

OrdersInv == FreshInv /\ (serial => OrderFacts)

LEMMA OrdersInit == Init => OrdersInv
<1> SUFFICES ASSUME Init PROVE OrderFacts
  BY FreshInit DEF OrdersInv
<1>1. /\ \A r \in Requests : task[r].op = "idle"
      /\ \A t \in Tickets : status[t] = "none"
      /\ \A o \in Orders : method[o] = "none" /\ orderStatus[o] = "none"
  BY DEF Init, Idle
<1>2. OrdersAreUniform
  BY <1>1 DEF OrdersAreUniform, Mixed
<1> QED BY <1>1, <1>2
        DEF OrderFacts, ConfirmsWhole, RefundsWhole, ValidIsIssued, CompletedIsIssued,
            RefundedIsOver, OneOrderPerSession

\* A step that makes no ticket and no order, and confirms none: what it does
\* with a ticket is close it or check it in, and an order's row it changes only
\* as the order's tickets have it.
LEMMA OrderFactsKept ==
    ASSUME TypeOK, OrderFacts, NEW r \in Requests,
           \A q \in Requests : q # r => task'[q] = task[q],
           UNCHANGED <<method, issued>>,
           \A t \in Tickets : \/ status'[t] = status[t]
                              \/ status[t] # "none" /\ status'[t] \in Over
                              \/ status[t] = "valid" /\ status'[t] = "used",
           \A o \in Orders :
              \/ orderStatus'[o] = orderStatus[o]
              \/ /\ orderStatus'[o] # "none"
                 /\ orderStatus'[o] = "completed" => TicketsOf(o) \cap issued # {}
                 /\ orderStatus'[o] = "refunded" => \A t \in TicketsOf(o) : status'[t] \in Over
                 /\ orderStatus[o] # "none" \/ method[o] # "stripe",
           task[r].op # "insert",
           task'[r].op \in {"validate", "order"} =>
              task[r].op \in {"validate", "order"} /\ task'[r].order = task[r].order,
           ConfirmsWhole(r)', RefundsWhole(r)'
    PROVE  OrderFacts'
<1>1. \A o : Inserting(o) => Inserting(o)'
  BY DEF Inserting
<1>2. OrdersAreUniform'
  <2> SUFFICES ASSUME NEW t \in Tickets, NEW u \in Tickets, OrderOf[t] = OrderOf[u],
                      Mixed(t, u)'
               PROVE  Inserting(OrderOf[t])'
    BY DEF OrdersAreUniform
  <2>1. Mixed(t, u)
    BY DEF Mixed, Over
  <2> QED BY <1>1, <2>1 DEF OrderFacts, OrdersAreUniform
<1>3. ASSUME NEW q \in Requests PROVE ConfirmsWhole(q)' /\ RefundsWhole(q)'
  <2>1. CASE q = r
    BY <2>1
  <2>2. CASE q # r
    <3>1. task'[q] = task[q] /\ ConfirmsWhole(q) /\ RefundsWhole(q)
      BY <2>2 DEF OrderFacts
    <3>2. \A o : TicketsOf(o) \subseteq Tickets /\ TicketsOf(o)' = TicketsOf(o)
      BY DEF TicketsOf
    <3>3. ConfirmsWhole(q)'
      BY <3>1, <3>2 DEF ConfirmsWhole, Over, TicketsOf
    <3>4. RefundsWhole(q)'
      BY <3>1, <3>2 DEF RefundsWhole, Over, TicketsOf
    <3> QED BY <3>3, <3>4
  <2> QED BY <2>1, <2>2
<1>4. ValidIsIssued'
  BY DEF OrderFacts, ValidIsIssued, Over
<1>5. CompletedIsIssued'
  BY <1>1 DEF OrderFacts, CompletedIsIssued, Reserves, TicketsOf
<1>6. RefundedIsOver'
  BY DEF OrderFacts, RefundedIsOver, TicketsOf, Over
<1>7. OneOrderPerSession'
  <2>1. \A o \in Orders : method[o] = "stripe" /\ Placed(o)' => Placed(o)
    BY DEF Placed
  <2> QED BY <2>1 DEF OrderFacts, OneOrderPerSession
<1> QED BY <1>2, <1>3, <1>4, <1>5, <1>6, <1>7 DEF OrderFacts

LEMMA BeginOrders ==
    ASSUME SoldInv, Fresh, OrderFacts, NEW r \in Requests, NEW o \in Orders,
           Begin(r, o), serial'
    PROVE  OrderFacts'
<1>0. TypeOK
  BY DEF SoldInv
<1>1. PICK m \in Methods, op \in Buying, n \in Nat :
              /\ Purchase(o, m)
              /\ Start(r, op, o, TicketsOf(o), n)
              /\ UNCHANGED <<status, orderStatus, sold, issued>>
  BY <1>0, BeginMoves DEF Buying
<1>2. TicketsOf(o) \in SUBSET Tickets /\ op \in Ops
  BY DEF TicketsOf, Ops, Buying
<1>3. /\ \A q \in Requests : q # r => task'[q] = task[q]
      /\ task'[r].op \in Buying /\ task'[r].order = o /\ task[r].op = "idle"
  BY <1>0, <1>1, <1>2, StartMoves DEF Start, Doing
<1>4. method[o] = "none" /\ \A p \in Orders : p # o => method'[p] = method[p]
  BY <1>0, <1>1 DEF Purchase, TypeOK
<1>5. \A p : Inserting(p) => Inserting(p)'
  BY <1>3 DEF Inserting
<1>6. OrdersAreUniform'
  BY <1>1, <1>5 DEF OrderFacts, OrdersAreUniform, Mixed
<1>7. ASSUME NEW q \in Requests PROVE ConfirmsWhole(q)' /\ RefundsWhole(q)'
  <2>1. CASE q = r
    BY <1>3, <2>1 DEF ConfirmsWhole, RefundsWhole, Buying
  <2>2. CASE q # r
    <3>1. task'[q] = task[q] /\ ConfirmsWhole(q) /\ RefundsWhole(q)
      BY <1>3, <2>2 DEF OrderFacts
    <3> QED BY <1>1, <1>4, <3>1 DEF ConfirmsWhole, RefundsWhole, TicketsOf
  <2> QED BY <2>1, <2>2
<1>8. ValidIsIssued' /\ RefundedIsOver'
  BY <1>1 DEF OrderFacts, ValidIsIssued, RefundedIsOver, TicketsOf
<1>9. CompletedIsIssued'
  <2>1. ~ Inserting(o)
    BY <1>4 DEF Inserting, SoldInv, TasksTrackRows, Buying
  <2> QED BY <1>1, <1>4, <1>5, <2>1 DEF OrderFacts, CompletedIsIssued, Reserves, TicketsOf
<1>10. OneOrderPerSession'
  <2>1. \A p \in Orders : p # o /\ Placed(p)' => Placed(p)
    BY <1>1, <1>3 DEF Placed
  <2>2. CASE method'[o] # "stripe"
    BY <1>4, <2>1, <2>2 DEF OrderFacts, OneOrderPerSession
  <2>3. CASE method'[o] = "stripe"
    <3>1. PaymentWebhook(r, o)
      BY <1>0, <2>3 DEF Begin, Checkout, FreeCheckout, Purchase, TypeOK
    <3>2. \A p \in Orders :
             method[p] = "stripe" /\ SessionOf[p] = SessionOf[o] => ~ Placed(p)
      BY <3>1 DEF PaymentWebhook, IsDuplicate, Placed
    <3> QED BY <1>4, <2>1, <3>2 DEF OrderFacts, OneOrderPerSession
  <2> QED BY <2>2, <2>3
<1> QED BY <1>6, <1>7, <1>8, <1>9, <1>10 DEF OrderFacts


LEMMA ProceedOrders ==
    ASSUME SoldInv, Fresh, OrderFacts,
           NEW r \in Requests, Proceed(r), serial'
    PROVE  OrderFacts'
<1>0. /\ TypeOK /\ Apart /\ RowsAreFresh
      /\ task[r] \in Task /\ task[r].tickets \in SUBSET Tickets
  BY DEF SoldInv, Fresh, TypeOK, Task
<1>1. ASSUME task'[r].op \notin {"confirm", "complete", "order-refund", "order-uncount", "order-mark"}
      PROVE  ConfirmsWhole(r)' /\ RefundsWhole(r)'
  BY <1>1 DEF ConfirmsWhole, RefundsWhole
<1>2. ASSUME NEW expired \in SUBSET Tickets, Validate(r, expired) PROVE OrderFacts'
  <2>1. /\ \A q \in Requests : q # r => task'[q] = task[q]
        /\ \/ task'[r].op = "idle"
           \/ task'[r].op \in {"order", "insert"} /\ task'[r].order = task[r].order
    BY <1>0, <1>2, ValidateMoves
  <2>2. /\ task[r].op = "validate" /\ UNCHANGED <<method, issued, orderStatus>>
        /\ \A t \in Tickets : \/ status'[t] = status[t]
                              \/ status[t] # "none" /\ status'[t] \in Over
    BY <1>2 DEF Validate, Doing, SetStatus, Held, Over
  <2> QED BY <1>0, <1>1, <2>1, <2>2, OrderFactsKept
<1>3. CASE CountSold(r)
  <2>1. /\ \A q \in Requests : q # r => task'[q] = task[q]
        /\ task'[r].op = "idle" /\ task[r].op = "count"
        /\ UNCHANGED <<method, status, issued, orderStatus>>
    BY <1>0, <1>3, ReturnMoves DEF CountSold, Doing
  <2> QED BY <1>0, <1>1, <2>1, OrderFactsKept
<1>4. CASE InsertOrder(r)
  <2>0. PICK o \in Orders : o = task[r].order
    BY <1>4 DEF InsertOrder, Doing, SoldInv, TasksTrackRows, Buying
  <2>1. /\ \A q \in Requests : q # r => task'[q] = task[q]
        /\ task'[r].op = "insert" /\ task'[r].order = o /\ task[r].op = "order"
        /\ UNCHANGED <<method, status, issued>>
    BY <1>0, <1>4, <2>0, GotoMoves DEF InsertOrder, Doing, Ops
  <2>3. /\ orderStatus'[o] = IF Reserves(o) THEN "pending" ELSE "completed"
        /\ \A p \in Orders : p # o => orderStatus'[p] = orderStatus[p]
    BY <1>0, <1>4, <2>0 DEF InsertOrder, TypeOK
  <2>4. \A p : Inserting(p) => Inserting(p)'
    BY <2>1 DEF Inserting
  <2>5. OrdersAreUniform'
    BY <2>1, <2>4 DEF OrderFacts, OrdersAreUniform, Mixed
  <2>6. ASSUME NEW q \in Requests PROVE ConfirmsWhole(q)' /\ RefundsWhole(q)'
    <3>1. CASE q = r
      BY <1>1, <2>1, <3>1
    <3>2. CASE q # r
      <4>1. task'[q] = task[q] /\ ConfirmsWhole(q) /\ RefundsWhole(q)
        BY <2>1, <3>2 DEF OrderFacts
      <4> QED BY <2>1, <2>3, <4>1 DEF ConfirmsWhole, RefundsWhole, TicketsOf
    <3> QED BY <3>1, <3>2
  <2>7. ValidIsIssued'
    BY <2>1 DEF OrderFacts, ValidIsIssued
  <2>8. CompletedIsIssued'
    <3>1. Inserting(o)'
      BY <2>1 DEF Inserting
    <3> QED BY <2>1, <2>3, <2>4, <3>1 DEF OrderFacts, CompletedIsIssued, Reserves, TicketsOf
  <2>9. RefundedIsOver'
    BY <2>1, <2>3 DEF OrderFacts, RefundedIsOver, TicketsOf
  <2>10. OneOrderPerSession'
    <3>1. \A p \in Orders : Placed(p)' => Placed(p)
      BY <2>0, <2>1, <2>3 DEF Placed
    <3> QED BY <2>1, <3>1 DEF OrderFacts, OneOrderPerSession
  <2> QED BY <2>5, <2>6, <2>7, <2>8, <2>9, <2>10 DEF OrderFacts
<1>5. CASE Inserted(r)
  <2>0. PICK o \in Orders : o = task[r].order
    BY <1>5 DEF Inserted, Doing, SoldInv, TasksTrackRows, Buying
  <2>1. /\ \A q \in Requests : q # r => task'[q] = task[q]
        /\ task'[r].op \in {"idle", "count"}
    BY <1>0, <1>5, GotoMoves, ReturnMoves DEF Inserted, Ops
  <2>2. /\ task[r].op = "insert" /\ UNCHANGED <<method, status, issued, orderStatus>>
        /\ \A t \in task[r].tickets : status[t] # "none"
    BY <1>5 DEF Inserted, Doing
  <2>3. task[r].tickets = TicketsOf(o)
    BY <2>0, <2>2 DEF SoldInv, TasksTrackRows, Buying
  <2>4. \A t \in TicketsOf(o) : status[t] = IF Reserves(o) THEN "held" ELSE "valid"
    BY <1>0, <2>0, <2>2, <2>3 DEF RowsAreFresh, Allowed
  <2>5. \A p : p # o /\ Inserting(p) => Inserting(p)'
    BY <2>0, <2>1 DEF Inserting
  <2>6. OrdersAreUniform'
    <3> SUFFICES ASSUME NEW t \in Tickets, NEW u \in Tickets, OrderOf[t] = OrderOf[u],
                        Mixed(t, u)
                 PROVE  Inserting(OrderOf[t])'
      BY <2>2 DEF OrdersAreUniform, Mixed
    <3>1. OrderOf[t] # o
      BY <2>4 DEF Mixed, TicketsOf
    <3> QED BY <2>5, <3>1 DEF OrderFacts, OrdersAreUniform
  <2>7. ASSUME NEW q \in Requests PROVE ConfirmsWhole(q)' /\ RefundsWhole(q)'
    <3>1. CASE q = r
      BY <1>1, <2>1, <3>1
    <3>2. CASE q # r
      <4>1. task'[q] = task[q] /\ ConfirmsWhole(q) /\ RefundsWhole(q)
        BY <2>1, <3>2 DEF OrderFacts
      <4> QED BY <2>2, <4>1 DEF ConfirmsWhole, RefundsWhole, TicketsOf
    <3> QED BY <3>1, <3>2
  <2>8. ValidIsIssued' /\ RefundedIsOver'
    BY <2>2 DEF OrderFacts, ValidIsIssued, RefundedIsOver, TicketsOf
  <2>9. CompletedIsIssued'
    <3>1. ~ Reserves(o) => TicketsOf(o) \cap issued # {}
      <4>1. PICK t \in TicketsOf(o) : TRUE
        BY PurchasesHaveTickets
      <4>2. t \in Tickets /\ OrderOf[t] = o
        BY <4>1 DEF TicketsOf
      <4>3. ~ Reserves(o) => t \in issued
        BY <2>4, <4>1, <4>2 DEF SoldInv, IssueTracksStatus
      <4> QED BY <4>1, <4>3
    <3> QED BY <2>2, <2>5, <3>1 DEF OrderFacts, CompletedIsIssued, Reserves, TicketsOf
  <2>10. OneOrderPerSession'
    <3>1. \A p \in Orders : Placed(p)' => Placed(p)
      BY <2>1, <2>2 DEF Placed
    <3> QED BY <2>2, <3>1 DEF OrderFacts, OneOrderPerSession
  <2> QED BY <2>6, <2>7, <2>8, <2>9, <2>10 DEF OrderFacts
<1>6. ASSUME NEW t \in Tickets, InsertTicket(r, t) PROVE OrderFacts'
  <2>0. PICK o \in Orders : o = task[r].order
    BY <1>6 DEF InsertTicket, Doing, SoldInv, TasksTrackRows, Buying
  <2>1. /\ task[r].op = "insert" /\ t \in task[r].tickets /\ status[t] = "none"
        /\ UNCHANGED <<method, orderStatus, task>>
        /\ status'[t] = IF Reserves(o) THEN "held" ELSE "valid"
        /\ \A u \in Tickets : u # t => status'[u] = status[u]
        /\ issued' = IF Reserves(o) THEN issued ELSE issued \cup {t}
    BY <1>6, <2>0 DEF InsertTicket, Doing, SetStatus
  <2>2. task[r].tickets = TicketsOf(o) /\ OrderOf[t] = o
    BY <2>0, <2>1 DEF SoldInv, TasksTrackRows, Buying, TicketsOf
  <2>3. \A p : Inserting(p)' <=> Inserting(p)
    BY <2>1 DEF Inserting
  <2>4. Inserting(o)
    BY <2>0, <2>1 DEF Inserting
  <2>5. OrdersAreUniform'
    BY <2>1, <2>2, <2>3, <2>4 DEF OrderFacts, OrdersAreUniform, Mixed
  <2>6. ASSUME NEW q \in Requests PROVE ConfirmsWhole(q)' /\ RefundsWhole(q)'
    <3>1. ConfirmsWhole(q) /\ RefundsWhole(q)
      BY DEF OrderFacts
    <3>2. task[q].tickets \cap task[r].tickets # {} => q = r
      BY <1>0, <2>1 DEF Apart, Confirming
    <3>3. ConfirmsWhole(q)'
      <4>1. task[q].op = "confirm" => t \notin TicketsOf(task[q].order)
        BY <2>1, <2>2, <3>1, <3>2 DEF ConfirmsWhole, TicketsOf
      <4> QED BY <2>1, <3>1, <4>1 DEF ConfirmsWhole, TicketsOf
    <3>4. RefundsWhole(q)'
      <4>1. task[q].op \in {"order-refund", "order-uncount", "order-mark"} =>
               t \notin TicketsOf(task[q].order)
        BY <2>1, <2>2, <3>1, <3>2 DEF RefundsWhole, Over
      <4> QED BY <2>1, <3>1, <4>1 DEF RefundsWhole, TicketsOf
    <3> QED BY <3>3, <3>4
  <2>7. ValidIsIssued'
    BY <2>1 DEF OrderFacts, ValidIsIssued
  <2>8. CompletedIsIssued'
    BY <2>1, <2>3 DEF OrderFacts, CompletedIsIssued, Reserves, TicketsOf
  <2>9. RefundedIsOver'
    BY <2>1 DEF OrderFacts, RefundedIsOver, TicketsOf, Over
  <2>10. OneOrderPerSession'
    BY <2>1 DEF OrderFacts, OneOrderPerSession, Placed
  <2> QED BY <2>5, <2>6, <2>7, <2>8, <2>9, <2>10 DEF OrderFacts
<1> QED BY <1>2, <1>3, <1>4, <1>5, <1>6 DEF Proceed

\* The buyer of a purchase still making its tickets would overlap with a
\* request that reads them.
LEMMA NotMadeAround ==
    ASSUME SoldInv, NEW o \in Orders, Inserting(o), NEW S \in SUBSET Tickets,
           S \cap TicketsOf(o) # {}, NEW op, Watch(op, S)
    PROVE  ~ serial'
<1>1. PICK q \in Requests : task[q].op = "insert" /\ task[q].order = o
  BY DEF Inserting
<1>2. task[q].tickets = TicketsOf(o)
  BY <1>1 DEF SoldInv, TasksTrackRows, Buying
<1>3. Overlaps(op, S)
  BY <1>1, <1>2 DEF Overlaps, Doing
<1> QED BY <1>3 DEF Watch

LEMMA ReadOrders ==
    ASSUME SoldInv, OrderFacts, NEW r \in Requests, Read(r), serial'
    PROVE  OrderFacts'
<1>0. TypeOK
  BY DEF SoldInv
<1>1. ASSUME NEW o \in Orders, Confirm(r, o) PROVE OrderFacts'
  <2> DEFINE held == Held \cap TicketsOf(o)
  <2>1. /\ Start(r, "confirm", o, held, 0) /\ Watch("confirm", held)
        /\ method[o] = "etransfer" /\ held # {}
        /\ UNCHANGED <<method, status, orderStatus, issued>>
    BY <1>1 DEF Confirm
  <2>2. /\ held \in SUBSET Tickets /\ held \subseteq TicketsOf(o)
        /\ \A t \in TicketsOf(o) : status[t] = "held" <=> t \in held
    BY DEF Held, TicketsOf
  <2> HIDE DEF held
  <2>3. /\ \A q \in Requests : q # r => task'[q] = task[q]
        /\ task'[r].op = "confirm" /\ task'[r].order = o /\ task'[r].tickets = held
        /\ task[r].op = "idle"
    <3>1. "confirm" \in Ops
      BY DEF Ops
    <3>2. task[r].op = "idle"
      BY <2>1 DEF Start, Doing
    <3> QED BY <1>0, <2>1, <2>2, <3>1, <3>2, StartMoves
  <2>4. ~ Inserting(o)
    BY <2>1, <2>2, NotMadeAround
  <2>5. \A t \in TicketsOf(o) : status[t] # "none"
    <3> SUFFICES ASSUME NEW t \in TicketsOf(o), status[t] = "none" PROVE FALSE
      OBVIOUS
    <3>1. PICK h \in held : TRUE
      BY <2>1
    <3>2. Mixed(h, t) /\ OrderOf[h] = o /\ OrderOf[t] = o /\ h \in Tickets /\ t \in Tickets
      BY <2>2, <3>1 DEF Mixed, TicketsOf
    <3> QED BY <2>4, <3>2 DEF OrderFacts, OrdersAreUniform
  <2>6. ConfirmsWhole(r)' /\ RefundsWhole(r)'
    BY <2>1, <2>2, <2>3, <2>5 DEF ConfirmsWhole, RefundsWhole, TicketsOf
  <2> QED BY <1>0, <2>1, <2>3, <2>6, OrderFactsKept
<1>2. ASSUME NEW o \in Orders, RefundOrder(r, o) PROVE OrderFacts'
  <2>1. /\ Start(r, "order-refund", o, Active(o), 0) /\ Watch("order-refund", TicketsOf(o))
        /\ orderStatus[o] \in {"pending", "completed"} /\ Active(o) # {}
        /\ UNCHANGED <<method, status, orderStatus, issued>>
    BY <1>2 DEF RefundOrder
  <2>2. Active(o) \in SUBSET Tickets /\ TicketsOf(o) \in SUBSET Tickets
    BY DEF Active, TicketsOf
  <2>3. /\ \A q \in Requests : q # r => task'[q] = task[q]
        /\ task'[r].op = "order-refund" /\ task'[r].order = o /\ task'[r].tickets = Active(o)
        /\ task[r].op = "idle"
    BY <1>0, <2>1, <2>2, StartMoves DEF Ops, Start, Doing
  <2>4. PICK a \in TicketsOf(o) : status[a] \in {"valid", "used"}
    BY <2>1 DEF Active
  <2>5. ~ Inserting(o)
    BY <2>1, <2>2, <2>4, NotMadeAround
  <2>6. \A t \in TicketsOf(o) : t \in Active(o) \/ status[t] \in Over
    <3> SUFFICES ASSUME NEW t \in TicketsOf(o), t \notin Active(o), status[t] \notin Over
                 PROVE  FALSE
      OBVIOUS
    <3>1. status[t] \in {"none", "held"}
      BY <1>0 DEF TypeOK, Statuses, Active, TicketsOf, Over
    <3>2. Mixed(a, t) /\ OrderOf[a] = o /\ OrderOf[t] = o /\ a \in Tickets /\ t \in Tickets
      BY <2>4, <3>1 DEF Mixed, TicketsOf
    <3> QED BY <2>5, <3>2 DEF OrderFacts, OrdersAreUniform
  <2>7. ConfirmsWhole(r)' /\ RefundsWhole(r)'
    BY <2>1, <2>3, <2>6 DEF ConfirmsWhole, RefundsWhole, TicketsOf
  <2> QED BY <1>0, <2>1, <2>3, <2>7, OrderFactsKept
<1>3. ASSUME NEW t \in Tickets,
             NEW op \in {"cancel", "release", "checkin", "refund", "sent"},
             ReadTicket(r, t, op)
      PROVE  OrderFacts'
  <2>1. /\ Start(r, op, OrderOf[t], {t}, 0) /\ OrderOf[t] \in Orders
        /\ UNCHANGED <<method, status, orderStatus, issued>>
    BY <1>3, TicketsAssumption DEF ReadTicket
  <2>2. /\ \A q \in Requests : q # r => task'[q] = task[q]
        /\ task'[r].op = op /\ task[r].op = "idle"
    <3>1. op \in Ops /\ {t} \in SUBSET Tickets /\ 0 \in Nat
      BY DEF Ops
    <3>2. task[r].op = "idle"
      BY <2>1 DEF Start, Doing
    <3> QED BY <1>0, <2>1, <3>1, <3>2, StartMoves
  <2>3. ConfirmsWhole(r)' /\ RefundsWhole(r)'
    BY <2>2 DEF ConfirmsWhole, RefundsWhole
  <2> QED BY <1>0, <2>1, <2>2, <2>3, OrderFactsKept
<1> QED BY <1>1, <1>2, <1>3 DEF Read


LEMMA WriteOrders ==
    ASSUME SoldInv, Fresh, OrderFacts, NEW r \in Requests, Write(r), serial'
    PROVE  OrderFacts'
<1>0. /\ TypeOK /\ Apart /\ RowsAreFresh /\ OneTicketEach
      /\ task[r] \in Task /\ task[r].tickets \in SUBSET Tickets
      /\ ConfirmsWhole(r) /\ RefundsWhole(r)
  BY DEF SoldInv, Fresh, TypeOK, Task, OrderFacts
<1>1. ASSUME task'[r].op \notin {"confirm", "complete", "order-refund", "order-uncount", "order-mark"}
      PROVE  ConfirmsWhole(r)' /\ RefundsWhole(r)'
  BY <1>1 DEF ConfirmsWhole, RefundsWhole
<1>2. CASE ConfirmTickets(r)
  <2>1. task[r].op = "confirm"
    BY <1>2 DEF ConfirmTickets, Doing
  <2>2. PICK o \in Orders : /\ o = task[r].order /\ method[o] = "etransfer"
                            /\ task[r].tickets # {} /\ task[r].tickets \subseteq TicketsOf(o)
                            /\ \A t \in TicketsOf(o) :
                                  /\ status[t] # "none"
                                  /\ status[t] = "held" => t \in task[r].tickets
    BY <1>0, <2>1 DEF ConfirmsWhole
  <2>3. /\ \A q \in Requests : q # r => task'[q] = task[q]
        /\ task'[r].op = "complete" /\ task'[r].order = o
    <3>1. task' = [task EXCEPT ![r] = [task[r] EXCEPT !.op = "complete", !.tickets = Confirmable(r)]]
      BY <1>2 DEF ConfirmTickets
    <3>2. task'[r] = [task[r] EXCEPT !.op = "complete", !.tickets = Confirmable(r)]
      BY <1>0, <3>1 DEF TypeOK
    <3> QED BY <1>0, <1>2, <2>2, <3>2, ConfirmMoves DEF Task
  <2>4. /\ UNCHANGED <<method, orderStatus>>
        /\ \A t \in Tickets :
              status'[t] = IF t \in Confirmable(r) THEN "valid" ELSE status[t]
        /\ issued' = issued \cup Confirmable(r)
    BY <1>2 DEF ConfirmTickets, SetStatus
  <2>5. \A t \in Tickets : t \in Confirmable(r) <=> t \in task[r].tickets /\ status[t] = "held"
    BY DEF Confirmable, Held
  <2>6. Confirmable(r) \subseteq Tickets
    BY <1>0 DEF Confirmable
  <2> HIDE DEF Confirmable
  <2>7. \A p : Inserting(p) => Inserting(p)'
    BY <2>1, <2>3 DEF Inserting
  <2>8. OrdersAreUniform'
    <3> SUFFICES ASSUME NEW t \in Tickets, NEW u \in Tickets, OrderOf[t] = OrderOf[u],
                        Mixed(t, u)'
                 PROVE  Inserting(OrderOf[t])'
      BY DEF OrdersAreUniform
    <3>1. OrderOf[t] # o
      <4> SUFFICES ASSUME OrderOf[t] = o PROVE FALSE
        OBVIOUS
      <4>1. u \in TicketsOf(o)
        BY DEF TicketsOf
      <4> QED BY <2>2, <2>4, <2>5, <4>1 DEF Mixed
    <3>2. t \notin Confirmable(r) /\ u \notin Confirmable(r)
      BY <2>2, <2>5, <3>1 DEF TicketsOf
    <3>3. Mixed(t, u)
      BY <2>4, <3>2 DEF Mixed
    <3> QED BY <2>7, <3>3 DEF OrderFacts, OrdersAreUniform
  <2>9. TicketsOf(o) \cap issued' # {}
    <3>1. PICK t \in task[r].tickets : t \in Tickets /\ t \in TicketsOf(o)
      BY <1>0, <2>2
    <3>2. status[t] \in {"held", "valid"}
      BY <1>0, <2>1, <3>1 DEF RowsAreFresh, Allowed
    <3>3. t \in issued'
      BY <2>4, <2>5, <3>1, <3>2 DEF OrderFacts, ValidIsIssued
    <3> QED BY <3>1, <3>3
  <2>10. ASSUME NEW q \in Requests PROVE ConfirmsWhole(q)' /\ RefundsWhole(q)'
    <3>1. CASE q = r
      BY <2>2, <2>3, <2>4, <2>9, <3>1 DEF ConfirmsWhole, RefundsWhole, TicketsOf
    <3>2. CASE q # r
      <4>1. task'[q] = task[q] /\ ConfirmsWhole(q) /\ RefundsWhole(q)
        BY <2>3, <3>2 DEF OrderFacts
      <4>2. \A t \in Tickets : /\ status[t] # "none" => status'[t] # "none"
                               /\ status'[t] = "held" => status[t] = "held"
                               /\ status[t] \in Over => status'[t] \in Over
        BY <2>4, <2>5 DEF Over
      <4>3. ConfirmsWhole(q)'
        BY <2>4, <4>1, <4>2 DEF ConfirmsWhole, TicketsOf
      <4>4. RefundsWhole(q)'
        BY <2>4, <4>1, <4>2 DEF RefundsWhole, TicketsOf
      <4> QED BY <4>3, <4>4
    <3> QED BY <3>1, <3>2
  <2>11. ValidIsIssued'
    BY <2>4 DEF OrderFacts, ValidIsIssued
  <2>12. CompletedIsIssued'
    BY <2>4, <2>7 DEF OrderFacts, CompletedIsIssued, Reserves, TicketsOf
  <2>13. RefundedIsOver'
    BY <2>4, <2>5 DEF OrderFacts, RefundedIsOver, TicketsOf, Over
  <2>14. OneOrderPerSession'
    <3>1. \A p \in Orders : Placed(p)' => Placed(p)
      BY <2>3, <2>4 DEF Placed
    <3> QED BY <2>4, <3>1 DEF OrderFacts, OneOrderPerSession
  <2> QED BY <2>8, <2>10, <2>11, <2>12, <2>13, <2>14 DEF OrderFacts
<1>3. CASE CompleteOrder(r)
  <2>1. /\ \A q \in Requests : q # r => task'[q] = task[q]
        /\ task'[r].op \in {"idle", "count"} /\ task[r].op = "complete"
        /\ UNCHANGED <<method, status, issued>>
    BY <1>0, <1>3, GotoMoves, ReturnMoves DEF CompleteOrder, Doing, Ops
  <2>2. PICK o \in Orders : /\ o = task[r].order /\ method[o] = "etransfer"
                            /\ TicketsOf(o) \cap issued # {}
    BY <1>0, <2>1 DEF ConfirmsWhole
  <2>3. \A p \in Orders : orderStatus'[p] = IF p = o THEN "completed" ELSE orderStatus[p]
    BY <1>0, <1>3, <2>2 DEF CompleteOrder, TypeOK
  <2>4. \A p \in Orders :
           \/ orderStatus'[p] = orderStatus[p]
           \/ /\ orderStatus'[p] # "none"
              /\ orderStatus'[p] = "completed" => TicketsOf(p) \cap issued # {}
              /\ orderStatus'[p] = "refunded" => \A t \in TicketsOf(p) : status'[t] \in Over
              /\ orderStatus[p] # "none" \/ method[p] # "stripe"
    BY <2>2, <2>3
  <2> QED BY <1>0, <1>1, <2>1, <2>4, OrderFactsKept
<1>4. ASSUME NEW op \in {"cancel", "release", "checkin", "mark", "sent"},
             WriteTicket(r, op)
      PROVE  OrderFacts'
  <2>1. /\ \A q \in Requests : q # r => task'[q] = task[q]
        /\ task'[r].op = "idle"
    BY <1>0, <1>4, ReturnMoves DEF WriteTicket
  <2>2. task[r].op = op /\ UNCHANGED <<method, issued, orderStatus>>
    BY <1>4 DEF WriteTicket, Doing
  <2>3. PICK t \in task[r].tickets :
           SetStatus({t} \cap {u \in Tickets : status[u] # "deleted"}, Leaves(op, t))
    BY <1>4 DEF WriteTicket
  <2>4. status[t] \in Allowed(op, task[r].order)
    BY <1>0, <2>2 DEF RowsAreFresh
  <2>5. \/ status[t] # "none" /\ Leaves(op, t) \in Over
        \/ status[t] = "valid" /\ Leaves(op, t) = "used"
    BY <2>4 DEF Allowed, Leaves, Over
  <2>6. \A u \in Tickets : u # t => status'[u] = status[u]
    BY <2>3 DEF SetStatus
  <2>7. status'[t] = status[t] \/ status'[t] = Leaves(op, t)
    BY <1>0, <2>3 DEF SetStatus
  <2>8. \A u \in Tickets : \/ status'[u] = status[u]
                           \/ status[u] # "none" /\ status'[u] \in Over
                           \/ status[u] = "valid" /\ status'[u] = "used"
    BY <2>5, <2>6, <2>7
  <2> QED BY <1>0, <1>1, <2>1, <2>2, <2>8, OrderFactsKept
<1>5. CASE RefundOrderTickets(r)
  <2>1. /\ \A q \in Requests : q # r => task'[q] = task[q]
        /\ task'[r].op = "order-uncount" /\ task'[r].tickets = task[r].tickets
        /\ task'[r].order = task[r].order
    BY <1>0, <1>5, GotoMoves DEF RefundOrderTickets, Ops
  <2>2. /\ task[r].op = "order-refund" /\ UNCHANGED <<method, issued, orderStatus>>
        /\ \A t \in Tickets : status'[t] =
              IF t \in task[r].tickets /\ status[t] # "deleted" THEN "refunded" ELSE status[t]
    BY <1>5 DEF RefundOrderTickets, Doing, SetStatus
  <2>3. \A t \in task[r].tickets : status[t] \in {"valid", "used"}
    BY <1>0, <2>2 DEF RowsAreFresh, Allowed
  <2>4. \A t \in Tickets : status'[t] = status[t] \/ (status[t] # "none" /\ status'[t] \in Over)
    BY <2>2, <2>3 DEF Over
  <2>5. ConfirmsWhole(r)' /\ RefundsWhole(r)'
    <3>1. \A t \in Tickets : t \notin task[r].tickets => status'[t] = status[t]
      BY <2>2
    <3> QED BY <1>0, <2>1, <2>2, <3>1 DEF ConfirmsWhole, RefundsWhole, TicketsOf
  <2> QED BY <1>0, <2>1, <2>2, <2>4, <2>5, OrderFactsKept
<1>6. CASE RefundTicket(r) \/ RefundOrderCount(r)
  <2>1. /\ \A q \in Requests : q # r => task'[q] = task[q]
        /\ task'[r].tickets = task[r].tickets /\ task'[r].order = task[r].order
        /\ \/ task[r].op = "refund" /\ task'[r].op = "mark"
           \/ task[r].op = "order-uncount" /\ task'[r].op = "order-mark"
        /\ UNCHANGED <<method, status, issued, orderStatus>>
    BY <1>0, <1>6, GotoMoves DEF RefundTicket, RefundOrderCount, Doing, Ops
  <2>2. ConfirmsWhole(r)' /\ RefundsWhole(r)'
    BY <1>0, <2>1 DEF ConfirmsWhole, RefundsWhole, TicketsOf
  <2> QED BY <1>0, <2>1, <2>2, OrderFactsKept
<1>7. CASE RefundOrderRow(r)
  <2>1. /\ \A q \in Requests : q # r => task'[q] = task[q]
        /\ task'[r].op = "idle" /\ task[r].op = "order-mark"
        /\ UNCHANGED <<method, status, issued>>
    BY <1>0, <1>7, ReturnMoves DEF RefundOrderRow, Doing
  <2>2. PICK o \in Orders : /\ o = task[r].order /\ orderStatus[o] # "none"
                            /\ \A t \in TicketsOf(o) :
                                  t \in task[r].tickets \/ status[t] \in Over
    BY <1>0, <2>1 DEF RefundsWhole
  <2>3. \A p \in Orders : orderStatus'[p] = IF p = o THEN "refunded" ELSE orderStatus[p]
    BY <1>0, <1>7, <2>2 DEF RefundOrderRow, TypeOK
  <2>4. \A t \in TicketsOf(o) : status'[t] \in Over
    <3>1. \A t \in task[r].tickets : status[t] = "refunded"
      BY <1>0, <2>1 DEF RowsAreFresh, Allowed
    <3> QED BY <2>1, <2>2, <3>1 DEF Over
  <2>5. \A p \in Orders :
           \/ orderStatus'[p] = orderStatus[p]
           \/ /\ orderStatus'[p] # "none"
              /\ orderStatus'[p] = "completed" => TicketsOf(p) \cap issued # {}
              /\ orderStatus'[p] = "refunded" => \A t \in TicketsOf(p) : status'[t] \in Over
              /\ orderStatus[p] # "none" \/ method[p] # "stripe"
    BY <2>2, <2>3, <2>4
  <2> QED BY <1>0, <1>1, <2>1, <2>5, OrderFactsKept
<1>8. CASE Die(r)
  <2>1. /\ \A q \in Requests : q # r => task'[q] = task[q]
        /\ task'[r].op = "idle" /\ task[r].op \notin Halfway
        /\ UNCHANGED <<method, status, issued, orderStatus>>
    BY <1>0, <1>8, ReturnMoves DEF Die
  <2> QED BY <1>0, <1>1, <2>1, OrderFactsKept DEF Halfway
<1>9. ~ KeepCount(r)
  BY DEF KeepCount
<1> QED BY <1>2, <1>3, <1>4, <1>5, <1>6, <1>7, <1>8, <1>9 DEF Write

LEMMA OrdersNext ==
    ASSUME OrdersInv, [Next]_vars PROVE OrdersInv'
<1> SUFFICES ASSUME serial' PROVE OrderFacts'
  BY FreshNext DEF OrdersInv
<1>1. CASE UNCHANGED vars
  BY <1>1 DEF vars, OrdersInv, OrderFacts, OrdersAreUniform, Mixed, Inserting, ConfirmsWhole,
              RefundsWhole, ValidIsIssued, CompletedIsIssued, RefundedIsOver,
              OneOrderPerSession, Placed, Reserves, TicketsOf
<1>2. CASE Next
  <2>1. SoldInv /\ Fresh /\ OrderFacts
    BY <1>2, SerialEnds DEF OrdersInv, FreshInv
  <2> QED BY <1>2, <2>1, NextIsAStep, BeginOrders, ProceedOrders, ReadOrders, WriteOrders
<1> QED BY <1>1, <1>2

\* As long as no two requests overlap and none dies halfway: a completed order
\* has had a valid ticket, a refunded order's tickets admit nobody, and a Stripe
\* session has one order however often its webhook is delivered (OrdersAgree).
THEOREM SerialOrdersAgree == Spec => []OrdersAgree
<1>1. OrdersInv => OrdersAgree
  <2> SUFFICES ASSUME OrdersInv, serial PROVE OrdersAgree
    BY DEF OrdersAgree
  <2>1. OrderFacts
    BY DEF OrdersInv
  <2>2. ASSUME NEW o \in Orders, orderStatus[o] = "completed",
               \A r \in Requests : task[r].order # o
        PROVE  TicketsOf(o) \cap issued # {}
    BY <2>1, <2>2 DEF OrderFacts, CompletedIsIssued, Inserting
  <2>3. ASSUME NEW o \in Orders, orderStatus[o] = "refunded", NEW t \in TicketsOf(o)
        PROVE  status[t] \notin {"held", "valid", "used"}
    BY <2>1, <2>3 DEF OrderFacts, RefundedIsOver, Over
  <2>4. ASSUME NEW o \in Orders, NEW p \in Orders,
               method[o] = "stripe", method[p] = "stripe",
               orderStatus[o] # "none", orderStatus[p] # "none",
               SessionOf[o] = SessionOf[p]
        PROVE  o = p
    BY <2>1, <2>4 DEF OrderFacts, OneOrderPerSession, Placed
  <2> QED BY <2>2, <2>3, <2>4 DEF OrdersAgree
<1>2. OrdersInv /\ [Next]_vars => OrdersInv'
  BY OrdersNext
<1> QED BY <1>1, <1>2, OrdersInit, PTL DEF Spec
=============================================================================

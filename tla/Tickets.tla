------------------------------ MODULE Tickets ------------------------------
(***************************************************************************)
(* Tickets of one ticket type of an event (src/apps/events): checkouts     *)
(* that reserve or issue them, the payment webhook, e-Transfer             *)
(* confirmation, free tickets and holds, cancellation, check-in and        *)
(* refunds.  Every route reads rows, decides, and then writes them with    *)
(* statements of their own and no transaction, so a request is a task of   *)
(* several steps between which other requests run, and which may die at    *)
(* any of them.                                                            *)
(*                                                                         *)
(* Before some definitions stands a deliberately wrong variant, used       *)
(* nowhere in the modules; README.md, `Mutants', lists them.               *)
(***************************************************************************)
EXTENDS Integers, FiniteSets

CONSTANTS
    Tickets,   \* ids of the tickets that may be created
    Orders,    \* purchases: an order with its row, or one free ticket or hold
    Sessions,  \* Stripe checkout sessions
    Requests,  \* the requests a server works on at the same time
    OrderOf,   \* the purchase a ticket belongs to
    SessionOf, \* the Stripe session of a purchase, if it is paid by Stripe
    Quantity,  \* how many tickets the type offers
    NoOrder    \* the order of a request that has none

Methods == {"etransfer", "balance", "stripe", "free", "hold"}

ASSUME TicketsAssumption ==
    /\ IsFiniteSet(Tickets)
    /\ OrderOf \in [Tickets -> Orders]
    /\ SessionOf \in [Orders -> Sessions]
    /\ Quantity \in Nat
    /\ NoOrder \notin Orders

VARIABLES
    status,      \* tickets.status; "none" before the row, "deleted" after it
    method,      \* paymentMethod of a purchase; "none" before its checkout
    orderStatus, \* orders.status; "none" while there is no row
    sold,        \* ticket_types.sold
    task,        \* what each request is doing, with the rows it has read
    issued,      \* history: the tickets that ever were valid
    serial       \* history: no two requests overlapped, none died halfway

vars == <<status, method, orderStatus, sold, task, issued, serial>>

Statuses == {"none", "available", "held", "valid", "used", "cancelled",
             "refund_pending", "refunded", "deleted"}
OrderStatuses == {"none", "pending", "completed", "refunded"}
Ops == {"idle", "validate", "order", "insert", "count", "confirm", "complete",
        "cancel", "release", "checkin", "refund", "mark", "sent",
        "order-refund", "order-uncount", "order-mark"}

\* A request's rows: what it does next, the purchase, the tickets it read or
\* wrote, and the sold count it read.
Task == [op : Ops, order : Orders \cup {NoOrder}, tickets : SUBSET Tickets,
         sold : Nat]

Idle == [op |-> "idle", order |-> NoOrder, tickets |-> {}, sold |-> 0]

TicketsOf(o) == {t \in Tickets : OrderOf[t] = o}

\* Every purchase is of some ticket: an empty cart is refused and a quantity is
\* at least one (checkout-helpers.ts, normalizeCheckoutCart).
ASSUME PurchasesHaveTickets == \A o \in Orders : TicketsOf(o) # {}

HasRow(o) == method[o] \in {"etransfer", "balance", "stripe"}
Reserves(o) == method[o] \in {"etransfer", "hold"}

TypeOK ==
    /\ status \in [Tickets -> Statuses]
    /\ method \in [Orders -> Methods \cup {"none"}]
    /\ orderStatus \in [Orders -> OrderStatuses]
    /\ sold \in Nat
    /\ task \in [Requests -> Task]
    /\ issued \subseteq Tickets
    /\ serial \in BOOLEAN

Init ==
    /\ status = [t \in Tickets |-> "none"]
    /\ method = [o \in Orders |-> "none"]
    /\ orderStatus = [o \in Orders |-> "none"]
    /\ sold = 0
    /\ task = [r \in Requests |-> Idle]
    /\ issued = {}
    /\ serial = TRUE

-----------------------------------------------------------------------------
(* Steps every route is made of.                                           *)

Doing(r, op) == task[r].op = op

Goto(r, op) == task' = [task EXCEPT ![r].op = op]

Return(r) == task' = [task EXCEPT ![r] = Idle]

\* A request starts on tickets S of purchase o.
Start(r, op, o, S, n) ==
    /\ Doing(r, "idle")
    /\ task' = [task EXCEPT ![r] =
                    [op |-> op, order |-> o, tickets |-> S, sold |-> n]]

\* An UPDATE of the tickets in S by their ids.
SetStatus(S, s) ==
    status' = [t \in Tickets |-> IF t \in S THEN s ELSE status[t]]

\* Another request is at work on one of the tickets of S.  Two confirmations
\* of the same order do not disturb each other: their update is guarded.
Overlaps(op, S) ==
    \E q \in Requests :
        /\ task[q].tickets \cap S # {}
        /\ ~ (op = "confirm" /\ Doing(q, "confirm"))

Watch(op, S) == serial' = (serial /\ ~ Overlaps(op, S))

\* sold decremented, never below zero (GREATEST(sold - n, 0)).
UncountUnclamped(n) == sold' = sold - n
Uncount(n) == sold' = IF sold >= n THEN sold - n ELSE 0

-----------------------------------------------------------------------------
(* Checkout: e-Transfer, balance, free tickets and holds.                   *)

\* A route makes a purchase, under ids nobody has used yet.  A free ticket and
\* a hold are one ticket, without an order row.
Purchase(o, m) ==
    /\ method[o] = "none"
    /\ m \in {"free", "hold"} => Cardinality(TicketsOf(o)) = 1
    /\ method' = [method EXCEPT ![o] = m]

\* The route reads the ticket type, sold count included.
Checkout(r, o, m) ==
    /\ Purchase(o, m)
    /\ Start(r, "validate", o, TicketsOf(o), sold)
    /\ UNCHANGED <<status, orderStatus, sold, issued, serial>>

Held == {t \in Tickets : status[t] = "held"}

\* assertAvailability: held tickets do not count, only sold ones do; a hold
\* counts the other holds instead of itself.
IsAvailable(o, holds, read) ==
    IF method[o] = "hold" THEN Cardinality(holds) < Quantity - read
    ELSE Quantity - read >= Cardinality(TicketsOf(o))

\* validateCart: release the holds whose heldUntil has passed (any of them
\* may have), then compare the sold count read before with the quantity.
Validate(r, expired) ==
    /\ Doing(r, "validate")
    /\ expired \subseteq Held
    /\ SetStatus(expired, "available")
    /\ IF IsAvailable(task[r].order, Held \ expired, task[r].sold)
         THEN task' = [task EXCEPT
                         ![r].op = IF HasRow(task[r].order) THEN "order" ELSE "insert",
                         ![r].sold = 0]
         ELSE Return(r)
    /\ serial' = (serial /\ \A q \in Requests :
                     task[q].tickets \cap expired = {})
    /\ UNCHANGED <<method, orderStatus, sold, issued>>

\* A free ticket: the availability check is in the read.
FreeCheckout(r, o) ==
    /\ Purchase(o, "free")
    /\ Quantity - sold >= 1
    /\ Start(r, "insert", o, TicketsOf(o), 0)
    /\ UNCHANGED <<status, orderStatus, sold, issued, serial>>

\* isDuplicateWebhookOrder: an order for this Stripe session exists.
NeverDuplicate(o) == FALSE
IsDuplicate(o) ==
    \E p \in Orders : /\ method[p] = "stripe"
                      /\ orderStatus[p] # "none"
                      /\ SessionOf[p] = SessionOf[o]

\* handleCheckoutCompleted: the webhook's order is paid already, so nothing
\* looks at availability.
PaymentWebhook(r, o) ==
    /\ Purchase(o, "stripe")
    /\ ~ IsDuplicate(o)
    /\ Start(r, "order", o, TicketsOf(o), 0)
    /\ serial' = (serial /\ \A q \in Requests : task[q].order \in Orders =>
                     ~ (/\ method[task[q].order] = "stripe"
                        /\ SessionOf[task[q].order] = SessionOf[o]))
    /\ UNCHANGED <<status, orderStatus, sold, issued>>

\* createOrderWithTickets: the order first ...
InsertOrder(r) ==
    /\ Doing(r, "order")
    /\ orderStatus' = [orderStatus EXCEPT ![task[r].order] =
                          IF Reserves(task[r].order) THEN "pending"
                                                     ELSE "completed"]
    /\ Goto(r, "insert")
    /\ UNCHANGED <<method, status, sold, issued, serial>>

\* ... then its tickets, one by one ...
InsertTicket(r, t) ==
    /\ Doing(r, "insert")
    /\ t \in task[r].tickets
    /\ status[t] = "none"
    /\ SetStatus({t}, IF Reserves(task[r].order) THEN "held" ELSE "valid")
    /\ issued' = IF Reserves(task[r].order) THEN issued ELSE issued \cup {t}
    /\ UNCHANGED <<method, orderStatus, sold, task, serial>>

\* ... and, unless the tickets are held, the sold count.
Inserted(r) ==
    /\ Doing(r, "insert")
    /\ \A t \in task[r].tickets : status[t] # "none"
    /\ IF Reserves(task[r].order) THEN Return(r) ELSE Goto(r, "count")
    /\ UNCHANGED <<method, status, orderStatus, sold, issued, serial>>

CountSold(r) ==
    /\ Doing(r, "count")
    /\ sold' = sold + Cardinality(task[r].tickets)
    /\ Return(r)
    /\ UNCHANGED <<method, status, orderStatus, issued, serial>>

-----------------------------------------------------------------------------
(* Confirming an e-Transfer.                                               *)

\* The route reads the held tickets of the order.  (The order's own route
\* also wants the order pending; the ticket's route does not look at it.)
Confirm(r, o) ==
    LET held == Held \cap TicketsOf(o)
    IN  /\ method[o] = "etransfer"
        /\ held # {}
        /\ Start(r, "confirm", o, held, 0)
        /\ Watch("confirm", held)
        /\ UNCHANGED <<method, status, orderStatus, sold, issued>>

\* The tickets confirmHeldTickets updates: those it read that are still held.
ConfirmableByIdAlone(r) == task[r].tickets
Confirmable(r) == task[r].tickets \cap Held

ConfirmCountsRead(r) ==
    /\ Doing(r, "confirm")
    /\ SetStatus(Confirmable(r), "valid")
    /\ issued' = issued \cup Confirmable(r)
    /\ Goto(r, "complete")
    /\ UNCHANGED <<method, orderStatus, sold, serial>>
ConfirmTickets(r) ==
    /\ Doing(r, "confirm")
    /\ SetStatus(Confirmable(r), "valid")
    /\ issued' = issued \cup Confirmable(r)
    /\ task' = [task EXCEPT ![r].op = "complete",
                            ![r].tickets = Confirmable(r)]
    /\ UNCHANGED <<method, orderStatus, sold, serial>>

\* The order is completed whether or not a ticket was confirmed.
CompleteOrder(r) ==
    /\ Doing(r, "complete")
    /\ orderStatus' = [orderStatus EXCEPT ![task[r].order] = "completed"]
    /\ IF task[r].tickets = {} THEN Return(r) ELSE Goto(r, "count")
    /\ UNCHANGED <<method, status, sold, issued, serial>>

-----------------------------------------------------------------------------
(* Routes on one ticket: read it, check its status, write by id.            *)

\* The statuses a route accepts.
Accepts(op) == CASE op = "cancel"  -> {"held", "available"}
                 [] op = "release" -> {"held"}
                 [] op = "checkin" -> {"valid"}
                 [] op = "refund"  -> {"valid"}
                 [] OTHER          -> {"refund_pending"}  \* "sent"

ReadTicket(r, t, op) ==
    /\ status[t] \in Accepts(op)
    /\ Start(r, op, OrderOf[t], {t}, 0)
    /\ Watch(op, {t})
    /\ UNCHANGED <<method, status, orderStatus, sold, issued>>

\* The status a route leaves the ticket in.
Leaves(op, t) ==
    CASE op = "cancel"  -> "cancelled"
      [] op = "release" -> "deleted"
      [] op = "checkin" -> "used"
      [] op = "mark" /\ method[OrderOf[t]] = "etransfer" -> "refund_pending"
      [] OTHER          -> "refunded"  \* "sent", and "mark" of the others

\* A row that is gone is not updated.
WriteTicket(r, op) ==
    /\ Doing(r, op)
    /\ \E t \in task[r].tickets :
          SetStatus({t} \cap {u \in Tickets : status[u] # "deleted"},
                    Leaves(op, t))
    /\ Return(r)
    /\ UNCHANGED <<method, orderStatus, sold, issued, serial>>

\* A refund: the provider's refund has gone through, the sold count follows,
\* and "mark" writes the status.
RefundKeepsSold(r) ==
    /\ Doing(r, "refund")
    /\ sold' = sold
    /\ Goto(r, "mark")
    /\ UNCHANGED <<method, status, orderStatus, issued, serial>>
RefundTicket(r) ==
    /\ Doing(r, "refund")
    /\ Uncount(1)
    /\ Goto(r, "mark")
    /\ UNCHANGED <<method, status, orderStatus, issued, serial>>

-----------------------------------------------------------------------------
(* Refunding an order.                                                     *)

Active(o) == {t \in TicketsOf(o) : status[t] \in {"valid", "used"}}

RefundOrder(r, o) ==
    /\ orderStatus[o] \in {"pending", "completed"}
    /\ Active(o) # {}
    /\ Start(r, "order-refund", o, Active(o), 0)
    /\ Watch("order-refund", TicketsOf(o))
    /\ UNCHANGED <<method, status, orderStatus, sold, issued>>

RefundOrderTickets(r) ==
    /\ Doing(r, "order-refund")
    /\ SetStatus(task[r].tickets \cap {t \in Tickets : status[t] # "deleted"},
                 "refunded")
    /\ Goto(r, "order-uncount")
    /\ UNCHANGED <<method, orderStatus, sold, issued, serial>>

RefundOrderCount(r) ==
    /\ Doing(r, "order-uncount")
    /\ Uncount(Cardinality(task[r].tickets))
    /\ Goto(r, "order-mark")
    /\ UNCHANGED <<method, status, orderStatus, issued, serial>>

\* The decrement is not fatal: its failure is logged and the route goes on.
KeepCount(r) ==
    /\ task[r].op \in {"refund", "order-uncount"}
    /\ Goto(r, IF Doing(r, "refund") THEN "mark" ELSE "order-mark")
    /\ serial' = FALSE
    /\ UNCHANGED <<method, status, orderStatus, sold, issued>>

RefundOrderRow(r) ==
    /\ Doing(r, "order-mark")
    /\ orderStatus' = [orderStatus EXCEPT ![task[r].order] = "refunded"]
    /\ Return(r)
    /\ UNCHANGED <<method, status, sold, issued, serial>>

-----------------------------------------------------------------------------
\* Ops of a request that has written some of its rows and not yet the rest.
Halfway == {"insert", "count", "complete", "mark", "order-uncount",
            "order-mark"}

\* A request dies: the process, a statement or a call to another service
\* fails, and the rest of its steps never happen.
Die(r) ==
    /\ ~ Doing(r, "idle")
    /\ Return(r)
    /\ serial' = (serial /\ task[r].op \notin Halfway)
    /\ UNCHANGED <<method, status, orderStatus, sold, issued>>

Buy(r) ==
    \/ \E o \in Orders : \/ \E m \in {"etransfer", "balance", "hold"} :
                               Checkout(r, o, m)
                         \/ FreeCheckout(r, o)
                         \/ PaymentWebhook(r, o)
    \/ \E expired \in SUBSET Tickets : Validate(r, expired)
    \/ InsertOrder(r)
    \/ \E t \in Tickets : InsertTicket(r, t)
    \/ Inserted(r)
    \/ CountSold(r)

Organise(r) ==
    \/ \E o \in Orders : Confirm(r, o) \/ RefundOrder(r, o)
    \/ ConfirmTickets(r)
    \/ CompleteOrder(r)
    \/ \E t \in Tickets :
          \E op \in {"cancel", "release", "checkin", "refund", "sent"} :
             ReadTicket(r, t, op)
    \/ \E op \in {"cancel", "release", "checkin", "mark", "sent"} :
          WriteTicket(r, op)
    \/ RefundTicket(r)
    \/ RefundOrderTickets(r)
    \/ RefundOrderCount(r)
    \/ KeepCount(r)
    \/ RefundOrderRow(r)

Next == \E r \in Requests : Buy(r) \/ Organise(r) \/ Die(r)

Spec == Init /\ [][Next]_vars

-----------------------------------------------------------------------------
(* Properties.                                                             *)

\* The sold count never exceeds the number of tickets that were ever valid:
\* however confirmations, webhooks and refunds of the same tickets overlap or
\* die, no ticket is added to ticket_types.sold twice.
SoldNeverOvercounts == sold <= Cardinality(issued)

\* The tickets some request is at a step with.
At(op) == UNION {task[r].tickets : r \in {q \in Requests : Doing(q, op)}}

\* The tickets the sold count should stand for, given how far the requests
\* in flight have got.
ShouldBeCounted ==
    (At("order-uncount") \cup {t \in Tickets : status[t] \in {"valid", "used"}})
        \ (At("insert") \cup At("complete") \cup At("count") \cup At("mark"))

\* As long as no two requests overlap on a ticket (confirmations apart) and
\* none dies halfway, ticket_types.sold is exactly the number of tickets that
\* are valid or used.
SoldIsExact == serial => sold = Cardinality(ShouldBeCounted)

\* Under the same condition an order and its tickets agree: a completed order
\* has had a valid ticket, none of a refunded order's tickets admits anybody,
\* and a Stripe session has one order however often its webhook is delivered.
OrdersAgree ==
    serial =>
        /\ \A o \in Orders :
              /\ (/\ orderStatus[o] = "completed"
                  /\ \A r \in Requests : task[r].order # o)
                    => TicketsOf(o) \cap issued # {}
              /\ orderStatus[o] = "refunded"
                    => \A t \in TicketsOf(o) :
                          status[t] \notin {"held", "valid", "used"}
        /\ \A o, p \in Orders :
              (/\ method[o] = "stripe" /\ method[p] = "stripe"
               /\ orderStatus[o] # "none" /\ orderStatus[p] # "none"
               /\ SessionOf[o] = SessionOf[p]) => o = p

\* Every interleaving of the requests implements TicketLife: no late write of
\* a stale read puts a ticket back on sale or lets a closed one in again.
StageOf(s) == CASE s = "none"  -> "unissued"
                [] s = "held"  -> "reserved"
                [] s = "valid" -> "issued"
                [] OTHER       -> "closed"
Stage == [t \in Tickets |-> StageOf(status[t])]
Life == INSTANCE TicketLife WITH stage <- Stage
TicketsHaveOneLife == Life!Spec
=============================================================================

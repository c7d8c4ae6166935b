----------------------------- MODULE TicketLife -----------------------------
(***************************************************************************)
(* What an event promises about a ticket, whatever requests of buyers and  *)
(* organisers overlap: a ticket is issued once.  It is reserved or issued  *)
(* when it is created, a reservation may still be issued or given up, an   *)
(* issued ticket may be closed (used, refunded, cancelled), and a closed   *)
(* ticket is never issued or reserved again.                               *)
(***************************************************************************)
CONSTANT Tickets

VARIABLE stage

Stages == {"unissued", "reserved", "issued", "closed"}

Init == stage = [t \in Tickets |-> "unissued"]

\* Some tickets go to a stage, each from one of the stages before it.
Advance(from, to) ==
    /\ stage' \in [Tickets -> Stages]
    /\ \A t \in Tickets :
          stage'[t] # stage[t] => stage[t] \in from /\ stage'[t] = to

Reserve == Advance({"unissued"}, "reserved")
Issue   == Advance({"unissued", "reserved"}, "issued")
Close   == Advance({"reserved", "issued"}, "closed")

Next == Reserve \/ Issue \/ Close

Spec == Init /\ [][Next]_stage
=============================================================================

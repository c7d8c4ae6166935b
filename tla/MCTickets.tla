------------------------------ MODULE MCTickets ------------------------------
(***************************************************************************)
(* A type of two tickets and two purchases, one of two tickets and one of  *)
(* one, each made by any of the routes; if both are paid by Stripe they    *)
(* are the two answers to one session's webhook, delivered twice.          *)
(***************************************************************************)
EXTENDS Tickets, TLC

CONSTANTS t1, t2, t3, o1, o2, s1, r1, r2

MCOrderOf == (t1 :> o1) @@ (t2 :> o1) @@ (t3 :> o2)
MCSessionOf == (o1 :> s1) @@ (o2 :> s1)
Symmetries == Permutations(Requests) \cup Permutations({t1, t2})
=============================================================================

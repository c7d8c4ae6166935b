---------------------------- MODULE DecisionLife ----------------------------
(***************************************************************************)
(* What a confirm card promises about one question put to a person: it is  *)
(* answered once.  An answer may be withdrawn until it has been applied,   *)
(* a question nobody answers may expire, and nothing ever rewinds.         *)
(***************************************************************************)
VARIABLES
    stage,  \* where the question is
    answer  \* the answer that counts, "none" before there is one

life == <<stage, answer>>

Init == stage = "none" /\ answer = "none"

Raise == stage = "none" /\ stage' = "pending" /\ answer' = answer
Expire == stage = "pending" /\ stage' = "expired" /\ answer' = answer
Approve == stage = "pending" /\ stage' = "approved" /\ answer' = "approve"
Refuse == stage = "pending" /\ stage' \in {"denied", "rejected"} /\ answer' = "reject"
Withdraw == stage = "approved" /\ stage' = "withdrawn" /\ answer' = "withdrawn"
Apply == stage = "approved" /\ stage' = "applied" /\ answer' = answer

Next == Raise \/ Expire \/ Approve \/ Refuse \/ Withdraw \/ Apply

Spec == Init /\ [][Next]_life
=============================================================================

----------------------------- MODULE Decisions ------------------------------
(***************************************************************************)
(* One question put to a person on a confirm card: an operator approval    *)
(* (src/apps/kernel/src/lib/notify/operator-approvals-service.ts) or a     *)
(* consent request (.../consent-requests/consent-requests.ts).  A decision *)
(* reads the row, is signed, changes the row if its status is still what   *)
(* the decision requires, and is published whether it changed it or not.   *)
(* A consent request that is due expires when somebody looks at it; an     *)
(* approval is marked as applied by the plugin that raised it.             *)
(*                                                                         *)
(* Before some definitions stands a deliberately wrong variant, used       *)
(* nowhere in the modules; README.md, `Mutants', lists them.               *)
(***************************************************************************)
EXTENDS Integers, FiniteSets

CONSTANTS
    Requests,  \* HTTP requests, each of which makes one call of the services
    NoOne      \* in place of the request that decided, when none has

ASSUME DecisionsAssumption == NoOne \notin Requests

VARIABLES
    kind,      \* which table the question is in
    row,       \* its status, and whose decision it holds
    due,       \* the time to live of a consent request has passed
    signed,    \* requests with a row in consent_requests.decisions
    published, \* requests whose decision is on the bus
    pc,        \* where each request is
    verdict,   \* what each is deciding
    late,      \* history: those that read a request that was due
    took,      \* history: those whose update changed the row
    overlap    \* history: a request started before another had ended

vars == <<kind, row, due, signed, published, pc, verdict, late, took, overlap>>

Kinds == {"approval", "consent"}
Statuses == {"none", "pending", "approved", "denied", "rejected", "expired",
             "withdrawn", "applied"}
Decided == {"approved", "denied", "rejected", "withdrawn", "applied"}
Verdicts == {"approve", "reject", "withdrawn"}
PCs == {"idle", "raising", "expiring", "signing", "deciding", "publishing",
        "applying", "done"}

\* A row holds a decision from the moment on that it is decided.
TypeOK ==
    /\ kind \in Kinds
    /\ row \in [status : Statuses, by : Requests \cup {NoOne}]
    /\ row.by # NoOne <=> row.status \in Decided
    /\ due \in BOOLEAN
    /\ signed \subseteq Requests
    /\ published \subseteq Requests
    /\ pc \in [Requests -> PCs]
    /\ verdict \in [Requests -> Verdicts \cup {"none"}]
    /\ late \subseteq Requests
    /\ took \subseteq Requests
    /\ overlap \in BOOLEAN

Init ==
    /\ kind \in Kinds
    /\ row = [status |-> "none", by |-> NoOne]
    /\ due = FALSE
    /\ signed = {} /\ published = {}
    /\ pc = [r \in Requests |-> "idle"]
    /\ verdict = [r \in Requests |-> "none"]
    /\ late = {} /\ took = {}
    /\ overlap = FALSE

\* requiredStatusFor, nextStatusFor.
RequiredStatus(v) == IF v = "withdrawn" THEN "approved" ELSE "pending"
NextStatus(v) ==
    CASE v = "approve" -> "approved"
      [] v = "withdrawn" -> "withdrawn"
      [] OTHER -> IF kind = "approval" THEN "denied" ELSE "rejected"

At(r, where) == pc[r] = where
Goto(r, where) == pc' = [pc EXCEPT ![r] = where]
Busy(r) == pc[r] \notin {"idle", "done"}

\* A request makes its call and goes on to its first statement.
Start(r, where) ==
    /\ At(r, "idle")
    /\ Goto(r, where)
    /\ overlap' = (overlap \/ \E q \in Requests : Busy(q))

-----------------------------------------------------------------------------
(* Raising.                                                                *)

\* recordApprovalRequested; the plugin may send its proposal again.
ReadProposal(r) ==
    /\ kind = "approval"
    /\ Start(r, IF row.status = "none" THEN "raising" ELSE "done")
    /\ UNCHANGED <<kind, row, due, signed, published, verdict, late, took>>

\* Wrong: the upsert refreshes the status too.
UpsertProposal(r) ==
    /\ At(r, "raising")
    /\ row' = [status |-> "pending", by |-> NoOne]
    /\ Goto(r, "done")
    /\ UNCHANGED <<kind, due, signed, published, verdict, late, took, overlap>>
\* The proposal's id is the key: a second insert is an error.
InsertProposal(r) ==
    /\ At(r, "raising")
    /\ row' = IF row.status = "none" THEN [row EXCEPT !.status = "pending"] ELSE row
    /\ Goto(r, "done")
    /\ UNCHANGED <<kind, due, signed, published, verdict, late, took, overlap>>

\* raiseConsentRequest gives every request an id of its own.
RaiseConsentRequest(r) ==
    /\ kind = "consent"
    /\ row.status = "none"
    /\ row' = [row EXCEPT !.status = "pending"]
    /\ Start(r, "done")
    /\ UNCHANGED <<kind, due, signed, published, verdict, late, took>>

-----------------------------------------------------------------------------
(* Expiry.                                                                 *)

Lapse ==
    /\ kind = "consent" /\ row.status # "none"
    /\ due' = TRUE
    /\ UNCHANGED <<kind, row, signed, published, pc, verdict, late, took, overlap>>

\* getConsentRequestCard, listConsentRequestCards: only what is due is written.
ReadCard(r) ==
    /\ kind = "consent" /\ row.status = "pending" /\ due
    /\ Start(r, "expiring")
    /\ UNCHANGED <<kind, row, due, signed, published, verdict, late, took>>

\* expireIfDue.
Expire(r) ==
    /\ At(r, "expiring")
    /\ row' = IF row.status = "pending" THEN [row EXCEPT !.status = "expired"] ELSE row
    /\ Goto(r, "done")
    /\ UNCHANGED <<kind, due, signed, published, verdict, late, took, overlap>>

-----------------------------------------------------------------------------
(* Deciding.                                                               *)

\* Wrong: the time to live is left to the readers.
DecideWhenever(r, v) ==
    /\ kind = "consent" => v # "withdrawn"
    /\ row.status = RequiredStatus(v)
    /\ verdict' = [verdict EXCEPT ![r] = v]
    /\ late' = IF due THEN late \cup {r} ELSE late
    /\ Start(r, IF kind = "approval" THEN "deciding" ELSE "signing")
    /\ UNCHANGED <<kind, row, due, signed, published, took>>
\* Wrong: only the guarded update knows the status.
DecideUnread(r, v) ==
    /\ kind = "consent" => v # "withdrawn"
    /\ verdict' = [verdict EXCEPT ![r] = v]
    /\ late' = IF due THEN late \cup {r} ELSE late
    /\ Start(r, IF kind = "approval" THEN "deciding" ELSE IF due THEN "expiring" ELSE "signing")
    /\ UNCHANGED <<kind, row, due, signed, published, took>>
\* decideOperatorApproval, decideConsentRequest: a question that does not await
\* this decision is refused; a request that is due expires instead.
Decide(r, v) ==
    /\ kind = "consent" => v # "withdrawn"
    /\ row.status = RequiredStatus(v)
    /\ verdict' = [verdict EXCEPT ![r] = v]
    /\ late' = IF due THEN late \cup {r} ELSE late
    /\ Start(r, IF kind = "approval" THEN "deciding" ELSE IF due THEN "expiring" ELSE "signing")
    /\ UNCHANGED <<kind, row, due, signed, published, took>>

\* The signed decision has a row of its own, before the request is resolved.
InsertDecision(r) ==
    /\ At(r, "signing")
    /\ signed' = signed \cup {r}
    /\ Goto(r, "deciding")
    /\ UNCHANGED <<kind, row, due, published, verdict, late, took, overlap>>

\* Wrong: the status moves without the decision.
UpdateStatusOnly(r) ==
    /\ At(r, "deciding")
    /\ IF row.status = RequiredStatus(verdict[r])
         THEN row' = [row EXCEPT !.status = NextStatus(verdict[r])] /\ took' = took \cup {r}
         ELSE UNCHANGED <<row, took>>
    /\ Goto(r, "publishing")
    /\ UNCHANGED <<kind, due, signed, published, verdict, late, overlap>>
\* The guarded update.  How many rows it changed is not looked at.
UpdateRow(r) ==
    /\ At(r, "deciding")
    /\ IF row.status = RequiredStatus(verdict[r])
         THEN row' = [status |-> NextStatus(verdict[r]), by |-> r] /\ took' = took \cup {r}
         ELSE UNCHANGED <<row, took>>
    /\ Goto(r, "publishing")
    /\ UNCHANGED <<kind, due, signed, published, verdict, late, overlap>>

PublishDecision(r) ==
    /\ At(r, "publishing")
    /\ published' = published \cup {r}
    /\ Goto(r, "done")
    /\ UNCHANGED <<kind, row, due, signed, verdict, late, took, overlap>>

-----------------------------------------------------------------------------
(* Applying.                                                               *)

\* markApplied, called by the plugin, which may call it again.
ReadApproved(r) ==
    /\ kind = "approval" /\ row.status = "approved"
    /\ Start(r, "applying")
    /\ UNCHANGED <<kind, row, due, signed, published, verdict, late, took>>

WriteApplied(r) ==
    /\ At(r, "applying")
    /\ row' = IF row.status = "approved" THEN [row EXCEPT !.status = "applied"] ELSE row
    /\ Goto(r, "done")
    /\ UNCHANGED <<kind, due, signed, published, verdict, late, took, overlap>>

\* The process dies, or a statement or the publication fails.
Die(r) ==
    /\ Busy(r)
    /\ Goto(r, "done")
    /\ UNCHANGED <<kind, row, due, signed, published, verdict, late, took, overlap>>

-----------------------------------------------------------------------------
Ask(r) == ReadProposal(r) \/ InsertProposal(r) \/ RaiseConsentRequest(r)
Answer(r) ==
    \/ \E v \in Verdicts : Decide(r, v)
    \/ InsertDecision(r) \/ UpdateRow(r) \/ PublishDecision(r)
Close(r) == ReadCard(r) \/ Expire(r) \/ ReadApproved(r) \/ WriteApplied(r)

Next == Lapse \/ \E r \in Requests : Ask(r) \/ Answer(r) \/ Close(r) \/ Die(r)

Spec == Init /\ [][Next]_vars

-----------------------------------------------------------------------------
(* Properties.                                                             *)

\* Whoever dies in between, a row that has been decided holds the decision its
\* status says, and for a consent request there is a signed row of it.
RowHoldsItsDecision ==
    row.by # NoOne =>
        /\ row.status = NextStatus(verdict[row.by])
           \/ (row.status = "applied" /\ verdict[row.by] = "approve")
        /\ kind = "consent" => row.by \in signed

\* A decision that counts was taken in time, however late it reaches the row.
DecidedInTime == row.by \notin late

\* As long as no two requests overlap, only a decision that counts is published.
PublishedStands == ~overlap => published \subseteq took

Verdict == IF row.by = NoOne THEN "none" ELSE verdict[row.by]
Life == INSTANCE DecisionLife WITH stage <- row.status, answer <- Verdict

\* However decisions, expiry, the plugin and its retries overlap, the question is
\* answered once and nothing rewinds.
DecisionsHaveOneLife == Life!Spec
=============================================================================

------------------------------ MODULE Withdraw ------------------------------
(***************************************************************************)
(* A withdrawal of ledger balance to an external payment rail, with        *)
(* everything that may touch the same withdrawal intent at the same time:  *)
(*                                                                         *)
(*   - the route's process: reserve -> rail call -> confirm, or release    *)
(*     when anything after the reservation throws (withdraw-intent.ts);    *)
(*   - the rail: one transfer per idempotency key, a request that may be   *)
(*     accepted after the caller has given up on it (stripe-withdraw-rail);*)
(*   - the rail's webhook, delivered up to MaxDeliveries times, each       *)
(*     delivery reading the intent row before it acts on what it read;     *)
(*   - the reconciliation sweep, which lists the rail's transfers since a  *)
(*     watermark and attests discrepancies (reconciliation.ts).            *)
(*                                                                         *)
(* Each database transaction, each statement outside one, and each call to *)
(* the rail or to the bus is one action.  `Faults' names the failures the  *)
(* environment may produce.                                                *)
(*                                                                         *)
(* Before some definitions stands a deliberately wrong variant, used       *)
(* nowhere in the modules; README.md, `Mutants', lists them.               *)
(***************************************************************************)
EXTENDS Integers, FiniteSets, FiniteSetsExt, Functions

CONSTANTS Intents,        \* withdrawal requests, each is one POST of the route
          NoIntent,       \* not an intent
          Dids,           \* ledger accounts
          Owner,          \* [Intents -> Dids]
          Amount,         \* [Intents -> positive amount]
          InitialBalance, \* [Dids -> Nat]
          Timeout,        \* releaseTimeoutMs(), in clock ticks
          MaxCall,        \* ticks from reservation to the rail's last chance to accept
          MaxDeliveries,  \* bound: webhook deliveries of one transfer.created event
          PageLimit,      \* `limit: 100' of transfers.list
          MaxTime,        \* bound on the clock
          Faults          \* subset of FaultKinds

FaultKinds == {"crash", "ambiguous", "confirm_fails", "release_fails",
               "dedup_fails", "publish_fails", "sweep_fails"}

ASSUME ConstantsAssumption ==
    /\ IsFiniteSet(Intents) /\ NoIntent \notin Intents
    /\ Owner \in [Intents -> Dids]
    /\ Amount \in [Intents -> Nat \ {0}]
    /\ InitialBalance \in [Dids -> Nat]
    /\ Timeout \in Nat \ {0}
    /\ MaxCall \in Nat
    /\ MaxDeliveries \in Nat
    /\ PageLimit \in Nat \ {0}
    /\ MaxTime \in Nat
    /\ Faults \subseteq FaultKinds

VARIABLES
    now,        \* the clock shared by the database, the rail and the sweep
    balance,    \* pay.balances: the MJN row of each DID
    status,     \* pay.withdrawal_intents.status, "none" before the insert
    createdAt,  \* pay.withdrawal_intents.created_at
    receipts,   \* number of `withdrawal' rows of the intent in pay.transactions
    releases,   \* number of `withdrawal_release' rows of the intent
    route,      \* where the request's process is
    inFlight,   \* the rail has the request and has not decided it
    transfer,   \* when the rail created the transfer, or NoTransfer
    hook,       \* what each webhook delivery is about to do
    sweep,      \* the sweep's local variables
    watermark,  \* pay.reconciliation_watermarks of the rail
    attested    \* the discrepancy attestations in auth.attestations

ledgerVars == <<balance, status, createdAt, receipts, releases>>
railVars   == <<inFlight, transfer>>
sweepVars  == <<sweep, watermark>>
vars == <<now, ledgerVars, route, railVars, hook, sweepVars, attested>>

-----------------------------------------------------------------------------
(* Types.                                                                  *)

NoTransfer == -1

Statuses    == {"none", "pending", "completed", "failed"}
RouteStates == {"idle", "reserved", "calling", "executed", "threw", "done"}
HookStates  == {"idle", "confirm", "refuse", "publish", "done"}
SweepStates == {"idle", "list", "match", "transfers", "publish_transfer",
                "pending", "intents", "publish_intent", "advance"}
Buckets     == {"external_without_ledger", "pending_timeout",
                "external_completed_after_release"}
BySweep     == 0
Emitters    == {BySweep} \cup (1..MaxDeliveries)
Attestation == [intent : Intents, bucket : Buckets, by : Emitters]
Deliveries  == 1..MaxDeliveries

Sweep == [pc        : SweepStates,
          startedAt : Nat,            \* runStartedAt
          since     : Nat,            \* the watermark the run read
          matched   : SUBSET Intents, \* ids of the completed intents it read
          todo      : SUBSET Intents, \* transfers, then intents, still to classify
          target    : Intents \cup {NoIntent}] \* what is about to be published

TypeOK ==
    /\ now \in Nat
    /\ balance \in [Dids -> Int]
    /\ status \in [Intents -> Statuses]
    /\ createdAt \in [Intents -> Nat]
    /\ receipts \in [Intents -> Nat]
    /\ releases \in [Intents -> Nat]
    /\ route \in [Intents -> RouteStates]
    /\ inFlight \in [Intents -> BOOLEAN]
    /\ transfer \in [Intents -> Nat \cup {NoTransfer}]
    /\ hook \in [Intents -> [Deliveries -> HookStates]]
    /\ sweep \in Sweep
    /\ sweep.pc \in {"publish_transfer", "publish_intent"} => sweep.target \in Intents
    /\ watermark \in Nat
    /\ attested \subseteq Attestation

Init ==
    /\ now = 0
    /\ balance = InitialBalance
    /\ status = [i \in Intents |-> "none"]
    /\ createdAt = [i \in Intents |-> 0]
    /\ receipts = [i \in Intents |-> 0]
    /\ releases = [i \in Intents |-> 0]
    /\ route = [i \in Intents |-> "idle"]
    /\ inFlight = [i \in Intents |-> FALSE]
    /\ transfer = [i \in Intents |-> NoTransfer]
    /\ hook = [i \in Intents |-> [k \in Deliveries |-> "idle"]]
    /\ sweep = [pc |-> "idle", startedAt |-> 0, since |-> 0, matched |-> {},
                todo |-> {}, target |-> NoIntent]
    /\ watermark = 0
    /\ attested = {}

-----------------------------------------------------------------------------
(* The two transactions that end an intent.  Both update the row by id     *)
(* alone: neither looks at the status it overwrites.                       *)

ConfirmWithdrawal(i) ==
    /\ status' = [status EXCEPT ![i] = "completed"]
    /\ receipts' = [receipts EXCEPT ![i] = @ + 1]
    /\ UNCHANGED <<balance, createdAt, releases>>

ReleaseWithoutRow(i) ==
    /\ status' = [status EXCEPT ![i] = "failed"]
    /\ balance' = [balance EXCEPT ![Owner[i]] = @ + Amount[i]]
    /\ UNCHANGED <<createdAt, receipts, releases>>

ReleaseWithdrawal(i) ==
    /\ status' = [status EXCEPT ![i] = "failed"]
    /\ balance' = [balance EXCEPT ![Owner[i]] = @ + Amount[i]]
    /\ releases' = [releases EXCEPT ![i] = @ + 1]
    /\ UNCHANGED <<createdAt, receipts>>

-----------------------------------------------------------------------------
(* The route.                                                              *)

\* The WHERE clause of debitUnitIfSufficient.
Covered(i) == balance[Owner[i]] >= Amount[i]

\* reserveWithdrawal: the guarded debit and the intent insert, one transaction.
Reserve(i) ==
    /\ route[i] = "idle"
    /\ Covered(i)
    /\ balance' = [balance EXCEPT ![Owner[i]] = @ - Amount[i]]
    /\ status' = [status EXCEPT ![i] = "pending"]
    /\ createdAt' = [createdAt EXCEPT ![i] = now]
    /\ route' = [route EXCEPT ![i] = "reserved"]
    /\ UNCHANGED <<now, receipts, releases, railVars, hook, sweepVars, attested>>

\* The guard matched no row: InsufficientBalanceError, 402, nothing written.
RejectInsufficient(i) ==
    /\ route[i] = "idle"
    /\ ~Covered(i)
    /\ route' = [route EXCEPT ![i] = "done"]
    /\ UNCHANGED <<now, ledgerVars, railVars, hook, sweepVars, attested>>

\* rail.execute sends the request.
CallRail(i) ==
    /\ route[i] = "reserved"
    /\ route' = [route EXCEPT ![i] = "calling"]
    /\ inFlight' = [inFlight EXCEPT ![i] = TRUE]
    /\ UNCHANGED <<now, ledgerVars, transfer, hook, sweepVars, attested>>

\* rail.execute returns the transfer's id.
RailReturnsUnchecked(i) ==
    /\ route[i] = "calling"
    /\ route' = [route EXCEPT ![i] = "executed"]
    /\ UNCHANGED <<now, ledgerVars, railVars, hook, sweepVars, attested>>

RailReturns(i) ==
    /\ route[i] = "calling"
    /\ transfer[i] # NoTransfer
    /\ route' = [route EXCEPT ![i] = "executed"]
    /\ UNCHANGED <<now, ledgerVars, railVars, hook, sweepVars, attested>>

\* rail.execute throws: the rail refused, or (ambiguous) the connection failed
\* and says nothing of what the rail did or will do with the request.
RailThrows(i) ==
    /\ route[i] = "calling"
    /\ \/ ~inFlight[i] /\ transfer[i] = NoTransfer
       \/ "ambiguous" \in Faults
    /\ route' = [route EXCEPT ![i] = "threw"]
    /\ UNCHANGED <<now, ledgerVars, railVars, hook, sweepVars, attested>>

\* confirmWithdrawal, and the response.
RouteConfirmsThenThrows(i) ==
    /\ route[i] = "executed"
    /\ ConfirmWithdrawal(i)
    /\ route' = [route EXCEPT ![i] = "threw"]
    /\ UNCHANGED <<now, railVars, hook, sweepVars, attested>>

RouteConfirms(i) ==
    /\ route[i] = "executed"
    /\ ConfirmWithdrawal(i)
    /\ route' = [route EXCEPT ![i] = "done"]
    /\ UNCHANGED <<now, railVars, hook, sweepVars, attested>>

\* confirmWithdrawal throws inside the same try block as the rail call.
RouteConfirmThrows(i) ==
    /\ "confirm_fails" \in Faults
    /\ route[i] = "executed"
    /\ route' = [route EXCEPT ![i] = "threw"]
    /\ UNCHANGED <<now, ledgerVars, railVars, hook, sweepVars, attested>>

\* The catch block.
RouteReleasesAndRetries(i) ==
    /\ route[i] = "threw"
    /\ ReleaseWithdrawal(i)
    /\ UNCHANGED <<now, route, railVars, hook, sweepVars, attested>>

RouteReleases(i) ==
    /\ route[i] = "threw"
    /\ ReleaseWithdrawal(i)
    /\ route' = [route EXCEPT ![i] = "done"]
    /\ UNCHANGED <<now, railVars, hook, sweepVars, attested>>

\* The release fails too: logged, and the intent is left as it is.
RouteReleaseThrows(i) ==
    /\ "release_fails" \in Faults
    /\ route[i] = "threw"
    /\ route' = [route EXCEPT ![i] = "done"]
    /\ UNCHANGED <<now, ledgerVars, railVars, hook, sweepVars, attested>>

\* The server process dies; what it had committed or sent stays.
RouteCrashes(i) ==
    /\ "crash" \in Faults
    /\ route[i] \in {"reserved", "calling", "executed", "threw"}
    /\ route' = [route EXCEPT ![i] = "done"]
    /\ UNCHANGED <<now, ledgerVars, railVars, hook, sweepVars, attested>>

-----------------------------------------------------------------------------
(* The rail.  The idempotency key is the intent id, so an intent has at    *)
(* most one transfer.                                                      *)

RailAccepts(i) ==
    /\ inFlight[i]
    /\ inFlight' = [inFlight EXCEPT ![i] = FALSE]
    /\ transfer' = [transfer EXCEPT ![i] = now]
    /\ UNCHANGED <<now, ledgerVars, route, hook, sweepVars, attested>>

RailRefuses(i) ==
    /\ inFlight[i]
    /\ inFlight' = [inFlight EXCEPT ![i] = FALSE]
    /\ UNCHANGED <<now, ledgerVars, route, transfer, hook, sweepVars, attested>>

\* What transfers.list returns of S: the newest PageLimit of its transfers.
Pages(S) ==
    {P \in SUBSET S :
        /\ Cardinality(P) = IF Cardinality(S) <= PageLimit
                            THEN Cardinality(S) ELSE PageLimit
        /\ \A p \in P, q \in S \ P : transfer[q] <= transfer[p]}

\* The intents whose transfers were created at or after t.
TransfersSince(t) == {i \in Intents : transfer[i] # NoTransfer /\ transfer[i] >= t}

\* hasExistingDiscrepancyAttestation: by intent id, whatever the bucket.
AlreadyAttested(i) == \E a \in attested : a.intent = i

\* What the dedup query may answer: a query that fails reads as `no'.
DedupAnswers(i) ==
    {AlreadyAttested(i)} \cup (IF "dedup_fails" \in Faults THEN {FALSE} ELSE {})

-----------------------------------------------------------------------------
(* The webhook, confirmWithdrawalFromRailEvent.                            *)

HookStep(i, k, from, to) ==
    /\ hook[i][k] = from
    /\ hook' = [hook EXCEPT ![i][k] = to]

\* The event arrives and the handler reads the intent row.
HookReads(i, k) ==
    /\ transfer[i] # NoTransfer
    /\ \/ status[i] = "completed" /\ HookStep(i, k, "idle", "done")
       \/ status[i] = "failed"    /\ HookStep(i, k, "idle", "refuse")
       \/ status[i] = "pending"   /\ HookStep(i, k, "idle", "confirm")
    /\ UNCHANGED <<now, ledgerVars, route, railVars, sweepVars, attested>>

\* It read `pending': confirmWithdrawal, whatever the row has become since.
HookConfirms(i, k) ==
    /\ HookStep(i, k, "confirm", "done")
    /\ ConfirmWithdrawal(i)
    /\ UNCHANGED <<now, route, railVars, sweepVars, attested>>

\* It read `failed': the dedup query of emitReconciliationDiscrepancy.
HookChecks(i, k) ==
    /\ \E seen \in DedupAnswers(i) :
         HookStep(i, k, "refuse", IF seen THEN "done" ELSE "publish")
    /\ UNCHANGED <<now, ledgerVars, route, railVars, sweepVars, attested>>

HookPublishes(i, k) ==
    /\ HookStep(i, k, "publish", "done")
    /\ attested' = attested \cup
         {[intent |-> i, bucket |-> "external_completed_after_release", by |-> k]}
    /\ UNCHANGED <<now, ledgerVars, route, railVars, sweepVars>>

\* The handler dies or its transaction throws (the rail may deliver again),
\* or the publish fails, which is logged and not retried.
HookGivesUp(i, k) ==
    /\ \/ "crash" \in Faults /\ hook[i][k] \in {"confirm", "refuse", "publish"}
       \/ "publish_fails" \in Faults /\ hook[i][k] = "publish"
    /\ hook' = [hook EXCEPT ![i][k] = "done"]
    /\ UNCHANGED <<now, ledgerVars, route, railVars, sweepVars, attested>>

-----------------------------------------------------------------------------
(* The reconciliation sweep, runReconciliation for one rail.               *)

SweepFrame == UNCHANGED <<now, ledgerVars, route, railVars, hook>>

\* runStartedAt and getWatermark.
SweepStarts ==
    /\ sweep.pc = "idle"
    /\ sweep' = [sweep EXCEPT !.pc = "list", !.startedAt = now, !.since = watermark]
    /\ UNCHANGED <<watermark, attested>> /\ SweepFrame

\* classifyTransfers: rail.list since the watermark.
SweepLists ==
    /\ sweep.pc = "list"
    /\ \E feed \in Pages(TransfersSince(sweep.since)) :
         sweep' = [sweep EXCEPT !.pc = IF feed = {} THEN "pending" ELSE "match",
                                !.todo = feed]
    /\ UNCHANGED <<watermark, attested>> /\ SweepFrame

\* classifyTransfers: the completed intents, read after the list.
SweepReadsCompleted ==
    /\ sweep.pc = "match"
    /\ sweep' = [sweep EXCEPT !.pc = "transfers",
                              !.matched = {i \in Intents : status[i] = "completed"}]
    /\ UNCHANGED <<watermark, attested>> /\ SweepFrame

\* One transfer: matched, or already attested, or about to be published.
SweepClassifiesTransfer(i) ==
    /\ sweep.pc = "transfers"
    /\ i \in sweep.todo
    /\ \E seen \in DedupAnswers(i) :
         sweep' = IF i \in sweep.matched \/ seen
                  THEN [sweep EXCEPT !.todo = @ \ {i}]
                  ELSE [sweep EXCEPT !.todo = @ \ {i}, !.target = i,
                                     !.pc = "publish_transfer"]
    /\ UNCHANGED <<watermark, attested>> /\ SweepFrame

\* classifyPendingIntents: the pending intents, once the transfers are done.
SweepReadsPending ==
    /\ \/ sweep.pc = "pending"
       \/ sweep.pc = "transfers" /\ sweep.todo = {}
    /\ sweep' = [sweep EXCEPT !.pc = "intents", !.matched = {},
                              !.todo = {i \in Intents : status[i] = "pending"}]
    /\ UNCHANGED <<watermark, attested>> /\ SweepFrame

\* The run started less than the release timeout after the intent's creation.
WithinGraceNever(i) == FALSE
WithinGrace(i) == sweep.startedAt - createdAt[i] < Timeout

\* One pending intent: within its grace period, or the rail has its transfer,
\* or already attested, or about to be published.
SweepClassifiesPending(i) ==
    /\ sweep.pc = "intents"
    /\ i \in sweep.todo
    /\ \/ /\ WithinGrace(i)
          /\ sweep' = [sweep EXCEPT !.todo = @ \ {i}]
       \/ /\ ~WithinGrace(i)
          /\ \E page \in Pages(TransfersSince(createdAt[i])), seen \in DedupAnswers(i) :
               sweep' = IF i \in page \/ seen
                        THEN [sweep EXCEPT !.todo = @ \ {i}]
                        ELSE [sweep EXCEPT !.todo = @ \ {i}, !.target = i,
                                           !.pc = "publish_intent"]
    /\ UNCHANGED <<watermark, attested>> /\ SweepFrame

\* publish succeeds, or fails (or is skipped: no PLATFORM_DID) and is only logged.
SweepPublishes(pc, next, bucket) ==
    /\ sweep.pc = pc
    /\ \/ attested' = attested \cup
            {[intent |-> sweep.target, bucket |-> bucket, by |-> BySweep]}
       \/ "publish_fails" \in Faults /\ UNCHANGED attested
    /\ sweep' = [sweep EXCEPT !.pc = next, !.target = NoIntent]
    /\ UNCHANGED watermark /\ SweepFrame

SweepPublishesTransfer ==
    SweepPublishes("publish_transfer", "transfers", "external_without_ledger")
SweepPublishesPending ==
    SweepPublishes("publish_intent", "intents", "pending_timeout")

\* setWatermark to the instant the run started at.
WatermarkOneBehind == sweep.startedAt - 1
WatermarkAtTheEnd == now
NewWatermark == sweep.startedAt

SweepAdvances ==
    /\ sweep.pc = "intents" /\ sweep.todo = {}
    /\ watermark' = NewWatermark
    /\ sweep' = [sweep EXCEPT !.pc = "idle"]
    /\ UNCHANGED attested /\ SweepFrame

\* rail.list or a query throws, or the process dies: the run ends and the
\* watermark stays.
SweepFails ==
    /\ "sweep_fails" \in Faults
    /\ sweep.pc # "idle"
    /\ sweep' = [sweep EXCEPT !.pc = "idle", !.matched = {}, !.todo = {},
                              !.target = NoIntent]
    /\ UNCHANGED <<watermark, attested>> /\ SweepFrame

-----------------------------------------------------------------------------
\* Time passes, but not past the instant by which the rail has decided a request.
Tick ==
    /\ now < MaxTime
    /\ \A i \in Intents :
         inFlight[i] \/ route[i] \in {"reserved", "calling"} => now < createdAt[i] + MaxCall
    /\ now' = now + 1
    /\ UNCHANGED <<ledgerVars, route, railVars, hook, sweepVars, attested>>

Route(i) ==
    \/ Reserve(i) \/ RejectInsufficient(i)
    \/ CallRail(i) \/ RailReturns(i) \/ RailThrows(i)
    \/ RouteConfirms(i) \/ RouteConfirmThrows(i)
    \/ RouteReleases(i) \/ RouteReleaseThrows(i) \/ RouteCrashes(i)

Rail(i) == RailAccepts(i) \/ RailRefuses(i)

Hook(i, k) ==
    \/ HookReads(i, k) \/ HookConfirms(i, k)
    \/ HookChecks(i, k) \/ HookPublishes(i, k) \/ HookGivesUp(i, k)

Reconcile ==
    \/ SweepStarts \/ SweepLists \/ SweepReadsCompleted
    \/ \E i \in Intents : SweepClassifiesTransfer(i)
    \/ SweepReadsPending
    \/ \E i \in Intents : SweepClassifiesPending(i)
    \/ SweepPublishesTransfer \/ SweepPublishesPending
    \/ SweepAdvances

Next ==
    \/ \E i \in Intents : Route(i) \/ Rail(i)
    \/ \E i \in Intents, k \in Deliveries : Hook(i, k)
    \/ Reconcile
    \/ SweepFails
    \/ Tick

Spec == Init /\ [][Next]_vars

\* The cron endpoint is called again and again and each run goes on to its end.
FairSpec == Spec /\ WF_vars(Reconcile)
-----------------------------------------------------------------------------
(* Properties.                                                             *)

\* A balance is never driven below zero, however many withdrawals of the same
\* DID interleave: the sufficiency check is part of the debit.
NonNegative == \A d \in Dids : balance[d] >= 0

\* The amounts of the intents of d whose reservation is not returned.
Outstanding(d) ==
    SumFunctionOnSet([i \in Intents |-> Amount[i] * (1 - releases[i])],
                     {i \in Intents : Owner[i] = d /\ status[i] # "none"})

\* Every unit that left a balance is held by an intent or was sent, and every
\* unit that came back has a release row: the ledger can be audited from its
\* rows through any crash, failed confirmation or duplicate delivery.
Conservation == \A d \in Dids : balance[d] + Outstanding(d) = InitialBalance[d]

\* An intent is recorded as paid, in its status or by a receipt, only if the
\* rail has a transfer for it.
CompletedIsBacked ==
    \A i \in Intents :
        status[i] = "completed" \/ receipts[i] > 0 => transfer[i] # NoTransfer

\* A reservation is returned at most once.
ReleasedOnce == \A i \in Intents : releases[i] <= 1

\* `pending_timeout' is the bucket an operator may act on by returning the
\* reservation: no transfer exists for such an intent, and none can appear.
SafeBucketIsSafe ==
    \A a \in attested : a.bucket = "pending_timeout" =>
        /\ transfer[a.intent] = NoTransfer
        /\ ~inFlight[a.intent]
        /\ route[a.intent] \notin {"reserved", "calling"}

\* Money returned to the balance has not left through the rail and will not.
NoDoublePayout ==
    \A i \in Intents : releases[i] > 0 => transfer[i] = NoTransfer /\ ~inFlight[i]

\* A transfer whose intent is still pending (the process died between the rail
\* call and the confirmation) is confirmed by the webhook, released by the
\* route, or reported by the sweep as external_without_ledger.
Reported(i, bucket) == \E a \in attested : a.intent = i /\ a.bucket = bucket
StrandedTransferIsReported ==
    \A i \in Intents :
        transfer[i] # NoTransfer /\ status[i] = "pending"
            ~> status[i] # "pending" \/ Reported(i, "external_without_ledger")

=============================================================================

--------------------------- MODULE WithdrawProofs ---------------------------
(***************************************************************************)
(* Theorems about Withdraw, for every set of intents and accounts, every   *)
(* amount, every clock bound and every number of webhook deliveries: money *)
(* is conserved, nothing is completed without a transfer, released twice   *)
(* or, where the rail answers in time, paid after it was given up.         *)
(***************************************************************************)
EXTENDS Withdraw, FiniteSetTheorems, TLAPS

USE DEF ledgerVars, railVars, sweepVars, SweepFrame

-----------------------------------------------------------------------------
(* Type correctness.                                                       *)

\* A page is a set of intents.
LEMMA PageOfIntents ==
    ASSUME NEW S \in SUBSET Intents, NEW page \in Pages(S)
    PROVE  page \in SUBSET Intents
BY DEF Pages

LEMMA HookStepType ==
    ASSUME TypeOK, NEW i \in Intents, NEW k \in Deliveries,
           NEW from \in HookStates, NEW to \in HookStates, HookStep(i, k, from, to)
    PROVE  hook' \in [Intents -> [Deliveries -> HookStates]]
BY DEF TypeOK, HookStep

\* The steps of a request's process and of the rail keep the types.
LEMMA RouteType ==
    ASSUME TypeOK, NEW i \in Intents, Route(i) \/ Rail(i)
    PROVE  TypeOK'
<1>a. Owner[i] \in Dids /\ Amount[i] \in Nat
  BY ConstantsAssumption
<1>b. NoTransfer \in Int
  BY DEF NoTransfer
<1>1. CASE Reserve(i)
  BY <1>1, <1>a DEF Reserve, TypeOK, Statuses, RouteStates
<1>2. CASE RejectInsufficient(i)
  BY <1>2 DEF RejectInsufficient, TypeOK, RouteStates
<1>3. CASE CallRail(i)
  BY <1>3 DEF CallRail, TypeOK, RouteStates
<1>4. CASE RailReturns(i)
  BY <1>4 DEF RailReturns, TypeOK, RouteStates
<1>5. CASE RailThrows(i)
  BY <1>5 DEF RailThrows, TypeOK, RouteStates
<1>6. CASE RouteConfirms(i)
  BY <1>6 DEF RouteConfirms, ConfirmWithdrawal, TypeOK, RouteStates, Statuses
<1>7. CASE RouteConfirmThrows(i)
  BY <1>7 DEF RouteConfirmThrows, TypeOK, RouteStates
<1>8. CASE RouteReleases(i)
  BY <1>8, <1>a DEF RouteReleases, ReleaseWithdrawal, TypeOK, RouteStates, Statuses
<1>9. CASE RouteReleaseThrows(i)
  BY <1>9 DEF RouteReleaseThrows, TypeOK, RouteStates
<1>10. CASE RouteCrashes(i)
  BY <1>10 DEF RouteCrashes, TypeOK, RouteStates
<1>11. CASE RailAccepts(i)
  BY <1>11 DEF RailAccepts, TypeOK
<1>12. CASE RailRefuses(i)
  BY <1>12 DEF RailRefuses, TypeOK
<1> QED
  BY <1>1, <1>2, <1>3, <1>4, <1>5, <1>6, <1>7, <1>8, <1>9, <1>10, <1>11, <1>12
  DEF Route, Rail

\* The steps of a webhook delivery keep the types.
LEMMA HookType ==
    ASSUME TypeOK, NEW i \in Intents, NEW k \in Deliveries, Hook(i, k)
    PROVE  TypeOK'
<1>1. CASE HookReads(i, k)
  <2>1. hook' \in [Intents -> [Deliveries -> HookStates]]
    BY <1>1, HookStepType DEF HookReads, HookStates
  <2> QED BY <1>1, <2>1 DEF HookReads, TypeOK
<1>2. CASE HookConfirms(i, k)
  <2>1. hook' \in [Intents -> [Deliveries -> HookStates]]
    BY <1>2, HookStepType DEF HookConfirms, HookStates
  <2>2. /\ status' \in [Intents -> Statuses]
        /\ receipts' \in [Intents -> Nat]
        /\ UNCHANGED <<balance, createdAt, releases, now, route, inFlight,
                      transfer, sweep, watermark, attested>>
    BY <1>2 DEF HookConfirms, ConfirmWithdrawal, TypeOK, Statuses
  <2> QED BY <2>1, <2>2 DEF TypeOK
<1>3. CASE HookChecks(i, k)
  <2>1. hook' \in [Intents -> [Deliveries -> HookStates]]
    BY <1>3, HookStepType DEF HookChecks, HookStates
  <2> QED BY <1>3, <2>1 DEF HookChecks, TypeOK
<1>4. CASE HookPublishes(i, k)
  <2>1. hook' \in [Intents -> [Deliveries -> HookStates]]
    BY <1>4, HookStepType DEF HookPublishes, HookStates
  <2>2. [intent |-> i, bucket |-> "external_completed_after_release", by |-> k]
            \in Attestation
    BY DEF Attestation, Buckets, Emitters, Deliveries
  <2> QED BY <1>4, <2>1, <2>2 DEF HookPublishes, TypeOK
<1>5. CASE HookGivesUp(i, k)
  BY <1>5 DEF HookGivesUp, TypeOK, HookStates
<1> QED BY <1>1, <1>2, <1>3, <1>4, <1>5 DEF Hook

\* The steps of the sweep keep the types.
LEMMA SweepType ==
    ASSUME TypeOK, Reconcile \/ SweepFails
    PROVE  TypeOK'
<1> USE DEF TypeOK, Sweep, SweepStates
<1>1. CASE SweepStarts
  BY <1>1 DEF SweepStarts
<1>2. CASE SweepLists
  <2>1. PICK feed \in Pages(TransfersSince(sweep.since)) :
          sweep' = [sweep EXCEPT !.pc = IF feed = {} THEN "pending" ELSE "match",
                                 !.todo = feed]
    BY <1>2 DEF SweepLists
  <2>2. feed \in SUBSET Intents
    BY PageOfIntents DEF TransfersSince
  <2> QED BY <1>2, <2>1, <2>2 DEF SweepLists
<1>3. CASE SweepReadsCompleted
  BY <1>3 DEF SweepReadsCompleted
<1>4. ASSUME NEW i \in Intents, SweepClassifiesTransfer(i)
      PROVE  TypeOK'
  <2>1. \/ sweep' = [sweep EXCEPT !.todo = @ \ {i}]
        \/ sweep' = [sweep EXCEPT !.todo = @ \ {i}, !.target = i,
                                  !.pc = "publish_transfer"]
    BY <1>4 DEF SweepClassifiesTransfer
  <2>2. sweep.pc = "transfers"
    BY <1>4 DEF SweepClassifiesTransfer
  <2>3. sweep' \in Sweep
    <3> HIDE DEF TypeOK, Sweep
    <3>1. sweep \in Sweep
      BY DEF TypeOK
    <3>2. CASE sweep' = [sweep EXCEPT !.todo = @ \ {i}]
      BY <3>1, <3>2 DEF Sweep
    <3>3. CASE sweep' = [sweep EXCEPT !.todo = @ \ {i}, !.target = i, !.pc = "publish_transfer"]
      BY <3>1, <3>3 DEF Sweep
    <3> QED BY <2>1, <3>2, <3>3
  <2>4. \/ sweep'.pc = sweep.pc
        \/ sweep'.target = i
    BY <2>1, <2>2
  <2> QED BY <1>4, <2>2, <2>3, <2>4 DEF SweepClassifiesTransfer
<1>5. CASE SweepReadsPending
  BY <1>5 DEF SweepReadsPending
<1>6. ASSUME NEW i \in Intents, SweepClassifiesPending(i)
      PROVE  TypeOK'
  <2>1. \/ sweep' = [sweep EXCEPT !.todo = @ \ {i}]
        \/ sweep' = [sweep EXCEPT !.todo = @ \ {i}, !.target = i,
                                  !.pc = "publish_intent"]
    BY <1>6 DEF SweepClassifiesPending
  <2>2. sweep.pc = "intents"
    BY <1>6 DEF SweepClassifiesPending
  <2>3. sweep' \in Sweep
    <3> HIDE DEF TypeOK, Sweep
    <3>1. sweep \in Sweep
      BY DEF TypeOK
    <3>2. CASE sweep' = [sweep EXCEPT !.todo = @ \ {i}]
      BY <3>1, <3>2 DEF Sweep
    <3>3. CASE sweep' = [sweep EXCEPT !.todo = @ \ {i}, !.target = i, !.pc = "publish_intent"]
      BY <3>1, <3>3 DEF Sweep
    <3> QED BY <2>1, <3>2, <3>3
  <2>4. \/ sweep'.pc = sweep.pc
        \/ sweep'.target = i
    BY <2>1, <2>2
  <2> QED BY <1>6, <2>2, <2>3, <2>4 DEF SweepClassifiesPending
<1>7. ASSUME NEW pc \in {"publish_transfer", "publish_intent"},
             NEW next \in {"transfers", "intents"}, NEW bucket \in Buckets,
             SweepPublishes(pc, next, bucket)
      PROVE  TypeOK'
  <2>1. [intent |-> sweep.target, bucket |-> bucket, by |-> BySweep] \in Attestation
    BY <1>7 DEF SweepPublishes, Attestation, Emitters
  <2>2. attested' \subseteq Attestation
    BY <1>7, <2>1 DEF SweepPublishes
  <2>3. sweep' \in Sweep /\ sweep'.pc = next
    BY <1>7 DEF SweepPublishes
  <2> QED BY <1>7, <2>2, <2>3 DEF SweepPublishes
<1>8. CASE SweepAdvances
  BY <1>8 DEF SweepAdvances, NewWatermark
<1>9. CASE SweepFails
  BY <1>9 DEF SweepFails
<1>10. CASE SweepPublishesTransfer \/ SweepPublishesPending
  BY <1>7, <1>10 DEF SweepPublishesTransfer, SweepPublishesPending, Buckets
<1> QED BY <1>1, <1>2, <1>3, <1>4, <1>5, <1>6, <1>8, <1>9, <1>10 DEF Reconcile

\* TypeOK is an invariant of Withdraw: the withdrawal modules never leave the
\* states the schema and the handlers' local variables allow.
THEOREM TypeCorrect == Spec => []TypeOK
<1>1. Init => TypeOK
  BY ConstantsAssumption
  DEF Init, TypeOK, Statuses, RouteStates, HookStates, Sweep, SweepStates, NoTransfer
<1>2. TypeOK /\ [Next]_vars => TypeOK'
  <2> SUFFICES ASSUME TypeOK, [Next]_vars PROVE TypeOK'
    OBVIOUS
  <2>1. ASSUME NEW i \in Intents, Route(i) \/ Rail(i) PROVE TypeOK'
    BY <2>1, RouteType
  <2>2. ASSUME NEW i \in Intents, NEW k \in Deliveries, Hook(i, k) PROVE TypeOK'
    BY <2>2, HookType
  <2>3. CASE Reconcile \/ SweepFails
    BY <2>3, SweepType
  <2>4. CASE Tick
    BY <2>4 DEF Tick, TypeOK
  <2>5. CASE UNCHANGED vars
    BY <2>5 DEF vars, TypeOK
  <2> QED BY <2>1, <2>2, <2>3, <2>4, <2>5 DEF Next
<1> QED BY <1>1, <1>2, PTL DEF Spec

-----------------------------------------------------------------------------
(* A recorded payment has a transfer.                                      *)

\* Whoever is about to record a payment has seen its transfer.
Backed(i) ==
    \/ status[i] = "completed"
    \/ receipts[i] > 0
    \/ route[i] = "executed"
    \/ \E k \in Deliveries : hook[i][k] = "confirm"
BackedInv == \A i \in Intents : Backed(i) => transfer[i] # NoTransfer

\* A transfer, once made, stays: the rail's answer only overwrites it.
LEMMA TransferStays ==
    ASSUME TypeOK, [Next]_vars, NEW j \in Intents, transfer[j] # NoTransfer
    PROVE  transfer'[j] # NoTransfer
<1>1. ASSUME NEW i \in Intents, RailAccepts(i) PROVE transfer'[j] # NoTransfer
  BY <1>1 DEF RailAccepts, TypeOK, NoTransfer
<1>2. ASSUME UNCHANGED transfer PROVE transfer'[j] # NoTransfer
  BY <1>2
<1>3. \/ \E i \in Intents : RailAccepts(i)
      \/ UNCHANGED transfer
  BY DEF Next, Route, Rail, Hook, Reconcile, vars, Reserve, RejectInsufficient,
         CallRail, RailReturns, RailThrows, RouteConfirms, RouteConfirmThrows,
         RouteReleases, RouteReleaseThrows, RouteCrashes, RailRefuses, HookReads,
         HookConfirms, HookChecks, HookPublishes, HookGivesUp, SweepStarts,
         SweepLists, SweepReadsCompleted, SweepClassifiesTransfer,
         SweepReadsPending, SweepClassifiesPending, SweepPublishesTransfer,
         SweepPublishesPending, SweepPublishes, SweepAdvances, SweepFails, Tick
<1> QED BY <1>1, <1>2, <1>3

\* An intent becomes backed only when its transfer is there already.
LEMMA BackedNeedsTransfer ==
    ASSUME TypeOK, [Next]_vars, NEW j \in Intents, ~Backed(j), Backed(j)'
    PROVE  transfer[j] # NoTransfer
<1> USE DEF Backed
<1>1. ASSUME NEW i \in Intents, Route(i) PROVE transfer[j] # NoTransfer
  <2>1. CASE Reserve(i) BY <2>1 DEF Reserve, TypeOK
  <2>2. CASE RejectInsufficient(i) BY <2>2 DEF RejectInsufficient, TypeOK
  <2>3. CASE CallRail(i) BY <2>3 DEF CallRail, TypeOK
  <2>4. CASE RailReturns(i) BY <2>4 DEF RailReturns, TypeOK
  <2>5. CASE RailThrows(i) BY <2>5 DEF RailThrows, TypeOK
  <2>6. CASE RouteConfirms(i) BY <2>6 DEF RouteConfirms, ConfirmWithdrawal, TypeOK
  <2>7. CASE RouteConfirmThrows(i) BY <2>7 DEF RouteConfirmThrows, TypeOK
  <2>8. CASE RouteReleases(i) BY <2>8 DEF RouteReleases, ReleaseWithdrawal, TypeOK
  <2>9. CASE RouteReleaseThrows(i) BY <2>9 DEF RouteReleaseThrows, TypeOK
  <2>10. CASE RouteCrashes(i) BY <2>10 DEF RouteCrashes, TypeOK
  <2> QED BY <1>1, <2>1, <2>2, <2>3, <2>4, <2>5, <2>6, <2>7, <2>8, <2>9, <2>10 DEF Route
<1>2. ASSUME NEW i \in Intents, Rail(i) PROVE FALSE
  BY <1>2 DEF Rail, RailAccepts, RailRefuses
<1>3. ASSUME NEW i \in Intents, NEW k \in Deliveries, Hook(i, k)
      PROVE  transfer[j] # NoTransfer
  <2>1. CASE HookReads(i, k)
    BY <2>1 DEF HookReads, HookStep, TypeOK, HookStates
  <2>2. CASE HookConfirms(i, k)
    BY <2>2 DEF HookConfirms, HookStep, ConfirmWithdrawal, TypeOK, HookStates
  <2>3. CASE HookChecks(i, k) \/ HookPublishes(i, k) \/ HookGivesUp(i, k)
    BY <2>3 DEF HookChecks, HookPublishes, HookGivesUp, HookStep, TypeOK, HookStates
  <2> QED BY <1>3, <2>1, <2>2, <2>3 DEF Hook
<1>4. ASSUME UNCHANGED <<status, receipts, route, hook>> PROVE FALSE
  BY <1>4
<1>5. CASE Reconcile \/ SweepFails
  BY <1>4, <1>5 DEF Reconcile, SweepStarts, SweepLists, SweepReadsCompleted,
     SweepClassifiesTransfer, SweepReadsPending, SweepClassifiesPending,
     SweepPublishesTransfer, SweepPublishesPending, SweepPublishes, SweepAdvances,
     SweepFails
<1>6. CASE Tick \/ UNCHANGED vars
  BY <1>4, <1>6 DEF Tick, vars
<1> QED BY <1>1, <1>2, <1>3, <1>5, <1>6 DEF Next

\* An intent is recorded as paid only if the rail has a transfer for it, under
\* every failure and any number of webhook deliveries.
THEOREM PaymentsAreBacked == Spec => []CompletedIsBacked
<1>1. Init => BackedInv
  BY DEF Init, BackedInv, Backed
<1>2. TypeOK /\ BackedInv /\ [Next]_vars => BackedInv'
  BY TransferStays, BackedNeedsTransfer DEF BackedInv
<1>3. BackedInv => CompletedIsBacked
  BY DEF BackedInv, Backed, CompletedIsBacked
<1> QED BY <1>1, <1>2, <1>3, TypeCorrect, PTL DEF Spec
-----------------------------------------------------------------------------
(* An intent in the safe bucket has no transfer.                           *)

\* The request of i is over and the rail did nothing, and will do nothing.
Quiet(i) ==
    /\ transfer[i] = NoTransfer
    /\ ~inFlight[i]
    /\ route[i] \notin {"idle", "reserved", "calling"}

\* The rail decides a request within MaxCall ticks of the reservation.
ClockInv ==
    /\ sweep.startedAt <= now
    /\ \A i \in Intents :
         /\ createdAt[i] <= now
         /\ route[i] = "idle" => /\ status[i] = "none" /\ ~inFlight[i]
                                 /\ transfer[i] = NoTransfer
         /\ inFlight[i] \/ route[i] \in {"reserved", "calling"}
                => now <= createdAt[i] + MaxCall
         /\ transfer[i] # NoTransfer => createdAt[i] <= transfer[i]

\* The intents the sweep still has to classify exist, and what it is about to
\* publish as a timeout, or has published, is quiet.
TimeoutInv ==
    /\ sweep.pc \in {"intents", "publish_intent"}
         => \A i \in sweep.todo : status[i] # "none"
    /\ sweep.pc = "publish_intent" => Quiet(sweep.target)
    /\ \A a \in attested : a.bucket = "pending_timeout" => Quiet(a.intent)

\* The sweep changes nothing but its own state and the attestations.
LEMMA SweepFrames ==
    ASSUME TypeOK, Reconcile \/ SweepFails
    PROVE  /\ UNCHANGED <<now, ledgerVars, route, railVars, hook>>
           /\ sweep'.startedAt \in {sweep.startedAt, now}
<1> USE DEF TypeOK, Sweep
<1>1. CASE SweepStarts \/ SweepReadsCompleted \/ SweepReadsPending \/ SweepAdvances
           \/ SweepFails
  BY <1>1 DEF SweepStarts, SweepReadsCompleted, SweepReadsPending, SweepAdvances,
     SweepFails
<1>2. CASE SweepLists
  BY <1>2 DEF SweepLists
<1>3. ASSUME NEW i \in Intents, SweepClassifiesTransfer(i) \/ SweepClassifiesPending(i)
      PROVE  /\ UNCHANGED <<now, ledgerVars, route, railVars, hook>>
             /\ sweep'.startedAt \in {sweep.startedAt, now}
  BY <1>3 DEF SweepClassifiesTransfer, SweepClassifiesPending
<1>4. CASE SweepPublishesTransfer \/ SweepPublishesPending
  BY <1>4 DEF SweepPublishesTransfer, SweepPublishesPending, SweepPublishes
<1> QED BY <1>1, <1>2, <1>3, <1>4 DEF Reconcile

\* The route and the rail leave the sweep and the attestations alone.
LEMMA RouteFrame ==
    ASSUME NEW i \in Intents, Route(i) \/ Rail(i)
    PROVE  UNCHANGED <<now, hook, sweep, watermark, attested>>
BY DEF Route, Rail, Reserve, RejectInsufficient, CallRail, RailReturns, RailThrows,
       RouteConfirms, RouteConfirmThrows, RouteReleases, RouteReleaseThrows,
       RouteCrashes, RailAccepts, RailRefuses

\* The webhook touches neither the request's process nor the rail.
LEMMA HookFrame ==
    ASSUME NEW i \in Intents, NEW k \in Deliveries, Hook(i, k)
    PROVE  UNCHANGED <<now, createdAt, balance, releases, route, inFlight, transfer,
                       sweep>>
BY DEF Hook, HookReads, HookConfirms, HookChecks, HookPublishes, HookGivesUp,
       ConfirmWithdrawal

LEMMA ClockInvStep ==
    ASSUME TypeOK, BackedInv, ClockInv, [Next]_vars
    PROVE  ClockInv'
<1>0. MaxCall \in Nat
  BY ConstantsAssumption
<1>1. ASSUME NEW i \in Intents, Route(i) PROVE ClockInv'
  <2> USE <1>0 DEF ClockInv, TypeOK
  <2>1. CASE Reserve(i) BY <2>1 DEF Reserve
  <2>2. CASE RejectInsufficient(i) BY <2>2 DEF RejectInsufficient
  <2>3. CASE CallRail(i) BY <2>3 DEF CallRail
  <2>4. CASE RailReturns(i) BY <2>4 DEF RailReturns
  <2>5. CASE RailThrows(i) BY <2>5 DEF RailThrows
  <2>6. CASE RouteConfirms(i) BY <2>6 DEF RouteConfirms, ConfirmWithdrawal
  <2>7. CASE RouteConfirmThrows(i) BY <2>7 DEF RouteConfirmThrows
  <2>8. CASE RouteReleases(i) BY <2>8 DEF RouteReleases, ReleaseWithdrawal
  <2>9. CASE RouteReleaseThrows(i) BY <2>9 DEF RouteReleaseThrows
  <2>10. CASE RouteCrashes(i) BY <2>10 DEF RouteCrashes
  <2> QED BY <1>1, <2>1, <2>2, <2>3, <2>4, <2>5, <2>6, <2>7, <2>8, <2>9, <2>10 DEF Route
<1>2. ASSUME NEW i \in Intents, Rail(i) PROVE ClockInv'
  <2>1. CASE RailAccepts(i) BY <1>0, <2>1 DEF RailAccepts, ClockInv, TypeOK
  <2>2. CASE RailRefuses(i) BY <1>0, <2>2 DEF RailRefuses, ClockInv, TypeOK
  <2> QED BY <1>2, <2>1, <2>2 DEF Rail
<1>3. ASSUME NEW i \in Intents, NEW k \in Deliveries, Hook(i, k) PROVE ClockInv'
  <2>1. CASE HookConfirms(i, k)
    <3>1. transfer[i] # NoTransfer
      BY <2>1 DEF HookConfirms, HookStep, BackedInv, Backed
    <3>2. route[i] # "idle"
      BY <3>1 DEF ClockInv
    <3>3. \A j \in Intents \ {i} : status'[j] = status[j]
      BY <2>1 DEF HookConfirms, ConfirmWithdrawal, TypeOK
    <3> QED BY <1>3, HookFrame, <3>2, <3>3 DEF ClockInv
  <2>2. CASE UNCHANGED status
    BY <1>3, <2>2, HookFrame DEF ClockInv
  <2> QED BY <1>3, <2>1, <2>2
      DEF Hook, HookReads, HookChecks, HookPublishes, HookGivesUp
<1>4. CASE Reconcile \/ SweepFails
  BY <1>4, SweepFrames DEF ClockInv, TypeOK
<1>5. CASE Tick
  BY <1>0, <1>5 DEF Tick, ClockInv, TypeOK, Sweep
<1>6. CASE UNCHANGED vars
  BY <1>6 DEF vars, ClockInv
<1> QED BY <1>1, <1>2, <1>3, <1>4, <1>5, <1>6 DEF Next

\* Quiet is for ever, and so is the existence of an intent.
LEMMA QuietStays ==
    ASSUME TypeOK, [Next]_vars, NEW j \in Intents
    PROVE  (Quiet(j) => Quiet(j)') /\ (status[j] # "none" => status'[j] # "none")
<1> DEFINE Stays == (Quiet(j) => Quiet(j)') /\ (status[j] # "none" => status'[j] # "none")
<1>1. ASSUME NEW i \in Intents, Route(i) PROVE Stays
  <2> USE DEF Quiet, TypeOK
  <2>1. CASE Reserve(i) BY <2>1 DEF Reserve
  <2>2. CASE RejectInsufficient(i) BY <2>2 DEF RejectInsufficient
  <2>3. CASE CallRail(i) BY <2>3 DEF CallRail
  <2>4. CASE RailReturns(i) BY <2>4 DEF RailReturns
  <2>5. CASE RailThrows(i) BY <2>5 DEF RailThrows
  <2>6. CASE RouteConfirms(i) BY <2>6 DEF RouteConfirms, ConfirmWithdrawal
  <2>7. CASE RouteConfirmThrows(i) BY <2>7 DEF RouteConfirmThrows
  <2>8. CASE RouteReleases(i) BY <2>8 DEF RouteReleases, ReleaseWithdrawal
  <2>9. CASE RouteReleaseThrows(i) BY <2>9 DEF RouteReleaseThrows
  <2>10. CASE RouteCrashes(i) BY <2>10 DEF RouteCrashes
  <2> QED BY <1>1, <2>1, <2>2, <2>3, <2>4, <2>5, <2>6, <2>7, <2>8, <2>9, <2>10 DEF Route
<1>2. ASSUME NEW i \in Intents, Rail(i) PROVE Stays
  BY <1>2 DEF Rail, RailAccepts, RailRefuses, Quiet, TypeOK
<1>3. ASSUME NEW i \in Intents, NEW k \in Deliveries, Hook(i, k) PROVE Stays
  <2>1. status[j] # "none" => status'[j] # "none"
    BY <1>3 DEF Hook, HookReads, HookConfirms, ConfirmWithdrawal, HookChecks,
       HookPublishes, HookGivesUp, TypeOK
  <2> QED BY <1>3, <2>1, HookFrame DEF Quiet
<1>4. CASE Reconcile \/ SweepFails
  BY <1>4, SweepFrames DEF Quiet
<1>5. CASE Tick \/ UNCHANGED vars
  BY <1>5 DEF Tick, vars, Quiet
<1> QED BY <1>1, <1>2, <1>3, <1>4, <1>5 DEF Next

\* With at most PageLimit intents a page is the whole list.
LEMMA WholePage ==
    ASSUME Cardinality(Intents) <= PageLimit,
           NEW S \in SUBSET Intents, NEW page \in Pages(S)
    PROVE  page = S
<1>1. IsFiniteSet(Intents) /\ PageLimit \in Nat
  BY ConstantsAssumption
<1>2. IsFiniteSet(S) /\ Cardinality(S) <= Cardinality(Intents)
  BY <1>1, FS_Subset
<1>3. Cardinality(S) \in Nat /\ Cardinality(Intents) \in Nat
  BY <1>1, <1>2, FS_CardinalityType
<1>4. page \in SUBSET S /\ Cardinality(page) = Cardinality(S)
  BY <1>1, <1>2, <1>3 DEF Pages
<1> QED BY <1>2, <1>4, FS_Subset

\* A pending intent past its grace period, with no transfer in the rail's list,
\* is quiet: its request had MaxCall < Timeout ticks to be decided.
LEMMA TimedOutIsQuiet ==
    ASSUME TypeOK, ClockInv, MaxCall < Timeout, Cardinality(Intents) <= PageLimit,
           NEW i \in Intents, status[i] # "none", ~WithinGrace(i),
           NEW page \in Pages(TransfersSince(createdAt[i])), i \notin page
    PROVE  Quiet(i)
<1>1. MaxCall \in Nat /\ Timeout \in Nat
  BY ConstantsAssumption
<1>2. now >= createdAt[i] + Timeout
  BY <1>1 DEF WithinGrace, ClockInv, TypeOK, Sweep
<1>3. ~inFlight[i] /\ route[i] \notin {"idle", "reserved", "calling"}
  BY <1>1, <1>2 DEF ClockInv, TypeOK
<1>4. i \notin TransfersSince(createdAt[i])
  BY WholePage DEF TransfersSince
<1>5. transfer[i] = NoTransfer
  BY <1>4 DEF TransfersSince, ClockInv, TypeOK, NoTransfer
<1> QED BY <1>3, <1>5 DEF Quiet

LEMMA TimeoutInvStep ==
    ASSUME TypeOK, ClockInv, TimeoutInv, [Next]_vars,
           MaxCall < Timeout, Cardinality(Intents) <= PageLimit
    PROVE  TimeoutInv'
<1> USE DEF TypeOK, Sweep
<1>0. /\ sweep.todo \subseteq Intents
      /\ sweep.pc = "publish_intent" => sweep.target \in Intents
      /\ \A a \in attested : a.intent \in Intents
  BY DEF Attestation
<1>1. ASSUME UNCHANGED sweep, \A a \in attested' \ attested : a.bucket # "pending_timeout"
      PROVE  TimeoutInv'
  BY <1>0, <1>1, QuietStays DEF TimeoutInv
<1>2. ASSUME NEW i \in Intents, Route(i) \/ Rail(i) PROVE TimeoutInv'
  BY <1>1, <1>2, RouteFrame
<1>3. ASSUME NEW i \in Intents, NEW k \in Deliveries, Hook(i, k) PROVE TimeoutInv'
  <2>1. \A a \in attested' \ attested : a.bucket # "pending_timeout"
    BY <1>3 DEF Hook, HookReads, HookConfirms, HookChecks, HookPublishes, HookGivesUp
  <2> QED BY <1>1, <1>3, <2>1, HookFrame
<1>4. CASE Reconcile \/ SweepFails
  <2>0. \A i \in Intents : (Quiet(i)' <=> Quiet(i)) /\ status'[i] = status[i]
    BY <1>4, SweepFrames DEF Quiet
  <2>1. ASSUME UNCHANGED attested,
               sweep'.pc \notin {"intents", "publish_intent"}
        PROVE  TimeoutInv'
    BY <1>0, <2>0, <2>1 DEF TimeoutInv
  <2>2. CASE SweepStarts \/ SweepReadsCompleted \/ SweepAdvances \/ SweepFails \/ SweepLists
    BY <2>1, <2>2 DEF SweepStarts, SweepReadsCompleted, SweepAdvances, SweepFails,
       SweepLists
  <2>3. ASSUME NEW i \in Intents, SweepClassifiesTransfer(i) PROVE TimeoutInv'
    BY <2>1, <2>3 DEF SweepClassifiesTransfer
  <2>4. CASE SweepReadsPending
    <3>1. sweep'.pc = "intents" /\ sweep'.todo = {i \in Intents : status[i] = "pending"}
      BY <2>4 DEF SweepReadsPending
    <3> QED BY <1>0, <2>0, <2>4, <3>1 DEF TimeoutInv, SweepReadsPending
  <2>5. ASSUME NEW i \in Intents, SweepClassifiesPending(i) PROVE TimeoutInv'
    <3>1. /\ sweep.pc = "intents" /\ i \in sweep.todo
          /\ UNCHANGED attested
      BY <2>5 DEF SweepClassifiesPending
    <3>2. CASE sweep' = [sweep EXCEPT !.todo = @ \ {i}]
      BY <1>0, <2>0, <3>1, <3>2 DEF TimeoutInv
    <3>3. CASE sweep' # [sweep EXCEPT !.todo = @ \ {i}]
      <4>1. PICK page \in Pages(TransfersSince(createdAt[i])) :
              /\ ~WithinGrace(i) /\ i \notin page
              /\ sweep' = [sweep EXCEPT !.todo = @ \ {i}, !.target = i,
                                        !.pc = "publish_intent"]
        BY <2>5, <3>3 DEF SweepClassifiesPending
      <4>2. Quiet(i)
        BY <3>1, <4>1, TimedOutIsQuiet DEF TimeoutInv
      <4>3. sweep'.pc = "publish_intent" /\ sweep'.target = i /\ sweep'.todo \subseteq sweep.todo
        BY <4>1
      <4> QED BY <1>0, <2>0, <3>1, <4>2, <4>3 DEF TimeoutInv
    <3> QED BY <3>2, <3>3
  <2>6. CASE SweepPublishesTransfer
    <3>1. \A a \in attested' \ attested : a.bucket # "pending_timeout"
      BY <2>6 DEF SweepPublishesTransfer, SweepPublishes
    <3>2. sweep'.pc = "transfers"
      BY <2>6 DEF SweepPublishesTransfer, SweepPublishes
    <3> QED BY <1>0, <2>0, <3>1, <3>2 DEF TimeoutInv
  <2>7. CASE SweepPublishesPending
    <3>1. /\ sweep.pc = "publish_intent" /\ sweep'.pc = "intents"
          /\ sweep'.todo = sweep.todo
          /\ \A a \in attested' \ attested : a.intent = sweep.target
      BY <2>7 DEF SweepPublishesPending, SweepPublishes
    <3> QED BY <1>0, <2>0, <3>1 DEF TimeoutInv
  <2> QED BY <1>4, <2>2, <2>3, <2>4, <2>5, <2>6, <2>7 DEF Reconcile
<1>5. CASE Tick \/ UNCHANGED vars
  BY <1>1, <1>5 DEF Tick, vars
<1> QED BY <1>2, <1>3, <1>4, <1>5 DEF Next

\* What the sweep attests as a timeout an operator may return: as long as the
\* rail decides a request before the release timeout and its list fits a page,
\* no transfer exists for such an intent and none can appear.
THEOREM SafeBucket ==
    ASSUME MaxCall < Timeout, Cardinality(Intents) <= PageLimit
    PROVE  Spec => []SafeBucketIsSafe
<1>1. Init => BackedInv /\ ClockInv /\ TimeoutInv
  BY ConstantsAssumption DEF Init, BackedInv, Backed, ClockInv, TimeoutInv
<1>2. TypeOK /\ BackedInv /\ ClockInv /\ TimeoutInv /\ [Next]_vars
        => BackedInv' /\ ClockInv' /\ TimeoutInv'
  <2>1. TypeOK /\ BackedInv /\ [Next]_vars => BackedInv'
    BY TransferStays, BackedNeedsTransfer DEF BackedInv
  <2> QED BY <2>1, ClockInvStep, TimeoutInvStep
<1>3. TimeoutInv => SafeBucketIsSafe
  BY DEF TimeoutInv, SafeBucketIsSafe, Quiet
<1> QED BY <1>1, <1>2, <1>3, TypeCorrect, PTL DEF Spec
-----------------------------------------------------------------------------
(* Money does not both return and leave.                                   *)

\* A reservation is returned once, as the last step of the request's process.
ReleaseInv == \A i \in Intents : releases[i] <= (IF route[i] = "done" THEN 1 ELSE 0)

\* Without an ambiguous error or a failed confirmation, the catch block is
\* reached only when the rail has refused.
RefusedInv == \A i \in Intents : route[i] = "threw" \/ releases[i] > 0 => Quiet(i)

LEMMA ReleaseInvStep ==
    ASSUME TypeOK, ReleaseInv, [Next]_vars
    PROVE  ReleaseInv'
<1> USE DEF ReleaseInv, TypeOK
<1>1. ASSUME NEW i \in Intents, Route(i) PROVE ReleaseInv'
  <2>1. CASE RouteReleases(i) BY <2>1 DEF RouteReleases, ReleaseWithdrawal
  <2>2. CASE Reserve(i) \/ RejectInsufficient(i) \/ CallRail(i) \/ RailReturns(i)
             \/ RailThrows(i) \/ RouteConfirmThrows(i) \/ RouteReleaseThrows(i)
             \/ RouteCrashes(i)
    BY <2>2 DEF Reserve, RejectInsufficient, CallRail, RailReturns, RailThrows,
       RouteConfirmThrows, RouteReleaseThrows, RouteCrashes
  <2>3. CASE RouteConfirms(i) BY <2>3 DEF RouteConfirms, ConfirmWithdrawal
  <2> QED BY <1>1, <2>1, <2>2, <2>3 DEF Route
<1>2. ASSUME UNCHANGED <<route, releases>> PROVE ReleaseInv'
  BY <1>2
<1>3. ASSUME NEW i \in Intents, Rail(i) PROVE ReleaseInv'
  BY <1>2, <1>3 DEF Rail, RailAccepts, RailRefuses
<1>4. ASSUME NEW i \in Intents, NEW k \in Deliveries, Hook(i, k) PROVE ReleaseInv'
  BY <1>2, <1>4, HookFrame
<1>5. CASE Reconcile \/ SweepFails \/ Tick \/ UNCHANGED vars
  BY <1>2, <1>5, SweepFrames DEF Tick, vars
<1> QED BY <1>1, <1>3, <1>4, <1>5 DEF Next

\* A reservation is returned at most once, under every failure.
THEOREM ReservationReturnedOnce == Spec => []ReleasedOnce
<1>1. Init => ReleaseInv
  BY DEF Init, ReleaseInv
<1>2. TypeOK /\ ReleaseInv => ReleasedOnce
  BY DEF TypeOK, ReleaseInv, ReleasedOnce
<1> QED BY <1>1, <1>2, ReleaseInvStep, TypeCorrect, PTL DEF Spec

LEMMA RefusedInvStep ==
    ASSUME TypeOK, ReleaseInv, RefusedInv, [Next]_vars,
           Faults \cap {"ambiguous", "confirm_fails"} = {}
    PROVE  RefusedInv'
<1> SUFFICES ASSUME NEW j \in Intents, route'[j] = "threw" \/ releases'[j] > 0
             PROVE  Quiet(j)'
  BY DEF RefusedInv
<1>1. ASSUME route[j] = "threw" \/ releases[j] > 0 PROVE Quiet(j)'
  BY <1>1, QuietStays DEF RefusedInv
<1>2. ASSUME NEW i \in Intents, Route(i) PROVE Quiet(j)'
  <2> USE <1>1 DEF TypeOK
  <2>1. CASE RailThrows(i)
    BY <2>1 DEF RailThrows, Quiet
  <2>2. CASE RouteReleases(i)
    BY <2>2 DEF RouteReleases, ReleaseWithdrawal
  <2>3. CASE RouteConfirmThrows(i)
    BY <2>3 DEF RouteConfirmThrows
  <2>4. CASE Reserve(i) \/ RejectInsufficient(i) \/ CallRail(i) \/ RailReturns(i)
             \/ RouteReleaseThrows(i) \/ RouteCrashes(i)
    BY <2>4 DEF Reserve, RejectInsufficient, CallRail, RailReturns,
       RouteReleaseThrows, RouteCrashes
  <2>5. CASE RouteConfirms(i) BY <2>5 DEF RouteConfirms, ConfirmWithdrawal
  <2> QED BY <1>2, <2>1, <2>2, <2>3, <2>4, <2>5 DEF Route
<1>3. ASSUME UNCHANGED <<route, releases>> PROVE Quiet(j)'
  BY <1>1, <1>3
<1>4. ASSUME NEW i \in Intents, Rail(i) PROVE Quiet(j)'
  BY <1>3, <1>4 DEF Rail, RailAccepts, RailRefuses
<1>5. ASSUME NEW i \in Intents, NEW k \in Deliveries, Hook(i, k) PROVE Quiet(j)'
  BY <1>3, <1>5, HookFrame
<1>6. CASE Reconcile \/ SweepFails \/ Tick \/ UNCHANGED vars
  BY <1>3, <1>6, SweepFrames DEF Tick, vars
<1> QED BY <1>2, <1>4, <1>5, <1>6 DEF Next

\* When the rail's errors mean that it refused, and the confirmation commits,
\* a returned reservation was not paid out and will not be: crashes, failed
\* releases, redeliveries and the sweep cannot make it so.
THEOREM NothingPaidTwice ==
    ASSUME Faults \cap {"ambiguous", "confirm_fails"} = {}
    PROVE  Spec => []NoDoublePayout
<1>1. Init => ReleaseInv /\ RefusedInv
  BY DEF Init, ReleaseInv, RefusedInv
<1>2. TypeOK /\ ReleaseInv /\ RefusedInv /\ [Next]_vars => ReleaseInv' /\ RefusedInv'
  BY ReleaseInvStep, RefusedInvStep
<1>3. RefusedInv => NoDoublePayout
  BY DEF RefusedInv, NoDoublePayout, Quiet
<1> QED BY <1>1, <1>2, <1>3, TypeCorrect, PTL DEF Spec

\* No interleaving of withdrawals overdraws an account.
THEOREM NeverOverdrawn == Spec => []NonNegative
<1>0. \A i \in Intents : Owner[i] \in Dids /\ Amount[i] \in Nat
  BY ConstantsAssumption
<1>1. Init => NonNegative
  BY ConstantsAssumption DEF Init, NonNegative
<1>2. TypeOK /\ NonNegative /\ [Next]_vars => NonNegative'
  <2> SUFFICES ASSUME TypeOK, NonNegative, [Next]_vars PROVE NonNegative'
    OBVIOUS
  <2> USE DEF NonNegative, TypeOK
  <2>1. ASSUME NEW i \in Intents, Reserve(i) PROVE NonNegative'
    BY <1>0, <2>1 DEF Reserve, Covered
  <2>2. ASSUME NEW i \in Intents, RouteReleases(i) PROVE NonNegative'
    BY <1>0, <2>2 DEF RouteReleases, ReleaseWithdrawal
  <2>3. ASSUME UNCHANGED balance PROVE NonNegative'
    BY <2>3
  <2>4. ASSUME NEW i \in Intents, Route(i) \/ Rail(i) PROVE NonNegative'
    BY <2>1, <2>2, <2>3, <2>4 DEF Route, Rail, RejectInsufficient, CallRail,
       RailReturns, RailThrows, RouteConfirms, ConfirmWithdrawal, RouteConfirmThrows,
       RouteReleaseThrows, RouteCrashes, RailAccepts, RailRefuses
  <2>5. ASSUME NEW i \in Intents, NEW k \in Deliveries, Hook(i, k) PROVE NonNegative'
    BY <2>3, <2>5, HookFrame
  <2>6. CASE Reconcile \/ SweepFails \/ Tick \/ UNCHANGED vars
    BY <2>3, <2>6, SweepFrames DEF Tick, vars
  <2> QED BY <2>4, <2>5, <2>6 DEF Next
<1> QED BY <1>1, <1>2, TypeCorrect, PTL DEF Spec
-----------------------------------------------------------------------------
(* Sums over a finite set.  The recursion behind SumFunctionOnSet is shown *)
(* to be well-founded from the ordering of the subsets of a finite set;    *)
(* the rest follows from taking one index out.                             *)

\* A nonempty family of subsets of a finite set has a smallest member.
LEMMA SmallestSubset ==
    ASSUME NEW S, IsFiniteSet(S), NEW Bad \in SUBSET SUBSET S, Bad # {}
    PROVE  \E T \in Bad : \A U \in SUBSET T : U # T => U \notin Bad
<1>1. IsWellFoundedOn(StrictSubsetOrdering(S), SUBSET S)
  BY FS_StrictSubsetOrderingWellFounded, FS_FiniteSubsetsOfFinite
<1>2. PICK T \in Bad : \A U \in Bad : <<U, T>> \notin StrictSubsetOrdering(S)
  BY <1>1, WFMin
<1> QED  BY <1>2 DEF StrictSubsetOrdering

\* Induction over a finite set, one element at a time; Good is the set of the
\* subsets for which the claim holds.
LEMMA SubsetInduction ==
    ASSUME NEW S, IsFiniteSet(S), NEW Good, {} \in Good,
           \A T \in SUBSET S : \A x \in S \ T : T \in Good => T \cup {x} \in Good
    PROVE  S \in Good
<1> DEFINE Bad == (SUBSET S) \ Good
<1> SUFFICES ASSUME Bad # {} PROVE FALSE
  OBVIOUS
<1>1. PICK T \in Bad : \A U \in SUBSET T : U # T => U \notin Bad
  <2>1. Bad \in SUBSET SUBSET S
    OBVIOUS
  <2> HIDE DEF Bad
  <2> QED  BY <2>1, SmallestSubset
<1>2. PICK x \in T : TRUE
  BY <1>1
<1>3. T \ {x} \in Good /\ (T \ {x}) \cup {x} = T
  BY <1>1
<1> QED  BY <1>3

\* The element the fold takes out of s first.
Choice(s) == CHOOSE x \in s : TRUE

\* g is the table of the partial sums of f over the subsets of S.
Tabulates(g, f, S) ==
    g = [s \in SUBSET S |->
            IF s = {} THEN 0 ELSE f[Choice(s)] + g[s \ {Choice(s)}]]

\* It is one of its elements.
LEMMA ChoiceInSet == \A s : s # {} => Choice(s) \in s
  BY DEF Choice

\* SumFunctionOnSet reads its value from the table over the subsets of S.
LEMMA SumIsChosen ==
    ASSUME NEW f, NEW S
    PROVE  SumFunctionOnSet(f, S) = (CHOOSE g : Tabulates(g, f, S))[S]
BY DEF SumFunctionOnSet, FoldFunctionOnSet, MapThenFoldSet, Tabulates, Choice

\* The partial sums of f over the subsets of T do not depend on what T is a
\* subset of.
LEMMA TablesAgree ==
    ASSUME NEW f, NEW S, IsFiniteSet(S), NEW T \in SUBSET S,
           NEW g, Tabulates(g, f, S), NEW h, Tabulates(h, f, T)
    PROVE  h[T] = g[T]
<1> DEFINE Bad == {U \in SUBSET T : h[U] # g[U]}
<1> SUFFICES ASSUME Bad # {} PROVE FALSE
  OBVIOUS
<1>1. PICK U \in Bad : \A V \in SUBSET U : V # U => V \notin Bad
  <2>1. IsFiniteSet(T) /\ Bad \in SUBSET SUBSET T
    BY FS_Subset
  <2> HIDE DEF Bad
  <2> QED  BY <2>1, SmallestSubset
<1>2. /\ h[U] = IF U = {} THEN 0 ELSE f[Choice(U)] + h[U \ {Choice(U)}]
      /\ g[U] = IF U = {} THEN 0 ELSE f[Choice(U)] + g[U \ {Choice(U)}]
  BY DEF Tabulates
<1>3. U # {} => h[U \ {Choice(U)}] = g[U \ {Choice(U)}]
  BY <1>1, ChoiceInSet
<1> QED  BY <1>2, <1>3

\* The recursion is well-founded: a table of partial sums exists.
LEMMA TableExists ==
    ASSUME NEW f, NEW S, IsFiniteSet(S)
    PROVE  Tabulates(CHOOSE g : Tabulates(g, f, S), f, S)
<1> DEFINE Table(T) == CHOOSE g : Tabulates(g, f, T)
           Bad == {T \in SUBSET S : ~ Tabulates(Table(T), f, T)}
<1> SUFFICES ASSUME Bad # {} PROVE FALSE
  OBVIOUS
<1>1. PICK T \in Bad : \A U \in SUBSET T : U # T => U \notin Bad
  <2>1. Bad \in SUBSET SUBSET S
    OBVIOUS
  <2> HIDE DEF Bad
  <2> QED  BY <2>1, SmallestSubset
<1> DEFINE h == [s \in SUBSET T |->
                    IF s = {} THEN 0
                    ELSE f[Choice(s)] + Table(s \ {Choice(s)})[s \ {Choice(s)}]]
<1>2. ASSUME NEW s \in SUBSET T, s # {}
      PROVE  h[s \ {Choice(s)}] = Table(s \ {Choice(s)})[s \ {Choice(s)}]
  <2> DEFINE u == s \ {Choice(s)}
  <2>1. u \in SUBSET T /\ u # T
    BY <1>2, ChoiceInSet
  <2>2. Tabulates(Table(u), f, u) /\ IsFiniteSet(u)
    BY <1>1, <2>1, FS_Subset
  <2>3. Table(u)[u] = IF u = {} THEN 0 ELSE f[Choice(u)] + Table(u)[u \ {Choice(u)}]
    <3> HIDE DEF u, Table
    <3> QED  BY <2>2 DEF Tabulates
  <2>4. u # {} => Table(u \ {Choice(u)})[u \ {Choice(u)}] = Table(u)[u \ {Choice(u)}]
    <3> SUFFICES ASSUME u # {} PROVE Table(u \ {Choice(u)})[u \ {Choice(u)}] = Table(u)[u \ {Choice(u)}]
      OBVIOUS
    <3> DEFINE v == u \ {Choice(u)}
    <3>1. v \in SUBSET u /\ v \in SUBSET T /\ v # T
      BY <2>1, ChoiceInSet
    <3>2. Tabulates(Table(v), f, v)
      BY <1>1, <3>1
    <3> HIDE DEF u, v, Table
    <3>3. Table(v)[v] = Table(u)[v]
      BY <2>2, <3>1, <3>2, TablesAgree
    <3> QED  BY <3>3 DEF v
  <2>5. h[u] = IF u = {} THEN 0 ELSE f[Choice(u)] + Table(u \ {Choice(u)})[u \ {Choice(u)}]
    <3> HIDE DEF u, Table
    <3> QED  BY <2>1
  <2> HIDE DEF u, Table, h
  <2>6. h[u] = Table(u)[u]
    BY <2>3, <2>4, <2>5
  <2> QED  BY <2>6 DEF u
<1>3. Tabulates(h, f, T)
  <2>1. ASSUME NEW s \in SUBSET T
        PROVE  h[s] = IF s = {} THEN 0 ELSE f[Choice(s)] + h[s \ {Choice(s)}]
    <3>1. h[s] = IF s = {} THEN 0
                 ELSE f[Choice(s)] + Table(s \ {Choice(s)})[s \ {Choice(s)}]
      <4> HIDE DEF Table
      <4> QED OBVIOUS
    <3> HIDE DEF h, Table
    <3> QED  BY <3>1, <1>2
  <2>2. h = [s \in SUBSET T |-> h[s]]
    <3> HIDE DEF Table
    <3> QED OBVIOUS
  <2> HIDE DEF h
  <2> QED  BY <2>1, <2>2 DEF Tabulates
<1>4. Tabulates(Table(T), f, T)
  <2> HIDE DEF h
  <2> QED  BY <1>3
<1> QED  BY <1>4

\* The sum over no element is 0.
LEMMA SumEmpty == \A f : SumFunctionOnSet(f, {}) = 0
<1> TAKE f
<1>1. Tabulates(CHOOSE g : Tabulates(g, f, {}), f, {})
  BY TableExists, FS_EmptySet
<1> QED  BY <1>1, SumIsChosen DEF Tabulates

\* A sum is its recursion's first element and the sum of the others.
LEMMA SumChoice ==
    ASSUME NEW f, NEW S, IsFiniteSet(S), S # {}
    PROVE  SumFunctionOnSet(f, S) = f[Choice(S)] + SumFunctionOnSet(f, S \ {Choice(S)})
<1> DEFINE Table(T) == CHOOSE g : Tabulates(g, f, T)
           c == Choice(S)
<1>1. Tabulates(Table(S), f, S) /\ Tabulates(Table(S \ {c}), f, S \ {c})
  BY TableExists, FS_RemoveElement
<1>2. SumFunctionOnSet(f, S) = Table(S)[S] /\ SumFunctionOnSet(f, S \ {c}) = Table(S \ {c})[S \ {c}]
  BY SumIsChosen
<1> HIDE DEF Table
<1>3. Table(S)[S] = f[c] + Table(S)[S \ {c}]
  BY <1>1 DEF Tabulates
<1>4. Table(S \ {c})[S \ {c}] = Table(S)[S \ {c}]
  BY <1>1, TablesAgree
<1> QED  BY <1>2, <1>3, <1>4

\* A sum of integers is an integer, and any element can be taken out of it.
LEMMA SumRemove ==
    ASSUME NEW S, IsFiniteSet(S), NEW f, \A x \in S : f[x] \in Int
    PROVE  \A T \in SUBSET S :
               /\ SumFunctionOnSet(f, T) \in Int
               /\ \A x \in T : SumFunctionOnSet(f, T) = f[x] + SumFunctionOnSet(f, T \ {x})
<1> DEFINE SumTo(T) == SumFunctionOnSet(f, T)
           Right(T) == SumTo(T) \in Int /\ \A x \in T : SumTo(T) = f[x] + SumTo(T \ {x})
           Bad == {T \in SUBSET S : ~ Right(T)}
<1> SUFFICES ASSUME Bad # {} PROVE FALSE
  OBVIOUS
<1>1. PICK T \in Bad : \A U \in SUBSET T : U # T => U \notin Bad
  <2>1. Bad \in SUBSET SUBSET S
    OBVIOUS
  <2> HIDE DEF Bad
  <2> QED  BY <2>1, SmallestSubset
<1>2. SumTo({}) = 0
  BY SumEmpty
<1> HIDE DEF SumTo
<1>3. T # {} /\ \A U \in SUBSET T : U # T => Right(U)
  <2>1. Right({})
    BY <1>2
  <2>2. ~ Right(T) /\ T \in SUBSET S
    BY <1>1
  <2>3. \A U \in SUBSET T : U # T => Right(U)
    BY <1>1
  <2> HIDE DEF Right
  <2> QED  BY <2>1, <2>2, <2>3
<1> DEFINE c == Choice(T)
<1>4. c \in T /\ SumTo(T) = f[c] + SumTo(T \ {c})
  BY <1>3, ChoiceInSet, SumChoice, FS_Subset DEF SumTo
<1>5. ASSUME NEW x \in T  PROVE SumTo(T) = f[x] + SumTo(T \ {x})
  <2>1. CASE x = c
    BY <1>4, <2>1
  <2>2. CASE x # c
    <3> DEFINE u == (T \ {x}) \ {c}
    <3>1. SumTo(T \ {c}) = f[x] + SumTo(u)
      <4>1. (T \ {c}) \ {x} = u
        OBVIOUS
      <4> QED  BY <1>3, <1>4, <2>2, <4>1
    <3>2. SumTo(T \ {x}) = f[c] + SumTo(u)
      BY <1>3, <1>4, <2>2
    <3>3. SumTo(u) \in Int /\ f[x] \in Int /\ f[c] \in Int
      <4>1. u \in SUBSET T /\ u # T
        OBVIOUS
      <4> QED  BY <1>3, <1>4, <4>1
    <3> HIDE DEF u, c
    <3> QED  BY <1>4, <3>1, <3>2, <3>3
  <2> QED  BY <2>1, <2>2
<1>6. SumTo(T) \in Int
  BY <1>3, <1>4
<1> QED  BY <1>1, <1>5, <1>6

\* One more index adds its value.
LEMMA SumAddElement ==
    ASSUME NEW S, IsFiniteSet(S), NEW x, x \notin S,
           NEW f, \A y \in S \cup {x} : f[y] \in Int
    PROVE  /\ SumFunctionOnSet(f, S) \in Int
           /\ SumFunctionOnSet(f, S \cup {x}) = SumFunctionOnSet(f, S) + f[x]
<1>1. IsFiniteSet(S \cup {x})
  BY FS_AddElement
<1>2. (S \cup {x}) \ {x} = S
  OBVIOUS
<1>3. SumFunctionOnSet(f, S) \in Int
  BY SumRemove
<1> QED  BY <1>1, <1>2, <1>3, SumRemove

\* The sum depends on the values at its indices only.
LEMMA SumAgree ==
    ASSUME NEW S, IsFiniteSet(S), NEW f, NEW g,
           \A x \in S : f[x] \in Int /\ g[x] = f[x]
    PROVE  SumFunctionOnSet(g, S) = SumFunctionOnSet(f, S)
<1> DEFINE Good == {T \in SUBSET S : SumFunctionOnSet(g, T) = SumFunctionOnSet(f, T)}
<1>1. {} \in Good
  BY SumEmpty
<1>2. ASSUME NEW T \in SUBSET S, NEW x \in S \ T, T \in Good
      PROVE  T \cup {x} \in Good
  <2>1. IsFiniteSet(T)
    BY FS_Subset
  <2>2. \A y \in T \cup {x} : f[y] \in Int /\ g[y] \in Int
    OBVIOUS
  <2>3. SumFunctionOnSet(f, T \cup {x}) = SumFunctionOnSet(f, T) + f[x]
    BY <2>1, <2>2, SumAddElement
  <2>4. SumFunctionOnSet(g, T \cup {x}) = SumFunctionOnSet(g, T) + g[x]
    BY <2>1, <2>2, SumAddElement
  <2>5. g[x] = f[x]
    OBVIOUS
  <2>6. SumFunctionOnSet(f, T) = SumFunctionOnSet(g, T)
    BY <1>2
  <2>7. SumFunctionOnSet(f, T \cup {x}) = SumFunctionOnSet(g, T \cup {x})
    BY <2>3, <2>4, <2>5, <2>6
  <2> QED  BY <2>7
<1> HIDE DEF Good
<1>3. S \in Good
  BY <1>1, <1>2, SubsetInduction
<1> QED  BY <1>3 DEF Good

\* A change at one index changes the sum by as much.
LEMMA SumUpdate ==
    ASSUME NEW S, IsFiniteSet(S), NEW x \in S, NEW f, NEW g,
           \A y \in S : f[y] \in Int /\ g[y] \in Int /\ (y # x => g[y] = f[y])
    PROVE  /\ SumFunctionOnSet(f, S) \in Int
           /\ SumFunctionOnSet(g, S) = SumFunctionOnSet(f, S) + g[x] - f[x]
<1>1. /\ SumFunctionOnSet(f, S) \in Int
      /\ SumFunctionOnSet(f, S) = f[x] + SumFunctionOnSet(f, S \ {x})
      /\ SumFunctionOnSet(f, S \ {x}) \in Int
  BY SumRemove
<1>2. SumFunctionOnSet(g, S) = g[x] + SumFunctionOnSet(g, S \ {x})
  BY SumRemove
<1>3. SumFunctionOnSet(g, S \ {x}) = SumFunctionOnSet(f, S \ {x})
  BY SumAgree, FS_Subset
<1> QED  BY <1>1, <1>2, <1>3

-----------------------------------------------------------------------------
(* Every unit is in a balance, with an intent, or has left.                *)

\* An intent without a row is one whose request has reserved nothing.
RowInv ==
    \A i \in Intents :
        /\ route[i] = "idle" => status[i] = "none"
        /\ status[i] = "none" => /\ route[i] \in {"idle", "done"}
                                 /\ ~inFlight[i] /\ transfer[i] = NoTransfer
                                 /\ releases[i] = 0

LEMMA RowInvStep ==
    ASSUME TypeOK, BackedInv, RowInv, [Next]_vars
    PROVE  RowInv'
<1> USE DEF RowInv, TypeOK
<1>1. ASSUME NEW i \in Intents, Route(i) PROVE RowInv'
  <2>1. CASE Reserve(i) BY <2>1 DEF Reserve
  <2>2. CASE RejectInsufficient(i) \/ RailReturns(i) \/ RailThrows(i)
             \/ RouteConfirmThrows(i) \/ RouteReleaseThrows(i) \/ RouteCrashes(i)
    BY <2>2 DEF RejectInsufficient, RailReturns, RailThrows, RouteConfirmThrows,
       RouteReleaseThrows, RouteCrashes
  <2>3. CASE CallRail(i) BY <2>3 DEF CallRail
  <2>4. CASE RouteConfirms(i) BY <2>4 DEF RouteConfirms, ConfirmWithdrawal
  <2>5. CASE RouteReleases(i) BY <2>5 DEF RouteReleases, ReleaseWithdrawal
  <2> QED BY <1>1, <2>1, <2>2, <2>3, <2>4, <2>5 DEF Route
<1>2. ASSUME NEW i \in Intents, Rail(i) PROVE RowInv'
  BY <1>2 DEF Rail, RailAccepts, RailRefuses
<1>3. ASSUME UNCHANGED <<route, status, inFlight, transfer, releases>> PROVE RowInv'
  BY <1>3
<1>4. ASSUME NEW i \in Intents, NEW k \in Deliveries, Hook(i, k) PROVE RowInv'
  <2>1. CASE HookConfirms(i, k)
    <3>1. status[i] # "none"
      BY <2>1 DEF HookConfirms, HookStep, BackedInv, Backed
    <3> QED BY <2>1, <3>1 DEF HookConfirms, ConfirmWithdrawal
  <2>2. CASE ~HookConfirms(i, k)
    BY <1>3, <1>4, <2>2 DEF Hook, HookReads, HookChecks, HookPublishes, HookGivesUp
  <2> QED BY <2>1, <2>2
<1>5. CASE Reconcile \/ SweepFails \/ Tick \/ UNCHANGED vars
  BY <1>3, <1>5, SweepFrames DEF Tick, vars
<1> QED BY <1>1, <1>2, <1>4, <1>5 DEF Next

\* What intent i still holds of the balance it was reserved from.
Held == [i \in Intents |-> Amount[i] * (1 - releases[i])]

\* The intents of d that have a row.
Reserved(d) == {i \in Intents : Owner[i] = d /\ status[i] # "none"}

\* Both are functions of integers over finite sets, before and after a step.
LEMMA HeldType ==
    ASSUME TypeOK
    PROVE  /\ \A i \in Intents : /\ Owner[i] \in Dids /\ Amount[i] \in Int
                                 /\ Held[i] = Amount[i] * (1 - releases[i])
                                 /\ Held[i] \in Int
           /\ \A d : IsFiniteSet(Reserved(d)) /\ Reserved(d) \in SUBSET Intents
           /\ \A d : Outstanding(d) = SumFunctionOnSet(Held, Reserved(d))
<1>1. \A d : IsFiniteSet(Reserved(d)) /\ Reserved(d) \in SUBSET Intents
  BY ConstantsAssumption, FS_Subset DEF Reserved
<1>2. ASSUME NEW i \in Intents
      PROVE  /\ Owner[i] \in Dids /\ Amount[i] \in Int
             /\ Held[i] = Amount[i] * (1 - releases[i]) /\ Held[i] \in Int
  <2>1. Amount[i] \in Int /\ releases[i] \in Int /\ Owner[i] \in Dids
    BY ConstantsAssumption DEF TypeOK
  <2>2. \A m, n \in Int : m * (1 - n) \in Int
    OBVIOUS
  <2> QED BY <2>1, <2>2 DEF Held
<1> QED BY <1>1, <1>2 DEF Outstanding, Held, Reserved

\* reserveWithdrawal takes from the balance what it gives to the intent.
LEMMA ReserveConserves ==
    ASSUME TypeOK, TypeOK', RowInv, Conservation, NEW i \in Intents, Reserve(i)
    PROVE  Conservation'
<1> SUFFICES ASSUME NEW d \in Dids
             PROVE  balance'[d] + Outstanding(d)' = InitialBalance[d]
  BY DEF Conservation
<1>1. /\ Held' = Held /\ Held[i] = Amount[i] /\ i \notin Reserved(d)
      /\ Reserved(d)' = IF Owner[i] = d THEN Reserved(d) \cup {i} ELSE Reserved(d)
      /\ balance'[d] = IF Owner[i] = d THEN balance[d] - Amount[i] ELSE balance[d]
  BY HeldType DEF Reserve, TypeOK, Held, Reserved, RowInv
<1>2. /\ Outstanding(d) = SumFunctionOnSet(Held, Reserved(d))
      /\ Outstanding(d)' = SumFunctionOnSet(Held, Reserved(d)')
  BY <1>1, HeldType DEF Outstanding, Held, Reserved
<1>3. /\ SumFunctionOnSet(Held, Reserved(d)) \in Int
      /\ SumFunctionOnSet(Held, Reserved(d) \cup {i})
            = SumFunctionOnSet(Held, Reserved(d)) + Amount[i]
  <2>1. /\ IsFiniteSet(Reserved(d)) /\ i \notin Reserved(d)
        /\ \A j \in Reserved(d) \cup {i} : Held[j] \in Int
    BY <1>1, HeldType
  <2>2. Held[i] = Amount[i]
    BY <1>1
  <2> QED BY <2>1, <2>2, SumAddElement
<1>4. balance[d] + Outstanding(d) = InitialBalance[d] /\ balance[d] \in Int /\ Amount[i] \in Int
  BY HeldType DEF Conservation, TypeOK
<1> QED BY <1>1, <1>2, <1>3, <1>4

\* releaseWithdrawal gives back what it takes from the intent, each time.
LEMMA ReleaseConserves ==
    ASSUME TypeOK, TypeOK', RowInv, Conservation, NEW i \in Intents, RouteReleases(i)
    PROVE  Conservation'
<1> SUFFICES ASSUME NEW d \in Dids
             PROVE  balance'[d] + Outstanding(d)' = InitialBalance[d]
  BY DEF Conservation
<1> DEFINE HeldAfter == Held'
<1>1. /\ Reserved(d)' = Reserved(d)
      /\ i \in Reserved(d) <=> Owner[i] = d
      /\ \A j \in Intents : /\ HeldAfter[j] \in Int
                            /\ j # i => HeldAfter[j] = Held[j]
      /\ HeldAfter[i] = Held[i] - Amount[i]
      /\ balance'[d] = IF Owner[i] = d THEN balance[d] + Amount[i] ELSE balance[d]
  <2>1. /\ releases' = [releases EXCEPT ![i] = @ + 1]
        /\ status' = [status EXCEPT ![i] = "failed"] /\ status[i] # "none"
        /\ balance' = [balance EXCEPT ![Owner[i]] = @ + Amount[i]]
    BY DEF RouteReleases, ReleaseWithdrawal, RowInv
  <2>2. \A j \in Intents : releases'[j] = IF j = i THEN releases[j] + 1 ELSE releases[j]
    BY <2>1 DEF TypeOK
  <2>3. \A j \in Intents : HeldAfter[j] = Amount[j] * (1 - releases'[j])
    BY DEF Held
  <2>4. HeldAfter[i] = Held[i] - Amount[i]
    <3>1. Amount[i] \in Int /\ releases[i] \in Int
      BY HeldType DEF TypeOK
    <3>2. \A m, n \in Int : m * (1 - (n + 1)) = m * (1 - n) - m
      OBVIOUS
    <3>3. Amount[i] * (1 - (releases[i] + 1)) = Amount[i] * (1 - releases[i]) - Amount[i]
      BY <3>1, <3>2
    <3> HIDE DEF HeldAfter
    <3> QED BY <2>2, <2>3, <3>3, HeldType
  <2>5. \A j \in Intents : j # i => HeldAfter[j] = Held[j]
    <3> HIDE DEF HeldAfter
    <3> QED BY <2>2, <2>3, HeldType
  <2>6. \A j \in Intents : HeldAfter[j] \in Int
    <3> HIDE DEF HeldAfter
    <3> QED BY <2>4, <2>5, HeldType
  <2>7. /\ Reserved(d)' = Reserved(d)
        /\ i \in Reserved(d) <=> Owner[i] = d
    BY <2>1 DEF Reserved, TypeOK
  <2>8. balance'[d] = IF Owner[i] = d THEN balance[d] + Amount[i] ELSE balance[d]
    BY <2>1 DEF TypeOK
  <2> HIDE DEF HeldAfter
  <2> QED BY <2>4, <2>5, <2>6, <2>7, <2>8
<1>2. /\ Outstanding(d) = SumFunctionOnSet(Held, Reserved(d))
      /\ Outstanding(d)' = SumFunctionOnSet(HeldAfter, Reserved(d))
  BY <1>1, HeldType DEF Outstanding, Held, Reserved
<1>3. /\ balance[d] + Outstanding(d) = InitialBalance[d] /\ balance[d] \in Int
      /\ Amount[i] \in Int /\ Held[i] \in Int
  BY HeldType DEF Conservation, TypeOK
<1>4. /\ IsFiniteSet(Reserved(d)) /\ Reserved(d) \in SUBSET Intents
      /\ \A j \in Intents : Held[j] \in Int
  BY HeldType
<1> HIDE DEF HeldAfter
<1>5. CASE Owner[i] = d
  <2>1. /\ SumFunctionOnSet(Held, Reserved(d)) \in Int
        /\ SumFunctionOnSet(HeldAfter, Reserved(d))
              = SumFunctionOnSet(Held, Reserved(d)) + HeldAfter[i] - Held[i]
    BY <1>1, <1>4, <1>5, SumUpdate
  <2> QED BY <1>1, <1>2, <1>3, <1>5, <2>1
<1>6. CASE Owner[i] # d
  <2>1. SumFunctionOnSet(HeldAfter, Reserved(d)) = SumFunctionOnSet(Held, Reserved(d))
    BY <1>1, <1>4, <1>6, SumAgree
  <2> QED BY <1>1, <1>2, <1>3, <1>6, <2>1
<1> QED BY <1>5, <1>6

\* Every other step leaves the balances, the releases and which intents have a
\* row as they are.
LEMMA OthersConserve ==
    ASSUME TypeOK, BackedInv, RowInv, [Next]_vars,
           \A i \in Intents : ~Reserve(i) /\ ~RouteReleases(i)
    PROVE  /\ UNCHANGED <<balance, releases>>
           /\ \A i \in Intents : status'[i] = "none" <=> status[i] = "none"
<1> USE DEF TypeOK
<1>1. ASSUME NEW i \in Intents, Route(i) \/ Rail(i)
      PROVE  /\ UNCHANGED <<balance, releases>>
             /\ \A j \in Intents : status'[j] = "none" <=> status[j] = "none"
  <2>1. CASE RouteConfirms(i)
    BY <2>1 DEF RouteConfirms, ConfirmWithdrawal, RowInv
  <2>2. CASE ~RouteConfirms(i)
    BY <1>1, <2>2 DEF Route, Rail, RejectInsufficient, CallRail, RailReturns,
       RailThrows, RouteConfirmThrows, RouteReleaseThrows, RouteCrashes,
       RailAccepts, RailRefuses
  <2> QED BY <2>1, <2>2
<1>2. ASSUME NEW i \in Intents, NEW k \in Deliveries, Hook(i, k)
      PROVE  /\ UNCHANGED <<balance, releases>>
             /\ \A j \in Intents : status'[j] = "none" <=> status[j] = "none"
  <2>1. CASE HookConfirms(i, k)
    <3>1. status[i] # "none"
      BY <2>1 DEF HookConfirms, HookStep, BackedInv, Backed, RowInv
    <3> QED BY <2>1, <3>1 DEF HookConfirms, ConfirmWithdrawal
  <2>2. CASE ~HookConfirms(i, k)
    BY <1>2, <2>2 DEF Hook, HookReads, HookChecks, HookPublishes, HookGivesUp
  <2> QED BY <2>1, <2>2
<1>3. CASE Reconcile \/ SweepFails \/ Tick \/ UNCHANGED vars
  BY <1>3, SweepFrames DEF Tick, vars
<1> QED BY <1>1, <1>2, <1>3 DEF Next

\* The ledger can be audited from its rows: through any crash, failed
\* confirmation, failed release, duplicate delivery and any interleaving of the
\* requests of one account, its balance and the amounts its intents hold add up
\* to what it started with.
THEOREM WithdrawalsConserve == Spec => []Conservation
<1>1. Init => BackedInv /\ RowInv /\ Conservation
  <2> SUFFICES ASSUME Init PROVE BackedInv /\ RowInv /\ Conservation
    OBVIOUS
  <2>1. BackedInv /\ RowInv
    BY DEF Init, BackedInv, Backed, RowInv
  <2>2. ASSUME NEW d \in Dids PROVE balance[d] + Outstanding(d) = InitialBalance[d]
    <3>1. {i \in Intents : Owner[i] = d /\ status[i] # "none"} = {}
      BY DEF Init
    <3>2. Outstanding(d) = 0
      BY <3>1, SumEmpty DEF Outstanding
    <3> QED BY <3>2, ConstantsAssumption DEF Init
  <2> QED BY <2>1, <2>2 DEF Conservation
<1>2. TypeOK /\ TypeOK' /\ BackedInv /\ RowInv /\ Conservation /\ [Next]_vars
        => BackedInv' /\ RowInv' /\ Conservation'
  <2> SUFFICES ASSUME TypeOK, TypeOK', BackedInv, RowInv, Conservation, [Next]_vars
               PROVE  BackedInv' /\ RowInv' /\ Conservation'
    OBVIOUS
  <2>1. BackedInv' /\ RowInv'
    BY TransferStays, BackedNeedsTransfer, RowInvStep DEF BackedInv
  <2>2. CASE \E i \in Intents : Reserve(i) \/ RouteReleases(i)
    BY <2>1, <2>2, ReserveConserves, ReleaseConserves
  <2>3. CASE \A i \in Intents : ~Reserve(i) /\ ~RouteReleases(i)
    <3>1. /\ UNCHANGED <<balance, releases>>
          /\ \A i \in Intents : status'[i] = "none" <=> status[i] = "none"
      BY <2>3, OthersConserve
    <3>2. ASSUME NEW d \in Dids PROVE Outstanding(d)' = Outstanding(d)
      <4>1. {i \in Intents : Owner[i] = d /\ status'[i] # "none"}
              = {i \in Intents : Owner[i] = d /\ status[i] # "none"}
        BY <3>1
      <4> QED BY <3>1, <4>1 DEF Outstanding
    <3> QED BY <2>1, <3>1, <3>2 DEF Conservation
  <2> QED BY <2>2, <2>3
<1> QED BY <1>1, <1>2, TypeCorrect, PTL DEF Spec
=============================================================================

# Verification of imajin

TLA+ specifications of the parts of imajin whose correctness depends on what happens at the same
time or fails half way: money that leaves through an external rail, the balance ledger, paid
checkouts and their refunds, the tickets of an event, the custody of vault secrets, the end of an
agent's run, decisions on a confirm card, and stub identities waiting for their owner.  Each module
is translated from the code; TLC checks it on a small instance, and TLAPS proves its main properties
for every instance.

Paths below are relative to `src/`; `kernel/` stands for `src/apps/kernel/`.  `PROJECT.json` holds
the map from every definition to the lines it models.

## 1. The system

imajin is a monorepo of Next.js services over one PostgreSQL database per node.  The **kernel**
offers identity, attestation, communication, attribution (.fair chains), settlement, discovery and
revocation; small **apps** (events, market, coffee, learn, links, surveys, corpus, a broker agent)
call it over HTTP, and shared **packages** hold the event bus, the vault core and validation.
Requests are handled by any number of concurrent handlers, on one or more processes, with
PostgreSQL at READ COMMITTED; most handlers do *not* run in a transaction.  Cron endpoints run
sweeps.  Stripe, mail, model providers and the owner's agent are outside.

How components interact:

- apps -> kernel: HTTP with a service key (checkout, settle, refund); kernel -> apps: an HTTP
  notification after a paid checkout, which fails silently.
- anything -> bus: `publish` runs the reactors configured for an event type in the same process;
  a reactor that fails is logged and the publication still succeeds.
- Stripe -> kernel: webhooks, redelivered until answered with success, in any order.
- cron -> kernel: sweeps that read tables other handlers are writing.
- owner agent -> kernel: polls worklists for grants to issue, and posts its answers later.

### Inventory

| component | where | state | operations | what is hard | what makes it correct |
|---|---|---|---|---|---|
| Withdrawals | `kernel/src/lib/pay/withdraw-intent.ts`, `providers/stripe-withdraw-rail.ts`, `app/pay/api/balance/withdraw` | balances, intents, receipts and releases | reserve, rail call, confirm, release, confirm from webhook | crash or ambiguous error between debit and transfer; webhook racing the route | nothing is paid twice or lost; a recorded payment has a transfer |
| Withdrawal reconciliation | `kernel/src/lib/pay/reconciliation.ts`, `app/api/cron/withdrawal-reconcile` | watermark, discrepancy attestations | list the rail, classify transfers and pending intents, attest | lists and rows read at different times; failed publications; page limit | every stranded transfer is reported; the bucket an operator may return is safe |
| Ledger | `kernel/src/lib/pay/ledger.ts`, `balance/transfer`, `gift`, `event-topup` | `pay.balances` | guarded debits and credits in transactions | lock order, stale reads, partial transactions | no overdraft; all or nothing; units are conserved |
| Settlement | `kernel/src/lib/pay/settle-core.ts` | balances, settlement rows | check the balance, then debit the payer and credit a chain | the check is outside the transaction | as the ledger |
| Checkout webhook | `kernel/app/pay/api/webhook`, `src/lib/pay/webhook-handlers.ts` | transaction row, fee ledger, balances, rollups | mark completed, distribute the chain, notify | redelivery, overlap, failure after the marking | each share is accounted for; services hear of it last |
| Refunds | `kernel/app/pay/api/refund`, `src/lib/pay/refund.ts` | refund rows, settlement rows, balances | check, call Stripe, mark, record, claw back, reverse | lost answers, concurrent partial refunds | every movement is backed; nothing is over-reversed |
| Single-credit routes | `balance/topup`, manual deposits, `emission` | balances, log rows | one credit and its row | the emission's two statements | a credit has a row |
| Vault custody | `kernel/src/lib/vault/index.ts`, `app/api/vault`, `packages/vault-core` | vault file, envelopes, grants, grant requests | seal, grant, renew, revoke, expire, supersede, erase | several writes per seal without a lock; erasing the last copy | the field can always be opened by its owner; retired grants lose their key |
| Vault migration, sealing | `vault/migrate-custody.ts`, `vault-core/src/rotation.ts` | the same | re-seal under new custody | a migration interrupted or racing a seal | as vault custody |
| Decisions | `consent-requests.ts`, `operator-approvals-service.ts`, `auth/knock.ts` | request rows, signed decisions | decide once: approve, reject, withdraw, apply, expire | the guarded update's row count is ignored | one signed decision per request |
| Claimable stubs | `auth/claimable-stub.ts`, `consume-invite.ts`, `app/auth/api/onboard`, `session/soft`, `register`, `app/connections/api/invites` | identities, stub index, credentials, invites | mint, accrue, verify, accept, activate, expire | check-then-act in several tables; two halves in either order | the second half turns the stub; a lapsed stub is not claimed |
| Knocks and recovery codes | `auth/knock.ts`, `auth/recovery-codes.ts` | knocks, codes | knock, accept, decline; issue, redeem | unguarded writes after a read | a code works once |
| Identity and grants | `auth/grants.ts`, `register.ts` | identities, sessions, scopes | register, log in, check a scope | little: request-local checks | a scope is honoured while it is granted |
| Connections | `app/connections`, `app/chat/api/invites` | pods, invites | accept, disconnect | counters read and written back | an invite is used at most `maxUses` times |
| Warp runs | `warp/dispatch.ts`, `run-watch-sweep.ts` | runs, terminal claims | dispatch, watch, sweep, resume | dispatcher and sweep race to publish; crash after the claim | exactly one terminal outcome per segment |
| Inference and usage | `inference/*`, `usage/*` | usage rows, rollup publications | call a provider, record cost, enforce a cap, roll up | cap checked before, cost recorded after | spend stays near the cap; a period is billed once |
| Event bus | `packages/bus` | reactor configuration, supply lots | publish, react | reactors fail silently | an effect is applied once |
| Events: tickets and orders | `apps/events` | ticket types, tickets, orders, invites, queue | hold, check out, confirm, cancel, refund, check in | holds expire while payments arrive; unguarded status writes | no oversell; final states are final |
| Market, coffee, learn, links, surveys | `apps/*` | single rows each | call checkout and settle | little of their own | follow the kernel |
| Profiles and presence, chat, media, connectors, MCP tools, relay registry, retrace, www, federation, calendar, admin | `kernel/src/lib/*` | mostly single rows, OAuth tokens | reads, inserts, provider calls | a paid presence query settles after it was answered | access checks |
| Corpus, broker agent | `apps/corpus`, `apps/broker-agent` | a document index; none | search; chat commands | little | -- |
| Attribution and money | `packages/fair`, `money`, `pay` | none | validate a manifest, decimal arithmetic, provider adapter | rounding | shares add up |
| Supporting packages | `packages/{auth,auth-client,chat,cid,claw-*,config,db,dfos,email,emit,input,llm,logger,media,notify,onboard,tokens,trust-graph,ui,...}` | none | formatting, clients, schema | -- | -- |

The hazards found while reading, each at its line, are in `PROJECT.json` under `hazards`, with the
properties that would catch them; a hazard without a property says why it has none.

## 2. Modules

| module | extends | what it is |
|---|---|---|
| `Withdraw` | | a withdrawal, its rail, the rail's webhook and the reconciliation sweep |
| `WithdrawProofs`, `MCWithdraw` | `Withdraw` | theorems; instances |
| `LedgerAtomic` | | the promise of the ledger: a transaction takes effect at once, covered, or not at all |
| `Ledger` | instances `LedgerAtomic` | transactions statement by statement, with row locks |
| `LedgerRoutes` | | the statements each pay route sends |
| `LedgerProofs`, `MCLedger` | `Ledger`, `LedgerRoutes` | theorems and the refinement; instances that put the routes' programs on one ledger |
| `Checkout` | | webhook deliveries and refunds of one checkout |
| `CheckoutProofs`, `MCCheckout` | `Checkout` | theorems; instances |
| `Vault` | | custody of one vault field |
| `VaultProofs`, `MCVault` | `Vault` | theorems; instances |
| `TicketLife` | | the promise about a ticket: it is issued once, and what is closed stays closed |
| `Tickets` | instances `TicketLife` | the tickets of one type: purchases by every route, refunds, check-in |
| `TicketsProofs`, `MCTickets` | `Tickets` | theorems and the refinement; instance |
| `RunWatch` | | the end of an agent run: dispatch, follow-ups, their watches, the sweep and the event log |
| `RunWatchProofs`, `MCRunWatch` | `RunWatch` | theorems; instance |
| `DecisionLife` | | the promise of a confirm card: a question is answered once |
| `Decisions` | instances `DecisionLife` | an operator approval or a consent request |
| `DecisionsProofs`, `MCDecisions` | `Decisions` | theorems and the refinement; instance |
| `ClaimStub` | | the stub identities of one address, invites to it and the ratchet |
| `ClaimStubProofs`, `MCClaimStub` | `ClaimStub` | theorems; instances |

### Withdraw

One action per database transaction, per statement outside one, and per call to the rail or the
bus.  `route[i]` is the program counter of `POST balance/withdraw` for intent `i`; `status`,
`createdAt`, `receipts` and `releases` are what its rows say; `inFlight` and `transfer` are the
rail's.  `hook[i][k]` is the k-th delivery of the webhook, which reads the row in one step and acts
on what it read in a later one, as the handler does.  `sweep` holds the local variables of
`runReconciliation`, `watermark` its persistent one and `attested` the attestations.

The rail is external and modelled from its calls: it keeps one transfer per idempotency key, may
refuse, and may accept a request whose caller has given up.  `Faults` names the failures that may
happen, so each run says what it assumes away: process crashes, an error that says nothing about
what the rail did, a confirmation or a release that does not commit, a dedup query that fails (read
as "not attested"), a publication that fails (logged), a sweep that throws.

Two actions are guarded by time: the sweep's grace period and `Tick`, which keeps the rail from
deciding a request more than `MaxCall` ticks after its reservation.

### Ledger, LedgerRoutes, LedgerAtomic

A transaction is a program: a sequence of guarded debits, debits, credits and checks
(`LedgerRoutes`, one definition per route).  `Ledger` runs programs under READ COMMITTED:
`balance` is the committed version of a row, `working` the newest, `holder` who has it locked.  A
statement that waits sees the newest version afterwards; one whose WHERE clause does not match the
committed version ends at once; a ring of waiting transactions is broken by aborting one.  A check
outside a transaction (settlement's) is a program of one check, and `After` chains it to the
transaction that follows it in the same request.  `Mint` and `Effect` are data derived from the
programs (what a program adds to each row): they are constants, computed by `MCLedger` and tied to
`Program` by `EffectAssumption`, because a running sum over a sequence cannot be reasoned about by
the provers as a recursion.

The refinement maps `phase` to `Outcome`, with "idle" and "open" both "waiting"; `balance` is the
same variable.  `AtomicSpec` is checked as a PROPERTY and proved as a theorem.

### Checkout

None of the handler is transactional (but a top-up's credit), so every statement is a step.  A
delivery runs `Slots` in order: three statements for the processor's fee (entry 0), then row, credit
and rollup for every entry of the chain; `Runs(i)` says which of them the code skips.  `ran[i]`
counts how often a statement has run, whoever ran it.  `Deliver` is the read of the row, `Mark` the
unconditional update.  The events service settles the order (`EventsSettle`) when it was told.
A refund's `pc` walks `checkRefundEligibility`, the Stripe call, `applyRefundLedgerUpdates`,
`adjustBalancesForRefund` and `reverseSettlementEntries`; what it read (`seen`, `full`, `entries`)
stays in its own record, so it may be stale.  A refund may name no amount (`RefundAmount` 0): the code
then books all of the payment (`Booked`), while Stripe, asked without an amount, gives back what is left
of the charge (`Asked`), and `made` is what it gave.  `reversed` and `debited` are in units of one
`Total`-th of an entry, which is how the code scales a reversal.

### Vault

A key is named by the seal that generated it, which makes "opens the entry" an equality.  A grant is
from a subject to a grantee (`pair`): `sealAndStoreV2`, and so a rotation, grants from the node to itself
(`Self`), `sealAndGrantStaticSecret` from a principal to a connector's app (`Static`); entry and envelope
are the field's.  A seal writes the entry (`SetEntry`, under the file lock), then the owner's envelope, and
then in tier 0 supersedes the active grant of its pair, erases its key and inserts its own; in tier 1 it
queues a request.  The grant of another pair stays as it is.  The three revocations take different grants
(`Revocable`): what the node granted, what an app was granted, or all of the field.  The owner agent is
external: it reads a worklist in one step, which names the grantee and for a renewal leaves the subject to
the agent (`ReadEnvelope`), and posts in another.  The unique index allows a pair one active grant and
makes an insert collide; a seal heals that once (`insertActiveGrant`), a POST does not.  `overlap` is chosen at the start: the lock of
`vault-core/src/lock.ts` covers the entry, nothing covers a whole seal, so both are checked.

### Tickets, TicketLife

One ticket type.  A purchase (`Orders`) is made by one of five routes (`Methods`): an e-transfer that
holds tickets until an organiser confirms, a payment from the balance, a Stripe session whose webhook
creates the tickets, a free ticket, a hold.  The events app uses no transaction here, so a request is a
task: `task[r]` holds the operation it is at, and the rows it has read and acts on (`tickets`, and
the `sold` count availability is judged by).  Every write is a step, and
`Die` may end a task between any two.  `serial` becomes FALSE when two requests that are not both
confirmations work on the same tickets, one dies halfway, or a decrement of the count fails (which the
code logs); what the code only keeps without that is stated under it.  `issued` records the tickets that ever were valid, for `SoldNeverOvercounts`.

The refinement maps a status to the stage of `TicketLife`: used, cancelled, refunded, deleted, released
(`available`) and the refund in progress are all "closed".

### RunWatch

The run is Warp's and external: `run`, `segment` and an accepted resume that has yet to take effect.
`log` is what was published, in the order of the timestamps.  Nobody waits for an event's row: it is
`queued`, and then it is written (`WriteRow`), in any order, or lost (`LoseRow`), because the insert
failed, which the bus logs and does not repeat, or the process died first.  A watch (`Poll`,
`NotifyIfBlocked`) knows its segment from the request that armed it; the sweep works it out from the
rows that are there (`ListInFlight`), reads the run, looks for an end in the log, and like the watch
claims the segment in a table before it publishes.  A follow-up counts the resumes before it sends
(`CountResumes`).  `GiveUp` is a process that is suspended, dies, times out or fails; between claim
and publication only if `ClaimantDies`.  `clean` is FALSE once somebody has read a state that Warp was
about to leave.  A sweep's lookback is a choice (`ReadRun`): a run that works may be past it.

### Decisions, DecisionLife

One question, in one of the two tables (`kind`); the two services have the same shape and differ in
where a decision is signed (a consent request inserts a signed row first), in expiry, and in what may
follow.  A request reads the row and passes its guard, signs, changes the row with an update that
names the status it requires, and publishes whether the update changed a row or not.  `late`, `took`
and `overlap` record what the properties are about.  The refinement maps the row's status, and the
verdict of the request the row names, to `DecisionLife`.

### ClaimStub

The identities of one email address.  A call (`call[c]`) is one HTTP request: an invite to the
address, a soft session, an onboarding with its e-mail verified, a registration with a key, an accept,
a revocation, the expiry cron.  `at` is the next statement, `did` the identity it answers with,
`target` the one it is about to turn, `work` the invites it is to write.  Any number of calls runs,
`Calls` of them at once.  The sweep's transaction has two steps, because a READ COMMITTED transaction
does not keep out a claim that commits between its reads and its writes.

Abstracted: which of revoked and declined an invite is closed with; the two reads of
`isUnclaimedStub` are one step; onboarding tokens, link invites, pods, connections, attestations and
the credits of a stub; a contact address in a profile, which may name an identity without a
credential.

### Mutants

A few definitions are preceded by a deliberately wrong variant.  They are used nowhere in the
modules: each stands for a plausible bug, and replacing the definition by it makes TLC refute the
property named here.

| property | definition | variant | the bug |
|---|---|---|---|
| `Withdraw!TypeOK` | `NewWatermark` | `WatermarkOneBehind` | an off-by-one in the watermark |
| `Conservation` | `ReleaseWithdrawal` | `ReleaseWithoutRow` | a release that writes no row |
| `CompletedIsBacked` | `RailReturns` | `RailReturnsUnchecked` | confirming before the rail has answered |
| `ReleasedOnce` | `RouteReleases` | `RouteReleasesAndRetries` | a release that may be retried |
| `SafeBucketIsSafe` | `WithinGrace` | `WithinGraceNever` | no grace period |
| `NoDoublePayout` | `RouteConfirms` | `RouteConfirmsThenThrows` | the response inside the try block |
| `StrandedTransferIsReported` | `NewWatermark` | `WatermarkAtTheEnd` | the watermark taken when the run ends |
| `Ledger!TypeOK` | `RunCheck` | `ChecksOnAfter` | a check that skips a statement |
| `Ledger!NonNegative` | `Guard` | `GuardIgnored` | no WHERE clause |
| `UnitsAreConserved` | `Gift` | `GiftMintsCredits` | a gift that debits one unit only |
| `AtomicSpec` | `Refuse` | `RefuseWithoutRollback` | no rollback |
| `EveryTransactionEnds` | `Refuse` | `KeepTrying` | a debit that is not covered is tried again in the open transaction, which keeps its locks, instead of thrown out of it |
| `Checkout!TypeOK` | `WorkOn` | `WorkOnPastEnd` | an off-by-one in the loop |
| `CreditsHaveRows` | `Ops` | `CreditFirst` | credit before row |
| `ToldAfterDistribution` | `Finish` | `Notify` | notifying without waiting |
| `RefundsAreBacked` | `RefundMarks` | `MarkSkipsRow` | a refund that is not recorded |
| `OverReversedOnlyUnseen` | `StripeRefuses` | `RefusalIgnored` | an error of Stripe taken for success |
| `PaidIsDistributed` | `Fail` | `FailureAcked` | a failed delivery answered with success |
| `Vault!TypeOK` | `SweepExpired` | `SweepMarksExpired` | a status the column does not have |
| `EnvelopeTracksEntry` | `WriteEnvelope` | `KeepFirstEnvelope` | insert-if-absent instead of an upsert |
| `ActiveGrantOpensEntry` | `Supersede` | `SupersedeOnCollision` | superseding only on a collision |
| `RetiredGrantIsErased` | `Revoke` | `RevokeKeepsKeys` | a revocation that only changes the status |
| `Tickets!TypeOK` | `Uncount` | `UncountUnclamped` | no `GREATEST(0, ...)` |
| `SoldNeverOvercounts` | `ConfirmTickets` | `ConfirmCountsRead` | counting the tickets read instead of those the update returned |
| `SoldIsExact` | `RefundTicket` | `RefundKeepsSold` | a refund that does not give the place back |
| `OrdersAgree` | `IsDuplicate` | `NeverDuplicate` | no look at the session's order |
| `TicketsHaveOneLife` | `Confirmable` | `ConfirmableByIdAlone` | an update without its status guard |
| `RunWatch!TypeOK` | `CountResumes` | `CountNothing` | a watch that is not told its segment |
| `ReportedOnce` | `Claim` | `ClaimAnyway` | ignoring the answer of the claim |
| `ReportsAreReal` | `ListInFlight` | `ListOneTooFar` | the sweep counts the segment as a follow-up does |
| `EndIsReported` | `InFlightSince` | `ResumedSince` | only resumed runs are listed |
| `BlockedIsTold` | `Nudge` | `NudgeNobody` | a blocked run is only counted |
| `Decisions!TypeOK` | `UpdateRow` | `UpdateStatusOnly` | the status without the decision |
| `DecidedInTime` | `Decide` | `DecideWhenever` | the due time is not looked at |
| `PublishedStands` | `Decide` | `DecideUnread` | the status is not looked at |
| `DecisionsHaveOneLife` | `InsertProposal` | `UpsertProposal` | a retry that puts the row back to pending |
| `ClaimStub!TypeOK` | `IndexStub` | `IndexStubAnyway` | no unique index |
| `RatchetCloses` | `WriteAccept` | `WriteAcceptOnly` | an accept that does not try the ratchet |
| `ClaimedFromBothSides` | `CheckStub` | `CheckLiveOnly` | the claimant's half is not asked for |
| `LapsedIsNotClaimed` | `CheckStub` | `CheckVerifiedOnly` | the stub's status is not asked for |

## 3. Runs

`tlc -config <cfg> <module>` in this directory.  Passing runs:

| run | instance | what it shows |
|---|---|---|
| `withdraw_safety` | two withdrawals of one DID whose balance covers one at a time, every failure, one delivery per transfer | types, conservation, recorded payments are backed, one release per reservation, the safe bucket is safe |
| `withdraw_liveness` | one withdrawal, two deliveries, every failure but an ambiguous error, a confirmation that fails, a failed publication and a sweep that throws | a stranded transfer is confirmed, released or reported; nothing that came back was paid out |
| `ledger_routes` | a settlement with its check, an externally funded sale, an event top-up, a withdrawal and a transfer on the rows of four DIDs, with crashes | types, no overdraft, conservation, the refinement of `LedgerAtomic`, every transaction ends |
| `checkout_safety` | a sale with a seller and a beneficiary, two overlapping deliveries, a partial refund and one that names no amount, crashes and lost answers | types, the accounting order of the distribution, who hears when, backing of refunds, the one way to reverse too much of an entry, eventual distribution |
| `vault_custody` | two seals, each for the node or for an app, two answers, one revocation or sweep, both tiers, seals that overlap or do not, deaths | types, the envelope and the active grant of the last seal's pair track the entry, retired grants lose their key |
| `tickets_safety` | a type of two tickets; a purchase of two and one of one, by any routes, sharing a Stripe session; two requests at a time, dying anywhere | types, no ticket is counted twice, one life per ticket; without overlap the count and the orders are exact |
| `warp_watch` | a run that is blocked, ends and is resumed; the watch of the dispatch, one follow-up with its watch, the sweep; rows written late or lost | types, one report per segment, reports are real; unless the row of the dispatch is lost, an end is reported and a blocked run's owner told |
| `decisions_safety` | five requests about one approval or consent request, overlapping and dying | types (the row names a decision exactly when it is decided), in time, the refinement of `DecisionLife`; without overlap only what counts is published |
| `stub_claims` | two calls at once and any number in all, two identities, one invite, deaths | types (one live stub per address), the ratchet closes, nothing is claimed from one side; without overlap nothing lapsed is claimed |

Runs that refute what a comment of the code says (section 5): `ledger_settle_overdraws`,
`checkout_distributed_twice` and `stub_ratchet_open`.  The second is given overlapping deliveries, the
third fails in a single sequence of calls; none needs a crash.

### Bounds, and why they are enough

- **Two of each actor** (withdrawals, deliveries, refunds, seals, answers).  The handlers interact
  pairwise through a row; a third adds longer runs and no new pair.  The balance covers one
  withdrawal, so the second succeeds only after a release.  One account: accounts do not interact
  but through the ledger, which has a run of its own.
- **Time.**  `Timeout = 2`, `MaxCall = 1`, `MaxTime = 2` (3 with liveness): an intent is seen
  within its grace period and after it, and requests are decided before and after a sweep starts.
  The proofs take any values with `MaxCall < Timeout`.
- **Deliveries.**  `MaxDeliveries = 1` with two intents: a delivery races the route and the sweep.
  Two with one intent: deliveries race each other.
- **`PageLimit = 2`** holds every transfer of the instance; with 1 `SafeBucketIsSafe` fails, see
  section 5.
- **Amounts** are the smallest that differ: 1, 2 and 0 (legs of no amount are skipped), with
  balances that cover some of the requests and not all.
- **A chain of two entries**, one a seller, after a fee that needs adjusting: every kind of slot.
- **One settlement entry** (entries are reversed one after the other and do not interact).
- **Two requests at a time on tickets**, each a task that may take any number of purchases one after
  the other.  Three tickets for two places: a type can be sold out and oversold; an order of two
  tickets has routes of its own and of each of its tickets.
- **One follow-up and one sweep process** that ticks again and again: two segments, the dispatch's
  watch, the follow-up's and the sweep race for either.  Two sweeps add ticks that overlap; the
  theorems take any number.
- **Five requests about a question**: raise, answer, contradict, withdraw or apply, and one to look at
  it when it is due.
- **Two identities, one invite**: a stub that lapses and the one minted after it, or the stub and a
  registered identity; the invite is for one and may be accepted by the other.
- **Three pairs** of a subject and a grantee: the node to itself, an owner to an app, and the node to that
  app, which only an owner agent that renews can make.  Two seals are for one pair or for two.
- **One eraser** that is a revocation or a sweep; supersedes of the seals and answers are erasers
  as well.

Symmetry is used in the runs without liveness (`withdraw_safety`, `vault_custody`, `tickets_safety`,
`decisions_safety`, `stub_claims`, `stub_ratchet_open`), over intents, seals, answers, requests, the
tickets of one order, calls or identities, which the properties do not tell apart.  Deadlock is
checked in the withdrawal runs, where the sweep never stops, and in the stub runs, where a call may
always come; the other systems end when their requests do (`CHECK_DEADLOCK FALSE`).

### Fairness

- `Withdraw!FairSpec`: weak fairness of the sweep's steps only.  The cron endpoint calls
  `runReconciliation` again and again.  Nothing is assumed of routes, rail or webhook:
  `StrandedTransferIsReported` holds with every process dead.  It also needs a sweep that does not
  throw for ever and publications that succeed, so those two failures are off in that run.
- `Ledger!FairSpec`: weak fairness of each transaction.  The server runs a request it accepted to
  its end, and the database breaks a ring of waiting transactions after its deadlock timeout.
- `Checkout!FairSpec`: weak fairness of each delivery.  Stripe redelivers until it is answered with
  success; `Fail` keeps one delivery to come until one has got past the marking.
- `RunWatch!FairSpec`: the insert of a row ends, in a row or in none (weak fairness of
  `WriteRow \/ LoseRow`, which owes nobody that it is written); whoever has claimed publishes (weak
  fairness); and a step the cron's ticks try again and again succeeds once (strong fairness of the
  sweep's steps: a tick that fails starts over from the list, so its later steps are not enabled
  continuously).  Watches may all die, and Warp, follow-ups and the platform owe nothing.  Both
  properties except a run whose dispatch has lost its row (`NeverListed`): without the exception TLC
  refutes either, see section 5; any other row may be lost.  Without a
  process that dies between claim and publication, as this run assumes: with `ClaimantDies = TRUE`
  TLC refutes `EndIsReported`, see section 5.
- `Vault`, `Tickets`, `Decisions` and `ClaimStub` have none: what moves them are people, the owner
  agent and plugins, none of whom has to come.

## 4. Proofs

`tlapm <module>` in this directory.  Each theorem holds for every value of the constants that the
module's named assumption allows, unless it names a hypothesis of its own.

**WithdrawProofs.**  `TypeCorrect`; `NeverOverdrawn`; `ReservationReturnedOnce` (by `ReleaseInv`:
a release is the last step of a request's process).  `WithdrawalsConserve`: an account's
balance and the amounts its intents hold, paid out or not, are together what was there at the start;
`RowInv` adds that an intent without a row has reserved and released nothing.
`PaymentsAreBacked`: `CompletedIsBacked` is not inductive, since a route or a delivery that *is about to* confirm counts too, which `Backed` adds.
`SafeBucket` (`MaxCall < Timeout` and at most `PageLimit` intents): `ClockInv` ties clock, creation,
requests in flight and transfers; `TimeoutInv` says what the sweep is about to attest is `Quiet`, and
quiet is for ever.  `NothingPaidTwice` (no ambiguous error, no confirmation that fails): `RefusedInv`,
the catch block is reached only after a refusal.

**LedgerProofs.**  `LocksProtectGuards`: the inductive invariant `LockInv` says that only open
transactions hold locks, a free row is as committed, a held row is the committed one plus what its
transaction has added (`Effect`), the rows a transaction wrote stay locked, and so every guard it
passed still holds.  From it `TypeCorrect`, `LedgerIsAtomic` (the refinement, action by action) and
`GuardedDebitsNeverOverdraw`, whose hypothesis `DebitsAreGuarded` every route satisfies but
`Settle`: the violation run shows that the hypothesis is needed.  `BalancesAreConserved`: at every
moment the committed balances of a unit are the initial ones and what the committed transactions
minted, by `Balanced`, which adds that only finitely many have committed.  A commit changes the balances
of its rows by `Effect`, which `EffectAddsUp` sums to the changes of the program's statements.  Its
hypotheses are finitely many rows and `ProgramsAddUp`: those changes are, per unit, what the
transaction is said to mint.  `TransferAddsUp`, `WithdrawalAddsUp` and `SettlementAddsUp` prove what the
programs of three routes add up to, for every amount, account and chain; of gifts, topups and funded
settlements, which filter and flatten a list, it was evaluated for the instances of the runs.  A chain
that `validateChain` lets pass a cent off its total makes or loses that cent: its `Mint` is not 0.

**CheckoutProofs.**  `WebhookInvariant`: a statement has run once for every delivery that is past it,
which makes the order of statements an order of counts; from it `CreditsAreAccountedFor` and
`DistributedBeforeTold`.  `RefundMovementsAreBacked`, by `ProgressIsRecorded`, what each place of a
refund's program says is recorded.  `EachReversalIsOneShare`, by `SharesInv`, an entry is reversed by
a refund when it is its turn and not before.  `RefundInvariant` and `OverReversalIsUnseen`: each request
sums the refunds before others have recorded theirs, and if together they reverse more of an entry than
it paid out, one of them named no amount and was given less than everything, because of another one whose
row it did not find.  By `MadeInv`, Stripe has given back no more than the charge in all, a refund that
named an amount has been given exactly that, one that named none found no row when it was let through,
and only refunds Stripe has made are reversed: so the reversals are what was given unless one was booked
for more.

**VaultProofs.**  `TypeCorrect`.  `RetiredGrantsAreErased`, by `EraseInv`: no key leaves a seal
before the envelope is written (so whoever erases finds an envelope) and a job's list is empty
whenever it retires grants.  `EnvelopeTracksTheEntry` and `ActiveGrantOpensTheEntry`, by
`CustodyInv`: a seal in progress is the one of the latest entry, a grant is inserted once by a job
that has nothing left to do, and the owner agent has nothing to answer in tier 0.  The second theorem
is about the pair of the latest entry and cannot be about more, see section 5.

**TicketsProofs.**  `TypeCorrect`.  `NoTicketIsCountedTwice`, by `SoldInv`: every request that is to
raise the count owes it the tickets it has confirmed or created, no ticket is owed twice or owed after
it was counted, and the count never exceeds the tickets issued and owed by nobody.
`TicketsImplementOneLife` (the refinement) uses the same invariant, since a step by id lands on a row
that was there when it was read.  The rest is about requests that do not overlap, and adds to `SoldInv`
what is so while `serial` holds.  `SerialReadsAreFresh` (`FreshInv`): the tickets of a request are in
one of the statuses its next step expects, and only confirmations share tickets.
`SerialSoldCountIsExact` (`ExactInv`): the count is that of `Counted`, the tickets that admit somebody,
without those a request has yet to count and with those it has yet to take off.
`SerialOrdersAgree` (`OrdersInv`): the tickets of a purchase have come equally far unless a request
inserts, confirms or refunds them, which then holds them all; its conjuncts are named in `OrderFacts`.
The last uses the assumption `PurchasesHaveTickets`, which the routes that start a purchase enforce
(`src/apps/events/src/lib/checkout-helpers.ts:41`, `balance-checkout-helpers.ts:39`,
`etransfer-helpers.ts:35`): without it an empty order would be completed with no ticket.

**RunWatchProofs.**  `TypeCorrect`.  `NoSegmentIsReportedTwice`, by `ReportInv`: what is in the log was
claimed, and a claim has one holder, who has yet to publish.  `OnlyWhatEndedIsReported`, by `RealInv`:
the rows of resumes, with the resumes sent and not yet published, stay behind Warp's segments, so a
count taken from whatever rows are there never names a segment that is yet to begin.

**DecisionsProofs.**  `TypeCorrect`.  `DecidedRowsHoldTheirDecision` and `DecisionsAreInTime`, by
`RecordInv`: whoever is about to change a consent request has its signed row, and nobody on the way to
the row has read a request that was due.  `DecisionsImplementOneLife` (the refinement, action by
action).  `OnlyWhatCountsIsPublished`, by `AloneInv`: without overlap the row still is what was read.

**ClaimStubProofs.**  `TypeCorrect`, whose `TypeOK` holds that an address has one live stub; it needs
`TypeInv`, what a call holds at each place.  `ClaimsTakeBothSides`, by `SidesInv`: past the first check
the target is verified, past the second it was countersigned.  `TheRatchetCloses`, by `RatchetInv`: a
stub with both halves that has no excuse has a call that will look at both again.  `LapsedStaysUnclaimed`,
by `AloneInv`, for calls that do not overlap.

**Model-checked only.**  Liveness (`StrandedTransferIsReported`, `EveryTransactionEnds`,
`PaidIsDistributed`, `EndIsReported`, `BlockedIsTold`) and fairness are out of the prover's reach.
So are RECURSIVE operators and what a fold computes for every sequence (`SumOf` over a gift list or a
settlement chain).  Every invariant and action property of a passing run is stated by a theorem; the
three violation runs refute claims of the code's comments; of those only `NonNegative` is proved, under
the hypothesis that the run's program does not meet.

**Sums.**  `SumFunctionOnSet` is a fold over a set, and the induction theorems of the library take an
operator the provers cannot instantiate.  The lemmas `SmallestSubset` and `SubsetInduction` do without:
a family of subsets of a finite set that contains a set contains a smallest one, so what fails fails
first somewhere.  `TableExists` and `TablesAgree` say that the fold's recursion has a table and only one,
hence `SumEmpty`, `SumRemove`, `SumAddElement` and, where needed, `SumUpdate`, `SumPlus` and
`SumBounded`.  The lemmas stand in each of the three modules that need them, which keeps every proof
module checkable beside its component alone.

## 5. Where the code and its comments disagree

Each of these has a run (`PROJECT.json`, `findings`).

1. **A settlement overdraws** (`ledger_settle_overdraws`).  The balance is checked outside the
   transaction, whose debit has no guard.
2. **A share distributed twice** (`checkout_distributed_twice`).  Two deliveries that read the row
   before either has marked it both distribute.
3. **The ratchet left open** (`stub_ratchet_open`).  An onboarding verifies the address, finds no
   accepted invite, and then `consumePendingInvites` (`consume-invite.ts:78`) accepts the pending one
   without trying the ratchet again.  The stub has both halves and stays soft; "whichever signal lands
   second is the one that closes the ratchet" (`claimable-stub.ts:339-340`) is not so.

Seen while modelling, reported here without a run.

Withdrawals:

- **Two receipts.**  `confirmWithdrawal` inserts its row without looking at the status, so the route
  and the webhook, both having seen `pending`, write two receipts for one intent; the comment says
  "idempotently confirm it".  Balances are right, `CompletedIsBacked` and `Conservation` hold.
- **A released intent becomes completed.**  The webhook read `pending`, the route released after an
  ambiguous error, and the webhook's update by id then overwrites `failed`.
- **A discrepancy nobody reports.**  A publication that fails is only logged, and the watermark moves
  past its transfer; for an intent that was released, "re-evaluated on every cron run" is not so.
- `transfers.list` is read one page of 100, newest first, and not continued.  With more transfers than
  that since an intent's creation, the sweep may attest `pending_timeout` for a transfer that exists.
  `SafeBucket` names the hypothesis; setting `PageLimit = 1` in `withdraw_safety.cfg` shows it.
- `NoDoublePayout` needs errors that mean a refusal and confirmations that commit: with
  `"ambiguous"` or `"confirm_fails"` TLC refutes it, and the code's comment only says the ambiguous
  case is left to reconciliation.
- A release that follows a transfer is one of the discrepancies the sweep exists for; the webhook and
  the sweep may both attest it (dedup is check-then-act), which is harmless.

Ledger and checkout:

- `settle-core.ts:73` allows a chain to differ from the total by a hundredth, so a settlement may mint
  or burn a cent; a fee surcharge (`webhook-handlers.ts:182`) is a negative credit that may take a
  seller's emitted balance below zero; an emission's credit and its log row are two statements.
- A card refund credits the payer's withdrawable unit although the card is refunded as well
  (`refund.ts:123`); a top-up leaves two rows with its session's id; `payment_intent.payment_failed`
  may arrive late.  A refund that runs before the events service has settled finds nothing to reverse,
  and the settlement that follows stays.
- A redelivery after a partial refund marks the row completed and distributes again (the same
  property as 2).
- **More than an entry reversed.**  "N per-ticket refunds each reclaim their fair share without
  over-reversing" (`refund.ts:184-185`) is so for refunds that name their amount.  One that names none, as
  that of a whole order (`src/apps/events/app/api/orders/[id]/refund/route.ts:74-85`), is passed on without
  one (`app/pay/api/refund/route.ts:84`), Stripe gives back what is left, and the ledger books and reverses
  everything (`refund.ts:84`).  Beside a partial refund whose row is not there yet, or never came because
  its answer was lost, part and all are reversed, and the recipients are debited for both.
  `NeverOverReversed` in place of `OverReversedOnlyUnseen` in `checkout_safety.cfg` shows it.
- **A share kept.**  Two partial refunds run at the same time; the second finds the entry already
  `refunded` by the first and skips it.

Vault:

- **The last copy of a key is erased.**  Two seals of a field may leave the entry of one, the envelope
  of the other, and a superseded grant that held the entry's only key.
- **An active grant that opens nothing.**  A field that was sealed for an app and is rotated
  (`rotateAndStore`, `index.ts:612-614`) has a new entry, a new envelope and a new grant of the node to
  itself; the grant to the app stays active, with a key that opens nothing and is not erased, and the app's
  reads fail.  The comment says that this path "supersedes + crypto-erases the prior active grant"
  (`index.ts:589-590`), so as not to leave one "dangling, active, and unusable" (600-601).  No overlap and no
  death is needed: `ActiveGrantOpensEntry` with `Active` in place of `ActiveOf(pair[entry])` shows it.
- In tier 1 the node cannot open a field between a re-seal and the owner agent's answer, although the
  previous grant is kept for that; `keyId` never changes, so an answer computed for an earlier entry
  is accepted, and the renewal worklist does not list a field with a fresh grant.
- A seal or sweep that dies after retiring a grant leaves it its key: `RetiredGrantIsErased` holds
  because such a job keeps the grant on its list, and nothing resumes it.
- A failed load of the vault file reads as an empty vault, which the next `set` saves; `previousCid`
  is read before the lock, so histories may fork.

Tickets (all but the last two are behaviours of the model):

- `confirmHeldTickets` completes its order whether or not it confirmed a ticket (`confirm-payment.ts:61`),
  so an order may be completed without one, and a ticket's own confirm route, which does not look at the
  order, sets a refunded order back to completed.
- Releasing a hold deletes by id (`hold/route.ts:172`) and cancelling writes by id (`cancel/route.ts:54`):
  a ticket paid since the read is deleted or cancelled, without a refund.
- A webhook that dies after its order was inserted is retried, finds a "duplicate" and never creates the
  remaining tickets.  A session paid for a type that has sold out since is issued all the same: holds
  are not counted as sold, and the webhook does not look.
- `balance/route.ts:105` charges before the order exists; an invitation's `usedCount` is read and written
  back (`checkout/route.ts:140`).

Warp runs:

- **A claim is for ever.**  A process that dies between claim and publication leaves a claim that nobody
  takes over; the sweep that is to be the "safety net" (`run-watch-sweep.ts:12-16`) loses the claim too.
  Setting `ClaimantDies = TRUE` in `warp_watch.cfg` shows it.
- **A row that is lost.**  The bus logs an insert that fails and goes on
  (`src/packages/bus/src/subscriptions.ts:136-139`), and neither publication nor dispatch waits for it
  (`publish.ts:24`, `dispatch.ts:1028`).  A run whose dispatch has no row is never listed by the sweep: if
  its watch dies, nobody hears of its end.  A resume without a row leaves its segment to its watch alone
  once the segment before has been reported, and the next follow-up takes that segment's number, which is
  claimed already.  Without `NeverListed` in `EndIsReported` or `BlockedIsTold`, `warp_watch` shows the first.
- A sweep that publishes the end of an old segment after a resume writes a row newer than the resume, so
  the resumed segment looks finished and is not listed again.  A watch armed by a resume may still read
  the state before it, and `BlockedIsTold` is once per run, not per segment.
- Resumes are counted from rows that may not be written yet or never: two segments can get one number, and then
  the second is not reported.  `ReportsAreReal` says the count never errs the other way.

Decisions:

- **Two decisions signed and published.**  Two requests that both read `pending` both sign and publish;
  the row takes one, and the other's answer says it succeeded.  The comments promise a failure "before
  any signature is produced" (`operator-approvals-service.ts:181-184`), which holds for requests that
  come one after the other (`PublishedStands`).
- A request that dies between the update and the publication leaves a decision nobody hears of; the retry
  is refused as already decided.
- `expireIfDue` answers with an expired card whether or not its update changed the row.  A proposal sent
  twice at the same time is a duplicate-key error and not a refresh.

Claimable stubs:

- **Expired and claimed.**  The sweep tombstones a stub while its activation is under way: the identity
  is preliminary, its stub expired, and a later introduction mints a second identity
  (`LapsedIsNotClaimed` is about calls that do not overlap).
- A soft user who was onboarded keeps an active stub, which may expire and never be claimed; somebody who
  registers a key while a stub is live has two identities, against "One DID per email".
- The loser of two mints leaves its identity without a stub.  Accepting, revoking and expiring write by
  code alone, so the last one counts, and two accepts of one invite both succeed; an invite that is
  inserted after its stub was tombstoned stays pending.
- `verifyClaimantEmail` updates by the address and marks whichever stub is live by then; the call then
  tries the ratchet on the stub it had read (`"stray"` in `RatchetCloses`).

## 6. What is not modelled

- **Data.**  Amounts are integers in the smallest unit, dids and keys are model values; rounding,
  currencies, encryption and signatures are left out, except that a key is known by its seal.
- **Authentication and validation** that depends on the request alone: a precondition.
- **The rest of the vault**: version 1 entries, the custody migration, node key rotation.
- **Other Stripe events** (subscriptions, invoices, payment intents): single updates.
- **The reactors** of the bus; a publication is modelled where its failure matters to its caller.
- **Around the modelled components**: the events app's invitations, queue, mixed carts and prices; a
  run's configuration, prompt, progress events, schedules and artifacts; a decision's countersignature,
  its lists and the consumers of its events; link invites, pods and the attestations of a claim.
- **Knocks and recovery codes** (`auth/knock.ts`, `auth/recovery-codes.ts`): unguarded writes within one
  handler each, listed as hazards.
- **Inference and usage**: what a call costs is known only from its provider's answer, so what the cap
  keeps depends on data outside the repository.
- **The other components of section 1 without a module**: clients of external services, single-row
  routes, user interface, formatting and schema; `PROJECT.json` gives the reason for each.
- PostgreSQL, Stripe, Warp and the owner agent are modelled from how the code uses them.

## 7. Plan

Done: `Withdraw`, `Ledger` with `LedgerRoutes` and `LedgerAtomic`, `Checkout`, `Vault`, `Tickets` with
`TicketLife`, `RunWatch`, `Decisions` with `DecisionLife`, `ClaimStub`, each with its proofs.  Left, in
the order of what is at stake:

1. `ProgramsAddUp` for gifts, event topups and funded settlements, by recursive functions in place of
   the `SelectSeq` and `FlattenSeq` of `LedgerRoutes`.
2. `Knock`: a knock accepted while it is declined; recovery codes redeemed twice.
3. `Emissions`: bus, reactors and supply lots, composed with `Ledger`.
4. `VaultFile`: entries with history, the lock file and the migration, as the refinement of the atomic
   `SetEntry` of `Vault`; then the owner agent's worklists, with fairness.

Runs and properties are kept few: a new module brings one passing run, and its properties take the
place of those that say least.

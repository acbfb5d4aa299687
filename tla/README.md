# PortalGERM: formal models

TLA+ models of the parts of PortalGERM (SwissTalentHub, a Swiss job marketplace: Next.js,
TypeScript, Prisma, PostgreSQL 16) where concurrency, crashes, retries and old reads decide
whether the program is right. Paths are relative to the repository root (`src/` in
`PROJECT.json` stands for that root).

`PROJECT.json` lists components, runs, mutants, the map from definitions to source lines,
findings, hazards and theorems.

## 1. The system

Business code is a set of service modules under `lib/`, called by pages, route handlers and
server actions (`app/`) and by long-lived processes (`scripts/phase33-runtime.ts`). All shared
state is in PostgreSQL; processes talk to each other only through rows. External providers
(payment, e-mail, object store, malware scanner) are called outside of transactions.

| Component | State it keeps | Operations | Interacts with | What is hard | What makes it right |
| --- | --- | --- | --- | --- | --- |
| Work queue, worker process (`lib/ops/worker-*.ts`, `registered-handler-runtime.ts`, `heartbeat-loop.ts`, `scripts/phase33-runtime.ts`) | `WorkItem`, `WorkAttempt`, `WorkEffectReceipt`, `WorkDeadLetter`, `WorkerRun`; in memory: the cycle, the group, heartbeats | enqueue, claim, heartbeat, receipt, complete, fail, terminalize, replay, drain | every domain handler; activation ledger | takeovers, late answers, crash between effect and acknowledgement, lost answers, tasks outliving their cycle | nothing lost, nothing acknowledged without evidence, a stale process changes nothing, budgets kept |
| Activation ledger (`operations-ledger.ts`, `worker-activation-policy.ts`) | `WorkerHandlerActivation`, `ProviderActivation` | activate, supersede, revoke, kill switch | claim, heartbeat, cycle | revocation while work is leased or running | no work is claimed or extended under dead authority |
| Scheduler (`worker-scheduler.ts`) | none of its own | enqueue ticks and document scans | work queue, document vault | two statements per enqueue, several schedulers, rows that move | the same request twice is one item |
| Notifications (`lib/notifications`) | `NotificationOutbox`, `NotificationAttempt`, delivery material | stage, claim, deliver, finalize, pause, reconcile, replay | e-mail provider, worker queue | no fence on the lease, provider answers after the deadline, ambiguous outcomes | no message lost or sent twice without a human decision |
| Payment inbox, orders (`lib/billing/payment-inbox.ts`, `orders.ts`) | `ProviderEventInbox`, `PaymentAttempt`, `Order`, invoices | ingest, project, hold, release, checkout | payment provider, worker queue, credits | duplicated and reordered events, two-transaction projection, authority that changes during checkout | one settlement per order, held money stays held |
| Credits, boosts, subscriptions (`lib/billing`) | credit ledger, entitlements | grant, consume, expire, renew, cancel | orders, worker queue | serializable requests beside a read-committed expiry, repeated requests, a sweep that dies | no credit spent twice, no operation charged twice, what is written off stays so |
| Document vault (`lib/documents`) | upload intents, versions, current version, read grants; object store | intent, upload, finalize, scan, delete, grant, read, reconcile | object store, scanner, scheduler, privacy erasure | store and scanner calls between transactions | only clean current versions are read, a grant is used once, no version is stuck |
| Talent radar (`lib/talentradar`) | contact requests, reveal grants and confirmations | request, accept, decline, cancel, expire, reveal, revoke | credits, conversations, consents | consent that changes under a request | identity only with a current grant |
| Privacy (`lib/privacy`) | requests, challenges, approvals, executions, processor outcomes | verify, approve, enqueue, execute per processor, export | worker queue, vault, notifications, analytics | resumption after a crash, legal holds | every processor exactly once, evidence complete |
| Jobs (`lib/jobs`, `lib/employer/jobs.ts`) | jobs, freshness projection, reports | publish, reconfirm, report, project | worker queue, notifications | stale lists, deadlines | a job is public only while confirmed |
| Accounts, step-up, team, recruiting, applications | sessions, challenges, memberships, interviews, applications | see the modules | all | mostly single serializable transactions | one-time tokens, seat limits |
| Search, scoring, SEO, content, UI, release gates | none or read-only | reads, formulas, file checks | - | - | not a matter of protocol |

## 2. Plan

Order: what everything else depends on first.

1. **Worker runtime** - `WorkLedger` (abstract), `WorkQueue`, its theorems. *Done.*
2. **Scheduler** - `WorkScheduler`, beside the queue. *Done, in part (see the component's note).*
3. **Document vault** - `DocumentVault`: upload, scan, succession, read grants, store
   reconciliation, erasure of the documents, its theorems. *Done for the candidate's CV.* Left: an abstract spec
   of a quarantined document, legal holds, company verification documents.
4. **Notification dispatch** - `NotificationDispatch`: claims without a fence, ambiguous
   provider outcomes; `Mailing`: at most one mail leaves, nothing final is undone. *Done.* Left:
   replay of dead letters.
5. **Checkout, payment inbox and settlement** - `PaymentSettlement`: duplicated and reordered
   events over attempts and orders, authority that changes during a checkout; `Purchase`: paid
   before fulfilled, once, one subscription. *Done for plans.* Left: packages, renewals and
   dunning, chargebacks, refunds.
6. **Credits** - `Credits`: consumption, reversal and expiry on one ledger; `Wallet`: an operation is
   paid once and in full, and given back once at most; its theorems. *Done for one grant per
   account.* Left: several grants per account, its composition with settlement.
   Then talent radar, privacy execution and freshness as far as they have protocols of more than
   one transaction.
7. **Proofs**: types and inductive invariants of each module; refinement where an abstract spec
   exists.

## 3. Modules

| Module | What it is |
| --- | --- |
| `WorkLedger` | what the queue promises about one job: handed out within its budget, acknowledged once, succeeds only then, and for good |
| `WorkQueue` | the queue tables, the consumer loop and every task of every process |
| `MCWorkQueue` | the symmetry set of the batch run |
| `WorkQueueProofs` | proof of its types; the inductive invariant and the fencing theorems |
| `WorkQueueLedger` | attempt log, dead letters, row checks, refinement of `WorkLedger` |
| `WorkScheduler`, `MCWorkScheduler` | scheduler cycles over the rows that consumers move |
| `WorkSchedulerProofs` | proof of its types and of the agreement of schedulers on ticks |
| `DocumentVault`, `MCDocumentVault` | a candidate's CV from upload to erasure; symmetry sets for TLC |
| `DocumentVaultProofs` | proof of its types; what a step may do to an intent, version, object, grant, request; the inductive invariant and every safety property of the runs |
| `Mailing` | what the outbox promises of a notification: one mail at most, no delivery reported that did not leave, final statuses |
| `NotificationDispatch` | outbox rows, dispatch batches around one HTTP call, privacy sweep, reconciliation, bounce events |
| `NotificationDispatchProofs` | its inductive invariant, what a step may do to a row, a batch, a request, a mail, an event, and every safety property of the runs |
| `Purchase` | what checkout and inbox promise a company: fulfilled only when paid for, once, one subscription |
| `PaymentSettlement`, `MCPaymentSettlement` | orders, hosted checkout, webhook, inbox, projection and the provider; the events of each run |
| `PaymentSettlementProofs` | proof of its types; what a step may do to an attempt, an inbox row, a session, a task; the inductive invariant; every safety property of the runs, and that it implements `Purchase` |
| `Wallet` | what the ledger promises a company: an operation is paid in one step, once, in full, from grants that can afford it, and given back once at most |
| `Credits`, `MCCredits` | the credit ledger: consumers, reversals, sweeps; grants and operations of the run |
| `Totals` | lemmas about the sum of a function over a finite set, and induction over naturals and over subsets |
| `CreditsProofs` | its inductive invariant over the entries of an account, every safety property of the run, what they leave open (who may overdraw a grant), and that it implements `Wallet` |

### WorkQueue and the code

One action is one transaction, or one step of a process between two transactions. An `Item` is
a dedupe key of one registered handler (other handlers have disjoint items; several handlers
per cycle appear as several `BeginCycle`s). A `Worker` is a process slot: the process that runs
in it after a restart has a `WorkerRun` of its own, so `run` is reset when the slot is left.

| Variable | Code |
| --- | --- |
| `item` | `WorkItem`: status, counters, `leaseOwner`, `fencingToken`, generation of the activation it was claimed under |
| `due`, `expired` (fields of `item`) | `availableAt <= now`, `leaseExpiresAt <= now` |
| `attempts`, `receipt`, `letter` | rows of `WorkAttempt`, `WorkEffectReceipt`, `WorkDeadLetter` |
| `activation` | the newest `WorkerHandlerActivation`, and whether it grants authority |
| `run` | `WorkerRun` status and counters |
| `proc`, `bound`, `shutdown` | where `main` and `runWorkerConsumerCycle` are, the activation the cycle resolved, the signal flag |
| `task` | `executeRegisteredHandler` per claimed item, with its `WorkLeaseIdentity` and the health of its heartbeat loop |
| `effects` | history: the tokens under which a handler took effect |

Time is two flags. `LeaseExpires` and `BecomesDue` set them. The code compares a deadline with
a `Date` the process read before the statement; the reading may be old, so an action of the
*holder* may still succeed after `expired` was set, while a claim or terminalization requires
it. This allows more interleavings than a synchronous clock would.

Actions and failures: `ClaimAnswerLost`, the `{.., "UNKNOWN"}` alternatives of the task actions
and `Rejects` in `FailWorkItem` are commits whose answer is lost; `StatementFails`,
`CycleThrows` and `FailureNotRecorded` are statements that did not commit; `Kill` is a process
that is gone at once. A cycle that threw leaves the tasks of its group running until the
process ends (`exiting`, `exited`), as `Promise.all` does.

Abstractions: payloads, digests, priorities, back-off times and error texts; the retried failure
classes are one (`UNKNOWN`). A replay's ceiling of 64 attempts is the bound `MaxReplays`.

### WorkScheduler and the code

`StartCycle` fixes the time of the cycle (`runSchedulerCycle`), `ScheduleHandler` visits the
next catalog entry, `Insert` and `Compare` are the two statements of `enqueueWorkItem`. Rows
are moved by `ConsumeItem`, `ReplayItem` and by policies (`SetPolicy`). Time is a counter; the
divisors of the boundaries are `Period`.

### DocumentVault and the code

One candidate profile, its single `Document` and its versions, numbered by `sequence`. Upload
intent, version and store object are created together and share the number. One action is one
transaction of `vault-service.ts`, one call to the object store or scanner, or one statement of
`executeDocumentErasure`. Requests, worker tasks and the erasure are records (`up`, `sc`, `rd`,
`erasure`) that hold what the code read before its last `await`; that is where the races are.

| Variable | Code |
| --- | --- |
| `intent`, `late` | `DocumentUploadIntent`: status, declared hash, `expiresAt <= now` |
| `version`, `current`, `verdicts` | `DocumentVersion` status and `sha256`, status of its `CandidateDocumentMetadata`, `Document.currentVersionId`, `DocumentScanAttempt` rows that did not fail |
| `object` | the store, which creates a key once (`ObjectAlreadyExistsError`) and checks a hash before a read and a delete |
| `linked` | versions with an `ApplicationDocument` link |
| `grant`, `stale`, `served` | `DocumentReadGrant`, `expiresAt <= now`; history: the contents handed out |
| `active`, `employer` | the conditions on the candidate's account, and those on an employer's membership, assignment and job, that `authorizeDocumentRead` reads |
| `found` | the inventory of a running `reconcileDocumentObjects` |

A content is its own digest. The scanner is any function of the content that calls nothing clean
that is not in `Harmless`, and may fail. `Edges` is the trigger that guards version statuses; a
statement it refuses throws, which ends an erasure with `RETRY_REQUIRED` (`Retried`). Two uploads of
one intent are two `Uploader`s with bodies of their own. The store's answer may be lost (`"fail"`
in `UploadPut`), a process may die between any two steps (`UploadGone`, `ScanGone`, `ReadGone`,
`EraseGone`, under the constant `Crashes`). The processors of an erasure before `postgres-primary`
other than the document processor touch nothing of this state.
`Finalize` is one step where `vault-service.ts:899-957` reads, asks the store and updates: the update is
guarded by the intent's status, so a change of it in between makes the update find nothing; that the
deadline may pass in between changes no property. A legal hold, which makes
`executeDocumentErasure` keep a version as an application does (`execution-v2.ts:860-875`), is left out.

### NotificationDispatch and the code

A `Note` is an outbox row; its idempotency key is the provider's. A `Task` is a dispatch batch
(`processNotificationOutboxBatch`); batches of one process share the worker's name, which is all
that a guarded write asks for besides the status, so they can hold each other's rows. A step is
what lies between two awaits of `deliverClaim`.

| Variable | Code |
| --- | --- |
| `row` | `NotificationOutbox`: status, `leaseOwner`, `leaseExpiresAt > now` (`live`), error class, counters, the frozen request (`request`, `body`, `activation`), the kept address |
| `log` | `NotificationDeliveryAttempt` outcomes by `attemptNumber`; (row, number) is unique |
| `task` | the batch, its snapshot of each claimed row (`seen`), the delivery under way and what it decided |
| `activation`, `age`, `lapsed` | the provider activation in force; age of the frozen request (23 h, 24 h); addresses past their deadline |
| `wire`, `mail` | requests under way; the provider's mails per key, and whether it still knows the key |
| `event`, `hook` | the bounce's inbox row and the webhook's open transaction |

An accepted delivery is recorded under the advisory lock of the provider's receipt
(`FinalizeAccepted`, `CommitAccepted`), and so is a bounce (`ReceiveEvent`, `CommitEvent`); every
other write of a row waits for that transaction (`Locked`). Sweep and claim are two transactions
without a read of ours between them, merged in `BeginBatch`. A deadline, a lost connection and a
5xx answer are one (`TimeOut`); a request that is given up may be accepted later (`Accept` without
a waiting task). A definite refusal ends as `PERMANENT_FAILURE` or, if the adapter reports a bounce at
once, as `BOUNCED`, which suppresses the row (`Refuse`, `FinalStatus`). `Send` is one step where
the code has four before the call (activation, heartbeat, address, HTTP, `dispatcher.ts:407-433`): what
can happen between them can also happen after it, while the request is on the wire. Two things
are assumed of the world. A delivery that began before its request was 23 h old is over before the
provider forgets the key at 24 h (`ForgetKey`): the code does not enforce that, it rests on processes
that do not stall for an hour in the middle of a delivery; without it a second mail is
possible, and `Mailing` says nothing of such a stall. And an operator's evidence about an
uncertain outcome is true.

### PaymentSettlement and the code

The orders are those of one company, each for a plan it does not have; an order has one attempt
and one provider session. One action is one transaction or one call of the provider. `Caller`s
run `createCheckoutOrder`, `Hook`s the webhook's transaction, `Projector`s
`projectPaymentInboxEvent`.

| Variable | Code |
| --- | --- |
| `order`, `attempt` | `Order.status`; `PaymentAttempt` status, `failureCode`, and the cursor (`lastProviderEventAt`, rank) |
| `invoices` | paid invoices of the order, each written with the subscription it brings |
| `inbox`, `work` | `ProviderEventInbox` status and error class; its work item: none, to be done, paused |
| `changes`, `bound` | changes of the provider activation, which is in force when even; orders whose attempt was made under the present one |
| `overdue` | orders past `expiresAt` |
| `session`, `sent` | the provider's session; `event.created` of what the provider has sent |
| `call`, `hook`, `task` | what each request or worker read before its last await |

The kinds of event: `declined` (`payment_intent.payment_failed`), `closed`
(`checkout.session.expired`), `completed` (`checkout.session.completed`), `invoice` and `twin`
(`invoice.paid` and `invoice.payment_succeeded` of one invoice). The times of a payment's events
are free, within the order in which the provider makes declines, payment and end. `Settle` and `Terminalize` are the two transactions of
a projection; `Begin` reads the subscription outside of both, which is why a projection that
died between them is taken for a renewal the next time. `Receive` leaves out repetitions that
would change nothing. The reservation's token and the provider's retries of one call are
abstracted (the idempotency key makes them one session). A payment after the order's deadline
is excluded, as the provider ends the session with it.

`RecordSession` is the transaction that finds authority and order as they were, or holds the
attempt; when it fails instead (`SessionUnrecorded`), the session is taken back and the failure is
recorded (`orders.ts:739-755`). `ExpireSession` asks the provider to end the session; an error of that
call is swallowed, so the session may stay as it is. A signed event may contradict what is
on record (provider, reference, currency, amount, time); which of the two is wrong is data, so `Settle` and
`BindCheckout` may hold any event for it. An order of a real provider is not cancelled: `cancelAdminOrder`
answers `CONFLICT` for it (`admin-status-transitions.ts:109`). Risk decisions are left out: the one that
`Settle` would meet (`orders.ts:1594-1608`) ends as another `HELD` that settles nothing.

### Credits and the code

One company and one kind of credit. A grant has an account of its own (the key of an account is
company, kind, source and start of the period). An `Op` is the idempotency key of a request that
consumes; a `Caller` is one such request (`consumeCompanyCredits`; the single consumption inside a
domain transaction, `consumeOneCompanyCreditInLockedTransaction`, is the same with amount 1 and one
attempt), a `Reverser` runs `reverseCreditConsume`, a `Sweeper` `projectCreditExpiries`, which the
worker's handler and an administrator both call.

| Variable | Code |
| --- | --- |
| `ledger` | `CreditLedgerEntry` rows of an account in commit order; `op` is the prefix of the idempotency key, `of` the `reversalOfEntryId`; `left` and `spent` are the sums the code and the trigger `phase12_enforce_credit_lineage` form of the rows |
| `call` | the request: `now`, which is read once and kept over the attempts, the attempt, and the snapshot of its transaction as a number of entries per account |
| `undo` | the reversal: the entry and `now` |
| `sweep` | the time of a sweep and the accounts it has not come to |
| `clock`, `requests`, `faults` | time; bounds |

`Open` is the first statement of a transaction, which takes its snapshot; `Consume` is the rest up
to the commit. Between the two, others commit. `Overtaken` is what serializable isolation makes of
that: a consumption is rejected if another consumption has appended to an account it appends to, or
has written its key, since. A reversal reads the consumption it undoes and no balance, so it and a
consumption of the same account may both commit; what keeps a second reversal out is the unique
`reversalOfEntryId`, whatever its snapshot shows (`TakeBack`, which therefore has none). A
read-committed expiry is not checked against, and so does not appear there. The triggers lock the account and sum up its entries, but a serializable
transaction's trigger sees the transaction's snapshot, so it repeats the decision of the code
and adds none. `Return` and `ReturnReversal` stand for every way out without an entry.

## 4. Runs

| Run | Instance | Shows |
| --- | --- | --- |
| `WorkQueue` | 1 item, 2 processes, 2 attempts, 1 activation, 1 exit, fairness; 126 000 states | types, attempt log, evidence, fencing, finality; every enqueued item is settled |
| `WorkQueueBatch` | 2 items in one batch, concurrency 2, 1 replay, 1 exit; 416 000 states | dead letters; the queue implements `WorkLedger` |
| `WorkScheduler` | 2 schedulers, a scan and an hourly handler, 1 document, 3 clock values; 4.6 million states | ticks agree |
| `WorkSchedulerScans` | 1 scheduler, 3 handlers | *violated*: finding 1 |
| `DocumentVault` | 2 versions, 2 scans at once, 1 upload at once, no reads; 904 000 states | one open intent, one clean version, what an erasure keeps |
| `DocumentVaultRaces` | 1 version, 2 uploads, 2 readers, 1 grant; 781 000 states | what is read is what was scanned, once, under current access; what an erasure deletes and revokes |
| `NotificationDispatch` | 1 row with an address, 2 batches of one process, 1 attempt and 1 further one, 1 death or stall, fairness; 292 000 states | attempts, one body per key, bounces find their attempt, `Mailing`, every row ends |
| `NotificationDeadLetter` | 1 row, 1 batch, 2 attempts, no faults | *violated*: finding 2 |
| `PaymentSettlement` | 1 order, 1 request, 1 webhook, 1 worker, 4 kinds of event with 2 times, activation withdrawn and renewed, a deadline; 1.80 million states | settlement is whole, newer news win |
| `PaymentRivals` | 2 orders and their invoices, 2 webhooks, 1 worker, 1 fault, fairness; 168 000 states | nothing projected unpaid, inbox rows done for good; `Purchase`; every payment surfaces |
| `PaymentHeld` | as `PaymentSettlement`, without the deadline | *violated*: finding 3 |
| `Credits` | 2 grants of size 1 that end together, operations of 1 and 2 credits, 2 consumers and 2 requests, 2 attempts, 2 reversers, 1 sweeper, 1 death, fairness; 278 000 states | types, no credit spent twice, no operation charged twice, what is written off stays so, grants past their end close; the ledger implements `Wallet` |

Bounds. `MaxExits` bounds process ends, `MaxEpoch` activations, `MaxReplays` replays, `MaxTime`
the clock, `MaxBudget` the budget of a replayed item. Two processes and two attempts give
takeover, a stale task beside its successor, and the last attempt lost; a second activation
gives authority that is withdrawn and replaced; one exit gives every crash point. Batches,
groups and sibling tasks need a second item, one process and one attempt are then enough. The
safety theorems about the queue hold without these bounds. In the vault `VersionCount` bounds the
uploads of a candidate: a succession and the interleaving of two scans need two. A second body, a
second reader and grants meet one version at a time, so they have a run with one version, and so has
the erasure's promise about grants, for any attempt of it after a crash. A hash
the client declares (`Declared`) can only make a put fail;
the theorems about the vault hold for any, as they do for any number of everything.

In `NotificationDispatch`, `MaxReleases` bounds an operator's further attempts and `MaxFaults` deaths
and stalls; with one activation a change of activation is a withdrawal and a return, and with one
attempt and one further one a retry before the last attempt does not occur. Larger instances
passed by hand: two activations and two workers (3.69 million states), two attempts, with the liveness
property too (1.42 million). In `PaymentSettlement`, `MaxTime` bounds the
distinct seconds of events (two are enough to be older, equal or newer), `MaxChanges` the
changes of the activation (withdrawn, and renewed as another), `MaxFaults` deaths and failed
transactions, `Lapsing` the orders that may get past their deadline; `Emits` chooses the events so that
the runs see all that can happen to one order, and two orders whose events are delivered twice at
once, with a crash. Passed by hand: the rivals with two workers too, without the liveness property
(1.11 million states); one order and both events of its invoice (`twin`, which is in no run) with two
webhooks, two workers, a withdrawal and a fault (1.67 million). The theorems hold for any number of
webhooks, workers and events.

In `Credits` the grant to be used first has the account that is swept last, so consumption and
expiry go in opposite orders; an operation of two credits is paid from both. `MaxAttempts` is 2 where
the code has 4: one attempt that is rejected and one that follows it. `MaxRequests` bounds the
requests, and with two of them an operation is repeated, at once or after its answer; two reversers
take the same consumption back, or both. Three requests and one reverser passed by hand without the
liveness property (1.50 million states). The theorems are for any grants,
operations, attempts and requests.

`CHECK_DEADLOCK FALSE`: with the handler revoked for good, the budget of exits used up and all
items settled, the queue stops, and a scheduler has no next cycle at the end of its clock only
in the bounded instance; a vault whose documents are gone, whose account is suspended or whose
versions are used up stops too, and so do the payments once every order is closed, every event
acknowledged and projected, and the activation is in place for good. The credits stop when the clock
has reached its bound, the requests are used up and every grant is closed.

Fairness (`FairSpec`). The service is restarted when its process ends and its loop goes on
(`WF` of `ProcessStep`); a task's awaits are answered (`WF` of `TaskStep`: the heartbeat and
statement timeouts bound the database, and *handlers are assumed to return or throw*, for
which the code gives no bound); leases run out and items become due (time passes). A claim and
a terminalization skip rows another transaction has locked, and locks last one transaction, so
a process that asks again and again is not passed over for ever: strong fairness for
`ClaimWorkBatch` and `Terminalize`. No fault has to happen. `EveryItemSettles` is conditional on
the handler staying active from some point on: without authority items rightly wait.

`DocumentVault!FairSpec`: a worker's scan task goes on, or begins again with any version that can
be claimed, and an erasure goes on and repeats itself after `RETRY_REQUIRED` (`WF` of both, the
liveness of the work queue).

`NotificationDispatch!FairSpec`: the work items of dispatch and sweep come again every minute and a
batch under way goes on (`WF` of `Deliver` per batch and of `MaintainRetention`), time passes for a
lease nobody works under, and an open webhook transaction ends. The HTTP call has a deadline,
so nothing is asked of the provider. `EveryNotificationSettles` is conditional on an activation that
stays in force.

`PaymentSettlement!FairSpec`: the provider repeats an event until it is acknowledged, a webhook's
transaction ends, the scheduler's cycle takes the backlog up (`Resume`), workers go on. It does
not ask that customers pay or that sessions end. `PaymentsSurface` is conditional on a provider that
stays in force: a revoked provider's payments are rightly held.

`Credits!Spec`: the scheduler enqueues `billing.credit-expiry` again and again and the worker runs it
(`WF` of `Sweeping`), a sweep that died included. Nothing is asked of requests. `DueGrantsClose`
excepts an account with an entry after its expiry and the accounts swept after it, because there
the code does not get further (see below).

## 5. Findings

1. **A second scheduler cycle stops the scheduler** (`WorkSchedulerScans`). Scans are asked for
   with `availableAt = now`, enqueue takes the difference for a dedupe conflict and throws.
2. **A dead letter that was sent** (`NotificationDeadLetter`). The adapter's comment says that an
   uncertain outcome must stay reconcilable; it does when the *last* attempt times out. When an
   earlier attempt timed out and the last one ends with a clear answer (a 429, a validation error) or
   an infrastructure failure, the row becomes a dead letter and its material is destroyed, though the first
   request may have left.
3. **Held money that cannot be released** (`PaymentHeld`). A payment while the provider is revoked
   leaves two held rows (session and invoice) and one held attempt. Releasing the session's
   row sets the attempt to `PENDING`; the release of the invoice's row asks for a held attempt. A late
   failure (`payment-inbox.ts:2149`) or a late checkout request (`orders.ts:4638`) takes the hold away
   in the same manner.

Observed on the way, without a run. Some are stated as definitions that no run uses, because they
fail: `WorkQueue!OldWorkerCommitsNoEffect`, `DocumentVault!ScanSettles`, `ErasureTerminates`,
`NothingLeftAfterErasure` and `PaymentSettlement!UncertainPaymentProjects`; each was found violated
by hand on a small instance.

In the queue: the handler is invoked without the fence, so the effect of a worker that was taken
over can follow its successor's, though the runbook says otherwise; only receipt and acknowledgement are
fenced (`StaleTaskPowerless` holds), and the handlers' own keys decide whether this doubles anything. The
shutdown flag is read between cycles: the cycle under way still claims for each remaining handler. A
`PAUSED` item has no way back in the code read; an item that has a receipt can still end
dead-lettered (its acknowledgement failed to the end of the budget); items of a batch that wait for
their group are not heartbeated, so a slow group costs the later ones an attempt; a handler that hangs
keeps its lease for ever.

In the vault: a scan that dies leaves its version `SCANNING`, because the claim commits before store
and scanner are called and nothing takes such a version up again. The trigger has no way from `REJECTED`
or `INFECTED` (nor from `HELD` or `SCANNING`) to `DELETE_PENDING`, so one rejected upload makes every attempt
of the erasure throw. The erasure's list is read, and its outcome recorded, while the account is still
active: a late upload outlives it. Of two versions scanned at once the one that
ends last becomes current, also when it is the older one; an upload whose intent expired, failed
or was aborted meanwhile answers `QUARANTINED` though it wrote nothing; an application submitted
between the erasure's list and its loop loses its evidence (hence `EvidenceKept` speaks of what was
linked when the links were read); an upload still streaming when the object is deleted creates it
again; the expiry of a read grant is compared with the time the request began.

In the outbox: a row that is paused with its material destroyed, or with another error than the two
that are looked for, is never taken up or reconciled again; two batches of one process may both
believe they hold a row, and only the unique attempt number keeps the second from recording.

In billing: when a checkout call ended uncertain and the customer paid all the same, the settlement lets
such an attempt pass (`orders.ts:1592-1597`) but the list of its update (`:1737-1750`) omits `HELD`, so
the payment ends as a conflict before an operator, where `payment-operations.md:91-92` says to
project the signed event. The work item of an event that a worker meets while the
provider is revoked is paused and never resumed. Paid events of an attempt that was held for risk or
stale authority end `HELD` with a code no release accepts. A second checkout request that
is slow holds an attempt that is `PENDING` already. A second paid order for a new plan is held as a
conflict. A dispute that is closed before its opening was read stays open (`payment-inbox.ts:2318`).

In the credits: a consumption that took its snapshot before the expiry of a grant and commits after it
overdraws the grant, because the expiry is read committed (`credits.ts:285`) and neither serializable
isolation nor the triggers, which sum the consumption's own snapshot, see it. From then on
`allocateCreditExpiriesV1` answers `INVALID_GRANT_AMOUNT` for that account, `projectCreditAccountExpiries`
throws, and the accounts with larger ids are not swept any more. A reversal that commits after the
expiry puts something back that a second `EXPIRE` is to write off, which the unique key of the
first (`credits.ts:258`) refuses, with the same effect. Both need a transaction under way while the
period ends.

## 6. Proofs

### The queue

The theorems are about `Spec` with the assumptions named in `WorkQueue` (`NoWorker` is not a
worker; budgets, batch size and concurrency are positive; bounds are naturals; `Item` is
finite), for any number of items, processes, attempts and replays.

| Theorem | Module | States |
| --- | --- | --- |
| `TypeCorrect` | `WorkQueueProofs` | `TypeOK` |
| `Invariance` | `WorkQueueProofs` | `IInv`, the inductive invariant |
| `SuccessEvidence`, `ReceiptsDoNotConflict` | `WorkQueueProofs` | `SuccessIsEvidenced`, `NoEffectKeyConflict` |
| `StaleWriterFenced`, `OneEffectPerLease`, `SuccessStands` | `WorkQueueProofs` | the action properties `StaleTaskPowerless`, `HolderDoesNotRepeat`, `SuccessIsFinal` |
| `AttemptsComplete`, `DeadLettersEvidenced`, `ChecksHold` | `WorkQueueLedger` | `AttemptLedger`, `DeadLetterEvidence`, and `RowChecks` (the CHECK constraints on rows and counters, which no run repeats) |
| `QueueKeepsLedger` | `WorkQueueLedger` | `Spec => LedgerSpec`: `WorkQueue` implements `WorkLedger` |

The argument. None of the properties is inductive alone. `IInv` adds to `TypeOK`:

- `LeaseShape`: a row is owned exactly while leased, within its budget, with a positive token;
- `Authority`: a task's token was given out, and while the lease under it is not over it is this
  process's lease (the only place the code's owner comparison matters);
- `DistinctTokens`: two processes never work under one token, so at most one task per item is
  not stale;
- `Evidence`: receipts name effects and successes have receipts;
- `Progress`: what a task's place in `executeRegisteredHandler` says about effects and receipts.
  Its last conjunct, that a holder between reading the receipts and writing its own still finds
  none, is the heart of `NoEffectKeyConflict` and of `HolderDoesNotRepeat`, and needs `Authority`
  and `DistinctTokens`: another process's receipt would need the lease.

The proof that a step keeps `IInv` goes action by action. The moves of an item's row, of its
evidence and of its tasks are first summed up in lemmas (`EvidenceStep`, `OtherTasksKept`, ...),
so that most cases are about one of them. `WorkQueueLedger` adds its own inductive parts on top
of `IInv`: the attempt log (`AttemptLedgerStep`), dead letters (`LettersStep`), and `Counts`, by
which claimed >= succeeded + failed + leases still held (`HeldShrinks`, `RunStep`).

### The scheduler

The assumptions are those of `WorkScheduler`: policies give positive numbers of attempts, the
boundaries of ticks are positive divisors, the catalog is a sequence, bounds are naturals.
Nothing bounds schedulers, handlers or documents.

| Theorem | Module | States |
| --- | --- | --- |
| `SchedulerTypes` | `WorkSchedulerProofs` | `TypeOK` |
| `SchedulersAgreeOnTime` | | the part of `TicksAgree` that holds whatever the policies become in between |
| `OnePolicyOneTick` | | `TicksAgree`, if the policies give one number of attempts |

The argument. `TicksOnRecord`: a tick nobody has run has the availability and the attempts every
scheduler asks for, because the start of the bucket is in its key; `TicksWanted`: what is still in
a cycle's list asks for it in no other way, however long ago the cycle made the list. A comparison
meets one of each (`TickCompared`). `OnePolicyOneTick` names its hypothesis: `Budgets` has one
element, as in the run. Without it the property is false, as an activation with another
`maxAttempts` between two cycles of one bucket is a conflict; availability, which is proved
without it, is what distinguishes a tick from a document scan, whose request carries the time of
its cycle (finding 1).

### The vault

The assumptions are `ContentAssumption` and `VersionsAssumption` of `DocumentVault`: harmless and
declared contents are contents, "no content" is none, and there is a version. Nothing bounds the
number of versions, requests, scans, readers or grants.

| Theorem | Module | States |
| --- | --- | --- |
| `VaultTypes` | `DocumentVaultProofs` | `TypeOK` |
| `VaultInvariant` | `DocumentVaultProofs` | `IInv`, the inductive invariant |
| `OneOpenIntentHolds`, `IntentFollowsVersionHolds`, `DigestIsObjectHolds` | `DocumentVaultProofs` | the upload's invariants |
| `ReadableIsHarmlessHolds`, `OneCleanVersionHolds` | `DocumentVaultProofs` | the scan's |
| `GrantServesOnceHolds`, `ServedWithAccessHolds` | `DocumentVaultProofs` | the read grants' invariant and action property |
| `EvidenceKeptHolds`, `ErasureCoversHolds` | `DocumentVaultProofs` | the erasure's |

The argument. `IInv` adds to `TypeOK` and the properties themselves what the processes rely on
between two of their transactions:

- `UploadSound`: a written body is the version's object for as long as the version waits for it;
- `ScanSound`: a running scan is the only one of its version, and the version is `SCANNING`; this
  is why nothing but the scan's own end takes a version out of `SCANNING`, and also why a
  scan that dies (section 5) is a dead end;
- `VerdictSound`: a version that may still be scanned has no verdict, so there is never a second;
- `GrantSound`, `ReadSound`, `UnservedBefore`: a grant was given for a harmless version, and serves
  nothing before it is consumed;
- `ListSound`, `DeletingSound`: what the erasure read before its loop is still true enough when
  it acts on it; its list names a version once, so a version being deleted is not also kept;
- `LinkSound`: what an application was submitted with has a digest.

The proof does not go through all actions for each of these. `VersionStep(v)` says in one formula
what a step may do to the row of a version (and `IntentStep`, `ObjectStep`, `GrantStep`,
`UploadStep`, `ScanStep`, `ReadStep`, `ListStep` to the rest); each is proved once over the
actions, with the hypothesis `IInv`, and the invariants then follow from the steps. For instance
`DigestIsObject`: only the step out of `UPLOADING` sets a digest, to the object of that moment;
an object changes only where there is none or the version is `DELETE_PENDING`.
`OneCleanVersion` and `ErasureCovers` are inductive on top of `IInv`, the second by `CoverSound`
(a version to delete is deleted or still on the list).

### Notifications

The assumptions are those of `NotificationDispatch`: a row may be tried at least once, the null
names are none of the others, rows written to an address are rows, and the bounds are naturals.
Nothing bounds rows, batches, workers or activations.

| Theorem | Module | States |
| --- | --- | --- |
| `Invariance` | `NotificationDispatchProofs` | `IInv`, the inductive invariant |
| `TypesHold` | | `TypeOK`, with the CHECK constraints on leases and attempts |
| `AttemptsAreLedgered` | | `AttemptLedger` |
| `OneBodyPerKey` | | `OneBody` |
| `BouncesMeetReceipts` | | `ReceiptsMeet` |
| `ImplementsMailing` | | `Spec => MailingSpec`: the dispatcher implements `Mailing` |

The argument. The lease has no fencing token, so nothing can be concluded from a batch's belief
that it holds a row; what remains true is that columns only ever grow. `IInv` adds:

- `BodySound`, `SeenSound`: a request is frozen once, with its activation, and what a batch saw of
  it is old but not wrong; this is `OneBody`, through `WireSound`;
- `TaskSound`: a delivery that is not late has a key the provider still knows, and a batch that
  heard `ACCEPTED` was heard by the provider;
- `AgeSound`, `MailSound`: only frozen requests age, and a key the provider has not forgotten and
  has used is one it knows, which is why a second request makes no second mail;
- `Retried`: a row that may be delivered again has failed retryably every time, and not too often;
- `WriterSound`, `HookSound`: who writes the end of an accepted delivery holds row and receipt
  alone, and a webhook that saw no accepted attempt is still right until it commits: the two
  halves of `ReceiptsMeet`.

`RowStep`, `TaskStep`, `AgeStep`, `MailStep` and `EventStep` say once what a step may do, and each
part of `IInv` follows from them. For `Mailing`, an accepted request is a `Leave`, a step that adds
an attempt to a log a `Settle`, and everything else a `Sweep` of the open rows.

### Payments

The assumptions are `Emissions`, `Numbers` and `NullNames` of `PaymentSettlement`; orders, callers,
webhooks and workers are any number.

| Theorem | Module | States |
| --- | --- | --- |
| `Invariance` | `PaymentSettlementProofs` | `IInv`, the inductive invariant |
| `TypesHold` | | `TypeOK` |
| `SettledAsOne` | | `SettledTogether` |
| `MoneyIsAccountedFor` | | `ProjectedIsPaid` |
| `NewestNewsWin` | | `LateNewsLoses` |
| `RowsStayDone` | | the action property `DoneStays` |
| `ImplementsPurchase` | | `Spec => PurchaseSpec`: checkout and inbox implement `Purchase` |

The argument. `IInv` adds what a request, the provider, a webhook, a row and a worker rely on between
two transactions:

- `SentSound`: the news of a payment exist only when it was made, and no failure is newer;
- `HookSound`, `InboxSound`: nobody handles an event that was not sent;
- `TaskSound`: a worker between `Settle` and `Terminalize` may close its row as projected only because
  the order is paid, and stays so; a subscription once found is not lost. With it, the crash between
  the two transactions does no harm, which is `ProjectedIsPaid`;
- `CursorSound`, `CursorPassed`: the attempt's cursor has passed whatever was projected, unless the
  order is paid or a held payment left its time there; it only grows (`CursorGrows`). This is
  `LateNewsLoses`.

`AttemptFollows`, `RowFollows`, `ProviderFollows` and `TaskFollows` say once what a step may do to
attempt, inbox row, provider and task. For `Purchase`, the step in which a session
is paid is a `Charge`, the settlement of a first payment a `Fulfil`, and everything else stutters.

### Credits

The assumptions are `TermsSound`, `AmountsSound` and `Bounds` of `Credits`: grants have a positive
size, end after they begin and are ranked without ties; operations ask for something. Nothing
bounds grants, operations, requests at once, reversals or sweeps.

| Theorem | Module | States |
| --- | --- | --- |
| `CreditTypes` | `CreditsProofs` | `TypeOK` |
| `CreditsSpentWithinGrant` | | `SpentWithinGrant` |
| `ExpiredCreditsStay` | | the action property `WrittenOffIsSpent` |
| `OverdraftsAreLate` | | a grant is overdrawn only after it was written off |
| `ChargedForGood` | | the entries of an operation, once there are any, never change |
| `OperationsChargedOnce` | | `ChargedOnce` |
| `ImplementsWallet` | | `Spec => WalletSpec`: the ledger implements `Wallet` |

The argument. What a request may conclude from an old snapshot is a fact about the entries
that came later, so `IInv` says of every account, as a sequence of entries:

- `Balanced`: what is left and what is spent add up to the grant at most (to less once it is written
  off), and what is spent does not exceed it;
- `WrittenOff`: after an expiry nothing is left, until a reversal;
- `GivenBack`: a reversal is of an earlier consumption, exactly, and none is reversed twice;
- `Steady`: without a consumption `spent` does not grow: an expiry leaves it as it was, a reversal
  lowers it. Since these are what a consumption that is not overtaken may have missed, no more is
  spent than it saw, which with `Share` (never more than is offered) gives `SpentWithinGrant`
  although its own view of `left` may be wrong;
- `Solvent`: before an expiry what is left and what is spent are exactly the grant, and what is left is
  negative only after one, which is `OverdraftsAreLate`;

and of every request that its snapshot is not longer than the account (`Snapshots`) and that what is
to be reversed is a consumption (`Undone`). A lemma (`Extended`) says once under which conditions
an account may grow by an entry, and one lemma per kind of entry (`GrantFits`, `ConsumptionFits`,
`ReversalFits`, `ExpiryFits`) that the code's entries meet them; every action then either appends
such entries or leaves the ledger alone.

`ChargedOnce` is about sums over as many grants as an operation is paid from, and so needs
induction. `Totals` states it for sets (`SetInduction`: a set of naturals that has 0 and is closed
under successor is `Nat`; `SubsetInduction` for the subsets of a finite set), which follows from
the minimum of a well-founded relation, and derives from it that `SumFunctionOnSet` satisfies the
equation it is defined by (`SumsExist`, `SumStep`) and that any element may be taken out of a sum
(`SumRemove`). In `CreditsProofs`, `SharesBefore` is an induction over ranks: the grants below a
rank give what is asked for, or all they offer if that is less, because a grant gives exactly what
those before it leave open (`ShareIs`). With `Sufficient`, the shares add up to the amount
(`SharesAddUp`). A consumption puts each of them into its account once (`TakenOnce`), where the
operation had nothing (`Uncharged`, which is where serializable isolation is used), and afterwards
no step touches its entries (`OthersStep`, `ChargedStep`); `InFull` is the invariant.

For `Wallet`, what an operation has paid from a grant is the sum of its consumptions there that no
reversal names. `LedgerStep` says what a step may do to the ledger: nothing, or one of four. A grant
is a `Make`. A consumption is a `Charge` (`ConsumptionPays`): the shares add up (`SharesAddUp`), each is
within what is left, and each becomes the one consumption of its operation in that account
(`PaidOnce`), where there was none (`PaidNothing`). A reversal is a `GiveBack` (`ReversalGivesBack`): it
names a consumption nobody has reversed, which is all its operation has in that account. An
expiry names no operation and changes no sum, and stutters. To say that a step touches the sums of
one operation and grant and no others (`PaidKept`), the invariant `Keyed` is needed beside `IInv`:
exactly the consumptions of an account carry an operation, each at most once (`Marked`), and a request
under way has one (`Asking`).

### What only TLC checks

The liveness properties `EveryItemSettles`, `EveryNotificationSettles`, `PaymentsSurface` and
`DueGrantsClose` (beyond the prover), and the violated properties.

## 7. Not modelled

Every component with status `not_modelled` in `PROJECT.json`, with its reason there. Inside the
modelled ones: provider activations, health and capacity sampling, back-off arithmetic, the
contents of payloads and digests, the domain work of the individual handlers, the drain
statements of a clean exit (they change only the `WorkerRun`'s own status), a heartbeat
answered after its own timeout, and a signal before the first cycle. In the vault: company
verification documents, legal holds, quotas and rate limits, the privacy export's read path, audit
and access events, and a share that ends while the application remains. In the outbox: staging and its
dedupe, templates, the replay of dead letters, the removal of attempt evidence after 400 days. In
billing: packages, boosts, several grants in one credit account, finance reconciliation, renewals, dunning and cancellation signals of subscriptions, chargebacks and
refunds, asynchronous payment methods, the mock provider (and with it the cancellation of an order), risk
decisions, the call that completes an invoice event, events that match no attempt or several.

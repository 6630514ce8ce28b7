# Verification of the V2 Hope marketplace backend

The repository is a two-sided marketplace: employers publish jobs and missions,
providers apply or make offers, and the employer's money is held in escrow at an
external payment provider (PSP) until the work is accepted. `backend/src` is a
Node.js HTTP service over PostgreSQL, `lib` a Flutter client. The core of the
program is the part that must not lose, duplicate or strand money although it is
spread over routes, a transactional outbox with concurrent workers, an external
provider and the provider's webhooks. This project models that part first.

All paths below are relative to `backend/src/` unless they start with `lib/` or
`backend/tests/`.

## 1. Inventory

| Component | State | Operations | Talks to |
|---|---|---|---|
| Payment lifecycle: `repository/payment_funding.js`, `payment_refunds.js`, `payment_lifecycle.js`, `outbox.js`, `routes/payment_routes.js` | rows of `payments`, `refunds`, `ledger_entries`, `settlements`, `outbox_events` | fund and retry, refund, release, completion of each, terminal failure | job rows (same transaction), outbox workers, PSP |
| Payment webhooks: `repository/payment_webhooks.js`, `webhook_security.js` | `payment_webhook_events` | apply held, released, refunded | payment, job, refund and ledger rows |
| Outbox workers: `outbox_worker.js`, `outbox_handlers.js` | claimed event and its lease | poll, claim, call, complete, fail | outbox rows, PSP, push and mail services |
| Provider adapter: `payment_provider.js` | none | createHold, releaseHold, refundHold | PSP over HTTP |
| Job workflow: `routes/job_handlers.js`, `domain/job_state.js`, `workflow.js` | `jobs.status`, `jobs.provider_id` | create, publish, start, deliver, accept | payment rows |
| Marketplace: `routes/offer_routes.js`, `routes/application_routes.js`, `repository/applications.js`, `repository/core.js` | `offers`, `job_applications` | offer, apply, withdraw, shortlist, forward, interview, hire | job row, fund route |
| Financial arithmetic: `financial.js` | none (pure) | fee split, four journals | funding, completion, webhook |
| Sessions: `services/session.js`, `repository/auth.js` | `refresh_tokens`, `reset_tokens`, `users.session_version` | issue, rotate, revoke, reset | every authenticated route |
| Notifications: `notifications.js`, `repository/notifications.js` | `notifications`, devices, preferences, `NOTIFICATION_DISPATCH` events | queue, dispatch, read | the same outbox as payments |
| Uploads and evidence: `storage.js`, `repository/storage.js`, `routes/storage_routes.js` | `upload_intents`, `uploads`, `evidence`, files | presign, complete, attach, delete | object store, job row |
| HTTP pipeline: `http.js`, `app.js` | upload parser counter and its waiters | acquire, release | every upload |
| Rate limiter: `rate_limit.js` | one fixed window per key | consume, clean up | every request |
| Health and alerts: `observability.js`, `business_metrics.js`, `alerting.js` | counters, recent requests, last alert of one process | count, prune, tell the webhook | every request, a timer |
| Recommendation: `recommendation.js`, `app.js` | none | profile, score, rank, page | job and application rows |
| Input policies: `policies/attributes.js`, `policies/validation.js`; the app's `lib/features/marketplace`, `lib/features/jobs` | none | validate, normalise, filter | `routes/job_handlers.js` |
| Process: `server.js`, `app.js`, `db/runtime.js` | pool, worker loops, open requests | serve, answer probes, shut down | everything above |
| Saved searches: `repository/saved_searches.js` | at most 20 rows per user | upsert with trim, delete | client cache |
| Privacy: `privacy.js`, `repository/privacy.js` | the rows of a user | export, delete | uploads, jobs, tokens |
| Migrations: `db/migrations.js` | `schema_migrations`, advisory lock | up, down, status | start of every process |
| Administration: `repository/admin.js` | none of its own | moderate and delete jobs, block users, decide applications | job, user and application rows |
| Trust, analytics reports, traces, view helpers | append-only rows or none | insert, list, rank, validate | nothing a transition reads |
| In-memory adapters (`legacy`) | a JSON document | as above, single process | tests and demo only |
| Flutter client: `lib/core/network/api_client.dart`, `lib/core/uploads/upload_queue.dart` | tokens, upload queue | refresh once for many callers, resume uploads | backend |

What makes the program correct, per component, and what is hard about it:

* **Payment lifecycle, webhooks and workers.** Every journal is posted exactly
  once; the payment never claims more than the PSP confirmed; no payment waits
  for an event nobody will process; job and payment do not contradict each
  other; at most one refund is paid. Hard: two workers under one lease that ran
  out, a webhook racing the worker's own confirmation, an answer lost after the
  PSP acted, a commit whose acknowledgement is lost, retries after terminal
  failure, a refund racing start or accept.
* **Job workflow.** The status walks the table `JOB_TRANSITIONS`. Hard: the
  status is read before the transaction that changes it, and four other places
  write it (funding, completion, refund, moderation).
* **Marketplace.** One hire per job, and the one who is hired is the one who is
  paid. Hard: offers, applications and funding race each other and funding picks
  its provider before it locks the job.
* **Financial arithmetic.** Journals balance and a refund undoes a funding to
  the cent, for every amount.
* **Sessions.** One live refresh token per family, revocation is final. Hard:
  rotation races with itself and with password reset and logout.
* **Notifications.** A delivered notification is not delivered for ever, and
  notifications do not starve payments in the shared queue.
* **Uploads.** An object is owned by the intent it was reserved under, and
  files and rows do not outlive each other; the parser limit is a limit.
* **Rate limiter, saved searches, migrations.** Bounded counters and rows under
  concurrent upserts; one migrator at a time.
* **Process.** Exit code 0 means that nothing was cut off. Hard: requests,
  transactions, worker loops, a second signal and a ten-second timer end in any
  order.
* **Recommendation, input policies, job form.** The same input is answered the
  same way, what passes a check is what is stored, and client and server agree
  on what a field means. Hard: roundings, boundaries and coercions.
* **Health and alerts.** A standing problem is told once per cooldown, although
  the webhook fails and tables are capped.

The hazards behind these, each at its line, are listed in `PROJECT.json` under
`hazards`.

## 2. Plan

1. `PaymentLifecycle` - the aggregate of one funded job with workers, PSP and
   webhooks (done).
2. `Escrow` - what the aggregate promises, as an abstract specification, and
   the refinement (done).
3. `PaymentLifecycleProofs` - inductive invariant, safety theorems, refinement
   (done).
4. `Financial` and `FinancialProofs` - fee split and journals as arithmetic in
   cents, and the theorems that they balance for every amount (done).
5. `Marketplace` and `MarketplaceProofs` - offers, applications, hiring,
   funding's choice of provider (done). It meets `PaymentLifecycle` in the job's
   status and in `assigned`; left is a mapping that shows its steps to be steps
   of `PaymentLifecycle` with the money's side hidden.
6. `OutboxQueue` - the shared queue across several events, with notification
   dispatch: oldest-first claim, expiry, starvation (done).
7. `RowLocks` and `RowLocksProofs` - the row locks each transaction takes in
   order, and who can wait for whom (done).
8. `UploadParsers`, `RateLimits`, `JobForm`, `Attributes` and `Recommendation`,
   put together in `Requests` with `RequestsProofs` - counters and limits,
   validation, normalisation and ranking against reference definitions (done).
9. `Sessions`, `SavedSearches`, `Uploads` and `Notifications`, put together in
   `Account` with `AccountProofs` - what is kept of a user (done).
10. `Migrations`, `ApiServer` and `Monitoring`, put together in `Server` with
    `ServerProofs` - the life of a process (done).
11. `ProviderCall` - the HTTP retries that `PaymentLifecycle` takes as one step -
    and `OutboxQueue`, put together in `Deliveries` with `DeliveriesProofs`
    (done).

Left for later: the mapping of 5, the app's single-flight refresh and upload
queue, and the check for open payments before an account is deleted.

## 3. Modules

### PaymentLifecycle

One job and the payment that funds it, as the PostgreSQL adapters run it. The
rows of other jobs are independent except that they share the workers, so one
aggregate is enough: a worker busy elsewhere is a worker that takes no step here.

| Variable | Code |
|---|---|
| `job`, `assigned` | `jobs.status`, `jobs.provider_id IS NOT NULL` |
| `starting` | a start request between its read of the payment (`routes/job_handlers.js:131`) and `updateJobSimple` |
| `payment`, `providerRef` | `payments.status`, and whether `provider_ref` is the placeholder or the PSP's |
| `refund` | `refunds` rows in order of creation: status and idempotency key |
| `ledger`, `settlement` | number of times each journal was posted; the settlement row |
| `event` | the outbox row per kind (dedupe keys make it one per kind): status, attempts, lease, `refundId` of the payload |
| `webhookLog` | `payment_webhook_events` |
| `pc`, `task` | where each executor of `processOutboxEvent` is |
| `psp` | external: what the provider did |
| `faults` | bound on faults |

A committed transaction is one action: `withSqlTransaction` (`db/runtime.js:20`)
runs it at READ COMMITTED and every decision in it reads rows it has locked `FOR
UPDATE`. What the code does outside of a transaction is a step of its own: the
start route's early read, the call to the provider, and a worker's life between
claim and commit.

| Actions | Code |
|---|---|
| `Publish`, `StartCheck`, `StartCommit`, `Deliver`, `AcceptDelivery` | `routes/job_handlers.js:108-186` with `updateJobSimple`, `transitionJobWithPayment` |
| `AssignProvider`, `ModerateJob` | `acceptOffer` or an accepted application; `repository/admin.js:39` |
| `FundJob`, `RetryHold` | `fundJobAtomic` |
| `CreateRefund` | `createRefundAtomic` |
| `EnqueuePaymentRelease` | `enqueuePaymentRelease` |
| `ClaimOutboxEvent`, `CallProvider`, `FailOutboxEvent`, `WorkerCrash` | `claimOutboxEvent`, `processOutboxEvent`, `failOutboxEvent` |
| `CompleteCreateHold`, `CompletePaymentRelease`, `CompletePaymentRefund`, `CompletionRejected` | the three `complete...Outbox` and the exceptions the handler makes of their refusals |
| `HeldWebhook`, `ReleasedWebhook`, `RefundedWebhook` | `applyPaymentWebhookAtomic` |

Time is abstracted: a lease can be overtaken at any moment (a fault, because it
takes a worker slower than 60 s) and is free at once when its holder is gone;
backoff only delays a claim, and a delayed claim is a claim not taken yet.
A lease token is a fresh UUID per claim; as a worker holds one event at a time,
its name identifies the token. The PSP is assumed idempotent per operation, to
pay out or return only what it holds, and to report in webhooks only what it did.
The HTTP retries inside one provider call (`payment_provider.js:29`) are one
step, whose answer may be lost although the provider acted.

### Escrow

Six stages (`UNFUNDED`, `ESCROW`, `RETURNING`, `RETURNED`, `ACCEPTED`, `PAID`)
and the four journals, no workers or queue. `PaymentLifecycle` maps its payment
status to a stage and its `ledger` to `books`; `ImplementsEscrow` says that
every step of every actor is an escrow step or invisible.

### Marketplace

One job of kind `JOB`, and everybody who wants it: `PaymentLifecycle` knows only
*whether* a provider is assigned, this module knows *who*, and how the owner's
requests come to decide it. Here the money side is small: `FUNDED` stands for
every status from `FUNDED` to `COMPLETED` (hiring, accepting, funding and
moderation refuse all of them alike), a payment is `OPEN` until `RefundCompleted`
or `ReleaseCompleted` ends it, and a failed hold, which changes neither provider
nor payee, stays `OPEN`.

| Variable | Code |
|---|---|
| `job`, `provider` | `jobs.status`, `jobs.provider_id` |
| `offer`, `application` | rows of `offers` and `job_applications` in order of `created_at`: status and who made it |
| `payment`, `payee` | whether the payment exists and how it ended; `payments.payee_id` |
| `offering`, `applying` | requests between their check of the job (`routes/offer_routes.js:9`, `routes/application_routes.js:27`) and their insert |
| `request` | a fund request: what `routes/payment_routes.js:44-101` has read and chosen before `fundJobAtomic` |

| Actions | Code |
|---|---|
| `OfferCheck`, `InsertOffer`; `ApplicationCheck`, `InsertApplication` | the create routes, split where they await; the insert knows only the partial unique index |
| `AdminShortlist`, `AdminForward`, `AdminReject` | `transitionJobApplication` |
| `Withdraw` | `transitionCandidateApplication` |
| `Interview`, `MakeOffer`, `Hire` | `transitionEmployerApplication` |
| `AcceptOffer` | `acceptOffer`: locks the job and checks again, so that the route's earlier reads add nothing and are left out |
| `FundRead`, `FundChoose`, `FundCommit`, `FundRefused` | the fund route's read of job and payment, its read of the offers, and `fundJobAtomic` |
| `Publish`, `ModerateJob` | as in `PaymentLifecycle` |

Prices are abstracted: the cheapest pending offer may be any pending offer.
Idempotency keys are left out: a request that meets an existing payment changes
nothing here, whatever its key. Account and job deletion are not modelled.

### Financial

The amounts that `PaymentLifecycle` leaves out. Each payment is funded with an
amount and a kind, then released or refunded; which of these happens, and that
each happens once, is `PaymentLifecycle`'s matter (`LedgerMatchesPayment`).

| Variable | Code |
|---|---|
| `status`, `breakdown` | how far the payment is, and the amounts on its row |
| `balance` | debits minus credits of its `ledger_entries`, per account |
| `refused` | history: which postings threw, and whether their journal balanced |

`Fund` is `fundJobAtomic`, `Release` and `Refund` are the completions (a worker's
and a webhook's alike). A posting is one transaction: it commits if
`assertBalanced` is content and every row passes the check constraint of
`ledger_entries`, otherwise it is rolled back (`Commit`, `Refuse`).

Amounts are cents, the unit of `calculatePaymentBreakdown`. In between the code
carries them as doubles: up to `moneyToCents`'s limit of 10^11 cents two
neighbouring amounts are further apart than the rounding error, and `roundMoney`
and `NUMERIC(18,2)` give every cent back, so nothing is lost by the abstraction.

### OutboxQueue

`queue` is `outbox_events` in the order of `created_at`, each row with its kind
and status (an unfinished one with the polls that its lease still has). `Poll`
is one turn of the workers: `claimOutboxEvent` takes the oldest claimable rows,
the handlers run, and a payment event is finished while a `NOTIFICATION_DISPATCH`
row, which nothing sets `DONE`, stays `PROCESSING` and comes back when its lease
ends. `PaymentLifecycle` and `Notifications` look at one event closely; this
module is about their order.

### ProviderCall

`payment_provider.js` between a worker and the provider's facade: up to
`MaxAttempts` requests per call with one idempotency key, each answered, lost,
late or garbled; the check of the answer in `createPaymentProvider`; and calls
that overlap because a second worker claimed the same event. The facade is
external and keeps one stored answer per operation and key, as the adapter's
comment asks; with `Staging` it is the simulator of `staging/providers`, which
keeps one per key. `effects` counts how often it carried an operation out.

### RowLocks

Every operation on a job is the sequence of rows it locks `FOR UPDATE`, read off
its statements: routes take job, payment and what depends on them (after the
advisory lock on an idempotency key), completions take the event first,
webhooks the payment first. A transaction takes a connection from the pool,
locks row by row, may end after any statement (an early return or a throw), and
keeps its locks until then; PostgreSQL aborts a member of a circle of waiting
transactions. Left out: `claimOutboxEvent`, whose `SKIP LOCKED` never waits, and
the weak locks of foreign keys; the offers of a job are one lock, as only a
holder of the job's row takes several.

### Sessions

`user`, `token`, `reset` are the rows of `repository/auth.js`; `req` is what each
request has read and where it stands between two statements; `access` the
access tokens handed out. Registration, login (with the rehash of an old hash),
issue, rotation, reuse, logout, reset, moderation and deletion run statement by
statement at READ COMMITTED: an `UPDATE` sees the rows committed when it began
and waits for a row that another transaction holds (`Snapshot`, `Locked`,
`Reached`). Hashing and signing are data; expired tokens have no effect.

### Notifications

`pref`, `note`, `event`, `device` are the rows; `work` what each worker has
claimed and has still to send; `accepted`, external, the idempotency keys on
which the push or mail provider has acted. `PatchRead` and `PatchWrite` are the
two statements of `updateNotificationPreferences`; `Claim`, `ListTargets`,
`Send`, `Refuse`, `Processed`, `FailOutboxEvent` and `WorkerCrash` the dispatch.
A lease may run out at any time here; when it does is `OutboxQueue`'s subject.

### Uploads

Direct and presigned uploads of one user, evidence that refers to them, and the
deletion of the account, over an object store that knows nothing of the
database: `Put` before `InsertUpload`, whose failure deletes the orphan; the
presign, the client's own `ClientPut`, its expiry and `CompleteUploadAtomic`;
`FindUpload` and `InsertEvidence`, two statements without a lock on the upload's
row, so that a whole deletion may come between them; and `ListUploads`,
`DeleteUserPrivacyBundle` and `RemoveObject` one after the other.
What a file contains is left out: a check of it may come out either way.

### UploadParsers

The counting semaphore of `http.js` and what follows it: a process runs one
piece of JavaScript at a time, and the promises it resolved are continued
before the next completion (`Continue`), so between a release and the waiter
that it woke others may come. `disk` and `object` say whether the file or the
raw body is under the key, for both storage backends.

### RateLimits, SavedSearches

`rate_limit.js` for one client over several replicas, counting in one table or
in a map each: `Request` is the window's upsert and its answer, `Cleanup` the
deletion of old rows, `Tick` the clock. Nothing is assumed of the windows: the
configuration admits an hour, and the clean-up deletes rows after ten minutes
(`CleanupAge`), windows under way among them; the maps drop what is older than
the window of whichever check comes; and health probes count where the general
requests do, with a window of their own. `Lasts` says for how long a check's
windows are nevertheless sure to last, and the bound on admissions is about
stretches of that length.
`SavedSearches` has the upsert with its trim to the newest rows as two
statements, the arrays beside it, and deletes. The app's synchronisation of
searches is not modelled.

### Migrations, ApiServer, Monitoring

`Migrations` is the runner in several processes of several releases: metadata
table, advisory lock, reading of the records with their checksums, one
transaction per migration, rollback, failure and crash. `ApiServer` is a process
from its first request to its exit: `handle` with the limiter's query, probes,
the route's transactions on a pool, disconnects, worker loops, the signals and
`TenSeconds`; the idle-connection error event of the pool and the supervisor's
restart are left out. `Monitoring` keeps instants as ages in ticks of the 30 s
timer: `RecordRequest` with the capped route table and the pruned recent
window, `Alerts` by threshold, and a webhook call that may fail (`Tick`,
`Delivered`, `DeliveryFails`). The call's timeout is assumed shorter than a
tick; memory figures and the process's restart, which loses everything, are not
modelled.

### JobForm, Attributes, Recommendation

`JobForm` follows a job from the app's create page (`AppAccepts`, `BodyOf`)
through `handleCreate` (`Failing` and `Codes`, whose first is the `Refusal`;
`Stored` with its coercions) and the table's constraints to the list (`MayList`, `Listed`) and the app's own
filter (`KeptByApp`), on PostgreSQL and on the arrays. `Attributes` walks a
schema definition by definition as `validateAttributes` does and then once more
over what came out; only tests of the repository call it so far. A value there
has a type, the text that `String(value)` gives and what that text reads as, so
a list may pass for a number, a boolean or an option, as it does in the code.
`Recommendation` scores the published jobs in ten-thousandths with the code's
roundings, sorts and cuts the page; the view that the route scores has no
skills, experience or work mode, so these never take part.

### How the runs put them together

Five runs combine components that share no state. A behaviour is of one `part`,
which is chosen at the start; the other components keep their initial state.
That is sound because no action of one component reads a variable of another,
and it lets one run ask a whole layer's questions. Where a component is run with
two sets of constants (a table and a map, PostgreSQL and arrays, two channels),
each is a part.

| Layer | Specification | Values for TLC |
|---|---|---|
| a user's data | `Account`: `Sessions`, `SavedSearches`, `Uploads`, `Notifications` | `MCAccount` |
| a process | `Server`: `Migrations`, `ApiServer`, `Monitoring` | `MCServer` |
| a worker | `Deliveries`: `ProviderCall`, `OutboxQueue` | `MCDeliveries` |
| requests | `Requests`: `UploadParsers`, `RateLimits`, `JobForm`, `Attributes`, `Recommendation` | `MCRequests` |
| transactions | `RowLocks` | `MCRowLocks` |

`Account`, `Server`, `Deliveries` and `Requests` have constants only, and the
proofs are about them; their MC modules add values.
`Account` takes notifications and searches in any number of setups (`NoteSetup`,
`SearchSetup`), `Requests` the limiter and the jobs (`LimitSetup`, `FormSetup`),
each with users, requests and a store of its own. In `MCAccount` the parts share their
model values, so that one symmetry group serves all of them.

## 4. Runs

| Run | What it asks | Result |
|---|---|---|
| `payment_safety` | Do the rows stay consistent, are the books exactly-once, is the aggregate an escrow, is no confirmation thrown away, under every interleaving and two faults? | holds, 487 901 states |
| `payment_live` | Is every hold, refund and release that was asked for resolved? | holds under the workers' fairness, 56 034 states |
| `market_safety` | Is one candidate hired, is nobody paid whom the owner did not choose, does escrow pin the provider, is every decision final, under every interleaving of two providers and two fund requests? | holds, 980 310 states |
| `financial_safety` | Do journals account for every cent of every amount, and is no journal refused that ends a payment? | holds, 102 378 states |
| `locks` | Can users' requests, workers or webhooks alone wait for each other in a circle, and does each transaction of a mixed three end although the pool is one short? | holds, 404 141 states |
| `deliveries` | Is an operation carried out once however often it is asked for, does a call end, is a payment event served although notifications come back, and in which order? | holds, 23 308 states |
| `account` | What a user keeps: do sessions never fork and every ending count, do dispatched notifications reach their targets and stale workers no harm, do acknowledged files and evidence stay, are searches bounded and the newest kept? | holds, 1 356 933 states |
| `server` | Do starts of two releases with failures, crashes and a rollback keep the record whole and end, does a stop end and exit 0 only when nothing was cut off, are alerts told in time? | holds, 189 766 states |
| `requests` | Are slots, limits, job bodies and forms, attributes and rankings right at their boundaries, and is a picked category shown? | holds, 492 427 states |
| `payment_dead_refund` | Does a retried refund always have an event working on it? | no, see findings |
| `market_two_offers` | Is one offer accepted? | no, see findings |
| `queue_full` | Is a payment served in the end although as many notifications come back as a lease has polls? | no, see findings |

The combined properties name their parts: `SessionsSound`, for one, is the type
invariant of `Sessions` with `OneLiveToken`, `VersionCountsEndings` and
`LoginSawResets`.

### Bounds

`payment_safety`: two workers (three would add no new role: one holds the lease,
one has lost it); `MaxAttempts` 2 instead of 8, so that both a retry and a
terminal failure happen; one idempotency key and the keyless request with two
refund rows, so that a row is reused and a second one created; two webhook ids,
so that a webhook is duplicated under a new id and reordered with another; two
faults, so that a fault can hit the recovery from another. Workers and webhook
ids are interchangeable and reduced by symmetry. `payment_live` has no webhooks,
which could only help, one fault, and no symmetry.

`market_safety`: two providers, since every race is between the one chosen and
another; three offers, so that there is one accepted, one pending that the
acceptance rejects, and one inserted late; two applications, one per rival hire;
two fund requests, so that one commits between the other's steps.
`market_two_offers` needs one fund request and two offers.

`financial_safety`: every amount up to 40 cents, in both kinds. A fee depends on
the amount through its remainder by 10 (30 % and 10 % of a cent count move by
whole cents every 10), so 40 covers each remainder, those that round down and
those that are halves, with quotients that are zero and that are not; the proofs
cover the rest. Two payments show that the books of one do not disturb the
other's.

`locks`: any three operations, dealt in one order because it makes no difference
who does which, with a connection each; a circle of two orders needs two
transactions and the third is the one in between. The part that asks for an end
has one transaction of each side and a pool of two.

`deliveries`: two workers, two requests per call and four calls, so that a call
is repeated, overtaken by another of the same operation, and answered late; a
lease of three polls, two notifications that come back and three other events.
`queue_full` has a lease of one poll and two notifications.

`account`: two requests and three tokens are a rotation beside any other
request, with a successor and its own successor; two resets one of which is
overtaken; three session versions count two endings. Two workers dispatch one
notification to two targets with two tries and two attempts. Two files and three
requests are an upload, an evidence and a deletion under way. Two saves at once
meet a limit of two rows out of three names.

`server`: three processes, two of a release with three migrations (one of them
told to roll back) and one of an older release one of whose migrations differs;
one probe of each kind and one login beside a worker loop, two signals; four
requests of four kinds against a route table of two, a window of two ticks and a
cooldown of three.

`requests`: four uploads for two slots; the limiter in three setups, of up to
five instants and four requests in each: two replicas with a table that is
cleaned up before its longer window ends, two with maps, and a table with health
probes, where each clause of `Lasts` is what decides (windows one tick longer, or
a sharing check left out, break the bound); bodies that differ from
a sound mission and a sound job in up to two fields over every boundary value,
so that each check is met alone and beside another; strings of up to five
characters against a limit of three, and numbers, booleans, lists and an object,
most of which read as something else; four jobs in two categories, asked for
twice with every filter.

Deadlock is not checked where the system may stop: a settled job, a full table,
an exited process or a finished request has nothing left to do.

### Fairness

The worker loops poll for ever (`outbox_worker.js:21`), so an event that stays
claimable is eventually claimed, and a handler that has claimed one runs to its
end unless it crashes, because the provider call has a timeout. Owners,
providers of work and webhooks owe nothing. Release is resolved unless the owner
asks for ever, since each request resets the attempts (`repository/outbox.js:46`).
Calls to the provider are answered or time out. In `requests` a completed read
continues and an upload under way completes, since sockets have timeouts. In
`server` a statement comes back and PostgreSQL serves the waiters of a lock in
their order (strong fairness of `AcquireLock`), the ten-second timer and the
alert timer go off, and the webhook takes a call now and then. In `locks` a free
row is granted, PostgreSQL's deadlock check comes round and a transaction ends.

### Findings

Three runs show where a statement of the repository and its code part:

* **A retried refund can be dead** (`NoDeadRefund`, `repository/payment_refunds.js:43`).
  The upsert of the refund event keeps the payload. After a terminal failure, a
  refund under another key creates a new `refunds` row, but the event still
  names the old one: its completion refuses, the new row stays `PENDING` for
  ever, the payment returns to `HELD`, and a repetition of the request is
  answered with the dead row. A test title promises the contrary.
* **Funding accepts a second offer** (`OneOfferAccepted`,
  `repository/payment_funding.js:42`). The route reads `provider_id IS NULL`, an
  acceptance overtakes it, an offer whose route had seen `PUBLISHED` is inserted,
  the route picks that one, and `fundJobAtomic` checks that it is pending but not
  that the job is still without a provider. What remains true is
  `PayeeWasChosen`: both were accepted by the owner.
* **Notifications can starve a payment** (`PaymentServed`,
  `outbox_handlers.js:42`). A dispatched `NOTIFICATION_DISPATCH` row is never set
  `DONE`; older than any new payment event, it is claimed first with every lease.
  As many such rows as a lease has polls leave no poll for the payment.
  `deliveries` shows the same property below that number.

These were met while modelling; they have no run of their own. Where the module
states the broken sentence it is named, as the last definition of the module:

| Where | The code | The repository says |
|---|---|---|
| `repository/admin.js:46` (`SettledIsTerminal`) | moderation locks six statuses but not `SETTLED` | `tests/property-workflow.test.mjs:40`: SETTLED is terminal |
| `repository/payment_refunds.js:60` (`WorkInProgressIsDelivered`) | a completed refund overwrites `IN_PROGRESS` | `domain/job_state.js:8` |
| `repository/payment_webhooks.js:33` (`HeldReportTaken`) | a held report before the worker's commit is answered 409 | `tests/payment-e2e-phase4.test.mjs:93`, on the arrays |
| `repository/applications.js:46` (`ProviderKept`) | a hire replaces the provider of an accepted offer, until money pins it | `V9-CONCURRENCY-VALIDATION.md:4` |
| `financial.js:68` (`EveryAmountFunds`) | a fee of zero is a ledger row the constraint refuses, so a JOB of 0.01 cannot be funded | `policies/validation.js:42` |
| `repository/auth.js:37` (`PasswordStands`) | a login's rehash overwrites a reset that overtook it | `tests/e2e-security.test.mjs:101` |
| `repository/auth.js:65` (`PriorSessionsEnd`) | the successor of a rotation under way escapes a revocation | `tests/e2e-security.test.mjs:94` |
| `outbox_handlers.js:68` (`DispatchEnds`) | a dispatched row is never `DONE` | `tools/staging-notification-delivery.mjs:26` |
| `repository/notifications.js:33` | two patches at once: one is undone | `tests/notification-isolation-expanded.test.mjs:18` |
| `repository/notifications.js:115` (`DisabledCreatesNothing`) | preferences are not read | `tests/notification-channel-isolation.test.mjs:11` |
| `routes/account_routes.js:14` (`EvidenceKeepsObject`) | evidence added during a deletion loses its object | `routes/account_routes.js:22-23` |
| `http.js:171` (`StoredIsValidated`) | the raw multipart body is stored over the validated file | `backend/README.md:67-68` |
| `observability.js:85` (`ProbesRefuseProbes`) | probes and requests count under one key | `docs/CONFIGURATION-CONTRACT.md:27` |
| `db/migrations.js:96` (`NobodyFails`) | two first starts race on `CREATE TABLE IF NOT EXISTS` before the lock | `docs/DATABASE-MIGRATIONS.md:15` |
| `app.js:215` (`LiveIsIndependent`) | the limiter's query is awaited outside of `try` | `tests/health-contract.test.mjs:11` |
| `repository/saved_searches.js:34`, `:36`, `:48` (`PutAccepted`, `MissingIs404`) | an id that is no UUID is refused; the trim may delete a row just updated; a missing row is deleted with 200 | `tests/v2-saved-search-sync-contract.test.mjs:20-47`, on the arrays |
| `app.js:318` (`DiversityApplied`), `:324` | no category is ever added to those seen; rows of one moment are in no order | `README.md:155` |
| `routes/job_handlers.js:72`, `lib/features/jobs/jobs_query_logic.dart:72` | the app sends and compares the slug where SQL has a UUID | `jobs_query_logic.dart:66`, `jobs_query_logic_test.dart:133` |
| `policies/attributes.js:176` | a text cut after the trim may end in a blank | `policies/attributes.js:134` |
| `policies/attributes.js:118`, `:160` | an empty list passes for an empty option, and the empty text that is stored is missing the next time | `policies/attributes.js:134` |
| `staging/providers/provider-simulator.mjs:34` (`ReleaseIsTaken`) | one answer per key whatever the operation, and the release carries the hold's key | `staging/providers/README.md:7` |

The properties of the runs are chosen so that they hold beside these, so what
they leave open is not caught by them. `PROJECT.json` says so at each hazard:

* A payment falls back after the last attempt although the money moved
  (`repository/outbox.js:132`); `BooksFollowProvider` is about the other
  direction, books that claim what the provider did not do.
* A call to the provider ends; how long it takes beside its event's lease is not
  stated.
* Two live tokens of one session and a stale access token are excluded, not the
  successor that escapes an ending nor the rehash (`PriorSessionsEnd`,
  `PasswordStands`).
* Patches are kept when they follow each other, and the searches of overlapping
  saves are bounded but not said to be kept.
* A row without an object may stay behind for a key that nobody was told of, and
  evidence that came after a deletion's list may lose its object.
* Each process that counts in a map is bounded, not their sum.
* Rankings are compared for rows of different moments, and a picked category is
  shown where categories are named in one way.
* Attributes that were accepted come out the same a second time unless a text
  outside of the schema was cut at a blank, or the schema has an empty option.

## 5. Proofs

Eight modules hold the theorems; each is for all values of the constants that
the named assumption allows.

`PaymentLifecycleProofs` proves, for all sets of workers, keys and webhook ids
and every number of attempts, refunds and faults (`ConstantsAssumption`), that
every behaviour satisfies the type invariant, each safety invariant of
`payment_safety`, `NoConfirmationLost` and the refinement of `Escrow`. None of
the safety invariants is inductive alone; they are proved together as `IInv`. To
the six that the run checks it adds three conjuncts:

* `RowsAgree` - a start request that once read HELD cannot find the payment
  unheld again; a funded job has a provider; the PSP's reference is on the row
  exactly once the hold was confirmed. Without it `StartCommit` breaks
  `JobMatchesPayment`.
* `EventsAgree` - which event rows exist at which payment status, and that an
  event without a claim has no lease. Without it the upserts of a retry could
  meet a DONE event, and a late completion an event that was given up.
* `ConfirmationsAreTrue` - a worker that holds a confirmation holds a true one,
  however old its lease. Without it completion breaks `BooksFollowProvider`.

The argument is one lemma per group of actions (`JobRoutes`, `OwnerRequests`,
`Webhooks`, `WorkerSteps`, `Completions`, `Failure`), joined in `InvStep`. The
refinement then needs one case per action: `LedgerMatchesPayment` is not used to
count, the journals are posted in the same steps in both specifications.

`MarketplaceProofs` proves, for every number of providers, fund requests, offers
and applications (`MarketAssumption`), all six properties of `market_safety`.
`DecisionsAreFinal` follows from types and `RowsHaveOwners` alone: two lemmas,
`OffersGrow` and `ApplicationsGrow`, say what a step may do to one row. The
safety invariants are proved together as `MarketInv`, which adds
`RequestsKnow` - a fund request that took the provider it read as payee can rely
on that person having been chosen, for good; without it `FundCommit`, which acts
on reads made long before, breaks `PayeeWasChosen` - and `RowsHaveOwners`,
without which a hire could assign nobody. `ChosenStays`, that a choice once made
stays made, carries `PayeeWasChosen` over every step that does not choose.

`FinancialProofs` proves, for every number of payments and every bound on the
amounts (`FinancialAssumption`), the properties of `financial_safety` and
`FeesBounded`. `FeeIsNearest` bounds the rounding by half a cent; from it
`BreakdownSound` derives what the rest uses of the fees. `JournalsBalance` and
`JournalRows` say that every journal of a sound split balances and that a fee of
zero is the only thing a row can be refused for. The invariant `FinInv` adds
`FundedIsSound`: the row of a funded payment holds a sound split whose fee is
not zero. Without it a refund, which posts the same three rows as the funding,
could be refused with the money in escrow.

`AccountProofs` proves all five properties of `account`, for any number of
setups, users, requests, tokens, keys, workers and events, and any limit, tries
and attempts (`SessionsAssumption`, `AccountAssumption`). `AccountKeepsSessions`
says that the account implements the sessions' specification, so that what is
true of the sessions alone is true in it. Each part has an invariant of its own:

* *Sessions.* `RowsSound`, `Counted` and `AccessSound` are the four parts of
  `SessionsSound` with who may hold an access token; `RequestsSound` and `Told`
  add what a request may rely on from its earlier reads. A rotation works on a
  row that is still live because it has locked it, and the version that a login
  read is never above the user's.
* *Searches.* The bound on the rows is not inductive: two saves under way may
  have chosen rows of each other to delete. `TrimsBound` says it of every set of
  trims that are still to come, as if they had been carried out: what they leave
  is within the limit and the saves that remain. A trim's step takes one element
  from that set, a save's step adds one. `SavedAreNewest` says of one request at
  a time that a row saved last is among the newest and chosen by no trim; it
  rests on `NewestFew`, a count of rows by their moments.
* *Files.* `KeysSound`: an upload that may still be undone has a key that nobody
  else holds and nobody was told of. Without it, the clean-up after a failed
  insert could delete an acknowledged object. `ListsSound`: what a deletion has
  listed has its row and had no evidence then (`unclaimed`); so the object of a
  key that was answered for is taken only where a list found no evidence, and
  evidence whose upload was read before needs no more.
* *Notifications.* `DispatchesSound`: what a worker need not send any more was
  accepted by the provider. Without it a worker that claims an event again, or
  keeps only the failed targets between two tries, could report one it never
  reached. `PatchesInTurn` is about the two statements of a patch.
  `StaleFailureHarmless` needs no more than the types: the guard of the failure
  names the lease.

`ServerProofs` proves `MigrationsSound`, `ServerSound` and `AlertsInTime`, for any
number of processes, releases, requests and worker loops, and any caps, window,
cooldown and thresholds (`MigrationsAssumption`, `ServerAssumption`).

* *Migrations.* The lock's exclusion makes a reading of the records stay current
  (`Reading`) until the process applies the next one or lets the lock go.
* *The process.* `ApiInv`: once the pool's end was called nobody is unanswered
  and the server takes on nobody, and exit code 0 was given when every
  connection had come back. `HandleOnlyAnswers` says that a request's step after
  the signal may answer but not begin to wait.
* *Health.* `RecentSound`: the recent requests are the end of all that came, and
  what is left out is older than the window or did not fit. `SoundIsExact` draws
  `RecentIsExact` from it. `TableSound`: the common row is there only when the
  table is full, so a route without a row had no request; without it `CountsAgree`
  is not inductive, because a route could get its row after some of its requests
  were folded. `ToldSound` keeps the time of the last alert for every set of
  alerts. The percentiles need an order that sorts the samples: `OrderExists`
  builds it by counting who comes before whom, and `PercentilesRank` counts the
  samples up to a place of it.

`DeliveriesProofs` proves `CallsSound` and `OldestFirst` for any number of
workers, calls and requests, either facade, and any lease and queue
(`CallAssumption`, `DeliveriesAssumption`). The key of an operation does not
depend on the call, so the stored answer is there before any second request
(`Remembered`), and an answer that passes the check is one of the operation asked
for (`AnswersMeant`). A poll touches exactly the rows that it claims, and
`FirstFew` counts them: of at least k numbers exactly k have fewer than k below
them.

`RequestsProofs` proves the five invariants of `requests` and `PickedAreShown`,
for any requests, slots and payloads, any schema, any jobs, applications and
queries, and any number of setups of the limiter and the jobs
(`RequestsAssumption`). Each part has an invariant of its own:

* *Parsers.* `Slots` says that the counter is the requests that parse, and that
  those and the woken fit; `Queued`, that waiters and woken stand where the
  queues say. Without them a release could hand one slot to two.
* *Limiter.* What an answer says is about a count, what the properties say is
  about the log of admissions, by store and check. `Upper` and `Lower` bound one
  by the other for the window that is open: a check admits no more than the
  window's count, and up to the largest limit that counts there nothing is
  counted that was not admitted. `Still` keeps the future empty, and
  `Spread` gives two limits to any stretch that meets two windows, which a
  stretch that `Lasts` cannot exceed: that two windows begin so far apart is
  where the clean-up, the pruned maps and a shorter window on the same counter
  enter. A stretch is counted by the cardinality of its admissions, and the
  lemmas about that (split at a tick, one more admission as `Risen`) carry the
  proof. There is no assumption on windows, clean-up or traffic.
* *Jobs.* `BoardInv` keeps what each request posted until it is answered:
  `Handled` and `Heard` tie an answer to its body; by `PageChecks` a body that
  the app built (`FromApp`) fails only what the page does not look at.
  `NamedInv` traces every category back to a form or a body; where these and the
  lists use ids only, or slugs only, it gives `PickedAreShown`.
* *Attributes.* `Built`: the definitions walked so far have put `Settled` values
  in `out`, and only these. That coercion of a coerced value changes nothing
  (`CoercedSettles`) needs lemmas about `Trim` and the cut of a text. `Normal` is
  the payload of the second walk, and `Same` follows where no option is empty
  (`Sure`); `Loose` are the values that no definition
  names, for which the exception at a cut was found by this proof.
* *Ranking.* `RankInv`: the list that is being scored is the chosen jobs, each
  once, with the item that its row gives. `PlacesAre` shows that the places of a
  sorted list are a permutation, `PlaceCounts` what stands before each, and
  `ListingsAgree` that rows of different moments have one order, so that a query
  is answered alike. `RoundingsAgree` weighs the nine rounded components
  against the rounded sum, which is what the code throws on.

`RowLocksProofs` proves `LocksSound` for any number of transactions and any pool.
Routes lock in a canonical order, so in a circle of routes the row of the
highest place would be waited for by its own holder's rival for a higher one;
the argument takes a minimum (`NatLessThanWellFounded`). Workers have no common
order, but only the holder of a refund's event takes the refund's row, so nobody
in a circle of workers waits for it, and the others lock event, payment, job in
this order. In a circle of webhooks everybody that is waited for would hold the
payment's row. `Kept`, that what an open transaction locked is still its own,
carries both.

Every invariant and every action property that a passing run checks is thus
stated by a theorem. Only model-checked are liveness and fairness, which are
beyond the prover: `HoldResolves`, `EndsResolve`,
`DeliveriesEnd`, `ServerProgress`, `WaitersServed` and `EachEnds`.

## 6. Not modelled, and why

* Signature checks of webhooks, password hashing, tokens' signing, views and
  row conversions are data to what is modelled.
* Amounts are not in `PaymentLifecycle`: each journal is a function of the
  stored breakdown, and that it balances is a question of arithmetic, answered
  in `Financial`. The report that compares ledger and payments
  (`financial_reconciliation.js`) only reads.
* `deleteJob` removes the aggregate as a whole. The export of a user's data only
  reads; the check for open payments before an account's deletion is not
  modelled.
* Trust and reviews insert rows once and read them back. Analytics reports and
  traces are read by no transition.
* The in-memory adapters serve tests and demos in a single process; saved
  searches and job lists are modelled on them too, because tests of the
  repository state properties that hold there only. Seeding of categories is
  their start-up data.
* Of the Flutter client only the create form and the list filter are modelled;
  its session, its upload queue, pages and widgets are not. Android shell, assets
  and release tools have no run-time state.
* In `Recommendation` the wording of reasons and the offline evaluation are left
  out; in `Monitoring` the normalisation of route names and the variant without
  a webhook.

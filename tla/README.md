# RefundDesk in TLA+

RefundDesk puts a second person between a refund and the money. A user of a Stripe account asks for
a refund in the Stripe app, another user approves it, and a worker executes it at Stripe exactly
once, through crashes, lost answers and reordered webhooks. This directory holds a model of the parts
of the program in which that promise can break, the TLC runs that check it on small instances, and
proofs, checked by TLAPS, that do not depend on the size of the instance.

Paths below are relative to the repository's root.

## 1. The system

### 1.1 Components

| Component | State it keeps | Operations |
| --- | --- | --- |
| Stripe app (`apps/stripe-app/src`) | a nonce per unanswered intent, the call it waits for | begin, release, complete, reset a mutation |
| Platform API (`apps/platform/src/server/pilot-*.ts`) | mutation receipts; requests, decisions, approvers, alerts in PostgreSQL | create, approve, reject, cancel a request, acknowledge an alert, update the settings; reads |
| Approval attestation (`apps/worker/src/signed-request-authority.ts`, `db-store.ts`) | one attestation per nonce, valid for five minutes | verify a signed request, attest an approval, check the attestation on execution |
| Request rows (`packages/db/src/tenant-repositories.ts`) | workflow status, effect state, guard, attempts, linked refund | compare-and-set updates |
| Database authority (`packages/db/prisma/migrations`) | triggers, unique indexes, append-only tables | permits or aborts a statement |
| Execution worker (`apps/worker/src/refund-execution.ts`, `execution-recovery.ts`) | job and handler in progress | load, preflight, cross the effect boundary, call Stripe, record; recover every minute |
| Reconciliation scanner (`apps/worker/src/reconciliation-scanner.ts`) | window, candidates, checkpoint | list refunds, observe, commit with an absence proof; linked lane |
| Account webhook (`apps/platform/src/server/account-webhook.ts`) | webhook receipts | verify, find, resolve, insert |
| Webhook worker (`apps/worker/src/webhook-*.ts`) | queue, receipt status | recover, process, mark |
| Installation and retention (`packages/db/src/installations.ts`, `packages/db/scripts/retention-purge.mjs`) | installation, tenant, purge date | provision, authorize, deauthorize, purge |
| Stripe (external) | refunds by idempotency key, events | create a refund, move its status, deliver events |
| Drawer of the Stripe app (`apps/stripe-app/src/views/RefundDrawer.tsx`) | selected tab, pages of two lists, loads under way, spinner and busy flags | select a tab, load, refresh, load more, mutate and refresh |
| Edge admission (`apps/platform/src/server/edge-admission.ts`) | per class: sources with leases and buckets, a shared bucket, a concurrency count, the sweep | admit, refuse, release, sweep |
| Durable rate limit (`packages/db/prisma/migrations/20260801130000_...`) | one bucket per account, environment and class of request | consume: look up, lock, create, sweep, charge |
| Platform readiness (`apps/platform/src/server/readiness-runtime.ts`) | a cached answer, a shared query | check |
| Worker process (`apps/worker/src/main.ts`, `pg-boss-runtime.ts`, `health-server.ts`, `readiness.ts`, `operational-monitor.ts`) | consumers, handlers, store, readiness checks, the standing alert | start, catch up, serve, sample, stop, abort, exit |
| Retention purge (`packages/db/scripts/retention-purge.mjs`) | session lock, batch, counts | verify, list, purge each candidate, report |
| Key rotation and keyrings (`packages/config/src/key-rotation.ts`, `packages/domain/src`) | the state and the keys of three families | validate, transition, seal, open |
| Deployment (`deploy/lightsail/scripts`) | markers, transition journal, commit marker, containers | release, roll back, resume, fence |

Notifications, rendering, parsing, cryptography and the scripts that check the repository keep no state
that a refund depends on; `PROJECT.json` lists each of them with the reason it is not modelled.

### 1.2 How they interact

The views call the platform with signed requests. The platform asks the worker to verify each one, and
to attest approvals, and then works in PostgreSQL transactions, several per request. The worker shares
the database and nothing else with the platform. pg-boss hands it execution jobs, webhook jobs and cron
jobs; it may hand out a job again while its first handler is still running, when the job has expired.
Stripe answers the worker's calls and delivers events to the platform's account webhook, which writes
them to a durable inbox that the worker drains. Deauthorization arrives as such an event and changes
what every other lane may do.

Around this core, a signed request passes the edge gate (a lease held until its body is read and its
transaction is over), the worker's verifier and the durable limiter before `SignedMutations` begins. The
drawer sends these requests and shows what comes back. One worker process hosts every consumer of
`RefundExecution` and `InstallationLifecycle`, the scanner's timer and the health server that verifies
and attests. A release replaces both processes and the keys they seal and verify with.

### 1.3 What is hard

* **Effect or no effect.** Between the committed effect boundary and the recorded answer nobody knows
  whether the refund exists. A crash, a timeout or an expired job falls there.
* **Who ends a request.** Handler, recovery, scan, linked lane and webhook each act only in some
  states; a state that none of them selects holds its guard for ever.
* **Reads that are stale when used.** The handler reads the payment at Stripe and crosses the boundary
  in a later transaction; the platform checks access, receipt and workflow in transactions before the
  one that writes.
* **Repetition.** Events, jobs, deliveries of one nonce and observations of one refund arrive again,
  late and in any order; two lifecycle events may carry the same second.
* **Time.** A purge after 29 days against a reinstallation, an attestation of five minutes against the
  retry of its nonce, a scan window that no longer reaches back; clocks of Stripe, the worker, the
  platform and the database that differ and may be set back, under windows, buckets and caches.
* **Limits.** Source maps, tables, batches and leases at their capacity, while what fills them is released
  late, twice or never.
* **Two processes with the same task.** Two scans, two purge runs, two first requests of an account, a
  sample of the monitor and the shutdown that overtakes it.
* **Stopping in the middle.** A release killed between two of its durable writes and run again; a worker
  told to stop while handlers, health requests and checks still use its store.

`PROJECT.json` lists the hazards, each at the line where it bites and with the properties that would
catch it.

## 2. The modules

| Module | What it is |
| --- | --- |
| `RequestRow` | one row of `refund_requests` with its execution and attempts: every compare-and-set update as a guard (`Can...`) and a function on the row, and the attestation's account of the row's revisions |
| `RefundLifecycle` | the abstract specification: what triggers and unique index let any client do |
| `RefundExecution` | platform, worker, scanner, webhooks, deauthorization and Stripe around these rows |
| `RefundRaces` | `RefundExecution` with a memory of the two races that nothing in the desk prevents, and what holds of every request that was in neither |
| `InstallationLifecycle` | account webhook, installation row, inbox, worker, retention purge |
| `SignedMutations` | the Stripe app's nonces, attestation, platform service, receipts |
| `ScanWindow` | windows, pages and checkpoint of the scan: which refunds are ever listed |
| `Gcra` | the rate arithmetic of gate and limiter, and what it promises |
| `EdgeAdmission` | the gate and the three handlers that hold its leases |
| `SignedRateLimit` | the limiter's transaction, statement by statement, with its locks |
| `PlatformReadiness` | the platform's readiness probe with its cache and shared query |
| `RefundDrawer` | the drawer's tabs, lists, loads, effects and refreshes |
| `WorkerProcess` | the worker from start to exit: consumers, store, readiness, monitor, shutdown |
| `RetentionPurge` | a run of the purge over the tenants that are due |
| `KeyTransition` | key families, keyrings, and a release with its journal on one host |
| `RefundExecution_proofs`, `RefundRows_proofs`, `RefundCertainty_proofs` | theorems and proofs about the desk, each on top of the one before |
| `InstallationLifecycle_proofs`, `SignedMutations_proofs` | theorems and proofs about installations and mutations |
| `Processes_proofs`, `Admission_proofs`, `Host_proofs` | theorems and proofs about the modules around the desk: worker process, drawer and scan; gate, limiter and readiness; keys and purge |
| `MC...` | sets and functions that the `.cfg` files give to the constants; `MCPayment`, `MCLifecycle`, `MCUpkeep` and `MCPlatform` put several instances into one run |

`RequestRow` to `SignedMutations` are the desk: they share the rows, the inbox and the receipts, each looking at them from
one side. Where a module leaves out what another one models, the outcome is a nondeterministic choice: a
candidate window in `RefundExecution` is any set of requests, and `ScanWindow` says which refunds a window
lists; a handler in `WorkerProcess` is something that uses the store; a request in `EdgeAdmission` is
something that may last. The modules that share no state are not multiplied with one another: a run that
holds several of them chooses one in its initial state and leaves the others as they are (`part`,
`mode`), so that it explores the sum of their behaviours.

Definitions carry the names of the functions they translate; the `map` of `PROJECT.json` has the lines.
A definition whose comment begins with *Mutant* is a wrong version of the one after it. It is used by
nothing in the specification: it shows that a property can fail.

### 2.1 `RefundExecution`

`row[r]` is the row of a request, `cand[r]` the correlation candidate for its refund, `alert` the
payments with an unresolved external refund alert, `job` and `hand` the pg-boss job and the handler's
position, `scan` a scan in progress, `aged` the requests that have fallen out of its window, `receipt`
the refund events already processed, `stripe[r]` the status history of the request's own refund, `stray`
the calls on their way that nobody awaits, `external` the refunds made in the dashboard.

Each method of `db-store.ts` and `tenant-repositories.ts` that runs in one serializable transaction is
one action. The Stripe read, the call, the crash and the expiry of the job are actions of their own, so
that every other actor can act in between. `Crash` loses the handler and, when it was calling, leaves
its call as a stray; `Expire` hands the job out again under a handler that goes on as a zombie.

Abstractions: amounts are equal and a payment bears `Capacity` refunds; a refund is named by the request
whose idempotency key made it; the order of events of one refund is their index in `stripe[r]`; the scan
window is the set of requests it covers; one approver, whose being enabled is a Boolean, because the
votes are `SignedMutations`'s subject. The audit trail, which no transaction reads, is left out.

`RefundLifecycle` is its abstract specification. A transaction of the desk is one or two permitted
statements on the rows it touches; that `RefundExecution` implements it (`ImplementsLifecycle`, with the
refinement mapping in `RefundExecution`) says that no trigger ever aborts a transaction of the desk. An
aborted one would not be a lost update: it would fail again on every retry of its job.

`RefundRaces` adds `raced`, the requests that were ever in one of two races: two handlers worked on the request
(`RunTwice`), which takes a job that expired under a handler; or a scan that covers it was under way while its
call was (`Overtaken`), which takes a call that is slower than the recovery and the next scan. The code allows
both, and the runs `stale_handler` and `late_call` show what they do to a request: a call in flight without a
guard, a request that failed although its refund comes. `raced` is a history. No guard reads it, and the
behaviours are those of `RefundExecution`. The properties `...UnlessRaced` hold of the code as it is: they say that
nothing else does these things, and that a race of one request does not reach another one.

### 2.2 `InstallationLifecycle`

One account in one environment. `inst` is the installation with its tenant (a number, so that a
reinstallation after a purge is a new tenant), its status, last lifecycle event and purge date;
`dlv[d]` is a webhook request between its transactions; `receipt` and `effect` are the inbox and what was
committed for it; `listed`, `jobs`, `hand` are the recovery's list, the queue and the handlers;
`blocked` stands for everything on the desk that forbids a purge. The recovery lists the 500 oldest receipts of all
accounts; with one account it always reaches them, and what waits behind 500 others that fail for ever is not
covered.

### 2.3 `SignedMutations`

`call[c]` is a delivery between its transactions: attestation (approvals only), context and access,
receipt, checks of the service, the writing transaction, and the storing of an error. `nonce[i]` is the
nonce a view keeps for an intent, `fetch[u]` the call its user waits for. A view that gives up
(`giveUp`) leaves its call running, so that the next delivery of the nonce meets it. `effect[n]` counts
how often the mutation of a nonce was performed and `answered[n]` collects the outcomes that were sent;
the program has neither, they are there for the properties. `trouble` is TRUE as long as calls and
fetches may fail.

A nonce stands for its content (the receipt and the attestation compare hashes, and a view never uses
one nonce for two contents). `context.sync` and `audit.export` write nothing but their receipt and are
left out. "approved" covers every status until the guard is released. The desk is past its onboarding and its users
have opened the app: the checks for an approval policy (`INSTALLATION_INACTIVE` of a creation) and for unknown
approvers (of a settings update) always pass.

### 2.4 The modules around the desk

`ScanWindow`: `stripeTime` and `clock` are the clocks of Stripe, in whose whole seconds refunds are
stamped, and of the worker; `born`, `visible` and `observed` say of each refund when it was created,
whether lists show it yet, and whether some scan passed it to `observeRefund`. A window has the steps of
`scanInstallation`: take the end, load the checkpoint, list a page, observe its refunds, commit by
compare-and-set. `Delay + MaxSkew <= Overlap` is its assumption: the overlap of an hour in the code
against minutes of either.

`EdgeAdmission`: acquire and release run without an await and are one action each; between them a request
waits in a stage of its handler. `charges` and `admissions` are histories. `SignedRateLimit` splits the
transaction at its statements, because row locks and the advisory lock are what keeps two first requests
apart; `rowLock` and `advisory` are those locks, and whoever looks for a deleted row waits for the commit.

`PlatformReadiness`: the answer of a query is taken when the database evaluates it and may be used, from
the cache, later; `answer.age` is how long ago the database was ready when somebody is told that it is.

`RefundDrawer`: handlers run to their next await and React runs an effect later. A load carries whether
it is still the current one of its list, which stands for the comparison of its number with the counter.

`WorkerProcess`: `phase` is the position of `main()`; `stopping` the flag that consumers, readiness and
monitor look at; `check[x]` a readiness check between its two awaits, asked for by the monitor or by the
health server; `standing` the alert in memory and `open` the alerts that the log shows as raised and not
resolved. How old a poll, a job or a checkpoint is appears as a fault that is there or not.

`RetentionPurge`: the tenants are numbered by their date. `run[x]` has the step, batch and counts of a run,
`written` the certificates it wrote, `dueThen` what was due at its last listing. The ORDER BY and LIMIT of
the listing are the tenants by their place: how many due ones come before. `InstallationLifecycle`
has the decision about one tenant, with its receipts and events.

`KeyTransition`: `host` is the three markers of a host, `box` the containers with their configuration,
`journal` and `marker` the two files of a transition, `rel` the release in progress with what it would
restore, `stored` what was sealed with which key. A release may be killed after every durable write. A rotation
record of `schemaVersion` 1, which has no fingerprints and skips their comparison, is left out.

## 3. The runs

All bounds are named constants of the modules. Deadlock is not checked: every instance may come to
rest, because its requests, events, nonces or instants are used up.

| Run | Instance | Checks |
| --- | --- | --- |
| `request` | one request, two attempts, every event around the desk but an external refund; an expired job is handed out again | `TypeOK`, `SuccessIsReal`, `BoundaryIsAuthorized`, `NoRequestForgotten`, `ImplementsLifecycle` |
| `payment` | two requests on one payment in one slot, with an external refund; one request in two slots, with expiring jobs and executions that the window no longer reaches; slow calls in both; a scan over several pages; two scans at a time | `OneGuardPerPayment`, `AlertExcludesExecution`, `AttestationSurvivesRecovery`, `CallHoldsGuardUnlessRaced`, `AbsenceCertainUnlessRaced`, `OneUnderWayUnlessRaced`, `CheckpointOpenUnlessRaced`; `NoBlindSpot` |
| `liveness` | one request, crashes, slow calls, external refund, fairness | `ApprovedComesToRest` |
| `lifecycle` | authorization, removal in the same second, reinstallation, two deliveries at a time; a host, adopted or recorded, and its releases; two purge runs over two tenants | `LatestLifecycleEventDecides`, `LifecycleMovesForward`, `PurgeWaits`; `StoredIsReadable`, `ServingIsAccounted`; `ReportIsTrue` |
| `upkeep` | refund event and removal with duplicated and expired jobs; one refund and its scans; one purge run after another; all with fairness | `EffectOncePerReceipt`, `LifecycleReceiptIsProcessed`, `SettledTenantIsPurged`; `RefundIsObserved`; `DueTenantIsPurged` |
| `platform` | create, approve, cancel, settings of three users, two calls at a time; the gate; the limiter; the probe; the drawer of a user who works on requests or on alerts | `EffectOncePerNonce`, `AnswersAgree`, `OneDecisionPerRequest`, `DeciderIsApprover`; `GateAccounts`, `EdgeRateKept`; `LimitKept`; `ReadyIsRecent`; `ListIsTrue`, `NoOrphanSpinner` |
| `intents` | create, approve, reject, acknowledge with retries; a worker process with one queue and one fault at a time; both with fairness | `IntentIsAnswered`; `StopIsOrderly`, `LogShowsAlert`, `MonitorConverges`, `StopEnds` |

`GateAccounts`, `LimitKept`, `ListIsTrue`, `ReportIsTrue` and `StopIsOrderly` are conjunctions of two named claims about
one mechanism. The type invariants of the modules are theorems; only that of `RefundExecution` is also a property of a
run. The proofs about `KeyTransition` and `RetentionPurge` have typings of their own.

What they show, in words.

* The desk: a payment never has two guards; a call that may still reach Stripe is covered by a guard
  and a possible effect, and a request that ended without a refund has none and will get none, unless the request was
  raced (2.1); a request that
  succeeded has a refund that succeeded; an approval stays valid through every recovery path; no attempt
  begins for a removed installation, a disabled approver or (`AlertExcludesExecution`, in `payment`) under an
  alert; no trigger ever aborts the
  desk; only a raced request can keep a scan from committing for its whole installation; a payment never has two
  refunds of unraced requests under way at once (`OneUnderWayUnlessRaced`); no approved request is forgotten: some lane will select it in
  a state it can work on (`NoRequestForgotten`), and it comes to rest at last.
* Scans: what the next window no longer lists has been observed, and every refund is observed at last
  without a webhook.
* Installations: the newest lifecycle event decides, in whatever order the events arrive; nothing is purged
  too early, everything settled is purged, held tenants do not starve the others, and a run reports what it
  did.
* Mutations: a nonce has one effect and one answer; a request has one decision, made by somebody who was an
  approver when it committed; a user who retries is answered.
* Admission: leases are counted exactly and come back, refused addresses do not fill the map, and neither
  eviction, deletion, races for a first row nor clocks that are set back give anybody more than the rate.
* Processes: ready means recently ready; a stop fails readiness at once, closes the store after its
  last user and ends; the log shows the alert that stands, and what lasts is told.
* Releases: nothing serves that neither the record nor an open journal names, and what was sealed stays
  readable through rotations that fail, are killed and are run again.
* The drawer: the list is that of the tab, in order, and no spinner waits for nobody.

### 3.1 Bounds

* `MaxAttempts` 2: the second attempt is the first that can meet the leftovers of another one.
* `MaxMoves` 2 in `request`: a refund's first status and one change of it, which gives one stale and one
  current observation. `InitialRefundStatus` lets a refund start pending or succeeded there, so that the
  late failure of a succeeded refund is covered; a refund that is pending, succeeds and then fails takes
  three moves and is not. `payment`, which is about guards, slots and refunds under way, uses one move, from
  a refund that starts pending or succeeded.
* `Capacity` 1 or 2: with 1 a second refund of the payment is refused by Stripe, with 2 it is possible.
* `Handlers` 1 or 2: two job slots meet on one request only through expiry. `payment` uses two slots for
  one request, and one slot for two requests with one attempt each.
* `PurgeDelay` 2 and `RetryHorizon` 1: 29 days against Stripe's three days of retries; what matters is
  that the horizon is the shorter one. `MaxTime` lets the purge of the last event become due.
* `MaxNonces` 1 with two `Calls`: two deliveries of one nonce, or of the nonces of two users, at a time.
  More nonces of one intent are independent intents that the same view makes one after another.
* `Environment` and `Failures` say which events around the system an instance lets happen. Splitting
  them keeps the instances small; between them the runs take every action.
* `platform` explores the desk twice: without a removal of the installation, and with it but without
  requests and attestations that lapse.
* `ScanWindow`: two ticks to a second, so that a window may end inside one; the last refund must be able to
  be stamped before the last window, for which `MaxStripeTime` is 5. Pages of one refund make every second
  refund a page boundary. Two scans at a time look at one refund, one scan at several.
* `EdgeAdmission`: one place in the map and one lease for two sources and two connections, so that every
  limit is reached; the shared bucket allows two admissions and refills after the last instant, the source
  bucket and the sweep come round within it. `SignedRateLimit`: three accounts for two rows and two
  transactions; a bucket becomes stale at the last instant, with the clock one step back still possible.
* `PlatformReadiness`: two callers, a cache of two instants, a query of one and a clock that may fall back
  by one; six instants see a cached answer expire and be renewed.
* `RefundDrawer`: two loads of a list under way (a third has nothing new to overtake), two pages, two
  changes of tab or context.
* `WorkerProcess`: one queue; the queues are started one after the other in the same way and share nothing
  but the count of those that are ready. One fault at a time, for two hide one another in the first code
  that is found.
* `RetentionPurge`: two tenants with batches of one and two, at most two batches in a run, one hold or job
  for each tenant and one mishap.
* `KeyTransition`: two revisions and two families, of which one rotates through every state and is also
  offered keys that are wrong in each of the ways the checks know.

* `LateCalls` is TRUE in `payment`, `liveness` and `late_call`. With `FALSE` a call lands, or is lost, before a
  scan begins that covers its request. `request` has it FALSE to keep the instance small; its five properties are
  theorems for slow calls, too (4.1, 4.4 and 4.5). `stale_handler` has it FALSE, so that what it shows needs no late
  call, and so has `stranded`, which needs none either.
* `payment`: with an external refund the installation is not removed and no refund of the desk succeeds, and without
  one at most one of the two requests succeeds. The refund of the request that two handlers may take up stays
  pending and its installation stays. Executions age out of the window only for that request and only while no
  handler has lost its job. The theorems of 4.4 and 4.5 have no such bound.
* `payment` does not tell its requests, or its slots, apart (`RequestsAndSlots`): both modes treat them alike, and
  all its properties are invariants.
* `liveness` has `Capacity` 1, because the external refund that takes the capacity away is what a request must come
  to rest from.

### 3.2 Fairness

* Cron jobs (recovery, scan, linked lane, webhook recovery) are weakly fair: pg-boss starts them every
  minute or quarter of an hour and nothing of ours disables them.
* Handler steps are strongly fair, since a handler that crashes again and again is enabled again and
  again: it does not crash for ever at the same point.
* A stray call lands or is lost (weak): the network does not keep it for ever.
* The purge and the clock are strongly fair: jobs have at most ten retries, so that the purge meets a
  moment without an active job, and time passes.
* A call on the platform is served to its end or fails (weak); a user who was not answered tries again
  (strong); and `recovers`, the end of the trouble, comes one day (weak). Without the last a user could
  be refused for ever.
* Scans and time go on (weak), and a refund is listed one day (weak).
* The purge's timer, each step of a run, the end of a removed tenant's job and the repair of the grants are
  weakly fair.
* `main()` goes on while its awaits return, what a check awaits returns or fails, and the monitor's timer
  fires (weak). A process whose handler does not return within the grace period closes without it. Nothing is
  assumed of faults or of the log: `MonitorConverges` asks for a log that can be written again and again.
* Nothing is assumed of users beyond that, of Stripe's decision on a pending refund, or of webhooks: no
  liveness property depends on a webhook being delivered.

### 3.3 Where code and documents disagree

Five runs expect a violation. Each states what a document, a comment or a test says.

* `late_call`: recovery diverts a request whose call is merely slow, and a scan that begins before the
  call lands proves its absence; the request then fails terminally while its refund exists
  (`AbsenceIsCertain`).
* `stale_handler`: a handler whose job has expired records a certain answer about the first attempt
  while the second is in flight; the record is bound to the request and not to the attempt
  (`CallInFlightHoldsGuard`).
* `stranded`: the failure of a linked refund arrives by webhook while the request is in reconciliation.
  It is recorded without ending the request, and the linked lane does not list failed refunds
  (`LinkedFailureEndsRequest`).
* `stale_nonce`: the settings view keys its nonces by content. When the answer to a save is lost, another
  save succeeds and the user then goes back to the first content, the old nonce replays the old answer:
  the view shows approvers as saved that are not in force (`SavedSettingsAreInForce`).
* `retired_journal`: a release is killed after it has written `ACTIVE_REVISION` and before it has replaced
  `current`. The next run resumes its journal and fails before its own writes; it restores nothing, since it
  has written nothing, and retires the journal, although the comment wants it kept until every marker is
  restored. Every later release then refuses the host (`RetiredJournalLeavesAgreement`).

More disagreements and limits were seen that have no run of their own:

* A handler's late ambiguous record sends a request that a scan has already resumed back to
  reconciliation with a proven absence, which neither scans nor recovery select. `Stranded` names this
  state, and `ApprovedComesToRest` counts it as a place of rest. The cause is that of `late_call`. A scan that
  then lists the refund of the request finds it in a state its compare-and-set does not expect, and the checkpoint of
  the installation stays where it is until a webhook reports the refund (`CheckpointOpenUnlessRaced` excepts raced
  requests for this reason).
* A request that a late call let end with its guard released makes room for another one on the payment, whose call
  may then meet the first one's at Stripe (`OneUnderWayUnlessRaced` excepts raced requests).
* After a deauthorization every lane requires an active installation, so that a possible or identified
  effect is not reconciled, although `docs/RETENTION.md:168` says so.
* A refund event that was accepted before a removal and not yet processed is neither listed nor
  processed afterwards, and keeps the tenant from being purged for ever, against
  `docs/RETENTION.md:171`. `SettledTenantIsPurged` has a proviso for it.
* A process that dies with a raised alert leaves it unresolved in the log for ever: the standing alert is
  kept in memory. `LogShowsAlert` is about one process.
* A check of the monitor that hangs silences it, and a startup scan that throws for one installation keeps
  the whole worker from starting.
* The settings and the payment view have no sequence guard like the drawer's: a load that answers after a
  save, or after the user has typed, overwrites what is shown.
* A purge run stops at the first batch that contains a blocked tenant and reports itself completed, although
  tenants behind that batch may be due. The next hour's run starts again, and those that are seen to be held are
  listed after the others, so that `DueTenantIsPurged` holds as long as jobs of removed tenants end.
* A first release that fails has sealed data with keys of which the host keeps no record;
  `StoredIsReadable` leaves these out.

One is a limit of the protocol: an attestation can be consumed for five minutes, and a nonce is attested
once. An approval that is retried with its nonce after that finds the expired attestation, is refused by
the trigger with a 500, and 500 keeps the nonce. `IntentIsAnswered` is checked without expiring
attestations for this reason; the safety run has them.

## 4. The proofs

TLC covers small instances; the theorems hold for every set of requests, payments, handlers, events,
deliveries, users, intents, refunds, sources, accounts, queues, tenants and key families and for every
bound. They rest on the named assumptions on the constants, which TLC evaluates in the runs of these
modules: bounds are numbers, a name for nothing (`NoKey`, `NoRun`, `NoAlert`, `NoBucket`...) is not one of
the things it stands beside, and there is at least one source at the gate and one account at the limiter.
Two assumptions say more: `Delay + MaxSkew <= Overlap` for the scan, and `DefaultBatch <= MaximumBatch`
for the purge, both of which the constants of the code satisfy.

Every safety invariant and action property that a passing run checks is a theorem. Some theorems state what no
run checks: `EndsStand`, `RefundIsApproved`, `EndScheduled`, `NoCircularWait` and the types. Each proof has the same shape: an inductive invariant, a lemma that
the initial states have it, one lemma per action (or kind of action) that a step keeps it, and a last one
that it implies the property.

### 4.1 `RefundExecution_proofs`

`TypeCorrect`, `OneGuard`, `AlertExcludes`, `BoundaryAuthorized`, from the inductive invariant

    Inv == TypeOK /\ RowsCoherent /\ HandlersBound /\ OneGuardPerPayment /\ AlertExcludesExecution

`RowsCoherent` is the strengthening: a request that may still execute has not released its guard, and
one that is pending or approved has no effect. Without it the settlement of the requests of an alerted
or deauthorized payment would not be known to take each of them out of the protected statuses, and a
terminal request could be thought to lose its release. `HandlersBound` says that a busy handler is about
a request.

The argument goes by kinds of step and not by the forty actions. `Kept(v, w)` is what nearly every
update of a row preserves: the release, not entering a protected status, the number of attempts. Lemmas
show it for each function of `RequestRow`, then for each action (`...RowsKept`); `StepKinds` says that a
step keeps all rows, or resumes rows at the end of a scan, inserts one, crosses a boundary, or protects a
payment, and the last four are treated on their own. `BoundaryAuthorized` is the boundary case again.

### 4.2 `InstallationLifecycle_proofs`

`LifecycleTypeCorrect`, `LatestDecides`, `LifecycleForward`, `EffectOnce`, `PurgeIsPatient`. Lifecycle
events are ordered by their time, a removal after an authorization of the same second (`Outranks`). The
inductive invariant says that the installation's last event outranks every received one (`Settled`), that
the row says what its last event says (`RowOK`), and, for the gap between the transactions of a delivery,
that a delivery which has resolved an authorization has applied it or found it outranked (`DeliveryOK`).
`Forward` is the relation between a row and its successor that the three writers keep.

`EndScheduled` is the safety half of `SettledTenantIsPurged`: an uninstalled tenant has the purge date of the
deauthorization that ended it, and nothing but time, a hold or an unprocessed refund event stands between
it and its purge. A tenant without a date would be kept for ever.

### 4.3 `SignedMutations_proofs`

`MutationTypeCorrect`, `NonceOnce`, `AnswersStand`, `RequestDecidedOnce`, `DeciderAuthorized`, from the
inductive invariant

    Inv == TypeOK /\ EffectOncePerNonce /\ AnswersAgree

The receipts are a ledger. A step answers nothing, answers with the entry there is (`AnswersLedger`), or
makes the entry in the transaction that found none (`EntryLedger`); then nothing was answered before,
because what is answered is in the ledger, and nothing was performed, because what is performed is. No
assumption is made on how many deliveries of a nonce run at once, or on where they fail.

`OnlyExecutionActs` says that every step either leaves the effects alone, withdraws no attestation and
lets requests at most lapse or end (`Idles`), or is the transaction of `executeMutation` with all its
checks (`Executes`). `DeciderAuthorized` and `RequestDecidedOnce` follow: the transaction found the
approver enabled, and the request pending and hence not closed by any nonce.

### 4.4 `RefundRows_proofs`

`SuccessReal`, `AttestationSurvives` and the refinement `LifecycleImplemented`, from

    RowInv == Inv /\ Evidence /\ RowFacts

`RowFacts` says of each row: its link is its own refund or none, and what is not linked carries no
observation (`Linked`); its revision is the number of transactions that its status and attempts account
for (`Ledger`), which is what `attestationCompatible` recomputes; and what it says of Stripe has happened
there (`Real`). `Evidence` says the same of what handlers and correlation candidates carry: an observed
status was one of Stripe's at that position of the history. Since a history only grows, evidence stays
evidence, however late it is applied.

`RowStep(r, v, w)` is everything that a step may do to one row, as a relation between the row before and
after. Each action is shown to be such a step on every row; the ledger, the refinement and `EndsStand` then
look at the relation only. For the refinement each `RowStep` is one or two statements that the triggers permit, one
after the other, and what one transaction writes to several rows keeps the unique index.

`EndsStand` says of every step that an ended request stays as it ended, with the one exception of a success
that Stripe takes back later (`failed_terminal`), and that no step gives back a guard that was released, a
link or an execution row. No order of late answers, webhooks and scans reopens a request.

### 4.5 `RefundCertainty_proofs`

`CallHoldsGuard`, `AbsenceCertain`, `CheckpointPasses` and `OneUnderWay` are theorems of `RaceSpec`, for every
instance: any number of handlers, jobs that expire under them, and calls as slow as they like. They are about each
request that was in neither race (2.1), whatever happened to the others. Without that exception they are false of
the code: `stale_handler` and `late_call` each use one race only. The theorems say that nothing else can break
them: no crash, retry, deauthorization, external refund, webhook, order of scans, or race of another request.
`MeetingsExpired` says where the first race comes from: when two handlers are busy with one request, the job of one of
them has expired.

    CertainInv == RowInv /\ \A r \in Unraced : ~RunTwice(r) /\ HandCertain(r) /\ Certain(r)

One handler works on the request. A call under way has had no effect yet, and its request
says that it may have one; where an effect is said to be absent there is none and none under way. The part
that takes the proof is `Covered`: while a scan is on, the requests it may declare absent at its commit
have no call in flight (those that have are `Overtaken`) and begin none, and if they have a refund then the scan has yet to list it or has passed it on as
a candidate. The commit turns this into the absence that it records.

`OneUnderWay` follows from this invariant and the next: what is under way keeps its guard, and a payment has one
guard. The case that takes work is a refund on which Stripe has not decided: its request has not ended,
whatever was observed of the refund, because only the first status of a history may be open (`Decided`).

`NobodyForgotten` and `RefundIsApproved` hold of raced requests, too.

    LaneInv == \A r \in Requests : Laned(r, row[r]) /\ Reconciled(row[r]) /\ Called(r) /\ Decided(stripe[r])

A lane is a query of the repositories: the recovery by minute selects what is approved or executing, the scan
what may have had an effect, the linked lane what was identified. Each has a WHERE clause of several columns,
and the columns are written by different handlers, so that nothing in the code says that every open request
satisfies one of them. `NoRequestForgotten` is not inductive: that a lane selects a request now says
nothing of the columns that decide about it after the next record. `LaneInv`, with `RowInv`, says which
combinations of status, effect, execution row and link occur (`Laned`, `Reconciled`), and that what has reached
Stripe is not marked as not begun (`Called`). The three states which it leaves to a person are in the statement
(`Stranded`, `PassedBy`). Whether the installation is active is a condition of each lane and not part of it.
The linked lane works on what it listed earlier, which may have left the lane since: its action is guarded by
what it loads, and only its fairness speaks of the listing.

`RefundIsApproved` says that a call, and a refund, comes from a request with an execution row and an attempt, in
a status that only an approved request reaches.

### 4.6 `Processes_proofs`

* `StopOrderly`, `LogShows` (`WorkerProcess`): from the moment a stop begins no consumer fetches another
  job, `main()` gets to closing the store only when handlers have returned or were given up, and the server
  is closed before; a check that the stop overtook has not yet been answered or has a bad answer.
* `ListTrue`, `NoSpinnerOrphaned` (`RefundDrawer`): a list has at most one current load, of the selected tab;
  a spinner belongs to it or to an effect that is due; a mutation under way keeps the tab.
* `NoBlindSpots` (`ScanWindow`): for each window under way, a refund that was visible early enough to be this
  window's business is observed, on the page in hand, or on a page still to come. When the window commits, it
  is observed. What became visible too late for it is, by the assumption on the overlap, recent enough for the
  next one to list. The rounding to seconds enters through one lemma, that division is monotone.

### 4.7 `Admission_proofs`

Gate and limiter rest on lemmas about `Gcra`: a bucket covers the answers it has given (`Covers`: the k-th
answer from the last is at least k intervals below its theoretical arrival time), a granted request keeps
that, and a covering bucket implies that no interval holds more answers than burst and rate allow.

* `EdgeRates`, `GateAccountsTrue` (`EdgeAdmission`): a source that was evicted is remembered by the clock
  that never falls back, since only a bucket that is paid is evicted. The counters are the
  cardinalities of the sets of holders, through early and repeated releases.
* `LimitsKept` (`SignedRateLimit`): a scope without a row is paid even for a clock that is set back by the
  most allowed; a row never owes more than the burst; what a transaction has seen of a row is still so
  while it holds the row's lock, and of the table while it holds the advisory lock.
* `NoCircularWait` (`SignedRateLimit`): a transaction that waits for a row waits for one that waits for nobody; one
  that waits for the advisory lock waits for one that may wait for a row and no longer. The invariant says that a
  lock is held by a transaction at the statement it is held for (`LockInv`).
* `ReadyRecent` (`PlatformReadiness`): a query under way and a cached answer are young, measured on a clock
  that may have fallen back.
* `AdmissionTypes`, like `ProcessTypes` in `Processes_proofs`, states the type invariants.

### 4.8 `Host_proofs`

* `StoredReadable`, `ServingAccounted` (`KeyTransition`): with an open journal the host's markers lie
  between the two sides of the transition, both sides can open what is stored, and what serves is the
  new side (`JournalSound`); without one, what serves is what the markers name (`QuietSound`); the record
  and the containers' keys open everything (`RecordSound`, `BoxSound`); and each step of a release has
  written what it says (`ReleaseSound`). A release that is killed drops only its own conjunct, which is why
  the others are stated of the files and not of the release.
* `ReportTrue` (`RetentionPurge`): only the run that holds the lock lists and purges; its counts add up
  with what it has not come to yet; the candidates of a batch are distinct and none of them gone, so that each
  purge writes a certificate of its own; and a batch that was not full, and of which nobody was left, holds
  everybody who was due. That a listing names each due tenant once is proved of the ranks: `Before` is a strict
  total order, so that places are a bijection (`Places`).

### 4.9 Only model-checked

* Liveness under fairness, which this prover does not reach: `ApprovedComesToRest`,
  `LifecycleReceiptIsProcessed`, `SettledTenantIsPurged`, `RefundIsObserved`, `DueTenantIsPurged`,
  `MonitorConverges`, `StopEnds`, `IntentIsAnswered`.
  What they need of safety is proved where it says something by itself: no request is off all lanes
  (`NobodyForgotten`), a removed tenant has its date (`EndScheduled`), the limiter's transactions do not wait in
  a circle (`NoCircularWait`), no window passes over a refund that nobody observed (`NoBlindSpots`), a spinner
  has a load or a mutation that will clear it (`NoSpinnerOrphaned`).
* The properties of the runs that expect a violation, which are false of the code. For `CallInFlightHoldsGuard` and
  `AbsenceIsCertain` the theorems of 4.5 say of which requests they are true.

## 5. Plan

Done: all modules of section 2, and the proofs of section 4. What could follow:

1. `RefundCorrelation`: several refunds compete for one request (`observeExternalRefund`,
   `decideRefundCandidate`): a candidate is linked only if it is the only one.
2. The quiesced backup and its journal (`deploy/lightsail/scripts/backup.sh`), and the host's containment.
3. The settings and payment views, as `RefundDrawer` does the drawer.

## 6. Not modelled

Cryptography, parsing and canonical encoding (a request is verified or it fails, a keyring opens what was
sealed with a key it has); amounts, currencies and the eligibility decision (a nondeterministic outcome);
tenant isolation by row-level security (each module is about one tenant); notifications and the sampling of
log signals (they change nothing that is modelled); Retry-After headers and the parsing of addresses; the
rendering of the app, its settings and payment views; what an audit download contains (that it holds a
lease is modelled); images, systemd units, certificates, backups and containment of the deployment, which
its contract tests cover. The content of a purge's certificate, and pg-boss beyond the delivery, expiry and
repetition of jobs, are external.

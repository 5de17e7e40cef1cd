------------------------- MODULE InstallationLifecycle -------------------------
(***************************************************************************)
(* One Stripe account in one environment: the account webhook of the       *)
(* platform, the installation row with its tenant, the durable inbox of    *)
(* webhook receipts with the worker that drains it, the context sync that  *)
(* provisions a tenant, and the hourly retention purge that deletes it.    *)
(*                                                                         *)
(* A delivery is three transactions of the platform (look for the receipt, *)
(* resolve or provision the installation, insert the receipt) and other    *)
(* actors run between them.  Stripe delivers every event any number of     *)
(* times and in any order, for as long as it retries.                      *)
(*                                                                         *)
(* Installation and tenant status are one field: every writer changes both *)
(* in the same transaction, the installation to active or deauthorized and *)
(* the tenant to active or pending_deletion.                               *)
(***************************************************************************)
EXTENDS Naturals

CONSTANTS
  Events,        \* the account's events: records with a name, a kind and a creation time
  NoEvent,       \* last_lifecycle_event_id IS NULL
  Deliveries,    \* webhook requests that may be in progress at the same time
  Handlers,      \* webhook job slots of the worker that may run at the same time
  PurgeDelay,    \* 29 days, in the model's unit of time
  RetryHorizon,  \* how long Stripe redelivers an event
  MaxTime,       \* bound: the clock
  MaxTenants,    \* bound: tenants the account is given, one after the other
  Failures       \* bound: the failures that this instance lets happen

EventKind == {"authorized", "deauthorized", "refund"}

ASSUME LifecycleAssumption ==
  /\ \A e \in Events : e.kind \in EventKind /\ e.at \in Nat
  /\ NoEvent \notin Events
  /\ PurgeDelay \in Nat \ {0} /\ RetryHorizon \in Nat
  /\ MaxTime \in Nat /\ MaxTenants \in Nat \ {0}
  /\ Failures \subseteq {"delivery", "processing", "crash", "expiry"}

VARIABLES
  now,      \* the database clock
  inst,     \* the installation: tenant number (0: no row), status, last event, purge date
  made,     \* how many tenants the account has been given
  blocked,  \* a legal hold or an unresolved request, attempt, candidate or scan holds the tenant
  receipt,  \* receipt[e]: the webhook_receipts row of e
  effect,   \* effect[e]: how often e's observation or audit event was committed
  dlv,      \* dlv[d]: the webhook request in progress
  listed,   \* jobs the recovery has listed and not yet enqueued
  jobs,     \* webhook jobs waiting in pg-boss
  hand      \* hand[h]: the webhook job in progress

vars == <<now, inst, made, blocked, receipt, effect, dlv, listed, jobs, hand>>
workerVars == <<listed, jobs, hand>>

MaybeEvent == Events \cup {NoEvent}
Lifecycle == {e \in Events : e.kind # "refund"}
Job == [ev: Events, tenant: Nat]

NoInstallation == [tenant |-> 0, status |-> "deauthorized", last |-> NoEvent, purgeAt |-> 0]
IdleDelivery == [step |-> "idle", ev |-> NoEvent, tenant |-> 0]
IdleHandler == [step |-> "idle", ev |-> NoEvent, tenant |-> 0, owns |-> FALSE]

TypeOK ==
  /\ now \in Nat /\ made \in Nat /\ blocked \in BOOLEAN
  /\ inst \in [tenant: Nat, status: {"active", "deauthorized"}, last: MaybeEvent, purgeAt: Nat]
  /\ receipt \in [Events -> {"none", "received", "processed", "failed"}]
  /\ effect \in [Events -> Nat]
  /\ dlv \in [Deliveries -> [step: {"idle", "verified", "looked", "resolved"},
                             ev: MaybeEvent, tenant: Nat]]
  /\ listed \in SUBSET Job /\ jobs \in SUBSET Job
  /\ hand \in [Handlers -> [step: {"idle", "run", "mark"}, ev: MaybeEvent, tenant: Nat,
                            owns: BOOLEAN]]

Init ==
  /\ now = 0 /\ inst = NoInstallation /\ made = 0 /\ blocked = FALSE
  /\ receipt = [e \in Events |-> "none"] /\ effect = [e \in Events |-> 0]
  /\ dlv = [d \in Deliveries |-> IdleDelivery]
  /\ listed = {} /\ jobs = {}
  /\ hand = [h \in Handlers |-> IdleHandler]

Exists == inst.tenant # 0
Active == Exists /\ inst.status = "active"
Received(e) == receipt[e] # "none"

-------------------------------------------------------------------------------
(* The installation row.                                                     *)

(* Mutant: a tie is decided for the authorization. *)
AuthorizationApplies_tie(e) == inst.last = NoEvent \/ e.at >= inst.last.at

(* An authorization applies when it is the first lifecycle event, a newer    *)
(* one, or the last one again.                                               *)
AuthorizationApplies(e) ==
  \/ inst.last = NoEvent
  \/ e.at > inst.last.at
  \/ e.at = inst.last.at /\ inst.last = e

Authorized(e) ==
  [inst EXCEPT !.status = "active", !.last = e, !.purgeAt = 0]

(* Mutant: a deauthorization is applied however old it is. *)
DeauthorizationApplies_always(e) == e \in Events

(* A deauthorization also replaces an authorization of the same second.      *)
DeauthorizationApplies(e) ==
  \/ inst.last = NoEvent
  \/ e.at > inst.last.at
  \/ e.at = inst.last.at /\ (inst.last = e \/ inst.last.kind = "authorized")

(* Mutant: the purge is scheduled without its delay. *)
applyWebhookDeauthorization_overdue(e) ==
  IF DeauthorizationApplies(e)
  THEN [inst EXCEPT !.status = "deauthorized", !.last = e, !.purgeAt = e.at]
  ELSE inst

applyWebhookDeauthorization(e) ==
  IF DeauthorizationApplies(e)
  THEN [inst EXCEPT !.status = "deauthorized", !.last = e, !.purgeAt = e.at + PurgeDelay]
  ELSE inst

(* Mutant: opening the app clears the purge date before it looks at the event. *)
Provisioned_clears ==
  IF ~Exists
  THEN [tenant |-> made + 1, status |-> "active", last |-> NoEvent, purgeAt |-> 0]
  ELSE IF inst.status = "deauthorized" /\ inst.last # NoEvent /\ inst.last.kind = "deauthorized"
       THEN [inst EXCEPT !.purgeAt = 0]
       ELSE [inst EXCEPT !.status = "active", !.purgeAt = 0]

(* Opening the app provisions the tenant of an account that has none.  An    *)
(* installation that Stripe's last event ended is returned as it is; any     *)
(* other one is made active.                                                 *)
Provisioned ==
  IF ~Exists
  THEN [tenant |-> made + 1, status |-> "active", last |-> NoEvent, purgeAt |-> 0]
  ELSE IF inst.status = "deauthorized" /\ inst.last # NoEvent /\ inst.last.kind = "deauthorized"
       THEN inst
       ELSE [inst EXCEPT !.status = "active", !.purgeAt = 0]

contextSync ==
  /\ ~Active
  /\ Exists \/ made < MaxTenants
  /\ inst' = Provisioned
  /\ made' = IF Exists THEN made ELSE made + 1
  /\ UNCHANGED <<now, blocked, receipt, effect, dlv, workerVars>>

-------------------------------------------------------------------------------
(* The account webhook.                                                      *)

Ends(d) == dlv' = [dlv EXCEPT ![d] = IdleDelivery]
Goes(d, step) == dlv' = [dlv EXCEPT ![d].step = step]

(* A request that is admitted, verified and normalised.  One that is not     *)
(* leaves no trace.                                                          *)
receiveAccountWebhook(d, e) ==
  /\ dlv[d].step = "idle"
  /\ e.at <= now /\ now <= e.at + RetryHorizon
  /\ dlv' = [dlv EXCEPT ![d] = [step |-> "verified", ev |-> e, tenant |-> 0]]
  /\ UNCHANGED <<now, inst, made, blocked, receipt, effect, workerVars>>

(* A known event is acknowledged as a duplicate, except a deauthorization,   *)
(* which is always applied again.                                            *)
findExisting(d) ==
  /\ dlv[d].step = "verified"
  /\ IF Received(dlv[d].ev) /\ dlv[d].ev.kind # "deauthorized"
     THEN Ends(d)
     ELSE Goes(d, "looked")
  /\ UNCHANGED <<now, inst, made, blocked, receipt, effect, workerVars>>

ResolvedTo(d) ==
  dlv' = [dlv EXCEPT ![d].step = "resolved", ![d].tenant = inst.tenant]

(* An authorization takes effect here, before its receipt exists; a          *)
(* deauthorization finds any installation, a refund only an active one.      *)
resolve(d) ==
  LET e == dlv[d].ev IN
  /\ dlv[d].step = "looked"
  /\ inst' = IF Exists /\ e.kind = "authorized" /\ AuthorizationApplies(e)
             THEN Authorized(e) ELSE inst
  /\ IF (e.kind = "refund" /\ Active) \/ (e.kind # "refund" /\ Exists)
     THEN ResolvedTo(d)
     ELSE Ends(d)
  /\ UNCHANGED <<now, made, blocked, receipt, effect, workerVars>>

(* The receipt is inserted, with the deauthorization in the same transaction,*)
(* if the installation that was resolved is still there.                     *)
Insertable(d) ==
  /\ Exists /\ inst.tenant = dlv[d].tenant
  /\ dlv[d].ev.kind = "refund" => Active

insert(d) ==
  LET e == dlv[d].ev IN
  /\ dlv[d].step = "resolved"
  /\ inst' = IF Insertable(d) /\ e.kind = "deauthorized"
             THEN applyWebhookDeauthorization(e) ELSE inst
  /\ receipt' = IF Insertable(d) /\ ~Received(e) THEN [receipt EXCEPT ![e] = "received"]
                ELSE receipt
  /\ Ends(d)
  /\ UNCHANGED <<now, made, blocked, effect, workerVars>>

(* Any of the three transactions fails, or the process dies: 503, and Stripe *)
(* will deliver the event again.                                             *)
deliveryFails(d) ==
  /\ "delivery" \in Failures
  /\ dlv[d].step # "idle"
  /\ Ends(d)
  /\ UNCHANGED <<now, inst, made, blocked, receipt, effect, workerVars>>

-------------------------------------------------------------------------------
(* The worker's inbox.                                                       *)

(* Mutant: only receipts that were never tried are listed. *)
Recoverable_fresh ==
  {[ev |-> e, tenant |-> inst.tenant] :
     e \in {f \in Events : receipt[f] = "received" /\ (f.kind # "refund" \/ Active)}}

Recoverable ==
  {[ev |-> e, tenant |-> inst.tenant] :
     e \in {f \in Events : receipt[f] \in {"received", "failed"}
                             /\ (f.kind # "refund" \/ Active)}}

(* The minute recovery lists the receipts in one query, of the whole table   *)
(* and at most 500, the oldest first: here it always reaches the receipts of *)
(* the account.  What waits behind 500 others that fail for ever is not      *)
(* modelled ...                                                              *)
listRecoverableWebhookJobs ==
  /\ listed = {} /\ Recoverable # {}
  /\ listed' = Recoverable
  /\ UNCHANGED <<now, inst, made, blocked, receipt, effect, dlv, jobs, hand>>

(* ... and enqueues a job for each; the queue accepts a second job for the   *)
(* same receipt.                                                             *)
enqueueWebhooks ==
  /\ listed # {}
  /\ jobs' = jobs \cup listed /\ listed' = {}
  /\ UNCHANGED <<now, inst, made, blocked, receipt, effect, dlv, hand>>

takeJob(h, j) ==
  /\ hand[h].step = "idle" /\ j \in jobs
  /\ jobs' = jobs \ {j}
  /\ hand' = [hand EXCEPT ![h] = [step |-> "run", ev |-> j.ev, tenant |-> j.tenant,
                                  owns |-> TRUE]]
  /\ UNCHANGED <<now, inst, made, blocked, receipt, effect, dlv, listed>>

JobOf(h) == [ev |-> hand[h].ev, tenant |-> hand[h].tenant]
Frees(h) == hand' = [hand EXCEPT ![h] = IdleHandler]

(* The receipt the job names, in the tenant the job names.                   *)
HasReceipt(h) == Exists /\ inst.tenant = hand[h].tenant /\ Received(hand[h].ev)

(* Whether the transaction that processes the receipt commits.               *)
Processes(h) == HasReceipt(h) /\ (hand[h].ev.kind = "refund" => Active)

markWebhookReceiptProcessed(e) ==
  /\ receipt' = [receipt EXCEPT ![e] = "processed"]
  /\ effect' = [effect EXCEPT ![e] = @ + 1]

(* observeRefund and processInstallationLifecycle: a processed receipt ends  *)
(* the job, any other one is applied and marked in one transaction, and a    *)
(* refund of an inactive installation is refused.                            *)
handleWebhookJob(h) ==
  LET e == hand[h].ev IN
  /\ hand[h].step = "run"
  /\ \/ /\ HasReceipt(h) /\ receipt[e] = "processed"
        /\ UNCHANGED <<inst, receipt, effect>>
        /\ Frees(h)
     \/ /\ Processes(h) /\ receipt[e] # "processed"
        /\ inst' = IF e.kind = "deauthorized" THEN applyWebhookDeauthorization(e) ELSE inst
        /\ markWebhookReceiptProcessed(e)
        /\ Frees(h)
     \/ /\ \/ ~HasReceipt(h)
           \/ ~Processes(h) /\ receipt[e] # "processed"
        /\ hand' = [hand EXCEPT ![h].step = "mark"]
        /\ UNCHANGED <<inst, receipt, effect>>
  /\ UNCHANGED <<now, made, blocked, dlv, listed, jobs>>

(* The transaction fails for a reason of its own.                            *)
processingFails(h) ==
  /\ "processing" \in Failures
  /\ hand[h].step = "run"
  /\ hand' = [hand EXCEPT ![h].step = "mark"]
  /\ UNCHANGED <<now, inst, made, blocked, receipt, effect, dlv, listed, jobs>>

(* Mutant: the failure is recorded whatever the receipt says. *)
Marked_blind(h) ==
  IF HasReceipt(h) THEN [receipt EXCEPT ![hand[h].ev] = "failed"] ELSE receipt

(* The failure is recorded on a receipt that nobody has processed meanwhile, *)
(* if it can be; the job is retried, or dropped when its retries are used up.*)
Marked(h) ==
  IF HasReceipt(h) /\ receipt[hand[h].ev] # "processed"
  THEN [receipt EXCEPT ![hand[h].ev] = "failed"] ELSE receipt

markWebhookReceiptFailed(h) ==
  /\ hand[h].step = "mark"
  /\ receipt' \in {receipt, Marked(h)}
  /\ jobs' \in IF hand[h].owns THEN {jobs, jobs \cup {JobOf(h)}} ELSE {jobs}
  /\ Frees(h)
  /\ UNCHANGED <<now, inst, made, blocked, effect, dlv, listed>>

(* The worker process dies; pg-boss retries the job once it has expired.     *)
workerCrashes(h) ==
  /\ "crash" \in Failures
  /\ hand[h].step # "idle"
  /\ jobs' = IF hand[h].owns THEN jobs \cup {JobOf(h)} ELSE jobs
  /\ Frees(h)
  /\ UNCHANGED <<now, inst, made, blocked, receipt, effect, dlv, listed>>

(* The job expires under a handler that is still running.                    *)
jobExpires(h) ==
  /\ "expiry" \in Failures
  /\ hand[h].step # "idle" /\ hand[h].owns
  /\ hand' = [hand EXCEPT ![h].owns = FALSE]
  /\ jobs' = jobs \cup {JobOf(h)}
  /\ UNCHANGED <<now, inst, made, blocked, receipt, effect, dlv, listed>>

-------------------------------------------------------------------------------
(* The retention purge.                                                      *)

RefundsProcessed ==
  \A e \in Events : e.kind = "refund" /\ Received(e) => receipt[e] = "processed"

PurgeDue ==
  /\ Exists /\ inst.status = "deauthorized"
  /\ inst.purgeAt # 0 /\ inst.purgeAt <= now
  /\ ~blocked
  /\ RefundsProcessed

(* The candidate list is a hint: the guarded function tests everything again *)
(* under the tenant's lifecycle lock, refuses an active job, and deletes the *)
(* tenant with its receipts and its waiting jobs.                            *)
runRetentionPurge ==
  /\ PurgeDue
  /\ \A h \in Handlers : hand[h].owns => hand[h].tenant # inst.tenant
  /\ inst' = NoInstallation
  /\ receipt' = [e \in Events |-> "none"] /\ effect' = [e \in Events |-> 0]
  /\ jobs' = {j \in jobs : j.tenant # inst.tenant}
  /\ UNCHANGED <<now, made, blocked, dlv, listed, hand>>

-------------------------------------------------------------------------------
(* Time, and what the rest of the desk contributes.                          *)

(* A request in progress does not outlive Stripe's retries of its event.     *)
tick ==
  /\ now < MaxTime
  /\ \A d \in Deliveries : dlv[d].step # "idle" => now < dlv[d].ev.at + RetryHorizon
  /\ now' = now + 1
  /\ UNCHANGED <<inst, made, blocked, receipt, effect, dlv, workerVars>>

hold ==
  /\ Exists /\ ~blocked /\ blocked' = TRUE
  /\ UNCHANGED <<now, inst, made, receipt, effect, dlv, workerVars>>

release ==
  /\ blocked /\ blocked' = FALSE
  /\ UNCHANGED <<now, inst, made, receipt, effect, dlv, workerVars>>

Delivery(d) ==
  \/ \E e \in Events : receiveAccountWebhook(d, e)
  \/ findExisting(d) \/ resolve(d) \/ insert(d) \/ deliveryFails(d)

Handler(h) ==
  \/ \E j \in jobs : takeJob(h, j)
  \/ handleWebhookJob(h) \/ processingFails(h) \/ markWebhookReceiptFailed(h)
  \/ workerCrashes(h) \/ jobExpires(h)

Next ==
  \/ tick \/ hold \/ release
  \/ contextSync \/ runRetentionPurge
  \/ listRecoverableWebhookJobs \/ enqueueWebhooks
  \/ \E d \in Deliveries : Delivery(d)
  \/ \E h \in Handlers : Handler(h)

Spec == Init /\ [][Next]_vars

(* The cron jobs run, a web request ends, the queue hands out each of its    *)
(* jobs, a transaction that can commit does not fail for ever, the purge     *)
(* comes back until it meets no active job (a job has ten retries), and time *)
(* passes however many requests arrive.                                      *)
Fairness ==
  /\ SF_vars(tick) /\ SF_vars(runRetentionPurge)
  /\ WF_vars(listRecoverableWebhookJobs) /\ WF_vars(enqueueWebhooks)
  /\ \A e \in Events, t \in 1..MaxTenants :
       LET j == [ev |-> e, tenant |-> t] IN
       /\ SF_vars(\E h \in Handlers : takeJob(h, j))
       /\ SF_vars(\E h \in Handlers : JobOf(h) = j /\ handleWebhookJob(h))
  /\ \A h \in Handlers : WF_vars(markWebhookReceiptFailed(h))
  /\ \A d \in Deliveries : WF_vars(findExisting(d) \/ resolve(d) \/ insert(d))

FairSpec == Spec /\ Fairness

-------------------------------------------------------------------------------
(* Properties.                                                               *)

(* What the received lifecycle events say is what the installation is, in    *)
(* whatever order and however often they were delivered: it is active        *)
(* against a received deauthorization only by a strictly newer               *)
(* authorization, and deauthorized against a received authorization only by  *)
(* a deauthorization that is not older (account-webhook.ts insert,           *)
(* applyWebhookDeauthorization, refunddesk_provision_webhook_installation).  *)
LatestLifecycleEventDecides ==
  \A e \in Lifecycle : Received(e) =>
    /\ inst.last \in Lifecycle
    /\ e.kind = "deauthorized" /\ inst.status = "active" =>
         inst.last.kind = "authorized" /\ inst.last.at > e.at
    /\ e.kind = "authorized" /\ inst.status = "deauthorized" =>
         inst.last.kind = "deauthorized" /\ inst.last.at >= e.at

(* The last lifecycle event of an installation never goes back in time, also *)
(* between the moment an authorization takes effect and its receipt, and a   *)
(* deauthorized installation becomes active again only by an authorization   *)
(* newer than the event that ended it: not by a replayed one, and not by     *)
(* somebody who opens the app (refunddesk_provision_installation).           *)
LifecycleMovesForward ==
  [][Exists /\ inst'.tenant = inst.tenant /\ inst.last # NoEvent =>
       /\ inst'.last # NoEvent /\ inst'.last.at >= inst.last.at
       /\ inst.status = "deauthorized" /\ inst'.status = "active" =>
            inst'.last.kind = "authorized" /\ inst'.last.at > inst.last.at]_vars

(* A receipt's observation or audit event is committed once, with the        *)
(* receipt's last status, although jobs are duplicated, expire and fail      *)
(* after another handler succeeded (handleWebhookJob,                        *)
(* markWebhookReceiptFailed).                                                *)
EffectOncePerReceipt ==
  \A e \in Events : effect[e] = IF receipt[e] = "processed" THEN 1 ELSE 0

(* A tenant is deleted only PurgeDelay after every lifecycle event it has    *)
(* received, with every refund event it has received applied                 *)
(* (refunddesk_purge_test_sandbox_tenant).                                   *)
PurgeWaits ==
  [][Exists /\ inst'.tenant # inst.tenant =>
       \A e \in Events : Received(e) =>
         IF e.kind = "refund" THEN effect[e] = 1 ELSE e.at + PurgeDelay <= now]_vars

(* A received lifecycle event is eventually processed, or its tenant purged, *)
(* through crashes, expired jobs and failing transactions                    *)
(* (handleWebhookRecoveryJob).                                               *)
LifecycleReceiptIsProcessed ==
  \A e \in Lifecycle : Received(e) ~> receipt[e] \in {"processed", "none"}

(* An uninstalled tenant that nothing holds is eventually purged or          *)
(* installed again, provided every refund event it accepted was processed    *)
(* (runRetentionPurge).                                                      *)
SettledTenantIsPurged ==
  Exists /\ ~Active /\ ~blocked /\ RefundsProcessed ~> ~Exists \/ Active \/ blocked
===============================================================================

--------------------------- MODULE RefundExecution ----------------------------
(***************************************************************************)
(* The execution of approved refund requests of one tenant: the platform's *)
(* mutations of a request, the worker's execution job with its crash       *)
(* points, the minute recovery, the quarter-hour reconciliation scan with  *)
(* its linked lane, the refund webhooks, deauthorization, and Stripe.      *)
(*                                                                         *)
(* Every database method of the worker is one serializable transaction and *)
(* one action here.  What happens between two of them (the Stripe read,    *)
(* the Stripe call, a crash, the expiry of the job) are actions of their   *)
(* own, so that every other actor can run in between.                      *)
(*                                                                         *)
(* A request's own Stripe refund is named by the request: the idempotency  *)
(* key is a function of the request id, and Stripe keeps at most one       *)
(* refund per key.                                                         *)
(***************************************************************************)
EXTENDS RequestRow

CONSTANTS
  Requests, Payments,
  PaymentOf,            \* the payment of each request
  Capacity,             \* how many refunds of a request's amount a payment can bear
  Handlers,             \* job slots of the worker that may run at the same time
  InitialRefundStatus,  \* the statuses Stripe may give a new refund
  MaxAttempts,          \* bound: attempts per request
  MaxMoves,             \* bound: length of a refund's status history at Stripe
  Environment,          \* bound: the events around the desk that this instance lets happen
  LateCalls             \* bound: whether this instance lets a refund call outlive the
                        \* start of a scan that covers its request

EnvironmentEvent == {"external", "deauthorize", "settings", "close", "crash", "expire",
                     "age", "scanFailure"}

ASSUME ConstantsAssumption ==
  /\ PaymentOf \in [Requests -> Payments]
  /\ Capacity \in Nat \ {0}
  /\ InitialRefundStatus \subseteq {"pending", "requires_action", "succeeded"}
  /\ MaxAttempts \in Nat \ {0} /\ MaxMoves \in Nat \ {0}
  /\ Environment \subseteq EnvironmentEvent
  /\ LateCalls \in BOOLEAN
  /\ NoRefund \notin Requests

VARIABLES
  row,        \* row[r]: the stored request
  cand,       \* cand[r]: refund_correlation_candidates row of r's own refund
  alert,      \* payments with an unresolved external_refund_alerts row
  active,     \* tenant and installation are active
  approver,   \* the approver is still enabled
  job,        \* job[r]: the execution job of r in pg-boss
  hand,       \* hand[h]: what the handler in slot h is doing
  scan,       \* the scan in progress
  aged,       \* requests whose execution_started_at the scan window has passed
  receipt,    \* receipt[r]: events of r's own refund whose receipt is processed
  stripe,     \* stripe[r]: status history of r's own refund, <<>> when none
  stray,      \* requests with a call on its way to Stripe that nobody awaits
  external    \* payments with a refund made outside the desk

vars == <<row, cand, alert, active, approver, job, hand, scan, aged, receipt,
          stripe, stray, external>>

tenantVars == <<active, approver>>

workerVars == <<job, hand, scan>>
stripeVars == <<stripe, stray, external>>

StepName == {"idle", "loaded", "refused", "cleared", "calling", "answered"}
Answer == {"none", "refund", "retryable", "ambiguous", "terminal"}

Idle == [step |-> "idle", req |-> NoRefund, attempt |-> 0, answer |-> "none", zombie |-> FALSE]
NoCandidate == [known |-> FALSE, scanned |-> FALSE, exact |-> FALSE, status |-> "none",
                at |-> 0, event |-> 0]
NoScan == [on |-> FALSE, began |-> [r \in Requests |-> 0], listed |-> {}, externals |-> {},
           covers |-> {}]

DeskTypeOK ==
  /\ cand \in [Requests -> [known: BOOLEAN, scanned: BOOLEAN, exact: BOOLEAN,
                            status: RefundStatus, at: Nat, event: Nat]]
  /\ alert \in SUBSET Payments
  /\ active \in BOOLEAN /\ approver \in BOOLEAN
  /\ aged \in SUBSET Requests
  /\ receipt \in [Requests -> SUBSET Nat]

WorkerTypeOK ==
  /\ job \in [Requests -> {"none", "created", "active"}]
  /\ hand \in [Handlers -> [step: StepName, req: Requests \cup {NoRefund}, attempt: Nat,
                            answer: Answer, zombie: BOOLEAN]]
  /\ scan \in [on: BOOLEAN, began: [Requests -> Nat], listed: SUBSET Requests,
               externals: SUBSET Payments, covers: SUBSET Requests]

StripeTypeOK ==
  /\ stripe \in [Requests -> Seq(RefundStatus)]
  /\ stray \in SUBSET Requests
  /\ external \in SUBSET Payments

TypeOK ==
  /\ row \in [Requests -> Row(Requests)]
  /\ DeskTypeOK /\ WorkerTypeOK /\ StripeTypeOK

Init ==
  /\ row = [r \in Requests |-> AbsentRow]
  /\ cand = [r \in Requests |-> NoCandidate]
  /\ alert = {} /\ active = TRUE /\ approver = TRUE
  /\ job = [r \in Requests |-> "none"]
  /\ hand = [h \in Handlers |-> Idle]
  /\ scan = NoScan
  /\ aged = {} /\ stray = {} /\ external = {}
  /\ receipt = [r \in Requests |-> {}]
  /\ stripe = [r \in Requests |-> <<>>]

-------------------------------------------------------------------------------
(* Stripe.                                                                   *)

StripeMoves ==
  {"pending", "requires_action"} \X {"succeeded", "failed", "canceled"}
    \cup {<<"succeeded", "failed">>, <<"succeeded", "canceled">>}

Current(r) == stripe[r][Len(stripe[r])]

HasRefund(r) == stripe[r] # <<>>

LiveRefund(r) == HasRefund(r) /\ Current(r) \notin {"failed", "canceled"}

RefundsOn(p) ==
  Cardinality({r \in Requests : PaymentOf[r] = p /\ LiveRefund(r)})
    + (IF p \in external THEN 1 ELSE 0)

Refundable(r) == RefundsOn(PaymentOf[r]) < Capacity

(* A create call reaches Stripe: the refund of an idempotency key already    *)
(* used is returned, a new one is created when the payment can bear it.      *)
CallLands(r) ==
  \/ HasRefund(r) /\ UNCHANGED stripe
  \/ /\ ~HasRefund(r) /\ Refundable(r)
     /\ \E s \in InitialRefundStatus : stripe' = [stripe EXCEPT ![r] = <<s>>]

RefundMoves(r) ==
  /\ HasRefund(r) /\ Len(stripe[r]) < MaxMoves
  /\ \E s \in RefundStatus :
       /\ <<Current(r), s>> \in StripeMoves
       /\ stripe' = [stripe EXCEPT ![r] = Append(@, s)]
  /\ UNCHANGED <<row, cand, alert, tenantVars, workerVars, aged, receipt, stray, external>>

(* Somebody refunds the payment in the Stripe dashboard.                     *)
ExternalRefund(p) ==
  /\ "external" \in Environment
  /\ p \notin external /\ RefundsOn(p) < Capacity
  /\ external' = external \cup {p}
  /\ UNCHANGED <<row, cand, alert, tenantVars, workerVars, aged, receipt, stripe, stray>>

(* A call whose handler has gone lands late, or never arrives.               *)
StrayLands(r) ==
  /\ r \in stray /\ CallLands(r)
  /\ stray' = stray \ {r}
  /\ UNCHANGED <<row, cand, alert, tenantVars, workerVars, aged, receipt, external>>

StrayIsLost(r) ==
  /\ r \in stray /\ stray' = stray \ {r}
  /\ UNCHANGED <<row, cand, alert, tenantVars, workerVars, aged, receipt, stripe, external>>

InFlight(r) == r \in stray \/ \E h \in Handlers : hand[h].req = r /\ hand[h].step = "calling"

-------------------------------------------------------------------------------
(* The platform: the mutations of a request and of the settings.             *)

OnPayment(p) == {r \in Requests : PaymentOf[r] = p}

(* Mutant: the guard of the payment is not looked at.                        *)
createRequest_unguarded(r) ==
  /\ active /\ approver
  /\ row[r].status = "absent" /\ PaymentOf[r] \notin alert /\ Refundable(r)
  /\ row' = [row EXCEPT ![r] = createRefundRequest]
  /\ UNCHANGED <<cand, alert, tenantVars, workerVars, aged, receipt, stripeVars>>

createRequest(r) ==
  /\ active /\ approver
  /\ row[r].status = "absent"
  /\ \A q \in OnPayment(PaymentOf[r]) : row[q].released
  /\ PaymentOf[r] \notin alert
  /\ Refundable(r)
  /\ row' = [row EXCEPT ![r] = createRefundRequest]
  /\ UNCHANGED <<cand, alert, tenantVars, workerVars, aged, receipt, stripeVars>>

decideApprove(r) ==
  /\ active /\ approver /\ CanDecide(row[r])
  /\ row' = [row EXCEPT ![r] = approve(@)]
  /\ UNCHANGED <<cand, alert, tenantVars, workerVars, aged, receipt, stripeVars>>

(* reject, cancel and the expiration job: the guard is released.             *)
closeRequest(r, s) ==
  /\ "close" \in Environment
  /\ active /\ s \in {"rejected", "canceled", "expired"}
  /\ s = "rejected" => approver
  /\ CanClose(row[r])
  /\ row' = [row EXCEPT ![r] = closePending(@, s)]
  /\ UNCHANGED <<cand, alert, tenantVars, workerVars, aged, receipt, stripeVars>>

updateSettings ==
  /\ "settings" \in Environment
  /\ approver' = ~approver
  /\ UNCHANGED <<row, cand, alert, active, workerVars, aged, receipt, stripeVars>>

applyWebhookDeauthorization ==
  /\ "deauthorize" \in Environment
  /\ active /\ active' = FALSE
  /\ row' = [r \in Requests |-> settle(row[r])]
  /\ UNCHANGED <<cand, alert, approver, workerVars, aged, receipt, stripeVars>>

provisionWebhookInstallation ==
  /\ ~active /\ active' = TRUE
  /\ UNCHANGED <<row, cand, alert, approver, workerVars, aged, receipt, stripeVars>>

-------------------------------------------------------------------------------
(* The execution job.  A handler that returns completes the job, one that    *)
(* throws has it retried until the retry limit is reached.  The job of a     *)
(* zombie has expired under it and belongs to somebody else by now.          *)

JobEnds(h, outcomes) ==
  /\ hand' = [hand EXCEPT ![h] = Idle]
  /\ IF hand[h].zombie
     THEN UNCHANGED job
     ELSE \E s \in outcomes : job' = [job EXCEPT ![hand[h].req] = s]

Returns == {"none"}
Throws  == {"none", "created"}

Step(h, s) == hand' = [hand EXCEPT ![h].step = s] /\ UNCHANGED job

(* Mutant: the approver of the attestation is not looked up again.           *)
AttestationValid_anyApprover(r) == attestationCompatible(row[r])

AttestationValid(r) == approver /\ attestationCompatible(row[r])

Loadable(r) ==
  /\ active /\ AttestationValid(r)
  /\ \/ CanClaim(row[r])
     \/ row[r].status = "executing" /\ row[r].effect \in {"not_started", "absence_proven"}

(* The handler of a fetched job claims an approved request or takes up an    *)
(* executing one; an effect that is possible goes to reconciliation instead. *)
loadRefundExecution(h, r) ==
  /\ hand[h] = Idle /\ job[r] = "created"
  /\ IF Loadable(r)
     THEN /\ row' = [row EXCEPT ![r] = IF CanClaim(@) THEN claimExecution(@) ELSE @]
          /\ aged' = IF CanClaim(row[r]) THEN aged \ {r} ELSE aged
          /\ hand' = [hand EXCEPT ![h] = [Idle EXCEPT !.step = "loaded", !.req = r]]
          /\ job' = [job EXCEPT ![r] = "active"]
     ELSE /\ row' = [row EXCEPT ![r] =
                      IF active /\ CanMarkReconciliation(@) /\ @.effect = "possible"
                      THEN markReconciliationRequired(@) ELSE @]
          /\ job' = [job EXCEPT ![r] = "none"]
          /\ UNCHANGED <<hand, aged>>
  /\ UNCHANGED <<cand, alert, tenantVars, scan, receipt, stripeVars>>

(* retrievePayment and evaluatePaymentEligibility: the payment clears, is    *)
(* refused for good, or could not be read.                                   *)
preflightClears(h) ==
  /\ hand[h].step = "loaded" /\ Refundable(hand[h].req)
  /\ Len(row[hand[h].req].attempts) < MaxAttempts
  /\ Step(h, "cleared")
  /\ UNCHANGED <<row, cand, alert, tenantVars, scan, aged, receipt, stripeVars>>

preflightRefuses(h) ==
  /\ hand[h].step = "loaded"
  /\ Step(h, "refused")
  /\ UNCHANGED <<row, cand, alert, tenantVars, scan, aged, receipt, stripeVars>>

preflightFails(h) ==
  /\ hand[h].step = "loaded"
  /\ JobEnds(h, Throws)
  /\ UNCHANGED <<row, cand, alert, tenantVars, scan, aged, receipt, stripeVars>>

recordTerminalWithoutEffect(h) ==
  LET r == hand[h].req
  IN  /\ hand[h].step = "refused"
      /\ IF CanMarkTerminal(row[r])
         THEN /\ row' = [row EXCEPT ![r] = markTerminalFailureAfterAbsence(@)]
              /\ JobEnds(h, Returns)
         ELSE /\ UNCHANGED row
              /\ JobEnds(h, IF row[r].status = "failed_terminal" THEN Returns ELSE Throws)
      /\ UNCHANGED <<cand, alert, tenantVars, scan, aged, receipt, stripeVars>>

Executable(r) ==
  /\ row[r].status = "executing" /\ ~row[r].released
  /\ active /\ AttestationValid(r)
  /\ row[r].link = NoRefund
  /\ CanMarkEffectPossible(row[r])

(* persistEffectBoundary repeats every check under the lock, and writes down *)
(* that an effect is possible before the call can have one.                  *)
persistEffectBoundary(h) ==
  LET r == hand[h].req
  IN  /\ hand[h].step = "cleared"
      /\ IF Executable(r)
         THEN /\ row' = [row EXCEPT ![r] = crossBoundary(@)]
              /\ hand' = [hand EXCEPT ![h].step = "calling",
                                      ![h].attempt = Len(row[r].attempts) + 1]
              /\ UNCHANGED job
         ELSE /\ row' = [row EXCEPT ![r] =
                          IF active /\ CanMarkReconciliation(@) /\ @.effect = "possible"
                          THEN markReconciliationRequired(@) ELSE @]
              /\ JobEnds(h, Returns)
      /\ UNCHANGED <<cand, alert, tenantVars, scan, aged, receipt, stripeVars>>

(* createRefund: the refund is made and answered, the call is refused without*)
(* an effect, or no usable answer arrives while the call may still land.     *)
Answered(h, a) ==
  /\ hand[h].step = "calling"
  /\ hand' = [hand EXCEPT ![h].step = "answered", ![h].answer = a]
  /\ UNCHANGED <<row, cand, alert, tenantVars, job, scan, aged, receipt, external>>

createRefund(h) == Answered(h, "refund") /\ CallLands(hand[h].req) /\ UNCHANGED stray

callRefused(h, a) ==
  /\ a \in {"retryable", "terminal"}
  /\ Answered(h, a) /\ UNCHANGED <<stripe, stray>>

callTimesOut(h) ==
  Answered(h, "ambiguous") /\ stray' = stray \cup {hand[h].req} /\ UNCHANGED stripe

(* Every outcome is recorded in one transaction that throws, and leaves the  *)
(* row alone, when one of its compare-and-sets finds nothing.                *)
Recorded(h, a, ok, newRow, outcomes) ==
  /\ hand[h].step = "answered" /\ hand[h].answer = a
  /\ IF ok
     THEN row' = [row EXCEPT ![hand[h].req] = newRow] /\ JobEnds(h, outcomes)
     ELSE UNCHANGED row /\ JobEnds(h, Throws)
  /\ UNCHANGED <<cand, alert, tenantVars, scan, aged, receipt, stripeVars>>

(* The response carries the status the refund was created with, or, when it  *)
(* does not match the request, none.                                         *)
recordIdentifiedRefund(h) ==
  \E st \in RefundStatus :
    LET r == hand[h].req
        n == hand[h].attempt
    IN  /\ hand[h].answer = "refund" /\ st \in {stripe[r][1], "none"}
        /\ Recorded(h, "refund",
             CanIdentify(row[r], r, st, 0, "preserve") /\ CanFinishAttempt(row[r], n),
             finishExecutionAttempt(markRefundIdentified(row[r], r, st, 0, "preserve"), n, "completed"),
             Returns)

recordRetryableAttemptFailure(h) ==
  LET r == hand[h].req
      n == hand[h].attempt
  IN  Recorded(h, "retryable",
        CanFinishAttempt(row[r], n) /\ CanMarkCertainAbsence(row[r]),
        finishExecutionAttempt(markCertainAbsenceWhileExecuting(row[r]), n, "retryable_failure"),
        Throws)

recordAmbiguousAttemptFailure(h) ==
  LET r == hand[h].req
      n == hand[h].attempt
  IN  Recorded(h, "ambiguous",
        CanFinishAttempt(row[r], n) /\ CanMarkReconciliation(row[r]),
        finishExecutionAttempt(markReconciliationRequired(row[r]), n, "ambiguous_failure"),
        Returns)

recordTerminalAttemptWithoutEffect(h) ==
  LET r == hand[h].req
      n == hand[h].attempt
  IN  Recorded(h, "terminal",
        CanFinishAttempt(row[r], n) /\ CanMarkCertainAbsence(row[r]),
        finishExecutionAttempt(
          markTerminalFailureAfterAbsence(markCertainAbsenceWhileExecuting(row[r])),
          n, "terminal_failure"),
        Returns)

(* The process dies at any point of the job, or the job expires under a      *)
(* handler that is still running.                                            *)
Crash(h) ==
  /\ "crash" \in Environment
  /\ hand[h].step # "idle"
  /\ JobEnds(h, Throws)
  /\ stray' = IF hand[h].step = "calling" THEN stray \cup {hand[h].req} ELSE stray
  /\ UNCHANGED <<row, cand, alert, tenantVars, scan, aged, receipt, stripe, external>>

Expire(h) ==
  /\ "expire" \in Environment
  /\ hand[h].step # "idle" /\ ~hand[h].zombie
  /\ hand' = [hand EXCEPT ![h].zombie = TRUE]
  /\ \E s \in Throws : job' = [job EXCEPT ![hand[h].req] = s]
  /\ UNCHANGED <<row, cand, alert, tenantVars, scan, aged, receipt, stripeVars>>

-------------------------------------------------------------------------------
(* The minute recovery is the only producer of execution jobs.  It does not  *)
(* ask how long ago a possible effect began.                                 *)

Recoverable(v) ==
  /\ ~v.released
  /\ \/ v.status = "approved" /\ v.effect = "not_started"
     \/ v.status = "executing" /\ v.effect \in {"not_started", "possible", "absence_proven"}

CannotBeRecovered(v) ==
  \/ v.exec /\ v.link # NoRefund
  \/ v.status = "executing" /\ v.effect = "absence_proven" /\ ~v.exec

(* Mutant: recovery leaves requests with a possible effect to somebody else. *)
recoverExecution_skipsPossible(r) ==
  /\ active /\ ~row[r].released /\ job[r] = "none"
  /\ \/ row[r].status = "approved"
     \/ row[r].status = "executing" /\ row[r].effect \in {"not_started", "absence_proven"}
  /\ job' = [job EXCEPT ![r] = "created"]
  /\ UNCHANGED <<row, cand, alert, tenantVars, hand, scan, aged, receipt, stripeVars>>

recoverExecution(r) ==
  LET v == row[r]
  IN  /\ active /\ Recoverable(v)
      /\ IF v.effect = "possible" \/ CannotBeRecovered(v)
         THEN /\ row' = [row EXCEPT ![r] =
                          IF CanMarkReconciliation(@) THEN markReconciliationRequired(@) ELSE @]
              /\ UNCHANGED job
         ELSE /\ job[r] = "none"
              /\ job' = [job EXCEPT ![r] = "created"]
              /\ UNCHANGED row
      /\ UNCHANGED <<cand, alert, tenantVars, hand, scan, aged, receipt, stripeVars>>

-------------------------------------------------------------------------------
(* Observations of refunds.  An event of the refund's history position i has *)
(* time 2 * i, a scan that began at position i time 2 * i + 1.               *)

recordRefundCorrelationCandidate(r, st, at, ev, exact, scanned) ==
  LET c == cand[r]
      newer == ~c.known \/ at >= c.at
      replaceEvent == /\ ev # 0 /\ (c.exact => exact)
                      /\ exact \/ c.event = 0 \/ ev >= c.event
  IN  cand' = [cand EXCEPT ![r] =
        [known |-> TRUE, scanned |-> c.scanned \/ scanned, exact |-> c.exact \/ exact,
         status |-> IF newer THEN st ELSE c.status,
         at     |-> IF newer THEN at ELSE c.at,
         event  |-> IF replaceEvent THEN ev ELSE c.event]]

InExecution(v) == v.status \in {"executing", "reconciliation_required"}

toReconciliation(v) ==
  IF CanMarkReconciliation(v) THEN markReconciliationRequired(v) ELSE v

(* decideRefundCandidate while the refund is the only candidate: an event    *)
(* that carries the idempotency key links it, anything else waits for a      *)
(* complete scan.  A request that is terminal and unlinked keeps the         *)
(* candidate and changes nothing else.                                       *)
observeUnlinked(r, st, ev, exact) ==
  /\ row[r].link = NoRefund
  /\ InExecution(row[r]) /\ exact => CanIdentify(row[r], r, st, ev, "preserve")
  /\ row' = [row EXCEPT ![r] =
       IF ~InExecution(@) THEN @
       ELSE IF exact THEN markRefundIdentified(@, r, st, ev, "preserve")
       ELSE toReconciliation(@)]

(* shouldApplyLinkedRefundObservation; ev is 0 for a scan.                   *)
shouldApplyLinkedRefundObservation(v, st, ev) ==
  IF ev = 0 THEN st # v.refundStatus
  ELSE \/ v.lastEvent = 0 \/ ev > v.lastEvent
       \/ /\ ev = v.lastEvent
          /\ \/ st = "failed" /\ v.refundStatus # "failed"
             \/ st = "canceled" /\ v.refundStatus \notin {"failed", "canceled"}

observeLinked(r, st, ev) ==
  /\ row[r].link = r
  /\ IF shouldApplyLinkedRefundObservation(row[r], st, ev)
     THEN /\ CanIdentify(row[r], r, st, ev, "preserve")
          /\ row' = [row EXCEPT ![r] = markRefundIdentified(@, r, st, ev, "preserve")]
     ELSE UNCHANGED row

(* refund.created carries the idempotency key of the call, the events Stripe *)
(* sends on its own carry none.                                              *)
webhookRefund(r, i) ==
  /\ active /\ i \in DOMAIN stripe[r] \ receipt[r]
  /\ recordRefundCorrelationCandidate(r, stripe[r][i], 2 * i, i, i = 1, FALSE)
  /\ observeUnlinked(r, stripe[r][i], i, i = 1) \/ observeLinked(r, stripe[r][i], i)
  /\ receipt' = [receipt EXCEPT ![r] = @ \cup {i}]
  /\ UNCHANGED <<alert, tenantVars, workerVars, aged, stripeVars>>

(* observeExternalRefund: the alert, and the settlement of every request on  *)
(* the payment.                                                              *)
observeExternalRefund(p) ==
  /\ alert' = alert \cup {p}
  /\ row' = [r \in Requests |-> IF PaymentOf[r] = p THEN settle(row[r]) ELSE row[r]]

webhookExternalRefund(p) ==
  /\ active /\ p \in external
  /\ observeExternalRefund(p)
  /\ UNCHANGED <<cand, tenantVars, workerVars, aged, receipt, stripeVars>>

-------------------------------------------------------------------------------
(* The quarter-hour scan.  It lists what was created before it began, and    *)
(* covers the requests that were already in reconciliation by then and whose *)
(* execution began inside the window.                                        *)

(* Mutant: a request is covered however long ago its execution began.        *)
scanBegins_unbounded ==
  /\ active /\ ~scan.on
  /\ \E older \in SUBSET aged :
       scan' = [on |-> TRUE,
                began |-> [r \in Requests |-> Len(stripe[r])],
                listed |-> {r \in Requests : HasRefund(r) /\ r \notin older},
                externals |-> external,
                covers |-> {r \in Requests : row[r].status = "reconciliation_required"}]
  /\ LateCalls \/ \A r \in scan'.covers : ~InFlight(r)
  /\ UNCHANGED <<row, cand, alert, tenantVars, job, hand, aged, receipt, stripeVars>>

scanBegins ==
  /\ active /\ ~scan.on
  /\ \E older \in SUBSET aged :
       scan' = [on |-> TRUE,
                began |-> [r \in Requests |-> Len(stripe[r])],
                listed |-> {r \in Requests : HasRefund(r) /\ r \notin older},
                externals |-> external,
                covers |-> {r \in Requests \ aged : row[r].status = "reconciliation_required"}]
  /\ LateCalls \/ \A r \in scan'.covers : ~InFlight(r)
  /\ UNCHANGED <<row, cand, alert, tenantVars, job, hand, aged, receipt, stripeVars>>

scanObserves(r) ==
  /\ scan.on /\ active /\ r \in scan.listed
  /\ \E i \in DOMAIN stripe[r] :
       /\ i >= scan.began[r]
       /\ recordRefundCorrelationCandidate(r, stripe[r][i], 2 * scan.began[r] + 1, 0, FALSE, TRUE)
       /\ observeUnlinked(r, stripe[r][i], 0, FALSE) \/ observeLinked(r, stripe[r][i], 0)
  /\ scan' = [scan EXCEPT !.listed = @ \ {r}]
  /\ UNCHANGED <<alert, tenantVars, job, hand, aged, receipt, stripeVars>>

scanObservesExternal(p) ==
  /\ scan.on /\ active /\ p \in scan.externals
  /\ observeExternalRefund(p)
  /\ scan' = [scan EXCEPT !.externals = @ \ {p}]
  /\ UNCHANGED <<cand, tenantVars, job, hand, aged, receipt, stripeVars>>

scanFails ==
  /\ "scanFailure" \in Environment
  /\ scan.on /\ scan' = NoScan
  /\ UNCHANGED <<row, cand, alert, tenantVars, job, hand, aged, receipt, stripeVars>>

(* Mutant: every covered request without a link is looked at, in whatever    *)
(* status.                                                                   *)
Resolvable_anyStatus(r) ==
  r \in scan.covers /\ row[r].exec /\ row[r].link = NoRefund

(* resolveUniqueRefundCandidates for one covered, unlinked request.          *)
Resolvable(r) ==
  /\ r \in scan.covers /\ row[r].exec /\ row[r].link = NoRefund
  /\ \/ row[r].status = "reconciliation_required" /\ row[r].effect = "possible"
     \/ cand[r].scanned

(* Mutant: an alert does not keep a request from being resumed.              *)
ResumesAfterAbsence_unprotected(r) == Resolvable(r) /\ ~cand[r].known

ResumesAfterAbsence(r) == Resolvable(r) /\ ~cand[r].known /\ PaymentOf[r] \notin alert

LinksUnique(r) == Resolvable(r) /\ cand[r].scanned /\ ~cand[r].exact

Resolution(r) == IF PaymentOf[r] \in alert THEN "preserve" ELSE "resolve"

resolveUniqueRefundCandidate(r) ==
  IF ResumesAfterAbsence(r) THEN resumeExecutionAfterAbsence(markAbsenceProven(row[r]))
  ELSE IF LinksUnique(r)
  THEN markRefundIdentified(row[r], r, cand[r].status, cand[r].event, Resolution(r))
  ELSE IF Resolvable(r) THEN toReconciliation(row[r])
  ELSE row[r]

(* One compare-and-set that fails throws, and takes the commit with it.      *)
CandidatePasses(r) ==
  /\ ResumesAfterAbsence(r) => CanMarkAbsenceProven(row[r])
  /\ LinksUnique(r) => CanIdentify(row[r], r, cand[r].status, cand[r].event, Resolution(r))

commitReconciliationCheckpoint ==
  /\ scan.on /\ scan.listed = {} /\ scan.externals = {}
  /\ \A r \in Requests : CandidatePasses(r)
  /\ row' = [r \in Requests |-> resolveUniqueRefundCandidate(r)]
  /\ aged' = aged \ {r \in Requests : ResumesAfterAbsence(r)}
  /\ scan' = NoScan
  /\ UNCHANGED <<cand, alert, tenantVars, job, hand, receipt, stripeVars>>

(* The linked lane lists these requests, ...                                 *)
OnLinkedLane(r) ==
  /\ row[r].link = r
  /\ row[r].status \in {"executing", "reconciliation_required", "succeeded"}
  /\ row[r].refundStatus \in {"none", "pending", "requires_action", "succeeded"}

LinkedResolution(st) ==
  IF st \in {"succeeded", "failed", "canceled"} THEN "resolve" ELSE "preserve"

(* ... reads the refund of each from Stripe, and applies it to the request   *)
(* where it is by then: it may have left the lane since it was listed.       *)
observeLinkedRefund(r, i) ==
  /\ active /\ row[r].link = r
  /\ i \in DOMAIN stripe[r]
  /\ LET st  == stripe[r][i]
         res == LinkedResolution(st)
     IN  /\ CanIdentify(row[r], r, st, 0, res)
         /\ row' = [row EXCEPT ![r] = markRefundIdentified(@, r, st, 0, res)]
  /\ UNCHANGED <<cand, alert, tenantVars, workerVars, aged, receipt, stripeVars>>

(* Time passes: scans move on and their window no longer reaches back to the *)
(* start of the execution.                                                   *)
Age(r) ==
  /\ "age" \in Environment
  /\ InExecution(row[r]) /\ r \notin aged
  /\ aged' = aged \cup {r}
  /\ UNCHANGED <<row, cand, alert, tenantVars, workerVars, receipt, stripeVars>>

-------------------------------------------------------------------------------
PlatformStep ==
  \/ \E r \in Requests :
       \/ createRequest(r)
       \/ decideApprove(r)
       \/ \E s \in {"rejected", "canceled", "expired"} : closeRequest(r, s)
  \/ updateSettings
  \/ applyWebhookDeauthorization
  \/ provisionWebhookInstallation

StripeStep ==
  \/ \E r \in Requests : RefundMoves(r) \/ StrayLands(r) \/ StrayIsLost(r)
  \/ \E p \in Payments : ExternalRefund(p)

Record(h) ==
  \/ recordTerminalWithoutEffect(h)
  \/ recordIdentifiedRefund(h)
  \/ recordRetryableAttemptFailure(h)
  \/ recordAmbiguousAttemptFailure(h)
  \/ recordTerminalAttemptWithoutEffect(h)

HandlerStep(h) ==
  \/ preflightClears(h) \/ preflightRefuses(h) \/ preflightFails(h)
  \/ persistEffectBoundary(h)
  \/ createRefund(h)
  \/ \E a \in {"retryable", "terminal"} : callRefused(h, a)
  \/ callTimesOut(h)
  \/ Record(h)

ScanStep ==
  \/ scanBegins
  \/ \E r \in Requests : scanObserves(r)
  \/ \E p \in Payments : scanObservesExternal(p)
  \/ scanFails
  \/ commitReconciliationCheckpoint

Next ==
  \/ PlatformStep
  \/ StripeStep
  \/ \E h \in Handlers :
       \/ \E r \in Requests : loadRefundExecution(h, r)
       \/ HandlerStep(h)
       \/ Crash(h)
       \/ Expire(h)
  \/ \E r \in Requests : recoverExecution(r)
  \/ ScanStep
  \/ \E r \in Requests, i \in 1..MaxMoves : webhookRefund(r, i) \/ observeLinkedRefund(r, i)
  \/ \E p \in Payments : webhookExternalRefund(p)
  \/ \E r \in Requests : Age(r)

Spec == Init /\ [][Next]_vars

(* Fairness.  The minute recovery and the quarter-hour scan are cron jobs of *)
(* pg-boss and finish when they are not made to fail; a call to Stripe is    *)
(* answered, lands or is lost (the client gives up after a timeout).  A      *)
(* handler may crash again and again, so its steps are strongly fair: it     *)
(* does not always crash at the same point, and Stripe is not for ever       *)
(* unreachable.                                                              *)
HandlerFairness(h) ==
  /\ \A r \in Requests : SF_vars(loadRefundExecution(h, r))
  /\ SF_vars(preflightClears(h) \/ preflightRefuses(h))
  /\ SF_vars(persistEffectBoundary(h))
  /\ SF_vars(createRefund(h) \/ callRefused(h, "retryable") \/ callRefused(h, "terminal")
               \/ callTimesOut(h))
  /\ SF_vars(Record(h))

ScanFairness ==
  /\ WF_vars(scanBegins)
  /\ \A r \in Requests : WF_vars(scanObserves(r))
  /\ \A p \in Payments : WF_vars(scanObservesExternal(p))
  /\ WF_vars(commitReconciliationCheckpoint)

Fairness ==
  /\ \A h \in Handlers : HandlerFairness(h)
  /\ ScanFairness
  /\ \A r \in Requests :
       /\ WF_vars(recoverExecution(r))
       /\ WF_vars(HasRefund(r) /\ OnLinkedLane(r) /\ observeLinkedRefund(r, Len(stripe[r])))
       /\ WF_vars(StrayLands(r) \/ StrayIsLost(r))

FairSpec == Spec /\ Fairness

-------------------------------------------------------------------------------
(* Safety.                                                                   *)

(* A payment is guarded by at most one request: two requests that have not   *)
(* released their guard are on different payments.                           *)
OneGuardPerPayment ==
  \A q, r \in Requests :
    PaymentOf[q] = PaymentOf[r] /\ ~row[q].released /\ ~row[r].released => q = r

(* While a payment has an unresolved alert no request on it waits for        *)
(* approval, is approved or executes, whatever was under way when the        *)
(* external refund was observed.                                             *)
AlertExcludesExecution ==
  \A r \in Requests : PaymentOf[r] \in alert => row[r].status \notin ProtectedStatus

CallIsGuarded(r) ==
  InFlight(r) => ~row[r].released /\ row[r].effect \in {"possible", "identified"}

(* As long as a call may still reach Stripe, its request holds the guard and *)
(* says that an effect is possible or identified.  An expired job breaks this*)
(* (the run stale_handler); RefundRaces says what does and what does not.    *)
CallInFlightHoldsGuard == \A r \in Requests : CallIsGuarded(r)

AbsenceHolds(r) ==
  row[r].status \in {"stale", "failed_terminal"} => ~LiveRefund(r) /\ ~InFlight(r)

(* A request that ended stale or failed has no refund alive at Stripe, and   *)
(* none can still arrive.  A late call breaks this (the run late_call).      *)
AbsenceIsCertain == \A r \in Requests : AbsenceHolds(r)

(* A request that succeeded is linked to its own refund, which did succeed   *)
(* at Stripe.                                                                *)
SuccessIsReal ==
  \A r \in Requests :
    row[r].status = "succeeded" =>
      row[r].link = r /\ \E i \in DOMAIN stripe[r] : stripe[r][i] = "succeeded"

(* Whatever crashes, retries and scans an executing request has been through,*)
(* its attempts account for its revisions: the approval it was given still   *)
(* verifies when the next job takes it up.                                   *)
AttestationSurvivesRecovery ==
  \A r \in Requests :
    /\ row[r].status = "executing" /\ row[r].effect \in {"not_started", "absence_proven"}
    => attestationCompatible(row[r])

(* The ways in which a request is left in reconciliation for a person.  In   *)
(* two of them everything about it is known: its linked refund is recorded as*)
(* failed, and the linked lane lists it no more; or its absence was proven,  *)
(* and a handler that recorded an ambiguous answer late sent it back.        *)
Stranded(r) ==
  /\ row[r].status = "reconciliation_required"
  /\ \/ row[r].link = r /\ row[r].refundStatus \in {"failed", "canceled"}
     \/ row[r].effect = "absence_proven"

(* In the third the window of the scan has passed its execution by.          *)
PassedBy(r) ==
  r \in aged /\ row[r].status = "reconciliation_required" /\ row[r].link = NoRefund

(* The lane that will take a request further, and finds it as it expects it. *)
OnRecoveryLane(r) == Recoverable(row[r]) /\ ~CannotBeRecovered(row[r])

OnScanLane(r) ==
  /\ r \notin aged /\ row[r].exec /\ row[r].link = NoRefund
  /\ CanMarkAbsenceProven(row[r])

LinkedRefundIsReadable(r) ==
  /\ HasRefund(r)
  /\ \A i \in DOMAIN stripe[r] :
       CanIdentify(row[r], r, stripe[r][i], 0, LinkedResolution(stripe[r][i]))

(* Nobody forgets an approved request: at every moment, whatever crashed,    *)
(* expired, was removed or came late, the minute recovery, the scan or the   *)
(* linked lane selects it in a state they can work on, or it is one of those *)
(* three that are left to a person.                                          *)
NoRequestForgotten ==
  \A r \in Requests :
    row[r].status \in {"approved", "executing", "reconciliation_required"} =>
      \/ OnRecoveryLane(r) \/ OnScanLane(r)
      \/ OnLinkedLane(r) /\ LinkedRefundIsReadable(r)
      \/ Stranded(r) \/ PassedBy(r)

(* A refund is under way while its call may still land and until Stripe has  *)
(* decided on it.                                                            *)
UnderWay(r) ==
  \/ InFlight(r)
  \/ HasRefund(r) /\ Current(r) \in {"pending", "requires_action"}

(* A new attempt begins, and with it a call, only while the installation is  *)
(* active, the approver enabled and the payment without alert at that moment,*)
(* whatever the handler saw when it loaded the request.                      *)
BoundaryIsAuthorized ==
  [][\A r \in Requests :
       Len(row'[r].attempts) > Len(row[r].attempts) =>
         active /\ approver /\ PaymentOf[r] \notin alert]_vars

(* RefundExecution implements RefundLifecycle: every transaction of the desk *)
(* passes the triggers and the unique index.                                 *)
Lifecycle == INSTANCE RefundLifecycle WITH
  life    <- [r \in Requests |-> [status |-> row[r].status, effect |-> row[r].effect,
                                  released |-> row[r].released]],
  link    <- [r \in Requests |-> [id |-> row[r].link, status |-> row[r].refundStatus,
                                  event |-> row[r].lastEvent]],
  alerted <- alert

ImplementsLifecycle == Lifecycle!LifecycleSpec

-------------------------------------------------------------------------------
(* Liveness, under FairSpec.                                                 *)

(* Where an approved request may come to rest: it is terminal, Stripe has    *)
(* not decided on its refund yet, an alert holds it for a human, or it is    *)
(* stranded.                                                                 *)
AtRest(r) ==
  \/ row[r].status \in TerminalStatus
  \/ Stranded(r)
  \/ row[r].link = r /\ Current(r) \in {"pending", "requires_action"}
  \/ row[r].status = "reconciliation_required" /\ PaymentOf[r] \in alert

(* An approved request is executed to an end through crashes, lost answers   *)
(* and ambiguous calls, without anybody's help.                              *)
ApprovedComesToRest ==
  \A r \in Requests : row[r].status = "approved" ~> AtRest(r)

(* A linked refund that failed or was canceled at Stripe ends its request.   *)
LinkedFailureEndsRequest ==
  \A r \in Requests :
    (row[r].link = r /\ Current(r) \in {"failed", "canceled"})
      ~> row[r].status = "failed_terminal"
===============================================================================

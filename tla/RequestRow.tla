------------------------------ MODULE RequestRow ------------------------------
(***************************************************************************)
(* One refund request as PostgreSQL stores it: the row of refund_requests  *)
(* joined with its row of refund_executions and the rows of                *)
(* refund_execution_attempts.  The operators are the compare-and-set       *)
(* updates of TenantRepositories: CanX(row) is the WHERE clause of an      *)
(* updateMany, X(row) the row it leaves.  An update whose WHERE clause     *)
(* matches nothing returns count 0; what the caller does then is modelled  *)
(* by the caller.                                                          *)
(*                                                                         *)
(*   status       workflow_status ("absent": no such row yet)              *)
(*   effect       effect_state                                             *)
(*   released     payment_guard_released_at IS NOT NULL                    *)
(*   rev          version - attested version, counted until a refund is    *)
(*                linked (afterwards no code compares it)                  *)
(*   exec         a refund_executions row exists                           *)
(*   link         stripe_refund_id, or NoRefund                            *)
(*   refundStatus stripe_refund_status, "none" for NULL                    *)
(*   lastEvent    last_stripe_event_created_at, 0 for NULL                 *)
(*   attempts     the states of the attempts, by attempt number            *)
(***************************************************************************)
EXTENDS Integers, Sequences, FiniteSets

CONSTANT NoRefund    \* the NULL Stripe refund id

WorkflowStatus ==
  {"pending_approval", "approved", "executing", "succeeded",
   "reconciliation_required", "failed_terminal", "rejected", "canceled",
   "expired", "stale"}

EffectState == {"not_started", "possible", "identified", "absence_proven"}

RefundStatus == {"none", "pending", "requires_action", "succeeded", "failed", "canceled"}

AttemptState ==
  {"started", "completed", "retryable_failure", "ambiguous_failure", "terminal_failure"}

(* The statuses in which the external-protection trigger lets no row be      *)
(* written while its payment has an unresolved alert.                        *)
ProtectedStatus == {"pending_approval", "approved", "executing"}

TerminalStatus == {"succeeded", "failed_terminal", "rejected", "canceled", "expired", "stale"}

Row(RefundId) ==
  [status: WorkflowStatus \cup {"absent"}, effect: EffectState, released: BOOLEAN,
   rev: Nat, exec: BOOLEAN, link: RefundId \cup {NoRefund},
   refundStatus: RefundStatus, lastEvent: Nat, attempts: Seq(AttemptState)]

AbsentRow ==
  [status |-> "absent", effect |-> "not_started", released |-> TRUE, rev |-> 0,
   exec |-> FALSE, link |-> NoRefund, refundStatus |-> "none", lastEvent |-> 0,
   attempts |-> <<>>]

createRefundRequest ==
  [AbsentRow EXCEPT !.status = "pending_approval", !.released = FALSE]

-------------------------------------------------------------------------------
(* Every update of the row increments its version by one.                    *)
Bump(row) == [row EXCEPT !.rev = IF row.link = NoRefund THEN @ + 1 ELSE @]

Move(row, status, effect) == [Bump(row) EXCEPT !.status = status, !.effect = effect]

(* terminal_at and payment_guard_released_at are set together.               *)
Terminate(row, status, effect) == [Move(row, status, effect) EXCEPT !.released = TRUE]

CanDecide(row) == row.status = "pending_approval"

approve(row) == Move(row, "approved", row.effect)

CanClose(row) == row.status = "pending_approval" /\ row.effect = "not_started"

(* Reject, cancel and expire differ only in the status they leave.           *)
closePending(row, status) == Terminate(row, status, "not_started")

CanClaim(row) ==
  row.status = "approved" /\ row.effect = "not_started" /\ ~row.released

(* Mutant: a name that is not a workflow status is written.                  *)
claimExecution_misspelt(row) == Move(row, "in_progress", "not_started")

claimExecution(row) == Move(row, "executing", "not_started")

CanMarkEffectPossible(row) ==
  row.status = "executing" /\ row.effect \in {"not_started", "absence_proven"}

(* persistEffectBoundary: the execution row is upserted, the effect becomes  *)
(* possible and a new attempt is appended, in one transaction.               *)
crossBoundary(row) ==
  [Move(row, "executing", "possible") EXCEPT
     !.exec = TRUE, !.attempts = Append(@, "started")]

CanMarkReconciliation(row) == row.status = "executing" /\ ~row.released

markReconciliationRequired(row) == Move(row, "reconciliation_required", row.effect)

CanMarkAbsenceProven(row) ==
  row.status = "reconciliation_required" /\ row.effect = "possible"

markAbsenceProven(row) == Move(row, row.status, "absence_proven")

CanResume(row) ==
  row.status = "reconciliation_required" /\ row.effect = "absence_proven"

resumeExecutionAfterAbsence(row) == Move(row, "executing", "absence_proven")

CanMarkCertainAbsence(row) == row.status = "executing" /\ row.effect = "possible"

markCertainAbsenceWhileExecuting(row) == Move(row, "executing", "absence_proven")

CanMarkTerminal(row) ==
  row.status = "executing" /\ row.effect \in {"not_started", "absence_proven"}

markTerminalFailureAfterAbsence(row) == Terminate(row, "failed_terminal", "absence_proven")

CanFinishAttempt(row, n) == n \in DOMAIN row.attempts /\ row.attempts[n] = "started"

finishExecutionAttempt(row, n, state) == [row EXCEPT !.attempts[n] = state]

(* Mutant: the settlement ends executing requests whatever their effect.     *)
settle_blind(row) ==
  IF row.released THEN row
  ELSE CASE row.status \in {"pending_approval", "approved"}
              -> Terminate(row, "stale", "absence_proven")
         [] row.status = "executing" -> markTerminalFailureAfterAbsence(row)
         [] OTHER -> row

(* Mutant: the settlement sends every executing request to reconciliation.   *)
settle_diverts(row) ==
  IF row.released THEN row
  ELSE CASE row.status \in {"pending_approval", "approved"}
              -> Terminate(row, "stale", "absence_proven")
         [] row.status = "executing" -> markReconciliationRequired(row)
         [] OTHER -> row

(* The three-way settlement shared by deauthorization (every request of the  *)
(* tenant) and by an external refund (every request of the payment).         *)
settle(row) ==
  IF row.released THEN row
  ELSE CASE row.status \in {"pending_approval", "approved"} /\ row.effect = "not_started"
              -> Terminate(row, "stale", "absence_proven")
         [] CanMarkTerminal(row) -> markTerminalFailureAfterAbsence(row)
         [] row.status = "executing" /\ row.effect \in {"possible", "identified"}
              -> markReconciliationRequired(row)
         [] OTHER -> row

-------------------------------------------------------------------------------
(* Mutant: every observation replaces the stored one.                        *)
shouldApplyRefundObservation_always(row, st, ev) == TRUE

(* shouldApplyRefundObservation: whether an observation (status st, event    *)
(* time ev, 0 when it is not a webhook) may replace the stored one.          *)
shouldApplyRefundObservation(row, st, ev) ==
  LET cur   == row.refundStatus
      dated == ev # 0 /\ row.lastEvent # 0
  IN  /\ dated => ev >= row.lastEvent
      /\ CASE cur = "failed" -> st = "failed"
           [] cur = "canceled" -> st \in {"canceled", "failed"}
           [] cur = "succeeded" -> st \in {"succeeded", "failed", "canceled"}
           [] cur = "none" -> TRUE
           [] OTHER -> /\ st # "none"
                       /\ dated /\ ev = row.lastEvent /\ st # cur
                            => st \in {"succeeded", "failed", "canceled"}

(* Mutant: a refund that Stripe has accepted counts as one that succeeded.   *)
IdentifyBranch_pendingSucceeds(row, st, resolution) ==
  IF row.status \notin {"executing", "reconciliation_required"} THEN "keep"
  ELSE IF row.status = "reconciliation_required" /\ resolution = "preserve" THEN "preserve"
  ELSE CASE st = "none" -> "uncertain"
         [] st \in {"pending", "requires_action", "succeeded"} -> "succeed"
         [] OTHER -> "fail"

(* The request half of markRefundIdentified, as the branch it takes.         *)
IdentifyBranch(row, st, resolution) ==
  IF row.status \notin {"executing", "reconciliation_required"}
  THEN IF /\ row.status = "succeeded" /\ row.refundStatus = "succeeded"
          /\ st \in {"failed", "canceled"}
       THEN "correct" ELSE "keep"
  ELSE IF row.status = "reconciliation_required" /\ resolution = "preserve" THEN "preserve"
  ELSE CASE st = "none" -> "uncertain"
         [] st \in {"pending", "requires_action"} -> "identify"
         [] st = "succeeded" -> "succeed"
         [] OTHER -> "fail"

(* markRefundIdentified returns false (and its caller rolls back) when the   *)
(* execution is missing or linked to another refund, or when the compare-    *)
(* and-set of the branch finds another effect state.                         *)
CanIdentify(row, id, st, ev, resolution) ==
  /\ row.exec
  /\ row.link \in {NoRefund, id}
  /\ shouldApplyRefundObservation(row, st, ev) =>
       LET branch == IdentifyBranch(row, st, resolution)
       IN  /\ branch = "correct" => row.effect = "identified"
           /\ branch = "preserve" => ~row.released
           /\ branch \in {"uncertain", "identify", "succeed", "fail"}
                => row.effect \in {"possible", "identified"}

LinkRefund(row, id, st, ev) ==
  [row EXCEPT !.link = id, !.refundStatus = st, !.lastEvent = IF ev = 0 THEN @ ELSE ev]

markRefundIdentified(row, id, st, ev, resolution) ==
  LET linked == LinkRefund(row, id, st, ev)
      branch == IdentifyBranch(row, st, resolution)
  IN  IF ~shouldApplyRefundObservation(row, st, ev) THEN row
      ELSE CASE branch = "correct" -> Move(linked, "failed_terminal", "absence_proven")
             [] branch = "keep" -> linked
             [] branch = "preserve" -> Move(linked, "reconciliation_required", "identified")
             [] branch = "uncertain" -> Move(linked, "reconciliation_required", "identified")
             [] branch = "identify" -> Move(linked, row.status, "identified")
             [] branch = "succeed" -> Terminate(linked, "succeeded", "identified")
             [] OTHER -> Terminate(linked, "failed_terminal", "absence_proven")

-------------------------------------------------------------------------------
(* Mutant: a retryable failure is charged like an ambiguous one.             *)
RevisionCost_uniform(attempts) == 4 * Len(attempts)

(* approvalAttestationRequestVersionIsCompatible: the revisions since the    *)
(* approval must be exactly those that the recorded attempts explain.  A     *)
(* retryable failure costs two revisions (possible, absence_proven), every   *)
(* other unfinished or ambiguous attempt four (possible, reconciliation,     *)
(* absence_proven, executing); the sum over the attempts is written with the *)
(* number of retryable ones.                                                 *)
RevisionCost(attempts) ==
  4 * Len(attempts)
    - 2 * Cardinality({i \in DOMAIN attempts : attempts[i] = "retryable_failure"})

attestationCompatible(row) ==
  LET n      == Len(row.attempts)
      latest == row.attempts[n]
      prior  == RevisionCost(SubSeq(row.attempts, 1, n - 1))
  IN  IF ~row.exec
      THEN \/ row.status = "approved" /\ row.effect = "not_started" /\ row.rev = 1
           \/ row.status = "executing" /\ row.effect = "not_started" /\ row.rev = 2
      ELSE /\ row.link = NoRefund
           /\ n > 0
           /\ \A i \in 1..n : row.attempts[i] \notin {"completed", "terminal_failure"}
           /\ \/ /\ row.status = "executing" /\ row.effect = "absence_proven"
                 /\ row.rev = 2 + RevisionCost(row.attempts)
              \/ /\ row.status = "executing" /\ row.effect = "possible"
                 /\ latest = "started"
                 /\ row.rev = 3 + prior
              \/ /\ row.status = "reconciliation_required"
                 /\ row.effect = "possible"
                 /\ latest \in {"started", "ambiguous_failure"}
                 /\ row.rev = 4 + prior
              \/ /\ row.status = "reconciliation_required"
                 /\ row.effect = "absence_proven"
                 /\ latest \in {"started", "ambiguous_failure"}
                 /\ row.rev = 5 + prior
===============================================================================

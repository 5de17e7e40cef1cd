----------------------- MODULE RefundExecution_proofs -------------------------
(***************************************************************************)
(* Proofs about RefundExecution for every set of requests, payments and    *)
(* handlers and every bound.                                               *)
(***************************************************************************)
EXTENDS RefundExecution, TLAPS

(* What every update of a row keeps: the type, the guard once released, and  *)
(* the shape that the settlement relies on.                                  *)
Coherent(v) ==
  /\ v.status \in ProtectedStatus \cup {"reconciliation_required"} => ~v.released
  /\ v.status \in {"pending_approval", "approved"} => v.effect = "not_started"

LEMMA BumpType ==
  ASSUME NEW v \in Row(Requests)
  PROVE  /\ Bump(v) \in Row(Requests)
         /\ Bump(v).released = v.released
         /\ Bump(v).attempts = v.attempts
         /\ Bump(v).link = v.link
  BY DEF Bump, Row

LEMMA MoveType ==
  ASSUME NEW v \in Row(Requests), NEW s \in WorkflowStatus, NEW e \in EffectState
  PROVE  /\ Move(v, s, e) \in Row(Requests)
         /\ Move(v, s, e).status = s
         /\ Move(v, s, e).effect = e
         /\ Move(v, s, e).released = v.released
         /\ Move(v, s, e).attempts = v.attempts
         /\ Move(v, s, e).link = v.link
  BY BumpType DEF Move, Row

LEMMA TerminateType ==
  ASSUME NEW v \in Row(Requests), NEW s \in WorkflowStatus, NEW e \in EffectState
  PROVE  /\ Terminate(v, s, e) \in Row(Requests)
         /\ Terminate(v, s, e).status = s
         /\ Terminate(v, s, e).effect = e
         /\ Terminate(v, s, e).released = TRUE
         /\ Terminate(v, s, e).attempts = v.attempts
  <1>1. Move(v, s, e) \in Row(Requests) /\ Move(v, s, e).attempts = v.attempts
    BY MoveType
  <1>2. Move(v, s, e).status = s /\ Move(v, s, e).effect = e
    BY MoveType
  <1> QED BY <1>1, <1>2 DEF Terminate, Row

-------------------------------------------------------------------------------
(* Kept(v, w): the row w keeps what v had.  All updates but four do: the     *)
(* insertion, the two of a resumption and the crossing of the boundary.      *)
Kept(v, w) ==
  /\ w \in Row(Requests) /\ Coherent(w)
  /\ v.released => w.released
  /\ w.status \in ProtectedStatus => v.status \in ProtectedStatus
  /\ Len(w.attempts) = Len(v.attempts)

LEMMA KeptItself ==
  ASSUME NEW v \in Row(Requests), Coherent(v)
  PROVE  Kept(v, v)
  BY DEF Kept

LEMMA KeptMove ==
  ASSUME NEW v \in Row(Requests), Coherent(v),
         NEW s \in WorkflowStatus, NEW e \in EffectState,
         s \in ProtectedStatus => v.status \in ProtectedStatus,
         s = "reconciliation_required" =>
           v.status \in ProtectedStatus \cup {"reconciliation_required"},
         s \in {"pending_approval", "approved"} => e = "not_started"
  PROVE  Kept(v, Move(v, s, e))
  <1> DEFINE w == Move(v, s, e)
  <1>1. /\ w \in Row(Requests) /\ w.status = s /\ w.effect = e
        /\ w.released = v.released /\ w.attempts = v.attempts
    BY MoveType
  <1>2. Coherent(w)
    BY <1>1 DEF Coherent
  <1> QED BY <1>1, <1>2 DEF Kept

LEMMA KeptTerminate ==
  ASSUME NEW v \in Row(Requests), Coherent(v),
         NEW s \in TerminalStatus, NEW e \in EffectState
  PROVE  Kept(v, Terminate(v, s, e))
  <1> DEFINE w == Terminate(v, s, e)
  <1>1. /\ s \in WorkflowStatus /\ s \notin ProtectedStatus
        /\ s \notin {"reconciliation_required", "pending_approval", "approved"}
    BY DEF TerminalStatus, WorkflowStatus, ProtectedStatus
  <1>2. /\ w \in Row(Requests) /\ w.status = s /\ w.released = TRUE
        /\ w.attempts = v.attempts
    BY <1>1, TerminateType
  <1>3. Coherent(w)
    BY <1>1, <1>2 DEF Coherent
  <1> QED BY <1>1, <1>2, <1>3 DEF Kept

LEMMA KeptTransitive ==
  ASSUME NEW u, NEW v, NEW w, Kept(u, v), Kept(v, w)
  PROVE  Kept(u, w)
  BY DEF Kept

LEMMA KeptFinish ==
  ASSUME NEW v \in Row(Requests), NEW w \in Row(Requests), Kept(v, w),
         NEW n \in Nat, CanFinishAttempt(v, n), NEW a \in AttemptState
  PROVE  Kept(v, finishExecutionAttempt(w, n, a))
  <1>1. w.attempts \in Seq(AttemptState) /\ v.attempts \in Seq(AttemptState)
    BY DEF Row
  <1>2. Len(w.attempts) = Len(v.attempts)
    BY DEF Kept
  <1>3. n \in 1..Len(w.attempts)
    BY <1>1, <1>2 DEF CanFinishAttempt
  <1>4. [w.attempts EXCEPT ![n] = a] \in Seq(AttemptState)
        /\ Len([w.attempts EXCEPT ![n] = a]) = Len(w.attempts)
    BY <1>1, <1>3
  <1>5. finishExecutionAttempt(w, n, a) = [w EXCEPT !.attempts = [w.attempts EXCEPT ![n] = a]]
    BY DEF finishExecutionAttempt, Row
  <1> DEFINE u == [w EXCEPT !.attempts = [w.attempts EXCEPT ![n] = a]]
  <1>6. u \in Row(Requests) /\ u.status = w.status /\ u.effect = w.effect
        /\ u.released = w.released /\ u.attempts = [w.attempts EXCEPT ![n] = a]
    BY <1>4 DEF Row
  <1> QED BY <1>2, <1>4, <1>5, <1>6 DEF Kept, Coherent

(* The settlement leaves no request in a protected status.                   *)
LEMMA KeptSettle ==
  ASSUME NEW v \in Row(Requests), Coherent(v)
  PROVE  Kept(v, settle(v)) /\ settle(v).status \notin ProtectedStatus
  <1>1. CASE v.released
    <2>1. settle(v) = v /\ v.status \notin ProtectedStatus
      BY <1>1 DEF settle, Coherent
    <2> QED BY <2>1, KeptItself
  <1>2. CASE ~v.released /\ v.status \in {"pending_approval", "approved"}
    <2>1. v.effect = "not_started"
      BY <1>2 DEF Coherent
    <2>2. settle(v) = Terminate(v, "stale", "absence_proven")
      BY <1>2, <2>1 DEF settle, CanMarkTerminal
    <2>3. "stale" \in TerminalStatus /\ "absence_proven" \in EffectState
          /\ "stale" \in WorkflowStatus /\ "stale" \notin ProtectedStatus
      BY DEF TerminalStatus, EffectState, WorkflowStatus, ProtectedStatus
    <2>4. Terminate(v, "stale", "absence_proven").status = "stale"
      BY <2>3, TerminateType
    <2>5. Kept(v, Terminate(v, "stale", "absence_proven"))
      BY <2>3, KeptTerminate
    <2> QED BY <2>2, <2>3, <2>4, <2>5
  <1>3. CASE ~v.released /\ CanMarkTerminal(v)
    <2>1. settle(v) = Terminate(v, "failed_terminal", "absence_proven")
      BY <1>3 DEF settle, CanMarkTerminal, markTerminalFailureAfterAbsence
    <2>2. "failed_terminal" \in TerminalStatus /\ "absence_proven" \in EffectState
          /\ "failed_terminal" \in WorkflowStatus /\ "failed_terminal" \notin ProtectedStatus
      BY DEF TerminalStatus, EffectState, WorkflowStatus, ProtectedStatus
    <2>3. Terminate(v, "failed_terminal", "absence_proven").status = "failed_terminal"
      BY <2>2, TerminateType
    <2>4. Kept(v, Terminate(v, "failed_terminal", "absence_proven"))
      BY <2>2, KeptTerminate
    <2> QED BY <2>1, <2>2, <2>3, <2>4
  <1>4. CASE ~v.released /\ v.status = "executing" /\ v.effect \in {"possible", "identified"}
    <2>1. settle(v) = Move(v, "reconciliation_required", v.effect)
      BY <1>4 DEF settle, CanMarkTerminal, markReconciliationRequired
    <2>2. "reconciliation_required" \in WorkflowStatus /\ v.effect \in EffectState
          /\ "reconciliation_required" \notin ProtectedStatus /\ v.status \in ProtectedStatus
      BY <1>4 DEF WorkflowStatus, ProtectedStatus, EffectState
    <2> QED BY <2>1, <2>2, KeptMove, MoveType
  <1>5. CASE ~v.released /\ v.status \notin ProtectedStatus
    <2>1. settle(v) = v
      BY <1>5 DEF settle, ProtectedStatus, CanMarkTerminal
    <2> QED BY <1>5, <2>1, KeptItself
  <1>6. v.effect \in EffectState
    BY DEF Row
  <1> QED BY <1>1, <1>2, <1>3, <1>4, <1>5, <1>6 DEF ProtectedStatus, CanMarkTerminal, EffectState

LEMMA KeptReconciliation ==
  ASSUME NEW v \in Row(Requests), Coherent(v), v.status = "executing"
  PROVE  Kept(v, markReconciliationRequired(v))
  <1>1. "reconciliation_required" \in WorkflowStatus /\ v.effect \in EffectState
        /\ "reconciliation_required" \notin ProtectedStatus /\ v.status \in ProtectedStatus
    BY DEF WorkflowStatus, ProtectedStatus, Row
  <1> QED BY <1>1, KeptMove DEF markReconciliationRequired

LEMMA KeptToReconciliation ==
  ASSUME NEW v \in Row(Requests), Coherent(v)
  PROVE  Kept(v, toReconciliation(v))
  BY KeptItself, KeptReconciliation DEF toReconciliation, CanMarkReconciliation

LEMMA KeptLink ==
  ASSUME NEW v \in Row(Requests), Coherent(v), NEW id \in Requests,
         NEW st \in RefundStatus, NEW ev \in Nat
  PROVE  Kept(v, LinkRefund(v, id, st, ev)) /\ LinkRefund(v, id, st, ev).status = v.status
  <1> DEFINE w == LinkRefund(v, id, st, ev)
  <1>1. /\ w \in Row(Requests) /\ w.status = v.status /\ w.effect = v.effect
        /\ w.released = v.released /\ w.attempts = v.attempts
    BY DEF LinkRefund, Row
  <1>2. Coherent(w)
    BY <1>1 DEF Coherent
  <1> QED BY <1>1, <1>2 DEF Kept

LEMMA KeptIdentified ==
  ASSUME NEW v \in Row(Requests), Coherent(v), NEW id \in Requests,
         NEW st \in RefundStatus, NEW ev \in Nat, NEW res
  PROVE  Kept(v, markRefundIdentified(v, id, st, ev, res))
  <1> DEFINE linked == LinkRefund(v, id, st, ev)
             branch == IdentifyBranch(v, st, res)
             new == markRefundIdentified(v, id, st, ev, res)
  <1>1. Kept(v, linked) /\ linked \in Row(Requests) /\ Coherent(linked) /\ linked.status = v.status
    BY KeptLink DEF Kept
  <1>2. /\ "failed_terminal" \in WorkflowStatus \cap TerminalStatus
        /\ "succeeded" \in TerminalStatus
        /\ "reconciliation_required" \in WorkflowStatus
        /\ "failed_terminal" \notin ProtectedStatus
        /\ "reconciliation_required" \notin ProtectedStatus
        /\ {"identified", "absence_proven"} \subseteq EffectState
        /\ "executing" \in WorkflowStatus \cap ProtectedStatus
    BY DEF WorkflowStatus, TerminalStatus, ProtectedStatus, EffectState
  <1>3. CASE ~shouldApplyRefundObservation(v, st, ev)
    <2>1. new = v
      BY <1>3 DEF markRefundIdentified
    <2> QED BY <2>1, KeptItself
  <1>4. CASE shouldApplyRefundObservation(v, st, ev) /\ branch = "correct"
    <2>1. new = Move(linked, "failed_terminal", "absence_proven")
      BY <1>4 DEF markRefundIdentified
    <2>2. Kept(linked, new)
      BY <1>1, <1>2, <2>1, KeptMove
    <2> QED BY <1>1, <2>2, KeptTransitive
  <1>5. CASE shouldApplyRefundObservation(v, st, ev) /\ branch = "keep"
    <2>1. new = linked
      BY <1>5 DEF markRefundIdentified
    <2> QED BY <1>1, <2>1
  <1>6. CASE shouldApplyRefundObservation(v, st, ev) /\ branch \in {"preserve", "uncertain"}
    <2>1. new = Move(linked, "reconciliation_required", "identified")
      BY <1>6 DEF markRefundIdentified
    <2>2. v.status \in {"executing", "reconciliation_required"}
      BY <1>6 DEF IdentifyBranch
    <2>3. Kept(linked, new)
      BY <1>1, <1>2, <2>1, <2>2, KeptMove
    <2> QED BY <1>1, <2>3, KeptTransitive
  <1>7. CASE shouldApplyRefundObservation(v, st, ev) /\ branch = "identify"
    <2>1. new = Move(linked, v.status, "identified")
      BY <1>7 DEF markRefundIdentified
    <2>2. v.status \in {"executing", "reconciliation_required"}
      BY <1>7 DEF IdentifyBranch
    <2>3. Kept(linked, new)
      BY <1>1, <1>2, <2>1, <2>2, KeptMove
    <2> QED BY <1>1, <2>3, KeptTransitive
  <1>8. CASE shouldApplyRefundObservation(v, st, ev) /\ branch = "succeed"
    <2>1. new = Terminate(linked, "succeeded", "identified")
      BY <1>8 DEF markRefundIdentified
    <2>2. Kept(linked, new)
      BY <1>1, <1>2, <2>1, KeptTerminate
    <2> QED BY <1>1, <2>2, KeptTransitive
  <1>9. CASE shouldApplyRefundObservation(v, st, ev) /\ branch = "fail"
    <2>1. new = Terminate(linked, "failed_terminal", "absence_proven")
      BY <1>9 DEF markRefundIdentified
    <2>2. Kept(linked, new)
      BY <1>1, <1>2, <2>1, KeptTerminate
    <2> QED BY <1>1, <2>2, KeptTransitive
  <1>10. branch \in {"correct", "keep", "preserve", "uncertain", "identify", "succeed", "fail"}
    BY DEF IdentifyBranch
  <1> QED BY <1>3, <1>4, <1>5, <1>6, <1>7, <1>8, <1>9, <1>10

-------------------------------------------------------------------------------
(* The inductive invariant.  A handler that works has a request to work on;  *)
(* the guard and the protection of a payment rest on the shape of its rows.  *)
RowsCoherent == \A r \in Requests : Coherent(row[r])

HandlersBound == \A h \in Handlers : hand[h].step # "idle" => hand[h].req \in Requests

Inv == TypeOK /\ RowsCoherent /\ HandlersBound /\ OneGuardPerPayment /\ AlertExcludesExecution

LEMMA CallLandsType ==
  ASSUME StripeTypeOK, NEW r \in Requests, CallLands(r)
  PROVE  stripe' \in [Requests -> Seq(RefundStatus)]
  <1>1. CASE UNCHANGED stripe
    BY <1>1 DEF StripeTypeOK
  <1>2. CASE \E s \in InitialRefundStatus : stripe' = [stripe EXCEPT ![r] = <<s>>]
    <2>1. PICK s \in InitialRefundStatus : stripe' = [stripe EXCEPT ![r] = <<s>>]
      BY <1>2
    <2>2. s \in RefundStatus
      BY ConstantsAssumption DEF RefundStatus
    <2> QED BY <2>1, <2>2 DEF StripeTypeOK
  <1> QED BY <1>1, <1>2 DEF CallLands

(* What Stripe holds keeps its type.                                         *)
LEMMA StripeTypeKept ==
  ASSUME TypeOK, HandlersBound, Next
  PROVE  StripeTypeOK'
  <1> USE DEF TypeOK
  <1>1. CASE UNCHANGED stripeVars
    BY <1>1 DEF StripeTypeOK, stripeVars
  <1>2. CASE PlatformStep
    BY <1>1, <1>2 DEF PlatformStep, createRequest, decideApprove, closeRequest, updateSettings,
       applyWebhookDeauthorization, provisionWebhookInstallation, stripeVars
  <1>3. ASSUME NEW r \in Requests, RefundMoves(r) PROVE StripeTypeOK'
    <2>1. PICK s \in RefundStatus : stripe' = [stripe EXCEPT ![r] = Append(@, s)]
      BY <1>3 DEF RefundMoves
    <2>2. Append(stripe[r], s) \in Seq(RefundStatus)
      BY <2>1 DEF StripeTypeOK
    <2> QED BY <1>3, <2>1, <2>2 DEF StripeTypeOK, RefundMoves
  <1>4. ASSUME NEW r \in Requests, StrayLands(r) PROVE StripeTypeOK'
    BY <1>4, CallLandsType DEF StripeTypeOK, StrayLands
  <1>5. ASSUME NEW r \in Requests, StrayIsLost(r) PROVE StripeTypeOK'
    BY <1>5 DEF StripeTypeOK, StrayIsLost
  <1>6. ASSUME NEW p \in Payments, ExternalRefund(p) PROVE StripeTypeOK'
    BY <1>6 DEF StripeTypeOK, ExternalRefund
  <1>7. ASSUME NEW h \in Handlers, HandlerStep(h) PROVE StripeTypeOK'
    <2>1. CASE createRefund(h)
      <3>1. hand[h].req \in Requests
        BY <2>1 DEF createRefund, Answered, HandlersBound
      <3> QED BY <2>1, <3>1, CallLandsType DEF createRefund, Answered, StripeTypeOK
    <2>2. CASE callTimesOut(h)
      <3>1. hand[h].req \in Requests
        BY <2>2 DEF callTimesOut, Answered, HandlersBound
      <3> QED BY <2>2, <3>1 DEF callTimesOut, Answered, StripeTypeOK
    <2>3. CASE \E a \in {"retryable", "terminal"} : callRefused(h, a)
      BY <2>3 DEF callRefused, Answered, StripeTypeOK
    <2>4. CASE preflightClears(h) \/ preflightRefuses(h) \/ preflightFails(h)
                 \/ persistEffectBoundary(h)
      BY <1>1, <2>4 DEF preflightClears, preflightRefuses, preflightFails, persistEffectBoundary
    <2>5. CASE Record(h)
      BY <1>1, <2>5 DEF Record, Recorded, recordTerminalWithoutEffect, recordIdentifiedRefund,
         recordRetryableAttemptFailure, recordAmbiguousAttemptFailure,
         recordTerminalAttemptWithoutEffect
    <2> QED BY <1>7, <2>1, <2>2, <2>3, <2>4, <2>5 DEF HandlerStep
  <1>8. ASSUME NEW h \in Handlers, Crash(h) PROVE StripeTypeOK'
    BY <1>8 DEF Crash, HandlersBound, StripeTypeOK
  <1>9. ASSUME NEW h \in Handlers, Expire(h) \/ \E r \in Requests : loadRefundExecution(h, r)
        PROVE  StripeTypeOK'
    BY <1>1, <1>9 DEF Expire, loadRefundExecution
  <1>10. CASE ScanStep
    BY <1>1, <1>10 DEF ScanStep, scanBegins, scanObserves, scanObservesExternal, scanFails,
       commitReconciliationCheckpoint
  <1>11. ASSUME NEW r \in Requests,
                \/ recoverExecution(r) \/ Age(r)
                \/ \E i \in 1..MaxMoves : webhookRefund(r, i) \/ observeLinkedRefund(r, i)
         PROVE  StripeTypeOK'
    BY <1>1, <1>11 DEF recoverExecution, Age, webhookRefund, observeLinkedRefund
  <1>12. ASSUME NEW p \in Payments, webhookExternalRefund(p) PROVE StripeTypeOK'
    BY <1>1, <1>12 DEF webhookExternalRefund
  <1> QED BY <1>2, <1>3, <1>4, <1>5, <1>6, <1>7, <1>8, <1>9, <1>10, <1>11, <1>12
          DEF Next, StripeStep

-------------------------------------------------------------------------------
(* The queue and the handlers.                                               *)
HandType == [step: StepName, req: Requests \cup {NoRefund}, attempt: Nat, answer: Answer,
             zombie: BOOLEAN]

HandBound(v) == v.step # "idle" => v.req \in Requests

HandKept ==
  /\ job' \in [Requests -> {"none", "created", "active"}]
  /\ hand' \in [Handlers -> HandType]
  /\ \A h \in Handlers : HandBound(hand'[h])

LEMMA IdleType == Idle \in HandType /\ HandBound(Idle)
  BY DEF Idle, HandType, HandBound, StepName, Answer

LEMMA HandlerChanged ==
  ASSUME TypeOK, HandlersBound, NEW h \in Handlers, NEW v \in HandType, HandBound(v),
         hand' = [hand EXCEPT ![h] = v]
  PROVE  hand' \in [Handlers -> HandType] /\ \A g \in Handlers : HandBound(hand'[g])
  BY DEF TypeOK, WorkerTypeOK, HandType, HandlersBound, HandBound

LEMMA HandlersUnchanged ==
  ASSUME TypeOK, HandlersBound, UNCHANGED hand
  PROVE  hand' \in [Handlers -> HandType] /\ \A g \in Handlers : HandBound(hand'[g])
  BY DEF TypeOK, WorkerTypeOK, HandType, HandlersBound, HandBound

LEMMA JobEndsKept ==
  ASSUME TypeOK, HandlersBound, NEW h \in Handlers, NEW o \in SUBSET {"none", "created"},
         JobEnds(h, o)
  PROVE  HandKept
  <1>1. hand' = [hand EXCEPT ![h] = Idle]
    BY DEF JobEnds
  <1>2. job' \in [Requests -> {"none", "created", "active"}]
    BY DEF JobEnds, TypeOK, WorkerTypeOK
  <1> QED BY <1>1, <1>2, IdleType, HandlerChanged DEF HandKept

LEMMA StepKept ==
  ASSUME TypeOK, HandlersBound, NEW h \in Handlers, hand[h].step # "idle",
         NEW v \in HandType, v.req = hand[h].req, hand' = [hand EXCEPT ![h] = v],
         job' \in [Requests -> {"none", "created", "active"}]
  PROVE  HandKept
  <1>1. HandBound(v)
    BY DEF HandlersBound, HandBound
  <1> QED BY <1>1, HandlerChanged DEF HandKept

LEMMA HandlerStepKept ==
  ASSUME TypeOK, HandlersBound, NEW h \in Handlers, HandlerStep(h)
  PROVE  HandKept
  <1>1. hand \in [Handlers -> HandType] /\ hand[h] \in HandType
        /\ job \in [Requests -> {"none", "created", "active"}]
    BY DEF TypeOK, WorkerTypeOK, HandType
  <1>3. {"refused", "cleared", "calling", "answered"} \subseteq StepName
        /\ {"refund", "retryable", "ambiguous", "terminal"} \subseteq Answer
    BY DEF StepName, Answer
  <1>4. Returns \in SUBSET {"none", "created"} /\ Throws \in SUBSET {"none", "created"}
    BY DEF Returns, Throws
  <1>5. ASSUME NEW s \in {"refused", "cleared"}, hand[h].step = "loaded", Step(h, s)
        PROVE  HandKept
    <2> DEFINE v == [hand[h] EXCEPT !.step = s]
    <2>1. hand' = [hand EXCEPT ![h] = v] /\ UNCHANGED job
      BY <1>1, <1>5 DEF Step
    <2>2. v \in HandType /\ v.req = hand[h].req
      BY <1>1, <1>3 DEF HandType
    <2> HIDE DEF v
    <2> QED BY <1>1, <1>5, <2>1, <2>2, StepKept
  <1>6. CASE preflightClears(h) \/ preflightRefuses(h)
    BY <1>5, <1>6 DEF preflightClears, preflightRefuses
  <1>7. CASE preflightFails(h)
    BY <1>4, <1>7, JobEndsKept DEF preflightFails
  <1>8. CASE persistEffectBoundary(h)
    <2>1. CASE Executable(hand[h].req)
      <3> DEFINE n == Len(row[hand[h].req].attempts) + 1
      <3>1. hand[h].req \in Requests /\ hand[h].step = "cleared"
        BY <1>8 DEF persistEffectBoundary, HandlersBound
      <3>2. row[hand[h].req].attempts \in Seq(AttemptState)
        BY <3>1 DEF TypeOK, Row
      <3>3. n \in Nat
        BY <3>2
      <3>4. hand' = [hand EXCEPT ![h].step = "calling", ![h].attempt = n] /\ UNCHANGED job
        BY <1>8, <2>1 DEF persistEffectBoundary
      <3> HIDE DEF n
      <3> DEFINE v == [hand[h] EXCEPT !.step = "calling", !.attempt = n]
      <3>5. hand' = [hand EXCEPT ![h] = v]
        BY <1>1, <3>4
      <3>6. v \in HandType /\ v.req = hand[h].req
        BY <1>1, <1>3, <3>3 DEF HandType
      <3> HIDE DEF v
      <3> QED BY <1>1, <3>1, <3>4, <3>5, <3>6, StepKept
    <2>2. CASE ~Executable(hand[h].req)
      BY <1>4, <1>8, <2>2, JobEndsKept DEF persistEffectBoundary
    <2> QED BY <2>1, <2>2
  <1>9. ASSUME NEW a \in {"refund", "retryable", "ambiguous", "terminal"}, Answered(h, a)
        PROVE  HandKept
    <2> DEFINE v == [hand[h] EXCEPT !.step = "answered", !.answer = a]
    <2>1. hand' = [hand EXCEPT ![h] = v] /\ UNCHANGED job /\ hand[h].step = "calling"
      BY <1>1, <1>9 DEF Answered
    <2>2. v \in HandType /\ v.req = hand[h].req
      BY <1>1, <1>3 DEF HandType
    <2> HIDE DEF v
    <2> QED BY <1>1, <2>1, <2>2, StepKept
  <1>10. CASE createRefund(h) \/ callTimesOut(h)
              \/ \E a \in {"retryable", "terminal"} : callRefused(h, a)
    BY <1>9, <1>10 DEF createRefund, callTimesOut, callRefused
  <1>11. CASE Record(h)
    <2>1. JobEnds(h, Returns) \/ JobEnds(h, Throws)
      BY <1>11 DEF Record, Recorded, recordTerminalWithoutEffect, recordIdentifiedRefund,
         recordRetryableAttemptFailure, recordAmbiguousAttemptFailure,
         recordTerminalAttemptWithoutEffect
    <2> QED BY <1>4, <2>1, JobEndsKept
  <1> QED BY <1>6, <1>7, <1>8, <1>10, <1>11 DEF HandlerStep

LEMMA LoadKept ==
  ASSUME TypeOK, HandlersBound, NEW h \in Handlers, NEW r \in Requests, loadRefundExecution(h, r)
  PROVE  HandKept
  <1>1. job' \in [Requests -> {"none", "created", "active"}]
    BY DEF loadRefundExecution, TypeOK, WorkerTypeOK
  <1>2. CASE Loadable(r)
    <2> DEFINE v == [Idle EXCEPT !.step = "loaded", !.req = r]
    <2>1. hand' = [hand EXCEPT ![h] = v]
      BY <1>2 DEF loadRefundExecution
    <2>2. v \in HandType /\ HandBound(v)
      BY DEF Idle, HandType, HandBound, StepName, Answer
    <2> HIDE DEF v
    <2> QED BY <1>1, <2>1, <2>2, HandlerChanged DEF HandKept
  <1>3. CASE ~Loadable(r)
    <2>1. UNCHANGED hand
      BY <1>3 DEF loadRefundExecution
    <2> QED BY <1>1, <2>1, HandlersUnchanged DEF HandKept
  <1> QED BY <1>2, <1>3

LEMMA ExpireKept ==
  ASSUME TypeOK, HandlersBound, NEW h \in Handlers, Expire(h)
  PROVE  HandKept
  <1> DEFINE v == [hand[h] EXCEPT !.zombie = TRUE]
  <1>1. hand \in [Handlers -> HandType]
    BY DEF TypeOK, WorkerTypeOK, HandType
  <1>2. v \in HandType /\ v.req = hand[h].req
    BY <1>1 DEF HandType
  <1>3. hand' = [hand EXCEPT ![h] = v] /\ hand[h].step # "idle"
    BY <1>1 DEF Expire
  <1>4. job' \in [Requests -> {"none", "created", "active"}]
    BY DEF Expire, Throws, TypeOK, WorkerTypeOK
  <1> HIDE DEF v
  <1> QED BY <1>2, <1>3, <1>4, StepKept

(* The record of the scan keeps its type.                                    *)
ScanType == [on: BOOLEAN, began: [Requests -> Nat], listed: SUBSET Requests,
             externals: SUBSET Payments, covers: SUBSET Requests]

LEMMA ScanStepKept ==
  ASSUME TypeOK, ScanStep
  PROVE  scan' \in ScanType
  <1>1. scan \in ScanType /\ NoScan \in ScanType
    BY DEF TypeOK, WorkerTypeOK, ScanType, NoScan
  <1>2. CASE scanBegins
    <2>1. \A r \in Requests : Len(stripe[r]) \in Nat
      BY DEF TypeOK, StripeTypeOK
    <2>2. external \in SUBSET Payments
      BY DEF TypeOK, StripeTypeOK
    <2>3. PICK older \in SUBSET aged :
            scan' = [on |-> TRUE,
                     began |-> [r \in Requests |-> Len(stripe[r])],
                     listed |-> {r \in Requests : HasRefund(r) /\ r \notin older},
                     externals |-> external,
                     covers |-> {r \in Requests \ aged : row[r].status = "reconciliation_required"}]
      BY <1>2 DEF scanBegins
    <2> QED BY <2>1, <2>2, <2>3 DEF ScanType
  <1>3. CASE \E r \in Requests : scanObserves(r)
    BY <1>1, <1>3 DEF scanObserves, ScanType
  <1>4. CASE \E p \in Payments : scanObservesExternal(p)
    BY <1>1, <1>4 DEF scanObservesExternal, ScanType
  <1>5. CASE scanFails \/ commitReconciliationCheckpoint
    BY <1>1, <1>5 DEF scanFails, commitReconciliationCheckpoint
  <1> QED BY <1>2, <1>3, <1>4, <1>5 DEF ScanStep

LEMMA WorkerKept ==
  ASSUME TypeOK, HandlersBound, Next
  PROVE  HandKept /\ scan' \in ScanType
  <1>1. scan \in ScanType /\ job \in [Requests -> {"none", "created", "active"}]
    BY DEF TypeOK, WorkerTypeOK, ScanType
  <1>2. CASE UNCHANGED workerVars
    BY <1>1, <1>2, HandlersUnchanged DEF HandKept, workerVars
  <1>3. CASE PlatformStep \/ StripeStep
    BY <1>2, <1>3 DEF PlatformStep, createRequest, decideApprove, closeRequest, updateSettings,
       applyWebhookDeauthorization, provisionWebhookInstallation, StripeStep, RefundMoves,
       StrayLands, StrayIsLost, ExternalRefund
  <1>4. ASSUME NEW h \in Handlers, HandlerStep(h) PROVE HandKept /\ scan' \in ScanType
    <2>1. UNCHANGED scan
      BY <1>4 DEF HandlerStep, preflightClears, preflightRefuses, preflightFails,
         persistEffectBoundary, createRefund, callRefused, callTimesOut, Answered, Record, Recorded,
         recordTerminalWithoutEffect, recordIdentifiedRefund, recordRetryableAttemptFailure,
         recordAmbiguousAttemptFailure, recordTerminalAttemptWithoutEffect
    <2> QED BY <1>1, <1>4, <2>1, HandlerStepKept
  <1>5. ASSUME NEW h \in Handlers, NEW r \in Requests, loadRefundExecution(h, r)
        PROVE  HandKept /\ scan' \in ScanType
    BY <1>1, <1>5, LoadKept DEF loadRefundExecution
  <1>6. ASSUME NEW h \in Handlers, Crash(h) PROVE HandKept /\ scan' \in ScanType
    <2>1. Throws \in SUBSET {"none", "created"} /\ JobEnds(h, Throws) /\ UNCHANGED scan
      BY <1>6 DEF Crash, Throws
    <2> QED BY <1>1, <2>1, JobEndsKept
  <1>7. ASSUME NEW h \in Handlers, Expire(h) PROVE HandKept /\ scan' \in ScanType
    <2>1. UNCHANGED scan
      BY <1>7 DEF Expire
    <2> QED BY <1>1, <1>7, <2>1, ExpireKept
  <1>8. ASSUME NEW r \in Requests, recoverExecution(r) PROVE HandKept /\ scan' \in ScanType
    <2>1. UNCHANGED <<hand, scan>> /\ job' \in [Requests -> {"none", "created", "active"}]
      BY <1>1, <1>8 DEF recoverExecution
    <2> QED BY <1>1, <2>1, HandlersUnchanged DEF HandKept
  <1>9. CASE ScanStep
    <2>1. UNCHANGED <<job, hand>>
      BY <1>9 DEF ScanStep, scanBegins, scanObserves, scanObservesExternal, scanFails,
         commitReconciliationCheckpoint
    <2> QED BY <1>1, <1>9, <2>1, ScanStepKept, HandlersUnchanged DEF HandKept
  <1>10. ASSUME NEW r \in Requests,
                Age(r) \/ \E i \in 1..MaxMoves : webhookRefund(r, i) \/ observeLinkedRefund(r, i)
         PROVE  HandKept /\ scan' \in ScanType
    BY <1>2, <1>10 DEF Age, webhookRefund, observeLinkedRefund
  <1>11. ASSUME NEW p \in Payments, webhookExternalRefund(p) PROVE HandKept /\ scan' \in ScanType
    BY <1>2, <1>11 DEF webhookExternalRefund
  <1> QED BY <1>3, <1>4, <1>5, <1>6, <1>7, <1>8, <1>9, <1>10, <1>11 DEF Next

-------------------------------------------------------------------------------
(* Candidates, alerts, receipts and the tenant.                              *)
CandidateType == [known: BOOLEAN, scanned: BOOLEAN, exact: BOOLEAN, status: RefundStatus,
                  at: Nat, event: Nat]

LEMMA CandidateKept ==
  ASSUME TypeOK, NEW r \in Requests, NEW st \in RefundStatus, NEW at \in Nat, NEW ev \in Nat,
         NEW exact \in BOOLEAN, NEW scanned \in BOOLEAN,
         recordRefundCorrelationCandidate(r, st, at, ev, exact, scanned)
  PROVE  cand' \in [Requests -> CandidateType]
  <1>1. cand \in [Requests -> CandidateType]
    BY DEF TypeOK, DeskTypeOK, CandidateType
  <1>2. PICK v \in CandidateType : cand' = [cand EXCEPT ![r] = v]
    BY <1>1 DEF recordRefundCorrelationCandidate, CandidateType
  <1> QED BY <1>1, <1>2

LEMMA HistoryType ==
  ASSUME TypeOK, NEW r \in Requests, NEW i \in DOMAIN stripe[r]
  PROVE  stripe[r][i] \in RefundStatus /\ i \in Nat
  BY DEF TypeOK, StripeTypeOK

LEMMA DeskTypeKept ==
  ASSUME TypeOK, Next
  PROVE  DeskTypeOK'
  <1>1. cand \in [Requests -> CandidateType]
    BY DEF TypeOK, DeskTypeOK, CandidateType
  <1>2. CASE UNCHANGED <<cand, alert, tenantVars, aged, receipt>>
    BY <1>2 DEF TypeOK, DeskTypeOK, tenantVars
  <1>3. CASE PlatformStep
    BY <1>3 DEF TypeOK, DeskTypeOK, PlatformStep, createRequest, decideApprove, closeRequest,
       updateSettings, applyWebhookDeauthorization, provisionWebhookInstallation, tenantVars
  <1>4. CASE StripeStep
    BY <1>2, <1>4 DEF StripeStep, RefundMoves, StrayLands, StrayIsLost, ExternalRefund
  <1>5. ASSUME NEW h \in Handlers, HandlerStep(h) \/ Crash(h) \/ Expire(h) PROVE DeskTypeOK'
    BY <1>2, <1>5 DEF HandlerStep, preflightClears, preflightRefuses, preflightFails,
       persistEffectBoundary, createRefund, callRefused, callTimesOut, Answered, Record, Recorded,
       recordTerminalWithoutEffect, recordIdentifiedRefund, recordRetryableAttemptFailure,
       recordAmbiguousAttemptFailure, recordTerminalAttemptWithoutEffect, Crash, Expire
  <1>6. ASSUME NEW h \in Handlers, NEW r \in Requests, loadRefundExecution(h, r) PROVE DeskTypeOK'
    BY <1>6 DEF loadRefundExecution, TypeOK, DeskTypeOK, tenantVars
  <1>7. ASSUME NEW r \in Requests, recoverExecution(r) PROVE DeskTypeOK'
    BY <1>2, <1>7 DEF recoverExecution
  <1>8. CASE scanBegins \/ scanFails
    BY <1>2, <1>8 DEF scanBegins, scanFails
  <1>9. ASSUME NEW r \in Requests, scanObserves(r) PROVE DeskTypeOK'
    <2>1. PICK i \in DOMAIN stripe[r] :
            recordRefundCorrelationCandidate(r, stripe[r][i], 2 * scan.began[r] + 1, 0, FALSE, TRUE)
      BY <1>9 DEF scanObserves
    <2>2. 2 * scan.began[r] + 1 \in Nat
      BY DEF TypeOK, WorkerTypeOK
    <2>3. cand' \in [Requests -> CandidateType]
      BY <2>1, <2>2, HistoryType, CandidateKept
    <2> QED BY <1>9, <2>3 DEF scanObserves, TypeOK, DeskTypeOK, CandidateType, tenantVars
  <1>10. ASSUME NEW p \in Payments, scanObservesExternal(p) \/ webhookExternalRefund(p)
         PROVE  DeskTypeOK'
    BY <1>10 DEF scanObservesExternal, webhookExternalRefund, observeExternalRefund, TypeOK,
       DeskTypeOK, tenantVars
  <1>11. CASE commitReconciliationCheckpoint
    BY <1>11 DEF commitReconciliationCheckpoint, TypeOK, DeskTypeOK, tenantVars
  <1>12. ASSUME NEW r \in Requests, NEW i \in 1..MaxMoves, webhookRefund(r, i) PROVE DeskTypeOK'
    <2>1. i \in DOMAIN stripe[r]
          /\ recordRefundCorrelationCandidate(r, stripe[r][i], 2 * i, i, i = 1, FALSE)
      BY <1>12 DEF webhookRefund
    <2>2. stripe[r][i] \in RefundStatus /\ i \in Nat /\ 2 * i \in Nat
      BY <2>1, HistoryType
    <2>3. cand' \in [Requests -> CandidateType]
      BY <2>1, <2>2, CandidateKept
    <2>4. receipt' \in [Requests -> SUBSET Nat]
      BY <1>12, <2>2 DEF webhookRefund, TypeOK, DeskTypeOK
    <2> QED BY <1>12, <2>3, <2>4 DEF webhookRefund, TypeOK, DeskTypeOK, CandidateType, tenantVars
  <1>13. ASSUME NEW r \in Requests, NEW i \in 1..MaxMoves, observeLinkedRefund(r, i)
         PROVE  DeskTypeOK'
    BY <1>2, <1>13 DEF observeLinkedRefund
  <1>14. ASSUME NEW r \in Requests, Age(r) PROVE DeskTypeOK'
    BY <1>14 DEF Age, TypeOK, DeskTypeOK, tenantVars
  <1> QED BY <1>3, <1>4, <1>5, <1>6, <1>7, <1>8, <1>9, <1>10, <1>11, <1>12, <1>13, <1>14
          DEF Next, ScanStep

-------------------------------------------------------------------------------
(* The rows.  All actions keep all rows, but three.                          *)
RowsKept ==
  /\ row' \in [Requests -> Row(Requests)]
  /\ \A r \in Requests : Kept(row[r], row'[r])

LEMMA RowChanged ==
  ASSUME TypeOK, RowsCoherent, NEW r \in Requests, NEW w, Kept(row[r], w),
         row' = [row EXCEPT ![r] = w]
  PROVE  RowsKept
  <1>1. w \in Row(Requests)
    BY DEF Kept
  <1>2. row \in [Requests -> Row(Requests)]
    BY DEF TypeOK
  <1>3. \A q \in Requests : Kept(row[q], row[q])
    BY <1>2, KeptItself DEF RowsCoherent
  <1> QED BY <1>1, <1>2, <1>3 DEF RowsKept

LEMMA RowsUnchanged ==
  ASSUME TypeOK, RowsCoherent, UNCHANGED row
  PROVE  RowsKept
  BY KeptItself DEF RowsKept, TypeOK, RowsCoherent

LEMMA PlatformRowsKept ==
  ASSUME TypeOK, RowsCoherent, NEW r \in Requests,
         decideApprove(r) \/ \E s \in {"rejected", "canceled", "expired"} : closeRequest(r, s)
  PROVE  RowsKept
  <1> DEFINE v == row[r]
  <1>1. v \in Row(Requests) /\ Coherent(v) /\ v.effect \in EffectState
    BY DEF TypeOK, RowsCoherent, Row
  <1>2. /\ "approved" \in WorkflowStatus /\ "pending_approval" \in ProtectedStatus
        /\ {"rejected", "canceled", "expired"} \subseteq TerminalStatus
        /\ "not_started" \in EffectState
    BY DEF WorkflowStatus, ProtectedStatus, TerminalStatus, EffectState
  <1>3. CASE decideApprove(r)
    <2>1. v.status = "pending_approval" /\ row' = [row EXCEPT ![r] = Move(v, "approved", v.effect)]
      BY <1>3 DEF decideApprove, CanDecide, approve
    <2>2. v.effect = "not_started"
      BY <1>1, <2>1 DEF Coherent
    <2>3. Kept(v, Move(v, "approved", v.effect))
      BY <1>1, <1>2, <2>1, <2>2, KeptMove
    <2> QED BY <2>1, <2>3, RowChanged
  <1>4. ASSUME NEW s \in {"rejected", "canceled", "expired"}, closeRequest(r, s)
        PROVE  RowsKept
    <2>1. row' = [row EXCEPT ![r] = Terminate(v, s, "not_started")]
      BY <1>4 DEF closeRequest, closePending
    <2>2. Kept(v, Terminate(v, s, "not_started"))
      BY <1>1, <1>2, KeptTerminate
    <2> QED BY <2>1, <2>2, RowChanged
  <1> QED BY <1>3, <1>4

(* A row that goes to reconciliation under a condition, or stays.            *)
LEMMA DivertedKept ==
  ASSUME TypeOK, RowsCoherent, NEW r \in Requests, NEW c \in BOOLEAN,
         c => CanMarkReconciliation(row[r]),
         row' = [row EXCEPT ![r] = IF c THEN markReconciliationRequired(@) ELSE @]
  PROVE  RowsKept
  <1>1. row[r] \in Row(Requests) /\ Coherent(row[r])
    BY DEF TypeOK, RowsCoherent
  <1>2. CASE c
    <2>1. Kept(row[r], markReconciliationRequired(row[r]))
      BY <1>1, <1>2, KeptReconciliation DEF CanMarkReconciliation
    <2> QED BY <1>2, <2>1, RowChanged
  <1>3. CASE ~c
    <2>1. UNCHANGED row
      BY <1>3 DEF TypeOK
    <2> QED BY <2>1, RowsUnchanged
  <1> QED BY <1>2, <1>3

LEMMA LoadRowsKept ==
  ASSUME TypeOK, RowsCoherent, NEW h \in Handlers, NEW r \in Requests, loadRefundExecution(h, r)
  PROVE  RowsKept
  <1> DEFINE v == row[r]
  <1>1. v \in Row(Requests) /\ Coherent(v)
    BY DEF TypeOK, RowsCoherent
  <1>2. CASE Loadable(r) /\ CanClaim(v)
    <2>1. row' = [row EXCEPT ![r] = Move(v, "executing", "not_started")] /\ v.status = "approved"
      BY <1>2 DEF loadRefundExecution, claimExecution, CanClaim
    <2>2. "executing" \in WorkflowStatus /\ "not_started" \in EffectState
          /\ "approved" \in ProtectedStatus
      BY DEF WorkflowStatus, EffectState, ProtectedStatus
    <2>3. Kept(v, Move(v, "executing", "not_started"))
      BY <1>1, <2>1, <2>2, KeptMove
    <2> QED BY <2>1, <2>3, RowChanged
  <1>3. CASE Loadable(r) /\ ~CanClaim(v)
    <2>1. UNCHANGED row
      BY <1>3 DEF loadRefundExecution, TypeOK
    <2> QED BY <2>1, RowsUnchanged
  <1>4. CASE ~Loadable(r)
    <2> DEFINE c == active /\ CanMarkReconciliation(v) /\ v.effect = "possible"
    <2>1. row' = [row EXCEPT ![r] = IF c THEN markReconciliationRequired(@) ELSE @]
      BY <1>4 DEF loadRefundExecution
    <2>2. c \in BOOLEAN /\ (c => CanMarkReconciliation(v))
      BY DEF TypeOK, DeskTypeOK, CanMarkReconciliation
    <2> HIDE DEF c
    <2> QED BY <2>1, <2>2, DivertedKept
  <1> QED BY <1>2, <1>3, <1>4

LEMMA RecoverRowsKept ==
  ASSUME TypeOK, RowsCoherent, NEW r \in Requests, recoverExecution(r)
  PROVE  RowsKept
  <1>1. CASE UNCHANGED row
    BY <1>1, RowsUnchanged
  <1>2. CASE row' = [row EXCEPT ![r] =
                      IF CanMarkReconciliation(@) THEN markReconciliationRequired(@) ELSE @]
    <2> DEFINE c == CanMarkReconciliation(row[r])
    <2>1. row' = [row EXCEPT ![r] = IF c THEN markReconciliationRequired(@) ELSE @]
      BY <1>2
    <2>2. c \in BOOLEAN /\ (c => CanMarkReconciliation(row[r]))
      BY DEF CanMarkReconciliation
    <2> HIDE DEF c
    <2> QED BY <2>1, <2>2, DivertedKept
  <1> QED BY <1>1, <1>2 DEF recoverExecution

LEMMA RecordRowsKept ==
  ASSUME TypeOK, RowsCoherent, HandlersBound, NEW h \in Handlers, Record(h)
  PROVE  RowsKept
  <1> DEFINE r == hand[h].req
             n == hand[h].attempt
             v == row[r]
  <1>1. r \in Requests
    BY DEF HandlersBound, Record, Recorded, recordTerminalWithoutEffect, recordIdentifiedRefund,
       recordRetryableAttemptFailure, recordAmbiguousAttemptFailure,
       recordTerminalAttemptWithoutEffect
  <1>2. v \in Row(Requests) /\ Coherent(v) /\ n \in Nat
    BY <1>1 DEF TypeOK, WorkerTypeOK, RowsCoherent
  <1>3. /\ {"completed", "retryable_failure", "ambiguous_failure", "terminal_failure"}
             \subseteq AttemptState
        /\ "executing" \in WorkflowStatus \cap ProtectedStatus
        /\ "absence_proven" \in EffectState /\ "failed_terminal" \in TerminalStatus
    BY DEF AttemptState, WorkflowStatus, ProtectedStatus, EffectState, TerminalStatus
  <1>4. CASE UNCHANGED row
    BY <1>4, RowsUnchanged
  <1>5. CASE row' = [row EXCEPT ![r] = markTerminalFailureAfterAbsence(v)]
    <2>1. Kept(v, markTerminalFailureAfterAbsence(v))
      BY <1>2, <1>3, KeptTerminate DEF markTerminalFailureAfterAbsence
    <2> QED BY <1>1, <1>5, <2>1, RowChanged
  <1>6. ASSUME NEW w, Kept(v, w), NEW a \in AttemptState, CanFinishAttempt(v, n),
               row' = [row EXCEPT ![r] = finishExecutionAttempt(w, n, a)]
        PROVE  RowsKept
    <2>1. w \in Row(Requests)
      BY <1>6 DEF Kept
    <2>2. Kept(v, finishExecutionAttempt(w, n, a))
      BY <1>2, <1>6, <2>1, KeptFinish
    <2> QED BY <1>1, <1>6, <2>2, RowChanged
  <1>7. CASE recordIdentifiedRefund(h)
    <2>1. CASE ~UNCHANGED row
      <3>1. PICK st \in RefundStatus :
              /\ CanFinishAttempt(v, n)
              /\ row' = [row EXCEPT ![r] = finishExecutionAttempt(
                           markRefundIdentified(v, r, st, 0, "preserve"), n, "completed")]
        BY <1>7, <2>1 DEF recordIdentifiedRefund, Recorded
      <3>2. Kept(v, markRefundIdentified(v, r, st, 0, "preserve"))
        BY <1>1, <1>2, KeptIdentified
      <3> QED BY <1>3, <1>6, <3>1, <3>2
    <2> QED BY <1>4, <2>1
  <1>8. CASE recordRetryableAttemptFailure(h)
    <2>1. CASE ~UNCHANGED row
      <3> DEFINE w == markCertainAbsenceWhileExecuting(v)
      <3>1. /\ CanFinishAttempt(v, n) /\ v.status = "executing"
            /\ row' = [row EXCEPT ![r] = finishExecutionAttempt(w, n, "retryable_failure")]
        BY <1>8, <2>1 DEF recordRetryableAttemptFailure, Recorded, CanMarkCertainAbsence
      <3>2. Kept(v, w)
        BY <1>2, <1>3, <3>1, KeptMove DEF markCertainAbsenceWhileExecuting
      <3> QED BY <1>3, <1>6, <3>1, <3>2
    <2> QED BY <1>4, <2>1
  <1>9. CASE recordAmbiguousAttemptFailure(h)
    <2>1. CASE ~UNCHANGED row
      <3> DEFINE w == markReconciliationRequired(v)
      <3>1. /\ CanFinishAttempt(v, n) /\ v.status = "executing"
            /\ row' = [row EXCEPT ![r] = finishExecutionAttempt(w, n, "ambiguous_failure")]
        BY <1>9, <2>1 DEF recordAmbiguousAttemptFailure, Recorded, CanMarkReconciliation
      <3>2. Kept(v, w)
        BY <1>2, <3>1, KeptReconciliation
      <3> QED BY <1>3, <1>6, <3>1, <3>2
    <2> QED BY <1>4, <2>1
  <1>10. CASE recordTerminalAttemptWithoutEffect(h)
    <2>1. CASE ~UNCHANGED row
      <3> DEFINE u == markCertainAbsenceWhileExecuting(v)
                 w == markTerminalFailureAfterAbsence(u)
      <3>1. /\ CanFinishAttempt(v, n) /\ v.status = "executing"
            /\ row' = [row EXCEPT ![r] = finishExecutionAttempt(w, n, "terminal_failure")]
        BY <1>10, <2>1 DEF recordTerminalAttemptWithoutEffect, Recorded, CanMarkCertainAbsence
      <3>2. Kept(v, u)
        BY <1>2, <1>3, <3>1, KeptMove DEF markCertainAbsenceWhileExecuting
      <3>3. Kept(u, w)
        <4>1. u \in Row(Requests) /\ Coherent(u)
          BY <3>2 DEF Kept
        <4> QED BY <1>3, <4>1, KeptTerminate DEF markTerminalFailureAfterAbsence
      <3>4. Kept(v, w)
        BY <3>2, <3>3, KeptTransitive
      <3> QED BY <1>3, <1>6, <3>1, <3>4
    <2> QED BY <1>4, <2>1
  <1>11. CASE recordTerminalWithoutEffect(h)
    BY <1>4, <1>5, <1>11 DEF recordTerminalWithoutEffect
  <1> QED BY <1>7, <1>8, <1>9, <1>10, <1>11 DEF Record

LEMMA ObservedRowsKept ==
  ASSUME TypeOK, RowsCoherent, NEW r \in Requests, NEW st \in RefundStatus, NEW ev \in Nat,
         NEW exact \in BOOLEAN, observeUnlinked(r, st, ev, exact) \/ observeLinked(r, st, ev)
  PROVE  RowsKept
  <1> DEFINE v == row[r]
  <1>1. v \in Row(Requests) /\ Coherent(v)
    BY DEF TypeOK, RowsCoherent
  <1>2. /\ Kept(v, v) /\ Kept(v, toReconciliation(v))
        /\ Kept(v, markRefundIdentified(v, r, st, ev, "preserve"))
    BY <1>1, KeptItself, KeptToReconciliation, KeptIdentified
  <1>3. CASE observeUnlinked(r, st, ev, exact)
    <2>1. \/ row' = [row EXCEPT ![r] = v]
          \/ row' = [row EXCEPT ![r] = toReconciliation(v)]
          \/ row' = [row EXCEPT ![r] = markRefundIdentified(v, r, st, ev, "preserve")]
      BY <1>3 DEF observeUnlinked
    <2> QED BY <1>2, <2>1, RowChanged
  <1>4. CASE observeLinked(r, st, ev)
    <2>1. \/ UNCHANGED row
          \/ row' = [row EXCEPT ![r] = markRefundIdentified(v, r, st, ev, "preserve")]
      BY <1>4 DEF observeLinked
    <2> QED BY <1>2, <2>1, RowChanged, RowsUnchanged
  <1> QED BY <1>3, <1>4

LEMMA SettledRowsKept ==
  ASSUME TypeOK, RowsCoherent, NEW S \in SUBSET Requests,
         row' = [r \in Requests |-> IF r \in S THEN settle(row[r]) ELSE row[r]]
  PROVE  RowsKept /\ \A r \in S : row'[r].status \notin ProtectedStatus
  <1>1. \A r \in Requests : row[r] \in Row(Requests) /\ Coherent(row[r])
    BY DEF TypeOK, RowsCoherent
  <1>2. \A r \in Requests :
          /\ Kept(row[r], settle(row[r])) /\ settle(row[r]).status \notin ProtectedStatus
          /\ Kept(row[r], row[r])
    BY <1>1, KeptSettle, KeptItself
  <1>3. \A r \in Requests : Kept(row[r], row'[r]) /\ row'[r] \in Row(Requests)
    BY <1>2 DEF Kept
  <1> QED BY <1>2, <1>3 DEF RowsKept

-------------------------------------------------------------------------------
(* RowsSafe: what a step that inserts no request and begins no attempt does. *)
(* A request becomes protected again only on a payment without alert.        *)
RowsSafe ==
  /\ row' \in [Requests -> Row(Requests)]
  /\ \A r \in Requests :
       /\ Coherent(row'[r])
       /\ row[r].released => row'[r].released
       /\ Len(row'[r].attempts) = Len(row[r].attempts)
       /\ row'[r].status \in ProtectedStatus =>
            row[r].status \in ProtectedStatus \/ PaymentOf[r] \notin alert

LEMMA KeptIsSafe ==
  ASSUME RowsKept
  PROVE  RowsSafe
  BY DEF RowsKept, RowsSafe, Kept

LEMMA ResumedRow ==
  ASSUME NEW v \in Row(Requests), Coherent(v), CanMarkAbsenceProven(v)
  PROVE  LET w == resumeExecutionAfterAbsence(markAbsenceProven(v))
         IN  /\ w \in Row(Requests) /\ Coherent(w)
             /\ w.released = v.released
             /\ Len(w.attempts) = Len(v.attempts)
  <1> DEFINE u == Move(v, "reconciliation_required", "absence_proven")
             w == Move(u, "executing", "absence_proven")
  <1>1. /\ {"reconciliation_required", "executing"} \subseteq WorkflowStatus
        /\ "absence_proven" \in EffectState
    BY DEF WorkflowStatus, EffectState
  <1>2. /\ u \in Row(Requests) /\ u.released = v.released /\ u.attempts = v.attempts
    BY <1>1, MoveType
  <1>3. /\ w \in Row(Requests) /\ w.status = "executing"
        /\ w.released = u.released /\ w.attempts = u.attempts
    BY <1>1, <1>2, MoveType
  <1>4. ~v.released
    BY DEF CanMarkAbsenceProven, Coherent
  <1>5. Coherent(w)
    BY <1>2, <1>3, <1>4 DEF Coherent
  <1>6. resumeExecutionAfterAbsence(markAbsenceProven(v)) = w
    BY DEF resumeExecutionAfterAbsence, markAbsenceProven, CanMarkAbsenceProven
  <1> HIDE DEF u, w
  <1> QED BY <1>2, <1>3, <1>5, <1>6

LEMMA CommitRowsSafe ==
  ASSUME TypeOK, RowsCoherent, commitReconciliationCheckpoint
  PROVE  RowsSafe
  <1>1. row' = [r \in Requests |-> resolveUniqueRefundCandidate(r)]
    BY DEF commitReconciliationCheckpoint
  <1>2. ASSUME NEW r \in Requests
        PROVE  LET v == row[r]
                   w == resolveUniqueRefundCandidate(r)
               IN  /\ w \in Row(Requests) /\ Coherent(w)
                   /\ v.released => w.released
                   /\ Len(w.attempts) = Len(v.attempts)
                   /\ w.status \in ProtectedStatus =>
                        v.status \in ProtectedStatus \/ PaymentOf[r] \notin alert
    <2> DEFINE v == row[r]
               w == resolveUniqueRefundCandidate(r)
    <2>1. v \in Row(Requests) /\ Coherent(v)
      BY DEF TypeOK, RowsCoherent
    <2>2. CASE ResumesAfterAbsence(r)
      <3>1. CanMarkAbsenceProven(v) /\ PaymentOf[r] \notin alert
        BY <2>2 DEF commitReconciliationCheckpoint, CandidatePasses, ResumesAfterAbsence
      <3>2. w = resumeExecutionAfterAbsence(markAbsenceProven(v))
        BY <2>2 DEF resolveUniqueRefundCandidate
      <3> QED BY <2>1, <3>1, <3>2, ResumedRow
    <2>3. CASE ~ResumesAfterAbsence(r)
      <3>1. cand[r].status \in RefundStatus /\ cand[r].event \in Nat
        BY DEF TypeOK, DeskTypeOK
      <3>2. \/ w = markRefundIdentified(v, r, cand[r].status, cand[r].event, Resolution(r))
            \/ w = toReconciliation(v)
            \/ w = v
        BY <2>3 DEF resolveUniqueRefundCandidate
      <3>3. Kept(v, w)
        BY <2>1, <3>1, <3>2, KeptIdentified, KeptToReconciliation, KeptItself
      <3> QED BY <3>3 DEF Kept
    <2> QED BY <2>2, <2>3
  <1> QED BY <1>1, <1>2 DEF RowsSafe

(* Every step of Next is of one of four kinds.                               *)
Inserted(r) == createRequest(r)

Begun(h) == persistEffectBoundary(h) /\ Executable(hand[h].req)

Protected(p) ==
  /\ alert' = alert \cup {p}
  /\ RowsKept
  /\ \A r \in Requests : PaymentOf[r] = p => row'[r].status \notin ProtectedStatus

LEMMA ExternalKept ==
  ASSUME TypeOK, RowsCoherent, NEW p \in Payments, observeExternalRefund(p)
  PROVE  Protected(p)
  <1> DEFINE S == {r \in Requests : PaymentOf[r] = p}
  <1>1. row' = [r \in Requests |-> IF r \in S THEN settle(row[r]) ELSE row[r]]
    BY DEF observeExternalRefund
  <1>2. RowsKept /\ \A r \in S : row'[r].status \notin ProtectedStatus
    <2> HIDE DEF S
    <2>1. S \in SUBSET Requests
      BY DEF S
    <2> QED BY <1>1, <2>1, SettledRowsKept
  <1> QED BY <1>2 DEF Protected, observeExternalRefund

LEMMA StepKinds ==
  ASSUME TypeOK, RowsCoherent, HandlersBound, Next
  PROVE  \/ RowsSafe /\ alert' = alert
         \/ \E r \in Requests : Inserted(r)
         \/ \E h \in Handlers : Begun(h)
         \/ \E p \in Payments : Protected(p)
  <1> DEFINE Safe == RowsSafe /\ alert' = alert
  <1>1. ASSUME UNCHANGED <<row, alert>> PROVE Safe
    BY <1>1, RowsUnchanged, KeptIsSafe
  <1>2. CASE PlatformStep
    <2>1. ASSUME NEW r \in Requests,
                 \/ decideApprove(r)
                 \/ \E s \in {"rejected", "canceled", "expired"} : closeRequest(r, s)
          PROVE  Safe
      <3>1. RowsKept
        BY <2>1, PlatformRowsKept
      <3>2. alert' = alert
        BY <2>1 DEF decideApprove, closeRequest
      <3> QED BY <3>1, <3>2, KeptIsSafe
    <2>2. CASE applyWebhookDeauthorization
      <3>1. Requests \in SUBSET Requests
            /\ row' = [r \in Requests |-> IF r \in Requests THEN settle(row[r]) ELSE row[r]]
            /\ alert' = alert
        BY <2>2 DEF applyWebhookDeauthorization
      <3> QED BY <3>1, SettledRowsKept, KeptIsSafe
    <2> QED BY <1>1, <1>2, <2>1, <2>2
            DEF PlatformStep, updateSettings, provisionWebhookInstallation, Inserted
  <1>3. CASE StripeStep
    BY <1>1, <1>3 DEF StripeStep, RefundMoves, StrayLands, StrayIsLost, ExternalRefund
  <1>4. ASSUME NEW h \in Handlers, HandlerStep(h) PROVE Safe \/ Begun(h)
    <2>1. CASE Record(h)
      <3>1. alert' = alert
        BY <2>1 DEF Record, Recorded, recordTerminalWithoutEffect, recordIdentifiedRefund,
           recordRetryableAttemptFailure, recordAmbiguousAttemptFailure,
           recordTerminalAttemptWithoutEffect
      <3> QED BY <2>1, <3>1, RecordRowsKept, KeptIsSafe
    <2>2. CASE persistEffectBoundary(h) /\ ~Executable(hand[h].req)
      <3> DEFINE r == hand[h].req
                 c == active /\ CanMarkReconciliation(row[r]) /\ row[r].effect = "possible"
      <3>1. r \in Requests
        BY <2>2 DEF persistEffectBoundary, HandlersBound
      <3>2. row' = [row EXCEPT ![r] = IF c THEN markReconciliationRequired(@) ELSE @]
            /\ alert' = alert
        BY <2>2 DEF persistEffectBoundary
      <3>3. c \in BOOLEAN /\ (c => CanMarkReconciliation(row[r]))
        BY DEF TypeOK, DeskTypeOK, CanMarkReconciliation
      <3> HIDE DEF c, r
      <3> QED BY <3>1, <3>2, <3>3, DivertedKept, KeptIsSafe
    <2>3. CASE \/ preflightClears(h) \/ preflightRefuses(h) \/ preflightFails(h)
               \/ createRefund(h) \/ callTimesOut(h)
               \/ \E a \in {"retryable", "terminal"} : callRefused(h, a)
      BY <1>1, <2>3 DEF preflightClears, preflightRefuses, preflightFails, createRefund,
         callTimesOut, callRefused, Answered
    <2> QED BY <1>4, <2>1, <2>2, <2>3 DEF HandlerStep, Begun
  <1>5. ASSUME NEW h \in Handlers, NEW r \in Requests, loadRefundExecution(h, r) PROVE Safe
    <2>1. alert' = alert
      BY <1>5 DEF loadRefundExecution
    <2> QED BY <1>5, <2>1, LoadRowsKept, KeptIsSafe
  <1>6. ASSUME NEW h \in Handlers, Crash(h) \/ Expire(h) PROVE Safe
    BY <1>1, <1>6 DEF Crash, Expire
  <1>7. ASSUME NEW r \in Requests, recoverExecution(r) PROVE Safe
    <2>1. alert' = alert
      BY <1>7 DEF recoverExecution
    <2> QED BY <1>7, <2>1, RecoverRowsKept, KeptIsSafe
  <1>8. ASSUME NEW p \in Payments, scanObservesExternal(p) \/ webhookExternalRefund(p)
        PROVE  Protected(p)
    BY <1>8, ExternalKept DEF scanObservesExternal, webhookExternalRefund
  <1>9. ASSUME NEW r \in Requests, scanObserves(r) PROVE Safe
    <2>1. PICK i \in DOMAIN stripe[r] :
            observeUnlinked(r, stripe[r][i], 0, FALSE) \/ observeLinked(r, stripe[r][i], 0)
      BY <1>9 DEF scanObserves
    <2>2. alert' = alert
      BY <1>9 DEF scanObserves
    <2> QED BY <2>1, <2>2, HistoryType, ObservedRowsKept, KeptIsSafe
  <1>10. ASSUME NEW r \in Requests, NEW i \in 1..MaxMoves, webhookRefund(r, i) PROVE Safe
    <2>1. /\ i \in DOMAIN stripe[r] /\ alert' = alert
          /\ observeUnlinked(r, stripe[r][i], i, i = 1) \/ observeLinked(r, stripe[r][i], i)
      BY <1>10 DEF webhookRefund
    <2> QED BY <2>1, HistoryType, ObservedRowsKept, KeptIsSafe
  <1>11. ASSUME NEW r \in Requests, NEW i \in 1..MaxMoves, observeLinkedRefund(r, i) PROVE Safe
    <2>1. PICK res : row' = [row EXCEPT ![r] = markRefundIdentified(row[r], r, stripe[r][i], 0, res)]
      BY <1>11 DEF observeLinkedRefund
    <2>2. i \in DOMAIN stripe[r] /\ alert' = alert
      BY <1>11 DEF observeLinkedRefund
    <2>3. row[r] \in Row(Requests) /\ Coherent(row[r]) /\ stripe[r][i] \in RefundStatus
      BY <2>2, HistoryType DEF TypeOK, RowsCoherent
    <2>4. Kept(row[r], markRefundIdentified(row[r], r, stripe[r][i], 0, res))
      BY <2>3, KeptIdentified
    <2> QED BY <2>1, <2>2, <2>4, RowChanged, KeptIsSafe
  <1>12. CASE commitReconciliationCheckpoint
    BY <1>12, CommitRowsSafe DEF commitReconciliationCheckpoint
  <1>13. CASE scanBegins \/ scanFails \/ \E r \in Requests : Age(r)
    BY <1>1, <1>13 DEF scanBegins, scanFails, Age
  <1> QED BY <1>2, <1>3, <1>4, <1>5, <1>6, <1>7, <1>8, <1>9, <1>10, <1>11, <1>12, <1>13
          DEF Next, ScanStep

-------------------------------------------------------------------------------
(* The safety conjuncts, by the kind of the step.                            *)
RowsInv ==
  /\ row \in [Requests -> Row(Requests)]
  /\ RowsCoherent /\ OneGuardPerPayment /\ AlertExcludesExecution

LEMMA SafeStep ==
  ASSUME RowsInv, RowsSafe, alert' = alert
  PROVE  RowsInv'
  BY DEF RowsInv, RowsSafe, RowsCoherent, OneGuardPerPayment, AlertExcludesExecution

LEMMA ProtectedStep ==
  ASSUME RowsInv, NEW p \in Payments, Protected(p)
  PROVE  RowsInv'
  <1>1. /\ row' \in [Requests -> Row(Requests)]
        /\ \A r \in Requests :
             /\ Coherent(row'[r])
             /\ row[r].released => row'[r].released
             /\ row'[r].status \in ProtectedStatus => row[r].status \in ProtectedStatus
    BY DEF Protected, RowsKept, Kept
  <1> QED BY <1>1 DEF RowsInv, RowsCoherent, OneGuardPerPayment, AlertExcludesExecution, Protected

LEMMA InsertedStep ==
  ASSUME RowsInv, NEW r \in Requests, Inserted(r)
  PROVE  /\ RowsInv'
         /\ \A q \in Requests : q # r => row'[q] = row[q]
         /\ Len(row'[r].attempts) = 0
  <1> DEFINE w == createRefundRequest
  <1>1. /\ w \in Row(Requests) /\ w.status = "pending_approval" /\ w.effect = "not_started"
        /\ w.released = FALSE /\ Len(w.attempts) = 0
    <2>1. /\ AbsentRow \in Row(Requests) /\ AbsentRow.effect = "not_started"
          /\ Len(AbsentRow.attempts) = 0
      BY DEF AbsentRow, Row, WorkflowStatus, EffectState, RefundStatus
    <2>2. "pending_approval" \in WorkflowStatus
      BY DEF WorkflowStatus
    <2> QED BY <2>1, <2>2 DEF createRefundRequest, Row
  <1>2. Coherent(w)
    BY <1>1 DEF Coherent
  <1>3. /\ row' = [row EXCEPT ![r] = w] /\ alert' = alert /\ PaymentOf[r] \notin alert
        /\ \A q \in Requests : PaymentOf[q] = PaymentOf[r] => row[q].released
    BY DEF Inserted, createRequest, OnPayment
  <1> HIDE DEF w
  <1>4. row' \in [Requests -> Row(Requests)] /\ RowsCoherent'
    BY <1>1, <1>2, <1>3 DEF RowsInv, RowsCoherent
  <1>5. OneGuardPerPayment'
    BY <1>3 DEF RowsInv, OneGuardPerPayment
  <1>6. AlertExcludesExecution'
    BY <1>3 DEF RowsInv, AlertExcludesExecution
  <1> QED BY <1>1, <1>3, <1>4, <1>5, <1>6 DEF RowsInv

LEMMA BegunStep ==
  ASSUME RowsInv, HandlersBound, NEW h \in Handlers, Begun(h)
  PROVE  /\ RowsInv'
         /\ \A q \in Requests : q # hand[h].req => row'[q] = row[q]
         /\ hand[h].req \in Requests
         /\ active /\ approver /\ PaymentOf[hand[h].req] \notin alert
  <1> DEFINE r == hand[h].req
             v == row[r]
             w == crossBoundary(v)
  <1>1. r \in Requests
    BY DEF Begun, persistEffectBoundary, HandlersBound
  <1>2. v \in Row(Requests) /\ v.status = "executing" /\ Coherent(v) /\ ~v.released
    BY <1>1 DEF RowsInv, RowsCoherent, Begun, Executable
  <1>3. "executing" \in WorkflowStatus \cap ProtectedStatus /\ "possible" \in EffectState
        /\ "started" \in AttemptState
    BY DEF WorkflowStatus, ProtectedStatus, EffectState, AttemptState
  <1>4. /\ w \in Row(Requests) /\ w.status = "executing" /\ w.released = v.released
    <2> DEFINE u == Move(v, "executing", "possible")
    <2>1. u \in Row(Requests) /\ u.status = "executing" /\ u.released = v.released
      BY <1>2, <1>3, MoveType
    <2>2. w = [u EXCEPT !.exec = TRUE, !.attempts = Append(u.attempts, "started")]
      BY DEF crossBoundary
    <2> HIDE DEF u
    <2>3. Append(u.attempts, "started") \in Seq(AttemptState)
      BY <1>3, <2>1 DEF Row
    <2> QED BY <2>1, <2>2, <2>3 DEF Row
  <1>5. Coherent(w)
    BY <1>2, <1>4 DEF Coherent
  <1>6. row' = [row EXCEPT ![r] = w] /\ alert' = alert /\ active /\ approver
    BY DEF Begun, persistEffectBoundary, Executable, AttestationValid
  <1> HIDE DEF w
  <1>7. row' \in [Requests -> Row(Requests)] /\ RowsCoherent'
    BY <1>1, <1>4, <1>5, <1>6 DEF RowsInv, RowsCoherent
  <1>8. \A q \in Requests : row'[q].released = row[q].released
                           /\ row'[q].status = row[q].status
    BY <1>1, <1>2, <1>4, <1>6 DEF RowsInv
  <1>9. OneGuardPerPayment' /\ AlertExcludesExecution'
    BY <1>6, <1>8 DEF RowsInv, OneGuardPerPayment, AlertExcludesExecution
  <1>10. PaymentOf[r] \notin alert
    BY <1>1, <1>2, <1>3 DEF RowsInv, AlertExcludesExecution
  <1>11. \A q \in Requests : q # r => row'[q] = row[q]
    BY <1>6 DEF RowsInv
  <1> QED BY <1>1, <1>6, <1>7, <1>9, <1>10, <1>11 DEF RowsInv

-------------------------------------------------------------------------------
LEMMA InitInv == Init => Inv
  <1> SUFFICES ASSUME Init PROVE Inv
    OBVIOUS
  <1>1. AbsentRow \in Row(Requests) /\ Coherent(AbsentRow)
        /\ AbsentRow.released = TRUE /\ AbsentRow.status \notin ProtectedStatus
    BY DEF AbsentRow, Row, Coherent, WorkflowStatus, EffectState, RefundStatus, ProtectedStatus
  <1>2. \A r \in Requests : row[r] = AbsentRow
    BY DEF Init
  <1>3. row \in [Requests -> Row(Requests)] /\ RowsCoherent
    BY <1>1, <1>2 DEF Init, RowsCoherent
  <1>4. OneGuardPerPayment /\ AlertExcludesExecution
    BY <1>1, <1>2 DEF OneGuardPerPayment, AlertExcludesExecution
  <1>5. DeskTypeOK
    BY DEF Init, DeskTypeOK, NoCandidate, RefundStatus
  <1>6. WorkerTypeOK
    BY IdleType DEF Init, WorkerTypeOK, NoScan, HandType
  <1>7. StripeTypeOK
    BY DEF Init, StripeTypeOK
  <1>8. HandlersBound
    BY IdleType DEF Init, HandlersBound, HandBound
  <1> QED BY <1>3, <1>4, <1>5, <1>6, <1>7, <1>8 DEF Inv, TypeOK

LEMMA NextInv == Inv /\ [Next]_vars => Inv'
  <1> SUFFICES ASSUME Inv, [Next]_vars PROVE Inv'
    OBVIOUS
  <1>1. TypeOK /\ RowsCoherent /\ HandlersBound /\ RowsInv
    BY DEF Inv, RowsInv, TypeOK
  <1>2. CASE Next
    <2>1. RowsInv'
      BY <1>1, <1>2, StepKinds, SafeStep, ProtectedStep, InsertedStep, BegunStep
    <2>2. StripeTypeOK' /\ DeskTypeOK'
      BY <1>1, <1>2, StripeTypeKept, DeskTypeKept
    <2>3. WorkerTypeOK' /\ HandlersBound'
      BY <1>1, <1>2, WorkerKept
         DEF HandKept, WorkerTypeOK, HandType, ScanType, HandBound, HandlersBound
    <2> QED BY <2>1, <2>2, <2>3 DEF Inv, RowsInv, TypeOK
  <1>3. CASE UNCHANGED vars
    BY <1>1, <1>3 DEF vars, Inv, TypeOK, DeskTypeOK, WorkerTypeOK, StripeTypeOK, RowsCoherent,
       HandlersBound, OneGuardPerPayment, AlertExcludesExecution
  <1> QED BY <1>2, <1>3

(* The inductive invariant holds in every reachable state.                   *)
THEOREM Invariance == Spec => []Inv
  BY InitInv, NextInv, PTL DEF Spec

(* Every variable keeps its type, whatever the tenant's requests, payments   *)
(* and handlers are.                                                         *)
THEOREM TypeCorrect == Spec => []TypeOK
  <1>1. Inv => TypeOK
    BY DEF Inv
  <1> QED BY <1>1, Invariance, PTL

(* No two requests guard the same payment: the check of createRefundRequest  *)
(* under the payment lock suffices, because no later update takes a guard    *)
(* back.                                                                     *)
THEOREM OneGuard == Spec => []OneGuardPerPayment
  <1>1. Inv => OneGuardPerPayment
    BY DEF Inv
  <1> QED BY <1>1, Invariance, PTL

(* A payment with an unresolved alert has no request that waits, is approved *)
(* or executes: the settlement stops what there is, and neither a new request*)
(* nor a resumption after a scan brings one back.                            *)
THEOREM AlertExcludes == Spec => []AlertExcludesExecution
  <1>1. Inv => AlertExcludesExecution
    BY DEF Inv
  <1> QED BY <1>1, Invariance, PTL

(* A new attempt begins only while the installation is active, the approver  *)
(* enabled and the payment without alert.                                    *)
THEOREM BoundaryAuthorized == Spec => BoundaryIsAuthorized
  <1> DEFINE A == \A r \in Requests :
                    Len(row'[r].attempts) > Len(row[r].attempts) =>
                      active /\ approver /\ PaymentOf[r] \notin alert
  <1>1. ASSUME Inv, Next PROVE A
    <2>1. TypeOK /\ RowsCoherent /\ HandlersBound /\ RowsInv
      BY <1>1 DEF Inv, RowsInv, TypeOK
    <2>2. \A r \in Requests : Len(row[r].attempts) \in Nat
      <3>1. \A r \in Requests : row[r].attempts \in Seq(AttemptState)
        BY <2>1 DEF TypeOK, Row
      <3> QED BY <3>1
    <2>3. CASE RowsSafe
      BY <2>2, <2>3 DEF RowsSafe
    <2>4. ASSUME NEW r \in Requests, Inserted(r) PROVE A
      BY <2>1, <2>2, <2>4, InsertedStep
    <2>5. ASSUME NEW h \in Handlers, Begun(h) PROVE A
      BY <2>1, <2>2, <2>5, BegunStep
    <2>6. ASSUME NEW p \in Payments, Protected(p) PROVE A
      BY <2>2, <2>6, KeptIsSafe DEF Protected, RowsSafe
    <2> QED BY <1>1, <2>1, <2>3, <2>4, <2>5, <2>6, StepKinds
  <1>2. Inv /\ [Next]_vars => [A]_vars
    BY <1>1
  <1> QED BY <1>2, Invariance, PTL DEF Spec, BoundaryIsAuthorized
===============================================================================

-------------------------- MODULE RefundRows_proofs ---------------------------
(***************************************************************************)
(* What a step of RefundExecution may do to one request, as a relation     *)
(* between the fields of the row before and after; from it the ledger of   *)
(* the attempts, the truth of a success and the refinement of              *)
(* RefundLifecycle, for every set of requests, payments and handlers,      *)
(* every bound and every choice of the environment.                        *)
(***************************************************************************)
EXTENDS RefundExecution_proofs, FiniteSetTheorems

(* The statuses Stripe has ever given the refund of r.                       *)
Seen(r) == {stripe[r][i] : i \in DOMAIN stripe[r]}

(* An attempt of v is finished in state a in w, or, for "none", none is.     *)
Finishes(v, w, a) ==
  IF a = "none" THEN w.attempts = v.attempts
  ELSE \E n \in Nat : CanFinishAttempt(v, n) /\ w.attempts = [v.attempts EXCEPT ![n] = a]

(* The compare-and-set updates by the status and the effect they take and    *)
(* leave, the updates of the row they make and the attempt they finish.      *)
MoveKind(s, e, s2, e2, k, a) ==
  \/ s = "pending_approval" /\ s2 = "approved" /\ e2 = e /\ k = 1 /\ a = "none"
  \/ s = "pending_approval" /\ s2 \in {"rejected", "canceled", "expired"}
       /\ e = "not_started" /\ e2 = "not_started" /\ k = 1 /\ a = "none"
  \/ s = "approved" /\ s2 = "executing"
       /\ e = "not_started" /\ e2 = "not_started" /\ k = 1 /\ a = "none"
  \/ s \in {"pending_approval", "approved"} /\ s2 = "stale"
       /\ e = "not_started" /\ e2 = "absence_proven" /\ k = 1 /\ a = "none"
  \/ s = "executing" /\ s2 = "reconciliation_required" /\ e2 = e /\ k = 1
       /\ a \in {"none", "ambiguous_failure"}
  \/ s = "executing" /\ s2 = "failed_terminal"
       /\ e \in {"not_started", "absence_proven"} /\ e2 = "absence_proven" /\ k = 1 /\ a = "none"
  \/ s = "executing" /\ s2 = "executing"
       /\ e = "possible" /\ e2 = "absence_proven" /\ k = 1 /\ a = "retryable_failure"
  \/ s = "executing" /\ s2 = "failed_terminal"
       /\ e = "possible" /\ e2 = "absence_proven" /\ k = 2 /\ a = "terminal_failure"
  \/ s = "reconciliation_required" /\ s2 = "executing"
       /\ e = "possible" /\ e2 = "absence_proven" /\ k = 2 /\ a = "none"

SameLink(v, w) ==
  w.exec = v.exec /\ w.link = v.link /\ w.refundStatus = v.refundStatus /\ w.lastEvent = v.lastEvent

(* A request moves on: its guard goes exactly when it becomes terminal.      *)
Moves(v, w) ==
  \E k \in {1, 2}, a \in AttemptState \cup {"none"} :
    /\ MoveKind(v.status, v.effect, w.status, w.effect, k, a)
    /\ w.released = IF w.status \in TerminalStatus THEN TRUE ELSE v.released
    /\ SameLink(v, w) /\ Finishes(v, w, a)
    /\ v.link = NoRefund => w.rev = v.rev + k

(* The boundary is crossed and an attempt begins.                            *)
Begins(v, w) ==
  /\ v.status = "executing" /\ v.effect \in {"not_started", "absence_proven"}
  /\ v.link = NoRefund /\ attestationCompatible(v)
  /\ w.status = "executing" /\ w.effect = "possible" /\ w.released = v.released
  /\ w.exec = TRUE /\ w.link = v.link /\ w.refundStatus = v.refundStatus /\ w.lastEvent = v.lastEvent
  /\ w.attempts = Append(v.attempts, "started") /\ w.rev = v.rev + 1

(* What an observation of status st makes of the request.                    *)
OutcomeKind(v, w, st) ==
  \/ /\ v.status \notin {"executing", "reconciliation_required"}
     /\ w.status = v.status /\ w.effect = v.effect /\ w.released = v.released
  \/ /\ v.status = "succeeded" /\ v.effect = "identified" /\ st \in {"failed", "canceled"}
     /\ w.status = "failed_terminal" /\ w.effect = "absence_proven" /\ w.released = v.released
  \/ /\ v.status = "reconciliation_required"
     /\ w.status = v.status /\ w.effect = "identified" /\ w.released = v.released
  \/ /\ v.status \in {"executing", "reconciliation_required"}
     /\ v.effect \in {"possible", "identified"}
     /\ \/ /\ w.status \in {v.status, "reconciliation_required"}
           /\ w.status = "executing" => st \in {"pending", "requires_action"}
           /\ w.effect = "identified" /\ w.released = v.released
        \/ /\ st = "succeeded"
           /\ w.status = "succeeded" /\ w.effect = "identified" /\ w.released = TRUE
        \/ /\ st \in {"failed", "canceled"}
           /\ w.status = "failed_terminal" /\ w.effect = "absence_proven" /\ w.released = TRUE

(* An observation of Stripe's is linked, or found to be older than what is   *)
(* known and dropped; the attempt that brought it is completed.              *)
Identifies(r, v, w, st, ev) ==
  /\ v.exec = TRUE /\ v.link \in {NoRefund, r} /\ w.exec = TRUE
  /\ Finishes(v, w, "none") \/ Finishes(v, w, "completed")
  /\ IF shouldApplyRefundObservation(v, st, ev)
     THEN /\ w.link = r /\ w.refundStatus = st
          /\ w.lastEvent = IF ev = 0 THEN v.lastEvent ELSE ev
          /\ OutcomeKind(v, w, st)
     ELSE /\ SameLink(v, w) /\ w.rev = v.rev
          /\ w.status = v.status /\ w.effect = v.effect /\ w.released = v.released

(* Everything a step does to a request.                                      *)
RowStep(r, v, w) ==
  \/ w = v
  \/ v.status = "absent" /\ w = createRefundRequest
  \/ Moves(v, w)
  \/ Begins(v, w)
  \/ HasRefund(r) /\ \E st \in Seen(r) \cup {"none"}, ev \in Nat : Identifies(r, v, w, st, ev)

-------------------------------------------------------------------------------
(* The updates of RequestRow, field by field.                                *)
LEMMA BumpFields ==
  ASSUME NEW v \in Row(Requests)
  PROVE  /\ Bump(v) \in Row(Requests)
         /\ Bump(v).released = v.released /\ Bump(v).attempts = v.attempts
         /\ Bump(v).status = v.status /\ Bump(v).effect = v.effect
         /\ SameLink(v, Bump(v))
         /\ v.link = NoRefund => Bump(v).rev = v.rev + 1
  BY DEF Bump, Row, SameLink

LEMMA MoveFields ==
  ASSUME NEW v \in Row(Requests), NEW s \in WorkflowStatus, NEW e \in EffectState
  PROVE  LET w == Move(v, s, e)
         IN  /\ w \in Row(Requests) /\ w.status = s /\ w.effect = e
             /\ w.released = v.released /\ w.attempts = v.attempts
             /\ SameLink(v, w)
             /\ v.link = NoRefund => w.rev = v.rev + 1
  <1> DEFINE b == Bump(v)
             w == Move(v, s, e)
  <1>1. /\ b \in Row(Requests) /\ b.released = v.released /\ b.attempts = v.attempts
        /\ b.exec = v.exec /\ b.link = v.link
        /\ b.refundStatus = v.refundStatus /\ b.lastEvent = v.lastEvent
        /\ v.link = NoRefund => b.rev = v.rev + 1
    BY BumpFields DEF SameLink
  <1>2. w = [b EXCEPT !.status = s, !.effect = e]
    BY DEF Move
  <1> HIDE DEF b, w
  <1>3. /\ w \in Row(Requests) /\ w.status = s /\ w.effect = e /\ w.rev = b.rev
        /\ w.released = b.released /\ w.attempts = b.attempts
        /\ w.exec = b.exec /\ w.link = b.link
        /\ w.refundStatus = b.refundStatus /\ w.lastEvent = b.lastEvent
    BY <1>1, <1>2 DEF Row
  <1>4. SameLink(v, w)
    BY <1>1, <1>3 DEF SameLink
  <1> QED BY <1>1, <1>3, <1>4 DEF w

LEMMA TerminateFields ==
  ASSUME NEW v \in Row(Requests), NEW s \in WorkflowStatus, NEW e \in EffectState
  PROVE  LET w == Terminate(v, s, e)
         IN  /\ w \in Row(Requests) /\ w.status = s /\ w.effect = e
             /\ w.released = TRUE /\ w.attempts = v.attempts
             /\ SameLink(v, w)
             /\ v.link = NoRefund => w.rev = v.rev + 1
  <1> DEFINE b == Move(v, s, e)
             w == Terminate(v, s, e)
  <1>1. /\ b \in Row(Requests) /\ b.status = s /\ b.effect = e /\ b.attempts = v.attempts
        /\ b.exec = v.exec /\ b.link = v.link
        /\ b.refundStatus = v.refundStatus /\ b.lastEvent = v.lastEvent
        /\ v.link = NoRefund => b.rev = v.rev + 1
    BY MoveFields DEF SameLink
  <1>2. w = [b EXCEPT !.released = TRUE]
    BY DEF Terminate
  <1> HIDE DEF b, w
  <1>3. /\ w \in Row(Requests) /\ w.status = b.status /\ w.effect = b.effect /\ w.rev = b.rev
        /\ w.released = TRUE /\ w.attempts = b.attempts
        /\ w.exec = b.exec /\ w.link = b.link
        /\ w.refundStatus = b.refundStatus /\ w.lastEvent = b.lastEvent
    BY <1>1, <1>2 DEF Row
  <1>4. SameLink(v, w)
    BY <1>1, <1>3 DEF SameLink
  <1> QED BY <1>1, <1>3, <1>4 DEF w

LEMMA FinishFields ==
  ASSUME NEW v \in Row(Requests), NEW w \in Row(Requests), w.attempts = v.attempts,
         NEW n \in Nat, CanFinishAttempt(v, n), NEW a \in AttemptState
  PROVE  LET u == finishExecutionAttempt(w, n, a)
         IN  /\ u \in Row(Requests) /\ u.status = w.status /\ u.effect = w.effect
             /\ u.released = w.released /\ u.rev = w.rev
             /\ SameLink(w, u) /\ Finishes(v, u, a)
  <1> DEFINE u == finishExecutionAttempt(w, n, a)
             seq == [w.attempts EXCEPT ![n] = a]
  <1>1. n \in 1..Len(w.attempts) /\ w.attempts \in Seq(AttemptState)
    BY DEF CanFinishAttempt, Row
  <1>2. seq \in Seq(AttemptState)
    BY <1>1
  <1>3. u = [w EXCEPT !.attempts = seq]
    BY DEF finishExecutionAttempt, Row
  <1>4. a # "none"
    BY DEF AttemptState
  <1> HIDE DEF u
  <1>5. seq = [v.attempts EXCEPT ![n] = a]
    OBVIOUS
  <1> HIDE DEF seq
  <1>6. /\ u \in Row(Requests) /\ u.status = w.status /\ u.effect = w.effect
        /\ u.released = w.released /\ u.rev = w.rev /\ u.attempts = seq
        /\ SameLink(w, u)
    BY <1>2, <1>3 DEF Row, SameLink
  <1>7. Finishes(v, u, a)
    BY <1>4, <1>5, <1>6 DEF Finishes
  <1> QED BY <1>6, <1>7 DEF u

LEMMA MoveMoves ==
  ASSUME NEW v \in Row(Requests), NEW s \in WorkflowStatus, NEW e \in EffectState,
         s \notin TerminalStatus, MoveKind(v.status, v.effect, s, e, 1, "none")
  PROVE  Moves(v, Move(v, s, e))
  <1> DEFINE w == Move(v, s, e)
  <1>1. /\ w.status = s /\ w.effect = e /\ w.released = v.released /\ w.attempts = v.attempts
        /\ SameLink(v, w) /\ (v.link = NoRefund => w.rev = v.rev + 1)
    BY MoveFields
  <1>2. Finishes(v, w, "none")
    BY <1>1 DEF Finishes
  <1>3. MoveKind(v.status, v.effect, w.status, w.effect, 1, "none")
    BY <1>1
  <1> HIDE DEF w
  <1>4. Moves(v, w)
    BY <1>1, <1>2, <1>3 DEF Moves
  <1> QED BY <1>4 DEF w

LEMMA TerminateMoves ==
  ASSUME NEW v \in Row(Requests), NEW s \in WorkflowStatus, NEW e \in EffectState,
         s \in TerminalStatus, MoveKind(v.status, v.effect, s, e, 1, "none")
  PROVE  Moves(v, Terminate(v, s, e))
  <1> DEFINE w == Terminate(v, s, e)
  <1>1. /\ w.status = s /\ w.effect = e /\ w.released = TRUE /\ w.attempts = v.attempts
        /\ SameLink(v, w) /\ (v.link = NoRefund => w.rev = v.rev + 1)
    BY TerminateFields
  <1>2. Finishes(v, w, "none")
    BY <1>1 DEF Finishes
  <1>3. MoveKind(v.status, v.effect, w.status, w.effect, 1, "none")
    BY <1>1
  <1> HIDE DEF w
  <1>4. Moves(v, w)
    BY <1>1, <1>2, <1>3 DEF Moves
  <1> QED BY <1>4 DEF w

LEMMA ReconciliationMoves ==
  ASSUME NEW v \in Row(Requests), Coherent(v), v.status = "executing"
  PROVE  Moves(v, markReconciliationRequired(v))
  <1>1. /\ "reconciliation_required" \in WorkflowStatus \ TerminalStatus
        /\ v.effect \in EffectState
    BY DEF WorkflowStatus, TerminalStatus, Row
  <1>2. MoveKind(v.status, v.effect, "reconciliation_required", v.effect, 1, "none")
    BY DEF MoveKind
  <1> QED BY <1>1, <1>2, MoveMoves DEF markReconciliationRequired

LEMMA ToReconciliationStep ==
  ASSUME NEW v \in Row(Requests), Coherent(v)
  PROVE  Moves(v, toReconciliation(v)) \/ toReconciliation(v) = v
  BY ReconciliationMoves DEF toReconciliation, CanMarkReconciliation

LEMMA TerminalMoves ==
  ASSUME NEW v \in Row(Requests), CanMarkTerminal(v)
  PROVE  Moves(v, markTerminalFailureAfterAbsence(v))
  <1>1. /\ "failed_terminal" \in WorkflowStatus \cap TerminalStatus
        /\ "absence_proven" \in EffectState
    BY DEF WorkflowStatus, TerminalStatus, EffectState
  <1>2. MoveKind(v.status, v.effect, "failed_terminal", "absence_proven", 1, "none")
    BY DEF MoveKind, CanMarkTerminal
  <1> QED BY <1>1, <1>2, TerminateMoves DEF markTerminalFailureAfterAbsence

LEMMA SettleStep ==
  ASSUME NEW v \in Row(Requests), Coherent(v)
  PROVE  Moves(v, settle(v)) \/ settle(v) = v
  <1>1. CASE ~v.released /\ v.status \in {"pending_approval", "approved"} /\ v.effect = "not_started"
    <2>1. settle(v) = Terminate(v, "stale", "absence_proven")
      BY <1>1 DEF settle, CanMarkTerminal
    <2>2. "stale" \in WorkflowStatus \cap TerminalStatus /\ "absence_proven" \in EffectState
      BY DEF WorkflowStatus, TerminalStatus, EffectState
    <2>3. MoveKind(v.status, v.effect, "stale", "absence_proven", 1, "none")
      BY <1>1 DEF MoveKind
    <2> QED BY <2>1, <2>2, <2>3, TerminateMoves
  <1>2. CASE ~v.released /\ CanMarkTerminal(v)
    <2>1. settle(v) = markTerminalFailureAfterAbsence(v)
      BY <1>2 DEF settle, CanMarkTerminal
    <2> QED BY <1>2, <2>1, TerminalMoves
  <1>3. CASE ~v.released /\ v.status = "executing" /\ ~CanMarkTerminal(v)
    <2>1. v.effect \in {"possible", "identified"}
      BY <1>3 DEF CanMarkTerminal, Row, EffectState
    <2>2. settle(v) = markReconciliationRequired(v)
      BY <1>3, <2>1 DEF settle, CanMarkTerminal
    <2> QED BY <1>3, <2>2, ReconciliationMoves
  <1>4. CASE v.released \/ v.status \notin {"pending_approval", "approved", "executing"}
    BY <1>4 DEF settle, CanMarkTerminal
  <1> QED BY <1>1, <1>2, <1>3, <1>4 DEF Coherent

LEMMA ResumeMoves ==
  ASSUME NEW v \in Row(Requests), Coherent(v), CanMarkAbsenceProven(v)
  PROVE  Moves(v, resumeExecutionAfterAbsence(markAbsenceProven(v)))
  <1> DEFINE u == Move(v, "reconciliation_required", "absence_proven")
             w == Move(u, "executing", "absence_proven")
  <1>1. /\ {"reconciliation_required", "executing"} \subseteq WorkflowStatus
        /\ "absence_proven" \in EffectState
    BY DEF WorkflowStatus, EffectState
  <1>2. /\ u \in Row(Requests) /\ u.released = v.released /\ u.attempts = v.attempts
        /\ SameLink(v, u) /\ (v.link = NoRefund => u.rev = v.rev + 1)
    BY <1>1, MoveFields
  <1> HIDE DEF u
  <1>3. /\ w.status = "executing" /\ w.effect = "absence_proven"
        /\ w.released = u.released /\ w.attempts = u.attempts
        /\ SameLink(u, w) /\ (u.link = NoRefund => w.rev = u.rev + 1)
    BY <1>1, <1>2, MoveFields
  <1>4. resumeExecutionAfterAbsence(markAbsenceProven(v)) = w
    BY DEF resumeExecutionAfterAbsence, markAbsenceProven, CanMarkAbsenceProven, u
  <1> HIDE DEF w
  <1>5. ~v.released /\ w.status \notin TerminalStatus
    BY <1>3 DEF CanMarkAbsenceProven, Coherent, TerminalStatus
  <1>6. /\ SameLink(v, w) /\ Finishes(v, w, "none")
        /\ v.link = NoRefund => w.rev = v.rev + 2
    <2>1. v.link = NoRefund => u.link = NoRefund /\ w.rev = v.rev + 2
      BY <1>2, <1>3 DEF SameLink, Row
    <2> QED BY <1>2, <1>3, <2>1 DEF SameLink, Finishes
  <1>7. MoveKind(v.status, v.effect, w.status, w.effect, 2, "none")
    BY <1>3 DEF MoveKind, CanMarkAbsenceProven
  <1>8. Moves(v, w)
    BY <1>2, <1>3, <1>5, <1>6, <1>7 DEF Moves
  <1> QED BY <1>4, <1>8

(* The updates of an attempt and of its request in one transaction.          *)
LEMMA FinishMoves ==
  ASSUME NEW v \in Row(Requests), NEW w \in Row(Requests), w.attempts = v.attempts,
         SameLink(v, w), NEW n \in Nat, CanFinishAttempt(v, n), NEW a \in AttemptState,
         NEW k \in {1, 2}, MoveKind(v.status, v.effect, w.status, w.effect, k, a),
         w.released = (IF w.status \in TerminalStatus THEN TRUE ELSE v.released), v.link = NoRefund => w.rev = v.rev + k
  PROVE  Moves(v, finishExecutionAttempt(w, n, a))
  <1> DEFINE u == finishExecutionAttempt(w, n, a)
  <1>1. /\ u.status = w.status /\ u.effect = w.effect /\ u.released = w.released /\ u.rev = w.rev
        /\ SameLink(w, u) /\ Finishes(v, u, a)
    BY FinishFields
  <1> HIDE DEF u
  <1>2. SameLink(v, u)
    BY <1>1 DEF SameLink
  <1>3. MoveKind(v.status, v.effect, u.status, u.effect, k, a)
    BY <1>1
  <1>4. Moves(v, u)
    BY <1>1, <1>2, <1>3 DEF Moves
  <1> QED BY <1>4 DEF u

-------------------------------------------------------------------------------
(* markRefundIdentified, field by field.                                     *)
LEMMA LinkFields ==
  ASSUME NEW v \in Row(Requests), NEW id \in Requests, NEW st \in RefundStatus, NEW ev \in Nat
  PROVE  LET w == LinkRefund(v, id, st, ev)
         IN  /\ w \in Row(Requests) /\ w.status = v.status /\ w.effect = v.effect
             /\ w.released = v.released /\ w.attempts = v.attempts /\ w.exec = v.exec
             /\ w.link = id /\ w.refundStatus = st
             /\ w.lastEvent = IF ev = 0 THEN v.lastEvent ELSE ev
  BY DEF LinkRefund, Row

(* A linked row that moves to the outcome of its branch.                     *)
LEMMA OutcomeIdentifies ==
  ASSUME NEW v \in Row(Requests), NEW r \in Requests, NEW st \in RefundStatus, NEW ev \in Nat,
         v.exec = TRUE, v.link \in {NoRefund, r}, shouldApplyRefundObservation(v, st, ev),
         NEW w \in Row(Requests), SameLink(LinkRefund(v, r, st, ev), w),
         w.attempts = v.attempts, OutcomeKind(v, w, st)
  PROVE  Identifies(r, v, w, st, ev)
  <1> DEFINE u == LinkRefund(v, r, st, ev)
  <1>1. u.exec = v.exec /\ u.link = r /\ u.refundStatus = st
        /\ u.lastEvent = (IF ev = 0 THEN v.lastEvent ELSE ev)
    BY LinkFields
  <1> HIDE DEF u
  <1>2. w.exec = v.exec /\ w.link = r /\ w.refundStatus = st
        /\ w.lastEvent = (IF ev = 0 THEN v.lastEvent ELSE ev)
    BY <1>1 DEF SameLink, u
  <1>3. Finishes(v, w, "none")
    BY DEF Finishes
  <1> QED BY <1>2, <1>3 DEF Identifies

LEMMA LinkedMove ==
  ASSUME NEW v \in Row(Requests), NEW r \in Requests, NEW st \in RefundStatus, NEW ev \in Nat,
         NEW s \in WorkflowStatus, NEW e \in EffectState
  PROVE  LET w == Move(LinkRefund(v, r, st, ev), s, e)
         IN  /\ w \in Row(Requests) /\ w.attempts = v.attempts /\ w.status = s /\ w.effect = e
             /\ SameLink(LinkRefund(v, r, st, ev), w) /\ w.released = v.released
  <1> DEFINE u == LinkRefund(v, r, st, ev)
  <1>1. u \in Row(Requests) /\ u.released = v.released /\ u.attempts = v.attempts
    BY LinkFields
  <1> HIDE DEF u
  <1>2. LET w == Move(u, s, e)
        IN  /\ w \in Row(Requests) /\ w.attempts = v.attempts /\ w.status = s /\ w.effect = e
            /\ SameLink(u, w) /\ w.released = v.released
    BY <1>1, MoveFields
  <1> QED BY <1>2 DEF u

LEMMA LinkedTerminate ==
  ASSUME NEW v \in Row(Requests), NEW r \in Requests, NEW st \in RefundStatus, NEW ev \in Nat,
         NEW s \in WorkflowStatus, NEW e \in EffectState
  PROVE  LET w == Terminate(LinkRefund(v, r, st, ev), s, e)
         IN  /\ w \in Row(Requests) /\ w.attempts = v.attempts /\ w.status = s /\ w.effect = e
             /\ SameLink(LinkRefund(v, r, st, ev), w) /\ w.released = TRUE
  <1> DEFINE u == LinkRefund(v, r, st, ev)
  <1>1. u \in Row(Requests) /\ u.released = v.released /\ u.attempts = v.attempts
    BY LinkFields
  <1> HIDE DEF u
  <1>2. LET w == Terminate(u, s, e)
        IN  /\ w \in Row(Requests) /\ w.attempts = v.attempts /\ w.status = s /\ w.effect = e
            /\ SameLink(u, w) /\ w.released = TRUE
    <2> DEFINE w == Terminate(u, s, e)
    <2>1. w \in Row(Requests) /\ w.status = s /\ w.effect = e
      BY <1>1, TerminateFields, Zenon
    <2>2. w.released = TRUE /\ w.attempts = u.attempts /\ SameLink(u, w)
      BY <1>1, TerminateFields, Zenon
    <2> HIDE DEF w
    <2> QED BY <1>1, <2>1, <2>2 DEF w
  <1> QED BY <1>2 DEF u

LEMMA IdentifiedFields ==
  ASSUME NEW v \in Row(Requests), Coherent(v), NEW r \in Requests, NEW st \in RefundStatus,
         NEW ev \in Nat, NEW res, CanIdentify(v, r, st, ev, res)
  PROVE  LET w == markRefundIdentified(v, r, st, ev, res)
         IN  /\ w \in Row(Requests) /\ w.attempts = v.attempts
             /\ Identifies(r, v, w, st, ev)
  <1> DEFINE linked == LinkRefund(v, r, st, ev)
             branch == IdentifyBranch(v, st, res)
             new == markRefundIdentified(v, r, st, ev, res)
             applied == shouldApplyRefundObservation(v, st, ev)
  <1> SUFFICES new \in Row(Requests) /\ new.attempts = v.attempts /\ Identifies(r, v, new, st, ev)
    OBVIOUS
  <1>1. /\ linked \in Row(Requests) /\ linked.status = v.status /\ linked.effect = v.effect
        /\ linked.released = v.released /\ linked.attempts = v.attempts
    BY LinkFields
  <1>2. v.exec = TRUE /\ v.link \in {NoRefund, r}
    BY DEF CanIdentify, Row
  <1>3. /\ "failed_terminal" \in WorkflowStatus /\ "succeeded" \in WorkflowStatus
        /\ "reconciliation_required" \in WorkflowStatus /\ "executing" \in WorkflowStatus
        /\ "identified" \in EffectState /\ "absence_proven" \in EffectState
    BY DEF WorkflowStatus, EffectState, Row
  <1> HIDE DEF linked, branch, new, applied
  <1>4. CASE ~applied
    <2>1. new = v
      BY <1>4 DEF markRefundIdentified, linked, branch, new, applied
    <2>2. Finishes(v, v, "none") /\ SameLink(v, v)
      BY DEF Finishes, SameLink
    <2> QED BY <1>2, <1>4, <2>1, <2>2 DEF Identifies, applied
  <1>5. CASE applied /\ branch = "keep"
    <2>1. new = linked
      BY <1>5 DEF markRefundIdentified, linked, branch, new, applied
    <2>2. v.status \notin {"executing", "reconciliation_required"}
      BY <1>5 DEF IdentifyBranch, branch
    <2>3. OutcomeKind(v, linked, st)
      BY <1>1, <2>2 DEF OutcomeKind
    <2>4. SameLink(linked, linked)
      BY DEF SameLink
    <2> QED BY <1>1, <1>2, <1>5, <2>1, <2>3, <2>4, OutcomeIdentifies DEF linked, applied
  <1>6. CASE applied /\ branch = "correct"
    <2>1. new = Move(linked, "failed_terminal", "absence_proven")
      BY <1>6 DEF markRefundIdentified, linked, branch, new, applied
    <2>2. v.status = "succeeded" /\ v.effect = "identified" /\ st \in {"failed", "canceled"}
      BY <1>6 DEF IdentifyBranch, CanIdentify, branch, applied
    <2>3. new \in Row(Requests) /\ new.attempts = v.attempts /\ SameLink(linked, new)
          /\ new.status = "failed_terminal" /\ new.effect = "absence_proven"
          /\ new.released = v.released
      BY <1>3, <2>1, LinkedMove DEF linked
    <2>4. OutcomeKind(v, new, st)
      BY <2>2, <2>3 DEF OutcomeKind
    <2> QED BY <1>2, <1>6, <2>3, <2>4, OutcomeIdentifies DEF linked, applied
  <1>7. CASE applied /\ branch = "preserve"
    <2>1. new = Move(linked, "reconciliation_required", "identified")
      BY <1>7 DEF markRefundIdentified, linked, branch, new, applied
    <2>2. v.status = "reconciliation_required"
      BY <1>7 DEF IdentifyBranch, branch
    <2>3. new \in Row(Requests) /\ new.attempts = v.attempts /\ SameLink(linked, new)
          /\ new.status = "reconciliation_required" /\ new.effect = "identified"
          /\ new.released = v.released
      BY <1>3, <2>1, LinkedMove DEF linked
    <2>4. OutcomeKind(v, new, st)
      BY <2>2, <2>3 DEF OutcomeKind
    <2> QED BY <1>2, <1>7, <2>3, <2>4, OutcomeIdentifies DEF linked, applied
  <1>8. CASE applied /\ branch \in {"uncertain", "identify"}
    <2>1. PICK s \in {v.status, "reconciliation_required"} :
            /\ new = Move(linked, s, "identified")
            /\ branch = "uncertain" => s = "reconciliation_required"
      BY <1>8 DEF markRefundIdentified, linked, branch, new, applied
    <2>2. /\ v.status \in {"executing", "reconciliation_required"}
          /\ v.effect \in {"possible", "identified"}
          /\ branch = "identify" => st \in {"pending", "requires_action"}
      BY <1>8 DEF IdentifyBranch, CanIdentify, branch, applied
    <2>3. new \in Row(Requests) /\ new.attempts = v.attempts /\ SameLink(linked, new)
          /\ new.status = s /\ new.effect = "identified"
          /\ new.released = v.released
      BY <1>3, <2>1, <2>2, LinkedMove DEF linked
    <2>4. new.status = "executing" => st \in {"pending", "requires_action"}
      BY <1>8, <2>1, <2>2, <2>3
    <2>5. OutcomeKind(v, new, st)
      BY <2>1, <2>2, <2>3, <2>4 DEF OutcomeKind
    <2> QED BY <1>2, <1>8, <2>3, <2>5, OutcomeIdentifies DEF linked, applied
  <1>9. CASE applied /\ branch = "succeed"
    <2>1. new = Terminate(linked, "succeeded", "identified")
      BY <1>9 DEF markRefundIdentified, linked, branch, new, applied
    <2>2. v.status \in {"executing", "reconciliation_required"}
          /\ v.effect \in {"possible", "identified"} /\ st = "succeeded"
      BY <1>9 DEF IdentifyBranch, CanIdentify, branch, applied
    <2>3. new \in Row(Requests) /\ new.attempts = v.attempts /\ SameLink(linked, new)
          /\ new.status = "succeeded" /\ new.effect = "identified" /\ new.released = TRUE
      <3> DEFINE w == Terminate(linked, "succeeded", "identified")
      <3>1. /\ w \in Row(Requests) /\ w.status = "succeeded" /\ w.effect = "identified"
            /\ w.released = TRUE /\ w.attempts = linked.attempts /\ SameLink(linked, w)
        <4>1. linked \in Row(Requests) /\ "succeeded" \in WorkflowStatus /\ "identified" \in EffectState
          BY <1>1, <1>3
        <4> QED BY <4>1, TerminateFields, Zenon
      <3> HIDE DEF w
      <3>2. new = w
        BY <2>1 DEF w
      <3> QED BY <1>1, <3>1, <3>2
    <2>4. OutcomeKind(v, new, st)
      BY <2>2, <2>3 DEF OutcomeKind
    <2> QED BY <1>2, <1>9, <2>3, <2>4, OutcomeIdentifies DEF linked, applied
  <1>10. CASE applied /\ branch = "fail"
    <2>1. new = Terminate(linked, "failed_terminal", "absence_proven")
      BY <1>10 DEF markRefundIdentified, linked, branch, new, applied
    <2>2. v.status \in {"executing", "reconciliation_required"}
          /\ v.effect \in {"possible", "identified"} /\ st \in {"failed", "canceled"}
      BY <1>10 DEF IdentifyBranch, CanIdentify, branch, applied, RefundStatus
    <2>3. new \in Row(Requests) /\ new.attempts = v.attempts /\ SameLink(linked, new)
          /\ new.status = "failed_terminal" /\ new.effect = "absence_proven" /\ new.released = TRUE
      <3> DEFINE w == Terminate(linked, "failed_terminal", "absence_proven")
      <3>1. /\ w \in Row(Requests) /\ w.status = "failed_terminal" /\ w.effect = "absence_proven"
            /\ w.released = TRUE /\ w.attempts = linked.attempts /\ SameLink(linked, w)
        <4>1. linked \in Row(Requests) /\ "failed_terminal" \in WorkflowStatus /\ "absence_proven" \in EffectState
          BY <1>1, <1>3
        <4> QED BY <4>1, TerminateFields, Zenon
      <3> HIDE DEF w
      <3>2. new = w
        BY <2>1 DEF w
      <3> QED BY <1>1, <3>1, <3>2
    <2>4. OutcomeKind(v, new, st)
      BY <2>2, <2>3 DEF OutcomeKind
    <2> QED BY <1>2, <1>10, <2>3, <2>4, OutcomeIdentifies DEF linked, applied
  <1>11. branch \in {"keep", "correct", "preserve", "uncertain", "identify", "succeed", "fail"}
    BY DEF IdentifyBranch, branch
  <1> QED BY <1>4, <1>5, <1>6, <1>7, <1>8, <1>9, <1>10, <1>11

(* The attempt that brought the observation is completed with it.            *)
LEMMA FinishIdentifies ==
  ASSUME NEW v \in Row(Requests), NEW w \in Row(Requests), w.attempts = v.attempts,
         NEW n \in Nat, CanFinishAttempt(v, n), NEW r, NEW st, NEW ev, Identifies(r, v, w, st, ev)
  PROVE  Identifies(r, v, finishExecutionAttempt(w, n, "completed"), st, ev)
  <1> DEFINE u == finishExecutionAttempt(w, n, "completed")
  <1>1. "completed" \in AttemptState
    BY DEF AttemptState
  <1>2. /\ u.status = w.status /\ u.effect = w.effect /\ u.released = w.released /\ u.rev = w.rev
        /\ SameLink(w, u) /\ Finishes(v, u, "completed")
    BY <1>1, FinishFields
  <1> HIDE DEF u
  <1> SUFFICES Identifies(r, v, u, st, ev)
    BY DEF u
  <1>3. v.exec = TRUE /\ w.exec = u.exec /\ u.exec = TRUE /\ v.link \in {NoRefund, r}
    BY <1>2 DEF Identifies, SameLink, Row
  <1>4. CASE shouldApplyRefundObservation(v, st, ev)
    <2>1. OutcomeKind(v, w, st) => OutcomeKind(v, u, st)
      BY <1>2 DEF OutcomeKind
    <2> QED BY <1>2, <1>4, <1>3, <2>1 DEF Identifies, SameLink
  <1>5. CASE ~shouldApplyRefundObservation(v, st, ev)
    BY <1>2, <1>5, <1>3 DEF Identifies, SameLink
  <1> QED BY <1>4, <1>5

-------------------------------------------------------------------------------
(* The rows of a step.                                                       *)

(* What a handler, a candidate or a link says of Stripe has been so.         *)
HandEvidence(v) == v.step = "answered" /\ v.answer = "refund" => HasRefund(v.req)

CandEvidence(r, c) ==
  /\ c.scanned => c.known
  /\ c.known => c.status \in Seen(r)

Evidence ==
  /\ \A h \in Handlers : HandEvidence(hand[h])
  /\ \A r \in Requests : CandEvidence(r, cand[r])

RowsStep == \A r \in Requests : RowStep(r, row[r], row'[r])

LEMMA OneRowStep ==
  ASSUME TypeOK, NEW r \in Requests, NEW w, row' = [row EXCEPT ![r] = w], RowStep(r, row[r], w)
  PROVE  RowsStep
  <1>1. row'[r] = w /\ \A q \in Requests : q # r => row'[q] = row[q]
    BY DEF TypeOK
  <1>2. \A q \in Requests : q # r => RowStep(q, row[q], row'[q])
    BY <1>1 DEF RowStep
  <1> QED BY <1>1, <1>2 DEF RowsStep

LEMMA NoRowStep ==
  ASSUME UNCHANGED row
  PROVE  RowsStep
  BY DEF RowsStep, RowStep

LEMMA OneRowMoves ==
  ASSUME TypeOK, NEW r \in Requests, NEW w, row' = [row EXCEPT ![r] = w],
         Moves(row[r], w) \/ w = row[r]
  PROVE  RowsStep
  <1>1. RowStep(r, row[r], w)
    BY DEF RowStep
  <1> QED BY <1>1, OneRowStep

LEMMA PlatformRowsStep ==
  ASSUME TypeOK, RowsCoherent, NEW r \in Requests,
         \/ createRequest(r) \/ decideApprove(r)
         \/ \E s \in {"rejected", "canceled", "expired"} : closeRequest(r, s)
  PROVE  RowsStep
  <1> DEFINE v == row[r]
  <1>1. v \in Row(Requests) /\ Coherent(v) /\ v.effect \in EffectState
    BY DEF TypeOK, RowsCoherent, Row
  <1>2. CASE createRequest(r)
    <2>1. row' = [row EXCEPT ![r] = createRefundRequest] /\ RowStep(r, v, createRefundRequest)
      BY <1>2 DEF createRequest, RowStep
    <2> QED BY <2>1, OneRowStep
  <1>3. CASE decideApprove(r)
    <2>1. v.status = "pending_approval" /\ row' = [row EXCEPT ![r] = Move(v, "approved", v.effect)]
      BY <1>3 DEF decideApprove, CanDecide, approve
    <2>2. "approved" \in WorkflowStatus /\ "approved" \notin TerminalStatus
      BY DEF WorkflowStatus, TerminalStatus
    <2>3. MoveKind(v.status, v.effect, "approved", v.effect, 1, "none")
      BY <2>1 DEF MoveKind
    <2>4. Moves(v, Move(v, "approved", v.effect))
      BY <1>1, <2>2, <2>3, MoveMoves
    <2> QED BY <2>1, <2>4, OneRowMoves
  <1>4. ASSUME NEW s \in {"rejected", "canceled", "expired"}, closeRequest(r, s)
        PROVE  RowsStep
    <2>1. /\ v.status = "pending_approval" /\ v.effect = "not_started"
          /\ row' = [row EXCEPT ![r] = Terminate(v, s, "not_started")]
      BY <1>4 DEF closeRequest, closePending, CanClose
    <2>2. s \in WorkflowStatus /\ s \in TerminalStatus /\ "not_started" \in EffectState
      BY DEF WorkflowStatus, TerminalStatus, EffectState
    <2>3. MoveKind(v.status, v.effect, s, "not_started", 1, "none")
      BY <2>1 DEF MoveKind
    <2>4. Moves(v, Terminate(v, s, "not_started"))
      BY <1>1, <2>2, <2>3, TerminateMoves
    <2> QED BY <2>1, <2>4, OneRowMoves
  <1> QED BY <1>2, <1>3, <1>4

LEMMA DivertedStep ==
  ASSUME TypeOK, RowsCoherent, NEW r \in Requests, NEW c \in BOOLEAN,
         c => CanMarkReconciliation(row[r]),
         row' = [row EXCEPT ![r] = IF c THEN markReconciliationRequired(@) ELSE @]
  PROVE  RowsStep
  <1>1. row[r] \in Row(Requests) /\ Coherent(row[r])
    BY DEF TypeOK, RowsCoherent
  <1>2. CASE c
    <2>1. Moves(row[r], markReconciliationRequired(row[r]))
      BY <1>1, <1>2, ReconciliationMoves DEF CanMarkReconciliation
    <2> QED BY <1>2, <2>1, OneRowMoves
  <1>3. CASE ~c
    <2>1. UNCHANGED row
      BY <1>3 DEF TypeOK
    <2> QED BY <2>1, NoRowStep
  <1> QED BY <1>2, <1>3

LEMMA LoadRowsStep ==
  ASSUME TypeOK, RowsCoherent, NEW h \in Handlers, NEW r \in Requests, loadRefundExecution(h, r)
  PROVE  RowsStep
  <1> DEFINE v == row[r]
  <1>1. v \in Row(Requests) /\ Coherent(v)
    BY DEF TypeOK, RowsCoherent
  <1>2. CASE Loadable(r) /\ CanClaim(v)
    <2>1. row' = [row EXCEPT ![r] = Move(v, "executing", "not_started")]
          /\ v.status = "approved" /\ v.effect = "not_started"
      BY <1>2 DEF loadRefundExecution, claimExecution, CanClaim
    <2>2. "executing" \in WorkflowStatus /\ "not_started" \in EffectState
          /\ "executing" \notin TerminalStatus
      BY DEF WorkflowStatus, EffectState, TerminalStatus
    <2>3. MoveKind(v.status, v.effect, "executing", "not_started", 1, "none")
      BY <2>1 DEF MoveKind
    <2>4. Moves(v, Move(v, "executing", "not_started"))
      BY <1>1, <2>2, <2>3, MoveMoves
    <2> QED BY <2>1, <2>4, OneRowMoves
  <1>3. CASE Loadable(r) /\ ~CanClaim(v)
    <2>1. UNCHANGED row
      BY <1>3 DEF loadRefundExecution, TypeOK
    <2> QED BY <2>1, NoRowStep
  <1>4. CASE ~Loadable(r)
    <2> DEFINE c == active /\ CanMarkReconciliation(v) /\ v.effect = "possible"
    <2>1. row' = [row EXCEPT ![r] = IF c THEN markReconciliationRequired(@) ELSE @]
      BY <1>4 DEF loadRefundExecution
    <2>2. c \in BOOLEAN /\ (c => CanMarkReconciliation(v))
      BY DEF TypeOK, DeskTypeOK, CanMarkReconciliation
    <2> HIDE DEF c
    <2> QED BY <2>1, <2>2, DivertedStep
  <1> QED BY <1>2, <1>3, <1>4

LEMMA RecoverRowsStep ==
  ASSUME TypeOK, RowsCoherent, NEW r \in Requests, recoverExecution(r)
  PROVE  RowsStep
  <1>1. CASE UNCHANGED row
    BY <1>1, NoRowStep
  <1>2. CASE row' = [row EXCEPT ![r] =
                      IF CanMarkReconciliation(@) THEN markReconciliationRequired(@) ELSE @]
    <2> DEFINE c == CanMarkReconciliation(row[r])
    <2>1. row' = [row EXCEPT ![r] = IF c THEN markReconciliationRequired(@) ELSE @]
      BY <1>2
    <2>2. c \in BOOLEAN /\ (c => CanMarkReconciliation(row[r]))
      BY DEF CanMarkReconciliation
    <2> HIDE DEF c
    <2> QED BY <2>1, <2>2, DivertedStep
  <1> QED BY <1>1, <1>2 DEF recoverExecution

LEMMA BoundaryRowsStep ==
  ASSUME TypeOK, RowsCoherent, HandlersBound, NEW h \in Handlers, persistEffectBoundary(h)
  PROVE  RowsStep
  <1> DEFINE r == hand[h].req
             v == row[r]
  <1>1. r \in Requests
    BY DEF persistEffectBoundary, HandlersBound
  <1>2. v \in Row(Requests) /\ Coherent(v)
    BY <1>1 DEF TypeOK, RowsCoherent
  <1>3. CASE Executable(r)
    <2> DEFINE u == Move(v, "executing", "possible")
               w == crossBoundary(v)
    <2>1. /\ v.status = "executing" /\ v.effect \in {"not_started", "absence_proven"}
          /\ v.link = NoRefund /\ attestationCompatible(v)
          /\ row' = [row EXCEPT ![r] = w]
      BY <1>3 DEF persistEffectBoundary, Executable, CanMarkEffectPossible, AttestationValid
    <2>2. "executing" \in WorkflowStatus /\ "possible" \in EffectState
      BY DEF WorkflowStatus, EffectState
    <2>3. /\ u \in Row(Requests) /\ u.status = "executing" /\ u.effect = "possible"
          /\ u.released = v.released /\ u.attempts = v.attempts /\ SameLink(v, u)
          /\ u.rev = v.rev + 1
      BY <1>2, <2>1, <2>2, MoveFields
    <2>4. w = [u EXCEPT !.exec = TRUE, !.attempts = Append(u.attempts, "started")]
      BY DEF crossBoundary
    <2> HIDE DEF u
    <2>5. /\ w.status = "executing" /\ w.effect = "possible" /\ w.released = v.released
          /\ w.link = v.link /\ w.refundStatus = v.refundStatus /\ w.lastEvent = v.lastEvent
          /\ w.attempts = Append(v.attempts, "started") /\ w.rev = v.rev + 1
      BY <2>3, <2>4 DEF Row, SameLink
    <2>6. w.exec = TRUE
      BY <2>3, <2>4 DEF Row
    <2> HIDE DEF w
    <2>7. Begins(v, w)
      BY <2>1, <2>5, <2>6 DEF Begins
    <2>8. RowStep(r, v, w)
      BY <2>7 DEF RowStep
    <2> HIDE DEF r
    <2> QED BY <1>1, <2>1, <2>8, OneRowStep
  <1>4. CASE ~Executable(r)
    <2> DEFINE c == active /\ CanMarkReconciliation(v) /\ v.effect = "possible"
    <2>1. row' = [row EXCEPT ![r] = IF c THEN markReconciliationRequired(@) ELSE @]
      BY <1>4 DEF persistEffectBoundary
    <2>2. c \in BOOLEAN /\ (c => CanMarkReconciliation(v))
      BY DEF TypeOK, DeskTypeOK, CanMarkReconciliation
    <2> HIDE DEF c, r
    <2> QED BY <1>1, <2>1, <2>2, DivertedStep
  <1> QED BY <1>3, <1>4

(* The three outcomes of an attempt that brought no refund.                  *)
LEMMA RetryableMoves ==
  ASSUME NEW v \in Row(Requests), NEW n \in Nat, CanFinishAttempt(v, n), CanMarkCertainAbsence(v)
  PROVE  Moves(v, finishExecutionAttempt(markCertainAbsenceWhileExecuting(v), n,
                                         "retryable_failure"))
  <1> DEFINE w == Move(v, "executing", "absence_proven")
  <1>1. /\ "executing" \in WorkflowStatus /\ "executing" \notin TerminalStatus
        /\ "absence_proven" \in EffectState /\ "retryable_failure" \in AttemptState
    BY DEF WorkflowStatus, TerminalStatus, EffectState, AttemptState
  <1>2. /\ w \in Row(Requests) /\ w.status = "executing" /\ w.effect = "absence_proven"
        /\ w.released = v.released /\ w.attempts = v.attempts /\ SameLink(v, w)
        /\ (v.link = NoRefund => w.rev = v.rev + 1)
    BY <1>1, MoveFields
  <1>3. MoveKind(v.status, v.effect, w.status, w.effect, 1, "retryable_failure")
    BY <1>2 DEF MoveKind, CanMarkCertainAbsence
  <1> HIDE DEF w
  <1>4. w.released = (IF w.status \in TerminalStatus THEN TRUE ELSE v.released)
    BY <1>1, <1>2
  <1>5. Moves(v, finishExecutionAttempt(w, n, "retryable_failure"))
    BY <1>1, <1>2, <1>3, <1>4, FinishMoves
  <1> QED BY <1>5 DEF w, markCertainAbsenceWhileExecuting

LEMMA AmbiguousMoves ==
  ASSUME NEW v \in Row(Requests), NEW n \in Nat, CanFinishAttempt(v, n), CanMarkReconciliation(v)
  PROVE  Moves(v, finishExecutionAttempt(markReconciliationRequired(v), n, "ambiguous_failure"))
  <1> DEFINE w == Move(v, "reconciliation_required", v.effect)
  <1>1. /\ "reconciliation_required" \in WorkflowStatus
        /\ "reconciliation_required" \notin TerminalStatus
        /\ v.effect \in EffectState /\ "ambiguous_failure" \in AttemptState
    BY DEF WorkflowStatus, TerminalStatus, AttemptState, Row
  <1>2. /\ w \in Row(Requests) /\ w.status = "reconciliation_required" /\ w.effect = v.effect
        /\ w.released = v.released /\ w.attempts = v.attempts /\ SameLink(v, w)
        /\ (v.link = NoRefund => w.rev = v.rev + 1)
    BY <1>1, MoveFields
  <1>3. MoveKind(v.status, v.effect, w.status, w.effect, 1, "ambiguous_failure")
    BY <1>2 DEF MoveKind, CanMarkReconciliation
  <1> HIDE DEF w
  <1>4. w.released = (IF w.status \in TerminalStatus THEN TRUE ELSE v.released)
    BY <1>1, <1>2
  <1>5. Moves(v, finishExecutionAttempt(w, n, "ambiguous_failure"))
    BY <1>1, <1>2, <1>3, <1>4, FinishMoves
  <1> QED BY <1>5 DEF w, markReconciliationRequired

LEMMA TerminalAttemptMoves ==
  ASSUME NEW v \in Row(Requests), NEW n \in Nat, CanFinishAttempt(v, n), CanMarkCertainAbsence(v)
  PROVE  Moves(v, finishExecutionAttempt(
                    markTerminalFailureAfterAbsence(markCertainAbsenceWhileExecuting(v)), n,
                    "terminal_failure"))
  <1> DEFINE u == Move(v, "executing", "absence_proven")
             w == Terminate(u, "failed_terminal", "absence_proven")
  <1>1. /\ "executing" \in WorkflowStatus /\ "failed_terminal" \in WorkflowStatus
        /\ "failed_terminal" \in TerminalStatus
        /\ "absence_proven" \in EffectState /\ "terminal_failure" \in AttemptState
    BY DEF WorkflowStatus, TerminalStatus, EffectState, AttemptState
  <1>2. /\ u \in Row(Requests) /\ u.attempts = v.attempts /\ SameLink(v, u)
        /\ (v.link = NoRefund => u.rev = v.rev + 1)
    BY <1>1, MoveFields
  <1> HIDE DEF u
  <1>3. /\ w \in Row(Requests) /\ w.status = "failed_terminal" /\ w.effect = "absence_proven"
        /\ w.released = TRUE /\ w.attempts = u.attempts /\ SameLink(u, w)
        /\ (u.link = NoRefund => w.rev = u.rev + 1)
    <2>1. u \in Row(Requests) /\ "failed_terminal" \in WorkflowStatus
          /\ "absence_proven" \in EffectState
      BY <1>1, <1>2
    <2> QED BY <2>1, TerminateFields, Zenon
  <1> HIDE DEF w
  <1>4. SameLink(v, w) /\ (v.link = NoRefund => w.rev = v.rev + 2)
    BY <1>2, <1>3 DEF SameLink, Row
  <1>5. MoveKind(v.status, v.effect, w.status, w.effect, 2, "terminal_failure")
    BY <1>3 DEF MoveKind, CanMarkCertainAbsence
  <1>6. w.released = (IF w.status \in TerminalStatus THEN TRUE ELSE v.released)
        /\ w.attempts = v.attempts
    BY <1>1, <1>2, <1>3
  <1>7. Moves(v, finishExecutionAttempt(w, n, "terminal_failure"))
    BY <1>1, <1>3, <1>4, <1>5, <1>6, FinishMoves
  <1> QED BY <1>7 DEF u, w, markCertainAbsenceWhileExecuting, markTerminalFailureAfterAbsence

LEMMA RecordRowsStep ==
  ASSUME TypeOK, RowsCoherent, HandlersBound, Evidence, NEW h \in Handlers, Record(h)
  PROVE  RowsStep
  <1> DEFINE r == hand[h].req
             n == hand[h].attempt
             v == row[r]
  <1>1. r \in Requests
    BY DEF HandlersBound, Record, Recorded, recordTerminalWithoutEffect, recordIdentifiedRefund,
       recordRetryableAttemptFailure, recordAmbiguousAttemptFailure,
       recordTerminalAttemptWithoutEffect
  <1>2. v \in Row(Requests) /\ Coherent(v) /\ n \in Nat
    BY <1>1 DEF TypeOK, WorkerTypeOK, RowsCoherent
  <1>3. CASE UNCHANGED row
    BY <1>3, NoRowStep
  <1>4. CASE recordTerminalWithoutEffect(h)
    <2>1. CASE CanMarkTerminal(v)
      <3>1. row' = [row EXCEPT ![r] = markTerminalFailureAfterAbsence(v)]
        BY <1>4, <2>1 DEF recordTerminalWithoutEffect
      <3>2. Moves(v, markTerminalFailureAfterAbsence(v))
        BY <1>2, <2>1, TerminalMoves
      <3> QED BY <1>1, <3>1, <3>2, OneRowMoves
    <2> QED BY <1>3, <1>4, <2>1 DEF recordTerminalWithoutEffect
  <1>5. CASE recordIdentifiedRefund(h) /\ ~UNCHANGED row
    <2>1. PICK st \in RefundStatus :
            /\ hand[h].step = "answered" /\ hand[h].answer = "refund"
            /\ st \in {stripe[r][1], "none"}
            /\ CanIdentify(v, r, st, 0, "preserve") /\ CanFinishAttempt(v, n)
            /\ row' = [row EXCEPT ![r] = finishExecutionAttempt(
                         markRefundIdentified(v, r, st, 0, "preserve"), n, "completed")]
      BY <1>5 DEF recordIdentifiedRefund, Recorded
    <2>2. HasRefund(r)
      BY <2>1 DEF Evidence, HandEvidence
    <2>3. stripe[r][1] \in Seen(r)
      <3>1. stripe[r] \in Seq(RefundStatus) /\ stripe[r] # <<>>
        BY <1>1, <2>2 DEF TypeOK, StripeTypeOK, HasRefund
      <3>2. 1 \in DOMAIN stripe[r]
        BY <3>1
      <3> QED BY <3>2 DEF Seen
    <2> DEFINE w == markRefundIdentified(v, r, st, 0, "preserve")
    <2>4. w \in Row(Requests) /\ w.attempts = v.attempts /\ Identifies(r, v, w, st, 0)
      BY <1>1, <1>2, <2>1, IdentifiedFields
    <2> HIDE DEF w
    <2>5. Identifies(r, v, finishExecutionAttempt(w, n, "completed"), st, 0)
      BY <1>2, <2>1, <2>4, FinishIdentifies
    <2>6. RowStep(r, v, finishExecutionAttempt(w, n, "completed"))
      BY <2>1, <2>2, <2>3, <2>5 DEF RowStep
    <2> QED BY <1>1, <2>1, <2>6, OneRowStep DEF w
  <1>6. CASE recordRetryableAttemptFailure(h) /\ ~UNCHANGED row
    <2> DEFINE w == finishExecutionAttempt(markCertainAbsenceWhileExecuting(v), n, "retryable_failure")
    <2>1. CanFinishAttempt(v, n) /\ CanMarkCertainAbsence(v) /\ row' = [row EXCEPT ![r] = w]
      BY <1>6 DEF recordRetryableAttemptFailure, Recorded
    <2>2. Moves(v, w)
      BY <1>2, <2>1, RetryableMoves
    <2> HIDE DEF w
    <2> QED BY <1>1, <2>1, <2>2, OneRowMoves
  <1>7. CASE recordAmbiguousAttemptFailure(h) /\ ~UNCHANGED row
    <2> DEFINE w == finishExecutionAttempt(markReconciliationRequired(v), n, "ambiguous_failure")
    <2>1. CanFinishAttempt(v, n) /\ CanMarkReconciliation(v) /\ row' = [row EXCEPT ![r] = w]
      BY <1>7 DEF recordAmbiguousAttemptFailure, Recorded
    <2>2. Moves(v, w)
      BY <1>2, <2>1, AmbiguousMoves
    <2> HIDE DEF w
    <2> QED BY <1>1, <2>1, <2>2, OneRowMoves
  <1>8. CASE recordTerminalAttemptWithoutEffect(h) /\ ~UNCHANGED row
    <2> DEFINE w == finishExecutionAttempt(
                     markTerminalFailureAfterAbsence(markCertainAbsenceWhileExecuting(v)), n,
                     "terminal_failure")
    <2>1. CanFinishAttempt(v, n) /\ CanMarkCertainAbsence(v) /\ row' = [row EXCEPT ![r] = w]
      BY <1>8 DEF recordTerminalAttemptWithoutEffect, Recorded
    <2>2. Moves(v, w)
      BY <1>2, <2>1, TerminalAttemptMoves
    <2> HIDE DEF w
    <2> QED BY <1>1, <2>1, <2>2, OneRowMoves
  <1> QED BY <1>3, <1>4, <1>5, <1>6, <1>7, <1>8 DEF Record

LEMMA IdentifiedRowStep ==
  ASSUME TypeOK, RowsCoherent, NEW r \in Requests, NEW st \in RefundStatus, NEW ev \in Nat, NEW res,
         st \in Seen(r), CanIdentify(row[r], r, st, ev, res)
  PROVE  RowStep(r, row[r], markRefundIdentified(row[r], r, st, ev, res))
  <1>1. row[r] \in Row(Requests) /\ Coherent(row[r])
    BY DEF TypeOK, RowsCoherent
  <1>2. Identifies(r, row[r], markRefundIdentified(row[r], r, st, ev, res), st, ev)
    BY <1>1, IdentifiedFields
  <1>3. HasRefund(r)
    <2>1. stripe[r] \in Seq(RefundStatus)
      BY DEF TypeOK, StripeTypeOK
    <2>2. DOMAIN stripe[r] # {}
      BY DEF Seen
    <2> QED BY <2>1, <2>2 DEF HasRefund
  <1> QED BY <1>2, <1>3 DEF RowStep

LEMMA ObservedRowsStep ==
  ASSUME TypeOK, RowsCoherent, NEW r \in Requests, NEW st \in RefundStatus, NEW ev \in Nat,
         NEW exact \in BOOLEAN, st \in Seen(r),
         observeUnlinked(r, st, ev, exact) \/ observeLinked(r, st, ev)
  PROVE  RowsStep
  <1> DEFINE v == row[r]
             w == markRefundIdentified(v, r, st, ev, "preserve")
  <1>1. v \in Row(Requests) /\ Coherent(v)
    BY DEF TypeOK, RowsCoherent
  <1>2. ASSUME CanIdentify(v, r, st, ev, "preserve"), row' = [row EXCEPT ![r] = w]
        PROVE  RowsStep
    <2>1. RowStep(r, v, w)
      BY <1>2, IdentifiedRowStep
    <2> HIDE DEF w
    <2> QED BY <1>2, <2>1, OneRowStep
  <1>3. CASE observeUnlinked(r, st, ev, exact)
    <2>1. \/ row' = [row EXCEPT ![r] = v]
          \/ row' = [row EXCEPT ![r] = toReconciliation(v)]
          \/ CanIdentify(v, r, st, ev, "preserve") /\ row' = [row EXCEPT ![r] = w]
      BY <1>3 DEF observeUnlinked
    <2>2. Moves(v, toReconciliation(v)) \/ toReconciliation(v) = v
      BY <1>1, ToReconciliationStep
    <2> QED BY <1>2, <2>1, <2>2, OneRowMoves
  <1>4. CASE observeLinked(r, st, ev)
    BY <1>2, <1>4, NoRowStep DEF observeLinked
  <1> QED BY <1>3, <1>4

LEMMA SettledRowsStep ==
  ASSUME TypeOK, RowsCoherent, NEW S \in SUBSET Requests,
         row' = [r \in Requests |-> IF r \in S THEN settle(row[r]) ELSE row[r]]
  PROVE  RowsStep
  <1> SUFFICES ASSUME NEW r \in Requests PROVE RowStep(r, row[r], row'[r])
    BY DEF RowsStep
  <1>1. row[r] \in Row(Requests) /\ Coherent(row[r])
    BY DEF TypeOK, RowsCoherent
  <1>2. row'[r] = settle(row[r]) \/ row'[r] = row[r]
    OBVIOUS
  <1>3. Moves(row[r], row'[r]) \/ row'[r] = row[r]
    BY <1>1, <1>2, SettleStep
  <1> QED BY <1>3 DEF RowStep

LEMMA ExternalRowsStep ==
  ASSUME TypeOK, RowsCoherent, NEW p \in Payments, observeExternalRefund(p)
  PROVE  RowsStep
  <1> DEFINE S == {r \in Requests : PaymentOf[r] = p}
  <1>1. row' = [r \in Requests |-> IF r \in S THEN settle(row[r]) ELSE row[r]]
    BY DEF observeExternalRefund
  <1>2. S \in SUBSET Requests
    OBVIOUS
  <1> HIDE DEF S
  <1> QED BY <1>1, <1>2, SettledRowsStep

LEMMA CommitRowsStep ==
  ASSUME TypeOK, RowsCoherent, Evidence, commitReconciliationCheckpoint
  PROVE  RowsStep
  <1> SUFFICES ASSUME NEW r \in Requests
               PROVE  RowStep(r, row[r], resolveUniqueRefundCandidate(r))
    BY DEF commitReconciliationCheckpoint, RowsStep
  <1> DEFINE v == row[r]
             w == resolveUniqueRefundCandidate(r)
  <1>1. v \in Row(Requests) /\ Coherent(v)
    BY DEF TypeOK, RowsCoherent
  <1>2. CandidatePasses(r)
    BY DEF commitReconciliationCheckpoint
  <1>3. ASSUME Moves(v, w) \/ w = v PROVE RowStep(r, v, w)
    BY <1>3 DEF RowStep
  <1>4. CASE ResumesAfterAbsence(r)
    <2>1. w = resumeExecutionAfterAbsence(markAbsenceProven(v))
      BY <1>4 DEF resolveUniqueRefundCandidate
    <2>2. CanMarkAbsenceProven(v)
      BY <1>2, <1>4 DEF CandidatePasses
    <2> QED BY <1>1, <1>3, <2>1, <2>2, ResumeMoves
  <1>5. CASE ~ResumesAfterAbsence(r) /\ LinksUnique(r)
    <2>1. w = markRefundIdentified(v, r, cand[r].status, cand[r].event, Resolution(r))
      BY <1>5 DEF resolveUniqueRefundCandidate
    <2>2. CanIdentify(v, r, cand[r].status, cand[r].event, Resolution(r))
      BY <1>2, <1>5 DEF CandidatePasses
    <2>3. cand[r].status \in RefundStatus /\ cand[r].event \in Nat
      BY DEF TypeOK, DeskTypeOK
    <2>4. cand[r].status \in Seen(r)
      BY <1>5 DEF LinksUnique, Evidence, CandEvidence
    <2> QED BY <2>1, <2>2, <2>3, <2>4, IdentifiedRowStep
  <1>6. CASE ~ResumesAfterAbsence(r) /\ ~LinksUnique(r)
    <2>1. w = toReconciliation(v) \/ w = v
      BY <1>6 DEF resolveUniqueRefundCandidate
    <2> QED BY <1>1, <1>3, <2>1, ToReconciliationStep
  <1> QED BY <1>4, <1>5, <1>6

LEMMA InHistory ==
  ASSUME TypeOK, NEW r \in Requests, NEW i \in DOMAIN stripe[r]
  PROVE  stripe[r][i] \in Seen(r) /\ stripe[r][i] \in RefundStatus /\ i \in Nat
  BY HistoryType DEF Seen

(* Everything that a step does to a row is a RowStep.                        *)
LEMMA RowSteps ==
  ASSUME TypeOK, RowsCoherent, HandlersBound, Evidence, Next
  PROVE  RowsStep
  <1>1. CASE PlatformStep
    <2>1. CASE applyWebhookDeauthorization
      <3>1. Requests \in SUBSET Requests
            /\ row' = [r \in Requests |-> IF r \in Requests THEN settle(row[r]) ELSE row[r]]
        BY <2>1 DEF applyWebhookDeauthorization
      <3> QED BY <3>1, SettledRowsStep
    <2> QED BY <1>1, <2>1, PlatformRowsStep, NoRowStep
            DEF PlatformStep, updateSettings, provisionWebhookInstallation
  <1>2. CASE StripeStep
    BY <1>2, NoRowStep DEF StripeStep, RefundMoves, StrayLands, StrayIsLost, ExternalRefund
  <1>3. ASSUME NEW h \in Handlers, HandlerStep(h) PROVE RowsStep
    <2>1. CASE \/ preflightClears(h) \/ preflightRefuses(h) \/ preflightFails(h)
               \/ createRefund(h) \/ callTimesOut(h)
               \/ \E a \in {"retryable", "terminal"} : callRefused(h, a)
      BY <2>1, NoRowStep DEF preflightClears, preflightRefuses, preflightFails, createRefund,
         callTimesOut, callRefused, Answered
    <2> QED BY <1>3, <2>1, BoundaryRowsStep, RecordRowsStep DEF HandlerStep
  <1>4. ASSUME NEW h \in Handlers, Crash(h) \/ Expire(h) PROVE RowsStep
    BY <1>4, NoRowStep DEF Crash, Expire
  <1>5. ASSUME NEW p \in Payments, scanObservesExternal(p) \/ webhookExternalRefund(p)
        PROVE  RowsStep
    BY <1>5, ExternalRowsStep DEF scanObservesExternal, webhookExternalRefund
  <1>6. ASSUME NEW r \in Requests, scanObserves(r) PROVE RowsStep
    <2>1. PICK i \in DOMAIN stripe[r] :
            observeUnlinked(r, stripe[r][i], 0, FALSE) \/ observeLinked(r, stripe[r][i], 0)
      BY <1>6 DEF scanObserves
    <2> QED BY <2>1, InHistory, ObservedRowsStep
  <1>7. ASSUME NEW r \in Requests, NEW i \in 1..MaxMoves, webhookRefund(r, i) PROVE RowsStep
    <2>1. /\ i \in DOMAIN stripe[r]
          /\ observeUnlinked(r, stripe[r][i], i, i = 1) \/ observeLinked(r, stripe[r][i], i)
      BY <1>7 DEF webhookRefund
    <2> QED BY <2>1, InHistory, ObservedRowsStep
  <1>8. ASSUME NEW r \in Requests, NEW i \in 1..MaxMoves, observeLinkedRefund(r, i) PROVE RowsStep
    <2>1. PICK res :
            /\ i \in DOMAIN stripe[r] /\ CanIdentify(row[r], r, stripe[r][i], 0, res)
            /\ row' = [row EXCEPT ![r] = markRefundIdentified(row[r], r, stripe[r][i], 0, res)]
      BY <1>8 DEF observeLinkedRefund
    <2>2. RowStep(r, row[r], markRefundIdentified(row[r], r, stripe[r][i], 0, res))
      BY <2>1, InHistory, IdentifiedRowStep
    <2> QED BY <2>1, <2>2, OneRowStep
  <1>9. CASE scanBegins \/ scanFails \/ \E r \in Requests : Age(r)
    BY <1>9, NoRowStep DEF scanBegins, scanFails, Age
  <1> QED BY <1>1, <1>2, <1>3, <1>4, <1>5, <1>6, <1>7, <1>8, <1>9,
             LoadRowsStep, RecoverRowsStep, CommitRowsStep
          DEF Next, ScanStep

-------------------------------------------------------------------------------
(* The history of a refund at Stripe only grows.                             *)
HistoryStep(s, t) ==
  \/ t = s
  \/ s # <<>> /\ \E x \in RefundStatus : <<s[Len(s)], x>> \in StripeMoves /\ t = Append(s, x)
  \/ s = <<>> /\ \E x \in InitialRefundStatus : t = <<x>>

HistoryGrows == \A r \in Requests : HistoryStep(stripe[r], stripe'[r])

LEMMA CallLandsGrows ==
  ASSUME TypeOK, NEW r \in Requests, CallLands(r)
  PROVE  HistoryGrows /\ stripe'[r] # <<>>
  <1>1. CASE HasRefund(r) /\ UNCHANGED stripe
    BY <1>1 DEF HistoryGrows, HistoryStep, HasRefund
  <1>2. CASE ~HasRefund(r) /\ \E s \in InitialRefundStatus : stripe' = [stripe EXCEPT ![r] = <<s>>]
    <2>1. PICK s \in InitialRefundStatus : stripe' = [stripe EXCEPT ![r] = <<s>>]
      BY <1>2
    <2>2. stripe'[r] = <<s>> /\ \A q \in Requests : q # r => stripe'[q] = stripe[q]
      BY <2>1 DEF TypeOK, StripeTypeOK
    <2>3. <<s>> # <<>>
      OBVIOUS
    <2> QED BY <1>2, <2>2, <2>3 DEF HistoryGrows, HistoryStep, HasRefund
  <1> QED BY <1>1, <1>2 DEF CallLands

LEMMA StripeGrows ==
  ASSUME TypeOK, HandlersBound, Next
  PROVE  HistoryGrows
  <1>1. ASSUME UNCHANGED stripe PROVE HistoryGrows
    BY <1>1 DEF HistoryGrows, HistoryStep
  <1>2. CASE StripeStep
    <2>1. ASSUME NEW r \in Requests, RefundMoves(r) PROVE HistoryGrows
      <3>1. PICK s \in RefundStatus :
              <<Current(r), s>> \in StripeMoves /\ stripe' = [stripe EXCEPT ![r] = Append(@, s)]
        BY <2>1 DEF RefundMoves
      <3>2. stripe'[r] = Append(stripe[r], s)
            /\ \A q \in Requests : q # r => stripe'[q] = stripe[q]
        BY <3>1 DEF TypeOK, StripeTypeOK
      <3>3. HasRefund(r)
        BY <2>1 DEF RefundMoves
      <3> QED BY <3>1, <3>2, <3>3 DEF HistoryGrows, HistoryStep, Current, HasRefund
    <2> QED BY <1>1, <1>2, <2>1, CallLandsGrows
            DEF StripeStep, StrayLands, StrayIsLost, ExternalRefund
  <1>3. ASSUME NEW h \in Handlers, HandlerStep(h) PROVE HistoryGrows
    <2>1. CASE createRefund(h)
      <3>1. hand[h].req \in Requests
        BY <2>1 DEF createRefund, Answered, HandlersBound
      <3> QED BY <2>1, <3>1, CallLandsGrows DEF createRefund
    <2> QED BY <1>1, <1>3, <2>1 DEF HandlerStep, Record, Recorded, recordTerminalWithoutEffect,
            recordIdentifiedRefund, recordRetryableAttemptFailure, recordAmbiguousAttemptFailure,
            recordTerminalAttemptWithoutEffect, persistEffectBoundary, preflightClears,
            preflightRefuses, preflightFails, callRefused, callTimesOut, stripeVars
  <1>4. CASE PlatformStep
    BY <1>1, <1>4 DEF PlatformStep, createRequest, decideApprove, closeRequest, updateSettings,
       applyWebhookDeauthorization, provisionWebhookInstallation, stripeVars
  <1>5. ASSUME NEW h \in Handlers,
               Crash(h) \/ Expire(h) \/ \E r \in Requests : loadRefundExecution(h, r)
        PROVE  HistoryGrows
    BY <1>1, <1>5 DEF Crash, Expire, loadRefundExecution, stripeVars
  <1>6. CASE ScanStep
    BY <1>1, <1>6 DEF ScanStep, scanBegins, scanObserves, scanObservesExternal, scanFails,
       commitReconciliationCheckpoint, stripeVars
  <1>7. ASSUME NEW r \in Requests,
               recoverExecution(r) \/ Age(r)
                 \/ \E i \in 1..MaxMoves : webhookRefund(r, i) \/ observeLinkedRefund(r, i)
        PROVE  HistoryGrows
    BY <1>1, <1>7 DEF recoverExecution, Age, webhookRefund, observeLinkedRefund, stripeVars
  <1>8. ASSUME NEW p \in Payments, webhookExternalRefund(p) PROVE HistoryGrows
    BY <1>1, <1>8 DEF webhookExternalRefund, stripeVars
  <1> QED BY <1>2, <1>3, <1>4, <1>5, <1>6, <1>7, <1>8 DEF Next

LEMMA SeenGrows ==
  ASSUME TypeOK, TypeOK', NEW r \in Requests, HistoryStep(stripe[r], stripe'[r])
  PROVE  /\ \A st \in Seen(r) : st \in Seen(r)'
         /\ HasRefund(r) => HasRefund(r)'
  <1> DEFINE s == stripe[r]
             t == stripe'[r]
  <1>1. s \in Seq(RefundStatus) /\ t \in Seq(RefundStatus)
    BY DEF TypeOK, StripeTypeOK
  <1>2. CASE t = s
    BY <1>2 DEF Seen, HasRefund
  <1>3. CASE s = <<>>
    <2>1. DOMAIN s = {}
      BY <1>3
    <2> QED BY <1>3, <2>1 DEF Seen, HasRefund
  <1>4. ASSUME NEW x \in RefundStatus, t = Append(s, x) PROVE /\ \A st \in Seen(r) : st \in Seen(r)'
                                                             /\ HasRefund(r)'
    <2>1. \A i \in DOMAIN s : i \in DOMAIN t /\ t[i] = s[i]
      BY <1>1, <1>4
    <2>2. t # <<>>
      <3>1. Len(t) = Len(s) + 1 /\ Len(s) \in Nat
        BY <1>1, <1>4
      <3> HIDE DEF s, t
      <3> QED BY <3>1
    <2> QED BY <2>1, <2>2 DEF Seen, HasRefund
  <1> QED BY <1>2, <1>3, <1>4 DEF HistoryStep

-------------------------------------------------------------------------------
(* Evidence is kept: a handler is answered with a refund only by the call    *)
(* that made it or found it, and a candidate is recorded only of one of the  *)
(* statuses Stripe has given the refund.                                     *)
HandsEvident ==
  \A g \in Handlers :
    HandEvidence(hand[g])' \/ (hand'[g].step = hand[g].step /\ hand'[g].answer = hand[g].answer
                               /\ hand'[g].req = hand[g].req)

LEMMA OneHandEvident ==
  ASSUME TypeOK, NEW h \in Handlers, NEW w, hand' = [hand EXCEPT ![h] = w],
         \/ w.step # "answered" \/ w.answer # "refund" \/ stripe'[w.req] # <<>>
         \/ w.step = hand[h].step /\ w.answer = hand[h].answer /\ w.req = hand[h].req
  PROVE  HandsEvident
  <1>1. hand'[h] = w /\ \A g \in Handlers : g # h => hand'[g] = hand[g]
    BY DEF TypeOK, WorkerTypeOK
  <1> QED BY <1>1 DEF HandsEvident, HandEvidence, HasRefund

LEMMA HandlerStepEvident ==
  ASSUME TypeOK, HandlersBound, NEW h \in Handlers, HandlerStep(h)
  PROVE  HandsEvident
  <1>1. hand \in [Handlers -> HandType] /\ hand[h] \in HandType
    BY DEF TypeOK, WorkerTypeOK, HandType
  <1>2. ASSUME NEW o, JobEnds(h, o) PROVE HandsEvident
    <2>1. hand' = [hand EXCEPT ![h] = Idle] /\ Idle.step # "answered"
      BY <1>2 DEF JobEnds, Idle
    <2> QED BY <2>1, OneHandEvident
  <1>3. ASSUME NEW s \in {"refused", "cleared"}, Step(h, s) PROVE HandsEvident
    <2> DEFINE w == [hand[h] EXCEPT !.step = s]
    <2>1. hand' = [hand EXCEPT ![h] = w] /\ w.step = s
      BY <1>1, <1>3 DEF Step, HandType
    <2> HIDE DEF w
    <2> QED BY <2>1, OneHandEvident
  <1>4. CASE preflightClears(h) \/ preflightRefuses(h) \/ preflightFails(h)
    BY <1>2, <1>3, <1>4 DEF preflightClears, preflightRefuses, preflightFails
  <1>5. CASE persistEffectBoundary(h)
    <2>1. CASE Executable(hand[h].req)
      <3> DEFINE n == Len(row[hand[h].req].attempts) + 1
                 w == [hand[h] EXCEPT !.step = "calling", !.attempt = n]
      <3> HIDE DEF n
      <3>1. hand' = [hand EXCEPT ![h] = w] /\ w.step = "calling"
        BY <1>1, <1>5, <2>1 DEF persistEffectBoundary, HandType, n
      <3> HIDE DEF w
      <3> QED BY <3>1, OneHandEvident
    <2> QED BY <1>2, <1>5, <2>1 DEF persistEffectBoundary
  <1>6. ASSUME NEW a, Answered(h, a), a = "refund" => stripe'[hand[h].req] # <<>>
        PROVE  HandsEvident
    <2> DEFINE w == [hand[h] EXCEPT !.step = "answered", !.answer = a]
    <2>1. hand' = [hand EXCEPT ![h] = w] /\ w.answer = a /\ w.req = hand[h].req
      BY <1>1, <1>6 DEF Answered, HandType
    <2>2. w.answer # "refund" \/ stripe'[w.req] # <<>>
      BY <1>6, <2>1
    <2> HIDE DEF w
    <2> QED BY <2>1, <2>2, OneHandEvident
  <1>7. CASE createRefund(h)
    <2>1. hand[h].req \in Requests
      BY <1>7 DEF createRefund, Answered, HandlersBound
    <2> QED BY <1>6, <1>7, <2>1, CallLandsGrows DEF createRefund
  <1>8. CASE callTimesOut(h) \/ \E a \in {"retryable", "terminal"} : callRefused(h, a)
    BY <1>6, <1>8 DEF callTimesOut, callRefused
  <1>9. CASE Record(h)
    BY <1>2, <1>9 DEF Record, Recorded, recordTerminalWithoutEffect, recordIdentifiedRefund,
       recordRetryableAttemptFailure, recordAmbiguousAttemptFailure,
       recordTerminalAttemptWithoutEffect
  <1> QED BY <1>4, <1>5, <1>7, <1>8, <1>9 DEF HandlerStep

LEMMA WorkerEvident ==
  ASSUME TypeOK, HandlersBound, Next
  PROVE  HandsEvident
  <1>1. ASSUME UNCHANGED hand PROVE HandsEvident
    BY <1>1 DEF HandsEvident
  <1>2. CASE PlatformStep \/ StripeStep
    BY <1>1, <1>2 DEF PlatformStep, createRequest, decideApprove, closeRequest, updateSettings,
       applyWebhookDeauthorization, provisionWebhookInstallation, StripeStep, RefundMoves,
       StrayLands, StrayIsLost, ExternalRefund, workerVars
  <1>3. ASSUME NEW h \in Handlers, NEW r \in Requests, loadRefundExecution(h, r)
        PROVE  HandsEvident
    <2> DEFINE w == [Idle EXCEPT !.step = "loaded", !.req = r]
    <2>1. w.step = "loaded"
      BY DEF Idle
    <2>2. hand' = [hand EXCEPT ![h] = w] \/ UNCHANGED hand
      BY <1>3 DEF loadRefundExecution
    <2> HIDE DEF w
    <2> QED BY <1>1, <2>1, <2>2, OneHandEvident
  <1>4. ASSUME NEW h \in Handlers, Crash(h) PROVE HandsEvident
    <2>1. hand' = [hand EXCEPT ![h] = Idle] /\ Idle.step # "answered"
      BY <1>4 DEF Crash, JobEnds, Idle
    <2> QED BY <2>1, OneHandEvident
  <1>5. ASSUME NEW h \in Handlers, Expire(h) PROVE HandsEvident
    <2> DEFINE w == [hand[h] EXCEPT !.zombie = TRUE]
    <2>1. hand[h] \in HandType /\ hand' = [hand EXCEPT ![h] = w]
      BY <1>5 DEF Expire, TypeOK, WorkerTypeOK, HandType
    <2>2. w.step = hand[h].step /\ w.answer = hand[h].answer /\ w.req = hand[h].req
      BY <2>1 DEF HandType
    <2> HIDE DEF w
    <2> QED BY <2>1, <2>2, OneHandEvident
  <1>6. ASSUME NEW r \in Requests, recoverExecution(r) PROVE HandsEvident
    BY <1>1, <1>6 DEF recoverExecution
  <1>7. CASE ScanStep
    BY <1>1, <1>7 DEF ScanStep, scanBegins, scanObserves, scanObservesExternal, scanFails,
       commitReconciliationCheckpoint
  <1>8. ASSUME NEW r \in Requests,
               Age(r) \/ \E i \in 1..MaxMoves : webhookRefund(r, i) \/ observeLinkedRefund(r, i)
        PROVE  HandsEvident
    BY <1>1, <1>8 DEF Age, webhookRefund, observeLinkedRefund, workerVars
  <1>9. ASSUME NEW p \in Payments, webhookExternalRefund(p) PROVE HandsEvident
    BY <1>1, <1>9 DEF webhookExternalRefund, workerVars
  <1> QED BY <1>2, <1>3, <1>4, <1>5, <1>6, <1>7, <1>8, <1>9, HandlerStepEvident DEF Next

LEMMA CandidateEvident ==
  ASSUME TypeOK, Evidence, NEW r \in Requests, NEW st \in Seen(r), NEW at, NEW ev, NEW exact,
         NEW scanned, recordRefundCorrelationCandidate(r, st, at, ev, exact, scanned)
  PROVE  \A q \in Requests : CandEvidence(q, cand'[q])
  <1>1. /\ cand'[r].known = TRUE
        /\ cand'[r].status = st \/ (cand[r].known /\ cand'[r].status = cand[r].status)
        /\ \A q \in Requests : q # r => cand'[q] = cand[q]
    BY DEF TypeOK, DeskTypeOK, recordRefundCorrelationCandidate
  <1>2. cand'[r].status \in Seen(r)
    BY <1>1 DEF Evidence, CandEvidence
  <1> QED BY <1>1, <1>2 DEF Evidence, CandEvidence

LEMMA CandidatesEvident ==
  ASSUME TypeOK, Evidence, Next
  PROVE  \A q \in Requests : CandEvidence(q, cand'[q])
  <1>1. ASSUME UNCHANGED cand PROVE \A q \in Requests : CandEvidence(q, cand'[q])
    BY <1>1 DEF Evidence
  <1>2. CASE PlatformStep \/ StripeStep
    BY <1>1, <1>2 DEF PlatformStep, createRequest, decideApprove, closeRequest, updateSettings,
       applyWebhookDeauthorization, provisionWebhookInstallation, StripeStep, RefundMoves,
       StrayLands, StrayIsLost, ExternalRefund
  <1>3. ASSUME NEW h \in Handlers, HandlerStep(h)
        PROVE  \A q \in Requests : CandEvidence(q, cand'[q])
    BY <1>1, <1>3 DEF HandlerStep, Record, Recorded, recordTerminalWithoutEffect,
       recordIdentifiedRefund, recordRetryableAttemptFailure, recordAmbiguousAttemptFailure,
       recordTerminalAttemptWithoutEffect, persistEffectBoundary, preflightClears,
       preflightRefuses, preflightFails, createRefund, callRefused, callTimesOut, Answered
  <1>4. ASSUME NEW h \in Handlers,
               Crash(h) \/ Expire(h) \/ \E r \in Requests : loadRefundExecution(h, r)
        PROVE  \A q \in Requests : CandEvidence(q, cand'[q])
    BY <1>1, <1>4 DEF Crash, Expire, loadRefundExecution
  <1>5. CASE \/ scanBegins \/ scanFails \/ commitReconciliationCheckpoint
             \/ \E p \in Payments : scanObservesExternal(p) \/ webhookExternalRefund(p)
    BY <1>1, <1>5 DEF scanBegins, scanObservesExternal, scanFails,
       commitReconciliationCheckpoint, webhookExternalRefund
  <1>6. ASSUME NEW r \in Requests, scanObserves(r)
        PROVE  \A q \in Requests : CandEvidence(q, cand'[q])
    <2>1. PICK i \in DOMAIN stripe[r] : recordRefundCorrelationCandidate(
            r, stripe[r][i], 2 * scan.began[r] + 1, 0, FALSE, TRUE)
      BY <1>6 DEF scanObserves
    <2> QED BY <2>1, InHistory, CandidateEvident
  <1>7. ASSUME NEW r \in Requests, NEW i \in 1..MaxMoves, webhookRefund(r, i)
        PROVE  \A q \in Requests : CandEvidence(q, cand'[q])
    <2>1. /\ i \in DOMAIN stripe[r]
          /\ recordRefundCorrelationCandidate(r, stripe[r][i], 2 * i, i, i = 1, FALSE)
      BY <1>7 DEF webhookRefund
    <2> QED BY <2>1, InHistory, CandidateEvident
  <1>8. ASSUME NEW r \in Requests,
               Age(r) \/ recoverExecution(r) \/ \E i \in 1..MaxMoves : observeLinkedRefund(r, i)
        PROVE  \A q \in Requests : CandEvidence(q, cand'[q])
    BY <1>1, <1>8 DEF Age, recoverExecution, observeLinkedRefund
  <1> QED BY <1>2, <1>3, <1>4, <1>5, <1>6, <1>7, <1>8 DEF Next, ScanStep

LEMMA EvidenceKept ==
  ASSUME TypeOK, TypeOK', HandlersBound, Evidence, Next
  PROVE  Evidence'
  <1>1. ASSUME NEW r \in Requests
        PROVE  /\ \A st \in Seen(r) : st \in Seen(r)'
               /\ HasRefund(r) => HasRefund(r)'
    BY StripeGrows, SeenGrows DEF HistoryGrows
  <1>2. ASSUME NEW h \in Handlers PROVE HandEvidence(hand[h])'
    <2>1. CASE hand'[h].step = hand[h].step /\ hand'[h].answer = hand[h].answer
               /\ hand'[h].req = hand[h].req
      <3>1. CASE hand[h].step = "answered" /\ hand[h].answer = "refund"
        <4>1. hand[h].req \in Requests /\ HasRefund(hand[h].req)
          BY <3>1 DEF HandlersBound, Evidence, HandEvidence
        <4>2. stripe'[hand[h].req] # <<>>
          BY <1>1, <4>1 DEF HasRefund
        <4> QED BY <2>1, <4>2 DEF HandEvidence, HasRefund
      <3> QED BY <2>1, <3>1 DEF HandEvidence
    <2> QED BY <2>1, WorkerEvident DEF HandsEvident
  <1>3. ASSUME NEW r \in Requests PROVE CandEvidence(r, cand[r])'
    BY <1>1, CandidatesEvident DEF CandEvidence
  <1> QED BY <1>2, <1>3 DEF Evidence

-------------------------------------------------------------------------------
(* The revisions that the attempts account for.                              *)
Retryable(s) == {i \in DOMAIN s : s[i] = "retryable_failure"}

LEMMA RetryableFinite ==
  ASSUME NEW s \in Seq(AttemptState)
  PROVE  IsFiniteSet(Retryable(s)) /\ Cardinality(Retryable(s)) \in Nat /\ Len(s) \in Nat
  <1>1. DOMAIN s = 1..Len(s) /\ Len(s) \in Nat
    OBVIOUS
  <1>2. IsFiniteSet(1..Len(s))
    BY <1>1, FS_Interval
  <1>3. Retryable(s) \subseteq 1..Len(s)
    BY <1>1 DEF Retryable
  <1>4. IsFiniteSet(Retryable(s))
    BY <1>2, <1>3, FS_Subset
  <1> QED BY <1>1, <1>4, FS_CardinalityType

LEMMA RevisionCostValue ==
  ASSUME NEW s \in Seq(AttemptState)
  PROVE  RevisionCost(s) = 4 * Len(s) - 2 * Cardinality(Retryable(s))
  BY DEF RevisionCost, Retryable

(* A new attempt costs four revisions, for now.                              *)
LEMMA CostOfBeginning ==
  ASSUME NEW s \in Seq(AttemptState)
  PROVE  LET t == Append(s, "started")
         IN  /\ t \in Seq(AttemptState) /\ t # <<>>
             /\ RevisionCost(t) = RevisionCost(s) + 4
             /\ \A i \in DOMAIN t : t[i] = "started" \/ (i \in DOMAIN s /\ t[i] = s[i])
  <1> DEFINE t == Append(s, "started")
  <1>1. "started" \in AttemptState
    BY DEF AttemptState
  <1>2. t \in Seq(AttemptState) /\ Len(t) = Len(s) + 1 /\ Len(s) \in Nat
    BY <1>1
  <1>3. \A i \in DOMAIN t : t[i] = "started" \/ (i \in DOMAIN s /\ t[i] = s[i])
    BY <1>1
  <1>4. \A i \in DOMAIN s : i \in DOMAIN t /\ t[i] = s[i]
    BY <1>1
  <1> HIDE DEF t
  <1>5. Retryable(t) = Retryable(s)
    BY <1>3, <1>4 DEF Retryable
  <1>6. RevisionCost(t) = RevisionCost(s) + 4
    BY <1>2, <1>5, RevisionCostValue, RetryableFinite
  <1>7. t # <<>>
    BY <1>2
  <1> QED BY <1>2, <1>3, <1>6, <1>7 DEF t

(* An attempt that ends retryable gives two of them back, any other none.    *)
LEMMA CostOfFinishing ==
  ASSUME NEW s \in Seq(AttemptState), NEW n \in DOMAIN s, s[n] = "started", NEW a \in AttemptState
  PROVE  LET t == [s EXCEPT ![n] = a]
         IN  /\ t \in Seq(AttemptState) /\ t # <<>>
             /\ \A i \in DOMAIN t : t[i] = a \/ t[i] = s[i]
             /\ DOMAIN t = DOMAIN s
             /\ RevisionCost(t) = IF a = "retryable_failure" THEN RevisionCost(s) - 2
                                                             ELSE RevisionCost(s)
  <1> DEFINE t == [s EXCEPT ![n] = a]
  <1>1. t \in Seq(AttemptState) /\ Len(t) = Len(s) /\ DOMAIN t = DOMAIN s
    OBVIOUS
  <1>2. t[n] = a /\ \A i \in DOMAIN s : i # n => t[i] = s[i]
    OBVIOUS
  <1>3. n \in 1..Len(s) /\ Len(s) \in Nat
    OBVIOUS
  <1> HIDE DEF t
  <1>4. t # <<>>
    BY <1>1, <1>3
  <1>5. n \notin Retryable(s)
    BY DEF Retryable
  <1>6. CASE a = "retryable_failure"
    <2>1. Retryable(t) = Retryable(s) \cup {n}
      BY <1>1, <1>2, <1>6 DEF Retryable
    <2>2. Cardinality(Retryable(t)) = Cardinality(Retryable(s)) + 1
      BY <1>5, <2>1, RetryableFinite, FS_AddElement
    <2>3. RevisionCost(t) = RevisionCost(s) - 2
      BY <1>1, <1>3, <2>2, RevisionCostValue, RetryableFinite
    <2> QED BY <1>1, <1>2, <1>4, <1>6, <2>3 DEF t
  <1>7. CASE a # "retryable_failure"
    <2>1. Retryable(t) = Retryable(s)
      BY <1>1, <1>2, <1>7 DEF Retryable
    <2>2. RevisionCost(t) = RevisionCost(s)
      BY <1>1, <2>1, RevisionCostValue
    <2> QED BY <1>1, <1>2, <1>4, <1>7, <2>2 DEF t
  <1> QED BY <1>6, <1>7

LEMMA CostType ==
  ASSUME NEW s \in Seq(AttemptState)
  PROVE  RevisionCost(s) \in Int
  BY RevisionCostValue, RetryableFinite

LEMMA CostOfNothing == RevisionCost(<<>>) = 0
  <1> DEFINE e == <<>>
  <1>1. e \in Seq(AttemptState) /\ Len(e) = 0 /\ Retryable(e) = {}
    BY DEF Retryable
  <1>2. Cardinality({}) = 0
    BY FS_EmptySet
  <1> HIDE DEF e
  <1>3. RevisionCost(e) = 4 * Len(e) - 2 * Cardinality(Retryable(e))
    BY <1>1, RevisionCostValue, Zenon
  <1>4. 4 * Len(e) - 2 * Cardinality(Retryable(e)) = 0
    BY <1>1, <1>2
  <1> QED BY <1>3, <1>4 DEF e

-------------------------------------------------------------------------------
(* What is true of every stored request.                                     *)

(* The link is to the request's own refund or to none, an identified effect  *)
(* has one, and what is not linked carries no observation.                   *)
Linked(r, v) ==
  /\ v.link \in {NoRefund, r}
  /\ v.status = "absent" => v = AbsentRow
  /\ v.effect = "identified" => v.link = r
  /\ v.link = NoRefund => v.refundStatus = "none" /\ v.lastEvent = 0

(* What is linked exists at Stripe, and what succeeded has succeeded there.  *)
Real(r, v) ==
  /\ v.status = "succeeded" => v.link = r /\ "succeeded" \in Seen(r)
  /\ v.link = r => HasRefund(r)

Attempted(v) ==
  /\ v.exec = TRUE /\ v.link = NoRefund /\ v.attempts # <<>>
  /\ \A i \in DOMAIN v.attempts : v.attempts[i] \notin {"completed", "terminal_failure"}

(* The ledger: the revisions of a request that is not linked, by where it is.*)
Ledger(v) ==
  /\ v.effect = "not_started" => v.exec = FALSE /\ v.link = NoRefund /\ v.attempts = <<>>
  /\ v.status = "pending_approval" => v.rev = 0
  /\ v.status = "approved" => v.rev = 1
  /\ v.status = "executing" /\ v.effect = "not_started" => v.rev = 2
  /\ v.status \in {"executing", "reconciliation_required"}
       /\ v.effect \in {"possible", "absence_proven"} => Attempted(v)
  /\ v.status = "executing" /\ v.effect = "absence_proven"
       => v.rev = RevisionCost(v.attempts) + 2
  /\ v.status = "executing" /\ v.effect = "possible" => v.rev = RevisionCost(v.attempts) - 1
  /\ v.status = "reconciliation_required" /\ v.effect = "possible"
       => v.rev = RevisionCost(v.attempts)

LEMMA LinkedStep ==
  ASSUME NEW r \in Requests, NEW v \in Row(Requests), NEW w \in Row(Requests),
         Linked(r, v), RowStep(r, v, w)
  PROVE  Linked(r, w)
  <1>1. r # NoRefund
    BY ConstantsAssumption
  <1>2. CASE w = v
    BY <1>2
  <1>3. CASE w = createRefundRequest
    BY <1>3 DEF Linked, createRefundRequest, AbsentRow
  <1>4. CASE Moves(v, w)
    <2>1. PICK k \in {1, 2}, a \in AttemptState \cup {"none"} :
            MoveKind(v.status, v.effect, w.status, w.effect, k, a)
      BY <1>4 DEF Moves
    <2>2. w.status # "absent" /\ (w.effect = "identified" => v.effect = "identified")
      BY <2>1 DEF MoveKind
    <2>3. SameLink(v, w)
      BY <1>4 DEF Moves
    <2> QED BY <2>2, <2>3 DEF Linked, SameLink
  <1>5. CASE Begins(v, w)
    BY <1>5 DEF Begins, Linked
  <1>6. ASSUME NEW st, NEW ev, Identifies(r, v, w, st, ev) PROVE Linked(r, w)
    <2>1. v.status # "absent"
      <3>1. v.exec = TRUE
        BY <1>6 DEF Identifies
      <3>2. AbsentRow.exec = FALSE
        BY DEF AbsentRow
      <3> QED BY <3>1, <3>2 DEF Linked
    <2>2. CASE shouldApplyRefundObservation(v, st, ev)
      <3>1. w.link = r /\ OutcomeKind(v, w, st)
        BY <1>6, <2>2 DEF Identifies
      <3>2. w.status # "absent"
        BY <2>1, <3>1 DEF OutcomeKind
      <3> QED BY <1>1, <3>1, <3>2 DEF Linked
    <2>3. CASE ~shouldApplyRefundObservation(v, st, ev)
      <3>1. SameLink(v, w) /\ w.status = v.status /\ w.effect = v.effect
        BY <1>6, <2>3 DEF Identifies
      <3> QED BY <2>1, <3>1 DEF Linked, SameLink
    <2> QED BY <2>2, <2>3
  <1> QED BY <1>2, <1>3, <1>4, <1>5, <1>6 DEF RowStep

LEMMA RealStep ==
  ASSUME NEW r \in Requests, NEW v \in Row(Requests), NEW w \in Row(Requests),
         Linked(r, v), Real(r, v), RowStep(r, v, w)
  PROVE  Real(r, w)
  <1>1. r # NoRefund
    BY ConstantsAssumption
  <1>2. CASE w = v
    BY <1>2
  <1>3. CASE w = createRefundRequest
    BY <1>1, <1>3 DEF Real, createRefundRequest, AbsentRow
  <1>4. CASE Moves(v, w)
    <2>1. PICK k \in {1, 2}, a \in AttemptState \cup {"none"} :
            MoveKind(v.status, v.effect, w.status, w.effect, k, a)
      BY <1>4 DEF Moves
    <2>2. w.status # "succeeded"
      BY <2>1 DEF MoveKind
    <2>3. SameLink(v, w)
      BY <1>4 DEF Moves
    <2> QED BY <2>2, <2>3 DEF Real, SameLink
  <1>5. CASE Begins(v, w)
    BY <1>5 DEF Begins, Real
  <1>6. ASSUME HasRefund(r), NEW st \in Seen(r) \cup {"none"}, NEW ev \in Nat,
               Identifies(r, v, w, st, ev)
        PROVE  Real(r, w)
    <2>1. CASE shouldApplyRefundObservation(v, st, ev)
      <3>1. w.link = r /\ OutcomeKind(v, w, st)
        BY <1>6, <2>1 DEF Identifies
      <3>2. w.status = "succeeded" => v.status = "succeeded" \/ st = "succeeded"
        BY <3>1 DEF OutcomeKind
      <3> QED BY <1>6, <3>1, <3>2 DEF Real
    <2>2. CASE ~shouldApplyRefundObservation(v, st, ev)
      <3>1. SameLink(v, w) /\ w.status = v.status
        BY <1>6, <2>2 DEF Identifies
      <3> QED BY <3>1 DEF Real, SameLink
    <2> QED BY <2>1, <2>2
  <1> QED BY <1>2, <1>3, <1>4, <1>5, <1>6 DEF RowStep

(* What has finished in a move: nothing, or one attempt in state a.          *)
LEMMA FinishedAttempts ==
  ASSUME NEW v \in Row(Requests), NEW w \in Row(Requests), NEW a \in AttemptState \cup {"none"},
         Finishes(v, w, a)
  PROVE  /\ a = "none" => w.attempts = v.attempts
         /\ v.attempts = <<>> => w.attempts = <<>>
         /\ a \notin {"none", "completed", "terminal_failure"} /\ Attempted(v) =>
              /\ w.attempts # <<>>
              /\ \A i \in DOMAIN w.attempts : w.attempts[i] \notin {"completed", "terminal_failure"}
         /\ RevisionCost(w.attempts) = IF a = "retryable_failure" THEN RevisionCost(v.attempts) - 2
                                       ELSE RevisionCost(v.attempts)
  <1>1. CASE a = "none"
    BY <1>1 DEF Finishes
  <1>2. CASE a # "none"
    <2>1. PICK n \in Nat : CanFinishAttempt(v, n) /\ w.attempts = [v.attempts EXCEPT ![n] = a]
      BY <1>2 DEF Finishes
    <2> DEFINE s == v.attempts
               t == w.attempts
    <2>2. s \in Seq(AttemptState) /\ n \in DOMAIN s /\ s[n] = "started" /\ a \in AttemptState
      BY <1>2, <2>1 DEF CanFinishAttempt, Row
    <2>3. /\ t # <<>> /\ DOMAIN t = DOMAIN s
          /\ \A i \in DOMAIN t : t[i] = a \/ t[i] = s[i]
          /\ RevisionCost(t) = IF a = "retryable_failure" THEN RevisionCost(s) - 2
                                                          ELSE RevisionCost(s)
      BY <2>1, <2>2, CostOfFinishing
    <2>4. s # <<>>
      BY <2>2
    <2> QED BY <1>2, <2>3, <2>4 DEF Attempted
  <1> QED BY <1>1, <1>2

LEMMA LedgerMove ==
  ASSUME NEW v \in Row(Requests), NEW w \in Row(Requests), Coherent(v), Ledger(v), Moves(v, w)
  PROVE  Ledger(w)
  <1>1. PICK k \in {1, 2}, a \in AttemptState \cup {"none"} :
          /\ MoveKind(v.status, v.effect, w.status, w.effect, k, a)
          /\ SameLink(v, w) /\ Finishes(v, w, a)
          /\ v.link = NoRefund => w.rev = v.rev + k
    BY DEF Moves
  <1>2. /\ a = "none" => w.attempts = v.attempts
        /\ v.attempts = <<>> => w.attempts = <<>>
        /\ a \notin {"none", "completed", "terminal_failure"} /\ Attempted(v) =>
             /\ w.attempts # <<>>
             /\ \A i \in DOMAIN w.attempts : w.attempts[i] \notin {"completed", "terminal_failure"}
        /\ RevisionCost(w.attempts) = IF a = "retryable_failure" THEN RevisionCost(v.attempts) - 2
                                      ELSE RevisionCost(v.attempts)
    BY <1>1, FinishedAttempts
  <1>3. /\ v.rev \in Nat /\ w.rev \in Nat
        /\ RevisionCost(v.attempts) \in Int /\ RevisionCost(w.attempts) \in Int
    <2>1. v.attempts \in Seq(AttemptState) /\ w.attempts \in Seq(AttemptState)
          /\ v.rev \in Nat /\ w.rev \in Nat
      BY DEF Row
    <2> QED BY <2>1, CostType
  <1>4. w.exec = v.exec /\ w.link = v.link
    BY <1>1 DEF SameLink
  <1>5. a \notin {"completed", "terminal_failure"} /\ Attempted(v) => Attempted(w)
    <2>1. CASE a = "none"
      BY <1>2, <1>4, <2>1 DEF Attempted
    <2>2. CASE a # "none"
      BY <1>2, <1>4, <2>2 DEF Attempted
    <2> QED BY <2>1, <2>2
  <1>6. v.effect = "not_started" =>
          v.exec = FALSE /\ v.link = NoRefund /\ v.attempts = <<>> /\ w.attempts = <<>>
    BY <1>2 DEF Ledger
  <1>7. CASE v.effect = "not_started"
    <2>1. w.effect = "not_started" => w.exec = FALSE /\ w.link = NoRefund /\ w.attempts = <<>>
      BY <1>4, <1>6, <1>7
    <2>2. w.rev = v.rev + k
      BY <1>1, <1>6, <1>7
    <2>3. CASE w.effect = "not_started"
      <3>1. \/ v.status = "pending_approval" /\ w.status = "approved" /\ k = 1
            \/ w.status \notin {"pending_approval", "approved", "executing"}
            \/ v.status = "approved" /\ w.status = "executing" /\ k = 1
        BY <1>1, <1>7, <2>3 DEF MoveKind
      <3> QED BY <1>3, <2>1, <2>2, <2>3, <3>1 DEF Ledger
    <2>4. CASE w.effect # "not_started"
      <3>1. w.status \in {"stale", "failed_terminal"}
        BY <1>1, <1>7, <2>4 DEF MoveKind
      <3> QED BY <2>4, <3>1 DEF Ledger
    <2> QED BY <2>3, <2>4
  <1>8. CASE v.effect # "not_started"
    <2>1. w.effect # "not_started" /\ w.status \notin {"pending_approval", "approved"}
      BY <1>1, <1>8 DEF MoveKind, Coherent
    <2>2. CASE w.status \notin {"executing", "reconciliation_required"}
      BY <2>1, <2>2 DEF Ledger
    <2>3. CASE w.effect = "identified"
      BY <2>1, <2>3 DEF Ledger
    <2>4. CASE w.status = "reconciliation_required" /\ w.effect # "identified"
      <3>1. v.status = "executing" /\ w.effect = v.effect /\ k = 1
            /\ a \in {"none", "ambiguous_failure"}
        BY <1>1, <2>4 DEF MoveKind
      <3>2. v.effect \in {"possible", "absence_proven"}
        BY <1>8, <2>4, <3>1 DEF Row, EffectState
      <3>3. Attempted(v)
        BY <3>1, <3>2 DEF Ledger
      <3>4. Attempted(w) /\ w.rev = v.rev + 1 /\ RevisionCost(w.attempts) = RevisionCost(v.attempts)
        BY <1>1, <1>2, <1>5, <3>1, <3>3 DEF Attempted
      <3>5. w.effect = "possible" => w.rev = RevisionCost(w.attempts)
        BY <1>3, <3>1, <3>4 DEF Ledger
      <3> QED BY <2>1, <2>4, <3>4, <3>5 DEF Ledger
    <2>5. CASE w.status = "executing" /\ w.effect # "identified"
      <3>1. /\ v.effect = "possible" /\ w.effect = "absence_proven"
            /\ \/ v.status = "executing" /\ k = 1 /\ a = "retryable_failure"
               \/ v.status = "reconciliation_required" /\ k = 2 /\ a = "none"
        BY <1>1, <1>8, <2>5 DEF MoveKind
      <3>2. Attempted(v)
        BY <3>1 DEF Ledger
      <3>3. Attempted(w) /\ w.rev = v.rev + k
        BY <1>1, <1>5, <3>1, <3>2 DEF Attempted
      <3>4. w.rev = RevisionCost(w.attempts) + 2
        BY <1>2, <1>3, <3>1, <3>3 DEF Ledger
      <3> QED BY <2>1, <2>5, <3>1, <3>3, <3>4 DEF Ledger
    <2> QED BY <2>2, <2>3, <2>4, <2>5
  <1> QED BY <1>7, <1>8

LEMMA LedgerBegin ==
  ASSUME NEW v \in Row(Requests), NEW w \in Row(Requests), Ledger(v), Begins(v, w)
  PROVE  Ledger(w)
  <1>1. /\ v.status = "executing" /\ v.effect \in {"not_started", "absence_proven"}
        /\ w.status = "executing" /\ w.effect = "possible"
        /\ w.exec = TRUE /\ w.link = NoRefund
        /\ w.attempts = Append(v.attempts, "started") /\ w.rev = v.rev + 1
    BY DEF Begins
  <1>2. v.attempts \in Seq(AttemptState) /\ v.rev \in Nat
    BY DEF Row
  <1>3. /\ w.attempts # <<>> /\ RevisionCost(w.attempts) = RevisionCost(v.attempts) + 4
        /\ \A i \in DOMAIN w.attempts :
             w.attempts[i] = "started"
               \/ (i \in DOMAIN v.attempts /\ w.attempts[i] = v.attempts[i])
    BY <1>1, <1>2, CostOfBeginning
  <1>4. /\ v.rev = RevisionCost(v.attempts) + 2
        /\ \A i \in DOMAIN v.attempts : v.attempts[i] \notin {"completed", "terminal_failure"}
    <2>1. CASE v.effect = "not_started"
      <3>1. v.attempts = <<>> /\ v.rev = 2
        BY <1>1, <2>1 DEF Ledger
      <3>2. RevisionCost(v.attempts) = 0 /\ DOMAIN v.attempts = {}
        BY <3>1, CostOfNothing
      <3> QED BY <3>1, <3>2
    <2>2. CASE v.effect = "absence_proven"
      BY <1>1, <2>2 DEF Ledger, Attempted
    <2> QED BY <1>1, <2>1, <2>2
  <1>5. Attempted(w)
    BY <1>1, <1>3, <1>4 DEF Attempted
  <1>6. w.rev = RevisionCost(w.attempts) - 1
    BY <1>1, <1>2, <1>3, <1>4, CostType
  <1> QED BY <1>1, <1>5, <1>6 DEF Ledger

LEMMA LedgerIdentify ==
  ASSUME NEW r \in Requests, NEW v \in Row(Requests), NEW w \in Row(Requests), Coherent(v),
         Linked(r, v), Ledger(v), NEW st \in Seen(r) \cup {"none"}, NEW ev \in Nat,
         Identifies(r, v, w, st, ev)
  PROVE  Ledger(w)
  <1>1. r # NoRefund
    BY ConstantsAssumption
  <1>2. v.exec = TRUE /\ w.exec = TRUE
    BY DEF Identifies
  <1>3. v.effect # "not_started" /\ v.status \notin {"pending_approval", "approved"}
    BY <1>2 DEF Ledger, Coherent
  <1>4. CASE shouldApplyRefundObservation(v, st, ev)
    <2>1. OutcomeKind(v, w, st)
      BY <1>4 DEF Identifies
    <2>2. /\ w.effect # "not_started" /\ w.status \notin {"pending_approval", "approved"}
          /\ w.status \in {"executing", "reconciliation_required"} => w.effect = "identified"
      BY <1>3, <2>1 DEF OutcomeKind
    <2> QED BY <2>2 DEF Ledger
  <1>5. CASE ~shouldApplyRefundObservation(v, st, ev)
    <2>1. SameLink(v, w) /\ w.status = v.status /\ w.effect = v.effect
      BY <1>5 DEF Identifies
    <2>2. v.link # NoRefund
      BY <1>5 DEF Linked, shouldApplyRefundObservation
    <2>3. w.status \in {"executing", "reconciliation_required"} => w.effect = "identified"
      BY <1>3, <2>1, <2>2 DEF Ledger, Attempted, Row, EffectState
    <2> QED BY <1>3, <2>1, <2>3 DEF Ledger
  <1> QED BY <1>4, <1>5

LEMMA LedgerStep ==
  ASSUME NEW r \in Requests, NEW v \in Row(Requests), NEW w \in Row(Requests), Coherent(v),
         Linked(r, v), Ledger(v), RowStep(r, v, w)
  PROVE  Ledger(w)
  <1>1. CASE w = createRefundRequest
    BY <1>1 DEF Ledger, createRefundRequest, AbsentRow
  <1> QED BY <1>1, LedgerMove, LedgerBegin, LedgerIdentify DEF RowStep

-------------------------------------------------------------------------------
(* The inductive invariant.                                                  *)
RowFacts == \A r \in Requests : Linked(r, row[r]) /\ Ledger(row[r]) /\ Real(r, row[r])

RowInv == Inv /\ Evidence /\ RowFacts

LEMMA InitRowInv == Init => RowInv
  <1> SUFFICES ASSUME Init PROVE RowInv
    OBVIOUS
  <1>1. Inv
    BY InitInv
  <1>2. \A h \in Handlers : HandEvidence(hand[h])
    <2>1. Idle.step = "idle"
      BY DEF Idle
    <2> QED BY <2>1 DEF Init, HandEvidence
  <1>3. \A r \in Requests : CandEvidence(r, cand[r])
    <2>1. NoCandidate.known = FALSE /\ NoCandidate.scanned = FALSE
      BY DEF NoCandidate
    <2>2. \A r \in Requests : cand[r] = NoCandidate
      BY DEF Init
    <2> QED BY <2>1, <2>2 DEF CandEvidence
  <1>4. ASSUME NEW r \in Requests PROVE Linked(r, row[r]) /\ Ledger(row[r]) /\ Real(r, row[r])
    <2>1. row[r] = AbsentRow /\ r # NoRefund
      BY ConstantsAssumption DEF Init
    <2>2. Linked(r, AbsentRow) /\ Ledger(AbsentRow) /\ Real(r, AbsentRow)
      BY <2>1 DEF Linked, Ledger, Real, AbsentRow
    <2> QED BY <2>1, <2>2
  <1> QED BY <1>1, <1>2, <1>3, <1>4 DEF RowInv, Evidence, RowFacts

LEMMA RowFactsKept ==
  ASSUME RowInv, Inv', Next
  PROVE  RowFacts'
  <1>1. TypeOK /\ RowsCoherent /\ HandlersBound /\ Evidence /\ TypeOK'
    BY DEF RowInv, Inv
  <1>2. RowsStep /\ HistoryGrows
    BY <1>1, RowSteps, StripeGrows
  <1>3. ASSUME NEW r \in Requests
        PROVE  Linked(r, row'[r]) /\ Ledger(row'[r]) /\ Real(r, row[r])'
    <2>1. /\ row[r] \in Row(Requests) /\ row'[r] \in Row(Requests) /\ Coherent(row[r])
          /\ Linked(r, row[r]) /\ Ledger(row[r]) /\ Real(r, row[r])
          /\ RowStep(r, row[r], row'[r])
      BY <1>1, <1>2 DEF TypeOK, RowsCoherent, RowInv, RowFacts, RowsStep
    <2>2. Linked(r, row'[r]) /\ Ledger(row'[r]) /\ Real(r, row'[r])
      BY <2>1, LinkedStep, LedgerStep, RealStep
    <2>3. /\ \A st \in Seen(r) : st \in Seen(r)'
          /\ HasRefund(r) => HasRefund(r)'
      BY <1>1, <1>2, SeenGrows DEF HistoryGrows
    <2> QED BY <2>2, <2>3 DEF Real
  <1> QED BY <1>3 DEF RowFacts, Linked, Ledger

LEMMA NextRowInv == RowInv /\ [Next]_vars => RowInv'
  <1> SUFFICES ASSUME RowInv, [Next]_vars PROVE RowInv'
    OBVIOUS
  <1>1. Inv'
    BY NextInv DEF RowInv
  <1>2. CASE Next
    <2>1. TypeOK /\ TypeOK' /\ HandlersBound /\ Evidence
      BY <1>1 DEF RowInv, Inv
    <2> QED BY <1>1, <1>2, <2>1, EvidenceKept, RowFactsKept DEF RowInv
  <1>3. CASE UNCHANGED vars
    BY <1>1, <1>3 DEF vars, RowInv, Evidence, HandEvidence, CandEvidence, RowFacts, Linked, Ledger,
       Real, Seen, HasRefund, Attempted
  <1> QED BY <1>2, <1>3

(* The links, the ledger of the attempts and the evidence behind both hold in*)
(* every reachable state.                                                    *)
THEOREM RowInvariance == Spec => []RowInv
  BY InitRowInv, NextRowInv, PTL DEF Spec

(* A request that succeeded is linked to its own refund, which did succeed   *)
(* at Stripe: no event out of order, no late answer and no scan turns another*)
(* outcome into a success.                                                   *)
THEOREM SuccessReal == Spec => []SuccessIsReal
  <1>1. RowInv => SuccessIsReal
    BY DEF RowInv, RowFacts, Real, SuccessIsReal, Seen
  <1> QED BY <1>1, RowInvariance, PTL

LEMMA LedgerVerifies ==
  ASSUME NEW v \in Row(Requests), Ledger(v), v.status = "executing",
         v.effect \in {"not_started", "absence_proven"}
  PROVE  attestationCompatible(v)
  <1>1. CASE v.effect = "not_started"
    <2>1. ~v.exec /\ v.rev = 2
      BY <1>1 DEF Ledger
    <2> QED BY <1>1, <2>1 DEF attestationCompatible
  <1>2. CASE v.effect = "absence_proven"
    <2>1. Attempted(v) /\ v.rev = RevisionCost(v.attempts) + 2
      BY <1>2 DEF Ledger
    <2>2. v.exec
      BY <2>1 DEF Attempted
    <2>3. v.attempts \in Seq(AttemptState)
      BY DEF Row
    <2>4. /\ Len(v.attempts) > 0 /\ DOMAIN v.attempts = 1..Len(v.attempts)
          /\ v.rev = 2 + RevisionCost(v.attempts)
      BY <2>1, <2>3, CostType DEF Attempted
    <2>5. v.link = NoRefund
          /\ \A i \in 1..Len(v.attempts) : v.attempts[i] \notin {"completed", "terminal_failure"}
      BY <2>1, <2>4 DEF Attempted
    <2> QED BY <1>2, <2>2, <2>4, <2>5 DEF attestationCompatible
  <1> QED BY <1>1, <1>2

(* The approval of an executing request verifies again after any number of   *)
(* crashes, retries and scans: each attempt adds exactly the revisions that  *)
(* approvalAttestationRequestVersionIsCompatible charges for it.             *)
THEOREM AttestationSurvives == Spec => []AttestationSurvivesRecovery
  <1>1. RowInv => AttestationSurvivesRecovery
    BY LedgerVerifies
       DEF RowInv, Inv, TypeOK, RowFacts, AttestationSurvivesRecovery
  <1> QED BY <1>1, RowInvariance, PTL

-------------------------------------------------------------------------------
(* The refinement of RefundLifecycle.                                        *)
LifeOf(v) == [status |-> v.status, effect |-> v.effect, released |-> v.released]
LinkOf(v) == [id |-> v.link, status |-> v.refundStatus, event |-> v.lastEvent]

LEMMA LifeFields ==
  ASSUME NEW v \in Row(Requests)
  PROVE  /\ LifeOf(v).status = v.status /\ LifeOf(v).effect = v.effect
         /\ LifeOf(v).released = v.released
         /\ LinkOf(v).id = v.link /\ LinkOf(v).status = v.refundStatus
         /\ LinkOf(v).event = v.lastEvent
         /\ LifeOf(v) \in Lifecycle!Life /\ LinkOf(v) \in Lifecycle!Link
  BY DEF LifeOf, LinkOf, Row, Lifecycle!Life, Lifecycle!Link, WorkflowStatus, EffectState,
     RefundStatus, Lifecycle!WorkflowStatus, Lifecycle!EffectState, Lifecycle!RefundStatus

(* A move passes the triggers, whatever the status of the refund.            *)
LEMMA MovePermitted ==
  ASSUME NEW v \in Row(Requests), NEW w \in Row(Requests), Coherent(v), Moves(v, w), NEW st
  PROVE  /\ Lifecycle!Permitted(LifeOf(v), LifeOf(w), st)
         /\ v.status # "absent" /\ w.status # "absent"
  <1> DEFINE old == LifeOf(v)
             new == LifeOf(w)
  <1>1. PICK k \in {1, 2}, a \in AttemptState \cup {"none"} :
          /\ MoveKind(v.status, v.effect, w.status, w.effect, k, a)
          /\ w.released = IF w.status \in TerminalStatus THEN TRUE ELSE v.released
    BY DEF Moves
  <1>2. /\ old.status = v.status /\ old.effect = v.effect /\ old.released = v.released
        /\ new.status = w.status /\ new.effect = w.effect /\ new.released = w.released
    BY LifeFields
  <1> HIDE DEF old, new
  <1>3. MoveKind(old.status, old.effect, new.status, new.effect, k, a)
    BY <1>1, <1>2
  <1>4. Lifecycle!WorkflowPermitted(old, new, st)
    BY <1>3 DEF MoveKind, Lifecycle!WorkflowPermitted, Lifecycle!WorkflowMoves
  <1>5. Lifecycle!EffectPermitted(old, new, st)
    BY <1>3 DEF MoveKind, Lifecycle!EffectPermitted, Lifecycle!EffectMoves
  <1>6. Lifecycle!ReleasePermitted(old, new, st)
    <2>1. ~old.released
      BY <1>1, <1>2 DEF Coherent, MoveKind, ProtectedStatus
    <2>2. new.released => w.status \in TerminalStatus
      BY <1>1, <1>2, <2>1
    <2>3. w.status \in TerminalStatus =>
            \/ new.status \in {"rejected", "canceled", "expired"} /\ new.effect = "not_started"
            \/ new.status \in {"stale", "failed_terminal"} /\ new.effect = "absence_proven"
      BY <1>1, <1>2 DEF MoveKind, TerminalStatus
    <2> QED BY <2>1, <2>2, <2>3 DEF Lifecycle!ReleasePermitted
  <1>7. v.status # "absent" /\ w.status # "absent"
    BY <1>1 DEF MoveKind
  <1> QED BY <1>4, <1>5, <1>6, <1>7 DEF Lifecycle!Permitted, old, new

LEMMA BeginPermitted ==
  ASSUME NEW v \in Row(Requests), NEW w \in Row(Requests), Begins(v, w), NEW st
  PROVE  Lifecycle!Permitted(LifeOf(v), LifeOf(w), st)
  <1> DEFINE old == LifeOf(v)
             new == LifeOf(w)
  <1>1. /\ old.status = "executing" /\ old.effect \in {"not_started", "absence_proven"}
        /\ new.status = "executing" /\ new.effect = "possible" /\ new.released = old.released
    BY LifeFields DEF Begins
  <1> HIDE DEF old, new
  <1>2. Lifecycle!WorkflowPermitted(old, new, st)
    BY <1>1 DEF Lifecycle!WorkflowPermitted
  <1>3. Lifecycle!EffectPermitted(old, new, st)
    BY <1>1 DEF Lifecycle!EffectPermitted, Lifecycle!EffectMoves
  <1>4. Lifecycle!ReleasePermitted(old, new, st)
    BY <1>1 DEF Lifecycle!ReleasePermitted
  <1> QED BY <1>2, <1>3, <1>4 DEF Lifecycle!Permitted, old, new

(* The outcome of an applied observation passes the triggers.  Where a       *)
(* request in reconciliation whose absence was proven is identified all the  *)
(* same, the effect passes through "possible".                               *)
LEMMA OutcomePermitted ==
  ASSUME NEW v \in Row(Requests), NEW w \in Row(Requests), Coherent(v), NEW st,
         v.effect # "not_started", OutcomeKind(v, w, st)
  PROVE  Lifecycle!Updated(LifeOf(v), LifeOf(w), st)
  <1> DEFINE old == LifeOf(v)
             new == LifeOf(w)
  <1>1. /\ old.status = v.status /\ old.effect = v.effect /\ old.released = v.released
        /\ new.status = w.status /\ new.effect = w.effect /\ new.released = w.released
        /\ old \in Lifecycle!Life /\ new \in Lifecycle!Life
    BY LifeFields
  <1>2. v.status \in {"executing", "reconciliation_required"} => ~v.released
    BY DEF Coherent, ProtectedStatus
  <1>3. v.effect \in {"possible", "identified", "absence_proven"}
    BY DEF Row, EffectState
  <1>4. CASE w.status = v.status /\ w.effect = v.effect /\ w.released = v.released
    <2>1. old = new
      BY <1>4 DEF LifeOf
    <2> QED BY <2>1 DEF Lifecycle!Updated
  <1>5. CASE /\ v.status = "reconciliation_required" /\ v.effect = "absence_proven"
             /\ w.status = v.status /\ w.effect = "identified" /\ w.released = v.released
    <2> DEFINE mid == [old EXCEPT !.effect = "possible"]
    <2>1. /\ mid.status = v.status /\ mid.effect = "possible" /\ mid.released = v.released
          /\ mid \in Lifecycle!Life
      BY <1>1 DEF Lifecycle!Life, Lifecycle!EffectState
    <2> HIDE DEF old, new, mid
    <2>2. Lifecycle!Permitted(old, mid, st)
      BY <1>1, <1>5, <2>1 DEF Lifecycle!Permitted, Lifecycle!WorkflowPermitted,
         Lifecycle!EffectPermitted, Lifecycle!EffectMoves, Lifecycle!ReleasePermitted
    <2>3. Lifecycle!Permitted(mid, new, st)
      BY <1>1, <1>5, <2>1 DEF Lifecycle!Permitted, Lifecycle!WorkflowPermitted,
         Lifecycle!EffectPermitted, Lifecycle!EffectMoves, Lifecycle!ReleasePermitted
    <2>4. Lifecycle!Updated(old, new, st)
      BY <2>1, <2>2, <2>3 DEF Lifecycle!Updated
    <2> QED BY <2>4 DEF old, new
  <1>6. ASSUME Lifecycle!WorkflowPermitted(old, new, st), Lifecycle!EffectPermitted(old, new, st),
               Lifecycle!ReleasePermitted(old, new, st)
        PROVE  Lifecycle!Updated(LifeOf(v), LifeOf(w), st)
    BY <1>6 DEF Lifecycle!Updated, Lifecycle!Permitted
  <1> HIDE DEF old, new
  <1>7. CASE /\ v.status = "succeeded" /\ v.effect = "identified" /\ st \in {"failed", "canceled"}
             /\ w.status = "failed_terminal" /\ w.effect = "absence_proven"
             /\ w.released = v.released
    <2>1. Lifecycle!WorkflowPermitted(old, new, st)
      BY <1>1, <1>7 DEF Lifecycle!WorkflowPermitted, Lifecycle!WorkflowMoves
    <2>2. Lifecycle!EffectPermitted(old, new, st)
      BY <1>1, <1>7 DEF Lifecycle!EffectPermitted, Lifecycle!EffectMoves
    <2>3. Lifecycle!ReleasePermitted(old, new, st)
      BY <1>1, <1>7 DEF Lifecycle!ReleasePermitted
    <2> QED BY <1>6, <2>1, <2>2, <2>3
  <1>8. CASE /\ v.status \in {"executing", "reconciliation_required"}
             /\ v.effect \in {"possible", "identified"}
             /\ w.status \in {v.status, "reconciliation_required"}
             /\ w.effect = "identified" /\ w.released = v.released
    <2>1. Lifecycle!WorkflowPermitted(old, new, st)
      BY <1>1, <1>8 DEF Lifecycle!WorkflowPermitted, Lifecycle!WorkflowMoves
    <2>2. Lifecycle!EffectPermitted(old, new, st)
      BY <1>1, <1>8 DEF Lifecycle!EffectPermitted, Lifecycle!EffectMoves
    <2>3. Lifecycle!ReleasePermitted(old, new, st)
      BY <1>1, <1>8 DEF Lifecycle!ReleasePermitted
    <2> QED BY <1>6, <2>1, <2>2, <2>3
  <1>9. CASE /\ v.status \in {"executing", "reconciliation_required"}
             /\ v.effect \in {"possible", "identified"}
             /\ \/ st = "succeeded" /\ w.status = "succeeded" /\ w.effect = "identified"
                \/ st \in {"failed", "canceled"} /\ w.status = "failed_terminal"
                     /\ w.effect = "absence_proven"
    <2>1. Lifecycle!WorkflowPermitted(old, new, st)
      BY <1>1, <1>9 DEF Lifecycle!WorkflowPermitted, Lifecycle!WorkflowMoves
    <2>2. Lifecycle!EffectPermitted(old, new, st)
      BY <1>1, <1>9 DEF Lifecycle!EffectPermitted, Lifecycle!EffectMoves
    <2>3. Lifecycle!ReleasePermitted(old, new, st)
      BY <1>1, <1>2, <1>9 DEF Lifecycle!ReleasePermitted
    <2> QED BY <1>6, <2>1, <2>2, <2>3
  <1> QED BY <1>3, <1>4, <1>5, <1>7, <1>8, <1>9 DEF OutcomeKind

LEMMA ObservationPermitted ==
  ASSUME NEW v \in Row(Requests), NEW w \in Row(Requests), NEW r \in Requests, NEW st, NEW ev \in Nat,
         Identifies(r, v, w, st, ev)
  PROVE  Lifecycle!LinkPermitted(LinkOf(v), LinkOf(w))
  <1> DEFINE old == LinkOf(v)
             new == LinkOf(w)
  <1>1. /\ old.id = v.link /\ old.status = v.refundStatus /\ old.event = v.lastEvent
        /\ new.id = w.link /\ new.status = w.refundStatus /\ new.event = w.lastEvent
    BY LifeFields
  <1>2. v.link \in {NoRefund, r} /\ v.lastEvent \in Nat
    BY DEF Identifies, Row
  <1>3. CASE shouldApplyRefundObservation(v, st, ev)
    <2>1. /\ w.link = r /\ w.refundStatus = st
          /\ w.lastEvent = IF ev = 0 THEN v.lastEvent ELSE ev
      BY <1>3 DEF Identifies
    <2> HIDE DEF old, new
    <2>2. old.id # NoRefund => new.id = old.id
      BY <1>1, <1>2, <2>1
    <2>3. old.event # 0 /\ new.event # 0 => old.event <= new.event
      BY <1>1, <1>2, <1>3, <2>1 DEF shouldApplyRefundObservation
    <2>4. old.status # new.status =>
            CASE old.status = "succeeded" -> new.status \in {"failed", "canceled"}
              [] old.status = "canceled" -> new.status = "failed"
              [] old.status = "failed" -> FALSE
              [] OTHER -> TRUE
      BY <1>1, <1>3, <2>1 DEF shouldApplyRefundObservation
    <2>5. Lifecycle!LinkPermitted(old, new)
      BY <2>2, <2>3, <2>4 DEF Lifecycle!LinkPermitted
    <2> QED BY <2>5 DEF old, new
  <1>4. CASE ~shouldApplyRefundObservation(v, st, ev)
    <2>1. old = new
      BY <1>4 DEF Identifies, SameLink, LinkOf
    <2> QED BY <1>1, <1>2, <2>1 DEF Lifecycle!LinkPermitted
  <1> QED BY <1>3, <1>4

LEMMA SameLinkPermitted ==
  ASSUME NEW v \in Row(Requests), NEW w \in Row(Requests), SameLink(v, w)
         \/ (w.link = v.link /\ w.refundStatus = v.refundStatus /\ w.lastEvent = v.lastEvent)
  PROVE  Lifecycle!LinkPermitted(LinkOf(v), LinkOf(w))
  <1>1. LinkOf(v) = LinkOf(w) /\ LinkOf(v).event \in Nat
    BY DEF SameLink, LinkOf, Row
  <1> HIDE DEF LinkOf
  <1> QED BY <1>1 DEF Lifecycle!LinkPermitted

(* Every row step but the insertion passes the triggers.                     *)
LEMMA StepPermitted ==
  ASSUME NEW r \in Requests, NEW v \in Row(Requests), NEW w \in Row(Requests), Coherent(v),
         Linked(r, v), Ledger(v), RowStep(r, v, w), v.status = "absent" => w # createRefundRequest
  PROVE  /\ Lifecycle!LinkPermitted(LinkOf(v), LinkOf(w))
         /\ Lifecycle!Updated(LifeOf(v), LifeOf(w), w.refundStatus)
         /\ v.status = "absent" <=> w.status = "absent"
  <1>1. CASE w = v
    BY <1>1, SameLinkPermitted DEF SameLink, Lifecycle!Updated
  <1>2. CASE Moves(v, w)
    <2>1. SameLink(v, w)
      BY <1>2 DEF Moves
    <2> QED BY <1>2, <2>1, SameLinkPermitted, MovePermitted DEF Lifecycle!Updated
  <1>3. CASE Begins(v, w)
    <2>1. /\ v.status = "executing" /\ w.status = "executing"
          /\ w.link = v.link /\ w.refundStatus = v.refundStatus /\ w.lastEvent = v.lastEvent
      BY <1>3 DEF Begins
    <2> QED BY <1>3, <2>1, SameLinkPermitted, BeginPermitted DEF Lifecycle!Updated
  <1>4. ASSUME NEW st, NEW ev \in Nat, Identifies(r, v, w, st, ev)
        PROVE  /\ Lifecycle!LinkPermitted(LinkOf(v), LinkOf(w))
               /\ Lifecycle!Updated(LifeOf(v), LifeOf(w), w.refundStatus)
               /\ v.status = "absent" <=> w.status = "absent"
    <2>1. v.exec = TRUE
      BY <1>4 DEF Identifies
    <2>2. v.effect # "not_started"
      BY <2>1 DEF Ledger
    <2>3. v.status # "absent"
      BY <2>2 DEF Linked, AbsentRow
    <2>4. Lifecycle!LinkPermitted(LinkOf(v), LinkOf(w))
      BY <1>4, ObservationPermitted
    <2>5. CASE shouldApplyRefundObservation(v, st, ev)
      <3>1. w.refundStatus = st /\ OutcomeKind(v, w, st)
        BY <1>4, <2>5 DEF Identifies
      <3>2. w.status # "absent"
        BY <2>3, <3>1 DEF OutcomeKind
      <3>3. Lifecycle!Updated(LifeOf(v), LifeOf(w), st)
        BY <2>2, <3>1, OutcomePermitted
      <3> QED BY <2>3, <2>4, <3>1, <3>2, <3>3
    <2>6. CASE ~shouldApplyRefundObservation(v, st, ev)
      <3>1. w.status = v.status /\ LifeOf(v) = LifeOf(w)
        BY <1>4, <2>6 DEF Identifies, LifeOf
      <3> QED BY <2>3, <2>4, <3>1 DEF Lifecycle!Updated
    <2> QED BY <2>5, <2>6
  <1> QED BY <1>1, <1>2, <1>3, <1>4 DEF RowStep

(* Only createRequest brings a request into being.                           *)
LEMMA NothingElseInserts ==
  ASSUME RowInv, Next, ~\E r \in Requests : Inserted(r)
  PROVE  /\ \A r \in Requests : row[r].status = "absent" => row'[r] # createRefundRequest
         /\ alert \subseteq alert'
  <1>1. TypeOK /\ RowsCoherent /\ HandlersBound /\ RowsInv
    BY DEF RowInv, Inv, RowsInv, TypeOK
  <1>2. AbsentRow.released = TRUE /\ createRefundRequest.released = FALSE
    BY DEF AbsentRow, createRefundRequest
  <1>3. \A r \in Requests : row[r].status = "absent" => row[r] = AbsentRow
    BY DEF RowInv, RowFacts, Linked
  <1>4. CASE RowsSafe /\ alert' = alert
    BY <1>2, <1>3, <1>4 DEF RowsSafe
  <1>5. ASSUME NEW p \in Payments, Protected(p)
        PROVE  /\ \A r \in Requests : row[r].status = "absent" => row'[r] # createRefundRequest
               /\ alert \subseteq alert'
    <2>1. RowsSafe /\ alert \subseteq alert'
      BY <1>5, KeptIsSafe DEF Protected
    <2> QED BY <1>2, <1>3, <2>1 DEF RowsSafe
  <1>6. ASSUME NEW h \in Handlers, Begun(h)
        PROVE  /\ \A r \in Requests : row[r].status = "absent" => row'[r] # createRefundRequest
               /\ alert \subseteq alert'
    <2>1. \A r \in Requests : r # hand[h].req => row'[r] = row[r]
      BY <1>1, <1>6, BegunStep
    <2>2. row[hand[h].req].status = "executing" /\ alert' = alert
      BY <1>6 DEF Begun, Executable, persistEffectBoundary
    <2> QED BY <1>2, <1>3, <2>1, <2>2
  <1> QED BY <1>1, <1>4, <1>5, <1>6, StepKinds

LEMMA InsertRefines ==
  ASSUME RowInv, NEW r \in Requests, Inserted(r)
  PROVE  Lifecycle!Insert(r)
  <1> DEFINE life == [q \in Requests |-> [status |-> row[q].status, effect |-> row[q].effect,
                                          released |-> row[q].released]]
             link == [q \in Requests |-> [id |-> row[q].link, status |-> row[q].refundStatus,
                                          event |-> row[q].lastEvent]]
  <1>1. /\ row' = [row EXCEPT ![r] = createRefundRequest] /\ UNCHANGED alert
        /\ row[r].status = "absent" /\ PaymentOf[r] \notin alert
        /\ \A q \in Requests : PaymentOf[q] = PaymentOf[r] => row[q].released
    BY DEF Inserted, createRequest, OnPayment
  <1>2. row[r] = AbsentRow
    BY <1>1 DEF RowInv, RowFacts, Linked
  <1>3. row \in [Requests -> Row(Requests)]
    BY DEF RowInv, Inv, TypeOK
  <1>4. row'[r] = createRefundRequest /\ \A q \in Requests : q # r => row'[q] = row[q]
    BY <1>1, <1>3
  <1>5. life[r] = Lifecycle!NoLife
    <2>1. AbsentRow.status = "absent" /\ AbsentRow.effect = "not_started"
          /\ AbsentRow.released = TRUE
      BY DEF AbsentRow
    <2>2. life[r] = [status |-> AbsentRow.status, effect |-> AbsentRow.effect,
                     released |-> AbsentRow.released]
      BY <1>2
    <2> QED BY <2>1, <2>2, Zenon DEF Lifecycle!NoLife
  <1>6. Lifecycle!Holders(PaymentOf[r]) = {}
    BY <1>1 DEF Lifecycle!Holders
  <1>7. life' = [life EXCEPT ![r] = Lifecycle!NewLife]
    <2>1. life'[r] = Lifecycle!NewLife
      BY <1>4 DEF createRefundRequest, AbsentRow, Lifecycle!NewLife
    <2>2. \A q \in Requests : q # r => life'[q] = life[q]
      BY <1>4
    <2> QED BY <2>1, <2>2
  <1>8. link' = link
    <2>1. row'[r].link = row[r].link /\ row'[r].refundStatus = row[r].refundStatus
          /\ row'[r].lastEvent = row[r].lastEvent
      BY <1>2, <1>4 DEF createRefundRequest, AbsentRow
    <2> QED BY <1>4, <2>1
  <1> QED BY <1>1, <1>5, <1>6, <1>7, <1>8 DEF Lifecycle!Insert

LEMMA TransactionRefines ==
  ASSUME RowInv, RowInv', Next, ~\E r \in Requests : Inserted(r)
  PROVE  Lifecycle!Transaction
  <1> DEFINE life == [q \in Requests |-> [status |-> row[q].status, effect |-> row[q].effect,
                                          released |-> row[q].released]]
             link == [q \in Requests |-> [id |-> row[q].link, status |-> row[q].refundStatus,
                                          event |-> row[q].lastEvent]]
  <1>1. TypeOK /\ RowsCoherent /\ HandlersBound /\ Evidence /\ TypeOK' /\ AlertExcludesExecution'
    BY DEF RowInv, Inv
  <1>2. RowsStep
    BY <1>1, RowSteps
  <1>3. alert \subseteq alert' /\ alert' \subseteq Payments
    BY <1>1, NothingElseInserts DEF TypeOK, DeskTypeOK
  <1>4. ASSUME NEW r \in Requests
        PROVE  /\ life[r] = LifeOf(row[r]) /\ life'[r] = LifeOf(row'[r])
               /\ link[r] = LinkOf(row[r]) /\ link'[r] = LinkOf(row'[r])
               /\ row[r] \in Row(Requests) /\ row'[r] \in Row(Requests)
    BY <1>1 DEF LifeOf, LinkOf, TypeOK
  <1>5. life' \in [Requests -> Lifecycle!Life] /\ link' \in [Requests -> Lifecycle!Link]
    <2>1. \A r \in Requests : life'[r] \in Lifecycle!Life /\ link'[r] \in Lifecycle!Link
      BY <1>4, LifeFields
    <2> QED BY <2>1
  <1>6. ASSUME NEW r \in Requests
        PROVE  /\ Lifecycle!LinkPermitted(link[r], link'[r])
               /\ Lifecycle!Updated(life[r], life'[r], link'[r].status)
               /\ life[r].status = "absent" <=> life'[r].status = "absent"
               /\ life'[r].status \in ProtectedStatus => PaymentOf[r] \notin alert'
    <2>1. /\ Coherent(row[r]) /\ Linked(r, row[r]) /\ Ledger(row[r])
          /\ RowStep(r, row[r], row'[r])
          /\ row[r].status = "absent" => row'[r] # createRefundRequest
      BY <1>1, <1>2, NothingElseInserts DEF RowsCoherent, RowInv, RowFacts, RowsStep
    <2>2. /\ Lifecycle!LinkPermitted(LinkOf(row[r]), LinkOf(row'[r]))
          /\ Lifecycle!Updated(LifeOf(row[r]), LifeOf(row'[r]), row'[r].refundStatus)
          /\ row[r].status = "absent" <=> row'[r].status = "absent"
      BY <1>4, <2>1, StepPermitted
    <2>3. /\ life[r].status = row[r].status /\ life'[r].status = row'[r].status
          /\ link'[r].status = row'[r].refundStatus
      OBVIOUS
    <2>4. row'[r].status \in ProtectedStatus => PaymentOf[r] \notin alert'
      BY <1>1 DEF AlertExcludesExecution
    <2> HIDE DEF life, link
    <2> QED BY <1>4, <2>2, <2>3, <2>4
  <1>7. ProtectedStatus = Lifecycle!ProtectedStatus
    BY DEF ProtectedStatus, Lifecycle!ProtectedStatus
  <1> QED BY <1>3, <1>5, <1>6, <1>7 DEF Lifecycle!Transaction, Lifecycle!ProtectionPermitted

(* RefundExecution implements RefundLifecycle: no transaction of the desk is *)
(* ever one that a trigger of PostgreSQL or the unique index on the payment  *)
(* guard would abort.                                                        *)
THEOREM LifecycleImplemented == Spec => ImplementsLifecycle
  <1>1. Init => Lifecycle!LifecycleInit
    BY DEF Init, AbsentRow, Lifecycle!LifecycleInit, Lifecycle!NoLife, Lifecycle!NoLink
  <1>2. RowInv /\ RowInv' /\ [Next]_vars => [Lifecycle!LifecycleNext]_(Lifecycle!lifeVars)
    <2>1. ASSUME RowInv, RowInv', Next PROVE Lifecycle!LifecycleNext
      BY <2>1, InsertRefines, TransactionRefines DEF Lifecycle!LifecycleNext
    <2>2. UNCHANGED vars => UNCHANGED Lifecycle!lifeVars
      BY DEF vars, Lifecycle!lifeVars
    <2> QED BY <2>1, <2>2
  <1> QED BY <1>1, <1>2, RowInvariance, PTL DEF Spec, ImplementsLifecycle, Lifecycle!LifecycleSpec

-------------------------------------------------------------------------------
(* What was decided stays decided.                                           *)

(* The one way out of an end is the correction of a success that Stripe took *)
(* back.                                                                     *)
EndStands(v, w) ==
  /\ v.status \in TerminalStatus =>
       \/ w.status = v.status
       \/ v.status = "succeeded" /\ w.status = "failed_terminal"
  /\ v.status # "absent" /\ v.released = TRUE => w.released = TRUE
  /\ v.link # NoRefund => w.link = v.link
  /\ v.exec = TRUE => w.exec = TRUE

(* No step reopens a request that has ended, takes back a guard that was     *)
(* released, or links a request to another refund.                           *)
EndsAreFinal == [][\A r \in Requests : EndStands(row[r], row'[r])]_vars

LEMMA StepEndStands ==
  ASSUME NEW r \in Requests, NEW v \in Row(Requests), NEW w \in Row(Requests), Linked(r, v),
         RowStep(r, v, w)
  PROVE  EndStands(v, w)
  <1>1. CASE w = v
    BY <1>1 DEF EndStands
  <1>2. CASE v.status = "absent" /\ w = createRefundRequest
    <2>1. v.link = NoRefund /\ v.exec = FALSE
      BY <1>2 DEF Linked, AbsentRow
    <2> QED BY <1>2, <2>1 DEF EndStands, TerminalStatus
  <1>3. CASE Moves(v, w)
    <2>1. PICK k \in {1, 2}, a \in AttemptState \cup {"none"} :
            /\ MoveKind(v.status, v.effect, w.status, w.effect, k, a)
            /\ w.released = IF w.status \in TerminalStatus THEN TRUE ELSE v.released
            /\ SameLink(v, w)
      BY <1>3 DEF Moves
    <2>2. v.status \notin TerminalStatus
      BY <2>1 DEF MoveKind, TerminalStatus
    <2>3. v.released = TRUE => w.released = TRUE
      BY <2>1
    <2> QED BY <2>1, <2>2, <2>3 DEF EndStands, SameLink
  <1>4. CASE Begins(v, w)
    BY <1>4 DEF Begins, EndStands, TerminalStatus
  <1>5. ASSUME NEW st, NEW ev, Identifies(r, v, w, st, ev) PROVE EndStands(v, w)
    <2>1. v.link \in {NoRefund, r} /\ w.exec = TRUE
      BY <1>5 DEF Identifies
    <2>2. CASE shouldApplyRefundObservation(v, st, ev)
      <3>1. w.link = r /\ OutcomeKind(v, w, st)
        BY <1>5, <2>2 DEF Identifies
      <3>2. v.status \in TerminalStatus =>
              w.status = v.status \/ (v.status = "succeeded" /\ w.status = "failed_terminal")
        BY <3>1 DEF OutcomeKind, TerminalStatus
      <3>3. v.released = TRUE => w.released = TRUE
        BY <3>1 DEF OutcomeKind
      <3> QED BY <2>1, <3>1, <3>2, <3>3 DEF EndStands
    <2>3. CASE ~shouldApplyRefundObservation(v, st, ev)
      BY <1>5, <2>1, <2>3 DEF Identifies, SameLink, EndStands
    <2> QED BY <2>2, <2>3
  <1> QED BY <1>1, <1>2, <1>3, <1>4, <1>5 DEF RowStep

(* A request that has ended is never taken up again, by a handler that was   *)
(* late, a scan that still covers it or an event that is redelivered: only   *)
(* markRefundIdentified's correction of a success that Stripe took back moves*)
(* it, once.  Its guard is not held again and its link not replaced.         *)
THEOREM EndsStand == Spec => EndsAreFinal
  <1>1. RowInv /\ [Next]_vars => [\A r \in Requests : EndStands(row[r], row'[r])]_vars
    <2> SUFFICES ASSUME RowInv, Next, NEW r \in Requests PROVE EndStands(row[r], row'[r])
      OBVIOUS
    <2>1. RowInv'
      BY NextRowInv
    <2>2. TypeOK /\ TypeOK' /\ RowsCoherent /\ HandlersBound /\ Evidence /\ RowFacts
      BY <2>1 DEF RowInv, Inv
    <2>3. /\ row[r] \in Row(Requests) /\ row'[r] \in Row(Requests)
          /\ Linked(r, row[r]) /\ RowStep(r, row[r], row'[r])
      BY <2>2, RowSteps DEF TypeOK, RowFacts, RowsStep
    <2> QED BY <2>3, StepEndStands
  <1> QED BY <1>1, RowInvariance, PTL DEF Spec, EndsAreFinal
===============================================================================

--------------------------- MODULE RefundLifecycle ----------------------------
(***************************************************************************)
(* What PostgreSQL lets any client do with refund requests: the triggers   *)
(* and the unique index on refund_requests, refund_executions and          *)
(* external_refund_alerts.  It is the abstract specification of            *)
(* RefundExecution: that every transaction of the desk is one of these     *)
(* steps means that no trigger ever aborts one.                            *)
(*                                                                         *)
(* A statement that a trigger rejects aborts its transaction, so a         *)
(* transaction is a sequence of permitted statements.  No transaction of   *)
(* the desk updates a request more than twice.                             *)
(***************************************************************************)
EXTENDS RequestRow

CONSTANTS Requests, Payments, PaymentOf

VARIABLES
  life,      \* life[r]: workflow status, effect state and guard of request r
  link,      \* link[r]: the Stripe columns of its execution
  alerted    \* payments with an unresolved external refund alert

lifeVars == <<life, link, alerted>>

Life == [status: WorkflowStatus \cup {"absent"}, effect: EffectState, released: BOOLEAN]
Link == [id: Requests \cup {NoRefund}, status: RefundStatus, event: Nat]

NoLife == [status |-> "absent", effect |-> "not_started", released |-> TRUE]
NewLife == [status |-> "pending_approval", effect |-> "not_started", released |-> FALSE]
NoLink == [id |-> NoRefund, status |-> "none", event |-> 0]

LifecycleInit ==
  /\ life = [r \in Requests |-> NoLife]
  /\ link = [r \in Requests |-> NoLink]
  /\ alerted = {}

-------------------------------------------------------------------------------
WorkflowMoves ==
  {"pending_approval"} \X {"approved", "rejected", "canceled", "expired", "stale"}
    \cup {"approved"} \X {"executing", "stale"}
    \cup {"executing"} \X {"succeeded", "reconciliation_required", "failed_terminal"}
    \cup {"reconciliation_required"} \X {"succeeded", "failed_terminal", "executing"}
    \cup {<<"succeeded", "failed_terminal">>}

EffectMoves ==
  {<<"not_started", "possible">>, <<"not_started", "absence_proven">>,
   <<"possible", "identified">>, <<"possible", "absence_proven">>,
   <<"identified", "absence_proven">>, <<"absence_proven", "possible">>}

(* refunddesk_validate_workflow_transition, st being the refund status, with *)
(* SQL's reading of NULL: a comparison with it never raises.                 *)
WorkflowPermitted(old, new, st) ==
  old.status # new.status =>
    /\ <<old.status, new.status>> \in WorkflowMoves
    /\ old.status = "reconciliation_required" /\ new.status = "executing"
         => new.effect = "absence_proven"
    /\ new.status = "succeeded" => new.effect = "identified" /\ st \in {"succeeded", "none"}
    /\ old.status = "succeeded" => old.effect = "identified" /\ st \in {"failed", "canceled"}
    /\ new.status \in {"stale", "failed_terminal"} => new.effect = "absence_proven"

(* refunddesk_validate_effect_transition                                     *)
EffectPermitted(old, new, st) ==
  old.effect # new.effect =>
    /\ <<old.effect, new.effect>> \in EffectMoves
    /\ old.effect = "identified" => st \in {"failed", "canceled", "none"}

(* refunddesk_validate_guard_release                                         *)
ReleasePermitted(old, new, st) ==
  IF old.released THEN new.released
  ELSE new.released =>
         \/ new.status \in {"rejected", "canceled", "expired"} /\ new.effect = "not_started"
         \/ new.status \in {"stale", "failed_terminal"} /\ new.effect = "absence_proven"
         \/ new.status = "succeeded" /\ st = "succeeded"

Permitted(old, new, st) ==
  WorkflowPermitted(old, new, st) /\ EffectPermitted(old, new, st) /\ ReleasePermitted(old, new, st)

(* One or two UPDATEs of a request, or none.                                 *)
Updated(old, new, st) ==
  \/ new = old
  \/ Permitted(old, new, st)
  \/ \E mid \in Life : Permitted(old, mid, st) /\ Permitted(mid, new, st)

(* refunddesk_preserve_first_refund_link                                     *)
LinkPermitted(old, new) ==
  /\ old.id # NoRefund => new.id = old.id
  /\ old.status # new.status =>
       CASE old.status = "succeeded" -> new.status \in {"failed", "canceled"}
         [] old.status = "canceled" -> new.status = "failed"
         [] old.status = "failed" -> FALSE
         [] OTHER -> TRUE
  /\ old.event # 0 /\ new.event # 0 => old.event <= new.event

(* refunddesk_guard_external_payment_protection                              *)
ProtectionPermitted(r, new) == new.status \in ProtectedStatus => PaymentOf[r] \notin alerted'

-------------------------------------------------------------------------------
Holders(p) == {r \in Requests : PaymentOf[r] = p /\ ~life[r].released}

(* refund_requests_active_payment_guard_key                                  *)
Insert(r) ==
  /\ life[r] = NoLife /\ Holders(PaymentOf[r]) = {}
  /\ PaymentOf[r] \notin alerted
  /\ life' = [life EXCEPT ![r] = NewLife]
  /\ UNCHANGED <<link, alerted>>

(* A transaction that updates requests and executions and may raise alerts;  *)
(* refunddesk_preserve_external_refund_protection keeps the ones there are.  *)
Transaction ==
  /\ life' \in [Requests -> Life] /\ link' \in [Requests -> Link]
  /\ alerted \subseteq alerted' /\ alerted' \subseteq Payments
  /\ \A r \in Requests :
       /\ LinkPermitted(link[r], link'[r])
       /\ Updated(life[r], life'[r], link'[r].status)
       /\ life'[r] # life[r] => ProtectionPermitted(r, life'[r])
       /\ life[r].status = "absent" <=> life'[r].status = "absent"

LifecycleNext == Transaction \/ \E r \in Requests : Insert(r)

LifecycleSpec == LifecycleInit /\ [][LifecycleNext]_lifeVars
===============================================================================

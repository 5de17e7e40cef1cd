---------------------- MODULE InstallationLifecycle_proofs ----------------------
(***************************************************************************)
(* Proofs about InstallationLifecycle for every set of events, deliveries  *)
(* and handlers and every bound.                                           *)
(*                                                                         *)
(* The received lifecycle events are ordered by their creation time, a     *)
(* deauthorization after an authorization of the same second.  The argument*)
(* is that the last applied event never moves down in this order, and that *)
(* an event is applied or outranked before its receipt exists.             *)
(***************************************************************************)
EXTENDS InstallationLifecycle, TLAPS

Outranks(l, e) ==
  \/ l.at > e.at
  \/ l.at = e.at /\ (l.kind = "deauthorized" \/ e.kind = "authorized")

(* The installation has seen e, or something that outranks it.               *)
Settled(i, e) == i.last \in Lifecycle /\ Outranks(i.last, e)

(* What the row of an installation says is what its last event says.         *)
RowOK(i) ==
  /\ i.last \in Lifecycle \cup {NoEvent}
  /\ i.status = "active" => i.last = NoEvent \/ i.last.kind = "authorized"
  /\ i.tenant # 0 /\ i.status = "deauthorized" =>
       i.last \in Lifecycle /\ i.last.kind = "deauthorized"
         /\ i.purgeAt = i.last.at + PurgeDelay

InstallationInv == RowOK(inst) /\ inst.tenant <= made

ReceiptInv == \A e \in Lifecycle : Received(e) => Exists /\ Settled(inst, e)

(* A delivery that has resolved an authorization of the tenant i has applied *)
(* it, or found something that outranks it.                                  *)
DeliveryOK(v, i, m) ==
  v.step # "idle" =>
    /\ v.ev \in Events /\ v.tenant <= m
    /\ v.step = "resolved" =>
         /\ v.tenant # 0
         /\ v.tenant = i.tenant /\ v.ev.kind = "authorized" => Settled(i, v.ev)

DeliveryInv == \A d \in Deliveries : DeliveryOK(dlv[d], inst, made)

HandlerInv == \A h \in Handlers : hand[h].step # "idle" => hand[h].ev \in Events

Inv ==
  /\ TypeOK /\ InstallationInv /\ ReceiptInv /\ DeliveryInv /\ HandlerInv
  /\ EffectOncePerReceipt

Installation == [tenant: Nat, status: {"active", "deauthorized"}, last: MaybeEvent, purgeAt: Nat]

(* Forward(i, j): the installation i becomes j without forgetting an event.  *)
Forward(i, j) ==
  /\ j \in Installation /\ RowOK(j) /\ j.tenant = i.tenant
  /\ \A e \in Lifecycle : Settled(i, e) => Settled(j, e)
  /\ i.status = "deauthorized" /\ j.status = "active" /\ i.tenant # 0 =>
       j.last.kind = "authorized" /\ j.last.at > i.last.at

-------------------------------------------------------------------------------
(* What the three writers of the row do.                                     *)

LEMMA EventTypes ==
  ASSUME NEW e \in Lifecycle
  PROVE  /\ e \in Events /\ e \in MaybeEvent /\ e # NoEvent /\ e.at \in Nat
         /\ e.kind \in {"authorized", "deauthorized"}
         /\ e.at + PurgeDelay \in Nat
  BY LifecycleAssumption DEF Lifecycle, EventKind, MaybeEvent

LEMMA OutranksTransitive ==
  ASSUME NEW a \in Lifecycle, NEW b \in Lifecycle, NEW c \in Lifecycle,
         Outranks(a, b), Outranks(b, c)
  PROVE  Outranks(a, c)
  BY EventTypes DEF Outranks

LEMMA StaysForward ==
  ASSUME inst \in Installation, RowOK(inst)
  PROVE  Forward(inst, inst)
  BY DEF Forward, Installation

LEMMA AuthorizationForward ==
  ASSUME inst \in Installation, RowOK(inst), Exists,
         NEW e \in Lifecycle, e.kind = "authorized"
  PROVE  /\ AuthorizationApplies(e) =>
              Forward(inst, Authorized(e)) /\ Settled(Authorized(e), e)
         /\ ~AuthorizationApplies(e) => Settled(inst, e)
  <1>1. /\ e \in MaybeEvent /\ e # NoEvent /\ e.at \in Nat
    BY EventTypes
  <1>2. inst.last # NoEvent =>
          /\ inst.last \in Lifecycle /\ inst.last.at \in Nat
          /\ inst.last.kind \in {"authorized", "deauthorized"}
    BY EventTypes DEF RowOK
  <1>3. ~AuthorizationApplies(e) => Settled(inst, e)
    BY <1>1, <1>2 DEF AuthorizationApplies, Settled, Outranks
  <1>4. ASSUME AuthorizationApplies(e)
        PROVE  Forward(inst, Authorized(e)) /\ Settled(Authorized(e), e)
    <2> DEFINE j == Authorized(e)
    <2>1. /\ j \in Installation /\ j.last = e /\ j.status = "active" /\ j.tenant = inst.tenant
      BY <1>1 DEF Authorized, Installation
    <2>2. RowOK(j)
      BY <2>1 DEF RowOK
    <2>3. Settled(j, e)
      BY <2>1 DEF Settled, Outranks
    <2>4. inst.last # NoEvent => Outranks(e, inst.last)
      BY <1>1, <1>2, <1>4 DEF AuthorizationApplies, Outranks
    <2>5. \A f \in Lifecycle : Settled(inst, f) => Settled(j, f)
      <3> SUFFICES ASSUME NEW f \in Lifecycle, Settled(inst, f) PROVE Settled(j, f)
        OBVIOUS
      <3>1. inst.last \in Lifecycle /\ Outranks(inst.last, f)
        BY DEF Settled
      <3>2. inst.last # NoEvent
        BY <3>1, EventTypes
      <3>3. Outranks(e, f)
        BY <3>1, <3>2, <2>4, OutranksTransitive
      <3> QED BY <2>1, <3>3 DEF Settled
    <2>6. inst.status = "deauthorized" => e.at > inst.last.at
      <3>1. ASSUME inst.status = "deauthorized"
            PROVE  inst.last \in Lifecycle /\ inst.last.kind = "deauthorized"
        BY <3>1 DEF RowOK, Exists
      <3> QED BY <1>1, <1>2, <1>4, <3>1, EventTypes DEF AuthorizationApplies
    <2> QED BY <2>1, <2>2, <2>3, <2>5, <2>6 DEF Forward
  <1> QED BY <1>3, <1>4

LEMMA DeauthorizationForward ==
  ASSUME inst \in Installation, RowOK(inst), Exists,
         NEW e \in Lifecycle, e.kind = "deauthorized"
  PROVE  LET j == applyWebhookDeauthorization(e) IN Forward(inst, j) /\ Settled(j, e)
  <1> DEFINE j == applyWebhookDeauthorization(e)
  <1>1. /\ e \in MaybeEvent /\ e # NoEvent /\ e.at \in Nat /\ e.at + PurgeDelay \in Nat
    BY EventTypes
  <1>2. inst.last # NoEvent =>
          /\ inst.last \in Lifecycle /\ inst.last.at \in Nat
          /\ inst.last.kind \in {"authorized", "deauthorized"}
    BY EventTypes DEF RowOK
  <1>3. CASE ~DeauthorizationApplies(e)
    <2>1. j = inst
      BY <1>3 DEF applyWebhookDeauthorization
    <2>2. Settled(inst, e)
      BY <1>1, <1>2, <1>3 DEF DeauthorizationApplies, Settled, Outranks
    <2> QED BY <2>1, <2>2, StaysForward
  <1>4. CASE DeauthorizationApplies(e)
    <2>1. /\ j \in Installation /\ j.last = e /\ j.status = "deauthorized"
          /\ j.tenant = inst.tenant /\ j.purgeAt = e.at + PurgeDelay
      BY <1>1, <1>4 DEF applyWebhookDeauthorization, Installation
    <2>2. RowOK(j)
      BY <2>1 DEF RowOK
    <2>3. Settled(j, e)
      BY <2>1 DEF Settled, Outranks
    <2>4. inst.last # NoEvent => Outranks(e, inst.last)
      BY <1>1, <1>2, <1>4 DEF DeauthorizationApplies, Outranks
    <2>5. \A f \in Lifecycle : Settled(inst, f) => Settled(j, f)
      <3> SUFFICES ASSUME NEW f \in Lifecycle, Settled(inst, f) PROVE Settled(j, f)
        OBVIOUS
      <3>1. inst.last \in Lifecycle /\ Outranks(inst.last, f)
        BY DEF Settled
      <3>2. inst.last # NoEvent
        BY <3>1, EventTypes
      <3>3. Outranks(e, f)
        BY <3>1, <3>2, <2>4, OutranksTransitive
      <3> QED BY <2>1, <3>3 DEF Settled
    <2> QED BY <2>1, <2>2, <2>3, <2>5 DEF Forward
  <1> QED BY <1>3, <1>4

(* Opening the app never changes an installation that exists and is not      *)
(* active.                                                                   *)
LEMMA ProvisionedForward ==
  ASSUME inst \in Installation, RowOK(inst), made \in Nat, ~Active
  PROVE  /\ Exists => Provisioned = inst
         /\ ~Exists => /\ Provisioned \in Installation /\ RowOK(Provisioned)
                       /\ Provisioned.tenant = made + 1
  <1>1. ASSUME Exists PROVE Provisioned = inst
    <2>1. inst.status = "deauthorized"
      BY <1>1 DEF Active, Installation
    <2>2. inst.last \in Lifecycle /\ inst.last.kind = "deauthorized"
      BY <1>1, <2>1 DEF RowOK, Exists
    <2> QED BY <1>1, <2>1, <2>2, EventTypes DEF Provisioned
  <1>2. ASSUME ~Exists
        PROVE  /\ Provisioned \in Installation /\ RowOK(Provisioned)
               /\ Provisioned.tenant = made + 1
    BY <1>2 DEF Provisioned, Installation, RowOK, MaybeEvent
  <1> QED BY <1>1, <1>2

-------------------------------------------------------------------------------
(* Every step but the first provisioning and the purge moves the row forward.*)

LEMMA ForwardKeeps ==
  ASSUME Inv, Forward(inst, inst'), made' = made,
         \A e \in Lifecycle : receipt'[e] # "none" =>
           Received(e) \/ (Exists /\ Settled(inst', e)),
         \A d \in Deliveries : dlv'[d] = dlv[d] \/ DeliveryOK(dlv'[d], inst', made)
  PROVE  InstallationInv' /\ ReceiptInv' /\ DeliveryInv'
  <1>1. RowOK(inst') /\ inst'.tenant = inst.tenant
        /\ \A e \in Lifecycle : Settled(inst, e) => Settled(inst', e)
    BY DEF Forward
  <1>2. InstallationInv'
    BY <1>1 DEF Inv, InstallationInv
  <1>3. ReceiptInv'
    BY <1>1 DEF Inv, ReceiptInv, Received, Exists
  <1>4. ASSUME NEW d \in Deliveries, DeliveryOK(dlv[d], inst, made)
        PROVE  DeliveryOK(dlv[d], inst', made)
    <2>1. \A e \in Events : e.kind = "authorized" => e \in Lifecycle
      BY DEF Lifecycle
    <2> QED BY <1>1, <1>4, <2>1 DEF DeliveryOK
  <1>5. DeliveryInv'
    BY <1>4 DEF Inv, DeliveryInv
  <1> QED BY <1>2, <1>3, <1>5

LEMMA QuietKeeps ==
  ASSUME Inv, UNCHANGED <<inst, made, receipt>>,
         \A d \in Deliveries : dlv'[d] = dlv[d] \/ DeliveryOK(dlv'[d], inst', made)
  PROVE  InstallationInv' /\ ReceiptInv' /\ DeliveryInv'
  <1>1. inst \in Installation /\ RowOK(inst)
    BY DEF Inv, TypeOK, Installation, InstallationInv
  <1>2. Forward(inst, inst')
    BY <1>1, StaysForward
  <1>3. \A e \in Lifecycle : receipt'[e] # "none" =>
           Received(e) \/ (Exists /\ Settled(inst', e))
    BY DEF Received
  <1> QED BY <1>2, <1>3, ForwardKeeps

LEMMA QuietDelivery ==
  ASSUME Inv, NEW d \in Deliveries, NEW v,
         dlv' = [dlv EXCEPT ![d] = v], DeliveryOK(v, inst', made)
  PROVE  \A x \in Deliveries : dlv'[x] = dlv[x] \/ DeliveryOK(dlv'[x], inst', made)
  BY DEF Inv, TypeOK

LEMMA InitInv == Init => Inv
  <1> SUFFICES ASSUME Init PROVE Inv
    OBVIOUS
  <1>1. TypeOK
    BY DEF Init, TypeOK, NoInstallation, IdleDelivery, IdleHandler, MaybeEvent
  <1>2. InstallationInv /\ ReceiptInv /\ DeliveryInv /\ HandlerInv /\ EffectOncePerReceipt
    BY DEF Init, InstallationInv, RowOK, NoInstallation, ReceiptInv, Received, Lifecycle,
       DeliveryInv, DeliveryOK, IdleDelivery, HandlerInv, IdleHandler, EffectOncePerReceipt
  <1> QED BY <1>1, <1>2 DEF Inv

-------------------------------------------------------------------------------
(* One lemma per group of actions.                                           *)

LEMMA ClockInv ==
  ASSUME Inv, tick \/ hold \/ release
  PROVE  Inv'
  <1>1. UNCHANGED <<inst, made, receipt, effect, dlv, listed, jobs, hand>>
    BY DEF tick, hold, release, workerVars
  <1>2. InstallationInv' /\ ReceiptInv' /\ DeliveryInv'
    BY <1>1, QuietKeeps
  <1>3. now \in Nat /\ blocked \in BOOLEAN
    BY DEF Inv, TypeOK
  <1>3a. now' = now \/ now' = now + 1
    BY DEF tick, hold, release
  <1>3b. blocked' = blocked \/ blocked' = TRUE \/ blocked' = FALSE
    BY Zenon DEF tick, hold, release
  <1>3c. now' \in Nat
    BY <1>3, <1>3a
  <1>3d. blocked' \in BOOLEAN
    BY <1>3, <1>3b, Zenon
  <1>4. TypeOK'
    BY <1>1, <1>3c, <1>3d DEF Inv, TypeOK, Job
  <1>5. HandlerInv' /\ EffectOncePerReceipt'
    BY <1>1 DEF Inv, HandlerInv, EffectOncePerReceipt
  <1> QED BY <1>2, <1>4, <1>5 DEF Inv

(* The first provisioning makes a tenant that no delivery has resolved.      *)
LEMMA ContextSyncInv ==
  ASSUME Inv, contextSync
  PROVE  Inv'
  <1>1. UNCHANGED <<now, blocked, receipt, effect, dlv, listed, jobs, hand>> /\ ~Active
    BY DEF contextSync, workerVars
  <1>2. inst \in Installation /\ RowOK(inst) /\ made \in Nat
    BY DEF Inv, TypeOK, Installation, InstallationInv
  <1>3. HandlerInv' /\ EffectOncePerReceipt'
    BY <1>1 DEF Inv, HandlerInv, EffectOncePerReceipt
  <1>4. CASE Exists
    <2>1. inst' = inst /\ made' = made
      BY <1>1, <1>2, <1>4, ProvisionedForward DEF contextSync
    <2>2. InstallationInv' /\ ReceiptInv' /\ DeliveryInv'
      BY <1>1, <2>1, QuietKeeps
    <2>3. TypeOK'
      BY <1>1, <2>1 DEF Inv, TypeOK, Job
    <2> QED BY <1>3, <2>2, <2>3 DEF Inv
  <1>5. CASE ~Exists
    <2>1. /\ inst' \in Installation /\ RowOK(inst') /\ inst'.tenant = made + 1
          /\ made' = made + 1
      BY <1>1, <1>2, <1>5, ProvisionedForward DEF contextSync
    <2>2. TypeOK'
      BY <1>1, <1>2, <2>1 DEF Inv, TypeOK, Job, Installation
    <2>3. InstallationInv'
      BY <1>2, <2>1 DEF InstallationInv
    <2>4. ReceiptInv'
      BY <1>1, <1>5 DEF Inv, ReceiptInv, Received
    <2>5. ASSUME NEW d \in Deliveries PROVE DeliveryOK(dlv'[d], inst', made')
      <3>1. dlv'[d] = dlv[d] /\ dlv[d].tenant \in Nat /\ DeliveryOK(dlv[d], inst, made)
        BY <1>1 DEF Inv, TypeOK, DeliveryInv
      <3> QED BY <1>2, <2>1, <3>1 DEF DeliveryOK
    <2> QED BY <1>3, <2>2, <2>3, <2>4, <2>5 DEF Inv, DeliveryInv
  <1> QED BY <1>4, <1>5

(* The purge leaves nothing that an event could be compared with.            *)
LEMMA PurgeInv ==
  ASSUME Inv, runRetentionPurge
  PROVE  Inv'
  <1>1. /\ UNCHANGED <<now, made, blocked, dlv, listed, hand>>
        /\ inst' = NoInstallation /\ receipt' = [e \in Events |-> "none"]
        /\ effect' = [e \in Events |-> 0] /\ jobs' \subseteq jobs
    BY DEF runRetentionPurge
  <1>2. TypeOK'
    BY <1>1 DEF Inv, TypeOK, NoInstallation, MaybeEvent, Job
  <1>3. InstallationInv'
    BY <1>1 DEF Inv, TypeOK, InstallationInv, NoInstallation, RowOK
  <1>4. ReceiptInv' /\ EffectOncePerReceipt'
    BY <1>1 DEF ReceiptInv, Received, Lifecycle, EffectOncePerReceipt
  <1>5. HandlerInv'
    BY <1>1 DEF Inv, HandlerInv
  <1>6. DeliveryInv'
    BY <1>1 DEF Inv, DeliveryInv, DeliveryOK, NoInstallation
  <1> QED BY <1>2, <1>3, <1>4, <1>5, <1>6 DEF Inv

LEMMA IdleDeliveryOK ==
  ASSUME NEW i, NEW m
  PROVE  DeliveryOK(IdleDelivery, i, m)
  BY DEF DeliveryOK, IdleDelivery

LEMMA DeliveryTypes ==
  ASSUME Inv, NEW d \in Deliveries, dlv[d].step # "idle"
  PROVE  /\ dlv[d].ev \in Events /\ dlv[d].tenant \in Nat /\ dlv[d].tenant <= made
         /\ DeliveryOK(dlv[d], inst, made)
         /\ dlv[d].ev.kind # "refund" => dlv[d].ev \in Lifecycle
  BY DEF Inv, TypeOK, DeliveryInv, DeliveryOK, Lifecycle

(* The steps of a request that touch nothing but the request.                *)
LEMMA RequestInv ==
  ASSUME Inv, NEW d \in Deliveries,
         NEW v \in [step: {"idle", "verified", "looked"}, ev: MaybeEvent, tenant: Nat],
         v.step # "idle" => v.ev \in Events /\ v.tenant <= made,
         dlv' = [dlv EXCEPT ![d] = v],
         UNCHANGED <<now, inst, made, blocked, receipt, effect, workerVars>>
  PROVE  Inv'
  <1>1. DeliveryOK(v, inst', made)
    BY DEF DeliveryOK
  <1>2. InstallationInv' /\ ReceiptInv' /\ DeliveryInv'
    BY <1>1, QuietDelivery, QuietKeeps
  <1>3. TypeOK'
    BY DEF Inv, TypeOK, Job, workerVars
  <1>4. HandlerInv' /\ EffectOncePerReceipt'
    BY DEF Inv, HandlerInv, EffectOncePerReceipt, workerVars
  <1> QED BY <1>2, <1>3, <1>4 DEF Inv

LEMMA ResolveInv ==
  ASSUME Inv, NEW d \in Deliveries, resolve(d)
  PROVE  Inv' /\ Forward(inst, inst')
  <1> DEFINE e == dlv[d].ev
  <1>1. /\ UNCHANGED <<now, made, blocked, receipt, effect, listed, jobs, hand>>
        /\ dlv[d].step = "looked"
    BY DEF resolve, workerVars
  <1>2. /\ inst \in Installation /\ RowOK(inst) /\ made \in Nat
        /\ inst.tenant \in Nat /\ inst.tenant <= made
    BY DEF Inv, TypeOK, Installation, InstallationInv
  <1>3. e \in Events /\ (e.kind # "refund" => e \in Lifecycle)
    BY <1>1, DeliveryTypes
  <1>4. /\ Forward(inst, inst')
        /\ Exists /\ e.kind = "authorized" => Settled(inst', e)
    <2>1. CASE Exists /\ e.kind = "authorized" /\ AuthorizationApplies(e)
      <3>1. inst' = Authorized(e)
        BY <2>1 DEF resolve
      <3> QED BY <1>2, <1>3, <2>1, <3>1, AuthorizationForward
    <2>2. CASE ~(Exists /\ e.kind = "authorized" /\ AuthorizationApplies(e))
      <3>1. inst' = inst
        BY <2>2 DEF resolve
      <3> QED BY <1>2, <1>3, <2>2, <3>1, AuthorizationForward, StaysForward
    <2> QED BY <2>1, <2>2
  <1>5. inst' \in Installation
    BY <1>4 DEF Forward
  <1>6. \A x \in Deliveries : dlv'[x] = dlv[x] \/ DeliveryOK(dlv'[x], inst', made)
    <2>1. CASE dlv' = [dlv EXCEPT ![d] = IdleDelivery]
      BY <2>1, QuietDelivery, IdleDeliveryOK
    <2>2. CASE Exists /\ ResolvedTo(d)
      <3> DEFINE v == [dlv[d] EXCEPT !.step = "resolved", !.tenant = inst.tenant]
      <3>1. dlv' = [dlv EXCEPT ![d] = v]
        BY <2>2 DEF ResolvedTo, Inv, TypeOK
      <3>2. v.ev = e /\ v.tenant = inst.tenant
        BY DEF Inv, TypeOK
      <3>3. DeliveryOK(v, inst', made)
        BY <1>2, <1>3, <1>4, <2>2, <3>2 DEF DeliveryOK, Exists
      <3> QED BY <3>1, <3>3, QuietDelivery
    <2> QED BY <2>1, <2>2 DEF resolve, Ends, Active
  <1>7. InstallationInv' /\ ReceiptInv' /\ DeliveryInv'
    BY <1>1, <1>4, <1>6, ForwardKeeps DEF Received
  <1>8. TypeOK'
    <2>1. dlv' \in [Deliveries -> [step: {"idle", "verified", "looked", "resolved"},
                                   ev: MaybeEvent, tenant: Nat]]
      <3>1. ResolvedTo(d) \/ Ends(d)
        BY DEF resolve
      <3>2. CASE ResolvedTo(d)
        <4> DEFINE v == [dlv[d] EXCEPT !.step = "resolved", !.tenant = inst.tenant]
        <4>1. dlv' = [dlv EXCEPT ![d] = v]
          BY <3>2 DEF ResolvedTo, Inv, TypeOK
        <4>2. v \in [step: {"idle", "verified", "looked", "resolved"},
                     ev: MaybeEvent, tenant: Nat]
          BY <1>2 DEF Inv, TypeOK
        <4> HIDE DEF v
        <4> QED BY <4>1, <4>2 DEF Inv, TypeOK
      <3>3. CASE Ends(d)
        BY <3>3 DEF Ends, Inv, TypeOK, IdleDelivery, MaybeEvent
      <3> QED BY <3>1, <3>2, <3>3
    <2> QED BY <1>1, <1>5, <2>1 DEF Inv, TypeOK, Job, Installation
  <1>9. HandlerInv' /\ EffectOncePerReceipt'
    BY <1>1 DEF Inv, HandlerInv, EffectOncePerReceipt
  <1> QED BY <1>4, <1>7, <1>8, <1>9 DEF Inv

LEMMA InsertInv ==
  ASSUME Inv, NEW d \in Deliveries, insert(d)
  PROVE  Inv' /\ Forward(inst, inst')
  <1> DEFINE e == dlv[d].ev
  <1>1. /\ UNCHANGED <<now, made, blocked, effect, listed, jobs, hand>>
        /\ dlv[d].step = "resolved" /\ dlv' = [dlv EXCEPT ![d] = IdleDelivery]
    BY DEF insert, Ends, workerVars
  <1>2. inst \in Installation /\ RowOK(inst)
    BY DEF Inv, TypeOK, Installation, InstallationInv
  <1>3. /\ e \in Events /\ (e.kind # "refund" => e \in Lifecycle)
        /\ DeliveryOK(dlv[d], inst, made)
    BY <1>1, DeliveryTypes
  <1>4. /\ Forward(inst, inst')
        /\ Insertable(d) /\ e.kind # "refund" => Exists /\ Settled(inst', e)
    <2>1. CASE Insertable(d) /\ e.kind = "deauthorized"
      <3>1. inst' = applyWebhookDeauthorization(e) /\ Exists
        BY <2>1 DEF insert, Insertable
      <3> QED BY <1>2, <1>3, <2>1, <3>1, DeauthorizationForward
    <2>2. CASE ~(Insertable(d) /\ e.kind = "deauthorized")
      <3>1. inst' = inst
        BY <2>2 DEF insert
      <3>2. e.kind # "refund" /\ e.kind # "deauthorized" => e.kind = "authorized"
        BY <1>3, LifecycleAssumption DEF EventKind
      <3> QED BY <1>1, <1>2, <1>3, <2>2, <3>1, <3>2, StaysForward DEF Insertable, DeliveryOK
    <2> QED BY <2>1, <2>2
  <1>5. inst' \in Installation
    BY <1>4 DEF Forward
  <1>6. /\ receipt' \in [Events -> {"none", "received", "processed", "failed"}]
        /\ \A f \in Events : \/ receipt'[f] = receipt[f]
                             \/ f = e /\ Insertable(d) /\ receipt[f] = "none"
                                  /\ receipt'[f] = "received"
    BY <1>3 DEF insert, Inv, TypeOK, Received
  <1>7. \A f \in Lifecycle : receipt'[f] # "none" =>
          Received(f) \/ (Exists /\ Settled(inst', f))
    BY <1>4, <1>6 DEF Received, Lifecycle
  <1>8. InstallationInv' /\ ReceiptInv' /\ DeliveryInv'
    BY <1>1, <1>4, <1>7, ForwardKeeps, QuietDelivery, IdleDeliveryOK
  <1>9. TypeOK'
    BY <1>1, <1>5, <1>6 DEF Inv, TypeOK, Job, Installation, IdleDelivery, MaybeEvent
  <1>10. HandlerInv' /\ EffectOncePerReceipt'
    BY <1>1, <1>6 DEF Inv, HandlerInv, EffectOncePerReceipt
  <1> QED BY <1>4, <1>8, <1>9, <1>10 DEF Inv

LEMMA DeliveryStepInv ==
  ASSUME Inv, NEW d \in Deliveries, Delivery(d)
  PROVE  Inv' /\ Forward(inst, inst')
  <1>1. inst \in Installation /\ RowOK(inst)
    BY DEF Inv, TypeOK, Installation, InstallationInv
  <1>2. ASSUME UNCHANGED inst PROVE Forward(inst, inst')
    BY <1>1, <1>2, StaysForward
  <1>3. IdleDelivery \in [step: {"idle", "verified", "looked"}, ev: MaybeEvent, tenant: Nat]
        /\ IdleDelivery.step = "idle"
    BY DEF IdleDelivery, MaybeEvent
  <1>4. ASSUME Ends(d), UNCHANGED <<now, inst, made, blocked, receipt, effect, workerVars>>
        PROVE  Inv' /\ Forward(inst, inst')
    BY <1>2, <1>3, <1>4, RequestInv DEF Ends
  <1>5. ASSUME NEW e \in Events, receiveAccountWebhook(d, e)
        PROVE  Inv' /\ Forward(inst, inst')
    <2> DEFINE v == [step |-> "verified", ev |-> e, tenant |-> 0]
    <2>1. /\ v \in [step: {"idle", "verified", "looked"}, ev: MaybeEvent, tenant: Nat]
          /\ v.ev \in Events /\ v.tenant <= made
      BY DEF MaybeEvent, Inv, TypeOK
    <2>2. /\ dlv' = [dlv EXCEPT ![d] = v]
          /\ UNCHANGED <<now, inst, made, blocked, receipt, effect, workerVars>>
      BY <1>5 DEF receiveAccountWebhook
    <2> HIDE DEF v
    <2> QED BY <1>2, <2>1, <2>2, RequestInv
  <1>6. CASE findExisting(d)
    <2>1. CASE Ends(d)
      BY <1>4, <1>6, <2>1 DEF findExisting
    <2>2. CASE Goes(d, "looked")
      <3> DEFINE v == [dlv[d] EXCEPT !.step = "looked"]
      <3>1. dlv[d].step # "idle"
        BY <1>6 DEF findExisting
      <3>2. /\ v \in [step: {"idle", "verified", "looked"}, ev: MaybeEvent, tenant: Nat]
            /\ v.ev = dlv[d].ev /\ v.tenant = dlv[d].tenant
            /\ dlv' = [dlv EXCEPT ![d] = v]
        BY <2>2 DEF Inv, TypeOK, Goes
      <3>3. v.ev \in Events /\ v.tenant <= made
        BY <3>1, <3>2, DeliveryTypes
      <3>4. UNCHANGED <<now, inst, made, blocked, receipt, effect, workerVars>>
        BY <1>6 DEF findExisting
      <3> HIDE DEF v
      <3> QED BY <1>2, <3>2, <3>3, <3>4, RequestInv
    <2> QED BY <1>6, <2>1, <2>2 DEF findExisting
  <1>7. CASE deliveryFails(d)
    BY <1>4, <1>7 DEF deliveryFails
  <1> QED BY <1>5, <1>6, <1>7, ResolveInv, InsertInv DEF Delivery

(* The steps of the worker that touch no installation and no receipt.        *)
LEMMA QueueInv ==
  ASSUME Inv, UNCHANGED <<now, inst, made, blocked, receipt, effect, dlv>>,
         listed' \in SUBSET Job, jobs' \in SUBSET Job,
         hand' \in [Handlers -> [step: {"idle", "run", "mark"}, ev: MaybeEvent, tenant: Nat,
                                 owns: BOOLEAN]],
         \A h \in Handlers : hand'[h].step # "idle" => hand'[h].ev \in Events
  PROVE  Inv' /\ Forward(inst, inst')
  <1>1. InstallationInv' /\ ReceiptInv' /\ DeliveryInv'
    BY QuietKeeps
  <1>2. TypeOK'
    BY DEF Inv, TypeOK, Job
  <1>3. HandlerInv' /\ EffectOncePerReceipt'
    BY DEF Inv, HandlerInv, EffectOncePerReceipt
  <1>4. Forward(inst, inst')
    BY StaysForward DEF Inv, TypeOK, Installation, InstallationInv
  <1> QED BY <1>1, <1>2, <1>3, <1>4 DEF Inv

LEMMA QueueTypes ==
  ASSUME Inv
  PROVE  /\ listed \in SUBSET Job /\ jobs \in SUBSET Job
         /\ hand \in [Handlers -> [step: {"idle", "run", "mark"}, ev: MaybeEvent, tenant: Nat,
                                   owns: BOOLEAN]]
         /\ \A h \in Handlers : hand[h].step # "idle" => hand[h].ev \in Events /\ JobOf(h) \in Job
         /\ Recoverable \in SUBSET Job
  <1>1. /\ listed \in SUBSET Job /\ jobs \in SUBSET Job
        /\ hand \in [Handlers -> [step: {"idle", "run", "mark"}, ev: MaybeEvent, tenant: Nat,
                                   owns: BOOLEAN]]
    BY DEF Inv, TypeOK
  <1>2. \A h \in Handlers : hand[h].step # "idle" => hand[h].ev \in Events
    BY DEF Inv, HandlerInv
  <1>3. \A h \in Handlers : hand[h].step # "idle" => JobOf(h) \in Job
    BY <1>1, <1>2 DEF JobOf, Job
  <1>4. inst.tenant \in Nat
    BY DEF Inv, TypeOK
  <1>5. Recoverable \in SUBSET Job
    BY <1>4 DEF Recoverable, Job
  <1> QED BY <1>1, <1>2, <1>3, <1>5

LEMMA IdleHandlerType ==
  IdleHandler \in [step: {"idle", "run", "mark"}, ev: MaybeEvent, tenant: Nat, owns: BOOLEAN]
    /\ IdleHandler.step = "idle"
  BY DEF IdleHandler, MaybeEvent

LEMMA FreesType ==
  ASSUME Inv, NEW h \in Handlers, Frees(h)
  PROVE  /\ hand' \in [Handlers -> [step: {"idle", "run", "mark"}, ev: MaybeEvent, tenant: Nat,
                                    owns: BOOLEAN]]
         /\ \A x \in Handlers : hand'[x].step # "idle" => hand'[x].ev \in Events
  BY QueueTypes, IdleHandlerType DEF Frees

LEMMA RecoveryInv ==
  ASSUME Inv, listRecoverableWebhookJobs \/ enqueueWebhooks
  PROVE  Inv' /\ Forward(inst, inst')
  <1>1. /\ UNCHANGED <<now, inst, made, blocked, receipt, effect, dlv, hand>>
        /\ listed' \in SUBSET Job /\ jobs' \in SUBSET Job
    BY QueueTypes DEF listRecoverableWebhookJobs, enqueueWebhooks
  <1> QED BY <1>1, QueueTypes, QueueInv

(* The step of the job that applies a receipt.                               *)
LEMMA ProcessInv ==
  ASSUME Inv, NEW h \in Handlers, handleWebhookJob(h), Processes(h),
         receipt[hand[h].ev] # "processed",
         inst' = IF hand[h].ev.kind = "deauthorized"
                 THEN applyWebhookDeauthorization(hand[h].ev) ELSE inst,
         markWebhookReceiptProcessed(hand[h].ev), Frees(h)
  PROVE  Inv' /\ Forward(inst, inst')
  <1> DEFINE e == hand[h].ev
  <1>1. /\ UNCHANGED <<now, made, blocked, dlv, listed, jobs>>
        /\ hand[h].step = "run" /\ Exists /\ Received(e)
    BY DEF handleWebhookJob, Processes, HasReceipt
  <1>2. inst \in Installation /\ RowOK(inst)
    BY DEF Inv, TypeOK, Installation, InstallationInv
  <1>3. e \in Events /\ (e.kind = "deauthorized" => e \in Lifecycle)
    BY <1>1, QueueTypes DEF Lifecycle
  <1>4. Forward(inst, inst')
    <2>1. CASE e.kind = "deauthorized"
      BY <1>1, <1>2, <1>3, <2>1, DeauthorizationForward
    <2>2. CASE e.kind # "deauthorized"
      BY <1>2, <2>2, StaysForward
    <2> QED BY <2>1, <2>2
  <1>5. inst' \in Installation
    BY <1>4 DEF Forward
  <1>6. /\ receipt' \in [Events -> {"none", "received", "processed", "failed"}]
        /\ effect' \in [Events -> Nat]
        /\ \A f \in Events : \/ f # e /\ receipt'[f] = receipt[f] /\ effect'[f] = effect[f]
                             \/ f = e /\ receipt'[f] = "processed" /\ effect'[f] = effect[f] + 1
    BY <1>3 DEF markWebhookReceiptProcessed, Inv, TypeOK
  <1>7. InstallationInv' /\ ReceiptInv' /\ DeliveryInv'
    <2>1. \A f \in Lifecycle : receipt'[f] # "none" => Received(f)
      BY <1>1, <1>6 DEF Received, Lifecycle
    <2> QED BY <1>1, <1>4, <2>1, ForwardKeeps
  <1>8. EffectOncePerReceipt'
    BY <1>6 DEF Inv, EffectOncePerReceipt
  <1>9. TypeOK' /\ HandlerInv'
    BY <1>1, <1>5, <1>6, FreesType DEF Inv, TypeOK, Job, Installation, HandlerInv
  <1> QED BY <1>4, <1>7, <1>8, <1>9 DEF Inv

(* A failure is recorded over a receipt that exists and is not processed.    *)
LEMMA MarkInv ==
  ASSUME Inv, NEW h \in Handlers, markWebhookReceiptFailed(h)
  PROVE  Inv' /\ Forward(inst, inst')
  <1>1. /\ UNCHANGED <<now, inst, made, blocked, effect, dlv, listed>>
        /\ hand[h].step = "mark" /\ Frees(h) /\ receipt' \in {receipt, Marked(h)}
        /\ jobs' \in {jobs, jobs \cup {JobOf(h)}}
    BY DEF markWebhookReceiptFailed
  <1>2. hand[h].ev \in Events /\ JobOf(h) \in Job /\ jobs \in SUBSET Job
    BY <1>1, QueueTypes
  <1>3. jobs' \in SUBSET Job
    BY <1>1, <1>2
  <1>4. /\ receipt' \in [Events -> {"none", "received", "processed", "failed"}]
        /\ \A f \in Events : \/ receipt'[f] = receipt[f]
                             \/ /\ receipt[f] # "none" /\ receipt[f] # "processed"
                                /\ receipt'[f] = "failed"
    BY <1>1, <1>2 DEF Marked, HasReceipt, Received, Inv, TypeOK
  <1>5. Forward(inst, inst')
    BY <1>1, StaysForward DEF Inv, TypeOK, Installation, InstallationInv
  <1>6. InstallationInv' /\ ReceiptInv' /\ DeliveryInv'
    <2>1. \A f \in Lifecycle : receipt'[f] # "none" => Received(f)
      BY <1>4 DEF Received, Lifecycle
    <2> QED BY <1>1, <1>5, <2>1, ForwardKeeps
  <1>7. EffectOncePerReceipt'
    BY <1>1, <1>4 DEF Inv, EffectOncePerReceipt
  <1>8. TypeOK' /\ HandlerInv'
    BY <1>1, <1>3, <1>4, FreesType DEF Inv, TypeOK, Job, HandlerInv
  <1> QED BY <1>5, <1>6, <1>7, <1>8 DEF Inv

LEMMA HandlerStepInv ==
  ASSUME Inv, NEW h \in Handlers, Handler(h)
  PROVE  Inv' /\ Forward(inst, inst')
  <1> DEFINE Hands == [step: {"idle", "run", "mark"}, ev: MaybeEvent, tenant: Nat, owns: BOOLEAN]
  <1>1. ASSUME NEW v \in Hands, v.step # "idle" => v.ev \in Events,
               hand' = [hand EXCEPT ![h] = v]
        PROVE  /\ hand' \in [Handlers -> Hands]
               /\ \A x \in Handlers : hand'[x].step # "idle" => hand'[x].ev \in Events
    BY <1>1, QueueTypes
  <1>2. ASSUME hand[h].step # "idle", hand' = [hand EXCEPT ![h].step = "mark"]
        PROVE  /\ hand' \in [Handlers -> Hands]
               /\ \A x \in Handlers : hand'[x].step # "idle" => hand'[x].ev \in Events
    <2> DEFINE v == [hand[h] EXCEPT !.step = "mark"]
    <2>1. v \in Hands /\ v.ev \in Events /\ hand' = [hand EXCEPT ![h] = v]
      BY <1>2, QueueTypes
    <2> HIDE DEF v
    <2> QED BY <1>1, <2>1
  <1>3. ASSUME NEW j \in jobs, takeJob(h, j)
        PROVE  Inv' /\ Forward(inst, inst')
    <2> DEFINE v == [step |-> "run", ev |-> j.ev, tenant |-> j.tenant, owns |-> TRUE]
    <2>1. /\ UNCHANGED <<now, inst, made, blocked, receipt, effect, dlv, listed>>
          /\ hand' = [hand EXCEPT ![h] = v] /\ jobs' \subseteq jobs
      BY <1>3 DEF takeJob
    <2>2. j.ev \in Events /\ j.tenant \in Nat
      BY QueueTypes DEF Job
    <2>3. v \in Hands /\ v.ev \in Events
      BY <2>2 DEF MaybeEvent
    <2> HIDE DEF v
    <2>4. /\ hand' \in [Handlers -> Hands]
          /\ \A x \in Handlers : hand'[x].step # "idle" => hand'[x].ev \in Events
      BY <1>1, <2>1, <2>3
    <2> QED BY <2>1, <2>4, QueueTypes, QueueInv
  <1>4. CASE handleWebhookJob(h)
    <2> DEFINE e == hand[h].ev
    <2>1. /\ UNCHANGED <<now, made, blocked, dlv, listed, jobs>> /\ hand[h].step = "run"
      BY <1>4 DEF handleWebhookJob
    <2>2. CASE UNCHANGED <<inst, receipt, effect>> /\ Frees(h)
      BY <2>1, <2>2, FreesType, QueueTypes, QueueInv
    <2>3. CASE UNCHANGED <<inst, receipt, effect>> /\ hand' = [hand EXCEPT ![h].step = "mark"]
      BY <1>2, <2>1, <2>3, QueueTypes, QueueInv
    <2>4. CASE /\ Processes(h) /\ receipt[e] # "processed"
               /\ inst' = IF e.kind = "deauthorized" THEN applyWebhookDeauthorization(e) ELSE inst
               /\ markWebhookReceiptProcessed(e) /\ Frees(h)
      BY <1>4, <2>4, ProcessInv
    <2> QED BY <1>4, <2>2, <2>3, <2>4 DEF handleWebhookJob
  <1>5. CASE processingFails(h)
    <2>1. /\ UNCHANGED <<now, inst, made, blocked, receipt, effect, dlv, listed, jobs>>
          /\ hand[h].step = "run" /\ hand' = [hand EXCEPT ![h].step = "mark"]
      BY <1>5 DEF processingFails
    <2> QED BY <1>2, <2>1, QueueTypes, QueueInv
  <1>6. CASE workerCrashes(h)
    <2>1. /\ UNCHANGED <<now, inst, made, blocked, receipt, effect, dlv, listed>>
          /\ hand[h].step # "idle" /\ Frees(h) /\ jobs' \in {jobs, jobs \cup {JobOf(h)}}
      BY <1>6 DEF workerCrashes
    <2>2. jobs' \in SUBSET Job
      BY <2>1, QueueTypes
    <2> QED BY <2>1, <2>2, FreesType, QueueTypes, QueueInv
  <1>7. CASE jobExpires(h)
    <2> DEFINE v == [hand[h] EXCEPT !.owns = FALSE]
    <2>1. /\ UNCHANGED <<now, inst, made, blocked, receipt, effect, dlv, listed>>
          /\ hand[h].step # "idle" /\ jobs' = jobs \cup {JobOf(h)}
      BY <1>7 DEF jobExpires
    <2>2. v \in Hands /\ v.ev \in Events /\ hand' = [hand EXCEPT ![h] = v]
      BY <1>7, <2>1, QueueTypes DEF jobExpires
    <2>3. jobs' \in SUBSET Job
      BY <2>1, QueueTypes
    <2> HIDE DEF v
    <2>4. /\ hand' \in [Handlers -> Hands]
          /\ \A x \in Handlers : hand'[x].step # "idle" => hand'[x].ev \in Events
      BY <1>1, <2>2
    <2> QED BY <2>1, <2>3, <2>4, QueueTypes, QueueInv
  <1> QED BY <1>3, <1>4, <1>5, <1>6, <1>7, MarkInv DEF Handler

-------------------------------------------------------------------------------
(* Every step keeps the invariant, and moves the row forward unless it       *)
(* provisions the first installation or purges the last one.                 *)

LEMMA NextInv ==
  ASSUME Inv, [Next]_vars
  PROVE  Inv' /\ (Forward(inst, inst') \/ (contextSync /\ ~Exists) \/ runRetentionPurge)
  <1>1. inst \in Installation /\ RowOK(inst) /\ made \in Nat
    BY DEF Inv, TypeOK, Installation, InstallationInv
  <1>2. ASSUME UNCHANGED inst PROVE Forward(inst, inst')
    BY <1>1, <1>2, StaysForward
  <1>3. CASE tick \/ hold \/ release
    BY <1>2, <1>3, ClockInv DEF tick, hold, release
  <1>4. CASE contextSync
    <2>1. Exists => inst' = inst
      BY <1>1, <1>4, ProvisionedForward DEF contextSync
    <2> QED BY <1>2, <1>4, <2>1, ContextSyncInv
  <1>5. CASE UNCHANGED vars
    <2>1. UNCHANGED <<now, inst, made, blocked, receipt, effect, dlv, listed, jobs, hand>>
      BY <1>5 DEF vars
    <2> QED BY <2>1, QueueTypes, QueueInv
  <1>6. CASE \E d \in Deliveries : Delivery(d)
    BY <1>6, DeliveryStepInv
  <1>7. CASE \E h \in Handlers : Handler(h)
    BY <1>7, HandlerStepInv
  <1>8. CASE runRetentionPurge
    BY <1>8, PurgeInv
  <1>9. CASE listRecoverableWebhookJobs \/ enqueueWebhooks
    BY <1>9, RecoveryInv
  <1> QED BY <1>3, <1>4, <1>5, <1>6, <1>7, <1>8, <1>9 DEF Next

(* The inductive invariant: the row says what its last event says, a received*)
(* lifecycle event has been applied or outranked, and so has an              *)
(* authorization whose delivery has resolved the present tenant.             *)
THEOREM LifecycleInvariance == Spec => []Inv
  <1>1. Inv /\ [Next]_vars => Inv'
    BY NextInv
  <1> QED BY <1>1, InitInv, PTL DEF Spec

(* Every reachable state has its type, whatever the events and the bounds.   *)
THEOREM LifecycleTypeCorrect == Spec => []TypeOK
  <1>1. Inv => TypeOK
    BY DEF Inv
  <1> QED BY <1>1, LifecycleInvariance, PTL

(* The latest received lifecycle event decides whether the installation is   *)
(* active, for every set of events and any number of concurrent deliveries   *)
(* and handlers (applyWebhookDeauthorization,                                *)
(* refunddesk_provision_webhook_installation).                               *)
THEOREM LatestDecides == Spec => []LatestLifecycleEventDecides
  <1>1. Inv => LatestLifecycleEventDecides
    <2> SUFFICES ASSUME Inv, NEW e \in Lifecycle, Received(e)
                 PROVE  /\ inst.last \in Lifecycle
                        /\ e.kind = "deauthorized" /\ inst.status = "active" =>
                             inst.last.kind = "authorized" /\ inst.last.at > e.at
                        /\ e.kind = "authorized" /\ inst.status = "deauthorized" =>
                             inst.last.kind = "deauthorized" /\ inst.last.at >= e.at
      BY DEF LatestLifecycleEventDecides
    <2>1. Exists /\ inst.last \in Lifecycle /\ Outranks(inst.last, e) /\ RowOK(inst)
      BY DEF Inv, ReceiptInv, Settled, InstallationInv
    <2>2. inst.last # NoEvent /\ inst.last.at \in Nat /\ e.at \in Nat
      BY <2>1, EventTypes
    <2> QED BY <2>1, <2>2 DEF Outranks, RowOK, Exists
  <1> QED BY <1>1, LifecycleInvariance, PTL

(* The effect of a webhook event is committed once, whatever jobs are        *)
(* duplicated, expire or crash (handleWebhookJob, markWebhookReceiptFailed). *)
THEOREM EffectOnce == Spec => []EffectOncePerReceipt
  <1>1. Inv => EffectOncePerReceipt
    BY DEF Inv
  <1> QED BY <1>1, LifecycleInvariance, PTL

(* The last lifecycle event never goes back, and only an authorization newer *)
(* than the event that ended an installation revives it                      *)
(* (applyWebhookDeauthorization, refunddesk_provision_installation).         *)
THEOREM LifecycleForward == Spec => LifecycleMovesForward
  <1> DEFINE Moves == Exists /\ inst'.tenant = inst.tenant /\ inst.last # NoEvent =>
       /\ inst'.last # NoEvent /\ inst'.last.at >= inst.last.at
       /\ inst.status = "deauthorized" /\ inst'.status = "active" =>
            inst'.last.kind = "authorized" /\ inst'.last.at > inst.last.at
  <1>1. Inv /\ [Next]_vars => [Moves]_vars
    <2> SUFFICES ASSUME Inv, [Next]_vars, Exists, inst'.tenant = inst.tenant,
                        inst.last # NoEvent
                 PROVE  /\ inst'.last # NoEvent /\ inst'.last.at >= inst.last.at
                        /\ inst.status = "deauthorized" /\ inst'.status = "active" =>
                             inst'.last.kind = "authorized" /\ inst'.last.at > inst.last.at
      OBVIOUS
    <2>1. ~runRetentionPurge
      BY DEF runRetentionPurge, NoInstallation, Exists
    <2>2. Forward(inst, inst')
      BY <2>1, NextInv
    <2>3. inst.last \in Lifecycle
      BY DEF Inv, InstallationInv, RowOK
    <2>4. Settled(inst, inst.last)
      <3>1. inst.last.at \in Nat /\ inst.last.kind \in {"authorized", "deauthorized"}
        BY <2>3, EventTypes
      <3> QED BY <2>3, <3>1 DEF Settled, Outranks
    <2>5. inst'.last \in Lifecycle /\ Outranks(inst'.last, inst.last)
      BY <2>2, <2>3, <2>4 DEF Forward, Settled
    <2>6. inst'.last # NoEvent /\ inst'.last.at \in Nat /\ inst.last.at \in Nat
      BY <2>3, <2>5, EventTypes
    <2>7. inst'.last.at >= inst.last.at
      BY <2>5, <2>6 DEF Outranks
    <2> QED BY <2>2, <2>6, <2>7 DEF Forward, Exists
  <1> QED BY <1>1, LifecycleInvariance, PTL DEF Spec, LifecycleMovesForward

(* A tenant is deleted PurgeDelay after the last lifecycle event it received *)
(* and after the effect of every refund event it received                    *)
(* (refunddesk_purge_test_sandbox_tenant).                                   *)
THEOREM PurgeIsPatient == Spec => PurgeWaits
  <1> DEFINE Waits == Exists /\ inst'.tenant # inst.tenant =>
       \A e \in Events : Received(e) =>
         IF e.kind = "refund" THEN effect[e] = 1 ELSE e.at + PurgeDelay <= now
  <1>1. Inv /\ [Next]_vars => [Waits]_vars
    <2> SUFFICES ASSUME Inv, [Next]_vars, Exists, inst'.tenant # inst.tenant,
                        NEW e \in Events, Received(e)
                 PROVE  IF e.kind = "refund" THEN effect[e] = 1 ELSE e.at + PurgeDelay <= now
      OBVIOUS
    <2>1. PurgeDue
      <3>1. ~Forward(inst, inst')
        BY DEF Forward
      <3> QED BY <3>1, NextInv DEF runRetentionPurge
    <2>2. CASE e.kind = "refund"
      BY <2>1, <2>2 DEF PurgeDue, RefundsProcessed, Inv, EffectOncePerReceipt
    <2>3. CASE e.kind # "refund"
      <3>1. e \in Lifecycle
        BY <2>3 DEF Lifecycle
      <3>2. inst.last \in Lifecycle /\ Outranks(inst.last, e)
            /\ inst.purgeAt = inst.last.at + PurgeDelay
        BY <2>1, <3>1 DEF PurgeDue, Inv, InstallationInv, RowOK, ReceiptInv, Settled, Exists
      <3>3. e.at \in Nat /\ inst.last.at \in Nat /\ PurgeDelay \in Nat /\ now \in Nat
            /\ inst.purgeAt <= now
        BY <2>1, <3>1, <3>2, EventTypes, LifecycleAssumption DEF PurgeDue, Inv, TypeOK
      <3>4. inst.last.at >= e.at
        BY <3>2, <3>3 DEF Outranks
      <3> QED BY <2>3, <3>2, <3>3, <3>4
    <2> QED BY <2>2, <2>3
  <1> QED BY <1>1, LifecycleInvariance, PTL DEF Spec, PurgeWaits

(* Nothing but time, a hold or an unprocessed refund event stands between an *)
(* uninstalled tenant and its purge: its date is set, and is PurgeDelay      *)
(* after the deauthorization that ended it.                                  *)
EndIsScheduled ==
  Exists /\ ~Active =>
    /\ inst.last \in Lifecycle /\ inst.last.kind = "deauthorized"
    /\ inst.purgeAt = inst.last.at + PurgeDelay
    /\ ~blocked /\ RefundsProcessed /\ inst.last.at + PurgeDelay <= now => PurgeDue

(* No order of deliveries, retries, provisioning and purges leaves an        *)
(* uninstalled tenant without the purge date of its deauthorization          *)
(* (applyWebhookDeauthorization, refunddesk_provision_installation): whatever*)
(* fails, the purge needs no more than that the date passes.                 *)
THEOREM EndScheduled == Spec => []EndIsScheduled
  <1>1. Inv => EndIsScheduled
    <2> SUFFICES ASSUME Inv, Exists, ~Active
                 PROVE  /\ inst.last \in Lifecycle /\ inst.last.kind = "deauthorized"
                        /\ inst.purgeAt = inst.last.at + PurgeDelay
                        /\ ~blocked /\ RefundsProcessed /\ inst.last.at + PurgeDelay <= now
                             => PurgeDue
      BY DEF EndIsScheduled
    <2>1. inst.status = "deauthorized" /\ RowOK(inst) /\ inst.tenant # 0
      BY DEF Inv, TypeOK, InstallationInv, Exists, Active
    <2>2. /\ inst.last \in Lifecycle /\ inst.last.kind = "deauthorized"
          /\ inst.purgeAt = inst.last.at + PurgeDelay
      BY <2>1 DEF RowOK
    <2>3. inst.purgeAt # 0
      BY <2>2, EventTypes, LifecycleAssumption
    <2> QED BY <2>1, <2>2, <2>3 DEF PurgeDue
  <1> QED BY <1>1, LifecycleInvariance, PTL
===============================================================================

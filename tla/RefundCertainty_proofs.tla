------------------------ MODULE RefundCertainty_proofs ------------------------
(***************************************************************************)
(* What RefundExecution knows for certain about calls that may still reach *)
(* Stripe and about refunds that do not exist: a call under way keeps its  *)
(* request guarded and uncertain, a request that ended stale or failed has *)
(* no refund alive and none to come, and no compare-and-set of a scan's    *)
(* commit can fail.                                                        *)
(*                                                                         *)
(* Two races break this of a request (RefundRaces): two handlers work on   *)
(* it, or a scan that covers it is under way while its call is.  The       *)
(* theorems are about every instance, and about every request that was not *)
(* raced, whatever happened to the others.  That handlers only meet over an*)
(* expired job is a theorem as well.                                       *)
(*                                                                         *)
(* Of raced requests, too: no approved one is ever between the lanes that  *)
(* work on requests, and none has a refund without an approval.            *)
(***************************************************************************)
EXTENDS RefundRows_proofs, RefundRaces

-------------------------------------------------------------------------------
(* What a step does to the handlers, the jobs and the calls under way.       *)
NoNewRefund(S) == \A r \in Requests : stripe'[r] # <<>> => stripe[r] # <<>> \/ r \in S

Quiet ==
  /\ hand' = hand /\ stray' = stray
  /\ \A r \in Requests : job[r] = "active" => job'[r] = "active"
  /\ NoNewRefund({})

Ends(h) ==
  /\ hand[h].step # "idle" /\ hand' = [hand EXCEPT ![h] = Idle]
  /\ stray' = IF hand[h].step = "calling" THEN stray \cup {hand[h].req} ELSE stray
  /\ \A r \in Requests : hand[h].zombie \/ r # hand[h].req => job'[r] = job[r]
  /\ NoNewRefund({})

Loads(h, r, w) ==
  /\ hand[h].step = "idle" /\ hand' = [hand EXCEPT ![h] = w]
  /\ w.step = "loaded" /\ w.req = r /\ w.zombie = FALSE
  /\ job[r] = "created" /\ job' = [job EXCEPT ![r] = "active"]
  /\ stray' = stray /\ NoNewRefund({})

(* The call of handler h, that becomes w.                                    *)
Calls(h, w) ==
  \/ /\ hand[h].step = "loaded" /\ w.step \in {"refused", "cleared"}
     /\ stray' = stray /\ NoNewRefund({})
  \/ /\ hand[h].step = "cleared" /\ w.step = "calling" /\ Begun(h)
     /\ stray' = stray /\ NoNewRefund({})
  \/ /\ hand[h].step = "calling" /\ w.step = "answered"
     /\ \/ w.answer = "refund" /\ stray' = stray /\ NoNewRefund({hand[h].req})
        \/ w.answer \in {"retryable", "terminal"} /\ stray' = stray /\ NoNewRefund({})
        \/ w.answer = "ambiguous" /\ stray' = stray \cup {hand[h].req} /\ NoNewRefund({})
  \/ /\ hand[h].step = w.step /\ hand[h].answer = w.answer
     /\ stray' = stray /\ NoNewRefund({})

Advances(h, w) ==
  /\ hand[h].step # "idle" /\ w.step # "idle" /\ w.req = hand[h].req
  /\ hand' = [hand EXCEPT ![h] = w]
  /\ \/ w.zombie = hand[h].zombie /\ job' = job
     \/ /\ w.zombie /\ ~hand[h].zombie
        /\ \A r \in Requests : r # hand[h].req => job'[r] = job[r]
  /\ Calls(h, w)

Lands(r) ==
  /\ hand' = hand /\ job' = job
  /\ r \in stray /\ stray' = stray \ {r}
  /\ NoNewRefund({r})

WorkerKind ==
  \/ Quiet
  \/ \E h \in Handlers : Ends(h)
  \/ \E h \in Handlers, r \in Requests, w \in HandType : Loads(h, r, w)
  \/ \E h \in Handlers, w \in HandType : Advances(h, w)
  \/ \E r \in Requests : Lands(r)

LEMMA SameHistory ==
  ASSUME UNCHANGED stripe, NEW S
  PROVE  NoNewRefund(S)
  BY DEF NoNewRefund

LEMMA LandedHistory ==
  ASSUME TypeOK, NEW r \in Requests, CallLands(r)
  PROVE  NoNewRefund({r})
  <1>1. CASE UNCHANGED stripe
    BY <1>1, SameHistory
  <1>2. CASE \E s \in InitialRefundStatus : stripe' = [stripe EXCEPT ![r] = <<s>>]
    <2>1. PICK s \in InitialRefundStatus : stripe' = [stripe EXCEPT ![r] = <<s>>]
      BY <1>2
    <2>2. \A q \in Requests : q # r => stripe'[q] = stripe[q]
      BY <2>1 DEF TypeOK, StripeTypeOK
    <2> QED BY <2>2 DEF NoNewRefund
  <1> QED BY <1>1, <1>2 DEF CallLands

LEMMA JobEndsIsEnd ==
  ASSUME TypeOK, HandlersBound, NEW h \in Handlers, hand[h].step # "idle", NEW o, JobEnds(h, o),
         UNCHANGED stripe,
         stray' = IF hand[h].step = "calling" THEN stray \cup {hand[h].req} ELSE stray
  PROVE  Ends(h)
  <1>1. hand[h].req \in Requests /\ hand' = [hand EXCEPT ![h] = Idle]
    BY DEF HandlersBound, JobEnds
  <1>2. job \in [Requests -> {"none", "created", "active"}]
    BY DEF TypeOK, WorkerTypeOK
  <1>3. \A r \in Requests : hand[h].zombie \/ r # hand[h].req => job'[r] = job[r]
    BY <1>1, <1>2 DEF JobEnds
  <1> QED BY <1>1, <1>3, SameHistory DEF Ends

LEMMA HandlerKind ==
  ASSUME TypeOK, HandlersBound, NEW h \in Handlers, HandlerStep(h)
  PROVE  Ends(h) \/ \E w \in HandType : Advances(h, w)
  <1>1. hand \in [Handlers -> HandType] /\ hand[h] \in HandType
    BY DEF TypeOK, WorkerTypeOK, HandType
  <1>2. /\ "refused" \in StepName /\ "cleared" \in StepName /\ "calling" \in StepName
        /\ "answered" \in StepName
    BY DEF StepName
  <1>3. ASSUME hand[h].step = "loaded", NEW s \in {"refused", "cleared"}, Step(h, s),
               UNCHANGED <<stripe, stray>>
        PROVE  \E w \in HandType : Advances(h, w)
    <2> DEFINE w == [hand[h] EXCEPT !.step = s]
    <2>1. hand' = [hand EXCEPT ![h] = w] /\ job' = job
      BY <1>1, <1>3 DEF Step
    <2>2. w \in HandType /\ w.step = s /\ w.req = hand[h].req /\ w.zombie = hand[h].zombie
      BY <1>1, <1>2 DEF HandType
    <2> HIDE DEF w
    <2>3. Calls(h, w)
      BY <1>3, <2>2, SameHistory DEF Calls
    <2>4. Advances(h, w)
      BY <1>3, <2>1, <2>2, <2>3 DEF Advances
    <2> QED BY <2>2, <2>4
  <1>4. CASE preflightClears(h) \/ preflightRefuses(h)
    BY <1>3, <1>4 DEF preflightClears, preflightRefuses, stripeVars
  <1>5. CASE preflightFails(h)
    <2>1. /\ hand[h].step = "loaded" /\ JobEnds(h, Throws) /\ UNCHANGED <<stripe, stray>>
      BY <1>5 DEF preflightFails, stripeVars
    <2> QED BY <2>1, JobEndsIsEnd
  <1>6. CASE persistEffectBoundary(h)
    <2>1. CASE Executable(hand[h].req)
      <3> DEFINE n == Len(row[hand[h].req].attempts) + 1
                 w == [hand[h] EXCEPT !.step = "calling", !.attempt = n]
      <3>1. hand[h].req \in Requests
        BY <1>6 DEF persistEffectBoundary, HandlersBound
      <3>2. row[hand[h].req].attempts \in Seq(AttemptState)
        BY <3>1 DEF TypeOK, Row
      <3>3. n \in Nat
        BY <3>2
      <3> HIDE DEF n
      <3>4. hand' = [hand EXCEPT ![h] = w] /\ job' = job /\ hand[h].step = "cleared"
            /\ UNCHANGED <<stripe, stray>>
        BY <1>1, <1>6, <2>1 DEF persistEffectBoundary, n, stripeVars
      <3>5. w \in HandType /\ w.step = "calling" /\ w.req = hand[h].req
            /\ w.zombie = hand[h].zombie
        BY <1>1, <1>2, <3>3 DEF HandType
      <3> HIDE DEF w
      <3>6. Calls(h, w)
        BY <1>6, <2>1, <3>4, <3>5, SameHistory DEF Calls, Begun
      <3>7. Advances(h, w)
        BY <3>4, <3>5, <3>6 DEF Advances
      <3> QED BY <3>5, <3>7
    <2>2. CASE ~Executable(hand[h].req)
      <3>1. hand[h].step = "cleared" /\ JobEnds(h, Returns) /\ UNCHANGED <<stripe, stray>>
        BY <1>6, <2>2 DEF persistEffectBoundary, stripeVars
      <3> QED BY <3>1, JobEndsIsEnd
    <2> QED BY <2>1, <2>2
  <1>7. ASSUME NEW a \in Answer, Answered(h, a),
               \/ a = "refund" /\ stray' = stray /\ NoNewRefund({hand[h].req})
               \/ a \in {"retryable", "terminal"} /\ stray' = stray /\ NoNewRefund({})
               \/ a = "ambiguous" /\ stray' = stray \cup {hand[h].req} /\ NoNewRefund({})
        PROVE  \E w \in HandType : Advances(h, w)
    <2> DEFINE w == [hand[h] EXCEPT !.step = "answered", !.answer = a]
    <2>1. hand' = [hand EXCEPT ![h] = w] /\ job' = job /\ hand[h].step = "calling"
      BY <1>1, <1>7 DEF Answered
    <2>2. w \in HandType /\ w.step = "answered" /\ w.answer = a /\ w.req = hand[h].req
          /\ w.zombie = hand[h].zombie
      BY <1>1, <1>2 DEF HandType
    <2> HIDE DEF w
    <2>3. Calls(h, w)
      BY <1>7, <2>1, <2>2 DEF Calls
    <2>4. Advances(h, w)
      BY <2>1, <2>2, <2>3 DEF Advances
    <2> QED BY <2>2, <2>4
  <1>8. CASE createRefund(h)
    <2>1. hand[h].req \in Requests
      BY <1>8 DEF createRefund, Answered, HandlersBound
    <2>2. Answered(h, "refund") /\ stray' = stray /\ NoNewRefund({hand[h].req}) /\ "refund" \in Answer
      BY <1>8, <2>1, LandedHistory DEF createRefund, Answer
    <2> QED BY <1>7, <2>2
  <1>9. ASSUME NEW a \in {"retryable", "terminal"}, callRefused(h, a)
        PROVE  \E w \in HandType : Advances(h, w)
    <2>1. a \in Answer /\ Answered(h, a) /\ stray' = stray /\ NoNewRefund({})
      BY <1>9, SameHistory DEF callRefused, Answer
    <2> QED BY <1>7, <2>1
  <1>10. CASE callTimesOut(h)
    <2>1. /\ "ambiguous" \in Answer /\ Answered(h, "ambiguous")
          /\ stray' = stray \cup {hand[h].req} /\ NoNewRefund({})
      BY <1>10, SameHistory DEF callTimesOut, Answer
    <2> QED BY <1>7, <2>1
  <1>11. CASE Record(h)
    <2>1. /\ hand[h].step \in {"refused", "answered"}
          /\ JobEnds(h, Returns) \/ JobEnds(h, Throws)
          /\ UNCHANGED <<stripe, stray>>
      BY <1>11 DEF Record, Recorded, recordTerminalWithoutEffect, recordIdentifiedRefund,
         recordRetryableAttemptFailure, recordAmbiguousAttemptFailure,
         recordTerminalAttemptWithoutEffect, stripeVars
    <2> QED BY <2>1, JobEndsIsEnd
  <1> QED BY <1>4, <1>5, <1>6, <1>8, <1>9, <1>10, <1>11 DEF HandlerStep

(* Every step is of one of these kinds.                                      *)
LEMMA WorkerKinds ==
  ASSUME TypeOK, HandlersBound, Next
  PROVE  WorkerKind
  <1>0. /\ job \in [Requests -> {"none", "created", "active"}]
        /\ stripe \in [Requests -> Seq(RefundStatus)]
        /\ hand \in [Handlers -> HandType]
    BY DEF TypeOK, WorkerTypeOK, StripeTypeOK, HandType
  <1>1. ASSUME UNCHANGED <<job, hand, stray, stripe>> PROVE WorkerKind
    <2>1. Quiet
      BY <1>1, SameHistory DEF Quiet
    <2> QED BY <2>1 DEF WorkerKind
  <1>2. CASE PlatformStep \/ \E p \in Payments : ExternalRefund(p)
    BY <1>1, <1>2 DEF PlatformStep, createRequest, decideApprove, closeRequest, updateSettings,
       applyWebhookDeauthorization, provisionWebhookInstallation, ExternalRefund, workerVars,
       stripeVars
  <1>3. ASSUME NEW r \in Requests, RefundMoves(r) PROVE WorkerKind
    <2>1. PICK s \in RefundStatus : stripe' = [stripe EXCEPT ![r] = Append(@, s)]
      BY <1>3 DEF RefundMoves
    <2>2. \A q \in Requests : q # r => stripe'[q] = stripe[q]
      BY <1>0, <2>1
    <2>3. NoNewRefund({})
      BY <1>3, <2>2 DEF RefundMoves, HasRefund, NoNewRefund
    <2>4. Quiet
      BY <1>3, <2>3 DEF RefundMoves, Quiet, workerVars
    <2> QED BY <2>4 DEF WorkerKind
  <1>4. ASSUME NEW r \in Requests, StrayLands(r) \/ StrayIsLost(r) PROVE WorkerKind
    <2>1. NoNewRefund({r})
      BY <1>4, LandedHistory, SameHistory DEF StrayLands, StrayIsLost
    <2>2. Lands(r)
      BY <1>4, <2>1 DEF StrayLands, StrayIsLost, Lands, workerVars
    <2> QED BY <2>2 DEF WorkerKind
  <1>5. ASSUME NEW h \in Handlers, HandlerStep(h) PROVE WorkerKind
    BY <1>5, HandlerKind DEF WorkerKind
  <1>6. ASSUME NEW h \in Handlers, NEW r \in Requests, loadRefundExecution(h, r)
        PROVE  WorkerKind
    <2>1. hand[h] = Idle /\ job[r] = "created" /\ UNCHANGED <<stripe, stray>>
      BY <1>6 DEF loadRefundExecution, stripeVars
    <2>2. CASE Loadable(r)
      <3> DEFINE w == [Idle EXCEPT !.step = "loaded", !.req = r]
      <3>1. hand' = [hand EXCEPT ![h] = w] /\ job' = [job EXCEPT ![r] = "active"]
        BY <1>6, <2>2 DEF loadRefundExecution
      <3>2. w.step = "loaded" /\ w.req = r /\ w.zombie = FALSE /\ w \in HandType
            /\ Idle.step = "idle"
        BY DEF Idle, HandType, StepName, Answer
      <3> HIDE DEF w
      <3>3. Loads(h, r, w)
        BY <2>1, <3>1, <3>2, SameHistory DEF Loads
      <3> QED BY <3>2, <3>3 DEF WorkerKind
    <2>3. CASE ~Loadable(r)
      <3>1. hand' = hand /\ job' = [job EXCEPT ![r] = "none"]
        BY <1>6, <2>3 DEF loadRefundExecution
      <3>2. \A q \in Requests : job[q] = "active" => job'[q] = "active"
        BY <1>0, <2>1, <3>1
      <3>3. Quiet
        BY <2>1, <3>1, <3>2, SameHistory DEF Quiet
      <3> QED BY <3>3 DEF WorkerKind
    <2> QED BY <2>2, <2>3
  <1>7. ASSUME NEW h \in Handlers, Crash(h) PROVE WorkerKind
    <2>1. Ends(h)
      BY <1>7, JobEndsIsEnd DEF Crash
    <2> QED BY <2>1 DEF WorkerKind
  <1>8. ASSUME NEW h \in Handlers, Expire(h) PROVE WorkerKind
    <2> DEFINE w == [hand[h] EXCEPT !.zombie = TRUE]
    <2>1. /\ hand[h] \in HandType /\ hand' = [hand EXCEPT ![h] = w] /\ hand[h].step # "idle"
          /\ ~hand[h].zombie /\ UNCHANGED <<stripe, stray>>
          /\ \E x : job' = [job EXCEPT ![hand[h].req] = x]
      BY <1>0, <1>8 DEF Expire, stripeVars
    <2>2. /\ w.step = hand[h].step /\ w.answer = hand[h].answer /\ w.req = hand[h].req
          /\ w \in HandType /\ w.zombie = TRUE
      BY <2>1 DEF HandType
    <2>5. \A r \in Requests : r # hand[h].req => job'[r] = job[r]
      BY <1>0, <2>1
    <2> HIDE DEF w
    <2>3. Calls(h, w)
      BY <2>1, <2>2, SameHistory DEF Calls
    <2>4. Advances(h, w)
      BY <2>1, <2>2, <2>3, <2>5 DEF Advances
    <2> QED BY <2>2, <2>4 DEF WorkerKind
  <1>9. ASSUME NEW r \in Requests, recoverExecution(r) PROVE WorkerKind
    <2>1. /\ UNCHANGED <<hand, stripe, stray>>
          /\ \/ job' = job
             \/ job[r] = "none" /\ job' = [job EXCEPT ![r] = "created"]
      BY <1>9 DEF recoverExecution, stripeVars
    <2>2. \A q \in Requests : job[q] = "active" => job'[q] = "active"
      BY <1>0, <2>1
    <2>3. Quiet
      BY <2>1, <2>2, SameHistory DEF Quiet
    <2> QED BY <2>3 DEF WorkerKind
  <1>10. CASE ScanStep
    BY <1>1, <1>10 DEF ScanStep, scanBegins, scanObserves, scanObservesExternal, scanFails,
       commitReconciliationCheckpoint, stripeVars
  <1>11. ASSUME NEW r \in Requests,
                Age(r) \/ \E i \in 1..MaxMoves : webhookRefund(r, i) \/ observeLinkedRefund(r, i)
         PROVE  WorkerKind
    BY <1>1, <1>11 DEF Age, webhookRefund, observeLinkedRefund, workerVars, stripeVars
  <1>12. ASSUME NEW p \in Payments, webhookExternalRefund(p) PROVE WorkerKind
    BY <1>1, <1>12 DEF webhookExternalRefund, workerVars, stripeVars
  <1> QED BY <1>2, <1>3, <1>4, <1>5, <1>6, <1>7, <1>8, <1>9, <1>10, <1>11, <1>12
          DEF Next, StripeStep

-------------------------------------------------------------------------------
(* A handler whose job has not expired holds the job of its request, and is   *)
(* the only such handler of the request.                                     *)
Holds(h) == hand[h].step # "idle" /\ ~hand[h].zombie

OneHolder ==
  /\ \A h \in Handlers : Holds(h) => job[hand[h].req] = "active"
  /\ \A g, h \in Handlers : Holds(g) /\ Holds(h) /\ hand[g].req = hand[h].req => g = h

LEMMA IdleIsIdle == Idle.step = "idle"
  BY DEF Idle

LEMMA OneHolderKept ==
  ASSUME TypeOK, HandlersBound, OneHolder, WorkerKind
  PROVE  OneHolder'
  <1>0. /\ job \in [Requests -> {"none", "created", "active"}]
        /\ hand \in [Handlers -> HandType]
    BY DEF TypeOK, WorkerTypeOK, HandType
  <1>1. \A h \in Handlers : Holds(h) => job[hand[h].req] = "active" /\ hand[h].req \in Requests
    BY DEF OneHolder, HandlersBound, Holds
  <1>2. CASE Quiet
    BY <1>1, <1>2 DEF Quiet, OneHolder, Holds
  <1>3. ASSUME NEW h \in Handlers, Ends(h) PROVE OneHolder'
    <2>1. /\ hand'[h].step = "idle"
          /\ \A g \in Handlers : g # h => hand'[g] = hand[g]
          /\ hand[h].step # "idle"
          /\ \A r \in Requests : hand[h].zombie \/ r # hand[h].req => job'[r] = job[r]
      BY <1>0, <1>3, IdleIsIdle DEF Ends
    <2>2. ASSUME NEW g \in Handlers, Holds(g)' PROVE Holds(g) /\ job'[hand'[g].req] = "active"
      <3>1. g # h /\ hand'[g] = hand[g] /\ Holds(g)
        BY <2>1, <2>2 DEF Holds
      <3>2. hand[h].zombie \/ hand[g].req # hand[h].req
        BY <2>1, <3>1 DEF OneHolder, Holds
      <3> QED BY <1>1, <2>1, <3>1, <3>2
    <2> QED BY <2>1, <2>2 DEF OneHolder, Holds
  <1>4. ASSUME NEW h \in Handlers, NEW r \in Requests, NEW w \in HandType, Loads(h, r, w)
        PROVE  OneHolder'
    <2>1. /\ hand'[h].req = r /\ job'[r] = "active"
          /\ \A g \in Handlers : g # h => hand'[g] = hand[g]
          /\ \A q \in Requests : q # r => job'[q] = job[q]
          /\ job[r] = "created"
      BY <1>0, <1>4 DEF Loads
    <2>2. \A g \in Handlers : g # h /\ Holds(g)' => Holds(g) /\ hand'[g].req # r
      BY <1>1, <2>1 DEF Holds
    <2>3. \A g \in Handlers : Holds(g)' => job'[hand'[g].req] = "active"
      BY <1>1, <2>1, <2>2
    <2> QED BY <2>1, <2>2, <2>3 DEF OneHolder
  <1>5. ASSUME NEW h \in Handlers, NEW w \in HandType, Advances(h, w) PROVE OneHolder'
    <2>1. /\ hand'[h] = w /\ w.req = hand[h].req
          /\ \A g \in Handlers : g # h => hand'[g] = hand[g]
          /\ hand[h].step # "idle"
          /\ \/ w.zombie = hand[h].zombie /\ job' = job
             \/ /\ w.zombie /\ ~hand[h].zombie
                /\ \A r \in Requests : r # hand[h].req => job'[r] = job[r]
      BY <1>0, <1>5 DEF Advances
    <2>2. CASE w.zombie = hand[h].zombie /\ job' = job
      <3>1. \A g \in Handlers : Holds(g)' => Holds(g) /\ hand'[g].req = hand[g].req
        BY <2>1, <2>2 DEF Holds
      <3> QED BY <2>2, <3>1 DEF OneHolder
    <2>3. CASE w.zombie /\ ~hand[h].zombie
      <3>1. Holds(h) /\ ~Holds(h)'
        BY <2>1, <2>3 DEF Holds
      <3>2. ASSUME NEW g \in Handlers, Holds(g)'
            PROVE  Holds(g) /\ hand'[g].req = hand[g].req /\ job'[hand[g].req] = "active"
        <4>1. g # h /\ hand'[g] = hand[g] /\ Holds(g)
          BY <2>1, <3>1, <3>2 DEF Holds
        <4>2. hand[g].req # hand[h].req
          BY <3>1, <4>1 DEF OneHolder
        <4> QED BY <1>1, <2>1, <2>3, <4>1, <4>2
      <3> QED BY <3>2 DEF OneHolder
    <2> QED BY <2>1, <2>2, <2>3
  <1>6. ASSUME NEW r \in Requests, Lands(r) PROVE OneHolder'
    BY <1>6 DEF Lands, OneHolder, Holds
  <1> QED BY <1>2, <1>3, <1>4, <1>5, <1>6 DEF WorkerKind

(* Of two handlers that work on a request one at least goes on after its job *)
(* expired.                                                                  *)
MeetingsAreExpired ==
  \A g, h \in Handlers :
    /\ g # h /\ hand[g].step # "idle" /\ hand[h].step # "idle" /\ hand[g].req = hand[h].req
    => hand[g].zombie \/ hand[h].zombie

(* pg-boss never hands a request to two handlers whose jobs are alive: crash,*)
(* retry and recovery (refund.execution with its singleton key) make no      *)
(* second job beside an active one, so that handlers meet over an expired    *)
(* job only.                                                                 *)
THEOREM MeetingsExpired == Spec => []MeetingsAreExpired
  <1>1. Init => Inv /\ OneHolder
    <2> SUFFICES ASSUME Init PROVE OneHolder
      BY InitInv
    <2> QED BY IdleIsIdle DEF Init, OneHolder, Holds
  <1>2. Inv /\ OneHolder /\ [Next]_vars => (Inv /\ OneHolder)'
    <2> SUFFICES ASSUME Inv, OneHolder, [Next]_vars PROVE OneHolder'
      BY NextInv
    <2>1. CASE Next
      BY <2>1, WorkerKinds, OneHolderKept DEF Inv
    <2>2. CASE UNCHANGED vars
      BY <2>2 DEF vars, OneHolder, Holds
    <2> QED BY <2>1, <2>2
  <1>3. OneHolder => MeetingsAreExpired
    BY DEF OneHolder, Holds, MeetingsAreExpired
  <1> QED BY <1>1, <1>2, <1>3, PTL DEF Spec

-------------------------------------------------------------------------------
(* A possible effect stays possible until a refund is linked.  Only three    *)
(* transactions conclude that there was none: the records of the two certain *)
(* failures, and the commit of a scan.                                       *)
Doubt(v, w) == v.effect = "possible" => w.effect = "possible" \/ w.link \in Requests

DoubtKept == \A r \in Requests : Doubt(row[r], row'[r])

Concludes(h) ==
  /\ recordRetryableAttemptFailure(h) \/ recordTerminalAttemptWithoutEffect(h)
  /\ \A r \in Requests : r # hand[h].req => row'[r] = row[r]

LEMMA SameDoubt ==
  ASSUME UNCHANGED row
  PROVE  DoubtKept
  BY DEF DoubtKept, Doubt

LEMMA OneDoubt ==
  ASSUME TypeOK, NEW r \in Requests, NEW w, row' = [row EXCEPT ![r] = w], Doubt(row[r], w)
  PROVE  DoubtKept
  <1>1. row'[r] = w /\ \A q \in Requests : q # r => row'[q] = row[q]
    BY DEF TypeOK
  <1> QED BY <1>1 DEF DoubtKept, Doubt

LEMMA DoubtReconciliation ==
  ASSUME NEW v \in Row(Requests)
  PROVE  /\ markReconciliationRequired(v).effect = v.effect
         /\ Doubt(v, markReconciliationRequired(v)) /\ Doubt(v, toReconciliation(v))
  <1>1. v.effect \in EffectState /\ "reconciliation_required" \in WorkflowStatus
    BY DEF Row, WorkflowStatus
  <1>2. markReconciliationRequired(v).effect = v.effect
    BY <1>1, MoveFields DEF markReconciliationRequired
  <1> QED BY <1>2 DEF Doubt, toReconciliation

LEMMA DoubtSettle ==
  ASSUME NEW v \in Row(Requests)
  PROVE  Doubt(v, settle(v))
  <1>1. v.effect = "possible" => settle(v) = v \/ settle(v) = markReconciliationRequired(v)
    BY DEF settle, CanMarkTerminal
  <1> QED BY <1>1, DoubtReconciliation DEF Doubt

LEMMA DoubtIdentified ==
  ASSUME NEW r \in Requests, NEW v, NEW w, NEW st, NEW ev, Identifies(r, v, w, st, ev)
  PROVE  Doubt(v, w)
  BY DEF Identifies, Doubt

LEMMA DoubtDiverted ==
  ASSUME TypeOK, NEW r \in Requests, NEW c,
         row' = [row EXCEPT ![r] = IF c THEN markReconciliationRequired(@) ELSE @]
  PROVE  DoubtKept
  <1> DEFINE w == IF c THEN markReconciliationRequired(row[r]) ELSE row[r]
  <1>1. row[r] \in Row(Requests)
    BY DEF TypeOK
  <1>2. Doubt(row[r], w)
    BY <1>1, DoubtReconciliation DEF Doubt
  <1>3. row' = [row EXCEPT ![r] = w]
    OBVIOUS
  <1> HIDE DEF w
  <1> QED BY <1>2, <1>3, OneDoubt

LEMMA DoubtObserved ==
  ASSUME TypeOK, RowsCoherent, NEW r \in Requests, NEW st \in RefundStatus, NEW ev \in Nat, NEW exact,
         observeUnlinked(r, st, ev, exact) \/ observeLinked(r, st, ev)
  PROVE  DoubtKept
  <1> DEFINE v == row[r]
             w == markRefundIdentified(v, r, st, ev, "preserve")
  <1>1. v \in Row(Requests) /\ Coherent(v)
    BY DEF TypeOK, RowsCoherent
  <1>2. ASSUME CanIdentify(v, r, st, ev, "preserve") PROVE Doubt(v, w)
    <2>1. Identifies(r, v, w, st, ev)
      BY <1>1, <1>2, IdentifiedFields
    <2> QED BY <2>1, DoubtIdentified
  <1>3. CASE observeUnlinked(r, st, ev, exact)
    <2>1. \/ row' = [row EXCEPT ![r] = v]
          \/ row' = [row EXCEPT ![r] = toReconciliation(v)]
          \/ CanIdentify(v, r, st, ev, "preserve") /\ row' = [row EXCEPT ![r] = w]
      BY <1>3 DEF observeUnlinked
    <2>2. Doubt(v, v)
      BY DEF Doubt
    <2>3. Doubt(v, toReconciliation(v))
      BY <1>1, DoubtReconciliation
    <2> HIDE DEF w
    <2> QED BY <1>2, <2>1, <2>2, <2>3, OneDoubt
  <1>4. CASE observeLinked(r, st, ev)
    <2>1. UNCHANGED row \/ (CanIdentify(v, r, st, ev, "preserve") /\ row' = [row EXCEPT ![r] = w])
      BY <1>4 DEF observeLinked
    <2> HIDE DEF w
    <2> QED BY <1>2, <2>1, SameDoubt, OneDoubt
  <1> QED BY <1>3, <1>4

LEMMA DoubtRecorded ==
  ASSUME TypeOK, RowsCoherent, HandlersBound, NEW h \in Handlers, Record(h)
  PROVE  DoubtKept \/ Concludes(h)
  <1> DEFINE r == hand[h].req
             n == hand[h].attempt
             v == row[r]
  <1>1. r \in Requests
    BY DEF HandlersBound, Record, Recorded, recordTerminalWithoutEffect, recordIdentifiedRefund,
       recordRetryableAttemptFailure, recordAmbiguousAttemptFailure,
       recordTerminalAttemptWithoutEffect
  <1>2. v \in Row(Requests) /\ Coherent(v) /\ n \in Nat
    BY <1>1 DEF TypeOK, WorkerTypeOK, RowsCoherent
  <1>3. CASE UNCHANGED row
    BY <1>3, SameDoubt
  <1>4. CASE recordTerminalWithoutEffect(h) /\ ~UNCHANGED row
    <2>1. CanMarkTerminal(v) /\ row' = [row EXCEPT ![r] = markTerminalFailureAfterAbsence(v)]
      BY <1>4 DEF recordTerminalWithoutEffect
    <2>2. Doubt(v, markTerminalFailureAfterAbsence(v))
      BY <2>1 DEF CanMarkTerminal, Doubt
    <2> QED BY <1>1, <2>1, <2>2, OneDoubt
  <1>5. CASE recordIdentifiedRefund(h) /\ ~UNCHANGED row
    <2>1. PICK st \in RefundStatus :
            /\ CanIdentify(v, r, st, 0, "preserve") /\ CanFinishAttempt(v, n)
            /\ row' = [row EXCEPT ![r] = finishExecutionAttempt(
                         markRefundIdentified(v, r, st, 0, "preserve"), n, "completed")]
      BY <1>5 DEF recordIdentifiedRefund, Recorded
    <2> DEFINE w == markRefundIdentified(v, r, st, 0, "preserve")
    <2>2. w \in Row(Requests) /\ w.attempts = v.attempts /\ Identifies(r, v, w, st, 0)
      BY <1>1, <1>2, <2>1, IdentifiedFields
    <2> HIDE DEF w
    <2>3. Identifies(r, v, finishExecutionAttempt(w, n, "completed"), st, 0)
      BY <1>2, <2>1, <2>2, FinishIdentifies
    <2>4. Doubt(v, finishExecutionAttempt(w, n, "completed"))
      BY <1>1, <2>3, DoubtIdentified
    <2> QED BY <1>1, <2>1, <2>4, OneDoubt DEF w
  <1>6. CASE (recordRetryableAttemptFailure(h) \/ recordTerminalAttemptWithoutEffect(h))
             /\ ~UNCHANGED row
    <2>1. \E u : row' = [row EXCEPT ![r] = u]
      BY <1>6 DEF recordRetryableAttemptFailure, recordTerminalAttemptWithoutEffect, Recorded
    <2>2. \A q \in Requests : q # r => row'[q] = row[q]
      BY <2>1 DEF TypeOK
    <2> QED BY <1>6, <2>2 DEF Concludes
  <1>7. CASE recordAmbiguousAttemptFailure(h) /\ ~UNCHANGED row
    <2> DEFINE u == markReconciliationRequired(v)
               w == finishExecutionAttempt(u, n, "ambiguous_failure")
    <2>1. CanFinishAttempt(v, n) /\ CanMarkReconciliation(v) /\ row' = [row EXCEPT ![r] = w]
      BY <1>7 DEF recordAmbiguousAttemptFailure, Recorded
    <2>2. u \in Row(Requests) /\ u.effect = v.effect /\ u.attempts = v.attempts
      <3>1. v.effect \in EffectState /\ "reconciliation_required" \in WorkflowStatus
        BY <1>2 DEF Row, WorkflowStatus
      <3> QED BY <1>2, <3>1, MoveFields DEF markReconciliationRequired
    <2>3. w.effect = u.effect
      <3>1. "ambiguous_failure" \in AttemptState
        BY DEF AttemptState
      <3> HIDE DEF u
      <3> QED BY <1>2, <2>1, <2>2, <3>1, FinishFields
    <2>4. Doubt(v, w)
      BY <2>2, <2>3 DEF Doubt
    <2> HIDE DEF w
    <2> QED BY <1>1, <2>1, <2>4, OneDoubt
  <1> QED BY <1>3, <1>4, <1>5, <1>6, <1>7 DEF Record

LEMMA DoubtSteps ==
  ASSUME TypeOK, RowsCoherent, HandlersBound, RowFacts, Next
  PROVE  DoubtKept \/ commitReconciliationCheckpoint \/ \E h \in Handlers : Concludes(h)
  <1>0. \A r \in Requests : row[r] \in Row(Requests)
    BY DEF TypeOK
  <1>1. ASSUME NEW r \in Requests, createRequest(r) PROVE DoubtKept
    <2>1. row[r].effect = "not_started"
      BY <1>1 DEF createRequest, RowFacts, Linked, AbsentRow
    <2>2. Doubt(row[r], createRefundRequest) /\ row' = [row EXCEPT ![r] = createRefundRequest]
      BY <1>1, <2>1 DEF createRequest, Doubt
    <2> QED BY <2>2, OneDoubt
  <1>2. ASSUME NEW r \in Requests, decideApprove(r) PROVE DoubtKept
    <2>1. row[r].effect = "not_started"
      BY <1>2 DEF decideApprove, CanDecide, RowsCoherent, Coherent
    <2>2. Doubt(row[r], approve(row[r])) /\ row' = [row EXCEPT ![r] = approve(row[r])]
      BY <1>2, <2>1 DEF decideApprove, Doubt
    <2> QED BY <2>2, OneDoubt
  <1>3. ASSUME NEW r \in Requests, NEW s, closeRequest(r, s) PROVE DoubtKept
    <2>1. /\ Doubt(row[r], closePending(row[r], s))
          /\ row' = [row EXCEPT ![r] = closePending(row[r], s)]
      BY <1>3 DEF closeRequest, CanClose, Doubt
    <2> QED BY <2>1, OneDoubt
  <1>4. ASSUME \A r \in Requests : row'[r] \in {row[r], settle(row[r])} PROVE DoubtKept
    BY <1>0, <1>4, DoubtSettle DEF DoubtKept, Doubt
  <1>5. CASE PlatformStep
    BY <1>1, <1>2, <1>3, <1>4, <1>5, SameDoubt
       DEF PlatformStep, updateSettings, applyWebhookDeauthorization, provisionWebhookInstallation
  <1>6. CASE StripeStep \/ scanBegins \/ scanFails \/ \E r \in Requests : Age(r)
    BY <1>6, SameDoubt DEF StripeStep, RefundMoves, StrayLands, StrayIsLost, ExternalRefund,
       scanBegins, scanFails, Age
  <1>7. ASSUME NEW h \in Handlers, HandlerStep(h) PROVE DoubtKept \/ Concludes(h)
    <2>1. CASE \/ preflightClears(h) \/ preflightRefuses(h) \/ preflightFails(h)
               \/ createRefund(h) \/ callTimesOut(h)
               \/ \E a \in {"retryable", "terminal"} : callRefused(h, a)
      BY <2>1, SameDoubt DEF preflightClears, preflightRefuses, preflightFails, createRefund,
         callTimesOut, callRefused, Answered
    <2>2. CASE persistEffectBoundary(h)
      <3>1. hand[h].req \in Requests
        BY <2>2 DEF persistEffectBoundary, HandlersBound
      <3>2. CASE Executable(hand[h].req)
        <4>1. /\ Doubt(row[hand[h].req], crossBoundary(row[hand[h].req]))
              /\ row' = [row EXCEPT ![hand[h].req] = crossBoundary(row[hand[h].req])]
          BY <2>2, <3>2 DEF persistEffectBoundary, Executable, CanMarkEffectPossible, Doubt
        <4> QED BY <3>1, <4>1, OneDoubt
      <3>3. CASE ~Executable(hand[h].req)
        BY <2>2, <3>1, <3>3, DoubtDiverted DEF persistEffectBoundary
      <3> QED BY <3>2, <3>3
    <2> QED BY <1>7, <2>1, <2>2, DoubtRecorded DEF HandlerStep
  <1>8. ASSUME NEW h \in Handlers, NEW r \in Requests, loadRefundExecution(h, r)
        PROVE  DoubtKept
    <2>1. CASE Loadable(r) /\ CanClaim(row[r])
      <3>1. /\ Doubt(row[r], claimExecution(row[r]))
            /\ row' = [row EXCEPT ![r] = claimExecution(row[r])]
        BY <1>8, <2>1 DEF loadRefundExecution, CanClaim, Doubt
      <3> QED BY <3>1, OneDoubt
    <2>2. CASE Loadable(r) /\ ~CanClaim(row[r])
      BY <1>8, <2>2, SameDoubt DEF loadRefundExecution, TypeOK
    <2>3. CASE ~Loadable(r)
      BY <1>8, <2>3, DoubtDiverted DEF loadRefundExecution
    <2> QED BY <2>1, <2>2, <2>3
  <1>9. ASSUME NEW h \in Handlers, Crash(h) \/ Expire(h) PROVE DoubtKept
    BY <1>9, SameDoubt DEF Crash, Expire
  <1>10. ASSUME NEW r \in Requests, recoverExecution(r) PROVE DoubtKept
    BY <1>10, SameDoubt, DoubtDiverted DEF recoverExecution
  <1>11. ASSUME NEW p \in Payments, scanObservesExternal(p) \/ webhookExternalRefund(p)
         PROVE  DoubtKept
    <2>1. observeExternalRefund(p)
      BY <1>11 DEF scanObservesExternal, webhookExternalRefund
    <2> QED BY <1>4, <2>1 DEF observeExternalRefund
  <1>12. ASSUME NEW r \in Requests, scanObserves(r) PROVE DoubtKept
    <2>1. PICK i \in DOMAIN stripe[r] :
            observeUnlinked(r, stripe[r][i], 0, FALSE) \/ observeLinked(r, stripe[r][i], 0)
      BY <1>12 DEF scanObserves
    <2> QED BY <2>1, InHistory, DoubtObserved
  <1>13. ASSUME NEW r \in Requests, NEW i \in 1..MaxMoves, webhookRefund(r, i) PROVE DoubtKept
    <2>1. /\ i \in DOMAIN stripe[r]
          /\ observeUnlinked(r, stripe[r][i], i, i = 1) \/ observeLinked(r, stripe[r][i], i)
      BY <1>13 DEF webhookRefund
    <2> QED BY <2>1, InHistory, DoubtObserved
  <1>14. ASSUME NEW r \in Requests, NEW i \in 1..MaxMoves, observeLinkedRefund(r, i) PROVE DoubtKept
    <2>1. PICK res :
            /\ i \in DOMAIN stripe[r] /\ CanIdentify(row[r], r, stripe[r][i], 0, res)
            /\ row' = [row EXCEPT ![r] = markRefundIdentified(row[r], r, stripe[r][i], 0, res)]
      BY <1>14 DEF observeLinkedRefund
    <2>2. Identifies(r, row[r], markRefundIdentified(row[r], r, stripe[r][i], 0, res), stripe[r][i], 0)
      BY <1>0, <2>1, InHistory, IdentifiedFields DEF RowsCoherent
    <2> QED BY <2>1, <2>2, DoubtIdentified, OneDoubt
  <1> QED BY <1>5, <1>6, <1>7, <1>8, <1>9, <1>10, <1>11, <1>12, <1>13, <1>14 DEF Next, ScanStep

-------------------------------------------------------------------------------
(* What is certain.                                                          *)

(* A call that is awaited is not also a stray one, and a call that Stripe has*)
(* refused made no refund.                                                   *)
Awaited(v) ==
  /\ v.step = "calling" => v.req \notin stray
  /\ v.step = "answered" /\ v.answer \in {"retryable", "terminal"}
       => ~HasRefund(v.req) /\ v.req \notin stray

HandCertain(r) == \A h \in Handlers : hand[h].req = r => Awaited(hand[h])

LEMMA WorksAlone ==
  ASSUME NEW r \in Requests, ~RunTwice(r), NEW g \in Handlers, NEW h \in Handlers,
         hand[g].step # "idle", hand[h].step # "idle", hand[g].req = r, hand[h].req = r
  PROVE  g = h
  BY DEF RunTwice

(* A call under way has had no effect yet, and its request says that it may. *)
Flying(r) ==
  InFlight(r) => /\ ~HasRefund(r) /\ row[r].effect = "possible"
                 /\ row[r].status \in {"executing", "reconciliation_required"}

(* Where an effect is said to be absent there is none and none under way.    *)
Absent(r) ==
  row[r].effect \in {"not_started", "absence_proven"} /\ row[r].status # "failed_terminal"
    => ~HasRefund(r) /\ ~InFlight(r)

Failed(r) == row[r].status = "failed_terminal" => ~LiveRefund(r) /\ ~InFlight(r)

(* A refund that failed or was canceled stays so.                            *)
Final(s) == \A i \in 1..(Len(s) - 1) : s[i] \notin {"failed", "canceled"}

(* What a scan covers has no call under way, does not execute again before   *)
(* the scan is over, and has its refund, if there is one, on the scan's list *)
(* or among the candidates.                                                  *)
Covered(r) ==
  scan.on /\ r \in scan.covers =>
    /\ ~InFlight(r)
    /\ row[r].status \notin {"absent", "pending_approval", "approved", "executing"}
    /\ HasRefund(r) => r \in scan.listed \/ cand[r].scanned

Ended(r) == row[r].status = "stale" => row[r].effect = "absence_proven"

Certain(r) == Flying(r) /\ Absent(r) /\ Failed(r) /\ Final(stripe[r]) /\ Covered(r) /\ Ended(r)

LEMMA FlightSteps ==
  ASSUME TypeOK, HandlersBound, WorkerKind, NEW r \in Requests, ~RunTwice(r), HandCertain(r)
  PROVE  /\ InFlight(r)' => InFlight(r) \/ \E h \in Handlers : Begun(h) /\ hand[h].req = r
         /\ HasRefund(r)' /\ ~HasRefund(r) => InFlight(r) /\ ~InFlight(r)'
  <1>0. hand \in [Handlers -> HandType]
    BY DEF TypeOK, WorkerTypeOK, HandType
  <1> DEFINE A == InFlight(r)' => InFlight(r) \/ \E h \in Handlers : Begun(h) /\ hand[h].req = r
             B == HasRefund(r)' /\ ~HasRefund(r) => InFlight(r) /\ ~InFlight(r)'
  <1>1. ASSUME NoNewRefund({}) PROVE B
    BY <1>1 DEF NoNewRefund, HasRefund
  <1>2. CASE Quiet
    BY <1>1, <1>2 DEF Quiet, InFlight
  <1>3. ASSUME NEW h \in Handlers, Ends(h) PROVE A /\ B
    <2>1. hand'[h].step = "idle" /\ \A g \in Handlers : g # h => hand'[g] = hand[g]
      BY <1>0, <1>3, IdleIsIdle DEF Ends
    <2>2. A
      BY <1>3, <2>1 DEF Ends, InFlight
    <2> QED BY <1>1, <1>3, <2>2 DEF Ends
  <1>4. ASSUME NEW h \in Handlers, NEW q \in Requests, NEW w \in HandType, Loads(h, q, w)
        PROVE  A /\ B
    <2>1. hand'[h].step = "loaded" /\ \A g \in Handlers : g # h => hand'[g] = hand[g]
      BY <1>0, <1>4 DEF Loads
    <2>2. A
      BY <1>4, <2>1 DEF Loads, InFlight
    <2> QED BY <1>1, <1>4, <2>2 DEF Loads
  <1>5. ASSUME NEW h \in Handlers, NEW w \in HandType, Advances(h, w) PROVE A /\ B
    <2>1. /\ hand'[h] = w /\ w.req = hand[h].req /\ hand[h].step # "idle"
          /\ \A g \in Handlers : g # h => hand'[g] = hand[g]
          /\ Calls(h, w)
      BY <1>0, <1>5 DEF Advances
    <2>2. CASE NoNewRefund({}) /\ stray' = stray
               /\ (w.step = "calling" => hand[h].step = "calling" \/ Begun(h))
      <3>1. A
        BY <2>1, <2>2 DEF InFlight
      <3> QED BY <1>1, <2>2, <3>1
    <2>3. CASE hand[h].step = "calling" /\ w.step = "answered" /\ NoNewRefund({})
               /\ stray' = stray \cup {hand[h].req}
      <3>1. A
        BY <2>1, <2>3 DEF InFlight
      <3> QED BY <1>1, <2>3, <3>1
    <2>4. CASE hand[h].step = "calling" /\ w.step = "answered" /\ NoNewRefund({hand[h].req})
               /\ stray' = stray
      <3>1. A
        BY <2>1, <2>4 DEF InFlight
      <3>2. ASSUME HasRefund(r)', ~HasRefund(r) PROVE InFlight(r) /\ ~InFlight(r)'
        <4>1. r = hand[h].req
          BY <2>4, <3>2 DEF NoNewRefund, HasRefund
        <4>2. r \notin stray
          BY <2>4, <4>1 DEF HandCertain, Awaited
        <4>3. \A g \in Handlers : g # h => ~(hand[g].req = r /\ hand[g].step = "calling")
          BY <2>1, <4>1, WorksAlone
        <4> QED BY <2>1, <2>4, <4>1, <4>2, <4>3 DEF InFlight
      <3> QED BY <3>1, <3>2
    <2> QED BY <2>1, <2>2, <2>3, <2>4 DEF Calls
  <1>6. ASSUME NEW q \in Requests, Lands(q) PROVE A /\ B
    <2>1. A
      BY <1>6 DEF Lands, InFlight
    <2>2. ASSUME HasRefund(r)', ~HasRefund(r) PROVE InFlight(r) /\ ~InFlight(r)'
      <3>1. r = q /\ r \in stray /\ hand' = hand /\ stray' = stray \ {r}
        BY <1>6, <2>2 DEF Lands, NoNewRefund, HasRefund
      <3>2. \A g \in Handlers : ~(hand[g].req = r /\ hand[g].step = "calling")
        BY <3>1 DEF HandCertain, Awaited
      <3> QED BY <3>1, <3>2 DEF InFlight
    <2> QED BY <2>1, <2>2
  <1> QED BY <1>2, <1>3, <1>4, <1>5, <1>6 DEF WorkerKind

LEMMA HandCertainKept ==
  ASSUME TypeOK, HandlersBound, WorkerKind, NEW r \in Requests, ~RunTwice(r), HandCertain(r),
         Flying(r), Absent(r)
  PROVE  HandCertain(r)'
  <1>0. hand \in [Handlers -> HandType]
    BY DEF TypeOK, WorkerTypeOK, HandType
  <1>1. ASSUME NEW g \in Handlers, hand'[g] = hand[g], hand[g].req = r,
               r \in stray' => r \in stray, stripe'[r] # <<>> => HasRefund(r)
        PROVE  Awaited(hand[g])'
    BY <1>1 DEF HandCertain, Awaited, HasRefund
  <1>2. ASSUME NEW g \in Handlers, hand'[g].step \in {"idle", "loaded", "refused", "cleared"}
        PROVE  Awaited(hand[g])'
    BY <1>2 DEF Awaited
  <1>3. ASSUME NoNewRefund({}) PROVE stripe'[r] # <<>> => HasRefund(r)
    BY <1>3 DEF NoNewRefund, HasRefund
  <1>4. CASE Quiet
    BY <1>1, <1>3, <1>4 DEF Quiet, HandCertain
  <1>5. ASSUME NEW h \in Handlers, Ends(h) PROVE HandCertain(r)'
    <2>1. /\ hand'[h].step = "idle" /\ hand[h].step # "idle" /\ NoNewRefund({})
          /\ \A g \in Handlers : g # h => hand'[g] = hand[g]
      BY <1>0, <1>5, IdleIsIdle DEF Ends
    <2>2. ASSUME NEW g \in Handlers, g # h, hand[g].req = r, hand[g].step # "idle"
          PROVE  Awaited(hand[g])'
      <3>1. hand[h].req # r
        BY <2>1, <2>2, WorksAlone
      <3>2. r \in stray' => r \in stray
        BY <1>5, <3>1 DEF Ends
      <3> QED BY <1>1, <1>3, <2>1, <2>2, <3>2
    <2> QED BY <1>2, <2>1, <2>2 DEF HandCertain
  <1>6. ASSUME NEW h \in Handlers, NEW q \in Requests, NEW w \in HandType, Loads(h, q, w)
        PROVE  HandCertain(r)'
    <2>1. /\ hand'[h].step = "loaded" /\ stray' = stray /\ NoNewRefund({})
          /\ \A g \in Handlers : g # h => hand'[g] = hand[g]
      BY <1>0, <1>6 DEF Loads
    <2> QED BY <1>1, <1>2, <1>3, <2>1 DEF HandCertain
  <1>7. ASSUME NEW h \in Handlers, NEW w \in HandType, Advances(h, w) PROVE HandCertain(r)'
    <2> DEFINE q == hand[h].req
    <2>1. /\ hand'[h] = w /\ w.req = q /\ hand[h].step # "idle"
          /\ \A g \in Handlers : g # h => hand'[g] = hand[g]
          /\ Calls(h, w)
      BY <1>0, <1>7 DEF Advances
    <2>2. /\ \A x \in stray' : x # q => x \in stray
          /\ NoNewRefund({}) \/ NoNewRefund({q})
      BY <2>1 DEF Calls
    <2>3. ASSUME NEW g \in Handlers, g # h, hand[g].req = r, hand[g].step # "idle"
          PROVE  Awaited(hand[g])'
      <3>1. q # r
        BY <2>1, <2>3, WorksAlone
      <3>2. r \in stray' => r \in stray
        BY <2>2, <3>1
      <3>3. stripe'[r] # <<>> => HasRefund(r)
        BY <2>2, <3>1 DEF NoNewRefund, HasRefund
      <3> QED BY <1>1, <2>1, <2>3, <3>2, <3>3
    <2>4. ASSUME q = r PROVE Awaited(hand[h])'
      <3>1. CASE hand[h].step = "loaded" /\ w.step \in {"refused", "cleared"}
        BY <1>2, <2>1, <3>1
      <3>2. CASE w.step = "calling" /\ Begun(h) /\ stray' = stray
        <4>1. row[q].status = "executing" /\ row[q].effect \in {"not_started", "absence_proven"}
          BY <3>2 DEF Begun, Executable, CanMarkEffectPossible
        <4>2. ~InFlight(q)
          BY <2>4, <4>1 DEF Absent
        <4> QED BY <2>1, <3>2, <4>2 DEF Awaited, InFlight
      <3>3. CASE hand[h].step = "calling" /\ w.step = "answered"
                 /\ w.answer \in {"retryable", "terminal"} /\ stray' = stray /\ NoNewRefund({})
        <4>1. q \notin stray
          BY <2>4, <3>3 DEF HandCertain, Awaited
        <4>2. ~HasRefund(q)
          BY <2>4, <3>3 DEF Flying, InFlight
        <4>3. stripe'[q] = <<>>
          BY <1>3, <2>4, <3>3, <4>2
        <4> QED BY <2>1, <3>3, <4>1, <4>3 DEF Awaited, HasRefund
      <3>4. CASE w.step = "answered" /\ w.answer \notin {"retryable", "terminal"}
        BY <2>1, <3>4 DEF Awaited
      <3>5. CASE hand[h].step = w.step /\ hand[h].answer = w.answer
                 /\ stray' = stray /\ NoNewRefund({})
        <4>1. /\ w.step = "calling" => q \notin stray
              /\ w.step = "answered" /\ w.answer \in {"retryable", "terminal"}
                   => ~HasRefund(q) /\ q \notin stray
          BY <2>4, <3>5 DEF HandCertain, Awaited
        <4>2. ~HasRefund(q) => stripe'[q] = <<>>
          BY <1>3, <2>4, <3>5
        <4> QED BY <2>1, <3>5, <4>1, <4>2 DEF Awaited, HasRefund
      <3> QED BY <2>1, <3>1, <3>2, <3>3, <3>4, <3>5 DEF Calls
    <2> QED BY <1>2, <2>1, <2>3, <2>4 DEF HandCertain
  <1>8. ASSUME NEW q \in Requests, Lands(q) PROVE HandCertain(r)'
    <2>1. ASSUME NEW g \in Handlers, hand[g].req = r PROVE Awaited(hand[g])'
      <3>1. CASE r \notin stray
        <4>1. hand' = hand /\ r \notin stray'
          BY <1>8, <3>1 DEF Lands
        <4>2. ~HasRefund(r) => stripe'[r] = <<>>
          BY <1>8, <3>1 DEF Lands, NoNewRefund, HasRefund
        <4> QED BY <2>1, <4>1, <4>2 DEF HandCertain, Awaited, HasRefund
      <3>2. CASE r \in stray
        BY <1>8, <2>1, <3>2 DEF HandCertain, Awaited, Lands
      <3> QED BY <3>1, <3>2
    <2> QED BY <1>8, <2>1 DEF HandCertain, Lands
  <1> QED BY <1>4, <1>5, <1>6, <1>7, <1>8 DEF WorkerKind

-------------------------------------------------------------------------------
(* The three transactions that conclude an absence are right.                *)
Concluded(r) ==
  /\ row[r].effect = "possible" /\ row'[r].effect = "absence_proven"
  /\ row'[r].link = NoRefund

LEMMA RecordConcludes ==
  ASSUME TypeOK, HandlersBound, NEW h \in Handlers, Concludes(h),
         NEW r \in Requests, ~RunTwice(r), HandCertain(r), Concluded(r)
  PROVE  ~HasRefund(r) /\ ~InFlight(r) /\ row[r].status = "executing"
  <1>1. r = hand[h].req /\ row' # row
    BY DEF Concludes, Concluded
  <1>2. /\ hand[h].step = "answered" /\ hand[h].answer \in {"retryable", "terminal"}
        /\ row[r].status = "executing"
    BY <1>1 DEF Concludes, recordRetryableAttemptFailure, recordTerminalAttemptWithoutEffect,
       Recorded, CanMarkCertainAbsence
  <1>3. ~HasRefund(r) /\ r \notin stray
    BY <1>1, <1>2 DEF HandCertain, Awaited
  <1>4. \A g \in Handlers : ~(hand[g].req = r /\ hand[g].step = "calling")
    BY <1>1, <1>2, WorksAlone
  <1> QED BY <1>2, <1>3, <1>4 DEF InFlight

LEMMA CommitConcludes ==
  ASSUME TypeOK, RowsCoherent, Evidence, commitReconciliationCheckpoint,
         NEW r \in Requests, Covered(r), Concluded(r)
  PROVE  ~HasRefund(r) /\ ~InFlight(r) /\ scan'.on = FALSE
  <1>1. /\ scan.on /\ scan.listed = {} /\ scan' = NoScan /\ CandidatePasses(r)
        /\ row'[r] = resolveUniqueRefundCandidate(r)
    BY DEF commitReconciliationCheckpoint
  <1>2. scan'.on = FALSE
    BY <1>1 DEF NoScan
  <1>3. row[r] \in Row(Requests) /\ Coherent(row[r]) /\ NoRefund \notin Requests
    BY ConstantsAssumption DEF TypeOK, RowsCoherent
  <1>4. CASE ResumesAfterAbsence(r)
    <2>1. r \in scan.covers /\ ~cand[r].known
      BY <1>4 DEF ResumesAfterAbsence, Resolvable
    <2>2. ~cand[r].scanned
      BY <2>1 DEF Evidence, CandEvidence
    <2> QED BY <1>1, <1>2, <2>1, <2>2 DEF Covered
  <1>5. CASE ~ResumesAfterAbsence(r) /\ LinksUnique(r)
    <2> DEFINE w == markRefundIdentified(row[r], r, cand[r].status, cand[r].event, Resolution(r))
    <2>1. row'[r] = w /\ CanIdentify(row[r], r, cand[r].status, cand[r].event, Resolution(r))
      BY <1>1, <1>5 DEF resolveUniqueRefundCandidate, CandidatePasses
    <2>2. cand[r].status \in RefundStatus /\ cand[r].event \in Nat
      BY DEF TypeOK, DeskTypeOK
    <2>3. Identifies(r, row[r], w, cand[r].status, cand[r].event)
      BY <1>3, <2>1, <2>2, IdentifiedFields
    <2>4. Doubt(row[r], w)
      BY <2>3, DoubtIdentified
    <2> HIDE DEF w
    <2> QED BY <1>3, <2>1, <2>4 DEF Doubt, Concluded
  <1>6. CASE ~ResumesAfterAbsence(r) /\ ~LinksUnique(r)
    <2>1. row'[r] = toReconciliation(row[r]) \/ row'[r] = row[r]
      BY <1>1, <1>6 DEF resolveUniqueRefundCandidate
    <2>2. Doubt(row[r], toReconciliation(row[r]))
      BY <1>3, DoubtReconciliation
    <2> QED BY <1>3, <2>1, <2>2 DEF Doubt, Concluded
  <1> QED BY <1>4, <1>5, <1>6

LEMMA ConclusionsCertain ==
  ASSUME TypeOK, RowsCoherent, HandlersBound, Evidence, RowFacts, Next,
         NEW r \in Requests, ~RunTwice(r), HandCertain(r), Covered(r), Concluded(r)
  PROVE  /\ ~HasRefund(r) /\ ~InFlight(r)
         /\ row[r].status = "reconciliation_required" => scan'.on = FALSE
  <1>1. ~DoubtKept
    BY ConstantsAssumption DEF DoubtKept, Doubt, Concluded
  <1> QED BY <1>1, DoubtSteps, RecordConcludes, CommitConcludes

-------------------------------------------------------------------------------
(* What a step does to the scan and to the candidate of a request.           *)
ScanKept(r) ==
  \/ scan'.on = FALSE
  \/ /\ scan.on /\ scan'.covers = scan.covers
     /\ cand[r].scanned => cand'[r].scanned
     /\ r \in scan.listed => r \in scan'.listed \/ cand'[r].scanned

LEMMA SameScan ==
  ASSUME TypeOK, scan' = scan, NEW r \in Requests, cand[r].scanned => cand'[r].scanned
  PROVE  ScanKept(r)
  <1>1. scan.on \in BOOLEAN
    BY DEF TypeOK, WorkerTypeOK
  <1> QED BY <1>1 DEF ScanKept

LEMMA CandidateScanned ==
  ASSUME TypeOK, NEW q \in Requests, NEW st, NEW at, NEW ev, NEW exact, NEW b \in BOOLEAN,
         recordRefundCorrelationCandidate(q, st, at, ev, exact, b), NEW r \in Requests
  PROVE  /\ cand[r].scanned => cand'[r].scanned
         /\ r = q /\ b => cand'[r].scanned
  BY DEF TypeOK, DeskTypeOK, recordRefundCorrelationCandidate

LEMMA ScanSteps ==
  ASSUME TypeOK, Next, NEW r \in Requests
  PROVE  scanBegins \/ ScanKept(r)
  <1>1. ASSUME UNCHANGED <<scan, cand>> PROVE ScanKept(r)
    BY <1>1, SameScan
  <1>2. CASE PlatformStep \/ StripeStep
    BY <1>1, <1>2 DEF PlatformStep, createRequest, decideApprove, closeRequest, updateSettings,
       applyWebhookDeauthorization, provisionWebhookInstallation, StripeStep, RefundMoves,
       StrayLands, StrayIsLost, ExternalRefund, workerVars
  <1>3. ASSUME NEW h \in Handlers, HandlerStep(h) PROVE ScanKept(r)
    BY <1>1, <1>3 DEF HandlerStep, Record, Recorded, recordTerminalWithoutEffect,
       recordIdentifiedRefund, recordRetryableAttemptFailure, recordAmbiguousAttemptFailure,
       recordTerminalAttemptWithoutEffect, persistEffectBoundary, preflightClears,
       preflightRefuses, preflightFails, createRefund, callRefused, callTimesOut, Answered
  <1>4. ASSUME NEW h \in Handlers,
               Crash(h) \/ Expire(h) \/ \E q \in Requests : loadRefundExecution(h, q)
        PROVE  ScanKept(r)
    BY <1>1, <1>4 DEF Crash, Expire, loadRefundExecution
  <1>5. CASE scanFails \/ commitReconciliationCheckpoint
    BY <1>5 DEF scanFails, commitReconciliationCheckpoint, NoScan, ScanKept
  <1>6. ASSUME NEW p \in Payments, scanObservesExternal(p) PROVE ScanKept(r)
    <2>1. /\ scan.on /\ scan'.covers = scan.covers /\ scan'.listed = scan.listed
          /\ UNCHANGED cand
      BY <1>6 DEF scanObservesExternal, TypeOK, WorkerTypeOK
    <2> QED BY <2>1 DEF ScanKept
  <1>7. ASSUME NEW q \in Requests, scanObserves(q) PROVE ScanKept(r)
    <2>1. /\ scan.on /\ scan'.covers = scan.covers /\ scan'.listed = scan.listed \ {q}
      BY <1>7 DEF scanObserves, TypeOK, WorkerTypeOK
    <2>2. PICK st, at : recordRefundCorrelationCandidate(q, st, at, 0, FALSE, TRUE)
      BY <1>7 DEF scanObserves
    <2>3. /\ cand[r].scanned => cand'[r].scanned
          /\ r = q => cand'[r].scanned
      BY <2>2, CandidateScanned
    <2> QED BY <2>1, <2>3 DEF ScanKept
  <1>8. ASSUME NEW q \in Requests, NEW i \in 1..MaxMoves, webhookRefund(q, i) PROVE ScanKept(r)
    <2>1. /\ scan' = scan
          /\ recordRefundCorrelationCandidate(q, stripe[q][i], 2 * i, i, i = 1, FALSE)
      BY <1>8 DEF webhookRefund, workerVars
    <2>2. cand[r].scanned => cand'[r].scanned
      BY <2>1, CandidateScanned
    <2> QED BY <2>1, <2>2, SameScan
  <1>9. ASSUME NEW q \in Requests,
               Age(q) \/ recoverExecution(q) \/ \E i \in 1..MaxMoves : observeLinkedRefund(q, i)
        PROVE  ScanKept(r)
    BY <1>1, <1>9 DEF Age, recoverExecution, observeLinkedRefund, workerVars
  <1>10. ASSUME NEW p \in Payments, webhookExternalRefund(p) PROVE ScanKept(r)
    BY <1>1, <1>10 DEF webhookExternalRefund, workerVars
  <1> QED BY <1>2, <1>3, <1>4, <1>5, <1>6, <1>7, <1>8, <1>9, <1>10 DEF Next, ScanStep

-------------------------------------------------------------------------------
(* A dead refund stays dead.                                                 *)
LEMMA DeadStays ==
  ASSUME NEW s \in Seq(RefundStatus), NEW t, HistoryStep(s, t), s # <<>>,
         s[Len(s)] \in {"failed", "canceled"}
  PROVE  t = s
  BY DEF HistoryStep, StripeMoves

LEMMA FinalStep ==
  ASSUME NEW s \in Seq(RefundStatus), NEW t, HistoryStep(s, t), Final(s)
  PROVE  Final(t)
  <1>1. ASSUME NEW x \in RefundStatus, s # <<>>, <<s[Len(s)], x>> \in StripeMoves, t = Append(s, x)
        PROVE  Final(t)
    <2>1. s[Len(s)] \notin {"failed", "canceled"}
      BY <1>1 DEF StripeMoves
    <2>2. Len(t) = Len(s) + 1 /\ \A i \in 1..Len(s) : t[i] = s[i]
      BY <1>1
    <2>3. ASSUME NEW i \in 1..Len(s) PROVE s[i] \notin {"failed", "canceled"}
      BY <2>1 DEF Final
    <2> QED BY <2>2, <2>3 DEF Final
  <1>2. ASSUME NEW x \in InitialRefundStatus, t = <<x>> PROVE Final(t)
    <2>1. Len(t) = 1
      BY <1>2
    <2> QED BY <2>1 DEF Final
  <1> QED BY <1>1, <1>2 DEF HistoryStep

LEMMA FinalIsCurrent ==
  ASSUME TypeOK, NEW r \in Requests, Final(stripe[r]), NEW st \in Seen(r), st \in {"failed", "canceled"}
  PROVE  HasRefund(r) /\ Current(r) = st
  <1>1. stripe[r] \in Seq(RefundStatus)
    BY DEF TypeOK, StripeTypeOK
  <1>2. PICK i \in DOMAIN stripe[r] : stripe[r][i] = st
    BY DEF Seen
  <1>3. i = Len(stripe[r]) /\ stripe[r] # <<>>
    BY <1>1, <1>2 DEF Final
  <1> QED BY <1>2, <1>3 DEF Current, HasRefund

-------------------------------------------------------------------------------
(* A step of a row, by the status and the effect before and after.           *)
Unstarted == {"absent", "pending_approval", "approved", "executing"}
NoEffect == {"not_started", "absence_proven"}

Change(r, v, w) ==
  \/ w.status = v.status /\ w.effect = v.effect
  \/ /\ v.status \in Unstarted /\ v.effect \in NoEffect /\ w.effect \in NoEffect
     /\ w.status = "stale" => w.effect = "absence_proven"
  \/ /\ v.status = "executing" /\ w.status = "reconciliation_required" /\ w.effect = v.effect
  \/ /\ v.effect = "possible" /\ w.effect = "absence_proven" /\ w.link = NoRefund
     /\ v.status \in {"executing", "reconciliation_required"}
     /\ w.status \in {"executing", "failed_terminal"}
  \/ /\ v.status = "executing" /\ v.effect \in NoEffect
     /\ w.status = "executing" /\ w.effect = "possible"
  \/ /\ HasRefund(r) /\ w.effect = "identified" /\ w.status \in {v.status, "reconciliation_required", "succeeded"}
     /\ v.status \in {"executing", "reconciliation_required"}
  \/ /\ HasRefund(r) /\ \E st \in Seen(r) : st \in {"failed", "canceled"}
     /\ w.effect = "absence_proven" /\ w.status = "failed_terminal"

LEMMA Changes ==
  ASSUME NEW r \in Requests, NEW v \in Row(Requests), NEW w \in Row(Requests), RowStep(r, v, w),
         Coherent(v), Linked(r, v), Ledger(v)
  PROVE  Change(r, v, w)
  <1>1. CASE w = v
    BY <1>1 DEF Change
  <1>2. CASE v.status = "absent" /\ w = createRefundRequest
    <2>1. v.effect = "not_started"
      BY <1>2 DEF Linked, AbsentRow
    <2>2. w.effect = "not_started" /\ w.status = "pending_approval"
      BY <1>2 DEF createRefundRequest, AbsentRow
    <2> QED BY <1>2, <2>1, <2>2 DEF Change, Unstarted, NoEffect
  <1>3. CASE Moves(v, w)
    <2>1. PICK k \in {1, 2}, a \in AttemptState \cup {"none"} :
            MoveKind(v.status, v.effect, w.status, w.effect, k, a) /\ SameLink(v, w)
      BY <1>3 DEF Moves
    <2>2. v.status \in {"executing", "reconciliation_required"} /\ v.effect = "possible"
            => w.link = NoRefund
      BY <2>1 DEF Ledger, Attempted, SameLink
    <2>3. v.status = "pending_approval" => v.effect = "not_started"
      BY DEF Coherent
    <2> QED BY <2>1, <2>2, <2>3 DEF MoveKind, Change, Unstarted, NoEffect
  <1>4. CASE Begins(v, w)
    BY <1>4 DEF Begins, Change, NoEffect
  <1>5. CASE HasRefund(r) /\ \E st \in Seen(r) \cup {"none"}, ev \in Nat : Identifies(r, v, w, st, ev)
    <2>1. PICK st \in Seen(r) \cup {"none"}, ev \in Nat : Identifies(r, v, w, st, ev)
      BY <1>5
    <2>2. OutcomeKind(v, w, st) \/ (w.status = v.status /\ w.effect = v.effect)
      BY <2>1 DEF Identifies
    <2>3. st \in {"failed", "canceled"} => st \in Seen(r)
      OBVIOUS
    <2> QED BY <1>5, <2>2, <2>3 DEF OutcomeKind, Change
  <1> QED BY <1>1, <1>2, <1>3, <1>4, <1>5 DEF RowStep

(* The facts about a step that the preservation of Certain rests on.         *)
StepFacts(r) ==
  /\ Change(r, row[r], row'[r])
  /\ InFlight(r)' => \/ InFlight(r)
                     \/ /\ row[r].status = "executing" /\ row[r].effect \in NoEffect
                        /\ row'[r].status = "executing" /\ row'[r].effect = "possible"
  /\ HasRefund(r)' /\ ~HasRefund(r) => InFlight(r) /\ ~InFlight(r)'
  /\ HasRefund(r) => HasRefund(r)'
  /\ Concluded(r) => /\ ~HasRefund(r) /\ ~InFlight(r)
                     /\ row[r].status = "reconciliation_required" => scan'.on = FALSE

LEMMA FlyingKept ==
  ASSUME NEW r \in Requests, Certain(r), StepFacts(r)
  PROVE  Flying(r)'
  <1> SUFFICES ASSUME InFlight(r)'
               PROVE  /\ ~HasRefund(r)' /\ row'[r].effect = "possible"
                      /\ row'[r].status \in {"executing", "reconciliation_required"}
    BY DEF Flying
  <1>1. CASE InFlight(r)
    <2>1. /\ ~HasRefund(r) /\ row[r].effect = "possible"
          /\ row[r].status \in {"executing", "reconciliation_required"}
      BY <1>1 DEF Certain, Flying
    <2>2. ~HasRefund(r)' /\ ~Concluded(r)
      BY <1>1, <2>1 DEF StepFacts
    <2> QED BY <2>1, <2>2 DEF StepFacts, Change, Concluded, NoEffect
  <1>2. CASE ~InFlight(r)
    <2>1. /\ row[r].status = "executing" /\ row[r].effect \in NoEffect
          /\ row'[r].status = "executing" /\ row'[r].effect = "possible"
      BY <1>2 DEF StepFacts
    <2>2. ~HasRefund(r)
      BY <2>1 DEF Certain, Absent, NoEffect
    <2> QED BY <1>2, <2>1, <2>2 DEF StepFacts
  <1> QED BY <1>1, <1>2

LEMMA AbsentKept ==
  ASSUME NEW r \in Requests, Certain(r), StepFacts(r)
  PROVE  Absent(r)'
  <1> SUFFICES ASSUME row'[r].effect \in NoEffect, row'[r].status # "failed_terminal"
               PROVE  ~HasRefund(r)' /\ ~InFlight(r)'
    BY DEF Absent, NoEffect
  <1>1. ~InFlight(r)'
    BY FlyingKept DEF Flying, NoEffect
  <1>2. CASE row[r].effect \in NoEffect /\ row[r].status # "failed_terminal"
    <2>1. ~HasRefund(r) /\ ~InFlight(r)
      BY <1>2 DEF Certain, Absent, NoEffect
    <2> QED BY <1>1, <2>1 DEF StepFacts
  <1>3. CASE Concluded(r)
    BY <1>1, <1>3 DEF StepFacts
  <1>4. Concluded(r) \/ (row[r].effect \in NoEffect /\ row[r].status # "failed_terminal")
    BY DEF StepFacts, Change, Concluded, NoEffect, Unstarted
  <1> QED BY <1>2, <1>3, <1>4

LEMMA FailedKept ==
  ASSUME TypeOK, NEW r \in Requests, Certain(r), StepFacts(r), HistoryStep(stripe[r], stripe'[r])
  PROVE  Failed(r)'
  <1> SUFFICES ASSUME row'[r].status = "failed_terminal"
               PROVE  ~LiveRefund(r)' /\ ~InFlight(r)'
    BY DEF Failed
  <1>0. stripe[r] \in Seq(RefundStatus)
    BY DEF TypeOK, StripeTypeOK
  <1>1. ~InFlight(r)'
    BY FlyingKept DEF Flying
  <1>2. ASSUME ~HasRefund(r), ~InFlight(r) PROVE ~LiveRefund(r)'
    BY <1>2 DEF StepFacts, LiveRefund
  <1>3. ASSUME HasRefund(r), Current(r) \in {"failed", "canceled"} PROVE ~LiveRefund(r)'
    <2>1. stripe'[r] = stripe[r]
      BY <1>0, <1>3, DeadStays DEF HasRefund, Current
    <2> QED BY <1>3, <2>1 DEF LiveRefund, HasRefund, Current
  <1>4. CASE row[r].status = "failed_terminal"
    <2>1. ~LiveRefund(r) /\ ~InFlight(r)
      BY <1>4 DEF Certain, Failed
    <2> QED BY <1>1, <1>2, <1>3, <2>1 DEF LiveRefund
  <1>5. CASE row[r].effect \in NoEffect /\ row[r].status # "failed_terminal"
    BY <1>1, <1>2, <1>5 DEF Certain, Absent, NoEffect
  <1>6. CASE Concluded(r)
    BY <1>1, <1>2, <1>6 DEF StepFacts
  <1>7. CASE \E st \in Seen(r) : st \in {"failed", "canceled"}
    BY <1>1, <1>3, <1>7, FinalIsCurrent DEF Certain
  <1> QED BY <1>4, <1>5, <1>6, <1>7 DEF StepFacts, Change, Concluded, NoEffect, Unstarted

LEMMA CoveredKept ==
  ASSUME NEW r \in Requests, Certain(r), StepFacts(r), ScanKept(r)
  PROVE  Covered(r)'
  <1> SUFFICES ASSUME scan'.on, r \in scan'.covers
               PROVE  /\ ~InFlight(r)'
                      /\ row'[r].status \notin Unstarted
                      /\ HasRefund(r)' => r \in scan'.listed \/ cand'[r].scanned
    BY DEF Covered, Unstarted
  <1>1. /\ scan.on /\ r \in scan.covers
        /\ cand[r].scanned => cand'[r].scanned
        /\ r \in scan.listed => r \in scan'.listed \/ cand'[r].scanned
    BY DEF ScanKept
  <1>2. /\ ~InFlight(r) /\ row[r].status \notin Unstarted
        /\ HasRefund(r) => r \in scan.listed \/ cand[r].scanned
    BY <1>1 DEF Certain, Covered, Unstarted
  <1>3. ~InFlight(r)'
    BY <1>2 DEF StepFacts, Unstarted
  <1>4. HasRefund(r)' => HasRefund(r)
    BY <1>2 DEF StepFacts
  <1>5. ~(Concluded(r) /\ row[r].status = "reconciliation_required")
    BY DEF StepFacts
  <1>6. row'[r].status \notin Unstarted
    BY <1>2, <1>5 DEF StepFacts, Change, Concluded, Unstarted
  <1> QED BY <1>1, <1>2, <1>3, <1>4, <1>6

LEMMA EndedKept ==
  ASSUME NEW r \in Requests, Certain(r), StepFacts(r)
  PROVE  Ended(r)'
  BY DEF Certain, Ended, StepFacts, Change

(* A scan that begins covers only what was in reconciliation, and lists every*)
(* refund of what it covers.                                                 *)
LEMMA ScanBeginsCovers ==
  ASSUME scanBegins, NEW r \in Requests, ~Overtaken(r)'
  PROVE  Covered(r)'
  <1> DEFINE L(older) == {q \in Requests : HasRefund(q) /\ q \notin older}
             C == {q \in Requests \ aged : row[q].status = "reconciliation_required"}
  <1>0. PICK older \in SUBSET aged :
          scan' = [on |-> TRUE, began |-> [q \in Requests |-> Len(stripe[q])], listed |-> L(older),
                   externals |-> external, covers |-> C]
    BY DEF scanBegins
  <1>1. scan'.listed = L(older) /\ scan'.covers = C
    BY <1>0
  <1>2. UNCHANGED <<row, stripe>>
    BY DEF scanBegins, stripeVars
  <1>3. scan'.on /\ r \in scan'.covers => ~InFlight(r)'
    BY DEF Overtaken
  <1> QED BY <1>1, <1>2, <1>3 DEF Covered, HasRefund

-------------------------------------------------------------------------------
(* The inductive invariant.                                                  *)
CertainInv ==
  /\ RowInv
  /\ \A r \in Unraced : ~RunTwice(r) /\ HandCertain(r) /\ Certain(r)

LEMMA InitCertainInv == RaceInit => CertainInv
  <1> SUFFICES ASSUME RaceInit PROVE CertainInv
    OBVIOUS
  <1>0. Init
    BY DEF RaceInit
  <1>1. RowInv
    BY <1>0, InitRowInv
  <1>2. \A h \in Handlers : hand[h].step = "idle"
    BY <1>0, IdleIsIdle DEF Init
  <1>3. ASSUME NEW r \in Requests PROVE ~RunTwice(r) /\ HandCertain(r)
    BY <1>2 DEF RunTwice, HandCertain, Awaited
  <1>4. ASSUME NEW r \in Requests PROVE Certain(r)
    <2>1. ~HasRefund(r) /\ ~InFlight(r) /\ row[r].status = "absent"
      BY <1>0, <1>2 DEF Init, HasRefund, InFlight, AbsentRow
    <2>2. Len(stripe[r]) = 0
      BY <1>0 DEF Init
    <2>3. Final(stripe[r])
      BY <2>2 DEF Final
    <2>4. scan.on = FALSE
      BY <1>0 DEF Init, NoScan
    <2> QED BY <2>1, <2>3, <2>4 DEF Certain, Flying, Absent, Failed, Covered, Ended
  <1> QED BY <1>1, <1>3, <1>4 DEF CertainInv, Unraced

LEMMA BegunChanges ==
  ASSUME TypeOK, RowsCoherent, HandlersBound, NEW h \in Handlers, Begun(h)
  PROVE  LET r == hand[h].req
         IN  /\ row[r].status = "executing" /\ row[r].effect \in NoEffect
             /\ row'[r].status = "executing" /\ row'[r].effect = "possible"
  <1> DEFINE r == hand[h].req
             v == row[r]
             u == Move(v, "executing", "possible")
  <1>1. r \in Requests
    BY DEF Begun, persistEffectBoundary, HandlersBound
  <1>2. v \in Row(Requests) /\ row \in [Requests -> Row(Requests)]
    BY <1>1 DEF TypeOK
  <1>3. /\ v.status = "executing" /\ v.effect \in NoEffect
        /\ row' = [row EXCEPT ![r] = crossBoundary(v)]
    BY DEF Begun, persistEffectBoundary, Executable, CanMarkEffectPossible, NoEffect
  <1>4. u \in Row(Requests) /\ u.status = "executing" /\ u.effect = "possible"
    <2>1. "executing" \in WorkflowStatus /\ "possible" \in EffectState
      BY DEF WorkflowStatus, EffectState
    <2> QED BY <1>2, <2>1, MoveFields
  <1>5. crossBoundary(v) = [u EXCEPT !.exec = TRUE, !.attempts = Append(u.attempts, "started")]
    BY DEF crossBoundary
  <1> HIDE DEF u
  <1>6. crossBoundary(v).status = "executing" /\ crossBoundary(v).effect = "possible"
    BY <1>4, <1>5 DEF Row
  <1> QED BY <1>1, <1>2, <1>3, <1>6

(* A request that is unraced after a step was so before, and is in no race.  *)
LEMMA StillUnraced ==
  ASSUME RaceNext, NEW r \in Unraced'
  PROVE  r \in Unraced /\ ~RunTwice(r)' /\ ~Overtaken(r)'
  BY DEF RaceNext, Unraced, Races

LEMMA NextCertainInv ==
  ASSUME CertainInv, [RaceNext]_raceVars
  PROVE  CertainInv'
  <1>1. RowInv'
    <2>1. [Next]_vars
      BY DEF RaceNext, raceVars
    <2> QED BY <2>1, NextRowInv DEF CertainInv
  <1>2. TypeOK /\ TypeOK' /\ RowsCoherent /\ HandlersBound /\ Evidence /\ RowFacts
    BY <1>1 DEF CertainInv, RowInv, Inv
  <1>3. CASE RaceNext
    <2>1. Next
      BY <1>3 DEF RaceNext
    <2>2. WorkerKind
      BY <1>2, <2>1, WorkerKinds
    <2>4. RowsStep /\ HistoryGrows
      BY <1>2, <2>1, RowSteps, StripeGrows
    <2>5. ASSUME NEW r \in Unraced'
          PROVE  ~RunTwice(r)' /\ HandCertain(r)' /\ Certain(r)'
      <3>0. r \in Requests /\ r \in Unraced /\ ~RunTwice(r)' /\ ~Overtaken(r)'
        BY <1>3, StillUnraced DEF Unraced
      <3>1. /\ Certain(r) /\ HistoryStep(stripe[r], stripe'[r])
            /\ ~RunTwice(r) /\ HandCertain(r)
        BY <2>4, <3>0 DEF CertainInv, HistoryGrows
      <3>2. Change(r, row[r], row'[r])
        BY <1>2, <2>4, <3>0, Changes DEF RowsStep, TypeOK, RowsCoherent, RowFacts
      <3>3. InFlight(r)' => \/ InFlight(r)
                            \/ /\ row[r].status = "executing" /\ row[r].effect \in NoEffect
                               /\ row'[r].status = "executing" /\ row'[r].effect = "possible"
        BY <1>2, <2>2, <3>0, <3>1, FlightSteps, BegunChanges
      <3>4. HasRefund(r)' /\ ~HasRefund(r) => InFlight(r) /\ ~InFlight(r)'
        BY <1>2, <2>2, <3>0, <3>1, FlightSteps
      <3>5. HasRefund(r) => HasRefund(r)'
        BY <1>2, <3>0, <3>1, SeenGrows
      <3>6. Concluded(r) => /\ ~HasRefund(r) /\ ~InFlight(r)
                            /\ row[r].status = "reconciliation_required" => scan'.on = FALSE
        BY <1>2, <2>1, <3>0, <3>1, ConclusionsCertain DEF Certain
      <3>7. StepFacts(r)
        BY <3>2, <3>3, <3>4, <3>5, <3>6 DEF StepFacts
      <3>8. Flying(r)' /\ Absent(r)' /\ Failed(r)' /\ Ended(r)'
        BY <1>2, <3>0, <3>1, <3>7, FlyingKept, AbsentKept, FailedKept, EndedKept
      <3>9. Final(stripe'[r])
        BY <1>2, <3>0, <3>1, FinalStep DEF Certain, TypeOK, StripeTypeOK
      <3>10. Covered(r)'
        BY <1>2, <2>1, <3>0, <3>1, <3>7, ScanSteps, CoveredKept, ScanBeginsCovers
      <3>11. HandCertain(r)'
        BY <1>2, <2>2, <3>0, <3>1, HandCertainKept DEF Certain
      <3> QED BY <3>0, <3>8, <3>9, <3>10, <3>11 DEF Certain, Final
    <2> QED BY <1>1, <2>5 DEF CertainInv
  <1>4. CASE UNCHANGED raceVars
    <2>1. UNCHANGED <<row, cand, hand, scan, stripe, stray, raced>>
      BY <1>4 DEF raceVars, vars
    <2>2. ASSUME NEW r \in Unraced' PROVE r \in Requests /\ r \in Unraced
      BY <2>1, <2>2 DEF Unraced
    <2>3. ASSUME NEW r \in Unraced' PROVE ~RunTwice(r)' /\ HandCertain(r)'
      BY <2>1, <2>2 DEF CertainInv, RunTwice, HandCertain, Awaited, HasRefund
    <2>4. ASSUME NEW r \in Unraced' PROVE Certain(r)'
      BY <2>1, <2>2 DEF CertainInv, Certain, Flying, Absent, Failed, Final, Covered, Ended,
         InFlight, HasRefund, LiveRefund, Current
    <2> QED BY <1>1, <2>3, <2>4 DEF CertainInv
  <1> QED BY <1>3, <1>4

(* What the desk takes for certain about the calls and refunds of a request  *)
(* that was not raced is so in every reachable state.                        *)
THEOREM CertainInvariance == RaceSpec => []CertainInv
  <1>1. CertainInv /\ [RaceNext]_raceVars => CertainInv'
    BY NextCertainInv
  <1> QED BY <1>1, InitCertainInv, PTL DEF RaceSpec

(* As long as a call may still reach Stripe its request holds the guard of   *)
(* the payment and says that an effect is possible: no crash, recovery, scan *)
(* or settlement of persistEffectBoundary's request lets another one in, save*)
(* by one of the two races of that very request.                             *)
THEOREM CallHoldsGuard == RaceSpec => []CallHoldsGuardUnlessRaced
  <1>1. CertainInv => CallHoldsGuardUnlessRaced
    <2> SUFFICES ASSUME CertainInv, NEW r \in Unraced, InFlight(r)
                 PROVE  ~row[r].released /\ row[r].effect \in {"possible", "identified"}
      BY DEF CallHoldsGuardUnlessRaced, CallIsGuarded
    <2>0. r \in Requests
      BY DEF Unraced
    <2>1. row[r].effect = "possible" /\ row[r].status \in {"executing", "reconciliation_required"}
      BY DEF CertainInv, Certain, Flying
    <2>2. Coherent(row[r])
      BY <2>0 DEF CertainInv, RowInv, Inv, RowsCoherent
    <2> QED BY <2>1, <2>2 DEF Coherent, ProtectedStatus
  <1> QED BY <1>1, CertainInvariance, PTL

(* A request that the desk ended as stale or failed has no refund alive at   *)
(* Stripe, and no call that could still make one: releasing its guard was    *)
(* right, unless the request was raced.                                      *)
THEOREM AbsenceCertain == RaceSpec => []AbsenceCertainUnlessRaced
  <1>1. CertainInv => AbsenceCertainUnlessRaced
    BY DEF CertainInv, Certain, Absent, Failed, Ended, AbsenceCertainUnlessRaced, AbsenceHolds,
       LiveRefund
  <1> QED BY <1>1, CertainInvariance, PTL

LEMMA CandidateAlwaysPasses ==
  ASSUME CertainInv, scan.on, NEW r \in Unraced
  PROVE  CandidatePasses(r)
  <1> DEFINE v == row[r]
  <1>0. r \in Requests
    BY DEF Unraced
  <1>1. /\ v \in Row(Requests) /\ Coherent(v) /\ Linked(r, v) /\ Ledger(v) /\ Real(r, v)
        /\ CandEvidence(r, cand[r]) /\ Certain(r)
    BY <1>0 DEF CertainInv, RowInv, Inv, TypeOK, RowsCoherent, Evidence, RowFacts
  <1>2. ASSUME ResumesAfterAbsence(r) PROVE CanMarkAbsenceProven(v)
    <2>1. Resolvable(r) /\ ~cand[r].scanned
      BY <1>1, <1>2 DEF ResumesAfterAbsence, CandEvidence
    <2> QED BY <2>1 DEF Resolvable, CanMarkAbsenceProven
  <1>3. ASSUME LinksUnique(r)
        PROVE  CanIdentify(v, r, cand[r].status, cand[r].event, Resolution(r))
    <2>1. /\ r \in scan.covers /\ v.exec /\ v.link = NoRefund /\ cand[r].scanned
      BY <1>3 DEF LinksUnique, Resolvable
    <2>2. v.status \notin Unstarted
      BY <1>1, <2>1 DEF Certain, Covered, Unstarted
    <2>3. HasRefund(r)
      <3>1. cand[r].status \in Seen(r) /\ stripe[r] \in Seq(RefundStatus)
        BY <1>0, <1>1, <2>1 DEF CandEvidence, CertainInv, RowInv, Inv, TypeOK, StripeTypeOK
      <3> QED BY <3>1 DEF Seen, HasRefund
    <2>4. v.status # "succeeded"
      BY <1>0, <1>1, <2>1, ConstantsAssumption DEF Real
    <2>5. v.status = "reconciliation_required" => v.effect = "possible" /\ ~v.released
      <3>1. v.effect # "identified"
        BY <1>0, <1>1, <2>1, ConstantsAssumption DEF Linked
      <3>2. v.status = "reconciliation_required" => v.effect \notin NoEffect /\ ~v.released
        BY <1>1, <2>3 DEF Certain, Absent, NoEffect, Coherent
      <3> QED BY <1>1, <3>1, <3>2 DEF NoEffect, Row, EffectState
    <2> QED BY <2>1, <2>2, <2>4, <2>5 DEF CanIdentify, IdentifyBranch, Unstarted
  <1> QED BY <1>2, <1>3 DEF CandidatePasses

(* Whatever happened to a request since a scan began, every compare-and-set  *)
(* of resolveUniqueRefundCandidates finds it as it expects it: only a raced  *)
(* request can keep the checkpoint of the installation from moving on.       *)
THEOREM CheckpointPasses == RaceSpec => []CheckpointOpenUnlessRaced
  <1>1. CertainInv => CheckpointOpenUnlessRaced
    BY CandidateAlwaysPasses DEF CheckpointOpenUnlessRaced
  <1> QED BY <1>1, CertainInvariance, PTL

-------------------------------------------------------------------------------
(* Nobody is forgotten, raced or not.                                        *)

(* What a row says about the lane it is on: a link has its execution, an     *)
(* executing request is not linked to a dead refund, what was closed or went *)
(* stale had no effect, and nothing is reconciled that has not begun.        *)
Laned(r, v) ==
  /\ v.link = r => v.exec = TRUE
  /\ v.status = "executing" /\ v.link = r => v.refundStatus \notin {"failed", "canceled"}
  /\ v.status \in {"rejected", "canceled", "expired"} => v.effect = "not_started"
  /\ v.status = "stale" => v.exec = FALSE

Reconciled(v) == v.status = "reconciliation_required" => v.effect # "not_started"

(* A request with a call or a refund at Stripe says so.                      *)
Called(r) == HasRefund(r) \/ InFlight(r) => row[r].effect # "not_started"

(* Stripe decides once: only the first status of a refund can be open.       *)
Decided(s) == \A i \in 2..Len(s) : s[i] \in {"succeeded", "failed", "canceled"}

LaneInv ==
  \A r \in Requests : Laned(r, row[r]) /\ Reconciled(row[r]) /\ Called(r) /\ Decided(stripe[r])

LEMMA LanedStep ==
  ASSUME NEW r \in Requests, NEW v \in Row(Requests), NEW w \in Row(Requests), Coherent(v),
         Linked(r, v), Ledger(v), Laned(r, v), RowStep(r, v, w)
  PROVE  Laned(r, w)
  <1>1. r # NoRefund
    BY ConstantsAssumption
  <1>2. CASE w = v
    BY <1>2
  <1>3. CASE w = createRefundRequest
    BY <1>1, <1>3 DEF Laned, createRefundRequest, AbsentRow
  <1>4. CASE Moves(v, w)
    <2>1. PICK k \in {1, 2}, a \in AttemptState \cup {"none"} :
            MoveKind(v.status, v.effect, w.status, w.effect, k, a)
      BY <1>4 DEF Moves
    <2>2. SameLink(v, w)
      BY <1>4 DEF Moves
    <2>3. w.status = "executing" => w.link = NoRefund
      BY <2>1, <2>2 DEF MoveKind, SameLink, Ledger, Attempted
    <2>4. w.status \in {"rejected", "canceled", "expired"} => w.effect = "not_started"
      BY <2>1 DEF MoveKind
    <2>5. w.status = "stale" => w.exec = FALSE
      BY <2>1, <2>2 DEF MoveKind, SameLink, Ledger
    <2> QED BY <1>1, <2>2, <2>3, <2>4, <2>5 DEF Laned, SameLink
  <1>5. CASE Begins(v, w)
    BY <1>1, <1>5 DEF Begins, Laned
  <1>6. ASSUME NEW st, NEW ev, Identifies(r, v, w, st, ev) PROVE Laned(r, w)
    <2>1. w.exec = TRUE /\ v.status # "stale"
      BY <1>6 DEF Identifies, Laned
    <2>2. CASE shouldApplyRefundObservation(v, st, ev)
      <3>1. w.refundStatus = st /\ OutcomeKind(v, w, st)
        BY <1>6, <2>2 DEF Identifies
      <3>2. /\ w.status = "executing" => st \in {"pending", "requires_action"}
            /\ w.status \in {"rejected", "canceled", "expired"}
                 => v.status = w.status /\ w.effect = v.effect
            /\ w.status # "stale"
        BY <2>1, <3>1 DEF OutcomeKind
      <3> QED BY <2>1, <3>1, <3>2 DEF Laned
    <2>3. CASE ~shouldApplyRefundObservation(v, st, ev)
      <3>1. SameLink(v, w) /\ w.status = v.status /\ w.effect = v.effect
        BY <1>6, <2>3 DEF Identifies
      <3> QED BY <2>1, <3>1 DEF Laned, SameLink
    <2> QED BY <2>2, <2>3
  <1> QED BY <1>2, <1>3, <1>4, <1>5, <1>6 DEF RowStep

(* No step takes back that an effect was possible.                           *)
LEMMA BegunStays ==
  ASSUME NEW r \in Requests, NEW v \in Row(Requests), NEW w \in Row(Requests), Linked(r, v),
         Ledger(v), RowStep(r, v, w), v.effect # "not_started"
  PROVE  w.effect # "not_started"
  <1>1. v.status # "absent"
    BY DEF Linked, AbsentRow
  <1>2. CASE Moves(v, w)
    BY <1>2 DEF Moves, MoveKind
  <1>3. CASE Begins(v, w)
    BY <1>3 DEF Begins
  <1>4. ASSUME NEW st, NEW ev, Identifies(r, v, w, st, ev) PROVE w.effect # "not_started"
    BY <1>4 DEF Identifies, OutcomeKind
  <1> QED BY <1>1, <1>2, <1>3, <1>4 DEF RowStep

(* A refund or a call comes from a call, a call from its boundary.           *)
LEMMA CallSteps ==
  ASSUME TypeOK, WorkerKind, NEW r \in Requests, HasRefund(r)' \/ InFlight(r)'
  PROVE  HasRefund(r) \/ InFlight(r) \/ \E h \in Handlers : Begun(h) /\ hand[h].req = r
  <1>0. hand \in [Handlers -> HandType]
    BY DEF TypeOK, WorkerTypeOK, HandType
  <1> DEFINE P == HasRefund(r) \/ InFlight(r) \/ \E h \in Handlers : Begun(h) /\ hand[h].req = r
  <1>1. ASSUME NoNewRefund({}), HasRefund(r)' PROVE HasRefund(r)
    BY <1>1 DEF NoNewRefund, HasRefund
  <1>2. CASE Quiet
    BY <1>1, <1>2 DEF Quiet, InFlight
  <1>3. ASSUME NEW h \in Handlers, Ends(h) PROVE P
    <2>1. /\ hand'[h].step = "idle" /\ \A g \in Handlers : g # h => hand'[g] = hand[g]
          /\ NoNewRefund({})
      BY <1>0, <1>3, IdleIsIdle DEF Ends
    <2>2. InFlight(r)' => P
      BY <1>3, <2>1 DEF Ends, InFlight
    <2> QED BY <1>1, <2>1, <2>2
  <1>4. ASSUME NEW h \in Handlers, NEW q \in Requests, NEW w \in HandType, Loads(h, q, w)
        PROVE  P
    <2>1. /\ hand'[h].step = "loaded" /\ \A g \in Handlers : g # h => hand'[g] = hand[g]
          /\ NoNewRefund({})
      BY <1>0, <1>4 DEF Loads
    <2>2. InFlight(r)' => P
      BY <1>4, <2>1 DEF Loads, InFlight
    <2> QED BY <1>1, <2>1, <2>2
  <1>5. ASSUME NEW h \in Handlers, NEW w \in HandType, Advances(h, w) PROVE P
    <2>1. /\ hand'[h] = w /\ w.req = hand[h].req
          /\ \A g \in Handlers : g # h => hand'[g] = hand[g]
          /\ Calls(h, w)
      BY <1>0, <1>5 DEF Advances
    <2>2. /\ stray' = stray \/ (stray' = stray \cup {hand[h].req} /\ hand[h].step = "calling")
          /\ w.step = "calling" => hand[h].step = "calling" \/ Begun(h)
          /\ NoNewRefund({}) \/ (NoNewRefund({hand[h].req}) /\ hand[h].step = "calling")
      BY <2>1 DEF Calls
    <2>3. InFlight(r)' => P
      BY <2>1, <2>2 DEF InFlight
    <2>4. HasRefund(r)' => P
      <3>1. CASE NoNewRefund({})
        BY <1>1, <3>1
      <3>2. CASE NoNewRefund({hand[h].req}) /\ hand[h].step = "calling"
        BY <3>2 DEF NoNewRefund, HasRefund, InFlight
      <3> QED BY <2>2, <3>1, <3>2
    <2> QED BY <2>3, <2>4
  <1>6. ASSUME NEW q \in Requests, Lands(q) PROVE P
    <2>1. InFlight(r)' => P
      BY <1>6 DEF Lands, InFlight
    <2>2. HasRefund(r)' => P
      BY <1>6 DEF Lands, NoNewRefund, HasRefund, InFlight
    <2> QED BY <2>1, <2>2
  <1> QED BY <1>2, <1>3, <1>4, <1>5, <1>6 DEF WorkerKind

LEMMA CalledKept ==
  ASSUME TypeOK, TypeOK', RowsCoherent, HandlersBound, RowFacts, WorkerKind, RowsStep,
         NEW r \in Requests, Called(r)
  PROVE  Called(r)'
  <1> SUFFICES ASSUME HasRefund(r)' \/ InFlight(r)' PROVE row'[r].effect # "not_started"
    BY DEF Called
  <1>1. CASE HasRefund(r) \/ InFlight(r)
    <2>1. row[r].effect # "not_started"
      BY <1>1 DEF Called
    <2>2. /\ row[r] \in Row(Requests) /\ row'[r] \in Row(Requests)
          /\ Linked(r, row[r]) /\ Ledger(row[r]) /\ RowStep(r, row[r], row'[r])
      BY DEF TypeOK, RowFacts, RowsStep
    <2> QED BY <2>1, <2>2, BegunStays
  <1>2. ASSUME NEW h \in Handlers, Begun(h), hand[h].req = r PROVE row'[r].effect # "not_started"
    BY <1>2, BegunChanges
  <1> QED BY <1>1, <1>2, CallSteps

-------------------------------------------------------------------------------
(* Only what has begun is sent to reconciliation.                            *)
Sure(v, w) == v.effect = "not_started" => w.status # "reconciliation_required"

AllSure == \A r \in Requests : Sure(row[r], row'[r])

SureBefore == \A r \in Requests : Reconciled(row[r])

LEMMA SameSure ==
  ASSUME SureBefore, UNCHANGED row
  PROVE  AllSure
  BY DEF SureBefore, Reconciled, AllSure, Sure

LEMMA OneSure ==
  ASSUME TypeOK, SureBefore, NEW r \in Requests, NEW w, row' = [row EXCEPT ![r] = w],
         row[r].effect # "not_started" \/ Sure(row[r], w)
  PROVE  AllSure
  <1>1. row'[r] = w /\ \A q \in Requests : q # r => row'[q] = row[q]
    BY DEF TypeOK
  <1> QED BY <1>1 DEF SureBefore, Reconciled, AllSure, Sure

LEMMA SureSettle ==
  ASSUME NEW v \in Row(Requests), Reconciled(v)
  PROVE  Sure(v, settle(v))
  <1> SUFFICES ASSUME v.effect = "not_started" PROVE settle(v).status # "reconciliation_required"
    BY DEF Sure
  <1>1. \/ settle(v) = v
        \/ settle(v) = Terminate(v, "stale", "absence_proven")
        \/ settle(v) = Terminate(v, "failed_terminal", "absence_proven")
    BY DEF settle, markTerminalFailureAfterAbsence
  <1>2. /\ "stale" \in WorkflowStatus /\ "failed_terminal" \in WorkflowStatus
        /\ "absence_proven" \in EffectState
    BY DEF WorkflowStatus, EffectState
  <1>3. /\ Terminate(v, "stale", "absence_proven").status = "stale"
        /\ Terminate(v, "failed_terminal", "absence_proven").status = "failed_terminal"
    BY <1>2, TerminateFields
  <1> QED BY <1>1, <1>3 DEF Reconciled

LEMMA SureDiverted ==
  ASSUME TypeOK, SureBefore, NEW r \in Requests, NEW c, c => row[r].effect # "not_started",
         row' = [row EXCEPT ![r] = IF c THEN markReconciliationRequired(@) ELSE @]
  PROVE  AllSure
  <1> DEFINE w == IF c THEN markReconciliationRequired(row[r]) ELSE row[r]
  <1>1. row[r].effect # "not_started" \/ Sure(row[r], w)
    BY DEF Sure, SureBefore, Reconciled
  <1>2. row' = [row EXCEPT ![r] = w]
    OBVIOUS
  <1> HIDE DEF w
  <1> QED BY <1>1, <1>2, OneSure

LEMMA SureRecorded ==
  ASSUME TypeOK, SureBefore, HandlersBound, RowFacts, NEW h \in Handlers, Record(h)
  PROVE  AllSure
  <1> DEFINE r == hand[h].req
             n == hand[h].attempt
             v == row[r]
  <1>1. r \in Requests
    BY DEF HandlersBound, Record, Recorded, recordTerminalWithoutEffect, recordIdentifiedRefund,
       recordRetryableAttemptFailure, recordAmbiguousAttemptFailure,
       recordTerminalAttemptWithoutEffect
  <1>2. v \in Row(Requests) /\ Ledger(v)
    BY <1>1 DEF TypeOK, RowFacts
  <1>3. CanFinishAttempt(v, n) => v.effect # "not_started"
    BY <1>2 DEF CanFinishAttempt, Ledger
  <1>4. CASE UNCHANGED row
    BY <1>4, SameSure
  <1>5. CASE recordTerminalWithoutEffect(h) /\ ~UNCHANGED row
    <2>1. row' = [row EXCEPT ![r] = Terminate(v, "failed_terminal", "absence_proven")]
      BY <1>5 DEF recordTerminalWithoutEffect, markTerminalFailureAfterAbsence
    <2>2. "failed_terminal" \in WorkflowStatus /\ "absence_proven" \in EffectState
      BY DEF WorkflowStatus, EffectState
    <2>3. Sure(v, Terminate(v, "failed_terminal", "absence_proven"))
      BY <1>2, <2>2, TerminateFields DEF Sure
    <2> QED BY <1>1, <2>1, <2>3, OneSure
  <1>6. CASE Record(h) /\ ~recordTerminalWithoutEffect(h) /\ ~UNCHANGED row
    <2>1. PICK u : CanFinishAttempt(v, n) /\ row' = [row EXCEPT ![r] = u]
      BY <1>6 DEF Record, Recorded, recordIdentifiedRefund, recordRetryableAttemptFailure,
         recordAmbiguousAttemptFailure, recordTerminalAttemptWithoutEffect
    <2> QED BY <1>1, <1>3, <2>1, OneSure
  <1> QED BY <1>4, <1>5, <1>6

LEMMA SureBoundary ==
  ASSUME TypeOK, SureBefore, RowsCoherent, HandlersBound, NEW h \in Handlers, persistEffectBoundary(h)
  PROVE  AllSure
  <1>1. hand[h].req \in Requests
    BY DEF persistEffectBoundary, HandlersBound
  <1>2. CASE Executable(hand[h].req)
    <2>1. PICK u : row' = [row EXCEPT ![hand[h].req] = u]
      BY <1>2 DEF persistEffectBoundary
    <2>2. row'[hand[h].req].status = "executing" /\ row'[hand[h].req] = u
      BY <1>1, <1>2, <2>1, BegunChanges DEF Begun, TypeOK
    <2> QED BY <1>1, <2>1, <2>2, OneSure DEF Sure
  <1>3. CASE ~Executable(hand[h].req)
    BY <1>1, <1>3, SureDiverted DEF persistEffectBoundary
  <1> QED BY <1>2, <1>3

LEMMA SureLoad ==
  ASSUME TypeOK, SureBefore, NEW h \in Handlers, NEW r \in Requests, loadRefundExecution(h, r)
  PROVE  AllSure
  <1>1. CASE Loadable(r) /\ CanClaim(row[r])
    <2>1. row' = [row EXCEPT ![r] = Move(row[r], "executing", "not_started")]
      BY <1>1 DEF loadRefundExecution, claimExecution
    <2>2. "executing" \in WorkflowStatus /\ "not_started" \in EffectState /\ row[r] \in Row(Requests)
      BY DEF WorkflowStatus, EffectState, TypeOK
    <2>3. Sure(row[r], Move(row[r], "executing", "not_started"))
      BY <2>2, MoveFields DEF Sure
    <2> QED BY <2>1, <2>3, OneSure
  <1>2. CASE Loadable(r) /\ ~CanClaim(row[r])
    BY <1>2, SameSure DEF loadRefundExecution, TypeOK
  <1>3. CASE ~Loadable(r)
    BY <1>3, SureDiverted DEF loadRefundExecution
  <1> QED BY <1>1, <1>2, <1>3

LEMMA SureObserved ==
  ASSUME TypeOK, SureBefore, NEW r \in Requests, Called(r), HasRefund(r), NEW st, NEW ev, NEW exact,
         observeUnlinked(r, st, ev, exact) \/ observeLinked(r, st, ev)
  PROVE  AllSure
  <1>1. row[r].effect # "not_started"
    BY DEF Called
  <1>2. UNCHANGED row \/ \E w : row' = [row EXCEPT ![r] = w]
    BY DEF observeUnlinked, observeLinked
  <1> QED BY <1>1, <1>2, SameSure, OneSure

LEMMA SureSteps ==
  ASSUME TypeOK, RowsCoherent, HandlersBound, RowFacts, SureBefore,
         \A r \in Requests : Called(r), Next
  PROVE  AllSure
  <1>0. \A r \in Requests : row[r] \in Row(Requests) /\ Reconciled(row[r]) /\ Ledger(row[r])
    BY DEF TypeOK, SureBefore, RowFacts
  <1>1. ASSUME NEW r \in Requests, createRequest(r) PROVE AllSure
    <2>1. row' = [row EXCEPT ![r] = createRefundRequest]
      BY <1>1 DEF createRequest
    <2>2. Sure(row[r], createRefundRequest)
      BY DEF Sure, createRefundRequest, AbsentRow
    <2> QED BY <2>1, <2>2, OneSure
  <1>2. ASSUME NEW r \in Requests, decideApprove(r) PROVE AllSure
    <2>1. row' = [row EXCEPT ![r] = Move(row[r], "approved", row[r].effect)]
      BY <1>2 DEF decideApprove, approve
    <2>2. "approved" \in WorkflowStatus /\ row[r].effect \in EffectState
      BY <1>0 DEF WorkflowStatus, Row
    <2>3. Sure(row[r], Move(row[r], "approved", row[r].effect))
      BY <1>0, <2>2, MoveFields DEF Sure
    <2> QED BY <2>1, <2>3, OneSure
  <1>3. ASSUME NEW r \in Requests, NEW s \in {"rejected", "canceled", "expired"}, closeRequest(r, s)
        PROVE  AllSure
    <2>1. row' = [row EXCEPT ![r] = Terminate(row[r], s, "not_started")]
      BY <1>3 DEF closeRequest, closePending
    <2>2. s \in WorkflowStatus /\ "not_started" \in EffectState
      BY DEF WorkflowStatus, EffectState
    <2>3. Sure(row[r], Terminate(row[r], s, "not_started"))
      BY <1>0, <2>2, TerminateFields DEF Sure
    <2> QED BY <2>1, <2>3, OneSure
  <1>4. ASSUME \A r \in Requests : row'[r] \in {row[r], settle(row[r])} PROVE AllSure
    BY <1>0, <1>4, SureSettle DEF AllSure, Sure, Reconciled
  <1>5. CASE PlatformStep
    BY <1>1, <1>2, <1>3, <1>4, <1>5, SameSure
       DEF PlatformStep, updateSettings, applyWebhookDeauthorization, provisionWebhookInstallation
  <1>6. CASE StripeStep \/ scanBegins \/ scanFails \/ \E r \in Requests : Age(r)
    BY <1>6, SameSure DEF StripeStep, RefundMoves, StrayLands, StrayIsLost, ExternalRefund,
       scanBegins, scanFails, Age
  <1>7. ASSUME NEW h \in Handlers, HandlerStep(h) PROVE AllSure
    <2>1. CASE \/ preflightClears(h) \/ preflightRefuses(h) \/ preflightFails(h)
               \/ createRefund(h) \/ callTimesOut(h)
               \/ \E a \in {"retryable", "terminal"} : callRefused(h, a)
      BY <2>1, SameSure DEF preflightClears, preflightRefuses, preflightFails, createRefund,
         callTimesOut, callRefused, Answered
    <2> QED BY <1>7, <2>1, SureBoundary, SureRecorded DEF HandlerStep
  <1>8. ASSUME NEW h \in Handlers, Crash(h) \/ Expire(h) PROVE AllSure
    BY <1>8, SameSure DEF Crash, Expire
  <1>9. ASSUME NEW r \in Requests, recoverExecution(r) PROVE AllSure
    <2>1. row[r].effect = "possible" \/ CannotBeRecovered(row[r]) => row[r].effect # "not_started"
      BY <1>0 DEF CannotBeRecovered, Ledger
    <2>2. CASE row[r].effect = "possible" \/ CannotBeRecovered(row[r])
      BY <1>9, <2>1, <2>2, SureDiverted DEF recoverExecution
    <2>3. CASE ~(row[r].effect = "possible" \/ CannotBeRecovered(row[r]))
      BY <1>9, <2>3, SameSure DEF recoverExecution
    <2> QED BY <2>2, <2>3
  <1>10. ASSUME NEW p \in Payments, scanObservesExternal(p) \/ webhookExternalRefund(p)
         PROVE  AllSure
    <2>1. observeExternalRefund(p)
      BY <1>10 DEF scanObservesExternal, webhookExternalRefund
    <2> QED BY <1>4, <2>1 DEF observeExternalRefund
  <1>11. ASSUME NEW r \in Requests, NEW i \in DOMAIN stripe[r] PROVE HasRefund(r) /\ Called(r)
    BY <1>11 DEF HasRefund
  <1>12. ASSUME NEW r \in Requests, scanObserves(r) PROVE AllSure
    <2>1. PICK i \in DOMAIN stripe[r] :
            observeUnlinked(r, stripe[r][i], 0, FALSE) \/ observeLinked(r, stripe[r][i], 0)
      BY <1>12 DEF scanObserves
    <2> QED BY <1>11, <2>1, SureObserved
  <1>13. ASSUME NEW r \in Requests, NEW i \in 1..MaxMoves, webhookRefund(r, i) PROVE AllSure
    <2>1. /\ i \in DOMAIN stripe[r]
          /\ observeUnlinked(r, stripe[r][i], i, i = 1) \/ observeLinked(r, stripe[r][i], i)
      BY <1>13 DEF webhookRefund
    <2> QED BY <1>11, <2>1, SureObserved
  <1>14. ASSUME NEW r \in Requests, NEW i \in 1..MaxMoves, observeLinkedRefund(r, i) PROVE AllSure
    <2>1. i \in DOMAIN stripe[r] /\ \E w : row' = [row EXCEPT ![r] = w]
      BY <1>14 DEF observeLinkedRefund
    <2>2. row[r].effect # "not_started"
      BY <1>11, <2>1 DEF Called
    <2> QED BY <2>1, <2>2, OneSure
  <1>15. CASE commitReconciliationCheckpoint
    <2>1. ASSUME NEW r \in Requests, row[r].effect = "not_started" PROVE row'[r] = row[r]
      <3>1. ~Resolvable(r)
        BY <1>0, <2>1 DEF Resolvable, Ledger
      <3> QED BY <1>15, <3>1 DEF commitReconciliationCheckpoint, resolveUniqueRefundCandidate,
             ResumesAfterAbsence, LinksUnique
    <2> QED BY <1>0, <2>1 DEF AllSure, Sure, Reconciled
  <1> QED BY <1>5, <1>6, <1>7, <1>8, <1>9, <1>10, <1>12, <1>13, <1>14, <1>15, SureLoad
         DEF Next, ScanStep

-------------------------------------------------------------------------------
(* The lanes of every request are an inductive invariant beside RowInv.      *)
LEMMA DecidedStep ==
  ASSUME NEW s \in Seq(RefundStatus), NEW t, HistoryStep(s, t), Decided(s)
  PROVE  Decided(t)
  <1>1. ASSUME NEW x \in RefundStatus, s # <<>>, <<s[Len(s)], x>> \in StripeMoves, t = Append(s, x)
        PROVE  Decided(t)
    <2>1. x \in {"succeeded", "failed", "canceled"}
      BY <1>1 DEF StripeMoves
    <2>2. /\ Len(t) = Len(s) + 1 /\ t[Len(s) + 1] = x
          /\ \A i \in 1..Len(s) : t[i] = s[i]
      BY <1>1
    <2> QED BY <2>1, <2>2 DEF Decided
  <1>2. ASSUME NEW x \in InitialRefundStatus, t = <<x>> PROVE Decided(t)
    <2>1. Len(t) = 1
      BY <1>2
    <2> QED BY <2>1 DEF Decided
  <1> QED BY <1>1, <1>2 DEF HistoryStep

LEMMA InitLaneInv == Init => LaneInv
  <1> SUFFICES ASSUME Init, NEW r \in Requests
               PROVE  Laned(r, row[r]) /\ Reconciled(row[r]) /\ Called(r) /\ Decided(stripe[r])
    BY DEF LaneInv
  <1>1. row[r] = AbsentRow /\ r # NoRefund
    BY ConstantsAssumption DEF Init
  <1>2. Laned(r, AbsentRow) /\ Reconciled(AbsentRow)
    BY <1>1 DEF Laned, Reconciled, AbsentRow
  <1>3. \A h \in Handlers : hand[h].step = "idle"
    BY IdleIsIdle DEF Init
  <1>4. Called(r)
    BY <1>3 DEF Called, Init, HasRefund, InFlight
  <1>5. Len(stripe[r]) = 0
    BY DEF Init
  <1>6. Decided(stripe[r])
    BY <1>5 DEF Decided
  <1> QED BY <1>1, <1>2, <1>4, <1>6

LEMMA NextLaneInv == RowInv /\ LaneInv /\ [Next]_vars => LaneInv'
  <1> SUFFICES ASSUME RowInv, LaneInv, [Next]_vars PROVE LaneInv'
    OBVIOUS
  <1>1. RowInv'
    BY NextRowInv
  <1>2. TypeOK /\ TypeOK' /\ RowsCoherent /\ HandlersBound /\ Evidence /\ RowFacts
    BY <1>1 DEF RowInv, Inv
  <1>3. CASE Next
    <2>1. WorkerKind /\ RowsStep /\ HistoryGrows
      BY <1>2, <1>3, WorkerKinds, RowSteps, StripeGrows
    <2>2. AllSure
      BY <1>2, <1>3, SureSteps DEF LaneInv, SureBefore
    <2>3. ASSUME NEW r \in Requests
          PROVE  Laned(r, row'[r]) /\ Reconciled(row'[r]) /\ Called(r)' /\ Decided(stripe'[r])
      <3>1. /\ row[r] \in Row(Requests) /\ row'[r] \in Row(Requests) /\ Coherent(row[r])
            /\ Linked(r, row[r]) /\ Ledger(row[r]) /\ RowStep(r, row[r], row'[r])
            /\ Laned(r, row[r]) /\ Reconciled(row[r]) /\ Called(r) /\ Decided(stripe[r])
        BY <1>2, <2>1 DEF TypeOK, RowsCoherent, RowFacts, RowsStep, LaneInv
      <3>2. Laned(r, row'[r])
        BY <3>1, LanedStep
      <3>3. Reconciled(row'[r])
        BY <2>2, <3>1, BegunStays DEF AllSure, Sure, Reconciled
      <3>4. Called(r)'
        BY <1>2, <2>1, <3>1, CalledKept
      <3>5. Decided(stripe'[r])
        BY <1>2, <2>1, <3>1, DecidedStep DEF HistoryGrows, TypeOK, StripeTypeOK
      <3> QED BY <3>2, <3>3, <3>4, <3>5
    <2> QED BY <2>3 DEF LaneInv, Laned, Reconciled, Decided
  <1>4. CASE UNCHANGED vars
    BY <1>4 DEF vars, LaneInv, Laned, Reconciled, Called, Decided, HasRefund, InFlight
  <1> QED BY <1>3, <1>4

(* What each row says about the lane it is on, and that the desk never has a *)
(* call or a refund it does not know to be possible, hold in every reachable *)
(* state, whatever expires or comes late.                                    *)
THEOREM LaneInvariance == Spec => [](RowInv /\ LaneInv)
  <1>1. Init => RowInv /\ LaneInv
    BY InitRowInv, InitLaneInv
  <1>2. RowInv /\ LaneInv /\ [Next]_vars => (RowInv /\ LaneInv)'
    BY NextRowInv, NextLaneInv
  <1> QED BY <1>1, <1>2, PTL DEF Spec

(* The linked lane can work on whatever it reads of a linked refund.         *)
LEMMA LinkedLaneWorks ==
  ASSUME NEW r \in Requests, TypeOK, HasRefund(r), row[r].exec = TRUE, row[r].link = r,
         row[r].status \in {"executing", "reconciliation_required"},
         row[r].effect = "identified", ~row[r].released
  PROVE  LinkedRefundIsReadable(r)
  <1> SUFFICES ASSUME NEW i \in DOMAIN stripe[r]
               PROVE  CanIdentify(row[r], r, stripe[r][i], 0, LinkedResolution(stripe[r][i]))
    BY DEF LinkedRefundIsReadable
  <1> DEFINE st == stripe[r][i]
             res == LinkedResolution(st)
             v == row[r]
  <1>1. IdentifyBranch(v, st, res) # "correct"
    BY DEF IdentifyBranch
  <1> HIDE DEF st, res
  <1> QED BY <1>1 DEF CanIdentify, st, res

LEMMA SomeLane ==
  ASSUME RowInv, LaneInv, NEW r \in Requests,
         row[r].status \in {"approved", "executing", "reconciliation_required"}
  PROVE  \/ OnRecoveryLane(r) \/ OnScanLane(r)
         \/ OnLinkedLane(r) /\ LinkedRefundIsReadable(r)
         \/ Stranded(r) \/ PassedBy(r)
  <1> DEFINE v == row[r]
  <1>1. /\ v \in Row(Requests) /\ Coherent(v) /\ Linked(r, v) /\ Ledger(v) /\ Real(r, v)
        /\ Laned(r, v) /\ Reconciled(v) /\ TypeOK
    BY DEF RowInv, Inv, TypeOK, RowsCoherent, RowFacts, LaneInv
  <1>2. ~v.released /\ v.effect \in EffectState /\ v.refundStatus \in RefundStatus /\ r # NoRefund
    BY <1>1, ConstantsAssumption DEF Coherent, ProtectedStatus, Row
  <1>3. CASE v.effect = "identified"
    <2>1. v.link = r /\ HasRefund(r) /\ v.exec = TRUE
      BY <1>1, <1>3 DEF Linked, Real, Laned
    <2>2. v.status \in {"executing", "reconciliation_required"}
      BY <1>1, <1>3 DEF Coherent
    <2>3. LinkedRefundIsReadable(r)
      BY <1>1, <1>2, <1>3, <2>1, <2>2, LinkedLaneWorks
    <2>4. v.refundStatus \in {"failed", "canceled"} => v.status = "reconciliation_required"
      BY <1>1, <2>1, <2>2 DEF Laned
    <2> QED BY <1>2, <2>1, <2>2, <2>3, <2>4 DEF OnLinkedLane, Stranded, RefundStatus
  <1>4. CASE v.status = "reconciliation_required" /\ v.effect # "identified"
    <2>1. v.effect \in {"possible", "absence_proven"}
      BY <1>1, <1>2, <1>4 DEF Reconciled, EffectState
    <2>2. v.exec = TRUE /\ v.link = NoRefund
      BY <1>1, <1>4, <2>1 DEF Ledger, Attempted
    <2> QED BY <1>4, <2>1, <2>2 DEF OnScanLane, PassedBy, Stranded, CanMarkAbsenceProven
  <1>5. CASE v.status = "executing" /\ v.effect # "identified"
    <2>1. v.effect \in {"not_started", "possible", "absence_proven"}
      BY <1>2, <1>5 DEF EffectState
    <2>2. v.link = NoRefund /\ (v.effect # "not_started" => v.exec = TRUE)
      BY <1>1, <1>5, <2>1 DEF Ledger, Attempted
    <2> QED BY <1>2, <1>5, <2>1, <2>2 DEF OnRecoveryLane, Recoverable, CannotBeRecovered
  <1>6. CASE v.status = "approved"
    <2>1. v.effect = "not_started" /\ v.link = NoRefund
      BY <1>1, <1>6 DEF Coherent, Ledger
    <2> QED BY <1>2, <1>6, <2>1 DEF OnRecoveryLane, Recoverable, CannotBeRecovered
  <1> QED BY <1>3, <1>4, <1>5, <1>6

(* At every moment, whatever crashed, expired, was removed or came late, an  *)
(* approved request is selected by the minute recovery, the scan or the      *)
(* linked lane, in a state that lane can work on, or is one of the three kept*)
(* for a person: no sequence of the transactions leaves it between the       *)
(* queries of recoverExecution, resolveUniqueRefundCandidates and            *)
(* observeLinkedRefund.                                                      *)
THEOREM NobodyForgotten == Spec => []NoRequestForgotten
  <1>1. RowInv /\ LaneInv => NoRequestForgotten
    BY SomeLane DEF NoRequestForgotten
  <1> QED BY <1>1, LaneInvariance, PTL

-------------------------------------------------------------------------------
(* One refund at a time.                                                     *)
LEMMA UnderWayIsGuarded ==
  ASSUME CertainInv, LaneInv, NEW r \in Unraced, UnderWay(r)
  PROVE  ~row[r].released
  <1> DEFINE v == row[r]
  <1>0. r \in Requests
    BY DEF Unraced
  <1>1. /\ v \in Row(Requests) /\ Coherent(v) /\ Linked(r, v) /\ Real(r, v)
        /\ Laned(r, v) /\ Decided(stripe[r]) /\ Certain(r) /\ stripe[r] \in Seq(RefundStatus)
    BY <1>0 DEF CertainInv, RowInv, Inv, TypeOK, StripeTypeOK, RowsCoherent, RowFacts, LaneInv
  <1>2. CASE InFlight(r)
    BY <1>1, <1>2 DEF Certain, Flying, Coherent, ProtectedStatus
  <1>3. CASE HasRefund(r) /\ Current(r) \in {"pending", "requires_action"}
    <2>1. v.status # "failed_terminal"
      BY <1>1, <1>3 DEF Certain, Failed, LiveRefund
    <2>2. v.effect \notin NoEffect
      BY <1>1, <1>3, <2>1 DEF Certain, Absent, NoEffect
    <2>3. v.status \notin {"absent", "stale", "rejected", "canceled", "expired"}
      BY <1>1, <2>2 DEF Linked, AbsentRow, Certain, Ended, Laned, NoEffect
    <2>4. v.status # "succeeded"
      <3>1. Len(stripe[r]) = 1
        <4> DEFINE s == stripe[r]
        <4>1. s \in Seq(RefundStatus) /\ s # <<>> /\ s[Len(s)] \in {"pending", "requires_action"}
          BY <1>1, <1>3 DEF HasRefund, Current
        <4>2. \A i \in 2..Len(s) : s[i] \notin {"pending", "requires_action"}
          BY <1>1 DEF Decided
        <4> HIDE DEF s
        <4>3. PICK n \in Nat : n = Len(s) /\ n # 0
          BY <4>1
        <4>4. n \notin 2..n
          BY <4>1, <4>2, <4>3
        <4>5. n = 1
          BY <4>3, <4>4
        <4> QED BY <4>3, <4>5 DEF s
      <3>2. Seen(r) = {Current(r)}
        BY <1>1, <3>1 DEF Seen, Current
      <3> QED BY <1>1, <1>3, <3>2 DEF Real
    <2>5. v.status \in ProtectedStatus \cup {"reconciliation_required"}
      BY <1>1, <2>1, <2>3, <2>4 DEF Row, WorkflowStatus, ProtectedStatus
    <2> QED BY <1>1, <2>5 DEF Coherent
  <1> QED BY <1>2, <1>3 DEF UnderWay

(* A payment never has two refunds of the desk under way, save when one of   *)
(* them was raced: createRequest finds the guard of the first one held until *)
(* Stripe has decided on its refund and the desk has heard of it, or until   *)
(* the absence of one is certain.                                            *)
THEOREM OneUnderWay == RaceSpec => []OneUnderWayUnlessRaced
  <1>1. CertainInv /\ LaneInv => OneUnderWayUnlessRaced
    <2> SUFFICES ASSUME CertainInv, LaneInv, NEW q \in Unraced, NEW r \in Unraced,
                        PaymentOf[q] = PaymentOf[r], UnderWay(q), UnderWay(r)
                 PROVE  q = r
      BY DEF OneUnderWayUnlessRaced
    <2>1. ~row[q].released /\ ~row[r].released
      BY UnderWayIsGuarded
    <2>2. OneGuardPerPayment
      BY DEF CertainInv, RowInv, Inv
    <2> QED BY <2>1, <2>2 DEF OneGuardPerPayment, Unraced
  <1>2. RaceSpec => Spec
    <2>1. RaceInit => Init
      BY DEF RaceInit
    <2>2. [RaceNext]_raceVars => [Next]_vars
      BY DEF RaceNext, raceVars
    <2> QED BY <2>1, <2>2, PTL DEF RaceSpec, Spec
  <1> QED BY <1>1, <1>2, CertainInvariance, LaneInvariance, PTL

-------------------------------------------------------------------------------
(* No refund without an approval and an attempt written down before it.      *)

(* What persistEffectBoundary commits before the call.                       *)
Durable(v) == v.exec = TRUE /\ v.attempts # <<>>

Accounted(r) == HasRefund(r) \/ InFlight(r) => Durable(row[r])

(* A call that may reach Stripe, or a refund it made, belongs to a request   *)
(* that was approved, with its execution and an attempt in the database.     *)
NoRefundUnapproved ==
  \A r \in Requests :
    HasRefund(r) \/ InFlight(r) =>
      /\ row[r].exec /\ row[r].attempts # <<>>
      /\ row[r].status \in {"executing", "reconciliation_required", "succeeded", "failed_terminal"}

LEMMA AttemptsStay ==
  ASSUME NEW v \in Row(Requests), NEW w \in Row(Requests), NEW a \in AttemptState \cup {"none"},
         Finishes(v, w, a), v.attempts # <<>>
  PROVE  w.attempts # <<>>
  <1>1. CASE a = "none"
    BY <1>1 DEF Finishes
  <1>2. CASE a # "none"
    <2>1. PICK n \in Nat : CanFinishAttempt(v, n) /\ w.attempts = [v.attempts EXCEPT ![n] = a]
      BY <1>2 DEF Finishes
    <2>2. n \in DOMAIN v.attempts /\ DOMAIN w.attempts = DOMAIN v.attempts
      BY <2>1 DEF CanFinishAttempt
    <2>3. w.attempts \in Seq(AttemptState) /\ n \in DOMAIN w.attempts
      BY <2>2 DEF Row
    <2> QED BY <2>3
  <1> QED BY <1>1, <1>2

LEMMA RecordStays ==
  ASSUME NEW r \in Requests, NEW v \in Row(Requests), NEW w \in Row(Requests), Linked(r, v),
         RowStep(r, v, w), Durable(v)
  PROVE  Durable(w)
  <1>1. v.status # "absent"
    BY DEF Linked, AbsentRow, Durable
  <1>2. CASE Moves(v, w)
    <2>1. PICK a \in AttemptState \cup {"none"} : Finishes(v, w, a)
      BY <1>2 DEF Moves
    <2>2. w.exec = v.exec
      BY <1>2 DEF Moves, SameLink
    <2> QED BY <2>1, <2>2, AttemptsStay DEF Durable
  <1>3. CASE Begins(v, w)
    <2>1. w.exec = TRUE /\ w.attempts = Append(v.attempts, "started")
      BY <1>3 DEF Begins
    <2>2. v.attempts \in Seq(AttemptState)
      BY DEF Row
    <2>3. Append(v.attempts, "started") # <<>>
      BY <2>2
    <2> QED BY <2>1, <2>3 DEF Durable
  <1>4. ASSUME NEW st, NEW ev, Identifies(r, v, w, st, ev) PROVE Durable(w)
    <2>1. PICK a \in AttemptState \cup {"none"} : Finishes(v, w, a)
      BY <1>4 DEF Identifies, AttemptState
    <2>2. w.exec = TRUE
      BY <1>4 DEF Identifies
    <2> QED BY <2>1, <2>2, AttemptsStay DEF Durable
  <1> QED BY <1>1, <1>2, <1>3, <1>4 DEF RowStep

LEMMA BegunIsRecorded ==
  ASSUME TypeOK, HandlersBound, NEW h \in Handlers, Begun(h)
  PROVE  Durable(row'[hand[h].req])
  <1> DEFINE r == hand[h].req
             v == row[r]
             u == Move(v, "executing", "possible")
             w == [u EXCEPT !.exec = TRUE, !.attempts = Append(u.attempts, "started")]
  <1>1. r \in Requests
    BY DEF Begun, persistEffectBoundary, HandlersBound
  <1>2. v \in Row(Requests) /\ row \in [Requests -> Row(Requests)]
    BY <1>1 DEF TypeOK
  <1>3. row' = [row EXCEPT ![r] = w]
    BY DEF Begun, persistEffectBoundary, crossBoundary
  <1>4. u \in Row(Requests)
    <2>1. "executing" \in WorkflowStatus /\ "possible" \in EffectState
      BY DEF WorkflowStatus, EffectState
    <2> QED BY <1>2, <2>1, MoveFields
  <1> HIDE DEF u
  <1>5. w.exec = TRUE /\ w.attempts = Append(u.attempts, "started")
    BY <1>4 DEF Row
  <1>6. u.attempts \in Seq(AttemptState)
    BY <1>4 DEF Row
  <1>7. Append(u.attempts, "started") # <<>>
    BY <1>6
  <1>8. row'[r] = w
    BY <1>1, <1>2, <1>3
  <1> QED BY <1>5, <1>7, <1>8 DEF Durable

LEMMA InitAccounted == Init => \A r \in Requests : Accounted(r)
  <1> SUFFICES ASSUME Init, NEW r \in Requests PROVE Accounted(r)
    OBVIOUS
  <1>1. \A h \in Handlers : hand[h].step = "idle"
    BY IdleIsIdle DEF Init
  <1> QED BY <1>1 DEF Accounted, Init, HasRefund, InFlight

LEMMA NextAccounted ==
  RowInv /\ (\A r \in Requests : Accounted(r)) /\ [Next]_vars => (\A r \in Requests : Accounted(r))'
  <1> SUFFICES ASSUME RowInv, \A r \in Requests : Accounted(r), [Next]_vars, NEW r \in Requests
               PROVE  Accounted(r)'
    OBVIOUS
  <1>1. RowInv'
    BY NextRowInv
  <1>2. TypeOK /\ TypeOK' /\ RowsCoherent /\ HandlersBound /\ Evidence /\ RowFacts
    BY <1>1 DEF RowInv, Inv
  <1>3. CASE Next
    <2> SUFFICES ASSUME HasRefund(r)' \/ InFlight(r)' PROVE Durable(row'[r])
      BY DEF Accounted, Durable
    <2>1. WorkerKind /\ RowsStep
      BY <1>2, <1>3, WorkerKinds, RowSteps
    <2>2. CASE HasRefund(r) \/ InFlight(r)
      <3>1. Durable(row[r])
        BY <2>2 DEF Accounted
      <3>2. /\ row[r] \in Row(Requests) /\ row'[r] \in Row(Requests)
            /\ Linked(r, row[r]) /\ RowStep(r, row[r], row'[r])
        BY <1>2, <2>1 DEF TypeOK, RowFacts, RowsStep
      <3> QED BY <3>1, <3>2, RecordStays
    <2>3. ASSUME NEW h \in Handlers, Begun(h), hand[h].req = r PROVE Durable(row'[r])
      BY <1>2, <2>3, BegunIsRecorded
    <2> QED BY <1>2, <2>1, <2>2, <2>3, CallSteps
  <1>4. CASE UNCHANGED vars
    BY <1>4 DEF vars, Accounted, Durable, HasRefund, InFlight
  <1> QED BY <1>3, <1>4

(* Money moves only for a request that was approved and whose attempt the    *)
(* database has: whenever a call may reach Stripe or has made a refund, the  *)
(* execution row and the attempt that persistEffectBoundary wrote are there, *)
(* and the request is executing, in reconciliation, succeeded or failed,     *)
(* never waiting, rejected, canceled, expired or stale.  This holds whatever *)
(* expires or comes late.                                                    *)
THEOREM RefundIsApproved == Spec => []NoRefundUnapproved
  <1> DEFINE A == \A r \in Requests : Accounted(r)
  <1>1. RowInv /\ LaneInv /\ A => NoRefundUnapproved
    <2> SUFFICES ASSUME RowInv, LaneInv, A, NEW r \in Requests, HasRefund(r) \/ InFlight(r)
                 PROVE  /\ row[r].exec /\ row[r].attempts # <<>>
                        /\ row[r].status \in {"executing", "reconciliation_required", "succeeded",
                                              "failed_terminal"}
      BY DEF NoRefundUnapproved
    <2>1. /\ row[r] \in Row(Requests) /\ Coherent(row[r]) /\ Linked(r, row[r]) /\ Ledger(row[r])
          /\ Laned(r, row[r])
      BY DEF RowInv, Inv, TypeOK, RowsCoherent, RowFacts, LaneInv
    <2>2. row[r].exec = TRUE /\ row[r].attempts # <<>>
      BY DEF Accounted, Durable
    <2>3. row[r].effect # "not_started"
      BY <2>1, <2>2 DEF Ledger
    <2>4. row[r].status \notin {"absent", "pending_approval", "approved", "rejected", "canceled",
                                "expired", "stale"}
      BY <2>1, <2>2, <2>3 DEF Linked, AbsentRow, Coherent, Laned
    <2> QED BY <2>1, <2>2, <2>4 DEF Row, WorkflowStatus
  <1>2. Spec => []A
    <2>1. Init => A
      BY InitAccounted
    <2>2. RowInv /\ A /\ [Next]_vars => A'
      BY NextAccounted
    <2> HIDE DEF A
    <2> QED BY <2>1, <2>2, RowInvariance, PTL DEF Spec
  <1> HIDE DEF A
  <1> QED BY <1>1, <1>2, LaneInvariance, PTL
===============================================================================

---------------------------- MODULE SignedMutations ----------------------------
(***************************************************************************)
(* The signed mutations of one tenant: the views of the Stripe app, which  *)
(* keep a nonce for an intent until they are answered definitively, and    *)
(* the platform, which runs every delivery of a nonce through the worker's *)
(* attestation (approvals only), the context with its access checks, the   *)
(* look for a receipt, the checks of the service, and one transaction that *)
(* performs the mutation and stores the receipt.                           *)
(*                                                                         *)
(* Each of these is a transaction of its own.  A view that gives up leaves *)
(* its call running, so that two deliveries of one nonce interleave with   *)
(* each other, with other users and with the rest of the desk.  The        *)
(* requests are about one payment.  What execution does to an approved     *)
(* request is RefundExecution's; here it ends one day.                     *)
(***************************************************************************)
EXTENDS Naturals

CONSTANTS
  Users,          \* Stripe users who have opened the app
  NoUser,         \* the requester of a row that does not exist
  Administrators, \* those whose signed roles make them administrators
  InitialApprovers, \* the approvers the onboarding enabled
  Requests,       \* identifiers of refund_requests rows
  NoRequest,
  Intents,        \* what the users ask for: user, operation, request, approvers
  Calls,          \* requests the platform may serve at the same time
  NoCall,
  MaxNonces,      \* bound: nonces a view creates for one intent
  Environment     \* bound: what this instance lets happen around the mutations

(* A context sync and an audit export change nothing but their receipt and   *)
(* the audit trail, and are left out.                                        *)
Operation == {"create", "approve", "reject", "cancel", "acknowledge", "settings"}
Decisions == {"approve", "reject"}

ASSUME MutationAssumption ==
  /\ NoUser \notin Users /\ NoRequest \notin Requests /\ NoCall \notin Calls
  /\ Administrators \subseteq Users /\ InitialApprovers \subseteq Users
  /\ Intents \subseteq [user: Users, op: Operation, request: Requests \cup {NoRequest},
                        approvers: SUBSET Users]
  /\ \A i \in Intents : i.op \in Decisions \cup {"cancel"} <=> i.request \in Requests
  /\ MaxNonces \in Nat
  /\ Environment \subseteq {"failure", "ineligible", "deauthorize", "expire", "finish",
                            "lifetime", "edit", "recover"}

VARIABLES
  active,    \* installation and tenant are active
  approver,  \* the enabled approvers
  row,       \* row[r]: status and requester of the request
  alert,     \* an external refund alert about another payment
  attest,    \* attest[n]: the approval attestation of the nonce
  receipt,   \* receipt[n]: the api_mutation_receipts row
  effect,    \* effect[n]: how often the mutation of the nonce was performed
  nonce,     \* nonce[i]: the nonce the view holds for the intent, 0 if none
  minted,    \* minted[i]: how many nonces the view has created for it
  fetch,     \* fetch[u]: the call the user's view waits for
  call,      \* call[c]: the request in progress on the platform
  answered,  \* answered[n]: the outcomes the platform has reported to the nonce
  saved,     \* the approvers that the settings view shows as saved
  trouble    \* calls and fetches may fail: until a time nobody knows

vars == <<active, approver, row, alert, attest, receipt, effect, nonce, minted, fetch, call,
          answered, saved, trouble>>
desk == <<active, approver, row, alert>>
store == <<attest, receipt, effect>>
client == <<nonce, minted, fetch, saved, trouble>>

Nonce == [intent: Intents, number: 1..MaxNonces]
Status == {"absent", "pending_approval", "approved", "rejected", "canceled", "expired", "stale", "done"}
Answer == {"ok", "rejected", "forbidden", "refused", "unavailable"}
Outcome == {"ok", "rejected"}
Step == {"attest", "resolve", "find", "check", "execute", "store"}
IdleCall == [step |-> "idle"]

TypeOK ==
  /\ active \in BOOLEAN /\ approver \in SUBSET Users
  /\ row \in [Requests -> [status: Status, requester: Users \cup {NoUser}]]
  /\ alert \in {"none", "open", "acknowledged"}
  /\ attest \in [Nonce -> {"none", "fresh", "stale"}]
  /\ receipt \in [Nonce -> {"none", "ok", "rejected"}]
  /\ effect \in [Nonce -> Nat]
  /\ nonce \in [Intents -> 0..MaxNonces] /\ minted \in [Intents -> 0..MaxNonces]
  /\ fetch \in [Users -> Calls \cup {NoCall}]
  /\ call \in [Calls -> {IdleCall} \cup [step: Step, nonce: Nonce]]
  /\ answered \in [Nonce -> SUBSET Outcome]
  /\ saved \in SUBSET (SUBSET Users) /\ trouble \in BOOLEAN

Init ==
  /\ active = TRUE /\ approver = InitialApprovers
  /\ row = [r \in Requests |-> [status |-> "absent", requester |-> NoUser]]
  /\ alert = "none"
  /\ attest = [n \in Nonce |-> "none"] /\ receipt = [n \in Nonce |-> "none"]
  /\ effect = [n \in Nonce |-> 0]
  /\ nonce = [i \in Intents |-> 0] /\ minted = [i \in Intents |-> 0]
  /\ fetch = [u \in Users |-> NoCall] /\ call = [c \in Calls |-> IdleCall]
  /\ answered = [n \in Nonce |-> {}] /\ saved = {} /\ trouble = TRUE

At(c, step) == call[c].step = step
IntentOf(c) == call[c].nonce.intent
Target(i) == row[i.request]
Guarded == \E r \in Requests : row[r].status \in {"pending_approval", "approved"}

-------------------------------------------------------------------------------
(* The views of the app.                                                     *)

(* Where a request that is admitted at the edge, verified by the worker and  *)
(* within the rate limit goes first.                                         *)
handlePilotRoute(i) == IF i.op = "approve" THEN "attest" ELSE "resolve"

(* MutationIntentRegistry.begin: one mutation at a time in a view; the nonce *)
(* of an intent that was never answered definitively is used again.          *)
begin(i, c) ==
  LET n == IF nonce[i] # 0 THEN nonce[i] ELSE minted[i] + 1 IN
  /\ fetch[i.user] = NoCall /\ At(c, "idle")
  /\ n <= MaxNonces
  /\ i.request \in Requests => Target(i).status # "absent"
  /\ nonce' = [nonce EXCEPT ![i] = n]
  /\ minted' = [minted EXCEPT ![i] = IF nonce[i] # 0 THEN @ ELSE n]
  /\ fetch' = [fetch EXCEPT ![i.user] = c]
  /\ call' = [call EXCEPT ![c] = [step |-> handlePilotRoute(i),
                                  nonce |-> [intent |-> i, number |-> n]]]
  /\ saved' = IF i.op = "settings" THEN {} ELSE saved
  /\ UNCHANGED <<desk, store, answered, trouble>>

(* The fetch fails or the answer cannot be read: release, the nonce is kept. *)
giveUp(u) ==
  /\ trouble
  /\ fetch[u] # NoCall
  /\ fetch' = [fetch EXCEPT ![u] = NoCall]
  /\ UNCHANGED <<desk, store, nonce, minted, call, answered, saved, trouble>>

(* reset: the user edits what the intent asks for.                           *)
edit(i) ==
  /\ "edit" \in Environment
  /\ i.op \in {"create", "reject"} /\ nonce[i] # 0
  /\ fetch[i.user] = NoCall
  /\ nonce' = [nonce EXCEPT ![i] = 0]
  /\ UNCHANGED <<desk, store, minted, fetch, call, answered, saved, trouble>>

(* Mutant: a workflow conflict is taken for a passing failure. *)
Definitive_conflict == Answer \ {"unavailable", "rejected"}

(* isDefinitiveMutationRejection, and success.  429 and 5xx are not.         *)
Definitive == Answer \ {"unavailable"}

(* The platform answers.  A view that still waits completes the intent on a  *)
(* definitive answer and releases it on any other.                           *)
Answers(c, a) ==
  LET n == call[c].nonce
      i == n.intent
  IN /\ call' = [call EXCEPT ![c] = IdleCall]
     /\ answered' = [answered EXCEPT ![n] = @ \cup ({a} \cap Outcome)]
     /\ IF fetch[i.user] = c
        THEN /\ fetch' = [fetch EXCEPT ![i.user] = NoCall]
             /\ nonce' = IF a \in Definitive THEN [nonce EXCEPT ![i] = 0] ELSE nonce
             /\ saved' = IF a = "ok" /\ i.op = "settings" THEN {i.approvers} ELSE saved
        ELSE UNCHANGED <<fetch, nonce, saved>>
     /\ UNCHANGED <<minted, trouble>>

Goes(c, step) ==
  /\ call' = [call EXCEPT ![c].step = step]
  /\ UNCHANGED <<client, answered>>

-------------------------------------------------------------------------------
(* A delivery on the platform.                                               *)

(* What the worker asks of an approval before it attests it.                 *)
Attestable(i) ==
  /\ i.user \in approver
  /\ i.user # Target(i).requester
  /\ Target(i).status = "pending_approval"

(* A nonce is attested once, and a retry finds its attestation whatever has  *)
(* become of the request.                                                    *)
CanAttest(n) == active /\ (attest[n] # "none" \/ Attestable(n.intent))
persistApprovalAttestation(n) ==
  attest' = [attest EXCEPT ![n] = IF @ = "none" THEN "fresh" ELSE @]

(* The platform asks the worker; what it does not attest is an invalid       *)
(* envelope.                                                                 *)
attestApproval(c) ==
  LET n == call[c].nonce IN
  /\ At(c, "attest")
  /\ \/ CanAttest(n) /\ persistApprovalAttestation(n) /\ Goes(c, "resolve")
     \/ ~CanAttest(n) /\ UNCHANGED attest /\ Answers(c, "refused")
  /\ UNCHANGED <<desk, receipt, effect>>

(* The access policy of the pilot.                                           *)
authorize(i) ==
  /\ active
  /\ i.op = "settings" => i.user \in Administrators
  /\ i.op \in Decisions => i.user \in approver

assertCurrentMutationAccess(i) ==
  /\ i.op \in Decisions \cup {"acknowledge"} => i.user \in approver
  /\ i.op = "settings" => i.user \in Administrators

Permitted(i) == authorize(i) /\ assertCurrentMutationAccess(i)

resolveContext(c) ==
  /\ At(c, "resolve")
  /\ IF Permitted(IntentOf(c)) THEN Goes(c, "find") ELSE Answers(c, "forbidden")
  /\ UNCHANGED <<desk, store>>

Known(c) == receipt[call[c].nonce] # "none"
Replays(c) == Answers(c, receipt[call[c].nonce]) /\ UNCHANGED <<desk, store>>

findMutationReceipt(c) ==
  /\ At(c, "find")
  /\ \/ Known(c) /\ Replays(c)
     \/ ~Known(c) /\ Goes(c, "check") /\ UNCHANGED <<desk, store>>

(* Self-approval, and cancellation by another than the requester.            *)
Foreign(i) ==
  /\ i.request \in Requests /\ Target(i).status # "absent"
  /\ \/ i.op \in Decisions /\ Target(i).requester = i.user
     \/ i.op = "cancel" /\ Target(i).requester # i.user

(* The workflow no longer allows what the intent asks for.                   *)
Conflicts(i) ==
  \/ i.op = "create" /\ Guarded
  \/ i.op \in Decisions \cup {"cancel"} /\ Target(i).status # "pending_approval"

(* The service reads before it writes: a conflict and an ineligible payment  *)
(* are errors to be stored, a foreign request is one to be thrown.           *)
checkRequest(c) ==
  LET i == IntentOf(c) IN
  /\ At(c, "check")
  /\ \/ Foreign(i) /\ Answers(c, "forbidden")
     \/ ~Foreign(i) /\ Conflicts(i) /\ Goes(c, "store")
     \/ "ineligible" \in Environment /\ i.op = "create" /\ Goes(c, "store")
     \/ ~Foreign(i) /\ ~Conflicts(i) /\ Goes(c, "execute")
  /\ UNCHANGED <<desk, store>>

-------------------------------------------------------------------------------
(* The transaction of the mutation.                                          *)

(* Mutant: the transaction trusts the checks made before it. *)
Forbidden_trusting(i) == ~active

(* Checked again: the installation, the approver, the requester.             *)
Forbidden(i) ==
  \/ ~active
  \/ i.op \in Decisions \cup {"acknowledge"} /\ i.user \notin approver
  \/ Foreign(i)

(* Mutant: a pending request is looked for only before the transaction. *)
Rejected_trusting(i) ==
  \/ i.op = "create" /\ approver \ {i.user} = {}
  \/ i.op = "acknowledge" /\ alert # "open"

(* The desk is past its onboarding and Users have all opened the app, so that*)
(* the policy create asks for exists, which nothing takes away again, and    *)
(* settings finds every approver it names.                                   *)
Rejected(i) ==
  \/ Conflicts(i)
  \/ i.op = "create" /\ approver \ {i.user} = {}
  \/ i.op = "acknowledge" /\ alert # "open"

(* The decision trigger refuses an approval whose attestation has been       *)
(* overtaken by its consumption window.                                      *)
Unattested(n) == n.intent.op = "approve" /\ attest[n] # "fresh"

(* Mutant: a status the database does not have. *)
Closes_misspelt == [approve |-> "approved", reject |-> "rejected", cancel |-> "cancelled"]

Closes == [approve |-> "approved", reject |-> "rejected", cancel |-> "canceled"]

performMutation(i) ==
  \/ /\ i.op = "create"
     /\ \E r \in Requests :
          /\ row[r].status = "absent"
          /\ row' = [row EXCEPT ![r] = [status |-> "pending_approval", requester |-> i.user]]
     /\ UNCHANGED <<active, approver, alert>>
  \/ /\ i.op \in DOMAIN Closes
     /\ row' = [row EXCEPT ![i.request].status = Closes[i.op]]
     /\ UNCHANGED <<active, approver, alert>>
  \/ /\ i.op = "settings" /\ approver' = i.approvers
     /\ UNCHANGED <<active, row, alert>>
  \/ /\ i.op = "acknowledge" /\ alert' = "acknowledged"
     /\ UNCHANGED <<active, approver, row>>

Stores(c, outcome) ==
  /\ receipt' = [receipt EXCEPT ![call[c].nonce] = outcome]
  /\ UNCHANGED attest

Performs(c) ==
  LET n == call[c].nonce IN
  /\ performMutation(n.intent)
  /\ effect' = [effect EXCEPT ![n] = @ + 1]
  /\ Stores(c, "ok") /\ Answers(c, "ok")

(* Mutant: only the receipt of an error is replayed. *)
executeMutation_errorsOnly(c) ==
  LET n == call[c].nonce
      i == n.intent
      known == receipt[n] = "rejected"
  IN
  /\ At(c, "execute")
  /\ \/ known /\ Replays(c)
     \/ ~known /\ Forbidden(i) /\ Answers(c, "forbidden") /\ UNCHANGED <<desk, store>>
     \/ ~known /\ ~Forbidden(i) /\ Rejected(i) /\ Goes(c, "store") /\ UNCHANGED <<desk, store>>
     \/ /\ ~known /\ ~Forbidden(i) /\ ~Rejected(i) /\ Unattested(n)
        /\ Answers(c, "unavailable") /\ UNCHANGED <<desk, store>>
     \/ ~known /\ ~Forbidden(i) /\ ~Rejected(i) /\ ~Unattested(n) /\ Performs(c)

(* One serializable transaction.  A conflict with another one, after its     *)
(* retries, ends where the later of the two would: with the receipt of the   *)
(* same nonce, or with the conflict the earlier one has made.                *)
executeMutation(c) ==
  LET n == call[c].nonce
      i == n.intent
  IN
  /\ At(c, "execute")
  /\ \/ Known(c) /\ Replays(c)
     \/ /\ ~Known(c) /\ Forbidden(i)
        /\ Answers(c, "forbidden") /\ UNCHANGED <<desk, store>>
     \/ /\ ~Known(c) /\ ~Forbidden(i) /\ Rejected(i)
        /\ Goes(c, "store") /\ UNCHANGED <<desk, store>>
     \/ /\ ~Known(c) /\ ~Forbidden(i) /\ ~Rejected(i) /\ Unattested(n)
        /\ Answers(c, "unavailable") /\ UNCHANGED <<desk, store>>
     \/ ~Known(c) /\ ~Forbidden(i) /\ ~Rejected(i) /\ ~Unattested(n) /\ Performs(c)

(* Mutant: the receipt of another delivery is kept, but not answered with. *)
storeMutationReceipt_ownAnswer(c) ==
  /\ At(c, "store")
  /\ \/ ~active /\ Answers(c, "forbidden") /\ UNCHANGED <<desk, store>>
     \/ /\ active
        /\ Stores(c, IF Known(c) THEN receipt[call[c].nonce] ELSE "rejected")
        /\ Answers(c, "rejected") /\ UNCHANGED <<desk, effect>>

(* The error is stored, unless another delivery has stored an answer.        *)
storeMutationReceipt(c) ==
  /\ At(c, "store")
  /\ \/ Known(c) /\ Replays(c)
     \/ ~Known(c) /\ ~active /\ Answers(c, "forbidden") /\ UNCHANGED <<desk, store>>
     \/ /\ ~Known(c) /\ active
        /\ Stores(c, "rejected") /\ Answers(c, "rejected")
        /\ UNCHANGED <<desk, effect>>

(* Capacity, the verifier, Stripe or the database is not available at any    *)
(* step: 429, 500 or 503, and what was committed before stays.               *)
fails(c) ==
  /\ "failure" \in Environment /\ trouble
  /\ ~At(c, "idle")
  /\ Answers(c, "unavailable")
  /\ UNCHANGED <<desk, store>>

-------------------------------------------------------------------------------
(* The rest of the desk.                                                     *)

Changes(r, from, to) ==
  /\ row[r].status = from
  /\ row' = [row EXCEPT ![r].status = to]
  /\ UNCHANGED <<active, approver, alert, store, client, call, answered>>

(* handleExpirationJob.                                                      *)
expirePendingRequests(r) == "expire" \in Environment /\ Changes(r, "pending_approval", "expired")

(* The worker has executed the request and released its guard; "approved"    *)
(* stands for every status from the approval until then.                     *)
finish(r) == "finish" \in Environment /\ Changes(r, "approved", "done")

(* settleRequestsForDeauthorization: a request nobody has decided is stale,  *)
(* and so is an approved one that has not begun to execute.                  *)
applyWebhookDeauthorization ==
  /\ "deauthorize" \in Environment
  /\ active /\ active' = FALSE
  /\ \E begun \in SUBSET {r \in Requests : row[r].status = "approved"} :
       row' = [r \in Requests |->
                 IF row[r].status \in {"pending_approval", "approved"} /\ r \notin begun
                 THEN [row[r] EXCEPT !.status = IF @ = "approved" THEN "done" ELSE "stale"]
                 ELSE row[r]]
  /\ UNCHANGED <<approver, alert, store, client, call, answered>>

provisionWebhookInstallation ==
  /\ ~active /\ active' = TRUE
  /\ UNCHANGED <<approver, row, alert, store, client, call, answered>>

observeExternalRefund ==
  /\ alert = "none" /\ \E i \in Intents : i.op = "acknowledge"
  /\ alert' = "open"
  /\ UNCHANGED <<active, approver, row, store, client, call, answered>>

(* From here on the platform is available and the views wait for it.         *)
recovers ==
  /\ "recover" \in Environment
  /\ trouble /\ trouble' = FALSE
  /\ UNCHANGED <<desk, store, nonce, minted, fetch, saved, call, answered>>

(* Five minutes after it was made.                                           *)
attestationExpires(n) ==
  /\ "lifetime" \in Environment
  /\ attest[n] = "fresh"
  /\ attest' = [attest EXCEPT ![n] = "stale"]
  /\ UNCHANGED <<desk, receipt, effect, client, call, answered>>

Serves(c) ==
  \/ attestApproval(c) \/ resolveContext(c) \/ findMutationReceipt(c)
  \/ checkRequest(c) \/ executeMutation(c) \/ storeMutationReceipt(c)

Next ==
  \/ \E i \in Intents : edit(i) \/ \E c \in Calls : begin(i, c)
  \/ \E u \in Users : giveUp(u)
  \/ \E c \in Calls : Serves(c) \/ fails(c)
  \/ \E r \in Requests : expirePendingRequests(r) \/ finish(r)
  \/ applyWebhookDeauthorization \/ provisionWebhookInstallation \/ observeExternalRefund
  \/ recovers
  \/ \E n \in Nonce : attestationExpires(n)

Spec == Init /\ [][Next]_vars

(* A call is served to its end, a user who was not answered definitively     *)
(* tries again, and the trouble ends one day.                                *)
Fairness ==
  /\ \A c \in Calls : WF_vars(Serves(c))
  /\ \A i \in Intents : SF_vars(\E c \in Calls : nonce[i] # 0 /\ begin(i, c))
  /\ WF_vars(recovers)

FairSpec == Spec /\ Fairness

-------------------------------------------------------------------------------
(* Properties.                                                               *)

(* The mutation of a nonce is performed once, and exactly when the receipt   *)
(* that says so is stored, although its deliveries interleave, fail and are  *)
(* repeated (PilotService.dispatch, executeMutation, storeMutationReceipt).  *)
EffectOncePerNonce ==
  \A n \in Nonce : effect[n] = IF receipt[n] = "ok" THEN 1 ELSE 0

(* All deliveries of a nonce that get past the access checks are told the    *)
(* same, and what they are told is so: ok only if the mutation was           *)
(* performed, rejected only if it was not and never will be.                 *)
AnswersAgree ==
  \A n \in Nonce : answered[n] \subseteq {receipt[n]}

(* Of the decisions and cancellations of a request exactly one is performed, *)
(* the one its status names, however they race; an approval is attested and  *)
(* another user's than the requester's (decideRefundRequest,                 *)
(* cancelRefundRequest, refunddesk_validate_decision).                       *)
OneDecisionPerRequest ==
  \A r \in Requests :
    LET closing == {n \in Nonce : n.intent.request = r /\ effect[n] > 0} IN
    /\ \A m, n \in closing : m = n
    /\ row[r].status \in {"rejected", "canceled", "approved", "done"} =>
         \E n \in closing :
           /\ Closes[n.intent.op] = IF row[r].status = "done" THEN "approved" ELSE row[r].status
           /\ n.intent.op \in Decisions => n.intent.user # row[r].requester
           /\ n.intent.op = "approve" => attest[n] # "none"
    /\ row[r].status \in {"absent", "pending_approval", "expired", "stale"} => closing = {}

(* A decision commits only for a user who is an enabled approver at that     *)
(* moment and under an active installation, although both were read          *)
(* transactions earlier (resolveContext, decideRefundRequest).               *)
DeciderIsApprover ==
  [][\A n \in Nonce : n.intent.op \in Decisions /\ effect'[n] > effect[n] =>
       active /\ n.intent.user \in approver]_vars

(* A user who keeps trying is answered definitively, as long as attestations *)
(* outlive the trouble (mutation-intent.ts, isDefinitiveMutationRejection).  *)
IntentIsAnswered ==
  \A i \in Intents : nonce[i] # 0 ~> nonce[i] = 0

(* What the settings view shows as saved is in force, with a single          *)
(* administrator who makes one call at a time (Settings.tsx save).           *)
SavedSettingsAreInForce ==
  saved # {} => approver \in saved
===============================================================================

------------------------ MODULE SignedMutations_proofs -------------------------
(***************************************************************************)
(* Proofs about SignedMutations for every set of users, requests, intents  *)
(* and calls and every bound.                                              *)
(*                                                                         *)
(* The receipts are a ledger: an entry is made once, with the effect it    *)
(* speaks of, and everything that is answered is an entry.                 *)
(***************************************************************************)
EXTENDS SignedMutations, TLAPS

DeskOK ==
  /\ active \in BOOLEAN /\ approver \in SUBSET Users
  /\ row \in [Requests -> [status: Status, requester: Users \cup {NoUser}]]
  /\ alert \in {"none", "open", "acknowledged"}

StoreOK ==
  /\ attest \in [Nonce -> {"none", "fresh", "stale"}]
  /\ receipt \in [Nonce -> {"none", "ok", "rejected"}]
  /\ effect \in [Nonce -> Nat]

ClientOK ==
  /\ nonce \in [Intents -> 0..MaxNonces] /\ minted \in [Intents -> 0..MaxNonces]
  /\ fetch \in [Users -> Calls \cup {NoCall}]
  /\ saved \in SUBSET (SUBSET Users) /\ trouble \in BOOLEAN

BusyType == [step: Step, nonce: Nonce]

CallOK ==
  /\ call \in [Calls -> {IdleCall} \cup BusyType]
  /\ answered \in [Nonce -> SUBSET Outcome]

LEMMA TypeParts == TypeOK <=> DeskOK /\ StoreOK /\ ClientOK /\ CallOK
  BY DEF TypeOK, DeskOK, StoreOK, ClientOK, CallOK, BusyType

Ledger == EffectOncePerNonce /\ AnswersAgree

(* The inductive invariant.                                                  *)
Inv == TypeOK /\ Ledger

LEMMA IntentTypes ==
  ASSUME NEW i \in Intents
  PROVE  /\ i.user \in Users /\ i.op \in Operation
         /\ i.request \in Requests \cup {NoRequest} /\ i.approvers \in SUBSET Users
         /\ i.op \in Decisions \cup {"cancel"} <=> i.request \in Requests
  BY MutationAssumption

LEMMA BusyCall ==
  ASSUME CallOK, NEW c \in Calls, ~At(c, "idle")
  PROVE  /\ call[c] \in BusyType /\ call[c].nonce \in Nonce /\ IntentOf(c) \in Intents
         /\ call[c].nonce.intent = IntentOf(c)
  BY DEF CallOK, At, IdleCall, BusyType, IntentOf, Nonce

LEMMA AnswersType ==
  ASSUME ClientOK, CallOK, NEW c \in Calls, ~At(c, "idle"), NEW a \in Answer, Answers(c, a)
  PROVE  ClientOK' /\ CallOK'
  <1> DEFINE n == call[c].nonce
             i == n.intent
  <1>1. n \in Nonce /\ i \in Intents
    BY BusyCall DEF IntentOf
  <1>2. i.user \in Users /\ i.approvers \in SUBSET Users
    BY <1>1, IntentTypes
  <1>3. CallOK'
    <2>1. /\ call' = [call EXCEPT ![c] = IdleCall]
          /\ answered' = [answered EXCEPT ![n] = @ \cup ({a} \cap Outcome)]
      BY DEF Answers
    <2> QED BY <1>1, <2>1 DEF CallOK
  <1>4. ClientOK'
    <2>1. minted' = minted /\ trouble' = trouble
      BY DEF Answers
    <2>2. CASE fetch[i.user] = c
      <3>1. /\ fetch' = [fetch EXCEPT ![i.user] = NoCall]
            /\ nonce' = IF a \in Definitive THEN [nonce EXCEPT ![i] = 0] ELSE nonce
            /\ saved' = IF a = "ok" /\ i.op = "settings" THEN {i.approvers} ELSE saved
        BY <2>2 DEF Answers
      <3>2. MaxNonces \in Nat
        BY MutationAssumption
      <3> QED BY <1>1, <1>2, <2>1, <3>1, <3>2 DEF ClientOK
    <2>3. CASE fetch[i.user] # c
      <3>1. fetch' = fetch /\ nonce' = nonce /\ saved' = saved
        BY <2>3 DEF Answers
      <3> QED BY <2>1, <3>1 DEF ClientOK
    <2> QED BY <2>2, <2>3
  <1> QED BY <1>3, <1>4

LEMMA GoesType ==
  ASSUME ClientOK, CallOK, NEW c \in Calls, ~At(c, "idle"), NEW s \in Step, Goes(c, s)
  PROVE  ClientOK' /\ CallOK'
  <1>1. call[c] \in BusyType
    BY BusyCall
  <1>2. [call[c] EXCEPT !.step = s] \in BusyType
    BY <1>1 DEF BusyType
  <1>3. call' = [call EXCEPT ![c] = [call[c] EXCEPT !.step = s]]
    BY DEF Goes
  <1>4. CallOK'
    BY <1>2, <1>3 DEF CallOK, Goes
  <1>5. ClientOK'
    BY DEF Goes, client, ClientOK
  <1> QED BY <1>4, <1>5

LEMMA DeskKept == ASSUME DeskOK, UNCHANGED desk PROVE DeskOK'
  BY DEF DeskOK, desk

LEMMA StoreKept == ASSUME StoreOK, UNCHANGED store PROVE StoreOK'
  BY DEF StoreOK, store

-------------------------------------------------------------------------------
(* The ledger.                                                               *)

LEMMA LedgerUnchanged ==
  ASSUME Ledger, receipt' = receipt, effect' = effect, answered' = answered
  PROVE  Ledger'
  BY DEF Ledger, EffectOncePerNonce, AnswersAgree

(* An answer that is no outcome, or the one in the ledger, changes nothing.  *)
LEMMA AnswersLedger ==
  ASSUME Ledger, CallOK, NEW c \in Calls, ~At(c, "idle"), NEW a \in Answer, Answers(c, a),
         receipt' = receipt, effect' = effect,
         a \in Outcome => a = receipt[call[c].nonce]
  PROVE  Ledger'
  <1>1. call[c].nonce \in Nonce
    BY BusyCall
  <1>2. answered' = [answered EXCEPT ![call[c].nonce] = @ \cup ({a} \cap Outcome)]
    BY DEF Answers
  <1>3. EffectOncePerNonce'
    BY DEF Ledger, EffectOncePerNonce
  <1>4. AnswersAgree'
    BY <1>1, <1>2 DEF Ledger, AnswersAgree, CallOK
  <1> QED BY <1>3, <1>4 DEF Ledger

(* A new entry: nothing was answered before it.                              *)
LEMMA EntryLedger ==
  ASSUME Ledger, CallOK, StoreOK, NEW c \in Calls, ~At(c, "idle"), NEW a \in Outcome,
         Answers(c, a), Stores(c, a), ~Known(c),
         effect' = [effect EXCEPT ![call[c].nonce] = IF a = "ok" THEN @ + 1 ELSE @]
  PROVE  Ledger' /\ StoreOK'
  <1> DEFINE n == call[c].nonce
  <1>1. n \in Nonce
    BY BusyCall
  <1>2. /\ answered' = [answered EXCEPT ![n] = @ \cup ({a} \cap Outcome)]
        /\ receipt' = [receipt EXCEPT ![n] = a] /\ attest' = attest
    BY DEF Answers, Stores
  <1>3. receipt[n] = "none" /\ a \in {"ok", "rejected"}
    BY DEF Known, Outcome
  <1>4. answered[n] = {} /\ effect[n] = 0
    BY <1>1, <1>3 DEF Ledger, AnswersAgree, EffectOncePerNonce, CallOK, Outcome
  <1>5. StoreOK'
    BY <1>1, <1>2, <1>3 DEF StoreOK
  <1>6. EffectOncePerNonce'
    BY <1>1, <1>2, <1>3, <1>4 DEF Ledger, EffectOncePerNonce, StoreOK
  <1>7. AnswersAgree'
    BY <1>1, <1>2, <1>3, <1>4 DEF Ledger, AnswersAgree, StoreOK, CallOK
  <1> QED BY <1>5, <1>6, <1>7 DEF Ledger

-------------------------------------------------------------------------------
(* The steps of a delivery.                                                  *)

LEMMA Unsaid ==
  ASSUME Inv, NEW c \in Calls, ~At(c, "idle"), NEW a \in Answer, Answers(c, a),
         UNCHANGED desk, StoreOK', receipt' = receipt, effect' = effect,
         a \in Outcome => a = receipt[call[c].nonce]
  PROVE  Inv'
  <1>1. DeskOK /\ StoreOK /\ ClientOK /\ CallOK /\ Ledger
    BY TypeParts DEF Inv
  <1>2. DeskOK'
    BY <1>1, DeskKept
  <1>3. ClientOK' /\ CallOK'
    BY <1>1, AnswersType
  <1>4. Ledger'
    BY <1>1, AnswersLedger
  <1>5. TypeOK'
    BY <1>2, <1>3 DEF TypeOK, DeskOK, StoreOK, ClientOK, CallOK, BusyType
  <1> QED BY <1>4, <1>5 DEF Inv

LEMMA Advances ==
  ASSUME Inv, NEW c \in Calls, ~At(c, "idle"), NEW s \in Step, Goes(c, s),
         UNCHANGED desk, StoreOK', receipt' = receipt, effect' = effect
  PROVE  Inv'
  <1>1. DeskOK /\ StoreOK /\ ClientOK /\ CallOK /\ Ledger
    BY TypeParts DEF Inv
  <1>2. DeskOK'
    BY <1>1, DeskKept
  <1>3. ClientOK' /\ CallOK'
    BY <1>1, GoesType
  <1>4. Ledger'
    BY <1>1, LedgerUnchanged DEF Goes
  <1>5. TypeOK'
    BY <1>2, <1>3 DEF TypeOK, DeskOK, StoreOK, ClientOK, CallOK, BusyType
  <1> QED BY <1>4, <1>5 DEF Inv

LEMMA StoreStays ==
  ASSUME Inv, UNCHANGED store
  PROVE  StoreOK' /\ receipt' = receipt /\ effect' = effect
  BY TypeParts, StoreKept DEF Inv, store

LEMMA ReplaysInv ==
  ASSUME Inv, NEW c \in Calls, ~At(c, "idle"), Known(c), Replays(c)
  PROVE  Inv'
  <1>1. StoreOK /\ CallOK
    BY TypeParts DEF Inv
  <1>2. receipt[call[c].nonce] \in Outcome
    BY <1>1, BusyCall DEF Known, StoreOK, Outcome
  <1>3. receipt[call[c].nonce] \in Answer
    BY <1>2 DEF Outcome, Answer
  <1>4. /\ Answers(c, receipt[call[c].nonce]) /\ UNCHANGED desk
        /\ StoreOK' /\ receipt' = receipt /\ effect' = effect
    BY StoreStays DEF Replays
  <1> QED BY <1>3, <1>4, Unsaid

LEMMA SaysNothing ==
  ASSUME Inv, NEW c \in Calls, ~At(c, "idle"), NEW a \in Answer \ Outcome, Answers(c, a),
         UNCHANGED <<desk, store>>
  PROVE  Inv'
  BY StoreStays, Unsaid

LEMMA Moves ==
  ASSUME Inv, NEW c \in Calls, ~At(c, "idle"), NEW s \in Step, Goes(c, s),
         UNCHANGED <<desk, store>>
  PROVE  Inv'
  BY StoreStays, Advances

LEMMA Words ==
  /\ {"forbidden", "refused", "unavailable"} \subseteq Answer \ Outcome
  /\ {"attest", "resolve", "find", "check", "execute", "store"} = Step
  /\ \A c \in Calls, s \in Step : At(c, s) => ~At(c, "idle")
  BY DEF Answer, Outcome, Step, At

LEMMA attestApprovalInv ==
  ASSUME Inv, NEW c \in Calls, attestApproval(c)
  PROVE  Inv'
  <1> DEFINE n == call[c].nonce
  <1>1. ~At(c, "idle")
    BY Words DEF attestApproval
  <1>2. StoreOK /\ CallOK /\ n \in Nonce
    BY <1>1, TypeParts, BusyCall DEF Inv
  <1>3. UNCHANGED desk /\ receipt' = receipt /\ effect' = effect
    BY DEF attestApproval
  <1>4. CASE persistApprovalAttestation(n) /\ Goes(c, "resolve")
    <2>1. StoreOK'
      BY <1>2, <1>3, <1>4 DEF persistApprovalAttestation, StoreOK
    <2> QED BY <1>1, <1>3, <1>4, <2>1, Words, Advances
  <1>5. CASE UNCHANGED attest /\ Answers(c, "refused")
    <2>1. StoreOK'
      BY <1>2, <1>3, <1>5 DEF StoreOK
    <2> QED BY <1>1, <1>3, <1>5, <2>1, Words, Unsaid
  <1> QED BY <1>4, <1>5 DEF attestApproval

LEMMA resolveContextInv ==
  ASSUME Inv, NEW c \in Calls, resolveContext(c)
  PROVE  Inv'
  <1>1. ~At(c, "idle") /\ UNCHANGED <<desk, store>>
    BY Words DEF resolveContext
  <1>2. Goes(c, "find") \/ Answers(c, "forbidden")
    BY DEF resolveContext
  <1> QED BY <1>1, <1>2, Words, Moves, SaysNothing

LEMMA findMutationReceiptInv ==
  ASSUME Inv, NEW c \in Calls, findMutationReceipt(c)
  PROVE  Inv'
  <1>1. ~At(c, "idle")
    BY Words DEF findMutationReceipt
  <1>2. CASE Known(c) /\ Replays(c)
    BY <1>1, <1>2, ReplaysInv
  <1>3. CASE Goes(c, "check") /\ UNCHANGED <<desk, store>>
    BY <1>1, <1>3, Words, Moves
  <1> QED BY <1>2, <1>3 DEF findMutationReceipt

LEMMA checkRequestInv ==
  ASSUME Inv, NEW c \in Calls, checkRequest(c)
  PROVE  Inv'
  <1>1. ~At(c, "idle") /\ UNCHANGED <<desk, store>>
    BY Words DEF checkRequest
  <1>2. Answers(c, "forbidden") \/ Goes(c, "store") \/ Goes(c, "execute")
    BY DEF checkRequest
  <1> QED BY <1>1, <1>2, Words, Moves, SaysNothing

LEMMA RowChanges ==
  ASSUME DeskOK, NEW r \in Requests, NEW x \in Status,
         row' = [row EXCEPT ![r].status = x], UNCHANGED <<active, approver, alert>>
  PROVE  DeskOK'
  <1>1. [row[r] EXCEPT !.status = x] \in [status: Status, requester: Users \cup {NoUser}]
    BY DEF DeskOK
  <1>2. row' = [row EXCEPT ![r] = [row[r] EXCEPT !.status = x]]
    OBVIOUS
  <1> QED BY <1>1, <1>2 DEF DeskOK

LEMMA performMutationType ==
  ASSUME DeskOK, NEW i \in Intents, performMutation(i)
  PROVE  DeskOK'
  <1>1. CASE i.op = "create"
    <2>1. PICK r \in Requests :
            row' = [row EXCEPT ![r] = [status |-> "pending_approval", requester |-> i.user]]
      BY <1>1 DEF performMutation, Closes
    <2>2. UNCHANGED <<active, approver, alert>>
      BY <1>1 DEF performMutation, Closes
    <2> QED BY <2>1, <2>2, IntentTypes DEF DeskOK, Status
  <1>2. CASE i.op \in DOMAIN Closes
    <2>1. i.op \in Decisions \cup {"cancel"}
      BY <1>2 DEF Closes, Decisions
    <2>2. i.request \in Requests /\ Closes[i.op] \in Status
      BY <2>1, IntentTypes DEF Closes, Decisions, Status
    <2>3. /\ row' = [row EXCEPT ![i.request].status = Closes[i.op]]
          /\ UNCHANGED <<active, approver, alert>>
      BY <2>1 DEF performMutation, Decisions
    <2> QED BY <2>2, <2>3, RowChanges
  <1>3. CASE i.op = "settings"
    BY <1>3, IntentTypes DEF performMutation, Closes, DeskOK
  <1>4. CASE i.op = "acknowledge"
    BY <1>4 DEF performMutation, Closes, DeskOK
  <1> QED BY <1>1, <1>2, <1>3, <1>4 DEF performMutation

LEMMA PerformsInv ==
  ASSUME Inv, NEW c \in Calls, ~At(c, "idle"), ~Known(c), Performs(c)
  PROVE  Inv'
  <1>1. DeskOK /\ StoreOK /\ ClientOK /\ CallOK /\ Ledger
    BY TypeParts DEF Inv
  <1>2. call[c].nonce \in Nonce /\ call[c].nonce.intent \in Intents
    BY <1>1, BusyCall
  <1>3. /\ performMutation(call[c].nonce.intent) /\ Stores(c, "ok") /\ Answers(c, "ok")
        /\ effect' = [effect EXCEPT ![call[c].nonce] = @ + 1]
    BY DEF Performs
  <1>4. "ok" \in Answer /\ "ok" \in Outcome
    BY DEF Answer, Outcome
  <1>5. DeskOK'
    BY <1>1, <1>2, <1>3, performMutationType
  <1>6. ClientOK' /\ CallOK'
    BY <1>1, <1>3, <1>4, AnswersType
  <1>7. Ledger' /\ StoreOK'
    <2>1. effect' = [effect EXCEPT ![call[c].nonce] = IF "ok" = "ok" THEN @ + 1 ELSE @]
      BY <1>3
    <2> QED BY <1>1, <1>3, <1>4, <2>1, EntryLedger
  <1>8. TypeOK'
    BY <1>5, <1>6, <1>7 DEF TypeOK, DeskOK, StoreOK, ClientOK, CallOK, BusyType
  <1> QED BY <1>7, <1>8 DEF Inv

LEMMA executeMutationInv ==
  ASSUME Inv, NEW c \in Calls, executeMutation(c)
  PROVE  Inv'
  <1>1. ~At(c, "idle")
    BY Words DEF executeMutation
  <1>2. CASE Known(c) /\ Replays(c)
    BY <1>1, <1>2, ReplaysInv
  <1>3. CASE /\ Answers(c, "forbidden") \/ Answers(c, "unavailable")
             /\ UNCHANGED <<desk, store>>
    BY <1>1, <1>3, Words, SaysNothing
  <1>4. CASE Goes(c, "store") /\ UNCHANGED <<desk, store>>
    BY <1>1, <1>4, Words, Moves
  <1>5. CASE ~Known(c) /\ Performs(c)
    BY <1>1, <1>5, PerformsInv
  <1> QED BY <1>2, <1>3, <1>4, <1>5 DEF executeMutation

LEMMA storeMutationReceiptInv ==
  ASSUME Inv, NEW c \in Calls, storeMutationReceipt(c)
  PROVE  Inv'
  <1>1. ~At(c, "idle")
    BY Words DEF storeMutationReceipt
  <1>2. CASE Known(c) /\ Replays(c)
    BY <1>1, <1>2, ReplaysInv
  <1>3. CASE Answers(c, "forbidden") /\ UNCHANGED <<desk, store>>
    BY <1>1, <1>3, Words, SaysNothing
  <1>4. CASE /\ ~Known(c) /\ Stores(c, "rejected") /\ Answers(c, "rejected")
             /\ UNCHANGED <<desk, effect>>
    <2>1. DeskOK /\ StoreOK /\ ClientOK /\ CallOK /\ Ledger
      BY TypeParts DEF Inv
    <2>2. "rejected" \in Answer /\ "rejected" \in Outcome
      BY DEF Answer, Outcome
    <2>3. effect' = [effect EXCEPT ![call[c].nonce] = IF "rejected" = "ok" THEN @ + 1 ELSE @]
      BY <1>4, <2>1 DEF StoreOK
    <2>4. Ledger' /\ StoreOK'
      BY <1>1, <1>4, <2>1, <2>2, <2>3, EntryLedger
    <2>5. DeskOK' /\ ClientOK' /\ CallOK'
      BY <1>1, <1>4, <2>1, <2>2, DeskKept, AnswersType
    <2>6. TypeOK'
      BY <2>4, <2>5 DEF TypeOK, DeskOK, StoreOK, ClientOK, CallOK, BusyType
    <2> QED BY <2>4, <2>6 DEF Inv
  <1> QED BY <1>2, <1>3, <1>4 DEF storeMutationReceipt

LEMMA failsInv ==
  ASSUME Inv, NEW c \in Calls, fails(c)
  PROVE  Inv'
  BY Words, SaysNothing DEF fails

-------------------------------------------------------------------------------
(* The views, and the rest of the desk: steps that make no entry.            *)

LEMMA NoEntry ==
  ASSUME Inv, DeskOK', StoreOK', ClientOK', CallOK',
         receipt' = receipt, effect' = effect, answered' = answered
  PROVE  Inv'
  <1>1. Ledger'
    BY LedgerUnchanged DEF Inv
  <1>2. TypeOK'
    BY DEF TypeOK, DeskOK, StoreOK, ClientOK, CallOK, BusyType
  <1> QED BY <1>1, <1>2 DEF Inv

LEMMA beginInv ==
  ASSUME Inv, NEW i \in Intents, NEW c \in Calls, begin(i, c)
  PROVE  Inv'
  <1> DEFINE n == IF nonce[i] # 0 THEN nonce[i] ELSE minted[i] + 1
  <1>1. DeskOK /\ StoreOK /\ ClientOK /\ CallOK /\ MaxNonces \in Nat
    BY TypeParts, MutationAssumption DEF Inv
  <1>2. n \in 1..MaxNonces
    BY <1>1 DEF begin, ClientOK
  <1>3. [intent |-> i, number |-> n] \in Nonce
    BY <1>2 DEF Nonce
  <1>4. handlePilotRoute(i) \in Step
    BY DEF handlePilotRoute, Step
  <1>5. CallOK'
    <2>1. [step |-> handlePilotRoute(i), nonce |-> [intent |-> i, number |-> n]] \in BusyType
      BY <1>3, <1>4 DEF BusyType
    <2>2. /\ call' = [call EXCEPT ![c] = [step |-> handlePilotRoute(i),
                                          nonce |-> [intent |-> i, number |-> n]]]
          /\ answered' = answered
      BY DEF begin
    <2> QED BY <1>1, <2>1, <2>2 DEF CallOK
  <1>6. ClientOK'
    <2>1. /\ nonce' = [nonce EXCEPT ![i] = n]
          /\ minted' = [minted EXCEPT ![i] = IF nonce[i] # 0 THEN @ ELSE n]
          /\ fetch' = [fetch EXCEPT ![i.user] = c]
          /\ saved' = {} \/ saved' = saved
          /\ trouble' = trouble
      BY DEF begin
    <2>2. i.user \in Users
      BY IntentTypes
    <2> HIDE DEF n
    <2> QED BY <1>1, <1>2, <2>1, <2>2 DEF ClientOK
  <1>7. UNCHANGED <<desk, store, answered>>
    BY DEF begin
  <1>8. DeskOK' /\ StoreOK' /\ receipt' = receipt /\ effect' = effect
    BY <1>1, <1>7, DeskKept, StoreStays
  <1> QED BY <1>5, <1>6, <1>7, <1>8, NoEntry

LEMMA giveUpInv ==
  ASSUME Inv, NEW u \in Users, giveUp(u)
  PROVE  Inv'
  <1>1. DeskOK /\ StoreOK /\ ClientOK /\ CallOK
    BY TypeParts DEF Inv
  <1>2. UNCHANGED <<desk, store, answered>>
    BY DEF giveUp
  <1>3. ClientOK' /\ CallOK'
    BY <1>1 DEF giveUp, ClientOK, CallOK
  <1>4. DeskOK' /\ StoreOK' /\ receipt' = receipt /\ effect' = effect
    BY <1>1, <1>2, DeskKept, StoreStays
  <1> QED BY <1>2, <1>3, <1>4, NoEntry

LEMMA editInv ==
  ASSUME Inv, NEW i \in Intents, edit(i)
  PROVE  Inv'
  <1>1. DeskOK /\ StoreOK /\ ClientOK /\ CallOK /\ MaxNonces \in Nat
    BY TypeParts, MutationAssumption DEF Inv
  <1>2. UNCHANGED <<desk, store, answered>>
    BY DEF edit
  <1>3. ClientOK' /\ CallOK'
    BY <1>1 DEF edit, ClientOK, CallOK
  <1>4. DeskOK' /\ StoreOK' /\ receipt' = receipt /\ effect' = effect
    BY <1>1, <1>2, DeskKept, StoreStays
  <1> QED BY <1>2, <1>3, <1>4, NoEntry

LEMMA OthersStay ==
  ASSUME Inv, UNCHANGED <<client, call, answered>>
  PROVE  ClientOK' /\ CallOK'
  BY TypeParts DEF Inv, client, ClientOK, CallOK

LEMMA DeskMoves ==
  ASSUME Inv, DeskOK', UNCHANGED <<store, client, call, answered>>
  PROVE  Inv'
  BY OthersStay, StoreStays, NoEntry

LEMMA ChangesInv ==
  ASSUME Inv, NEW r \in Requests, NEW x \in Status, NEW y \in Status, Changes(r, x, y)
  PROVE  Inv'
  <1>1. DeskOK
    BY TypeParts DEF Inv
  <1>2. DeskOK'
    BY <1>1, RowChanges DEF Changes
  <1>3. UNCHANGED <<store, client, call, answered>>
    BY DEF Changes
  <1> QED BY <1>2, <1>3, DeskMoves

LEMMA DeauthorizationInv ==
  ASSUME Inv, applyWebhookDeauthorization
  PROVE  Inv'
  <1>1. DeskOK
    BY TypeParts DEF Inv
  <1>2. PICK begun \in SUBSET {r \in Requests : row[r].status = "approved"} :
          row' = [r \in Requests |->
                    IF row[r].status \in {"pending_approval", "approved"} /\ r \notin begun
                    THEN [row[r] EXCEPT !.status = IF @ = "approved" THEN "done" ELSE "stale"]
                    ELSE row[r]]
    BY DEF applyWebhookDeauthorization
  <1>3. ASSUME NEW r \in Requests
        PROVE  row'[r] \in [status: Status, requester: Users \cup {NoUser}]
    <2>1. row[r] \in [status: Status, requester: Users \cup {NoUser}]
      BY <1>1 DEF DeskOK
    <2>2. [row[r] EXCEPT !.status = IF row[r].status = "approved" THEN "done" ELSE "stale"]
            \in [status: Status, requester: Users \cup {NoUser}]
      BY <2>1 DEF Status
    <2> QED BY <1>2, <2>1, <2>2
  <1>4. row' \in [Requests -> [status: Status, requester: Users \cup {NoUser}]]
    BY <1>2, <1>3
  <1>5. active' = FALSE /\ UNCHANGED <<approver, alert, store, client, call, answered>>
    BY DEF applyWebhookDeauthorization
  <1>6. DeskOK'
    BY <1>1, <1>4, <1>5 DEF DeskOK
  <1> QED BY <1>5, <1>6, DeskMoves

LEMMA RestInv ==
  ASSUME Inv, \/ provisionWebhookInstallation \/ observeExternalRefund \/ recovers
              \/ \E n \in Nonce : attestationExpires(n)
  PROVE  Inv'
  <1>1. DeskOK /\ StoreOK /\ ClientOK /\ CallOK
    BY TypeParts DEF Inv
  <1>2. CASE provisionWebhookInstallation
    BY <1>1, <1>2, DeskMoves DEF provisionWebhookInstallation, DeskOK
  <1>3. CASE observeExternalRefund
    BY <1>1, <1>3, DeskMoves DEF observeExternalRefund, DeskOK
  <1>4. CASE recovers
    <2>1. ClientOK' /\ CallOK' /\ UNCHANGED <<desk, store, answered>>
      BY <1>1, <1>4 DEF recovers, ClientOK, CallOK
    <2>2. DeskOK' /\ StoreOK' /\ receipt' = receipt /\ effect' = effect
      BY <1>1, <2>1, DeskKept, StoreStays
    <2> QED BY <2>1, <2>2, NoEntry
  <1>5. CASE \E n \in Nonce : attestationExpires(n)
    <2>1. PICK n \in Nonce : attestationExpires(n)
      BY <1>5
    <2>2. StoreOK' /\ receipt' = receipt /\ effect' = effect
      BY <1>1, <2>1 DEF attestationExpires, StoreOK
    <2>3. UNCHANGED <<desk, client, call, answered>>
      BY <2>1 DEF attestationExpires
    <2> QED BY <1>1, <2>2, <2>3, DeskKept, OthersStay, NoEntry
  <1> QED BY <1>2, <1>3, <1>4, <1>5

-------------------------------------------------------------------------------
(* The theorems.                                                             *)

LEMMA InitInv == Init => Inv
  <1> SUFFICES ASSUME Init PROVE Inv
    OBVIOUS
  <1>1. InitialApprovers \subseteq Users /\ MaxNonces \in Nat
    BY MutationAssumption
  <1>2. DeskOK
    BY <1>1 DEF Init, DeskOK, Status
  <1>3. StoreOK
    BY DEF Init, StoreOK
  <1>4. ClientOK /\ CallOK
    BY <1>1 DEF Init, ClientOK, CallOK
  <1>5. Ledger
    BY DEF Init, Ledger, EffectOncePerNonce, AnswersAgree
  <1> QED BY <1>2, <1>3, <1>4, <1>5, TypeParts DEF Inv

LEMMA ServesInv ==
  ASSUME Inv, NEW c \in Calls, Serves(c) \/ fails(c)
  PROVE  Inv'
  BY attestApprovalInv, resolveContextInv, findMutationReceiptInv, checkRequestInv,
     executeMutationInv, storeMutationReceiptInv, failsInv DEF Serves

LEMMA NextInv == Inv /\ [Next]_vars => Inv'
  <1> SUFFICES ASSUME Inv, [Next]_vars PROVE Inv'
    OBVIOUS
  <1>1. CASE \E i \in Intents : edit(i) \/ \E c \in Calls : begin(i, c)
    BY <1>1, editInv, beginInv
  <1>2. CASE \E u \in Users : giveUp(u)
    BY <1>2, giveUpInv
  <1>3. CASE \E c \in Calls : Serves(c) \/ fails(c)
    BY <1>3, ServesInv
  <1>4. CASE \E r \in Requests : expirePendingRequests(r) \/ finish(r)
    BY <1>4, ChangesInv DEF expirePendingRequests, finish, Status
  <1>5. CASE applyWebhookDeauthorization
    BY <1>5, DeauthorizationInv
  <1>6. CASE \/ provisionWebhookInstallation \/ observeExternalRefund \/ recovers
             \/ \E n \in Nonce : attestationExpires(n)
    BY <1>6, RestInv
  <1>7. CASE UNCHANGED vars
    <2>1. UNCHANGED <<desk, store, client, call, answered>>
      BY <1>7 DEF vars, desk, store, client
    <2>2. DeskOK'
      BY <2>1, TypeParts, DeskKept DEF Inv
    <2> QED BY <2>1, <2>2, DeskMoves
  <1> QED BY <1>1, <1>2, <1>3, <1>4, <1>5, <1>6, <1>7 DEF Next

(* The inductive invariant holds: every delivery of a nonce finds the        *)
(* receipts and the answers in step with the mutations performed             *)
(* (PilotService.dispatch and the repository's receipt transactions).        *)
THEOREM MutationInvariance == Spec => []Inv
  BY InitInv, NextInv, PTL DEF Spec

(* Every variable keeps its type, whatever the deliveries, the users and the *)
(* rest of the desk do.                                                      *)
THEOREM MutationTypeCorrect == Spec => []TypeOK
  <1>1. Inv => TypeOK
    BY DEF Inv
  <1> QED BY <1>1, MutationInvariance, PTL

(* However many deliveries of a nonce are served at once, fail or are        *)
(* repeated, its mutation is performed once, exactly when its ok receipt is  *)
(* stored (executeMutation reads the receipt in its own transaction).        *)
THEOREM NonceOnce == Spec => []EffectOncePerNonce
  <1>1. Inv => EffectOncePerNonce
    BY DEF Inv, Ledger
  <1> QED BY <1>1, MutationInvariance, PTL

(* Every outcome ever reported to a nonce is the one in its receipt, so no   *)
(* two deliveries are told different things (findMutationReceipt,            *)
(* executeMutation, storeMutationReceipt).                                   *)
THEOREM AnswersStand == Spec => []AnswersAgree
  <1>1. Inv => AnswersAgree
    BY DEF Inv, Ledger
  <1> QED BY <1>1, MutationInvariance, PTL

-------------------------------------------------------------------------------
(* A mutation is performed by one step only, and that step checks again      *)
(* everything that was read before it.                                       *)

Executes(c) ==
  /\ ~At(c, "idle")
  /\ ~Known(c) /\ ~Forbidden(IntentOf(c)) /\ ~Rejected(IntentOf(c))
  /\ ~Unattested(call[c].nonce)
  /\ Performs(c)

(* The other steps: no effect, no attestation withdrawn, and of a request at *)
(* most that it lapses, or that an approved one ends.                        *)
Open == {"absent", "pending_approval", "expired", "stale"}

Lapses(r) ==
  \/ row'[r] = row[r]
  \/ row[r].status \in Open /\ row'[r].status \in Open
  \/ /\ row[r].status = "approved" /\ row'[r].status = "done"
     /\ row'[r].requester = row[r].requester

Idles ==
  /\ effect' = effect
  /\ \A n \in Nonce : attest[n] # "none" => attest'[n] # "none"
  /\ \A r \in Requests : Lapses(r)

LEMMA QuietIdles == ASSUME UNCHANGED <<desk, store>> PROVE Idles
  BY DEF desk, store, Idles, Lapses

LEMMA ServesIdles ==
  ASSUME Inv, NEW c \in Calls, Serves(c) \/ fails(c)
  PROVE  Idles \/ Executes(c)
  <1>1. StoreOK /\ CallOK
    BY TypeParts DEF Inv
  <1>2. CASE attestApproval(c)
    <2>1. ~At(c, "idle")
      BY <1>2, Words DEF attestApproval
    <2>2. call[c].nonce \in Nonce
      BY <1>1, <2>1, BusyCall
    <2>3. UNCHANGED <<row, effect>>
      BY <1>2 DEF attestApproval, desk
    <2>4. \A n \in Nonce : attest[n] # "none" => attest'[n] # "none"
      BY <1>1, <1>2, <2>2 DEF attestApproval, persistApprovalAttestation, StoreOK
    <2> QED BY <2>3, <2>4 DEF Idles, Lapses
  <1>3. CASE resolveContext(c) \/ findMutationReceipt(c) \/ checkRequest(c) \/ fails(c)
    BY <1>3, QuietIdles DEF resolveContext, findMutationReceipt, Replays, checkRequest, fails
  <1>4. CASE executeMutation(c)
    <2>1. ~At(c, "idle") /\ IntentOf(c) = call[c].nonce.intent
      BY <1>4, Words DEF executeMutation, IntentOf
    <2> QED BY <1>4, <2>1, QuietIdles DEF executeMutation, Replays, Executes
  <1>5. CASE storeMutationReceipt(c)
    <2>1. UNCHANGED <<row, effect, attest>>
      BY <1>5 DEF storeMutationReceipt, Replays, Stores, desk, store
    <2> QED BY <2>1 DEF Idles, Lapses
  <1> QED BY <1>2, <1>3, <1>4, <1>5 DEF Serves

LEMMA ChangesIdles ==
  ASSUME Inv, NEW r \in Requests, expirePendingRequests(r) \/ finish(r)
  PROVE  Idles
  <1>1. DeskOK
    BY TypeParts DEF Inv
  <1>2. UNCHANGED <<effect, attest>>
    BY DEF expirePendingRequests, finish, Changes, store
  <1>3. ASSUME NEW q \in Requests PROVE Lapses(q)
    <2>1. row[q] \in [status: Status, requester: Users \cup {NoUser}]
      BY <1>1 DEF DeskOK
    <2>2. CASE expirePendingRequests(r)
      <3>1. row[r].status = "pending_approval" /\ row' = [row EXCEPT ![r].status = "expired"]
        BY <2>2 DEF expirePendingRequests, Changes
      <3> QED BY <1>1, <2>1, <3>1 DEF Lapses, Open, DeskOK
    <2>3. CASE finish(r)
      <3>1. row[r].status = "approved" /\ row' = [row EXCEPT ![r].status = "done"]
        BY <2>3 DEF finish, Changes
      <3> QED BY <1>1, <2>1, <3>1 DEF Lapses, DeskOK
    <2> QED BY <2>2, <2>3
  <1> QED BY <1>2, <1>3 DEF Idles

LEMMA DeauthorizationIdles ==
  ASSUME Inv, applyWebhookDeauthorization
  PROVE  Idles
  <1>1. DeskOK
    BY TypeParts DEF Inv
  <1>2. UNCHANGED <<effect, attest>>
    BY DEF applyWebhookDeauthorization, store
  <1>3. PICK begun \in SUBSET {r \in Requests : row[r].status = "approved"} :
          row' = [r \in Requests |->
                    IF row[r].status \in {"pending_approval", "approved"} /\ r \notin begun
                    THEN [row[r] EXCEPT !.status = IF @ = "approved" THEN "done" ELSE "stale"]
                    ELSE row[r]]
    BY DEF applyWebhookDeauthorization
  <1>4. ASSUME NEW r \in Requests PROVE Lapses(r)
    <2>1. row[r] \in [status: Status, requester: Users \cup {NoUser}]
      BY <1>1 DEF DeskOK
    <2> QED BY <1>3, <2>1 DEF Lapses, Open
  <1> QED BY <1>2, <1>4 DEF Idles

LEMMA OnlyExecutionActs ==
  ASSUME Inv, [Next]_vars
  PROVE  Idles \/ \E c \in Calls : Executes(c)
  <1>1. CASE \E i \in Intents : edit(i) \/ \E c \in Calls : begin(i, c)
    BY <1>1, QuietIdles DEF edit, begin
  <1>2. CASE \E u \in Users : giveUp(u)
    BY <1>2, QuietIdles DEF giveUp
  <1>3. CASE \E c \in Calls : Serves(c) \/ fails(c)
    BY <1>3, ServesIdles
  <1>4. CASE \E r \in Requests : expirePendingRequests(r) \/ finish(r)
    BY <1>4, ChangesIdles
  <1>5. CASE applyWebhookDeauthorization
    BY <1>5, DeauthorizationIdles
  <1>6. CASE provisionWebhookInstallation \/ observeExternalRefund \/ recovers
    <2>1. UNCHANGED <<row, effect, attest>>
      BY <1>6 DEF provisionWebhookInstallation, observeExternalRefund, recovers, desk, store
    <2> QED BY <2>1 DEF Idles, Lapses
  <1>7. CASE \E n \in Nonce : attestationExpires(n)
    <2>1. PICK n \in Nonce : attestationExpires(n)
      BY <1>7
    <2>2. UNCHANGED <<row, effect>> /\ attest' = [attest EXCEPT ![n] = "stale"]
      BY <2>1 DEF attestationExpires, desk
    <2>3. attest \in [Nonce -> {"none", "fresh", "stale"}]
      BY TypeParts DEF Inv, StoreOK
    <2> QED BY <2>2, <2>3 DEF Idles, Lapses
  <1>8. CASE UNCHANGED vars
    BY <1>8 DEF vars, Idles, Lapses
  <1> QED BY <1>1, <1>2, <1>3, <1>4, <1>5, <1>6, <1>7, <1>8 DEF Next

(* A decision commits only under an active installation and for a user who   *)
(* is an enabled approver at that moment: what resolveContext read may be    *)
(* stale, decideRefundRequest reads it again in its transaction.             *)
THEOREM DeciderAuthorized == Spec => DeciderIsApprover
  <1> DEFINE Act == \A n \in Nonce :
                      n.intent.op \in Decisions /\ effect'[n] > effect[n] =>
                        active /\ n.intent.user \in approver
  <1>1. Inv /\ [Next]_vars => [Act]_vars
    <2> SUFFICES ASSUME Inv, [Next]_vars, NEW n \in Nonce,
                        n.intent.op \in Decisions, effect'[n] > effect[n]
                 PROVE  active /\ n.intent.user \in approver
      OBVIOUS
    <2>1. StoreOK /\ CallOK
      BY TypeParts DEF Inv
    <2>2. PICK c \in Calls : Executes(c)
      BY <2>1, OnlyExecutionActs DEF Idles, StoreOK
    <2>3. effect' = [effect EXCEPT ![call[c].nonce] = @ + 1]
      BY <2>2 DEF Executes, Performs
    <2>4. n = call[c].nonce
      BY <2>1, <2>3 DEF StoreOK
    <2> QED BY <2>2, <2>4 DEF Executes, Forbidden, IntentOf
  <1> QED BY <1>1, MutationInvariance, PTL DEF Spec, DeciderIsApprover

-------------------------------------------------------------------------------
(* One decision per request.                                                 *)

Closing(r) == {n \in Nonce : n.intent.request = r /\ effect[n] > 0}

ClosedBy(r, n) ==
  /\ Closes[n.intent.op] = IF row[r].status = "done" THEN "approved" ELSE row[r].status
  /\ n.intent.op \in Decisions => n.intent.user # row[r].requester
  /\ n.intent.op = "approve" => attest[n] # "none"

Decided(r) ==
  /\ \A m, n \in Closing(r) : m = n
  /\ row[r].status \in {"rejected", "canceled", "approved", "done"} =>
       \E n \in Closing(r) : ClosedBy(r, n)
  /\ row[r].status \in Open => Closing(r) = {}

LEMMA DecidedParts == OneDecisionPerRequest <=> \A r \in Requests : Decided(r)
  BY DEF OneDecisionPerRequest, Decided, Closing, ClosedBy, Open

LEMMA StillDecided ==
  ASSUME NEW r \in Requests, Decided(r), Closing(r)' = Closing(r), Lapses(r),
         \A n \in Nonce : attest[n] # "none" => attest'[n] # "none"
  PROVE  Decided(r)'
  <1>1. Closing(r) \subseteq Nonce
    BY DEF Closing
  <1>2. CASE row'[r] = row[r]
    BY <1>1, <1>2 DEF Decided, ClosedBy
  <1>3. CASE row[r].status \in Open /\ row'[r].status \in Open
    BY <1>3 DEF Decided, Open
  <1>4. CASE /\ row[r].status = "approved" /\ row'[r].status = "done"
             /\ row'[r].requester = row[r].requester
    <2>1. PICK n \in Closing(r) : ClosedBy(r, n)
      BY <1>4 DEF Decided
    <2>2. ClosedBy(r, n)'
      BY <1>1, <1>4, <2>1 DEF ClosedBy
    <2> QED BY <1>4, <2>1, <2>2 DEF Decided, Open
  <1> QED BY <1>2, <1>3, <1>4 DEF Lapses

(* The request the mutation closes was pending, so nothing had closed it.    *)
LEMMA NowDecided ==
  ASSUME Inv, NEW r \in Requests, Decided(r), NEW c \in Calls, Executes(c),
         IntentOf(c).request = r
  PROVE  Decided(r)'
  <1>1. DeskOK /\ StoreOK /\ CallOK
    BY TypeParts DEF Inv
  <1>2. PICK n \in Nonce, i \in Intents : n = call[c].nonce /\ i = IntentOf(c) /\ n.intent = i
    BY <1>1, BusyCall DEF Executes
  <1>3. i.op \in Decisions \cup {"cancel"}
    BY <1>2, IntentTypes
  <1>4. row[r].status = "pending_approval" /\ Closing(r) = {}
    BY <1>2, <1>3 DEF Executes, Rejected, Conflicts, Target, Decided, Open
  <1>5. i.op \in Decisions => i.user # row[r].requester
    BY <1>2, <1>4 DEF Executes, Forbidden, Foreign, Target
  <1>6. i.op = "approve" => attest[n] # "none"
    BY <1>2 DEF Executes, Unattested
  <1>7. /\ row' = [row EXCEPT ![r].status = Closes[i.op]]
        /\ effect' = [effect EXCEPT ![n] = @ + 1] /\ attest' = attest
    BY <1>2, <1>3 DEF Executes, Performs, performMutation, Stores, Decisions
  <1>8. row'[r].status = Closes[i.op] /\ row'[r].requester = row[r].requester
    <2>1. row[r] \in [status: Status, requester: Users \cup {NoUser}]
      BY <1>1 DEF DeskOK
    <2> QED BY <1>1, <1>7, <2>1 DEF DeskOK
  <1>9. Closing(r)' = {n}
    <2>1. effect'[n] > 0 /\ n.intent.request = r
      BY <1>1, <1>2, <1>7 DEF StoreOK
    <2>2. \A m \in Nonce : m # n => effect'[m] = effect[m]
      BY <1>1, <1>7 DEF StoreOK
    <2> QED BY <1>2, <1>4, <2>1, <2>2 DEF Closing
  <1>10. Closes[i.op] \in {"approved", "rejected", "canceled"}
    BY <1>3 DEF Closes, Decisions
  <1>11. ClosedBy(r, n)'
    BY <1>2, <1>5, <1>6, <1>7, <1>8, <1>10 DEF ClosedBy
  <1> QED BY <1>8, <1>9, <1>10, <1>11 DEF Decided, Open

LEMMA ElsewhereDecided ==
  ASSUME Inv, NEW r \in Requests, Decided(r), NEW c \in Calls, Executes(c),
         IntentOf(c).request # r
  PROVE  Decided(r)'
  <1> DEFINE n == call[c].nonce
             i == IntentOf(c)
  <1>1. DeskOK /\ StoreOK /\ CallOK
    BY TypeParts DEF Inv
  <1>2. n \in Nonce /\ i \in Intents /\ n.intent = i
    BY <1>1, BusyCall DEF Executes
  <1>3. /\ performMutation(i)
        /\ effect' = [effect EXCEPT ![n] = @ + 1] /\ attest' = attest
    BY <1>2 DEF Executes, Performs, Stores
  <1>4. Closing(r)' = Closing(r)
    <2>1. \A m \in Nonce : m # n => effect'[m] = effect[m]
      BY <1>1, <1>3 DEF StoreOK
    <2> QED BY <1>2, <2>1 DEF Closing
  <1>5. Lapses(r)
    <2>1. CASE i.op = "create"
      <3>1. PICK q \in Requests :
              /\ row[q].status = "absent"
              /\ row' = [row EXCEPT ![q] = [status |-> "pending_approval", requester |-> i.user]]
        BY <1>3, <2>1 DEF performMutation, Closes
      <3> QED BY <1>1, <3>1 DEF Lapses, Open, DeskOK
    <2>2. CASE i.op \in DOMAIN Closes
      <3>1. row' = [row EXCEPT ![i.request].status = Closes[i.op]]
        BY <1>3, <2>2 DEF performMutation, Closes
      <3> QED BY <1>1, <3>1 DEF Lapses, DeskOK
    <2>3. CASE i.op \in {"settings", "acknowledge"}
      BY <1>3, <2>3 DEF performMutation, Closes, Lapses
    <2> QED BY <1>3, <2>1, <2>2, <2>3 DEF performMutation
  <1> QED BY <1>3, <1>4, <1>5, StillDecided

(* Of the decisions and cancellations of a request exactly one is performed, *)
(* the one its status names; an approval is attested and another user's than *)
(* the requester's (decideRefundRequest, cancelRefundRequest,                *)
(* refunddesk_validate_decision).                                            *)
THEOREM RequestDecidedOnce == Spec => []OneDecisionPerRequest
  <1> DEFINE All == \A r \in Requests : Decided(r)
  <1>1. Init => All
    <2> SUFFICES ASSUME Init, NEW r \in Requests PROVE Decided(r)
      OBVIOUS
    <2>1. row[r].status = "absent" /\ Closing(r) = {}
      BY DEF Init, Closing
    <2> QED BY <2>1 DEF Decided
  <1>2. Inv /\ All /\ [Next]_vars => All'
    <2> SUFFICES ASSUME Inv, All, [Next]_vars, NEW r \in Requests PROVE Decided(r)'
      OBVIOUS
    <2>1. Decided(r)
      OBVIOUS
    <2>2. CASE Idles
      <3>1. Closing(r)' = Closing(r)
        BY <2>2 DEF Idles, Closing
      <3> QED BY <2>1, <2>2, <3>1, StillDecided DEF Idles
    <2>3. CASE \E c \in Calls : Executes(c)
      BY <2>1, <2>3, NowDecided, ElsewhereDecided
    <2> QED BY <2>2, <2>3, OnlyExecutionActs
  <1>3. All => OneDecisionPerRequest
    BY DecidedParts
  <1> QED BY <1>1, <1>2, <1>3, MutationInvariance, PTL DEF Spec

===============================================================================

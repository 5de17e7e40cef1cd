------------------------------ MODULE RefundRaces -------------------------------
(***************************************************************************)
(* RefundExecution with a memory of two races that nothing in the desk     *)
(* prevents:                                                               *)
(*   - a job expires under a handler that goes on, and another handler     *)
(*     takes the request up beside it;                                     *)
(*   - a scan that covers a request is under way while a call of that      *)
(*     request is still on its way to Stripe, because recovery diverts a   *)
(*     request without asking how long ago its call began, and the scan    *)
(*     begins without asking whether it has been answered.                 *)
(* What follows from either is shown by the runs stale_handler and         *)
(* late_call.  The properties here say that nothing else does the same,    *)
(* and that neither race reaches beyond the request it happened to.        *)
(*                                                                         *)
(* No guard reads the memory: it is a history variable, and a behaviour of *)
(* RaceSpec is a behaviour of Spec.                                        *)
(***************************************************************************)
EXTENDS RefundExecution

VARIABLE raced   \* the requests that were ever in one of the races

raceVars == <<vars, raced>>

(* Two handlers work on the request at once.                                 *)
RunTwice(r) ==
  \E g, h \in Handlers :
    /\ g # h
    /\ hand[g].step # "idle" /\ hand[g].req = r
    /\ hand[h].step # "idle" /\ hand[h].req = r

(* The commit of the scan may decide about the request before its call lands.*)
Overtaken(r) == scan.on /\ r \in scan.covers /\ InFlight(r)

Races(r) == RunTwice(r) \/ Overtaken(r)

RaceInit == Init /\ raced = {}

RaceNext == Next /\ raced' = raced \cup {r \in Requests : Races(r)'}

RaceSpec == RaceInit /\ [][RaceNext]_raceVars

-------------------------------------------------------------------------------
Unraced == Requests \ raced

(* As long as a call may still reach Stripe, its request holds the guard and *)
(* says that an effect is possible or identified, also after a crash, a lost *)
(* answer, a deauthorization or an external refund, and however many other   *)
(* requests were raced: only a race of its own takes the guard off a call.   *)
CallHoldsGuardUnlessRaced == \A r \in Unraced : CallIsGuarded(r)

(* A request that ended stale or failed has no refund alive at Stripe and    *)
(* none can still arrive, unless it was raced.                               *)
AbsenceCertainUnlessRaced == \A r \in Unraced : AbsenceHolds(r)

(* A payment never has two refunds of the desk under way: the second request *)
(* is not even accepted before the fate of the first is known, however its   *)
(* call, answer, events and scan are delayed.  The exception is a request    *)
(* that was raced: the scan that overtakes its call may prove an absence, and*)
(* the guard is then released with the call still on its way.                *)
OneUnderWayUnlessRaced ==
  \A q, r \in Unraced :
    PaymentOf[q] = PaymentOf[r] /\ UnderWay(q) /\ UnderWay(r) => q = r

(* Only a raced request can keep the checkpoint of its installation from     *)
(* moving on (UNIQUE_REFUND_CANDIDATE_COMPARE_AND_SET_FAILED): whatever else *)
(* happened to a request since the scan began, the compare-and-sets of the   *)
(* commit find it as they expect it.  A raced one can: an ambiguous answer   *)
(* that is recorded late leaves it in reconciliation with a proven absence,  *)
(* and a scan that then lists its refund cannot commit before the webhook of *)
(* the refund arrives.                                                       *)
CheckpointOpenUnlessRaced ==
  scan.on => \A r \in Unraced : CandidatePasses(r)
===============================================================================

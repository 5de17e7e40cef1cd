------------------------------ MODULE MCPayment -------------------------------
(* Instances of RefundExecution, and of the windows of its scan, in one run.  *)
(* In the mode "payment", two requests and a refund from outside compete for  *)
(* a payment in one job slot; in the mode "handlers", two handlers work on    *)
(* one request after its job expired under the first; in the modes "pages"    *)
(* and "scans" the windows are explored for a list of several pages and for   *)
(* two scans at a time.                                                       *)
EXTENDS MCRefundExecution, RefundRaces, ScanWindow, TLC

CONSTANTS h1, h2, w1, w2

VARIABLE mode
modeVars == <<mode, raceVars, scanVars>>

MCInit == RaceInit /\ ScanInit /\ mode \in {"payment", "handlers", "pages", "scans"}

Succeeds(r) == stripe'[r] = <<"succeeded">>

(* While there is a refund from outside, the installation is not removed and  *)
(* no refund of the desk succeeds; one at most succeeds without it.  The scan *)
(* window reaches back to every execution.                                    *)
TwoRequestsOneSlot ==
    /\ \A g, h \in Handlers : g = h \/ hand'[g] = Idle \/ hand'[h] = Idle
    /\ \A h \in Handlers : ~hand'[h].zombie
    /\ \A r \in Requests : Len(row'[r].attempts) <= 1
    /\ \A q, r \in Requests : q = r \/ ~Succeeds(q) \/ ~Succeeds(r)
    /\ external' = {} \/ (active' /\ \A r \in Requests : ~Succeeds(r))
    /\ aged' = {}

(* The installation is not removed, the refund stays pending, and the scan    *)
(* window moves past an execution only while no handler has lost its job.     *)
OneRequestTwoSlots ==
    /\ \A q, r \in Requests : q = r \/ row'[q] = AbsentRow \/ row'[r] = AbsentRow
    /\ \A r \in Requests : ~Succeeds(r)
    /\ external' = {} /\ active'
    /\ aged' = {} \/ \A h \in Handlers : ~hand'[h].zombie

RequestsAndSlots == Permutations({r1, r2}) \cup Permutations({h1, h2})

SeveralPages == window'[w2].step = "idle"

TwoScans == born'[2] = None /\ failures' = 0

MCNext ==
    /\ UNCHANGED mode
    /\ \/ /\ mode \in {"payment", "handlers"} /\ RaceNext /\ UNCHANGED scanVars
          /\ IF mode = "payment" THEN TwoRequestsOneSlot ELSE OneRequestTwoSlots
       \/ /\ mode \in {"pages", "scans"} /\ ScanNext /\ UNCHANGED raceVars
          /\ IF mode = "pages" THEN SeveralPages ELSE TwoScans

MCSpec == MCInit /\ [][MCNext]_modeVars
===============================================================================

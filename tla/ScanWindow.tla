------------------------------ MODULE ScanWindow ------------------------------
(* The windows of the reconciliation scan of one installation: which refunds  *)
(* of the account a scan lists, and what its checkpoint then claims to have   *)
(* seen. What an observed refund does to the desk is in RefundExecution.      *)
(*                                                                            *)
(* Scans run on the clock of the worker and refunds are stamped, in whole     *)
(* seconds, by the clock of Stripe; a refund may be listed only some time     *)
(* after it was created.                                                      *)
EXTENDS Integers, FiniteSets

CONSTANTS
    MaxRefunds,    \* bound: refunds of the account, numbered in id order
    Scans,         \* slots for the scan jobs under way
    Second,        \* ticks of the clocks in a second
    Overlap,       \* OVERLAP_MILLISECONDS, in ticks
    Delay,         \* how long a refund may be missing in lists
    MaxSkew,       \* how far the worker's clock may be from Stripe's
    PageSize,      \* refunds in a page of the list
    InstalledAt,   \* installedAt, by the worker's clock
    MaxStripeTime,       \* bound: the last instant
    MaxFailures,   \* bound: scans that fail or crash
    None

ASSUME ScanAssumption ==
    /\ {MaxRefunds, Overlap, Delay, MaxSkew, InstalledAt, MaxStripeTime, MaxFailures} \subseteq Nat
    /\ {Second, PageSize} \subseteq Nat \ {0}
    /\ Delay + MaxSkew <= Overlap
    /\ None \notin Int

VARIABLES
    stripeTime,  \* Stripe's clock
    clock,       \* the worker's clock
    born,        \* per refund: when it was created, or None
    visible,      \* the refunds that lists show
    observed,    \* the refunds some scan passed to observeRefund
    committed,   \* committed_through of the checkpoint, or None
    window,        \* per slot: step, windowEnd, previous, windowStart, cursor, page, more
    failures

scanVars == <<stripeTime, clock, born, visible, observed, committed, window, failures>>

Refunds == 1..MaxRefunds
NoWindow == [step |-> "idle", windowEnd |-> 0, previous |-> None, windowStart |-> 0,
           cursor |-> None, page |-> {}, more |-> TRUE]

Least(a, b) == IF a < b THEN a ELSE b

stripeTimestamp(t) == IF t > 0 THEN t \div Second ELSE 0

IsRefund(n) == born[n] # None
Created(n) == born[n] \div Second

(* Lists are ordered from the newest refund to the oldest.                    *)
Older(m, n) == Created(m) < Created(n) \/ (Created(m) = Created(n) /\ m < n)

ScanInit ==
    /\ stripeTime = InstalledAt /\ clock = InstalledAt
    /\ born = [n \in Refunds |-> None] /\ visible = {} /\ observed = {}
    /\ committed = None
    /\ window = [p \in Scans |-> NoWindow]
    /\ failures = 0

-------------------------------------------------------------------------------
(* Stripe, and the clocks.                                                    *)

RefundIsCreated(n) ==
    /\ ~IsRefund(n)
    /\ born' = [born EXCEPT ![n] = stripeTime]
    /\ UNCHANGED <<stripeTime, clock, visible, observed, committed, window, failures>>

RefundIsListed(n) ==
    /\ IsRefund(n) /\ n \notin visible
    /\ visible' = visible \cup {n}
    /\ UNCHANGED <<stripeTime, clock, born, observed, committed, window, failures>>

TimePasses ==
    /\ stripeTime < MaxStripeTime
    /\ \A n \in Refunds : IsRefund(n) /\ n \notin visible => stripeTime < born[n] + Delay
    /\ stripeTime' = stripeTime + 1
    /\ clock' \in (stripeTime' - MaxSkew)..(stripeTime' + MaxSkew) /\ clock' >= 0
    /\ UNCHANGED <<born, visible, observed, committed, window, failures>>

-------------------------------------------------------------------------------
(* The scan.                                                                  *)

ScanAt(p, step) == window[p].step = step

(* handleReconciliationScanJob takes the end of the window before anything    *)
(* is read.                                                                   *)
beginScan(p) ==
    /\ ScanAt(p, "idle")
    /\ window' = [window EXCEPT ![p].step = "load", ![p].windowEnd = clock]
    /\ UNCHANGED <<stripeTime, clock, born, visible, observed, committed, failures>>

(* Mutant: the window begins where the last one ended.                        *)
WindowStart_noOverlap(previous, end) == IF previous = None THEN Least(InstalledAt, end) ELSE previous

WindowStart(previous, end) ==
    (IF previous = None THEN Least(InstalledAt, end) ELSE previous) - Overlap

(* The checkpoint is loaded; one that is ahead of the clock is cut back.      *)
loadCheckpoint(p) ==
    LET end == window[p].windowEnd
        previous == IF committed = None THEN None ELSE Least(committed, end)
    IN
    /\ ScanAt(p, "load")
    /\ window' = [window EXCEPT ![p].step = "list", ![p].previous = previous,
                            ![p].windowStart = WindowStart(previous, end)]
    /\ UNCHANGED <<stripeTime, clock, born, visible, observed, committed, failures>>

(* Mutant: the window is open at its start, so that a refund of its first     *)
(* second is left out.                                                        *)
InWindow_open(p, n) ==
    /\ Created(n) > stripeTimestamp(window[p].windowStart)
    /\ Created(n) <= stripeTimestamp(window[p].windowEnd)

InWindow(p, n) ==
    /\ Created(n) >= stripeTimestamp(window[p].windowStart)
    /\ Created(n) <= stripeTimestamp(window[p].windowEnd)

(* What is left of the list after the cursor.                                 *)
Rest(p) == {n \in visible : InWindow(p, n) /\ (window[p].cursor # None => Older(n, window[p].cursor))}

IsPage(p, page) ==
    /\ page \subseteq Rest(p)
    /\ Cardinality(page) <= PageSize
    /\ Cardinality(page) = PageSize \/ page = Rest(p)
    /\ \A n \in page : \A m \in Rest(p) \ page : Older(m, n)

(* The next page, or the end of the list.                                     *)
AfterPage(more) == IF more THEN "list" ELSE "commit"

listRefunds(p) ==
    /\ ScanAt(p, "list")
    /\ \E page \in SUBSET Rest(p) :
        /\ IsPage(p, page)
        /\ window' = [window EXCEPT ![p].step = IF page = {} THEN "commit" ELSE "observe",
                                ![p].page = page, ![p].more = (page # Rest(p))]
    /\ UNCHANGED <<stripeTime, clock, born, visible, observed, committed, failures>>

(* The refunds of the page are observed, each in a transaction of its own,    *)
(* and the last one is the cursor of the next page.                           *)
observeRefund(p, n) ==
    /\ ScanAt(p, "observe") /\ n \in window[p].page
    /\ \A m \in window[p].page : ~Older(n, m)
    /\ observed' = observed \cup {n}
    /\ window' = [window EXCEPT ![p].page = @ \ {n},
                            ![p].step = IF window[p].page = {n} THEN AfterPage(window[p].more) ELSE @,
                            ![p].cursor = IF window[p].page = {n} THEN n ELSE @]
    /\ UNCHANGED <<stripeTime, clock, born, visible, committed, failures>>

(* The checkpoint is the one that was loaded, and the table's check wants the *)
(* end of the window after it.                                                *)
CanCommit(p) ==
    /\ committed = window[p].previous
    /\ window[p].windowEnd > (IF committed = None THEN window[p].windowStart ELSE committed)

commitWindow(p) ==
    /\ ScanAt(p, "commit") /\ CanCommit(p)
    /\ committed' = window[p].windowEnd
    /\ window' = [window EXCEPT ![p] = NoWindow]
    /\ UNCHANGED <<stripeTime, clock, born, visible, observed, failures>>

(* A job that cannot commit ends, and pg-boss retries it or the next one      *)
(* comes.                                                                     *)
commitFails(p) ==
    /\ ScanAt(p, "commit") /\ ~CanCommit(p)
    /\ window' = [window EXCEPT ![p] = NoWindow]
    /\ UNCHANGED <<stripeTime, clock, born, visible, observed, committed, failures>>

(* A call fails, the list has more pages than a scan may read, the process    *)
(* crashes, or pg-boss lets the job expire.                                   *)
windowFails(p) ==
    /\ ~ScanAt(p, "idle") /\ failures < MaxFailures
    /\ window' = [window EXCEPT ![p] = NoWindow]
    /\ failures' = failures + 1
    /\ UNCHANGED <<stripeTime, clock, born, visible, observed, committed>>

WindowStep(p) ==
    \/ beginScan(p) \/ loadCheckpoint(p) \/ listRefunds(p)
    \/ commitWindow(p) \/ commitFails(p)
    \/ \E n \in Refunds : observeRefund(p, n)

ScanNext ==
    \/ \E n \in Refunds : RefundIsCreated(n) \/ RefundIsListed(n)
    \/ TimePasses
    \/ \E p \in Scans : WindowStep(p) \/ windowFails(p)

(* The schedule starts a scan every fifteen minutes and its calls return.     *)
WindowFairness ==
    /\ WF_scanVars(TimePasses)
    /\ \A n \in Refunds : WF_scanVars(RefundIsListed(n))
    /\ WF_scanVars(\E p \in Scans : WindowStep(p))

ScanSpec == ScanInit /\ [][ScanNext]_scanVars /\ WindowFairness

-------------------------------------------------------------------------------
ScanTypeOK ==
    /\ stripeTime \in Nat /\ clock \in Nat /\ failures \in Nat
    /\ born \in [Refunds -> Nat \cup {None}]
    /\ visible \subseteq Refunds /\ observed \subseteq Refunds
    /\ committed \in Nat \cup {None}
    /\ window \in [Scans -> [step : {"idle", "load", "list", "observe", "commit"}, windowEnd : Nat,
                           previous : Nat \cup {None}, windowStart : Int,
                           cursor : Refunds \cup {None}, page : SUBSET Refunds, more : BOOLEAN]]

(* No blind spot: a refund that the next window will not list again has been  *)
(* observed, although it may have been listed late, between two pages or in   *)
(* the last second of a window, the clocks differ and scans overlap, fail and *)
(* are repeated (reconciliation-scanner.ts scanInstallation).                 *)
NoBlindSpot ==
    committed # None =>
        \A n \in Refunds :
            IsRefund(n) /\ Created(n) < stripeTimestamp(committed - Overlap) => n \in observed

(* Every refund of the account comes to the desk's notice without a webhook,  *)
(* when scans at last stop failing (handleReconciliationScanJob).             *)
RefundIsObserved == \A n \in Refunds : IsRefund(n) ~> n \in observed
===============================================================================

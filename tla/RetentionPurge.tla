---------------------------- MODULE RetentionPurge ----------------------------
(* The hourly run that deletes the tenants whose retention has ended: its     *)
(* configuration, the check of the role it runs under, the session lock, the  *)
(* batches it lists, the guarded purge of each candidate and what it reports. *)
(* A second run may be started by hand while the timer's is under way. The    *)
(* tenants are numbered in the order of pending_delete_at; a tenant that is   *)
(* installed again leaves the instance, for its next date is a new one.       *)
EXTENDS Naturals, Sequences, FiniteSets

CONSTANTS
    MaxDue,        \* bound: the tenants that have been removed
    PurgeRuns,     \* slots for the runs under way
    NoRun,         \* the lock is free
    Settings,      \* bound: the environments a run is started with
    Unset,         \* a variable that is not set
    DefaultBatch,  \* DEFAULT_BATCH_SIZE
    MaximumBatch,  \* MAXIMUM_BATCH_SIZE
    MaxBatches,    \* MAXIMUM_BATCHES_PER_RUN
    MaxTroubles,   \* bound: the holds and jobs that a tenant still meets
    MaxPurgeFaults \* bound: crashes, failed queries and changed grants

Tenants == 1..MaxDue
Setting == [foreign: BOOLEAN, scope: {"test_sandbox", "live"}, batch: Nat \cup {Unset}]
Capability == {"list", "purge", "raw"}

ASSUME PurgeAssumption ==
    /\ MaxDue \in Nat /\ MaxTroubles \in Nat /\ MaxPurgeFaults \in Nat
    /\ DefaultBatch \in Nat \ {0} /\ MaximumBatch \in Nat /\ MaxBatches \in Nat \ {0}
    /\ DefaultBatch <= MaximumBatch
    /\ NoRun \notin PurgeRuns /\ Unset \notin Nat
    /\ \A s \in Settings : s \in Setting

VARIABLES
    tenant,   \* per tenant: its row, a blocker that a listing sees, an active job, its troubles
    lock,     \* the run whose session holds the advisory lock
    grants,   \* what the maintenance role may execute
    run,      \* per slot: the run, or the last one
    written,  \* per slot: the certificates its run has written
    dueThen,   \* per slot: the tenants that were due at its last listing
    mishaps   \* how many of the faults have happened

purgeVars == <<tenant, lock, grants, run, written, dueThen, mishaps>>

NoPurge == [step |-> "idle", size |-> 1, batch |-> 0, todo |-> <<>>, full |-> FALSE,
            selected |-> 0, purged |-> 0, blocked |-> 0, batchBlocked |-> 0]

PurgeInit ==
    /\ tenant = [t \in Tenants |-> [row |-> "waiting", held |-> FALSE, job |-> FALSE, troubles |-> 0]]
    /\ lock = NoRun /\ grants = {"list", "purge"} /\ mishaps = 0
    /\ run = [x \in PurgeRuns |-> NoPurge] /\ written = [x \in PurgeRuns |-> {}]
    /\ dueThen = [x \in PurgeRuns |-> {}]

-------------------------------------------------------------------------------
(* The start of a run.                                                        *)

(* A variable of another authority is refused, whatever the others say.       *)
assertIsolatedEnvironment(s) == ~s.foreign

parseBatchSize(s) == IF s.batch = Unset THEN DefaultBatch ELSE s.batch

loadRetentionPurgeConfig(s) ==
    /\ assertIsolatedEnvironment(s)
    /\ s.scope = "test_sandbox"
    /\ s.batch # Unset => s.batch \in 1..MaximumBatch

(* The role can list and purge, and nothing else.                             *)
assertMaintenanceCapabilities == grants = {"list", "purge"}

(* A run that is not configured or that has another authority ends here,      *)
(* without an effect.                                                         *)
verifyMaintenanceAuthority(x, s) ==
    /\ run[x].step \in {"idle", "completed", "failed"}
    /\ loadRetentionPurgeConfig(s) /\ assertMaintenanceCapabilities
    /\ run' = [run EXCEPT ![x] = [NoPurge EXCEPT !.step = "verified", !.size = parseBatchSize(s)]]
    /\ written' = [written EXCEPT ![x] = {}] /\ dueThen' = [dueThen EXCEPT ![x] = {}]
    /\ UNCHANGED <<tenant, lock, grants, mishaps>>

(* Mutant: the answer of the lock is not looked at. *)
tryLock_ignored(x) ==
    /\ run[x].step = "verified"
    /\ run' = [run EXCEPT ![x].step = "listing"]
    /\ lock' = IF lock = NoRun THEN x ELSE lock
    /\ UNCHANGED <<tenant, grants, written, dueThen, mishaps>>

(* RETENTION_PURGE_ALREADY_RUNNING when the lock is taken.                    *)
tryLock(x) ==
    /\ run[x].step = "verified"
    /\ run' = [run EXCEPT ![x].step = IF lock = NoRun THEN "listing" ELSE "failed"]
    /\ lock' = IF lock = NoRun THEN x ELSE lock
    /\ UNCHANGED <<tenant, grants, written, dueThen, mishaps>>

-------------------------------------------------------------------------------
(* A batch.                                                                   *)

IsDue(t) == tenant[t].row = "due"
IsHeld(t) == tenant[t].held

(* Mutant: the oldest come first, whatever holds them. *)
Before_byDate(t, u) == t < u

(* Those that nothing is seen to block come first, then the oldest.           *)
Before(t, u) == IF IsHeld(t) = IsHeld(u) THEN t < u ELSE IsHeld(u)

Due == {t \in Tenants : IsDue(t)}
Place(t) == Cardinality({u \in Due : Before(u, t)}) + 1

(* The due tenants in that order, up to the limit.                            *)
refunddesk_list_due_tenant_purges(limit) ==
    [i \in 1..(IF Cardinality(Due) < limit THEN Cardinality(Due) ELSE limit) |->
       LET t == CHOOSE u \in Due : Place(u) = i
       IN  [tenant |-> t, blocked |-> IsHeld(t)]]

(* A short batch, or one with a tenant that is left, is the last one.         *)
Drained(r) == ~r.full \/ r.batchBlocked > 0

(* Where a run goes once its batch is worked off; a run that is not drained   *)
(* after its last batch has failed (RETENTION_PURGE_DRAIN_LIMIT_REACHED).     *)
AfterCandidate(r) ==
    [r EXCEPT !.step = IF r.todo # <<>> THEN "purging"
                       ELSE IF Drained(r) THEN "drained"
                       ELSE IF r.batch = MaxBatches THEN "aborted" ELSE "listing"]

Listed(r, rows) ==
    AfterCandidate([r EXCEPT !.batch = @ + 1, !.selected = @ + Len(rows), !.todo = rows,
                             !.full = Len(rows) = r.size, !.batchBlocked = 0])

Blocked(r) ==
    AfterCandidate([r EXCEPT !.todo = Tail(@), !.blocked = @ + 1, !.batchBlocked = @ + 1])

Purged(r) == AfterCandidate([r EXCEPT !.todo = Tail(@), !.purged = @ + 1])

listDue(x) ==
    LET rows == refunddesk_list_due_tenant_purges(run[x].size)
    IN  /\ run[x].step = "listing" /\ "list" \in grants
        /\ run' = [run EXCEPT ![x] = Listed(@, rows)]
        /\ dueThen' = [dueThen EXCEPT ![x] = Due]
        /\ UNCHANGED <<tenant, lock, grants, written, mishaps>>

(* The guarded purge tests everything again in its transaction and also       *)
(* refuses a tenant with an active job (55000).                               *)
Purgeable(t) == IsDue(t) /\ ~IsHeld(t) /\ ~tenant[t].job

(* The purge and its certificate are one transaction; a tenant that is gone   *)
(* is answered from its certificate.                                          *)
Purge(x, t) ==
    /\ tenant' = [tenant EXCEPT ![t].row = "gone"]
    /\ written' = IF IsDue(t) THEN [written EXCEPT ![x] = @ \cup {t}] ELSE written

handleCandidate(x) ==
    LET c == Head(run[x].todo)
        t == c.tenant
    IN  /\ run[x].step = "purging"
        /\ \/ /\ c.blocked
              /\ run' = [run EXCEPT ![x] = Blocked(@)]
              /\ UNCHANGED <<tenant, written>>
           \/ /\ ~c.blocked /\ "purge" \in grants
              /\ ~Purgeable(t) /\ tenant[t].row # "gone"
              /\ run' = [run EXCEPT ![x] = Blocked(@)]
              /\ UNCHANGED <<tenant, written>>
           \/ /\ ~c.blocked /\ "purge" \in grants
              /\ Purgeable(t) \/ tenant[t].row = "gone"
              /\ run' = [run EXCEPT ![x] = Purged(@)]
              /\ Purge(x, t)
        /\ UNCHANGED <<lock, grants, dueThen, mishaps>>

(* The lock is given back whether the run is drained or was refused; only a   *)
(* drained run reports that it completed.                                     *)
unlock(x) ==
    /\ run[x].step \in {"drained", "aborted"}
    /\ run' = [run EXCEPT ![x].step = IF @ = "drained" THEN "completed" ELSE "failed"]
    /\ lock' = IF lock = x THEN NoRun ELSE lock
    /\ UNCHANGED <<tenant, grants, written, dueThen, mishaps>>

-------------------------------------------------------------------------------
(* Failures, and what changes around a run.                                   *)

(* A query that the role may not execute, or that fails in another way, ends  *)
(* the run.                                                                   *)
queryIsRefused(x) ==
    /\ \/ run[x].step = "listing" /\ "list" \notin grants
       \/ run[x].step = "purging" /\ ~Head(run[x].todo).blocked /\ "purge" \notin grants
    /\ run' = [run EXCEPT ![x].step = "aborted"]
    /\ UNCHANGED <<tenant, lock, grants, written, dueThen, mishaps>>

Fault == mishaps < MaxPurgeFaults /\ mishaps' = mishaps + 1

(* The connection is lost, with the purge under way committed or not, or the  *)
(* process dies: the session ends, and its lock with it.                      *)
sessionIsLost(x) ==
    /\ Fault /\ run[x].step \in {"verified", "listing", "purging", "drained", "aborted"}
    /\ run' = [run EXCEPT ![x].step = "failed"]
    /\ lock' = IF lock = x THEN NoRun ELSE lock
    /\ \/ UNCHANGED <<tenant, written>>
       \/ /\ run[x].step = "purging" /\ "purge" \in grants
          /\ LET c == Head(run[x].todo)
             IN ~c.blocked /\ Purgeable(c.tenant) /\ Purge(x, c.tenant)
    /\ UNCHANGED <<grants, dueThen>>

(* A release grants the role too little or too much, and a later one repairs. *)
grantsChange ==
    /\ grants = {"list", "purge"} /\ Fault
    /\ grants' \in {{"list"}, {"list", "purge", "raw"}}
    /\ UNCHANGED <<tenant, lock, run, written, dueThen>>

grantsAreRepaired ==
    /\ grants # {"list", "purge"} /\ grants' = {"list", "purge"}
    /\ UNCHANGED <<tenant, lock, run, written, dueThen, mishaps>>

tenantChanges(t, to) ==
    /\ IsDue(t) /\ tenant' = [tenant EXCEPT ![t] = to]
    /\ UNCHANGED <<lock, grants, run, written, dueThen, mishaps>>

(* pending_delete_at passes, in the order of the dates.                       *)
datePasses(t) ==
    /\ tenant[t].row = "waiting" /\ \A u \in Tenants : u < t => tenant[u].row # "waiting"
    /\ tenant' = [tenant EXCEPT ![t].row = "due"]
    /\ UNCHANGED <<lock, grants, run, written, dueThen, mishaps>>

Meets(t) == [tenant[t] EXCEPT !.troubles = @ + 1]

(* A legal hold, or a refund, webhook or checkpoint that is not settled.      *)
holdStarts(t) == tenant[t].troubles < MaxTroubles /\ ~IsHeld(t) /\ tenantChanges(t, [Meets(t) EXCEPT !.held = TRUE])
holdEnds(t) == IsHeld(t) /\ tenantChanges(t, [tenant[t] EXCEPT !.held = FALSE])

jobStarts(t) ==
    tenant[t].troubles < MaxTroubles /\ ~tenant[t].job /\ tenantChanges(t, [Meets(t) EXCEPT !.job = TRUE])
jobEnds(t) == tenant[t].job /\ tenantChanges(t, [tenant[t] EXCEPT !.job = FALSE])

reinstalled(t) == tenantChanges(t, [row |-> "active", held |-> FALSE, job |-> FALSE, troubles |-> 0])

PurgeStep(x) == tryLock(x) \/ listDue(x) \/ handleCandidate(x) \/ queryIsRefused(x) \/ unlock(x)
PurgeStarts == \E x \in PurgeRuns, s \in Settings : verifyMaintenanceAuthority(x, s)

PurgeNext ==
    \/ PurgeStarts
    \/ \E x \in PurgeRuns : PurgeStep(x) \/ sessionIsLost(x)
    \/ grantsChange \/ grantsAreRepaired
    \/ \E t \in Tenants : datePasses(t)
    \/ \E t \in Tenants : holdStarts(t) \/ holdEnds(t) \/ jobStarts(t) \/ jobEnds(t) \/ reinstalled(t)

(* The timer starts a run every hour, a run comes to its end, a job of a      *)
(* tenant that is removed ends, and the grants are repaired.                  *)
PurgeFairness ==
    /\ WF_purgeVars(PurgeStarts) /\ WF_purgeVars(grantsAreRepaired)
    /\ \A x \in PurgeRuns : WF_purgeVars(PurgeStep(x))
    /\ \A t \in Tenants : WF_purgeVars(jobEnds(t))

PurgeSpec == PurgeInit /\ [][PurgeNext]_purgeVars /\ PurgeFairness

-------------------------------------------------------------------------------
(* Properties.                                                                *)

PurgeTypeOK ==
    /\ tenant \in [Tenants -> [row: {"waiting", "due", "gone", "active"}, held: BOOLEAN, job: BOOLEAN,
                               troubles: 0..MaxTroubles]]
    /\ lock \in PurgeRuns \cup {NoRun} /\ grants \subseteq Capability
    /\ \A x \in PurgeRuns :
         /\ run[x].step \in {"idle", "verified", "listing", "purging", "drained", "aborted",
                             "completed", "failed"}
         /\ run[x].batch \in 0..MaxBatches /\ run[x].size \in 1..MaximumBatch
         /\ Len(run[x].todo) <= run[x].size
         /\ written[x] \subseteq Tenants /\ dueThen[x] \subseteq Tenants
    /\ mishaps \in 0..MaxPurgeFaults

(* What a completed run reports is what it did: every candidate it selected   *)
(* was purged or left, and it wrote one certificate for each that it counts   *)
(* as purged, whatever another run did meanwhile (runRetentionPurge).         *)
CountsAreTrue ==
    \A x \in PurgeRuns : run[x].step = "completed" =>
        /\ run[x].selected = run[x].purged + run[x].blocked
        /\ run[x].purged = Cardinality(written[x])

(* A run that completed and left nobody has emptied the table of what was due *)
(* when it last looked (the drained flag of runRetentionPurge).               *)
CompletedRunDrained ==
    \A x \in PurgeRuns : run[x].step = "completed" /\ run[x].blocked = 0 =>
        \A t \in dueThen[x] : ~IsDue(t)

(* What the run's completion event says.                                      *)
ReportIsTrue == CountsAreTrue /\ CompletedRunDrained

(* A tenant whose date has passed and that nothing holds is deleted, whatever *)
(* number of older tenants are held for ever and however small the batch (the *)
(* order of refunddesk_list_due_tenant_purges).                               *)
DueTenantIsPurged ==
    \A t \in Tenants : IsDue(t) /\ ~IsHeld(t) ~> ~IsDue(t) \/ IsHeld(t)
===============================================================================

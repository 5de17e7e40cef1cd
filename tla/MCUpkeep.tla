------------------------------- MODULE MCUpkeep -------------------------------
(* An instance for TLC of what runs on its own beside the desk: the inbox of  *)
(* the account's events, the scans for refunds that nobody reported, and the  *)
(* purge of removed tenants. A behaviour is about one part and leaves the     *)
(* others as they are.                                                        *)
EXTENDS MCInstallationLifecycle, ScanWindow, RetentionPurge

VARIABLE part
upkeepVars == <<part, vars, scanVars, purgeVars>>

Environment(foreign, scope, batch) == [foreign |-> foreign, scope |-> scope, batch |-> batch]

(* The timer's environment, one batch of another size, and three refused.     *)
MCSettings ==
    {Environment(FALSE, "test_sandbox", Unset), Environment(FALSE, "test_sandbox", 1),
     Environment(FALSE, "test_sandbox", 0), Environment(TRUE, "test_sandbox", Unset),
     Environment(FALSE, "live", Unset)}

MCInit ==
    /\ part \in {"inbox", "scans", "purge"}
    /\ Init /\ ScanInit /\ PurgeInit

MCNext ==
    /\ UNCHANGED part
    /\ \/ /\ part = "inbox" /\ Next
          /\ UNCHANGED <<scanVars, purgeVars>>
       \/ /\ part = "scans" /\ ScanNext
          /\ UNCHANGED <<vars, purgeVars>>
       \/ /\ part = "purge" /\ PurgeNext
          /\ UNCHANGED <<vars, scanVars>>

(* The fairness of the components, each for the behaviours about it.          *)
InboxFairness ==
    /\ SF_vars(part = "inbox" /\ tick) /\ SF_vars(part = "inbox" /\ runRetentionPurge)
    /\ WF_vars(part = "inbox" /\ listRecoverableWebhookJobs)
    /\ WF_vars(part = "inbox" /\ enqueueWebhooks)
    /\ \A e \in Events, t \in 1..MaxTenants :
         LET j == [ev |-> e, tenant |-> t] IN
         /\ SF_vars(part = "inbox" /\ \E h \in Handlers : takeJob(h, j))
         /\ SF_vars(part = "inbox" /\ \E h \in Handlers : JobOf(h) = j /\ handleWebhookJob(h))
    /\ \A h \in Handlers : WF_vars(part = "inbox" /\ markWebhookReceiptFailed(h))
    /\ \A d \in Deliveries : WF_vars(part = "inbox" /\ (findExisting(d) \/ resolve(d) \/ insert(d)))

ScansFairness ==
    /\ WF_scanVars(part = "scans" /\ TimePasses)
    /\ \A n \in Refunds : WF_scanVars(part = "scans" /\ RefundIsListed(n))
    /\ WF_scanVars(part = "scans" /\ \E p \in Scans : WindowStep(p))

PurgesFairness ==
    /\ WF_purgeVars(part = "purge" /\ PurgeStarts)
    /\ WF_purgeVars(part = "purge" /\ grantsAreRepaired)
    /\ \A x \in PurgeRuns : WF_purgeVars(part = "purge" /\ PurgeStep(x))
    /\ \A t \in Tenants : WF_purgeVars(part = "purge" /\ jobEnds(t))

MCSpec == MCInit /\ [][MCNext]_upkeepVars /\ InboxFairness /\ ScansFairness /\ PurgesFairness
===============================================================================

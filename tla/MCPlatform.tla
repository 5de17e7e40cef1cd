------------------------------ MODULE MCPlatform ------------------------------
(* Instances for TLC of the platform and of the processes around it, which    *)
(* share no state with one another: the gate and the durable limiter in front *)
(* of the signed mutations, the readiness probe, the drawer of the Stripe app *)
(* that sends them, and the process of the worker. A behaviour is about one   *)
(* part and leaves the others as they are, so that a run explores the sum of  *)
(* the parts.                                                                 *)
EXTENDS EdgeAdmission, SignedRateLimit, PlatformReadiness, RefundDrawer, WorkerProcess,
        MCSignedMutations

CONSTANT Parts  \* the components this instance looks at

VARIABLE part
partVars == <<part, edgeVars, limitVars, probeVars, drawerVars, processVars, vars>>

MCInit ==
    /\ part \in Parts
    /\ EdgeInit /\ LimitInit /\ ProbeInit /\ DrawerInit /\ WorkerInit /\ Init
    /\ part # "edge" => class = "signed_api"
    /\ part # "probe" => dbReady

(* The drawer is explored once for the user who works on the requests and     *)
(* once for the one who works on the alerts.                                  *)
OnRequests == list'["alerts"].pages \in {<<>>, <<1>>} /\ mutation'.list # "alerts"
OnAlerts == list'["requests"].pages \in {<<>>, <<1>>} /\ mutation'.list # "requests" /\ scope' = scope

(* The desk is explored once without a removal of the installation, and once  *)
(* with it but without the passing of time.                                   *)
NoRemoval == active'
NothingLapses ==
    /\ \A r \in Requests : row'[r].status # "expired"
    /\ \A n \in Nonce : attest'[n] # "stale"

(* The process is explored with one thing wrong at a time outside of it.      *)
OneFault == Cardinality(faults') <= 1

MCNext ==
    /\ UNCHANGED part
    /\ \/ /\ part = "edge" /\ EdgeNext
          /\ UNCHANGED <<limitVars, probeVars, drawerVars, processVars, vars>>
       \/ /\ part = "limit" /\ LimitNext
          /\ UNCHANGED <<edgeVars, probeVars, drawerVars, processVars, vars>>
       \/ /\ part = "probe" /\ ProbeNext
          /\ UNCHANGED <<edgeVars, limitVars, drawerVars, processVars, vars>>
       \/ /\ part \in {"requests", "alerts"} /\ DrawerNext
          /\ IF part = "requests" THEN OnRequests ELSE OnAlerts
          /\ UNCHANGED <<edgeVars, limitVars, probeVars, processVars, vars>>
       \/ /\ part = "process" /\ WorkerNext /\ OneFault
          /\ UNCHANGED <<edgeVars, limitVars, probeVars, drawerVars, vars>>
       \/ /\ part \in {"desk", "removal"} /\ Next
          /\ IF part = "desk" THEN NoRemoval ELSE NothingLapses
          /\ UNCHANGED <<edgeVars, limitVars, probeVars, drawerVars, processVars>>

(* The fairness of the components, each for the behaviours about it.          *)
MCFairness ==
    /\ WF_processVars(part = "process" /\ Starting)
    /\ WF_processVars(part = "process" /\ Stopping)
    /\ \A x \in Callers : WF_processVars(part = "process" /\ CheckStep(x))
    /\ WF_processVars(part = "process" /\ respond)
    /\ WF_processVars(part = "process" /\ \E logged \in BOOLEAN : performSample(logged))
    /\ \A c \in Calls : WF_vars(part = "desk" /\ Serves(c))
    /\ \A i \in Intents : SF_vars(part = "desk" /\ \E c \in Calls : nonce[i] # 0 /\ begin(i, c))
    /\ WF_vars(part = "desk" /\ recovers)

MCSpec == MCInit /\ [][MCNext]_partVars

MCFairSpec == MCSpec /\ MCFairness
===============================================================================

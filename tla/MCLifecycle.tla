------------------------------ MODULE MCLifecycle ------------------------------
(* An instance for TLC of how an installation comes and goes and of what      *)
(* changes below it: its lifecycle, a release with its keys, and the purge    *)
(* with two runs at a time. A behaviour is about one part and leaves the      *)
(* others as they are, so that a run explores the sum of the parts.           *)
EXTENDS MCInstallationLifecycle, KeyTransition, RetentionPurge, TLC

CONSTANTS
    Parts,           \* the components this instance looks at
    k1, k2, k3, k4   \* keys

VARIABLE part
partVars == <<part, vars, keyVars, purgeVars>>

(* One family goes through its rotation, is retired, and is given a key that  *)
(* is not the one it had, that another family has or that its state does not  *)
(* call for; the others stay.                                                 *)
Keys(state, activeVersion, v1, v2) ==
    [state |-> state, active |-> activeVersion, v1 |-> v1, v2 |-> v2]
FieldKeys ==
    {Keys("legacy", "v1", k1, NoKey), Keys("staged", "v1", k1, k3), Keys("active", "v2", k1, k3),
     Keys("rollback", "v1", k1, k3), Keys("retired", "v2", NoKey, k3),
     Keys("staged", "v1", k1, k2), Keys("staged", "v1", k1, k4), Keys("legacy", "v1", k1, k3)}
MCTargets ==
    {[f \in Families |-> IF f = "field" THEN k ELSE Keys("legacy", "v1", k4, NoKey)] :
       k \in FieldKeys}

Environment(foreign, scopeName, batch) ==
    [foreign |-> foreign, scope |-> scopeName, batch |-> batch]

(* The timer's environment, and one run by hand with a batch of its own.      *)
MCSettings == {Environment(FALSE, "test_sandbox", Unset), Environment(FALSE, "test_sandbox", 1)}

MCInit ==
    /\ part \in Parts
    /\ Init /\ KeyInit /\ PurgeInit
    /\ part # "release" => host.rotation.recorded

MCNext ==
    /\ UNCHANGED part
    /\ \/ /\ part = "lifecycle" /\ Next
          /\ UNCHANGED <<keyVars, purgeVars>>
       \/ /\ part = "release" /\ KeyNext
          /\ UNCHANGED <<vars, purgeVars>>
       \/ /\ part = "purge" /\ PurgeNext
          /\ UNCHANGED <<vars, keyVars>>

MCSpec == MCInit /\ [][MCNext]_partVars

(* Web requests, and runs of the purge, are alike.                            *)
PartSymmetry == Permutations(Deliveries) \cup Permutations(PurgeRuns)
===============================================================================

---------------------------- MODULE EdgeAdmission ----------------------------
(* The in-memory gate in front of the platform's public routes, and the three *)
(* handlers that hold its leases: the signed API, the account webhook and the *)
(* audit download. The classes have buckets, maps and counters of their own   *)
(* and share only the clock, so that a behaviour is about one class.          *)
(*                                                                            *)
(* Acquire and release run to their end without an await. Between them a      *)
(* handler waits for its body, the verifier, the durable limiter or its       *)
(* transaction, while other requests, the clock and the sweep go on.          *)
(*                                                                            *)
(* The overflow bucket and the sums behind Retry-After only shape the header  *)
(* of a refusal and are left out.                                             *)
EXTENDS Gcra, FiniteSets

CONSTANTS
    Sources,          \* addresses, as parseSource scopes them
    Connections,      \* slots for the HTTP requests under way
    Capacity,         \* EDGE_SOURCE_SCOPE_CAPACITIES of the class
    Concurrency,      \* the class's leases at one time
    SourceBurst, SourceInterval,
    GlobalBurst, GlobalInterval,
    IdleTime,         \* SOURCE_IDLE_MS
    SweepInterval,    \* SWEEP_INTERVAL_MS
    BodyDeadline,     \* REQUEST_BODY_DEADLINE_MS
    MaxTime,          \* bound: the last instant of the wall clock
    MaxCharges        \* bound: charges of one source

ASSUME EdgeAssumption ==
    /\ {Capacity, Concurrency, MaxTime, MaxCharges, IdleTime, SweepInterval, BodyDeadline} \subseteq Nat
    /\ {SourceBurst, SourceInterval, GlobalBurst, GlobalInterval} \subseteq Nat \ {0}
    /\ IsFiniteSet(Connections) /\ IsFiniteSet(Sources) /\ Sources # {}

VARIABLES
    class,        \* which route the behaviour is about
    wall,         \* Date.now()
    lastClock,    \* #lastClockMs
    tracked,      \* #sources: the scopes in the map
    source,       \* per scope: activeLeases, bucket.tatMs, lastSeenMs
    globalTat,    \* #globalBuckets
    concurrency,  \* #concurrency
    lastSweep,    \* #lastSweepMs, -SweepInterval before the first sweep
    request,      \* per slot: stage, source, deadline, released
    charges,      \* history: when each source was charged
    admissions,   \* history: when a request was admitted
    admitted      \* history: the sources that were ever admitted

gate == <<lastClock, tracked, source, globalTat, concurrency, lastSweep>>
edgeVars == <<class, wall, gate, request, charges, admissions, admitted>>

Classes == {"signed_api", "account_webhook", "audit_download"}
NewSource(now) == [leases |-> 0, tat |-> 0, lastSeen |-> now]
Stages == {"idle", "body", "verify", "limit", "attest", "export", "dispatch"}
NoConnection == [stage |-> "idle", source |-> CHOOSE s \in Sources : TRUE, deadline |-> 0,
              released |-> TRUE]

EdgeInit ==
    /\ class \in Classes
    /\ wall = 0 /\ lastClock = 0 /\ globalTat = 0 /\ concurrency = 0
    /\ lastSweep = - SweepInterval
    /\ tracked = {}
    /\ source = [s \in Sources |-> NewSource(0)]
    /\ request = [r \in Connections |-> NoConnection]
    /\ charges = [s \in Sources |-> <<>>]
    /\ admissions = <<>> /\ admitted = {}

-------------------------------------------------------------------------------
(* The gate.                                                                  *)

(* #now: the clock of the gate never goes back.                               *)
EdgeNow == IF wall > lastClock THEN wall ELSE lastClock

(* Mutant: a source is forgotten while its bucket is in debt.                 *)
Evictable_inDebt(s, now) == source[s].leases = 0 /\ now - source[s].lastSeen >= IdleTime

(* #sweep: at most once per interval, over idle sources without leases whose  *)
(* bucket is full again.                                                      *)
SweepDue(now) == now - lastSweep >= SweepInterval
Evictable(s, now) ==
    /\ source[s].leases = 0
    /\ now - source[s].lastSeen >= IdleTime
    /\ source[s].tat <= now
Kept(now) == IF SweepDue(now) THEN {s \in tracked : ~Evictable(s, now)} ELSE tracked

(* A scope that is not in the map starts with an empty record.                *)
Found(s, now) == IF s \in Kept(now) THEN source[s] ELSE NewSource(now)

(* The refusals of #acquire, in the order of the code.                        *)
AtCapacity(s, now) == s \notin Kept(now) /\ Cardinality(Kept(now)) >= Capacity
SourceLimited(s, now) == ~GcraAllows(Found(s, now).tat, SourceBurst, SourceInterval, now)
SharedLimited(now) ==
    \/ ~GcraAllows(globalTat, GlobalBurst, GlobalInterval, now)
    \/ concurrency >= Concurrency

(* Every call that gets past the source and the clock checks sweeps.          *)
Sweep(now) ==
    /\ lastClock' = now
    /\ lastSweep' = IF SweepDue(now) THEN now ELSE lastSweep

Charged(s, now) == [Found(s, now) EXCEPT !.tat = GcraNext(@, SourceInterval, now)]

(* Refused without a charge: the map is full or the source over its rate.     *)
refuseSource(s) ==
    LET now == EdgeNow IN
    /\ AtCapacity(s, now) \/ SourceLimited(s, now)
    /\ Sweep(now)
    /\ tracked' = Kept(now)
    /\ UNCHANGED <<class, wall, source, globalTat, concurrency, request, charges, admissions, admitted>>

(* Refused by what all sources share: a tracked source has been charged       *)
(* before, a new one stays out of the map.                                    *)
refuseShared(s) ==
    LET now == EdgeNow IN
    /\ ~AtCapacity(s, now) /\ ~SourceLimited(s, now) /\ SharedLimited(now)
    /\ Len(charges[s]) < MaxCharges
    /\ Sweep(now)
    /\ tracked' = Kept(now)
    /\ IF s \in Kept(now)
       THEN /\ source' = [source EXCEPT ![s] = Charged(s, now)]
            /\ charges' = [charges EXCEPT ![s] = Append(@, now)]
       ELSE UNCHANGED <<source, charges>>
    /\ UNCHANGED <<class, wall, globalTat, concurrency, request, admissions, admitted>>

(* Admitted: the buckets are charged and the lease is counted, and the        *)
(* handler goes on to its first await.                                        *)
FirstStage == IF class = "audit_download" THEN "export" ELSE "body"

acquire(r, s) ==
    LET now == EdgeNow IN
    /\ request[r].stage = "idle"
    /\ ~AtCapacity(s, now) /\ ~SourceLimited(s, now) /\ ~SharedLimited(now)
    /\ Len(charges[s]) < MaxCharges
    /\ Sweep(now)
    /\ tracked' = Kept(now) \cup {s}
    /\ source' = [source EXCEPT ![s] = [Charged(s, now) EXCEPT !.leases = @ + 1, !.lastSeen = now]]
    /\ globalTat' = GcraNext(globalTat, GlobalInterval, now)
    /\ concurrency' = concurrency + 1
    /\ request' = [request EXCEPT ![r] = [stage |-> FirstStage, source |-> s,
                                          deadline |-> wall + BodyDeadline, released |-> FALSE]]
    /\ charges' = [charges EXCEPT ![s] = Append(@, now)]
    /\ admissions' = Append(admissions, now)
    /\ admitted' = admitted \cup {s}
    /\ UNCHANGED <<class, wall>>

(* Math.max(0, n - 1).                                                       *)
Less(n) == IF n > 0 THEN n - 1 ELSE 0

(* Mutant: a second call counts again.                                        *)
release_again(r) ==
    /\ source' = [source EXCEPT ![request[r].source].leases = Less(@)]
    /\ concurrency' = Less(concurrency)

(* lease.release: only the first call counts.                                 *)
release(r) ==
    IF request[r].released THEN UNCHANGED <<source, concurrency>>
    ELSE /\ source' = [source EXCEPT ![request[r].source].leases = Less(@)]
         /\ concurrency' = Less(concurrency)

-------------------------------------------------------------------------------
(* The handlers.                                                              *)

Waiting(r, stage) == request[r].stage = stage
Idle(r) == request' = [request EXCEPT ![r] = NoConnection]
GateOtherwise ==
    UNCHANGED <<class, wall, lastClock, tracked, globalTat, lastSweep, charges, admissions, admitted>>

(* The body is complete before the deadline. The signed API asks the verifier *)
(* next; the webhook checks its signature at once and gives the lease back.   *)
bodyComplete(r) ==
    /\ Waiting(r, "body") /\ wall < request[r].deadline
    /\ IF class = "signed_api"
       THEN /\ request' = [request EXCEPT ![r].stage = "verify"]
            /\ UNCHANGED <<source, concurrency>>
       ELSE /\ request' = [request EXCEPT ![r].stage = "dispatch", ![r].released = TRUE]
            /\ release(r)
    /\ GateOtherwise

(* handlePilotRoute: verified, then within the account's durable limit, then, *)
(* for an approval, attested; then the lease is given back and the service    *)
(* dispatches the operation.                                                  *)
verified(r) ==
    /\ Waiting(r, "verify")
    /\ request' = [request EXCEPT ![r].stage = "limit"]
    /\ UNCHANGED <<source, concurrency>> /\ GateOtherwise
approvalWithinLimit(r) ==
    /\ Waiting(r, "limit")
    /\ request' = [request EXCEPT ![r].stage = "attest"]
    /\ UNCHANGED <<source, concurrency>> /\ GateOtherwise
dispatch(r) ==
    /\ Waiting(r, "limit") \/ Waiting(r, "attest")
    /\ request' = [request EXCEPT ![r].stage = "dispatch", ![r].released = TRUE]
    /\ release(r) /\ GateOtherwise

(* Every other way out, with or without an error, runs the finally block: a   *)
(* refused or late body, an invalid signature, a verifier or limiter that     *)
(* does not answer, the end of the export and of the dispatch.                *)
requestEnds(r) ==
    /\ request[r].stage # "idle"
    /\ Idle(r) /\ release(r) /\ GateOtherwise

-------------------------------------------------------------------------------
(* The wall clock passes, and may be set back or forward.                     *)
ClockMoves ==
    /\ wall' \in 0..MaxTime /\ wall' # wall
    /\ UNCHANGED <<class, gate, request, charges, admissions, admitted>>

Handler(r) == bodyComplete(r) \/ verified(r) \/ approvalWithinLimit(r) \/ dispatch(r) \/ requestEnds(r)

EdgeNext ==
    \/ \E s \in Sources : refuseSource(s) \/ refuseShared(s) \/ \E r \in Connections : acquire(r, s)
    \/ \E r \in Connections : Handler(r)
    \/ ClockMoves

EdgeSpec == EdgeInit /\ [][EdgeNext]_edgeVars

-------------------------------------------------------------------------------
Holders == {r \in Connections : ~request[r].released}
HoldersOf(s) == {r \in Holders : request[r].source = s}

EdgeTypeOK ==
    /\ class \in Classes /\ wall \in Nat /\ lastClock \in Nat /\ lastSweep \in Int
    /\ tracked \subseteq Sources
    /\ source \in [Sources -> [leases : Nat, tat : Nat, lastSeen : Nat]]
    /\ globalTat \in Nat /\ concurrency \in Nat
    /\ request \in [Connections -> [stage : Stages, source : Sources, deadline : Nat, released : BOOLEAN]]
    /\ charges \in [Sources -> Seq(Nat)] /\ admissions \in Seq(Nat)

(* The counters of the gate are the leases that handlers really hold, in all  *)
(* and per source, though a handler may give its lease back early and again   *)
(* in its finally block and though the map is swept meanwhile; they stay      *)
(* within the class's limit (edge-admission.ts #acquire, release, #sweep).    *)
LeasesCounted ==
    /\ concurrency = Cardinality(Holders) /\ concurrency <= Concurrency
    /\ \A s \in tracked : source[s].leases = Cardinality(HoldersOf(s))
    /\ \A r \in Holders : request[r].source \in tracked

(* The map stays within its capacity and holds no source that was never       *)
(* admitted: refused address churn cannot fill it (edge-admission.ts:451-490).*)
ScopesBounded ==
    /\ Cardinality(tracked) <= Capacity
    /\ tracked \subseteq admitted

(* What the gate believes is so: its counters and its map.                    *)
GateAccounts == LeasesCounted /\ ScopesBounded

(* No source is charged, and the class admits nothing, faster than its burst  *)
(* and rate allow, although idle sources are forgotten and the wall clock is  *)
(* set back (previewGcra, #now, #sweep).                                      *)
EdgeRateKept ==
    /\ \A s \in Sources : WithinRate(charges[s], SourceBurst, SourceInterval)
    /\ WithinRate(admissions, GlobalBurst, GlobalInterval)
===============================================================================

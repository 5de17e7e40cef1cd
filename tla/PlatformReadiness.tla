-------------------------- MODULE PlatformReadiness --------------------------
(* The readiness probe of the platform: one query of the database, shared by  *)
(* all callers that wait at the same time, and its answer kept for a while,   *)
(* longer when it is good than when it is bad.                                *)
EXTENDS Integers

CONSTANTS
    Probes,        \* callers of check()
    ReadyCache,    \* readyCacheMilliseconds
    NotReadyCache, \* notReadyCacheMilliseconds
    QueryTimeout,  \* connection and query timeouts of the pool
    MaxSetBack,    \* how far Date.now() may be behind the time that passed
    MaxReal        \* bound: the last instant

ASSUME ProbeAssumption ==
    /\ {ReadyCache, NotReadyCache} \subseteq Nat \ {0}
    /\ {QueryTimeout, MaxSetBack, MaxReal} \subseteq Nat

VARIABLES
    real,      \* the time that passed
    now,       \* Date.now()
    dbReady,   \* what the query would find
    lastReady, \* when it was last true
    cached,    \* ready and expiresAt
    flight,    \* the query under way: when it was sent, and its row
    waiting,   \* the callers that wait for it
    answer     \* history: the last answer, and how long ago the database was ready

probeVars == <<real, now, dbReady, lastReady, cached, flight, waiting, answer>>

NoQuery == [on |-> FALSE, since |-> 0, row |-> "none"]

ProbeInit ==
    /\ real = 0 /\ now = 0 /\ dbReady \in BOOLEAN /\ lastReady = 0
    /\ cached = [ready |-> FALSE, expiresAt |-> 0]
    /\ flight = NoQuery /\ waiting = {}
    /\ answer = [ready |-> FALSE, age |-> 0]

Age == real - (IF dbReady THEN real ELSE lastReady)
Replies(ready) == answer' = [ready |-> ready, age |-> IF ready THEN Age ELSE 0]

(* A kept answer is used until it expires.                                    *)
useCache ==
    /\ now < cached.expiresAt
    /\ Replies(cached.ready)
    /\ UNCHANGED <<real, now, dbReady, lastReady, cached, flight, waiting>>

(* Otherwise the caller waits for the query, which it sends if nobody did.    *)
awaitQuery(p) ==
    /\ p \notin waiting /\ now >= cached.expiresAt
    /\ waiting' = waiting \cup {p}
    /\ flight' = IF flight.on THEN flight ELSE [on |-> TRUE, since |-> real, row |-> "none"]
    /\ UNCHANGED <<real, now, dbReady, lastReady, cached, answer>>

(* PLATFORM_READINESS_SQL is evaluated by the database.                       *)
queryRuns ==
    /\ flight.on /\ flight.row = "none"
    /\ flight' = [flight EXCEPT !.row = IF dbReady THEN "ready" ELSE "unready"]
    /\ UNCHANGED <<real, now, dbReady, lastReady, cached, waiting, answer>>

(* Mutant: a good answer has no end once it was given.                        *)
keep_long(ready) == cached' = [ready |-> ready,
                               expiresAt |-> now + (IF ready THEN MaxReal ELSE NotReadyCache)]

keep(ready) == cached' = [ready |-> ready,
                          expiresAt |-> now + (IF ready THEN ReadyCache ELSE NotReadyCache)]
landed == flight' = NoQuery

(* The row arrives, or an error or a timeout instead; isPlatformReady of it   *)
(* is kept and told to all who wait.                                          *)
queryReturns ==
    /\ flight.on
    /\ \E ready \in {flight.row = "ready", FALSE} :
        /\ keep(ready) /\ Replies(ready)
    /\ landed /\ waiting' = {}
    /\ UNCHANGED <<real, now, dbReady, lastReady>>

(* Time passes; Date.now() may fall back. A query does not outlive its        *)
(* timeouts.                                                                  *)
RealTimePasses ==
    /\ real < MaxReal
    /\ flight.on => real < flight.since + QueryTimeout
    /\ real' = real + 1
    /\ now' \in (real' - MaxSetBack)..real'
    /\ lastReady' = IF dbReady THEN real' ELSE lastReady
    /\ UNCHANGED <<dbReady, cached, flight, waiting, answer>>

DatabaseChanges ==
    /\ dbReady' = ~dbReady
    /\ lastReady' = real
    /\ UNCHANGED <<real, now, cached, flight, waiting, answer>>

ProbeNext ==
    \/ useCache \/ (\E p \in Probes : awaitQuery(p)) \/ queryRuns \/ queryReturns
    \/ RealTimePasses \/ DatabaseChanges

ProbeSpec == ProbeInit /\ [][ProbeNext]_probeVars

-------------------------------------------------------------------------------
ProbeTypeOK ==
    /\ real \in Nat /\ now \in Int /\ dbReady \in BOOLEAN /\ lastReady \in Nat
    /\ cached \in [ready : BOOLEAN, expiresAt : Int]
    /\ flight \in {NoQuery} \cup [on : {TRUE}, since : Nat, row : {"none", "ready", "unready"}]
    /\ waiting \subseteq Probes
    /\ answer \in [ready : BOOLEAN, age : Nat]

(* Whoever is told that the platform is ready knows that its database was so  *)
(* a cache time and a query ago at most, however many callers shared the      *)
(* query and although the clock of the cache may fall back                    *)
(* (readiness-runtime.ts check).                                              *)
ReadyIsRecent == answer.age <= ReadyCache + QueryTimeout + MaxSetBack
===============================================================================

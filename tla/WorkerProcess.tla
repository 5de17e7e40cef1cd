---------------------------- MODULE WorkerProcess ----------------------------
(* One worker process from its start to its exit, and again: pg-boss and its  *)
(* consumers, the health server, the store they share, the readiness check    *)
(* that the monitor and the health server ask for, and the alerts the monitor *)
(* writes. What the jobs do is modelled by the other modules; here a job is   *)
(* something that uses the store.                                             *)
(*                                                                            *)
(* How old a poll, a job or a checkpoint is appears as a fault: the limit is  *)
(* passed or it is not. The fault live_enabled is left out, since             *)
(* assertPilotConfiguration keeps such a process from starting.               *)
EXTENDS Naturals, FiniteSets

CONSTANTS
    QueueCount,   \* the queues, numbered in the order of their boss.work calls
    NoAlert

ASSUME WorkerAssumption == QueueCount \in Nat \ {0}

VARIABLES
    phase,       \* where main() is
    stopping,    \* the flag of pg-boss-runtime; the monitor's is set with it
    storeOpen,   \* between loadWorkerStore and store.close
    consumer,    \* per queue: the state pg-boss reports
    running,     \* the queues whose handler runs
    forced,      \* the grace period is over, or there was none
    faults,      \* what is wrong outside of the process
    check,       \* per caller: the readiness check under way
    standing,       \* activeAlert
    open         \* the alerts this process's log shows as raised and not resolved

processVars == <<phase, stopping, storeOpen, consumer, running, forced, faults, check, standing, open>>
outside == <<phase, stopping, storeOpen, running, forced>>

Queues == 1..QueueCount
Callers == {"monitor", "server"}
Phases == {"down", "boss", "catchUp", "consumers", "listen", "serving",
           "draining", "closing", "unbound", "abort", "exiting"}
Codes == {"consumer_unavailable", "schedule_mismatch", "scanner_stale", "dependency_unavailable"}
ASSUME NoAlertAssumption == NoAlert \notin Codes

Faults == {"schedule", "scanner", "dependency"}
NoCheck == [step |-> "idle", consumers |-> FALSE, late |-> FALSE, answer |-> "none"]

Down ==
    /\ phase' = "down" /\ stopping' = FALSE /\ storeOpen' = FALSE /\ forced' = FALSE
    /\ consumer' = [q \in Queues |-> "off"] /\ running' = {}
    /\ check' = [x \in Callers |-> NoCheck]
    /\ standing' = NoAlert /\ open' = {}

WorkerInit ==
    /\ phase = "down" /\ stopping = FALSE /\ storeOpen = FALSE /\ forced = FALSE
    /\ consumer = [q \in Queues |-> "off"] /\ running = {}
    /\ faults = {}
    /\ check = [x \in Callers |-> NoCheck]
    /\ standing = NoAlert /\ open = {}

-------------------------------------------------------------------------------
(* Start.                                                                     *)

Moves(from, to) == phase = from /\ phase' = to

openStore ==
    /\ Moves("down", "boss") /\ storeOpen' = TRUE
    /\ UNCHANGED <<stopping, consumer, running, forced, faults, check, standing, open>>

(* boss.start, the queues and the schedules.                                  *)
startBoss ==
    /\ Moves("boss", "catchUp")
    /\ UNCHANGED <<stopping, storeOpen, consumer, running, forced, faults, check, standing, open>>

(* The startup scan, which throws when one installation fails, and the two    *)
(* recovery jobs.                                                             *)
catchUp ==
    /\ Moves("catchUp", "consumers")
    /\ UNCHANGED <<stopping, storeOpen, consumer, running, forced, faults, check, standing, open>>

(* boss.work, queue after queue; a consumer fetches jobs as soon as it is     *)
(* there.                                                                     *)
work(q) ==
    /\ phase = "consumers" /\ consumer[q] = "off"
    /\ \A p \in Queues : p < q => consumer[p] # "off"
    /\ consumer' = [consumer EXCEPT ![q] = "active"]
    /\ UNCHANGED <<outside, faults, check, standing, open>>

(* The monitor starts with the probe, then main binds the health server.      *)
startMonitor ==
    /\ Moves("consumers", "listen")
    /\ \A q \in Queues : consumer[q] # "off"
    /\ UNCHANGED <<stopping, storeOpen, consumer, running, forced, faults, check, standing, open>>

listen ==
    /\ Moves("listen", "serving")
    /\ UNCHANGED <<stopping, storeOpen, consumer, running, forced, faults, check, standing, open>>

(* startPgBossWithCleanup: boss.stop without grace. Handlers that run go on.  *)
startFails ==
    /\ phase \in {"boss", "catchUp", "consumers"}
    /\ phase' = "abort"
    /\ consumer' = [q \in Queues |-> "stopped"]
    /\ forced' = TRUE
    /\ UNCHANGED <<stopping, storeOpen, running, faults, check, standing, open>>

abort ==
    /\ Moves("abort", "exiting") /\ storeOpen' = FALSE
    /\ UNCHANGED <<stopping, consumer, running, forced, faults, check, standing, open>>

-------------------------------------------------------------------------------
(* Stop.                                                                      *)

(* Checks that have not passed the schedules when the process begins to stop. *)
Overtaken(c) == IF c.step = "schedules" THEN [c EXCEPT !.late = TRUE] ELSE c

BeginStop ==
    /\ stopping' = TRUE
    /\ consumer' = [q \in Queues |-> "stopped"]
    /\ check' = [x \in Callers |-> Overtaken(check[x])]
    /\ UNCHANGED <<storeOpen, running, forced, faults, standing, open>>

(* A signal: the worker stops, its monitor at once and pg-boss gracefully. A  *)
(* second signal returns at once.                                             *)
stop == Moves("serving", "draining") /\ ~stopping /\ BeginStop

(* The health server cannot listen: the worker stops in the same way, and     *)
(* there is no server to close. Signals are not handled yet, and kill.        *)
listenFails == Moves("listen", "unbound") /\ BeginStop

(* Mutant: pg-boss is stopped without a timeout.                              *)
drained_all ==
    /\ Moves("draining", "closing") \/ Moves("unbound", "abort")
    /\ running = {}
    /\ UNCHANGED <<stopping, storeOpen, consumer, running, forced, faults, check, standing, open>>

(* boss.stop waits for the handlers, up to thirty seconds.                    *)
drained ==
    /\ Moves("draining", "closing") \/ Moves("unbound", "abort")
    /\ forced' = (running # {})
    /\ UNCHANGED <<stopping, storeOpen, consumer, running, faults, check, standing, open>>

(* Mutant: the store goes before the requests of the health server end.       *)
closeServer_store ==
    /\ Moves("closing", "exiting") /\ storeOpen' = FALSE
    /\ UNCHANGED <<stopping, consumer, running, forced, faults, check, standing, open>>

(* The health server waits for the requests it has, then the store closes.    *)
closeServer ==
    /\ Moves("closing", "exiting")
    /\ check["server"].step = "idle"
    /\ storeOpen' = FALSE
    /\ UNCHANGED <<stopping, consumer, running, forced, faults, check, standing, open>>

exit == phase = "exiting" /\ Down /\ UNCHANGED faults
Killed == phase \notin {"down", "exiting"} /\ Down /\ UNCHANGED faults

-------------------------------------------------------------------------------
(* Jobs, and what may be wrong.                                               *)

JobStarts(q) ==
    /\ consumer[q] = "active" /\ q \notin running
    /\ running' = running \cup {q}
    /\ UNCHANGED <<phase, stopping, storeOpen, consumer, forced, faults, check, standing, open>>

JobReturns(q) ==
    /\ q \in running
    /\ running' = running \ {q}
    /\ UNCHANGED <<phase, stopping, storeOpen, consumer, forced, faults, check, standing, open>>

(* A consumer does not poll, or its job runs for longer than it may; and it   *)
(* recovers.                                                                  *)
ConsumerStalls(q) ==
    /\ consumer[q] \in {"active", "stalled"}
    /\ consumer' = [consumer EXCEPT ![q] = IF @ = "active" THEN "stalled" ELSE "active"]
    /\ UNCHANGED <<outside, faults, check, standing, open>>

FaultsChange(f) ==
    /\ faults' = IF f \in faults THEN faults \ {f} ELSE faults \cup {f}
    /\ UNCHANGED <<outside, consumer, check, standing, open>>

-------------------------------------------------------------------------------
(* The readiness check.                                                       *)

MonitorRuns == phase \in {"listen", "serving"}
ServerAccepts == phase \in {"serving", "draining"}
MayCheck(x) == IF x = "monitor" THEN MonitorRuns ELSE ServerAccepts

(* consumersAreReady: every expected consumer is there, polls and is active.  *)
ConsumersReady == \A q \in Queues : consumer[q] = "active"

(* snapshot, to its first await. The monitor's timer joins the sample that is *)
(* under way.                                                                 *)
beginCheck(x) ==
    /\ MayCheck(x) /\ check[x].step = "idle"
    /\ check' = [check EXCEPT ![x] = [step |-> "schedules", consumers |-> ConsumersReady,
                                      late |-> stopping, answer |-> "none"]]
    /\ UNCHANGED <<outside, consumer, faults, standing, open>>

Finds(x, answer) ==
    check' = [check EXCEPT ![x].step = "answered", ![x].answer = answer]

(* evaluateWorkerReadiness once the schedules are read: whether the process   *)
(* stops is asked only now.                                                   *)
snapshotReturns(x) ==
    /\ check[x].step = "schedules"
    /\ \/ stopping /\ Finds(x, "process_stopping")
       \/ ~stopping /\ ~check[x].consumers /\ Finds(x, "consumer_unavailable")
       \/ /\ ~stopping /\ check[x].consumers /\ "schedule" \in faults
          /\ Finds(x, "schedule_mismatch")
       \/ /\ ~stopping /\ check[x].consumers /\ "schedule" \notin faults
          /\ check' = [check EXCEPT ![x].step = "store"]
    /\ UNCHANGED <<outside, consumer, faults, standing, open>>

(* The schedules cannot be read.                                              *)
snapshotFails(x) ==
    /\ check[x].step = "schedules" /\ ("dependency" \in faults \/ phase \notin {"listen", "serving"})
    /\ Finds(x, "dependency_unavailable")
    /\ UNCHANGED <<outside, consumer, faults, standing, open>>

(* evaluateScannerCoverage.                                                   *)
storeReturns(x) ==
    /\ check[x].step = "store"
    /\ Finds(x, IF "dependency" \in faults \/ ~storeOpen THEN "dependency_unavailable"
                  ELSE IF "scanner" \in faults THEN "scanner_stale"
                  ELSE "ready")
    /\ UNCHANGED <<outside, consumer, faults, standing, open>>

(* handleWorkerHealthRequest: 200 or 503.                                     *)
respond ==
    /\ check["server"].step = "answered"
    /\ check' = [check EXCEPT !["server"] = NoCheck]
    /\ UNCHANGED <<outside, consumer, faults, standing, open>>

-------------------------------------------------------------------------------
(* The monitor: performSample after its await, which is one step. A logger    *)
(* that throws leaves the alert as it was.                                    *)

Resolve(logged) == IF logged THEN NoAlert ELSE standing

(* Mutant: the alert is taken as settled whether or not it was written.       *)
clearAlert_unlogged(logged) ==
    /\ standing' = NoAlert
    /\ open' = IF logged THEN open \ {standing} ELSE open

clearAlert(logged) ==
    /\ standing' = Resolve(logged)
    /\ open' = IF logged THEN open \ {standing} ELSE open

(* A standing alert is resolved first, and only when that was written the     *)
(* next one is raised.                                                        *)
raiseAlert(code, logged) ==
    /\ standing' = IF logged THEN code ELSE standing
    /\ open' = IF logged THEN (open \ {standing}) \cup {code} ELSE open

(* The first of the two entries is written and the second is not.             *)
resolvedOnly ==
    /\ standing # NoAlert
    /\ standing' = NoAlert
    /\ open' = open \ {standing}

(* Mutant: while an alert stands, another code is taken for the same one.     *)
performSample_latched(logged) ==
    LET answer == check["monitor"].answer IN
    /\ check["monitor"].step = "answered"
    /\ check' = [check EXCEPT !["monitor"] = NoCheck]
    /\ \/ (stopping \/ answer = "process_stopping") /\ UNCHANGED <<standing, open>>
       \/ ~stopping /\ answer = "ready" /\ clearAlert(logged)
       \/ ~stopping /\ answer \in Codes /\ standing # NoAlert /\ UNCHANGED <<standing, open>>
       \/ ~stopping /\ answer \in Codes /\ standing = NoAlert /\ raiseAlert(answer, logged)
    /\ UNCHANGED <<outside, consumer, faults>>

performSample(logged) ==
    LET answer == check["monitor"].answer IN
    /\ check["monitor"].step = "answered"
    /\ check' = [check EXCEPT !["monitor"] = NoCheck]
    /\ \/ (stopping \/ answer = "process_stopping") /\ UNCHANGED <<standing, open>>
       \/ ~stopping /\ answer = "ready" /\ clearAlert(logged)
       \/ ~stopping /\ answer \in Codes /\ answer = standing /\ UNCHANGED <<standing, open>>
       \/ ~stopping /\ answer \in Codes /\ answer # standing
          /\ (raiseAlert(answer, logged) \/ (~logged /\ resolvedOnly))
    /\ UNCHANGED <<outside, consumer, faults>>

-------------------------------------------------------------------------------
Starting == openStore \/ startBoss \/ catchUp \/ (\E q \in Queues : work(q)) \/ startMonitor \/ listen
Stopping == drained \/ closeServer \/ abort \/ exit
CheckStep(x) == beginCheck(x) \/ snapshotReturns(x) \/ snapshotFails(x) \/ storeReturns(x)

WorkerNext ==
    \/ Starting \/ startFails \/ listenFails \/ stop \/ Stopping \/ Killed
    \/ \E q \in Queues : JobStarts(q) \/ JobReturns(q) \/ ConsumerStalls(q)
    \/ \E f \in Faults : FaultsChange(f)
    \/ \E x \in Callers : CheckStep(x)
    \/ respond
    \/ \E logged \in BOOLEAN : performSample(logged)

(* main() goes on while its awaits return; the timer fires every minute and   *)
(* what a check awaits returns, with an error at worst.                       *)
WorkerFairness ==
    /\ WF_processVars(Starting) /\ WF_processVars(Stopping)
    /\ \A x \in Callers : WF_processVars(CheckStep(x))
    /\ WF_processVars(respond)
    /\ WF_processVars(\E logged \in BOOLEAN : performSample(logged))

WorkerSpec == WorkerInit /\ [][WorkerNext]_processVars /\ WorkerFairness

-------------------------------------------------------------------------------
WorkerTypeOK ==
    /\ phase \in Phases
    /\ stopping \in BOOLEAN /\ storeOpen \in BOOLEAN /\ forced \in BOOLEAN
    /\ consumer \in [Queues -> {"off", "active", "stalled", "stopped"}]
    /\ running \subseteq Queues /\ faults \subseteq Faults
    /\ check \in [Callers -> [step : {"idle", "schedules", "store", "answered"}, consumers : BOOLEAN,
                              late : BOOLEAN,
                              answer : Codes \cup {"none", "ready", "process_stopping"}]]
    /\ standing \in Codes \cup {NoAlert} /\ open \subseteq Codes

(* The store is closed only when nobody needs it: every request of the health *)
(* server has been answered, and every handler has returned or its grace      *)
(* period is over, although a second signal may come at any time (main.ts     *)
(* stop, pg-boss-runtime.ts stop).                                            *)
StoreOutlivesUsers ==
    phase # "down" /\ ~storeOpen => check["server"].step = "idle" /\ (running = {} \/ forced)

(* A check that was still reading the schedules when the process began to     *)
(* stop, or began later, is not answered with ready: "so a concurrent         *)
(* graceful shutdown fails readiness promptly" (readiness.ts:147).            *)
ShutdownFailsReadiness == \A x \in Callers : check[x].late => check[x].answer # "ready"

(* A stop is told at once, and takes nothing from those who still work.       *)
StopIsOrderly == StoreOutlivesUsers /\ ShutdownFailsReadiness

(* Of one process, the log shows exactly the alert that stands, raised once   *)
(* and not resolved, though writing to the log may fail at any entry          *)
(* (operational-monitor.ts performSample).                                    *)
LogShowsAlert == open = {standing} \ {NoAlert}

Lasting(c) ==
    /\ phase = "serving"
    /\ CASE c = "ready" -> ConsumersReady /\ faults = {}
         [] c = "consumer_unavailable" -> ~ConsumersReady /\ faults = {}
         [] c = "schedule_mismatch" -> ConsumersReady /\ faults = {"schedule"}
         [] c = "scanner_stale" -> ConsumersReady /\ faults = {"scanner"}
         [] c = "dependency_unavailable" -> ConsumersReady /\ faults = {"dependency"}

(* What lasts is told: in a process that goes on serving, a fault that stays  *)
(* is at last the one alert of the log, and a process that stays healthy at   *)
(* last has none, unless the log can be written no more                       *)
(* (startWorkerOperationalMonitor).                                           *)
MonitorConverges ==
    \A c \in Codes \cup {"ready"} :
        <>[]Lasting(c) /\ []<><<performSample(TRUE)>>_processVars
            => <>[](open = {c} \ {"ready"})

(* A process that was told to stop, or failed to start, exits: nobody waits   *)
(* for ever for a handler, a request or a check.                              *)
StopEnds == stopping \/ phase = "abort" ~> phase = "down"
===============================================================================

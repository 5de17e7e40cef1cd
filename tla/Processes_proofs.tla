--------------------------- MODULE Processes_proofs ---------------------------
(***************************************************************************)
(* Proofs about the processes around the desk: the worker's own process,   *)
(* the drawer of the Stripe app and the windows of the reconciliation      *)
(* scan.  They share no state.                                             *)
(***************************************************************************)
EXTENDS WorkerProcess, RefundDrawer, ScanWindow, FiniteSetTheorems, TLAPS

-------------------------------------------------------------------------------
(* The worker process.                                                       *)

Check == [step : {"idle", "schedules", "store", "answered"}, consumers : BOOLEAN, late : BOOLEAN,
          answer : Codes \cup {"none", "ready", "process_stopping"}]

(* The store is there until the last phase.                                  *)
StoreOpenWhileUp == phase \notin {"down", "exiting"} => storeOpen

(* The health server answers nobody before it listens or after it closed.    *)
ServerPhases == check["server"].step # "idle" => phase \in {"serving", "draining", "closing"}

(* From the moment a stop begins no consumer fetches another job, and main   *)
(* goes on only when the handlers have returned or were given up.            *)
StoppingPhases == {"draining", "unbound", "closing", "abort", "exiting"}
NothingFetches == phase \in StoppingPhases => \A q \in Queues : consumer[q] = "stopped"
HandlersSettled == phase \in {"closing", "abort", "exiting"} => running = {} \/ forced

(* A check that the stop overtook is before its answer, or has a bad one.    *)
OvertakenCheck(c) ==
    /\ c.late = TRUE => stopping /\ c.step # "store" /\ c.answer # "ready"
    /\ c.step = "schedules" => c.answer = "none"

ProcessInv ==
    /\ WorkerTypeOK
    /\ StoreOpenWhileUp /\ ServerPhases /\ NothingFetches /\ HandlersSettled
    /\ \A x \in Callers : OvertakenCheck(check[x])
    /\ LogShowsAlert

LEMMA NoCheckType ==
    /\ NoCheck \in Check /\ NoCheck.step = "idle" /\ NoCheck.late = FALSE /\ OvertakenCheck(NoCheck)
  BY DEF NoCheck, Check, OvertakenCheck

LEMMA CallersAre == "server" \in Callers /\ "monitor" \in Callers
  BY DEF Callers

LEMMA InitProcessInv == WorkerInit => ProcessInv
  <1> SUFFICES ASSUME WorkerInit PROVE ProcessInv
    OBVIOUS
  <1>1. \A x \in Callers : check[x] = NoCheck
    BY DEF WorkerInit
  <1>2. WorkerTypeOK
    BY NoCheckType DEF WorkerInit, WorkerTypeOK, Check, Phases
  <1>3. ServerPhases /\ \A x \in Callers : OvertakenCheck(check[x])
    BY <1>1, NoCheckType, CallersAre DEF ServerPhases
  <1>4. StoreOpenWhileUp /\ NothingFetches /\ HandlersSettled
    BY DEF WorkerInit, StoreOpenWhileUp, NothingFetches, HandlersSettled, StoppingPhases
  <1>5. LogShowsAlert
    BY DEF WorkerInit, LogShowsAlert
  <1> QED BY <1>2, <1>3, <1>4, <1>5 DEF ProcessInv

(* The checks of a step: each is as it was, or as the invariant wants it.    *)
ChecksKept ==
    /\ check' \in [Callers -> Check]
    /\ \A x \in Callers : OvertakenCheck(check[x])'

LEMMA SameChecks ==
  ASSUME WorkerTypeOK, \A x \in Callers : OvertakenCheck(check[x]), check' = check, stopping' = stopping
  PROVE  ChecksKept
  BY DEF WorkerTypeOK, Check, ChecksKept, OvertakenCheck

LEMMA OneCheck ==
  ASSUME WorkerTypeOK, \A x \in Callers : OvertakenCheck(check[x]), stopping' = stopping,
         NEW x \in Callers, NEW c \in Check, check' = [check EXCEPT ![x] = c], OvertakenCheck(c)
  PROVE  ChecksKept
  <1>1. check \in [Callers -> Check]
    BY DEF WorkerTypeOK, Check
  <1>2. check'[x] = c /\ \A y \in Callers : y # x => check'[y] = check[y]
    BY <1>1
  <1>3. check' \in [Callers -> Check]
    BY <1>1
  <1> QED BY <1>2, <1>3 DEF ChecksKept, OvertakenCheck

LEMMA FoundCheck ==
  ASSUME WorkerTypeOK, \A x \in Callers : OvertakenCheck(check[x]), stopping' = stopping,
         NEW x \in Callers, NEW a \in Codes \cup {"ready", "process_stopping"}, Finds(x, a),
         check[x].late = TRUE => a # "ready"
  PROVE  ChecksKept
  <1> DEFINE c == [check[x] EXCEPT !.step = "answered", !.answer = a]
  <1>1. check[x] \in Check /\ OvertakenCheck(check[x])
    BY DEF WorkerTypeOK, Check
  <1>2. /\ c \in Check /\ c.step = "answered" /\ c.answer = a /\ c.late = check[x].late
    BY <1>1 DEF Check
  <1>3. check' = [check EXCEPT ![x] = c]
    BY DEF Finds, WorkerTypeOK
  <1> HIDE DEF c
  <1>4. OvertakenCheck(c)
    BY <1>1, <1>2 DEF OvertakenCheck
  <1> QED BY <1>2, <1>3, <1>4, OneCheck

LEMMA BeginStopChecks ==
  ASSUME WorkerTypeOK, \A x \in Callers : OvertakenCheck(check[x]), BeginStop
  PROVE  ChecksKept /\ \A x \in Callers : check'[x].step = check[x].step
  <1> SUFFICES ASSUME NEW x \in Callers
               PROVE  check'[x] \in Check /\ OvertakenCheck(check[x])' /\ check'[x].step = check[x].step
    BY DEF ChecksKept, BeginStop
  <1>1. check[x] \in Check /\ OvertakenCheck(check[x]) /\ stopping' = TRUE
    BY DEF WorkerTypeOK, Check, BeginStop
  <1>2. check'[x] = Overtaken(check[x])
    BY DEF BeginStop
  <1>3. CASE check[x].step = "schedules"
    <2> DEFINE c == [check[x] EXCEPT !.late = TRUE]
    <2>1. c \in Check /\ c.step = "schedules" /\ c.answer = "none" /\ check'[x] = c
      BY <1>1, <1>2, <1>3 DEF Check, Overtaken, OvertakenCheck
    <2> HIDE DEF c
    <2> QED BY <1>1, <1>3, <2>1 DEF OvertakenCheck
  <1>4. CASE check[x].step # "schedules"
    BY <1>1, <1>2, <1>4 DEF Overtaken, OvertakenCheck
  <1> QED BY <1>3, <1>4

(* Everything in the invariant but the checks.                               *)
RestKept ==
    /\ phase' \in Phases /\ stopping' \in BOOLEAN /\ storeOpen' \in BOOLEAN /\ forced' \in BOOLEAN
    /\ consumer' \in [Queues -> {"off", "active", "stalled", "stopped"}]
    /\ running' \subseteq Queues /\ faults' \subseteq Faults
    /\ standing' \in Codes \cup {NoAlert} /\ open' \subseteq Codes
    /\ StoreOpenWhileUp' /\ ServerPhases' /\ NothingFetches' /\ HandlersSettled' /\ LogShowsAlert'

LEMMA KeptTogether == RestKept /\ ChecksKept => ProcessInv'
  BY DEF RestKept, ChecksKept, ProcessInv, WorkerTypeOK, Check

(* The steps of main() that change no check.                                 *)
LEMMA MainKeeps ==
  ASSUME ProcessInv,
         \/ openStore \/ startBoss \/ catchUp \/ startMonitor \/ listen \/ startFails \/ abort
         \/ drained \/ closeServer
  PROVE  ProcessInv'
  <1>1. check' = check /\ stopping' = stopping /\ standing' = standing /\ open' = open /\ faults' = faults
    BY DEF openStore, startBoss, catchUp, startMonitor, listen, startFails, abort, drained, closeServer
  <1>2. ChecksKept
    BY <1>1, SameChecks DEF ProcessInv
  <1>3. /\ faults' \subseteq Faults /\ standing' \in Codes \cup {NoAlert} /\ open' \subseteq Codes
        /\ stopping' \in BOOLEAN /\ LogShowsAlert'
    BY <1>1 DEF ProcessInv, WorkerTypeOK, LogShowsAlert
  <1> DEFINE Own == /\ phase' \in Phases /\ storeOpen' \in BOOLEAN /\ forced' \in BOOLEAN
                    /\ consumer' \in [Queues -> {"off", "active", "stalled", "stopped"}]
                    /\ running' \subseteq Queues
                    /\ StoreOpenWhileUp' /\ ServerPhases' /\ NothingFetches' /\ HandlersSettled'
  <1>4. Own
    <2>1. CASE openStore
      BY <1>1, <2>1 DEF openStore, Moves, ProcessInv, WorkerTypeOK, Phases, StoreOpenWhileUp, ServerPhases,
         NothingFetches, HandlersSettled, StoppingPhases
    <2>2. CASE startBoss
      BY <1>1, <2>2 DEF startBoss, Moves, ProcessInv, WorkerTypeOK, Phases, StoreOpenWhileUp, ServerPhases,
         NothingFetches, HandlersSettled, StoppingPhases
    <2>3. CASE catchUp
      BY <1>1, <2>3 DEF catchUp, Moves, ProcessInv, WorkerTypeOK, Phases, StoreOpenWhileUp, ServerPhases,
         NothingFetches, HandlersSettled, StoppingPhases
    <2>4. CASE startMonitor
      BY <1>1, <2>4 DEF startMonitor, Moves, ProcessInv, WorkerTypeOK, Phases, StoreOpenWhileUp, ServerPhases,
         NothingFetches, HandlersSettled, StoppingPhases
    <2>5. CASE listen
      BY <1>1, <2>5 DEF listen, Moves, ProcessInv, WorkerTypeOK, Phases, StoreOpenWhileUp, ServerPhases,
         NothingFetches, HandlersSettled, StoppingPhases
    <2>6. CASE startFails
      BY <1>1, <2>6 DEF startFails, ProcessInv, WorkerTypeOK, Phases, StoreOpenWhileUp, ServerPhases,
         NothingFetches, HandlersSettled, StoppingPhases
    <2>7. CASE abort
      BY <1>1, <2>7 DEF abort, Moves, ProcessInv, WorkerTypeOK, Phases, StoreOpenWhileUp, ServerPhases,
         NothingFetches, HandlersSettled, StoppingPhases
    <2>8. CASE drained
      BY <1>1, <2>8 DEF drained, Moves, ProcessInv, WorkerTypeOK, Phases, StoreOpenWhileUp, ServerPhases,
         NothingFetches, HandlersSettled, StoppingPhases
    <2>9. CASE closeServer
      BY <1>1, <2>9 DEF closeServer, Moves, ProcessInv, WorkerTypeOK, Phases, StoreOpenWhileUp, ServerPhases,
         NothingFetches, HandlersSettled, StoppingPhases
    <2> QED BY <2>1, <2>2, <2>3, <2>4, <2>5, <2>6, <2>7, <2>8, <2>9
  <1> QED BY <1>2, <1>3, <1>4, KeptTogether DEF RestKept

(* A stop begins: pg-boss's consumers are stopped and the checks overtaken.  *)
LEMMA StopKeeps ==
  ASSUME ProcessInv, stop \/ listenFails
  PROVE  ProcessInv'
  <1>1. BeginStop
    BY DEF stop, listenFails
  <1>2. ChecksKept /\ check'["server"].step = check["server"].step
    BY <1>1, BeginStopChecks, CallersAre DEF ProcessInv
  <1>3. RestKept
    BY <1>1, <1>2 DEF BeginStop, stop, listenFails, Moves, RestKept, ProcessInv, WorkerTypeOK, Phases,
       StoreOpenWhileUp, ServerPhases, NothingFetches, HandlersSettled, StoppingPhases, LogShowsAlert
  <1> QED BY <1>2, <1>3, KeptTogether

(* The process is gone, and with it all that it held.                        *)
LEMMA DownKeeps ==
  ASSUME ProcessInv, Down, UNCHANGED faults
  PROVE  ProcessInv'
  <1>1. \A x \in Callers : check'[x] = NoCheck
    BY DEF Down
  <1>2. ChecksKept
    BY <1>1, NoCheckType DEF ChecksKept, Down, OvertakenCheck
  <1>3. ServerPhases'
    BY <1>1, NoCheckType, CallersAre DEF ServerPhases
  <1>4. RestKept
    BY <1>3 DEF Down, RestKept, ProcessInv, WorkerTypeOK, Phases, StoreOpenWhileUp, NothingFetches,
       HandlersSettled, StoppingPhases, LogShowsAlert
  <1> QED BY <1>2, <1>4, KeptTogether

(* Consumers, jobs and faults.                                               *)
LEMMA JobsKeep ==
  ASSUME ProcessInv, NEW q \in Queues, work(q) \/ JobStarts(q) \/ JobReturns(q) \/ ConsumerStalls(q)
  PROVE  ProcessInv'
  <1>1. /\ check' = check /\ stopping' = stopping /\ standing' = standing /\ open' = open /\ faults' = faults
        /\ phase' = phase /\ storeOpen' = storeOpen /\ forced' = forced
    BY DEF work, JobStarts, JobReturns, ConsumerStalls, outside
  <1>2. ChecksKept
    BY <1>1, SameChecks DEF ProcessInv
  <1>3. /\ consumer' \in [Queues -> {"off", "active", "stalled", "stopped"}] /\ running' \subseteq Queues
        /\ NothingFetches' /\ HandlersSettled'
    <2>1. CASE work(q)
      BY <1>1, <2>1 DEF work, outside, ProcessInv, WorkerTypeOK, NothingFetches, HandlersSettled, StoppingPhases
    <2>2. CASE JobStarts(q)
      BY <1>1, <2>2 DEF JobStarts, ProcessInv, WorkerTypeOK, NothingFetches, HandlersSettled, StoppingPhases
    <2>3. CASE JobReturns(q)
      BY <1>1, <2>3 DEF JobReturns, ProcessInv, WorkerTypeOK, NothingFetches, HandlersSettled, StoppingPhases
    <2>4. CASE ConsumerStalls(q)
      <3>1. phase \notin StoppingPhases
        BY <2>4 DEF ConsumerStalls, ProcessInv, NothingFetches
      <3> QED BY <1>1, <2>4, <3>1 DEF ConsumerStalls, outside, ProcessInv, WorkerTypeOK, NothingFetches,
                 HandlersSettled, StoppingPhases
    <2> QED BY <2>1, <2>2, <2>3, <2>4
  <1>4. RestKept
    BY <1>1, <1>3 DEF RestKept, ProcessInv, WorkerTypeOK, StoreOpenWhileUp, ServerPhases, LogShowsAlert
  <1> QED BY <1>2, <1>4, KeptTogether

LEMMA FaultsKeep ==
  ASSUME ProcessInv, NEW f \in Faults, FaultsChange(f)
  PROVE  ProcessInv'
  <1>1. check' = check /\ stopping' = stopping
    BY DEF FaultsChange, outside
  <1>2. ChecksKept
    BY <1>1, SameChecks DEF ProcessInv
  <1>3. RestKept
    BY <1>1 DEF FaultsChange, outside, RestKept, ProcessInv, WorkerTypeOK, StoreOpenWhileUp, ServerPhases,
       NothingFetches, HandlersSettled, LogShowsAlert
  <1> QED BY <1>2, <1>3, KeptTogether

(* A readiness check takes a step: the rest of the process stands still, and *)
(* the server is asked only while it serves.                                 *)
LEMMA CheckKeeps ==
  ASSUME ProcessInv, ChecksKept, UNCHANGED <<outside, consumer, faults>>, ServerPhases',
         standing' \in Codes \cup {NoAlert}, open' \subseteq Codes, LogShowsAlert'
  PROVE  ProcessInv'
  <1>1. RestKept
    BY DEF outside, RestKept, ProcessInv, WorkerTypeOK, StoreOpenWhileUp, NothingFetches, HandlersSettled
  <1> QED BY <1>1, KeptTogether

LEMMA ReadinessKeeps ==
  ASSUME ProcessInv, NEW x \in Callers, CheckStep(x)
  PROVE  ProcessInv'
  <1>1. /\ UNCHANGED <<outside, consumer, faults, standing, open>>
    BY DEF CheckStep, beginCheck, snapshotReturns, snapshotFails, storeReturns
  <1>2. stopping' = stopping /\ phase' = phase /\ storeOpen' = storeOpen
    BY <1>1 DEF outside
  <1>3. /\ check \in [Callers -> Check] /\ OvertakenCheck(check[x]) /\ stopping \in BOOLEAN
        /\ WorkerTypeOK /\ \A y \in Callers : OvertakenCheck(check[y])
    BY DEF ProcessInv, WorkerTypeOK, Check
  <1>4. CASE beginCheck(x)
    <2> DEFINE c == [step |-> "schedules", consumers |-> ConsumersReady, late |-> stopping, answer |-> "none"]
    <2>1. ConsumersReady \in BOOLEAN
      BY DEF ConsumersReady
    <2>2. c \in Check /\ c.step = "schedules" /\ c.answer = "none" /\ c.late = stopping
      BY <1>3, <2>1 DEF Check
    <2>3. check' = [check EXCEPT ![x] = c] /\ MayCheck(x)
      BY <1>4 DEF beginCheck
    <2> HIDE DEF c
    <2>4. OvertakenCheck(c)
      BY <2>2 DEF OvertakenCheck
    <2>5. ChecksKept
      BY <1>2, <1>3, <2>2, <2>3, <2>4, OneCheck
    <2>6. ServerPhases'
      BY <1>2, <1>3, <2>3, CallersAre DEF ProcessInv, ServerPhases, MayCheck, ServerAccepts
    <2> QED BY <1>1, <2>5, <2>6, CheckKeeps DEF ProcessInv, WorkerTypeOK, LogShowsAlert
  <1>5. CASE check[x].step # "idle" /\ ChecksKept /\ \A y \in Callers : y # x => check'[y] = check[y]
    <2>1. ServerPhases'
      BY <1>2, <1>5, CallersAre DEF ProcessInv, ServerPhases
    <2> QED BY <1>1, <1>5, <2>1, CheckKeeps DEF ProcessInv, WorkerTypeOK, LogShowsAlert
  <1>6. CASE snapshotReturns(x)
    <2>1. check[x].step = "schedules"
      BY <1>6 DEF snapshotReturns
    <2>2. check[x].late = TRUE => stopping
      BY <1>3 DEF OvertakenCheck
    <2>3. ASSUME NEW a \in {"process_stopping", "consumer_unavailable", "schedule_mismatch"}, Finds(x, a)
          PROVE  ChecksKept
      <3>1. a \in Codes \cup {"ready", "process_stopping"} /\ a # "ready"
        BY <2>3 DEF Codes
      <3> QED BY <1>2, <1>3, <2>3, <3>1, FoundCheck
    <2>4. ASSUME ~stopping, check' = [check EXCEPT ![x].step = "store"]
          PROVE  ChecksKept
      <3> DEFINE c == [check[x] EXCEPT !.step = "store"]
      <3>1. c \in Check /\ c.step = "store" /\ c.late = check[x].late
        BY <1>3 DEF Check
      <3>2. check' = [check EXCEPT ![x] = c]
        BY <1>3, <2>4
      <3> HIDE DEF c
      <3>3. OvertakenCheck(c)
        BY <2>2, <2>4, <3>1 DEF OvertakenCheck
      <3> QED BY <1>2, <1>3, <3>1, <3>2, <3>3, OneCheck
    <2>5. ChecksKept
      BY <1>6, <2>3, <2>4 DEF snapshotReturns
    <2>6. \A y \in Callers : y # x => check'[y] = check[y]
      BY <1>3, <1>6 DEF snapshotReturns, Finds
    <2> QED BY <1>5, <2>1, <2>5, <2>6
  <1>7. CASE snapshotFails(x)
    <2>1. ChecksKept
      BY <1>2, <1>3, <1>7, FoundCheck DEF snapshotFails, Codes
    <2>2. \A y \in Callers : y # x => check'[y] = check[y]
      BY <1>3, <1>7 DEF snapshotFails, Finds
    <2> QED BY <1>5, <1>7, <2>1, <2>2 DEF snapshotFails
  <1>8. CASE storeReturns(x)
    <2>1. PICK a \in {"dependency_unavailable", "scanner_stale", "ready"} : Finds(x, a)
      BY <1>8 DEF storeReturns
    <2>2. a \in Codes \cup {"ready", "process_stopping"} /\ check[x].late # TRUE
      BY <1>3, <1>8 DEF storeReturns, OvertakenCheck, Codes
    <2>3. ChecksKept
      BY <1>2, <1>3, <2>1, <2>2, FoundCheck
    <2>4. \A y \in Callers : y # x => check'[y] = check[y]
      BY <1>3, <2>1 DEF Finds
    <2> QED BY <1>5, <1>8, <2>3, <2>4 DEF storeReturns
  <1> QED BY <1>4, <1>6, <1>7, <1>8 DEF CheckStep

LEMMA RespondKeeps ==
  ASSUME ProcessInv, respond
  PROVE  ProcessInv'
  <1>1. ChecksKept
    <2>1. stopping' = stopping
      BY DEF respond, outside
    <2> QED BY <2>1, OneCheck, NoCheckType, CallersAre DEF ProcessInv, respond
  <1>2. ServerPhases'
    <2>1. check'["server"] = NoCheck
      BY CallersAre DEF respond, ProcessInv, WorkerTypeOK
    <2> QED BY <2>1, NoCheckType DEF ServerPhases
  <1>3. UNCHANGED <<outside, consumer, faults, standing, open>>
    BY DEF respond
  <1> QED BY <1>1, <1>2, <1>3, CheckKeeps DEF ProcessInv, WorkerTypeOK, LogShowsAlert

(* What the monitor writes.  The code of an alert is never the absence of    *)
(* one, so that a standing alert is in the log and no alert is not.          *)
LEMMA SampleKeeps ==
  ASSUME ProcessInv, NEW logged \in BOOLEAN, performSample(logged)
  PROVE  ProcessInv'
  <1> DEFINE a == check["monitor"].answer
  <1>1. ChecksKept
    <2>1. stopping' = stopping
      BY DEF performSample, outside
    <2> QED BY <2>1, OneCheck, NoCheckType, CallersAre DEF ProcessInv, performSample
  <1>2. ServerPhases'
    <2>1. check'["server"] = check["server"] /\ phase' = phase
      BY CallersAre DEF performSample, outside, ProcessInv, WorkerTypeOK
    <2> QED BY <2>1 DEF ServerPhases, ProcessInv
  <1>3. UNCHANGED <<outside, consumer, faults>>
    BY DEF performSample
  <1>4. \/ UNCHANGED <<standing, open>>
        \/ clearAlert(logged)
        \/ a \in Codes /\ raiseAlert(a, logged)
        \/ resolvedOnly
    BY DEF performSample
  <1> HIDE DEF a
  <1>5. open = {standing} \ {NoAlert} /\ standing \in Codes \cup {NoAlert} /\ open \subseteq Codes
    BY DEF ProcessInv, LogShowsAlert, WorkerTypeOK
  <1>6. /\ standing' \in Codes \cup {NoAlert} /\ open' = {standing'} \ {NoAlert}
    BY <1>4, <1>5, NoAlertAssumption DEF clearAlert, raiseAlert, resolvedOnly, Resolve
  <1>7. open' \subseteq Codes /\ LogShowsAlert'
    BY <1>6 DEF LogShowsAlert
  <1> QED BY <1>1, <1>2, <1>3, <1>6, <1>7, CheckKeeps

LEMMA NextProcessInv == ProcessInv /\ [WorkerNext]_processVars => ProcessInv'
  <1> SUFFICES ASSUME ProcessInv, [WorkerNext]_processVars PROVE ProcessInv'
    OBVIOUS
  <1>1. CASE Starting \/ Stopping \/ startFails
    BY <1>1, MainKeeps, JobsKeep, DownKeeps DEF Starting, Stopping, exit
  <1>2. CASE stop \/ listenFails
    BY <1>2, StopKeeps
  <1>3. CASE Killed
    BY <1>3, DownKeeps DEF Killed
  <1>4. CASE \E q \in Queues : JobStarts(q) \/ JobReturns(q) \/ ConsumerStalls(q)
    BY <1>4, JobsKeep
  <1>5. CASE \E f \in Faults : FaultsChange(f)
    BY <1>5, FaultsKeep
  <1>6. CASE \E x \in Callers : CheckStep(x)
    BY <1>6, ReadinessKeeps
  <1>7. CASE respond
    BY <1>7, RespondKeeps
  <1>8. CASE \E logged \in BOOLEAN : performSample(logged)
    BY <1>8, SampleKeeps
  <1>9. CASE UNCHANGED processVars
    BY <1>9 DEF processVars, ProcessInv, WorkerTypeOK, StoreOpenWhileUp, ServerPhases, NothingFetches,
       HandlersSettled, OvertakenCheck, LogShowsAlert
  <1> QED BY <1>1, <1>2, <1>3, <1>4, <1>5, <1>6, <1>7, <1>8, <1>9 DEF WorkerNext

(* The worker process keeps its invariant from its start to its exit, through *)
(* signals, failed starts and kills (apps/worker main.ts).                   *)
THEOREM ProcessInvariance == WorkerSpec => []ProcessInv
  BY InitProcessInv, NextProcessInv, PTL DEF WorkerSpec

(* A stop takes the store from nobody who still uses it, and a check that it *)
(* overtakes is not answered with ready, for every number of queues (main.ts *)
(* stop, pg-boss-runtime.ts stop, readiness.ts evaluateWorkerReadiness).     *)
THEOREM StopOrderly == WorkerSpec => []StopIsOrderly
  <1>1. ProcessInv => StopIsOrderly
    <2> SUFFICES ASSUME ProcessInv PROVE StopIsOrderly
      OBVIOUS
    <2>1. ShutdownFailsReadiness
      BY DEF ShutdownFailsReadiness, ProcessInv, OvertakenCheck, WorkerTypeOK
    <2>2. StoreOutlivesUsers
      BY DEF StoreOutlivesUsers, ProcessInv, WorkerTypeOK, Phases, StoreOpenWhileUp, ServerPhases, HandlersSettled
    <2> QED BY <2>1, <2>2 DEF StopIsOrderly
  <1> QED BY <1>1, ProcessInvariance, PTL

(* The log of a process shows exactly the alert that stands, whichever of    *)
(* its entries could not be written (operational-monitor.ts performSample).  *)
THEOREM LogShows == WorkerSpec => []LogShowsAlert
  <1>1. ProcessInv => LogShowsAlert
    BY DEF ProcessInv
  <1> QED BY <1>1, ProcessInvariance, PTL

-------------------------------------------------------------------------------
(* The drawer of the Stripe app.                                             *)

Load == {NoLoad} \cup [on : {TRUE}, tab : Tabs, page : Nat, current : BOOLEAN, awaited : BOOLEAN]
Page == [tab : Tabs, pages : Seq(Nat), more : BOOLEAN]
InOrder(pages) == \A i \in 1..Len(pages) : pages[i] = i

(* The current load of a list, if there is one, is the only one; it is for   *)
(* the tab that is shown and for the first page or the one that is next.     *)
OneCurrent(l) ==
    /\ \A s \in Slots : load[l][s].current = TRUE =>
           /\ load[l][s].on = TRUE
           /\ l = "requests" => load[l][s].tab = scope
           /\ load[l][s].page # 1 => load[l][s].page = Len(list[l].pages) + 1
    /\ \A s, z \in Slots : load[l][s].current = TRUE /\ load[l][z].current = TRUE => s = z

SpinnerOwned(l) ==
    loading[l] = TRUE => \/ \E s \in Slots : load[l][s].current = TRUE
                         \/ l = "requests" /\ "requests" \in due

ListSound(l) ==
    /\ load[l] \in [Slots -> Load] /\ list[l] \in Page /\ loading[l] \in BOOLEAN
    /\ OneCurrent(l) /\ SpinnerOwned(l) /\ InOrder(list[l].pages)
    /\ l = "requests" /\ list[l].pages # <<>> => list[l].tab = scope

(* While a mutation is under way the buttons are off, and so the tab stays.  *)
MutationKeepsTab ==
    /\ busy = TRUE <=> mutation.step # "none"
    /\ mutation.step # "none" => mutation.tab = scope

DrawerInv ==
    /\ DrawerTypeOK /\ MutationKeepsTab
    /\ \A l \in Lists : ListSound(l)

(* The types of what is not kept per list.                                   *)
DrawerRest ==
    /\ scope \in Tabs /\ mayApprove \in BOOLEAN /\ sync \in BOOLEAN /\ busy \in BOOLEAN
    /\ due \subseteq {"requests", "context"}
    /\ mutation \in [step : {"none", "calling", "refreshing"}, list : Lists \cup {"nothing"}, tab : Tabs]
    /\ changes \in Nat

(* What is kept per list, as functions of the lists.                         *)
AreFunctions ==
    /\ load \in [Lists -> [Slots -> Load]]
    /\ list \in [Lists -> Page]
    /\ loading \in [Lists -> BOOLEAN]

LEMMA DrawerParts == DrawerInv <=> /\ DrawerRest /\ AreFunctions /\ MutationKeepsTab
                                   /\ \A l \in Lists : ListSound(l)
  BY DEF DrawerInv, DrawerTypeOK, DrawerRest, AreFunctions, Load, Page

LEMMA DrawerPartsNext ==
    DrawerRest' /\ AreFunctions' /\ MutationKeepsTab' /\ (\A l \in Lists : ListSound(l)') => DrawerInv'
  BY DEF DrawerInv, DrawerTypeOK, DrawerRest, AreFunctions, Load, Page

LEMMA NoLoadIs == /\ NoLoad \in Load /\ NoLoad.current = FALSE /\ NoLoad.on = FALSE
                  /\ [NoLoad EXCEPT !.current = FALSE] = NoLoad
  <1>1. NoLoad \in Load
    BY DEF Load
  <1>2. NoLoad.current = FALSE /\ NoLoad.on = FALSE
    BY DEF NoLoad
  <1> DEFINE Any == [on : BOOLEAN, tab : {"my_requests"}, page : Nat, current : BOOLEAN, awaited : BOOLEAN]
  <1>3. NoLoad \in Any
    BY DEF NoLoad
  <1>4. ASSUME NEW r \in Any, r.current = FALSE PROVE [r EXCEPT !.current = FALSE] = r
    BY <1>4
  <1> QED BY <1>1, <1>2, <1>3, <1>4

LEMMA EmptyListIs == \A tab \in Tabs : /\ EmptyList(tab) \in Page /\ EmptyList(tab).pages = <<>>
                                       /\ EmptyList(tab).tab = tab /\ InOrder(EmptyList(tab).pages)
  BY DEF EmptyList, Page, InOrder

LEMMA ListsAre == "requests" \in Lists /\ "alerts" \in Lists
  BY DEF Lists

LEMMA InitDrawerInv == DrawerInit => DrawerInv
  <1> SUFFICES ASSUME DrawerInit PROVE DrawerInv
    OBVIOUS
  <1>1. DrawerRest
    BY DEF DrawerInit, DrawerRest, Tabs, NoMutation, Lists
  <1>2. "my_requests" \in Tabs
    BY DEF Tabs
  <1>3. AreFunctions
    BY <1>2, NoLoadIs, EmptyListIs DEF DrawerInit, AreFunctions
  <1>4. MutationKeepsTab
    BY DEF DrawerInit, MutationKeepsTab, NoMutation
  <1>5. ASSUME NEW l \in Lists PROVE ListSound(l)
    <2>1. \A s \in Slots : load[l][s] = NoLoad
      BY <1>5 DEF DrawerInit
    <2>2. list[l] = EmptyList("my_requests") /\ (loading[l] <=> l = "requests") /\ "requests" \in due
      BY <1>5 DEF DrawerInit
    <2>3. OneCurrent(l)
      BY <2>1, NoLoadIs DEF OneCurrent
    <2>4. SpinnerOwned(l)
      BY <2>2 DEF SpinnerOwned
    <2> QED BY <1>2, <1>3, <2>2, <2>3, <2>4, EmptyListIs DEF ListSound, AreFunctions
  <1> QED BY <1>1, <1>3, <1>4, <1>5, DrawerParts

(* A list that a step leaves alone stays sound, as the tab stays, or is not  *)
(* the one of the tab, and no effect that was due is forgotten.              *)
LEMMA ListKept ==
  ASSUME NEW l \in Lists, ListSound(l), load'[l] = load[l], list'[l] = list[l], loading'[l] = loading[l],
         l = "requests" => scope' = scope /\ ("requests" \in due => "requests" \in due')
  PROVE  ListSound(l)'
  <1>1. OneCurrent(l)'
    BY DEF OneCurrent, ListSound
  <1>2. SpinnerOwned(l)'
    BY DEF SpinnerOwned, ListSound
  <1> QED BY <1>1, <1>2 DEF ListSound, InOrder

(* The loads of a list when they are superseded.                             *)
LEMMA SupersededLoads ==
  ASSUME NEW l \in Lists, load[l] \in [Slots -> Load]
  PROVE  /\ Superseded(l) \in [Slots -> Load]
         /\ \A s \in Slots : Superseded(l)[s].current = FALSE
  <1> SUFFICES ASSUME NEW s \in Slots
               PROVE  /\ [load[l][s] EXCEPT !.current = FALSE] \in Load
                      /\ [load[l][s] EXCEPT !.current = FALSE].current = FALSE
    BY DEF Superseded
  <1>1. CASE load[l][s] = NoLoad
    BY <1>1, NoLoadIs
  <1>2. CASE load[l][s] # NoLoad
    BY <1>2 DEF Load
  <1> QED BY <1>1, <1>2

(* A new load is the only current one of its list.                           *)
LEMMA LoadPageKeeps ==
  ASSUME AreFunctions, NEW l \in Lists, NEW tab \in Tabs, NEW page \in Nat, NEW awaited \in BOOLEAN,
         LoadPage(l, tab, page, awaited), list' = list, scope' = scope, ListSound(l),
         l = "requests" => tab = scope,
         page # 1 => page = Len(list[l].pages) + 1
  PROVE  /\ ListSound(l)' /\ AreFunctions'
         /\ \A k \in Lists : k # l => load'[k] = load[k] /\ loading'[k] = loading[k]
  <1> DEFINE new == [on |-> TRUE, tab |-> tab, page |-> page, current |-> TRUE, awaited |-> awaited]
             z == CHOOSE s \in Slots : Free(l, s)
             loads == [Superseded(l) EXCEPT ![z] = new]
  <1>1. z \in Slots
    BY DEF LoadPage
  <1>2. /\ new \in Load /\ new.on = TRUE /\ new.tab = tab /\ new.page = page /\ new.current = TRUE
    BY DEF Load
  <1>3. load' = [load EXCEPT ![l] = loads] /\ loading' = [loading EXCEPT ![l] = TRUE]
    BY DEF LoadPage
  <1>4. Superseded(l) \in [Slots -> Load] /\ \A s \in Slots : Superseded(l)[s].current = FALSE
    BY SupersededLoads DEF AreFunctions
  <1> HIDE DEF new, z
  <1>5. /\ loads \in [Slots -> Load] /\ loads[z] = new
        /\ \A s \in Slots : s # z => loads[s].current = FALSE
    BY <1>1, <1>2, <1>4
  <1> HIDE DEF loads
  <1>6. /\ load' \in [Lists -> [Slots -> Load]] /\ load'[l] = loads
        /\ loading' \in [Lists -> BOOLEAN] /\ loading'[l] = TRUE
        /\ \A k \in Lists : k # l => load'[k] = load[k] /\ loading'[k] = loading[k]
    BY <1>3, <1>5 DEF AreFunctions
  <1>7. OneCurrent(l)'
    BY <1>1, <1>2, <1>5, <1>6 DEF OneCurrent
  <1>8. SpinnerOwned(l)'
    BY <1>1, <1>2, <1>5, <1>6 DEF SpinnerOwned
  <1>9. ListSound(l)'
    BY <1>5, <1>6, <1>7, <1>8 DEF ListSound, InOrder, AreFunctions
  <1> QED BY <1>6, <1>9 DEF AreFunctions

(* The drawer after a load has begun, and nothing else of the lists changed. *)
LEMMA LoadBegins ==
  ASSUME DrawerInv, NEW l \in Lists, NEW tab \in Tabs, NEW page \in Nat, NEW awaited \in BOOLEAN,
         LoadPage(l, tab, page, awaited), list' = list, scope' = scope,
         l = "requests" => tab = scope,
         page # 1 => page = Len(list[l].pages) + 1,
         "requests" \in due => "requests" \in due' \/ l = "requests",
         DrawerRest', MutationKeepsTab'
  PROVE  DrawerInv'
  <1>1. AreFunctions /\ \A k \in Lists : ListSound(k)
    BY DrawerParts
  <1>2. /\ ListSound(l)' /\ AreFunctions'
        /\ \A k \in Lists : k # l => load'[k] = load[k] /\ loading'[k] = loading[k]
    BY <1>1, LoadPageKeeps
  <1>3. ASSUME NEW k \in Lists, k # l PROVE ListSound(k)'
    <2>1. k = "requests" => scope' = scope /\ ("requests" \in due => "requests" \in due')
      BY <1>3
    <2> QED BY <1>1, <1>2, <1>3, <2>1, ListKept
  <1> QED BY <1>2, <1>3, DrawerPartsNext

(* The drawer after a step that touches no list.                             *)
LEMMA ListsStay ==
  ASSUME DrawerInv, load' = load, list' = list, loading' = loading, scope' = scope,
         "requests" \in due => "requests" \in due',
         DrawerRest', MutationKeepsTab'
  PROVE  DrawerInv'
  <1>1. AreFunctions' /\ \A k \in Lists : ListSound(k)
    BY DrawerParts DEF AreFunctions
  <1>2. \A k \in Lists : ListSound(k)'
    BY <1>1, ListKept
  <1> QED BY <1>1, <1>2, DrawerPartsNext

LEMMA PagesGrow ==
  ASSUME NEW pages \in Seq(Nat), InOrder(pages)
  PROVE  /\ <<1>> \in Seq(Nat) /\ InOrder(<<1>>)
         /\ Append(pages, Len(pages) + 1) \in Seq(Nat) /\ InOrder(Append(pages, Len(pages) + 1))
  BY DEF InOrder

(* A load ends.  If it was the current one there is none now, and the        *)
(* spinner is off; if it was not, nobody notices.                            *)
LEMMA LoadOver ==
  ASSUME AreFunctions, NEW l \in Lists, NEW s \in Slots, ListSound(l), LoadIsOver(l, s)
  PROVE  /\ load' \in [Lists -> [Slots -> Load]]
         /\ load'[l][s].current = FALSE
         /\ \A z \in Slots : z # s => load'[l][z] = load[l][z]
         /\ \A k \in Lists : k # l => load'[k] = load[k]
         /\ load[l][s].current = TRUE => \A z \in Slots : load'[l][z].current # TRUE
  <1>1. /\ load' \in [Lists -> [Slots -> Load]] /\ load'[l][s] = NoLoad
        /\ \A z \in Slots : z # s => load'[l][z] = load[l][z]
        /\ \A k \in Lists : k # l => load'[k] = load[k]
    BY NoLoadIs DEF LoadIsOver, AreFunctions
  <1>2. ASSUME load[l][s].current = TRUE, NEW z \in Slots PROVE load'[l][z].current # TRUE
    <2>1. z # s => load[l][z].current # TRUE
      BY <1>2 DEF ListSound, OneCurrent
    <2> QED BY <1>1, <2>1, NoLoadIs
  <1> QED BY <1>1, <1>2, NoLoadIs

LEMMA LoadEndsKeeps ==
  ASSUME DrawerInv, NEW l \in Lists, NEW s \in Slots, LoadEnds(l, s)
  PROVE  DrawerInv'
  <1>1. /\ AreFunctions /\ DrawerRest /\ MutationKeepsTab /\ \A k \in Lists : ListSound(k)
    BY DrawerParts
  <1>2. /\ LoadIsOver(l, s) /\ load[l][s].on
        /\ UNCHANGED <<scope, mayApprove, sync, due, mutation, busy, changes>>
    BY DEF LoadEnds, loadReturns, loadFails
  <1>3. DrawerRest' /\ MutationKeepsTab'
    BY <1>1, <1>2 DEF DrawerRest, MutationKeepsTab
  <1>4. /\ load' \in [Lists -> [Slots -> Load]]
        /\ load'[l][s].current = FALSE
        /\ \A z \in Slots : z # s => load'[l][z] = load[l][z]
        /\ \A k \in Lists : k # l => load'[k] = load[k]
        /\ load[l][s].current = TRUE => \A z \in Slots : load'[l][z].current # TRUE
    BY <1>1, <1>2, LoadOver
  <1>5. load[l][s] \in Load /\ load[l][s].current \in BOOLEAN /\ list[l] \in Page
    BY <1>1, NoLoadIs DEF AreFunctions, Load
  <1>6. CASE load[l][s].current # TRUE
    <2>1. list' = list /\ loading' = loading
      BY <1>6, <1>5 DEF LoadEnds, loadReturns, loadFails, Shows
    <2>2. OneCurrent(l)'
      <3>1. OneCurrent(l) /\ scope' = scope
        BY <1>1, <1>2 DEF ListSound
      <3>2. \A z \in Slots : load'[l][z].current = TRUE => load'[l][z] = load[l][z]
        BY <1>4
      <3> QED BY <2>1, <3>1, <3>2 DEF OneCurrent
    <2>3. SpinnerOwned(l)'
      BY <1>1, <1>2, <1>4, <1>6, <2>1 DEF ListSound, SpinnerOwned
    <2>4. ListSound(l)'
      BY <1>1, <1>2, <1>4, <2>1, <2>2, <2>3 DEF ListSound, InOrder
    <2>5. \A k \in Lists : k # l => ListSound(k)'
      BY <1>1, <1>2, <1>4, <2>1, ListKept
    <2>6. AreFunctions'
      BY <1>1, <1>4, <2>1 DEF AreFunctions
    <2> QED BY <1>3, <2>4, <2>5, <2>6, DrawerPartsNext
  <1>7. CASE load[l][s].current = TRUE
    <2>1. /\ loading' = [loading EXCEPT ![l] = FALSE]
          /\ \A k \in Lists : k # l => list'[k] = list[k]
      BY <1>1, <1>7 DEF LoadEnds, loadReturns, loadFails, Shows, AreFunctions
    <2>2. loading' \in [Lists -> BOOLEAN] /\ loading'[l] = FALSE /\ \A k \in Lists : k # l => loading'[k] = loading[k]
      BY <1>1, <2>1 DEF AreFunctions
    <2>3. OneCurrent(l)' /\ SpinnerOwned(l)'
      BY <1>4, <1>7, <2>2 DEF OneCurrent, SpinnerOwned
    <2>4. \A k \in Lists : k # l => ListSound(k)'
      BY <1>1, <1>2, <1>4, <2>1, <2>2, ListKept
    <2>5. /\ list' \in [Lists -> Page] /\ InOrder(list[l].pages)'
          /\ l = "requests" /\ list'[l].pages # <<>> => list'[l].tab = scope
      <3>1. CASE list' = list
        BY <1>1, <3>1 DEF AreFunctions, ListSound, InOrder
      <3>2. CASE loadReturns(l, s)
        <4> DEFINE it == load[l][s]
                   pages == IF it.page = 1 THEN <<1>> ELSE Append(list[l].pages, it.page)
        <4>1. /\ it.tab \in Tabs /\ it.page \in Nat
              /\ l = "requests" => it.tab = scope
              /\ it.page # 1 => it.page = Len(list[l].pages) + 1
          <5>1. it # NoLoad /\ it \in Load
            BY <1>5, <1>7, NoLoadIs
          <5>2. it.tab \in Tabs /\ it.page \in Nat
            BY <5>1 DEF Load
          <5> QED BY <1>1, <1>7, <5>2 DEF ListSound, OneCurrent
        <4>2. list[l].pages \in Seq(Nat) /\ InOrder(list[l].pages)
          BY <1>1, <1>5 DEF ListSound, Page
        <4>3. pages \in Seq(Nat) /\ InOrder(pages)
          BY <4>1, <4>2, PagesGrow
        <4>4. PICK more \in BOOLEAN :
                list' = [list EXCEPT ![l] = [tab |-> it.tab, more |-> more /\ it.page < MaxPages, pages |-> pages]]
          BY <1>7, <3>2 DEF loadReturns, Shows
        <4> HIDE DEF pages, it
        <4> DEFINE p == [tab |-> it.tab, more |-> more /\ it.page < MaxPages, pages |-> pages]
        <4>5. p \in Page /\ p.tab = it.tab /\ p.pages = pages
          BY <4>1, <4>3 DEF Page
        <4> HIDE DEF p
        <4>6. list' \in [Lists -> Page] /\ list'[l] = p
          BY <1>1, <4>4, <4>5 DEF AreFunctions, p
        <4> QED BY <4>1, <4>3, <4>5, <4>6 DEF InOrder
      <3> QED BY <1>7, <3>1, <3>2 DEF LoadEnds, loadFails
    <2>6. ListSound(l)' /\ AreFunctions'
      BY <1>2, <1>4, <2>2, <2>3, <2>5 DEF ListSound, AreFunctions
    <2> QED BY <1>3, <2>4, <2>6, DrawerPartsNext
  <1> QED BY <1>5, <1>6, <1>7

(* Another tab: its list is empty, no load is current, and the effect that   *)
(* will load it is due.  No mutation is under way.                           *)
LEMMA SelectKeeps ==
  ASSUME DrawerInv, NEW tab \in Tabs, selectTab(tab)
  PROVE  DrawerInv'
  <1> DEFINE l == "requests"
  <1>1. /\ AreFunctions /\ DrawerRest /\ MutationKeepsTab /\ \A k \in Lists : ListSound(k)
    BY DrawerParts
  <1>2. /\ tab # scope /\ busy # TRUE /\ scope' = tab /\ due' = due \cup {"requests"}
        /\ UNCHANGED <<mayApprove, sync, mutation, busy>> /\ changes' = changes + 1
    BY DEF selectTab, CanSelect
  <1>3. DrawerRest'
    BY <1>1, <1>2 DEF DrawerRest
  <1>4. MutationKeepsTab'
    BY <1>1, <1>2 DEF MutationKeepsTab
  <1>5. Superseded(l) \in [Slots -> Load] /\ \A s \in Slots : Superseded(l)[s].current = FALSE
    BY <1>1, SupersededLoads, ListsAre DEF AreFunctions
  <1>6. EmptyList(tab) \in Page /\ EmptyList(tab).pages = <<>>
    BY EmptyListIs
  <1>7. /\ load' = [load EXCEPT ![l] = Superseded(l)] /\ list' = [list EXCEPT ![l] = EmptyList(tab)]
        /\ loading' = [loading EXCEPT ![l] = TRUE]
    BY DEF selectTab
  <1>8. /\ AreFunctions' /\ load'[l] = Superseded(l) /\ list'[l] = EmptyList(tab)
        /\ \A k \in Lists : k # l => load'[k] = load[k] /\ list'[k] = list[k] /\ loading'[k] = loading[k]
    BY <1>1, <1>5, <1>6, <1>7, ListsAre DEF AreFunctions
  <1>9. OneCurrent(l)' /\ SpinnerOwned(l)'
    BY <1>2, <1>5, <1>8 DEF OneCurrent, SpinnerOwned
  <1>10. InOrder(list[l].pages)'
    BY <1>6, <1>8 DEF InOrder
  <1>11. ListSound(l)'
    BY <1>6, <1>8, <1>9, <1>10, ListsAre DEF ListSound, AreFunctions
  <1>12. ASSUME NEW k \in Lists, k # l PROVE ListSound(k)'
    BY <1>1, <1>8, <1>12, ListKept
  <1> QED BY <1>3, <1>4, <1>8, <1>11, <1>12, DrawerPartsNext

(* The steps that begin a load.                                              *)
LEMMA LoadersKeep ==
  ASSUME DrawerInv, \/ requestsEffect \/ refresh \/ \E l \in Lists : loadMore(l)
  PROVE  DrawerInv'
  <1>1. /\ AreFunctions /\ DrawerRest /\ MutationKeepsTab /\ \A k \in Lists : ListSound(k)
    BY DrawerParts
  <1>2. /\ UNCHANGED <<scope, mayApprove, sync, list, mutation, busy, changes>> /\ due' \subseteq due
    BY DEF requestsEffect, refresh, loadMore
  <1>3. DrawerRest' /\ MutationKeepsTab'
    BY <1>1, <1>2 DEF DrawerRest, MutationKeepsTab
  <1>4. scope \in Tabs /\ \A l \in Lists : list[l].tab \in Tabs /\ list[l].pages \in Seq(Nat)
    BY <1>1 DEF DrawerRest, AreFunctions, Page
  <1>5. CASE requestsEffect \/ refresh
    <2>1. LoadPage("requests", scope, 1, FALSE)
      BY <1>5 DEF requestsEffect, refresh
    <2> QED BY <1>2, <1>3, <1>4, <2>1, LoadBegins, ListsAre
  <1>6. CASE \E l \in Lists : loadMore(l)
    <2>1. PICK l \in Lists : loadMore(l)
      BY <1>6
    <2> DEFINE tab == IF l = "requests" THEN scope ELSE list[l].tab
               page == Len(list[l].pages) + 1
    <2>2. tab \in Tabs /\ page \in Nat /\ (l = "requests" => tab = scope)
      BY <1>4
    <2>3. LoadPage(l, tab, page, FALSE) /\ due' = due
      BY <2>1 DEF loadMore
    <2>4. page = Len(list[l].pages) + 1
      OBVIOUS
    <2> HIDE DEF tab, page
    <2> QED BY <1>2, <1>3, <2>2, <2>3, <2>4, LoadBegins
  <1> QED BY <1>5, <1>6

LEMMA SyncKeeps ==
  ASSUME DrawerInv, SyncEnds
  PROVE  DrawerInv'
  <1>1. /\ AreFunctions /\ DrawerRest /\ MutationKeepsTab /\ \A k \in Lists : ListSound(k)
    BY DrawerParts
  <1>2. /\ UNCHANGED <<scope, due, list, mutation, busy, changes>> /\ sync' = FALSE /\ mayApprove' \in BOOLEAN
    BY <1>1 DEF SyncEnds, syncReturns, syncFails, DrawerRest
  <1>3. DrawerRest' /\ MutationKeepsTab'
    BY <1>1, <1>2 DEF DrawerRest, MutationKeepsTab
  <1>4. \/ LoadPage("alerts", "my_requests", 1, FALSE) \/ UNCHANGED <<load, loading>>
    BY DEF SyncEnds, syncReturns, syncFails
  <1>5. CASE LoadPage("alerts", "my_requests", 1, FALSE)
    <2>1. "my_requests" \in Tabs
      BY DEF Tabs
    <2> QED BY <1>2, <1>3, <1>5, <2>1, LoadBegins, ListsAre
  <1>6. CASE UNCHANGED <<load, loading>>
    BY <1>2, <1>3, <1>6, ListsStay
  <1> QED BY <1>4, <1>5, <1>6

LEMMA MutationKeeps ==
  ASSUME DrawerInv, MutationEnds \/ \E refreshes \in Lists \cup {"nothing"} : beginMutation(refreshes)
  PROVE  DrawerInv'
  <1>1. /\ AreFunctions /\ DrawerRest /\ MutationKeepsTab /\ \A k \in Lists : ListSound(k)
    BY DrawerParts
  <1>2. UNCHANGED <<scope, mayApprove, sync, due, list, changes>>
    BY DEF MutationEnds, mutationReturns, mutationFails, refreshEnds, beginMutation
  <1> DEFINE Mutation == [step : {"none", "calling", "refreshing"}, list : Lists \cup {"nothing"}, tab : Tabs]
  <1>3. mutation \in Mutation /\ scope \in Tabs /\ NoMutation \in Mutation /\ NoMutation.step = "none"
    BY <1>1 DEF DrawerRest, NoMutation, Tabs, Lists
  <1>4. ASSUME mutation' \in Mutation, busy' \in BOOLEAN PROVE DrawerRest'
    BY <1>1, <1>2, <1>4 DEF DrawerRest
  <1>5. CASE MutationIsOver /\ UNCHANGED <<load, loading>>
    <2>1. DrawerRest' /\ MutationKeepsTab'
      BY <1>3, <1>4, <1>5 DEF MutationIsOver, MutationKeepsTab
    <2> QED BY <1>2, <1>5, <2>1, ListsStay
  <1>6. CASE \E refreshes \in Lists \cup {"nothing"} : beginMutation(refreshes)
    <2>1. PICK refreshes \in Lists \cup {"nothing"} : beginMutation(refreshes)
      BY <1>6
    <2> DEFINE m == [step |-> "calling", list |-> refreshes, tab |-> scope]
    <2>2. m \in Mutation /\ m.step = "calling" /\ m.tab = scope
      BY <1>3
    <2>3. mutation' = m /\ busy' = TRUE /\ UNCHANGED <<load, loading>>
      BY <2>1 DEF beginMutation
    <2> HIDE DEF m
    <2>4. DrawerRest' /\ MutationKeepsTab'
      BY <1>2, <1>4, <2>2, <2>3 DEF MutationKeepsTab
    <2> QED BY <1>2, <2>3, <2>4, ListsStay
  <1>7. CASE mutationReturns /\ mutation.list \in Lists
    <2> DEFINE m == [mutation EXCEPT !.step = "refreshing"]
    <2>1. m \in Mutation /\ m.step = "refreshing" /\ m.tab = mutation.tab /\ mutation.tab \in Tabs
      BY <1>3
    <2>2. mutation' = m /\ busy' = busy /\ LoadPage(mutation.list, mutation.tab, 1, TRUE) /\ mutation.step = "calling"
      BY <1>7 DEF mutationReturns
    <2> HIDE DEF m
    <2>3. mutation.tab = scope /\ busy = TRUE
      BY <1>1, <2>2 DEF MutationKeepsTab
    <2>4. DrawerRest' /\ MutationKeepsTab'
      BY <1>2, <1>4, <2>1, <2>2, <2>3 DEF MutationKeepsTab
    <2> QED BY <1>2, <1>7, <2>1, <2>2, <2>3, <2>4, LoadBegins
  <1> QED BY <1>5, <1>6, <1>7 DEF MutationEnds, mutationReturns, mutationFails, refreshEnds

LEMMA NextDrawerInv == DrawerInv /\ [DrawerNext]_drawerVars => DrawerInv'
  <1> SUFFICES ASSUME DrawerInv, [DrawerNext]_drawerVars PROVE DrawerInv'
    OBVIOUS
  <1>1. DrawerRest /\ MutationKeepsTab
    BY DrawerParts
  <1>2. CASE NewContext
    <2>1. DrawerRest' /\ MutationKeepsTab'
      BY <1>1, <1>2 DEF NewContext, DrawerRest, MutationKeepsTab
    <2> QED BY <1>2, <2>1, ListsStay DEF NewContext
  <1>3. CASE contextEffect
    BY <1>1, <1>3, ListsStay DEF contextEffect, DrawerRest, MutationKeepsTab
  <1>4. CASE requestsEffect
    BY <1>4, LoadersKeep
  <1>5. CASE SyncEnds
    BY <1>5, SyncKeeps
  <1>6. CASE UserActs
    BY <1>6, SelectKeeps, LoadersKeep, MutationKeeps DEF UserActs
  <1>7. CASE MutationEnds
    BY <1>7, MutationKeeps
  <1>8. CASE \E l \in Lists, s \in Slots : LoadEnds(l, s)
    BY <1>8, LoadEndsKeeps
  <1>9. CASE UNCHANGED drawerVars
    BY <1>1, <1>9, ListsStay DEF drawerVars, DrawerRest, MutationKeepsTab
  <1> QED BY <1>2, <1>3, <1>4, <1>5, <1>6, <1>7, <1>8, <1>9 DEF DrawerNext

(* The loads, the spinners and the mutations of the drawer keep to one       *)
(* another, whatever order answers come in (RefundDrawer.tsx).               *)
THEOREM DrawerInvariance == DrawerSpec => []DrawerInv
  BY InitDrawerInv, NextDrawerInv, PTL DEF DrawerSpec

(* What is shown under a tab is the beginning of the list of that tab, for   *)
(* any number of loads under way, pages and changes of the tab               *)
(* (RefundDrawer.tsx loadRequests, loadAlerts, onSelectionChange).           *)
THEOREM ListTrue == DrawerSpec => []ListIsTrue
  <1>1. DrawerInv => ListIsTrue
    BY DrawerParts, ListsAre DEF ListSound, ListIsTrue, ListIsOfTab, PagesInOrder, InOrder
  <1> QED BY <1>1, DrawerInvariance, PTL

(* Nothing on the screen waits for nobody, although a superseded load ends   *)
(* without a word (RefundDrawer.tsx, the finally blocks).                    *)
THEOREM NoSpinnerOrphaned == DrawerSpec => []NoOrphanSpinner
  <1>1. DrawerInv => NoOrphanSpinner
    <2> SUFFICES ASSUME DrawerInv PROVE NoOrphanSpinner
      OBVIOUS
    <2>1. busy => mutation.step # "none"
      BY DrawerParts DEF DrawerRest, MutationKeepsTab
    <2>2. ASSUME NEW l \in Lists, loading[l]
          PROVE  \/ \E s \in Slots : load[l][s].on /\ load[l][s].current
                 \/ l = "requests" /\ "requests" \in due
      <3>1. loading[l] = TRUE /\ ListSound(l)
        BY <2>2, DrawerParts DEF ListSound
      <3>2. \/ \E s \in Slots : load[l][s].current = TRUE /\ load[l][s].on = TRUE
            \/ l = "requests" /\ "requests" \in due
        BY <3>1 DEF ListSound, SpinnerOwned, OneCurrent
      <3> QED BY <3>2
    <2> QED BY <2>1, <2>2 DEF NoOrphanSpinner
  <1> QED BY <1>1, DrawerInvariance, PTL

-------------------------------------------------------------------------------
(* The windows of the scan.                                                  *)

(* Whole seconds: dividing keeps the order of two instants.                  *)
LEMMA Quotient ==
  ASSUME NEW a \in Nat, NEW s \in Nat \ {0}
  PROVE  a \div s \in Nat /\ a % s \in 0..(s - 1) /\ a = s * (a \div s) + (a % s)
  OBVIOUS

LEMMA Stretched ==
  ASSUME NEW x \in Int, NEW y \in Int, NEW s \in Nat \ {0}, x > y
  PROVE  s * x >= s * y + s
  OBVIOUS

LEMMA DivisionIsMonotone ==
  ASSUME NEW a \in Nat, NEW b \in Nat, a <= b, NEW s \in Nat \ {0}
  PROVE  a \div s <= b \div s
  <1> DEFINE x == a \div s
             y == b \div s
             m == a % s
             n == b % s
  <1>1. /\ x \in Nat /\ y \in Nat /\ m \in 0..(s - 1) /\ n \in 0..(s - 1)
        /\ a = s * x + m /\ b = s * y + n
    BY Quotient
  <1> HIDE DEF x, y, m, n
  <1>2. SUFFICES ASSUME x > y PROVE FALSE
    BY <1>1 DEF x, y
  <1>3. s * x >= s * y + s
    BY <1>1, <1>2, Stretched
  <1>4. s * x \in Int /\ s * y \in Int
    BY <1>1
  <1> QED BY <1>1, <1>3, <1>4

LEMMA ScanConstants ==
  /\ MaxRefunds \in Nat /\ Overlap \in Nat /\ Delay \in Nat /\ MaxSkew \in Nat /\ InstalledAt \in Nat
  /\ Second \in Nat \ {0} /\ PageSize \in Nat \ {0}
  /\ Delay + MaxSkew <= Overlap /\ None \notin Int
  BY ScanAssumption

LEMMA StampIsMonotone ==
  ASSUME NEW t \in Int, NEW u \in Int, t <= u
  PROVE  stripeTimestamp(t) \in Nat /\ stripeTimestamp(u) \in Nat /\ stripeTimestamp(t) <= stripeTimestamp(u)
  <1>1. ASSUME NEW v \in Int PROVE stripeTimestamp(v) \in Nat
    BY Quotient, ScanConstants DEF stripeTimestamp
  <1>2. CASE t > 0
    <2>1. t \in Nat /\ u \in Nat /\ u > 0
      BY <1>2
    <2>2. t \div Second <= u \div Second
      BY <2>1, DivisionIsMonotone, ScanConstants
    <2> QED BY <1>1, <1>2, <2>1, <2>2 DEF stripeTimestamp
  <1>3. CASE ~(t > 0)
    <2>1. stripeTimestamp(t) = 0
      BY <1>3 DEF stripeTimestamp
    <2> QED BY <1>1, <2>1
  <1> QED BY <1>2, <1>3

(* A refund that is stamped before an instant's second was born before it.   *)
LEMMA StampedBefore ==
  ASSUME NEW b \in Nat, NEW t \in Int, b \div Second < stripeTimestamp(t)
  PROVE  b < t
  <1>1. b \div Second \in Nat
    BY Quotient, ScanConstants
  <1>2. t > 0 /\ stripeTimestamp(t) = t \div Second
    BY <1>1 DEF stripeTimestamp
  <1>3. SUFFICES ASSUME t <= b PROVE FALSE
    OBVIOUS
  <1>4. t \in Nat /\ Second \in Nat \ {0}
    BY <1>2, ScanConstants
  <1>5. t \div Second <= b \div Second
    BY <1>3, <1>4, DivisionIsMonotone
  <1>6. t \div Second \in Nat
    BY <1>4, Quotient
  <1> QED BY <1>1, <1>2, <1>5, <1>6

Window == [step : {"idle", "load", "list", "observe", "commit"}, windowEnd : Nat,
           previous : Nat \cup {None}, windowStart : Int,
           cursor : Refunds \cup {None}, page : SUBSET Refunds, more : BOOLEAN]

(* The clocks: a refund is born after the installation and shown in time,    *)
(* and the worker's clock is near Stripe's.                                  *)
ClocksAgree ==
    /\ \A n \in Refunds : IsRefund(n) => /\ InstalledAt <= born[n] /\ born[n] <= stripeTime
                                         /\ n \notin visible => stripeTime <= born[n] + Delay
    /\ \A n \in visible : IsRefund(n)
    /\ InstalledAt <= stripeTime
    /\ clock <= stripeTime + MaxSkew
    /\ committed # None => committed <= stripeTime + MaxSkew

(* The refunds a window w may claim to have seen once it is committed.       *)
Early(w, n) == IsRefund(n) /\ Created(n) < stripeTimestamp(w.windowEnd - Overlap)

Loaded(w) == w.step \in {"list", "observe", "commit"}

(* How far a window has come: each early refund was observed or is still     *)
(* ahead of it, in its page or in the rest of the list.                      *)
Ahead(w, n) ==
    /\ w.step = "list" => n \in observed \/ w.cursor = None \/ Older(n, w.cursor)
    /\ w.step = "observe" =>
           \/ n \in observed
           \/ n \in w.page
           \/ w.more = TRUE /\ \A x \in w.page : Older(n, x)
    /\ w.step = "commit" => n \in observed

WindowSound(w) ==
    /\ w \in Window
    /\ w.windowEnd <= stripeTime + MaxSkew
    /\ w.page \subseteq visible /\ (w.cursor # None => w.cursor \in visible)
    /\ ~Loaded(w) => w.cursor = None
    /\ Loaded(w) => /\ w.windowStart = WindowStart(w.previous, w.windowEnd)
                    /\ w.previous # None => committed # None /\ w.previous <= committed
                    /\ \A n \in Refunds : Early(w, n) => Ahead(w, n)

ScanInv ==
    /\ ScanTypeOK /\ ClocksAgree /\ NoBlindSpot
    /\ \A p \in Scans : WindowSound(window[p])

LEMMA NoWindowIs == /\ NoWindow \in Window /\ NoWindow.step = "idle" /\ NoWindow.windowEnd = 0
                    /\ NoWindow.page = {} /\ NoWindow.cursor = None
  BY DEF NoWindow, Window

LEMMA NoWindowSound == stripeTime \in Nat => WindowSound(NoWindow)
  BY NoWindowIs, ScanConstants DEF WindowSound, Loaded

LEMMA InitScanInv == ScanInit => ScanInv
  <1> SUFFICES ASSUME ScanInit PROVE ScanInv
    OBVIOUS
  <1>1. \A n \in Refunds : ~IsRefund(n)
    BY DEF ScanInit, IsRefund
  <1>2. window \in [Scans -> Window] /\ stripeTime \in Nat
    BY NoWindowIs, ScanConstants DEF ScanInit
  <1>3. ScanTypeOK
    BY <1>2, ScanConstants DEF ScanInit, ScanTypeOK, Window
  <1>4. ClocksAgree
    BY <1>1, ScanConstants DEF ScanInit, ClocksAgree
  <1>5. NoBlindSpot
    BY DEF ScanInit, NoBlindSpot
  <1>6. \A p \in Scans : WindowSound(window[p])
    BY <1>2, NoWindowSound DEF ScanInit
  <1> QED BY <1>3, <1>4, <1>5, <1>6 DEF ScanInv

LEMMA BornIs ==
  ASSUME ScanTypeOK, NEW n \in Refunds, IsRefund(n)
  PROVE  born[n] \in Nat /\ Created(n) \in Nat
  <1>1. born[n] \in Nat
    BY DEF ScanTypeOK, IsRefund
  <1> QED BY <1>1, Quotient, ScanConstants DEF Created

(* Whatever a window may claim to have seen can be listed: it is older than  *)
(* Stripe's delay and the clocks' difference together.                       *)
LEMMA EarlyIsVisible ==
  ASSUME ScanTypeOK, ClocksAgree, NEW n \in Refunds, IsRefund(n), NEW e \in Nat, e <= stripeTime + MaxSkew,
         Created(n) < stripeTimestamp(e - Overlap)
  PROVE  n \in visible /\ born[n] < e - Overlap /\ born[n] < stripeTime
  <1>1. born[n] \in Nat /\ Created(n) = born[n] \div Second /\ e - Overlap \in Int /\ stripeTime \in Nat
    BY BornIs, ScanConstants DEF Created, ScanTypeOK
  <1>2. born[n] < e - Overlap
    BY <1>1, StampedBefore
  <1>3. born[n] + Delay < stripeTime
    BY <1>1, <1>2, ScanConstants
  <1> QED BY <1>1, <1>2, <1>3, ScanConstants DEF ClocksAgree

(* An early refund outside of a window was observed before it.               *)
LEMMA EarlyInWindow ==
  ASSUME ScanInv, NEW p \in Scans, Loaded(window[p]), NEW n \in Refunds, Early(window[p], n), n \notin observed
  PROVE  InWindow(p, n) /\ n \in visible
  <1> DEFINE w == window[p]
  <1>1. /\ ScanTypeOK /\ ClocksAgree /\ NoBlindSpot /\ WindowSound(w) /\ w \in Window
        /\ w.windowEnd \in Nat /\ w.windowStart \in Int /\ w.previous \in Nat \cup {None}
    BY DEF ScanInv, WindowSound, Window
  <1>2. /\ w.windowStart = WindowStart(w.previous, w.windowEnd)
        /\ w.previous # None => committed # None /\ w.previous <= committed
        /\ w.windowEnd <= stripeTime + MaxSkew
    BY <1>1 DEF WindowSound
  <1>3. IsRefund(n) /\ Created(n) < stripeTimestamp(w.windowEnd - Overlap)
    BY DEF Early
  <1> HIDE DEF w
  <1>4. born[n] \in Nat /\ Created(n) \in Nat /\ InstalledAt <= born[n] /\ n \in visible
    BY <1>1, <1>2, <1>3, BornIs, EarlyIsVisible DEF ClocksAgree
  <1>5. Created(n) <= stripeTimestamp(w.windowEnd)
    <2>1. /\ w.windowEnd - Overlap \in Int /\ w.windowEnd - Overlap <= w.windowEnd /\ w.windowEnd \in Int
      BY <1>1, ScanConstants
    <2>2. /\ stripeTimestamp(w.windowEnd - Overlap) \in Nat /\ stripeTimestamp(w.windowEnd) \in Nat
          /\ stripeTimestamp(w.windowEnd - Overlap) <= stripeTimestamp(w.windowEnd)
      BY <2>1, StampIsMonotone
    <2> QED BY <1>3, <1>4, <2>2
  <1>6. Created(n) >= stripeTimestamp(w.windowStart)
    <2>1. SUFFICES ASSUME Created(n) < stripeTimestamp(w.windowStart) PROVE FALSE
      <3>1. stripeTimestamp(w.windowStart) \in Nat
        BY <1>1, StampIsMonotone
      <3> QED BY <1>4, <3>1, <2>1
    <2>2. born[n] < w.windowStart
      BY <1>1, <1>4, <2>1, StampedBefore DEF Created
    <2>3. CASE w.previous = None
      <3>1. w.windowStart <= InstalledAt
        BY <1>1, <1>2, <2>3, ScanConstants DEF WindowStart, Least
      <3> QED BY <1>1, <1>4, <2>2, <3>1, ScanConstants
    <2>4. CASE w.previous # None
      <3>1. /\ w.previous \in Nat /\ committed \in Nat /\ w.previous <= committed
            /\ w.windowStart = w.previous - Overlap
        BY <1>1, <1>2, <2>4 DEF WindowStart, ScanTypeOK
      <3>2. /\ w.previous - Overlap \in Int /\ committed - Overlap \in Int
            /\ w.previous - Overlap <= committed - Overlap
        BY <3>1, ScanConstants
      <3>3. /\ stripeTimestamp(w.windowStart) \in Nat /\ stripeTimestamp(committed - Overlap) \in Nat
            /\ stripeTimestamp(w.windowStart) <= stripeTimestamp(committed - Overlap)
        BY <3>1, <3>2, StampIsMonotone
      <3>4. Created(n) < stripeTimestamp(committed - Overlap) /\ committed # None
        BY <1>2, <1>4, <2>1, <2>4, <3>3
      <3>5. n \in observed
        BY <1>1, <1>3, <3>4 DEF NoBlindSpot
      <3> QED BY <3>5
    <2> QED BY <2>3, <2>4
  <1> QED BY <1>4, <1>5, <1>6 DEF InWindow, w

(* A window that another scan, or the world, leaves alone.  Older compares   *)
(* refunds that are born, which stay as they were.                           *)
LEMMA WindowKept ==
  ASSUME ScanTypeOK, ClocksAgree, ScanTypeOK', NEW p \in Scans, WindowSound(window[p]),
         window'[p] = window[p],
         stripeTime <= stripeTime', visible \subseteq visible', observed \subseteq observed',
         committed # None => committed' # None /\ committed <= committed',
         \A n \in Refunds : IsRefund(n) => born'[n] = born[n],
         \A n \in Refunds : IsRefund(n)' /\ ~IsRefund(n) => ~Early(window[p], n)'
  PROVE  WindowSound(window[p])'
  <1> DEFINE w == window[p]
  <1>1. /\ w \in Window /\ w.windowEnd \in Nat /\ w.cursor \in Refunds \cup {None} /\ w.page \in SUBSET Refunds
        /\ w.previous \in Nat \cup {None}
    BY DEF WindowSound, Window
  <1>2. w.windowEnd <= stripeTime' + MaxSkew
    BY <1>1, ScanConstants DEF WindowSound, ScanTypeOK
  <1>3. w.page \subseteq visible' /\ (w.cursor # None => w.cursor \in visible')
    BY DEF WindowSound
  <1>4. w.previous # None /\ Loaded(w) => committed' # None /\ w.previous <= committed'
    BY <1>1 DEF WindowSound, ScanTypeOK
  <1>5. ASSUME NEW n \in Refunds, Early(window[p], n)', Loaded(w)
        PROVE  Ahead(window[p], n)'
    <2>1. IsRefund(n) /\ born'[n] = born[n]
      BY <1>5 DEF Early
    <2>2. Early(w, n)
      BY <1>5, <2>1 DEF Early, Created
    <2>3. Ahead(w, n)
      BY <1>5, <2>2 DEF WindowSound
    <2>4. ASSUME NEW x \in visible PROVE Older(n, x) <=> Older(n, x)'
      <3>1. x \in Refunds /\ born'[x] = born[x]
        BY <2>4 DEF ClocksAgree, ScanTypeOK
      <3> QED BY <2>1, <3>1 DEF Older, Created
    <2>5. (w.cursor # None => w.cursor \in visible) /\ w.page \subseteq visible
      BY DEF WindowSound
    <2>6. w.step = "list" => n \in observed' \/ w.cursor = None \/ (w.cursor # None /\ Older(n, w.cursor))
      BY <2>3 DEF Ahead
    <2>7. w.step = "list" => n \in observed' \/ w.cursor = None \/ Older(n, window[p].cursor)'
      <3> SUFFICES ASSUME w.cursor # None, Older(n, w.cursor) PROVE Older(n, window[p].cursor)'
        BY <2>6
      <3>1. born'[w.cursor] = born[w.cursor]
        BY <2>5 DEF ClocksAgree, ScanTypeOK
      <3> QED BY <2>1, <3>1 DEF Older, Created
    <2> QED BY <2>3, <2>4, <2>5, <2>7 DEF Ahead
  <1> QED BY <1>1, <1>2, <1>3, <1>4, <1>5 DEF WindowSound, Loaded

(* A refund that is born now is not early for any window or checkpoint.      *)
LEMMA NewbornIsNotEarly ==
  ASSUME NEW b \in Nat, NEW now \in Nat, now <= b, NEW e \in Nat, e <= now + MaxSkew
  PROVE  ~(b \div Second < stripeTimestamp(e - Overlap))
  <1> SUFFICES ASSUME b \div Second < stripeTimestamp(e - Overlap) PROVE FALSE
    OBVIOUS
  <1>1. e - Overlap \in Int
    BY ScanConstants
  <1>2. b < e - Overlap
    BY <1>1, StampedBefore
  <1> QED BY <1>2, ScanConstants

(* Stripe and the clocks take a step.                                        *)
LEMMA WorldKeeps ==
  ASSUME ScanInv, ScanTypeOK', ClocksAgree', UNCHANGED <<observed, committed, window>>,
         visible \subseteq visible', stripeTime <= stripeTime',
         \A n \in Refunds : IsRefund(n) => born'[n] = born[n],
         \A n \in Refunds : IsRefund(n)' /\ ~IsRefund(n) => born'[n] \in Nat /\ stripeTime <= born'[n]
  PROVE  ScanInv'
  <1>1. ScanTypeOK /\ ClocksAgree /\ NoBlindSpot /\ stripeTime \in Nat /\ committed \in Nat \cup {None}
    BY DEF ScanInv, ScanTypeOK
  <1>2. ASSUME NEW p \in Scans PROVE WindowSound(window[p])'
    <2>1. WindowSound(window[p]) /\ window[p].windowEnd \in Nat /\ window[p].windowEnd <= stripeTime + MaxSkew
      BY DEF ScanInv, WindowSound, Window
    <2>2. ASSUME NEW n \in Refunds, IsRefund(n)', ~IsRefund(n) PROVE ~Early(window[p], n)'
      <3>1. born'[n] \in Nat /\ stripeTime <= born'[n]
        BY <2>2
      <3>2. ~(born'[n] \div Second < stripeTimestamp(window[p].windowEnd - Overlap))
        BY <1>1, <2>1, <3>1, NewbornIsNotEarly
      <3> QED BY <3>2 DEF Early, Created
    <2> QED BY <1>1, <2>1, <2>2, WindowKept DEF ScanTypeOK
  <1>3. NoBlindSpot'
    <2> SUFFICES ASSUME committed # None, NEW n \in Refunds, IsRefund(n)',
                        (Created(n) < stripeTimestamp(committed - Overlap))'
                 PROVE  n \in observed
      BY DEF NoBlindSpot
    <2>1. committed \in Nat /\ committed <= stripeTime + MaxSkew
      BY <1>1 DEF ClocksAgree
    <2>2. born'[n] \div Second < stripeTimestamp(committed - Overlap)
      BY DEF Created
    <2>3. IsRefund(n)
      <3> SUFFICES ASSUME ~IsRefund(n) PROVE FALSE
        OBVIOUS
      <3>1. born'[n] \in Nat /\ stripeTime <= born'[n]
        OBVIOUS
      <3> QED BY <1>1, <2>1, <2>2, <3>1, NewbornIsNotEarly
    <2>4. born'[n] = born[n]
      BY <2>3
    <2> QED BY <1>1, <2>2, <2>3, <2>4 DEF NoBlindSpot, Created
  <1> QED BY <1>2, <1>3 DEF ScanInv

LEMMA StripeKeeps ==
  ASSUME ScanInv, TimePasses \/ \E n \in Refunds : RefundIsCreated(n) \/ RefundIsListed(n)
  PROVE  ScanInv'
  <1>1. ScanTypeOK /\ ClocksAgree
    BY DEF ScanInv
  <1>2. CASE TimePasses
    <2>1. /\ stripeTime' = stripeTime + 1 /\ clock' >= 0 /\ clock' \in (stripeTime' - MaxSkew)..(stripeTime' + MaxSkew)
          /\ \A n \in Refunds : IsRefund(n) /\ n \notin visible => stripeTime < born[n] + Delay
          /\ UNCHANGED <<born, visible, observed, committed, window, failures>>
      BY <1>2 DEF TimePasses
    <2>2. ScanTypeOK'
      BY <1>1, <2>1, ScanConstants DEF ScanTypeOK, IsRefund
    <2>3. ASSUME NEW n \in Refunds, IsRefund(n)
          PROVE  /\ InstalledAt <= born[n] /\ born[n] <= stripeTime'
                 /\ n \notin visible => stripeTime' <= born[n] + Delay
      <3>1. born[n] \in Nat /\ InstalledAt <= born[n] /\ born[n] <= stripeTime
        BY <1>1, <2>3, BornIs DEF ClocksAgree
      <3> QED BY <1>1, <2>1, <2>3, <3>1, ScanConstants DEF ScanTypeOK
    <2>4. ClocksAgree'
      BY <1>1, <2>1, <2>3, ScanConstants DEF ClocksAgree, IsRefund, ScanTypeOK
    <2> QED BY <1>1, <2>1, <2>2, <2>4, WorldKeeps DEF IsRefund, ScanTypeOK
  <1>3. ASSUME NEW n \in Refunds, RefundIsCreated(n)
        PROVE  ScanInv'
    <2>1. /\ ~IsRefund(n) /\ born' = [born EXCEPT ![n] = stripeTime]
          /\ UNCHANGED <<stripeTime, clock, visible, observed, committed, window, failures>>
      BY <1>3 DEF RefundIsCreated
    <2>2. born'[n] = stripeTime /\ \A m \in Refunds : m # n => born'[m] = born[m]
      BY <1>1, <2>1 DEF ScanTypeOK
    <2>3. ScanTypeOK'
      BY <1>1, <2>1 DEF ScanTypeOK
    <2>4. n \notin visible /\ stripeTime \in Nat
      BY <1>1, <2>1 DEF ClocksAgree, ScanTypeOK
    <2>5. ClocksAgree'
      BY <1>1, <2>1, <2>2, <2>4, ScanConstants DEF ClocksAgree, IsRefund, ScanTypeOK
    <2> QED BY <2>1, <2>2, <2>3, <2>4, <2>5, WorldKeeps DEF IsRefund
  <1>4. ASSUME NEW n \in Refunds, RefundIsListed(n)
        PROVE  ScanInv'
    <2>1. /\ IsRefund(n) /\ visible' = visible \cup {n}
          /\ UNCHANGED <<stripeTime, clock, born, observed, committed, window, failures>>
      BY <1>4 DEF RefundIsListed
    <2>2. ScanTypeOK'
      BY <1>1, <2>1 DEF ScanTypeOK
    <2>3. ClocksAgree'
      BY <1>1, <2>1 DEF ClocksAgree, IsRefund
    <2>4. stripeTime \in Nat
      BY <1>1 DEF ScanTypeOK
    <2> QED BY <2>1, <2>2, <2>3, <2>4, WorldKeeps DEF IsRefund
  <1> QED BY <1>2, <1>3, <1>4

(* One scan takes a step; Stripe, the clocks and the other scans do not.     *)
LEMMA ScanStepKeeps ==
  ASSUME ScanInv, NEW p \in Scans, NEW v \in Window, window' = [window EXCEPT ![p] = v],
         UNCHANGED <<stripeTime, clock, born, visible>>,
         observed \subseteq observed', observed' \subseteq Refunds, failures' \in Nat,
         committed' \in Nat \cup {None},
         committed # None => committed' # None /\ committed <= committed',
         committed' # None => committed' <= stripeTime + MaxSkew,
         NoBlindSpot', WindowSound(window[p])'
  PROVE  ScanInv'
  <1>1. ScanTypeOK /\ ClocksAgree /\ window \in [Scans -> Window]
    BY DEF ScanInv, ScanTypeOK, Window
  <1>2. window' \in [Scans -> Window] /\ \A q \in Scans : q # p => window'[q] = window[q]
    BY <1>1
  <1>3. ScanTypeOK'
    BY <1>1, <1>2 DEF ScanTypeOK, Window
  <1>4. ClocksAgree'
    BY <1>1 DEF ClocksAgree, IsRefund
  <1>5. ASSUME NEW q \in Scans, q # p PROVE WindowSound(window[q])'
    <2>1. WindowSound(window[q]) /\ window'[q] = window[q]
      BY <1>2, <1>5 DEF ScanInv
    <2>2. stripeTime <= stripeTime' /\ visible \subseteq visible'
      BY <1>1 DEF ScanTypeOK
    <2> QED BY <1>1, <1>3, <2>1, <2>2, WindowKept DEF IsRefund
  <1> QED BY <1>3, <1>4, <1>5 DEF ScanInv

(* A scan is over, or has begun: it claims nothing.                          *)
LEMMA FreshWindow ==
  ASSUME ScanInv, NEW p \in Scans, NEW v \in Window, window' = [window EXCEPT ![p] = v],
         v.step \in {"idle", "load"}, v.windowEnd <= stripeTime + MaxSkew,
         v.page \subseteq visible, v.cursor = None,
         UNCHANGED <<stripeTime, visible>>
  PROVE  WindowSound(window[p])'
  <1>1. window'[p] = v
    BY DEF ScanInv, ScanTypeOK
  <1> QED BY <1>1 DEF WindowSound, Loaded

LEMMA EmptiedWindow ==
  ASSUME ScanInv, NEW p \in Scans, window' = [window EXCEPT ![p] = NoWindow], UNCHANGED <<stripeTime, visible>>
  PROVE  WindowSound(window[p])'
  <1>1. /\ NoWindow \in Window /\ NoWindow.step \in {"idle", "load"} /\ NoWindow.page \subseteq visible
        /\ NoWindow.cursor = None
    BY NoWindowIs
  <1>2. NoWindow.windowEnd <= stripeTime + MaxSkew
    BY NoWindowIs, ScanConstants DEF ScanInv, ScanTypeOK
  <1> QED BY <1>1, <1>2, FreshWindow

LEMMA SameBlindSpot ==
  ASSUME ScanInv, UNCHANGED <<born, committed>>, observed \subseteq observed'
  PROVE  /\ NoBlindSpot'
         /\ committed' \in Nat \cup {None}
         /\ committed # None => committed' # None /\ committed <= committed'
         /\ committed' # None => committed' <= stripeTime + MaxSkew
  <1>1. NoBlindSpot /\ ClocksAgree /\ committed \in Nat \cup {None}
    BY DEF ScanInv, ScanTypeOK
  <1>2. NoBlindSpot'
    BY <1>1 DEF NoBlindSpot, IsRefund, Created
  <1> QED BY <1>1, <1>2 DEF ClocksAgree

LEMMA EndKeeps ==
  ASSUME ScanInv, NEW p \in Scans, commitFails(p) \/ windowFails(p)
  PROVE  ScanInv'
  <1>1. /\ window' = [window EXCEPT ![p] = NoWindow]
        /\ UNCHANGED <<stripeTime, clock, born, visible, observed, committed>> /\ failures' \in Nat
    BY DEF commitFails, windowFails, ScanInv, ScanTypeOK
  <1>2. WindowSound(window[p])'
    BY <1>1, EmptiedWindow
  <1>3. /\ NoBlindSpot' /\ committed' \in Nat \cup {None}
        /\ committed # None => committed' # None /\ committed <= committed'
        /\ committed' # None => committed' <= stripeTime + MaxSkew
    BY <1>1, SameBlindSpot
  <1>4. observed' \subseteq Refunds /\ observed \subseteq observed' /\ NoWindow \in Window
    BY <1>1, NoWindowIs DEF ScanInv, ScanTypeOK
  <1> QED BY <1>1, <1>2, <1>3, <1>4, ScanStepKeeps

LEMMA BeginKeeps ==
  ASSUME ScanInv, NEW p \in Scans, beginScan(p)
  PROVE  ScanInv'
  <1> DEFINE v == [window[p] EXCEPT !.step = "load", !.windowEnd = clock]
  <1>1. /\ window[p] \in Window /\ WindowSound(window[p]) /\ clock \in Nat /\ clock <= stripeTime + MaxSkew
        /\ window \in [Scans -> Window]
    BY DEF ScanInv, WindowSound, ScanTypeOK, ClocksAgree, Window
  <1>2. /\ v \in Window /\ v.step = "load" /\ v.windowEnd = clock /\ v.page = window[p].page
        /\ v.cursor = None
    BY <1>1 DEF Window, WindowSound, Loaded, beginScan, ScanAt
  <1>3. /\ window' = [window EXCEPT ![p] = v]
        /\ UNCHANGED <<stripeTime, clock, born, visible, observed, committed, failures>>
    BY <1>1 DEF beginScan
  <1> HIDE DEF v
  <1>4. WindowSound(window[p])'
    BY <1>1, <1>2, <1>3, FreshWindow DEF WindowSound
  <1>5. /\ NoBlindSpot' /\ committed' \in Nat \cup {None}
        /\ committed # None => committed' # None /\ committed <= committed'
        /\ committed' # None => committed' <= stripeTime + MaxSkew
    BY <1>3, SameBlindSpot
  <1>6. observed' \subseteq Refunds /\ observed \subseteq observed' /\ failures' \in Nat
    BY <1>3 DEF ScanInv, ScanTypeOK
  <1> QED BY <1>2, <1>3, <1>4, <1>5, <1>6, ScanStepKeeps

(* The window has just been committed: all it may claim was observed.        *)
LEMMA CommitKeeps ==
  ASSUME ScanInv, NEW p \in Scans, commitWindow(p)
  PROVE  ScanInv'
  <1> DEFINE w == window[p]
  <1>1. /\ w \in Window /\ WindowSound(w) /\ w.windowEnd \in Nat /\ w.windowEnd <= stripeTime + MaxSkew
        /\ committed \in Nat \cup {None} /\ w.step = "commit"
    BY DEF ScanInv, WindowSound, Window, ScanTypeOK, commitWindow, ScanAt
  <1>2. /\ committed' = w.windowEnd /\ window' = [window EXCEPT ![p] = NoWindow]
        /\ UNCHANGED <<stripeTime, clock, born, visible, observed, failures>>
        /\ committed # None => committed < w.windowEnd
    BY <1>1 DEF commitWindow, CanCommit
  <1>3. \A n \in Refunds : Early(w, n) => n \in observed
    BY <1>1 DEF WindowSound, Loaded, Ahead
  <1>4. NoBlindSpot'
    <2> SUFFICES ASSUME NEW n \in Refunds, IsRefund(n)', (Created(n) < stripeTimestamp(committed - Overlap))'
                 PROVE  n \in observed
      BY <1>2 DEF NoBlindSpot
    <2>1. Early(w, n)
      BY <1>2 DEF Early, IsRefund, Created
    <2> QED BY <1>3, <2>1
  <1>5. WindowSound(window[p])'
    BY <1>2, EmptiedWindow
  <1>6. observed' \subseteq Refunds /\ observed \subseteq observed' /\ failures' \in Nat /\ NoWindow \in Window
    BY <1>2, NoWindowIs DEF ScanInv, ScanTypeOK
  <1>7. /\ committed' \in Nat \cup {None} /\ (committed' # None => committed' <= stripeTime + MaxSkew)
        /\ committed # None => committed' # None /\ committed <= committed'
    BY <1>1, <1>2, ScanConstants
  <1> QED BY <1>2, <1>4, <1>5, <1>6, <1>7, ScanStepKeeps

(* The checkpoint is loaded: the whole list of the window is ahead of it.    *)
LEMMA CheckpointKeeps ==
  ASSUME ScanInv, NEW p \in Scans, loadCheckpoint(p)
  PROVE  ScanInv'
  <1> DEFINE w == window[p]
             previous == IF committed = None THEN None ELSE Least(committed, w.windowEnd)
             v == [w EXCEPT !.step = "list", !.previous = previous,
                            !.windowStart = WindowStart(previous, w.windowEnd)]
  <1>1. /\ w \in Window /\ WindowSound(w) /\ w.windowEnd \in Nat /\ committed \in Nat \cup {None}
        /\ window \in [Scans -> Window] /\ w.cursor = None
    BY DEF ScanInv, WindowSound, Window, ScanTypeOK, Loaded, loadCheckpoint, ScanAt
  <1>2. /\ previous \in Nat \cup {None} /\ WindowStart(previous, w.windowEnd) \in Int
        /\ previous # None => committed # None /\ previous <= committed
    BY <1>1, ScanConstants DEF WindowStart, Least
  <1>3. /\ window' = [window EXCEPT ![p] = v]
        /\ UNCHANGED <<stripeTime, clock, born, visible, observed, committed, failures>>
    BY <1>1 DEF loadCheckpoint
  <1> HIDE DEF previous
  <1>4. /\ v \in Window /\ v.step = "list" /\ v.previous = previous /\ v.windowEnd = w.windowEnd
        /\ v.windowStart = WindowStart(previous, w.windowEnd) /\ v.page = w.page /\ v.cursor = None
    BY <1>1, <1>2 DEF Window
  <1> HIDE DEF v
  <1>5. window'[p] = v
    BY <1>1, <1>3
  <1>6. WindowSound(window[p])'
    <2>1. \A n \in Refunds : Ahead(window[p], n)'
      BY <1>4, <1>5 DEF Ahead
    <2> QED BY <1>1, <1>2, <1>3, <1>4, <1>5, <2>1 DEF WindowSound, Loaded
  <1>7. /\ NoBlindSpot' /\ committed' \in Nat \cup {None}
        /\ committed # None => committed' # None /\ committed <= committed'
        /\ committed' # None => committed' <= stripeTime + MaxSkew
    BY <1>3, SameBlindSpot
  <1>8. observed' \subseteq Refunds /\ observed \subseteq observed' /\ failures' \in Nat
    BY <1>3 DEF ScanInv, ScanTypeOK
  <1> QED BY <1>3, <1>4, <1>6, <1>7, <1>8, ScanStepKeeps

(* A page is taken from the list: what is not in it is after all of it.      *)
LEMMA ListKeeps ==
  ASSUME ScanInv, NEW p \in Scans, listRefunds(p)
  PROVE  ScanInv'
  <1> DEFINE w == window[p]
  <1>1. /\ w \in Window /\ WindowSound(w) /\ window \in [Scans -> Window] /\ visible \subseteq Refunds
        /\ w.step = "list" /\ Loaded(w)
    BY DEF ScanInv, WindowSound, Window, ScanTypeOK, Loaded, listRefunds, ScanAt
  <1>2. PICK page \in SUBSET Rest(p) :
          /\ IsPage(p, page)
          /\ window' = [window EXCEPT ![p].step = IF page = {} THEN "commit" ELSE "observe",
                                      ![p].page = page, ![p].more = (page # Rest(p))]
    BY DEF listRefunds
  <1> DEFINE step == IF page = {} THEN "commit" ELSE "observe"
             more == (page # Rest(p))
             v == [w EXCEPT !.step = step, !.page = page, !.more = more]
  <1>3. UNCHANGED <<stripeTime, clock, born, visible, observed, committed, failures>>
    BY DEF listRefunds
  <1>4. window' = [window EXCEPT ![p] = v]
    BY <1>1, <1>2
  <1>5. Rest(p) \subseteq visible /\ page \subseteq visible
    BY <1>2 DEF Rest
  <1>6. step \in {"commit", "observe"} /\ more \in BOOLEAN /\ page \in SUBSET Refunds
    BY <1>1, <1>5
  <1> HIDE DEF step, more
  <1>7. /\ v \in Window /\ v.step = step /\ v.page = page /\ v.more = more /\ v.windowEnd = w.windowEnd
        /\ v.previous = w.previous /\ v.windowStart = w.windowStart /\ v.cursor = w.cursor
    BY <1>1, <1>6 DEF Window
  <1> HIDE DEF v
  <1>8. window'[p] = v
    BY <1>1, <1>4
  <1>9. ASSUME NEW n \in Refunds, Early(w, n), n \notin observed
        PROVE  n \in Rest(p)
    <2>1. InWindow(p, n) /\ n \in visible
      BY <1>1, <1>9, EarlyInWindow
    <2>2. w.cursor = None \/ Older(n, w.cursor)
      BY <1>1, <1>9 DEF WindowSound, Ahead
    <2> QED BY <2>1, <2>2 DEF Rest
  <1>10. page = {} => Rest(p) = {}
    BY <1>2, FS_EmptySet, ScanConstants DEF IsPage
  <1>11. ASSUME NEW n \in Refunds, Early(w, n)
         PROVE  /\ page = {} => n \in observed
                /\ n \in observed \/ n \in page \/ (more = TRUE /\ \A x \in page : Older(n, x))
    BY <1>2, <1>9, <1>10, <1>11 DEF IsPage, more
  <1>12. WindowSound(window[p])'
    <2>1. ASSUME NEW n \in Refunds, Early(window[p], n)' PROVE Ahead(window[p], n)'
      <3>1. Early(w, n)
        BY <1>3, <1>7, <1>8, <2>1 DEF Early, IsRefund, Created
      <3>2. /\ page = {} => n \in observed
            /\ n \in observed \/ n \in page \/ (more = TRUE /\ \A x \in page : Older(n, x))
        BY <1>11, <3>1
      <3>3. \A x \in page : Older(n, x) <=> Older(n, x)'
        BY <1>3 DEF Older, Created
      <3>4. (step = "commit" => page = {}) /\ step # "list"
        BY DEF step
      <3> QED BY <1>3, <1>7, <1>8, <3>2, <3>3, <3>4 DEF Ahead
    <2> QED BY <1>1, <1>3, <1>5, <1>6, <1>7, <1>8, <2>1 DEF WindowSound, Loaded
  <1>13. /\ NoBlindSpot' /\ committed' \in Nat \cup {None}
         /\ committed # None => committed' # None /\ committed <= committed'
         /\ committed' # None => committed' <= stripeTime + MaxSkew
    BY <1>3, SameBlindSpot
  <1>14. observed' \subseteq Refunds /\ observed \subseteq observed' /\ failures' \in Nat
    BY <1>3 DEF ScanInv, ScanTypeOK
  <1> QED BY <1>3, <1>4, <1>7, <1>12, <1>13, <1>14, ScanStepKeeps

(* A refund of the page is observed; with the last one the page is done, and *)
(* what is left of the list is after that one.                               *)
LEMMA ObserveKeeps ==
  ASSUME ScanInv, NEW p \in Scans, NEW m \in Refunds, observeRefund(p, m)
  PROVE  ScanInv'
  <1> DEFINE w == window[p]
             last == w.page = {m}
             step == IF last THEN AfterPage(w.more) ELSE w.step
             page == w.page \ {m}
             cursor == IF last THEN m ELSE w.cursor
             v == [w EXCEPT !.page = page, !.step = step, !.cursor = cursor]
  <1>1. /\ w \in Window /\ WindowSound(w) /\ window \in [Scans -> Window] /\ visible \subseteq Refunds
        /\ w.step = "observe" /\ Loaded(w) /\ m \in w.page /\ m \in visible /\ w.more \in BOOLEAN
        /\ w.page \subseteq visible /\ (w.cursor # None => w.cursor \in visible)
    BY DEF ScanInv, WindowSound, Window, ScanTypeOK, Loaded, observeRefund, ScanAt
  <1>2. /\ observed' = observed \cup {m}
        /\ UNCHANGED <<stripeTime, clock, born, visible, committed, failures>>
    BY DEF observeRefund
  <1>3. window' = [window EXCEPT ![p] = v]
    BY <1>1 DEF observeRefund
  <1>4. /\ page \in SUBSET Refunds /\ page \subseteq visible /\ m \notin page
        /\ step \in {"list", "observe", "commit"}
        /\ cursor \in Refunds \cup {None} /\ (cursor # None => cursor \in visible)
    BY <1>1 DEF AfterPage
  <1>5. /\ last => cursor = m /\ step = (IF w.more = TRUE THEN "list" ELSE "commit")
        /\ ~last => step = "observe"
    BY <1>1 DEF AfterPage
  <1> HIDE DEF step, page, cursor
  <1>6. /\ v \in Window /\ v.step = step /\ v.page = page /\ v.more = w.more /\ v.windowEnd = w.windowEnd
        /\ v.previous = w.previous /\ v.windowStart = w.windowStart /\ v.cursor = cursor
    BY <1>1, <1>4 DEF Window
  <1> HIDE DEF v
  <1>7. window'[p] = v
    BY <1>1, <1>3
  <1>8. ASSUME NEW n \in Refunds, Early(window[p], n)' PROVE Ahead(window[p], n)'
    <2>1. Early(w, n)
      BY <1>2, <1>6, <1>7, <1>8 DEF Early, IsRefund, Created
    <2>2. n \in observed \/ n \in w.page \/ (w.more = TRUE /\ \A x \in w.page : Older(n, x))
      BY <1>1, <2>1 DEF WindowSound, Ahead
    <2>3. \A x \in Refunds : Older(n, x) <=> Older(n, x)'
      BY <1>2 DEF Older, Created
    <2>4. CASE last
      <3>1. n \in observed' \/ (w.more = TRUE /\ Older(n, m))
        BY <1>1, <1>2, <2>2, <2>4
      <3>2. v.cursor = m /\ v.step = (IF w.more = TRUE THEN "list" ELSE "commit")
        BY <1>5, <1>6, <2>4
      <3>3. Older(n, m) => Older(n, window[p].cursor)'
        BY <1>2, <1>7, <3>2 DEF Older, Created
      <3> QED BY <1>7, <3>1, <3>2, <3>3 DEF Ahead
    <2>5. CASE ~last
      <3>1. v.step = "observe" /\ v.page = w.page \ {m} /\ v.more = w.more
        BY <1>5, <1>6, <2>5 DEF page
      <3>2. n \in observed' \/ n \in v.page \/ (v.more = TRUE /\ \A x \in v.page : Older(n, x)')
        BY <1>1, <1>2, <1>4, <2>2, <2>3, <3>1
      <3> QED BY <1>7, <3>1, <3>2 DEF Ahead
    <2> QED BY <2>4, <2>5
  <1>9. WindowSound(window[p])'
    BY <1>1, <1>2, <1>4, <1>6, <1>7, <1>8 DEF WindowSound, Loaded
  <1>10. observed' \subseteq Refunds /\ observed \subseteq observed' /\ failures' \in Nat
    BY <1>2 DEF ScanInv, ScanTypeOK
  <1>11. /\ NoBlindSpot' /\ committed' \in Nat \cup {None}
         /\ committed # None => committed' # None /\ committed <= committed'
         /\ committed' # None => committed' <= stripeTime + MaxSkew
    BY <1>2, <1>10, SameBlindSpot
  <1> QED BY <1>2, <1>3, <1>6, <1>9, <1>10, <1>11, ScanStepKeeps

LEMMA NextScanInv == ScanInv /\ [ScanNext]_scanVars => ScanInv'
  <1> SUFFICES ASSUME ScanInv, [ScanNext]_scanVars PROVE ScanInv'
    OBVIOUS
  <1>1. CASE TimePasses \/ \E n \in Refunds : RefundIsCreated(n) \/ RefundIsListed(n)
    BY <1>1, StripeKeeps
  <1>2. ASSUME NEW p \in Scans, WindowStep(p) \/ windowFails(p) PROVE ScanInv'
    BY <1>2, BeginKeeps, CheckpointKeeps, ListKeeps, CommitKeeps, EndKeeps, ObserveKeeps DEF WindowStep
  <1>3. CASE UNCHANGED scanVars
    <2>1. ScanTypeOK' /\ ClocksAgree' /\ stripeTime \in Nat
      BY <1>3 DEF scanVars, ScanInv, ScanTypeOK, ClocksAgree, IsRefund
    <2> QED BY <1>3, <2>1, WorldKeeps DEF scanVars, IsRefund
  <1> QED BY <1>1, <1>2, <1>3 DEF ScanNext

(* The scan keeps its invariant through overlapping, failing and repeated    *)
(* windows (reconciliation-scanner.ts scanInstallation).                     *)
THEOREM ScanInvariance == ScanSpec => []ScanInv
  BY InitScanInv, NextScanInv, PTL DEF ScanSpec

(* No refund falls between two windows, for every number of refunds and of   *)
(* scans at once, every page size and every length of a second, as long as   *)
(* the overlap covers Stripe's delay and the difference of the clocks        *)
(* (reconciliation-scanner.ts scanInstallation, OVERLAP_MILLISECONDS).       *)
THEOREM NoBlindSpots == ScanSpec => []NoBlindSpot
  <1>1. ScanInv => NoBlindSpot
    BY DEF ScanInv
  <1> QED BY <1>1, ScanInvariance, PTL

-------------------------------------------------------------------------------
(* The variables of the worker's process (main.ts), of the drawer and of the *)
(* scan's windows keep their types.                                          *)
THEOREM ProcessTypes ==
  /\ WorkerSpec => []WorkerTypeOK
  /\ DrawerSpec => []DrawerTypeOK
  /\ ScanSpec => []ScanTypeOK
  <1>1. (ProcessInv => WorkerTypeOK) /\ (DrawerInv => DrawerTypeOK) /\ (ScanInv => ScanTypeOK)
    BY DEF ProcessInv, DrawerInv, ScanInv
  <1> QED BY <1>1, ProcessInvariance, DrawerInvariance, ScanInvariance, PTL
===============================================================================

------------------------------ MODULE MCLiveness ------------------------------
(* The progress of four components that share no state here: a device that  *)
(* reports, the jobs of SERVER, the threads of their targets, and the       *)
(* scheduler.  A behaviour is of one of them; the others do not move.       *)
(* There are two schedulers: one with a slot for every schedule, and one    *)
(* with two repeated schedules for one slot.  Their clock has no end.       *)
EXTENDS AgentTasks, TLC

CONSTANTS cmd, art, j1, bak, col, h1, daily, hourly, j2, t1, t2, t3

MCJobOf == (cmd :> j1) @@ (art :> j1)

VARIABLES
  scenario,
  \* JobService
  jUp, jClosed, jRecovery, jStatus, jCancel, jResults, jDisk, jFate, jThread, jTarget,
  jSecrets, jRuns, jFaults, jCrashes, jPool,
  \* Scheduler
  sUp, sClosed, sRecovery, sFailure, sStopped, sItems, sDisk, sAt, sTs, sTodo, sCur, sNow,
  sInventory, sRunning, sManual, sFired, sWish, sFaults, sCrashes, sCloses, sMoves, sSubmitted,
  sEdits, sLate, sDelays,
  \* Targets
  tKind, tAt, tOutcome, tCancelled, tSlots, tHeavy, tLocks, tMoved, tVersion, tSaved, tEarly

J == INSTANCE JobService WITH
  Jobs <- {bak, cmd}, Hosts <- {h1}, Filed <- {bak}, Secret <- {cmd}, ActiveLimit <- 1,
  MaxFaults <- 1, MaxCrashes <- 1, MaxUnreadable <- 0,
  up <- jUp, closed <- jClosed, recovery <- jRecovery, status <- jStatus, cancel <- jCancel,
  results <- jResults, disk <- jDisk, fate <- jFate, thread <- jThread, target <- jTarget,
  secrets <- jSecrets, runs <- jRuns, faults <- jFaults, crashes <- jCrashes,
  pool <- jPool

S == INSTANCE Scheduler WITH
  Schedules <- {daily, hourly}, Once <- {}, Cron <- {daily}, Damage <- {},
  MaxTime <- 1, MaxDelays <- 0, MaxManual <- 1, MaxMoves <- 0, MaxFaults <- 0, MaxCrashes <- 0,
  MaxCloses <- 0, MaxTrouble <- 0,
  up <- sUp, closed <- sClosed, recovery <- sRecovery, failure <- sFailure,
  stopped <- sStopped, items <- sItems, disk <- sDisk, at <- sAt, ts <- sTs, todo <- sTodo,
  cur <- sCur, now <- sNow, inventory <- sInventory, running <- sRunning, manual <- sManual,
  fired <- sFired, wish <- sWish, faults <- sFaults, crashes <- sCrashes, closes <- sCloses,
  moves <- sMoves, submitted <- sSubmitted, edits <- sEdits, late <- sLate,
  delays <- sDelays

C == INSTANCE Scheduler WITH
  Schedules <- {daily, hourly}, Once <- {}, Cron <- {daily}, Damage <- {}, ActiveLimit <- 1,
  MaxTime <- 1, MaxDelays <- 0, MaxManual <- 0, MaxMoves <- 0, MaxFaults <- 0, MaxCrashes <- 1,
  MaxCloses <- 0, MaxTrouble <- 1,
  up <- sUp, closed <- sClosed, recovery <- sRecovery, failure <- sFailure,
  stopped <- sStopped, items <- sItems, disk <- sDisk, at <- sAt, ts <- sTs, todo <- sTodo,
  cur <- sCur, now <- sNow, inventory <- sInventory, running <- sRunning, manual <- sManual,
  fired <- sFired, wish <- sWish, faults <- sFaults, crashes <- sCrashes, closes <- sCloses,
  moves <- sMoves, submitted <- sSubmitted, edits <- sEdits, late <- sLate,
  delays <- sDelays

T == INSTANCE Targets WITH
  Targets <- {t1, t2, t3}, Jobs <- {j1, j2}, Addresses <- {h1},
  JobOf <- (t1 :> j1) @@ (t2 :> j2) @@ (t3 :> j2),
  AddressOf <- (t1 :> h1) @@ (t2 :> h1) @@ (t3 :> h1),
  Devices <- {t3}, Slots <- 2, MaxMoves <- 0,
  kind <- tKind, at <- tAt, outcome <- tOutcome, cancelled <- tCancelled, slots <- tSlots,
  heavy <- tHeavy, locks <- tLocks, moved <- tMoved, version <- tVersion, saved <- tSaved,
  early <- tEarly

jobVars == <<jUp, jClosed, jRecovery, jStatus, jCancel, jResults, jDisk, jFate, jThread, jTarget,
             jSecrets, jRuns, jFaults, jCrashes, jPool>>
scheduleVars == <<sUp, sClosed, sRecovery, sFailure, sStopped, sItems, sDisk, sAt, sTs, sTodo,
                  sCur, sNow, sInventory, sRunning, sManual, sFired, sWish, sFaults,
                  sCrashes, sCloses, sMoves, sSubmitted, sEdits, sLate, sDelays>>
targetVars == <<tKind, tAt, tOutcome, tCancelled, tSlots, tHeavy, tLocks, tMoved, tVersion,
                tSaved, tEarly>>
liveVars == <<scenario, vars, jobVars, scheduleVars, targetVars>>

(* The clock has come to its bound between two ticks: all times become      *)
(* earlier by one, and the scheduler goes on.                               *)
Earlier(t) == IF t = 0 THEN 0 ELSE t - 1
Shift(file) == [s \in DOMAIN file |-> [file[s] EXCEPT !.next = Earlier(@)]]
NextDay ==
  /\ sAt = "idle" /\ sNow = 1
  /\ sNow' = 0
  /\ sItems' = Shift(sItems) /\ sDisk' = Shift(sDisk)
  /\ sRunning' = {[j EXCEPT !.due = Earlier(@)] : j \in sRunning}
  /\ sFired' = [s \in DOMAIN sFired |-> [t \in DOMAIN sFired[s] |-> 0]]
  /\ UNCHANGED <<sUp, sClosed, sRecovery, sFailure, sStopped, sAt, sTs, sTodo, sCur, sInventory,
                 sManual, sWish, sFaults, sCrashes, sCloses, sMoves, sSubmitted, sEdits, sLate,
                 sDelays>>

(* Where targets do not move their jobs are of one kind.                    *)
LiveInit ==
  /\ scenario \in {"device", "jobs", "schedules", "crowd", "targets"}
  /\ Init /\ J!Init /\ S!Init
  /\ T!Init /\ (scenario # "targets" => \A j \in {j1, j2} : tKind[j] = "read")

LiveNext ==
  \/ scenario = "device" /\ Next /\ UNCHANGED <<scenario, jobVars, scheduleVars, targetVars>>
  \/ scenario = "jobs" /\ J!Next /\ UNCHANGED <<scenario, vars, scheduleVars, targetVars>>
  \/ /\ scenario = "schedules" /\ (S!Next \/ NextDay)
     /\ UNCHANGED <<scenario, vars, jobVars, targetVars>>
  \/ /\ scenario = "crowd" /\ (C!Next \/ NextDay)
     /\ UNCHANGED <<scenario, vars, jobVars, targetVars>>
  \/ scenario = "targets" /\ T!Next /\ UNCHANGED <<scenario, vars, jobVars, scheduleVars>>

LiveSpec == LiveInit /\ [][LiveNext]_liveVars

(* The device polls and its connections work now and then: its outcomes     *)
(* reach SERVER (AgentTasks!ReportsArrive).                                 *)
PollingReports == PollProgress => ReportsArrive

(* Threads of the jobs of a device run and time passes: every job ends,     *)
(* with nothing assumed of the device.                                      *)
DeviceJobsEnd == JobProgress => JobsEnd

(* Threads of SERVER run: every job shown as active ends.                   *)
JobsConclude == J!JobProgress => J!JobsConclude

(* The scheduler thread runs: what is due is submitted or shown as off,     *)
(* but where there are more schedules than slots, a due one may find the    *)
(* slots taken by the jobs of others at every tick.                         *)
Served ==
  /\ scenario = "schedules" => (S!Progress => S!Served)
  /\ scenario = "crowd" => (C!Progress => C!Served)

(* Threads of targets run and hosts answer in time: neither the slots nor   *)
(* the locks nor the backup slot make targets wait for each other for ever. *)
EveryTargetEnds == T!Progress => T!EveryTargetEnds
===============================================================================

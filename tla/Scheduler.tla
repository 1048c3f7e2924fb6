------------------------------- MODULE Scheduler ------------------------------
(***************************************************************************)
(* The schedules of SERVER (server/scheduler.py): the operators' calls,    *)
(* the thread that looks for due schedules every second and submits their  *)
(* jobs, and what a restart makes of the stored schedules.                 *)
(*                                                                         *)
(* tick holds the scheduler's lock through all of its steps, so that       *)
(* operators' calls wait; the jobs, the inventory and close do not.  A     *)
(* call that sets a schedule makes its checks before it asks for the lock. *)
(* All schedules are in one file: a write that raises may have left the    *)
(* old file or the new one.                                                *)
(*                                                                         *)
(* Left out: which operation a schedule runs, the cron arithmetic (the     *)
(* next time is the next instant), the limit of 100 schedules.             *)
(***************************************************************************)
EXTENDS Naturals, FiniteSets

CONSTANTS
  Schedules,
  Once,             \* schedules without a repetition
  Cron,             \* schedules repeated by a cron line; the rest, by an interval
  None,             \* no schedule
  ActiveLimit,      \* jobs of SERVER queued or running at once (2)
  Damage,           \* bound: what a restart may find unreadable, of {"jobs", "schedules"}
  MaxTime,          \* bound: the clock
  MaxDelays,        \* bound: calls held up between their checks and the lock
  MaxManual,        \* bound: jobs submitted by operators
  MaxMoves,         \* bound: changes of the inventory and orderly stops
  MaxFaults,        \* bound: writes and submissions that fail
  MaxCrashes,       \* bound: crashes
  MaxCloses,        \* bound: orderly stops among them
  MaxTrouble        \* bound: changes, failures, crashes and stops together

ASSUME SchedulesAssumption ==
  /\ Once \cap Cron = {}
  /\ None \notin Schedules
  /\ Damage \subseteq {"jobs", "schedules"}
  /\ \A n \in {ActiveLimit, MaxTime, MaxDelays, MaxManual, MaxMoves, MaxFaults, MaxCrashes,
            MaxCloses, MaxTrouble} :
       n \in Nat

VARIABLES
  up, closed,       \* the service runs; its close was called
  recovery,         \* history_errors is not empty
  failure, stopped, \* a save has raised; the scheduler thread is told to stop
  items, disk,      \* the schedules in memory and in schedules.json.enc
  at, ts, todo, cur,\* tick: its place, its timestamp, schedules to look at, the one in hand
  now,
  edits,            \* create and update: calls held up before the lock
  inventory,        \* address and identity of each schedule's target; 0: no such target
  running, manual,  \* jobs queued or running: of schedules, of operators
  fired,            \* ghost: how often the job for a due time was submitted
  late,             \* ghost: how often a call set a due time that had been submitted
  wish,             \* ghost: what the operators of a schedule were told last
  faults, crashes, closes, moves, delays, submitted

tick == <<at, ts, todo, cur>>
jobs == <<running, manual, submitted>>
service == <<up, closed, recovery, crashes, closes>>
world == <<now, edits, delays, inventory, moves>>
ghosts == <<fired, late, wish>>
vars == <<service, failure, stopped, items, disk, tick, world, jobs, ghosts, faults>>

-------------------------------------------------------------------------------
(* Types *)

Times == 0 .. MaxTime + 1
Idents == {1, 2}
Sched(en, di, nx, id) == [enabled |-> en, dispatching |-> di, next |-> nx, ident |-> id]
Disabled(item) == Sched(FALSE, item.dispatching, item.next, item.ident)
Marked(item) == Sched(item.enabled, TRUE, item.next, item.ident)
Absent == Sched(FALSE, FALSE, 0, 0)
Item == [enabled : BOOLEAN, dispatching : BOOLEAN, next : Times, ident : Idents \cup {0}]
Edit == [of : Schedules, item : Item]
Job == [of : Schedules, due : Times]

TypeOK ==
  /\ up \in BOOLEAN /\ closed \in BOOLEAN /\ recovery \in BOOLEAN
  /\ failure \in BOOLEAN /\ stopped \in BOOLEAN
  /\ items \in [Schedules -> Item] /\ disk \in [Schedules -> Item]
  /\ at \in {"idle", "waiting", "looking", "submitting", "recording", "abandoning"}
  /\ ts \in 0 .. MaxTime /\ todo \subseteq Schedules /\ cur \in Schedules \cup {None}
  /\ at \in {"submitting", "recording", "abandoning"} <=> cur # None
  /\ now \in 0 .. MaxTime
  /\ edits \subseteq Edit
  /\ inventory \in [Schedules -> Idents \cup {0}]
  /\ running \subseteq Job /\ manual \in Nat
  /\ fired \in [Schedules -> [Times -> Nat]] /\ late \in [Schedules -> [Times -> Nat]]
  /\ wish \in [Schedules -> {"none", "on", "off", "unsure"}]
  /\ faults \in Nat /\ crashes \in Nat /\ closes \in Nat /\ moves \in Nat
  /\ delays \in Nat /\ submitted \in Nat

Init ==
  /\ up = TRUE /\ closed = FALSE /\ recovery = FALSE /\ failure = FALSE /\ stopped = FALSE
  /\ items = [s \in Schedules |-> Absent] /\ disk = [s \in Schedules |-> Absent]
  /\ at = "idle" /\ ts = 0 /\ todo = {} /\ cur = None
  /\ now = 0 /\ edits = {}
  /\ inventory = [s \in Schedules |-> 1]
  /\ running = {} /\ manual = 0
  /\ fired = [s \in Schedules |-> [t \in Times |-> 0]]
  /\ late = [s \in Schedules |-> [t \in Times |-> 0]]
  /\ wish = [s \in Schedules |-> "none"]
  /\ faults = 0 /\ crashes = 0 /\ closes = 0 /\ moves = 0 /\ delays = 0 /\ submitted = 0

Here(s) == items[s].ident # 0
Full == Cardinality(running) + manual >= ActiveLimit
Active(s) == \E j \in running : j.of = s

-------------------------------------------------------------------------------
(* Storage *)

Saved(file) ==
  /\ disk' = file
  /\ UNCHANGED faults

Room == faults + crashes + closes + moves + delays < MaxTrouble

Fails ==
  /\ faults < MaxFaults /\ Room
  /\ faults' = faults + 1

(* A save that raises stops the scheduler.                                 *)
SaveFails(file) ==
  /\ Fails
  /\ disk' \in {disk, file}
  /\ failure' = TRUE /\ stopped' = TRUE

-------------------------------------------------------------------------------
(* The operators' calls.  They take the lock that tick holds.              *)

Unlocked == up /\ at \in {"idle", "waiting"}
Put(s, item) == [items EXCEPT ![s] = item]

(* The schedule becomes item, or the call raises and memory is restored.   *)
Change(s, item, told) ==
  /\ \/ /\ items' = Put(s, item)
        /\ Saved(items')
        /\ wish' = [wish EXCEPT ![s] = told]
        /\ UNCHANGED <<failure, stopped>>
     \/ /\ SaveFails(Put(s, item))
        /\ wish' = [wish EXCEPT ![s] = "unsure"]
        /\ UNCHANGED items
  /\ UNCHANGED <<service, tick, now, inventory, moves, jobs, fired>>

Word(en) == IF en THEN "on" ELSE "off"

(* What the checks of create and update let through, before the lock: a    *)
(* time in the future, a target of the inventory.                          *)
Checked(s) ==
  {[of |-> s, item |-> Sched(en, FALSE, t, id)] :
     en \in BOOLEAN, t \in now + 1 .. MaxTime + 1, id \in {inventory[s]} \ {0}}

Accepts == up /\ ~recovery /\ ~failure
New(s) == wish[s] = "none" /\ \A e \in edits : e.of # s

(* The call waits for the lock, while time goes on.                        *)
Delay(s) ==
  /\ Accepts /\ (New(s) \/ Here(s))
  /\ delays < MaxDelays /\ Room
  /\ delays' = delays + 1
  /\ \E e \in Checked(s) : edits' = edits \cup {e}
  /\ UNCHANGED <<service, failure, stopped, items, disk, tick, now, inventory, moves, jobs, ghosts,
                 faults>>

(* Under the lock it stores what was checked, be the time over or          *)
(* submitted by now, or the scheduler stopped.                             *)
Store(e) ==
  /\ Unlocked
  /\ edits' = edits \ {e}
  /\ Change(e.of, e.item, Word(e.item.enabled))
  /\ late' = [late EXCEPT ![e.of][e.item.next] =
                 IF fired[e.of][e.item.next] > 0 THEN @ + 1 ELSE @]
  /\ UNCHANGED delays

Free(s) == Here(s) /\ ~items[s].dispatching /\ ~Active(s)

Create(s) ==
  \/ Accepts /\ New(s) /\ \E e \in Checked(s) : Store(e)
  \/ wish[s] = "none" /\ \E e \in edits : e.of = s /\ Store(e)

(* An update also takes in the target as it was in the inventory then.     *)
Update(s) ==
  /\ Free(s)
  /\ \/ Accepts /\ \E e \in Checked(s) : Store(e)
     \/ \E e \in edits : e.of = s /\ Store(e)

(* The schedule is gone, or its job is running.                            *)
TurnedAway(s) ==
  /\ Unlocked /\ wish[s] # "none" /\ ~Free(s)
  /\ \E e \in edits : e.of = s /\ edits' = edits \ {e}
  /\ UNCHANGED <<service, failure, stopped, items, disk, tick, now, delays, inventory, moves, jobs,
                 ghosts, faults>>

MutantPause(s) ==
  /\ Unlocked /\ Here(s)
  /\ items' = Put(s, Disabled(items[s]))
  /\ wish' = [wish EXCEPT ![s] = "off"]
  /\ UNCHANGED <<service, failure, stopped, disk, tick, world, jobs, fired, late, faults>>

(* Pausing and deleting work even when the scheduler has stopped.          *)
Pause(s) ==
  /\ Unlocked /\ Here(s)
  /\ Change(s, Disabled(items[s]), "off")
  /\ UNCHANGED <<edits, delays, late>>

Delete(s) ==
  /\ Unlocked /\ Here(s)
  /\ Change(s, Absent, "off")
  /\ UNCHANGED <<edits, delays, late>>

(* A schedule whose time has passed resumes only if a cron line gives it   *)
(* another one.                                                            *)
Resumed(s) ==
  Sched(TRUE, items[s].dispatching,
        IF items[s].next <= now THEN now + 1 ELSE items[s].next, items[s].ident)

Resume(s) ==
  /\ Unlocked /\ ~recovery /\ ~failure /\ Here(s)
  /\ items[s].next > now \/ s \in Cron
  /\ Change(s, Resumed(s), "on")
  /\ UNCHANGED <<edits, delays, late>>

-------------------------------------------------------------------------------
(* tick *)

Rest == at' = "idle" /\ ts' = 0 /\ todo' = {} /\ cur' = None

(* The test for a failure and the clock come before the lock.              *)
TickStart ==
  /\ up /\ at = "idle" /\ ~stopped /\ ~failure
  /\ at' = "waiting" /\ ts' = now
  /\ UNCHANGED <<service, failure, stopped, items, disk, todo, cur, world, jobs, ghosts, faults>>

TickLock ==
  /\ at = "waiting"
  /\ at' = "looking" /\ todo' = {s \in Schedules : Here(s)}
  /\ UNCHANGED <<service, failure, stopped, items, disk, ts, cur, world, jobs, ghosts, faults>>

TickEnd ==
  /\ at = "looking" /\ todo = {}
  /\ Rest
  /\ UNCHANGED <<service, failure, stopped, items, disk, world, jobs, ghosts, faults>>

Due(s) == items[s].enabled /\ items[s].next <= ts
MutantMustWait(s) == Full
MustWait(s) == Active(s) \/ Full
Matches(s) == inventory[s] = items[s].ident

MutantSkip(s) ==
  /\ at = "looking" /\ s \in todo
  /\ ~Due(s) \/ MustWait(s)
  /\ Rest
  /\ UNCHANGED <<service, failure, stopped, items, disk, world, jobs, ghosts, faults>>

Skip(s) ==
  /\ at = "looking" /\ s \in todo
  /\ ~Due(s) \/ MustWait(s)
  /\ todo' = todo \ {s}
  /\ UNCHANGED <<service, failure, stopped, items, disk, at, ts, cur, world, jobs, ghosts, faults>>

(* The target is not the one the operator had chosen.                      *)
Retire(s) ==
  /\ at = "looking" /\ s \in todo
  /\ Due(s) /\ ~MustWait(s) /\ ~Matches(s)
  /\ items' = Put(s, Disabled(items[s]))
  /\ \/ /\ Saved(items')
        /\ todo' = todo \ {s}
        /\ UNCHANGED <<failure, stopped, at, ts, cur>>
     \/ /\ SaveFails(items')
        /\ Rest
  /\ UNCHANGED <<service, world, jobs, ghosts>>

MutantIntend(s) ==
  /\ at = "looking" /\ s \in todo
  /\ Due(s) /\ ~MustWait(s) /\ Matches(s)
  /\ items' = Put(s, Marked(items[s]))
  /\ at' = "submitting" /\ cur' = s
  /\ UNCHANGED <<service, failure, stopped, disk, ts, todo, world, jobs, ghosts, faults>>

(* The intent is on disk before the job is submitted.                      *)
Intend(s) ==
  /\ at = "looking" /\ s \in todo
  /\ Due(s) /\ ~MustWait(s) /\ Matches(s)
  /\ items' = Put(s, Marked(items[s]))
  /\ \/ /\ Saved(items')
        /\ at' = "submitting" /\ cur' = s
        /\ UNCHANGED <<failure, stopped, ts, todo>>
     \/ /\ SaveFails(items')
        /\ Rest
  /\ UNCHANGED <<service, world, jobs, ghosts>>

Spent(s) == Sched(FALSE, FALSE, items[s].next, items[s].ident)
Again(s) == Sched(TRUE, FALSE, ts + 1, items[s].ident)

(* submit checks everything again, but takes the target as it is now.      *)
SubmitTakes(s) == ~closed /\ ~recovery /\ inventory[s] # 0 /\ ~Full

Dispatch ==
  /\ at = "submitting"
  /\ SubmitTakes(cur)
  /\ running' = running \cup {[of |-> cur, due |-> items[cur].next]}
  /\ fired' = [fired EXCEPT ![cur][items[cur].next] = @ + 1]
  /\ items' = Put(cur, IF cur \in Once THEN Spent(cur) ELSE Again(cur))
  /\ at' = "recording"
  /\ UNCHANGED <<service, failure, stopped, disk, ts, todo, cur, world, manual, submitted, wish,
                 late, faults>>

(* submit raises: the schedule is disabled.                                *)
Refused ==
  /\ at = "submitting"
  /\ \/ ~SubmitTakes(cur) /\ UNCHANGED faults
     \/ SubmitTakes(cur) /\ Fails
  /\ items' = Put(cur, Spent(cur))
  /\ at' = "abandoning"
  /\ UNCHANGED <<service, failure, stopped, disk, ts, todo, cur, world, jobs, ghosts>>

GoOn == at' = "looking" /\ todo' = todo \ {cur} /\ cur' = None /\ UNCHANGED ts

(* If the new record cannot be saved, tick disables the schedule.          *)
Record ==
  /\ at = "recording"
  /\ \/ /\ Saved(items)
        /\ GoOn
        /\ UNCHANGED <<failure, stopped, items>>
     \/ /\ SaveFails(items)
        /\ items' = Put(cur, Spent(cur))
        /\ at' = "abandoning"
        /\ UNCHANGED <<ts, todo, cur>>
  /\ UNCHANGED <<service, world, jobs, ghosts>>

(* If the schedule can be saved as disabled, tick goes on with the others. *)
Abandon ==
  /\ at = "abandoning"
  /\ \/ /\ Saved(items)
        /\ GoOn
        /\ UNCHANGED <<failure, stopped>>
     \/ /\ SaveFails(items)
        /\ Rest
  /\ UNCHANGED <<service, items, world, jobs, ghosts>>

-------------------------------------------------------------------------------
(* Operators' jobs, the inventory, time *)

ManualSubmit ==
  /\ up /\ ~closed /\ ~recovery /\ ~Full /\ submitted < MaxManual
  /\ manual' = manual + 1 /\ submitted' = submitted + 1
  /\ UNCHANGED <<service, failure, stopped, items, disk, tick, world, running, ghosts, faults>>

ManualEnds ==
  /\ manual > 0
  /\ manual' = manual - 1
  /\ UNCHANGED <<service, failure, stopped, items, disk, tick, world, running, submitted, ghosts,
                 faults>>

JobEnds(s) ==
  /\ \E j \in running : j.of = s /\ running' = running \ {j}
  /\ UNCHANGED <<service, failure, stopped, items, disk, tick, world, manual, submitted, ghosts,
                 faults>>

Move(s) ==
  /\ up /\ closes + moves < MaxMoves /\ Room
  /\ moves' = moves + 1
  /\ \E id \in Idents \cup {0} : id # inventory[s] /\ inventory' = [inventory EXCEPT ![s] = id]
  /\ UNCHANGED <<service, failure, stopped, items, disk, tick, now, edits, delays, jobs, ghosts,
                 faults>>

Clock ==
  /\ now < MaxTime
  /\ now' = now + 1
  /\ UNCHANGED <<service, failure, stopped, items, disk, tick, edits, delays, inventory, moves,
                 jobs, ghosts, faults>>

-------------------------------------------------------------------------------
(* The life of the process *)

(* close refuses submissions first, then stops the scheduler.              *)
Close ==
  /\ up /\ ~closed /\ closes < MaxCloses /\ closes + moves < MaxMoves /\ Room
  /\ closed' = TRUE /\ closes' = closes + 1
  /\ UNCHANGED <<up, recovery, crashes, failure, stopped, items, disk, tick, world, jobs, ghosts,
                 faults>>

CloseScheduler ==
  /\ up /\ closed /\ ~stopped
  /\ stopped' = TRUE
  /\ UNCHANGED <<service, failure, items, disk, tick, world, jobs, ghosts, faults>>

Down ==
  /\ up' = FALSE
  /\ items' = [s \in Schedules |-> Absent]
  /\ Rest
  /\ edits' = {} /\ running' = {} /\ manual' = 0
  /\ UNCHANGED <<closed, recovery, closes, failure, stopped, disk, now, delays, inventory, moves,
                 submitted, ghosts, faults>>

(* The scheduler's thread is waited for only for a while, the pool for as  *)
(* long as its jobs run.                                                   *)
Exit ==
  /\ up /\ closed /\ stopped /\ running = {} /\ manual = 0
  /\ Down /\ UNCHANGED crashes

Crash ==
  /\ up /\ crashes < MaxCrashes /\ Room
  /\ crashes' = crashes + 1
  /\ Down

(* A dispatch that may have happened is not repeated; nothing runs while   *)
(* the history has to be recovered.                                        *)
Uncertain(item, bad) == item.dispatching \/ (bad /\ item.enabled)
Reviewed(item, bad) ==
  IF Uncertain(item, bad) THEN Sched(FALSE, FALSE, item.next, item.ident) ELSE item
Restart ==
  /\ ~up /\ up' = TRUE /\ closed' = FALSE
  /\ failure' = FALSE /\ stopped' = FALSE
  /\ \E bad \in SUBSET Damage :
       /\ recovery' = (bad # {})
       /\ IF "schedules" \in bad
          THEN UNCHANGED <<items, disk, wish>>
          ELSE /\ items' = [s \in Schedules |-> Reviewed(disk[s], bad # {})]
               /\ disk' = items'
               /\ wish' = [s \in Schedules |->
                    IF Uncertain(disk[s], bad # {}) THEN "off" ELSE wish[s]]
  /\ UNCHANGED <<crashes, closes, tick, world, jobs, fired, late, faults>>

(* The first save raises: the service does not come up.                    *)
RestartFails ==
  /\ ~up /\ Fails
  /\ \E bad \in SUBSET (Damage \ {"schedules"}) :
       disk' \in {disk, [s \in Schedules |-> Reviewed(disk[s], bad # {})]}
  /\ UNCHANGED <<service, failure, stopped, items, tick, world, jobs, ghosts>>

Next ==
  \/ \E s \in Schedules :
       \/ Delay(s) \/ Create(s) \/ Update(s) \/ TurnedAway(s) \/ Pause(s) \/ Delete(s) \/ Resume(s)
       \/ Skip(s) \/ Retire(s) \/ Intend(s) \/ JobEnds(s) \/ Move(s)
  \/ TickStart \/ TickLock \/ TickEnd \/ Dispatch \/ Refused \/ Record \/ Abandon
  \/ ManualSubmit \/ ManualEnds \/ Clock
  \/ Close \/ CloseScheduler \/ Exit \/ Crash \/ Restart \/ RestartFails

Spec == Init /\ [][Next]_vars

(* The thread runs, jobs end (module JobService), the process manager      *)
(* restarts the service.  Nothing is assumed of operators.                 *)
Progress ==
  /\ WF_vars(TickStart) /\ WF_vars(TickLock) /\ WF_vars(TickEnd)
  /\ WF_vars(Dispatch \/ Refused) /\ WF_vars(Record) /\ WF_vars(Abandon)
  /\ WF_vars(ManualEnds) /\ WF_vars(Restart)
  /\ \A s \in Schedules : WF_vars(Skip(s) \/ Retire(s) \/ Intend(s)) /\ WF_vars(JobEnds(s))

FairSpec == Spec /\ Progress

-------------------------------------------------------------------------------
(* Properties *)

(* The job for a due time is submitted at most once, over failed saves,    *)
(* crashes and restarts, and once more for each call of an operator that   *)
(* passed the check for a future time before and took the lock after the   *)
(* job of that time had been submitted and had ended: update does not      *)
(* check again.                                                            *)
FiresOnce == \A s \in Schedules : \A t \in Times : fired[s][t] <= 1 + late[s][t]

(* The jobs of one schedule never overlap (docs/production-test.md:142);   *)
(* a job whose submission raised is not counted here, although the pool    *)
(* may still run it (module JobService).                                   *)
NoOverlap == \A s \in Schedules : Cardinality({j \in running : j.of = s}) <= 1

(* A schedule that operators were told is paused or deleted, and one that  *)
(* a restart put on hold, stays off, in memory and on disk, until someone  *)
(* asks for it again.                                                      *)
OffStaysOff ==
  \A s \in Schedules : wish[s] = "off" => ~items[s].enabled /\ ~disk[s].enabled

(* The invariant behind these: an enabled schedule, in memory or on disk,  *)
(* has a due time that was submitted less often than it was set, unless it *)
(* is marked as being dispatched.                                          *)
SchedAgrees(s) ==
  /\ items[s].enabled => /\ fired[s][items[s].next] <= late[s][items[s].next]
                         /\ wish[s] # "off"
  /\ disk[s].enabled => wish[s] # "off"
  /\ disk[s].enabled /\ ~disk[s].dispatching => fired[s][disk[s].next] <= late[s][disk[s].next]
  /\ \A t \in Times :
       /\ fired[s][t] <= 1 + late[s][t]
       /\ fired[s][t] > 0 => t <= now /\ (at # "idle" => t <= ts)
TickAgrees ==
  /\ ts <= now
  /\ ~up => at = "idle"
  /\ at = "submitting" => items[cur].enabled /\ items[cur].next <= ts /\ disk[cur].dispatching
SchedInv == TypeOK /\ TickAgrees /\ \A s \in Schedules : SchedAgrees(s)

(* A due schedule is submitted, or shown as disabled, unless the scheduler *)
(* stops.  Operators' jobs only delay it: there are finitely many.  Nor do *)
(* the jobs of other schedules hold it up for ever if there is a slot for  *)
(* each schedule.  With more schedules than slots a due one may starve:    *)
(* when its turn comes, at every tick, the slots are taken by the others.  *)
Pending(s, t) == up /\ items[s].enabled /\ items[s].next = t /\ t <= now
Crowded(s) ==
  /\ Cardinality(Schedules) > ActiveLimit
  /\ []<>(at = "looking" /\ s \in todo /\ Due(s) /\ Full)
Served ==
  \A s \in Schedules :
    Crowded(s) \/ \A t \in Times : Pending(s, t) ~> ~Pending(s, t) \/ stopped

(* docs/production-test.md:114: when SERVER's limit of jobs is reached, a  *)
(* schedule waits.  Without faults, stops and changes of the inventory a   *)
(* repeated schedule stays as its operators left it.                       *)
FullOnlyDelays == \A s \in Schedules \ Once : wish[s] = "on" => items[s].enabled
===============================================================================

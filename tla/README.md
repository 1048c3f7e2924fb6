# SM_Automation in TLA+

SM_Automation is a Linux SERVER that runs management jobs (backups, commands, audits, account and
patch changes, file transfers) on many CLIENT hosts: over SSH, or through an agent on Windows CLIENTs
that polls SERVER over TLS. Operators use a desktop GUI. This directory holds TLA+ modules of the
parts whose correctness depends on interleavings, failures and restarts, the TLC configurations that
check them, and proofs checked by TLAPS. Paths below are relative to the repository root.

## The system and its hard parts

| Component | Code | State it keeps | Hard behaviour | What makes it correct |
|---|---|---|---|---|
| Job service | `src/server/service.py` | `jobs`, `command_passwords`, the pool of two threads, `jobs/*.json.enc` | a thread per job and one per target, failing writes, crash between any two writes, recovery | every job ends, once, with an honest status |
| Target locks and slots | `service.py` `_target*`, `agents.py` | `ssh_slots`, `heavy_slots`, `account_locks` | three resources taken in an order that depends on the job, cancellation in between | one change at a time, from a current backup; nobody waits for ever |
| Agent task queue | `src/server/agents.py` | one task list and device record per device, `agents/results/*` | long polling gives the lock up inside a handler; repeated and late results; cancellation against issue | no task twice; operators are told what happened |
| Windows agent | `windows-client/Agent.cs` | `started_task`, `outbox`, `history` in one protected file | crash while executing, lost requests and answers, bounded memory | the same |
| Device registry | `src/server/agents.py` | device records, bindings, enrolment policy, inventory rows | several files written one after the other; whole-table saves by the GUI | one name one machine; cut off is cut off |
| Scheduler, cron | `src/server/scheduler.py`, `cron.py` | `items`, `schedules.json.enc`, `failure` | a tick that reads, submits and records under different locks; intent and record around a crash; changes of the clock | a due time once; what is off stays off |
| Encrypted store | `src/storage/encrypted.py` | files replaced by rename | a write can raise after the rename | old record or new one |
| SSH engine, host keys | `src/engine` | channel buffers, `known_hosts` | exit status and output arrive on their own; two first contacts at once | whole output, started once; a key is never replaced |
| SSH policy | `src/security/apply.py` | `sshd_config`, a lock directory, a backup on the host | remote transaction with probe and rollback, lost connection in between | nobody is locked out in silence |
| Accounts, keys, patches | `src/account`, `src/server/key_deploy.py`, `src/patch` | accounts and packages of the host, staged files | scripts that outlive their job, checks and commands at different times | what was checked or reviewed is what is done |
| Backups, comparison | `src/backup` | encrypted files and a manifest per host | a host that changes while it is read, cut-off captures | complete means complete |
| Front end, logins | `src/server/main.py`, `auth.py` | request slots, accounts, remembered logins | accounts change between login, authorisation and execution | rights are current; slots come back |
| Books, logins of CLIENTs, CI registry, media | `src/server/*`, `src/ci/registry.py` | small encrypted tables, copies in memory, mounts | read, change, write by several, with what a console had loaded | hosts, passwords, records and packages are the ones meant |
| CI collection | `src/ci/collector.py` | none | unreadable sections, hidden control groups | nothing unknown is said to be known |
| Transfers | `src/desktop/transfers.py`, `file_browser.py`, `src/server/files.py` | a record on disk, pending files | pause, crash and resume, late requests | success means a whole file; nothing is replaced |
| Desktop client and views | `src/desktop` | session, busy flags, reviewed plan, panels and lists | answers inside modal dialogs, after logout, out of order | one session; what is shown is what is asked for and applied |
| Logging | `src/common/logger.py` | one manager, its handlers | threads between its locks, handlers that fail | each handler once |
| Parsers, spreadsheets, layouts, configuration, installers, scripts | elsewhere | none of their own | none: sequential text handling | |

How they interact: the GUI and the agents call SERVER (`server/main.py`, one thread per connection);
handlers change state under `service.lock`. `submit` starts a `_run` thread, which queues device tasks
through `AgentManager.prepare` and runs a worker per target; the worker of a device polls the result
file and the task list (`execute`), that of an SSH host takes slots and locks and then runs one of the
operations over the SSH engine. The scheduler thread calls `submit`. Everything is stored through
`EncryptedStore`. The GUI polls jobs, loads their results and keeps what it shows by session.

## Modules

| Module | What it is |
|---|---|
| `AgentTasks` | the queue of one device at SERVER, the jobs that use it, and the loop of the device |
| `RemoteCall` | what SERVER promises about an operation handed to a device; implemented by `AgentTasks` |
| `JobService` | jobs from `submit` to the last save, with close, crash and recovery |
| `JobLifecycle` | what an operator may rely on about a job; implemented by `JobService` |
| `Targets` | the threads of a job's targets under slots, locks, backups and cancellation |
| `Scheduler`, `Cron` | schedules, `tick`, operators' calls, recovery; the next time of a cron line |
| `Registry` | which devices SERVER knows: enrolment, removal, and the inventory shared with the GUI |
| `RemoteCommand`, `HostKeys` | one root command over SSH; the file of known hosts |
| `SshdApply` | one change of a machine's `sshd_config`: the thread at SERVER or the tool, and the scripts it sends |
| `Accounts`, `Patches` | one account of one host; a reviewed patch plan and its application |
| `Backups`, `Discovery` | a backup and its comparison; a collection of CI facts |
| `FrontEnd`, `Books`, `Assets`, `Media` | requests and logins; equipment books and CLIENT passwords; the CI registry; ISO images |
| `Transfers` | a file between the GUI and SERVER |
| `Console`, `Panels`, `Pages` | the GUI thread with its workers and dialogs; panels that load; lists made of pages |
| `Logger` | the manager of the loggers |
| `Operations` | `Targets`, `Cron`, `RemoteCommand`, `HostKeys` and the components listed from `Accounts` on, side by side, each in a scenario of its own |
| `MCLiveness` | the components with liveness properties, in the same way |
| other `MC...` | the constants of the small instances |
| `HostProofs`, `ServerProofs`, `ConsoleProofs` | the theorems about `Operations`, by the part of the system |
| other `...Proofs` | the theorems about the module of that name |

### AgentTasks

SERVER's side: `job` is `service.jobs`, `st`, `clock` and `ahead` are the task list of the device
(state, time window and order), `res` the result files, `worker` the thread of each target. One
handler is one step, since it runs under `service.lock`; the exception is `wait_for` in `exchange`,
where a request becomes `waiting` and is resumed by `Wake` after the device record and the list are
read again. `PrepareAhead` and `Execute` are the two places that call `prepare`; `Collect` is one
round of the polling loop of `execute`; `Offer` is the scan that closes tasks on its way and hands
out the first one due.

Device's side: `started`, `outbox` and `history` are the durable state, `pc` the place in `Loop`.
`Begin` is the save of the intent with the start of the operation, `Complete` the save of its
outcome. `GiveUp` is a timeout or a broken connection: the request stays in `reqs` with
`live = FALSE`, so it may still be handled, late, or dropped. `AgentCrash` may come anywhere.

`runs` counts how often the device started a task; `forgotten` collects tasks whose record the
device dropped unacknowledged, ignored at a restart, or aged out of its history. Both are ghosts.

### JobService

One critical section of `service.lock` is one step. `thread` is where `_run` is, `target` the worker of
each host, `disk` the job files. A write that raises leaves the old record or the new one, because
`EncryptedStore.write_bytes` syncs the directories after the rename; `SaveFails` offers both. `pool` counts the
threads of the executor, which starts them as it needs them (`Grow`). When it cannot start one, `pool.submit`
raises with the item already in its queue: `SubmitRejected` shows the job as failed and leaves `thread` queued, and a
thread that is there, or comes with a later job, runs it all the same (`Run`). `fate` tells such a job ("rejected") from one whose
record could not be saved ("refused"). `Stop`
is the `except` branch, which is reached only after the pool of workers has been left, that is, when
every worker has returned. `Crash` loses memory; `Restart` is `__init__`.

### Scheduler

`at` is where `tick` is: it holds the scheduler's lock through its steps, so operators' calls
(`Change` and what is built from it) need `Unlocked`, while operators' jobs, the inventory and `close`
need only `service.lock` and interleave. `fired` counts the submissions for each due time, `wish` is
what the operators of a schedule were last told. A call of `create` or `update` is checked before it waits for the
lock: `Checked` is what the checks let through, `Delay` puts such a call into `edits`, and `Store` stores it under the lock,
whenever that is, without another look at the time; `late` counts the times that were stored after their job had been
submitted. The clock is a bounded counter; the next time of a
repeated schedule is the next instant; what the next instant of a line is, is the subject of `Cron`.

### SshdApply

A transaction is one target of a `security_apply` job, or one record of the plan that
`scripts/security_apply.py` applies. `pc` is its thread, `script` the shell script that the thread has
sent; every command of a script that reads or writes something shared is a step, so two scripts, the
threads and an administrator interleave on `cfg`, `loaded` (what sshd has read) and `lock` (the lock
directory). A thread that stops waiting (`GiveUp`) leaves its script running. The exit trap is the
states `restoring` and `reviving` when `changed=1`, and `Leave`, the `rmdir`; `Signal` runs the trap,
`Kill` does not. A write that is cut off leaves a `Torn` file and says so in `author`, a history
variable that names who wrote the file last. A file is one SSH option, with the value that the policy
looks at, and a set of other edits.

### Registry

`inv` is the inventory file, `bound`, `rec` and `pol` are the bindings, the device records and the
enrolment policy in memory, `boundDisk`, `recDisk` and `polDisk` their files. Handlers hold
`service.lock` and do not interleave, but each replaces several files: `op` is the handler at work, and
one write is one step (`Register`, `Enlist`, `Bind`, `Count`, `Settle` of a registration; `Revoke`,
`Remove`, `Unbind`, `Unlist` of a removal; `Drop` and `WriteRows` of `save_inventory`). A step keeps the
order of the code between memory and file: `save` changes the cache after the write, the bindings and
the policy change before it, and `removed` is set on the cached record itself. A write that raises ends
the handler with the old file or the new one; `Crash` may come between any two steps. `Wait` and `Wake`
are the long poll, the one place where a handler gives the lock up; `Wake` saves the record that is
stored by then. `view` is what the GUI has read when the operator saves the inventory. A name counts the
suffixes that the code adds to make it unique. There is no clock: `seen` says that `last_seen` is the time
of the latest request. `AgentTasks` takes the device for enrolled and models tasks and results;
`Registry` leaves these out.

### Targets

`at` is where the thread of a target is: `waiting` (spread or for an SSH slot), `slotted`, `queued` (for the
lock of its address), `checking`, `cleared`, `backup` and `saving` (with the backup slot), `confirm`, `work`,
`over`. Each place is an acquisition or a critical section of the code; `Leave` is the end of every
`with`, by return or exception. `Exclusive` are the jobs that take the lock of the address, `KindOf` says
which of them make a backup first. A comparison takes the backup slot before the lock (`_target`), a
change after it (`_backup`), and a device only that slot. `version` counts what SERVER did to an address,
`saved` what the backup of a target holds, `early` remembers targets whose job was cancelled before their
first check. An operation ends in any way; how it went is left to the modules below.

### RemoteCommand and HostKeys

`RemoteCommand` is one `execute_root` or `capture_root`: sudo, then su if the marker did not come. Output
is counted in units; host, network and client each move one, and the exit status travels on its own
(`ArriveStatus`), so it can overtake output (`overtaken`, a ghost): then the output is not whole, and a lost marker
makes su run the command a second time (`StartsOnce`, which `RemoteCommand_twice` refutes; `StartsOnceIfRead` is what holds). `HostKeys` has three connections to two
hosts that offer any keys; each reads the file at its start, and a registration is `Lock`, `Load`,
`Decide`, `Replace`, `Register`, with `Crash` between any two, which leaves the copy (`temps`) behind.

### Accounts and Patches

`Accounts`: each operation is a script on the host, step by step (`Lock` is `flock`, `Check` what it looks
at, `Act` the command; for keys `Read`, `WriteTemp`, rename), or the key deployment over SFTP, which takes no
lock. `TimeOut` is SERVER giving up: it may start the next operation while the script goes on. `Edit` is an
administrator; `raced` and `dropped` note where he, or a script that was given up, came in between.
`Patches`: `Review` makes the plan and `Begin` applies it, `MakeUpload`, `Send`, `MakeRoot`, `Copy`,
`Look`, `Install` and `Clean` are the calls of `staged` and of the three ways (`how`); the bytes of every
copy are versions, and the packages of the host are a version as well. Each `mktemp` can be refused, or its output lost
behind the exit status: what SERVER cannot name it does not remove, and `unread`, a ghost, says that such a directory is there.

### Backups and Discovery

`Backups`: `Test` and `Read` are what the archive command does file by file, `Ended` and `Captured` what
SERVER makes of it, `Store`, `Describe` and `Publish` the three writes; `Compare`, `Current` and `Report` are
the comparison with a backup that is `Usable`. `Ended` follows the loop of `capture`: the exit status can be there
before all of the output, and then files are lost with a clean status (`Cut`; `overtaken`, a ghost, names the job). `then` and `now` are ghosts: the versions that each file had
meanwhile. `Discovery`: `Probe`, `Root` and `Limits` read the sections a login can see from a machine that
`Change`s; `Parse` is the row for each family of systems. `cpu`, `smt`, `siblings`, `sockets` are the truth.

### FrontEnd, Books, Assets and Media

`FrontEnd`: a request goes through `Accept`, `Authenticate` (with the remembered logins), `Authorize`, `Run`
and `Close`; a request that saves an account changes the rights of the others. `known` and `entitled` are
ghosts: the password, and then the role, were right since the request came. `Books`: a console loads books,
chooses hosts and starts a job, types a password into a dialog; SERVER compares again at `Submit` and
`Connect`, while others save the inventory and books. `Assets`: `Update` (an operator), `Report` (a device) and
`Place`, `Collected`, `NotCollected` (a job) read and save the record of a host through the copy in memory; a
write that raises leaves either record on disk and the old copy in memory. `acked` and `doubt` follow what
operators were told. `Media`: mounts are stacked at the directory of an identity, the file at the path is
replaced, a plan opens the packages it was given.

### Transfers

`mem` and `disk` are the state of the transfer, `pending` the pending files by name, as the versions of the
chunks in them. `Start`, `Sign`, `Look`, `Note`, `Copy`, `SaveOffset`, `Verify`, `Commit`, `Finish` follow
`run` and `file`; `Remove` is one record of `discard`. A request to SERVER is answered, refused, or lost; a lost one
stays in `late` and may be performed at any later time. A commit that is late compares the size of the pending file and
no more; `byLate`, a ghost, says that it published the target.

### Console, Panels and Pages

`Console`: every GUI handler is a step; a worker's request is in `flight` until its answer is delivered (`Served`
or lost, by `Serve`, `Drop`, `Failed` and the handlers named after what they receive). `dialog` is a modal
question whose event loop lets all other handlers run. `listed` and `chosen` are the equipment book and whether it is the
active one; a book lists its hosts by name, so `CheckedHosts` are these hosts or the rows checked.
`RefreshBooks` asks for the books and `SetBooks` sets the selector back to what it was. `Answer` reads the targets again,
and `dialog.replaced` marks a review whose targets something behind it has replaced. `epoch` is what `work` compares before it delivers.
`Panels`: five views number their requests; `Pages`: the list of a bulk edit and the restored connections are
put together from pages while the list changes and results arrive.

### Cron and Logger

`Cron`: a day has four slots instead of 1440 minutes, a week two days, a month three; `zone` is an
offset that changes once, by up to two slots either way. `NextRun` is the search of `next_run`, with both
folds of a local time. `Logger`: `Look`, `Create`, `Initialize`, `Configure`, `Attach`, `Shutdown` are bodies under
the class-wide lock, the look before the lock is a step of its own; an opening of the file or a log directory can fail.

### Operations and MCLiveness

The components in these two modules share no state with each other, so a behaviour is one of a single
component: `scenario` says which, and the variables of the others do not move. Nothing is lost by that, and
nothing is composed; each property begins with its scenario. In `Operations` a variable is what the component
of the scenario means by it (`at`, `file`, `sent` mean something in several), and one that the component does not have
is `None` and stays so. Its constants are those of the components, renamed where two components mean different things
by one name; `SettingsOK` assumes of them what the `SettingOK` of each component says. `MCOperations` is the small
instance: it chooses the constants and, for `Targets` and `Books`, some of the initial states. There `x1` and `x2` stand
for two things of one kind in every component that has two interchangeable ones, which makes swapping them a symmetry;
`MCLiveness` uses none.

## What the runs check

| Run | Bounds | Shows |
|---|---|---|
| `Operations` | see below; symmetry | every reachable state has its types, and per scenario: `ChangesAreSafe` and `CancelledInTime` (`Targets`), `AccountsHold`, `PatchesHold`, `EngineHolds` (`RemoteCommand`, `HostKeys`), `FrontEndHolds`, `RecordsHold` (`Assets`), `BackupsHold`, `BooksHold`, `ViewsHold` (`Panels`, `Pages`, `Media`), `AlgorithmsAgree` (`Cron`, `Discovery`), `HandlersExact` (`Logger`), `TransfersHold`, `ConsoleHolds` |
| `Liveness` | see Fairness | outcomes of a polling device reach SERVER, jobs end, also on devices that never answer, due schedules are served unless there are more of them than slots, targets do not wait for each other for ever |
| `AgentTasks_safety` | a queue of one, a crash of SERVER or of the device, or two requests in hand | a task is started once while the device has a record of it, a revoked device is cut off, and what operators are told agrees with what the device did (`RemoteCall`), over lost messages and unreadable downloads |
| `AgentTasks_twice` | no crash | violated: a task can run twice |
| `JobService_safety` | two jobs, two hosts, two failed writes, a crash, an unreadable record | slots, passwords, honest status, submissions that were accepted or could not be saved, `JobLifecycle` |
| `Scheduler_safety` | two schedules; failed writes, a crash, a stop, a changed inventory, a call that waits for the lock: two of them, or one and an operator's job | no due time submitted twice, but for late calls, no overlap, off stays off |
| `Scheduler_full` | no fault | violated: a full SERVER disables a repeated schedule |
| `Registry_safety` | two devices, one name, one failing write, a crash | names are unique, admitted devices are listed and bound and counted (`RegistrationsHold`), cut off stays cut off, removed is gone |
| `Registry_contact` | no fault | violated: the time of last contact of a polling device is not saved |
| `SshdApply` | two transactions, two faults, one edit | whose lock it is, settled edits survive, the original is kept, rows tell the truth, nobody is locked out in silence |
| `Console_plan` | one session, two jobs, no lost request | violated: the plan on display is not the plan that the button applies |
| `RemoteCommand_twice` | output of one unit, a limit of two | violated: su starts a command again that sudo had run |

Bounds. `AgentTasks`: one task queued ahead and one backup artifact, each of a job of its own. These are
the two kinds the code treats differently, and one of each is enough for every pairwise race
(head-of-line order, pruning by another task's `prepare`, an outbox taken over by another task). A
history of one id makes ageing out happen; two requests at once is what one device can leave behind
by giving up once. `Few` (in `MCAgentTasks`) lets either a crash or two requests at once happen, not both. `JobService`: two jobs compete for a slot, two hosts let outcomes differ. Two faults
reach a failing save in the handler of a failing save. `Scheduler`: a due time, a later one and the
one after it; two schedules; one operator's job against a limit of two; and two (`MaxTrouble`) of its troubles: a failed
write, a crash, an orderly stop, an inventory change, a call that waits for the lock; `Few`, in `MCScheduler`, lets two of them meet only where no operator's job is in the way (the
proofs are without these bounds). Crashes are bounded by one:
recovery returns to states of the same kind, from which a second crash does nothing new. `SshdApply`: two
transactions, each by a job or the tool, with equal or different addresses and any plan the code can
make; one edit; two faults, which is what it takes for a failing script to fail in its exit trap, or for
a change to be refused by the probe and its rollback to fail. `Registry`: two devices and one name make
every clash of names and two registrations for one place; one failing write, one crash, one new policy and
one saved inventory meet at every step of a handler.

`Operations`: `Targets` has a job of changes with two targets at one address, a job of any kind with a third target
there and a device, two SSH slots and one change of address: the least in which every resource is contended by two
kinds of job. `Accounts` has two operations and an administrator, one timeout: a script that was given up meets
the next. `Patches` has two files, so that one can be replaced between the copies of the other. `RemoteCommand`
prints up to three units against a limit of three: within it, at it and, with the marker, beyond it. `HostKeys`: three
connections, two of them to one host, with two keys. `Transfers`: two chunks (a part, and the rest), two names, two
lost or late requests or failing saves, one stop. `FrontEnd`: two requests, one account, two passwords, a cache of one,
two saved accounts: a right can be given and taken during a request. `Console`: two SERVERs, two sessions, one job,
two requests at a time, every SERVER has one book; `Few` (in `MCOperations`) has books on show only in the first session and before
SERVER takes a job, which is enough for every change of the targets behind a first review. `Console_plan` has the second job
and one host, and nothing there is lost or changed by others. `Assets`, `Books`: two hosts and two addresses, which can be
swapped. `Backups`: two files, two changes, two failures. `Cron`: every line of the small calendar, every change of the clock.
`Logger`: two threads, three handlers, two failures. The calendars, limits and numbers of units are named in `MCOperations`.

`CHECK_DEADLOCK FALSE` stands in all configurations but `SshdApply`: bounded clocks, crashes, faults, edits and jobs are
used up in the end, and then the system is at rest. `SshdApply` has a step `Done` for that, and checks deadlock everywhere
else. That the threads of targets do not block each other is `EveryTargetEnds`.

### Fairness

All liveness is in `Liveness`, whose properties state their fairness as a premise for the scenario they are about.
`JobService.JobProgress`: threads run, every operation returns (each transport has its timeout;
`DeviceJobsEnd` shows it for devices), and the process manager restarts the service
(`deploy/sm-automation.service`, `Restart=on-failure`). `AgentTasks.JobProgress`, the premise of `DeviceJobsEnd`,
assumes of a device nothing at all. `PollProgress` assumes that the loop of the device runs, and strong
fairness of a live request being handled and its answer arriving: a connection tried again and again works in the end.
Nothing is assumed of jobs or time there. `Scheduler.Progress` assumes that the thread runs, jobs end
and the service is restarted; nothing of operators. There are two instances of `Scheduler`: one with a slot for every
schedule, and one with two repeated schedules for one slot and a clock without end, in which a schedule can starve:
`tick` goes through the list from the front, and the job of the first ends and is due again before the second's turn.
`Served` names that case, `Crowded`, and nothing else. `Targets.Progress` is weak fairness of each target's steps: threads
run, and commands, device tasks and backups end because each has a deadline. Weak fairness is enough for the locks: who waits is
served whenever the others have left for good, as every target of the model runs once.

## What the violations show

* `AgentTasks_twice` (docs/pc-handoff.md:266 says durable records prevent duplicate execution). A task
  queued ahead runs, is closed by expiry or cancellation, is pruned by the `prepare` of another job,
  loses its unacknowledged report to the next task's report, and is queued again by `execute`.
* `Scheduler_full` (docs/production-test.md:114 says a schedule waits when SERVER is full). The busy test
  and `submit` are separate acquisitions of the lock; the refusal disables the schedule.
* `Registry_contact` (docs/windows-client-agent.md:64-66 says that the GUI shows the last contact, and a
  device as connected for 120 seconds after it). The long poll replaces the record that `exchange` has
  brought up to date by the stored one, so the time and the version of an idle device are never saved.
* `Console_plan` (docs/patch-files-iso.md:14-15 says that the result of a plan is reviewed and the button applies the
  reviewed plan). Results replace the table in the order they arrive; the plan behind the button is cleared only
  for a list and set only by a plan that completed. The late result of a plan job that failed is shown while
  the button, still enabled, applies the later plan.

* `RemoteCommand_twice` (engine/ssh.py:171 says of a missing marker that the command never started, so that su is safe).
  The loop of `execute_result` ends with the exit status, which can overtake the marker (ssh.py:152).

What the code says of itself and does not keep in five more places is no run of its own; each is modelled, and the property that
would fail names the case:

* `service.py:369` "no remote operation started": the pool can have kept the job (`WordIsKept`, `JobLifecycle`).
* `scheduler.py:93-94` "Choose a future time": checked before the lock is taken (`FiresOnce`).
* `backup/compare.py:90` "capture incomplete; comparison refused": a capture that the exit status cut off passes (`BackupsHold`).
* `desktop/transfers.py:1` "only verified complete files are published": SERVER compares the size (`TransfersHold`).
* `desktop/main.py:794` "Review command": the targets are read again after Yes (`ConsoleHolds`).

## What is proved

All theorems hold for every value of the constants that satisfies the stated assumptions
(finite sets, natural limits, kinds that do not overlap).

* `AgentTasksProofs`. `RunsOnce`: a device starts a task again only after it lost its own record.
  That alone is not inductive. `RunsOnceInv` adds why it holds: every start is in the history, in the
  outbox or in `started` (`StartsRecorded`); a live request carries the device's present outbox and a
  waiting one acknowledges it (`RequestsCurrent`); a task offered is never the one in the outbox
  (`OffersFresh`). `RevokedIsCutOff` is an action property, proved from the types alone.
  `RemoteCallCorrect` is the refinement of `RemoteCall`: a start maps to `Start`, a worker that ends to `Answer`, what the
  device drops to `Forget`, a crash of SERVER to `Lose`, and everything else to a stutter. It needs `RunsOnceInv` for the starts
  and `CallInv` for the answers: a task not due yet, or queued alone and never issued, has not been handed out
  (`HeldBack`); nothing hands out a task that was told to be spared, since its job is no longer active or it is
  closed (`SparedForGood`); and wherever a report of success is, in the outbox, in a request or stored, the task
  was started (`ReportsTrue`).
* `JobServiceProofs`. `JobInv` says that thread, shown status, stored record and hosts of each job agree, also of a job
  that the pool rejected and kept.
  From it: `NothingLeaks`, `StatusIsHonest`, `SubmitKeepsItsWord` (nothing of a submission that could not be saved runs), and
  `LifecycleCorrect`, the refinement of `JobLifecycle`: a rejected job maps to `Reject`, its run to `TakeUp`.
* `SchedulerProofs`. `SchedInv`: an enabled schedule, in memory or on disk, has a due time that was
  submitted less often than it was set, unless it is marked as being dispatched. The mark on disk is what makes `FiresOnce` survive
  a crash: an enabled schedule on disk whose due time was submitted carries it, and recovery turns it
  off. From it: `SubmittedOnce`, `OffIsOff`. `OneEach` adds what keeps the jobs of one schedule apart,
  `JobsAreApart`: none runs while the next one is being submitted, since only the thread submits them.
* `SshdApplyProofs`. One invariant for all of it. `PhaseInv`: what the thread's state says about its
  script; without it nothing rules out that a script is still at work when the row says "failed".
  `FilesInv`: which files exist at each line of a script. `SettledInv`: every file that may become the
  configuration has the settled edits; for the rollback this rests on the digest, since the saved
  original is as old as the file the digest was taken of. `AuthorInv`: who can have written the
  configuration at each line. From it: `LockCorrect`, `EditsSurvive`, `OriginalKept`, `ReportsCorrect`.
  `LockoutsReported` needs a second invariant. `OptionInv`: on a machine that only jobs change there are two
  values of the setting, the former one, with which every job that got beyond its audit had logged in, and
  the recommended one. `AnswerInv`: while the latter is loaded and refuses logins, some transaction answers
  for it, as a script that still restores or died in the lock, a probe or rollback to come, or its row.
* `RegistryProofs`. `RegInv` is what makes the types inductive: a record is in memory exactly if it is on
  disk; only devices with a record are bound, wait or are about to be revoked; at each place of a handler
  its device has a record, except at "register"; and the name of a registration that is not complete has
  at most one suffix, so that one more may be added. From it: `TypeCorrect` and `CutOffHolds`, the action
  property, since every save but that of a new device starts from the record as it is stored.
  `NamesCorrect` needs no strengthening: rows are added under a name that is checked in the same step.
  `RemovedHolds` and `RegistrationsCorrect` need `RegSafe`, nine invariants that only hold together. A handler knows what
  its earlier steps brought about, over all that others save meanwhile (`OpKnows`); memory and disk differ in a record only
  as an interrupted write leaves them (`RecordsAgree`); a name is bound to, and a row carries, only a device whose own it is
  (`OwnNames`), and a live device that holds a name is listed under it by a row of its own or of nobody (`NamesHeld`), so
  who completed its registration is bound to the name in its record (`RegisteredHold`). A device has one name and after its
  removal none (`NamesAreOne`): that is where another removed device of the same name matters, since its removal drops
  what the name is bound to by then. The limit of a code is a matter of counting: `Quota` pays each registration that
  is unfinished with the fault or stop that interrupted it, and `CountsFit` says that devices complete on disk were counted.

The other three modules prove every property that the run `Operations` checks, for every value of the constants that
satisfies `SettingsOK`: the constants are of the kinds the code gives them, bounds are natural numbers, and `None` is
none of the values that it stands beside. Each component has one inductive invariant, shown by a lemma per action; `...Runs`
says that a step of `Operations` in a scenario is a step of its component, and `...Always` combines the two.

* `HostProofs`. `TargetsInv` says who holds what: who may change a host holds the lock of its address (`LocksHeld`), who saves
  a backup holds the backup slot, and the free slots and the targets with a slot add up (`SlotsHeld`, by lemmas on
  cardinalities). That two changes exclude each other is read off `LocksHeld`, since a lock has one holder. From it:
  `TargetsCorrect`, `CancelHonoured`, `SlotsReturned`. `AccountsInv`: a script at work holds the lock of the host, and what
  one drops that another wrote is charged to a script that SERVER gave up (`Meeting`, `Revived`, `DropsMet`); from it
  `AccountsCorrect`. `PatchesInv`: the directories hold what was sent, file by file, and what was sent is what was reviewed
  (`CopiesFit`, `SentReviewed`), without a fault every place of the job has its directories, and a directory without a name is of
  a job that fails (`UnreadFails`); from it `PatchesCorrect`.
  `EngineCorrect` joins two invariants. `RemoteInv`: an attempt that asks for a password has printed nothing, one that runs has
  printed its marker; what it says of output and starts is under the condition that no output was overtaken. `TrustInv`: who registers a key holds the lock, what a connection read is at most older than the
  file (`SeenIsThere`), and from the second look to the replacement it is the file (`LookIsCurrent`).
* `ServerProofs`. `TransfersInv`: names of pending files are given out once, a late chunk is of a version that the source had
  since the record of its file was made (`LateFits`), nobody but late requests touches a file that was verified, and memory and
  disk differ in a record only as a failed save leaves them (`RecordSaved`). From it `TransfersCorrect`, of each step; it does
  not say that a file published by a late commit is one version.
  `FrontEndInv`: the ghosts `known` and `entitled` miss no moment of a request (`NoneMissed`), and a remembered login
  belongs to the account it was remembered with (`FreshIsValid`); from it `FrontEndCorrect`. `RecordsCorrect` needs only that
  every record says where its machine was (`Filed`). `BackupsInv`: while a capture is taken and until it is used, what it has of a
  file is a version of that time, or nothing if the exit status overtook it, or it is marked as incomplete (`CaptureFits`,
  `ContentFits`); from it `BackupsCorrect`.
  `LogInv`: there is one object at most and every thread past creation has it, and the handlers are a pair of the configured
  level or none, whatever an opening did; from it `HandlersCorrect`.
* `ConsoleProofs`. `BooksCorrect` (what a record keeps is a password of the address it was saved for, `BooksKept`).
  `ViewsCorrect` joins three invariants: numbers of requests only grow and two answers under way to one panel differ in them
  (`AnswersDiffer`); what was loaded of a list are as many rows as the next page follows, and if the list did not change, its beginning
  (`LoadFits`); at the directory of an identity there is nothing but its image, and a dialog lists and keeps only
  what is of its image. `AlgorithmsCorrect`: `NextRun` searches day by day, and its correctness is proved without induction over
  days. The least day whose times name something exists, since every set of naturals has a least element (`LeastExists`, from
  the well-founded order of the library); the days between are empty, a candidate of a day is an instant of it that the line names
  (`CronCandidateNamed`) and the other way round (`CronNamedCandidate`), and a change of the clock repeats no day
  (`CronNoDayTwice`). For collections, `RawFits` says that what was read is what the machine had at some moment since the
  first look. `ConsoleInv`: every request of this session is to its SERVER and names jobs of the SERVER it asks, what a
  busy flag waits for is in flight, and while a review is open whose targets nothing has replaced, the targets are among the reviewed; from it `ConsoleCorrect`, an
  action property. `TypesCorrect` collects the types of all components.

Only model-checked: the liveness properties `DeviceJobsEnd`, `PollingReports`, `JobsConclude`, `Served` and `EveryTargetEnds`
(temporal reasoning under fairness is outside the prover's reach). The runs that find a violation have nothing to prove.

## What is not modelled

Parsers (monitoring, audits, package managers' output), the evaluation of SSH policies and their Include files,
spreadsheets, layouts, configuration, installers and scripts are local and sequential; their errors show in ordinary
tests. Inside the modelled parts:

* agents: contents of tasks and results, signatures and challenges, rates, capacities and networks, the filing of the results of
  `ci_inventory` jobs (`agents.py:397-400`, `418-420`; the reports that devices send on their own, 142-154, are in `Assets`), and more than one device at the queue (devices share nothing
  but the jobs);
* jobs and schedules: baselines, listings, spreading beyond "early, due, late", the limit of 100 schedules; in `Scheduler` the
  cron line is the next instant, and in `Cron` a dispatch is at most one slot late;
* SSH: interactive shells, SFTP sessions, key files; the permission policy, and a reload that reads the file while
  an administrator writes it;
* `Media`: an image is replaced, never written in place; `Logger`: masking of texts, and a record in flight during
  `shutdown`, which can open the file again;
* GUI: widgets, validation of input, and dialogs other than those named above; more than one book of a SERVER, and a change of
  the address of a host that a book goes on listing under the same name.

Seen in the code while modelling, without a run of their own: `Agent.cs:151` skips the report of an
interrupted task when an older report fills the outbox, and the task may run again; `agents.py:389`
says "cancelled before issue" of a task that was pruned and queued again after it had run;
`scheduler.py:201-204` goes on with other schedules after a failed save if the next save works,
though the comment at 211 says that scheduling stops; `scheduler.py:188-193` checks the target's
address and submits under different locks, so a job can go to an address changed in between;
`service.py:649` and `655`: one write that raises makes `_run` stop taking outcomes in, and those of the
other targets, whose workers still run, are lost. In the registry: `service.py:184` revokes every bound
device that is missing from a list which the GUI read before the device registered
(`desktop/main.py:1547-1553`), and such a device has to be installed again; `agents.py:299-302`, the
removal of an old device that left its name to a new one, drops the binding and the row of the new one
(`RegistrationsHold` and `RemovedIsGone` make an exception of it, `NameRemoved`); the removal of a device whose registration was
interrupted leaves a row of another name; a crash after the row and before the binding, followed by a saved
inventory, which drops the identity of rows, gives the device a second row; and a removal that fails
half-way has already marked the cached record, so the device is no longer listed and the removal cannot
be repeated from the GUI while SERVER runs. A job that the pool rejected and ran all the same is not the last job of its
schedule, so a job of the same schedule can run beside it once an operator resumes it (`NoOverlap` speaks of jobs that were
taken). Keys: `key_deploy.py` edits
`authorized_keys` without the lock of the account scripts, so a script that SERVER gave up can undo it. Front end: polling
devices hold request slots for up to 15 seconds each. GUI: the review of a file transfer names only the first of several
hosts (`desktop/main.py:807`); a password typed into a dialog that was opened before the address of the host changed is
saved for the new address (`service.py:206-225`); a list that changes between two pages skips a row; the ISO search
(`desktop/main.py:1112`) takes answers in the order they come.
